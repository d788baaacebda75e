------------------------------ MODULE DataLock ------------------------------
(***************************************************************************)
(* The single-writer gate of the data directories (data_lock.rs): several  *)
(* cores run DataLock::acquire at once, one system call per step.          *)
(*                                                                         *)
(* A path leads to a directory (an inode) or to nothing; the kernel lock   *)
(* and the record file belong to the inode, so a directory that is removed *)
(* and created again is a new one.  A record is the core it names, Corrupt *)
(* when it cannot be read, or NoOne when there is none.  Directories in    *)
(* Existing are there from the start and no acquire removes them.          *)
(***************************************************************************)
EXTENDS Naturals, Sequences, FiniteSets

CONSTANTS
  Procs,    \* cores; a core that is started again is another one
  Dirs,     \* paths
  Anchors,  \* per core: ledger_anchors, its directories in order
  Hatch,    \* the cores started with --allow-shared-data
  Legacy,   \* cores of an older build that write already: records, no lock
  Existing, \* directories that are there at the start
  Records,  \* per directory: the records it may have at the start
  NoOne, Corrupt,
  MaxInodes, MaxFaults \* bounds: directories ever made, failing system calls

\* ledger_anchors gives a core its directories without repetition (a core with
\* every log off has none, and is not one of Procs). A core that writes already
\* has its directories and a record in each, and no record at the start names a
\* core that has not run yet.
ASSUME AnchorsAssumption ==
  /\ Anchors \in [Procs -> Seq(Dirs)]
  /\ \A p \in Procs : Anchors[p] # <<>>
                       /\ \A i, j \in DOMAIN Anchors[p] :
                            i # j => Anchors[p][i] # Anchors[p][j]
  /\ Hatch \subseteq Procs /\ Legacy \subseteq Procs \ Hatch
  /\ Existing \subseteq Dirs
  /\ \A p \in Legacy : \A i \in DOMAIN Anchors[p] :
       Anchors[p][i] \in Existing /\ Records[Anchors[p][i]] = {p}
  /\ \A d \in Existing : \A p \in Procs \cap Records[d] :
       p \in Legacy /\ \E i \in DOMAIN Anchors[p] : Anchors[p][i] = d

ASSUME BoundsAssumption ==
  /\ MaxInodes \in Nat /\ MaxFaults \in Nat
  /\ IsFiniteSet(Existing) /\ Cardinality(Existing) <= MaxInodes
  /\ NoOne \notin Procs /\ Corrupt \notin Procs /\ NoOne # Corrupt

Inodes == 1..MaxInodes
Steps == {"idle", "check", "create", "open", "lock", "owner", "read",
          "remove", "unlock", "ensure", "write", "serve", "refused", "dead"}
Claims == [dir : Dirs, inode : Inodes, created : BOOLEAN]

VARIABLES
  pc,       \* per core: the next system call
  at,       \* per core: the anchor it is at
  created,  \* per core: DirClaim::take made the directory
  handle,   \* per core: the directory it opened, 0 for none
  claims,   \* per core: its DirClaims, in the order taken
  shared,   \* per core: the directories decided as Shared
  busy,     \* per core: an anchor was refused
  path,     \* per path: its inode, 0 for none
  holder,   \* per inode: who has the kernel lock
  record,   \* per inode: .core-lock
  inodes,   \* inodes made
  faults    \* failed calls

local == <<at, created, handle, claims, shared, busy>>
disk == <<path, holder, record, inodes>>
vars == <<pc, local, disk, faults>>

Alive(p) == pc[p] \notin {"idle", "dead"}
Anchor(p) == Anchors[p][at[p]]
DirsOf(p) == {Anchors[p][i] : i \in DOMAIN Anchors[p]}

\* read_lock: what the path leads to now.
ReadLock(d) == IF path[d] = 0 THEN NoOne ELSE record[path[d]]

Numbering == CHOOSE n \in [Existing -> 1..Cardinality(Existing)] :
               \A d, e \in Existing : n[d] = n[e] => d = e

Init ==
  /\ pc = [p \in Procs |-> IF p \in Legacy THEN "serve" ELSE "idle"]
  /\ at = [p \in Procs |-> 1]
  /\ created = [p \in Procs |-> FALSE]
  /\ handle = [p \in Procs |-> 0]
  /\ claims = [p \in Procs |-> <<>>]
  /\ shared = [p \in Procs |-> {}]
  /\ busy = [p \in Procs |-> FALSE]
  /\ path = [d \in Dirs |-> IF d \in Existing THEN Numbering[d] ELSE 0]
  /\ holder = [i \in Inodes |-> NoOne]
  /\ record \in [Inodes -> Procs \cup {NoOne, Corrupt}]
  /\ \A i \in Inodes :
       IF \E d \in Existing : Numbering[d] = i
       THEN \A d \in Existing : Numbering[d] = i => record[i] \in Records[d]
       ELSE record[i] = NoOne
  /\ inodes = Cardinality(Existing)
  /\ faults = 0

Start(p) ==
  /\ pc[p] = "idle"
  /\ pc' = [pc EXCEPT ![p] = "check"]
  /\ UNCHANGED <<local, disk, faults>>

-----------------------------------------------------------------------------
(* Phase 1: decide one anchor after the other *)

\* The anchor is decided: on to the next one, or to phase 2, or to the refusal.
Decided(p, refuse) ==
  LET more == at[p] < Len(Anchors[p])
  IN /\ busy' = [busy EXCEPT ![p] = @ \/ refuse]
     /\ at' = [at EXCEPT ![p] = IF more THEN @ + 1 ELSE 1]
     /\ pc' = [pc EXCEPT ![p] = IF more THEN "check"
                                ELSE IF busy[p] \/ refuse THEN "remove" ELSE "ensure"]

\* DirClaim::take: is_dir.
CheckDir(p) ==
  /\ pc[p] = "check"
  /\ pc' = [pc EXCEPT ![p] = IF path[Anchor(p)] = 0 THEN "create" ELSE "open"]
  /\ created' = [created EXCEPT ![p] = path[Anchor(p)] = 0]
  /\ UNCHANGED <<at, handle, claims, shared, busy, disk, faults>>

\* create_dir_all: makes the directory unless someone else did.
MakeDir(d) ==
  IF path[d] # 0 THEN UNCHANGED <<path, inodes>>
  ELSE /\ inodes < MaxInodes
       /\ inodes' = inodes + 1
       /\ path' = [path EXCEPT ![d] = inodes + 1]

CreateDir(p) ==
  /\ pc[p] = "create"
  /\ MakeDir(Anchor(p))
  /\ pc' = [pc EXCEPT ![p] = "open"]
  /\ UNCHANGED <<local, holder, record, faults>>

\* The lock API is of no use for the anchor: refused, unless the hatch is
\* given and the record alone has to do.
TakeFails(p) ==
  IF p \in Hatch
  THEN pc' = [pc EXCEPT ![p] = "read"] /\ UNCHANGED <<at, busy>>
  ELSE Decided(p, TRUE)

OpenDir(p) ==
  /\ pc[p] = "open"
  /\ handle' = [handle EXCEPT ![p] = path[Anchor(p)]]
  /\ IF path[Anchor(p)] = 0 THEN TakeFails(p)
     ELSE pc' = [pc EXCEPT ![p] = "lock"] /\ UNCHANGED <<at, busy>>
  /\ UNCHANGED <<created, claims, shared, disk, faults>>

\* Mutant: the lock is advice and the record decides, as before issue 233.
TryLockAdvisory(p) ==
  /\ pc[p] = "lock"
  /\ holder' = [holder EXCEPT ![handle[p]] = p]
  /\ claims' = [claims EXCEPT ![p] =
       Append(@, [dir |-> Anchor(p), inode |-> handle[p], created |-> created[p]])]
  /\ pc' = [pc EXCEPT ![p] = "read"]
  /\ UNCHANGED <<at, created, handle, shared, busy, path, record, inodes, faults>>

\* try_lock on the open directory.
TryLock(p) ==
  /\ pc[p] = "lock"
  /\ IF holder[handle[p]] = NoOne
     THEN /\ holder' = [holder EXCEPT ![handle[p]] = p]
          /\ claims' = [claims EXCEPT ![p] =
               Append(@, [dir |-> Anchor(p), inode |-> handle[p],
                          created |-> created[p]])]
          /\ pc' = [pc EXCEPT ![p] = "read"]
     ELSE pc' = [pc EXCEPT ![p] = "owner"] /\ UNCHANGED <<holder, claims>>
  /\ UNCHANGED <<at, created, handle, shared, busy, path, record, inodes, faults>>

LockError(p) ==
  /\ pc[p] = "lock"
  /\ faults < MaxFaults /\ faults' = faults + 1
  /\ TakeFails(p)
  /\ UNCHANGED <<created, handle, claims, shared, disk>>

\* Mutant: the owner is waited for until it has recorded itself.
ReadOwnerWaits(p) ==
  LET ok == p \in Hatch /\ ReadLock(Anchor(p)) \in Procs
  IN /\ pc[p] = "owner" /\ ReadLock(Anchor(p)) # NoOne
     /\ shared' = [shared EXCEPT ![p] = IF ok THEN @ \cup {Anchor(p)} ELSE @]
     /\ Decided(p, ~ok)
     /\ UNCHANGED <<created, handle, claims, disk, faults>>

\* decide, the kernel lock is held: shared under the hatch when the record can
\* be read, busy otherwise.
ReadOwner(p) ==
  LET ok == p \in Hatch /\ ReadLock(Anchor(p)) \in Procs
  IN /\ pc[p] = "owner"
     /\ shared' = [shared EXCEPT ![p] = IF ok THEN @ \cup {Anchor(p)} ELSE @]
     /\ Decided(p, ~ok)
     /\ UNCHANGED <<created, handle, claims, disk, faults>>

\* Mutant: under the hatch the holder of the lock takes the directory over.
ReadRecordTakes(p) ==
  LET r == ReadLock(Anchor(p))
  IN /\ pc[p] = "read"
     /\ Decided(p, p \notin Hatch /\ ((r \in Procs /\ Alive(r)) \/ r = Corrupt))
     /\ UNCHANGED <<created, handle, claims, shared, disk, faults>>

\* decide as the holder: the record names nobody, a dead core, a live one of an
\* older build, or cannot be read.
ReadRecord(p) ==
  LET r == ReadLock(Anchor(p))
      live == r \in Procs /\ Alive(r)
  IN /\ pc[p] = "read"
     /\ shared' = [shared EXCEPT ![p] = IF live /\ p \in Hatch THEN @ \cup {Anchor(p)}
                                        ELSE @]
     /\ Decided(p, p \notin Hatch /\ (live \/ r = Corrupt))
     /\ UNCHANGED <<created, handle, claims, disk, faults>>

-----------------------------------------------------------------------------
(* A refusal gives every claim back *)

\* Mutant: the claims are dropped, and with them only the descriptors, which a
\* forked child may still have.
UnlockedByClose(p) == holder

\* Drop of a DirClaim.
Unlocked(p) == [holder EXCEPT ![Head(claims[p]).inode] = NoOne]

\* DirClaim::release, first half: a directory this claim created goes again
\* while it is empty.
RemoveDir(p) ==
  /\ pc[p] = "remove"
  /\ IF claims[p] = <<>>
     THEN pc' = [pc EXCEPT ![p] = "refused"] /\ UNCHANGED path
     ELSE LET c == Head(claims[p])
          IN /\ pc' = [pc EXCEPT ![p] = "unlock"]
             /\ path' = IF c.created /\ ReadLock(c.dir) = NoOne
                        THEN [path EXCEPT ![c.dir] = 0] ELSE path
  /\ UNCHANGED <<local, holder, record, inodes, faults>>

\* Second half: the kernel lock.
Unlock(p) ==
  /\ pc[p] = "unlock"
  /\ holder' = Unlocked(p)
  /\ claims' = [claims EXCEPT ![p] = Tail(@)]
  /\ pc' = [pc EXCEPT ![p] = "remove"]
  /\ UNCHANGED <<at, created, handle, shared, busy, path, record, inodes, faults>>

-----------------------------------------------------------------------------
(* Phase 2: write the records *)

\* The anchor's record stands: the next one, or the core serves.
Recorded(p) ==
  IF at[p] < Len(Anchors[p])
  THEN /\ at' = [at EXCEPT ![p] = @ + 1]
       /\ pc' = [pc EXCEPT ![p] = "ensure"]
  ELSE at' = at /\ pc' = [pc EXCEPT ![p] = "serve"]

SkipShared(p) ==
  /\ pc[p] = "ensure" /\ Anchor(p) \in shared[p]
  /\ Recorded(p)
  /\ UNCHANGED <<created, handle, claims, shared, busy, disk, faults>>

\* write_lock: create_dir_all.
EnsureDir(p) ==
  /\ pc[p] = "ensure" /\ Anchor(p) \notin shared[p]
  /\ MakeDir(Anchor(p))
  /\ pc' = [pc EXCEPT ![p] = "write"]
  /\ UNCHANGED <<local, holder, record, faults>>

\* write_lock: the temporary file and the rename.
WriteRecord(p) ==
  /\ pc[p] = "write" /\ path[Anchor(p)] # 0
  /\ record' = [record EXCEPT ![path[Anchor(p)]] = p]
  /\ Recorded(p)
  /\ UNCHANGED <<created, handle, claims, shared, busy, path, holder, inodes, faults>>

Freed(p) == [i \in Inodes |-> IF holder[i] = p THEN NoOne ELSE holder[i]]

\* The record cannot be written: the claims are dropped, nothing is removed.
WriteFails(p) ==
  /\ pc[p] = "write"
  /\ IF path[Anchor(p)] = 0 THEN UNCHANGED faults
     ELSE faults < MaxFaults /\ faults' = faults + 1
  /\ pc' = [pc EXCEPT ![p] = "refused"]
  /\ holder' = Freed(p)
  /\ claims' = [claims EXCEPT ![p] = <<>>]
  /\ UNCHANGED <<at, created, handle, shared, busy, path, record, inodes>>

\* The process ends, by itself or not: the kernel drops its locks.
Die(p) ==
  /\ Alive(p)
  /\ pc' = [pc EXCEPT ![p] = "dead"]
  /\ holder' = Freed(p)
  /\ claims' = [claims EXCEPT ![p] = <<>>]
  /\ UNCHANGED <<at, created, handle, shared, busy, path, record, inodes, faults>>

Acquire(p) ==
  \/ CheckDir(p) \/ CreateDir(p) \/ OpenDir(p) \/ TryLock(p) \/ LockError(p)
  \/ ReadOwner(p) \/ ReadRecord(p) \/ RemoveDir(p) \/ Unlock(p)
  \/ SkipShared(p) \/ EnsureDir(p) \/ WriteRecord(p) \/ WriteFails(p)

Next == \E p \in Procs : Start(p) \/ Acquire(p) \/ Die(p)

\* A core that runs gets on with its system calls; nothing makes it die.
Spec == Init /\ [][Next]_vars /\ \A p \in Procs : WF_vars(Acquire(p))

-----------------------------------------------------------------------------
(* Properties *)

TypeOK ==
  /\ pc \in [Procs -> Steps]
  /\ at \in [Procs -> Nat] /\ \A p \in Procs : at[p] \in DOMAIN Anchors[p]
  /\ created \in [Procs -> BOOLEAN]
  /\ handle \in [Procs -> 0..MaxInodes]
  /\ claims \in [Procs -> Seq(Claims)]
  /\ shared \in [Procs -> SUBSET Dirs] /\ busy \in [Procs -> BOOLEAN]
  /\ inodes \in 0..MaxInodes
  /\ path \in [Dirs -> Nat] /\ \A d \in Dirs : path[d] <= inodes
  /\ holder \in [Inodes -> Procs \cup {NoOne}]
  /\ record \in [Inodes -> Procs \cup {NoOne, Corrupt}]
  /\ faults \in 0..MaxFaults

Gate == INSTANCE WriteGate WITH
          Dirs <- Existing, Uses <- [p \in Procs |-> DirsOf(p)], First <- Legacy,
          writing <- {p \in Procs : pc[p] = "serve"}

\* The system calls of all cores together implement the gate: for directories
\* that are there, a core starts to write all of them in one step, and never
\* beside another that did not ask for it (data_lock.rs:360, issue 233).
ImplementsGate == Gate!Spec

\* The record of a core that writes stays while it writes, so that an operator
\* and a third core can name it; only a core under the hatch, where the lock API
\* failed, may miss it or be missed (data_lock.rs:112-118, 394).
LiveOwnerKeepsRecord ==
  [][\A d \in Existing :
       LET owner == record[path[d]]
           writer == record'[path[d]]
       IN owner \in Procs /\ owner # writer /\ pc[owner] = "serve"
          => \E p \in {owner, writer} \cap Hatch : holder[path[d]] # p]_vars

\* A core in the middle of its acquire always comes to an end of it: it waits
\* for nobody, and nobody's death or refusal leaves a lock behind that stops it
\* (data_lock.rs:98).
AcquireEnds ==
  \A p \in Procs : pc[p] = "check" ~> pc[p] \in {"serve", "refused", "dead"}

\* A refused core leaves no lock and no claim behind, however it was refused
\* (data_lock.rs:355-359, 549).
RefusalLeavesNothing ==
  \A p \in Procs : pc[p] \in {"refused", "dead"} =>
                     \A i \in Inodes : holder[i] # p

-----------------------------------------------------------------------------
(* What the source says and the code does not keep; no run lists it *)

\* What data_lock.rs:481-483 says of a directory an acquire created: "a second
\* core must take this same lock before it can write anything into it".
OneWriterEverywhere ==
  \A p, q \in Procs :
    p # q /\ pc[p] = "serve" /\ pc[q] = "serve" /\ {p, q} \cap Hatch = {}
    => DirsOf(p) \cap DirsOf(q) = {}
=============================================================================
