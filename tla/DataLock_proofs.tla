--------------------------- MODULE DataLock_proofs ---------------------------
(***************************************************************************)
(* Proofs about module DataLock: what a refusal leaves behind, the record  *)
(* of a core that writes, and that the system calls of all cores together  *)
(* implement the gate of WriteGate.                                        *)
(***************************************************************************)
EXTENDS DataLock, FiniteSetTheorems, FunctionTheorems, SequenceTheorems, TLAPS

Deciding == {"check", "create", "open", "lock", "owner", "read"}
Passed == {"ensure", "write", "serve"}

\* Core p is done with the decision on its anchor d.
Settled(p, d) ==
  \E i \in DOMAIN Anchors[p] :
    Anchors[p][i] = d /\ (pc[p] \in Passed \/ (pc[p] \in Deciding /\ i < at[p]))

\* Two paths never lead to the same directory, and the directories of Existing
\* stay where they are.
PathsSound ==
  /\ \A d, e \in Dirs : path[d] = path[e] /\ path[d] # 0 => d = e
  /\ \A d \in Existing : path[d] # 0

\* A claim that created its directory is never one of an existing directory.
NewSound ==
  \A p \in Procs :
    /\ pc[p] \in {"create", "open", "lock"} /\ Anchor(p) \in Existing => ~created[p]
    /\ \A k \in DOMAIN claims[p] : claims[p][k].created => claims[p][k].dir \notin Existing

\* A core about to lock has a directory open; the one its path leads to, when
\* that path does not change.
HandleSound ==
  \A p \in Procs : pc[p] = "lock" =>
    handle[p] # 0 /\ (Anchor(p) \in Existing => handle[p] = path[Anchor(p)])

\* The claims of a core are the kernel locks it has, each once.
ClaimsExact ==
  \A p \in Procs :
    /\ \A k \in DOMAIN claims[p] : holder[claims[p][k].inode] = p
    /\ \A k, l \in DOMAIN claims[p] : claims[p][k].inode = claims[p][l].inode => k = l
    /\ \A i \in Inodes : holder[i] = p => \E k \in DOMAIN claims[p] : claims[p][k].inode = i

\* What is known of a core from the step it is at.
StepsSound ==
  \A p \in Procs :
    /\ pc[p] \in {"idle", "dead", "refused"} \/ p \in Legacy => claims[p] = <<>>
    /\ pc[p] = "idle" => at[p] = 1
    /\ pc[p] = "unlock" => claims[p] # <<>>
    /\ pc[p] \in Passed => ~busy[p]
    /\ pc[p] = "write" => Anchor(p) \notin shared[p]
    /\ p \in Legacy => pc[p] \in {"serve", "dead"}

\* A core that did not ask for sharing and is not refused so far has the kernel
\* lock of every existing directory it has decided.
LocksHeld ==
  \A p \in Procs \ (Hatch \cup Legacy) : \A d \in Existing :
    /\ Settled(p, d) /\ ~busy[p] => holder[path[d]] = p
    /\ pc[p] = "read" /\ Anchor(p) = d => holder[path[d]] = p

\* While a core of an older build writes, its records stand, and whoever has
\* decided one of its directories was refused or shares it.
LegacyKept ==
  \A q \in Legacy : pc[q] = "serve" =>
    \A d \in DirsOf(q) :
      /\ record[path[d]] = q
      /\ \A p \in Procs \ Legacy : Settled(p, d) /\ ~busy[p] => p \in Hatch /\ d \in shared[p]

\* A record names a core that has the directory among its anchors.
RecordsSound ==
  \A d \in Existing : record[path[d]] \in Procs => d \in DirsOf(record[path[d]])

IInv ==
  /\ TypeOK /\ PathsSound /\ NewSound /\ HandleSound /\ ClaimsExact
  /\ StepsSound /\ LocksHeld /\ LegacyKept /\ RecordsSound

-----------------------------------------------------------------------------
(* Constants and sequences *)

\* Anchors are non-empty sequences of paths.
LEMMA AnchorFacts ==
  ASSUME NEW p \in Procs
  PROVE  /\ Len(Anchors[p]) \in Nat \ {0}
         /\ DOMAIN Anchors[p] = 1..Len(Anchors[p])
         /\ \A i \in DOMAIN Anchors[p] : Anchors[p][i] \in Dirs
<1>1. Anchors[p] \in Seq(Dirs) /\ Anchors[p] # <<>>
  BY AnchorsAssumption
<1> QED
  BY <1>1

\* The existing directories have distinct inodes at the start.
LEMMA NumberingInjective ==
  /\ Cardinality(Existing) \in 0..MaxInodes
  /\ Numbering \in [Existing -> 1..Cardinality(Existing)]
  /\ \A d, e \in Existing : Numbering[d] = Numbering[e] => d = e
<1>1. IsFiniteSet(Existing) /\ Cardinality(Existing) \in Nat
  BY BoundsAssumption, FS_CardinalityType
<1>2. ExistsBijection(Existing, 1..Cardinality(Existing))
  BY <1>1, FS_CardinalityType, Fun_ExistsBijSymmetric
<1>3. PICK n \in Bijection(Existing, 1..Cardinality(Existing)) : TRUE
  BY <1>2, Fun_ExistsBij
<1>4. n \in [Existing -> 1..Cardinality(Existing)]
      /\ \A d, e \in Existing : n[d] = n[e] => d = e
  BY <1>3, Fun_BijectionProperties
<1> QED
  BY <1>1, <1>4, BoundsAssumption DEF Numbering

-----------------------------------------------------------------------------
(* Types *)

\* The next anchor is an anchor.
LEMMA DecidedTypes ==
  ASSUME TypeOK, NEW p \in Procs, NEW refuse \in BOOLEAN, Decided(p, refuse)
  PROVE  /\ pc' \in [Procs -> Steps] /\ busy' \in [Procs -> BOOLEAN]
         /\ at' \in [Procs -> Nat] /\ \A q \in Procs : at'[q] \in DOMAIN Anchors[q]
  BY AnchorFacts, SMTT(20) DEF TypeOK, Decided, Steps

\* A process that does not get a lock moves on to a step of its list.
LEMMA TakeFailsTypes ==
  ASSUME TypeOK, NEW p \in Procs, TakeFails(p)
  PROVE  /\ pc' \in [Procs -> Steps] /\ busy' \in [Procs -> BOOLEAN]
         /\ at' \in [Procs -> Nat] /\ \A q \in Procs : at'[q] \in DOMAIN Anchors[q]
<1>1. CASE p \in Hatch
  BY <1>1 DEF TypeOK, TakeFails, Steps
<1>2. CASE p \notin Hatch
  BY <1>2, DecidedTypes DEF TakeFails
<1> QED
  BY <1>1, <1>2

\* A process that wrote its record moves on to a step of its list.
LEMMA RecordedTypes ==
  ASSUME TypeOK, NEW p \in Procs, Recorded(p)
  PROVE  /\ pc' \in [Procs -> Steps]
         /\ at' \in [Procs -> Nat] /\ \A q \in Procs : at'[q] \in DOMAIN Anchors[q]
<1>1. CASE at[p] < Len(Anchors[p])
  <2>1. at[p] + 1 \in DOMAIN Anchors[p] /\ at[p] + 1 \in Nat
    BY <1>1, AnchorFacts DEF TypeOK
  <2>2. at' = [at EXCEPT ![p] = at[p] + 1] /\ pc' = [pc EXCEPT ![p] = "ensure"]
    BY <1>1 DEF Recorded
  <2> QED
    BY <2>1, <2>2 DEF TypeOK, Steps
<1>2. CASE ~(at[p] < Len(Anchors[p]))
  BY <1>2 DEF TypeOK, Recorded, Steps
<1> QED
  BY <1>1, <1>2

\* A directory that is made gets an inode within the bound.
LEMMA MakeDirTypes ==
  ASSUME TypeOK, NEW d \in Dirs, MakeDir(d)
  PROVE  /\ inodes' \in 0..MaxInodes
         /\ path' \in [Dirs -> Nat] /\ \A e \in Dirs : path'[e] <= inodes'
<1>1. CASE path[d] # 0
  BY <1>1 DEF TypeOK, MakeDir
<1>2. CASE path[d] = 0
  <2>1. inodes' = inodes + 1 /\ path' = [path EXCEPT ![d] = inodes + 1] /\ inodes < MaxInodes
    BY <1>2 DEF MakeDir
  <2>2. inodes \in Nat /\ MaxInodes \in Nat /\ path \in [Dirs -> Nat]
        /\ \A e \in Dirs : path[e] <= inodes
    BY BoundsAssumption DEF TypeOK
  <2> QED
    BY <2>1, <2>2
<1> QED
  BY <1>1, <1>2

\* The locks without those of one process are locks.
LEMMA FreedTypes ==
  ASSUME TypeOK, NEW p \in Procs
  PROVE  Freed(p) \in [Inodes -> Procs \cup {NoOne}]
  BY DEF TypeOK, Freed

\* Every step keeps the types.
LEMMA TypesKept ==
  ASSUME TypeOK, HandleSound, StepsSound, [Next]_vars
  PROVE  TypeOK'
<1>1. CASE UNCHANGED vars
  BY <1>1 DEF vars, local, disk, TypeOK
<1>2. ASSUME NEW p \in Procs, Start(p) \/ Acquire(p) \/ Die(p)
      PROVE  TypeOK'
  <2> USE DEF local, disk
  <2>a. Anchor(p) \in Dirs
    BY AnchorFacts DEF TypeOK, Anchor
  <2>1. CASE Start(p)
    BY <2>1 DEF TypeOK, Start, Steps
  <2>2. CASE CheckDir(p)
    BY <2>2 DEF TypeOK, CheckDir, Steps
  <2>3. CASE CreateDir(p)
    BY <2>3, <2>a, MakeDirTypes DEF TypeOK, CreateDir, Steps
  <2>4. CASE OpenDir(p)
    <3>1. handle' \in [Procs -> 0..MaxInodes]
      <4>1. path[Anchor(p)] \in 0..MaxInodes
        BY <2>a, BoundsAssumption DEF TypeOK
      <4> QED
        BY <2>4, <4>1 DEF TypeOK, OpenDir
    <3>2. CASE path[Anchor(p)] = 0
      BY <2>4, <3>1, <3>2, TakeFailsTypes DEF TypeOK, OpenDir
    <3>3. CASE path[Anchor(p)] # 0
      BY <2>4, <3>1, <3>3 DEF TypeOK, OpenDir, Steps
    <3> QED
      BY <3>2, <3>3
  <2>5. CASE TryLock(p)
    <3>1. handle[p] \in Inodes
      BY <2>5 DEF TypeOK, TryLock, HandleSound, Inodes
    <3>2. [dir |-> Anchor(p), inode |-> handle[p], created |-> created[p]] \in Claims
      BY <3>1, <2>a DEF TypeOK, Claims
    <3>3. Append(claims[p], [dir |-> Anchor(p), inode |-> handle[p], created |-> created[p]])
            \in Seq(Claims)
      BY <3>2, AppendProperties DEF TypeOK
    <3>4. holder' \in [Inodes -> Procs \cup {NoOne}] /\ pc' \in [Procs -> Steps]
      <4>1. /\ holder' = holder \/ holder' = [holder EXCEPT ![handle[p]] = p]
            /\ pc' = [pc EXCEPT ![p] = "read"] \/ pc' = [pc EXCEPT ![p] = "owner"]
        BY <2>5 DEF TryLock
      <4>2. holder \in [Inodes -> Procs \cup {NoOne}] /\ pc \in [Procs -> Steps]
        BY DEF TypeOK
      <4>3. holder' \in [Inodes -> Procs \cup {NoOne}]
        BY <4>1, <4>2
      <4>4. pc' \in [Procs -> Steps]
        BY <4>1, <4>2 DEF Steps
      <4> QED
        BY <4>3, <4>4
    <3>5. claims' \in [Procs -> Seq(Claims)]
      BY <2>5, <3>3 DEF TypeOK, TryLock
    <3> QED
      BY <2>5, <3>4, <3>5 DEF TypeOK, TryLock
  <2>6. CASE LockError(p)
    BY <2>6, TakeFailsTypes, BoundsAssumption DEF TypeOK, LockError
  <2>7. CASE ReadOwner(p)
    <3>1. shared' \in [Procs -> SUBSET Dirs]
      BY <2>7, <2>a DEF TypeOK, ReadOwner
    <3> QED
      BY <2>7, <3>1, DecidedTypes DEF TypeOK, ReadOwner
  <2>8. CASE ReadRecord(p)
    <3>1. shared' \in [Procs -> SUBSET Dirs]
      BY <2>8, <2>a DEF TypeOK, ReadRecord
    <3> QED
      BY <2>8, <3>1, DecidedTypes DEF TypeOK, ReadRecord
  <2>9. CASE RemoveDir(p)
    <3>1. pc' \in [Procs -> Steps]
      <4>1. pc' = [pc EXCEPT ![p] = "refused"] \/ pc' = [pc EXCEPT ![p] = "unlock"]
        BY <2>9 DEF RemoveDir
      <4> QED
        BY <4>1 DEF TypeOK, Steps
    <3>2. path' = path \/ \E d : path' = [path EXCEPT ![d] = 0]
      BY <2>9 DEF RemoveDir
    <3>3. path' \in [Dirs -> Nat] /\ \A e \in Dirs : path'[e] <= inodes
      <4>1. CASE path' = path
        BY <4>1 DEF TypeOK
      <4>2. ASSUME NEW d, path' = [path EXCEPT ![d] = 0]
            PROVE  path' \in [Dirs -> Nat] /\ \A e \in Dirs : path'[e] <= inodes
        <5>1. path \in [Dirs -> Nat] /\ (\A e \in Dirs : path[e] <= inodes) /\ 0 <= inodes
          BY DEF TypeOK
        <5> QED
          BY <4>2, <5>1
      <4> QED
        BY <3>2, <4>1, <4>2
    <3> QED
      BY <2>9, <3>1, <3>2, <3>3 DEF TypeOK, RemoveDir
  <2>10. CASE Unlock(p)
    <3>1. claims[p] \in Seq(Claims) /\ claims[p] # <<>>
      BY <2>10 DEF TypeOK, Unlock, StepsSound
    <3>2. claims' \in [Procs -> Seq(Claims)]
      BY <2>10, <3>1 DEF TypeOK, Unlock
    <3>3. holder' \in [Inodes -> Procs \cup {NoOne}]
      BY <2>10 DEF TypeOK, Unlock, Unlocked
    <3> QED
      BY <2>10, <3>2, <3>3 DEF TypeOK, Unlock, Steps
  <2>11. CASE SkipShared(p)
    BY <2>11, RecordedTypes DEF TypeOK, SkipShared
  <2>12. CASE EnsureDir(p)
    BY <2>12, <2>a, MakeDirTypes DEF TypeOK, EnsureDir, Steps
  <2>13. CASE WriteRecord(p)
    <3>1. record' \in [Inodes -> Procs \cup {NoOne, Corrupt}]
      BY <2>13 DEF TypeOK, WriteRecord
    <3> QED
      BY <2>13, <3>1, RecordedTypes DEF TypeOK, WriteRecord
  <2>14. CASE WriteFails(p)
    <3>1. claims' \in [Procs -> Seq(Claims)] /\ faults' \in 0..MaxFaults
      BY <2>14, BoundsAssumption DEF TypeOK, WriteFails
    <3> QED
      BY <2>14, <3>1, FreedTypes DEF TypeOK, WriteFails, Steps
  <2>15. CASE Die(p)
    BY <2>15, FreedTypes DEF TypeOK, Die, Steps
  <2> QED
    BY <1>2, <2>1, <2>2, <2>3, <2>4, <2>5, <2>6, <2>7, <2>8, <2>9, <2>10, <2>11, <2>12, <2>13, <2>14, <2>15 DEF Acquire
<1> QED
  BY <1>1, <1>2 DEF Next
-----------------------------------------------------------------------------
(* Frames *)

Step(p) == Start(p) \/ Acquire(p) \/ Die(p)

\* A core's step leaves the local state of the others alone.
LEMMA OthersKept ==
  ASSUME TypeOK, NEW p \in Procs, Step(p), NEW q \in Procs, q # p
  PROVE  /\ pc'[q] = pc[q] /\ at'[q] = at[q] /\ created'[q] = created[q]
         /\ handle'[q] = handle[q] /\ claims'[q] = claims[q]
         /\ shared'[q] = shared[q] /\ busy'[q] = busy[q]
<1> USE DEF TypeOK, local, disk
<1>1. CASE Start(p) \/ CheckDir(p) \/ CreateDir(p) \/ EnsureDir(p)
  BY <1>1 DEF Start, CheckDir, CreateDir, EnsureDir
<1>2. CASE OpenDir(p) \/ LockError(p)
  BY <1>2 DEF OpenDir, LockError, TakeFails, Decided
<1>3. CASE TryLock(p)
  BY <1>3 DEF TryLock
<1>4. CASE ReadOwner(p) \/ ReadRecord(p)
  BY <1>4 DEF ReadOwner, ReadRecord, Decided
<1>5. CASE RemoveDir(p) \/ Unlock(p)
  BY <1>5 DEF RemoveDir, Unlock
<1>6. CASE SkipShared(p) \/ WriteRecord(p)
  BY <1>6 DEF SkipShared, WriteRecord, Recorded
<1>7. CASE WriteFails(p) \/ Die(p)
  BY <1>7 DEF WriteFails, Die
<1> QED
  BY <1>1, <1>2, <1>3, <1>4, <1>5, <1>6, <1>7 DEF Step, Acquire

\* A core takes free kernel locks and gives back its own.
LEMMA LocksMove ==
  ASSUME TypeOK, HandleSound, ClaimsExact, StepsSound,
         NEW p \in Procs, Step(p), NEW i \in Inodes
  PROVE  \/ holder'[i] = holder[i]
         \/ holder[i] = NoOne /\ holder'[i] = p
         \/ holder[i] = p /\ holder'[i] = NoOne
<1> USE DEF disk
<1>1. CASE TryLock(p)
  BY <1>1 DEF TryLock, TypeOK
<1>2. CASE Unlock(p)
  <2>1. claims[p] \in Seq(Claims) /\ claims[p] # <<>>
    BY <1>2 DEF TypeOK, StepsSound, Unlock
  <2>2. 1 \in DOMAIN claims[p] /\ Head(claims[p]) = claims[p][1]
    BY <2>1
  <2>3. holder[Head(claims[p]).inode] = p
    BY <2>2 DEF ClaimsExact
  <2> QED
    BY <1>2, <2>3 DEF Unlock, Unlocked, TypeOK
<1>3. CASE WriteFails(p) \/ Die(p)
  BY <1>3 DEF WriteFails, Die, Freed
<1>4. CASE ~(TryLock(p) \/ Unlock(p) \/ WriteFails(p) \/ Die(p))
  BY <1>4 DEF Step, Acquire, Start, CheckDir, CreateDir, OpenDir, LockError, ReadOwner,
              ReadRecord, RemoveDir, SkipShared, EnsureDir, WriteRecord
<1> QED
  BY <1>1, <1>2, <1>3, <1>4

\* A record is only changed by the core that writes it.
LEMMA RecordsMove ==
  ASSUME NEW p \in Procs, Step(p)
  PROVE  record' = record \/ WriteRecord(p)
  BY DEF Step, Acquire, Start, CheckDir, CreateDir, OpenDir, TryLock, LockError, ReadOwner,
         ReadRecord, RemoveDir, Unlock, SkipShared, EnsureDir, WriteFails, Die, disk

\* What is known of the claim that is released.
LEMMA HeadClaim ==
  ASSUME TypeOK, NEW p \in Procs, claims[p] # <<>>
  PROVE  /\ Head(claims[p]) \in Claims /\ Head(claims[p]) = claims[p][1]
         /\ 1 \in DOMAIN claims[p]
<1>1. claims[p] \in Seq(Claims)
  BY DEF TypeOK
<1> QED
  BY <1>1

\* An existing directory has an inode.
LEMMA ExistingInodes ==
  ASSUME TypeOK, PathsSound, NEW d \in Existing
  PROVE  d \in Dirs /\ path[d] \in Inodes
<1>1. d \in Dirs
  BY AnchorsAssumption
<1>2. path[d] \in Nat /\ path[d] <= inodes /\ inodes \in 0..MaxInodes
  BY <1>1 DEF TypeOK
<1>3. path[d] # 0
  BY DEF PathsSound
<1> QED
  BY <1>1, <1>2, <1>3, BoundsAssumption DEF Inodes

-----------------------------------------------------------------------------
(* The parts of the invariant, one after the other *)

\* A directory is made under a number of its own, and none of Existing goes.
LEMMA PathsKept ==
  ASSUME TypeOK, PathsSound, NewSound, [Next]_vars
  PROVE  PathsSound' /\ \A d \in Existing : path'[d] = path[d]
<1> Existing \subseteq Dirs
  BY AnchorsAssumption
<1>1. CASE path' = path
  BY <1>1 DEF PathsSound
<1>2. ASSUME NEW d \in Dirs, MakeDir(d)
      PROVE  PathsSound' /\ \A e \in Existing : path'[e] = path[e]
  <2>1. CASE path[d] # 0
    BY <1>2, <1>1, <2>1 DEF MakeDir
  <2>2. CASE path[d] = 0
    <3>1. path' = [path EXCEPT ![d] = inodes + 1] /\ path \in [Dirs -> Nat] /\ inodes \in Nat
          /\ \A e \in Dirs : path[e] <= inodes
      BY <1>2, <2>2, BoundsAssumption DEF MakeDir, TypeOK
    <3>2. \A e \in Dirs : path'[e] = IF e = d THEN inodes + 1 ELSE path[e]
      BY <3>1
    <3>3. \A e, g \in Dirs : path'[e] = path'[g] /\ path'[e] # 0 => e = g
      BY <3>1, <3>2 DEF PathsSound
    <3>4. \A e \in Existing : path'[e] = path[e] /\ path'[e] # 0
      BY <3>1, <3>2, <2>2 DEF PathsSound
    <3> QED
      BY <3>3, <3>4 DEF PathsSound
  <2> QED
    BY <2>1, <2>2
<1>3. ASSUME NEW p \in Procs, RemoveDir(p)
      PROVE  PathsSound' /\ \A d \in Existing : path'[d] = path[d]
  <2>1. CASE claims[p] = <<>> \/ ~Head(claims[p]).created \/ ReadLock(Head(claims[p]).dir) # NoOne
    BY <1>1, <1>3, <2>1 DEF RemoveDir
  <2>2. CASE claims[p] # <<>> /\ Head(claims[p]).created /\ ReadLock(Head(claims[p]).dir) = NoOne
    <3>1. Head(claims[p]).dir \notin Existing
      BY <2>2, HeadClaim DEF NewSound
    <3>2. path' = [path EXCEPT ![Head(claims[p]).dir] = 0]
      BY <1>3, <2>2 DEF RemoveDir
    <3>3. \A e \in Dirs : path'[e] = IF e = Head(claims[p]).dir THEN 0 ELSE path[e]
      BY <3>2 DEF TypeOK
    <3> QED
      BY <3>1, <3>3 DEF PathsSound
  <2> QED
    BY <2>1, <2>2
<1>4. ASSUME NEW p \in Procs, Step(p)
      PROVE  path' = path \/ MakeDir(Anchor(p)) \/ RemoveDir(p)
  BY <1>4 DEF Step, Acquire, Start, CheckDir, CreateDir, OpenDir, TryLock, LockError, ReadOwner,
              ReadRecord, Unlock, SkipShared, EnsureDir, WriteRecord, WriteFails, Die, disk
<1>5. ASSUME NEW p \in Procs
      PROVE  Anchor(p) \in Dirs
  BY AnchorFacts DEF TypeOK, Anchor
<1> QED
  BY <1>1, <1>2, <1>3, <1>4, <1>5 DEF Next, Step, vars, disk
\* A created directory is never an existing one.
LEMMA NewKept ==
  ASSUME TypeOK, PathsSound, NewSound, StepsSound, NEW p \in Procs, Step(p)
  PROVE  NewSound'
<1> USE DEF local
<1>1. ASSUME NEW q \in Procs, q # p
      PROVE  NewSound!(q)'
  BY <1>1, OthersKept DEF NewSound, Anchor
<1>2. CASE CheckDir(p)
  <2>1. pc'[p] \in {"create", "open"} /\ at' = at /\ claims' = claims
        /\ created'[p] = (path[Anchor(p)] = 0)
    BY <1>2 DEF CheckDir, TypeOK
  <2> QED
    BY <2>1, <1>1 DEF NewSound, PathsSound, Anchor
<1>3. CASE CreateDir(p)
  BY <1>1, <1>3 DEF NewSound, CreateDir, Anchor, TypeOK
<1>4. CASE OpenDir(p)
  <2>1. (pc'[p] = "lock" /\ at' = at) \/ pc'[p] \in {"read", "check", "remove", "ensure"}
    BY <1>4 DEF OpenDir, TakeFails, Decided, TypeOK
  <2>2. claims' = claims /\ created' = created /\ pc[p] = "open"
    BY <1>4 DEF OpenDir
  <2> QED
    BY <1>1, <2>1, <2>2 DEF NewSound, Anchor
<1>5. CASE TryLock(p)
  <2>1. pc'[p] \in {"read", "owner"} /\ pc[p] = "lock"
    BY <1>5 DEF TryLock, TypeOK
  <2>2. CASE claims' = claims
    BY <1>1, <2>1, <2>2 DEF NewSound
  <2>3. CASE claims' # claims
    <3> DEFINE c == [dir |-> Anchor(p), inode |-> handle[p], created |-> created[p]]
    <3>1. claims'[p] = Append(claims[p], c) /\ claims[p] \in Seq(Claims)
      BY <1>5, <2>3 DEF TryLock, TypeOK
    <3>2. c.created => c.dir \notin Existing
      BY <2>1 DEF NewSound
    <3>3. \A k \in DOMAIN claims'[p] : claims'[p][k] = c \/ (k \in DOMAIN claims[p] /\ claims'[p][k] = claims[p][k])
      <4> HIDE DEF c
      <4> QED BY <3>1
    <3>4. \A k \in DOMAIN claims'[p] : claims'[p][k].created => claims'[p][k].dir \notin Existing
      <4> HIDE DEF c
      <4> QED BY <3>2, <3>3 DEF NewSound
    <3> QED
      BY <1>1, <2>1, <3>4 DEF NewSound
  <2> QED
    BY <2>2, <2>3
<1>6. CASE Unlock(p)
  <2>1. pc'[p] = "remove"
    BY <1>6 DEF Unlock, TypeOK
  <2>2. claims[p] \in Seq(Claims) /\ claims[p] # <<>> /\ claims'[p] = Tail(claims[p])
    BY <1>6 DEF Unlock, TypeOK, StepsSound
  <2>3. \A k \in DOMAIN claims'[p] : k + 1 \in DOMAIN claims[p] /\ claims'[p][k] = claims[p][k + 1]
    BY <2>2
  <2> QED
    BY <1>1, <2>1, <2>3 DEF NewSound
<1>7. CASE WriteFails(p) \/ Die(p)
  <2>1. pc'[p] \in {"refused", "dead"} /\ claims'[p] = <<>>
    BY <1>7 DEF WriteFails, Die, TypeOK
  <2> QED
    BY <1>1, <2>1 DEF NewSound
<1>8. CASE Start(p) \/ RemoveDir(p) \/ LockError(p) \/ ReadOwner(p) \/ ReadRecord(p)
           \/ SkipShared(p) \/ EnsureDir(p) \/ WriteRecord(p)
  <2>1. pc'[p] \notin {"create", "open", "lock"}
    BY <1>8 DEF Start, RemoveDir, LockError, TakeFails, ReadOwner, ReadRecord, Decided,
                SkipShared, EnsureDir, WriteRecord, Recorded, TypeOK
  <2>2. claims' = claims
    BY <1>8 DEF Start, RemoveDir, LockError, ReadOwner, ReadRecord, SkipShared, EnsureDir, WriteRecord
  <2> QED
    BY <1>1, <2>1, <2>2 DEF NewSound
<1> QED
  BY <1>2, <1>3, <1>4, <1>5, <1>6, <1>7, <1>8 DEF Step, Acquire
\* A directory that is about to be locked is the one the path leads to.
LEMMA HandleKept ==
  ASSUME TypeOK, HandleSound, NEW p \in Procs, Step(p), \A d \in Existing : path'[d] = path[d]
  PROVE  HandleSound'
<1>1. ASSUME NEW q \in Procs, q # p
      PROVE  HandleSound!(q)'
  BY <1>1, OthersKept DEF HandleSound, Anchor
<1>2. CASE OpenDir(p)
  <2>1. (pc'[p] = "lock" /\ at' = at /\ path[Anchor(p)] # 0) \/ pc'[p] # "lock"
    BY <1>2 DEF OpenDir, TakeFails, Decided, TypeOK
  <2>2. handle'[p] = path[Anchor(p)]
    BY <1>2 DEF OpenDir, TypeOK
  <2> QED
    BY <1>1, <2>1, <2>2 DEF HandleSound, Anchor
<1>3. CASE ~OpenDir(p)
  <2>1. pc'[p] # "lock"
    BY <1>3 DEF Step, Acquire, Start, CheckDir, CreateDir, TryLock, LockError, TakeFails, ReadOwner,
                ReadRecord, Decided, RemoveDir, Unlock, SkipShared, EnsureDir, WriteRecord,
                Recorded, WriteFails, Die, TypeOK
  <2> QED
    BY <1>1, <2>1 DEF HandleSound
<1> QED
  BY <1>2, <1>3

\* A claim comes with a kernel lock and goes with it.
LEMMA ClaimsKept ==
  ASSUME TypeOK, HandleSound, ClaimsExact, StepsSound, NEW p \in Procs, Step(p)
  PROVE  ClaimsExact'
<1> USE DEF local, disk
<1>a. \A q \in Procs : \A k \in DOMAIN claims[q] : claims[q][k].inode \in Inodes
  <2> TAKE q \in Procs
  <2>1. claims[q] \in Seq(Claims)
    BY DEF TypeOK
  <2>2. \A k \in DOMAIN claims[q] : claims[q][k] \in Claims
    BY <2>1
  <2> QED
    BY <2>2 DEF Claims
<1>1. ASSUME NEW q \in Procs, q # p
      PROVE  ClaimsExact!(q)'
  <2>1. claims'[q] = claims[q]
    BY <1>1, OthersKept
  <2>2. \A i \in Inodes : holder'[i] = q <=> holder[i] = q
    BY <1>1, LocksMove, BoundsAssumption
  <2> QED
    BY <1>a, <2>1, <2>2 DEF ClaimsExact
<1>2. CASE TryLock(p)
  <2>1. CASE claims' = claims /\ holder' = holder
    BY <1>1, <2>1 DEF ClaimsExact
  <2>2. CASE ~(claims' = claims /\ holder' = holder)
    <3> DEFINE c == [dir |-> Anchor(p), inode |-> handle[p], created |-> created[p]]
    <3>1. claims'[p] = Append(claims[p], c) /\ claims[p] \in Seq(Claims)
      BY <1>2, <2>2 DEF TryLock, TypeOK
    <3>2. holder[handle[p]] = NoOne /\ holder' = [holder EXCEPT ![handle[p]] = p]
      BY <1>2, <2>2 DEF TryLock
    <3>3. handle[p] \in Inodes /\ c.inode = handle[p]
      BY <1>2 DEF TryLock, HandleSound, TypeOK, Inodes
    <3> HIDE DEF c
    <3>4. /\ DOMAIN claims'[p] = 1..(Len(claims[p]) + 1) /\ DOMAIN claims[p] = 1..Len(claims[p])
          /\ Len(claims[p]) \in Nat /\ claims'[p][Len(claims[p]) + 1] = c
          /\ \A k \in DOMAIN claims[p] : claims'[p][k] = claims[p][k]
      BY <3>1
    <3>5. \A i \in Inodes : holder'[i] = IF i = handle[p] THEN p ELSE holder[i]
      BY <3>2 DEF TypeOK
    <3>6. \A k \in DOMAIN claims[p] : claims[p][k].inode # handle[p]
      BY <3>2, BoundsAssumption DEF ClaimsExact
    <3>7. \A k \in DOMAIN claims'[p] : holder'[claims'[p][k].inode] = p
      BY <1>a, <3>3, <3>4, <3>5 DEF ClaimsExact
    <3>8. \A k, l \in DOMAIN claims'[p] : claims'[p][k].inode = claims'[p][l].inode => k = l
      BY <3>3, <3>4, <3>6, SMTT(20) DEF ClaimsExact
    <3>9. \A i \in Inodes : holder'[i] = p => \E k \in DOMAIN claims'[p] : claims'[p][k].inode = i
      BY <3>3, <3>4, <3>5 DEF ClaimsExact
    <3> QED
      BY <1>1, <3>7, <3>8, <3>9 DEF ClaimsExact
  <2> QED
    BY <2>1, <2>2
<1>3. CASE Unlock(p)
  <2>1. claims[p] \in Seq(Claims) /\ claims[p] # <<>> /\ claims'[p] = Tail(claims[p])
    BY <1>3 DEF Unlock, TypeOK, StepsSound
  <2>2. /\ \A k \in DOMAIN claims'[p] : k + 1 \in DOMAIN claims[p] /\ k \in Nat \ {0}
                                        /\ claims'[p][k] = claims[p][k + 1]
        /\ \A k \in DOMAIN claims[p] : k # 1 => k - 1 \in DOMAIN claims'[p] /\ k \in Nat
    BY <2>1
  <2>3. holder' = [holder EXCEPT ![claims[p][1].inode] = NoOne] /\ 1 \in DOMAIN claims[p]
    BY <1>3, <2>1, HeadClaim DEF Unlock, Unlocked
  <2>4. \A i \in Inodes : holder'[i] = IF i = claims[p][1].inode THEN NoOne ELSE holder[i]
    BY <2>3 DEF TypeOK
  <2>5. \A k \in DOMAIN claims'[p] : claims'[p][k].inode # claims[p][1].inode
    BY <2>2, <2>3 DEF ClaimsExact
  <2>6. \A k \in DOMAIN claims'[p] : holder'[claims'[p][k].inode] = p
    BY <1>a, <2>2, <2>4, <2>5 DEF ClaimsExact
  <2>7. \A k, l \in DOMAIN claims'[p] : claims'[p][k].inode = claims'[p][l].inode => k = l
    <3> TAKE k, l \in DOMAIN claims'[p]
    <3> HAVE claims'[p][k].inode = claims'[p][l].inode
    <3>1. k + 1 = l + 1
      BY <2>2 DEF ClaimsExact
    <3> QED
      BY <2>2, <3>1
  <2>8. \A i \in Inodes : holder'[i] = p => \E k \in DOMAIN claims'[p] : claims'[p][k].inode = i
    <3> TAKE i \in Inodes
    <3> HAVE holder'[i] = p
    <3>1. holder[i] = p /\ i # claims[p][1].inode
      BY <2>4, BoundsAssumption
    <3>2. PICK k \in DOMAIN claims[p] : claims[p][k].inode = i
      BY <3>1 DEF ClaimsExact
    <3>3. k - 1 \in DOMAIN claims'[p] /\ claims'[p][k - 1] = claims[p][k - 1 + 1] /\ k \in Nat
      BY <2>2, <3>1, <3>2
    <3>4. k - 1 + 1 = k
      BY <3>3
    <3> QED
      BY <3>2, <3>3, <3>4
  <2> QED
    BY <1>1, <2>6, <2>7, <2>8 DEF ClaimsExact
<1>4. CASE WriteFails(p) \/ Die(p)
  <2>1. holder' = Freed(p) /\ claims'[p] = <<>>
    BY <1>4 DEF WriteFails, Die, TypeOK
  <2>2. \A i \in Inodes : holder'[i] # p
    BY <2>1, BoundsAssumption DEF Freed
  <2>3. ClaimsExact!(p)'
    BY <2>1, <2>2
  <2> QED
    BY <1>1, <2>3 DEF ClaimsExact
<1>5. CASE ~(TryLock(p) \/ Unlock(p) \/ WriteFails(p) \/ Die(p))
  <2>1. claims' = claims /\ holder' = holder
    BY <1>5 DEF Step, Acquire, Start, CheckDir, CreateDir, OpenDir, LockError, ReadOwner,
                ReadRecord, RemoveDir, SkipShared, EnsureDir, WriteRecord
  <2> QED
    BY <2>1 DEF ClaimsExact
<1> QED
  BY <1>2, <1>3, <1>4, <1>5
\* The step a core is at tells what it has done.
LEMMA StepsKept ==
  ASSUME TypeOK, HandleSound, StepsSound, NEW p \in Procs, Step(p)
  PROVE  StepsSound'
<1> USE DEF local, disk
<1>a. p \in Legacy => pc[p] \in {"serve", "dead"}
  BY DEF StepsSound
<1>1. ASSUME NEW q \in Procs, q # p
      PROVE  StepsSound!(q)'
  BY <1>1, OthersKept DEF StepsSound, Anchor
<1>2. CASE Start(p) \/ CheckDir(p) \/ CreateDir(p)
  <2>1. pc'[p] \in Deciding /\ p \notin Legacy
    BY <1>2, <1>a DEF Start, CheckDir, CreateDir, TypeOK, Deciding
  <2> QED
    BY <1>1, <2>1 DEF StepsSound, Deciding, Passed
<1>3. CASE OpenDir(p) \/ LockError(p) \/ ReadOwner(p) \/ ReadRecord(p)
  <2>1. pc'[p] \in {"lock", "read", "check", "remove", "ensure"} /\ p \notin Legacy
    BY <1>3, <1>a DEF OpenDir, LockError, TakeFails, ReadOwner, ReadRecord, Decided, TypeOK
  <2>2. pc'[p] = "ensure" => ~busy'[p]
    BY <1>3 DEF OpenDir, LockError, TakeFails, ReadOwner, ReadRecord, Decided, TypeOK
  <2> QED
    BY <1>1, <2>1, <2>2 DEF StepsSound, Passed
<1>4. CASE TryLock(p)
  <2>1. pc'[p] \in {"read", "owner"} /\ p \notin Legacy
    BY <1>4, <1>a DEF TryLock, TypeOK
  <2> QED
    BY <1>1, <2>1 DEF StepsSound, Passed
<1>5. CASE RemoveDir(p)
  <2>1. p \notin Legacy /\ claims' = claims
        /\ (\/ claims[p] = <<>> /\ pc'[p] = "refused"
            \/ claims[p] # <<>> /\ pc'[p] = "unlock")
    <3>1. p \notin Legacy /\ claims' = claims
      BY <1>5, <1>a DEF RemoveDir
    <3>2. CASE claims[p] = <<>>
      <4>1. pc' = [pc EXCEPT ![p] = "refused"]
        BY <1>5, <3>2 DEF RemoveDir
      <4> QED
        BY <3>1, <3>2, <4>1 DEF TypeOK
    <3>3. CASE claims[p] # <<>>
      <4>1. pc' = [pc EXCEPT ![p] = "unlock"]
        BY <1>5, <3>3 DEF RemoveDir
      <4> QED
        BY <3>1, <3>3, <4>1 DEF TypeOK
    <3> QED
      BY <3>1, <3>2, <3>3
  <2> QED
    BY <1>1, <2>1 DEF StepsSound, Passed
<1>6. CASE Unlock(p)
  <2>1. p \notin Legacy /\ pc'[p] = "remove"
    BY <1>6, <1>a DEF Unlock, TypeOK
  <2> QED
    BY <1>1, <2>1 DEF StepsSound, Passed
<1>7. CASE SkipShared(p) \/ WriteRecord(p)
  <2>1. p \notin Legacy /\ pc[p] \in Passed /\ pc'[p] \in {"ensure", "serve"} /\ busy' = busy
    BY <1>7, <1>a DEF SkipShared, WriteRecord, Recorded, TypeOK, Passed
  <2> QED
    BY <1>1, <2>1 DEF StepsSound, Passed
<1>8. CASE EnsureDir(p)
  <2>1. /\ p \notin Legacy /\ pc[p] \in Passed /\ pc'[p] = "write" /\ busy' = busy
        /\ at' = at /\ shared' = shared /\ Anchor(p) \notin shared[p]
    BY <1>8, <1>a DEF EnsureDir, TypeOK, Passed
  <2> QED
    BY <1>1, <2>1 DEF StepsSound, Passed, Anchor
<1>9. CASE WriteFails(p) \/ Die(p)
  <2>1. claims'[p] = <<>> /\ (pc'[p] = "dead" \/ (pc'[p] = "refused" /\ p \notin Legacy))
    <3>1. CASE WriteFails(p)
      <4>1. pc[p] = "write" /\ pc' = [pc EXCEPT ![p] = "refused"] /\ claims' = [claims EXCEPT ![p] = <<>>]
        BY <3>1 DEF WriteFails
      <4> QED
        BY <1>a, <4>1 DEF TypeOK
    <3>2. CASE Die(p)
      <4>1. pc' = [pc EXCEPT ![p] = "dead"] /\ claims' = [claims EXCEPT ![p] = <<>>]
        BY <3>2 DEF Die
      <4> QED
        BY <4>1 DEF TypeOK
    <3> QED
      BY <1>9, <3>1, <3>2
  <2> QED
    BY <1>1, <2>1 DEF StepsSound, Passed
<1> QED
  BY <1>2, <1>3, <1>4, <1>5, <1>6, <1>7, <1>8, <1>9 DEF Step, Acquire

\* A core that is not refused comes to a decision by sharing, or as the holder
\* of a directory whose record does not stop it.
LEMMA SettledMoves ==
  ASSUME TypeOK, StepsSound, NEW p \in Procs, Step(p), NEW d,
         Settled(p, d)', ~busy'[p]
  PROVE  /\ ~busy[p]
         /\ \/ Settled(p, d)
            \/ d = Anchor(p) /\ ReadOwner(p) /\ p \in Hatch /\ ReadLock(d) \in Procs
            \/ /\ d = Anchor(p) /\ ReadRecord(p)
               /\ p \in Hatch \/ ~(ReadLock(d) \in Procs /\ Alive(ReadLock(d)))
<1> USE DEF local
<1>a. PICK i \in DOMAIN Anchors[p] :
        Anchors[p][i] = d /\ (pc'[p] \in Passed \/ (pc'[p] \in Deciding /\ i < at'[p]))
  BY DEF Settled
<1>b. DOMAIN Anchors[p] = 1..Len(Anchors[p]) /\ Len(Anchors[p]) \in Nat /\ at[p] \in DOMAIN Anchors[p]
  BY AnchorFacts DEF TypeOK
<1>1. CASE Start(p)
  BY <1>1, <1>a, <1>b DEF Start, TypeOK, StepsSound, Passed
<1>2. CASE CheckDir(p) \/ CreateDir(p) \/ TryLock(p)
  <2>1. pc[p] \in Deciding /\ pc'[p] \in Deciding \ Passed /\ at' = at /\ busy' = busy
    BY <1>2 DEF CheckDir, CreateDir, TryLock, TypeOK, Deciding, Passed
  <2> QED
    BY <2>1, <1>a DEF Settled
<1>3. ASSUME NEW refuse \in BOOLEAN, Decided(p, refuse), pc[p] \in Deciding
      PROVE  ~busy[p] /\ ~refuse /\ (Settled(p, d) \/ d = Anchor(p))
  <2>1. ~busy[p] /\ ~refuse
    BY <1>3 DEF Decided, TypeOK
  <2>2. i <= at[p]
    BY <1>3, <1>a, <1>b DEF Decided, TypeOK, Passed
  <2> QED
    BY <1>a, <1>b, <1>3, <2>1, <2>2 DEF Settled, Anchor
<1>4. CASE OpenDir(p) \/ LockError(p)
  <2>1. CASE Decided(p, TRUE)
    BY <1>3, <1>4, <2>1 DEF OpenDir, LockError, Deciding
  <2>2. CASE ~Decided(p, TRUE)
    <3>1. pc[p] \in Deciding /\ pc'[p] \in Deciding \ Passed /\ at' = at /\ busy' = busy
      BY <1>4, <2>2 DEF OpenDir, LockError, TakeFails, TypeOK, Deciding, Passed
    <3> QED
      BY <3>1, <1>a DEF Settled
  <2> QED
    BY <2>1, <2>2
<1>5. CASE ReadOwner(p)
  <2>1. pc[p] \in Deciding /\ Decided(p, ~(p \in Hatch /\ ReadLock(Anchor(p)) \in Procs))
    BY <1>5 DEF ReadOwner, Deciding
  <2> QED
    BY <1>3, <1>5, <2>1
<1>6. CASE ReadRecord(p)
  <2> DEFINE r == ReadLock(Anchor(p))
  <2>1. pc[p] \in Deciding /\ Decided(p, p \notin Hatch /\ ((r \in Procs /\ Alive(r)) \/ r = Corrupt))
    BY <1>6 DEF ReadRecord, Deciding
  <2> QED
    BY <1>3, <1>6, <2>1
<1>7. CASE RemoveDir(p) \/ Unlock(p) \/ WriteFails(p) \/ Die(p)
  <2>1. pc'[p] \in {"refused", "unlock", "remove", "dead"}
    BY <1>7 DEF RemoveDir, Unlock, WriteFails, Die, TypeOK
  <2> QED
    BY <1>a, <2>1 DEF Passed, Deciding
<1>8. CASE SkipShared(p) \/ EnsureDir(p) \/ WriteRecord(p)
  <2>1. pc[p] \in Passed /\ busy' = busy
    BY <1>8 DEF SkipShared, EnsureDir, WriteRecord, Passed
  <2> QED
    BY <1>a, <2>1 DEF Settled
<1> QED
  BY <1>1, <1>2, <1>4, <1>5, <1>6, <1>7, <1>8 DEF Step, Acquire
\* The kernel locks of the decided directories are kept.
LEMMA LocksKept ==
  ASSUME IInv, NEW p \in Procs, Step(p), \A d \in Existing : path'[d] = path[d]
  PROVE  LocksHeld'
<1> USE DEF IInv
<1>a. \A d \in Existing : path[d] \in Inodes
  BY ExistingInodes
<1> SUFFICES ASSUME NEW q \in Procs \ (Hatch \cup Legacy), NEW d \in Existing
             PROVE  /\ Settled(q, d)' /\ ~busy'[q] => holder'[path[d]] = q
                    /\ pc'[q] = "read" /\ Anchor(q)' = d => holder'[path[d]] = q
  BY DEF LocksHeld
<1>1. CASE q # p
  <2>1. (Settled(q, d)' <=> Settled(q, d)) /\ (Anchor(q)' = Anchor(q))
        /\ pc'[q] = pc[q] /\ busy'[q] = busy[q]
    BY <1>1, OthersKept DEF Settled, Anchor
  <2>2. holder[path[d]] = q => holder'[path[d]] = q
    BY <1>1, <1>a, LocksMove, BoundsAssumption
  <2> QED
    BY <2>1, <2>2 DEF LocksHeld
<1>2. CASE q = p
  <2>1. ASSUME Settled(q, d)', ~busy'[q]
        PROVE  holder'[path[d]] = q
    <3>1. holder[path[d]] = q
      BY <1>2, <2>1, SettledMoves DEF LocksHeld, ReadRecord
    <3>2. holder'[path[d]] = p \/ Unlock(p) \/ WriteFails(p) \/ Die(p)
      <4>1. holder' = holder \/ TryLock(p) \/ Unlock(p) \/ WriteFails(p) \/ Die(p)
        BY DEF Step, Acquire, Start, CheckDir, CreateDir, OpenDir, LockError, ReadOwner, disk,
               ReadRecord, RemoveDir, SkipShared, EnsureDir, WriteRecord
      <4>2. TryLock(p) => holder'[path[d]] = p
        BY <1>a, <1>2, <3>1, BoundsAssumption DEF TryLock, TypeOK
      <4> QED
        BY <1>2, <3>1, <4>1, <4>2
    <3>3. Unlock(p) \/ WriteFails(p) \/ Die(p) => pc'[p] \notin Passed \cup Deciding
      BY DEF Unlock, WriteFails, Die, TypeOK, Passed, Deciding
    <3> QED
      BY <1>2, <2>1, <3>2, <3>3 DEF Settled
  <2>2. ASSUME pc'[q] = "read", Anchor(q)' = d
        PROVE  holder'[path[d]] = q
    <3>1. TryLock(p)
      BY <1>2, <2>2 DEF Step, Acquire, Start, CheckDir, CreateDir, OpenDir, LockError, ReadOwner,
               ReadRecord, RemoveDir, SkipShared, EnsureDir, WriteRecord, Unlock, WriteFails, Die,
               TypeOK, TakeFails, Decided, Recorded
    <3>2. at' = at /\ pc[p] = "lock" /\ holder' = [holder EXCEPT ![handle[p]] = p]
      BY <1>2, <2>2, <3>1 DEF TryLock, TypeOK
    <3>3. handle[p] = path[d]
      BY <1>2, <2>2, <3>2 DEF HandleSound, Anchor
    <3> QED
      BY <1>2, <1>a, <3>2, <3>3 DEF TypeOK
  <2> QED
    BY <2>1, <2>2
<1> QED
  BY <1>1, <1>2

\* What a core of an older build has is left to it while it writes.
LEMMA LegacyStays ==
  ASSUME IInv, NEW p \in Procs, Step(p), \A d \in Existing : path'[d] = path[d]
  PROVE  LegacyKept'
<1> USE DEF IInv
<1> SUFFICES ASSUME NEW q \in Legacy, pc'[q] = "serve", NEW d \in DirsOf(q)
             PROVE  /\ record'[path'[d]] = q
                    /\ \A r \in Procs \ Legacy :
                         Settled(r, d)' /\ ~busy'[r] => r \in Hatch /\ d \in shared'[r]
  BY DEF LegacyKept, DirsOf
<1>0. q \in Procs /\ d \in Existing
  BY AnchorsAssumption DEF DirsOf
<1>1. q \in Procs /\ d \in Existing /\ d \in Dirs /\ path[d] \in Inodes
  BY <1>0, ExistingInodes
<1>2. q # p
  <2>1. CASE q = p
    <3>1. Die(p)
      BY <2>1 DEF Step, Acquire, Start, CheckDir, CreateDir, OpenDir, TryLock, LockError, ReadOwner,
             ReadRecord, RemoveDir, SkipShared, EnsureDir, WriteRecord, Unlock, WriteFails, StepsSound
    <3> QED
      BY <2>1, <3>1 DEF Die, TypeOK
  <2> QED
    BY <2>1
<1>3. pc[q] = "serve" /\ record[path[d]] = q
  BY <1>1, <1>2, OthersKept DEF LegacyKept
<1>4. p \notin Legacy \/ Die(p)
  BY DEF Step, Acquire, Start, CheckDir, CreateDir, OpenDir, TryLock, LockError, ReadOwner,
         ReadRecord, RemoveDir, SkipShared, EnsureDir, WriteRecord, Unlock, WriteFails, StepsSound
<1>5. record'[path'[d]] = q
  <2>1. CASE record' = record
    BY <1>1, <1>3, <2>1
  <2>2. CASE WriteRecord(p) /\ Anchor(p) # d
    <3>1. path[Anchor(p)] # path[d]
      <4>1. Anchor(p) \in Dirs
        BY AnchorFacts DEF TypeOK, Anchor
      <4> QED
        BY <1>1, <2>2, <4>1 DEF WriteRecord, PathsSound
    <3> QED
      BY <1>1, <1>3, <2>2, <3>1 DEF WriteRecord, TypeOK
  <2>3. CASE WriteRecord(p) /\ Anchor(p) = d
    <3>1. Settled(p, d) /\ ~busy[p] /\ d \notin shared[p] /\ p \notin Legacy
      BY <2>3 DEF WriteRecord, Settled, Passed, StepsSound, Anchor, TypeOK
    <3> QED
      BY <1>3, <3>1 DEF LegacyKept
  <2> QED
    BY <2>1, <2>2, <2>3, RecordsMove
<1>6. ASSUME NEW r \in Procs \ Legacy, Settled(r, d)', ~busy'[r]
      PROVE  r \in Hatch /\ d \in shared'[r]
  <2>1. CASE r # p
    <3>1. Settled(r, d) /\ ~busy[r] /\ shared'[r] = shared[r]
      BY <1>6, <2>1, OthersKept DEF Settled
    <3> QED
      BY <1>3, <3>1 DEF LegacyKept
  <2>2. CASE r = p
    <3>1. CASE Settled(p, d) /\ ~busy[p]
      <4>1. p \in Hatch /\ d \in shared[p]
        BY <1>3, <1>6, <2>2, <3>1 DEF LegacyKept
      <4>2. shared[p] \subseteq shared'[p]
        BY DEF Step, Acquire, Start, CheckDir, CreateDir, OpenDir, TryLock, LockError, ReadOwner,
               ReadRecord, RemoveDir, SkipShared, EnsureDir, WriteRecord, Unlock, WriteFails, Die,
               TypeOK, local
      <4> QED
        BY <2>2, <4>1, <4>2
    <3>2. CASE d = Anchor(p) /\ ReadOwner(p) /\ p \in Hatch /\ ReadLock(d) \in Procs
      BY <2>2, <3>2 DEF ReadOwner, TypeOK
    <3>3. CASE d = Anchor(p) /\ ReadRecord(p)
               /\ (p \in Hatch \/ ~(ReadLock(d) \in Procs /\ Alive(ReadLock(d))))
      <4>1. ReadLock(d) = q /\ Alive(q)
        BY <1>1, <1>3 DEF ReadLock, Inodes, Alive
      <4> QED
        BY <1>1, <2>2, <3>3, <4>1 DEF ReadRecord, TypeOK
    <3> QED
      BY <1>6, <2>2, <3>1, <3>2, <3>3, SettledMoves
  <2> QED
    BY <2>1, <2>2
<1> QED
  BY <1>5, <1>6

\* A core records itself in its own directories.
LEMMA RecordsKept ==
  ASSUME IInv, NEW p \in Procs, Step(p), \A d \in Existing : path'[d] = path[d]
  PROVE  RecordsSound'
<1> USE DEF IInv
<1> SUFFICES ASSUME NEW d \in Existing, record'[path[d]] \in Procs
             PROVE  d \in DirsOf(record'[path[d]])
  BY DEF RecordsSound, DirsOf
<1>1. d \in Dirs /\ path[d] \in Inodes
  BY ExistingInodes
<1>2. CASE record'[path[d]] = record[path[d]]
  BY <1>2 DEF RecordsSound
<1>3. CASE record'[path[d]] # record[path[d]]
  <2>1. WriteRecord(p)
    BY <1>3, RecordsMove
  <2>2. Anchor(p) \in Dirs /\ Anchor(p) \in DirsOf(p)
    BY AnchorFacts DEF TypeOK, Anchor, DirsOf
  <2>3. record'[path[d]] = p /\ path[d] = path[Anchor(p)]
    BY <1>1, <1>3, <2>1 DEF WriteRecord, TypeOK
  <2>4. d = Anchor(p)
    BY <1>1, <2>2, <2>3 DEF PathsSound, Inodes
  <2> QED
    BY <2>2, <2>3, <2>4
<1> QED
  BY <1>2, <1>3
-----------------------------------------------------------------------------
(* The inductive invariant *)

\* The program starts in the invariant.
LEMMA InitHolds == Init => IInv
<1> SUFFICES ASSUME Init PROVE IInv
  OBVIOUS
<1>a. /\ \A d \in Dirs : path[d] = IF d \in Existing THEN Numbering[d] ELSE 0
      /\ \A p \in Procs : claims[p] = <<>> /\ at[p] = 1 /\ handle[p] = 0 /\ busy[p] = FALSE
      /\ \A p \in Procs : pc[p] = IF p \in Legacy THEN "serve" ELSE "idle"
      /\ \A i \in Inodes : holder[i] = NoOne
  BY DEF Init
<1>b. Existing \subseteq Dirs /\ Legacy \subseteq Procs
  BY AnchorsAssumption
<1>c. \A d \in Existing : path[d] = Numbering[d] /\ Numbering[d] \in 1..Cardinality(Existing)
  BY <1>a, <1>b, NumberingInjective
<1>1. TypeOK
  <2>1. inodes \in 0..MaxInodes /\ MaxInodes \in Nat /\ faults \in 0..MaxFaults
    BY NumberingInjective, BoundsAssumption DEF Init
  <2>2. path \in [Dirs -> Nat] /\ \A d \in Dirs : path[d] <= inodes
    <3>1. path = [d \in Dirs |-> IF d \in Existing THEN Numbering[d] ELSE 0]
          /\ inodes = Cardinality(Existing)
      BY DEF Init
    <3>2. \A d \in Dirs : path[d] \in Nat /\ path[d] <= inodes
      BY <1>a, <1>b, <1>c, <2>1, <3>1, SMTT(20)
    <3> QED
      BY <3>1, <3>2
  <2>3. at \in [Procs -> Nat] /\ \A p \in Procs : at[p] \in DOMAIN Anchors[p]
    BY AnchorFacts DEF Init
  <2>4. pc \in [Procs -> Steps] /\ claims \in [Procs -> Seq(Claims)] /\ shared \in [Procs -> SUBSET Dirs]
    BY DEF Init, Steps
  <2>5. handle \in [Procs -> 0..MaxInodes] /\ created \in [Procs -> BOOLEAN]
        /\ busy \in [Procs -> BOOLEAN] /\ holder \in [Inodes -> Procs \cup {NoOne}]
        /\ record \in [Inodes -> Procs \cup {NoOne, Corrupt}]
    BY <2>1 DEF Init
  <2> QED
    BY <2>1, <2>2, <2>3, <2>4, <2>5 DEF TypeOK
<1>2. PathsSound
  BY <1>a, <1>b, <1>c, NumberingInjective DEF PathsSound
<1>3. \A d \in Existing : record[path[d]] \in Records[d]
  <2> TAKE d \in Existing
  <2>1. path[d] \in Inodes /\ Numbering[d] = path[d]
    BY <1>1, <1>2, <1>c, ExistingInodes
  <2> QED
    BY <2>1 DEF Init
<1>4. NewSound /\ HandleSound /\ StepsSound
  BY <1>a DEF NewSound, HandleSound, StepsSound, Passed
<1>5. ClaimsExact
  BY <1>a, BoundsAssumption DEF ClaimsExact
<1>6. ASSUME NEW p \in Procs \ Legacy, NEW d
      PROVE  ~Settled(p, d) /\ pc[p] # "read"
  BY <1>a DEF Settled, Passed, Deciding
<1>7. LocksHeld
  BY <1>6 DEF LocksHeld
<1>8. LegacyKept
  <2> SUFFICES ASSUME NEW q \in Legacy, NEW d \in DirsOf(q) PROVE record[path[d]] = q
    BY <1>6 DEF LegacyKept
  <2>1. PICK i \in DOMAIN Anchors[q] : Anchors[q][i] = d
    BY DEF DirsOf
  <2>2. d \in Existing /\ Records[d] = {q}
    BY <2>1, AnchorsAssumption
  <2> QED
    BY <1>3, <2>2
<1>9. RecordsSound
  <2> SUFFICES ASSUME NEW d \in Existing, record[path[d]] \in Procs
               PROVE  d \in DirsOf(record[path[d]])
    BY DEF RecordsSound
  <2>1. record[path[d]] \in Procs \cap Records[d]
    BY <1>3
  <2>2. \E i \in DOMAIN Anchors[record[path[d]]] : Anchors[record[path[d]]][i] = d
    BY <2>1, AnchorsAssumption
  <2> QED
    BY <2>2 DEF DirsOf
<1> QED
  BY <1>1, <1>2, <1>4, <1>5, <1>7, <1>8, <1>9 DEF IInv

\* Every step keeps it.
LEMMA StepHolds == IInv /\ [Next]_vars => IInv'
<1> SUFFICES ASSUME IInv, [Next]_vars PROVE IInv'
  OBVIOUS
<1>1. CASE UNCHANGED vars
  BY <1>1 DEF vars, local, disk, IInv, TypeOK, PathsSound, NewSound, HandleSound, ClaimsExact, StepsSound,
              LocksHeld, LegacyKept, RecordsSound, Settled, Anchor
<1>2. ASSUME NEW p \in Procs, Step(p)
      PROVE  IInv'
  <2>1. TypeOK' /\ PathsSound' /\ \A d \in Existing : path'[d] = path[d]
    BY TypesKept, PathsKept DEF IInv
  <2>2. NewSound' /\ HandleSound' /\ ClaimsExact' /\ StepsSound'
    BY <1>2, <2>1, NewKept, HandleKept, ClaimsKept, StepsKept DEF IInv
  <2>3. LocksHeld' /\ LegacyKept' /\ RecordsSound'
    BY <1>2, <2>1, LocksKept, LegacyStays, RecordsKept
  <2> QED
    BY <2>1, <2>2, <2>3 DEF IInv
<1> QED
  BY <1>1, <1>2 DEF Next, Step

\* The inductive invariant holds throughout.
THEOREM Invariance == Spec => []IInv
  BY InitHolds, StepHolds, PTL DEF Spec

\* A core that was refused, or is dead, has no kernel lock (data_lock.rs:549):
\* its claims are exactly its locks, and it has none.
THEOREM NothingLeftBehind == Spec => []RefusalLeavesNothing
<1>1. IInv => RefusalLeavesNothing
  BY DEF IInv, ClaimsExact, StepsSound, RefusalLeavesNothing
<1> QED
  BY <1>1, Invariance, PTL

\* Whoever takes a directory from a core that writes it without asking for
\* sharing would need its kernel lock, or would have seen its record.
THEOREM RecordKept == Spec => LiveOwnerKeepsRecord
<1>1. ASSUME IInv, [Next]_vars, NEW d \in Existing,
             record[path[d]] \in Procs, record[path[d]] # record'[path[d]],
             pc[record[path[d]]] = "serve"
      PROVE  \E p \in {record[path[d]], record'[path[d]]} \cap Hatch : holder[path[d]] # p
  <2> DEFINE o == record[path[d]]
  <2> USE DEF IInv
  <2>1. d \in Dirs /\ path[d] \in Inodes
    BY <1>1, ExistingInodes
  <2>2. PICK p \in Procs : WriteRecord(p)
    <3>1. record' # record
      BY <1>1
    <3>2. \E p \in Procs : Step(p)
      BY <1>1, <3>1 DEF Next, Step, vars, disk
    <3> QED
      BY <3>1, <3>2, RecordsMove
  <2>3. Anchor(p) \in Dirs
    BY <1>1, AnchorFacts DEF TypeOK, Anchor
  <2>4. record'[path[d]] = p /\ path[d] = path[Anchor(p)]
    BY <1>1, <2>1, <2>2 DEF WriteRecord, TypeOK
  <2>5. d = Anchor(p)
    BY <1>1, <2>1, <2>3, <2>4 DEF PathsSound, Inodes
  <2>6. Settled(p, d) /\ ~busy[p] /\ d \notin shared[p] /\ p \notin Legacy /\ o # p
    BY <1>1, <2>2, <2>4, <2>5 DEF WriteRecord, Settled, Passed, StepsSound, Anchor, TypeOK
  <2>7. d \in DirsOf(o) /\ o \in Procs
    BY <1>1 DEF RecordsSound
  <2>8. o \notin Legacy
    BY <1>1, <2>6, <2>7 DEF LegacyKept
  <2>9. Settled(o, d) /\ ~busy[o]
    BY <1>1, <2>7 DEF Settled, DirsOf, Passed, StepsSound
  <2>10. (o \in Hatch \/ holder[path[d]] = o) /\ (p \in Hatch \/ holder[path[d]] = p)
    BY <1>1, <2>6, <2>7, <2>8, <2>9 DEF LocksHeld
  <2> QED
    BY <2>4, <2>6, <2>10
<1>2. IInv /\ [Next]_vars => [LiveOwnerKeepsRecord!1]_vars
  BY <1>1
<1> QED
  BY <1>2, Invariance, PTL DEF Spec, LiveOwnerKeepsRecord

\* The cores that serve enter and leave as the gate allows: one that enters
\* beside another, neither asking for sharing, would need the kernel lock the
\* other has, or the directory of a core of an older build whose record it saw.
THEOREM GateImplemented == Spec => ImplementsGate
<1> DEFINE W == {p \in Procs : pc[p] = "serve"}
<1>1. Init => Gate!Init
  <2> SUFFICES ASSUME Init PROVE W = Legacy
    BY DEF Gate!Init
  <2>1. \A p \in Procs : pc[p] = IF p \in Legacy THEN "serve" ELSE "idle"
    BY DEF Init
  <2> QED
    BY <2>1, AnchorsAssumption
<1>2. IInv /\ [Next]_vars => [Gate!Next]_W
  <2> SUFFICES ASSUME IInv, [Next]_vars, W' # W
               PROVE  Gate!Next
    OBVIOUS
  <2> USE DEF IInv
  <2>1. PICK p \in Procs : Step(p)
    BY DEF Next, Step, vars
  <2>2. \A q \in Procs : q # p => pc'[q] = pc[q]
    BY <2>1, OthersKept
  <2>3. CASE pc[p] = "serve"
    <3>1. pc'[p] # "serve" /\ W' = W \ {p}
      BY <2>2, <2>3
    <3> QED
      BY <2>3, <3>1 DEF Gate!Next, Gate!Leave
  <2>4. CASE pc[p] # "serve"
    <3>1. pc'[p] = "serve" /\ W' = W \cup {p}
      BY <2>2, <2>4
    <3>2. pc[p] \in Passed /\ ~busy[p] /\ p \notin Legacy
      BY <2>1, <2>4, <3>1 DEF Step, Acquire, Start, CheckDir, CreateDir, OpenDir, TryLock, LockError,
             ReadOwner, ReadRecord, RemoveDir, SkipShared, EnsureDir, WriteRecord, Unlock, WriteFails,
             Die, TypeOK, TakeFails, Decided, Recorded, StepsSound, Passed
    <3>3. \A d \in DirsOf(p) : Settled(p, d)
      BY <3>2 DEF Settled, DirsOf
    <3>4. ASSUME NEW q \in Procs, pc[q] = "serve", q # p, q \notin Hatch, p \notin Hatch,
                 NEW d \in Existing, d \in DirsOf(p), d \in DirsOf(q)
          PROVE  FALSE
      <4>1. CASE q \in Legacy
        BY <3>2, <3>3, <3>4, <4>1 DEF LegacyKept
      <4>2. CASE q \notin Legacy
        <5>1. Settled(q, d) /\ ~busy[q]
          BY <3>4 DEF Settled, DirsOf, Passed, StepsSound
        <5> QED
          BY <3>2, <3>3, <3>4, <4>2, <5>1 DEF LocksHeld
      <4> QED
        BY <4>1, <4>2
    <3>5. \A q \in W : ~Gate!Exclusive(p, q)
      BY <3>4 DEF Gate!Exclusive
    <3> QED
      BY <2>4, <3>1, <3>5 DEF Gate!Next, Gate!Enter
  <2> QED
    BY <2>3, <2>4
<1> QED
  BY <1>1, <1>2, Invariance, PTL DEF Spec, ImplementsGate, Gate!Spec
=============================================================================
