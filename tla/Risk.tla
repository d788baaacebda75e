-------------------------------- MODULE Risk --------------------------------
(***************************************************************************)
(* The risk posture of a core: the kill switch, the freeze book with its   *)
(* self-heal (freeze.rs), the streaks that feed it, and the risk-state     *)
(* file that carries it across restarts (persist.rs).                      *)
(*                                                                         *)
(* One core lock makes the handlers sequential; what interleaves with them *)
(* is a crash, and a handler may write the file more than once, so the     *)
(* handlers that do are a job of several steps.  A stamp is kept as its    *)
(* age in ticks of the wall clock, up to the age at which it may be        *)
(* lifted; streaks and attempts are counted up to their thresholds, above  *)
(* which they read the same.  Amounts and reasons are left out.            *)
(***************************************************************************)
EXTENDS Naturals, FiniteSets

CONSTANTS
  Accounts, Venues,
  Bound,     \* per venue: account_ids_bound_to_venue
  Intents,   \* internal keys
  AccountOf, \* per intent: its account
  Closing,   \* the intents that are closing SELLs (closes_exposure)
  FREEZE_ON_REJECTS, SWEEP_FAILURE_FREEZE, MAX_PLACE_ATTEMPTS,
  FREEZE_AUTO_LIFT_MIN_MS, \* in ticks
  NoStamp, NoAccount,
  MaxCrashes, MaxFailedWrites, MaxCorruptions \* bounds

ASSUME RiskAssumption ==
  /\ Bound \in [Venues -> SUBSET Accounts]
  /\ AccountOf \in [Intents -> Accounts] /\ Closing \subseteq Intents
  /\ {FREEZE_ON_REJECTS, SWEEP_FAILURE_FREEZE, MAX_PLACE_ATTEMPTS,
      FREEZE_AUTO_LIFT_MIN_MS} \subseteq Nat \ {0}
  /\ NoStamp \notin Nat /\ NoAccount \notin Accounts
  /\ {MaxCrashes, MaxFailedWrites, MaxCorruptions} \subseteq Nat

VARIABLES
  mode,       \* "live" or "dry", for the life of the file (it is per mode)
  up,         \* the process runs
  killed,     \* RiskGate::killed
  freezes,    \* FreezeBook::account_freezes
  stamps,     \* FreezeBook::auto_frozen
  rejects,    \* consecutive_venue_rejects_by_account
  sweepFails, \* consecutive_sweep_failures_by_venue
  attempts,   \* place_cooldowns: rejections of an intent in a row
  inflight,   \* intents at the venue, not yet answered
  cell,       \* RiskStateCell::file
  disk,       \* the file: Missing, Corrupt, or what was written last
  job,        \* the rest of the handler that runs
  crashes, failedWrites, corruptions,
  \* what the operator was promised, for the properties
  held,       \* accounts the operator froze and did not lift
  saved,      \* those of them a successful write followed
  unwritten   \* the last write failed

book == <<killed, freezes, stamps>>
streaks == <<rejects, sweepFails, attempts, inflight>>
files == <<cell, disk, failedWrites, saved, unwritten>>
bounds == <<crashes, corruptions>>
vars == <<mode, up, book, streaks, files, job, bounds, held>>

Ages == 0..FREEZE_AUTO_LIFT_MIN_MS
Stamps == [Accounts -> Ages \cup {NoStamp}]
RiskStateFile == [kill : BOOLEAN, freezes : SUBSET Accounts, stamps : Stamps]
Unstamped == [a \in Accounts |-> NoStamp]
DefaultFile == [kill |-> FALSE, freezes |-> {}, stamps |-> Unstamped]
Missing == [is |-> "Missing", file |-> DefaultFile]
Corrupt == [is |-> "Corrupt", file |-> DefaultFile]
Written(f) == [is |-> "Ok", file |-> f]
Jobs == [does : {"idle", "auto", "lift", "boot"}, todo : SUBSET Accounts,
         stamp : Accounts \cup {NoAccount}]
Idle == [does |-> "idle", todo |-> {}, stamp |-> NoAccount]

\* The core lock is free: a handler may begin.
Free == up /\ job = Idle
Live == mode = "live" /\ Free

UpTo(bound, n) == IF n < bound THEN n + 1 ELSE bound
Aged(age) == IF age = NoStamp THEN NoStamp ELSE UpTo(FREEZE_AUTO_LIFT_MIN_MS, age)
Liftable(a) == stamps[a] = FREEZE_AUTO_LIFT_MIN_MS
-----------------------------------------------------------------------------
(* The file *)

\* persist_risk_state, RiskStateCell::save: the whole cell, atomically, or a
\* warning and memory stays ahead of the file. promised: the accounts whose
\* freeze by the operator is in the cell.
Save(c, promised) ==
  /\ cell' = c
  /\ \/ /\ disk' = Written(c) /\ unwritten' = FALSE /\ saved' = promised
        /\ UNCHANGED failedWrites
     \/ /\ failedWrites < MaxFailedWrites /\ failedWrites' = failedWrites + 1
        /\ unwritten' = TRUE /\ saved' = saved \cap promised
        /\ UNCHANGED disk

\* freeze_account: the first freeze counts, and only it is written.
FreezeAccount(a) ==
  IF a \in freezes
  THEN UNCHANGED <<freezes, files>>
  ELSE /\ freezes' = freezes \cup {a}
       /\ Save([cell EXCEPT !.freezes = @ \cup {a}], held)

\* Mutant: the stamp stays in the book.
LiftKeepsStamp(a, promised) ==
  /\ freezes' = freezes \ {a}
  /\ Save([cell EXCEPT !.freezes = @ \ {a}, !.stamps[a] = NoStamp], promised)
  /\ UNCHANGED stamps

\* resume_account: freeze and stamp go, in the book and in the file.
Lift(a, promised) ==
  /\ freezes' = freezes \ {a}
  /\ stamps' = [stamps EXCEPT ![a] = NoStamp]
  /\ Save([cell EXCEPT !.freezes = @ \ {a}, !.stamps[a] = NoStamp], promised)

\* freeze_trading: already killed, nothing is written again.
FreezeTrading ==
  /\ killed' = TRUE
  /\ IF killed THEN UNCHANGED files ELSE Save([cell EXCEPT !.kill = TRUE], held)
-----------------------------------------------------------------------------
(* Steps of a handler that writes several times *)

\* freeze_account_auto, first write: freeze the next account of the loop; the
\* stamp is due when the freeze is fresh.
AutoFreeze(a) ==
  /\ job.does = "auto" /\ job.stamp = NoAccount /\ a \in job.todo
  /\ FreezeAccount(a)
  /\ LET rest == job.todo \ {a} IN
     job' = IF a \notin freezes THEN [job EXCEPT !.todo = rest, !.stamp = a]
            ELSE IF rest = {} THEN Idle ELSE [job EXCEPT !.todo = rest]
  /\ UNCHANGED <<mode, up, killed, stamps, streaks, bounds, held>>

\* Mutant: the stamp is in memory only.
AutoStampUnsaved ==
  /\ job.stamp # NoAccount
  /\ stamps' = [stamps EXCEPT ![job.stamp] = 0]
  /\ job' = IF job.todo = {} THEN Idle ELSE [job EXCEPT !.stamp = NoAccount]
  /\ UNCHANGED <<mode, up, killed, freezes, streaks, files, bounds, held>>

\* freeze_account_auto, second write: the stamp that lets the self-heal lift.
AutoStamp ==
  /\ job.stamp # NoAccount
  /\ stamps' = [stamps EXCEPT ![job.stamp] = 0]
  /\ Save([cell EXCEPT !.stamps[job.stamp] = 0], held)
  /\ job' = IF job.todo = {} THEN Idle ELSE [job EXCEPT !.stamp = NoAccount]
  /\ UNCHANGED <<mode, up, killed, freezes, streaks, bounds, held>>

\* auto_lift_if_venue_healthy for the next aged stamp of a successful sweep.
AutoLift(a) ==
  /\ job.does = "lift" /\ a \in job.todo
  /\ Lift(a, held)
  /\ job' = IF job.todo = {a} THEN Idle ELSE [job EXCEPT !.todo = @ \ {a}]
  /\ UNCHANGED <<mode, up, killed, streaks, bounds, held>>

\* freeze_all_accounts_corrupt_boot: every account, one write each, and a last
\* write of the whole cell.
BootFreeze(a) ==
  /\ job.does = "boot" /\ a \in job.todo
  /\ FreezeAccount(a)
  /\ job' = [job EXCEPT !.todo = @ \ {a}]
  /\ UNCHANGED <<mode, up, killed, stamps, streaks, bounds, held>>

BootDone ==
  /\ job.does = "boot" /\ job.todo = {}
  /\ job' = Idle
  /\ Save(cell, held)
  /\ UNCHANGED <<mode, up, book, streaks, bounds, held>>

Step ==
  \/ \E a \in Accounts : AutoFreeze(a) \/ AutoLift(a) \/ BootFreeze(a)
  \/ AutoStamp
  \/ BootDone
-----------------------------------------------------------------------------
(* The venue *)

\* placement_blocked: an entry stops at the cap, a close never does.
PlacementBlocked(i) == attempts[i] >= MAX_PLACE_ATTEMPTS /\ i \notin Closing

\* account_freeze_permits, and the kill switch in check_with_equity: closes pass.
AccountFreezePermits(i) == AccountOf[i] \notin freezes \/ i \in Closing
KillPermits(i) == ~killed \/ i \in Closing

\* The gates of a submission that read the posture.
Place(i) ==
  /\ Live /\ i \notin inflight
  /\ ~PlacementBlocked(i) /\ AccountFreezePermits(i) /\ KillPermits(i)
  /\ inflight' = inflight \cup {i}
  /\ UNCHANGED <<mode, up, book, rejects, sweepFails, attempts, files, job, bounds, held>>

\* confirm_live: the streaks end; the freeze ends when its stamp is old enough.
ConfirmLive(i) ==
  LET a == AccountOf[i] IN
  /\ Live /\ i \in inflight
  /\ inflight' = inflight \ {i}
  /\ rejects' = [rejects EXCEPT ![a] = 0]
  /\ attempts' = [attempts EXCEPT ![i] = 0]
  /\ IF Liftable(a) THEN Lift(a, held) ELSE UNCHANGED <<freezes, stamps, files>>
  /\ UNCHANGED <<mode, up, killed, sweepFails, job, bounds, held>>

\* note_venue_rejection. gone: a close refused because the venue no longer
\* has the position, which feeds no freeze.
NoteVenueRejection(i, gone) ==
  LET a == AccountOf[i]
      streak == UpTo(FREEZE_ON_REJECTS, rejects[a])
  IN
  /\ Live /\ i \in inflight /\ (gone => i \in Closing)
  /\ inflight' = inflight \ {i}
  /\ attempts' = [attempts EXCEPT ![i] = UpTo(MAX_PLACE_ATTEMPTS, @)]
  /\ rejects' = IF gone THEN rejects ELSE [rejects EXCEPT ![a] = streak]
  /\ job' = IF ~gone /\ streak >= FREEZE_ON_REJECTS
            THEN [Idle EXCEPT !.does = "auto", !.todo = {a}] ELSE Idle
  /\ UNCHANGED <<mode, up, book, sweepFails, files, bounds, held>>

\* The freeze of a venue: its bound accounts, or the kill switch without any.
FreezeVenue(v) ==
  IF Bound[v] # {}
  THEN /\ job' = [Idle EXCEPT !.does = "auto", !.todo = Bound[v]]
       /\ UNCHANGED <<killed, files>>
  ELSE FreezeTrading /\ UNCHANGED job

\* on_venue_self_check with a failed report.
OnVenueSelfCheck(v) ==
  /\ Live
  /\ FreezeVenue(v)
  /\ UNCHANGED <<mode, up, freezes, stamps, streaks, bounds, held>>

\* on_venue_reconcile_failed.
OnVenueReconcileFailed(v) ==
  LET streak == UpTo(SWEEP_FAILURE_FREEZE, sweepFails[v]) IN
  /\ Live
  /\ sweepFails' = [sweepFails EXCEPT ![v] = streak]
  /\ IF streak >= SWEEP_FAILURE_FREEZE THEN FreezeVenue(v)
     ELSE UNCHANGED <<killed, files, job>>
  /\ UNCHANGED <<mode, up, freezes, stamps, rejects, attempts, inflight, bounds, held>>

\* Mutant: a healthy sweep ends the streaks and lifts nothing.
SweepSucceedsOnly ==
  /\ Live
  /\ sweepFails' = [v \in Venues |-> 0]
  /\ UNCHANGED <<mode, up, book, rejects, attempts, inflight, files, job, bounds, held>>

\* The part of a successful sweep (reconcile_for_venue) that is about the
\* posture: every venue's streak ends, every aged stamp is lifted.
SweepSucceeds ==
  /\ Live
  /\ sweepFails' = [v \in Venues |-> 0]
  /\ LET aged == {a \in Accounts : Liftable(a)} IN
     job' = IF aged = {} THEN Idle ELSE [Idle EXCEPT !.does = "lift", !.todo = aged]
  /\ UNCHANGED <<mode, up, book, rejects, attempts, inflight, files, bounds, held>>
-----------------------------------------------------------------------------
(* The operator *)

\* Mutant: the stamp of an automatic freeze stays, as before issue 685.
ManualStampKept(a) == stamps[a]

\* The stamp an operator's freeze leaves: none.
ManualStamp(a) == NoStamp

\* account.freeze on: freeze_account_manual. The stamp leaves the book first;
\* freeze_account does nothing for an account that is frozen already, so the
\* stamp in the file is written away on its own.
FreezeAccountManual(a) ==
  /\ Free
  /\ held' = held \cup {a}
  /\ stamps' = [stamps EXCEPT ![a] = ManualStamp(a)]
  /\ freezes' = freezes \cup {a}
  /\ IF a \in freezes /\ cell.stamps[a] = ManualStamp(a) THEN UNCHANGED files
     ELSE Save([cell EXCEPT !.freezes = @ \cup {a}, !.stamps[a] = ManualStamp(a)],
               held \cup {a})
  /\ UNCHANGED <<mode, up, killed, streaks, job, bounds>>

\* account.freeze off: resume_account.
ResumeAccount(a) ==
  /\ Free
  /\ held' = held \ {a}
  /\ Lift(a, held \ {a})
  /\ UNCHANGED <<mode, up, killed, streaks, job, bounds>>

\* risk.kill.
Kill ==
  /\ Free
  /\ killed' = TRUE
  /\ Save([cell EXCEPT !.kill = TRUE], held)
  /\ UNCHANGED <<mode, up, freezes, stamps, streaks, job, bounds, held>>

\* risk.resume.
Resume ==
  /\ Free
  /\ killed' = FALSE
  /\ Save([cell EXCEPT !.kill = FALSE], held)
  /\ UNCHANGED <<mode, up, freezes, stamps, streaks, job, bounds, held>>

\* The posture's part of reset_trading, which a live core refuses: the gate is
\* resumed in memory, the account's rows go from the book and from the cell.
ResetTrading(a) ==
  /\ Free /\ mode = "dry"
  /\ held' = held \ {a}
  /\ killed' = FALSE
  /\ freezes' = freezes \ {a}
  /\ stamps' = [stamps EXCEPT ![a] = NoStamp]
  /\ rejects' = [rejects EXCEPT ![a] = 0]
  /\ attempts' = [i \in Intents |-> 0]
  /\ Save([cell EXCEPT !.freezes = @ \ {a}, !.stamps[a] = NoStamp], held \ {a})
  /\ UNCHANGED <<mode, up, sweepFails, inflight, job, bounds>>
-----------------------------------------------------------------------------
(* Restarts *)

\* The process dies, between two writes of a handler too. A freeze the
\* operator set and no write followed is no longer promised.
Crash ==
  /\ up /\ crashes < MaxCrashes
  /\ crashes' = crashes + 1
  /\ up' = FALSE
  /\ job' = Idle /\ killed' = FALSE /\ freezes' = {} /\ stamps' = Unstamped
  /\ rejects' = [a \in Accounts |-> 0] /\ sweepFails' = [v \in Venues |-> 0]
  /\ attempts' = [i \in Intents |-> 0] /\ inflight' = {}
  /\ cell' = DefaultFile /\ unwritten' = FALSE
  /\ held' = held \cap saved /\ saved' = held \cap saved
  /\ UNCHANGED <<mode, disk, failedWrites, corruptions>>

\* The file is damaged while no core runs.
CorruptFile ==
  /\ ~up /\ disk.is = "Ok" /\ corruptions < MaxCorruptions
  /\ corruptions' = corruptions + 1
  /\ disk' = Corrupt
  /\ held' = {} /\ saved' = {}
  /\ UNCHANGED <<mode, up, book, streaks, cell, failedWrites, unwritten, job, crashes>>

\* restore_risk_state_at_boot: the kill, the freezes, the stamps of frozen
\* accounts; its writes repeat what the file says.
Restored(f) ==
  [f EXCEPT !.stamps = [a \in Accounts |-> IF a \in f.freezes THEN f.stamps[a]
                                          ELSE NoStamp]]

\* with_account_book: what load_risk_state_file found is restored, and a file
\* that does not parse freezes every account.
Boot ==
  /\ ~up /\ up' = TRUE
  /\ cell' = disk.file
  /\ killed' = Restored(disk.file).kill
  /\ freezes' = Restored(disk.file).freezes
  /\ stamps' = Restored(disk.file).stamps
  /\ job' = IF disk.is = "Corrupt"
            THEN [Idle EXCEPT !.does = "boot", !.todo = Accounts] ELSE Idle
  /\ UNCHANGED <<mode, streaks, disk, failedWrites, saved, unwritten, bounds, held>>

\* The wall clock: it runs whether or not a core does.
Tick ==
  LET Older(s) == [a \in Accounts |-> Aged(s[a])] IN
  /\ stamps' = Older(stamps)
  /\ cell' = [cell EXCEPT !.stamps = Older(@)]
  /\ disk' = [disk EXCEPT !.file.stamps = Older(@)]
  /\ UNCHANGED <<mode, up, killed, freezes, streaks, failedWrites, saved, unwritten,
                 job, bounds, held>>

Init ==
  /\ mode \in {"live", "dry"}
  /\ up = TRUE /\ killed = FALSE /\ freezes = {} /\ stamps = Unstamped
  /\ rejects = [a \in Accounts |-> 0] /\ sweepFails = [v \in Venues |-> 0]
  /\ attempts = [i \in Intents |-> 0] /\ inflight = {}
  /\ cell = DefaultFile /\ disk = Missing /\ job = Idle
  /\ crashes = 0 /\ failedWrites = 0 /\ corruptions = 0
  /\ held = {} /\ saved = {} /\ unwritten = FALSE

Next ==
  \/ Step \/ SweepSucceeds \/ Kill \/ Resume \/ Crash \/ CorruptFile \/ Boot \/ Tick
  \/ \E a \in Accounts : FreezeAccountManual(a) \/ ResumeAccount(a) \/ ResetTrading(a)
  \/ \E i \in Intents : Place(i) \/ ConfirmLive(i)
  \/ \E i \in Intents, gone \in BOOLEAN : NoteVenueRejection(i, gone)
  \/ \E v \in Venues : OnVenueSelfCheck(v) \/ OnVenueReconcileFailed(v)

\* A handler that began goes on, a core that died is started again, time
\* passes. The sweep is retried for ever and succeeds now and then; it waits
\* for the core lock, which is handed out in the order of the waiters.
Fairness ==
  WF_vars(Step) /\ WF_vars(Boot) /\ WF_vars(Tick) /\ SF_vars(SweepSucceeds)

Spec == Init /\ [][Next]_vars /\ Fairness

-----------------------------------------------------------------------------
(* Properties *)

\* Every variable has its type, and the stamps are a part of the freeze book:
\* an account is stamped only while it is frozen (freeze.rs:218-221).
TypeOK ==
  /\ \A a \in Accounts : stamps[a] # NoStamp => a \in freezes
  /\ mode \in {"live", "dry"} /\ up \in BOOLEAN /\ killed \in BOOLEAN
  /\ freezes \subseteq Accounts /\ stamps \in Stamps
  /\ rejects \in [Accounts -> 0..FREEZE_ON_REJECTS]
  /\ sweepFails \in [Venues -> 0..SWEEP_FAILURE_FREEZE]
  /\ attempts \in [Intents -> 0..MAX_PLACE_ATTEMPTS] /\ inflight \subseteq Intents
  /\ cell \in RiskStateFile
  /\ disk \in [is : {"Missing", "Corrupt", "Ok"}, file : RiskStateFile]
  /\ job \in Jobs
  /\ crashes \in 0..MaxCrashes /\ failedWrites \in 0..MaxFailedWrites
  /\ corruptions \in 0..MaxCorruptions
  /\ held \subseteq Accounts /\ saved \subseteq held /\ unwritten \in BOOLEAN

\* An operator's freeze stands until the operator lifts it: no acknowledgement,
\* no healthy sweep, no later automatic freeze and no restart re-arms the
\* self-heal for it, provided one write after it reached the file
\* (freeze.rs:151-158, persist.rs:76-78).
OperatorFreezeStands == Free => held \subseteq freezes

\* What the next start would restore is what is in force now, whenever the
\* last write landed: every freeze, every stamp and an engaged kill switch
\* (persist.rs:131-133, "a restart cannot launder the risk posture").
PostureRecorded ==
  Free /\ ~unwritten =>
    /\ disk.file.freezes = freezes
    /\ disk.file.stamps = stamps
    /\ killed => disk.file.kill

\* A freeze the kernel set on circumstantial evidence, once its stamp is on
\* disk, ends by itself when the venue is healthy again, across crashes and
\* failed writes; unless the operator takes it over or the file is lost
\* (freeze.rs:174-187, helpers.rs:114-119).
AutoFreezesHeal ==
  \A a \in Accounts :
    disk.is = "Ok" /\ disk.file.stamps[a] # NoStamp
      ~> (up /\ a \notin freezes) \/ a \in held \/ disk.is = "Corrupt"

-----------------------------------------------------------------------------
(* What the source says and the code does not keep; no run lists it *)

\* What trading_reset.rs:950-953 says of the reset: "the risk.resume() above
\* already cleared the kill in the cell", so that a lifted kill stays lifted.
LiftedKillStaysLifted == Free /\ ~unwritten => (disk.file.kill => killed)
=============================================================================
