----------------------------- MODULE Risk_proofs -----------------------------
(***************************************************************************)
(* Proofs about Risk, for every set of accounts, venues and intents, every *)
(* threshold and every bound on crashes, failed writes and corruptions:    *)
(* the posture is well typed, an operator's freeze stands, and the file    *)
(* records what is in force.                                               *)
(*                                                                         *)
(* None of the three is inductive.  What they rest on is that the cell     *)
(* mirrors the book in every state, handlers that write several times      *)
(* included (Mirror), and that what the operator was promised is frozen    *)
(* and unstamped both in memory and, once saved, in the file (Promise).    *)
(***************************************************************************)
EXTENDS Risk, TLAPS

\* A file that was written has stamps for frozen accounts only, and a missing
\* or damaged one restores nothing.
DiskSound ==
  /\ \A a \in Accounts : disk.file.stamps[a] # NoStamp => a \in disk.file.freezes
  /\ disk.is # "Ok" => disk.file.freezes = {}

\* The cell and the book are the same posture, and so is the file while the
\* last write landed. A core that is down has no job and owes no write.
Mirror ==
  /\ cell.freezes = freezes /\ cell.stamps = stamps /\ (killed => cell.kill)
  /\ up /\ ~unwritten => disk.file = cell
  /\ ~up => ~unwritten /\ job = Idle

\* What the operator froze is frozen for good: unstamped, in memory while the
\* core is up, and in the file from the first write that followed.
Promise ==
  /\ up => \A a \in held : a \in freezes /\ stamps[a] = NoStamp
  /\ ~up => held = saved
  /\ \A a \in saved : a \in disk.file.freezes /\ disk.file.stamps[a] = NoStamp

\* The handler that runs: the account to be stamped is frozen and not the
\* operator's, the accounts to be lifted are stamped.
JobSound ==
  /\ job.stamp # NoAccount => job.does = "auto" /\ job.stamp \in freezes \ held
  /\ job.does = "lift" => \A a \in job.todo : stamps[a] # NoStamp

IInv == TypeOK /\ DiskSound /\ Mirror /\ Promise /\ JobSound

-----------------------------------------------------------------------------
(* A write, and what does not write *)

\* What a first start writes has its type.
LEMMA InitialFile ==
  DefaultFile \in RiskStateFile /\ Unstamped \in Stamps /\ Idle \in Jobs
BY DEF DefaultFile, RiskStateFile, Unstamped, Stamps, Idle, Jobs

\* Save, landed or not: a posture that keeps its promises in the cell keeps
\* them in the file too.
LEMMA SaveEffect ==
  ASSUME TypeOK, DiskSound, Promise, NEW c \in RiskStateFile,
         NEW promised \in SUBSET Accounts, Save(c, promised),
         \A a \in Accounts : c.stamps[a] # NoStamp => a \in c.freezes,
         \A a \in promised : a \in c.freezes /\ c.stamps[a] = NoStamp
  PROVE  /\ cell' = c /\ cell' \in RiskStateFile
         /\ disk' \in [is : {"Missing", "Corrupt", "Ok"}, file : RiskStateFile]
         /\ failedWrites' \in 0..MaxFailedWrites
         /\ unwritten' \in BOOLEAN /\ saved' \subseteq promised
         /\ ~unwritten' => disk'.file = c
         /\ DiskSound'
         /\ \A a \in saved' : a \in disk'.file.freezes /\ disk'.file.stamps[a] = NoStamp
<1>1. CASE /\ disk' = Written(c) /\ unwritten' = FALSE /\ saved' = promised
           /\ UNCHANGED failedWrites
  <2>1. disk'.file = c /\ disk'.is = "Ok"
    BY <1>1 DEF Written
  <2>2. disk' \in [is : {"Missing", "Corrupt", "Ok"}, file : RiskStateFile]
    BY <1>1 DEF Written
  <2> QED BY <1>1, <2>1, <2>2 DEF Save, TypeOK, DiskSound
<1>2. CASE /\ failedWrites < MaxFailedWrites /\ failedWrites' = failedWrites + 1
           /\ unwritten' = TRUE /\ saved' = saved \cap promised
           /\ UNCHANGED disk
  <2>1. failedWrites' \in 0..MaxFailedWrites
    BY <1>2, RiskAssumption DEF TypeOK
  <2> QED BY <1>2, <2>1 DEF Save, TypeOK, DiskSound, Promise
<1> QED BY <1>1, <1>2 DEF Save

\* A step of a running core that saves the posture it leaves keeps the
\* invariant, if the posture itself is sound.
LEMMA SaveKeeps ==
  ASSUME IInv, NEW c \in RiskStateFile, Save(c, held'), up, up' = up,
         mode' = mode, killed' \in BOOLEAN, killed' => c.kill,
         freezes' \subseteq Accounts, stamps' \in Stamps,
         c.freezes = freezes', c.stamps = stamps', held' \subseteq Accounts,
         \A a \in Accounts : stamps'[a] # NoStamp => a \in freezes',
         \A a \in held' : a \in freezes' /\ stamps'[a] = NoStamp,
         rejects' \in [Accounts -> 0..FREEZE_ON_REJECTS],
         sweepFails' \in [Venues -> 0..SWEEP_FAILURE_FREEZE],
         attempts' \in [Intents -> 0..MAX_PLACE_ATTEMPTS],
         inflight' \subseteq Intents, job' \in Jobs, UNCHANGED bounds, JobSound'
  PROVE  IInv'
<1>1. /\ cell' = c /\ cell' \in RiskStateFile
      /\ disk' \in [is : {"Missing", "Corrupt", "Ok"}, file : RiskStateFile]
      /\ failedWrites' \in 0..MaxFailedWrites
      /\ unwritten' \in BOOLEAN /\ saved' \subseteq held'
      /\ ~unwritten' => disk'.file = c
      /\ DiskSound'
      /\ \A a \in saved' : a \in disk'.file.freezes /\ disk'.file.stamps[a] = NoStamp
  BY SaveEffect DEF IInv
<1>2. TypeOK'
  BY <1>1 DEF IInv, TypeOK, bounds
<1>3. Mirror' /\ Promise'
  BY <1>1 DEF Mirror, Promise
<1> QED BY <1>1, <1>2, <1>3 DEF IInv

\* A step that leaves the posture, the file and the promises alone.
LEMMA Frame ==
  ASSUME IInv, UNCHANGED <<mode, up, book, files, bounds, held>>,
         rejects' \in [Accounts -> 0..FREEZE_ON_REJECTS],
         sweepFails' \in [Venues -> 0..SWEEP_FAILURE_FREEZE],
         attempts' \in [Intents -> 0..MAX_PLACE_ATTEMPTS],
         inflight' \subseteq Intents, job' \in Jobs, ~up => job' = Idle, JobSound'
  PROVE  IInv'
<1> USE DEF book, files, bounds
<1>1. TypeOK'
  BY DEF IInv, TypeOK
<1>2. DiskSound' /\ Mirror' /\ Promise'
  BY DEF IInv, DiskSound, Mirror, Promise
<1> QED BY <1>1, <1>2 DEF IInv

-----------------------------------------------------------------------------
(* Numbers *)

\* A capped count stays within its cap.
LEMMA UpToRange ==
  ASSUME NEW bound \in Nat \ {0}, NEW n \in 0..bound
  PROVE  UpTo(bound, n) \in 0..bound
BY DEF UpTo

\* The thresholds of the code and the bounds are natural numbers.
LEMMA Thresholds ==
  /\ FREEZE_ON_REJECTS \in Nat \ {0} /\ SWEEP_FAILURE_FREEZE \in Nat \ {0}
  /\ MAX_PLACE_ATTEMPTS \in Nat \ {0} /\ FREEZE_AUTO_LIFT_MIN_MS \in Nat \ {0}
  /\ MaxCrashes \in Nat /\ MaxFailedWrites \in Nat /\ MaxCorruptions \in Nat
BY RiskAssumption

\* A stamp that ages stays a stamp, and no stamp stays none.
LEMMA AgedStamp ==
  ASSUME NEW s \in Ages \cup {NoStamp}
  PROVE  /\ Aged(s) \in Ages \cup {NoStamp}
         /\ Aged(s) = NoStamp <=> s = NoStamp
<1>1. CASE s = NoStamp
  BY <1>1 DEF Aged
<1>2. CASE s # NoStamp
  <2>1. UpTo(FREEZE_AUTO_LIFT_MIN_MS, s) \in Ages
    BY <1>2, Thresholds, UpToRange DEF Ages
  <2>2. NoStamp \notin Ages
    BY RiskAssumption, Thresholds DEF Ages
  <2> QED BY <1>2, <2>1, <2>2 DEF Aged
<1> QED BY <1>1, <1>2

-----------------------------------------------------------------------------
(* Steps of a handler that writes several times *)

\* Streaks and counters keep their types.
LEMMA StreaksTyped ==
  ASSUME TypeOK, UNCHANGED streaks
  PROVE  /\ rejects' \in [Accounts -> 0..FREEZE_ON_REJECTS]
         /\ sweepFails' \in [Venues -> 0..SWEEP_FAILURE_FREEZE]
         /\ attempts' \in [Intents -> 0..MAX_PLACE_ATTEMPTS]
         /\ inflight' \subseteq Intents
BY DEF TypeOK, streaks

\* Nothing is owed by an idle core.
LEMMA IdleSound == ASSUME job' = Idle PROVE JobSound' /\ job' \in Jobs
BY InitialFile DEF JobSound, Idle

\* The freeze of one account by a handler, with the job that is left.
LEMMA FreezeKeeps ==
  ASSUME IInv, NEW a \in Accounts, FreezeAccount(a), up, job' \in Jobs,
         UNCHANGED <<mode, up, killed, stamps, streaks, bounds, held>>, JobSound'
  PROVE  IInv'
<1>1. TypeOK
  BY DEF IInv
<1>2. CASE a \in freezes
  BY <1>1, <1>2, StreaksTyped, Frame DEF FreezeAccount, book
<1>3. CASE a \notin freezes
  <2> DEFINE c == [cell EXCEPT !.freezes = @ \cup {a}]
  <2>1. /\ c \in RiskStateFile
        /\ c.freezes = freezes \cup {a} /\ c.stamps = stamps /\ c.kill = cell.kill
    BY <1>1 DEF TypeOK, RiskStateFile, IInv, Mirror
  <2>2. freezes' = freezes \cup {a} /\ Save(c, held')
    BY <1>3 DEF FreezeAccount, Save
  <2>3. /\ \A b \in Accounts : stamps'[b] # NoStamp => b \in freezes'
        /\ \A b \in held' : b \in freezes' /\ stamps'[b] = NoStamp
    BY <2>2 DEF IInv, TypeOK, Promise
  <2>4. killed' => c.kill
    BY <2>1 DEF IInv, Mirror
  <2>5. /\ mode' = mode /\ up' = up /\ killed' \in BOOLEAN
        /\ freezes' \subseteq Accounts /\ stamps' \in Stamps /\ held' \subseteq Accounts
        /\ c.freezes = freezes' /\ c.stamps = stamps' /\ UNCHANGED bounds
    BY <1>1, <2>1, <2>2 DEF TypeOK
  <2> HIDE DEF c
  <2> QED BY <1>1, <2>1, <2>2, <2>3, <2>4, <2>5, StreaksTyped, SaveKeeps
<1> QED BY <1>2, <1>3

\* A lift, by the self-heal or by the operator. The operator's promise for the
\* account goes with it.
LEMMA LiftKeeps ==
  ASSUME IInv, NEW a \in Accounts, Lift(a, held'), up,
         held' \subseteq held, a \notin held', job' \in Jobs,
         UNCHANGED <<mode, up, bounds>>, killed' \in BOOLEAN, killed' => killed,
         rejects' \in [Accounts -> 0..FREEZE_ON_REJECTS],
         sweepFails' \in [Venues -> 0..SWEEP_FAILURE_FREEZE],
         attempts' \in [Intents -> 0..MAX_PLACE_ATTEMPTS],
         inflight' \subseteq Intents, JobSound'
  PROVE  IInv'
<1> DEFINE c == [cell EXCEPT !.freezes = @ \ {a}, !.stamps[a] = NoStamp]
<1>1. TypeOK
  BY DEF IInv
<1>2. /\ c \in RiskStateFile
      /\ c.freezes = freezes \ {a} /\ c.stamps = [stamps EXCEPT ![a] = NoStamp]
      /\ c.kill = cell.kill
  BY <1>1 DEF TypeOK, RiskStateFile, Stamps, IInv, Mirror
<1>3. /\ freezes' = freezes \ {a} /\ stamps' = [stamps EXCEPT ![a] = NoStamp]
      /\ Save(c, held')
  BY DEF Lift
<1>4. /\ \A b \in Accounts : stamps'[b] # NoStamp => b \in freezes'
      /\ \A b \in held' : b \in freezes' /\ stamps'[b] = NoStamp
  BY <1>1, <1>3 DEF IInv, TypeOK, Promise, Stamps
<1>5. killed' => c.kill
  BY <1>2 DEF IInv, Mirror
<1>6. /\ freezes' \subseteq Accounts /\ stamps' \in Stamps /\ held' \subseteq Accounts
      /\ c.freezes = freezes' /\ c.stamps = stamps'
  BY <1>1, <1>2, <1>3 DEF TypeOK, Stamps
<1> HIDE DEF c
<1> QED BY <1>1, <1>2, <1>3, <1>4, <1>5, <1>6, SaveKeeps

\* Only a running core is in the middle of a handler.
LEMMA RunningUp == ASSUME IInv, job.does # "idle" \/ job.stamp # NoAccount PROVE up
BY DEF IInv, Mirror, Idle

\* An automatic freeze keeps the invariant.
LEMMA AutoFreezeKeeps ==
  ASSUME IInv, NEW a \in Accounts, AutoFreeze(a) PROVE IInv'
<1>1. up
  BY RunningUp DEF AutoFreeze
<1>2. job' \in Jobs
  BY InitialFile DEF AutoFreeze, IInv, TypeOK, Jobs
<1>3. JobSound'
  <2>1. CASE a \notin freezes
    <3>1. job' = [job EXCEPT !.todo = job.todo \ {a}, !.stamp = a]
      BY <2>1 DEF AutoFreeze
    <3>2. job'.stamp = a /\ job'.does = "auto"
      BY <3>1 DEF AutoFreeze, IInv, TypeOK, Jobs
    <3>3. a \in freezes' /\ a \notin held'
      BY <1>1, <2>1 DEF AutoFreeze, FreezeAccount, IInv, Promise
    <3> QED BY <3>2, <3>3 DEF JobSound
  <2>2. CASE a \in freezes
    <3>1. job' = Idle \/ job' = [job EXCEPT !.todo = job.todo \ {a}]
      BY <2>2 DEF AutoFreeze
    <3>2. job'.stamp = NoAccount /\ job'.does # "lift"
      BY <3>1 DEF AutoFreeze, IInv, TypeOK, Jobs, Idle
    <3> QED BY <3>2 DEF JobSound
  <2> QED BY <2>1, <2>2
<1> QED BY <1>1, <1>2, <1>3, FreezeKeeps DEF AutoFreeze

\* The stamp written behind an automatic freeze keeps the invariant.
LEMMA AutoStampKeeps ==
  ASSUME IInv, AutoStamp PROVE IInv'
<1> DEFINE a == job.stamp
           c == [cell EXCEPT !.stamps[job.stamp] = 0]
<1>1. TypeOK /\ up
  BY RunningUp DEF IInv, AutoStamp
<1>2. a \in Accounts /\ a \in freezes \ held
  BY <1>1 DEF AutoStamp, IInv, JobSound, TypeOK
<1>3. 0 \in Ages
  BY Thresholds DEF Ages
<1>4. /\ c \in RiskStateFile
      /\ c.freezes = freezes /\ c.stamps = [stamps EXCEPT ![a] = 0]
      /\ c.kill = cell.kill
  BY <1>1, <1>2, <1>3 DEF TypeOK, RiskStateFile, Stamps, IInv, Mirror
<1>5. stamps' = [stamps EXCEPT ![a] = 0] /\ Save(c, held')
  BY DEF AutoStamp, Save
<1>6. /\ \A b \in Accounts : stamps'[b] # NoStamp => b \in freezes'
      /\ \A b \in held' : b \in freezes' /\ stamps'[b] = NoStamp
  BY <1>1, <1>2, <1>5 DEF AutoStamp, IInv, TypeOK, Promise, Stamps
<1>7. killed' => c.kill
  BY <1>4 DEF IInv, Mirror, AutoStamp
<1>8. job' \in Jobs /\ job'.stamp = NoAccount /\ job'.does # "lift"
  BY <1>1, InitialFile DEF AutoStamp, IInv, JobSound, TypeOK, Jobs, Idle
<1>9. JobSound'
  BY <1>8 DEF JobSound
<1>10. /\ mode' = mode /\ up' = up /\ killed' \in BOOLEAN
       /\ freezes' \subseteq Accounts /\ stamps' \in Stamps /\ held' \subseteq Accounts
       /\ c.freezes = freezes' /\ c.stamps = stamps' /\ UNCHANGED bounds
       /\ UNCHANGED streaks
  BY <1>1, <1>3, <1>4, <1>5 DEF AutoStamp, TypeOK, Stamps
<1> HIDE DEF c
<1> QED BY <1>1, <1>4, <1>5, <1>6, <1>7, <1>8, <1>9, <1>10, StreaksTyped, SaveKeeps

\* The automatic lift keeps the invariant: it passes over operator freezes.
LEMMA AutoLiftKeeps ==
  ASSUME IInv, NEW a \in Accounts, AutoLift(a) PROVE IInv'
<1>1. TypeOK /\ up
  BY RunningUp DEF IInv, AutoLift
<1>2. a \notin held'
  BY <1>1 DEF AutoLift, IInv, JobSound, Promise
<1>3. job' \in Jobs
  BY <1>1, InitialFile DEF AutoLift, TypeOK, Jobs
<1>4. JobSound'
  <2>1. job' = Idle \/ job' = [job EXCEPT !.todo = @ \ {a}]
    BY DEF AutoLift
  <2>2. CASE job' = Idle
    BY <2>2, IdleSound
  <2>3. CASE job' = [job EXCEPT !.todo = @ \ {a}]
    <3>1. job'.does = "lift" /\ job'.stamp = job.stamp /\ job'.todo = job.todo \ {a}
      BY <1>1, <2>3 DEF AutoLift, TypeOK, Jobs
    <3>2. \A b \in job'.todo : stamps'[b] # NoStamp
      BY <1>1, <3>1 DEF AutoLift, Lift, IInv, JobSound, TypeOK, Stamps, Jobs
    <3>3. job.stamp = NoAccount
      BY DEF AutoLift, IInv, JobSound
    <3> QED BY <3>1, <3>2, <3>3 DEF JobSound
  <2> QED BY <2>1, <2>2, <2>3
<1>5. /\ Lift(a, held') /\ held' \subseteq held
      /\ killed' \in BOOLEAN /\ (killed' => killed)
      /\ UNCHANGED <<mode, up, bounds>> /\ UNCHANGED streaks
  BY <1>1 DEF AutoLift, Lift, Save, TypeOK
<1> QED BY <1>1, <1>2, <1>3, <1>4, <1>5, StreaksTyped, LiftKeeps

\* A freeze restored at boot keeps the invariant.
LEMMA BootFreezeKeeps ==
  ASSUME IInv, NEW a \in Accounts, BootFreeze(a) PROVE IInv'
<1>1. up
  BY RunningUp DEF BootFreeze
<1>2. job' \in Jobs
  BY DEF BootFreeze, IInv, TypeOK, Jobs
<1>3. job'.stamp = NoAccount /\ job'.does = "boot"
  BY DEF BootFreeze, IInv, JobSound, TypeOK, Jobs
<1> QED BY <1>1, <1>2, <1>3, FreezeKeeps DEF BootFreeze, JobSound

\* A step that rewrites the kill switch or nothing, and saves.
LEMMA KillKeeps ==
  ASSUME IInv, NEW c \in RiskStateFile, Save(c, held), up, job' \in Jobs,
         c.freezes = cell.freezes, c.stamps = cell.stamps,
         killed' \in BOOLEAN, killed' => c.kill, JobSound',
         UNCHANGED <<mode, up, freezes, stamps, bounds, held>>,
         rejects' \in [Accounts -> 0..FREEZE_ON_REJECTS],
         sweepFails' \in [Venues -> 0..SWEEP_FAILURE_FREEZE],
         attempts' \in [Intents -> 0..MAX_PLACE_ATTEMPTS],
         inflight' \subseteq Intents
  PROVE  IInv'
<1>1. Save(c, held')
  BY DEF Save
<1>2. /\ \A b \in Accounts : stamps'[b] # NoStamp => b \in freezes'
      /\ \A b \in held' : b \in freezes' /\ stamps'[b] = NoStamp
  BY DEF IInv, TypeOK, Promise
<1>3. c.freezes = freezes' /\ c.stamps = stamps'
  BY DEF IInv, Mirror
<1>4. freezes' \subseteq Accounts /\ stamps' \in Stamps /\ held' \subseteq Accounts
  BY DEF IInv, TypeOK
<1> QED BY <1>1, <1>2, <1>3, <1>4, SaveKeeps

\* The end of the boot keeps the invariant.
LEMMA BootDoneKeeps == ASSUME IInv, BootDone PROVE IInv'
<1>1. up /\ TypeOK
  BY RunningUp DEF BootDone, IInv
<1>2. cell \in RiskStateFile /\ killed' \in BOOLEAN /\ (killed' => cell.kill)
  BY DEF BootDone, IInv, TypeOK, Mirror, book
<1>3. JobSound' /\ job' \in Jobs
  BY IdleSound DEF BootDone
<1> QED BY <1>1, <1>2, <1>3, StreaksTyped, KillKeeps DEF BootDone, book

-----------------------------------------------------------------------------
(* The venue *)

\* A placement keeps the invariant.
LEMMA PlaceKeeps == ASSUME IInv, NEW i \in Intents, Place(i) PROVE IInv'
<1>1. /\ rejects' \in [Accounts -> 0..FREEZE_ON_REJECTS]
      /\ sweepFails' \in [Venues -> 0..SWEEP_FAILURE_FREEZE]
      /\ attempts' \in [Intents -> 0..MAX_PLACE_ATTEMPTS]
      /\ inflight' \subseteq Intents /\ job' \in Jobs
  BY DEF Place, IInv, TypeOK
<1>2. JobSound' /\ job' = Idle
  BY IdleSound DEF Place, Live, Free
<1> QED BY <1>1, <1>2, Frame DEF Place

\* An acknowledgement keeps the invariant.
LEMMA ConfirmLiveKeeps == ASSUME IInv, NEW i \in Intents, ConfirmLive(i) PROVE IInv'
<1> DEFINE a == AccountOf[i]
<1>1. TypeOK /\ up /\ a \in Accounts
  BY RiskAssumption DEF IInv, ConfirmLive, Live, Free
<1>2. /\ rejects' \in [Accounts -> 0..FREEZE_ON_REJECTS]
      /\ sweepFails' \in [Venues -> 0..SWEEP_FAILURE_FREEZE]
      /\ attempts' \in [Intents -> 0..MAX_PLACE_ATTEMPTS]
      /\ inflight' \subseteq Intents
  BY <1>1, Thresholds DEF ConfirmLive, TypeOK
<1>3. JobSound' /\ job' \in Jobs
  BY IdleSound DEF ConfirmLive, Live, Free
<1>4. CASE Liftable(a)
  <2>1. a \notin held
    <3>1. stamps[a] # NoStamp
      BY <1>4, RiskAssumption DEF Liftable
    <3> QED BY <1>1, <3>1 DEF IInv, Promise
  <2>2. /\ Lift(a, held') /\ held' \subseteq held
        /\ killed' \in BOOLEAN /\ (killed' => killed) /\ UNCHANGED <<mode, up, bounds>>
    BY <1>1, <1>4 DEF ConfirmLive, Lift, Save, TypeOK
  <2>3. a \notin held'
    BY <2>1, <2>2
  <2> HIDE DEF a
  <2> QED BY <1>1, <1>2, <1>3, <2>2, <2>3, LiftKeeps
<1>5. CASE ~Liftable(a)
  <2>1. UNCHANGED <<mode, up, book, files, bounds, held>>
    BY <1>5 DEF ConfirmLive, book
  <2> QED BY <1>1, <1>2, <1>3, <2>1, Frame
<1> QED BY <1>4, <1>5

\* A rejection keeps the invariant, whether or not its streak freezes.
LEMMA NoteVenueRejectionKeeps ==
  ASSUME IInv, NEW i \in Intents, NEW gone \in BOOLEAN, NoteVenueRejection(i, gone)
  PROVE  IInv'
<1> DEFINE a == AccountOf[i]
<1>1. TypeOK /\ up /\ a \in Accounts
  BY RiskAssumption DEF IInv, NoteVenueRejection, Live, Free
<1>2. UpTo(FREEZE_ON_REJECTS, rejects[a]) \in 0..FREEZE_ON_REJECTS
  BY <1>1, Thresholds, UpToRange DEF TypeOK
<1>3. UpTo(MAX_PLACE_ATTEMPTS, attempts[i]) \in 0..MAX_PLACE_ATTEMPTS
  BY <1>1, Thresholds, UpToRange DEF TypeOK
<1>4. /\ rejects' \in [Accounts -> 0..FREEZE_ON_REJECTS]
      /\ sweepFails' \in [Venues -> 0..SWEEP_FAILURE_FREEZE]
      /\ attempts' \in [Intents -> 0..MAX_PLACE_ATTEMPTS]
      /\ inflight' \subseteq Intents
  BY <1>1, <1>2, <1>3 DEF NoteVenueRejection, TypeOK
<1>5. job' \in Jobs /\ job'.stamp = NoAccount /\ job'.does # "lift"
  BY <1>1, InitialFile DEF NoteVenueRejection, Jobs, Idle
<1> QED BY <1>1, <1>4, <1>5, Frame DEF NoteVenueRejection, JobSound

\* A venue's freeze starts the job of its accounts, or engages the kill switch.
LEMMA FreezeVenueKeeps ==
  ASSUME IInv, NEW v \in Venues, FreezeVenue(v), Free,
         UNCHANGED <<mode, up, freezes, stamps, bounds, held>>,
         rejects' \in [Accounts -> 0..FREEZE_ON_REJECTS],
         sweepFails' \in [Venues -> 0..SWEEP_FAILURE_FREEZE],
         attempts' \in [Intents -> 0..MAX_PLACE_ATTEMPTS],
         inflight' \subseteq Intents
  PROVE  IInv'
<1>1. TypeOK /\ up /\ Bound[v] \subseteq Accounts
  BY RiskAssumption DEF IInv, Free
<1>2. CASE Bound[v] # {}
  <2>1. job' \in Jobs /\ job'.stamp = NoAccount /\ job'.does # "lift"
    BY <1>1, <1>2, InitialFile DEF FreezeVenue, Jobs, Idle
  <2>2. UNCHANGED <<mode, up, book, files, bounds, held>>
    BY <1>2 DEF FreezeVenue, book
  <2> QED BY <1>1, <2>1, <2>2, Frame DEF JobSound
<1>3. CASE Bound[v] = {}
  <2>1. JobSound' /\ job' \in Jobs /\ job' = Idle
    BY <1>3, IdleSound DEF FreezeVenue, Free
  <2>2. CASE killed
    <3>1. UNCHANGED <<mode, up, book, files, bounds, held>>
      BY <1>1, <1>3, <2>2 DEF FreezeVenue, FreezeTrading, TypeOK, book
    <3> QED BY <2>1, <3>1, Frame
  <2>3. CASE ~killed
    <3> DEFINE c == [cell EXCEPT !.kill = TRUE]
    <3>1. /\ c \in RiskStateFile /\ c.freezes = cell.freezes
          /\ c.stamps = cell.stamps /\ c.kill
      BY <1>1 DEF TypeOK, RiskStateFile
    <3>2. Save(c, held) /\ killed' \in BOOLEAN /\ (killed' => c.kill)
      BY <1>3, <2>3, <3>1 DEF FreezeVenue, FreezeTrading
    <3> HIDE DEF c
    <3> QED BY <1>1, <2>1, <3>1, <3>2, KillKeeps
  <2> QED BY <2>2, <2>3
<1> QED BY <1>2, <1>3

\* A failed self check keeps the invariant.
LEMMA OnVenueSelfCheckKeeps ==
  ASSUME IInv, NEW v \in Venues, OnVenueSelfCheck(v) PROVE IInv'
<1>1. TypeOK
  BY DEF IInv
<1> QED BY <1>1, StreaksTyped, FreezeVenueKeeps DEF OnVenueSelfCheck, Live

\* A failed sweep keeps the invariant, whether or not its streak freezes.
LEMMA OnVenueReconcileFailedKeeps ==
  ASSUME IInv, NEW v \in Venues, OnVenueReconcileFailed(v) PROVE IInv'
<1> DEFINE streak == UpTo(SWEEP_FAILURE_FREEZE, sweepFails[v])
<1>1. TypeOK /\ up
  BY DEF IInv, OnVenueReconcileFailed, Live, Free
<1>2. streak \in 0..SWEEP_FAILURE_FREEZE
  BY <1>1, Thresholds, UpToRange DEF TypeOK
<1>3. /\ rejects' \in [Accounts -> 0..FREEZE_ON_REJECTS]
      /\ sweepFails' \in [Venues -> 0..SWEEP_FAILURE_FREEZE]
      /\ attempts' \in [Intents -> 0..MAX_PLACE_ATTEMPTS]
      /\ inflight' \subseteq Intents
  BY <1>1, <1>2 DEF OnVenueReconcileFailed, TypeOK
<1>4. CASE streak >= SWEEP_FAILURE_FREEZE
  BY <1>3, <1>4, FreezeVenueKeeps DEF OnVenueReconcileFailed, Live
<1>5. CASE ~(streak >= SWEEP_FAILURE_FREEZE)
  <2>1. UNCHANGED <<mode, up, book, files, bounds, held>> /\ job' = job
    BY <1>5 DEF OnVenueReconcileFailed, book
  <2>2. JobSound' /\ job' \in Jobs
    BY <2>1, IdleSound DEF OnVenueReconcileFailed, Live, Free
  <2> QED BY <1>1, <1>3, <2>1, <2>2, Frame
<1> QED BY <1>4, <1>5

\* A sweep that succeeds keeps the invariant.
LEMMA SweepSucceedsKeeps == ASSUME IInv, SweepSucceeds PROVE IInv'
<1> DEFINE aged == {a \in Accounts : Liftable(a)}
<1>1. TypeOK /\ up
  BY DEF IInv, SweepSucceeds, Live, Free
<1>2. /\ rejects' \in [Accounts -> 0..FREEZE_ON_REJECTS]
      /\ sweepFails' \in [Venues -> 0..SWEEP_FAILURE_FREEZE]
      /\ attempts' \in [Intents -> 0..MAX_PLACE_ATTEMPTS]
      /\ inflight' \subseteq Intents
  BY <1>1, Thresholds DEF SweepSucceeds, TypeOK
<1>3. /\ job' \in Jobs /\ job'.stamp = NoAccount
      /\ job'.does = "lift" => job'.todo = aged
  BY InitialFile DEF SweepSucceeds, Jobs, Idle
<1>4. \A a \in aged : stamps'[a] # NoStamp
  BY RiskAssumption DEF SweepSucceeds, Liftable, book
<1> QED BY <1>1, <1>2, <1>3, <1>4, Frame DEF SweepSucceeds, JobSound

-----------------------------------------------------------------------------
(* The operator *)

\* The operator's freeze keeps the invariant.
LEMMA FreezeAccountManualKeeps ==
  ASSUME IInv, NEW a \in Accounts, FreezeAccountManual(a) PROVE IInv'
<1> DEFINE c == [cell EXCEPT !.freezes = @ \cup {a}, !.stamps[a] = NoStamp]
<1>1. TypeOK /\ up
  BY DEF IInv, FreezeAccountManual, Free
<1>2. JobSound' /\ job' \in Jobs /\ job' = Idle
  BY IdleSound DEF FreezeAccountManual, Free
<1>3. /\ held' = held \cup {a} /\ freezes' = freezes \cup {a}
      /\ stamps' = [stamps EXCEPT ![a] = NoStamp]
      /\ UNCHANGED <<mode, up, killed, streaks, job, bounds>>
  BY DEF FreezeAccountManual, ManualStamp
<1>4. /\ \A b \in Accounts : stamps'[b] # NoStamp => b \in freezes'
      /\ \A b \in held' : b \in freezes' /\ stamps'[b] = NoStamp
  BY <1>1, <1>3 DEF IInv, TypeOK, Promise, Stamps
<1>5. CASE a \in freezes /\ cell.stamps[a] = NoStamp
  <2>1. UNCHANGED files
    BY <1>5 DEF FreezeAccountManual, ManualStamp
  <2>2. freezes' = freezes /\ stamps' = stamps
    BY <1>1, <1>3, <1>5 DEF IInv, Mirror, TypeOK, Stamps
  <2>3. TypeOK'
    BY <1>1, <1>2, <1>3, <2>1, <2>2 DEF TypeOK, files, streaks, bounds
  <2>4. DiskSound' /\ Mirror' /\ Promise'
    BY <1>1, <1>2, <1>3, <1>4, <2>1, <2>2 DEF IInv, DiskSound, Mirror, Promise, files
  <2> QED BY <1>2, <2>3, <2>4 DEF IInv
<1>6. CASE ~(a \in freezes /\ cell.stamps[a] = NoStamp)
  <2>1. /\ c \in RiskStateFile
        /\ c.freezes = freezes' /\ c.stamps = stamps' /\ c.kill = cell.kill
    BY <1>1, <1>3 DEF TypeOK, RiskStateFile, Stamps, IInv, Mirror
  <2>2. Save(c, held')
    BY <1>3, <1>6 DEF FreezeAccountManual, ManualStamp, Save
  <2>3. /\ killed' \in BOOLEAN /\ (killed' => c.kill) /\ mode' = mode /\ up' = up
        /\ freezes' \subseteq Accounts /\ stamps' \in Stamps /\ held' \subseteq Accounts
        /\ UNCHANGED bounds /\ UNCHANGED streaks
    BY <1>1, <1>3, <2>1 DEF IInv, TypeOK, Mirror, Stamps
  <2> HIDE DEF c
  <2> QED BY <1>1, <1>2, <1>4, <2>1, <2>2, <2>3, StreaksTyped, SaveKeeps
<1> QED BY <1>5, <1>6

\* The operator's resume keeps the invariant.
LEMMA ResumeAccountKeeps ==
  ASSUME IInv, NEW a \in Accounts, ResumeAccount(a) PROVE IInv'
<1>1. TypeOK /\ up
  BY DEF IInv, ResumeAccount, Free
<1>2. JobSound' /\ job' \in Jobs
  BY IdleSound DEF ResumeAccount, Free
<1>3. /\ Lift(a, held') /\ held' \subseteq held /\ a \notin held'
      /\ killed' \in BOOLEAN /\ (killed' => killed)
      /\ UNCHANGED <<mode, up, bounds>> /\ UNCHANGED streaks
  BY <1>1 DEF ResumeAccount, Lift, Save, TypeOK
<1> QED BY <1>1, <1>2, <1>3, StreaksTyped, LiftKeeps

\* The kill switch, pulled or released, keeps the invariant.
LEMMA KillSwitchKeeps == ASSUME IInv, Kill \/ Resume PROVE IInv'
<1> DEFINE c == [cell EXCEPT !.kill = killed']
<1>1. TypeOK /\ up
  BY DEF IInv, Kill, Resume, Free
<1>2. JobSound' /\ job' \in Jobs
  BY IdleSound DEF Kill, Resume, Free
<1>3. killed' \in BOOLEAN /\ Save(c, held)
  BY DEF Kill, Resume, Save
<1>4. /\ c \in RiskStateFile /\ c.freezes = cell.freezes
      /\ c.stamps = cell.stamps /\ c.kill = killed'
  BY <1>1, <1>3 DEF TypeOK, RiskStateFile
<1>5. UNCHANGED <<mode, up, freezes, stamps, bounds, held>> /\ UNCHANGED streaks
  BY DEF Kill, Resume
<1> HIDE DEF c
<1> QED BY <1>1, <1>2, <1>3, <1>4, <1>5, StreaksTyped, KillKeeps

\* A trading reset keeps the invariant.
LEMMA ResetTradingKeeps ==
  ASSUME IInv, NEW a \in Accounts, ResetTrading(a) PROVE IInv'
<1>1. TypeOK /\ up
  BY DEF IInv, ResetTrading, Free
<1>2. JobSound' /\ job' \in Jobs
  BY IdleSound DEF ResetTrading, Free
<1>3. /\ Lift(a, held') /\ held' \subseteq held /\ a \notin held'
      /\ killed' \in BOOLEAN /\ (killed' => killed)
      /\ UNCHANGED <<mode, up, bounds>>
  BY <1>1 DEF ResetTrading, Lift, Save, TypeOK
<1>4. /\ rejects' \in [Accounts -> 0..FREEZE_ON_REJECTS]
      /\ sweepFails' \in [Venues -> 0..SWEEP_FAILURE_FREEZE]
      /\ attempts' \in [Intents -> 0..MAX_PLACE_ATTEMPTS]
      /\ inflight' \subseteq Intents
  BY <1>1, Thresholds DEF ResetTrading, TypeOK
<1> QED BY <1>1, <1>2, <1>3, <1>4, LiftKeeps

-----------------------------------------------------------------------------
(* Restarts and the clock *)

\* A crash keeps the invariant: memory goes, the file stays.
LEMMA CrashKeeps == ASSUME IInv, Crash PROVE IInv'
<1>1. TypeOK
  BY DEF IInv
<1>2. TypeOK'
  <2>1. /\ rejects' \in [Accounts -> 0..FREEZE_ON_REJECTS]
        /\ sweepFails' \in [Venues -> 0..SWEEP_FAILURE_FREEZE]
        /\ attempts' \in [Intents -> 0..MAX_PLACE_ATTEMPTS]
    BY Thresholds DEF Crash
  <2>2. crashes' \in 0..MaxCrashes
    BY <1>1, Thresholds DEF Crash, TypeOK
  <2>3. \A a \in Accounts : stamps'[a] = NoStamp
    BY DEF Crash, Unstamped
  <2> QED BY <1>1, <2>1, <2>2, <2>3, InitialFile DEF Crash, TypeOK
<1>3. DiskSound' /\ JobSound'
  BY IdleSound DEF Crash, IInv, DiskSound
<1>4. Mirror' /\ Promise'
  BY <1>1 DEF Crash, IInv, Mirror, Promise, DefaultFile, Unstamped, TypeOK
<1> QED BY <1>2, <1>3, <1>4 DEF IInv

\* A file that became unreadable keeps the invariant.
LEMMA CorruptFileKeeps == ASSUME IInv, CorruptFile PROVE IInv'
<1>1. TypeOK
  BY DEF IInv
<1>2. corruptions' \in 0..MaxCorruptions
  BY <1>1, Thresholds DEF CorruptFile, TypeOK
<1>3. /\ disk' \in [is : {"Missing", "Corrupt", "Ok"}, file : RiskStateFile]
      /\ disk'.file = DefaultFile
  BY InitialFile DEF CorruptFile, Corrupt
<1>4. TypeOK'
  BY <1>1, <1>2, <1>3 DEF CorruptFile, TypeOK, book, streaks
<1>5. DiskSound' /\ JobSound'
  BY <1>3 DEF CorruptFile, IInv, DiskSound, JobSound, DefaultFile, Unstamped, book
<1>6. Mirror' /\ Promise'
  BY DEF CorruptFile, IInv, Mirror, Promise, book
<1> QED BY <1>4, <1>5, <1>6 DEF IInv

\* The boot keeps the invariant: memory is what the file said.
LEMMA BootKeeps == ASSUME IInv, Boot PROVE IInv'
<1>1. TypeOK
  BY DEF IInv
<1>2. disk.file \in RiskStateFile
  BY <1>1 DEF TypeOK
<1>3. Restored(disk.file) = disk.file
  <2>1. \A a \in Accounts : (IF a \in disk.file.freezes THEN disk.file.stamps[a]
                             ELSE NoStamp) = disk.file.stamps[a]
    BY DEF IInv, DiskSound
  <2>2. [a \in Accounts |-> IF a \in disk.file.freezes THEN disk.file.stamps[a]
                            ELSE NoStamp] = disk.file.stamps
    BY <1>2, <2>1 DEF RiskStateFile, Stamps
  <2> QED BY <1>2, <2>2 DEF Restored, RiskStateFile
<1>4. /\ cell' = disk.file /\ killed' = disk.file.kill
      /\ freezes' = disk.file.freezes /\ stamps' = disk.file.stamps
      /\ UNCHANGED <<mode, streaks, disk, failedWrites, saved, unwritten, bounds, held>>
  BY <1>3 DEF Boot
<1>5. job' \in Jobs /\ job'.stamp = NoAccount /\ job'.does # "lift"
  BY InitialFile DEF Boot, Jobs, Idle
<1>6. TypeOK'
  <2>1. /\ killed' \in BOOLEAN /\ freezes' \subseteq Accounts /\ stamps' \in Stamps
        /\ up' \in BOOLEAN
    BY <1>2, <1>4 DEF RiskStateFile, Boot
  <2>2. \A a \in Accounts : stamps'[a] # NoStamp => a \in freezes'
    BY <1>4 DEF IInv, DiskSound
  <2> QED BY <1>1, <1>2, <1>4, <1>5, <2>1, <2>2 DEF TypeOK, streaks, bounds
<1>7. DiskSound' /\ JobSound'
  BY <1>4, <1>5 DEF IInv, DiskSound, JobSound
<1>8. Mirror' /\ Promise'
  BY <1>4 DEF Boot, IInv, Mirror, Promise
<1> QED BY <1>6, <1>7, <1>8 DEF IInv

\* Time passes: ages grow in the book, in the cell and on disk alike.
LEMMA TickKeeps == ASSUME IInv, Tick PROVE IInv'
<1> DEFINE Older(s) == [a \in Accounts |-> Aged(s[a])]
<1>1. TypeOK
  BY DEF IInv
<1>2. ASSUME NEW s \in Stamps
      PROVE  /\ Older(s) \in Stamps
             /\ \A a \in Accounts : Older(s)[a] = NoStamp <=> s[a] = NoStamp
  <2>1. \A a \in Accounts : s[a] \in Ages \cup {NoStamp}
    BY DEF Stamps
  <2> QED BY <2>1, AgedStamp DEF Stamps
<1>3. stamps \in Stamps /\ cell.stamps \in Stamps /\ disk.file.stamps \in Stamps
  BY <1>1 DEF TypeOK, RiskStateFile
<1>4. /\ stamps' = Older(stamps)
      /\ cell' = [cell EXCEPT !.stamps = Older(cell.stamps)]
      /\ disk' = [disk EXCEPT !.file = [disk.file EXCEPT !.stamps = Older(disk.file.stamps)]]
      /\ UNCHANGED <<mode, up, killed, freezes, streaks, failedWrites, saved, unwritten,
                     job, bounds, held>>
  BY DEF Tick
<1> DEFINE s1 == Older(stamps)
           s2 == Older(cell.stamps)
           s3 == Older(disk.file.stamps)
<1>5. /\ s1 \in Stamps /\ s2 \in Stamps /\ s3 \in Stamps
      /\ \A a \in Accounts : s1[a] = NoStamp <=> stamps[a] = NoStamp
      /\ \A a \in Accounts : s3[a] = NoStamp <=> disk.file.stamps[a] = NoStamp
      /\ cell.stamps = stamps => s2 = s1
      /\ disk.file.stamps = cell.stamps => s3 = s2
  BY <1>2, <1>3
<1>6. /\ stamps' = s1 /\ cell' = [cell EXCEPT !.stamps = s2]
      /\ disk' = [disk EXCEPT !.file = [disk.file EXCEPT !.stamps = s3]]
  BY <1>4
<1> HIDE DEF s1, s2, s3
<1>7. /\ cell' \in RiskStateFile /\ cell'.freezes = cell.freezes
      /\ cell'.kill = cell.kill /\ cell'.stamps = s2
  BY <1>1, <1>5, <1>6 DEF TypeOK, RiskStateFile
<1>8. /\ disk' \in [is : {"Missing", "Corrupt", "Ok"}, file : RiskStateFile]
      /\ disk'.is = disk.is /\ disk'.file.freezes = disk.file.freezes
      /\ disk'.file.kill = disk.file.kill /\ disk'.file.stamps = s3
  BY <1>1, <1>5, <1>6 DEF TypeOK, RiskStateFile
<1>9. TypeOK'
  BY <1>1, <1>4, <1>5, <1>6, <1>7, <1>8 DEF TypeOK, streaks, bounds
<1>10. DiskSound'
  BY <1>5, <1>8 DEF IInv, DiskSound
<1>11. JobSound'
  <2>1. job.todo \subseteq Accounts
    BY <1>1 DEF TypeOK, Jobs
  <2> QED BY <1>4, <1>5, <1>6, <2>1 DEF IInv, JobSound
<1>12. Mirror'
  <2>1. disk.file = cell => disk'.file = cell'
    BY <1>1, <1>5, <1>6 DEF TypeOK, RiskStateFile
  <2> QED BY <1>4, <1>5, <1>6, <1>7, <2>1 DEF IInv, Mirror
<1>13. Promise'
  <2>1. saved \subseteq Accounts /\ held \subseteq Accounts
    BY <1>1 DEF TypeOK
  <2> QED BY <1>4, <1>5, <1>6, <1>8, <2>1 DEF IInv, Promise
<1> QED BY <1>9, <1>10, <1>11, <1>12, <1>13 DEF IInv

-----------------------------------------------------------------------------
(* The theorems *)

\* The invariant holds at the start.
LEMMA InitIInv == ASSUME Init PROVE IInv
<1>1. TypeOK
  <2>1. /\ rejects \in [Accounts -> 0..FREEZE_ON_REJECTS]
        /\ sweepFails \in [Venues -> 0..SWEEP_FAILURE_FREEZE]
        /\ attempts \in [Intents -> 0..MAX_PLACE_ATTEMPTS]
        /\ crashes \in 0..MaxCrashes /\ failedWrites \in 0..MaxFailedWrites
        /\ corruptions \in 0..MaxCorruptions
    BY Thresholds DEF Init
  <2>2. \A a \in Accounts : stamps[a] = NoStamp
    BY DEF Init, Unstamped
  <2>3. disk \in [is : {"Missing", "Corrupt", "Ok"}, file : RiskStateFile]
    BY InitialFile DEF Init, Missing
  <2> QED BY <2>1, <2>2, <2>3, InitialFile DEF Init, TypeOK
<1>2. DiskSound /\ JobSound
  BY DEF Init, DiskSound, JobSound, Missing, DefaultFile, Unstamped, Idle
<1>3. Mirror /\ Promise
  BY DEF Init, Mirror, Promise, Missing, DefaultFile
<1> QED BY <1>1, <1>2, <1>3 DEF IInv

\* Every step keeps the invariant.
LEMMA NextIInv == ASSUME IInv, [Next]_vars PROVE IInv'
<1>1. CASE UNCHANGED vars
  BY <1>1 DEF vars, book, streaks, files, bounds, IInv, TypeOK, DiskSound, Mirror,
              Promise, JobSound
<1>2. ASSUME NEW a \in Accounts, AutoFreeze(a) \/ AutoLift(a) \/ BootFreeze(a)
      PROVE  IInv'
  BY <1>2, AutoFreezeKeeps, AutoLiftKeeps, BootFreezeKeeps
<1>3. CASE AutoStamp \/ BootDone
  BY <1>3, AutoStampKeeps, BootDoneKeeps
<1>4. CASE SweepSucceeds \/ Kill \/ Resume
  BY <1>4, SweepSucceedsKeeps, KillSwitchKeeps
<1>5. CASE Crash \/ CorruptFile \/ Boot \/ Tick
  BY <1>5, CrashKeeps, CorruptFileKeeps, BootKeeps, TickKeeps
<1>6. ASSUME NEW a \in Accounts,
             FreezeAccountManual(a) \/ ResumeAccount(a) \/ ResetTrading(a)
      PROVE  IInv'
  BY <1>6, FreezeAccountManualKeeps, ResumeAccountKeeps, ResetTradingKeeps
<1>7. ASSUME NEW i \in Intents, Place(i) \/ ConfirmLive(i) PROVE IInv'
  BY <1>7, PlaceKeeps, ConfirmLiveKeeps
<1>8. ASSUME NEW i \in Intents, NEW gone \in BOOLEAN, NoteVenueRejection(i, gone)
      PROVE  IInv'
  BY <1>8, NoteVenueRejectionKeeps
<1>9. ASSUME NEW v \in Venues, OnVenueSelfCheck(v) \/ OnVenueReconcileFailed(v)
      PROVE  IInv'
  BY <1>9, OnVenueSelfCheckKeeps, OnVenueReconcileFailedKeeps
<1> QED BY <1>1, <1>2, <1>3, <1>4, <1>5, <1>6, <1>7, <1>8, <1>9 DEF Next, Step

\* IInv is an invariant of the core, its risk file and its restarts: the cell and
\* the book are one posture, the file too while the last write landed, and what
\* the operator froze is in the book and, once written, in the file.
THEOREM Invariance == Spec => []IInv
<1>1. Init => IInv
  BY InitIInv
<1>2. IInv /\ [Next]_vars => IInv'
  BY NextIInv
<1> QED BY <1>1, <1>2, PTL DEF Spec

\* Every variable keeps its type, and only frozen accounts are stamped: the
\* self-heal never lifts what is not frozen (freeze.rs:218-221).
THEOREM TypeCorrect == Spec => []TypeOK
BY Invariance, PTL DEF IInv

\* No acknowledgement, healthy sweep, later automatic freeze, failed write,
\* crash or restart undoes an operator's freeze that one write followed
\* (freeze.rs:151-158, persist.rs:76-78).
THEOREM FreezeStands == Spec => []OperatorFreezeStands
<1>1. IInv => OperatorFreezeStands
  BY DEF IInv, Promise, OperatorFreezeStands, Free
<1> QED BY <1>1, Invariance, PTL

\* Between two handlers the file restores exactly the freezes and stamps in
\* force, and an engaged kill switch, unless the last write failed
\* (persist.rs:131-133).
THEOREM PostureOnDisk == Spec => []PostureRecorded
<1>1. IInv => PostureRecorded
  BY DEF IInv, Mirror, PostureRecorded, Free
<1> QED BY <1>1, Invariance, PTL
=============================================================================
