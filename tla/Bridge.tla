------------------------------- MODULE Bridge -------------------------------
(***************************************************************************)
(* The live bridge (extensions/polymarket/src/live.rs) between the core's   *)
(* order book and a venue: the executor loop that forwards cancels, posts   *)
(* orders, delivers user-WS events and sweeps the venue, interleaved with   *)
(* the core, which changes orders whenever the loop does not hold its lock, *)
(* with the venue, and with crashes of the process.                         *)
(*                                                                          *)
(* Abstractions, all of data:                                               *)
(*  - one venue, one account, one token and side: an unresolved fill may    *)
(*    fall back to any live order;                                          *)
(*  - the terminal statuses are the one status "Ended" (module Ome tells    *)
(*    them apart), an execution is partial or it completes the order, and a *)
(*    fill no order can take is dropped here (Ome keeps its buffer);         *)
(*  - every order is a maker that may be escalated;                          *)
(*  - an order's age is not kept: a sweep finds any unanswered placement     *)
(*    past its verdict budget or not, and fairness makes it so in the end;   *)
(*  - recent_placements is left out: it holds ids the same loop has bound,   *)
(*    which stay known to the core until a restart empties both;             *)
(*  - settlement queries, redemptions, merges, the cash realign and the      *)
(*    self-check probes of the same loop touch no order and are left out.    *)
(***************************************************************************)
EXTENDS Integers, Sequences, FiniteSets

CONSTANTS
  Orders,
  CancelQueueCap,  \* the 256 of queue_venue_cancel
  SweepEvery,      \* loop turns per reconciliation sweep
  MaxPosts,        \* bound on orders the venue accepts
  MaxFailures,     \* bound on DELETEs and snapshots that fail
  MaxTimeouts,     \* bound on POSTs whose answer never arrives
  MaxEvents,       \* bound on user-WS events under way; more are lost
  MaxRestarts,     \* bound on crashes
  NoOrder

ASSUME BridgeAssumption ==
  /\ CancelQueueCap \in Nat \ {0} /\ SweepEvery \in Nat \ {0}
  /\ MaxPosts \in Nat /\ MaxFailures \in Nat /\ MaxTimeouts \in Nat
  /\ MaxEvents \in Nat /\ MaxRestarts \in Nat
  /\ NoOrder \notin Orders

LiveStatuses == {"Pending", "Live", "PartiallyFilled"}
Statuses == LiveStatuses \cup {"New", "Ended"}
Phases == {"startup", "startup_orphans", "tick", "cancels", "places", "sweep",
           "orphans"}
VenueIds == 1..MaxPosts
Unbound == 0

\* What the core keeps of an order: venue_order_id is `bound`, and `armed`
\* says that its maker-to-taker escalation clock is set.
Rows == [status : Statuses, bound : {Unbound} \cup VenueIds,
         uncertain : BOOLEAN, armed : BOOLEAN]
NewRow == [status |-> "New", bound |-> Unbound, uncertain |-> FALSE, armed |-> FALSE]
Events == {"live", "part", "full", "cancelled"} \X VenueIds

VARIABLES
  row,         \* the core's order table
  disk,        \* the rows of orders.jsonl
  cancels,     \* pending_venue_cancels
  phase,       \* where the executor loop is
  work,        \* ids or orders the current phase still has to handle
  strike,      \* cancel_strikes > 0
  post,        \* the POST under way: its order and the id the venue gave it
  since,       \* since_reconcile
  snap,        \* the snapshot of the running sweep
  book,        \* the venue's orders in the order it accepted them
  travelling,  \* orders whose timed-out POST may still reach the venue
  events,      \* user-WS events not delivered yet
  failures, timeouts, restarts,
  chases,      \* history: the maker an escalated order replaces
  posted,      \* history: orders POSTed since the process started
  timedOut,    \* history: orders whose POST timed out
  failed       \* history: ids whose queued cancel failed

coreVars == <<row, disk, cancels, chases>>
loopVars == <<phase, work, strike, post, since, snap>>
venueVars == <<book, travelling, events>>
counters == <<failures, timeouts, restarts>>
history == <<posted, timedOut, failed>>
vars == <<coreVars, loopVars, venueVars, counters, history>>

NoPost == [order |-> NoOrder, id |-> Unbound]
NoSnapshot == [open |-> {}, part |-> {}]
Live(o) == row[o].status \in LiveStatuses
Resting(v) == v \in 1..Len(book) /\ book[v].resting
KnownVenueIds == {row[o].bound : o \in Orders} \ {Unbound}

Init ==
  /\ row = [o \in Orders |-> NewRow]
  /\ disk = row
  /\ cancels = <<>>
  /\ chases = [o \in Orders |-> NoOrder]
  /\ phase = "startup" /\ work = {} /\ strike = FALSE /\ post = NoPost
  /\ since = 0 /\ snap = NoSnapshot
  /\ book = <<>> /\ travelling = {} /\ events = {}
  /\ failures = 0 /\ timeouts = 0 /\ restarts = 0
  /\ posted = {} /\ timedOut = {} /\ failed = {}

-----------------------------------------------------------------------------
(* The core: each operation holds the core lock from start to end *)

\* emit_order: the row changes and its new value is appended to the order log.
Emitted(o, r) ==
  /\ row' = [row EXCEPT ![o] = r]
  /\ disk' = [disk EXCEPT ![o] = r]

Ended(o) == [row[o] EXCEPT !.status = "Ended"]

\* Mutant: no bound on the queue.
QueueVenueCancelUnbounded(v) ==
  IF v = Unbound \/ \E i \in 1..Len(cancels) : cancels[i] = v THEN cancels
  ELSE Append(cancels, v)

\* queue_venue_cancel: deduplicated by id, the oldest entry lost at the cap.
QueueVenueCancel(v) ==
  IF v = Unbound \/ \E i \in 1..Len(cancels) : cancels[i] = v THEN cancels
  ELSE IF Len(cancels) = CancelQueueCap THEN Append(Tail(cancels), v)
  ELSE Append(cancels, v)

\* place_pending
Place(o) ==
  /\ row[o].status = "New"
  /\ Emitted(o, [row[o] EXCEPT !.status = "Pending"])
  /\ UNCHANGED <<cancels, chases, loopVars, venueVars, counters, history>>

\* Core::cancel of a live order, and force_close_order: an order without a
\* venue id queues nothing.
Cancel(o) ==
  /\ Live(o)
  /\ Emitted(o, Ended(o))
  /\ cancels' = QueueVenueCancel(row[o].bound)
  /\ UNCHANGED <<chases, loopVars, venueVars, counters, history>>

\* run_escalation_sweep: the resting maker o is cancelled and, in the same
\* pass, the order p that takes its place is registered.
Escalate(o, p) ==
  /\ Live(o) /\ row[o].armed
  /\ row[p].status = "New"
  /\ row' = [row EXCEPT ![o] = Ended(o), ![p].status = "Pending"]
  /\ disk' = [disk EXCEPT ![o] = Ended(o), ![p] = row'[p]]
  /\ cancels' = QueueVenueCancel(row[o].bound)
  /\ chases' = [chases EXCEPT ![p] = o]
  /\ UNCHANGED <<loopVars, venueVars, counters, history>>

-----------------------------------------------------------------------------
(* The venue *)

\* The user-WS may lose an event.
Published(e) ==
  {events} \cup (IF Cardinality(events) < MaxEvents THEN {events \cup {e}} ELSE {})

Accepted(o) == Append(book, [order |-> o, resting |-> TRUE, part |-> FALSE])

\* A POST that timed out reaches the venue after all.
LateAccept(o) ==
  /\ o \in travelling /\ Len(book) < MaxPosts
  /\ book' = Accepted(o)
  /\ travelling' = travelling \ {o}
  /\ events' \in Published(<<"live", Len(book) + 1>>)
  /\ UNCHANGED <<coreVars, loopVars, counters, history>>

\* A resting order executes in part, completes, or is cancelled by the venue.
Execute(v) ==
  /\ Resting(v)
  /\ \/ /\ ~book[v].part
        /\ book' = [book EXCEPT ![v].part = TRUE]
        /\ events' \in Published(<<"part", v>>)
     \/ /\ book' = [book EXCEPT ![v].resting = FALSE]
        /\ \E kind \in {"full", "cancelled"} : events' \in Published(<<kind, v>>)
  /\ UNCHANGED <<travelling, coreVars, loopVars, counters, history>>

\* DELETE /order: done, or refused while failures last.
DeleteSucceeds(v) ==
  /\ book' = [book EXCEPT ![v].resting = FALSE]
  /\ events' \in IF Resting(v) THEN Published(<<"cancelled", v>>) ELSE {events}
  /\ failed' = failed \ {v}
  /\ UNCHANGED <<travelling, failures>>

VenueCallFails ==
  /\ failures < MaxFailures
  /\ failures' = failures + 1
  /\ UNCHANGED venueVars

-----------------------------------------------------------------------------
(* The executor loop: between two of its steps the core and the venue move *)

\* take_pending_cancels: the queue is taken once, whole.
TakePendingCancels ==
  /\ phase = "tick"
  /\ phase' = "cancels"
  /\ work' = {cancels[i] : i \in 1..Len(cancels)}
  /\ cancels' = <<>>
  /\ UNCHANGED <<row, disk, chases, strike, post, since, snap,
                 venueVars, counters, history>>

ForwardCancel(v) ==
  /\ phase = "cancels" /\ v \in work
  /\ work' = work \ {v}
  /\ \/ DeleteSucceeds(v) /\ UNCHANGED strike
     \/ VenueCallFails /\ strike' = TRUE /\ failed' = failed \cup {v}
  /\ UNCHANGED <<coreVars, phase, post, since, snap, timeouts, restarts,
                 posted, timedOut>>

\* Mutant: the drain forgets that a POST timed out.
PendingUnboundAny == {o \in Orders : Live(o) /\ row[o].bound = Unbound}

\* pending_unbound: live orders without a venue id whose POST did not time out.
PendingUnbound == {o \in Orders : Live(o) /\ row[o].bound = Unbound /\ ~row[o].uncertain}

\* take_pending_orders, or the hold after a failed cancel.
TakePendingOrders ==
  /\ phase = "cancels" /\ work = {}
  /\ work' = IF strike THEN {} ELSE PendingUnbound
  /\ strike' = FALSE
  /\ phase' = "places"
  /\ UNCHANGED <<coreVars, post, since, snap, venueVars, counters,
                 history>>

\* The POST goes out for an order of the batch, whatever became of the order
\* since the batch was read.
SendPost(o) ==
  /\ phase = "places" /\ post = NoPost /\ o \in work
  /\ work' = work \ {o}
  /\ post' = [order |-> o, id |-> Unbound]
  /\ posted' = posted \cup {o}
  /\ UNCHANGED <<coreVars, phase, strike, since, snap, venueVars, counters,
                 timedOut, failed>>

Accept ==
  /\ post # NoPost /\ post.id = Unbound /\ Len(book) < MaxPosts
  /\ book' = Accepted(post.order)
  /\ post' = [post EXCEPT !.id = Len(book) + 1]
  /\ events' \in Published(<<"live", Len(book) + 1>>)
  /\ UNCHANGED <<travelling, coreVars, phase, work, strike, since, snap,
                 counters, history>>

\* on_order_accepted: bind_venue sets the id on any order, mark_live only
\* moves a Pending one.
OnOrderAccepted ==
  LET o == post.order
  IN /\ post # NoPost /\ post.id # Unbound
     /\ Emitted(o, [row[o] EXCEPT !.bound = post.id,
                       !.status = IF @ = "Pending" THEN "Live" ELSE @])
     /\ post' = NoPost
     /\ UNCHANGED <<cancels, chases, phase, work, strike, since, snap,
                    venueVars, counters, history>>

\* on_order_rejected
OnOrderRejected ==
  /\ post # NoPost /\ post.id = Unbound
  /\ Emitted(post.order, Ended(post.order))
  /\ post' = NoPost
  /\ UNCHANGED <<cancels, chases, phase, work, strike, since, snap,
                 venueVars, counters, history>>

\* on_place_timeout: note_place_timeout flags a live order in memory. The
\* venue may have accepted the POST, may still get it, or never will.
OnPlaceTimeout ==
  LET o == post.order
  IN /\ post # NoPost /\ timeouts < MaxTimeouts
     /\ timeouts' = timeouts + 1
     /\ row' = IF Live(o) THEN [row EXCEPT ![o].uncertain = TRUE] ELSE row
     /\ timedOut' = timedOut \cup {o}
     /\ travelling' \in IF post.id = Unbound THEN {travelling, travelling \cup {o}}
                        ELSE {travelling}
     /\ post' = NoPost
     /\ UNCHANGED <<disk, cancels, chases, phase, work, strike, since, snap,
                    book, events, failures, restarts, posted, failed>>

\* The orders a user-WS event can act on: the one bound to its id and, for a
\* fill of an unknown id, a live one on the same token and side.
Named(v) == {o \in Orders : row[o].bound = v}
Resolved(e) ==
  IF Named(e[2]) = {} /\ e[1] \in {"part", "full"}
  THEN {o \in Orders : Live(o)} ELSE Named(e[2])

\* on_order_live logs the row and then arms the escalation clock; on_fill and
\* on_order_cancelled log the row they leave.
AfterEvent(e, o) ==
  IF ~Live(o) THEN UNCHANGED <<row, disk, cancels>>
  ELSE \/ /\ e[1] = "live"
          /\ LET r == [row[o] EXCEPT !.status = IF @ = "Pending" THEN "Live" ELSE @]
             IN /\ disk' = [disk EXCEPT ![o] = r]
                /\ row' = [row EXCEPT ![o] = [r EXCEPT !.armed = TRUE]]
          /\ UNCHANGED cancels
       \/ /\ e[1] = "part"
          /\ Emitted(o, [row[o] EXCEPT !.status = "PartiallyFilled"])
          /\ UNCHANGED cancels
       \/ /\ e[1] = "full"
          /\ Emitted(o, Ended(o))
          /\ UNCHANGED cancels
       \/ /\ e[1] = "cancelled"
          /\ Emitted(o, Ended(o))
          /\ cancels' = QueueVenueCancel(row[o].bound)

\* The placements of this turn are done and the loop reads the event channel.
ReadingEvents == phase = "places" /\ work = {} /\ post = NoPost

DeliverEvent(e) ==
  /\ ReadingEvents /\ e \in events
  /\ events' = events \ {e}
  /\ \/ Resolved(e) = {} /\ UNCHANGED <<row, disk, cancels>>
     \/ \E o \in Resolved(e) : AfterEvent(e, o)
  /\ UNCHANGED <<chases, loopVars, book, travelling, counters, history>>

\* The channel is empty (events still on the wire are not in it yet); every
\* SweepEvery turns a sweep follows.
EventsDone ==
  /\ ReadingEvents
  /\ IF since + 1 >= SweepEvery THEN since' = 0 /\ phase' = "sweep"
     ELSE since' = since + 1 /\ phase' = "tick"
  /\ UNCHANGED <<coreVars, work, strike, post, snap, venueVars, counters,
                 history>>

\* Mutant: every open order is an orphan.
OrphansAll(open) == open

\* Mutant: orphans are looked for at startup only.
OrphansAtStartup(open) == IF phase = "startup" THEN open \ KnownVenueIds ELSE {}

\* The venue's open orders that the sweep takes for orphans. Only this loop
\* binds venue ids, so they are as unknown when they are cancelled.
Orphans(open) == open \ KnownVenueIds

\* The snapshot, at startup and in every sweep, and the list of orphans in it.
TakeSnapshot ==
  LET open == {v \in 1..Len(book) : book[v].resting}
  IN /\ phase \in {"startup", "sweep"}
     /\ snap' = IF phase = "sweep"
                THEN [open |-> open, part |-> {v \in open : book[v].part}]
                ELSE NoSnapshot
     /\ work' = Orphans(open)
     /\ phase' = IF phase = "sweep" THEN "orphans" ELSE "startup_orphans"
     /\ UNCHANGED <<coreVars, strike, post, since, venueVars, counters,
                    history>>

SnapshotFails ==
  /\ phase \in {"startup", "sweep"}
  /\ VenueCallFails
  /\ phase' = "tick"
  /\ UNCHANGED <<coreVars, work, strike, post, since, snap, timeouts,
                 restarts, history>>

CancelOrphan(v) ==
  /\ phase \in {"orphans", "startup_orphans"} /\ v \in work
  /\ work' = work \ {v}
  /\ \/ DeleteSucceeds(v)
     \/ VenueCallFails /\ UNCHANGED failed
  /\ UNCHANGED <<coreVars, phase, strike, post, since, snap, timeouts,
                 restarts, posted, timedOut>>

StartupDone ==
  /\ phase = "startup_orphans" /\ work = {}
  /\ phase' = "tick"
  /\ UNCHANGED <<coreVars, work, strike, post, since, snap, venueVars,
                 counters, history>>

\* Mutant: the open list is not consulted for a partially filled order.
GhostIfPartial(o) ==
  /\ Live(o) /\ row[o].bound # Unbound
  /\ row[o].bound \notin snap.open \/ row[o].status = "PartiallyFilled"

\* Mutant: a partially filled order is never taken for a ghost.
GhostIfUnfilled(o) ==
  row[o].status \in {"Pending", "Live"} /\ row[o].bound # Unbound
    /\ row[o].bound \notin snap.open

\* reconcile_scoped: a live order whose id left the venue's open list ends, a
\* missed partial fill is applied.
Ghost(o) == Live(o) /\ row[o].bound # Unbound /\ row[o].bound \notin snap.open

\* Mutant: the verdict pass reads the executor's drain, which skips flagged orders.
UnansweredDrained(o) ==
  row[o].status = "Pending" /\ row[o].bound = Unbound /\ ~row[o].uncertain

\* resolve_place_timeouts: the placements it may find past their budget.
Unanswered(o) == row[o].status = "Pending" /\ row[o].bound = Unbound

Reconciled(o, overdue) ==
  IF Ghost(o) \/ o \in overdue THEN Ended(o)
  ELSE IF Live(o) /\ row[o].bound \in snap.part
       THEN [row[o] EXCEPT !.status = "PartiallyFilled"]
       ELSE row[o]

\* on_reconcile, with the snapshot taken before the orphans were cancelled.
OnReconcile ==
  /\ phase = "orphans" /\ work = {}
  /\ \E overdue \in SUBSET {o \in Orders : Unanswered(o)} :
       row' = [o \in Orders |-> Reconciled(o, overdue)]
  /\ disk' = [o \in Orders |-> IF row'[o] = row[o] THEN disk[o] ELSE row'[o]]
  /\ snap' = NoSnapshot
  /\ phase' = "tick"
  /\ UNCHANGED <<cancels, chases, work, strike, post, since,
                 venueVars, counters, history>>

-----------------------------------------------------------------------------
(* A crash, and restore_orders at the next start: the live rows of the log
   come back, everything else in memory is gone. *)

Restart ==
  /\ restarts < MaxRestarts
  /\ restarts' = restarts + 1
  /\ row' = [o \in Orders |->
               IF disk[o].status \in LiveStatuses THEN disk[o]
               ELSE [NewRow EXCEPT !.status = disk[o].status]]
  /\ disk' = row'
  /\ cancels' = <<>>
  /\ phase' = "startup" /\ work' = {} /\ strike' = FALSE /\ post' = NoPost
  /\ since' = 0 /\ snap' = NoSnapshot
  /\ travelling' \in IF post # NoPost /\ post.id = Unbound
                     THEN {travelling, travelling \cup {post.order}}
                     ELSE {travelling}
  /\ events' = {}
  /\ posted' = {}
  /\ UNCHANGED <<chases, book, failures, timeouts, timedOut, failed>>

CoreStep ==
  \E o \in Orders : \/ Place(o)
                    \/ Cancel(o)
                    \/ \E p \in Orders : Escalate(o, p)

VenueStep ==
  \/ \E o \in Orders : LateAccept(o)
  \/ \E v \in VenueIds : Execute(v)
  \/ Accept

LoopStep ==
  \/ TakePendingCancels
  \/ \E v \in VenueIds : ForwardCancel(v)
  \/ TakePendingOrders
  \/ \E o \in Orders : SendPost(o)
  \/ OnOrderAccepted
  \/ OnOrderRejected
  \/ OnPlaceTimeout
  \/ \E e \in Events : DeliverEvent(e)
  \/ EventsDone
  \/ TakeSnapshot
  \/ SnapshotFails
  \/ \E v \in VenueIds : CancelOrphan(v)
  \/ StartupDone
  \/ OnReconcile

Next == CoreStep \/ VenueStep \/ LoopStep \/ Restart

\* A sweep that retires the unanswered placement o.
Retires(o) == OnReconcile /\ Unanswered(o) /\ row'[o].status = "Ended"

\* The loop is a task of its own that keeps being scheduled; a placement that
\* is swept again and again is past its 30 s budget sooner or later.
Spec ==
  /\ Init /\ [][Next]_vars
  /\ WF_vars(LoopStep)
  /\ \A o \in Orders : SF_vars(Retires(o))

-----------------------------------------------------------------------------
(* Properties *)

\* Every variable has its type; the cancel queue never outgrows its cap.
TypeOK ==
  /\ row \in [Orders -> Rows] /\ disk \in [Orders -> Rows]
  /\ travelling \subseteq Orders
  /\ chases \in [Orders -> Orders \cup {NoOrder}]
  /\ cancels \in Seq(VenueIds) /\ Len(cancels) <= CancelQueueCap
  /\ phase \in Phases
  /\ work \subseteq Orders \cup VenueIds
  /\ post \in [order : Orders \cup {NoOrder}, id : {Unbound} \cup VenueIds]
  /\ strike \in BOOLEAN /\ since \in 0..SweepEvery
  /\ snap \in [open : SUBSET VenueIds, part : SUBSET VenueIds]
  /\ snap.part \subseteq snap.open
  /\ failed \subseteq VenueIds
  /\ book \in Seq([order : Orders, resting : BOOLEAN, part : BOOLEAN])
  /\ Len(book) <= MaxPosts
  /\ events \subseteq Events
  /\ failures \in 0..MaxFailures /\ timeouts \in 0..MaxTimeouts
  /\ restarts \in 0..MaxRestarts
  /\ posted \subseteq Orders /\ timedOut \subseteq Orders

Sends(o) == post = NoPost /\ post'.order = o /\ o \in Orders

\* One process never sends the POST of an order twice, although the pending
\* drain is a view that shows an order again each turn until it is bound,
\* ended or flagged.
PostedOnce == [][\A o \in Orders : Sends(o) => o \notin posted]_vars

\* The ghost pass only ends orders that are off the venue's book, although the
\* snapshot it reads is older than the orphan cancels that precede it.
GhostsAreGone ==
  [][\A o \in Orders :
       phase = "orphans" /\ phase' = "tick" /\ row[o].bound # Unbound
         /\ Live(o) /\ row'[o].status = "Ended"
           => ~Resting(row[o].bound)]_vars

\* Neither the startup sweep nor the periodic one cancels a resting order that
\* the core still manages, however a crash or a cancel interleaves with it.
SweepSparesManaged ==
  [][\A o \in Orders :
       phase \in {"orphans", "startup_orphans"} /\ Live(o) /\ Resting(row[o].bound)
         /\ work' # work
           => Resting(row[o].bound)']_vars

\* An order the venue took without the core learning its id does not rest
\* there for ever: a sweep finds it and cancels it, whatever failed before.
OrphansLeaveTheBook ==
  \A v \in VenueIds : Resting(v) /\ v \notin KnownVenueIds
                        ~> ~Resting(v) \/ v \in KnownVenueIds

\* An order that left the venue's book ends in the core too, even when every
\* event about it was lost.
VanishedOrdersEnd ==
  \A o \in Orders :
    Live(o) /\ row[o].bound # Unbound /\ ~Resting(row[o].bound) ~> ~Live(o)

\* A placement whose answer never came does not stay pending for ever.
TimeoutsResolved ==
  \A o \in Orders : row[o].status = "Pending" /\ row[o].uncertain
                      ~> row[o].status # "Pending" \/ ~row[o].uncertain

-----------------------------------------------------------------------------
(* What the source says and the code does not keep; no run lists them *)

\* live.rs: cancelling first means that the old order is gone before the one
\* that replaces it is submitted.
OldGoneBeforeNew ==
  [][\A o \in Orders : Sends(o) /\ chases[o] # NoOrder
       => \A v \in 1..Len(book) : book[v].order = chases[o] => ~Resting(v)]_vars

\* live.rs: a resting order the core retired while the cancel failed gets
\* cancelled by a later sweep.
FailedCancelsSwept ==
  \A v \in VenueIds : v \in failed /\ Resting(v) ~> ~Resting(v)

\* model.rs: the verdict that a POST timed out is persisted, so a restart does
\* not submit the order again.
TimedOutNeverResent == [][\A o \in Orders : Sends(o) => o \notin timedOut]_vars

=============================================================================
