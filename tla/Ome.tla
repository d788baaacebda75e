--------------------------------- MODULE Ome ---------------------------------
(***************************************************************************)
(* The order management engine of the trading kernel                       *)
(* (core/blitzkrieg_core/src/ome.rs): the order state machine, its indexes, *)
(* the idempotent table of applied fills with its bounded eviction, and the *)
(* buffer of fills that arrive before their order can be resolved.          *)
(*                                                                          *)
(* Abstractions, all of data:                                               *)
(*  - an element of OrderIds is one order: its internal key, account, token, *)
(*    side and total size are constants; prices, roles and the escalation    *)
(*    clock are left out (a trade keeps one price, so the price comparison   *)
(*    in remember never decides anything);                                   *)
(*  - a venue assigns one id per order, so `venue_order_id` is the flag      *)
(*    `bound`;                                                               *)
(*  - every fill carries a trade id (fills without one get a synthetic key   *)
(*    in the code); the statuses Matched, Mined and Confirmed are handled    *)
(*    alike and are the one kind "Matched";                                  *)
(*  - the sequence number of a table entry is kept as the relation `older`   *)
(*    it induces;                                                            *)
(*  - the candidates of the token+side fallback that were submitted at the   *)
(*    same instant are chosen among freely (the code takes the smallest id). *)
(***************************************************************************)
EXTENDS Integers, Sequences, FiniteSets

CONSTANTS
  OrderIds, InternalKeys, Accounts, Tokens, Trades,
  KeyOf, AccountOf, TokenOf, SideOf, SizeOf,  \* attributes of an order
  TradeOrder,    \* the order a venue trade really executed
  Refs,          \* how a report names its order: "core", "venue" or "none"
  FillKinds,     \* subset of {"Matched", "Failed"}
  ReportSizes,   \* cumulative sizes a venue may report for one trade
  AppliedCap,    \* APPLIED_CAP
  PendingCap,    \* the 500 of the pending buffer
  PendingTtl,    \* pending_ttl_ms
  MaxTime,       \* bound on the clock
  JournalBound,  \* bound on records not yet taken by the caller
  BookedBound,   \* bound on the size booked under one trade
  NoOrder

Sides == {"Buy", "Sell"}
LiveStatuses == {"Pending", "Live", "PartiallyFilled"}
TerminalStatuses == {"Filled", "Cancelled", "Rejected", "Failed", "ForceClosed"}
Statuses == LiveStatuses \cup TerminalStatuses \cup {"Untracked"}

ASSUME OrderAttributes ==
  /\ KeyOf \in [OrderIds -> InternalKeys]
  /\ AccountOf \in [OrderIds -> Accounts]
  /\ TokenOf \in [OrderIds -> Tokens]
  /\ SideOf \in [OrderIds -> Sides]
  /\ SizeOf \in [OrderIds -> Nat \ {0}]
  /\ TradeOrder \in [Trades -> OrderIds]
  /\ NoOrder \notin OrderIds
ASSUME ReportAssumption ==
  /\ Refs \subseteq {"core", "venue", "none"}
  /\ FillKinds \subseteq {"Matched", "Failed"}
  /\ ReportSizes \subseteq Nat
ASSUME BoundAssumption ==
  /\ AppliedCap \in Nat /\ PendingCap \in Nat \ {0} /\ PendingTtl \in Nat
  /\ MaxTime \in Nat /\ JournalBound \in Nat /\ BookedBound \in Nat
ASSUME TradesFinite == IsFiniteSet(Trades)

Orders == [status : Statuses, filled : Nat, at : Nat, bound : BOOLEAN]
NotTracked == [status |-> "Untracked", filled |-> 0, at |-> 0, bound |-> FALSE]
Fills == [trade : Trades, ref : Refs, kind : FillKinds, size : ReportSizes]
PendingFills == [fill : Fills, at : Nat]
AppliedFills ==
  [known : BOOLEAN, size : Nat, order : OrderIds \cup {NoOrder}]
NotApplied == [known |-> FALSE, size |-> 0, order |-> NoOrder]
\* One call of `remember` journals the upsert of a key and then one tombstone
\* for every key it evicted.
AppliedFillRecords ==
  [trade : Trades, size : Nat, order : OrderIds \cup {NoOrder},
   evicted : SUBSET Trades]

VARIABLES
  orders,      \* the order table
  issued,      \* ids of the orders registered so far
  byInternal,  \* internal key -> id of the last order registered under it
  liveIndex,   \* live_by_submitted and live_by_token
  sellTimes,   \* filled_sell_times
  applied,     \* the applied-fill table
  older,       \* <<t, u>>: t's sequence number is below u's
  journal,     \* applied_journal
  pending,     \* pending_fills
  draining,    \* the fills a running drain_pending has not reached yet
  now,
  booked,      \* history: net size of the deltas emitted per trade
  reported,    \* history: largest cumulative size reported per trade
  disowned     \* history: trades whose entry no longer covers what was booked

core == <<orders, issued, byInternal, liveIndex, sellTimes>>
table == <<applied, older, journal>>
history == <<booked, reported, disowned>>
vars == <<core, table, pending, draining, now, history>>

Tracked(o) == orders[o].status # "Untracked"
Live(o) == orders[o].status \in LiveStatuses
Remaining(o) == SizeOf[o] - orders[o].filled

Init ==
  /\ orders = [o \in OrderIds |-> NotTracked]
  /\ issued = {}
  /\ byInternal = [k \in InternalKeys |-> NoOrder]
  /\ liveIndex = {}
  /\ sellTimes = [k \in Tokens |-> {}]
  /\ applied = [t \in Trades |-> NotApplied]
  /\ older = {}
  /\ journal = <<>>
  /\ pending = <<>>
  /\ draining = <<>>
  /\ now = 0
  /\ booked = [t \in Trades |-> 0]
  /\ reported = [t \in Trades |-> 0]
  /\ disowned = {}

-----------------------------------------------------------------------------
(* Orders *)

\* Mutant: only an order not yet acknowledged holds its key.
HasPendingUnacked(k) ==
  byInternal[k] # NoOrder /\ orders[byInternal[k]].status = "Pending"

\* The dedup guard: the order last registered under the key is still live.
HasPending(k) == byInternal[k] # NoOrder /\ Live(byInternal[k])

\* An id is fresh, so the check that it is not registered yet always passes;
\* a refused submission leaves nothing behind.
Submit(o) ==
  /\ o \notin issued
  /\ ~HasPending(KeyOf[o])
  /\ issued' = issued \cup {o}
  /\ orders' = [orders EXCEPT ![o] =
        [status |-> "Pending", filled |-> 0, at |-> now, bound |-> FALSE]]
  /\ byInternal' = [byInternal EXCEPT ![KeyOf[o]] = o]
  /\ liveIndex' = liveIndex \cup {o}
  /\ UNCHANGED <<sellTimes, table, pending, draining, now, history>>

\* Mutant: an order that ends keeps its index entry.
SyncLiveIndexKeeps(o, r) ==
  /\ liveIndex' = IF r.status \in LiveStatuses THEN liveIndex \cup {o} ELSE liveIndex
  /\ sellTimes' = IF Live(o) /\ SideOf[o] = "Sell" /\ r.status = "Filled"
                  THEN [sellTimes EXCEPT ![TokenOf[o]] = @ \cup {now}] ELSE sellTimes

\* Mutant: the completion stamp is taken only from a partially filled order.
SyncLiveIndexStampsPartials(o, r) ==
  /\ liveIndex' = IF r.status \in LiveStatuses THEN liveIndex \cup {o}
                  ELSE liveIndex \ {o}
  /\ sellTimes' = IF orders[o].status = "PartiallyFilled" /\ SideOf[o] = "Sell"
                     /\ r.status = "Filled"
                  THEN [sellTimes EXCEPT ![TokenOf[o]] = @ \cup {now}] ELSE sellTimes

\* sync_live_index after the order's row became r.
SyncLiveIndex(o, r) ==
  LET wasLive == Live(o)
      isLive == r.status \in LiveStatuses
      completed == wasLive /\ SideOf[o] = "Sell" /\ r.status = "Filled"
  IN /\ liveIndex' = IF wasLive = isLive THEN liveIndex
                     ELSE IF isLive THEN liveIndex \cup {o} ELSE liveIndex \ {o}
     /\ sellTimes' = IF completed
                     THEN [sellTimes EXCEPT ![TokenOf[o]] = @ \cup {now}]
                     ELSE sellTimes

\* mutate: an unknown order is an error, a known one becomes r.
Mutate(o, r) ==
  /\ Tracked(o)
  /\ orders' = [orders EXCEPT ![o] = r]
  /\ SyncLiveIndex(o, r)
  /\ UNCHANGED <<issued, byInternal, table, pending, draining, now, history>>

MarkedLive(r) ==
  IF r.status = "Pending" THEN [r EXCEPT !.status = "Live"] ELSE r

\* confirm_live: the venue reports the order resting.
ConfirmLive(o) == Mutate(o, MarkedLive(orders[o]))

\* Core::bind_venue: the POST was acknowledged with a venue id.
BindVenue(o) == Mutate(o, MarkedLive([orders[o] EXCEPT !.bound = TRUE]))

MarkTerminal(o, s) == Mutate(o, [orders[o] EXCEPT !.status = s])

\* Core::cancel and reject_live_result look at the order, not at its status.
Cancel(o) == MarkTerminal(o, "Cancelled")
Reject(o) == MarkTerminal(o, "Rejected")

\* force_close_order refuses an order that is already terminal.
ForceClose(o) == Live(o) /\ MarkTerminal(o, "ForceClosed")

\* The ghost pass of reconcile_scoped: a live, bound order the venue no
\* longer holds open.
RepairGhost(o) ==
  /\ Live(o) /\ orders[o].bound
  /\ MarkTerminal(o, IF Remaining(o) <= 0 THEN "Filled"
                     ELSE IF orders[o].filled > 0 THEN "Cancelled" ELSE "ForceClosed")

\* trading_reset: every live order of the account is cancelled, then all of
\* its rows leave the table and the indexes; by_internal and the applied
\* table keep what they hold.
ResetAccount(a) ==
  LET mine == {o \in OrderIds : Tracked(o) /\ AccountOf[o] = a}
  IN /\ mine # {}
     /\ orders' = [o \in OrderIds |-> IF o \in mine THEN NotTracked ELSE orders[o]]
     /\ liveIndex' = liveIndex \ mine
     /\ UNCHANGED <<issued, byInternal, sellTimes, table, pending, draining, now,
                    history>>

-----------------------------------------------------------------------------
(* The applied-fill table *)

Known(tbl) == {t \in Trades : tbl[t].known}

\* Mutant: the oldest keys go, whatever their orders are.
EvictableAny(tbl, rows) == Known(tbl)

\* Keys evict_applied may drop: those whose order is not live in rows.
Evictable(tbl, rows) ==
  {t \in Known(tbl) : rows[tbl[t].order].status \notin LiveStatuses}

\* The entries evict_applied removes from tbl, oldest first, until the table
\* is within its cap or only entries of live orders are left.
Victims(tbl, seq, rows) ==
  {t \in Evictable(tbl, rows) :
     Cardinality({u \in Evictable(tbl, rows) : <<u, t>> \in seq})
        < Cardinality(Known(tbl)) - AppliedCap}

Upsert(t, o, s) ==
  [applied EXCEPT ![t] = [known |-> TRUE, size |-> s,
                          order |-> IF applied[t].known THEN applied[t].order ELSE o]]

\* A key keeps the sequence number of its first application.
Sequenced(t) ==
  IF applied[t].known THEN older ELSE older \cup (Known(applied) \X {t})

\* remember: no change when the entry already says so; otherwise the entry is
\* written, journalled, and the table is brought back under its cap.
Remember(t, o, s) ==
  IF applied[t].known /\ applied[t].size = s
  THEN UNCHANGED table
  ELSE LET tbl == Upsert(t, o, s)
           gone == Victims(tbl, Sequenced(t), orders')
       IN /\ applied' = [u \in Trades |-> IF u \in gone THEN NotApplied ELSE tbl[u]]
          /\ older' = {p \in Sequenced(t) : p[1] \notin gone /\ p[2] \notin gone}
          /\ journal' = Append(journal, [trade |-> t, size |-> s,
                                         order |-> tbl[t].order, evicted |-> gone])

-----------------------------------------------------------------------------
(* Fills *)

\* Mutant: a rollback is not floored at zero.
CappedUnfloored(o, d) ==
  IF orders[o].filled + d > SizeOf[o] THEN SizeOf[o] ELSE orders[o].filled + d

\* record_delta: the cumulative size after a signed delta, floored at zero and
\* capped at the order's size, and the row it leaves.
Capped(o, d) ==
  LET requested == IF orders[o].filled + d < 0 THEN 0 ELSE orders[o].filled + d
  IN IF requested > SizeOf[o] THEN SizeOf[o] ELSE requested

Effective(o, d) == Capped(o, d) - orders[o].filled

\* Mutant: the status follows the size alone.
StatusAfterSize(o, c) ==
  IF c = 0 THEN orders[o].status
  ELSE IF c >= SizeOf[o] THEN "Filled" ELSE "PartiallyFilled"

\* A terminal status absorbs the fill; a rollback to zero keeps the status.
StatusAfter(o, c) ==
  IF orders[o].status \in TerminalStatuses \/ c = 0 THEN orders[o].status
  ELSE IF c >= SizeOf[o] THEN "Filled" ELSE "PartiallyFilled"

AfterDelta(o, d) ==
  IF Effective(o, d) = 0 THEN orders[o]
  ELSE [status |-> StatusAfter(o, Capped(o, d)), filled |-> Capped(o, d),
        at |-> orders[o].at, bound |-> orders[o].bound]

\* The order a report names by its core id or by a venue id the core bound.
Exact(f) ==
  LET o == TradeOrder[f.trade]
  IN \/ f.ref = "core" /\ Tracked(o)
     \/ f.ref = "venue" /\ Tracked(o) /\ orders[o].bound

\* live_for: the indexed live orders on the fill's token and side.
LiveFor(f) ==
  {o \in liveIndex : /\ Live(o)
                     /\ TokenOf[o] = TokenOf[TradeOrder[f.trade]]
                     /\ SideOf[o] = SideOf[TradeOrder[f.trade]]}

\* The orders `resolve` can return: the named one, else the newest candidate.
ResolvedTo(f) ==
  IF Exact(f) THEN {TradeOrder[f.trade]}
  ELSE {o \in LiveFor(f) : \A p \in LiveFor(f) : orders[p].at <= orders[o].at}

\* A trade already applied for an order the table no longer tracks.
ForgottenDuplicate(f) ==
  /\ f.kind # "Failed"
  /\ applied[f.trade].known /\ applied[f.trade].size > 0
  /\ ~Tracked(applied[f.trade].order)

\* Mutant: a cumulative size is taken for the size of one more execution.
ReportDeltaWhole(f) == IF f.kind = "Failed" THEN -applied[f.trade].size ELSE f.size

\* The signed size a report asks record_delta to move.
ReportDelta(f) ==
  IF f.kind = "Failed" THEN -applied[f.trade].size
  ELSE f.size - applied[f.trade].size

Larger(x, y) == IF x > y THEN x ELSE y

\* A FAILED report for a trade with nothing applied, or a size that is not new.
NothingToMove(f) ==
  IF f.kind = "Failed" THEN applied[f.trade].size = 0 ELSE ReportDelta(f) <= 0

\* History: a rollback that the order could not absorb in full leaves size
\* booked that the entry no longer shows, and so does an evicted entry.
Disowns(f, o) ==
  /\ f.kind = "Failed" /\ applied[f.trade].size > 0
  /\ Effective(o, ReportDelta(f)) > ReportDelta(f)

Evicted == IF journal' = journal THEN {} ELSE journal'[Len(journal')].evicted

\* apply_fill_report once the report is resolved to o.
ApplyTo(f, o) ==
  /\ IF NothingToMove(f)
     THEN /\ UNCHANGED <<orders, liveIndex, sellTimes, booked>>
          /\ IF f.kind = "Failed" THEN UNCHANGED table
             ELSE Remember(f.trade, o, Larger(f.size, applied[f.trade].size))
     ELSE LET r == AfterDelta(o, ReportDelta(f))
          IN /\ orders' = [orders EXCEPT ![o] = r]
             /\ SyncLiveIndex(o, r)
             /\ booked' = [booked EXCEPT ![f.trade] = @ + Effective(o, ReportDelta(f))]
             /\ Remember(f.trade, o, IF f.kind = "Failed" THEN 0 ELSE f.size)
  /\ disowned' = disowned \cup Evicted
                         \cup (IF Disowns(f, o) THEN {f.trade} ELSE {})

Report(f) ==
  reported' = IF f.kind = "Failed" THEN reported
              ELSE [reported EXCEPT ![f.trade] = Larger(@, f.size)]

\* An unresolved report waits in the buffer; a full buffer loses its oldest.
Buffered(f) ==
  LET q == Append(pending, [fill |-> f, at |-> now])
  IN IF Len(q) > PendingCap THEN Tail(q) ELSE q

\* Core::ingest_fill. A venue can only have traded an order that was placed,
\* and an order is registered before it is placed.
IngestFill(f) ==
  /\ TradeOrder[f.trade] \in issued
  /\ Len(journal) < JournalBound
  /\ booked[f.trade] \in -BookedBound..BookedBound
  /\ Report(f)
  /\ \/ /\ ForgottenDuplicate(f)
        /\ UNCHANGED <<core, table, pending, booked, disowned>>
     \/ /\ ~ForgottenDuplicate(f)
        /\ \E o \in ResolvedTo(f) : ApplyTo(f, o)
        /\ UNCHANGED <<issued, byInternal, pending>>
     \/ /\ ~ForgottenDuplicate(f)
        /\ ResolvedTo(f) = {}
        /\ pending' = Buffered(f)
        /\ UNCHANGED <<core, table, booked, disowned>>
  /\ UNCHANGED <<draining, now>>

\* drain_pending takes the whole buffer and then looks at each fill in turn,
\* all under the core lock.
DrainPending ==
  /\ pending # <<>>
  /\ draining' = pending
  /\ pending' = <<>>
  /\ UNCHANGED <<core, table, now, history>>

DrainOne ==
  LET pf == Head(draining)
  IN /\ draining # <<>>
     /\ Len(journal) < JournalBound
     /\ draining' = Tail(draining)
     /\ \/ /\ now - pf.at > PendingTtl
           /\ UNCHANGED <<core, table, pending, booked, disowned>>
        \/ /\ now - pf.at <= PendingTtl
           /\ ResolvedTo(pf.fill) = {}
           /\ pending' = Append(pending, pf)
           /\ UNCHANGED <<core, table, booked, disowned>>
        \/ /\ now - pf.at <= PendingTtl
           /\ ResolvedTo(pf.fill) # {}
           /\ ForgottenDuplicate(pf.fill)
           /\ UNCHANGED <<core, table, pending, booked, disowned>>
        \/ /\ now - pf.at <= PendingTtl
           /\ ~ForgottenDuplicate(pf.fill)
           /\ \E o \in ResolvedTo(pf.fill) : ApplyTo(pf.fill, o)
           /\ UNCHANGED <<issued, byInternal, pending>>
     /\ UNCHANGED <<now, reported>>

-----------------------------------------------------------------------------
(* The caller *)

\* take_applied_journal
TakeAppliedJournal ==
  /\ journal # <<>>
  /\ journal' = <<>>
  /\ UNCHANGED <<core, applied, older, pending, draining, now, history>>

ClockAdvances ==
  /\ now < MaxTime
  /\ now' = now + 1
  /\ UNCHANGED <<core, table, pending, draining, history>>

\* An order operation; each runs under the core lock, never inside a drain.
OrderStep ==
  \/ \E o \in OrderIds : \/ Submit(o)
                         \/ ConfirmLive(o)
                         \/ BindVenue(o)
                         \/ Cancel(o)
                         \/ Reject(o)
                         \/ ForceClose(o)
                         \/ RepairGhost(o)
  \/ \E a \in Accounts : ResetAccount(a)

Next ==
  \/ draining = <<>> /\ \/ OrderStep
                        \/ \E f \in Fills : IngestFill(f)
                        \/ DrainPending
                        \/ ClockAdvances
  \/ DrainOne
  \/ TakeAppliedJournal

Spec == Init /\ [][Next]_vars

-----------------------------------------------------------------------------
(* Properties *)

CoreTypeOK ==
  /\ orders \in [OrderIds -> Orders]
  /\ \A o \in OrderIds : orders[o].filled <= SizeOf[o]
  /\ issued \subseteq OrderIds
  /\ byInternal \in [InternalKeys -> OrderIds \cup {NoOrder}]
  /\ liveIndex \subseteq OrderIds
  /\ sellTimes \in [Tokens -> SUBSET Nat]
  /\ now \in Nat

TableTypeOK ==
  /\ applied \in [Trades -> AppliedFills]
  /\ \A t \in Trades : applied[t].known => applied[t].order \in OrderIds
  /\ older \subseteq Trades \X Trades
  /\ journal \in Seq(AppliedFillRecords)
  /\ booked \in [Trades -> Int]
  /\ reported \in [Trades -> Nat]
  /\ disowned \subseteq Trades

BufferTypeOK ==
  /\ pending \in Seq(PendingFills)
  /\ draining \in Seq(PendingFills)

\* Every variable has its type, and an order never holds more than its size:
\* record_delta floors and caps every delta, rollbacks included.
TypeOK == CoreTypeOK /\ TableTypeOK /\ BufferTypeOK

\* The live indexes hold exactly the live orders. They are maintained by hand
\* at every status transition (submit, mutate, record_delta, reset), and every
\* live view, the exit checks and the fallback resolution read them.
LiveIndexExact == liveIndex = {o \in OrderIds : Live(o)}

\* The dedup guard's purpose: never two live orders under one internal key,
\* although by_internal remembers only the last order registered under it and
\* survives a reset of that order's row.
OneLivePerKey ==
  \A o, p \in OrderIds : Live(o) /\ Live(p) /\ KeyOf[o] = KeyOf[p] => o = p

\* A trade is booked once: however often, in whatever order and through
\* whatever resolution its reports arrive (directly, from the buffer, by the
\* token fallback), the net size booked under it never exceeds the largest
\* size the venue reported for it, unless its table entry was evicted or a
\* rollback hit an order that could not give the size back.
BookedOnce ==
  \A t \in Trades \ disowned : booked[t] <= reported[t]

\* Every SELL that completed left a stamp the residual backstop finds: a
\* completion at or after the order's submission, on its token.
CompletedSellsStamped ==
  \A o \in OrderIds :
    orders[o].status = "Filled" /\ SideOf[o] = "Sell"
      => \E at \in sellTimes[TokenOf[o]] : at >= orders[o].at

\* Terminal orders stay terminal: no report, acknowledgement or drain brings
\* one back to life.
NeverResurrected ==
  [][\A o \in OrderIds :
       orders[o].status \in TerminalStatuses => orders'[o].status \notin LiveStatuses]_vars

\* While the order a trade executed is live, the cap on the table never lets
\* the trade be booked again: reports that name their order keep its entry
\* attached to a live order, which eviction spares.
LiveTradeBookedOnce ==
  \A t \in Trades : Live(TradeOrder[t]) => booked[t] <= reported[t]

=============================================================================
