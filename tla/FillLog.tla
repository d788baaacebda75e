------------------------------- MODULE FillLog -------------------------------
(***************************************************************************)
(* The order management engine together with what the service keeps on     *)
(* disk for it (service.rs, settlement_orders/orders.rs, order_db.rs): the *)
(* order log, the position book and the applied-fill log, the order in      *)
(* which one fill reaches them, and the restart that rebuilds the engine    *)
(* from them. The process may stop between any two of these writes.         *)
(*                                                                          *)
(* LIVE mode: trading_reset is refused there, so ResetAccount is no step.   *)
(* Each file write is atomic (jsonl append, rewrite_atomic). An order        *)
(* operation and its emit_order are one step: a stop between them is a stop *)
(* before the operation. Order ids are not reused after a restart (the code *)
(* advances its counter past the live ids only).                            *)
(***************************************************************************)
EXTENDS Ome, Functions

CONSTANTS
  LogBound   \* bound on the applied-fill log between two restarts

ASSUME LogBoundAssumption == LogBound \in Nat

Effects ==
  [trade : Trades, order : OrderIds, delta : Int,
   step : {"positions", "row", "applied"}]

VARIABLES
  rows,       \* orders.jsonl, the latest row per order
  log,        \* the applied-fill log
  held,       \* net size per trade in the persisted position book
  effects,    \* deltas whose effects apply_delta_effects has still to run
  cut,        \* history: trades an order was too small to take in full
  torn        \* history: trades a stop caught between two of these writes

disk == <<rows, log, held>>
logVars == <<vars, disk, effects, cut, torn>>

Busy == draining # <<>> \/ effects # <<>>

LogInit ==
  /\ Init
  /\ rows = [o \in OrderIds |-> NotTracked]
  /\ log = <<>>
  /\ held = [t \in Trades |-> 0]
  /\ effects = <<>>
  /\ cut = {} /\ torn = {}

-----------------------------------------------------------------------------
(* Order operations: emit_order persists the row it changed *)

\* Mutant: a row is logged only while its order is live.
PersistOrderLive(o) ==
  rows' = IF orders'[o].status \in LiveStatuses THEN [rows EXCEPT ![o] = orders'[o]]
          ELSE rows

PersistOrder(o) == rows' = [rows EXCEPT ![o] = orders'[o]]

OrderOp(o) ==
  /\ ~Busy
  /\ \/ Submit(o)
     \/ ConfirmLive(o)
     \/ BindVenue(o)
     \/ Cancel(o)
     \/ Reject(o)
     \/ ForceClose(o)
     \/ RepairGhost(o)
  /\ PersistOrder(o)
  /\ UNCHANGED <<log, held, effects, cut, torn>>

-----------------------------------------------------------------------------
(* Fills: the engine first, then the effects of each delta it emitted *)

\* The delta a report emitted in this step, if it moved anything.
Emitted(t) ==
  IF booked'[t] = booked[t] THEN <<>>
  ELSE <<[trade |-> t, delta |-> booked'[t] - booked[t], step |-> "positions",
          order |-> CHOOSE o \in OrderIds : orders'[o] # orders[o]]>>

\* History: the entry took in more than the order could (record_delta's cap).
Cut(t) ==
  IF applied'[t].size - applied[t].size > booked'[t] - booked[t] THEN {t} ELSE {}

\* ingest_fill, up to the report of its outcome.
Ingest(f) ==
  /\ ~Busy
  /\ Len(log) < LogBound
  /\ IngestFill(f)
  /\ effects' = Emitted(f.trade)
  /\ cut' = cut \cup Cut(f.trade)
  /\ UNCHANGED <<disk, torn>>

\* drain_pending applies every buffered fill before any outcome is reported.
Drain ==
  /\ ~Busy
  /\ Len(log) < LogBound
  /\ DrainPending
  /\ UNCHANGED <<disk, effects, cut, torn>>

DrainNext ==
  /\ DrainOne
  /\ effects' = effects \o Emitted(Head(draining).fill.trade)
  /\ cut' = cut \cup Cut(Head(draining).fill.trade)
  /\ UNCHANGED <<disk, torn>>

\* apply_delta_effects on the first delta, one write at a time: the position
\* book, the order row, and last the journal of the applied-fill table.
EffectStep(step) ==
  /\ draining = <<>> /\ effects # <<>>
  /\ Head(effects).step = step

SavePositions ==
  /\ EffectStep("positions")
  /\ held' = [held EXCEPT ![Head(effects).trade] = @ + Head(effects).delta]
  /\ effects' = [effects EXCEPT ![1].step = "row"]
  /\ UNCHANGED <<vars, rows, log, cut, torn>>

SaveRow ==
  /\ EffectStep("row")
  /\ rows' = [rows EXCEPT ![Head(effects).order] = orders[Head(effects).order]]
  /\ effects' = [effects EXCEPT ![1].step = "applied"]
  /\ UNCHANGED <<vars, log, held, cut, torn>>

\* persist_applied_journal
SaveApplied ==
  /\ EffectStep("applied")
  /\ log' = log \o journal
  /\ journal' = <<>>
  /\ effects' = Tail(effects)
  /\ UNCHANGED <<core, applied, older, pending, draining, now, history,
                 rows, held, cut, torn>>

-----------------------------------------------------------------------------
(* Stop and restart *)

\* The fold of the applied-fill log: the last record that names a key decides.
Naming(t) == {i \in 1..Len(log) : log[i].trade = t \/ t \in log[i].evicted}

\* Mutant: the first record that names a key decides.
FirstNaming(t) == CHOOSE i \in Naming(t) : \A j \in Naming(t) : j >= i

LastNaming(t) == CHOOSE i \in Naming(t) : \A j \in Naming(t) : j <= i
Present(t) == Naming(t) # {} /\ t \notin log[LastNaming(t)].evicted
Folded(t) ==
  IF Present(t) THEN [known |-> TRUE, size |-> log[LastNaming(t)].size,
                      order |-> log[LastNaming(t)].order]
  ELSE NotApplied

\* The trades a stop now would leave half written: a delta whose position is
\* saved but whose table entry is not, or the other way round.
Unsaved ==
  {effects[i].trade : i \in {j \in DOMAIN effects : effects[j].step # "positions"}}
HalfWritten ==
  Unsaved \cup {t \in Trades : \E i \in DOMAIN effects :
                  /\ effects[i].trade = t /\ effects[i].step = "positions"
                  /\ Folded(t).size = applied[t].size}

\* Mutant: the restored orders do not guard their keys.
RestoredKeysEmpty(kept) == [k \in InternalKeys |-> NoOrder]

\* by_internal after `restore` registered the kept orders.
RestoredKeys(kept) ==
  [k \in InternalKeys |-> IF \E o \in kept : KeyOf[o] = k
                          THEN CHOOSE o \in kept : KeyOf[o] = k ELSE NoOrder]

\* The compacted log: one record per key of the fold, oldest first.
Compacted ==
  LET known == {t \in Trades : Present(t)}
      kept == {[trade |-> t, size |-> Folded(t).size, order |-> Folded(t).order,
                evicted |-> {}] : t \in known}
  IN {l \in [1..Cardinality(known) -> kept] :
        /\ Range(l) = kept
        /\ \A i, j \in DOMAIN l :
             i < j => LastNaming(l[i].trade) < LastNaming(l[j].trade)}

\* The process stops, and restore_orders rebuilds the engine: the table from
\* its log, the orders from the rows that are live; everything else is lost.
Restart ==
  LET kept == {o \in OrderIds : rows[o].status \in LiveStatuses}
      known == {t \in Trades : Present(t)}
  IN /\ orders' = [o \in OrderIds |-> IF o \in kept THEN rows[o] ELSE NotTracked]
     /\ byInternal' = RestoredKeys(kept)
     /\ liveIndex' = kept
     /\ sellTimes' = [k \in Tokens |-> {}]
     /\ applied' = [t \in Trades |-> Folded(t)]
     /\ older' = {p \in known \X known : LastNaming(p[1]) < LastNaming(p[2])}
     /\ rows' = orders'
     /\ log' \in Compacted
     /\ journal' = <<>> /\ pending' = <<>> /\ draining' = <<>> /\ effects' = <<>>
     /\ booked' = held
     /\ torn' = torn \cup HalfWritten
     /\ UNCHANGED <<issued, now, reported, disowned, held, cut>>

LogClockAdvances ==
  /\ ~Busy
  /\ ClockAdvances
  /\ UNCHANGED <<disk, effects, cut, torn>>

LogNext ==
  \/ \E o \in OrderIds : OrderOp(o)
  \/ \E f \in Fills : Ingest(f)
  \/ Drain
  \/ DrainNext
  \/ SavePositions
  \/ SaveRow
  \/ SaveApplied
  \/ Restart
  \/ LogClockAdvances

LogSpec == LogInit /\ [][LogNext]_logVars

-----------------------------------------------------------------------------
(* Properties *)

\* Every variable has its type, the rows on disk included.
LogTypeOK ==
  /\ TypeOK
  /\ rows \in [OrderIds -> Orders]
  /\ log \in Seq(AppliedFillRecords)
  /\ held \in [Trades -> Int]
  /\ effects \in Seq(Effects)
  /\ cut \subseteq Trades /\ torn \subseteq Trades

\* Between two handlers the order log holds exactly the engine's rows: a
\* restart loses no status change and no filled size.
RowsCurrent == ~Busy => rows = orders

\* Two orders under one key are never live together, restarts included: the
\* restored by_internal still guards every key with a live order.
OneLivePerKeyAcrossRestart == OneLivePerKey /\ LiveIndexExact

\* The table covers the book: after any number of restarts, re-deliveries and
\* rollbacks, what the position book holds under a trade is what the table
\* says was applied under it, whenever no handler is running. A trade the table
\* disowned, an order was too small for or a stop caught half-way is excepted.
TableMatchesBook ==
  ~Busy => \A t \in Trades \ (disowned \cup cut \cup torn) : held[t] = applied[t].size

-----------------------------------------------------------------------------
(* What the source says and the code does not keep; no run lists it *)

\* "The restored table evicts in exactly the order the original would have"
\* (restore_applied): once the journal is written, the log orders two entries as
\* the table does.
EvictionOrderInLog ==
  ~Busy /\ journal = <<>> =>
    \A t, u \in Known(applied) :
      <<t, u>> \in older <=> LastNaming(t) < LastNaming(u)

\* A re-delivered trade is never booked a second time by a restart: the size in
\* the position book stays within what the venue reported, unless the table
\* disowned the trade.
NoRebookAcrossRestart ==
  \A t \in Trades \ disowned : held[t] <= reported[t]

=============================================================================
