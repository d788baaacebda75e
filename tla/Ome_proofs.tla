----------------------------- MODULE Ome_proofs -----------------------------
(***************************************************************************)
(* Proofs about Ome: the type invariant, the exact live index, the dedup    *)
(* guard, terminal absorption and the idempotency of the applied-fill       *)
(* table, for every set of orders, trades and bounds.                       *)
(*                                                                          *)
(* The inductive invariant has three parts, one per group of variables: the *)
(* order table and its indexes (CoreInv), the applied-fill table with the   *)
(* history that judges it (TableInv) and the buffered reports (BufferInv).  *)
(***************************************************************************)
EXTENDS Ome, TLAPS

\* by_internal points at the live order of a key, if the key has one.
KeyGuard == \A o \in OrderIds : Live(o) => byInternal[KeyOf[o]] = o

\* Rows exist only for issued ids, and no order was submitted in the future.
RowsIssued ==
  \A o \in OrderIds : /\ Tracked(o) => o \in issued
                      /\ orders[o].at <= now

CoreInv ==
  CoreTypeOK /\ LiveIndexExact /\ KeyGuard /\ RowsIssued /\ CompletedSellsStamped

\* The table covers what was booked and never more than was reported.
TableCovers ==
  /\ \A t \in Trades : applied[t].size <= reported[t]
  /\ \A t \in Trades : t \notin disowned => booked[t] <= applied[t].size

TableInv == TableTypeOK /\ TableCovers

\* No buffered report exceeds what the venue has reported for its trade.
BufferReported(q) ==
  \A i \in 1..Len(q) :
    q[i].fill.kind # "Failed" => q[i].fill.size <= reported[q[i].fill.trade]

BufferInv == BufferTypeOK /\ BufferReported(pending) /\ BufferReported(draining)

IInv == CoreInv /\ TableInv /\ BufferInv

-----------------------------------------------------------------------------
(* The arithmetic of record_delta *)

\* Capped keeps the cumulative size within the order, and a delta never moves
\* an order up by more than was asked.
LEMMA CappedRange ==
  ASSUME CoreTypeOK, NEW o \in OrderIds, NEW d \in Int
  PROVE  /\ Capped(o, d) \in Nat
         /\ Capped(o, d) <= SizeOf[o]
         /\ Effective(o, d) \in Int
         /\ d >= 0 => Effective(o, d) <= d
<1>1. orders[o].filled \in Nat /\ SizeOf[o] \in Nat
  BY OrderAttributes DEF CoreTypeOK, Orders
<1>2. orders[o].filled <= SizeOf[o]
  BY DEF CoreTypeOK
<1> QED
  BY <1>1, <1>2 DEF Capped, Effective

\* The row record_delta leaves: a proper row of the same submission, which is
\* live or newly Filled only if the order was live.
LEMMA AfterDeltaRow ==
  ASSUME CoreTypeOK, NEW o \in OrderIds, NEW d \in Int, Tracked(o)
  PROVE  /\ AfterDelta(o, d) \in Orders
         /\ AfterDelta(o, d).filled <= SizeOf[o]
         /\ AfterDelta(o, d).at = orders[o].at
         /\ AfterDelta(o, d).status # "Untracked"
         /\ AfterDelta(o, d).status \in LiveStatuses => Live(o)
         /\ AfterDelta(o, d).status = "Filled" => Live(o) \/ orders[o].status = "Filled"
<1>1. orders[o] \in Orders /\ orders[o].filled <= SizeOf[o]
  BY DEF CoreTypeOK
<1>2. Capped(o, d) \in Nat /\ Capped(o, d) <= SizeOf[o]
  BY CappedRange
<1>3. CASE Effective(o, d) = 0
  BY <1>1, <1>3 DEF AfterDelta, Live, Tracked
<1>4. CASE Effective(o, d) # 0
  <2> DEFINE st == StatusAfter(o, Capped(o, d))
  <2>1. AfterDelta(o, d) = [status |-> st, filled |-> Capped(o, d),
                            at |-> orders[o].at, bound |-> orders[o].bound]
    BY <1>4 DEF AfterDelta
  <2>2. /\ st \in Statuses /\ st # "Untracked"
        /\ st \in LiveStatuses => Live(o)
        /\ st = "Filled" => Live(o) \/ orders[o].status = "Filled"
    BY <1>1 DEF StatusAfter, Orders, Live, Tracked, Statuses, LiveStatuses,
                TerminalStatuses
  <2> HIDE DEF st
  <2> QED
    BY <1>1, <1>2, <2>1, <2>2 DEF Orders
<1> QED
  BY <1>3, <1>4

-----------------------------------------------------------------------------
(* Frames: what a step that leaves a group of variables alone preserves *)

\* The clock alone cannot break what is said of the order table.
LEMMA CoreFrame ==
  CoreInv /\ UNCHANGED core /\ now' \in Nat /\ now' >= now => CoreInv'
<1> SUFFICES ASSUME CoreInv, UNCHANGED core, now' \in Nat, now' >= now
             PROVE  CoreInv'
  OBVIOUS
<1> USE DEF CoreInv, core
<1>1. CoreTypeOK' /\ LiveIndexExact' /\ KeyGuard' /\ CompletedSellsStamped'
  BY DEF CoreTypeOK, LiveIndexExact, KeyGuard, CompletedSellsStamped, Live
<1>2. RowsIssued'
  <2> SUFFICES ASSUME NEW o \in OrderIds
               PROVE  /\ Tracked(o) => o \in issued
                      /\ orders[o].at <= now'
    BY DEF RowsIssued, Tracked
  <2>1. orders[o].at \in Nat /\ now \in Nat
    BY DEF CoreTypeOK, Orders
  <2> QED BY <2>1 DEF RowsIssued
<1> QED BY <1>1, <1>2

\* The applied-fill table's part depends on the table and the history alone.
LEMMA TableFrame ==
  TableInv /\ UNCHANGED <<table, history>> => TableInv'
BY DEF TableInv, TableTypeOK, TableCovers, table, history

\* The buffer's part depends on the buffer and the venue's reports alone.
LEMMA BufferFrame ==
  BufferInv /\ UNCHANGED <<pending, draining, reported>> => BufferInv'
BY DEF BufferInv, BufferTypeOK, BufferReported

-----------------------------------------------------------------------------
(* One row changes *)

\* A tracked order takes a new row and the live index is synchronised: the
\* core part of the invariant survives if the row is live, or newly Filled,
\* only when the old one was live.
LEMMA RowChange ==
  ASSUME CoreInv, NEW o \in OrderIds, NEW r \in Orders,
         Tracked(o), r.status # "Untracked",
         r.filled <= SizeOf[o], r.at = orders[o].at,
         r.status \in LiveStatuses => Live(o),
         r.status = "Filled" => Live(o) \/ orders[o].status = "Filled",
         orders' = [orders EXCEPT ![o] = r], SyncLiveIndex(o, r),
         UNCHANGED <<issued, byInternal, now>>
  PROVE  CoreInv'
<1> USE DEF CoreInv
<1>1. /\ orders' \in [OrderIds -> Orders]
      /\ orders'[o] = r
      /\ \A p \in OrderIds : p # o => orders'[p] = orders[p]
  BY DEF CoreTypeOK
<1>2. CoreTypeOK'
  <2>1. \A p \in OrderIds : orders'[p].filled <= SizeOf[p]
    BY <1>1 DEF CoreTypeOK
  <2>2. liveIndex' \subseteq OrderIds
    BY DEF CoreTypeOK, SyncLiveIndex
  <2>3. sellTimes' \in [Tokens -> SUBSET Nat]
    BY OrderAttributes DEF CoreTypeOK, SyncLiveIndex
  <2> QED BY <1>1, <2>1, <2>2, <2>3 DEF CoreTypeOK
<1>3. LiveIndexExact'
  BY <1>1 DEF LiveIndexExact, Live, SyncLiveIndex
<1>4. KeyGuard'
  BY <1>1 DEF KeyGuard, Live
<1>5. RowsIssued'
  BY <1>1 DEF RowsIssued, Tracked
<1>6. CompletedSellsStamped'
  <2> SUFFICES ASSUME NEW p \in OrderIds,
                      orders'[p].status = "Filled", SideOf[p] = "Sell"
               PROVE  \E at \in sellTimes'[TokenOf[p]] : at >= orders'[p].at
    BY DEF CompletedSellsStamped
  <2>1. \A k \in Tokens : sellTimes[k] \subseteq sellTimes'[k]
    BY OrderAttributes DEF CoreTypeOK, SyncLiveIndex
  <2>2. TokenOf[p] \in Tokens
    BY OrderAttributes
  <2>3. CASE p # o \/ ~Live(o)
    <3>1. orders[p].status = "Filled" /\ orders'[p].at = orders[p].at
      BY <1>1, <2>3
    <3>2. \E at \in sellTimes[TokenOf[p]] : at >= orders[p].at
      BY <3>1 DEF CompletedSellsStamped
    <3> QED BY <2>1, <2>2, <3>1, <3>2
  <2>4. CASE p = o /\ Live(o)
    <3>1. now \in sellTimes'[TokenOf[o]]
      BY <1>1, <2>2, <2>4 DEF SyncLiveIndex, CoreTypeOK
    <3>2. now >= orders'[o].at
      BY <1>1 DEF RowsIssued, CoreTypeOK, Orders
    <3> QED BY <2>4, <3>1, <3>2
  <2> QED BY <2>3, <2>4
<1> QED BY <1>2, <1>3, <1>4, <1>5, <1>6

-----------------------------------------------------------------------------
(* The applied-fill table *)

\* What one call of `remember` does: every entry but t's stays or is evicted,
\* and t's entry, unless evicted, records the size s.
LEMMA RememberEffect ==
  ASSUME TableTypeOK, NEW t \in Trades, NEW o \in OrderIds, NEW s \in Nat,
         Remember(t, o, s)
  PROVE  /\ applied' \in [Trades -> AppliedFills]
         /\ \A u \in Trades : applied'[u].known => applied'[u].order \in OrderIds
         /\ older' \subseteq Trades \X Trades
         /\ journal' \in Seq(AppliedFillRecords)
         /\ Evicted \subseteq Trades
         /\ \A u \in Evicted : applied'[u].size = 0
         /\ \A u \in Trades : u \notin Evicted /\ u # t => applied'[u] = applied[u]
         /\ t \notin Evicted => applied'[t].size = s
<1>1. CASE applied[t].known /\ applied[t].size = s
  <2>1. applied' = applied /\ older' = older /\ journal' = journal
    BY <1>1 DEF Remember, table
  <2> QED BY <1>1, <2>1 DEF TableTypeOK, Evicted
<1>2. CASE ~(applied[t].known /\ applied[t].size = s)
  <2> DEFINE tbl == Upsert(t, o, s)
             gone == Victims(tbl, Sequenced(t), orders')
             rec == [trade |-> t, size |-> s, order |-> tbl[t].order, evicted |-> gone]
  <2>1. /\ applied' = [u \in Trades |-> IF u \in gone THEN NotApplied ELSE tbl[u]]
        /\ older' = {p \in Sequenced(t) : p[1] \notin gone /\ p[2] \notin gone}
        /\ journal' = Append(journal, rec)
    BY <1>2 DEF Remember
  <2>2. /\ tbl \in [Trades -> AppliedFills]
        /\ \A u \in Trades : tbl[u].known => tbl[u].order \in OrderIds
        /\ tbl[t].size = s
        /\ tbl[t].order \in OrderIds \cup {NoOrder}
        /\ \A u \in Trades : u # t => tbl[u] = applied[u]
    BY DEF Upsert, TableTypeOK, AppliedFills
  <2>3. gone \subseteq Trades
    BY DEF Victims, Evictable, Known
  <2>4. Sequenced(t) \subseteq Trades \X Trades
    BY DEF Sequenced, Known, TableTypeOK
  <2> HIDE DEF tbl, gone
  <2>5. rec \in AppliedFillRecords
    BY <2>2, <2>3 DEF AppliedFillRecords
  <2>6. /\ journal' \in Seq(AppliedFillRecords)
        /\ journal' # journal
        /\ journal'[Len(journal')] = rec
    <3> HIDE DEF rec
    <3>1. journal \in Seq(AppliedFillRecords)
      BY DEF TableTypeOK
    <3>2. /\ Append(journal, rec) \in Seq(AppliedFillRecords)
          /\ Len(Append(journal, rec)) = Len(journal) + 1
          /\ Append(journal, rec)[Len(journal) + 1] = rec
      BY <2>5, <3>1
    <3>3. Len(journal) \in Nat
      BY <3>1
    <3> QED BY <2>1, <3>2, <3>3
  <2>7. Evicted = gone
    BY <2>6 DEF Evicted
  <2>8. NotApplied \in AppliedFills
    BY DEF NotApplied, AppliedFills
  <2>9. /\ applied' \in [Trades -> AppliedFills]
        /\ \A u \in Trades : applied'[u].known => applied'[u].order \in OrderIds
    BY <2>1, <2>2, <2>8 DEF NotApplied
  <2>10. older' \subseteq Trades \X Trades
    BY <2>1, <2>4
  <2>11. /\ \A u \in gone : applied'[u].size = 0
         /\ \A u \in Trades : u \notin gone /\ u # t => applied'[u] = applied[u]
         /\ t \notin gone => applied'[t].size = s
    BY <2>1, <2>2, <2>3 DEF NotApplied
  <2> QED BY <2>3, <2>6, <2>7, <2>9, <2>10, <2>11
<1> QED BY <1>1, <1>2

-----------------------------------------------------------------------------
(* Applying a report *)

\* `resolve` only ever returns a tracked order.
LEMMA ResolvedTracked ==
  ASSUME NEW f \in Fills, NEW o \in ResolvedTo(f), liveIndex \subseteq OrderIds
  PROVE  o \in OrderIds /\ Tracked(o)
<1>1. TradeOrder[f.trade] \in OrderIds
  BY OrderAttributes DEF Fills
<1>2. CASE Exact(f)
  BY <1>1, <1>2 DEF ResolvedTo, Exact
<1>3. CASE ~Exact(f)
  BY <1>3 DEF ResolvedTo, LiveFor, Live, Tracked, LiveStatuses
<1> QED BY <1>2, <1>3

\* The size a report asks for is an integer, and so are the sizes it reads.
LEMMA ReportTypes ==
  ASSUME TableTypeOK, NEW f \in Fills
  PROVE  /\ f.trade \in Trades /\ f.size \in Nat
         /\ applied[f.trade].size \in Nat
         /\ ReportDelta(f) \in Int
<1>1. f.trade \in Trades /\ f.size \in ReportSizes
  BY DEF Fills
<1>2. applied[f.trade].size \in Nat
  BY <1>1 DEF TableTypeOK, AppliedFills
<1>3. f.size \in Nat
  BY <1>1, ReportAssumption
<1> QED
  BY <1>1, <1>2, <1>3 DEF ReportDelta

\* apply_fill_report on a resolved report: the order table keeps its part of
\* the invariant and the applied-fill table its types, whichever order it
\* resolved to, and only entries of evicted keys and of the trade itself change.
LEMMA ApplyToTyped ==
  ASSUME CoreInv, TableTypeOK, NEW f \in Fills, NEW o \in OrderIds, Tracked(o),
         ApplyTo(f, o), UNCHANGED <<issued, byInternal, now>>,
         reported' \in [Trades -> Nat]
  PROVE  /\ CoreInv' /\ TableTypeOK'
         /\ Evicted \subseteq Trades
         /\ disowned \cup Evicted \subseteq disowned'
         /\ \A u \in Evicted : applied'[u].size = 0
         /\ \A u \in Trades :
              u # f.trade => /\ booked'[u] = booked[u]
                             /\ u \notin Evicted => applied'[u] = applied[u]
         /\ NothingToMove(f) =>
              /\ orders' = orders /\ booked' = booked
              /\ f.trade \notin Evicted => applied'[f.trade].size = applied[f.trade].size
         /\ ~NothingToMove(f) =>
              /\ orders' = [orders EXCEPT ![o] = AfterDelta(o, ReportDelta(f))]
              /\ booked'[f.trade] = booked[f.trade] + Effective(o, ReportDelta(f))
              /\ f.trade \notin Evicted
                   => applied'[f.trade].size = IF f.kind = "Failed" THEN 0 ELSE f.size
<1> DEFINE t == f.trade
           d == ReportDelta(f)
           a == applied[f.trade].size
<1>1. CoreTypeOK
  BY DEF CoreInv
<1>2. t \in Trades /\ f.size \in Nat /\ a \in Nat /\ d \in Int
  BY ReportTypes
<1>3. disowned' = disowned \cup Evicted \cup (IF Disowns(f, o) THEN {t} ELSE {})
  BY DEF ApplyTo
<1>4. CASE NothingToMove(f)
  <2>1. UNCHANGED <<orders, liveIndex, sellTimes, booked>>
    BY <1>4 DEF ApplyTo
  <2>2. CoreInv'
    BY <1>1, <2>1, CoreFrame DEF core, CoreTypeOK
  <2>3. CASE f.kind = "Failed"
    <3>1. UNCHANGED table
      BY <1>4, <2>3 DEF ApplyTo
    <3>2. Evicted = {} /\ disowned' \subseteq Trades /\ disowned \subseteq disowned'
      BY <1>2, <1>3, <3>1 DEF Evicted, table, TableTypeOK
    <3>3. TableTypeOK'
      BY <2>1, <3>1, <3>2 DEF TableTypeOK, table
    <3> QED BY <1>4, <2>1, <2>2, <3>1, <3>2, <3>3 DEF table
  <2>4. CASE f.kind # "Failed"
    <3>1. f.size <= a
      BY <1>2, <1>4, <2>4 DEF NothingToMove, ReportDelta
    <3>2. Remember(t, o, a)
      BY <1>2, <1>4, <2>4, <3>1 DEF ApplyTo, Larger
    <3>3. /\ applied' \in [Trades -> AppliedFills]
          /\ \A u \in Trades : applied'[u].known => applied'[u].order \in OrderIds
          /\ older' \subseteq Trades \X Trades
          /\ journal' \in Seq(AppliedFillRecords)
          /\ Evicted \subseteq Trades
          /\ \A u \in Evicted : applied'[u].size = 0
          /\ \A u \in Trades : u \notin Evicted /\ u # t => applied'[u] = applied[u]
          /\ t \notin Evicted => applied'[t].size = a
      BY <1>2, <3>2, RememberEffect
    <3>4. disowned' \subseteq Trades /\ disowned \cup Evicted \subseteq disowned'
      BY <1>2, <1>3, <3>3 DEF TableTypeOK
    <3>5. TableTypeOK'
      BY <2>1, <3>3, <3>4 DEF TableTypeOK
    <3> QED BY <1>4, <2>1, <2>2, <3>3, <3>4, <3>5
  <2> QED BY <2>3, <2>4
<1>5. CASE ~NothingToMove(f)
  <2> DEFINE r == AfterDelta(o, d)
             s == IF f.kind = "Failed" THEN 0 ELSE f.size
             e == Effective(o, d)
  <2>1. /\ orders' = [orders EXCEPT ![o] = r]
        /\ SyncLiveIndex(o, r)
        /\ booked' = [booked EXCEPT ![t] = @ + e]
        /\ Remember(t, o, s)
    BY <1>5 DEF ApplyTo
  <2>2. CoreInv'
    <3>1. /\ r \in Orders /\ r.filled <= SizeOf[o] /\ r.at = orders[o].at
          /\ r.status # "Untracked"
          /\ r.status \in LiveStatuses => Live(o)
          /\ r.status = "Filled" => Live(o) \/ orders[o].status = "Filled"
      BY <1>1, <1>2, AfterDeltaRow
    <3> HIDE DEF r
    <3> QED BY <2>1, <3>1, RowChange
  <2>3. e \in Int /\ s \in Nat
    BY <1>1, <1>2, CappedRange
  <2> HIDE DEF e, s
  <2>4. /\ applied' \in [Trades -> AppliedFills]
        /\ \A u \in Trades : applied'[u].known => applied'[u].order \in OrderIds
        /\ older' \subseteq Trades \X Trades
        /\ journal' \in Seq(AppliedFillRecords)
        /\ Evicted \subseteq Trades
        /\ \A u \in Evicted : applied'[u].size = 0
        /\ \A u \in Trades : u \notin Evicted /\ u # t => applied'[u] = applied[u]
        /\ t \notin Evicted => applied'[t].size = s
    BY <1>2, <2>1, <2>3, RememberEffect
  <2>5. /\ disowned' \subseteq Trades
        /\ disowned \cup Evicted \subseteq disowned'
    BY <1>2, <1>3, <2>4 DEF TableTypeOK
  <2>6. booked' \in [Trades -> Int] /\ booked'[t] = booked[t] + e
        /\ \A u \in Trades : u # t => booked'[u] = booked[u]
    BY <1>2, <2>1, <2>3 DEF TableTypeOK
  <2>7. TableTypeOK'
    BY <2>4, <2>5, <2>6 DEF TableTypeOK
  <2> QED BY <1>5, <2>1, <2>2, <2>4, <2>5, <2>6, <2>7 DEF e, s
<1> QED BY <1>4, <1>5

\* The table still covers what was booked, and never more than was reported.
LEMMA ApplyToKeeps ==
  ASSUME CoreInv, TableInv, NEW f \in Fills, NEW o \in OrderIds, Tracked(o),
         ApplyTo(f, o), UNCHANGED <<issued, byInternal, now>>,
         reported' \in [Trades -> Nat],
         \A u \in Trades : reported[u] <= reported'[u],
         f.kind # "Failed" => f.size <= reported'[f.trade]
  PROVE  CoreInv' /\ TableInv'
<1> DEFINE t == f.trade
           d == ReportDelta(f)
           a == applied[f.trade].size
           e == Effective(o, d)
<1>1. TableTypeOK /\ CoreTypeOK
  BY DEF TableInv, CoreInv
<1>2. t \in Trades /\ f.size \in Nat /\ a \in Nat /\ d \in Int
  BY <1>1, ReportTypes
<1>3. /\ CoreInv' /\ TableTypeOK'
      /\ disowned \cup Evicted \subseteq disowned'
      /\ \A u \in Evicted : applied'[u].size = 0
      /\ \A u \in Trades :
           u # t => /\ booked'[u] = booked[u]
                    /\ u \notin Evicted => applied'[u] = applied[u]
      /\ NothingToMove(f) =>
           /\ booked' = booked
           /\ t \notin Evicted => applied'[t].size = a
      /\ ~NothingToMove(f) =>
           /\ booked'[t] = booked[t] + e
           /\ t \notin Evicted
                => applied'[t].size = IF f.kind = "Failed" THEN 0 ELSE f.size
  BY <1>1, ApplyToTyped
<1>4. Disowns(f, o) => t \in disowned'
  BY DEF ApplyTo
<1>5. e \in Int /\ (d >= 0 => e <= d)
  BY <1>1, <1>2, CappedRange
<1> HIDE DEF e
<1>6. /\ \A u \in Trades : applied[u].size <= reported[u]
      /\ \A u \in Trades : u \notin disowned => booked[u] <= applied[u].size
      /\ \A u \in Trades : applied[u].size \in Nat
      /\ reported \in [Trades -> Nat] /\ booked \in [Trades -> Int]
  BY <1>1 DEF TableInv, TableCovers, TableTypeOK, AppliedFills
<1>7. ASSUME NEW u \in Trades PROVE applied'[u].size <= reported'[u]
  <2>1. reported[u] <= reported'[u] /\ reported[u] \in Nat /\ reported'[u] \in Nat
        /\ applied[u].size <= reported[u] /\ applied[u].size \in Nat
    BY <1>6
  <2>2. \/ applied'[u].size = 0
        \/ applied'[u].size = applied[u].size
        \/ u = t /\ f.kind # "Failed" /\ applied'[u].size = f.size
    BY <1>3
  <2> QED BY <2>1, <2>2
<1>8. ASSUME NEW u \in Trades, u \notin disowned'
      PROVE  booked'[u] <= applied'[u].size
  <2>1. u \notin Evicted /\ u \notin disowned
    BY <1>3, <1>8
  <2>2. CASE u # t \/ NothingToMove(f)
    BY <1>3, <1>6, <2>1, <2>2
  <2>3. CASE u = t /\ ~NothingToMove(f) /\ f.kind = "Failed"
    <3>1. d = -a /\ a # 0
      BY <2>3 DEF ReportDelta, NothingToMove
    <3>2. e <= d
      BY <1>2, <1>4, <1>5, <1>8, <2>3, <3>1 DEF Disowns, e
    <3> QED BY <1>2, <1>3, <1>5, <1>6, <2>1, <2>3, <3>1, <3>2
  <2>4. CASE u = t /\ ~NothingToMove(f) /\ f.kind # "Failed"
    <3>1. d = f.size - a /\ d > 0
      BY <1>2, <2>4 DEF ReportDelta, NothingToMove
    <3> QED BY <1>2, <1>3, <1>5, <1>6, <2>1, <2>4, <3>1
  <2> QED BY <2>2, <2>3, <2>4
<1> QED BY <1>3, <1>7, <1>8 DEF TableInv, TableCovers

-----------------------------------------------------------------------------
(* The inductive step *)

\* The order operations that change one row.
LEMMA MutateCore ==
  ASSUME CoreInv, NEW o \in OrderIds, NEW r \in Orders, Mutate(o, r),
         r.status # "Untracked",
         r.filled = orders[o].filled, r.at = orders[o].at,
         r.status \in LiveStatuses => Live(o),
         r.status = "Filled" => Live(o) \/ orders[o].status = "Filled"
  PROVE  CoreInv'
<1>1. r.filled <= SizeOf[o]
  BY DEF CoreInv, CoreTypeOK
<1> QED BY <1>1, RowChange DEF Mutate

\* A status change to a terminal status other than Filled, or to Filled from
\* a live status.
LEMMA MarkTerminalCore ==
  ASSUME CoreInv, NEW o \in OrderIds, NEW s \in TerminalStatuses, MarkTerminal(o, s),
         s = "Filled" => Live(o)
  PROVE  CoreInv'
<1> DEFINE r == [orders[o] EXCEPT !.status = s]
<1>1. orders[o] \in Orders
  BY DEF CoreInv, CoreTypeOK
<1>2. r \in Orders /\ r.status = s /\ r.filled = orders[o].filled /\ r.at = orders[o].at
  BY <1>1 DEF Orders, Statuses
<1>3. s # "Untracked" /\ s \notin LiveStatuses
  BY DEF TerminalStatuses, LiveStatuses
<1>4. Mutate(o, r)
  BY DEF MarkTerminal
<1> HIDE DEF r
<1> QED BY <1>2, <1>3, <1>4, MutateCore

\* confirm_live and bind_venue keep the order table's part.
LEMMA ConfirmCore ==
  ASSUME CoreInv, NEW o \in OrderIds, ConfirmLive(o) \/ BindVenue(o)
  PROVE  CoreInv'
<1>1. PICK b \in BOOLEAN :
        /\ Mutate(o, MarkedLive([orders[o] EXCEPT !.bound = b]))
        /\ Tracked(o)
  <2>1. orders[o] \in Orders
    BY DEF CoreInv, CoreTypeOK
  <2>2. CASE ConfirmLive(o)
    <3>1. orders[o] = [orders[o] EXCEPT !.bound = orders[o].bound] /\ orders[o].bound \in BOOLEAN
      BY <2>1 DEF Orders
    <3>2. Mutate(o, MarkedLive([orders[o] EXCEPT !.bound = orders[o].bound]))
      BY <2>2, <3>1 DEF ConfirmLive
    <3> QED BY <3>1, <3>2, <2>2 DEF ConfirmLive, Mutate
  <2>3. CASE BindVenue(o)
    BY <2>3 DEF BindVenue, Mutate
  <2> QED BY <2>2, <2>3
<1> DEFINE r == MarkedLive([orders[o] EXCEPT !.bound = b])
<1>2. orders[o] \in Orders
  BY DEF CoreInv, CoreTypeOK
<1>3. /\ r \in Orders /\ r.filled = orders[o].filled /\ r.at = orders[o].at
      /\ r.status = IF orders[o].status = "Pending" THEN "Live" ELSE orders[o].status
  BY <1>2 DEF MarkedLive, Orders, Statuses, LiveStatuses
<1>4. /\ r.status # "Untracked"
      /\ r.status \in LiveStatuses => Live(o)
      /\ r.status = "Filled" => orders[o].status = "Filled"
  BY <1>1, <1>3 DEF Tracked, Live, LiveStatuses
<1> HIDE DEF r
<1> QED BY <1>1, <1>3, <1>4, MutateCore DEF r

\* submit keeps the order table's part: a key is handed over only from a dead order.
LEMMA SubmitCore ==
  ASSUME CoreInv, NEW o \in OrderIds, Submit(o)
  PROVE  CoreInv'
<1> DEFINE r == [status |-> "Pending", filled |-> 0, at |-> now, bound |-> FALSE]
<1>2. /\ o \notin issued /\ ~Tracked(o) /\ ~Live(o)
      /\ issued' = issued \cup {o} /\ liveIndex' = liveIndex \cup {o}
      /\ byInternal' = [byInternal EXCEPT ![KeyOf[o]] = o]
      /\ sellTimes' = sellTimes /\ now' = now
  BY DEF Submit, CoreInv, RowsIssued, Tracked, Live, LiveStatuses
<1>3. r \in Orders /\ r.filled <= SizeOf[o]
  BY OrderAttributes DEF CoreInv, CoreTypeOK, Orders, Statuses, LiveStatuses
<1>4. /\ orders' \in [OrderIds -> Orders] /\ orders'[o] = r
      /\ \A p \in OrderIds : p # o => orders'[p] = orders[p]
  BY <1>3 DEF Submit, CoreInv, CoreTypeOK
<1>5. KeyOf[o] \in InternalKeys
  BY OrderAttributes
<1>6. CoreTypeOK'
  BY <1>2, <1>3, <1>4, <1>5 DEF CoreInv, CoreTypeOK
<1>7. LiveIndexExact'
  BY <1>2, <1>4 DEF CoreInv, LiveIndexExact, Live, LiveStatuses
<1>8. KeyGuard'
  <2> SUFFICES ASSUME NEW p \in OrderIds, Live(p)' PROVE byInternal'[KeyOf[p]] = p
    BY DEF KeyGuard
  <2>1. CASE p = o
    BY <1>2, <1>5, <2>1 DEF CoreInv, CoreTypeOK
  <2>2. CASE p # o
    <3>1. Live(p) /\ byInternal[KeyOf[p]] = p
      BY <1>4, <2>2 DEF CoreInv, KeyGuard, Live
    <3>2. p # NoOrder
      BY OrderAttributes
    <3>3. KeyOf[p] # KeyOf[o]
      BY <3>1, <3>2 DEF Submit, HasPending
    <3> QED BY <1>2, <3>1, <3>3, OrderAttributes DEF CoreInv, CoreTypeOK
  <2> QED BY <2>1, <2>2
<1>9. RowsIssued'
  BY <1>2, <1>4 DEF CoreInv, RowsIssued, Tracked, CoreTypeOK
<1>10. CompletedSellsStamped'
  BY <1>2, <1>4 DEF CoreInv, CompletedSellsStamped
<1> QED BY <1>6, <1>7, <1>8, <1>9, <1>10 DEF CoreInv

\* An operation on one order, as the caller invokes it under the core lock.
OrderOps(o) ==
  \/ Submit(o)
  \/ ConfirmLive(o)
  \/ BindVenue(o)
  \/ Cancel(o)
  \/ Reject(o)
  \/ ForceClose(o)
  \/ RepairGhost(o)

\* It changes the order table alone, and keeps that part of the invariant.
LEMMA OrderOpCore ==
  ASSUME CoreInv, NEW o \in OrderIds, OrderOps(o)
  PROVE  CoreInv' /\ UNCHANGED <<table, pending, draining, now, history>>
<1>1. CASE Submit(o)
  BY <1>1, SubmitCore DEF Submit
<1>2. CASE ConfirmLive(o) \/ BindVenue(o)
  BY <1>2, ConfirmCore DEF ConfirmLive, BindVenue, Mutate
<1>3. CASE Cancel(o) \/ Reject(o) \/ ForceClose(o)
  <2>1. PICK s \in TerminalStatuses \ {"Filled"} : MarkTerminal(o, s)
    BY <1>3 DEF Cancel, Reject, ForceClose, TerminalStatuses
  <2> QED BY <2>1, MarkTerminalCore DEF MarkTerminal, Mutate
<1>4. CASE RepairGhost(o)
  <2>1. PICK s \in TerminalStatuses : MarkTerminal(o, s)
    BY <1>4 DEF RepairGhost, TerminalStatuses
  <2> QED BY <1>4, <2>1, MarkTerminalCore DEF RepairGhost, MarkTerminal, Mutate
<1> QED BY <1>1, <1>2, <1>3, <1>4 DEF OrderOps

\* reset_account keeps the invariant.
LEMMA ResetAccountKeeps ==
  ASSUME IInv, NEW a \in Accounts, ResetAccount(a)
  PROVE  IInv'
<1> DEFINE mine == {o \in OrderIds : Tracked(o) /\ AccountOf[o] = a}
<1>1. CoreInv
  BY DEF IInv
<1>2. /\ orders' = [o \in OrderIds |-> IF o \in mine THEN NotTracked ELSE orders[o]]
      /\ liveIndex' = liveIndex \ mine
      /\ UNCHANGED <<issued, byInternal, sellTimes, now>>
  BY DEF ResetAccount
<1>3. NotTracked \in Orders
  BY DEF NotTracked, Orders, Statuses
<1>4. \A o \in OrderIds : orders'[o] = orders[o] \/ orders'[o] = NotTracked
  BY <1>2
<1>5. CoreTypeOK'
  BY <1>1, <1>2, <1>3, OrderAttributes DEF CoreInv, CoreTypeOK, NotTracked
<1>6. LiveIndexExact'
  BY <1>1, <1>2 DEF CoreInv, LiveIndexExact, Live, LiveStatuses, NotTracked
<1>7. KeyGuard' /\ CompletedSellsStamped'
  BY <1>1, <1>2, <1>4 DEF CoreInv, KeyGuard, CompletedSellsStamped, Live,
                          LiveStatuses, NotTracked
<1>8. RowsIssued'
  BY <1>1, <1>2, <1>4 DEF CoreInv, CoreTypeOK, RowsIssued, Tracked, NotTracked
<1>9. TableInv' /\ BufferInv'
  BY TableFrame, BufferFrame DEF IInv, ResetAccount, history
<1> QED BY <1>5, <1>6, <1>7, <1>8, <1>9 DEF IInv, CoreInv

\* What a report adds to the history of reported sizes.
LEMMA ReportMonotone ==
  ASSUME TableTypeOK, NEW f \in Fills, Report(f)
  PROVE  /\ reported' \in [Trades -> Nat]
         /\ \A u \in Trades : reported[u] <= reported'[u]
         /\ f.kind # "Failed" => f.size <= reported'[f.trade]
<1>1. f.trade \in Trades /\ f.size \in Nat
  BY ReportTypes
<1>2. reported \in [Trades -> Nat]
  BY DEF TableTypeOK
<1>3. CASE f.kind = "Failed"
  BY <1>2, <1>3 DEF Report
<1>4. CASE f.kind # "Failed"
  <2>1. reported' = [reported EXCEPT ![f.trade] = Larger(reported[f.trade], f.size)]
    BY <1>4 DEF Report
  <2>2. /\ Larger(reported[f.trade], f.size) \in Nat
        /\ Larger(reported[f.trade], f.size) >= reported[f.trade]
        /\ Larger(reported[f.trade], f.size) >= f.size
    BY <1>1, <1>2 DEF Larger
  <2> QED BY <1>1, <1>2, <2>1, <2>2
<1> QED BY <1>3, <1>4

\* Reported sizes only grow, so a buffer whose reports were covered stays so.
LEMMA BufferMonotone ==
  ASSUME NEW q \in Seq(PendingFills), BufferReported(q),
         reported \in [Trades -> Nat], reported' \in [Trades -> Nat],
         \A u \in Trades : reported[u] <= reported'[u]
  PROVE  \A i \in 1..Len(q) :
           q[i].fill.kind # "Failed" => q[i].fill.size <= reported'[q[i].fill.trade]
<1> SUFFICES ASSUME NEW i \in 1..Len(q), q[i].fill.kind # "Failed"
             PROVE  q[i].fill.size <= reported'[q[i].fill.trade]
  OBVIOUS
<1>1. q[i] \in PendingFills
  OBVIOUS
<1>2. q[i].fill.trade \in Trades /\ q[i].fill.size \in ReportSizes
  BY <1>1 DEF PendingFills, Fills
<1>3. q[i].fill.size <= reported[q[i].fill.trade]
  BY DEF BufferReported
<1>4. q[i].fill.size \in Nat
  BY <1>2, ReportAssumption
<1>5. reported[q[i].fill.trade] <= reported'[q[i].fill.trade]
  BY <1>2
<1>6. reported[q[i].fill.trade] \in Nat /\ reported'[q[i].fill.trade] \in Nat
  BY <1>2
<1> QED BY <1>3, <1>4, <1>5, <1>6

\* ingest_fill keeps the invariant on each of its paths.
LEMMA IngestFillKeeps ==
  ASSUME IInv, NEW f \in Fills, IngestFill(f)
  PROVE  IInv'
<1>1. CoreInv /\ TableInv /\ BufferInv /\ TableTypeOK /\ now' = now /\ now \in Nat
  BY DEF IInv, TableInv, IngestFill, CoreInv, CoreTypeOK
<1>2. /\ reported' \in [Trades -> Nat]
      /\ \A u \in Trades : reported[u] <= reported'[u]
      /\ f.kind # "Failed" => f.size <= reported'[f.trade]
  BY <1>1, ReportMonotone DEF IngestFill
<1>3. /\ pending \in Seq(PendingFills) /\ draining \in Seq(PendingFills)
      /\ draining' = draining
      /\ reported \in [Trades -> Nat]
  BY <1>1 DEF BufferInv, BufferTypeOK, IngestFill, TableTypeOK
<1>4. BufferReported(draining)'
  BY <1>1, <1>2, <1>3, BufferMonotone DEF BufferInv, BufferReported
<1>5. \A i \in 1..Len(pending) :
        pending[i].fill.kind # "Failed"
          => pending[i].fill.size <= reported'[pending[i].fill.trade]
  BY <1>1, <1>2, <1>3, BufferMonotone DEF BufferInv
<1>6. ASSUME UNCHANGED <<core, table, booked, disowned>>
      PROVE  CoreInv' /\ TableInv'
  <2>1. CoreInv'
    BY <1>1, <1>6, CoreFrame
  <2>2. TableTypeOK'
    BY <1>1, <1>2, <1>6 DEF TableTypeOK, table
  <2>3. TableCovers'
    <3>1. \A t \in Trades : applied[t].size \in Nat
      BY <1>1 DEF TableTypeOK, AppliedFills
    <3> QED BY <1>1, <1>2, <1>3, <1>6, <3>1 DEF TableInv, TableCovers, table
  <2> QED BY <2>1, <2>2, <2>3 DEF TableInv
<1>7. ASSUME pending' = pending PROVE BufferInv'
  BY <1>3, <1>4, <1>5, <1>7 DEF BufferInv, BufferTypeOK, BufferReported
<1>8. CASE ForgottenDuplicate(f)
  BY <1>6, <1>7, <1>8 DEF IngestFill, IInv
<1>9. CASE ~ForgottenDuplicate(f) /\ ResolvedTo(f) # {}
  <2>1. PICK o \in ResolvedTo(f) : ApplyTo(f, o)
    BY <1>9 DEF IngestFill
  <2>2. UNCHANGED <<issued, byInternal, pending>>
    BY <1>9 DEF IngestFill
  <2>3. o \in OrderIds /\ Tracked(o)
    BY <1>1, ResolvedTracked DEF CoreInv, CoreTypeOK
  <2>4. CoreInv' /\ TableInv'
    BY <1>1, <1>2, <2>1, <2>2, <2>3, ApplyToKeeps
  <2> QED BY <1>7, <2>2, <2>4 DEF IInv
<1>10. CASE ~ForgottenDuplicate(f) /\ ResolvedTo(f) = {}
  <2>1. pending' = Buffered(f) /\ UNCHANGED <<core, table, booked, disowned>>
    BY <1>10 DEF IngestFill
  <2> DEFINE pf == [fill |-> f, at |-> now]
             q == Append(pending, pf)
  <2>2. pf \in PendingFills
    BY <1>1 DEF PendingFills
  <2>3. /\ q \in Seq(PendingFills) /\ Len(q) = Len(pending) + 1
        /\ q[Len(pending) + 1] = pf
        /\ \A i \in 1..Len(pending) : q[i] = pending[i]
    <3> HIDE DEF pf
    <3> QED BY <1>3, <2>2
  <2>4. \A i \in 1..Len(q) : q[i].fill.kind # "Failed"
                              => q[i].fill.size <= reported'[q[i].fill.trade]
    <3> SUFFICES ASSUME NEW i \in 1..Len(q), q[i].fill.kind # "Failed"
                 PROVE  q[i].fill.size <= reported'[q[i].fill.trade]
      OBVIOUS
    <3>1. CASE i = Len(pending) + 1
      BY <1>2, <2>3, <3>1
    <3>2. CASE i # Len(pending) + 1
      <4>1. i \in 1..Len(pending)
        BY <1>3, <2>3, <3>2
      <4> QED BY <1>5, <2>3, <4>1
    <3> QED BY <3>1, <3>2
  <2> HIDE DEF q
  <2>5. pending' = q \/ pending' = Tail(q)
    BY <2>1 DEF Buffered, q
  <2>6. Tail(q) \in Seq(PendingFills) /\ Len(Tail(q)) = Len(q) - 1
        /\ \A i \in 1..Len(Tail(q)) : Tail(q)[i] = q[i + 1] /\ i + 1 \in 1..Len(q)
    BY <1>3, <2>3
  <2>7. pending' \in Seq(PendingFills) /\ BufferReported(pending)'
    <3>1. CASE pending' = q
      BY <2>3, <2>4, <3>1 DEF BufferReported
    <3>2. CASE pending' = Tail(q)
      <4>1. \A i \in 1..Len(Tail(q)) :
              Tail(q)[i].fill.kind # "Failed"
                => Tail(q)[i].fill.size <= reported'[Tail(q)[i].fill.trade]
        BY <2>4, <2>6
      <4> QED BY <2>6, <3>2, <4>1 DEF BufferReported
    <3> QED BY <2>5, <3>1, <3>2
  <2>8. BufferInv'
    BY <1>3, <1>4, <2>7 DEF BufferInv, BufferTypeOK
  <2> QED BY <1>6, <2>1, <2>8 DEF IInv
<1> QED BY <1>8, <1>9, <1>10

\* A drain takes the whole buffer.
LEMMA DrainPendingKeeps ==
  ASSUME IInv, DrainPending
  PROVE  IInv'
<1>1. UNCHANGED <<core, table, now, history>> /\ draining' = pending /\ pending' = <<>>
  BY DEF DrainPending
<1>2. CoreInv' /\ TableInv'
  BY <1>1, CoreFrame, TableFrame DEF IInv, CoreInv, CoreTypeOK
<1>3. reported' = reported
  BY <1>1 DEF history
<1>4. BufferTypeOK'
  BY <1>1 DEF IInv, BufferInv, BufferTypeOK
<1>5. BufferReported(pending)' /\ BufferReported(draining)'
  BY <1>1, <1>3 DEF IInv, BufferInv, BufferReported
<1> QED BY <1>2, <1>4, <1>5 DEF IInv, BufferInv

\* One buffered fill of drain_pending keeps the invariant.
LEMMA DrainOneKeeps ==
  ASSUME IInv, DrainOne
  PROVE  IInv'
<1> DEFINE pf == Head(draining)
           f == Head(draining).fill
<1>1. /\ CoreInv /\ TableInv /\ BufferInv
      /\ CoreTypeOK /\ TableTypeOK /\ BufferTypeOK
      /\ draining # <<>> /\ draining' = Tail(draining)
      /\ now' = now /\ reported' = reported /\ now \in Nat
      /\ reported \in [Trades -> Nat]
  BY DEF IInv, CoreInv, CoreTypeOK, TableInv, TableTypeOK, BufferInv, DrainOne
<1>2. /\ pf = draining[1] /\ 1 \in 1..Len(draining) /\ pf \in PendingFills
      /\ Tail(draining) \in Seq(PendingFills)
      /\ \A i \in 1..Len(Tail(draining)) :
            Tail(draining)[i] = draining[i + 1] /\ i + 1 \in 1..Len(draining)
  BY <1>1 DEF BufferTypeOK
<1>3. f \in Fills /\ (f.kind # "Failed" => f.size <= reported'[f.trade])
  BY <1>1, <1>2 DEF BufferInv, BufferReported, PendingFills
<1>4. \A u \in Trades : reported[u] <= reported'[u]
  BY <1>1
<1>5. draining' \in Seq(PendingFills) /\ BufferReported(draining)'
  BY <1>1, <1>2 DEF BufferInv, BufferReported
<1> HIDE DEF pf, f
<1>6. ASSUME pending' = pending PROVE BufferInv'
  BY <1>1, <1>5, <1>6 DEF BufferInv, BufferTypeOK, BufferReported
<1>7. ASSUME UNCHANGED <<core, table, booked, disowned>>
      PROVE  CoreInv' /\ TableInv'
  BY <1>1, <1>7, CoreFrame, TableFrame DEF history
<1>8. CASE UNCHANGED <<core, table, pending, booked, disowned>>
  BY <1>6, <1>7, <1>8 DEF IInv
<1>9. CASE pending' = Append(pending, pf) /\ UNCHANGED <<core, table, booked, disowned>>
  <2>1. pending \in Seq(PendingFills) /\ BufferReported(pending)
    BY <1>1 DEF BufferInv, BufferTypeOK
  <2>2. /\ pending' \in Seq(PendingFills) /\ Len(pending') = Len(pending) + 1
        /\ pending'[Len(pending) + 1] = pf
        /\ \A i \in 1..Len(pending) : pending'[i] = pending[i]
    BY <1>2, <1>9, <2>1
  <2>3. \A i \in 1..Len(pending') :
          pending'[i].fill.kind # "Failed"
            => pending'[i].fill.size <= reported'[pending'[i].fill.trade]
    <3> SUFFICES ASSUME NEW i \in 1..Len(pending'), pending'[i].fill.kind # "Failed"
                 PROVE  pending'[i].fill.size <= reported'[pending'[i].fill.trade]
      OBVIOUS
    <3>1. CASE i = Len(pending) + 1
      BY <1>3, <2>2, <3>1 DEF f, pf
    <3>2. CASE i # Len(pending) + 1
      <4>1. i \in 1..Len(pending)
        BY <2>1, <2>2, <3>2
      <4> QED BY <1>1, <2>1, <2>2, <4>1 DEF BufferReported
    <3> QED BY <3>1, <3>2
  <2>4. BufferInv'
    BY <1>5, <2>2, <2>3 DEF BufferInv, BufferTypeOK, BufferReported
  <2> QED BY <1>7, <1>9, <2>4 DEF IInv
<1>10. CASE \E o \in ResolvedTo(f) : ApplyTo(f, o) /\ UNCHANGED <<issued, byInternal, pending>>
  <2>1. PICK o \in ResolvedTo(f) : ApplyTo(f, o) /\ UNCHANGED <<issued, byInternal, pending>>
    BY <1>10
  <2>2. o \in OrderIds /\ Tracked(o)
    BY <1>1, <1>3, ResolvedTracked DEF CoreTypeOK
  <2>3. CoreInv' /\ TableInv'
    BY <1>1, <1>3, <1>4, <2>1, <2>2, ApplyToKeeps
  <2> QED BY <1>6, <2>1, <2>3 DEF IInv
<1> QED BY <1>8, <1>9, <1>10 DEF DrainOne, pf, f

\* take_applied_journal keeps the invariant.
LEMMA JournalTakenKeeps ==
  ASSUME IInv, TakeAppliedJournal
  PROVE  IInv'
<1>1. /\ UNCHANGED <<core, applied, older, pending, draining, now, history>>
      /\ journal' = <<>>
  BY DEF TakeAppliedJournal
<1>2. CoreInv' /\ BufferInv'
  BY <1>1, CoreFrame, BufferFrame DEF IInv, CoreInv, CoreTypeOK, history
<1>3. TableTypeOK' /\ TableCovers'
  BY <1>1 DEF IInv, TableInv, TableTypeOK, TableCovers, history
<1> QED BY <1>2, <1>3 DEF IInv, TableInv

\* The passing of time keeps the invariant.
LEMMA ClockKeeps ==
  ASSUME IInv, ClockAdvances
  PROVE  IInv'
<1>1. now \in Nat /\ now' = now + 1 /\ UNCHANGED <<core, table, pending, draining, history>>
  BY DEF IInv, CoreInv, CoreTypeOK, ClockAdvances
<1>2. CoreInv'
  BY <1>1, CoreFrame DEF IInv
<1>3. TableInv' /\ BufferInv'
  BY <1>1, TableFrame, BufferFrame DEF IInv, history
<1> QED BY <1>2, <1>3 DEF IInv

\* Every operation on one order keeps the invariant.
LEMMA OrderStepKeeps ==
  ASSUME IInv, OrderStep
  PROVE  IInv'
<1>1. ASSUME NEW o \in OrderIds, OrderOps(o) PROVE IInv'
  <2>1. CoreInv' /\ UNCHANGED <<table, pending, draining, now, history>>
    BY <1>1, OrderOpCore DEF IInv
  <2>2. TableInv' /\ BufferInv'
    BY <2>1, TableFrame, BufferFrame DEF IInv, history
  <2> QED BY <2>1, <2>2 DEF IInv
<1> QED
  BY <1>1, ResetAccountKeeps DEF OrderStep, OrderOps

-----------------------------------------------------------------------------
(* Theorems *)

\* The invariant holds at the start.
LEMMA InitIInv == Init => IInv
<1> SUFFICES ASSUME Init PROVE IInv
  OBVIOUS
<1>1. NotTracked \in Orders /\ NotTracked.filled = 0 /\ NotTracked.at = 0
      /\ NotTracked.status = "Untracked"
  BY DEF NotTracked, Orders, Statuses
<1>2. \A o \in OrderIds : orders[o] = NotTracked
  BY DEF Init
<1>3. CoreTypeOK
  BY <1>1, <1>2, OrderAttributes DEF Init, CoreTypeOK
<1>4. LiveIndexExact /\ KeyGuard /\ RowsIssued /\ CompletedSellsStamped
  BY <1>1, <1>2 DEF Init, LiveIndexExact, KeyGuard, RowsIssued, CompletedSellsStamped,
                    Live, Tracked, LiveStatuses
<1>5. NotApplied \in AppliedFills /\ NotApplied.size = 0 /\ NotApplied.known = FALSE
  BY DEF NotApplied, AppliedFills
<1>6. TableTypeOK
  BY <1>5 DEF Init, TableTypeOK
<1>7. TableCovers
  BY <1>5 DEF Init, TableCovers
<1>8. BufferInv
  BY DEF Init, BufferInv, BufferTypeOK, BufferReported
<1> QED BY <1>3, <1>4, <1>6, <1>7, <1>8 DEF IInv, CoreInv, TableInv

\* Every step keeps the invariant.
LEMMA NextIInv == IInv /\ [Next]_vars => IInv'
<1> SUFFICES ASSUME IInv, [Next]_vars PROVE IInv'
  OBVIOUS
<1>1. CASE UNCHANGED vars
  BY <1>1, CoreFrame, TableFrame, BufferFrame
     DEF vars, IInv, CoreInv, CoreTypeOK, history
<1>2. CASE OrderStep
  BY <1>2, OrderStepKeeps
<1>3. CASE \E f \in Fills : IngestFill(f)
  BY <1>3, IngestFillKeeps
<1>4. CASE DrainPending
  BY <1>4, DrainPendingKeeps
<1>5. CASE DrainOne
  BY <1>5, DrainOneKeeps
<1>6. CASE TakeAppliedJournal
  BY <1>6, JournalTakenKeeps
<1>7. CASE ClockAdvances
  BY <1>7, ClockKeeps
<1> QED
  BY <1>1, <1>2, <1>3, <1>4, <1>5, <1>6, <1>7 DEF Next

\* The inductive invariant holds in every reachable state.
THEOREM Invariance == Spec => []IInv
BY InitIInv, NextIInv, PTL DEF Spec

\* Every variable keeps its type and no order is ever filled beyond its size.
THEOREM TypeCorrect == Spec => []TypeOK
<1>1. IInv => TypeOK
  BY DEF IInv, CoreInv, TableInv, BufferInv, TypeOK
<1> QED BY <1>1, Invariance, PTL

\* The live indexes never drift from the statuses (sync_live_index).
THEOREM LiveIndexNeverDrifts == Spec => []LiveIndexExact
<1>1. IInv => LiveIndexExact
  BY DEF IInv, CoreInv
<1> QED BY <1>1, Invariance, PTL

\* The dedup guard of `submit` admits one live order per internal key, resets
\* and late status changes included.
THEOREM DedupGuard == Spec => []OneLivePerKey
<1>1. IInv => OneLivePerKey
  BY DEF IInv, CoreInv, KeyGuard, OneLivePerKey
<1> QED BY <1>1, Invariance, PTL

\* apply_fill_report books a trade once, whatever the order and the number of
\* its reports.
THEOREM Idempotency == Spec => []BookedOnce
<1>1. IInv => BookedOnce
  <2> SUFFICES ASSUME IInv, NEW t \in Trades \ disowned
               PROVE  booked[t] <= reported[t]
    BY DEF BookedOnce
  <2>1. booked[t] \in Int /\ reported[t] \in Nat /\ applied[t].size \in Nat
    BY DEF IInv, TableInv, TableTypeOK, AppliedFills
  <2>2. booked[t] <= applied[t].size /\ applied[t].size <= reported[t]
    BY DEF IInv, TableInv, TableCovers
  <2> QED BY <2>1, <2>2
<1> QED BY <1>1, Invariance, PTL

\* Every completed SELL is visible to has_filled_sell_since.
THEOREM SellsStamped == Spec => []CompletedSellsStamped
<1>1. IInv => CompletedSellsStamped
  BY DEF IInv, CoreInv
<1> QED BY <1>1, Invariance, PTL

\* An order that was registered and is not live never becomes live.
LEMMA EndedStays ==
  ASSUME IInv, [Next]_vars, NEW o \in OrderIds, o \in issued, ~Live(o)
  PROVE  orders'[o].status \notin LiveStatuses
<1>1. CoreTypeOK /\ TableTypeOK /\ orders \in [OrderIds -> Orders]
  BY DEF IInv, CoreInv, TableInv, CoreTypeOK
<1>2. ~Live(o) /\ o \in issued
  OBVIOUS
<1>3. CASE UNCHANGED orders
  BY <1>2, <1>3 DEF Live
<1>4. ASSUME NEW p \in OrderIds, NEW r, r.status \in LiveStatuses => Live(p),
             orders' = [orders EXCEPT ![p] = r]
      PROVE  orders'[o].status \notin LiveStatuses
  <2>1. CASE p = o
    BY <1>1, <1>2, <1>4, <2>1
  <2>2. CASE p # o
    BY <1>1, <1>2, <1>4, <2>2 DEF Live
  <2> QED BY <2>1, <2>2
<1>5. ASSUME NEW f \in Fills, NEW p \in ResolvedTo(f), ApplyTo(f, p)
      PROVE  orders'[o].status \notin LiveStatuses
  <2>1. p \in OrderIds /\ Tracked(p)
    BY <1>1, ResolvedTracked DEF CoreTypeOK
  <2>2. CASE NothingToMove(f)
    BY <1>3, <1>5, <2>2 DEF ApplyTo
  <2>3. CASE ~NothingToMove(f)
    <3>1. ReportDelta(f) \in Int
      BY <1>1, ReportTypes
    <3>2. AfterDelta(p, ReportDelta(f)).status \in LiveStatuses => Live(p)
      BY <1>1, <2>1, <3>1, AfterDeltaRow
    <3>3. orders' = [orders EXCEPT ![p] = AfterDelta(p, ReportDelta(f))]
      BY <1>5, <2>3 DEF ApplyTo
    <3> QED BY <1>4, <2>1, <3>2, <3>3
  <2> QED BY <2>2, <2>3
<1>6. ASSUME NEW f \in Fills, IngestFill(f)
      PROVE  orders'[o].status \notin LiveStatuses
  BY <1>3, <1>5, <1>6 DEF IngestFill, core
<1>7. CASE DrainOne
  <2>1. draining \in Seq(PendingFills) /\ draining # <<>>
    BY <1>7 DEF IInv, BufferInv, BufferTypeOK, DrainOne
  <2>2. Head(draining) \in PendingFills
    BY <2>1
  <2>3. Head(draining).fill \in Fills
    BY <2>2 DEF PendingFills
  <2> QED BY <1>3, <1>5, <1>7, <2>3 DEF DrainOne, core
<1>8. ASSUME NEW p \in OrderIds, ConfirmLive(p) \/ BindVenue(p)
      PROVE  orders'[o].status \notin LiveStatuses
  <2>1. orders[p] \in Orders
    BY <1>1
  <2>2. PICK r : /\ orders' = [orders EXCEPT ![p] = r]
                 /\ \/ r = MarkedLive(orders[p])
                    \/ r = MarkedLive([orders[p] EXCEPT !.bound = TRUE])
    BY <1>8 DEF ConfirmLive, BindVenue, Mutate
  <2>3. r.status \in LiveStatuses => Live(p)
    BY <2>1, <2>2 DEF MarkedLive, Live, LiveStatuses, Orders
  <2> QED BY <1>4, <2>2, <2>3
<1>9. ASSUME NEW p \in OrderIds, NEW s \in TerminalStatuses, MarkTerminal(p, s)
      PROVE  orders'[o].status \notin LiveStatuses
  <2>1. orders[p] \in Orders
    BY <1>1
  <2>2. [orders[p] EXCEPT !.status = s].status \notin LiveStatuses
    BY <2>1 DEF Orders, TerminalStatuses, LiveStatuses
  <2> QED BY <1>4, <1>9, <2>2 DEF MarkTerminal, Mutate
<1>10. ASSUME NEW p \in OrderIds, Submit(p)
       PROVE  orders'[o].status \notin LiveStatuses
  <2>1. p # o
    BY <1>2, <1>10 DEF Submit
  <2>2. orders'[o] = orders[o]
    BY <1>1, <1>10, <2>1 DEF Submit
  <2> QED BY <1>2, <2>2 DEF Live
<1>11. ASSUME NEW a \in Accounts, ResetAccount(a)
       PROVE  orders'[o].status \notin LiveStatuses
  BY <1>2, <1>11 DEF ResetAccount, NotTracked, LiveStatuses, Live
<1>12. CASE OrderStep
  <2>1. ASSUME NEW p \in OrderIds,
               Cancel(p) \/ Reject(p) \/ ForceClose(p) \/ RepairGhost(p)
        PROVE  orders'[o].status \notin LiveStatuses
    BY <1>9, <2>1 DEF Cancel, Reject, ForceClose, RepairGhost, TerminalStatuses
  <2> QED BY <1>8, <1>10, <1>11, <1>12, <2>1 DEF OrderStep
<1>13. CASE DrainPending \/ TakeAppliedJournal \/ ClockAdvances \/ UNCHANGED vars
  BY <1>3, <1>13 DEF DrainPending, TakeAppliedJournal, ClockAdvances, vars, core
<1> QED BY <1>6, <1>7, <1>12, <1>13 DEF Next

\* No step turns a terminal row into a live one.
LEMMA TerminalStep ==
  ASSUME IInv, [Next]_vars, NEW o \in OrderIds, orders[o].status \in TerminalStatuses
  PROVE  orders'[o].status \notin LiveStatuses
<1>1. ~Live(o) /\ o \in issued
  BY DEF IInv, CoreInv, RowsIssued, Tracked, Live, TerminalStatuses, LiveStatuses
<1> QED BY <1>1, EndedStays

\* Terminal absorption: a status that ended stays ended, whatever fills,
\* acknowledgements and sweeps arrive later.
THEOREM TerminalAbsorption == Spec => NeverResurrected
<1>1. IInv /\ [Next]_vars
        => [\A o \in OrderIds : orders[o].status \in TerminalStatuses
                                 => orders'[o].status \notin LiveStatuses]_vars
  BY TerminalStep
<1> QED BY <1>1, Invariance, PTL DEF Spec, NeverResurrected

-----------------------------------------------------------------------------
(* The cap on the table and live orders *)

\* What the venue's user channel must do for the cap to be harmless: every
\* report carries the core's id of its order, and no trade fails.
NamedReports == Refs \subseteq {"core"} /\ FillKinds \subseteq {"Matched"}

\* While a trade's order is live, the trade's entry belongs to that order and
\* covers what was booked.
Attached ==
  \A t \in Trades :
    Live(TradeOrder[t]) => /\ applied[t].known => applied[t].order = TradeOrder[t]
                           /\ booked[t] <= applied[t].size

\* Nothing is known or booked of a trade whose order was not registered yet.
Unplaced ==
  \A t \in Trades :
    TradeOrder[t] \notin issued => ~applied[t].known /\ booked[t] <= 0

\* A buffered report is about a registered order.
BufferPlaced(q) == \A i \in 1..Len(q) : TradeOrder[q[i].fill.trade] \in issued

OwnInv == Attached /\ Unplaced /\ BufferPlaced(pending) /\ BufferPlaced(draining)

\* `remember` leaves an entry with the order it had, gives a new one the order
\* of its report, and evicts only entries whose order is not live any more.
LEMMA RememberOrders ==
  ASSUME TableTypeOK, NEW t \in Trades, NEW o \in OrderIds, NEW s \in Nat,
         Remember(t, o, s), NEW u \in Trades,
         NEW p, p = IF u = t /\ ~applied[t].known THEN o ELSE applied[u].order
  PROVE  /\ applied'[u].known => applied'[u].order = p
         /\ u # t /\ ~applied[u].known => ~applied'[u].known
         /\ u \in Evicted => orders'[p].status \notin LiveStatuses
         /\ u \in Evicted => u = t \/ applied[u].known
<1>1. CASE applied[t].known /\ applied[t].size = s
  BY <1>1 DEF Remember, table, Evicted
<1>2. CASE ~(applied[t].known /\ applied[t].size = s)
  <2> DEFINE tbl == Upsert(t, o, s)
             gone == Victims(tbl, Sequenced(t), orders')
             rec == [trade |-> t, size |-> s, order |-> tbl[t].order, evicted |-> gone]
  <2>1. /\ applied' = [v \in Trades |-> IF v \in gone THEN NotApplied ELSE tbl[v]]
        /\ journal' = Append(journal, rec)
    BY <1>2 DEF Remember
  <2>2. tbl[u].order = p /\ (u # t => tbl[u] = applied[u])
    BY DEF Upsert, TableTypeOK, AppliedFills
  <2>3. u \in gone => orders'[tbl[u].order].status \notin LiveStatuses /\ tbl[u].known
    BY DEF Victims, Evictable, Known
  <2> HIDE DEF tbl, gone
  <2>4. rec.evicted = gone
    OBVIOUS
  <2>5. Evicted = gone \/ Evicted = {}
    <3> HIDE DEF rec
    <3>1. journal \in Seq(AppliedFillRecords)
      BY DEF TableTypeOK
    <3>2. Len(Append(journal, rec)) = Len(journal) + 1
          /\ Append(journal, rec)[Len(journal) + 1] = rec
      BY <3>1
    <3> QED BY <2>1, <2>4, <3>2 DEF Evicted
  <2>6. /\ applied'[u].known => applied'[u].order = tbl[u].order
        /\ u # t /\ ~applied[u].known => ~applied'[u].known
    BY <2>1, <2>2 DEF NotApplied
  <2> QED BY <2>2, <2>3, <2>5, <2>6
<1> QED BY <1>1, <1>2

\* A named report that is applied while its order is live is applied to it.
LEMMA NamedResolves ==
  ASSUME NamedReports, NEW f \in Fills, NEW o \in ResolvedTo(f),
         Live(TradeOrder[f.trade])
  PROVE  o = TradeOrder[f.trade]
<1>1. f.ref = "core"
  BY DEF NamedReports, Fills
<1>2. Exact(f)
  BY <1>1 DEF Exact, Live, Tracked, LiveStatuses
<1> QED BY <1>2 DEF ResolvedTo

\* apply_fill_report leaves the entries of live orders attached and covering.
LEMMA ApplyToAttached ==
  ASSUME NamedReports, IInv, Attached, Unplaced, [Next]_vars,
         NEW f \in Fills, NEW o \in ResolvedTo(f), ApplyTo(f, o),
         TradeOrder[f.trade] \in issued,
         UNCHANGED <<issued, byInternal, now>>, reported' \in [Trades -> Nat]
  PROVE  Attached' /\ Unplaced'
<1> DEFINE t == f.trade
           d == ReportDelta(f)
           a == applied[f.trade].size
           e == Effective(o, d)
           size == IF NothingToMove(f) THEN a ELSE f.size
<1>1. TableTypeOK /\ CoreTypeOK /\ CoreInv
  BY DEF IInv, TableInv, CoreInv
<1>2. o \in OrderIds /\ Tracked(o) /\ f.kind = "Matched"
  BY <1>1, ResolvedTracked DEF CoreTypeOK, NamedReports, Fills
<1>3. t \in Trades /\ f.size \in Nat /\ a \in Nat /\ d \in Int
  BY <1>1, ReportTypes
<1>4. /\ \A u \in Evicted : applied'[u].size = 0
      /\ \A u \in Trades :
           u # t => /\ booked'[u] = booked[u]
                    /\ u \notin Evicted => applied'[u] = applied[u]
      /\ NothingToMove(f) =>
           /\ booked' = booked
           /\ t \notin Evicted => applied'[t].size = a
      /\ ~NothingToMove(f) =>
           /\ booked'[t] = booked[t] + e
           /\ t \notin Evicted
                => applied'[t].size = IF f.kind = "Failed" THEN 0 ELSE f.size
  BY <1>1, <1>2, ApplyToTyped
<1>5. e \in Int /\ (d >= 0 => e <= d)
  BY <1>1, <1>2, <1>3, CappedRange
<1>6. size \in Nat /\ Remember(t, o, size)
  BY <1>2, <1>3 DEF ApplyTo, NothingToMove, ReportDelta, Larger
<1> HIDE DEF e, size
<1>7. ASSUME NEW u \in Trades, NEW p,
             p = IF u = t /\ ~applied[t].known THEN o ELSE applied[u].order
      PROVE  /\ applied'[u].known => applied'[u].order = p
             /\ u # t /\ ~applied[u].known => ~applied'[u].known
             /\ u \in Evicted => orders'[p].status \notin LiveStatuses
             /\ u \in Evicted => u = t \/ applied[u].known
  BY <1>1, <1>2, <1>3, <1>6, <1>7, RememberOrders
<1>8. ASSUME NEW u \in Trades, Live(TradeOrder[u])'
      PROVE  /\ applied'[u].known => applied'[u].order = TradeOrder[u]
             /\ booked'[u] <= applied'[u].size
  <2>1. TradeOrder[u] \in OrderIds
    BY OrderAttributes
  <2>2. TradeOrder[u] \in issued
    BY <1>1, <1>8, <2>1, ApplyToTyped, <1>2 DEF CoreInv, RowsIssued, Live, Tracked, LiveStatuses
  <2>3. Live(TradeOrder[u])
    BY <1>8, <2>1, <2>2, EndedStays DEF Live
  <2>4. u = t => o = TradeOrder[u]
    BY <2>3, NamedResolves
  <2>5. /\ applied[u].known => applied[u].order = TradeOrder[u]
        /\ booked[u] <= applied[u].size
    BY <2>3 DEF Attached
  <2> DEFINE p == IF u = t /\ ~applied[t].known THEN o ELSE applied[u].order
  <2>6. u = t \/ applied[u].known => p = TradeOrder[u]
    BY <2>4, <2>5
  <2>7. /\ applied'[u].known => applied'[u].order = p
        /\ u # t /\ ~applied[u].known => ~applied'[u].known
        /\ u \in Evicted => orders'[p].status \notin LiveStatuses
        /\ u \in Evicted => u = t \/ applied[u].known
    BY <1>7
  <2> HIDE DEF p
  <2>8. u \notin Evicted
    BY <1>8, <2>6, <2>7 DEF Live
  <2>9. applied'[u].known => applied'[u].order = TradeOrder[u]
    BY <2>6, <2>7
  <2>10. booked'[u] <= applied'[u].size
    <3>1. CASE u # t \/ NothingToMove(f)
      BY <1>4, <2>5, <2>8, <3>1
    <3>2. CASE u = t /\ ~NothingToMove(f)
      <4>1. d = f.size - a /\ d > 0
        BY <1>2, <1>3, <3>2 DEF ReportDelta, NothingToMove
      <4>2. booked[u] \in Int
        BY <1>1 DEF TableTypeOK
      <4>3. booked'[u] = booked[u] + e /\ applied'[u].size = f.size
        BY <1>2, <1>4, <2>8, <3>2
      <4> QED BY <1>3, <1>5, <2>5, <3>2, <4>1, <4>2, <4>3
    <3> QED BY <3>1, <3>2
  <2> QED BY <2>9, <2>10
<1>9. ASSUME NEW u \in Trades, TradeOrder[u] \notin issued'
      PROVE  ~applied'[u].known /\ booked'[u] <= 0
  <2>1. u # t /\ ~applied[u].known /\ booked[u] <= 0
    BY <1>9 DEF Unplaced
  <2> QED BY <1>4, <1>7, <2>1
<1> QED BY <1>8, <1>9 DEF Attached, Unplaced

\* A step that leaves the table alone keeps what is said of it: an order that
\* becomes live is a new one, of which nothing is booked.
LEMMA AttachedFrame ==
  ASSUME IInv, Attached, Unplaced, [Next]_vars,
         UNCHANGED <<applied, booked>>, issued \subseteq issued'
  PROVE  Attached' /\ Unplaced'
<1>1. ASSUME NEW t \in Trades, Live(TradeOrder[t])'
      PROVE  /\ applied[t].known => applied[t].order = TradeOrder[t]
             /\ booked[t] <= applied[t].size
  <2>1. TradeOrder[t] \in OrderIds /\ applied[t].size \in Nat /\ booked[t] \in Int
    BY OrderAttributes DEF IInv, TableInv, TableTypeOK, AppliedFills
  <2>2. CASE TradeOrder[t] \in issued
    <3>1. Live(TradeOrder[t])
      BY <1>1, <2>1, <2>2, EndedStays DEF Live
    <3> QED BY <3>1 DEF Attached
  <2>3. CASE TradeOrder[t] \notin issued
    BY <2>1, <2>3 DEF Unplaced
  <2> QED BY <2>2, <2>3
<1> QED BY <1>1 DEF Attached, Unplaced

\* Registered orders stay registered, in whatever way a step may go.
LEMMA IssuedGrows ==
  ASSUME [Next]_vars
  PROVE  issued \subseteq issued'
<1>1. CASE OrderStep
  BY <1>1 DEF OrderStep, Submit, ConfirmLive, BindVenue, Cancel, Reject, ForceClose,
              RepairGhost, MarkTerminal, Mutate, ResetAccount
<1>2. ASSUME NEW f \in Fills, IngestFill(f) PROVE issued' = issued
  BY <1>2 DEF IngestFill, core
<1>3. CASE DrainOne
  BY <1>3 DEF DrainOne, core
<1>4. CASE DrainPending \/ ClockAdvances \/ TakeAppliedJournal \/ UNCHANGED vars
  BY <1>4 DEF DrainPending, ClockAdvances, TakeAppliedJournal, vars, core
<1> QED BY <1>1, <1>2, <1>3, <1>4 DEF Next

\* The buffer keeps to registered orders when a report of one joins it.
LEMMA AppendPlaced ==
  ASSUME NEW q \in Seq(PendingFills), BufferPlaced(q), NEW pf \in PendingFills,
         TradeOrder[pf.fill.trade] \in issued
  PROVE  BufferPlaced(Append(q, pf)) /\ BufferPlaced(Tail(Append(q, pf)))
<1> DEFINE r == Append(q, pf)
<1>1. /\ r \in Seq(PendingFills) /\ Len(r) = Len(q) + 1 /\ r[Len(q) + 1] = pf
      /\ \A i \in 1..Len(q) : r[i] = q[i]
  OBVIOUS
<1>2. Len(q) \in Nat
  OBVIOUS
<1> HIDE DEF r
<1>3. ASSUME NEW i \in 1..Len(r) PROVE TradeOrder[r[i].fill.trade] \in issued
  <2>1. CASE i = Len(q) + 1
    BY <1>1, <2>1
  <2>2. CASE i # Len(q) + 1
    <3>1. i \in 1..Len(q)
      BY <1>1, <1>2, <2>2
    <3> QED BY <1>1, <3>1 DEF BufferPlaced
  <2> QED BY <2>1, <2>2
<1>4. /\ Len(Tail(r)) = Len(r) - 1
      /\ \A i \in 1..Len(Tail(r)) : Tail(r)[i] = r[i + 1] /\ i + 1 \in 1..Len(r)
  BY <1>1, <1>2
<1>5. BufferPlaced(r)
  BY <1>3 DEF BufferPlaced
<1>6. BufferPlaced(Tail(r))
  BY <1>3, <1>4 DEF BufferPlaced
<1> QED BY <1>5, <1>6 DEF r

\* ingest_fill keeps live orders' trades covered.
LEMMA IngestFillOwn ==
  ASSUME NamedReports, IInv, OwnInv, [Next]_vars, NEW f \in Fills, IngestFill(f)
  PROVE  OwnInv'
<1>1. /\ Attached /\ Unplaced /\ BufferPlaced(pending) /\ BufferPlaced(draining)
      /\ TradeOrder[f.trade] \in issued /\ draining' = draining /\ now' = now
      /\ TableTypeOK /\ pending \in Seq(PendingFills) /\ now \in Nat
  BY DEF OwnInv, IngestFill, IInv, TableInv, BufferInv, BufferTypeOK, CoreInv, CoreTypeOK
<1>2. issued' = issued
  BY DEF IngestFill, core
<1>3. BufferPlaced(draining)' /\ (pending' = pending => BufferPlaced(pending)')
  BY <1>1, <1>2 DEF BufferPlaced
<1>4. CASE UNCHANGED <<core, table, booked, disowned>>
  <2>1. Attached' /\ Unplaced'
    BY <1>1, <1>2, <1>4, AttachedFrame DEF table
  <2>2. CASE pending' = pending
    BY <1>3, <2>1, <2>2 DEF OwnInv
  <2>3. CASE pending' = Buffered(f)
    <3> DEFINE pf == [fill |-> f, at |-> now]
    <3>1. pf \in PendingFills /\ pf.fill = f
      BY <1>1 DEF PendingFills
    <3>2. pending' = Append(pending, pf) \/ pending' = Tail(Append(pending, pf))
      BY <2>3 DEF Buffered
    <3> HIDE DEF pf
    <3>3. BufferPlaced(Append(pending, pf)) /\ BufferPlaced(Tail(Append(pending, pf)))
      BY <1>1, <3>1, AppendPlaced
    <3>4. BufferPlaced(pending)'
      BY <1>2, <3>2, <3>3 DEF BufferPlaced
    <3> QED BY <1>3, <2>1, <3>4 DEF OwnInv
  <2> QED BY <1>4, <2>2, <2>3, <1>1 DEF IngestFill, ResolvedTo
<1>5. CASE \E o \in ResolvedTo(f) : ApplyTo(f, o) /\ UNCHANGED <<issued, byInternal, pending>>
  <2>1. PICK o \in ResolvedTo(f) : ApplyTo(f, o) /\ UNCHANGED <<issued, byInternal, pending>>
    BY <1>5
  <2>2. reported' \in [Trades -> Nat]
    BY <1>1, ReportMonotone DEF IngestFill
  <2>3. Attached' /\ Unplaced'
    BY <1>1, <2>1, <2>2, ApplyToAttached
  <2> QED BY <1>3, <2>1, <2>3 DEF OwnInv
<1> QED BY <1>4, <1>5 DEF IngestFill

\* So does one fill of drain_pending.
LEMMA DrainOneOwn ==
  ASSUME NamedReports, IInv, OwnInv, [Next]_vars, DrainOne
  PROVE  OwnInv'
<1> DEFINE pf == Head(draining)
           f == Head(draining).fill
<1>1. /\ Attached /\ Unplaced /\ BufferPlaced(pending) /\ BufferPlaced(draining)
      /\ draining # <<>> /\ draining' = Tail(draining)
      /\ now' = now /\ reported' = reported /\ reported \in [Trades -> Nat]
      /\ pending \in Seq(PendingFills) /\ draining \in Seq(PendingFills)
  BY DEF OwnInv, DrainOne, IInv, TableInv, TableTypeOK, BufferInv, BufferTypeOK
<1>2. issued' = issued
  BY DEF DrainOne, core
<1>3. /\ pf = draining[1] /\ 1 \in 1..Len(draining) /\ pf \in PendingFills
      /\ \A i \in 1..Len(Tail(draining)) :
            Tail(draining)[i] = draining[i + 1] /\ i + 1 \in 1..Len(draining)
  BY <1>1
<1>4. f \in Fills /\ TradeOrder[f.trade] \in issued
  BY <1>1, <1>3 DEF BufferPlaced, PendingFills
<1>5. BufferPlaced(draining)' /\ (pending' = pending => BufferPlaced(pending)')
  BY <1>1, <1>2, <1>3 DEF BufferPlaced
<1>6. UNCHANGED <<core, table, booked, disowned>> => Attached' /\ Unplaced'
  BY <1>1, <1>2, AttachedFrame DEF table
<1> HIDE DEF pf, f
<1>7. CASE UNCHANGED <<core, table, pending, booked, disowned>>
  BY <1>5, <1>6, <1>7 DEF OwnInv
<1>8. CASE pending' = Append(pending, pf) /\ UNCHANGED <<core, table, booked, disowned>>
  <2>1. BufferPlaced(Append(pending, pf))
    BY <1>1, <1>3, <1>4, AppendPlaced DEF f, pf
  <2>2. BufferPlaced(pending)'
    BY <1>2, <1>8, <2>1 DEF BufferPlaced
  <2> QED BY <1>5, <1>6, <1>8, <2>2 DEF OwnInv
<1>9. CASE \E o \in ResolvedTo(f) : ApplyTo(f, o) /\ UNCHANGED <<issued, byInternal, pending>>
  <2>1. PICK o \in ResolvedTo(f) : ApplyTo(f, o) /\ UNCHANGED <<issued, byInternal, pending>>
    BY <1>9
  <2>2. Attached' /\ Unplaced'
    BY <1>1, <1>4, <2>1, ApplyToAttached
  <2> QED BY <1>5, <2>1, <2>2 DEF OwnInv
<1> QED BY <1>7, <1>8, <1>9 DEF DrainOne, pf, f

\* Every other step leaves the table and the histories alone.
LEMMA OtherOwn ==
  ASSUME IInv, OwnInv, [Next]_vars,
         OrderStep \/ DrainPending \/ ClockAdvances \/ TakeAppliedJournal \/ UNCHANGED vars
  PROVE  OwnInv'
<1>1. UNCHANGED <<applied, booked>> /\ issued \subseteq issued'
      /\ \/ UNCHANGED <<pending, draining>>
         \/ draining' = pending /\ pending' = <<>>
  <2>1. issued \subseteq issued'
    BY IssuedGrows
  <2>2. CASE OrderStep
    BY <2>1, <2>2 DEF OrderStep, Submit, ConfirmLive, BindVenue, Cancel, Reject,
          ForceClose, RepairGhost, MarkTerminal, Mutate, ResetAccount, table, history
  <2>3. CASE DrainPending \/ ClockAdvances \/ TakeAppliedJournal \/ UNCHANGED vars
    BY <2>1, <2>3 DEF DrainPending, ClockAdvances, TakeAppliedJournal, vars, table, history
  <2> QED BY <2>2, <2>3
<1>2. Attached' /\ Unplaced'
  BY <1>1, AttachedFrame DEF OwnInv
<1>3. BufferPlaced(pending)' /\ BufferPlaced(draining)'
  BY <1>1 DEF OwnInv, BufferPlaced
<1> QED BY <1>2, <1>3 DEF OwnInv

\* At the start nothing is booked and no order is live.
LEMMA InitOwn == Init => OwnInv
<1> SUFFICES ASSUME Init PROVE OwnInv
  OBVIOUS
<1>1. Attached
  BY OrderAttributes DEF Init, Attached, Live, NotTracked, LiveStatuses
<1>2. Unplaced /\ BufferPlaced(pending) /\ BufferPlaced(draining)
  BY DEF Init, Unplaced, NotApplied, BufferPlaced
<1> QED BY <1>1, <1>2 DEF OwnInv

\* Every step keeps the trades of live orders covered.
LEMMA NextOwn ==
  ASSUME NamedReports
  PROVE  IInv /\ OwnInv /\ [Next]_vars => OwnInv'
<1> SUFFICES ASSUME IInv, OwnInv, [Next]_vars PROVE OwnInv'
  OBVIOUS
<1> QED BY IngestFillOwn, DrainOneOwn, OtherOwn DEF Next

\* The cap on the applied-fill table (evict_applied) does no harm where every
\* report names its order and none fails: as long as the order a trade executed
\* is live, the trade is booked once, however many others were evicted.
THEOREM CapSparesLive ==
  ASSUME NamedReports
  PROVE  Spec => []LiveTradeBookedOnce
<1>1. IInv /\ OwnInv => LiveTradeBookedOnce
  <2> SUFFICES ASSUME IInv, OwnInv, NEW t \in Trades, Live(TradeOrder[t])
               PROVE  booked[t] <= reported[t]
    BY DEF LiveTradeBookedOnce
  <2>1. booked[t] \in Int /\ reported[t] \in Nat /\ applied[t].size \in Nat
    BY DEF IInv, TableInv, TableTypeOK, AppliedFills
  <2>2. booked[t] <= applied[t].size /\ applied[t].size <= reported[t]
    BY DEF IInv, TableInv, TableCovers, OwnInv, Attached
  <2> QED BY <2>1, <2>2
<1>2. IInv /\ OwnInv /\ [Next]_vars => OwnInv'
  BY NextOwn
<1> QED BY <1>1, <1>2, InitOwn, Invariance, PTL DEF Spec
=============================================================================
