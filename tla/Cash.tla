-------------------------------- MODULE Cash --------------------------------
(***************************************************************************)
(* The money of one live account: what its orders reserve, what fills,     *)
(* rollbacks and manual trades do to cash, position and trade log, what    *)
(* the venue's cash reports do to all of it, the accounting audit that     *)
(* compares them, and a restart.                                           *)
(*                                                                         *)
(* One account, one venue, one token.  A trade is known to the core by its *)
(* order, or is a manual one (NoOrder).  Handlers run under the core lock  *)
(* and are atomic; FillLog has the stops inside one of them, Ome the       *)
(* resolution and the statuses of reports, Bridge the traffic with the     *)
(* venue, Settlement the payouts.  Shares are whole, so no remainder is    *)
(* below the venue's grid and a closed position leaves no dust.            *)
(***************************************************************************)
EXTENDS Ledger, FiniteSets, FiniteSetsExt

CONSTANTS
  BuyOrders,   \* the others are SELLs
  Price, Size, \* per order: limit and size
  Trades,
  NoOrder, TradeOrder, \* the order of a trade; NoOrder: placed by hand
  ManualSide,  \* side of a trade placed by hand
  Px, Qty, Fee, Stamp, \* per trade; Stamp is match_time in whole seconds
  Deposit,     \* the venue's cash at the start
  Moves,       \* cash moves the core is never told about
  None,        \* no report, position, credential, cursor or anchor yet
  MaxEvents    \* bound: restarts, FAILED trades, cash moves, audits, reports

ASSUME MoneyAssumption ==
  /\ \A o \in Orders : Price[o] \in Nat \ {0} /\ Size[o] \in Nat \ {0}
  /\ \A t \in Trades : /\ Px[t] \in Nat \ {0} /\ Qty[t] \in Nat \ {0}
                       /\ Fee[t] \in Nat /\ Stamp[t] \in Nat \ {0}
  /\ Deposit \in Nat /\ Moves \subseteq Int /\ IsFiniteSet(Moves)
  /\ MaxEvents \in Nat

ASSUME TradesAssumption ==
  /\ IsFiniteSet(Trades) /\ BuyOrders \subseteq Orders /\ NoOrder \notin Orders
  /\ \A t \in Trades : \/ TradeOrder[t] \in Orders
                       \/ TradeOrder[t] = NoOrder /\ ManualSide[t] \in {"Buy", "Sell"}

\* The venue never matches more than an order's size.
ASSUME MatchingAssumption ==
  \A o \in Orders : SumOf([t \in {u \in Trades : TradeOrder[u] = o} |-> Qty[t]]) <= Size[o]

LiveStatuses == {"Pending", "Live", "PartiallyFilled"}
\* "Ended" stands for Cancelled, Rejected and ForceClosed, which money does not
\* tell apart (Ome does).
TerminalStatuses == {"Filled", "Ended"}
OrderRows == [status : LiveStatuses \cup TerminalStatuses \cup {"Untracked"},
              filled : Nat]
Positions == [shares : Nat, opened : Nat, sold : Nat, entryCost : Nat,
              entryFee : Nat, proceeds : Nat, exitFee : Nat]
Credentials == [row : Positions, net : Int]
Blank == [shares |-> 0, opened |-> 0, sold |-> 0, entryCost |-> 0,
          entryFee |-> 0, proceeds |-> 0, exitFee |-> 0]

ASSUME NoneAssumption == None \notin Positions \cup Credentials \cup Int

Leaks == {"clamped", "floored", "dropped", "fee", "unmatched"}

VARIABLES
  orders, issued, bound,  \* the order table, ids used, orders with a venue id
  applied,                \* trades in the applied-fill table
  books,     \* ledger, open position, realized net, close credentials
  watermark, \* recon_watermark_ms
  resting, executed, failed, moved, \* the venue: open orders, trades, moves
  truth,     \* venue_truth_last, venue_fact_cursor, ghost_cash_alerted,
             \* venue_free_by_venue and last_realign of the venue
  audit,     \* anchor, halted, cross_source_failures
  events,    \* how many of the bounded events happened
  booked,    \* history: how often each trade was booked
  leaks,     \* history: why cash and trade records were allowed to part
  seen       \* history: the venue's unexplained cash, and the journal's rows,
             \* at the last report that moved the cursor

ome == <<orders, issued, bound, applied>>
venue == <<resting, executed, failed, moved>>
vars == <<ome, books, watermark, venue, truth, audit, events, booked, leaks,
          seen>>

Live(o) == orders[o].status \in LiveStatuses
Tracked(o) == orders[o].status # "Untracked"
SideOf(t) == IF TradeOrder[t] = NoOrder THEN ManualSide[t]
             ELSE IF TradeOrder[t] \in BuyOrders THEN "Buy" ELSE "Sell"

Happens == events < MaxEvents /\ events' = events + 1

NoTruth == [last |-> None, cursor |-> None, alert |-> None, free |-> None,
            realign |-> None]
NoAudit == [anchor |-> None, halted |-> FALSE, strikes |-> 0]

Init ==
  /\ orders = [o \in Orders |-> [status |-> "Untracked", filled |-> 0]]
  /\ issued = {} /\ bound = {} /\ applied = {}
  /\ books = [led |-> EmptyLedger, pos |-> None, realized |-> 0,
              creds |-> [t \in Trades |-> None]]
  /\ watermark = 0
  /\ resting = {} /\ executed = {} /\ failed = {} /\ moved = {}
  /\ truth = NoTruth
  /\ audit = NoAudit
  /\ events = 0
  /\ booked = [t \in Trades |-> 0]
  /\ leaks = {}
  /\ seen = None

-----------------------------------------------------------------------------
(* What a signed fill does to the books: apply_delta_effects *)

\* The notional of the unfilled part, zero once the order ended.
Outstanding(rows, o) ==
  IF rows[o].status \in LiveStatuses
  THEN Price[o] * AtLeastZero(Size[o] - rows[o].filled) ELSE 0

\* The fee follows the size booked; a rollback (d < 0) has none.
FeeOn(t, d) == IF d > 0 THEN (Fee[t] * d) \div Qty[t] ELSE 0

BuyCost(l, o, cost, released) ==
  IF o = NoOrder THEN Apply(l, "BuyFill", -cost)
  ELSE SettleBuyFill(l, o, cost, released)

\* The cash half: a fill pays the execution price and its fee, a rollback
\* gives the notional back without the fee, and a BUY's reservation is set to
\* what the order still commits.  o is NoOrder for a fill no order answers for.
CashEffect(l, t, o, d, rows) ==
  LET reserved == IF o = NoOrder THEN 0 ELSE Price[o] * d
      bought == IF d > 0 THEN ChargeFee(BuyCost(l, o, Px[t] * d, reserved), FeeOn(t, d))
                ELSE SettleSellFill(l, -Px[t] * d, 0)
  IN IF SideOf(t) = "Sell"
     THEN IF d > 0 THEN SettleSellFill(l, Px[t] * d, FeeOn(t, d))
          ELSE BuyCost(l, o, -Px[t] * d, 0)
     ELSE IF o = NoOrder THEN bought
     ELSE SyncBuyReservation(bought, o, Outstanding(rows, o))

CashDue(t, d) ==
  (IF SideOf(t) = "Buy" THEN -Px[t] * d ELSE Px[t] * d) - FeeOn(t, d)

\* The net a position has cost or earned: what close() books.
Net(p) == p.proceeds - p.exitFee - p.entryCost - p.entryFee

EntryFill(p, t, d) ==
  [p EXCEPT !.shares = AtLeastZero(@ + d), !.opened = AtLeastZero(@ + d),
            !.entryCost = AtLeastZero(@ + Px[t] * d),
            !.entryFee = @ + FeeOn(t, d)]
ExitFill(p, t, d) ==
  [p EXCEPT !.shares = AtLeastZero(@ - d), !.sold = AtLeastZero(@ + d),
            !.proceeds = AtLeastZero(@ + Px[t] * d),
            !.exitFee = @ + FeeOn(t, d)]

\* A floor of the position's flows kept part of a rollback out.
EntryFloored(p, t, d) ==
  p.opened + d < 0 \/ p.shares + d < 0 \/ p.entryCost + Px[t] * d < 0
ExitFloored(p, t, d) == p.sold + d < 0 \/ p.proceeds + Px[t] * d < 0

\* project_fill_delta, BUY: open or average in; an emptied shell is dropped.
ProjectEntry(b, t, d) ==
  LET old == IF b.pos = None THEN Blank ELSE b.pos
      new == EntryFill(old, t, d)
  IN [b |-> [b EXCEPT !.pos = IF new.shares = 0 THEN None ELSE new],
      leak |-> (IF EntryFloored(old, t, d) THEN {"floored"} ELSE {})
                 \cup (IF new.shares = 0 /\ Net(new) # 0 THEN {"dropped"} ELSE {})]

\* close() and on_position_closed: the position leaves, its net is recorded.
Closed(b, p) == [b EXCEPT !.pos = None, !.realized = @ + Net(p)]

\* Mutant: the trade record is the position's as it stood before the fill.
ProjectExitStale(b, t, d) ==
  IF b.pos # None
  THEN LET new == ExitFill(b.pos, t, d)
       IN [b |-> IF new.shares > 0 THEN [b EXCEPT !.pos = new] ELSE Closed(b, b.pos),
           leak |-> {}]
  ELSE [b |-> b, leak |-> {"unmatched"}]

\* project_fill_delta, SELL: reduce, close when nothing is left and file the
\* row as it stood before the fill; a rollback that finds no position unwinds
\* the close its trade made.
ProjectExit(b, t, d) ==
  IF b.pos # None
  THEN LET new == ExitFill(b.pos, t, d)
       IN [b |-> IF new.shares > 0 THEN [b EXCEPT !.pos = new]
                 ELSE [Closed(b, new) EXCEPT
                         !.creds[t] = [row |-> b.pos, net |-> Net(new)]],
           leak |-> IF ExitFloored(b.pos, t, d) THEN {"floored"} ELSE {}]
  ELSE IF d < 0 /\ b.creds[t] # None
  THEN [b |-> [b EXCEPT !.pos = b.creds[t].row, !.realized = @ - b.creds[t].net,
                        !.creds[t] = None],
        leak |-> IF Fee[t] > 0 THEN {"fee"} ELSE {}]
  ELSE [b |-> b, leak |-> {"unmatched"}]

\* s = [b, leaks]; the whole choke point, for a delta of d # 0.
ApplyDeltaEffects(s, t, o, d, rows) ==
  LET paid == CashEffect(s.b.led, t, o, d, rows)
      b == [s.b EXCEPT !.led = paid]
      projected == IF SideOf(t) = "Buy" THEN ProjectEntry(b, t, d)
                   ELSE ProjectExit(b, t, d)
      clamp == IF paid.balance # s.b.led.balance + CashDue(t, d) THEN {"clamped"} ELSE {}
  IN [b |-> projected.b, leaks |-> s.leaks \cup clamp \cup projected.leak]

\* record_delta: the row after a signed delta.
Moved(row, o, d) ==
  LET c == Smaller(AtLeastZero(row.filled + d), Size[o])
  IN [filled |-> c,
      status |-> IF row.status \in TerminalStatuses \/ c = 0 THEN row.status
                 ELSE IF c >= Size[o] THEN "Filled" ELSE "PartiallyFilled"]

\* One report for the order of t: the row, then its effects when the size moved.
Effects(t, d) ==
  LET o == TradeOrder[t]
      row == Moved(orders[o], o, d)
      rows == [orders EXCEPT ![o] = row]
      moves == row.filled - orders[o].filled
      s == ApplyDeltaEffects([b |-> books, leaks |-> leaks], t, o, moves, rows)
  IN /\ orders' = rows
     /\ IF moves = 0 THEN UNCHANGED <<books, leaks, booked>>
        ELSE /\ books' = s.b /\ leaks' = s.leaks
             /\ booked' = [booked EXCEPT ![t] = @ + (IF d > 0 THEN 1 ELSE -1)]

-----------------------------------------------------------------------------
(* Orders *)

\* The executor runs once it has seeded the balance.
Up == truth.last # None

\* place_pending and the POST: an entry passes the audit gate and reserves its
\* notional, an exit is placed for a position; the POST may not arrive.
Place(o, arrives) ==
  /\ Up
  /\ o \notin issued
  /\ IF o \in BuyOrders
     THEN /\ ~audit.halted
          /\ CanReserve(books.led, o, Price[o] * Size[o])
          /\ books' = [books EXCEPT !.led = Reserve(@, o, Price[o] * Size[o])]
     ELSE books.pos # None /\ UNCHANGED books
  /\ issued' = issued \cup {o}
  /\ orders' = [orders EXCEPT ![o] = [status |-> "Pending", filled |-> 0]]
  /\ resting' = IF arrives THEN resting \cup {o} ELSE resting
  /\ UNCHANGED <<bound, applied, watermark, executed, failed, moved, truth, audit,
                 events, booked, leaks, seen>>

\* confirm_live and bind_venue; a lost answer leaves the order unbound.
Confirm(o) ==
  /\ Up /\ o \in resting \cup {TradeOrder[t] : t \in executed}
  /\ Tracked(o) /\ o \notin bound
  /\ bound' = bound \cup {o}
  /\ orders' = IF orders[o].status = "Pending"
               THEN [orders EXCEPT ![o].status = "Live"] ELSE orders
  /\ UNCHANGED <<issued, applied, books, watermark, venue, truth, audit, events,
                 booked, leaks, seen>>

\* cancel, reject_live_result and force_close_order: release and status go
\* together; cancel looks at the order, not at its status, so a filled order
\* may still be cancelled.
End(o) ==
  /\ Tracked(o) /\ orders[o].status # "Ended"
  /\ books' = [books EXCEPT !.led = Release(@, o)]
  /\ orders' = [orders EXCEPT ![o].status = "Ended"]
  /\ UNCHANGED <<issued, bound, applied, watermark, venue, truth, audit, events,
                 booked, leaks, seen>>

-----------------------------------------------------------------------------
(* The venue *)

VenueDrop(o) ==
  /\ resting' = resting \ {o} /\ o \in resting
  /\ UNCHANGED <<ome, books, watermark, executed, failed, moved, truth, audit,
                 events, booked, leaks, seen>>

VenueShares ==
  SumOf([t \in executed \ failed |-> IF SideOf(t) = "Buy" THEN Qty[t] ELSE -Qty[t]])

\* Trades execute in the order of their times.
VenueExecute(t) ==
  /\ t \notin executed
  /\ \A u \in executed : Stamp[u] <= Stamp[t]
  /\ TradeOrder[t] = NoOrder \/ TradeOrder[t] \in resting
  /\ SideOf(t) = "Sell" => Qty[t] <= VenueShares
  /\ executed' = executed \cup {t}
  /\ UNCHANGED <<ome, books, watermark, resting, failed, moved, truth, audit,
                 events, booked, leaks, seen>>

VenueFail(t) ==
  /\ t \in executed \ failed /\ TradeOrder[t] # NoOrder
  /\ Happens
  /\ failed' = failed \cup {t}
  /\ UNCHANGED <<ome, books, watermark, resting, executed, moved, truth, audit,
                 booked, leaks, seen>>

\* Cash that moves with no trade: a withdrawal, a deposit, an unknown fill.
VenueMove(m) ==
  /\ m \notin moved
  /\ Happens
  /\ moved' = moved \cup {m}
  /\ UNCHANGED <<ome, books, watermark, resting, executed, failed, truth, audit,
                 booked, leaks, seen>>

VenueCash ==
  LET due == [t \in executed \ failed |-> CashDue(t, Qty[t])]
  IN Deposit + SumOf(due) + SumOf([m \in moved |-> m])

-----------------------------------------------------------------------------
(* Fills *)

\* Reports reach the order they name; unbound, the only live one of its side
\* (with several, Ome's resolution picks the newest).
Resolves(o) ==
  Tracked(o) /\ (o \in bound
                 \/ (Live(o) /\ \A p \in Orders : Live(p) =>
                                  (p = o \/ (p \in BuyOrders) # (o \in BuyOrders))))

IngestFill(t) ==
  /\ Up /\ t \in executed \ (failed \cup applied)
  /\ TradeOrder[t] # NoOrder /\ Resolves(TradeOrder[t])
  /\ applied' = applied \cup {t}
  /\ Effects(t, Qty[t])
  /\ UNCHANGED <<issued, bound, watermark, venue, truth, audit, events, seen>>

IngestFailed(t) ==
  /\ Up /\ t \in failed \cap applied
  /\ Resolves(TradeOrder[t])
  /\ applied' = applied \ {t}
  /\ Effects(t, -Qty[t])
  /\ UNCHANGED <<issued, bound, watermark, venue, truth, audit, events, seen>>

-----------------------------------------------------------------------------
(* The reconcile sweep: reconcile_for_venue *)

\* by_venue_or_id: the sweep knows an order by its venue id alone.
Known(t) == TradeOrder[t] # NoOrder /\ Tracked(TradeOrder[t]) /\ TradeOrder[t] \in bound

\* The venue lists its trades in any order.
Listings(S) == Bijection(1..Cardinality(S), S)

\* reconcile_scoped, first pass: the order table after each of the missed
\* trades q.
GapRows(q) ==
  LET rows[i \in 0..Len(q)] ==
        IF i = 0 THEN orders
        ELSE LET before == rows[i - 1]
                 o == TradeOrder[q[i]]
             IN  [before EXCEPT ![o] = Moved(before[o], o, Qty[q[i]])]
  IN  rows

\* How far the i-th missed trade moved its row.
GapDelta(q, run, i) ==
  LET o == TradeOrder[q[i]] IN run[i][o].filled - run[i - 1][o].filled

\* Second pass: a bound live order the venue no longer lists has ended.
Ghosts(rows) == {o \in bound \ resting : rows[o].status \in LiveStatuses}
GhostStatus(row, o) == IF row.filled >= Size[o] THEN "Filled" ELSE "Ended"
AfterGhosts(rows) ==
  [o \in Orders |-> IF o \in Ghosts(rows)
                    THEN [rows[o] EXCEPT !.status = GhostStatus(rows[o], o)]
                    ELSE rows[o]]

\* apply_external_fills, a SELL: never more than the position holds, and no
\* close credential.
FoldExternalSell(s, t) ==
  IF s.b.pos = None THEN s
  ELSE LET size == Smaller(Qty[t], s.b.pos.shares)
           paid == SettleSellFill(s.b.led, Px[t] * size, FeeOn(t, size))
           clamp == IF paid.balance # s.b.led.balance + CashDue(t, size)
                    THEN {"clamped"} ELSE {}
           b == [s.b EXCEPT !.led = paid]
           new == ExitFill(s.b.pos, t, size)
       IN [b |-> IF new.shares = 0 THEN Closed(b, new) ELSE [b EXCEPT !.pos = new],
           leaks |-> s.leaks \cup clamp, folded |-> s.folded \cup {t}]

FoldExternalBuy(s, t) ==
  LET n == ApplyDeltaEffects([b |-> s.b, leaks |-> s.leaks], t, NoOrder, Qty[t], orders)
  IN [b |-> n.b, leaks |-> n.leaks, folded |-> s.folded \cup {t}]

Fresh(page) == {t \in page : ~Known(t) /\ Stamp[t] > watermark}

\* The SELLs q first, then the BUYs p.
ApplyExternalFills(s, q, p) ==
  LET sold[i \in 0..Len(q)] ==
        IF i = 0 THEN s ELSE FoldExternalSell(sold[i - 1], q[i])
      bought[i \in 0..Len(p)] ==
        IF i = 0 THEN sold[Len(q)] ELSE FoldExternalBuy(bought[i - 1], p[i])
  IN  bought[Len(p)]

\* resolve_place_timeouts: the verdict budget of an unacknowledged order is up.
Expirable(rows) == {o \in Orders \ bound : rows[o].status = "Pending"}

ReleaseAll(l, ended) == [l EXCEPT !.res = [o \in Orders |-> IF o \in ended THEN 0 ELSE @[o]]]

\* Mutant: the sweep stamps the status alone.
SweepReleases(ghosts, expired) == expired

\* What the sweep releases: the ghosts that were not filled, and the timed out.
SweepEnds(ghosts, expired) == ghosts \cup expired

\* The deltas of the missed trades q reach the books once the whole pass has
\* left the table as rows.
GapEffects(q, run, rows) ==
  LET s[i \in 0..Len(q)] ==
        IF i = 0 THEN [b |-> books, leaks |-> leaks]
        ELSE IF GapDelta(q, run, i) = 0 THEN s[i - 1]
        ELSE ApplyDeltaEffects(s[i - 1], q[i], TradeOrder[q[i]],
                               GapDelta(q, run, i), rows)
  IN  s[Len(q)]

\* The sweep's effects, the trades listed as q, sells and buys.
SweepListed(q, sells, buys, expired) ==
  LET run == GapRows(q)
      swept == run[Len(q)]
      rows == AfterGhosts(swept)
      s == GapEffects(q, run, rows)
      e == ApplyExternalFills([b |-> s.b, leaks |-> s.leaks, folded |-> {}],
                              sells, buys)
      dropped == {o \in Ghosts(swept) : rows[o].status # "Filled"}
      hit == e.folded \cup {q[i] : i \in {j \in DOMAIN q : GapDelta(q, run, j) # 0}}
  IN /\ Range(q) \cup Range(sells) \cup Range(buys) \cup Ghosts(swept)
          \cup expired # {}
     /\ expired \subseteq Expirable(rows)
     /\ orders' = [o \in Orders |-> IF o \in expired THEN [rows[o] EXCEPT !.status = "Ended"]
                                    ELSE rows[o]]
     /\ books' = [e.b EXCEPT !.led = ReleaseAll(@, SweepEnds(dropped, expired))]
     /\ leaks' = e.leaks
     /\ booked' = [t \in Trades |-> booked[t] + (IF t \in hit THEN 1 ELSE 0)]

\* One sweep: the page of trades the venue answered with (an answer may lag),
\* the order list, and the place timeouts that are due.
Sweep(page, expired) ==
  LET gaps == {t \in page : Known(t) /\ t \notin applied}
      fresh == Fresh(page)
  IN /\ Up
     /\ \E q \in Listings(gaps),
           sells \in Listings({t \in fresh : SideOf(t) = "Sell"}),
           buys \in Listings({t \in fresh : SideOf(t) = "Buy"}) :
          SweepListed(q, sells, buys, expired)
     /\ applied' = applied \cup gaps
     /\ watermark' = Max({watermark} \cup {Stamp[t] : t \in fresh})
     /\ UNCHANGED <<issued, bound, venue, truth, audit, events, seen>>

-----------------------------------------------------------------------------
(* The venue's cash reports *)

UnexplainedCash == VenueCash - Facts(books.led.file)

\* realign_venue_cash with report_venue_cash_move: the detector judges the
\* report against the evidence window, then the ledger takes the figure over.
Realign(b) ==
  LET l == books.led
      adopt == l.balance = 0 /\ truth.last = None
      cursor == IF truth.cursor = None THEN 0 ELSE truth.cursor
      evicted == IF truth.cursor = None THEN 0 ELSE EvidenceGap(l, cursor)
      changed == truth.last # b
      previous == IF truth.last = None THEN l.balance ELSE truth.last
      residual == (b - previous) - WindowCashFacts(l, cursor)
      advance == adopt \/ evicted > 0 \/ changed
  IN /\ truth' = [last |-> b,
                  cursor |-> IF advance THEN l.total ELSE truth.cursor,
                  alert |-> IF adopt \/ evicted > 0 THEN truth.alert
                            ELSE IF residual = 0 THEN None ELSE residual,
                  free |-> b,
                  realign |-> IF l.balance = b THEN truth.realign
                              ELSE [delta |-> b - l.balance, spent |-> FALSE]]
     /\ books' = [books EXCEPT !.led = SetBalance(@, b)]
     /\ seen' = IF advance THEN [gap |-> UnexplainedCash, rows |-> Len(l.file)] ELSE seen
     /\ UNCHANGED <<ome, watermark, venue, audit, booked, leaks>>

\* seed_balance: the executor's first word after its start.
SeedBalance ==
  /\ ~Up
  /\ Realign(VenueCash)
  /\ UNCHANGED events

\* venue_free_balance: taken over only while nothing is reserved.
FoldVenueFree ==
  /\ Up
  /\ Happens
  /\ Reserved(books.led) = 0
  /\ books.led.balance # VenueCash
  /\ Realign(VenueCash)

-----------------------------------------------------------------------------
(* run_accounting_audit *)

Spent == IF books.pos = None THEN 0 ELSE books.pos.entryCost + books.pos.entryFee
Received == IF books.pos = None THEN 0 ELSE books.pos.proceeds - books.pos.exitFee

\* CashIdentity: constant between two audits unless the records part.
Basis == books.led.balance - books.realized + Spent - Received

ReservationsMatchOpenBuys ==
  \A o \in Orders : books.led.res[o] = IF o \in BuyOrders THEN Outstanding(orders, o) ELSE 0

\* stale: the correction is older than REALIGN_EXPLAIN_TTL_MS.
Audit(stale) ==
  LET residual == IF audit.anchor = None THEN 0 ELSE Basis - audit.anchor
      explained == /\ residual # 0 /\ truth.realign # None /\ ~stale
                   /\ truth.realign.delta = residual /\ ~truth.realign.spent
      structural == \/ Reserved(books.led) > books.led.balance
                    \/ ~ReservationsMatchOpenBuys
                    \/ residual # 0 /\ ~explained
      venueOk == truth.free = None \/ truth.free = books.led.balance - Reserved(books.led)
      ok == ~structural /\ residual = 0 /\ venueOk
      strikes == IF ok \/ structural THEN 0 ELSE Smaller(audit.strikes + 1, 2)
  IN /\ Happens
     /\ audit' = [anchor |-> IF audit.anchor = None /\ ~structural THEN Basis
                             ELSE audit.anchor,
                  halted |-> structural \/ strikes = 2,
                  strikes |-> strikes]
     /\ truth' = IF explained THEN [truth EXCEPT !.realign.spent = TRUE] ELSE truth
     /\ UNCHANGED <<ome, books, watermark, venue, booked, leaks, seen>>

-----------------------------------------------------------------------------
(* A restart *)

\* Mutant: the watermark is in memory only.
WatermarkLost == 0

WatermarkKept == watermark

\* attach_journals and restore_orders: the replayed cash, and the commitment
\* of every BUY that is still live.
RestoredLedger(l, rows) ==
  [ReplayJournal(l) EXCEPT
     !.res = [o \in Orders |-> IF o \in BuyOrders THEN Outstanding(rows, o) ELSE 0]]

\* Live rows come back, terminal ones are dropped; positions, trade log, close
\* credentials, applied table, journal and watermark are on disk.
Restart ==
  LET rows == [o \in Orders |-> IF Live(o) THEN orders[o]
                                ELSE [status |-> "Untracked", filled |-> 0]]
  IN /\ Happens
     /\ orders' = rows
     /\ bound' = {o \in bound : Live(o)}
     /\ books' = [books EXCEPT !.led = RestoredLedger(@, rows)]
     /\ watermark' = WatermarkKept
     /\ truth' = NoTruth
     /\ audit' = NoAudit
     /\ seen' = None
     /\ UNCHANGED <<issued, applied, venue, booked, leaks>>

Next ==
  \/ \E o \in Orders, arrives \in BOOLEAN : Place(o, arrives)
  \/ \E o \in Orders : Confirm(o) \/ End(o) \/ VenueDrop(o)
  \/ \E t \in Trades : VenueExecute(t) \/ VenueFail(t) \/ IngestFill(t)
                       \/ IngestFailed(t)
  \/ \E m \in Moves : VenueMove(m)
  \/ \E page \in {{}, executed \ failed}, expired \in SUBSET (Orders \ bound) :
       Sweep(page, expired)
  \/ SeedBalance \/ FoldVenueFree
  \/ \E stale \in BOOLEAN : Audit(stale)
  \/ Restart

Spec == Init /\ [][Next]_vars

-----------------------------------------------------------------------------
(* Properties *)

\* The types of all parts of the state.
TypeOK ==
  /\ orders \in [Orders -> OrderRows]
  /\ issued \subseteq Orders /\ bound \subseteq issued /\ applied \subseteq Trades
  /\ books.led \in Ledgers /\ books.pos \in Positions \cup {None}
  /\ books.realized \in Int /\ DOMAIN books.creds = Trades
  /\ watermark \in Nat
  /\ resting \subseteq Orders /\ failed \subseteq executed /\ executed \subseteq Trades
  /\ moved \subseteq Moves
  /\ audit.halted \in BOOLEAN /\ audit.strikes \in 0..2
  /\ events \in 0..MaxEvents
  /\ leaks \subseteq Leaks

\* Through fills, rollbacks, late fills of ended orders, sweeps, timeouts and
\* restarts the reservation table is exactly what the live BUYs still commit:
\* no residue survives an order and no order trades unreserved (ledger.rs:273,
\* service.rs:855, exits.rs:112).
ReservationsExact ==
  \A o \in Orders :
    books.led.res[o] = IF o \in BuyOrders /\ Live(o)
                       THEN Price[o] * (Size[o] - orders[o].filled) ELSE 0

\* Cash and trade records agree to the unit: apart from the venue's own
\* corrections, every unit of cash is realized, in the open position, or came
\* from one of the named departures - a floor, a dropped shell, the fee of a
\* rolled back close, an exit without a position (orders.rs:841, audit.rs:162).
CashIdentity == leaks = {} => Basis = Realigned(books.led.file)

\* A manual trade is folded into the book at most once, however often sweeps
\* report it and whatever restarts (service/accounts/reconcile.rs:536).
ManualFoldedOnce == \A t \in Trades : TradeOrder[t] = NoOrder => booked[t] <= 1

\* A report against an unbroken evidence window raises the alert exactly when
\* cash moved that no booked fact explains; once rows were evicted it says
\* nothing (service/accounts/mod.rs:232, issue 723).
DetectorExact ==
  [][seen # None /\ (SeedBalance \/ FoldVenueFree) =>
       IF Len(books.led.file) - seen.rows <= JournalCap
       THEN (truth'.alert # None) <=> (UnexplainedCash # seen.gap)
       ELSE truth'.alert = truth.alert]_vars

\* What reconcile.rs:116-119 says of the sweep: "applying per row [...] means a
\* fill the WS already booked is a no-op here and a missing one is booked exactly
\* once", and service/accounts/reconcile.rs:513 of its external half: "a restart
\* cannot re-apply what the sweep still reports".
BookedExactlyOnce == \A t \in Trades : booked[t] <= 1

-----------------------------------------------------------------------------
(* What the source says and the code does not keep; no run lists it *)

\* What audit.rs:208 says of a venue mismatch: it halts "only after it repeats
\* (a single stale read must not stop entries)" - an audit whose local records
\* agree does not halt entries while the venue really holds the book's cash.
StaleReadNeverHalts ==
  [][(\E stale \in BOOLEAN : Audit(stale)) /\ audit'.halted /\ ~audit.halted
       /\ Reserved(books.led) <= books.led.balance /\ ReservationsExact
       /\ Basis = audit.anchor
     => VenueCash # books.led.balance]_vars
=============================================================================
