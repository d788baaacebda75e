------------------------------- MODULE Ledger -------------------------------
(***************************************************************************)
(* The cash ledger of one account (ledger.rs) as operators on a record:    *)
(*                                                                         *)
(*   balance  cash, maintained incrementally                               *)
(*   res      notional reserved per BUY order; 0 stands for no entry       *)
(*   file     the durable journal, oldest row first                        *)
(*   total    journal_total: rows appended since the replay, plus what the *)
(*            replay kept                                                  *)
(*                                                                         *)
(* The rows held in memory are always the newest JournalCap rows of the    *)
(* file, so they are not kept apart.  Money is whole units; a row carries  *)
(* no time and no reference.                                               *)
(***************************************************************************)
EXTENDS Integers, Sequences, SequencesExt, Functions

CONSTANTS
  Orders,     \* ids of the orders
  JournalCap  \* JOURNAL_CAP

ASSUME JournalCapAssumption == JournalCap \in Nat \ {0}

Kinds == {"BuyFill", "SellFill", "Fee", "Realign"}
Rows == [kind : Kinds, amount : Int, after : Nat]
Ledgers == [balance : Nat, res : [Orders -> Nat], file : Seq(Rows), total : Nat]

EmptyLedger ==
  [balance |-> 0, res |-> [o \in Orders |-> 0], file |-> <<>>, total |-> 0]

AtLeastZero(x) == IF x < 0 THEN 0 ELSE x
Smaller(x, y) == IF x < y THEN x ELSE y

\* Mutant: the balance has no floor.
ApplyUnfloored(l, kind, requested) ==
  IF requested = 0 THEN l
  ELSE [l EXCEPT !.balance = @ + requested, !.total = @ + 1,
                 !.file = Append(@, [kind |-> kind, amount |-> requested,
                                     after |-> l.balance + requested])]

\* apply: the one entry of every balance change.  The balance has a floor of
\* zero, the row records the change that really happened, and a change of
\* zero leaves no row.
Apply(l, kind, requested) ==
  LET new == AtLeastZero(l.balance + requested)
      amount == new - l.balance
  IN IF amount = 0 THEN l
     ELSE [l EXCEPT !.balance = new, !.total = @ + 1,
                    !.file = Append(@, [kind |-> kind, amount |-> amount,
                                        after |-> new])]

SumOf(f) == FoldFunction(LAMBDA x, y : x + y, 0, f)

Reserved(l) == SumOf(l.res)
Available(l) == AtLeastZero(l.balance - Reserved(l))

\* reserve: a BUY that exceeds what is available is refused.
CanReserve(l, o, notional) == l.res[o] > 0 \/ notional <= Available(l)
Reserve(l, o, notional) == IF l.res[o] > 0 THEN l ELSE [l EXCEPT !.res[o] = notional]

Release(l, o) == [l EXCEPT !.res[o] = 0]

\* sync_buy_reservation: a set, never refused.
SyncBuyReservation(l, o, remaining) == [l EXCEPT !.res[o] = AtLeastZero(remaining)]

\* settle_buy_fill: the shares give up what they had reserved at the limit
\* price, as far as it is held, and cost what was paid.
SettleBuyFill(l, o, cost, released) ==
  LET draw == Smaller(AtLeastZero(released), l.res[o])
  IN Apply([l EXCEPT !.res[o] = @ - draw], "BuyFill", -cost)

SettleSellFill(l, proceeds, fee) == Apply(l, "SellFill", proceeds - fee)
ChargeFee(l, fee) == Apply(l, "Fee", -fee)

\* set_balance, apply_venue_report: the venue's figure replaces the balance.
SetBalance(l, b) == Apply(l, "Realign", AtLeastZero(b) - l.balance)

WindowLen(l) == Smaller(Len(l.file), JournalCap)

\* replay_journal at boot: the last row's balance, an empty reservation table,
\* and row numbers that start at what was loaded.
ReplayJournal(l) ==
  [balance |-> IF l.file = <<>> THEN 0 ELSE Last(l.file).after,
   res |-> [o \in Orders |-> 0],
   file |-> l.file,
   total |-> WindowLen(l)]

-----------------------------------------------------------------------------
(* The evidence window of a venue's cash reports (service/accounts/mod.rs) *)

\* What the rows of some kinds moved.
Amounts(rows, kinds) ==
  LET sum[i \in 0..Len(rows)] ==
        IF i = 0 THEN 0
        ELSE sum[i - 1] + (IF rows[i].kind \in kinds THEN rows[i].amount ELSE 0)
  IN  sum[Len(rows)]

FactKinds == Kinds \ {"Realign"}
Facts(rows) == Amounts(rows, FactKinds)
Realigned(rows) == Amounts(rows, {"Realign"})

Window(l) == SubSeq(l.file, Len(l.file) - WindowLen(l) + 1, Len(l.file))

\* Mutant: the cursor counts rows of the window, whose length stops growing.
WindowCashFactsByCount(l, cursor) ==
  Facts(SubSeq(Window(l), Smaller(cursor, WindowLen(l)) + 1, WindowLen(l)))

\* window_cash_facts: what the retained rows above the cursor moved.
WindowCashFacts(l, cursor) ==
  Facts(SubSeq(Window(l), AtLeastZero(cursor + WindowLen(l) - l.total) + 1,
               WindowLen(l)))

\* journal_evidence_gap: rows above the cursor that are no longer retained.
EvidenceGap(l, cursor) ==
  AtLeastZero(AtLeastZero(l.total - WindowLen(l)) - cursor)
    + AtLeastZero(cursor - l.total)
=============================================================================
