----------------------------- MODULE Settlement -----------------------------
(***************************************************************************)
(* Settlement and redemption (settlement.rs and                             *)
(* service/settlement_orders/settlement.rs): the watch list of markets that *)
(* need a verdict, the booking of a resolved position into a redemption     *)
(* claim, the close that follows it write by write, the redemption attempts *)
(* the executor runs off its loop, the expiry fallback, and a restart that  *)
(* replays the settlement journal over the position snapshot.               *)
(*                                                                          *)
(* Abstractions, all of data:                                               *)
(*  - a position is identified with its settlement key (market, token and    *)
(*    entry time), and every position that is open is past its expiry;       *)
(*  - amounts are counted by the positions that carry them: a claim is the   *)
(*    set of its legs, Worth tells the paying legs from the worthless ones;  *)
(*  - the claim id "m" is <<m, 0>> and "m#k" is <<m, k>>;                     *)
(*  - clocks are left out: a query that was sent may be due again, a silent  *)
(*    market past its bound and a claim past its backoff at any time;        *)
(*  - merges of complete pairs keep claims of their own and are left out;    *)
(*    ordinary exits leave the book before settlement has a say;             *)
(*  - the ledger is in memory and re-seeded at a start, so what was credited *)
(*    is kept as history.                                                    *)
(***************************************************************************)
EXTENDS Integers, Sequences, FiniteSets

CONSTANTS
  Positions, Accounts, Markets,
  AccountOf, MarketOf,   \* attributes of a position
  Worth,                 \* payout per share of the position's token
  MaxFlight,             \* bound on attempts under way for one claim
  MaxFaults,             \* bound on lost answers, partial ones, failed attempts
  MaxStops,              \* bound on stops of the process
  NoAccount, NoClaim, NoPosition, Unsettled

ASSUME PositionAttributes ==
  /\ AccountOf \in [Positions -> Accounts]
  /\ MarketOf \in [Positions -> Markets]
  /\ Worth \in [Positions -> Nat]
  /\ IsFiniteSet(Positions)
ASSUME SettlementBounds ==
  /\ MaxFlight \in Nat \ {0} /\ MaxFaults \in Nat /\ MaxStops \in Nat
ASSUME NoNames ==
  /\ NoAccount \notin Accounts /\ NoPosition \notin Positions
  /\ NoClaim \notin Markets \X Nat
  /\ Unsettled \notin (Markets \X Nat) \cup {NoClaim}

ClaimIds == Markets \X (0..Cardinality(Positions))

\* The SettlementBook: `record` is the claim a settled position went into, if
\* any, `legs` and `owner` are the open claims, `used` counts redeemed ones.
Books ==
  [record : [Positions -> ClaimIds \cup {NoClaim, Unsettled}],
   closed : SUBSET Positions,
   legs : [ClaimIds -> SUBSET Positions],
   owner : [ClaimIds -> Accounts \cup {NoAccount}],
   used : [Markets -> Nat]]
EmptyBook ==
  [record |-> [p \in Positions |-> Unsettled], closed |-> {},
   legs |-> [c \in ClaimIds |-> {}], owner |-> [c \in ClaimIds |-> NoAccount],
   used |-> [m \in Markets |-> 0]]

JournalLines ==
  [kind : {"settlement"}, position : Positions, claim : ClaimIds \cup {NoClaim}]
    \cup [kind : {"closed"}, position : Positions]
    \cup [kind : {"redeemed"}, claim : ClaimIds]

VARIABLES
  born,      \* positions that were ever opened
  open,      \* the open positions in memory
  book,      \* the SettlementBook
  watch,     \* per market: not tracked, never answered, or answered
  manual,    \* claims no retry can land
  snap,      \* the position snapshot on disk
  journal,   \* the settlement journal on disk
  trades,    \* trade records on disk, per position
  job,       \* the handler that holds the core lock, and how far it got
  asked,     \* queries the venue has not answered yet
  unverified,\* positions closed with the source "fallback"
  resolved,  \* markets the venue has resolved
  flight,    \* redemption attempts under way per claim
  faults, stops,
  credited,  \* history: redemption credits per position
  fallback,  \* history: fallback credits per position
  torn       \* history: positions closed in memory but not on disk at a stop

disk == <<snap, journal, trades>>
venue == <<asked, resolved, flight>>
bounds == <<faults, stops>>
history == <<credited, fallback, torn>>
vars == <<born, open, book, watch, manual, disk, job, unverified, venue, bounds,
          history>>

Jobs ==
  [kind : {"idle", "settle", "fallback", "recover"}, markets : SUBSET Markets,
   todo : SUBSET Positions, at : Positions \cup {NoPosition},
   step : {"pick", "trade", "closed", "save"}, unpriced : BOOLEAN]
Idle == [kind |-> "idle", markets |-> {}, todo |-> {}, at |-> NoPosition,
         step |-> "pick", unpriced |-> FALSE]
Applied(p) == book.record[p] # Unsettled
OpenClaims == {c \in ClaimIds : book.legs[c] # {}}
On(m) == {p \in open : MarketOf[p] = m}

Init ==
  /\ born = {} /\ open = {} /\ book = EmptyBook
  /\ watch = [m \in Markets |-> "none"]
  /\ manual = {}
  /\ snap = {} /\ journal = <<>> /\ trades = [p \in Positions |-> 0]
  /\ job = Idle /\ unverified = {}
  /\ asked = {} /\ resolved = {} /\ flight = [c \in ClaimIds |-> 0]
  /\ faults = 0 /\ stops = 0
  /\ credited = [p \in Positions |-> 0]
  /\ fallback = [p \in Positions |-> 0]
  /\ torn = {}

\* A fill opens the position, and the snapshot is rewritten.
OpenPosition(p) ==
  /\ job = Idle /\ p \notin born
  /\ born' = born \cup {p}
  /\ open' = open \cup {p}
  /\ snap' = open'
  /\ UNCHANGED <<unverified, book, watch, manual, journal, trades, job, venue,
                 bounds, history>>

-----------------------------------------------------------------------------
(* Queries and verdicts *)

\* take_settlement_queries: sync_settlement_watch first forgets markets without
\* a position and tracks the others, then the due queries go out. A market is
\* due at once when it is new, and sooner or later when it was asked before.
TakeSettlementQueries ==
  LET held == {MarketOf[p] : p \in open}
  IN /\ job = Idle
     /\ watch' = [m \in Markets |-> IF m \notin held THEN "none"
                                    ELSE IF watch[m] = "none" THEN "silent"
                                    ELSE watch[m]]
     /\ asked' = asked \cup held
     /\ UNCHANGED <<born, unverified, open, book, manual, disk, job, resolved,
                    flight, bounds, history>>

VenueResolves(m) ==
  /\ m \notin resolved
  /\ resolved' = resolved \cup {m}
  /\ UNCHANGED <<born, unverified, open, book, watch, manual, disk, job, asked,
                 flight, bounds, history>>

\* The venue call fails, or its answer does not list the market.
AnswerLost(m) ==
  /\ m \in asked /\ faults < MaxFaults
  /\ faults' = faults + 1
  /\ asked' = asked \ {m}
  /\ UNCHANGED <<born, unverified, open, book, watch, manual, disk, job,
                 resolved, flight, stops, history>>

NoteAnswer(m) ==
  IF watch[m] = "none" THEN watch ELSE [watch EXCEPT ![m] = "answered"]
Forgotten(ms) == [m \in Markets |-> IF m \in ms THEN "none" ELSE watch[m]]

NotResolvedYet(m) ==
  /\ job = Idle /\ m \in asked \ resolved
  /\ asked' = asked \ {m}
  /\ watch' = NoteAnswer(m)
  /\ UNCHANGED <<born, unverified, open, book, manual, disk, job, resolved,
                 flight, bounds, history>>

\* on_market_resolution up to its loop. A resolution may price only some of
\* the tokens held.
OnMarketResolution(m) ==
  /\ job = Idle /\ m \in asked \cap resolved
  /\ asked' = asked \ {m}
  /\ \/ /\ On(m) = {}
        /\ watch' = Forgotten({m})
        /\ UNCHANGED <<job, faults>>
     \/ /\ On(m) # {}
        /\ watch' = NoteAnswer(m)
        /\ \E priced \in SUBSET On(m) :
             /\ faults' = IF priced = On(m) THEN faults ELSE faults + 1
             /\ faults' <= MaxFaults
             /\ job' = [Idle EXCEPT !.kind = "settle", !.markets = {m},
                          !.todo = priced, !.unpriced = priced # On(m)]
  /\ UNCHANGED <<born, unverified, open, book, manual, disk, resolved, flight,
                 stops, history>>

-----------------------------------------------------------------------------
(* Booking *)

\* Mutant: the redeemed claims of the market are not counted.
ClaimIdForUncounted(m) ==
  IF book.legs[<<m, 0>>] = {} THEN <<m, 0>> ELSE <<m, 1>>

\* claim_id_for: the market's plain id for its first claim, else the ordinal
\* after the claims redeemed so far.
ClaimIdFor(m) ==
  IF book.used[m] = 0 /\ book.legs[<<m, 0>>] = {} THEN <<m, 0>>
  ELSE <<m, book.used[m] + 1>>

\* The open claim of the position's market and account.
OwnClaim(p) ==
  {c \in OpenClaims : c[1] = MarketOf[p] /\ book.owner[c] = AccountOf[p]}

\* The claim p is booked into: a worthless leg only joins one that is open.
ClaimFor(p) ==
  IF OwnClaim(p) # {} THEN CHOOSE c \in OwnClaim(p) : TRUE
  ELSE IF Worth[p] > 0 THEN ClaimIdFor(MarketOf[p]) ELSE NoClaim

\* accumulate_claim: the first leg decides whose claim it is.
Accumulated(b, p, c) ==
  IF c = NoClaim THEN b
  ELSE [b EXCEPT !.legs[c] = @ \cup {p},
                 !.owner[c] = IF b.legs[c] = {} THEN AccountOf[p] ELSE @]

\* Mutant: a settlement that is already on the books is booked again.
BookAgain(p) ==
  [Accumulated(book, p, ClaimFor(p)) EXCEPT !.record[p] = ClaimFor(p)]

\* book: a key that is applied is refused.
Book(p) ==
  IF Applied(p) THEN book
  ELSE [Accumulated(book, p, ClaimFor(p)) EXCEPT !.record[p] = ClaimFor(p)]

\* Mutant: the worthless legs are booked first.
FirstOfWorthless(todo) == {p \in todo : \A q \in todo : Worth[p] <= Worth[q]}

\* Paying legs first.
FirstOf(todo) == {p \in todo : \A q \in todo : Worth[p] >= Worth[q]}

\* One turn of the loop: the settlement is committed to the journal before the
\* position is closed; a refused booking leaves the position alone.
Commit(p) ==
  /\ job.kind = "settle" /\ job.step = "pick" /\ p \in FirstOf(job.todo)
  /\ book' = Book(p)
  /\ IF book' = book
     THEN /\ job' = [job EXCEPT !.todo = @ \ {p}]
          /\ UNCHANGED journal
     ELSE /\ job' = [job EXCEPT !.todo = @ \ {p}, !.at = p, !.step = "trade"]
          /\ journal' = Append(journal, [kind |-> "settlement", position |-> p,
                                         claim |-> book'.record[p]])
  /\ UNCHANGED <<born, unverified, open, watch, manual, snap, trades, venue,
                 bounds, history>>

\* The close in memory and on_position_closed, which writes the trade record.
RecordTrade ==
  /\ job.step = "trade"
  /\ open' = open \ {job.at}
  /\ trades' = [trades EXCEPT ![job.at] = @ + 1]
  /\ job' = [job EXCEPT !.step = "closed"]
  /\ UNCHANGED <<born, unverified, book, watch, manual, snap, journal, venue,
                 bounds, history>>

\* note_closed; the settlement loop then saves the snapshot, the recovery goes
\* on to its next position.
NoteClosed ==
  /\ job.step = "closed"
  /\ book' = [book EXCEPT !.closed = @ \cup {job.at}]
  /\ journal' = Append(journal, [kind |-> "closed", position |-> job.at])
  /\ job' = [job EXCEPT !.step = IF job.kind = "settle" THEN "save" ELSE "pick"]
  /\ UNCHANGED <<born, unverified, open, watch, manual, snap, trades, venue,
                 bounds, history>>

PersistPositions ==
  /\ job.step = "save"
  /\ snap' = open
  /\ job' = [job EXCEPT !.step = "pick"]
  /\ UNCHANGED <<born, unverified, open, book, watch, manual, journal, trades,
                 venue, bounds, history>>

\* A market with an unpriced position stays watched; a verdict that priced all
\* of them also confirms the closed positions of the market
\* (backfill_fallback_to_venue).
SettleDone ==
  /\ job.kind = "settle" /\ job.step = "pick" /\ job.todo = {}
  /\ watch' = IF job.unpriced THEN watch ELSE Forgotten(job.markets)
  /\ unverified' = IF job.unpriced THEN unverified
                   ELSE {p \in unverified : MarketOf[p] \notin job.markets}
  /\ job' = Idle
  /\ UNCHANGED <<born, open, book, manual, disk, venue, bounds, history>>

-----------------------------------------------------------------------------
(* Positions no verdict will settle *)

\* run_expiry_fallback_sweep: markets asked about and never answered.
ExpiryFallback(ms) ==
  /\ job = Idle
  /\ ms \subseteq {m \in Markets : watch[m] = "silent"}
  /\ UNION {On(m) : m \in ms} # {}
  /\ job' = [Idle EXCEPT !.kind = "fallback", !.markets = ms,
               !.todo = UNION {On(m) : m \in ms}]
  /\ UNCHANGED <<born, unverified, open, book, watch, manual, disk, venue,
                 bounds, history>>

\* force_close_expired_position, by the operator.
ForceCloseExpired(p) ==
  /\ job = Idle /\ p \in open
  /\ job' = [Idle EXCEPT !.kind = "fallback", !.todo = {p}]
  /\ UNCHANGED <<born, unverified, open, book, watch, manual, disk, venue,
                 bounds, history>>

FallbackClose(p) ==
  /\ job.kind = "fallback" /\ p \in job.todo
  /\ open' = open \ {p}
  /\ fallback' = [fallback EXCEPT ![p] = @ + 1]
  /\ trades' = [trades EXCEPT ![p] = @ + 1]
  /\ unverified' = unverified \cup {p}
  /\ job' = [job EXCEPT !.todo = @ \ {p}]
  /\ UNCHANGED <<born, book, watch, manual, snap, journal, venue, bounds,
                 credited, torn>>

FallbackDone ==
  /\ job.kind = "fallback" /\ job.todo = {}
  /\ snap' = open
  /\ watch' = Forgotten({m \in job.markets : On(m) = {}})
  /\ job' = Idle
  /\ UNCHANGED <<born, unverified, open, book, manual, journal, trades, venue,
                 bounds, history>>

-----------------------------------------------------------------------------
(* Redemption *)

\* take_redemptions hands out a claim whose backoff is over, again if an
\* earlier attempt has not reported yet.
TakeRedemption(c) ==
  /\ job = Idle /\ c \in OpenClaims \ manual /\ flight[c] < MaxFlight
  /\ flight' = [flight EXCEPT ![c] = @ + 1]
  /\ UNCHANGED <<born, unverified, open, book, watch, manual, disk, job, asked,
                 resolved, bounds, history>>

Closed(b, c) ==
  [b EXCEPT !.legs[c] = {}, !.owner[c] = NoAccount, !.used[c[1]] = @ + 1]

\* note_confirmed and the credit; an unknown or redeemed claim is ignored.
RedemptionConfirmed(c) ==
  /\ job = Idle /\ flight[c] > 0
  /\ flight' = [flight EXCEPT ![c] = @ - 1]
  /\ IF c \in OpenClaims
     THEN /\ book' = Closed(book, c)
          /\ manual' = manual \ {c}
          /\ credited' =
               [p \in Positions |->
                  credited[p] + IF p \in book.legs[c] THEN 1 ELSE 0]
          /\ journal' = Append(journal, [kind |-> "redeemed", claim |-> c])
     ELSE UNCHANGED <<book, manual, credited, journal>>
  /\ UNCHANGED <<born, unverified, open, watch, snap, trades, job, asked,
                 resolved, bounds, fallback, torn>>

\* note_failure: the last failure decides whether retries go on; a claim that is
\* gone is left alone.
Parked(c) ==
  IF c \in OpenClaims THEN {manual \cup {c}, manual \ {c}} ELSE {manual}

RedemptionFailed(c) ==
  /\ job = Idle /\ flight[c] > 0 /\ faults < MaxFaults
  /\ faults' = faults + 1
  /\ flight' = [flight EXCEPT ![c] = @ - 1]
  /\ manual' \in Parked(c)
  /\ UNCHANGED <<born, unverified, open, book, watch, disk, job, asked,
                 resolved, stops, history>>

\* The task that waited for the receipt is gone.
ResultLost(c) ==
  /\ flight[c] > 0 /\ faults < MaxFaults
  /\ faults' = faults + 1
  /\ flight' = [flight EXCEPT ![c] = @ - 1]
  /\ UNCHANGED <<born, unverified, open, book, watch, manual, disk, job, asked,
                 resolved, stops, history>>

-----------------------------------------------------------------------------
(* Stop and restart *)

\* Mutant: a replayed redemption does not count.
ReplayUncounted(b, l) ==
  CASE l.kind = "settlement" ->
         [Accumulated(b, l.position, l.claim)
            EXCEPT !.record[l.position] = l.claim]
    [] l.kind = "closed" -> [b EXCEPT !.closed = @ \cup {l.position}]
    [] l.kind = "redeemed" ->
         [b EXCEPT !.legs[l.claim] = {}, !.owner[l.claim] = NoAccount]

\* SettlementBook::replay of one journal line.
Replay(b, l) ==
  CASE l.kind = "settlement" ->
         [Accumulated(b, l.position, l.claim)
            EXCEPT !.record[l.position] = l.claim]
    [] l.kind = "closed" -> [b EXCEPT !.closed = @ \cup {l.position}]
    [] l.kind = "redeemed" ->
         IF b.legs[l.claim] = {} THEN b ELSE Closed(b, l.claim)

\* The book after each line of the journal.
Replayed ==
  LET after[i \in 0..Len(journal)] ==
        IF i = 0 THEN EmptyBook ELSE Replay(after[i - 1], journal[i])
  IN after[Len(journal)]

\* Mutant: the settled positions of the snapshot are left to the next verdict.
RecoverNone(b, ps) == {}

\* Mutant: recovery closes every settled position it finds open.
RecoverAll(b, ps) == {p \in ps : b.record[p] # Unsettled}

\* recover: settlements that are committed but not marked closed.
Recover(b, ps) == {p \in ps : b.record[p] # Unsettled /\ p \notin b.closed}

\* The process stops, the journal is replayed, the snapshot loaded and
\* recover_settlements started.
Restart ==
  /\ stops < MaxStops
  /\ stops' = stops + 1
  /\ open' = snap
  /\ book' = Replayed
  /\ watch' = [m \in Markets |-> "none"] /\ manual' = {} /\ unverified' = {}
  /\ asked' = {} /\ flight' = [c \in ClaimIds |-> 0]
  /\ torn' = torn \cup (snap \ open)
  /\ job' = [Idle EXCEPT !.kind = "recover", !.todo = Recover(book', snap)]
  /\ UNCHANGED <<born, disk, resolved, faults, credited, fallback>>

RecoverNext(p) ==
  /\ job.kind = "recover" /\ job.step = "pick" /\ p \in job.todo
  /\ job' = [job EXCEPT !.todo = @ \ {p}, !.at = p, !.step = "trade"]
  /\ UNCHANGED <<born, unverified, open, book, watch, manual, disk, venue,
                 bounds, history>>

RecoverDone ==
  /\ job.kind = "recover" /\ job.step = "pick" /\ job.todo = {}
  /\ snap' = open
  /\ job' = Idle
  /\ UNCHANGED <<born, unverified, open, book, watch, manual, journal, trades,
                 venue, bounds, history>>

\* The steps of the handler that holds the lock.
HandlerStep ==
  \/ \E p \in Positions : Commit(p) \/ FallbackClose(p) \/ RecoverNext(p)
  \/ RecordTrade
  \/ NoteClosed
  \/ PersistPositions
  \/ SettleDone
  \/ FallbackDone
  \/ RecoverDone

Next ==
  \/ HandlerStep
  \/ \E p \in Positions : OpenPosition(p) \/ ForceCloseExpired(p)
  \/ TakeSettlementQueries
  \/ \E m \in Markets : \/ VenueResolves(m)
                        \/ AnswerLost(m)
                        \/ NotResolvedYet(m)
                        \/ OnMarketResolution(m)
  \/ \E ms \in SUBSET Markets : ExpiryFallback(ms)
  \/ \E c \in ClaimIds : \/ TakeRedemption(c)
                         \/ RedemptionConfirmed(c)
                         \/ RedemptionFailed(c)
                         \/ ResultLost(c)
  \/ Restart

\* A handler that holds the lock goes on; the executor loop asks and dispatches
\* in every turn and the core's lock is a fair queue; the venue answers, mines
\* what it was sent unless a fault is left, and resolves an expired market.
Spec ==
  /\ Init /\ [][Next]_vars
  /\ WF_vars(HandlerStep)
  /\ SF_vars(TakeSettlementQueries)
  /\ \A m \in Markets : /\ WF_vars(VenueResolves(m))
                        /\ SF_vars(OnMarketResolution(m))
  /\ SF_vars(\E c \in ClaimIds : TakeRedemption(c))
  /\ SF_vars(\E c \in ClaimIds : RedemptionConfirmed(c))

-----------------------------------------------------------------------------
(* Properties *)

TypeOK ==
  /\ open \subseteq born /\ snap \subseteq born /\ born \subseteq Positions
  /\ book \in Books
  /\ watch \in [Markets -> {"none", "silent", "answered"}]
  /\ manual \subseteq OpenClaims
  /\ journal \in Seq(JournalLines)
  /\ trades \in [Positions -> Nat]
  /\ job \in Jobs /\ job.todo \subseteq open
  /\ unverified \subseteq Positions
  /\ asked \cup resolved \subseteq Markets
  /\ flight \in [ClaimIds -> 0..MaxFlight]
  /\ faults \in 0..MaxFaults /\ stops \in 0..MaxStops
  /\ credited \in [Positions -> Nat] /\ fallback \in [Positions -> Nat]
  /\ torn \subseteq Positions

\* The journal alone rebuilds the book: whatever was settled, closed or
\* redeemed, in whichever order and across restarts, a replay yields the same
\* claims, owners and claim counts as the running book (SettlementBook::new).
ReplayFaithful == book = Replayed

\* A settled position's payout is owed or paid, and never both: it sits in one
\* open claim, or its claim was credited, exactly once, however often the
\* verdict or the success is delivered and wherever a restart falls.
PaidOnce ==
  \A p \in Positions :
    LET owed == Cardinality({c \in ClaimIds : p \in book.legs[c]})
    IN /\ ~ Applied(p) => owed + credited[p] = 0
       /\ Applied(p) /\ Worth[p] > 0 => owed + credited[p] = 1

\* A position gets its money over one channel: a claim or the fallback credit
\* (run_expiry_fallback_sweep, force_close_expired_position), not both, unless
\* a stop brought it back after it was closed.
OneChannel ==
  \A p \in Positions \ torn :
    LET owed == Cardinality({c \in ClaimIds : p \in book.legs[c]})
    IN owed + credited[p] + fallback[p] <= 1

\* A worthless leg that is settled without a claim has no paying sibling of its
\* account left in the same verdict, whose claim it would have to ride in.
LegsTogether ==
  [][\A p \in Positions :
       book.record[p] = Unsettled /\ book'.record[p] = NoClaim
         => ~ \E q \in job.todo : /\ Worth[q] > 0 /\ ~ Applied(q)
                                 /\ AccountOf[q] = AccountOf[p]]_vars

\* Once a position's close is durable (the Closed line), settlement and its
\* recovery write no second trade record for it.
ClosedNotRetraded ==
  [][\A p \in book.closed :
       trades'[p] = trades[p] \/ fallback'[p] > fallback[p]]_vars

\* The id of a redeemed claim is never given to another one, so a late success
\* report of the first cannot close the second.
RedeemedIdsRetired ==
  \A i \in 1..Len(journal) :
    journal[i].kind = "redeemed" => journal[i].claim \notin OpenClaims

\* Nothing stays behind: once the last position was opened, every expired
\* position leaves the open book and every claim is redeemed or parked for the
\* operator; a position whose close a stop tore is the exception.
AllSettled == <>[](open \subseteq torn /\ OpenClaims \subseteq manual)

-----------------------------------------------------------------------------
(* What the source says and the code does not keep; no run lists them *)

\* claim_id_for's promise: two accounts never share a claim id, so their
\* payouts stay attributable.
ClaimsAttributable ==
  \A c \in ClaimIds : \A p \in book.legs[c] : AccountOf[p] = book.owner[c]

\* restore_positions' promise: a settlement whose close never landed is finished
\* before anything trades.
FinishedBeforeTrading == job = Idle => ~ \E p \in open : Applied(p)

=============================================================================
