-------------------------------- MODULE Pair --------------------------------
(***************************************************************************)
(* The two legs of one arbitrage pair in one round: the pair book          *)
(* (pair.rs), an observer fed by order facts, the orphan sweep and its     *)
(* chase (service/accounts/sweeps.rs), and the escalation sweep, which     *)
(* share the core's tick.  The legs are the two outcomes of one market, or *)
(* opposite directions on two venues ("cross"), held by one account or     *)
(* stamped onto two ("split").  Every handler runs under the core lock, so *)
(* a handler is one step: an operator from the core's state to its next.   *)
(***************************************************************************)
EXTENDS Integers, Sequences, FiniteSets

CONSTANTS
  A, B,          \* the two leg tokens
  NoToken,       \* the empty token name
  Shapes,        \* the pairs explored, with the bound on their evaluation
                 \* cycles that submit: [cross, split : BOOLEAN, cycles : Nat]
  Size,          \* shares of an entry order
  Grace,         \* PAIR_LAND_GRACE_MS, in ticks
  ChaseWindow,   \* PAIR_CHASE_WINDOW_MS, in ticks
  MakerTimeout,  \* the maker leg's escalation delay, in ticks
  MaxBought,     \* bound: shares bought of a leg in the round
  MaxDeaths      \* bound: orders cancelled or refused from outside the tick

ASSUME PairAssumption ==
  /\ A # B /\ NoToken \notin {A, B}
  /\ Shapes \subseteq [cross : BOOLEAN, split : BOOLEAN, cycles : Nat]
  /\ {Size, Grace, ChaseWindow, MakerTimeout, MaxBought} \subseteq Nat \ {0}
  /\ MaxDeaths \in Nat

VARIABLES
  shape,    \* what kind of pair the strategy trades
  core,     \* the core: orders, positions, pair book, chase stamps
  expired,  \* the round is over
  bought,   \* history: shares bought of each leg
  first,    \* history: the book holds the round's first, unclosed pair
  spent     \* how much of the bounds on cycles and deaths is used

vars == <<shape, core, expired, bought, first, spent>>

Legs == {A, B}
Other(l) == IF l = A THEN B ELSE A

\* An order's slot doubles as its internal key.  "replaced" is an entry that
\* a requote under the same key retired.
BuyKinds == {"entry", "replaced", "escalated", "chase"}
Slots == (BuyKinds \cup {"flatten"}) \X Legs
NoKey == <<>>
NoClock == -1

\* The asks of the leg that is wanted: none, over the pair's budget, or fair.
Asks == {"none", "dear", "fair"}

\* What the checks of a BUY find: it passes, it lacks the cash the guard does
\* not ask about, or the guard itself refuses it.
Gates == {"open", "unfunded", "shut"}

NoOrder == [status |-> "none", open |-> FALSE, size |-> 0, filled |-> 0, clock |-> NoClock]
Leg(l) == [token |-> l, key |-> NoKey, filled |-> 0, dead |-> FALSE]
NoPair == [status |-> "none", naked |-> NoToken, legs |-> <<>>]

LiveStatuses == {"pending", "live"}
Live(s, k) == s.orders[k].status \in LiveStatuses
Held(s, l) == s.pos[l].shares > 0
IsOpen(p) == p.status \notin {"none", "Closed"}
Declared(p, l) == \E i \in DOMAIN p.legs : p.legs[i].token = l

-----------------------------------------------------------------------------
(* The pair book. *)

declare(p, l) ==
  IF ~IsOpen(p)
    THEN [status |-> "Pending", naked |-> NoToken, legs |-> <<Leg(l)>>]
    ELSE IF Declared(p, l) THEN p ELSE [p EXCEPT !.legs = Append(@, Leg(l))]

\* Only the first bind of a leg takes.
bind_by_leg(p, l, k) ==
  LET Bound(leg) == IF leg.token = l /\ leg.key = NoKey
                      THEN [leg EXCEPT !.key = k] ELSE leg
  IN  IF IsOpen(p)
        THEN [p EXCEPT !.legs = [i \in DOMAIN p.legs |-> Bound(p.legs[i])]]
        ELSE p

\* Mutant: the escalated order's key is never tied to the leg.
bind_continuation_lost(s, l) == [s EXCEPT !.cont[l] = NoKey]

\* The escalated order's key leads to the key its leg is bound to.  The key
\* is new with each escalation, so nothing is known of it but this.
bind_continuation(s, l) ==
  LET to == {i \in DOMAIN s.pair.legs : s.pair.legs[i].token = l}
  IN  [s EXCEPT !.cont[l] = IF IsOpen(s.pair) /\ to # {}
                              THEN s.pair.legs[CHOOSE i \in to : TRUE].key
                              ELSE NoKey]

Resolve(s, k) ==
  CASE k[1] = "replaced" -> <<"entry", k[2]>>
    [] k[1] = "escalated" /\ s.cont[k[2]] # NoKey -> s.cont[k[2]]
    [] OTHER -> k

\* The first of a set of legs, in the order they were declared.
FirstOf(p, is) ==
  IF is = {} THEN NoToken
  ELSE p.legs[CHOOSE i \in is : \A j \in is : i <= j].token

recompute_status(p) ==
  LET filled == {i \in DOMAIN p.legs : p.legs[i].filled > 0}
      dead   == {i \in DOMAIN p.legs : p.legs[i].dead}
  IN  CASE Cardinality(filled) = 2 ->
             [p EXCEPT !.status = "Complete", !.naked = NoToken]
        [] Cardinality(filled) = 1 ->
             [p EXCEPT !.status = "Partial",
                       !.naked = FirstOf(p, DOMAIN p.legs \ filled)]
        [] filled = {} /\ dead # {} ->
             [p EXCEPT !.status = "Orphan", !.naked = FirstOf(p, dead)]
        [] OTHER -> p

\* Facts about the orders ks: shares bought, or their death.  An order that
\* no leg of the open pair is bound to changes nothing.
on_order_event(s, ks, delta, dead) ==
  LET p    == s.pair
      keys == {Resolve(s, k) : k \in ks}
      hit  == {i \in DOMAIN p.legs : p.legs[i].key \in keys}
      Told(i) == IF i \in hit
                   THEN [p.legs[i] EXCEPT !.filled = @ + delta,
                                          !.dead = @ \/ dead]
                   ELSE p.legs[i]
  IN  IF IsOpen(p) /\ hit # {}
        THEN [s EXCEPT !.pair = recompute_status(
                [p EXCEPT !.legs = [i \in DOMAIN p.legs |-> Told(i)]])]
        ELSE s

close_by_token(p, l) ==
  IF IsOpen(p) /\ Declared(p, l)
    THEN [p EXCEPT !.status = "Closed", !.naked = NoToken] ELSE p

retire_before(p) ==
  IF IsOpen(p) THEN [p EXCEPT !.status = "Closed", !.naked = NoToken] ELSE p

-----------------------------------------------------------------------------
(* Orders. *)

Place(s, k, n) ==
  [s EXCEPT !.orders[k] = [NoOrder EXCEPT !.status = "pending",
                                          !.open = TRUE, !.size = n]]

\* An ended order: only what the venue may still fill of it is left to tell.
Over(o) ==
  [NoOrder EXCEPT !.status = "done", !.open = o.open,
                  !.size = IF o.open THEN o.size - o.filled ELSE 0]

\* An order the venue has closed too.  What later steps ask is whether the
\* leg was ever offered or chased, which the entry and the chase tell.
Finished(k) ==
  IF k[1] \in {"entry", "chase"} THEN [NoOrder EXCEPT !.status = "done"]
  ELSE NoOrder

Closed(s, k) == [s EXCEPT !.orders[k] = Finished(k)]

\* The core ends orders: the pair book hears of their death, and a leg whose
\* order was live may be emitted again.  The venue is told, and may still
\* fill them until it acts on it.
End(s, ks) ==
  LET ended == on_order_event(s, ks, 0, TRUE)
      wasLive == {k \in ks : Live(s, k)}
  IN  [ended EXCEPT
         !.orders = [k \in Slots |-> IF k \in ks THEN Over(@[k]) ELSE @[k]],
         !.pending = @ \ {k[2] : k \in wasLive}]

Spend(what, cap) == spent[what] < cap /\ spent' = [spent EXCEPT ![what] = @ + 1]

\* Bound: an intent is placed again only once the venue has closed the order
\* it ended, so that a slot stands for one order.
Settled(kinds, ls) ==
  \A kind \in kinds, l \in ls :
    core.orders[<<kind, l>>].status = "done" => ~core.orders[<<kind, l>>].open

-----------------------------------------------------------------------------
(* Entries: one evaluation cycle's submissions. *)

\* The other leg of a one-market pair that is held one-sided may be emitted
\* again (release_pair_completion_counterparts).
Released(s) ==
  IF shape.cross THEN s
  ELSE [s EXCEPT !.pending = @ \ {l \in Legs : Held(s, Other(l)) /\ ~Held(s, l)}]

\* can_open refuses a second position of the asset on the account, except to
\* complete or top up a position of the same market.
Admitted(s, l) ==
  LET here == IF shape.split THEN {l} ELSE Legs
      market == IF shape.cross THEN {l} ELSE Legs
  IN  \/ \A m \in here : ~Held(s, m)
      \/ \E m \in market : Held(s, m) /\ (m # l \/ s.pos[m].shares < Size)

is_naked_leg_requote(s, l) == ~shape.cross /\ Held(s, Other(l)) /\ ~Held(s, l)

\* The requote of a naked leg: the resting order is cancelled and keeps its
\* key until the venue closes it, and the new one takes the key.
Requote(s, l) ==
  LET e == <<"entry", l>>
      ended == End(s, {e})
  IN  Place([ended EXCEPT !.orders[<<"replaced", l>>] = ended.orders[e]],
            e, Size)

\* The key is bound before the order is placed, and stays bound if it is not.
SubmitEntry(s, l, gate, differs) ==
  LET e     == <<"entry", l>>
      bound == [s EXCEPT !.pair = bind_by_leg(@, l, e)]
      Noted(t) == [t EXCEPT !.pending = @ \cup {l}]
  IN  IF gate # "open" \/ ~Admitted(s, l) THEN bound
      ELSE IF ~Live(s, e) THEN Noted(Place(bound, e, Size))
      ELSE IF ~is_naked_leg_requote(s, l) THEN bound
      ELSE IF differs THEN Noted(Requote(bound, l)) ELSE Noted(bound)

\* ls survive the pre-check and are declared; the policy lets sub through.
Evaluate(ls, sub, gate, differs) ==
  LET s0 == Released(core)
      Decl(p, l) == IF l \in ls THEN declare(p, l) ELSE p
      s1 == [s0 EXCEPT !.pair = Decl(Decl(@, A), B)]
      Sub(s, l) == IF l \in sub THEN SubmitEntry(s, l, gate, differs) ELSE s
  IN  /\ ~expired /\ ls # {} /\ sub \subseteq ls
      /\ ls \cap s0.pending = {}
      /\ Settled({"entry", "replaced", "escalated"}, sub)
      /\ \A l \in sub : ~Live(core, <<"escalated", l>>)
      /\ core' = Sub(Sub(s1, A), B)
      /\ Spend("cycles", shape.cycles)
      /\ UNCHANGED <<shape, expired, bought, first>>

-----------------------------------------------------------------------------
(* What the venue and the operator do to an order. *)

\* confirm_live of an entry, which rests: its escalation clock starts.  The
\* other orders are takers, filled or refused as they reach the venue.
Ack(l) ==
  /\ core.orders[<<"entry", l>>].status = "pending"
  /\ core' = [core EXCEPT !.orders[<<"entry", l>>].status = "live",
                          !.orders[<<"entry", l>>].clock = MakerTimeout]
  /\ UNCHANGED <<shape, expired, bought, first, spent>>

\* A fill, late ones of ended orders included.
Fill(k, n) ==
  LET o == core.orders[k]
      buy == k[1] # "flatten"
      done == o.filled + n = o.size
      told == IF buy THEN on_order_event(core, {k}, n, FALSE) ELSE core
      shares == core.pos[k[2]].shares + (IF buy THEN n ELSE -n)
  IN  /\ o.open /\ o.filled + n <= o.size
      /\ buy => bought[k[2]] + n <= MaxBought
      /\ core' = [told EXCEPT
           !.orders[k] = IF done THEN Finished(k)
                         ELSE [o EXCEPT !.filled = @ + n],
           !.pos[k[2]] = IF shares <= 0 THEN [shares |-> 0, age |-> 0]
                         ELSE [@ EXCEPT !.shares = shares]]
      /\ bought' = IF buy THEN [bought EXCEPT ![k[2]] = @ + n] ELSE bought
      /\ UNCHANGED <<shape, expired, first, spent>>

\* Cancelled by the operator or by reconciliation, or gone at the venue.
\* Cancelling an ended order repeats its bookkeeping.
Cancel(k, gone) ==
  LET ended == End(core, {k})
  IN  /\ core.orders[k].status # "none"
      /\ gone => Live(core, k)
      /\ core' = IF gone THEN Closed(ended, k) ELSE ended
      /\ Spend("deaths", MaxDeaths)
      /\ UNCHANGED <<shape, expired, bought, first>>

\* The venue acts on the cancel of an order the core has ended.
VenueClose(k) ==
  /\ core.orders[k].status = "done" /\ core.orders[k].open
  /\ core' = Closed(core, k)
  /\ UNCHANGED <<shape, expired, bought, first, spent>>

\* reject_live_result: a refused order; a maker entry that would have crossed
\* is placed again as a taker when the book and the guard allow.
Reject(k, ask, gate, wouldCross) ==
  LET gone == Closed(End(core, {k}), k)
      l == k[2]
      tied == bind_continuation(gone, l)
  IN  /\ core.orders[k].status = "pending" /\ core.orders[k].filled = 0
      /\ wouldCross => k[1] = "entry"
      /\ core' = IF ~wouldCross \/ ask = "none" THEN gone
                 ELSE IF gate # "open" THEN tied
                 ELSE Place(tied, <<"escalated", l>>, core.orders[k].size)
      /\ Spend("deaths", MaxDeaths)
      /\ UNCHANGED <<shape, expired, bought, first>>

-----------------------------------------------------------------------------
(* The tick. *)

\* A live SELL of the token is enough; otherwise the whole position is sold.
FlattenLeg(s, l) ==
  LET k == <<"flatten", l>>
  IN  IF ~Held(s, l) \/ Live(s, k) THEN s ELSE Place(s, k, s.pos[l].shares)

\* A chase stamp older than the window reads like none.
Aged(s) ==
  [s EXCEPT
     !.orders = [k \in Slots |->
                   [s.orders[k] EXCEPT !.clock = IF @ > 0 THEN @ - 1 ELSE @]],
     !.pos = [l \in Legs |->
                IF Held(s, l) /\ s.pos[l].age < Grace
                  THEN [s.pos[l] EXCEPT !.age = @ + 1] ELSE s.pos[l]],
     !.chased = [l \in Legs |-> IF @[l] \in 0..(ChaseWindow - 2)
                                  THEN @[l] + 1 ELSE NoClock]]

\* run_expiry_sweep: what rests on an expired round is force-closed.
ExpirySweep(s) ==
  IF ~expired THEN s
  ELSE End(s, {k \in BuyKinds \X Legs : Live(s, k)})

\* The leg's partner_token_id, the other outcome of its own market, is held
\* in the scope.
PartnerHeld(s, l) == ~shape.cross /\ ~shape.split /\ Held(s, Other(l))

\* Mutant: only the same-market partner completes the set.
OppositeHeldByPartner(s, l) == PartnerHeld(s, l)

\* The cross-venue completion set: the opposite direction of the asset, with
\* the same expiry, is held in the scope.
OppositeHeld(s, l) == ~shape.split /\ Held(s, Other(l))

\* A live BUY of partner_token_id in the scope.
PartnerArriving(s, l) ==
  /\ ~shape.cross /\ ~shape.split
  /\ \E kind \in BuyKinds : Live(s, <<kind, Other(l)>>)

IsOrphan(s, l) ==
  /\ Held(s, l) /\ s.pos[l].age = Grace /\ ~expired
  /\ ~PartnerHeld(s, l) /\ ~OppositeHeld(s, l) /\ ~PartnerArriving(s, l)

\* pair_chase_target: the scope's last BUY of a token that is neither the
\* naked leg nor its same-market partner.
HasChaseTarget(s, l) ==
  /\ shape.cross /\ ~shape.split
  /\ \E kind \in BuyKinds : s.orders[<<kind, Other(l)>>].status # "none"

\* pair_chase_missing_leg past the walk of the book: the attempt is stamped
\* before the guard and the placement have their say, and the engine refuses
\* a key that is live.
Offer(s, l, gate) ==
  LET k == <<"chase", Other(l)>>
      stamped == [s EXCEPT !.chased[l] = 0]
      placed == Place(stamped, k, s.pos[l].shares)
  IN  IF gate # "open" \/ Live(s, k) THEN [out |-> FALSE, st |-> stamped]
      ELSE [out |-> TRUE,
            st |-> [placed EXCEPT !.pair = bind_by_leg(@, Other(l), k)]]

\* Mutant: the attempt is stamped before the book is asked.
ChasedStampedFirst(s, l, ask, gate) ==
  IF ~HasChaseTarget(s, l) THEN [out |-> FALSE, st |-> s]
  ELSE IF ask # "fair" THEN [out |-> FALSE, st |-> [s EXCEPT !.chased[l] = 0]]
  ELSE Offer(s, l, gate)

\* Whether the missing leg is offered again, and the state after trying: the
\* asks must cover the naked size within what the pair may cost.
Chased(s, l, ask, gate) ==
  IF HasChaseTarget(s, l) /\ ask = "fair" THEN Offer(s, l, gate)
  ELSE [out |-> FALSE, st |-> s]

InWindow(s, l) == s.chased[l] # NoClock

\* One scope of run_pair_orphan_sweep.  The legs of a scope are never both
\* naked, so a leg at a time is a scope at a time.
SweepLeg(s, l, ask, gate) ==
  LET c == Chased(s, l, ask, gate)
      flat == FlattenLeg(c.st, l)
  IN  IF ~IsOrphan(s, l) THEN s
      ELSE IF c.out \/ InWindow(c.st, l) THEN c.st
      ELSE [flat EXCEPT !.pair = close_by_token(@, l), !.chased[l] = NoClock]

\* run_escalation_sweep for the leg's entry: without depth, or against the
\* guard, the maker keeps resting and its clock is set again.
Escalate(s, l, ask, gate) ==
  LET e == <<"entry", l>>
      tied == bind_continuation(s, l)
      Rearm(t) == [t EXCEPT !.orders[e].clock = MakerTimeout]
      ended == End(tied, {e})
  IN  IF ~(Live(s, e) /\ s.orders[e].clock = 0) THEN s
      ELSE IF ask = "none" THEN Rearm(s)
      ELSE IF gate = "shut" THEN Rearm(tied)
      ELSE IF gate = "unfunded" THEN ended
      ELSE Place(ended, <<"escalated", l>>,
                 s.orders[e].size - s.orders[e].filled)

\* The sweeps in their order.  Each is named by a bound variable, so that TLC
\* computes it once.
Tick(ask, gate) ==
  /\ Settled({"chase", "flatten"}, Legs)
  /\ UNCHANGED <<shape, expired, bought, spent>>
  /\ \E s1 \in {ExpirySweep(Aged(core))} :
     \E s2 \in {SweepLeg(s1, A, ask, gate)} :
     \E s3 \in {SweepLeg(s2, B, ask, gate)} :
     \E s4 \in {Escalate(s3, A, ask, gate)} :
     \E s5 \in {Escalate(s4, B, ask, gate)} :
       /\ core' = s5
       /\ first' = (first /\ s5.pair.status # "Closed")

-----------------------------------------------------------------------------
(* The surroundings. *)

\* The round's clock runs out.  Nothing is emitted or chased for it any more,
\* so the marks that would hold it back are dropped; bound: what still rests
\* is ended by the tick.
Expire ==
  /\ ~expired /\ expired' = TRUE
  /\ core' = [core EXCEPT !.pending = {}, !.chased = [l \in Legs |-> NoClock]]
  /\ spent' = [cycles |-> shape.cycles, deaths |-> MaxDeaths]
  /\ UNCHANGED <<shape, bought, first>>

\* The next round's markets arrive: the old round's pairs are closed, and the
\* tokens it suppressed are forgotten with it.
RoundMarkets ==
  /\ expired /\ IsOpen(core.pair)
  /\ core' = [core EXCEPT !.pair = retire_before(@)]
  /\ first' = FALSE
  /\ UNCHANGED <<shape, expired, bought, spent>>

Init ==
  /\ shape \in Shapes
  /\ core = [orders |-> [k \in Slots |-> NoOrder],
             pos |-> [l \in Legs |-> [shares |-> 0, age |-> 0]],
             pair |-> NoPair, cont |-> [l \in Legs |-> NoKey],
             chased |-> [l \in Legs |-> NoClock], pending |-> {}]
  /\ expired = FALSE
  /\ bought = [l \in Legs |-> 0] /\ first = TRUE
  /\ spent = [cycles |-> 0, deaths |-> 0]

Ticks(asks) == \E a \in asks, g \in Gates : Tick(a, g)

Next ==
  \/ \E ls, sub \in SUBSET Legs, g \in Gates, d \in BOOLEAN :
       Evaluate(ls, sub, g, d)
  \/ \E l \in Legs : Ack(l)
  \/ \E k \in Slots, n \in 1..MaxBought : Fill(k, n)
  \/ \E k \in Slots, gone \in BOOLEAN : Cancel(k, gone)
  \/ \E k \in Slots : VenueClose(k)
  \/ \E k \in Slots, a \in Asks, g \in Gates, x \in BOOLEAN : Reject(k, a, g, x)
  \/ Ticks(Asks)
  \/ Expire \/ RoundMarkets

\* The tick is driven by the core's timer; the venue acts on cancels.
Spec == Init /\ [][Next]_vars /\ WF_vars(Ticks(Asks))
             /\ WF_vars(\E k \in Slots : VenueClose(k))

-----------------------------------------------------------------------------
(* Properties. *)

Keys == {NoKey} \cup {<<kind, l>> : kind \in {"entry", "chase"}, l \in Legs}

\* Every part of the core's state keeps its type; in particular a pair never
\* has a third leg, and a naked token is named only while it is one's status.
TypeOK ==
  /\ shape \in Shapes
  /\ core.orders \in [Slots -> [status : {"none", "done"} \cup LiveStatuses,
                                open : BOOLEAN, size : 0..MaxBought,
                                filled : 0..MaxBought,
                                clock : {NoClock} \cup 0..MakerTimeout]]
  /\ core.pos \in [Legs -> [shares : 0..MaxBought, age : 0..Grace]]
  /\ core.pair.status \in {"none", "Pending", "Partial", "Complete", "Orphan", "Closed"}
  /\ core.pair.naked # NoToken => core.pair.status \in {"Partial", "Orphan"}
  /\ Len(core.pair.legs) <= 2
  /\ \A i \in DOMAIN core.pair.legs :
       core.pair.legs[i] \in [token : Legs, key : Keys, filled : 0..MaxBought,
                              dead : BOOLEAN]
  /\ core.cont \in [Legs -> Keys]
  /\ core.chased \in [Legs -> NoClock..(ChaseWindow - 1)]
  /\ core.pending \subseteq Legs
  /\ expired \in BOOLEAN
  /\ bought \in [Legs -> 0..MaxBought] /\ first \in BOOLEAN
  /\ spent \in [cycles : 0..shape.cycles, deaths : 0..MaxDeaths]

\* No fact is lost on the way to the pair book (on_order_event, the
\* continuations): while the round's first pair is open, a leg that was not
\* chased shows every share bought of it, through its entry, re-entries,
\* requotes and escalations, late fills of the orders they ended included.
FillsReachTheBook ==
  first /\ IsOpen(core.pair)
    => \A i \in DOMAIN core.pair.legs :
         LET leg == core.pair.legs[i]
         IN  core.orders[<<"chase", leg.token>>].status = "none"
               => leg.filled = bought[leg.token]

\* A tick places a SELL for the leg, or chases its counterpart.
Unwound(l) == ~Live(core, <<"flatten", l>>) /\ Live(core', <<"flatten", l>>)
ChaseSent(l) == ~Live(core, <<"chase", l>>) /\ Live(core', <<"chase", l>>)

\* The orphan sweep never sells a leg of a pair that has landed: whatever
\* filled, died or was requoted before, a leg it unwinds is the only one its
\* scope holds (the #427 completion-set clause of run_pair_orphan_sweep).
LandedPairKept ==
  [][\A l \in Legs :
       Unwound(l) => shape.split \/ ~Held(core, Other(l))]_vars

\* A naked leg whose counterpart stays out of the pair's budget does not stay:
\* it is flattened, or stops being naked (the infeasible arm of the sweep).
NakedLegUnwound ==
  \A l \in Legs :
    \/ []<><<Ticks({"fair"})>>_vars
    \/ IsOrphan(core, l) ~> (~IsOrphan(core, l) \/ Live(core, <<"flatten", l>>))

\* What sweeps.rs says of the sweep: "a partner with a still-breathing entry
\* order is not orphaned (its leg is arriving)".  A tick neither unwinds a leg
\* nor buys its counterpart again while a BUY of the counterpart is live.
ArrivingLegSpared ==
  [][\A l \in Legs :
       Unwound(l) \/ ChaseSent(Other(l))
         => shape.split \/ ~\E kind \in BuyKinds : Live(core, <<kind, Other(l)>>)]_vars

=============================================================================
