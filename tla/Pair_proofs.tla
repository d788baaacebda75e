---------------------------- MODULE Pair_proofs -----------------------------
(***************************************************************************)
(* Proofs about module Pair: the pair book of a round shows every share    *)
(* that was bought of a leg, and the orphan sweep sells no leg of a pair   *)
(* that has landed.                                                        *)
(***************************************************************************)
EXTENDS Pair, SequenceTheorems, WellFoundedInduction, TLAPS

-----------------------------------------------------------------------------
(* The shape of the core's state *)

OrderRecs == [status : {"none", "done"} \cup LiveStatuses, open : BOOLEAN,
              size : Int, filled : Int, clock : Int]
LegRecs == [token : Legs, key : Keys, filled : Int, dead : BOOLEAN]
PairRecs == [status : {"none", "Pending", "Partial", "Complete", "Orphan", "Closed"},
             naked : Legs \cup {NoToken}, legs : Seq(LegRecs)]
Cores == [orders : [Slots -> OrderRecs],
          pos : [Legs -> [shares : Int, age : Int]],
          pair : PairRecs, cont : [Legs -> Keys], chased : [Legs -> Int],
          pending : SUBSET Legs]

\* The slots are pairs of a kind and a leg.
LEMMA SlotFacts ==
  /\ \A k \in Slots : /\ k[2] \in Legs /\ k = <<k[1], k[2]>>
                      /\ k[1] \in BuyKinds \cup {"flatten"}
  /\ \A l \in Legs, kind \in BuyKinds \cup {"flatten"} : <<kind, l>> \in Slots
  /\ \A l \in Legs : /\ Other(l) \in Legs /\ Other(l) # l /\ Other(Other(l)) = l
                     /\ \A m \in Legs : m # l => m = Other(l)
  BY PairAssumption DEF Slots, BuyKinds, Legs, Other

\* The keys a leg can be bound to.
LEMMA KeyFacts ==
  /\ NoKey \in Keys
  /\ \A l \in Legs, kind \in {"entry", "chase"} :
       /\ <<kind, l>> \in Keys /\ <<kind, l>> # NoKey
  BY DEF Keys, NoKey

LEMMA OrderFields ==
  ASSUME NEW s \in Cores, NEW k \in Slots
  PROVE  /\ s.orders[k] \in OrderRecs
         /\ s.orders[k].status \in {"none", "done"} \cup LiveStatuses
         /\ s.orders[k].open \in BOOLEAN /\ s.orders[k].size \in Int
         /\ s.orders[k].filled \in Int /\ s.orders[k].clock \in Int
  BY DEF Cores, OrderRecs

\* A core with one of its parts replaced.
LEMMA CoreWith ==
  ASSUME NEW s \in Cores
  PROVE  /\ \A x \in [Slots -> OrderRecs] :
              LET t == [s EXCEPT !.orders = x] IN
              /\ t \in Cores /\ t.orders = x /\ t.pos = s.pos /\ t.pair = s.pair
              /\ t.cont = s.cont /\ t.chased = s.chased /\ t.pending = s.pending
         /\ \A x \in PairRecs :
              LET t == [s EXCEPT !.pair = x] IN
              /\ t \in Cores /\ t.pair = x /\ t.pos = s.pos /\ t.orders = s.orders
              /\ t.cont = s.cont /\ t.chased = s.chased /\ t.pending = s.pending
         /\ \A x \in SUBSET Legs :
              LET t == [s EXCEPT !.pending = x] IN
              /\ t \in Cores /\ t.pending = x /\ t.pos = s.pos /\ t.orders = s.orders
              /\ t.cont = s.cont /\ t.chased = s.chased /\ t.pair = s.pair
  BY DEF Cores

\* An order record with some of its fields replaced.
LEMMA OrderWith ==
  ASSUME NEW r \in OrderRecs
  PROVE  /\ \A n \in Int :
              LET o == [r EXCEPT !.status = "pending", !.open = TRUE, !.size = n] IN
              o \in OrderRecs /\ o.status = "pending" /\ o.open
         /\ LET o == [r EXCEPT !.status = "done"] IN
            o \in OrderRecs /\ o.status = "done" /\ o.open = r.open
         /\ \A n \in Int, b \in BOOLEAN :
              LET o == [r EXCEPT !.status = "done", !.open = b, !.size = n] IN
              o \in OrderRecs /\ o.status = "done" /\ o.open = b
         /\ \A n \in Int :
              LET o == [r EXCEPT !.filled = @ + n] IN
              o \in OrderRecs /\ o.status = r.status /\ o.open = r.open
         /\ \A n \in Int :
              LET o == [r EXCEPT !.clock = n] IN
              o \in OrderRecs /\ o.status = r.status /\ o.open = r.open
<1>1. ASSUME NEW n \in Int
      PROVE  LET o == [r EXCEPT !.status = "pending", !.open = TRUE, !.size = n] IN
             o \in OrderRecs /\ o.status = "pending" /\ o.open
  BY DEF OrderRecs, LiveStatuses
<1>2. LET o == [r EXCEPT !.status = "done"] IN
      o \in OrderRecs /\ o.status = "done" /\ o.open = r.open
  BY DEF OrderRecs
<1>3. ASSUME NEW n \in Int, NEW b \in BOOLEAN
      PROVE  LET o == [r EXCEPT !.status = "done", !.open = b, !.size = n] IN
             o \in OrderRecs /\ o.status = "done" /\ o.open = b
  BY DEF OrderRecs
<1>4. ASSUME NEW n \in Int
      PROVE  LET o == [r EXCEPT !.filled = @ + n] IN
             o \in OrderRecs /\ o.status = r.status /\ o.open = r.open
  BY DEF OrderRecs
<1>5. ASSUME NEW n \in Int
      PROVE  LET o == [r EXCEPT !.clock = n] IN
             o \in OrderRecs /\ o.status = r.status /\ o.open = r.open
  BY DEF OrderRecs
<1> QED
  BY <1>1, <1>2, <1>3, <1>4, <1>5

\* The record of a slot without an order.
LEMMA NoOrderRec ==
  /\ NoOrder \in OrderRecs /\ NoOrder.status = "none" /\ NoOrder.open = FALSE
  BY DEF OrderRecs, NoOrder, NoClock

\* An order newly placed.
LEMMA PlaceFacts ==
  ASSUME NEW s \in Cores, NEW k \in Slots, NEW n \in Int
  PROVE  LET t == Place(s, k, n) IN
         /\ t \in Cores
         /\ t.orders[k].status = "pending"
         /\ \A j \in Slots : j # k => t.orders[j] = s.orders[j]
         /\ t.pos = s.pos /\ t.pair = s.pair /\ t.cont = s.cont
         /\ t.chased = s.chased /\ t.pending = s.pending
<1> DEFINE o == [NoOrder EXCEPT !.status = "pending", !.open = TRUE, !.size = n]
<1>1. o \in OrderRecs /\ o.status = "pending"
  BY OrderWith, NoOrderRec
<1> HIDE DEF o
<1>2. Place(s, k, n) = [s EXCEPT !.orders[k] = o]
  BY DEF Place, o
<1> QED
  BY <1>1, <1>2 DEF Cores

\* What is left of an order that the core has ended.
LEMMA OverRec ==
  ASSUME NEW o \in OrderRecs
  PROVE  Over(o) \in OrderRecs /\ Over(o).status = "done" /\ Over(o).open = o.open
<1> DEFINE n == IF o.open THEN o.size - o.filled ELSE 0
<1>1. n \in Int /\ o.open \in BOOLEAN
  BY DEF OrderRecs
<1>2. Over(o) = [NoOrder EXCEPT !.status = "done", !.open = o.open, !.size = n]
  BY DEF Over
<1> HIDE DEF n
<1>3. \A m \in Int, b \in BOOLEAN :
        LET x == [NoOrder EXCEPT !.status = "done", !.open = b, !.size = m] IN
        x \in OrderRecs /\ x.status = "done" /\ x.open = b
  BY OrderWith, NoOrderRec, Zenon
<1>4. LET x == [NoOrder EXCEPT !.status = "done", !.open = o.open, !.size = n] IN
      x \in OrderRecs /\ x.status = "done" /\ x.open = o.open
  BY <1>1, <1>3, Zenon
<1> QED
  BY <1>2, <1>4, Zenon

\* What is left of an order that the venue has closed.
LEMMA FinishedRec ==
  ASSUME NEW k \in Slots
  PROVE  /\ Finished(k) \in OrderRecs
         /\ Finished(k).open = FALSE
         /\ Finished(k).status = IF k[1] \in {"entry", "chase"} THEN "done" ELSE "none"
<1>1. LET x == [NoOrder EXCEPT !.status = "done"] IN
      x \in OrderRecs /\ x.status = "done" /\ x.open = FALSE
  BY OrderWith, NoOrderRec, Zenon
<1> QED
  BY <1>1, NoOrderRec, Zenon DEF Finished

LEMMA ClosedFacts ==
  ASSUME NEW s \in Cores, NEW k \in Slots
  PROVE  LET t == Closed(s, k) IN
         /\ t \in Cores
         /\ t.orders[k] = Finished(k)
         /\ \A j \in Slots : j # k => t.orders[j] = s.orders[j]
         /\ t.pos = s.pos /\ t.pair = s.pair /\ t.cont = s.cont
         /\ t.chased = s.chased /\ t.pending = s.pending
<1>1. Finished(k) \in OrderRecs
  BY FinishedRec
<1>2. Closed(s, k) = [s EXCEPT !.orders[k] = Finished(k)]
  BY DEF Closed
<1> QED
  BY <1>1, <1>2 DEF Cores

-----------------------------------------------------------------------------
(* The pair book *)

\* A non-empty set of naturals has a least element.
LEMMA LeastIndex ==
  ASSUME NEW T \in SUBSET Nat, T # {}
  PROVE  \E x \in T : \A y \in T : x <= y
<1> DEFINE Less == {x \in Nat \X Nat : x[1] < x[2]}
<1>1. IsWellFoundedOn(Less, Nat)
  BY NatLessThanWellFounded DEF OpToRel
<1> HIDE DEF Less
<1>2. PICK x \in T : \A y \in T : <<y, x>> \notin Less
  BY <1>1, WFMin
<1>3. ASSUME NEW y \in T PROVE x <= y
  <2>1. ~(y < x)
    BY <1>2 DEF Less
  <2> QED
    BY <2>1
<1> QED
  BY <1>2, <1>3

LEMMA PairFields ==
  ASSUME NEW p \in PairRecs
  PROVE  /\ p.legs \in Seq(LegRecs) /\ DOMAIN p.legs = 1..Len(p.legs)
         /\ Len(p.legs) \in Nat
         /\ \A i \in DOMAIN p.legs :
              /\ p.legs[i] \in LegRecs /\ p.legs[i].token \in Legs
              /\ p.legs[i].key \in Keys /\ p.legs[i].filled \in Int
              /\ p.legs[i].dead \in BOOLEAN
<1>1. p.legs \in Seq(LegRecs)
  BY DEF PairRecs
<1>2. DOMAIN p.legs = 1..Len(p.legs) /\ Len(p.legs) \in Nat
  BY <1>1
<1>3. ASSUME NEW i \in DOMAIN p.legs PROVE p.legs[i] \in LegRecs
  BY <1>1, <1>2
<1> QED
  BY <1>1, <1>2, <1>3 DEF LegRecs

\* The legs of a pair, each with its record replaced.
LEMMA LegsReplaced ==
  ASSUME NEW p \in PairRecs, NEW f \in [DOMAIN p.legs -> LegRecs]
  PROVE  LET q == [p EXCEPT !.legs = f] IN
         /\ q \in PairRecs /\ q.legs = f /\ DOMAIN q.legs = DOMAIN p.legs
         /\ q.status = p.status
<1>1. f \in Seq(LegRecs) /\ DOMAIN f = DOMAIN p.legs
  BY PairFields
<1> QED
  BY <1>1 DEF PairRecs

LEMMA FirstOfType ==
  ASSUME NEW p \in PairRecs, NEW is \in SUBSET DOMAIN p.legs
  PROVE  FirstOf(p, is) \in Legs \cup {NoToken}
<1>1. CASE is = {}
  BY <1>1 DEF FirstOf
<1>2. CASE is # {}
  <2>1. is \in SUBSET Nat
    BY PairFields
  <2>2. \E i \in is : \A j \in is : i <= j
    BY <1>2, <2>1, LeastIndex
  <2> DEFINE m == CHOOSE i \in is : \A j \in is : i <= j
  <2>3. m \in is
    BY <2>2
  <2>4. FirstOf(p, is) = p.legs[m].token
    BY <1>2 DEF FirstOf
  <2> HIDE DEF m
  <2> QED
    BY <2>3, <2>4, PairFields
<1> QED
  BY <1>1, <1>2

\* A new status of an open pair is one of an open pair.
LEMMA RecomputeFacts ==
  ASSUME NEW p \in PairRecs, IsOpen(p)
  PROVE  LET q == recompute_status(p) IN
         q \in PairRecs /\ q.legs = p.legs /\ IsOpen(q)
<1> DEFINE filled == {i \in DOMAIN p.legs : p.legs[i].filled > 0}
           dead == {i \in DOMAIN p.legs : p.legs[i].dead}
           rest == DOMAIN p.legs \ filled
           complete == [p EXCEPT !.status = "Complete", !.naked = NoToken]
           partial == [p EXCEPT !.status = "Partial", !.naked = FirstOf(p, rest)]
           orphan == [p EXCEPT !.status = "Orphan", !.naked = FirstOf(p, dead)]
<1>1. FirstOf(p, rest) \in Legs \cup {NoToken} /\ FirstOf(p, dead) \in Legs \cup {NoToken}
  BY FirstOfType
<1>2. complete \in PairRecs /\ complete.legs = p.legs /\ IsOpen(complete)
  BY DEF PairRecs, IsOpen
<1>3. partial \in PairRecs /\ partial.legs = p.legs /\ IsOpen(partial)
  BY <1>1 DEF PairRecs, IsOpen
<1>4. orphan \in PairRecs /\ orphan.legs = p.legs /\ IsOpen(orphan)
  BY <1>1 DEF PairRecs, IsOpen
<1>5. recompute_status(p) =
        CASE Cardinality(filled) = 2 -> complete
          [] Cardinality(filled) = 1 -> partial
          [] filled = {} /\ dead # {} -> orphan
          [] OTHER -> p
  BY DEF recompute_status
<1> HIDE DEF filled, dead, complete, partial, orphan
<1>6. recompute_status(p) \in {complete, partial, orphan, p}
  BY <1>5
<1> QED
  BY <1>2, <1>3, <1>4, <1>6
\* The core state t differs from s at most in its pair.
OnlyPair(s, t) ==
  /\ t \in Cores
  /\ t.orders = s.orders /\ t.pos = s.pos /\ t.cont = s.cont
  /\ t.chased = s.chased /\ t.pending = s.pending

\* The keys that facts about the orders ks resolve to.
ResolvedKeys(s, ks) == {Resolve(s, k) : k \in ks}

\* A fact about orders reaches the legs bound to their keys and nothing else.
LEMMA EventFacts ==
  ASSUME NEW s \in Cores, NEW ks, NEW delta \in Int, NEW dead \in BOOLEAN
  PROVE  LET t == on_order_event(s, ks, delta, dead) IN
         /\ OnlyPair(s, t)
         /\ IsOpen(t.pair) = IsOpen(s.pair)
         /\ ~IsOpen(s.pair) => t = s
         /\ DOMAIN t.pair.legs = DOMAIN s.pair.legs
         /\ \A i \in DOMAIN s.pair.legs :
              LET leg == s.pair.legs[i] IN
              /\ t.pair.legs[i].token = leg.token /\ t.pair.legs[i].key = leg.key
              /\ t.pair.legs[i].filled =
                   IF IsOpen(s.pair) /\ leg.key \in ResolvedKeys(s, ks)
                   THEN leg.filled + delta ELSE leg.filled
<1> DEFINE p == s.pair
           keys == ResolvedKeys(s, ks)
           hit == {i \in DOMAIN p.legs : p.legs[i].key \in keys}
           Told(i) == IF i \in hit
                        THEN [p.legs[i] EXCEPT !.filled = @ + delta, !.dead = @ \/ dead]
                        ELSE p.legs[i]
           f == [i \in DOMAIN p.legs |-> Told(i)]
           q == [p EXCEPT !.legs = f]
           t == on_order_event(s, ks, delta, dead)
<1>1. p \in PairRecs
  BY DEF Cores
<1>2. t = IF IsOpen(p) /\ hit # {} THEN [s EXCEPT !.pair = recompute_status(q)] ELSE s
  BY DEF on_order_event, ResolvedKeys
<1>3. ASSUME NEW r \in LegRecs
      PROVE  LET x == [r EXCEPT !.filled = @ + delta, !.dead = @ \/ dead] IN
             /\ x \in LegRecs /\ x.token = r.token /\ x.key = r.key
             /\ x.filled = r.filled + delta
  <2>1. r.filled + delta \in Int /\ (r.dead \/ dead) \in BOOLEAN
    BY DEF LegRecs
  <2>2. ASSUME NEW m \in Int, NEW b \in BOOLEAN
        PROVE  LET x == [r EXCEPT !.filled = m, !.dead = b] IN
               x \in LegRecs /\ x.token = r.token /\ x.key = r.key /\ x.filled = m
    BY DEF LegRecs
  <2> QED
    BY <2>1, <2>2, Zenon
<1>4. ASSUME NEW i \in DOMAIN p.legs
      PROVE  /\ Told(i) \in LegRecs /\ Told(i).token = p.legs[i].token
             /\ Told(i).key = p.legs[i].key
             /\ Told(i).filled = IF p.legs[i].key \in keys THEN p.legs[i].filled + delta
                                 ELSE p.legs[i].filled
  <2>1. p.legs[i] \in LegRecs
    BY <1>1, PairFields
  <2>2. i \in hit <=> p.legs[i].key \in keys
    OBVIOUS
  <2> HIDE DEF keys, p
  <2>3. CASE i \in hit
    <3>1. Told(i) = [p.legs[i] EXCEPT !.filled = @ + delta, !.dead = @ \/ dead]
      BY <2>3
    <3> QED
      BY <1>3, <2>1, <2>2, <2>3, <3>1, Zenon
  <2>4. CASE i \notin hit
    BY <2>1, <2>2, <2>4
  <2> QED
    BY <2>3, <2>4
<1>5. f \in [DOMAIN p.legs -> LegRecs] /\ \A i \in DOMAIN p.legs : f[i] = Told(i)
  <2> HIDE DEF Told, p
  <2> QED
    BY <1>4
<1>6. q \in PairRecs /\ q.legs = f /\ DOMAIN q.legs = DOMAIN p.legs /\ q.status = p.status
  <2> HIDE DEF f, p
  <2> QED
    BY <1>1, <1>5, LegsReplaced
<1> DEFINE r == recompute_status(q)
<1>7. CASE IsOpen(p) /\ hit # {}
  <2>1. IsOpen(q)
    BY <1>6, <1>7 DEF IsOpen
  <2>2. r \in PairRecs /\ r.legs = f /\ IsOpen(r)
    <3> HIDE DEF q
    <3> QED
      BY <1>6, <2>1, RecomputeFacts
  <2>3. t = [s EXCEPT !.pair = r]
    BY <1>2, <1>7
  <2>4. OnlyPair(s, t) /\ t.pair = r
    <3> HIDE DEF r, t
    <3> QED
      BY <2>2, <2>3, CoreWith DEF OnlyPair
  <2>5. DOMAIN f = DOMAIN p.legs
    BY <1>5
  <2>6. IsOpen(t.pair) = IsOpen(s.pair) /\ (~IsOpen(s.pair) => t = s)
    BY <1>7, <2>2, <2>4 DEF IsOpen
  <2> HIDE DEF r, t, f, Told, keys, hit
  <2>7. \A i \in DOMAIN p.legs :
          /\ t.pair.legs[i].token = p.legs[i].token /\ t.pair.legs[i].key = p.legs[i].key
          /\ t.pair.legs[i].filled = IF p.legs[i].key \in keys THEN p.legs[i].filled + delta
                                     ELSE p.legs[i].filled
    BY <1>4, <1>5, <2>2, <2>4
  <2>8. DOMAIN t.pair.legs = DOMAIN p.legs
    BY <2>2, <2>4, <2>5
  <2> QED
    BY <1>7, <2>4, <2>6, <2>7, <2>8, Zenon DEF t, keys
<1>8. CASE ~IsOpen(p)
  BY <1>2, <1>8 DEF OnlyPair
<1>9. CASE hit = {}
  BY <1>2, <1>9 DEF OnlyPair
<1> QED
  BY <1>7, <1>8, <1>9

\* The core ends orders: their records are over, the legs keep what they show.
LEMMA EndFacts ==
  ASSUME NEW s \in Cores, NEW ks \in SUBSET Slots
  PROVE  LET t == End(s, ks) IN
         /\ t \in Cores
         /\ t.pos = s.pos /\ t.cont = s.cont /\ t.chased = s.chased
         /\ IsOpen(t.pair) = IsOpen(s.pair)
         /\ ~IsOpen(s.pair) => t.pair = s.pair
         /\ DOMAIN t.pair.legs = DOMAIN s.pair.legs
         /\ \A i \in DOMAIN s.pair.legs :
              /\ t.pair.legs[i].token = s.pair.legs[i].token
              /\ t.pair.legs[i].key = s.pair.legs[i].key
              /\ t.pair.legs[i].filled = s.pair.legs[i].filled
         /\ \A k \in Slots : t.orders[k] = IF k \in ks THEN Over(s.orders[k]) ELSE s.orders[k]
<1> DEFINE e == on_order_event(s, ks, 0, TRUE)
           gone == {k[2] : k \in {j \in ks : Live(s, j)}}
           rows == [k \in Slots |-> IF k \in ks THEN Over(s.orders[k]) ELSE s.orders[k]]
<1>1. /\ OnlyPair(s, e)
      /\ IsOpen(e.pair) = IsOpen(s.pair) /\ (~IsOpen(s.pair) => e = s)
      /\ DOMAIN e.pair.legs = DOMAIN s.pair.legs
      /\ \A i \in DOMAIN s.pair.legs :
              LET leg == s.pair.legs[i] IN
              /\ e.pair.legs[i].token = leg.token /\ e.pair.legs[i].key = leg.key
              /\ e.pair.legs[i].filled =
                   IF IsOpen(s.pair) /\ leg.key \in ResolvedKeys(s, ks)
                   THEN leg.filled + 0 ELSE leg.filled
  <2>1. 0 \in Int /\ TRUE \in BOOLEAN
    OBVIOUS
  <2> QED
    BY <2>1, EventFacts, Zenon
<1>2. \A i \in DOMAIN s.pair.legs : s.pair.legs[i].filled \in Int
  BY PairFields DEF Cores
<1> HIDE DEF e
<1>3. rows \in [Slots -> OrderRecs]
  BY OrderFields, OverRec
<1>4. e.orders = s.orders /\ e.pending = s.pending
  BY <1>1 DEF OnlyPair
<1>5. End(s, ks) = [e EXCEPT !.orders = [k \in Slots |-> IF k \in ks THEN Over(@[k]) ELSE @[k]],
                             !.pending = @ \ gone]
  BY DEF End, e
<1>6. End(s, ks) = [e EXCEPT !.orders = rows, !.pending = s.pending \ gone]
  BY <1>1, <1>4, <1>5 DEF OnlyPair, Cores
<1> HIDE DEF gone
<1>7. s.pending \ gone \in SUBSET Legs
  BY DEF Cores
<1> DEFINE t == End(s, ks)
<1>8. /\ t \in Cores /\ t.orders = rows /\ t.pair = e.pair /\ t.pos = e.pos
      /\ t.cont = e.cont /\ t.chased = e.chased
  <2> HIDE DEF rows
  <2> QED
    BY <1>1, <1>3, <1>6, <1>7 DEF OnlyPair, Cores
<1>9. \A k \in Slots : t.orders[k] = IF k \in ks THEN Over(s.orders[k]) ELSE s.orders[k]
  BY <1>8
<1> HIDE DEF t, rows
<1> QED
  BY <1>1, <1>2, <1>8, <1>9 DEF OnlyPair, t
\* The first bind of a leg takes.
LEMMA BindFacts ==
  ASSUME NEW p \in PairRecs, NEW l \in Legs, NEW k \in Keys
  PROVE  LET q == bind_by_leg(p, l, k) IN
         /\ q \in PairRecs /\ q.status = p.status
         /\ DOMAIN q.legs = DOMAIN p.legs
         /\ \A i \in DOMAIN p.legs :
              /\ q.legs[i].token = p.legs[i].token /\ q.legs[i].filled = p.legs[i].filled
              /\ q.legs[i].key = IF IsOpen(p) /\ p.legs[i].token = l /\ p.legs[i].key = NoKey
                                 THEN k ELSE p.legs[i].key
<1> DEFINE Bd(leg) == IF leg.token = l /\ leg.key = NoKey THEN [leg EXCEPT !.key = k] ELSE leg
           f == [i \in DOMAIN p.legs |-> Bd(p.legs[i])]
           q == bind_by_leg(p, l, k)
<1>1. q = IF IsOpen(p) THEN [p EXCEPT !.legs = f] ELSE p
  BY DEF bind_by_leg
<1>2. ASSUME NEW i \in DOMAIN p.legs
      PROVE  /\ Bd(p.legs[i]) \in LegRecs
             /\ Bd(p.legs[i]).token = p.legs[i].token /\ Bd(p.legs[i]).filled = p.legs[i].filled
             /\ Bd(p.legs[i]).key = IF p.legs[i].token = l /\ p.legs[i].key = NoKey
                                    THEN k ELSE p.legs[i].key
  <2>1. p.legs[i] \in LegRecs
    BY PairFields
  <2> QED
    BY <2>1 DEF LegRecs
<1>3. f \in [DOMAIN p.legs -> LegRecs] /\ \A i \in DOMAIN p.legs : f[i] = Bd(p.legs[i])
  <2> HIDE DEF Bd
  <2> QED
    BY <1>2
<1> HIDE DEF f, Bd
<1>4. LET r == [p EXCEPT !.legs = f] IN
      r \in PairRecs /\ r.legs = f /\ DOMAIN r.legs = DOMAIN p.legs /\ r.status = p.status
  BY <1>3, LegsReplaced
<1>5. CASE IsOpen(p)
  BY <1>1, <1>2, <1>3, <1>4, <1>5
<1>6. CASE ~IsOpen(p)
  BY <1>1, <1>6
<1> QED
  BY <1>5, <1>6

LEMMA NewLeg ==
  ASSUME NEW l \in Legs
  PROVE  /\ Leg(l) \in LegRecs /\ Leg(l).token = l /\ Leg(l).key = NoKey /\ Leg(l).filled = 0
  BY KeyFacts DEF Leg, LegRecs

\* A declared pair is open, has the leg, and keeps the legs it had.
LEMMA DeclareFacts ==
  ASSUME NEW p \in PairRecs, NEW l \in Legs
  PROVE  LET q == declare(p, l) IN
         /\ q \in PairRecs /\ IsOpen(q) /\ Declared(q, l)
         /\ IsOpen(p) => \A m \in Legs : Declared(p, m) => Declared(q, m)
         /\ \A i \in DOMAIN q.legs :
              \/ q.legs[i] = Leg(l) /\ (IsOpen(p) => ~Declared(p, l))
              \/ IsOpen(p) /\ i \in DOMAIN p.legs /\ q.legs[i] = p.legs[i]
<1> DEFINE q == declare(p, l)
<1>0. Leg(l) \in LegRecs /\ Leg(l).token = l
  BY NewLeg
<1>1. CASE ~IsOpen(p)
  <2>1. q = [status |-> "Pending", naked |-> NoToken, legs |-> <<Leg(l)>>]
    BY <1>1 DEF declare
  <2>2. <<Leg(l)>> \in Seq(LegRecs) /\ DOMAIN <<Leg(l)>> = {1} /\ <<Leg(l)>>[1] = Leg(l)
    BY <1>0
  <2>3. q \in PairRecs /\ IsOpen(q) /\ q.legs = <<Leg(l)>>
    BY <2>1, <2>2 DEF PairRecs, IsOpen
  <2>4. Declared(q, l)
    BY <1>0, <2>2, <2>3 DEF Declared
  <2> QED
    BY <1>1, <2>2, <2>3, <2>4
<1>2. CASE IsOpen(p) /\ Declared(p, l)
  BY <1>2 DEF declare
<1>3. CASE IsOpen(p) /\ ~Declared(p, l)
  <2> DEFINE g == Append(p.legs, Leg(l))
  <2>1. q = [p EXCEPT !.legs = g]
    BY <1>3 DEF declare
  <2>2. /\ p.legs \in Seq(LegRecs) /\ DOMAIN p.legs = 1..Len(p.legs) /\ Len(p.legs) \in Nat
    BY PairFields
  <2>3. /\ g \in Seq(LegRecs) /\ DOMAIN g = 1..(Len(p.legs) + 1) /\ g[Len(p.legs) + 1] = Leg(l)
        /\ \A i \in 1..Len(p.legs) : g[i] = p.legs[i]
    BY <1>0, <2>2
  <2> HIDE DEF g
  <2>4. q \in PairRecs /\ IsOpen(q) /\ q.legs = g
    BY <1>3, <2>1, <2>3 DEF PairRecs, IsOpen
  <2>5. Declared(q, l)
    BY <1>0, <2>2, <2>3, <2>4 DEF Declared
  <2>6. ASSUME NEW m \in Legs, Declared(p, m) PROVE Declared(q, m)
    BY <2>2, <2>3, <2>4, <2>6 DEF Declared
  <2>7. \A i \in DOMAIN g : i = Len(p.legs) + 1 \/ i \in DOMAIN p.legs
    BY <2>2, <2>3
  <2> QED
    BY <1>3, <2>2, <2>3, <2>4, <2>5, <2>6, <2>7
<1> QED
  BY <1>1, <1>2, <1>3

\* A closed pair.
LEMMA ClosedPair ==
  ASSUME NEW p \in PairRecs
  PROVE  LET q == [p EXCEPT !.status = "Closed", !.naked = NoToken] IN
         q \in PairRecs /\ q.status = "Closed"
  BY DEF PairRecs

-----------------------------------------------------------------------------
(* The inductive invariant *)

MakerKinds == {"entry", "replaced", "escalated"}

\* A key of the leg: unbound, its entry's, or its chase's.
OwnKey(key, l) == key \in {NoKey, <<"entry", l>>, <<"chase", l>>}

\* Nothing was ever offered of the leg, and the book says so.
Untouched(s, b, l) ==
  /\ b[l] = 0
  /\ \A kind \in MakerKinds : s.orders[<<kind, l>>].status = "none"
  /\ \A i \in DOMAIN s.pair.legs :
       s.pair.legs[i].token = l => s.pair.legs[i].key = NoKey /\ s.pair.legs[i].filled = 0

\* The leg is bound to its entry, through which every order of it is told, and
\* shows what was bought.
Told(s, b, l) ==
  /\ IsOpen(s.pair) /\ Declared(s.pair, l)
  /\ \A i \in DOMAIN s.pair.legs :
       s.pair.legs[i].token = l
         => s.pair.legs[i].key = <<"entry", l>> /\ s.pair.legs[i].filled = b[l]
  /\ s.orders[<<"escalated", l>>].status # "none" => s.cont[l] = <<"entry", l>>

Unchased(s, l) == s.orders[<<"chase", l>>].status = "none"

Shown(s, b) ==
  /\ \A l \in Legs :
       /\ OwnKey(s.cont[l], l)
       /\ Unchased(s, l) => Untouched(s, b, l) \/ Told(s, b, l)
  /\ \A i \in DOMAIN s.pair.legs : OwnKey(s.pair.legs[i].key, s.pair.legs[i].token)

\* A slot without an order has nothing the venue could fill.
Tidy(s) == \A k \in Slots : s.orders[k].status = "none" => ~s.orders[k].open

\* What every part of a handler keeps; f: the pair is the round's first.
Kept(s, b, f) ==
  /\ s \in Cores /\ Tidy(s)
  /\ f /\ s.pair.status # "Closed" => Shown(s, b)

IInv ==
  /\ bought \in [Legs -> Int] /\ first \in BOOLEAN
  /\ Kept(core, bought, first)
  /\ first => core.pair.status # "Closed"

\* The invariant says what the property asks of the book.
LEMMA ShownIsTold == IInv => FillsReachTheBook
<1> SUFFICES ASSUME IInv, first, IsOpen(core.pair), NEW i \in DOMAIN core.pair.legs,
                    core.orders[<<"chase", core.pair.legs[i].token>>].status = "none"
             PROVE  core.pair.legs[i].filled = bought[core.pair.legs[i].token]
  BY Zenon DEF FillsReachTheBook
<1>1. Shown(core, bought) /\ core.pair.legs[i].token \in Legs
  BY PairFields DEF IInv, Kept, Cores
<1>2. \/ Untouched(core, bought, core.pair.legs[i].token)
      \/ Told(core, bought, core.pair.legs[i].token)
  BY <1>1, Zenon DEF Shown, Unchased
<1> QED
  BY <1>2 DEF Untouched, Told

-----------------------------------------------------------------------------
(* What a part of a handler may change *)

\* The legs show the same, ended or not, and no maker's order is new.
Quiet(s, t) ==
  /\ t \in Cores /\ Tidy(t)
  /\ IsOpen(t.pair) = IsOpen(s.pair)
  /\ s.pair.status = "Closed" => t.pair.status = "Closed"
  /\ t.cont = s.cont
  /\ DOMAIN t.pair.legs = DOMAIN s.pair.legs
  /\ \A i \in DOMAIN s.pair.legs :
       /\ t.pair.legs[i].token = s.pair.legs[i].token
       /\ t.pair.legs[i].key = s.pair.legs[i].key
       /\ t.pair.legs[i].filled = s.pair.legs[i].filled
  /\ \A l \in Legs :
       /\ Unchased(t, l) => Unchased(s, l)
       /\ \A kind \in MakerKinds :
            s.orders[<<kind, l>>].status = "none" => t.orders[<<kind, l>>].status = "none"

LEMMA QuietKeeps ==
  ASSUME NEW s, NEW t, NEW b, NEW f \in BOOLEAN, Kept(s, b, f), Quiet(s, t)
  PROVE  Kept(t, b, f)
<1> SUFFICES ASSUME f, t.pair.status # "Closed" PROVE Shown(t, b)
  BY DEF Kept, Quiet
<1>1. Shown(s, b)
  BY DEF Kept, Quiet
<1>2. ASSUME NEW l \in Legs PROVE OwnKey(t.cont[l], l)
  BY <1>1, Zenon DEF Shown, Quiet
<1>3. \A i \in DOMAIN t.pair.legs : OwnKey(t.pair.legs[i].key, t.pair.legs[i].token)
  BY <1>1 DEF Shown, Quiet
<1>4. ASSUME NEW l \in Legs, Unchased(t, l) PROVE Untouched(t, b, l) \/ Told(t, b, l)
  <2>1. Untouched(s, b, l) \/ Told(s, b, l)
    BY <1>1, <1>4, Zenon DEF Shown, Quiet
  <2>2. ASSUME Untouched(s, b, l) PROVE Untouched(t, b, l)
    BY <2>2 DEF Untouched, Quiet
  <2>3. ASSUME Told(s, b, l) PROVE Told(t, b, l)
    BY <2>3 DEF Told, Quiet, Declared, MakerKinds
  <2> QED
    BY <2>1, <2>2, <2>3
<1> QED
  BY <1>2, <1>3, <1>4 DEF Shown

\* A leg of which something is out is bound and told.
LEMMA OfferedIsTold ==
  ASSUME NEW s, NEW b, NEW f \in BOOLEAN, Kept(s, b, f), f, s.pair.status # "Closed",
         NEW l \in Legs, Unchased(s, l),
         NEW kind \in MakerKinds, s.orders[<<kind, l>>].status # "none"
  PROVE  Told(s, b, l)
  BY Zenon DEF Kept, Shown, Untouched

\* Orders that exist are ended.
LEMMA EndKeeps ==
  ASSUME NEW s, NEW b, NEW f \in BOOLEAN, Kept(s, b, f),
         NEW ks \in SUBSET Slots, \A k \in ks : s.orders[k].status # "none"
  PROVE  Quiet(s, End(s, ks)) /\ Kept(End(s, ks), b, f)
<1> DEFINE t == End(s, ks)
<1>1. /\ t \in Cores
      /\ t.cont = s.cont
      /\ IsOpen(t.pair) = IsOpen(s.pair)
      /\ ~IsOpen(s.pair) => t.pair = s.pair
      /\ DOMAIN t.pair.legs = DOMAIN s.pair.legs
      /\ \A i \in DOMAIN s.pair.legs :
           /\ t.pair.legs[i].token = s.pair.legs[i].token
           /\ t.pair.legs[i].key = s.pair.legs[i].key
           /\ t.pair.legs[i].filled = s.pair.legs[i].filled
      /\ \A k \in Slots : t.orders[k] = IF k \in ks THEN Over(s.orders[k]) ELSE s.orders[k]
  BY EndFacts DEF Kept
<1> HIDE DEF t
<1>2. \A k \in Slots : t.orders[k].status = "none" <=> s.orders[k].status = "none"
  <2> SUFFICES ASSUME NEW k \in Slots
               PROVE  t.orders[k].status = "none" <=> s.orders[k].status = "none"
    OBVIOUS
  <2>1. Over(s.orders[k]).status = "done"
    BY OverRec, OrderFields DEF Kept
  <2> QED
    BY <1>1, <2>1
<1>3. Tidy(t)
  <2> SUFFICES ASSUME NEW k \in Slots, t.orders[k].status = "none" PROVE ~t.orders[k].open
    BY DEF Tidy
  <2>1. s.orders[k].status = "none" /\ k \notin ks
    BY <1>2
  <2> QED
    BY <1>1, <2>1 DEF Kept, Tidy
<1>4. s.pair.status = "Closed" => t.pair.status = "Closed"
  BY <1>1 DEF IsOpen
<1>5. \A l \in Legs :
        /\ Unchased(t, l) => Unchased(s, l)
        /\ \A kind \in MakerKinds :
             s.orders[<<kind, l>>].status = "none" => t.orders[<<kind, l>>].status = "none"
  BY <1>2, SlotFacts DEF Unchased, MakerKinds, BuyKinds
<1>6. Quiet(s, t)
  BY <1>1, <1>3, <1>4, <1>5 DEF Quiet
<1> QED
  BY <1>6, QuietKeeps DEF t

\* The venue closes an order that exists.
LEMMA ClosedKeeps ==
  ASSUME NEW s, NEW b, NEW f \in BOOLEAN, Kept(s, b, f),
         NEW k \in Slots, s.orders[k].status # "none"
  PROVE  Kept(Closed(s, k), b, f)
<1> DEFINE t == Closed(s, k)
<1>1. /\ t \in Cores
      /\ t.orders[k] = Finished(k)
      /\ \A j \in Slots : j # k => t.orders[j] = s.orders[j]
      /\ t.pair = s.pair /\ t.cont = s.cont
  BY ClosedFacts DEF Kept
<1> HIDE DEF t
<1>2. /\ Finished(k).open = FALSE
      /\ Finished(k).status = IF k[1] \in {"entry", "chase"} THEN "done" ELSE "none"
  BY FinishedRec
<1>3. Tidy(t)
  BY <1>1, <1>2 DEF Kept, Tidy
<1>4. ASSUME NEW l \in Legs
      PROVE  /\ Unchased(t, l) => Unchased(s, l)
             /\ \A kind \in MakerKinds :
                  s.orders[<<kind, l>>].status = "none" => t.orders[<<kind, l>>].status = "none"
  <2>1. <<"chase", l>> \in Slots /\ <<"chase", l>>[1] = "chase"
    BY SlotFacts DEF BuyKinds
  <2>2. \A kind \in MakerKinds : <<kind, l>> \in Slots
    BY SlotFacts DEF BuyKinds, MakerKinds
  <2> QED
    BY <1>1, <1>2, <2>1, <2>2 DEF Unchased
<1>5. Quiet(s, t)
  BY <1>1, <1>3, <1>4 DEF Quiet
<1> QED
  BY <1>5, QuietKeeps DEF t

\* The order k may be placed without the book losing sight of it.
Ready(s, b, f, k) ==
  k[1] \in MakerKinds /\ f /\ s.pair.status # "Closed" /\ Unchased(s, k[2])
    => /\ Told(s, b, k[2])
       /\ k[1] = "escalated" => s.cont[k[2]] = <<"entry", k[2]>>

LEMMA PlaceKeeps ==
  ASSUME NEW s, NEW b, NEW f \in BOOLEAN, Kept(s, b, f),
         NEW k \in Slots, NEW n \in Int, Ready(s, b, f, k)
  PROVE  Kept(Place(s, k, n), b, f)
<1> DEFINE t == Place(s, k, n)
<1>1. /\ t \in Cores
      /\ t.orders[k].status = "pending"
      /\ \A j \in Slots : j # k => t.orders[j] = s.orders[j]
      /\ t.pair = s.pair /\ t.cont = s.cont
  BY PlaceFacts DEF Kept
<1> HIDE DEF t
<1>2. Tidy(t)
  BY <1>1 DEF Kept, Tidy
<1> SUFFICES ASSUME f, s.pair.status # "Closed" PROVE Shown(t, b)
  BY <1>1, <1>2 DEF Kept, t
<1>3. Shown(s, b)
  BY DEF Kept
<1>4. ASSUME NEW l \in Legs, Unchased(t, l) PROVE Untouched(t, b, l) \/ Told(t, b, l)
  <2>1. Unchased(s, l) /\ k # <<"chase", l>>
    BY <1>1, <1>4, SlotFacts DEF Unchased, BuyKinds
  <2>2. Untouched(s, b, l) \/ Told(s, b, l)
    BY <1>3, <2>1, Zenon DEF Shown
  <2>3. \A kind \in MakerKinds :
          /\ <<kind, l>> \in Slots
          /\ <<kind, l>> # k => t.orders[<<kind, l>>] = s.orders[<<kind, l>>]
    BY <1>1, SlotFacts DEF MakerKinds, BuyKinds
  <2>4. CASE k[1] \in MakerKinds /\ k[2] = l
    <3>1. Told(s, b, l) /\ (k[1] = "escalated" => s.cont[l] = <<"entry", l>>)
      BY <2>1, <2>4 DEF Ready
    <3>2. k = <<k[1], l>>
      BY <2>4, SlotFacts
    <3>3. t.orders[<<"escalated", l>>].status # "none" => t.cont[l] = <<"entry", l>>
      BY <1>1, <2>3, <3>1, <3>2 DEF Told, MakerKinds
    <3>4. Told(t, b, l)
      BY <1>1, <3>1, <3>3 DEF Told
    <3> QED
      BY <3>4
  <2>5. CASE ~(k[1] \in MakerKinds /\ k[2] = l)
    <3>1. \A kind \in MakerKinds : <<kind, l>> # k
      BY <2>5
    <3>2. \A kind \in MakerKinds : t.orders[<<kind, l>>] = s.orders[<<kind, l>>]
      BY <2>3, <3>1
    <3>3. Untouched(s, b, l) => Untouched(t, b, l)
      BY <1>1, <3>2 DEF Untouched
    <3>4. Told(s, b, l) => Told(t, b, l)
      BY <1>1, <3>2 DEF Told, MakerKinds
    <3> QED
      BY <2>2, <3>3, <3>4
  <2> QED
    BY <2>4, <2>5
<1>5. \A l \in Legs : OwnKey(t.cont[l], l)
  BY <1>1, <1>3, Zenon DEF Shown
<1>6. \A i \in DOMAIN t.pair.legs : OwnKey(t.pair.legs[i].key, t.pair.legs[i].token)
  BY <1>1, <1>3, Zenon DEF Shown
<1> QED
  BY <1>4, <1>5, <1>6 DEF Shown

\* The escalated order's key leads to the leg's: the order may be placed.
LEMMA TieKeeps ==
  ASSUME NEW s, NEW b, NEW f \in BOOLEAN, Kept(s, b, f),
         NEW l \in Legs, s.orders[<<"entry", l>>].status # "none"
  PROVE  LET t == bind_continuation(s, l) IN
         /\ Kept(t, b, f) /\ Ready(t, b, f, <<"escalated", l>>)
         /\ t.orders = s.orders /\ t.pos = s.pos /\ t.pair = s.pair /\ t.chased = s.chased
<1> DEFINE to == {i \in DOMAIN s.pair.legs : s.pair.legs[i].token = l}
           c == CHOOSE i \in to : TRUE
           key == IF IsOpen(s.pair) /\ to # {} THEN s.pair.legs[c].key ELSE NoKey
           t == bind_continuation(s, l)
<1>1. t = [s EXCEPT !.cont[l] = key]
  BY DEF bind_continuation
<1>2. to # {} => c \in to
  OBVIOUS
<1> HIDE DEF c
<1>3. key \in Keys
  BY <1>2, PairFields, KeyFacts DEF Kept, Cores
<1>4. f /\ s.pair.status # "Closed" => OwnKey(key, l)
  <2> SUFFICES ASSUME f, s.pair.status # "Closed" PROVE OwnKey(key, l)
    OBVIOUS
  <2>1. \A i \in DOMAIN s.pair.legs : OwnKey(s.pair.legs[i].key, s.pair.legs[i].token)
    BY Zenon DEF Kept, Shown
  <2> QED
    BY <1>2, <2>1 DEF OwnKey
<1>5. f /\ s.pair.status # "Closed" /\ Unchased(s, l) => key = <<"entry", l>>
  <2> SUFFICES ASSUME f, s.pair.status # "Closed", Unchased(s, l) PROVE key = <<"entry", l>>
    OBVIOUS
  <2>1. Told(s, b, l)
    BY OfferedIsTold DEF MakerKinds
  <2>2. to # {} /\ IsOpen(s.pair)
    BY <2>1 DEF Told, Declared
  <2> QED
    BY <1>2, <2>1, <2>2 DEF Told
<1> HIDE DEF key, t, to
<1>6. /\ t \in Cores /\ t.orders = s.orders /\ t.pair = s.pair /\ t.pos = s.pos
      /\ t.chased = s.chased
      /\ t.cont[l] = key /\ \A m \in Legs : m # l => t.cont[m] = s.cont[m]
  BY <1>1, <1>3 DEF Kept, Cores
<1>7. ASSUME f, s.pair.status # "Closed" PROVE Shown(t, b)
  <2>1. Shown(s, b)
    BY <1>7 DEF Kept
  <2>2. ASSUME NEW m \in Legs PROVE OwnKey(t.cont[m], m)
    BY <1>4, <1>6, <1>7, <2>1, Zenon DEF Shown
  <2>3. ASSUME NEW m \in Legs, Unchased(t, m) PROVE Untouched(t, b, m) \/ Told(t, b, m)
    <3>1. Unchased(s, m)
      BY <1>6, <2>3 DEF Unchased
    <3>2. Untouched(s, b, m) \/ Told(s, b, m)
      BY <2>1, <3>1, Zenon DEF Shown
    <3>3. Untouched(s, b, m) => Untouched(t, b, m)
      BY <1>6 DEF Untouched
    <3>4. Told(s, b, m) => Told(t, b, m)
      BY <1>5, <1>6, <1>7, <3>1 DEF Told
    <3> QED
      BY <3>2, <3>3, <3>4
  <2>4. \A i \in DOMAIN t.pair.legs : OwnKey(t.pair.legs[i].key, t.pair.legs[i].token)
    BY <1>6, <2>1, Zenon DEF Shown
  <2> QED
    BY <2>2, <2>3, <2>4 DEF Shown
<1>8. Kept(t, b, f)
  BY <1>6, <1>7 DEF Kept, Tidy
<1>9. Ready(t, b, f, <<"escalated", l>>)
  <2> SUFFICES ASSUME f, t.pair.status # "Closed", Unchased(t, l)
               PROVE  Told(t, b, l) /\ t.cont[l] = <<"entry", l>>
    BY DEF Ready
  <2>1. Unchased(s, l) /\ s.pair.status # "Closed"
    BY <1>6 DEF Unchased
  <2>2. t.cont[l] = <<"entry", l>>
    BY <1>5, <1>6, <2>1
  <2>3. Told(t, b, l)
    BY <1>6, <1>8, OfferedIsTold DEF MakerKinds
  <2> QED
    BY <2>2, <2>3
<1> QED
  BY <1>6, <1>8, <1>9 DEF t

-----------------------------------------------------------------------------
(* One evaluation cycle *)

\* Steps that leave orders, pair and continuations alone.
LEMMA SameKeeps ==
  ASSUME NEW s, NEW t, NEW b, NEW f \in BOOLEAN, Kept(s, b, f), t \in Cores,
         t.orders = s.orders, t.pair = s.pair, t.cont = s.cont
  PROVE  Kept(t, b, f)
<1>1. Quiet(s, t)
  BY DEF Quiet, Kept, Tidy, Unchased
<1> QED
  BY <1>1, QuietKeeps

LEMMA PendingKeeps ==
  ASSUME NEW s, NEW b, NEW f \in BOOLEAN, Kept(s, b, f), NEW X \in SUBSET Legs
  PROVE  LET t == [s EXCEPT !.pending = X] IN
         /\ Kept(t, b, f) /\ t \in Cores
         /\ t.orders = s.orders /\ t.pos = s.pos /\ t.pair = s.pair
<1> DEFINE t == [s EXCEPT !.pending = X]
<1>1. /\ t \in Cores /\ t.orders = s.orders /\ t.pos = s.pos /\ t.pair = s.pair
      /\ t.cont = s.cont
  BY CoreWith DEF Kept
<1> HIDE DEF t
<1>2. Kept(t, b, f)
  BY <1>1, SameKeeps
<1> QED
  BY <1>1, <1>2 DEF t

\* An entry that is out may be followed by another under its key.
LEMMA EntryReady ==
  ASSUME NEW s, NEW b, NEW f \in BOOLEAN, Kept(s, b, f),
         NEW l \in Legs, s.orders[<<"entry", l>>].status # "none"
  PROVE  Ready(s, b, f, <<"entry", l>>)
<1> SUFFICES ASSUME f, s.pair.status # "Closed", Unchased(s, l) PROVE Told(s, b, l)
  BY DEF Ready
<1> QED
  BY OfferedIsTold DEF MakerKinds

\* The order a requote retires keeps its key.
LEMMA ReplacedKeeps ==
  ASSUME NEW s, NEW b, NEW f \in BOOLEAN, Kept(s, b, f),
         NEW l \in Legs, s.orders[<<"entry", l>>].status # "none"
  PROVE  LET t == [s EXCEPT !.orders[<<"replaced", l>>] = s.orders[<<"entry", l>>]] IN
         /\ Kept(t, b, f) /\ t.pair = s.pair /\ t.pending = s.pending
         /\ t.orders[<<"entry", l>>] = s.orders[<<"entry", l>>]
<1> DEFINE e == <<"entry", l>>
           r == <<"replaced", l>>
           t == [s EXCEPT !.orders[r] = s.orders[e]]
<1>0. e \in Slots /\ r \in Slots /\ e # r
  BY SlotFacts DEF BuyKinds
<1>1. s \in Cores /\ s.orders[e] \in OrderRecs
  BY <1>0, OrderFields DEF Kept
<1>a. s.orders[e].status # "none" /\ t = [s EXCEPT !.orders[r] = s.orders[e]]
  OBVIOUS
<1>b. \A m \in Legs : /\ <<"chase", m>> # r /\ <<"escalated", m>> # r
                      /\ <<"chase", m>> \in Slots /\ <<"escalated", m>> \in Slots
                      /\ m # l => \A kind \in MakerKinds : /\ <<kind, m>> # r
                                                           /\ <<kind, m>> \in Slots
  BY SlotFacts DEF BuyKinds, MakerKinds
<1> HIDE DEF e, r, t
<1>2. /\ t \in Cores /\ t.orders[r] = s.orders[e]
      /\ \A j \in Slots : j # r => t.orders[j] = s.orders[j]
      /\ t.pair = s.pair /\ t.cont = s.cont /\ t.pending = s.pending
  BY <1>0, <1>1, <1>a DEF Cores
<1>3. Tidy(t)
  BY <1>a, <1>2 DEF Kept, Tidy
<1>4. ASSUME f, s.pair.status # "Closed" PROVE Shown(t, b)
  <2>1. Shown(s, b)
    BY <1>4 DEF Kept
  <2>2. ASSUME NEW m \in Legs, Unchased(t, m) PROVE Untouched(t, b, m) \/ Told(t, b, m)
    <3>1. Unchased(s, m)
      BY <1>b, <1>2, <2>2 DEF Unchased
    <3>2. Told(s, b, m) => Told(t, b, m)
      BY <1>b, <1>2 DEF Told
    <3>3. CASE m = l
      <4>1. Told(s, b, m)
        BY <1>4, <3>1, <3>3, OfferedIsTold DEF MakerKinds
      <4> QED
        BY <3>2, <4>1
    <3>4. CASE m # l
      <4>1. Untouched(s, b, m) => Untouched(t, b, m)
        BY <1>b, <1>2, <3>4 DEF Untouched
      <4>2. Untouched(s, b, m) \/ Told(s, b, m)
        BY <2>1, <3>1, Zenon DEF Shown
      <4> QED
        BY <3>2, <4>1, <4>2
    <3> QED
      BY <3>3, <3>4
  <2>3. \A m \in Legs : OwnKey(t.cont[m], m)
    BY <1>2, <2>1, Zenon DEF Shown
  <2>4. \A i \in DOMAIN t.pair.legs : OwnKey(t.pair.legs[i].key, t.pair.legs[i].token)
    BY <1>2, <2>1, Zenon DEF Shown
  <2> QED
    BY <2>2, <2>3, <2>4 DEF Shown
<1>5. Kept(t, b, f)
  BY <1>2, <1>3, <1>4 DEF Kept
<1>6. t.orders[e] = s.orders[e]
  BY <1>0, <1>2
<1> QED
  BY <1>2, <1>5, <1>6 DEF t, e, r

\* Binding a key of the leg, in an open pair.
LEMMA BindKeeps ==
  ASSUME NEW s, NEW b, NEW f \in BOOLEAN, Kept(s, b, f),
         NEW l \in Legs, NEW kind \in {"entry", "chase"},
         kind = "entry" => IsOpen(s.pair) /\ Declared(s.pair, l),
         kind = "chase" => ~Unchased(s, l)
  PROVE  LET t == [s EXCEPT !.pair = bind_by_leg(@, l, <<kind, l>>)] IN
         /\ Kept(t, b, f)
         /\ kind = "entry" => Ready(t, b, f, <<"entry", l>>)
         /\ t.orders = s.orders /\ t.pos = s.pos /\ t.chased = s.chased
         /\ t.pending = s.pending
         /\ t.pair.status = s.pair.status
         /\ \A m \in Legs : Declared(s.pair, m) => Declared(t.pair, m)
<1> DEFINE k == <<kind, l>>
           q == bind_by_leg(s.pair, l, k)
           t == [s EXCEPT !.pair = bind_by_leg(@, l, k)]
<1>0. k \in Keys /\ k # NoKey /\ OwnKey(k, l) /\ s.pair \in PairRecs /\ s \in Cores
  BY KeyFacts DEF Kept, Cores, OwnKey
<1>1. /\ q \in PairRecs /\ q.status = s.pair.status
      /\ DOMAIN q.legs = DOMAIN s.pair.legs
      /\ \A i \in DOMAIN s.pair.legs :
           /\ q.legs[i].token = s.pair.legs[i].token /\ q.legs[i].filled = s.pair.legs[i].filled
           /\ q.legs[i].key = IF /\ IsOpen(s.pair) /\ s.pair.legs[i].token = l
                                 /\ s.pair.legs[i].key = NoKey
                              THEN k ELSE s.pair.legs[i].key
  BY <1>0, BindFacts
<1>1a. t = [s EXCEPT !.pair = q]
  BY <1>0 DEF Cores
<1>1b. kind = "entry" => k = <<"entry", l>>
  OBVIOUS
<1> HIDE DEF q, t, k
<1>2. /\ t \in Cores /\ t.pair = q /\ t.orders = s.orders /\ t.pos = s.pos
      /\ t.chased = s.chased /\ t.pending = s.pending /\ t.cont = s.cont
  BY <1>0, <1>1, <1>1a, CoreWith
<1>3. \A m \in Legs : Declared(s.pair, m) => Declared(q, m)
  BY <1>1 DEF Declared
<1>4. IsOpen(q) = IsOpen(s.pair)
  BY <1>1 DEF IsOpen
<1>5. ASSUME NEW m \in Legs, m # l
      PROVE  /\ Untouched(s, b, m) => Untouched(t, b, m)
             /\ Told(s, b, m) => Told(t, b, m)
  <2>1. Untouched(s, b, m) => Untouched(t, b, m)
    BY <1>1, <1>2, <1>5 DEF Untouched
  <2>2. Told(s, b, m) => Told(t, b, m)
    BY <1>1, <1>2, <1>3, <1>4, <1>5 DEF Told
  <2> QED
    BY <2>1, <2>2
<1>6. ASSUME kind = "entry", Untouched(s, b, l) \/ Told(s, b, l) PROVE Told(t, b, l)
  <2>1. <<"entry", l>> # NoKey
    BY KeyFacts
  <2>2. ASSUME NEW i \in DOMAIN t.pair.legs, t.pair.legs[i].token = l
        PROVE  t.pair.legs[i].key = <<"entry", l>> /\ t.pair.legs[i].filled = b[l]
    BY <1>1, <1>1b, <1>2, <1>6, <2>1, <2>2 DEF Untouched, Told
  <2>3. s.orders[<<"escalated", l>>].status # "none" => s.cont[l] = <<"entry", l>>
    BY <1>6 DEF Untouched, Told, MakerKinds
  <2> QED
    BY <1>2, <1>3, <1>4, <1>6, <2>2, <2>3 DEF Told
<1>7. \A m \in Legs : Unchased(t, m) = Unchased(s, m)
  BY <1>2 DEF Unchased
<1>8. ASSUME f, s.pair.status # "Closed" PROVE Shown(t, b)
  <2>1. Shown(s, b)
    BY <1>8 DEF Kept
  <2>2. ASSUME NEW m \in Legs, Unchased(t, m) PROVE Untouched(t, b, m) \/ Told(t, b, m)
    <3>1. Unchased(s, m)
      BY <1>7, <2>2
    <3>2. Untouched(s, b, m) \/ Told(s, b, m)
      BY <2>1, <3>1, Zenon DEF Shown
    <3>3. CASE m # l
      BY <1>5, <3>2, <3>3
    <3>4. CASE m = l
      BY <1>6, <3>1, <3>2, <3>4
    <3> QED
      BY <3>3, <3>4
  <2>3. \A m \in Legs : OwnKey(t.cont[m], m)
    BY <1>2, <2>1, Zenon DEF Shown
  <2>4. ASSUME NEW i \in DOMAIN t.pair.legs
        PROVE  OwnKey(t.pair.legs[i].key, t.pair.legs[i].token)
    <3>1. i \in DOMAIN s.pair.legs /\ OwnKey(s.pair.legs[i].key, s.pair.legs[i].token)
      BY <1>1, <1>2, <2>1, Zenon DEF Shown
    <3>2. CASE t.pair.legs[i].key = s.pair.legs[i].key
      BY <1>1, <1>2, <3>1, <3>2
    <3>3. CASE t.pair.legs[i].key = k /\ s.pair.legs[i].token = l
      BY <1>0, <1>1, <1>2, <3>1, <3>3
    <3> QED
      BY <1>1, <1>2, <3>1, <3>2, <3>3
  <2> QED
    BY <2>2, <2>3, <2>4 DEF Shown
<1>9. Kept(t, b, f)
  BY <1>1, <1>2, <1>8 DEF Kept, Tidy
<1>10. ASSUME kind = "entry" PROVE Ready(t, b, f, <<"entry", l>>)
  <2> SUFFICES ASSUME f, t.pair.status # "Closed", Unchased(t, l) PROVE Told(t, b, l)
    BY DEF Ready
  <2>1. Shown(s, b) /\ Unchased(s, l)
    BY <1>1, <1>2, <1>7 DEF Kept
  <2>2. Untouched(s, b, l) \/ Told(s, b, l)
    BY <2>1, Zenon DEF Shown
  <2> QED
    BY <1>6, <1>10, <2>2
<1> QED
  BY <1>1, <1>2, <1>3, <1>9, <1>10 DEF t, k

\* Declaring a leg: it is new, and nothing of it was ever offered, or the pair
\* has it.
LEMMA DeclareKeeps ==
  ASSUME NEW s, NEW b, NEW f \in BOOLEAN, Kept(s, b, f), f => s.pair.status # "Closed",
         NEW l \in Legs
  PROVE  LET t == [s EXCEPT !.pair = declare(s.pair, l)] IN
         /\ Kept(t, b, f) /\ t \in Cores /\ t.pair = declare(s.pair, l)
         /\ IsOpen(t.pair) /\ Declared(t.pair, l)
         /\ IsOpen(s.pair) => \A m \in Legs : Declared(s.pair, m) => Declared(t.pair, m)
         /\ t.orders = s.orders /\ t.pending = s.pending
<1> DEFINE q == declare(s.pair, l)
           t == [s EXCEPT !.pair = q]
<1>0. s \in Cores /\ s.pair \in PairRecs
  BY DEF Kept, Cores
<1>1. /\ q \in PairRecs /\ IsOpen(q) /\ Declared(q, l)
      /\ IsOpen(s.pair) => \A m \in Legs : Declared(s.pair, m) => Declared(q, m)
      /\ \A i \in DOMAIN q.legs :
           \/ q.legs[i] = Leg(l) /\ (IsOpen(s.pair) => ~Declared(s.pair, l))
           \/ IsOpen(s.pair) /\ i \in DOMAIN s.pair.legs /\ q.legs[i] = s.pair.legs[i]
  BY <1>0, DeclareFacts
<1>1a. Leg(l).token = l /\ Leg(l).key = NoKey /\ Leg(l).filled = 0
  BY NewLeg
<1> HIDE DEF q
<1>2. /\ t \in Cores /\ t.pair = q /\ t.orders = s.orders /\ t.cont = s.cont
      /\ t.pending = s.pending
  BY <1>0, <1>1, CoreWith
<1> HIDE DEF t
<1>3. ASSUME f PROVE Shown(t, b)
  <2>1. Shown(s, b)
    BY <1>3 DEF Kept
  <2>2. ASSUME NEW m \in Legs, Unchased(t, m) PROVE Untouched(t, b, m) \/ Told(t, b, m)
    <3>1. Untouched(s, b, m) \/ Told(s, b, m)
      <4>1. Unchased(s, m)
        BY <1>2, <2>2 DEF Unchased
      <4> QED
        BY <2>1, <4>1, Zenon DEF Shown
    <3>2. ASSUME Untouched(s, b, m) PROVE Untouched(t, b, m)
      <4>1. ASSUME NEW i \in DOMAIN q.legs, q.legs[i].token = m
            PROVE  q.legs[i].key = NoKey /\ q.legs[i].filled = 0
        BY <1>1, <1>1a, <3>2, <4>1 DEF Untouched
      <4> QED
        BY <1>2, <3>2, <4>1 DEF Untouched
    <3>3. ASSUME Told(s, b, m) PROVE Told(t, b, m)
      <4>1. ASSUME NEW i \in DOMAIN q.legs, q.legs[i].token = m
            PROVE  q.legs[i].key = <<"entry", m>> /\ q.legs[i].filled = b[m]
        <5>1. IsOpen(s.pair) /\ Declared(s.pair, m)
          BY <3>3 DEF Told
        <5>2. CASE q.legs[i] = Leg(l) /\ ~Declared(s.pair, l)
          BY <1>1a, <4>1, <5>1, <5>2
        <5>3. CASE i \in DOMAIN s.pair.legs /\ q.legs[i] = s.pair.legs[i]
          BY <3>3, <4>1, <5>3 DEF Told
        <5> QED
          BY <1>1, <5>1, <5>2, <5>3
      <4>2. Declared(q, m)
        BY <1>1, <3>3 DEF Told
      <4> QED
        BY <1>1, <1>2, <3>3, <4>1, <4>2 DEF Told
    <3> QED
      BY <3>1, <3>2, <3>3
  <2>3. \A m \in Legs : OwnKey(t.cont[m], m)
    BY <1>2, <2>1, Zenon DEF Shown
  <2>4. ASSUME NEW i \in DOMAIN q.legs PROVE OwnKey(q.legs[i].key, q.legs[i].token)
    <3>1. CASE q.legs[i] = Leg(l)
      BY <1>1a, <3>1 DEF OwnKey
    <3>2. CASE i \in DOMAIN s.pair.legs /\ q.legs[i] = s.pair.legs[i]
      <4>1. OwnKey(s.pair.legs[i].key, s.pair.legs[i].token)
        BY <2>1, <3>2, Zenon DEF Shown
      <4> QED
        BY <3>2, <4>1
    <3> QED
      BY <1>1, <3>1, <3>2
  <2> QED
    BY <1>2, <2>2, <2>3, <2>4 DEF Shown
<1>4. Kept(t, b, f)
  BY <1>2, <1>3 DEF Kept, Tidy
<1> QED
  BY <1>1, <1>2, <1>4 DEF t, q

\* Submitting a declared leg of an open pair.
LEMMA SubmitKeeps ==
  ASSUME NEW s, NEW b, NEW f \in BOOLEAN, Kept(s, b, f),
         NEW l \in Legs, IsOpen(s.pair), Declared(s.pair, l),
         NEW gate, NEW differs
  PROVE  LET t == SubmitEntry(s, l, gate, differs) IN
         /\ Kept(t, b, f) /\ IsOpen(t.pair)
         /\ \A m \in Legs : Declared(s.pair, m) => Declared(t.pair, m)
<1> DEFINE e == <<"entry", l>>
           bound == [s EXCEPT !.pair = bind_by_leg(@, l, e)]
           Noted(t) == [t EXCEPT !.pending = @ \cup {l}]
           Good(t) == /\ Kept(t, b, f) /\ IsOpen(t.pair)
                      /\ \A m \in Legs : Declared(s.pair, m) => Declared(t.pair, m)
<1>0. e \in Slots /\ Size \in Int
  <2>1. e \in Slots
    BY SlotFacts DEF BuyKinds
  <2> QED
    BY <2>1, PairAssumption
<1>1. /\ Kept(bound, b, f) /\ Ready(bound, b, f, e)
      /\ bound.orders = s.orders /\ bound.pair.status = s.pair.status
      /\ \A m \in Legs : Declared(s.pair, m) => Declared(bound.pair, m)
  BY BindKeeps
<1>2. Good(bound)
  BY <1>1 DEF IsOpen
<1>3. ASSUME NEW t, Good(t) PROVE Good(Noted(t))
  <2>1. t.pending \cup {l} \in SUBSET Legs
    BY <1>3 DEF Kept, Cores
  <2> DEFINE X == t.pending \cup {l}
             u == [t EXCEPT !.pending = X]
  <2>2. Noted(t) = u
    BY <1>3 DEF Kept, Cores
  <2>3. Kept(u, b, f) /\ u.pair = t.pair
    <3> HIDE DEF X
    <3> QED
      BY <1>3, <2>1, PendingKeeps DEF X
  <2> HIDE DEF u, X, Noted
  <2> QED
    BY <1>3, <2>2, <2>3
<1> HIDE DEF bound
<1>4. Good(Place(bound, e, Size))
  <2>1. Kept(Place(bound, e, Size), b, f)
    BY <1>0, <1>1, PlaceKeeps
  <2>2. Place(bound, e, Size).pair = bound.pair
    BY <1>0, <1>1, PlaceFacts DEF Kept
  <2> QED
    BY <1>2, <2>1, <2>2
<1>5. ASSUME Live(s, e) PROVE Good(Requote(bound, l))
  <2> DEFINE ended == End(bound, {e})
             old == [ended EXCEPT !.orders[<<"replaced", l>>] = ended.orders[e]]
  <2>1. bound.orders[e].status # "none"
    BY <1>1, <1>5 DEF Live, LiveStatuses
  <2>2. Quiet(bound, ended) /\ Kept(ended, b, f)
    BY <1>0, <1>1, <2>1, EndKeeps
  <2>3. ended.orders[e].status = "done"
    <3>1. ended.orders[e] = Over(bound.orders[e])
      BY <1>0, <1>1, EndFacts DEF Kept
    <3> QED
      BY <1>0, <1>1, <3>1, OverRec, OrderFields DEF Kept
  <2>4. Good(ended)
    <3>1. IsOpen(ended.pair)
      BY <1>2, <2>2 DEF Quiet
    <3>2. \A m \in Legs : Declared(bound.pair, m) => Declared(ended.pair, m)
      BY <2>2 DEF Quiet, Declared
    <3> QED
      BY <1>2, <2>2, <3>1, <3>2
  <2> HIDE DEF ended
  <2>5. Kept(old, b, f) /\ old.pair = ended.pair /\ old.orders[e] = ended.orders[e]
    BY <2>3, <2>4, ReplacedKeeps
  <2> HIDE DEF old
  <2>6. Ready(old, b, f, e)
    BY <2>3, <2>5, EntryReady
  <2>7. Kept(Place(old, e, Size), b, f)
    BY <1>0, <2>5, <2>6, PlaceKeeps
  <2>8. Place(old, e, Size).pair = old.pair
    BY <1>0, <2>5, PlaceFacts DEF Kept
  <2>9. Requote(bound, l) = Place(old, e, Size)
    BY DEF Requote, old, ended
  <2> QED
    BY <2>4, <2>5, <2>7, <2>8, <2>9
<1> DEFINE t == SubmitEntry(s, l, gate, differs)
<1>6. t = IF gate # "open" \/ ~Admitted(s, l) THEN bound
          ELSE IF ~Live(s, e) THEN Noted(Place(bound, e, Size))
          ELSE IF ~is_naked_leg_requote(s, l) THEN bound
          ELSE IF differs THEN Noted(Requote(bound, l)) ELSE Noted(bound)
  BY DEF SubmitEntry, bound
<1> HIDE DEF Noted, Good, t
<1>7. Good(t)
  BY <1>2, <1>3, <1>4, <1>5, <1>6
<1> QED
  BY <1>7 DEF Good, t

\* One evaluation cycle keeps the book telling.
LEMMA EvaluateStep ==
  ASSUME IInv, NEW ls \in SUBSET Legs, NEW sub \in SUBSET Legs, NEW g \in Gates,
         NEW d \in BOOLEAN, Evaluate(ls, sub, g, d)
  PROVE  IInv'
<1> DEFINE s0 == Released(core)
           Decl(p, l) == IF l \in ls THEN declare(p, l) ELSE p
           pa == Decl(s0.pair, A)
           sa == [s0 EXCEPT !.pair = pa]
           pb == Decl(pa, B)
           s1 == [s0 EXCEPT !.pair = pb]
           Sub(s, l) == IF l \in sub THEN SubmitEntry(s, l, g, d) ELSE s
           K(s) == Kept(s, bought, first) /\ (first => s.pair.status # "Closed")
<1>0. A \in Legs /\ B \in Legs /\ first \in BOOLEAN /\ sub \subseteq ls
  BY DEF Legs, IInv, Evaluate
<1>1. K(s0)
  <2>1. CASE shape.cross
    BY <2>1 DEF Released, IInv
  <2>2. CASE ~shape.cross
    <3> DEFINE X == core.pending \ {l \in Legs : Held(core, Other(l)) /\ ~Held(core, l)}
    <3>1. X \in SUBSET Legs
      BY DEF IInv, Kept, Cores
    <3>2. s0 = [core EXCEPT !.pending = X]
      BY <2>2 DEF Released, IInv, Kept, Cores
    <3> HIDE DEF X, s0
    <3> QED
      BY <3>1, <3>2, PendingKeeps DEF IInv
  <2> QED
    BY <2>1, <2>2
<1> HIDE DEF s0
<1>2. ASSUME NEW s, K(s), NEW l \in Legs
      PROVE  LET t == [s EXCEPT !.pair = Decl(s.pair, l)] IN
             /\ K(t) /\ t.pair = Decl(s.pair, l)
             /\ l \in ls => IsOpen(t.pair) /\ Declared(t.pair, l)
             /\ IsOpen(s.pair) => IsOpen(t.pair)
             /\ IsOpen(s.pair) => \A m \in Legs : Declared(s.pair, m) => Declared(t.pair, m)
  <2>1. CASE l \in ls
    <3> DEFINE t == [s EXCEPT !.pair = declare(s.pair, l)]
    <3>1. /\ Kept(t, bought, first) /\ t.pair = declare(s.pair, l)
          /\ IsOpen(t.pair) /\ Declared(t.pair, l)
          /\ IsOpen(s.pair) => \A m \in Legs : Declared(s.pair, m) => Declared(t.pair, m)
      BY <1>0, <1>2, DeclareKeeps
    <3>2. t.pair.status # "Closed"
      BY <3>1 DEF IsOpen
    <3>3. [s EXCEPT !.pair = Decl(s.pair, l)] = t /\ Decl(s.pair, l) = declare(s.pair, l)
      BY <2>1
    <3> HIDE DEF t, Decl
    <3> QED
      BY <2>1, <3>1, <3>2, <3>3
  <2>2. CASE l \notin ls
    <3>1. [s EXCEPT !.pair = Decl(s.pair, l)] = s
      BY <1>2, <2>2 DEF Kept, Cores
    <3>2. Decl(s.pair, l) = s.pair
      BY <2>2
    <3> HIDE DEF Decl
    <3> QED
      BY <1>2, <2>2, <3>1, <3>2
  <2> QED
    BY <2>1, <2>2
<1> HIDE DEF Decl
<1>3. /\ K(sa) /\ sa.pair = pa /\ (A \in ls => IsOpen(pa) /\ Declared(pa, A))
  BY <1>0, <1>1, <1>2
<1>4. /\ s1 = [sa EXCEPT !.pair = Decl(sa.pair, B)]
  BY <1>1, <1>3 DEF Kept, Cores
<1> HIDE DEF sa, pa, pb
<1>5. /\ K(s1) /\ \A l \in ls : IsOpen(s1.pair) /\ Declared(s1.pair, l)
  <2> DEFINE t == [sa EXCEPT !.pair = Decl(sa.pair, B)]
  <2>1. /\ K(t) /\ (B \in ls => IsOpen(t.pair) /\ Declared(t.pair, B))
        /\ IsOpen(sa.pair) => IsOpen(t.pair)
        /\ IsOpen(sa.pair) => \A m \in Legs : Declared(sa.pair, m) => Declared(t.pair, m)
    BY <1>0, <1>2, <1>3
  <2>2. s1 = t
    BY <1>4
  <2> HIDE DEF t, s1
  <2>3. ASSUME NEW l \in ls PROVE IsOpen(t.pair) /\ Declared(t.pair, l)
    BY <1>0, <1>3, <2>1 DEF Legs
  <2> QED
    BY <2>1, <2>2, <2>3
<1> HIDE DEF s1
<1>6. ASSUME NEW s, K(s), \A l \in sub : IsOpen(s.pair) /\ Declared(s.pair, l), NEW m \in Legs
      PROVE  K(Sub(s, m)) /\ \A l \in sub : IsOpen(Sub(s, m).pair) /\ Declared(Sub(s, m).pair, l)
  <2>1. CASE m \in sub
    <3>1. /\ Kept(SubmitEntry(s, m, g, d), bought, first)
          /\ IsOpen(SubmitEntry(s, m, g, d).pair)
          /\ \A l \in Legs : Declared(s.pair, l) => Declared(SubmitEntry(s, m, g, d).pair, l)
      BY <1>0, <1>6, <2>1, SubmitKeeps
    <3>2. SubmitEntry(s, m, g, d).pair.status # "Closed"
      BY <3>1 DEF IsOpen
    <3>3. Sub(s, m) = SubmitEntry(s, m, g, d)
      BY <2>1
    <3> HIDE DEF Sub
    <3> QED
      BY <1>6, <3>1, <3>2, <3>3
  <2>2. CASE m \notin sub
    BY <1>6, <2>2
  <2> QED
    BY <2>1, <2>2
<1>7. core' = Sub(Sub(s1, A), B)
  BY DEF Evaluate, s1, pb, pa, s0, Decl
<1> HIDE DEF Sub
<1>8. /\ K(Sub(s1, A))
      /\ \A l \in sub : IsOpen(Sub(s1, A).pair) /\ Declared(Sub(s1, A).pair, l)
  BY <1>0, <1>5, <1>6
<1>9. K(core')
  BY <1>0, <1>6, <1>7, <1>8
<1>10. bought' = bought /\ first' = first
  BY DEF Evaluate
<1> QED
  BY <1>9, <1>10 DEF IInv

-----------------------------------------------------------------------------
(* What the venue and the operator do to an order *)

\* confirm_live changes no leg.
LEMMA AckStep ==
  ASSUME IInv, NEW l \in Legs, Ack(l)
  PROVE  IInv'
<1> DEFINE e == <<"entry", l>>
           r == [core.orders[e] EXCEPT !.status = "live", !.clock = MakerTimeout]
<1>0. e \in Slots /\ core \in Cores /\ MakerTimeout \in Int
  <2>1. e \in Slots
    BY SlotFacts DEF BuyKinds
  <2> QED
    BY <2>1, PairAssumption DEF IInv, Kept
<1>1. core.orders[e].status = "pending" /\ core.orders[e] \in OrderRecs
  BY <1>0, OrderFields DEF Ack
<1>2. r \in OrderRecs /\ r.status = "live"
  BY <1>0, <1>1 DEF OrderRecs, LiveStatuses
<1>3. core' = [core EXCEPT !.orders[e] = r]
  BY <1>0, <1>1 DEF Ack, Cores, OrderRecs
<1>a. \A m \in Legs : <<"chase", m>> # e /\ <<"chase", m>> \in Slots
  BY SlotFacts DEF BuyKinds
<1>b. \A m \in Legs, kind \in MakerKinds : <<kind, m>> \in Slots
  BY SlotFacts DEF BuyKinds, MakerKinds
<1> HIDE DEF r, e
<1>4. /\ core' \in Cores /\ core'.orders[e] = r
      /\ \A j \in Slots : j # e => core'.orders[j] = core.orders[j]
      /\ core'.pair = core.pair /\ core'.cont = core.cont
  BY <1>0, <1>2, <1>3 DEF Cores
<1>5. Tidy(core')
  BY <1>2, <1>4 DEF IInv, Kept, Tidy
<1>6. Quiet(core, core')
  BY <1>a, <1>b, <1>1, <1>4, <1>5 DEF Quiet, Unchased
<1>7. Kept(core', bought, first)
  BY <1>6, QuietKeeps DEF IInv
<1>8. bought' = bought /\ first' = first
  BY DEF Ack
<1> QED
  BY <1>4, <1>7, <1>8 DEF IInv

\* The key a fact about an order resolves to is one of the order's own leg.
LEMMA ResolveOwn ==
  ASSUME NEW s, NEW b, Shown(s, b), NEW k \in Slots
  PROVE  /\ Resolve(s, k) # NoKey
         /\ \A m \in Legs : OwnKey(Resolve(s, k), m) => m = k[2]
         /\ Resolve(s, k) \in {k, <<"entry", k[2]>>, <<"chase", k[2]>>}
         /\ k[1] \in {"entry", "replaced"} => Resolve(s, k) = <<"entry", k[2]>>
         /\ k[1] = "escalated" /\ s.cont[k[2]] = <<"entry", k[2]>>
              => Resolve(s, k) = <<"entry", k[2]>>
<1>1. k[2] \in Legs /\ k = <<k[1], k[2]>>
  BY SlotFacts
<1>2. OwnKey(s.cont[k[2]], k[2])
  BY <1>1, Zenon DEF Shown
<1>3. s.cont[k[2]] # NoKey => s.cont[k[2]] \in {<<"entry", k[2]>>, <<"chase", k[2]>>}
  BY <1>2 DEF OwnKey
<1>4. /\ Resolve(s, k) \in {k, <<"entry", k[2]>>, <<"chase", k[2]>>}
      /\ k[1] \in {"entry", "replaced"} => Resolve(s, k) = <<"entry", k[2]>>
      /\ k[1] = "escalated" /\ s.cont[k[2]] = <<"entry", k[2]>>
              => Resolve(s, k) = <<"entry", k[2]>>
  <2>1. CASE k[1] = "replaced"
    BY <2>1 DEF Resolve
  <2>2. CASE k[1] = "escalated" /\ s.cont[k[2]] # NoKey
    BY <1>3, <2>2 DEF Resolve
  <2>3. CASE k[1] = "escalated" /\ s.cont[k[2]] = NoKey
    <3>1. NoKey # <<"entry", k[2]>>
      BY <1>1, KeyFacts
    <3> QED
      BY <2>3, <3>1 DEF Resolve
  <2>4. CASE k[1] # "replaced" /\ k[1] # "escalated"
    BY <1>1, <2>4 DEF Resolve
  <2> QED
    BY <2>1, <2>2, <2>3, <2>4
<1>5. PICK kind : Resolve(s, k) = <<kind, k[2]>>
  BY <1>1, <1>4
<1>6. Resolve(s, k) # NoKey
  BY <1>5 DEF NoKey
<1>7. ASSUME NEW m \in Legs, OwnKey(Resolve(s, k), m) PROVE m = k[2]
  BY <1>5, <1>6, <1>7 DEF OwnKey
<1> QED
  BY <1>4, <1>6, <1>7

\* A fill is told to the leg it was bought for, and to no other.
LEMMA FillStep ==
  ASSUME IInv, NEW k \in Slots, NEW n \in 1..MaxBought, Fill(k, n)
  PROVE  IInv'
<1> DEFINE o == core.orders[k]
           l == k[2]
           buy == k[1] # "flatten"
           told == IF buy THEN on_order_event(core, {k}, n, FALSE) ELSE core
           shares == core.pos[l].shares + (IF buy THEN n ELSE -n)
           r == IF o.filled + n = o.size THEN Finished(k) ELSE [o EXCEPT !.filled = @ + n]
           p == IF shares <= 0 THEN [shares |-> 0, age |-> 0]
                ELSE [core.pos[l] EXCEPT !.shares = shares]
           b == bought'
<1>0. core \in Cores /\ n \in Int /\ MaxBought \in Nat /\ Tidy(core) /\ bought \in [Legs -> Int]
      /\ first \in BOOLEAN /\ l \in Legs /\ o \in OrderRecs /\ k = <<k[1], l>>
  BY PairAssumption, SlotFacts, OrderFields DEF IInv, Kept
<1>1. o.open /\ o.status # "none"
  BY <1>0 DEF Fill, Tidy
<1>2. r \in OrderRecs /\ (r.status # "none" \/ (r.status = "none" /\ k[1] \notin {"entry", "chase"}))
      /\ (r.status = "none" => ~r.open)
  <2> HIDE DEF o
  <2>1. [o EXCEPT !.filled = @ + n] \in OrderRecs /\ [o EXCEPT !.filled = @ + n].status = o.status
    BY <1>0 DEF OrderRecs
  <2>2. CASE o.filled + n = o.size
    BY <2>2, FinishedRec
  <2>3. CASE o.filled + n # o.size
    BY <1>1, <2>1, <2>3
  <2> QED
    BY <2>2, <2>3
<1>3. p \in [shares : Int, age : Int]
  BY <1>0 DEF Cores
<1>4. /\ OnlyPair(core, told)
      /\ IsOpen(told.pair) = IsOpen(core.pair)
      /\ ~IsOpen(core.pair) => told = core
      /\ DOMAIN told.pair.legs = DOMAIN core.pair.legs
      /\ \A i \in DOMAIN core.pair.legs :
           /\ told.pair.legs[i].token = core.pair.legs[i].token
           /\ told.pair.legs[i].key = core.pair.legs[i].key
           /\ told.pair.legs[i].filled =
                IF buy /\ IsOpen(core.pair) /\ core.pair.legs[i].key = Resolve(core, k)
                THEN core.pair.legs[i].filled + n ELSE core.pair.legs[i].filled
  <2>1. CASE buy
    <3> DEFINE e == on_order_event(core, {k}, n, FALSE)
    <3>1. FALSE \in BOOLEAN
      OBVIOUS
    <3>2. /\ OnlyPair(core, e)
          /\ IsOpen(e.pair) = IsOpen(core.pair)
          /\ ~IsOpen(core.pair) => e = core
          /\ DOMAIN e.pair.legs = DOMAIN core.pair.legs
          /\ \A i \in DOMAIN core.pair.legs :
               LET leg == core.pair.legs[i] IN
               /\ e.pair.legs[i].token = leg.token /\ e.pair.legs[i].key = leg.key
               /\ e.pair.legs[i].filled =
                    IF IsOpen(core.pair) /\ leg.key \in ResolvedKeys(core, {k})
                    THEN leg.filled + n ELSE leg.filled
      BY <1>0, <3>1, EventFacts, Zenon
    <3>3. \A x : x \in ResolvedKeys(core, {k}) <=> x = Resolve(core, k)
      BY DEF ResolvedKeys
    <3>4. told = e
      BY <2>1
    <3> HIDE DEF e, told
    <3> QED
      BY <2>1, <3>2, <3>3, <3>4
  <2>2. CASE ~buy
    BY <1>0, <2>2 DEF OnlyPair
  <2> QED
    BY <2>1, <2>2
<1>5. core' = [told EXCEPT !.orders[k] = r, !.pos[l] = p]
  <2>1. told.pos = core.pos
    BY <1>4 DEF OnlyPair
  <2> HIDE DEF told
  <2>2. told.pos[l] = core.pos[l] /\ told \in Cores
    BY <1>4, <2>1 DEF OnlyPair
  <2>3. core' = [told EXCEPT
           !.orders[k] = IF o.filled + n = o.size THEN Finished(k)
                         ELSE [o EXCEPT !.filled = @ + n],
           !.pos[k[2]] = IF shares <= 0 THEN [shares |-> 0, age |-> 0]
                         ELSE [@ EXCEPT !.shares = shares]]
    BY DEF Fill, told
  <2> QED
    BY <2>2, <2>3
<1>6. /\ core' \in Cores /\ core'.orders[k] = r
      /\ \A j \in Slots : j # k => core'.orders[j] = core.orders[j]
      /\ core'.pair = told.pair /\ core'.cont = core.cont
  <2> HIDE DEF told, r, p
  <2> QED
    BY <1>0, <1>2, <1>3, <1>4, <1>5 DEF OnlyPair, Cores
<1>7. /\ b \in [Legs -> Int] /\ \A m \in Legs : m # l => b[m] = bought[m]
      /\ b[l] = IF buy THEN bought[l] + n ELSE bought[l]
  BY <1>0 DEF Fill
<1>8. Tidy(core')
  <2> HIDE DEF r
  <2> QED
    BY <1>0, <1>2, <1>6 DEF Tidy
<1>9. ASSUME first, core.pair.status # "Closed" PROVE Shown(core', b)
  <2>1. Shown(core, bought)
    BY <1>9 DEF IInv, Kept
  <2>2. /\ Resolve(core, k) # NoKey
        /\ \A m \in Legs : OwnKey(Resolve(core, k), m) => m = l
        /\ k[1] \in {"entry", "replaced"} => Resolve(core, k) = <<"entry", l>>
        /\ k[1] = "escalated" /\ core.cont[l] = <<"entry", l>>
              => Resolve(core, k) = <<"entry", l>>
    BY <2>1, ResolveOwn
  <2>3. \A i \in DOMAIN core.pair.legs : OwnKey(core.pair.legs[i].key, core.pair.legs[i].token)
    BY <2>1, Zenon DEF Shown
  <2> HIDE DEF r, p, told, shares, b
  <2>4. ASSUME NEW i \in DOMAIN core.pair.legs, core.pair.legs[i].token # l
        PROVE  told.pair.legs[i].filled = core.pair.legs[i].filled
    <3>1. OwnKey(core.pair.legs[i].key, core.pair.legs[i].token) /\ core.pair.legs[i].token \in Legs
      BY <1>0, <2>3, PairFields DEF Cores
    <3>2. core.pair.legs[i].key # Resolve(core, k)
      BY <2>2, <2>4, <3>1
    <3> QED
      BY <1>4, <3>2
  <2>5. \A m \in Legs : OwnKey(core'.cont[m], m)
    BY <1>6, <2>1, Zenon DEF Shown
  <2>6. ASSUME NEW i \in DOMAIN core'.pair.legs
        PROVE  OwnKey(core'.pair.legs[i].key, core'.pair.legs[i].token)
    BY <1>4, <1>6, <2>3, Zenon
  <2>7. ASSUME NEW m \in Legs
        PROVE  /\ Unchased(core', m) => Unchased(core, m)
               /\ core'.orders[<<"escalated", m>>].status # "none"
                    => core.orders[<<"escalated", m>>].status # "none"
    <3>1. <<"chase", m>> \in Slots /\ <<"escalated", m>> \in Slots
      BY SlotFacts DEF BuyKinds
    <3>2. k = <<"chase", m>> => k[1] = "chase"
      OBVIOUS
    <3>3. k = <<"chase", m>> => core'.orders[k].status # "none"
      BY <1>2, <1>6, <3>2
    <3>4. Unchased(core', m) => Unchased(core, m)
      BY <1>6, <3>1, <3>3 DEF Unchased
    <3>5. core'.orders[<<"escalated", m>>].status # "none"
            => core.orders[<<"escalated", m>>].status # "none"
      BY <1>1, <1>6, <3>1
    <3> QED
      BY <3>4, <3>5
  <2>8. ASSUME NEW m \in Legs, Unchased(core', m)
        PROVE  Untouched(core', b, m) \/ Told(core', b, m)
    <3>1. Unchased(core, m)
      BY <2>7, <2>8
    <3>2. Untouched(core, bought, m) \/ Told(core, bought, m)
      BY <2>1, <3>1, Zenon DEF Shown
    <3>3. CASE m = l /\ k[1] \in MakerKinds
      <4>1. Told(core, bought, l)
        BY <1>0, <1>1, <1>9, <3>1, <3>3, OfferedIsTold DEF IInv
      <4>2. k[1] = "escalated" => core.cont[l] = <<"entry", l>>
        BY <1>0, <1>1, <4>1 DEF Told
      <4>3. Resolve(core, k) = <<"entry", l>> /\ buy
        BY <2>2, <3>3, <4>2 DEF MakerKinds
      <4>4. ASSUME NEW i \in DOMAIN core.pair.legs, core.pair.legs[i].token = l
            PROVE  told.pair.legs[i].filled = b[l]
        BY <1>4, <1>7, <4>1, <4>3, <4>4 DEF Told
      <4>5. Declared(core'.pair, l)
        BY <1>4, <1>6, <4>1 DEF Told, Declared
      <4>a. ASSUME NEW i \in DOMAIN core'.pair.legs, core'.pair.legs[i].token = l
            PROVE  core'.pair.legs[i].key = <<"entry", l>> /\ core'.pair.legs[i].filled = b[l]
        <5>1. i \in DOMAIN core.pair.legs /\ core.pair.legs[i].token = l
          BY <1>4, <1>6, <4>a
        <5>2. core.pair.legs[i].key = <<"entry", l>>
          BY <4>1, <5>1 DEF Told
        <5> QED
          BY <1>4, <1>6, <4>4, <5>1, <5>2
      <4>b. core'.orders[<<"escalated", l>>].status # "none" => core'.cont[l] = <<"entry", l>>
        BY <1>0, <1>6, <2>7, <4>1 DEF Told
      <4>c. IsOpen(core'.pair)
        BY <1>4, <1>6, <4>1 DEF Told
      <4>6. Told(core', b, l)
        BY <4>5, <4>a, <4>b, <4>c DEF Told
      <4> QED
        BY <3>3, <4>6
    <3>4. CASE ~(m = l /\ k[1] \in MakerKinds)
      <4>1. m = l => k[1] = "flatten"
        <5>1. k[1] # "chase" \/ m # l
          BY <1>0, <1>1, <3>1 DEF Unchased
        <5> QED
          BY <3>4, <5>1, SlotFacts DEF MakerKinds, BuyKinds
      <4>2. b[m] = bought[m]
        BY <1>7, <4>1
      <4>3. ASSUME NEW i \in DOMAIN core.pair.legs, core.pair.legs[i].token = m
            PROVE  told.pair.legs[i].filled = core.pair.legs[i].filled
        BY <1>4, <2>4, <4>1, <4>3
      <4>4. \A kind \in MakerKinds : <<kind, m>> \in Slots /\ <<kind, m>> # k
        <5>1. \A kind \in MakerKinds : <<kind, m>> \in Slots
          BY SlotFacts DEF MakerKinds, BuyKinds
        <5>2. ASSUME NEW kind \in MakerKinds PROVE <<kind, m>> # k
          BY <3>4
        <5> QED
          BY <5>1, <5>2
      <4>5. Untouched(core, bought, m) => Untouched(core', b, m)
        BY <1>4, <1>6, <4>2, <4>3, <4>4 DEF Untouched
      <4>6. ASSUME Told(core, bought, m) PROVE Told(core', b, m)
        <5>1. Declared(core'.pair, m)
          BY <1>4, <1>6, <4>6 DEF Told, Declared
        <5> QED
          BY <1>4, <1>6, <2>7, <4>2, <4>3, <4>6, <5>1 DEF Told
      <4> QED
        BY <3>2, <4>5, <4>6
    <3> QED
      BY <3>3, <3>4
  <2> QED
    BY <2>5, <2>6, <2>8 DEF Shown
<1>10. core.pair.status # "Closed" <=> core'.pair.status # "Closed"
  <2> HIDE DEF told
  <2>1. CASE IsOpen(core.pair)
    BY <1>4, <1>6, <2>1 DEF IsOpen
  <2>2. CASE ~IsOpen(core.pair)
    BY <1>4, <1>6, <2>2
  <2> QED
    BY <2>1, <2>2
<1>11. first' = first
  BY DEF Fill
<1> HIDE DEF b, told, r, p
<1>12. Kept(core', b, first)
  BY <1>6, <1>8, <1>9, <1>10 DEF Kept
<1> QED
  BY <1>0, <1>7, <1>10, <1>11, <1>12 DEF IInv, b

\* What a step needs to show when the history variables stay.
LEMMA StepKeeps ==
  ASSUME IInv, Kept(core', bought, first), first => core'.pair.status # "Closed",
         bought' = bought, first' = first
  PROVE  IInv'
  BY DEF IInv

\* Ending orders neither closes a pair nor forgets that they were.
LEMMA EndStatus ==
  ASSUME NEW s \in Cores, NEW ks \in SUBSET Slots
  PROVE  /\ s.pair.status # "Closed" => End(s, ks).pair.status # "Closed"
         /\ \A k \in ks : End(s, ks).orders[k].status = "done"
<1> DEFINE t == End(s, ks)
<1>1. /\ IsOpen(t.pair) = IsOpen(s.pair) /\ (~IsOpen(s.pair) => t.pair = s.pair)
      /\ \A k \in Slots : t.orders[k] = IF k \in ks THEN Over(s.orders[k]) ELSE s.orders[k]
  BY EndFacts
<1> HIDE DEF t
<1>2. s.pair.status # "Closed" => t.pair.status # "Closed"
  BY <1>1 DEF IsOpen
<1>3. ASSUME NEW k \in ks PROVE t.orders[k].status = "done"
  BY <1>1, OverRec, OrderFields
<1> QED
  BY <1>2, <1>3 DEF t

LEMMA CancelStep ==
  ASSUME IInv, NEW k \in Slots, NEW gone \in BOOLEAN, Cancel(k, gone)
  PROVE  IInv'
<1> DEFINE t == End(core, {k})
<1>1. core.orders[k].status # "none" /\ core \in Cores /\ first \in BOOLEAN
  BY DEF Cancel, IInv, Kept
<1>2. Kept(t, bought, first)
  BY <1>1, EndKeeps DEF IInv
<1>3. (first => t.pair.status # "Closed") /\ t.orders[k].status = "done"
  BY <1>1, EndStatus DEF IInv
<1>4. core' = IF gone THEN Closed(t, k) ELSE t
  BY DEF Cancel
<1> HIDE DEF t
<1>5. Kept(Closed(t, k), bought, first) /\ Closed(t, k).pair = t.pair
  BY <1>1, <1>2, <1>3, ClosedKeeps, ClosedFacts DEF Kept
<1>6. bought' = bought /\ first' = first
  BY DEF Cancel
<1>7. Kept(core', bought, first) /\ (first => core'.pair.status # "Closed")
  BY <1>2, <1>3, <1>4, <1>5
<1> QED
  BY <1>6, <1>7, StepKeeps

LEMMA VenueCloseStep ==
  ASSUME IInv, NEW k \in Slots, VenueClose(k)
  PROVE  IInv'
<1>1. core.orders[k].status # "none" /\ core \in Cores /\ core' = Closed(core, k)
  BY DEF VenueClose, IInv, Kept
<1>2. Kept(core', bought, first) /\ core'.pair = core.pair
  BY <1>1, ClosedKeeps, ClosedFacts DEF IInv
<1>3. bought' = bought /\ first' = first
  BY DEF VenueClose
<1> QED
  BY <1>2, <1>3, StepKeeps DEF IInv

LEMMA RejectStep ==
  ASSUME IInv, NEW k \in Slots, NEW ask \in Asks, NEW gate \in Gates, NEW x \in BOOLEAN,
         Reject(k, ask, gate, x)
  PROVE  IInv'
<1> DEFINE l == k[2]
           ended == End(core, {k})
           gone == Closed(ended, k)
           tied == bind_continuation(gone, l)
           n == core.orders[k].size
           placed == Place(tied, <<"escalated", l>>, n)
<1>1. /\ core.orders[k].status # "none" /\ core \in Cores /\ first \in BOOLEAN /\ n \in Int
      /\ l \in Legs /\ k = <<k[1], l>> /\ <<"escalated", l>> \in Slots
  <2>1. l \in Legs /\ k = <<k[1], l>> /\ <<"escalated", l>> \in Slots
    BY SlotFacts DEF BuyKinds
  <2>2. core \in Cores /\ first \in BOOLEAN
    BY DEF IInv, Kept
  <2> QED
    BY <2>1, <2>2, OrderFields DEF Reject
<1>2. Kept(ended, bought, first)
  BY <1>1, EndKeeps DEF IInv
<1>3. (first => ended.pair.status # "Closed") /\ ended.orders[k].status = "done"
  BY <1>1, EndStatus DEF IInv
<1> HIDE DEF ended
<1>4. Kept(gone, bought, first) /\ gone.pair = ended.pair /\ gone.orders[k] = Finished(k)
  <2>1. Kept(gone, bought, first)
    BY <1>1, <1>2, <1>3, ClosedKeeps
  <2>2. gone.pair = ended.pair /\ gone.orders[k] = Finished(k)
    BY <1>2, ClosedFacts DEF Kept
  <2> QED
    BY <2>1, <2>2
<1> HIDE DEF gone
<1>5. ASSUME x
      PROVE  /\ Kept(tied, bought, first) /\ tied.pair = gone.pair
             /\ Ready(tied, bought, first, <<"escalated", l>>)
  <2>1. k[1] = "entry"
    BY <1>5 DEF Reject
  <2>2. gone.orders[<<"entry", l>>].status # "none"
    BY <1>1, <1>4, <2>1, FinishedRec
  <2> QED
    BY <1>1, <1>4, <2>2, TieKeeps
<1> HIDE DEF tied, n
<1>6. ASSUME x PROVE Kept(placed, bought, first) /\ placed.pair = tied.pair
  <2>1. Kept(placed, bought, first)
    BY <1>1, <1>5, <1>6, PlaceKeeps
  <2>2. placed.pair = tied.pair
    BY <1>1, <1>5, <1>6, PlaceFacts DEF Kept
  <2> QED
    BY <2>1, <2>2
<1>7. core' = IF ~x \/ ask = "none" THEN gone ELSE IF gate # "open" THEN tied ELSE placed
  BY DEF Reject, tied, gone, ended, n
<1> HIDE DEF placed
<1>8. Kept(core', bought, first) /\ (first => core'.pair.status # "Closed")
  BY <1>3, <1>4, <1>5, <1>6, <1>7
<1>9. bought' = bought /\ first' = first
  BY DEF Reject
<1> QED
  BY <1>8, <1>9, StepKeeps

LEMMA ExpireStep == ASSUME IInv, Expire PROVE IInv'
<1>1. core \in Cores
  BY DEF IInv, Kept
<1> DEFINE ch == [l \in Legs |-> NoClock]
<1>a. ch \in [Legs -> Int] /\ {} \in SUBSET Legs
  BY DEF NoClock
<1>b. core' = [core EXCEPT !.pending = {}, !.chased = ch]
  BY DEF Expire
<1> HIDE DEF ch
<1>2. /\ core' \in Cores /\ core'.orders = core.orders /\ core'.pair = core.pair
      /\ core'.cont = core.cont
  BY <1>1, <1>a, <1>b DEF Cores
<1>3. Kept(core', bought, first)
  BY <1>2, SameKeeps DEF IInv
<1>4. bought' = bought /\ first' = first
  BY DEF Expire
<1> QED
  BY <1>2, <1>3, <1>4, StepKeeps DEF IInv

LEMMA RoundMarketsStep == ASSUME IInv, RoundMarkets PROVE IInv'
<1> DEFINE q == [core.pair EXCEPT !.status = "Closed", !.naked = NoToken]
<1>1. core \in Cores /\ core.pair \in PairRecs
  BY DEF IInv, Kept, Cores
<1>2. q \in PairRecs /\ core' = [core EXCEPT !.pair = q]
  BY <1>1, ClosedPair DEF RoundMarkets, retire_before, Cores
<1> HIDE DEF q
<1>3. core' \in Cores /\ core'.orders = core.orders
  BY <1>1, <1>2, CoreWith
<1>4. Tidy(core') /\ ~first' /\ bought' = bought /\ first' \in BOOLEAN
  BY <1>3 DEF IInv, Kept, Tidy, RoundMarkets
<1> QED
  BY <1>3, <1>4 DEF IInv, Kept

-----------------------------------------------------------------------------
(* The tick *)

\* t holds what s holds, and a SELL is live in t only if it was in s or its
\* leg is in X.
Flat(s, t, X) ==
  /\ \A m \in Legs : t.pos[m].shares = s.pos[m].shares
  /\ \A m \in Legs : Live(t, <<"flatten", m>>) => Live(s, <<"flatten", m>>) \/ m \in X

\* The clocks run on.
LEMMA AgedKeeps ==
  ASSUME NEW s, NEW b, NEW f \in BOOLEAN, Kept(s, b, f)
  PROVE  Kept(Aged(s), b, f) /\ Flat(s, Aged(s), {}) /\ Aged(s).pair = s.pair
<1> DEFINE t == Aged(s)
           rows == [k \in Slots |->
                      [s.orders[k] EXCEPT !.clock = IF @ > 0 THEN @ - 1 ELSE @]]
           ps == [l \in Legs |->
                    IF s.pos[l].shares > 0 /\ s.pos[l].age < Grace
                      THEN [s.pos[l] EXCEPT !.age = @ + 1] ELSE s.pos[l]]
           ch == [l \in Legs |-> IF s.chased[l] \in 0..(ChaseWindow - 2)
                                   THEN s.chased[l] + 1 ELSE NoClock]
<1>0. s \in Cores
  BY DEF Kept
<1>1. ASSUME NEW k \in Slots
      PROVE  /\ rows[k] \in OrderRecs /\ rows[k].status = s.orders[k].status
             /\ rows[k].open = s.orders[k].open
  <2>1. s.orders[k] \in OrderRecs
    BY <1>0, OrderFields
  <2> QED
    BY <2>1 DEF OrderRecs
<1>2. rows \in [Slots -> OrderRecs]
  BY <1>1
<1>3. ps \in [Legs -> [shares : Int, age : Int]] /\ \A l \in Legs : ps[l].shares = s.pos[l].shares
  BY <1>0, PairAssumption DEF Cores
<1>4. ch \in [Legs -> Int]
  BY <1>0, PairAssumption DEF Cores, NoClock
<1>5. t = [s EXCEPT !.orders = rows, !.pos = ps, !.chased = ch]
  BY DEF Aged, Held
<1> HIDE DEF rows, ps, ch, t
<1>6. /\ t \in Cores /\ t.orders = rows /\ t.pos = ps /\ t.pair = s.pair /\ t.cont = s.cont
  BY <1>0, <1>2, <1>3, <1>4, <1>5 DEF Cores
<1>a. \A l \in Legs, kind \in {"entry", "replaced", "escalated", "chase", "flatten"} :
        <<kind, l>> \in Slots
  BY SlotFacts DEF BuyKinds
<1>7. Quiet(s, t)
  BY <1>1, <1>6, <1>a DEF Quiet, Kept, Tidy, Unchased, MakerKinds
<1>8. Kept(t, b, f)
  BY <1>7, QuietKeeps
<1>9. Flat(s, t, {})
  BY <1>1, <1>3, <1>6, <1>a DEF Flat, Live
<1> QED
  BY <1>6, <1>8, <1>9 DEF t

\* The expired round's orders are ended.
LEMMA ExpirySweepKeeps ==
  ASSUME NEW s, NEW b, NEW f \in BOOLEAN, Kept(s, b, f)
  PROVE  Kept(ExpirySweep(s), b, f) /\ Flat(s, ExpirySweep(s), {})
<1> DEFINE ks == {k \in BuyKinds \X Legs : Live(s, k)}
           t == End(s, ks)
<1>0. s \in Cores /\ ks \in SUBSET Slots
  BY DEF Kept, Slots
<1>1. \A k \in ks : s.orders[k].status # "none"
  BY DEF Live, LiveStatuses
<1>2. ExpirySweep(s) = IF ~expired THEN s ELSE t
  BY DEF ExpirySweep
<1> HIDE DEF ks
<1>3. Kept(t, b, f)
  BY <1>0, <1>1, EndKeeps
<1>4. /\ t.pos = s.pos
      /\ \A k \in Slots : t.orders[k] = IF k \in ks THEN Over(s.orders[k]) ELSE s.orders[k]
      /\ \A k \in ks : t.orders[k].status = "done"
  BY <1>0, EndFacts, EndStatus
<1> HIDE DEF t
<1>5. Flat(s, t, {})
  <2>1. \A m \in Legs : <<"flatten", m>> \in Slots
    BY SlotFacts
  <2> QED
    BY <1>4, <2>1 DEF Flat, Live, LiveStatuses
<1>6. Flat(s, s, {})
  BY DEF Flat
<1> QED
  BY <1>2, <1>3, <1>5, <1>6

\* Flat steps follow each other.
LEMMA FlatTrans ==
  ASSUME NEW s, NEW t, NEW u, NEW X, NEW Y, Flat(s, t, X), Flat(t, u, Y)
  PROVE  Flat(s, u, X \cup Y)
  BY DEF Flat

\* An attempt to buy the missing leg.
LEMMA ChasedKeeps ==
  ASSUME NEW s, NEW b, NEW f \in BOOLEAN, Kept(s, b, f), NEW l \in Legs,
         NEW ask \in Asks, NEW gate \in Gates
  PROVE  LET c == Chased(s, l, ask, gate) IN
         /\ Kept(c.st, b, f) /\ Flat(s, c.st, {})
<1> DEFINE m == Other(l)
           k == <<"chase", m>>
           stamped == [s EXCEPT !.chased[l] = 0]
           placed == Place(stamped, k, s.pos[l].shares)
           bound == [placed EXCEPT !.pair = bind_by_leg(@, m, k)]
<1>0. s \in Cores /\ m \in Legs /\ k \in Slots /\ s.pos[l].shares \in Int
  <2>1. m \in Legs /\ k \in Slots
    BY SlotFacts DEF BuyKinds
  <2>2. s \in Cores
    BY DEF Kept
  <2> QED
    BY <2>1, <2>2 DEF Cores
<1>a. \A j \in Legs : <<"flatten", j>> \in Slots /\ <<"flatten", j>> # k
  BY SlotFacts
<1>1. /\ stamped \in Cores /\ stamped.orders = s.orders /\ stamped.pos = s.pos
      /\ stamped.pair = s.pair /\ stamped.cont = s.cont
  <2> DEFINE ch == [s.chased EXCEPT ![l] = 0]
  <2>1. ch \in [Legs -> Int]
    BY <1>0 DEF Cores
  <2>2. stamped = [s EXCEPT !.chased = ch]
    BY <1>0 DEF Cores
  <2> HIDE DEF ch, stamped
  <2> QED
    BY <1>0, <2>1, <2>2 DEF Cores
<1> HIDE DEF stamped
<1>2. Kept(stamped, b, f)
  BY <1>1, SameKeeps
<1>3. Ready(stamped, b, f, k)
  BY DEF Ready, MakerKinds
<1>4. Kept(placed, b, f)
  BY <1>0, <1>2, <1>3, PlaceKeeps
<1>5. /\ placed.orders[k].status = "pending" /\ placed.pos = stamped.pos
      /\ \A j \in Slots : j # k => placed.orders[j] = stamped.orders[j]
  BY <1>0, <1>1, PlaceFacts
<1> HIDE DEF placed
<1>6. Kept(bound, b, f) /\ bound.orders = placed.orders /\ bound.pos = placed.pos
  <2>1. ~Unchased(placed, m)
    BY <1>5 DEF Unchased
  <2> QED
    BY <1>0, <1>4, <2>1, BindKeeps
<1> HIDE DEF bound
<1>7. Flat(s, stamped, {}) /\ Flat(s, bound, {}) /\ Flat(s, s, {})
  BY <1>1, <1>5, <1>6, <1>a DEF Flat, Live
<1>8. Chased(s, l, ask, gate).st \in {s, stamped, bound}
  BY DEF Chased, Offer, stamped, placed, bound
<1> QED
  BY <1>2, <1>6, <1>7, <1>8

\* The orphan sweep over one leg: it sells an orphan, and no other.
LEMMA SweepLegKeeps ==
  ASSUME NEW s, NEW b, NEW f \in BOOLEAN, Kept(s, b, f), NEW l \in Legs,
         NEW ask \in Asks, NEW gate \in Gates
  PROVE  LET t == SweepLeg(s, l, ask, gate) IN
         /\ Kept(t, b, f)
         /\ Flat(s, t, {l})
         /\ ~IsOrphan(s, l) => t = s
<1> DEFINE c == Chased(s, l, ask, gate)
           flat == FlattenLeg(c.st, l)
           k == <<"flatten", l>>
           q == close_by_token(flat.pair, l)
           shut == [flat EXCEPT !.pair = close_by_token(@, l), !.chased[l] = NoClock]
<1>0. k \in Slots
  BY SlotFacts
<1>1. Kept(c.st, b, f) /\ Flat(s, c.st, {})
  BY ChasedKeeps
<1>2. SweepLeg(s, l, ask, gate) =
        IF ~IsOrphan(s, l) THEN s ELSE IF c.out \/ InWindow(c.st, l) THEN c.st ELSE shut
  BY DEF SweepLeg
<1> HIDE DEF c
<1>3. Kept(flat, b, f) /\ Flat(c.st, flat, {l})
  <2> DEFINE n == c.st.pos[l].shares
             p == Place(c.st, k, n)
  <2>1. c.st \in Cores /\ n \in Int
    BY <1>1 DEF Kept, Cores
  <2>2. Ready(c.st, b, f, k)
    BY DEF Ready, MakerKinds
  <2>3. Kept(p, b, f)
    BY <1>0, <1>1, <2>1, <2>2, PlaceKeeps
  <2>4. p.pos = c.st.pos /\ \A j \in Slots : j # k => p.orders[j] = c.st.orders[j]
    BY <1>0, <2>1, PlaceFacts
  <2>5. \A j \in Legs : <<"flatten", j>> \in Slots /\ (j # l => <<"flatten", j>> # k)
    BY SlotFacts
  <2>6. flat \in {c.st, p}
    BY DEF FlattenLeg
  <2> HIDE DEF p, flat
  <2>7. Flat(c.st, p, {l}) /\ Flat(c.st, c.st, {l})
    BY <2>4, <2>5 DEF Flat, Live
  <2> QED
    BY <1>1, <2>3, <2>6, <2>7
<1> HIDE DEF flat
<1>4. flat \in Cores /\ flat.pair \in PairRecs
  BY <1>3 DEF Kept, Cores
<1>5. q \in PairRecs /\ (q = flat.pair \/ q.status = "Closed")
  BY <1>4, ClosedPair DEF close_by_token
<1>6. shut = [flat EXCEPT !.pair = q, !.chased[l] = NoClock]
  BY <1>4 DEF Cores
<1> DEFINE ch == [flat.chased EXCEPT ![l] = NoClock]
<1>a. ch \in [Legs -> Int]
  BY <1>4 DEF Cores, NoClock
<1>b. shut = [flat EXCEPT !.pair = q, !.chased = ch]
  BY <1>4, <1>6 DEF Cores
<1> HIDE DEF q, shut, ch
<1>7. /\ shut \in Cores /\ shut.pair = q /\ shut.orders = flat.orders /\ shut.pos = flat.pos
      /\ shut.cont = flat.cont
  BY <1>4, <1>5, <1>a, <1>b DEF Cores
<1>8. Kept(shut, b, f)
  <2>1. CASE q = flat.pair
    BY <1>3, <1>7, <2>1, SameKeeps
  <2>2. CASE q.status = "Closed"
    BY <1>3, <1>7, <2>2 DEF Kept, Tidy
  <2> QED
    BY <1>5, <2>1, <2>2
<1>9. Flat(s, shut, {l}) /\ Flat(s, c.st, {l}) /\ Flat(s, s, {l})
  BY <1>1, <1>3, <1>7 DEF Flat, Live
<1> QED
  BY <1>1, <1>2, <1>8, <1>9

\* The escalation of the leg's entry.
LEMMA EscalateKeeps ==
  ASSUME NEW s, NEW b, NEW f \in BOOLEAN, Kept(s, b, f), NEW l \in Legs,
         NEW ask \in Asks, NEW gate \in Gates
  PROVE  LET t == Escalate(s, l, ask, gate) IN Kept(t, b, f) /\ Flat(s, t, {})
<1> DEFINE e == <<"entry", l>>
           x == <<"escalated", l>>
           tied == bind_continuation(s, l)
           Rearm(t) == [t EXCEPT !.orders[e].clock = MakerTimeout]
           ended == End(tied, {e})
           n == s.orders[e].size - s.orders[e].filled
           placed == Place(ended, x, n)
           t == Escalate(s, l, ask, gate)
<1>0. /\ e \in Slots /\ x \in Slots /\ s \in Cores /\ n \in Int /\ MakerTimeout \in Int
  <2>1. e \in Slots /\ x \in Slots
    BY SlotFacts DEF BuyKinds
  <2>2. s \in Cores
    BY DEF Kept
  <2> QED
    BY <2>1, <2>2, OrderFields, PairAssumption
<1>a. \A j \in Legs : /\ <<"flatten", j>> \in Slots /\ <<"flatten", j>> # e
                      /\ <<"flatten", j>> # x
  BY SlotFacts
<1>b. \A j \in Legs, kind \in {"entry", "replaced", "escalated", "chase"} : <<kind, j>> \in Slots
  BY SlotFacts DEF BuyKinds
<1>1. t = IF ~(Live(s, e) /\ s.orders[e].clock = 0) THEN s
          ELSE IF ask = "none" THEN Rearm(s)
          ELSE IF gate = "shut" THEN Rearm(tied)
          ELSE IF gate = "unfunded" THEN ended
          ELSE placed
  BY DEF Escalate
<1>2. ASSUME NEW u, Kept(u, b, f) PROVE Kept(Rearm(u), b, f) /\ Flat(u, Rearm(u), {})
  <2> DEFINE r == [u.orders[e] EXCEPT !.clock = MakerTimeout]
             v == [u EXCEPT !.orders[e] = r]
  <2>1. u \in Cores
    BY <1>2 DEF Kept
  <2>2. r \in OrderRecs /\ r.status = u.orders[e].status /\ r.open = u.orders[e].open
    <3>1. u.orders[e] \in OrderRecs
      BY <1>0, <2>1, OrderFields
    <3> QED
      BY <1>0, <3>1 DEF OrderRecs
  <2>3. Rearm(u) = v
    BY <1>0, <2>1 DEF Cores, OrderRecs
  <2> HIDE DEF r
  <2>4. /\ v \in Cores /\ v.orders[e] = r /\ (\A j \in Slots : j # e => v.orders[j] = u.orders[j])
        /\ v.pos = u.pos /\ v.pair = u.pair /\ v.cont = u.cont
    BY <1>0, <2>1, <2>2 DEF Cores
  <2> HIDE DEF v, Rearm
  <2>5. \A j \in Slots : v.orders[j].status = u.orders[j].status /\ v.orders[j].open = u.orders[j].open
    BY <2>2, <2>4
  <2>6. Quiet(u, v)
    BY <1>2, <1>b, <2>4, <2>5 DEF Quiet, Kept, Tidy, Unchased, MakerKinds
  <2>7. Flat(u, v, {})
    BY <1>a, <2>4, <2>5 DEF Flat, Live
  <2> QED
    BY <1>2, <2>3, <2>6, <2>7, QuietKeeps
<1> HIDE DEF Rearm
<1>3. CASE Live(s, e)
  <2>1. s.orders[e].status # "none"
    BY <1>3 DEF Live, LiveStatuses
  <2>2. /\ Kept(tied, b, f) /\ Ready(tied, b, f, x)
        /\ tied.orders = s.orders /\ tied.pos = s.pos
    BY <2>1, TieKeeps
  <2> HIDE DEF tied
  <2>3. Flat(s, tied, {})
    BY <2>2 DEF Flat, Live
  <2>4. Quiet(tied, ended) /\ Kept(ended, b, f)
    BY <1>0, <2>1, <2>2, EndKeeps
  <2>5. /\ ended.pos = tied.pos /\ ended.orders[e].status = "done"
        /\ \A j \in Slots : j # e => ended.orders[j] = tied.orders[j]
    <3>1. tied \in Cores /\ {e} \in SUBSET Slots
      BY <1>0, <2>2 DEF Kept
    <3> QED
      BY <3>1, EndFacts, EndStatus
  <2> HIDE DEF ended
  <2>6. Flat(tied, ended, {})
    BY <1>a, <2>5 DEF Flat, Live
  <2>7. Ready(ended, b, f, x)
    <3> SUFFICES ASSUME f, ended.pair.status # "Closed", Unchased(ended, l)
                 PROVE  Told(ended, b, l) /\ ended.cont[l] = <<"entry", l>>
      BY DEF Ready
    <3>1. Told(ended, b, l)
      BY <2>4, <2>5, OfferedIsTold DEF MakerKinds
    <3>2. Unchased(tied, l) /\ tied.pair.status # "Closed" /\ ended.cont = tied.cont
      BY <2>4 DEF Quiet
    <3>3. tied.cont[l] = <<"entry", l>>
      BY <2>2, <3>2 DEF Ready, MakerKinds
    <3> QED
      BY <3>1, <3>2, <3>3
  <2> HIDE DEF n
  <2>8. Kept(placed, b, f)
    BY <1>0, <2>4, <2>7, PlaceKeeps
  <2>9. placed.pos = ended.pos /\ \A j \in Slots : j # x => placed.orders[j] = ended.orders[j]
    BY <1>0, <2>4, PlaceFacts DEF Kept
  <2> HIDE DEF placed
  <2>10. Flat(ended, placed, {})
    BY <1>a, <2>9 DEF Flat, Live
  <2>11. Flat(s, ended, {}) /\ Flat(s, placed, {}) /\ Flat(s, s, {})
    BY <2>3, <2>6, <2>10 DEF Flat
  <2>12. Kept(Rearm(tied), b, f) /\ Flat(s, Rearm(tied), {})
    BY <1>2, <2>2, <2>3 DEF Flat
  <2> HIDE DEF t
  <2> QED
    BY <1>1, <1>2, <2>4, <2>8, <2>11, <2>12 DEF t
<1>4. CASE ~Live(s, e)
  BY <1>1, <1>4 DEF Flat
<1> QED
  BY <1>3, <1>4

\* The sweeps of a tick, one after the other.
TickVia(ask, gate, s1, s2, s3, s4, s5) ==
  /\ s1 = ExpirySweep(Aged(core)) /\ s2 = SweepLeg(s1, A, ask, gate)
  /\ s3 = SweepLeg(s2, B, ask, gate) /\ s4 = Escalate(s3, A, ask, gate)
  /\ s5 = Escalate(s4, B, ask, gate)
  /\ core' = s5 /\ first' = (first /\ s5.pair.status # "Closed")

LEMMA TickParts ==
  ASSUME IInv, NEW ask \in Asks, NEW gate \in Gates, Tick(ask, gate)
  PROVE  \E s1, s2, s3, s4, s5 :
           /\ TickVia(ask, gate, s1, s2, s3, s4, s5)
           /\ Kept(s5, bought, first)
           /\ Flat(core, s1, {}) /\ Flat(s1, s2, {A}) /\ Flat(s2, s3, {B})
           /\ Flat(s3, s5, {})
           /\ ~IsOrphan(s1, A) => s2 = s1
           /\ ~IsOrphan(s2, B) => s3 = s2
<1>1. PICK s1, s2, s3, s4, s5 : TickVia(ask, gate, s1, s2, s3, s4, s5)
  BY DEF Tick, TickVia
<1>2. A \in Legs /\ B \in Legs /\ first \in BOOLEAN /\ Kept(core, bought, first)
  BY DEF Legs, IInv
<1>3. Kept(Aged(core), bought, first) /\ Flat(core, Aged(core), {})
  BY <1>2, AgedKeeps
<1>4. Kept(s1, bought, first) /\ Flat(Aged(core), s1, {})
  BY <1>1, <1>2, <1>3, ExpirySweepKeeps DEF TickVia
<1>5. Kept(s2, bought, first) /\ Flat(s1, s2, {A}) /\ (~IsOrphan(s1, A) => s2 = s1)
  BY <1>1, <1>2, <1>4, SweepLegKeeps DEF TickVia
<1>6. Kept(s3, bought, first) /\ Flat(s2, s3, {B}) /\ (~IsOrphan(s2, B) => s3 = s2)
  BY <1>1, <1>2, <1>5, SweepLegKeeps DEF TickVia
<1>7. Kept(s4, bought, first) /\ Flat(s3, s4, {})
  BY <1>1, <1>2, <1>6, EscalateKeeps DEF TickVia
<1>8. Kept(s5, bought, first) /\ Flat(s4, s5, {})
  BY <1>1, <1>2, <1>7, EscalateKeeps DEF TickVia
<1>9. Flat(core, s1, {}) /\ Flat(s3, s5, {})
  BY <1>3, <1>4, <1>7, <1>8 DEF Flat
<1> QED
  BY <1>1, <1>5, <1>6, <1>8, <1>9

LEMMA TickStep ==
  ASSUME IInv, NEW ask \in Asks, NEW gate \in Gates, Tick(ask, gate)
  PROVE  IInv'
<1>1. PICK s1, s2, s3, s4, s5 :
        TickVia(ask, gate, s1, s2, s3, s4, s5) /\ Kept(s5, bought, first)
  BY TickParts
<1>2. core' = s5 /\ first' = (first /\ s5.pair.status # "Closed")
  BY <1>1 DEF TickVia
<1>3. bought' = bought /\ first \in BOOLEAN
  BY DEF Tick, IInv
<1>4. Kept(core', bought, first') /\ (first' => core'.pair.status # "Closed") /\ first' \in BOOLEAN
  BY <1>1, <1>2, <1>3 DEF Kept
<1> QED
  BY <1>3, <1>4 DEF IInv

-----------------------------------------------------------------------------
(* Invariance *)

LEMMA InitIInv == Init => IInv
<1> SUFFICES ASSUME Init PROVE IInv
  OBVIOUS
<1> USE DEF Init
<1>1. core \in Cores
  <2>1. core.orders \in [Slots -> OrderRecs]
    BY NoOrderRec
  <2>2. core.pair \in PairRecs
    BY DEF NoPair, PairRecs
  <2>3. core.cont \in [Legs -> Keys] /\ core.chased \in [Legs -> Int]
    BY KeyFacts DEF NoClock
  <2>4. core.pos \in [Legs -> [shares : Int, age : Int]] /\ core.pending \in SUBSET Legs
    OBVIOUS
  <2>5. core = [orders |-> core.orders, pos |-> core.pos, pair |-> core.pair,
                cont |-> core.cont, chased |-> core.chased, pending |-> core.pending]
    OBVIOUS
  <2> QED
    BY <2>1, <2>2, <2>3, <2>4, <2>5 DEF Cores
<1>2. \A k \in Slots : core.orders[k].status = "none" /\ ~core.orders[k].open
  BY NoOrderRec
<1>3. core.pair.status = "none" /\ DOMAIN core.pair.legs = {}
  BY DEF NoPair
<1>4. Shown(core, bought)
  <2>1. \A l \in Legs, kind \in MakerKinds : <<kind, l>> \in Slots
    BY SlotFacts DEF MakerKinds, BuyKinds
  <2>2. ASSUME NEW l \in Legs PROVE Untouched(core, bought, l)
    BY <1>2, <1>3, <2>1 DEF Untouched
  <2>3. ASSUME NEW l \in Legs PROVE OwnKey(core.cont[l], l)
    BY DEF OwnKey
  <2>4. \A i \in DOMAIN core.pair.legs : OwnKey(core.pair.legs[i].key, core.pair.legs[i].token)
    BY <1>3
  <2> QED
    BY <2>2, <2>3, <2>4 DEF Shown
<1> QED
  BY <1>1, <1>2, <1>3, <1>4 DEF IInv, Kept, Tidy

LEMMA StutterIInv == ASSUME IInv, UNCHANGED vars PROVE IInv'
  BY DEF vars, IInv

LEMMA NextIInv == IInv /\ [Next]_vars => IInv'
<1> SUFFICES ASSUME IInv, [Next]_vars PROVE IInv'
  OBVIOUS
<1>1. CASE \E ls, sub \in SUBSET Legs, g \in Gates, d \in BOOLEAN : Evaluate(ls, sub, g, d)
  BY <1>1, EvaluateStep
<1>2. CASE \E l \in Legs : Ack(l)
  BY <1>2, AckStep
<1>3. CASE \E k \in Slots, n \in 1..MaxBought : Fill(k, n)
  BY <1>3, FillStep
<1>4. CASE \E k \in Slots, gone \in BOOLEAN : Cancel(k, gone)
  BY <1>4, CancelStep
<1>5. CASE \E k \in Slots : VenueClose(k)
  BY <1>5, VenueCloseStep
<1>6. CASE \E k \in Slots, a \in Asks, g \in Gates, x \in BOOLEAN : Reject(k, a, g, x)
  BY <1>6, RejectStep
<1>7. CASE Ticks(Asks)
  BY <1>7, TickStep DEF Ticks
<1>8. CASE Expire
  BY <1>8, ExpireStep
<1>9. CASE RoundMarkets
  BY <1>9, RoundMarketsStep
<1>10. CASE UNCHANGED vars
  BY <1>10, StutterIInv
<1> QED
  BY <1>1, <1>2, <1>3, <1>4, <1>5, <1>6, <1>7, <1>8, <1>9, <1>10 DEF Next

\* The core keeps its shape, and while the round's first pair is open a leg
\* of which something was offered is bound to the key its orders resolve to.
THEOREM BookInvariance == Spec => []IInv
  BY InitIInv, NextIInv, PTL DEF Spec

\* No fact is lost on the way to the pair book: whatever is requoted,
\* escalated, cancelled or filled late, a leg of the round's first pair that
\* was not chased shows every share bought of it.
THEOREM EveryFillTold == Spec => []FillsReachTheBook
  BY BookInvariance, ShownIsTold, PTL

-----------------------------------------------------------------------------
(* The orphan sweep *)

\* No SELL of a leg is live in t that was not in s.
NoNewSell(s, t) == \A m \in Legs : Live(t, <<"flatten", m>>) => Live(s, <<"flatten", m>>)

\* Slots other than the flattening ones are free to change.
LEMMA OtherSlots ==
  ASSUME NEW s, NEW t, NEW k, k[1] # "flatten",
         \A j \in Slots : j # k => t.orders[j] = s.orders[j]
  PROVE  NoNewSell(s, t)
<1>1. \A m \in Legs : <<"flatten", m>> \in Slots /\ <<"flatten", m>>[1] = "flatten"
  BY SlotFacts
<1>2. \A m \in Legs : <<"flatten", m>> # k
  BY <1>1
<1> QED
  BY <1>1, <1>2 DEF NoNewSell, Live

LEMMA SubmitSells ==
  ASSUME NEW s \in Cores, NEW l \in Legs, NEW gate, NEW differs
  PROVE  /\ SubmitEntry(s, l, gate, differs) \in Cores
         /\ NoNewSell(s, SubmitEntry(s, l, gate, differs))
<1> DEFINE e == <<"entry", l>>
           q == bind_by_leg(s.pair, l, e)
           bound == [s EXCEPT !.pair = bind_by_leg(@, l, e)]
           Noted(t) == [t EXCEPT !.pending = @ \cup {l}]
           old == <<"replaced", l>>
           ended == End(bound, {e})
           moved == [ended EXCEPT !.orders[old] = ended.orders[e]]
           Good(t) == t \in Cores /\ NoNewSell(s, t)
<1>0. e \in Slots /\ old \in Slots /\ Size \in Int /\ s \in Cores /\ s.pair \in PairRecs
      /\ e \in Keys
  <2>1. e \in Slots /\ old \in Slots
    BY SlotFacts DEF BuyKinds
  <2>2. s \in Cores /\ s.pair \in PairRecs
    BY DEF Cores
  <2>3. Size \in Int
    BY PairAssumption
  <2>4. e \in Keys
    BY KeyFacts
  <2> QED
    BY <2>1, <2>2, <2>3, <2>4
<1>a. e[1] = "entry" /\ old[1] = "replaced"
  OBVIOUS
<1>1. bound \in Cores /\ bound.orders = s.orders
  <2>1. q \in PairRecs
    BY <1>0, BindFacts
  <2>2. bound = [s EXCEPT !.pair = q]
    BY <1>0 DEF Cores
  <2> HIDE DEF q, bound
  <2> QED
    BY <1>0, <2>1, <2>2, CoreWith
<1>2. SubmitEntry(s, l, gate, differs)
        \in {bound, Noted(bound), Noted(Place(bound, e, Size)), Noted(Place(moved, e, Size))}
  BY DEF SubmitEntry, Requote
<1> HIDE DEF bound, e, old
<1>3. Good(bound)
  BY <1>0, <1>1 DEF NoNewSell, Live
<1>4. ASSUME NEW t, Good(t) PROVE Good(Noted(t))
  <2> DEFINE X == t.pending \cup {l}
             u == [t EXCEPT !.pending = X]
  <2>1. X \in SUBSET Legs
    BY <1>4 DEF Cores
  <2>2. Noted(t) = u
    BY <1>4 DEF Cores
  <2> HIDE DEF X
  <2>3. u \in Cores /\ u.orders = t.orders
    BY <1>4, <2>1, CoreWith
  <2> HIDE DEF u, Noted
  <2> QED
    BY <1>4, <2>2, <2>3 DEF NoNewSell, Live
<1>5. ASSUME NEW t, Good(t) PROVE Good(Place(t, e, Size))
  <2>1. Place(t, e, Size) \in Cores /\ \A j \in Slots : j # e => Place(t, e, Size).orders[j] = t.orders[j]
    BY <1>0, <1>5, PlaceFacts
  <2>2. NoNewSell(t, Place(t, e, Size))
    BY <1>a, <2>1, OtherSlots
  <2> QED
    BY <1>5, <2>1, <2>2 DEF NoNewSell
<1>6. Good(ended)
  <2>1. ended \in Cores /\ \A j \in Slots : j # e => ended.orders[j] = bound.orders[j]
    BY <1>0, <1>1, EndFacts
  <2> HIDE DEF ended
  <2>2. NoNewSell(bound, ended)
    BY <1>a, <2>1, OtherSlots
  <2> QED
    BY <1>3, <2>1, <2>2 DEF NoNewSell
<1> HIDE DEF ended
<1>7. Good(moved)
  <2>1. ended.orders[e] \in OrderRecs
    BY <1>0, <1>6, OrderFields
  <2>2. moved \in Cores /\ \A j \in Slots : j # old => moved.orders[j] = ended.orders[j]
    BY <1>0, <1>6, <2>1 DEF Cores
  <2> HIDE DEF moved
  <2>3. NoNewSell(ended, moved)
    BY <1>a, <2>2, OtherSlots
  <2> QED
    BY <1>6, <2>2, <2>3 DEF NoNewSell
<1> HIDE DEF Good, Noted, moved
<1>8. Good(SubmitEntry(s, l, gate, differs))
  BY <1>2, <1>3, <1>4, <1>5, <1>7
<1> QED
  BY <1>8 DEF Good

LEMMA EvaluateSells ==
  ASSUME IInv, NEW ls \in SUBSET Legs, NEW sub \in SUBSET Legs, NEW g \in Gates,
         NEW d \in BOOLEAN, Evaluate(ls, sub, g, d)
  PROVE  NoNewSell(core, core')
<1> DEFINE s0 == Released(core)
           Decl(p, l) == IF l \in ls THEN declare(p, l) ELSE p
           pb == Decl(Decl(s0.pair, A), B)
           s1 == [s0 EXCEPT !.pair = pb]
           Sub(s, l) == IF l \in sub THEN SubmitEntry(s, l, g, d) ELSE s
<1>0. A \in Legs /\ B \in Legs /\ core \in Cores
  BY DEF Legs, IInv, Kept
<1>1. s0 \in Cores /\ s0.orders = core.orders
  <2> DEFINE X == core.pending \ {l \in Legs : Held(core, Other(l)) /\ ~Held(core, l)}
  <2>1. X \in SUBSET Legs
    BY <1>0 DEF Cores
  <2>2. CASE shape.cross
    BY <1>0, <2>2 DEF Released
  <2>3. CASE ~shape.cross
    <3>1. s0 = [core EXCEPT !.pending = X]
      BY <1>0, <2>3 DEF Released, Cores
    <3> HIDE DEF X, s0
    <3> QED
      BY <1>0, <2>1, <3>1, CoreWith
  <2> QED
    BY <2>2, <2>3
<1> HIDE DEF s0
<1>2. pb \in PairRecs
  <2>1. ASSUME NEW p \in PairRecs, NEW l \in Legs PROVE Decl(p, l) \in PairRecs
    BY DeclareFacts
  <2> HIDE DEF Decl
  <2>2. s0.pair \in PairRecs
    BY <1>1 DEF Cores
  <2> QED
    BY <1>0, <2>1, <2>2
<1> HIDE DEF Decl, pb
<1>3. s1 \in Cores /\ s1.orders = core.orders
  BY <1>1, <1>2, CoreWith
<1> HIDE DEF s1
<1>4. ASSUME NEW s \in Cores, NEW l \in Legs
      PROVE  Sub(s, l) \in Cores /\ NoNewSell(s, Sub(s, l))
  <2>1. NoNewSell(s, s)
    BY DEF NoNewSell
  <2> QED
    BY <2>1, SubmitSells
<1>5. core' = Sub(Sub(s1, A), B)
  BY DEF Evaluate, s1, pb, s0, Decl
<1> HIDE DEF Sub
<1>6. Sub(s1, A) \in Cores /\ NoNewSell(s1, Sub(s1, A)) /\ NoNewSell(Sub(s1, A), core')
  BY <1>0, <1>3, <1>4, <1>5
<1>7. NoNewSell(core, s1)
  BY <1>3 DEF NoNewSell, Live
<1> QED
  BY <1>6, <1>7 DEF NoNewSell

LEMMA AckSells ==
  ASSUME IInv, NEW l \in Legs, Ack(l)
  PROVE  NoNewSell(core, core')
<1> DEFINE e == <<"entry", l>>
<1>1. e \in Slots /\ e[1] = "entry"
  BY SlotFacts DEF BuyKinds
<1>2. core' = [core EXCEPT !.orders[e].status = "live", !.orders[e].clock = MakerTimeout]
  BY DEF Ack
<1> HIDE DEF e
<1>3. \A j \in Slots : j # e => core'.orders[j] = core.orders[j]
  BY <1>1, <1>2 DEF IInv, Kept, Cores
<1> QED
  BY <1>1, <1>3, OtherSlots

LEMMA FillSells ==
  ASSUME IInv, NEW k \in Slots, NEW n \in 1..MaxBought, Fill(k, n)
  PROVE  NoNewSell(core, core')
<1> DEFINE o == core.orders[k]
           buy == k[1] # "flatten"
           told == IF buy THEN on_order_event(core, {k}, n, FALSE) ELSE core
           shares == core.pos[k[2]].shares + (IF buy THEN n ELSE -n)
           r == IF o.filled + n = o.size THEN Finished(k) ELSE [o EXCEPT !.filled = @ + n]
           p == IF shares <= 0 THEN [shares |-> 0, age |-> 0]
                ELSE [told.pos[k[2]] EXCEPT !.shares = shares]
<1>0. core \in Cores /\ n \in Int /\ o \in OrderRecs
  BY PairAssumption, OrderFields DEF IInv, Kept
<1>1. r.status \in LiveStatuses => o.status \in LiveStatuses
  <2> HIDE DEF o
  <2>1. [o EXCEPT !.filled = @ + n].status = o.status
    BY <1>0 DEF OrderRecs
  <2>2. Finished(k).status \notin LiveStatuses
    BY FinishedRec DEF LiveStatuses
  <2> QED
    BY <2>1, <2>2
<1>2. told \in Cores /\ told.orders = core.orders
  <2>1. FALSE \in BOOLEAN
    OBVIOUS
  <2>2. OnlyPair(core, on_order_event(core, {k}, n, FALSE))
    BY <1>0, <2>1, EventFacts, Zenon
  <2> QED
    BY <1>0, <2>2 DEF OnlyPair
<1>3. core' = [told EXCEPT !.orders[k] = r, !.pos[k[2]] = p]
  BY DEF Fill
<1> HIDE DEF told, r, p
<1>4. core'.orders[k] = r /\ \A j \in Slots : j # k => core'.orders[j] = core.orders[j]
  BY <1>2, <1>3 DEF Cores
<1>5. \A m \in Legs : <<"flatten", m>> \in Slots
  BY SlotFacts
<1> QED
  BY <1>1, <1>4, <1>5 DEF NoNewSell, Live

\* Ending or closing an order makes none live.
LEMMA EndSells ==
  ASSUME NEW s \in Cores, NEW k \in Slots
  PROVE  /\ End(s, {k}) \in Cores /\ NoNewSell(s, End(s, {k}))
         /\ Closed(s, k) \in Cores /\ NoNewSell(s, Closed(s, k))
<1>0. \A m \in Legs : <<"flatten", m>> \in Slots
  BY SlotFacts
<1>1. /\ End(s, {k}) \in Cores
      /\ \A j \in Slots : End(s, {k}).orders[j] = IF j \in {k} THEN Over(s.orders[j]) ELSE s.orders[j]
  BY EndFacts
<1>2. Over(s.orders[k]).status \notin LiveStatuses
  BY OverRec, OrderFields DEF LiveStatuses
<1>3. NoNewSell(s, End(s, {k}))
  BY <1>0, <1>1, <1>2 DEF NoNewSell, Live
<1>4. /\ Closed(s, k) \in Cores /\ Closed(s, k).orders[k] = Finished(k)
      /\ \A j \in Slots : j # k => Closed(s, k).orders[j] = s.orders[j]
  BY ClosedFacts
<1>5. Finished(k).status \notin LiveStatuses
  BY FinishedRec DEF LiveStatuses
<1>6. NoNewSell(s, Closed(s, k))
  BY <1>0, <1>4, <1>5 DEF NoNewSell, Live
<1> QED
  BY <1>1, <1>3, <1>4, <1>6

LEMMA CancelSells ==
  ASSUME IInv, NEW k \in Slots, NEW gone \in BOOLEAN, Cancel(k, gone)
  PROVE  NoNewSell(core, core')
<1> DEFINE t == End(core, {k})
<1>1. core \in Cores
  BY DEF IInv, Kept
<1>2. t \in Cores /\ NoNewSell(core, t)
  BY <1>1, EndSells
<1>3. core' = t \/ core' = Closed(t, k)
  BY DEF Cancel
<1> HIDE DEF t
<1>4. NoNewSell(t, Closed(t, k))
  BY <1>2, EndSells
<1> QED
  BY <1>2, <1>3, <1>4 DEF NoNewSell

LEMMA RejectSells ==
  ASSUME IInv, NEW k \in Slots, NEW ask \in Asks, NEW gate \in Gates, NEW x \in BOOLEAN,
         Reject(k, ask, gate, x)
  PROVE  NoNewSell(core, core')
<1> DEFINE l == k[2]
           ended == End(core, {k})
           gone == Closed(ended, k)
           tied == bind_continuation(gone, l)
           n == core.orders[k].size
           w == <<"escalated", l>>
           placed == Place(tied, w, n)
<1>1. core \in Cores /\ n \in Int /\ l \in Legs /\ w \in Slots /\ w[1] # "flatten"
  <2>1. l \in Legs /\ w \in Slots
    BY SlotFacts DEF BuyKinds
  <2>2. core \in Cores
    BY DEF IInv, Kept
  <2> QED
    BY <2>1, <2>2, OrderFields
<1>2. ended \in Cores /\ NoNewSell(core, ended)
  BY <1>1, EndSells
<1>7. core' \in {gone, tied, placed}
  BY DEF Reject
<1> HIDE DEF ended
<1>3. gone \in Cores /\ NoNewSell(ended, gone)
  BY <1>2, EndSells
<1> HIDE DEF gone
<1>4. tied \in Cores /\ tied.orders = gone.orders
  <2> DEFINE key == IF IsOpen(gone.pair) /\ {i \in DOMAIN gone.pair.legs : gone.pair.legs[i].token = l} # {}
                    THEN gone.pair.legs[CHOOSE i \in {i \in DOMAIN gone.pair.legs : gone.pair.legs[i].token = l} : TRUE].key
                    ELSE NoKey
  <2>1. tied = [gone EXCEPT !.cont[l] = key]
    BY DEF bind_continuation
  <2>2. key \in Keys
    BY <1>3, PairFields, KeyFacts DEF Cores
  <2> HIDE DEF key, tied
  <2> QED
    BY <1>1, <1>3, <2>1, <2>2 DEF Cores
<1> HIDE DEF tied, n, w, l
<1>5. \A j \in Slots : j # w => placed.orders[j] = tied.orders[j]
  BY <1>1, <1>4, PlaceFacts
<1> HIDE DEF placed
<1>6. NoNewSell(tied, placed) /\ NoNewSell(gone, tied)
  <2>1. NoNewSell(tied, placed)
    BY <1>1, <1>5, OtherSlots
  <2>2. NoNewSell(gone, tied)
    BY <1>4 DEF NoNewSell, Live
  <2> QED
    BY <2>1, <2>2
<1> QED
  BY <1>2, <1>3, <1>6, <1>7 DEF NoNewSell

\* A tick sells a leg only when it is the only one its scope holds.
LEMMA TickSells ==
  ASSUME IInv, NEW ask \in Asks, NEW gate \in Gates, Tick(ask, gate), NEW l \in Legs, Unwound(l)
  PROVE  shape.split \/ ~Held(core, Other(l))
<1>1. PICK s1, s2, s3, s4, s5 :
           /\ TickVia(ask, gate, s1, s2, s3, s4, s5)
           /\ Flat(core, s1, {}) /\ Flat(s1, s2, {A}) /\ Flat(s2, s3, {B})
           /\ Flat(s3, s5, {})
           /\ ~IsOrphan(s1, A) => s2 = s1
           /\ ~IsOrphan(s2, B) => s3 = s2
  BY TickParts
<1>2. core' = s5 /\ Other(l) \in Legs
  BY <1>1, SlotFacts DEF TickVia
<1>3. Live(s3, <<"flatten", l>>) /\ ~Live(s1, <<"flatten", l>>)
  BY <1>1, <1>2 DEF Flat, Unwound
<1>4. CASE l = A
  <2>1. Live(s2, <<"flatten", l>>)
    BY <1>1, <1>3, <1>4, PairAssumption DEF Flat
  <2>2. IsOrphan(s1, l)
    BY <1>1, <1>3, <1>4, <2>1
  <2> QED
    BY <1>1, <1>2, <2>2 DEF IsOrphan, OppositeHeld, Held, Flat
<1>5. CASE l = B
  <2>1. ~Live(s2, <<"flatten", l>>)
    BY <1>1, <1>3, <1>5, PairAssumption DEF Flat
  <2>2. IsOrphan(s2, l)
    BY <1>1, <1>3, <1>5, <2>1
  <2> QED
    BY <1>1, <1>2, <2>2 DEF IsOrphan, OppositeHeld, Held, Flat
<1> QED
  BY <1>4, <1>5 DEF Legs

LEMMA NextSells ==
  ASSUME IInv, [Next]_vars, NEW l \in Legs, Unwound(l)
  PROVE  shape.split \/ ~Held(core, Other(l))
<1>0. ~NoNewSell(core, core')
  BY DEF NoNewSell, Unwound
<1>1. CASE \E ls, sub \in SUBSET Legs, g \in Gates, d \in BOOLEAN : Evaluate(ls, sub, g, d)
  BY <1>0, <1>1, EvaluateSells
<1>2. CASE \E m \in Legs : Ack(m)
  BY <1>0, <1>2, AckSells
<1>3. CASE \E k \in Slots, n \in 1..MaxBought : Fill(k, n)
  BY <1>0, <1>3, FillSells
<1>4. CASE \E k \in Slots, gone \in BOOLEAN : Cancel(k, gone)
  BY <1>0, <1>4, CancelSells
<1>5. CASE \E k \in Slots : VenueClose(k)
  BY <1>0, <1>5, EndSells DEF VenueClose, IInv, Kept
<1>6. CASE \E k \in Slots, a \in Asks, g \in Gates, x \in BOOLEAN : Reject(k, a, g, x)
  BY <1>0, <1>6, RejectSells
<1>7. CASE Ticks(Asks)
  BY <1>7, TickSells DEF Ticks
<1>8. CASE Expire \/ RoundMarkets
  <2>1. core'.orders = core.orders
    BY <1>8 DEF Expire, RoundMarkets, IInv, Kept, Cores
  <2> QED
    BY <1>0, <2>1 DEF NoNewSell, Live
<1>9. CASE UNCHANGED vars
  BY <1>0, <1>9 DEF vars, NoNewSell
<1> QED
  BY <1>1, <1>2, <1>3, <1>4, <1>5, <1>6, <1>7, <1>8, <1>9 DEF Next

\* The orphan sweep never sells a leg of a pair that has landed: a leg that
\* any step starts to unwind is the only one its scope holds, for every size,
\* grace and chase window.
THEOREM LandedPairSafe == Spec => LandedPairKept
<1> DEFINE Alone == \A l \in Legs : Unwound(l) => shape.split \/ ~Held(core, Other(l))
<1>1. IInv /\ [Next]_vars => [Alone]_vars
  BY NextSells
<1> QED
  BY <1>1, BookInvariance, PTL DEF Spec, LandedPairKept
=============================================================================
