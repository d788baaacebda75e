------------------------- MODULE Settlement_proofs --------------------------
(***************************************************************************)
(* Proofs about module Settlement: the journal rebuilds the book, a payout *)
(* is owed or paid and never both, over one channel, and a redeemed claim  *)
(* id is never given out again.                                            *)
(***************************************************************************)
EXTENDS Settlement, FiniteSetTheorems, SequenceTheorems, WellFoundedInduction, TLAPS

-----------------------------------------------------------------------------
(* Induction, as the least element of a set of naturals *)

Less == {x \in Nat \X Nat : x[1] < x[2]}

\* Less is well founded: every non-empty set of numbers has a least one.
LEMMA LessWellFounded == IsWellFoundedOn(Less, Nat)
  BY NatLessThanWellFounded DEF Less, OpToRel

\* A non-empty set of naturals has a least element.
LEMMA LeastNatural ==
  ASSUME NEW T \in SUBSET Nat, T # {}
  PROVE  \E x \in T : \A y \in T : x <= y
<1>1. PICK x \in T : \A y \in T : <<y, x>> \notin Less
  BY LessWellFounded, WFMin
<1>2. ASSUME NEW y \in T PROVE x <= y
  <2>1. ~(y < x)
    BY <1>1 DEF Less
  <2> QED
    BY <2>1
<1> QED
  BY <1>1, <1>2

-----------------------------------------------------------------------------
(* The replay of a journal *)

\* f is the book after each of the first n lines of the journal j.
Replays(f, n, j) ==
  f = [i \in 0..n |-> IF i = 0 THEN EmptyBook ELSE Replay(f[i - 1], j[i])]

\* Every journal can be replayed.
LEMMA ReplayExists ==
  ASSUME NEW j, NEW n \in Nat
  PROVE  \E f : Replays(f, n, j)
<1> DEFINE T == {k \in Nat : ~ \E f : Replays(f, k, j)}
<1>1. CASE T = {}
  BY <1>1
<1>2. CASE T # {}
  <2>1. PICK k \in T : \A l \in T : k <= l
    <3> HIDE DEF T
    <3>1. T \in SUBSET Nat
      BY DEF T
    <3> QED
      BY <1>2, <3>1, LeastNatural
  <2>2. k # 0
    <3>1. Replays([i \in 0..0 |-> EmptyBook], 0, j)
      <4> DEFINE f == [i \in 0..0 |-> EmptyBook]
      <4>1. \A i \in 0..0 : (IF i = 0 THEN EmptyBook ELSE Replay(f[i - 1], j[i])) = EmptyBook
        OBVIOUS
      <4> QED
        BY <4>1 DEF Replays
    <3>2. 0 \notin T
      BY <3>1
    <3> QED
      BY <3>2
  <2>3. k \in Nat /\ k - 1 \in Nat
    BY <2>2
  <2>4. k - 1 \notin T
    BY <2>1, <2>3
  <2>5. PICK f : Replays(f, k - 1, j)
    BY <2>3, <2>4
  <2> DEFINE g == [i \in 0..k |-> IF i = k THEN Replay(f[k - 1], j[k]) ELSE f[i]]
  <2>6. \A i \in 0..k : i # k => i \in 0..(k - 1)
    BY <2>3
  <2>7. \A i \in 0..k : g[i] = IF i = 0 THEN EmptyBook ELSE Replay(g[i - 1], j[i])
    <3> SUFFICES ASSUME NEW i \in 0..k
                 PROVE  g[i] = IF i = 0 THEN EmptyBook ELSE Replay(g[i - 1], j[i])
      OBVIOUS
    <3>1. CASE i = k
      <4>1. g[k] = Replay(f[k - 1], j[k])
        BY <2>3
      <4>2. k - 1 \in 0..k /\ k - 1 # k
        BY <2>3
      <4>3. g[k - 1] = f[k - 1]
        BY <4>2
      <4> QED
        BY <2>2, <3>1, <4>1, <4>3
    <3>2. CASE i # k
      <4>1. g[i] = f[i] /\ i \in 0..(k - 1)
        BY <2>6, <3>2
      <4>2. f[i] = IF i = 0 THEN EmptyBook ELSE Replay(f[i - 1], j[i])
        BY <2>5, <4>1 DEF Replays
      <4>3. i # 0 => g[i - 1] = f[i - 1]
        BY <4>1, <2>3
      <4> QED
        BY <4>1, <4>2, <4>3
    <3> QED
      BY <3>1, <3>2
  <2>8. Replays(g, k, j)
    <3>1. g = [i \in 0..k |-> g[i]]
      OBVIOUS
    <3> HIDE DEF g
    <3> QED
      BY <2>7, <3>1 DEF Replays
  <2> QED
    BY <2>1, <2>8
<1> QED
  BY <1>1, <1>2

\* The book a journal stands for.
ReplayOf(j) ==
  LET after[i \in 0..Len(j)] == IF i = 0 THEN EmptyBook ELSE Replay(after[i - 1], j[i])
  IN after[Len(j)]

\* The replay of a journal is the last state of a run over its lines.
LEMMA ReplayOfIs ==
  ASSUME NEW j, Len(j) \in Nat
  PROVE  \E f : Replays(f, Len(j), j) /\ ReplayOf(j) = f[Len(j)]
<1> DEFINE f == CHOOSE f : f = [i \in 0..Len(j) |-> IF i = 0 THEN EmptyBook ELSE Replay(f[i - 1], j[i])]
<1>1. Replays(f, Len(j), j)
  BY ReplayExists DEF Replays
<1>2. ReplayOf(j) = f[Len(j)]
  BY DEF ReplayOf
<1> QED
  BY <1>1, <1>2

\* An empty journal stands for the empty book, and a line added to a journal
\* is replayed over the book of the lines before it.
LEMMA ReplayEmpty == ReplayOf(<<>>) = EmptyBook
<1>1. Len(<<>>) = 0 /\ Len(<<>>) \in Nat
  OBVIOUS
<1>2. PICK f : Replays(f, 0, <<>>) /\ ReplayOf(<<>>) = f[0]
  BY <1>1, ReplayOfIs
<1> QED
  BY <1>2 DEF Replays

\* A line appended to the journal is one more step of the replay.
LEMMA ReplayAppend ==
  ASSUME NEW S, NEW j \in Seq(S), NEW l \in S
  PROVE  ReplayOf(Append(j, l)) = Replay(ReplayOf(j), l)
<1> DEFINE k == Append(j, l)
           n == Len(j)
<1>1. n \in Nat /\ Len(k) = n + 1 /\ k[n + 1] = l /\ \A i \in 1..n : j[i] = k[i]
  OBVIOUS
<1>2. PICK f : Replays(f, n, j) /\ ReplayOf(j) = f[n]
  BY <1>1, ReplayOfIs
<1> HIDE DEF k
<1>3. PICK g : Replays(g, n + 1, k) /\ ReplayOf(k) = g[n + 1]
  <2>1. Len(k) \in Nat
    BY <1>1
  <2> QED
    BY <1>1, <2>1, ReplayOfIs
<1> HIDE DEF n
<1>4. f[n] = g[n]
  <2> DEFINE T == {i \in 0..n : f[i] # g[i]}
  <2>1. CASE T = {}
    BY <2>1, <1>1
  <2>2. CASE T # {}
    <3>1. PICK h \in T : \A i \in T : h <= i
      <4> HIDE DEF T
      <4>1. T \in SUBSET Nat
        BY DEF T
      <4> QED
        BY <2>2, <4>1, LeastNatural
    <3>2. h \in 0..n /\ h \in 0..(n + 1)
      BY <1>1, <3>1
    <3>3. f[h] = (IF h = 0 THEN EmptyBook ELSE Replay(f[h - 1], j[h]))
      BY <1>2, <1>3, <3>2 DEF Replays
    <3>4. g[h] = (IF h = 0 THEN EmptyBook ELSE Replay(g[h - 1], k[h]))
      BY <1>2, <1>3, <3>2 DEF Replays
    <3>5. CASE h = 0
      BY <3>3, <3>4, <3>5
    <3>6. CASE h # 0
      <4>1. h - 1 \in 0..n /\ ~(h <= h - 1) /\ h \in 1..n
        BY <1>1, <3>2, <3>6
      <4>2. f[h - 1] = g[h - 1] /\ j[h] = k[h]
        BY <1>1, <3>1, <4>1
      <4> QED
        BY <3>3, <3>4, <3>6, <4>2
    <3> QED
      BY <3>5, <3>6
  <2> QED
    BY <2>1, <2>2
<1>5. g[n + 1] = Replay(g[n], k[n + 1])
  <2>1. n + 1 \in 0..(n + 1) /\ n + 1 # 0 /\ (n + 1) - 1 = n
    BY <1>1
  <2> QED
    BY <1>3, <2>1 DEF Replays
<1> QED
  BY <1>1, <1>2, <1>3, <1>4, <1>5 DEF k, n

\* The model's replay is the replay of the journal on disk, now and after a step.
LEMMA ReplayedIs == Replayed = ReplayOf(journal) /\ Replayed' = ReplayOf(journal')
  BY DEF Replayed, ReplayOf

-----------------------------------------------------------------------------
(* The parts of the inductive invariant *)

Paid(m) == {p \in Positions : credited[p] > 0 /\ MarketOf[p] = m}

\* A settled position is a leg of the claim its record names until that claim
\* is credited, and then never again.
LegsSound ==
  \A c \in ClaimIds : \A p \in book.legs[c] :
    book.record[p] = c /\ MarketOf[p] = c[1] /\ credited[p] = 0
RecordsSound ==
  \A p \in Positions :
    /\ credited[p] <= 1
    /\ book.record[p] = Unsettled => credited[p] = 0
    /\ book.record[p] = NoClaim => credited[p] = 0 /\ Worth[p] = 0
    /\ book.record[p] \in ClaimIds => p \in book.legs[book.record[p]] \/ credited[p] = 1

\* No more claims of a market were redeemed than positions were paid, so there
\* is an ordinal left for every position that is not settled.
CountSound == \A m \in Markets : book.used[m] <= Cardinality(Paid(m))

\* The ordinal after the redeemed claims is one no redeemed claim has.
IdsSound ==
  /\ \A c \in OpenClaims : c[2] <= book.used[c[1]] + 1
  /\ \A i \in DOMAIN journal : journal[i].kind = "redeemed" =>
       LET c == journal[i].claim
       IN c \notin OpenClaims /\ book.used[c[1]] >= 1 /\ c[2] <= book.used[c[1]]

\* What the handler that holds the lock is doing.
JobSound ==
  /\ job.step # "pick" =>
       /\ job.kind \in {"settle", "recover"}
       /\ job.at \in Positions \ job.todo /\ Applied(job.at)
  /\ job.step = "trade" => job.at \notin book.closed
  /\ job.step = "save" => job.kind = "settle"
  /\ job.step \in {"closed", "save"} => job.at \notin open
  /\ job.kind = "recover" => job.todo \cap book.closed = {} /\ \A p \in job.todo : Applied(p)
BirthSound ==
  \A p \in Positions :
    /\ p \in book.closed => Applied(p)
    /\ Applied(p) \/ fallback[p] > 0 => p \in born

\* The running handler is about to close p.
Closing(p) == (job.step = "trade" /\ job.at = p) \/ (job.kind = "recover" /\ p \in job.todo)

\* An open position no stop has torn was not closed yet, and once it is settled
\* a handler is closing it.
ChannelSound ==
  \A p \in Positions \ torn :
    /\ p \in open => fallback[p] = 0 /\ p \notin book.closed
    /\ fallback[p] <= 1
    /\ fallback[p] > 0 => ~Applied(p)
    /\ p \in open /\ Applied(p) => Closing(p)

IInv ==
  /\ TypeOK /\ ReplayFaithful
  /\ LegsSound /\ RecordsSound /\ CountSound /\ IdsSound
  /\ JobSound /\ BirthSound /\ ChannelSound
-----------------------------------------------------------------------------
(* What the operations do to the book *)

\* The fields of the book.
LEMMA BookFields ==
  ASSUME TypeOK
  PROVE  /\ book.record \in [Positions -> ClaimIds \cup {NoClaim, Unsettled}]
         /\ book.closed \in SUBSET Positions
         /\ book.legs \in [ClaimIds -> SUBSET Positions]
         /\ book.owner \in [ClaimIds -> Accounts \cup {NoAccount}]
         /\ book.used \in [Markets -> Nat]
         /\ book = [record |-> book.record, closed |-> book.closed, legs |-> book.legs,
                    owner |-> book.owner, used |-> book.used]
  BY DEF TypeOK, Books

\* A paid position is a position, and an unpaid one leaves room for an ordinal.
LEMMA PaidFinite ==
  ASSUME NEW m
  PROVE  /\ IsFiniteSet(Paid(m)) /\ Cardinality(Paid(m)) \in Nat
         /\ Cardinality(Positions) \in Nat
         /\ \A p \in Positions : p \notin Paid(m) => Cardinality(Paid(m)) + 1 <= Cardinality(Positions)
<1>1. IsFiniteSet(Positions) /\ Paid(m) \subseteq Positions
  BY PositionAttributes DEF Paid
<1>2. IsFiniteSet(Paid(m)) /\ Cardinality(Paid(m)) \in Nat /\ Cardinality(Positions) \in Nat
  BY <1>1, FS_Subset, FS_CardinalityType
<1>3. ASSUME NEW p \in Positions, p \notin Paid(m)
      PROVE  Cardinality(Paid(m)) + 1 <= Cardinality(Positions)
  <2>1. Cardinality(Paid(m) \cup {p}) = Cardinality(Paid(m)) + 1
    BY <1>2, <1>3, FS_AddElement
  <2>2. Paid(m) \cup {p} \subseteq Positions
    BY <1>1
  <2>3. Cardinality(Paid(m) \cup {p}) <= Cardinality(Positions)
    BY <1>1, <2>2, FS_Subset
  <2> QED
    BY <2>1, <2>3
<1> QED
  BY <1>2, <1>3

\* The claim a position is booked into: one of its market, whose id was never
\* redeemed; none only for a worthless position.
LEMMA ClaimForIs ==
  ASSUME TypeOK, RecordsSound, CountSound, IdsSound, NEW p \in Positions, ~Applied(p)
  PROVE  /\ ClaimFor(p) \in ClaimIds \cup {NoClaim}
         /\ ClaimFor(p) = NoClaim => Worth[p] = 0
         /\ ClaimFor(p) \in ClaimIds =>
              /\ ClaimFor(p)[1] = MarketOf[p]
              /\ ClaimFor(p)[2] <= book.used[ClaimFor(p)[1]] + 1
              /\ \A i \in DOMAIN journal :
                   journal[i].kind = "redeemed" => journal[i].claim # ClaimFor(p)
<1> DEFINE m == MarketOf[p]
<1>0. m \in Markets /\ Worth[p] \in Nat
  BY PositionAttributes
<1>1. NoClaim \notin ClaimIds
  BY NoNames, PaidFinite DEF ClaimIds
<1>2. CASE OwnClaim(p) # {}
  <2>1. ClaimFor(p) \in OwnClaim(p)
    BY <1>2 DEF ClaimFor
  <2> QED
    BY <1>1, <2>1 DEF OwnClaim, OpenClaims, IdsSound
<1>3. CASE OwnClaim(p) = {} /\ Worth[p] > 0
  <2>1. ClaimFor(p) = ClaimIdFor(m)
    BY <1>3 DEF ClaimFor
  <2>2. book.used[m] \in Nat /\ book.used[m] + 1 <= Cardinality(Positions)
    <3>1. p \notin Paid(m)
      BY DEF Paid, RecordsSound, Applied
    <3>2. book.used[m] \in Nat /\ book.used[m] <= Cardinality(Paid(m))
      BY <1>0, BookFields DEF CountSound
    <3> QED
      BY <3>1, <3>2, PaidFinite
  <2>3. CASE book.used[m] = 0 /\ book.legs[<<m, 0>>] = {}
    <3>1. ClaimFor(p) = <<m, 0>>
      BY <2>1, <2>3 DEF ClaimIdFor
    <3>2. <<m, 0>> \in ClaimIds
      BY <1>0, PaidFinite DEF ClaimIds
    <3> QED
      BY <1>1, <2>2, <2>3, <3>1, <3>2 DEF IdsSound
  <2>4. CASE ~(book.used[m] = 0 /\ book.legs[<<m, 0>>] = {})
    <3>1. ClaimFor(p) = <<m, book.used[m] + 1>>
      BY <2>1, <2>4 DEF ClaimIdFor
    <3>2. <<m, book.used[m] + 1>> \in ClaimIds
      BY <1>0, <2>2, PaidFinite DEF ClaimIds
    <3> QED
      BY <1>1, <2>2, <3>1, <3>2 DEF IdsSound
  <2> QED
    BY <2>3, <2>4
<1>4. CASE OwnClaim(p) = {} /\ ~(Worth[p] > 0)
  BY <1>0, <1>1, <1>4 DEF ClaimFor
<1> QED
  BY <1>2, <1>3, <1>4

\* Booking a position: its record, and a leg of the claim.
LEMMA BookIs ==
  ASSUME TypeOK, NEW p \in Positions, ~Applied(p), ClaimFor(p) \in ClaimIds \cup {NoClaim}
  PROVE  /\ Book(p) \in Books
         /\ Book(p).record = [book.record EXCEPT ![p] = ClaimFor(p)]
         /\ Book(p).closed = book.closed /\ Book(p).used = book.used
         /\ ClaimFor(p) = NoClaim => Book(p).legs = book.legs
         /\ ClaimFor(p) # NoClaim =>
              Book(p).legs = [book.legs EXCEPT ![ClaimFor(p)] = @ \cup {p}]
         /\ Book(p) # book
         /\ Book(p) = Replay(book, [kind |-> "settlement", position |-> p, claim |-> ClaimFor(p)])
<1> DEFINE c == ClaimFor(p)
<1>1. Book(p) = [Accumulated(book, p, c) EXCEPT !.record[p] = c]
  BY DEF Book
<1>2. Book(p) = Replay(book, [kind |-> "settlement", position |-> p, claim |-> c])
  BY <1>1 DEF Replay
<1> HIDE DEF c
<1>3. CASE c = NoClaim
  <2>1. Book(p) = [book EXCEPT !.record[p] = c]
    BY <1>1, <1>3 DEF Accumulated
  <2>2. /\ Book(p).record = [book.record EXCEPT ![p] = c] /\ Book(p).closed = book.closed
        /\ Book(p).used = book.used /\ Book(p).legs = book.legs /\ Book(p).owner = book.owner
        /\ Book(p) = [record |-> Book(p).record, closed |-> Book(p).closed, legs |-> Book(p).legs,
                      owner |-> Book(p).owner, used |-> Book(p).used]
    BY <2>1, BookFields
  <2>3. Book(p) \in Books
    <3>1. [book.record EXCEPT ![p] = c] \in [Positions -> ClaimIds \cup {NoClaim, Unsettled}]
      BY <1>3, BookFields
    <3> QED
      BY <2>2, <3>1, BookFields DEF Books
  <2>4. Book(p) # book
    BY <2>2, <1>3, BookFields, NoNames DEF Applied
  <2> QED
    BY <1>2, <1>3, <2>2, <2>3, <2>4 DEF c
<1>4. CASE c \in ClaimIds /\ c # NoClaim
  <2> DEFINE o == IF book.legs[c] = {} THEN AccountOf[p] ELSE book.owner[c]
  <2>1. Book(p) = [book EXCEPT !.legs[c] = @ \cup {p}, !.owner[c] = o, !.record[p] = c]
    BY <1>1, <1>4, BookFields DEF Accumulated
  <2>2. /\ Book(p).record = [book.record EXCEPT ![p] = c] /\ Book(p).closed = book.closed
        /\ Book(p).used = book.used /\ Book(p).legs = [book.legs EXCEPT ![c] = @ \cup {p}]
        /\ Book(p).owner = [book.owner EXCEPT ![c] = o]
        /\ Book(p) = [record |-> Book(p).record, closed |-> Book(p).closed, legs |-> Book(p).legs,
                      owner |-> Book(p).owner, used |-> Book(p).used]
    <3> HIDE DEF o
    <3> QED
      BY <2>1, BookFields
  <2>3. o \in Accounts \cup {NoAccount}
    BY <1>4, BookFields, PositionAttributes
  <2>4. Book(p) \in Books
    <3> HIDE DEF o
    <3>1. [book.record EXCEPT ![p] = c] \in [Positions -> ClaimIds \cup {NoClaim, Unsettled}]
      BY <1>4, BookFields
    <3>2. [book.legs EXCEPT ![c] = @ \cup {p}] \in [ClaimIds -> SUBSET Positions]
      BY <1>4, BookFields
    <3>3. [book.owner EXCEPT ![c] = o] \in [ClaimIds -> Accounts \cup {NoAccount}]
      BY <1>4, <2>3, BookFields
    <3> QED
      BY <2>2, <3>1, <3>2, <3>3, BookFields DEF Books
  <2>5. Book(p) # book
    <3>1. Book(p).record[p] = c /\ book.record[p] = Unsettled
      BY <2>2, BookFields DEF Applied
    <3>2. c # Unsettled
      BY <1>4, NoNames, PaidFinite DEF ClaimIds
    <3> QED
      BY <3>1, <3>2
  <2> QED
    BY <1>2, <1>4, <2>2, <2>4, <2>5 DEF c
<1> QED
  BY <1>3, <1>4 DEF c

\* Redeeming a claim: its legs leave the book and the market counts one more.
LEMMA ClosedIs ==
  ASSUME TypeOK, NEW c \in OpenClaims
  PROVE  /\ Closed(book, c) \in Books
         /\ Closed(book, c).record = book.record /\ Closed(book, c).closed = book.closed
         /\ Closed(book, c).legs = [book.legs EXCEPT ![c] = {}]
         /\ Closed(book, c).used = [book.used EXCEPT ![c[1]] = @ + 1]
         /\ Closed(book, c) = Replay(book, [kind |-> "redeemed", claim |-> c])
<1> DEFINE b == Closed(book, c)
           m == c[1]
<1>1. c \in ClaimIds /\ m \in Markets /\ book.legs[c] # {}
  BY DEF OpenClaims, ClaimIds
<1>2. /\ b.record = book.record /\ b.closed = book.closed
      /\ b.legs = [book.legs EXCEPT ![c] = {}] /\ b.owner = [book.owner EXCEPT ![c] = NoAccount]
      /\ b.used = [book.used EXCEPT ![m] = @ + 1]
      /\ b = [record |-> b.record, closed |-> b.closed, legs |-> b.legs,
              owner |-> b.owner, used |-> b.used]
  <2>1. b = [book EXCEPT !.legs[c] = {}, !.owner[c] = NoAccount, !.used[m] = @ + 1]
    BY DEF Closed
  <2> HIDE DEF b, m
  <2>2. b = [record |-> book.record, closed |-> book.closed,
             legs |-> [book.legs EXCEPT ![c] = {}],
             owner |-> [book.owner EXCEPT ![c] = NoAccount],
             used |-> [book.used EXCEPT ![m] = @ + 1]]
    BY <2>1, BookFields
  <2> QED
    BY <2>2
<1>3. b \in Books
  <2>1. [book.legs EXCEPT ![c] = {}] \in [ClaimIds -> SUBSET Positions]
    BY <1>1, BookFields
  <2>2. [book.owner EXCEPT ![c] = NoAccount] \in [ClaimIds -> Accounts \cup {NoAccount}]
    BY <1>1, BookFields
  <2>3. [book.used EXCEPT ![m] = @ + 1] \in [Markets -> Nat]
    BY <1>1, BookFields
  <2> HIDE DEF b, m
  <2> QED
    BY <1>2, <2>1, <2>2, <2>3, BookFields DEF Books
<1>4. b = Replay(book, [kind |-> "redeemed", claim |-> c])
  <2> DEFINE l == [kind |-> "redeemed", claim |-> c]
  <2>1. l.kind = "redeemed" /\ l.claim = c
    OBVIOUS
  <2> HIDE DEF l
  <2>2. Replay(book, l) = IF book.legs[l.claim] = {} THEN book ELSE Closed(book, l.claim)
    BY <2>1 DEF Replay
  <2> QED
    BY <1>1, <2>1, <2>2 DEF l
<1> QED
  BY <1>2, <1>3, <1>4

\* Marking a position closed.
LEMMA MarkedIs ==
  ASSUME TypeOK, NEW p \in Positions
  PROVE  /\ [book EXCEPT !.closed = @ \cup {p}] \in Books
         /\ [book EXCEPT !.closed = @ \cup {p}].record = book.record
         /\ [book EXCEPT !.closed = @ \cup {p}].closed = book.closed \cup {p}
         /\ [book EXCEPT !.closed = @ \cup {p}].legs = book.legs
         /\ [book EXCEPT !.closed = @ \cup {p}].used = book.used
         /\ [book EXCEPT !.closed = @ \cup {p}] = Replay(book, [kind |-> "closed", position |-> p])
<1>1. [book EXCEPT !.closed = @ \cup {p}] =
        [record |-> book.record, closed |-> book.closed \cup {p}, legs |-> book.legs,
         owner |-> book.owner, used |-> book.used]
  BY BookFields
<1> QED
  BY <1>1, BookFields DEF Books, Replay

-----------------------------------------------------------------------------
(* How a step changes the book *)

\* The four ways: nothing, a booking, a redemption, a close.
BookKept ==
  /\ book' = book /\ credited' = credited
  /\ journal' = journal
Books1(p) ==
  /\ ~Applied(p) /\ job.kind = "settle" /\ job.step = "pick" /\ p \in job.todo
  /\ book' = Book(p) /\ credited' = credited
  /\ journal' = Append(journal, [kind |-> "settlement", position |-> p, claim |-> ClaimFor(p)])
Redeems(c) ==
  /\ c \in OpenClaims
  /\ book' = Closed(book, c)
  /\ credited' = [p \in Positions |-> credited[p] + IF p \in book.legs[c] THEN 1 ELSE 0]
  /\ journal' = Append(journal, [kind |-> "redeemed", claim |-> c])
Marks ==
  /\ job.step = "closed"
  /\ book' = [book EXCEPT !.closed = @ \cup {job.at}] /\ credited' = credited
  /\ journal' = Append(journal, [kind |-> "closed", position |-> job.at])

\* Every step, a restart with its replay included, moves the book, its journal
\* and what was credited in one of these four ways.
LEMMA BookMoves ==
  ASSUME TypeOK, ReplayFaithful, RecordsSound, CountSound, IdsSound, [Next]_vars
  PROVE  BookKept \/ Marks \/ (\E p \in Positions : Books1(p)) \/ (\E c \in ClaimIds : Redeems(c))
<1> USE DEF disk, venue, bounds, history
<1>1. CASE UNCHANGED vars
  BY <1>1 DEF vars, BookKept
<1>2. ASSUME NEW p \in Positions, Commit(p)
      PROVE  BookKept \/ Books1(p)
  <2>1. CASE Applied(p)
    BY <1>2, <2>1 DEF Commit, Book, BookKept
  <2>2. CASE ~Applied(p)
    <3>1. book' = Book(p) /\ Book(p) # book /\ Book(p).record[p] = ClaimFor(p)
      <4>1. ClaimFor(p) \in ClaimIds \cup {NoClaim}
        BY <2>2, ClaimForIs
      <4> QED
        BY <1>2, <2>2, <4>1, BookIs, BookFields DEF Commit
    <3> QED
      BY <1>2, <2>2, <3>1 DEF Commit, Books1, FirstOf
  <2> QED
    BY <2>1, <2>2
<1>3. CASE NoteClosed
  BY <1>3 DEF NoteClosed, Marks
<1>4. ASSUME NEW c \in ClaimIds, RedemptionConfirmed(c)
      PROVE  BookKept \/ Redeems(c)
  BY <1>4 DEF RedemptionConfirmed, BookKept, Redeems
<1>5. CASE Restart
  BY <1>5 DEF Restart, ReplayFaithful, BookKept
<1>6. ASSUME NEW p \in Positions, FallbackClose(p) \/ RecoverNext(p) \/ OpenPosition(p) \/ ForceCloseExpired(p)
      PROVE  BookKept
  BY <1>6 DEF FallbackClose, RecoverNext, OpenPosition, ForceCloseExpired, BookKept
<1>7. CASE RecordTrade \/ PersistPositions \/ SettleDone \/ FallbackDone \/ RecoverDone \/ TakeSettlementQueries
  BY <1>7 DEF RecordTrade, PersistPositions, SettleDone, FallbackDone, RecoverDone,
              TakeSettlementQueries, BookKept
<1>8. ASSUME NEW m \in Markets, VenueResolves(m) \/ AnswerLost(m) \/ NotResolvedYet(m) \/ OnMarketResolution(m)
      PROVE  BookKept
  BY <1>8 DEF VenueResolves, AnswerLost, NotResolvedYet, OnMarketResolution, BookKept
<1>9. ASSUME NEW ms \in SUBSET Markets, ExpiryFallback(ms)
      PROVE  BookKept
  BY <1>9 DEF ExpiryFallback, BookKept
<1>10. ASSUME NEW c \in ClaimIds, TakeRedemption(c) \/ RedemptionFailed(c) \/ ResultLost(c)
       PROVE  BookKept
  BY <1>10 DEF TakeRedemption, RedemptionFailed, ResultLost, BookKept
<1> QED
  BY <1>1, <1>2, <1>3, <1>4, <1>5, <1>6, <1>7, <1>8, <1>9, <1>10 DEF Next, HandlerStep

BookStep == BookKept \/ Marks \/ (\E p \in Positions : Books1(p)) \/ (\E c \in ClaimIds : Redeems(c))

\* The line that is added says what happened to the book.
LEMMA ReplayKept ==
  ASSUME TypeOK, ReplayFaithful, RecordsSound, CountSound, IdsSound, JobSound, BookStep
  PROVE  ReplayFaithful' /\ book' \in Books /\ journal' \in Seq(JournalLines)
<1>a. book = ReplayOf(journal) /\ journal \in Seq(JournalLines) /\ book \in Books
  BY ReplayedIs DEF ReplayFaithful, TypeOK
<1>b. ASSUME NEW l \in JournalLines, journal' = Append(journal, l), book' = Replay(book, l)
      PROVE  ReplayFaithful' /\ journal' \in Seq(JournalLines)
  <2>1. book' = ReplayOf(journal')
    BY <1>a, <1>b, ReplayAppend
  <2>2. journal' \in Seq(JournalLines)
    BY <1>a, <1>b, AppendProperties
  <2> QED
    BY <2>1, <2>2, ReplayedIs DEF ReplayFaithful
<1>1. CASE BookKept
  BY <1>1, <1>a, ReplayedIs DEF BookKept, ReplayFaithful
<1>2. CASE Marks
  <2>1. job.at \in Positions
    BY <1>2 DEF Marks, JobSound
  <2>2. [kind |-> "closed", position |-> job.at] \in JournalLines
    BY <2>1 DEF JournalLines
  <2> QED
    BY <1>2, <1>b, <2>1, <2>2, MarkedIs DEF Marks
<1>3. ASSUME NEW p \in Positions, Books1(p)
      PROVE  ReplayFaithful' /\ book' \in Books /\ journal' \in Seq(JournalLines)
  <2>1. ~Applied(p) /\ ClaimFor(p) \in ClaimIds \cup {NoClaim}
    BY <1>3, ClaimForIs DEF Books1
  <2>2. [kind |-> "settlement", position |-> p, claim |-> ClaimFor(p)] \in JournalLines
    BY <2>1 DEF JournalLines
  <2> QED
    BY <1>3, <1>b, <2>1, <2>2, BookIs DEF Books1
<1>4. ASSUME NEW c \in ClaimIds, Redeems(c)
      PROVE  ReplayFaithful' /\ book' \in Books /\ journal' \in Seq(JournalLines)
  <2>1. [kind |-> "redeemed", claim |-> c] \in JournalLines
    BY DEF JournalLines
  <2> QED
    BY <1>4, <1>b, <2>1, ClosedIs DEF Redeems
<1> QED
  BY <1>1, <1>2, <1>3, <1>4 DEF BookStep

\* Legs and records stay together.
LEMMA LegsKept ==
  ASSUME TypeOK, LegsSound, RecordsSound, CountSound, IdsSound, JobSound, BookStep
  PROVE  LegsSound' /\ RecordsSound' /\ credited' \in [Positions -> Nat]
<1>a. credited \in [Positions -> Nat]
  BY DEF TypeOK
<1>1. CASE BookKept \/ Marks
  <2>1. book'.legs = book.legs /\ book'.record = book.record /\ credited' = credited
    <3>1. Marks => job.at \in Positions
      BY DEF Marks, JobSound
    <3> QED
      BY <1>1, <3>1, MarkedIs DEF BookKept, Marks
  <2> QED
    BY <1>a, <2>1 DEF LegsSound, RecordsSound
<1>2. ASSUME NEW p \in Positions, Books1(p)
      PROVE  LegsSound' /\ RecordsSound' /\ credited' \in [Positions -> Nat]
  <2> DEFINE c == ClaimFor(p)
  <2>1. ~Applied(p) /\ c \in ClaimIds \cup {NoClaim} /\ credited' = credited /\ book' = Book(p)
        /\ (c = NoClaim => Worth[p] = 0) /\ (c \in ClaimIds => c[1] = MarketOf[p])
    BY <1>2, ClaimForIs DEF Books1
  <2>2. book'.record = [book.record EXCEPT ![p] = c]
        /\ (c = NoClaim => book'.legs = book.legs)
        /\ (c # NoClaim => book'.legs = [book.legs EXCEPT ![c] = @ \cup {p}])
    BY <2>1, BookIs
  <2> HIDE DEF c
  <2>3. credited[p] = 0 /\ book.record[p] = Unsettled /\ Unsettled \notin ClaimIds
        /\ Unsettled # NoClaim /\ NoClaim \notin ClaimIds
    BY <2>1, NoNames, PaidFinite DEF Applied, RecordsSound, ClaimIds
  <2>4. \A q \in Positions : book'.record[q] = IF q = p THEN c ELSE book.record[q]
    BY <2>2, BookFields
  <2>5. \A d \in ClaimIds : book'.legs[d] = IF d = c THEN book.legs[d] \cup {p} ELSE book.legs[d]
    BY <2>1, <2>2, <2>3, BookFields
  <2>6. \A d \in ClaimIds : p \notin book.legs[d] /\ book.legs[d] \subseteq Positions
    BY <2>3, BookFields DEF LegsSound
  <2>7. LegsSound'
    <3> SUFFICES ASSUME NEW d \in ClaimIds, NEW q \in book'.legs[d]
                 PROVE  book'.record[q] = d /\ MarketOf[q] = d[1] /\ credited'[q] = 0
      BY DEF LegsSound
    <3>1. CASE q = p
      BY <2>1, <2>3, <2>4, <2>5, <2>6, <3>1
    <3>2. CASE q # p
      <4>1. q \in book.legs[d] /\ q \in Positions
        BY <2>5, <2>6, <3>2
      <4> QED
        BY <2>1, <2>4, <3>2, <4>1 DEF LegsSound
    <3> QED
      BY <3>1, <3>2
  <2>8. RecordsSound'
    <3> SUFFICES ASSUME NEW q \in Positions PROVE RecordsSound!(q)'
      BY DEF RecordsSound
    <3>1. CASE q = p
      <4>1. book'.record[q] = c /\ credited'[q] = 0 /\ c # Unsettled
        BY <2>1, <2>3, <2>4, <3>1
      <4>2. c \in ClaimIds => p \in book'.legs[c]
        BY <2>5
      <4> QED
        BY <2>1, <2>3, <3>1, <4>1, <4>2
    <3>2. CASE q # p
      BY <2>1, <2>4, <2>5, <3>2 DEF RecordsSound
    <3> QED
      BY <3>1, <3>2
  <2> QED
    BY <1>a, <2>1, <2>7, <2>8
<1>3. ASSUME NEW c \in ClaimIds, Redeems(c)
      PROVE  LegsSound' /\ RecordsSound' /\ credited' \in [Positions -> Nat]
  <2>1. book'.record = book.record /\ book'.legs = [book.legs EXCEPT ![c] = {}]
    BY <1>3, ClosedIs DEF Redeems
  <2>2. \A d \in ClaimIds : book'.legs[d] = IF d = c THEN {} ELSE book.legs[d]
    BY <2>1, BookFields
  <2>3. \A q \in Positions : credited'[q] = IF q \in book.legs[c] THEN credited[q] + 1 ELSE credited[q]
    BY <1>3, <1>a DEF Redeems
  <2>4. credited' \in [Positions -> Nat]
    BY <1>3, <1>a DEF Redeems
  <2>5. LegsSound'
    <3> SUFFICES ASSUME NEW d \in ClaimIds, NEW q \in book'.legs[d]
                 PROVE  book'.record[q] = d /\ MarketOf[q] = d[1] /\ credited'[q] = 0
      BY DEF LegsSound
    <3>1. d # c /\ q \in book.legs[d] /\ q \in Positions
      BY <2>2, BookFields
    <3>2. book.record[q] = d /\ MarketOf[q] = d[1] /\ credited[q] = 0 /\ q \notin book.legs[c]
      BY <3>1 DEF LegsSound
    <3> QED
      BY <2>1, <2>3, <3>1, <3>2
  <2>6. RecordsSound'
    <3> SUFFICES ASSUME NEW q \in Positions PROVE RecordsSound!(q)'
      BY DEF RecordsSound
    <3>1. Unsettled \notin ClaimIds /\ NoClaim \notin ClaimIds
      BY NoNames, PaidFinite DEF ClaimIds
    <3>2. CASE q \in book.legs[c]
      BY <1>a, <2>1, <2>3, <3>1, <3>2 DEF LegsSound
    <3>3. CASE q \notin book.legs[c]
      BY <1>a, <2>1, <2>2, <2>3, <3>3 DEF RecordsSound
    <3> QED
      BY <3>2, <3>3
  <2> QED
    BY <2>4, <2>5, <2>6
<1> QED
  BY <1>1, <1>2, <1>3 DEF BookStep

\* A redemption pays a position that was not paid before.
LEMMA CountKept ==
  ASSUME TypeOK, LegsSound, RecordsSound, CountSound, IdsSound, JobSound, BookStep
  PROVE  CountSound'
<1> SUFFICES ASSUME NEW m \in Markets PROVE book'.used[m] <= Cardinality(Paid(m)')
  BY DEF CountSound
<1>a. Paid(m)' \subseteq Positions /\ IsFiniteSet(Positions) /\ IsFiniteSet(Paid(m)')
  <2>1. Paid(m)' \subseteq Positions
    BY DEF Paid
  <2> QED
    BY <2>1, PositionAttributes, FS_Subset
<1>1. CASE book'.used = book.used /\ credited' = credited
  BY <1>1 DEF CountSound, Paid
<1>2. CASE BookKept \/ Marks \/ \E p \in Positions : Books1(p)
  <2>1. Marks => job.at \in Positions
    BY DEF Marks, JobSound
  <2>2. ASSUME NEW p \in Positions, Books1(p) PROVE book'.used = book.used /\ credited' = credited
    BY <2>2, ClaimForIs, BookIs DEF Books1
  <2>3. book'.used = book.used /\ credited' = credited
    BY <1>2, <2>1, <2>2, MarkedIs DEF BookKept, Marks
  <2> QED
    BY <1>1, <2>3
<1>3. ASSUME NEW c \in ClaimIds, Redeems(c)
      PROVE  book'.used[m] <= Cardinality(Paid(m)')
  <2>1. \A q \in Positions : credited'[q] = IF q \in book.legs[c] THEN credited[q] + 1 ELSE credited[q]
    BY <1>3 DEF Redeems, TypeOK
  <2>2. Paid(m) \subseteq Paid(m)'
    <3>1. \A q \in Positions : credited[q] \in Nat
      BY DEF TypeOK
    <3>2. \A q \in Positions : credited[q] > 0 => credited'[q] > 0
      BY <2>1, <3>1
    <3> QED
      BY <3>2 DEF Paid
  <2>3. book'.used = [book.used EXCEPT ![c[1]] = @ + 1]
    BY <1>3, ClosedIs DEF Redeems
  <2>4. book.used[m] \in Nat /\ book.used[m] <= Cardinality(Paid(m)) /\ Cardinality(Paid(m)) \in Nat
    BY BookFields, PaidFinite DEF CountSound
  <2>5. CASE c[1] # m
    <3>1. book'.used[m] = book.used[m]
      BY <2>3, <2>5, BookFields
    <3>2. Cardinality(Paid(m)) <= Cardinality(Paid(m)') /\ Cardinality(Paid(m)') \in Nat
      BY <1>a, <2>2, FS_Subset, FS_CardinalityType
    <3> QED
      BY <2>4, <3>1, <3>2
  <2>6. CASE c[1] = m
    <3>1. book'.used[m] = book.used[m] + 1
      BY <2>3, <2>6, BookFields
    <3>2. PICK q \in book.legs[c] : TRUE
      BY <1>3 DEF Redeems, OpenClaims
    <3>3. q \in Positions /\ MarketOf[q] = m /\ credited[q] = 0
      BY <2>6, BookFields DEF LegsSound
    <3>4. q \notin Paid(m) /\ Paid(m) \cup {q} \subseteq Paid(m)'
      BY <2>1, <2>2, <3>2, <3>3 DEF Paid
    <3>5. Cardinality(Paid(m) \cup {q}) = Cardinality(Paid(m)) + 1
      BY <3>4, PaidFinite, FS_AddElement
    <3>6. Cardinality(Paid(m) \cup {q}) <= Cardinality(Paid(m)') /\ Cardinality(Paid(m)') \in Nat
      BY <1>a, <3>4, FS_Subset, FS_CardinalityType
    <3> QED
      BY <2>4, <3>1, <3>5, <3>6
  <2> QED
    BY <2>5, <2>6
<1> QED
  BY <1>2, <1>3 DEF BookStep

\* A new claim has an ordinal no redeemed one has.
LEMMA IdsKept ==
  ASSUME TypeOK, LegsSound, RecordsSound, CountSound, IdsSound, JobSound, BookStep
  PROVE  IdsSound'
<1>a. journal \in Seq(JournalLines)
  BY DEF TypeOK
<1>b. ASSUME NEW l, journal' = Append(journal, l), NEW i \in DOMAIN journal'
      PROVE  (i \in DOMAIN journal /\ journal'[i] = journal[i]) \/ journal'[i] = l
  BY <1>a, <1>b
<1>1. CASE BookKept
  BY <1>1 DEF BookKept, IdsSound, OpenClaims
<1>2. CASE Marks
  <2>1. book'.legs = book.legs /\ book'.used = book.used
        /\ journal' = Append(journal, [kind |-> "closed", position |-> job.at])
    BY <1>2, MarkedIs DEF Marks, JobSound
  <2>2. \A i \in DOMAIN journal' : journal'[i].kind = "redeemed" =>
          i \in DOMAIN journal /\ journal'[i] = journal[i]
    BY <1>b, <2>1
  <2>3. OpenClaims' = OpenClaims
    BY <2>1 DEF OpenClaims
  <2> QED
    BY <2>1, <2>2, <2>3 DEF IdsSound
<1>3. ASSUME NEW p \in Positions, Books1(p)
      PROVE  IdsSound'
  <2> DEFINE c == ClaimFor(p)
  <2>1. ~Applied(p) /\ c \in ClaimIds \cup {NoClaim} /\ book' = Book(p)
        /\ (c \in ClaimIds => /\ c[2] <= book.used[c[1]] + 1
                              /\ \A i \in DOMAIN journal :
                                   journal[i].kind = "redeemed" => journal[i].claim # c)
    BY <1>3, ClaimForIs DEF Books1
  <2>2. book'.used = book.used
        /\ (c = NoClaim => book'.legs = book.legs)
        /\ (c # NoClaim => book'.legs = [book.legs EXCEPT ![c] = @ \cup {p}])
    BY <2>1, BookIs
  <2>3. \A i \in DOMAIN journal' : journal'[i].kind = "redeemed" =>
          i \in DOMAIN journal /\ journal'[i] = journal[i]
    BY <1>b, <1>3 DEF Books1
  <2> HIDE DEF c
  <2>4. NoClaim \notin ClaimIds
    BY NoNames, PaidFinite DEF ClaimIds
  <2>5. \A d \in OpenClaims' : d \in OpenClaims \/ (d = c /\ c \in ClaimIds)
    BY <2>1, <2>2, <2>4, BookFields DEF OpenClaims
  <2> QED
    BY <2>1, <2>2, <2>3, <2>5 DEF IdsSound
<1>4. ASSUME NEW c \in ClaimIds, Redeems(c)
      PROVE  IdsSound'
  <2>1. /\ c \in OpenClaims /\ book'.legs = [book.legs EXCEPT ![c] = {}]
        /\ book'.used = [book.used EXCEPT ![c[1]] = @ + 1]
        /\ journal' = Append(journal, [kind |-> "redeemed", claim |-> c])
    BY <1>4, ClosedIs DEF Redeems
  <2>2. OpenClaims' = OpenClaims \ {c}
    BY <2>1, BookFields DEF OpenClaims
  <2>3. \A d \in ClaimIds : book.used[d[1]] \in Nat /\ d[2] \in Nat
    BY BookFields, PaidFinite DEF ClaimIds
  <2>4. \A d \in ClaimIds : book'.used[d[1]] = IF d[1] = c[1] THEN book.used[d[1]] + 1 ELSE book.used[d[1]]
    BY <2>1, BookFields DEF ClaimIds
  <2>5. \A d \in OpenClaims' : d[2] <= book'.used[d[1]] + 1
    <3> SUFFICES ASSUME NEW d \in OpenClaims, d \in ClaimIds PROVE d[2] <= book'.used[d[1]] + 1
      BY <2>2 DEF OpenClaims
    <3> QED
      BY <2>3, <2>4 DEF IdsSound
  <2>6. ASSUME NEW i \in DOMAIN journal', journal'[i].kind = "redeemed", NEW d, d = journal'[i].claim
        PROVE  d \notin OpenClaims' /\ book'.used[d[1]] >= 1 /\ d[2] <= book'.used[d[1]]
    <3>1. CASE i \in DOMAIN journal /\ journal'[i] = journal[i]
      <4>1. d \notin OpenClaims /\ book.used[d[1]] >= 1 /\ d[2] <= book.used[d[1]]
        BY <2>6, <3>1 DEF IdsSound
      <4>2. d \in ClaimIds
        <5>1. journal[i] \in JournalLines
          BY <1>a, <3>1
        <5> QED
          BY <2>6, <3>1, <5>1 DEF JournalLines
      <4> QED
        BY <2>2, <2>3, <2>4, <4>1, <4>2
    <3>2. CASE journal'[i] = [kind |-> "redeemed", claim |-> c]
      <4>1. d = c
        BY <2>6, <3>2
      <4>2. c[2] <= book.used[c[1]] + 1
        BY <2>1 DEF IdsSound
      <4> QED
        BY <2>2, <2>3, <2>4, <4>1, <4>2
    <3> QED
      BY <1>b, <2>1, <3>1, <3>2
  <2> QED
    BY <2>5, <2>6 DEF IdsSound
<1> QED
  BY <1>1, <1>2, <1>3, <1>4 DEF BookStep

-----------------------------------------------------------------------------
(* The handlers *)

HandlerSound == JobSound /\ BirthSound /\ ChannelSound

\* The fields of the job.
LEMMA JobFields ==
  ASSUME TypeOK
  PROVE  /\ job.kind \in {"idle", "settle", "fallback", "recover"}
         /\ job.markets \in SUBSET Markets /\ job.todo \in SUBSET Positions
         /\ job.at \in Positions \cup {NoPosition}
         /\ job.step \in {"pick", "trade", "closed", "save"} /\ job.unpriced \in BOOLEAN
         /\ job = [kind |-> job.kind, markets |-> job.markets, todo |-> job.todo, at |-> job.at,
                   step |-> job.step, unpriced |-> job.unpriced]
  BY DEF TypeOK, Jobs

\* Steps of the venue and the executor that touch no handler.
LEMMA HandlersUntouched ==
  ASSUME HandlerSound, UNCHANGED <<born, open, job, fallback, torn>>,
         book'.record = book.record, book'.closed = book.closed
  PROVE  HandlerSound'
  BY DEF HandlerSound, JobSound, BirthSound, ChannelSound, Applied, Closing

\* A handler that has no settled position to close leaves none behind.
LEMMA NoneClosing ==
  ASSUME TypeOK, HandlerSound,
         job.step # "trade", job.kind # "recover" \/ job.todo = {}
  PROVE  \A p \in open \ torn : ~Applied(p)
  BY DEF TypeOK, HandlerSound, ChannelSound, Closing

\* Between handlers: a handler starts, or a position is opened.
LEMMA StartsKept ==
  ASSUME TypeOK, HandlerSound, job.step # "trade", job.kind # "recover" \/ job.todo = {},
         UNCHANGED <<book, fallback, torn>>, job'.step = "pick", job'.kind # "recover",
         \/ UNCHANGED <<born, open>>
         \/ \E p \in Positions \ born : born' = born \cup {p} /\ open' = open \cup {p}
  PROVE  HandlerSound'
<1>1. JobSound'
  BY DEF JobSound
<1>2. BirthSound'
  BY DEF BirthSound, HandlerSound, Applied
<1>3. ChannelSound'
  <2> SUFFICES ASSUME NEW p \in Positions, p \notin torn PROVE ChannelSound!(p)'
    BY DEF ChannelSound
  <2>1. p \in open \/ p \in open' \ born \/ p \notin open'
    OBVIOUS
  <2>2. p \in open => ~Applied(p)
    BY NoneClosing
  <2>3. p \notin born => fallback[p] = 0 /\ p \notin book.closed /\ ~Applied(p)
    BY DEF HandlerSound, BirthSound, TypeOK
  <2> QED
    BY <2>1, <2>2, <2>3 DEF HandlerSound, ChannelSound, Applied
<1> QED
  BY <1>1, <1>2, <1>3 DEF HandlerSound

\* Opening a position keeps what is said of the handlers.
LEMMA OpenPositionKept ==
  ASSUME TypeOK, HandlerSound, NEW p \in Positions, OpenPosition(p)
  PROVE  HandlerSound'
  BY StartsKept DEF OpenPosition, Idle, history

\* Closing without a settlement keeps what is said of the handlers.
LEMMA FallbackCloseKept ==
  ASSUME TypeOK, HandlerSound, NEW p \in Positions, FallbackClose(p)
  PROVE  HandlerSound'
<1>a. /\ job.kind = "fallback" /\ p \in job.todo /\ p \in open
      /\ open' = open \ {p} /\ born' = born /\ book' = book /\ torn' = torn
      /\ fallback' = [fallback EXCEPT ![p] = @ + 1]
      /\ job' = [job EXCEPT !.todo = @ \ {p}]
  BY DEF FallbackClose, TypeOK
<1>b. job.step = "pick" /\ job'.step = "pick" /\ job'.kind = "fallback"
  BY <1>a, JobFields DEF HandlerSound, JobSound
<1>c. \A q \in Positions : fallback[q] \in Nat /\ fallback'[q] = IF q = p THEN fallback[q] + 1 ELSE fallback[q]
  BY <1>a DEF TypeOK
<1>1. JobSound'
  BY <1>b DEF JobSound
<1>2. BirthSound'
  BY <1>a, <1>c DEF HandlerSound, BirthSound, Applied, TypeOK
<1>3. ChannelSound'
  <2> SUFFICES ASSUME NEW q \in Positions \ torn PROVE ChannelSound!(q)'
    BY <1>a DEF ChannelSound
  <2>1. \A r \in open \ torn : ~Applied(r)
    BY <1>a, <1>b, NoneClosing
  <2>2. CASE q = p
    <3>1. fallback[q] = 0 /\ ~Applied(q) /\ q \notin open'
      BY <1>a, <2>1, <2>2 DEF HandlerSound, ChannelSound
    <3> QED
      BY <1>a, <1>c, <2>2, <3>1 DEF Applied
  <2>3. CASE q # p
    BY <1>a, <1>c, <2>1, <2>3 DEF HandlerSound, ChannelSound, Applied
  <2> QED
    BY <2>2, <2>3
<1> QED
  BY <1>1, <1>2, <1>3 DEF HandlerSound

\* Committing a settled close keeps what is said of the handlers.
LEMMA CommitKept ==
  ASSUME TypeOK, RecordsSound, CountSound, IdsSound, HandlerSound, NEW p \in Positions, Commit(p)
  PROVE  HandlerSound'
<1>a. /\ job.kind = "settle" /\ job.step = "pick" /\ p \in job.todo /\ p \in open /\ p \in born
      /\ UNCHANGED <<born, open, fallback, torn>>
  BY DEF Commit, FirstOf, TypeOK, history
<1>1. CASE Applied(p)
  <2>1. book' = book /\ job' = [job EXCEPT !.todo = @ \ {p}]
    BY <1>1 DEF Commit, Book
  <2>2. job'.step = "pick" /\ job'.kind = "settle"
    BY <1>a, <2>1, JobFields
  <2> QED
    BY <1>a, <2>1, <2>2, StartsKept
<1>2. CASE ~Applied(p)
  <2>1. ClaimFor(p) \in ClaimIds \cup {NoClaim}
    BY <1>2, ClaimForIs
  <2>2. book' = Book(p) /\ book' # book /\ book'.record = [book.record EXCEPT ![p] = ClaimFor(p)]
        /\ book'.closed = book.closed
    BY <1>2, <2>1, BookIs DEF Commit
  <2>3. job' = [job EXCEPT !.todo = @ \ {p}, !.at = p, !.step = "trade"]
    BY <2>2 DEF Commit
  <2>4. job'.kind = "settle" /\ job'.step = "trade" /\ job'.at = p /\ job'.todo = job.todo \ {p}
    BY <1>a, <2>3, JobFields
  <2>5. \A q \in Positions : Applied(q)' <=> (q = p \/ Applied(q))
    <3>1. Unsettled \notin ClaimIds \cup {NoClaim}
      BY NoNames, PaidFinite DEF ClaimIds
    <3> QED
      BY <2>1, <2>2, <3>1, BookFields DEF Applied
  <2>6. JobSound'
    BY <1>2, <2>2, <2>4, <2>5 DEF JobSound, HandlerSound, BirthSound
  <2>7. BirthSound'
    BY <1>a, <2>2, <2>5 DEF HandlerSound, BirthSound
  <2>8. ChannelSound'
    <3>1. \A q \in open \ torn : ~Applied(q)
      BY <1>a, NoneClosing
    <3> SUFFICES ASSUME NEW q \in Positions \ torn PROVE ChannelSound!(q)'
      BY <1>a DEF ChannelSound
    <3>2. CASE q = p
      BY <1>a, <2>2, <2>4, <3>2 DEF HandlerSound, ChannelSound, Closing, TypeOK
    <3>3. CASE q # p
      BY <1>a, <2>2, <2>5, <3>1, <3>3 DEF HandlerSound, ChannelSound
    <3> QED
      BY <3>2, <3>3
  <2> QED
    BY <2>6, <2>7, <2>8 DEF HandlerSound
<1> QED
  BY <1>1, <1>2

\* Recording the trade of a close keeps what is said of the handlers.
LEMMA RecordTradeKept ==
  ASSUME TypeOK, HandlerSound, RecordTrade
  PROVE  HandlerSound'
<1>a. /\ job.step = "trade" /\ job.at \in Positions \ job.todo /\ Applied(job.at)
      /\ open' = open \ {job.at} /\ UNCHANGED <<born, book, fallback, torn>>
      /\ job' = [job EXCEPT !.step = "closed"]
  BY DEF RecordTrade, HandlerSound, JobSound, history
<1>b. job'.kind = job.kind /\ job'.step = "closed" /\ job'.at = job.at /\ job'.todo = job.todo
  BY <1>a, JobFields
<1>1. JobSound'
  BY <1>a, <1>b DEF HandlerSound, JobSound, Applied
<1>2. BirthSound'
  BY <1>a DEF HandlerSound, BirthSound, Applied
<1>3. ChannelSound'
  BY <1>a, <1>b DEF HandlerSound, ChannelSound, Applied, Closing
<1> QED
  BY <1>1, <1>2, <1>3 DEF HandlerSound

\* Noting a close in the journal keeps what is said of the handlers.
LEMMA NoteClosedKept ==
  ASSUME TypeOK, HandlerSound, NoteClosed
  PROVE  HandlerSound'
<1>a. /\ job.step = "closed" /\ job.at \in Positions \ job.todo /\ Applied(job.at) /\ job.at \notin open
      /\ job.kind \in {"settle", "recover"}
      /\ UNCHANGED <<born, open, fallback, torn>>
      /\ job' = [job EXCEPT !.step = IF job.kind = "settle" THEN "save" ELSE "pick"]
  BY DEF NoteClosed, HandlerSound, JobSound, history
<1>b. /\ job'.kind = job.kind /\ job'.at = job.at /\ job'.todo = job.todo
      /\ job'.step = IF job.kind = "settle" THEN "save" ELSE "pick"
  BY <1>a, JobFields
<1>c. book'.record = book.record /\ book'.closed = book.closed \cup {job.at}
  BY <1>a, MarkedIs DEF NoteClosed
<1>1. JobSound'
  BY <1>a, <1>b, <1>c DEF HandlerSound, JobSound, Applied
<1>2. BirthSound'
  BY <1>a, <1>c DEF HandlerSound, BirthSound, Applied
<1>3. ChannelSound'
  BY <1>a, <1>b, <1>c DEF HandlerSound, ChannelSound, Applied, Closing
<1> QED
  BY <1>1, <1>2, <1>3 DEF HandlerSound

\* Recovering one close after a restart keeps what is said of the handlers.
LEMMA RecoverNextKept ==
  ASSUME TypeOK, HandlerSound, NEW p \in Positions, RecoverNext(p)
  PROVE  HandlerSound'
<1>a. /\ job.kind = "recover" /\ job.step = "pick" /\ p \in job.todo
      /\ UNCHANGED <<born, open, book, fallback, torn>>
      /\ job' = [job EXCEPT !.todo = @ \ {p}, !.at = p, !.step = "trade"]
  BY DEF RecoverNext, history
<1>b. job'.kind = "recover" /\ job'.step = "trade" /\ job'.at = p /\ job'.todo = job.todo \ {p}
  BY <1>a, JobFields
<1>1. JobSound'
  BY <1>a, <1>b DEF HandlerSound, JobSound, Applied
<1>2. BirthSound'
  BY <1>a DEF HandlerSound, BirthSound, Applied
<1>3. ChannelSound'
  BY <1>a, <1>b DEF HandlerSound, ChannelSound, Applied, Closing
<1> QED
  BY <1>1, <1>2, <1>3 DEF HandlerSound

\* The journal brings back the book, and what a stop tore is named by torn.
LEMMA RestartKept ==
  ASSUME TypeOK, ReplayFaithful, HandlerSound, Restart
  PROVE  HandlerSound'
<1>a. /\ book' = book /\ open' = snap /\ torn' = torn \cup (snap \ open)
      /\ UNCHANGED <<born, fallback>>
      /\ job' = [Idle EXCEPT !.kind = "recover", !.todo = Recover(book, snap)]
  BY DEF Restart, ReplayFaithful
<1>b. job'.kind = "recover" /\ job'.step = "pick"
      /\ job'.todo = {p \in snap : Applied(p) /\ p \notin book.closed}
  BY <1>a DEF Idle, Recover, Applied
<1>1. JobSound'
  BY <1>a, <1>b DEF JobSound, Applied
<1>2. BirthSound'
  BY <1>a DEF HandlerSound, BirthSound, Applied
<1>3. ChannelSound'
  <2> SUFFICES ASSUME NEW p \in Positions, p \notin torn' PROVE ChannelSound!(p)'
    BY DEF ChannelSound
  <2>1. p \notin torn /\ (p \in open' => p \in open)
    BY <1>a
  <2> QED
    BY <1>a, <1>b, <2>1 DEF HandlerSound, ChannelSound, Applied, Closing
<1> QED
  BY <1>1, <1>2, <1>3 DEF HandlerSound

\* Every step keeps what is known of the handlers.
LEMMA HandlersKept ==
  ASSUME TypeOK, ReplayFaithful, RecordsSound, CountSound, IdsSound, HandlerSound, [Next]_vars
  PROVE  HandlerSound'
<1> USE DEF disk, venue, bounds, history
<1>1. CASE UNCHANGED vars
  BY <1>1, HandlersUntouched DEF vars
<1>2. ASSUME NEW p \in Positions,
             Commit(p) \/ FallbackClose(p) \/ RecoverNext(p) \/ OpenPosition(p)
      PROVE  HandlerSound'
  BY <1>2, CommitKept, FallbackCloseKept, RecoverNextKept, OpenPositionKept
<1>3. ASSUME NEW p \in Positions, ForceCloseExpired(p)
      PROVE  HandlerSound'
  BY <1>3, StartsKept DEF ForceCloseExpired, Idle
<1>4. CASE RecordTrade \/ NoteClosed \/ Restart
  BY <1>4, RecordTradeKept, NoteClosedKept, RestartKept
<1>5. CASE PersistPositions
  <2>1. job.step = "save" /\ job.kind = "settle" /\ job' = [job EXCEPT !.step = "pick"]
        /\ UNCHANGED <<book, fallback, torn, born, open>>
    BY <1>5 DEF PersistPositions, HandlerSound, JobSound
  <2>2. job'.step = "pick" /\ job'.kind = "settle"
    BY <2>1, JobFields
  <2> QED
    BY <2>1, <2>2, StartsKept
<1>6. CASE SettleDone \/ FallbackDone \/ RecoverDone
  <2>1. /\ job.step # "trade" /\ (job.kind # "recover" \/ job.todo = {})
        /\ UNCHANGED <<book, fallback, torn, born, open>> /\ job' = Idle
    BY <1>6 DEF SettleDone, FallbackDone, RecoverDone, HandlerSound, JobSound
  <2>2. job'.step = "pick" /\ job'.kind = "idle"
    BY <2>1 DEF Idle
  <2> QED
    BY <2>1, <2>2, StartsKept
<1>7. ASSUME NEW m \in Markets, OnMarketResolution(m)
      PROVE  HandlerSound'
  <2>1. CASE job' = job
    BY <1>7, <2>1, HandlersUntouched DEF OnMarketResolution
  <2>2. CASE job' # job
    <3>1. /\ job = Idle /\ UNCHANGED <<book, fallback, torn, born, open>>
          /\ \E priced : job' = [Idle EXCEPT !.kind = "settle", !.markets = {m},
                                  !.todo = priced, !.unpriced = priced # On(m)]
      BY <1>7, <2>2 DEF OnMarketResolution
    <3>2. job.step = "pick" /\ job.kind = "idle" /\ job'.step = "pick" /\ job'.kind = "settle"
      BY <3>1 DEF Idle
    <3> QED
      BY <3>1, <3>2, StartsKept
  <2> QED
    BY <2>1, <2>2
<1>8. ASSUME NEW ms \in SUBSET Markets, ExpiryFallback(ms)
      PROVE  HandlerSound'
  BY <1>8, StartsKept DEF ExpiryFallback, Idle
<1>9. CASE TakeSettlementQueries
  BY <1>9, HandlersUntouched DEF TakeSettlementQueries
<1>10. ASSUME NEW m \in Markets, VenueResolves(m) \/ AnswerLost(m) \/ NotResolvedYet(m)
       PROVE  HandlerSound'
  BY <1>10, HandlersUntouched DEF VenueResolves, AnswerLost, NotResolvedYet
<1>11. ASSUME NEW c \in ClaimIds, TakeRedemption(c) \/ RedemptionFailed(c) \/ ResultLost(c)
       PROVE  HandlerSound'
  BY <1>11, HandlersUntouched DEF TakeRedemption, RedemptionFailed, ResultLost
<1>12. ASSUME NEW c \in ClaimIds, RedemptionConfirmed(c)
       PROVE  HandlerSound'
  <2>1. book'.record = book.record /\ book'.closed = book.closed
    BY <1>12, ClosedIs DEF RedemptionConfirmed
  <2> QED
    BY <1>12, <2>1, HandlersUntouched DEF RedemptionConfirmed
<1> QED
  BY <1>1, <1>2, <1>3, <1>4, <1>5, <1>6, <1>7, <1>8, <1>9, <1>10, <1>11, <1>12 DEF Next, HandlerStep

-----------------------------------------------------------------------------
(* Type correctness *)

PositionTypes ==
  /\ open \subseteq born /\ snap \subseteq born /\ born \subseteq Positions
  /\ trades \in [Positions -> Nat] /\ fallback \in [Positions -> Nat]
  /\ unverified \subseteq Positions /\ torn \subseteq Positions
JobTypes == job \in Jobs /\ job.todo \subseteq open
VenueTypes ==
  /\ watch \in [Markets -> {"none", "silent", "answered"}]
  /\ asked \cup resolved \subseteq Markets
  /\ flight \in [ClaimIds -> 0..MaxFlight]
  /\ faults \in 0..MaxFaults /\ stops \in 0..MaxStops

\* The positions a step opens, closes or saves.
LEMMA PositionsTyped ==
  ASSUME TypeOK, JobSound, [Next]_vars
  PROVE  PositionTypes'
<1> USE DEF disk, venue, bounds, history
<1>a. /\ open \subseteq born /\ snap \subseteq born /\ born \subseteq Positions
      /\ trades \in [Positions -> Nat] /\ fallback \in [Positions -> Nat]
      /\ unverified \subseteq Positions /\ torn \subseteq Positions /\ job.todo \subseteq open
  BY DEF TypeOK
<1>1. CASE UNCHANGED vars
  BY <1>1, <1>a DEF vars, PositionTypes
<1>2. ASSUME NEW p \in Positions, Commit(p) \/ RecoverNext(p) \/ ForceCloseExpired(p)
      PROVE  PositionTypes'
  BY <1>2, <1>a DEF Commit, RecoverNext, ForceCloseExpired, PositionTypes
<1>3. ASSUME NEW p \in Positions, FallbackClose(p)
      PROVE  PositionTypes'
  <2>1. trades' \in [Positions -> Nat] /\ fallback' \in [Positions -> Nat]
    BY <1>3, <1>a DEF FallbackClose
  <2> QED
    BY <1>3, <1>a, <2>1 DEF FallbackClose, PositionTypes
<1>4. ASSUME NEW p \in Positions, OpenPosition(p)
      PROVE  PositionTypes'
  BY <1>4, <1>a DEF OpenPosition, PositionTypes
<1>5. CASE RecordTrade
  <2>1. job.at \in Positions
    BY <1>5 DEF RecordTrade, JobSound
  <2>2. trades' \in [Positions -> Nat]
    BY <1>5, <1>a, <2>1 DEF RecordTrade
  <2> QED
    BY <1>5, <1>a, <2>2 DEF RecordTrade, PositionTypes
<1>6. CASE NoteClosed \/ PersistPositions \/ TakeSettlementQueries
  BY <1>6, <1>a DEF NoteClosed, PersistPositions, TakeSettlementQueries, PositionTypes
<1>7. CASE SettleDone
  BY <1>7, <1>a DEF SettleDone, PositionTypes
<1>8. CASE FallbackDone \/ RecoverDone
  BY <1>8, <1>a DEF FallbackDone, RecoverDone, PositionTypes
<1>9. ASSUME NEW m \in Markets, VenueResolves(m) \/ AnswerLost(m) \/ NotResolvedYet(m) \/ OnMarketResolution(m)
      PROVE  PositionTypes'
  BY <1>9, <1>a DEF VenueResolves, AnswerLost, NotResolvedYet, OnMarketResolution, PositionTypes
<1>10. ASSUME NEW ms \in SUBSET Markets, ExpiryFallback(ms)
       PROVE  PositionTypes'
  BY <1>10, <1>a DEF ExpiryFallback, PositionTypes
<1>11. ASSUME NEW c \in ClaimIds,
              TakeRedemption(c) \/ RedemptionConfirmed(c) \/ RedemptionFailed(c) \/ ResultLost(c)
       PROVE  PositionTypes'
  BY <1>11, <1>a DEF TakeRedemption, RedemptionConfirmed, RedemptionFailed, ResultLost, PositionTypes
<1>12. CASE Restart
  BY <1>12, <1>a DEF Restart, PositionTypes
<1> QED
  BY <1>1, <1>2, <1>3, <1>4, <1>5, <1>6, <1>7, <1>8, <1>9, <1>10, <1>11, <1>12 DEF Next, HandlerStep

\* The job of the same handler, further on.
JobWith(ps, a, t) ==
  [kind |-> job.kind, markets |-> job.markets, todo |-> ps, at |-> a, step |-> t,
   unpriced |-> job.unpriced]

\* A handler only works on open positions.
LEMMA JobTyped ==
  ASSUME TypeOK, ReplayFaithful, JobSound, [Next]_vars
  PROVE  JobTypes'
<1> USE DEF disk, venue, bounds, history
<1>a. JobTypes /\ open \subseteq Positions /\ snap \subseteq Positions
  BY DEF TypeOK, JobTypes
<1>b. Idle \in Jobs /\ Idle.todo = {}
  BY DEF Idle, Jobs
<1>c. ASSUME NEW k \in {"idle", "settle", "fallback", "recover"}, NEW ms \in SUBSET Markets,
             NEW ps \in SUBSET Positions, ps \subseteq open', NEW a \in Positions \cup {NoPosition},
             NEW t \in {"pick", "trade", "closed", "save"}, NEW u \in BOOLEAN,
             job' = [kind |-> k, markets |-> ms, todo |-> ps, at |-> a, step |-> t, unpriced |-> u]
      PROVE  JobTypes'
  BY <1>c DEF JobTypes, Jobs
<1>d. ASSUME NEW ps \in SUBSET job.todo, ps \subseteq open', NEW a \in Positions \cup {NoPosition},
             NEW t \in {"pick", "trade", "closed", "save"}, job' = JobWith(ps, a, t)
      PROVE  JobTypes'
  BY <1>c, <1>d, JobFields DEF JobWith
<1>1. CASE UNCHANGED <<job, open>>
  BY <1>1, <1>a DEF JobTypes
<1>2. ASSUME NEW p \in Positions, Commit(p)
      PROVE  JobTypes'
  <2>1. job' = JobWith(job.todo \ {p}, job.at, job.step)
        \/ job' = JobWith(job.todo \ {p}, p, "trade")
    BY <1>2, JobFields DEF JobWith, Commit
  <2>2. job.todo \ {p} \subseteq open'
    BY <1>2, <1>a DEF Commit, JobTypes
  <2> QED
    BY <1>d, <2>1, <2>2, JobFields
<1>3. ASSUME NEW p \in Positions, RecoverNext(p)
      PROVE  JobTypes'
  <2>1. job' = JobWith(job.todo \ {p}, p, "trade")
    BY <1>3, JobFields DEF JobWith, RecoverNext
  <2>2. job.todo \ {p} \subseteq open'
    BY <1>3, <1>a DEF RecoverNext, JobTypes
  <2> QED
    BY <1>d, <2>1, <2>2, JobFields
<1>4. ASSUME NEW p \in Positions, FallbackClose(p)
      PROVE  JobTypes'
  <2>1. job' = JobWith(job.todo \ {p}, job.at, job.step)
    BY <1>4, JobFields DEF JobWith, FallbackClose
  <2>2. job.todo \ {p} \subseteq open'
    BY <1>4, <1>a DEF FallbackClose, JobTypes
  <2> QED
    BY <1>d, <2>1, <2>2, JobFields
<1>5. CASE RecordTrade
  <2>1. job' = JobWith(job.todo, job.at, "closed")
    BY <1>5, JobFields DEF JobWith, RecordTrade
  <2>2. job.todo \subseteq open'
    BY <1>5, <1>a DEF RecordTrade, JobSound, JobTypes
  <2> QED
    BY <1>d, <2>1, <2>2, JobFields
<1>6. CASE NoteClosed \/ PersistPositions
  <2>1. open' = open /\ \E t \in {"pick", "save"} :
          job' = JobWith(job.todo, job.at, t)
    BY <1>6, JobFields DEF JobWith, NoteClosed, PersistPositions
  <2> QED
    BY <1>a, <1>d, <2>1, JobFields DEF JobTypes
<1>7. CASE SettleDone \/ FallbackDone \/ RecoverDone
  <2>1. job' = Idle
    BY <1>7 DEF SettleDone, FallbackDone, RecoverDone
  <2> QED
    BY <1>b, <2>1 DEF JobTypes
<1>8. ASSUME NEW p \in Positions, OpenPosition(p)
      PROVE  JobTypes'
  BY <1>8, <1>a DEF OpenPosition, JobTypes
<1>9. ASSUME NEW p \in Positions, ForceCloseExpired(p)
      PROVE  JobTypes'
  <2>1. job' = [kind |-> "fallback", markets |-> {}, todo |-> {p}, at |-> NoPosition,
                step |-> "pick", unpriced |-> FALSE]
    BY <1>9 DEF ForceCloseExpired, Idle
  <2>2. {p} \subseteq open' /\ open' = open
    BY <1>9 DEF ForceCloseExpired
  <2> QED
    BY <1>a, <1>c, <2>1, <2>2
<1>10. ASSUME NEW m \in Markets, OnMarketResolution(m)
       PROVE  JobTypes'
  <2>1. CASE job' = job
    BY <1>1, <1>10, <2>1 DEF OnMarketResolution
  <2>2. CASE job' # job
    <3>1. PICK priced \in SUBSET On(m) :
            job' = [Idle EXCEPT !.kind = "settle", !.markets = {m}, !.todo = priced,
                      !.unpriced = priced # On(m)]
      BY <1>10, <2>2 DEF OnMarketResolution
    <3>2. job' = [kind |-> "settle", markets |-> {m}, todo |-> priced, at |-> NoPosition,
                  step |-> "pick", unpriced |-> priced # On(m)]
      BY <3>1 DEF Idle
    <3>3. open' = open /\ On(m) \subseteq open /\ (priced # On(m)) \in BOOLEAN
      BY <1>10 DEF OnMarketResolution, On
    <3>4. priced \in SUBSET open' /\ {m} \in SUBSET Markets
      BY <3>3
    <3> QED
      BY <1>a, <1>c, <3>2, <3>3, <3>4
  <2> QED
    BY <2>1, <2>2
<1>11. ASSUME NEW ms \in SUBSET Markets, ExpiryFallback(ms)
       PROVE  JobTypes'
  <2> DEFINE ps == UNION {On(m) : m \in ms}
  <2>1. open' = open /\ ps \subseteq open
    BY <1>11 DEF ExpiryFallback, On
  <2>2. job' = [kind |-> "fallback", markets |-> ms, todo |-> ps, at |-> NoPosition,
                step |-> "pick", unpriced |-> FALSE]
    BY <1>11 DEF ExpiryFallback, Idle
  <2> HIDE DEF ps
  <2> QED
    BY <1>a, <1>c, <2>1, <2>2
<1>12. CASE Restart
  <2>1. job' = [kind |-> "recover", markets |-> {}, todo |-> Recover(book', snap), at |-> NoPosition,
                step |-> "pick", unpriced |-> FALSE]
    BY <1>12 DEF Restart, Idle
  <2>2. open' = snap /\ Recover(book', snap) \subseteq snap
    BY <1>12 DEF Restart, Recover
  <2> QED
    BY <1>a, <1>c, <2>1, <2>2
<1>13. ASSUME NEW m \in Markets, VenueResolves(m) \/ AnswerLost(m) \/ NotResolvedYet(m)
       PROVE  JobTypes'
  BY <1>1, <1>13 DEF VenueResolves, AnswerLost, NotResolvedYet
<1>14. ASSUME NEW c \in ClaimIds,
              TakeRedemption(c) \/ RedemptionConfirmed(c) \/ RedemptionFailed(c) \/ ResultLost(c)
       PROVE  JobTypes'
  BY <1>1, <1>14 DEF TakeRedemption, RedemptionConfirmed, RedemptionFailed, ResultLost
<1>15. CASE UNCHANGED vars \/ TakeSettlementQueries
  BY <1>1, <1>15 DEF vars, TakeSettlementQueries
<1> QED
  BY <1>2, <1>3, <1>4, <1>5, <1>6, <1>7, <1>8, <1>9, <1>10, <1>11, <1>12, <1>13, <1>14, <1>15
     DEF Next, HandlerStep

\* Queries, verdicts, attempts and the bounds on faults.
LEMMA VenueTyped ==
  ASSUME TypeOK, JobSound, [Next]_vars
  PROVE  VenueTypes'
<1> USE DEF disk, venue, bounds, history
<1>a. VenueTypes /\ open \subseteq Positions /\ MaxFlight \in Nat /\ MaxFaults \in Nat /\ MaxStops \in Nat
  BY SettlementBounds DEF TypeOK, VenueTypes
<1>b. \A ms : Forgotten(ms) \in [Markets -> {"none", "silent", "answered"}]
  BY <1>a DEF Forgotten, VenueTypes
<1>c. \A m \in Markets : NoteAnswer(m) \in [Markets -> {"none", "silent", "answered"}]
  BY <1>a DEF NoteAnswer, VenueTypes
<1>1. CASE UNCHANGED <<watch, asked, resolved, flight, faults, stops>>
  BY <1>1, <1>a DEF VenueTypes
<1>2. ASSUME NEW p \in Positions,
             Commit(p) \/ RecoverNext(p) \/ ForceCloseExpired(p) \/ FallbackClose(p) \/ OpenPosition(p)
      PROVE  VenueTypes'
  BY <1>1, <1>2 DEF Commit, RecoverNext, ForceCloseExpired, FallbackClose, OpenPosition
<1>3. CASE RecordTrade \/ NoteClosed \/ PersistPositions \/ RecoverDone \/ UNCHANGED vars
  BY <1>1, <1>3 DEF RecordTrade, NoteClosed, PersistPositions, RecoverDone, vars
<1>4. CASE SettleDone \/ FallbackDone
  <2>1. watch' \in [Markets -> {"none", "silent", "answered"}]
    BY <1>4, <1>a, <1>b DEF SettleDone, FallbackDone, VenueTypes
  <2> QED
    BY <1>4, <1>a, <2>1 DEF SettleDone, FallbackDone, VenueTypes
<1>5. CASE TakeSettlementQueries
  <2>1. watch' \in [Markets -> {"none", "silent", "answered"}]
    BY <1>5, <1>a DEF TakeSettlementQueries, VenueTypes
  <2>2. {MarketOf[p] : p \in open} \subseteq Markets
    BY <1>a, PositionAttributes
  <2> QED
    BY <1>5, <1>a, <2>1, <2>2 DEF TakeSettlementQueries, VenueTypes
<1>6. ASSUME NEW m \in Markets, VenueResolves(m) \/ AnswerLost(m)
      PROVE  VenueTypes'
  BY <1>6, <1>a DEF VenueResolves, AnswerLost, VenueTypes
<1>7. ASSUME NEW m \in Markets, NotResolvedYet(m)
      PROVE  VenueTypes'
  BY <1>7, <1>a, <1>c DEF NotResolvedYet, VenueTypes
<1>8. ASSUME NEW m \in Markets, OnMarketResolution(m)
      PROVE  VenueTypes'
  <2>0. faults \in 0..MaxFaults
    BY <1>a DEF VenueTypes
  <2>1. watch' \in [Markets -> {"none", "silent", "answered"}] /\ faults' \in 0..MaxFaults
    <3>1. CASE On(m) = {}
      BY <1>8, <1>b, <2>0, <3>1 DEF OnMarketResolution
    <3>2. CASE On(m) # {}
      <4>1. watch' = NoteAnswer(m) /\ faults' <= MaxFaults /\ (faults' = faults \/ faults' = faults + 1)
        BY <1>8, <3>2 DEF OnMarketResolution
      <4> QED
        BY <1>a, <1>c, <2>0, <4>1
    <3> QED
      BY <3>1, <3>2
  <2> QED
    BY <1>8, <1>a, <2>1 DEF OnMarketResolution, VenueTypes
<1>9. ASSUME NEW ms \in SUBSET Markets, ExpiryFallback(ms)
      PROVE  VenueTypes'
  BY <1>1, <1>9 DEF ExpiryFallback
<1>10. ASSUME NEW c \in ClaimIds,
              TakeRedemption(c) \/ RedemptionConfirmed(c) \/ RedemptionFailed(c) \/ ResultLost(c)
       PROVE  VenueTypes'
  <2>1. PICK n \in 0..MaxFlight : flight' = [flight EXCEPT ![c] = n]
    <3>1. flight[c] \in 0..MaxFlight
      BY <1>a DEF VenueTypes
    <3>2. CASE TakeRedemption(c)
      <4>1. flight[c] < MaxFlight /\ flight' = [flight EXCEPT ![c] = flight[c] + 1]
        BY <3>2 DEF TakeRedemption
      <4>2. flight[c] + 1 \in 0..MaxFlight
        BY <1>a, <3>1, <4>1
      <4> QED
        BY <4>1, <4>2
    <3>3. CASE RedemptionConfirmed(c) \/ RedemptionFailed(c) \/ ResultLost(c)
      <4>1. flight[c] > 0 /\ flight' = [flight EXCEPT ![c] = flight[c] - 1]
        BY <3>3 DEF RedemptionConfirmed, RedemptionFailed, ResultLost
      <4>2. flight[c] - 1 \in 0..MaxFlight
        BY <1>a, <3>1, <4>1
      <4> QED
        BY <4>1, <4>2
    <3> QED
      BY <1>10, <3>2, <3>3
  <2>2. flight' \in [ClaimIds -> 0..MaxFlight]
    BY <1>a, <2>1 DEF VenueTypes
  <2>3. UNCHANGED <<watch, asked, resolved, stops>> /\ faults' \in 0..MaxFaults
    BY <1>10, <1>a DEF TakeRedemption, RedemptionConfirmed, RedemptionFailed, ResultLost, VenueTypes
  <2> QED
    BY <1>a, <2>2, <2>3 DEF VenueTypes
<1>11. CASE Restart
  BY <1>11, <1>a DEF Restart, VenueTypes
<1> QED
  BY <1>2, <1>3, <1>4, <1>5, <1>6, <1>7, <1>8, <1>9, <1>10, <1>11 DEF Next, HandlerStep

\* Only an open claim is parked for the operator.
LEMMA ManualTyped ==
  ASSUME TypeOK, ReplayFaithful, RecordsSound, CountSound, IdsSound, JobSound, [Next]_vars
  PROVE  manual' \subseteq OpenClaims'
<1> USE DEF disk, venue, bounds, history
<1>a. manual \subseteq OpenClaims
  BY DEF TypeOK
<1>b. book' = book => OpenClaims' = OpenClaims
  BY DEF OpenClaims
<1>1. ASSUME NEW p \in Positions, Commit(p)
      PROVE  manual' \subseteq OpenClaims'
  <2>1. CASE Applied(p)
    BY <1>1, <1>a, <1>b, <2>1 DEF Commit, Book
  <2>2. CASE ~Applied(p)
    <3>1. ClaimFor(p) \in ClaimIds \cup {NoClaim} /\ book' = Book(p) /\ manual' = manual
      BY <1>1, <2>2, ClaimForIs DEF Commit
    <3>2. book'.legs = book.legs \/ \E c \in ClaimIds : book'.legs = [book.legs EXCEPT ![c] = @ \cup {p}]
      BY <2>2, <3>1, BookIs
    <3>3. \A d \in ClaimIds : book.legs[d] # {} => book'.legs[d] # {}
      BY <3>2, BookFields
    <3> QED
      BY <1>a, <3>1, <3>3 DEF OpenClaims
  <2> QED
    BY <2>1, <2>2
<1>2. CASE NoteClosed
  <2>1. book'.legs = book.legs /\ manual' = manual
    BY <1>2, MarkedIs DEF NoteClosed, JobSound
  <2> QED
    BY <1>a, <2>1 DEF OpenClaims
<1>3. ASSUME NEW c \in ClaimIds, RedemptionConfirmed(c)
      PROVE  manual' \subseteq OpenClaims'
  <2>1. CASE c \in OpenClaims
    <3>1. book'.legs = [book.legs EXCEPT ![c] = {}] /\ manual' = manual \ {c}
      BY <1>3, <2>1, ClosedIs DEF RedemptionConfirmed
    <3>2. \A d \in ClaimIds \ {c} : book'.legs[d] = book.legs[d]
      BY <3>1, BookFields
    <3> QED
      BY <1>a, <3>1, <3>2 DEF OpenClaims
  <2>2. CASE c \notin OpenClaims
    BY <1>3, <1>a, <1>b, <2>2 DEF RedemptionConfirmed
  <2> QED
    BY <2>1, <2>2
<1>4. ASSUME NEW c \in ClaimIds, RedemptionFailed(c)
      PROVE  manual' \subseteq OpenClaims'
  BY <1>4, <1>a, <1>b DEF RedemptionFailed, Parked
<1>5. CASE Restart
  BY <1>5 DEF Restart
<1>6. CASE UNCHANGED <<book, manual>>
  BY <1>6, <1>a, <1>b
<1>7. ASSUME NEW p \in Positions,
             FallbackClose(p) \/ RecoverNext(p) \/ OpenPosition(p) \/ ForceCloseExpired(p)
      PROVE  manual' \subseteq OpenClaims'
  BY <1>6, <1>7 DEF FallbackClose, RecoverNext, OpenPosition, ForceCloseExpired
<1>8. ASSUME NEW m \in Markets,
             VenueResolves(m) \/ AnswerLost(m) \/ NotResolvedYet(m) \/ OnMarketResolution(m)
      PROVE  manual' \subseteq OpenClaims'
  BY <1>6, <1>8 DEF VenueResolves, AnswerLost, NotResolvedYet, OnMarketResolution
<1>9. ASSUME NEW ms \in SUBSET Markets, ExpiryFallback(ms)
      PROVE  manual' \subseteq OpenClaims'
  BY <1>6, <1>9 DEF ExpiryFallback
<1>10. ASSUME NEW c \in ClaimIds, TakeRedemption(c) \/ ResultLost(c)
       PROVE  manual' \subseteq OpenClaims'
  BY <1>6, <1>10 DEF TakeRedemption, ResultLost
<1>11. CASE \/ RecordTrade \/ PersistPositions \/ SettleDone \/ FallbackDone \/ RecoverDone
            \/ TakeSettlementQueries \/ UNCHANGED vars
  BY <1>6, <1>11 DEF RecordTrade, PersistPositions, SettleDone, FallbackDone, RecoverDone,
                     TakeSettlementQueries, vars
<1> QED
  BY <1>1, <1>2, <1>3, <1>4, <1>5, <1>7, <1>8, <1>9, <1>10, <1>11 DEF Next, HandlerStep

-----------------------------------------------------------------------------
(* The invariant *)

\* The invariant holds at the start.
LEMMA InitHolds == Init => IInv
<1> SUFFICES ASSUME Init PROVE IInv
  OBVIOUS
<1>a. /\ book.record = [p \in Positions |-> Unsettled] /\ book.closed = {}
      /\ book.legs = [c \in ClaimIds |-> {}] /\ book.used = [m \in Markets |-> 0]
  BY DEF Init, EmptyBook
<1>b. \A p \in Positions : ~Applied(p)
  BY <1>a DEF Applied
<1>c. OpenClaims = {}
  BY <1>a DEF OpenClaims
<1>1. TypeOK
  <2>1. book \in Books
    BY DEF Init, EmptyBook, Books
  <2>2. job \in Jobs /\ job.todo = {}
    BY DEF Init, Idle, Jobs
  <2> QED
    BY <2>1, <2>2, SettlementBounds DEF Init, TypeOK
<1>2. ReplayFaithful
  BY ReplayEmpty, ReplayedIs DEF Init, ReplayFaithful
<1>3. LegsSound
  BY <1>a DEF LegsSound
<1>4. RecordsSound
  <2>1. Unsettled \notin ClaimIds \cup {NoClaim}
    BY NoNames, PaidFinite DEF ClaimIds
  <2> QED
    BY <1>a, <2>1 DEF Init, RecordsSound
<1>5. CountSound
  <2> SUFFICES ASSUME NEW m \in Markets PROVE book.used[m] <= Cardinality(Paid(m))
    BY DEF CountSound
  <2> QED
    BY <1>a, PaidFinite
<1>6. IdsSound
  BY <1>c DEF Init, IdsSound
<1>7. JobSound
  BY DEF Init, Idle, JobSound
<1>8. BirthSound /\ ChannelSound
  BY <1>a, <1>b DEF Init, BirthSound, ChannelSound
<1> QED
  BY <1>1, <1>2, <1>3, <1>4, <1>5, <1>6, <1>7, <1>8 DEF IInv

\* Every step keeps the invariant.
LEMMA StepHolds == IInv /\ [Next]_vars => IInv'
<1> SUFFICES ASSUME IInv, [Next]_vars PROVE IInv'
  OBVIOUS
<1>a. /\ TypeOK /\ ReplayFaithful /\ LegsSound /\ RecordsSound /\ CountSound /\ IdsSound
      /\ JobSound /\ BirthSound /\ ChannelSound /\ HandlerSound
  BY DEF IInv, HandlerSound
<1>b. BookStep
  BY <1>a, BookMoves DEF BookStep
<1>1. ReplayFaithful' /\ book' \in Books /\ journal' \in Seq(JournalLines)
  BY <1>a, <1>b, ReplayKept
<1>2. LegsSound' /\ RecordsSound' /\ credited' \in [Positions -> Nat]
  BY <1>a, <1>b, LegsKept
<1>3. CountSound' /\ IdsSound'
  BY <1>a, <1>b, CountKept, IdsKept
<1>4. JobSound' /\ BirthSound' /\ ChannelSound'
  BY <1>a, HandlersKept DEF HandlerSound
<1>5. TypeOK'
  <2>1. PositionTypes' /\ JobTypes' /\ VenueTypes' /\ manual' \subseteq OpenClaims'
    BY <1>a, PositionsTyped, JobTyped, VenueTyped, ManualTyped
  <2> QED
    BY <1>1, <1>2, <2>1 DEF TypeOK, PositionTypes, JobTypes, VenueTypes
<1> QED
  BY <1>1, <1>2, <1>3, <1>4, <1>5 DEF IInv

\* The inductive invariant holds in every state of every behaviour.
THEOREM Invariance == Spec => []IInv
  BY InitHolds, StepHolds, PTL DEF Spec

-----------------------------------------------------------------------------
(* What follows *)

\* SettlementBook::new: the journal alone rebuilds the book, however long it is.
THEOREM JournalRebuilds == Spec => []ReplayFaithful
<1>1. IInv => ReplayFaithful
  BY DEF IInv
<1> QED
  BY <1>1, Invariance, PTL

\* A position is a leg of at most the claim its record names, so what is owed
\* on it counts once.
LEMMA OwedIs ==
  ASSUME IInv, NEW p \in Positions
  PROVE  LET owed == Cardinality({c \in ClaimIds : p \in book.legs[c]})
         IN owed = IF book.record[p] \in ClaimIds /\ p \in book.legs[book.record[p]] THEN 1 ELSE 0
<1> DEFINE C == {c \in ClaimIds : p \in book.legs[c]}
<1>1. CASE book.record[p] \in ClaimIds /\ p \in book.legs[book.record[p]]
  <2>1. C = {book.record[p]}
    BY <1>1 DEF IInv, LegsSound
  <2> HIDE DEF C
  <2> QED
    BY <1>1, <2>1, FS_Singleton DEF C
<1>2. CASE ~(book.record[p] \in ClaimIds /\ p \in book.legs[book.record[p]])
  <2>1. C = {}
    BY <1>2 DEF IInv, LegsSound
  <2> HIDE DEF C
  <2> QED
    BY <1>2, <2>1, FS_EmptySet DEF C
<1> QED
  BY <1>1, <1>2

\* A settled payout is owed or paid, once, for any number of positions, claims,
\* attempts and restarts (book, note_confirmed, replay).
THEOREM OwedOrPaid == Spec => []PaidOnce
<1>1. IInv => PaidOnce
  <2> SUFFICES ASSUME IInv, NEW p \in Positions PROVE PaidOnce!(p)
    BY DEF PaidOnce
  <2> DEFINE owed == Cardinality({c \in ClaimIds : p \in book.legs[c]})
  <2>1. owed = IF book.record[p] \in ClaimIds /\ p \in book.legs[book.record[p]] THEN 1 ELSE 0
    BY OwedIs
  <2> HIDE DEF owed
  <2>2. RecordsSound /\ credited[p] \in Nat
    BY DEF IInv, TypeOK
  <2>3. Unsettled \notin ClaimIds /\ book.record[p] \in ClaimIds \cup {NoClaim, Unsettled}
    BY NoNames, PaidFinite, BookFields DEF ClaimIds, IInv
  <2>4. ~Applied(p) => owed + credited[p] = 0
    BY <2>1, <2>2, <2>3 DEF RecordsSound, Applied
  <2>5. Applied(p) /\ Worth[p] > 0 => owed + credited[p] = 1
    <3> SUFFICES ASSUME Applied(p), Worth[p] > 0 PROVE owed + credited[p] = 1
      OBVIOUS
    <3>1. book.record[p] \in ClaimIds
      BY <2>2, <2>3, PositionAttributes DEF Applied, RecordsSound
    <3>2. p \in book.legs[book.record[p]] => credited[p] = 0
      BY <3>1 DEF IInv, LegsSound
    <3> QED
      BY <2>1, <2>2, <3>1, <3>2 DEF RecordsSound
  <2> QED
    BY <2>4, <2>5 DEF owed
<1> QED
  BY <1>1, Invariance, PTL

\* A position no stop has torn is paid over one channel.
THEOREM PaidOverOneChannel == Spec => []OneChannel
<1>1. IInv => OneChannel
  <2> SUFFICES ASSUME IInv, NEW p \in Positions \ torn PROVE OneChannel!(p)
    BY DEF OneChannel
  <2> DEFINE owed == Cardinality({c \in ClaimIds : p \in book.legs[c]})
  <2>1. owed = IF book.record[p] \in ClaimIds /\ p \in book.legs[book.record[p]] THEN 1 ELSE 0
    BY OwedIs
  <2> HIDE DEF owed
  <2>2. /\ RecordsSound /\ credited[p] \in Nat /\ fallback[p] \in Nat /\ fallback[p] <= 1
        /\ fallback[p] > 0 => book.record[p] = Unsettled
    BY DEF IInv, TypeOK, ChannelSound, Applied
  <2>3. Unsettled \notin ClaimIds
    BY NoNames, PaidFinite DEF ClaimIds
  <2>4. p \in book.legs[book.record[p]] /\ book.record[p] \in ClaimIds => credited[p] = 0
    BY DEF IInv, LegsSound
  <2>5. owed + credited[p] <= 1 /\ (fallback[p] > 0 => owed + credited[p] = 0)
    BY <2>1, <2>2, <2>3, <2>4 DEF RecordsSound
  <2>6. owed \in Nat
    BY <2>1
  <2> QED
    BY <2>2, <2>5, <2>6 DEF owed
<1> QED
  BY <1>1, Invariance, PTL

\* claim_id_for never gives out the id of a redeemed claim again.
THEOREM IdsRetired == Spec => []RedeemedIdsRetired
<1>1. IInv => RedeemedIdsRetired
  <2> SUFFICES ASSUME IInv PROVE RedeemedIdsRetired
    OBVIOUS
  <2>1. DOMAIN journal = 1..Len(journal)
    BY DEF IInv, TypeOK
  <2> QED
    BY <2>1 DEF IInv, IdsSound, RedeemedIdsRetired
<1> QED
  BY <1>1, Invariance, PTL

\* The paying legs of a verdict are booked before the worthless ones.
THEOREM PayingLegsFirst == Spec => LegsTogether
<1>1. ASSUME IInv, [Next]_vars, NEW p \in Positions,
             book.record[p] = Unsettled, book'.record[p] = NoClaim,
             NEW q \in job.todo, Worth[q] > 0
      PROVE  FALSE
  <2>a. TypeOK /\ ReplayFaithful /\ RecordsSound /\ CountSound /\ IdsSound /\ JobSound
    BY <1>1 DEF IInv
  <2>b. q \in Positions /\ Worth[p] \in Nat /\ Worth[q] \in Nat
    BY <2>a, JobFields, PositionAttributes
  <2>1. book'.record # book.record
    BY <1>1, NoNames
  <2>2. PICK r \in Positions : Commit(r)
    <3>1. ASSUME NEW c \in ClaimIds, RedemptionConfirmed(c) PROVE book'.record = book.record
      BY <2>a, <3>1, ClosedIs DEF RedemptionConfirmed
    <3>2. NoteClosed => book'.record = book.record
      BY <2>a, MarkedIs DEF NoteClosed, JobSound
    <3>3. Restart => book' = book
      BY <2>a DEF Restart, ReplayFaithful
    <3>4. ASSUME NEW x \in Positions,
                 FallbackClose(x) \/ RecoverNext(x) \/ OpenPosition(x) \/ ForceCloseExpired(x)
          PROVE  book' = book
      BY <3>4 DEF FallbackClose, RecoverNext, OpenPosition, ForceCloseExpired
    <3>5. ASSUME NEW m \in Markets,
                 VenueResolves(m) \/ AnswerLost(m) \/ NotResolvedYet(m) \/ OnMarketResolution(m)
          PROVE  book' = book
      BY <3>5 DEF VenueResolves, AnswerLost, NotResolvedYet, OnMarketResolution
    <3>6. ASSUME NEW ms \in SUBSET Markets, ExpiryFallback(ms)
          PROVE  book' = book
      BY <3>6 DEF ExpiryFallback
    <3>7. ASSUME NEW c \in ClaimIds, TakeRedemption(c) \/ RedemptionFailed(c) \/ ResultLost(c)
          PROVE  book' = book
      BY <3>7 DEF TakeRedemption, RedemptionFailed, ResultLost
    <3>8. \/ RecordTrade \/ PersistPositions \/ SettleDone \/ FallbackDone \/ RecoverDone
          \/ TakeSettlementQueries \/ UNCHANGED vars
          => book' = book
      BY DEF RecordTrade, PersistPositions, SettleDone, FallbackDone, RecoverDone,
             TakeSettlementQueries, vars
    <3> QED
      BY <1>1, <2>1, <3>1, <3>2, <3>3, <3>4, <3>5, <3>6, <3>7, <3>8 DEF Next, HandlerStep
  <2>3. ~Applied(r)
    BY <2>1, <2>2 DEF Commit, Book
  <2>4. /\ ClaimFor(r) \in ClaimIds \cup {NoClaim} /\ (ClaimFor(r) = NoClaim => Worth[r] = 0)
    BY <2>a, <2>3, ClaimForIs
  <2>5. book'.record = [book.record EXCEPT ![r] = ClaimFor(r)]
    BY <2>a, <2>2, <2>3, <2>4, BookIs DEF Commit
  <2>6. r = p
    BY <1>1, <2>5, <2>a, BookFields, NoNames
  <2>7. Worth[p] = 0
    BY <1>1, <2>a, <2>4, <2>5, <2>6, BookFields
  <2> QED
    BY <1>1, <2>b, <2>2, <2>6, <2>7 DEF Commit, FirstOf
<1>2. IInv /\ [Next]_vars => [LegsTogether!1]_vars
  BY <1>1
<1> QED
  BY <1>2, Invariance, PTL DEF Spec, LegsTogether

\* A durable close is final for settlement and its recovery.
THEOREM NoSecondTrade == Spec => ClosedNotRetraded
<1>1. ASSUME IInv, [Next]_vars, NEW p \in book.closed
      PROVE  trades'[p] = trades[p] \/ fallback'[p] > fallback[p]
  <2> USE DEF disk, venue, bounds, history
  <2>a. TypeOK /\ JobSound /\ p \in Positions
    BY <1>1, BookFields DEF IInv
  <2>1. CASE RecordTrade
    <3>1. job.at # p /\ job.at \in Positions
      BY <1>1, <2>a, <2>1 DEF RecordTrade, JobSound
    <3> QED
      BY <2>1, <2>a, <3>1 DEF RecordTrade, TypeOK
  <2>2. ASSUME NEW q \in Positions, FallbackClose(q)
        PROVE  trades'[p] = trades[p] \/ fallback'[p] > fallback[p]
    <3>1. trades' = [trades EXCEPT ![q] = @ + 1] /\ fallback' = [fallback EXCEPT ![q] = @ + 1]
          /\ trades \in [Positions -> Nat] /\ fallback \in [Positions -> Nat]
      BY <2>2, <2>a DEF FallbackClose, TypeOK
    <3>2. CASE q = p
      BY <2>a, <3>1, <3>2
    <3>3. CASE q # p
      BY <2>a, <3>1, <3>3
    <3> QED
      BY <3>2, <3>3
  <2>3. ASSUME NEW q \in Positions,
               Commit(q) \/ RecoverNext(q) \/ OpenPosition(q) \/ ForceCloseExpired(q)
        PROVE  trades' = trades
    BY <2>3 DEF Commit, RecoverNext, OpenPosition, ForceCloseExpired
  <2>4. ASSUME NEW m \in Markets,
               VenueResolves(m) \/ AnswerLost(m) \/ NotResolvedYet(m) \/ OnMarketResolution(m)
        PROVE  trades' = trades
    BY <2>4 DEF VenueResolves, AnswerLost, NotResolvedYet, OnMarketResolution
  <2>5. ASSUME NEW ms \in SUBSET Markets, ExpiryFallback(ms)
        PROVE  trades' = trades
    BY <2>5 DEF ExpiryFallback
  <2>6. ASSUME NEW c \in ClaimIds,
               TakeRedemption(c) \/ RedemptionConfirmed(c) \/ RedemptionFailed(c) \/ ResultLost(c)
        PROVE  trades' = trades
    BY <2>6 DEF TakeRedemption, RedemptionConfirmed, RedemptionFailed, ResultLost
  <2>7. \/ NoteClosed \/ PersistPositions \/ SettleDone \/ FallbackDone \/ RecoverDone
        \/ TakeSettlementQueries \/ Restart \/ UNCHANGED vars
        => trades' = trades
    BY DEF NoteClosed, PersistPositions, SettleDone, FallbackDone, RecoverDone,
           TakeSettlementQueries, Restart, vars
  <2> QED
    BY <1>1, <2>1, <2>2, <2>3, <2>4, <2>5, <2>6, <2>7 DEF Next, HandlerStep
<1>2. IInv /\ [Next]_vars => [ClosedNotRetraded!1]_vars
  BY <1>1
<1> QED
  BY <1>2, Invariance, PTL DEF Spec, ClosedNotRetraded
=============================================================================
