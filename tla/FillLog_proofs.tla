--------------------------- MODULE FillLog_proofs ---------------------------
(***************************************************************************)
(* Proofs about FillLog: the engine with its files, for every set of       *)
(* orders and trades, every cap and every sequence of stops.  Between two  *)
(* handlers the order log is the order table, one live order guards a key  *)
(* across restarts, and the position book holds what the applied-fill      *)
(* table says.                                                             *)
(*                                                                         *)
(* The part of the engine's own invariant that survives a stop is taken    *)
(* from Ome_proofs: the order table's (CoreInv) and the types.  What a     *)
(* stop breaks, the coverage of what was booked, is rebuilt here from the  *)
(* files: the log and the records not yet written give the table           *)
(* (TableInLog), and the deltas still to be written lead from the position *)
(* book to what was booked (Chain).                                        *)
(***************************************************************************)
EXTENDS FillLog, Ome_proofs, FiniteSetTheorems, SequenceTheorems,
        WellFoundedInduction

-----------------------------------------------------------------------------
(* The parts of the inductive invariant *)

\* Every record names the order its trade was applied to.
SoundRecords == {r \in AppliedFillRecords : r.order \in OrderIds}

DiskTyped ==
  /\ rows \in [OrderIds -> Orders]
  /\ log \in Seq(SoundRecords) /\ journal \in Seq(SoundRecords)
  /\ held \in [Trades -> Int]
  /\ effects \in Seq(Effects)
  /\ cut \subseteq Trades /\ torn \subseteq Trades

\* A row on disk is one the engine can be rebuilt from; a live one is the row
\* of the order its key points at.
RowsSound ==
  \A o \in OrderIds :
    /\ rows[o].filled <= SizeOf[o] /\ rows[o].at <= now
    /\ rows[o].status # "Untracked" => o \in issued
    /\ rows[o].status \in LiveStatuses => byInternal[KeyOf[o]] = o

\* A row lags behind its order only while the effects of a delta of the order
\* have still to write it.
Lags(o) ==
  \E i \in 1..Len(effects) : effects[i].order = o /\ effects[i].step # "applied"
RowsLag == \A o \in OrderIds : rows[o] = orders[o] \/ Lags(o)

\* What a drain has booked so far is in the journal, and not in the log.
DrainSound == draining # <<>> /\ effects # <<>> => journal # <<>>

\* From the position book to what was booked: c[i] is the book before the
\* effects i and later, and c[i] agrees with booked wherever none is left.
ToBook(i) == effects[i].step = "positions"
Leads(c) ==
  /\ c[1] = held
  /\ \A i \in 1..Len(effects) :
       c[i + 1] = IF ToBook(i)
                  THEN [c[i] EXCEPT ![effects[i].trade] = @ + effects[i].delta]
                  ELSE c[i]
  /\ \A i \in 1..(Len(effects) + 1), t \in Trades :
       (\A j \in i..Len(effects) : ToBook(j) => effects[j].trade # t)
         => c[i][t] = booked[t]
Chain == \E c \in [1..(Len(effects) + 1) -> [Trades -> Int]] : Leads(c)

Excepted == disowned \cup cut \cup torn

\* The table says what was booked, where nothing parted the two.
TableExact == \A t \in Trades \ Excepted : booked[t] = applied[t].size

\* A record names a key, the last record that does decides its entry, and e
\* is what the fold of the records l gives for t.
Names(r, t) == r.trade = t \/ t \in r.evicted
Decides(l, i, t) ==
  i \in 1..Len(l) /\ Names(l[i], t) /\ \A j \in 1..Len(l) : Names(l[j], t) => j <= i
EntryOf(r, t) ==
  IF t \in r.evicted THEN NotApplied
  ELSE [known |-> TRUE, size |-> r.size, order |-> r.order]
FoldIs(l, t, e) ==
  \/ e = NotApplied /\ \A i \in 1..Len(l) : ~Names(l[i], t)
  \/ \E i \in 1..Len(l) : Decides(l, i, t) /\ e = EntryOf(l[i], t)

\* The log followed by the records not yet written folds to the table.
TableInLog == \A t \in Trades : FoldIs(log \o journal, t, applied[t])

\* A trade whose deltas have not touched the position book while the log has
\* none of them: the book holds what a restart would find in the log.
Untouched(t) ==
  \A i \in 1..Len(effects) :
    effects[i].trade = t => ToBook(i) /\ journal # <<>>
BookInLog ==
  \A t \in Trades \ Excepted :
    Untouched(t) => \A e : FoldIs(log, t, e) => held[t] = e.size

EngineInv == CoreInv /\ TableTypeOK /\ BufferTypeOK

LogIInv ==
  /\ EngineInv /\ DiskTyped /\ RowsSound /\ RowsLag /\ DrainSound
  /\ Chain /\ TableExact /\ TableInLog /\ BookInLog

-----------------------------------------------------------------------------
(* The fold of the applied-fill log *)

Less == {x \in Nat \X Nat : x[1] < x[2]}

\* A non-empty set of naturals has a least element.
LEMMA LeastNatural ==
  ASSUME NEW T \in SUBSET Nat, T # {}
  PROVE  \E x \in T : \A y \in T : x <= y
<1>1. IsWellFoundedOn(Less, Nat)
  BY NatLessThanWellFounded DEF Less, OpToRel
<1>2. PICK x \in T : \A y \in T : <<y, x>> \notin Less
  BY <1>1, WFMin
<1>3. ASSUME NEW y \in T PROVE x <= y
  <2>1. ~(y < x)
    BY <1>2 DEF Less
  <2> QED BY <2>1
<1> QED BY <1>2, <1>3

\* A non-empty set of positions has a last one.
LEMMA LastPosition ==
  ASSUME NEW n \in Nat, NEW S \in SUBSET (1..n), S # {}
  PROVE  \E i \in S : \A j \in S : j <= i
<1> DEFINE T == {n - i : i \in S}
<1>1. T \in SUBSET Nat /\ T # {}
  <2>1. \A i \in S : i \in 1..n /\ n - i \in Nat
    OBVIOUS
  <2>2. PICK i \in S : TRUE
    OBVIOUS
  <2>3. n - i \in T
    OBVIOUS
  <2>4. T \in SUBSET Nat
    BY <2>1
  <2> QED BY <2>3, <2>4
<1>2. PICK x \in T : \A y \in T : x <= y
  <2> HIDE DEF T
  <2> QED BY <1>1, LeastNatural
<1>3. PICK i \in S : x = n - i
  BY <1>2
<1>4. ASSUME NEW j \in S PROVE j <= i
  BY <1>2, <1>3
<1> QED BY <1>4

\* A fold has one result.
LEMMA FoldUnique ==
  ASSUME NEW l, Len(l) \in Nat, NEW t, NEW d, NEW e, FoldIs(l, t, d), FoldIs(l, t, e)
  PROVE  d = e
<1>1. CASE \A i \in 1..Len(l) : ~Names(l[i], t)
  BY <1>1 DEF FoldIs, Decides
<1>2. CASE \E i \in 1..Len(l) : Names(l[i], t)
  <2>1. PICK i \in 1..Len(l) : Decides(l, i, t) /\ d = EntryOf(l[i], t)
    BY <1>2 DEF FoldIs
  <2>2. PICK j \in 1..Len(l) : Decides(l, j, t) /\ e = EntryOf(l[j], t)
    BY <1>2 DEF FoldIs
  <2>3. i <= j /\ j <= i
    BY <2>1, <2>2 DEF Decides
  <2>4. i = j
    BY <2>3
  <2> QED BY <2>1, <2>2, <2>4
<1> QED BY <1>1, <1>2

\* A record appended to the log decides the keys it names, and no other.
LEMMA FoldAppend ==
  ASSUME NEW S, NEW l \in Seq(S), NEW r \in S, NEW t, NEW e, FoldIs(l, t, e)
  PROVE  FoldIs(Append(l, r), t, IF Names(r, t) THEN EntryOf(r, t) ELSE e)
<1> DEFINE m == Append(l, r)
           n == Len(l)
<1>1. n \in Nat /\ Len(m) = n + 1 /\ m[n + 1] = r /\ \A i \in 1..n : m[i] = l[i]
  OBVIOUS
<1> HIDE DEF m, n
<1>2. CASE Names(r, t)
  <2>1. Decides(m, n + 1, t)
    BY <1>1, <1>2 DEF Decides
  <2>2. n + 1 \in 1..Len(m) /\ EntryOf(m[n + 1], t) = EntryOf(r, t)
    BY <1>1
  <2>3. FoldIs(m, t, EntryOf(r, t))
    BY <2>1, <2>2 DEF FoldIs
  <2> QED BY <1>2, <2>3 DEF m
<1>3. CASE ~Names(r, t)
  <2>1. CASE e = NotApplied /\ \A i \in 1..n : ~Names(l[i], t)
    <3>1. \A i \in 1..Len(m) : ~Names(m[i], t)
      <4> SUFFICES ASSUME NEW i \in 1..Len(m) PROVE ~Names(m[i], t)
        OBVIOUS
      <4>1. i \in 1..n \/ i = n + 1
        BY <1>1
      <4> QED BY <1>1, <1>3, <2>1, <4>1
    <3>2. FoldIs(m, t, e)
      BY <2>1, <3>1 DEF FoldIs
    <3> QED BY <1>3, <3>2 DEF m
  <2>2. CASE \E i \in 1..n : Decides(l, i, t) /\ e = EntryOf(l[i], t)
    <3>1. PICK i \in 1..n : Decides(l, i, t) /\ e = EntryOf(l[i], t)
      BY <2>2
    <3>2. i \in 1..Len(m) /\ m[i] = l[i] /\ Names(m[i], t)
      BY <1>1, <3>1 DEF Decides
    <3>3. \A j \in 1..Len(m) : Names(m[j], t) => j <= i
      <4> SUFFICES ASSUME NEW j \in 1..Len(m), Names(m[j], t) PROVE j <= i
        OBVIOUS
      <4>1. j \in 1..n
        <5>1. j # n + 1
          BY <1>1, <1>3
        <5> QED BY <1>1, <5>1
      <4> QED BY <1>1, <3>1, <4>1 DEF Decides, n
    <3>4. FoldIs(m, t, e)
      BY <3>1, <3>2, <3>3 DEF FoldIs, Decides
    <3> QED BY <1>3, <3>4 DEF m
  <2> QED BY <2>1, <2>2 DEF FoldIs, n
<1> QED BY <1>2, <1>3

\* A record appended to the second of two logs is appended to both.
LEMMA ConcatAppend ==
  ASSUME NEW S, NEW l \in Seq(S), NEW m \in Seq(S), NEW r \in S
  PROVE  l \o Append(m, r) = Append(l \o m, r)
<1> DEFINE a == l \o Append(m, r)
           b == Append(l \o m, r)
<1>1. a \in Seq(S) /\ b \in Seq(S)
  OBVIOUS
<1>2. Len(a) = Len(l) + Len(m) + 1 /\ Len(b) = Len(l) + Len(m) + 1
      /\ Len(l) \in Nat /\ Len(m) \in Nat
  OBVIOUS
<1>3. ASSUME NEW i \in 1..(Len(l) + Len(m) + 1) PROVE a[i] = b[i]
  <2>1. CASE i <= Len(l)
    BY <2>1
  <2>2. CASE i > Len(l) /\ i <= Len(l) + Len(m)
    BY <2>2
  <2>3. CASE i = Len(l) + Len(m) + 1
    BY <2>3
  <2> QED BY <1>2, <2>1, <2>2, <2>3
<1> QED BY <1>1, <1>2, <1>3, SeqEqual

\* An empty log folds to an empty table.
LEMMA FoldEmpty ==
  ASSUME NEW t PROVE FoldIs(<<>>, t, NotApplied)
  BY DEF FoldIs

\* restore_applied computes the fold.
LEMMA FoldedIs ==
  ASSUME DiskTyped, NEW t \in Trades
  PROVE  /\ FoldIs(log, t, Folded(t))
         /\ Present(t) => /\ Decides(log, LastNaming(t), t)
                          /\ Folded(t) = EntryOf(log[LastNaming(t)], t)
                          /\ Folded(t).known
         /\ ~Present(t) => Folded(t) = NotApplied
<1>1. log \in Seq(SoundRecords) /\ Len(log) \in Nat
  BY DEF DiskTyped
<1>2. Naming(t) = {i \in 1..Len(log) : Names(log[i], t)}
  BY DEF Naming, Names
<1>3. CASE Naming(t) = {}
  BY <1>2, <1>3 DEF FoldIs, Folded, Present
<1>4. CASE Naming(t) # {}
  <2>1. \E i \in Naming(t) : \A j \in Naming(t) : j <= i
    <3> HIDE DEF Naming
    <3>1. Naming(t) \in SUBSET (1..Len(log))
      BY <1>2
    <3> QED BY <1>1, <1>4, <3>1, LastPosition
  <2>2. LastNaming(t) \in Naming(t) /\ \A j \in Naming(t) : j <= LastNaming(t)
    BY <2>1 DEF LastNaming
  <2>3. Decides(log, LastNaming(t), t)
    BY <1>2, <2>2 DEF Decides
  <2>4. Folded(t) = EntryOf(log[LastNaming(t)], t)
    BY <1>4 DEF Folded, Present, EntryOf
  <2>5. LastNaming(t) \in 1..Len(log)
    BY <2>3 DEF Decides
  <2>6. FoldIs(log, t, Folded(t))
    BY <2>3, <2>4, <2>5 DEF FoldIs
  <2> QED BY <2>3, <2>4, <2>6 DEF Folded, Present
<1> QED BY <1>3, <1>4

\* What a fold of sound records gives is an entry of the table.
LEMMA FoldTyped ==
  ASSUME NEW l \in Seq(SoundRecords), NEW t, NEW e, FoldIs(l, t, e)
  PROVE  e \in AppliedFills /\ (e.known => e.order \in OrderIds)
<1>1. NotApplied \in AppliedFills /\ NotApplied.known = FALSE
  BY DEF NotApplied, AppliedFills
<1>2. ASSUME NEW i \in 1..Len(l), e = EntryOf(l[i], t)
      PROVE  e \in AppliedFills /\ (e.known => e.order \in OrderIds)
  <2>1. l[i] \in SoundRecords
    OBVIOUS
  <2>2. l[i].size \in Nat /\ l[i].order \in OrderIds
    BY <2>1 DEF SoundRecords, AppliedFillRecords
  <2> QED BY <1>1, <1>2, <2>2 DEF EntryOf, AppliedFills
<1> QED BY <1>1, <1>2 DEF FoldIs

-----------------------------------------------------------------------------
(* What a report does to the engine *)

\* `remember` leaves the table alone, or journals a record that says exactly
\* what became of it.
Journals(r) ==
  /\ r \in SoundRecords /\ journal' = Append(journal, r)
  /\ \A u \in Trades :
       applied'[u] = IF Names(r, u) THEN EntryOf(r, u) ELSE applied[u]

\* A call that changes an entry journals it.
LEMMA RememberJournals ==
  ASSUME TableTypeOK, NEW t \in Trades, NEW o \in OrderIds, NEW s \in Nat,
         Remember(t, o, s)
  PROVE  \/ UNCHANGED table /\ applied[t].size = s
         \/ \E r \in SoundRecords : Journals(r)
<1>1. CASE applied[t].known /\ applied[t].size = s
  BY <1>1 DEF Remember
<1>2. CASE ~(applied[t].known /\ applied[t].size = s)
  <2> DEFINE tbl == Upsert(t, o, s)
             gone == Victims(tbl, Sequenced(t), orders')
             rec == [trade |-> t, size |-> s, order |-> tbl[t].order, evicted |-> gone]
  <2>1. /\ applied' = [u \in Trades |-> IF u \in gone THEN NotApplied ELSE tbl[u]]
        /\ journal' = Append(journal, rec)
    BY <1>2 DEF Remember
  <2>2. /\ tbl[t].order \in OrderIds
        /\ tbl[t] = [known |-> TRUE, size |-> s, order |-> tbl[t].order]
        /\ \A u \in Trades : u # t => tbl[u] = applied[u]
    BY DEF Upsert, TableTypeOK, AppliedFills
  <2>3. gone \subseteq Trades
    BY DEF Victims, Evictable, Known
  <2> HIDE DEF tbl, gone
  <2>4. rec \in SoundRecords
    BY <2>2, <2>3 DEF SoundRecords, AppliedFillRecords
  <2>5. rec.trade = t /\ rec.size = s /\ rec.order = tbl[t].order /\ rec.evicted = gone
    OBVIOUS
  <2> HIDE DEF rec
  <2>6. ASSUME NEW u \in Trades
        PROVE  applied'[u] = IF Names(rec, u) THEN EntryOf(rec, u) ELSE applied[u]
    BY <2>1, <2>2, <2>5 DEF Names, EntryOf
  <2> QED BY <2>1, <2>4, <2>6 DEF Journals
<1> QED BY <1>1, <1>2

\* A report moves no order, or exactly one and the size booked under its trade
\* with it; in the second case it is journalled.
MovesNothing == orders' = orders /\ booked' = booked
MovesOne(t, o) ==
  /\ \A p \in OrderIds : p # o => orders'[p] = orders[p]
  /\ orders'[o] # orders[o]
  /\ booked'[t] # booked[t] /\ \A u \in Trades : u # t => booked'[u] = booked[u]
  /\ journal' # <<>>

\* What the engine does with a report that arrives or is drained.
Fed(f) ==
  \/ UNCHANGED <<core, table, booked, disowned>>
  \/ \E o \in ResolvedTo(f) : ApplyTo(f, o) /\ UNCHANGED <<issued, byInternal>>

\* The row record_delta leaves differs from the old one exactly when the size
\* moved.
LEMMA DeltaMoves ==
  ASSUME CoreTypeOK, NEW o \in OrderIds, NEW d \in Int
  PROVE  /\ Effective(o, d) = 0 => AfterDelta(o, d) = orders[o]
         /\ Effective(o, d) # 0 => AfterDelta(o, d) # orders[o]
<1>1. orders[o].filled \in Nat /\ Capped(o, d) \in Nat
  BY CappedRange DEF CoreTypeOK, Orders
<1>2. ASSUME Effective(o, d) # 0 PROVE AfterDelta(o, d) # orders[o]
  <2>1. AfterDelta(o, d).filled = Capped(o, d)
    BY <1>2 DEF AfterDelta
  <2>2. Capped(o, d) # orders[o].filled
    BY <1>1, <1>2 DEF Effective
  <2> QED BY <2>1, <2>2
<1> QED BY <1>2 DEF AfterDelta

\* apply_fill_report, in the terms the files need.
LEMMA ApplyToMoves ==
  ASSUME EngineInv, NEW f \in Fills, NEW o \in OrderIds, Tracked(o),
         ApplyTo(f, o), UNCHANGED <<issued, byInternal, now>>,
         reported' \in [Trades -> Nat]
  PROVE  /\ CoreInv' /\ TableTypeOK' /\ disowned \subseteq disowned'
         /\ MovesNothing \/ MovesOne(f.trade, o)
         /\ UNCHANGED table \/ \E r \in SoundRecords : Journals(r)
         /\ \A u \in Trades :
              u \notin disowned' /\ booked[u] = applied[u].size
                => u \in Cut(f.trade) \/ booked'[u] = applied'[u].size
<1> DEFINE t == f.trade
           d == ReportDelta(f)
           a == applied[f.trade].size
           e == Effective(o, d)
           s == IF f.kind = "Failed" THEN 0 ELSE f.size
<1>1. CoreInv /\ TableTypeOK /\ CoreTypeOK
  BY DEF EngineInv, CoreInv
<1>2. t \in Trades /\ f.size \in Nat /\ a \in Nat /\ d \in Int
  BY <1>1, ReportTypes
<1>3. /\ CoreInv' /\ TableTypeOK'
      /\ disowned \cup Evicted \subseteq disowned'
      /\ \A u \in Trades :
           u # t => /\ booked'[u] = booked[u]
                    /\ u \notin Evicted => applied'[u] = applied[u]
      /\ NothingToMove(f) =>
           /\ orders' = orders /\ booked' = booked
           /\ t \notin Evicted => applied'[t].size = a
      /\ ~NothingToMove(f) =>
           /\ orders' = [orders EXCEPT ![o] = AfterDelta(o, d)]
           /\ booked'[t] = booked[t] + e
           /\ t \notin Evicted => applied'[t].size = s
  BY <1>1, ApplyToTyped
<1>4. e \in Int /\ s \in Nat /\ booked \in [Trades -> Int] /\ booked' \in [Trades -> Int]
  BY <1>1, <1>2, <1>3, CappedRange DEF TableTypeOK
<1>5. UNCHANGED table \/ \E r \in SoundRecords : Journals(r)
  <2>1. CASE NothingToMove(f) /\ f.kind = "Failed"
    BY <2>1 DEF ApplyTo
  <2>2. CASE NothingToMove(f) /\ f.kind # "Failed"
    <3>1. Remember(t, o, Larger(f.size, a)) /\ Larger(f.size, a) \in Nat
      BY <1>2, <2>2 DEF ApplyTo, Larger
    <3> HIDE DEF a
    <3> QED BY <1>1, <1>2, <3>1, RememberJournals
  <2>3. CASE ~NothingToMove(f)
    <3>1. Remember(t, o, s)
      BY <2>3 DEF ApplyTo
    <3> HIDE DEF s
    <3> QED BY <1>1, <1>2, <1>4, <3>1, RememberJournals
  <2> QED BY <2>1, <2>2, <2>3
<1>6. MovesNothing \/ MovesOne(t, o)
  <2>1. CASE NothingToMove(f)
    BY <1>3, <2>1 DEF MovesNothing
  <2>2. CASE ~NothingToMove(f) /\ e = 0
    <3>1. orders' = orders
      BY <1>1, <1>2, <1>3, <2>2, DeltaMoves DEF CoreTypeOK
    <3>2. booked' = booked
      <4> HIDE DEF e
      <4>1. \A u \in Trades : booked'[u] = booked[u]
        BY <1>2, <1>3, <1>4, <2>2
      <4> QED BY <1>4, <4>1
    <3> QED BY <3>1, <3>2 DEF MovesNothing
  <2>3. CASE ~NothingToMove(f) /\ e # 0
    <3>1. orders'[o] # orders[o] /\ \A p \in OrderIds : p # o => orders'[p] = orders[p]
      BY <1>1, <1>2, <1>3, <2>3, DeltaMoves DEF CoreTypeOK
    <3>2. s # a
      BY <1>2, <2>3 DEF NothingToMove, ReportDelta
    <3>3. Remember(t, o, s)
      BY <2>3 DEF ApplyTo
    <3> HIDE DEF s, e
    <3>4. PICK r \in SoundRecords : Journals(r)
      BY <1>1, <1>2, <1>4, <3>2, <3>3, RememberJournals
    <3>5. journal' # <<>>
      <4>1. journal \in Seq(AppliedFillRecords) /\ r \in AppliedFillRecords
        BY <1>1 DEF TableTypeOK, SoundRecords
      <4> QED BY <3>4, <4>1 DEF Journals
    <3>6. booked'[t] # booked[t]
      BY <1>2, <1>3, <1>4, <2>3
    <3> QED BY <1>3, <3>1, <3>5, <3>6 DEF MovesOne
  <2> QED BY <2>1, <2>2, <2>3
<1>7. ASSUME NEW u \in Trades, u \notin disowned', booked[u] = applied[u].size,
             u \notin Cut(t)
      PROVE  booked'[u] = applied'[u].size
  <2>1. u \notin Evicted
    BY <1>3, <1>7
  <2>2. CASE u # t \/ NothingToMove(f)
    BY <1>3, <1>7, <2>1, <2>2
  <2>3. CASE u = t /\ ~NothingToMove(f) /\ f.kind = "Failed"
    <3>1. d = -a /\ a # 0 /\ s = 0
      BY <2>3 DEF ReportDelta, NothingToMove
    <3>2. ~(e > d)
      BY <1>2, <1>7, <2>3, <3>1 DEF Disowns, ApplyTo
    <3>3. ~(s - a > e)
      <4>1. applied'[t].size = s /\ booked'[t] - booked[t] = e
        BY <1>2, <1>3, <1>4, <2>1, <2>3
      <4> QED BY <1>7, <2>3, <4>1 DEF Cut
    <3> HIDE DEF s, e, d
    <3> QED BY <1>2, <1>3, <1>4, <1>7, <2>1, <2>3, <3>1, <3>2, <3>3
  <2>4. CASE u = t /\ ~NothingToMove(f) /\ f.kind # "Failed"
    <3>1. d = f.size - a /\ d > 0 /\ s = f.size
      BY <1>2, <2>4 DEF ReportDelta, NothingToMove
    <3>2. e <= d
      BY <1>1, <1>2, <3>1, CappedRange
    <3>3. ~(s - a > e)
      <4>1. applied'[t].size = s /\ booked'[t] - booked[t] = e
        BY <1>2, <1>3, <1>4, <2>1, <2>4
      <4> QED BY <1>7, <2>4, <4>1 DEF Cut
    <3> HIDE DEF s, e, d
    <3> QED BY <1>2, <1>3, <1>4, <1>7, <2>1, <2>4, <3>1, <3>2, <3>3
  <2> QED BY <2>2, <2>3, <2>4
<1> QED BY <1>3, <1>5, <1>6, <1>7

-----------------------------------------------------------------------------
(* A report keeps the invariant *)

\* The delta of a report: none, or one that has its three writes ahead.
LEMMA EmittedIs ==
  ASSUME NEW t \in Trades, booked \in [Trades -> Int], booked' \in [Trades -> Int]
  PROVE  /\ MovesNothing => Emitted(t) = <<>>
         /\ \A o \in OrderIds :
              MovesOne(t, o) =>
                LET x == [trade |-> t, delta |-> booked'[t] - booked[t],
                          step |-> "positions", order |-> o]
                IN Emitted(t) = <<x>> /\ x \in Effects
<1>1. ASSUME NEW o \in OrderIds, MovesOne(t, o)
      PROVE  (CHOOSE p \in OrderIds : orders'[p] # orders[p]) = o
  <2>1. \A p \in OrderIds : orders'[p] # orders[p] <=> p = o
    BY <1>1 DEF MovesOne
  <2> QED BY <2>1
<1>2. ASSUME NEW o \in OrderIds, MovesOne(t, o)
      PROVE  LET x == [trade |-> t, delta |-> booked'[t] - booked[t],
                       step |-> "positions", order |-> o]
             IN Emitted(t) = <<x>> /\ x \in Effects
  <2>1. booked'[t] # booked[t] /\ booked'[t] - booked[t] \in Int
    BY <1>2 DEF MovesOne
  <2> QED BY <1>1, <1>2, <2>1 DEF Emitted, Effects
<1> QED BY <1>2 DEF Emitted, MovesNothing

\* The way from the book to what is booked depends on the deltas alone.
LEMMA ChainFrame ==
  ASSUME Chain, effects' = effects, held' = held, booked' = booked
  PROVE  Chain'
<1>1. PICK c \in [1..(Len(effects) + 1) -> [Trades -> Int]] : Leads(c)
  BY DEF Chain
<1>2. Leads(c)'
  BY <1>1 DEF Leads, ToBook
<1> QED BY <1>1, <1>2 DEF Chain

\* One more delta at the end lengthens the way from the book to what is booked.
LEMMA ChainAppend ==
  ASSUME Chain, effects \in Seq(Effects), booked \in [Trades -> Int],
         booked' \in [Trades -> Int], NEW t \in Trades, NEW x \in Effects,
         x.trade = t, x.step = "positions", x.delta = booked'[t] - booked[t],
         \A u \in Trades : u # t => booked'[u] = booked[u],
         effects' = Append(effects, x), held' = held
  PROVE  Chain'
<1> DEFINE n == Len(effects)
<1>1. /\ n \in Nat /\ Len(effects') = n + 1 /\ effects'[n + 1] = x
      /\ \A i \in 1..n : effects'[i] = effects[i] /\ effects[i] \in Effects
  OBVIOUS
<1>2. PICK c \in [1..(n + 1) -> [Trades -> Int]] : Leads(c)
  BY DEF Chain
<1> HIDE DEF n
<1>3. PICK k \in [1..(n + 2) -> [Trades -> Int]] :
        k[n + 2] = booked' /\ \A i \in 1..(n + 1) : k[i] = c[i]
  <2> DEFINE m == [i \in 1..(n + 2) |-> IF i = n + 2 THEN booked' ELSE c[i]]
  <2>1. m \in [1..(n + 2) -> [Trades -> Int]]
    BY <1>1, <1>2
  <2>2. m[n + 2] = booked' /\ \A i \in 1..(n + 1) : m[i] = c[i]
    BY <1>1
  <2> HIDE DEF m
  <2> QED BY <2>1, <2>2
<1>4. k[n + 2] = booked' /\ (\A i \in 1..(n + 1) : k[i] = c[i]) /\ k[1] = c[1]
  BY <1>1, <1>3
<1>5. /\ c[1] = held
      /\ \A i \in 1..n :
           c[i + 1] = IF ToBook(i)
                      THEN [c[i] EXCEPT ![effects[i].trade] = @ + effects[i].delta]
                      ELSE c[i]
      /\ \A i \in 1..(n + 1), u \in Trades :
           (\A j \in i..n : ToBook(j) => effects[j].trade # u) => c[i][u] = booked[u]
  BY <1>2 DEF Leads, n
<1>6. c[n + 1] = booked
  <2>1. \A u \in Trades : c[n + 1][u] = booked[u]
    BY <1>1, <1>5
  <2> QED BY <1>1, <1>2, <2>1
<1>7. ASSUME NEW i \in 1..Len(effects')
      PROVE  k[i + 1] = IF ToBook(i)'
                        THEN [k[i] EXCEPT ![effects'[i].trade] = @ + effects'[i].delta]
                        ELSE k[i]
  <2>1. CASE i \in 1..n
    <3>1. i + 1 \in 1..(n + 1) /\ effects'[i] = effects[i]
      BY <1>1, <2>1
    <3>2. k[i] = c[i] /\ k[i + 1] = c[i + 1]
      BY <1>1, <1>4, <2>1, <3>1
    <3>3. ToBook(i)' <=> ToBook(i)
      BY <3>1 DEF ToBook
    <3>4. c[i + 1] = IF ToBook(i)
                     THEN [c[i] EXCEPT ![effects[i].trade] = @ + effects[i].delta]
                     ELSE c[i]
      BY <1>5, <2>1
    <3> QED BY <3>1, <3>2, <3>3, <3>4
  <2>2. CASE i = n + 1
    <3>1. ToBook(i)' /\ k[i] = booked /\ k[i + 1] = booked'
      BY <1>1, <1>4, <1>6, <2>2 DEF ToBook
    <3>2. booked' = [booked EXCEPT ![t] = @ + x.delta]
      <4>1. booked[t] + x.delta = booked'[t]
        OBVIOUS
      <4> QED BY <4>1
    <3> QED BY <1>1, <2>2, <3>1, <3>2
  <2>3. i \in 1..n \/ i = n + 1
    BY <1>1
  <2> QED BY <2>1, <2>2, <2>3
<1>8. ASSUME NEW i \in 1..(Len(effects') + 1), NEW u \in Trades,
             \A j \in i..Len(effects') : ToBook(j)' => effects'[j].trade # u
      PROVE  k[i][u] = booked'[u]
  <2>1. CASE i = n + 2
    BY <1>4, <2>1
  <2>2. CASE i \in 1..(n + 1)
    <3>1. u # t
      <4>1. n + 1 \in i..Len(effects') /\ effects'[n + 1].step = "positions"
        BY <1>1, <2>2
      <4> QED BY <1>1, <1>8, <4>1 DEF ToBook
    <3>2. \A j \in i..n : ToBook(j) => effects[j].trade # u
      <4> SUFFICES ASSUME NEW j \in i..n, ToBook(j) PROVE effects[j].trade # u
        OBVIOUS
      <4>1. j \in i..Len(effects') /\ effects'[j] = effects[j]
        BY <1>1, <2>2
      <4> QED BY <1>8, <4>1 DEF ToBook
    <3> QED BY <1>4, <1>5, <2>2, <3>1, <3>2
  <2> QED BY <1>1, <2>1, <2>2
<1>9. Leads(k)'
  <2>1. k[1] = held'
    BY <1>4, <1>5
  <2> QED BY <1>7, <1>8, <2>1 DEF Leads
<1>10. Len(effects') + 1 = n + 2
  BY <1>1
<1> QED BY <1>3, <1>9, <1>10 DEF Chain

\* A report that arrives, or that a drain reaches, keeps the invariant: its
\* delta is queued behind those of the same drain.
LEMMA FedKeeps ==
  ASSUME LogIInv, NEW f \in Fills, Fed(f), now' = now,
         reported' \in [Trades -> Nat], BufferTypeOK', UNCHANGED <<disk, torn>>,
         cut' = cut \cup Cut(f.trade),
         effects' = effects \o Emitted(f.trade),
         effects = <<>> \/ draining # <<>>
  PROVE  LogIInv'
<1> DEFINE t == f.trade
<1>1. /\ EngineInv /\ DiskTyped /\ RowsSound /\ RowsLag /\ DrainSound
      /\ Chain /\ TableExact /\ TableInLog /\ BookInLog
      /\ CoreInv /\ TableTypeOK /\ CoreTypeOK
  BY DEF LogIInv, EngineInv, CoreInv
<1>2. t \in Trades
  BY DEF Fills
<1>3. /\ CoreInv' /\ TableTypeOK' /\ disowned \subseteq disowned'
      /\ byInternal' = byInternal /\ issued' = issued
      /\ MovesNothing \/ \E o \in OrderIds : MovesOne(t, o)
      /\ UNCHANGED table \/ \E r \in SoundRecords : Journals(r)
      /\ \A u \in Trades :
           u \notin disowned' /\ booked[u] = applied[u].size
             => u \in Cut(t) \/ booked'[u] = applied'[u].size
  <2>1. CASE UNCHANGED <<core, table, booked, disowned>>
    <3>1. CoreInv'
      BY <1>1, <2>1, CoreFrame DEF CoreTypeOK
    <3>2. TableTypeOK'
      BY <1>1, <2>1 DEF TableTypeOK, table
    <3> QED BY <2>1, <3>1, <3>2 DEF core, table, MovesNothing
  <2>2. CASE \E o \in ResolvedTo(f) : ApplyTo(f, o) /\ UNCHANGED <<issued, byInternal>>
    <3>1. PICK o \in ResolvedTo(f) : ApplyTo(f, o) /\ UNCHANGED <<issued, byInternal>>
      BY <2>2
    <3>2. o \in OrderIds /\ Tracked(o)
      BY <1>1, ResolvedTracked DEF CoreTypeOK
    <3> QED BY <1>1, <3>1, <3>2, ApplyToMoves
  <2> QED BY <2>1, <2>2 DEF Fed
<1>4. EngineInv'
  BY <1>3 DEF EngineInv
<1>5. booked \in [Trades -> Int] /\ booked' \in [Trades -> Int]
  BY <1>1, <1>3 DEF TableTypeOK
<1>6. rows' = rows /\ log' = log /\ held' = held /\ torn' = torn
  BY DEF disk
<1>7. effects \in Seq(Effects) /\ log \in Seq(SoundRecords) /\ journal \in Seq(SoundRecords)
  BY <1>1 DEF DiskTyped
<1>8. /\ journal' \in Seq(SoundRecords)
      /\ journal # <<>> => journal' # <<>>
      /\ TableInLog'
  <2>1. CASE UNCHANGED table
    BY <1>1, <1>6, <1>7, <2>1 DEF TableInLog, table
  <2>2. CASE \E r \in SoundRecords : Journals(r)
    <3>1. PICK r \in SoundRecords : Journals(r)
      BY <2>2
    <3>2. journal' = Append(journal, r)
      BY <3>1 DEF Journals
    <3>3. /\ journal' \in Seq(SoundRecords) /\ journal' # <<>>
          /\ log \o journal \in Seq(SoundRecords)
          /\ log \o journal' = Append(log \o journal, r)
      <4>1. Append(journal, r) \in Seq(SoundRecords) /\ Append(journal, r) # <<>>
        BY <1>7, <3>1, AppendProperties
      <4>2. log \o journal \in Seq(SoundRecords)
        BY <1>7
      <4>3. log \o Append(journal, r) = Append(log \o journal, r)
        BY <1>7, ConcatAppend
      <4> QED BY <3>2, <4>1, <4>2, <4>3
    <3>4. ASSUME NEW u \in Trades PROVE FoldIs(log' \o journal', u, applied'[u])
      <4>1. FoldIs(log \o journal, u, applied[u])
        BY <1>1 DEF TableInLog
      <4>2. FoldIs(Append(log \o journal, r), u,
                   IF Names(r, u) THEN EntryOf(r, u) ELSE applied[u])
        BY <3>3, <4>1, FoldAppend
      <4> QED BY <1>6, <3>1, <3>3, <4>2 DEF Journals
    <3> QED BY <3>3, <3>4 DEF TableInLog
  <2> QED BY <1>3, <2>1, <2>2
<1>9. RowsSound'
  BY <1>1, <1>3, <1>6 DEF RowsSound
<1>10. Cut(t) \subseteq {t}
  BY DEF Cut
<1>11. Excepted \subseteq Excepted' /\ Cut(t) \subseteq Excepted' /\ cut' \subseteq Trades
  BY <1>1, <1>2, <1>3, <1>6, <1>10 DEF Excepted, DiskTyped
<1>12. TableExact'
  <2> SUFFICES ASSUME NEW u \in Trades, u \notin Excepted'
               PROVE  booked'[u] = applied'[u].size
    BY DEF TableExact
  <2>1. u \notin Excepted /\ u \notin Cut(t) /\ u \notin disowned'
    BY <1>11 DEF Excepted
  <2>2. booked[u] = applied[u].size
    BY <1>1, <2>1 DEF TableExact
  <2> QED BY <1>3, <2>1, <2>2
<1>13. CASE MovesNothing
  <2>1. effects' = effects /\ orders' = orders /\ booked' = booked
    <3>1. Emitted(t) = <<>>
      BY <1>2, <1>5, <1>13, EmittedIs
    <3> QED BY <1>7, <1>13, <3>1 DEF MovesNothing
  <2>2. DiskTyped' /\ RowsLag'
    BY <1>1, <1>6, <1>8, <1>11, <2>1 DEF DiskTyped, RowsLag, Lags
  <2>3. DrainSound'
    BY <1>1, <1>8, <2>1 DEF DrainSound
  <2>4. Chain'
    BY <1>1, <1>6, <2>1, ChainFrame
  <2>5. BookInLog'
    <3> SUFFICES ASSUME NEW u \in Trades, u \notin Excepted', Untouched(u)',
                        NEW e, FoldIs(log', u, e)
                 PROVE  held'[u] = e.size
      BY DEF BookInLog
    <3>1. Untouched(u)
      <4> SUFFICES ASSUME NEW i \in 1..Len(effects), effects[i].trade = u
                   PROVE  ToBook(i) /\ journal # <<>>
        BY DEF Untouched
      <4>1. ToBook(i) /\ effects # <<>>
        BY <1>7, <2>1 DEF Untouched, ToBook
      <4> QED BY <1>1, <4>1 DEF DrainSound
    <3> QED BY <1>1, <1>6, <1>11, <3>1 DEF BookInLog
  <2> QED BY <1>4, <1>8, <1>9, <1>12, <2>2, <2>3, <2>4, <2>5 DEF LogIInv
<1>14. CASE \E o \in OrderIds : MovesOne(t, o)
  <2>1. PICK o \in OrderIds : MovesOne(t, o)
    BY <1>14
  <2>2. PICK x \in Effects :
          /\ Emitted(t) = <<x>> /\ x.trade = t /\ x.step = "positions" /\ x.order = o
          /\ x.delta = booked'[t] - booked[t]
    <3> DEFINE y == [trade |-> t, delta |-> booked'[t] - booked[t],
                     step |-> "positions", order |-> o]
    <3>1. Emitted(t) = <<y>> /\ y \in Effects
      BY <1>2, <1>5, <2>1, EmittedIs
    <3>2. y.trade = t /\ y.step = "positions" /\ y.order = o
          /\ y.delta = booked'[t] - booked[t]
      OBVIOUS
    <3> HIDE DEF y
    <3> QED BY <3>1, <3>2
  <2>3. /\ effects' = Append(effects, x) /\ effects' \in Seq(Effects)
        /\ Len(effects) \in Nat /\ Len(effects') = Len(effects) + 1
        /\ effects'[Len(effects) + 1] = x
        /\ \A i \in 1..Len(effects) : effects'[i] = effects[i] /\ i \in 1..Len(effects')
    BY <1>7, <2>2
  <2>4. DiskTyped'
    BY <1>1, <1>6, <1>8, <1>11, <2>3 DEF DiskTyped
  <2>5. RowsLag'
    <3> SUFFICES ASSUME NEW p \in OrderIds PROVE rows'[p] = orders'[p] \/ Lags(p)'
      BY DEF RowsLag
    <3>1. CASE p = o
      <4>1. Len(effects) + 1 \in 1..Len(effects')
        BY <2>3
      <4> QED BY <2>2, <2>3, <3>1, <4>1 DEF Lags
    <3>2. CASE p # o
      <4>1. orders'[p] = orders[p]
        BY <2>1, <3>2 DEF MovesOne
      <4>2. Lags(p) => Lags(p)'
        BY <2>3 DEF Lags
      <4> QED BY <1>1, <1>6, <4>1, <4>2 DEF RowsLag
    <3> QED BY <3>1, <3>2
  <2>6. journal' # <<>>
    BY <2>1 DEF MovesOne
  <2>7. Chain'
    <3>1. \A u \in Trades : u # t => booked'[u] = booked[u]
      BY <2>1 DEF MovesOne
    <3> QED BY <1>1, <1>2, <1>5, <1>6, <1>7, <2>2, <2>3, <3>1, ChainAppend
  <2>8. BookInLog'
    <3> SUFFICES ASSUME NEW u \in Trades, u \notin Excepted', Untouched(u)',
                        NEW e, FoldIs(log', u, e)
                 PROVE  held'[u] = e.size
      BY DEF BookInLog
    <3>1. Untouched(u)
      <4> SUFFICES ASSUME NEW i \in 1..Len(effects), effects[i].trade = u
                   PROVE  ToBook(i) /\ journal # <<>>
        BY DEF Untouched
      <4>1. effects # <<>>
        BY <1>7
      <4>2. ToBook(i)
        BY <2>3 DEF Untouched, ToBook
      <4> QED BY <1>1, <4>1, <4>2 DEF DrainSound
    <3> QED BY <1>1, <1>6, <1>11, <3>1 DEF BookInLog
  <2> QED BY <1>4, <1>8, <1>9, <1>12, <2>4, <2>5, <2>6, <2>7, <2>8 DEF LogIInv, DrainSound
<1> QED BY <1>3, <1>13, <1>14

-----------------------------------------------------------------------------
(* Orders, the clock and the arrival of reports *)

\* Nothing but the order table, its rows and the clock changes.
LEMMA OrdersFrame ==
  ASSUME LogIInv, CoreInv', RowsSound', RowsLag', rows' \in [OrderIds -> Orders],
         UNCHANGED <<table, pending, draining, history, log, held, effects, cut, torn>>
  PROVE  LogIInv'
<1>1. /\ EngineInv /\ DiskTyped /\ DrainSound /\ Chain
      /\ TableExact /\ TableInLog /\ BookInLog
  BY DEF LogIInv
<1>2. UNCHANGED <<applied, older, journal, booked, reported, disowned>>
  BY DEF table, history
<1>3. TableTypeOK' /\ BufferTypeOK'
  BY <1>1, <1>2 DEF EngineInv, TableTypeOK, BufferTypeOK
<1>4. DiskTyped' /\ DrainSound' /\ TableExact' /\ TableInLog'
  BY <1>1, <1>2 DEF DiskTyped, DrainSound, TableExact, TableInLog, Excepted
<1>5. Chain'
  BY <1>1, <1>2, ChainFrame
<1>6. BookInLog'
  BY <1>1, <1>2 DEF BookInLog, Excepted, Untouched, ToBook
<1> QED BY <1>3, <1>4, <1>5, <1>6 DEF LogIInv, EngineInv

\* Between two handlers the rows are the orders.
LEMMA RowsAtRest ==
  ASSUME LogIInv, effects = <<>>
  PROVE  rows = orders
<1>1. rows \in [OrderIds -> Orders] /\ orders \in [OrderIds -> Orders]
  BY DEF LogIInv, DiskTyped, EngineInv, CoreInv, CoreTypeOK
<1>2. \A o \in OrderIds : ~Lags(o)
  BY DEF Lags
<1>3. \A o \in OrderIds : rows[o] = orders[o]
  BY <1>2 DEF LogIInv, RowsLag
<1> QED BY <1>1, <1>3

\* An operation on an order leaves the other orders alone.
LEMMA OrderOpsOne ==
  ASSUME NEW o \in OrderIds, OrderOps(o)
  PROVE  \A p \in OrderIds : p # o => orders'[p] = orders[p]
<1>1. CASE Submit(o)
  BY <1>1 DEF Submit
<1>2. ASSUME NEW r, Mutate(o, r)
      PROVE  \A p \in OrderIds : p # o => orders'[p] = orders[p]
  BY <1>2 DEF Mutate
<1> QED BY <1>1, <1>2 DEF OrderOps, ConfirmLive, BindVenue, Cancel, Reject, ForceClose,
                         RepairGhost, MarkTerminal

\* An order operation and the row it writes keep the invariant.
LEMMA OrderOpKeeps ==
  ASSUME LogIInv, NEW o \in OrderIds, OrderOp(o)
  PROVE  LogIInv'
<1>1. /\ OrderOps(o) /\ effects = <<>> /\ rows' = [rows EXCEPT ![o] = orders'[o]]
      /\ UNCHANGED <<log, held, effects, cut, torn>>
  BY DEF OrderOp, OrderOps, Busy, PersistOrder
<1>2. CoreInv' /\ UNCHANGED <<table, pending, draining, now, history>>
  BY <1>1, OrderOpCore DEF LogIInv, EngineInv
<1>3. orders' \in [OrderIds -> Orders] /\ rows \in [OrderIds -> Orders]
  BY <1>2 DEF LogIInv, DiskTyped, CoreInv, CoreTypeOK
<1>4. rows' = orders'
  <2>1. rows = orders
    BY <1>1, RowsAtRest
  <2>2. \A p \in OrderIds : p # o => orders'[p] = orders[p]
    BY <1>1, OrderOpsOne
  <2>3. \A p \in OrderIds : rows'[p] = orders'[p]
    BY <1>1, <1>3, <2>1, <2>2
  <2> QED BY <1>1, <1>3, <2>3
<1>5. RowsSound' /\ RowsLag'
  BY <1>2, <1>4 DEF RowsSound, RowsLag, CoreInv, CoreTypeOK, KeyGuard, RowsIssued, Tracked, Live
<1> QED BY <1>1, <1>2, <1>3, <1>4, <1>5, OrdersFrame

\* The clock keeps the invariant.
LEMMA LogClockKeeps ==
  ASSUME LogIInv, LogClockAdvances
  PROVE  LogIInv'
<1>1. /\ now' = now + 1 /\ UNCHANGED <<core, table, pending, draining, history>>
      /\ UNCHANGED <<rows, log, held, effects, cut, torn>>
  BY DEF LogClockAdvances, ClockAdvances, disk
<1>2. now \in Nat /\ CoreInv /\ RowsSound /\ RowsLag /\ rows \in [OrderIds -> Orders]
  BY DEF LogIInv, EngineInv, CoreInv, CoreTypeOK, DiskTyped
<1>3. CoreInv'
  BY <1>1, <1>2, CoreFrame
<1>4. RowsSound'
  <2>1. \A o \in OrderIds : rows[o].at \in Nat
    BY <1>2 DEF Orders
  <2> QED BY <1>1, <1>2, <2>1 DEF RowsSound, core
<1>5. RowsLag'
  BY <1>1, <1>2 DEF RowsLag, Lags, core
<1> QED BY <1>1, <1>2, <1>3, <1>4, <1>5, OrdersFrame

\* ingest_fill keeps the invariant.
LEMMA IngestKeeps ==
  ASSUME LogIInv, NEW f \in Fills, Ingest(f)
  PROVE  LogIInv'
<1>1. /\ effects = <<>> /\ IngestFill(f) /\ effects' = Emitted(f.trade)
      /\ cut' = cut \cup Cut(f.trade) /\ UNCHANGED <<disk, torn>>
      /\ draining' = draining /\ now' = now
  BY DEF Ingest, Busy, IngestFill
<1>2. /\ TableTypeOK /\ now \in Nat
      /\ pending \in Seq(PendingFills) /\ draining \in Seq(PendingFills)
  BY DEF LogIInv, EngineInv, CoreInv, CoreTypeOK, BufferTypeOK
<1>3. reported' \in [Trades -> Nat]
  BY <1>1, <1>2, ReportMonotone DEF IngestFill
<1>4. Fed(f)
  BY <1>1 DEF IngestFill, Fed
<1>5. pending' \in Seq(PendingFills)
  <2> DEFINE pf == [fill |-> f, at |-> now]
             q == Append(pending, pf)
  <2>1. pending' = pending \/ pending' = q \/ pending' = Tail(q)
    BY <1>1 DEF IngestFill, Buffered
  <2>2. pf \in PendingFills
    BY <1>2 DEF PendingFills
  <2> HIDE DEF pf
  <2>3. q \in Seq(PendingFills) /\ Tail(q) \in Seq(PendingFills)
    BY <1>2, <2>2
  <2> QED BY <1>2, <2>1, <2>3
<1>6. BufferTypeOK'
  BY <1>1, <1>2, <1>5 DEF BufferTypeOK
<1>7. effects' = effects \o Emitted(f.trade)
  <2>1. Emitted(f.trade) = <<>> \/ \E x : Emitted(f.trade) = <<x>>
    BY DEF Emitted
  <2> QED BY <1>1, <2>1
<1> QED BY <1>1, <1>3, <1>4, <1>6, <1>7, FedKeeps

\* drain_pending takes the buffer and keeps the invariant.
LEMMA DrainKeeps ==
  ASSUME LogIInv, Drain
  PROVE  LogIInv'
<1>1. /\ effects = <<>> /\ draining' = pending /\ pending' = <<>>
      /\ UNCHANGED <<core, table, now, history, rows, log, held, effects, cut, torn>>
  BY DEF Drain, DrainPending, Busy, disk
<1>2. UNCHANGED <<orders, issued, byInternal, applied, older, journal, booked, reported, disowned>>
  BY <1>1 DEF core, table, history
<1>3. /\ EngineInv /\ DiskTyped /\ RowsSound /\ RowsLag /\ DrainSound /\ Chain
      /\ TableExact /\ TableInLog /\ BookInLog
  BY DEF LogIInv
<1>4. CoreInv'
  BY <1>1, <1>3, CoreFrame DEF EngineInv, CoreInv, CoreTypeOK
<1>5. TableTypeOK' /\ BufferTypeOK'
  BY <1>1, <1>2, <1>3 DEF EngineInv, TableTypeOK, BufferTypeOK
<1>6. DiskTyped' /\ RowsSound' /\ RowsLag' /\ DrainSound'
  BY <1>1, <1>2, <1>3 DEF DiskTyped, RowsSound, RowsLag, Lags, DrainSound
<1>7. TableExact' /\ TableInLog' /\ BookInLog'
  BY <1>1, <1>2, <1>3 DEF TableExact, TableInLog, BookInLog, Excepted, Untouched, ToBook
<1>8. Chain'
  BY <1>1, <1>2, <1>3, ChainFrame
<1> QED BY <1>4, <1>5, <1>6, <1>7, <1>8 DEF LogIInv, EngineInv

\* One fill of the drain keeps the invariant.
LEMMA DrainNextKeeps ==
  ASSUME LogIInv, DrainNext
  PROVE  LogIInv'
<1> DEFINE pf == Head(draining)
           f == Head(draining).fill
<1>1. /\ DrainOne /\ draining # <<>> /\ draining' = Tail(draining)
      /\ effects' = effects \o Emitted(f.trade)
      /\ cut' = cut \cup Cut(f.trade) /\ UNCHANGED <<disk, torn>>
      /\ now' = now /\ reported' = reported
  BY DEF DrainNext, DrainOne
<1>2. /\ TableTypeOK
      /\ pending \in Seq(PendingFills) /\ draining \in Seq(PendingFills)
  BY DEF LogIInv, EngineInv, BufferTypeOK
<1>3. pf \in PendingFills /\ Tail(draining) \in Seq(PendingFills)
  BY <1>1, <1>2
<1>4. f \in Fills
  BY <1>3 DEF PendingFills
<1>5. pending' = pending \/ pending' = Append(pending, pf)
  BY <1>1 DEF DrainOne
<1>6. Fed(f)
  BY <1>1 DEF DrainOne, Fed
<1>7. reported' \in [Trades -> Nat]
  BY <1>1, <1>2 DEF TableTypeOK
<1> HIDE DEF pf, f
<1>8. BufferTypeOK'
  <2>1. Append(pending, pf) \in Seq(PendingFills)
    BY <1>2, <1>3, AppendProperties
  <2> QED BY <1>1, <1>2, <1>3, <1>5, <2>1 DEF BufferTypeOK
<1> QED BY <1>1, <1>4, <1>6, <1>7, <1>8, FedKeeps

-----------------------------------------------------------------------------
(* The writes of a delta *)

\* The first delta has its next write ahead, the others are as they were.
Advances(s) ==
  /\ effects' \in Seq(Effects) /\ Len(effects') = Len(effects) /\ Len(effects) \in Nat
  /\ 1 \in 1..Len(effects)
  /\ effects'[1].trade = effects[1].trade /\ effects'[1].order = effects[1].order
  /\ effects'[1].step = s
  /\ \A i \in 1..Len(effects) : i # 1 => effects'[i] = effects[i]

\* A write moves its delta to the next one.
LEMMA EffectAdvances ==
  ASSUME effects \in Seq(Effects), effects # <<>>, NEW s \in {"row", "applied"},
         effects' = [effects EXCEPT ![1].step = s]
  PROVE  Advances(s)
<1> DEFINE x == [effects[1] EXCEPT !.step = s]
<1>1. Len(effects) \in Nat /\ 1 \in 1..Len(effects) /\ effects[1] \in Effects
  OBVIOUS
<1>2. x \in Effects /\ x.trade = effects[1].trade /\ x.order = effects[1].order /\ x.step = s
  BY <1>1 DEF Effects
<1>3. effects' = [effects EXCEPT ![1] = x]
  OBVIOUS
<1> HIDE DEF x
<1>4. /\ effects' \in Seq(Effects) /\ Len(effects') = Len(effects)
      /\ \A i \in 1..Len(effects) : effects'[i] = IF i = 1 THEN x ELSE effects[i]
  BY <1>1, <1>2, <1>3, ExceptSeq
<1> QED BY <1>1, <1>2, <1>4 DEF Advances

\* What the writes of a delta have in common.
LEMMA WriteFrame ==
  ASSUME LogIInv, UNCHANGED <<vars, log, cut, torn>>, draining = <<>>,
         effects' \in Seq(Effects), held' \in [Trades -> Int],
         rows' \in [OrderIds -> Orders], RowsSound', RowsLag', Chain', BookInLog'
  PROVE  LogIInv'
<1>1. UNCHANGED <<orders, issued, byInternal, liveIndex, sellTimes, applied, older,
                  journal, pending, draining, now, booked, reported, disowned>>
  BY DEF vars, core, table, history
<1>2. now \in Nat /\ UNCHANGED core
  BY <1>1 DEF LogIInv, EngineInv, CoreInv, CoreTypeOK, core
<1>3. CoreInv'
  BY <1>1, <1>2, CoreFrame DEF LogIInv, EngineInv
<1>4. TableTypeOK' /\ BufferTypeOK'
  BY <1>1 DEF LogIInv, EngineInv, TableTypeOK, BufferTypeOK
<1>5. DiskTyped' /\ DrainSound'
  BY <1>1 DEF LogIInv, DiskTyped, DrainSound
<1>6. TableExact' /\ TableInLog'
  BY <1>1 DEF LogIInv, TableExact, TableInLog, Excepted
<1> QED BY <1>3, <1>4, <1>5, <1>6 DEF LogIInv, EngineInv

\* A stuttering step keeps the invariant.
LEMMA LogStutter ==
  ASSUME LogIInv, UNCHANGED logVars
  PROVE  LogIInv'
<1>1. UNCHANGED <<vars, rows, log, held, effects, cut, torn>>
  BY DEF logVars, disk
<1>2. UNCHANGED <<orders, issued, byInternal, liveIndex, sellTimes, applied, older,
                  journal, pending, draining, now, booked, reported, disowned>>
  BY <1>1 DEF vars, core, table, history
<1>3. CoreInv'
  <2>1. now \in Nat /\ UNCHANGED core
    BY <1>2 DEF LogIInv, EngineInv, CoreInv, CoreTypeOK, core
  <2> QED BY <1>2, <2>1, CoreFrame DEF LogIInv, EngineInv
<1>4. UNCHANGED <<table, history>>
  BY <1>2 DEF table, history
<1>5. RowsSound' /\ RowsLag' /\ rows' \in [OrderIds -> Orders]
  BY <1>1, <1>2 DEF LogIInv, RowsSound, RowsLag, Lags, DiskTyped
<1> QED BY <1>1, <1>2, <1>3, <1>4, <1>5, OrdersFrame

\* The position book takes its delta.
LEMMA SavePositionsKeeps ==
  ASSUME LogIInv, SavePositions
  PROVE  LogIInv'
<1> DEFINE n == Len(effects)
           t == effects[1].trade
<1>1. /\ effects \in Seq(Effects) /\ held \in [Trades -> Int]
      /\ RowsSound /\ RowsLag /\ Chain /\ BookInLog /\ rows \in [OrderIds -> Orders]
  BY DEF LogIInv, DiskTyped
<1>2. /\ draining = <<>> /\ effects # <<>> /\ ToBook(1)
      /\ held' = [held EXCEPT ![t] = @ + effects[1].delta]
      /\ effects' = [effects EXCEPT ![1].step = "row"]
      /\ UNCHANGED <<vars, rows, log, cut, torn>>
  <2>1. Head(effects) = effects[1]
    BY <1>1 DEF SavePositions, EffectStep
  <2> QED BY <2>1 DEF SavePositions, EffectStep, ToBook
<1>3. Advances("row")
  BY <1>1, <1>2, EffectAdvances
<1>4. n \in Nat /\ 1 \in 1..n /\ t \in Trades /\ effects[1].delta \in Int
      /\ Len(effects') = n
  <2>1. effects[1] \in Effects
    BY <1>1, <1>2
  <2>2. t \in Trades /\ effects[1].delta \in Int
    BY <2>1 DEF Effects
  <2> QED BY <1>3, <2>2 DEF Advances
<1>5. UNCHANGED <<orders, byInternal, issued, now, booked, journal, disowned>>
  BY <1>2 DEF vars, core, table, history
<1>6. ~ToBook(1)' /\ \A i \in 1..n : i # 1 => (ToBook(i)' <=> ToBook(i)) /\ effects'[i] = effects[i]
  BY <1>3 DEF Advances, ToBook
<1>7. RowsSound' /\ RowsLag'
  <2>1. RowsSound'
    BY <1>1, <1>2, <1>5 DEF RowsSound
  <2>2. ASSUME NEW o \in OrderIds, Lags(o) PROVE Lags(o)'
    <3>1. PICK i \in 1..n : effects[i].order = o /\ effects[i].step # "applied"
      BY <2>2 DEF Lags
    <3>2. effects'[i].order = o /\ effects'[i].step # "applied"
      BY <1>3, <3>1 DEF Advances
    <3> QED BY <1>4, <3>1, <3>2 DEF Lags
  <2> QED BY <1>1, <1>2, <1>5, <2>1, <2>2 DEF RowsLag
<1>8. Chain'
  <2>1. PICK c \in [1..(n + 1) -> [Trades -> Int]] : Leads(c)
    BY <1>1 DEF Chain
  <2>2. PICK k \in [1..(n + 1) -> [Trades -> Int]] :
          k[1] = c[2] /\ \A i \in 1..(n + 1) : i # 1 => k[i] = c[i]
    <3> DEFINE m == [c EXCEPT ![1] = c[2]]
    <3>1. 1 \in 1..(n + 1) /\ 2 \in 1..(n + 1)
      BY <1>4
    <3> HIDE DEF n
    <3>2. m \in [1..(n + 1) -> [Trades -> Int]]
      BY <2>1, <3>1
    <3>3. m[1] = c[2] /\ \A i \in 1..(n + 1) : i # 1 => m[i] = c[i]
      BY <2>1, <3>1
    <3> HIDE DEF m
    <3> QED BY <3>2, <3>3
  <2>3. /\ c[1] = held
        /\ \A i \in 1..n :
             c[i + 1] = IF ToBook(i)
                        THEN [c[i] EXCEPT ![effects[i].trade] = @ + effects[i].delta]
                        ELSE c[i]
        /\ \A i \in 1..(n + 1), u \in Trades :
             (\A j \in i..n : ToBook(j) => effects[j].trade # u) => c[i][u] = booked[u]
    BY <2>1 DEF Leads
  <2>4. c[2] = held'
    <3>1. c[1 + 1] = [c[1] EXCEPT ![t] = @ + effects[1].delta]
      BY <1>2, <1>4, <2>3
    <3> QED BY <1>2, <2>3, <3>1
  <2> HIDE DEF n
  <2>5. ASSUME NEW i \in 1..Len(effects')
        PROVE  k[i + 1] = IF ToBook(i)'
                          THEN [k[i] EXCEPT ![effects'[i].trade] = @ + effects'[i].delta]
                          ELSE k[i]
    <3>1. CASE i = 1
      <4>1. k[2] = c[2]
        BY <1>4, <2>2
      <4> QED BY <1>6, <2>2, <3>1, <4>1
    <3>2. CASE i # 1
      <4>1. i \in 1..n /\ i \in 1..(n + 1) /\ i + 1 \in 1..(n + 1) /\ i + 1 # 1
        BY <1>4, <3>2
      <4>2. k[i] = c[i] /\ k[i + 1] = c[i + 1]
        BY <2>2, <3>2, <4>1
      <4>3. (ToBook(i)' <=> ToBook(i)) /\ effects'[i] = effects[i]
        BY <1>6, <3>2, <4>1
      <4> QED BY <2>3, <4>1, <4>2, <4>3
    <3> QED BY <3>1, <3>2
  <2>6. ASSUME NEW i \in 1..(Len(effects') + 1), NEW u \in Trades,
               \A j \in i..Len(effects') : ToBook(j)' => effects'[j].trade # u
        PROVE  k[i][u] = booked'[u]
    <3>1. ASSUME NEW j \in i..n, j # 1, ToBook(j) PROVE effects[j].trade # u
      <4>1. j \in 1..n /\ j \in i..Len(effects')
        BY <1>4
      <4> QED BY <1>6, <2>6, <3>1, <4>1
    <3>2. CASE i = 1
      <4>1. 2 \in 1..(n + 1) /\ \A j \in 2..n : j \in i..n /\ j # 1
        BY <1>4, <3>2
      <4>2. \A j \in 2..n : ToBook(j) => effects[j].trade # u
        BY <3>1, <4>1
      <4>3. c[2][u] = booked[u]
        BY <2>3, <4>1, <4>2
      <4> QED BY <1>5, <2>2, <3>2, <4>3
    <3>3. CASE i # 1
      <4>1. i \in 1..(n + 1) /\ \A j \in i..n : j # 1
        BY <1>4, <3>3
      <4>2. c[i][u] = booked[u]
        BY <2>3, <3>1, <4>1
      <4> QED BY <1>5, <2>2, <3>3, <4>1, <4>2
    <3> QED BY <3>2, <3>3
  <2>7. k[1] = held'
    BY <2>2, <2>4
  <2>8. Leads(k)'
    BY <2>5, <2>6, <2>7 DEF Leads
  <2>9. k \in [1..(Len(effects') + 1) -> [Trades -> Int]]
    BY <1>4, <2>2
  <2> QED BY <2>8, <2>9 DEF Chain
<1>9. BookInLog'
  <2> SUFFICES ASSUME NEW u \in Trades, u \notin Excepted', Untouched(u)',
                      NEW e, FoldIs(log', u, e)
               PROVE  held'[u] = e.size
    BY DEF BookInLog
  <2>1. u # t
    BY <1>3, <1>4, <1>6 DEF Untouched, Advances
  <2>2. Untouched(u)
    <3> SUFFICES ASSUME NEW i \in 1..n, effects[i].trade = u
                 PROVE  ToBook(i) /\ journal # <<>>
      BY DEF Untouched
    <3>1. i # 1
      BY <2>1
    <3> QED BY <1>4, <1>5, <1>6, <3>1 DEF Untouched
  <2>3. held'[u] = held[u] /\ u \notin Excepted
    BY <1>1, <1>2, <1>5, <2>1 DEF Excepted
  <2> QED BY <1>1, <1>2, <2>2, <2>3 DEF BookInLog
<1>10. held' \in [Trades -> Int] /\ effects' \in Seq(Effects)
  BY <1>1, <1>2, <1>3, <1>4 DEF Advances
<1> QED BY <1>1, <1>2, <1>7, <1>8, <1>9, <1>10, WriteFrame

\* The order log takes the row of the delta's order.
LEMMA SaveRowKeeps ==
  ASSUME LogIInv, SaveRow
  PROVE  LogIInv'
<1> DEFINE n == Len(effects)
           o == effects[1].order
<1>1. /\ effects \in Seq(Effects) /\ held \in [Trades -> Int] /\ CoreInv
      /\ RowsSound /\ RowsLag /\ Chain /\ BookInLog /\ rows \in [OrderIds -> Orders]
  BY DEF LogIInv, DiskTyped, EngineInv
<1>2. /\ draining = <<>> /\ effects # <<>> /\ effects[1].step = "row"
      /\ rows' = [rows EXCEPT ![o] = orders[o]]
      /\ effects' = [effects EXCEPT ![1].step = "applied"]
      /\ UNCHANGED <<vars, log, held, cut, torn>>
  <2>1. Head(effects) = effects[1]
    BY <1>1 DEF SaveRow, EffectStep
  <2> QED BY <2>1 DEF SaveRow, EffectStep
<1>3. Advances("applied")
  BY <1>1, <1>2, EffectAdvances
<1>4. n \in Nat /\ 1 \in 1..n /\ o \in OrderIds /\ Len(effects') = n
  <2>1. effects[1] \in Effects
    BY <1>1, <1>2
  <2>2. o \in OrderIds
    BY <2>1 DEF Effects
  <2> QED BY <1>3, <2>2 DEF Advances
<1>5. UNCHANGED <<orders, byInternal, issued, now, booked, journal, disowned>>
  BY <1>2 DEF vars, core, table, history
<1>6. /\ \A i \in 1..n : i # 1 => effects'[i] = effects[i]
      /\ \A i \in 1..n : ToBook(i)' <=> ToBook(i)
      /\ \A i \in 1..n : effects'[i].trade = effects[i].trade
      /\ \A i \in 1..n : ToBook(i) => effects'[i] = effects[i]
  BY <1>2, <1>3 DEF Advances, ToBook
<1>7. RowsSound'
  <2>1. \A p \in OrderIds : rows'[p] = IF p = o THEN orders[p] ELSE rows[p]
    BY <1>1, <1>2
  <2>2. ASSUME NEW p \in OrderIds
        PROVE  /\ orders[p].filled <= SizeOf[p] /\ orders[p].at <= now
               /\ orders[p].status # "Untracked" => p \in issued
               /\ orders[p].status \in LiveStatuses => byInternal[KeyOf[p]] = p
    BY <1>1 DEF CoreInv, CoreTypeOK, KeyGuard, RowsIssued, Tracked, Live
  <2> QED BY <1>1, <1>5, <2>1, <2>2 DEF RowsSound
<1>8. RowsLag'
  <2> SUFFICES ASSUME NEW p \in OrderIds PROVE rows'[p] = orders'[p] \/ Lags(p)'
    BY DEF RowsLag
  <2>1. CASE p = o
    BY <1>1, <1>2, <1>5, <2>1
  <2>2. CASE p # o /\ Lags(p)
    <3>1. PICK i \in 1..n : effects[i].order = p /\ effects[i].step # "applied"
      BY <2>2 DEF Lags
    <3>2. i # 1
      BY <2>2, <3>1
    <3> QED BY <1>4, <1>6, <3>1, <3>2 DEF Lags
  <2>3. CASE p # o /\ rows[p] = orders[p]
    BY <1>1, <1>2, <1>5, <2>3
  <2> QED BY <1>1, <2>1, <2>2, <2>3 DEF RowsLag
<1>9. Chain'
  <2>1. PICK c \in [1..(Len(effects) + 1) -> [Trades -> Int]] : Leads(c)
    BY <1>1 DEF Chain
  <2>2. ASSUME NEW i \in 1..Len(effects')
        PROVE  c[i + 1] = IF ToBook(i)'
                          THEN [c[i] EXCEPT ![effects'[i].trade] = @ + effects'[i].delta]
                          ELSE c[i]
    <3>1. c[i + 1] = IF ToBook(i)
                     THEN [c[i] EXCEPT ![effects[i].trade] = @ + effects[i].delta]
                     ELSE c[i]
      BY <1>4, <2>1 DEF Leads
    <3> QED BY <1>4, <1>6, <3>1
  <2>3. ASSUME NEW i \in 1..(Len(effects') + 1), NEW u \in Trades,
               \A j \in i..Len(effects') : ToBook(j)' => effects'[j].trade # u
        PROVE  c[i][u] = booked'[u]
    <3>1. \A j \in i..Len(effects) : ToBook(j) => effects[j].trade # u
      <4> SUFFICES ASSUME NEW j \in i..Len(effects), ToBook(j) PROVE effects[j].trade # u
        OBVIOUS
      <4>1. j \in 1..n /\ j \in i..Len(effects')
        BY <1>4
      <4> QED BY <1>6, <2>3, <4>1
    <3> QED BY <1>4, <1>5, <2>1, <3>1 DEF Leads
  <2>4. c[1] = held'
    BY <1>2, <2>1 DEF Leads
  <2>5. Leads(c)'
    BY <2>2, <2>3, <2>4 DEF Leads
  <2> QED BY <1>4, <2>1, <2>5 DEF Chain
<1>10. BookInLog'
  <2> SUFFICES ASSUME NEW u \in Trades, u \notin Excepted', Untouched(u)',
                      NEW e, FoldIs(log', u, e)
               PROVE  held'[u] = e.size
    BY DEF BookInLog
  <2>1. Untouched(u)
    BY <1>4, <1>5, <1>6 DEF Untouched
  <2>2. u \notin Excepted
    BY <1>2, <1>5 DEF Excepted
  <2> QED BY <1>1, <1>2, <2>1, <2>2 DEF BookInLog
<1>11. /\ rows' \in [OrderIds -> Orders] /\ effects' \in Seq(Effects)
       /\ held' \in [Trades -> Int]
  <2>1. orders[o] \in Orders
    BY <1>1, <1>4 DEF CoreInv, CoreTypeOK
  <2> QED BY <1>1, <1>2, <1>3, <1>4, <2>1 DEF Advances
<1> QED BY <1>1, <1>2, <1>7, <1>8, <1>9, <1>10, <1>11, WriteFrame

\* The journal of the applied-fill table is written, the last write of a delta.
LEMMA SaveAppliedKeeps ==
  ASSUME LogIInv, SaveApplied
  PROVE  LogIInv'
<1> DEFINE n == Len(effects)
<1>1. /\ effects \in Seq(Effects) /\ log \in Seq(SoundRecords) /\ journal \in Seq(SoundRecords)
      /\ EngineInv /\ DiskTyped /\ RowsSound /\ RowsLag /\ Chain
      /\ TableExact /\ TableInLog /\ BookInLog
  BY DEF LogIInv, DiskTyped
<1>2. /\ draining = <<>> /\ effects # <<>> /\ effects[1].step = "applied"
      /\ log' = log \o journal /\ journal' = <<>> /\ effects' = Tail(effects)
      /\ UNCHANGED <<core, applied, older, pending, draining, now, history,
                     rows, held, cut, torn>>
  <2>1. Head(effects) = effects[1]
    BY <1>1 DEF SaveApplied, EffectStep
  <2> QED BY <2>1 DEF SaveApplied, EffectStep
<1>3. UNCHANGED <<orders, byInternal, issued, booked, reported, disowned>>
  BY <1>2 DEF core, history
<1>4. /\ n \in Nat /\ 1 \in 1..n
      /\ effects' \in Seq(Effects) /\ Len(effects') = n - 1
      /\ \A i \in 1..Len(effects') : effects'[i] = effects[i + 1]
  BY <1>1, <1>2, HeadTailProperties
<1>5. log' \in Seq(SoundRecords) /\ log' \o journal' = log \o journal
  <2>1. log \o journal \in Seq(SoundRecords)
    BY <1>1, ConcatProperties
  <2>2. (log \o journal) \o <<>> = log \o journal
    BY <2>1, ConcatEmptySeq
  <2> QED BY <1>2, <2>1, <2>2
<1>6. EngineInv'
  <2>1. now \in Nat /\ CoreInv
    BY <1>1 DEF EngineInv, CoreInv, CoreTypeOK
  <2>2. CoreInv'
    BY <1>2, <2>1, CoreFrame
  <2>3. TableTypeOK'
    BY <1>1, <1>2, <1>3 DEF EngineInv, TableTypeOK
  <2>4. BufferTypeOK'
    BY <1>1, <1>2 DEF EngineInv, BufferTypeOK
  <2> QED BY <2>2, <2>3, <2>4 DEF EngineInv
<1>7. DiskTyped'
  BY <1>1, <1>2, <1>4, <1>5 DEF DiskTyped
<1>8. RowsSound' /\ DrainSound' /\ TableExact'
  BY <1>1, <1>2, <1>3 DEF RowsSound, DrainSound, TableExact, Excepted
<1>9. TableInLog'
  BY <1>1, <1>2, <1>5 DEF TableInLog
<1>10. RowsLag'
  <2> SUFFICES ASSUME NEW o \in OrderIds PROVE rows'[o] = orders'[o] \/ Lags(o)'
    BY DEF RowsLag
  <2>1. CASE rows[o] = orders[o]
    BY <1>2, <1>3, <2>1
  <2>2. CASE Lags(o)
    <3>1. PICK i \in 1..n : effects[i].order = o /\ effects[i].step # "applied"
      BY <2>2 DEF Lags
    <3>2. i # 1
      BY <1>2, <3>1
    <3>3. i - 1 \in 1..Len(effects') /\ (i - 1) + 1 = i
      BY <1>4, <3>2
    <3>4. effects'[i - 1] = effects[i]
      BY <1>4, <3>3
    <3> QED BY <3>1, <3>3, <3>4 DEF Lags
  <2> QED BY <1>1, <2>1, <2>2 DEF RowsLag
<1>11. PICK c \in [1..(n + 1) -> [Trades -> Int]] : Leads(c)
  BY <1>1 DEF Chain
<1>12. /\ c[1] = held
       /\ \A i \in 1..n :
            c[i + 1] = IF ToBook(i)
                       THEN [c[i] EXCEPT ![effects[i].trade] = @ + effects[i].delta]
                       ELSE c[i]
       /\ \A i \in 1..(n + 1), u \in Trades :
            (\A j \in i..n : ToBook(j) => effects[j].trade # u) => c[i][u] = booked[u]
  BY <1>11 DEF Leads
<1>13. ~ToBook(1) /\ \A i \in 1..Len(effects') : ToBook(i)' <=> ToBook(i + 1)
  BY <1>2, <1>4 DEF ToBook
<1> HIDE DEF n
<1>14. Chain'
  <2>1. PICK k \in [1..n -> [Trades -> Int]] : \A i \in 1..n : k[i] = c[i + 1]
    <3> DEFINE m == [i \in 1..n |-> c[i + 1]]
    <3>1. m \in [1..n -> [Trades -> Int]]
      BY <1>4, <1>11
    <3>2. \A i \in 1..n : m[i] = c[i + 1]
      OBVIOUS
    <3> HIDE DEF m
    <3> QED BY <3>1, <3>2
  <2>2. k[1] = held'
    <3>1. k[1] = c[1 + 1] /\ c[1 + 1] = c[1]
      BY <1>4, <1>12, <1>13, <2>1
    <3> QED BY <1>2, <1>12, <3>1
  <2>3. ASSUME NEW i \in 1..Len(effects')
        PROVE  k[i + 1] = IF ToBook(i)'
                          THEN [k[i] EXCEPT ![effects'[i].trade] = @ + effects'[i].delta]
                          ELSE k[i]
    <3>1. i \in 1..n /\ i + 1 \in 1..n
      BY <1>4
    <3>2. k[i] = c[i + 1] /\ k[i + 1] = c[(i + 1) + 1]
      BY <2>1, <3>1
    <3>3. effects'[i] = effects[i + 1] /\ (ToBook(i)' <=> ToBook(i + 1))
      BY <1>4, <1>13
    <3>4. c[(i + 1) + 1] = IF ToBook(i + 1)
                           THEN [c[i + 1] EXCEPT ![effects[i + 1].trade] = @ + effects[i + 1].delta]
                           ELSE c[i + 1]
      BY <1>12, <3>1
    <3> QED BY <3>2, <3>3, <3>4
  <2>4. ASSUME NEW i \in 1..(Len(effects') + 1), NEW u \in Trades,
               \A j \in i..Len(effects') : ToBook(j)' => effects'[j].trade # u
        PROVE  k[i][u] = booked'[u]
    <3>1. i \in 1..n /\ i + 1 \in 1..(n + 1)
      BY <1>4
    <3>2. ASSUME NEW j \in (i + 1)..n, ToBook(j) PROVE effects[j].trade # u
      <4>1. j - 1 \in i..Len(effects') /\ j - 1 \in 1..Len(effects') /\ (j - 1) + 1 = j
        BY <1>4, <3>1
      <4>2. ToBook(j - 1)' /\ effects'[j - 1] = effects[j]
        BY <1>4, <1>13, <3>2, <4>1
      <4> QED BY <2>4, <4>1, <4>2
    <3>3. c[i + 1][u] = booked[u]
      BY <1>12, <3>1, <3>2
    <3> QED BY <1>3, <2>1, <3>1, <3>3
  <2>5. Leads(k)'
    BY <2>2, <2>3, <2>4 DEF Leads
  <2>6. Len(effects') + 1 = n
    BY <1>4
  <2> QED BY <2>1, <2>5, <2>6 DEF Chain
<1>15. BookInLog'
  <2> SUFFICES ASSUME NEW u \in Trades, u \notin Excepted', Untouched(u)',
                      NEW e, FoldIs(log', u, e)
               PROVE  held'[u] = e.size
    BY DEF BookInLog
  <2>1. \A i \in 1..Len(effects') : effects'[i].trade # u
    BY <1>2 DEF Untouched
  <2>2. ASSUME NEW j \in 1..n, ToBook(j) PROVE effects[j].trade # u
    <3>1. j # 1
      BY <1>13, <2>2
    <3>2. j - 1 \in 1..Len(effects') /\ (j - 1) + 1 = j
      BY <1>4, <3>1
    <3>3. effects'[j - 1] = effects[j]
      BY <1>4, <3>2
    <3> QED BY <2>1, <3>2, <3>3
  <2>3. held[u] = booked[u]
    <3>1. 1 \in 1..(n + 1)
      BY <1>4
    <3> QED BY <1>12, <2>2, <3>1
  <2>4. e = applied[u]
    <3>1. FoldIs(log', u, applied[u])
      BY <1>1, <1>2 DEF TableInLog
    <3>2. Len(log') \in Nat
      BY <1>5
    <3> QED BY <3>1, <3>2, FoldUnique
  <2>5. booked[u] = applied[u].size
    BY <1>1, <1>2, <1>3 DEF TableExact, Excepted
  <2> QED BY <1>2, <2>3, <2>4, <2>5
<1> QED BY <1>6, <1>7, <1>8, <1>9, <1>10, <1>14, <1>15 DEF LogIInv

-----------------------------------------------------------------------------
(* The stop and the restart *)

\* The compacted log holds sound records and folds to what the log did.
LEMMA CompactedFolds ==
  ASSUME DiskTyped, NEW l \in Compacted
  PROVE  l \in Seq(SoundRecords) /\ \A t \in Trades : FoldIs(l, t, Folded(t))
<1> DEFINE known == {t \in Trades : Present(t)}
           rec(t) == [trade |-> t, size |-> Folded(t).size, order |-> Folded(t).order,
                      evicted |-> {}]
           kept == {rec(t) : t \in known}
           m == Cardinality(known)
<1>1. /\ l \in [1..m -> kept] /\ Range(l) = kept
      /\ \A i, j \in DOMAIN l :
           i < j => LastNaming(l[i].trade) < LastNaming(l[j].trade)
  BY DEF Compacted
<1>2. m \in Nat
  <2>1. IsFiniteSet(known)
    BY TradesFinite, FS_Subset
  <2> QED BY <2>1, FS_CardinalityType
<1>3. ASSUME NEW t \in known
      PROVE  /\ rec(t) \in SoundRecords /\ LastNaming(t) \in Nat
             /\ EntryOf(rec(t), t) = Folded(t)
  <2>1. t \in Trades /\ Present(t)
    OBVIOUS
  <2>2. FoldIs(log, t, Folded(t)) /\ Decides(log, LastNaming(t), t) /\ Folded(t).known
    BY <2>1, FoldedIs
  <2>3. log \in Seq(SoundRecords)
    BY DEF DiskTyped
  <2>4. Folded(t) \in AppliedFills /\ (Folded(t).known => Folded(t).order \in OrderIds)
    BY <2>2, <2>3, FoldTyped
  <2>5. Folded(t).size \in Nat /\ Folded(t).order \in OrderIds
    BY <2>2, <2>4 DEF AppliedFills
  <2>6. rec(t) \in SoundRecords
    BY <2>1, <2>5 DEF SoundRecords, AppliedFillRecords
  <2>7. LastNaming(t) \in Nat
    BY <2>2, <2>3 DEF Decides
  <2>8. EntryOf(rec(t), t) = Folded(t)
    BY <2>1 DEF EntryOf, Folded
  <2> QED BY <2>6, <2>7, <2>8
<1>4. \A t \in known : rec(t).trade = t /\ rec(t).evicted = {}
  OBVIOUS
<1>5. \A r \in kept : \E t \in known : r = rec(t)
  OBVIOUS
<1>6. \A t \in known : rec(t) \in kept
  OBVIOUS
<1>7. \A t \in Trades : t \in known <=> Present(t)
  OBVIOUS
<1> HIDE DEF rec, kept, known, m
<1>8. l \in [1..m -> SoundRecords]
  BY <1>1, <1>3, <1>5
<1>9. l \in Seq(SoundRecords) /\ Len(l) = m /\ DOMAIN l = 1..m
  BY <1>2, <1>8, IsASeq
<1>10. \A i \in 1..m : \E t \in known : l[i] = rec(t)
  BY <1>1, <1>5
<1>11. ASSUME NEW t \in Trades PROVE FoldIs(l, t, Folded(t))
  <2>1. CASE t \notin known
    <3>1. \A i \in 1..Len(l) : ~Names(l[i], t)
      BY <1>4, <1>9, <1>10, <2>1 DEF Names
    <3>2. Folded(t) = NotApplied
      BY <1>7, <2>1 DEF Folded
    <3> QED BY <3>1, <3>2 DEF FoldIs
  <2>2. CASE t \in known
    <3>1. PICK i \in 1..m : l[i] = rec(t)
      BY <1>1, <1>6, <1>9, <2>2 DEF Range
    <3>2. Names(l[i], t)
      BY <1>4, <2>2, <3>1 DEF Names
    <3>3. ASSUME NEW j \in 1..m, Names(l[j], t) PROVE j <= i
      <4>1. PICK u \in known : l[j] = rec(u)
        BY <1>10
      <4>2. l[j].trade = t /\ l[i].trade = t
        BY <1>4, <2>2, <3>1, <3>3, <4>1 DEF Names
      <4>3. ~(i < j)
        BY <1>1, <1>3, <1>9, <2>2, <4>2
      <4> QED BY <1>2, <4>3
    <3>4. Decides(l, i, t)
      BY <1>9, <3>2, <3>3 DEF Decides
    <3>5. Folded(t) = EntryOf(l[i], t)
      BY <1>3, <2>2, <3>1
    <3> QED BY <1>9, <3>4, <3>5 DEF FoldIs
  <2> QED BY <2>1, <2>2
<1> QED BY <1>9, <1>11

\* The engine that restore_orders rebuilds satisfies the order table's part of
\* the invariant.
LEMMA RestoredCore ==
  ASSUME LogIInv, Restart
  PROVE  CoreInv'
<1> DEFINE kept == {o \in OrderIds : rows[o].status \in LiveStatuses}
<1>1. /\ orders' = [o \in OrderIds |-> IF o \in kept THEN rows[o] ELSE NotTracked]
      /\ byInternal' = RestoredKeys(kept) /\ liveIndex' = kept
      /\ sellTimes' = [k \in Tokens |-> {}] /\ UNCHANGED <<issued, now>>
  BY DEF Restart
<1>2. rows \in [OrderIds -> Orders] /\ RowsSound /\ now \in Nat /\ issued \subseteq OrderIds
  BY DEF LogIInv, DiskTyped, EngineInv, CoreInv, CoreTypeOK
<1>3. /\ NotTracked \in Orders /\ NotTracked.filled = 0 /\ NotTracked.at = 0
      /\ NotTracked.status = "Untracked"
  BY DEF NotTracked, Orders, Statuses
<1>4. \A o \in kept : /\ o \in OrderIds /\ orders'[o] = rows[o]
                      /\ rows[o].status \in LiveStatuses
                      /\ rows[o].filled <= SizeOf[o] /\ rows[o].at <= now /\ o \in issued
                      /\ byInternal[KeyOf[o]] = o
  BY <1>1, <1>2 DEF RowsSound, LiveStatuses
<1>5. \A o \in OrderIds : o \notin kept => orders'[o] = NotTracked
  BY <1>1
<1>6. kept \subseteq OrderIds
  OBVIOUS
<1> HIDE DEF kept
<1>7. byInternal' \in [InternalKeys -> OrderIds \cup {NoOrder}]
  <2>1. \A k \in InternalKeys : (\E o \in kept : KeyOf[o] = k)
           => (CHOOSE o \in kept : KeyOf[o] = k) \in OrderIds
    BY <1>6
  <2> QED BY <1>1, <2>1 DEF RestoredKeys
<1>8. ASSUME NEW o \in kept PROVE byInternal'[KeyOf[o]] = o
  <2>1. \A p \in kept : KeyOf[p] = KeyOf[o] => p = o
    BY <1>4
  <2>2. (CHOOSE p \in kept : KeyOf[p] = KeyOf[o]) = o
    BY <2>1
  <2>3. KeyOf[o] \in InternalKeys
    BY <1>4, OrderAttributes
  <2> QED BY <1>1, <2>2, <2>3 DEF RestoredKeys
<1>9. CoreTypeOK'
  <2>1. orders' \in [OrderIds -> Orders]
    BY <1>1, <1>2, <1>3
  <2>2. \A o \in OrderIds : orders'[o].filled <= SizeOf[o]
    BY <1>3, <1>4, <1>5, OrderAttributes
  <2> QED BY <1>1, <1>2, <1>6, <1>7, <2>1, <2>2 DEF CoreTypeOK
<1>10. \A o \in OrderIds : orders'[o].status \in LiveStatuses <=> o \in kept
  BY <1>3, <1>4, <1>5 DEF LiveStatuses
<1>11. LiveIndexExact'
  BY <1>1, <1>6, <1>10 DEF LiveIndexExact, Live
<1>12. KeyGuard'
  BY <1>8, <1>10 DEF KeyGuard, Live
<1>13. RowsIssued'
  BY <1>1, <1>2, <1>3, <1>4, <1>5 DEF RowsIssued, Tracked
<1>14. CompletedSellsStamped'
  BY <1>3, <1>4, <1>5 DEF CompletedSellsStamped, LiveStatuses
<1> QED BY <1>9, <1>11, <1>12, <1>13, <1>14 DEF CoreInv

\* A trade that no stop caught half-way is held as the log says.
LEMMA HeldAsLogged ==
  ASSUME LogIInv, NEW t \in Trades, t \notin Excepted, t \notin HalfWritten
  PROVE  held[t] = Folded(t).size
<1>1. /\ effects \in Seq(Effects) /\ DiskTyped /\ TableInLog /\ BookInLog
      /\ log \in Seq(SoundRecords)
  BY DEF LogIInv, DiskTyped
<1>2. FoldIs(log, t, Folded(t))
  BY <1>1, FoldedIs
<1>3. Untouched(t)
  <2> SUFFICES ASSUME NEW i \in 1..Len(effects), effects[i].trade = t
               PROVE  ToBook(i) /\ journal # <<>>
    BY DEF Untouched
  <2>1. i \in DOMAIN effects
    BY <1>1
  <2>2. ToBook(i)
    BY <2>1 DEF HalfWritten, Unsaved, ToBook
  <2>3. Folded(t).size # applied[t].size
    BY <2>1, <2>2 DEF HalfWritten, ToBook
  <2>4. ASSUME journal = <<>> PROVE FALSE
    <3>1. log \o journal = log
      BY <1>1, <2>4, ConcatEmptySeq
    <3>2. FoldIs(log, t, applied[t])
      BY <1>1, <3>1 DEF TableInLog
    <3>3. Len(log) \in Nat
      BY <1>1
    <3>4. Folded(t) = applied[t]
      BY <1>2, <3>2, <3>3, FoldUnique
    <3> QED BY <2>3, <3>4
  <2> QED BY <2>2, <2>4
<1> QED BY <1>1, <1>2, <1>3 DEF BookInLog

\* The stop and the restart keep the invariant.
LEMMA RestartKeeps ==
  ASSUME LogIInv, Restart
  PROVE  LogIInv'
<1>1. /\ DiskTyped /\ TableTypeOK /\ held \in [Trades -> Int] /\ effects \in Seq(Effects)
      /\ log \in Seq(SoundRecords)
  BY DEF LogIInv, DiskTyped, EngineInv
<1>2. /\ applied' = [t \in Trades |-> Folded(t)]
      /\ rows' = orders' /\ log' \in Compacted
      /\ journal' = <<>> /\ pending' = <<>> /\ draining' = <<>> /\ effects' = <<>>
      /\ booked' = held /\ torn' = torn \cup HalfWritten
      /\ UNCHANGED <<reported, disowned, held, cut>>
  BY DEF Restart
<1>3. CoreInv'
  BY RestoredCore
<1>4. /\ log' \in Seq(SoundRecords)
      /\ \A t \in Trades : FoldIs(log', t, Folded(t))
  BY <1>1, <1>2, CompactedFolds
<1>5. \A t \in Trades : Folded(t) \in AppliedFills /\ (Folded(t).known => Folded(t).order \in OrderIds)
  BY <1>1, FoldedIs, FoldTyped
<1>6. TableTypeOK'
  <2>1. older' \subseteq Trades \X Trades
    BY DEF Restart
  <2> QED BY <1>1, <1>2, <1>5, <2>1 DEF TableTypeOK
<1>7. BufferTypeOK'
  BY <1>2 DEF BufferTypeOK
<1>8. torn' \subseteq Trades
  <2>1. \A i \in DOMAIN effects : effects[i].trade \in Trades
    <3> SUFFICES ASSUME NEW i \in DOMAIN effects PROVE effects[i].trade \in Trades
      OBVIOUS
    <3>1. effects[i] \in Effects
      BY <1>1
    <3> QED BY <3>1 DEF Effects
  <2>2. HalfWritten \subseteq Trades
    BY <2>1 DEF HalfWritten, Unsaved
  <2> QED BY <1>1, <1>2, <2>2 DEF DiskTyped
<1>9. DiskTyped'
  <2>1. orders' \in [OrderIds -> Orders]
    BY <1>3 DEF CoreInv, CoreTypeOK
  <2> QED BY <1>1, <1>2, <1>4, <1>8, <2>1 DEF DiskTyped
<1>10. RowsSound' /\ RowsLag' /\ DrainSound'
  BY <1>2, <1>3 DEF RowsSound, RowsLag, DrainSound, CoreInv, CoreTypeOK, KeyGuard,
                   RowsIssued, Tracked, Live
<1>11. Chain'
  <2> DEFINE c == [i \in 1..1 |-> held]
  <2>1. c \in [1..(Len(effects') + 1) -> [Trades -> Int]] /\ c[1] = held
    BY <1>1, <1>2
  <2>2. PICK k \in [1..(Len(effects') + 1) -> [Trades -> Int]] : k[1] = held
    <3> HIDE DEF c
    <3> QED BY <2>1
  <2>3. /\ k[1] = held' /\ k[1] = booked'
        /\ 1..Len(effects') = {} /\ 1..(Len(effects') + 1) = {1}
    BY <1>2, <2>2
  <2>4. Leads(k)'
    BY <2>3 DEF Leads
  <2> QED BY <2>2, <2>4 DEF Chain
<1>12. ASSUME NEW t \in Trades, t \notin Excepted' PROVE held[t] = Folded(t).size
  <2>1. t \notin Excepted /\ t \notin HalfWritten
    BY <1>2, <1>12 DEF Excepted
  <2> QED BY <2>1, HeldAsLogged
<1>13. TableExact' /\ TableInLog'
  <2>1. TableExact'
    BY <1>2, <1>12 DEF TableExact
  <2>2. log' \o journal' = log'
    BY <1>2, <1>4, ConcatEmptySeq
  <2> QED BY <1>2, <1>4, <2>1, <2>2 DEF TableInLog
<1>14. BookInLog'
  <2> SUFFICES ASSUME NEW t \in Trades, t \notin Excepted', NEW e, FoldIs(log', t, e)
               PROVE  held'[t] = e.size
    BY DEF BookInLog
  <2>1. Len(log') \in Nat
    BY <1>4
  <2>2. e = Folded(t)
    BY <1>4, <2>1, FoldUnique
  <2> QED BY <1>2, <1>12, <2>2
<1> QED BY <1>3, <1>6, <1>7, <1>9, <1>10, <1>11, <1>13, <1>14 DEF LogIInv, EngineInv

-----------------------------------------------------------------------------
(* Theorems *)

\* The invariant holds at the start.
LEMMA LogInitIInv == LogInit => LogIInv
<1> SUFFICES ASSUME LogInit PROVE LogIInv
  OBVIOUS
<1>1. EngineInv
  BY InitIInv DEF LogInit, IInv, TableInv, BufferInv, EngineInv
<1>2. /\ rows = orders /\ log = <<>> /\ journal = <<>> /\ effects = <<>> /\ draining = <<>>
      /\ held = [t \in Trades |-> 0] /\ booked = held
      /\ applied = [t \in Trades |-> NotApplied] /\ cut = {} /\ torn = {}
  BY DEF LogInit, Init
<1>3. DiskTyped
  BY <1>1, <1>2 DEF DiskTyped, EngineInv, CoreInv, CoreTypeOK
<1>4. RowsSound /\ RowsLag /\ DrainSound
  BY <1>1, <1>2 DEF RowsSound, RowsLag, DrainSound, EngineInv, CoreInv, CoreTypeOK, KeyGuard,
                    RowsIssued, Tracked, Live
<1>5. Chain
  <2> DEFINE c == [i \in 1..1 |-> held]
  <2>1. c \in [1..(Len(effects) + 1) -> [Trades -> Int]] /\ c[1] = held
    BY <1>2
  <2> HIDE DEF c
  <2>2. Leads(c)
    BY <1>2, <2>1 DEF Leads
  <2> QED BY <2>1, <2>2 DEF Chain
<1>6. TableExact /\ NotApplied.size = 0
  BY <1>2 DEF TableExact, NotApplied
<1>7. log \o journal = <<>>
  BY <1>2
<1>8. TableInLog
  BY <1>2, <1>7, FoldEmpty DEF TableInLog
<1>9. BookInLog
  BY <1>2, <1>6 DEF BookInLog, FoldIs
<1> QED BY <1>1, <1>3, <1>4, <1>5, <1>6, <1>8, <1>9 DEF LogIInv

\* Every step keeps it.
LEMMA LogNextIInv == LogIInv /\ [LogNext]_logVars => LogIInv'
<1> SUFFICES ASSUME LogIInv, [LogNext]_logVars PROVE LogIInv'
  OBVIOUS
<1>1. CASE \E o \in OrderIds : OrderOp(o)
  BY <1>1, OrderOpKeeps
<1>2. CASE \E f \in Fills : Ingest(f)
  BY <1>2, IngestKeeps
<1>3. CASE Drain \/ DrainNext
  BY <1>3, DrainKeeps, DrainNextKeeps
<1>4. CASE SavePositions \/ SaveRow \/ SaveApplied
  BY <1>4, SavePositionsKeeps, SaveRowKeeps, SaveAppliedKeeps
<1>5. CASE Restart
  BY <1>5, RestartKeeps
<1>6. CASE LogClockAdvances
  BY <1>6, LogClockKeeps
<1>7. CASE UNCHANGED logVars
  BY <1>7, LogStutter
<1> QED BY <1>1, <1>2, <1>3, <1>4, <1>5, <1>6, <1>7 DEF LogNext

\* Over any run of the engine with its files, any number of stops and restarts
\* included, the orders and their rows, the table and its log and the position
\* book stay in step as LogIInv says.
THEOREM LogInvariance == LogSpec => []LogIInv
  BY LogInitIInv, LogNextIInv, PTL DEF LogSpec

\* Every variable has its type, what is read back from the files included.
THEOREM LogTypeCorrect == LogSpec => []LogTypeOK
<1>1. LogIInv => LogTypeOK
  <2> SUFFICES ASSUME LogIInv PROVE LogTypeOK
    OBVIOUS
  <2>1. TypeOK
    BY DEF LogIInv, EngineInv, CoreInv, TypeOK
  <2>2. log \in Seq(AppliedFillRecords)
    <3>1. SoundRecords \subseteq AppliedFillRecords /\ log \in Seq(SoundRecords)
      BY DEF SoundRecords, LogIInv, DiskTyped
    <3> QED BY <3>1, SeqMonotonic
  <2> QED BY <2>1, <2>2 DEF LogTypeOK, LogIInv, DiskTyped
<1> QED BY <1>1, LogInvariance, PTL

\* Between two handlers the order log holds exactly the engine's rows: a
\* restart loses no status change and no filled size.
THEOREM RowsAreCurrent == LogSpec => []RowsCurrent
<1>1. LogIInv => RowsCurrent
  BY RowsAtRest DEF RowsCurrent, Busy
<1> QED BY <1>1, LogInvariance, PTL

\* No key has two live orders and the live index is exact, restarts included:
\* the by_internal that restore rebuilds from the rows guards every key with a
\* live order.
THEOREM OneLivePerKeyRestored == LogSpec => []OneLivePerKeyAcrossRestart
<1>1. LogIInv => OneLivePerKeyAcrossRestart
  <2> SUFFICES ASSUME LogIInv PROVE OneLivePerKeyAcrossRestart
    OBVIOUS
  <2>1. LiveIndexExact /\ KeyGuard
    BY DEF LogIInv, EngineInv, CoreInv
  <2>2. OneLivePerKey
    <3> SUFFICES ASSUME NEW o \in OrderIds, NEW p \in OrderIds,
                        Live(o), Live(p), KeyOf[o] = KeyOf[p]
                 PROVE  o = p
      BY DEF OneLivePerKey
    <3>1. byInternal[KeyOf[o]] = o /\ byInternal[KeyOf[p]] = p
      BY <2>1 DEF KeyGuard
    <3> QED BY <3>1
  <2> QED BY <2>1, <2>2 DEF OneLivePerKeyAcrossRestart
<1> QED BY <1>1, LogInvariance, PTL

\* Whenever no handler is running the position book holds under a trade what
\* the applied-fill table says was applied under it, after any re-deliveries,
\* rollbacks, stops and restarts, but for the trades the table disowned, an
\* order was too small for or a stop caught between two writes.
THEOREM TableIsBook == LogSpec => []TableMatchesBook
<1>1. LogIInv => TableMatchesBook
  <2> SUFFICES ASSUME LogIInv, effects = <<>>, NEW t \in Trades, t \notin Excepted
               PROVE  held[t] = applied[t].size
    BY DEF TableMatchesBook, Busy, Excepted
  <2>1. PICK c \in [1..(Len(effects) + 1) -> [Trades -> Int]] : Leads(c)
    BY DEF LogIInv, Chain
  <2>2. c[1] = held /\ c[1][t] = booked[t]
    BY <2>1 DEF Leads
  <2>3. booked[t] = applied[t].size
    BY DEF LogIInv, TableExact
  <2> QED BY <2>2, <2>3
<1> QED BY <1>1, LogInvariance, PTL

=============================================================================
