--------------------------- MODULE Bridge_proofs ----------------------------
(***************************************************************************)
(* Proofs about module Bridge: the types, and that no interleaving of the  *)
(* loop with the core, the venue and a crash posts an order twice, ends an *)
(* order that still rests, or cancels one the core manages.                *)
(***************************************************************************)
EXTENDS Bridge, SequenceTheorems, TLAPS

-----------------------------------------------------------------------------
(* The parts of the inductive invariant *)

\* A POST is under way only while the placements are handled.
PostSound ==
  post # NoPost => phase = "places" /\ post.order \in Orders /\ post.order \in posted

\* An order that was posted is in flight, or the drain does not show it again.
PostedSound ==
  \A o \in posted :
    /\ row[o].status # "New"
    /\ post.order # o => o \notin PendingUnbound
    /\ phase = "places" => o \notin work
BatchSound ==
  phase = "places" => \A o \in work : o \in Orders /\ row[o].status # "New"

\* The log and the table agree on what a restart needs to manage an order.
DiskSound ==
  \A o \in Orders : disk[o].status = row[o].status /\ disk[o].bound = row[o].bound

\* Only ids the venue has given out are bound.
BoundSound ==
  /\ \A o \in Orders : row[o].bound <= Len(book)
  /\ post.id <= Len(book)

\* While a sweep works off its snapshot, a managed order that rests is in the
\* snapshot, and none of the ids it is about to cancel is managed.
SweepSound ==
  /\ phase = "orphans" =>
       \A o \in Orders : Resting(row[o].bound) => row[o].bound \in snap.open
  /\ phase \in {"orphans", "startup_orphans"} => work \cap KnownVenueIds = {}

IInv ==
  /\ TypeOK /\ PostSound /\ PostedSound /\ BatchSound /\ DiskSound
  /\ BoundSound /\ SweepSound

-----------------------------------------------------------------------------
(* The rows a step leaves *)

\* The fields of a row.
LEMMA RowFields ==
  ASSUME TypeOK, NEW o \in Orders
  PROVE  /\ row[o].status \in Statuses /\ row[o].bound \in {Unbound} \cup VenueIds
         /\ row[o].uncertain \in BOOLEAN /\ row[o].armed \in BOOLEAN
         /\ row[o] = [status |-> row[o].status, bound |-> row[o].bound,
                      uncertain |-> row[o].uncertain, armed |-> row[o].armed]
  BY DEF TypeOK, Rows

\* Rows are records, and stay so when a field changes.
LEMMA RowWith ==
  ASSUME NEW r \in Rows
  PROVE  /\ \A s \in Statuses :
              LET q == [r EXCEPT !.status = s]
              IN q \in Rows /\ q.status = s /\ q.bound = r.bound /\ q.uncertain = r.uncertain
         /\ \A s \in Statuses, v \in {Unbound} \cup VenueIds :
              LET q == [r EXCEPT !.bound = v, !.status = s]
              IN q \in Rows /\ q.status = s /\ q.bound = v /\ q.uncertain = r.uncertain
         /\ LET q == [r EXCEPT !.uncertain = TRUE]
            IN q \in Rows /\ q.status = r.status /\ q.bound = r.bound /\ q.uncertain
         /\ LET q == [r EXCEPT !.armed = TRUE]
            IN q \in Rows /\ q.status = r.status /\ q.bound = r.bound /\ q.uncertain = r.uncertain
<1>1. ASSUME NEW s \in Statuses
      PROVE  LET q == [r EXCEPT !.status = s]
             IN q \in Rows /\ q.status = s /\ q.bound = r.bound /\ q.uncertain = r.uncertain
  BY DEF Rows
<1>2. ASSUME NEW s \in Statuses, NEW v \in {Unbound} \cup VenueIds
      PROVE  LET q == [r EXCEPT !.bound = v, !.status = s]
             IN q \in Rows /\ q.status = s /\ q.bound = v /\ q.uncertain = r.uncertain
  BY DEF Rows
<1>3. LET q == [r EXCEPT !.uncertain = TRUE]
      IN q \in Rows /\ q.status = r.status /\ q.bound = r.bound /\ q.uncertain
  BY DEF Rows
<1>4. LET q == [r EXCEPT !.armed = TRUE]
      IN q \in Rows /\ q.status = r.status /\ q.bound = r.bound /\ q.uncertain = r.uncertain
  BY DEF Rows
<1> QED
  BY <1>1, <1>2, <1>3, <1>4

\* What a row becomes when only its status changes.
LEMMA WithStatus ==
  ASSUME TypeOK, NEW o \in Orders, NEW s \in Statuses
  PROVE  LET r == [row[o] EXCEPT !.status = s]
         IN r \in Rows /\ r.status = s /\ r.bound = row[o].bound /\ r.uncertain = row[o].uncertain
  BY RowWith DEF TypeOK

\* How far one step of a running process changes the row r of o to s: an id is
\* bound for good, a flag stays, an order that ended never comes back.
RowStep(o, r, s) ==
  /\ s.bound = r.bound \/ (post # NoPost /\ post.order = o /\ post.id # Unbound /\ s.bound = post.id)
  /\ r.uncertain => s.uncertain
  /\ s.status = "New" => r.status = "New"
  /\ s.status \in LiveStatuses => r.status \in LiveStatuses \cup {"New"}

RowsStep ==
  /\ row' \in [Orders -> Rows] /\ disk' \in [Orders -> Rows]
  /\ DiskSound'
  /\ \A o \in Orders : RowStep(o, row[o], row'[o])

\* Every row may stay as it is.
LEMMA RowsStay ==
  ASSUME TypeOK, DiskSound, UNCHANGED <<row, disk>>
  PROVE  RowsStep
  BY DEF TypeOK, DiskSound, RowsStep, RowStep

\* One row changes, on disk as in memory.
LEMMA EmittedRows ==
  ASSUME TypeOK, DiskSound, NEW o \in Orders, NEW r \in Rows, Emitted(o, r),
         RowStep(o, row[o], r)
  PROVE  RowsStep /\ row'[o] = r /\ \A x \in Orders \ {o} : row'[x] = row[x]
<1>1. row' \in [Orders -> Rows] /\ disk' \in [Orders -> Rows]
  BY DEF Emitted, TypeOK
<1>2. \A x \in Orders : row'[x] = (IF x = o THEN r ELSE row[x])
                        /\ disk'[x] = (IF x = o THEN r ELSE disk[x])
  BY DEF Emitted, TypeOK
<1>3. DiskSound'
  BY <1>2 DEF DiskSound
<1>4. \A x \in Orders : RowStep(x, row[x], row'[x])
  BY <1>2 DEF RowStep
<1> QED
  BY <1>1, <1>2, <1>3, <1>4 DEF RowsStep

\* An order ends.
LEMMA EndedRows ==
  ASSUME TypeOK, DiskSound, NEW o \in Orders, Emitted(o, Ended(o))
  PROVE  RowsStep /\ row'[o].status = "Ended" /\ row'[o].bound = row[o].bound
<1>1. "Ended" \in Statuses /\ "Ended" # "New" /\ "Ended" \notin LiveStatuses
  BY DEF Statuses, LiveStatuses
<1>2. /\ Ended(o) \in Rows /\ Ended(o).status = "Ended" /\ Ended(o).bound = row[o].bound
      /\ Ended(o).uncertain = row[o].uncertain
  BY <1>1, WithStatus DEF Ended
<1>3. RowStep(o, row[o], Ended(o))
  BY <1>1, <1>2 DEF RowStep
<1> QED
  BY <1>2, <1>3, EmittedRows

\* An order moves to another live status.
LEMMA LiveRows ==
  ASSUME TypeOK, DiskSound, NEW o \in Orders, NEW s \in LiveStatuses,
         Live(o) \/ row[o].status = "New", Emitted(o, [row[o] EXCEPT !.status = s])
  PROVE  RowsStep
<1> DEFINE r == [row[o] EXCEPT !.status = s]
<1>1. s \in Statuses /\ s # "New"
  BY DEF Statuses, LiveStatuses
<1>2. r \in Rows /\ r.status = s /\ r.bound = row[o].bound /\ r.uncertain = row[o].uncertain
  BY <1>1, WithStatus
<1> HIDE DEF r
<1>3. RowStep(o, row[o], r)
  BY <1>1, <1>2 DEF RowStep, Live
<1> QED
  BY <1>2, <1>3, EmittedRows DEF r

\* cancel ends one order's row and leaves the others alone.
LEMMA CancelRows ==
  ASSUME TypeOK, DiskSound, NEW o \in Orders, Cancel(o)
  PROVE  RowsStep
  BY EndedRows DEF Cancel

\* place_pending adds one unbound Pending row.
LEMMA PlaceRows ==
  ASSUME TypeOK, DiskSound, NEW o \in Orders, Place(o)
  PROVE  RowsStep
  BY LiveRows DEF Place, LiveStatuses

\* The maker ends and its taker is registered.
LEMMA EscalateRows ==
  ASSUME TypeOK, DiskSound, NEW o \in Orders, NEW p \in Orders, Escalate(o, p)
  PROVE  RowsStep
<1> DEFINE r == [row[p] EXCEPT !.status = "Pending"]
<1>1. o # p /\ row[p].status = "New"
  BY DEF Escalate, Live, LiveStatuses
<1>2. {"Ended", "Pending"} \subseteq Statuses /\ "Ended" \notin LiveStatuses \cup {"New"} /\ "Pending" # "New"
  BY DEF Statuses, LiveStatuses
<1>3. /\ Ended(o) \in Rows /\ Ended(o).status = "Ended" /\ Ended(o).bound = row[o].bound
      /\ Ended(o).uncertain = row[o].uncertain
  BY <1>2, WithStatus DEF Ended
<1>4. r \in Rows /\ r.status = "Pending" /\ r.bound = row[p].bound /\ r.uncertain = row[p].uncertain
  BY <1>2, WithStatus
<1>5. row' = [row EXCEPT ![o] = Ended(o), ![p] = r] /\ disk' = [disk EXCEPT ![o] = Ended(o), ![p] = r]
  <2>1. row' = [row EXCEPT ![o] = Ended(o), ![p] = r]
    BY <1>1 DEF Escalate, TypeOK
  <2>2. row'[p] = r
    BY <2>1 DEF TypeOK
  <2> QED
    BY <2>1, <2>2 DEF Escalate
<1> HIDE DEF r
<1>6. row' \in [Orders -> Rows] /\ disk' \in [Orders -> Rows]
  BY <1>3, <1>4, <1>5 DEF TypeOK
<1>7. \A x \in Orders : /\ row'[x] = IF x = o THEN Ended(o) ELSE IF x = p THEN r ELSE row[x]
                        /\ disk'[x] = IF x = o THEN Ended(o) ELSE IF x = p THEN r ELSE disk[x]
  BY <1>1, <1>5 DEF TypeOK
<1>8. DiskSound'
  BY <1>7 DEF DiskSound
<1>9. \A x \in Orders : RowStep(x, row[x], row'[x])
  BY <1>1, <1>2, <1>3, <1>4, <1>7 DEF RowStep
<1> QED
  BY <1>6, <1>8, <1>9 DEF RowsStep

\* The answer to a POST binds its id.
LEMMA AcceptedRows ==
  ASSUME TypeOK, PostSound, DiskSound, OnOrderAccepted
  PROVE  RowsStep /\ row'[post.order].bound # Unbound
<1> DEFINE o == post.order
           s == IF row[o].status = "Pending" THEN "Live" ELSE row[o].status
           r == [row[o] EXCEPT !.bound = post.id, !.status = IF @ = "Pending" THEN "Live" ELSE @]
<1>1. o \in Orders /\ post.id \in VenueIds /\ post.id # Unbound
  BY DEF OnOrderAccepted, PostSound, TypeOK
<1>2. r = [row[o] EXCEPT !.bound = post.id, !.status = s]
  BY <1>1, RowFields
<1>3. s \in Statuses /\ (s = "New" => row[o].status = "New")
      /\ (s \in LiveStatuses => row[o].status \in LiveStatuses)
  BY <1>1, RowFields DEF Statuses, LiveStatuses
<1>4. Emitted(o, r) /\ post # NoPost
  BY DEF OnOrderAccepted
<1> HIDE DEF s, r
<1>5. r \in Rows /\ r.bound = post.id /\ r.status = s /\ r.uncertain = row[o].uncertain
  <2>1. row[o] \in Rows
    BY <1>1 DEF TypeOK
  <2>2. post.id \in {Unbound} \cup VenueIds
    BY <1>1
  <2>3. \A t \in Statuses, v \in {Unbound} \cup VenueIds :
          LET q == [row[o] EXCEPT !.bound = v, !.status = t]
          IN q \in Rows /\ q.status = t /\ q.bound = v /\ q.uncertain = row[o].uncertain
    BY <2>1, RowWith
  <2>4. LET q == [row[o] EXCEPT !.bound = post.id, !.status = s]
        IN q \in Rows /\ q.status = s /\ q.bound = post.id /\ q.uncertain = row[o].uncertain
    BY <1>3, <2>2, <2>3
  <2> QED
    BY <1>2, <2>4
<1>6. RowStep(o, row[o], r)
  BY <1>1, <1>3, <1>4, <1>5 DEF RowStep
<1> QED
  BY <1>1, <1>4, <1>5, <1>6, EmittedRows

\* A rejected POST ends the row of the order it was for.
LEMMA RejectedRows ==
  ASSUME TypeOK, PostSound, DiskSound, OnOrderRejected
  PROVE  RowsStep /\ row'[post.order].status = "Ended"
  BY EndedRows DEF OnOrderRejected, PostSound

\* A timeout flags a live order, in memory only.
LEMMA TimeoutRows ==
  ASSUME TypeOK, PostSound, DiskSound, OnPlaceTimeout
  PROVE  RowsStep /\ (row'[post.order].uncertain \/ row'[post.order].status \notin LiveStatuses)
<1> DEFINE o == post.order
           r == [row[o] EXCEPT !.uncertain = TRUE]
<1>1. o \in Orders /\ disk' = disk
  BY DEF OnPlaceTimeout, PostSound
<1>2. CASE ~Live(o)
  <2>1. row' = row
    BY <1>2 DEF OnPlaceTimeout
  <2> QED
    BY <1>1, <1>2, <2>1, RowsStay DEF Live
<1>3. CASE Live(o)
  <2>1. row' = [row EXCEPT ![o] = r]
    BY <1>3 DEF OnPlaceTimeout
  <2>3. r \in Rows /\ r.status = row[o].status /\ r.bound = row[o].bound /\ r.uncertain
    BY <1>1, RowWith DEF TypeOK
  <2> HIDE DEF r
  <2>4. row' \in [Orders -> Rows] /\ disk' \in [Orders -> Rows]
    BY <1>1, <2>1, <2>3 DEF TypeOK
  <2>5. \A x \in Orders : row'[x] = IF x = o THEN r ELSE row[x]
    BY <1>1, <2>1 DEF TypeOK
  <2>6. DiskSound'
    BY <1>1, <2>3, <2>5 DEF DiskSound
  <2>7. \A x \in Orders : RowStep(x, row[x], row'[x])
    BY <1>1, <2>3, <2>5 DEF RowStep
  <2> QED
    BY <1>1, <2>3, <2>4, <2>5, <2>6, <2>7 DEF RowsStep
<1> QED
  BY <1>2, <1>3

\* An event of the venue.
LEMMA EventRows ==
  ASSUME TypeOK, DiskSound, NEW e \in Events, DeliverEvent(e)
  PROVE  RowsStep
<1>1. CASE UNCHANGED <<row, disk>>
  BY <1>1, RowsStay
<1>2. ASSUME NEW o \in Orders, Live(o), e[1] = "live",
             LET r == [row[o] EXCEPT !.status = IF @ = "Pending" THEN "Live" ELSE @]
             IN /\ disk' = [disk EXCEPT ![o] = r]
                /\ row' = [row EXCEPT ![o] = [r EXCEPT !.armed = TRUE]]
      PROVE  RowsStep
  <2> DEFINE s == IF row[o].status = "Pending" THEN "Live" ELSE row[o].status
             r == [row[o] EXCEPT !.status = IF @ = "Pending" THEN "Live" ELSE @]
             q == [r EXCEPT !.armed = TRUE]
  <2>1. r = [row[o] EXCEPT !.status = s]
    BY RowFields
  <2>2. s \in LiveStatuses /\ s \in Statuses /\ s # "New"
    BY <1>2 DEF Live, Statuses, LiveStatuses
  <2>3. disk' = [disk EXCEPT ![o] = r] /\ row' = [row EXCEPT ![o] = q]
    BY <1>2
  <2> HIDE DEF s, r
  <2>4. r \in Rows /\ r.bound = row[o].bound /\ r.uncertain = row[o].uncertain /\ r.status = s
    BY <2>1, <2>2, WithStatus
  <2>5. q \in Rows /\ q.bound = row[o].bound /\ q.uncertain = row[o].uncertain /\ q.status = s
    BY <2>4, RowWith
  <2> HIDE DEF q
  <2>6. row' \in [Orders -> Rows] /\ disk' \in [Orders -> Rows]
    BY <2>3, <2>4, <2>5 DEF TypeOK
  <2>7. \A x \in Orders : row'[x] = (IF x = o THEN q ELSE row[x]) /\ disk'[x] = (IF x = o THEN r ELSE disk[x])
    BY <2>3 DEF TypeOK
  <2>8. DiskSound'
    BY <2>4, <2>5, <2>7 DEF DiskSound
  <2>9. \A x \in Orders : RowStep(x, row[x], row'[x])
    BY <1>2, <2>2, <2>5, <2>7 DEF RowStep, Live
  <2> QED
    BY <2>6, <2>8, <2>9 DEF RowsStep
<1>3. ASSUME NEW o \in Orders, Live(o), Emitted(o, [row[o] EXCEPT !.status = "PartiallyFilled"])
      PROVE  RowsStep
  BY <1>3, LiveRows DEF LiveStatuses
<1>4. ASSUME NEW o \in Orders, Emitted(o, Ended(o))
      PROVE  RowsStep
  BY <1>4, EndedRows
<1>5. CASE \E o \in Resolved(e) : AfterEvent(e, o)
  <2>1. PICK o \in Orders : AfterEvent(e, o)
    BY <1>5 DEF Resolved, Named
  <2> QED
    BY <1>1, <1>2, <1>3, <1>4, <2>1 DEF AfterEvent
<1> QED
  BY <1>1, <1>5 DEF DeliverEvent

\* A sweep ends ghosts and overdue placements and applies missed fills.
LEMMA ReconciledRows ==
  ASSUME TypeOK, DiskSound, OnReconcile
  PROVE  RowsStep /\ \A o \in Orders : row'[o].bound = row[o].bound
<1>1. PICK overdue \in SUBSET {o \in Orders : Unanswered(o)} :
        row' = [o \in Orders |-> Reconciled(o, overdue)]
  BY DEF OnReconcile
<1>2. disk' = [o \in Orders |-> IF row'[o] = row[o] THEN disk[o] ELSE row'[o]]
  BY DEF OnReconcile
<1>3. ASSUME NEW o \in Orders
      PROVE  /\ row'[o] \in Rows /\ row'[o].bound = row[o].bound
             /\ row'[o].uncertain = row[o].uncertain
             /\ row'[o].status = row[o].status \/ row'[o].status = "Ended"
                \/ (row'[o].status = "PartiallyFilled" /\ Live(o))
  <2>1. {"Ended", "PartiallyFilled"} \subseteq Statuses
    BY DEF Statuses, LiveStatuses
  <2>2. row'[o] = Ended(o) \/ (row'[o] = [row[o] EXCEPT !.status = "PartiallyFilled"] /\ Live(o))
        \/ row'[o] = row[o]
    BY <1>1 DEF Reconciled
  <2>3. row[o] \in Rows
    BY DEF TypeOK
  <2> QED
    <3>1. CASE row'[o] = Ended(o)
      BY <2>1, <3>1, WithStatus DEF Ended
    <3>2. CASE row'[o] = [row[o] EXCEPT !.status = "PartiallyFilled"] /\ Live(o)
      BY <2>1, <3>2, WithStatus
    <3>3. CASE row'[o] = row[o]
      BY <2>3, <3>3
    <3> QED
      BY <2>2, <3>1, <3>2, <3>3
<1>4. row' \in [Orders -> Rows]
  BY <1>1, <1>3
<1>5. disk' \in [Orders -> Rows]
  BY <1>2, <1>3 DEF TypeOK
<1>6. DiskSound'
  BY <1>2 DEF DiskSound
<1>7. \A o \in Orders : RowStep(o, row[o], row'[o])
  <2>1. "PartiallyFilled" # "New" /\ "Ended" \notin LiveStatuses \cup {"New"}
    BY DEF LiveStatuses
  <2> QED
    BY <1>3, <2>1 DEF RowStep, Live
<1> QED
  BY <1>3, <1>4, <1>5, <1>6, <1>7 DEF RowsStep

\* The live rows of the log come back.
LEMMA RestartRows ==
  ASSUME TypeOK, DiskSound, Restart
  PROVE  /\ row' \in [Orders -> Rows] /\ disk' \in [Orders -> Rows] /\ DiskSound'
         /\ \A o \in Orders : Live(o) => row'[o].bound = row[o].bound
         /\ \A o \in Orders : row'[o].bound \in {row[o].bound, Unbound}
<1>1. ASSUME NEW o \in Orders
      PROVE  /\ row'[o] \in Rows
             /\ row[o].status \in LiveStatuses => row'[o].bound = row[o].bound
             /\ row'[o].bound \in {row[o].bound, Unbound}
  <2>1. row'[o] = IF disk[o].status \in LiveStatuses THEN disk[o]
                  ELSE [NewRow EXCEPT !.status = disk[o].status]
    BY DEF Restart
  <2>2. disk[o] \in Rows /\ disk[o].status = row[o].status /\ disk[o].bound = row[o].bound
        /\ disk[o].status \in Statuses
    BY DEF TypeOK, DiskSound, Rows
  <2>3. NewRow \in Rows /\ NewRow.bound = Unbound
    BY DEF NewRow, Rows, Statuses
  <2>4. /\ [NewRow EXCEPT !.status = disk[o].status] \in Rows
        /\ [NewRow EXCEPT !.status = disk[o].status].bound = Unbound
    BY <2>2, <2>3, RowWith
  <2> QED
    BY <2>1, <2>2, <2>4
<1>2. row' = [o \in Orders |-> row'[o]] /\ disk' = row'
  BY DEF Restart
<1>3. row' \in [Orders -> Rows]
  BY <1>1, <1>2
<1> QED
  BY <1>1, <1>2, <1>3 DEF DiskSound, Live

\* Every step of a running process.
LEMMA RowsMove ==
  ASSUME TypeOK, PostSound, DiskSound, [Next]_vars, ~Restart
  PROVE  RowsStep
<1> USE DEF coreVars, loopVars, venueVars, counters, history
<1>1. CASE UNCHANGED vars
  BY <1>1, RowsStay DEF vars
<1>2. CASE CoreStep
  BY <1>2, PlaceRows, CancelRows, EscalateRows DEF CoreStep
<1>3. CASE VenueStep
  BY <1>3, RowsStay DEF VenueStep, LateAccept, Execute, Accept
<1>4. ASSUME NEW v \in VenueIds, ForwardCancel(v) \/ CancelOrphan(v)
      PROVE  RowsStep
  BY <1>4, RowsStay DEF ForwardCancel, CancelOrphan
<1>5. ASSUME NEW o \in Orders, SendPost(o)
      PROVE  RowsStep
  BY <1>5, RowsStay DEF SendPost
<1>6. CASE \/ TakePendingCancels \/ TakePendingOrders \/ EventsDone \/ TakeSnapshot
           \/ SnapshotFails \/ StartupDone
  BY <1>6, RowsStay DEF TakePendingCancels, TakePendingOrders, EventsDone, TakeSnapshot,
                        SnapshotFails, StartupDone
<1>7. CASE OnOrderAccepted \/ OnOrderRejected \/ OnPlaceTimeout \/ OnReconcile
  BY <1>7, AcceptedRows, RejectedRows, TimeoutRows, ReconciledRows
<1>8. ASSUME NEW e \in Events, DeliverEvent(e)
      PROVE  RowsStep
  BY <1>8, EventRows
<1> QED
  BY <1>1, <1>2, <1>3, <1>4, <1>5, <1>6, <1>7, <1>8 DEF Next, LoopStep

-----------------------------------------------------------------------------
(* The venue's book *)

Slots == [order : Orders, resting : BOOLEAN, part : BOOLEAN]

\* The book only grows, and an order that left it does not come back.
BookStep ==
  /\ book' \in Seq(Slots) /\ Len(book') <= MaxPosts /\ Len(book) <= Len(book')
  /\ \A v \in 1..Len(book) : Resting(v)' => Resting(v)

\* A step that leaves the venue's book alone is a step of the book.
LEMMA BookStays ==
  ASSUME TypeOK, book' = book
  PROVE  BookStep
  BY DEF TypeOK, BookStep, Slots, Resting

\* One order of the book changes.
LEMMA BookWith ==
  ASSUME TypeOK, NEW v, NEW b, v \in 1..Len(book) => b \in Slots /\ (b.resting => book[v].resting),
         book' = [book EXCEPT ![v] = b]
  PROVE  BookStep /\ Len(book') = Len(book) /\ \A w \in 1..Len(book) : w # v => book'[w] = book[w]
<1>1. book \in Seq(Slots) /\ Len(book) \in Nat /\ Len(book) <= MaxPosts /\ DOMAIN book = 1..Len(book)
  BY DEF TypeOK, Slots
<1>2. CASE v \notin 1..Len(book)
  <2>1. book' = book
    BY <1>1, <1>2
  <2> QED
    BY <2>1, BookStays
<1>3. CASE v \in 1..Len(book)
  <2>1. book' \in Seq(Slots) /\ Len(book') = Len(book)
        /\ \A w \in 1..Len(book) : book'[w] = IF w = v THEN b ELSE book[w]
    BY <1>1, <1>3, ExceptSeq
  <2> QED
    BY <1>1, <1>3, <2>1 DEF BookStep, Resting
<1> QED
  BY <1>2, <1>3

\* An order is accepted.
LEMMA BookAccepts ==
  ASSUME TypeOK, NEW o \in Orders, Len(book) < MaxPosts, book' = Accepted(o)
  PROVE  BookStep /\ Len(book') = Len(book) + 1
<1>1. book \in Seq(Slots) /\ Len(book) \in Nat /\ MaxPosts \in Nat
  BY BridgeAssumption DEF TypeOK, Slots
<1>2. [order |-> o, resting |-> TRUE, part |-> FALSE] \in Slots
  BY DEF Slots
<1>3. book' \in Seq(Slots) /\ Len(book') = Len(book) + 1 /\ \A w \in 1..Len(book) : book'[w] = book[w]
  BY <1>1, <1>2, AppendProperties DEF Accepted
<1> QED
  BY <1>1, <1>3 DEF BookStep, Resting

\* The two ways a slot of the venue's book changes keep its type; neither makes
\* a slot rest again.
LEMMA SlotWith ==
  ASSUME NEW b \in Slots
  PROVE  /\ [b EXCEPT !.part = TRUE] \in Slots /\ [b EXCEPT !.part = TRUE].resting = b.resting
         /\ [b EXCEPT !.resting = FALSE] \in Slots /\ ~[b EXCEPT !.resting = FALSE].resting
  BY DEF Slots

\* A DELETE takes one order off the book.
LEMMA BookDeletes ==
  ASSUME TypeOK, NEW v, DeleteSucceeds(v)
  PROVE  BookStep /\ \A w \in 1..Len(book) : w # v => (Resting(w) => Resting(w)')
<1>1. book' = [book EXCEPT ![v].resting = FALSE]
  BY DEF DeleteSucceeds
<1>2. v \in 1..Len(book) => book[v] \in Slots
  <2>1. book \in Seq(Slots)
    BY DEF TypeOK, Slots
  <2> QED
    BY <2>1
<1> DEFINE b == [book[v] EXCEPT !.resting = FALSE]
<1>3. v \in 1..Len(book) => b \in Slots /\ ~b.resting
  BY <1>2, SlotWith
<1>4. book' = [book EXCEPT ![v] = b]
  BY <1>1
<1> HIDE DEF b
<1>5. BookStep /\ Len(book') = Len(book) /\ \A w \in 1..Len(book) : w # v => book'[w] = book[w]
  <2>1. v \in 1..Len(book) => b \in Slots /\ (b.resting => book[v].resting)
    BY <1>3
  <2> QED
    BY <1>4, <2>1, BookWith
<1> QED
  BY <1>5 DEF Resting

\* Whatever happens, the venue's book only grows at its end, and an order that
\* stopped resting stays so.
LEMMA BookMoves ==
  ASSUME TypeOK, PostSound, [Next]_vars
  PROVE  BookStep
<1> USE DEF coreVars, loopVars, venueVars, counters, history
<1>1. CASE UNCHANGED vars \/ Restart
  BY <1>1, BookStays DEF vars, Restart
<1>2. CASE CoreStep
  BY <1>2, BookStays DEF CoreStep, Place, Cancel, Escalate
<1>3. ASSUME NEW o \in Orders, LateAccept(o)
      PROVE  BookStep
  BY <1>3, BookAccepts DEF LateAccept
<1>4. CASE Accept
  BY <1>4, BookAccepts DEF Accept, PostSound
<1>5. ASSUME NEW v \in VenueIds, Execute(v)
      PROVE  BookStep
  <2>0. v \in 1..Len(book) /\ book \in Seq(Slots)
    BY <1>5 DEF Execute, Resting, TypeOK, Slots
  <2>1. v \in 1..Len(book) /\ book[v] \in Slots
    BY <2>0
  <2>2. \/ book' = [book EXCEPT ![v] = [book[v] EXCEPT !.part = TRUE]]
        \/ book' = [book EXCEPT ![v] = [book[v] EXCEPT !.resting = FALSE]]
    BY <1>5 DEF Execute
  <2> DEFINE b == [book[v] EXCEPT !.part = TRUE]
             c == [book[v] EXCEPT !.resting = FALSE]
  <2>3. b \in Slots /\ b.resting = book[v].resting /\ c \in Slots /\ ~c.resting
    BY <2>1, SlotWith
  <2> HIDE DEF b, c
  <2>4. book' = [book EXCEPT ![v] = b] \/ book' = [book EXCEPT ![v] = c]
    BY <2>2 DEF b, c
  <2> QED
    BY <2>3, <2>4, BookWith
<1>6. ASSUME NEW v \in VenueIds, ForwardCancel(v) \/ CancelOrphan(v)
      PROVE  BookStep
  BY <1>6, BookDeletes, BookStays DEF ForwardCancel, CancelOrphan, VenueCallFails
<1>7. ASSUME NEW o \in Orders, SendPost(o)
      PROVE  BookStep
  BY <1>7, BookStays DEF SendPost
<1>8. ASSUME NEW e \in Events, DeliverEvent(e)
      PROVE  BookStep
  BY <1>8, BookStays DEF DeliverEvent
<1>9. CASE \/ TakePendingCancels \/ TakePendingOrders \/ OnOrderAccepted \/ OnOrderRejected
           \/ OnPlaceTimeout \/ EventsDone \/ TakeSnapshot \/ SnapshotFails \/ StartupDone
           \/ OnReconcile
  BY <1>9, BookStays DEF TakePendingCancels, TakePendingOrders, OnOrderAccepted, OnOrderRejected,
                         OnPlaceTimeout, EventsDone, TakeSnapshot, SnapshotFails, VenueCallFails,
                         StartupDone, OnReconcile
<1> QED
  BY <1>1, <1>2, <1>3, <1>4, <1>5, <1>6, <1>7, <1>8, <1>9 DEF Next, VenueStep, LoopStep

-----------------------------------------------------------------------------
(* Type correctness *)

\* The cancel queue keeps to its cap.
LEMMA QueueTyped ==
  ASSUME TypeOK, NEW v \in {Unbound} \cup VenueIds
  PROVE  QueueVenueCancel(v) \in Seq(VenueIds) /\ Len(QueueVenueCancel(v)) <= CancelQueueCap
<1>1. /\ cancels \in Seq(VenueIds) /\ Len(cancels) \in Nat /\ Len(cancels) <= CancelQueueCap
      /\ CancelQueueCap \in Nat \ {0}
  BY BridgeAssumption DEF TypeOK
<1>2. CASE QueueVenueCancel(v) = cancels
  BY <1>1, <1>2
<1>3. CASE v \in VenueIds /\ Len(cancels) = CancelQueueCap /\ QueueVenueCancel(v) = Append(Tail(cancels), v)
  <2>1. cancels # <<>>
    BY <1>1, <1>3
  <2>2. Tail(cancels) \in Seq(VenueIds) /\ Len(Tail(cancels)) = Len(cancels) - 1
    BY <1>1, <2>1, HeadTailProperties
  <2> QED
    BY <1>1, <1>3, <2>2, AppendProperties
<1>4. CASE v \in VenueIds /\ Len(cancels) # CancelQueueCap /\ QueueVenueCancel(v) = Append(cancels, v)
  BY <1>1, <1>4, AppendProperties
<1> QED
  BY <1>2, <1>3, <1>4 DEF QueueVenueCancel

CoreTypes ==
  /\ chases \in [Orders -> Orders \cup {NoOrder}]
  /\ cancels \in Seq(VenueIds) /\ Len(cancels) <= CancelQueueCap
LoopTypes ==
  /\ phase \in Phases
  /\ work \subseteq Orders \cup VenueIds
  /\ post \in [order : Orders \cup {NoOrder}, id : {Unbound} \cup VenueIds]
  /\ strike \in BOOLEAN /\ since \in 0..SweepEvery
  /\ snap \in [open : SUBSET VenueIds, part : SUBSET VenueIds]
  /\ snap.part \subseteq snap.open
VenueTypes ==
  /\ travelling \subseteq Orders /\ events \subseteq Events
  /\ failures \in 0..MaxFailures /\ timeouts \in 0..MaxTimeouts
  /\ restarts \in 0..MaxRestarts
  /\ posted \subseteq Orders /\ timedOut \subseteq Orders /\ failed \subseteq VenueIds

\* The core's variables keep their types.
LEMMA CoreTyped ==
  ASSUME TypeOK, [Next]_vars
  PROVE  CoreTypes'
<1> USE DEF coreVars, loopVars, venueVars, counters, history
<1>a. CoreTypes
  BY DEF TypeOK, CoreTypes
<1>b. ASSUME NEW o \in Orders, cancels' = QueueVenueCancel(row[o].bound), chases' = chases
      PROVE  CoreTypes'
  BY <1>a, <1>b, RowFields, QueueTyped DEF CoreTypes
<1>1. CASE UNCHANGED <<cancels, chases>>
  BY <1>1, <1>a DEF CoreTypes
<1>2. ASSUME NEW o \in Orders, Place(o) \/ Cancel(o)
      PROVE  CoreTypes'
  BY <1>1, <1>2, <1>b DEF Place, Cancel
<1>3. ASSUME NEW o \in Orders, NEW p \in Orders, Escalate(o, p)
      PROVE  CoreTypes'
  <2>1. cancels' = QueueVenueCancel(row[o].bound) /\ chases' = [chases EXCEPT ![p] = o]
    BY <1>3 DEF Escalate
  <2>2. chases' \in [Orders -> Orders \cup {NoOrder}]
    BY <1>a, <2>1 DEF CoreTypes
  <2> QED
    BY <2>1, <2>2, RowFields, QueueTyped DEF CoreTypes
<1>4. CASE VenueStep
  BY <1>1, <1>4 DEF VenueStep, LateAccept, Execute, Accept
<1>5. CASE TakePendingCancels \/ Restart
  <2>1. cancels' = <<>> /\ chases' = chases
    BY <1>5 DEF TakePendingCancels, Restart
  <2> QED
    BY <1>a, <2>1, BridgeAssumption DEF CoreTypes
<1>6. ASSUME NEW v \in VenueIds, ForwardCancel(v) \/ CancelOrphan(v)
      PROVE  CoreTypes'
  BY <1>1, <1>6 DEF ForwardCancel, CancelOrphan
<1>7. ASSUME NEW o \in Orders, SendPost(o)
      PROVE  CoreTypes'
  BY <1>1, <1>7 DEF SendPost
<1>8. ASSUME NEW e \in Events, DeliverEvent(e)
      PROVE  CoreTypes'
  <2>1. chases' = chases
    BY <1>8 DEF DeliverEvent
  <2>2. cancels' = cancels \/ \E o \in Orders : cancels' = QueueVenueCancel(row[o].bound)
    BY <1>8 DEF DeliverEvent, AfterEvent, Resolved, Named
  <2> QED
    BY <1>1, <1>b, <2>1, <2>2
<1>9. CASE \/ TakePendingOrders \/ OnOrderAccepted \/ OnOrderRejected \/ OnPlaceTimeout
           \/ EventsDone \/ TakeSnapshot \/ SnapshotFails \/ StartupDone \/ OnReconcile
           \/ UNCHANGED vars
  BY <1>1, <1>9 DEF TakePendingOrders, OnOrderAccepted, OnOrderRejected, OnPlaceTimeout,
                    EventsDone, TakeSnapshot, SnapshotFails, StartupDone, OnReconcile, vars
<1> QED
  BY <1>2, <1>3, <1>4, <1>5, <1>6, <1>7, <1>8, <1>9 DEF Next, CoreStep, LoopStep

\* The executor loop's variables keep their types.
LEMMA LoopTyped ==
  ASSUME TypeOK, PostSound, [Next]_vars
  PROVE  LoopTypes'
<1> USE DEF coreVars, loopVars, venueVars, counters, history
<1>a. LoopTypes /\ Len(book) \in Nat /\ Len(book) <= MaxPosts /\ MaxPosts \in Nat /\ SweepEvery \in Nat \ {0}
      /\ cancels \in Seq(VenueIds)
  BY BridgeAssumption DEF TypeOK, LoopTypes
<1>b. NoPost \in [order : Orders \cup {NoOrder}, id : {Unbound} \cup VenueIds]
  BY DEF NoPost
<1>c. NoSnapshot \in [open : SUBSET VenueIds, part : SUBSET VenueIds] /\ NoSnapshot.part \subseteq NoSnapshot.open
  BY DEF NoSnapshot
<1>d. post.order \in Orders \cup {NoOrder} /\ post.id \in {Unbound} \cup VenueIds
      /\ post = [order |-> post.order, id |-> post.id]
  BY DEF TypeOK
<1>e. {"startup", "startup_orphans", "tick", "cancels", "places", "sweep", "orphans"} = Phases
  BY DEF Phases
<1>1. CASE UNCHANGED loopVars
  BY <1>1, <1>a DEF LoopTypes
<1>2. CASE CoreStep
  BY <1>1, <1>2 DEF CoreStep, Place, Cancel, Escalate
<1>3. CASE \/ \E o \in Orders : LateAccept(o)
           \/ \E v \in VenueIds : Execute(v)
           \/ \E e \in Events : DeliverEvent(e)
           \/ UNCHANGED vars
  BY <1>1, <1>3 DEF LateAccept, Execute, DeliverEvent, vars
<1>4. CASE Accept
  <2>1. post' = [order |-> post.order, id |-> Len(book) + 1] /\ Len(book) + 1 \in VenueIds
    BY <1>4, <1>a, <1>d DEF Accept, VenueIds
  <2> QED
    BY <1>4, <1>a, <1>d, <2>1 DEF Accept, LoopTypes
<1>5. CASE TakePendingCancels
  <2>1. work' \subseteq VenueIds
    BY <1>5, <1>a DEF TakePendingCancels
  <2> QED
    BY <1>5, <1>a, <1>e, <2>1 DEF TakePendingCancels, LoopTypes
<1>6. ASSUME NEW v \in VenueIds, ForwardCancel(v) \/ CancelOrphan(v)
      PROVE  LoopTypes'
  BY <1>6, <1>a DEF ForwardCancel, CancelOrphan, LoopTypes
<1>7. CASE TakePendingOrders
  BY <1>7, <1>a, <1>e DEF TakePendingOrders, PendingUnbound, LoopTypes
<1>8. ASSUME NEW o \in Orders, SendPost(o)
      PROVE  LoopTypes'
  BY <1>8, <1>a DEF SendPost, LoopTypes
<1>9. CASE OnOrderAccepted \/ OnOrderRejected \/ OnPlaceTimeout
  BY <1>9, <1>a, <1>b DEF OnOrderAccepted, OnOrderRejected, OnPlaceTimeout, LoopTypes
<1>10. CASE EventsDone
  <2>1. since \in 0..SweepEvery
    BY <1>a DEF LoopTypes
  <2>2. since' = 0 \/ (~(since + 1 >= SweepEvery) /\ since' = since + 1)
    BY <1>10 DEF EventsDone
  <2>3. since' \in 0..SweepEvery
    BY <1>a, <2>1, <2>2
  <2>4. phase' \in Phases /\ UNCHANGED <<work, strike, post, snap>>
    BY <1>10, <1>e DEF EventsDone
  <2> QED
    BY <1>a, <2>3, <2>4 DEF LoopTypes
<1>11. CASE TakeSnapshot
  <2> DEFINE open == {v \in 1..Len(book) : book[v].resting}
             part == {v \in open : book[v].part}
  <2>1. open \in SUBSET VenueIds /\ part \in SUBSET VenueIds /\ part \subseteq open
    BY <1>a DEF VenueIds
  <2>2. snap' = [open |-> open, part |-> part] \/ snap' = NoSnapshot
    BY <1>11 DEF TakeSnapshot
  <2>3. work' \subseteq open
    BY <1>11 DEF TakeSnapshot, Orphans
  <2>4. phase' \in Phases /\ UNCHANGED <<strike, post, since>>
    BY <1>11, <1>e DEF TakeSnapshot
  <2> HIDE DEF open, part
  <2> QED
    BY <1>a, <1>c, <2>1, <2>2, <2>3, <2>4 DEF LoopTypes
<1>12. CASE SnapshotFails \/ StartupDone
  BY <1>12, <1>a, <1>e DEF SnapshotFails, StartupDone, LoopTypes
<1>13. CASE OnReconcile
  BY <1>13, <1>a, <1>c, <1>e DEF OnReconcile, LoopTypes
<1>14. CASE Restart
  <2>1. phase' \in Phases /\ work' = {} /\ post' = NoPost /\ since' = 0 /\ snap' = NoSnapshot
    BY <1>14, <1>e DEF Restart
  <2>2. strike' \in BOOLEAN
    BY <1>14 DEF Restart
  <2>3. since' \in 0..SweepEvery
    BY <1>a, <2>1
  <2> QED
    BY <1>b, <1>c, <2>1, <2>2, <2>3 DEF LoopTypes
<1> QED
  BY <1>2, <1>3, <1>4, <1>5, <1>6, <1>7, <1>8, <1>9, <1>10, <1>11, <1>12, <1>13, <1>14
     DEF Next, VenueStep, LoopStep

\* The venue's variables keep their types.
LEMMA VenueTyped ==
  ASSUME TypeOK, PostSound, [Next]_vars
  PROVE  VenueTypes'
<1> USE DEF coreVars, loopVars, venueVars, counters, history
<1>a. VenueTypes /\ Len(book) \in Nat /\ Len(book) <= MaxPosts /\ MaxPosts \in Nat
      /\ MaxFailures \in Nat /\ MaxTimeouts \in Nat /\ MaxRestarts \in Nat
  BY BridgeAssumption DEF TypeOK, VenueTypes
<1>b. ASSUME NEW k \in {"live", "part", "full", "cancelled"}, NEW v \in VenueIds, events' \in Published(<<k, v>>)
      PROVE  events' \subseteq Events
  BY <1>a, <1>b DEF Published, Events, VenueTypes
<1>1. CASE UNCHANGED <<travelling, events, counters, history>>
  BY <1>1, <1>a DEF VenueTypes
<1>2. CASE CoreStep
  BY <1>1, <1>2 DEF CoreStep, Place, Cancel, Escalate
<1>3. ASSUME NEW o \in Orders, LateAccept(o)
      PROVE  VenueTypes'
  <2>1. Len(book) + 1 \in VenueIds
    BY <1>3, <1>a DEF LateAccept, VenueIds
  <2>2. events' \subseteq Events
    BY <1>3, <1>b, <2>1 DEF LateAccept
  <2> QED
    BY <1>3, <1>a, <2>2 DEF LateAccept, VenueTypes
<1>4. CASE Accept
  <2>1. Len(book) + 1 \in VenueIds
    BY <1>4, <1>a DEF Accept, VenueIds
  <2>2. events' \subseteq Events
    BY <1>4, <1>b, <2>1 DEF Accept
  <2> QED
    BY <1>4, <1>a, <2>2 DEF Accept, VenueTypes
<1>5. ASSUME NEW v \in VenueIds, Execute(v)
      PROVE  VenueTypes'
  <2>1. events' \subseteq Events
    BY <1>5, <1>b DEF Execute
  <2> QED
    BY <1>5, <1>a, <2>1 DEF Execute, VenueTypes
<1>6. ASSUME NEW v \in VenueIds, ForwardCancel(v) \/ CancelOrphan(v)
      PROVE  VenueTypes'
  <2>1. CASE DeleteSucceeds(v)
    <3>1. events' \subseteq Events
      BY <1>a, <1>b, <2>1 DEF DeleteSucceeds, VenueTypes
    <3>2. /\ failed' = failed \ {v} /\ travelling' = travelling /\ failures' = failures
          /\ UNCHANGED <<timeouts, restarts, posted, timedOut>>
      BY <1>6, <2>1 DEF DeleteSucceeds, ForwardCancel, CancelOrphan
    <3> QED
      BY <1>a, <3>1, <3>2 DEF VenueTypes
  <2>2. CASE VenueCallFails
    <3>1. /\ failed' \subseteq VenueIds /\ UNCHANGED <<timeouts, restarts, posted, timedOut>>
      BY <1>6, <1>a, <2>2 DEF ForwardCancel, CancelOrphan, DeleteSucceeds, VenueTypes
    <3> QED
      BY <1>a, <2>2, <3>1 DEF VenueCallFails, VenueTypes
  <2> QED
    BY <1>6, <2>1, <2>2 DEF ForwardCancel, CancelOrphan
<1>7. ASSUME NEW o \in Orders, SendPost(o)
      PROVE  VenueTypes'
  BY <1>7, <1>a DEF SendPost, VenueTypes
<1>8. ASSUME NEW e \in Events, DeliverEvent(e)
      PROVE  VenueTypes'
  BY <1>8, <1>a DEF DeliverEvent, VenueTypes
<1>9. CASE SnapshotFails
  BY <1>9, <1>a DEF SnapshotFails, VenueCallFails, VenueTypes
<1>10. CASE OnPlaceTimeout
  <2>1. post.order \in Orders
    BY <1>10 DEF OnPlaceTimeout, PostSound
  <2> QED
    BY <1>10, <1>a, <2>1 DEF OnPlaceTimeout, VenueTypes
<1>11. CASE \/ TakePendingCancels \/ TakePendingOrders \/ OnOrderAccepted \/ OnOrderRejected
            \/ EventsDone \/ TakeSnapshot \/ StartupDone \/ OnReconcile \/ UNCHANGED vars
  BY <1>1, <1>11 DEF TakePendingCancels, TakePendingOrders, OnOrderAccepted, OnOrderRejected,
                     EventsDone, TakeSnapshot, StartupDone, OnReconcile, vars
<1>12. CASE Restart
  <2>1. travelling' \subseteq Orders
    BY <1>12, <1>a DEF Restart, PostSound, VenueTypes
  <2> QED
    BY <1>12, <1>a, <2>1 DEF Restart, VenueTypes
<1> QED
  BY <1>2, <1>3, <1>4, <1>5, <1>6, <1>7, <1>8, <1>9, <1>10, <1>11, <1>12
     DEF Next, VenueStep, LoopStep

-----------------------------------------------------------------------------
(* What the loop does *)

\* Outside a restart the loop keeps its phase and works off its list, leaves for
\* a phase without a list, or reads a new list.
LoopMove ==
  \/ phase' = phase /\ work' \subseteq work /\ snap' = snap
  \/ phase' \notin {"places", "orphans", "startup_orphans"}
  \/ TakePendingOrders
  \/ TakeSnapshot

\* The loop's registers move only in the ways LoopMove lists.
LEMMA LoopMoves ==
  ASSUME [Next]_vars
  PROVE  LoopMove
<1> USE DEF coreVars, loopVars, venueVars, counters, history
<1>1. CASE CoreStep \/ VenueStep \/ UNCHANGED vars
  BY <1>1 DEF CoreStep, Place, Cancel, Escalate, VenueStep, LateAccept, Execute, Accept, vars, LoopMove
<1>2. ASSUME NEW v \in VenueIds, ForwardCancel(v) \/ CancelOrphan(v)
      PROVE  LoopMove
  BY <1>2 DEF ForwardCancel, CancelOrphan, LoopMove
<1>3. ASSUME NEW o \in Orders, SendPost(o)
      PROVE  LoopMove
  BY <1>3 DEF SendPost, LoopMove
<1>4. ASSUME NEW e \in Events, DeliverEvent(e)
      PROVE  LoopMove
  BY <1>4 DEF DeliverEvent, LoopMove
<1>5. CASE OnOrderAccepted \/ OnOrderRejected \/ OnPlaceTimeout
  BY <1>5 DEF OnOrderAccepted, OnOrderRejected, OnPlaceTimeout, LoopMove
<1>6. CASE TakePendingCancels \/ EventsDone \/ SnapshotFails \/ StartupDone \/ OnReconcile \/ Restart
  BY <1>6 DEF TakePendingCancels, EventsDone, SnapshotFails, StartupDone, OnReconcile, Restart, LoopMove
<1> QED
  BY <1>1, <1>2, <1>3, <1>4, <1>5, <1>6 DEF Next, LoopStep, LoopMove

\* What becomes of the POST under way.
PostMove ==
  \/ post' = post /\ posted' = posted
  \/ post' = NoPost /\ posted' = {} /\ Restart
  \/ post = NoPost /\ \E o \in Orders : SendPost(o)
  \/ post # NoPost /\ phase' = phase /\ posted' = posted /\ Accept
  \/ post # NoPost /\ phase' = phase /\ posted' = posted /\ post' = NoPost
       /\ (OnOrderAccepted \/ OnOrderRejected \/ OnPlaceTimeout)

\* The POST in flight changes only in the ways PostMove lists.
LEMMA PostMoves ==
  ASSUME [Next]_vars
  PROVE  PostMove
<1> USE DEF coreVars, loopVars, venueVars, counters, history
<1>1. CASE CoreStep \/ UNCHANGED vars
  BY <1>1 DEF CoreStep, Place, Cancel, Escalate, vars, PostMove
<1>2. CASE VenueStep
  BY <1>2 DEF VenueStep, LateAccept, Execute, Accept, PostMove
<1>3. ASSUME NEW v \in VenueIds, ForwardCancel(v) \/ CancelOrphan(v)
      PROVE  PostMove
  BY <1>3 DEF ForwardCancel, CancelOrphan, PostMove
<1>4. ASSUME NEW o \in Orders, SendPost(o)
      PROVE  PostMove
  <2>1. post = NoPost
    BY <1>4 DEF SendPost
  <2> QED
    BY <1>4, <2>1 DEF PostMove
<1>5. ASSUME NEW e \in Events, DeliverEvent(e)
      PROVE  PostMove
  BY <1>5 DEF DeliverEvent, PostMove
<1>6. CASE OnOrderAccepted \/ OnOrderRejected \/ OnPlaceTimeout
  <2>1. post # NoPost /\ phase' = phase /\ posted' = posted /\ post' = NoPost
    BY <1>6 DEF OnOrderAccepted, OnOrderRejected, OnPlaceTimeout
  <2> QED
    BY <1>6, <2>1 DEF PostMove
<1>7. CASE \/ TakePendingCancels \/ TakePendingOrders \/ EventsDone \/ TakeSnapshot
           \/ SnapshotFails \/ StartupDone \/ OnReconcile
  BY <1>7 DEF TakePendingCancels, TakePendingOrders, EventsDone, TakeSnapshot, SnapshotFails,
              StartupDone, OnReconcile, PostMove
<1>8. CASE Restart
  <2>1. post' = NoPost /\ posted' = {}
    BY <1>8 DEF Restart
  <2> QED
    BY <1>8, <2>1 DEF PostMove
<1> QED
  BY <1>1, <1>2, <1>3, <1>4, <1>5, <1>6, <1>7, <1>8 DEF Next, LoopStep

-----------------------------------------------------------------------------
(* The invariant *)

\* A POST is under way only while the loop handles placements.
LEMMA PostKept ==
  ASSUME TypeOK, PostSound, [Next]_vars
  PROVE  PostSound'
<1> USE DEF coreVars, loopVars, venueVars, counters, history
<1>1. CASE post' = post /\ posted' = posted
  <2>1. CASE post = NoPost
    BY <1>1, <2>1 DEF PostSound
  <2>2. CASE post # NoPost
    <3>1. phase = "places"
      BY <2>2 DEF PostSound
    <3>2. phase' = phase
      <4>1. ~EventsDone /\ ~TakePendingCancels /\ ~TakePendingOrders /\ ~TakeSnapshot
            /\ ~SnapshotFails /\ ~StartupDone /\ ~OnReconcile
        BY <2>2, <3>1 DEF EventsDone, ReadingEvents, TakePendingCancels, TakePendingOrders,
                          TakeSnapshot, SnapshotFails, StartupDone, OnReconcile
      <4>2. ~Restart
        BY <1>1, <2>2 DEF Restart
      <4>3. CASE CoreStep \/ VenueStep \/ UNCHANGED vars
        BY <4>3 DEF CoreStep, Place, Cancel, Escalate, VenueStep, LateAccept, Execute, Accept, vars
      <4>4. ASSUME NEW v \in VenueIds, ForwardCancel(v) \/ CancelOrphan(v)
            PROVE  phase' = phase
        BY <4>4 DEF ForwardCancel, CancelOrphan
      <4>5. ASSUME NEW o \in Orders, SendPost(o)
            PROVE  phase' = phase
        BY <4>5 DEF SendPost
      <4>6. ASSUME NEW e \in Events, DeliverEvent(e)
            PROVE  phase' = phase
        BY <4>6 DEF DeliverEvent
      <4>7. CASE OnOrderAccepted \/ OnOrderRejected \/ OnPlaceTimeout
        BY <4>7 DEF OnOrderAccepted, OnOrderRejected, OnPlaceTimeout
      <4> QED
        BY <4>1, <4>2, <4>3, <4>4, <4>5, <4>6, <4>7 DEF Next, LoopStep
    <3> QED
      BY <1>1, <3>1, <3>2 DEF PostSound
  <2> QED
    BY <2>1, <2>2
<1>2. CASE post' = NoPost
  BY <1>2 DEF PostSound, NoPost
<1>3. ASSUME NEW o \in Orders, SendPost(o)
      PROVE  PostSound'
  <2>1. post'.order = o /\ o \in posted' /\ phase' = "places"
    BY <1>3 DEF SendPost
  <2> QED
    BY <2>1 DEF PostSound
<1>4. CASE post # NoPost /\ phase' = phase /\ posted' = posted /\ Accept
  <2>1. post' = [post EXCEPT !.id = Len(book) + 1]
    BY <1>4 DEF Accept
  <2>2. post'.order = post.order
    BY <2>1 DEF TypeOK
  <2> QED
    BY <1>4, <2>2 DEF PostSound
<1> QED
  BY <1>1, <1>2, <1>3, <1>4, PostMoves DEF PostMove

\* A batch is read from live orders, and a live order never becomes new again.
LEMMA BatchKept ==
  ASSUME TypeOK, PostSound, DiskSound, BatchSound, [Next]_vars
  PROVE  BatchSound'
<1> SUFFICES ASSUME phase' = "places", NEW o \in work'
             PROVE  o \in Orders /\ row'[o].status # "New"
  BY DEF BatchSound
<1>0. ~Restart
  BY DEF Restart
<1>1. RowsStep
  BY <1>0, RowsMove
<1>2. o \in Orders /\ row[o].status # "New"
  <2>1. CASE phase = "places" /\ work' \subseteq work
    BY <2>1 DEF BatchSound
  <2>2. CASE TakePendingOrders
    BY <2>2 DEF TakePendingOrders, PendingUnbound, Live, LiveStatuses
  <2>3. ~TakeSnapshot
    BY DEF TakeSnapshot
  <2> QED
    BY <2>1, <2>2, <2>3, LoopMoves DEF LoopMove
<1> QED
  BY <1>1, <1>2 DEF RowsStep, RowStep

\* A row the drain did not show stays out of it.
LEMMA HiddenKept ==
  ASSUME TypeOK, RowsStep, NEW o \in Orders, row[o].status # "New", o \notin PendingUnbound,
         post.order # o
  PROVE  o \notin PendingUnbound'
  BY DEF RowsStep, RowStep, PendingUnbound, Live

\* No order that was posted is still waiting to be posted.
LEMMA PostedKept ==
  ASSUME TypeOK, PostSound, DiskSound, BatchSound, PostedSound, [Next]_vars
  PROVE  PostedSound'
<1>1. CASE Restart
  BY <1>1 DEF Restart, PostedSound
<1>2. CASE ~Restart
  <2>0. RowsStep
    BY <1>2, RowsMove
  <2> SUFFICES ASSUME NEW o \in posted'
               PROVE  /\ row'[o].status # "New"
                      /\ post'.order # o => o \notin PendingUnbound'
                      /\ phase' = "places" => o \notin work'
    BY DEF PostedSound
  <2>1. CASE o \in posted
    <3>1. o \in Orders /\ row[o].status # "New" /\ o # NoOrder
      BY <2>1, BridgeAssumption DEF PostedSound, TypeOK
    <3>2. row'[o].status # "New"
      BY <2>0, <3>1 DEF RowsStep, RowStep
    <3>3. ASSUME post'.order # o PROVE o \notin PendingUnbound'
      <4>1. CASE post.order # o
        BY <2>0, <2>1, <3>1, <4>1, HiddenKept DEF PostedSound
      <4>2. CASE post.order = o
        <5>0. post # NoPost
          BY <3>1, <4>2 DEF NoPost
        <5>1. ~Accept
          BY <3>3, <4>2 DEF Accept, TypeOK
        <5>2. OnOrderAccepted \/ OnOrderRejected \/ OnPlaceTimeout
          BY <1>2, <3>3, <4>2, <5>0, <5>1, PostMoves DEF PostMove
        <5>3. CASE OnOrderAccepted
          BY <4>2, <5>3, AcceptedRows DEF PendingUnbound
        <5>4. CASE OnOrderRejected
          BY <4>2, <5>4, RejectedRows DEF PendingUnbound, Live, LiveStatuses
        <5>5. CASE OnPlaceTimeout
          BY <4>2, <5>5, TimeoutRows DEF PendingUnbound, Live
        <5> QED
          BY <5>2, <5>3, <5>4, <5>5
      <4> QED
        BY <4>1, <4>2
    <3>4. ASSUME phase' = "places" PROVE o \notin work'
      <4>1. CASE phase = "places" /\ work' \subseteq work
        BY <2>1, <4>1 DEF PostedSound
      <4>2. CASE TakePendingOrders
        <5>1. post = NoPost
          BY <4>2 DEF TakePendingOrders, PostSound
        <5>2. o \notin PendingUnbound
          BY <2>1, <3>1, <5>1 DEF PostedSound, NoPost
        <5> QED
          BY <4>2, <5>2 DEF TakePendingOrders
      <4>3. ~TakeSnapshot
        BY <3>4 DEF TakeSnapshot
      <4> QED
        BY <3>4, <4>1, <4>2, <4>3, LoopMoves DEF LoopMove
    <3> QED
      BY <3>2, <3>3, <3>4
  <2>2. CASE o \notin posted
    <3>1. PICK p \in Orders : SendPost(p)
      BY <1>2, <2>2, PostMoves DEF PostMove
    <3>2. o = p /\ o \in work /\ phase = "places" /\ post'.order = o /\ work' = work \ {o}
          /\ row' = row
      BY <2>2, <3>1 DEF SendPost, coreVars
    <3> QED
      BY <3>2 DEF BatchSound
  <2> QED
    BY <2>1, <2>2
<1> QED
  BY <1>1, <1>2

\* The log and the core's table keep agreeing as DiskSound says.
LEMMA DiskKept ==
  ASSUME TypeOK, PostSound, DiskSound, [Next]_vars
  PROVE  DiskSound'
  BY RowsMove, RestartRows DEF RowsStep

\* A bound id is an ordinal of the venue's book.
LEMMA BoundNat ==
  ASSUME TypeOK, NEW o \in Orders
  PROVE  /\ row[o].bound \in Nat /\ Len(book) \in Nat
         /\ BoundSound /\ row[o].bound # 0 => row[o].bound \in 1..Len(book)
<1>1. row[o].bound \in {0} \cup 1..MaxPosts /\ MaxPosts \in Nat
  BY RowFields, BridgeAssumption DEF VenueIds, Unbound
<1>2. Len(book) \in Nat
  BY DEF TypeOK
<1>3. row[o].bound \in Nat
  BY <1>1
<1>4. BoundSound => row[o].bound <= Len(book)
  BY DEF BoundSound
<1> QED
  BY <1>2, <1>3, <1>4

\* Only ids the venue has given out are bound to orders.
LEMMA BoundKept ==
  ASSUME TypeOK, PostSound, DiskSound, BoundSound, [Next]_vars
  PROVE  BoundSound'
<1>a. /\ Len(book) \in Nat /\ Len(book') \in Nat /\ Len(book) <= Len(book')
  <2>1. BookStep
    BY BookMoves
  <2> QED
    BY <2>1 DEF BookStep, TypeOK
<1>b. \A o \in Orders : row[o].bound \in Nat /\ row[o].bound <= Len(book)
  BY BoundNat DEF BoundSound
<1>c. post.id \in Nat /\ post.id <= Len(book)
  BY BridgeAssumption DEF TypeOK, BoundSound, VenueIds, Unbound
<1>1. ASSUME NEW o \in Orders PROVE row'[o].bound <= Len(book')
  <2>1. row'[o].bound = row[o].bound \/ row'[o].bound = post.id \/ row'[o].bound = 0
    BY RowsMove, RestartRows DEF RowsStep, RowStep, Unbound
  <2> QED
    BY <1>a, <1>b, <1>c, <2>1
<1>2. post'.id <= Len(book')
  <2>1. CASE post' = post
    BY <1>a, <1>c, <2>1
  <2>2. CASE post' = NoPost
    BY <1>a, <2>2 DEF NoPost, Unbound
  <2>3. ASSUME NEW o \in Orders, SendPost(o) PROVE post'.id <= Len(book')
    BY <1>a, <2>3 DEF SendPost, Unbound
  <2>4. CASE Accept
    <3>1. post'.id = Len(book) + 1 /\ Len(book') = Len(book) + 1
      <4>1. post' = [post EXCEPT !.id = Len(book) + 1]
        BY <2>4 DEF Accept
      <4>2. Len(book') = Len(book) + 1
        BY <2>4, BookAccepts DEF Accept, PostSound
      <4> QED
        BY <4>1, <4>2 DEF TypeOK
    <3> QED
      BY <1>a, <3>1
  <2> QED
    BY <2>1, <2>2, <2>3, <2>4, PostMoves DEF PostMove
<1> QED
  BY <1>1, <1>2 DEF BoundSound

\* While a sweep runs no id is bound and no managed order comes to rest.
LEMMA SweepKept ==
  ASSUME TypeOK, PostSound, DiskSound, BoundSound, SweepSound, [Next]_vars
  PROVE  SweepSound'
<1> SUFFICES ASSUME phase' \in {"orphans", "startup_orphans"}
             PROVE  /\ phase' = "orphans" =>
                         \A o \in Orders : Resting(row[o].bound)' => row'[o].bound \in snap'.open
                    /\ work' \cap KnownVenueIds' = {}
  BY DEF SweepSound
<1>0. ~Restart
  BY DEF Restart
<1>1. CASE phase' = phase /\ work' \subseteq work /\ snap' = snap
  <2>1. post = NoPost
    BY <1>1 DEF PostSound
  <2>2. \A o \in Orders : row'[o].bound = row[o].bound
    BY <1>0, <2>1, RowsMove DEF RowsStep, RowStep
  <2>3. KnownVenueIds' = KnownVenueIds
    BY <2>2 DEF KnownVenueIds
  <2>4. \A v \in 1..Len(book') : v # 0
    <3>1. Len(book') \in Nat
      BY BookMoves DEF BookStep
    <3> QED
      BY <3>1
  <2>5. ASSUME NEW o \in Orders, phase' = "orphans", Resting(row[o].bound)'
        PROVE  row'[o].bound \in snap'.open
    <3>1. row'[o].bound = row[o].bound
      BY <2>2
    <3>2. row'[o].bound # 0
      <4>1. \A v : v \in 1..Len(book') => v # 0
        BY <2>4
      <4> QED
        BY <2>5, <4>1 DEF Resting
    <3>3. row[o].bound \in 1..Len(book)
      BY <3>1, <3>2, BoundNat
    <3>4. Resting(row[o].bound)
      <4>1. BookStep
        BY BookMoves
      <4>2. book'[row[o].bound].resting => Resting(row[o].bound)
        <5>1. row[o].bound \in 1..Len(book')
          BY <2>5, <3>1 DEF Resting
        <5> QED
          BY <3>3, <4>1, <5>1 DEF BookStep, Resting
      <4> QED
        BY <2>5, <3>1, <4>2 DEF Resting
    <3> QED
      BY <1>1, <2>5, <3>1, <3>4 DEF SweepSound
  <2> QED
    BY <1>1, <2>3, <2>5 DEF SweepSound
<1>2. CASE TakeSnapshot
  <2> DEFINE open == {v \in 1..Len(book) : book[v].resting}
  <2>1. /\ row' = row /\ book' = book /\ work' = open \ KnownVenueIds
        /\ phase' = "orphans" => snap'.open = open
    BY <1>2 DEF TakeSnapshot, Orphans, coreVars, venueVars
  <2>2. KnownVenueIds' = KnownVenueIds
    BY <2>1 DEF KnownVenueIds
  <2> QED
    BY <2>1, <2>2 DEF Resting
<1>3. ~TakePendingOrders
  BY DEF TakePendingOrders
<1> QED
  BY <1>1, <1>2, <1>3, LoopMoves DEF LoopMove

\* The invariant holds at the start.
LEMMA InitHolds == Init => IInv
<1> SUFFICES ASSUME Init PROVE IInv
  OBVIOUS
<1>1. NewRow \in Rows /\ NewRow.bound = 0 /\ NewRow.status = "New"
  BY DEF NewRow, Rows, Statuses, Unbound
<1>2. TypeOK
  <2>1. row \in [Orders -> Rows] /\ disk \in [Orders -> Rows]
    BY <1>1 DEF Init
  <2>2. post \in [order : Orders \cup {NoOrder}, id : {Unbound} \cup VenueIds]
    BY DEF Init, NoPost
  <2>3. snap \in [open : SUBSET VenueIds, part : SUBSET VenueIds] /\ snap.part \subseteq snap.open
    BY DEF Init, NoSnapshot
  <2>4. strike \in BOOLEAN /\ phase \in Phases
    BY DEF Init, Phases
  <2>5. /\ cancels \in Seq(VenueIds) /\ Len(cancels) <= CancelQueueCap
        /\ book \in Seq([order : Orders, resting : BOOLEAN, part : BOOLEAN]) /\ Len(book) <= MaxPosts
    BY BridgeAssumption DEF Init
  <2>6. /\ since \in 0..SweepEvery /\ failures \in 0..MaxFailures /\ timeouts \in 0..MaxTimeouts
        /\ restarts \in 0..MaxRestarts
    BY BridgeAssumption DEF Init
  <2> QED
    BY <2>1, <2>2, <2>3, <2>4, <2>5, <2>6 DEF Init, TypeOK
<1>3. PostSound /\ PostedSound /\ BatchSound
  BY DEF Init, PostSound, PostedSound, BatchSound
<1>4. DiskSound
  BY DEF Init, DiskSound
<1>5. BoundSound
  BY <1>1 DEF Init, BoundSound, NoPost, Unbound
<1>6. SweepSound
  BY DEF Init, SweepSound
<1> QED
  BY <1>2, <1>3, <1>4, <1>5, <1>6 DEF IInv

\* Every step of the core, the loop or the venue keeps the invariant.
LEMMA StepHolds == IInv /\ [Next]_vars => IInv'
<1> SUFFICES ASSUME IInv, [Next]_vars PROVE IInv'
  OBVIOUS
<1>1. TypeOK /\ PostSound /\ PostedSound /\ BatchSound /\ DiskSound /\ BoundSound /\ SweepSound
  BY DEF IInv
<1>2. PostSound' /\ PostedSound' /\ BatchSound' /\ DiskSound' /\ BoundSound' /\ SweepSound'
  BY <1>1, PostKept, PostedKept, BatchKept, DiskKept, BoundKept, SweepKept
<1>3. TypeOK'
  <2>1. row' \in [Orders -> Rows] /\ disk' \in [Orders -> Rows]
    BY <1>1, RowsMove, RestartRows DEF RowsStep
  <2>2. BookStep /\ CoreTypes' /\ LoopTypes' /\ VenueTypes'
    BY <1>1, BookMoves, CoreTyped, LoopTyped, VenueTyped
  <2> QED
    BY <2>1, <2>2 DEF TypeOK, BookStep, Slots, CoreTypes, LoopTypes, VenueTypes
<1> QED
  BY <1>2, <1>3 DEF IInv

\* The inductive invariant holds in every state of every behaviour.
THEOREM Invariance == Spec => []IInv
  BY InitHolds, StepHolds, PTL DEF Spec

-----------------------------------------------------------------------------
(* What follows *)

\* Every variable keeps its type, and queue_venue_cancel keeps to its cap.
THEOREM TypeCorrect == Spec => []TypeOK
<1>1. IInv => TypeOK
  BY DEF IInv
<1> QED
  BY <1>1, Invariance, PTL

\* pending_unbound never shows the executor an order it has already posted.
THEOREM NeverPostedTwice == Spec => PostedOnce
<1>1. ASSUME IInv, [Next]_vars, NEW o \in Orders, Sends(o)
      PROVE  o \notin posted
  <2>1. post = NoPost /\ post'.order = o /\ o # NoOrder
    BY <1>1, BridgeAssumption DEF Sends
  <2>2. PICK p \in Orders : SendPost(p)
    BY <1>1, <2>1, PostMoves DEF PostMove, NoPost
  <2>3. p = o /\ phase = "places" /\ o \in work
    BY <2>1, <2>2 DEF SendPost
  <2> QED
    BY <1>1, <2>3 DEF IInv, PostedSound
<1>2. IInv /\ [Next]_vars => [PostedOnce!1]_vars
  BY <1>1
<1> QED
  BY <1>2, Invariance, PTL DEF Spec, PostedOnce

\* reconcile_scoped ends no order that still rests at the venue, although its
\* snapshot is older than the cancels of the orphans.
THEOREM GhostsOffTheBook == Spec => GhostsAreGone
<1>1. ASSUME IInv, [Next]_vars, NEW o \in Orders, phase = "orphans", phase' = "tick",
             row[o].bound # Unbound, Live(o), row'[o].status = "Ended"
      PROVE  ~Resting(row[o].bound)
  <2>1. OnReconcile
    <3> USE DEF coreVars, loopVars, venueVars, counters, history
    <3>1. CASE CoreStep \/ VenueStep \/ UNCHANGED vars
      <4>1. phase' = phase
        BY <3>1 DEF CoreStep, Place, Cancel, Escalate, VenueStep, LateAccept, Execute, Accept, vars
      <4> QED
        BY <1>1, <4>1
    <3>2. ASSUME NEW v \in VenueIds, ForwardCancel(v) \/ CancelOrphan(v)
          PROVE  phase' = phase
      BY <3>2 DEF ForwardCancel, CancelOrphan
    <3>3. ASSUME NEW p \in Orders, SendPost(p) PROVE phase' = phase
      BY <3>3 DEF SendPost
    <3>4. ASSUME NEW e \in Events, DeliverEvent(e) PROVE phase' = phase
      BY <3>4 DEF DeliverEvent
    <3>5. OnOrderAccepted \/ OnOrderRejected \/ OnPlaceTimeout => phase' = phase
      BY DEF OnOrderAccepted, OnOrderRejected, OnPlaceTimeout
    <3>6. ~TakePendingCancels /\ ~TakePendingOrders /\ ~EventsDone /\ ~TakeSnapshot
          /\ ~SnapshotFails /\ ~StartupDone /\ ~Restart
      BY <1>1 DEF TakePendingCancels, TakePendingOrders, EventsDone, ReadingEvents, TakeSnapshot,
                  SnapshotFails, StartupDone, Restart
    <3> QED
      BY <1>1, <3>1, <3>2, <3>3, <3>4, <3>5, <3>6 DEF Next, LoopStep
  <2>2. PICK overdue \in SUBSET {p \in Orders : Unanswered(p)} :
          row' = [p \in Orders |-> Reconciled(p, overdue)]
    BY <2>1 DEF OnReconcile
  <2>3. o \notin overdue
    BY <1>1 DEF Unanswered
  <2>4. Ghost(o)
    <3>1. row'[o] = Reconciled(o, overdue)
      BY <2>2
    <3>2. CASE ~Ghost(o)
      <4>1. row'[o] = row[o] \/ row'[o] = [row[o] EXCEPT !.status = "PartiallyFilled"]
        BY <2>3, <3>1, <3>2 DEF Reconciled
      <4>2. "PartiallyFilled" \in Statuses /\ TypeOK /\ row[o].status # "Ended"
        BY <1>1 DEF Statuses, LiveStatuses, IInv, Live
      <4>3. row'[o].status = row[o].status \/ row'[o].status = "PartiallyFilled"
        BY <4>1, <4>2, WithStatus
      <4> QED
        BY <1>1, <4>2, <4>3
    <3> QED
      BY <3>2
  <2> QED
    BY <1>1, <2>4 DEF Ghost, IInv, SweepSound
<1>2. IInv /\ [Next]_vars => [GhostsAreGone!1]_vars
  BY <1>1
<1> QED
  BY <1>2, Invariance, PTL DEF Spec, GhostsAreGone

\* The orphan cancels of a sweep and a crash in the middle of it leave every
\* managed order that rests where it is.
THEOREM ManagedOrdersSpared == Spec => SweepSparesManaged
<1>1. ASSUME IInv, [Next]_vars, NEW o \in Orders, phase \in {"orphans", "startup_orphans"},
             Live(o), Resting(row[o].bound), work' # work
      PROVE  Resting(row[o].bound)'
  <2> USE DEF coreVars, loopVars, venueVars, counters, history
  <2>1. TypeOK /\ PostSound /\ DiskSound /\ SweepSound
    BY <1>1 DEF IInv
  <2>2. CASE Restart
    <3>1. row'[o].bound = row[o].bound /\ book' = book
      BY <1>1, <2>1, <2>2, RestartRows DEF Restart
    <3> QED
      BY <1>1, <3>1 DEF Resting
  <2>3. ASSUME NEW v \in VenueIds, CancelOrphan(v)
        PROVE  Resting(row[o].bound)'
    <3>1. v \in work /\ row' = row /\ (DeleteSucceeds(v) \/ book' = book)
      BY <2>3 DEF CancelOrphan, VenueCallFails
    <3>2. row[o].bound \in 1..Len(book) /\ row[o].bound \in KnownVenueIds
      <4>1. row[o].bound \in 1..Len(book)
        BY <1>1 DEF Resting
      <4>2. row[o].bound # Unbound
        BY <2>1, <4>1, BoundNat DEF Unbound
      <4> QED
        BY <4>1, <4>2 DEF KnownVenueIds
    <3>3. row[o].bound # v
      BY <1>1, <2>1, <3>1, <3>2 DEF SweepSound
    <3>4. CASE DeleteSucceeds(v)
      <4>1. \A w \in 1..Len(book) : w # v => (Resting(w) => Resting(w)')
        BY <2>1, <3>4, BookDeletes
      <4> QED
        BY <1>1, <3>1, <3>2, <3>3, <4>1 DEF Resting
    <3>5. CASE book' = book
      BY <1>1, <3>1, <3>5 DEF Resting
    <3> QED
      BY <3>1, <3>4, <3>5
  <2>4. CASE CoreStep \/ VenueStep \/ UNCHANGED vars
    <3>1. work' = work
      BY <2>4 DEF CoreStep, Place, Cancel, Escalate, VenueStep, LateAccept, Execute, Accept, vars
    <3> QED
      BY <1>1, <3>1
  <2>5. ASSUME NEW e \in Events, DeliverEvent(e) PROVE work' = work
    BY <2>5 DEF DeliverEvent
  <2>6. OnOrderAccepted \/ OnOrderRejected \/ OnPlaceTimeout \/ SnapshotFails \/ EventsDone
        \/ StartupDone \/ OnReconcile => work' = work
    BY DEF OnOrderAccepted, OnOrderRejected, OnPlaceTimeout, SnapshotFails, EventsDone,
           StartupDone, OnReconcile
  <2>7. ~TakePendingCancels /\ ~TakePendingOrders /\ ~TakeSnapshot
    BY <1>1 DEF TakePendingCancels, TakePendingOrders, TakeSnapshot
  <2>8. ASSUME NEW v \in VenueIds PROVE ~ForwardCancel(v)
    BY <1>1 DEF ForwardCancel
  <2>9. ASSUME NEW p \in Orders PROVE ~SendPost(p)
    BY <1>1 DEF SendPost
  <2> QED
    BY <1>1, <2>2, <2>3, <2>4, <2>5, <2>6, <2>7, <2>8, <2>9 DEF Next, LoopStep
<1>2. IInv /\ [Next]_vars => [SweepSparesManaged!1]_vars
  BY <1>1
<1> QED
  BY <1>2, Invariance, PTL DEF Spec, SweepSparesManaged
=============================================================================
