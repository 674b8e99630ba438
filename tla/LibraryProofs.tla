---------------------------- MODULE LibraryProofs ----------------------------
(***************************************************************************)
(* The containers of the library programs.  processReservation() ends and  *)
(* never reads beyond the vector, whatever the capacity of the queue; the  *)
(* hash table is the map of what was inserted, whatever the keys; and the  *)
(* unordered set is a search tree of its keys, through every rotation and  *)
(* removal, and a red-black tree until the first removal.                  *)
(***************************************************************************)
EXTENDS MCLibrary, SequenceTheorems, FiniteSetTheorems, FunctionTheorems,
        WellFoundedInduction, TLAPS

-----------------------------------------------------------------------------
(* The circular queue and the reservations. *)

(* The front index and the size say where the vector ends, until it has    *)
(* been appended to Capacity times; from then on every index is within it. *)
InStep(q) ==
  Len(q.buffer) >= Capacity \/ q.frontIndex + q.currentSize = Len(q.buffer)

(* Only the first rotation of a call meets a full queue: it loses one. *)
FullOnlyAtFirst == processing /\ isFull(pendingReservations) => rotationCount = 0

IndInv ==
  /\ ReservationsTypeOK
  /\ InStep(pendingReservations)
  /\ RotationsEnd
  /\ FullOnlyAtFirst
  /\ Len(waiting) >= pendingReservations.currentSize

-----------------------------------------------------------------------------

(* The front index stays below the capacity. *)
LEMMA IndexBelowCapacity == \A i \in Nat : i % Capacity \in 0..(Capacity - 1)
BY CapacityAssumption

(* It goes round only at the capacity. *)
LEMMA IndexBelowTurn ==
  \A i \in 0..(Capacity - 1) : i + 1 < Capacity => (i + 1) % Capacity = i + 1
BY CapacityAssumption

(* enqueue() keeps a queue a queue and in step. *)
LEMMA EnqueueKeeps ==
  ASSUME NEW S, NEW e \in S, NEW q \in QueuesOf(S), InStep(q)
  PROVE  /\ enqueue(q, e) \in QueuesOf(S) /\ InStep(enqueue(q, e))
         /\ enqueue(q, e).currentSize
              = IF isFull(q) THEN q.currentSize ELSE q.currentSize + 1
<1>1. CASE isFull(q)
  BY <1>1 DEF enqueue
<1>2. CASE ~isFull(q)
  <2>1. /\ q.buffer \in Seq(S) /\ q.frontIndex \in 0..(Capacity - 1)
        /\ q.currentSize \in 0..Capacity
    BY DEF QueuesOf
  <2>2. Append(q.buffer, e) \in Seq(S) /\ Len(Append(q.buffer, e)) = Len(q.buffer) + 1
    BY <2>1, AppendProperties
  <2>3. enqueue(q, e) = [buffer |-> Append(q.buffer, e), frontIndex |-> q.frontIndex,
                         currentSize |-> q.currentSize + 1]
    BY <1>2 DEF enqueue, QueuesOf
  <2>4. q.currentSize + 1 \in 0..Capacity
    BY <1>2, <2>1, CapacityAssumption DEF isFull
  <2>5. Len(q.buffer) \in Nat
    BY <2>1, LenProperties
  <2>6. enqueue(q, e) \in QueuesOf(S)
    BY <2>1, <2>2, <2>3, <2>4 DEF QueuesOf
  <2>7. InStep(enqueue(q, e))
    <3> DEFINE longer == Append(q.buffer, e)
    <3>1. InStep(enqueue(q, e)) <=> \/ Len(longer) >= Capacity
                                    \/ q.frontIndex + (q.currentSize + 1) = Len(longer)
      BY <2>3 DEF InStep
    <3>2. CASE Len(q.buffer) >= Capacity
      BY <2>2, <2>5, <3>1, <3>2, CapacityAssumption
    <3>3. CASE q.frontIndex + q.currentSize = Len(q.buffer)
      <4>1. q.frontIndex + (q.currentSize + 1) = (q.frontIndex + q.currentSize) + 1
        BY <2>1, CapacityAssumption
      <4> QED
        BY <2>2, <3>1, <3>3, <4>1
    <3> QED
      BY <3>2, <3>3 DEF InStep
  <2> QED
    BY <1>2, <2>3, <2>6, <2>7
<1> QED
  BY <1>1, <1>2

(* dequeue() keeps a queue a queue and in step. *)
LEMMA DequeueKeeps ==
  ASSUME NEW S, NEW q \in QueuesOf(S), InStep(q), ~isEmpty(q)
  PROVE  /\ dequeue(q) \in QueuesOf(S) /\ InStep(dequeue(q))
         /\ dequeue(q).currentSize = q.currentSize - 1
<1>1. /\ q.buffer \in Seq(S) /\ q.frontIndex \in 0..(Capacity - 1)
      /\ q.currentSize \in 1..Capacity
  BY CapacityAssumption DEF QueuesOf, isEmpty
<1>2. dequeue(q) = [buffer |-> q.buffer, frontIndex |-> (q.frontIndex + 1) % Capacity,
                    currentSize |-> q.currentSize - 1]
  BY DEF dequeue, QueuesOf
<1>3. (q.frontIndex + 1) % Capacity \in 0..(Capacity - 1)
  <2>1. q.frontIndex + 1 \in Nat
    BY <1>1, CapacityAssumption
  <2> QED
    BY <2>1, IndexBelowCapacity
<1>4. q.currentSize - 1 \in 0..Capacity
  BY <1>1, CapacityAssumption
<1>5. dequeue(q) \in QueuesOf(S)
  BY <1>1, <1>2, <1>3, <1>4 DEF QueuesOf
<1>6. Len(q.buffer) \in Nat
  BY <1>1, LenProperties
<1>7. ASSUME Len(q.buffer) < Capacity
      PROVE  (q.frontIndex + 1) % Capacity = q.frontIndex + 1
  <2>1. q.frontIndex + q.currentSize = Len(q.buffer)
    BY <1>1, <1>6, <1>7, CapacityAssumption DEF InStep
  <2> QED
    BY <1>1, <1>6, <1>7, <2>1, IndexBelowTurn, CapacityAssumption
<1>8. InStep(dequeue(q))
  <2>1. CASE Len(q.buffer) >= Capacity
    BY <1>2, <2>1 DEF InStep
  <2>2. CASE Len(q.buffer) < Capacity
    <3>1. (q.frontIndex + 1) + (q.currentSize - 1) = Len(q.buffer)
      BY <1>1, <1>6, <2>2, CapacityAssumption DEF InStep
    <3> QED
      BY <1>2, <1>7, <2>2, <3>1 DEF InStep
  <2> QED
    BY <1>6, <2>1, <2>2, CapacityAssumption
<1> QED
  BY <1>2, <1>5, <1>8

(* The front of a queue that is not empty has been appended. *)
LEMMA FrontIsElement ==
  ASSUME NEW S, NEW q \in QueuesOf(S), InStep(q), ~isEmpty(q)
  PROVE  q.frontIndex < Len(q.buffer) /\ front(q) \in S
<1>1. /\ q.buffer \in Seq(S) /\ q.frontIndex \in 0..(Capacity - 1)
      /\ q.currentSize \in 1..Capacity
  BY CapacityAssumption DEF QueuesOf, isEmpty
<1>2. Len(q.buffer) \in Nat
  BY <1>1, LenProperties
<1>3. q.frontIndex < Len(q.buffer)
  BY <1>1, <1>2, CapacityAssumption DEF InStep
<1>4. q.frontIndex + 1 \in 1..Len(q.buffer)
  BY <1>1, <1>2, <1>3
<1> QED
  BY <1>1, <1>3, <1>4, ElementOfSeq DEF front

(* A rotation keeps the size, except that a full queue loses one. *)
LEMMA ToTheEndKeeps ==
  ASSUME NEW S, NEW q \in QueuesOf(S), InStep(q), ~isEmpty(q)
  PROVE  /\ ToTheEnd(q) \in QueuesOf(S) /\ InStep(ToTheEnd(q))
         /\ ToTheEnd(q).currentSize
              = IF isFull(q) THEN q.currentSize - 1 ELSE q.currentSize
<1> DEFINE more == enqueue(q, front(q))
<1>1. front(q) \in S
  BY FrontIsElement
<1>2. /\ more \in QueuesOf(S) /\ InStep(more)
      /\ more.currentSize = IF isFull(q) THEN q.currentSize ELSE q.currentSize + 1
  BY <1>1, EnqueueKeeps
<1>3. q.currentSize \in 1..Capacity
  BY CapacityAssumption DEF QueuesOf, isEmpty
<1>4. ~isEmpty(more)
  BY <1>2, <1>3, CapacityAssumption DEF isEmpty
<1>5. /\ dequeue(more) \in QueuesOf(S) /\ InStep(dequeue(more))
      /\ dequeue(more).currentSize = more.currentSize - 1
  BY <1>2, <1>4, DequeueKeeps
<1> QED
  BY <1>2, <1>3, <1>5, CapacityAssumption DEF ToTheEnd

(* What becomes of the history when its first reservation leaves the front. *)
LEMMA WaitingType ==
  ASSUME NEW S, NEW s \in Seq(S), Len(s) > 0
  PROVE  /\ Tail(s) \in Seq(S) /\ Len(Tail(s)) = Len(s) - 1
         /\ Append(Tail(s), Head(s)) \in Seq(S)
         /\ Len(Append(Tail(s), Head(s))) = Len(s)
<1>1. Len(s) \in Nat /\ s # << >>
  BY LenProperties, EmptySeq
<1>2. Head(s) \in S /\ Tail(s) \in Seq(S) /\ Len(Tail(s)) = Len(s) - 1
  BY <1>1, HeadTailProperties
<1>3. /\ Append(Tail(s), Head(s)) \in Seq(S)
      /\ Len(Append(Tail(s), Head(s))) = Len(Tail(s)) + 1
  BY <1>2, AppendProperties
<1> QED
  BY <1>1, <1>2, <1>3

-----------------------------------------------------------------------------

LEMMA InitHolds == ReservationsInit => IndInv
<1> SUFFICES ASSUME ReservationsInit PROVE IndInv
  OBVIOUS
<1>1. <<>> \in Seq(ReservationRecords) /\ <<>> \in Seq([ISBN : Books, copies : 0..MaxCopies])
      /\ Len(<<>>) = 0
  BY EmptySeq
<1>2. NewQueue \in QueuesOf(ReservationRecords) /\ InStep(NewQueue)
      /\ NewQueue.currentSize = 0
  BY <1>1, CapacityAssumption DEF NewQueue, QueuesOf, InStep
<1>3. ReservationsTypeOK
  <2>1. /\ pendingReservations = NewQueue /\ fulfilledReservations = <<>> /\ booksDB = <<>>
        /\ processing = FALSE /\ rotationCount = 0 /\ outcome = "none" /\ waiting = <<>>
    BY DEF ReservationsInit
  <2>2. 0 \in 0..Capacity /\ FALSE \in BOOLEAN
    BY CapacityAssumption
  <2> QED
    BY <1>1, <1>2, <2>1, <2>2 DEF ReservationsTypeOK
<1>4. RotationsEnd /\ FullOnlyAtFirst
  BY DEF ReservationsInit, RotationsEnd, FullOnlyAtFirst
<1>5. Len(waiting) >= pendingReservations.currentSize
  BY <1>1, <1>2 DEF ReservationsInit
<1>6. InStep(pendingReservations)
  BY <1>2 DEF ReservationsInit
<1> QED
  BY <1>3, <1>4, <1>5, <1>6 DEF IndInv

LEMMA IndexKeeps ==
  ASSUME IndInv, NEW book \in Books, NEW copies \in 0..MaxCopies, indexBookToDB(book, copies)
  PROVE  IndInv'
<1>1. booksDB' \in Seq([ISBN : Books, copies : 0..MaxCopies])
  BY AppendProperties DEF IndInv, ReservationsTypeOK, indexBookToDB
<1> QED
  BY <1>1
  DEF IndInv, ReservationsTypeOK, RotationsEnd, FullOnlyAtFirst, indexBookToDB

(* A step that changes the copies of an indexed book leaves the books typed. *)
LEMMA CopiesType ==
  ASSUME NEW db \in Seq([ISBN : Books, copies : 0..MaxCopies]), NEW i \in 1..Len(db),
         NEW n \in 0..MaxCopies
  PROVE  [db EXCEPT ![i].copies = n] \in Seq([ISBN : Books, copies : 0..MaxCopies])
<1>1. db[i] \in [ISBN : Books, copies : 0..MaxCopies]
  BY ElementOfSeq
<1>2. [db[i] EXCEPT !.copies = n] \in [ISBN : Books, copies : 0..MaxCopies]
  BY <1>1
<1> QED
  BY <1>2, ExceptSeq

LEMMA RestockKeeps ==
  ASSUME IndInv, NEW i \in 1..Len(booksDB), Restock(i)
  PROVE  IndInv'
<1>1. booksDB \in Seq([ISBN : Books, copies : 0..MaxCopies])
  BY DEF IndInv, ReservationsTypeOK
<1>2. booksDB[i].copies + 1 \in 0..MaxCopies
  <2>1. booksDB[i] \in [ISBN : Books, copies : 0..MaxCopies]
    BY <1>1, ElementOfSeq
  <2> QED
    BY <2>1, ReservationsAssumption DEF Restock
<1>3. booksDB' \in Seq([ISBN : Books, copies : 0..MaxCopies])
  BY <1>1, <1>2, CopiesType DEF Restock
<1> QED
  BY <1>3 DEF IndInv, ReservationsTypeOK, RotationsEnd, FullOnlyAtFirst, Restock

LEMMA EnqueueReservationKeeps ==
  ASSUME IndInv, NEW reservation \in ReservationRecords, enqueueReservation(reservation)
  PROVE  IndInv'
<1>1. /\ pendingReservations \in QueuesOf(ReservationRecords) /\ InStep(pendingReservations)
      /\ pendingReservations.currentSize \in 0..Capacity
      /\ waiting \in Seq(ReservationRecords)
      /\ Len(waiting) >= pendingReservations.currentSize
  BY DEF IndInv, ReservationsTypeOK, QueuesOf
<1>2. /\ pendingReservations' \in QueuesOf(ReservationRecords) /\ InStep(pendingReservations)'
      /\ pendingReservations'.currentSize = pendingReservations.currentSize + 1
  <2>1. ~isFull(pendingReservations)
    BY <1>1, CapacityAssumption DEF isFull, enqueueReservation
  <2> QED
    BY <1>1, <2>1, EnqueueKeeps DEF enqueueReservation, InStep
<1>3. waiting' \in Seq(ReservationRecords) /\ Len(waiting') = Len(waiting) + 1
  BY <1>1, AppendProperties DEF enqueueReservation
<1>4. Len(waiting') >= pendingReservations'.currentSize
  BY <1>1, <1>2, <1>3, LenProperties, CapacityAssumption
<1>5. ~processing /\ UNCHANGED <<fulfilledReservations, booksDB, processing, rotationCount, outcome>>
  BY DEF enqueueReservation
<1> QED
  BY <1>2, <1>3, <1>4, <1>5 DEF IndInv, ReservationsTypeOK, RotationsEnd, FullOnlyAtFirst

LEMMA ProcessKeeps == ASSUME IndInv, processReservation PROVE IndInv'
<1>1. pendingReservations.currentSize \in 0..Capacity
  BY DEF IndInv, ReservationsTypeOK, QueuesOf
<1>2. rotationCount' = 0 /\ rotationCount' \in 0..Capacity
  BY CapacityAssumption DEF processReservation
<1>3. RotationsEnd'
  <2>1. CASE isEmpty(pendingReservations)
    BY <2>1 DEF processReservation, RotationsEnd
  <2>2. CASE ~isEmpty(pendingReservations)
    <3>1. 0 < pendingReservations.currentSize
      BY <1>1, <2>2, CapacityAssumption DEF isEmpty
    <3>2. pendingReservations' = pendingReservations
      BY DEF processReservation
    <3> QED
      BY <1>2, <3>1, <3>2 DEF RotationsEnd
  <2> QED
    BY <2>1, <2>2
<1>4. processing' \in BOOLEAN /\ outcome' \in {"none", "record", "unavailable", "undefined"}
  BY DEF processReservation, IndInv, ReservationsTypeOK
<1>5. UNCHANGED <<pendingReservations, fulfilledReservations, booksDB, waiting>>
  BY DEF processReservation
<1> QED
  BY <1>2, <1>3, <1>4, <1>5 DEF IndInv, ReservationsTypeOK, FullOnlyAtFirst, InStep

(* While processReservation() is at work the queue is not empty. *)
LEMMA NotEmptyAtWork ==
  ASSUME IndInv, processing
  PROVE  /\ pendingReservations.currentSize \in 1..Capacity
         /\ ~isEmpty(pendingReservations)
<1>1. /\ pendingReservations.currentSize \in 0..Capacity /\ rotationCount \in 0..Capacity
      /\ rotationCount < pendingReservations.currentSize
  BY DEF IndInv, ReservationsTypeOK, QueuesOf, RotationsEnd
<1> QED
  BY <1>1, CapacityAssumption DEF isEmpty

LEMMA FulfilKeeps == ASSUME IndInv, Fulfil PROVE IndInv'
<1>1. /\ pendingReservations \in QueuesOf(ReservationRecords) /\ InStep(pendingReservations)
      /\ pendingReservations.currentSize \in 1..Capacity /\ ~isEmpty(pendingReservations)
      /\ waiting \in Seq(ReservationRecords)
      /\ Len(waiting) >= pendingReservations.currentSize
  BY NotEmptyAtWork DEF IndInv, ReservationsTypeOK, Fulfil
<1>2. /\ pendingReservations' \in QueuesOf(ReservationRecords) /\ InStep(pendingReservations')
      /\ pendingReservations'.currentSize = pendingReservations.currentSize - 1
  BY <1>1, DequeueKeeps DEF Fulfil
<1>3. waiting' \in Seq(ReservationRecords) /\ Len(waiting') = Len(waiting) - 1
  <2>1. Len(waiting) \in Nat /\ Len(waiting) > 0
    BY <1>1, LenProperties, CapacityAssumption
  <2> QED
    BY <1>1, <2>1, WaitingType DEF Fulfil
<1>4. Len(waiting') >= pendingReservations'.currentSize
  BY <1>1, <1>2, <1>3, LenProperties, CapacityAssumption
<1>5. front(pendingReservations) \in ReservationRecords
  BY <1>1, FrontIsElement
<1>6. PICK i \in Available(booksDB, front(pendingReservations)) :
        booksDB' = [booksDB EXCEPT ![i].copies = @ - 1]
  BY DEF Fulfil
<1>7. booksDB \in Seq([ISBN : Books, copies : 0..MaxCopies])
      /\ i \in 1..Len(booksDB) /\ booksDB[i].copies >= 1
  BY DEF IndInv, ReservationsTypeOK, Available
<1>8. booksDB' \in Seq([ISBN : Books, copies : 0..MaxCopies])
  <2>1. booksDB[i] \in [ISBN : Books, copies : 0..MaxCopies]
    BY <1>7, ElementOfSeq
  <2>2. booksDB[i].copies - 1 \in 0..MaxCopies
    BY <1>7, <2>1, ReservationsAssumption
  <2> QED
    BY <1>6, <1>7, <2>2, CopiesType
<1>9. fulfilledReservations' \in Seq(ReservationRecords)
  <2>1. fulfilledReservations' = Append(fulfilledReservations, front(pendingReservations))
    BY DEF Fulfil
  <2> QED
    BY <1>5, <2>1, AppendProperties DEF IndInv, ReservationsTypeOK
<1>10. processing' = FALSE /\ outcome' = "record" /\ rotationCount' = rotationCount
  BY DEF Fulfil, Ends
<1> QED
  BY <1>2, <1>3, <1>4, <1>8, <1>9, <1>10
  DEF IndInv, ReservationsTypeOK, RotationsEnd, FullOnlyAtFirst, InStep

LEMMA PostponeKeeps == ASSUME IndInv, Postpone PROVE IndInv'
<1> DEFINE size == pendingReservations.currentSize
<1>1. /\ pendingReservations \in QueuesOf(ReservationRecords) /\ InStep(pendingReservations)
      /\ size \in 1..Capacity /\ ~isEmpty(pendingReservations)
      /\ waiting \in Seq(ReservationRecords) /\ Len(waiting) >= size
      /\ processing /\ rotationCount \in 0..Capacity
  BY NotEmptyAtWork DEF IndInv, ReservationsTypeOK, Postpone, GoesRound
<1>2. /\ pendingReservations' \in QueuesOf(ReservationRecords) /\ InStep(pendingReservations')
      /\ pendingReservations'.currentSize = IF size = Capacity THEN size - 1 ELSE size
  BY <1>1, ToTheEndKeeps DEF Postpone, GoesRound, isFull
<1>3. waiting' \in Seq(ReservationRecords) /\ Len(waiting') = Len(waiting)
  <2>1. Len(waiting) \in Nat /\ Len(waiting) > 0
    BY <1>1, LenProperties, CapacityAssumption
  <2> QED
    BY <1>1, <2>1, WaitingType DEF Postpone, GoesRound
<1>4. Len(waiting') >= pendingReservations'.currentSize
  BY <1>1, <1>2, <1>3, LenProperties, CapacityAssumption
<1>5. /\ rotationCount < size
      /\ size = Capacity => rotationCount = 0
      /\ rotationCount' = rotationCount + 1
  BY <1>1, CapacityAssumption
  DEF IndInv, RotationsEnd, FullOnlyAtFirst, Postpone, GoesRound, isEmpty, isFull
<1>6. rotationCount' \in 0..Capacity
  BY <1>1, <1>5, CapacityAssumption
<1>7. /\ processing' \in BOOLEAN
      /\ outcome' \in {"none", "record", "unavailable", "undefined"}
      /\ processing' => /\ rotationCount' # pendingReservations'.currentSize
                        /\ pendingReservations'.currentSize # 0
  BY <1>1 DEF Postpone, GoesOn, Ends, isEmpty, IndInv, ReservationsTypeOK
<1>8. ASSUME processing'
      PROVE  rotationCount' < pendingReservations'.currentSize
  <2>1. CASE size = Capacity
    BY <1>1, <1>2, <1>5, <1>7, <1>8, <2>1, CapacityAssumption
  <2>2. CASE size # Capacity
    BY <1>1, <1>2, <1>5, <1>7, <1>8, <2>2, CapacityAssumption
  <2> QED
    BY <2>1, <2>2
<1>9. pendingReservations'.currentSize # Capacity
  BY <1>1, <1>2, CapacityAssumption
<1>10. UNCHANGED <<fulfilledReservations, booksDB>>
  BY DEF Postpone, GoesRound
<1>11. ReservationsTypeOK'
  BY <1>2, <1>3, <1>6, <1>7, <1>10 DEF IndInv, ReservationsTypeOK
<1> QED
  BY <1>2, <1>4, <1>8, <1>9, <1>11
  DEF IndInv, RotationsEnd, FullOnlyAtFirst, InStep, isEmpty, isFull

LEMMA StepHolds == IndInv /\ [ReservationsNext]_reservationVars => IndInv'
<1> SUFFICES ASSUME IndInv, [ReservationsNext]_reservationVars PROVE IndInv'
  OBVIOUS
<1>1. CASE \E book \in Books, copies \in 0..MaxCopies : indexBookToDB(book, copies)
  BY <1>1, IndexKeeps
<1>2. CASE \E i \in 1..Len(booksDB) : Restock(i)
  BY <1>2, RestockKeeps
<1>3. CASE \E reservation \in ReservationRecords : enqueueReservation(reservation)
  BY <1>3, EnqueueReservationKeeps
<1>4. CASE processReservation
  BY <1>4, ProcessKeeps
<1>5. CASE Fulfil
  BY <1>5, FulfilKeeps
<1>6. CASE Postpone
  BY <1>6, PostponeKeeps
<1>7. CASE UNCHANGED reservationVars
  BY <1>7 DEF reservationVars, IndInv, ReservationsTypeOK, RotationsEnd, FullOnlyAtFirst, InStep
<1> QED
  BY <1>1, <1>2, <1>3, <1>4, <1>5, <1>6, <1>7 DEF ReservationsNext

LEMMA IndInvHolds == ReservationsSpec => []IndInv
BY InitHolds, StepHolds, PTL DEF ReservationsSpec

(* Every call of processReservation() comes to an end, for every capacity:  *)
(* its rotations are fewer than the reservations pending, also when a full  *)
(* queue loses one.                                                         *)
THEOREM ProcessingEnds == ReservationsSpec => []RotationsEnd
<1>1. IndInv => RotationsEnd
  BY DEF IndInv
<1> QED
  BY <1>1, IndInvHolds, PTL

(* The front of the pending queue is an element of its vector: at() never   *)
(* throws.                                                                  *)
THEOREM FrontIsInBuffer == ReservationsSpec => []FrontInBuffer
<1>1. IndInv => FrontInBuffer
  BY FrontIsElement DEF IndInv, ReservationsTypeOK, FrontInBuffer
<1> QED
  BY <1>1, IndInvHolds, PTL

-----------------------------------------------------------------------------

(* Pending(q) = w, place by place. *)
Matches(q, w) ==
  BeforeFirstLap(q) =>
    /\ Len(w) = q.currentSize
    /\ \A i \in 1..q.currentSize : w[i] = q.buffer[q.frontIndex + i]

(* An element that is enqueued before the first lap comes last. *)
LEMMA EnqueueMatches ==
  ASSUME NEW S, NEW e \in S, NEW q \in QueuesOf(S), InStep(q), NEW w \in Seq(S), Matches(q, w)
  PROVE  Matches(enqueue(q, e), Append(w, e))
<1> DEFINE size == q.currentSize
           from == q.frontIndex
<1>1. q.buffer \in Seq(S) /\ from \in 0..(Capacity - 1) /\ size \in 0..Capacity
  BY DEF QueuesOf
<1>2. Len(q.buffer) \in Nat /\ Len(w) \in Nat
  BY <1>1, LenProperties
<1> SUFFICES ASSUME BeforeFirstLap(enqueue(q, e))
             PROVE  /\ Len(Append(w, e)) = enqueue(q, e).currentSize
                    /\ \A i \in 1..enqueue(q, e).currentSize :
                         Append(w, e)[i] = enqueue(q, e).buffer[enqueue(q, e).frontIndex + i]
  BY DEF Matches
<1>3. Len(enqueue(q, e).buffer) < Capacity
  BY DEF BeforeFirstLap
<1>4. ~isFull(q)
  BY <1>1, <1>2, <1>3, CapacityAssumption DEF isFull, enqueue, InStep
<1>5. enqueue(q, e) = [buffer |-> Append(q.buffer, e), frontIndex |-> from,
                       currentSize |-> size + 1]
  BY <1>4 DEF enqueue, QueuesOf
<1>6. /\ Len(Append(q.buffer, e)) = Len(q.buffer) + 1
      /\ Append(q.buffer, e)[Len(q.buffer) + 1] = e
      /\ \A i \in 1..Len(q.buffer) : Append(q.buffer, e)[i] = q.buffer[i]
  BY <1>1, AppendProperties
<1>7. Len(q.buffer) < Capacity /\ from + size = Len(q.buffer)
  BY <1>1, <1>2, <1>3, <1>5, <1>6, CapacityAssumption DEF InStep
<1>8. Len(w) = size /\ \A i \in 1..size : w[i] = q.buffer[from + i]
  BY <1>7 DEF Matches, BeforeFirstLap
<1>9. /\ Len(Append(w, e)) = size + 1
      /\ Append(w, e)[size + 1] = e
      /\ \A i \in 1..size : Append(w, e)[i] = w[i]
  BY <1>8, AppendProperties
<1>10. ASSUME NEW i \in 1..(size + 1)
       PROVE  Append(w, e)[i] = Append(q.buffer, e)[from + i]
  <2>1. CASE i = size + 1
    <3>1. from + (size + 1) = (from + size) + 1
      <4>1. size \in Nat /\ from \in Nat
        BY <1>1, CapacityAssumption
      <4> HIDE DEF size, from
      <4> QED
        BY <4>1
    <3>2. from + i = Len(q.buffer) + 1
      BY <1>7, <2>1, <3>1, Zenon
    <3> QED
      BY <1>6, <1>9, <2>1, <3>2
  <2>2. CASE i # size + 1
    <3>1. i \in 1..size /\ from + i \in 1..Len(q.buffer)
      <4>1. size \in Nat /\ from \in Nat
        BY <1>1, CapacityAssumption
      <4> HIDE DEF size, from
      <4>2. i \in Nat /\ 1 <= i /\ i <= size
        BY <2>2, <4>1
      <4> QED
        BY <1>2, <1>7, <4>1, <4>2
    <3>2. Append(w, e)[i] = w[i] /\ w[i] = q.buffer[from + i]
      BY <1>8, <1>9, <3>1
    <3>3. Append(q.buffer, e)[from + i] = q.buffer[from + i]
      BY <1>6, <3>1
    <3> QED
      BY <3>2, <3>3
  <2> QED
    BY <2>1, <2>2
<1>11. /\ enqueue(q, e).buffer = Append(q.buffer, e)
       /\ enqueue(q, e).frontIndex = from
       /\ enqueue(q, e).currentSize = size + 1
  BY <1>5
<1>12. Len(Append(w, e)) = enqueue(q, e).currentSize
  BY <1>9, <1>11
<1>13. \A i \in 1..enqueue(q, e).currentSize :
         Append(w, e)[i] = enqueue(q, e).buffer[enqueue(q, e).frontIndex + i]
  BY <1>10, <1>11
<1> QED
  BY <1>12, <1>13

(* What is dequeued before the first lap is the first that waits. *)
LEMMA DequeueMatches ==
  ASSUME NEW S, NEW q \in QueuesOf(S), InStep(q), ~isEmpty(q), NEW w \in Seq(S), Len(w) > 0,
         Matches(q, w)
  PROVE  Matches(dequeue(q), Tail(w))
<1> DEFINE size == q.currentSize
           from == q.frontIndex
<1>1. q.buffer \in Seq(S) /\ from \in 0..(Capacity - 1) /\ size \in 1..Capacity
  BY CapacityAssumption DEF QueuesOf, isEmpty
<1>2. Len(q.buffer) \in Nat /\ Len(w) \in Nat /\ w # << >>
  BY <1>1, LenProperties, EmptySeq
<1>3. dequeue(q) = [buffer |-> q.buffer, frontIndex |-> (from + 1) % Capacity,
                    currentSize |-> size - 1]
  BY DEF dequeue, QueuesOf
<1> SUFFICES ASSUME Len(q.buffer) < Capacity
             PROVE  /\ Len(Tail(w)) = size - 1
                    /\ \A i \in 1..(size - 1) : Tail(w)[i] = q.buffer[((from + 1) % Capacity) + i]
  BY <1>3 DEF Matches, BeforeFirstLap
<1>4. from + size = Len(q.buffer)
  BY <1>1, <1>2, CapacityAssumption DEF InStep
<1>5. (from + 1) % Capacity = from + 1
  BY <1>1, <1>2, <1>4, IndexBelowTurn, CapacityAssumption
<1>6. Len(w) = size /\ \A i \in 1..size : w[i] = q.buffer[from + i]
  BY DEF Matches, BeforeFirstLap
<1>7. Len(Tail(w)) = size - 1 /\ \A i \in 1..(size - 1) : Tail(w)[i] = w[i + 1]
  BY <1>2, <1>6, HeadTailProperties
<1>8. ASSUME NEW i \in 1..(size - 1)
      PROVE  Tail(w)[i] = q.buffer[(from + 1) + i]
  <2>1. i + 1 \in 1..size /\ from + (i + 1) = (from + 1) + i
    <3>1. size \in Nat /\ from \in Nat
      BY <1>1, CapacityAssumption
    <3> HIDE DEF size, from
    <3> QED
      BY <3>1
  <2>2. Tail(w)[i] = w[i + 1] /\ w[i + 1] = q.buffer[from + (i + 1)]
    <3>1. Tail(w)[i] = w[i + 1]
      BY <1>7, Zenon
    <3>2. w[i + 1] = q.buffer[from + (i + 1)]
      BY <1>6, <2>1, Zenon
    <3> QED
      BY <3>1, <3>2, Zenon
  <2> QED
    BY <2>1, <2>2, Zenon
<1> QED
  BY <1>5, <1>7, <1>8

(* The history of a rotation is that of an enqueue and a dequeue. *)
LEMMA RotationOfWaiting ==
  ASSUME NEW S, NEW w \in Seq(S), Len(w) > 0
  PROVE  Tail(Append(w, Head(w))) = Append(Tail(w), Head(w))
<1> DEFINE long  == Append(w, Head(w))
           short == Append(Tail(w), Head(w))
<1>1. Len(w) \in Nat /\ w # << >>
  BY LenProperties, EmptySeq
<1>2. /\ Head(w) \in S /\ Tail(w) \in Seq(S) /\ Len(Tail(w)) = Len(w) - 1
      /\ \A i \in 1..Len(Tail(w)) : Tail(w)[i] = w[i + 1]
  BY <1>1, HeadTailProperties
<1>3. /\ long \in Seq(S) /\ Len(long) = Len(w) + 1 /\ long[Len(w) + 1] = Head(w)
      /\ \A i \in 1..Len(w) : long[i] = w[i]
  BY <1>2, AppendProperties
<1>4. long # << >>
  BY <1>1, <1>3, EmptySeq
<1>5. /\ Tail(long) \in Seq(S) /\ Len(Tail(long)) = Len(long) - 1
      /\ \A i \in 1..Len(Tail(long)) : Tail(long)[i] = long[i + 1]
  BY <1>3, <1>4, HeadTailProperties
<1>6. /\ short \in Seq(S) /\ Len(short) = Len(Tail(w)) + 1
      /\ short[Len(Tail(w)) + 1] = Head(w)
      /\ \A i \in 1..Len(Tail(w)) : short[i] = Tail(w)[i]
  BY <1>2, AppendProperties
<1>7. Len(Tail(long)) = Len(w) /\ Len(short) = Len(w)
  BY <1>1, <1>2, <1>3, <1>5, <1>6
<1>8. ASSUME NEW i \in 1..Len(w)
      PROVE  Tail(long)[i] = short[i]
  <2>1. CASE i = Len(w)
    BY <1>1, <1>2, <1>3, <1>5, <1>6, <1>7, <2>1
  <2>2. CASE i # Len(w)
    <3>1. i \in 1..(Len(w) - 1) /\ i + 1 \in 1..Len(w)
      BY <1>1, <2>2
    <3> QED
      BY <1>2, <1>3, <1>5, <1>6, <1>7, <3>1, ZenonT(60)
  <2> QED
    BY <2>1, <2>2
<1> QED
  BY <1>5, <1>6, <1>7, <1>8, SeqEqual

-----------------------------------------------------------------------------

MatchInv == IndInv /\ Matches(pendingReservations, waiting)

LEMMA StepMatches == MatchInv /\ [ReservationsNext]_reservationVars => MatchInv'
<1> SUFFICES ASSUME MatchInv, [ReservationsNext]_reservationVars PROVE MatchInv'
  OBVIOUS
<1> USE DEF MatchInv
<1> DEFINE q == pendingReservations
<1>1. /\ q \in QueuesOf(ReservationRecords) /\ InStep(q)
      /\ waiting \in Seq(ReservationRecords)
      /\ q.currentSize \in 0..Capacity
      /\ Len(waiting) >= q.currentSize
      /\ Matches(q, waiting)
  BY DEF IndInv, ReservationsTypeOK, QueuesOf
<1>2. Len(waiting) \in Nat
  BY <1>1, LenProperties
<1>3. ~isEmpty(q) => Len(waiting) > 0
  BY <1>1, <1>2, CapacityAssumption DEF isEmpty
<1>4. IndInv'
  BY StepHolds
<1>5. CASE \E reservation \in ReservationRecords : enqueueReservation(reservation)
  <2>1. PICK e \in ReservationRecords : enqueueReservation(e)
    BY <1>5
  <2>2. q' = enqueue(q, e) /\ waiting' = Append(waiting, e)
    BY <2>1 DEF enqueueReservation
  <2>3. Matches(enqueue(q, e), Append(waiting, e))
    BY <1>1, EnqueueMatches
  <2> QED
    BY <1>4, <2>2, <2>3
<1>6. CASE Fulfil
  <2>1. ~isEmpty(q) /\ q' = dequeue(q) /\ waiting' = Tail(waiting)
    BY <1>6, NotEmptyAtWork DEF Fulfil
  <2>2. Matches(dequeue(q), Tail(waiting))
    BY <1>1, <1>3, <2>1, DequeueMatches
  <2> QED
    BY <1>4, <2>1, <2>2
<1>7. CASE Postpone
  <2>1. ~isEmpty(q) /\ q' = ToTheEnd(q) /\ waiting' = Append(Tail(waiting), Head(waiting))
    BY <1>7, NotEmptyAtWork DEF Postpone, GoesRound
  <2>2. CASE isFull(q)
    <3>1. Len(q.buffer) >= Capacity
      <4>1. q.frontIndex \in 0..(Capacity - 1) /\ Len(q.buffer) \in Nat
        BY <1>1, LenProperties DEF QueuesOf
      <4> QED
        BY <1>1, <2>2, <4>1, CapacityAssumption DEF InStep, isFull
    <3>2. q'.buffer = q.buffer
      BY <2>1, <2>2 DEF ToTheEnd, enqueue, dequeue
    <3>3. ~BeforeFirstLap(q')
      <4>1. Len(q.buffer) \in Nat
        BY <1>1, LenProperties DEF QueuesOf
      <4> QED
        BY <3>1, <3>2, <4>1, CapacityAssumption DEF BeforeFirstLap
    <3> QED
      BY <1>4, <3>3 DEF Matches
  <2>3. CASE ~isFull(q)
    <3> DEFINE more == enqueue(q, front(q))
               long == Append(waiting, Head(waiting))
    <3>1. front(q) \in ReservationRecords
      BY <1>1, <2>1, FrontIsElement
    <3>2. CASE ~BeforeFirstLap(q')
      BY <1>4, <3>2 DEF Matches
    <3>3. CASE BeforeFirstLap(q')
      <4>1. /\ more \in QueuesOf(ReservationRecords) /\ InStep(more)
            /\ more.currentSize = q.currentSize + 1
        BY <1>1, <2>3, <3>1, EnqueueKeeps
      <4>2. ~isEmpty(more)
        BY <1>1, <4>1, CapacityAssumption DEF isEmpty
      <4>3. /\ q.buffer \in Seq(ReservationRecords) /\ q'.buffer = Append(q.buffer, front(q))
        BY <1>1, <2>1, <2>3 DEF QueuesOf, ToTheEnd, enqueue, dequeue
      <4>4. BeforeFirstLap(q)
        <5>1. Len(q.buffer) \in Nat /\ Len(q'.buffer) = Len(q.buffer) + 1
          BY <3>1, <4>3, LenProperties, AppendProperties
        <5> QED
          BY <3>3, <5>1, CapacityAssumption DEF BeforeFirstLap
      <4>5. front(q) = Head(waiting)
        <5>1. q.currentSize \in 1..Capacity /\ waiting[1] = q.buffer[q.frontIndex + 1]
          BY <1>1, <2>1, <4>4, CapacityAssumption DEF Matches, isEmpty
        <5> QED
          BY <2>1, <5>1 DEF front
      <4>6. Matches(more, long)
        BY <1>1, <3>1, <4>5, EnqueueMatches
      <4>7. long \in Seq(ReservationRecords) /\ Len(long) > 0
        BY <1>1, <1>2, <3>1, <4>5, AppendProperties
      <4>8. Matches(dequeue(more), Tail(long))
        BY <4>1, <4>2, <4>6, <4>7, DequeueMatches
      <4>9. Tail(long) = Append(Tail(waiting), Head(waiting))
        BY <1>1, <1>3, <2>1, RotationOfWaiting
      <4> QED
        BY <1>4, <2>1, <4>8, <4>9 DEF ToTheEnd
    <3> QED
      BY <3>2, <3>3
  <2> QED
    BY <2>2, <2>3
<1>8. CASE UNCHANGED <<pendingReservations, waiting>>
  BY <1>4, <1>8 DEF Matches, BeforeFirstLap
<1>9. /\ \A book \in Books, copies \in 0..MaxCopies :
           indexBookToDB(book, copies) => UNCHANGED <<pendingReservations, waiting>>
      /\ \A i \in 1..Len(booksDB) : Restock(i) => UNCHANGED <<pendingReservations, waiting>>
      /\ processReservation => UNCHANGED <<pendingReservations, waiting>>
      /\ UNCHANGED reservationVars => UNCHANGED <<pendingReservations, waiting>>
  BY DEF indexBookToDB, Restock, processReservation, reservationVars
<1> QED
  BY <1>5, <1>6, <1>7, <1>8, <1>9 DEF ReservationsNext

(* Until the vector has been appended to Capacity times, the queue holds    *)
(* the reservations that wait, in their order, whatever the capacity and    *)
(* however often a reservation was put back to the end.                     *)
THEOREM QueueInOrder == ReservationsSpec => []QueueUntilFirstLap
<1>1. ReservationsInit => MatchInv
  <2>1. ReservationsInit => Matches(pendingReservations, waiting)
    BY EmptySeq DEF ReservationsInit, NewQueue, Matches
  <2> QED
    BY <2>1, InitHolds DEF MatchInv
<1>2. MatchInv => QueueUntilFirstLap
  <2> SUFFICES ASSUME MatchInv, BeforeFirstLap(pendingReservations)
               PROVE  Pending(pendingReservations) = waiting
    BY DEF QueueUntilFirstLap
  <2> DEFINE q == pendingReservations
             from == q.frontIndex
             size == q.currentSize
             seen == SubSeq(q.buffer, from + 1, from + size)
  <2>1. /\ q.buffer \in Seq(ReservationRecords)
        /\ from \in 0..(Capacity - 1) /\ size \in 0..Capacity
        /\ waiting \in Seq(ReservationRecords)
    BY DEF MatchInv, IndInv, ReservationsTypeOK, QueuesOf
  <2>2. Len(q.buffer) \in Nat /\ from + size = Len(q.buffer)
    BY <2>1, LenProperties, CapacityAssumption DEF MatchInv, IndInv, InStep, BeforeFirstLap
  <2>3. \A i \in (from + 1)..(from + size) : q.buffer[i] \in ReservationRecords
    <3>1. (from + 1)..(from + size) \subseteq 1..Len(q.buffer)
      BY <2>1, <2>2, CapacityAssumption
    <3> QED
      BY <2>1, <3>1, ElementOfSeq
  <2>4. from + 1 \in Int /\ from + size \in Int
    BY <2>1, CapacityAssumption
  <2>5. /\ seen \in Seq(ReservationRecords)
        /\ Len(seen) = IF from + 1 <= from + size THEN (from + size) - (from + 1) + 1 ELSE 0
        /\ \A i \in 1..((from + size) - (from + 1) + 1) : seen[i] = q.buffer[(from + 1) + i - 1]
    BY <2>3, <2>4, SubSeqProperties
  <2>6. (from + size) - (from + 1) + 1 = size /\ \A i \in 1..size : (from + 1) + i - 1 = from + i
    BY <2>1, CapacityAssumption
  <2>7. Len(seen) = size
    BY <2>1, <2>5, CapacityAssumption
  <2>8. Len(waiting) = size /\ \A i \in 1..size : waiting[i] = q.buffer[from + i]
    BY DEF MatchInv, Matches
  <2>9. \A i \in 1..Len(seen) : seen[i] = waiting[i]
    BY <2>5, <2>6, <2>7, <2>8, Zenon
  <2> QED
    BY <2>1, <2>5, <2>7, <2>8, <2>9, SeqEqual DEF Pending
<1> QED
  BY <1>1, <1>2, StepMatches, PTL DEF ReservationsSpec

(* What processReservation() rests on and what it keeps, for every capacity. *)
THEOREM QueueIsServed == ReservationsSpec => []QueueServes
BY ProcessingEnds, QueueInOrder, PTL DEF QueueServes

-----------------------------------------------------------------------------
(* Before the first lap, those at the end of the line, as many as there were *)
(* rotations, could not be fulfilled when their turn came, nor since.        *)
TriedInVain(db, w, rotations) ==
  \A i \in 1..Len(w) : i > Len(w) - rotations => Available(db, w[i]) = {}

TriedInv ==
  processing =>
    /\ outcome = "none"
    /\ BeforeFirstLap(pendingReservations) => TriedInVain(booksDB, waiting, rotationCount)

(* The queue's front is the first that waits. *)
LEMMA FrontIsFirst ==
  ASSUME MatchInv, processing, BeforeFirstLap(ToTheEnd(pendingReservations))
  PROVE  BeforeFirstLap(pendingReservations) /\ front(pendingReservations) = Head(waiting)
<1> DEFINE q == pendingReservations
<1>1. /\ q \in QueuesOf(ReservationRecords) /\ InStep(q) /\ Matches(q, waiting)
      /\ q.currentSize \in 1..Capacity /\ ~isEmpty(q)
  BY NotEmptyAtWork DEF MatchInv, IndInv, ReservationsTypeOK
<1>2. /\ q.buffer \in Seq(ReservationRecords) /\ q.frontIndex \in 0..(Capacity - 1)
      /\ Len(q.buffer) \in Nat
  BY <1>1, LenProperties DEF QueuesOf
<1>3. BeforeFirstLap(q)
  <2>1. CASE isFull(q)
    <3>1. ToTheEnd(q).buffer = q.buffer
      BY <2>1 DEF ToTheEnd, enqueue, dequeue
    <3> QED
      BY <3>1 DEF BeforeFirstLap
  <2>2. CASE ~isFull(q)
    <3>1. front(q) \in ReservationRecords
      BY <1>1, FrontIsElement
    <3>2. ToTheEnd(q).buffer = Append(q.buffer, front(q))
      BY <1>1, <2>2 DEF QueuesOf, ToTheEnd, enqueue, dequeue
    <3>3. Len(ToTheEnd(q).buffer) = Len(q.buffer) + 1
      BY <1>2, <3>1, <3>2, AppendProperties
    <3> QED
      BY <1>2, <3>3, CapacityAssumption DEF BeforeFirstLap
  <2> QED
    BY <2>1, <2>2
<1>4. waiting[1] = q.buffer[q.frontIndex + 1]
  BY <1>1, <1>3, CapacityAssumption DEF Matches
<1> QED
  BY <1>1, <1>3, <1>4 DEF front

(* The one that goes to the end of the line was tried as well. *)
LEMMA PostponeTries ==
  ASSUME MatchInv, TriedInv, Postpone, BeforeFirstLap(pendingReservations')
  PROVE  TriedInVain(booksDB, waiting, rotationCount)'
<1> DEFINE w == waiting
           n == Len(waiting)
           r == rotationCount
<1>1. /\ processing /\ booksDB' = booksDB /\ r' = r + 1 /\ w' = Append(Tail(w), Head(w))
      /\ pendingReservations' = ToTheEnd(pendingReservations)
      /\ Available(booksDB, front(pendingReservations)) = {}
  BY DEF Postpone, GoesRound
<1>2. BeforeFirstLap(pendingReservations) /\ front(pendingReservations) = Head(w)
  BY <1>1, FrontIsFirst
<1>3. w \in Seq(ReservationRecords) /\ n >= pendingReservations.currentSize /\ r \in 0..Capacity
  BY DEF MatchInv, IndInv, ReservationsTypeOK
<1>4. n \in Nat /\ n > 0 /\ w # << >>
  <2>1. pendingReservations.currentSize \in 1..Capacity
    BY <1>1, NotEmptyAtWork DEF MatchInv
  <2>2. n \in Nat
    BY <1>3, LenProperties
  <2> QED
    BY <1>3, <2>1, <2>2, EmptySeq, CapacityAssumption
<1>5. \A i \in 1..n : i > n - r => Available(booksDB, w[i]) = {}
  BY <1>1, <1>2 DEF TriedInv, TriedInVain
<1>6. /\ Tail(w) \in Seq(ReservationRecords) /\ Len(Tail(w)) = n - 1
      /\ \A i \in 1..(n - 1) : Tail(w)[i] = w[i + 1]
      /\ Head(w) \in ReservationRecords
  BY <1>3, <1>4, HeadTailProperties
<1>7. /\ Len(w') = n /\ w'[n] = Head(w)
      /\ \A i \in 1..(n - 1) : w'[i] = w[i + 1]
  <2>1. /\ Len(w') = (n - 1) + 1 /\ w'[(n - 1) + 1] = Head(w)
        /\ \A i \in 1..(n - 1) : w'[i] = Tail(w)[i]
    BY <1>1, <1>6, AppendProperties
  <2>2. (n - 1) + 1 = n
    BY <1>4
  <2> QED
    BY <1>6, <2>1, <2>2, Zenon
<1>8. ASSUME NEW i \in 1..n, i > n - (r + 1)
      PROVE  Available(booksDB, w'[i]) = {}
  <2>1. CASE i = n
    BY <1>1, <1>2, <1>7, <2>1
  <2>2. CASE i # n
    <3>1. i \in 1..(n - 1) /\ i + 1 \in 1..n /\ i + 1 > n - r
      BY <1>3, <1>4, <1>8, <2>2, CapacityAssumption
    <3>2. w'[i] = w[i + 1]
      BY <1>7, <3>1
    <3> QED
      BY <1>5, <3>1, <3>2
  <2> QED
    BY <2>1, <2>2
<1> QED
  BY <1>1, <1>7, <1>8 DEF TriedInVain

LEMMA TriedInvStep == MatchInv /\ TriedInv /\ [ReservationsNext]_reservationVars => TriedInv'
<1> SUFFICES ASSUME MatchInv, TriedInv, [ReservationsNext]_reservationVars PROVE TriedInv'
  OBVIOUS
<1>1. CASE \/ \E book \in Books, copies \in 0..MaxCopies : indexBookToDB(book, copies)
           \/ \E i \in 1..Len(booksDB) : Restock(i)
           \/ \E reservation \in ReservationRecords : enqueueReservation(reservation)
  BY <1>1 DEF indexBookToDB, Restock, enqueueReservation, TriedInv
<1>2. CASE processReservation
  <2>1. CASE isEmpty(pendingReservations)
    BY <1>2, <2>1 DEF processReservation, TriedInv
  <2>2. CASE ~isEmpty(pendingReservations)
    <3>1. outcome' = "none" /\ rotationCount' = 0 /\ UNCHANGED <<waiting, booksDB>>
      BY <1>2, <2>2 DEF processReservation
    <3>2. Len(waiting) \in Nat
      BY LenProperties DEF MatchInv, IndInv, ReservationsTypeOK
    <3>3. TriedInVain(booksDB, waiting, rotationCount)'
      BY <3>1, <3>2 DEF TriedInVain
    <3> QED
      BY <3>1, <3>3 DEF TriedInv
  <2> QED
    BY <2>1, <2>2
<1>3. CASE Fulfil
  BY <1>3 DEF Fulfil, Ends, TriedInv
<1>4. CASE Postpone
  <2>1. processing' => outcome' = "none"
    BY <1>4 DEF Postpone, GoesRound, GoesOn, Ends, TriedInv
  <2> QED
    BY <1>4, <2>1, PostponeTries DEF TriedInv
<1>5. CASE UNCHANGED reservationVars
  BY <1>5 DEF reservationVars, TriedInv, BeforeFirstLap, TriedInVain
<1> QED
  BY <1>1, <1>2, <1>3, <1>4, <1>5 DEF ReservationsNext

(* When processReservation() throws ReservationRecordUnavailable, and the   *)
(* vector was not yet appended to Capacity times, none of those who wait    *)
(* could have been fulfilled, whatever the capacity and the books.          *)
THEOREM NobodyWasPassedOver == ReservationsSpec => UnavailableIsTrue
<1> DEFINE Inv == MatchInv /\ TriedInv
<1>1. ReservationsInit => Inv
  <2>1. ReservationsInit => Matches(pendingReservations, waiting)
    BY EmptySeq DEF ReservationsInit, NewQueue, Matches
  <2>2. ReservationsInit => TriedInv
    BY DEF ReservationsInit, TriedInv
  <2> QED
    BY <2>1, <2>2, InitHolds DEF MatchInv
<1>2. Inv /\ [ReservationsNext]_reservationVars => Inv'
  BY StepMatches, TriedInvStep
<1>3. Inv /\ Inv' /\ [ReservationsNext]_reservationVars =>
        [(outcome' = "unavailable" /\ processing /\ BeforeFirstLap(pendingReservations'))
           => \A i \in 1..Len(waiting') : Available(booksDB', waiting'[i]) = {}]_reservationVars
  <2> SUFFICES ASSUME Inv, Inv', [ReservationsNext]_reservationVars,
                      outcome' = "unavailable", processing, BeforeFirstLap(pendingReservations'),
                      NEW i \in 1..Len(waiting')
               PROVE  Available(booksDB', waiting'[i]) = {}
    OBVIOUS
  <2>1. outcome = "none"
    BY DEF TriedInv
  <2>2. Postpone
    BY <2>1 DEF ReservationsNext, indexBookToDB, Restock, enqueueReservation, processReservation,
                Fulfil, Ends, reservationVars
  <2>3. rotationCount' = pendingReservations'.currentSize
    BY <2>1, <2>2 DEF Postpone, GoesOn, Ends
  <2>4. TriedInVain(booksDB, waiting, rotationCount)'
    BY <2>2, PostponeTries
  <2>5. Len(waiting') = pendingReservations'.currentSize /\ Len(waiting') \in Nat
    <3>1. waiting' \in Seq(ReservationRecords) /\ Matches(pendingReservations', waiting')
      BY DEF MatchInv, IndInv, ReservationsTypeOK
    <3> QED
      BY <3>1, LenProperties DEF Matches
  <2>6. i > Len(waiting') - rotationCount'
    BY <2>3, <2>5
  <2> QED
    BY <2>4, <2>6 DEF TriedInVain
<1> QED
  BY <1>1, <1>2, <1>3, PTL DEF ReservationsSpec, UnavailableIsTrue

-----------------------------------------------------------------------------
(* The hash table: numbers and remainders first. *)

(* A set of numbers has a least one. *)
LEMMA LeastNumber ==
  ASSUME NEW S \in SUBSET Nat, S # {}
  PROVE  Min(S) \in S /\ \A n \in S : Min(S) <= n
<1>1. PICK m \in S : \A n \in S : <<n, m>> \notin OpToRel(<, Nat)
  BY WFMin, NatLessThanWellFounded, Zenon
<1>2. \A n \in S : ~(n < m)
  BY <1>1, Zenon DEF OpToRel
<1>3. \A n \in S : m <= n
  BY <1>2
<1> QED
  BY <1>3 DEF Min

(* A set of numbers that has a bound has a greatest one. *)
LEMMA GreatestNumber ==
  ASSUME NEW S \in SUBSET Nat, S # {}, NEW n \in Nat, \A x \in S : x <= n
  PROVE  Max(S) \in S /\ \A x \in S : x <= Max(S)
<1> DEFINE Below == {n - x : x \in S}
<1>1. Below \in SUBSET Nat /\ Below # {}
  <2>1. \A x \in S : n - x \in Nat
    OBVIOUS
  <2> QED
    BY <2>1, Zenon
<1>2. PICK d \in Below : \A b \in Below : d <= b
  BY <1>1, LeastNumber, Zenon
<1>3. PICK m \in S : d = n - m
  BY <1>2
<1>4. \A x \in S : n - m <= n - x
  BY <1>2, <1>3
<1>5. \A x \in S : m >= x
  BY <1>4
<1>6. Max(S) \in S /\ \A x \in S : Max(S) >= x
  BY <1>5, Zenon DEF Max
<1> QED
  BY <1>6

(* The remainder is the one number below the divisor a multiple away. *)
LEMMA RemainderIs ==
  ASSUME NEW n \in Nat, n > 0, NEW q \in Int, NEW r \in 0..(n - 1)
  PROVE  (n * q + r) % n = r
OBVIOUS

LEMMA RemainderOf ==
  ASSUME NEW n \in Nat, n > 0, NEW a \in Int
  PROVE  a % n \in 0..(n - 1) /\ a = n * (a \div n) + (a % n) /\ a \div n \in Int
OBVIOUS

(* From anywhere, in a table of that size, every bucket is a distance away. *)
LEMMA EveryBucketAhead ==
  ASSUME NEW n \in Nat, n > 0, NEW a \in Int, NEW j \in 0..(n - 1)
  PROVE  \E d \in 0..(n - 1) : (a + d) % n = j
<1> DEFINE q == a \div n
           r == a % n
<1>1. r \in 0..(n - 1) /\ a = n * q + r /\ q \in Int
  BY RemainderOf
<1> HIDE DEF q, r
<1>2. CASE r <= j
  <2>1. a + (j - r) = n * q + j /\ j - r \in 0..(n - 1)
    BY <1>1, <1>2
  <2> QED
    BY <1>1, <2>1, RemainderIs
<1>3. CASE j < r
  <2>1. n * (q + 1) = n * q + n
    BY <1>1
  <2>2. a + (j - r + n) = n * (q + 1) + j /\ j - r + n \in 0..(n - 1) /\ q + 1 \in Int
    BY <1>1, <1>3, <2>1
  <2> QED
    BY <2>2, RemainderIs
<1> QED
  BY <1>1, <1>2, <1>3

(* Two distances that differ lead to two buckets. *)
LEMMA BucketsAheadDiffer ==
  ASSUME NEW n \in Nat, n > 0, NEW a \in 0..(n - 1), NEW d \in 0..(n - 1), NEW e \in 0..(n - 1),
         (a + d) % n = (a + e) % n
  PROVE  d = e
<1>1. ASSUME NEW x \in 0..(n - 1)
      PROVE  (a + x) % n = IF a + x < n THEN a + x ELSE a + x - n
  <2>1. CASE a + x < n
    <3>1. n * 0 = 0
      OBVIOUS
    <3>2. a + x = n * 0 + (a + x) /\ a + x \in 0..(n - 1)
      BY <2>1, <3>1
    <3> QED
      BY <2>1, <3>2, RemainderIs
  <2>2. CASE ~(a + x < n)
    <3>1. n * 1 = n
      OBVIOUS
    <3>2. a + x = n * 1 + (a + x - n) /\ a + x - n \in 0..(n - 1)
      BY <2>2, <3>1
    <3> QED
      BY <2>2, <3>2, RemainderIs
  <2> QED
    BY <2>1, <2>2
<1>2. (IF a + d < n THEN a + d ELSE a + d - n) = (IF a + e < n THEN a + e ELSE a + e - n)
  BY <1>1
<1> QED
  BY <1>2

-----------------------------------------------------------------------------
(* The buckets of a table, and the order in which they are probed. *)

Sized(t, size) == size \in 1..MaxSize /\ t \in [0..(size - 1) -> Buckets]

HasFree(t) == \E i \in DOMAIN t : ~t[i].occupied

LEMMA SizeBounds ==
  /\ MaxSize \in Nat /\ MaxFirstSize <= MaxSize /\ 3 * MaxOccupied <= MaxSize
  /\ MaxFirstSize \in Nat /\ MaxOccupied \in Nat /\ HopRange \in Nat
<1> DEFINE Bounds == {MaxFirstSize, 3 * MaxOccupied}
<1>1. MaxFirstSize \in Nat /\ MaxOccupied \in Nat /\ HopRange \in Nat
  BY HashTableAssumption
<1>2. /\ Bounds \in SUBSET Nat /\ Bounds # {}
      /\ \A x \in Bounds : x <= MaxFirstSize + 3 * MaxOccupied
  BY <1>1
<1>3. MaxFirstSize + 3 * MaxOccupied \in Nat
  BY <1>1
<1>4. Max(Bounds) \in Bounds /\ \A x \in Bounds : x <= Max(Bounds)
  BY <1>2, <1>3, GreatestNumber, Zenon
<1>5. MaxFirstSize \in Bounds /\ 3 * MaxOccupied \in Bounds /\ MaxSize = Max(Bounds)
  BY Zenon DEF MaxSize
<1> HIDE DEF Bounds
<1>6. MaxSize \in Nat /\ MaxFirstSize <= MaxSize /\ 3 * MaxOccupied <= MaxSize
  BY <1>2, <1>4, <1>5
<1> QED
  BY <1>1, <1>6

LEMMA SizeOf ==
  ASSUME NEW size \in Nat, NEW S, NEW t \in [0..(size - 1) -> S]
  PROVE  tableSize(t) = size /\ DOMAIN t = 0..(size - 1)
<1>1. Cardinality(0..(size - 1)) = IF 0 > size - 1 THEN 0 ELSE size - 1 - 0 + 1
  BY FS_Interval
<1> QED
  BY <1>1 DEF tableSize

(* The hash of a key is a bucket of the table. *)
LEMMA HashInTable ==
  ASSUME NEW size \in 1..MaxSize, NEW k \in TableKeys
  PROVE  hashKey(k, size) \in 0..(size - 1)
<1> DEFINE Primes == {i \in 2..(size - 1) : isPrime(i)}
<1>1. size \in Nat /\ size > 0 /\ size \in 1..MaxSize
  BY SizeBounds
<1>2. largestPrimeBelow[size] = IF size <= 2 THEN -1 ELSE Max(Primes)
  BY <1>1 DEF largestPrimeBelow
<1>3. largestPrimeBelow[size] \in Int
  <2>1. CASE size <= 2
    BY <1>2, <2>1
  <2>2. CASE ~(size <= 2)
    <3>1. 2 \in Primes /\ Primes \in SUBSET Nat /\ \A x \in Primes : x <= size
      BY <1>1, <2>2 DEF isPrime
    <3>2. Max(Primes) \in Primes
      BY <1>1, <3>1, GreatestNumber
    <3>3. Max(Primes) \in Nat
      BY <3>1, <3>2, Zenon
    <3>4. largestPrimeBelow[size] = Max(Primes)
      BY <1>2, <2>2, Zenon
    <3> QED
      BY <3>3, <3>4
  <2> QED
    BY <2>1, <2>2
<1>4. CharSum[k] \in Nat
  BY HashTableAssumption
<1> HIDE DEF Primes
<1>5. CharSum[k] * largestPrimeBelow[size] \in Int
  BY <1>3, <1>4
<1> QED
  BY <1>1, <1>5, RemainderOf DEF hashKey

(* The probes for a key reach every bucket, each at one distance. *)
LEMMA ProbesReachAll ==
  ASSUME NEW t, NEW size, Sized(t, size), NEW k \in TableKeys
  PROVE  /\ \A d \in 0..(size - 1) : Probes(t, k)[d] \in 0..(size - 1)
         /\ \A i \in 0..(size - 1) : \E d \in 0..(size - 1) : Probes(t, k)[d] = i
         /\ \A d, e \in 0..(size - 1) : Probes(t, k)[d] = Probes(t, k)[e] => d = e
<1> DEFINE start == hashKey(k, size)
<1>1. /\ size \in 1..MaxSize /\ size \in Nat /\ size > 0
      /\ tableSize(t) = size /\ DOMAIN t = 0..(size - 1)
  BY SizeBounds, SizeOf DEF Sized
<1>2. start \in 0..(size - 1) /\ start \in Int
  BY <1>1, HashInTable
<1>3. Probes(t, k) = [d \in 0..(size - 1) |-> (start + d) % size]
  BY <1>1 DEF Probes
<1> HIDE DEF start
<1>4. ASSUME NEW d \in 0..(size - 1)
      PROVE  (start + d) % size \in 0..(size - 1)
  BY <1>1, <1>2, RemainderOf
<1>5. ASSUME NEW i \in 0..(size - 1)
      PROVE  \E d \in 0..(size - 1) : (start + d) % size = i
  BY <1>1, <1>2, EveryBucketAhead
<1>6. ASSUME NEW d \in 0..(size - 1), NEW e \in 0..(size - 1),
             (start + d) % size = (start + e) % size
      PROVE  d = e
  BY <1>1, <1>2, <1>6, BucketsAheadDiffer
<1> QED
  BY <1>3, <1>4, <1>5, <1>6

-----------------------------------------------------------------------------
(* What a search finds. *)

LEMMA BucketParts ==
  /\ \A b \in Buckets : b.occupied \in BOOLEAN
  /\ \A b \in Buckets : b.occupied => b.key \in TableKeys /\ b.value \in Values
  /\ \A b \in Buckets : b.occupied => b = Bucket(b.key, b.value)
  /\ \A k \in TableKeys, v \in Values :
       /\ Bucket(k, v) \in Buckets /\ Bucket(k, v).occupied
       /\ Bucket(k, v).key = k /\ Bucket(k, v).value = v
  /\ Vacant \in Buckets /\ ~Vacant.occupied
<1>1. \A k \in TableKeys, v \in Values :
        Bucket(k, v).occupied = TRUE /\ Bucket(k, v).key = k /\ Bucket(k, v).value = v
  BY DEF Bucket
<1>2. Vacant.occupied = FALSE
  BY DEF Vacant
<1>3. \A b \in Buckets : b = Vacant \/ \E k \in TableKeys, v \in Values : b = Bucket(k, v)
  BY SMT DEF Buckets
<1>4. Vacant \in Buckets /\ \A k \in TableKeys, v \in Values : Bucket(k, v) \in Buckets
  BY SMT DEF Buckets
<1> QED
  <2>1. \A k \in TableKeys, v \in Values : Bucket(k, v).occupied
    BY <1>1
  <2>2. ~Vacant.occupied
    BY <1>2
  <2>3. \A b \in Buckets : b.occupied \in BOOLEAN
    <3>1. /\ Vacant.occupied \in BOOLEAN
          /\ \A k \in TableKeys, v \in Values : Bucket(k, v).occupied \in BOOLEAN
      BY <1>1, <1>2
    <3> QED
      BY <1>3, <3>1, Zenon
  <2>4. \A b \in Buckets : b.occupied => b.key \in TableKeys /\ b.value \in Values
    BY <1>1, <1>2, <1>3
  <2>5. \A b \in Buckets : b.occupied => b = Bucket(b.key, b.value)
    <3> SUFFICES ASSUME NEW b \in Buckets, b.occupied
                 PROVE  b = Bucket(b.key, b.value)
      OBVIOUS
    <3>1. PICK k \in TableKeys, v \in Values : b = Bucket(k, v)
      BY <1>3, <2>2, Zenon
    <3>2. b.key = k /\ b.value = v
      BY <1>1, <3>1, Zenon
    <3> QED
      BY <3>1, <3>2, Zenon
  <2>6. \A k \in TableKeys, v \in Values :
          Bucket(k, v).key = k /\ Bucket(k, v).value = v
    BY <1>1, Zenon
  <2> QED
    BY <1>4, <2>1, <2>2, <2>3, <2>4, <2>5, <2>6, Zenon

LEMMA OccupiedParts ==
  ASSUME NEW t, NEW size, Sized(t, size)
  PROVE  /\ size \in Nat /\ size > 0 /\ DOMAIN t = 0..(size - 1) /\ tableSize(t) = size
         /\ Occupied(t) \subseteq 0..(size - 1)
         /\ \A i \in 0..(size - 1) : t[i] \in Buckets /\ (i \in Occupied(t) <=> t[i].occupied)
         /\ \A i \in Occupied(t) : t[i].key \in TableKeys /\ t[i].value \in Values
<1>1. size \in Nat /\ size > 0 /\ t \in [0..(size - 1) -> Buckets]
  BY SizeBounds DEF Sized
<1>2. DOMAIN t = 0..(size - 1) /\ tableSize(t) = size
  BY <1>1, SizeOf
<1>3. \A i \in 0..(size - 1) : t[i] \in Buckets /\ (i \in Occupied(t) <=> t[i].occupied)
  BY <1>1, <1>2, Zenon DEF Occupied
<1>4. Occupied(t) \subseteq 0..(size - 1)
  BY <1>2, Zenon DEF Occupied
<1>5. \A i \in Occupied(t) : t[i].key \in TableKeys /\ t[i].value \in Values
  BY <1>3, <1>4, BucketParts, Zenon
<1> QED
  BY <1>1, <1>2, <1>3, <1>4, <1>5

StopsAt(t, k, d) ==
  /\ t[Probes(t, k)[d]].occupied => t[Probes(t, k)[d]].key = k
  /\ \A e \in 0..(d - 1) : t[Probes(t, k)[e]].occupied /\ t[Probes(t, k)[e]].key # k

(* A search stops, at the key or at the first free bucket of its run, when *)
(* there is either of them.                                                *)
LEMMA FindStops ==
  ASSUME NEW t, NEW size, Sized(t, size), NEW k \in TableKeys, find(t, k) # Endless
  PROVE  \E d \in 0..(size - 1) :
           /\ StopsAt(t, k, d)
           /\ find(t, k) = IF t[Probes(t, k)[d]].occupied THEN Probes(t, k)[d] ELSE NotFound
<1> DEFINE at == Probes(t, k)
           stops == {d \in DOMAIN t : t[at[d]].occupied => t[at[d]].key = k}
<1>1. DOMAIN t = 0..(size - 1) /\ size \in Nat
  BY OccupiedParts
<1>2. stops # {}
  BY DEF find
<1>5. find(t, k) = IF t[at[Min(stops)]].occupied THEN at[Min(stops)] ELSE NotFound
  BY <1>2, Zenon DEF find
<1> HIDE DEF at
<1>7. stops \in SUBSET Nat
  BY <1>1
<1>8. Min(stops) \in stops /\ \A e \in stops : Min(stops) <= e
  BY <1>2, <1>7, LeastNumber, Zenon
<1>9. \A e \in 0..(Min(stops) - 1) : e \in 0..(size - 1) /\ ~(Min(stops) <= e)
  <2> DEFINE m == Min(stops)
  <2>1. m \in 0..(size - 1)
    BY <1>1, <1>8, Zenon
  <2> HIDE DEF m, stops
  <2>2. \A e \in 0..(m - 1) : e \in 0..(size - 1) /\ ~(m <= e)
    BY <1>1, <2>1
  <2> QED
    BY <2>2 DEF m
<1>10. \A e \in 0..(Min(stops) - 1) : t[at[e]].occupied /\ t[at[e]].key # k
  BY <1>1, <1>8, <1>9
<1>11. StopsAt(t, k, Min(stops))
  BY <1>8, <1>10 DEF StopsAt, at
<1> QED
  BY <1>1, <1>5, <1>8, <1>11 DEF at

(* An endless search has met every bucket: all are occupied, none with k. *)
LEMMA EndlessMeetsAll ==
  ASSUME NEW t, NEW size, Sized(t, size), NEW k \in TableKeys, find(t, k) = Endless
  PROVE  ~HasFree(t) /\ k \notin Held(t)
<1> DEFINE at == Probes(t, k)
           stops == {d \in DOMAIN t : t[at[d]].occupied => t[at[d]].key = k}
<1>4. DOMAIN t = 0..(size - 1) /\ size \in Nat /\ Occupied(t) \subseteq 0..(size - 1)
  BY OccupiedParts, Zenon
<1>5. /\ \A d \in 0..(size - 1) : at[d] \in 0..(size - 1)
      /\ \A i \in 0..(size - 1) : \E d \in 0..(size - 1) : at[d] = i
  BY ProbesReachAll, Zenon
<1>1. /\ DOMAIN t = 0..(size - 1) /\ size \in Nat /\ Occupied(t) \subseteq 0..(size - 1)
      /\ \A d \in 0..(size - 1) : at[d] \in 0..(size - 1)
      /\ \A i \in 0..(size - 1) : \E d \in 0..(size - 1) : at[d] = i
  BY <1>4, <1>5, Zenon
<1>2. stops = {}
  <2> SUFFICES ASSUME stops # {} PROVE FALSE
    OBVIOUS
  <2>1. find(t, k) = IF t[at[Min(stops)]].occupied THEN at[Min(stops)] ELSE NotFound
    BY Zenon DEF find
  <2> HIDE DEF at
  <2>2. stops \in SUBSET Nat
    BY <1>1
  <2>3. Min(stops) \in stops
    BY <2>2, LeastNumber, Zenon
  <2>4. at[Min(stops)] \in 0..(size - 1)
    BY <1>1, <2>3
  <2> HIDE DEF stops
  <2> QED
    BY <1>1, <2>1, <2>4 DEF Endless, NotFound
<1> HIDE DEF at
<1>3. \A i \in 0..(size - 1) : t[i].occupied /\ t[i].key # k
  BY <1>1, <1>2
<1> QED
  BY <1>1, <1>3 DEF HasFree, Held

(* What it finds is an occupied bucket with the key. *)
LEMMA FoundHasKey ==
  ASSUME NEW t, NEW size, Sized(t, size), NEW k \in TableKeys, find(t, k) \in DOMAIN t
  PROVE  find(t, k) \in Occupied(t) /\ t[find(t, k)].key = k
<1>0. find(t, k) \in 0..(size - 1) /\ find(t, k) # Endless /\ find(t, k) # NotFound
  BY OccupiedParts DEF Endless, NotFound
<1>1. PICK d \in 0..(size - 1) :
        /\ StopsAt(t, k, d)
        /\ find(t, k) = IF t[Probes(t, k)[d]].occupied THEN Probes(t, k)[d] ELSE NotFound
  BY <1>0, FindStops, Zenon
<1>3. t[Probes(t, k)[d]].occupied /\ find(t, k) = Probes(t, k)[d]
  BY <1>0, <1>1, Zenon
<1>4. t[find(t, k)].occupied /\ t[find(t, k)].key = k
  BY <1>1, <1>3, Zenon DEF StopsAt
<1> QED
  BY <1>0, <1>4, OccupiedParts, Zenon

(* It finds a bucket or says that there is none, or does not say. *)
LEMMA FindKinds ==
  ASSUME NEW t, NEW size, Sized(t, size), NEW k \in TableKeys
  PROVE  find(t, k) \in DOMAIN t \cup {NotFound, Endless}
<1> SUFFICES ASSUME find(t, k) # Endless PROVE find(t, k) \in DOMAIN t \cup {NotFound}
  OBVIOUS
<1>1. PICK d \in 0..(size - 1) :
        find(t, k) = IF t[Probes(t, k)[d]].occupied THEN Probes(t, k)[d] ELSE NotFound
  BY FindStops, Zenon
<1>2. Probes(t, k)[d] \in 0..(size - 1)
  BY ProbesReachAll, Zenon
<1>3. DOMAIN t = 0..(size - 1)
  BY OccupiedParts, Zenon
<1> QED
  BY <1>1, <1>2, <1>3

LEMMA HeldIsFound ==
  ASSUME NEW t, NEW size, Sized(t, size), NEW k \in TableKeys, k \notin Held(t)
  PROVE  find(t, k) \in {NotFound, Endless}
BY FoundHasKey, FindKinds, Zenon DEF Held

(* No key twice. *)
Once(t) == \A i, j \in Occupied(t) : t[i].key = t[j].key => i = j

(* Nothing is free in front of bucket i, for who looks for key k. *)
RunReaches(t, k, i) ==
  \E d \in DOMAIN t : /\ Probes(t, k)[d] = i
                      /\ \A e \in 0..(d - 1) : t[Probes(t, k)[e]].occupied

Reached(t) == \A i \in Occupied(t) : RunReaches(t, t[i].key, i)

(* A key that is held once, with no gap in front of it, is found. *)
LEMMA ReachedIsFound ==
  ASSUME NEW t, NEW size, Sized(t, size), Once(t), Reached(t), NEW i \in Occupied(t)
  PROVE  find(t, t[i].key) = i
<1> DEFINE k == t[i].key
<1>1. /\ k \in TableKeys /\ size \in Nat /\ DOMAIN t = 0..(size - 1)
      /\ \A j \in 0..(size - 1) : t[j].occupied => j \in Occupied(t)
  BY OccupiedParts
<1>2. PICK d \in 0..(size - 1) : /\ Probes(t, k)[d] = i
                                 /\ \A e \in 0..(d - 1) : t[Probes(t, k)[e]].occupied
  BY <1>1 DEF Reached, RunReaches
<1>3. t[i].occupied
  BY DEF Occupied
<1>10. find(t, k) # Endless
  <2>1. k \in Held(t)
    BY Zenon DEF Held
  <2> QED
    BY <1>1, <2>1, EndlessMeetsAll, Zenon
<1> HIDE DEF k
<1>4. PICK s \in 0..(size - 1) :
        /\ StopsAt(t, k, s)
        /\ find(t, k) = IF t[Probes(t, k)[s]].occupied THEN Probes(t, k)[s] ELSE NotFound
  BY <1>1, <1>10, FindStops, Zenon
<1>5. /\ \A x \in 0..(size - 1) : Probes(t, k)[x] \in 0..(size - 1)
      /\ \A x, y \in 0..(size - 1) : Probes(t, k)[x] = Probes(t, k)[y] => x = y
  BY <1>1, ProbesReachAll, Zenon
<1>6. CASE s = d
  BY <1>2, <1>3, <1>4, <1>6, Zenon DEF k
<1>7. CASE s \in 0..(d - 1)
  <2>1. t[Probes(t, k)[s]].occupied /\ t[Probes(t, k)[s]].key = k
    BY <1>2, <1>4, <1>7, Zenon DEF StopsAt
  <2>2. Probes(t, k)[s] = i
    BY <1>1, <1>5, <2>1 DEF Once, k
  <2> QED
    BY <1>2, <1>5, <1>6, <2>2, Zenon
<1>8. CASE d \in 0..(s - 1)
  BY <1>2, <1>4, <1>8 DEF StopsAt, k
<1>9. s = d \/ s \in 0..(d - 1) \/ d \in 0..(s - 1)
  BY <1>1
<1> QED
  BY <1>6, <1>7, <1>8, <1>9 DEF k

-----------------------------------------------------------------------------
(* Where a key is put. *)

(* The slot is free, and in the hop range it is the first of its run. *)
LEMMA SlotIsFree ==
  ASSUME NEW t, NEW size, Sized(t, size), HasFree(t), NEW k \in TableKeys
  PROVE  /\ SlotFor(t, k) \in 0..(size - 1) /\ ~t[SlotFor(t, k)].occupied
         /\ NearOffsets(t, k) # {} => RunReaches(t, k, SlotFor(t, k))
<1> DEFINE at == Probes(t, k)
           near == NearOffsets(t, k)
<1>1. DOMAIN t = 0..(size - 1) /\ size \in Nat /\ size > 0 /\ tableSize(t) = size
  BY OccupiedParts
<1>2. \A d \in 0..(size - 1) : at[d] \in 0..(size - 1)
  BY ProbesReachAll, Zenon
<1>3. HopRange \in Nat
  BY SizeBounds
<1>4. near = {d \in 0..(size - 1) : d < HopRange /\ ~t[at[d]].occupied}
  BY <1>1, Zenon DEF NearOffsets
<1>5. CASE near # {}
  <2>1. near \in SUBSET Nat
    BY <1>1, <1>4
  <2>2. SlotFor(t, k) = at[Min(near)]
    BY <1>5 DEF SlotFor
  <2> HIDE DEF at, near
  <2>3. Min(near) \in near /\ \A e \in near : Min(near) <= e
    BY <1>5, <2>1, LeastNumber, Zenon
  <2>4. Min(near) \in 0..(size - 1) /\ Min(near) < HopRange /\ ~t[at[Min(near)]].occupied
    BY <1>4, <2>3, Zenon
  <2>5. ASSUME NEW e \in 0..(Min(near) - 1)
        PROVE  t[at[e]].occupied
    <3>1. e \in 0..(size - 1) /\ e < HopRange /\ e \notin near
      BY <1>1, <1>3, <2>3, <2>4
    <3> QED
      BY <1>4, <3>1
  <2>6. RunReaches(t, k, at[Min(near)])
    BY <1>1, <2>4, <2>5 DEF RunReaches, at
  <2> QED
    BY <1>2, <2>2, <2>4, <2>6
<1>6. CASE near = {}
  <2> DEFINE hop == 2 ^ HopRange
             free == {d \in DOMAIN t : ~t[(hop + d) % tableSize(t)].occupied}
  <2>1. SlotFor(t, k) = (hop + Min(free)) % size
    BY <1>1, <1>6 DEF SlotFor, findFreeSlot
  <2>2. hop \in Int
    BY <1>3
  <2> HIDE DEF hop
  <2>3. PICK i \in 0..(size - 1) : ~t[i].occupied
    BY <1>1 DEF HasFree
  <2>4. PICK d \in 0..(size - 1) : (hop + d) % size = i
    <3>1. size > 0
      BY <1>1
    <3> QED
      BY <1>1, <2>2, <3>1, EveryBucketAhead, Zenon
  <2>5. d \in free /\ free \in SUBSET Nat
    <3>1. d \in DOMAIN t
      BY <1>1, <2>4
    <3>3. \A x \in DOMAIN t : x \in Nat
      BY <1>1
    <3>2. ~t[(hop + d) % tableSize(t)].occupied
      BY <1>1, <2>3, <2>4, Zenon
    <3> QED
      BY <3>1, <3>2, <3>3, Zenon
  <2>6. Min(free) \in free
    BY <2>5, LeastNumber, Zenon
  <2>7. ~t[(hop + Min(free)) % size].occupied /\ Min(free) \in Nat
    BY <1>1, <2>5, <2>6
  <2> HIDE DEF free
  <2>8. (hop + Min(free)) % size \in 0..(size - 1)
    BY <1>1, <2>2, <2>7, RemainderOf
  <2> QED
    BY <1>6, <2>1, <2>7, <2>8
<1> QED
  BY <1>5, <1>6

LEMMA SameProbes ==
  ASSUME NEW t, NEW u, DOMAIN u = DOMAIN t
  PROVE  \A k : Probes(u, k) = Probes(t, k)
BY DEF Probes, tableSize

(* Placing a key fills one free bucket and leaves the others. *)
LEMMA PlaceFills ==
  ASSUME NEW t, NEW size, Sized(t, size), HasFree(t), NEW k \in TableKeys, NEW v \in Values
  PROVE  /\ Sized(Place(t, k, v), size)
         /\ SlotFor(t, k) \in 0..(size - 1) /\ SlotFor(t, k) \notin Occupied(t)
         /\ Place(t, k, v)[SlotFor(t, k)] = Bucket(k, v)
         /\ \A i \in 0..(size - 1) : i # SlotFor(t, k) => Place(t, k, v)[i] = t[i]
         /\ Occupied(Place(t, k, v)) = Occupied(t) \cup {SlotFor(t, k)}
<1> DEFINE s == SlotFor(t, k)
           u == Place(t, k, v)
<1>1. s \in 0..(size - 1) /\ ~t[s].occupied
  BY SlotIsFree
<1>2. Bucket(k, v) \in Buckets /\ Bucket(k, v).occupied
  BY BucketParts
<1>3. u = [t EXCEPT ![s] = Bucket(k, v)]
  BY DEF Place
<1>4. t \in [0..(size - 1) -> Buckets] /\ Sized(t, size)
  BY DEF Sized
<1> HIDE DEF s, u
<1>5. /\ u \in [0..(size - 1) -> Buckets] /\ u[s] = Bucket(k, v)
      /\ \A i \in 0..(size - 1) : i # s => u[i] = t[i]
  BY <1>1, <1>2, <1>3, <1>4
<1>6. Sized(u, size)
  BY <1>5 DEF Sized
<1>7. s \notin Occupied(t)
  BY <1>1 DEF Occupied
<1>8. Occupied(u) = Occupied(t) \cup {s}
  BY <1>1, <1>2, <1>4, <1>5 DEF Occupied
<1> QED
  BY <1>1, <1>5, <1>6, <1>7, <1>8 DEF s, u

-----------------------------------------------------------------------------
(* What placing a key preserves. *)

LEMMA OccupiedFinite ==
  ASSUME NEW t, NEW size, Sized(t, size)
  PROVE  /\ IsFiniteSet(Occupied(t)) /\ Cardinality(Occupied(t)) \in Nat
         /\ Cardinality(Occupied(t)) < size => HasFree(t)
         /\ HasFree(t) => Cardinality(Occupied(t)) < size
<1>1. /\ size \in Nat /\ size > 0 /\ DOMAIN t = 0..(size - 1) /\ Occupied(t) \subseteq 0..(size - 1)
      /\ \A i \in 0..(size - 1) : t[i].occupied <=> i \in Occupied(t)
  BY OccupiedParts
<1>2. IsFiniteSet(0..(size - 1)) /\ Cardinality(0..(size - 1)) = size
  BY <1>1, FS_Interval
<1>3. /\ IsFiniteSet(Occupied(t)) /\ Cardinality(Occupied(t)) <= size
      /\ Cardinality(Occupied(t)) = size => Occupied(t) = 0..(size - 1)
  BY <1>1, <1>2, FS_Subset
<1>4. Cardinality(Occupied(t)) \in Nat
  BY <1>3, FS_CardinalityType
<1>5. HasFree(t) <=> Occupied(t) # 0..(size - 1)
  BY <1>1, Zenon DEF HasFree
<1>6. Occupied(t) = 0..(size - 1) => Cardinality(Occupied(t)) = size
  BY <1>2
<1> QED
  BY <1>1, <1>3, <1>4, <1>5, <1>6

LEMMA PlaceCounts ==
  ASSUME NEW t, NEW size, Sized(t, size), HasFree(t), NEW k \in TableKeys, NEW v \in Values
  PROVE  Cardinality(Occupied(Place(t, k, v))) = Cardinality(Occupied(t)) + 1
BY PlaceFills, OccupiedFinite, FS_AddElement

LEMMA PlaceHolds ==
  ASSUME NEW t, NEW size, Sized(t, size), HasFree(t), NEW k \in TableKeys, NEW v \in Values
  PROVE  /\ \A i \in Occupied(t) :
              i \in Occupied(Place(t, k, v)) /\ Place(t, k, v)[i] = t[i]
         /\ \E s \in Occupied(Place(t, k, v)) :
              /\ Place(t, k, v)[s] = Bucket(k, v)
              /\ \A i \in Occupied(Place(t, k, v)) : i = s \/ i \in Occupied(t)
<1>1. Occupied(t) \subseteq 0..(size - 1)
  BY OccupiedParts
<1> QED
  BY <1>1, PlaceFills

LEMMA PlaceOnce ==
  ASSUME NEW t, NEW size, Sized(t, size), HasFree(t), NEW k \in TableKeys, NEW v \in Values,
         Once(t), k \notin Held(t)
  PROVE  Once(Place(t, k, v))
<1> DEFINE u == Place(t, k, v)
<1>1. \A i \in Occupied(t) : i \in Occupied(u) /\ u[i] = t[i]
  BY PlaceHolds
<1>2. PICK s \in Occupied(u) :
        u[s] = Bucket(k, v) /\ \A i \in Occupied(u) : i = s \/ i \in Occupied(t)
  BY PlaceHolds
<1>3. u[s].key = k
  BY <1>2, BucketParts
<1>4. \A i \in Occupied(t) : u[i].key # k
  BY <1>1, Zenon DEF Held
<1> HIDE DEF u
<1>5. \A i, j \in Occupied(u) : u[i].key = u[j].key => i = j
  BY <1>1, <1>2, <1>3, <1>4, Zenon DEF Once
<1> QED
  BY <1>5, Zenon DEF Once, u

LEMMA PlaceReaches ==
  ASSUME NEW t, NEW size, Sized(t, size), HasFree(t), NEW k \in TableKeys, NEW v \in Values,
         Reached(t), NearOffsets(t, k) # {}
  PROVE  Reached(Place(t, k, v))
<1> DEFINE u == Place(t, k, v)
           s == SlotFor(t, k)
<1>1. /\ DOMAIN t = 0..(size - 1) /\ DOMAIN u = 0..(size - 1) /\ size \in Nat
      /\ \A i \in 0..(size - 1) : t[i].occupied <=> i \in Occupied(t)
      /\ \A i \in 0..(size - 1) : u[i].occupied <=> i \in Occupied(u)
      /\ Occupied(t) \subseteq 0..(size - 1)
  BY OccupiedParts, PlaceFills
<1>2. /\ u[s] = Bucket(k, v) /\ Occupied(u) = Occupied(t) \cup {s}
      /\ \A i \in 0..(size - 1) : i # s => u[i] = t[i]
      /\ s \notin Occupied(t)
  BY PlaceFills
<1>3. RunReaches(t, k, s)
  BY SlotIsFree, Zenon
<1>4. u[s].key = k
  BY <1>2, BucketParts
<1>5. \A x : Probes(u, x) = Probes(t, x)
  BY <1>1, SameProbes, Zenon
<1> HIDE DEF u, s
<1>6. ASSUME NEW x \in TableKeys, NEW i, RunReaches(t, x, i)
      PROVE  RunReaches(u, x, i)
  <2>1. PICK d \in 0..(size - 1) : /\ Probes(t, x)[d] = i
                                   /\ \A e \in 0..(d - 1) : t[Probes(t, x)[e]].occupied
    BY <1>1, <1>6 DEF RunReaches
  <2>2. \A e \in 0..(d - 1) : e \in 0..(size - 1)
    BY <1>1
  <2>3. \A e \in 0..(size - 1) : Probes(t, x)[e] \in 0..(size - 1)
    BY ProbesReachAll, Zenon
  <2>4. \A e \in 0..(d - 1) : u[Probes(t, x)[e]].occupied
    BY <1>1, <1>2, <2>1, <2>2, <2>3, Zenon
  <2>5. d \in DOMAIN u /\ Probes(u, x) = Probes(t, x)
    BY <1>1, <1>5, Zenon
  <2> QED
    BY <2>1, <2>4, <2>5, Zenon DEF RunReaches
<1>7. ASSUME NEW i \in Occupied(u)
      PROVE  RunReaches(u, u[i].key, i)
  <2>1. CASE i = s
    BY <1>3, <1>4, <1>6, <2>1, Zenon
  <2>2. CASE i # s
    <3>1. i \in Occupied(t) /\ u[i] = t[i]
      BY <1>1, <1>2, <2>2, Zenon
    <3>2. t[i].key \in TableKeys
      BY <3>1, OccupiedParts, Zenon
    <3>3. RunReaches(t, t[i].key, i)
      BY <3>1, Zenon DEF Reached
    <3> QED
      BY <1>6, <3>1, <3>2, <3>3, Zenon
  <2> QED
    BY <2>1, <2>2
<1> QED
  BY <1>7, Zenon DEF Reached, u

-----------------------------------------------------------------------------
(* The rehash. *)

(* What the loop of rehash() makes of the new table m at bucket i - 1. *)
AfterBucket(t, m, i) ==
  IF t[i - 1].occupied THEN Place(m, t[i - 1].key, t[i - 1].value) ELSE m

(* The tables of a rehash exist, and each comes from the one before. *)
LEMMA MovedStepByStep ==
  ASSUME NEW t, NEW size, Sized(t, size)
  PROVE  /\ Moved(t)[0] = NewTable(2 * size)
         /\ \A i \in 1..size : Moved(t)[i] = AfterBucket(t, Moved(t)[i - 1], i)
<1> DEFINE First == NewTable(2 * size)
           Turns(n, g) == g = [i \in 0..n |-> IF i = 0 THEN First ELSE AfterBucket(t, g[i - 1], i)]
           Good == {n \in 0..size : \E g : Turns(n, g)}
           Bad  == (0..size) \ Good
<1>1. size \in Nat /\ tableSize(t) = size
  BY OccupiedParts
<1>2. 0 \in Good
  <2> DEFINE g == [i \in 0..0 |-> First]
  <2>1. \A i \in 0..0 : i = 0
    OBVIOUS
  <2> HIDE DEF First
  <2>2. Turns(0, g)
    BY <2>1
  <2>3. 0 \in 0..size
    BY <1>1
  <2> QED
    BY <2>2, <2>3, Zenon
<1>3. ASSUME NEW n \in 1..size, n - 1 \in Good
      PROVE  n \in Good
  <2>1. PICK g : Turns(n - 1, g)
    BY <1>3
  <2> DEFINE h == [i \in 0..n |-> IF i = n THEN AfterBucket(t, g[n - 1], n) ELSE g[i]]
  <2> HIDE DEF First
  <2>2. ASSUME NEW i \in 0..n
        PROVE  h[i] = IF i = 0 THEN First ELSE AfterBucket(t, h[i - 1], i)
    <3>1. CASE i = n
      <4>1. h[n - 1] = g[n - 1] /\ n # 0 /\ h[n] = AfterBucket(t, g[n - 1], n)
        BY <1>1
      <4> QED
        BY <3>1, <4>1, Zenon
    <3>2. CASE i # n
      <4>1. i \in 0..(n - 1) /\ (i # 0 => i - 1 \in 0..n /\ i - 1 # n)
        BY <1>1, <3>2
      <4>2. h[i] = g[i] /\ (i # 0 => h[i - 1] = g[i - 1])
        BY <3>2, <4>1, Zenon
      <4>3. g[i] = IF i = 0 THEN First ELSE AfterBucket(t, g[i - 1], i)
        BY <2>1, <4>1, Zenon
      <4> QED
        BY <4>2, <4>3, Zenon
    <3> QED
      BY <3>1, <3>2
  <2>3. Turns(n, h)
    BY <2>2, Zenon
  <2>4. n \in 0..size
    BY <1>1
  <2> QED
    BY <2>3, <2>4, Zenon
<1> HIDE DEF Good
<1>4. Bad = {}
  <2> SUFFICES ASSUME Bad # {} PROVE FALSE
    OBVIOUS
  <2>1. Bad \in SUBSET Nat
    BY <1>1
  <2>2. PICK n \in Bad : \A x \in Bad : n <= x
    BY <2>1, LeastNumber, Zenon
  <2>3. n # 0
    BY <1>2, <2>2
  <2>4. n \in 1..size /\ n - 1 \in 0..size /\ ~(n <= n - 1)
    BY <1>1, <2>1, <2>2, <2>3
  <2>5. n - 1 \in Good
    BY <2>2, <2>4, Zenon
  <2> QED
    BY <1>3, <2>2, <2>4, <2>5
<1>5. PICK g : Turns(size, g)
  <2>1. size \in Good
    BY <1>1, <1>4
  <2> QED
    BY <2>1, Zenon DEF Good
<1>6. Moved(t) = CHOOSE m : m = [i \in 0..size |->
          IF i = 0 THEN First
          ELSE IF t[i - 1].occupied THEN Place(m[i - 1], t[i - 1].key, t[i - 1].value)
          ELSE m[i - 1]]
  BY <1>1, Zenon DEF Moved
<1>7. Turns(size, Moved(t))
  BY <1>5, <1>6 DEF AfterBucket
<1> HIDE DEF First
<1>8. Moved(t)[0] = First
  BY <1>1, <1>7
<1>9. ASSUME NEW i \in 1..size
      PROVE  Moved(t)[i] = AfterBucket(t, Moved(t)[i - 1], i)
  <2>1. i \in 0..size /\ i # 0
    BY <1>1
  <2> QED
    BY <1>7, <2>1, Zenon
<1> QED
  BY <1>8, <1>9, Zenon DEF First

(* The entries of u are those of t, up to bucket n of it. *)
SameEntries(t, u, n) ==
  /\ \A a \in Occupied(u) : \E j \in Occupied(t) : j < n /\ u[a] = t[j]
  /\ \A j \in Occupied(t) : j < n => \E a \in Occupied(u) : u[a] = t[j]

AllNear(t) == \A j \in Occupied(t) : NearOffsets(Moved(t)[j], t[j].key) # {}

(* After n buckets the new table holds these, and was never half full. *)
MovedWell(t, size, n) ==
  /\ Sized(Moved(t)[n], 2 * size)
  /\ Cardinality(Occupied(Moved(t)[n])) <= n
  /\ SameEntries(t, Moved(t)[n], n)
  /\ Once(t) => Once(Moved(t)[n])
  /\ AllNear(t) => Reached(Moved(t)[n])

LEMMA NewTableIsEmpty ==
  ASSUME NEW size \in 1..MaxSize
  PROVE  /\ Sized(NewTable(size), size) /\ Occupied(NewTable(size)) = {}
         /\ Cardinality(Occupied(NewTable(size))) = 0
         /\ Once(NewTable(size)) /\ Reached(NewTable(size))
<1>1. Vacant \in Buckets /\ ~Vacant.occupied
  BY BucketParts
<1>2. /\ NewTable(size) \in [0..(size - 1) -> Buckets]
      /\ \A i \in DOMAIN NewTable(size) : NewTable(size)[i] = Vacant
  BY <1>1 DEF NewTable
<1>3. Sized(NewTable(size), size)
  BY <1>2 DEF Sized
<1>4. Occupied(NewTable(size)) = {}
  BY <1>1, <1>2, Zenon DEF Occupied
<1> QED
  BY <1>3, <1>4, FS_EmptySet, Zenon DEF Once, Reached

LEMMA RehashTurn ==
  ASSUME NEW t, NEW size, Sized(t, size), 2 * size <= MaxSize, NEW n \in 1..size,
         MovedWell(t, size, n - 1)
  PROVE  MovedWell(t, size, n)
<1> DEFINE m == Moved(t)[n - 1]
           u == Moved(t)[n]
           b == t[n - 1]
<1>1. /\ size \in Nat /\ size > 0 /\ n - 1 \in 0..(size - 1) /\ n \in Nat /\ n - 1 \in Nat
      /\ n - 1 < n /\ \A j \in 0..(size - 1) : j < n <=> j < n - 1 \/ j = n - 1
  BY OccupiedParts
<1>2. u = AfterBucket(t, m, n)
  BY MovedStepByStep
<1>3. /\ Sized(m, 2 * size) /\ Cardinality(Occupied(m)) <= n - 1
      /\ Once(t) => Once(m)
      /\ AllNear(t) => Reached(m)
  BY DEF MovedWell
<1>4. /\ \A a \in Occupied(m) : \E j \in Occupied(t) : j < n - 1 /\ m[a] = t[j]
      /\ \A j \in Occupied(t) : j < n - 1 => \E a \in Occupied(m) : m[a] = t[j]
  BY DEF MovedWell, SameEntries
<1>5. Occupied(t) \subseteq 0..(size - 1) /\ (b.occupied <=> n - 1 \in Occupied(t))
  BY <1>1, OccupiedParts
<1> SUFFICES /\ Sized(u, 2 * size) /\ Cardinality(Occupied(u)) <= n
             /\ \A a \in Occupied(u) : \E j \in Occupied(t) : j < n /\ u[a] = t[j]
             /\ \A j \in Occupied(t) : j < n => \E a \in Occupied(u) : u[a] = t[j]
             /\ Once(t) => Once(u)
             /\ AllNear(t) => Reached(u)
  BY Zenon DEF MovedWell, SameEntries
<1>6. CASE ~b.occupied
  <2>1. u = m
    BY <1>2, <1>6 DEF AfterBucket
  <2>2. \A j \in Occupied(t) : j < n <=> j < n - 1
    BY <1>1, <1>5, <1>6
  <2>3. Cardinality(Occupied(m)) \in Nat
    BY <1>3, OccupiedFinite
  <2>4. Cardinality(Occupied(m)) <= n
    BY <1>1, <1>3, <2>3
  <2> HIDE DEF m, u
  <2> QED
    BY <1>3, <1>4, <2>1, <2>2, <2>4
<1>7. CASE b.occupied
  <2>1. n - 1 \in Occupied(t)
    BY <1>5, <1>7
  <2>2. b.key \in TableKeys /\ b.value \in Values /\ b = Bucket(b.key, b.value)
    <3>1. b \in Buckets
      BY <1>1, OccupiedParts
    <3>2. b.key \in TableKeys /\ b.value \in Values
      BY <1>7, <3>1, BucketParts
    <3>3. b = Bucket(b.key, b.value)
      BY <1>7, <3>1, BucketParts, Zenon
    <3> QED
      BY <3>2, <3>3, Zenon
  <2>3. u = Place(m, b.key, b.value)
    BY <1>2, <1>7 DEF AfterBucket
  <2>4. HasFree(m) /\ Cardinality(Occupied(m)) \in Nat
    BY <1>1, <1>3, OccupiedFinite
  <2>5. b.key \notin Held(m) \/ ~Once(t)
    <3> SUFFICES ASSUME NEW a \in Occupied(m), b.key = m[a].key, Once(t)
                 PROVE  FALSE
      BY DEF Held
    <3>1. PICK j \in Occupied(t) : j < n - 1 /\ m[a] = t[j]
      BY <1>4
    <3>2. j = n - 1
      BY <2>1, <3>1 DEF Once
    <3> QED
      BY <1>1, <3>1, <3>2
  <2>6. AllNear(t) => NearOffsets(m, b.key) # {}
    BY <2>1 DEF AllNear
  <2> HIDE DEF m, u, b
  <2>7. Sized(u, 2 * size) /\ Cardinality(Occupied(u)) <= n
    BY <1>1, <1>3, <2>2, <2>3, <2>4, PlaceFills, PlaceCounts
  <2>8. /\ \A i \in Occupied(m) : i \in Occupied(u) /\ u[i] = m[i]
        /\ \E s \in Occupied(u) : /\ u[s] = b
                                  /\ \A i \in Occupied(u) : i = s \/ i \in Occupied(m)
    BY <1>3, <2>2, <2>3, <2>4, PlaceHolds
  <2>9. ASSUME NEW a \in Occupied(u)
        PROVE  \E j \in Occupied(t) : j < n /\ u[a] = t[j]
    BY <1>1, <1>4, <1>5, <2>1, <2>8 DEF b
  <2>10. ASSUME NEW j \in Occupied(t), j < n
         PROVE  \E a \in Occupied(u) : u[a] = t[j]
    BY <1>1, <1>4, <1>5, <2>8, <2>10 DEF b
  <2>11. Once(t) => Once(u)
    BY <1>3, <2>2, <2>3, <2>4, <2>5, PlaceOnce
  <2>12. AllNear(t) => Reached(u)
    BY <1>3, <2>2, <2>3, <2>4, <2>6, PlaceReaches
  <2> QED
    BY <2>7, <2>9, <2>10, <2>11, <2>12
<1> QED
  BY <1>6, <1>7

LEMMA RehashMovesAll ==
  ASSUME NEW t, NEW size, Sized(t, size), 2 * size <= MaxSize
  PROVE  \A n \in 0..size : MovedWell(t, size, n)
<1> DEFINE Bad == {n \in 0..size : ~MovedWell(t, size, n)}
<1>1. size \in Nat /\ size > 0 /\ 2 * size \in 1..MaxSize
  BY OccupiedParts, SizeBounds
<1>2. MovedWell(t, size, 0)
  <2>1. Moved(t)[0] = NewTable(2 * size)
    BY MovedStepByStep
  <2>2. /\ Sized(Moved(t)[0], 2 * size) /\ Occupied(Moved(t)[0]) = {}
        /\ Cardinality(Occupied(Moved(t)[0])) = 0
        /\ Once(Moved(t)[0]) /\ Reached(Moved(t)[0])
    BY <1>1, <2>1, NewTableIsEmpty
  <2>3. \A j \in Occupied(t) : ~(j < 0)
    BY <1>1, OccupiedParts
  <2> QED
    BY <2>2, <2>3 DEF MovedWell, SameEntries
<1> SUFFICES ASSUME Bad # {} PROVE FALSE
  OBVIOUS
<1>3. Bad \in SUBSET Nat
  BY <1>1
<1>4. PICK n \in Bad : \A x \in Bad : n <= x
  BY <1>3, LeastNumber, Zenon
<1>5. n # 0
  BY <1>2, <1>4
<1>6. n \in 1..size /\ n - 1 \in 0..size /\ ~(n <= n - 1)
  BY <1>1, <1>3, <1>4, <1>5
<1>7. MovedWell(t, size, n - 1)
  BY <1>4, <1>6, Zenon
<1> QED
  BY <1>4, <1>6, <1>7, RehashTurn

-----------------------------------------------------------------------------
(* insert(). *)

(* The table that is inserted into: there is room, nothing was lost. *)
LEMMA RoomyIsRoomy ==
  ASSUME NEW t, NEW size, Sized(t, size), Cardinality(Occupied(t)) < MaxOccupied
  PROVE  \E wide : /\ Sized(Roomy(t), wide)
                   /\ Cardinality(Occupied(Roomy(t))) < wide
                   /\ wide > 3 => Cardinality(Occupied(Roomy(t))) + 1 < wide
                   /\ SameEntries(t, Roomy(t), size)
                   /\ Once(t) => Once(Roomy(t))
                   /\ (IF Loaded(t) THEN AllNear(t) ELSE Reached(t)) => Reached(Roomy(t))
<1> DEFINE count == Cardinality(Occupied(t))
<1>1. /\ size \in Nat /\ size > 0 /\ tableSize(t) = size /\ count \in Nat
      /\ MaxOccupied \in Nat /\ 3 * MaxOccupied <= MaxSize /\ MaxSize \in Nat
  BY OccupiedParts, OccupiedFinite, SizeBounds, HashTableAssumption
<1>2. Loaded(t) <=> 10 * count >= 7 * size
  BY <1>1 DEF Loaded
<1>3. CASE Loaded(t)
  <2>1. Roomy(t) = Moved(t)[size]
    BY <1>1, <1>3 DEF Roomy, rehash
  <2>2. 10 * count >= 7 * size /\ count < MaxOccupied
    BY <1>2, <1>3
  <2> HIDE DEF count
  <2>3. /\ 2 * size <= MaxSize /\ size \in 0..size /\ size < 2 * size
        /\ 2 * size > 3 => size + 1 < 2 * size
    BY <1>1, <2>2
  <2>4. MovedWell(t, size, size)
    BY <2>3, RehashMovesAll
  <2>5. /\ Sized(Roomy(t), 2 * size) /\ Cardinality(Occupied(Roomy(t))) <= size
        /\ SameEntries(t, Roomy(t), size)
        /\ Once(t) => Once(Roomy(t))
        /\ AllNear(t) => Reached(Roomy(t))
    BY <2>1, <2>4 DEF MovedWell
  <2>6. Cardinality(Occupied(Roomy(t))) \in Nat
    BY <2>5, OccupiedFinite
  <2>7. /\ Cardinality(Occupied(Roomy(t))) < 2 * size
        /\ 2 * size > 3 => Cardinality(Occupied(Roomy(t))) + 1 < 2 * size
    BY <1>1, <2>3, <2>5, <2>6
  <2> QED
    BY <1>3, <2>5, <2>7
<1>4. CASE ~Loaded(t)
  <2>1. Roomy(t) = t
    BY <1>4 DEF Roomy
  <2>2. 10 * count < 7 * size
    BY <1>1, <1>2, <1>4
  <2>3. Occupied(t) \subseteq 0..(size - 1) /\ \A j \in 0..(size - 1) : j < size
    BY <1>1, OccupiedParts
  <2>4. SameEntries(t, t, size)
    BY <2>3 DEF SameEntries
  <2> HIDE DEF count
  <2>5. count < size /\ (size > 3 => count + 1 < size)
    BY <1>1, <2>2
  <2> QED
    BY <1>4, <2>1, <2>4, <2>5 DEF count
<1> QED
  BY <1>3, <1>4

(* A table says of each key that it holds what the map c says. *)
Agrees(t, c) ==
  /\ Once(t) /\ Held(t) = DOMAIN c
  /\ \A i \in Occupied(t) : t[i].value = c[t[i].key]

With(c, k, v)  == [x \in DOMAIN c \cup {k} |-> IF x = k THEN v ELSE c[x]]
Without(c, k)  == [x \in DOMAIN c \ {k} |-> c[x]]

LEMMA PlaceAgrees ==
  ASSUME NEW t, NEW size, Sized(t, size), HasFree(t), NEW k \in TableKeys, NEW v \in Values,
         NEW c, Agrees(t, c), k \notin Held(t)
  PROVE  Agrees(Place(t, k, v), With(c, k, v))
<1> DEFINE u == Place(t, k, v)
           d == With(c, k, v)
<1>1. Once(u)
  BY PlaceOnce DEF Agrees
<1>2. \A i \in Occupied(t) : i \in Occupied(u) /\ u[i] = t[i]
  BY PlaceHolds
<1>3. PICK s \in Occupied(u) :
        u[s] = Bucket(k, v) /\ \A i \in Occupied(u) : i = s \/ i \in Occupied(t)
  BY PlaceHolds
<1>4. u[s].key = k /\ u[s].value = v
  BY <1>3, BucketParts
<1>5. /\ DOMAIN d = DOMAIN c \cup {k} /\ d[k] = v
      /\ \A x \in DOMAIN c : x # k => d[x] = c[x]
  BY DEF With
<1>6. /\ \A i \in Occupied(t) : t[i].key \in DOMAIN c /\ t[i].key # k
      /\ \A i \in Occupied(t) : t[i].value = c[t[i].key]
      /\ \A x \in DOMAIN c : \E i \in Occupied(t) : t[i].key = x
  BY DEF Agrees, Held
<1> HIDE DEF u, d
<1>7. Held(u) \subseteq DOMAIN d
  BY <1>2, <1>3, <1>4, <1>5, <1>6 DEF Held
<1>8. ASSUME NEW x \in DOMAIN d
      PROVE  \E i \in Occupied(u) : u[i].key = x
  <2>1. CASE x = k
    BY <1>3, <1>4, <2>1, Zenon
  <2>2. CASE x # k
    BY <1>2, <1>5, <1>6, <2>2
  <2> QED
    BY <2>1, <2>2
<1>9. DOMAIN d \subseteq Held(u)
  BY <1>8 DEF Held
<1>10. ASSUME NEW i \in Occupied(u)
       PROVE  u[i].value = d[u[i].key]
  <2>1. CASE i = s
    BY <1>4, <1>5, <2>1
  <2>2. CASE i # s
    BY <1>2, <1>3, <1>5, <1>6, <2>2
  <2> QED
    BY <2>1, <2>2
<1> QED
  BY <1>1, <1>7, <1>9, <1>10 DEF Agrees, u, d

LEMMA SameEntriesAgree ==
  ASSUME NEW t, NEW size, Sized(t, size), NEW u, SameEntries(t, u, size), Once(t) => Once(u),
         NEW c, Agrees(t, c)
  PROVE  Agrees(u, c) /\ Held(u) = Held(t)
<1>1. \A j \in Occupied(t) : j < size
  BY OccupiedParts
<1>2. /\ \A a \in Occupied(u) : \E j \in Occupied(t) : u[a] = t[j]
      /\ \A j \in Occupied(t) : \E a \in Occupied(u) : u[a] = t[j]
  BY <1>1, Zenon DEF SameEntries
<1>3. Held(u) = Held(t)
  BY <1>2 DEF Held
<1>4. \A a \in Occupied(u) : u[a].value = c[u[a].key]
  BY <1>2 DEF Agrees
<1> QED
  BY <1>3, <1>4 DEF Agrees

(* A table of more than three buckets has a free one. *)
Spare(t, size) == size > 3 => HasFree(t)

(* insert() leaves a bucket free in a table of more than three.  A key that *)
(* the table does not hold is added to the map; one that finds a place in   *)
(* the hop range is in reach.                                               *)
LEMMA InsertKeeps ==
  ASSUME NEW t, NEW size, Sized(t, size), Cardinality(Occupied(t)) < MaxOccupied,
         NEW k \in TableKeys, NEW v \in Values
  PROVE  /\ \E wide : Sized(insert(t, k, v), wide) /\ Spare(insert(t, k, v), wide)
         /\ k \in Held(insert(t, k, v))
         /\ \A c : Agrees(t, c) /\ k \notin Held(t) => Agrees(insert(t, k, v), With(c, k, v))
         /\ ~Far(t, k) /\ (Loaded(t) \/ Reached(t)) => Reached(insert(t, k, v))
<1> DEFINE r == Roomy(t)
           u == insert(t, k, v)
<1>1. PICK wide : /\ Sized(r, wide)
                  /\ Cardinality(Occupied(r)) < wide
                  /\ wide > 3 => Cardinality(Occupied(r)) + 1 < wide
                  /\ SameEntries(t, r, size)
                  /\ Once(t) => Once(r)
                  /\ (IF Loaded(t) THEN AllNear(t) ELSE Reached(t)) => Reached(r)
  BY RoomyIsRoomy
<1>2. u = Place(r, k, v)
  BY DEF insert
<1>3. ~Far(t, k) => NearOffsets(r, k) # {} /\ (Loaded(t) => AllNear(t))
  BY DEF Far, AllNear
<1> HIDE DEF r, u
<1>4. wide \in Nat
  BY <1>1, OccupiedParts
<1>5. Cardinality(Occupied(r)) < wide /\ Cardinality(Occupied(r)) \in Nat
  BY <1>1, <1>4, OccupiedFinite
<1>6. HasFree(r)
  BY <1>1, <1>5, OccupiedFinite
<1>7. Sized(u, wide) /\ Cardinality(Occupied(u)) = Cardinality(Occupied(r)) + 1
  BY <1>1, <1>2, <1>6, PlaceFills, PlaceCounts
<1>8. Spare(u, wide)
  BY <1>1, <1>7, OccupiedFinite DEF Spare
<1>11. k \in Held(u)
  <2>1. \E i \in Occupied(u) : u[i] = Bucket(k, v)
    BY <1>1, <1>2, <1>6, PlaceHolds
  <2>2. Bucket(k, v).key = k
    BY BucketParts
  <2> QED
    BY <2>1, <2>2 DEF Held
<1>9. ASSUME NEW c, Agrees(t, c), k \notin Held(t)
      PROVE  Agrees(u, With(c, k, v))
  BY <1>1, <1>2, <1>6, <1>9, SameEntriesAgree, PlaceAgrees
<1>10. ASSUME ~Far(t, k), Loaded(t) \/ Reached(t)
       PROVE  Reached(u)
  BY <1>1, <1>2, <1>3, <1>6, <1>10, PlaceReaches
<1> QED
  BY <1>7, <1>8, <1>9, <1>10, <1>11 DEF u

-----------------------------------------------------------------------------
(* A value overwritten, a key removed. *)

LEMMA EntryOverwritten ==
  ASSUME NEW o, NEW k, NEW v, NEW w
  PROVE  [[occupied |-> o, key |-> k, value |-> w] EXCEPT !.value = v]
           = [occupied |-> o, key |-> k, value |-> v]
OBVIOUS

LEMMA ChangeKeeps ==
  ASSUME NEW t, NEW size, Sized(t, size), NEW at \in Occupied(t), NEW v \in Values
  PROVE  /\ Sized([t EXCEPT ![at].value = v], size)
         /\ Spare(t, size) => Spare([t EXCEPT ![at].value = v], size)
         /\ \A c : Agrees(t, c) => Agrees([t EXCEPT ![at].value = v], With(c, t[at].key, v))
         /\ Reached(t) => Reached([t EXCEPT ![at].value = v])
<1> DEFINE u == [t EXCEPT ![at].value = v]
           k == t[at].key
<1>1. /\ DOMAIN t = 0..(size - 1) /\ at \in 0..(size - 1) /\ k \in TableKeys
      /\ t[at] \in Buckets /\ t[at].occupied
      /\ Occupied(t) \subseteq 0..(size - 1)
  BY OccupiedParts
<1>2. t[at] = Bucket(k, t[at].value) /\ t \in [0..(size - 1) -> Buckets]
  BY <1>1, BucketParts DEF Sized
<1>3. [t[at] EXCEPT !.value = v] = Bucket(k, v)
  <2> DEFINE w == t[at].value
             b == t[at]
  <2>1. b = Bucket(k, w)
    BY <1>2
  <2> HIDE DEF b, w, k
  <2>2. [Bucket(k, w) EXCEPT !.value = v] = Bucket(k, v)
    BY EntryOverwritten, Zenon DEF Bucket
  <2>3. [b EXCEPT !.value = v] = Bucket(k, v)
    BY <2>1, <2>2
  <2> QED
    BY <2>3 DEF b
<1>4. u[at] = Bucket(k, v) /\ DOMAIN u = DOMAIN t /\ \A i \in DOMAIN t : i # at => u[i] = t[i]
  BY <1>1, <1>2, <1>3
<1>5. Bucket(k, v) \in Buckets /\ u[at].occupied /\ u[at].key = k /\ u[at].value = v
  BY <1>1, <1>4, BucketParts
<1>6. u \in [0..(size - 1) -> Buckets]
  BY <1>1, <1>2, <1>4, <1>5
<1> HIDE DEF u
<1>7. Sized(u, size)
  BY <1>6 DEF Sized
<1>8. /\ \A i \in DOMAIN t : u[i].occupied <=> t[i].occupied
      /\ \A i \in DOMAIN t : u[i].key = t[i].key \/ ~t[i].occupied
  BY <1>1, <1>4, <1>5, Zenon
<1>9. Occupied(u) = Occupied(t) /\ \A i \in Occupied(t) : u[i].key = t[i].key
  BY <1>1, <1>4, <1>8, Zenon DEF Occupied
<1>10. Spare(t, size) => Spare(u, size)
  BY <1>4, <1>8, Zenon DEF HasFree, Spare
<1>11. \A x : Probes(u, x) = Probes(t, x)
  BY <1>4, SameProbes
<1>12. ASSUME Reached(t)
       PROVE  Reached(u)
  <2> SUFFICES ASSUME NEW i \in Occupied(t)
               PROVE  RunReaches(u, t[i].key, i)
    BY <1>9, Zenon DEF Reached
  <2>1. PICK d \in DOMAIN t : /\ Probes(t, t[i].key)[d] = i
                              /\ \A e \in 0..(d - 1) : t[Probes(t, t[i].key)[e]].occupied
    BY <1>12 DEF Reached, RunReaches
  <2>2. t[i].key \in TableKeys /\ size \in Nat
    BY OccupiedParts
  <2>3. \A e \in 0..(size - 1) : Probes(t, t[i].key)[e] \in 0..(size - 1)
    BY <2>2, ProbesReachAll, Zenon
  <2>4. \A e \in 0..(d - 1) : e \in 0..(size - 1)
    BY <1>1, <2>2
  <2>5. \A e \in 0..(d - 1) : u[Probes(t, t[i].key)[e]].occupied
    BY <1>1, <1>8, <2>1, <2>3, <2>4, Zenon
  <2>6. d \in DOMAIN u /\ Probes(u, t[i].key) = Probes(t, t[i].key)
    BY <1>4, <1>11, Zenon
  <2> QED
    BY <2>1, <2>5, <2>6, Zenon DEF RunReaches
<1>13. ASSUME NEW c, Agrees(t, c)
       PROVE  Agrees(u, With(c, k, v))
  <2> DEFINE d == With(c, k, v)
  <2>1. /\ Once(t) /\ \A i \in Occupied(t) : t[i].value = c[t[i].key]
        /\ DOMAIN c = {t[i].key : i \in Occupied(t)}
    BY <1>13 DEF Agrees, Held
  <2>2. /\ DOMAIN d = DOMAIN c \cup {k} /\ d[k] = v
        /\ \A x \in DOMAIN c : x # k => d[x] = c[x]
    BY DEF With
  <2> HIDE DEF d
  <2>3. DOMAIN d = DOMAIN c
    BY <2>1, <2>2
  <2>4. Held(u) = DOMAIN d
    BY <1>9, <2>1, <2>3 DEF Held
  <2>5. Once(u)
    BY <1>9, <2>1 DEF Once
  <2>6. ASSUME NEW i \in Occupied(u)
        PROVE  u[i].value = d[u[i].key]
    <3>1. CASE i = at
      BY <1>5, <2>2, <3>1
    <3>2. CASE i # at
      <4>1. u[i] = t[i] /\ i \in Occupied(t)
        BY <1>1, <1>4, <1>9, <3>2
      <4>2. t[i].key # k /\ t[i].key \in DOMAIN c
        BY <2>1, <3>2, <4>1 DEF Once
      <4> QED
        BY <2>1, <2>2, <4>1, <4>2
    <3> QED
      BY <3>1, <3>2
  <2> QED
    BY <2>4, <2>5, <2>6 DEF Agrees, d
<1> QED
  BY <1>7, <1>10, <1>12, <1>13 DEF u

LEMMA RemoveKeeps ==
  ASSUME NEW t, NEW size, Sized(t, size), NEW at \in Occupied(t)
  PROVE  /\ Sized([t EXCEPT ![at] = Vacant], size) /\ Spare([t EXCEPT ![at] = Vacant], size)
         /\ \A c : Agrees(t, c) => Agrees([t EXCEPT ![at] = Vacant], Without(c, t[at].key))
<1> DEFINE u == [t EXCEPT ![at] = Vacant]
           k == t[at].key
<1>1. DOMAIN t = 0..(size - 1) /\ at \in 0..(size - 1) /\ Occupied(t) \subseteq 0..(size - 1)
  BY OccupiedParts
<1>2. u[at] = Vacant /\ DOMAIN u = DOMAIN t /\ \A i \in DOMAIN t : i # at => u[i] = t[i]
  BY <1>1
<1>3. Vacant \in Buckets /\ ~Vacant.occupied
  BY BucketParts
<1>4. u \in [0..(size - 1) -> Buckets]
  BY <1>3 DEF Sized
<1> HIDE DEF u
<1>5. Sized(u, size) /\ Spare(u, size)
  BY <1>1, <1>2, <1>3, <1>4 DEF Sized, HasFree, Spare
<1>6. Occupied(u) = Occupied(t) \ {at} /\ \A i \in Occupied(u) : u[i] = t[i]
  BY <1>1, <1>2, <1>3 DEF Occupied
<1>7. ASSUME NEW c, Agrees(t, c)
      PROVE  Agrees(u, Without(c, k))
  <2>1. /\ Once(t) /\ \A i \in Occupied(t) : t[i].value = c[t[i].key]
        /\ DOMAIN c = {t[i].key : i \in Occupied(t)}
    BY <1>7 DEF Agrees, Held
  <2>2. \A i \in Occupied(t) : t[i].key = k <=> i = at
    BY <2>1, Zenon DEF Once
  <2>3. Held(u) = DOMAIN c \ {k}
    BY <1>6, <2>1, <2>2 DEF Held
  <2>4. DOMAIN Without(c, k) = DOMAIN c \ {k} /\ \A x \in DOMAIN c \ {k} : Without(c, k)[x] = c[x]
    BY DEF Without
  <2>5. Once(u)
    BY <1>6, <2>1 DEF Once
  <2>6. \A i \in Occupied(u) : u[i].key \in DOMAIN c \ {k} /\ u[i].value = c[u[i].key]
    BY <1>6, <2>1, <2>2
  <2> QED
    BY <2>3, <2>4, <2>5, <2>6 DEF Agrees
<1> QED
  BY <1>5, <1>7 DEF u

-----------------------------------------------------------------------------
(* The invariant: the table has a free bucket if it has more than three,   *)
(* agrees with the map of what was inserted unless a key went in twice, and *)
(* has no gap in a run unless something has disturbed it.                   *)

MapTyped(c) == DOMAIN c \subseteq TableKeys /\ \A x \in DOMAIN c : c[x] \in Values

EndsOfCalls == {"returned", "crashed", "endless"}

TableInv ==
  /\ \E size : Sized(table, size) /\ Spare(table, size)
  /\ lastCall \in EndsOfCalls /\ MapTyped(contents) /\ disturbed \subseteq Disturbances
  /\ "duplicate" \notin disturbed => Agrees(table, contents)
  /\ disturbed = {} => Reached(table)
  /\ lastCall = "endless" => ~HasFree(table)

LEMMA MapStaysTyped ==
  ASSUME NEW c, MapTyped(c), NEW k \in TableKeys, NEW v \in Values
  PROVE  MapTyped(With(c, k, v)) /\ MapTyped(Without(c, k))
BY DEF MapTyped, With, Without

LEMMA GivenIs == \A k, v : Given(k, v) = With(contents, k, v)
BY Zenon DEF Given, With

LEMMA DisturbedByInsert ==
  ASSUME NEW k, disturbed \subseteq Disturbances
  PROVE  /\ DisturbedBy(k) \subseteq Disturbances
         /\ "duplicate" \notin DisturbedBy(k) => "duplicate" \notin disturbed /\ k \notin Held(table)
         /\ DisturbedBy(k) = {} => ~Far(table, k) /\ (Loaded(table) \/ disturbed = {})
<1>1. CASE Loaded(table)
  BY <1>1 DEF DisturbedBy, Disturbances
<1>2. CASE ~Loaded(table)
  BY <1>2 DEF DisturbedBy, Disturbances
<1> QED
  BY <1>1, <1>2

(* The table that insert() leaves, with the history that goes with it. *)
LEMMA InsertLeaves ==
  ASSUME TableInv, InBounds, NEW k \in TableKeys, NEW v \in Values
  PROVE  /\ \E size : Sized(insert(table, k, v), size) /\ Spare(insert(table, k, v), size)
         /\ k \in Held(insert(table, k, v))
         /\ MapTyped(Given(k, v)) /\ DisturbedBy(k) \subseteq Disturbances
         /\ "duplicate" \notin DisturbedBy(k) => Agrees(insert(table, k, v), Given(k, v))
         /\ DisturbedBy(k) = {} => Reached(insert(table, k, v))
<1> DEFINE u == insert(table, k, v)
<1>1. PICK size : Sized(table, size) /\ Spare(table, size)
  BY Zenon DEF TableInv
<1>2. /\ MapTyped(contents) /\ disturbed \subseteq Disturbances
      /\ "duplicate" \notin disturbed => Agrees(table, contents)
      /\ disturbed = {} => Reached(table)
  BY DEF TableInv
<1>3. Cardinality(Occupied(table)) < MaxOccupied
  BY DEF InBounds
<1>4. /\ \E wide : Sized(u, wide) /\ Spare(u, wide)
      /\ k \in Held(u)
      /\ Agrees(table, contents) /\ k \notin Held(table) => Agrees(u, With(contents, k, v))
      /\ ~Far(table, k) /\ (Loaded(table) \/ Reached(table)) => Reached(u)
  BY <1>1, <1>3, InsertKeeps
<1>5. Given(k, v) = With(contents, k, v)
  BY GivenIs
<1>6. MapTyped(Given(k, v))
  BY <1>2, <1>5, MapStaysTyped
<1>7. /\ DisturbedBy(k) \subseteq Disturbances
      /\ "duplicate" \notin DisturbedBy(k) => "duplicate" \notin disturbed /\ k \notin Held(table)
      /\ DisturbedBy(k) = {} => ~Far(table, k) /\ (Loaded(table) \/ disturbed = {})
  BY <1>2, DisturbedByInsert
<1> HIDE DEF u
<1> QED
  BY <1>2, <1>4, <1>5, <1>6, <1>7, Zenon DEF u

LEMMA InvFirst == TableInit => TableInv
<1> SUFFICES ASSUME TableInit PROVE TableInv
  OBVIOUS
<1>1. PICK first \in 1..MaxFirstSize : table = NewTable(first)
  BY DEF TableInit
<1>11. first \in 1..MaxSize /\ first > 0
  BY SizeBounds
<1>2. /\ Sized(table, first) /\ Occupied(table) = {} /\ Once(table) /\ Reached(table)
      /\ Cardinality(Occupied(table)) = 0
  BY <1>1, <1>11, NewTableIsEmpty
<1>3. Spare(table, first)
  BY <1>2, <1>11, OccupiedFinite DEF Spare
<1>4. contents = [k \in {} |-> Default] /\ lastCall = "returned" /\ disturbed = {}
  BY DEF TableInit
<1>5. DOMAIN contents = {}
  BY <1>4
<1>6. MapTyped(contents)
  BY <1>5 DEF MapTyped
<1>7. Held(table) = {}
  BY <1>2 DEF Held
<1>8. Agrees(table, contents)
  BY <1>2, <1>5, <1>7, Zenon DEF Agrees
<1>9. \E size : Sized(table, size) /\ Spare(table, size)
  BY <1>2, <1>3, Zenon
<1>10. lastCall \in EndsOfCalls /\ lastCall # "endless" /\ disturbed \subseteq Disturbances
  BY <1>4 DEF EndsOfCalls
<1> QED
  BY <1>2, <1>6, <1>8, <1>9, <1>10, Zenon DEF TableInv

LEMMA InvInsert ==
  ASSUME TableInv, NEW k \in TableKeys, NEW v \in Values, TableInsert(k, v)
  PROVE  TableInv'
<1>1. /\ InBounds /\ table' = insert(table, k, v) /\ contents' = Given(k, v)
      /\ disturbed' = DisturbedBy(k) /\ lastCall' = lastCall /\ lastCall = "returned"
  BY Zenon DEF TableInsert, Callable
<1>2. /\ \E size : Sized(insert(table, k, v), size) /\ Spare(insert(table, k, v), size)
      /\ MapTyped(Given(k, v)) /\ DisturbedBy(k) \subseteq Disturbances
      /\ "duplicate" \notin DisturbedBy(k) => Agrees(insert(table, k, v), Given(k, v))
      /\ DisturbedBy(k) = {} => Reached(insert(table, k, v))
  BY <1>1, InsertLeaves, Zenon
<1>3. lastCall \in EndsOfCalls /\ lastCall' # "endless"
  BY <1>1 DEF TableInv
<1> QED
  BY <1>1, <1>2, <1>3, Zenon DEF TableInv

LEMMA InvOverwrite ==
  ASSUME TableInv, NEW k \in TableKeys, NEW v \in Values, TableOverwrite(k, v)
  PROVE  TableInv'
<1> DEFINE at == find(table, k)
           u == [table EXCEPT ![at].value = v]
<1>1. PICK size : Sized(table, size) /\ Spare(table, size)
  BY Zenon DEF TableInv
<1>2. /\ at \in DOMAIN table /\ table' = u /\ contents' = Given(k, v)
      /\ lastCall' = lastCall /\ lastCall' # "endless" /\ disturbed' = disturbed
  BY DEF TableOverwrite, Callable
<1>3. at \in Occupied(table) /\ table[at].key = k
  BY <1>1, <1>2, FoundHasKey
<1> HIDE DEF at
<1>4. /\ Sized(u, size) /\ Spare(u, size)
      /\ Agrees(table, contents) => Agrees(u, With(contents, k, v))
      /\ Reached(table) => Reached(u)
  BY <1>1, <1>3, ChangeKeeps
<1>5. Given(k, v) = With(contents, k, v)
  BY GivenIs
<1>6. /\ lastCall \in EndsOfCalls /\ MapTyped(contents) /\ disturbed \subseteq Disturbances
      /\ "duplicate" \notin disturbed => Agrees(table, contents)
      /\ disturbed = {} => Reached(table)
  BY Zenon DEF TableInv
<1>7. MapTyped(With(contents, k, v))
  BY <1>6, MapStaysTyped
<1> HIDE DEF u
<1> QED
  BY <1>2, <1>4, <1>5, <1>6, <1>7, Zenon DEF TableInv

LEMMA InvSubscript ==
  ASSUME TableInv, NEW k \in TableKeys, NEW v \in Values, TableSubscript(k, v)
  PROVE  TableInv'
<1>1. CASE TableOverwrite(k, v)
  BY <1>1, InvOverwrite
<1>2. CASE ~TableOverwrite(k, v)
  <2> DEFINE grown == insert(table, k, Default)
             at == find(grown, k)
             u == [grown EXCEPT ![at].value = v]
  <2>1. /\ InBounds /\ disturbed' = DisturbedBy(k)
        /\ IF at = NotFound
           THEN table' = grown /\ lastCall' = "crashed" /\ contents' = Given(k, Default)
           ELSE table' = u /\ contents' = Given(k, v) /\ lastCall' = lastCall
    BY <1>2 DEF TableSubscript
  <2>7. lastCall = "returned"
    BY <1>2 DEF TableSubscript, Callable
  <2>2. Default \in Values
    BY HashTableAssumption
  <2>3. /\ \E size : Sized(grown, size) /\ Spare(grown, size)
        /\ k \in Held(grown)
        /\ MapTyped(Given(k, Default)) /\ DisturbedBy(k) \subseteq Disturbances
        /\ "duplicate" \notin DisturbedBy(k) => Agrees(grown, Given(k, Default))
        /\ DisturbedBy(k) = {} => Reached(grown)
    BY <2>1, <2>2, InsertLeaves, Zenon
  <2>4. lastCall \in EndsOfCalls /\ MapTyped(contents)
    BY Zenon DEF TableInv
  <2> HIDE DEF grown
  <2>5. CASE at = NotFound
    <3>1. /\ table' = grown /\ contents' = Given(k, Default)
          /\ lastCall' \in EndsOfCalls /\ lastCall' # "endless"
      BY <2>1, <2>5 DEF EndsOfCalls
    <3> QED
      BY <2>1, <2>3, <3>1, Zenon DEF TableInv
  <2>6. CASE at # NotFound
    <3>1. /\ table' = u /\ contents' = Given(k, v)
          /\ lastCall' \in EndsOfCalls /\ lastCall' # "endless"
      BY <2>1, <2>4, <2>6, <2>7
    <3>2. PICK size : Sized(grown, size) /\ Spare(grown, size)
      BY <2>3, Zenon
    <3>9. at \in DOMAIN grown
      BY <2>3, <2>6, <3>2, FindKinds, EndlessMeetsAll
    <3>3. at \in Occupied(grown) /\ grown[at].key = k
      BY <3>2, <3>9, FoundHasKey
    <3> HIDE DEF at
    <3>4. /\ Sized(u, size) /\ Spare(u, size)
          /\ \A c : Agrees(grown, c) => Agrees(u, With(c, k, v))
          /\ Reached(grown) => Reached(u)
      BY <3>2, <3>3, ChangeKeeps
    <3>5. /\ Given(k, v) = With(contents, k, v)
          /\ Given(k, Default) = With(contents, k, Default)
      BY GivenIs, Zenon
    <3>6. With(With(contents, k, Default), k, v) = With(contents, k, v)
      BY DEF With
    <3>7. MapTyped(With(contents, k, v))
      BY <2>4, MapStaysTyped
    <3> HIDE DEF u
    <3>8. "duplicate" \notin DisturbedBy(k) => Agrees(u, Given(k, v))
      BY <2>3, <3>4, <3>5, <3>6, Zenon
    <3> QED
      BY <2>1, <2>3, <2>4, <3>1, <3>4, <3>5, <3>7, <3>8, Zenon DEF TableInv
  <2> QED
    BY <2>5, <2>6
<1> QED
  BY <1>1, <1>2

LEMMA InvRemove ==
  ASSUME TableInv, NEW k \in TableKeys, TableRemove(k)
  PROVE  TableInv'
<1> DEFINE at == find(table, k)
           u == [table EXCEPT ![at] = Vacant]
<1>1. PICK size : Sized(table, size) /\ Spare(table, size)
  BY Zenon DEF TableInv
<1>2. /\ at \in DOMAIN table /\ table' = u /\ contents' = Without(contents, k)
      /\ lastCall' = lastCall /\ lastCall' # "endless" /\ disturbed' = disturbed \cup {"removed"}
  BY DEF TableRemove, Callable, Without
<1>3. at \in Occupied(table) /\ table[at].key = k
  BY <1>1, <1>2, FoundHasKey
<1> HIDE DEF at
<1>4. /\ Sized(u, size) /\ Spare(u, size)
      /\ Agrees(table, contents) => Agrees(u, Without(contents, k))
  BY <1>1, <1>3, RemoveKeeps
<1>5. /\ lastCall \in EndsOfCalls /\ MapTyped(contents) /\ disturbed \subseteq Disturbances
      /\ "duplicate" \notin disturbed => Agrees(table, contents)
  BY Zenon DEF TableInv
<1>6. /\ disturbed' \subseteq Disturbances /\ disturbed' # {}
      /\ "duplicate" \notin disturbed' => "duplicate" \notin disturbed
  BY <1>2, <1>5 DEF Disturbances
<1>7. MapTyped(Without(contents, k))
  <2>1. \E v : v \in Values
    BY HashTableAssumption
  <2> QED
    BY <1>5, <2>1, MapStaysTyped
<1> HIDE DEF u
<1> QED
  BY <1>2, <1>4, <1>5, <1>6, <1>7, Zenon DEF TableInv

LEMMA InvClear == TableInv /\ TableClear => TableInv'
<1> SUFFICES ASSUME TableInv, TableClear PROVE TableInv'
  OBVIOUS
<1>1. PICK size : Sized(table, size)
  BY Zenon DEF TableInv
<1>2. tableSize(table) = size /\ size \in 1..MaxSize /\ size \in Nat /\ size > 0
  BY <1>1, OccupiedParts DEF Sized
<1>3. /\ table' = NewTable(size) /\ contents' = [k \in {} |-> Default]
      /\ disturbed' = {} /\ lastCall' = lastCall /\ lastCall' # "endless"
  BY <1>2 DEF TableClear, Callable
<1>4. /\ Sized(table', size) /\ Occupied(table') = {} /\ Once(table') /\ Reached(table')
      /\ Cardinality(Occupied(table')) = 0
  BY <1>2, <1>3, NewTableIsEmpty
<1>5. Spare(table', size)
  BY <1>2, <1>4, OccupiedFinite DEF Spare
<1>6. DOMAIN contents' = {}
  BY <1>3
<1>7. MapTyped(contents')
  BY <1>6 DEF MapTyped
<1>8. Held(table') = {}
  BY <1>4 DEF Held
<1>9. Agrees(table', contents')
  BY <1>4, <1>6, <1>8, Zenon DEF Agrees
<1>10. \E n : Sized(table', n) /\ Spare(table', n)
  BY <1>4, <1>5, Zenon
<1>11. lastCall' \in EndsOfCalls /\ lastCall' # "endless" /\ disturbed' \subseteq Disturbances
  BY <1>3 DEF TableInv
<1> QED
  BY <1>4, <1>7, <1>9, <1>10, <1>11, Zenon DEF TableInv

LEMMA InvEndless ==
  ASSUME TableInv, NEW k \in TableKeys, ProbeForEver(k)
  PROVE  TableInv'
<1>1. /\ find(table, k) = Endless /\ lastCall' = "endless"
      /\ UNCHANGED <<table, contents, disturbed>>
  BY DEF ProbeForEver
<1>2. PICK size : Sized(table, size)
  BY Zenon DEF TableInv
<1>3. ~HasFree(table) /\ lastCall' \in EndsOfCalls
  BY <1>1, <1>2, EndlessMeetsAll DEF EndsOfCalls
<1> QED
  BY <1>1, <1>3, Zenon DEF TableInv

LEMMA InvNext == TableInv /\ [TableNext]_tableVars => TableInv'
<1> SUFFICES ASSUME TableInv, [TableNext]_tableVars PROVE TableInv'
  OBVIOUS
<1>1. ASSUME NEW k \in TableKeys, NEW v \in Values,
             TableInsert(k, v) \/ updateValueForKey(k, v) \/ TableSubscript(k, v)
      PROVE  TableInv'
  BY <1>1, InvInsert, InvOverwrite, InvSubscript, Zenon DEF updateValueForKey
<1>2. ASSUME NEW k \in TableKeys, TableRemove(k) \/ ProbeForEver(k)
      PROVE  TableInv'
  BY <1>2, InvRemove, InvEndless
<1>3. CASE TableClear
  BY <1>3, InvClear
<1>4. CASE UNCHANGED tableVars
  BY <1>4, Zenon DEF tableVars, TableInv
<1> QED
  BY <1>1, <1>2, <1>3, <1>4, Zenon DEF TableNext

-----------------------------------------------------------------------------
(* What the invariant says of the properties. *)

LEMMA InvSearches == TableInv => SearchIsMap
<1> SUFFICES ASSUME TableInv, disturbed = {}, NEW k \in TableKeys
             PROVE  IF k \in DOMAIN contents
                    THEN /\ find(table, k) \in DOMAIN table
                         /\ table[find(table, k)].value = contents[k]
                    ELSE find(table, k) \in {NotFound, Endless}
  BY Zenon DEF SearchIsMap
<1>1. PICK size : Sized(table, size) /\ Spare(table, size)
  BY Zenon DEF TableInv
<1>2. Agrees(table, contents) /\ Reached(table)
  BY DEF TableInv
<1>3. CASE k \in DOMAIN contents
  <2>1. PICK i \in Occupied(table) : k = table[i].key
    BY <1>2, <1>3 DEF Agrees, Held
  <2>2. find(table, k) = i
    BY <1>1, <1>2, <2>1, ReachedIsFound DEF Agrees
  <2>3. i \in DOMAIN table
    BY <1>1, OccupiedParts
  <2> QED
    BY <1>2, <1>3, <2>1, <2>2, <2>3 DEF Agrees
<1>4. CASE k \notin DOMAIN contents
  BY <1>1, <1>2, <1>4, HeldIsFound DEF Agrees
<1> QED
  BY <1>3, <1>4

LEMMA InvHolds == TableInv => HoldsEachOnce
<1> SUFFICES ASSUME TableInv, "duplicate" \notin disturbed
             PROVE  /\ Held(table) = DOMAIN contents
                    /\ Cardinality(Occupied(table)) = Cardinality(DOMAIN contents)
                    /\ \A i \in Occupied(table) : table[i].value = contents[table[i].key]
  BY DEF HoldsEachOnce
<1>1. PICK size : Sized(table, size)
  BY Zenon DEF TableInv
<1>2. /\ Once(table) /\ Held(table) = DOMAIN contents
      /\ \A i \in Occupied(table) : table[i].value = contents[table[i].key]
  BY DEF TableInv, Agrees
<1> DEFINE key == [i \in Occupied(table) |-> table[i].key]
<1>3. /\ key \in [Occupied(table) -> Held(table)]
      /\ \A a, b \in Occupied(table) : key[a] = key[b] => a = b
      /\ \A x \in Held(table) : \E i \in Occupied(table) : key[i] = x
  BY <1>2 DEF Once, Held
<1>4. ExistsBijection(Occupied(table), Held(table))
  BY <1>3, Fun_IsBij, Fun_ExistsBij
<1>5. IsFiniteSet(Occupied(table))
  BY <1>1, OccupiedFinite
<1>6. Cardinality(Held(table)) = Cardinality(Occupied(table))
  BY <1>4, <1>5, FS_Bijection
<1> QED
  BY <1>2, <1>6

LEMMA InvTyped == TableInv => TableTypeOK /\ ProbesEnd
<1> SUFFICES ASSUME TableInv PROVE TableTypeOK /\ ProbesEnd
  OBVIOUS
<1>1. PICK size : Sized(table, size) /\ Spare(table, size)
  BY Zenon DEF TableInv
<1>2. DOMAIN table = 0..(size - 1) /\ tableSize(table) = size
  BY <1>1, OccupiedParts
<1>3. Range(table) \subseteq Buckets
  BY <1>1 DEF Sized, Range
<1>4. Range(contents) \subseteq Values /\ DOMAIN contents \subseteq TableKeys
  BY DEF TableInv, MapTyped, Range
<1>5. TableTypeOK
  BY <1>2, <1>3, <1>4 DEF TableTypeOK, TableInv, EndsOfCalls
<1>6. tableSize(table) > 3 => HasFree(table)
  BY <1>1, <1>2 DEF Spare
<1>7. ~HasFree(table) => Occupied(table) = DOMAIN table
  BY DEF HasFree, Occupied
<1>8. size \in Nat
  BY <1>1, OccupiedParts
<1>9. ProbesEnd
  BY <1>2, <1>6, <1>7, <1>8 DEF ProbesEnd, HasFree, TableInv
<1> QED
  BY <1>5, <1>9

(* For every set of keys and every size of table: the buckets are buckets  *)
(* of known keys and values (HashTable.cpp).                               *)
THEOREM TableTypes == TableSpec => []TableTypeOK
BY InvFirst, InvNext, InvTyped, PTL DEF TableSpec

(* From a table of any size that has a bucket, through every collision,    *)
(* overwriting and rehash of HashTable.cpp: a search answers with what was *)
(* inserted as long as nothing disturbed the runs; no key is lost even     *)
(* then; and a search that does not end is one of a table of three buckets *)
(* at most that are all full.                                              *)
THEOREM TableIsAMap == TableSpec => []TableIsMap
<1>1. TableInv => TableIsMap
  BY InvSearches, InvHolds, InvTyped DEF TableIsMap
<1> QED
  BY <1>1, InvFirst, InvNext, PTL DEF TableSpec

-----------------------------------------------------------------------------
(* The red-black tree as a search tree. *)

Before(side, x, y) == IF side = "left" THEN x < y ELSE y < x

(* The subtrees fit together at n: under[n] holds the keys from n downwards. *)
Fits(h, under, n) ==
  /\ n \in under[n] /\ under[n] \subseteq under[h.root]
  /\ \A x \in under[n] : x = n \/ \E s \in Sides : x \in under[h.child[s][n]]
  /\ \A s \in Sides : \A x \in under[h.child[s][n]] : x \in under[n] /\ Before(s, x, n)
  /\ \A s \in Sides : h.child[s][n] # Nil =>
       h.child[s][n] \in under[h.root] /\ h.parent[h.child[s][n]] = n
  /\ n # h.root => h.parent[n] \in under[h.root] /\ \E s \in Sides : h.child[s][h.parent[n]] = n

(* A search tree, whatever its colours, with the keys under each node. *)
IsTree(h, under) ==
  /\ h \in Heaps
  /\ under \in [Refs -> SUBSET SetKeys] /\ under[Nil] = {}
  /\ h.root # Nil => h.root \in under[h.root] /\ h.parent[h.root] = Nil
  /\ \A n \in under[h.root] : Fits(h, under, n)

-----------------------------------------------------------------------------

(* Induction up to a number. *)
LEMMA CountingUp ==
  ASSUME NEW last \in Nat, NEW S, 0 \in S, \A i \in 1..last : i - 1 \in S => i \in S
  PROVE  \A i \in 0..last : i \in S
<1> DEFINE Bad == {i \in 0..last : i \notin S}
<1> SUFFICES ASSUME Bad # {} PROVE FALSE
  OBVIOUS
<1>1. Bad \in SUBSET Nat
  OBVIOUS
<1>2. PICK i \in Bad : \A j \in Bad : i <= j
  BY <1>1, LeastNumber, Zenon
<1>3. i \in 0..last /\ i \notin S /\ i # 0
  BY <1>2
<1>4. i \in 1..last /\ i - 1 \in 0..last /\ ~(i <= i - 1)
  BY <1>3
<1>5. i - 1 \in S
  BY <1>2, <1>4
<1> QED
  BY <1>3, <1>4, <1>5

(* A value given turn by turn by a function is there for every turn. *)
HasTurns(f, last, first, turn) == f[0] = first /\ \A i \in 1..last : f[i] = turn[f[i - 1]]

LEMMA TurnByTurn ==
  ASSUME NEW last \in Nat, NEW V, NEW first \in V, NEW turn \in [V -> V]
  PROVE  \E f \in [0..last -> V] : HasTurns(f, last, first, turn)
<1> DEFINE Turns(i, f) == f[0] = first /\ \A j \in 1..i : f[j] = turn[f[j - 1]]
           Good == {i \in 0..last : \E f \in [0..i -> V] : Turns(i, f)}
<1>1. 0 \in Good
  <2> DEFINE f == [i \in 0..0 |-> first]
  <2>1. f \in [0..0 -> V] /\ f[0] = first /\ 1..0 = {}
    OBVIOUS
  <2> HIDE DEF f
  <2>2. Turns(0, f)
    BY <2>1
  <2>3. 0 \in 0..last
    OBVIOUS
  <2> QED
    BY <2>1, <2>2, <2>3, Zenon
<1>2. ASSUME NEW i \in 1..last, i - 1 \in Good
      PROVE  i \in Good
  <2>1. PICK f \in [0..(i - 1) -> V] : Turns(i - 1, f)
    BY <1>2
  <2> DEFINE g == [j \in 0..i |-> IF j = i THEN turn[f[i - 1]] ELSE f[j]]
  <2>2. turn[f[i - 1]] \in V
    OBVIOUS
  <2>3. g \in [0..i -> V]
    <3>1. \A j \in 0..i : j # i => j \in 0..(i - 1)
      OBVIOUS
    <3> QED
      BY <2>2, <3>1
  <2>4. ASSUME NEW j \in 1..i
        PROVE  g[j] = turn[g[j - 1]]
    <3>1. j \in 0..i /\ j - 1 \in 0..i /\ j - 1 # i /\ (j # i => j \in 1..(i - 1))
      OBVIOUS
    <3>2. g[j - 1] = f[j - 1]
      BY <3>1
    <3>3. g[j] = IF j = i THEN turn[f[i - 1]] ELSE f[j]
      BY <3>1
    <3> HIDE DEF g
    <3>4. CASE j = i
      BY <3>2, <3>3, <3>4
    <3>5. CASE j # i
      BY <2>1, <3>1, <3>2, <3>3, <3>5
    <3> QED
      BY <3>4, <3>5
  <2>5. g[0] = first
    BY <2>1
  <2> HIDE DEF g
  <2>6. Turns(i, g)
    BY <2>4, <2>5
  <2>7. i \in 0..last
    OBVIOUS
  <2> QED
    BY <2>3, <2>6, <2>7
<1> HIDE DEF Good
<1>3. last \in Good
  BY <1>1, <1>2, CountingUp
<1> QED
  BY <1>3 DEF Good, HasTurns

-----------------------------------------------------------------------------

LEMMA SideFacts ==
  /\ \A s \in Sides : Other(s) \in Sides /\ Other(s) # s /\ Other(Other(s)) = s
  /\ \A s, t \in Sides : s # t => t = Other(s)
  /\ "left" \in Sides /\ "right" \in Sides
  /\ Other("left") = "right" /\ Other("right") = "left"
BY DEF Sides, Other

LEMMA KeyFacts ==
  /\ \A k \in SetKeys : k \in Int /\ k # Nil /\ k \in Refs
  /\ Nil \in Refs /\ \A n \in Refs : n # Nil => n \in SetKeys
BY UnorderedSetAssumption DEF Refs

LEMMA BeforeFacts ==
  /\ \A s \in Sides, x, y \in SetKeys : Before(s, x, y) => x # y /\ ~Before(s, y, x)
  /\ \A s \in Sides, x, y, z \in SetKeys : Before(s, x, y) /\ Before(s, y, z) => Before(s, x, z)
  /\ \A s \in Sides, x, y \in SetKeys : Before(Other(s), x, y) <=> Before(s, y, x)
  /\ \A s \in Sides, x, y \in SetKeys : x # y => Before(s, x, y) \/ Before(s, y, x)
  /\ \A x, y : Before("left", x, y) <=> x < y
  /\ \A x, y : Before("right", x, y) <=> y < x
BY KeyFacts DEF Sides, Other, Before

LEMMA HeapParts ==
  ASSUME NEW h \in Heaps
  PROVE  /\ h.root \in Refs
         /\ \A s \in Sides, n \in SetKeys : h.child[s][n] \in Refs
         /\ \A n \in SetKeys : h.parent[n] \in Refs /\ h.color[n] \in Colors \cup {Nil}
         /\ h.child \in [Sides -> [SetKeys -> Refs]] /\ h.parent \in [SetKeys -> Refs]
         /\ h.color \in [SetKeys -> Colors \cup {Nil}]
         /\ h = [root |-> h.root, child |-> h.child, parent |-> h.parent, color |-> h.color]
BY DEF Heaps

(* What a node of the tree has to do with its children and its parent. *)
LEMMA NodeParts ==
  ASSUME NEW h, NEW under, IsTree(h, under), NEW n \in under[h.root]
  PROVE  /\ n \in SetKeys /\ n # Nil /\ h.root # Nil /\ h.root \in under[h.root]
         /\ n \in under[n] /\ under[n] \subseteq under[h.root] /\ under[n] \subseteq SetKeys
         /\ n = h.root <=> h.parent[n] = Nil
         /\ h.parent[n] # Nil => /\ h.parent[n] \in under[h.root]
                                 /\ \E s \in Sides : h.child[s][h.parent[n]] = n
<1>1. h \in Heaps /\ under \in [Refs -> SUBSET SetKeys] /\ under[Nil] = {} /\ Fits(h, under, n)
  BY DEF IsTree
<1>2. h.root \in Refs
  BY <1>1, HeapParts
<1>3. h.root # Nil /\ under[h.root] \subseteq SetKeys /\ n \in SetKeys /\ n # Nil
  BY <1>1, <1>2, KeyFacts
<1>4. h.root \in under[h.root] /\ h.parent[h.root] = Nil
  BY <1>3 DEF IsTree
<1>5. \A m \in under[h.root] : m # Nil
  BY <1>3, KeyFacts
<1> QED
  BY <1>1, <1>3, <1>4, <1>5, Zenon DEF Fits

LEMMA ChildParts ==
  ASSUME NEW h, NEW under, IsTree(h, under), NEW n \in under[h.root],
         NEW s \in Sides
  PROVE  /\ h.child[s][n] \in Refs
         /\ under[h.child[s][n]] \subseteq under[n] /\ n \notin under[h.child[s][n]]
         /\ \A x \in under[h.child[s][n]] : Before(s, x, n)
         /\ \A x \in under[n] : Before(s, x, n) => x \in under[h.child[s][n]]
         /\ h.child[s][n] # Nil =>
              /\ h.child[s][n] \in under[h.root] /\ h.parent[h.child[s][n]] = n
              /\ h.child[s][n] # n /\ h.child[s][n] \in under[h.child[s][n]]
              /\ h.child[s][n] # h.child[Other(s)][n]
              /\ h.child[s][n] # h.root
<1>1. h \in Heaps /\ under \in [Refs -> SUBSET SetKeys] /\ under[Nil] = {} /\ Fits(h, under, n)
  BY DEF IsTree
<1>2. n \in SetKeys /\ under[n] \subseteq SetKeys
  BY NodeParts
<1> DEFINE c == h.child[s][n]
           d == h.child[Other(s)][n]
<1>3. c \in Refs /\ d \in Refs /\ Other(s) \in Sides
  BY <1>1, <1>2, HeapParts, SideFacts
<1>4. \A x \in under[c] : x \in under[n] /\ Before(s, x, n)
  BY <1>1, Zenon DEF Fits
<1>5. \A x \in under[d] : x \in under[n] /\ Before(Other(s), x, n)
  BY <1>1, <1>3, Zenon DEF Fits
<1>6. n \notin under[c]
  BY <1>2, <1>4, BeforeFacts
<1>7. \A x \in under[n] : Before(s, x, n) => x \in under[c]
  <2>1. \A x \in under[n] : x = n \/ x \in under[c] \/ x \in under[d]
    BY <1>1, SideFacts, Zenon DEF Fits
  <2>2. \A x \in under[n] : Before(s, x, n) => x # n /\ ~Before(Other(s), x, n)
    BY <1>2, BeforeFacts, SideFacts
  <2> QED
    BY <1>5, <2>1, <2>2, Zenon
<1>8. c # Nil => c \in under[h.root] /\ h.parent[c] = n
  BY <1>1, Zenon DEF Fits
<1>9. c # Nil => c \in under[c] /\ (c = h.root <=> h.parent[c] = Nil) /\ n # Nil
  BY <1>2, <1>8, NodeParts, KeyFacts
<1>10. c # Nil => c # d
  <2> SUFFICES ASSUME c # Nil, c = d PROVE FALSE
    OBVIOUS
  <2>1. c \in SetKeys /\ Before(s, c, n) /\ Before(Other(s), c, n)
    BY <1>2, <1>4, <1>5, <1>9
  <2> QED
    BY <1>2, <2>1, BeforeFacts
<1>11. under[c] \subseteq under[n]
  BY <1>4
<1> HIDE DEF c, d
<1>12. c # Nil => c # n /\ c # h.root
  BY <1>6, <1>8, <1>9
<1> QED
  BY <1>3, <1>4, <1>6, <1>7, <1>8, <1>9, <1>10, <1>11, <1>12, Zenon DEF c, d

(* Induction from the leaves: what a node has as soon as its children have *)
(* it, every node has.                                                     *)
LEMMA FromTheLeaves ==
  ASSUME NEW h, NEW under, IsTree(h, under), NEW S,
         \A n \in under[h.root] :
           (\A s \in Sides : h.child[s][n] # Nil => h.child[s][n] \in S) => n \in S
  PROVE  under[h.root] \subseteq S
<1> DEFINE size(n) == Cardinality(under[n])
           Sizes == {size(n) : n \in under[h.root] \ S}
<1>1. \A n \in under[h.root] : IsFiniteSet(under[n]) /\ size(n) \in Nat
  <2> TAKE n \in under[h.root]
  <2>1. under[n] \in SUBSET SetKeys
    BY NodeParts
  <2>2. IsFiniteSet(under[n])
    BY <2>1, FS_Subset, UnorderedSetAssumption
  <2> QED
    BY <2>2, FS_CardinalityType
<1> HIDE DEF size
<1> SUFFICES ASSUME under[h.root] \ S # {} PROVE FALSE
  OBVIOUS
<1>2. Sizes \in SUBSET Nat /\ Sizes # {}
  BY <1>1
<1>3. PICK least \in Sizes : \A m \in Sizes : least <= m
  BY <1>2, LeastNumber, Zenon
<1>4. PICK n \in under[h.root] \ S : least = size(n)
  BY <1>3
<1>5. PICK s \in Sides : h.child[s][n] # Nil /\ h.child[s][n] \notin S
  BY <1>4, Zenon
<1> DEFINE c == h.child[s][n]
<1>6. c \in under[h.root] /\ under[c] \subseteq under[n] /\ n \notin under[c] /\ n \in under[n]
  BY <1>4, <1>5, ChildParts, NodeParts
<1>7. size(c) \in Sizes
  BY <1>5, <1>6
<1>8. size(c) < size(n)
  <2> HIDE DEF c
  <2>1. under[c] \in SUBSET under[n] /\ under[c] # under[n] /\ IsFiniteSet(under[n])
    BY <1>1, <1>4, <1>6
  <2>2. size(c) <= size(n) /\ size(c) # size(n)
    BY <2>1, FS_Subset DEF size
  <2> QED
    BY <1>1, <1>4, <1>6, <2>2
<1> HIDE DEF c
<1>9. size(n) <= size(c) /\ size(n) \in Nat /\ size(c) \in Nat
  BY <1>1, <1>3, <1>4, <1>6, <1>7
<1> QED
  BY <1>8, <1>9

(* Below a node of a subtree is within the subtree. *)
LEMMA UnderUnder ==
  ASSUME NEW h, NEW under, IsTree(h, under), NEW n \in under[h.root], NEW m \in under[n]
  PROVE  m \in under[h.root] /\ under[m] \subseteq under[n]
<1> DEFINE S == {a \in under[h.root] : \A b \in under[a] : under[b] \subseteq under[a]}
<1>1. ASSUME NEW a \in under[h.root],
             \A s \in Sides : h.child[s][a] # Nil => h.child[s][a] \in S
      PROVE  a \in S
  <2> SUFFICES ASSUME NEW b \in under[a] PROVE under[b] \subseteq under[a]
    OBVIOUS
  <2>1. CASE b = a
    BY <2>1
  <2>2. CASE b # a
    <3>1. PICK s \in Sides : b \in under[h.child[s][a]]
      BY <2>2 DEF IsTree, Fits
    <3>2. h.child[s][a] # Nil
      BY <3>1 DEF IsTree
    <3>3. under[b] \subseteq under[h.child[s][a]]
      BY <1>1, <3>1, <3>2
    <3>4. under[h.child[s][a]] \subseteq under[a]
      BY ChildParts
    <3> QED
      BY <3>3, <3>4
  <2> QED
    BY <2>1, <2>2
<1> HIDE DEF S
<1>2. under[h.root] \subseteq S
  BY <1>1, FromTheLeaves
<1> QED
  BY <1>2, NodeParts DEF S

(* The parent of a node of a subtree, but of its top, is in it too. *)
LEMMA ParentUnder ==
  ASSUME NEW h, NEW under, IsTree(h, under), NEW n \in under[h.root], NEW m \in under[n], m # n
  PROVE  h.parent[m] \in under[n] /\ h.parent[m] # Nil /\ h.parent[m] \in under[h.root]
<1> DEFINE S == {a \in under[h.root] : \A b \in under[a] : b # a => h.parent[b] \in under[a]}
<1>1. ASSUME NEW a \in under[h.root],
             \A s \in Sides : h.child[s][a] # Nil => h.child[s][a] \in S
      PROVE  a \in S
  <2> SUFFICES ASSUME NEW b \in under[a], b # a PROVE h.parent[b] \in under[a]
    OBVIOUS
  <2>1. PICK s \in Sides : b \in under[h.child[s][a]]
    BY DEF IsTree, Fits
  <2>2. h.child[s][a] # Nil
    BY <2>1 DEF IsTree
  <2>3. CASE b = h.child[s][a]
    BY <2>2, <2>3, ChildParts, NodeParts
  <2>4. CASE b # h.child[s][a]
    <3>1. h.parent[b] \in under[h.child[s][a]]
      BY <1>1, <2>1, <2>2, <2>4
    <3>2. under[h.child[s][a]] \subseteq under[a]
      BY ChildParts
    <3> QED
      BY <3>1, <3>2
  <2> QED
    BY <2>3, <2>4
<1> HIDE DEF S
<1>2. under[h.root] \subseteq S
  BY <1>1, FromTheLeaves
<1>3. h.parent[m] \in under[n]
  BY <1>2 DEF S
<1> QED
  BY <1>3, NodeParts

(* A key between two keys of a subtree is in the subtree. *)
LEMMA NothingBetween ==
  ASSUME NEW h, NEW under, IsTree(h, under), NEW n \in under[h.root],
         NEW x \in under[n], NEW z \in under[n], NEW y \in under[h.root], x < y, y < z
  PROVE  y \in under[n]
<1> DEFINE Between(a, b) == \A u, w \in under[b], v \in under[a] : u < v /\ v < w => v \in under[b]
           S == {a \in under[h.root] : \A b \in under[a] : Between(a, b)}
<1>1. ASSUME NEW a \in under[h.root],
             \A s \in Sides : h.child[s][a] # Nil => h.child[s][a] \in S
      PROVE  a \in S
  <2> SUFFICES ASSUME NEW b \in under[a], NEW u \in under[b], NEW w \in under[b],
                      NEW v \in under[a], u < v, v < w
               PROVE  v \in under[b]
    OBVIOUS
  <2>1. CASE b = a
    BY <2>1
  <2>2. CASE b # a
    <3>1. PICK s \in Sides : b \in under[h.child[s][a]]
      BY <2>2 DEF IsTree, Fits
    <3> DEFINE c == h.child[s][a]
    <3>2. c # Nil
      BY <3>1 DEF IsTree
    <3>3. c \in under[h.root] /\ c \in S
      BY <1>1, <3>2, ChildParts
    <3>4. under[b] \subseteq under[c]
      BY <3>1, <3>3, UnderUnder
    <3>5. Before(s, u, a) /\ Before(s, w, a)
      BY <3>4, ChildParts
    <3>6. u \in SetKeys /\ w \in SetKeys /\ v \in SetKeys /\ a \in SetKeys
      BY <3>3, <3>4, NodeParts
    <3>7. Before(s, v, a)
      <4>1. s = "left" \/ s = "right"
        BY DEF Sides
      <4> QED
        BY <3>5, <3>6, <4>1, KeyFacts DEF Before
    <3>8. v \in under[c]
      BY <3>7, ChildParts
    <3> HIDE DEF c
    <3> QED
      BY <3>1, <3>3, <3>8 DEF c
  <2> QED
    BY <2>1, <2>2
<1>2. under[h.root] \subseteq S
  <2> HIDE DEF S
  <2> QED
    BY <1>1, FromTheLeaves
<1>3. h.root \in S /\ n \in under[h.root]
  BY <1>2, NodeParts
<1> QED
  BY <1>3

(* What the assignments to a child, a parent and a colour change. *)
Linked(g, h, side, n, v) ==
  /\ g \in Heaps /\ g.root = h.root /\ g.parent = h.parent /\ g.color = h.color
  /\ \A s \in Sides, m \in SetKeys :
       g.child[s][m] = IF s = side /\ m = n THEN v ELSE h.child[s][m]

Adopted(g, h, n, v) ==
  /\ g \in Heaps /\ g.root = h.root /\ g.child = h.child /\ g.color = h.color
  /\ \A m \in SetKeys : g.parent[m] = IF m = n THEN v ELSE h.parent[m]

Replaced(g, h, n, v) ==
  /\ g \in Heaps /\ g.parent = h.parent /\ g.color = h.color
  /\ h.parent[n] = Nil => g.root = v /\ g.child = h.child
  /\ h.parent[n] # Nil => /\ g.root = h.root
       /\ SideOf(h, n, h.parent[n]) \in Sides
       /\ \A s \in Sides, m \in SetKeys :
            g.child[s][m] = IF s = SideOf(h, n, h.parent[n]) /\ m = h.parent[n] THEN v
                            ELSE h.child[s][m]

Recolored(g, h) == g \in Heaps /\ g.root = h.root /\ g.child = h.child /\ g.parent = h.parent

LEMMA SetChild ==
  ASSUME NEW h \in Heaps, NEW side \in Sides, NEW n \in SetKeys, NEW v \in Refs
  PROVE  Linked([h EXCEPT !.child[side][n] = v], h, side, n, v)
BY HeapParts DEF Heaps, Linked

LEMMA AdoptFields ==
  ASSUME NEW h \in Heaps, NEW n \in Refs, NEW v \in Refs
  PROVE  Adopted(Adopt(h, n, v), h, n, v)
<1>1. CASE n = Nil
  BY <1>1, KeyFacts DEF Adopt, Adopted
<1>2. CASE n # Nil
  <2>1. n \in SetKeys /\ Adopt(h, n, v) = [h EXCEPT !.parent[n] = v]
    BY <1>2, KeyFacts DEF Adopt
  <2> QED
    BY <2>1, HeapParts DEF Heaps, Adopted
<1> QED
  BY <1>1, <1>2

LEMMA ReplaceFields ==
  ASSUME NEW h \in Heaps, NEW n \in SetKeys, NEW v \in Refs
  PROVE  Replaced(Replace(h, n, v), h, n, v)
<1> DEFINE g == Replace(h, n, v)
<1>1. CASE h.parent[n] = Nil
  <2>1. g = [h EXCEPT !.root = v]
    BY <1>1 DEF Replace
  <2> HIDE DEF g
  <2>2. g \in Heaps /\ g.parent = h.parent /\ g.color = h.color /\ g.root = v /\ g.child = h.child
    BY <2>1, HeapParts DEF Heaps
  <2> QED
    BY <1>1, <2>2 DEF Replaced, g
<1>2. CASE h.parent[n] # Nil
  <2>1. h.parent[n] \in SetKeys
    BY <1>2, KeyFacts, HeapParts
  <2>2. SideOf(h, n, h.parent[n]) \in Sides
    BY SideFacts DEF SideOf
  <2>3. g = [h EXCEPT !.child[SideOf(h, n, h.parent[n])][h.parent[n]] = v]
    BY <1>2, Zenon DEF Replace
  <2>4. Linked(g, h, SideOf(h, n, h.parent[n]), h.parent[n], v)
    BY <2>1, <2>2, <2>3, SetChild
  <2> HIDE DEF g
  <2> QED
    BY <1>2, <2>2, <2>4 DEF Replaced, Linked, g
<1> QED
  BY <1>1, <1>2

LEMMA PaintFields ==
  ASSUME NEW h \in Heaps, NEW n \in Refs, NEW c \in Colors \cup {Nil}
  PROVE  /\ Recolored(Paint(h, n, c), h)
         /\ \A m \in SetKeys : Paint(h, n, c).color[m] = IF m = n THEN c ELSE h.color[m]
<1>1. CASE n = Nil
  BY <1>1, KeyFacts DEF Paint, Recolored
<1>2. CASE n # Nil
  <2>1. n \in SetKeys /\ Paint(h, n, c) = [h EXCEPT !.color[n] = c]
    BY <1>2, KeyFacts DEF Paint
  <2> DEFINE g == Paint(h, n, c)
  <2> HIDE DEF g
  <2>2. g \in Heaps
    BY <2>1, HeapParts DEF Heaps, g
  <2>3. g.root = h.root /\ g.child = h.child /\ g.parent = h.parent
    BY <2>1 DEF Heaps, g
  <2>4. \A m \in SetKeys : g.color[m] = IF m = n THEN c ELSE h.color[m]
    BY <2>1, HeapParts DEF Heaps, g
  <2> QED
    BY <2>2, <2>3, <2>4 DEF Recolored, g
<1> QED
  BY <1>1, <1>2

LEMMA SwappedFields ==
  ASSUME NEW h \in Heaps, NEW a \in SetKeys, NEW b \in SetKeys, a # b
  PROVE  /\ Recolored(Swapped(h, a, b), h)
         /\ \A m \in SetKeys :
              Swapped(h, a, b).color[m] = IF m = a THEN h.color[b]
                                          ELSE IF m = b THEN h.color[a] ELSE h.color[m]
<1> DEFINE g == Swapped(h, a, b)
           x == h.color[b]
           y == h.color[a]
<1>1. x \in Colors \cup {Nil} /\ y \in Colors \cup {Nil}
  BY HeapParts
<1>2. g = [h EXCEPT !.color[a] = x, !.color[b] = y]
  BY DEF Swapped
<1> HIDE DEF g, x, y
<1>3. g \in Heaps
  BY <1>1, <1>2 DEF Heaps
<1>4. g.root = h.root /\ g.child = h.child /\ g.parent = h.parent
  BY <1>2 DEF Heaps
<1>5. \A m \in SetKeys : g.color[m] = IF m = a THEN x ELSE IF m = b THEN y ELSE h.color[m]
  BY <1>1, <1>2 DEF Heaps
<1> QED
  BY <1>3, <1>4, <1>5 DEF Recolored, g, x, y

Freed(g, h, n) ==
  /\ g \in Heaps /\ g.root = h.root
  /\ \A s \in Sides, m \in SetKeys : g.child[s][m] = IF m = n THEN Nil ELSE h.child[s][m]
  /\ \A m \in SetKeys : g.parent[m] = IF m = n THEN Nil ELSE h.parent[m]
  /\ \A m \in SetKeys : g.color[m] = IF m = n THEN Nil ELSE h.color[m]

LEMMA FreeFields ==
  ASSUME NEW h \in Heaps, NEW n \in SetKeys
  PROVE  Freed(Free(h, n), h, n)
<1> DEFINE c == [s \in Sides |-> [h.child[s] EXCEPT ![n] = Nil]]
           g == Free(h, n)
<1>1. g = [h EXCEPT !.child = c, !.parent[n] = Nil, !.color[n] = Nil]
  BY DEF Free
<1>2. c \in [Sides -> [SetKeys -> Refs]]
  BY HeapParts, KeyFacts
<1>3. \A s \in Sides, m \in SetKeys : c[s][m] = IF m = n THEN Nil ELSE h.child[s][m]
  BY HeapParts
<1> HIDE DEF c, g
<1>4. g.root = h.root /\ g.child = c
  BY <1>1 DEF Heaps
<1>5. /\ \A m \in SetKeys : g.parent[m] = IF m = n THEN Nil ELSE h.parent[m]
      /\ \A m \in SetKeys : g.color[m] = IF m = n THEN Nil ELSE h.color[m]
  BY <1>1 DEF Heaps
<1>6. g \in Heaps
  BY <1>1, <1>2, KeyFacts DEF Heaps
<1> QED
  BY <1>3, <1>4, <1>5, <1>6 DEF Freed, g

(* The side of a node below its parent. *)
LEMMA SideOfNode ==
  ASSUME NEW h, NEW under, IsTree(h, under), NEW n \in under[h.root], h.parent[n] # Nil
  PROVE  /\ SideOf(h, n, h.parent[n]) \in Sides
         /\ \A s \in Sides : h.child[s][h.parent[n]] = n <=> s = SideOf(h, n, h.parent[n])
<1> DEFINE q == h.parent[n]
<1>1. q \in under[h.root] /\ n # Nil /\ \E s \in Sides : h.child[s][q] = n
  BY NodeParts
<1>2. ASSUME NEW s \in Sides, h.child[s][q] # Nil
      PROVE  h.child[s][q] # h.child[Other(s)][q]
  <2> HIDE DEF q
  <2> QED
    BY <1>1, <1>2, ChildParts
<1> HIDE DEF q
<1>3. h.child["left"][q] = n => h.child["right"][q] # n
  BY <1>1, <1>2, SideFacts
<1> QED
  BY <1>1, <1>3, SideFacts DEF SideOf, Sides, q

-----------------------------------------------------------------------------
(* A rotation. *)

LEMMA RotateFields ==
  ASSUME NEW h, NEW under, IsTree(h, under), NEW n \in under[h.root], NEW side \in Sides,
         NEW up, up = h.child[Other(side)][n], up # Nil,
         NEW inner, inner = h.child[side][up],
         NEW g, g = Rotate(h, n, side)
  PROVE  /\ g \in Heaps /\ g.color = h.color
         /\ g.root = IF h.parent[n] = Nil THEN up ELSE h.root
         /\ \A s \in Sides, m \in SetKeys :
              g.child[s][m] = IF m = n /\ s = Other(side) THEN inner
                              ELSE IF m = up /\ s = side THEN n
                              ELSE IF m = h.parent[n] /\ h.child[s][m] = n THEN up
                              ELSE h.child[s][m]
         /\ \A m \in SetKeys :
              g.parent[m] = IF m = n THEN up ELSE IF m = up THEN h.parent[n]
                            ELSE IF m = inner THEN n ELSE h.parent[m]
<1> DEFINE q == h.parent[n]
           o == Other(side)
           ha == [h EXCEPT !.child[o][n] = inner]
           hb == Adopt(ha, inner, n)
           hc == Replace(hb, n, up)
           hd == Adopt(hc, up, q)
           he == [hd EXCEPT !.child[side][up] = n]
<1>1. h \in Heaps /\ o \in Sides /\ o # side /\ n \in SetKeys /\ n # Nil /\ n \in Refs /\ q \in Refs
  BY SideFacts, NodeParts, KeyFacts, HeapParts DEF IsTree
<1>2. up \in under[h.root] /\ up \in SetKeys /\ up \in Refs /\ up # n /\ h.parent[up] = n
  BY <1>1, ChildParts, NodeParts, KeyFacts
<1>3. inner \in Refs /\ (inner # Nil => inner # up /\ h.parent[inner] = up)
  BY <1>2, ChildParts
<1>4. inner # n /\ q # n
  <2>1. n \in under[n] /\ n \notin under[up] /\ up \in under[up]
    BY <1>1, <1>2, ChildParts, NodeParts
  <2>2. inner # Nil => inner \in under[inner] /\ under[inner] \subseteq under[up]
    BY <1>2, ChildParts
  <2>3. q # Nil => q \in under[h.root] /\ \E s \in Sides : h.child[s][q] = n
    BY NodeParts
  <2>4. q = n => \E s \in Sides : h.child[s][n] = n
    BY <1>1, <2>3
  <2>5. \A s \in Sides : h.child[s][n] # Nil => h.child[s][n] # n
    BY ChildParts
  <2> QED
    BY <1>1, <2>1, <2>2, <2>4, <2>5
<1>5. g = Adopt(he, n, up)
  BY Zenon DEF Rotate
<1>6. Linked(ha, h, o, n, inner)
  BY <1>1, <1>3, SetChild
<1> HIDE DEF ha
<1>7. Adopted(hb, ha, inner, n)
  BY <1>1, <1>3, <1>6, AdoptFields DEF Linked
<1> HIDE DEF hb
<1>8. hb \in Heaps /\ hb.parent[n] = q /\ hb.root = h.root /\ hb.color = h.color
  BY <1>1, <1>4, <1>6, <1>7 DEF Linked, Adopted
<1>9. q # Nil => /\ SideOf(hb, n, q) = SideOf(h, n, q)
                 /\ \A s \in Sides : h.child[s][q] = n <=> s = SideOf(h, n, q)
  <2>1. ASSUME q # Nil
        PROVE  SideOf(hb, n, q) = SideOf(h, n, q)
    <3>1. q \in SetKeys
      BY <1>1, <2>1, KeyFacts
    <3>2. hb.child["left"][q] = h.child["left"][q]
      BY <1>4, <1>6, <1>7, <3>1, SideFacts DEF Linked, Adopted
    <3> QED
      BY <3>2 DEF SideOf
  <2> QED
    BY <2>1, SideOfNode
<1>10. Replaced(hc, hb, n, up)
  BY <1>1, <1>2, <1>8, ReplaceFields
<1> HIDE DEF hc
<1>11. Adopted(hd, hc, up, q)
  BY <1>1, <1>2, <1>10, AdoptFields DEF Replaced
<1> HIDE DEF hd
<1>12. Linked(he, hd, side, up, n)
  BY <1>1, <1>2, <1>11, SetChild DEF Adopted
<1> HIDE DEF he
<1>13. Adopted(g, he, n, up)
  BY <1>1, <1>2, <1>5, <1>12, AdoptFields DEF Linked
<1>14. g \in Heaps /\ g.color = h.color /\ g.root = IF q = Nil THEN up ELSE h.root
  <2>1. g.root = hc.root /\ g.color = hc.color /\ g \in Heaps
    BY <1>11, <1>12, <1>13 DEF Linked, Adopted
  <2> QED
    BY <1>8, <1>10, <2>1 DEF Replaced
<1>15. ASSUME NEW m \in SetKeys
       PROVE  g.parent[m] = IF m = n THEN up ELSE IF m = up THEN q
                            ELSE IF m = inner THEN n ELSE h.parent[m]
  <2>1. g.parent[m] = IF m = n THEN up ELSE IF m = up THEN q ELSE hc.parent[m]
    BY <1>11, <1>12, <1>13 DEF Linked, Adopted
  <2>2. hc.parent[m] = IF m = inner THEN n ELSE h.parent[m]
    BY <1>6, <1>7, <1>10 DEF Linked, Adopted, Replaced
  <2> HIDE DEF q
  <2> QED
    BY <2>1, <2>2
<1>16. up # q
  <2>1. q = up => \E s \in Sides : h.child[s][up] = n
    BY <1>2, NodeParts, KeyFacts
  <2>2. n \notin under[up] /\ n \in under[n]
    BY <1>1, <1>2, ChildParts, NodeParts
  <2>3. \A s \in Sides : under[h.child[s][up]] \subseteq under[up]
    BY <1>2, ChildParts
  <2> HIDE DEF q
  <2> QED
    BY <2>1, <2>2, <2>3
<1>17. ASSUME NEW s \in Sides, NEW m \in SetKeys
       PROVE  g.child[s][m] = IF m = n /\ s = o THEN inner
                              ELSE IF m = up /\ s = side THEN n
                              ELSE IF m = q /\ h.child[s][m] = n THEN up
                              ELSE h.child[s][m]
  <2>1. g.child[s][m] = IF s = side /\ m = up THEN n ELSE hc.child[s][m]
    BY <1>11, <1>12, <1>13 DEF Linked, Adopted
  <2>2. hb.child[s][m] = IF s = o /\ m = n THEN inner ELSE h.child[s][m]
    BY <1>6, <1>7 DEF Linked, Adopted
  <2>3. CASE q = Nil
    <3>1. m # q
      BY <2>3, KeyFacts
    <3>2. hc.child[s][m] = hb.child[s][m]
      BY <1>8, <1>10, <2>3 DEF Replaced
    <3> HIDE DEF q, o
    <3> QED
      BY <1>2, <2>1, <2>2, <3>1, <3>2
  <2>4. CASE q # Nil
    <3>1. hc.child[s][m] = IF s = SideOf(h, n, q) /\ m = q THEN up ELSE hb.child[s][m]
      BY <1>8, <1>9, <1>10, <2>4 DEF Replaced
    <3>2. m = q => (h.child[s][m] = n <=> s = SideOf(h, n, q))
      BY <1>9, <2>4
    <3> HIDE DEF q, o
    <3> QED
      BY <1>2, <1>4, <1>16, <2>1, <2>2, <3>1, <3>2
  <2> QED
    BY <2>3, <2>4
<1> QED
  BY <1>14, <1>15, <1>17

(* The keys under each node once up has been turned up over n. *)
UnderTurned(h, under, n, up, side) ==
  [under EXCEPT ![up] = under[n], ![n] = under[n] \ (under[h.child[Other(side)][up]] \cup {up})]

(* A rotation leaves a search tree with the same keys. *)
LEMMA RotateKeepsTree ==
  ASSUME NEW h, NEW under, IsTree(h, under), NEW n \in under[h.root], NEW side \in Sides,
         NEW up, up = h.child[Other(side)][n], up # Nil,
         NEW g, g = Rotate(h, n, side),
         NEW new, new = UnderTurned(h, under, n, up, side)
  PROVE  IsTree(g, new) /\ new[g.root] = under[h.root]
<1> DEFINE q == h.parent[n]
           o == Other(side)
           N == under[h.root]
           inner == h.child[side][up]
           outer == h.child[side][n]
           far == h.child[o][up]
<1>1. /\ h \in Heaps /\ o \in Sides /\ o # side /\ \A s \in Sides : s # o => s = side
      /\ under \in [Refs -> SUBSET SetKeys] /\ under[Nil] = {} /\ h.root \in N
      /\ n \in SetKeys /\ n # Nil /\ n \in Refs /\ n \in under[n] /\ under[n] \subseteq N
      /\ under[n] \subseteq SetKeys /\ (n = h.root <=> q = Nil) /\ N \subseteq SetKeys
  <2>1. h \in Heaps /\ under \in [Refs -> SUBSET SetKeys] /\ under[Nil] = {}
    BY DEF IsTree
  <2>2. h.root \in Refs
    BY <2>1, HeapParts
  <2> QED
    BY <2>1, <2>2, SideFacts, NodeParts, KeyFacts
<1>2. /\ up \in N /\ up \in SetKeys /\ up \in Refs /\ up # n /\ h.parent[up] = n
      /\ under[up] \subseteq under[n] /\ n \notin under[up] /\ up \in under[up] /\ up # h.root
  BY <1>1, ChildParts, NodeParts, KeyFacts
<1>3. /\ inner \in Refs /\ (inner # Nil => inner # up /\ h.parent[inner] = up /\ inner \in N)
      /\ far \in Refs /\ (far # Nil => far # up /\ far \in N /\ h.parent[far] = up)
      /\ under[inner] \subseteq under[up] /\ under[far] \subseteq under[up]
      /\ up \notin under[inner] /\ up \notin under[far]
  BY <1>1, <1>2, ChildParts
<1>4. /\ outer \in Refs /\ (outer # Nil => outer # n /\ outer # up /\ h.parent[outer] = n /\ outer \in N)
      /\ under[outer] \subseteq under[n] /\ n \notin under[outer] /\ up \notin under[outer]
      /\ outer # Nil => outer \in under[outer]
  <2>1. \A x \in under[outer] : Before(side, x, n)
    BY ChildParts
  <2>2. Before(o, up, n)
    BY <1>1, <1>2, ChildParts
  <2>3. up \notin under[outer]
    BY <1>1, <1>2, <2>1, <2>2, BeforeFacts
  <2>4. /\ outer \in Refs /\ (outer # Nil => outer # n /\ h.parent[outer] = n /\ outer \in N)
        /\ under[outer] \subseteq under[n] /\ n \notin under[outer]
        /\ outer # Nil => outer \in under[outer]
    BY ChildParts
  <2> HIDE DEF outer
  <2> QED
    BY <2>3, <2>4
<1>5. inner # n /\ far # n /\ q # n /\ up # q /\ (q # Nil => q \in N)
  <2>1. inner # Nil => inner \in under[inner]
    BY <1>3, NodeParts
  <2>2. far # Nil => far \in under[far]
    BY <1>3, NodeParts
  <2>3. q # Nil => q \in N /\ \E s \in Sides : h.child[s][q] = n
    BY NodeParts
  <2>4. \A s \in Sides : h.child[s][n] # Nil => h.child[s][n] # n
    BY ChildParts
  <2>5. \A s \in Sides : under[h.child[s][up]] \subseteq under[up]
    BY <1>2, ChildParts
  <2> HIDE DEF inner, far, q, o
  <2>6. q # n
    BY <1>1, <2>3, <2>4
  <2>7. q # up
    BY <1>1, <1>2, <2>3, <2>5, KeyFacts
  <2>8. inner # n /\ far # n
    BY <1>1, <1>2, <1>3, <2>1, <2>2
  <2> QED
    BY <2>3, <2>6, <2>7, <2>8
<1>6. /\ g \in Heaps
      /\ g.root = IF q = Nil THEN up ELSE h.root
      /\ \A s \in Sides, m \in SetKeys :
           g.child[s][m] = IF m = n /\ s = o THEN inner
                           ELSE IF m = up /\ s = side THEN n
                           ELSE IF m = q /\ h.child[s][m] = n THEN up
                           ELSE h.child[s][m]
      /\ \A m \in SetKeys :
           g.parent[m] = IF m = n THEN up ELSE IF m = up THEN q
                         ELSE IF m = inner THEN n ELSE h.parent[m]
  BY RotateFields
<1>7. /\ new[n] = under[n] \ (under[far] \cup {up})
      /\ \A m \in Refs : m # n => new[m] = IF m = up THEN under[n] ELSE under[m]
      /\ new \in [Refs -> SUBSET SetKeys] /\ new[Nil] = {}
  <2> DEFINE A == under[n]
             B == under[n] \ (under[far] \cup {up})
  <2>1. A \in SUBSET SetKeys /\ B \in SUBSET SetKeys
    BY <1>1
  <2>2. new = [under EXCEPT ![up] = A, ![n] = B]
    BY DEF UnderTurned
  <2> HIDE DEF A, B
  <2>3. new \in [Refs -> SUBSET SetKeys] /\ new[n] = B
    BY <1>1, <1>2, <2>1, <2>2
  <2>4. \A m \in Refs : m # n => new[m] = IF m = up THEN A ELSE under[m]
    BY <1>1, <1>2, <2>1, <2>2
  <2>5. new[Nil] = {}
    BY <1>1, <1>2, <2>4, KeyFacts
  <2> QED
    BY <2>3, <2>4, <2>5 DEF A, B
<1>8. \A x \in under[n] : x = n \/ x \in under[up] \/ x \in under[outer]
  <2>1. \A x \in under[n] : x = n \/ \E s \in Sides : x \in under[h.child[s][n]]
    BY DEF IsTree, Fits
  <2> QED
    BY <1>1, <2>1
<1>9. \A x \in under[up] : x = up \/ x \in under[inner] \/ x \in under[far]
  <2>1. \A x \in under[up] : x = up \/ \E s \in Sides : x \in under[h.child[s][up]]
    BY <1>2 DEF IsTree, Fits
  <2> QED
    BY <1>1, <2>1
<1>10. /\ \A x \in under[outer] : Before(side, x, n)
       /\ \A x \in under[up] : Before(o, x, n)
       /\ \A x \in under[inner] : Before(side, x, up)
       /\ \A x \in under[far] : Before(o, x, up)
  BY <1>1, <1>2, ChildParts
<1>11. g.root \in N /\ new[g.root] = N /\ g.parent[g.root] = Nil
  <2>1. CASE q = Nil
    BY <1>1, <1>2, <1>5, <1>6, <1>7, <2>1
  <2>2. CASE q # Nil
    <3>1. g.root = h.root /\ h.root # n /\ h.root # up /\ h.root \in SetKeys
      BY <1>1, <1>2, <1>6, <2>2
    <3>2. h.parent[h.root] = Nil /\ h.root # inner
      <4>1. h.parent[h.root] = Nil
        BY <1>1, KeyFacts DEF IsTree
      <4>2. h.root # Nil
        BY <3>1, KeyFacts
      <4> HIDE DEF inner
      <4> QED
        BY <1>2, <1>3, <4>1, <4>2, KeyFacts
    <3>3. h.root \in Refs
      BY <3>1, KeyFacts
    <3> QED
      BY <1>1, <1>6, <1>7, <3>1, <3>2, <3>3
  <2> QED
    BY <2>1, <2>2
<1>12. (outer # inner /\ far # inner) \/ inner = Nil
  <2>1. inner # Nil => inner \in under[inner]
    BY <1>3, NodeParts
  <2>2. inner # Nil => inner # far
    BY <1>1, <1>2, ChildParts
  <2> HIDE DEF inner, outer, far, N
  <2> QED
    BY <1>2, <1>3, <1>4, <2>1, <2>2
<1>13. ASSUME NEW m \in N, m # n, m # up
       PROVE  Fits(g, new, m)
  <2>1. m \in SetKeys /\ m \in Refs /\ m # Nil /\ new[m] = under[m] /\ m \in under[m] /\ under[m] \subseteq N
    BY <1>1, <1>7, <1>13, NodeParts, KeyFacts
  <2>2. ASSUME NEW s \in Sides
        PROVE  /\ new[g.child[s][m]] = under[h.child[s][m]]
               /\ g.child[s][m] # Nil => g.child[s][m] \in N /\ g.parent[g.child[s][m]] = m
    <3> DEFINE c == h.child[s][m]
    <3>1. c \in Refs /\ (c # Nil => c \in N /\ c \in SetKeys /\ h.parent[c] = m)
      <4>1. c \in Refs /\ (c # Nil => c \in N /\ h.parent[c] = m)
        BY ChildParts
      <4> HIDE DEF c, N
      <4> QED
        BY <1>1, <4>1
    <3>2. c # up /\ (c = inner => c = Nil)
      BY <1>2, <1>3, <1>13, <3>1
    <3>3. CASE c = n
      <4>1. m = q
        BY <1>1, <3>1, <3>3
      <4>2. g.child[s][m] = up
        BY <1>6, <1>13, <2>1, <3>3, <4>1
      <4>3. g.parent[up] = m
        BY <1>2, <1>6, <4>1
      <4> HIDE DEF q, N, c
      <4>4. new[up] = under[c]
        BY <1>2, <1>7, <3>3
      <4> QED
        BY <1>2, <4>2, <4>3, <4>4 DEF c
    <3>4. CASE c # n
      <4>1. g.child[s][m] = c
        BY <1>6, <1>13, <2>1, <3>4
      <4> HIDE DEF q, N, c, inner
      <4>2. new[c] = under[c]
        BY <1>7, <3>1, <3>2, <3>4
      <4>3. c # Nil => g.parent[c] = m
        BY <1>6, <3>1, <3>2, <3>4
      <4> QED
        BY <3>1, <4>1, <4>2, <4>3 DEF c
    <3> QED
      BY <3>3, <3>4
  <2>3. /\ \A x \in under[m] : x = m \/ \E s \in Sides : x \in under[h.child[s][m]]
        /\ \A s \in Sides : \A x \in under[h.child[s][m]] : x \in under[m] /\ Before(s, x, m)
    BY Zenon DEF IsTree, Fits
  <2>4. ASSUME m # g.root
        PROVE  g.parent[m] \in N /\ \E s \in Sides : g.child[s][g.parent[m]] = m
    <3>1. CASE m = inner
      <4>1. g.parent[m] = n
        BY <1>6, <1>13, <2>1, <3>1
      <4>2. g.child[o][n] = m
        BY <1>1, <1>6, <3>1
      <4> QED
        BY <1>1, <4>1, <4>2
    <3>2. CASE m # inner
      <4> DEFINE p == h.parent[m]
      <4>1. g.parent[m] = p
        BY <1>6, <1>13, <2>1, <3>2
      <4>2. m # h.root
        BY <1>1, <1>6, <1>13, <2>4
      <4>3. p # Nil /\ p \in N /\ p \in SetKeys
        BY <1>1, <4>2, NodeParts
      <4>4. PICK s \in Sides : h.child[s][p] = m
        BY <4>3, NodeParts
      <4>5. ~(p = n /\ s = o) /\ ~(p = up /\ s = side)
        BY <1>13, <3>2, <4>4
      <4> HIDE DEF p, q, inner
      <4>6. g.child[s][p] = m
        BY <1>6, <1>13, <4>3, <4>4, <4>5
      <4> QED
        BY <4>1, <4>3, <4>6
    <3> QED
      BY <3>1, <3>2
  <2> HIDE DEF q, o, N, inner, outer, far
  <2> QED
    BY <1>11, <2>1, <2>2, <2>3, <2>4, Zenon DEF Fits
<1>14. Fits(g, new, n)
  <2>1. g.child[o][n] = inner /\ g.child[side][n] = outer
    BY <1>1, <1>2, <1>5, <1>6
  <2>2. new[inner] = under[inner] /\ new[outer] = under[outer]
    BY <1>1, <1>3, <1>4, <1>5, <1>7
  <2> HIDE DEF q, o, N, inner, outer, far
  <2>3. /\ n \in new[n] /\ new[n] \subseteq N
        /\ \A x \in new[n] : x = n \/ x \in under[inner] \/ x \in under[outer]
    BY <1>1, <1>2, <1>3, <1>7, <1>8, <1>9
  <2>4. ASSUME NEW x \in under[outer]
        PROVE  x \in new[n] /\ Before(side, x, n)
    <3>1. Before(side, x, n) /\ x \in under[n]
      BY <1>4, <1>10
    <3>2. x \in SetKeys /\ ~Before(o, x, n)
      BY <1>1, <3>1, BeforeFacts DEF o
    <3>3. x \notin under[up]
      BY <1>10, <3>2
    <3> QED
      BY <1>2, <1>3, <1>7, <3>1, <3>3
  <2>5. ASSUME NEW x \in under[inner]
        PROVE  x \in new[n] /\ Before(o, x, n)
    <3>1. Before(side, x, up) /\ x \in under[up] /\ x \in under[n]
      BY <1>2, <1>3, <1>10
    <3>2. x \in SetKeys /\ ~Before(o, x, up) /\ x # up
      BY <1>1, <1>2, <3>1, BeforeFacts DEF o
    <3>3. x \notin under[far]
      BY <1>10, <3>2
    <3> QED
      BY <1>7, <1>10, <3>1, <3>2, <3>3
  <2>6. /\ outer # Nil => g.parent[outer] = n
        /\ inner # Nil => g.parent[inner] = n
    <3>1. outer # Nil => outer # inner
      BY <1>12
    <3>2. outer # Nil => outer \in SetKeys
      BY <1>4, KeyFacts
    <3>3. inner # Nil => inner \in SetKeys
      BY <1>3, KeyFacts
    <3>4. \A m \in SetKeys : m # n /\ m # up => g.parent[m] = IF m = inner THEN n ELSE h.parent[m]
      BY <1>6
    <3>5. outer # Nil => g.parent[outer] = h.parent[outer]
      BY <1>4, <3>1, <3>2, <3>4
    <3>6. inner # Nil => g.parent[inner] = n
      BY <1>3, <1>5, <3>3, <3>4
    <3> QED
      BY <1>4, <3>5, <3>6
  <2>7. g.parent[n] = up /\ g.child[side][up] = n
    BY <1>1, <1>2, <1>6
  <2>8. ASSUME NEW s \in Sides
        PROVE  (s = o /\ g.child[s][n] = inner) \/ (s = side /\ g.child[s][n] = outer)
    BY <1>1, <2>1
  <2>9. \A x \in new[n] : x = n \/ \E s \in Sides : x \in new[g.child[s][n]]
    BY <1>1, <2>1, <2>2, <2>3
  <2>10. \A s \in Sides : \A x \in new[g.child[s][n]] : x \in new[n] /\ Before(s, x, n)
    BY <2>2, <2>4, <2>5, <2>8
  <2>11. \A s \in Sides : g.child[s][n] # Nil => g.child[s][n] \in N /\ g.parent[g.child[s][n]] = n
    BY <1>3, <1>4, <2>6, <2>8
  <2> QED
    BY <1>2, <1>11, <2>3, <2>7, <2>9, <2>10, <2>11, Zenon DEF Fits
<1>15. Fits(g, new, up)
  <2>1. g.child[side][up] = n /\ g.child[o][up] = far
    BY <1>1, <1>2, <1>5, <1>6
  <2>2. new[up] = under[n] /\ new[far] = under[far]
    BY <1>1, <1>2, <1>3, <1>5, <1>7
  <2>3. q # Nil => \E s \in Sides : g.child[s][q] = up
    <3>1. q # Nil => q \in SetKeys /\ \E s \in Sides : h.child[s][q] = n
      BY <1>1, <1>5, NodeParts
    <3> HIDE DEF q, o, N, inner, far
    <3> QED
      BY <1>5, <1>6, <3>1
  <2>4. g.parent[up] = q /\ (q = Nil => g.root = up)
    BY <1>2, <1>6
  <2> HIDE DEF q, o, N, inner, outer, far
  <2>5. Before(side, n, up)
    BY <1>1, <1>2, <1>10, BeforeFacts DEF o
  <2>6. ASSUME NEW x \in new[n]
        PROVE  x \in new[up] /\ Before(side, x, up)
    <3>1. x \in under[n] /\ x \notin under[far] /\ x # up /\ x \in SetKeys
      BY <1>1, <1>7
    <3>2. CASE x = n
      BY <2>2, <2>5, <3>1, <3>2
    <3>3. CASE x \in under[up]
      <4>1. x \in under[inner]
        BY <1>9, <3>1, <3>3
      <4> QED
        BY <1>10, <2>2, <3>1, <4>1
    <3>4. CASE x \in under[outer]
      <4>1. Before(side, x, n)
        BY <1>10, <3>4
      <4>2. Before(side, x, up)
        BY <1>1, <1>2, <2>5, <3>1, <4>1, BeforeFacts
      <4> QED
        BY <2>2, <3>1, <4>2
    <3> QED
      BY <1>8, <3>1, <3>2, <3>3, <3>4
  <2>7. ASSUME NEW x \in under[far]
        PROVE  x \in new[up] /\ Before(o, x, up)
    BY <1>2, <1>3, <1>10, <2>2
  <2>8. \A x \in new[up] : x = up \/ x \in new[n] \/ x \in new[far]
    BY <1>7, <2>2
  <2>9. g.parent[n] = up /\ (far # Nil => g.parent[far] = up)
    <3>1. far # Nil => far # inner /\ far \in SetKeys
      BY <1>3, <1>12, KeyFacts
    <3>2. \A m \in SetKeys : m # n /\ m # up => g.parent[m] = IF m = inner THEN n ELSE h.parent[m]
      BY <1>6
    <3>3. far # Nil => g.parent[far] = h.parent[far]
      BY <1>3, <1>5, <3>1, <3>2
    <3>4. g.parent[n] = up
      BY <1>1, <1>6
    <3> QED
      BY <1>3, <3>3, <3>4
  <2>10. ASSUME NEW s \in Sides
        PROVE  (s = side /\ g.child[s][up] = n) \/ (s = o /\ g.child[s][up] = far)
    BY <1>1, <2>1
  <2>11. \A x \in new[up] : x = up \/ \E s \in Sides : x \in new[g.child[s][up]]
    BY <1>1, <2>1, <2>8
  <2>12. \A s \in Sides : \A x \in new[g.child[s][up]] : x \in new[up] /\ Before(s, x, up)
    BY <2>2, <2>6, <2>7, <2>10
  <2>13. \A s \in Sides : g.child[s][up] # Nil => g.child[s][up] \in N /\ g.parent[g.child[s][up]] = up
    BY <1>3, <2>9, <2>10 DEF N
  <2>14. up # g.root => g.parent[up] \in N /\ \E s \in Sides : g.child[s][g.parent[up]] = up
    BY <1>5, <2>3, <2>4
  <2>15. up \in new[up] /\ new[up] \subseteq N
    BY <1>1, <1>2, <2>2
  <2> QED
    BY <1>11, <2>11, <2>12, <2>13, <2>14, <2>15, Zenon DEF Fits
<1> HIDE DEF q, o, N, inner, outer, far
<1>16. \A m \in new[g.root] : Fits(g, new, m)
  BY <1>11, <1>13, <1>14, <1>15
<1> QED
  BY <1>6, <1>7, <1>11, <1>16 DEF IsTree, N

(* Nothing but the pointers of its nodes makes a search tree. *)
LEMMA SameOnTheTree ==
  ASSUME NEW h, NEW under, IsTree(h, under), NEW g \in Heaps, g.root = h.root,
         \A m \in under[h.root] : g.parent[m] = h.parent[m],
         \A s \in Sides, m \in under[h.root] : g.child[s][m] = h.child[s][m]
  PROVE  IsTree(g, under)
<1>1. ASSUME NEW n \in under[h.root]
      PROVE  Fits(g, under, n)
  <2>1. Fits(h, under, n) /\ n \in SetKeys /\ n # Nil
    BY NodeParts DEF IsTree
  <2>2. /\ \A x \in under[n] : x = n \/ \E s \in Sides : x \in under[g.child[s][n]]
        /\ \A s \in Sides : \A x \in under[g.child[s][n]] : x \in under[n] /\ Before(s, x, n)
    BY <2>1, Zenon DEF Fits
  <2>3. ASSUME NEW s \in Sides, g.child[s][n] # Nil
        PROVE  g.child[s][n] \in under[h.root] /\ g.parent[g.child[s][n]] = n
    BY <2>1, <2>3 DEF Fits
  <2>4. n # g.root => g.parent[n] \in under[h.root] /\ \E s \in Sides : g.child[s][g.parent[n]] = n
    BY <2>1 DEF Fits
  <2> QED
    BY <2>1, <2>2, <2>3, <2>4, Zenon DEF Fits
<1>2. g.root # Nil => g.root \in under[g.root] /\ g.parent[g.root] = Nil
  BY DEF IsTree
<1> QED
  BY <1>1, <1>2 DEF IsTree

LEMMA RecoloredTree ==
  ASSUME NEW h, NEW under, IsTree(h, under), NEW g, Recolored(g, h)
  PROVE  IsTree(g, under) /\ g.root = h.root
<1>1. g \in Heaps /\ g.root = h.root /\ g.child = h.child /\ g.parent = h.parent
  BY DEF Recolored
<1> QED
  BY <1>1, SameOnTheTree

-----------------------------------------------------------------------------
(* A new leaf. *)

(* Whatever has n below it has k on the same side. *)
BelongsAt(h, under, k, n) ==
  \A m \in under[h.root] : m # n /\ n \in under[m] =>
     \A s \in Sides : Before(s, n, m) => Before(s, k, m)

UnderWith(h, under, k, n) ==
  [m \in Refs |-> IF m = k THEN {k} ELSE IF n \in under[m] THEN under[m] \cup {k} ELSE under[m]]

LEMMA LeafKeepsTree ==
  ASSUME NEW h, NEW under, IsTree(h, under), NEW n \in under[h.root], NEW side \in Sides,
         NEW k \in SetKeys, k \notin under[h.root], \A s \in Sides : h.child[s][k] = Nil,
         h.child[side][n] = Nil, Before(side, k, n), BelongsAt(h, under, k, n),
         NEW g \in Heaps, g.root = h.root,
         \A s \in Sides, m \in SetKeys : g.child[s][m] = IF s = side /\ m = n THEN k ELSE h.child[s][m],
         \A m \in SetKeys : g.parent[m] = IF m = k THEN n ELSE h.parent[m],
         NEW new, new = UnderWith(h, under, k, n)
  PROVE  IsTree(g, new) /\ new[g.root] = under[h.root] \cup {k}
<1> DEFINE N == under[h.root]
<1>1. /\ under \in [Refs -> SUBSET SetKeys] /\ under[Nil] = {} /\ h.root \in N /\ N \subseteq SetKeys
      /\ n \in SetKeys /\ n # Nil /\ n # k /\ n \in under[n] /\ h.root # Nil /\ h.root \in Refs
      /\ k # Nil /\ k \in Refs /\ h.parent[h.root] = Nil
  <2>1. h.root \in Refs
    BY HeapParts DEF IsTree
  <2> QED
    BY <2>1, NodeParts, KeyFacts DEF IsTree
<1>2. /\ new[k] = {k} /\ new[Nil] = {} /\ new \in [Refs -> SUBSET SetKeys]
      /\ \A m \in Refs : m # k => new[m] = IF n \in under[m] THEN under[m] \cup {k} ELSE under[m]
  BY <1>1, KeyFacts DEF UnderWith
<1>3. new[g.root] = N \cup {k} /\ g.root # k /\ g.parent[g.root] = Nil
  BY <1>1, <1>2
<1>4. \A m \in N : m \in SetKeys /\ m \in Refs /\ m # Nil /\ m # k /\ m \in under[m]
                   /\ under[m] \subseteq N /\ k \notin under[m]
  BY <1>1, NodeParts, KeyFacts
<1>5. Fits(g, new, k)
  <2>1. \A s \in Sides : g.child[s][k] = Nil
    BY <1>1
  <2>2. g.parent[k] = n /\ g.child[side][n] = k
    BY <1>1
  <2> HIDE DEF N
  <2>3. new[k] \subseteq new[g.root] /\ n \in new[g.root]
    BY <1>2, <1>3 DEF N
  <2> QED
    BY <1>1, <1>2, <2>1, <2>2, <2>3 DEF Fits
<1>6. ASSUME NEW m \in N
      PROVE  Fits(g, new, m)
  <2>1. m \in SetKeys /\ m \in Refs /\ m # Nil /\ m # k /\ m \in under[m] /\ under[m] \subseteq N
        /\ k \notin under[m]
    BY <1>4
  <2>2. Fits(h, under, m)
    BY DEF IsTree
  <2>3. under[m] \subseteq new[m] /\ new[m] \subseteq under[m] \cup {k} /\ (k \in new[m] <=> n \in under[m])
    BY <1>2, <2>1
  <2>4. ASSUME NEW s \in Sides, ~(s = side /\ m = n)
        PROVE  /\ g.child[s][m] = h.child[s][m] /\ h.child[s][m] # k /\ h.child[s][m] \in Refs
               /\ new[h.child[s][m]] = IF n \in under[h.child[s][m]] THEN under[h.child[s][m]] \cup {k}
                                       ELSE under[h.child[s][m]]
    <3>1. h.child[s][m] \in Refs /\ (h.child[s][m] # Nil => h.child[s][m] \in N)
      BY ChildParts
    <3>2. h.child[s][m] # k
      BY <1>1, <3>1
    <3>3. g.child[s][m] = h.child[s][m]
      BY <2>1, <2>4
    <3> QED
      BY <1>2, <3>1, <3>2, <3>3
  <2>5. g.child[side][n] = k
    BY <1>1
  <2>6. ASSUME NEW x \in new[m]
        PROVE  x = m \/ \E s \in Sides : x \in new[g.child[s][m]]
    <3>1. CASE x \in under[m] /\ x # m
      <4>1. PICK s \in Sides : x \in under[h.child[s][m]]
        BY <2>2, <3>1 DEF Fits
      <4>2. ~(s = side /\ m = n)
        BY <1>1, <4>1
      <4> QED
        BY <2>4, <4>1, <4>2
    <3>2. CASE x = k /\ m = n
      BY <1>2, <2>5, <3>2
    <3>3. CASE x = k /\ m # n
      <4>1. n \in under[m]
        BY <2>1, <2>3, <3>3
      <4>2. PICK s \in Sides : n \in under[h.child[s][m]]
        BY <2>2, <3>3, <4>1 DEF Fits
      <4> QED
        BY <2>4, <3>3, <4>2
    <3> QED
      BY <2>3, <3>1, <3>2, <3>3
  <2>7. ASSUME NEW s \in Sides, NEW x \in new[g.child[s][m]]
        PROVE  x \in new[m] /\ Before(s, x, m)
    <3>1. CASE s = side /\ m = n
      BY <1>1, <1>2, <2>3, <2>5, <3>1
    <3>2. CASE ~(s = side /\ m = n)
      <4>1. g.child[s][m] = h.child[s][m] /\ (x \in under[h.child[s][m]] \/ (x = k /\ n \in under[h.child[s][m]]))
        <5> DEFINE b == under[h.child[s][m]]
        <5>1. g.child[s][m] = h.child[s][m]
          BY <2>4, <3>2
        <5>2. new[h.child[s][m]] = IF n \in b THEN b \cup {k} ELSE b
          BY <2>4, <3>2
        <5>3. x \in IF n \in b THEN b \cup {k} ELSE b
          BY <2>7, <5>1, <5>2
        <5> HIDE DEF b
        <5>4. x \in b \/ (x = k /\ n \in b)
          BY <5>3
        <5> QED
          BY <5>1, <5>4 DEF b
      <4>2. \A y \in under[h.child[s][m]] : y \in under[m] /\ Before(s, y, m)
        BY <2>2, Zenon DEF Fits
      <4>3. CASE x \in under[h.child[s][m]]
        BY <2>3, <4>2, <4>3
      <4>4. CASE x = k /\ n \in under[h.child[s][m]]
        <5>1. n \in under[m] /\ Before(s, n, m)
          BY <4>2, <4>4
        <5>2. m # n
          BY <1>1, <5>1, BeforeFacts
        <5> QED
          BY <2>3, <4>4, <5>1, <5>2 DEF BelongsAt
      <4> QED
        BY <4>1, <4>3, <4>4
    <3> QED
      BY <3>1, <3>2
  <2>8. ASSUME NEW s \in Sides, g.child[s][m] # Nil
        PROVE  g.child[s][m] \in new[g.root] /\ g.parent[g.child[s][m]] = m
    <3>1. CASE s = side /\ m = n
      BY <1>1, <1>3, <2>5, <3>1
    <3>2. CASE ~(s = side /\ m = n)
      <4> DEFINE c == h.child[s][m]
      <4>1. g.child[s][m] = c /\ c # k
        BY <2>4, <3>2
      <4>2. c \in N /\ h.parent[c] = m
        BY <2>8, <4>1, ChildParts
      <4> HIDE DEF c, N
      <4> QED
        BY <1>1, <1>3, <4>1, <4>2
    <3> QED
      BY <3>1, <3>2
  <2>9. ASSUME m # g.root
        PROVE  g.parent[m] \in new[g.root] /\ \E s \in Sides : g.child[s][g.parent[m]] = m
    <3> DEFINE p == h.parent[m]
    <3>1. g.parent[m] = p
      BY <2>1
    <3>2. p \in N /\ \E s \in Sides : h.child[s][p] = m
      BY <2>2, <2>9 DEF Fits
    <3> HIDE DEF p, N
    <3>3. PICK s \in Sides : h.child[s][p] = m
      BY <3>2
    <3>4. ~(s = side /\ p = n)
      BY <2>1, <3>3
    <3>5. p \in SetKeys
      BY <1>1, <3>2
    <3>6. g.child[s][p] = m
      BY <3>3, <3>4, <3>5
    <3> QED
      BY <1>3, <3>1, <3>2, <3>6
  <2>10. m \in new[m] /\ new[m] \subseteq new[g.root]
    BY <1>3, <2>1, <2>3
  <2> HIDE DEF N
  <2> QED
    BY <2>6, <2>7, <2>8, <2>9, <2>10, Zenon DEF Fits
<1>7. \A m \in new[g.root] : Fits(g, new, m)
  BY <1>3, <1>5, <1>6
<1>8. g.root \in new[g.root]
  BY <1>1, <1>3
<1> QED
  BY <1>2, <1>3, <1>7, <1>8 DEF IsTree

-----------------------------------------------------------------------------
(* A node with one child at the most is taken out. *)

UnderWithout(under, k) == [m \in Refs |-> under[m] \ {k}]

LEMMA RemovalKeepsTree ==
  ASSUME NEW h, NEW under, IsTree(h, under), NEW k \in under[h.root],
         NEW side \in Sides, h.child[Other(side)][k] = Nil, NEW x, x = h.child[side][k],
         NEW g \in Heaps, g.root = IF h.parent[k] = Nil THEN x ELSE h.root,
         \A s \in Sides, m \in SetKeys :
           g.child[s][m] = IF m = h.parent[k] /\ h.child[s][m] = k THEN x ELSE h.child[s][m],
         \A m \in SetKeys : g.parent[m] = IF m = x THEN h.parent[k] ELSE h.parent[m],
         NEW new, new = UnderWithout(under, k)
  PROVE  IsTree(g, new) /\ new[g.root] = under[h.root] \ {k}
<1> DEFINE N == under[h.root]
           q == h.parent[k]
<1>1. /\ under \in [Refs -> SUBSET SetKeys] /\ under[Nil] = {} /\ h.root \in N /\ N \subseteq SetKeys
      /\ k \in SetKeys /\ k # Nil /\ k \in under[k] /\ h.root \in Refs /\ h.root # Nil
      /\ h.parent[h.root] = Nil /\ (k = h.root <=> q = Nil) /\ (q # Nil => q \in N) /\ q \in Refs
  <2>1. h.root \in Refs /\ h \in Heaps
    BY HeapParts DEF IsTree
  <2> QED
    BY <2>1, NodeParts, KeyFacts, HeapParts DEF IsTree
<1>2. new \in [Refs -> SUBSET SetKeys] /\ new[Nil] = {} /\ \A m \in Refs : new[m] = under[m] \ {k}
  BY <1>1, KeyFacts DEF UnderWithout
<1>3. /\ x \in Refs /\ under[x] \subseteq under[k] /\ k \notin under[x]
      /\ x # Nil => x \in N /\ h.parent[x] = k /\ x # k /\ x # h.root /\ x \in under[x]
      /\ \A y \in under[k] : y = k \/ y \in under[x]
  <2>1. \A y \in under[k] : y = k \/ \E s \in Sides : y \in under[h.child[s][k]]
    BY DEF IsTree, Fits
  <2>2. \A y \in under[k] : y = k \/ y \in under[x]
    BY <1>1, <2>1, SideFacts
  <2> QED
    BY <2>2, ChildParts
<1>4. new[g.root] = N \ {k}
  <2>1. CASE q = Nil
    BY <1>1, <1>2, <1>3, <2>1
  <2>2. CASE q # Nil
    BY <1>1, <1>2, <2>2
  <2> QED
    BY <2>1, <2>2
<1>5. g.root # Nil => g.root \in new[g.root] /\ g.parent[g.root] = Nil
  <2>1. CASE q = Nil
    <3>1. g.root = x
      BY <2>1
    <3> HIDE DEF q, N
    <3>2. x # Nil => x \in SetKeys /\ x \in N \ {k}
      BY <1>1, <1>3
    <3> QED
      BY <1>4, <2>1, <3>1, <3>2 DEF q
  <2>2. CASE q # Nil
    <3>1. g.root = h.root /\ h.root # k /\ h.root # x /\ h.root \in SetKeys
      BY <1>1, <1>3, <2>2
    <3> HIDE DEF N
    <3> QED
      BY <1>1, <1>4, <3>1
  <2> QED
    BY <2>1, <2>2
<1>6. q # k /\ (q # Nil => k \in under[q])
  <2>1. q # Nil => \E s \in Sides : h.child[s][q] = k
    BY NodeParts
  <2>2. q # Nil => \A s \in Sides : h.child[s][q] = k => k # q /\ under[k] \subseteq under[q]
    BY <1>1, ChildParts
  <2> HIDE DEF q
  <2> QED
    BY <1>1, <2>1, <2>2
<1>7. ASSUME NEW m \in N, m # k
      PROVE  Fits(g, new, m)
  <2>1. /\ m \in SetKeys /\ m \in Refs /\ m # Nil /\ m \in under[m] /\ under[m] \subseteq N
        /\ Fits(h, under, m) /\ new[m] = under[m] \ {k}
    BY <1>2, NodeParts, KeyFacts DEF IsTree
  <2>2. ASSUME NEW s \in Sides
        PROVE  /\ new[g.child[s][m]] = under[h.child[s][m]] \ {k}
               /\ g.child[s][m] # Nil => g.child[s][m] \in N /\ g.child[s][m] # k
                                         /\ g.parent[g.child[s][m]] = m
    <3> DEFINE c == h.child[s][m]
    <3>1. c \in Refs /\ (c # Nil => c \in N /\ h.parent[c] = m)
      BY ChildParts
    <3>2. CASE c = k
      <4>1. m = q /\ g.child[s][m] = x
        BY <1>1, <2>1, <3>1, <3>2
      <4>2. x # Nil => x \in SetKeys
        BY <1>1, <1>3
      <4>3. x # Nil => g.parent[x] = m
        BY <4>1, <4>2
      <4>4. new[x] = under[k] \ {k}
        BY <1>2, <1>3
      <4> HIDE DEF c
      <4> QED
        BY <1>3, <3>2, <4>1, <4>3, <4>4 DEF c
    <3>3. CASE c # k
      <4>1. g.child[s][m] = c
        BY <2>1, <3>3
      <4> HIDE DEF c, q, N
      <4>2. c = x => c = Nil
        BY <1>3, <1>7, <3>1
      <4>3. c # Nil => c \in SetKeys /\ g.parent[c] = m
        BY <1>1, <3>1, <4>2
      <4> QED
        BY <1>2, <3>1, <3>3, <4>1, <4>3 DEF c
    <3> QED
      BY <3>2, <3>3
  <2>3. \A y \in new[m] : y = m \/ \E s \in Sides : y \in new[g.child[s][m]]
    <3>1. \A y \in under[m] : y = m \/ \E s \in Sides : y \in under[h.child[s][m]]
      BY <2>1 DEF Fits
    <3> QED
      BY <2>1, <2>2, <3>1
  <2>4. ASSUME NEW s \in Sides, NEW y \in new[g.child[s][m]]
        PROVE  y \in new[m] /\ Before(s, y, m)
    <3>1. y \in under[h.child[s][m]] /\ y # k
      BY <2>2
    <3> QED
      BY <2>1, <3>1 DEF Fits
  <2>5. \A s \in Sides : g.child[s][m] # Nil => g.child[s][m] \in new[g.root] /\ g.parent[g.child[s][m]] = m
    BY <1>4, <2>2
  <2>6. ASSUME m # g.root
        PROVE  g.parent[m] \in new[g.root] /\ \E s \in Sides : g.child[s][g.parent[m]] = m
    <3>1. CASE m = x
      <4>1. g.parent[m] = q /\ q # Nil
        BY <2>1, <2>6, <3>1
      <4>2. PICK s \in Sides : h.child[s][q] = k
        BY <4>1, NodeParts
      <4> HIDE DEF N
      <4>3. q \in SetKeys /\ q \in N /\ q # k
        BY <1>1, <1>6, <4>1
      <4>4. g.child[s][q] = x
        BY <4>2, <4>3
      <4> QED
        BY <1>4, <3>1, <4>1, <4>3, <4>4
    <3>2. CASE m # x
      <4> DEFINE p == h.parent[m]
      <4>1. g.parent[m] = p
        BY <2>1, <3>2
      <4>2. m # h.root
        BY <1>1, <1>7, <2>6
      <4>3. p \in N /\ \E s \in Sides : h.child[s][p] = m
        BY <2>1, <4>2 DEF Fits
      <4>4. PICK s \in Sides : h.child[s][p] = m
        BY <4>3
      <4> HIDE DEF p, q, N
      <4>5. p # k
        BY <1>1, <2>1, <3>2, <4>4, SideFacts
      <4>6. p \in SetKeys
        BY <1>1, <4>3
      <4>7. g.child[s][p] = m
        BY <1>7, <4>4, <4>6 DEF q
      <4> QED
        BY <1>4, <4>1, <4>3, <4>5, <4>7
    <3> QED
      BY <3>1, <3>2
  <2>7. m \in new[m] /\ new[m] \subseteq new[g.root]
    BY <1>4, <1>7, <2>1
  <2> HIDE DEF N, q
  <2> QED
    BY <2>3, <2>4, <2>5, <2>6, <2>7, Zenon DEF Fits
<1>8. \A m \in new[g.root] : Fits(g, new, m)
  BY <1>4, <1>7
<1> QED
  BY <1>2, <1>4, <1>5, <1>8 DEF IsTree

(* A node takes another key. *)

(* The node k takes the name new, and the node of that name is called k. *)
HasNewName(g, h, k, new) ==
  /\ g \in Heaps /\ g.root = IF h.root = k THEN new ELSE h.root
  /\ \A s \in Sides, m \in SetKeys : m # k =>
       LET f == h.child[s][IF m = new THEN k ELSE m]
       IN  g.child[s][m] = IF f = k THEN new ELSE f
  /\ \A m \in SetKeys : m # k =>
       LET f == h.parent[IF m = new THEN k ELSE m]
       IN  g.parent[m] = IF f = k THEN new ELSE f
  /\ g.parent[k] = IF h.parent[new] = k THEN new ELSE h.parent[new]

LEMMA RenamedFields ==
  ASSUME NEW h \in Heaps, NEW k \in SetKeys, NEW new \in SetKeys, new # k
  PROVE  HasNewName(Renamed(h, k, new), h, k, new)
<1> DEFINE r == Renamed(h, k, new)
           to(n) == IF n = k THEN new ELSE n
           from(n) == IF n = new THEN k ELSE IF n = k THEN new ELSE n
           c == [s \in Sides |-> [n \in SetKeys |-> to(h.child[s][from(n)])]]
           p == [n \in SetKeys |-> to(h.parent[from(n)])]
           b == [h.color EXCEPT ![new] = h.color[k], ![k] = h.color[new]]
<1>1. r = [root |-> to(h.root), child |-> c, parent |-> p, color |-> b]
  BY DEF Renamed
<1>2. \A n \in Refs : to(n) \in Refs
  BY KeyFacts
<1>3. /\ \A n \in SetKeys : from(n) \in SetKeys /\ (n # k => from(n) = IF n = new THEN k ELSE n)
      /\ from(k) = new
  OBVIOUS
<1> HIDE DEF from
<1>4. /\ to(h.root) \in Refs /\ c \in [Sides -> [SetKeys -> Refs]] /\ p \in [SetKeys -> Refs]
      /\ b \in [SetKeys -> Colors \cup {Nil}]
  <2>1. \A s \in Sides, n \in SetKeys : h.child[s][from(n)] \in Refs
    BY <1>3, HeapParts
  <2>2. \A n \in SetKeys : h.parent[from(n)] \in Refs
    BY <1>3, HeapParts
  <2>3. b \in [SetKeys -> Colors \cup {Nil}] /\ h.root \in Refs
    BY HeapParts
  <2> HIDE DEF b, to
  <2> QED
    BY <1>2, <2>1, <2>2, <2>3
<1>5. /\ \A s \in Sides, m \in SetKeys : c[s][m] = to(h.child[s][from(m)])
      /\ \A m \in SetKeys : p[m] = to(h.parent[from(m)])
  OBVIOUS
<1> HIDE DEF c, p, b, r
<1>6. r \in Heaps /\ r.root = to(h.root) /\ r.child = c /\ r.parent = p
  BY <1>1, <1>4 DEF Heaps
<1>7. \A s \in Sides, m \in SetKeys : m # k =>
        r.child[s][m] = to(h.child[s][IF m = new THEN k ELSE m])
  BY <1>3, <1>5, <1>6
<1>8. \A m \in SetKeys : m # k => r.parent[m] = to(h.parent[IF m = new THEN k ELSE m])
  BY <1>3, <1>5, <1>6
<1>9. r.parent[k] = to(h.parent[new])
  BY <1>3, <1>5, <1>6
<1> QED
  BY <1>6, <1>7, <1>8, <1>9 DEF HasNewName, r

UnderRenamed(under, k, s) ==
  [m \in Refs |-> LET old == under[IF m = s THEN k ELSE m]
                  IN  IF k \in old THEN (old \ {k}) \cup {s} ELSE old]

LEMMA RenamingKeepsTree ==
  ASSUME NEW h, NEW under, IsTree(h, under), NEW k \in under[h.root], NEW s \in SetKeys,
         s \notin under[h.root], BelongsAt(h, under, s, k),
         \A side \in Sides : \A x \in under[h.child[side][k]] : Before(side, x, s),
         NEW g, g = Renamed(h, k, s),
         NEW new, new = UnderRenamed(under, k, s)
  PROVE  IsTree(g, new) /\ new[g.root] = (under[h.root] \ {k}) \cup {s}
<1> DEFINE N == under[h.root]
           to(n) == IF n = k THEN s ELSE n
<1>1. /\ h \in Heaps /\ under \in [Refs -> SUBSET SetKeys] /\ under[Nil] = {} /\ h.root \in N
      /\ N \subseteq SetKeys /\ h.root \in SetKeys
      /\ k \in SetKeys /\ k # Nil /\ s # Nil /\ k # s /\ s \in Refs /\ k \in under[k]
      /\ h.parent[h.root] = Nil
  <2>1. h.root \in Refs /\ h \in Heaps
    BY HeapParts DEF IsTree
  <2> QED
    BY <2>1, NodeParts, KeyFacts DEF IsTree
<1>2. /\ g \in Heaps /\ g.root = to(h.root)
      /\ \A side \in Sides, m \in SetKeys :
           m # s => g.child[side][to(m)] = to(h.child[side][m])
      /\ \A m \in SetKeys : m # s => g.parent[to(m)] = to(h.parent[m])
  <2>1. HasNewName(g, h, k, s)
    BY <1>1, RenamedFields
  <2>2. ASSUME NEW m \in SetKeys, m # s
        PROVE  to(m) \in SetKeys /\ to(m) # k /\ (IF to(m) = s THEN k ELSE to(m)) = m
    BY <1>1, <2>2
  <2>3. ASSUME NEW side \in Sides, NEW m \in SetKeys, m # k
        PROVE  g.child[side][m] = to(h.child[side][IF m = s THEN k ELSE m])
    BY <2>1, <2>3 DEF HasNewName
  <2>4. ASSUME NEW m \in SetKeys, m # k
        PROVE  g.parent[m] = to(h.parent[IF m = s THEN k ELSE m])
    BY <2>1, <2>4 DEF HasNewName
  <2>5. g \in Heaps /\ g.root = to(h.root)
    BY <2>1 DEF HasNewName
  <2> HIDE DEF to
  <2> QED
    BY <2>2, <2>3, <2>4, <2>5
<1>3. new \in [Refs -> SUBSET SetKeys] /\ new[Nil] = {}
  <2>1. ASSUME NEW m \in Refs
        PROVE  under[IF m = s THEN k ELSE m] \in SUBSET SetKeys
    BY <1>1, KeyFacts
  <2>2. \A m \in Refs : new[m] \in SUBSET SetKeys
    BY <2>1 DEF UnderRenamed
  <2>3. new[Nil] = {}
    BY <1>1, KeyFacts DEF UnderRenamed
  <2> QED
    BY <2>2, <2>3 DEF UnderRenamed
<1>4. ASSUME NEW m \in N \cup {Nil}
      PROVE  new[to(m)] = IF k \in under[m] THEN (under[m] \ {k}) \cup {s} ELSE under[m]
  <2>1. to(m) \in Refs /\ (IF to(m) = s THEN k ELSE to(m)) = m
    BY <1>1, KeyFacts
  <2> HIDE DEF to
  <2> QED
    BY <2>1 DEF UnderRenamed
<1>5. new[g.root] = (N \ {k}) \cup {s}
  BY <1>1, <1>2, <1>4
<1>6. \A m \in N : to(m) \in new[g.root] /\ (m # k => to(m) = m)
  BY <1>5
<1>7. ASSUME NEW m \in N
      PROVE  Fits(g, new, to(m))
  <2>1. m \in SetKeys /\ m # s /\ m # Nil /\ Fits(h, under, m) /\ m \in under[m] /\ under[m] \subseteq N
    BY <1>1, NodeParts DEF IsTree
  <2>2. \A side \in Sides : h.child[side][m] \in N \cup {Nil}
    BY ChildParts
  <2>3. \A side \in Sides : g.child[side][to(m)] = to(h.child[side][m])
    BY <1>2, <2>1
  <2>4. ASSUME NEW x \in new[to(m)]
        PROVE  x = to(m) \/ \E side \in Sides : x \in new[g.child[side][to(m)]]
    <3>1. PICK y \in under[m] : x = to(y)
      BY <1>4
    <3>2. CASE y = m
      BY <3>1, <3>2
    <3>3. CASE y # m
      <4>1. PICK side \in Sides : y \in under[h.child[side][m]]
        BY <2>1, <3>3 DEF Fits
      <4>2. to(y) \in new[to(h.child[side][m])]
        BY <1>4, <2>2, <4>1
      <4> QED
        BY <2>3, <3>1, <4>2
    <3> QED
      BY <3>2, <3>3
  <2>5. ASSUME NEW side \in Sides, NEW x \in new[g.child[side][to(m)]]
        PROVE  x \in new[to(m)] /\ Before(side, x, to(m))
    <3> DEFINE c == h.child[side][m]
    <3>1. x \in new[to(c)]
      BY <2>3
    <3>2. PICK y \in under[c] : x = to(y)
      <4>1. c \in N \cup {Nil}
        BY <2>2
      <4>2. x \in IF k \in under[c] THEN (under[c] \ {k}) \cup {s} ELSE under[c]
        BY <1>4, <3>1, <4>1
      <4> HIDE DEF c
      <4> QED
        BY <4>2
    <3>3. y \in under[m] /\ Before(side, y, m)
      BY <2>1, <3>2 DEF Fits
    <3>4. x \in new[to(m)]
      BY <1>4, <3>2, <3>3
    <3>5. Before(side, x, to(m))
      <4>1. CASE m = k
        <5>1. y # k
          BY <1>1, <3>3, <4>1, BeforeFacts
        <5> QED
          BY <3>2, <4>1, <5>1
      <4>2. CASE m # k /\ y = k
        BY <3>2, <3>3, <4>2 DEF BelongsAt
      <4>3. CASE m # k /\ y # k
        BY <3>2, <3>3, <4>3
      <4> QED
        BY <4>1, <4>2, <4>3
    <3> QED
      BY <3>4, <3>5
  <2>6. ASSUME NEW side \in Sides, g.child[side][to(m)] # Nil
        PROVE  /\ g.child[side][to(m)] \in new[g.root]
               /\ g.parent[g.child[side][to(m)]] = to(m)
    <3> DEFINE c == h.child[side][m]
    <3>1. g.child[side][to(m)] = to(c) /\ c # Nil
      BY <1>1, <2>3, <2>6
    <3>2. c \in N /\ h.parent[c] = m
      BY <3>1, ChildParts
    <3>3. c \in SetKeys /\ c # s
      BY <1>1, <3>2
    <3> HIDE DEF c, to
    <3> QED
      BY <1>2, <1>6, <3>1, <3>2, <3>3
  <2>7. ASSUME to(m) # g.root
        PROVE  /\ g.parent[to(m)] \in new[g.root]
               /\ \E side \in Sides : g.child[side][g.parent[to(m)]] = to(m)
    <3> DEFINE p == h.parent[m]
    <3>1. m # h.root
      BY <1>2, <2>7
    <3>2. p \in N /\ \E side \in Sides : h.child[side][p] = m
      BY <2>1, <3>1 DEF Fits
    <3>3. p \in SetKeys /\ p # s
      BY <1>1, <3>2
    <3> HIDE DEF p, to
    <3>4. g.parent[to(m)] = to(p)
      BY <1>2, <2>1 DEF p
    <3> QED
      BY <1>2, <1>6, <3>2, <3>3, <3>4
  <2>8. to(m) \in new[to(m)] /\ new[to(m)] \subseteq new[g.root]
    BY <1>4, <1>5, <2>1
  <2> HIDE DEF to, N
  <2> QED
    BY <2>4, <2>5, <2>6, <2>7, <2>8, Zenon DEF Fits
<1>8. ASSUME NEW m \in new[g.root]
      PROVE  Fits(g, new, m)
  <2>1. CASE m = s
    BY <1>7, <2>1
  <2>2. CASE m # s
    <3>1. m \in N /\ to(m) = m
      BY <1>5, <2>2
    <3> QED
      BY <1>7, <3>1
  <2> QED
    BY <2>1, <2>2
<1>9. g.root \in new[g.root] /\ g.parent[g.root] = Nil
  <2>1. h.root # s /\ to(Nil) = Nil
    BY <1>1
  <2>2. g.parent[to(h.root)] = to(h.parent[h.root])
    BY <1>1, <1>2, <2>1
  <2> HIDE DEF to
  <2> QED
    BY <1>1, <1>2, <1>6, <2>1, <2>2
<1> QED
  BY <1>2, <1>3, <1>8, <1>9, <1>5 DEF IsTree

(* What the recursive functions of the model are turn by turn. *)

Fuel == Cardinality(SetKeys)

LEMMA FuelType == Fuel \in Nat
BY UnorderedSetAssumption, FS_CardinalityType DEF Fuel

WayTurns(below, h, k) ==
  /\ \A n \in Refs : below[0][n] = {}
  /\ \A i \in 1..Fuel, n \in Refs :
       below[i][n] = IF n = Nil THEN {}
                     ELSE {n} \cup (IF n = k THEN {} ELSE below[i - 1][h.child[Toward(k, n)][n]])

LEMMA WayTakesTurns ==
  ASSUME NEW h \in Heaps, NEW k
  PROVE  \E below : Way(h, k) = below[Fuel][h.root] /\ WayTurns(below, h, k)
<1> DEFINE V == [Refs -> SUBSET SetKeys]
           first == [n \in Refs |-> {}]
           On(v, n) == IF n = Nil THEN {}
                       ELSE {n} \cup (IF n = k THEN {} ELSE v[h.child[Toward(k, n)][n]])
           turn == [v \in V |-> [n \in Refs |-> On(v, n)]]
           Row(v, i) == [n \in Refs |->
             IF n = Nil \/ i = 0 THEN {}
             ELSE {n} \cup (IF n = k THEN {} ELSE v[i - 1][h.child[Toward(k, n)][n]])]
           Turns(v) == v = [fuel \in 0..Fuel |-> Row(v, fuel)]
           b == CHOOSE v : Turns(v)
<1>1. \A v \in V, n \in Refs : On(v, n) \in SUBSET SetKeys
  <2> TAKE v \in V, n \in Refs
  <2>1. CASE n = Nil
    BY <2>1
  <2>2. CASE n # Nil
    <3>1. n \in SetKeys /\ Toward(k, n) \in Sides
      BY <2>2, KeyFacts, SideFacts DEF Toward
    <3>2. v[h.child[Toward(k, n)][n]] \in SUBSET SetKeys
      BY <3>1, HeapParts
    <3> QED
      BY <3>1, <3>2
  <2> QED
    BY <2>1, <2>2
<1>2. first \in V /\ turn \in [V -> V]
  <2> HIDE DEF On
  <2> QED
    BY <1>1
<1> HIDE DEF On, first, turn
<1>3. PICK f \in [0..Fuel -> V] : HasTurns(f, Fuel, first, turn)
  BY <1>2, FuelType, TurnByTurn, Zenon
<1>4. Turns(f)
  <2>1. ASSUME NEW i \in 0..Fuel
        PROVE  f[i] = Row(f, i)
    <3>1. CASE i = 0
      BY <1>3, <3>1 DEF first, HasTurns
    <3>2. CASE i # 0
      <4>1. i \in 1..Fuel /\ i - 1 \in 0..Fuel
        BY <3>2, FuelType
      <4>2. f[i] = turn[f[i - 1]] /\ f[i - 1] \in V
        BY <1>3, <4>1 DEF HasTurns
      <4>3. f[i] = [n \in Refs |-> On(f[i - 1], n)]
        BY <4>2 DEF turn
      <4> QED
        BY <3>2, <4>3 DEF On
    <3> QED
      BY <3>1, <3>2
  <2> HIDE DEF Row
  <2> QED
    BY <1>3, <2>1
<1>5. Turns(b)
  <2> HIDE DEF Turns
  <2> QED
    BY <1>4, Zenon
<1>6. Way(h, k) = b[Fuel][h.root]
  BY Zenon DEF Way, Fuel
<1> HIDE DEF b
<1>7. ASSUME NEW i \in 0..Fuel
      PROVE  b[i] = Row(b, i)
  <2> HIDE DEF Row
  <2> QED
    BY <1>5
<1>8. 0 \in 0..Fuel /\ \A i \in 1..Fuel : i \in 0..Fuel /\ i # 0
  BY FuelType
<1> HIDE DEF Turns
<1>9. \A n \in Refs : b[0][n] = {}
  BY <1>7, <1>8
<1>10. ASSUME NEW i \in 1..Fuel, NEW n \in Refs
       PROVE  b[i][n] = IF n = Nil THEN {}
                        ELSE {n} \cup (IF n = k THEN {} ELSE b[i - 1][h.child[Toward(k, n)][n]])
  <2>1. b[i] = Row(b, i) /\ i # 0
    <3> HIDE DEF Row
    <3> QED
      BY <1>7, <1>8
  <2> QED
    BY <2>1
<1>11. WayTurns(b, h, k)
  BY <1>9, <1>10 DEF WayTurns
<1> QED
  BY <1>6, <1>11

DownTurns(down, h) ==
  /\ \A m \in SetKeys : down[0][m] = m
  /\ \A i \in 1..Fuel, m \in SetKeys :
       down[i][m] = IF h.child["left"][m] = Nil THEN m ELSE down[i - 1][h.child["left"][m]]

LEMMA LeftmostTakesTurns ==
  ASSUME NEW h \in Heaps, NEW n
  PROVE  \E down : Leftmost(h, n) = down[Fuel][n] /\ DownTurns(down, h)
<1> DEFINE V == [SetKeys -> SetKeys]
           first == [m \in SetKeys |-> m]
           On(v, m) == IF h.child["left"][m] = Nil THEN m ELSE v[h.child["left"][m]]
           turn == [v \in V |-> [m \in SetKeys |-> On(v, m)]]
           Row(v, i) == [m \in SetKeys |->
             IF h.child["left"][m] = Nil \/ i = 0 THEN m ELSE v[i - 1][h.child["left"][m]]]
           Turns(v) == v = [fuel \in 0..Fuel |-> Row(v, fuel)]
           b == CHOOSE v : Turns(v)
<1>1. \A v \in V, m \in SetKeys : On(v, m) \in SetKeys
  BY HeapParts, KeyFacts, SideFacts
<1>2. first \in V /\ turn \in [V -> V]
  <2>1. first \in V
    BY HeapParts, KeyFacts
  <2> HIDE DEF On, first
  <2> QED
    BY <1>1, <2>1
<1> HIDE DEF On, first, turn
<1>3. PICK f \in [0..Fuel -> V] : HasTurns(f, Fuel, first, turn)
  BY <1>2, FuelType, TurnByTurn, Zenon
<1>4. Turns(f)
  <2>1. ASSUME NEW i \in 0..Fuel
        PROVE  f[i] = Row(f, i)
    <3>1. CASE i = 0
      BY <1>3, <3>1 DEF first, HasTurns
    <3>2. CASE i # 0
      <4>1. i \in 1..Fuel /\ i - 1 \in 0..Fuel /\ i > 0
        BY <3>2, FuelType
      <4>2. f[i] = turn[f[i - 1]] /\ f[i - 1] \in V
        BY <1>3, <4>1 DEF HasTurns
      <4>3. f[i] = [m \in SetKeys |-> On(f[i - 1], m)]
        BY <4>2 DEF turn
      <4> QED
        BY <3>2, <4>1, <4>3 DEF On
    <3> QED
      BY <3>1, <3>2
  <2> HIDE DEF Row
  <2> QED
    BY <1>3, <2>1
<1>5. Turns(b)
  <2> HIDE DEF Turns
  <2> QED
    BY <1>4, Zenon
<1>6. Leftmost(h, n) = b[Fuel][n]
  BY Zenon DEF Leftmost, Fuel
<1> HIDE DEF b
<1>7. ASSUME NEW i \in 0..Fuel
      PROVE  b[i] = Row(b, i)
  <2> HIDE DEF Row
  <2> QED
    BY <1>5
<1>8. 0 \in 0..Fuel /\ \A i \in 1..Fuel : i \in 0..Fuel /\ i # 0 /\ i > 0
  BY FuelType
<1> HIDE DEF Turns
<1>9. \A m \in SetKeys : b[0][m] = m
  BY <1>7, <1>8
<1>10. ASSUME NEW i \in 1..Fuel, NEW m \in SetKeys
       PROVE  b[i][m] = IF h.child["left"][m] = Nil THEN m ELSE b[i - 1][h.child["left"][m]]
  <2>1. b[i] = Row(b, i) /\ i # 0 /\ i > 0
    <3> HIDE DEF Row
    <3> QED
      BY <1>7, <1>8
  <2> QED
    BY <2>1
<1>11. DownTurns(b, h)
  BY <1>9, <1>10 DEF DownTurns
<1> QED
  BY <1>6, <1>11

ClimbTurns(climb, h) ==
  /\ \A i \in 0..Fuel, m \in SetKeys : ~(h.parent[m] # Nil /\ m = h.child["right"][h.parent[m]]) => climb[i][m] = h.parent[m]
  /\ \A i \in 1..Fuel, m \in SetKeys : h.parent[m] # Nil /\ m = h.child["right"][h.parent[m]] => climb[i][m] = climb[i - 1][h.parent[m]]

LEMMA ClimbTakesTurns ==
  ASSUME NEW h \in Heaps,
         NEW n, h.child["right"][n] = Nil
  PROVE  \E climb : successor(h, n) = climb[Fuel][n] /\ ClimbTurns(climb, h)
<1> DEFINE V == [SetKeys -> Refs]
           first == [m \in SetKeys |-> h.parent[m]]
           On(v, m) == IF h.parent[m] # Nil /\ m = h.child["right"][h.parent[m]] THEN v[h.parent[m]] ELSE h.parent[m]
           turn == [v \in V |-> [m \in SetKeys |-> On(v, m)]]
           Row(v, i) == [m \in SetKeys |->
             LET up == h.parent[m]
             IN  IF up # Nil /\ m = h.child["right"][up] /\ i > 0 THEN v[i - 1][up] ELSE up]
           Turns(v) == v = [fuel \in 0..Fuel |-> Row(v, fuel)]
           b == CHOOSE v : Turns(v)
<1>1. \A v \in V, m \in SetKeys : On(v, m) \in Refs
  BY HeapParts, KeyFacts, SideFacts
<1>2. first \in V /\ turn \in [V -> V]
  <2>1. first \in V
    BY HeapParts, KeyFacts
  <2> HIDE DEF On, first
  <2> QED
    BY <1>1, <2>1
<1> HIDE DEF On, first, turn
<1>3. PICK f \in [0..Fuel -> V] : HasTurns(f, Fuel, first, turn)
  BY <1>2, FuelType, TurnByTurn, Zenon
<1>4. Turns(f)
  <2>1. ASSUME NEW i \in 0..Fuel
        PROVE  f[i] = Row(f, i)
    <3>1. CASE i = 0
      BY <1>3, <3>1 DEF first, HasTurns
    <3>2. CASE i # 0
      <4>1. i \in 1..Fuel /\ i - 1 \in 0..Fuel /\ i > 0
        BY <3>2, FuelType
      <4>2. f[i] = turn[f[i - 1]] /\ f[i - 1] \in V
        BY <1>3, <4>1 DEF HasTurns
      <4>3. f[i] = [m \in SetKeys |-> On(f[i - 1], m)]
        BY <4>2 DEF turn
      <4> QED
        BY <3>2, <4>1, <4>3 DEF On
    <3> QED
      BY <3>1, <3>2
  <2> HIDE DEF Row
  <2> QED
    BY <1>3, <2>1
<1>5. Turns(b)
  <2> HIDE DEF Turns
  <2> QED
    BY <1>4, Zenon
<1>6. successor(h, n) = b[Fuel][n]
  BY Zenon DEF successor, Fuel
<1> HIDE DEF b
<1>7. ASSUME NEW i \in 0..Fuel
      PROVE  b[i] = Row(b, i)
  <2> HIDE DEF Row
  <2> QED
    BY <1>5
<1>8. 0 \in 0..Fuel /\ \A i \in 1..Fuel : i \in 0..Fuel /\ i # 0 /\ i > 0
  BY FuelType
<1> HIDE DEF Turns
<1>9. \A m \in SetKeys : b[0][m] = h.parent[m]
  <2>1. b[0] = Row(b, 0) /\ ~(0 > 0)
    <3> HIDE DEF Row
    <3> QED
      BY <1>7, <1>8
  <2> QED
    BY <2>1
<1>10. ASSUME NEW i \in 1..Fuel, NEW m \in SetKeys
       PROVE  b[i][m] = IF h.parent[m] # Nil /\ m = h.child["right"][h.parent[m]] THEN b[i - 1][h.parent[m]] ELSE h.parent[m]
  <2>1. b[i] = Row(b, i) /\ i # 0 /\ i > 0
    <3> HIDE DEF Row
    <3> QED
      BY <1>7, <1>8
  <2> QED
    BY <2>1
<1>11. ClimbTurns(b, h)
  <2>1. ASSUME NEW i \in 0..Fuel, NEW m \in SetKeys, ~(h.parent[m] # Nil /\ m = h.child["right"][h.parent[m]])
        PROVE  b[i][m] = h.parent[m]
    <3>1. i = 0 \/ i \in 1..Fuel
      BY FuelType
    <3> QED
      BY <1>9, <1>10, <2>1, <3>1
  <2> QED
    BY <1>10, <2>1 DEF ClimbTurns
<1> QED
  BY <1>6, <1>11

SizeTurns(size, h) ==
  /\ \A n \in Refs : size[0][n] = 0
  /\ \A i \in 1..Fuel, n \in Refs :
       size[i][n] = IF n = Nil THEN 0 ELSE size[i - 1][h.child["left"][n]] + 1 + size[i - 1][h.child["right"][n]]

LEMMA SizeTakesTurns ==
  ASSUME NEW h \in Heaps
  PROVE  \E size : getSize(h) = size[Fuel][h.root] /\ SizeTurns(size, h)
<1> DEFINE V == [Refs -> Nat]
           first == [n \in Refs |-> 0]
           On(v, n) == IF n = Nil THEN 0 ELSE v[h.child["left"][n]] + 1 + v[h.child["right"][n]]
           turn == [v \in V |-> [n \in Refs |-> On(v, n)]]
           Row(v, i) == [n \in Refs |->
             IF n = Nil \/ i = 0 THEN 0 ELSE v[i - 1][h.child["left"][n]] + 1 + v[i - 1][h.child["right"][n]]]
           Turns(v) == v = [fuel \in 0..Fuel |-> Row(v, fuel)]
           b == CHOOSE v : Turns(v)
<1>1. \A v \in V, n \in Refs : On(v, n) \in Nat
  BY HeapParts, KeyFacts, SideFacts
<1>2. first \in V /\ turn \in [V -> V]
  <2>1. first \in V
    BY HeapParts, KeyFacts
  <2> HIDE DEF On, first
  <2> QED
    BY <1>1, <2>1
<1> HIDE DEF On, first, turn
<1>3. PICK f \in [0..Fuel -> V] : HasTurns(f, Fuel, first, turn)
  BY <1>2, FuelType, TurnByTurn, Zenon
<1>4. Turns(f)
  <2>1. ASSUME NEW i \in 0..Fuel
        PROVE  f[i] = Row(f, i)
    <3>1. CASE i = 0
      BY <1>3, <3>1 DEF first, HasTurns
    <3>2. CASE i # 0
      <4>1. i \in 1..Fuel /\ i - 1 \in 0..Fuel /\ i > 0
        BY <3>2, FuelType
      <4>2. f[i] = turn[f[i - 1]] /\ f[i - 1] \in V
        BY <1>3, <4>1 DEF HasTurns
      <4>3. f[i] = [n \in Refs |-> On(f[i - 1], n)]
        BY <4>2 DEF turn
      <4> QED
        BY <3>2, <4>1, <4>3 DEF On
    <3> QED
      BY <3>1, <3>2
  <2> HIDE DEF Row
  <2> QED
    BY <1>3, <2>1
<1>5. Turns(b)
  <2> HIDE DEF Turns
  <2> QED
    BY <1>4, Zenon
<1>6. getSize(h) = b[Fuel][h.root]
  BY Zenon DEF getSize, Fuel
<1> HIDE DEF b
<1>7. ASSUME NEW i \in 0..Fuel
      PROVE  b[i] = Row(b, i)
  <2> HIDE DEF Row
  <2> QED
    BY <1>5
<1>8. 0 \in 0..Fuel /\ \A i \in 1..Fuel : i \in 0..Fuel /\ i # 0 /\ i > 0
  BY FuelType
<1> HIDE DEF Turns
<1>9. \A n \in Refs : b[0][n] = 0
  BY <1>7, <1>8
<1>10. ASSUME NEW i \in 1..Fuel, NEW n \in Refs
       PROVE  b[i][n] = IF n = Nil THEN 0 ELSE b[i - 1][h.child["left"][n]] + 1 + b[i - 1][h.child["right"][n]]
  <2>1. b[i] = Row(b, i) /\ i # 0 /\ i > 0
    <3> HIDE DEF Row
    <3> QED
      BY <1>7, <1>8
  <2> QED
    BY <2>1
<1>11. SizeTurns(b, h)
  BY <1>9, <1>10 DEF SizeTurns
<1> QED
  BY <1>6, <1>11

-----------------------------------------------------------------------------
(* What they find. *)

CountUnder(under, n) == Cardinality(under[n])

LEMMA SizesUnder ==
  ASSUME NEW h, NEW under, IsTree(h, under), NEW n \in under[h.root]
  PROVE  /\ CountUnder(under, n) \in 1..Fuel
         /\ \A s \in Sides : /\ CountUnder(under, h.child[s][n]) \in 0..Fuel
                             /\ CountUnder(under, h.child[s][n]) <= CountUnder(under, n) - 1
         /\ CountUnder(under, n) = CountUnder(under, h.child["left"][n]) + 1 + CountUnder(under, h.child["right"][n])
<1>1. n \in under[n] /\ under[n] \in SUBSET SetKeys /\ n \in SetKeys
  BY NodeParts
<1>2. \A A \in SUBSET SetKeys : IsFiniteSet(A) /\ Cardinality(A) \in Nat /\ Cardinality(A) <= Fuel
  <2> TAKE A \in SUBSET SetKeys
  <2>1. IsFiniteSet(A) /\ Cardinality(A) <= Fuel
    BY FS_Subset, UnorderedSetAssumption DEF Fuel
  <2> QED
    BY <2>1, FS_CardinalityType
<1> DEFINE l == under[h.child["left"][n]]
           r == under[h.child["right"][n]]
<1>3. \A s \in Sides : under[h.child[s][n]] \subseteq under[n] /\ n \notin under[h.child[s][n]]
                       /\ \A x \in under[h.child[s][n]] : Before(s, x, n)
  BY ChildParts
<1>4. l \in SUBSET SetKeys /\ r \in SUBSET SetKeys /\ n \notin l /\ n \notin r
      /\ l \subseteq under[n] /\ r \subseteq under[n]
  BY <1>1, <1>3, SideFacts
<1>5. l \cap r = {}
  <2>1. \A x \in l : Before("left", x, n)
    BY <1>3, SideFacts
  <2>2. \A x \in r : Before("right", x, n)
    BY <1>3, SideFacts
  <2> HIDE DEF l, r
  <2>3. ASSUME NEW x \in l, x \in r
        PROVE  FALSE
    <3>1. x \in Int /\ n \in Int /\ x < n /\ n < x
      BY <1>1, <1>4, <2>1, <2>2, <2>3, KeyFacts, BeforeFacts
    <3> QED
      BY <3>1
  <2> QED
    BY <2>3
<1>6. under[n] = (l \cup r) \cup {n}
  <2>1. \A x \in under[n] : x = n \/ \E s \in Sides : x \in under[h.child[s][n]]
    BY DEF IsTree, Fits
  <2>2. \A x \in under[n] : x = n \/ x \in l \/ x \in r
    BY <2>1 DEF Sides
  <2> QED
    BY <1>1, <1>4, <2>2
<1> HIDE DEF l, r
<1>7. Cardinality(l \cup r) = Cardinality(l) + Cardinality(r) /\ IsFiniteSet(l \cup r)
  <2>1. Cardinality(l \cap r) = 0
    BY <1>5, FS_EmptySet
  <2>2. Cardinality(l \cup r) = Cardinality(l) + Cardinality(r) - Cardinality(l \cap r)
    BY <1>2, <1>4, FS_Union
  <2> QED
    BY <1>2, <1>4, <2>1, <2>2
<1>8. Cardinality(under[n]) = Cardinality(l \cup r) + 1
  BY <1>4, <1>6, <1>7, FS_AddElement
<1>9. CountUnder(under, n) = CountUnder(under, h.child["left"][n]) + 1 + CountUnder(under, h.child["right"][n])
  BY <1>2, <1>4, <1>7, <1>8 DEF CountUnder, l, r
<1>10. CountUnder(under, n) \in Nat /\ CountUnder(under, n) <= Fuel
  BY <1>1, <1>2 DEF CountUnder
<1>11. CountUnder(under, h.child["left"][n]) \in Nat /\ CountUnder(under, h.child["right"][n]) \in Nat
  BY <1>2, <1>4 DEF CountUnder, l, r
<1>12. CountUnder(under, n) >= 1
  BY <1>9, <1>11
<1> QED
  BY <1>9, <1>10, <1>11, <1>12, FuelType DEF Sides

(* Where the way goes on, the key belongs. *)
LEMMA BelongsAtRoot ==
  ASSUME NEW h, NEW under, IsTree(h, under), h.root # Nil, NEW k
  PROVE  BelongsAt(h, under, k, h.root)
<1>1. h.root \in under[h.root] /\ h.parent[h.root] = Nil
  BY DEF IsTree
<1> QED
  BY <1>1, ParentUnder DEF BelongsAt

LEMMA BelongsBelow ==
  ASSUME NEW h, NEW under, IsTree(h, under), NEW a \in under[h.root], NEW k \in SetKeys,
         BelongsAt(h, under, k, a), NEW side \in Sides, Before(side, k, a),
         h.child[side][a] # Nil
  PROVE  BelongsAt(h, under, k, h.child[side][a])
<1> DEFINE c == h.child[side][a]
<1>1. c \in under[h.root] /\ h.parent[c] = a
  BY ChildParts
<1>2. \A x \in under[h.root] : x \in SetKeys
  BY NodeParts
<1> HIDE DEF c
<1> SUFFICES ASSUME NEW m \in under[h.root], m # c, c \in under[m], NEW s \in Sides, Before(s, c, m)
             PROVE  Before(s, k, m)
  BY DEF BelongsAt, c
<1>3. CASE m = a
  <2>1. c \in under[h.child[side][a]] /\ Before(side, c, a)
    BY ChildParts DEF c
  <2>2. s = side
    BY <1>1, <1>2, <1>3, <2>1, BeforeFacts, SideFacts
  <2> QED
    BY <1>3, <2>2
<1>4. CASE m # a
  <2>1. PICK t \in Sides : c \in under[h.child[t][m]]
    BY DEF IsTree, Fits
  <2> DEFINE b == h.child[t][m]
  <2>2. b # Nil
    BY <2>1 DEF IsTree
  <2>3. b \in under[h.root] /\ h.parent[b] = m /\ under[b] \subseteq under[m]
    BY <2>2, ChildParts
  <2> HIDE DEF b
  <2>4. c # b
    BY <1>1, <1>4, <2>3
  <2>5. a \in under[b]
    BY <1>1, <2>1, <2>3, <2>4, ParentUnder DEF b
  <2>6. Before(t, a, m) /\ Before(t, c, m)
    BY <2>1, <2>5, ChildParts DEF b
  <2>7. s = t
    BY <1>1, <1>2, <2>6, BeforeFacts, SideFacts
  <2> QED
    BY <1>4, <2>3, <2>5, <2>6, <2>7 DEF BelongsAt
<1> QED
  BY <1>3, <1>4

LEMMA TowardIsBefore ==
  ASSUME NEW k \in SetKeys, NEW n \in SetKeys, k # n
  PROVE  Toward(k, n) \in Sides /\ Before(Toward(k, n), k, n)
BY KeyFacts DEF Toward, Before, Sides

(* The way leads over nodes where the key belongs, to the key if it is in   *)
(* the tree and to a free place if it is not.                               *)
OnTheWay(h, under, k, n, way) ==
  /\ BelongsAt(h, under, k, n) => \A m \in way : m \in under[h.root] /\ BelongsAt(h, under, k, m)
  /\ k \in under[n] => k \in way
  /\ k \notin under[n] => \E m \in way : h.child[Toward(k, m)][m] = Nil

LEMMA WayFinds ==
  ASSUME NEW h, NEW under, IsTree(h, under), NEW k \in SetKeys, h.root # Nil
  PROVE  OnTheWay(h, under, k, h.root, Way(h, k))
<1>1. h \in Heaps /\ under[Nil] = {} /\ h.root \in under[h.root] /\ \A n \in under[h.root] : n \in SetKeys /\ n # Nil /\ n \in Refs
  BY NodeParts, KeyFacts DEF IsTree
<1>2. PICK b : Way(h, k) = b[Fuel][h.root] /\ WayTurns(b, h, k)
  BY <1>1, WayTakesTurns
<1> DEFINE S == {i \in 0..Fuel : \A n \in under[h.root] :
                    CountUnder(under, n) <= i => OnTheWay(h, under, k, n, b[i][n])}
<1>3. 0 \in S
  <2>1. \A n \in under[h.root] : ~(CountUnder(under, n) <= 0)
    BY SizesUnder
  <2> QED
    BY <2>1, FuelType
<1>4. ASSUME NEW i \in 1..Fuel, i - 1 \in S
      PROVE  i \in S
  <2>1. i \in 0..Fuel /\ i - 1 \in Nat /\ i \in Nat
    BY FuelType
  <2> SUFFICES ASSUME NEW n \in under[h.root], CountUnder(under, n) <= i
               PROVE  OnTheWay(h, under, k, n, b[i][n])
    BY <2>1
  <2>2. n \in SetKeys /\ n # Nil /\ n \in Refs /\ n \in under[n]
    BY <1>1, NodeParts
  <2> DEFINE c == h.child[Toward(k, n)][n]
  <2>3. b[i][n] = {n} \cup (IF n = k THEN {} ELSE b[i - 1][c])
    BY <1>2, <2>2 DEF WayTurns
  <2>4. CASE n = k
    BY <2>2, <2>3, <2>4 DEF OnTheWay
  <2>5. CASE n # k
    <3>1. Toward(k, n) \in Sides /\ Before(Toward(k, n), k, n)
      BY <2>2, <2>5, TowardIsBefore
    <3>2. c \in Refs /\ (c # Nil => c \in under[h.root]) /\ (k \in under[n] <=> k \in under[c])
      BY <2>2, <3>1, ChildParts
    <3>3. b[i][n] = {n} \cup b[i - 1][c]
      BY <2>3, <2>5
    <3>4. CASE c = Nil
      <4>1. b[i - 1][c] = {}
        <5>1. i - 1 = 0 \/ i - 1 \in 1..Fuel
          BY FuelType
        <5> HIDE DEF c
        <5> QED
          BY <1>2, <3>2, <3>4, <5>1 DEF WayTurns
      <4>2. k \notin under[n]
        BY <1>1, <3>2, <3>4
      <4>3. b[i][n] = {n}
        BY <3>3, <4>1
      <4> QED
        BY <3>4, <4>2, <4>3 DEF OnTheWay
    <3>5. CASE c # Nil
      <4>1. CountUnder(under, c) <= i - 1
        <5>1. CountUnder(under, c) <= CountUnder(under, n) - 1 /\ CountUnder(under, c) \in 0..Fuel /\ CountUnder(under, n) \in 1..Fuel
          BY <3>1, SizesUnder
        <5> HIDE DEF c
        <5> QED
          BY <2>1, <5>1, FuelType
      <4>2. OnTheWay(h, under, k, c, b[i - 1][c])
        BY <1>4, <3>2, <3>5, <4>1
      <4>3. BelongsAt(h, under, k, n) => BelongsAt(h, under, k, c)
        BY <3>1, <3>5, BelongsBelow
      <4> HIDE DEF c
      <4> QED
        BY <3>2, <3>3, <4>2, <4>3 DEF OnTheWay
    <3> QED
      BY <3>4, <3>5
  <2> QED
    BY <2>4, <2>5
<1> HIDE DEF S
<1>5. Fuel \in S
  BY <1>3, <1>4, FuelType, CountingUp
<1>6. CountUnder(under, h.root) <= Fuel
  BY <1>1, SizesUnder, FuelType
<1> QED
  BY <1>1, <1>2, <1>5, <1>6 DEF S

(* search() finds the keys of the tree and no others. *)
LEMMA SearchFinds ==
  ASSUME NEW h, NEW under, IsTree(h, under), NEW k \in SetKeys
  PROVE  search(h, k) <=> k \in under[h.root]
<1>1. CASE h.root = Nil
  <2>1. h \in Heaps /\ under[h.root] = {} /\ h.root \in Refs
    BY <1>1, KeyFacts DEF IsTree
  <2>2. PICK b : Way(h, k) = b[Fuel][h.root] /\ WayTurns(b, h, k)
    BY <2>1, WayTakesTurns
  <2>3. Fuel = 0 \/ Fuel \in 1..Fuel
    BY FuelType
  <2>4. Way(h, k) = {}
    BY <1>1, <2>1, <2>2, <2>3 DEF WayTurns
  <2> QED
    BY <2>1, <2>4 DEF search
<1>2. CASE h.root # Nil
  <2>1. BelongsAt(h, under, k, h.root) /\ OnTheWay(h, under, k, h.root, Way(h, k))
    BY <1>2, BelongsAtRoot, WayFinds
  <2> QED
    BY <2>1 DEF search, OnTheWay
<1> QED
  BY <1>1, <1>2

(* Leftmost() is the least key of a subtree. *)
LEMMA LeftmostIsLeast ==
  ASSUME NEW h, NEW under, IsTree(h, under), NEW n \in under[h.root]
  PROVE  /\ Leftmost(h, n) \in under[n] /\ h.child["left"][Leftmost(h, n)] = Nil
         /\ \A x \in under[n] : Leftmost(h, n) <= x
<1>1. h \in Heaps /\ under[Nil] = {}
  BY DEF IsTree
<1>2. PICK d : Leftmost(h, n) = d[Fuel][n] /\ DownTurns(d, h)
  BY <1>1, LeftmostTakesTurns
<1> DEFINE Least(m, y) == y \in under[m] /\ h.child["left"][y] = Nil /\ \A x \in under[m] : y <= x
           S == {i \in 0..Fuel : \A m \in under[h.root] : CountUnder(under, m) <= i => Least(m, d[i][m])}
<1>3. 0 \in S
  <2>1. \A m \in under[h.root] : ~(CountUnder(under, m) <= 0)
    BY SizesUnder
  <2> QED
    BY <2>1, FuelType
<1>4. ASSUME NEW i \in 1..Fuel, i - 1 \in S
      PROVE  i \in S
  <2>1. i \in 0..Fuel /\ i - 1 \in Nat /\ i \in Nat
    BY FuelType
  <2> SUFFICES ASSUME NEW m \in under[h.root], CountUnder(under, m) <= i
               PROVE  Least(m, d[i][m])
    BY <2>1
  <2>2. m \in SetKeys /\ m \in under[m] /\ under[m] \subseteq SetKeys
    BY NodeParts
  <2> DEFINE c == h.child["left"][m]
  <2>3. d[i][m] = IF c = Nil THEN m ELSE d[i - 1][c]
    BY <1>2, <2>2 DEF DownTurns
  <2>4. /\ \A x \in under[m] : x < m => x \in under[c]
        /\ \A x \in under[c] : x < m /\ x \in under[m]
    BY ChildParts, SideFacts, BeforeFacts
  <2>5. CASE c = Nil
    <3>1. d[i][m] = m
      BY <2>3, <2>5
    <3>2. \A x \in under[m] : ~(x < m) /\ x \in Int /\ m \in Int
      BY <1>1, <2>2, <2>4, <2>5, KeyFacts
    <3>3. \A x \in under[m] : m <= x
      BY <3>2
    <3> QED
      BY <2>2, <2>5, <3>1, <3>3
  <2>6. CASE c # Nil
    <3>1. c \in under[h.root]
      BY <2>6, ChildParts, SideFacts
    <3>2. CountUnder(under, c) <= i - 1
      <4>1. CountUnder(under, c) <= CountUnder(under, m) - 1 /\ CountUnder(under, c) \in 0..Fuel /\ CountUnder(under, m) \in 1..Fuel
        BY SizesUnder, SideFacts
      <4> HIDE DEF c
      <4> QED
        BY <2>1, <4>1, FuelType
    <3>3. Least(c, d[i - 1][c])
      BY <1>4, <3>1, <3>2
    <3> DEFINE y == d[i - 1][c]
    <3>4. d[i][m] = y
      BY <2>3, <2>6
    <3> HIDE DEF c, y
    <3>5. y \in under[m] /\ y < m /\ y \in Int /\ m \in Int
      BY <2>2, <2>4, <3>3, KeyFacts DEF y
    <3>6. ASSUME NEW x \in under[m]
          PROVE  y <= x
      <4>1. x \in Int
        BY <2>2, KeyFacts
      <4>2. CASE x < m
        BY <2>4, <3>3, <4>2 DEF y
      <4>3. CASE ~(x < m)
        BY <3>5, <4>1, <4>3
      <4> QED
        BY <4>2, <4>3
    <3> QED
      BY <3>3, <3>4, <3>5, <3>6 DEF y
  <2> QED
    BY <2>5, <2>6
<1> HIDE DEF S
<1>5. Fuel \in S
  BY <1>3, <1>4, FuelType, CountingUp
<1>6. CountUnder(under, n) <= Fuel
  BY SizesUnder, FuelType
<1> QED
  BY <1>2, <1>5, <1>6 DEF S

(* y comes next after n: the least of the greater keys, or Nil. *)
ComesNext(h, under, n, y) ==
  \/ y = Nil /\ \A x \in under[h.root] : x <= n
  \/ y \in under[h.root] /\ n < y /\ \A x \in under[h.root] : n < x => y <= x

(* A subtree on the left has only smaller keys, and nothing is in between. *)
LEMMA NextIsAbove ==
  ASSUME NEW h, NEW under, IsTree(h, under), NEW n \in under[h.root],
         NEW m \in under[h.root], n \in under[m], \A x \in under[m] : x <= n,
         ~(h.parent[m] # Nil /\ m = h.child["right"][h.parent[m]])
  PROVE  ComesNext(h, under, n, h.parent[m])
<1>1. /\ \A x \in under[h.root] : x \in Int
      /\ m \in under[m]
  BY NodeParts, KeyFacts
<1>2. CASE h.parent[m] = Nil
  <2>1. m = h.root
    BY <1>2, NodeParts
  <2> QED
    BY <1>2, <2>1 DEF ComesNext
<1>3. CASE h.parent[m] # Nil
  <2> DEFINE up == h.parent[m]
  <2>1. up \in under[h.root] /\ \E s \in Sides : h.child[s][up] = m
    BY <1>3, NodeParts
  <2>2. h.child["left"][up] = m
    BY <1>3, <2>1 DEF Sides
  <2>3. up \in under[up]
    BY <2>1, NodeParts
  <2> HIDE DEF up
  <2>4. /\ \A x \in under[m] : x \in under[up] /\ x < up
        /\ \A x \in under[up] : x < up => x \in under[m]
    BY <2>1, <2>2, ChildParts, SideFacts, BeforeFacts
  <2>5. n < up /\ n \in under[up]
    BY <2>4
  <2>6. ASSUME NEW x \in under[h.root], n < x
        PROVE  up <= x
    <3>1. CASE x < up
      <4>1. x \in under[up]
        BY <2>1, <2>3, <2>5, <2>6, <3>1, NothingBetween
      <4>2. x <= n
        BY <2>4, <3>1, <4>1
      <4> QED
        BY <1>1, <2>6, <4>2
    <3>2. CASE ~(x < up)
      BY <1>1, <2>1, <3>2
    <3> QED
      BY <3>1, <3>2
  <2> QED
    BY <2>1, <2>5, <2>6 DEF ComesNext, up
<1> QED
  BY <1>2, <1>3

(* operator++ of the iterator leads to the next key. *)
LEMMA SuccessorIsNext ==
  ASSUME NEW h, NEW under, IsTree(h, under), NEW n \in under[h.root]
  PROVE  ComesNext(h, under, n, successor(h, n))
<1>1. /\ h \in Heaps /\ under[Nil] = {}
      /\ \A x \in under[h.root] : x \in SetKeys /\ x \in Int /\ x # Nil /\ x \in under[x]
                                  /\ under[x] \subseteq under[h.root]
  BY NodeParts, KeyFacts DEF IsTree
<1>2. CASE h.child["right"][n] # Nil
  <2> DEFINE c == h.child["right"][n]
             y == Leftmost(h, c)
  <2>1. c \in under[h.root] /\ \A x \in under[c] : n < x
    BY <1>2, ChildParts, SideFacts, BeforeFacts
  <2>2. \A x \in under[n] : n < x => x \in under[c]
    BY ChildParts, SideFacts, BeforeFacts
  <2>3. y \in under[c] /\ \A x \in under[c] : y <= x
    BY <2>1, LeftmostIsLeast
  <2>4. successor(h, n) = y
    BY <1>2, Zenon DEF successor
  <2>5. under[c] \subseteq under[n]
    BY ChildParts, SideFacts
  <2> HIDE DEF c, y
  <2>6. y \in under[n] /\ y \in under[h.root] /\ n < y /\ y \in Int /\ n \in Int
    BY <1>1, <2>1, <2>3, <2>5
  <2>7. ASSUME NEW x \in under[h.root], n < x
        PROVE  y <= x
    <3>1. CASE x < y
      <4>1. x \in under[n]
        BY <1>1, <2>6, <2>7, <3>1, NothingBetween
      <4> QED
        BY <2>2, <2>3, <2>7, <4>1
    <3>2. CASE ~(x < y)
      BY <1>1, <2>6, <3>2
    <3> QED
      BY <3>1, <3>2
  <2> QED
    BY <2>4, <2>6, <2>7 DEF ComesNext
<1>3. CASE h.child["right"][n] = Nil
  <2>1. PICK c : successor(h, n) = c[Fuel][n] /\ ClimbTurns(c, h)
    BY <1>1, <1>3, ClimbTakesTurns
  <2> DEFINE Up(m) == h.parent[m] # Nil /\ m = h.child["right"][h.parent[m]]
             Below(m) == n \in under[m] /\ \A x \in under[m] : x <= n
             S == {i \in 0..Fuel : \A m \in under[h.root] :
                     Below(m) /\ Fuel - CountUnder(under, m) <= i => ComesNext(h, under, n, c[i][m])}
  <2>2. ASSUME NEW i \in 0..Fuel, NEW m \in under[h.root], Below(m), ~Up(m)
        PROVE  ComesNext(h, under, n, c[i][m])
    <3>1. c[i][m] = h.parent[m]
      BY <1>1, <2>1, <2>2 DEF ClimbTurns
    <3> QED
      BY <2>2, <3>1, NextIsAbove
  <2>3. ASSUME NEW m \in under[h.root], Below(m), Up(m)
        PROVE  /\ h.parent[m] \in under[h.root] /\ Below(h.parent[m])
               /\ CountUnder(under, m) <= CountUnder(under, h.parent[m]) - 1
               /\ CountUnder(under, m) \in 1..Fuel /\ CountUnder(under, h.parent[m]) \in 1..Fuel
    <3> DEFINE up == h.parent[m]
    <3>1. up \in under[h.root] /\ h.child["right"][up] = m
      BY <2>3, NodeParts
    <3> HIDE DEF up
    <3>2. /\ \A x \in under[m] : up < x /\ x \in under[up]
          /\ \A x \in under[up] : up < x => x \in under[m]
      BY <3>1, ChildParts, SideFacts, BeforeFacts
    <3>3. CountUnder(under, m) <= CountUnder(under, up) - 1
      BY <3>1, SizesUnder, SideFacts
    <3>4. ASSUME NEW x \in under[up]
          PROVE  x <= n
      <4>1. x \in Int /\ up \in Int /\ n \in Int /\ up < n
        BY <1>1, <2>3, <3>1, <3>2
      <4>2. CASE up < x
        BY <2>3, <3>2, <4>2
      <4>3. CASE ~(up < x)
        BY <4>1, <4>3
      <4> QED
        BY <4>2, <4>3
    <3>5. n \in under[up]
      BY <2>3, <3>2
    <3>6. CountUnder(under, m) \in 1..Fuel /\ CountUnder(under, up) \in 1..Fuel
      BY <3>1, SizesUnder
    <3> QED
      BY <3>1, <3>3, <3>4, <3>5, <3>6 DEF up
  <2>4. 0 \in S
    <3>1. ASSUME NEW m \in under[h.root], Below(m), Fuel - CountUnder(under, m) <= 0
          PROVE  ~Up(m)
      <4> HIDE DEF Up, Below
      <4> SUFFICES ASSUME Up(m) PROVE FALSE
        OBVIOUS
      <4>1. /\ CountUnder(under, m) <= CountUnder(under, h.parent[m]) - 1
            /\ CountUnder(under, m) \in 1..Fuel /\ CountUnder(under, h.parent[m]) \in 1..Fuel
        BY <2>3, <3>1
      <4> QED
        BY <3>1, <4>1, FuelType
    <3>2. 0 \in 0..Fuel
      BY FuelType
    <3> HIDE DEF Up, Below
    <3> QED
      BY <2>2, <3>1, <3>2
  <2>5. ASSUME NEW i \in 1..Fuel, i - 1 \in S
        PROVE  i \in S
    <3>1. i \in 0..Fuel /\ i - 1 \in Nat /\ i \in Nat
      BY FuelType
    <3> SUFFICES ASSUME NEW m \in under[h.root], Below(m), Fuel - CountUnder(under, m) <= i
                 PROVE  ComesNext(h, under, n, c[i][m])
      BY <3>1
    <3>2. CASE ~Up(m)
      <4> HIDE DEF Up, Below
      <4> QED
        BY <2>2, <3>1, <3>2
    <3>3. CASE Up(m)
      <4>1. c[i][m] = c[i - 1][h.parent[m]]
        BY <1>1, <2>1, <3>3 DEF ClimbTurns
      <4> HIDE DEF Up
      <4>2. /\ h.parent[m] \in under[h.root] /\ Below(h.parent[m])
            /\ CountUnder(under, m) <= CountUnder(under, h.parent[m]) - 1
            /\ CountUnder(under, m) \in 1..Fuel /\ CountUnder(under, h.parent[m]) \in 1..Fuel
        BY <2>3, <3>3
      <4>3. Fuel - CountUnder(under, h.parent[m]) <= i - 1
        BY <3>1, <4>2, FuelType
      <4> HIDE DEF Below
      <4> QED
        BY <2>5, <4>1, <4>2, <4>3
    <3> QED
      BY <3>2, <3>3
  <2> HIDE DEF S
  <2>6. Fuel \in S
    BY <2>4, <2>5, FuelType, CountingUp
  <2>7. Below(n)
    <3>1. \A x \in under[n] : n < x => x \in under[h.child["right"][n]]
      BY ChildParts, SideFacts, BeforeFacts
    <3>2. \A x \in under[n] : ~(n < x)
      BY <1>1, <1>3, <3>1
    <3>3. \A x \in under[n] : x \in Int /\ n \in Int
      BY <1>1
    <3> QED
      BY <1>1, <3>2, <3>3
  <2>8. Fuel - CountUnder(under, n) <= Fuel
    <3>1. CountUnder(under, n) \in 1..Fuel
      BY SizesUnder
    <3> QED
      BY <3>1, FuelType
  <2> QED
    BY <2>1, <2>6, <2>7, <2>8 DEF S
<1> QED
  BY <1>2, <1>3

(* getSize() counts the keys. *)
LEMMA SizeIsCount ==
  ASSUME NEW h, NEW under, IsTree(h, under)
  PROVE  getSize(h) = Cardinality(under[h.root])
<1>1. h \in Heaps /\ under[Nil] = {} /\ h.root \in Refs /\ (h.root # Nil => h.root \in under[h.root])
  BY HeapParts DEF IsTree
<1>2. PICK z : getSize(h) = z[Fuel][h.root] /\ SizeTurns(z, h)
  BY <1>1, SizeTakesTurns
<1> DEFINE S == {i \in 0..Fuel : \A n \in under[h.root] \cup {Nil} :
                   CountUnder(under, n) <= i => z[i][n] = CountUnder(under, n)}
<1>3. CountUnder(under, Nil) = 0 /\ \A i \in 0..Fuel : z[i][Nil] = 0
  <2>1. CountUnder(under, Nil) = 0
    BY <1>1, FS_EmptySet DEF CountUnder
  <2>2. ASSUME NEW i \in 0..Fuel
        PROVE  z[i][Nil] = 0
    <3>1. i = 0 \/ i \in 1..Fuel
      BY FuelType
    <3> QED
      BY <1>2, <3>1, KeyFacts DEF SizeTurns
  <2> QED
    BY <2>1, <2>2
<1>4. 0 \in S
  <2>1. \A n \in under[h.root] : ~(CountUnder(under, n) <= 0)
    BY SizesUnder
  <2>2. 0 \in 0..Fuel
    BY FuelType
  <2> QED
    BY <1>3, <2>1, <2>2
<1>5. ASSUME NEW i \in 1..Fuel, i - 1 \in S
      PROVE  i \in S
  <2>1. i \in 0..Fuel /\ i - 1 \in Nat /\ i \in Nat
    BY FuelType
  <2> SUFFICES ASSUME NEW n \in under[h.root], CountUnder(under, n) <= i
               PROVE  z[i][n] = CountUnder(under, n)
    BY <1>3, <2>1
  <2> DEFINE l == h.child["left"][n]
             r == h.child["right"][n]
  <2>2. n \in Refs /\ n # Nil
    BY NodeParts, KeyFacts
  <2>3. z[i][n] = z[i - 1][l] + 1 + z[i - 1][r]
    BY <1>2, <2>2 DEF SizeTurns
  <2>4. l \in under[h.root] \cup {Nil} /\ r \in under[h.root] \cup {Nil}
    BY ChildParts, SideFacts
  <2>5. /\ CountUnder(under, l) <= CountUnder(under, n) - 1 /\ CountUnder(under, l) \in 0..Fuel
        /\ CountUnder(under, r) <= CountUnder(under, n) - 1 /\ CountUnder(under, r) \in 0..Fuel
        /\ CountUnder(under, n) = CountUnder(under, l) + 1 + CountUnder(under, r)
        /\ CountUnder(under, n) \in 1..Fuel
    BY SizesUnder, SideFacts
  <2> HIDE DEF l, r
  <2>6. CountUnder(under, l) <= i - 1 /\ CountUnder(under, r) <= i - 1
    BY <2>1, <2>5, FuelType
  <2>7. z[i - 1][l] = CountUnder(under, l) /\ z[i - 1][r] = CountUnder(under, r)
    BY <1>5, <2>4, <2>6
  <2> QED
    BY <2>3, <2>5, <2>7
<1> HIDE DEF S
<1>6. Fuel \in S
  BY <1>4, <1>5, FuelType, CountingUp
<1>7. CountUnder(under, h.root) <= Fuel
  BY <1>1, <1>3, SizesUnder, FuelType
<1> QED
  BY <1>1, <1>2, <1>6, <1>7 DEF S, CountUnder

(* A loop over a search tree meets its keys in ascending order. *)
From(above) ==
  IF above = {} THEN Nil ELSE CHOOSE k \in above : \A other \in above : k <= other

LEMMA LeastIsChosen ==
  ASSUME NEW A \in SUBSET SetKeys, NEW k \in A, \A x \in A : k <= x
  PROVE  From(A) = k
<1>1. \A x \in A : (\A y \in A : x <= y) => x = k
  <2> TAKE x \in A
  <2>1. x \in Int /\ k \in Int
    BY KeyFacts
  <2> QED
    BY <2>1
<1>2. A # {}
  OBVIOUS
<1> QED
  BY <1>1, <1>2 DEF From

LEMMA TreeIsWalked ==
  ASSUME NEW h, NEW under, IsTree(h, under)
  PROVE  /\ begin(h) = From(under[h.root])
         /\ \A k \in under[h.root] :
              successor(h, k) = From({x \in under[h.root] : x > k})
<1>1. h \in Heaps /\ under[Nil] = {} /\ under[h.root] \in SUBSET SetKeys
      /\ (h.root # Nil => h.root \in under[h.root])
  BY NodeParts DEF IsTree
<1>2. begin(h) = From(under[h.root])
  <2>1. CASE h.root = Nil
    BY <1>1, <2>1 DEF begin, From
  <2>2. CASE h.root # Nil
    <3>1. begin(h) = Leftmost(h, h.root)
      BY <2>2, Zenon DEF begin
    <3>2. /\ Leftmost(h, h.root) \in under[h.root]
          /\ \A x \in under[h.root] : Leftmost(h, h.root) <= x
      BY <1>1, <2>2, LeftmostIsLeast
    <3> QED
      BY <1>1, <3>1, <3>2, LeastIsChosen
  <2> QED
    BY <2>1, <2>2
<1>3. ASSUME NEW k \in under[h.root]
      PROVE  successor(h, k) = From({x \in under[h.root] : x > k})
  <2> DEFINE A == {x \in under[h.root] : x > k}
             y == successor(h, k)
  <2>1. ComesNext(h, under, k, y)
    BY SuccessorIsNext
  <2>2. \A x \in under[h.root] : x \in Int
    BY <1>1, KeyFacts
  <2> HIDE DEF y
  <2>3. CASE y = Nil /\ \A x \in under[h.root] : x <= k
    <3>1. A = {}
      BY <2>2, <2>3
    <3> QED
      BY <2>3, <3>1 DEF From, y
  <2>4. CASE y \in under[h.root] /\ k < y /\ \A x \in under[h.root] : k < x => y <= x
    <3>1. A \in SUBSET SetKeys /\ y \in A /\ \A x \in A : y <= x
      BY <1>1, <2>2, <2>4
    <3> HIDE DEF A
    <3>2. From(A) = y
      BY <3>1, LeastIsChosen
    <3> QED
      BY <3>2 DEF A, y
  <2> QED
    BY <2>1, <2>3, <2>4 DEF ComesNext
<1> QED
  BY <1>2, <1>3

-----------------------------------------------------------------------------
(* What the operations do to the tree as a whole. *)

(* The heap holds a search tree of the keys N. *)
TreeOf(h, N) == \E under : IsTree(h, under) /\ under[h.root] = N

SameFields(g, h, m) == g.parent[m] = h.parent[m] /\ \A s \in Sides : g.child[s][m] = h.child[s][m]

(* A tree again, of the keys N, and nothing has changed outside of it. *)
Becomes(g, h, N) == TreeOf(g, N) /\ \A m \in SetKeys \ N : SameFields(g, h, m)

(* The fields of a node that is not in use. *)
Blank(h, m) == h.parent[m] = Nil /\ \A s \in Sides : h.child[s][m] = Nil

LEMMA TreeOfParts ==
  ASSUME NEW h, NEW N, TreeOf(h, N)
  PROVE  /\ h \in Heaps /\ N \subseteq SetKeys /\ N \in SUBSET SetKeys
         /\ h.root = Nil => N = {}
         /\ h.root # Nil => h.root \in N
         /\ \A n \in N : n \in SetKeys /\ n # Nil /\ h.root # Nil
         /\ \A n \in N : n = h.root <=> h.parent[n] = Nil
         /\ \A n \in N : h.parent[n] # Nil => /\ h.parent[n] \in N /\ h.parent[n] # n
              /\ SideOf(h, n, h.parent[n]) \in Sides
              /\ \A s \in Sides : h.child[s][h.parent[n]] = n <=> s = SideOf(h, n, h.parent[n])
         /\ \A n \in N, s \in Sides : h.child[s][n] # Nil =>
              /\ h.child[s][n] \in N /\ h.parent[h.child[s][n]] = n /\ h.child[s][n] # n
              /\ h.child[s][n] # h.child[Other(s)][n]
<1> PICK under : IsTree(h, under) /\ under[h.root] = N
  BY DEF TreeOf
<1>1. /\ h \in Heaps /\ N \subseteq SetKeys
      /\ h.root = Nil => N = {}
      /\ h.root # Nil => h.root \in N
  <2>1. h \in Heaps
    BY DEF IsTree
  <2>2. h.root \in Refs
    BY <2>1, HeapParts
  <2> QED
    BY <2>1, <2>2 DEF IsTree
<1>2. \A n \in N : /\ n \in SetKeys /\ n # Nil /\ h.root # Nil /\ (n = h.root <=> h.parent[n] = Nil)
                   /\ h.parent[n] # Nil => h.parent[n] \in N
  BY NodeParts
<1>3. \A n \in N, s \in Sides : h.child[s][n] # Nil =>
              /\ h.child[s][n] \in N /\ h.parent[h.child[s][n]] = n /\ h.child[s][n] # n
              /\ h.child[s][n] # h.child[Other(s)][n]
  BY ChildParts
<1>4. \A n \in N : h.parent[n] # Nil =>
              /\ SideOf(h, n, h.parent[n]) \in Sides
              /\ \A s \in Sides : h.child[s][h.parent[n]] = n <=> s = SideOf(h, n, h.parent[n])
  BY SideOfNode
<1>5. \A n \in N : h.parent[n] # Nil => h.parent[n] # n
  BY <1>2, <1>3, <1>4
<1> QED
  BY <1>1, <1>2, <1>3, <1>4, <1>5

LEMMA ElementsOfTree ==
  ASSUME NEW h, NEW N, TreeOf(h, N)
  PROVE  {k \in SetKeys : search(h, k)} = N
<1> PICK under : IsTree(h, under) /\ under[h.root] = N
  BY DEF TreeOf
<1>1. \A k \in SetKeys : search(h, k) <=> k \in N
  BY SearchFinds
<1> QED
  BY <1>1, TreeOfParts

LEMMA RotatedIs ==
  ASSUME NEW h, NEW n, NEW side \in Sides
  PROVE  Rotated(h, n, side) = Rotate(h, n, side)
BY DEF Rotated, rotateLeft, rotateRight, Sides

LEMMA RotatedTree ==
  ASSUME NEW h, NEW N, TreeOf(h, N), NEW n \in N, NEW side \in Sides, h.child[Other(side)][n] # Nil
  PROVE  Becomes(Rotated(h, n, side), h, N)
<1> PICK under : IsTree(h, under) /\ under[h.root] = N
  BY DEF TreeOf
<1> DEFINE up == h.child[Other(side)][n]
           inner == h.child[side][up]
           g == Rotate(h, n, side)
           new == UnderTurned(h, under, n, up, side)
<1>1. Rotated(h, n, side) = g
  BY RotatedIs
<1>2. up # Nil /\ Other(side) \in Sides /\ n \in SetKeys
  BY SideFacts, TreeOfParts
<1>3. up \in N /\ up \in SetKeys
  BY <1>2, TreeOfParts
<1>4. inner # Nil => inner \in N
  BY <1>3, TreeOfParts
<1>5. h.parent[n] # Nil => h.parent[n] \in N
  BY TreeOfParts
<1>6. IsTree(g, new) /\ new[g.root] = N
  BY <1>2, RotateKeepsTree
<1>7. /\ \A s \in Sides, m \in SetKeys :
              g.child[s][m] = IF m = n /\ s = Other(side) THEN inner
                              ELSE IF m = up /\ s = side THEN n
                              ELSE IF m = h.parent[n] /\ h.child[s][m] = n THEN up
                              ELSE h.child[s][m]
      /\ \A m \in SetKeys :
              g.parent[m] = IF m = n THEN up ELSE IF m = up THEN h.parent[n]
                            ELSE IF m = inner THEN n ELSE h.parent[m]
  BY <1>2, RotateFields
<1> HIDE DEF up, inner, g, new
<1>8. TreeOf(g, N)
  BY <1>6 DEF TreeOf
<1>9. ASSUME NEW m \in SetKeys \ N PROVE SameFields(g, h, m)
  <2>1. m # n /\ m # up /\ m # inner /\ m # h.parent[n]
    BY <1>3, <1>4, <1>5, KeyFacts
  <2> QED
    BY <1>7, <2>1 DEF SameFields
<1> QED
  BY <1>1, <1>8, <1>9 DEF Becomes

LEMMA RecoloredBecomes ==
  ASSUME NEW h, NEW N, TreeOf(h, N), NEW g, Recolored(g, h)
  PROVE  Becomes(g, h, N)
BY RecoloredTree DEF Becomes, TreeOf, SameFields, Recolored

LEMMA BecomesOnce ==
  ASSUME NEW h, NEW N, TreeOf(h, N)
  PROVE  Becomes(h, h, N)
BY DEF Becomes, SameFields

LEMMA BecomesTwice ==
  ASSUME NEW f, NEW g, NEW h, NEW M, NEW N, M \subseteq N, Becomes(g, h, N), Becomes(f, g, M),
         \A m \in N \ M : SameFields(g, h, m)
  PROVE  Becomes(f, h, M)
<1>1. ASSUME NEW m \in SetKeys \ M PROVE SameFields(f, h, m)
  <2>1. SameFields(g, h, m) /\ SameFields(f, g, m)
    BY DEF Becomes
  <2> QED
    BY <2>1 DEF SameFields
<1> QED
  BY <1>1 DEF Becomes

LEMMA BecomesThen ==
  ASSUME NEW f, NEW g, NEW h, NEW N, Becomes(g, h, N), TreeOf(g, N) => Becomes(f, g, N)
  PROVE  Becomes(f, h, N)
<1>1. Becomes(f, g, N)
  BY DEF Becomes
<1> QED
  BY <1>1, BecomesTwice

LEMMA PaintedTree ==
  ASSUME NEW h, NEW N, TreeOf(h, N), NEW n \in Refs, NEW c \in Colors \cup {Nil}
  PROVE  Becomes(Paint(h, n, c), h, N)
BY PaintFields, RecoloredBecomes, TreeOfParts

LEMMA SwappedTree ==
  ASSUME NEW h, NEW N, TreeOf(h, N), NEW a \in SetKeys, NEW b \in SetKeys, a # b
  PROVE  Becomes(Swapped(h, a, b), h, N)
BY SwappedFields, RecoloredBecomes, TreeOfParts

LEMMA FreedTree ==
  ASSUME NEW h, NEW N, TreeOf(h, N), NEW k \in SetKeys, k \notin N
  PROVE  /\ TreeOf(Free(h, k), N) /\ Blank(Free(h, k), k)
         /\ \A m \in SetKeys \ N : m # k => SameFields(Free(h, k), h, m)
<1> DEFINE g == Free(h, k)
<1> PICK under : IsTree(h, under) /\ under[h.root] = N
  BY DEF TreeOf
<1>1. Freed(g, h, k)
  BY FreeFields, TreeOfParts
<1> HIDE DEF g
<1>2. IsTree(g, under)
  BY <1>1, SameOnTheTree, TreeOfParts DEF Freed
<1>3. TreeOf(g, N)
  BY <1>1, <1>2 DEF TreeOf, Freed
<1>4. Blank(g, k) /\ \A m \in SetKeys \ N : m # k => SameFields(g, h, m)
  BY <1>1 DEF Freed, Blank, SameFields
<1> QED
  BY <1>3, <1>4 DEF g

(* A node with one child at most goes, and the child takes its place. *)
Unlinked(h, k, side) == Adopt(Replace(h, k, h.child[side][k]), h.child[side][k], h.parent[k])

LEMMA UnlinkedTree ==
  ASSUME NEW h, NEW under, IsTree(h, under), NEW k \in under[h.root],
         NEW side \in Sides, h.child[Other(side)][k] = Nil
  PROVE  /\ IsTree(Unlinked(h, k, side), UnderWithout(under, k))
         /\ UnderWithout(under, k)[Unlinked(h, k, side).root] = under[h.root] \ {k}
         /\ \A m \in SetKeys \ (under[h.root] \ {k}) : SameFields(Unlinked(h, k, side), h, m)
<1> DEFINE x == h.child[side][k]
           r == Replace(h, k, x)
           g == Adopt(r, x, h.parent[k])
<1> DEFINE N == under[h.root]
<1>12. TreeOf(h, N) /\ k \in N
  BY DEF TreeOf
<1> HIDE DEF N
<1> DEFINE new == UnderWithout(under, k)
<1>1. k \in SetKeys /\ x \in Refs /\ h \in Heaps /\ h.parent[k] \in Refs /\ k # Nil
  BY <1>12, TreeOfParts, HeapParts
<1>2. Replaced(r, h, k, x)
  BY <1>1, ReplaceFields
<1>3. Adopted(g, r, x, h.parent[k])
  BY <1>1, <1>2, AdoptFields DEF Replaced
<1> HIDE DEF r, g, x
<1>4. h.parent[k] # Nil => /\ SideOf(h, k, h.parent[k]) \in Sides /\ h.parent[k] \in N
            /\ h.parent[k] # k
            /\ \A s \in Sides : h.child[s][h.parent[k]] = k <=> s = SideOf(h, k, h.parent[k])
  BY <1>12, TreeOfParts
<1>5. g \in Heaps /\ g.root = IF h.parent[k] = Nil THEN x ELSE h.root
  BY <1>2, <1>3 DEF Replaced, Adopted
<1>6. \A s \in Sides, m \in SetKeys :
           g.child[s][m] = IF m = h.parent[k] /\ h.child[s][m] = k THEN x ELSE h.child[s][m]
  <2>1. CASE h.parent[k] = Nil
    BY <1>2, <1>3, <2>1, KeyFacts DEF Replaced, Adopted
  <2>2. CASE h.parent[k] # Nil
    BY <1>2, <1>3, <1>4, <2>2 DEF Replaced, Adopted
  <2> QED
    BY <2>1, <2>2
<1>7. \A m \in SetKeys : g.parent[m] = IF m = x THEN h.parent[k] ELSE h.parent[m]
  BY <1>2, <1>3 DEF Replaced, Adopted
<1>8. IsTree(g, new) /\ new[g.root] = N \ {k}
  <2>1. x = h.child[side][k] /\ k \in under[h.root]
    BY DEF x
  <2>2. new = UnderWithout(under, k)
    OBVIOUS
  <2> HIDE DEF new
  <2>3. IsTree(g, new) /\ new[g.root] = under[h.root] \ {k}
    BY ONLY <1>5, <1>6, <1>7, <2>1, <2>2, RemovalKeepsTree, IsTree(h, under), side \in Sides,
       h.child[Other(side)][k] = Nil
  <2> QED
    BY <2>3 DEF N
<1>10. x # Nil => x \in N /\ x # k
  BY <1>12, TreeOfParts DEF x
<1>11. ASSUME NEW m \in SetKeys \ (N \ {k}) PROVE SameFields(g, h, m)
  <2>1. m # x /\ m # h.parent[k]
    BY <1>4, <1>10, KeyFacts
  <2> QED
    BY <1>6, <1>7, <2>1 DEF SameFields
<1>13. g = Unlinked(h, k, side)
  BY DEF Unlinked, g, r, x
<1> QED
  BY <1>8, <1>11, <1>13 DEF N, new

LEMMA RemovedTree ==
  ASSUME NEW h, NEW N, TreeOf(h, N), NEW k \in N, NEW side \in Sides, h.child[Other(side)][k] = Nil
  PROVE  Becomes(Unlinked(h, k, side), h, N \ {k})
<1> PICK under : IsTree(h, under) /\ under[h.root] = N
  BY DEF TreeOf
<1> QED
  BY UnlinkedTree DEF Becomes, TreeOf

-----------------------------------------------------------------------------
(* The tree at every moment.  While a fix runs, its node is in the tree, or *)
(* is the leaf that erase() has unlinked, which still names its parent.     *)
SetInv ==
  /\ SetTypeOK
  /\ TreeOf(heap, elements)
  /\ \A m \in SetKeys \ elements : m # unlinked => Blank(heap, m)
  /\ pc # "crashed" => setSize = Cardinality(elements) + (IF pc = "deletefix" THEN 1 ELSE 0)
  /\ pc \in {"idle", "redred"} => unlinked = Nil
  /\ pc = "redred" => node \in elements
  /\ pc = "deletefix" =>
       /\ unlinked \in SetKeys \ elements
       /\ node \in elements \/ (node = unlinked /\ heap.parent[node] \in elements)

LEMMA ElementsNext ==
  ASSUME NEW N, TreeOf(heap', N)
  PROVE  elements' = N /\ heap' \in Heaps /\ N \subseteq SetKeys
<1>1. {k \in SetKeys : search(heap', k)} = N
  BY ElementsOfTree
<1> QED
  BY <1>1, TreeOfParts DEF elements

LEMMA ElementsFinite ==
  /\ \A N \in SUBSET SetKeys : IsFiniteSet(N) /\ Cardinality(N) \in Nat
  /\ \A N \in SUBSET SetKeys : \A k \in N :
       Cardinality(N \ {k}) = Cardinality(N) - 1 /\ Cardinality(N) - 1 \in Nat
<1>1. ASSUME NEW N \in SUBSET SetKeys PROVE IsFiniteSet(N) /\ Cardinality(N) \in Nat
  BY UnorderedSetAssumption, FS_Subset, FS_CardinalityType
<1>2. ASSUME NEW N \in SUBSET SetKeys, NEW k \in N
      PROVE  Cardinality(N \ {k}) = Cardinality(N) - 1 /\ Cardinality(N) - 1 \in Nat
  <2>1. IsFiniteSet(N) /\ Cardinality(N) \in Nat /\ Cardinality(N \ {k}) \in Nat
    BY <1>1
  <2>2. Cardinality(N \ {k}) = Cardinality(N) - 1
    BY <2>1, FS_RemoveElement
  <2> QED
    BY <2>1, <2>2
<1> QED
  BY <1>1, <1>2

LEMMA EmptyTree == TreeOf(EmptyHeap, {}) /\ \A m \in SetKeys : Blank(EmptyHeap, m)
<1> DEFINE under == [n \in Refs |-> {}]
<1>1. EmptyHeap \in Heaps /\ EmptyHeap.root = Nil
  BY DEF EmptyHeap, Heaps, Refs, Sides, Colors
<1>2. under \in [Refs -> SUBSET SetKeys] /\ under[Nil] = {}
  BY KeyFacts
<1>3. IsTree(EmptyHeap, under)
  BY <1>1, <1>2 DEF IsTree
<1>4. \A m \in SetKeys : Blank(EmptyHeap, m)
  BY DEF EmptyHeap, Blank
<1> QED
  BY <1>1, <1>2, <1>3, <1>4 DEF TreeOf

LEMMA SetInvInit == SetInit => SetInv /\ elements = {}
<1> SUFFICES ASSUME SetInit PROVE SetInv /\ elements = {}
  OBVIOUS
<1>1. heap = EmptyHeap /\ setSize = 0 /\ pc = "idle" /\ node = Nil /\ unlinked = Nil /\ erased = 0
  BY DEF SetInit
<1>2. TreeOf(heap, {}) /\ heap \in Heaps /\ \A m \in SetKeys : Blank(heap, m)
  BY <1>1, EmptyTree, TreeOfParts
<1>3. elements = {}
  BY <1>2, ElementsOfTree DEF elements
<1>4. SetTypeOK
  BY <1>1, <1>2, UnorderedSetAssumption DEF SetTypeOK, Refs
<1> QED
  BY <1>1, <1>2, <1>3, <1>4, FS_EmptySet DEF SetInv

LEMMA InsertFirstKeeps ==
  ASSUME SetInv, NEW k \in SetKeys, InsertFirst(k)
  PROVE  SetInv' /\ k \notin elements /\ elements' = elements \cup {k}
<1> DEFINE g == [heap EXCEPT !.root = k, !.color[k] = "BLACK"]
           under == [n \in Refs |-> IF n = k THEN {k} ELSE {}]
<1>1. /\ pc = "idle" /\ heap.root = Nil /\ heap' = g /\ setSize' = 1
      /\ UNCHANGED <<pc, node, unlinked, erased>>
  BY DEF InsertFirst
<1>2. heap \in Heaps /\ elements = {} /\ unlinked = Nil
  BY <1>1, TreeOfParts DEF SetInv
<1>3. /\ g \in Heaps /\ g.root = k /\ g.parent = heap.parent /\ g.child = heap.child
  BY <1>2, KeyFacts DEF Heaps, Colors
<1>4. \A m \in SetKeys : Blank(heap, m) /\ m # Nil
  BY <1>2, KeyFacts DEF SetInv
<1> HIDE DEF g
<1>5. \A m \in SetKeys : Blank(g, m)
  BY <1>3, <1>4 DEF Blank
<1>6. /\ under \in [Refs -> SUBSET SetKeys] /\ under[Nil] = {} /\ under[k] = {k}
  BY KeyFacts
<1> HIDE DEF under
<1>7. Fits(g, under, k)
  BY <1>3, <1>5, <1>6 DEF Fits, Blank
<1>8. IsTree(g, under)
  BY <1>3, <1>5, <1>6, <1>7 DEF IsTree, Blank
<1>9. TreeOf(heap', {k})
  BY <1>1, <1>3, <1>6, <1>8 DEF TreeOf
<1>10. elements' = {k} /\ heap' \in Heaps
  BY <1>9, ElementsNext
<1>11. SetTypeOK'
  BY <1>1, <1>10 DEF SetInv, SetTypeOK
<1>12. Cardinality({k}) = 1
  BY FS_Singleton
<1>13. \A m \in SetKeys : Blank(heap', m)
  BY <1>1, <1>5
<1>14. SetInv'
  BY <1>1, <1>2, <1>9, <1>10, <1>11, <1>12, <1>13 DEF SetInv
<1> QED
  BY <1>2, <1>10, <1>14

(* insertNode() hangs k below up. *)
Inserted(g, h, side, up, k) ==
  /\ g \in Heaps /\ g.root = h.root
  /\ \A s \in Sides, m \in SetKeys :
       g.child[s][m] = IF s = side /\ m = up THEN k ELSE h.child[s][m]
  /\ \A m \in SetKeys : g.parent[m] = IF m = k THEN up ELSE h.parent[m]
  /\ \A m \in SetKeys : g.color[m] = IF m = k THEN "RED" ELSE h.color[m]

LEMMA InsertedFields ==
  ASSUME NEW h \in Heaps, NEW up \in SetKeys, NEW k \in SetKeys, NEW side \in Sides
  PROVE  Inserted([h EXCEPT !.child[side][up] = k, !.parent[k] = up, !.color[k] = "RED"],
                  h, side, up, k)
<1> DEFINE c == [h EXCEPT !.child[side][up] = k]
           p == [c EXCEPT !.parent[k] = up]
           g == [p EXCEPT !.color[k] = "RED"]
<1>1. k \in Refs /\ up \in Refs
  BY KeyFacts
<1>2. Linked(c, h, side, up, k)
  BY <1>1, SetChild
<1> HIDE DEF c
<1>3. /\ p \in Heaps /\ p.root = c.root /\ p.child = c.child /\ p.color = c.color
      /\ \A m \in SetKeys : p.parent[m] = IF m = k THEN up ELSE c.parent[m]
  BY <1>1, <1>2 DEF Linked, Heaps
<1> HIDE DEF p
<1>4. /\ g \in Heaps /\ g.root = p.root /\ g.child = p.child /\ g.parent = p.parent
      /\ \A m \in SetKeys : g.color[m] = IF m = k THEN "RED" ELSE p.color[m]
  BY <1>3 DEF Heaps, Colors
<1> HIDE DEF g
<1>5. g = [h EXCEPT !.child[side][up] = k, !.parent[k] = up, !.color[k] = "RED"]
  BY DEF c, p, g
<1>6. Inserted(g, h, side, up, k)
  BY <1>2, <1>3, <1>4 DEF Linked, Inserted
<1> QED
  BY <1>5, <1>6

(* insert() hangs the key where the way to it ends. *)
LEMMA InsertBelowTree ==
  ASSUME SetInv, NEW k \in SetKeys, InsertBelow(k)
  PROVE  /\ k \notin elements /\ TreeOf(heap', elements \cup {k})
         /\ heap'.parent[k] \in elements
         /\ \A m \in SetKeys : m # k => heap'.color[m] = heap.color[m] /\ heap'.parent[m] = heap.parent[m]
         /\ heap'.color[k] = "RED" /\ heap'.root = heap.root
         /\ \E side \in Sides :
              /\ heap.child[side][heap'.parent[k]] = Nil
              /\ \A s \in Sides, m \in SetKeys :
                   heap'.child[s][m] = IF s = side /\ m = heap'.parent[k] THEN k ELSE heap.child[s][m]
<1> PICK under : IsTree(heap, under) /\ under[heap.root] = elements
  BY DEF SetInv, TreeOf
<1> DEFINE up == CHOOSE n \in Way(heap, k) : heap.child[Toward(k, n)][n] = Nil
           side == Toward(k, up)
           new == UnderWith(heap, under, k, up)
<1>1. pc = "idle" /\ heap.root # Nil /\ ~search(heap, k) /\ heap' = insertNode(k)
  BY DEF InsertBelow
<1>2. k \notin elements
  BY <1>1 DEF elements
<1>3. OnTheWay(heap, under, k, heap.root, Way(heap, k)) /\ BelongsAt(heap, under, k, heap.root)
  BY <1>1, WayFinds, BelongsAtRoot
<1>4. \E n \in Way(heap, k) : heap.child[Toward(k, n)][n] = Nil
  BY <1>2, <1>3 DEF OnTheWay
<1>5. up \in Way(heap, k) /\ heap.child[Toward(k, up)][up] = Nil
  BY <1>4
<1> HIDE DEF up
<1>6. up \in elements /\ BelongsAt(heap, under, k, up)
  BY <1>3, <1>5 DEF OnTheWay
<1>7. heap \in Heaps /\ up \in SetKeys /\ up # k
  BY <1>2, <1>6, TreeOfParts DEF SetInv
<1>8. side \in Sides /\ Before(side, k, up)
  BY <1>7, TowardIsBefore
<1>9. heap' = [heap EXCEPT !.child[side][up] = k, !.parent[k] = up, !.color[k] = "RED"]
  BY <1>1 DEF insertNode, up
<1>10. heap.child[side][up] = Nil
  BY <1>5
<1> HIDE DEF side
<1>15. Inserted(heap', heap, side, up, k)
  BY <1>7, <1>8, <1>9, InsertedFields
<1>11. /\ heap' \in Heaps /\ heap'.root = heap.root
       /\ \A s \in Sides, m \in SetKeys :
            heap'.child[s][m] = IF s = side /\ m = up THEN k ELSE heap.child[s][m]
       /\ \A m \in SetKeys : heap'.parent[m] = IF m = k THEN up ELSE heap.parent[m]
       /\ \A m \in SetKeys : heap'.color[m] = IF m = k THEN "RED" ELSE heap.color[m]
  BY <1>15 DEF Inserted
<1>12. \A s \in Sides : heap.child[s][k] = Nil
  BY <1>1, <1>2, KeyFacts DEF SetInv, Blank
<1>13. IsTree(heap', new) /\ new[heap'.root] = elements \cup {k}
  <2> HIDE DEF new
  <2>1. /\ IsTree(heap, under) /\ up \in under[heap.root] /\ k \notin under[heap.root]
        /\ new = UnderWith(heap, under, k, up)
    BY <1>2, <1>6 DEF new
  <2>2. IsTree(heap', new) /\ new[heap'.root] = under[heap.root] \cup {k}
    BY ONLY <1>6, <1>8, <1>10, <1>11, <1>12, <2>1, LeafKeepsTree, k \in SetKeys
  <2> QED
    BY <2>2
<1>14. TreeOf(heap', elements \cup {k})
  BY <1>13 DEF TreeOf
<1> QED
  BY <1>2, <1>6, <1>8, <1>10, <1>11, <1>14

LEMMA InsertBelowKeeps ==
  ASSUME SetInv, NEW k \in SetKeys, InsertBelow(k)
  PROVE  SetInv' /\ k \notin elements /\ elements' = elements \cup {k}
<1> DEFINE N == elements \cup {k}
<1>1. /\ k \notin elements /\ TreeOf(heap', N) /\ heap'.parent[k] \in elements
      /\ \A m \in SetKeys : m # k => heap'.parent[m] = heap.parent[m]
      /\ \A s \in Sides, m \in SetKeys : m # heap'.parent[k] => heap'.child[s][m] = heap.child[s][m]
  BY InsertBelowTree
<1>2. elements' = N /\ heap' \in Heaps /\ N \subseteq SetKeys /\ elements \subseteq SetKeys
  BY <1>1, ElementsNext
<1>3. /\ pc = "idle" /\ setSize' = getSize(heap') /\ UNCHANGED <<unlinked, erased>>
      /\ \/ pc' = "redred" /\ node' = k
         \/ UNCHANGED <<pc, node>>
  BY DEF InsertBelow
<1>4. setSize' = Cardinality(N)
  BY <1>1, <1>3, SizeIsCount DEF TreeOf
<1>5. Cardinality(N) \in Nat
  BY <1>2, ElementsFinite
<1>6. unlinked' = Nil
  BY <1>3 DEF SetInv
<1>7. \A m \in SetKeys \ N : Blank(heap', m)
  <2> TAKE m \in SetKeys \ N
  <2>1. m # k /\ m # heap'.parent[k] /\ m # Nil
    BY <1>1, KeyFacts
  <2>2. Blank(heap, m)
    BY <1>3, <1>6, <2>1 DEF SetInv
  <2> QED
    BY <1>1, <2>1, <2>2 DEF Blank
<1> HIDE DEF N
<1>8. SetTypeOK'
  BY <1>2, <1>3, <1>4, <1>5, KeyFacts DEF SetInv, SetTypeOK
<1>9. pc' \in {"idle", "redred"} /\ (pc' = "redred" => node' \in N)
  BY <1>3 DEF N
<1>10. SetInv'
  BY <1>1, <1>2, <1>4, <1>5, <1>6, <1>7, <1>8, <1>9 DEF SetInv
<1> QED
  BY <1>1, <1>2, <1>10 DEF N

LEMMA ClearKeeps ==
  ASSUME SetInv, clear
  PROVE  SetInv' /\ elements' = {}
<1>1. /\ pc = "idle" /\ heap' = EmptyHeap /\ setSize' = 0
      /\ UNCHANGED <<pc, node, unlinked, erased>>
  BY DEF clear
<1>2. elements' = {} /\ heap' \in Heaps /\ TreeOf(heap', {}) /\ \A m \in SetKeys : Blank(heap', m)
  BY <1>1, EmptyTree, ElementsNext
<1>3. SetTypeOK'
  BY <1>1, <1>2 DEF SetInv, SetTypeOK
<1> QED
  BY <1>1, <1>2, <1>3, FS_EmptySet DEF SetInv

-----------------------------------------------------------------------------
(* erase() *)

LEMMA FoundParts ==
  ASSUME SetInv, NEW k \in SetKeys, Found(k)
  PROVE  /\ pc = "idle" /\ k \in elements /\ TreeOf(heap, elements) /\ unlinked = Nil
         /\ heap \in Heaps /\ elements \in SUBSET SetKeys
         /\ setSize = Cardinality(elements)
         /\ \A m \in SetKeys \ elements : Blank(heap, m)
         /\ heap.color[k] \in Colors \cup {Nil} /\ heap.parent[k] \in Refs
         /\ \A s \in Sides : heap.child[s][k] \in Refs
<1>1. pc = "idle" /\ k \in elements /\ unlinked = Nil /\ TreeOf(heap, elements)
  BY DEF Found, elements, SetInv
<1>2. heap \in Heaps /\ elements \in SUBSET SetKeys
  BY <1>1, TreeOfParts
<1>3. /\ heap.color[k] \in Colors \cup {Nil} /\ heap.parent[k] \in Refs
      /\ \A s \in Sides : heap.child[s][k] \in Refs
  BY <1>2, HeapParts
<1>4. \A m \in SetKeys \ elements : Blank(heap, m)
  BY <1>1, KeyFacts DEF SetInv
<1>5. setSize = Cardinality(elements)
  BY <1>1, <1>2, ElementsFinite DEF SetInv
<1> QED
  BY <1>1, <1>2, <1>3, <1>4, <1>5

(* A tree without k, and nothing in the nodes that were not in use. *)
LeavesOut(h, k) == TreeOf(h, elements \ {k}) /\ \A m \in SetKeys \ elements : Blank(h, m)

LEMMA BecomesLeavesOut ==
  ASSUME SetInv, NEW k \in SetKeys, Found(k), NEW h, Becomes(h, heap, elements \ {k})
  PROVE  LeavesOut(h, k)
<1>1. TreeOf(h, elements \ {k})
  BY DEF Becomes
<1>2. ASSUME NEW m \in SetKeys \ elements PROVE Blank(h, m)
  <2>1. Blank(heap, m) /\ SameFields(h, heap, m)
    BY FoundParts DEF Becomes
  <2> QED
    BY <2>1 DEF Blank, SameFields
<1> QED
  BY <1>1, <1>2 DEF LeavesOut

(* The removal is complete: the node is freed. *)
LEMMA ErasedKeeps ==
  ASSUME SetInv, NEW k \in SetKeys, Found(k), ErasedOne,
         NEW h, LeavesOut(h, k), Erased(h, k)
  PROVE  SetInv' /\ elements' = elements \ {k}
<1> DEFINE N == elements \ {k}
<1>1. /\ heap' = Free(h, k) /\ setSize' = setSize - 1 /\ UNCHANGED <<pc, node, unlinked>>
      /\ erased < MaxErased /\ erased' = erased + 1
  BY DEF Erased, ErasedOne
<1>2. /\ TreeOf(heap', N) /\ Blank(heap', k)
      /\ \A m \in SetKeys \ N : m # k => SameFields(heap', h, m)
  BY <1>1, FreedTree DEF LeavesOut
<1>3. elements' = N /\ heap' \in Heaps
  BY <1>2, ElementsNext
<1>4. ASSUME NEW m \in SetKeys \ N, m # k PROVE Blank(heap', m)
  <2>1. Blank(h, m) /\ SameFields(heap', h, m)
    BY <1>2, <1>4 DEF LeavesOut
  <2> QED
    BY <2>1 DEF Blank, SameFields
<1>5. setSize' = Cardinality(N) /\ setSize' \in Nat
  BY <1>1, FoundParts, ElementsFinite
<1>6. pc' = "idle" /\ unlinked' = Nil
  BY <1>1, FoundParts
<1> HIDE DEF N
<1>7. SetTypeOK'
  BY <1>1, <1>3, <1>5, <1>6, UnorderedSetAssumption DEF SetInv, SetTypeOK
<1>8. \A m \in SetKeys \ N : Blank(heap', m)
  BY <1>2, <1>4
<1>9. SetInv'
  BY <1>2, <1>3, <1>5, <1>6, <1>7, <1>8 DEF SetInv
<1> QED
  BY <1>3, <1>9 DEF N

(* The node is unlinked, and deleteFix() is called for its place. *)
LEMMA ToBeFixedKeeps ==
  ASSUME SetInv, NEW k \in SetKeys, Found(k), ErasedOne,
         NEW h, LeavesOut(h, k), NEW at \in SetKeys, ToBeFixed(h, k, at),
         at \in elements \ {k} \/ (at = k /\ h.parent[k] \in elements \ {k})
  PROVE  SetInv' /\ elements' = elements \ {k}
<1> DEFINE N == elements \ {k}
<1>1. /\ heap' = h /\ pc' = "deletefix" /\ node' = at /\ unlinked' = k
      /\ setSize' = setSize /\ erased < MaxErased /\ erased' = erased + 1
  BY DEF ToBeFixed, ErasedOne
<1>2. elements' = N /\ heap' \in Heaps /\ TreeOf(heap', N)
  BY <1>1, ElementsNext DEF LeavesOut
<1>3. \A m \in SetKeys \ N : m # k => Blank(heap', m)
  BY <1>1 DEF LeavesOut
<1>4. setSize' = Cardinality(N) + 1 /\ setSize' \in Nat
  BY <1>1, FoundParts, ElementsFinite
<1>5. k \in SetKeys \ N /\ (at \in N \/ (at = k /\ heap'.parent[k] \in N))
  BY <1>1
<1> HIDE DEF N
<1>6. SetTypeOK'
  BY <1>1, <1>2, <1>4, KeyFacts, UnorderedSetAssumption DEF SetInv, SetTypeOK
<1>7. SetInv'
  BY <1>1, <1>2, <1>3, <1>4, <1>5, <1>6 DEF SetInv
<1> QED
  BY <1>2, <1>7 DEF N

(* The same when the node has been painted blue. *)
LEMMA PaintedToBeFixedKeeps ==
  ASSUME SetInv, NEW k \in SetKeys, Found(k), ErasedOne,
         NEW h, Becomes(h, heap, elements \ {k}), NEW at \in SetKeys,
         ToBeFixed(Paint(h, at, "BLUE"), k, at),
         at \in elements \ {k} \/ (at = k /\ heap.parent[k] \in elements \ {k})
  PROVE  SetInv' /\ elements' = elements \ {k}
<1> DEFINE g == Paint(h, at, "BLUE")
<1>1. Becomes(g, h, elements \ {k})
  BY PaintedTree, KeyFacts DEF Becomes, Colors
<1> HIDE DEF g
<1>2. Becomes(g, heap, elements \ {k})
  BY <1>1, BecomesThen
<1>3. LeavesOut(g, k) /\ g.parent[k] = heap.parent[k]
  BY <1>2, BecomesLeavesOut DEF Becomes, SameFields
<1> QED
  BY <1>3, ToBeFixedKeeps DEF g

LEMMA EraseRootKeeps ==
  ASSUME SetInv, NEW k \in SetKeys, EraseRoot(k)
  PROVE  SetInv' /\ k \in elements /\ elements' = elements \ {k}
<1> DEFINE h == [heap EXCEPT !.root = Nil]
<1>1. Found(k) /\ Children(k) = {} /\ heap.parent[k] = Nil /\ Erased(h, k) /\ ErasedOne
  BY DEF EraseRoot
<1>2. \A s \in Sides : heap.child[s][k] = Nil
  BY <1>1 DEF Children
<1>3. Becomes(Unlinked(heap, k, "left"), heap, elements \ {k})
  BY <1>1, <1>2, RemovedTree, FoundParts, SideFacts
<1>4. Becomes(h, heap, elements \ {k})
  BY <1>1, <1>2, <1>3, SideFacts DEF Unlinked, Adopt, Replace
<1> HIDE DEF h
<1>5. LeavesOut(h, k)
  BY <1>1, <1>4, BecomesLeavesOut
<1> QED
  BY <1>1, <1>5, ErasedKeeps, FoundParts

LEMMA EraseLeafKeeps ==
  ASSUME SetInv, NEW k \in SetKeys, EraseLeaf(k)
  PROVE  SetInv' /\ k \in elements /\ elements' = elements \ {k}
<1> DEFINE h == Replace(heap, k, Nil)
<1>1. /\ Found(k) /\ Children(k) = {} /\ heap.parent[k] # Nil /\ ErasedOne
      /\ ToBeFixed(Paint(h, k, "BLUE"), k, k) \/ Erased(h, k)
  BY DEF EraseLeaf
<1>2. \A s \in Sides : heap.child[s][k] = Nil
  BY <1>1 DEF Children
<1>3. Becomes(Unlinked(heap, k, "left"), heap, elements \ {k})
  BY <1>1, <1>2, RemovedTree, FoundParts, SideFacts
<1>4. Becomes(h, heap, elements \ {k})
  BY <1>2, <1>3, SideFacts DEF Unlinked, Adopt
<1>5. k \in elements /\ heap.parent[k] \in elements \ {k}
  BY <1>1, FoundParts, TreeOfParts
<1> HIDE DEF h
<1>6. CASE ToBeFixed(Paint(h, k, "BLUE"), k, k)
  BY <1>1, <1>4, <1>5, <1>6, PaintedToBeFixedKeeps
<1>7. CASE Erased(h, k)
  BY <1>1, <1>4, <1>5, <1>7, BecomesLeavesOut, ErasedKeeps
<1> QED
  BY <1>1, <1>6, <1>7

LEMMA EraseOneChildKeeps ==
  ASSUME SetInv, NEW k \in SetKeys, EraseOneChild(k)
  PROVE  SetInv' /\ k \in elements /\ elements' = elements \ {k}
<1>1. Found(k) /\ Cardinality(Children(k)) = 1 /\ ErasedOne
  BY DEF EraseOneChild
<1> PICK s \in Children(k) :
       LET child == heap.child[s][k]
           h1 == Adopt(Replace(heap, k, child), child, heap.parent[k])
           h2 == IF heap.parent[k] = Nil THEN Paint(h1, child, "BLACK") ELSE h1
       IN  IF Black(h2, child) THEN ToBeFixed(Paint(h2, child, "BLUE"), k, child) ELSE Erased(h2, k)
  BY DEF EraseOneChild
<1> DEFINE child == heap.child[s][k]
           h1 == Adopt(Replace(heap, k, child), child, heap.parent[k])
           h2 == IF heap.parent[k] = Nil THEN Paint(h1, child, "BLACK") ELSE h1
           N == elements \ {k}
<1>2. ToBeFixed(Paint(h2, child, "BLUE"), k, child) \/ Erased(h2, k)
  OBVIOUS
<1>3. s \in Sides /\ child # Nil
  BY DEF Children
<1>4. heap.child[Other(s)][k] = Nil
  <2> SUFFICES ASSUME heap.child[Other(s)][k] # Nil PROVE FALSE
    OBVIOUS
  <2>1. Other(s) \in Children(k) /\ Other(s) # s
    BY <1>3, SideFacts DEF Children
  <2>2. PICK one : Children(k) = {one}
    <3>1. IsFiniteSet(Children(k))
      <4>1. IsFiniteSet({"left", "right"})
        <5>1. IsFiniteSet({"left"})
          BY FS_Singleton
        <5>2. {"left", "right"} = {"left"} \cup {"right"}
          OBVIOUS
        <5> QED
          BY <5>1, <5>2, FS_AddElement
      <4>2. Children(k) \subseteq {"left", "right"}
        BY DEF Children, Sides
      <4> QED
        BY <4>1, <4>2, FS_Subset
    <3> QED
      BY <1>1, <3>1, FS_Singleton
  <2> QED
    BY <2>1, <2>2
<1>5. k \in elements /\ TreeOf(heap, elements) /\ child \in N /\ child \in SetKeys
  BY <1>1, <1>3, FoundParts, TreeOfParts
<1>6. Becomes(h1, heap, N)
  BY <1>3, <1>4, <1>5, RemovedTree DEF Unlinked
<1> HIDE DEF h1, child
<1>7. Becomes(h2, heap, N)
  <2>1. TreeOf(h1, N) => Becomes(Paint(h1, child, "BLACK"), h1, N)
    BY <1>5, PaintedTree, KeyFacts DEF Colors
  <2> QED
    BY <1>6, <2>1, BecomesThen
<1> HIDE DEF h2, N
<1>8. CASE ToBeFixed(Paint(h2, child, "BLUE"), k, child)
  BY <1>1, <1>5, <1>7, <1>8, PaintedToBeFixedKeeps DEF N
<1>9. CASE Erased(h2, k)
  BY <1>1, <1>5, <1>7, <1>9, BecomesLeavesOut, ErasedKeeps DEF N
<1> QED
  BY <1>2, <1>8, <1>9

(* The successor is unlinked and its key takes the place of k. *)
WithNextName(h, k) ==
  LET s == Leftmost(h, h.child["right"][k])
      rest == h.child["right"][s]
  IN  Renamed(Adopt(Replace(h, s, rest), rest, h.parent[s]), k, s)

LEMMA ReplacedByNext ==
  ASSUME NEW h, NEW N, TreeOf(h, N), NEW k \in N, \A side \in Sides : h.child[side][k] # Nil,
         \A m \in SetKeys \ N : Blank(h, m)
  PROVE  /\ TreeOf(WithNextName(h, k), N \ {k})
         /\ \A m \in SetKeys \ N : Blank(WithNextName(h, k), m)
         /\ WithNextName(h, k).parent[k] \in N \ {k}
<1> PICK under : IsTree(h, under) /\ under[h.root] = N
  BY DEF TreeOf
<1> DEFINE right == h.child["right"][k]
           left == h.child["left"][k]
           s == Leftmost(h, right)
           rest == h.child["right"][s]
           r == Adopt(Replace(h, s, rest), rest, h.parent[s])
           g == Renamed(r, k, s)
           u1 == UnderWithout(under, s)
           u2 == UnderRenamed(u1, k, s)
<1> HIDE DEF right, left, s, rest, r, g, u1, u2
<1>19. /\ right # Nil /\ right \in N /\ right \in under[right]
       /\ under[right] \subseteq under[k] /\ k \notin under[right] /\ left # right
       /\ \A x \in under[right] : Before("right", x, k)
  <2>1. right # Nil
    BY SideFacts DEF right
  <2>2. right # h.child[Other("right")][k]
    BY <2>1, ChildParts, SideFacts DEF right
  <2> QED
    BY <2>1, <2>2, ChildParts, SideFacts DEF right, left
<1>20. left \in N /\ under[left] \subseteq under[k] /\ \A x \in under[left] : Before("left", x, k)
  <2>1. left # Nil
    BY SideFacts DEF left
  <2> QED
    BY <2>1, ChildParts, SideFacts DEF left
<1>1. /\ right # Nil /\ right \in N /\ right \in under[right] /\ k \in SetKeys /\ k \in under[k]
      /\ under[right] \subseteq under[k] /\ k \notin under[right]
      /\ \A x \in under[right] : k < x
      /\ left # right /\ left \in N /\ under[left] \subseteq under[k]
      /\ \A x \in under[left] : x < k
  BY <1>19, <1>20, NodeParts DEF Before
<1>2. s \in under[right] /\ h.child["left"][s] = Nil /\ \A x \in under[right] : s <= x
  BY <1>1, LeftmostIsLeast DEF s
<1>3. s \in N /\ s \in SetKeys /\ s # k /\ k < s /\ s # Nil /\ under[k] \subseteq N /\ s \in under[k]
  BY <1>1, <1>2, NodeParts
<1>4. /\ rest \in Refs /\ h \in Heaps /\ h.parent[s] \in Refs
      /\ rest # Nil => rest \in N /\ rest # s
  BY <1>3, TreeOfParts, HeapParts, SideFacts DEF rest
<1>5. Replaced(Replace(h, s, rest), h, s, rest)
  BY <1>3, <1>4, ReplaceFields
<1>6. Adopted(r, Replace(h, s, rest), rest, h.parent[s])
  BY <1>3, <1>4, <1>5, AdoptFields DEF Replaced, r
<1>7. h.parent[s] # Nil /\ h.parent[s] \in N /\ h.parent[s] # s
      /\ SideOf(h, s, h.parent[s]) \in Sides
      /\ \A sd \in Sides : h.child[sd][h.parent[s]] = s <=> sd = SideOf(h, s, h.parent[s])
  <2>1. h.parent[s] # Nil
    BY <1>1, <1>3, ParentUnder
  <2> QED
    BY <1>3, <2>1, TreeOfParts
<1>8. /\ r \in Heaps /\ r.root = h.root
      /\ \A sd \in Sides, m \in SetKeys :
           r.child[sd][m] = IF m = h.parent[s] /\ h.child[sd][m] = s THEN rest ELSE h.child[sd][m]
      /\ \A m \in SetKeys : r.parent[m] = IF m = rest THEN h.parent[s] ELSE h.parent[m]
  BY <1>5, <1>6, <1>7 DEF Replaced, Adopted
<1>9. IsTree(r, u1) /\ u1[r.root] = N \ {s}
  <2>1. r = Unlinked(h, s, "right") /\ s \in under[h.root] /\ h.child[Other("right")][s] = Nil
    BY <1>2, <1>3, SideFacts DEF r, rest, Unlinked
  <2> QED
    BY <2>1, UnlinkedTree, SideFacts DEF u1
<1>10. \A m \in Refs : u1[m] = under[m] \ {s}
  BY DEF u1, UnderWithout
<1>11. k \in u1[r.root] /\ s \notin u1[r.root]
  BY <1>3, <1>9
<1>12. BelongsAt(r, u1, s, k)
  <2> SUFFICES ASSUME NEW m \in u1[r.root], m # k, k \in u1[m], NEW sd \in Sides, Before(sd, k, m)
               PROVE  Before(sd, s, m)
    BY DEF BelongsAt
  <2>1. m \in N /\ m \in SetKeys /\ k \in under[m] /\ m \in Refs
    BY <1>9, <1>10, TreeOfParts, KeyFacts
  <2>2. k \in under[h.child[sd][m]]
    BY <2>1, ChildParts
  <2>3. h.child[sd][m] # Nil /\ h.child[sd][m] \in N
    <3>1. h.child[sd][m] # Nil
      BY <2>2 DEF IsTree
    <3> QED
      BY <2>1, <3>1, TreeOfParts
  <2>4. s \in under[h.child[sd][m]]
    BY <1>3, <2>2, <2>3, UnderUnder
  <2> QED
    BY <2>1, <2>4, ChildParts
<1>13. \A side \in Sides : \A x \in u1[r.child[side][k]] : Before(side, x, s)
  <2> SUFFICES ASSUME NEW side \in Sides, NEW x \in u1[r.child[side][k]]
               PROVE  Before(side, x, s)
    OBVIOUS
  <2>1. r.child[side][k] \in Refs /\ x \in under[r.child[side][k]] /\ x # s
    <3>1. r.child[side][k] \in Refs
      BY <1>1, <1>8, HeapParts
    <3> QED
      BY <1>10, <3>1
  <2>2. CASE side = "left"
    <3>1. left # s
      <4>1. left \in under[left]
        BY <1>1, NodeParts
      <4> QED
        BY <1>1, <1>3, <4>1, KeyFacts
    <3>2. x \in under[left]
      BY <1>1, <1>8, <2>1, <2>2, <3>1 DEF left
    <3>3. x < k /\ x \in SetKeys
      BY <1>1, <1>3, <3>2, NodeParts
    <3>4. x < s
      BY <1>1, <1>3, <3>3, KeyFacts
    <3> QED
      BY <2>2, <3>4 DEF Before
  <2>3. CASE side = "right"
    <3>1. CASE h.parent[s] = k /\ right = s
      <4>1. x \in under[rest]
        BY <1>1, <1>8, <2>1, <2>3, <3>1 DEF right
      <4> QED
        BY <1>3, <2>3, <4>1, ChildParts DEF rest
    <3>2. CASE ~(h.parent[s] = k /\ right = s)
      <4>1. x \in under[right]
        BY <1>1, <1>8, <2>1, <2>3, <3>2 DEF right
      <4>2. s <= x /\ x \in SetKeys
        BY <1>1, <1>2, <1>3, <4>1, NodeParts
      <4>3. s < x
        BY <1>3, <2>1, <4>2, KeyFacts
      <4> QED
        BY <2>3, <4>3 DEF Before
    <3> QED
      BY <3>1, <3>2
  <2> QED
    BY <2>2, <2>3 DEF Sides
<1>14. IsTree(g, u2) /\ u2[g.root] = ((N \ {s}) \ {k}) \cup {s}
  <2>1. u2 = UnderRenamed(u1, k, s)
    BY DEF u2
  <2>2. IsTree(g, u2) /\ u2[g.root] = (u1[r.root] \ {k}) \cup {s}
    BY ONLY <1>3, <1>9, <1>11, <1>12, <1>13, <2>1, RenamingKeepsTree, g = Renamed(r, k, s) DEF g
  <2> QED
    BY <1>9, <2>2
<1>15. TreeOf(g, N \ {k})
  BY <1>3, <1>14 DEF TreeOf
<1>16. HasNewName(g, r, k, s)
  BY <1>1, <1>3, <1>8, RenamedFields DEF g
<1>17. ASSUME NEW m \in SetKeys \ N PROVE Blank(g, m)
  <2>1. m # k /\ m # s /\ m # rest /\ m # h.parent[s] /\ Blank(h, m) /\ k # Nil
    BY <1>1, <1>3, <1>4, <1>7, KeyFacts
  <2>2. r.parent[m] = Nil /\ \A sd \in Sides : r.child[sd][m] = Nil
    BY <1>8, <2>1 DEF Blank
  <2> QED
    BY <1>16, <2>1, <2>2 DEF HasNewName, Blank
<1>18. g.parent[k] \in N \ {k}
  <2>1. r.parent[s] = h.parent[s]
    BY <1>3, <1>4, <1>8
  <2> QED
    BY <1>3, <1>7, <1>16, <2>1 DEF HasNewName
<1>21. g = WithNextName(h, k)
  BY DEF WithNextName, g, r, rest, s, right
<1> QED
  BY <1>15, <1>17, <1>18, <1>21

LEMMA EraseTwoChildrenKeeps ==
  ASSUME SetInv, NEW k \in SetKeys, EraseTwoChildren(k)
  PROVE  SetInv' /\ k \in elements /\ elements' = elements \ {k}
<1> DEFINE h == WithNextName(heap, k)
<1>1. /\ Found(k) /\ Children(k) = Sides /\ ErasedOne
      /\ Erased(h, k) \/ ToBeFixed(h, k, k)
  BY DEF EraseTwoChildren, WithNextName
<1>2. \A side \in Sides : heap.child[side][k] # Nil
  BY <1>1 DEF Children
<1>3. k \in elements /\ TreeOf(heap, elements) /\ \A m \in SetKeys \ elements : Blank(heap, m)
  BY <1>1, FoundParts
<1>4. LeavesOut(h, k) /\ h.parent[k] \in elements \ {k}
  BY <1>2, <1>3, ReplacedByNext DEF LeavesOut
<1> HIDE DEF h
<1>5. CASE Erased(h, k)
  BY <1>1, <1>3, <1>4, <1>5, ErasedKeeps
<1>6. CASE ToBeFixed(h, k, k)
  BY <1>1, <1>3, <1>4, <1>6, ToBeFixedKeeps
<1> QED
  BY <1>1, <1>5, <1>6

-----------------------------------------------------------------------------
(* The two fixes *)

(* The child of n on the other side has been turned up. *)
Turned(g, h, n, side) ==
  LET up == h.child[Other(side)][n]
      inner == h.child[side][up]
  IN  /\ g \in Heaps /\ g.color = h.color
      /\ g.root = IF h.parent[n] = Nil THEN up ELSE h.root
      /\ \A s \in Sides, m \in SetKeys :
           g.child[s][m] = IF m = n /\ s = Other(side) THEN inner
                           ELSE IF m = up /\ s = side THEN n
                           ELSE IF m = h.parent[n] /\ h.child[s][m] = n THEN up
                           ELSE h.child[s][m]
      /\ \A m \in SetKeys :
           g.parent[m] = IF m = n THEN up ELSE IF m = up THEN h.parent[n]
                         ELSE IF m = inner THEN n ELSE h.parent[m]

LEMMA RotatedFields ==
  ASSUME NEW h, NEW N, TreeOf(h, N), NEW n \in N, NEW side \in Sides, h.child[Other(side)][n] # Nil
  PROVE  Turned(Rotated(h, n, side), h, n, side)
<1> PICK under : IsTree(h, under) /\ under[h.root] = N
  BY DEF TreeOf
<1> DEFINE up == h.child[Other(side)][n]
           inner == h.child[side][up]
           g == Rotated(h, n, side)
<1>1. g = Rotate(h, n, side)
  BY RotatedIs
<1> HIDE DEF g
<1> HIDE DEF up, inner
<1>2. /\ g \in Heaps /\ g.color = h.color
      /\ g.root = IF h.parent[n] = Nil THEN up ELSE h.root
      /\ \A s \in Sides, m \in SetKeys :
           g.child[s][m] = IF m = n /\ s = Other(side) THEN inner
                           ELSE IF m = up /\ s = side THEN n
                           ELSE IF m = h.parent[n] /\ h.child[s][m] = n THEN up
                           ELSE h.child[s][m]
      /\ \A m \in SetKeys :
           g.parent[m] = IF m = n THEN up ELSE IF m = up THEN h.parent[n]
                         ELSE IF m = inner THEN n ELSE h.parent[m]
  <2>1. /\ IsTree(h, under) /\ n \in under[h.root] /\ up = h.child[Other(side)][n] /\ up # Nil
        /\ inner = h.child[side][up]
    BY DEF up, inner
  <2> QED
    BY ONLY <1>1, <2>1, RotateFields, side \in Sides
<1> QED
  BY <1>2 DEF Turned, g, up, inner

LEMMA GrandparentDiffers ==
  ASSUME NEW h, NEW N, TreeOf(h, N), NEW n \in N, NEW p, p = h.parent[n], p # Nil,
         NEW g, g = h.parent[p], g # Nil
  PROVE  p \in N /\ g \in N /\ n # p /\ p # g /\ n # g
<1> PICK under : IsTree(h, under) /\ under[h.root] = N
  BY DEF TreeOf
<1>1. p \in N /\ g \in N /\ n # p /\ p # g
  BY TreeOfParts
<1>2. PICK s \in Sides : h.child[s][p] = n
  BY NodeParts
<1>3. PICK t \in Sides : h.child[t][g] = p
  BY <1>1, NodeParts
<1>4. n \in under[p]
  BY <1>1, <1>2, ChildParts, KeyFacts, TreeOfParts
<1>5. g \notin under[p]
  BY <1>1, <1>3, ChildParts
<1> QED
  BY <1>1, <1>4, <1>5

LEMMA RedRedTurnTree ==
  ASSUME NEW h, NEW N, TreeOf(h, N), NEW n \in N, h.parent[n] # Nil, h.parent[h.parent[n]] # Nil
  PROVE  Becomes(RedRedTurn(h, n).heap, h, N) /\ RedRedTurn(h, n).node \in N
<1> DEFINE p == h.parent[n]
           g == h.parent[p]
           side == SideOf(h, p, g)
           uncle == h.child[Other(side)][g]
           h1 == IF n = h.child[Other(side)][p] THEN Rotated(h, p, side) ELSE h
           top == IF n = h.child[Other(side)][p] THEN n ELSE p
           r1 == Paint(h, g, "RED")
           r2 == Paint(r1, p, "BLACK")
           r3 == Paint(r2, uncle, "BLACK")
           h2 == Rotated(h1, g, Other(side))
           h3 == Swapped(h2, top, g)
<1>1. RedRedTurn(h, n) = IF Red(h, uncle) THEN [heap |-> r3, node |-> g] ELSE [heap |-> h3, node |-> top]
  BY DEF RedRedTurn
<1>2. p \in N /\ g \in N /\ n # p /\ p # g /\ n # g
  BY GrandparentDiffers
<1>3. /\ h \in Heaps /\ side \in Sides /\ Other(side) \in Sides /\ h.child[side][g] = p
      /\ Other(Other(side)) = side /\ side # Other(side) /\ p # Nil /\ n # Nil
      /\ p \in SetKeys /\ g \in SetKeys /\ n \in SetKeys
  BY <1>2, TreeOfParts, SideFacts
<1>4. uncle \in Refs /\ p \in Refs /\ g \in Refs
  BY <1>3, HeapParts, KeyFacts
<1> HIDE DEF p, g, side, uncle, r1, r2, r3, h1, h2, h3, top
<1>5. Becomes(r3, h, N)
  <2>1. Becomes(r1, h, N)
    BY <1>4, PaintedTree DEF r1, Colors
  <2>2. Becomes(r2, h, N)
    BY <1>4, <2>1, PaintedTree, BecomesThen DEF r2, Colors
  <2> QED
    BY <1>4, <2>2, PaintedTree, BecomesThen DEF r3, Colors
<1>6. Becomes(h1, h, N) /\ h1.child[side][g] # Nil /\ top \in N /\ top # g
  <2>1. CASE n = h.child[Other(side)][p]
    <3>1. h1 = Rotated(h, p, side) /\ top = n
      BY <2>1 DEF h1, top
    <3>2. Becomes(h1, h, N) /\ Turned(h1, h, p, side)
      BY <1>2, <1>3, <2>1, <3>1, RotatedTree, RotatedFields
    <3>3. h1.child[side][g] = IF g = n THEN p ELSE IF h.child[side][g] = p THEN n ELSE h.child[side][g]
      BY <1>2, <1>3, <2>1, <3>2 DEF Turned, g
    <3> QED
      BY <1>2, <1>3, <3>1, <3>2, <3>3
  <2>2. CASE n # h.child[Other(side)][p]
    <3>1. h1 = h /\ top = p
      BY <2>2 DEF h1, top
    <3> QED
      BY <1>2, <1>3, <3>1, BecomesOnce
  <2> QED
    BY <2>1, <2>2
<1>7. Becomes(h2, h, N)
  <2>1. TreeOf(h1, N) => Becomes(h2, h1, N)
    BY <1>2, <1>3, <1>6, RotatedTree DEF h2
  <2> QED
    BY <1>6, <2>1, BecomesThen
<1>8. Becomes(h3, h, N)
  <2>1. TreeOf(h2, N) => Becomes(h3, h2, N)
    BY <1>3, <1>6, SwappedTree, TreeOfParts DEF h3
  <2> QED
    BY <1>7, <2>1, BecomesThen
<1> QED
  BY <1>1, <1>2, <1>5, <1>6, <1>8

(* A turn changes no keys and touches nothing outside of the tree. *)
LEMMA TurnKeeps ==
  ASSUME SetInv, TreeOf(heap, elements), UNCHANGED <<setSize, unlinked, erased, pc>>,
         pc \in {"redred", "deletefix"}, Becomes(heap', heap, elements), node' \in elements
  PROVE  SetInv' /\ elements' = elements
<1>1. elements' = elements /\ heap' \in Heaps /\ TreeOf(heap', elements) /\ elements \subseteq SetKeys
  BY ElementsNext DEF Becomes
<1>2. \A m \in SetKeys \ elements : m # unlinked => Blank(heap', m)
  BY DEF SetInv, Becomes, SameFields, Blank
<1>3. SetTypeOK'
  BY <1>1, KeyFacts DEF SetInv, SetTypeOK
<1>4. SetInv'
  BY <1>1, <1>2, <1>3 DEF SetInv
<1> QED
  BY <1>1, <1>4

LEMMA CrashKeeps ==
  ASSUME SetInv, UNCHANGED <<heap, node, setSize, unlinked, erased>>, pc' = "crashed"
  PROVE  SetInv' /\ elements' = elements
<1>1. elements' = elements
  BY DEF elements
<1> QED
  BY <1>1 DEF SetInv, SetTypeOK

LEMMA RedRedKeeps ==
  ASSUME SetInv, RedRed
  PROVE  SetInv' /\ elements' = elements
<1>1. /\ pc = "redred" /\ node \in elements /\ node # heap.root /\ TreeOf(heap, elements)
      /\ UNCHANGED <<setSize, unlinked, erased>>
  BY DEF RedRed, RedRedGoesOn, SetInv
<1>2. heap.parent[node] # Nil
  BY <1>1, TreeOfParts
<1>3. CASE heap.parent[heap.parent[node]] = Nil
  BY <1>1, <1>3, CrashKeeps DEF RedRed
<1>4. CASE heap.parent[heap.parent[node]] # Nil
  <2>1. heap' = RedRedTurn(heap, node).heap /\ node' = RedRedTurn(heap, node).node /\ pc' = pc
    BY <1>4 DEF RedRed
  <2>2. Becomes(heap', heap, elements) /\ node' \in elements
    BY <1>1, <1>2, <1>4, <2>1, RedRedTurnTree
  <2> QED
    BY <1>1, <2>1, <2>2, TurnKeeps
<1> QED
  BY <1>3, <1>4

LEMMA RedRedEndsKeeps ==
  ASSUME SetInv, RedRedEnds
  PROVE  SetInv' /\ elements' = elements
<1>1. /\ pc = "redred" /\ heap' = Paint(heap, heap.root, "BLACK") /\ pc' = "idle" /\ node' = Nil
      /\ UNCHANGED <<setSize, unlinked, erased>> /\ TreeOf(heap, elements) /\ unlinked = Nil
  BY DEF RedRedEnds, SetInv
<1>2. heap.root \in Refs
  BY <1>1, TreeOfParts, HeapParts
<1>3. Becomes(heap', heap, elements)
  BY <1>1, <1>2, PaintedTree DEF Colors
<1>4. elements' = elements /\ heap' \in Heaps /\ TreeOf(heap', elements) /\ elements \subseteq SetKeys
  BY <1>3, ElementsNext DEF Becomes
<1>5. \A m \in SetKeys \ elements : m # unlinked => Blank(heap', m)
  BY <1>3 DEF SetInv, Becomes, SameFields, Blank
<1>6. SetTypeOK'
  BY <1>1, <1>4, KeyFacts DEF SetInv, SetTypeOK
<1>7. SetInv'
  BY <1>1, <1>4, <1>5, <1>6 DEF SetInv
<1> QED
  BY <1>4, <1>7

LEMMA DeleteTurnTree ==
  ASSUME NEW h, NEW N, TreeOf(h, N), NEW n, h.parent[n] \in N,
         h.child[Other(SideOf(h, n, h.parent[n]))][h.parent[n]] # Nil,
         DeleteTurn(h, n).heap # Nil
  PROVE  Becomes(DeleteTurn(h, n).heap, h, N) /\ DeleteTurn(h, n).node \in N
<1> DEFINE p == h.parent[n]
           side == SideOf(h, n, p)
           sib0 == h.child[Other(side)][p]
           q0 == Paint(h, sib0, "BLACK")
           q1 == Paint(q0, p, "RED")
           h1 == IF Red(h, sib0) THEN Rotated(q1, p, side) ELSE h
           sib1 == h1.child[Other(side)][p]
           near == h1.child[side][sib1]
           far == h1.child[Other(side)][sib1]
           q2 == Paint(h1, near, "BLACK")
           q3 == Paint(q2, sib1, "RED")
           h2 == IF Black(h1, far) THEN Rotated(q3, sib1, Other(side)) ELSE h1
           sib2 == h2.child[Other(side)][p]
           far2 == h2.child[Other(side)][sib2]
           q4 == Paint(h2, sib2, h2.color[p])
           q5 == Paint(q4, p, "BLACK")
           q6 == Paint(q5, far2, "BLACK")
           h4 == Rotated(q6, p, side)
<1>1. DeleteTurn(h, n) =
        CASE sib1 = Nil -> [heap |-> Nil, node |-> Nil]
          [] sib1 # Nil /\ Black(h1, near) /\ Black(h1, far) ->
               [heap |-> Paint(h1, sib1, "RED"), node |-> p]
          [] OTHER -> [heap |-> h4, node |-> h4.root]
  BY DEF DeleteTurn
<1>2. /\ h \in Heaps /\ side \in Sides /\ Other(side) \in Sides /\ Other(Other(side)) = side
      /\ p \in SetKeys /\ p \in N /\ p \in Refs /\ p # Nil /\ sib0 # Nil /\ sib0 \in N /\ sib0 \in Refs
  <2>1. side \in Sides
    BY DEF SideOf, Sides
  <2> QED
    BY <2>1, TreeOfParts, SideFacts, KeyFacts
<1>3. sib0 # Nil
  BY <1>2
<1> HIDE DEF p, side, sib0, q0, q1, h1, sib1, near, far, q2, q3, h2, sib2, far2, q4, q5, q6, h4
<1>4. Becomes(h1, h, N)
  <2>1. CASE ~Red(h, sib0)
    BY <2>1, BecomesOnce DEF h1
  <2>2. CASE Red(h, sib0)
    <3>1. Becomes(q0, h, N) /\ Recolored(q0, h)
      BY <1>2, PaintedTree, PaintFields DEF q0, Colors
    <3>2. Becomes(q1, h, N) /\ Recolored(q1, q0)
      <4>1. Becomes(q1, q0, N) /\ Recolored(q1, q0)
        BY <1>2, <3>1, PaintedTree, PaintFields DEF q1, Colors, Becomes, Recolored
      <4> QED
        BY <3>1, <4>1, BecomesThen
    <3>3. q1.child[Other(side)][p] # Nil
      BY <1>3, <3>1, <3>2 DEF Recolored, sib0
    <3>4. Becomes(Rotated(q1, p, side), q1, N)
      BY <1>2, <3>2, <3>3, RotatedTree DEF Becomes
    <3> QED
      BY <2>2, <3>2, <3>4, BecomesThen DEF h1
  <2> QED
    BY <2>1, <2>2
<1>5. /\ sib1 # Nil
      /\ \/ DeleteTurn(h, n) = [heap |-> Paint(h1, sib1, "RED"), node |-> p]
         \/ /\ ~(Black(h1, near) /\ Black(h1, far))
            /\ DeleteTurn(h, n) = [heap |-> h4, node |-> h4.root]
  BY <1>1
<1>6. /\ TreeOf(h1, N) /\ h1 \in Heaps /\ sib1 \in N /\ sib1 \in SetKeys /\ sib1 \in Refs /\ sib1 # p
      /\ h1.parent[sib1] = p /\ near \in Refs /\ far \in Refs
  <2>1. TreeOf(h1, N)
    BY <1>4 DEF Becomes
  <2>2. h1 \in Heaps /\ sib1 \in N /\ sib1 # p /\ h1.parent[sib1] = p
    BY <1>2, <1>5, <2>1, TreeOfParts DEF sib1
  <2>3. sib1 \in SetKeys
    BY <2>1, <2>2, TreeOfParts
  <2> QED
    BY <1>2, <2>1, <2>2, <2>3, HeapParts, KeyFacts DEF near, far
<1>7. CASE DeleteTurn(h, n) = [heap |-> Paint(h1, sib1, "RED"), node |-> p]
  <2>1. Becomes(Paint(h1, sib1, "RED"), h1, N)
    BY <1>6, PaintedTree DEF Colors
  <2>2. Becomes(Paint(h1, sib1, "RED"), h, N)
    BY <1>4, <2>1, BecomesThen
  <2> QED
    BY <1>2, <1>7, <2>2
<1>8. CASE /\ ~(Black(h1, near) /\ Black(h1, far))
           /\ DeleteTurn(h, n) = [heap |-> h4, node |-> h4.root]
  <2>1. Becomes(h2, h, N) /\ h2.child[Other(side)][p] # Nil
    <3>1. CASE ~Black(h1, far)
      BY <1>4, <1>5, <3>1 DEF h2, sib1
    <3>2. CASE Black(h1, far)
      <4>1. near # Nil
        BY <1>8, <3>2 DEF Black
      <4>2. Becomes(q2, h1, N) /\ Recolored(q2, h1)
        BY <1>6, PaintedTree, PaintFields DEF q2, Colors
      <4>3. Becomes(q3, q2, N) /\ Recolored(q3, q2)
        BY <1>6, <4>2, PaintedTree, PaintFields DEF q3, Colors, Becomes, Recolored
      <4>4. q3.child = h1.child /\ q3.parent = h1.parent
        BY <4>2, <4>3 DEF Recolored
      <4>5. q3.child[side][sib1] = near /\ near # Nil /\ q3.child[Other(side)][p] = sib1
            /\ q3.parent[sib1] = p
        BY <1>6, <4>1, <4>4 DEF near, sib1
      <4>6. Becomes(h2, q3, N) /\ Turned(h2, q3, sib1, Other(side))
        BY <1>2, <1>6, <3>2, <4>3, <4>5, RotatedTree, RotatedFields DEF h2, Becomes
      <4>7. Becomes(h2, h, N)
        <5>1. Becomes(q2, h, N)
          BY <1>4, <4>2, BecomesThen
        <5>2. Becomes(q3, h, N)
          BY <5>1, <4>3, BecomesThen
        <5> QED
          BY <4>6, <5>2, BecomesThen
      <4>8. h2.child[Other(side)][p] = IF p = near THEN sib1 ELSE near
        BY <1>2, <1>6, <4>5, <4>6 DEF Turned
      <4> QED
        BY <1>5, <4>1, <4>7, <4>8
    <3> QED
      BY <3>1, <3>2
  <2>2. TreeOf(h2, N) /\ h2 \in Heaps /\ sib2 # Nil /\ sib2 \in N /\ sib2 \in Refs /\ far2 \in Refs
        /\ h2.color[p] \in Colors \cup {Nil}
    <3>1. TreeOf(h2, N) /\ sib2 # Nil
      BY <2>1 DEF sib2, Becomes
    <3>2. h2 \in Heaps /\ sib2 \in N /\ sib2 \in SetKeys
      BY <1>2, <3>1, TreeOfParts DEF sib2
    <3> QED
      BY <1>2, <3>1, <3>2, HeapParts, KeyFacts DEF far2
  <2>3. Becomes(q4, h2, N) /\ Recolored(q4, h2)
    BY <2>2, PaintedTree, PaintFields DEF q4
  <2>4. Becomes(q5, q4, N) /\ Recolored(q5, q4)
    BY <1>2, <2>3, PaintedTree, PaintFields DEF q5, Colors, Becomes, Recolored
  <2>5. Becomes(q6, q5, N) /\ Recolored(q6, q5)
    BY <2>2, <2>4, PaintedTree, PaintFields DEF q6, Colors, Becomes, Recolored
  <2>6. q6.child[Other(side)][p] # Nil
    BY <2>2, <2>3, <2>4, <2>5 DEF Recolored, sib2
  <2>7. Becomes(h4, q6, N)
    BY <1>2, <2>5, <2>6, RotatedTree DEF h4, Becomes
  <2>8. Becomes(h4, h, N)
    <3>1. Becomes(q4, h, N)
      BY <2>1, <2>3, BecomesThen
    <3>2. Becomes(q5, h, N)
      BY <2>4, <3>1, BecomesThen
    <3>3. Becomes(q6, h, N)
      BY <2>5, <3>2, BecomesThen
    <3> QED
      BY <2>7, <3>3, BecomesThen
  <2>9. h4.root \in N
    BY <1>2, <2>8, TreeOfParts DEF Becomes
  <2> QED
    BY <1>8, <2>8, <2>9
<1> QED
  BY <1>5, <1>7, <1>8

LEMMA DeleteFixKeeps ==
  ASSUME SetInv, DeleteFix
  PROVE  SetInv' /\ elements' = elements
<1>1. /\ pc = "deletefix" /\ node # heap.root /\ Sibling # Nil /\ TreeOf(heap, elements)
      /\ UNCHANGED <<setSize, unlinked, erased>>
      /\ node \in elements \/ heap.parent[node] \in elements
  BY DEF DeleteFix, DeleteGoesOn, SetInv
<1>2. heap.parent[node] \in elements
  BY <1>1, TreeOfParts
<1>3. heap.child[Other(SideOf(heap, node, heap.parent[node]))][heap.parent[node]] # Nil
  BY <1>1 DEF Sibling
<1>4. CASE DeleteTurn(heap, node).heap = Nil
  BY <1>1, <1>4, CrashKeeps DEF DeleteFix
<1>5. CASE DeleteTurn(heap, node).heap # Nil
  <2>1. heap' = DeleteTurn(heap, node).heap /\ node' = DeleteTurn(heap, node).node /\ pc' = pc
    BY <1>5 DEF DeleteFix
  <2>2. Becomes(heap', heap, elements) /\ node' \in elements
    BY <1>1, <1>2, <1>3, <1>5, <2>1, DeleteTurnTree
  <2> QED
    BY <1>1, <2>1, <2>2, TurnKeeps
<1> QED
  BY <1>4, <1>5

LEMMA DeleteFixEndsKeeps ==
  ASSUME SetInv, DeleteFixEnds
  PROVE  SetInv' /\ elements' = elements
<1> DEFINE h == Paint(heap, node, "BLACK")
<1>1. /\ pc = "deletefix" /\ heap' = Free(h, unlinked) /\ setSize' = setSize - 1
      /\ pc' = "idle" /\ node' = Nil /\ unlinked' = Nil /\ erased' = erased
      /\ TreeOf(heap, elements) /\ unlinked \in SetKeys \ elements
  BY DEF DeleteFixEnds, SetInv
<1>2. node \in Refs /\ elements \in SUBSET SetKeys
  BY <1>1, TreeOfParts DEF SetInv, SetTypeOK
<1>3. Becomes(h, heap, elements)
  BY <1>1, <1>2, PaintedTree DEF Colors
<1> HIDE DEF h
<1>4. /\ TreeOf(heap', elements) /\ Blank(heap', unlinked)
      /\ \A m \in SetKeys \ elements : m # unlinked => SameFields(heap', h, m)
  BY <1>1, <1>3, FreedTree DEF Becomes
<1>5. elements' = elements /\ heap' \in Heaps
  BY <1>4, ElementsNext
<1>6. ASSUME NEW m \in SetKeys \ elements PROVE Blank(heap', m)
  <2>1. CASE m = unlinked
    BY <1>4, <2>1
  <2>2. CASE m # unlinked
    BY <1>3, <1>4, <2>2 DEF SetInv, Becomes, SameFields, Blank
  <2> QED
    BY <2>1, <2>2
<1>7. setSize' = Cardinality(elements) /\ setSize' \in Nat
  <2>1. setSize = Cardinality(elements) + 1 /\ Cardinality(elements) \in Nat
    BY <1>1, <1>2, ElementsFinite DEF SetInv
  <2> QED
    BY <1>1, <2>1
<1>8. SetTypeOK'
  BY <1>1, <1>5, <1>7, KeyFacts DEF SetInv, SetTypeOK
<1>9. SetInv'
  BY <1>1, <1>4, <1>5, <1>6, <1>7, <1>8 DEF SetInv
<1> QED
  BY <1>5, <1>9

-----------------------------------------------------------------------------
(* What every step does to the keys. *)
LEMMA SetStepKeeps ==
  ASSUME SetInv, [SetNext]_setVars
  PROVE  SetInv' /\ [Contents!Next]_elements
<1> USE DEF Contents!Next, Contents!Add, Contents!Remove, Contents!Clear
<1>1. ASSUME NEW k \in SetKeys, InsertFirst(k) PROVE SetInv' /\ Contents!Next
  BY <1>1, InsertFirstKeeps
<1>2. ASSUME NEW k \in SetKeys, InsertBelow(k) PROVE SetInv' /\ Contents!Next
  BY <1>2, InsertBelowKeeps
<1>3. ASSUME NEW k \in SetKeys, EraseRoot(k) PROVE SetInv' /\ Contents!Next
  BY <1>3, EraseRootKeeps
<1>4. ASSUME NEW k \in SetKeys, EraseLeaf(k) PROVE SetInv' /\ Contents!Next
  BY <1>4, EraseLeafKeeps
<1>5. ASSUME NEW k \in SetKeys, EraseOneChild(k) PROVE SetInv' /\ Contents!Next
  BY <1>5, EraseOneChildKeeps
<1>6. ASSUME NEW k \in SetKeys, EraseTwoChildren(k) PROVE SetInv' /\ Contents!Next
  BY <1>6, EraseTwoChildrenKeeps
<1>7. CASE RedRed
  BY <1>7, RedRedKeeps
<1>8. CASE RedRedEnds
  BY <1>8, RedRedEndsKeeps
<1>9. CASE DeleteFix
  BY <1>9, DeleteFixKeeps
<1>10. CASE DeleteFixEnds
  BY <1>10, DeleteFixEndsKeeps
<1>11. CASE clear
  BY <1>11, ClearKeeps
<1>12. CASE UNCHANGED setVars
  <2>1. UNCHANGED <<heap, setSize, pc, node, unlinked, erased>>
    BY <1>12 DEF setVars
  <2>2. elements' = elements
    BY <2>1 DEF elements
  <2> QED
    BY <2>1, <2>2 DEF SetInv, SetTypeOK
<1> QED
  BY <1>1, <1>2, <1>3, <1>4, <1>5, <1>6, <1>7, <1>8, <1>9, <1>10, <1>11, <1>12 DEF SetNext

(* A loop meets the keys in order: the tree is a search tree whose parent  *)
(* pointers fit, and size() counts its keys.                               *)
LEMMA TreeIsSorted == SetInv => WalkIsSorted
<1> SUFFICES ASSUME SetInv, pc = "idle"
             PROVE  /\ setSize = Cardinality(elements)
                    /\ begin(heap) = From(elements)
                    /\ \A k \in elements : successor(heap, k) = From({other \in elements : other > k})
  BY DEF WalkIsSorted, From
<1>1. PICK under : IsTree(heap, under) /\ under[heap.root] = elements
  BY DEF SetInv, TreeOf
<1>2. /\ begin(heap) = From(under[heap.root])
      /\ \A k \in under[heap.root] : successor(heap, k) = From({x \in under[heap.root] : x > k})
  BY <1>1, TreeIsWalked
<1>3. setSize = Cardinality(elements)
  <2>1. elements \in SUBSET SetKeys
    BY DEF elements
  <2> QED
    BY <2>1, ElementsFinite DEF SetInv
<1> QED
  BY <1>1, <1>2, <1>3

(* The heap is a search tree of the keys that are found, at every moment   *)
(* of every behaviour: between the operations and within the two fixes.    *)
THEOREM SetIsATree == SetSpec => []SetInv
<1>1. SetInit => SetInv
  BY SetInvInit
<1>2. SetInv /\ [SetNext]_setVars => SetInv'
  BY SetStepKeeps
<1> QED
  BY <1>1, <1>2, PTL DEF SetSpec

(* The heap is a heap, and the counters are within their bounds. *)
THEOREM SetTypeCorrect == SetSpec => []SetTypeOK
<1>1. SetInv => SetTypeOK
  BY DEF SetInv
<1> QED
  BY <1>1, SetIsATree, PTL

(* UnorderedSet implements KeySet: insert() adds its key, erase() takes    *)
(* its key away and no other, and rotations and fixes lose none.           *)
THEOREM TreeImplementsSet == SetSpec => SetIsKept
<1>1. SetInit => SetInv /\ Contents!Init
  BY SetInvInit DEF Contents!Init
<1>2. SetInv /\ [SetNext]_setVars => SetInv' /\ [Contents!Next]_elements
  BY SetStepKeeps
<1> QED
  BY <1>1, <1>2, PTL DEF SetSpec, SetIsKept, Contents!Spec

(* The iterator walks the keys in ascending order, each once, after any    *)
(* insertions and removals, and size() is their number.                    *)
THEOREM IteratorIsSorted == SetSpec => []WalkIsSorted
BY TreeIsSorted, SetIsATree, PTL

-----------------------------------------------------------------------------
(* The colours *)

Step(h, n) == IF Red(h, n) THEN 0 ELSE 1

(* Every way from n down to a null meets bh[n] black nodes. *)
Balanced(h, N, bh) ==
  /\ bh \in [Refs -> Nat] /\ bh[Nil] = 0
  /\ \A n \in N : /\ h.color[n] \in {"RED", "BLACK"}
                  /\ \A s \in Sides : bh[n] = bh[h.child[s][n]] + Step(h, n)

(* A red node has a black parent, but for the one node that is looked at. *)
NoTwoReds(h, N, at) ==
  /\ \A n \in N : Red(h, n) /\ h.parent[n] # Nil /\ Red(h, h.parent[n]) => n = at
  /\ Red(h, h.root) => h.root = at

HeightTurns(heights, h) ==
  /\ \A i \in 0..Fuel : heights[i][Nil] = {0}
  /\ \A i \in 1..Fuel, n \in SetKeys :
       heights[i][n] = {height + (IF Red(h, n) THEN 0 ELSE 1) :
                          height \in heights[i - 1][h.child["left"][n]]
                                     \cup heights[i - 1][h.child["right"][n]]}

LEMMA HeightsTakeTurns ==
  ASSUME heap \in Heaps
  PROVE  \E heights : BlackHeights = heights[Fuel][heap.root] /\ HeightTurns(heights, heap)
<1> DEFINE V == [Refs -> SUBSET Nat]
           first == [n \in Refs |-> {0}]
           On(v, n) == IF n = Nil THEN {0}
                       ELSE {height + (IF Red(heap, n) THEN 0 ELSE 1) :
                               height \in v[heap.child["left"][n]] \cup v[heap.child["right"][n]]}
           turn == [v \in V |-> [n \in Refs |-> On(v, n)]]
           Row(v, i) == [n \in Refs |->
             IF n = Nil \/ i = 0 THEN {0}
             ELSE {height + (IF Red(heap, n) THEN 0 ELSE 1) :
                     height \in v[i - 1][heap.child["left"][n]] \cup v[i - 1][heap.child["right"][n]]}]
           Turns(v) == v = [fuel \in 0..Fuel |-> Row(v, fuel)]
           b == CHOOSE v : Turns(v)
<1>1. \A v \in V, n \in Refs : On(v, n) \in SUBSET Nat
  <2> SUFFICES ASSUME NEW v \in V, NEW n \in Refs, n # Nil PROVE On(v, n) \in SUBSET Nat
    OBVIOUS
  <2>1. heap.child["left"][n] \in Refs /\ heap.child["right"][n] \in Refs
    BY HeapParts, KeyFacts, SideFacts
  <2>2. v[heap.child["left"][n]] \cup v[heap.child["right"][n]] \subseteq Nat
    BY <2>1
  <2> QED
    BY <2>2
<1>2. first \in V /\ turn \in [V -> V]
  <2>1. first \in V
    BY HeapParts, KeyFacts
  <2> HIDE DEF On, first
  <2> QED
    BY <1>1, <2>1
<1> HIDE DEF On, first, turn
<1>3. PICK f \in [0..Fuel -> V] : HasTurns(f, Fuel, first, turn)
  BY <1>2, FuelType, TurnByTurn, Zenon
<1>4. Turns(f)
  <2>1. ASSUME NEW i \in 0..Fuel
        PROVE  f[i] = Row(f, i)
    <3>1. CASE i = 0
      BY <1>3, <3>1 DEF first, HasTurns
    <3>2. CASE i # 0
      <4>1. i \in 1..Fuel /\ i - 1 \in 0..Fuel
        BY <3>2, FuelType
      <4>2. f[i] = turn[f[i - 1]] /\ f[i - 1] \in V
        BY <1>3, <4>1 DEF HasTurns
      <4>3. f[i] = [n \in Refs |-> On(f[i - 1], n)]
        BY <4>2 DEF turn
      <4> QED
        BY <3>2, <4>1, <4>3 DEF On
    <3> QED
      BY <3>1, <3>2
  <2> HIDE DEF Row
  <2> QED
    BY <1>3, <2>1
<1>5. Turns(b)
  <2> HIDE DEF Turns
  <2> QED
    BY <1>4, Zenon
<1>6. BlackHeights = b[Fuel][heap.root]
  BY Zenon DEF BlackHeights, Fuel
<1> HIDE DEF b
<1>7. ASSUME NEW i \in 0..Fuel
      PROVE  b[i] = Row(b, i)
  <2> HIDE DEF Row
  <2> QED
    BY <1>5
<1>8. \A i \in 1..Fuel : i \in 0..Fuel /\ i # 0
  BY FuelType
<1> HIDE DEF Turns
<1>9. \A i \in 0..Fuel : b[i][Nil] = {0}
  BY <1>7, KeyFacts
<1>10. ASSUME NEW i \in 1..Fuel, NEW n \in SetKeys
       PROVE  b[i][n] = {height + (IF Red(heap, n) THEN 0 ELSE 1) :
                          height \in b[i - 1][heap.child["left"][n]]
                                     \cup b[i - 1][heap.child["right"][n]]}
  <2>1. b[i] = Row(b, i) /\ i # 0 /\ n # Nil /\ n \in Refs
    <3> HIDE DEF Row
    <3> QED
      BY <1>7, <1>8, KeyFacts
  <2> QED
    BY <2>1
<1>11. HeightTurns(b, heap)
  BY <1>9, <1>10 DEF HeightTurns
<1> QED
  BY <1>6, <1>11

(* Every way down from the root meets as many black nodes. *)
LEMMA HeightsAreEqual ==
  ASSUME TreeOf(heap, elements), NEW bh, Balanced(heap, elements, bh)
  PROVE  BlackHeights = {bh[heap.root]}
<1>1. PICK under : IsTree(heap, under) /\ under[heap.root] = elements
  BY DEF TreeOf
<1>2. heap \in Heaps /\ under[Nil] = {} /\ heap.root \in Refs
      /\ (heap.root # Nil => heap.root \in elements)
  BY <1>1, HeapParts DEF IsTree
<1>3. PICK z : BlackHeights = z[Fuel][heap.root] /\ HeightTurns(z, heap)
  BY <1>2, HeightsTakeTurns
<1> DEFINE S == {i \in 0..Fuel : \A n \in elements \cup {Nil} :
                   CountUnder(under, n) <= i => z[i][n] = {bh[n]}}
<1>4. CountUnder(under, Nil) = 0 /\ \A i \in 0..Fuel : z[i][Nil] = {bh[Nil]}
  <2>1. CountUnder(under, Nil) = 0
    BY <1>2, FS_EmptySet DEF CountUnder
  <2> QED
    BY <1>3, <2>1 DEF HeightTurns, Balanced
<1>5. 0 \in S
  <2>1. \A n \in elements : ~(CountUnder(under, n) <= 0)
    BY <1>1, SizesUnder
  <2>2. 0 \in 0..Fuel
    BY FuelType
  <2> QED
    BY <1>4, <2>1, <2>2
<1>6. ASSUME NEW i \in 1..Fuel, i - 1 \in S
      PROVE  i \in S
  <2>1. i \in 0..Fuel /\ i - 1 \in Nat /\ i \in Nat
    BY FuelType
  <2> SUFFICES ASSUME NEW n \in elements, CountUnder(under, n) <= i
               PROVE  z[i][n] = {bh[n]}
    BY <1>4, <2>1
  <2> DEFINE l == heap.child["left"][n]
             r == heap.child["right"][n]
  <2>2. n \in SetKeys
    BY <1>1, NodeParts
  <2>3. z[i][n] = {height + Step(heap, n) : height \in z[i - 1][l] \cup z[i - 1][r]}
    BY <1>3, <2>2 DEF HeightTurns, Step
  <2>4. l \in elements \cup {Nil} /\ r \in elements \cup {Nil}
    BY <1>1, ChildParts, SideFacts
  <2>5. /\ CountUnder(under, l) <= CountUnder(under, n) - 1 /\ CountUnder(under, l) \in 0..Fuel
        /\ CountUnder(under, r) <= CountUnder(under, n) - 1 /\ CountUnder(under, r) \in 0..Fuel
        /\ CountUnder(under, n) \in 1..Fuel
    BY <1>1, SizesUnder, SideFacts
  <2>6. bh[n] = bh[l] + Step(heap, n) /\ bh[n] = bh[r] + Step(heap, n)
    BY SideFacts DEF Balanced
  <2> HIDE DEF l, r
  <2>7. CountUnder(under, l) <= i - 1 /\ CountUnder(under, r) <= i - 1
    BY <2>1, <2>5, FuelType
  <2>8. z[i - 1][l] = {bh[l]} /\ z[i - 1][r] = {bh[r]}
    BY <1>6, <2>4, <2>7
  <2>9. bh[l] = bh[r]
    <3>1. l \in Refs /\ r \in Refs
      BY <1>2, <2>2, <2>4, HeapParts, SideFacts DEF l, r
    <3>2. bh[l] \in Nat /\ bh[r] \in Nat /\ Step(heap, n) \in Nat
      BY <3>1 DEF Balanced, Step
    <3> QED
      BY <2>6, <3>2
  <2> QED
    BY <2>3, <2>6, <2>8, <2>9
<1> HIDE DEF S
<1>7. Fuel \in S
  BY <1>5, <1>6, FuelType, CountingUp
<1>8. CountUnder(under, heap.root) <= Fuel
  BY <1>1, <1>2, <1>4, SizesUnder, FuelType
<1> QED
  BY <1>2, <1>3, <1>7, <1>8 DEF S

-----------------------------------------------------------------------------
(* What a node of a balanced tree and its children have in common. *)
LEMMA BalanceParts ==
  ASSUME NEW h, NEW N, TreeOf(h, N), NEW bh, Balanced(h, N, bh)
  PROVE  /\ bh \in [Refs -> Nat] /\ bh[Nil] = 0
         /\ \A n \in N : /\ n \in Refs /\ n # Nil /\ bh[n] \in Nat
                         /\ h.color[n] \in {"RED", "BLACK"}
                         /\ Red(h, n) <=> h.color[n] = "RED"
                         /\ ~Red(h, n) <=> h.color[n] = "BLACK"
         /\ \A n \in N, s \in Sides :
              /\ h.child[s][n] \in Refs /\ bh[h.child[s][n]] \in Nat
              /\ Red(h, n) => bh[n] = bh[h.child[s][n]]
              /\ ~Red(h, n) => bh[n] = bh[h.child[s][n]] + 1
<1>1. \A n \in N : n \in SetKeys /\ n \in Refs /\ n # Nil
  BY TreeOfParts, KeyFacts
<1>2. \A n \in N, s \in Sides : h.child[s][n] \in Refs
  BY <1>1, TreeOfParts, HeapParts
<1>3. bh \in [Refs -> Nat] /\ bh[Nil] = 0
  BY DEF Balanced
<1>4. \A n \in N : /\ h.color[n] \in {"RED", "BLACK"}
                   /\ Red(h, n) <=> h.color[n] = "RED"
  BY <1>1 DEF Balanced, Red
<1>5. \A n \in N, s \in Sides : bh[n] = bh[h.child[s][n]] + Step(h, n) /\ bh[h.child[s][n]] \in Nat
  BY <1>2, <1>3 DEF Balanced
<1> QED
  BY <1>1, <1>2, <1>3, <1>4, <1>5 DEF Step

(* A node, its parent, on a side of the grandparent. *)
Chain(h, N, n, p, g, side) ==
  /\ n \in N /\ p \in N /\ g \in N /\ n # p /\ p # g /\ n # g
  /\ h.parent[n] = p /\ h.parent[p] = g
  /\ side \in Sides /\ h.child[side][g] = p

(* The uncle is red: the two and their parent change colours. *)
LEMMA RecoloringBalances ==
  ASSUME NEW h, NEW N, TreeOf(h, N), NEW bh, Balanced(h, N, bh), NEW n, NoTwoReds(h, N, n),
         NEW p, NEW g, NEW side, Chain(h, N, n, p, g, side), Red(h, p),
         NEW u, u = h.child[Other(side)][g], Red(h, u),
         NEW f, Recolored(f, h),
         \A m \in SetKeys : f.color[m] = IF m = u \/ m = p THEN "BLACK"
                                         ELSE IF m = g THEN "RED" ELSE h.color[m]
  PROVE  (\E new : Balanced(f, N, new)) /\ NoTwoReds(f, N, g)
<1> DEFINE new == [bh EXCEPT ![p] = @ + 1, ![u] = @ + 1]
<1>1. /\ n \in N /\ p \in N /\ g \in N /\ n # p /\ p # g /\ n # g
      /\ h.parent[n] = p /\ h.parent[p] = g
      /\ side \in Sides /\ h.child[side][g] = p
      /\ n # Nil /\ p # Nil /\ g # Nil
  BY TreeOfParts DEF Chain
<1>2. side \in Sides /\ Other(side) \in Sides /\ h.child[side][g] = p /\ side # Other(side)
      /\ \A s \in Sides : s = side \/ s = Other(side)
  BY <1>1, TreeOfParts, SideFacts
<1>3. u # Nil /\ u \in N /\ h.parent[u] = g /\ u # g /\ u # p
  <2>1. u # Nil
    BY DEF Red
  <2>2. u \in N /\ h.parent[u] = g /\ u # g /\ u # h.child[Other(Other(side))][g]
    BY <1>1, <1>2, <2>1, TreeOfParts
  <2> QED
    BY <1>2, <2>1, <2>2, SideFacts
<1>4. /\ bh \in [Refs -> Nat] /\ bh[Nil] = 0
      /\ \A m \in N : /\ m \in Refs /\ m # Nil /\ bh[m] \in Nat /\ m \in SetKeys
                      /\ h.color[m] \in {"RED", "BLACK"}
                      /\ Red(h, m) <=> h.color[m] = "RED"
      /\ \A m \in N, s \in Sides :
           /\ h.child[s][m] \in Refs /\ bh[h.child[s][m]] \in Nat
           /\ Red(h, m) => bh[m] = bh[h.child[s][m]]
           /\ ~Red(h, m) => bh[m] = bh[h.child[s][m]] + 1
  BY BalanceParts, TreeOfParts
<1>5. ~Red(h, g)
  BY <1>1, <1>3 DEF NoTwoReds
<1>6. /\ new \in [Refs -> Nat] /\ new[p] = bh[p] + 1 /\ new[u] = bh[u] + 1
      /\ \A m \in Refs : m # p /\ m # u => new[m] = bh[m]
  BY <1>1, <1>3, <1>4
<1> HIDE DEF new
<1>7. new[Nil] = 0
  BY <1>1, <1>3, <1>4, <1>6, KeyFacts
<1>8. /\ f.root = h.root /\ f.child = h.child /\ f.parent = h.parent
      /\ \A m \in N : f.color[m] = IF m = u \/ m = p THEN "BLACK"
                                   ELSE IF m = g THEN "RED" ELSE h.color[m]
  BY <1>4 DEF Recolored
<1>9. \A m \in N : Red(f, m) <=> m # u /\ m # p /\ (m = g \/ Red(h, m))
  BY <1>1, <1>3, <1>4, <1>8 DEF Red
<1>10. \A m \in N, s \in Sides : h.child[s][m] # Nil => h.parent[h.child[s][m]] = m
  BY TreeOfParts
<1>11. ASSUME NEW m \in N, NEW s \in Sides
       PROVE  new[m] = new[f.child[s][m]] + Step(f, m)
  <2> DEFINE c == h.child[s][m]
  <2>1. f.child[s][m] = c /\ c \in Refs /\ bh[c] \in Nat
    BY <1>4, <1>8
  <2>2. c = p \/ c = u => m = g
    <3>1. c # Nil => h.parent[c] = m
      BY <1>10
    <3> HIDE DEF c
    <3> QED
      BY <1>1, <1>3, <3>1
  <2>3. m = g => c = p \/ c = u
    BY <1>2
  <2> HIDE DEF c
  <2>4. (Red(h, m) => bh[m] = bh[c]) /\ (~Red(h, m) => bh[m] = bh[c] + 1)
    BY <1>4 DEF c
  <2>5. CASE m = g
    <3>1. new[m] = bh[m] /\ new[c] = bh[c] + 1 /\ Red(f, m)
      BY <1>1, <1>3, <1>4, <1>6, <1>9, <2>3, <2>5
    <3> QED
      BY <1>5, <2>1, <2>4, <2>5, <3>1, <1>4 DEF Step
  <2>6. CASE m = p \/ m = u
    <3>1. new[m] = bh[m] + 1 /\ new[c] = bh[c] /\ ~Red(f, m) /\ Red(h, m)
      BY <1>1, <1>3, <1>6, <1>9, <2>1, <2>2, <2>6
    <3> QED
      BY <1>4, <2>1, <2>4, <3>1 DEF Step
  <2>7. CASE m # g /\ m # p /\ m # u
    <3>1. new[m] = bh[m] /\ new[c] = bh[c] /\ (Red(f, m) <=> Red(h, m))
      BY <1>4, <1>6, <1>9, <2>1, <2>2, <2>7
    <3> QED
      BY <1>4, <2>1, <2>4, <3>1 DEF Step
  <2> QED
    BY <2>5, <2>6, <2>7
<1>12. Balanced(f, N, new)
  BY <1>4, <1>6, <1>7, <1>8, <1>11 DEF Balanced
<1>13. ASSUME NEW m \in N, Red(f, m), f.parent[m] # Nil, Red(f, f.parent[m])
       PROVE  m = g
  <2> SUFFICES ASSUME m # g PROVE FALSE
    OBVIOUS
  <2>1. h.parent[m] \in N /\ h.parent[m] # Nil /\ m # u /\ m # p /\ Red(h, m)
    BY <1>8, <1>9, <1>13, TreeOfParts
  <2>2. h.parent[m] # u /\ h.parent[m] # p /\ (h.parent[m] = g \/ Red(h, h.parent[m]))
    BY <1>8, <1>9, <1>13, <2>1
  <2>3. h.parent[m] # g
    BY <1>2, <2>1, TreeOfParts
  <2>4. m = n
    BY <2>1, <2>2, <2>3 DEF NoTwoReds
  <2> QED
    BY <1>1, <2>2, <2>4
<1>14. Red(f, f.root) => f.root = g
  <2> SUFFICES ASSUME Red(f, f.root), f.root # g PROVE FALSE
    OBVIOUS
  <2>1. h.root \in N
    BY <1>1, TreeOfParts
  <2>2. Red(h, h.root)
    BY <1>8, <1>9, <2>1
  <2>3. h.root = n
    BY <2>2 DEF NoTwoReds
  <2> QED
    BY <1>1, <2>3, TreeOfParts
<1> QED
  BY <1>12, <1>13, <1>14 DEF NoTwoReds

(* The inner grandchild comes up: both are red, and the heights stay. *)
LEMMA InnerTurnBalances ==
  ASSUME NEW h, NEW N, TreeOf(h, N), NEW bh, Balanced(h, N, bh), NEW n, NoTwoReds(h, N, n),
         NEW p, NEW g, NEW side, Chain(h, N, n, p, g, side), Red(h, p), Red(h, n),
         ~Red(h, g), h.child[Other(side)][p] = n,
         NEW f, Turned(f, h, p, side)
  PROVE  /\ Balanced(f, N, bh) /\ NoTwoReds(f, N, p)
         /\ f.child[side][g] = n /\ f.child[side][n] = p /\ f.color = h.color
         /\ f.child[Other(side)][g] = h.child[Other(side)][g] /\ ~Red(f, f.root)
<1>1. /\ n \in N /\ p \in N /\ g \in N /\ n # p /\ p # g /\ n # g
      /\ h.parent[n] = p /\ h.parent[p] = g
      /\ side \in Sides /\ h.child[side][g] = p
      /\ n # Nil /\ p # Nil /\ g # Nil
  BY TreeOfParts DEF Chain
<1>2. side \in Sides /\ Other(side) \in Sides /\ h.child[side][g] = p /\ side # Other(side)
      /\ \A s \in Sides : h.child[s][g] = p <=> s = side
  BY <1>1, TreeOfParts, SideFacts
<1>3. n \in SetKeys /\ p \in SetKeys /\ g \in SetKeys /\ n # Nil /\ N \subseteq SetKeys
      /\ \A s \in Sides : s = side \/ s = Other(side)
  BY <1>1, <1>2, TreeOfParts, SideFacts
<1> DEFINE inner == h.child[side][n]
<1>4. /\ f.root = h.root /\ f.color = h.color
      /\ \A s \in Sides, m \in SetKeys :
           f.child[s][m] = IF m = p /\ s = Other(side) THEN inner
                           ELSE IF m = n /\ s = side THEN p
                           ELSE IF m = g /\ h.child[s][m] = p THEN n
                           ELSE h.child[s][m]
      /\ \A m \in SetKeys :
           f.parent[m] = IF m = p THEN n ELSE IF m = n THEN g
                         ELSE IF m = inner THEN p ELSE h.parent[m]
  BY <1>1 DEF Turned
<1>5. inner # Nil => inner \in N /\ h.parent[inner] = n /\ inner # n
  BY <1>1, <1>2, TreeOfParts
<1> HIDE DEF inner
<1>6. \A m : Red(f, m) <=> Red(h, m)
  BY <1>4 DEF Red
<1>7. /\ bh \in [Refs -> Nat] /\ bh[Nil] = 0
      /\ \A m \in N, s \in Sides :
           /\ bh[h.child[s][m]] \in Nat
           /\ Red(h, m) => bh[m] = bh[h.child[s][m]]
           /\ ~Red(h, m) => bh[m] = bh[h.child[s][m]] + 1
      /\ \A m \in N : h.color[m] \in {"RED", "BLACK"} /\ bh[m] \in Nat
  BY BalanceParts
<1>8. bh[n] = bh[p] /\ bh[n] = bh[inner]
  BY <1>1, <1>2, <1>7 DEF inner
<1>9. ASSUME NEW m \in N, NEW s \in Sides
      PROVE  bh[m] = bh[f.child[s][m]] + Step(f, m)
  <2>1. bh[f.child[s][m]] = bh[h.child[s][m]]
    <3>1. CASE m = p /\ s = Other(side)
      BY <1>1, <1>3, <1>4, <1>8, <3>1
    <3>2. CASE m = n /\ s = side
      BY <1>1, <1>3, <1>4, <1>8, <3>2 DEF inner
    <3>3. CASE m = g /\ h.child[s][m] = p
      BY <1>1, <1>3, <1>4, <1>8, <3>3
    <3>4. CASE ~(m = p /\ s = Other(side)) /\ ~(m = n /\ s = side) /\ ~(m = g /\ h.child[s][m] = p)
      BY <1>3, <1>4, <3>4
    <3> QED
      BY <3>1, <3>2, <3>3, <3>4
  <2> QED
    BY <1>6, <1>7, <2>1 DEF Step
<1>10. Balanced(f, N, bh)
  BY <1>4, <1>7, <1>9 DEF Balanced
<1>11. ~Red(h, h.root)
  <2>1. h.root # n
    BY <1>1, TreeOfParts
  <2> QED
    BY <2>1 DEF NoTwoReds
<1>12. ASSUME NEW m \in N, Red(f, m), f.parent[m] # Nil, Red(f, f.parent[m]), m # p
       PROVE  FALSE
  <2>1. CASE m = n
    BY <1>1, <1>3, <1>4, <1>6, <1>12, <2>1
  <2>2. CASE m # n /\ m = inner
    <3>1. h.parent[m] = n /\ Red(h, m)
      BY <1>3, <1>5, <1>6, <1>12, <2>2, KeyFacts
    <3> QED
      BY <1>3, <2>2, <3>1 DEF NoTwoReds
  <2>3. CASE m # n /\ m # inner
    <3>1. f.parent[m] = h.parent[m]
      BY <1>3, <1>4, <1>12, <2>3
    <3> QED
      BY <1>6, <1>12, <2>3, <3>1 DEF NoTwoReds
  <2> QED
    BY <2>1, <2>2, <2>3
<1>13. NoTwoReds(f, N, p)
  BY <1>4, <1>6, <1>11, <1>12 DEF NoTwoReds
<1>14. f.child[side][g] = n /\ f.child[side][n] = p /\ f.child[Other(side)][g] = h.child[Other(side)][g]
  BY <1>1, <1>2, <1>3, <1>4
<1> QED
  BY <1>4, <1>6, <1>10, <1>11, <1>13, <1>14

(* The parent comes up over the grandparent, and the two change colours. *)
LEMMA OuterTurnBalances ==
  ASSUME NEW h, NEW N, TreeOf(h, N), NEW bh, Balanced(h, N, bh), NEW g \in N, NEW side \in Sides,
         NEW top, top = h.child[side][g], top # Nil, Red(h, top),
         NEW low, low = h.child[side][top], low # Nil, Red(h, low),
         NoTwoReds(h, N, low), ~Red(h, g), ~Red(h, h.root), ~Red(h, h.child[Other(side)][g]),
         NEW r, Turned(r, h, g, Other(side)),
         NEW f, Recolored(f, r),
         \A m \in SetKeys : f.color[m] = IF m = top THEN r.color[g]
                                         ELSE IF m = g THEN r.color[top] ELSE r.color[m]
  PROVE  (\E new : Balanced(f, N, new)) /\ NoTwoReds(f, N, top)
<1> DEFINE inner == h.child[Other(side)][top]
           new == [bh EXCEPT ![top] = bh[g], ![g] = bh[top]]
<1>1. /\ top \in N /\ h.parent[top] = g /\ top # g /\ top \in SetKeys /\ g \in SetKeys
      /\ Other(side) \in Sides /\ Other(Other(side)) = side /\ side # Other(side)
      /\ \A s \in Sides : s = side \/ s = Other(side)
      /\ N \subseteq SetKeys
  BY TreeOfParts, SideFacts
<1>2. /\ low \in N /\ h.parent[low] = top /\ low # top
      /\ inner # Nil => inner \in N /\ h.parent[inner] = top
  BY <1>1, TreeOfParts
<1>3. low # g /\ low # inner
  <2>1. low # inner
    BY <1>1, TreeOfParts
  <2>2. low # g
    BY <1>1, <1>2, GrandparentDiffers, TreeOfParts
  <2> QED
    BY <2>1, <2>2
<1> HIDE DEF inner
<1>4. /\ r.root = IF h.parent[g] = Nil THEN top ELSE h.root
      /\ r.color = h.color
      /\ \A s \in Sides, m \in SetKeys :
           r.child[s][m] = IF m = g /\ s = side THEN inner
                           ELSE IF m = top /\ s = Other(side) THEN g
                           ELSE IF m = h.parent[g] /\ h.child[s][m] = g THEN top
                           ELSE h.child[s][m]
      /\ \A m \in SetKeys :
           r.parent[m] = IF m = g THEN top ELSE IF m = top THEN h.parent[g]
                         ELSE IF m = inner THEN g ELSE h.parent[m]
  BY <1>1 DEF Turned, inner
<1>5. /\ bh \in [Refs -> Nat] /\ bh[Nil] = 0
      /\ \A m \in N, s \in Sides :
           /\ h.child[s][m] \in Refs /\ bh[h.child[s][m]] \in Nat
           /\ Red(h, m) => bh[m] = bh[h.child[s][m]]
           /\ ~Red(h, m) => bh[m] = bh[h.child[s][m]] + 1
      /\ \A m \in N : /\ h.color[m] \in {"RED", "BLACK"} /\ bh[m] \in Nat /\ m \in Refs /\ m # Nil
                      /\ Red(h, m) <=> h.color[m] = "RED"
                      /\ ~Red(h, m) <=> h.color[m] = "BLACK"
  BY BalanceParts
<1>6. /\ f.root = r.root /\ f.child = r.child /\ f.parent = r.parent
      /\ \A m \in N : f.color[m] = IF m = top THEN "BLACK"
                                   ELSE IF m = g THEN "RED" ELSE h.color[m]
  <2>1. h.color[top] = "RED" /\ h.color[g] = "BLACK"
    BY <1>1, <1>5
  <2> QED
    BY <1>1, <1>4, <2>1 DEF Recolored
<1>7. \A m \in N : Red(f, m) <=> m # top /\ (m = g \/ Red(h, m))
  BY <1>1, <1>5, <1>6 DEF Red
<1>8. bh[top] = bh[low] /\ bh[top] = bh[inner] /\ bh[g] = bh[top] + 1
      /\ bh[h.child[Other(side)][g]] = bh[top] /\ bh[top] \in Nat
  BY <1>1, <1>5 DEF inner
<1>9. new \in [Refs -> Nat] /\ new[top] = bh[g] /\ new[g] = bh[top]
      /\ \A m \in Refs : m # top /\ m # g => new[m] = bh[m]
  BY <1>1, <1>5
<1> HIDE DEF new
<1>10. new[Nil] = 0 /\ inner # top /\ inner # g /\ inner \in Refs
  <2>1. inner # top
    BY <1>1, <1>2, TreeOfParts DEF inner
  <2>2. inner # g
    BY <1>1, <1>2, GrandparentDiffers, TreeOfParts
  <2> QED
    BY <1>1, <1>5, <1>9, <2>1, <2>2, KeyFacts DEF inner
<1>11. \A m \in N, s \in Sides : h.child[s][m] # Nil => h.parent[h.child[s][m]] = m /\ h.child[s][m] # m
  BY TreeOfParts
<1>12. h.parent[g] # top
  BY <1>1, GrandparentDiffers, TreeOfParts
<1>13. ASSUME NEW m \in N, NEW s \in Sides
       PROVE  new[m] = new[f.child[s][m]] + Step(f, m)
  <2>1. m \in SetKeys /\ m \in Refs /\ f.child[s][m] = r.child[s][m]
    BY <1>1, <1>5, <1>6
  <2>2. CASE m = g /\ s = side
    <3>1. f.child[s][m] = inner /\ Red(f, m) /\ new[m] = bh[top] /\ new[inner] = bh[inner]
      BY <1>1, <1>4, <1>7, <1>9, <1>10, <2>1, <2>2
    <3> QED
      BY <1>8, <3>1 DEF Step
  <2>3. CASE m = g /\ s = Other(side)
    <3> DEFINE u == h.child[Other(side)][g]
    <3>1. u # g /\ u # top /\ u \in Refs
      BY <1>1, <1>5, <1>11, TreeOfParts
    <3>2. f.child[s][m] = u
      BY <1>1, <1>4, <1>5, <1>11, <2>1, <2>3
    <3> HIDE DEF u
    <3>3. new[u] = bh[u] /\ Red(f, m) /\ new[m] = bh[top]
      BY <1>1, <1>7, <1>9, <2>3, <3>1
    <3> QED
      BY <1>8, <3>2, <3>3 DEF Step, u
  <2>4. CASE m = top /\ s = Other(side)
    <3>1. f.child[s][m] = g /\ ~Red(f, m) /\ new[m] = bh[g] /\ new[g] = bh[top]
      BY <1>1, <1>4, <1>7, <1>9, <2>1, <2>4
    <3> QED
      BY <1>8, <3>1 DEF Step
  <2>5. CASE m = top /\ s = side
    <3>1. f.child[s][m] = low /\ ~Red(f, m) /\ new[m] = bh[g] /\ new[low] = bh[low]
      BY <1>1, <1>2, <1>3, <1>4, <1>5, <1>7, <1>9, <1>12, <2>1, <2>5
    <3> QED
      BY <1>8, <3>1 DEF Step
  <2>6. CASE m # g /\ m # top
    <3> DEFINE c == h.child[s][m]
    <3>1. new[m] = bh[m] /\ (Red(f, m) <=> Red(h, m)) /\ c \in Refs /\ c # top
      BY <1>1, <1>5, <1>7, <1>9, <1>11, <2>1, <2>6
    <3>2. new[f.child[s][m]] = bh[c]
      <4>1. CASE c = g
        <5>1. f.child[s][m] = top
          BY <1>1, <1>4, <1>11, <2>1, <2>6, <4>1, TreeOfParts
        <5> QED
          BY <1>9, <4>1, <5>1
      <4>2. CASE c # g
        <5>1. f.child[s][m] = c
          BY <1>4, <2>1, <2>6, <4>2
        <5> QED
          BY <1>9, <3>1, <4>2, <5>1
      <4> QED
        BY <4>1, <4>2
    <3> QED
      BY <1>5, <3>1, <3>2 DEF Step
  <2> QED
    BY <1>1, <2>2, <2>3, <2>4, <2>5, <2>6
<1>14. Balanced(f, N, new)
  BY <1>5, <1>6, <1>9, <1>10, <1>13 DEF Balanced
<1>15. ASSUME NEW m \in N, Red(f, m), f.parent[m] # Nil, Red(f, f.parent[m]), m # top
       PROVE  FALSE
  <2>1. m \in SetKeys /\ f.parent[m] = r.parent[m] /\ ~Red(f, top) /\ m # Nil
    BY <1>1, <1>5, <1>6, <1>7
  <2>2. m # g
    BY <1>4, <1>15, <2>1
  <2>3. Red(h, m)
    BY <1>7, <1>15, <2>2
  <2>4. m # inner
    <3>1. CASE m = inner
      <4>1. h.parent[m] = top /\ m # low
        BY <1>2, <1>3, <2>1, <3>1
      <4> QED
        BY <1>1, <1>5, <2>3, <4>1 DEF NoTwoReds
    <3> QED
      BY <3>1
  <2>5. f.parent[m] = h.parent[m] /\ h.parent[m] # Nil /\ h.parent[m] \in N
    BY <1>4, <1>15, <2>1, <2>2, <2>4, TreeOfParts
  <2>6. h.parent[m] # top
    BY <1>15, <2>1, <2>5
  <2>7. h.parent[m] # g
    <3>1. CASE h.parent[m] = g
      <4>1. PICK s \in Sides : h.child[s][g] = m
        BY <2>5, <3>1, TreeOfParts
      <4>2. s = Other(side)
        BY <1>1, <1>15, <4>1
      <4> QED
        BY <2>3, <4>1, <4>2
    <3> QED
      BY <3>1
  <2>8. Red(h, h.parent[m])
    BY <1>7, <1>15, <2>5, <2>7
  <2>9. m = low
    BY <2>3, <2>5, <2>8 DEF NoTwoReds
  <2> QED
    BY <1>2, <2>6, <2>9
<1>16. Red(f, f.root) => f.root = top
  <2> SUFFICES ASSUME Red(f, f.root), f.root # top PROVE FALSE
    OBVIOUS
  <2>1. f.root = h.root /\ h.parent[g] # Nil
    BY <1>4, <1>6
  <2>2. h.root \in N /\ h.root # g
    BY <2>1, TreeOfParts
  <2> QED
    BY <1>7, <2>1, <2>2
<1> QED
  BY <1>14, <1>15, <1>16 DEF NoTwoReds

-----------------------------------------------------------------------------
(* The colours at every moment before the first removal. *)
ColorInv ==
  erased = 0 =>
    /\ pc \in {"idle", "redred"}
    /\ \E bh : Balanced(heap, elements, bh)
    /\ NoTwoReds(heap, elements, IF pc = "redred" THEN node ELSE Nil)

(* One turn of the loop moves the two reds up, or ends them. *)
LEMMA RedRedTurnBalances ==
  ASSUME NEW h, NEW N, TreeOf(h, N), NEW bh, Balanced(h, N, bh), NEW n \in N, NoTwoReds(h, N, n),
         h.parent[n] # Nil, h.parent[h.parent[n]] # Nil, Red(h, n), Red(h, h.parent[n])
  PROVE  /\ \E new : Balanced(RedRedTurn(h, n).heap, N, new)
         /\ NoTwoReds(RedRedTurn(h, n).heap, N, RedRedTurn(h, n).node)
<1> DEFINE p == h.parent[n]
           g == h.parent[p]
           side == SideOf(h, p, g)
           u == h.child[Other(side)][g]
           h1 == IF n = h.child[Other(side)][p] THEN Rotated(h, p, side) ELSE h
           top == IF n = h.child[Other(side)][p] THEN n ELSE p
           r1 == Paint(h, g, "RED")
           r2 == Paint(r1, p, "BLACK")
           r3 == Paint(r2, u, "BLACK")
           h2 == Rotated(h1, g, Other(side))
           h3 == Swapped(h2, top, g)
<1>1. RedRedTurn(h, n) = IF Red(h, u) THEN [heap |-> r3, node |-> g] ELSE [heap |-> h3, node |-> top]
  BY DEF RedRedTurn
<1>2. p \in N /\ g \in N /\ n # p /\ p # g /\ n # g /\ h.parent[n] = p /\ h.parent[p] = g
  BY GrandparentDiffers
<1>3. /\ h \in Heaps /\ side \in Sides /\ Other(side) \in Sides /\ h.child[side][g] = p
      /\ Other(Other(side)) = side /\ side # Other(side) /\ p # Nil /\ n # Nil /\ g # Nil
      /\ p \in SetKeys /\ g \in SetKeys /\ n \in SetKeys
  BY <1>2, TreeOfParts, SideFacts
<1>4. u \in Refs /\ p \in Refs /\ g \in Refs
  BY <1>3, HeapParts, KeyFacts
<1>5. Red(h, p) /\ u = h.child[Other(side)][g]
  OBVIOUS
<1> HIDE DEF p, g, side, u, r1, r2, r3, h1, h2, h3, top
<1>6. Chain(h, N, n, p, g, side)
  BY <1>2, <1>3 DEF Chain
<1>7. ~Red(h, g) /\ ~Red(h, h.root)
  <2>1. ~Red(h, g)
    BY <1>2, <1>3, <1>5 DEF NoTwoReds
  <2>2. h.root # n
    BY <1>2, <1>3, TreeOfParts
  <2> QED
    BY <2>1, <2>2 DEF NoTwoReds
<1>8. CASE Red(h, u)
  <2>1. Recolored(r1, h) /\ \A m \in SetKeys : r1.color[m] = IF m = g THEN "RED" ELSE h.color[m]
    BY <1>3, <1>4, PaintFields DEF r1, Colors
  <2>2. Recolored(r2, r1) /\ \A m \in SetKeys : r2.color[m] = IF m = p THEN "BLACK" ELSE r1.color[m]
    BY <1>4, <2>1, PaintFields DEF r2, Colors, Recolored
  <2>3. Recolored(r3, r2) /\ \A m \in SetKeys : r3.color[m] = IF m = u THEN "BLACK" ELSE r2.color[m]
    BY <1>4, <2>2, PaintFields DEF r3, Colors, Recolored
  <2>4. Recolored(r3, h)
    BY <2>1, <2>2, <2>3 DEF Recolored
  <2>5. \A m \in SetKeys : r3.color[m] = IF m = u \/ m = p THEN "BLACK"
                                         ELSE IF m = g THEN "RED" ELSE h.color[m]
    BY <2>1, <2>2, <2>3
  <2>6. (\E new : Balanced(r3, N, new)) /\ NoTwoReds(r3, N, g)
    BY <1>5, <1>6, <1>8, <2>4, <2>5, RecoloringBalances
  <2> QED
    BY <1>1, <1>8, <2>6
<1>9. CASE ~Red(h, u)
  <2> DEFINE low == IF n = h.child[Other(side)][p] THEN p ELSE n
  <2> HIDE DEF low
  <2>1. /\ TreeOf(h1, N) /\ Balanced(h1, N, bh) /\ NoTwoReds(h1, N, low)
        /\ h1.child[side][g] = top /\ h1.child[side][top] = low /\ h1.color = h.color
        /\ h1.child[Other(side)][g] = u /\ ~Red(h1, h1.root)
        /\ top # Nil /\ low # Nil /\ top \in N /\ low \in N /\ Red(h, top) /\ Red(h, low)
    <3>1. CASE n = h.child[Other(side)][p]
      <4>1. h1 = Rotated(h, p, side) /\ top = n /\ low = p
        BY <3>1 DEF h1, top, low
      <4>2. Becomes(h1, h, N) /\ Turned(h1, h, p, side)
        BY <1>2, <1>3, <3>1, <4>1, RotatedTree, RotatedFields
      <4>3. /\ Balanced(h1, N, bh) /\ NoTwoReds(h1, N, p)
            /\ h1.child[side][g] = n /\ h1.child[side][n] = p /\ h1.color = h.color
            /\ h1.child[Other(side)][g] = h.child[Other(side)][g] /\ ~Red(h1, h1.root)
        BY <1>5, <1>6, <1>7, <3>1, <4>2, InnerTurnBalances
      <4> QED
        BY <1>2, <1>3, <1>5, <4>1, <4>2, <4>3 DEF Becomes
    <3>2. CASE n # h.child[Other(side)][p]
      <4>1. h1 = h /\ top = p /\ low = n
        BY <3>2 DEF h1, top, low
      <4>2. h.child[side][p] = n
        <5>1. PICK s \in Sides : h.child[s][p] = n
          BY <1>2, <1>3, TreeOfParts
        <5> QED
          BY <1>3, <3>2, <5>1, SideFacts
      <4> QED
        BY <1>2, <1>3, <1>5, <1>7, <4>1, <4>2
    <3> QED
      BY <3>1, <3>2
  <2>2. ~Red(h1, g) /\ ~Red(h1, u) /\ Red(h1, top) /\ Red(h1, low)
    BY <1>7, <1>9, <2>1 DEF Red
  <2>3. Turned(h2, h1, g, Other(side)) /\ Becomes(h2, h1, N)
    BY <1>2, <1>3, <2>1, RotatedFields, RotatedTree DEF h2
  <2>4. top # g /\ top \in SetKeys /\ h2 \in Heaps
    BY <1>2, <1>3, <2>1, <2>3, TreeOfParts DEF Becomes
  <2>5. /\ Recolored(h3, h2)
        /\ \A m \in SetKeys : h3.color[m] = IF m = top THEN h2.color[g]
                                            ELSE IF m = g THEN h2.color[top] ELSE h2.color[m]
    BY <1>3, <2>4, SwappedFields DEF h3
  <2>6. (\E new : Balanced(h3, N, new)) /\ NoTwoReds(h3, N, top)
    <3>1. /\ TreeOf(h1, N) /\ Balanced(h1, N, bh) /\ g \in N /\ side \in Sides
          /\ top = h1.child[side][g] /\ top # Nil /\ Red(h1, top)
          /\ low = h1.child[side][top] /\ low # Nil /\ Red(h1, low)
          /\ NoTwoReds(h1, N, low) /\ ~Red(h1, g) /\ ~Red(h1, h1.root)
          /\ ~Red(h1, h1.child[Other(side)][g])
      BY <1>2, <1>3, <2>1, <2>2
    <3> QED
      BY ONLY <2>3, <2>5, <3>1, OuterTurnBalances
  <2> QED
    BY <1>1, <1>9, <2>6
<1> QED
  BY <1>8, <1>9

LEMMA InsertFirstColors ==
  ASSUME SetInv, ColorInv, NEW k \in SetKeys, InsertFirst(k)
  PROVE  ColorInv'
<1>1. /\ pc' = "idle" /\ heap.root = Nil
      /\ heap' = [heap EXCEPT !.root = k, !.color[k] = "BLACK"]
  BY DEF InsertFirst
<1>2. heap \in Heaps /\ elements = {} /\ unlinked = Nil /\ elements' = {k}
  BY <1>1, InsertFirstKeeps, TreeOfParts DEF SetInv, InsertFirst
<1>3. heap'.root = k /\ heap'.parent = heap.parent /\ heap'.child = heap.child
      /\ heap'.color[k] = "BLACK"
  BY <1>1, <1>2 DEF Heaps
<1>4. k # Nil /\ k \in Refs /\ \A s \in Sides : heap'.child[s][k] = Nil
  BY <1>2, <1>3, KeyFacts DEF SetInv, Blank
<1>5. ~Red(heap', k)
  BY <1>3 DEF Red
<1> DEFINE bh == [n \in Refs |-> IF n = k THEN 1 ELSE 0]
<1>6. bh \in [Refs -> Nat] /\ bh[Nil] = 0 /\ bh[k] = 1
  BY <1>4, KeyFacts
<1> HIDE DEF bh
<1>7. Balanced(heap', {k}, bh)
  BY <1>3, <1>4, <1>5, <1>6 DEF Balanced, Step
<1>8. NoTwoReds(heap', {k}, Nil)
  BY <1>3, <1>5 DEF NoTwoReds
<1> QED
  BY <1>1, <1>2, <1>7, <1>8 DEF ColorInv

LEMMA InsertBelowColors ==
  ASSUME SetInv, ColorInv, NEW k \in SetKeys, InsertBelow(k)
  PROVE  ColorInv'
<1> SUFFICES ASSUME erased' = 0
             PROVE  /\ pc' \in {"idle", "redred"}
                    /\ \E bh : Balanced(heap', elements', bh)
                    /\ NoTwoReds(heap', elements', IF pc' = "redred" THEN node' ELSE Nil)
  BY DEF ColorInv
<1> DEFINE N == elements \cup {k}
           p == heap'.parent[k]
<1>1. /\ k \notin elements /\ TreeOf(heap', N) /\ p \in elements /\ elements' = N
      /\ TreeOf(heap, elements)
      /\ \A m \in SetKeys : m # k => heap'.color[m] = heap.color[m] /\ heap'.parent[m] = heap.parent[m]
      /\ heap'.color[k] = "RED" /\ heap'.root = heap.root
  BY InsertBelowTree, InsertBelowKeeps DEF SetInv
<1>2. PICK side \in Sides : /\ heap.child[side][p] = Nil
           /\ \A s \in Sides, m \in SetKeys :
                heap'.child[s][m] = IF s = side /\ m = p THEN k ELSE heap.child[s][m]
  BY InsertBelowTree
<1>3. /\ erased = 0 /\ pc = "idle" /\ heap.root # Nil
      /\ \/ Red(heap, p) /\ pc' = "redred" /\ node' = k
         \/ ~Red(heap, p) /\ pc' = "idle"
  BY DEF InsertBelow
<1>4. PICK bh : Balanced(heap, elements, bh)
  BY <1>3 DEF ColorInv
<1>5. NoTwoReds(heap, elements, Nil)
  BY <1>3 DEF ColorInv
<1> HIDE DEF p
<1>6. /\ bh \in [Refs -> Nat] /\ bh[Nil] = 0
      /\ \A m \in elements : /\ m \in Refs /\ m # Nil /\ m \in SetKeys /\ m # k
                             /\ heap.color[m] \in {"RED", "BLACK"}
      /\ \A m \in elements, s \in Sides :
           heap.child[s][m] \in Refs /\ bh[m] = bh[heap.child[s][m]] + Step(heap, m)
      /\ \A m \in elements, s \in Sides : heap.child[s][m] # Nil => heap.child[s][m] \in elements
  <2>1. \A m \in elements, s \in Sides : heap.child[s][m] \in Refs
    BY <1>1, <1>4, BalanceParts
  <2> QED
    BY <1>1, <1>4, <2>1, TreeOfParts, KeyFacts DEF Balanced
<1>7. \A m \in elements : Red(heap', m) <=> Red(heap, m)
  BY <1>1, <1>6 DEF Red
<1>8. Red(heap', k) /\ k \in Refs /\ k # Nil
  BY <1>1, KeyFacts DEF Red
<1>9. \A s \in Sides : heap.child[s][k] = Nil
  BY <1>1, <1>3, <1>8 DEF SetInv, Blank
<1> DEFINE new == [bh EXCEPT ![k] = 0]
<1>10. new \in [Refs -> Nat] /\ new[k] = 0 /\ new[Nil] = 0 /\ \A m \in Refs : m # k => new[m] = bh[m]
  BY <1>6, <1>8, KeyFacts
<1> HIDE DEF new, N
<1>11. ASSUME NEW m \in N, NEW s \in Sides
       PROVE  new[m] = new[heap'.child[s][m]] + Step(heap', m)
  <2>1. CASE m = k
    <3>1. heap'.child[s][k] = Nil
      BY <1>1, <1>2, <1>9
    <3> QED
      BY <1>8, <1>10, <2>1, <3>1 DEF Step
  <2>2. CASE m # k
    <3>1. m \in elements /\ m \in SetKeys /\ m \in Refs
      BY <1>6, <2>2 DEF N
    <3>2. new[m] = bh[m] /\ Step(heap', m) = Step(heap, m)
      BY <1>7, <1>10, <2>2, <3>1 DEF Step
    <3>3. new[heap'.child[s][m]] = bh[heap.child[s][m]]
      <4>1. CASE s = side /\ m = p
        BY <1>2, <1>6, <1>10, <3>1, <4>1
      <4>2. CASE ~(s = side /\ m = p)
        <5>1. heap'.child[s][m] = heap.child[s][m] /\ heap.child[s][m] # k
          BY <1>1, <1>2, <1>6, <1>8, <3>1, <4>2
        <5> QED
          BY <1>6, <1>10, <3>1, <5>1
      <4> QED
        BY <4>1, <4>2
    <3> QED
      BY <1>6, <3>1, <3>2, <3>3
  <2> QED
    BY <2>1, <2>2
<1>12. \A m \in N : heap'.color[m] \in {"RED", "BLACK"}
  BY <1>1, <1>6 DEF N
<1>13. Balanced(heap', N, new)
  BY <1>10, <1>11, <1>12 DEF Balanced
<1>14. heap.root \in elements
  BY <1>1, <1>3, TreeOfParts
<1>15. ~Red(heap', heap'.root)
  BY <1>1, <1>5, <1>6, <1>7, <1>14 DEF NoTwoReds
<1>16. ASSUME NEW m \in N, Red(heap', m), heap'.parent[m] # Nil, Red(heap', heap'.parent[m])
       PROVE  m = k /\ Red(heap, p)
  <2>1. CASE m = k
    BY <1>1, <1>7, <1>16, <2>1 DEF p
  <2>2. CASE m # k
    <3>1. m \in elements /\ heap'.parent[m] = heap.parent[m]
      BY <1>1, <1>6, <2>2 DEF N
    <3>2. heap.parent[m] \in elements
      BY <1>1, <1>16, <3>1, TreeOfParts
    <3>3. Red(heap, m) /\ Red(heap, heap.parent[m])
      BY <1>7, <1>16, <3>1, <3>2
    <3> QED
      BY <1>5, <1>6, <1>16, <3>1, <3>3 DEF NoTwoReds
  <2> QED
    BY <2>1, <2>2
<1>17. NoTwoReds(heap', N, IF pc' = "redred" THEN node' ELSE Nil)
  BY <1>3, <1>15, <1>16 DEF NoTwoReds
<1> QED
  BY <1>1, <1>3, <1>13, <1>17

(* Before the first removal insert() follows no null grandparent. *)
LEMMA RedRedColors ==
  ASSUME SetInv, ColorInv, RedRed
  PROVE  ColorInv'
<1> SUFFICES ASSUME erased' = 0
             PROVE  /\ pc' \in {"idle", "redred"}
                    /\ \E bh : Balanced(heap', elements', bh)
                    /\ NoTwoReds(heap', elements', IF pc' = "redred" THEN node' ELSE Nil)
  BY DEF ColorInv
<1>1. /\ pc = "redred" /\ node \in elements /\ node # heap.root /\ TreeOf(heap, elements)
      /\ erased = 0 /\ ~Black(heap, node) /\ Red(heap, heap.parent[node])
  BY DEF RedRed, RedRedGoesOn, SetInv
<1>2. NoTwoReds(heap, elements, node)
  BY <1>1 DEF ColorInv
<1>3. PICK bh : Balanced(heap, elements, bh)
  BY <1>1 DEF ColorInv
<1>9. Red(heap, node)
  <2>1. heap.color[node] \in {"RED", "BLACK"} /\ node # Nil
    BY <1>1, <1>3, BalanceParts
  <2> QED
    BY <1>1, <2>1 DEF Black, Red
<1>4. heap.parent[node] # Nil /\ heap.parent[node] \in elements /\ heap.parent[node] # node
  BY <1>1, TreeOfParts
<1>5. heap.parent[heap.parent[node]] # Nil
  <2>1. heap.parent[node] # heap.root
    BY <1>1, <1>2, <1>4, <1>9 DEF NoTwoReds
  <2> QED
    BY <1>1, <1>4, <2>1, TreeOfParts
<1>6. heap' = RedRedTurn(heap, node).heap /\ node' = RedRedTurn(heap, node).node /\ pc' = pc
  BY <1>5 DEF RedRed
<1>7. /\ \E new : Balanced(heap', elements, new)
      /\ NoTwoReds(heap', elements, node')
  BY <1>1, <1>2, <1>3, <1>4, <1>5, <1>6, <1>9, RedRedTurnBalances
<1>8. elements' = elements
  BY RedRedKeeps
<1> QED
  BY <1>1, <1>6, <1>7, <1>8

LEMMA RedRedEndsColors ==
  ASSUME SetInv, ColorInv, RedRedEnds
  PROVE  ColorInv'
<1> SUFFICES ASSUME erased' = 0
             PROVE  /\ pc' \in {"idle", "redred"}
                    /\ \E bh : Balanced(heap', elements', bh)
                    /\ NoTwoReds(heap', elements', IF pc' = "redred" THEN node' ELSE Nil)
  BY DEF ColorInv
<1> DEFINE N == elements
           root == heap.root
<1>1. /\ pc = "redred" /\ node \in N /\ TreeOf(heap, N) /\ erased = 0 /\ pc' = "idle"
      /\ node = root \/ ~Red(heap, node) \/ ~Red(heap, heap.parent[node])
      /\ heap' = Paint(heap, root, "BLACK")
  BY DEF RedRedEnds, RedRedGoesOn, SetInv, Black, Red
<1>2. NoTwoReds(heap, N, node)
  BY <1>1 DEF ColorInv
<1>3. PICK bh : Balanced(heap, N, bh)
  BY <1>1 DEF ColorInv
<1>4. elements' = N
  BY RedRedEndsKeeps
<1>5. /\ heap \in Heaps /\ root \in N /\ root # Nil /\ root \in SetKeys /\ root \in Refs
      /\ heap.parent[root] = Nil /\ N \subseteq SetKeys
      /\ \A n \in N, s \in Sides : heap.child[s][n] # Nil => heap.parent[heap.child[s][n]] = n
  <2>1. root # Nil /\ root \in N
    BY <1>1, TreeOfParts
  <2> QED
    BY <1>1, <2>1, TreeOfParts, KeyFacts
<1> HIDE DEF root, N
<1>6. /\ Recolored(heap', heap)
      /\ \A m \in SetKeys : heap'.color[m] = IF m = root THEN "BLACK" ELSE heap.color[m]
  BY <1>1, <1>5, PaintFields DEF Colors
<1>7. heap'.root = root /\ heap'.child = heap.child /\ heap'.parent = heap.parent
  BY <1>6 DEF Recolored, root
<1>8. /\ bh \in [Refs -> Nat] /\ bh[Nil] = 0
      /\ \A m \in N : /\ m \in Refs /\ m # Nil /\ bh[m] \in Nat /\ m \in SetKeys
                      /\ heap.color[m] \in {"RED", "BLACK"}
      /\ \A m \in N, s \in Sides :
           /\ heap.child[s][m] \in Refs /\ bh[heap.child[s][m]] \in Nat
           /\ Red(heap, m) => bh[m] = bh[heap.child[s][m]]
           /\ ~Red(heap, m) => bh[m] = bh[heap.child[s][m]] + 1
  BY <1>1, <1>3, <1>5, BalanceParts
<1>9. \A m \in N : Red(heap', m) <=> m # root /\ Red(heap, m)
  BY <1>5, <1>6, <1>8 DEF Red
<1> DEFINE new == [bh EXCEPT ![root] = IF Red(heap, root) THEN @ + 1 ELSE @]
<1>10. /\ new \in [Refs -> Nat] /\ new[root] = IF Red(heap, root) THEN bh[root] + 1 ELSE bh[root]
       /\ \A m \in Refs : m # root => new[m] = bh[m]
  BY <1>5, <1>8
<1> HIDE DEF new
<1>11. new[Nil] = 0
  BY <1>5, <1>8, <1>10, KeyFacts
<1>12. ASSUME NEW m \in N, NEW s \in Sides
       PROVE  new[m] = new[heap'.child[s][m]] + Step(heap', m)
  <2> DEFINE c == heap.child[s][m]
  <2>1. heap'.child[s][m] = c /\ c \in Refs /\ bh[c] \in Nat
    BY <1>7, <1>8
  <2>2. c # root
    BY <1>5, <1>8
  <2>3. new[c] = bh[c]
    BY <1>10, <2>1, <2>2
  <2>4. CASE m = root
    <3>1. ~Red(heap', m)
      BY <1>9, <2>4
    <3>2. new[m] = bh[c] + 1
      BY <1>5, <1>8, <1>10, <2>4
    <3> QED
      BY <2>1, <2>3, <3>1, <3>2 DEF Step
  <2>5. CASE m # root
    <3>1. new[m] = bh[m] /\ (Red(heap', m) <=> Red(heap, m))
      BY <1>8, <1>9, <1>10, <2>5
    <3> QED
      BY <1>8, <2>1, <2>3, <3>1 DEF Step
  <2> QED
    BY <2>4, <2>5
<1>13. \A m \in N : heap'.color[m] \in {"RED", "BLACK"}
  BY <1>5, <1>6, <1>8
<1>14. Balanced(heap', N, new)
  BY <1>10, <1>11, <1>12, <1>13 DEF Balanced
<1>15. ASSUME NEW m \in N, Red(heap', m), heap'.parent[m] # Nil, Red(heap', heap'.parent[m])
       PROVE  FALSE
  <2>1. heap.parent[m] # Nil /\ heap.parent[m] \in N /\ m # root
    BY <1>1, <1>5, <1>7, <1>15, TreeOfParts
  <2>2. Red(heap, m) /\ Red(heap, heap.parent[m])
    BY <1>7, <1>9, <1>15, <2>1
  <2>3. m = node
    BY <1>2, <2>1, <2>2 DEF NoTwoReds
  <2> QED
    BY <1>1, <2>1, <2>2, <2>3
<1>16. ~Red(heap', root)
  BY <1>5, <1>9
<1>17. NoTwoReds(heap', N, Nil)
  BY <1>7, <1>15, <1>16 DEF NoTwoReds
<1> QED
  BY <1>1, <1>4, <1>14, <1>17 DEF N

LEMMA EmptyColors == Balanced(EmptyHeap, {}, [n \in Refs |-> 0]) /\ NoTwoReds(EmptyHeap, {}, Nil)
<1>1. [n \in Refs |-> 0] \in [Refs -> Nat] /\ [n \in Refs |-> 0][Nil] = 0
  BY KeyFacts
<1>2. ~Red(EmptyHeap, EmptyHeap.root)
  BY DEF EmptyHeap, Red
<1> QED
  BY <1>1, <1>2 DEF Balanced, NoTwoReds

LEMMA ColorStepKeeps ==
  ASSUME SetInv, ColorInv, [SetNext]_setVars
  PROVE  ColorInv'
<1>1. ASSUME NEW k \in SetKeys, InsertFirst(k) PROVE ColorInv'
  BY <1>1, InsertFirstColors
<1>2. ASSUME NEW k \in SetKeys, InsertBelow(k) PROVE ColorInv'
  BY <1>2, InsertBelowColors
<1>3. erased \in Nat
  BY UnorderedSetAssumption DEF SetInv, SetTypeOK
<1>4. ErasedOne => ColorInv'
  BY <1>3 DEF ErasedOne, ColorInv
<1>5. ASSUME NEW k \in SetKeys,
             EraseRoot(k) \/ EraseLeaf(k) \/ EraseOneChild(k) \/ EraseTwoChildren(k)
      PROVE  ColorInv'
  BY <1>4, <1>5 DEF EraseRoot, EraseLeaf, EraseOneChild, EraseTwoChildren
<1>6. CASE RedRed
  BY <1>6, RedRedColors
<1>7. CASE RedRedEnds
  BY <1>7, RedRedEndsColors
<1>8. CASE DeleteFix
  BY <1>8 DEF DeleteFix, ColorInv
<1>9. CASE DeleteFixEnds
  BY <1>9 DEF DeleteFixEnds, ColorInv
<1>10. CASE clear
  <2>1. heap' = EmptyHeap /\ pc' = "idle" /\ elements' = {}
    BY <1>10, ClearKeeps DEF clear
  <2> QED
    BY <2>1, EmptyColors DEF ColorInv
<1>11. CASE UNCHANGED setVars
  <2>1. UNCHANGED <<heap, setSize, pc, node, unlinked, erased>>
    BY <1>11 DEF setVars
  <2>2. elements' = elements
    BY <2>1 DEF elements
  <2> QED
    BY <2>1, <2>2 DEF ColorInv
<1> QED
  BY <1>1, <1>2, <1>5, <1>6, <1>7, <1>8, <1>9, <1>10, <1>11 DEF SetNext

LEMMA TreeIsRedBlack == SetInv /\ ColorInv => RedBlackUntilErased
<1> SUFFICES ASSUME SetInv, ColorInv, pc = "idle", erased = 0 PROVE RedBlack
  BY DEF RedBlackUntilErased
<1>1. PICK bh : Balanced(heap, elements, bh)
  BY DEF ColorInv
<1>2. NoTwoReds(heap, elements, Nil) /\ TreeOf(heap, elements)
  BY DEF ColorInv, SetInv
<1>3. Cardinality(BlackHeights) = 1
  BY <1>1, <1>2, HeightsAreEqual, FS_Singleton
<1>4. \A n \in elements : /\ n # Nil /\ heap.color[n] \in {"RED", "BLACK"}
  BY <1>1, <1>2, BalanceParts
<1>5. \A n \in elements \cup {Nil} : Black(heap, n) <=> ~Red(heap, n)
  BY <1>4 DEF Black, Red
<1>6. heap.root \in elements \cup {Nil}
  BY <1>2, TreeOfParts
<1>7. Black(heap, heap.root)
  <2>1. ~Red(heap, heap.root)
    BY <1>2 DEF NoTwoReds, Red
  <2> QED
    BY <1>5, <1>6, <2>1
<1>8. ASSUME NEW k \in elements, Red(heap, k), NEW s \in Sides
      PROVE  Black(heap, heap.child[s][k])
  <2> DEFINE c == heap.child[s][k]
  <2>1. c # Nil => c \in elements /\ heap.parent[c] = k
    BY <1>2, TreeOfParts
  <2> HIDE DEF c
  <2>2. ~Red(heap, c)
    BY <1>2, <1>4, <1>8, <2>1 DEF NoTwoReds, Red
  <2> QED
    BY <1>5, <2>1, <2>2 DEF c
<1> QED
  BY <1>3, <1>7, <1>8 DEF RedBlack

LEMMA ColorsAtFirst == SetInit => SetInv /\ ColorInv
<1> SUFFICES ASSUME SetInit PROVE SetInv /\ ColorInv
  OBVIOUS
<1>1. SetInv /\ elements = {} /\ heap = EmptyHeap /\ pc = "idle"
  BY SetInvInit DEF SetInit
<1> QED
  BY <1>1, EmptyColors DEF ColorInv

(* Before the first erase() every insert() leaves a red-black tree; and a   *)
(* loop over the set is in order, whatever was erased.                      *)
THEOREM TreeStaysOrdered == SetSpec => []TreeIsOrdered
<1>1. SetInit => SetInv /\ ColorInv
  BY ColorsAtFirst
<1>2. SetInv /\ ColorInv /\ [SetNext]_setVars => SetInv' /\ ColorInv'
  BY SetStepKeeps, ColorStepKeeps
<1>3. SetInv /\ ColorInv => TreeIsOrdered
  BY TreeIsSorted, TreeIsRedBlack DEF TreeIsOrdered
<1> QED
  BY <1>1, <1>2, <1>3, PTL DEF SetSpec

(* fixRedRedViolation() asks for a grandparent that is not there only when *)
(* an erase() has left a red root or two reds in a row.                    *)
InsertReturns == erased = 0 => pc # "crashed"

(* Before the first erase() no insert() follows a null pointer. *)
THEOREM InsertsReturn == SetSpec => []InsertReturns
<1>1. SetInit => SetInv /\ ColorInv
  BY ColorsAtFirst
<1>2. SetInv /\ ColorInv /\ [SetNext]_setVars => SetInv' /\ ColorInv'
  BY SetStepKeeps, ColorStepKeeps
<1>3. SetInv /\ ColorInv => InsertReturns
  BY DEF ColorInv, InsertReturns
<1> QED
  BY <1>1, <1>2, <1>3, PTL DEF SetSpec

-----------------------------------------------------------------------------
(* The three containers side by side *)

(* Each behaves as if it were alone. *)
LEMMA EachOnItsOwn == Spec => ReservationsSpec /\ TableSpec /\ SetSpec
<1>1. Init => ReservationsInit /\ TableInit /\ SetInit
  BY DEF Init
<1>2. ASSUME [Next]_vars
      PROVE  /\ [ReservationsNext]_reservationVars /\ [TableNext]_tableVars /\ [SetNext]_setVars
  <2>1. CASE ReservationsStep
    BY <2>1 DEF ReservationsStep
  <2>2. CASE TableStep
    BY <2>2 DEF TableStep
  <2>3. CASE SetStep
    BY <2>3 DEF SetStep
  <2>4. CASE UNCHANGED vars
    BY <2>4 DEF vars
  <2> QED
    BY <1>2, <2>1, <2>2, <2>3, <2>4 DEF Next
<1> QED
  BY <1>1, <1>2, PTL DEF Spec, ReservationsSpec, TableSpec, SetSpec

(* Whatever the capacities, keys and bounds, the states of the queue, of   *)
(* the hash table and of the tree are what their types say.                *)
THEOREM LibraryTypes == Spec => []LibraryTypeOK
<1>1. IndInv => ReservationsTypeOK
  BY DEF IndInv
<1>2. ReservationsTypeOK /\ TableTypeOK /\ SetTypeOK => LibraryTypeOK
  BY DEF LibraryTypeOK
<1> QED
  BY <1>1, <1>2, EachOnItsOwn, IndInvHolds, TableTypes, SetTypeCorrect, PTL

=============================================================================
