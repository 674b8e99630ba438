--------------------------- MODULE Reservations ---------------------------
(***************************************************************************)
(* BookReservation.cpp: reservations wait in a circular queue until a copy *)
(* of the book is there, and go to the stack of the fulfilled ones.        *)
(* processReservation() is one step for each turn of its loop.  The queue  *)
(* is CircularQueue.cpp: the vector behind it starts empty and enqueue()   *)
(* appends to it, so that it grows with every element, while the front     *)
(* index goes round within the capacity.  rearIndex is written and never   *)
(* read, and is left out.                                                  *)
(***************************************************************************)
EXTENDS Integers, Sequences

CONSTANTS
  Capacity,        \* of the queue
  Patrons, Books,  \* patron IDs and ISBNs
  MaxBuffer,       \* bound: elements appended to the vector, with a round of rotations
  MaxIndexed,      \* bound: books indexed
  MaxCopies        \* bound: copies of an indexed book

ASSUME CapacityAssumption == Capacity \in Nat \ {0}
ASSUME ReservationsAssumption == MaxBuffer \in Nat /\ MaxIndexed \in Nat /\ MaxCopies \in Nat

VARIABLES
  pendingReservations,
  fulfilledReservations,  \* the stack, its top last
  booksDB,                \* what was indexed, in order
  processing,             \* processReservation() is at work
  rotationCount,
  outcome,                \* of the last processReservation()
  waiting                 \* history: the reservations not fulfilled, in the order
                          \* in which the comment of processReservation() takes them

reservationVars == <<pendingReservations, fulfilledReservations, booksDB, processing, rotationCount,
          outcome, waiting>>

(* The queue *)

NewQueue == [buffer |-> <<>>, frontIndex |-> 0, currentSize |-> 0]

QueuesOf(Elements) ==
  [buffer : Seq(Elements), frontIndex : 0..(Capacity - 1), currentSize : 0..Capacity]

isEmpty(q) == q.currentSize = 0
isFull(q)  == q.currentSize = Capacity

enqueue(q, element) ==
  IF isFull(q) THEN q
  ELSE [q EXCEPT !.buffer = Append(@, element), !.currentSize = @ + 1]

(* Fault: the front index does not go round. *)
dequeueStraight(q) ==
  IF isEmpty(q) THEN q ELSE [q EXCEPT !.frontIndex = @ + 1, !.currentSize = @ - 1]

dequeue(q) ==
  IF isEmpty(q) THEN q
  ELSE [q EXCEPT !.frontIndex = (@ + 1) % Capacity, !.currentSize = @ - 1]

front(q) == q.buffer[(IF isEmpty(q) THEN 0 ELSE q.frontIndex) + 1]

(* What a reader expects to find in the queue: currentSize elements of the *)
(* vector, from the front index on.                                        *)
Pending(q) == SubSeq(q.buffer, q.frontIndex + 1, q.frontIndex + q.currentSize)

(* enqueue() has not been called as often as there are places yet. *)
BeforeFirstLap(q) == Len(q.buffer) < Capacity

-----------------------------------------------------------------------------
(* The reservations *)

ReservationRecords == [patronID : Patrons, bookISBN : Books]

ReservationsTypeOK ==
  /\ pendingReservations \in QueuesOf(ReservationRecords)
  /\ fulfilledReservations \in Seq(ReservationRecords)
  /\ booksDB \in Seq([ISBN : Books, copies : 0..MaxCopies])
  /\ processing \in BOOLEAN
  /\ rotationCount \in 0..Capacity
  /\ outcome \in {"none", "record", "unavailable", "undefined"}
  /\ waiting \in Seq(ReservationRecords)

ReservationsInit ==
  /\ pendingReservations = NewQueue
  /\ fulfilledReservations = <<>>
  /\ booksDB = <<>>
  /\ processing = FALSE
  /\ rotationCount = 0
  /\ outcome = "none"
  /\ waiting = <<>>

indexBookToDB(book, copies) ==
  /\ ~processing /\ Len(booksDB) < MaxIndexed
  /\ booksDB' = Append(booksDB, [ISBN |-> book, copies |-> copies])
  /\ UNCHANGED <<pendingReservations, fulfilledReservations, processing, rotationCount,
                 outcome, waiting>>

(* booksDB is public: a copy comes back. *)
Restock(i) ==
  /\ ~processing /\ booksDB[i].copies < MaxCopies
  /\ booksDB' = [booksDB EXCEPT ![i].copies = @ + 1]
  /\ UNCHANGED <<pendingReservations, fulfilledReservations, processing, rotationCount,
                 outcome, waiting>>

enqueueReservation(reservation) ==
  /\ ~processing /\ Len(pendingReservations.buffer) < MaxBuffer
  /\ pendingReservations.currentSize < Capacity
  /\ pendingReservations' = enqueue(pendingReservations, reservation)
  /\ waiting' = Append(waiting, reservation)
  /\ UNCHANGED <<fulfilledReservations, booksDB, processing, rotationCount, outcome>>

processReservation ==
  /\ ~processing
  /\ Len(pendingReservations.buffer) + pendingReservations.currentSize <= MaxBuffer
  /\ IF isEmpty(pendingReservations)
     THEN outcome' = "unavailable" /\ UNCHANGED processing
     ELSE outcome' = "none" /\ processing' = TRUE
  /\ rotationCount' = 0
  /\ UNCHANGED <<pendingReservations, fulfilledReservations, booksDB, waiting>>

Ends(result) == processing' = FALSE /\ outcome' = result

Available(db, reservation) ==
  {i \in 1..Len(db) : db[i].ISBN = reservation.bookISBN /\ db[i].copies >= 1}

Fulfil ==
  /\ processing
  /\ LET current == front(pendingReservations)
     IN  \E i \in Available(booksDB, current) :
           /\ \A j \in Available(booksDB, current) : i <= j
           /\ booksDB' = [booksDB EXCEPT ![i].copies = @ - 1]
           /\ fulfilledReservations' = Append(fulfilledReservations, current)
  /\ pendingReservations' = dequeue(pendingReservations)
  /\ waiting' = Tail(waiting)
  /\ Ends("record")
  /\ UNCHANGED rotationCount

(* Fault: the front is a reference that is read when the queue has moved on. *)
ToTheEndByReference(q) == enqueue(dequeue(q), front(dequeue(q)))

ToTheEnd(q) == dequeue(enqueue(q, front(q)))

(* The front of the queue, for which no copy is there, goes to its end. *)
GoesRound ==
  /\ processing
  /\ Available(booksDB, front(pendingReservations)) = {}
  /\ pendingReservations' = ToTheEnd(pendingReservations)
  /\ rotationCount' = rotationCount + 1
  /\ waiting' = Append(Tail(waiting), Head(waiting))
  /\ UNCHANGED <<fulfilledReservations, booksDB>>

(* The loop goes on, unless it has lost its only reservation: it ends then, *)
(* and there is no return statement.                                        *)
GoesOn ==
  IF isEmpty(pendingReservations') THEN Ends("undefined") ELSE UNCHANGED <<processing, outcome>>

Postpone ==
  /\ GoesRound
  /\ IF rotationCount' = pendingReservations'.currentSize THEN Ends("unavailable") ELSE GoesOn

ReservationsNext ==
  \/ \E book \in Books, copies \in 0..MaxCopies : indexBookToDB(book, copies)
  \/ \E i \in 1..Len(booksDB) : Restock(i)
  \/ \E reservation \in ReservationRecords : enqueueReservation(reservation)
  \/ processReservation
  \/ Fulfil \/ Postpone

ReservationsSpec == ReservationsInit /\ [][ReservationsNext]_reservationVars

-----------------------------------------------------------------------------
(* Until the vector has been appended to Capacity times, the elements from *)
(* the front index on are the reservations that wait, in the order in      *)
(* which processReservation() takes them; the front index goes round       *)
(* afterwards and meets what was dequeued long ago.                        *)
QueueUntilFirstLap ==
  BeforeFirstLap(pendingReservations) => Pending(pendingReservations) = waiting

(* buffer.at(frontIndex) never throws: the front of a queue that is not    *)
(* empty has been appended.                                                *)
FrontInBuffer ==
  ~isEmpty(pendingReservations)
    => pendingReservations.frontIndex < Len(pendingReservations.buffer)

(* processReservation() stops: while it is at work it has rotated less     *)
(* often than there are reservations, although a full queue loses one on   *)
(* the way.                                                                *)
RotationsEnd == processing => rotationCount < pendingReservations.currentSize

(* processReservation() meets those who wait in their order, until the     *)
(* queue's first lap, and its loop comes to an end, always.                *)
QueueServes == QueueUntilFirstLap /\ RotationsEnd

(* Until the first lap, ReservationRecordUnavailable is thrown only when   *)
(* no reservation that waits could have been fulfilled.                    *)
UnavailableIsTrue ==
  [][(outcome' = "unavailable" /\ processing /\ BeforeFirstLap(pendingReservations'))
       => \A i \in 1..Len(waiting') : Available(booksDB', waiting'[i]) = {}]_reservationVars

=============================================================================
