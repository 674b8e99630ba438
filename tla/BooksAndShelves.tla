------------------------- MODULE BooksAndShelves ---------------------------
(***************************************************************************)
(* What the programs of COMP8042 compute from the books of a library:      *)
(* recommendations (assignment 2) and shelves (assignment 3).              *)
(*                                                                         *)
(* BookRecommendation.cpp: who borrowed what, the users nearest to one by  *)
(* the books they share, and the books of these that the one has not had.  *)
(* A book is its hash, by which the code compares books; a user is the     *)
(* bucket of its name, and the table is walked in that order.              *)
(***************************************************************************)
EXTENDS Integers, SequencesExt, FiniteSets, FiniteSetsExt

CONSTANTS Users, Titles

ASSUME RecommendationAssumption == Users \subseteq Nat /\ Titles \subseteq Nat

VARIABLES
  userBorrowedBooks,     \* the sets of books, by user
  bookBorrowedByUsers,   \* titles that have an entry; nothing is put into one
  alone                  \* the sort has read behind an empty vector

recommendationVars == <<userBorrowedBooks, bookBorrowedByUsers, alone>>

RecommendationTypeOK ==
  /\ DOMAIN userBorrowedBooks \subseteq Users
  /\ \A u \in DOMAIN userBorrowedBooks : userBorrowedBooks[u] \subseteq Titles
  /\ bookBorrowedByUsers \subseteq Titles
  /\ alone \in BOOLEAN

RecommendationInit ==
  /\ userBorrowedBooks = << >>
  /\ bookBorrowedByUsers = {}
  /\ alone = FALSE

Ascending(S) == SetToSortSeq(S, <)
BooksOf(u) == IF u \in DOMAIN userBorrowedBooks THEN userBorrowedBooks[u] ELSE {}
Others(targetUserID) == DOMAIN userBorrowedBooks \ {targetUserID}

-----------------------------------------------------------------------------
(* Stack.cpp.  top and pop of an empty stack throw; nothing here does that.*)

push(stack, element) == Append(stack, element)
pop(stack) == Front(stack)
top(stack) == Last(stack)

-----------------------------------------------------------------------------
(* The books both have had over the books either has: the numerator and    *)
(* the denominator, which is 0 (and the quotient not a number) when        *)
(* neither has had any.                                                    *)
calculateSimilarity(userID1, userID2) ==
  LET intersectionSize == Cardinality(BooksOf(userID1) \cap BooksOf(userID2))
  IN <<intersectionSize,
       Cardinality(BooksOf(userID1)) + Cardinality(BooksOf(userID2)) - intersectionSize>>

Exceeds(s, t) == s[2] # 0 /\ t[2] # 0 /\ s[1] * t[2] > t[1] * s[2]

(* One comparison of the bubble sort.                                      *)
SwapIfGreater(vec, j) ==
  IF Exceeds(vec[j].similarity, vec[j + 1].similarity)
  THEN [vec EXCEPT ![j] = vec[j + 1], ![j + 1] = vec[j]]
  ELSE vec
BubbleSorted(vec) ==
  FoldLeft(SwapIfGreater, vec,
           FlattenSeq([i \in 1 .. Len(vec) |-> [j \in 1 .. Len(vec) - i |-> j]]))

SimilarityVec(targetUserID) ==
  FoldLeft(LAMBDA vec, u : Append(vec, [user_id |-> u, similarity |-> calculateSimilarity(targetUserID, u)]),
           << >>, Ascending(Others(targetUserID)))

(* The stack holds the users with something in common, the nearest on top; *)
(* as many are taken from it as asked for, all of them when none is.       *)
getNeighborhood(targetUserID, neighborhoodSize) ==
  LET Related(s) == Exceeds(s.similarity, <<0, 1>>)
      related == SelectSeq(BubbleSorted(SimilarityVec(targetUserID)), Related)
      neighborStack == FoldLeft(LAMBDA stack, s : push(stack, s.user_id), << >>, related)
      taken[stack \in {SubSeq(neighborStack, 1, n) : n \in 0 .. Len(neighborStack)}] ==
        IF stack = << >> \/ (Len(neighborStack) - Len(stack) = neighborhoodSize /\ stack # neighborStack)
        THEN {}
        ELSE {top(stack)} \cup taken[pop(stack)]
  IN taken[neighborStack]

(* A book the target has had is popped; any other is kept, and popped, in  *)
(* a pass that does not follow one that popped.  The flag starts set, so   *)
(* the first pass may do nothing.                                          *)
getRecommendedBooks(neighborhood, targetUserID) ==
  LET users == Ascending(neighborhood \ {targetUserID})
      bookStack == FoldLeft(push, << >>,
                     FlattenSeq([i \in 1 .. Len(users) |-> Ascending(BooksOf(users[i]))]))
      kept[n \in 0 .. Len(bookStack), flag \in BOOLEAN] ==
        IF n = 0 THEN {}
        ELSE IF top(SubSeq(bookStack, 1, n)) \in BooksOf(targetUserID) THEN kept[n - 1, FALSE]
        ELSE IF flag THEN kept[n, FALSE]
        ELSE {bookStack[n]} \cup kept[n - 1, FALSE]
  IN kept[Len(bookStack), TRUE]

Recommended(targetUserID, numRecommendations, neighborhoodSize) ==
  LET books == Ascending(getRecommendedBooks(getNeighborhood(targetUserID, neighborhoodSize), targetUserID))
  IN SubSeq(books, 1, IF numRecommendations < Len(books) THEN numRecommendations ELSE Len(books))

-----------------------------------------------------------------------------

addUserBorrowedBook(userID, book) ==
  /\ userBorrowedBooks' = [u \in DOMAIN userBorrowedBooks \cup {userID} |->
                             BooksOf(u) \cup (IF u = userID THEN {book} ELSE {})]
  /\ UNCHANGED <<bookBorrowedByUsers, alone>>

(* Asking gives a user nobody has heard of an empty set of books, through  *)
(* operator[] in calculateSimilarity, and the titles of the neighbours an  *)
(* entry.  The size of the vector is unsigned: with nobody else in the     *)
(* table the sort runs over a vector of no elements.                       *)
getBookRecommendations(targetUserID, neighborhoodSize) ==
  /\ ~alone
  /\ IF Others(targetUserID) = {}
     THEN alone' = TRUE /\ UNCHANGED <<userBorrowedBooks, bookBorrowedByUsers>>
     ELSE /\ userBorrowedBooks' = [u \in DOMAIN userBorrowedBooks \cup {targetUserID} |-> BooksOf(u)]
          /\ bookBorrowedByUsers' = bookBorrowedByUsers \cup
               UNION {BooksOf(u) : u \in getNeighborhood(targetUserID, neighborhoodSize)}
          /\ UNCHANGED alone

RecommendationNext ==
  \/ \E userID \in Users, book \in Titles : ~alone /\ addUserBorrowedBook(userID, book)
  \/ \E targetUserID \in Users, neighborhoodSize \in 0 .. Cardinality(Users) :
       getBookRecommendations(targetUserID, neighborhoodSize)

-----------------------------------------------------------------------------

(* The neighbourhood of a user has as many members as asked for if that    *)
(* many have a book in common, and nobody outside it is nearer than one    *)
(* inside.                                                                 *)
NearestAreChosen ==
  \A t \in Users, size \in 1 .. Cardinality(Users) :
    LET near    == getNeighborhood(t, size)
        related == {u \in Others(t) : BooksOf(u) \cap BooksOf(t) # {}}
    IN /\ near \subseteq related
       /\ Cardinality(near) = IF size < Cardinality(related) THEN size ELSE Cardinality(related)
       /\ \A u \in near, v \in related \ near :
            ~Exceeds(calculateSimilarity(t, v), calculateSimilarity(t, u))

(* What is recommended is new to the user and was borrowed by a neighbour; *)
(* nothing of that kind is held back unless enough has been found.         *)
UnreadAreRecommended ==
  \A t \in Users, size \in 0 .. Cardinality(Users), number \in 0 .. Cardinality(Titles) :
    LET answer == Recommended(t, number, size)
        fresh  == UNION {BooksOf(u) : u \in getNeighborhood(t, size)} \ BooksOf(t)
    IN /\ IsInjective(answer) /\ Range(answer) \subseteq fresh
       /\ Len(answer) = IF number < Cardinality(fresh) THEN number ELSE Cardinality(fresh)

NearestBooksAreRecommended == NearestAreChosen /\ UnreadAreRecommended

-----------------------------------------------------------------------------
(***************************************************************************)
(* LibraryRestructuring.cpp: books borrowed by the same patron are         *)
(* neighbours in a graph; its components are the shelves, in the order of  *)
(* the days their books are borrowed for.                                  *)
(***************************************************************************)
(* MergeSort.cpp and RadixSort.cpp, on sequences of elements that are      *)
(* compared by a key, a function on them.                                  *)

(* The comparison is strict, and of two equal elements the right one goes  *)
(* first.                                                                  *)
merge(left, right, key) ==
  LET merged[l \in 0 .. Len(left), r \in 0 .. Len(right)] ==
        CASE l = Len(left)  -> SubSeq(right, r + 1, Len(right))
          [] r = Len(right) -> SubSeq(left, l + 1, Len(left))
          [] l < Len(left) /\ r < Len(right) /\ key[left[l + 1]] < key[right[r + 1]] ->
               <<left[l + 1]>> \o merged[l + 1, r]
          [] OTHER -> <<right[r + 1]>> \o merged[l, r + 1]
  IN merged[0, 0]

mergeSort(arr, key) ==
  LET sorted[first \in 1 .. Len(arr) + 1, size \in 0 .. Len(arr)] ==
        IF size < 2 THEN SubSeq(arr, first, first + size - 1)
        ELSE merge(sorted[first, size \div 2],
                   sorted[first + (size \div 2), size - (size \div 2)], key)
  IN sorted[1, Len(arr)]

-----------------------------------------------------------------------------

powerOfTen(n) == 10 ^ n

(* The integer part of log(number)/log(10) + 1.  In doubles this comes out *)
(* below the power of ten for three of the integers, and for no other.     *)
Miscounted == {powerOfTen(3), powerOfTen(6), powerOfTen(9)}
Digits(number) == CHOOSE n \in 1 .. 9 : powerOfTen(n - 1) <= number /\ number < powerOfTen(n)
getDigitCount(number) ==
  CASE number = 0 -> 1
    [] number \in Miscounted -> Digits(number - 1)
    [] OTHER -> Digits(number)

getDigitValue(number, digit) == (number \div powerOfTen(digit)) % 10

getMaxDigitCount(elements, key) ==
  FoldLeft(LAMBDA maxDigits, e :
             IF getDigitCount(key[e]) > maxDigits THEN getDigitCount(key[e]) ELSE maxDigits,
           0, elements)

(* Where each digit ends in the output, counted, then summed up.           *)
EndOf(elements, key, digit) ==
  [d \in 0 .. 9 |-> Len(SelectSeq(elements, LAMBDA e : getDigitValue(key[e], digit) <= d))]


(* The output is filled from the last element to the first, each at the    *)
(* end of what is left of its digit's part.                                *)
countingSort(elements, key, digit) ==
  LET Place(i) ==
        LET d == getDigitValue(key[elements[i]], digit)
        IN EndOf(elements, key, digit)[d]
             - Len(SelectSeq(SubSeq(elements, i + 1, Len(elements)),
                             LAMBDA e : getDigitValue(key[e], digit) = d))
  IN [n \in 1 .. Len(elements) |-> elements[CHOOSE i \in 1 .. Len(elements) : Place(i) = n]]

radixSort(elements, key) ==
  FoldLeft(LAMBDA sorted, digit : countingSort(sorted, key, digit - 1), elements,
           [digit \in 1 .. getMaxDigitCount(elements, key) |-> digit])

-----------------------------------------------------------------------------

AscendsBy(arr, key) == \A i \in 1 .. Len(arr) - 1 : key[arr[i]] <= key[arr[i + 1]]

-----------------------------------------------------------------------------

CONSTANTS
  BorrowRecords,   \* what may be recorded: patron, book, checkout and return
  MaxRecords,      \* bound: records of a library
  Collection,      \* the books of it, in the order of their buckets
  Criteria,        \* what shelves are sorted by
  Attribute        \* of each book under each of these, as a number

ASSUME RestructuringAssumption ==
  /\ \A r \in BorrowRecords :
       /\ DOMAIN r = {"patronId", "bookISBN", "checkoutDate", "returnDate"}
       /\ r.checkoutDate \in Nat \X (1 .. 12) \X (1 .. 31)
       /\ r.returnDate \in Nat \X (1 .. 12) \X (1 .. 31)
       /\ \/ r.checkoutDate[1] < r.returnDate[1]
          \/ /\ r.checkoutDate[1] = r.returnDate[1]
             /\ 31 * r.checkoutDate[2] + r.checkoutDate[3] <= 31 * r.returnDate[2] + r.returnDate[3]
  /\ Collection \subseteq Nat /\ MaxRecords \in Nat
  /\ Attribute \in [Criteria -> [Collection -> Nat \ {0}]]

VARIABLES
  records, allBooks, graph, bookBorrowingTime,   \* from the constructor
  clusters, sortedBy                             \* the last answer of clusterAndSort

shelfVars == <<records, allBooks, graph, bookBorrowingTime, clusters, sortedBy>>

-----------------------------------------------------------------------------

IsLeap(year) == (year % 4 = 0 /\ year % 100 # 0) \/ year % 400 = 0
DaysInMonth(year, month) ==
  IF month = 2 /\ IsLeap(year) THEN 29
  ELSE <<31, 28, 31, 30, 31, 30, 31, 31, 30, 31, 30, 31>>[month]

(* Whole years are added for the change of year, then the months from that *)
(* of the start to that of the end: none if the end comes earlier in its   *)
(* year.                                                                   *)
diffDuration(start, end) ==
  LET SumOf(S, f(_)) == MapThenSumSet(f, S)
      years  == SumOf(start[1] .. end[1] - 1, LAMBDA y : IF IsLeap(y) THEN 366 ELSE 365)
      months == SumOf(start[2] .. end[2],
                  LAMBDA m : CASE m = start[2] -> DaysInMonth(end[1], m) - start[3]
                               [] m = end[2] /\ m # start[2] -> end[3]
                               [] OTHER -> DaysInMonth(end[1], m))
  IN IF start[2] = end[2] THEN years + end[3] - start[3] ELSE years + months

-----------------------------------------------------------------------------

Neighbours(b, recs) ==
  {r.bookISBN : r \in {r \in recs : \E s \in recs : s.patronId = r.patronId /\ s.bookISBN = b}} \ {b}

BooksIn(recs) == {r.bookISBN : r \in recs}

ShelfTypeOK ==
  /\ records \subseteq BorrowRecords
  /\ allBooks \subseteq Nat
  /\ DOMAIN graph \subseteq BooksIn(records)
  /\ DOMAIN bookBorrowingTime = BooksIn(records)
  /\ \A n \in 1 .. Len(clusters) : Range(clusters[n]) \subseteq BooksIn(records)
  /\ sortedBy \in Criteria \cup {"nothing"}

(* The constructor.  operator[] gives a book its entry in the graph when   *)
(* it gets its first neighbour.                                            *)
ShelfInit ==
  /\ records \in UNION {kSubset(n, BorrowRecords) : n \in 0 .. MaxRecords}
  /\ allBooks = Collection
  /\ graph = [b \in {b \in BooksIn(records) : Neighbours(b, records) # {}} |-> Neighbours(b, records)]
  /\ bookBorrowingTime =
       [b \in BooksIn(records) |->
          MapThenSumSet(LAMBDA r : diffDuration(r.checkoutDate, r.returnDate),
                        {r \in records : r.bookISBN = b})]
  /\ clusters = << >> /\ sortedBy = "nothing"

(* Depth first, neighbours in ascending order; what has been visited is in *)
(* the sequence.                                                           *)
RECURSIVE dfs(_, _)
dfs(current, visited) ==
  FoldLeft(LAMBDA seen, neighbor : IF neighbor \in Range(seen) THEN seen ELSE dfs(neighbor, seen),
           Append(visited, current), SetToSortSeq(graph[current], <))

Clustered ==
  LET visit(sofar, b) ==
        LET seen == FlattenSeq(sofar)
        IN IF b \in Range(seen) THEN sofar
           ELSE Append(sofar, SubSeq(dfs(b, seen), Len(seen) + 1, Len(dfs(b, seen))))
  IN FoldLeft(visit, << >>, SetToSortSeq(DOMAIN graph, <))

(* The average is cut to an integer where radix sort takes its digits.     *)
getAverageBorrowingTime(cluster) ==
  FoldLeft(LAMBDA sum, b : sum + bookBorrowingTime[b], 0, cluster) \div Len(cluster)

TimeOf(groups) == [c \in Range(groups) |-> getAverageBorrowingTime(c)]

(* A book that is not in the collection has empty attributes, which come   *)
(* first; looking for them gives it an entry.  Criteria that are not known *)
(* sort nothing.                                                           *)
Of(sortBy) == [b \in BooksIn(records) |-> IF b \in Collection THEN Attribute[sortBy][b] ELSE 0]

clusterAndSort(sortBy) ==
  /\ LET groups == Clustered
         inOrder == radixSort(groups, TimeOf(groups))
     IN clusters' = [n \in 1 .. Len(inOrder) |-> mergeSort(inOrder[n], Of(sortBy))]
  /\ allBooks' = allBooks \cup DOMAIN graph
  /\ sortedBy' = sortBy
  /\ UNCHANGED <<records, graph, bookBorrowingTime>>

ShelfNext == \E sortBy \in Criteria : clusterAndSort(sortBy)

-----------------------------------------------------------------------------

(* The books of one patron share a shelf, every book that was borrowed     *)
(* with another has one place, and no shelf can be divided: the books that *)
(* a part of it was borrowed with are not all in the part.                 *)
ShelvesAreTogether ==
  sortedBy # "nothing" =>
    LET places == FlattenSeq(clusters)
    IN /\ IsInjective(places) /\ Range(places) = {b \in BooksIn(records) : Neighbours(b, records) # {}}
       /\ \A n \in 1 .. Len(clusters), b \in Range(places) :
            b \in Range(clusters[n]) => Neighbours(b, records) \subseteq Range(clusters[n])
       /\ \A n \in 1 .. Len(clusters) : \A part \in SUBSET Range(clusters[n]) \ {{}, Range(clusters[n])} :
            \E b \in part : ~(Neighbours(b, records) \subseteq part)

(* On a shelf the books ascend by what was asked for, and the shelves      *)
(* ascend by whole days, as tests/LibraryRestructuringTests.h:55 to 65     *)
(* wants it.  When the longest time is a power of ten whose digits are     *)
(* miscounted, its first digit is not sorted by: the shelf stands first,   *)
(* as if its books had never been borrowed, and the rest ascends.          *)
ShelvesAreSorted ==
  sortedBy # "nothing" =>
    /\ \A n \in 1 .. Len(clusters) : AscendsBy(clusters[n], Of(sortedBy))
    /\ LET time    == TimeOf(clusters)
           longest == Max(Range(time))
       IN clusters # << >> =>
            AscendsBy(clusters, [c \in DOMAIN time |->
              IF longest \in Miscounted THEN time[c] % longest ELSE time[c]])

(* Within a year, a duration is the number of days from date to date.      *)
DayOfYear(date) == date[3] + MapThenSumSet(LAMBDA m : DaysInMonth(date[1], m), 1 .. date[2] - 1)
DurationsAreDays ==
  \A r \in records : r.checkoutDate[1] = r.returnDate[1] =>
    diffDuration(r.checkoutDate, r.returnDate) = DayOfYear(r.returnDate) - DayOfYear(r.checkoutDate)

BooksAreShelved == ShelvesAreTogether /\ ShelvesAreSorted /\ DurationsAreDays

(* docs/Assignment3.md:37 to 40 wants the opposite of the test: a shelf of *)
(* 45 days before one of 2 days, so that the averages descend.             *)
LongestFirst ==
  sortedBy # "nothing" =>
    \A m, n \in 1 .. Len(clusters) : m < n => TimeOf(clusters)[clusters[m]] >= TimeOf(clusters)[clusters[n]]

=============================================================================
