----------------------------- MODULE HashTable -----------------------------
(***************************************************************************)
(* HashTable.cpp: a table of string keys with a hop range of four buckets, *)
(* a first free bucket anywhere when these are taken, linear probing, and  *)
(* removal by a cleared flag.  A call is one step: nothing runs beside it. *)
(***************************************************************************)
EXTENDS Integers, FiniteSets, FiniteSetsExt, Functions

CONSTANTS
  TableKeys,    \* the strings used as keys
  CharSum,      \* the sum of the characters of each
  Values,       \* the values stored
  Default,      \* ValueType()
  MaxFirstSize, \* bound: buckets of a new table
  HopRange,     \* 4 in the code
  MaxOccupied   \* bound: occupied buckets

ASSUME HashTableAssumption ==
  /\ IsFiniteSet(TableKeys) /\ CharSum \in [TableKeys -> Nat]
  /\ Default \in Values
  /\ MaxFirstSize \in Nat \ {0} /\ HopRange \in Nat \ {0}
  /\ MaxOccupied \in Nat

(* As large as the table becomes: the load stays above a third after a rehash. *)
MaxSize == Max({MaxFirstSize, 3 * MaxOccupied})

VARIABLES
  table,      \* the buckets, a function on 0..tableSize-1
  lastCall,   \* how it ended: "returned", "crashed" on a null pointer, or "endless"
  contents,   \* history: the value last given to each key that was not removed
  disturbed   \* history: what the buckets have gone through that a search may not survive

tableVars == <<table, lastCall, contents, disturbed>>

Vacant == [occupied |-> FALSE]
Bucket(k, v) == [occupied |-> TRUE, key |-> k, value |-> v]
Buckets == {Vacant} \cup {Bucket(k, v) : k \in TableKeys, v \in Values}

tableSize(t) == Cardinality(DOMAIN t)

Disturbances == {"removed", "far", "duplicate"}

TableTypeOK ==
  /\ DOMAIN table = 0..(tableSize(table) - 1) /\ Range(table) \subseteq Buckets
  /\ lastCall \in {"returned", "crashed", "endless"}
  /\ DOMAIN contents \subseteq TableKeys /\ Range(contents) \subseteq Values
  /\ disturbed \subseteq Disturbances

NewTable(size) == [i \in 0..(size - 1) |-> Vacant]

TableInit ==
  /\ \E size \in 1..MaxFirstSize : table = NewTable(size)
  /\ lastCall = "returned"
  /\ contents = [k \in {} |-> Default]
  /\ disturbed = {}

-----------------------------------------------------------------------------

isPrime(num) == num > 1 /\ \A i \in 2..(num - 1) : num % i # 0

largestPrimeBelow ==
  [n \in 1..MaxSize |-> IF n <= 2 THEN -1 ELSE Max({i \in 2..(n - 1) : isPrime(i)})]

hashKey(k, size) == (CharSum[k] * largestPrimeBelow[size]) % size

Occupied(t) == {i \in DOMAIN t : t[i].occupied}

(* loadFactor() >= 0.7 *)
Loaded(t) == 10 * Cardinality(Occupied(t)) >= 7 * tableSize(t)

(* The buckets in the order in which they are probed for k: from its hash on. *)
Probes(t, k) ==
  LET size == tableSize(t)
      start == hashKey(k, size)
  IN  [d \in DOMAIN t |-> (start + d) % size]

NotFound == -1  \* a null pointer
Endless  == -2  \* the loop goes round the table for ever

(* search(): where k is.  It stops at k or at a free bucket, and does not     *)
(* return when there is neither.                                              *)
find(t, k) ==
  LET at == Probes(t, k)
      stops == {d \in DOMAIN t : t[at[d]].occupied => t[at[d]].key = k}
      last == at[Min(stops)]
  IN  IF stops = {} THEN Endless ELSE IF t[last].occupied THEN last ELSE NotFound

(* findFreeSlot() from 0, with the hop that the hop range has left behind. *)
findFreeSlot(t) ==
  LET hop == 2 ^ HopRange
      at(d) == (hop + d) % tableSize(t)
  IN  at(Min({d \in DOMAIN t : ~t[at(d)].occupied}))

(* A hop range longer than the table meets the same buckets again. *)
NearOffsets(t, k) ==
  LET at == Probes(t, k) IN {d \in DOMAIN t : d < HopRange /\ ~t[at[d]].occupied}

SlotFor(t, k) ==
  LET near == NearOffsets(t, k)
  IN  IF near # {} THEN Probes(t, k)[Min(near)] ELSE findFreeSlot(t)

Place(t, k, v) == [t EXCEPT ![SlotFor(t, k)] = Bucket(k, v)]

(* The tables of a rehash, after each bucket of the old one: twice as large, *)
(* hence less than half full at each insert(), and no rehash starts within.  *)
Moved(t) ==
  LET size == tableSize(t)
      moved[i \in 0..size] ==
        IF i = 0 THEN NewTable(2 * size)
        ELSE IF t[i - 1].occupied THEN Place(moved[i - 1], t[i - 1].key, t[i - 1].value)
        ELSE moved[i - 1]
  IN  moved

(* Fault: the buckets stay where they are. *)
rehashInPlace(t) ==
  [i \in 0..(2 * tableSize(t) - 1) |-> IF i \in DOMAIN t THEN t[i] ELSE Vacant]

rehash(t) == Moved(t)[tableSize(t)]

Roomy(t) == IF Loaded(t) THEN rehash(t) ELSE t

insert(t, k, v) == Place(Roomy(t), k, v)

-----------------------------------------------------------------------------
(* History *)

Held(t) == {t[i].key : i \in Occupied(t)}

Given(k, v) == [x \in DOMAIN contents \cup {k} |-> IF x = k THEN v ELSE contents[x]]

(* No bucket in the hop range, for k or for a key that a rehash moves first. *)
Far(t, k) ==
  \/ NearOffsets(Roomy(t), k) = {}
  \/ Loaded(t) /\ \E i \in Occupied(t) : NearOffsets(Moved(t)[i], t[i].key) = {}

(* A rehash closes the gaps and brings the far ones back. *)
DisturbedBy(k) ==
  (IF Loaded(table) THEN disturbed \ {"removed", "far"} ELSE disturbed)
    \cup (IF Far(table, k) THEN {"far"} ELSE {})
    \cup (IF k \in Held(table) THEN {"duplicate"} ELSE {})

-----------------------------------------------------------------------------
(* Operations *)

Callable == lastCall = "returned"

InBounds == Cardinality(Occupied(table)) < MaxOccupied

TableInsert(k, v) ==
  /\ Callable /\ InBounds
  /\ table' = insert(table, k, v)
  /\ contents' = Given(k, v)
  /\ disturbed' = DisturbedBy(k)
  /\ UNCHANGED lastCall

TableOverwrite(k, v) ==
  /\ Callable
  /\ LET at == find(table, k)
     IN  at \in DOMAIN table /\ table' = [table EXCEPT ![at].value = v]
  /\ contents' = Given(k, v)
  /\ UNCHANGED <<lastCall, disturbed>>

updateValueForKey(k, v) ==
  \/ TableOverwrite(k, v)
  \/ find(table, k) = NotFound /\ TableInsert(k, v)

(* table[k] = v.  The reference is taken after the default was inserted. *)
TableSubscript(k, v) ==
  \/ TableOverwrite(k, v)
  \/ /\ Callable /\ InBounds
     /\ find(table, k) = NotFound
     /\ LET grown == insert(table, k, Default)
            at == find(grown, k)
        IN  IF at = NotFound
            THEN table' = grown /\ lastCall' = "crashed" /\ contents' = Given(k, Default)
            ELSE /\ table' = [grown EXCEPT ![at].value = v]
                 /\ contents' = Given(k, v)
                 /\ UNCHANGED lastCall
     /\ disturbed' = DisturbedBy(k)

TableRemove(k) ==
  /\ Callable
  /\ LET at == find(table, k)
     IN  at \in DOMAIN table /\ table' = [table EXCEPT ![at] = Vacant]
  /\ contents' = [x \in DOMAIN contents \ {k} |-> contents[x]]
  /\ disturbed' = disturbed \cup {"removed"}
  /\ UNCHANGED lastCall

(* search(), remove(), updateValueForKey() or operator[] of a key that a full *)
(* table does not hold: the probing comes round and goes on.                  *)
ProbeForEver(k) ==
  /\ Callable /\ find(table, k) = Endless
  /\ lastCall' = "endless"
  /\ UNCHANGED <<table, contents, disturbed>>

TableClear ==
  /\ Callable
  /\ table' = NewTable(tableSize(table))
  /\ contents' = [k \in {} |-> Default]
  /\ disturbed' = {}
  /\ UNCHANGED lastCall

TableNext ==
  \/ \E k \in TableKeys, v \in Values :
       TableInsert(k, v) \/ updateValueForKey(k, v) \/ TableSubscript(k, v)
  \/ \E k \in TableKeys : TableRemove(k) \/ ProbeForEver(k)
  \/ TableClear

TableSpec == TableInit /\ [][TableNext]_tableVars

-----------------------------------------------------------------------------
(* The table is the map of what was inserted, through every collision and  *)
(* every rehash, while no key was removed before another of its run, none  *)
(* was put beyond the hop range and none inserted twice.  operator[] then  *)
(* finds what it has inserted, and follows no null pointer.                *)
SearchIsMap ==
  disturbed = {} =>
    \A k \in TableKeys :
      LET at == find(table, k)
      IN  IF k \in DOMAIN contents
          THEN at \in DOMAIN table /\ table[at].value = contents[k]
          ELSE at \in {NotFound, Endless}

(* Even when a search no longer reaches all of it, the table holds what    *)
(* was inserted and not removed, once each and with its last value: a      *)
(* rehash loses nothing and size() counts the keys.                        *)
HoldsEachOnce ==
  "duplicate" \notin disturbed =>
    /\ Held(table) = DOMAIN contents
    /\ Cardinality(Occupied(table)) = Cardinality(DOMAIN contents)
    /\ \A i \in Occupied(table) : table[i].value = contents[table[i].key]

(* insert() keeps a bucket free in a table of four or more, so that a      *)
(* search of it ends whatever it looks for.  One, two or three buckets all *)
(* fill before the load is taken to be too high.                           *)
ProbesEnd ==
  /\ tableSize(table) > 3 => \E i \in DOMAIN table : ~table[i].occupied
  /\ lastCall = "endless" => tableSize(table) <= 3 /\ Occupied(table) = DOMAIN table

(* The table is the map of what was inserted for as long as its ranges are *)
(* undisturbed, loses nothing even then, and a search of it ends unless it *)
(* has three buckets at most and all are full.                             *)
TableIsMap == SearchIsMap /\ HoldsEachOnce /\ ProbesEnd

=============================================================================
