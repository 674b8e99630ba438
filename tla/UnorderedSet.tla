---------------------------- MODULE UnorderedSet ----------------------------
(***************************************************************************)
(* UnorderedSet.cpp: a set of keys in a red-black tree of nodes with       *)
(* parent pointers.  A node is named by its key.  The heap holds, besides  *)
(* the nodes of the tree, the one node that erase() has unlinked and not   *)
(* freed yet.  What the code writes twice, once for each side, is written  *)
(* once here, for a side and the other.                                    *)
(***************************************************************************)
EXTENDS Integers, FiniteSets

CONSTANTS
  SetKeys,   \* the keys that may be inserted
  Nil,       \* the null pointer
  MaxErased  \* bound: keys erased in one run

ASSUME UnorderedSetAssumption ==
  SetKeys \subseteq Int /\ IsFiniteSet(SetKeys) /\ Nil \notin SetKeys /\ MaxErased \in Nat

VARIABLES
  heap,      \* root, and of each key: its children, its parent, its colour
  setSize,
  pc,        \* "idle", in fixRedRedViolation(), or in deleteFix()
  node,      \* what the loop is at
  unlinked,  \* the node that is freed when deleteFix() has returned, or Nil
  erased     \* history: keys erased

setVars == <<heap, setSize, pc, node, unlinked, erased>>

Sides == {"left", "right"}
Other(side) == IF side = "left" THEN "right" ELSE "left"

Colors == {"RED", "BLACK", "BLUE"}
Refs   == SetKeys \cup {Nil}

Heaps == [root : Refs, child : [Sides -> [SetKeys -> Refs]], parent : [SetKeys -> Refs],
          color : [SetKeys -> Colors \cup {Nil}]]

SetTypeOK ==
  /\ heap \in Heaps
  /\ setSize \in Nat
  /\ pc \in {"idle", "redred", "deletefix", "crashed"}
  /\ node \in Refs /\ unlinked \in Refs
  /\ erased \in 0..MaxErased

EmptyHeap == [root |-> Nil, child |-> [s \in Sides |-> [k \in SetKeys |-> Nil]],
          parent |-> [k \in SetKeys |-> Nil], color |-> [k \in SetKeys |-> Nil]]

SetInit ==
  /\ heap = EmptyHeap /\ setSize = 0
  /\ pc = "idle" /\ node = Nil /\ unlinked = Nil
  /\ erased = 0

-----------------------------------------------------------------------------
(* Pointers *)

Red(h, n)   == n # Nil /\ h.color[n] = "RED"
Black(h, n) == n = Nil \/ h.color[n] = "BLACK"

SideOf(h, n, up) == IF h.child["left"][up] = n THEN "left" ELSE "right"

Paint(h, n, c) == IF n = Nil THEN h ELSE [h EXCEPT !.color[n] = c]

(* new takes the place of n below n's parent, or becomes the root. *)
Replace(h, n, new) ==
  LET up == h.parent[n]
  IN  IF up = Nil THEN [h EXCEPT !.root = new]
      ELSE [h EXCEPT !.child[SideOf(h, n, up)][up] = new]

Adopt(h, n, up) == IF n = Nil THEN h ELSE [h EXCEPT !.parent[n] = up]

(* Fault: the inner grandchild is lost. *)
RotateLosing(h, n, side) ==
  LET up == h.child[Other(side)][n]
      h1 == [h EXCEPT !.child[Other(side)][n] = Nil]
      h2 == Adopt(Replace(h1, n, up), up, h.parent[n])
  IN  Adopt([h2 EXCEPT !.child[side][up] = n], n, up)

(* The child of n on the other side comes up, n goes down on this side. *)
Rotate(h, n, side) ==
  LET up == h.child[Other(side)][n]
      inner == h.child[side][up]
      h1 == Adopt([h EXCEPT !.child[Other(side)][n] = inner], inner, n)
      h2 == Adopt(Replace(h1, n, up), up, h.parent[n])
  IN  Adopt([h2 EXCEPT !.child[side][up] = n], n, up)

rotateLeft(h, n)  == Rotate(h, n, "left")
rotateRight(h, n) == Rotate(h, n, "right")
Rotated(h, n, side) == IF side = "left" THEN rotateLeft(h, n) ELSE rotateRight(h, n)

Toward(k, n) == IF k < n THEN "left" ELSE "right"

(* The nodes on the way from the root to where k is, or would be. *)
Way(h, k) ==
  LET below[fuel \in 0..Cardinality(SetKeys)] ==
        [n \in Refs |->
           IF n = Nil \/ fuel = 0 THEN {}
           ELSE {n} \cup (IF n = k THEN {} ELSE below[fuel - 1][h.child[Toward(k, n)][n]])]
  IN  below[Cardinality(SetKeys)][h.root]

search(h, k) == k \in Way(h, k)

Leftmost(h, n) ==
  LET down[fuel \in 0..Cardinality(SetKeys)] ==
        [m \in SetKeys |->
           IF h.child["left"][m] = Nil \/ fuel = 0 THEN m ELSE down[fuel - 1][h.child["left"][m]]]
  IN  down[Cardinality(SetKeys)][n]

(* begin() and operator++ of the iterator, which follow the parent pointers. *)
begin(h) == IF h.root = Nil THEN Nil ELSE Leftmost(h, h.root)

successor(h, n) ==
  LET climb[fuel \in 0..Cardinality(SetKeys)] ==
        [m \in SetKeys |->
           LET up == h.parent[m]
           IN  IF up # Nil /\ m = h.child["right"][up] /\ fuel > 0 THEN climb[fuel - 1][up] ELSE up]
  IN  IF h.child["right"][n] # Nil THEN Leftmost(h, h.child["right"][n])
      ELSE climb[Cardinality(SetKeys)][n]

getSize(h) ==
  LET size[fuel \in 0..Cardinality(SetKeys)] ==
        [n \in Refs |->
           IF n = Nil \/ fuel = 0 THEN 0
           ELSE size[fuel - 1][h.child["left"][n]] + 1 + size[fuel - 1][h.child["right"][n]]]
  IN  size[Cardinality(SetKeys)][h.root]

-----------------------------------------------------------------------------

Swapped(h, a, b) == [h EXCEPT !.color[a] = h.color[b], !.color[b] = h.color[a]]

(* Fault: the inner grandchild is not rotated outwards first. *)
RedRedTurnOuterOnly(h, n) ==
  LET p == h.parent[n]
      g == h.parent[p]
      side == SideOf(h, p, g)
      uncle == h.child[Other(side)][g]
  IN  IF Red(h, uncle)
      THEN [heap |-> Paint(Paint(Paint(h, g, "RED"), p, "BLACK"), uncle, "BLACK"), node |-> g]
      ELSE [heap |-> Swapped(Rotated(h, g, Other(side)), p, g), node |-> p]

(* One turn of the loop of fixRedRedViolation(): the heap and the node that *)
(* the next turn looks at.                                                  *)
RedRedTurn(h, n) ==
  LET p == h.parent[n]
      g == h.parent[p]
      side == SideOf(h, p, g)
      uncle == h.child[Other(side)][g]
      inner == n = h.child[Other(side)][p]
      h1 == IF inner THEN Rotated(h, p, side) ELSE h
      top == IF inner THEN n ELSE p
  IN  IF Red(h, uncle)
      THEN [heap |-> Paint(Paint(Paint(h, g, "RED"), p, "BLACK"), uncle, "BLACK"), node |-> g]
      ELSE [heap |-> Swapped(Rotated(h1, g, Other(side)), top, g), node |-> top]

insertNode(k) ==
  LET up == CHOOSE n \in Way(heap, k) : heap.child[Toward(k, n)][n] = Nil
  IN  [heap EXCEPT !.child[Toward(k, up)][up] = k,
                   !.parent[k] = up, !.color[k] = "RED"]

InsertFirst(k) ==
  /\ pc = "idle" /\ heap.root = Nil
  /\ heap' = [heap EXCEPT !.root = k, !.color[k] = "BLACK"]
  /\ setSize' = 1
  /\ UNCHANGED <<pc, node, unlinked, erased>>

InsertBelow(k) ==
  /\ pc = "idle" /\ heap.root # Nil
  /\ ~search(heap, k)
  /\ heap' = insertNode(k)
  /\ setSize' = getSize(heap')
  /\ IF Red(heap, heap'.parent[k]) THEN pc' = "redred" /\ node' = k ELSE UNCHANGED <<pc, node>>
  /\ UNCHANGED <<unlinked, erased>>

(* The node need not be red: one that an erase() has left blue will do. *)
RedRedGoesOn == node # heap.root /\ ~Black(heap, node) /\ Red(heap, heap.parent[node])

RedRed ==
  /\ pc = "redred" /\ RedRedGoesOn
  /\ IF heap.parent[heap.parent[node]] = Nil
     THEN pc' = "crashed" /\ UNCHANGED <<heap, node>>
     ELSE heap' = RedRedTurn(heap, node).heap /\ node' = RedRedTurn(heap, node).node /\ UNCHANGED pc
  /\ UNCHANGED <<setSize, unlinked, erased>>

RedRedEnds ==
  /\ pc = "redred" /\ ~RedRedGoesOn
  /\ heap' = Paint(heap, heap.root, "BLACK")
  /\ pc' = "idle" /\ node' = Nil
  /\ UNCHANGED <<setSize, unlinked, erased>>

-----------------------------------------------------------------------------

Free(h, n) == [h EXCEPT !.child = [s \in Sides |-> [@[s] EXCEPT ![n] = Nil]],
                        !.parent[n] = Nil, !.color[n] = Nil]

ErasedOne == erased < MaxErased /\ erased' = erased + 1

(* What is left of erase() when the tree needs no fixing. *)
Erased(h, k) ==
  heap' = Free(h, k) /\ setSize' = setSize - 1 /\ UNCHANGED <<pc, node, unlinked>>

ToBeFixed(h, k, at) ==
  /\ heap' = h /\ pc' = "deletefix" /\ node' = at /\ unlinked' = k
  /\ UNCHANGED setSize

Children(k) == {s \in Sides : heap.child[s][k] # Nil}

Found(k) == pc = "idle" /\ search(heap, k)

EraseRoot(k) ==
  /\ Found(k) /\ Children(k) = {} /\ heap.parent[k] = Nil
  /\ Erased([heap EXCEPT !.root = Nil], k)
  /\ ErasedOne

(* A leaf is unlinked before deleteFix() is called with it. *)
EraseLeaf(k) ==
  /\ Found(k) /\ Children(k) = {} /\ heap.parent[k] # Nil
  /\ LET h == Replace(heap, k, Nil)
     IN  IF heap.color[k] = "BLACK" THEN ToBeFixed(Paint(h, k, "BLUE"), k, k) ELSE Erased(h, k)
  /\ ErasedOne

EraseOneChild(k) ==
  /\ Found(k) /\ Cardinality(Children(k)) = 1
  /\ \E s \in Children(k) :
       LET child == heap.child[s][k]
           h1 == Adopt(Replace(heap, k, child), child, heap.parent[k])
           h2 == IF heap.parent[k] = Nil THEN Paint(h1, child, "BLACK") ELSE h1
       IN  IF Black(h2, child) THEN ToBeFixed(Paint(h2, child, "BLUE"), k, child) ELSE Erased(h2, k)
  /\ ErasedOne

(* The successor's key is copied to the node and the successor unlinked.    *)
(* A node being named by its key, the two exchange their names: k becomes   *)
(* the unlinked node, which still points to its parent.                     *)
Renamed(h, k, new) ==
  LET to(n) == IF n = k THEN new ELSE n
      of(f) == [n \in SetKeys |-> to(f[IF n = new THEN k ELSE IF n = k THEN new ELSE n])]
  IN  [root |-> to(h.root), child |-> [s \in Sides |-> of(h.child[s])], parent |-> of(h.parent),
       color |-> [h.color EXCEPT ![new] = h.color[k], ![k] = h.color[new]]]

(* The colour of the successor is compared with BLUE and not set to it: the *)
(* loop of deleteFix() does nothing, unless an earlier erase() has left the *)
(* successor blue.                                                          *)
EraseTwoChildren(k) ==
  /\ Found(k) /\ Children(k) = Sides
  /\ LET s == Leftmost(heap, heap.child["right"][k])
         rest == heap.child["right"][s]
         h == Renamed(Adopt(Replace(heap, s, rest), rest, heap.parent[s]), k, s)
     IN  IF Red(heap, s) THEN Erased(h, k) ELSE ToBeFixed(h, k, k)
  /\ ErasedOne

(* One turn of the loop of deleteFix(): what becomes of the heap, or Nil    *)
(* if a null sibling is followed, and the node looked at next.              *)
DeleteTurn(h, n) ==
  LET p == h.parent[n]
      side == SideOf(h, n, p)
      sib0 == h.child[Other(side)][p]
      h1 == IF Red(h, sib0)
            THEN Rotated(Paint(Paint(h, sib0, "BLACK"), p, "RED"), p, side) ELSE h
      sib1 == h1.child[Other(side)][p]
      near(hh, s) == hh.child[side][s]
      far(hh, s)  == hh.child[Other(side)][s]
      h2 == IF Black(h1, far(h1, sib1))
            THEN Rotated(Paint(Paint(h1, near(h1, sib1), "BLACK"), sib1, "RED"), sib1, Other(side))
            ELSE h1
      sib2 == h2.child[Other(side)][p]
      h3 == Paint(Paint(Paint(h2, sib2, h2.color[p]), p, "BLACK"), far(h2, sib2), "BLACK")
      h4 == Rotated(h3, p, side)
  IN  CASE sib1 = Nil -> [heap |-> Nil, node |-> Nil]
        [] sib1 # Nil /\ Black(h1, near(h1, sib1)) /\ Black(h1, far(h1, sib1)) ->
             [heap |-> Paint(h1, sib1, "RED"), node |-> p]
        [] OTHER -> [heap |-> h4, node |-> h4.root]

Sibling == LET p == heap.parent[node] IN heap.child[Other(SideOf(heap, node, p))][p]

DeleteGoesOn == node # heap.root /\ heap.color[node] = "BLUE" /\ Sibling # Nil

DeleteFix ==
  /\ pc = "deletefix" /\ DeleteGoesOn
  /\ LET turn == DeleteTurn(heap, node)
     IN  IF turn.heap = Nil THEN pc' = "crashed" /\ UNCHANGED <<heap, node>>
         ELSE heap' = turn.heap /\ node' = turn.node /\ UNCHANGED pc
  /\ UNCHANGED <<setSize, unlinked, erased>>

DeleteFixEnds ==
  /\ pc = "deletefix" /\ ~DeleteGoesOn
  /\ heap' = Free(Paint(heap, node, "BLACK"), unlinked)
  /\ setSize' = setSize - 1
  /\ pc' = "idle" /\ node' = Nil /\ unlinked' = Nil
  /\ UNCHANGED erased

clear ==
  /\ pc = "idle" /\ heap.root # Nil
  /\ heap' = EmptyHeap /\ setSize' = 0
  /\ UNCHANGED <<pc, node, unlinked, erased>>

SetNext ==
  \/ \E k \in SetKeys : \/ InsertFirst(k) \/ InsertBelow(k)
                        \/ EraseRoot(k) \/ EraseLeaf(k) \/ EraseOneChild(k) \/ EraseTwoChildren(k)
  \/ RedRed \/ RedRedEnds \/ DeleteFix \/ DeleteFixEnds
  \/ clear

SetSpec == SetInit /\ [][SetNext]_setVars

-----------------------------------------------------------------------------
elements == {k \in SetKeys : search(heap, k)}

(* The set behind the tree: every step of a rotation or a fix leaves the   *)
(* keys that are found as they are, and erase() takes one key away.        *)
Contents == INSTANCE KeySet WITH Keys <- SetKeys

SetIsKept == Contents!Spec

(* A loop over the set meets its keys in ascending order, each once: the   *)
(* parent pointers that the iterator climbs fit the child pointers that    *)
(* search() descends, after every rotation and every removal.  size() is   *)
(* the number of these keys, also after erase(), which only subtracts one. *)
WalkIsSorted ==
  LET From(above) ==
        IF above = {} THEN Nil ELSE CHOOSE k \in above : \A other \in above : k <= other
  IN  pc = "idle" =>
        /\ setSize = Cardinality(elements)
        /\ begin(heap) = From(elements)
        /\ \A k \in elements : successor(heap, k) = From({other \in elements : other > k})

(* The numbers of black nodes on the ways from the root down to a null. *)
BlackHeights ==
  LET heights[fuel \in 0..Cardinality(SetKeys)] ==
        [n \in Refs |->
           IF n = Nil \/ fuel = 0 THEN {0}
           ELSE {height + (IF Red(heap, n) THEN 0 ELSE 1) :
                   height \in heights[fuel - 1][heap.child["left"][n]]
                          \cup heights[fuel - 1][heap.child["right"][n]]}]
  IN  heights[Cardinality(SetKeys)][heap.root]

RedBlack ==
  /\ Cardinality(BlackHeights) = 1
  /\ Black(heap, heap.root)
  /\ \A k \in elements : Red(heap, k) => \A s \in Sides : Black(heap, heap.child[s][k])

(* fixRedRedViolation() leaves a red-black tree after every insert(), as   *)
(* long as nothing was erased.                                             *)
RedBlackUntilErased == pc = "idle" /\ erased = 0 => RedBlack

(* The shape of the tree: successor() meets the keys in order in every     *)
(* tree, and a tree from which nothing was erased is balanced.             *)
TreeIsOrdered == WalkIsSorted /\ RedBlackUntilErased

(* erase() comes back: deleteFix() follows no null pointer. *)
EraseReturns == pc # "crashed"

=============================================================================
