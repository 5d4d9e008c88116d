------------------------------ MODULE KfcTree ------------------------------
(***************************************************************************)
(* The tree of the larger free chunks of the EMS allocator: gci_add_fc      *)
(* inserts a chunk, alloc_hmu finds and takes the best fit, unlink_hmu      *)
(* takes the neighbour of a chunk that is freed.  The root is part of the   *)
(* heap structure, smaller than every chunk, and has a right child only.    *)
(***************************************************************************)
EXTENDS Integers, FiniteSets

CONSTANTS Chunks,  \* chunks that may become free
          Sizes,   \* sizes, all above that of the root
          NULL, Root

VARIABLES size,                \* size of each node, NULL of a chunk not in the tree
          left, right, parent  \* pointers of each node

vars == <<size, left, right, parent>>

Nodes == Chunks \cup {Root}

InTree == {p \in Chunks : size[p] # NULL}

Tree == [left |-> left, right |-> right, parent |-> parent]

Become(t) == left' = t.left /\ right' = t.right /\ parent' = t.parent

Init == /\ size = [p \in Nodes |-> IF p = Root THEN 0 ELSE NULL]
        /\ left = [p \in Nodes |-> NULL]
        /\ right = [p \in Nodes |-> NULL]
        /\ parent = [p \in Nodes |-> NULL]

-----------------------------------------------------------------------------
(* gci_add_fc: walks down from the root, right of a smaller node and left   *)
(* of any other, to the first free slot.                                    *)
RECURSIVE Slot(_, _)

Side(tp, n) == IF size[tp] < n THEN right[tp] ELSE left[tp]

Slot(tp, n) == IF Side(tp, n) = NULL THEN tp ELSE Slot(Side(tp, n), n)

(* Faulty: decides the side at the slot anew, with equal sizes to the right.*)
AddFcRight(node, n) ==
    LET tp == Slot(Root, n)
    IN  /\ node \notin InTree
        /\ size' = [size EXCEPT ![node] = n]
        /\ IF size[tp] <= n /\ right[tp] = NULL
           THEN right' = [right EXCEPT ![node] = NULL, ![tp] = node]
                /\ left' = [left EXCEPT ![node] = NULL]
           ELSE left' = [left EXCEPT ![node] = NULL, ![tp] = node]
                /\ right' = [right EXCEPT ![node] = NULL]
        /\ parent' = [parent EXCEPT ![node] = tp]

AddFc(node, n) ==
    LET tp == Slot(Root, n)
    IN  /\ node \notin InTree
        /\ size' = [size EXCEPT ![node] = n]
        /\ IF size[tp] < n
           THEN right' = [right EXCEPT ![node] = NULL, ![tp] = node]
                /\ left' = [left EXCEPT ![node] = NULL]
           ELSE left' = [left EXCEPT ![node] = NULL, ![tp] = node]
                /\ right' = [right EXCEPT ![node] = NULL]
        /\ parent' = [parent EXCEPT ![node] = tp]

(* remove_tree_node.  The slot of p takes q, and q gets p's parent.         *)
Replace(t, p, q) ==
    LET up == t.parent[p]
        s == IF p = t.right[up] THEN [t EXCEPT !.right[up] = q] ELSE [t EXCEPT !.left[up] = q]
    IN  IF q = NULL THEN s ELSE [s EXCEPT !.parent[q] = up]

Cleared(t, p) == [t EXCEPT !.left[p] = NULL, !.right[p] = NULL, !.parent[p] = NULL]

RECURSIVE Rightmost(_, _)

Rightmost(t, q) == IF t.right[q] = NULL THEN q ELSE Rightmost(t, t.right[q])

(* p's predecessor q has no right child; it is removed first and then takes *)
(* over p's children, as they are after that removal.                       *)
Predecessor(p) == Rightmost(Tree, left[p])

Adopt(t, p, q) ==
    LET s == [Replace(t, p, q) EXCEPT !.left[q] = t.left[p], !.right[q] = t.right[p]]
    IN  [s EXCEPT !.parent = [x \in Nodes |->
            IF x \in {s.left[q], s.right[q]} THEN q ELSE @[x]]]

Removed(p) ==
    Cleared(CASE left[p] = NULL -> Replace(Tree, p, right[p])
              [] left[p] # NULL /\ right[p] = NULL -> Replace(Tree, p, left[p])
              [] OTHER -> LET q == Predecessor(p)
                          IN  Adopt(Cleared(Replace(Tree, q, left[q]), q), p, q),
            p)

remove_tree_node(p) ==
    /\ Become(Removed(p))
    /\ size' = [size EXCEPT ![p] = NULL]

(* alloc_hmu: the last node on the way down that is large enough.           *)
RECURSIVE Best(_, _, _)

Best(tp, last, n) ==
    IF tp = NULL THEN last
    ELSE IF size[tp] < n THEN Best(right[tp], last, n)
    ELSE Best(left[tp], tp, n)

AllocHmu(n) ==
    LET p == Best(right[Root], NULL, n)
    IN  p # NULL /\ remove_tree_node(p)

UnlinkHmu(p) == p \in InTree /\ remove_tree_node(p)

Next == \/ \E p \in Chunks, n \in Sizes : AddFc(p, n)
        \/ \E n \in Sizes : AllocHmu(n)
        \/ \E p \in Chunks : UnlinkHmu(p)

Spec == Init /\ [][Next]_vars

-----------------------------------------------------------------------------
(* The nodes have their types: a link of kfc_tree names a chunk or nothing. *)
TypeOK == /\ size \in [Nodes -> Sizes \cup {0, NULL}]
          /\ left \in [Nodes -> Chunks \cup {NULL}]
          /\ right \in [Nodes -> Chunks \cup {NULL}]
          /\ parent \in [Nodes -> Nodes \cup {NULL}]

RECURSIVE Under(_)

Under(p) == IF p = NULL THEN {} ELSE {p} \cup Under(left[p]) \cup Under(right[p])

(* Children and parents agree, so that remove_tree_node finds the slot of   *)
(* every node, and exactly the free chunks hang under the root.             *)
LinksAgree ==
    /\ \A p \in Nodes, q \in Chunks :
          q \in {left[p], right[p]} <=> q \in InTree /\ parent[q] = p
    /\ \A p \in InTree : left[p] = NULL \/ left[p] # right[p]
    /\ Under(right[Root]) = InTree /\ left[Root] = NULL

(* "order in kfc_tree is: size[left] <= size[cur] < size[right]", of whole  *)
(* subtrees and not only of children.                                       *)
Ordered ==
    \A p \in InTree : /\ \A q \in Under(left[p]) : size[q] <= size[p]
                      /\ \A q \in Under(right[p]) : size[p] < size[q]

(* The tree is linked and ordered.                                          *)
SearchTree == LinksAgree /\ Ordered

(* An allocation takes a chunk that fits, of the least size that does, and  *)
(* finds one whenever there is one.                                         *)
BestFit ==
    \A n \in Sizes :
        LET fits == {p \in InTree : size[p] >= n}
            best == Best(right[Root], NULL, n)
        IN  IF fits = {} THEN best = NULL
            ELSE best \in fits /\ \A p \in fits : size[best] <= size[p]
=============================================================================
