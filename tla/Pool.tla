-------------------------------- MODULE Pool --------------------------------
(* The memory pool of the runtime for TLC: the chunks of the EMS heap        *)
(* (EmsHeap, which knows the contents of the tree only), the shape of the    *)
(* tree of large free chunks (KfcTree), and the registry of the blocks that  *)
(* the heap hands out (PoolInfo).  They share no variable, so a behaviour is *)
(* one of one of them: part says of which, and the others rest.              *)
EXTENDS PoolInfo, EmsHeap, FiniteSetsExt

CONSTANTS Chunks, TreeSizes, NULL, Root  \* of KfcTree

ASSUME TreeAssumption == TreeSizes \subseteq Nat \ {0} /\ NULL \notin Chunks \cup {Root}
                         /\ Root \notin Chunks

VARIABLES part,
          size, left, right, parent  \* of KfcTree

treeVars == <<size, left, right, parent>>

Kfc == INSTANCE KfcTree WITH Sizes <- TreeSizes

PoolInit == /\ part \in {"heap", "tree", "registry"}
            /\ Init /\ HeapInit /\ Kfc!Init
            /\ part # "heap" => base_addr = Min(HeapBases)
            /\ part # "registry" => pool_allocator = Min(Bases)

PoolNext == /\ \/ part = "heap" /\ HeapNext /\ UNCHANGED <<treeVars, poolVars>>
               \/ part = "tree" /\ Kfc!Next /\ UNCHANGED <<heapVars, poolVars>>
               \/ part = "registry" /\ Next /\ UNCHANGED <<heapVars, treeVars>>
            /\ UNCHANGED part

PoolSpec == PoolInit /\ [][PoolNext]_<<part, heapVars, treeVars, poolVars>>

(* The infos and blocks have their types, the chunks tile the heap, and the  *)
(* nodes of the tree have their types.                                       *)
PoolTypeOK == TypeOK /\ HeapTypeOK /\ Kfc!TypeOK

(* The tree of free chunks is the search tree its comment describes, equal   *)
(* sizes included, so that remove_tree_node finds the slot of every node;    *)
(* and alloc_hmu takes a chunk of the least size that fits, and finds one    *)
(* whenever there is one (KfcTree!SearchTree, KfcTree!BestFit).              *)
SearchTree == Kfc!SearchTree /\ Kfc!BestFit
=============================================================================
