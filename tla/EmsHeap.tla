------------------------------ MODULE EmsHeap ------------------------------
(***************************************************************************)
(* The EMS allocator (core/shared/mem-alloc/ems), which hands out the       *)
(* blocks of the pool and of the heap of a module instance.                 *)
(*                                                                         *)
(* The heap is a row of chunks (HMUs).  A header has the use type, the size *)
(* and the P bit; the last word of a free chunk repeats its size, so that   *)
(* the chunk behind it can find its start.  Free chunks below MaxNormal     *)
(* are in LIFO lists by size, the others in a tree by size, of which only   *)
(* the contents matter here (module KfcTree has its shape).  Addresses and  *)
(* sizes are in units of 8 bytes; the smallest chunk has 2.  The words that *)
(* users write are taken as 0.                                              *)
(***************************************************************************)
EXTENDS Integers, Sequences, FiniteSets, BhList

CONSTANTS HeapSize,  \* current_size
          MaxNormal, \* HMU_FC_NORMAL_MAX_SIZE
          HeapBases, \* addresses the heap may have
          MoveListed,\* may the heap move while a normal list has a chunk?
          MaxRealloc \* bound on the reallocs under way

ASSUME HeapAssumption == /\ HeapSize \in Nat /\ MaxNormal \in 3 .. HeapSize
                         /\ HeapBases \subseteq Nat /\ MaxRealloc \in Nat
                         /\ MoveListed \in BOOLEAN

VARIABLES base_addr,
          chunk,           \* start |-> header, of the chunks there are
          footer,          \* end |-> the word before it
          kfc_normal_list, \* size |-> starts, the head first
          kfc_tree,        \* starts of the chunks in the tree
          total_free_size,
          is_heap_corrupted,
          old              \* chunks that a realloc has copied and not yet freed

heapVars == <<base_addr, chunk, footer, kfc_normal_list, kfc_tree,
              total_free_size, is_heap_corrupted, old>>

Smallest == 2  \* GC_SMALLEST_SIZE

Hmu(ut, size, p) == [ut |-> ut, size |-> size, p |-> p]

End == base_addr + HeapSize

InHeap(a) == a \in base_addr .. End - 1

IsNormal(size) == size < MaxNormal

(* A state of the structures that the operations below take and return.     *)
Heap == [chunk |-> chunk, footer |-> footer, normal |-> kfc_normal_list, tree |-> kfc_tree]

Put(h, a, hmu) == [h EXCEPT !.chunk = [x \in DOMAIN @ \cup {a} |-> IF x = a THEN hmu ELSE @[x]]]

Drop(h, a) == [h EXCEPT !.chunk = [x \in DOMAIN @ \ {a} |-> @[x]]]

Become(h) == /\ chunk' = h.chunk /\ footer' = h.footer
             /\ kfc_normal_list' = h.normal /\ kfc_tree' = h.tree

(* The words of the chunk: the last one has the given value.                *)
Words(h, a, size, last) ==
    [h EXCEPT !.footer = [x \in DOMAIN @ |-> IF x = a + size THEN last
                                             ELSE IF a < x /\ x < a + size THEN 0 ELSE @[x]]]

-----------------------------------------------------------------------------
(* gci_add_fc: the chunk at a, whose P bit stays as it is.                  *)
AddFc(h, a, size, p) ==
    LET g == Words(Put(h, a, Hmu("FC", size, p)), a, size, size)
    IN  IF IsNormal(size) THEN [g EXCEPT !.normal[size] = bh_list_insert(@, a)]
        ELSE [g EXCEPT !.tree = @ \cup {a}]

(* Faulty: takes the head of the list for the chunk.                        *)
UnlinkHead(h, a) ==
    LET size == h.chunk[a].size
    IN  IF IsNormal(size) THEN [h EXCEPT !.normal[size] = Tail(@)]
        ELSE [h EXCEPT !.tree = @ \ {a}]

(* unlink_hmu, where it does not find the heap corrupted; it cuts the link  *)
(* to the chunk as bh_list_remove does.                                     *)
Unlink(h, a) ==
    LET size == h.chunk[a].size
    IN  IF IsNormal(size) THEN [h EXCEPT !.normal[size] = bh_list_remove(@, a)]
        ELSE [h EXCEPT !.tree = @ \ {a}]

(* unlink_hmu walks the list of a normal chunk up to the chunk and stops at *)
(* a node that is not in the heap.                                          *)
UnlinkFails(h, a) ==
    LET l == h.normal[h.chunk[a].size]
    IN  /\ IsNormal(h.chunk[a].size)
        /\ \E i \in 1 .. Len(l) : ~ InHeap(l[i]) /\ \A j \in 1 .. i - 1 : l[j] # a

MarkPinuse(h, a) == IF InHeap(a) THEN [h EXCEPT !.chunk[a].p = TRUE] ELSE h

(* Faulty: splits off a rest of any size.                                   *)
SplitsAny(size, n) == size >= n + 1

Splits(size, n) == size >= n + Smallest

(* The rest of alloc_hmu once it has the free chunk a out of its list: the  *)
(* end is split off if it makes a chunk.                                    *)
Take(h, a, n) ==
    LET size == h.chunk[a].size
        used == IF Splits(size, n) THEN n ELSE size
        g == Words(Put(h, a, Hmu("VO", used, h.chunk[a].p)), a, used, 0)
    IN  IF Splits(size, n) THEN AddFc(g, a + n, size - n, TRUE)
        ELSE MarkPinuse(g, a + size)

(* The chunks that alloc_hmu may choose for n units: the head of the first  *)
(* normal list that has one, else a best fit of the tree.                   *)
NormalFit(n) == {s \in n .. MaxNormal - 1 : kfc_normal_list[s] # <<>>}

TreeFit(n) == {a \in kfc_tree : chunk[a].size >= n}

FitsOf(n) ==
    IF IsNormal(n) /\ NormalFit(n) # {}
    THEN {kfc_normal_list[s][1] : s \in {s \in NormalFit(n) : \A r \in NormalFit(n) : s <= r}}
    ELSE {a \in TreeFit(n) : \A b \in TreeFit(n) : chunk[a].size <= chunk[b].size}

-----------------------------------------------------------------------------
HeapInit == /\ base_addr \in HeapBases
            /\ chunk = [a \in {base_addr} |-> Hmu("FC", HeapSize, TRUE)]
            /\ footer = [a \in base_addr .. End |-> 0]
            /\ kfc_normal_list = [s \in 1 .. MaxNormal - 1 |-> <<>>]
            /\ kfc_tree = {base_addr}
            /\ total_free_size = HeapSize
            /\ is_heap_corrupted = FALSE
            /\ old = {}

(* alloc_hmu for n units.  A choice outside the heap, which only a list can *)
(* hold, marks the heap corrupted.                                          *)
AllocHmu(n) ==
    \E a \in FitsOf(n) :
        IF ~ InHeap(a)
        THEN /\ is_heap_corrupted' = TRUE
             /\ UNCHANGED <<chunk, footer, kfc_normal_list, kfc_tree, total_free_size>>
        ELSE LET h == Take(Unlink(Heap, a), a, n)
             IN  /\ Become(h)
                 /\ total_free_size' = total_free_size - h.chunk[a].size
                 /\ UNCHANGED is_heap_corrupted

gc_alloc_vo(n) ==
    /\ ~ is_heap_corrupted
    /\ AllocHmu(n)
    /\ UNCHANGED <<base_addr, old>>

(* Faulty: does not look for a free chunk before the one that is freed.     *)
FreeVoForward(a) ==
    LET size == chunk[a].size
        b == a + size
        joinNext == InHeap(b) /\ chunk[b].ut = "FC"
        total == size + (IF joinNext THEN chunk[b].size ELSE 0)
        g == IF joinNext THEN Drop(Unlink(Heap, b), b) ELSE Heap
        h == AddFc(g, a, total, chunk[a].p)
    IN  /\ Become(IF InHeap(a + total) THEN [h EXCEPT !.chunk[a + total].p = FALSE] ELSE h)
        /\ total_free_size' = total_free_size + size
        /\ UNCHANGED is_heap_corrupted

(* gc_free_vo: joins the free chunks on both sides; the one before is found *)
(* through the P bit and the word before the header.                        *)
FreeVo(a) ==
    LET size == chunk[a].size
        before == a - footer[a]
        joinPrev == /\ ~ chunk[a].p /\ InHeap(before)
                    /\ chunk[before].ut = "FC"
        start == IF joinPrev THEN before ELSE a
        b == a + size
        joinNext == InHeap(b) /\ chunk[b].ut = "FC"
        total == (IF joinPrev THEN chunk[before].size ELSE 0) + size
                 + (IF joinNext THEN chunk[b].size ELSE 0)
        g1 == IF joinPrev THEN Unlink(Heap, before) ELSE Heap
        g2 == IF joinNext THEN Drop(Unlink(g1, b), b) ELSE g1
        g3 == AddFc(IF joinPrev THEN Drop(g2, a) ELSE g2, start, total, chunk[start].p)
        g4 == IF InHeap(start + total) THEN [g3 EXCEPT !.chunk[start + total].p = FALSE] ELSE g3
        prevFails == joinPrev /\ UnlinkFails(Heap, before)
        nextFails == joinNext /\ UnlinkFails(g1, b)
    IN  /\ total_free_size' = total_free_size + size
        /\ Become(IF prevFails THEN Heap ELSE IF nextFails THEN g1 ELSE g4)
        /\ is_heap_corrupted' = (prevFails \/ nextFails)

InUse == {a \in DOMAIN chunk : chunk[a].ut = "VO"}

gc_free_vo(a) ==
    /\ ~ is_heap_corrupted
    /\ FreeVo(a)
    /\ UNCHANGED <<base_addr, old>>

(* gc_realloc_vo, to n units.  Where the next chunk is free and large       *)
(* enough the chunk grows in place; the bits of the header that is made for *)
(* the rest are those that lie there.                                       *)
NextHmu(a) == a + chunk[a].size

GrowsInPlace(a, n) ==
    /\ InHeap(NextHmu(a)) /\ chunk[NextHmu(a)].ut = "FC"
    /\ n <= chunk[a].size + chunk[NextHmu(a)].size

ReallocInPlace(a, n) ==
    /\ ~ is_heap_corrupted
    /\ n > chunk[a].size /\ GrowsInPlace(a, n)
    /\ ~ UnlinkFails(Heap, NextHmu(a))
    /\ LET total == chunk[a].size + chunk[NextHmu(a)].size
           g == Words(Put(Drop(Unlink(Heap, NextHmu(a)), NextHmu(a)), a, Hmu("VO", n, chunk[a].p)), a, n, 0)
       IN  IF n < total THEN \E p \in BOOLEAN : Become(AddFc(g, a + n, total - n, p))
           ELSE Become(g)
    /\ UNCHANGED <<base_addr, total_free_size, is_heap_corrupted, old>>

(* Otherwise a new chunk is allocated, and the old one is freed after the   *)
(* lock was released.                                                       *)
ReallocMove(a, n) ==
    /\ ~ is_heap_corrupted
    /\ Cardinality(old) < MaxRealloc
    /\ n > chunk[a].size /\ ~ GrowsInPlace(a, n)
    /\ AllocHmu(n)
    /\ old' = IF is_heap_corrupted' THEN old ELSE old \cup {a}
    /\ UNCHANGED base_addr

ReallocFree(a) ==
    /\ ~ is_heap_corrupted
    /\ FreeVo(a)
    /\ old' = old \ {a}
    /\ UNCHANGED base_addr

(* gc_migrate: the bytes have moved with the linear memory; the tree is     *)
(* relocated, the heads of the normal lists are not.                        *)
gc_migrate(b) ==
    LET d == b - base_addr
        move(f) == [x \in {y + d : y \in DOMAIN f} |-> f[x - d]]
    IN  /\ d # 0
        /\ MoveListed \/ \A s \in DOMAIN kfc_normal_list : kfc_normal_list[s] = <<>>
        /\ base_addr' = b
        /\ chunk' = move(chunk) /\ footer' = move(footer)
        /\ kfc_tree' = {a + d : a \in kfc_tree}
        /\ old' = {a + d : a \in old}
        /\ UNCHANGED <<kfc_normal_list, total_free_size, is_heap_corrupted>>

-----------------------------------------------------------------------------
Sizes == Smallest .. HeapSize

HeapNext == \/ \E n \in Sizes : gc_alloc_vo(n)
            \/ \E a \in InUse \ old : gc_free_vo(a)
            \/ \E a \in InUse \ old, n \in Sizes : ReallocMove(a, n)
            \/ \E a \in old : ReallocFree(a)
            \/ \E b \in HeapBases : gc_migrate(b)

HeapSpec == HeapInit /\ [][HeapNext]_heapVars

(* With the realloc that does not keep the invariants below.                *)
ReallocSpec ==
    HeapInit /\ [][HeapNext \/ \E a \in InUse \ old, n \in Sizes : ReallocInPlace(a, n)]_heapVars

-----------------------------------------------------------------------------
(* The state has its type, and the chunks tile the heap: walking from       *)
(* header to header by size, as gc_migrate and gci_dump do, meets every     *)
(* chunk and ends at the end.                                               *)
HeapTypeOK == /\ base_addr \in DOMAIN chunk
              /\ \A a \in DOMAIN chunk :
                    /\ InHeap(a) /\ chunk[a].size \in Sizes
                    /\ NextHmu(a) = End \/ NextHmu(a) \in DOMAIN chunk
                    /\ \A b \in DOMAIN chunk : ~ (a < b /\ b < NextHmu(a))
              /\ total_free_size \in 0 .. HeapSize
              /\ old \subseteq InUse

(* "P in use bit means the previous chunk is in use", and where it is not,  *)
(* the word before the header leads to the previous chunk.                  *)
PinuseRight ==
    \A a \in DOMAIN chunk :
        InHeap(NextHmu(a)) =>
            /\ chunk[NextHmu(a)].p <=> chunk[a].ut = "VO"
            /\ chunk[a].ut = "FC" => footer[NextHmu(a)] = chunk[a].size

(* Free neighbours are joined at once: what fails to be allocated fails for *)
(* fragmentation by live chunks only.                                       *)
Coalesced == \A a \in DOMAIN chunk :
                InHeap(NextHmu(a)) => chunk[a].ut = "VO" \/ chunk[NextHmu(a)].ut = "VO"

(* The boundary tags by which gc_free_vo finds the neighbours to join with  *)
(* are right in every state, and no two free neighbours are left apart.     *)
BoundaryTags == PinuseRight /\ Coalesced

(* Every free chunk is in the list of its size or in the tree, once, and    *)
(* nothing else is: an allocation never gets a chunk that is in use, a free *)
(* chunk is never lost, and a move of the heap takes them all along.        *)
FreeChunksListed ==
    LET free(s) == {a \in DOMAIN chunk : chunk[a].ut = "FC" /\ chunk[a].size = s}
    IN  /\ \A s \in DOMAIN kfc_normal_list :
              /\ Range(kfc_normal_list[s]) = free(s)
              /\ Len(kfc_normal_list[s]) = Cardinality(free(s))
        /\ kfc_tree = {a \in DOMAIN chunk : chunk[a].ut = "FC" /\ ~ IsNormal(chunk[a].size)}

(* The units of the heap that belong to free chunks.                        *)
FreeUnits == {u \in base_addr .. End - 1 :
                \E a \in DOMAIN chunk : /\ chunk[a].ut = "FC"
                                       /\ a <= u /\ u < NextHmu(a)}

(* The free space is known exactly: every free chunk can be found again,    *)
(* and total_free_size is what the free chunks have together.               *)
FreeSpaceExact == FreeChunksListed /\ total_free_size = Cardinality(FreeUnits)
=============================================================================
