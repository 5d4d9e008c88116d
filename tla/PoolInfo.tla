------------------------------ MODULE PoolInfo ------------------------------
(***************************************************************************)
(* The registry of pool blocks kept by core/iwasm/common/wasm_memory.c.     *)
(*                                                                         *)
(* Every block that the runtime takes from its memory pool is recorded in   *)
(* the linked list root_info as a Pool_Info.  The list is what a checkpoint *)
(* walks: a block that is missing from it is lost by the migration, and one *)
(* that is in it twice, or after it was freed, is written out wrongly.      *)
(*                                                                         *)
(* An address is an integer and an element of a block takes one unit, so    *)
(* that element k of the block at a is at a + k - 1.  A Pool_Info is        *)
(*   [p_raw, type, size, abs]                                              *)
(* where abs[1] is its field p_abs and abs[k + 1] the p_abs of the k-th     *)
(* Pool_Info of its list field.  The p_raw of that list element is always   *)
(* p_raw + k, so only its p_abs needs a place in the state.                 *)
(***************************************************************************)
EXTENDS Integers, Sequences, FiniteSets

CONSTANTS PoolSize,  \* units of the pool behind the heap structure
          MaxSize,   \* most elements of one block
          MaxBlocks, \* most blocks live at a time, besides the skipped ones
          Bases      \* addresses at which a process may have its pool

ASSUME PoolAssumption == /\ PoolSize \in Nat
                         /\ MaxSize \in Nat \ {0}
                         /\ MaxBlocks \in Nat
                         /\ Bases \subseteq Nat

VARIABLES pool_allocator, \* address of the pool of this process
          blocks,         \* the blocks the allocator has handed out
          root_info,      \* the list of Pool_Infos, head first
          exited          \* exit(1) was called

poolVars == <<pool_allocator, blocks, root_info, exited>>

(***************************************************************************)
(* The groups of Data_Type that restore_runtime tells apart: arrays of      *)
(* structures with one Pool_Info per element ("list"), buffers ("buf"),     *)
(* structures with a trailing array ("ex"), and the types that a checkpoint *)
(* leaves out ("skip").                                                    *)
(***************************************************************************)
Types == {"list", "buf", "ex", "skip"}

Addrs == pool_allocator + 1 .. pool_allocator + PoolSize

Blocks == [addr : Addrs, size : 1 .. MaxSize, type : Types]

PoolInfos == [p_raw : Int, type : Types, size : 1 .. MaxSize, abs : Seq(Int)]

(* What the allocator guarantees of a block it returns while bs are live.   *)
Overlap(b, c) == b.addr < c.addr + c.size /\ c.addr < b.addr + b.size

Fits(b, bs) == /\ b.addr + b.size - 1 <= pool_allocator + PoolSize
               /\ \A c \in bs : ~ Overlap(b, c)

-----------------------------------------------------------------------------
(* alloc_info, alloc_info_buf, alloc_info_ex and alloc_infos: a new head,   *)
(* with one list element for every element after the first of an array.    *)
InfoCount(b) == IF b.type = "list" THEN b.size ELSE 1

(* Faulty: a list that starts at the head, which has its own p_abs already. *)
NewInfoTwice(b) ==
    [p_raw |-> b.addr, type |-> b.type, size |-> b.size,
     abs |-> [k \in 1 .. InfoCount(b) |->
                 b.addr + (IF k = 1 THEN 0 ELSE k - 2) - pool_allocator]]

NewInfo(b) ==
    [p_raw |-> b.addr, type |-> b.type, size |-> b.size,
     abs |-> [k \in 1 .. InfoCount(b) |-> b.addr + k - 1 - pool_allocator]]

AddInfo(b, s) == <<NewInfo(b)>> \o s

(* Faulty: the search stops before the tail of the list.                    *)
FirstRawShort(a, s) ==
    {i \in 1 .. Len(s) - 1 : s[i].p_raw = a /\ \A j \in 1 .. i - 1 : s[j].p_raw # a}

(* The first info with this p_raw: what the first loop of free_info finds.  *)
FirstRaw(a, s) == {i \in 1 .. Len(s) : /\ s[i].p_raw = a
                                       /\ \A j \in 1 .. i - 1 : s[j].p_raw # a}

RemoveInfo(s, i) == [j \in 1 .. Len(s) - 1 |-> IF j < i THEN s[j] ELSE s[j + 1]]

(* Faulty: leaves the list elements as they are.                            *)
TranslateHeads(s) ==
    [i \in 1 .. Len(s) |->
        [s[i] EXCEPT !.abs = [@ EXCEPT ![1] = s[i].p_raw - pool_allocator]]]

(* abs_translation: p_abs of every info from the p_raw it has here.         *)
Translate(s) ==
    [i \in 1 .. Len(s) |->
        [s[i] EXCEPT !.abs = [k \in 1 .. Len(s[i].abs) |->
                                 s[i].p_raw + k - 1 - pool_allocator]]]

-----------------------------------------------------------------------------
Init == /\ pool_allocator \in Bases
        /\ blocks = {}
        /\ root_info = <<>>
        /\ exited = FALSE

(* wasm_runtime_malloc and the call of alloc_info* that follows it.         *)
Alloc(b) ==
    /\ ~ exited
    /\ Cardinality({c \in blocks : c.type # "skip"}) < MaxBlocks
    /\ Fits(b, blocks)
    /\ blocks' = blocks \cup {b}
    /\ root_info' = AddInfo(b, root_info)
    /\ UNCHANGED <<pool_allocator, exited>>

(* Faulty: no free_info.                                                    *)
FreeKeeps(b) ==
    /\ ~ exited
    /\ blocks' = blocks \ {b}
    /\ UNCHANGED <<pool_allocator, root_info, exited>>

(* wasm_runtime_free: the block goes back to the pool, then free_info takes *)
(* its info from the list, or ends the process if there is none.           *)
Free(b) ==
    /\ ~ exited
    /\ blocks' = blocks \ {b}
    /\ IF FirstRaw(b.addr, root_info) = {}
       THEN exited' = TRUE /\ UNCHANGED root_info
       ELSE /\ \E i \in FirstRaw(b.addr, root_info) :
                  root_info' = RemoveInfo(root_info, i)
            /\ UNCHANGED exited
    /\ UNCHANGED pool_allocator

(* wasm_enlarge_memory: realloc in place or elsewhere (or malloc, copy and  *)
(* free), free_info of the old address, alloc_info_buf of the new one.      *)
Enlarge(b, c) ==
    /\ ~ exited
    /\ b.type = "buf" /\ c.type = "buf"
    /\ c.size > b.size
    /\ IF c.addr = b.addr THEN Fits(c, blocks \ {b}) ELSE Fits(c, blocks)
    /\ blocks' = (blocks \ {b}) \cup {c}
    /\ IF FirstRaw(b.addr, root_info) = {}
       THEN exited' = TRUE /\ UNCHANGED root_info
       ELSE /\ \E i \in FirstRaw(b.addr, root_info) :
                  root_info' = AddInfo(c, RemoveInfo(root_info, i))
            /\ UNCHANGED exited
    /\ UNCHANGED pool_allocator

Next == \/ \E b \in Blocks : Alloc(b)
        \/ \E b \in blocks : Free(b)
        \/ \E b \in blocks, c \in Blocks : Enlarge(b, c)

Spec == Init /\ [][Next]_poolVars

-----------------------------------------------------------------------------
(* The state of the registry has its type.                                  *)
TypeOK == /\ pool_allocator \in Bases
          /\ blocks \subseteq Blocks
          /\ root_info \in Seq(PoolInfos)
          /\ exited \in BOOLEAN

Describes(info, b) == info.p_raw = b.addr /\ info.type = b.type /\ info.size = b.size

Mirrors(s, bs) ==
    /\ \A b \in bs : \E i \in 1 .. Len(s) : Describes(s[i], b)
    /\ \A i \in 1 .. Len(s) : \E b \in bs : Describes(s[i], b)
    /\ \A i, j \in 1 .. Len(s) : s[i].p_raw = s[j].p_raw => i = j

(* The list mirrors the pool: every live block has exactly one Pool_Info,   *)
(* with its type and its size, and no Pool_Info outlives its block.  What   *)
(* dump_runtime walks is then what the pool holds.                         *)
RegistryMirrorsPool == Mirrors(root_info, blocks)

(* No two Pool_Infos, of the list or of an element list, have the same      *)
(* p_abs, so a p_abs written by a checkpoint names one element: get_info    *)
(* cannot find another one first.                                          *)
AbsUnique ==
    \A i, j \in 1 .. Len(root_info) :
        \A k \in 1 .. Len(root_info[i].abs), l \in 1 .. Len(root_info[j].abs) :
            root_info[i].abs[k] = root_info[j].abs[l] => i = j /\ k = l

(* free_info finds every block the runtime frees: it never reaches its      *)
(* "free error" exit for a block that went through alloc_info*.             *)
NoFreeError == ~ exited
=============================================================================
