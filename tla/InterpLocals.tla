---------------------------- MODULE InterpLocals ----------------------------
(***************************************************************************)
(* The local variables of wasm_interp_call_func_bytecode that cache the     *)
(* state of the module instance: linear_mem_size, global_data, global_addr  *)
(* and global; wasm_enlarge_memory, which makes the first of them stale;    *)
(* and their way through interp.img.                                        *)
(*                                                                         *)
(* invocations holds the locals of every active call of the function, the   *)
(* innermost last; all but the last wait in a native function that called   *)
(* back.  Addresses are offsets in the pool.  uint32 is 0 .. Word - 1.      *)
(***************************************************************************)
EXTENDS Integers, Sequences

CONSTANTS Word,         \* 2^32
          PageBytes,    \* num_bytes_per_page
          MaxPages,     \* max_page_count of the memory
          InitPages,    \* initial page counts
          Increments,   \* operands of memory.grow
          GlobalBases,  \* offsets that module->global_data may get
          Globals,      \* offsets of the globals in the global data
          Garbage,      \* values of an uninitialised pointer
          MaxDepth,     \* bound on nested invocations
          MaxGen        \* bound on the checkpoints

ASSUME LocalsAssumption == /\ Word \in Nat /\ PageBytes \in 1 .. Word - 1
                           /\ MaxPages \in 0 .. Word - 1
                           /\ InitPages \subseteq 0 .. MaxPages
                           /\ \A n \in InitPages : n * PageBytes < Word
                           /\ Increments \subseteq 0 .. Word - 1
                           /\ Globals \subseteq Nat /\ GlobalBases \subseteq Nat
                           /\ Garbage \subseteq Int
                           /\ MaxDepth \in Nat \ {0} /\ MaxGen \in Nat

VARIABLES cur_page_count, \* of module->default_memory
          base,           \* module->global_data
          invocations,    \* locals of the active calls
          native,         \* the innermost one is in a native function
          phase,          \* "run", "down" or "exited"
          image,          \* interp.img
          gen

vars == <<cur_page_count, base, invocations, native, phase, image, gen>>

NULL == 0

Top == invocations[Len(invocations)]

SetTop(l) == invocations' = [invocations EXCEPT ![Len(invocations)] = l]

MemSize(pages) == (PageBytes * pages) % Word

(* The initialisers at the head of the function; global_addr and global     *)
(* have none.                                                               *)
Locals(pages, gdata, addr, glob) ==
    [linear_mem_size |-> MemSize(pages), global_data |-> gdata,
     global_addr |-> addr, global |-> glob]

Init == /\ cur_page_count \in InitPages
        /\ base \in GlobalBases
        /\ \E a \in Garbage, g \in Garbage :
              invocations = <<Locals(cur_page_count, base, a, g)>>
        /\ native = FALSE /\ phase = "run" /\ image = <<>> /\ gen = 0

InLoop == phase = "run" /\ ~ native

(* WASM_OP_GET_GLOBAL and WASM_OP_SET_GLOBAL.                               *)
AccessGlobal(o) ==
    /\ InLoop
    /\ SetTop([Top EXCEPT !.global = base + o, !.global_addr = Top.global_data + o])
    /\ UNCHANGED <<cur_page_count, base, native, phase, image, gen>>

(* Faulty: no look at the overflow of the sum.                              *)
MayEnlargeWraps(inc) ==
    LET total == (inc + cur_page_count) % Word
    IN  total <= MaxPages /\ PageBytes * total < Word - 1

(* The conditions of wasm_enlarge_memory; the sum of the page counts is a   *)
(* uint32, the total size a uint64.                                         *)
MayEnlarge(inc) ==
    LET total == (inc + cur_page_count) % Word
    IN  \/ inc = 0
        \/ /\ total >= cur_page_count /\ total <= MaxPages
           /\ PageBytes * total < Word - 1

(* WASM_OP_MEMORY_GROW; the allocation may fail.                            *)
MemoryGrow(inc) ==
    /\ InLoop
    /\ MayEnlarge(inc)
    /\ cur_page_count' = (inc + cur_page_count) % Word
    /\ SetTop([Top EXCEPT !.linear_mem_size = MemSize(cur_page_count')])
    /\ UNCHANGED <<base, native, phase, image, gen>>

(* A native function, which may call back into the interpreter, and after   *)
(* it the refresh in call_func_from_entry.                                  *)
CallNative ==
    /\ InLoop
    /\ native' = TRUE
    /\ UNCHANGED <<cur_page_count, base, invocations, phase, image, gen>>

CallBack ==
    /\ phase = "run" /\ native
    /\ Len(invocations) < MaxDepth
    /\ \E a \in Garbage, g \in Garbage :
          invocations' = Append(invocations, Locals(cur_page_count, base, a, g))
    /\ native' = FALSE
    /\ UNCHANGED <<cur_page_count, base, phase, image, gen>>

(* Faulty: no refresh.                                                      *)
NativeReturnStale ==
    /\ phase = "run" /\ native
    /\ native' = FALSE
    /\ UNCHANGED <<cur_page_count, base, invocations, phase, image, gen>>

NativeReturn ==
    /\ phase = "run" /\ native
    /\ native' = FALSE
    /\ SetTop([Top EXCEPT !.linear_mem_size = MemSize(cur_page_count)])
    /\ UNCHANGED <<cur_page_count, base, phase, image, gen>>

Return ==
    /\ InLoop /\ Len(invocations) > 1
    /\ invocations' = SubSeq(invocations, 1, Len(invocations) - 1)
    /\ native' = TRUE
    /\ UNCHANGED <<cur_page_count, base, phase, image, gen>>

-----------------------------------------------------------------------------
(* The checkpoint writes the locals of the invocation that takes it:        *)
(* global_data and global as p_abs, global_addr relative to global_data.    *)
(* dump.img has the memory and the globals themselves.                      *)
Checkpoint ==
    /\ InLoop /\ gen < MaxGen
    /\ image' = [pages |-> cur_page_count, base |-> base, mem |-> Top.linear_mem_size,
                 data |-> Top.global_data, global |-> Top.global,
                 diff |-> Top.global_addr - Top.global_data]
    /\ phase' = "down" /\ gen' = gen + 1
    /\ UNCHANGED <<cur_page_count, base, invocations, native>>

(* What get_info knows of the global data and of the WASMGlobalInstances.   *)
Known(a) == a = NULL \/ a \in {image.base + o : o \in Globals}

(* The restored invocation, alone on the native stack.  What is read as     *)
(* global_addr is added to global_data; global_addr itself stays            *)
(* uninitialised.                                                           *)
Restore(b) ==
    /\ phase = "down"
    /\ base' = b
    /\ cur_page_count' = image.pages
    /\ IF image.data = image.base /\ Known(image.global)
       THEN /\ \E a \in Garbage :
                  invocations' = <<[linear_mem_size |-> image.mem,
                                    global_data |-> b + image.diff, global_addr |-> a,
                                    global |-> IF image.global = NULL THEN NULL
                                               ELSE image.global - image.base + b]>>
            /\ phase' = "run"
       ELSE phase' = "exited" /\ UNCHANGED invocations
    /\ native' = FALSE
    /\ UNCHANGED <<image, gen>>

Next == \/ \E o \in Globals : AccessGlobal(o)
        \/ \E inc \in Increments : MemoryGrow(inc)
        \/ CallNative \/ CallBack \/ NativeReturn \/ Return
        \/ Checkpoint \/ \E b \in GlobalBases : Restore(b)

Spec == Init /\ [][Next]_vars

-----------------------------------------------------------------------------
(* The state has its type; a page count is one that wasm_enlarge_memory     *)
(* allows.                                                                  *)
TypeOK == /\ cur_page_count \in 0 .. MaxPages
          /\ base \in GlobalBases
          /\ Len(invocations) \in 1 .. MaxDepth
          /\ native \in BOOLEAN /\ phase \in {"run", "down", "exited"}
          /\ gen \in 0 .. MaxGen

(* Whenever the interpreter executes, the bound that it checks memory       *)
(* accesses against is the size of the memory, not cut to 32 bits and not   *)
(* the size it had before a callback enlarged it or in an older process.    *)
LinearMemSizeExact ==
    InLoop => Top.linear_mem_size = PageBytes * cur_page_count

(* The memory never shrinks: not by an increment that wraps the page count, *)
(* and not on the way to another process.                                   *)
MemoryNeverShrinks == [][cur_page_count' >= cur_page_count]_vars

(* Whenever the interpreter executes, global_data is module->global_data,   *)
(* so that an access to a global reaches that global.                       *)
GlobalDataRight == InLoop => Top.global_data = base
=============================================================================
