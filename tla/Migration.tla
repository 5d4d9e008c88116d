----------------------------- MODULE Migration -----------------------------
(***************************************************************************)
(* Checkpoint and restore of the object graph in the pool                  *)
(* (wasm_memory.c, wasm_dump.c, wasm_restore.c).                           *)
(*                                                                         *)
(* A checkpoint walks root_info and writes pool_info.img (what to allocate) *)
(* and dump.img (what the blocks hold), with every pointer replaced by the  *)
(* offset p_abs of its target in the pool; then the interpreter writes its  *)
(* own pointers to interp.img and the process ends.  A new process          *)
(* allocates the blocks again, wherever its pool has room, fills them, and  *)
(* translates every p_abs to the address that get_info finds for it.        *)
(*                                                                         *)
(* A unit of a block of type "list" or "ex" holds one pointer; the bytes of *)
(* a "buf" are copied as they are and hold none.  local stands for the      *)
(* pointer variables of wasm_interp_call_func_bytecode.                     *)
(***************************************************************************)
EXTENDS PoolInfo

CONSTANT MaxGen  \* bound on the checkpoints of a behaviour

ASSUME MigrationAssumption == MaxGen \in Nat /\ PoolSize > 0

VARIABLES mem,        \* the pointer in every unit that holds one
          local,      \* a pointer held by the running interpreter function
          migr_flag,  \* its parameter: it was entered by a restore
          phase,      \* where the process is in its life
          pool_img, dump_img, interp_img, \* the image files
          pos,        \* next record of the image that is being read
          gen,        \* checkpoints so far
          snap        \* history: the pool at the last checkpoint

imgVars == <<pool_img, dump_img, interp_img, snap, gen>>
vars == <<poolVars, mem, local, migr_flag, phase, pos, imgVars>>

NULL == 0

AbsNull == -1

Phases == {"run", "down", "alloc", "fill", "wasi", "interp", "crashed"}

(* The units of a block that hold pointers, and the addresses that have a   *)
(* Pool_Info of their own, which a pointer may name.                        *)
PtrUnits(bs) == UNION {b.addr .. b.addr + b.size - 1 : b \in {c \in bs : c.type \in {"list", "ex"}}}

Elements(bs) == UNION {b.addr .. b.addr + InfoCount(b) - 1 : b \in {c \in bs : c.type # "skip"}}

(* Faulty: looks at the heads only.                                         *)
FoundHeads(x, s) == {i \in 1 .. Len(s) : s[i].abs[1] = x}

(* get_info: the address of the first info or list element with this p_abs. *)
Found(x, s) == {i \in 1 .. Len(s) : \E k \in 1 .. Len(s[i].abs) : s[i].abs[k] = x}

(* Faulty: returns the head for a list element.                             *)
GetInfoHead(x, s) ==
    s[CHOOSE i \in Found(x, s) : \A j \in Found(x, s) : i <= j].p_raw

GetInfo(x, s) ==
    LET i == CHOOSE i \in Found(x, s) : \A j \in Found(x, s) : i <= j
        k == CHOOSE k \in 1 .. Len(s[i].abs) :
                s[i].abs[k] = x /\ \A l \in 1 .. k - 1 : s[i].abs[l] # x
    IN  s[i].p_raw + k - 1

(* RESTORE_PTR, where get_info does not exit.                               *)
Resolves(x, s) == x = AbsNull \/ Found(x, s) # {}

RestorePtr(x, s) == IF x = AbsNull THEN NULL ELSE GetInfo(x, s)

(* DUMP_PTR.                                                               *)
DumpPtr(p) == IF p = NULL THEN AbsNull ELSE p - pool_allocator

-----------------------------------------------------------------------------
(* wasm_runtime_full_init makes the pool and registers the native symbols,  *)
(* which a checkpoint leaves out.                                           *)
InitBlock(base) == [addr |-> base + 1, size |-> 1, type |-> "skip"]

InitInfo(base) == [p_raw |-> base + 1, type |-> "skip", size |-> 1, abs |-> <<1>>]

MInit == /\ pool_allocator \in Bases
         /\ blocks = {InitBlock(pool_allocator)}
         /\ root_info = <<InitInfo(pool_allocator)>>
         /\ exited = FALSE
         /\ mem = <<>> /\ local = NULL /\ migr_flag = FALSE /\ phase = "run"
         /\ pool_img = <<>> /\ dump_img = <<>> /\ interp_img = AbsNull
         /\ pos = 1 /\ gen = 0
         /\ snap = [base |-> pool_allocator, blocks |-> {}, mem |-> <<>>, local |-> NULL]

(* The interpreter is executing; after the last checkpoint and restore of a  *)
(* behaviour nothing is left to observe.                                    *)
Running == phase = "run" /\ gen < MaxGen

(* A structure is cleared when it is allocated (loader_malloc and            *)
(* runtime_malloc).                                                         *)
New(b) ==
    /\ Running
    /\ Alloc(b)
    /\ mem' = [u \in PtrUnits(blocks') |-> IF u \in DOMAIN mem THEN mem[u] ELSE NULL]
    /\ UNCHANGED <<local, migr_flag, phase, pos, imgVars>>

(* A block is freed when nothing points to it any more.                     *)
Delete(b) ==
    /\ Running
    /\ \A u \in PtrUnits(blocks \ {b}) : mem[u] \notin Elements({b})
    /\ local \notin Elements({b})
    /\ Free(b)
    /\ mem' = [u \in PtrUnits(blocks') |-> mem[u]]
    /\ UNCHANGED <<local, migr_flag, phase, pos, imgVars>>

SetPtr(u, p) ==
    /\ Running
    /\ mem' = [mem EXCEPT ![u] = p]
    /\ UNCHANGED <<poolVars, local, migr_flag, phase, pos, imgVars>>

SetLocal(p) ==
    /\ Running
    /\ local' = p
    /\ UNCHANGED <<poolVars, mem, migr_flag, phase, pos, imgVars>>

(* wasm_enlarge_memory also stores the new address in memory_data.          *)
Grow(b, c) ==
    LET moved(p) == IF p = b.addr THEN c.addr ELSE p
    IN  /\ Running
        /\ Enlarge(b, c)
        /\ mem' = [u \in DOMAIN mem |-> moved(mem[u])]
        /\ local' = moved(local)
        /\ UNCHANGED <<migr_flag, phase, pos, imgVars>>

-----------------------------------------------------------------------------
(* The checkpoint that the signal asks for.  p_abs is recomputed only in an *)
(* invocation that was itself entered by a restore.                         *)
Dumped(s) ==
    LET upto[n \in 0 .. Len(s)] ==
            IF n = 0 THEN <<>>
            ELSE IF s[n].type = "skip" THEN upto[n - 1] ELSE Append(upto[n - 1], s[n])
    IN  upto[Len(s)]

PoolRecord(info) == [abs |-> info.abs, type |-> info.type, size |-> info.size]

DataRecord(info) ==
    [abs |-> info.abs[1],
     ptrs |-> [k \in 1 .. (IF info.type = "buf" THEN 0 ELSE info.size) |->
                  DumpPtr(mem[info.p_raw + k - 1])]]

dump_runtime(s) ==
    /\ pool_img' = [i \in 1 .. Len(s) |-> PoolRecord(s[i])]
    /\ dump_img' = [i \in 1 .. Len(s) |-> DataRecord(s[i])]

Checkpoint ==
    /\ Running
    /\ dump_runtime(Dumped(IF migr_flag THEN Translate(root_info) ELSE root_info))
    /\ interp_img' = DumpPtr(local)
    /\ snap' = [base |-> pool_allocator, blocks |-> blocks, mem |-> mem, local |-> local]
    /\ gen' = gen + 1
    /\ phase' = "down"
    /\ blocks' = {} /\ root_info' = <<>> /\ mem' = <<>> /\ local' = NULL
    /\ UNCHANGED <<pool_allocator, exited, migr_flag, pos>>

(* A new process, which calls wasm_runtime_full_init before it restores.    *)
Boot(base) ==
    /\ phase = "down"
    /\ pool_allocator' = base
    /\ blocks' = {InitBlock(base)} /\ root_info' = <<InitInfo(base)>>
    /\ phase' = "alloc" /\ pos' = 1
    /\ UNCHANGED <<exited, mem, local, migr_flag, imgVars>>

(* restore_runtime, one record of pool_info.img: the block is allocated and *)
(* its info, with the p_abs of the old process, becomes the head.           *)
RestoreInfo(a) ==
    LET r == pool_img[pos]
        b == [addr |-> a, size |-> r.size, type |-> r.type]
    IN  /\ phase = "alloc" /\ pos <= Len(pool_img)
        /\ Fits(b, blocks)
        /\ blocks' = blocks \cup {b}
        /\ root_info' = <<[p_raw |-> a, type |-> r.type, size |-> r.size, abs |-> r.abs]>> \o root_info
        /\ mem' = [u \in PtrUnits(blocks') |-> IF u \in DOMAIN mem THEN mem[u] ELSE NULL]
        /\ pos' = pos + 1
        /\ UNCHANGED <<pool_allocator, exited, local, migr_flag, phase, imgVars>>

(* wasm_runtime_malloc may fail here; the NULL is used as an address.       *)
RestoreNoSpace ==
    /\ phase = "alloc" /\ pos <= Len(pool_img)
    /\ \A a \in Addrs : ~ Fits([addr |-> a, size |-> pool_img[pos].size, type |-> "buf"], blocks)
    /\ phase' = "crashed"
    /\ UNCHANGED <<poolVars, mem, local, migr_flag, pos, imgVars>>

StartFill ==
    /\ phase = "alloc" /\ pos > Len(pool_img)
    /\ phase' = "fill" /\ pos' = 1
    /\ UNCHANGED <<poolVars, mem, local, migr_flag, imgVars>>

(* restore_internal, one record of dump.img; get_info exits if it fails.    *)
RestoreData ==
    LET r == dump_img[pos]
        n == Len(r.ptrs)
        a == GetInfo(r.abs, root_info)
    IN  /\ phase = "fill" /\ pos <= Len(dump_img) /\ ~ exited
        /\ IF /\ Found(r.abs, root_info) # {}
              /\ \A k \in 1 .. n : Resolves(r.ptrs[k], root_info)
           THEN /\ mem' = [u \in DOMAIN mem |->
                              IF u \in a .. a + n - 1
                              THEN RestorePtr(r.ptrs[u - a + 1], root_info) ELSE mem[u]]
                /\ pos' = pos + 1 /\ UNCHANGED exited
           ELSE exited' = TRUE /\ UNCHANGED <<mem, pos>>
        /\ UNCHANGED <<pool_allocator, blocks, root_info, local, migr_flag, phase, imgVars>>

EndFill ==
    /\ phase = "fill" /\ pos > Len(dump_img)
    /\ phase' = "wasi"
    /\ UNCHANGED <<poolVars, mem, local, migr_flag, pos, imgVars>>

(* restore_frame_internal calls wasm_runtime_init_wasi, which registers a   *)
(* new WASIContext in front of the restored infos.                          *)
InitWasi(b) ==
    /\ phase = "wasi"
    /\ b.size = 1 /\ Fits(b, blocks)
    /\ blocks' = blocks \cup {b}
    /\ root_info' = AddInfo(b, root_info)
    /\ phase' = "interp"
    /\ UNCHANGED <<pool_allocator, exited, mem, local, migr_flag, pos, imgVars>>

InitWasiFails ==
    /\ phase = "wasi"
    /\ \A a \in Addrs : ~ Fits([addr |-> a, size |-> 1, type |-> "skip"], blocks)
    /\ phase' = "interp"
    /\ UNCHANGED <<poolVars, mem, local, migr_flag, pos, imgVars>>

(* Faulty: takes the offset as one in the new pool.                         *)
RestoreInterpOffset ==
    /\ phase = "interp"
    /\ local' = (IF interp_img = AbsNull THEN NULL ELSE pool_allocator + interp_img)
    /\ phase' = "run" /\ migr_flag' = TRUE
    /\ UNCHANGED <<poolVars, mem, pos, imgVars>>

(* The interpreter reads interp.img and continues where it was.             *)
RestoreInterp ==
    /\ phase = "interp" /\ ~ exited
    /\ IF Resolves(interp_img, root_info)
       THEN /\ local' = RestorePtr(interp_img, root_info)
            /\ phase' = "run" /\ migr_flag' = TRUE /\ UNCHANGED exited
       ELSE exited' = TRUE /\ UNCHANGED <<local, phase, migr_flag>>
    /\ UNCHANGED <<pool_allocator, blocks, root_info, mem, pos, imgVars>>

-----------------------------------------------------------------------------
SkipBlocks == {b \in Blocks : b.type = "skip"}

MNext ==
    \/ \E b \in Blocks \ SkipBlocks : New(b)
    \/ \E b \in blocks \ SkipBlocks : Delete(b)
    \/ \E u \in DOMAIN mem, p \in Elements(blocks) \cup {NULL} : SetPtr(u, p)
    \/ \E p \in Elements(blocks) \cup {NULL} : SetLocal(p)
    \/ \E b \in blocks, c \in Blocks : Grow(b, c)
    \/ Checkpoint
    \/ \E base \in Bases : Boot(base)
    \/ \E a \in Addrs : RestoreInfo(a)
    \/ RestoreNoSpace \/ StartFill \/ RestoreData \/ EndFill
    \/ \E b \in SkipBlocks : InitWasi(b)
    \/ InitWasiFails \/ RestoreInterp

MSpec == MInit /\ [][MNext]_vars

-----------------------------------------------------------------------------
(* The state has its type.                                                  *)
MTypeOK ==
    /\ TypeOK
    /\ phase \in Phases /\ migr_flag \in BOOLEAN /\ gen \in 0 .. MaxGen
    /\ DOMAIN mem = PtrUnits(blocks)
    /\ \A u \in DOMAIN mem : mem[u] \in Elements(blocks) \cup {NULL}
    /\ pos \in Nat

(* The places in pool_info.img where a p_abs is, and a p_abs at one of them. *)
Named == {n \in (1 .. Len(pool_img)) \X (1 .. MaxSize) : n[2] <= Len(pool_img[n[1]].abs)}

NamesOne(x) == \E n \in Named : \A m \in Named : pool_img[m[1]].abs[m[2]] = x <=> m = n

(* Every p_abs in dump.img is the p_abs of exactly one element that         *)
(* pool_info.img tells the new process to allocate: the files of a          *)
(* checkpoint fit each other, also when the process that wrote them was     *)
(* itself restored.                                                         *)
ImageClosed ==
    \A i \in 1 .. Len(dump_img) :
        /\ NamesOne(dump_img[i].abs)
        /\ \A k \in 1 .. Len(dump_img[i].ptrs) :
              dump_img[i].ptrs[k] = AbsNull \/ NamesOne(dump_img[i].ptrs[k])

(* A checkpoint walks an exact list of the blocks, and what it writes names *)
(* nothing outside of itself.                                               *)
ImageExact == RegistryMirrorsPool /\ ImageClosed

(* Where the element at x in the pool of the checkpoint is after restore.   *)
Home(x) ==
    CHOOSE p \in Addrs \cup {NULL} :
        IF x = NULL THEN p = NULL
        ELSE \E i \in 1 .. Len(root_info) :
                /\ root_info[i].type # "skip"
                /\ \E k \in 1 .. Len(root_info[i].abs) :
                      /\ root_info[i].abs[k] = x - snap.base
                      /\ p = root_info[i].p_raw + k - 1

(* When restore_internal is done the new pool holds the old object graph:   *)
(* every block that a checkpoint writes has one copy, of its type and size, *)
(* and every pointer names the copy of what it named.                       *)
GraphRestored ==
    phase = "wasi" =>
        /\ \A b \in snap.blocks : b.type # "skip" =>
              [b EXCEPT !.addr = Home(b.addr)] \in blocks
        /\ \A b, c \in snap.blocks :
              b.type # "skip" /\ c.type # "skip" /\ Home(b.addr) = Home(c.addr) => b = c
        /\ \A b \in snap.blocks, u \in DOMAIN snap.mem :
              u \in PtrUnits({b}) => mem[Home(b.addr) + u - b.addr] = Home(snap.mem[u])

(* The WASIContext, registered before interp.img is read and in front of    *)
(* all others, lies at the offset that the object had in the old pool.      *)
Shadowed == root_info[1].type = "skip" /\ root_info[1].abs[1] = interp_img

(* The interpreter resumes with the pointers it had: what interp.img gives  *)
(* to local is the copy of the object local pointed to, unless Shadowed.    *)
LocalRestored ==
    [][phase = "interp" /\ phase' = "run" /\ snap.local \in Elements(snap.blocks) \cup {NULL}
         => local' = Home(snap.local) \/ Shadowed]_vars

(* Every p_abs that a restore looks up is found, and free_info finds every  *)
(* block, so exit(1) is not reached; but a pointer that was Shadowed in the *)
(* last restore names a WASIContext, which the next checkpoint leaves out.  *)
NoRestoreError ==
    exited => phase = "interp" /\ snap.local \notin Elements(snap.blocks) \cup {NULL}
=============================================================================
