---------------------------- MODULE InterpFrames ----------------------------
(***************************************************************************)
(* The frames of the classic interpreter (wasm_interp_classic.c,            *)
(* wasm_exec_env.h), the signal that asks for a checkpoint, and the frames  *)
(* that a restored process builds from frame.img.                           *)
(*                                                                         *)
(* A frame lies on the WebAssembly stack of the execution environment, an   *)
(* array in the pool; exec_env is the offset of its bottom.  ALLOC_FRAME    *)
(* registers a frame as a Pool_Info of type WASMInterpFrameT, FREE_FRAME    *)
(* takes it out again.  The innermost frame tells where control is: in the  *)
(* interpreter loop ("wasm"), in a native function ("native"), or before    *)
(* the first opcode of an invocation ("entry", whose ip is NULL).  The      *)
(* embedder runs when there is no frame.                                    *)
(***************************************************************************)
EXTENDS Integers, Sequences, FiniteSets

CONSTANTS Code, MaxVal, \* as in WasmCalls
          FrameSize,  \* function |-> size of its frame
          EntrySize,  \* size of the frames of wasm_interp_call_wasm ...
          NativeSize, \* ... and of wasm_interp_call_func_native
          Envs,       \* offsets that exec_env may get in the pool
          AnyTime,    \* may SIGINT arrive before the first opcode of a call?
          Settings    \* what programs and embedders do; see setting

(* What the loader guarantees of code, and the types of the rest.           *)
ASSUME InterpAssumption ==
    /\ MaxVal \in Nat /\ EntrySize \in Nat \ {0} /\ NativeSize \in Nat \ {0}
    /\ Envs \subseteq Nat
    /\ \A f \in DOMAIN Code :
          /\ FrameSize[f] \in Nat \ {0}
          /\ Len(Code[f]) \in Nat \ {0} /\ Code[f][Len(Code[f])].op = "end"
          /\ \A i \in 1 .. Len(Code[f]) :
                /\ Code[f][i].op = "br_if" => Code[f][i].to \in 1 .. Len(Code[f])
                /\ Code[f][i].op = "call" => Code[f][i].fn \in DOMAIN Code
    /\ Settings \subseteq [callbacks : BOOLEAN, result : BOOLEAN, fail : BOOLEAN,
                           stack : Nat, calls : Nat, gens : Nat]

VARIABLES setting,   \* callbacks, result and fail as in WasmCalls; the size
                     \* of the stack; bounds on the calls of the embedder
                     \* and on the checkpoints
          exec_env,  \* offset of the stack of this process
          frames,    \* the frames, the oldest first
          infos,     \* the Pool_Infos of frames, in the order of the list
          pending,   \* an opcode is fetched and not yet executed
          exception, \* the module instance has an exception
          unwound,   \* history: an invocation of this process has failed
          sig_flag,  \* SIGINT has arrived
          phase,     \* "run", "down" (image written), "over" or "crashed"
          restored,  \* entry frame of the restored invocation, or 0
          image,     \* frame.img and what interp.img says of the frame
          calls, gen \* counters for the bounds

vars == <<setting, exec_env, frames, infos, pending, exception, unwound, sig_flag,
          phase, restored, image, calls, gen>>

failVars == <<exception, unwound>>

procVars == <<exec_env, phase, restored, image, gen>>

-----------------------------------------------------------------------------
Top == frames[Len(frames)]

Pop(s) == SubSeq(s, 1, Len(s) - 1)

SetTop(s, f) == Append(Pop(s), f)

StackTop(s) == IF s = <<>> THEN exec_env ELSE s[Len(s)].addr + s[Len(s)].size

EntryOf(s) == CHOOSE i \in 1 .. Len(s) : /\ s[i].kind = "entry"
                                        /\ \A j \in i + 1 .. Len(s) : s[j].kind # "entry"

(* wasm_exec_env_alloc_wasm_frame: the outs area may be as large as the     *)
(* frame, so twice the size must fit.                                       *)
HasRoom(s, size) == StackTop(s) + 2 * size <= exec_env + setting.stack

Frame(s, kind, fn, ip, size) ==
    [kind |-> kind, fn |-> fn, ip |-> ip, val |-> 0, addr |-> StackTop(s),
     size |-> size, sp |-> TRUE]

FrameInfo(f) == [p_raw |-> f.addr, p_abs |-> f.addr, size |-> f.size]

(* ALLOC_FRAME, where it succeeds: frames becomes s and one more.           *)
Alloc(s, kind, fn, ip, size) ==
    /\ frames' = Append(s, Frame(s, kind, fn, ip, size))
    /\ infos' = <<FrameInfo(Frame(s, kind, fn, ip, size))>> \o infos

(* free_info: the first info with this p_raw goes.                          *)
FirstInfo(a, l) == CHOOSE i \in 1 .. Len(l) : /\ l[i].p_raw = a
                                             /\ \A j \in 1 .. i - 1 : l[j].p_raw # a

Registered(a, l) == \E i \in 1 .. Len(l) : l[i].p_raw = a

FreeInfo(a, l) ==
    [j \in 1 .. Len(l) - 1 |-> IF j < FirstInfo(a, l) THEN l[j] ELSE l[j + 1]]

(* Faulty variants, which the properties must tell from Leave: the restored *)
(* invocation treated as any other; all frames dropped.                     *)
LeaveAlways(s, l) ==
    LET e == EntryOf(s)
    IN  /\ frames' = SubSeq(s, 1, e - 1) /\ infos' = FreeInfo(s[e].addr, l)
        /\ UNCHANGED procVars

(* The end of an invocation whose own frames are s and l: the rest of       *)
(* wasm_interp_call_wasm frees the entry frame, which makes it the top of   *)
(* the stack whatever lies above it.  A restored invocation has no          *)
(* wasm_interp_call_wasm above it: main returns.                            *)
Leave(s, l) ==
    LET e == EntryOf(s)
    IN  IF e = restored
        THEN /\ phase' = "over" /\ frames' = s /\ infos' = l
             /\ UNCHANGED <<exec_env, restored, image, gen>>
        ELSE /\ IF Registered(s[e].addr, l)
                THEN infos' = FreeInfo(s[e].addr, l) /\ UNCHANGED phase
                ELSE infos' = l /\ phase' = "crashed"
             /\ frames' = SubSeq(s, 1, e - 1)
             /\ UNCHANGED <<exec_env, restored, image, gen>>

GotException(s) ==
    /\ exception' = TRUE /\ unwound' = TRUE
    /\ Leave(s, infos)

-----------------------------------------------------------------------------
Init == /\ setting \in Settings /\ exec_env \in Envs
        /\ frames = <<>> /\ infos = <<>>
        /\ pending = FALSE /\ sig_flag = FALSE
        /\ exception = FALSE /\ unwound = FALSE
        /\ phase = "run" /\ restored = 0 /\ image = <<>>
        /\ calls = 0 /\ gen = 0

(* The handler is installed by the first invocation.                        *)
Signal ==
    /\ phase = "run" /\ ~ sig_flag
    /\ gen < setting.gens /\ calls > 0
    /\ AnyTime \/ (frames # <<>> /\ Top.kind # "entry")
    /\ sig_flag' = TRUE
    /\ UNCHANGED <<frames, infos, pending, failVars, calls, procVars>>

(* wasm_interp_call_wasm up to the interpreter.  The embedder clears an     *)
(* exception before it calls again.                                         *)
CallWasm(f) ==
    /\ phase = "run"
    /\ \/ frames = <<>> /\ restored = 0 /\ calls < setting.calls /\ calls' = calls + 1
       \/ /\ setting.callbacks /\ frames # <<>> /\ Top.kind = "native" /\ ~ exception
          /\ calls' = calls
    /\ IF HasRoom(frames, EntrySize)
       THEN Alloc(frames, "entry", f, 0, EntrySize) /\ exception' = FALSE
       ELSE exception' = TRUE /\ UNCHANGED <<frames, infos>>
    /\ UNCHANGED <<pending, unwound, sig_flag, procVars>>

At(kind) == phase = "run" /\ frames # <<>> /\ Top.kind = kind

(* The first iteration of the loop: the opcode is WASM_OP_IMPDEP and frame  *)
(* is still NULL, which a checkpoint would write through.                   *)
Enter ==
    /\ At("entry")
    /\ IF sig_flag
       THEN /\ phase' = "crashed"
            /\ UNCHANGED <<frames, infos, failVars, exec_env, restored, image, gen>>
       ELSE IF HasRoom(frames, FrameSize[Top.fn])
       THEN /\ Alloc(frames, "wasm", Top.fn, 1, FrameSize[Top.fn])
            /\ UNCHANGED <<failVars, procVars>>
       ELSE GotException(frames)
    /\ UNCHANGED <<pending, sig_flag, calls>>

(* Faulty: fetches without a look at sig_flag.                              *)
FetchOn ==
    /\ At("wasm") /\ ~ pending
    /\ frames' = SetTop(frames, [Top EXCEPT !.ip = @ + 1])
    /\ pending' = TRUE
    /\ UNCHANGED <<infos, failVars, sig_flag, calls, procVars>>

Fetch ==
    /\ At("wasm") /\ ~ pending /\ ~ sig_flag
    /\ frames' = SetTop(frames, [Top EXCEPT !.ip = @ + 1])
    /\ pending' = TRUE
    /\ UNCHANGED <<infos, failVars, sig_flag, calls, procVars>>

(* The opcodes, after RESUME.                                               *)
Opcode == Code[Top.fn][Top.ip - 1]

Executes(op) ==
    /\ At("wasm") /\ pending /\ Opcode.op = op
    /\ pending' = FALSE
    /\ UNCHANGED <<sig_flag, calls>>

Bump(v) == (v + 1) % (MaxVal + 1)

Plain ==
    /\ Executes("nop")
    /\ frames' = SetTop(frames, [Top EXCEPT !.val = Bump(@)])
    /\ UNCHANGED <<infos, failVars, procVars>>

Branch ==
    /\ Executes("br_if")
    /\ \E t \in {Opcode.to, Top.ip} : frames' = SetTop(frames, [Top EXCEPT !.ip = t])
    /\ UNCHANGED <<infos, failVars, procVars>>

CallOp ==
    /\ Executes("call")
    /\ IF HasRoom(frames, FrameSize[Opcode.fn])
       THEN /\ Alloc(frames, "wasm", Opcode.fn, 1, FrameSize[Opcode.fn])
            /\ UNCHANGED <<failVars, procVars>>
       ELSE GotException(frames)

(* Faulty: the frame comes from wasm_interp_alloc_frame, unregistered.      *)
CallNativeUnregistered ==
    /\ Executes("native")
    /\ IF HasRoom(frames, NativeSize)
       THEN /\ frames' = Append(frames, Frame(frames, "native", Top.fn, 0, NativeSize))
            /\ UNCHANGED <<infos, failVars, procVars>>
       ELSE GotException(frames)

CallNative ==
    /\ Executes("native")
    /\ IF HasRoom(frames, NativeSize)
       THEN /\ Alloc(frames, "native", Top.fn, 0, NativeSize)
            /\ UNCHANGED <<failVars, procVars>>
       ELSE GotException(frames)

Trap ==
    /\ setting.fail
    /\ \E op \in {"nop", "br_if", "call"} : Executes(op)
    /\ GotException(frames)

(* return_func: FREE_FRAME, and back to the caller; a caller without ip is  *)
(* the entry frame.  The result goes through the sp of the caller.          *)
End ==
    /\ Executes("end")
    /\ LET below  == Pop(frames)
           caller == below[Len(below)]
           result == IF setting.result THEN Top.val ELSE caller.val
           s == SetTop(below, [caller EXCEPT !.val = result])
       IN  IF setting.result /\ ~ caller.sp
           THEN /\ phase' = "crashed"
                /\ UNCHANGED <<frames, infos, exec_env, restored, image, gen>>
           ELSE IF ~ Registered(Top.addr, infos)
           THEN /\ phase' = "crashed"
                /\ UNCHANGED <<frames, infos, exec_env, restored, image, gen>>
           ELSE IF caller.kind = "entry" THEN Leave(s, FreeInfo(Top.addr, infos))
           ELSE frames' = s /\ infos' = FreeInfo(Top.addr, infos) /\ UNCHANGED procVars
    /\ UNCHANGED failVars

NativeReturn ==
    /\ At("native") /\ ~ exception
    /\ frames' = Pop(frames)
    /\ infos' = FreeInfo(Top.addr, infos)
    /\ UNCHANGED <<pending, failVars, sig_flag, calls, procVars>>

(* An unlinked import, or a native function that returns with an exception: *)
(* its frame is not freed.                                                  *)
NativeFail ==
    /\ At("native") /\ (setting.fail \/ exception)
    /\ GotException(frames)
    /\ UNCHANGED <<pending, sig_flag, calls>>

-----------------------------------------------------------------------------
(* The checkpoint: after the fetch, before the opcode.  Only an invocation  *)
(* entered by a restore recomputes p_abs.  An info whose frame is gone      *)
(* describes whatever lies at its address.                                  *)
Translated == restored # 0 /\ EntryOf(frames) = restored

Body(fs, a) ==
    IF \E i \in 1 .. Len(fs) : fs[i].addr = a
    THEN LET f == fs[CHOOSE i \in 1 .. Len(fs) : fs[i].addr = a]
         IN  [kind |-> f.kind, fn |-> f.fn, ip |-> f.ip, val |-> f.val]
    ELSE [kind |-> "stale"]

FrameRecord(fs, info) ==
    [p_abs |-> IF Translated THEN info.p_raw ELSE info.p_abs,
     size |-> info.size, body |-> Body(fs, info.p_raw)]

(* Faulty: the caller of the running frame.                                 *)
FramePtrPrev(fs) == fs[Len(fs) - 1].addr

(* The frame that interp.img names.                                         *)
FramePtr(fs) == fs[Len(fs)].addr

Checkpoint ==
    /\ At("wasm") /\ ~ pending /\ sig_flag
    /\ LET fs == SetTop(frames, [Top EXCEPT !.ip = @ + 1])
       IN  image' = [records |-> [i \in 1 .. Len(infos) |-> FrameRecord(fs, infos[i])],
                     frame   |-> FramePtr(fs)]
    /\ phase' = "down" /\ gen' = gen + 1
    /\ frames' = <<>> /\ infos' = <<>>
    /\ UNCHANGED <<exec_env, pending, failVars, sig_flag, restored, calls>>

(* restore_runtime sorts the records of frames by p_abs; then               *)
(* restore_frame_internal allocates them in that order in a new execution   *)
(* environment and fills them.  The ip and sp of an entry frame are not     *)
(* restored: dump_WASMInterpFrame stops when there is no function.  Of two  *)
(* records with one p_abs the one that was read last comes first.           *)
Before(l, k) == {j \in 1 .. Len(l) : \/ l[j].p_abs < l[k].p_abs
                                     \/ l[j].p_abs = l[k].p_abs /\ j > k}

Ascending(l) ==
    [i \in 1 .. Len(l) |->
        l[CHOOSE k \in 1 .. Len(l) : Cardinality(Before(l, k)) = i - 1]]

Offset(l, i) == LET sum[j \in 0 .. Len(l)] == IF j = 0 THEN 0 ELSE sum[j - 1] + l[j].size
                IN  sum[i - 1]

NewFrame(r, addr) ==
    [kind |-> r.body.kind, fn |-> r.body.fn, ip |-> r.body.ip, val |-> r.body.val,
     addr |-> addr, size |-> r.size, sp |-> r.body.kind # "entry"]

Rebuildable(l, env) ==
    /\ \A i \in 1 .. Len(l) : /\ l[i].body.kind # "stale"
                              /\ Offset(l, i) + 2 * l[i].size <= setting.stack
    /\ l[Len(l)].p_abs = image.frame

(* Faulty: continues at the head of the loop instead of at RESUME.          *)
RestoreRefetch(env) ==
    LET l == Ascending(image.records)
        fs == [i \in 1 .. Len(l) |-> NewFrame(l[i], env + Offset(l, i))]
    IN  /\ phase = "down"
        /\ exec_env' = env
        /\ frames' = fs
        /\ infos' = [i \in 1 .. Len(l) |->
                       [p_raw |-> fs[i].addr, p_abs |-> l[i].p_abs, size |-> l[i].size]]
        /\ restored' = EntryOf(fs) /\ phase' = "run" /\ pending' = FALSE
        /\ sig_flag' = FALSE /\ exception' = FALSE /\ unwound' = FALSE
        /\ UNCHANGED <<image, calls, gen>>

Restore(env) ==
    LET l == Ascending(image.records)
        fs == [i \in 1 .. Len(l) |-> NewFrame(l[i], env + Offset(l, i))]
    IN  /\ phase = "down"
        /\ exec_env' = env
        /\ IF Rebuildable(l, env)
           THEN /\ frames' = fs
                /\ infos' = [i \in 1 .. Len(l) |->
                               [p_raw |-> fs[i].addr, p_abs |-> l[i].p_abs, size |-> l[i].size]]
                /\ restored' = EntryOf(fs) /\ phase' = "run" /\ pending' = TRUE
           ELSE phase' = "crashed" /\ UNCHANGED <<frames, infos, restored, pending>>
        /\ sig_flag' = FALSE /\ exception' = FALSE /\ unwound' = FALSE
        /\ UNCHANGED <<image, calls, gen>>

-----------------------------------------------------------------------------
Step == /\ \/ \E f \in DOMAIN Code : CallWasm(f)
           \/ Enter \/ Fetch \/ Plain \/ Branch \/ CallOp \/ CallNative \/ Trap
           \/ End \/ NativeReturn \/ NativeFail
           \/ Checkpoint \/ \E env \in Envs : Restore(env)
        /\ UNCHANGED setting

Next == Step \/ (Signal /\ UNCHANGED setting)

Spec == Init /\ [][Next]_vars

(* The interpreter is the only thread; as long as it has a step it takes it, *)
(* and a native function returns.                                           *)
FairSpec == Spec /\ WF_vars(Step)

-----------------------------------------------------------------------------
(* The state has its type, and no ip leaves the code of its function.       *)
TypeOK ==
    /\ exec_env \in Envs
    /\ \A i \in 1 .. Len(frames) :
          /\ frames[i].kind \in {"entry", "wasm", "native"}
          /\ frames[i].fn \in DOMAIN Code
          /\ frames[i].ip \in 0 .. Len(Code[frames[i].fn])
                               + (IF i = Len(frames) /\ pending THEN 1 ELSE 0)
          /\ frames[i].val \in 0 .. MaxVal
          /\ frames[i].sp \in BOOLEAN
    /\ pending \in BOOLEAN /\ sig_flag \in BOOLEAN
    /\ exception \in BOOLEAN /\ unwound \in BOOLEAN
    /\ phase \in {"run", "down", "over", "crashed"}
    /\ restored \in 0 .. Len(frames) \/ phase # "run"

LiveFramesRegistered ==
    \A i \in 1 .. Len(frames) :
        /\ Registered(frames[i].addr, infos)
        /\ infos[FirstInfo(frames[i].addr, infos)].size = frames[i].size

NoStaleFrame ==
    phase \in {"run", "over"} =>
        \A i \in 1 .. Len(infos) : \E j \in 1 .. Len(frames) :
            infos[i].p_raw = frames[j].addr /\ infos[i].size = frames[j].size

(* Every frame on the stack is registered with its own size, and the info   *)
(* that free_info would find first is its own, whatever traps and failed    *)
(* calls left behind in the list; and as long as no invocation has failed   *)
(* nothing else is registered: what a checkpoint writes to frame.img is the *)
(* call stack.                                                              *)
FramesRegistered == /\ LiveFramesRegistered
                    /\ ~ unwound => NoStaleFrame

(* No step writes through a NULL or lost pointer, fails to free a frame, or *)
(* finds an image it cannot rebuild the stack from.                         *)
NoCrash == phase # "crashed"

(* A process in which SIGINT arrived does not run on for ever: it writes a  *)
(* checkpoint or the call it was in is over.                                *)
SignalObeyed == sig_flag ~> (phase \in {"down", "over", "crashed"} \/ frames = <<>>)

(* The frames as WasmCalls has them: an opcode that is fetched and not      *)
(* executed counts as not begun, and the image stands for the frames while  *)
(* no process has them.                                                     *)
Seen(fs) ==
    [i \in 1 .. Len(fs) |->
        [kind |-> fs[i].kind, fn |-> fs[i].fn, val |-> fs[i].val,
         ip |-> IF i = Len(fs) /\ pending THEN fs[i].ip - 1 ELSE fs[i].ip]]

SeenImage ==
    LET l == Ascending(image.records)
    IN  [i \in 1 .. Len(l) |->
            IF i = Len(l) THEN [l[i].body EXCEPT !.ip = @ - 1] ELSE l[i].body]

SeenStack == IF phase = "down" THEN SeenImage
             ELSE IF phase = "over" THEN <<>> ELSE Seen(frames)

Calls == INSTANCE WasmCalls WITH stack <- SeenStack

(* Checkpoint and restore are not observable: the interpreter implements    *)
(* WasmCalls.  No opcode is lost or executed twice, frames come back in     *)
(* order, and the program ends when its outermost call ends.                *)
Uninterrupted == Calls!CSpec
=============================================================================
