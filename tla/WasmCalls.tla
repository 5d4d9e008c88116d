----------------------------- MODULE WasmCalls -----------------------------
(***************************************************************************)
(* What the classic interpreter promises of a call: the functions on the    *)
(* stack execute their opcodes one after the other, each once, and a        *)
(* function that ends hands control to the frame below it.  There is no     *)
(* checkpoint, no image and no second process here; InterpFrames, which has *)
(* them, implements this specification.                                     *)
(*                                                                         *)
(* Code[f] is the sequence of opcodes of function f; only those that move   *)
(* control are told apart, every other one is "nop" and changes a value of  *)
(* its frame.                                                              *)
(***************************************************************************)
EXTENDS Integers, Sequences

CONSTANTS Code,      \* function |-> its opcodes
          MaxVal     \* bound on the value of a frame

VARIABLES stack,     \* frames, the oldest first
          setting    \* what the program does: callbacks, native functions call
                     \* back into the interpreter; result, the functions
                     \* return a value; fail, opcodes trap and native
                     \* functions fail

Funcs == DOMAIN Code

Top == stack[Len(stack)]

Pop(s) == SubSeq(s, 1, Len(s) - 1)

SetTop(s, f) == Append(Pop(s), f)

Opcode == Code[Top.fn][Top.ip]

Bump(v) == (v + 1) % (MaxVal + 1)

EntryOf(s) == CHOOSE i \in 1 .. Len(s) : /\ s[i].kind = "entry"
                                        /\ \A j \in i + 1 .. Len(s) : s[j].kind # "entry"

Frame(kind, fn, ip, val) == [kind |-> kind, fn |-> fn, ip |-> ip, val |-> val]

-----------------------------------------------------------------------------
CInit == stack = <<>>

(* The embedder, or a native function, calls a WebAssembly function.        *)
Start(f) ==
    /\ stack = <<>> \/ (setting.callbacks /\ Top.kind = "native")
    /\ stack' = Append(stack, Frame("entry", f, 0, 0))

Enter ==
    /\ stack # <<>> /\ Top.kind = "entry"
    /\ stack' = Append(stack, Frame("wasm", Top.fn, 1, 0))

Executes(op) == stack # <<>> /\ Top.kind = "wasm" /\ Opcode.op = op

Plain ==
    /\ Executes("nop")
    /\ stack' = SetTop(stack, [Top EXCEPT !.ip = @ + 1, !.val = Bump(@)])

Branch ==
    /\ Executes("br_if")
    /\ \E t \in {Opcode.to, Top.ip + 1} : stack' = SetTop(stack, [Top EXCEPT !.ip = t])

Call ==
    /\ Executes("call")
    /\ stack' = Append(SetTop(stack, [Top EXCEPT !.ip = @ + 1]),
                       Frame("wasm", Opcode.fn, 1, 0))

CallNative ==
    /\ Executes("native")
    /\ stack' = Append(SetTop(stack, [Top EXCEPT !.ip = @ + 1]),
                       Frame("native", Top.fn, 0, 0))

NativeReturn ==
    /\ stack # <<>> /\ Top.kind = "native"
    /\ stack' = Pop(stack)

(* The last opcode: the result goes to the caller; the frame that started   *)
(* the invocation goes away with it.                                        *)
End ==
    /\ Executes("end")
    /\ LET below == Pop(stack)
           caller == below[Len(below)]
       IN  stack' = IF caller.kind = "entry" THEN Pop(below)
                    ELSE IF setting.result THEN SetTop(below, [caller EXCEPT !.val = Top.val])
                    ELSE below

(* A call that fails ends with all the frames of its invocation.            *)
Fail ==
    /\ stack # <<>>
    /\ setting.fail
    /\ stack' = SubSeq(stack, 1, EntryOf(stack) - 1)

CNext == /\ \/ \E f \in Funcs : Start(f)
            \/ Enter \/ Plain \/ Branch \/ Call \/ CallNative \/ NativeReturn
            \/ End \/ Fail
         /\ UNCHANGED setting

CSpec == CInit /\ [][CNext]_<<stack, setting>>
=============================================================================
