---------------------------- MODULE Interpreter ----------------------------
(* The state of wasm_interp_call_func_bytecode for TLC: the locals that     *)
(* cache the module instance (InterpLocals) and the label stack with its    *)
(* cache of block addresses (BlockFlow).  The two share no variable, so a   *)
(* behaviour is one of either: part says of which, and the other rests.     *)
EXTENDS InterpLocals, FlowBody

CONSTANTS CacheSize, Depth, Bases, CodeWord, ElseLess, MaxFlowGen    \* of BlockFlow

ASSUME BlockAssumption == /\ CacheSize \in Nat \ {0} /\ Depth \in Nat \ {0}
                          /\ Bases \subseteq Nat \ {0} /\ MaxFlowGen \in Nat
                          /\ \A b \in Bases : b < CodeWord
                          /\ ElseLess \in BOOLEAN

VARIABLES part, code, frame_ip, csp, cache, flow, dump_img, checkpoints

flowVars == <<code, frame_ip, csp, cache, flow, dump_img, checkpoints>>

Flow == INSTANCE BlockFlow WITH
    Body <- MCBody, phase <- flow, image <- dump_img, gen <- checkpoints

(* One state of the other part, for a behaviour of this one.                *)
RestLocals == /\ cur_page_count = 0 /\ base = 0 /\ invocations = <<>> /\ native = FALSE
              /\ phase = "exited" /\ image = <<>> /\ gen = 0

RestFlow == /\ code = 0 /\ frame_ip = 0 /\ csp = <<>> /\ cache = <<>>
            /\ flow = "down" /\ dump_img = <<>> /\ checkpoints = 0

InterpreterInit == \/ part = "flow" /\ Flow!Init /\ RestLocals
                   \/ part = "locals" /\ Init /\ RestFlow

(* A behaviour of InterpLocals may end, with the last process; one of       *)
(* BlockFlow never does.                                                    *)
Ended == ~ ENABLED Next /\ UNCHANGED vars

InterpreterNext ==
    /\ \/ part = "flow" /\ Flow!Next /\ UNCHANGED vars
       \/ part = "locals" /\ (Next \/ Ended) /\ UNCHANGED flowVars
    /\ UNCHANGED part

InterpreterSpec == InterpreterInit /\ [][InterpreterNext]_<<part, vars, flowVars>>

(* The state has its type, and frame_ip never leaves the code.              *)
InterpreterTypeOK == IF part = "flow" THEN Flow!TypeOK ELSE TypeOK

(* The label stack is the static nesting of frame_ip, however control came  *)
(* there and in whatever process (BlockFlow!LabelsMatchNesting).            *)
LabelsNested == part = "flow" => Flow!LabelsMatchNesting

(* An entry of the cache is a block of the code with its own end, and its   *)
(* own else where it has one (BlockFlow!CacheRight).                        *)
CacheRight == Flow!CacheRight

(* Every step goes to a token that the structure of the code allows         *)
(* (BlockFlow!StructuredFlow).                                              *)
StructuredFlow ==
    [][flow = "run" /\ flow' = "run" => frame_ip' - code \in Flow!Follows(frame_ip - code)]_flowVars
=============================================================================
