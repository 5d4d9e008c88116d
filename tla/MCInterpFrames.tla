--------------------------- MODULE MCInterpFrames ---------------------------
(* Two functions: f loops, calls g and a native function; g is a leaf.  In   *)
(* one setting there are checkpoints and restores; in the other there are    *)
(* results, traps and native functions that call back into wasm, which a     *)
(* checkpoint does not survive.  A third one has a checkpoint of functions   *)
(* with a result.                                                            *)
EXTENDS InterpFrames

MCCode == [f |-> <<[op |-> "nop"], [op |-> "call", fn |-> "g"], [op |-> "native"],
                   [op |-> "br_if", to |-> 1], [op |-> "end"]>>,
           g |-> <<[op |-> "nop"], [op |-> "end"]>>]

MCFrameSize == [f |-> 3, g |-> 2]

Migrated == [callbacks |-> FALSE, result |-> FALSE, fail |-> TRUE,
             stack |-> 8, calls |-> 1, gens |-> 2]

Nested == [callbacks |-> TRUE, result |-> TRUE, fail |-> TRUE,
           stack |-> 13, calls |-> 2, gens |-> 0]

WithResult == [Migrated EXCEPT !.result = TRUE, !.gens = 1]

MCSettings == {Migrated, Nested}

ResultSettings == {WithResult}
=============================================================================
