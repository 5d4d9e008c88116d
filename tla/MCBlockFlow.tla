---------------------------- MODULE MCBlockFlow ----------------------------
(* Control flow alone, in the function of FlowBody.                         *)
EXTENDS BlockFlow, FlowBody
=============================================================================
