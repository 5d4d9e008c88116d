------------------------------ MODULE FlowBody ------------------------------
(* A function with an if that has an else, inside a loop inside a block,    *)
(* deeper than block_stack is in the runs, and an if that has none.         *)
EXTENDS Integers, Sequences

op(name) == [op |-> name]
br(name, n) == [op |-> name, n |-> n]
table(depths) == [op |-> "br_table", depths |-> depths]

MCBody == <<op("block"), op("loop"), op("if"), br("br_if", 2), op("else"), table(<<1, 3>>),
            op("end"), op("block"), br("br", 0), op("end"), op("end"), op("op"), op("end"),
            br("br_if", 0), op("if"), op("return"), op("end"), op("end")>>
=============================================================================
