----------------------------- MODULE BlockFlow -----------------------------
(***************************************************************************)
(* Structured control flow in the classic interpreter: the label stack of a *)
(* frame (csp), the cache of block addresses in the execution environment,  *)
(* the scan that fills it (wasm_loader_find_block_addr), and what becomes   *)
(* of the three in a checkpoint (dump_WASMExecEnv, dump_WASMInterpFrame).   *)
(*                                                                         *)
(* A function is a sequence of tokens; token i lies at address code + i, so *)
(* that frame_ip is the address of the next token.  A block type takes no   *)
(* room: the block opened by token q starts at code + q + 1.                *)
(***************************************************************************)
EXTENDS Integers, Sequences, FiniteSets

CONSTANTS Body,      \* the tokens of the function
          CacheSize, \* BLOCK_ADDR_CACHE_SIZE
          Depth,     \* entries of block_stack in find_block_addr
          Bases,     \* addresses that the code may get in a process
          CodeWord,      \* 2^32, the range of an offset in dump.img
          ElseLess,  \* may a checkpoint find an if without else in the cache?
          MaxFlowGen     \* bound on the checkpoints

VARIABLES code,     \* address of the function's code
          frame_ip, \* address of the next token
          csp,      \* the labels, the outermost first
          cache,    \* block_addr_cache: slot |-> two BlockAddrs
          phase,    \* "run" or "down"
          image,    \* what the checkpoint wrote
          gen

vars == <<code, frame_ip, csp, cache, phase, image, gen>>

NULL == 0

Size == Len(Body)

Openers == {"block", "loop", "if"}

BlockAddr(s, els, e) == [start |-> s, els |-> els, end |-> e]

Empty == BlockAddr(NULL, NULL, NULL)

Conflict == 1 .. 2  \* BLOCK_ADDR_CONFLICT_SIZE

Slot(a) == a % CacheSize

Token(a) == Body[a - code]

-----------------------------------------------------------------------------
(* wasm_loader_find_block_addr: what the scan from address s knows before   *)
(* it reads the token at p.  block_stack[t] is the last block it met at     *)
(* nesting depth t; deeper ones are not recorded.                           *)
ScanStep(st, p) ==
    LET t == Token(p)
        d == st.depth
        put(i, e) == IF i < Depth THEN [st.blocks EXCEPT ![i] = e] ELSE st.blocks
        at(i) == IF i < Depth THEN st.blocks[i] ELSE Empty
    IN  CASE t.op \in Openers -> [depth |-> d + 1, blocks |-> put(d, BlockAddr(p + 1, NULL, NULL))]
          [] t.op = "else" -> [depth |-> d, blocks |-> put(d - 1, [at(d - 1) EXCEPT !.els = p])]
          [] t.op = "end" -> [depth |-> d - 1, blocks |-> put(d - 1, [at(d - 1) EXCEPT !.end = p])]
          [] OTHER -> st

Scan(s) ==
    LET first == [depth |-> 1,
                  blocks |-> [i \in 0 .. Depth - 1 |->
                                IF i = 0 THEN BlockAddr(s, NULL, NULL) ELSE Empty]]
        st[p \in s .. code + Size + 1] ==
            IF p = s THEN first
            ELSE LET prev == st[p - 1]
                 IN  IF prev.depth = 0 THEN prev ELSE ScanStep(prev, p - 1)
    IN  st[code + Size + 1].blocks

(* A free entry of the slot, or the first one, which moves to the second.   *)
Insert(c, b) ==
    LET s == Slot(b.start)
        free == {j \in Conflict : c[s][j].start = NULL}
    IN  IF free = {} THEN [c EXCEPT ![s] = [j \in Conflict |-> IF j = 1 THEN b ELSE @[1]]]
        ELSE [c EXCEPT ![s][CHOOSE j \in free : \A k \in free : j <= k] = b]

Remember(c, bs) ==
    LET upto[t \in 0 .. Depth] ==
            IF t = 0 THEN c
            ELSE IF \E i \in 0 .. t - 1 : bs[i].start = NULL THEN upto[t - 1]
            ELSE Insert(upto[t - 1], bs[t - 1])
    IN  upto[Depth]

Hits(c, a) == {j \in Conflict : c[Slot(a)][j].start = a}

Hit(c, a) == c[Slot(a)][CHOOSE j \in Hits(c, a) : \A k \in Hits(c, a) : j <= k]

(* The BlockAddr that find_block_addr returns, and the cache it leaves.     *)
FindBlock(a) == IF Hits(cache, a) # {} THEN Hit(cache, a) ELSE Scan(a)[0]

CacheAfter(a) == IF Hits(cache, a) # {} THEN cache ELSE Remember(cache, Scan(a))

-----------------------------------------------------------------------------
Label(begin, target) == [begin |-> begin, target |-> target]

(* The label of the function itself, which call_func_from_entry pushes.     *)
FunctionLabel(base) == Label(base + 1, base + Size)

Init == /\ code \in Bases
        /\ frame_ip = code + 1
        /\ csp = <<FunctionLabel(code)>>
        /\ cache = [s \in 0 .. CacheSize - 1 |-> [j \in Conflict |-> Empty]]
        /\ phase = "run" /\ image = <<>> /\ gen = 0

Executes(op) ==
    /\ phase = "run"
    /\ frame_ip \in code + 1 .. code + Size
    /\ Token(frame_ip).op = op
    /\ UNCHANGED <<code, phase, image, gen>>

PushCsp(ip, target) == csp' = Append(csp, Label(ip, target))

Plain == Executes("op") /\ frame_ip' = frame_ip + 1 /\ UNCHANGED <<csp, cache>>

(* A block looks in the cache; if it is not there its end stays unknown.    *)
Block ==
    /\ Executes("block")
    /\ frame_ip' = frame_ip + 1
    /\ LET a == frame_ip + 1
       IN  PushCsp(a, IF Hits(cache, a) = {} THEN NULL ELSE Hit(cache, a).end)
    /\ UNCHANGED cache

Loop ==
    /\ Executes("loop")
    /\ frame_ip' = frame_ip + 1
    /\ PushCsp(frame_ip + 1, frame_ip + 1)
    /\ UNCHANGED cache

IfTrue ==
    /\ Executes("if")
    /\ frame_ip' = frame_ip + 1
    /\ PushCsp(frame_ip + 1, FindBlock(frame_ip + 1).end)
    /\ cache' = CacheAfter(frame_ip + 1)

(* Faulty: runs into the else, which jumps to the end.                      *)
IfFalseAtElse ==
    /\ Executes("if")
    /\ LET b == FindBlock(frame_ip + 1)
       IN  IF b.els = NULL
           THEN frame_ip' = b.end + 1 /\ UNCHANGED csp
           ELSE frame_ip' = b.els /\ PushCsp(frame_ip + 1, b.end)
    /\ cache' = CacheAfter(frame_ip + 1)

IfFalse ==
    /\ Executes("if")
    /\ LET b == FindBlock(frame_ip + 1)
       IN  IF b.els = NULL
           THEN frame_ip' = b.end + 1 /\ UNCHANGED csp
           ELSE frame_ip' = b.els + 1 /\ PushCsp(frame_ip + 1, b.end)
    /\ cache' = CacheAfter(frame_ip + 1)

Else ==
    /\ Executes("else")
    /\ frame_ip' = csp[Len(csp)].target
    /\ UNCHANGED <<csp, cache>>

(* Faulty: the label of the function is popped as any other.                *)
EndRunsOn ==
    /\ Executes("end")
    /\ frame_ip' = frame_ip + 1 /\ csp' = SubSeq(csp, 1, Len(csp) - 1)
    /\ UNCHANGED cache

(* The function returns, and is called again.                               *)
CallAgain == frame_ip' = code + 1 /\ csp' = <<FunctionLabel(code)>>

(* The end of a block, or of the function.                                  *)
End ==
    /\ Executes("end")
    /\ IF Len(csp) > 1
       THEN frame_ip' = frame_ip + 1 /\ csp' = SubSeq(csp, 1, Len(csp) - 1)
       ELSE CallAgain
    /\ UNCHANGED cache

Return == Executes("return") /\ CallAgain /\ UNCHANGED cache

(* POP_CSP_N and what follows it in WASM_OP_BR: a block whose end is not    *)
(* known is scanned.                                                        *)
Branch(n) ==
    LET label == csp[Len(csp) - n]
    IN  /\ csp' = SubSeq(csp, 1, Len(csp) - n)
        /\ IF label.target # NULL
           THEN frame_ip' = label.target /\ UNCHANGED cache
           ELSE frame_ip' = FindBlock(label.begin).end /\ cache' = CacheAfter(label.begin)

Br == Executes("br") /\ Branch(Token(frame_ip).n)

BrIf ==
    /\ Executes("br_if")
    /\ \/ Branch(Token(frame_ip).n)
       \/ frame_ip' = frame_ip + 1 /\ UNCHANGED <<csp, cache>>

(* The operand lidx selects a depth; the last one is for all that exceed    *)
(* the count.                                                               *)
BrTable ==
    /\ Executes("br_table")
    /\ LET depths == Token(frame_ip).depths
           count == Len(depths) - 1
       IN  \E lidx \in 0 .. count + 1 :
              Branch(depths[(IF lidx > count THEN count ELSE lidx) + 1])

-----------------------------------------------------------------------------
(* Faulty: NULL is written as any other address.                            *)
SignedOffsetPlain(a) == a - code

(* The checkpoint.  In frame.img a NULL is written as -1; in the cache of   *)
(* dump.img every address is an unsigned offset from the code, and the NULL *)
(* of an if without else is not told from an address: CHECK_IP is a         *)
(* conditional expression without parentheses around it, so only the first  *)
(* of the three that are joined by && counts.                               *)
SignedOffset(a) == IF a = NULL THEN -1 ELSE a - code

UnsignedOffset(a) == (a - code) % CodeWord

DumpBlock(b) ==
    IF b = Empty THEN <<>>
    ELSE <<UnsignedOffset(b.start), UnsignedOffset(b.els), UnsignedOffset(b.end)>>

IfWithoutElse(b) == b # Empty /\ Token(b.start - 1).op = "if" /\ b.els = NULL

Checkpoint ==
    /\ phase = "run" /\ gen < MaxFlowGen
    /\ ElseLess \/ \A s \in DOMAIN cache, j \in Conflict : ~ IfWithoutElse(cache[s][j])
    /\ image' = [ip |-> frame_ip - code,
                 csp |-> [i \in 1 .. Len(csp) |->
                            <<SignedOffset(csp[i].begin), SignedOffset(csp[i].target)>>],
                 cache |-> [s \in DOMAIN cache |-> [j \in Conflict |-> DumpBlock(cache[s][j])]]]
    /\ phase' = "down" /\ gen' = gen + 1
    /\ UNCHANGED <<code, frame_ip, csp, cache>>

(* Faulty: the end is off by one.                                           *)
RestoreBlockShifted(r, base) ==
    IF r = <<>> THEN Empty ELSE BlockAddr(base + r[1], base + r[2], base + r[3] - 1)

RestoreBlock(r, base) ==
    IF r = <<>> THEN Empty ELSE BlockAddr(base + r[1], base + r[2], base + r[3])

RestoreAddr(o, base) == IF o = -1 THEN NULL ELSE base + o

Restore(base) ==
    /\ phase = "down"
    /\ code' = base
    /\ frame_ip' = base + image.ip
    /\ csp' = [i \in 1 .. Len(image.csp) |->
                 Label(RestoreAddr(image.csp[i][1], base), RestoreAddr(image.csp[i][2], base))]
    /\ cache' = [s \in DOMAIN cache |-> [j \in Conflict |-> RestoreBlock(image.cache[s][j], base)]]
    /\ phase' = "run"
    /\ UNCHANGED <<image, gen>>

Next == \/ Plain \/ Block \/ Loop \/ IfTrue \/ IfFalse \/ Else \/ End \/ Br \/ BrIf
        \/ BrTable \/ Return
        \/ Checkpoint \/ \E b \in Bases : Restore(b)

Spec == Init /\ [][Next]_vars

-----------------------------------------------------------------------------
(* The reference: blocks by counting brackets.                              *)
Count(ops, i, j) == Cardinality({k \in i .. j : Body[k].op \in ops})

Opens == {q \in 1 .. Size : Body[q].op \in Openers}

Balanced(q, e) == Body[e].op = "end" /\ Count(Openers, q, e) = Count({"end"}, q, e)

EndOf(q) == CHOOSE e \in q .. Size : Balanced(q, e) /\ \A d \in q .. e - 1 : ~ Balanced(q, d)

ElseOf(q) == {x \in q .. EndOf(q) : /\ Body[x].op = "else"
                                    /\ Count(Openers, q, x) = Count({"end"}, q, x) + 1}

(* The blocks around token i, and the n-th of them from the inside out.     *)
Around(i) == {q \in 1 .. i - 1 : Body[q].op \in Openers /\ i <= EndOf(q)}

Outward(i, n) == LET around == Around(i)
                 IN  CHOOSE q \in around : Cardinality({r \in around : r > q}) = n

BranchTarget(i, n) ==
    IF n = Cardinality(Around(i)) THEN Size
    ELSE LET q == Outward(i, n) IN IF Body[q].op = "loop" THEN q + 1 ELSE EndOf(q)

(* The tokens that may follow token i by the structure of the code.         *)
Follows(i) ==
    LET t == Body[i]
    IN  CASE t.op = "if" -> {i + 1} \cup (IF ElseOf(i) = {} THEN {EndOf(i) + 1}
                                          ELSE {x + 1 : x \in ElseOf(i)})
          [] t.op = "else" -> {EndOf(Outward(i, 0))}
          [] t.op = "end" -> IF i = Size THEN {1} ELSE {i + 1}
          [] t.op = "br" -> {BranchTarget(i, t.n)}
          [] t.op = "br_if" -> {BranchTarget(i, t.n), i + 1}
          [] t.op = "br_table" -> {BranchTarget(i, t.depths[k]) : k \in DOMAIN t.depths}
          [] t.op = "return" -> {1}
          [] OTHER -> {i + 1}

(* The state has its type: frame_ip never leaves the code.                  *)
TypeOK == /\ code \in Bases /\ phase \in {"run", "down"}
          /\ frame_ip - code \in 1 .. Size
          /\ Len(csp) \in 1 .. Cardinality(Opens) + 1
          /\ gen \in 0 .. MaxFlowGen

(* The label stack is the static nesting of frame_ip: below the label of    *)
(* the function one label for every block around the next token, with the   *)
(* block's own start and, where it is known, its own branch target, however *)
(* control came there and in whatever process.                              *)
LabelsMatchNesting ==
    /\ Len(csp) = Cardinality(Around(frame_ip - code)) + 1
    /\ csp[1] = FunctionLabel(code)
    /\ \A i \in 2 .. Len(csp) :
          LET q == Outward(frame_ip - code, Len(csp) - i)
              e == IF Body[q].op = "loop" THEN q + 1 ELSE EndOf(q)
          IN  /\ csp[i].begin = code + q + 1
              /\ csp[i].target = code + e \/ (Body[q].op = "block" /\ csp[i].target = NULL)

(* An entry of the cache is a block of the code with its own end, and its   *)
(* own else where it has one; where it has none the entry says so as long   *)
(* as no checkpoint was taken.  Entries survive a checkpoint in the slots    *)
(* they had, which in the new process may be the wrong ones: they are then  *)
(* never found, and a wrong block is never found in their place.            *)
CacheRight ==
    \A s \in DOMAIN cache, j \in Conflict :
        LET b == cache[s][j]
            q == b.start - code - 1
            els == ElseOf(q)
        IN  b # Empty =>
                /\ q \in Opens
                /\ b.end = code + EndOf(q)
                /\ IF els # {} THEN b.els - code \in els ELSE gen = 0 => b.els = NULL

(* Every step goes to a token that the structure of the code allows: a      *)
(* branch to the end of its block or the start of its loop, an if to its    *)
(* first branch, its else branch or, without one, past its end.             *)
StructuredFlow ==
    [][phase = "run" /\ phase' = "run" => frame_ip' - code \in Follows(frame_ip - code)]_vars
=============================================================================
