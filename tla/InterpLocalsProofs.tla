------------------------- MODULE InterpLocalsProofs -------------------------
(***************************************************************************)
(* Proofs about InterpLocals: for every page size, page limit, increment,   *)
(* nesting depth and number of checkpoints, the bound that memory accesses  *)
(* are checked against is the size of the memory, and the memory never      *)
(* shrinks.                                                                 *)
(*                                                                         *)
(* LinearMemSizeExact is not inductive.  It needs that a page count never   *)
(* makes more than 4 GB, so that the product in linear_mem_size is not cut, *)
(* and that interp.img, while no process has the locals, carries the size   *)
(* of the memory that dump.img carries.                                     *)
(***************************************************************************)
EXTENDS InterpLocals, TLAPS

AllLocals == [linear_mem_size : Int, global_data : Int, global_addr : Int, global : Int]

LocalsTyped == invocations \in Seq(AllLocals) /\ invocations # <<>>

ImageTyped == phase = "down" => image.data \in Int /\ image.base \in Int /\ image.diff \in Int
                                /\ image.global \in Int

SizeFits == PageBytes * cur_page_count < Word

ImageAgrees ==
    phase = "down" => /\ image.pages = cur_page_count
                      /\ image.mem = PageBytes * cur_page_count

IInv == /\ TypeOK /\ LocalsTyped /\ ImageTyped
        /\ SizeFits /\ ImageAgrees /\ LinearMemSizeExact

-----------------------------------------------------------------------------
(* A uint32 that is in range is not cut.                                    *)
LEMMA NotCut ==
    ASSUME NEW w \in Nat, NEW x \in Nat, x < w
    PROVE  x % w = x
  OBVIOUS

(* The size that is stored for a page count whose size fits in 32 bits.     *)
LEMMA MemSizeExact ==
    ASSUME NEW n \in Nat, PageBytes * n < Word
    PROVE  MemSize(n) = PageBytes * n /\ PageBytes * n \in Nat
  <1>1. PageBytes \in Nat /\ Word \in Nat  BY LocalsAssumption
  <1>2. PageBytes * n \in Nat  BY <1>1
  <1>3. (PageBytes * n) % Word = PageBytes * n  BY <1>1, <1>2, NotCut
  <1> QED  BY <1>2, <1>3 DEF MemSize

(* The innermost invocation has typed locals.                               *)
LEMMA TopTyped ==
    ASSUME LocalsTyped
    PROVE  /\ Top \in AllLocals
           /\ Len(invocations) \in Nat \ {0}
  BY DEF LocalsTyped, Top

(* An opcode that changes a local of the innermost invocation.              *)
LEMMA SetTopTyped ==
    ASSUME LocalsTyped, NEW l \in AllLocals, SetTop(l)
    PROVE  LocalsTyped' /\ Top' = l /\ Len(invocations') = Len(invocations)
  BY TopTyped DEF LocalsTyped, SetTop, Top

(* A new invocation.                                                        *)
LEMMA AppendTyped ==
    ASSUME LocalsTyped, NEW l \in AllLocals, invocations' = Append(invocations, l)
    PROVE  LocalsTyped' /\ Top' = l /\ Len(invocations') = Len(invocations) + 1
  BY TopTyped DEF LocalsTyped, Top

(* The return of an invocation.                                             *)
LEMMA PopTyped ==
    ASSUME NEW S, NEW s \in Seq(S), Len(s) > 1
    PROVE  LET t == SubSeq(s, 1, Len(s) - 1)
           IN  t \in Seq(S) /\ Len(t) = Len(s) - 1 /\ t # <<>>
  <1> DEFINE n == Len(s) - 1
             t == SubSeq(s, 1, n)
  <1>0. Len(s) \in Nat  OBVIOUS
  <1>1. n \in Nat /\ n >= 1 /\ n <= Len(s)  BY <1>0
  <1>2. t = [i \in 1 .. n |-> s[i]]  BY <1>1
  <1>3. \A i \in 1 .. n : s[i] \in S  BY <1>1
  <1>4. t \in Seq(S) /\ Len(t) = n  BY <1>1, <1>2, <1>3
  <1>5. t # <<>>
    <2> HIDE DEF t
    <2> QED  BY <1>1, <1>4
  <1> QED  BY <1>4, <1>5

(* What an access to a global stores.                                       *)
LEMMA GlobalTyped ==
    ASSUME NEW t \in AllLocals, NEW x \in Int, NEW y \in Int
    PROVE  LET l == [t EXCEPT !.global = x, !.global_addr = y]
           IN  l \in AllLocals /\ l.linear_mem_size = t.linear_mem_size
  BY ZenonT(30) DEF AllLocals

-----------------------------------------------------------------------------
(* A new process: the first invocation has initialised its locals.          *)
LEMMA InitIInv == Init => IInv
  <1> SUFFICES ASSUME Init PROVE IInv
    OBVIOUS
  <1>1. cur_page_count \in Nat /\ cur_page_count \in 0 .. MaxPages
        /\ PageBytes * cur_page_count < Word
    <2>1. cur_page_count \in InitPages  BY DEF Init
    <2>2. cur_page_count * PageBytes < Word /\ cur_page_count \in 0 .. MaxPages
      BY <2>1, LocalsAssumption
    <2>3. MaxPages \in Nat /\ PageBytes \in Nat  BY LocalsAssumption
    <2>4. cur_page_count * PageBytes = PageBytes * cur_page_count  BY <2>2, <2>3
    <2> QED  BY <2>2, <2>3, <2>4
  <1>2. MemSize(cur_page_count) = PageBytes * cur_page_count /\ PageBytes * cur_page_count \in Nat
    BY <1>1, MemSizeExact
  <1>3. base \in GlobalBases /\ base \in Int  BY LocalsAssumption DEF Init
  <1>4. PICK a \in Garbage, g \in Garbage : invocations = <<Locals(cur_page_count, base, a, g)>>
    BY DEF Init
  <1>5. a \in Int /\ g \in Int  BY LocalsAssumption
  <1>6. Locals(cur_page_count, base, a, g) \in AllLocals
    BY <1>2, <1>3, <1>5 DEF Locals, AllLocals
  <1> DEFINE l == Locals(cur_page_count, base, a, g)
  <1>7. l.linear_mem_size = PageBytes * cur_page_count  BY <1>2 DEF Locals
  <1>8. invocations = <<l>> /\ l \in AllLocals  BY <1>4, <1>6
  <1>9. LocalsTyped /\ Top = l /\ Len(invocations) = 1
    <2> HIDE DEF l
    <2> QED  BY <1>8 DEF LocalsTyped, Top
  <1>10. TypeOK
    <2>1. 1 \in 1 .. MaxDepth /\ 0 \in 0 .. MaxGen  BY LocalsAssumption
    <2>2. native \in BOOLEAN /\ phase \in {"run", "down", "exited"} /\ gen = 0  BY ZenonT(30) DEF Init
    <2> QED  BY <1>1, <1>3, <1>9, <2>1, <2>2 DEF TypeOK
  <1>11. phase = "run"  BY DEF Init
  <1> QED  BY <1>1, <1>7, <1>9, <1>10, <1>11
           DEF IInv, ImageTyped, ImageAgrees, SizeFits, LinearMemSizeExact

(* wasm_enlarge_memory leaves a page count in range, not below the old one, *)
(* whose size fits in 32 bits.                                              *)
LEMMA Enlarged ==
    ASSUME cur_page_count \in 0 .. MaxPages, PageBytes * cur_page_count < Word,
           NEW inc \in Increments, MayEnlarge(inc)
    PROVE  LET total == (inc + cur_page_count) % Word
           IN  /\ total \in 0 .. MaxPages /\ total \in Nat
               /\ total >= cur_page_count
               /\ PageBytes * total < Word
  <1> DEFINE total == (inc + cur_page_count) % Word
  <1>1. /\ Word \in Nat \ {0} /\ PageBytes \in Nat /\ MaxPages \in Nat
        /\ inc \in Nat /\ cur_page_count \in Nat
    BY LocalsAssumption
  <1>2. CASE inc = 0
    <2>1. inc + cur_page_count = cur_page_count /\ cur_page_count < Word
      BY <1>1, <1>2, LocalsAssumption
    <2>2. total = cur_page_count  BY <1>1, <2>1, NotCut
    <2> HIDE DEF total
    <2>3. total \in 0 .. MaxPages /\ total >= cur_page_count  BY <1>1, <2>2
    <2> QED  BY <1>1, <2>2, <2>3 DEF total
  <1>3. CASE inc # 0
    <2>1. total \in Nat  BY <1>1
    <2>2. total >= cur_page_count /\ total <= MaxPages /\ PageBytes * total < Word - 1
      BY <1>3 DEF MayEnlarge
    <2>3. PageBytes * total \in Nat  BY <1>1, <2>1
    <2> HIDE DEF total
    <2>4. PageBytes * total < Word  BY <1>1, <2>2, <2>3
    <2>5. total \in 0 .. MaxPages  BY <1>1, <2>1, <2>2
    <2> QED  BY <2>1, <2>2, <2>4, <2>5 DEF total
  <1> QED  BY <1>2, <1>3

(* Every step keeps the invariant and does not shrink the memory.           *)
LEMMA NextIInv ==
    ASSUME IInv, [Next]_vars
    PROVE  IInv' /\ cur_page_count' >= cur_page_count
  <1> USE DEF IInv
  <1>0. /\ cur_page_count \in Nat /\ cur_page_count \in 0 .. MaxPages
        /\ PageBytes * cur_page_count < Word
    BY LocalsAssumption DEF TypeOK, SizeFits
  <1>m. MemSize(cur_page_count) = PageBytes * cur_page_count /\ PageBytes * cur_page_count \in Nat
    BY <1>0, MemSizeExact
  <1>t. Top \in AllLocals /\ Len(invocations) \in Nat \ {0}  BY TopTyped
  <1>b. base \in Int  BY LocalsAssumption DEF TypeOK
  <1>g. cur_page_count >= cur_page_count  BY <1>0
  <1>1. ASSUME NEW o \in Globals, AccessGlobal(o)
        PROVE  IInv' /\ cur_page_count' >= cur_page_count
    <2> DEFINE l == [Top EXCEPT !.global = base + o, !.global_addr = Top.global_data + o]
    <2>1. o \in Int  BY LocalsAssumption
    <2>a. base + o \in Int /\ Top.global_data + o \in Int
      BY <1>t, <1>b, <2>1 DEF AllLocals
    <2>2. l \in AllLocals /\ l.linear_mem_size = Top.linear_mem_size
      BY <1>t, <2>a, GlobalTyped
    <2>3. SetTop(l) /\ InLoop /\ UNCHANGED <<cur_page_count, base, native, phase, image, gen>>
      BY <1>1 DEF AccessGlobal
    <2> HIDE DEF l
    <2>4. LocalsTyped' /\ Top' = l /\ Len(invocations') = Len(invocations)
      BY <2>2, <2>3, SetTopTyped
    <2>5. Top.linear_mem_size = PageBytes * cur_page_count  BY <2>3 DEF LinearMemSizeExact
    <2> QED  BY <1>g, <2>2, <2>3, <2>4, <2>5
             DEF TypeOK, ImageTyped, SizeFits, ImageAgrees, LinearMemSizeExact, InLoop
  <1>2. ASSUME NEW inc \in Increments, MemoryGrow(inc)
        PROVE  IInv' /\ cur_page_count' >= cur_page_count
    <2> DEFINE l == [Top EXCEPT !.linear_mem_size = MemSize(cur_page_count')]
    <2>1. /\ cur_page_count' \in 0 .. MaxPages /\ cur_page_count' \in Nat
          /\ cur_page_count' >= cur_page_count /\ PageBytes * cur_page_count' < Word
      BY <1>0, <1>2, Enlarged DEF MemoryGrow
    <2>2. MemSize(cur_page_count') = PageBytes * cur_page_count' /\ PageBytes * cur_page_count' \in Nat
      BY <2>1, MemSizeExact
    <2>3. l \in AllLocals /\ l.linear_mem_size = PageBytes * cur_page_count'
      BY <1>t, <2>2 DEF AllLocals
    <2>4. SetTop(l) /\ InLoop /\ UNCHANGED <<base, native, phase, image, gen>>
      BY <1>2 DEF MemoryGrow
    <2> HIDE DEF l
    <2>5. LocalsTyped' /\ Top' = l /\ Len(invocations') = Len(invocations)
      BY <2>3, <2>4, SetTopTyped
    <2> QED  BY <2>1, <2>3, <2>4, <2>5
             DEF TypeOK, ImageTyped, SizeFits, ImageAgrees, LinearMemSizeExact, InLoop
  <1>3. CASE CallNative
    BY <1>3, <1>g DEF CallNative, TypeOK, LocalsTyped, ImageTyped, SizeFits, ImageAgrees,
                      LinearMemSizeExact, InLoop
  <1>4. CASE CallBack
    <2>1. PICK a \in Garbage, g \in Garbage :
             invocations' = Append(invocations, Locals(cur_page_count, base, a, g))
      BY <1>4 DEF CallBack
    <2> DEFINE l == Locals(cur_page_count, base, a, g)
    <2>2. a \in Int /\ g \in Int  BY LocalsAssumption
    <2>3. l \in AllLocals /\ l.linear_mem_size = PageBytes * cur_page_count
      BY <1>m, <1>b, <2>2 DEF Locals, AllLocals
    <2>4. invocations' = Append(invocations, l)  BY <2>1
    <2> HIDE DEF l
    <2>5. LocalsTyped' /\ Top' = l /\ Len(invocations') = Len(invocations) + 1
      BY <2>3, <2>4, AppendTyped
    <2>6. /\ phase = "run" /\ Len(invocations) < MaxDepth /\ native' = FALSE
          /\ UNCHANGED <<cur_page_count, base, phase, image, gen>>
      BY <1>4 DEF CallBack
    <2>7. Len(invocations') \in 1 .. MaxDepth  BY <1>t, <2>5, <2>6, LocalsAssumption
    <2> QED  BY <1>g, <2>3, <2>5, <2>6, <2>7, ZenonT(30)
             DEF TypeOK, ImageTyped, SizeFits, ImageAgrees, LinearMemSizeExact, InLoop
  <1>5. CASE NativeReturn
    <2> DEFINE l == [Top EXCEPT !.linear_mem_size = MemSize(cur_page_count)]
    <2>1. l \in AllLocals /\ l.linear_mem_size = PageBytes * cur_page_count
      BY <1>t, <1>m DEF AllLocals
    <2>2. /\ SetTop(l) /\ phase = "run" /\ native' = FALSE
          /\ UNCHANGED <<cur_page_count, base, phase, image, gen>>
      BY <1>5 DEF NativeReturn
    <2> HIDE DEF l
    <2>3. LocalsTyped' /\ Top' = l /\ Len(invocations') = Len(invocations)
      BY <2>1, <2>2, SetTopTyped
    <2> QED  BY <1>g, <2>1, <2>2, <2>3, ZenonT(30)
             DEF TypeOK, ImageTyped, SizeFits, ImageAgrees, LinearMemSizeExact, InLoop
  <1>6. CASE Return
    <2>1. /\ InLoop /\ Len(invocations) > 1 /\ native' = TRUE
          /\ invocations' = SubSeq(invocations, 1, Len(invocations) - 1)
          /\ UNCHANGED <<cur_page_count, base, phase, image, gen>>
      BY <1>6 DEF Return
    <2>2. LocalsTyped' /\ Len(invocations') = Len(invocations) - 1
      BY <2>1, PopTyped DEF LocalsTyped
    <2>3. Len(invocations') \in 1 .. MaxDepth
      BY <1>t, <2>1, <2>2, LocalsAssumption DEF TypeOK
    <2> QED  BY <1>g, <2>1, <2>2, <2>3
             DEF TypeOK, ImageTyped, SizeFits, ImageAgrees, LinearMemSizeExact, InLoop
  <1>7. CASE Checkpoint
    <2>1. /\ InLoop /\ gen < MaxGen /\ phase' = "down" /\ gen' = gen + 1
          /\ image'.pages = cur_page_count /\ image'.base = base
          /\ image'.mem = Top.linear_mem_size /\ image'.data = Top.global_data
          /\ image'.global = Top.global /\ image'.diff = Top.global_addr - Top.global_data
          /\ UNCHANGED <<cur_page_count, base, invocations, native>>
      BY <1>7 DEF Checkpoint
    <2>2. Top.linear_mem_size = PageBytes * cur_page_count  BY <2>1 DEF LinearMemSizeExact
    <2>3. ImageTyped'  BY <1>t, <1>b, <2>1 DEF ImageTyped, AllLocals
    <2>4. gen' \in 0 .. MaxGen  BY <2>1, LocalsAssumption DEF TypeOK
    <2> QED  BY <1>g, <2>1, <2>2, <2>3, <2>4
             DEF TypeOK, LocalsTyped, SizeFits, ImageAgrees, LinearMemSizeExact, InLoop
  <1>8. ASSUME NEW b \in GlobalBases, Restore(b)
        PROVE  IInv' /\ cur_page_count' >= cur_page_count
    <2>1. /\ phase = "down" /\ base' = b /\ cur_page_count' = image.pages /\ native' = FALSE
          /\ UNCHANGED <<image, gen>>
      BY <1>8 DEF Restore
    <2>2. cur_page_count' = cur_page_count /\ image.mem = PageBytes * cur_page_count
      BY <2>1 DEF ImageAgrees
    <2>3. image.global \in Int /\ image.base \in Int /\ image.diff \in Int /\ b \in Int
      BY <2>1, LocalsAssumption DEF ImageTyped
    <2>4. CASE image.data = image.base /\ Known(image.global)
      <3>1. PICK a \in Garbage :
               invocations' = <<[linear_mem_size |-> image.mem,
                                 global_data |-> b + image.diff, global_addr |-> a,
                                 global |-> IF image.global = NULL THEN NULL
                                            ELSE image.global - image.base + b]>>
        BY <1>8, <2>4 DEF Restore
      <3> DEFINE l == [linear_mem_size |-> image.mem,
                       global_data |-> b + image.diff, global_addr |-> a,
                       global |-> IF image.global = NULL THEN NULL
                                  ELSE image.global - image.base + b]
      <3>2. a \in Int  BY LocalsAssumption
      <3>3. l \in AllLocals /\ l.linear_mem_size = PageBytes * cur_page_count
        BY <1>m, <2>2, <2>3, <3>2 DEF AllLocals, NULL
      <3>4. invocations' = <<l>>  BY <3>1
      <3> HIDE DEF l
      <3>5. LocalsTyped' /\ Top' = l /\ Len(invocations') = 1
        BY <3>3, <3>4 DEF LocalsTyped, Top
      <3>6. phase' = "run"  BY <1>8, <2>4 DEF Restore
      <3>7. 1 \in 1 .. MaxDepth  BY LocalsAssumption
      <3> QED  BY <1>g, <2>1, <2>2, <3>3, <3>5, <3>6, <3>7, ZenonT(30)
               DEF TypeOK, ImageTyped, SizeFits, ImageAgrees, LinearMemSizeExact, InLoop
    <2>5. CASE ~ (image.data = image.base /\ Known(image.global))
      <3>1. phase' = "exited" /\ UNCHANGED invocations  BY <1>8, <2>5 DEF Restore
      <3> QED  BY <1>g, <2>1, <2>2, <3>1, ZenonT(30)
               DEF TypeOK, LocalsTyped, ImageTyped, SizeFits, ImageAgrees, LinearMemSizeExact, InLoop
    <2> QED  BY <2>4, <2>5
  <1>9. CASE UNCHANGED vars
    BY <1>9, <1>g DEF vars, TypeOK, LocalsTyped, ImageTyped, SizeFits, ImageAgrees,
                      LinearMemSizeExact, InLoop, Top
  <1> QED  BY <1>1, <1>2, <1>3, <1>4, <1>5, <1>6, <1>7, <1>8, <1>9 DEF Next

(* IInv is an invariant of InterpLocals.                                    *)
THEOREM LocalsInductive == Spec => []IInv
  <1>1. IInv /\ [Next]_vars => IInv'  BY NextIInv
  <1> QED  BY InitIInv, <1>1, PTL DEF Spec

(* Whatever grows the memory, calls back and migrates, in whatever order:   *)
(* whenever the interpreter executes, linear_mem_size is the size of the    *)
(* memory.                                                                  *)
THEOREM LinearMemSizeCorrect == Spec => [](TypeOK /\ LinearMemSizeExact)
  <1>1. IInv => TypeOK /\ LinearMemSizeExact  BY DEF IInv
  <1> QED  BY LocalsInductive, <1>1, PTL

(* No step shrinks the memory: the overflow test of wasm_enlarge_memory is  *)
(* enough for every increment, and a restored memory is as large as before. *)
THEOREM MemoryGrowsOnly == Spec => MemoryNeverShrinks
  <1>1. IInv /\ [Next]_vars => [cur_page_count' >= cur_page_count]_vars  BY NextIInv
  <1> QED  BY LocalsInductive, <1>1, PTL DEF Spec, MemoryNeverShrinks

=============================================================================
