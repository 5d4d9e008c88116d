-------------------------- MODULE InterpFramesProofs --------------------------
(* For every code, size of frames and stack, place of the stack and number  *)
(* of checkpoints: the list of infos mirrors the stack, a checkpoint writes *)
(* the call stack and a restore rebuilds it, and neither can be observed.   *)
EXTENDS InterpFrames, FiniteSetTheorems, TLAPS

-----------------------------------------------------------------------------
(* What a program that is interrupted must be like.  A signal that is       *)
(* pending in an invocation finds functions without results and callbacks   *)
(* and a process in which no invocation has failed, so that no info is      *)
(* stale; and it does not find the first iteration of the loop, where frame *)
(* is NULL.                                                                 *)
Timely ==
    sig_flag /\ phase = "run" /\ frames # <<>> =>
        /\ ~ setting.callbacks /\ ~ setting.result
        /\ ~ unwound /\ Top.kind # "entry"

(* Frames and infos.                                                        *)
FrameT == [kind : {"entry", "wasm", "native"}, fn : DOMAIN Code, ip : Nat,
           val : 0 .. MaxVal, addr : Nat, size : Nat \ {0}, sp : BOOLEAN]

InfoT == [p_raw : Nat, p_abs : Nat, size : Nat]

(* The ip of a frame, with an opcode fetched (p) or not.                    *)
IpRight(f, p) ==
    IF f.kind = "wasm"
    THEN IF p THEN f.ip \in 2 .. Len(Code[f.fn]) + 1 ELSE f.ip \in 1 .. Len(Code[f.fn])
    ELSE f.ip = 0

(* The frames of fs are typed, and have an ip in the code; p: the innermost *)
(* one has fetched an opcode.                                               *)
Typed(fs, p) ==
    /\ fs \in Seq(FrameT)
    /\ \A i \in 1 .. Len(fs) : IpRight(fs[i], p /\ i = Len(fs))

(* The frames of fs lie one behind the other, from env on, within a stack   *)
(* of size room.                                                            *)
Chained(fs, env, room) ==
    /\ \A i \in 1 .. Len(fs) : /\ i = 1 => fs[i].addr = env
                               /\ fs[i].addr + 2 * fs[i].size <= env + room
    /\ \A i \in 1 .. Len(fs) - 1 : fs[i + 1].addr = fs[i].addr + fs[i].size
    /\ \A i, j \in 1 .. Len(fs) : i < j => fs[i].addr + fs[i].size <= fs[j].addr

(* Who may call whom; c: native functions may call back.                    *)
Shaped(fs, c) ==
    /\ fs # <<>> => fs[1].kind = "entry"
    /\ \A i \in 1 .. Len(fs) - 1 :
          /\ fs[i + 1].kind = "wasm" => fs[i].kind \in {"entry", "wasm"}
          /\ fs[i + 1].kind = "native" => fs[i].kind = "wasm"
          /\ fs[i + 1].kind = "entry" => fs[i].kind = "native" /\ c

(* The first info of address a is the k-th.                                 *)
First(l, a, k) ==
    /\ k \in 1 .. Len(l) /\ l[k].p_raw = a
    /\ \A j \in 1 .. k - 1 : l[j].p_raw # a

(* The first info of each frame of fs is its own.                           *)
Live(fs, l) ==
    \A i \in 1 .. Len(fs) : \E k \in 1 .. Len(l) :
        First(l, fs[i].addr, k) /\ l[k].size = fs[i].size

(* No info is of another frame, and none is there twice.                    *)
Exact(fs, l) ==
    /\ \A i, j \in 1 .. Len(l) : l[i].p_raw = l[j].p_raw => i = j
    /\ \A i \in 1 .. Len(l) : \E j \in 1 .. Len(fs) :
          l[i].p_raw = fs[j].addr /\ l[i].size = fs[j].size

(* The record of a frame.                                                   *)
RecordOf(f) == [p_abs |-> f.addr, size |-> f.size,
                body |-> [kind |-> f.kind, fn |-> f.fn, ip |-> f.ip, val |-> f.val]]

(* The places q of the n elements of l by growing p_abs.                    *)
Sorts(l, q, n) ==
    /\ n \in Nat /\ Len(l) \in Nat /\ q \in [1 .. n -> 1 .. Len(l)]
    /\ \A k \in 1 .. Len(l) : \E i \in 1 .. n : q[i] = k
    /\ \A i \in 1 .. n : l[q[i]].p_abs \in Nat
    /\ \A i, j \in 1 .. n : i < j => l[q[i]].p_abs < l[q[j]].p_abs

(* The elements of l in that order.                                         *)
Placed(l, q, n) == [i \in 1 .. n |-> l[q[i]]]

(* The frames fs of a stack at old, on a stack at env.                      *)
MovedTo(fs, old, env) ==
    [i \in 1 .. Len(fs) |->
        [kind |-> fs[i].kind, fn |-> fs[i].fn, ip |-> fs[i].ip, val |-> fs[i].val,
         addr |-> env + (fs[i].addr - old), size |-> fs[i].size,
         sp |-> fs[i].kind # "entry"]]

(* The frames ns are those of fs, apart from their places.                  *)
Alike(ns, fs) ==
    \A i \in 1 .. Len(fs) :
        /\ ns[i].kind = fs[i].kind /\ ns[i].fn = fs[i].fn /\ ns[i].ip = fs[i].ip
        /\ ns[i].val = fs[i].val /\ ns[i].size = fs[i].size

(* The images are those of the frames fs, of which the innermost one has    *)
(* fetched an opcode.                                                       *)
ImageOf(img, fs, env, room) ==
    /\ fs # <<>> /\ fs[Len(fs)].kind = "wasm"
    /\ Typed(fs, TRUE) /\ Chained(fs, env, room) /\ Shaped(fs, FALSE)
    /\ Ascending(img.records) = [i \in 1 .. Len(fs) |-> RecordOf(fs[i])]
    /\ img.frame = fs[Len(fs)].addr

(* A stack fs with the infos l, in a process with the stack at env; p: an   *)
(* opcode is fetched; u: an invocation has failed.                          *)
StackRight(fs, l, p, u, env, st) ==
    /\ Typed(fs, p) /\ Chained(fs, env, st.stack) /\ Shaped(fs, st.callbacks)
    /\ p => fs # <<>> /\ fs[Len(fs)].kind = "wasm"
    /\ Live(fs, l) /\ (~ u => Exact(fs, l))

(* The infos have the offsets of their own process.                         *)
OwnAbs(l) == \A i \in 1 .. Len(l) : l[i].p_abs = l[i].p_raw

(* Every frame has a sp.                                                    *)
AllSp(fs) == \A i \in 1 .. Len(fs) : fs[i].sp

(* The types of what is not the stack.                                      *)
Values ==
    /\ setting \in Settings /\ exec_env \in Envs
    /\ phase \in {"run", "down", "over"}
    /\ pending \in BOOLEAN /\ exception \in BOOLEAN /\ unwound \in BOOLEAN
    /\ sig_flag \in BOOLEAN
    /\ infos \in Seq(InfoT)
    /\ restored \in {0, 1}

(* What a restored process was like, and what the others have.              *)
Origin ==
    IF restored = 0 THEN OwnAbs(infos) /\ AllSp(frames)
    ELSE /\ ~ setting.callbacks /\ ~ setting.result
         /\ phase = "run" => frames # <<>>

(* Between two processes, the images hold a stack, without what a migrated  *)
(* program may not have.                                                    *)
Imaged ==
    phase = "down" =>
        /\ frames = <<>> /\ infos = <<>> /\ ~ pending
        /\ ~ setting.callbacks /\ ~ setting.result
        /\ \E fs \in Seq(FrameT) : ImageOf(image, fs, exec_env, setting.stack)

(* The inductive invariant.                                                 *)
FramesInv == /\ Values /\ Origin /\ Imaged
             /\ StackRight(frames, infos, pending, unwound, exec_env, setting)

-----------------------------------------------------------------------------
(* The neighbours of an index.                                              *)
LEMMA Within ==
    ASSUME NEW n \in Nat, n >= 1, n # 1
    PROVE  /\ n - 1 \in 1 .. n /\ n - 1 \in Nat /\ n - 1 >= 1 /\ 1 \in 1 .. n - 1
           /\ n - 1 \in 1 .. n - 1 /\ (n - 1) + 1 = n
           /\ n # 2 => n - 2 \in 1 .. n - 1 /\ (n - 2) + 1 = n - 1
OBVIOUS

(* The front of a sequence.                                                 *)
LEMMA FrontIs ==
    ASSUME NEW T, NEW s \in Seq(T), NEW n \in Nat, n <= Len(s)
    PROVE  /\ SubSeq(s, 1, n) \in Seq(T) /\ Len(SubSeq(s, 1, n)) = n
           /\ \A i \in 1 .. n : SubSeq(s, 1, n)[i] = s[i]
OBVIOUS

(* What Pop, as FREE_FRAME does it, leaves of the stack.                    *)
LEMMA PopIs ==
    ASSUME NEW T, NEW s \in Seq(T), s # <<>>
    PROVE  /\ Len(s) \in Nat /\ Len(s) >= 1 /\ s[Len(s)] \in T
           /\ Pop(s) \in Seq(T) /\ Len(Pop(s)) = Len(s) - 1
           /\ \A i \in 1 .. Len(s) - 1 : Pop(s)[i] = s[i]
<1>1. Len(s) \in Nat /\ Len(s) >= 1 /\ s[Len(s)] \in T
  OBVIOUS
<1>2. SubSeq(s, 1, Len(s) - 1) \in Seq(T) /\ Len(SubSeq(s, 1, Len(s) - 1)) = Len(s) - 1
      /\ \A i \in 1 .. Len(s) - 1 : SubSeq(s, 1, Len(s) - 1)[i] = s[i]
  <2>1. Len(s) - 1 \in Nat /\ Len(s) - 1 <= Len(s)
    BY <1>1
  <2> QED BY <2>1, FrontIs, ZenonT(30)
<1> QED BY <1>1, <1>2 DEF Pop

(* A frame pushed on a sequence.                                            *)
LEMMA AppendIs ==
    ASSUME NEW T, NEW s \in Seq(T), NEW f \in T
    PROVE  /\ Append(s, f) \in Seq(T) /\ Len(Append(s, f)) = Len(s) + 1
           /\ Append(s, f) # <<>> /\ Append(s, f)[Len(s) + 1] = f
           /\ \A i \in 1 .. Len(s) : Append(s, f)[i] = s[i]
OBVIOUS

(* A sequence with another last element.                                    *)
LEMMA SetTopIs ==
    ASSUME NEW T, NEW s \in Seq(T), s # <<>>, NEW f \in T
    PROVE  /\ SetTop(s, f) \in Seq(T) /\ Len(SetTop(s, f)) = Len(s)
           /\ SetTop(s, f) # <<>> /\ SetTop(s, f)[Len(s)] = f
           /\ \A i \in 1 .. Len(s) - 1 : SetTop(s, f)[i] = s[i]
<1>1. /\ Len(s) \in Nat /\ Len(s) >= 1
      /\ Pop(s) \in Seq(T) /\ Len(Pop(s)) = Len(s) - 1
      /\ \A i \in 1 .. Len(s) - 1 : Pop(s)[i] = s[i]
  BY PopIs, ZenonT(30)
<1>2. /\ Append(Pop(s), f) \in Seq(T) /\ Len(Append(Pop(s), f)) = Len(Pop(s)) + 1
      /\ Append(Pop(s), f) # <<>> /\ Append(Pop(s), f)[Len(Pop(s)) + 1] = f
      /\ \A i \in 1 .. Len(Pop(s)) : Append(Pop(s), f)[i] = Pop(s)[i]
  BY <1>1, AppendIs, ZenonT(30)
<1>3. Len(Pop(s)) + 1 = Len(s)
  BY <1>1
<1> QED BY <1>1, <1>2, <1>3, ZenonT(30) DEF SetTop

(* An info put before the others, as ALLOC_FRAME does.                      *)
LEMMA ConsIs ==
    ASSUME NEW T, NEW s \in Seq(T), NEW x \in T
    PROVE  /\ <<x>> \o s \in Seq(T) /\ Len(<<x>> \o s) = Len(s) + 1
           /\ (<<x>> \o s)[1] = x
           /\ \A i \in 1 .. Len(s) : (<<x>> \o s)[i + 1] = s[i]
OBVIOUS

-----------------------------------------------------------------------------
(* The fields of a frame and of an info.                                    *)
LEMMA FrameFields ==
    ASSUME NEW f \in FrameT
    PROVE  /\ f.kind \in {"entry", "wasm", "native"} /\ f.fn \in DOMAIN Code
           /\ f.ip \in Nat /\ f.val \in 0 .. MaxVal /\ f.addr \in Nat
           /\ f.size \in Nat /\ f.size > 0 /\ f.sp \in BOOLEAN
BY DEF FrameT

(* The fields of an info.                                                   *)
LEMMA InfoFields ==
    ASSUME NEW x \in InfoT
    PROVE  x.p_raw \in Nat /\ x.p_abs \in Nat /\ x.size \in Nat
BY DEF InfoT

(* The frames of a stack without the innermost ones: what holds of a stack  *)
(* holds of what is below.                                                  *)
LEMMA FrontTyped ==
    ASSUME NEW fs, NEW p \in BOOLEAN, Typed(fs, p), NEW n \in Nat, n < Len(fs)
    PROVE  Typed(SubSeq(fs, 1, n), FALSE)
<1> DEFINE g == SubSeq(fs, 1, n)
<1>1. fs \in Seq(FrameT) /\ Len(fs) \in Nat
  BY DEF Typed
<1>2. g \in Seq(FrameT) /\ Len(g) = n /\ \A i \in 1 .. n : g[i] = fs[i]
  BY <1>1, FrontIs
<1> HIDE DEF g
<1>3. ASSUME NEW i \in 1 .. n PROVE IpRight(g[i], FALSE)
  <2>1. i \in 1 .. Len(fs) /\ i # Len(fs) /\ g[i] = fs[i]
    BY <1>1, <1>2
  <2>2. (p /\ i = Len(fs)) = FALSE
    BY <2>1
  <2> QED BY <2>1, <2>2, ZenonT(30) DEF Typed
<1>4. \A i : (FALSE /\ i = Len(g)) = FALSE
  OBVIOUS
<1> QED BY <1>2, <1>3, <1>4 DEF Typed, g

(* The frames of a front keep their places.                                 *)
LEMMA FrontChained ==
    ASSUME NEW fs \in Seq(FrameT), NEW env, NEW room, Chained(fs, env, room),
           NEW n \in Nat, n <= Len(fs)
    PROVE  Chained(SubSeq(fs, 1, n), env, room)
<1> DEFINE g == SubSeq(fs, 1, n)
<1>1. Len(g) = n /\ \A i \in 1 .. n : g[i] = fs[i]
  BY FrontIs
<1>2. Len(fs) \in Nat
  OBVIOUS
<1> HIDE DEF g
<1> QED BY <1>1, <1>2 DEF Chained, g

(* The frames of a front keep their callers.                                *)
LEMMA FrontShaped ==
    ASSUME NEW fs \in Seq(FrameT), NEW c, Shaped(fs, c), NEW n \in Nat, n <= Len(fs)
    PROVE  Shaped(SubSeq(fs, 1, n), c)
<1> DEFINE g == SubSeq(fs, 1, n)
<1>1. g \in Seq(FrameT) /\ Len(g) = n /\ \A i \in 1 .. n : g[i] = fs[i]
  BY FrontIs
<1>2. Len(fs) \in Nat
  OBVIOUS
<1> HIDE DEF g
<1>3. g # <<>> => n >= 1 /\ fs # <<>>
  BY <1>1, <1>2
<1>4. g # <<>> => g[1].kind = "entry"
  BY <1>1, <1>3 DEF Shaped
<1>5. \A i \in 1 .. Len(g) - 1 : i \in 1 .. Len(fs) - 1 /\ g[i] = fs[i] /\ g[i + 1] = fs[i + 1]
  BY <1>1, <1>2
<1> QED BY <1>4, <1>5, ZenonT(30) DEF Shaped, g

(* The frames of a front keep their infos.                                  *)
LEMMA FrontLive ==
    ASSUME NEW fs \in Seq(FrameT), NEW l, Live(fs, l), NEW n \in Nat, n <= Len(fs)
    PROVE  Live(SubSeq(fs, 1, n), l)
<1> DEFINE g == SubSeq(fs, 1, n)
<1>1. Len(g) = n /\ \A i \in 1 .. n : g[i] = fs[i]
  BY FrontIs
<1>2. \A i \in 1 .. n : i \in 1 .. Len(fs)
  OBVIOUS
<1> HIDE DEF g
<1> QED BY <1>1, <1>2, ZenonT(30) DEF Live, g
-----------------------------------------------------------------------------
(* Another innermost frame of the same kind, at the same place.             *)
LEMMA Retop ==
    ASSUME NEW fs \in Seq(FrameT), fs # <<>>, NEW f \in FrameT,
           f.kind = fs[Len(fs)].kind, f.addr = fs[Len(fs)].addr, f.size = fs[Len(fs)].size
    PROVE  /\ \A env, room : Chained(fs, env, room) => Chained(SetTop(fs, f), env, room)
           /\ \A c : Shaped(fs, c) => Shaped(SetTop(fs, f), c)
           /\ \A l : Live(fs, l) => Live(SetTop(fs, f), l)
           /\ \A l : Exact(fs, l) => Exact(SetTop(fs, f), l)
<1> DEFINE g == SetTop(fs, f)
<1>1. Len(fs) \in Nat /\ Len(fs) >= 1 /\ Len(g) = Len(fs) /\ g # <<>> /\ g[Len(fs)] = f
      /\ \A i \in 1 .. Len(fs) - 1 : g[i] = fs[i]
  BY PopIs, SetTopIs
<1> HIDE DEF g
<1>2. ASSUME NEW i \in 1 .. Len(fs)
      PROVE  g[i].kind = fs[i].kind /\ g[i].addr = fs[i].addr /\ g[i].size = fs[i].size
  <2>1. CASE i = Len(fs)
    BY <1>1, <2>1
  <2>2. CASE i # Len(fs)
    <3>1. i \in 1 .. Len(fs) - 1
      BY <1>1, <2>2
    <3> QED BY <1>1, <3>1
  <2> QED BY <2>1, <2>2
<1>3. /\ 1 \in 1 .. Len(fs)
      /\ \A i \in 1 .. Len(fs) - 1 : i \in 1 .. Len(fs) /\ i + 1 \in 1 .. Len(fs)
  BY <1>1
<1>4. ASSUME NEW env, NEW room, Chained(fs, env, room) PROVE Chained(g, env, room)
  BY <1>1, <1>2, <1>3, <1>4, ZenonT(30) DEF Chained
<1>5. ASSUME NEW c, Shaped(fs, c) PROVE Shaped(g, c)
  BY <1>1, <1>2, <1>3, <1>5, ZenonT(30) DEF Shaped
<1>6. ASSUME NEW l, Live(fs, l) PROVE Live(g, l)
  BY <1>1, <1>2, <1>6, ZenonT(30) DEF Live
<1>7. ASSUME NEW l, Exact(fs, l) PROVE Exact(g, l)
  <2>1. \A i, j \in 1 .. Len(l) : l[i].p_raw = l[j].p_raw => i = j
    BY <1>7 DEF Exact
  <2>2. ASSUME NEW i \in 1 .. Len(l)
        PROVE  \E j \in 1 .. Len(g) : l[i].p_raw = g[j].addr /\ l[i].size = g[j].size
    <3>1. PICK j \in 1 .. Len(fs) : l[i].p_raw = fs[j].addr /\ l[i].size = fs[j].size
      BY <1>7, ZenonT(30) DEF Exact
    <3>2. g[j].addr = fs[j].addr /\ g[j].size = fs[j].size /\ j \in 1 .. Len(g)
      BY <1>1, <1>2, ZenonT(30)
    <3> QED BY <3>1, <3>2, ZenonT(30)
  <2> QED BY <2>1, <2>2, ZenonT(30) DEF Exact
<1> QED BY <1>4, <1>5, <1>6, <1>7, ZenonT(30) DEF g

(* Another innermost frame whose ip is in the code.                         *)
LEMMA RetopTyped ==
    ASSUME NEW fs, fs # <<>>, NEW p \in BOOLEAN, Typed(fs, p),
           NEW f \in FrameT, NEW q \in BOOLEAN, IpRight(f, q)
    PROVE  Typed(SetTop(fs, f), q)
<1> DEFINE g == SetTop(fs, f)
<1>1. fs \in Seq(FrameT)
  BY DEF Typed
<1>2. Len(fs) \in Nat /\ Len(g) = Len(fs) /\ g \in Seq(FrameT) /\ g[Len(fs)] = f
      /\ \A i \in 1 .. Len(fs) - 1 : g[i] = fs[i]
  BY <1>1, PopIs, SetTopIs
<1> HIDE DEF g
<1>3. ASSUME NEW i \in 1 .. Len(g) PROVE IpRight(g[i], q /\ i = Len(g))
  <2>1. CASE i = Len(g)
    <3>1. (q /\ i = Len(g)) = q
      BY <2>1
    <3> QED BY <1>2, <2>1, <3>1
  <2>2. CASE i # Len(g)
    <3>1. (q /\ i = Len(g)) = FALSE /\ (p /\ i = Len(fs)) = FALSE
      BY <1>2, <2>2
    <3>2. i \in 1 .. Len(fs) /\ g[i] = fs[i]
      BY <1>2, <2>2
    <3> QED BY <3>1, <3>2 DEF Typed
  <2> QED BY <2>1, <2>2
<1> QED BY <1>2, <1>3, ZenonT(30) DEF Typed, g

(* The opcode that was fetched is not the last one: the ip is in the code.  *)
LEMMA Executed ==
    ASSUME NEW fs, fs # <<>>, Typed(fs, TRUE), fs[Len(fs)].kind = "wasm",
           Code[fs[Len(fs)].fn][fs[Len(fs)].ip - 1].op # "end"
    PROVE  Typed(fs, FALSE) /\ fs[Len(fs)].ip \in 1 .. Len(Code[fs[Len(fs)].fn])
<1> DEFINE n == Len(fs)
           f == fs[n]
<1>1. fs \in Seq(FrameT) /\ n \in Nat /\ n >= 1 /\ f \in FrameT
  BY PopIs DEF Typed
<1>2. f.fn \in DOMAIN Code /\ f.ip \in Nat
  BY <1>1, FrameFields
<1>3. IpRight(f, TRUE)
  <2>1. n \in 1 .. Len(fs) /\ (TRUE /\ n = Len(fs)) = TRUE
    BY <1>1
  <2> QED BY <2>1, ZenonT(30) DEF Typed
<1>4. f.ip \in 2 .. Len(Code[f.fn]) + 1 /\ Len(Code[f.fn]) \in Nat
  BY <1>2, <1>3, InterpAssumption DEF IpRight
<1>5. f.ip - 1 # Len(Code[f.fn])
  BY <1>2, InterpAssumption
<1>6. f.ip \in 1 .. Len(Code[f.fn])
  BY <1>2, <1>4, <1>5
<1>7. ASSUME NEW i \in 1 .. n PROVE IpRight(fs[i], FALSE)
  <2>1. CASE i = n
    BY <1>6, <2>1 DEF IpRight
  <2>2. CASE i # n
    <3>1. (TRUE /\ i = Len(fs)) = FALSE
      BY <2>2
    <3> QED BY <3>1, ZenonT(30) DEF Typed
  <2> QED BY <2>1, <2>2, ZenonT(30)
<1>8. \A i : (FALSE /\ i = Len(fs)) = FALSE
  OBVIOUS
<1> QED BY <1>1, <1>6, <1>7, <1>8, ZenonT(30) DEF Typed

-----------------------------------------------------------------------------
(* One more frame, behind the others.                                       *)
LEMMA PushTyped ==
    ASSUME NEW fs, Typed(fs, FALSE), NEW f \in FrameT, IpRight(f, FALSE)
    PROVE  Typed(Append(fs, f), FALSE)
<1> DEFINE g == Append(fs, f)
<1>1. fs \in Seq(FrameT)
  BY DEF Typed
<1>2. Len(fs) \in Nat /\ g \in Seq(FrameT) /\ Len(g) = Len(fs) + 1 /\ g[Len(fs) + 1] = f
      /\ \A i \in 1 .. Len(fs) : g[i] = fs[i]
  BY <1>1, AppendIs
<1> HIDE DEF g
<1>3. \A i : (FALSE /\ i = Len(g)) = FALSE /\ (FALSE /\ i = Len(fs)) = FALSE
  OBVIOUS
<1>4. ASSUME NEW i \in 1 .. Len(g) PROVE IpRight(g[i], FALSE)
  <2>1. CASE i = Len(fs) + 1
    BY <1>2, <2>1, ZenonT(30)
  <2>2. CASE i # Len(fs) + 1
    <3>1. i \in 1 .. Len(fs) /\ g[i] = fs[i]
      BY <1>2, <2>2
    <3> QED BY <1>3, <3>1, ZenonT(30) DEF Typed
  <2> QED BY <2>1, <2>2, ZenonT(30)
<1> QED BY <1>2, <1>3, <1>4, ZenonT(30) DEF Typed, g

(* A frame pushed at the top of the stack lies behind all others.           *)
LEMMA PushChained ==
    ASSUME NEW fs \in Seq(FrameT), NEW env \in Nat, NEW room \in Nat, Chained(fs, env, room),
           NEW f \in FrameT, f.addr + 2 * f.size <= env + room,
           f.addr = IF fs = <<>> THEN env ELSE fs[Len(fs)].addr + fs[Len(fs)].size
    PROVE  /\ Chained(Append(fs, f), env, room)
           /\ \A i \in 1 .. Len(fs) : fs[i].addr # f.addr
<1> DEFINE g == Append(fs, f)
           n == Len(fs)
<1>1. n \in Nat /\ Len(g) = n + 1 /\ g[n + 1] = f /\ \A i \in 1 .. n : g[i] = fs[i]
  BY AppendIs
<1>2. \A i \in 1 .. n : fs[i].addr \in Nat /\ fs[i].size \in Nat /\ fs[i].size > 0
  <2>1. \A i \in 1 .. n : fs[i] \in FrameT
    OBVIOUS
  <2> QED BY <2>1, FrameFields
<1>3. f.addr \in Nat /\ f.size \in Nat /\ f.size > 0
  BY FrameFields
<1>4. n = 0 <=> fs = <<>>
  OBVIOUS
<1> HIDE DEF g, n
<1>5. ASSUME NEW i \in 1 .. n PROVE fs[i].addr + fs[i].size <= f.addr
  <2>1. n >= 1 /\ n \in 1 .. n /\ f.addr = fs[n].addr + fs[n].size
    BY <1>1, <1>4 DEF n
  <2>2. CASE i = n
    BY <1>2, <2>1, <2>2
  <2>3. CASE i # n
    <3>1. i < n
      BY <1>1, <2>3
    <3>2. fs[i].addr + fs[i].size <= fs[n].addr
      BY <2>1, <3>1 DEF Chained, n
    <3>3. /\ fs[n].addr \in Nat /\ fs[n].size \in Nat
          /\ fs[i].addr \in Nat /\ fs[i].size \in Nat
      BY <1>2, <2>1, ZenonT(30)
    <3>4. \A a, b, c, d, e \in Nat : a = b + c /\ d + e <= b => d + e <= a
      OBVIOUS
    <3> QED BY <1>3, <2>1, <3>2, <3>3, <3>4, ZenonT(30)
  <2> QED BY <2>2, <2>3
<1>6. ASSUME NEW i \in 1 .. n + 1
      PROVE  (i = 1 => g[i].addr = env) /\ g[i].addr + 2 * g[i].size <= env + room
  <2>1. CASE i = n + 1
    <3>1. i = 1 => n = 0
      BY <1>1, <2>1
    <3> QED BY <1>1, <1>4, <2>1, <3>1
  <2>2. CASE i # n + 1
    <3>1. i \in 1 .. n
      BY <1>1, <2>2
    <3> QED BY <1>1, <3>1 DEF Chained, n
  <2> QED BY <2>1, <2>2
<1>7. ASSUME NEW i \in 1 .. n PROVE g[i + 1].addr = g[i].addr + g[i].size
  <2>1. CASE i = n
    <3>1. fs # <<>>
      BY <1>1, <1>4, <2>1
    <3> QED BY <1>1, <2>1, <3>1 DEF n
  <2>2. CASE i # n
    <3>1. i \in 1 .. n - 1 /\ i + 1 \in 1 .. n
      BY <1>1, <2>2
    <3> QED BY <1>1, <3>1 DEF Chained, n
  <2> QED BY <2>1, <2>2
<1>8. ASSUME NEW i \in 1 .. n + 1, NEW j \in 1 .. n + 1, i < j
      PROVE  g[i].addr + g[i].size <= g[j].addr
  <2>1. i \in 1 .. n /\ g[i] = fs[i]
    BY <1>1, <1>8
  <2>2. CASE j = n + 1
    BY <1>1, <1>5, <2>1, <2>2
  <2>3. CASE j # n + 1
    <3>1. j \in 1 .. n /\ g[j] = fs[j]
      BY <1>1, <2>3
    <3> QED BY <1>8, <2>1, <3>1 DEF Chained, n
  <2> QED BY <2>2, <2>3
<1>9. Chained(g, env, room)
  <2>1. (n + 1) - 1 = n
    BY <1>1
  <2> QED BY <1>1, <1>6, <1>7, <1>8, <2>1, ZenonT(30) DEF Chained
<1>10. \A i \in 1 .. n : fs[i].addr # f.addr
  BY <1>2, <1>3, <1>5
<1> QED BY <1>9, <1>10 DEF g, n

(* A frame pushed by a caller that may push it.                             *)
LEMMA PushShaped ==
    ASSUME NEW fs \in Seq(FrameT), NEW c, Shaped(fs, c), NEW f \in FrameT,
           fs = <<>> => f.kind = "entry",
           fs # <<>> => \/ f.kind = "wasm" /\ fs[Len(fs)].kind \in {"entry", "wasm"}
                        \/ f.kind = "native" /\ fs[Len(fs)].kind = "wasm"
                        \/ f.kind = "entry" /\ fs[Len(fs)].kind = "native" /\ c
    PROVE  Shaped(Append(fs, f), c)
<1> DEFINE g == Append(fs, f)
           n == Len(fs)
<1>1. n \in Nat /\ Len(g) = n + 1 /\ g[n + 1] = f /\ \A i \in 1 .. n : g[i] = fs[i]
  BY AppendIs
<1>2. n = 0 <=> fs = <<>>
  OBVIOUS
<1> HIDE DEF g, n
<1>3. g[1].kind = "entry"
  <2>1. CASE n = 0
    BY <1>1, <1>2, <2>1
  <2>2. CASE n # 0
    <3>1. 1 \in 1 .. n /\ fs # <<>>
      BY <1>1, <1>2, <2>2
    <3> QED BY <1>1, <3>1 DEF Shaped
  <2> QED BY <2>1, <2>2
<1>4. ASSUME NEW i \in 1 .. n
      PROVE  /\ g[i + 1].kind = "wasm" => g[i].kind \in {"entry", "wasm"}
             /\ g[i + 1].kind = "native" => g[i].kind = "wasm"
             /\ g[i + 1].kind = "entry" => g[i].kind = "native" /\ c
  <2>1. CASE i = n
    <3>1. fs # <<>> /\ g[i + 1] = f /\ g[i] = fs[Len(fs)]
      BY <1>1, <1>2, <2>1 DEF n
    <3>2. \/ f.kind = "wasm" /\ fs[Len(fs)].kind \in {"entry", "wasm"}
          \/ f.kind = "native" /\ fs[Len(fs)].kind = "wasm"
          \/ f.kind = "entry" /\ fs[Len(fs)].kind = "native" /\ c
      BY <3>1
    <3> QED BY <3>1, <3>2
  <2>2. CASE i # n
    <3>1. i \in 1 .. Len(fs) - 1 /\ i + 1 \in 1 .. n
      BY <1>1, <2>2 DEF n
    <3> QED BY <1>1, <3>1, ZenonT(30) DEF Shaped
  <2> QED BY <2>1, <2>2
<1>5. (n + 1) - 1 = n
  BY <1>1
<1> QED BY <1>1, <1>3, <1>4, <1>5, ZenonT(30) DEF Shaped, g
-----------------------------------------------------------------------------
(* ALLOC_FRAME puts the info of the new frame in front.                     *)
LEMMA PushInfo ==
    ASSUME NEW fs \in Seq(FrameT), NEW l \in Seq(InfoT), NEW f \in FrameT,
           \A i \in 1 .. Len(fs) : fs[i].addr # f.addr
    PROVE  /\ <<FrameInfo(f)>> \o l \in Seq(InfoT)
           /\ Live(fs, l) => Live(Append(fs, f), <<FrameInfo(f)>> \o l)
           /\ Exact(fs, l) => Exact(Append(fs, f), <<FrameInfo(f)>> \o l)
           /\ (\A i \in 1 .. Len(l) : l[i].p_abs = l[i].p_raw) =>
                 \A i \in 1 .. Len(<<FrameInfo(f)>> \o l) :
                    (<<FrameInfo(f)>> \o l)[i].p_abs = (<<FrameInfo(f)>> \o l)[i].p_raw
<1> DEFINE x == FrameInfo(f)
           m == <<x>> \o l
           g == Append(fs, f)
<1>1. x \in InfoT /\ x.p_raw = f.addr /\ x.p_abs = f.addr /\ x.size = f.size
  BY FrameFields DEF FrameInfo, InfoT
<1>2. /\ m \in Seq(InfoT) /\ Len(m) = Len(l) + 1 /\ m[1] = x
      /\ \A i \in 1 .. Len(l) : m[i + 1] = l[i]
  BY <1>1, ConsIs
<1>3. /\ Len(fs) \in Nat /\ Len(l) \in Nat /\ Len(g) = Len(fs) + 1 /\ g[Len(fs) + 1] = f
      /\ \A i \in 1 .. Len(fs) : g[i] = fs[i]
  BY AppendIs
<1> HIDE DEF x, m, g
<1>4. ASSUME NEW i \in 1 .. Len(m), i # 1 PROVE i - 1 \in 1 .. Len(l) /\ m[i] = l[i - 1]
  <2>1. i - 1 \in 1 .. Len(l) /\ (i - 1) + 1 = i
    BY <1>2, <1>3, <1>4
  <2> QED BY <1>2, <2>1
<1>5. ASSUME Live(fs, l) PROVE Live(g, m)
  <2> SUFFICES ASSUME NEW i \in 1 .. Len(g)
               PROVE  \E k \in 1 .. Len(m) : First(m, g[i].addr, k) /\ m[k].size = g[i].size
    BY DEF Live
  <2>1. CASE i = Len(fs) + 1
    <3>1. 1 \in 1 .. Len(m) /\ 1 .. 1 - 1 = {}
      BY <1>2, <1>3
    <3>2. First(m, f.addr, 1) /\ m[1].size = f.size
      BY <1>1, <1>2, <3>1 DEF First
    <3> QED BY <1>3, <2>1, <3>1, <3>2
  <2>2. CASE i # Len(fs) + 1
    <3>1. i \in 1 .. Len(fs) /\ g[i] = fs[i]
      BY <1>3, <2>2
    <3>2. PICK k \in 1 .. Len(l) : First(l, fs[i].addr, k) /\ l[k].size = fs[i].size
      BY <1>5, <3>1 DEF Live
    <3>3. k + 1 \in 1 .. Len(m) /\ m[k + 1] = l[k]
      BY <1>2, <1>3
    <3>4. ASSUME NEW j \in 1 .. (k + 1) - 1 PROVE m[j].p_raw # fs[i].addr
      <4>1. CASE j = 1
        BY <1>1, <1>2, <3>1, <4>1
      <4>2. CASE j # 1
        <5>1. j \in 1 .. Len(m) /\ j - 1 \in 1 .. k - 1
          BY <1>2, <1>3, <4>2
        <5>2. m[j] = l[j - 1]
          BY <1>4, <4>2, <5>1
        <5> QED BY <3>2, <5>1, <5>2 DEF First
      <4> QED BY <4>1, <4>2
    <3>5. First(m, fs[i].addr, k + 1)
      BY <3>2, <3>3, <3>4 DEF First
    <3> QED BY <3>1, <3>2, <3>3, <3>5
  <2> QED BY <2>1, <2>2
<1>6. ASSUME Exact(fs, l) PROVE Exact(g, m)
  <2>1. ASSUME NEW i \in 1 .. Len(m), i # 1 PROVE m[i].p_raw # f.addr
    <3>1. i - 1 \in 1 .. Len(l) /\ m[i] = l[i - 1]
      BY <1>4, <2>1
    <3>2. PICK j \in 1 .. Len(fs) : l[i - 1].p_raw = fs[j].addr
      BY <1>6, <3>1, ZenonT(30) DEF Exact
    <3> QED BY <3>1, <3>2
  <2>2. ASSUME NEW i \in 1 .. Len(m), NEW j \in 1 .. Len(m), m[i].p_raw = m[j].p_raw
        PROVE  i = j
    <3>1. CASE i = 1 \/ j = 1
      BY <1>1, <1>2, <2>1, <2>2, <3>1
    <3>2. CASE i # 1 /\ j # 1
      <4>1. i - 1 \in 1 .. Len(l) /\ m[i] = l[i - 1] /\ j - 1 \in 1 .. Len(l) /\ m[j] = l[j - 1]
        BY <1>4, <3>2
      <4>2. i - 1 = j - 1
        BY <1>6, <2>2, <4>1 DEF Exact
      <4> QED BY <4>2
    <3> QED BY <3>1, <3>2
  <2>3. ASSUME NEW i \in 1 .. Len(m)
        PROVE  \E j \in 1 .. Len(g) : m[i].p_raw = g[j].addr /\ m[i].size = g[j].size
    <3>1. CASE i = 1
      <4>1. Len(fs) + 1 \in 1 .. Len(g)
        BY <1>3
      <4> QED BY <1>1, <1>2, <1>3, <3>1, <4>1, SMTT(30)
    <3>2. CASE i # 1
      <4>1. i - 1 \in 1 .. Len(l) /\ m[i] = l[i - 1]
        BY <1>4, <3>2
      <4>2. PICK j \in 1 .. Len(fs) : l[i - 1].p_raw = fs[j].addr /\ l[i - 1].size = fs[j].size
        BY <1>6, <4>1 DEF Exact
      <4>3. j \in 1 .. Len(g) /\ g[j] = fs[j]
        BY <1>3
      <4> QED BY <4>1, <4>2, <4>3
    <3> QED BY <3>1, <3>2
  <2> QED BY <2>2, <2>3, ZenonT(30) DEF Exact
<1>7. ASSUME \A i \in 1 .. Len(l) : l[i].p_abs = l[i].p_raw, NEW i \in 1 .. Len(m)
      PROVE  m[i].p_abs = m[i].p_raw
  <2>1. CASE i = 1
    BY <1>1, <1>2, <2>1
  <2>2. CASE i # 1
    BY <1>4, <1>7, <2>2
  <2> QED BY <2>1, <2>2
<1> QED BY <1>2, <1>5, <1>6, <1>7, ZenonT(30) DEF x, m, g

-----------------------------------------------------------------------------
(* FREE_FRAME: free_info takes the first info of an address out.            *)
LEMMA FreeIs ==
    ASSUME NEW l \in Seq(InfoT), NEW a, NEW k, First(l, a, k)
    PROVE  /\ Registered(a, l) /\ FirstInfo(a, l) = k /\ k \in 1 .. Len(l)
           /\ FreeInfo(a, l) \in Seq(InfoT) /\ Len(FreeInfo(a, l)) = Len(l) - 1
           /\ \A j \in 1 .. Len(l) - 1 :
                 FreeInfo(a, l)[j] = IF j < k THEN l[j] ELSE l[j + 1]
<1>1. /\ Len(l) \in Nat /\ k \in 1 .. Len(l) /\ k \in Nat /\ l[k].p_raw = a
      /\ \A j \in 1 .. k - 1 : l[j].p_raw # a
  BY DEF First
<1>2. ASSUME NEW i \in 1 .. Len(l), l[i].p_raw = a, \A j \in 1 .. i - 1 : l[j].p_raw # a
      PROVE  i = k
  <2>1. ~ (i < k) /\ ~ (k < i)
    <3>1. i < k => i \in 1 .. k - 1
      BY <1>1
    <3>2. k < i => k \in 1 .. i - 1
      BY <1>1
    <3> QED BY <1>1, <1>2, <3>1, <3>2
  <2> QED BY <1>1, <2>1
<1>3. FirstInfo(a, l) = k
  BY <1>1, <1>2 DEF FirstInfo
<1>4. FreeInfo(a, l) = [j \in 1 .. Len(l) - 1 |-> IF j < k THEN l[j] ELSE l[j + 1]]
  BY <1>3 DEF FreeInfo
<1>5. \A j \in 1 .. Len(l) - 1 : l[j] \in InfoT /\ l[j + 1] \in InfoT
  BY <1>1
<1>6. Len(l) - 1 \in Nat
  BY <1>1
<1>7. \A j \in 1 .. Len(l) - 1 : (IF j < k THEN l[j] ELSE l[j + 1]) \in InfoT
  BY <1>5
<1>8. FreeInfo(a, l) \in Seq(InfoT) /\ Len(FreeInfo(a, l)) = Len(l) - 1
  BY <1>4, <1>6, <1>7
<1> QED BY <1>1, <1>3, <1>4, <1>8 DEF Registered

(* What is left was there before, each once.                                *)
LEMMA FreeFrom ==
    ASSUME NEW l \in Seq(InfoT), NEW a, NEW k, First(l, a, k),
           NEW i \in 1 .. Len(FreeInfo(a, l))
    PROVE  LET h == IF i < k THEN i ELSE i + 1
           IN  /\ h \in 1 .. Len(l) /\ h # k /\ FreeInfo(a, l)[i] = l[h]
<1>1. Len(l) \in Nat /\ Len(FreeInfo(a, l)) = Len(l) - 1 /\ k \in 1 .. Len(l)
      /\ FreeInfo(a, l)[i] = IF i < k THEN l[i] ELSE l[i + 1]
  BY FreeIs
<1> QED BY <1>1

(* The first infos of other addresses stay.                                 *)
LEMMA FreeLive ==
    ASSUME NEW l \in Seq(InfoT), NEW a, NEW k, First(l, a, k),
           NEW fs \in Seq(FrameT), Live(fs, l), \A i \in 1 .. Len(fs) : fs[i].addr # a
    PROVE  Live(fs, FreeInfo(a, l))
<1> DEFINE m == FreeInfo(a, l)
<1> SUFFICES ASSUME NEW i \in 1 .. Len(fs)
             PROVE  \E n \in 1 .. Len(m) : First(m, fs[i].addr, n) /\ m[n].size = fs[i].size
  BY DEF Live
<1>1. PICK h \in 1 .. Len(l) : First(l, fs[i].addr, h) /\ l[h].size = fs[i].size
  BY DEF Live
<1>2. /\ Len(l) \in Nat /\ k \in 1 .. Len(l) /\ Len(m) = Len(l) - 1
      /\ \A j \in 1 .. Len(l) - 1 : m[j] = IF j < k THEN l[j] ELSE l[j + 1]
  BY FreeIs
<1> HIDE DEF m
<1>3. h # k /\ l[h].p_raw = fs[i].addr /\ \A j \in 1 .. h - 1 : l[j].p_raw # fs[i].addr
  BY <1>1 DEF First
<1> DEFINE n == IF h < k THEN h ELSE h - 1
<1>4. n \in 1 .. Len(m) /\ m[n] = l[h]
  <2>1. CASE h < k
    BY <1>2, <2>1
  <2>2. CASE ~ (h < k)
    <3>1. h - 1 \in 1 .. Len(l) - 1 /\ ~ (h - 1 < k) /\ (h - 1) + 1 = h
      BY <1>2, <1>3, <2>2
    <3> QED BY <1>2, <2>2, <3>1
  <2> QED BY <2>1, <2>2
<1>5. ASSUME NEW j \in 1 .. n - 1 PROVE m[j].p_raw # fs[i].addr
  <2>1. j \in 1 .. Len(l) - 1 /\ j \in 1 .. h - 1 /\ (~ (j < k) => j + 1 \in 1 .. h - 1)
    BY <1>2, <1>3
  <2> QED BY <1>2, <1>3, <2>1, SMTT(30)
<1>6. First(m, fs[i].addr, n)
  BY <1>3, <1>4, <1>5 DEF First
<1> QED BY <1>1, <1>4, <1>6, SMTT(30)

(* The list stays exact when the innermost frame goes.                      *)
LEMMA FreeExact ==
    ASSUME NEW l \in Seq(InfoT), NEW fs \in Seq(FrameT), fs # <<>>, Exact(fs, l),
           NEW k, First(l, fs[Len(fs)].addr, k)
    PROVE  Exact(Pop(fs), FreeInfo(fs[Len(fs)].addr, l))
<1> DEFINE a == fs[Len(fs)].addr
           m == FreeInfo(a, l)
           g == Pop(fs)
           H(i) == IF i < k THEN i ELSE i + 1
<1>1. Len(fs) \in Nat /\ Len(fs) >= 1 /\ Len(g) = Len(fs) - 1
      /\ \A i \in 1 .. Len(fs) - 1 : g[i] = fs[i]
  BY PopIs
<1>2. \A i \in 1 .. Len(m) : H(i) \in 1 .. Len(l) /\ H(i) # k /\ m[i] = l[H(i)]
  BY FreeFrom
<1>3. k \in 1 .. Len(l) /\ l[k].p_raw = a /\ k \in Nat /\ Len(m) = Len(l) - 1 /\ Len(l) \in Nat
  BY FreeIs DEF First
<1> HIDE DEF a, m, g
<1>4. ASSUME NEW i \in 1 .. Len(m), NEW j \in 1 .. Len(m), m[i].p_raw = m[j].p_raw PROVE i = j
  <2>1. H(i) = H(j)
    <3>1. /\ H(i) \in 1 .. Len(l) /\ H(j) \in 1 .. Len(l)
          /\ m[i] = l[H(i)] /\ m[j] = l[H(j)]
      BY <1>2
    <3> HIDE DEF H
    <3> QED BY <1>4, <3>1, ZenonT(30) DEF Exact
  <2>2. i \in Nat /\ j \in Nat
    BY <1>3
  <2> QED BY <1>3, <2>1, <2>2
<1>5. ASSUME NEW i \in 1 .. Len(m)
      PROVE  \E j \in 1 .. Len(g) : m[i].p_raw = g[j].addr /\ m[i].size = g[j].size
  <2>1. H(i) \in 1 .. Len(l) /\ H(i) # k /\ m[i] = l[H(i)]
    BY <1>2
  <2> HIDE DEF H
  <2>2. PICK j \in 1 .. Len(fs) : l[H(i)].p_raw = fs[j].addr /\ l[H(i)].size = fs[j].size
    BY <2>1 DEF Exact
  <2>3. j # Len(fs)
    <3>1. ASSUME j = Len(fs) PROVE FALSE
      <4>1. l[H(i)].p_raw = l[k].p_raw
        BY <1>3, <2>2, <3>1 DEF a
      <4> QED BY <1>3, <2>1, <4>1 DEF Exact
    <3> QED BY <3>1
  <2>4. j \in 1 .. Len(fs) - 1 /\ j \in 1 .. Len(g)
    BY <1>1, <2>3
  <2> QED BY <1>1, <2>1, <2>2, <2>4
<1> HIDE DEF H
<1> QED BY <1>4, <1>5, ZenonT(30) DEF Exact, a, m, g

(* A process that was not restored has its own offsets as p_abs.            *)
LEMMA FreeAbs ==
    ASSUME NEW l \in Seq(InfoT), NEW a, NEW k, First(l, a, k),
           \A i \in 1 .. Len(l) : l[i].p_abs = l[i].p_raw
    PROVE  \A i \in 1 .. Len(FreeInfo(a, l)) : FreeInfo(a, l)[i].p_abs = FreeInfo(a, l)[i].p_raw
<1> SUFFICES ASSUME NEW i \in 1 .. Len(FreeInfo(a, l))
             PROVE  FreeInfo(a, l)[i].p_abs = FreeInfo(a, l)[i].p_raw
  OBVIOUS
<1>1. PICK h \in 1 .. Len(l) : FreeInfo(a, l)[i] = l[h]
  BY FreeFrom
<1> QED BY <1>1
-----------------------------------------------------------------------------
(* A set of naturals has a least member.                                    *)
LEMMA Least ==
    ASSUME NEW S, S \subseteq Nat, S # {}
    PROVE  \E i \in S : \A j \in S : ~ (j < i)
<1> DEFINE R == OpToRel(<, Nat)
<1>1. IsWellFoundedOn(R, Nat)
  BY NatLessThanWellFounded
<1>2. \A i, j \in Nat : j < i => <<j, i>> \in R
  BY DEF OpToRel
<1> HIDE DEF R
<1>3. PICK i \in S : \A j \in S : ~ (<<j, i>> \in R)
  BY <1>1, WFMin, ZenonT(30)
<1> QED BY <1>2, <1>3, ZenonT(30)

(* There is an innermost entry frame.                                       *)
LEMMA EntryIs ==
    ASSUME NEW fs \in Seq(FrameT), fs # <<>>, fs[1].kind = "entry"
    PROVE  /\ EntryOf(fs) \in 1 .. Len(fs) /\ fs[EntryOf(fs)].kind = "entry"
           /\ \A j \in EntryOf(fs) + 1 .. Len(fs) : fs[j].kind # "entry"
           /\ \A i \in 1 .. Len(fs) :
                 fs[i].kind = "entry" /\ (\A j \in i + 1 .. Len(fs) : fs[j].kind # "entry")
                    => i = EntryOf(fs)
<1> DEFINE n == Len(fs)
           S == {d \in 0 .. n - 1 : fs[n - d].kind = "entry"}
<1>1. n \in Nat /\ n >= 1
  BY PopIs
<1>2. n - 1 \in S /\ S \subseteq Nat /\ S # {}
  <2>1. n - 1 \in 0 .. n - 1 /\ n - (n - 1) = 1
    BY <1>1
  <2>2. n - 1 \in S
    BY <2>1
  <2>3. S \subseteq Nat
    BY <1>1
  <2> QED BY <2>2, <2>3, ZenonT(30)
<1>3. PICK d \in S : \A j \in S : ~ (j < d)
  <2> HIDE DEF S
  <2> QED BY <1>2, Least, ZenonT(30)
<1>4. n - d \in 1 .. n /\ fs[n - d].kind = "entry"
  BY <1>1
<1>5. ASSUME NEW j \in (n - d) + 1 .. n PROVE fs[j].kind # "entry"
  <2>1. n - j \in 0 .. n - 1 /\ n - j < d /\ n - (n - j) = j
    BY <1>1
  <2>2. n - j \notin S
    <3> HIDE DEF S
    <3> QED BY <1>3, <2>1
  <2> QED BY <2>1, <2>2
<1> DEFINE P(i) == fs[i].kind = "entry" /\ \A j \in i + 1 .. n : fs[j].kind # "entry"
<1>6. ASSUME NEW i \in 1 .. n, NEW k \in 1 .. n, P(i), P(k) PROVE i = k
  <2>1. i < k => k \in i + 1 .. n
    BY <1>1
  <2>2. k < i => i \in k + 1 .. n
    BY <1>1
  <2>3. ~ (i < k) /\ ~ (k < i)
    BY <1>6, <2>1, <2>2
  <2> QED BY <1>1, <2>3
<1>7. \E i \in 1 .. n : P(i)
  BY <1>4, <1>5
<1>8. EntryOf(fs) = CHOOSE i \in 1 .. n : P(i)
  BY DEF EntryOf
<1>9. EntryOf(fs) \in 1 .. n /\ P(EntryOf(fs))
  <2> HIDE DEF P, n
  <2> QED BY <1>7, <1>8, ZenonT(30)
<1> QED BY <1>6, <1>9

(* Without callbacks there is one entry frame, and it is the first.         *)
LEMMA EntryOnly ==
    ASSUME NEW fs \in Seq(FrameT), fs # <<>>, NEW c, Shaped(fs, c), ~ c
    PROVE  EntryOf(fs) = 1
<1>1. Len(fs) \in Nat /\ Len(fs) >= 1 /\ fs[1].kind = "entry"
  BY PopIs DEF Shaped
<1>2. ASSUME NEW j \in 2 .. Len(fs) PROVE fs[j].kind # "entry"
  <2>1. j - 1 \in 1 .. Len(fs) - 1 /\ (j - 1) + 1 = j
    BY <1>1
  <2> QED BY <2>1, ZenonT(30) DEF Shaped
<1>3. 1 + 1 = 2 /\ 1 \in 1 .. Len(fs)
  BY <1>1
<1> QED BY <1>1, <1>2, <1>3, EntryIs

(* A frame of kind entry on top is the innermost one.                       *)
LEMMA EntryTop ==
    ASSUME NEW fs \in Seq(FrameT), fs # <<>>, fs[1].kind = "entry", fs[Len(fs)].kind = "entry"
    PROVE  EntryOf(fs) = Len(fs)
<1>1. Len(fs) \in 1 .. Len(fs) /\ Len(fs) + 1 .. Len(fs) = {}
  BY PopIs
<1> QED BY <1>1, EntryIs

-----------------------------------------------------------------------------
(* The types in a setting.                                                  *)
LEMMA SettingIs ==
    ASSUME NEW st \in Settings
    PROVE  /\ st.callbacks \in BOOLEAN /\ st.result \in BOOLEAN /\ st.fail \in BOOLEAN
           /\ st.stack \in Nat /\ st.calls \in Nat /\ st.gens \in Nat
BY InterpAssumption

(* ALLOC_FRAME.                                                             *)
LEMMA Pushed ==
    ASSUME NEW fs, NEW l \in Seq(InfoT), NEW u \in BOOLEAN, NEW env \in Nat, NEW st \in Settings,
           StackRight(fs, l, FALSE, u, env, st),
           NEW f \in FrameT, f.addr + 2 * f.size <= env + st.stack, IpRight(f, FALSE), f.sp,
           f.addr = IF fs = <<>> THEN env ELSE fs[Len(fs)].addr + fs[Len(fs)].size,
           fs = <<>> => f.kind = "entry",
           fs # <<>> => \/ f.kind = "wasm" /\ fs[Len(fs)].kind \in {"entry", "wasm"}
                        \/ f.kind = "native" /\ fs[Len(fs)].kind = "wasm"
                        \/ f.kind = "entry" /\ fs[Len(fs)].kind = "native" /\ st.callbacks
    PROVE  /\ StackRight(Append(fs, f), <<FrameInfo(f)>> \o l, FALSE, u, env, st)
           /\ <<FrameInfo(f)>> \o l \in Seq(InfoT) /\ Append(fs, f) # <<>>
           /\ OwnAbs(l) => OwnAbs(<<FrameInfo(f)>> \o l)
           /\ AllSp(fs) => AllSp(Append(fs, f))
<1>1. Typed(fs, FALSE) /\ Chained(fs, env, st.stack) /\ Shaped(fs, st.callbacks)
      /\ Live(fs, l) /\ (~ u => Exact(fs, l)) /\ fs \in Seq(FrameT)
  BY DEF StackRight, Typed
<1>2. st.stack \in Nat
  BY SettingIs
<1>3. Chained(Append(fs, f), env, st.stack) /\ \A i \in 1 .. Len(fs) : fs[i].addr # f.addr
  BY <1>1, <1>2, PushChained
<1>4. Typed(Append(fs, f), FALSE)
  BY <1>1, PushTyped, ZenonT(30)
<1>5. Shaped(Append(fs, f), st.callbacks)
  BY <1>1, PushShaped
<1>6. /\ <<FrameInfo(f)>> \o l \in Seq(InfoT)
      /\ Live(fs, l) => Live(Append(fs, f), <<FrameInfo(f)>> \o l)
      /\ Exact(fs, l) => Exact(Append(fs, f), <<FrameInfo(f)>> \o l)
  BY <1>1, <1>3, PushInfo
<1>7. OwnAbs(l) => OwnAbs(<<FrameInfo(f)>> \o l)
  BY <1>1, <1>3, PushInfo, ZenonT(30) DEF OwnAbs
<1>8. AllSp(fs) => AllSp(Append(fs, f))
  <2>1. /\ Len(fs) \in Nat /\ Len(Append(fs, f)) = Len(fs) + 1
        /\ Append(fs, f)[Len(fs) + 1] = f /\ \A i \in 1 .. Len(fs) : Append(fs, f)[i] = fs[i]
    BY <1>1, AppendIs
  <2>2. \A i \in 1 .. Len(Append(fs, f)) : i \in 1 .. Len(fs) \/ i = Len(fs) + 1
    BY <2>1
  <2> QED BY <2>1, <2>2, ZenonT(30) DEF AllSp
<1>9. Append(fs, f) # <<>>
  BY <1>1, AppendIs
<1> QED BY <1>1, <1>3, <1>4, <1>5, <1>6, <1>7, <1>8, <1>9, ZenonT(30) DEF StackRight

(* Another innermost frame with a sp.                                       *)
LEMMA SpTop ==
    ASSUME NEW fs \in Seq(FrameT), fs # <<>>, NEW f \in FrameT
    PROVE  AllSp(fs) /\ f.sp => AllSp(SetTop(fs, f))
<1>1. /\ Len(fs) \in Nat /\ Len(fs) >= 1 /\ Len(SetTop(fs, f)) = Len(fs)
      /\ SetTop(fs, f)[Len(fs)] = f /\ \A i \in 1 .. Len(fs) - 1 : SetTop(fs, f)[i] = fs[i]
  BY PopIs, SetTopIs
<1>2. \A i \in 1 .. Len(fs) : i \in 1 .. Len(fs) - 1 \/ i = Len(fs)
  BY <1>1
<1> QED BY <1>1, <1>2, ZenonT(30) DEF AllSp

(* Another innermost frame.                                                 *)
LEMMA Retopped ==
    ASSUME NEW fs, NEW l, NEW p \in BOOLEAN, NEW u \in BOOLEAN, NEW env, NEW st,
           StackRight(fs, l, p, u, env, st), fs # <<>>,
           NEW f \in FrameT, NEW q \in BOOLEAN, IpRight(f, q), q => f.kind = "wasm",
           f.kind = fs[Len(fs)].kind, f.addr = fs[Len(fs)].addr, f.size = fs[Len(fs)].size
    PROVE  /\ StackRight(SetTop(fs, f), l, q, u, env, st) /\ SetTop(fs, f) # <<>>
           /\ AllSp(fs) /\ f.sp => AllSp(SetTop(fs, f))
<1>1. Typed(fs, p) /\ Chained(fs, env, st.stack) /\ Shaped(fs, st.callbacks)
      /\ Live(fs, l) /\ (~ u => Exact(fs, l)) /\ fs \in Seq(FrameT)
  BY DEF StackRight, Typed
<1>2. Typed(SetTop(fs, f), q)
  BY <1>1, RetopTyped
<1>3. Chained(SetTop(fs, f), env, st.stack) /\ Shaped(SetTop(fs, f), st.callbacks)
      /\ Live(SetTop(fs, f), l) /\ (~ u => Exact(SetTop(fs, f), l))
  BY <1>1, Retop, ZenonT(30)
<1>4. /\ Len(fs) \in Nat /\ Len(fs) >= 1 /\ Len(SetTop(fs, f)) = Len(fs) /\ SetTop(fs, f) # <<>>
      /\ SetTop(fs, f)[Len(fs)] = f /\ \A i \in 1 .. Len(fs) - 1 : SetTop(fs, f)[i] = fs[i]
  BY <1>1, PopIs, SetTopIs
<1>5. AllSp(fs) /\ f.sp => AllSp(SetTop(fs, f))
  BY <1>1, SpTop, ZenonT(30)
<1> QED BY <1>2, <1>3, <1>4, <1>5, ZenonT(30) DEF StackRight

(* The frame e and all above it go, and with them the info of e.            *)
LEMMA CutAt ==
    ASSUME NEW fs, NEW l \in Seq(InfoT), NEW p \in BOOLEAN, NEW u \in BOOLEAN, NEW env, NEW st,
           StackRight(fs, l, p, u, env, st), NEW e \in 1 .. Len(fs)
    PROVE  /\ \E k : First(l, fs[e].addr, k)
           /\ Registered(fs[e].addr, l)
           /\ StackRight(SubSeq(fs, 1, e - 1), FreeInfo(fs[e].addr, l), FALSE, TRUE, env, st)
           /\ FreeInfo(fs[e].addr, l) \in Seq(InfoT)
           /\ OwnAbs(l) => OwnAbs(FreeInfo(fs[e].addr, l))
           /\ AllSp(fs) => AllSp(SubSeq(fs, 1, e - 1))
<1> DEFINE g == SubSeq(fs, 1, e - 1)
           a == fs[e].addr
<1>1. Typed(fs, p) /\ Chained(fs, env, st.stack) /\ Shaped(fs, st.callbacks)
      /\ Live(fs, l) /\ fs \in Seq(FrameT)
  BY DEF StackRight, Typed
<1>2. Len(fs) \in Nat /\ e \in Nat /\ e - 1 \in Nat /\ e - 1 < Len(fs) /\ e - 1 <= Len(fs)
  BY <1>1
<1>3. g \in Seq(FrameT) /\ Len(g) = e - 1 /\ \A i \in 1 .. e - 1 : g[i] = fs[i]
  BY <1>1, <1>2, FrontIs
<1>4. PICK k : First(l, a, k)
  BY <1>1 DEF Live
<1>5. Typed(g, FALSE) /\ Chained(g, env, st.stack) /\ Shaped(g, st.callbacks) /\ Live(g, l)
  BY <1>1, <1>2, FrontTyped, FrontChained, FrontShaped, FrontLive, ZenonT(30)
<1>6. \A i \in 1 .. Len(g) : g[i].addr # a
  <2> SUFFICES ASSUME NEW i \in 1 .. e - 1 PROVE fs[i].addr # a
    BY <1>3
  <2>1. i \in 1 .. Len(fs) /\ i < e
    BY <1>2
  <2>2. fs[i].addr + fs[i].size <= fs[e].addr
    BY <1>1, <2>1 DEF Chained
  <2>3. fs[i] \in FrameT /\ fs[e] \in FrameT
    BY <1>1, <2>1
  <2>4. fs[i].addr \in Nat /\ fs[e].addr \in Nat /\ fs[i].size \in Nat /\ fs[i].size > 0
    BY <2>3, FrameFields
  <2> QED BY <2>2, <2>4
<1>7. Live(g, FreeInfo(a, l))
  BY <1>3, <1>4, <1>5, <1>6, FreeLive, ZenonT(30)
<1>8. Registered(a, l) /\ FreeInfo(a, l) \in Seq(InfoT)
  BY <1>4, FreeIs
<1>9. OwnAbs(l) => OwnAbs(FreeInfo(a, l))
  BY <1>4, FreeAbs, ZenonT(30) DEF OwnAbs
<1>10. AllSp(fs) => AllSp(g)
  BY <1>2, <1>3 DEF AllSp
<1> HIDE DEF g, a
<1>11. StackRight(g, FreeInfo(a, l), FALSE, TRUE, env, st)
  BY <1>5, <1>7, ZenonT(30) DEF StackRight
<1> QED BY <1>4, <1>8, <1>9, <1>10, <1>11, ZenonT(30) DEF g, a

(* FREE_FRAME of the innermost frame.                                       *)
LEMMA Popped ==
    ASSUME NEW fs, NEW l \in Seq(InfoT), NEW p \in BOOLEAN, NEW u \in BOOLEAN, NEW env, NEW st,
           StackRight(fs, l, p, u, env, st), fs # <<>>
    PROVE  /\ Registered(fs[Len(fs)].addr, l)
           /\ StackRight(Pop(fs), FreeInfo(fs[Len(fs)].addr, l), FALSE, u, env, st)
           /\ FreeInfo(fs[Len(fs)].addr, l) \in Seq(InfoT)
           /\ OwnAbs(l) => OwnAbs(FreeInfo(fs[Len(fs)].addr, l))
           /\ AllSp(fs) => AllSp(Pop(fs))
<1> DEFINE a == fs[Len(fs)].addr
<1>1. fs \in Seq(FrameT) /\ (~ u => Exact(fs, l))
  BY DEF StackRight, Typed
<1>2. Len(fs) \in 1 .. Len(fs)
  BY <1>1, PopIs
<1>3. Pop(fs) = SubSeq(fs, 1, Len(fs) - 1)
  BY DEF Pop
<1>4. /\ \E k : First(l, a, k)
      /\ Registered(a, l) /\ FreeInfo(a, l) \in Seq(InfoT)
      /\ StackRight(Pop(fs), FreeInfo(a, l), FALSE, TRUE, env, st)
      /\ OwnAbs(l) => OwnAbs(FreeInfo(a, l))
      /\ AllSp(fs) => AllSp(Pop(fs))
  <2> HIDE DEF a
  <2>1. PICK e \in 1 .. Len(fs) : e = Len(fs)
    BY <1>2, ZenonT(30)
  <2>2. /\ \E k : First(l, fs[e].addr, k)
        /\ Registered(fs[e].addr, l)
        /\ StackRight(SubSeq(fs, 1, e - 1), FreeInfo(fs[e].addr, l), FALSE, TRUE, env, st)
        /\ FreeInfo(fs[e].addr, l) \in Seq(InfoT)
        /\ OwnAbs(l) => OwnAbs(FreeInfo(fs[e].addr, l))
        /\ AllSp(fs) => AllSp(SubSeq(fs, 1, e - 1))
    BY CutAt, ZenonT(30)
  <2> QED BY <1>3, <2>1, <2>2, ZenonT(30) DEF a
<1>5. ~ u => Exact(Pop(fs), FreeInfo(a, l))
  BY <1>1, <1>4, FreeExact
<1> HIDE DEF a
<1>6. StackRight(Pop(fs), FreeInfo(a, l), FALSE, u, env, st)
  BY <1>4, <1>5, ZenonT(30) DEF StackRight
<1> QED BY <1>4, <1>6, ZenonT(30) DEF a
-----------------------------------------------------------------------------
(* What has to be shown of a step that stays in its process.                *)
LEMMA Holds ==
    ASSUME FramesInv, setting' = setting, exec_env' = exec_env, restored' = restored,
           phase' \in {"run", "over"}, pending' \in BOOLEAN, exception' \in BOOLEAN,
           unwound' \in BOOLEAN, sig_flag' \in BOOLEAN, infos' \in Seq(InfoT),
           StackRight(frames', infos', pending', unwound', exec_env, setting),
           restored = 0 => OwnAbs(infos') /\ AllSp(frames'),
           restored # 0 /\ phase' = "run" => frames' # <<>>
    PROVE  FramesInv'
<1>1. Values'
  BY ZenonT(30) DEF FramesInv, Values
<1>2. Origin'
  BY ZenonT(30) DEF FramesInv, Origin
<1>3. Imaged'
  <2>1. phase' # "down"
    OBVIOUS
  <2> QED BY <2>1, ZenonT(30) DEF Imaged
<1>4. StackRight(frames, infos, pending, unwound, exec_env, setting)'
  BY ZenonT(30)
<1> QED BY <1>1, <1>2, <1>3, <1>4, ZenonT(30) DEF FramesInv

(* What the invariant says of a stack that is not empty.                    *)
LEMMA Running ==
    ASSUME FramesInv
    PROVE  /\ frames \in Seq(FrameT) /\ Len(frames) \in Nat
           /\ setting \in Settings /\ exec_env \in Nat /\ infos \in Seq(InfoT)
           /\ pending \in BOOLEAN /\ exception \in BOOLEAN /\ unwound \in BOOLEAN
           /\ sig_flag \in BOOLEAN /\ restored \in {0, 1}
           /\ StackRight(frames, infos, pending, unwound, exec_env, setting)
           /\ frames # <<>> =>
                 /\ Top \in FrameT /\ Top = frames[Len(frames)] /\ Len(frames) >= 1
                 /\ frames[1].kind = "entry" /\ IpRight(Top, pending)
           /\ ~ pending => pending = FALSE
<1>1. /\ setting \in Settings /\ infos \in Seq(InfoT) /\ exec_env \in Envs
      /\ pending \in BOOLEAN /\ exception \in BOOLEAN /\ unwound \in BOOLEAN
      /\ sig_flag \in BOOLEAN /\ restored \in {0, 1}
      /\ StackRight(frames, infos, pending, unwound, exec_env, setting)
  BY ZenonT(30) DEF FramesInv, Values
<1>2. exec_env \in Nat
  BY <1>1, InterpAssumption
<1>3. frames \in Seq(FrameT) /\ Len(frames) \in Nat
  BY <1>1 DEF StackRight, Typed
<1>4. ASSUME frames # <<>>
      PROVE  /\ Top \in FrameT /\ Top = frames[Len(frames)] /\ Len(frames) >= 1
             /\ frames[1].kind = "entry" /\ IpRight(Top, pending)
  <2>1. Top \in FrameT /\ Top = frames[Len(frames)] /\ Len(frames) >= 1
    BY <1>3, <1>4, PopIs DEF Top
  <2>2. frames[1].kind = "entry"
    BY <1>1, <1>4 DEF StackRight, Shaped
  <2>3. Len(frames) \in 1 .. Len(frames) /\ (pending /\ Len(frames) = Len(frames)) = pending
    BY <1>1, <1>3, <2>1
  <2>4. IpRight(Top, pending)
    BY <1>1, <2>1, <2>3, ZenonT(30) DEF StackRight, Typed
  <2> QED BY <2>1, <2>2, <2>4
<1>5. ~ pending => pending = FALSE
  BY <1>1
<1> QED BY <1>1, <1>2, <1>3, <1>4, <1>5

(* A new frame.                                                             *)
LEMMA FrameIs ==
    ASSUME NEW fs \in Seq(FrameT), exec_env \in Nat, NEW kind \in {"entry", "wasm", "native"},
           NEW fn \in DOMAIN Code, NEW ip \in Nat, NEW size \in Nat \ {0}
    PROVE  LET f == Frame(fs, kind, fn, ip, size)
           IN  /\ f \in FrameT /\ f.kind = kind /\ f.fn = fn /\ f.ip = ip /\ f.val = 0
               /\ f.size = size /\ f.sp /\ f.addr = StackTop(fs)
               /\ StackTop(fs) = IF fs = <<>> THEN exec_env ELSE fs[Len(fs)].addr + fs[Len(fs)].size
<1>1. StackTop(fs) \in Nat
  <2>1. CASE fs = <<>>
    BY <2>1 DEF StackTop
  <2>2. CASE fs # <<>>
    <3>1. fs[Len(fs)] \in FrameT
      BY <2>2, PopIs
    <3>2. fs[Len(fs)].addr \in Nat /\ fs[Len(fs)].size \in Nat
      BY <3>1, FrameFields
    <3> QED BY <2>2, <3>2 DEF StackTop
  <2> QED BY <2>1, <2>2
<1>2. 0 \in 0 .. MaxVal
  BY InterpAssumption
<1>3. Frame(fs, kind, fn, ip, size) \in FrameT
  BY <1>1, <1>2 DEF Frame, FrameT
<1>4. LET f == Frame(fs, kind, fn, ip, size)
      IN  /\ f.kind = kind /\ f.fn = fn /\ f.ip = ip /\ f.val = 0
          /\ f.size = size /\ f.sp /\ f.addr = StackTop(fs)
  BY DEF Frame
<1>5. StackTop(fs) = IF fs = <<>> THEN exec_env ELSE fs[Len(fs)].addr + fs[Len(fs)].size
  BY DEF StackTop
<1> HIDE DEF Frame
<1> QED BY <1>3, <1>4, <1>5, ZenonT(30)

(* A record with the fields of a frame.                                     *)
LEMMA FrameMade ==
    ASSUME NEW k \in {"entry", "wasm", "native"}, NEW fn \in DOMAIN Code, NEW ip \in Nat,
           NEW v \in 0 .. MaxVal, NEW a \in Nat, NEW z \in Nat \ {0}, NEW b \in BOOLEAN
    PROVE  [kind |-> k, fn |-> fn, ip |-> ip, val |-> v, addr |-> a, size |-> z,
            sp |-> b] \in FrameT
BY ZenonT(30) DEF FrameT

(* A frame with another ip or value.                                        *)
LEMMA FrameWith ==
    ASSUME NEW f \in FrameT
    PROVE  /\ \A i \in Nat : LET g == [f EXCEPT !.ip = i]
                             IN  /\ g \in FrameT /\ g.kind = f.kind /\ g.addr = f.addr
                                 /\ g.size = f.size /\ g.sp = f.sp /\ g.fn = f.fn
                                 /\ g.ip = i /\ g.val = f.val
           /\ \A v \in 0 .. MaxVal : LET g == [f EXCEPT !.val = v]
                             IN  /\ g \in FrameT /\ g.kind = f.kind /\ g.addr = f.addr
                                 /\ g.size = f.size /\ g.sp = f.sp /\ g.fn = f.fn
                                 /\ g.ip = f.ip /\ g.val = v
<1>1. ASSUME NEW i \in Nat
      PROVE  LET g == [f EXCEPT !.ip = i]
             IN  /\ g \in FrameT /\ g.kind = f.kind /\ g.addr = f.addr
                 /\ g.size = f.size /\ g.sp = f.sp /\ g.fn = f.fn
                 /\ g.ip = i /\ g.val = f.val
  BY DEF FrameT
<1>2. ASSUME NEW v \in 0 .. MaxVal
      PROVE  LET g == [f EXCEPT !.val = v]
             IN  /\ g \in FrameT /\ g.kind = f.kind /\ g.addr = f.addr
                 /\ g.size = f.size /\ g.sp = f.sp /\ g.fn = f.fn
                 /\ g.ip = f.ip /\ g.val = v
  BY DEF FrameT
<1> QED BY <1>1, <1>2, ZenonT(30)

(* ALLOC_FRAME as a step.                                                   *)
LEMMA AllocStep ==
    ASSUME FramesInv, phase' = "run", Typed(frames, FALSE),
           NEW kind \in {"entry", "wasm", "native"}, NEW fn \in DOMAIN Code, NEW ip \in Nat,
           NEW size \in Nat \ {0}, HasRoom(frames, size), Alloc(frames, kind, fn, ip, size),
           IF kind = "wasm" THEN ip \in 1 .. Len(Code[fn]) ELSE ip = 0,
           frames = <<>> => kind = "entry",
           frames # <<>> => \/ kind = "wasm" /\ Top.kind \in {"entry", "wasm"}
                            \/ kind = "native" /\ Top.kind = "wasm"
                            \/ kind = "entry" /\ Top.kind = "native" /\ setting.callbacks,
           pending' = FALSE, exception' \in BOOLEAN, sig_flag' = sig_flag,
           UNCHANGED <<setting, exec_env, restored, unwound>>
    PROVE  FramesInv'
<1> DEFINE f == Frame(frames, kind, fn, ip, size)
<1>1. /\ frames \in Seq(FrameT) /\ setting \in Settings /\ exec_env \in Nat /\ infos \in Seq(InfoT)
      /\ unwound \in BOOLEAN /\ sig_flag \in BOOLEAN
      /\ StackRight(frames, infos, pending, unwound, exec_env, setting)
      /\ Top = frames[Len(frames)]
  BY Running DEF Top
<1>2. StackRight(frames, infos, FALSE, unwound, exec_env, setting)
  BY <1>1, ZenonT(30) DEF StackRight
<1>3. /\ f \in FrameT /\ f.kind = kind /\ f.fn = fn /\ f.ip = ip
      /\ f.size = size /\ f.sp /\ f.addr = StackTop(frames)
      /\ StackTop(frames) = IF frames = <<>> THEN exec_env
                            ELSE frames[Len(frames)].addr + frames[Len(frames)].size
  BY <1>1, FrameIs
<1>4. frames' = Append(frames, f) /\ infos' = <<FrameInfo(f)>> \o infos
  BY DEF Alloc
<1> HIDE DEF f
<1>5. IpRight(f, FALSE)
  BY <1>3 DEF IpRight
<1>6. f.addr + 2 * f.size <= exec_env + setting.stack
  BY <1>3 DEF HasRoom
<1>7. /\ frames = <<>> => f.kind = "entry"
      /\ frames # <<>> => \/ f.kind = "wasm" /\ frames[Len(frames)].kind \in {"entry", "wasm"}
                          \/ f.kind = "native" /\ frames[Len(frames)].kind = "wasm"
                          \/ f.kind = "entry" /\ frames[Len(frames)].kind = "native"
                             /\ setting.callbacks
  BY <1>1, <1>3
<1>8. /\ StackRight(Append(frames, f), <<FrameInfo(f)>> \o infos, FALSE, unwound, exec_env, setting)
      /\ <<FrameInfo(f)>> \o infos \in Seq(InfoT) /\ Append(frames, f) # <<>>
      /\ OwnAbs(infos) => OwnAbs(<<FrameInfo(f)>> \o infos)
      /\ AllSp(frames) => AllSp(Append(frames, f))
  BY <1>1, <1>2, <1>3, <1>5, <1>6, <1>7, Pushed, ZenonT(30)
<1>9. restored = 0 => OwnAbs(infos) /\ AllSp(frames)
  BY DEF FramesInv, Origin
<1>10. StackRight(frames', infos', pending', unwound', exec_env, setting)
  BY <1>4, <1>8, ZenonT(30)
<1> QED BY <1>1, <1>4, <1>8, <1>9, <1>10, Holds, ZenonT(30)

(* got_exception as a step: the frames above the entry go, the info of the  *)
(* entry is there, and the frames below keep theirs.                        *)
LEMMA ExceptionStep ==
    ASSUME FramesInv, phase = "run", frames # <<>>, Typed(frames, FALSE),
           GotException(frames), pending' = FALSE, sig_flag' = sig_flag, setting' = setting
    PROVE  FramesInv'
<1>1. /\ frames \in Seq(FrameT) /\ setting \in Settings /\ infos \in Seq(InfoT)
      /\ pending \in BOOLEAN /\ unwound \in BOOLEAN /\ sig_flag \in BOOLEAN
      /\ restored \in {0, 1} /\ frames[1].kind = "entry"
      /\ StackRight(frames, infos, pending, unwound, exec_env, setting)
  BY Running
<1>2. PICK e \in 1 .. Len(frames) : e = EntryOf(frames)
  BY <1>1, EntryIs, ZenonT(30)
<1>3. /\ Registered(frames[e].addr, infos)
      /\ StackRight(SubSeq(frames, 1, e - 1), FreeInfo(frames[e].addr, infos), FALSE, TRUE,
                    exec_env, setting)
      /\ FreeInfo(frames[e].addr, infos) \in Seq(InfoT)
      /\ OwnAbs(infos) => OwnAbs(FreeInfo(frames[e].addr, infos))
      /\ AllSp(frames) => AllSp(SubSeq(frames, 1, e - 1))
  <2>1. /\ StackRight(frames, infos, pending, unwound, exec_env, setting)
        /\ infos \in Seq(InfoT) /\ pending \in BOOLEAN /\ unwound \in BOOLEAN
    BY <1>1, ZenonT(30)
  <2>2. Registered(frames[e].addr, infos)
    BY <2>1, CutAt, ZenonT(30)
  <2>3. StackRight(SubSeq(frames, 1, e - 1), FreeInfo(frames[e].addr, infos), FALSE, TRUE,
                   exec_env, setting)
    BY <2>1, CutAt, ZenonT(30)
  <2>4. FreeInfo(frames[e].addr, infos) \in Seq(InfoT)
    BY <2>1, CutAt, ZenonT(30)
  <2>5. OwnAbs(infos) => OwnAbs(FreeInfo(frames[e].addr, infos))
    BY <2>1, CutAt, ZenonT(30)
  <2>6. AllSp(frames) => AllSp(SubSeq(frames, 1, e - 1))
    BY <2>1, CutAt, ZenonT(30)
  <2> QED BY <2>2, <2>3, <2>4, <2>5, <2>6, ZenonT(30)
<1>4. restored = 0 => OwnAbs(infos) /\ AllSp(frames)
  BY DEF FramesInv, Origin
<1>5. exception' = TRUE /\ unwound' = TRUE /\ Leave(frames, infos)
  BY DEF GotException
<1>6. CASE e = restored
  <2>1. /\ phase' = "over" /\ frames' = frames /\ infos' = infos
        /\ exec_env' = exec_env /\ restored' = restored
    BY <1>2, <1>5, <1>6 DEF Leave
  <2>2. StackRight(frames, infos, FALSE, TRUE, exec_env, setting)
    BY <1>1, ZenonT(30) DEF StackRight
  <2>3. StackRight(frames', infos', pending', unwound', exec_env, setting)
    BY <1>5, <2>1, <2>2, ZenonT(30)
  <2> QED BY <1>1, <1>4, <1>5, <2>1, <2>3, Holds, ZenonT(30)
<1>7. CASE e # restored
  <2>1. /\ phase' = "run" /\ frames' = SubSeq(frames, 1, e - 1)
        /\ infos' = FreeInfo(frames[e].addr, infos)
        /\ exec_env' = exec_env /\ restored' = restored
    BY <1>2, <1>3, <1>5, <1>7 DEF Leave
  <2>2. restored = 0
    <3>1. ASSUME restored # 0 PROVE FALSE
      <4>1. restored = 1 /\ ~ setting.callbacks
        BY <1>1, <3>1 DEF FramesInv, Origin
      <4>2. Shaped(frames, setting.callbacks)
        BY <1>1 DEF StackRight
      <4>3. EntryOf(frames) = 1
        <5>1. PICK fs, c : fs = frames /\ c = setting.callbacks
          OBVIOUS
        <5>2. fs \in Seq(FrameT) /\ fs # <<>> /\ Shaped(fs, c) /\ ~ c
          BY <1>1, <4>1, <4>2, <5>1, ZenonT(30)
        <5>3. EntryOf(fs) = 1
          BY <5>2, EntryOnly
        <5> QED BY <5>1, <5>3
      <4> QED BY <1>2, <1>7, <4>1, <4>3
    <3> QED BY <3>1
  <2>3. StackRight(frames', infos', pending', unwound', exec_env, setting)
    BY <1>3, <1>5, <2>1, ZenonT(30)
  <2> QED BY <1>1, <1>3, <1>4, <1>5, <2>1, <2>2, <2>3, Holds, ZenonT(30)
<1> QED BY <1>6, <1>7
-----------------------------------------------------------------------------
(* One lemma for each action: it preserves the invariant.                   *)
LEMMA SignalStep == FramesInv /\ Signal /\ setting' = setting => FramesInv'
<1> SUFFICES ASSUME FramesInv, Signal, setting' = setting PROVE FramesInv'
  OBVIOUS
<1>1. /\ phase' = "run" /\ sig_flag' = TRUE /\ frames' = frames /\ infos' = infos
      /\ pending' = pending /\ exception' = exception /\ unwound' = unwound
      /\ exec_env' = exec_env /\ restored' = restored /\ phase = "run"
  BY DEF Signal, procVars, failVars
<1>2. /\ infos \in Seq(InfoT) /\ pending \in BOOLEAN /\ exception \in BOOLEAN
      /\ unwound \in BOOLEAN
      /\ StackRight(frames, infos, pending, unwound, exec_env, setting)
  BY Running
<1>3. restored = 0 => OwnAbs(infos) /\ AllSp(frames)
  BY DEF FramesInv, Origin
<1>4. restored # 0 => frames # <<>>
  BY <1>1 DEF FramesInv, Origin
<1>5. StackRight(frames', infos', pending', unwound', exec_env, setting)
  BY <1>1, <1>2
<1> QED BY <1>1, <1>2, <1>3, <1>4, <1>5, Holds, ZenonT(30)

(* Without a fetched opcode the stack is one without a fetched opcode.      *)
LEMMA NotFetched ==
    ASSUME FramesInv, ~ pending \/ frames = <<>> \/ Top.kind # "wasm"
    PROVE  pending = FALSE /\ Typed(frames, FALSE)
           /\ StackRight(frames, infos, FALSE, unwound, exec_env, setting)
<1>1. /\ pending \in BOOLEAN /\ Top = frames[Len(frames)]
      /\ StackRight(frames, infos, pending, unwound, exec_env, setting)
  BY Running DEF Top
<1>2. pending = FALSE
  BY <1>1 DEF StackRight
<1> QED BY <1>1, <1>2, ZenonT(30) DEF StackRight

(* wasm_interp_call_wasm: the entry frame, or the exception without one.    *)
LEMMA CallWasmStep ==
    ASSUME FramesInv, NEW f \in DOMAIN Code, CallWasm(f), setting' = setting
    PROVE  FramesInv'
<1>1. /\ phase' = "run" /\ phase = "run" /\ pending' = pending /\ unwound' = unwound
      /\ sig_flag' = sig_flag /\ exec_env' = exec_env /\ restored' = restored
  BY DEF CallWasm, procVars
<1>2. frames = <<>> \/ (setting.callbacks /\ frames # <<>> /\ Top.kind = "native")
  BY DEF CallWasm
<1>3. pending = FALSE /\ Typed(frames, FALSE)
      /\ StackRight(frames, infos, FALSE, unwound, exec_env, setting)
  BY <1>2, NotFetched, ZenonT(30)
<1>4. EntrySize \in Nat \ {0} /\ "entry" \in {"entry", "wasm", "native"} /\ 0 \in Nat
  BY InterpAssumption
<1>5. CASE HasRoom(frames, EntrySize)
  <2>1. Alloc(frames, "entry", f, 0, EntrySize) /\ exception' = FALSE
    BY <1>5 DEF CallWasm
  <2>2. IF "entry" = "wasm" THEN 0 \in 1 .. Len(Code[f]) ELSE 0 = 0
    OBVIOUS
  <2>3. /\ frames = <<>> => "entry" = "entry"
        /\ frames # <<>> => \/ "entry" = "wasm" /\ Top.kind \in {"entry", "wasm"}
                            \/ "entry" = "native" /\ Top.kind = "wasm"
                            \/ "entry" = "entry" /\ Top.kind = "native" /\ setting.callbacks
    BY <1>2
  <2>4. pending' = FALSE /\ exception' \in BOOLEAN
    BY <1>1, <1>3, <2>1, ZenonT(30)
  <2> QED BY <1>1, <1>3, <1>4, <1>5, <2>1, <2>2, <2>3, <2>4, AllocStep, ZenonT(30)
<1>6. CASE ~ HasRoom(frames, EntrySize)
  <2>1. exception' = TRUE /\ frames' = frames /\ infos' = infos
    BY <1>6 DEF CallWasm
  <2>2. restored = 0 => OwnAbs(infos) /\ AllSp(frames)
    BY DEF FramesInv, Origin
  <2>3. restored # 0 => frames # <<>>
    BY <1>1 DEF FramesInv, Origin
  <2>4. StackRight(frames', infos', pending', unwound', exec_env, setting)
    BY <1>1, <1>3, <2>1, ZenonT(30)
  <2>5. infos \in Seq(InfoT) /\ unwound \in BOOLEAN /\ sig_flag \in BOOLEAN
    BY Running
  <2> QED BY <1>1, <1>3, <2>1, <2>2, <2>3, <2>4, <2>5, Holds, ZenonT(30)
<1> QED BY <1>5, <1>6

(* The sizes and the code of a function.                                    *)
LEMMA CodeIs ==
    ASSUME NEW f \in DOMAIN Code
    PROVE  /\ FrameSize[f] \in Nat \ {0} /\ Len(Code[f]) \in Nat /\ Len(Code[f]) >= 1
           /\ 1 \in 1 .. Len(Code[f])
           /\ \A i \in 1 .. Len(Code[f]) :
                 /\ Code[f][i].op = "br_if" => Code[f][i].to \in 1 .. Len(Code[f])
                 /\ Code[f][i].op = "call" => Code[f][i].fn \in DOMAIN Code
<1>1. FrameSize[f] \in Nat \ {0} /\ Len(Code[f]) \in Nat \ {0}
  BY InterpAssumption
<1>2. \A i \in 1 .. Len(Code[f]) :
         /\ Code[f][i].op = "br_if" => Code[f][i].to \in 1 .. Len(Code[f])
         /\ Code[f][i].op = "call" => Code[f][i].fn \in DOMAIN Code
  BY InterpAssumption, ZenonT(30)
<1> QED BY <1>1, <1>2

(* The first iteration of the loop, which finds no signal.                  *)
LEMMA EnterStep == FramesInv /\ Timely /\ Enter /\ setting' = setting => FramesInv'
<1> SUFFICES ASSUME FramesInv, Timely, Enter, setting' = setting PROVE FramesInv'
  OBVIOUS
<1>1. /\ phase = "run" /\ frames # <<>> /\ Top.kind = "entry" /\ pending' = pending
      /\ sig_flag' = sig_flag
  BY DEF Enter, At
<1>2. ~ sig_flag
  BY <1>1 DEF Timely
<1>3. pending = FALSE /\ Typed(frames, FALSE)
  BY <1>1, NotFetched, ZenonT(30)
<1>4. Top \in FrameT /\ exception \in BOOLEAN
  BY <1>1, Running
<1>5. Top.fn \in DOMAIN Code
  BY <1>4, FrameFields
<1>6. CASE HasRoom(frames, FrameSize[Top.fn])
  <2>1. /\ Alloc(frames, "wasm", Top.fn, 1, FrameSize[Top.fn]) /\ exception' = exception
        /\ unwound' = unwound /\ phase' = "run" /\ exec_env' = exec_env /\ restored' = restored
    BY <1>1, <1>2, <1>6 DEF Enter, procVars, failVars
  <2>2. IF "wasm" = "wasm" THEN 1 \in 1 .. Len(Code[Top.fn]) ELSE 1 = 0
    BY <1>5, CodeIs
  <2>3. FrameSize[Top.fn] \in Nat \ {0} /\ "wasm" \in {"entry", "wasm", "native"} /\ 1 \in Nat
    BY <1>5, CodeIs
  <2>4. /\ frames = <<>> => "wasm" = "entry"
        /\ frames # <<>> => \/ "wasm" = "wasm" /\ Top.kind \in {"entry", "wasm"}
                            \/ "wasm" = "native" /\ Top.kind = "wasm"
                            \/ "wasm" = "entry" /\ Top.kind = "native" /\ setting.callbacks
    BY <1>1
  <2>5. pending' = FALSE /\ exception' \in BOOLEAN
    BY <1>1, <1>3, <1>4, <2>1
  <2> QED BY <1>1, <1>3, <1>5, <1>6, <2>1, <2>2, <2>3, <2>4, <2>5, AllocStep, ZenonT(30)
<1>7. CASE ~ HasRoom(frames, FrameSize[Top.fn])
  <2>1. GotException(frames)
    BY <1>2, <1>7 DEF Enter
  <2> QED BY <1>1, <1>3, <2>1, ExceptionStep, ZenonT(30)
<1> QED BY <1>6, <1>7

(* An innermost frame with another ip or value, as a step.                  *)
LEMMA RetopStep ==
    ASSUME FramesInv, phase = "run", frames # <<>>, Top.kind = "wasm",
           NEW f \in FrameT, frames' = SetTop(frames, f), f.kind = Top.kind, f.addr = Top.addr,
           f.size = Top.size, f.sp = Top.sp, NEW q \in BOOLEAN, pending' = q, IpRight(f, q),
           UNCHANGED <<setting, infos, failVars, sig_flag, procVars>>
    PROVE  FramesInv'
<1>1. /\ phase' = "run" /\ infos' = infos /\ exception' = exception /\ unwound' = unwound
      /\ exec_env' = exec_env /\ restored' = restored /\ setting' = setting /\ sig_flag' = sig_flag
  BY DEF procVars, failVars
<1>2. /\ infos \in Seq(InfoT) /\ pending \in BOOLEAN /\ exception \in BOOLEAN
      /\ unwound \in BOOLEAN /\ sig_flag \in BOOLEAN
      /\ StackRight(frames, infos, pending, unwound, exec_env, setting)
      /\ Top = frames[Len(frames)] /\ frames \in Seq(FrameT) /\ Len(frames) >= 1
      /\ Len(frames) \in Nat
  BY Running
<1>3. /\ StackRight(SetTop(frames, f), infos, q, unwound, exec_env, setting)
      /\ SetTop(frames, f) # <<>>
      /\ AllSp(frames) /\ f.sp => AllSp(SetTop(frames, f))
  <2>1. /\ q => f.kind = "wasm"
        /\ f.kind = frames[Len(frames)].kind /\ f.addr = frames[Len(frames)].addr
        /\ f.size = frames[Len(frames)].size
    BY <1>2
  <2>2. /\ StackRight(frames, infos, pending, unwound, exec_env, setting)
        /\ pending \in BOOLEAN /\ unwound \in BOOLEAN
    BY <1>2, ZenonT(30)
  <2>3. StackRight(SetTop(frames, f), infos, q, unwound, exec_env, setting)
    BY <2>1, <2>2, Retopped, ZenonT(30)
  <2>4. SetTop(frames, f) # <<>>
    BY <1>2, SetTopIs, ZenonT(30)
  <2>5. AllSp(frames) /\ f.sp => AllSp(SetTop(frames, f))
    BY <1>2, SpTop, ZenonT(30)
  <2> QED BY <2>3, <2>4, <2>5, ZenonT(30)
<1>4. restored = 0 => OwnAbs(infos) /\ AllSp(frames)
  BY DEF FramesInv, Origin
<1>5. AllSp(frames) => f.sp
  <2>1. Len(frames) \in 1 .. Len(frames)
    BY <1>2
  <2> QED BY <1>2, <2>1 DEF AllSp
<1>6. StackRight(frames', infos', pending', unwound', exec_env, setting)
  BY <1>1, <1>3
<1> QED BY <1>1, <1>2, <1>3, <1>4, <1>5, <1>6, Holds, ZenonT(30)

(* The fetch moves ip to at most one behind the code.                       *)
LEMMA FetchStep == FramesInv /\ Fetch /\ setting' = setting => FramesInv'
<1> SUFFICES ASSUME FramesInv, Fetch, setting' = setting PROVE FramesInv'
  OBVIOUS
<1>1. /\ phase = "run" /\ frames # <<>> /\ Top.kind = "wasm" /\ ~ pending /\ pending' = TRUE
      /\ frames' = SetTop(frames, [Top EXCEPT !.ip = Top.ip + 1])
      /\ UNCHANGED <<setting, infos, failVars, sig_flag, procVars>>
  BY DEF Fetch, At
<1>2. Top \in FrameT /\ pending = FALSE /\ IpRight(Top, pending)
  BY <1>1, Running
<1>3. Top.ip \in Nat /\ Top.fn \in DOMAIN Code /\ Top.ip + 1 \in Nat
  BY <1>2, FrameFields
<1> DEFINE f == [Top EXCEPT !.ip = Top.ip + 1]
<1>4. /\ f \in FrameT /\ f.kind = Top.kind /\ f.addr = Top.addr /\ f.size = Top.size
      /\ f.sp = Top.sp /\ f.fn = Top.fn /\ f.ip = Top.ip + 1
  BY <1>2, <1>3, FrameWith
<1> HIDE DEF f
<1>5. IpRight(f, TRUE)
  <2>1. Top.ip \in 1 .. Len(Code[Top.fn]) /\ Len(Code[Top.fn]) \in Nat
    BY <1>1, <1>2, <1>3, CodeIs DEF IpRight
  <2> QED BY <1>1, <1>3, <1>4, <2>1 DEF IpRight
<1>6. TRUE \in BOOLEAN
  OBVIOUS
<1> QED BY <1>1, <1>4, <1>5, <1>6, RetopStep, ZenonT(30) DEF f

(* What is known when an opcode is executed.                                *)
LEMMA ExecutesIs ==
    ASSUME FramesInv, NEW op, Executes(op)
    PROVE  /\ phase = "run" /\ frames # <<>> /\ Top.kind = "wasm" /\ pending = TRUE
           /\ Opcode.op = op /\ pending' = FALSE /\ sig_flag' = sig_flag /\ calls' = calls
           /\ Top \in FrameT /\ Top.fn \in DOMAIN Code /\ Top.ip \in Nat
           /\ Top.ip - 1 \in 1 .. Len(Code[Top.fn]) /\ Len(Code[Top.fn]) \in Nat
           /\ Top = frames[Len(frames)]
           /\ op # "end" => Typed(frames, FALSE) /\ Top.ip \in 1 .. Len(Code[Top.fn])
<1>1. /\ phase = "run" /\ frames # <<>> /\ Top.kind = "wasm" /\ pending
      /\ Opcode.op = op /\ pending' = FALSE /\ sig_flag' = sig_flag /\ calls' = calls
  BY DEF Executes, At
<1>2. /\ Top \in FrameT /\ IpRight(Top, pending) /\ pending \in BOOLEAN
      /\ Top = frames[Len(frames)]
      /\ StackRight(frames, infos, pending, unwound, exec_env, setting)
  BY <1>1, Running, ZenonT(30)
<1>3. pending = TRUE
  BY <1>1, <1>2
<1>4. Top.ip \in Nat /\ Top.fn \in DOMAIN Code
  BY <1>2, FrameFields
<1>5. Len(Code[Top.fn]) \in Nat
  BY <1>4, CodeIs
<1>6. Top.ip \in 2 .. Len(Code[Top.fn]) + 1
  BY <1>1, <1>2, <1>3 DEF IpRight
<1>7. Top.ip - 1 \in 1 .. Len(Code[Top.fn])
  BY <1>4, <1>5, <1>6
<1>8. Typed(frames, TRUE)
  BY <1>2, <1>3, ZenonT(30) DEF StackRight
<1>9. op # "end" => Typed(frames, FALSE) /\ Top.ip \in 1 .. Len(Code[Top.fn])
  BY <1>1, <1>2, <1>8, Executed, ZenonT(30) DEF Opcode
<1> QED BY <1>1, <1>2, <1>3, <1>4, <1>5, <1>7, <1>9, ZenonT(30)

(* An opcode that changes a value.                                          *)
LEMMA PlainStep == FramesInv /\ Plain /\ setting' = setting => FramesInv'
<1> SUFFICES ASSUME FramesInv, Plain, setting' = setting PROVE FramesInv'
  OBVIOUS
<1>1. /\ Executes("nop") /\ frames' = SetTop(frames, [Top EXCEPT !.val = Bump(Top.val)])
      /\ infos' = infos /\ UNCHANGED failVars /\ UNCHANGED procVars
  BY DEF Plain
<1>2. /\ phase = "run" /\ frames # <<>> /\ Top.kind = "wasm" /\ pending' = FALSE
      /\ sig_flag' = sig_flag /\ Top \in FrameT /\ Top.ip \in 1 .. Len(Code[Top.fn])
  <2>1. "nop" # "end"
    OBVIOUS
  <2> QED BY <1>1, <2>1, ExecutesIs, ZenonT(30)
<1>3. Bump(Top.val) \in 0 .. MaxVal
  <2>1. Top.val \in 0 .. MaxVal /\ MaxVal \in Nat
    BY <1>2, FrameFields, InterpAssumption
  <2> QED BY <2>1 DEF Bump
<1> DEFINE f == [Top EXCEPT !.val = Bump(Top.val)]
<1>4. /\ f \in FrameT /\ f.kind = Top.kind /\ f.addr = Top.addr /\ f.size = Top.size
      /\ f.sp = Top.sp /\ f.fn = Top.fn /\ f.ip = Top.ip
  BY <1>2, <1>3, FrameWith
<1> HIDE DEF f
<1>5. IpRight(f, FALSE)
  BY <1>2, <1>4 DEF IpRight
<1>6. UNCHANGED <<setting, infos, failVars, sig_flag, procVars>> /\ FALSE \in BOOLEAN
  BY <1>1, <1>2
<1> QED BY <1>1, <1>2, <1>4, <1>5, <1>6, RetopStep, ZenonT(30) DEF f

(* A branch goes to a place in the code.                                    *)
LEMMA BranchStep == FramesInv /\ Branch /\ setting' = setting => FramesInv'
<1> SUFFICES ASSUME FramesInv, Branch, setting' = setting PROVE FramesInv'
  OBVIOUS
<1>1. /\ Executes("br_if") /\ infos' = infos /\ UNCHANGED failVars /\ UNCHANGED procVars
  BY DEF Branch
<1>2. PICK t \in {Opcode.to, Top.ip} : frames' = SetTop(frames, [Top EXCEPT !.ip = t])
  BY DEF Branch
<1>3. /\ phase = "run" /\ frames # <<>> /\ Top.kind = "wasm" /\ pending' = FALSE
      /\ sig_flag' = sig_flag /\ Top \in FrameT /\ Top.ip \in 1 .. Len(Code[Top.fn])
      /\ Top.fn \in DOMAIN Code /\ Top.ip - 1 \in 1 .. Len(Code[Top.fn])
      /\ Len(Code[Top.fn]) \in Nat /\ Opcode.op = "br_if"
  <2>1. "br_if" # "end"
    OBVIOUS
  <2> QED BY <1>1, <2>1, ExecutesIs, ZenonT(30)
<1>4. t \in 1 .. Len(Code[Top.fn])
  <2>1. Opcode.to \in 1 .. Len(Code[Top.fn])
    BY <1>3, CodeIs DEF Opcode
  <2> QED BY <1>2, <1>3, <2>1
<1> DEFINE f == [Top EXCEPT !.ip = t]
<1>5. /\ f \in FrameT /\ f.kind = Top.kind /\ f.addr = Top.addr /\ f.size = Top.size
      /\ f.sp = Top.sp /\ f.fn = Top.fn /\ f.ip = t
  <2>1. t \in Nat
    BY <1>3, <1>4
  <2> QED BY <1>3, <2>1, FrameWith
<1> HIDE DEF f
<1>6. IpRight(f, FALSE)
  BY <1>3, <1>4, <1>5 DEF IpRight
<1>7. UNCHANGED <<setting, infos, failVars, sig_flag, procVars>> /\ FALSE \in BOOLEAN
  BY <1>1, <1>3
<1> QED BY <1>2, <1>3, <1>5, <1>6, <1>7, RetopStep, ZenonT(30) DEF f

(* WASM_OP_CALL: the frame of the callee, or got_exception.                 *)
LEMMA CallOpStep == FramesInv /\ CallOp /\ setting' = setting => FramesInv'
<1> SUFFICES ASSUME FramesInv, CallOp, setting' = setting PROVE FramesInv'
  OBVIOUS
<1>1. Executes("call")
  BY DEF CallOp
<1>2. /\ phase = "run" /\ frames # <<>> /\ Top.kind = "wasm" /\ pending' = FALSE
      /\ sig_flag' = sig_flag /\ Typed(frames, FALSE) /\ Opcode.op = "call"
      /\ Top.fn \in DOMAIN Code /\ Top.ip - 1 \in 1 .. Len(Code[Top.fn])
  <2>1. "call" # "end"
    OBVIOUS
  <2> QED BY <1>1, <2>1, ExecutesIs, ZenonT(30)
<1>3. Opcode.fn \in DOMAIN Code
  BY <1>2, CodeIs DEF Opcode
<1>4. CASE HasRoom(frames, FrameSize[Opcode.fn])
  <2>1. /\ Alloc(frames, "wasm", Opcode.fn, 1, FrameSize[Opcode.fn]) /\ exception' = exception
        /\ unwound' = unwound /\ phase' = "run" /\ exec_env' = exec_env /\ restored' = restored
    BY <1>2, <1>4 DEF CallOp, procVars, failVars
  <2>2. IF "wasm" = "wasm" THEN 1 \in 1 .. Len(Code[Opcode.fn]) ELSE 1 = 0
    BY <1>3, CodeIs
  <2>3. /\ FrameSize[Opcode.fn] \in Nat \ {0} /\ "wasm" \in {"entry", "wasm", "native"}
        /\ 1 \in Nat
    BY <1>3, CodeIs
  <2>4. /\ frames = <<>> => "wasm" = "entry"
        /\ frames # <<>> => \/ "wasm" = "wasm" /\ Top.kind \in {"entry", "wasm"}
                            \/ "wasm" = "native" /\ Top.kind = "wasm"
                            \/ "wasm" = "entry" /\ Top.kind = "native" /\ setting.callbacks
    BY <1>2
  <2>5. exception' \in BOOLEAN
    BY <2>1, Running
  <2> HIDE DEF Opcode
  <2> QED BY <1>2, <1>3, <1>4, <2>1, <2>2, <2>3, <2>4, <2>5, AllocStep, ZenonT(30)
<1>5. CASE ~ HasRoom(frames, FrameSize[Opcode.fn])
  <2>1. GotException(frames)
    BY <1>5 DEF CallOp
  <2> QED BY <1>2, <2>1, ExceptionStep, ZenonT(30)
<1> QED BY <1>4, <1>5

(* The call of a native function, or got_exception.                         *)
LEMMA CallNativeStep == FramesInv /\ CallNative /\ setting' = setting => FramesInv'
<1> SUFFICES ASSUME FramesInv, CallNative, setting' = setting PROVE FramesInv'
  OBVIOUS
<1>1. Executes("native")
  BY DEF CallNative
<1>2. /\ phase = "run" /\ frames # <<>> /\ Top.kind = "wasm" /\ pending' = FALSE
      /\ sig_flag' = sig_flag /\ Typed(frames, FALSE) /\ Top.fn \in DOMAIN Code
  <2>1. "native" # "end"
    OBVIOUS
  <2> QED BY <1>1, <2>1, ExecutesIs, ZenonT(30)
<1>3. CASE HasRoom(frames, NativeSize)
  <2>1. /\ Alloc(frames, "native", Top.fn, 0, NativeSize) /\ exception' = exception
        /\ unwound' = unwound /\ phase' = "run" /\ exec_env' = exec_env /\ restored' = restored
    BY <1>2, <1>3 DEF CallNative, procVars, failVars
  <2>2. IF "native" = "wasm" THEN 0 \in 1 .. Len(Code[Top.fn]) ELSE 0 = 0
    OBVIOUS
  <2>3. NativeSize \in Nat \ {0} /\ "native" \in {"entry", "wasm", "native"} /\ 0 \in Nat
    BY InterpAssumption
  <2>4. /\ frames = <<>> => "native" = "entry"
        /\ frames # <<>> => \/ "native" = "wasm" /\ Top.kind \in {"entry", "wasm"}
                            \/ "native" = "native" /\ Top.kind = "wasm"
                            \/ "native" = "entry" /\ Top.kind = "native" /\ setting.callbacks
    BY <1>2
  <2>5. exception' \in BOOLEAN
    BY <2>1, Running
  <2> QED BY <1>2, <1>3, <2>1, <2>2, <2>3, <2>4, <2>5, AllocStep, ZenonT(30)
<1>4. CASE ~ HasRoom(frames, NativeSize)
  <2>1. GotException(frames)
    BY <1>4 DEF CallNative
  <2> QED BY <1>2, <2>1, ExceptionStep, ZenonT(30)
<1> QED BY <1>3, <1>4

(* An opcode that traps.                                                    *)
LEMMA TrapStep == FramesInv /\ Trap /\ setting' = setting => FramesInv'
<1> SUFFICES ASSUME FramesInv, Trap, setting' = setting PROVE FramesInv'
  OBVIOUS
<1>1. PICK op \in {"nop", "br_if", "call"} : Executes(op)
  BY DEF Trap
<1>2. op # "end"
  OBVIOUS
<1>3. /\ phase = "run" /\ frames # <<>> /\ pending' = FALSE /\ sig_flag' = sig_flag
      /\ Typed(frames, FALSE)
  BY <1>1, <1>2, ExecutesIs, ZenonT(30)
<1>4. GotException(frames)
  BY DEF Trap
<1> QED BY <1>3, <1>4, ExceptionStep, ZenonT(30)

(* A native function that fails and leaves its frame.                       *)
LEMMA NativeFailStep == FramesInv /\ NativeFail /\ setting' = setting => FramesInv'
<1> SUFFICES ASSUME FramesInv, NativeFail, setting' = setting PROVE FramesInv'
  OBVIOUS
<1>1. /\ phase = "run" /\ frames # <<>> /\ Top.kind = "native" /\ pending' = pending
      /\ sig_flag' = sig_flag /\ GotException(frames)
  BY DEF NativeFail, At
<1>2. pending = FALSE /\ Typed(frames, FALSE)
  BY <1>1, NotFetched, ZenonT(30)
<1> QED BY <1>1, <1>2, ExceptionStep, ZenonT(30)

(* A native function that returns.                                          *)
LEMMA NativeReturnStep == FramesInv /\ NativeReturn /\ setting' = setting => FramesInv'
<1> SUFFICES ASSUME FramesInv, NativeReturn, setting' = setting PROVE FramesInv'
  OBVIOUS
<1>1. /\ phase = "run" /\ frames # <<>> /\ Top.kind = "native" /\ phase' = "run"
      /\ frames' = Pop(frames) /\ infos' = FreeInfo(Top.addr, infos)
      /\ pending' = pending /\ exception' = exception /\ unwound' = unwound
      /\ sig_flag' = sig_flag /\ exec_env' = exec_env /\ restored' = restored
  BY DEF NativeReturn, At, procVars, failVars
<1>2. pending = FALSE
  BY <1>1, NotFetched
<1>3. /\ infos \in Seq(InfoT) /\ exception \in BOOLEAN /\ pending \in BOOLEAN
      /\ unwound \in BOOLEAN /\ sig_flag \in BOOLEAN /\ frames \in Seq(FrameT)
      /\ StackRight(frames, infos, pending, unwound, exec_env, setting)
      /\ Top = frames[Len(frames)] /\ frames[1].kind = "entry"
      /\ Len(frames) >= 1 /\ Len(frames) \in Nat
  BY <1>1, Running
<1>4. /\ StackRight(Pop(frames), FreeInfo(Top.addr, infos), FALSE, unwound, exec_env, setting)
      /\ FreeInfo(Top.addr, infos) \in Seq(InfoT)
      /\ OwnAbs(infos) => OwnAbs(FreeInfo(Top.addr, infos))
      /\ AllSp(frames) => AllSp(Pop(frames))
  BY <1>1, <1>3, Popped, ZenonT(30)
<1>5. restored = 0 => OwnAbs(infos) /\ AllSp(frames)
  BY DEF FramesInv, Origin
<1>6. Pop(frames) # <<>>
  <2>1. Len(frames) # 1
    BY <1>1, <1>3
  <2>2. Len(Pop(frames)) # 0
    BY <1>1, <1>3, <2>1, PopIs
  <2> QED BY <2>2
<1>7. StackRight(frames', infos', pending', unwound', exec_env, setting)
  BY <1>1, <1>2, <1>4, ZenonT(30)
<1> QED BY <1>1, <1>2, <1>3, <1>4, <1>5, <1>6, <1>7, Holds, ZenonT(30)
(* A function returns: its frame is freed, the caller gets the result, and  *)
(* where the caller is an entry frame that is freed too.                    *)
LEMMA EndStep == FramesInv /\ End /\ setting' = setting => FramesInv'
<1> SUFFICES ASSUME FramesInv, End, setting' = setting PROVE FramesInv'
  OBVIOUS
<1> DEFINE below == Pop(frames)
           caller == below[Len(below)]
           res == IF setting.result THEN Top.val ELSE caller.val
           g == [caller EXCEPT !.val = res]
           s == SetTop(below, g)
           l == FreeInfo(Top.addr, infos)
<1>1. Executes("end") /\ UNCHANGED failVars
  BY DEF End
<1>2. /\ phase = "run" /\ frames # <<>> /\ Top.kind = "wasm" /\ pending' = FALSE
      /\ sig_flag' = sig_flag /\ Top \in FrameT /\ Top = frames[Len(frames)]
      /\ exception' = exception /\ unwound' = unwound
  BY <1>1, ExecutesIs, ZenonT(30) DEF failVars
<1>3. /\ frames \in Seq(FrameT) /\ setting \in Settings /\ infos \in Seq(InfoT)
      /\ pending \in BOOLEAN /\ unwound \in BOOLEAN /\ sig_flag \in BOOLEAN
      /\ exception \in BOOLEAN /\ restored \in {0, 1} /\ frames[1].kind = "entry"
      /\ Len(frames) \in Nat /\ Len(frames) >= 1
      /\ StackRight(frames, infos, pending, unwound, exec_env, setting)
  BY <1>2, Running
<1>4. /\ Registered(Top.addr, infos) /\ StackRight(below, l, FALSE, unwound, exec_env, setting)
      /\ l \in Seq(InfoT)
      /\ OwnAbs(infos) => OwnAbs(l)
      /\ AllSp(frames) => AllSp(below)
  BY <1>2, <1>3, Popped, ZenonT(30)
<1>5. /\ below \in Seq(FrameT) /\ Len(below) = Len(frames) - 1
      /\ \A i \in 1 .. Len(frames) - 1 : below[i] = frames[i]
  BY <1>2, <1>3, PopIs
<1>6. Len(frames) # 1
  BY <1>2, <1>3
<1>7. below # <<>> /\ Len(below) \in Nat /\ Len(below) >= 1 /\ below[1] = frames[1]
  <2>1. Len(below) # 0
    BY <1>3, <1>5, <1>6
  <2> QED BY <1>3, <1>5, <1>6, <2>1
<1>8. caller \in FrameT /\ caller = frames[Len(frames) - 1]
  BY <1>3, <1>5, <1>6, <1>7, PopIs
<1>9. restored = 0 => OwnAbs(infos) /\ AllSp(frames)
  BY DEF FramesInv, Origin
<1>10. restored # 0 => ~ setting.result /\ ~ setting.callbacks /\ restored = 1
  BY <1>3 DEF FramesInv, Origin
<1>11. AllSp(frames) => caller.sp
  <2>1. Len(frames) \in Nat /\ Len(frames) >= 1
    BY <1>3, ZenonT(30)
  <2>2. Len(frames) - 1 \in 1 .. Len(frames)
    BY <1>6, <2>1, Within, ZenonT(30)
  <2> QED BY <1>8, <2>2 DEF AllSp
<1>12. ~ (setting.result /\ ~ caller.sp)
  BY <1>9, <1>10, <1>11
<1>13. /\ setting' = setting
       /\ IF caller.kind = "entry" THEN Leave(s, l)
          ELSE frames' = s /\ infos' = l /\ UNCHANGED procVars
  BY <1>4, <1>12 DEF End
<1>14. res \in 0 .. MaxVal
  BY <1>2, <1>8, FrameFields
<1> HIDE DEF below, caller, res, l
<1>15. /\ g \in FrameT /\ g.kind = caller.kind /\ g.addr = caller.addr /\ g.size = caller.size
       /\ g.sp = caller.sp /\ g.ip = caller.ip /\ g.fn = caller.fn
  BY <1>8, <1>14, FrameWith
<1> HIDE DEF g
<1>16. IpRight(g, FALSE)
  <2>1. Typed(below, FALSE)
    BY <1>4, ZenonT(30) DEF StackRight
  <2>2. Len(below) \in Nat /\ Len(below) >= 1
    BY <1>7, ZenonT(30)
  <2>3. Len(below) \in 1 .. Len(below)
    BY <2>2
  <2>4. IpRight(caller, FALSE /\ Len(below) = Len(below))
    BY <2>1, <2>3, ZenonT(30) DEF Typed, caller
  <2>5. (FALSE /\ Len(below) = Len(below)) = FALSE
    OBVIOUS
  <2>6. IpRight(caller, FALSE)
    BY <2>4, <2>5, ZenonT(30)
  <2> QED BY <1>15, <2>6 DEF IpRight
<1>17. /\ StackRight(s, l, FALSE, unwound, exec_env, setting) /\ s # <<>>
       /\ AllSp(below) /\ g.sp => AllSp(s)
  <2>1. caller = below[Len(below)] /\ FALSE \in BOOLEAN
    BY DEF caller
  <2> QED BY <1>3, <1>4, <1>7, <1>15, <1>16, <2>1, Retopped, ZenonT(30)
<1>18. restored = 0 => OwnAbs(l) /\ AllSp(s)
  BY <1>4, <1>9, <1>11, <1>15, <1>17
<1>19. CASE caller.kind # "entry"
  <2>1. /\ phase' = "run" /\ frames' = s /\ infos' = l /\ exec_env' = exec_env
        /\ restored' = restored
    BY <1>2, <1>13, <1>19 DEF procVars
  <2>2. StackRight(frames', infos', pending', unwound', exec_env, setting)
    BY <1>2, <1>17, <2>1, ZenonT(30)
  <2> HIDE DEF s
  <2> QED BY <1>2, <1>3, <1>4, <1>17, <1>18, <2>1, <2>2, Holds, ZenonT(30)
<1>20. CASE caller.kind = "entry"
  <2>1. /\ s \in Seq(FrameT) /\ Len(s) = Len(below) /\ s[Len(below)] = g
        /\ \A i \in 1 .. Len(below) - 1 : s[i] = below[i]
    <3>1. below \in Seq(FrameT) /\ below # <<>> /\ g \in FrameT
      BY <1>5, <1>7, <1>15, ZenonT(30)
    <3> QED BY <3>1, SetTopIs, ZenonT(30)
  <2>2. s[1].kind = "entry"
    <3>1. CASE Len(below) = 1
      BY <1>15, <1>20, <2>1, <3>1
    <3>2. CASE Len(below) # 1
      <4>1. Len(below) \in Nat /\ Len(below) >= 1
        BY <1>7, ZenonT(30)
      <4>2. 1 \in 1 .. Len(below) - 1
        BY <3>2, <4>1, Within, ZenonT(30)
      <4> QED BY <1>3, <1>7, <2>1, <4>2
    <3> QED BY <3>1, <3>2
  <2>3. s[Len(s)].kind = "entry"
    BY <1>15, <1>20, <2>1
  <2>4. EntryOf(s) = Len(s)
    BY <1>17, <2>1, <2>2, <2>3, EntryTop
  <2>5. /\ Registered(s[Len(s)].addr, l)
        /\ StackRight(Pop(s), FreeInfo(s[Len(s)].addr, l), FALSE, unwound, exec_env, setting)
        /\ FreeInfo(s[Len(s)].addr, l) \in Seq(InfoT)
        /\ OwnAbs(l) => OwnAbs(FreeInfo(s[Len(s)].addr, l))
        /\ AllSp(s) => AllSp(Pop(s))
    BY <1>3, <1>4, <1>17, Popped, ZenonT(30)
  <2>6. Leave(s, l)
    BY <1>13, <1>20
  <2> HIDE DEF s
  <2>7. CASE Len(s) = restored
    <3>1. /\ phase' = "over" /\ frames' = s /\ infos' = l
          /\ exec_env' = exec_env /\ restored' = restored
      BY <2>4, <2>6, <2>7 DEF Leave
    <3>2. StackRight(frames', infos', pending', unwound', exec_env, setting)
      BY <1>2, <1>17, <3>1, ZenonT(30)
    <3> QED BY <1>2, <1>3, <1>4, <1>17, <1>18, <3>1, <3>2, Holds, ZenonT(30)
  <2>8. CASE Len(s) # restored
    <3>1. /\ phase' = "run" /\ frames' = Pop(s) /\ infos' = FreeInfo(s[Len(s)].addr, l)
          /\ exec_env' = exec_env /\ restored' = restored
      BY <1>2, <2>4, <2>5, <2>6, <2>8 DEF Leave, Pop
    <3>2. restored = 0
      <4>1. ASSUME restored # 0 PROVE FALSE
        <5>1. Shaped(s, setting.callbacks)
          BY <1>17 DEF StackRight
        <5>2. EntryOf(s) = 1 /\ restored = 1
          BY <1>10, <1>17, <2>1, <4>1, <5>1, EntryOnly
        <5> QED BY <2>4, <2>8, <5>2
      <4> QED BY <4>1
    <3>3. StackRight(frames', infos', pending', unwound', exec_env, setting)
      BY <1>2, <2>5, <3>1, ZenonT(30)
    <3> QED BY <1>2, <1>3, <1>18, <2>5, <3>1, <3>2, <3>3, Holds, ZenonT(30)
  <2> QED BY <2>7, <2>8
<1> QED BY <1>19, <1>20
-----------------------------------------------------------------------------
(* restore_runtime: where the p_abs increase strictly along q, the sort     *)
(* puts the records in the order of q.                                      *)
LEMMA SortRight ==
    ASSUME NEW n, NEW l, NEW q, Sorts(l, q, n)
    PROVE  Len(l) = n /\ Ascending(l) = Placed(l, q, n)
<1> SUFFICES ASSUME n \in Nat, Len(l) \in Nat, q \in [1 .. n -> 1 .. Len(l)],
                    \A k \in 1 .. Len(l) : \E i \in 1 .. n : q[i] = k,
                    \A i \in 1 .. n : l[q[i]].p_abs \in Nat,
                    \A i, j \in 1 .. n : i < j => l[q[i]].p_abs < l[q[j]].p_abs
             PROVE  Len(l) = n /\ Ascending(l) = Placed(l, q, n)
  BY ZenonT(30) DEF Sorts
<1>1. ASSUME NEW i \in 1 .. n, NEW j \in 1 .. n, l[q[i]].p_abs = l[q[j]].p_abs PROVE i = j
  <2>1. ~ (i < j) /\ ~ (j < i)
    <3>1. l[q[i]].p_abs \in Nat /\ l[q[j]].p_abs \in Nat
      OBVIOUS
    <3>2. i < j => l[q[i]].p_abs < l[q[j]].p_abs
      OBVIOUS
    <3>3. j < i => l[q[j]].p_abs < l[q[i]].p_abs
      OBVIOUS
    <3> QED BY <1>1, <3>1, <3>2, <3>3
  <2> QED BY <2>1
<1>2. Len(l) = n
  <2>1. q \in Bijection(1 .. n, 1 .. Len(l))
    <3>1. \A i, j \in 1 .. n : q[i] = q[j] => i = j
      BY <1>1
    <3> QED BY <3>1 DEF Bijection, Injection, Surjection, IsInjective
  <2>2. Cardinality(1 .. Len(l)) = n
    <3>1. ExistsBijection(1 .. n, 1 .. Len(l))
      BY <2>1 DEF ExistsBijection
    <3> QED BY <3>1, FS_CountingElements
  <2>3. Cardinality(1 .. Len(l)) = Len(l)
    <3>1. 1 \in Int /\ Len(l) \in Int
      OBVIOUS
    <3>2. Cardinality(1 .. Len(l)) = IF 1 > Len(l) THEN 0 ELSE Len(l) - 1 + 1
      BY <3>1, FS_Interval, ZenonT(30)
    <3> QED BY <3>2
  <2> QED BY <2>2, <2>3
<1>3. ASSUME NEW i \in 1 .. n PROVE Cardinality(Before(l, q[i])) = i - 1
  <2> DEFINE B == Before(l, q[i])
             r == [j \in 1 .. i - 1 |-> q[j]]
  <2>1. ASSUME NEW j \in 1 .. n PROVE q[j] \in B <=> j < i
    <3>1. l[q[i]].p_abs \in Nat /\ l[q[j]].p_abs \in Nat /\ q[j] \in 1 .. Len(l)
          /\ q[i] \in 1 .. Len(l)
      OBVIOUS
    <3>2. j < i => l[q[j]].p_abs < l[q[i]].p_abs
      OBVIOUS
    <3>3. i < j => l[q[i]].p_abs < l[q[j]].p_abs
      OBVIOUS
    <3>4. q[j] \in B <=> \/ l[q[j]].p_abs < l[q[i]].p_abs
                         \/ l[q[j]].p_abs = l[q[i]].p_abs /\ q[j] > q[i]
      BY <3>1 DEF Before
    <3>5. CASE j < i
      BY <3>2, <3>4, <3>5
    <3>6. CASE i < j
      BY <3>1, <3>3, <3>4, <3>6
    <3>7. CASE i = j
      BY <3>1, <3>4, <3>7
    <3> QED BY <3>5, <3>6, <3>7
  <2>2. r \in [1 .. i - 1 -> B]
    BY <2>1
  <2>3. ASSUME NEW k \in B PROVE \E j \in 1 .. i - 1 : r[j] = k
    <3>1. k \in 1 .. Len(l)
      BY DEF Before
    <3>2. PICK j \in 1 .. n : q[j] = k
      BY <3>1
    <3>3. j \in 1 .. i - 1
      BY <2>1, <3>2
    <3> QED BY <3>2, <3>3
  <2>4. ASSUME NEW j \in 1 .. i - 1, NEW k \in 1 .. i - 1, r[j] = r[k] PROVE j = k
    <3>1. j \in 1 .. n /\ k \in 1 .. n /\ q[j] = q[k]
      BY <2>4
    <3> QED BY <1>1, <3>1, ZenonT(30)
  <2> HIDE DEF B, r
  <2>5. r \in Bijection(1 .. i - 1, B)
    BY <2>2, <2>3, <2>4 DEF Bijection, Injection, Surjection, IsInjective
  <2>6. ExistsBijection(1 .. i - 1, B)
    BY <2>5 DEF ExistsBijection
  <2>7. i - 1 \in Nat
    OBVIOUS
  <2> QED BY <2>6, <2>7, FS_CountingElements DEF B
<1> DEFINE C(i) == CHOOSE k \in 1 .. Len(l) : Cardinality(Before(l, k)) = i - 1
<1>4. ASSUME NEW i \in 1 .. n PROVE C(i) = q[i]
  <2>1. q[i] \in 1 .. Len(l) /\ Cardinality(Before(l, q[i])) = i - 1
    BY <1>3
  <2>2. C(i) \in 1 .. Len(l) /\ Cardinality(Before(l, C(i))) = i - 1
    BY <2>1, ZenonT(30)
  <2> HIDE DEF C
  <2>3. PICK j \in 1 .. n : q[j] = C(i)
    BY <2>2
  <2>4. j - 1 = i - 1
    BY <1>3, <2>2, <2>3
  <2>5. j = i
    BY <2>4
  <2> QED BY <2>3, <2>5
<1>5. Ascending(l) = [i \in 1 .. Len(l) |-> l[C(i)]]
  BY DEF Ascending
<1> HIDE DEF C
<1> QED BY <1>2, <1>4, <1>5 DEF Placed

(* A frame has an address of its own.                                       *)
LEMMA OwnPlace ==
    ASSUME NEW fs \in Seq(FrameT), NEW env, NEW room, Chained(fs, env, room),
           NEW i \in 1 .. Len(fs), NEW j \in 1 .. Len(fs)
    PROVE  /\ i < j => fs[i].addr < fs[j].addr
           /\ fs[i].addr = fs[j].addr => i = j
<1>1. /\ fs[i].addr \in Nat /\ fs[i].size \in Nat /\ fs[i].size > 0
      /\ fs[j].addr \in Nat /\ fs[j].size \in Nat /\ fs[j].size > 0
  <2>1. fs[i] \in FrameT /\ fs[j] \in FrameT
    OBVIOUS
  <2> QED BY <2>1, FrameFields
<1>2. /\ i < j => fs[i].addr + fs[i].size <= fs[j].addr
      /\ j < i => fs[j].addr + fs[j].size <= fs[i].addr
  BY DEF Chained
<1>3. Len(fs) \in Nat
  OBVIOUS
<1> QED BY <1>1, <1>2, <1>3

(* dump_WASMInterpFrame writes the frame that the info is of.               *)
LEMMA BodyIs ==
    ASSUME NEW fs \in Seq(FrameT), NEW env, NEW room, Chained(fs, env, room),
           NEW i \in 1 .. Len(fs)
    PROVE  Body(fs, fs[i].addr) =
              [kind |-> fs[i].kind, fn |-> fs[i].fn, ip |-> fs[i].ip, val |-> fs[i].val]
<1> DEFINE c == CHOOSE j \in 1 .. Len(fs) : fs[j].addr = fs[i].addr
<1>1. c \in 1 .. Len(fs) /\ fs[c].addr = fs[i].addr
  BY ZenonT(30)
<1>2. /\ \E j \in 1 .. Len(fs) : fs[j].addr = fs[i].addr
      /\ Body(fs, fs[i].addr) = IF \E j \in 1 .. Len(fs) : fs[j].addr = fs[i].addr
                                THEN [kind |-> fs[c].kind, fn |-> fs[c].fn, ip |-> fs[c].ip,
                                      val |-> fs[c].val]
                                ELSE [kind |-> "stale"]
  BY ZenonT(30) DEF Body
<1> HIDE DEF c
<1>3. c = i
  BY <1>1, OwnPlace
<1> QED BY <1>2, <1>3, ZenonT(30)

(* The image has the frames fs in the order of the stack, each at the       *)
(* offset it had.                                                           *)
LEMMA DumpRight ==
    ASSUME NEW fs \in Seq(FrameT), NEW l \in Seq(InfoT), NEW env, NEW room,
           Chained(fs, env, room), Live(fs, l), Exact(fs, l),
           Translated \/ OwnAbs(l)
    PROVE  Ascending([i \in 1 .. Len(l) |-> FrameRecord(fs, l[i])])
              = [i \in 1 .. Len(fs) |-> RecordOf(fs[i])]
<1> DEFINE n == Len(fs)
           recs == [i \in 1 .. Len(l) |-> FrameRecord(fs, l[i])]
           q == [i \in 1 .. n |-> CHOOSE k \in 1 .. Len(l) :
                                     l[k].p_raw = fs[i].addr /\ l[k].size = fs[i].size]
<1>1. n \in Nat /\ Len(l) \in Nat
  OBVIOUS
<1>2. ASSUME NEW i \in 1 .. n
      PROVE  q[i] \in 1 .. Len(l) /\ l[q[i]].p_raw = fs[i].addr /\ l[q[i]].size = fs[i].size
  <2>1. \E k \in 1 .. Len(l) : l[k].p_raw = fs[i].addr /\ l[k].size = fs[i].size
    BY DEF Live, First
  <2>2. q[i] = CHOOSE k \in 1 .. Len(l) : l[k].p_raw = fs[i].addr /\ l[k].size = fs[i].size
    OBVIOUS
  <2> HIDE DEF q
  <2> QED BY <2>1, <2>2, ZenonT(30)
<1>3. q \in [1 .. n -> 1 .. Len(l)]
  <2>1. q = [i \in 1 .. n |-> q[i]]
    OBVIOUS
  <2> HIDE DEF q
  <2> QED BY <1>2, <2>1, ZenonT(30)
<1> HIDE DEF q
<1>4. /\ Len(recs) = Len(l)
      /\ \A i \in 1 .. Len(l) : recs[i] = FrameRecord(fs, l[i])
  BY <1>1
<1>5. ASSUME NEW i \in 1 .. n PROVE recs[q[i]] = RecordOf(fs[i])
  <2>1. recs[q[i]] = FrameRecord(fs, l[q[i]])
    BY <1>2, <1>4
  <2>2. Body(fs, l[q[i]].p_raw) =
           [kind |-> fs[i].kind, fn |-> fs[i].fn, ip |-> fs[i].ip, val |-> fs[i].val]
    BY <1>2, BodyIs
  <2>3. (IF Translated THEN l[q[i]].p_raw ELSE l[q[i]].p_abs) = fs[i].addr
    <3>1. CASE Translated
      BY <1>2, <3>1
    <3>2. CASE ~ Translated
      BY <1>2, <3>2 DEF OwnAbs
    <3> QED BY <3>1, <3>2
  <2>4. FrameRecord(fs, l[q[i]]) =
           [p_abs |-> fs[i].addr, size |-> fs[i].size,
            body |-> [kind |-> fs[i].kind, fn |-> fs[i].fn, ip |-> fs[i].ip, val |-> fs[i].val]]
    BY <1>2, <2>2, <2>3, ZenonT(30) DEF FrameRecord
  <2> QED BY <2>1, <2>4, ZenonT(30) DEF RecordOf
<1>6. ASSUME NEW i \in 1 .. n PROVE recs[q[i]].p_abs = fs[i].addr /\ fs[i].addr \in Nat
  <2>1. RecordOf(fs[i]).p_abs = fs[i].addr
    BY SMTT(30) DEF RecordOf
  <2>2. fs[i] \in FrameT
    OBVIOUS
  <2> QED BY <1>5, <2>1, <2>2, FrameFields
<1>7. ASSUME NEW k \in 1 .. Len(recs) PROVE \E i \in 1 .. n : q[i] = k
  <2>1. PICK i \in 1 .. n : l[k].p_raw = fs[i].addr
    BY <1>4 DEF Exact
  <2>2. l[k].p_raw = l[q[i]].p_raw /\ q[i] \in 1 .. Len(l) /\ k \in 1 .. Len(l)
    BY <1>2, <1>4, <2>1
  <2>3. k = q[i]
    BY <2>2 DEF Exact
  <2> QED BY <2>3
<1>8. \A i, j \in 1 .. n : i < j => recs[q[i]].p_abs < recs[q[j]].p_abs
  BY <1>6, OwnPlace, SMTT(30)
<1> HIDE DEF recs, n
<1>9. Ascending(recs) = Placed(recs, q, n)
  <2>1. q \in [1 .. n -> 1 .. Len(recs)] /\ Len(recs) \in Nat
    BY <1>1, <1>3, <1>4
  <2>2. \A i \in 1 .. n : recs[q[i]].p_abs \in Nat
    BY <1>6
  <2>3. \A k \in 1 .. Len(recs) : \E i \in 1 .. n : q[i] = k
    BY <1>7
  <2>4. n \in Nat
    BY <1>1
  <2>5. Sorts(recs, q, n)
    BY <1>8, <2>1, <2>2, <2>3, <2>4, ZenonT(30) DEF Sorts
  <2> QED BY <2>5, SortRight, ZenonT(30)
<1>10. Placed(recs, q, n) = [i \in 1 .. n |-> RecordOf(fs[i])]
  BY <1>5, ZenonT(30) DEF Placed
<1> QED BY <1>9, <1>10, ZenonT(30) DEF recs, n

(* A process without frames.                                                *)
LEMMA NoFrames ==
    ASSUME NEW u, NEW env, NEW st
    PROVE  /\ StackRight(<<>>, <<>>, FALSE, u, env, st)
           /\ OwnAbs(<<>>) /\ AllSp(<<>>) /\ <<>> \in Seq(InfoT)
<1>1. Len(<<>>) = 0 /\ 1 .. 0 = {} /\ 1 .. (0 - 1) = {} /\ <<>> \in Seq(FrameT)
      /\ <<>> \in Seq(InfoT)
  OBVIOUS
<1>2. Typed(<<>>, FALSE)
  BY <1>1 DEF Typed
<1>3. Chained(<<>>, env, st.stack) /\ Shaped(<<>>, st.callbacks)
  BY <1>1 DEF Chained, Shaped
<1>4. Live(<<>>, <<>>) /\ Exact(<<>>, <<>>) /\ OwnAbs(<<>>) /\ AllSp(<<>>)
  BY <1>1 DEF Live, Exact, OwnAbs, AllSp
<1> QED BY <1>1, <1>2, <1>3, <1>4, ZenonT(30) DEF StackRight

(* The stack that a checkpoint writes.                                      *)
Written == SetTop(frames, [Top EXCEPT !.ip = Top.ip + 1])

(* The images that a checkpoint writes are those of the frames.             *)
LEMMA CheckpointRight ==
    ASSUME FramesInv, Timely, Checkpoint
    PROVE  /\ Written \in Seq(FrameT) /\ ImageOf(image', Written, exec_env, setting.stack)
           /\ ~ setting.callbacks /\ ~ setting.result /\ pending = FALSE
<1>1. /\ phase = "run" /\ frames # <<>> /\ Top.kind = "wasm" /\ ~ pending /\ sig_flag
      /\ image' = [records |-> [i \in 1 .. Len(infos) |-> FrameRecord(Written, infos[i])],
                   frame   |-> FramePtr(Written)]
  BY DEF Checkpoint, At, Written
<1>2. ~ setting.callbacks /\ ~ setting.result /\ ~ unwound
  BY <1>1 DEF Timely
<1>3. /\ frames \in Seq(FrameT) /\ setting \in Settings /\ infos \in Seq(InfoT)
      /\ unwound \in BOOLEAN /\ pending = FALSE /\ restored \in {0, 1}
      /\ StackRight(frames, infos, pending, unwound, exec_env, setting)
      /\ Top \in FrameT /\ Top = frames[Len(frames)] /\ IpRight(Top, pending)
  BY <1>1, Running
<1>4. Top.ip \in Nat /\ Top.fn \in DOMAIN Code /\ Top.ip + 1 \in Nat
  BY <1>3, FrameFields
<1> DEFINE f == [Top EXCEPT !.ip = Top.ip + 1]
<1>5. /\ f \in FrameT /\ f.kind = Top.kind /\ f.addr = Top.addr /\ f.size = Top.size
      /\ f.fn = Top.fn /\ f.ip = Top.ip + 1
  BY <1>3, <1>4, FrameWith
<1>6. Written = SetTop(frames, f)
  BY DEF Written
<1> HIDE DEF f
<1>7. IpRight(f, TRUE)
  <2>1. Top.ip \in 1 .. Len(Code[Top.fn]) /\ Len(Code[Top.fn]) \in Nat
    BY <1>1, <1>3, <1>4, CodeIs DEF IpRight
  <2> QED BY <1>1, <1>4, <1>5, <2>1 DEF IpRight
<1>8. StackRight(Written, infos, TRUE, unwound, exec_env, setting) /\ Written # <<>>
  <2>1. TRUE \in BOOLEAN /\ pending \in BOOLEAN
    BY <1>3, ZenonT(30)
  <2> QED BY <1>1, <1>3, <1>5, <1>6, <1>7, <2>1, Retopped, ZenonT(30)
<1>9. /\ Typed(Written, TRUE) /\ Chained(Written, exec_env, setting.stack)
      /\ Shaped(Written, setting.callbacks) /\ Live(Written, infos) /\ Exact(Written, infos)
      /\ Written[Len(Written)].kind = "wasm" /\ Written \in Seq(FrameT)
  BY <1>2, <1>8 DEF StackRight, Typed
<1>10. Shaped(Written, FALSE)
  <2>1. setting.callbacks = FALSE
    BY <1>2, <1>3, SettingIs
  <2> QED BY <1>9, <2>1, ZenonT(30)
<1>11. Translated \/ OwnAbs(infos)
  <2>1. CASE restored = 0
    BY <2>1 DEF FramesInv, Origin
  <2>2. CASE restored = 1
    <3>1. EntryOf(frames) = 1
      BY <1>1, <1>2, <1>3, EntryOnly DEF StackRight
    <3> QED BY <2>2, <3>1 DEF Translated
  <2> QED BY <1>3, <2>1, <2>2
<1>12. /\ image'.records = [i \in 1 .. Len(infos) |-> FrameRecord(Written, infos[i])]
       /\ image'.frame = Written[Len(Written)].addr
  BY <1>1 DEF FramePtr
<1>13. Ascending(image'.records) = [i \in 1 .. Len(Written) |-> RecordOf(Written[i])]
  BY <1>3, <1>9, <1>11, <1>12, DumpRight
<1> QED BY <1>2, <1>3, <1>8, <1>9, <1>10, <1>12, <1>13, ZenonT(30) DEF ImageOf

(* The checkpoint ends the process and leaves the images.                   *)
LEMMA CheckpointStep ==
    FramesInv /\ Timely /\ Checkpoint /\ setting' = setting => FramesInv'
<1> SUFFICES ASSUME FramesInv, Timely, Checkpoint, setting' = setting PROVE FramesInv'
  OBVIOUS
<1>1. /\ Written \in Seq(FrameT) /\ ImageOf(image', Written, exec_env, setting.stack)
      /\ ~ setting.callbacks /\ ~ setting.result /\ pending = FALSE
  BY CheckpointRight
<1>2. /\ phase' = "down" /\ frames' = <<>> /\ infos' = <<>> /\ exec_env' = exec_env
      /\ pending' = FALSE /\ exception' = exception /\ unwound' = unwound
      /\ sig_flag' = sig_flag /\ restored' = restored
  BY <1>1 DEF Checkpoint, failVars
<1>3. /\ StackRight(<<>>, <<>>, FALSE, unwound, exec_env, setting)
      /\ OwnAbs(<<>>) /\ AllSp(<<>>) /\ <<>> \in Seq(InfoT)
  BY NoFrames, ZenonT(30)
<1>4. /\ setting \in Settings /\ exec_env \in Envs /\ exception \in BOOLEAN
      /\ unwound \in BOOLEAN /\ sig_flag \in BOOLEAN /\ restored \in {0, 1}
  BY DEF FramesInv, Values
<1>5. Values'
  BY <1>2, <1>3, <1>4, ZenonT(30) DEF Values
<1>6. Origin'
  BY <1>1, <1>2, <1>3 DEF Origin
<1>7. Imaged'
  BY <1>1, <1>2, ZenonT(30) DEF Imaged
<1>8. StackRight(frames', infos', pending', unwound', exec_env', setting')
  BY <1>2, <1>3, ZenonT(30)
<1> QED BY <1>5, <1>6, <1>7, <1>8 DEF FramesInv
-----------------------------------------------------------------------------
(* The frames before the i-th one fill the stack up to where it was.        *)
LEMMA OffsetIs ==
    ASSUME NEW fs \in Seq(FrameT), NEW env \in Nat, NEW room, Chained(fs, env, room),
           NEW l, Len(l) = Len(fs), \A i \in 1 .. Len(fs) : l[i].size = fs[i].size,
           NEW i \in 1 .. Len(fs)
    PROVE  Offset(l, i) = fs[i].addr - env
<1> DEFINE n == Len(fs)
           G(f) == [j \in 0 .. Len(l) |-> IF j = 0 THEN 0 ELSE f[j - 1] + l[j].size]
           T == [j \in 0 .. Len(l) |-> IF j = 0 THEN 0 ELSE fs[j].addr + fs[j].size - env]
           sum == CHOOSE f : f = G(f)
<1>1. n \in Nat /\ Len(l) = n /\ i \in 1 .. n
  OBVIOUS
<1>2. \A j \in 1 .. n : fs[j].addr \in Nat /\ fs[j].size \in Nat /\ l[j].size = fs[j].size
  <2>1. \A j \in 1 .. n : fs[j] \in FrameT
    OBVIOUS
  <2> QED BY <2>1, FrameFields
<1>3. \A j \in 1 .. n : /\ j = 1 => fs[j].addr = env
                        /\ j # 1 => fs[j].addr = fs[j - 1].addr + fs[j - 1].size
  <2> SUFFICES ASSUME NEW j \in 1 .. n
               PROVE  /\ j = 1 => fs[j].addr = env
                      /\ j # 1 => fs[j].addr = fs[j - 1].addr + fs[j - 1].size
    OBVIOUS
  <2>1. j # 1 => j - 1 \in 1 .. Len(fs) - 1 /\ (j - 1) + 1 = j
    BY <1>1
  <2> QED BY <2>1 DEF Chained
<1> HIDE DEF n
<1>4. T = G(T)
  <2>1. ASSUME NEW j \in 0 .. Len(l)
        PROVE  (IF j = 0 THEN 0 ELSE fs[j].addr + fs[j].size - env)
                  = (IF j = 0 THEN 0 ELSE T[j - 1] + l[j].size)
    <3>1. CASE j = 0
      BY <3>1
    <3>2. CASE j # 0
      <4>1. j \in 1 .. n /\ j - 1 \in 0 .. Len(l) /\ (j # 1 => j - 1 \in 1 .. n)
        BY <1>1, <3>2
      <4>2. T[j - 1] = IF j - 1 = 0 THEN 0 ELSE fs[j - 1].addr + fs[j - 1].size - env
        BY <4>1
      <4>3. T[j - 1] = fs[j].addr - env
        BY <1>2, <1>3, <4>1, <4>2
      <4> HIDE DEF T
      <4> QED BY <1>2, <3>2, <4>1, <4>3
    <3> QED BY <3>1, <3>2
  <2> QED BY <2>1, ZenonT(30)
<1>5. sum = G(sum)
  <2> HIDE DEF T
  <2>1. \E f : f = G(f)
    BY <1>4
  <2> QED BY <2>1, ZenonT(30)
<1>6. Offset(l, i) = sum[i - 1]
  BY DEF Offset
<1> HIDE DEF sum
<1>7. \A j \in 0 .. n : sum[j] = IF j = 0 THEN 0 ELSE sum[j - 1] + l[j].size
  BY <1>1, <1>5
<1>8. \A j \in 0 .. n : T[j] = IF j = 0 THEN 0 ELSE T[j - 1] + l[j].size
  <2>1. \A j \in 0 .. n : G(T)[j] = IF j = 0 THEN 0 ELSE T[j - 1] + l[j].size
    BY <1>1
  <2> HIDE DEF T, G
  <2> QED BY <1>4, <2>1
<1>9. T[i - 1] = fs[i].addr - env
  <2>1. i - 1 \in 0 .. Len(l) /\ (i # 1 => i - 1 \in 1 .. n)
    BY <1>1
  <2>2. T[i - 1] = IF i - 1 = 0 THEN 0 ELSE fs[i - 1].addr + fs[i - 1].size - env
    BY <2>1
  <2> HIDE DEF T
  <2>3. CASE i = 1
    BY <1>1, <1>2, <1>3, <2>2, <2>3
  <2>4. CASE i # 1
    <3>1. fs[i].addr = fs[i - 1].addr + fs[i - 1].size /\ i - 1 # 0
      BY <1>1, <1>3, <2>4
    <3>2. fs[i - 1].addr \in Nat /\ fs[i - 1].size \in Nat
      BY <1>2, <2>1, <2>4
    <3>3. T[i - 1] = fs[i - 1].addr + fs[i - 1].size - env
      BY <2>2, <3>1
    <3> QED BY <3>1, <3>2, <3>3
  <2> QED BY <2>3, <2>4
<1> HIDE DEF T, G
<1>10. \A j \in 0 .. n : sum[j] = T[j]
  <2> DEFINE S == {j \in 0 .. n : sum[j] # T[j]}
  <2> SUFFICES ASSUME S # {} PROVE FALSE
    OBVIOUS
  <2>1. S \subseteq Nat
    BY <1>1
  <2>2. PICK j \in S : \A k \in S : ~ (k < j)
    <3> HIDE DEF S
    <3> QED BY <2>1, Least, ZenonT(30)
  <2>3. j \in 0 .. n /\ sum[j] # T[j]
    OBVIOUS
  <2>4. j # 0
    BY <1>7, <1>8, <2>3
  <2>5. j - 1 \in 0 .. n /\ j - 1 < j
    BY <1>1, <2>3, <2>4
  <2>6. j - 1 \notin S
    <3> HIDE DEF S
    <3> QED BY <2>2, <2>5
  <2>7. sum[j - 1] = T[j - 1]
    BY <2>5, <2>6
  <2> QED BY <1>7, <1>8, <2>3, <2>4, <2>7
<1>11. i - 1 \in 0 .. n
  BY <1>1
<1> QED BY <1>6, <1>9, <1>10, <1>11

(* The same frames, moved to another execution environment.                 *)
LEMMA Moved ==
    ASSUME NEW fs \in Seq(FrameT), NEW old \in Nat, NEW env \in Nat, NEW room \in Nat,
           Chained(fs, old, room), fs # <<>>,
           NEW ns, ns = MovedTo(fs, old, env)
    PROVE  /\ ns \in Seq(FrameT) /\ Len(ns) = Len(fs) /\ ns # <<>>
           /\ Chained(ns, env, room) /\ Alike(ns, fs)
<1> DEFINE n == Len(fs)
<1>1. fs \in Seq(FrameT) /\ n \in Nat /\ n >= 1
  BY PopIs
<1>2. ASSUME NEW i \in 1 .. n
      PROVE  /\ fs[i].addr \in Nat /\ fs[i].size \in Nat /\ fs[i].size > 0 /\ fs[i].addr >= old
             /\ fs[i] \in FrameT
  <2>1. fs[i] \in FrameT /\ fs[1] \in FrameT /\ 1 \in 1 .. n
    BY <1>1
  <2>2. /\ fs[i].addr \in Nat /\ fs[i].size \in Nat /\ fs[i].size > 0
        /\ fs[1].addr \in Nat /\ fs[1].size \in Nat
    BY <2>1, FrameFields
  <2>3. fs[1].addr = old /\ (1 < i => fs[1].addr + fs[1].size <= fs[i].addr)
    BY <2>1 DEF Chained
  <2>4. i = 1 \/ 1 < i
    BY <1>1
  <2> QED BY <2>1, <2>2, <2>3, <2>4
<1>3. ASSUME NEW i \in 1 .. n
      PROVE  /\ ns[i] \in FrameT
             /\ ns[i].kind = fs[i].kind /\ ns[i].fn = fs[i].fn /\ ns[i].ip = fs[i].ip
             /\ ns[i].val = fs[i].val /\ ns[i].size = fs[i].size
             /\ ns[i].addr = env + (fs[i].addr - old)
  <2>1. ns[i] = [kind |-> fs[i].kind, fn |-> fs[i].fn, ip |-> fs[i].ip,
                 val |-> fs[i].val, addr |-> env + (fs[i].addr - old),
                 size |-> fs[i].size, sp |-> fs[i].kind # "entry"]
    BY <1>1 DEF MovedTo
  <2>2. /\ ns[i].kind = fs[i].kind /\ ns[i].fn = fs[i].fn /\ ns[i].ip = fs[i].ip
        /\ ns[i].val = fs[i].val /\ ns[i].size = fs[i].size
        /\ ns[i].addr = env + (fs[i].addr - old)
    BY <2>1, SMTT(30)
  <2>3. env + (fs[i].addr - old) \in Nat
    BY <1>2
  <2>4. /\ fs[i].kind \in {"entry", "wasm", "native"} /\ fs[i].fn \in DOMAIN Code
        /\ fs[i].ip \in Nat /\ fs[i].val \in 0 .. MaxVal /\ fs[i].size \in Nat \ {0}
    BY <1>2, FrameFields
  <2>5. (fs[i].kind # "entry") \in BOOLEAN
    OBVIOUS
  <2>6. ns[i] \in FrameT
    <3>1. PICK b \in BOOLEAN : b = (fs[i].kind # "entry")
      BY <2>5, ZenonT(30)
    <3>2. [kind |-> fs[i].kind, fn |-> fs[i].fn, ip |-> fs[i].ip, val |-> fs[i].val,
           addr |-> env + (fs[i].addr - old), size |-> fs[i].size, sp |-> b] \in FrameT
      BY <2>3, <2>4, FrameMade, ZenonT(30)
    <3> QED BY <2>1, <3>1, <3>2, ZenonT(30)
  <2> QED BY <2>2, <2>6
<1>4. ns \in Seq(FrameT) /\ Len(ns) = n
  <2>1. ns = [i \in 1 .. n |-> ns[i]]
    BY <1>1 DEF MovedTo
  <2>2. ns \in [1 .. n -> FrameT]
    BY <1>3, <2>1, ZenonT(30)
  <2>3. n \in Nat
    BY <1>1
  <2> HIDE DEF n
  <2> QED BY <2>2, <2>3
<1>5. ns # <<>>
  BY <1>1, <1>4
<1>6. Chained(ns, env, room)
  <2>1. ASSUME NEW i \in 1 .. n
        PROVE  (i = 1 => ns[i].addr = env) /\ ns[i].addr + 2 * ns[i].size <= env + room
    <3>1. (i = 1 => fs[i].addr = old) /\ fs[i].addr + 2 * fs[i].size <= old + room
      BY DEF Chained
    <3>2. /\ fs[i].addr \in Nat /\ fs[i].size \in Nat /\ ns[i].size = fs[i].size
          /\ ns[i].addr = env + (fs[i].addr - old)
      BY <1>2, <1>3, ZenonT(30)
    <3> QED BY <3>1, <3>2, SMTT(30)
  <2>2. ASSUME NEW i \in 1 .. n - 1 PROVE ns[i + 1].addr = ns[i].addr + ns[i].size
    <3>1. i \in 1 .. n /\ i + 1 \in 1 .. n
      BY <1>1
    <3>2. fs[i + 1].addr = fs[i].addr + fs[i].size
      BY DEF Chained
    <3>3. /\ fs[i].addr \in Nat /\ fs[i].size \in Nat /\ ns[i].size = fs[i].size
          /\ ns[i].addr = env + (fs[i].addr - old)
          /\ ns[i + 1].addr = env + (fs[i + 1].addr - old)
      BY <1>2, <1>3, <3>1, ZenonT(30)
    <3> QED BY <3>2, <3>3, SMTT(30)
  <2>3. ASSUME NEW i \in 1 .. n, NEW j \in 1 .. n, i < j
        PROVE  ns[i].addr + ns[i].size <= ns[j].addr
    <3>1. fs[i].addr + fs[i].size <= fs[j].addr
      BY <2>3 DEF Chained
    <3>2. /\ fs[i].addr \in Nat /\ fs[i].size \in Nat /\ ns[i].size = fs[i].size
          /\ fs[j].addr \in Nat /\ ns[i].addr = env + (fs[i].addr - old)
          /\ ns[j].addr = env + (fs[j].addr - old)
      BY <1>2, <1>3, ZenonT(30)
    <3> QED BY <3>1, <3>2, SMTT(30)
  <2> QED BY <1>4, <2>1, <2>2, <2>3, ZenonT(30) DEF Chained
<1>7. Alike(ns, fs)
  BY <1>3 DEF Alike
<1> QED BY <1>4, <1>5, <1>6, <1>7, ZenonT(30)

(* Moved frames are typed, and call each other, as they were.               *)
LEMMA MovedTyped ==
    ASSUME NEW fs, NEW ns \in Seq(FrameT), Len(ns) = Len(fs), Len(fs) \in Nat, Len(fs) >= 1,
           Alike(ns, fs)
    PROVE  (Typed(fs, TRUE) => Typed(ns, TRUE)) /\ (Shaped(fs, FALSE) => Shaped(ns, FALSE))
<1> DEFINE n == Len(fs)
<1>1. ASSUME Typed(fs, TRUE) PROVE Typed(ns, TRUE)
  <2>1. ASSUME NEW i \in 1 .. n PROVE IpRight(ns[i], TRUE /\ i = n)
    <3>1. IpRight(fs[i], TRUE /\ i = n)
      BY <1>1, ZenonT(30) DEF Typed
    <3>2. ns[i].kind = fs[i].kind /\ ns[i].fn = fs[i].fn /\ ns[i].ip = fs[i].ip
      BY DEF Alike
    <3> HIDE DEF n
    <3>3. PICK b : b = (TRUE /\ i = n)
      BY ZenonT(30)
    <3>4. IpRight(fs[i], b)
      BY <3>1, <3>3, ZenonT(30)
    <3>5. IpRight(ns[i], b)
      BY <3>2, <3>4, ZenonT(30) DEF IpRight
    <3> QED BY <3>3, <3>5, ZenonT(30)
  <2> QED BY <2>1, ZenonT(30) DEF Typed
<1>2. ASSUME Shaped(fs, FALSE) PROVE Shaped(ns, FALSE)
  <2>1. 1 \in 1 .. n /\ \A i \in 1 .. n - 1 : i \in 1 .. n /\ i + 1 \in 1 .. n
    OBVIOUS
  <2>2. ns # <<>> => fs # <<>>
    OBVIOUS
  <2> QED BY <1>2, <2>1, <2>2, ZenonT(30) DEF Shaped, Alike
<1> QED BY <1>1, <1>2, ZenonT(30)

(* What a restore builds, from the frames that the image is of.             *)
LEMMA RestoreRight ==
    ASSUME FramesInv, NEW env \in Envs, Restore(env),
           NEW fs \in Seq(FrameT), ImageOf(image, fs, exec_env, setting.stack)
    PROVE  /\ phase' = "run" /\ pending' = TRUE /\ exec_env' = env
           /\ Len(frames') = Len(fs) /\ frames' # <<>>
           /\ Typed(frames', TRUE) /\ Chained(frames', env, setting.stack) /\ Shaped(frames', FALSE)
           /\ \A i \in 1 .. Len(fs) :
                 /\ frames'[i].kind = fs[i].kind /\ frames'[i].fn = fs[i].fn
                 /\ frames'[i].ip = fs[i].ip /\ frames'[i].val = fs[i].val
           /\ infos' \in Seq(InfoT) /\ Len(infos') = Len(fs)
           /\ \A i \in 1 .. Len(fs) : /\ infos'[i].p_raw = frames'[i].addr
                                      /\ infos'[i].size = frames'[i].size
           /\ restored' = 1
<1> DEFINE n == Len(fs)
           l == Ascending(image.records)
           ns == [i \in 1 .. Len(l) |-> NewFrame(l[i], env + Offset(l, i))]
           is == [i \in 1 .. Len(l) |->
                    [p_raw |-> ns[i].addr, p_abs |-> l[i].p_abs, size |-> l[i].size]]
<1>1. /\ fs # <<>> /\ fs[n].kind = "wasm" /\ Typed(fs, TRUE)
      /\ Chained(fs, exec_env, setting.stack) /\ Shaped(fs, FALSE)
      /\ l = [i \in 1 .. n |-> RecordOf(fs[i])] /\ image.frame = fs[n].addr
  BY ZenonT(30) DEF ImageOf
<1>2. exec_env \in Nat /\ setting.stack \in Nat /\ env \in Nat
  BY Running, SettingIs, InterpAssumption
<1>3. n \in Nat /\ n >= 1 /\ n \in 1 .. n
  BY <1>1, PopIs
<1>4. /\ phase = "down" /\ exec_env' = env
      /\ IF Rebuildable(l, env)
         THEN /\ frames' = ns /\ infos' = is
              /\ restored' = EntryOf(ns) /\ phase' = "run" /\ pending' = TRUE
         ELSE phase' = "crashed" /\ UNCHANGED <<frames, infos, restored, pending>>
  BY DEF Restore
<1> HIDE DEF l
<1>5. Len(l) = n /\ \A i \in 1 .. n : l[i] = RecordOf(fs[i])
  BY <1>1, <1>3
<1>6. ASSUME NEW i \in 1 .. n
      PROVE  /\ l[i].size = fs[i].size /\ l[i].p_abs = fs[i].addr
             /\ l[i].body.kind = fs[i].kind /\ l[i].body.fn = fs[i].fn
             /\ l[i].body.ip = fs[i].ip /\ l[i].body.val = fs[i].val
             /\ fs[i] \in FrameT
  <2>1. l[i] = RecordOf(fs[i])
    BY <1>5
  <2>2. LET x == RecordOf(fs[i])
        IN  /\ x.size = fs[i].size /\ x.p_abs = fs[i].addr
            /\ x.body.kind = fs[i].kind /\ x.body.fn = fs[i].fn
            /\ x.body.ip = fs[i].ip /\ x.body.val = fs[i].val
    BY SMTT(30) DEF RecordOf
  <2>3. fs[i] \in FrameT
    OBVIOUS
  <2> QED BY <2>1, <2>2, <2>3, ZenonT(30)
<1>7. \A i \in 1 .. n : Offset(l, i) = fs[i].addr - exec_env
  BY <1>1, <1>2, <1>5, <1>6, OffsetIs, ZenonT(30)
<1>8. Rebuildable(l, env)
  <2>1. ASSUME NEW i \in 1 .. n
        PROVE  l[i].body.kind # "stale" /\ Offset(l, i) + 2 * l[i].size <= setting.stack
    <3>1. /\ fs[i].kind \in {"entry", "wasm", "native"} /\ fs[i].addr \in Nat
          /\ fs[i].size \in Nat
      BY <1>6, FrameFields
    <3>2. fs[i].addr + 2 * fs[i].size <= exec_env + setting.stack
      BY <1>1 DEF Chained
    <3>3. Offset(l, i) = fs[i].addr - exec_env /\ l[i].size = fs[i].size
      BY <1>6, <1>7
    <3>4. Offset(l, i) + 2 * l[i].size <= setting.stack
      BY <1>2, <3>1, <3>2, <3>3
    <3> QED BY <1>6, <3>1, <3>4
  <2>2. l[Len(l)].p_abs = image.frame
    BY <1>1, <1>3, <1>5, <1>6
  <2> QED BY <1>5, <2>1, <2>2 DEF Rebuildable
<1>9. /\ frames' = ns /\ infos' = is /\ restored' = EntryOf(ns) /\ phase' = "run"
      /\ pending' = TRUE
  BY <1>4, <1>8
<1>10. ns = MovedTo(fs, exec_env, env)
  BY <1>5, <1>6, <1>7, ZenonT(30) DEF NewFrame, MovedTo
<1>11. /\ ns \in Seq(FrameT) /\ Len(ns) = n /\ ns # <<>>
       /\ Typed(ns, TRUE) /\ Chained(ns, env, setting.stack) /\ Shaped(ns, FALSE)
       /\ \A i \in 1 .. n :
             /\ ns[i].kind = fs[i].kind /\ ns[i].fn = fs[i].fn /\ ns[i].ip = fs[i].ip
             /\ ns[i].val = fs[i].val /\ ns[i].size = fs[i].size
  <2> HIDE DEF ns
  <2>1. PICK old, room : old = exec_env /\ room = setting.stack
    OBVIOUS
  <2>2. /\ old \in Nat /\ room \in Nat /\ env \in Nat /\ Chained(fs, old, room) /\ fs # <<>>
        /\ ns = MovedTo(fs, old, env)
    BY <1>1, <1>2, <1>10, <2>1, ZenonT(30)
  <2>3. ns \in Seq(FrameT) /\ Len(ns) = n
    BY <2>2, Moved, ZenonT(30)
  <2>4. ns # <<>> /\ Chained(ns, env, room)
    BY <2>2, Moved, ZenonT(30)
  <2>5. Alike(ns, fs)
    BY <2>2, Moved, ZenonT(30)
  <2>6. Typed(ns, TRUE)
    BY <1>1, <1>3, <2>3, <2>5, MovedTyped, ZenonT(30)
  <2>7. Shaped(ns, FALSE)
    BY <1>1, <1>3, <2>3, <2>5, MovedTyped, ZenonT(30)
  <2>8. \A i \in 1 .. n :
           /\ ns[i].kind = fs[i].kind /\ ns[i].fn = fs[i].fn /\ ns[i].ip = fs[i].ip
           /\ ns[i].val = fs[i].val /\ ns[i].size = fs[i].size
    BY <2>5, ZenonT(30) DEF Alike
  <2> QED BY <2>1, <2>3, <2>4, <2>6, <2>7, <2>8, ZenonT(30)
<1>12. is = [i \in 1 .. n |-> [p_raw |-> ns[i].addr, p_abs |-> l[i].p_abs, size |-> l[i].size]]
  BY <1>5
<1> HIDE DEF ns, is
<1>13. ASSUME NEW i \in 1 .. n
       PROVE  /\ is[i] \in InfoT /\ is[i].p_raw = ns[i].addr /\ is[i].size = ns[i].size
  <2>1. is[i] = [p_raw |-> ns[i].addr, p_abs |-> l[i].p_abs, size |-> l[i].size]
    BY <1>12
  <2>2. is[i].p_raw = ns[i].addr /\ is[i].size = l[i].size
    BY <2>1, SMTT(30)
  <2>3. ns[i] \in FrameT /\ fs[i] \in FrameT
    BY <1>11
  <2>4. ns[i].addr \in Nat /\ l[i].p_abs \in Nat /\ l[i].size \in Nat
    BY <1>6, <2>3, FrameFields
  <2>5. is[i] \in InfoT
    BY <2>1, <2>4 DEF InfoT
  <2> QED BY <1>6, <1>11, <2>2, <2>5
<1>14. is \in Seq(InfoT) /\ Len(is) = n
  <2>1. is = [i \in 1 .. n |-> is[i]]
    BY <1>12
  <2>2. is \in [1 .. n -> InfoT]
    BY <1>13, <2>1, ZenonT(30)
  <2> QED BY <1>3, <2>2
<1>15. EntryOf(ns) = 1
  BY <1>11, EntryOnly, ZenonT(30)
<1> QED BY <1>4, <1>9, <1>11, <1>13, <1>14, <1>15, ZenonT(30)

(* The restored process has the frames of the images in its own stack.      *)
LEMMA RestoreStep ==
    ASSUME FramesInv, NEW env \in Envs, Restore(env), setting' = setting
    PROVE  FramesInv'
<1>1. phase = "down" /\ sig_flag' = FALSE /\ exception' = FALSE /\ unwound' = FALSE
  BY DEF Restore
<1>2. /\ ~ setting.callbacks /\ ~ setting.result
      /\ \E fs \in Seq(FrameT) : ImageOf(image, fs, exec_env, setting.stack)
  BY <1>1 DEF FramesInv, Imaged
<1>3. PICK fs \in Seq(FrameT) : ImageOf(image, fs, exec_env, setting.stack)
  BY <1>2
<1>4. /\ phase' = "run" /\ pending' = TRUE /\ exec_env' = env
      /\ Len(frames') = Len(fs) /\ frames' # <<>>
      /\ Typed(frames', TRUE) /\ Chained(frames', env, setting.stack) /\ Shaped(frames', FALSE)
      /\ \A i \in 1 .. Len(fs) : frames'[i].kind = fs[i].kind
      /\ infos' \in Seq(InfoT) /\ Len(infos') = Len(fs)
      /\ \A i \in 1 .. Len(fs) : /\ infos'[i].p_raw = frames'[i].addr
                                 /\ infos'[i].size = frames'[i].size
      /\ restored' = 1
  BY <1>3, RestoreRight, ZenonT(30)
<1>5. setting \in Settings
  BY Running
<1>6. setting.callbacks = FALSE
  BY <1>2, <1>5, SettingIs
<1>7. frames'[Len(frames')].kind = "wasm"
  <2>1. fs[Len(fs)].kind = "wasm" /\ fs # <<>>
    BY <1>3 DEF ImageOf
  <2>2. Len(fs) \in 1 .. Len(fs)
    BY <2>1, PopIs
  <2> QED BY <1>4, <2>1, <2>2
<1>8. Live(frames', infos') /\ Exact(frames', infos')
  <2>1. frames' \in Seq(FrameT) /\ Len(fs) \in Nat
    BY <1>4 DEF Typed
  <2>2. ASSUME NEW i \in 1 .. Len(fs), NEW j \in 1 .. Len(fs), infos'[i].p_raw = infos'[j].p_raw
        PROVE  i = j
    <3>1. frames'[i].addr = frames'[j].addr /\ i \in 1 .. Len(frames') /\ j \in 1 .. Len(frames')
      BY <1>4, <2>2
    <3> QED BY <1>4, <2>1, <3>1, OwnPlace
  <2>3. ASSUME NEW i \in 1 .. Len(fs) PROVE First(infos', frames'[i].addr, i)
    <3>1. ASSUME NEW j \in 1 .. i - 1 PROVE infos'[j].p_raw # frames'[i].addr
      <4>1. j \in 1 .. Len(fs) /\ j # i
        BY <2>1
      <4> QED BY <1>4, <2>2, <4>1
    <3> QED BY <1>4, <3>1 DEF First
  <2>4. Live(frames', infos')
    BY <1>4, <2>3, ZenonT(30) DEF Live
  <2>5. Exact(frames', infos')
    BY <1>4, <2>2, ZenonT(30) DEF Exact
  <2> QED BY <2>4, <2>5
<1>9. StackRight(frames', infos', pending', unwound', exec_env', setting')
  BY <1>1, <1>4, <1>6, <1>7, <1>8, ZenonT(30) DEF StackRight
<1>10. Values'
  BY <1>1, <1>4, <1>5, ZenonT(30) DEF Values
<1>11. Origin'
  BY <1>2, <1>4 DEF Origin
<1>12. Imaged'
  BY <1>4 DEF Imaged
<1> QED BY <1>9, <1>10, <1>11, <1>12 DEF FramesInv
-----------------------------------------------------------------------------
(* Every step preserves the invariant.                                      *)
LEMMA FramesNext == FramesInv /\ Timely /\ [Next]_vars => FramesInv'
<1> SUFFICES ASSUME FramesInv, Timely, [Next]_vars PROVE FramesInv'
  OBVIOUS
<1>1. CASE UNCHANGED vars
  <2>1. /\ setting' = setting /\ exec_env' = exec_env /\ frames' = frames /\ infos' = infos
        /\ pending' = pending /\ exception' = exception /\ unwound' = unwound
        /\ sig_flag' = sig_flag /\ phase' = phase /\ restored' = restored /\ image' = image
    BY <1>1 DEF vars
  <2>2. Values' /\ Origin' /\ Imaged'
    BY <2>1, ZenonT(30) DEF FramesInv, Values, Origin, Imaged
  <2>3. StackRight(frames', infos', pending', unwound', exec_env', setting')
    BY <2>1 DEF FramesInv
  <2> QED BY <2>2, <2>3 DEF FramesInv
<1>2. CASE Signal /\ setting' = setting
  BY <1>2, SignalStep
<1>3. ASSUME NEW f \in DOMAIN Code, CallWasm(f), setting' = setting PROVE FramesInv'
  BY <1>3, CallWasmStep
<1>4. CASE Enter /\ setting' = setting
  BY <1>4, EnterStep
<1>5. CASE Fetch /\ setting' = setting
  BY <1>5, FetchStep
<1>6. CASE Plain /\ setting' = setting
  BY <1>6, PlainStep
<1>7. CASE Branch /\ setting' = setting
  BY <1>7, BranchStep
<1>8. CASE CallOp /\ setting' = setting
  BY <1>8, CallOpStep
<1>9. CASE CallNative /\ setting' = setting
  BY <1>9, CallNativeStep
<1>10. CASE Trap /\ setting' = setting
  BY <1>10, TrapStep
<1>11. CASE End /\ setting' = setting
  BY <1>11, EndStep
<1>12. CASE NativeReturn /\ setting' = setting
  BY <1>12, NativeReturnStep
<1>13. CASE NativeFail /\ setting' = setting
  BY <1>13, NativeFailStep
<1>14. CASE Checkpoint /\ setting' = setting
  BY <1>14, CheckpointStep
<1>15. ASSUME NEW env \in Envs, Restore(env), setting' = setting PROVE FramesInv'
  BY <1>15, RestoreStep
<1> QED
  BY <1>1, <1>2, <1>3, <1>4, <1>5, <1>6, <1>7, <1>8, <1>9, <1>10, <1>11, <1>12, <1>13,
     <1>14, <1>15, ZenonT(30) DEF Next, Step

(* The process starts without frames.                                       *)
LEMMA FramesInit == Init => FramesInv
<1> SUFFICES ASSUME Init PROVE FramesInv
  OBVIOUS
<1>1. /\ setting \in Settings /\ exec_env \in Envs /\ frames = <<>> /\ infos = <<>>
      /\ pending = FALSE /\ sig_flag = FALSE /\ exception = FALSE /\ unwound = FALSE
      /\ phase = "run" /\ restored = 0
  BY DEF Init
<1>2. /\ StackRight(<<>>, <<>>, FALSE, FALSE, exec_env, setting)
      /\ OwnAbs(<<>>) /\ AllSp(<<>>) /\ <<>> \in Seq(InfoT)
  BY NoFrames, ZenonT(30)
<1>3. Values
  BY <1>1, <1>2, ZenonT(30) DEF Values
<1>4. Origin /\ Imaged
  BY <1>1, <1>2 DEF Origin, Imaged
<1>5. StackRight(frames, infos, pending, unwound, exec_env, setting)
  BY <1>1, <1>2, ZenonT(30)
<1> QED BY <1>3, <1>4, <1>5 DEF FramesInv

(* What the invariant says of the registry of frames.                       *)
LEMMA RegisteredRight == FramesInv => FramesRegistered
<1> SUFFICES ASSUME FramesInv PROVE FramesRegistered
  OBVIOUS
<1>1. /\ infos \in Seq(InfoT) /\ Live(frames, infos) /\ (~ unwound => Exact(frames, infos))
  BY Running DEF StackRight
<1>2. ASSUME NEW i \in 1 .. Len(frames)
      PROVE  /\ Registered(frames[i].addr, infos)
             /\ infos[FirstInfo(frames[i].addr, infos)].size = frames[i].size
  <2>1. PICK k \in 1 .. Len(infos) :
           First(infos, frames[i].addr, k) /\ infos[k].size = frames[i].size
    BY <1>1 DEF Live
  <2> QED BY <1>1, <2>1, FreeIs
<1>3. ~ unwound => NoStaleFrame
  BY <1>1 DEF Exact, NoStaleFrame
<1> QED BY <1>2, <1>3 DEF FramesRegistered, LiveFramesRegistered

(* The invariant has the types in it.                                       *)
LEMMA TypesRight == FramesInv => TypeOK
<1> SUFFICES ASSUME FramesInv PROVE TypeOK
  OBVIOUS
<1>1. /\ frames \in Seq(FrameT) /\ Len(frames) \in Nat /\ pending \in BOOLEAN
      /\ Typed(frames, pending)
  BY Running DEF StackRight
<1>2. ASSUME NEW i \in 1 .. Len(frames)
      PROVE  /\ frames[i].kind \in {"entry", "wasm", "native"}
             /\ frames[i].fn \in DOMAIN Code
             /\ frames[i].ip \in 0 .. Len(Code[frames[i].fn])
                                  + (IF i = Len(frames) /\ pending THEN 1 ELSE 0)
             /\ frames[i].val \in 0 .. MaxVal
             /\ frames[i].sp \in BOOLEAN
  <2>1. frames[i] \in FrameT
    BY <1>1
  <2>2. /\ frames[i].kind \in {"entry", "wasm", "native"} /\ frames[i].fn \in DOMAIN Code
        /\ frames[i].ip \in Nat /\ frames[i].val \in 0 .. MaxVal /\ frames[i].sp \in BOOLEAN
    BY <2>1, FrameFields
  <2>3. Len(Code[frames[i].fn]) \in Nat
    BY <2>2, CodeIs
  <2>4. IpRight(frames[i], pending /\ i = Len(frames))
    BY <1>1 DEF Typed
  <2>5. PICK b \in BOOLEAN : b = (pending /\ i = Len(frames))
    BY ZenonT(30)
  <2>6. IpRight(frames[i], b) /\ (b <=> i = Len(frames) /\ pending)
    BY <2>4, <2>5, ZenonT(30)
  <2>7. CASE b
    <3>1. frames[i].ip \in 0 .. Len(Code[frames[i].fn]) + 1
      BY <2>2, <2>3, <2>6, <2>7 DEF IpRight
    <3>2. (IF i = Len(frames) /\ pending THEN 1 ELSE 0) = 1
      BY <2>6, <2>7
    <3> QED BY <2>2, <3>1, <3>2, ZenonT(30)
  <2>8. CASE ~ b
    <3>1. frames[i].ip \in 0 .. Len(Code[frames[i].fn]) + 0
      BY <2>2, <2>3, <2>6, <2>8 DEF IpRight
    <3>2. (IF i = Len(frames) /\ pending THEN 1 ELSE 0) = 0
      BY <2>6, <2>8
    <3> QED BY <2>2, <3>1, <3>2, ZenonT(30)
  <2> QED BY <2>7, <2>8, ZenonT(30)
<1>3. restored \in 0 .. Len(frames) \/ phase # "run"
  <2>1. restored \in {0, 1} /\ (restored # 0 => phase # "run" \/ frames # <<>>)
    BY DEF FramesInv, Values, Origin
  <2>2. frames # <<>> => Len(frames) >= 1
    BY Running
  <2> QED BY <1>1, <2>1, <2>2
<1>4. /\ exec_env \in Envs /\ pending \in BOOLEAN /\ sig_flag \in BOOLEAN
      /\ exception \in BOOLEAN /\ unwound \in BOOLEAN
      /\ phase \in {"run", "down", "over", "crashed"}
  BY DEF FramesInv, Values
<1> QED BY <1>2, <1>3, <1>4, ZenonT(30) DEF TypeOK

(* As long as signals are timely, the frames of a process and those of the  *)
(* image are right.                                                         *)
THEOREM FramesRight == Spec /\ []Timely => []FramesInv
<1>1. Init => FramesInv
  BY FramesInit
<1>2. FramesInv /\ Timely /\ [Next]_vars => FramesInv'
  BY FramesNext
<1> QED BY <1>1, <1>2, PTL DEF Spec

(* No program crashes the interpreter, the checkpoint or the restore, as    *)
(* long as signals are timely.                                              *)
THEOREM NeverCrashes == Spec /\ []Timely => []NoCrash
<1>1. FramesInv => NoCrash
  BY DEF FramesInv, Values, NoCrash
<1> QED BY <1>1, FramesRight, PTL

(* As long as signals are timely every frame is registered, and nothing     *)
(* else is unless an invocation has failed.                                 *)
THEOREM FramesStayRegistered == Spec /\ []Timely => []FramesRegistered
BY RegisteredRight, FramesRight, PTL

(* As long as signals are timely no ip leaves the code of its function.     *)
THEOREM FramesTypes == Spec /\ []Timely => []TypeOK
BY TypesRight, FramesRight, PTL
-----------------------------------------------------------------------------
(* Settings in which every signal is timely, whatever the code: a process   *)
(* that may be interrupted makes one call, without results and callbacks,   *)
(* and SIGINT does not arrive before its first opcode.                      *)
Orderly ==
    /\ ~ AnyTime
    /\ \A s \in Settings : s.gens > 0 => ~ s.callbacks /\ ~ s.result /\ s.calls <= 1

(* Then nothing is stale while the one call of such a process is under way, *)
(* and a signal that is pending came when it had a frame.                   *)
OrderInv ==
    /\ gen \in Nat /\ calls \in Nat
    /\ sig_flag => setting.gens > 0
    /\ setting.gens > 0 =>
          /\ calls = 0 => phase = "run" /\ frames = <<>> /\ ~ sig_flag /\ ~ unwound
          /\ phase = "run" /\ frames # <<>> =>
                ~ unwound /\ (sig_flag => frames[Len(frames)].kind # "entry")

(* In orderly settings every signal is timely.                              *)
LEMMA OrderTimely == Orderly /\ FramesInv /\ OrderInv => Timely
<1> SUFFICES ASSUME Orderly, FramesInv, OrderInv, sig_flag, phase = "run", frames # <<>>
             PROVE  /\ ~ setting.callbacks /\ ~ setting.result
                    /\ ~ unwound /\ Top.kind # "entry"
  BY DEF Timely
<1>1. setting \in Settings /\ Top = frames[Len(frames)]
  BY Running DEF Top
<1>2. setting.gens > 0
  BY DEF OrderInv
<1>3. ~ unwound /\ frames[Len(frames)].kind # "entry"
  BY <1>2 DEF OrderInv
<1> QED BY <1>1, <1>2, <1>3 DEF Orderly

(* A step in an invocation.                                                 *)
LEMMA OrderHolds ==
    ASSUME OrderInv, phase = "run", frames # <<>>, gen' \in Nat, calls' = calls,
           sig_flag' = sig_flag, setting' = setting,
           phase' = "run" /\ frames' # <<>> =>
              unwound' = unwound /\ frames'[Len(frames')].kind # "entry"
    PROVE  OrderInv'
<1>1. /\ calls \in Nat /\ (sig_flag => setting.gens > 0)
      /\ setting.gens > 0 => calls # 0 /\ ~ unwound
  BY DEF OrderInv
<1>2. setting'.gens > 0 =>
          /\ calls' = 0 => phase' = "run" /\ frames' = <<>> /\ ~ sig_flag' /\ ~ unwound'
          /\ phase' = "run" /\ frames' # <<>> =>
                ~ unwound' /\ (sig_flag' => frames'[Len(frames')].kind # "entry")
  BY <1>1
<1> QED BY <1>1, <1>2 DEF OrderInv

(* Without callbacks an exception ends the outermost call.                  *)
LEMMA ExceptionEnds ==
    ASSUME FramesInv, frames # <<>>, ~ setting.callbacks, GotException(frames)
    PROVE  phase' # "run" \/ frames' = <<>>
<1>1. /\ frames \in Seq(FrameT) /\ Shaped(frames, setting.callbacks)
  BY Running DEF StackRight
<1>2. EntryOf(frames) = 1
  BY <1>1, EntryOnly
<1>3. CASE restored = 1
  BY <1>2, <1>3 DEF GotException, Leave
<1>4. CASE restored # 1
  <2>1. frames' = SubSeq(frames, 1, 1 - 1)
    BY <1>2, <1>4 DEF GotException, Leave
  <2>2. SubSeq(frames, 1, 1 - 1) = <<>>
    <3>1. 1 - 1 \in Nat /\ 1 - 1 <= Len(frames) /\ 1 - 1 = 0
      BY <1>1
    <3>2. SubSeq(frames, 1, 1 - 1) \in Seq(FrameT) /\ Len(SubSeq(frames, 1, 1 - 1)) = 0
      BY <1>1, <3>1, FrontIs
    <3> QED BY <3>2
  <2> QED BY <2>1, <2>2
<1> QED BY <1>3, <1>4

(* The innermost frame after a return.                                      *)
LEMMA ReturnTop ==
    ASSUME FramesInv, frames # <<>>, ~ setting.callbacks, End \/ NativeReturn,
           phase' = "run", frames' # <<>>
    PROVE  frames'[Len(frames')].kind # "entry"
<1>1. /\ frames \in Seq(FrameT) /\ Shaped(frames, setting.callbacks) /\ Len(frames) \in Nat
      /\ Len(frames) >= 1 /\ frames[1].kind = "entry" /\ Top = frames[Len(frames)]
      /\ Top \in FrameT
  BY Running DEF StackRight
<1> DEFINE below == Pop(frames)
           caller == below[Len(below)]
<1>2. Top.kind # "entry"
  BY DEF End, Executes, NativeReturn, At
<1>3. Len(frames) # 1
  BY <1>1, <1>2
<1>4. /\ below \in Seq(FrameT) /\ Len(below) = Len(frames) - 1 /\ below # <<>>
      /\ \A i \in 1 .. Len(frames) - 1 : below[i] = frames[i]
  <2>1. /\ below \in Seq(FrameT) /\ Len(below) = Len(frames) - 1
        /\ \A i \in 1 .. Len(frames) - 1 : below[i] = frames[i]
    BY <1>1, PopIs
  <2>2. Len(below) # 0
    BY <1>1, <1>3, <2>1
  <2> QED BY <2>1, <2>2
<1>5. caller \in FrameT /\ caller = frames[Len(frames) - 1]
  BY <1>1, <1>3, <1>4, PopIs
<1>6. CASE NativeReturn
  <2>1. frames' = below /\ Top.kind = "native"
    BY <1>6 DEF NativeReturn, At
  <2>2. Len(frames) - 1 \in 1 .. Len(frames) - 1 /\ (Len(frames) - 1) + 1 = Len(frames)
    BY <1>1, <1>3, Within, ZenonT(30)
  <2>3. caller.kind = "wasm"
    BY <1>1, <1>5, <2>1, <2>2, ZenonT(30) DEF Shaped
  <2> QED BY <2>1, <2>3
<1>7. CASE End
  <2> DEFINE res == IF setting.result THEN Top.val ELSE caller.val
             g == [caller EXCEPT !.val = res]
             s == SetTop(below, g)
             l == FreeInfo(Top.addr, infos)
  <2>1. res \in 0 .. MaxVal
    BY <1>1, <1>5, FrameFields
  <2>2. \/ frames' = s /\ caller.kind # "entry"
        \/ Leave(s, l) /\ caller.kind = "entry"
    BY <1>7 DEF End
  <2> HIDE DEF below, caller, res, l
  <2>3. g \in FrameT /\ g.kind = caller.kind
    BY <1>5, <2>1, FrameWith
  <2> HIDE DEF g
  <2>4. /\ s \in Seq(FrameT) /\ Len(s) = Len(below) /\ s # <<>> /\ s[Len(below)] = g
        /\ \A i \in 1 .. Len(below) - 1 : s[i] = below[i]
    <3>1. below \in Seq(FrameT) /\ below # <<>> /\ g \in FrameT
      BY <1>4, <2>3, ZenonT(30)
    <3> QED BY <3>1, SetTopIs
  <2> HIDE DEF s
  <2>5. CASE frames' = s /\ caller.kind # "entry"
    BY <2>3, <2>4, <2>5
  <2>6. CASE Leave(s, l) /\ caller.kind = "entry"
    <3>1. Len(frames) = 2
      <4>1. ASSUME Len(frames) # 2 PROVE FALSE
        <5>1. /\ Len(frames) - 2 \in 1 .. Len(frames) - 1
              /\ (Len(frames) - 2) + 1 = Len(frames) - 1
          BY <1>1, <1>3, <4>1, Within, ZenonT(30)
        <5> QED BY <1>1, <1>5, <2>6, <5>1, ZenonT(30) DEF Shaped
      <4> QED BY <4>1
    <3>2. Len(s) = 1 /\ s[1].kind = "entry"
      BY <1>4, <2>3, <2>4, <2>6, <3>1
    <3>3. EntryOf(s) = 1
      BY <2>4, <3>2, EntryTop, ZenonT(30)
    <3>4. CASE restored = 1
      BY <2>6, <3>3, <3>4 DEF Leave
    <3>5. CASE restored # 1
      <4>1. frames' = SubSeq(s, 1, 1 - 1)
        BY <2>6, <3>3, <3>5 DEF Leave
      <4>2. 1 - 1 \in Nat /\ 1 - 1 <= Len(s) /\ 1 - 1 = 0
        BY <3>2
      <4>3. SubSeq(s, 1, 1 - 1) \in Seq(FrameT) /\ Len(SubSeq(s, 1, 1 - 1)) = 0
        BY <2>4, <4>2, FrontIs
      <4> QED BY <4>1, <4>3
    <3> QED BY <3>4, <3>5
  <2> QED BY <2>2, <2>5, <2>6
<1> QED BY <1>6, <1>7

(* The innermost frame after an opcode, or after a step into a function.    *)
LEMMA ForwardTop ==
    ASSUME FramesInv, frames # <<>>, NEW f \in FrameT, f.kind # "entry",
           frames' = Append(frames, f) \/ frames' = SetTop(frames, f)
    PROVE  frames'[Len(frames')].kind # "entry"
<1>1. frames \in Seq(FrameT) /\ Len(frames) \in Nat
  BY Running
<1>2. /\ Len(Append(frames, f)) = Len(frames) + 1 /\ Append(frames, f)[Len(frames) + 1] = f
      /\ Len(SetTop(frames, f)) = Len(frames) /\ SetTop(frames, f)[Len(frames)] = f
  BY <1>1, AppendIs, SetTopIs
<1> QED BY <1>2

(* A step of an opcode, of the entry or of a return, with another innermost *)
(* frame or none.                                                           *)
LEMMA InvocationOrder ==
    ASSUME FramesInv, OrderInv, setting' = setting,
           \/ Enter /\ ~ sig_flag
           \/ Fetch \/ Plain \/ Branch \/ CallOp \/ CallNative \/ Trap
           \/ End \/ NativeReturn \/ NativeFail,
           setting.gens > 0 => ~ setting.callbacks
    PROVE  OrderInv'
<1>1. /\ phase = "run" /\ frames # <<>> /\ calls' = calls /\ sig_flag' = sig_flag
  BY DEF Enter, Fetch, Plain, Branch, CallOp, CallNative, Trap, End, NativeReturn, NativeFail,
         Executes, At
<1>2. gen' = gen
  BY DEF Enter, Fetch, Plain, Branch, CallOp, CallNative, Trap, End, NativeReturn, NativeFail,
         GotException, Leave, procVars
<1>3. gen \in Nat
  BY DEF OrderInv
<1>4. CASE ~ (setting.gens > 0)
  <2>1. calls \in Nat /\ ~ sig_flag
    BY <1>4 DEF OrderInv
  <2> QED BY <1>1, <1>2, <1>3, <1>4, <2>1 DEF OrderInv
<1>5. CASE setting.gens > 0
  <2>1. ~ setting.callbacks
    BY <1>5
  <2>2. CASE GotException(frames)
    BY <1>1, <1>2, <1>3, <2>1, <2>2, ExceptionEnds, OrderHolds
  <2>3. CASE (End \/ NativeReturn)
    <3>1. unwound' = unwound
      BY <2>3 DEF End, NativeReturn, failVars
    <3> QED BY <1>1, <1>2, <1>3, <2>1, <2>3, <3>1, ReturnTop, OrderHolds
  <2>4. ASSUME NEW f \in FrameT, f.kind # "entry",
               frames' = Append(frames, f) \/ frames' = SetTop(frames, f), unwound' = unwound
        PROVE  OrderInv'
    BY <1>1, <1>2, <1>3, <2>4, ForwardTop, OrderHolds
  <2>5. /\ frames \in Seq(FrameT) /\ exec_env \in Nat /\ Top \in FrameT
    BY <1>1, Running
  <2>6. ASSUME NEW kind \in {"wasm", "native"}, NEW fn \in DOMAIN Code, NEW ip \in Nat,
               NEW size \in Nat \ {0}, Alloc(frames, kind, fn, ip, size), unwound' = unwound
        PROVE  OrderInv'
    <3>1. Frame(frames, kind, fn, ip, size) \in FrameT
          /\ Frame(frames, kind, fn, ip, size).kind = kind
      BY <2>5, FrameIs
    <3>2. frames' = Append(frames, Frame(frames, kind, fn, ip, size))
      BY <2>6 DEF Alloc
    <3>3. kind # "entry"
      OBVIOUS
    <3> QED BY <2>4, <2>6, <3>1, <3>2, <3>3
  <2>7. CASE Enter /\ ~ sig_flag
    <3>1. Top.fn \in DOMAIN Code
      BY <2>5, FrameFields
    <3>2. FrameSize[Top.fn] \in Nat \ {0} /\ 1 \in Nat /\ "wasm" \in {"wasm", "native"}
      BY <3>1, CodeIs
    <3>3. \/ Alloc(frames, "wasm", Top.fn, 1, FrameSize[Top.fn]) /\ unwound' = unwound
          \/ GotException(frames)
      BY <2>7 DEF Enter, failVars
    <3> QED BY <2>2, <2>6, <3>1, <3>2, <3>3
  <2>8. CASE CallOp
    <3>1. /\ Top.fn \in DOMAIN Code /\ Top.ip - 1 \in 1 .. Len(Code[Top.fn])
          /\ Opcode.op = "call"
      BY <2>8, ExecutesIs, ZenonT(30) DEF CallOp
    <3>2. Opcode.fn \in DOMAIN Code
      BY <3>1, CodeIs DEF Opcode
    <3>3. FrameSize[Opcode.fn] \in Nat \ {0} /\ 1 \in Nat /\ "wasm" \in {"wasm", "native"}
      BY <3>2, CodeIs
    <3>4. \/ Alloc(frames, "wasm", Opcode.fn, 1, FrameSize[Opcode.fn]) /\ unwound' = unwound
          \/ GotException(frames)
      BY <2>8 DEF CallOp, failVars
    <3> QED BY <2>2, <2>6, <3>2, <3>3, <3>4
  <2>9. CASE CallNative
    <3>1. Top.fn \in DOMAIN Code
      BY <2>5, FrameFields
    <3>2. NativeSize \in Nat \ {0} /\ 0 \in Nat /\ "native" \in {"wasm", "native"}
      BY InterpAssumption
    <3>3. \/ Alloc(frames, "native", Top.fn, 0, NativeSize) /\ unwound' = unwound
          \/ GotException(frames)
      BY <2>9 DEF CallNative, failVars
    <3> QED BY <2>2, <2>6, <3>1, <3>2, <3>3
  <2>10. CASE Fetch \/ Plain \/ Branch
    <3>1. Top.kind = "wasm" /\ unwound' = unwound
      BY <2>10 DEF Fetch, Plain, Branch, Executes, At, failVars
    <3>2. /\ Top.ip \in Nat /\ Top.val \in 0 .. MaxVal /\ Top.fn \in DOMAIN Code
          /\ Top.ip + 1 \in Nat
      BY <2>5, FrameFields
    <3>3. CASE Fetch
      <4>1. frames' = SetTop(frames, [Top EXCEPT !.ip = Top.ip + 1])
        BY <3>3 DEF Fetch
      <4>2. /\ [Top EXCEPT !.ip = Top.ip + 1] \in FrameT
            /\ [Top EXCEPT !.ip = Top.ip + 1].kind = Top.kind
        BY <2>5, <3>2, FrameWith
      <4> QED BY <2>4, <3>1, <4>1, <4>2, ZenonT(30)
    <3>4. CASE Plain
      <4>1. frames' = SetTop(frames, [Top EXCEPT !.val = Bump(Top.val)])
        BY <3>4 DEF Plain
      <4>2. Bump(Top.val) \in 0 .. MaxVal
        BY <3>2, InterpAssumption DEF Bump
      <4>3. /\ [Top EXCEPT !.val = Bump(Top.val)] \in FrameT
            /\ [Top EXCEPT !.val = Bump(Top.val)].kind = Top.kind
        BY <2>5, <4>2, FrameWith
      <4> QED BY <2>4, <3>1, <4>1, <4>3, ZenonT(30)
    <3>5. CASE Branch
      <4>1. PICK t \in {Opcode.to, Top.ip} : frames' = SetTop(frames, [Top EXCEPT !.ip = t])
        BY <3>5 DEF Branch
      <4>2. Top.ip - 1 \in 1 .. Len(Code[Top.fn]) /\ Opcode.op = "br_if"
        BY <3>5, ExecutesIs, ZenonT(30) DEF Branch
      <4>3. Opcode.to \in Nat
        <5>1. Opcode.to \in 1 .. Len(Code[Top.fn]) /\ Len(Code[Top.fn]) \in Nat
          BY <3>2, <4>2, CodeIs DEF Opcode
        <5> QED BY <5>1
      <4>4. t \in Nat
        BY <3>2, <4>1, <4>3
      <4>5. [Top EXCEPT !.ip = t] \in FrameT /\ [Top EXCEPT !.ip = t].kind = Top.kind
        BY <2>5, <4>4, FrameWith
      <4> QED BY <2>4, <3>1, <4>1, <4>5, ZenonT(30)
    <3> QED BY <2>10, <3>3, <3>4, <3>5
  <2>11. CASE Trap \/ NativeFail
    <3>1. GotException(frames)
      BY <2>11 DEF Trap, NativeFail
    <3> QED BY <2>2, <3>1
  <2> QED BY <2>3, <2>7, <2>8, <2>9, <2>10, <2>11
<1> QED BY <1>4, <1>5
(* OrderInv is preserved.                                                   *)
LEMMA OrderNext == Orderly /\ FramesInv /\ OrderInv /\ [Next]_vars => OrderInv'
<1> SUFFICES ASSUME Orderly, FramesInv, OrderInv, [Next]_vars PROVE OrderInv'
  OBVIOUS
<1>1. /\ gen \in Nat /\ calls \in Nat /\ (sig_flag => setting.gens > 0)
      /\ setting.gens > 0 =>
            /\ calls = 0 => phase = "run" /\ frames = <<>> /\ ~ sig_flag /\ ~ unwound
            /\ phase = "run" /\ frames # <<>> =>
                  ~ unwound /\ (sig_flag => frames[Len(frames)].kind # "entry")
  BY DEF OrderInv
<1>2. setting \in Settings /\ Top = frames[Len(frames)]
  BY Running DEF Top
<1>3. /\ setting.gens \in Nat /\ setting.calls \in Nat
      /\ setting.gens > 0 => ~ setting.callbacks /\ ~ setting.result /\ setting.calls <= 1
  BY <1>2, SettingIs DEF Orderly
<1>4. CASE UNCHANGED vars
  BY <1>1, <1>4 DEF vars, OrderInv
<1>5. CASE Signal /\ setting' = setting
  <2>1. /\ gen < setting.gens /\ calls > 0 /\ frames # <<>> /\ Top.kind # "entry"
        /\ phase = "run" /\ sig_flag' = TRUE
        /\ frames' = frames /\ unwound' = unwound /\ phase' = phase /\ gen' = gen /\ calls' = calls
    BY <1>5 DEF Signal, Orderly, procVars, failVars
  <2>2. setting.gens > 0 /\ calls # 0
    BY <1>1, <1>3, <2>1
  <2> QED BY <1>1, <1>2, <1>5, <2>1, <2>2 DEF OrderInv
<1>6. ASSUME NEW f \in DOMAIN Code, CallWasm(f), setting' = setting PROVE OrderInv'
  <2>1. /\ \/ frames = <<>> /\ calls < setting.calls /\ calls' = calls + 1
           \/ setting.callbacks /\ calls' = calls
        /\ unwound' = unwound /\ sig_flag' = sig_flag /\ gen' = gen /\ phase' = phase
    BY <1>6 DEF CallWasm, procVars
  <2>2. calls' \in Nat
    BY <1>1, <2>1
  <2>3. setting.gens > 0 => calls = 0 /\ calls' = 1
    BY <1>1, <1>3, <2>1
  <2>4. setting.gens > 0 => ~ sig_flag /\ ~ unwound /\ calls' # 0
    BY <1>1, <2>3
  <2> QED BY <1>1, <1>6, <2>1, <2>2, <2>4 DEF OrderInv
<1>7. CASE /\ \/ Enter \/ Fetch \/ Plain \/ Branch \/ CallOp \/ CallNative \/ Trap
              \/ End \/ NativeReturn \/ NativeFail
           /\ setting' = setting
  <2>1. Enter => ~ sig_flag
    BY <1>1, <1>2 DEF Enter, At
  <2> QED BY <1>3, <1>7, <2>1, InvocationOrder
<1>8. CASE Checkpoint /\ setting' = setting
  <2>1. /\ frames # <<>> /\ phase = "run" /\ phase' = "down" /\ gen' = gen + 1
        /\ calls' = calls /\ sig_flag' = sig_flag
    BY <1>8 DEF Checkpoint, At
  <2>2. gen' \in Nat /\ (setting.gens > 0 => calls # 0)
    BY <1>1, <2>1
  <2> QED BY <1>1, <1>8, <2>1, <2>2 DEF OrderInv
<1>9. ASSUME NEW env \in Envs, Restore(env), setting' = setting PROVE OrderInv'
  <2>1. /\ phase = "down" /\ sig_flag' = FALSE /\ unwound' = FALSE /\ gen' = gen /\ calls' = calls
    BY <1>9 DEF Restore
  <2>2. setting.gens > 0 => calls # 0
    BY <1>1, <2>1
  <2> QED BY <1>1, <1>9, <2>1, <2>2 DEF OrderInv
<1> QED
  BY <1>4, <1>5, <1>6, <1>7, <1>8, <1>9, ZenonT(30) DEF Next, Step

(* In orderly settings no program crashes the interpreter, the checkpoint   *)
(* or the restore, whenever SIGINT arrives after the first opcode and       *)
(* however often the process is restored, and the registry is right: no     *)
(* step that End, Leave or Restore take for granted fails.                  *)
THEOREM OrderlyRuns ==
    ASSUME Orderly
    PROVE  Spec => [](NoCrash /\ FramesRegistered /\ TypeOK)
<1>1. Init => FramesInv /\ OrderInv
  <2>1. Init => OrderInv
    BY DEF Init, OrderInv
  <2> QED BY <2>1, FramesInit
<1>2. FramesInv /\ OrderInv /\ [Next]_vars => (FramesInv /\ OrderInv)'
  BY OrderTimely, FramesNext, OrderNext
<1>3. FramesInv => NoCrash /\ FramesRegistered /\ TypeOK
  BY RegisteredRight, TypesRight DEF FramesInv, Values, NoCrash
<1> QED BY <1>1, <1>2, <1>3, PTL DEF Spec
-----------------------------------------------------------------------------
(* The refinement.  The frames fs as WasmCalls has them; p: the innermost   *)
(* one has fetched an opcode.                                               *)
See(fs, p) ==
    [i \in 1 .. Len(fs) |->
        [kind |-> fs[i].kind, fn |-> fs[i].fn, val |-> fs[i].val,
         ip |-> IF i = Len(fs) /\ p THEN fs[i].ip - 1 ELSE fs[i].ip]]

(* A frame as WasmCalls sees it; b: it has fetched an opcode.               *)
View(f, b) == [kind |-> f.kind, fn |-> f.fn, val |-> f.val,
               ip |-> IF b THEN f.ip - 1 ELSE f.ip]

ViewT == [kind : {"entry", "wasm", "native"}, fn : DOMAIN Code, val : 0 .. MaxVal, ip : Int]

(* A record with the fields of a frame of WasmCalls.                        *)
LEMMA ViewMade ==
    ASSUME NEW k \in {"entry", "wasm", "native"}, NEW fn \in DOMAIN Code, NEW v \in 0 .. MaxVal,
           NEW ip \in Int
    PROVE  [kind |-> k, fn |-> fn, val |-> v, ip |-> ip] \in ViewT
BY ZenonT(30) DEF ViewT

(* The fields of a frame of WasmCalls.                                      *)
LEMMA ViewIs ==
    ASSUME NEW f \in FrameT, NEW b \in BOOLEAN
    PROVE  /\ View(f, b) \in ViewT /\ View(f, b).kind = f.kind /\ View(f, b).fn = f.fn
           /\ View(f, b).val = f.val /\ View(f, b).ip = IF b THEN f.ip - 1 ELSE f.ip
<1>1. /\ f.kind \in {"entry", "wasm", "native"} /\ f.fn \in DOMAIN Code
      /\ f.val \in 0 .. MaxVal /\ f.ip \in Nat
  BY FrameFields
<1> DEFINE j == IF b THEN f.ip - 1 ELSE f.ip
<1>2. j \in Int
  BY <1>1
<1>3. View(f, b) = [kind |-> f.kind, fn |-> f.fn, val |-> f.val, ip |-> j]
  BY ZenonT(30) DEF View
<1> HIDE DEF j
<1>4. View(f, b) \in ViewT
  BY <1>1, <1>2, <1>3, ViewMade, ZenonT(30)
<1>5. /\ View(f, b).kind = f.kind /\ View(f, b).fn = f.fn
      /\ View(f, b).val = f.val /\ View(f, b).ip = j
  BY <1>3, SMTT(30)
<1> QED BY <1>4, <1>5 DEF j

(* The frames one by one.                                                   *)
LEMMA SeeIs ==
    ASSUME NEW fs \in Seq(FrameT), NEW p \in BOOLEAN
    PROVE  /\ See(fs, p) \in Seq(ViewT) /\ Len(See(fs, p)) = Len(fs) /\ Len(fs) \in Nat
           /\ \A i \in 1 .. Len(fs) : i # Len(fs) => See(fs, p)[i] = View(fs[i], FALSE)
           /\ fs # <<>> => See(fs, p)[Len(fs)] = View(fs[Len(fs)], p)
           /\ See(fs, p) = <<>> <=> fs = <<>>
<1> DEFINE n == Len(fs)
<1>1. n \in Nat
  OBVIOUS
<1>2. ASSUME NEW i \in 1 .. n
      PROVE  /\ See(fs, p)[i] \in ViewT
             /\ i # n => See(fs, p)[i] = View(fs[i], FALSE)
             /\ i = n => See(fs, p)[i] = View(fs[i], p)
  <2>1. PICK b \in BOOLEAN : b = (i = n /\ p)
    BY ZenonT(30)
  <2>2. See(fs, p)[i] = View(fs[i], i = n /\ p)
    BY ZenonT(30) DEF See, View
  <2>3. See(fs, p)[i] = View(fs[i], b)
    BY <2>1, <2>2, ZenonT(30)
  <2>4. fs[i] \in FrameT
    OBVIOUS
  <2>5. i # n => b = FALSE
    BY <2>1, ZenonT(30)
  <2>6. i = n => b = p
    BY <2>1, ZenonT(30)
  <2> QED BY <2>3, <2>4, <2>5, <2>6, ViewIs, ZenonT(30)
<1>3. See(fs, p) \in Seq(ViewT) /\ Len(See(fs, p)) = n
  <2>1. See(fs, p) = [i \in 1 .. n |-> See(fs, p)[i]]
    BY DEF See
  <2>2. See(fs, p) \in [1 .. n -> ViewT]
    BY <1>2, <2>1, ZenonT(30)
  <2> QED BY <1>1, <2>2
<1>4. fs # <<>> => n \in 1 .. n
  BY PopIs
<1>5. n = 0 <=> fs = <<>>
  OBVIOUS
<1>6. Len(See(fs, p)) = 0 <=> See(fs, p) = <<>>
  BY <1>3
<1> QED BY <1>1, <1>2, <1>3, <1>4, <1>5, <1>6, ZenonT(30)

(* Sequences with the same members.                                         *)
LEMMA SameSeq ==
    ASSUME NEW T, NEW s \in Seq(T), NEW t \in Seq(T), Len(s) = Len(t),
           \A i \in 1 .. Len(s) : s[i] = t[i]
    PROVE  s = t
OBVIOUS

(* A new frame.                                                             *)
LEMMA SeePush ==
    ASSUME NEW fs \in Seq(FrameT), NEW f \in FrameT
    PROVE  See(Append(fs, f), FALSE) = Append(See(fs, FALSE), View(f, FALSE))
<1> DEFINE s == See(Append(fs, f), FALSE)
           c == See(fs, FALSE)
           t == Append(c, View(f, FALSE))
           n == Len(fs)
<1>1. FALSE \in BOOLEAN /\ View(f, FALSE) \in ViewT
  BY ViewIs, ZenonT(30)
<1>2. /\ Append(fs, f) \in Seq(FrameT) /\ Len(Append(fs, f)) = n + 1 /\ Append(fs, f) # <<>>
      /\ Append(fs, f)[n + 1] = f /\ \A i \in 1 .. n : Append(fs, f)[i] = fs[i]
  BY AppendIs
<1>3. /\ s \in Seq(ViewT) /\ Len(s) = n + 1 /\ s[n + 1] = View(f, FALSE)
      /\ \A i \in 1 .. n + 1 : i # n + 1 => s[i] = View(Append(fs, f)[i], FALSE)
  BY <1>1, <1>2, SeeIs, ZenonT(30)
<1>4. /\ c \in Seq(ViewT) /\ Len(c) = n /\ n \in Nat
      /\ \A i \in 1 .. n : i # n => c[i] = View(fs[i], FALSE)
      /\ fs # <<>> => c[n] = View(fs[n], FALSE)
  BY <1>1, SeeIs, ZenonT(30)
<1> HIDE DEF s, c
<1>5. /\ t \in Seq(ViewT) /\ Len(t) = n + 1 /\ t[n + 1] = View(f, FALSE)
      /\ \A i \in 1 .. n : t[i] = c[i]
  <2>1. PICK v \in ViewT : v = View(f, FALSE)
    BY <1>1, ZenonT(30)
  <2>2. /\ Append(c, v) \in Seq(ViewT) /\ Len(Append(c, v)) = Len(c) + 1
        /\ Append(c, v)[Len(c) + 1] = v /\ \A i \in 1 .. Len(c) : Append(c, v)[i] = c[i]
    <3>1. c \in Seq(ViewT)
      BY <1>4, ZenonT(30)
    <3> QED BY <3>1, AppendIs
  <2>3. Len(c) = n
    BY <1>4, ZenonT(30)
  <2> QED BY <2>1, <2>2, <2>3, ZenonT(30)
<1> HIDE DEF t
<1>6. ASSUME NEW i \in 1 .. n + 1 PROVE s[i] = t[i]
  <2>1. CASE i = n + 1
    BY <1>3, <1>5, <2>1, ZenonT(30)
  <2>2. CASE i # n + 1
    <3>1. i \in 1 .. n /\ fs # <<>>
      BY <1>4, <2>2
    <3>2. s[i] = View(fs[i], FALSE)
      BY <1>2, <1>3, <2>2, <3>1, ZenonT(30)
    <3>3. c[i] = View(fs[i], FALSE)
      BY <1>4, <3>1, ZenonT(30)
    <3> QED BY <1>5, <3>1, <3>2, <3>3, ZenonT(30)
  <2> QED BY <2>1, <2>2
<1> QED BY <1>3, <1>5, <1>6, SameSeq, ZenonT(30) DEF s, t, c

(* Another innermost frame.                                                 *)
LEMMA SeeTop ==
    ASSUME NEW fs \in Seq(FrameT), fs # <<>>, NEW f \in FrameT, NEW p \in BOOLEAN, NEW q \in BOOLEAN
    PROVE  See(SetTop(fs, f), q) = SetTop(See(fs, p), View(f, q))
<1> DEFINE g == SetTop(fs, f)
           s == See(g, q)
           c == See(fs, p)
           t == SetTop(c, View(f, q))
           n == Len(fs)
<1>1. View(f, q) \in ViewT /\ n \in Nat /\ n >= 1
  BY ViewIs, PopIs
<1>2. /\ g \in Seq(FrameT) /\ Len(g) = n /\ g # <<>>
      /\ g[n] = f /\ \A i \in 1 .. n - 1 : g[i] = fs[i]
  BY SetTopIs
<1> HIDE DEF g
<1>3. /\ s \in Seq(ViewT) /\ Len(s) = n /\ s[n] = View(f, q)
      /\ \A i \in 1 .. n : i # n => s[i] = View(g[i], FALSE)
  BY <1>2, SeeIs, ZenonT(30)
<1>4. /\ c \in Seq(ViewT) /\ Len(c) = n /\ c # <<>>
      /\ \A i \in 1 .. n : i # n => c[i] = View(fs[i], FALSE)
  BY SeeIs, ZenonT(30)
<1> HIDE DEF s, c
<1>5. /\ t \in Seq(ViewT) /\ Len(t) = n /\ t[n] = View(f, q)
      /\ \A i \in 1 .. n - 1 : t[i] = c[i]
  <2>1. PICK v \in ViewT : v = View(f, q)
    BY <1>1, ZenonT(30)
  <2>2. /\ SetTop(c, v) \in Seq(ViewT) /\ Len(SetTop(c, v)) = Len(c)
        /\ SetTop(c, v)[Len(c)] = v /\ \A i \in 1 .. Len(c) - 1 : SetTop(c, v)[i] = c[i]
    <3>1. c \in Seq(ViewT) /\ c # <<>>
      BY <1>4, ZenonT(30)
    <3> QED BY <3>1, SetTopIs
  <2>3. Len(c) = n
    BY <1>4, ZenonT(30)
  <2> QED BY <2>1, <2>2, <2>3, ZenonT(30)
<1> HIDE DEF t
<1>6. ASSUME NEW i \in 1 .. n PROVE s[i] = t[i]
  <2>1. CASE i = n
    BY <1>3, <1>5, <2>1
  <2>2. CASE i # n
    <3>1. i \in 1 .. n - 1
      BY <1>1, <2>2
    <3> QED BY <1>2, <1>3, <1>4, <1>5, <2>2, <3>1, ZenonT(30)
  <2> QED BY <2>1, <2>2
<1> QED BY <1>3, <1>5, <1>6, SameSeq DEF g, s, c, t

(* The frames below.                                                        *)
LEMMA SeeFront ==
    ASSUME NEW fs \in Seq(FrameT), NEW p \in BOOLEAN, NEW n \in Nat, n < Len(fs)
    PROVE  See(SubSeq(fs, 1, n), FALSE) = SubSeq(See(fs, p), 1, n)
<1> DEFINE g == SubSeq(fs, 1, n)
           s == See(g, FALSE)
           c == See(fs, p)
           t == SubSeq(c, 1, n)
<1>1. FALSE \in BOOLEAN /\ n <= Len(fs) /\ Len(fs) \in Nat
  OBVIOUS
<1>2. g \in Seq(FrameT) /\ Len(g) = n /\ \A i \in 1 .. n : g[i] = fs[i]
  BY <1>1, FrontIs
<1> HIDE DEF g
<1>3. /\ s \in Seq(ViewT) /\ Len(s) = n
      /\ \A i \in 1 .. n : i # n => s[i] = View(g[i], FALSE)
      /\ g # <<>> => s[n] = View(g[n], FALSE)
  BY <1>1, <1>2, SeeIs, ZenonT(30)
<1>4. /\ c \in Seq(ViewT) /\ Len(c) = Len(fs)
      /\ \A i \in 1 .. Len(fs) : i # Len(fs) => c[i] = View(fs[i], FALSE)
  BY SeeIs, ZenonT(30)
<1> HIDE DEF s, c
<1>5. t \in Seq(ViewT) /\ Len(t) = n /\ \A i \in 1 .. n : t[i] = c[i]
  BY <1>1, <1>4, FrontIs
<1> HIDE DEF t
<1>6. ASSUME NEW i \in 1 .. n PROVE s[i] = t[i]
  <2>1. g # <<>>
    BY <1>2
  <2>2. s[i] = View(g[i], FALSE)
    BY <1>3, <2>1, ZenonT(30)
  <2>3. i \in 1 .. Len(fs) /\ i # Len(fs)
    BY <1>1
  <2> QED BY <1>2, <1>4, <1>5, <2>2, <2>3, ZenonT(30)
<1> QED BY <1>3, <1>5, <1>6, SameSeq, ZenonT(30) DEF g, s, c, t

(* A fetch is not seen.                                                     *)
LEMMA SeeFetched ==
    ASSUME NEW fs \in Seq(FrameT), fs # <<>>, NEW f \in FrameT,
           f = [fs[Len(fs)] EXCEPT !.ip = fs[Len(fs)].ip + 1]
    PROVE  See(SetTop(fs, f), TRUE) = See(fs, FALSE)
<1> DEFINE g == SetTop(fs, f)
           s == See(g, TRUE)
           c == See(fs, FALSE)
           n == Len(fs)
<1>1. TRUE \in BOOLEAN /\ FALSE \in BOOLEAN /\ n \in Nat /\ n >= 1 /\ fs[n] \in FrameT
  BY PopIs
<1>2. /\ g \in Seq(FrameT) /\ Len(g) = n /\ g # <<>>
      /\ g[n] = f /\ \A i \in 1 .. n - 1 : g[i] = fs[i]
  <2>1. g \in Seq(FrameT) /\ Len(g) = n
    BY SetTopIs, ZenonT(30)
  <2>2. g # <<>> /\ g[n] = f
    <3>1. \A h \in FrameT : SetTop(fs, h) # <<>> /\ SetTop(fs, h)[n] = h
      BY SetTopIs, ZenonT(30)
    <3> QED BY <3>1, ZenonT(30)
  <2>3. \A i \in 1 .. n - 1 : g[i] = fs[i]
    BY SetTopIs, ZenonT(30)
  <2> QED BY <2>1, <2>2, <2>3, ZenonT(30)
<1> HIDE DEF g
<1>3. /\ s \in Seq(ViewT) /\ Len(s) = n /\ s[n] = View(f, TRUE)
      /\ \A i \in 1 .. n : i # n => s[i] = View(g[i], FALSE)
  BY <1>1, <1>2, SeeIs, ZenonT(30)
<1>4. /\ c \in Seq(ViewT) /\ Len(c) = n /\ c[n] = View(fs[n], FALSE)
      /\ \A i \in 1 .. n : i # n => c[i] = View(fs[i], FALSE)
  BY <1>1, SeeIs, ZenonT(30)
<1>5. View(f, TRUE) = View(fs[n], FALSE)
  <2>1. fs[n].ip \in Nat
    BY <1>1, FrameFields
  <2>2. /\ f.kind = fs[n].kind /\ f.fn = fs[n].fn /\ f.val = fs[n].val
        /\ f.ip = fs[n].ip + 1
    BY <1>1, <2>1, FrameWith
  <2>3. (fs[n].ip + 1) - 1 = fs[n].ip
    BY <2>1
  <2> QED BY <2>2, <2>3 DEF View
<1> HIDE DEF s, c
<1>6. ASSUME NEW i \in 1 .. n PROVE s[i] = c[i]
  <2>1. CASE i = n
    BY <1>3, <1>4, <1>5, <2>1, ZenonT(30)
  <2>2. CASE i # n
    <3>1. i \in 1 .. n - 1
      BY <1>1, <2>2
    <3> QED BY <1>2, <1>3, <1>4, <2>2, <3>1, ZenonT(30)
  <2> QED BY <2>1, <2>2
<1> QED BY <1>3, <1>4, <1>6, SameSeq, ZenonT(30) DEF g, s, c

(* The stack of a running process, and of one that is down.                 *)
LEMMA SeenRun ==
    /\ phase = "run" => SeenStack = See(frames, pending)
    /\ phase' = "run" => SeenStack' = See(frames', pending')
    /\ phase = "over" => SeenStack = <<>>
    /\ phase' = "over" => SeenStack' = <<>>
    /\ phase = "down" => SeenStack = SeenImage
    /\ phase' = "down" => SeenStack' = SeenImage'
<1>1. phase = "run" => SeenStack = See(frames, pending)
  BY DEF SeenStack, Seen, See
<1>2. phase' = "run" => SeenStack' = See(frames', pending')
  BY DEF SeenStack, Seen, See
<1> QED BY <1>1, <1>2 DEF SeenStack

(* The frames in an image.                                                  *)
SeeImage(img) ==
    LET l == Ascending(img.records)
    IN  [i \in 1 .. Len(l) |->
            IF i = Len(l) THEN [l[i].body EXCEPT !.ip = @ - 1] ELSE l[i].body]

(* The frames in an image are those it was written from.                    *)
LEMMA SeeImageIs ==
    ASSUME NEW img, NEW fs \in Seq(FrameT), NEW env, NEW room, ImageOf(img, fs, env, room)
    PROVE  SeeImage(img) = See(fs, TRUE)
<1> DEFINE n == Len(fs)
           l == Ascending(img.records)
<1>1. n \in Nat /\ l = [i \in 1 .. n |-> RecordOf(fs[i])]
  BY DEF ImageOf
<1>2. SeeImage(img) = [i \in 1 .. Len(l) |->
            IF i = Len(l) THEN [l[i].body EXCEPT !.ip = l[i].body.ip - 1] ELSE l[i].body]
  BY DEF SeeImage
<1> HIDE DEF l
<1>3. Len(l) = n /\ \A i \in 1 .. n : l[i] = RecordOf(fs[i])
  BY <1>1
<1>4. ASSUME NEW i \in 1 .. n
      PROVE  (IF i = n THEN [l[i].body EXCEPT !.ip = l[i].body.ip - 1] ELSE l[i].body)
             = [kind |-> fs[i].kind, fn |-> fs[i].fn, val |-> fs[i].val,
                ip |-> IF i = n /\ TRUE THEN fs[i].ip - 1 ELSE fs[i].ip]
  <2>1. l[i].body = [kind |-> fs[i].kind, fn |-> fs[i].fn, ip |-> fs[i].ip, val |-> fs[i].val]
    <3>1. RecordOf(fs[i]).body
             = [kind |-> fs[i].kind, fn |-> fs[i].fn, ip |-> fs[i].ip, val |-> fs[i].val]
      BY SMTT(30) DEF RecordOf
    <3> QED BY <1>3, <3>1, ZenonT(30)
  <2> QED BY <2>1, SMTT(30)
<1> QED BY <1>2, <1>3, <1>4, ZenonT(30) DEF See
-----------------------------------------------------------------------------
(* The steps of the refinement.                                             *)
LEMMA CallWasmCalls ==
    ASSUME FramesInv, NEW f \in DOMAIN Code, CallWasm(f)
    PROVE  SeenStack' = SeenStack \/ Calls!Start(f)
<1>1. /\ phase = "run" /\ phase' = "run" /\ pending' = pending
      /\ frames = <<>> \/ (setting.callbacks /\ frames # <<>> /\ Top.kind = "native")
  BY DEF CallWasm, procVars
<1>2. pending = FALSE /\ frames \in Seq(FrameT) /\ exec_env \in Nat /\ FALSE \in BOOLEAN
  BY <1>1, NotFetched, Running, ZenonT(30)
<1>3. SeenStack = See(frames, FALSE) /\ SeenStack' = See(frames', FALSE)
  BY <1>1, <1>2, SeenRun, ZenonT(30)
<1>4. CASE ~ HasRoom(frames, EntrySize)
  BY <1>3, <1>4 DEF CallWasm
<1>5. CASE HasRoom(frames, EntrySize)
  <2> DEFINE g == Frame(frames, "entry", f, 0, EntrySize)
  <2>1. EntrySize \in Nat \ {0} /\ "entry" \in {"entry", "wasm", "native"} /\ 0 \in Nat
    BY InterpAssumption
  <2>2. frames' = Append(frames, g)
    BY <1>5 DEF CallWasm, Alloc
  <2>3. g \in FrameT /\ g.kind = "entry" /\ g.fn = f /\ g.ip = 0 /\ g.val = 0
    BY <1>2, <2>1, FrameIs
  <2> HIDE DEF g
  <2>4. SeenStack' = Append(SeenStack, View(g, FALSE))
    BY <1>2, <1>3, <2>2, <2>3, SeePush, ZenonT(30)
  <2>5. View(g, FALSE) = Calls!Frame("entry", f, 0, 0)
    BY <2>3, SMTT(30) DEF View, Calls!Frame
  <2>6. SeenStack = <<>> \/ (setting.callbacks /\ Calls!Top.kind = "native")
    <3>1. frames = <<>> => SeenStack = <<>>
      BY <1>2, <1>3, SeeIs, ZenonT(30)
    <3>2. frames # <<>> => Calls!Top.kind = Top.kind
      <4> SUFFICES ASSUME frames # <<>> PROVE Calls!Top.kind = Top.kind
        OBVIOUS
      <4>1. SeenStack[Len(SeenStack)] = View(frames[Len(frames)], FALSE)
        BY <1>2, <1>3, SeeIs, ZenonT(30)
      <4>2. frames[Len(frames)] \in FrameT
        BY <1>2, PopIs
      <4> QED BY <4>1, <4>2, <1>2, ViewIs, ZenonT(30) DEF Calls!Top, Top
    <3> QED BY <1>1, <3>1, <3>2
  <2> QED BY <2>4, <2>5, <2>6, ZenonT(30) DEF Calls!Start
<1> QED BY <1>4, <1>5

(* The innermost frame as WasmCalls has it.                                 *)
LEMMA TopSeen ==
    ASSUME FramesInv, phase = "run", frames # <<>>
    PROVE  /\ SeenStack # <<>> /\ SeenStack = See(frames, pending)
           /\ Len(SeenStack) = Len(frames) /\ SeenStack \in Seq(ViewT)
           /\ Calls!Top = SeenStack[Len(SeenStack)]
           /\ Calls!Top = View(Top, pending) /\ Calls!Top.kind = Top.kind
           /\ Calls!Top.fn = Top.fn /\ Calls!Top.val = Top.val
           /\ Calls!Top.ip = IF pending THEN Top.ip - 1 ELSE Top.ip
           /\ pending => Calls!Opcode = Opcode
<1>1. /\ frames \in Seq(FrameT) /\ pending \in BOOLEAN /\ Top \in FrameT
      /\ Top = frames[Len(frames)]
  BY Running
<1>2. SeenStack = See(frames, pending)
  BY SeenRun
<1>3. /\ SeenStack # <<>> /\ Len(SeenStack) = Len(frames) /\ SeenStack \in Seq(ViewT)
      /\ SeenStack[Len(SeenStack)] = View(Top, pending)
  BY <1>1, <1>2, SeeIs, ZenonT(30)
<1>4. Calls!Top = SeenStack[Len(SeenStack)]
  BY DEF Calls!Top
<1>5. /\ View(Top, pending).kind = Top.kind /\ View(Top, pending).fn = Top.fn
      /\ View(Top, pending).val = Top.val
      /\ View(Top, pending).ip = IF pending THEN Top.ip - 1 ELSE Top.ip
  BY <1>1, ViewIs
<1>6. pending => Calls!Opcode = Opcode
  BY <1>3, <1>4, <1>5 DEF Calls!Opcode, Opcode
<1> QED BY <1>2, <1>3, <1>4, <1>5, <1>6

(* An allocation as a step.                                                 *)
LEMMA AllocSeen ==
    ASSUME FramesInv, NEW kind \in {"entry", "wasm", "native"}, NEW fn \in DOMAIN Code,
           NEW ip \in Nat, NEW size \in Nat \ {0}, Alloc(frames, kind, fn, ip, size),
           phase' = "run", pending' = FALSE
    PROVE  SeenStack' = Append(See(frames, FALSE), Calls!Frame(kind, fn, ip, 0))
<1> DEFINE g == Frame(frames, kind, fn, ip, size)
<1>1. frames \in Seq(FrameT) /\ exec_env \in Nat
  BY Running
<1>2. frames' = Append(frames, g)
  BY DEF Alloc
<1>3. g \in FrameT /\ g.kind = kind /\ g.fn = fn /\ g.ip = ip /\ g.val = 0
  BY <1>1, FrameIs
<1> HIDE DEF g
<1>4. SeenStack' = See(frames', FALSE)
  BY SeenRun, ZenonT(30)
<1>5. See(Append(frames, g), FALSE) = Append(See(frames, FALSE), View(g, FALSE))
  BY <1>1, <1>3, SeePush, ZenonT(30)
<1>6. View(g, FALSE) = Calls!Frame(kind, fn, ip, 0)
  BY <1>3, SMTT(30) DEF View, Calls!Frame
<1> QED BY <1>2, <1>4, <1>5, <1>6, ZenonT(30)

(* An exception as a step: the invocation fails.                            *)
LEMMA ExceptionCalls ==
    ASSUME FramesInv, phase = "run", frames # <<>>, GotException(frames), pending' = FALSE,
           setting.fail, FramesInv'
    PROVE  Calls!Fail
<1> DEFINE e == EntryOf(frames)
<1>1. /\ frames \in Seq(FrameT) /\ pending \in BOOLEAN /\ frames[1].kind = "entry"
      /\ Len(frames) \in Nat /\ restored \in {0, 1}
  BY Running
<1>2. /\ e \in 1 .. Len(frames) /\ frames[e].kind = "entry"
      /\ \A j \in e + 1 .. Len(frames) : frames[j].kind # "entry"
      /\ \A i \in 1 .. Len(frames) :
            frames[i].kind = "entry" /\ (\A j \in i + 1 .. Len(frames) : frames[j].kind # "entry")
               => i = e
  BY <1>1, EntryIs
<1>3. /\ SeenStack # <<>> /\ SeenStack = See(frames, pending) /\ SeenStack \in Seq(ViewT)
      /\ Len(SeenStack) = Len(frames)
  BY TopSeen
<1>4. \A i \in 1 .. Len(frames) : SeenStack[i].kind = frames[i].kind
  <2> SUFFICES ASSUME NEW i \in 1 .. Len(frames) PROVE SeenStack[i].kind = frames[i].kind
    OBVIOUS
  <2>1. frames[i] \in FrameT /\ FALSE \in BOOLEAN
    BY <1>1
  <2>2. SeenStack[i] = View(frames[i], FALSE) \/ SeenStack[i] = View(frames[i], pending)
    BY <1>1, <1>3, SeeIs, ZenonT(30)
  <2> QED BY <1>1, <2>1, <2>2, ViewIs, ZenonT(30)
<1> HIDE DEF e
<1>5. Calls!EntryOf(SeenStack) = e
  <2> DEFINE P(i) == /\ SeenStack[i].kind = "entry"
                     /\ \A j \in i + 1 .. Len(SeenStack) : SeenStack[j].kind # "entry"
             c == CHOOSE i \in 1 .. Len(SeenStack) : P(i)
  <2>1. Calls!EntryOf(SeenStack) = c
    BY DEF Calls!EntryOf
  <2>2. \A i \in 1 .. Len(frames) : \A j \in i + 1 .. Len(frames) : j \in 1 .. Len(frames)
    BY <1>1
  <2>3. e \in 1 .. Len(SeenStack) /\ P(e)
    BY <1>2, <1>3, <1>4, <2>2
  <2>4. c \in 1 .. Len(SeenStack) /\ P(c)
    <3> HIDE DEF P
    <3> QED BY <2>3, ZenonT(30)
  <2> HIDE DEF c
  <2>5. c \in 1 .. Len(frames) /\ frames[c].kind = "entry"
        /\ \A j \in c + 1 .. Len(frames) : frames[j].kind # "entry"
    BY <1>3, <1>4, <2>2, <2>4
  <2> QED BY <1>2, <2>1, <2>5
<1>6. e - 1 \in Nat /\ e - 1 < Len(frames)
  BY <1>1, <1>2
<1>7. See(SubSeq(frames, 1, e - 1), FALSE) = SubSeq(SeenStack, 1, e - 1)
  BY <1>1, <1>3, <1>6, SeeFront, ZenonT(30)
<1>8. SeenStack' = SubSeq(SeenStack, 1, e - 1)
  <2>1. phase' # "crashed" /\ Leave(frames, infos)
    BY DEF FramesInv, Values, GotException
  <2>2. CASE e = restored
    <3>1. phase' = "over" /\ e = 1
      BY <1>1, <1>2, <2>1, <2>2 DEF Leave, e
    <3>2. SeenStack' = <<>>
      BY <3>1, SeenRun
    <3>3. 0 \in Nat /\ 0 <= Len(SeenStack) /\ e - 1 = 0
      BY <1>1, <1>3, <3>1
    <3>4. SubSeq(SeenStack, 1, 0) \in Seq(ViewT) /\ Len(SubSeq(SeenStack, 1, 0)) = 0
      BY <1>3, <3>3, FrontIs
    <3>5. SubSeq(SeenStack, 1, 0) = <<>>
      BY <3>4
    <3> QED BY <3>2, <3>3, <3>5
  <2>3. CASE e # restored
    <3>1. phase' = "run" /\ frames' = SubSeq(frames, 1, e - 1)
      BY <2>1, <2>3 DEF Leave, e
    <3>2. SeenStack' = See(frames', pending')
      BY <3>1, SeenRun
    <3> QED BY <1>7, <3>1, <3>2, ZenonT(30)
  <2> QED BY <2>2, <2>3
<1> QED BY <1>3, <1>5, <1>8 DEF Calls!Fail

(* The first iteration of the loop implements Enter of WasmCalls, or a      *)
(* failure.                                                                 *)
LEMMA EnterCalls ==
    ASSUME FramesInv, FramesInv', Timely, Enter, unwound' => setting.fail
    PROVE  Calls!Enter \/ Calls!Fail
<1>1. /\ phase = "run" /\ frames # <<>> /\ Top.kind = "entry" /\ pending' = pending
  BY DEF Enter, At
<1>2. ~ sig_flag
  BY <1>1 DEF Timely
<1>3. pending = FALSE /\ Top \in FrameT
  BY <1>1, NotFetched, Running
<1>4. Top.fn \in DOMAIN Code
  BY <1>3, FrameFields
<1>5. CASE HasRoom(frames, FrameSize[Top.fn])
  <2>1. Alloc(frames, "wasm", Top.fn, 1, FrameSize[Top.fn]) /\ phase' = "run"
    BY <1>1, <1>2, <1>5 DEF Enter, procVars
  <2>2. FrameSize[Top.fn] \in Nat \ {0} /\ 1 \in Nat /\ "wasm" \in {"entry", "wasm", "native"}
    BY <1>4, CodeIs
  <2>3. SeenStack' = Append(See(frames, FALSE), Calls!Frame("wasm", Top.fn, 1, 0))
    BY <1>1, <1>3, <1>4, <2>1, <2>2, AllocSeen, ZenonT(30)
  <2> QED BY <1>1, <1>3, <2>3, TopSeen, ZenonT(30) DEF Calls!Enter
<1>6. CASE ~ HasRoom(frames, FrameSize[Top.fn])
  <2>1. GotException(frames)
    BY <1>2, <1>6 DEF Enter
  <2>2. unwound' = TRUE
    BY <2>1 DEF GotException
  <2> QED BY <1>1, <1>3, <2>1, <2>2, ExceptionCalls, ZenonT(30)
<1> QED BY <1>5, <1>6

(* The fetch is a stuttering step.                                          *)
LEMMA FetchCalls ==
    ASSUME FramesInv, Fetch
    PROVE  SeenStack' = SeenStack
<1>1. /\ phase = "run" /\ frames # <<>> /\ ~ pending /\ pending' = TRUE /\ phase' = "run"
      /\ frames' = SetTop(frames, [Top EXCEPT !.ip = Top.ip + 1])
  BY DEF Fetch, At, procVars
<1>2. /\ frames \in Seq(FrameT) /\ Top \in FrameT /\ Top = frames[Len(frames)] /\ pending = FALSE
  BY <1>1, Running
<1>3. SeenStack = See(frames, FALSE) /\ SeenStack' = See(frames', TRUE)
  BY <1>1, <1>2, SeenRun, ZenonT(30)
<1>4. Top.ip + 1 \in Nat
  BY <1>2, FrameFields
<1>5. [Top EXCEPT !.ip = Top.ip + 1] \in FrameT
  BY <1>2, <1>4, FrameWith
<1>6. See(SetTop(frames, [Top EXCEPT !.ip = Top.ip + 1]), TRUE) = See(frames, FALSE)
  BY <1>1, <1>2, <1>5, SeeFetched, ZenonT(30)
<1> QED BY <1>1, <1>3, <1>6, ZenonT(30)

(* What WasmCalls makes of an opcode that is executed.                      *)
LEMMA ExecutesSeen ==
    ASSUME FramesInv, NEW op, Executes(op)
    PROVE  /\ Calls!Executes(op) /\ SeenStack = See(frames, TRUE)
           /\ Calls!Opcode = Opcode /\ Calls!Top.ip = Top.ip - 1 /\ Calls!Top.fn = Top.fn
           /\ Calls!Top.val = Top.val /\ Calls!Top.kind = Top.kind
           /\ Calls!Top = View(Top, TRUE) /\ Top.ip \in Nat
<1>1. /\ phase = "run" /\ frames # <<>> /\ Top.kind = "wasm" /\ pending = TRUE
      /\ Opcode.op = op /\ Top.ip \in Nat
  BY ExecutesIs, ZenonT(30)
<1>2. /\ SeenStack # <<>> /\ SeenStack = See(frames, pending)
      /\ Calls!Top = View(Top, pending) /\ Calls!Top.kind = Top.kind
      /\ Calls!Top.fn = Top.fn /\ Calls!Top.val = Top.val
      /\ Calls!Top.ip = (IF pending THEN Top.ip - 1 ELSE Top.ip)
      /\ pending => Calls!Opcode = Opcode
  BY <1>1, TopSeen, ZenonT(30)
<1> QED BY <1>1, <1>2, ZenonT(30) DEF Calls!Executes

(* A step to another innermost frame.                                       *)
LEMMA RetopSeen ==
    ASSUME FramesInv, frames # <<>>, NEW f \in FrameT, frames' = SetTop(frames, f),
           phase' = "run", pending' = FALSE
    PROVE  /\ SeenStack' = SetTop(See(frames, TRUE), View(f, FALSE))
           /\ View(f, FALSE) = [kind |-> f.kind, fn |-> f.fn, val |-> f.val, ip |-> f.ip]
<1>1. frames \in Seq(FrameT) /\ TRUE \in BOOLEAN /\ FALSE \in BOOLEAN
  BY Running
<1>2. SeenStack' = See(frames', FALSE)
  BY SeenRun, ZenonT(30)
<1>3. See(SetTop(frames, f), FALSE) = SetTop(See(frames, TRUE), View(f, FALSE))
  BY <1>1, SeeTop, ZenonT(30)
<1>4. View(f, FALSE) = [kind |-> f.kind, fn |-> f.fn, val |-> f.val, ip |-> f.ip]
  BY DEF View
<1> QED BY <1>2, <1>3, <1>4, ZenonT(30)

(* An opcode that changes a value implements Plain of WasmCalls.            *)
LEMMA PlainCalls == FramesInv /\ Plain => Calls!Plain
<1> SUFFICES ASSUME FramesInv, Plain PROVE Calls!Plain
  OBVIOUS
<1>1. /\ Executes("nop") /\ frames' = SetTop(frames, [Top EXCEPT !.val = Bump(Top.val)])
  BY DEF Plain
<1>2. /\ phase = "run" /\ frames # <<>> /\ pending' = FALSE /\ Top \in FrameT
  <2>1. "nop" # "end"
    OBVIOUS
  <2> QED BY <1>1, <2>1, ExecutesIs, ZenonT(30)
<1>3. phase' = "run"
  BY <1>2 DEF Plain, procVars
<1>4. /\ Calls!Executes("nop") /\ SeenStack = See(frames, TRUE) /\ Calls!Top = View(Top, TRUE)
      /\ Calls!Top.val = Top.val /\ Calls!Top.ip = Top.ip - 1 /\ Top.ip \in Nat
  BY <1>1, ExecutesSeen, ZenonT(30)
<1>5. Bump(Top.val) \in 0 .. MaxVal
  <2>1. Top.val \in 0 .. MaxVal /\ MaxVal \in Nat
    BY <1>2, FrameFields, InterpAssumption
  <2> QED BY <2>1 DEF Bump
<1> DEFINE f == [Top EXCEPT !.val = Bump(Top.val)]
<1>6. /\ f \in FrameT /\ f.kind = Top.kind /\ f.fn = Top.fn /\ f.ip = Top.ip
      /\ f.val = Bump(Top.val)
  BY <1>2, <1>5, FrameWith
<1>7. frames' = SetTop(frames, f)
  BY <1>1
<1> HIDE DEF f
<1>8. /\ SeenStack' = SetTop(SeenStack, View(f, FALSE))
      /\ View(f, FALSE) = [kind |-> f.kind, fn |-> f.fn, val |-> f.val, ip |-> f.ip]
  BY <1>2, <1>3, <1>4, <1>6, <1>7, RetopSeen, ZenonT(30)
<1>9. View(f, FALSE) = [Calls!Top EXCEPT !.ip = Calls!Top.ip + 1, !.val = Calls!Bump(Calls!Top.val)]
  <2>1. Calls!Bump(Calls!Top.val) = Bump(Top.val) /\ Calls!Top.ip + 1 = Top.ip
    <3>1. Calls!Bump(Calls!Top.val) = Bump(Top.val)
      BY <1>4, ZenonT(30) DEF Calls!Bump, Bump
    <3>2. Top.ip \in Nat
      BY <1>4, ZenonT(30)
    <3>3. (Top.ip - 1) + 1 = Top.ip
      BY <3>2
    <3> QED BY <1>4, <3>1, <3>3, ZenonT(30)
  <2>2. Calls!Top = [kind |-> Top.kind, fn |-> Top.fn, val |-> Top.val, ip |-> Top.ip - 1]
    BY <1>4 DEF View
  <2>3. [[kind |-> Top.kind, fn |-> Top.fn, val |-> Top.val, ip |-> Top.ip - 1]
            EXCEPT !.ip = Top.ip, !.val = Bump(Top.val)]
        = [kind |-> Top.kind, fn |-> Top.fn, val |-> Bump(Top.val), ip |-> Top.ip]
    <3>1. [[kind |-> Top.kind, fn |-> Top.fn, val |-> Top.val, ip |-> Top.ip - 1]
              EXCEPT !.ip = Top.ip]
          = [kind |-> Top.kind, fn |-> Top.fn, val |-> Top.val, ip |-> Top.ip]
      BY SMTT(30)
    <3>2. [[kind |-> Top.kind, fn |-> Top.fn, val |-> Top.val, ip |-> Top.ip]
              EXCEPT !.val = Bump(Top.val)]
          = [kind |-> Top.kind, fn |-> Top.fn, val |-> Bump(Top.val), ip |-> Top.ip]
      BY SMTT(30)
    <3> QED BY <3>1, <3>2, ZenonT(30)
  <2> QED BY <1>6, <1>8, <2>1, <2>2, <2>3, ZenonT(30)
<1>10. SeenStack' = Calls!SetTop(SeenStack, View(f, FALSE))
  BY <1>8 DEF Calls!SetTop, SetTop, Calls!Pop, Pop
<1> QED BY <1>4, <1>9, <1>10, ZenonT(30) DEF Calls!Plain

(* A branch implements Branch of WasmCalls.                                 *)
LEMMA BranchCalls == FramesInv /\ Branch => Calls!Branch
<1> SUFFICES ASSUME FramesInv, Branch PROVE Calls!Branch
  OBVIOUS
<1>1. Executes("br_if")
  BY DEF Branch
<1>2. PICK t \in {Opcode.to, Top.ip} : frames' = SetTop(frames, [Top EXCEPT !.ip = t])
  BY DEF Branch
<1>3. /\ phase = "run" /\ frames # <<>> /\ pending' = FALSE /\ Top \in FrameT
      /\ Top.fn \in DOMAIN Code /\ Top.ip - 1 \in 1 .. Len(Code[Top.fn]) /\ Top.ip \in Nat
      /\ Len(Code[Top.fn]) \in Nat /\ Opcode.op = "br_if"
  <2>1. "br_if" # "end"
    OBVIOUS
  <2> QED BY <1>1, <2>1, ExecutesIs, ZenonT(30)
<1>4. phase' = "run"
  BY <1>3 DEF Branch, procVars
<1>5. /\ Calls!Executes("br_if") /\ SeenStack = See(frames, TRUE) /\ Calls!Top = View(Top, TRUE)
      /\ Calls!Opcode = Opcode /\ Calls!Top.ip = Top.ip - 1
  BY <1>1, ExecutesSeen, ZenonT(30)
<1>6. t \in Nat
  <2>1. Opcode.to \in 1 .. Len(Code[Top.fn])
    BY <1>3, CodeIs DEF Opcode
  <2> QED BY <1>2, <1>3, <2>1
<1> DEFINE f == [Top EXCEPT !.ip = t]
<1>7. f \in FrameT /\ f.kind = Top.kind /\ f.fn = Top.fn /\ f.ip = t /\ f.val = Top.val
  BY <1>3, <1>6, FrameWith
<1>8. frames' = SetTop(frames, f)
  BY <1>2
<1> HIDE DEF f
<1>9. /\ SeenStack' = SetTop(SeenStack, View(f, FALSE))
      /\ View(f, FALSE) = [kind |-> f.kind, fn |-> f.fn, val |-> f.val, ip |-> f.ip]
  BY <1>3, <1>4, <1>5, <1>7, <1>8, RetopSeen, ZenonT(30)
<1>10. View(f, FALSE) = [Calls!Top EXCEPT !.ip = t]
  <2>1. Calls!Top = [kind |-> Top.kind, fn |-> Top.fn, val |-> Top.val, ip |-> Top.ip - 1]
    BY <1>5 DEF View
  <2>2. [[kind |-> Top.kind, fn |-> Top.fn, val |-> Top.val, ip |-> Top.ip - 1]
            EXCEPT !.ip = t]
        = [kind |-> Top.kind, fn |-> Top.fn, val |-> Top.val, ip |-> t]
    BY SMTT(30)
  <2> QED BY <1>7, <1>9, <2>1, <2>2, ZenonT(30)
<1>11. SeenStack' = Calls!SetTop(SeenStack, [Calls!Top EXCEPT !.ip = t])
  BY <1>9, <1>10, ZenonT(30) DEF Calls!SetTop, SetTop, Calls!Pop, Pop
<1>12. t \in {Calls!Opcode.to, Calls!Top.ip + 1}
  <2>1. Top.ip \in Nat
    BY <1>3, ZenonT(30)
  <2>2. (Top.ip - 1) + 1 = Top.ip
    BY <2>1
  <2> QED BY <1>2, <1>5, <2>2, ZenonT(30)
<1> QED BY <1>5, <1>11, <1>12, ZenonT(30) DEF Calls!Branch
(* The innermost frame put where it is, and a frame that goes.              *)
LEMMA SameTop ==
    ASSUME NEW T, NEW s \in Seq(T), s # <<>>
    PROVE  /\ SetTop(s, s[Len(s)]) = s
           /\ \A x \in T : Pop(SetTop(s, x)) = Pop(s)
<1> DEFINE n == Len(s)
<1>1. n \in Nat /\ n >= 1 /\ s[n] \in T
  BY PopIs
<1>2. ASSUME NEW x \in T
      PROVE  /\ SetTop(s, x) \in Seq(T) /\ Len(SetTop(s, x)) = n /\ SetTop(s, x) # <<>>
             /\ SetTop(s, x)[n] = x /\ \A i \in 1 .. n - 1 : SetTop(s, x)[i] = s[i]
  BY SetTopIs
<1>3. SetTop(s, s[n]) = s
  <2> DEFINE t == SetTop(s, s[n])
  <2>1. /\ t \in Seq(T) /\ Len(t) = n /\ t[n] = s[n] /\ \A i \in 1 .. n - 1 : t[i] = s[i]
    BY <1>1, <1>2
  <2> HIDE DEF t
  <2>2. ASSUME NEW i \in 1 .. n PROVE t[i] = s[i]
    <3>1. i = n \/ i \in 1 .. n - 1
      BY <1>1
    <3> QED BY <2>1, <3>1
  <2> QED BY <2>1, <2>2, SameSeq DEF t
<1>4. ASSUME NEW x \in T PROVE Pop(SetTop(s, x)) = Pop(s)
  <2> DEFINE t == SetTop(s, x)
  <2>1. /\ t \in Seq(T) /\ Len(t) = n /\ t # <<>> /\ \A i \in 1 .. n - 1 : t[i] = s[i]
    BY <1>2
  <2> HIDE DEF t
  <2>2. /\ Pop(t) \in Seq(T) /\ Len(Pop(t)) = n - 1 /\ \A i \in 1 .. n - 1 : Pop(t)[i] = t[i]
    BY <2>1, PopIs
  <2>3. /\ Pop(s) \in Seq(T) /\ Len(Pop(s)) = n - 1 /\ \A i \in 1 .. n - 1 : Pop(s)[i] = s[i]
    BY PopIs
  <2> QED BY <2>1, <2>2, <2>3, SameSeq DEF t
<1> QED BY <1>3, <1>4

(* The caller has executed its opcode when the frame of the callee appears. *)
LEMMA CallSeen ==
    ASSUME FramesInv, NEW op, Executes(op)
    PROVE  See(frames, FALSE)
             = Calls!SetTop(SeenStack, [Calls!Top EXCEPT !.ip = Calls!Top.ip + 1])
<1>1. /\ frames \in Seq(FrameT) /\ frames # <<>> /\ Top \in FrameT /\ Top = frames[Len(frames)]
      /\ TRUE \in BOOLEAN /\ FALSE \in BOOLEAN
  BY ExecutesIs, Running, ZenonT(30)
<1>2. /\ SeenStack = See(frames, TRUE) /\ Calls!Top = View(Top, TRUE)
      /\ Calls!Top.ip = Top.ip - 1 /\ Top.ip \in Nat
  BY ExecutesSeen, ZenonT(30)
<1>3. SetTop(frames, Top) = frames
  BY <1>1, SameTop
<1>4. See(SetTop(frames, Top), FALSE) = SetTop(See(frames, TRUE), View(Top, FALSE))
  BY <1>1, SeeTop, ZenonT(30)
<1>5. View(Top, FALSE) = [Calls!Top EXCEPT !.ip = Calls!Top.ip + 1]
  <2>1. Calls!Top = [kind |-> Top.kind, fn |-> Top.fn, val |-> Top.val, ip |-> Top.ip - 1]
    BY <1>2 DEF View
  <2>2. [[kind |-> Top.kind, fn |-> Top.fn, val |-> Top.val, ip |-> Top.ip - 1]
            EXCEPT !.ip = Top.ip]
        = [kind |-> Top.kind, fn |-> Top.fn, val |-> Top.val, ip |-> Top.ip]
    BY SMTT(30)
  <2>3. Calls!Top.ip + 1 = Top.ip
    <3>1. Top.ip \in Nat /\ Calls!Top.ip = Top.ip - 1
      BY <1>2, ZenonT(30)
    <3>2. (Top.ip - 1) + 1 = Top.ip
      BY <3>1
    <3> QED BY <3>1, <3>2, ZenonT(30)
  <2>4. View(Top, FALSE) = [kind |-> Top.kind, fn |-> Top.fn, val |-> Top.val, ip |-> Top.ip]
    BY DEF View
  <2> QED BY <2>1, <2>2, <2>3, <2>4, ZenonT(30)
<1> QED BY <1>2, <1>3, <1>4, <1>5, ZenonT(30) DEF Calls!SetTop, SetTop, Calls!Pop, Pop

(* WASM_OP_CALL implements Call of WasmCalls, or a failure.                 *)
LEMMA CallOpCalls ==
    ASSUME FramesInv, FramesInv', CallOp, unwound' => setting.fail
    PROVE  Calls!Call \/ Calls!Fail
<1>1. Executes("call")
  BY DEF CallOp
<1>2. /\ phase = "run" /\ frames # <<>> /\ pending' = FALSE /\ Opcode.op = "call"
      /\ Top.fn \in DOMAIN Code /\ Top.ip - 1 \in 1 .. Len(Code[Top.fn])
  <2>1. "call" # "end"
    OBVIOUS
  <2> QED BY <1>1, <2>1, ExecutesIs, ZenonT(30)
<1>3. Opcode.fn \in DOMAIN Code
  BY <1>2, CodeIs DEF Opcode
<1>4. CASE HasRoom(frames, FrameSize[Opcode.fn])
  <2>1. Alloc(frames, "wasm", Opcode.fn, 1, FrameSize[Opcode.fn]) /\ phase' = "run"
    BY <1>2, <1>4 DEF CallOp, procVars
  <2>2. /\ FrameSize[Opcode.fn] \in Nat \ {0} /\ 1 \in Nat
        /\ "wasm" \in {"entry", "wasm", "native"}
    BY <1>3, CodeIs
  <2>3. SeenStack' = Append(See(frames, FALSE), Calls!Frame("wasm", Opcode.fn, 1, 0))
    BY <1>2, <1>3, <2>1, <2>2, AllocSeen, ZenonT(30)
  <2>4. Calls!Executes("call") /\ Calls!Opcode = Opcode
    BY <1>1, ExecutesSeen, ZenonT(30)
  <2>5. See(frames, FALSE)
          = Calls!SetTop(SeenStack, [Calls!Top EXCEPT !.ip = Calls!Top.ip + 1])
    BY <1>1, CallSeen, ZenonT(30)
  <2> QED BY <2>3, <2>4, <2>5, ZenonT(30) DEF Calls!Call
<1>5. CASE ~ HasRoom(frames, FrameSize[Opcode.fn])
  <2>1. GotException(frames)
    BY <1>5 DEF CallOp
  <2>2. unwound' = TRUE
    BY <2>1 DEF GotException
  <2> QED BY <1>2, <2>1, <2>2, ExceptionCalls, ZenonT(30)
<1> QED BY <1>4, <1>5

(* The call of a native function implements CallNative of WasmCalls, or a   *)
(* failure.                                                                 *)
LEMMA CallNativeCalls ==
    ASSUME FramesInv, FramesInv', CallNative, unwound' => setting.fail
    PROVE  Calls!CallNative \/ Calls!Fail
<1>1. Executes("native")
  BY DEF CallNative
<1>2. /\ phase = "run" /\ frames # <<>> /\ pending' = FALSE /\ Top.fn \in DOMAIN Code
  <2>1. "native" # "end"
    OBVIOUS
  <2> QED BY <1>1, <2>1, ExecutesIs, ZenonT(30)
<1>3. CASE HasRoom(frames, NativeSize)
  <2>1. Alloc(frames, "native", Top.fn, 0, NativeSize) /\ phase' = "run"
    BY <1>2, <1>3 DEF CallNative, procVars
  <2>2. NativeSize \in Nat \ {0} /\ 0 \in Nat /\ "native" \in {"entry", "wasm", "native"}
    BY InterpAssumption
  <2>3. SeenStack' = Append(See(frames, FALSE), Calls!Frame("native", Top.fn, 0, 0))
    BY <1>2, <2>1, <2>2, AllocSeen, ZenonT(30)
  <2>4. Calls!Executes("native") /\ Calls!Top.fn = Top.fn
    BY <1>1, ExecutesSeen, ZenonT(30)
  <2>5. See(frames, FALSE)
          = Calls!SetTop(SeenStack, [Calls!Top EXCEPT !.ip = Calls!Top.ip + 1])
    BY <1>1, CallSeen, ZenonT(30)
  <2> QED BY <2>3, <2>4, <2>5, ZenonT(30) DEF Calls!CallNative
<1>4. CASE ~ HasRoom(frames, NativeSize)
  <2>1. GotException(frames)
    BY <1>4 DEF CallNative
  <2>2. unwound' = TRUE
    BY <2>1 DEF GotException
  <2> QED BY <1>2, <2>1, <2>2, ExceptionCalls, ZenonT(30)
<1> QED BY <1>3, <1>4

(* Traps and native functions that fail implement Fail of WasmCalls.        *)
LEMMA FailCalls ==
    ASSUME FramesInv, FramesInv', Trap \/ NativeFail, unwound' => setting.fail
    PROVE  Calls!Fail
<1>1. GotException(frames)
  BY DEF Trap, NativeFail
<1>2. unwound' = TRUE
  BY <1>1 DEF GotException
<1>3. phase = "run" /\ frames # <<>>
  BY DEF Trap, NativeFail, Executes, At
<1>4. pending' = FALSE
  <2>1. CASE Trap
    BY <2>1 DEF Trap, Executes
  <2>2. CASE NativeFail
    <3>1. Top.kind = "native" /\ pending' = pending
      BY <2>2 DEF NativeFail, At
    <3>2. pending = FALSE
      BY <3>1, NotFetched
    <3> QED BY <3>1, <3>2
  <2> QED BY <2>1, <2>2, ZenonT(30)
<1> QED BY <1>1, <1>2, <1>3, <1>4, ExceptionCalls, ZenonT(30)

(* A native function that returns implements NativeReturn of WasmCalls.     *)
LEMMA NativeReturnCalls ==
    ASSUME FramesInv, NativeReturn
    PROVE  Calls!NativeReturn
<1>1. /\ phase = "run" /\ phase' = "run" /\ frames # <<>> /\ Top.kind = "native"
      /\ frames' = Pop(frames) /\ pending' = pending
  BY DEF NativeReturn, At, procVars
<1>2. pending = FALSE /\ frames \in Seq(FrameT) /\ FALSE \in BOOLEAN
  BY <1>1, NotFetched, Running
<1>3. /\ SeenStack # <<>> /\ SeenStack = See(frames, FALSE) /\ Calls!Top.kind = "native"
      /\ Len(SeenStack) = Len(frames)
  BY <1>1, <1>2, TopSeen, ZenonT(30)
<1>4. SeenStack' = See(Pop(frames), FALSE)
  BY <1>1, <1>2, SeenRun, ZenonT(30)
<1>5. Len(frames) - 1 \in Nat /\ Len(frames) - 1 < Len(frames)
  BY <1>1, <1>2, PopIs
<1>6. See(SubSeq(frames, 1, Len(frames) - 1), FALSE)
        = SubSeq(See(frames, FALSE), 1, Len(frames) - 1)
  BY <1>2, <1>5, SeeFront, ZenonT(30)
<1>7. SeenStack' = Calls!Pop(SeenStack)
  BY <1>3, <1>4, <1>6, ZenonT(30) DEF Calls!Pop, Pop
<1> QED BY <1>3, <1>7, ZenonT(30) DEF Calls!NativeReturn

(* return_func implements End of WasmCalls.                                 *)
LEMMA EndCalls ==
    ASSUME FramesInv, FramesInv', End
    PROVE  Calls!End
<1> DEFINE below == Pop(frames)
           caller == below[Len(below)]
           res == IF setting.result THEN Top.val ELSE caller.val
           g == [caller EXCEPT !.val = res]
           s == SetTop(below, g)
           l == FreeInfo(Top.addr, infos)
           cb == Calls!Pop(SeenStack)
           cc == cb[Len(cb)]
<1>1. Executes("end")
  BY DEF End
<1>2. /\ phase = "run" /\ frames # <<>> /\ Top.kind = "wasm" /\ pending' = FALSE
      /\ Top \in FrameT /\ Top = frames[Len(frames)]
  BY <1>1, ExecutesIs, ZenonT(30)
<1>3. /\ frames \in Seq(FrameT) /\ frames[1].kind = "entry" /\ Len(frames) \in Nat
      /\ Len(frames) >= 1 /\ TRUE \in BOOLEAN /\ FALSE \in BOOLEAN
  BY <1>2, Running
<1>4. /\ Calls!Executes("end") /\ SeenStack = See(frames, TRUE) /\ Calls!Top.val = Top.val
  BY <1>1, ExecutesSeen, ZenonT(30)
<1>5. Len(frames) # 1
  BY <1>2, <1>3
<1>6. /\ below \in Seq(FrameT) /\ Len(below) = Len(frames) - 1
      /\ \A i \in 1 .. Len(frames) - 1 : below[i] = frames[i]
  BY <1>2, <1>3, PopIs
<1>7. below # <<>> /\ Len(below) \in Nat /\ Len(below) >= 1
  <2>1. Len(below) # 0
    BY <1>3, <1>5, <1>6
  <2> QED BY <1>3, <1>5, <1>6, <2>1
<1>8. caller \in FrameT
  BY <1>6, <1>7, PopIs
<1>9. phase' # "crashed"
  BY DEF FramesInv, Values
<1>10. IF caller.kind = "entry" THEN Leave(s, l)
       ELSE frames' = s /\ UNCHANGED procVars
  BY <1>9 DEF End
<1>11. res \in 0 .. MaxVal
  BY <1>2, <1>8, FrameFields
<1>12. cb = See(below, FALSE)
  <2>1. Len(frames) - 1 \in Nat /\ Len(frames) - 1 < Len(frames)
    BY <1>3
  <2>2. See(SubSeq(frames, 1, Len(frames) - 1), FALSE)
          = SubSeq(See(frames, TRUE), 1, Len(frames) - 1)
    BY <1>3, <2>1, SeeFront, ZenonT(30)
  <2>3. Len(SeenStack) = Len(frames)
    BY <1>3, <1>4, SeeIs, ZenonT(30)
  <2> QED BY <1>4, <2>2, <2>3, ZenonT(30) DEF Calls!Pop, Pop
<1> HIDE DEF below, res, l, cb
<1>13. /\ cb \in Seq(ViewT) /\ Len(cb) = Len(below) /\ cb # <<>> /\ cc = View(caller, FALSE)
  BY <1>3, <1>6, <1>7, <1>12, SeeIs, ZenonT(30)
<1>14. /\ cc.kind = caller.kind /\ cc.val = caller.val /\ cc \in ViewT
  BY <1>3, <1>8, <1>13, ViewIs, ZenonT(30)
<1> HIDE DEF cc, caller
<1>15. /\ g \in FrameT /\ g.kind = caller.kind /\ g.fn = caller.fn /\ g.ip = caller.ip
       /\ g.val = res
  BY <1>8, <1>11, FrameWith
<1> HIDE DEF g
<1>16. See(s, FALSE) = SetTop(cb, View(g, FALSE)) /\ View(g, FALSE) \in ViewT
  BY <1>3, <1>6, <1>7, <1>12, <1>15, SeeTop, ViewIs, ZenonT(30)
<1>17. View(g, FALSE) = [cc EXCEPT !.val = res]
  <2>1. cc = [kind |-> caller.kind, fn |-> caller.fn, val |-> caller.val, ip |-> caller.ip]
    BY <1>13 DEF View
  <2>2. [[kind |-> caller.kind, fn |-> caller.fn, val |-> caller.val, ip |-> caller.ip]
            EXCEPT !.val = res]
        = [kind |-> caller.kind, fn |-> caller.fn, val |-> res, ip |-> caller.ip]
    BY SMTT(30)
  <2>3. View(g, FALSE) = [kind |-> g.kind, fn |-> g.fn, val |-> g.val, ip |-> g.ip]
    BY DEF View
  <2> QED BY <1>15, <2>1, <2>2, <2>3, ZenonT(30)
<1>18. SeenStack' = IF cc.kind = "entry" THEN Calls!Pop(cb)
                    ELSE IF setting.result THEN Calls!SetTop(cb, [cc EXCEPT !.val = Calls!Top.val])
                    ELSE cb
  <2>1. CASE caller.kind # "entry"
    <3>1. frames' = s /\ phase' = "run"
      BY <1>2, <1>10, <2>1 DEF procVars
    <3>2. SeenStack' = SetTop(cb, [cc EXCEPT !.val = res])
      BY <1>2, <1>16, <1>17, <3>1, SeenRun, ZenonT(30)
    <3>3. CASE setting.result
      <4>1. res = Calls!Top.val
        BY <1>4, <3>3 DEF res
      <4>2. SetTop(cb, [cc EXCEPT !.val = res]) = Calls!SetTop(cb, [cc EXCEPT !.val = res])
        BY DEF Calls!SetTop, SetTop, Calls!Pop, Pop
      <4> QED BY <1>14, <2>1, <3>2, <3>3, <4>1, <4>2
    <3>4. CASE ~ setting.result
      <4>1. res = cc.val
        BY <1>14, <3>4 DEF res
      <4>2. [cc EXCEPT !.val = cc.val] = cc
        BY <1>14 DEF ViewT
      <4>3. SetTop(cb, cc) = cb
        BY <1>13, SameTop, ZenonT(30) DEF cc
      <4> QED BY <1>14, <2>1, <3>2, <3>4, <4>1, <4>2, <4>3
    <3> QED BY <3>3, <3>4
  <2>2. CASE caller.kind = "entry"
    <3>1. /\ s \in Seq(FrameT) /\ Len(s) = Len(below) /\ s # <<>> /\ s[Len(below)] = g
          /\ \A i \in 1 .. Len(below) - 1 : s[i] = below[i]
      BY <1>6, <1>7, <1>15, SetTopIs, ZenonT(30)
    <3>2. s[1].kind = "entry" /\ s[Len(s)].kind = "entry"
      <4>1. CASE Len(below) = 1
        BY <1>15, <2>2, <3>1, <4>1
      <4>2. CASE Len(below) # 1
        <5>1. 1 \in 1 .. Len(below) - 1 /\ 1 \in 1 .. Len(frames) - 1
          BY <1>3, <1>6, <1>7, <4>2
        <5> QED BY <1>3, <1>6, <1>15, <2>2, <3>1, <5>1
      <4> QED BY <4>1, <4>2
    <3>3. EntryOf(s) = Len(s)
      BY <3>1, <3>2, EntryTop
    <3>4. Leave(s, l)
      BY <1>10, <2>2
    <3> HIDE DEF s
    <3>5. Calls!Pop(cb) = Pop(cb) /\ Calls!Pop(cb) = SubSeq(cb, 1, Len(cb) - 1)
      BY DEF Calls!Pop, Pop
    <3>6. CASE Len(s) = restored
      <4>1. phase' = "over" /\ restored \in {0, 1}
        BY <3>3, <3>4, <3>6, Running DEF Leave
      <4>2. Len(cb) = 1
        BY <1>7, <1>13, <3>1, <3>6, <4>1
      <4>3. Pop(cb) \in Seq(ViewT) /\ Len(Pop(cb)) = 0
        BY <1>13, <4>2, PopIs
      <4>4. Pop(cb) = <<>>
        BY <4>3
      <4>5. SeenStack' = <<>>
        BY <4>1, SeenRun
      <4> QED BY <1>14, <2>2, <3>5, <4>4, <4>5, ZenonT(30)
    <3>7. CASE Len(s) # restored
      <4>1. frames' = Pop(s) /\ phase' = "run"
        BY <1>2, <1>9, <3>3, <3>4, <3>7 DEF Leave, Pop
      <4>2. SeenStack' = See(Pop(s), FALSE)
        BY <1>2, <4>1, SeenRun, ZenonT(30)
      <4>3. Len(s) - 1 \in Nat /\ Len(s) - 1 < Len(s)
        BY <1>7, <3>1
      <4>4. See(SubSeq(s, 1, Len(s) - 1), FALSE) = SubSeq(See(s, FALSE), 1, Len(s) - 1)
        BY <1>3, <3>1, <4>3, SeeFront, ZenonT(30)
      <4>5. Len(See(s, FALSE)) = Len(s)
        BY <1>3, <3>1, SeeIs, ZenonT(30)
      <4>6. SeenStack' = Pop(See(s, FALSE))
        BY <4>2, <4>4, <4>5, ZenonT(30) DEF Pop
      <4>7. Pop(SetTop(cb, View(g, FALSE))) = Pop(cb)
        BY <1>13, <1>16, SameTop, ZenonT(30)
      <4> QED BY <1>14, <1>16, <2>2, <3>5, <4>6, <4>7, ZenonT(30) DEF s
    <3> QED BY <3>6, <3>7
  <2> QED BY <2>1, <2>2
<1> QED BY <1>4, <1>18 DEF Calls!End, cc, cb

(* The checkpoint is a stuttering step: the images stand for the frames.    *)
LEMMA CheckpointCalls ==
    ASSUME FramesInv, Timely, Checkpoint
    PROVE  SeenStack' = SeenStack
<1>1. /\ phase = "run" /\ phase' = "down" /\ frames # <<>>
  BY DEF Checkpoint, At
<1>2. /\ Written \in Seq(FrameT) /\ ImageOf(image', Written, exec_env, setting.stack)
      /\ pending = FALSE
  BY CheckpointRight
<1>3. /\ frames \in Seq(FrameT) /\ Top \in FrameT /\ Top = frames[Len(frames)]
  BY <1>1, Running
<1>4. Top.ip + 1 \in Nat
  BY <1>3, FrameFields
<1>5. [Top EXCEPT !.ip = Top.ip + 1] \in FrameT
  BY <1>3, <1>4, FrameWith
<1>6. See(Written, TRUE) = See(frames, FALSE)
  BY <1>1, <1>3, <1>5, SeeFetched, ZenonT(30) DEF Written
<1>7. SeeImage(image') = See(Written, TRUE)
  BY <1>2, SeeImageIs, ZenonT(30)
<1>8. SeenImage' = SeeImage(image')
  BY DEF SeenImage, SeeImage
<1>9. SeenStack = See(frames, FALSE) /\ SeenStack' = SeenImage'
  BY <1>1, <1>2, SeenRun, ZenonT(30)
<1> QED BY <1>6, <1>7, <1>8, <1>9, ZenonT(30)

(* The restore is a stuttering step: the frames stand for the images again. *)
LEMMA RestoreCalls ==
    ASSUME FramesInv, NEW env \in Envs, Restore(env)
    PROVE  SeenStack' = SeenStack
<1>1. phase = "down"
  BY DEF Restore
<1>2. PICK fs \in Seq(FrameT) : ImageOf(image, fs, exec_env, setting.stack)
  BY <1>1 DEF FramesInv, Imaged
<1>3. /\ phase' = "run" /\ pending' = TRUE /\ Len(frames') = Len(fs) /\ Typed(frames', TRUE)
      /\ \A i \in 1 .. Len(fs) :
            /\ frames'[i].kind = fs[i].kind /\ frames'[i].fn = fs[i].fn
            /\ frames'[i].ip = fs[i].ip /\ frames'[i].val = fs[i].val
  BY <1>2, RestoreRight, ZenonT(30)
<1>4. SeeImage(image) = See(fs, TRUE)
  BY <1>2, SeeImageIs, ZenonT(30)
<1>5. SeenImage = SeeImage(image)
  BY DEF SeenImage, SeeImage
<1>6. SeenStack = SeenImage /\ SeenStack' = See(frames', TRUE)
  BY <1>1, <1>3, SeenRun
<1>7. See(frames', TRUE) = See(fs, TRUE)
  BY <1>3, ZenonT(30) DEF See
<1> QED BY <1>4, <1>5, <1>6, <1>7, ZenonT(30)
(* Every step is one of WasmCalls or none.                                  *)
LEMMA CallsNext ==
    ASSUME FramesInv, FramesInv', Timely, unwound' => setting.fail, [Next]_vars
    PROVE  [Calls!CNext]_<<SeenStack, setting>>
<1>1. setting' = setting
  BY DEF Next, Step, vars
<1> SUFFICES \/ SeenStack' = SeenStack
             \/ \E f \in Calls!Funcs : Calls!Start(f)
             \/ Calls!Enter \/ Calls!Plain \/ Calls!Branch \/ Calls!Call \/ Calls!CallNative
             \/ Calls!NativeReturn \/ Calls!End \/ Calls!Fail
  BY <1>1 DEF Calls!CNext
<1>2. CASE UNCHANGED vars
  <2>1. phase' = phase /\ frames' = frames /\ pending' = pending /\ image' = image
    BY <1>2 DEF vars
  <2> QED BY <2>1 DEF SeenStack, Seen, SeenImage
<1>3. CASE Signal
  <2>1. phase' = phase /\ frames' = frames /\ pending' = pending /\ image' = image
    BY <1>3 DEF Signal, procVars
  <2> QED BY <2>1 DEF SeenStack, Seen, SeenImage
<1>4. ASSUME NEW f \in DOMAIN Code, CallWasm(f)
      PROVE  SeenStack' = SeenStack \/ \E h \in Calls!Funcs : Calls!Start(h)
  BY <1>4, CallWasmCalls DEF Calls!Funcs
<1>5. CASE Enter
  BY <1>5, EnterCalls
<1>6. CASE Fetch
  BY <1>6, FetchCalls
<1>7. CASE Plain
  BY <1>7, PlainCalls
<1>8. CASE Branch
  BY <1>8, BranchCalls
<1>9. CASE CallOp
  BY <1>9, CallOpCalls
<1>10. CASE CallNative
  BY <1>10, CallNativeCalls
<1>11. CASE Trap \/ NativeFail
  BY <1>11, FailCalls
<1>12. CASE End
  BY <1>12, EndCalls
<1>13. CASE NativeReturn
  BY <1>13, NativeReturnCalls
<1>14. CASE Checkpoint
  BY <1>14, CheckpointCalls
<1>15. ASSUME NEW env \in Envs, Restore(env) PROVE SeenStack' = SeenStack
  BY <1>15, RestoreCalls
<1> QED
  BY <1>2, <1>3, <1>4, <1>5, <1>6, <1>7, <1>8, <1>9, <1>10, <1>11, <1>12, <1>13,
     <1>14, <1>15, ZenonT(30) DEF Next, Step

(* A process without frames is an initial state of WasmCalls.               *)
LEMMA CallsInit == Init => Calls!CInit
<1> SUFFICES ASSUME Init PROVE Calls!CInit
  OBVIOUS
<1>1. phase = "run" /\ frames = <<>> /\ pending = FALSE
  BY DEF Init
<1>2. SeenStack = See(<<>>, FALSE)
  BY <1>1, SeenRun, ZenonT(30)
<1>3. <<>> \in Seq(FrameT) /\ FALSE \in BOOLEAN
  OBVIOUS
<1>4. See(<<>>, FALSE) = <<>>
  BY <1>3, SeeIs, ZenonT(30)
<1> QED BY <1>2, <1>4, ZenonT(30) DEF Calls!CInit

(* Checkpoint and restore are not observable: as long as signals are timely *)
(* and only programs whose calls may fail have invocations that do, the     *)
(* interpreter, with its images and processes, implements WasmCalls.        *)
THEOREM CallsImplemented ==
    Spec /\ []Timely /\ [](unwound => setting.fail) => Uninterrupted
<1>1. Init => Calls!CInit
  BY CallsInit
<1>2. FramesInv /\ FramesInv' /\ Timely /\ (unwound => setting.fail)' /\ [Next]_vars
         => [Calls!CNext]_<<SeenStack, setting>>
  <2> SUFFICES ASSUME FramesInv, FramesInv', Timely, (unwound => setting.fail)', [Next]_vars
               PROVE  [Calls!CNext]_<<SeenStack, setting>>
    OBVIOUS
  <2>1. setting' = setting
    BY DEF Next, Step, vars
  <2>2. unwound' => setting.fail
    BY <2>1
  <2> QED BY <2>2, CallsNext
<1> QED BY <1>1, <1>2, FramesRight, PTL DEF Spec, Uninterrupted, Calls!CSpec

(* In orderly settings whose calls may fail the interpreter implements      *)
(* WasmCalls, whenever SIGINT arrives after the first opcode.               *)
THEOREM OrderlyImplements ==
    ASSUME Orderly, \A s \in Settings : s.fail
    PROVE  Spec => Uninterrupted
<1>1. Init => FramesInv /\ OrderInv
  <2>1. Init => OrderInv
    BY DEF Init, OrderInv
  <2> QED BY <2>1, FramesInit
<1>2. FramesInv /\ OrderInv /\ [Next]_vars => (FramesInv /\ OrderInv)'
  BY OrderTimely, FramesNext, OrderNext
<1>3. FramesInv /\ OrderInv => Timely /\ (unwound => setting.fail)
  BY OrderTimely, Running
<1> QED BY <1>1, <1>2, <1>3, CallsImplemented, PTL DEF Spec
=============================================================================
