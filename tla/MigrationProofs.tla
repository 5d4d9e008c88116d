-------------------------- MODULE MigrationProofs --------------------------
(***************************************************************************)
(* For every pool, block size and number of checkpoints: the registry        *)
(* mirrors the pool and every p_abs in it is unique (the first part), what   *)
(* a checkpoint writes is exact, and a restore, wherever it finds room for   *)
(* the blocks, gives the new process the object graph and the pointers of    *)
(* the old one.                                                              *)
(***************************************************************************)
EXTENDS Migration, WellFoundedInduction, TLAPS

(* The allocator keeps the live blocks apart and inside the pool.           *)
PoolDisjoint ==
    /\ \A b \in blocks : b.addr + b.size - 1 <= pool_allocator + PoolSize
    /\ \A b, c \in blocks : b # c => ~ Overlap(b, c)

(* The p_abs of an element is its offset in the pool, and an info has as    *)
(* many of them as its block has registered elements.                      *)
HasOffsets(info) ==
    /\ Len(info.abs) = InfoCount(info)
    /\ \A k \in 1 .. Len(info.abs) : info.abs[k] = info.p_raw + k - 1 - pool_allocator

AbsIsOffset == \A i \in 1 .. Len(root_info) : HasOffsets(root_info[i])

(* An info has as many p_abs as its block has registered elements.          *)
Counted == \A i \in 1 .. Len(root_info) : Len(root_info[i].abs) = InfoCount(root_info[i])

(* What holds of the pool of every process, also of one whose infos were    *)
(* restored and have the p_abs of another process.                          *)
PoolInv == TypeOK /\ PoolDisjoint /\ RegistryMirrorsPool /\ Counted

(* The inductive invariant.  Uniqueness of p_abs is not inductive by itself:*)
(* it follows from the p_abs being offsets of blocks that do not overlap.   *)
IInv == PoolInv /\ AbsIsOffset /\ NoFreeError

-----------------------------------------------------------------------------
(* A new info has the type of an info and describes its block.              *)
LEMMA NewInfoType ==
    ASSUME NEW b \in Blocks, pool_allocator \in Bases
    PROVE  /\ NewInfo(b) \in PoolInfos
           /\ Describes(NewInfo(b), b)
           /\ HasOffsets(NewInfo(b))
<1>1. InfoCount(b) \in Nat /\ pool_allocator \in Nat /\ b.addr \in Int
  BY PoolAssumption DEF Blocks, InfoCount, Addrs, Types
<1> DEFINE f == [k \in 1 .. InfoCount(b) |-> b.addr + k - 1 - pool_allocator]
<1>2. f \in Seq(Int) /\ Len(f) = InfoCount(b)
  BY <1>1
<1>3. NewInfo(b) = [p_raw |-> b.addr, type |-> b.type, size |-> b.size, abs |-> f]
  BY DEF NewInfo
<1>4. InfoCount(NewInfo(b)) = InfoCount(b)
  BY <1>3 DEF InfoCount
<1> HIDE DEF f
<1>5. NewInfo(b) \in PoolInfos
  BY <1>1, <1>2, <1>3 DEF PoolInfos, Blocks
<1>6. Describes(NewInfo(b), b)
  BY <1>3 DEF Describes
<1>7. \A k \in 1 .. Len(f) : f[k] = b.addr + k - 1 - pool_allocator
  BY <1>1, <1>2 DEF f
<1>8. QED
  BY <1>2, <1>3, <1>4, <1>5, <1>6, <1>7 DEF HasOffsets

(* Adding an info puts it in front of the infos there were.                 *)
LEMMA PushSeq ==
    ASSUME NEW x \in PoolInfos, NEW s \in Seq(PoolInfos)
    PROVE  /\ <<x>> \o s \in Seq(PoolInfos)
           /\ Len(<<x>> \o s) = Len(s) + 1
           /\ (<<x>> \o s)[1] = x
           /\ \A i \in 2 .. Len(s) + 1 : (<<x>> \o s)[i] = s[i - 1]
OBVIOUS

(* Removing an info closes the gap and keeps the others in their order.     *)
LEMMA RemoveInfoSeq ==
    ASSUME NEW s \in Seq(PoolInfos), NEW i \in 1 .. Len(s)
    PROVE  /\ RemoveInfo(s, i) \in Seq(PoolInfos)
           /\ Len(RemoveInfo(s, i)) = Len(s) - 1
           /\ \A j \in 1 .. Len(s) - 1 :
                 RemoveInfo(s, i)[j] = IF j < i THEN s[j] ELSE s[j + 1]
<1>1. Len(s) - 1 \in Nat
  OBVIOUS
<1>2. \A j \in 1 .. Len(s) - 1 : (IF j < i THEN s[j] ELSE s[j + 1]) \in PoolInfos
  OBVIOUS
<1> QED
  BY <1>1, <1>2 DEF RemoveInfo

(* A registered address is found by the first loop of free_info.            *)
LEMMA FirstRawFound ==
    ASSUME NEW s \in Seq(PoolInfos), NEW a, NEW i \in 1 .. Len(s), s[i].p_raw = a,
           \A j, k \in 1 .. Len(s) : s[j].p_raw = s[k].p_raw => j = k
    PROVE  FirstRaw(a, s) = {i}
BY DEF FirstRaw

(* A new block and its info keep the list a mirror of the pool.             *)
LEMMA AddMirrors ==
    ASSUME NEW bs, NEW b, NEW x \in PoolInfos, Describes(x, b), NEW s \in Seq(PoolInfos),
           Mirrors(s, bs), \A c \in bs : c.addr # b.addr
    PROVE  Mirrors(<<x>> \o s, bs \cup {b})
<1> DEFINE t == <<x>> \o s
<1>1. /\ Len(t) = Len(s) + 1
      /\ t[1] = x
      /\ \A i \in 2 .. Len(s) + 1 : t[i] = s[i - 1]
  BY PushSeq
<1>2. Describes(t[1], b)
  BY <1>1
<1>3. Len(s) \in Nat
  OBVIOUS
<1> HIDE DEF t
<1>4. \A i \in 1 .. Len(s) : s[i] = t[i + 1] /\ i + 1 \in 1 .. Len(t)
  BY <1>1, <1>3
<1>5. ASSUME NEW c \in bs \cup {b} PROVE \E i \in 1 .. Len(t) : Describes(t[i], c)
  <2>1. CASE c = b
    <3>1. 1 \in 1 .. Len(t)
      BY <1>1, <1>3
    <3>2. QED
      BY <2>1, <1>2, <3>1
  <2>2. CASE c \in bs
    <3>1. PICK i \in 1 .. Len(s) : Describes(s[i], c)
      BY <2>2 DEF Mirrors
    <3>2. QED
      BY <3>1, <1>4
  <2>3. QED
    BY <2>1, <2>2
<1>6. ASSUME NEW i \in 1 .. Len(t) PROVE \E c \in bs \cup {b} : Describes(t[i], c)
  <2>1. CASE i = 1
    BY <2>1, <1>2
  <2>2. CASE i # 1
    <3>1. i - 1 \in 1 .. Len(s) /\ t[i] = s[i - 1]
      BY <2>2, <1>1, <1>3
    <3>2. QED
      BY <3>1 DEF Mirrors
  <2>3. QED
    BY <2>1, <2>2
<1>7. \A i \in 2 .. Len(t) : t[i].p_raw # t[1].p_raw
  <2>1. ASSUME NEW i \in 2 .. Len(t) PROVE t[i].p_raw # t[1].p_raw
    <3>1. i - 1 \in 1 .. Len(s) /\ t[i] = s[i - 1]
      BY <1>1, <1>3
    <3>2. \E c \in bs : s[i - 1].p_raw = c.addr
      BY <3>1 DEF Mirrors, Describes
    <3>3. QED
      BY <3>1, <3>2, <1>2 DEF Describes
  <2>2. QED
    BY <2>1
<1>8. ASSUME NEW i \in 1 .. Len(t), NEW j \in 1 .. Len(t), t[i].p_raw = t[j].p_raw
      PROVE  i = j
  <2>1. CASE i = 1 \/ j = 1
    BY <2>1, <1>3, <1>1, <1>7, <1>8
  <2>2. CASE i # 1 /\ j # 1
    <3>1. /\ i - 1 \in 1 .. Len(s) /\ t[i] = s[i - 1]
          /\ j - 1 \in 1 .. Len(s) /\ t[j] = s[j - 1]
      BY <2>2, <1>1, <1>3
    <3>2. i - 1 = j - 1
      BY <3>1, <1>8, SMTT(30) DEF Mirrors
    <3>3. QED
      BY <3>2
  <2>3. QED
    BY <2>1, <2>2
<1>9. Mirrors(t, bs \cup {b})
  BY <1>5, <1>6, <1>8 DEF Mirrors
<1>10. QED
  BY <1>9 DEF t

(* Taking a block and its info away keeps the list a mirror of the pool.    *)
LEMMA RemoveMirrors ==
    ASSUME NEW bs, NEW b \in bs, NEW s \in Seq(PoolInfos), Mirrors(s, bs),
           \A c, d \in bs : c.addr = d.addr => c = d,
           NEW i \in FirstRaw(b.addr, s)
    PROVE  Mirrors(RemoveInfo(s, i), bs \ {b})
<1> DEFINE t == RemoveInfo(s, i)
<1>1. i \in 1 .. Len(s) /\ s[i].p_raw = b.addr /\ Len(s) \in Nat
  BY DEF FirstRaw
<1>2. /\ Len(t) = Len(s) - 1
      /\ \A j \in 1 .. Len(s) - 1 : t[j] = IF j < i THEN s[j] ELSE s[j + 1]
  BY <1>1, RemoveInfoSeq, ZenonT(30)
<1> HIDE DEF t
<1>3. ASSUME NEW j \in 1 .. Len(t)
      PROVE  \E k \in 1 .. Len(s) : /\ k # i /\ t[j] = s[k]
                                    /\ k = IF j < i THEN j ELSE j + 1
  BY <1>1, <1>2
<1>4. ASSUME NEW k \in 1 .. Len(s), k # i
      PROVE  \E j \in 1 .. Len(t) : t[j] = s[k]
  <2>1. CASE k < i
    BY <2>1, <1>1, <1>2
  <2>2. CASE k > i
    <3>1. k - 1 \in 1 .. Len(t) /\ ~ (k - 1 < i) /\ t[k - 1] = s[k]
      BY <2>2, <1>1, <1>2
    <3>2. QED
      BY <3>1
  <2>3. QED
    BY <2>1, <2>2, <1>1, <1>4
<1>5. ASSUME NEW c \in bs \ {b} PROVE \E j \in 1 .. Len(t) : Describes(t[j], c)
  <2>1. PICK k \in 1 .. Len(s) : Describes(s[k], c)
    BY DEF Mirrors
  <2>2. k # i
    BY <2>1, <1>1 DEF Describes
  <2>3. QED
    BY <2>1, <2>2, <1>4
<1>6. ASSUME NEW j \in 1 .. Len(t) PROVE \E c \in bs \ {b} : Describes(t[j], c)
  <2>1. PICK k \in 1 .. Len(s) : k # i /\ t[j] = s[k]
    BY <1>3
  <2>2. PICK c \in bs : Describes(s[k], c)
    BY DEF Mirrors
  <2>3. c # b
    BY <2>1, <2>2, <1>1 DEF Describes, Mirrors
  <2>4. QED
    BY <2>1, <2>2, <2>3
<1>7. ASSUME NEW j \in 1 .. Len(t), NEW k \in 1 .. Len(t), t[j].p_raw = t[k].p_raw
      PROVE  j = k
  <2>1. PICK m \in 1 .. Len(s) : t[j] = s[m] /\ m = IF j < i THEN j ELSE j + 1
    BY <1>3
  <2>2. PICK n \in 1 .. Len(s) : t[k] = s[n] /\ n = IF k < i THEN k ELSE k + 1
    BY <1>3
  <2>3. m = n
    BY <2>1, <2>2, <1>7, ZenonT(30) DEF Mirrors
  <2>4. QED
    BY <2>1, <2>2, <2>3, <1>1
<1>8. Mirrors(t, bs \ {b})
  BY <1>5, <1>6, <1>7, ZenonT(30) DEF Mirrors
<1>9. QED
  BY <1>8 DEF t

-----------------------------------------------------------------------------
(* A fresh process has an empty pool and an empty list.                     *)
LEMMA InitIInv == Init => IInv
<1> SUFFICES ASSUME Init PROVE IInv
  OBVIOUS
<1>1. root_info \in Seq(PoolInfos)
  BY DEF Init
<1>2. TypeOK /\ NoFreeError
  BY <1>1, Zenon DEF Init, TypeOK, NoFreeError
<1>3. Len(root_info) = 0 /\ blocks = {}
  BY DEF Init
<1>4. PoolDisjoint /\ Mirrors(root_info, blocks) /\ AbsIsOffset /\ Counted
  BY <1>3 DEF PoolDisjoint, Mirrors, AbsIsOffset, Counted
<1>5. QED
  BY <1>2, <1>4 DEF IInv, PoolInv, RegistryMirrorsPool

(* Two live blocks with the same address are the same block.                *)
LEMMA SameAddr ==
    ASSUME TypeOK, PoolDisjoint, NEW b \in blocks, NEW c \in blocks, b.addr = c.addr
    PROVE  b = c
<1>1. /\ b.addr \in Int /\ b.size \in Int /\ b.size >= 1
      /\ c.addr \in Int /\ c.size \in Int /\ c.size >= 1
  BY PoolAssumption DEF TypeOK, Blocks, Addrs
<1>2. Overlap(b, c)
  BY <1>1 DEF Overlap
<1>3. QED
  BY <1>2 DEF PoolDisjoint

(* A block the allocator returns starts where no live block starts.         *)
LEMMA FitsApart ==
    ASSUME pool_allocator \in Bases, NEW bs \in SUBSET Blocks, NEW b \in Blocks, Fits(b, bs)
    PROVE  /\ \A c \in bs : c.addr # b.addr
           /\ \A c \in bs : ~ Overlap(b, c) /\ ~ Overlap(c, b)
BY PoolAssumption DEF Fits, Overlap, Blocks, Addrs

(* The infos after the list operations are those there were, and the new    *)
(* one.                                                                     *)
LEMMA PushElements ==
    ASSUME NEW x \in PoolInfos, NEW s \in Seq(PoolInfos), NEW i \in 1 .. Len(<<x>> \o s)
    PROVE  (<<x>> \o s)[i] = x \/ \E j \in 1 .. Len(s) : (<<x>> \o s)[i] = s[j]
<1> DEFINE t == <<x>> \o s
<1>1. /\ Len(t) = Len(s) + 1 /\ t[1] = x /\ Len(s) \in Nat
      /\ \A j \in 2 .. Len(s) + 1 : t[j] = s[j - 1]
  BY PushSeq
<1> HIDE DEF t
<1>2. i = 1 \/ (i - 1 \in 1 .. Len(s) /\ t[i] = s[i - 1])
  BY <1>1 DEF t
<1>3. t[i] = x \/ \E j \in 1 .. Len(s) : t[i] = s[j]
  BY <1>1, <1>2
<1> QED BY <1>3 DEF t

LEMMA RemoveInfoElements ==
    ASSUME NEW s \in Seq(PoolInfos), NEW i \in 1 .. Len(s),
           NEW j \in 1 .. Len(RemoveInfo(s, i))
    PROVE  \E k \in 1 .. Len(s) : RemoveInfo(s, i)[j] = s[k]
<1>1. PICK t : t = RemoveInfo(s, i)
  BY ZenonT(30)
<1>2. /\ Len(RemoveInfo(s, i)) = Len(s) - 1
      /\ \A k \in 1 .. Len(s) - 1 :
            RemoveInfo(s, i)[k] = IF k < i THEN s[k] ELSE s[k + 1]
  BY RemoveInfoSeq, ZenonT(30)
<1>3. /\ Len(t) = Len(s) - 1 /\ j \in 1 .. Len(t)
      /\ \A k \in 1 .. Len(s) - 1 : t[k] = IF k < i THEN s[k] ELSE s[k + 1]
  BY <1>1, <1>2, ZenonT(30)
<1>4. Len(s) \in Nat
  OBVIOUS
<1>5. \E k \in 1 .. Len(s) : t[j] = s[k]
  BY <1>3, <1>4, SMTT(30)
<1> QED BY <1>1, <1>5, ZenonT(30)

(* The infos there were keep their offsets.                                 *)
LEMMA KeptOffsets ==
    ASSUME pool_allocator' = pool_allocator, AbsIsOffset,
           \A j \in 1 .. Len(root_info') :
              \/ HasOffsets(root_info'[j])
              \/ \E k \in 1 .. Len(root_info) : root_info'[j] = root_info[k]
    PROVE  AbsIsOffset'
<1>1. ASSUME NEW j \in 1 .. Len(root_info') PROVE HasOffsets(root_info'[j])
  BY <1>1 DEF AbsIsOffset
<1> QED BY <1>1 DEF AbsIsOffset, HasOffsets, InfoCount

(* A registered block has one info, which free_info finds.                  *)
LEMMA BlockFound ==
    ASSUME PoolInv, NEW b \in blocks
    PROVE  \E i \in 1 .. Len(root_info) : FirstRaw(b.addr, root_info) = {i}
<1>1. root_info \in Seq(PoolInfos) /\ Mirrors(root_info, blocks)
  BY DEF PoolInv, TypeOK, RegistryMirrorsPool
<1>2. PICK i \in 1 .. Len(root_info) : root_info[i].p_raw = b.addr
  BY <1>1 DEF Mirrors, Describes
<1>3. FirstRaw(b.addr, root_info) = {i}
  BY <1>1, <1>2, FirstRawFound, ZenonT(30) DEF Mirrors
<1> QED BY <1>3

-----------------------------------------------------------------------------
(* A new block with an info x of its own: wasm_runtime_malloc with          *)
(* alloc_info*, or a restore, whose infos have the p_abs of another process.*)
LEMMA AllocStep ==
    ASSUME PoolInv, NEW b \in Blocks, Fits(b, blocks),
           NEW x \in PoolInfos, Describes(x, b), Len(x.abs) = InfoCount(x),
           pool_allocator' = pool_allocator, exited' = exited,
           blocks' = blocks \cup {b}, root_info' = <<x>> \o root_info
    PROVE  PoolInv' /\ (AbsIsOffset /\ HasOffsets(x) => AbsIsOffset')
<1>1. /\ pool_allocator \in Bases /\ blocks \subseteq Blocks
      /\ root_info \in Seq(PoolInfos) /\ Mirrors(root_info, blocks)
      /\ TypeOK /\ PoolDisjoint /\ Counted
  BY DEF PoolInv, TypeOK, RegistryMirrorsPool
<1>2. /\ \A c \in blocks : c.addr # b.addr
      /\ \A c \in blocks : ~ Overlap(b, c) /\ ~ Overlap(c, b)
  BY <1>1, FitsApart
<1>3. TypeOK'
  BY <1>1, PushSeq DEF TypeOK, Blocks, Addrs
<1>4. PoolDisjoint'
  BY <1>1, <1>2 DEF PoolDisjoint, Fits, Overlap
<1>5. Mirrors(root_info', blocks')
  BY <1>1, <1>2, AddMirrors
<1>6. \A i \in 1 .. Len(root_info') :
         root_info'[i] = x \/ \E j \in 1 .. Len(root_info) : root_info'[i] = root_info[j]
  BY <1>1, PushElements
<1>7. Counted'
  BY <1>1, <1>6, ZenonT(30) DEF Counted, InfoCount
<1>8. AbsIsOffset /\ HasOffsets(x) => AbsIsOffset'
  BY <1>6, KeptOffsets
<1> QED BY <1>3, <1>4, <1>5, <1>7, <1>8 DEF PoolInv, RegistryMirrorsPool

(* wasm_runtime_free with free_info, which finds the block.                 *)
LEMMA FreeStep ==
    ASSUME PoolInv, NEW b \in blocks, Free(b)
    PROVE  PoolInv' /\ (AbsIsOffset => AbsIsOffset') /\ exited' = exited
<1>1. /\ pool_allocator \in Bases /\ blocks \subseteq Blocks
      /\ root_info \in Seq(PoolInfos) /\ Mirrors(root_info, blocks)
      /\ TypeOK /\ PoolDisjoint /\ Counted
  BY DEF PoolInv, TypeOK, RegistryMirrorsPool
<1>2. \A c, d \in blocks : c.addr = d.addr => c = d
  BY <1>1, SameAddr
<1>3. PICK i \in 1 .. Len(root_info) : FirstRaw(b.addr, root_info) = {i}
  BY BlockFound
<1>4. /\ pool_allocator' = pool_allocator /\ exited' = exited
      /\ blocks' = blocks \ {b} /\ root_info' = RemoveInfo(root_info, i)
  BY <1>3 DEF Free
<1>5. TypeOK'
  BY <1>1, <1>4, RemoveInfoSeq DEF TypeOK, Blocks, Addrs
<1>6. PoolDisjoint'
  BY <1>1, <1>4 DEF PoolDisjoint, Overlap
<1>7. Mirrors(root_info', blocks')
  BY <1>1, <1>2, <1>3, <1>4, RemoveMirrors
<1>8. \A j \in 1 .. Len(root_info') : \E k \in 1 .. Len(root_info) : root_info'[j] = root_info[k]
  BY <1>1, <1>4, RemoveInfoElements
<1>9. Counted'
  BY <1>1, <1>8 DEF Counted, InfoCount
<1>10. AbsIsOffset => AbsIsOffset'
  BY <1>4, <1>8, KeptOffsets
<1> QED BY <1>4, <1>5, <1>6, <1>7, <1>9, <1>10 DEF PoolInv, RegistryMirrorsPool

(* wasm_enlarge_memory, in place or elsewhere.                              *)
LEMMA EnlargeStep ==
    ASSUME PoolInv, NEW b \in blocks, NEW c \in Blocks, Enlarge(b, c)
    PROVE  PoolInv' /\ (AbsIsOffset => AbsIsOffset') /\ exited' = exited
<1>1. /\ pool_allocator \in Bases /\ blocks \subseteq Blocks
      /\ root_info \in Seq(PoolInfos) /\ Mirrors(root_info, blocks)
      /\ TypeOK /\ PoolDisjoint /\ Counted
  BY DEF PoolInv, TypeOK, RegistryMirrorsPool
<1>2. \A d, e \in blocks : d.addr = e.addr => d = e
  BY <1>1, SameAddr
<1>3. PICK i \in 1 .. Len(root_info) : FirstRaw(b.addr, root_info) = {i}
  BY BlockFound
<1> DEFINE s == RemoveInfo(root_info, i)
           bs == blocks \ {b}
<1>4. /\ pool_allocator' = pool_allocator /\ exited' = exited
      /\ blocks' = bs \cup {c} /\ root_info' = <<NewInfo(c)>> \o s
  BY <1>3 DEF Enlarge, AddInfo
<1>5. Fits(c, bs)
  BY DEF Enlarge, Fits
<1>6. s \in Seq(PoolInfos) /\ bs \in SUBSET Blocks
  BY <1>1, RemoveInfoSeq
<1>7. Mirrors(s, bs)
  BY <1>1, <1>2, <1>3, RemoveMirrors
<1>8. \A j \in 1 .. Len(s) : \E k \in 1 .. Len(root_info) : s[j] = root_info[k]
  BY <1>1, RemoveInfoElements
<1>9. /\ \A d, e \in bs : d # e => ~ Overlap(d, e)
      /\ \A d \in bs : d.addr + d.size - 1 <= pool_allocator + PoolSize
  BY <1>1 DEF PoolDisjoint
<1> HIDE DEF s, bs
<1>10. /\ \A d \in bs : d.addr # c.addr
       /\ \A d \in bs : ~ Overlap(c, d) /\ ~ Overlap(d, c)
  BY <1>1, <1>5, <1>6, FitsApart
<1>11. TypeOK'
  <2>1. root_info' \in Seq(PoolInfos)
    BY <1>1, <1>4, <1>6, NewInfoType, PushSeq
  <2>2. blocks' \subseteq Blocks'
    BY <1>4, <1>6 DEF Blocks, Addrs
  <2>3. exited' \in BOOLEAN /\ pool_allocator' \in Bases
    BY <1>1, <1>4, ZenonT(30) DEF TypeOK
  <2> QED BY <2>1, <2>2, <2>3, ZenonT(30) DEF TypeOK
<1>12. PoolDisjoint'
  BY <1>4, <1>5, <1>9, <1>10 DEF PoolDisjoint, Fits, Overlap
<1>13. Mirrors(root_info', blocks')
  BY <1>1, <1>4, <1>6, <1>7, <1>10, NewInfoType, AddMirrors
<1>14. HasOffsets(NewInfo(c)) /\ \A j \in 1 .. Len(root_info') :
         root_info'[j] = NewInfo(c) \/ \E k \in 1 .. Len(root_info) : root_info'[j] = root_info[k]
  <2>1. HasOffsets(NewInfo(c)) /\ \A j \in 1 .. Len(root_info') :
           root_info'[j] = NewInfo(c) \/ \E k \in 1 .. Len(s) : root_info'[j] = s[k]
    BY <1>1, <1>4, <1>6, NewInfoType, PushElements
  <2> QED BY <1>8, <2>1
<1>15. Counted'
  BY <1>1, <1>14, ZenonT(30) DEF Counted, HasOffsets, InfoCount
<1>16. AbsIsOffset => AbsIsOffset'
  BY <1>4, <1>14, KeptOffsets
<1> QED BY <1>4, <1>11, <1>12, <1>13, <1>15, <1>16 DEF PoolInv, RegistryMirrorsPool

(* Every step of the registry preserves the inductive invariant.            *)
LEMMA NextIInv == IInv /\ [Next]_poolVars => IInv'
<1> SUFFICES ASSUME IInv, [Next]_poolVars PROVE IInv'
  OBVIOUS
<1>1. PoolInv /\ AbsIsOffset /\ exited = FALSE
  BY DEF IInv, PoolInv, TypeOK, NoFreeError
<1>2. ASSUME NEW b \in Blocks, Alloc(b) PROVE IInv'
  <2>1. PoolInv' /\ AbsIsOffset' /\ exited' = exited
    <3>1. /\ NewInfo(b) \in PoolInfos /\ Describes(NewInfo(b), b)
          /\ HasOffsets(NewInfo(b)) /\ Len(NewInfo(b).abs) = InfoCount(NewInfo(b))
      BY <1>1, NewInfoType DEF PoolInv, TypeOK, HasOffsets
    <3> QED BY <1>1, <1>2, <3>1, AllocStep DEF Alloc, AddInfo
  <2> QED BY <1>1, <2>1 DEF IInv, NoFreeError
<1>3. ASSUME NEW b \in blocks, Free(b) PROVE IInv'
  BY <1>1, <1>3, FreeStep DEF IInv, NoFreeError
<1>4. ASSUME NEW b \in blocks, NEW c \in Blocks, Enlarge(b, c) PROVE IInv'
  BY <1>1, <1>4, EnlargeStep DEF IInv, NoFreeError
<1>5. CASE UNCHANGED poolVars
  BY <1>5 DEF poolVars, IInv, PoolInv, TypeOK, PoolDisjoint, RegistryMirrorsPool, Counted,
              AbsIsOffset, NoFreeError, Mirrors, HasOffsets, InfoCount, Blocks, Addrs
<1> QED BY <1>2, <1>3, <1>4, <1>5 DEF Next

(* Blocks that share an address overlap.                                    *)
LEMMA SharedUnit ==
    ASSUME NEW x \in Int, NEW m \in Int, NEW y \in Int, NEW n \in Int,
           NEW k \in Int, NEW l \in Int, 1 <= k, k <= m, 1 <= l, l <= n, x + k = y + l
    PROVE  x < y + n /\ y < x + m
OBVIOUS

(* The list mirrors the pool and no p_abs is there twice: two elements with *)
(* the same offset lie in overlapping blocks, which are one block.          *)
LEMMA IInvUnique == IInv => AbsUnique
<1> SUFFICES ASSUME IInv,
                    NEW i \in 1 .. Len(root_info), NEW j \in 1 .. Len(root_info),
                    NEW k \in 1 .. Len(root_info[i].abs), NEW l \in 1 .. Len(root_info[j].abs),
                    root_info[i].abs[k] = root_info[j].abs[l]
             PROVE  i = j /\ k = l
  BY DEF AbsUnique
<1>1. /\ TypeOK /\ PoolDisjoint /\ Mirrors(root_info, blocks)
      /\ HasOffsets(root_info[i]) /\ HasOffsets(root_info[j])
      /\ pool_allocator \in Int
  BY PoolAssumption DEF IInv, PoolInv, RegistryMirrorsPool, AbsIsOffset, TypeOK
<1>2. PICK b \in blocks : Describes(root_info[i], b)
  BY <1>1 DEF Mirrors
<1>3. PICK c \in blocks : Describes(root_info[j], c)
  BY <1>1 DEF Mirrors
<1>4. /\ b.addr \in Int /\ b.size \in Int /\ b.size >= 1
      /\ c.addr \in Int /\ c.size \in Int /\ c.size >= 1
  BY <1>1, PoolAssumption, SMTT(30) DEF TypeOK, Blocks, Addrs
<1>5. k \in Int /\ 1 <= k /\ k <= b.size
  BY <1>1, <1>2, <1>4 DEF HasOffsets, InfoCount, Describes
<1>6. l \in Int /\ 1 <= l /\ l <= c.size
  BY <1>1, <1>3, <1>4 DEF HasOffsets, InfoCount, Describes
<1>7. b.addr + k = c.addr + l
  <2>1. root_info[i].abs[k] = b.addr + k - 1 - pool_allocator
    BY <1>1, <1>2 DEF HasOffsets, Describes
  <2>2. root_info[j].abs[l] = c.addr + l - 1 - pool_allocator
    BY <1>1, <1>3 DEF HasOffsets, Describes
  <2>3. b.addr + k - 1 - pool_allocator = c.addr + l - 1 - pool_allocator
    BY <2>1, <2>2, ZenonT(30)
  <2>4. /\ b.addr \in Int /\ c.addr \in Int /\ k \in Int /\ l \in Int
        /\ pool_allocator \in Int
    BY <1>1, <1>4, <1>5, <1>6
  <2>5. QED
    BY ONLY <2>3, <2>4, SMTT(30)
<1>8. Overlap(b, c)
  BY <1>4, <1>5, <1>6, <1>7, SharedUnit, ZenonT(30) DEF Overlap
<1>9. b = c
  BY <1>1, <1>8 DEF PoolDisjoint
<1>10. i = j
  BY <1>1, <1>2, <1>3, <1>9 DEF Mirrors, Describes
<1>11. QED
  BY <1>4, <1>5, <1>6, <1>7, <1>9, <1>10

(* The inductive invariant holds in every behaviour of the registry.        *)
THEOREM RegistryInductive == Spec => []IInv
BY InitIInv, NextIInv, PTL DEF Spec

(* alloc_info*, wasm_runtime_free and wasm_enlarge_memory keep root_info a  *)
(* mirror of the pool, whatever the pool.                                   *)
THEOREM RegistryCorrect == Spec => [](TypeOK /\ RegistryMirrorsPool)
<1>1. IInv => TypeOK /\ RegistryMirrorsPool
  BY DEF IInv, PoolInv
<1>2. QED
  BY <1>1, RegistryInductive, PTL

(* free_info never fails: the process does not end for a block that it      *)
(* allocated.                                                               *)
THEOREM FreeCorrect == Spec => []NoFreeError
<1>1. IInv => NoFreeError
  BY DEF IInv
<1> QED BY <1>1, RegistryInductive, PTL

(* Every p_abs that a checkpoint could write names one registered element.  *)
THEOREM AbsUniqueCorrect == Spec => []AbsUnique
BY IInvUnique, RegistryInductive, PTL

-----------------------------------------------------------------------------

(* Induction over the naturals, for a set.                                  *)
LEMMA NatSet ==
    ASSUME NEW S \in SUBSET Nat, 0 \in S, \A n \in S : n + 1 \in S
    PROVE  S = Nat
<1> SUFFICES ASSUME Nat \ S # {} PROVE FALSE
  BY ZenonT(30)
<1> DEFINE R == OpToRel(<, Nat)
           T == Nat \ S
<1>1. IsWellFoundedOn(R, Nat)
  BY NatLessThanWellFounded
<1>2. \A i, j \in Nat : j < i => <<j, i>> \in R
  BY DEF OpToRel
<1> HIDE DEF R
<1>3. PICK i \in T : \A j \in T : ~(<<j, i>> \in R)
  <2>1. T \subseteq Nat /\ T # {}
    OBVIOUS
  <2> HIDE DEF T
  <2> QED BY <1>1, <2>1, WFMin, ZenonT(30)
<1>4. i \in Nat /\ i # 0
  OBVIOUS
<1>5. i - 1 \in Nat /\ i - 1 < i /\ (i - 1) + 1 = i
  BY <1>4
<1>6. i - 1 \in S
  BY <1>2, <1>3, <1>4, <1>5, ZenonT(30)
<1> QED BY <1>5, <1>6

-----------------------------------------------------------------------------
(* The loop of dump_runtime after the first n infos: what it has kept.      *)
Walk(s, n, f) ==
    f = [m \in 0 .. n |->
            IF m = 0 THEN <<>>
            ELSE IF s[m].type = "skip" THEN f[m - 1] ELSE Append(f[m - 1], s[m])]

(* t has the infos among the first n of s that are not skipped, each once.  *)
KeptOf(s, n, t) ==
    /\ t \in Seq(PoolInfos)
    /\ \A k \in 1 .. Len(t) : \E i \in 1 .. n : t[k] = s[i] /\ s[i].type # "skip"
    /\ \A i \in 1 .. n : s[i].type # "skip" => \E k \in 1 .. Len(t) : t[k] = s[i]
    /\ \A k, l \in 1 .. Len(t) : t[k].p_raw = t[l].p_raw => k = l

LEMMA WalkExists ==
    ASSUME NEW s
    PROVE  \A n \in Nat : \E f : Walk(s, n, f)
<1> DEFINE S == {n \in Nat : \E f : Walk(s, n, f)}
<1>1. 0 \in S
  <2> DEFINE f == [m \in 0 .. 0 |-> <<>>]
  <2>1. Walk(s, 0, f)
    BY DEF Walk
  <2> QED BY <2>1
<1>2. ASSUME NEW n \in S PROVE n + 1 \in S
  <2>1. PICK f : Walk(s, n, f)
    OBVIOUS
  <2> DEFINE g == [m \in 0 .. n + 1 |-> IF m <= n THEN f[m]
                     ELSE IF s[m].type = "skip" THEN f[m - 1] ELSE Append(f[m - 1], s[m])]
  <2>2. n \in Nat
    OBVIOUS
  <2>3. \A m \in 0 .. n : g[m] = f[m]
    BY <2>2
  <2>4. \A m \in 0 .. n : f[m] = IF m = 0 THEN <<>>
            ELSE IF s[m].type = "skip" THEN f[m - 1] ELSE Append(f[m - 1], s[m])
    BY <2>1, <2>2, ZenonT(30) DEF Walk
  <2>5. ASSUME NEW m \in 0 .. n + 1
        PROVE  g[m] = IF m = 0 THEN <<>>
            ELSE IF s[m].type = "skip" THEN g[m - 1] ELSE Append(g[m - 1], s[m])
    <3>1. CASE m <= n
      <4>1. m = 0 \/ m - 1 \in 0 .. n
        BY <2>2, <3>1
      <4> HIDE DEF g
      <4> QED BY <2>2, <2>3, <2>4, <3>1, <4>1
    <3>2. CASE m = n + 1
      <4>1. m - 1 \in 0 .. n /\ m # 0 /\ ~(m <= n)
        BY <2>2, <3>2
      <4>2. g[m] = IF s[m].type = "skip" THEN f[m - 1] ELSE Append(f[m - 1], s[m])
        BY <4>1
      <4> HIDE DEF g
      <4> QED BY <2>3, <4>1, <4>2
    <3> QED BY <2>2, <3>1, <3>2
  <2>6. Walk(s, n + 1, g)
    <3>1. g = [m \in 0 .. n + 1 |-> g[m]]
      OBVIOUS
    <3> HIDE DEF g
    <3> QED BY <2>5, <3>1, ZenonT(30) DEF Walk
  <2> QED BY <2>2, <2>6
<1>3. S = Nat
  <2> HIDE DEF S
  <2>1. S \in SUBSET Nat
    BY DEF S
  <2> QED BY <1>1, <1>2, <2>1, NatSet
<1> QED BY <1>3

(* One iteration: the next info is left out or appended.                    *)
LEMMA KeepsOne ==
    ASSUME NEW s \in Seq(PoolInfos), NEW n \in Nat, n + 1 <= Len(s),
           \A i, j \in 1 .. Len(s) : s[i].p_raw = s[j].p_raw => i = j,
           NEW t, KeptOf(s, n, t)
    PROVE  KeptOf(s, n + 1, IF s[n + 1].type = "skip" THEN t ELSE Append(t, s[n + 1]))
<1> DEFINE x == s[n + 1]
<1>1. n + 1 \in 1 .. Len(s) /\ x \in PoolInfos /\ t \in Seq(PoolInfos) /\ Len(t) \in Nat
  BY DEF KeptOf
<1>2. CASE x.type = "skip"
  <2>1. \A i \in 1 .. n + 1 : i = n + 1 \/ i \in 1 .. n
    OBVIOUS
  <2>2. 1 .. n \subseteq 1 .. n + 1
    OBVIOUS
  <2>3. KeptOf(s, n + 1, t)
    BY <1>2, <2>1, <2>2, ZenonT(30) DEF KeptOf
  <2> QED BY <1>2, <2>3
<1>3. CASE x.type # "skip"
  <2> DEFINE u == Append(t, x)
  <2>1. /\ u \in Seq(PoolInfos) /\ Len(u) = Len(t) + 1 /\ u[Len(t) + 1] = x
        /\ \A k \in 1 .. Len(t) : u[k] = t[k]
    BY <1>1
  <2> HIDE DEF u
  <2>2. ASSUME NEW k \in 1 .. Len(u)
        PROVE  \E i \in 1 .. n + 1 : u[k] = s[i] /\ s[i].type # "skip"
    <3>1. CASE k = Len(t) + 1
      BY <1>1, <1>3, <2>1, <3>1
    <3>2. CASE k \in 1 .. Len(t)
      <4>1. PICK i \in 1 .. n : t[k] = s[i] /\ s[i].type # "skip"
        BY <3>2 DEF KeptOf
      <4>2. i \in 1 .. n + 1 /\ u[k] = s[i]
        BY <2>1, <3>2, <4>1
      <4> QED BY <4>1, <4>2
    <3> QED BY <1>1, <2>1, <3>1, <3>2
  <2>3. ASSUME NEW i \in 1 .. n + 1, s[i].type # "skip"
        PROVE  \E k \in 1 .. Len(u) : u[k] = s[i]
    <3>1. CASE i = n + 1
      <4>1. Len(t) + 1 \in 1 .. Len(u) /\ u[Len(t) + 1] = s[i]
        BY <1>1, <2>1, <3>1
      <4> QED BY <4>1
    <3>2. CASE i \in 1 .. n
      <4>1. PICK k \in 1 .. Len(t) : t[k] = s[i]
        BY <2>3, <3>2 DEF KeptOf
      <4>2. k \in 1 .. Len(u) /\ u[k] = s[i]
        BY <1>1, <2>1, <4>1
      <4> QED BY <4>2
    <3> QED BY <3>1, <3>2
  <2>4. \A k \in 1 .. Len(t) : t[k].p_raw # x.p_raw
    <3>1. ASSUME NEW k \in 1 .. Len(t), t[k].p_raw = x.p_raw PROVE FALSE
      <4>1. PICK i \in 1 .. n : t[k] = s[i]
        BY DEF KeptOf
      <4>2. i \in 1 .. Len(s) /\ i # n + 1 /\ s[i].p_raw = s[n + 1].p_raw
        BY <1>1, <3>1, <4>1
      <4> QED BY <1>1, <4>2
    <3> QED BY <3>1
  <2>5. ASSUME NEW k \in 1 .. Len(u), NEW l \in 1 .. Len(u), u[k].p_raw = u[l].p_raw
        PROVE  k = l
    <3>1. \A m \in 1 .. Len(u) : m = Len(t) + 1 \/ (m \in 1 .. Len(t) /\ u[m] = t[m])
      BY <1>1, <2>1
    <3>2. \A m, o \in 1 .. Len(t) : t[m].p_raw = t[o].p_raw => m = o
      BY DEF KeptOf
    <3> QED BY <2>1, <2>4, <2>5, <3>1, <3>2
  <2>6. KeptOf(s, n + 1, u)
    BY <2>1, <2>2, <2>3, <2>5 DEF KeptOf
  <2> QED BY <1>3, <2>6 DEF u
<1> QED BY <1>2, <1>3

(* dump_runtime keeps the infos that are not skipped, each once.            *)
LEMMA DumpedKept ==
    ASSUME NEW s \in Seq(PoolInfos),
           \A i, j \in 1 .. Len(s) : s[i].p_raw = s[j].p_raw => i = j
    PROVE  KeptOf(s, Len(s), Dumped(s))
<1> DEFINE N == Len(s)
           f == CHOOSE g : Walk(s, N, g)
<1>1. N \in Nat /\ Walk(s, N, f)
  BY WalkExists
<1>2. Dumped(s) = f[N]
  BY DEF Dumped, Walk
<1> HIDE DEF f
<1>3. \A m \in 0 .. N : f[m] = IF m = 0 THEN <<>>
            ELSE IF s[m].type = "skip" THEN f[m - 1] ELSE Append(f[m - 1], s[m])
  BY <1>1, ZenonT(30) DEF Walk
<1> DEFINE S == {n \in Nat : n <= N => KeptOf(s, n, f[n])}
<1>4. 0 \in S
  <2>1. f[0] = <<>>
    BY <1>1, <1>3
  <2>2. KeptOf(s, 0, <<>>)
    BY DEF KeptOf
  <2> QED BY <2>1, <2>2
<1>5. ASSUME NEW n \in S PROVE n + 1 \in S
  <2>1. SUFFICES ASSUME n + 1 <= N PROVE KeptOf(s, n + 1, f[n + 1])
    OBVIOUS
  <2>2. n \in Nat /\ n <= N /\ KeptOf(s, n, f[n])
    BY <1>1, <2>1
  <2>3. f[n + 1] = IF s[n + 1].type = "skip" THEN f[n] ELSE Append(f[n], s[n + 1])
    <3>1. n + 1 \in 0 .. N /\ n + 1 # 0 /\ (n + 1) - 1 = n
      BY <1>1, <2>1, <2>2
    <3> QED BY <1>3, <3>1
  <2> QED BY <2>1, <2>2, <2>3, KeepsOne, ZenonT(30)
<1>6. N \in S
  <2> HIDE DEF S
  <2>1. S \in SUBSET Nat
    BY DEF S
  <2> QED BY <1>1, <1>4, <1>5, <2>1, NatSet
<1> QED BY <1>1, <1>2, <1>6

-----------------------------------------------------------------------------
(* A pointer of the old process as the images have it.                      *)
Away(p) == IF p = NULL THEN AbsNull ELSE p - snap.base

(* The block that the i-th record of pool_info.img stands for.              *)
Original(i) == [addr |-> snap.base + pool_img[i].abs[1], size |-> pool_img[i].size,
                type |-> pool_img[i].type]

(* What was in the pool at the last checkpoint.                             *)
SnapInv ==
    /\ snap.base \in Bases
    /\ snap.blocks \subseteq [addr : snap.base + 1 .. snap.base + PoolSize,
                              size : 1 .. MaxSize, type : Types]
    /\ \A b, c \in snap.blocks : b # c => ~ Overlap(b, c)
    /\ DOMAIN snap.mem = PtrUnits(snap.blocks)
    /\ \A u \in DOMAIN snap.mem : snap.mem[u] \in Elements(snap.blocks) \cup {NULL}

(* The i-th records are those of one block, with every p_abs its offset in  *)
(* the old pool and every pointer the offset of its target.                 *)
RecordOf(i) ==
    /\ Original(i) \in snap.blocks /\ pool_img[i].type # "skip"
    /\ pool_img[i].abs \in Seq(Int) /\ Len(pool_img[i].abs) = InfoCount(Original(i))
    /\ \A k \in 1 .. Len(pool_img[i].abs) :
          pool_img[i].abs[k] = Original(i).addr + k - 1 - snap.base
    /\ dump_img[i].abs = pool_img[i].abs[1]
    /\ Len(dump_img[i].ptrs) = IF pool_img[i].type = "buf" THEN 0 ELSE pool_img[i].size
    /\ \A k \in 1 .. Len(dump_img[i].ptrs) :
          dump_img[i].ptrs[k] = Away(snap.mem[Original(i).addr + k - 1])

ImageInv ==
    /\ Len(pool_img) \in Nat /\ Len(dump_img) = Len(pool_img)
    /\ \A i \in 1 .. Len(pool_img) : RecordOf(i)
    /\ \A b \in snap.blocks : b.type # "skip" => \E i \in 1 .. Len(pool_img) : Original(i) = b
    /\ \A i, j \in 1 .. Len(pool_img) : Original(i) = Original(j) => i = j
    /\ interp_img = Away(snap.local)

(* The objects and the pointers of the process.                             *)
MemInv ==
    /\ DOMAIN mem = PtrUnits(blocks)
    /\ \A u \in DOMAIN mem : mem[u] \in Elements(blocks) \cup {NULL}
    /\ phase \in Phases /\ migr_flag \in BOOLEAN /\ gen \in 0 .. MaxGen /\ pos \in Nat
    /\ phase = "down" => blocks = {}

(* A process that was never restored has its own offsets as p_abs.          *)
RunInv == phase = "run" /\ ~ migr_flag => AbsIsOffset

(* The records that are allocated so far, the last one in front, and the    *)
(* info of the i-th of them.                                                *)
Allocated == IF phase = "alloc" THEN pos - 1 ELSE Len(pool_img)

Copy(i) == root_info[Len(root_info) - i]

Restoring == phase \in {"alloc", "fill", "wasi", "interp"}

(* The copies have the p_abs of the old process.  Behind them is the info   *)
(* that the new process began with; the one of the WASIContext, which is    *)
(* not restored, may be in front of them.                                   *)
CopyInv ==
    Restoring =>
        /\ phase = "alloc" => pos \in 1 .. Len(pool_img) + 1
        /\ \/ Len(root_info) = Allocated + 1
           \/ phase = "interp" /\ Len(root_info) = Allocated + 2 /\ root_info[1].type = "skip"
        /\ root_info[Len(root_info)].type = "skip"
        /\ \A i \in 1 .. Allocated :
              /\ Copy(i).abs = pool_img[i].abs
              /\ Copy(i).type = pool_img[i].type /\ Copy(i).size = pool_img[i].size

(* The copies that are filled have the pointers of their records.           *)
FillInv ==
    phase \in {"fill", "wasi"} =>
        /\ pos \in 1 .. Len(dump_img) + 1
        /\ phase = "wasi" => pos = Len(dump_img) + 1
        /\ \A i \in 1 .. pos - 1 : \A k \in 1 .. Len(dump_img[i].ptrs) :
              mem[Copy(i).p_raw + k - 1] = RestorePtr(dump_img[i].ptrs[k], root_info)

(* The inductive invariant.                                                 *)
MInv == /\ PoolInv /\ MemInv /\ SnapInv /\ ImageInv
        /\ RunInv /\ CopyInv /\ FillInv /\ NoRestoreError

-----------------------------------------------------------------------------
(* A block of the old pool, and the elements of it that have an info.       *)
LEMMA OldBlock ==
    ASSUME SnapInv, NEW b \in snap.blocks
    PROVE  /\ snap.base \in Nat /\ b.addr \in Int /\ b.addr > snap.base
           /\ b.size \in Int /\ b.size >= 1 /\ b.size <= MaxSize
           /\ InfoCount(b) \in Int /\ 1 <= InfoCount(b) /\ InfoCount(b) <= b.size
<1>1. /\ snap.base \in Nat /\ PoolSize \in Nat /\ MaxSize \in Nat
      /\ b \in [addr : snap.base + 1 .. snap.base + PoolSize, size : 1 .. MaxSize, type : Types]
  BY PoolAssumption, ZenonT(30) DEF SnapInv
<1>2. /\ b.addr \in snap.base + 1 .. snap.base + PoolSize /\ b.size \in 1 .. MaxSize
  BY <1>1, ZenonT(30)
<1> QED BY ONLY <1>1, <1>2 DEF InfoCount

(* The records of a block.                                                  *)
LEMMA Record ==
    ASSUME SnapInv, ImageInv, NEW i \in 1 .. Len(pool_img)
    PROVE  /\ RecordOf(i) /\ Original(i) \in snap.blocks
           /\ Original(i).size = pool_img[i].size /\ Original(i).type = pool_img[i].type
           /\ Len(pool_img[i].abs) = InfoCount(Original(i))
           /\ Len(pool_img[i].abs) \in Nat /\ 1 \in 1 .. Len(pool_img[i].abs)
           /\ Len(pool_img[i].abs) <= MaxSize
<1>1. RecordOf(i)
  BY DEF ImageInv
<1>2. Original(i) \in snap.blocks /\ Len(pool_img[i].abs) = InfoCount(Original(i))
  BY <1>1 DEF RecordOf
<1>3. Original(i).size = pool_img[i].size /\ Original(i).type = pool_img[i].type
  BY DEF Original
<1> QED BY <1>1, <1>2, <1>3, OldBlock, PoolAssumption

(* Two intervals that have an element in common.                            *)
LEMMA Meet ==
    ASSUME NEW o \in Int, NEW a \in Int, NEW m \in Int, NEW c \in Int, NEW n \in Int,
           NEW k \in 1 .. m, NEW l \in 1 .. n, a + k - 1 - o = c + l - 1 - o
    PROVE  a < c + n /\ c < a + m /\ (a = c => k = l)
OBVIOUS

(* No p_abs is twice in pool_info.img: the blocks did not overlap.          *)
LEMMA AbsOnce ==
    ASSUME SnapInv, ImageInv,
           NEW i \in 1 .. Len(pool_img), NEW k \in 1 .. Len(pool_img[i].abs),
           NEW j \in 1 .. Len(pool_img), NEW l \in 1 .. Len(pool_img[j].abs),
           pool_img[i].abs[k] = pool_img[j].abs[l]
    PROVE  i = j /\ k = l
<1> DEFINE b == Original(i)
           c == Original(j)
<1>1. /\ b \in snap.blocks /\ c \in snap.blocks
      /\ pool_img[i].abs[k] = b.addr + k - 1 - snap.base
      /\ pool_img[j].abs[l] = c.addr + l - 1 - snap.base
      /\ k \in 1 .. InfoCount(b) /\ l \in 1 .. InfoCount(c)
  BY Record, ZenonT(30) DEF RecordOf
<1> HIDE DEF b, c
<1>2. /\ snap.base \in Int /\ b.addr \in Int /\ b.size \in Int
      /\ InfoCount(b) \in Int /\ InfoCount(b) <= b.size
  BY <1>1, OldBlock
<1>3. c.addr \in Int /\ c.size \in Int /\ InfoCount(c) \in Int /\ InfoCount(c) <= c.size
  BY <1>1, OldBlock
<1>4. k \in 1 .. b.size
  BY ONLY <1>1, <1>2
<1>5. l \in 1 .. c.size
  BY ONLY <1>1, <1>3
<1>6. b.addr + k - 1 - snap.base = c.addr + l - 1 - snap.base
  BY <1>1, ZenonT(30)
<1>7. b.addr < c.addr + c.size /\ c.addr < b.addr + b.size /\ (b.addr = c.addr => k = l)
  <2>1. PICK o \in Int, a \in Int, m \in Int, e \in Int, n \in Int :
           o = snap.base /\ a = b.addr /\ m = b.size /\ e = c.addr /\ n = c.size
    BY <1>2, <1>3, ZenonT(30)
  <2>2. k \in 1 .. m /\ l \in 1 .. n /\ a + k - 1 - o = e + l - 1 - o
    BY <1>4, <1>5, <1>6, <2>1, ZenonT(30)
  <2>3. a < e + n /\ e < a + m /\ (a = e => k = l)
    BY ONLY <2>2, Meet
  <2> QED BY <2>1, <2>3, ZenonT(30)
<1>8. b = c
  BY <1>1, <1>7, ZenonT(30) DEF SnapInv, Overlap
<1>9. i = j
  BY <1>8, ZenonT(30) DEF ImageInv, b, c
<1> QED BY <1>7, <1>8, <1>9, ZenonT(30)

(* Every address that a pointer of the old process could have is named.     *)
LEMMA ElementNamed ==
    ASSUME SnapInv, ImageInv, NEW x \in Elements(snap.blocks)
    PROVE  /\ x \in Int /\ x # NULL /\ Away(x) = x - snap.base /\ Away(x) # AbsNull
           /\ \E i \in 1 .. Len(pool_img) : \E k \in 1 .. Len(pool_img[i].abs) :
                 pool_img[i].abs[k] = Away(x) /\ x = Original(i).addr + k - 1
<1>1. PICK b \in snap.blocks : b.type # "skip" /\ x \in b.addr .. b.addr + InfoCount(b) - 1
  BY DEF Elements
<1>2. PICK i \in 1 .. Len(pool_img) : Original(i) = b
  BY <1>1 DEF ImageInv
<1> DEFINE k == x - b.addr + 1
<1>3. /\ x \in Int /\ x # 0 /\ x - snap.base # -1 /\ k \in 1 .. InfoCount(b)
      /\ b.addr + k - 1 = x /\ b.addr \in Int /\ snap.base \in Int /\ k \in Int
  BY <1>1, OldBlock, SMTT(30)
<1> HIDE DEF k
<1>4. /\ pool_img[i].abs[k] = b.addr + k - 1 - snap.base
      /\ k \in 1 .. Len(pool_img[i].abs)
  BY <1>2, <1>3, Record, SMTT(30) DEF RecordOf
<1>5. Away(x) = x - snap.base /\ x # NULL /\ Away(x) # AbsNull
  BY <1>3 DEF Away, NULL, AbsNull
<1>6. pool_img[i].abs[k] = Away(x) /\ x = Original(i).addr + k - 1
  <2>1. b.addr + k - 1 - snap.base = x - snap.base
    BY ONLY <1>3
  <2> QED BY <1>2, <1>3, <1>4, <1>5, <2>1, ZenonT(30)
<1> QED BY <1>3, <1>4, <1>5, <1>6

(* A pointer of a record was in a unit of its block.                        *)
LEMMA OldUnit ==
    ASSUME SnapInv, ImageInv, NEW i \in 1 .. Len(pool_img),
           NEW k \in 1 .. Len(dump_img[i].ptrs)
    PROVE  /\ dump_img[i].ptrs[k] = Away(snap.mem[Original(i).addr + k - 1])
           /\ Original(i).addr + k - 1 \in DOMAIN snap.mem
           /\ pool_img[i].type \in {"list", "ex"}
           /\ k \in Int /\ 1 <= k /\ k <= pool_img[i].size
<1> DEFINE b == Original(i)
<1>1. /\ b \in snap.blocks /\ b.type = pool_img[i].type /\ b.size = pool_img[i].size
      /\ pool_img[i].type # "skip" /\ dump_img[i].ptrs[k] = Away(snap.mem[b.addr + k - 1])
      /\ Len(dump_img[i].ptrs) = IF pool_img[i].type = "buf" THEN 0 ELSE pool_img[i].size
  BY Record, ZenonT(30) DEF RecordOf
<1> HIDE DEF b
<1>2. b.addr \in Int /\ b.size \in Int /\ b.size >= 1 /\ b.type \in Types
  BY <1>1, OldBlock DEF SnapInv
<1>3. pool_img[i].type # "buf" /\ k \in 1 .. b.size
  BY <1>1, <1>2
<1>4. b.type \in {"list", "ex"}
  BY <1>1, <1>2, <1>3 DEF Types
<1>5. b.addr + k - 1 \in b.addr .. b.addr + b.size - 1
  BY <1>2, <1>3
<1>6. b.addr + k - 1 \in PtrUnits(snap.blocks)
  BY <1>1, <1>4, <1>5 DEF PtrUnits
<1> QED BY <1>1, <1>2, <1>3, <1>4, <1>6 DEF SnapInv, b

(* The files of a checkpoint fit each other.                                *)
LEMMA Closed ==
    ASSUME SnapInv, ImageInv
    PROVE  ImageClosed
<1>1. ASSUME NEW i \in 1 .. Len(pool_img), NEW k \in 1 .. Len(pool_img[i].abs)
      PROVE  NamesOne(pool_img[i].abs[k])
  <2> DEFINE n == <<i, k>>
  <2>1. n \in Named
    <3>1. k <= Len(pool_img[i].abs) /\ k \in 1 .. MaxSize
      BY Record, PoolAssumption
    <3> QED BY <3>1 DEF Named
  <2>2. ASSUME NEW m \in Named, pool_img[m[1]].abs[m[2]] = pool_img[i].abs[k] PROVE m = n
    <3>1. /\ m = <<m[1], m[2]>> /\ m[1] \in 1 .. Len(pool_img)
          /\ m[2] \in 1 .. Len(pool_img[m[1]].abs)
      BY Record DEF Named
    <3> QED BY <2>2, <3>1, AbsOnce
  <2>3. pool_img[n[1]].abs[n[2]] = pool_img[i].abs[k]
    OBVIOUS
  <2> HIDE DEF n
  <2> QED BY <2>1, <2>2, <2>3 DEF NamesOne
<1>2. ASSUME NEW i \in 1 .. Len(dump_img) PROVE NamesOne(dump_img[i].abs)
  <2>1. i \in 1 .. Len(pool_img)
    BY DEF ImageInv
  <2> QED BY <1>1, <2>1, Record DEF RecordOf
<1>3. ASSUME NEW i \in 1 .. Len(dump_img), NEW k \in 1 .. Len(dump_img[i].ptrs)
      PROVE  dump_img[i].ptrs[k] = AbsNull \/ NamesOne(dump_img[i].ptrs[k])
  <2>1. i \in 1 .. Len(pool_img)
    BY DEF ImageInv
  <2> DEFINE u == Original(i).addr + k - 1
  <2>2. dump_img[i].ptrs[k] = Away(snap.mem[u]) /\ u \in DOMAIN snap.mem
    BY <2>1, OldUnit
  <2> HIDE DEF u
  <2>3. CASE snap.mem[u] = NULL
    BY <2>2, <2>3 DEF Away
  <2>4. CASE snap.mem[u] \in Elements(snap.blocks)
    <3>1. \E j \in 1 .. Len(pool_img) : \E l \in 1 .. Len(pool_img[j].abs) :
             pool_img[j].abs[l] = Away(snap.mem[u])
      BY <2>4, ElementNamed, SMTT(30)
    <3> QED BY <1>1, <2>2, <3>1
  <2> QED BY <2>2, <2>3, <2>4 DEF SnapInv
<1> QED BY <1>2, <1>3 DEF ImageClosed

-----------------------------------------------------------------------------
(* The list that dump_runtime walks: the infos, with their own offsets.     *)
Walked == IF migr_flag THEN Translate(root_info) ELSE root_info

(* abs_translation changes nothing but the p_abs, which become offsets.     *)
LEMMA WithAbs ==
    ASSUME NEW r \in PoolInfos, NEW f \in Seq(Int)
    PROVE  [r EXCEPT !.abs = f] = [p_raw |-> r.p_raw, type |-> r.type, size |-> r.size, abs |-> f]
BY SMTT(30) DEF PoolInfos

LEMMA Offsets ==
    ASSUME NEW n \in Nat, NEW a \in Int, NEW o \in Int
    PROVE  LET f == [k \in 1 .. n |-> a + k - 1 - o]
           IN  f \in Seq(Int) /\ Len(f) = n /\ \A k \in 1 .. n : f[k] = a + k - 1 - o
OBVIOUS

LEMMA TranslateOne ==
    ASSUME PoolInv, NEW i \in 1 .. Len(root_info)
    PROVE  LET x == Translate(root_info)[i]
           IN  /\ x \in PoolInfos /\ x.p_raw = root_info[i].p_raw
               /\ x.type = root_info[i].type /\ x.size = root_info[i].size
               /\ HasOffsets(x)
<1> DEFINE r == root_info[i]
           f == [k \in 1 .. Len(r.abs) |-> r.p_raw + k - 1 - pool_allocator]
           x == [p_raw |-> r.p_raw, type |-> r.type, size |-> r.size, abs |-> f]
<1>1. /\ r \in PoolInfos /\ Len(r.abs) = InfoCount(r) /\ pool_allocator \in Int
  <2>1. root_info \in Seq(PoolInfos) /\ pool_allocator \in Int
    BY PoolAssumption DEF PoolInv, TypeOK
  <2>2. Len(r.abs) = InfoCount(r)
    BY DEF PoolInv, Counted
  <2> QED BY <2>1, <2>2
<1>2. Translate(root_info)[i] = [r EXCEPT !.abs = f]
  BY DEF Translate
<1> HIDE DEF f, r
<1>3. /\ r.p_raw \in Int /\ r.type \in Types /\ r.size \in 1 .. MaxSize
      /\ r.abs \in Seq(Int)
  BY <1>1, ZenonT(30) DEF PoolInfos
<1>4. f \in Seq(Int) /\ Len(f) = Len(r.abs)
      /\ \A k \in 1 .. Len(f) : f[k] = r.p_raw + k - 1 - pool_allocator
  <2>1. Len(r.abs) \in Nat
    BY <1>3
  <2> QED BY <1>1, <1>3, <2>1, Offsets, ZenonT(30) DEF f
<1>5. [r EXCEPT !.abs = f] = x
  BY <1>1, <1>4, WithAbs, ZenonT(30)
<1>6. x \in PoolInfos
  BY <1>3, <1>4 DEF PoolInfos
<1>7. InfoCount(x) = InfoCount(r)
  BY DEF InfoCount
<1>8. x.p_raw = r.p_raw /\ x.type = r.type /\ x.size = r.size /\ x.abs = f
  OBVIOUS
<1> HIDE DEF x
<1>9. HasOffsets(x)
  BY <1>1, <1>4, <1>7, <1>8 DEF HasOffsets
<1> QED BY <1>2, <1>5, <1>6, <1>8, <1>9 DEF r

LEMMA WalkedInfos ==
    ASSUME PoolInv, RunInv, phase = "run", migr_flag \in BOOLEAN
    PROVE  /\ Walked \in Seq(PoolInfos) /\ Len(Walked) = Len(root_info)
           /\ \A i \in 1 .. Len(root_info) :
                 /\ Walked[i].p_raw = root_info[i].p_raw /\ HasOffsets(Walked[i])
                 /\ Walked[i].type = root_info[i].type /\ Walked[i].size = root_info[i].size
<1>1. root_info \in Seq(PoolInfos) /\ Len(root_info) \in Nat
  BY DEF PoolInv, TypeOK
<1>2. CASE migr_flag
  <2>1. Walked = Translate(root_info)
    BY <1>2 DEF Walked
  <2>2. \A i \in 1 .. Len(root_info) :
           /\ Walked[i] \in PoolInfos /\ Walked[i].p_raw = root_info[i].p_raw
           /\ HasOffsets(Walked[i])
           /\ Walked[i].type = root_info[i].type /\ Walked[i].size = root_info[i].size
    BY <2>1, TranslateOne
  <2>3. Walked = [i \in 1 .. Len(root_info) |-> Walked[i]]
    BY <2>1 DEF Translate
  <2>4. Walked \in Seq(PoolInfos) /\ Len(Walked) = Len(root_info)
    BY <1>1, <2>2, <2>3
  <2> QED BY <2>2, <2>4
<1>3. CASE ~ migr_flag
  <2>1. Walked = root_info /\ AbsIsOffset
    BY <1>3 DEF Walked, RunInv
  <2> QED BY <1>1, <2>1 DEF AbsIsOffset
<1> QED BY <1>2, <1>3

(* What dump_runtime writes: an info of every block that is not skipped,    *)
(* with its offsets, once.                                                  *)
LEMMA DumpedInfos ==
    ASSUME PoolInv, RunInv, phase = "run", migr_flag \in BOOLEAN
    PROVE  LET d == Dumped(Walked)
           IN  /\ d \in Seq(PoolInfos)
               /\ \A n \in 1 .. Len(d) :
                     d[n].type # "skip" /\ HasOffsets(d[n]) /\ \E b \in blocks : Describes(d[n], b)
               /\ \A b \in blocks : b.type # "skip" =>
                     \E n \in 1 .. Len(d) : Describes(d[n], b)
               /\ \A n, m \in 1 .. Len(d) : d[n].p_raw = d[m].p_raw => n = m
<1> DEFINE s == Walked
           d == Dumped(s)
<1>1. /\ s \in Seq(PoolInfos) /\ Len(s) = Len(root_info)
      /\ \A i \in 1 .. Len(s) :
            /\ s[i].p_raw = root_info[i].p_raw /\ HasOffsets(s[i])
            /\ s[i].type = root_info[i].type /\ s[i].size = root_info[i].size
  BY WalkedInfos
<1> HIDE DEF s
<1>2. /\ \A b \in blocks : \E i \in 1 .. Len(s) : Describes(s[i], b)
      /\ \A i \in 1 .. Len(s) : \E b \in blocks : Describes(s[i], b)
      /\ \A i, j \in 1 .. Len(s) : s[i].p_raw = s[j].p_raw => i = j
  BY <1>1 DEF PoolInv, RegistryMirrorsPool, Mirrors, Describes
<1>3. KeptOf(s, Len(s), d)
  BY <1>1, <1>2, DumpedKept
<1> HIDE DEF d
<1>4. ASSUME NEW n \in 1 .. Len(d)
      PROVE  d[n].type # "skip" /\ HasOffsets(d[n]) /\ \E b \in blocks : Describes(d[n], b)
  <2>1. PICK i \in 1 .. Len(s) : d[n] = s[i] /\ s[i].type # "skip"
    BY <1>3 DEF KeptOf
  <2> QED BY <1>1, <1>2, <2>1
<1>5. ASSUME NEW b \in blocks, b.type # "skip"
      PROVE  \E n \in 1 .. Len(d) : Describes(d[n], b)
  <2>1. PICK i \in 1 .. Len(s) : Describes(s[i], b)
    BY <1>2
  <2>2. s[i].type # "skip"
    BY <1>5, <2>1 DEF Describes
  <2>3. PICK n \in 1 .. Len(d) : d[n] = s[i]
    BY <1>3, <2>2, ZenonT(30) DEF KeptOf
  <2> QED BY <2>1, <2>3, ZenonT(30)
<1> QED BY <1>3, <1>4, <1>5, ZenonT(30) DEF KeptOf, d, s

(* A block is the record of its fields.                                     *)
LEMMA BlockFields ==
    ASSUME NEW b \in Blocks
    PROVE  b = [addr |-> b.addr, size |-> b.size, type |-> b.type]
BY ZenonT(30) DEF Blocks

(* A pointer as DUMP_PTR writes it.                                         *)
LEMMA DumpAway ==
    ASSUME snap'.base = pool_allocator, NEW p
    PROVE  DumpPtr(p) = IF p = NULL THEN AbsNull ELSE p - snap'.base
BY DEF DumpPtr

(* The records that a checkpoint writes for one info.                       *)
LEMMA WrittenRecord ==
    ASSUME PoolInv, NEW x \in PoolInfos, x.type # "skip", HasOffsets(x),
           NEW b \in blocks, Describes(x, b),
           snap' = [base |-> pool_allocator, blocks |-> blocks, mem |-> mem, local |-> local],
           NEW i, pool_img'[i] = PoolRecord(x), dump_img'[i] = DataRecord(x)
    PROVE  RecordOf(i)' /\ Original(i)' = b
<1>1. /\ snap'.base = pool_allocator /\ snap'.blocks = blocks /\ snap'.mem = mem
      /\ pool_allocator \in Int
  BY PoolAssumption DEF PoolInv, TypeOK
<1>2. /\ x.p_raw = b.addr /\ x.type = b.type /\ x.size = b.size
  BY DEF Describes
<1>3. /\ pool_img'[i].abs = x.abs /\ pool_img'[i].type = x.type /\ pool_img'[i].size = x.size
      /\ dump_img'[i].abs = x.abs[1]
      /\ dump_img'[i].ptrs = [k \in 1 .. (IF x.type = "buf" THEN 0 ELSE x.size) |->
                                 DumpPtr(mem[x.p_raw + k - 1])]
  <2> DEFINE g == [k \in 1 .. (IF x.type = "buf" THEN 0 ELSE x.size) |->
                      DumpPtr(mem[x.p_raw + k - 1])]
  <2>1. dump_img'[i] = [abs |-> x.abs[1], ptrs |-> g]
    BY DEF DataRecord
  <2>2. pool_img'[i] = [abs |-> x.abs, type |-> x.type, size |-> x.size]
    BY DEF PoolRecord
  <2> HIDE DEF g
  <2>3. dump_img'[i].abs = x.abs[1] /\ dump_img'[i].ptrs = g
    BY <2>1
  <2> QED BY <2>2, <2>3 DEF g
<1>4. b \in Blocks
  BY DEF PoolInv, TypeOK
<1>5. b.addr \in Int /\ x.size \in Nat /\ x.abs \in Seq(Int) /\ x.size >= 1
  <2>1. x.size \in 1 .. MaxSize /\ x.abs \in Seq(Int)
    BY ZenonT(30) DEF PoolInfos
  <2>2. b.addr \in Addrs
    BY <1>4, ZenonT(30) DEF Blocks
  <2> QED BY <1>1, <2>1, <2>2, PoolAssumption DEF Addrs
<1>6. /\ Len(x.abs) = InfoCount(x) /\ InfoCount(x) = InfoCount(b)
      /\ \A k \in 1 .. Len(x.abs) : x.abs[k] = b.addr + k - 1 - pool_allocator
  BY <1>2 DEF HasOffsets, InfoCount
<1>7. x.abs[1] = b.addr - pool_allocator
  <2>1. 1 \in 1 .. Len(x.abs)
    BY <1>5, <1>6 DEF InfoCount
  <2> QED BY <1>1, <1>5, <1>6, <2>1
<1>8. Original(i)' = b
  <2>1. snap'.base + pool_img'[i].abs[1] = b.addr
    BY <1>1, <1>3, <1>5, <1>7
  <2> QED BY <1>2, <1>3, <1>4, <2>1, BlockFields, ZenonT(30) DEF Original
<1>9. /\ Len(dump_img'[i].ptrs) = IF x.type = "buf" THEN 0 ELSE x.size
      /\ \A k \in 1 .. Len(dump_img'[i].ptrs) : dump_img'[i].ptrs[k] = DumpPtr(mem[b.addr + k - 1])
  <2> DEFINE n == IF x.type = "buf" THEN 0 ELSE x.size
  <2>1. n \in Nat
    BY <1>5
  <2> HIDE DEF n
  <2>2. dump_img'[i].ptrs = [k \in 1 .. n |-> DumpPtr(mem[b.addr + k - 1])]
    BY <1>2, <1>3, ZenonT(30) DEF n
  <2>3. Len(dump_img'[i].ptrs) = n
    BY <2>1, <2>2
  <2> QED BY <2>2, <2>3, ZenonT(30) DEF n
<1>10. \A k \in 1 .. Len(dump_img'[i].ptrs) :
          dump_img'[i].ptrs[k] = Away(snap.mem[Original(i).addr + k - 1])'
  BY <1>1, <1>8, <1>9, DumpAway, ZenonT(30) DEF Away
<1>11. Len(pool_img'[i].abs) = InfoCount(Original(i)')
  BY <1>3, <1>6, <1>8, ZenonT(30)
<1>12. \A k \in 1 .. Len(pool_img'[i].abs) :
          pool_img'[i].abs[k] = Original(i)'.addr + k - 1 - snap'.base
  BY <1>1, <1>3, <1>6, <1>8, ZenonT(30)
<1>13. RecordOf(i)'
  BY <1>1, <1>3, <1>5, <1>8, <1>9, <1>10, <1>11, <1>12, ZenonT(30) DEF RecordOf, InfoCount
<1> QED BY <1>8, <1>13

(* A checkpoint writes exact images.                                        *)
LEMMA CheckpointImages ==
    ASSUME MInv, Checkpoint
    PROVE  SnapInv' /\ ImageInv'
<1> DEFINE d == Dumped(Walked)
<1>1. /\ phase = "run" /\ PoolInv /\ MemInv /\ RunInv /\ migr_flag \in BOOLEAN
      /\ interp_img' = DumpPtr(local) /\ dump_runtime(d)
      /\ snap' = [base |-> pool_allocator, blocks |-> blocks, mem |-> mem, local |-> local]
  BY ZenonT(30) DEF MInv, Checkpoint, Running, Walked, MemInv
<1>2. /\ d \in Seq(PoolInfos)
      /\ \A n \in 1 .. Len(d) :
            d[n].type # "skip" /\ HasOffsets(d[n]) /\ \E b \in blocks : Describes(d[n], b)
      /\ \A b \in blocks : b.type # "skip" =>
            \E n \in 1 .. Len(d) : Describes(d[n], b)
      /\ \A n, m \in 1 .. Len(d) : d[n].p_raw = d[m].p_raw => n = m
  BY <1>1, DumpedInfos
<1> HIDE DEF d
<1>3. /\ snap'.base = pool_allocator /\ snap'.blocks = blocks /\ snap'.mem = mem
      /\ snap'.local = local
  BY <1>1
<1>4. SnapInv'
  <2>1. /\ pool_allocator \in Bases /\ blocks \subseteq Blocks
        /\ \A b, c \in blocks : b # c => ~ Overlap(b, c)
    BY <1>1 DEF PoolInv, TypeOK, PoolDisjoint
  <2>2. /\ DOMAIN mem = PtrUnits(blocks)
        /\ \A u \in DOMAIN mem : mem[u] \in Elements(blocks) \cup {NULL}
    BY <1>1 DEF MemInv
  <2> QED BY <1>3, <2>1, <2>2, ZenonT(30)
          DEF SnapInv, Blocks, Addrs, Overlap, PtrUnits, Elements, InfoCount
<1>5. /\ Len(d) \in Nat /\ Len(pool_img') = Len(d) /\ Len(dump_img') = Len(d)
      /\ \A i \in 1 .. Len(d) : pool_img'[i] = PoolRecord(d[i]) /\ dump_img'[i] = DataRecord(d[i])
  BY <1>1, <1>2 DEF dump_runtime
<1>6. ASSUME NEW i \in 1 .. Len(d), NEW b \in blocks, Describes(d[i], b)
      PROVE  RecordOf(i)' /\ Original(i)' = b
  <2>1. d[i] \in PoolInfos
    BY <1>2
  <2> QED BY <1>1, <1>2, <1>5, <1>6, <2>1, WrittenRecord
<1>7. \A i \in 1 .. Len(d) : RecordOf(i)'
  BY <1>2, <1>6
<1>8. \A b \in blocks : b.type # "skip" => \E i \in 1 .. Len(d) : Original(i)' = b
  BY <1>2, <1>6
<1>9. ASSUME NEW i \in 1 .. Len(d), NEW j \in 1 .. Len(d), Original(i)' = Original(j)'
      PROVE  i = j
  <2>1. PICK b \in blocks : Describes(d[i], b)
    BY <1>2
  <2>2. PICK c \in blocks : Describes(d[j], c)
    BY <1>2
  <2>3. b = c
    BY <1>6, <1>9, <2>1, <2>2
  <2> QED BY <1>2, <2>1, <2>2, <2>3 DEF Describes
<1>10. interp_img' = Away(snap.local)'
  BY <1>1, <1>3, DumpAway DEF Away
<1>11. ImageInv'
  <2>1. (Len(pool_img) \in Nat /\ Len(dump_img) = Len(pool_img))'
    BY <1>5
  <2>2. (\A i \in 1 .. Len(pool_img) : RecordOf(i))'
    BY <1>5, <1>7, ZenonT(30)
  <2>3. (\A b \in snap.blocks : b.type # "skip" =>
            \E i \in 1 .. Len(pool_img) : Original(i) = b)'
    BY <1>3, <1>5, <1>8, ZenonT(30)
  <2>4. (\A i, j \in 1 .. Len(pool_img) : Original(i) = Original(j) => i = j)'
    BY <1>5, <1>9, ZenonT(30)
  <2> QED BY <1>10, <2>1, <2>2, <2>3, <2>4, ZenonT(30) DEF ImageInv
<1> QED BY <1>4, <1>11

-----------------------------------------------------------------------------
(* Element k of info m is the first with this p_abs, and the only one there. *)
FirstAt(x, s, m, k) ==
    /\ m \in 1 .. Len(s) /\ k \in 1 .. Len(s[m].abs) /\ s[m].abs[k] = x
    /\ \A l \in 1 .. Len(s[m].abs) : s[m].abs[l] = x => l = k
    /\ \A j \in 1 .. m - 1 : \A l \in 1 .. Len(s[j].abs) : s[j].abs[l] # x

(* get_info returns the element of the first info that has the p_abs.       *)
LEMMA GetInfoIs ==
    ASSUME NEW s \in Seq(PoolInfos), NEW x, NEW m, NEW k, FirstAt(x, s, m, k)
    PROVE  Found(x, s) # {} /\ GetInfo(x, s) = s[m].p_raw + k - 1
<1> DEFINE f == Found(x, s)
           i == CHOOSE i \in f : \A j \in f : i <= j
           h == CHOOSE h \in 1 .. Len(s[i].abs) :
                   s[i].abs[h] = x /\ \A l \in 1 .. h - 1 : s[i].abs[l] # x
<1> USE DEF FirstAt
<1>1. m \in f
  BY DEF Found
<1>2. \A j \in f : j \in Int /\ m <= j
  <2>1. ASSUME NEW j \in f, ~(m <= j) PROVE FALSE
    <3>1. j \in 1 .. Len(s) /\ \E l \in 1 .. Len(s[j].abs) : s[j].abs[l] = x
      BY DEF Found
    <3>2. j \in 1 .. m - 1
      BY <2>1, <3>1
    <3> QED BY <3>1, <3>2
  <2>2. \A j \in f : j \in Int
    BY DEF Found
  <2> QED BY <2>1, <2>2
<1>3. i = m
  <2> HIDE DEF f
  <2>1. i \in f /\ \A j \in f : i <= j
    BY <1>1, <1>2, ZenonT(30)
  <2> HIDE DEF i
  <2>2. i <= m /\ m <= i /\ i \in Int /\ m \in Int
    BY <1>1, <1>2, <2>1
  <2> QED BY ONLY <2>2
<1>4. h = k
  <2>1. /\ Len(s[m].abs) \in Nat
        /\ s[m].abs[k] = x /\ \A l \in 1 .. k - 1 : s[m].abs[l] # x
    <3>1. s[m] \in PoolInfos
      OBVIOUS
    <3>2. Len(s[m].abs) \in Nat
      BY <3>1 DEF PoolInfos
    <3> QED BY <3>2
  <2>2. \E g \in 1 .. Len(s[m].abs) : s[m].abs[g] = x /\ \A l \in 1 .. g - 1 : s[m].abs[l] # x
    BY <2>1, ZenonT(30)
  <2>3. h \in 1 .. Len(s[m].abs) /\ s[m].abs[h] = x
    BY <1>3, <2>2, ZenonT(30)
  <2> HIDE DEF h
  <2> QED BY <2>3
<1>5. GetInfo(x, s) = s[i].p_raw + h - 1
  BY DEF GetInfo
<1> QED BY <1>1, <1>3, <1>4, <1>5, ZenonT(30)

(* The info of a restored block.                                            *)
LEMMA CopyFacts ==
    ASSUME PoolInv, SnapInv, ImageInv, CopyInv, Restoring, MemInv, NEW i \in 1 .. Allocated
    PROVE  /\ i \in 1 .. Len(pool_img) /\ Len(root_info) - i \in 1 .. Len(root_info)
           /\ Copy(i) \in PoolInfos
           /\ Copy(i).abs = pool_img[i].abs
           /\ Copy(i).type = pool_img[i].type /\ Copy(i).size = pool_img[i].size
           /\ pool_img[i].type # "skip"
           /\ \E b \in blocks : Describes(Copy(i), b)
<1>1. /\ Len(pool_img) \in Nat /\ pos \in Nat
      /\ root_info \in Seq(PoolInfos) /\ Len(root_info) \in Nat
  BY DEF ImageInv, MemInv, PoolInv, TypeOK
<1>2. phase = "alloc" => pos \in 1 .. Len(pool_img) + 1
  BY DEF CopyInv
<1>3. Allocated \in Nat /\ Allocated <= Len(pool_img)
  BY <1>1, <1>2 DEF Allocated
<1>4. Len(root_info) = Allocated + 1 \/ Len(root_info) = Allocated + 2
  BY DEF CopyInv
<1>5. /\ Copy(i).abs = pool_img[i].abs
      /\ Copy(i).type = pool_img[i].type /\ Copy(i).size = pool_img[i].size
  BY DEF CopyInv
<1>6. i \in 1 .. Len(pool_img) /\ Len(root_info) - i \in 1 .. Len(root_info)
  BY <1>1, <1>3, <1>4
<1>7. Copy(i) \in PoolInfos
  BY <1>1, <1>6 DEF Copy
<1>8. \E b \in blocks : Describes(Copy(i), b)
  BY <1>6 DEF PoolInv, RegistryMirrorsPool, Mirrors, Copy
<1>9. pool_img[i].type # "skip"
  BY <1>6, Record DEF RecordOf
<1> QED BY <1>5, <1>6, <1>7, <1>8, <1>9

(* An info that a checkpoint would write is one of them.                    *)
LEMMA IsCopy ==
    ASSUME PoolInv, SnapInv, ImageInv, CopyInv, Restoring, MemInv,
           NEW j \in 1 .. Len(root_info)
    PROVE  \/ j = Len(root_info) /\ root_info[j].type = "skip"
           \/ j = 1 /\ root_info[j].type = "skip" /\ Len(root_info) = Allocated + 2
           \/ Len(root_info) - j \in 1 .. Allocated /\ root_info[j] = Copy(Len(root_info) - j)
<1>1. /\ Len(pool_img) \in Nat /\ pos \in Nat
      /\ root_info \in Seq(PoolInfos) /\ Len(root_info) \in Nat
  BY DEF ImageInv, MemInv, PoolInv, TypeOK
<1>2. phase = "alloc" => pos \in 1 .. Len(pool_img) + 1
  BY DEF CopyInv
<1>3. Allocated \in Nat /\ Allocated <= Len(pool_img)
  BY <1>1, <1>2 DEF Allocated
<1>4. /\ \/ Len(root_info) = Allocated + 1
         \/ Len(root_info) = Allocated + 2 /\ root_info[1].type = "skip"
      /\ root_info[Len(root_info)].type = "skip"
  BY DEF CopyInv
<1>5. CASE j = Len(root_info)
  BY <1>4, <1>5
<1>6. CASE j = 1 /\ Len(root_info) = Allocated + 2
  <2>1. root_info[1].type = "skip"
    BY <1>3, <1>4, <1>6
  <2> QED BY <1>6, <2>1
<1>7. CASE j # Len(root_info) /\ ~(j = 1 /\ Len(root_info) = Allocated + 2)
  <2>1. Len(root_info) - j \in 1 .. Allocated /\ Len(root_info) - (Len(root_info) - j) = j
    BY <1>1, <1>3, <1>4, <1>7
  <2> QED BY <2>1 DEF Copy
<1> QED BY <1>5, <1>6, <1>7

(* get_info finds a p_abs of the old process in the copy of its block, if   *)
(* the WASIContext does not have it.                                        *)
LEMMA Lookup ==
    ASSUME PoolInv, SnapInv, ImageInv, CopyInv, MemInv, phase \in {"fill", "wasi", "interp"},
           NEW i \in 1 .. Len(pool_img), NEW k \in 1 .. Len(pool_img[i].abs),
           NEW x, x = pool_img[i].abs[k],
           Len(root_info) = Len(pool_img) + 1 \/ root_info[1].abs[1] # x
    PROVE  Found(x, root_info) # {} /\ GetInfo(x, root_info) = Copy(i).p_raw + k - 1
<1> DEFINE m == Len(root_info) - i
<1>1. Restoring /\ Allocated = Len(pool_img)
  BY DEF Restoring, Allocated
<1>2. /\ m \in 1 .. Len(root_info) /\ root_info[m] = Copy(i) /\ Copy(i).abs = pool_img[i].abs
      /\ root_info \in Seq(PoolInfos) /\ Len(root_info) \in Nat /\ Len(pool_img) \in Nat
  <2>1. m \in 1 .. Len(root_info) /\ Copy(i).abs = pool_img[i].abs
    BY <1>1, CopyFacts
  <2>2. root_info[m] = Copy(i)
    BY DEF Copy
  <2>3. root_info \in Seq(PoolInfos) /\ Len(root_info) \in Nat /\ Len(pool_img) \in Nat
    BY DEF PoolInv, TypeOK, ImageInv
  <2> QED BY <2>1, <2>2, <2>3
<1>3. ASSUME NEW l \in 1 .. Len(root_info[m].abs), root_info[m].abs[l] = x PROVE l = k
  <2>1. root_info[m].abs = pool_img[i].abs
    BY <1>2, ZenonT(30)
  <2>2. l \in 1 .. Len(pool_img[i].abs) /\ pool_img[i].abs[l] = pool_img[i].abs[k]
    BY <1>3, <2>1, ZenonT(30)
  <2> QED BY <2>2, AbsOnce, ZenonT(30)
<1>4. ASSUME NEW j \in 1 .. m - 1, NEW l \in 1 .. Len(root_info[j].abs), root_info[j].abs[l] = x
      PROVE  FALSE
  <2>1. j \in 1 .. Len(root_info) /\ j # Len(root_info) /\ j < m
    BY <1>2
  <2>2. CASE j = 1 /\ root_info[j].type = "skip" /\ Len(root_info) = Allocated + 2
    <3>1. Len(root_info[1].abs) = InfoCount(root_info[1])
      BY <2>1, <2>2 DEF PoolInv, Counted
    <3>2. l = 1
      BY <2>2, <3>1 DEF InfoCount
    <3>3. Len(root_info) # Len(pool_img) + 1
      BY <1>1, <1>2, <2>2
    <3> QED BY <1>4, <2>2, <3>2, <3>3
  <2>3. CASE Len(root_info) - j \in 1 .. Allocated /\ root_info[j] = Copy(Len(root_info) - j)
    <3> DEFINE h == Len(root_info) - j
    <3>1. h \in 1 .. Len(pool_img) /\ h # i
      BY <1>1, <1>2, <2>1, <2>3
    <3>2. root_info[j].abs = pool_img[h].abs
      BY <1>1, <2>3, CopyFacts
    <3> HIDE DEF h
    <3>3. l \in 1 .. Len(pool_img[h].abs) /\ pool_img[h].abs[l] = pool_img[i].abs[k]
      BY <1>4, <3>2
    <3> QED BY <3>1, <3>3, AbsOnce, ZenonT(30)
  <2> QED BY <1>1, <2>1, <2>2, <2>3, IsCopy
<1> HIDE DEF m
<1>5. k \in 1 .. Len(root_info[m].abs) /\ root_info[m].abs[k] = x
  <2>1. root_info[m].abs = pool_img[i].abs
    BY <1>2, ZenonT(30)
  <2> QED BY <2>1, ZenonT(30)
<1>6. FirstAt(x, root_info, m, k)
  BY <1>2, <1>3, <1>4, <1>5, ZenonT(30) DEF FirstAt
<1>7. Found(x, root_info) # {} /\ GetInfo(x, root_info) = root_info[m].p_raw + k - 1
  <2>1. root_info \in Seq(PoolInfos)
    BY <1>2, ZenonT(30)
  <2> QED BY ONLY <1>6, <2>1, GetInfoIs
<1> QED BY <1>2, <1>7, ZenonT(30)

-----------------------------------------------------------------------------
(* The block of a copy.                                                     *)
LEMMA NewBlock ==
    ASSUME PoolInv, NEW b \in blocks
    PROVE  /\ b \in Blocks /\ pool_allocator \in Nat /\ b.addr \in Int /\ b.addr > pool_allocator
           /\ b.size \in Int /\ 1 <= b.size /\ b.size <= MaxSize
           /\ b.addr + b.size - 1 <= pool_allocator + PoolSize
           /\ InfoCount(b) \in Int /\ 1 <= InfoCount(b) /\ InfoCount(b) <= b.size
<1>1. /\ pool_allocator \in Nat /\ PoolSize \in Nat /\ MaxSize \in Nat /\ b \in Blocks
      /\ b.addr + b.size - 1 <= pool_allocator + PoolSize
  BY PoolAssumption, ZenonT(30) DEF PoolInv, TypeOK, PoolDisjoint
<1>2. /\ b.addr \in pool_allocator + 1 .. pool_allocator + PoolSize /\ b.size \in 1 .. MaxSize
  BY <1>1, ZenonT(30) DEF Blocks, Addrs
<1> QED BY ONLY <1>1, <1>2 DEF InfoCount

(* Its elements may be pointed to, and its units hold pointers.             *)
LEMMA CopyPlace ==
    ASSUME PoolInv, SnapInv, ImageInv, CopyInv, Restoring, MemInv, NEW i \in 1 .. Allocated
    PROVE  /\ Copy(i).p_raw \in Int
           /\ \A k \in 1 .. Len(pool_img[i].abs) :
                 Copy(i).p_raw + k - 1 \in Elements(blocks) /\ Copy(i).p_raw + k - 1 \in Addrs
           /\ pool_img[i].type \in {"list", "ex"} =>
                 \A k \in 1 .. pool_img[i].size : Copy(i).p_raw + k - 1 \in PtrUnits(blocks)
<1>1. PICK b \in blocks : Describes(Copy(i), b)
  BY CopyFacts
<1>2. /\ Copy(i).p_raw = b.addr /\ pool_img[i].type = b.type /\ pool_img[i].size = b.size
      /\ b.type # "skip" /\ Len(pool_img[i].abs) = InfoCount(b)
  <2>1. /\ Copy(i).p_raw = b.addr /\ Copy(i).type = b.type /\ Copy(i).size = b.size
    BY <1>1 DEF Describes
  <2>2. /\ Copy(i).abs = pool_img[i].abs /\ Copy(i).type = pool_img[i].type
        /\ Copy(i).size = pool_img[i].size /\ pool_img[i].type # "skip"
        /\ Len(root_info) - i \in 1 .. Len(root_info)
    BY CopyFacts
  <2>3. Len(Copy(i).abs) = InfoCount(Copy(i))
    BY <2>2 DEF PoolInv, Counted, Copy
  <2>4. InfoCount(Copy(i)) = InfoCount(b)
    BY <2>1 DEF InfoCount
  <2> QED BY <2>1, <2>2, <2>3, <2>4, ZenonT(30)
<1>3. /\ pool_allocator \in Nat /\ b.addr \in Int /\ b.addr > pool_allocator
      /\ b.size \in Int /\ b.addr + b.size - 1 <= pool_allocator + PoolSize
      /\ InfoCount(b) \in Int /\ InfoCount(b) <= b.size /\ PoolSize \in Nat
  BY NewBlock, PoolAssumption
<1>4. ASSUME NEW k \in 1 .. InfoCount(b)
      PROVE  b.addr + k - 1 \in Elements(blocks) /\ b.addr + k - 1 \in Addrs
  <2>1. /\ b.addr + k - 1 \in b.addr .. b.addr + InfoCount(b) - 1
        /\ b.addr + k - 1 \in pool_allocator + 1 .. pool_allocator + PoolSize
    BY ONLY <1>3, <1>4
  <2> QED BY <1>2, <2>1 DEF Elements, Addrs
<1>5. ASSUME b.type \in {"list", "ex"}, NEW k \in 1 .. b.size
      PROVE  b.addr + k - 1 \in PtrUnits(blocks)
  <2>1. b.addr + k - 1 \in b.addr .. b.addr + b.size - 1
    BY ONLY <1>3, <1>5
  <2> QED BY <1>5, <2>1 DEF PtrUnits
<1> QED BY <1>2, <1>3, <1>4, <1>5, ZenonT(30)

(* Two copies have no unit in common.                                       *)
LEMMA CopyApart ==
    ASSUME PoolInv, SnapInv, ImageInv, CopyInv, Restoring, MemInv,
           NEW i \in 1 .. Allocated, NEW k \in 1 .. pool_img[i].size,
           NEW j \in 1 .. Allocated, NEW l \in 1 .. pool_img[j].size,
           Copy(i).p_raw + k - 1 = Copy(j).p_raw + l - 1
    PROVE  i = j
<1>1. PICK b \in blocks : Describes(Copy(i), b)
  BY CopyFacts
<1>2. PICK c \in blocks : Describes(Copy(j), c)
  BY CopyFacts
<1>3. /\ Copy(i).p_raw = b.addr /\ pool_img[i].size = b.size
      /\ Copy(j).p_raw = c.addr /\ pool_img[j].size = c.size
      /\ Len(root_info) - i \in 1 .. Len(root_info) /\ Len(root_info) - j \in 1 .. Len(root_info)
  BY <1>1, <1>2, CopyFacts DEF Describes
<1>4. b.addr \in Int /\ b.size \in Int /\ c.addr \in Int /\ c.size \in Int
  BY NewBlock
<1>5. b.addr < c.addr + c.size /\ c.addr < b.addr + b.size
  <2>1. PICK a \in Int, m \in Int, e \in Int, n \in Int :
           a = b.addr /\ m = b.size /\ e = c.addr /\ n = c.size
    BY <1>4, ZenonT(30)
  <2>2. k \in 1 .. m /\ l \in 1 .. n /\ a + k - 1 = e + l - 1
    BY <1>3, <2>1, ZenonT(30)
  <2>3. a < e + n /\ e < a + m
    BY ONLY <2>2
  <2> QED BY <2>1, <2>3, ZenonT(30)
<1>6. b = c
  BY <1>5 DEF PoolInv, PoolDisjoint, Overlap
<1>7. Copy(i).p_raw = Copy(j).p_raw
  BY <1>3, <1>6, ZenonT(30)
<1>8. Len(root_info) - i = Len(root_info) - j
  BY <1>3, <1>7, ZenonT(30) DEF PoolInv, RegistryMirrorsPool, Mirrors, Copy
<1>9. Len(root_info) \in Int /\ i \in Int /\ j \in Int
  BY DEF PoolInv, TypeOK
<1> QED BY ONLY <1>8, <1>9

(* The element that a p_abs named is in the copy of its block.              *)
LEMMA HomeIs ==
    ASSUME PoolInv, SnapInv, ImageInv, CopyInv, MemInv, phase \in {"fill", "wasi", "interp"},
           NEW i \in 1 .. Len(pool_img), NEW k \in 1 .. Len(pool_img[i].abs)
    PROVE  Home(Original(i).addr + k - 1) = Copy(i).p_raw + k - 1
<1> DEFINE x == Original(i).addr + k - 1
           q == Copy(i).p_raw + k - 1
           Is(p) == \E j \in 1 .. Len(root_info) :
                       /\ root_info[j].type # "skip"
                       /\ \E l \in 1 .. Len(root_info[j].abs) :
                             /\ root_info[j].abs[l] = x - snap.base
                             /\ p = root_info[j].p_raw + l - 1
<1>1. Restoring /\ Allocated = Len(pool_img)
  BY DEF Restoring, Allocated
<1>2. pool_img[i].abs[k] = x - snap.base /\ x # NULL
  <2>1. RecordOf(i) /\ Original(i) \in snap.blocks
    BY Record
  <2>2. pool_img[i].abs[k] = Original(i).addr + k - 1 - snap.base
    BY <2>1, ZenonT(30) DEF RecordOf
  <2>3. k \in Int /\ 1 <= k
    BY Record
  <2>4. Original(i).addr \in Int /\ Original(i).addr > snap.base /\ snap.base \in Nat
    BY <2>1, OldBlock
  <2>5. Original(i).addr + k - 1 - snap.base = x - snap.base /\ x # 0
    BY ONLY <2>3, <2>4
  <2> QED BY <2>2, <2>5 DEF NULL
<1>3. /\ Copy(i).abs = pool_img[i].abs /\ Copy(i).type # "skip" /\ q \in Addrs
      /\ Len(root_info) - i \in 1 .. Len(root_info)
  BY <1>1, CopyFacts, CopyPlace, ZenonT(30)
<1> HIDE DEF x
<1>4. Is(q)
  BY <1>2, <1>3, ZenonT(30) DEF Copy
<1>5. ASSUME NEW p, Is(p) PROVE p = q
  <2>1. PICK j \in 1 .. Len(root_info) :
           /\ root_info[j].type # "skip"
           /\ \E l \in 1 .. Len(root_info[j].abs) :
                 /\ root_info[j].abs[l] = x - snap.base
                 /\ p = root_info[j].p_raw + l - 1
    BY <1>5
  <2> DEFINE h == Len(root_info) - j
  <2>2. h \in 1 .. Len(pool_img) /\ root_info[j] = Copy(h)
    BY <1>1, <2>1, IsCopy
  <2> HIDE DEF h
  <2>3. root_info[j].abs = pool_img[h].abs
    BY <1>1, <2>2, CopyFacts, ZenonT(30)
  <2>4. PICK l \in 1 .. Len(pool_img[h].abs) :
           pool_img[h].abs[l] = pool_img[i].abs[k] /\ p = Copy(h).p_raw + l - 1
    BY <1>2, <2>1, <2>2, <2>3, ZenonT(30)
  <2>5. h = i /\ l = k
    BY <2>2, <2>4, AbsOnce, SMTT(30)
  <2> QED BY <2>4, <2>5
<1> HIDE DEF q, Is
<1>6. Home(x) = CHOOSE p \in Addrs \cup {NULL} : Is(p)
  BY <1>2, ZenonT(30) DEF Home, Is
<1> QED BY <1>3, <1>4, <1>5, <1>6 DEF x, q

LEMMA HomeNull == Home(NULL) = NULL
<1> DEFINE Is(p) == IF NULL = NULL THEN p = NULL
                    ELSE \E i \in 1 .. Len(root_info) :
                            /\ root_info[i].type # "skip"
                            /\ \E k \in 1 .. Len(root_info[i].abs) :
                                  /\ root_info[i].abs[k] = NULL - snap.base
                                  /\ p = root_info[i].p_raw + k - 1
<1>1. Is(NULL) /\ \A p \in Addrs \cup {NULL} : Is(p) => p = NULL
  BY ZenonT(30)
<1>2. Home(NULL) = CHOOSE p \in Addrs \cup {NULL} : Is(p)
  BY DEF Home
<1> HIDE DEF Is
<1> QED BY <1>1, <1>2

(* A pointer of the old process names an element that a copy has.           *)
LEMMA PtrNamed ==
    ASSUME SnapInv, ImageInv, NEW p \in Elements(snap.blocks)
    PROVE  /\ p # NULL /\ Away(p) # AbsNull
           /\ \E i \in 1 .. Len(pool_img) : \E k \in 1 .. Len(pool_img[i].abs) :
                 Away(p) = pool_img[i].abs[k] /\ p = Original(i).addr + k - 1
BY ElementNamed, ZenonT(30)

LEMMA PtrFound ==
    ASSUME PoolInv, SnapInv, ImageInv, CopyInv, MemInv, phase \in {"fill", "wasi", "interp"},
           NEW p \in Elements(snap.blocks) \cup {NULL}
    PROVE  Resolves(Away(p), root_info)
<1>1. CASE p = NULL
  BY <1>1 DEF Away, Resolves
<1>2. CASE p \in Elements(snap.blocks)
  <2>1. PICK i \in 1 .. Len(pool_img) :
           \E k \in 1 .. Len(pool_img[i].abs) : Away(p) = pool_img[i].abs[k]
    BY <1>2, PtrNamed
  <2>2. Restoring /\ Allocated = Len(pool_img)
    BY DEF Restoring, Allocated
  <2>3. /\ Len(root_info) - i \in 1 .. Len(root_info)
        /\ root_info[Len(root_info) - i].abs = pool_img[i].abs
    BY <2>2, CopyFacts DEF Copy
  <2>4. Len(root_info) - i \in Found(Away(p), root_info)
    BY <2>1, <2>3, ZenonT(30) DEF Found
  <2> QED BY <2>4 DEF Resolves
<1> QED BY <1>1, <1>2

(* RESTORE_PTR gives the place of its copy, and that is in a live block.    *)
LEMMA PtrRestored ==
    ASSUME PoolInv, SnapInv, ImageInv, CopyInv, MemInv, phase \in {"fill", "wasi", "interp"},
           NEW p \in Elements(snap.blocks) \cup {NULL},
           Len(root_info) = Len(pool_img) + 1 \/ root_info[1].abs[1] # Away(p)
    PROVE  /\ RestorePtr(Away(p), root_info) = Home(p)
           /\ Home(p) \in Elements(blocks) \cup {NULL}
<1>1. CASE p = NULL
  BY <1>1, HomeNull DEF Away, RestorePtr
<1>2. CASE p \in Elements(snap.blocks)
  <2>1. Away(p) # AbsNull
    BY <1>2, PtrNamed
  <2> PICK i \in 1 .. Len(pool_img) : \E k \in 1 .. Len(pool_img[i].abs) :
           Away(p) = pool_img[i].abs[k] /\ p = Original(i).addr + k - 1
    BY <1>2, PtrNamed
  <2>2. PICK k \in 1 .. Len(pool_img[i].abs) :
           Away(p) = pool_img[i].abs[k] /\ p = Original(i).addr + k - 1
    OBVIOUS
  <2>3. GetInfo(Away(p), root_info) = Copy(i).p_raw + k - 1
    BY <2>2, Lookup
  <2>4. Home(p) = Copy(i).p_raw + k - 1
    BY <2>2, HomeIs
  <2>5. Copy(i).p_raw + k - 1 \in Elements(blocks)
    BY CopyPlace DEF Restoring, Allocated
  <2> QED BY <2>1, <2>3, <2>4, <2>5 DEF RestorePtr
<1> QED BY <1>1, <1>2

-----------------------------------------------------------------------------
(* When all copies are filled, the new pool has the object graph.           *)
LEMMA GraphFromInv == MInv => GraphRestored
<1> SUFFICES ASSUME MInv, phase = "wasi" PROVE GraphRestored
  BY DEF GraphRestored
<1>1. PoolInv /\ SnapInv /\ ImageInv /\ CopyInv /\ MemInv /\ FillInv
  BY DEF MInv
<1>2. /\ Restoring /\ Allocated = Len(pool_img) /\ Len(root_info) = Len(pool_img) + 1
      /\ Len(pool_img) \in Nat /\ Len(dump_img) = Len(pool_img)
  BY <1>1 DEF Restoring, Allocated, CopyInv, ImageInv
<1>3. ASSUME NEW b \in snap.blocks, NEW i \in 1 .. Len(pool_img), Original(i) = b
      PROVE  /\ Home(b.addr) = Copy(i).p_raw
             /\ b.type = pool_img[i].type /\ b.size = pool_img[i].size
  <2>1. /\ 1 \in 1 .. Len(pool_img[i].abs)
        /\ b.type = pool_img[i].type /\ b.size = pool_img[i].size
    BY <1>1, <1>3, Record
  <2>2. Home(b.addr + 1 - 1) = Copy(i).p_raw + 1 - 1
    BY <1>1, <1>3, <2>1, HomeIs
  <2>3. b.addr \in Int /\ Copy(i).p_raw \in Int
    BY <1>1, <1>2, OldBlock, CopyPlace
  <2> QED BY <2>1, <2>2, <2>3
<1>4. ASSUME NEW b \in snap.blocks, b.type # "skip"
      PROVE  \E i \in 1 .. Len(pool_img) : Original(i) = b
  BY <1>1, <1>4 DEF ImageInv
<1>5. ASSUME NEW b \in snap.blocks, b.type # "skip"
      PROVE  [b EXCEPT !.addr = Home(b.addr)] \in blocks
  <2>1. PICK i \in 1 .. Len(pool_img) : Original(i) = b
    BY <1>4, <1>5
  <2>2. PICK c \in blocks : Describes(Copy(i), c)
    BY <1>1, <1>2, CopyFacts
  <2>3. c.addr = Home(b.addr) /\ c.size = b.size /\ c.type = b.type
    BY <1>1, <1>2, <1>3, <2>1, <2>2, CopyFacts DEF Describes
  <2>4. c = [addr |-> c.addr, size |-> c.size, type |-> c.type]
    BY <1>1, NewBlock, BlockFields
  <2>5. [b EXCEPT !.addr = Home(b.addr)] = [addr |-> Home(b.addr), size |-> b.size, type |-> b.type]
    <3>1. b = [addr |-> b.addr, size |-> b.size, type |-> b.type]
      BY <2>1 DEF Original
    <3> QED BY <3>1
  <2> QED BY <2>3, <2>4, <2>5
<1>6. ASSUME NEW b \in snap.blocks, NEW c \in snap.blocks, b.type # "skip", c.type # "skip",
             Home(b.addr) = Home(c.addr)
      PROVE  b = c
  <2>1. PICK i \in 1 .. Len(pool_img) : Original(i) = b
    BY <1>4, <1>6
  <2>2. PICK j \in 1 .. Len(pool_img) : Original(j) = c
    BY <1>4, <1>6
  <2>3. 1 \in 1 .. pool_img[i].size /\ 1 \in 1 .. pool_img[j].size
    BY <1>1, <1>3, <2>1, <2>2, OldBlock
  <2>4. Copy(i).p_raw + 1 - 1 = Copy(j).p_raw + 1 - 1
    BY <1>3, <1>6, <2>1, <2>2
  <2>5. i = j
    BY <1>1, <1>2, <2>3, <2>4, CopyApart
  <2> QED BY <2>1, <2>2, <2>5
<1>7. ASSUME NEW b \in snap.blocks, NEW u \in DOMAIN snap.mem, u \in PtrUnits({b})
      PROVE  mem[Home(b.addr) + u - b.addr] = Home(snap.mem[u])
  <2>1. b.type \in {"list", "ex"} /\ u \in b.addr .. b.addr + b.size - 1
    BY <1>7 DEF PtrUnits
  <2>2. PICK i \in 1 .. Len(pool_img) : Original(i) = b
    BY <1>4, <2>1
  <2> DEFINE k == u - b.addr + 1
  <2>3. /\ b.addr \in Int /\ b.size \in Int /\ Copy(i).p_raw \in Int
        /\ u \in Int /\ k \in 1 .. b.size /\ b.addr + k - 1 = u /\ k \in Int
        /\ Copy(i).p_raw + u - b.addr = Copy(i).p_raw + k - 1
    BY <1>1, <1>2, <2>1, OldBlock, CopyPlace, SMTT(30)
  <2> HIDE DEF k
  <2>4. k \in 1 .. Len(dump_img[i].ptrs) /\ dump_img[i].ptrs[k] = Away(snap.mem[u])
    <3>1. RecordOf(i) /\ pool_img[i].type = b.type /\ pool_img[i].size = b.size
      BY <1>1, <2>2, Record
    <3>2. Len(dump_img[i].ptrs) = b.size
      BY <2>1, <3>1 DEF RecordOf
    <3>3. k \in 1 .. Len(dump_img[i].ptrs)
      BY <2>3, <3>2
    <3> QED BY <2>2, <2>3, <3>1, <3>3, ZenonT(30) DEF RecordOf
  <2>5. mem[Copy(i).p_raw + k - 1] = RestorePtr(dump_img[i].ptrs[k], root_info)
    <3>1. i \in 1 .. pos - 1
      BY <1>1, <1>2 DEF FillInv
    <3> QED BY <1>1, <2>4, <3>1 DEF FillInv
  <2>6. RestorePtr(Away(snap.mem[u]), root_info) = Home(snap.mem[u])
    <3>1. snap.mem[u] \in Elements(snap.blocks) \cup {NULL}
      BY <1>1 DEF SnapInv
    <3> QED BY <1>1, <1>2, <3>1, PtrRestored
  <2>7. Home(b.addr) = Copy(i).p_raw
    BY <1>3, <2>2
  <2> QED BY <2>3, <2>4, <2>5, <2>6, <2>7
<1> QED BY <1>5, <1>6, <1>7 DEF GraphRestored

-----------------------------------------------------------------------------
(* A process after wasm_runtime_full_init.                                  *)
Fresh ==
    /\ pool_allocator \in Bases /\ exited \in BOOLEAN
    /\ blocks = {InitBlock(pool_allocator)} /\ root_info = <<InitInfo(pool_allocator)>>

LEMMA FreshPool == Fresh => PoolInv /\ AbsIsOffset
<1> SUFFICES ASSUME Fresh PROVE PoolInv /\ AbsIsOffset
  OBVIOUS
<1> DEFINE b == InitBlock(pool_allocator)
           x == InitInfo(pool_allocator)
<1>1. /\ pool_allocator \in Nat /\ pool_allocator \in Bases /\ exited \in BOOLEAN
      /\ PoolSize \in Nat /\ PoolSize > 0 /\ MaxSize \in Nat /\ MaxSize > 0
  BY PoolAssumption, MigrationAssumption DEF Fresh
<1>2. b.addr = pool_allocator + 1 /\ b.size = 1 /\ b.type = "skip" /\ b \in Blocks
  BY <1>1 DEF InitBlock, Blocks, Addrs, Types
<1>3. /\ x.p_raw = pool_allocator + 1 /\ x.size = 1 /\ x.type = "skip" /\ x.abs = <<1>>
      /\ x \in PoolInfos
  BY <1>1 DEF InitInfo, PoolInfos, Types
<1> HIDE DEF b, x
<1>4. blocks = {b} /\ root_info = <<x>>
  BY DEF Fresh, b, x
<1>5. /\ root_info \in Seq(PoolInfos) /\ Len(root_info) = 1 /\ root_info[1] = x
  BY <1>3, <1>4
<1>6. TypeOK
  BY <1>1, <1>2, <1>4, <1>5, ZenonT(30) DEF TypeOK
<1>7. PoolDisjoint
  BY <1>1, <1>2, <1>4 DEF PoolDisjoint
<1>8. Describes(x, b)
  BY <1>2, <1>3 DEF Describes
<1>9. Mirrors(root_info, blocks)
  BY <1>4, <1>5, <1>8 DEF Mirrors
<1>10. HasOffsets(x)
  BY <1>1, <1>3 DEF HasOffsets, InfoCount
<1>11. AbsIsOffset /\ Counted
  BY <1>5, <1>10 DEF AbsIsOffset, Counted, HasOffsets
<1> QED BY <1>6, <1>7, <1>9, <1>11 DEF PoolInv, RegistryMirrorsPool

(* The skipped blocks hold no pointers and are not pointed to.              *)
LEMMA SkipAdds ==
    ASSUME NEW bs, NEW b, b.type = "skip"
    PROVE  PtrUnits(bs \cup {b}) = PtrUnits(bs) /\ Elements(bs \cup {b}) = Elements(bs)
BY DEF PtrUnits, Elements

LEMMA Nothing == PtrUnits({}) = {} /\ Elements({}) = {}
BY DEF PtrUnits, Elements

LEMMA MInitInv == MInit => MInv
<1> SUFFICES ASSUME MInit PROVE MInv
  OBVIOUS
<1>1. Fresh
  BY ZenonT(30) DEF MInit, Fresh
<1>2. PoolInv /\ AbsIsOffset
  BY <1>1, FreshPool
<1>3. PtrUnits(blocks) = {}
  <2>1. blocks = {} \cup {InitBlock(pool_allocator)} /\ InitBlock(pool_allocator).type = "skip"
    BY DEF MInit, InitBlock
  <2> QED BY <2>1, SkipAdds, Nothing
<1>4. MemInv
  <2>1. DOMAIN mem = {} /\ gen \in 0 .. MaxGen /\ pos \in Nat /\ phase = "run"
    BY MigrationAssumption DEF MInit
  <2>2. migr_flag \in BOOLEAN /\ phase \in Phases
    BY ZenonT(30) DEF MInit, Phases
  <2> QED BY <1>3, <2>1, <2>2, ZenonT(30) DEF MemInv
<1>5. /\ snap.base = pool_allocator /\ snap.blocks = {} /\ snap.mem = <<>> /\ snap.local = NULL
  BY DEF MInit
<1>6. SnapInv
  BY <1>5, Nothing DEF MInit, SnapInv
<1>7. ImageInv
  BY <1>5 DEF MInit, ImageInv, Away
<1>8. RunInv /\ CopyInv /\ FillInv /\ NoRestoreError
  BY <1>2 DEF MInit, RunInv, CopyInv, FillInv, NoRestoreError, Restoring
<1> QED BY <1>2, <1>4, <1>6, <1>7, <1>8 DEF MInv

-----------------------------------------------------------------------------
(* The images and the history change at a checkpoint only.                  *)
LEMMA ImagesKept ==
    ASSUME SnapInv, ImageInv, UNCHANGED imgVars
    PROVE  SnapInv' /\ ImageInv'
<1>1. /\ pool_img' = pool_img /\ dump_img' = dump_img /\ interp_img' = interp_img
      /\ snap' = snap
  BY DEF imgVars
<1>2. SnapInv'
  BY <1>1, ZenonT(30) DEF SnapInv
<1>3. ImageInv'
  <2>1. \A i : Original(i)' = Original(i)
    BY <1>1 DEF Original
  <2>2. \A p : (IF p = NULL THEN AbsNull ELSE p - snap'.base) = Away(p)
    BY <1>1 DEF Away
  <2>3. ASSUME NEW i \in 1 .. Len(pool_img) PROVE RecordOf(i)'
    <3>1. RecordOf(i)
      BY DEF ImageInv
    <3> QED BY <1>1, <2>1, <2>2, <3>1 DEF RecordOf, Away, InfoCount
  <2> QED BY <1>1, <2>1, <2>3 DEF ImageInv, Away
<1> QED BY <1>2, <1>3

(* A step of the running interpreter.                                       *)
LEMMA RunStep ==
    ASSUME MInv, phase = "run", UNCHANGED <<migr_flag, phase, pos, imgVars>>, exited' = exited,
           PoolInv', AbsIsOffset => AbsIsOffset', DOMAIN mem' = PtrUnits(blocks'),
           \A u \in DOMAIN mem' : mem'[u] \in Elements(blocks') \cup {NULL}
    PROVE  MInv'
<1>1. SnapInv' /\ ImageInv'
  BY ImagesKept DEF MInv
<1>2. MemInv'
  BY ZenonT(30) DEF MInv, MemInv, imgVars
<1>3. RunInv'
  BY DEF MInv, RunInv
<1>4. phase' = "run" /\ ~ exited'
  BY DEF MInv, NoRestoreError
<1>5. CopyInv' /\ FillInv' /\ NoRestoreError'
  BY <1>4 DEF CopyInv, FillInv, NoRestoreError, Restoring
<1> QED BY <1>1, <1>2, <1>3, <1>5 DEF MInv

(* A step of a process that restores.                                       *)
LEMMA RestoreStep ==
    ASSUME MInv, phase \notin {"run", "interp"}, UNCHANGED <<migr_flag, imgVars>>,
           exited' = exited, phase' # "run",
           PoolInv', MemInv', CopyInv', FillInv'
    PROVE  MInv'
<1>1. SnapInv' /\ ImageInv'
  BY ImagesKept DEF MInv
<1>2. RunInv'
  BY DEF RunInv
<1>3. ~ exited'
  BY DEF MInv, NoRestoreError
<1> QED BY <1>1, <1>2, <1>3 DEF MInv, NoRestoreError

(* More blocks have more units and more elements.                           *)
LEMMA Grows ==
    ASSUME NEW bs, NEW cs, bs \subseteq cs
    PROVE  PtrUnits(bs) \subseteq PtrUnits(cs) /\ Elements(bs) \subseteq Elements(cs)
BY DEF PtrUnits, Elements

(* A new block is cleared and leaves the others alone.                      *)
LEMMA Cleared ==
    ASSUME MemInv, NEW b, blocks' = blocks \cup {b},
           mem' = [u \in PtrUnits(blocks') |-> IF u \in DOMAIN mem THEN mem[u] ELSE NULL]
    PROVE  /\ DOMAIN mem' = PtrUnits(blocks')
           /\ \A u \in DOMAIN mem' : mem'[u] \in Elements(blocks') \cup {NULL}
<1>1. DOMAIN mem' = PtrUnits(blocks')
  OBVIOUS
<1>2. ASSUME NEW u \in DOMAIN mem' PROVE mem'[u] \in Elements(blocks') \cup {NULL}
  <2>1. Elements(blocks) \subseteq Elements(blocks')
    BY Grows
  <2>2. mem'[u] = IF u \in DOMAIN mem THEN mem[u] ELSE NULL
    BY <1>1
  <2>3. u \in DOMAIN mem => mem[u] \in Elements(blocks) \cup {NULL}
    BY DEF MemInv
  <2> QED BY <2>1, <2>2, <2>3
<1> QED BY <1>1, <1>2

LEMMA NewInv ==
    ASSUME MInv, NEW b \in Blocks, New(b)
    PROVE  MInv'
<1>1. /\ PoolInv /\ MemInv /\ pool_allocator \in Bases
  BY DEF MInv, PoolInv, TypeOK
<1>2. /\ phase = "run" /\ Fits(b, blocks) /\ blocks' = blocks \cup {b}
      /\ root_info' = <<NewInfo(b)>> \o root_info
      /\ mem' = [u \in PtrUnits(blocks') |-> IF u \in DOMAIN mem THEN mem[u] ELSE NULL]
      /\ UNCHANGED <<migr_flag, phase, pos, imgVars>>
      /\ pool_allocator' = pool_allocator /\ exited' = exited
  BY ZenonT(30) DEF New, Running, Alloc, AddInfo
<1>3. /\ NewInfo(b) \in PoolInfos /\ Describes(NewInfo(b), b)
      /\ HasOffsets(NewInfo(b)) /\ Len(NewInfo(b).abs) = InfoCount(NewInfo(b))
  BY <1>1, NewInfoType DEF HasOffsets
<1>4. PoolInv' /\ (AbsIsOffset => AbsIsOffset')
  BY <1>1, <1>2, <1>3, AllocStep
<1>5. /\ DOMAIN mem' = PtrUnits(blocks')
      /\ \A u \in DOMAIN mem' : mem'[u] \in Elements(blocks') \cup {NULL}
  BY <1>1, <1>2, Cleared, ZenonT(30)
<1> QED BY <1>2, <1>4, <1>5, RunStep, ZenonT(30)

LEMMA DeleteInv ==
    ASSUME MInv, NEW b \in blocks, Delete(b)
    PROVE  MInv'
<1>1. /\ PoolInv /\ MemInv
  BY DEF MInv
<1>2. /\ phase = "run" /\ Free(b) /\ blocks' = blocks \ {b}
      /\ \A u \in PtrUnits(blocks \ {b}) : mem[u] \notin Elements({b})
      /\ mem' = [u \in PtrUnits(blocks') |-> mem[u]]
      /\ UNCHANGED <<migr_flag, phase, pos, imgVars>>
  BY ZenonT(30) DEF Delete, Running, Free
<1>3. PoolInv' /\ (AbsIsOffset => AbsIsOffset') /\ exited' = exited
  BY <1>1, <1>2, FreeStep
<1>4. DOMAIN mem' = PtrUnits(blocks')
  BY <1>2
<1>5. ASSUME NEW u \in DOMAIN mem' PROVE mem'[u] \in Elements(blocks') \cup {NULL}
  <2>1. mem'[u] = mem[u] /\ u \in PtrUnits(blocks \ {b})
    BY <1>2, <1>4
  <2>2. u \in DOMAIN mem
    BY <1>1, <2>1, Grows DEF MemInv
  <2>3. mem[u] \in Elements(blocks) \cup {NULL} /\ mem[u] \notin Elements({b})
    BY <1>1, <1>2, <2>1, <2>2 DEF MemInv
  <2>4. Elements(blocks) \subseteq Elements(blocks \ {b}) \cup Elements({b})
    BY DEF Elements
  <2> QED BY <1>2, <2>1, <2>3, <2>4
<1> QED BY <1>2, <1>3, <1>4, <1>5, RunStep

LEMMA SetInv ==
    ASSUME MInv, \/ \E u \in DOMAIN mem, p \in Elements(blocks) \cup {NULL} : SetPtr(u, p)
                 \/ \E p \in Elements(blocks) \cup {NULL} : SetLocal(p)
    PROVE  MInv'
<1>1. /\ PoolInv /\ MemInv
  BY DEF MInv
<1>2. /\ phase = "run" /\ UNCHANGED poolVars
      /\ UNCHANGED <<migr_flag, phase, pos, imgVars>>
  BY ZenonT(30) DEF SetPtr, SetLocal, Running
<1>3. PoolInv' /\ (AbsIsOffset => AbsIsOffset') /\ exited' = exited /\ blocks' = blocks
  BY <1>1, <1>2 DEF poolVars, PoolInv, TypeOK, PoolDisjoint, RegistryMirrorsPool, Counted,
                    AbsIsOffset, Mirrors, HasOffsets, InfoCount, Blocks, Addrs
<1>4. /\ DOMAIN mem' = DOMAIN mem
      /\ \A u \in DOMAIN mem' : mem'[u] \in Elements(blocks) \cup {NULL}
  BY <1>1 DEF MemInv, SetPtr, SetLocal
<1>5. /\ DOMAIN mem' = PtrUnits(blocks')
      /\ \A u \in DOMAIN mem' : mem'[u] \in Elements(blocks') \cup {NULL}
  BY <1>1, <1>3, <1>4 DEF MemInv
<1> QED BY <1>2, <1>3, <1>5, RunStep

LEMMA GrowInv ==
    ASSUME MInv, NEW b \in blocks, NEW c \in Blocks, Grow(b, c)
    PROVE  MInv'
<1> DEFINE moved(p) == IF p = b.addr THEN c.addr ELSE p
<1>1. /\ PoolInv /\ MemInv /\ pool_allocator \in Bases
  BY DEF MInv, PoolInv, TypeOK
<1>2. /\ phase = "run" /\ Enlarge(b, c) /\ b.type = "buf" /\ c.type = "buf"
      /\ blocks' = (blocks \ {b}) \cup {c}
      /\ mem' = [u \in DOMAIN mem |-> moved(mem[u])]
      /\ UNCHANGED <<migr_flag, phase, pos, imgVars>>
  BY ZenonT(30) DEF Grow, Running, Enlarge
<1>3. PoolInv' /\ (AbsIsOffset => AbsIsOffset') /\ exited' = exited
  BY <1>1, <1>2, EnlargeStep
<1>4. b.addr \in Int /\ c.addr \in Int
  <2>1. b.addr \in Addrs /\ c.addr \in Addrs
    BY <1>1, ZenonT(30) DEF PoolInv, TypeOK, Blocks
  <2> QED BY <2>1, <1>1, PoolAssumption DEF Addrs
<1>5. PtrUnits(blocks') = PtrUnits(blocks)
  BY <1>2 DEF PtrUnits
<1>6. ASSUME NEW p \in Elements(blocks) PROVE moved(p) \in Elements(blocks')
  <2>1. PICK d \in blocks : d.type # "skip" /\ p \in d.addr .. d.addr + InfoCount(d) - 1
    BY DEF Elements
  <2>2. CASE p = b.addr
    <3>1. c.addr \in c.addr .. c.addr + InfoCount(c) - 1
      BY <1>2, <1>4 DEF InfoCount
    <3>2. c.addr \in Elements(blocks')
      BY <1>2, <3>1 DEF Elements
    <3> QED BY <2>2, <3>2
  <2>3. CASE p # b.addr
    <3>1. d # b
      BY <1>2, <1>4, <2>1, <2>3 DEF InfoCount
    <3>2. p \in Elements(blocks')
      BY <1>2, <2>1, <3>1 DEF Elements
    <3> QED BY <2>3, <3>2
  <2> QED BY <2>2, <2>3
<1>7. b.addr # NULL
  BY <1>1, NewBlock DEF NULL
<1>8. /\ DOMAIN mem' = PtrUnits(blocks')
      /\ \A u \in DOMAIN mem' : mem'[u] \in Elements(blocks') \cup {NULL}
  <2>1. DOMAIN mem' = DOMAIN mem /\ \A u \in DOMAIN mem' : mem'[u] = moved(mem[u])
    BY <1>2
  <2>2. \A u \in DOMAIN mem : mem[u] \in Elements(blocks) \cup {NULL}
    BY <1>1 DEF MemInv
  <2>3. DOMAIN mem' = PtrUnits(blocks')
    BY <1>1, <1>5, <2>1 DEF MemInv
  <2>4. moved(NULL) = NULL
    BY <1>7
  <2> HIDE DEF moved
  <2> QED BY <1>6, <2>1, <2>2, <2>3, <2>4
<1> QED BY <1>2, <1>3, <1>8, RunStep

LEMMA CheckpointInv ==
    ASSUME MInv, Checkpoint
    PROVE  MInv'
<1>1. /\ PoolInv /\ MemInv /\ NoRestoreError
  BY DEF MInv
<1>2. /\ phase = "run" /\ phase' = "down" /\ gen < MaxGen /\ gen' = gen + 1
      /\ blocks' = {} /\ root_info' = <<>> /\ mem' = <<>>
      /\ pool_allocator' = pool_allocator /\ exited' = exited /\ migr_flag' = migr_flag
      /\ pos' = pos
  BY DEF Checkpoint, Running
<1>3. SnapInv' /\ ImageInv'
  BY CheckpointImages
<1>4. PoolInv'
  <2>1. Len(root_info') = 0 /\ root_info' \in Seq(PoolInfos)
    BY <1>2
  <2>2. TypeOK'
    BY <1>1, <1>2, <2>1, ZenonT(30) DEF PoolInv, TypeOK
  <2>3. (PoolDisjoint /\ RegistryMirrorsPool /\ Counted)'
    BY <1>2, <2>1 DEF PoolDisjoint, RegistryMirrorsPool, Mirrors, Counted
  <2> QED BY <2>2, <2>3 DEF PoolInv
<1>5. MemInv'
  <2>1. DOMAIN mem' = {} /\ PtrUnits(blocks') = {}
    BY <1>2, Nothing
  <2>2. gen' \in 0 .. MaxGen /\ pos' \in Nat /\ phase' \in Phases
    BY <1>1, <1>2, MigrationAssumption DEF MemInv, Phases
  <2>3. migr_flag' \in BOOLEAN
    BY <1>1, <1>2, ZenonT(30) DEF MemInv
  <2> QED BY <1>2, <2>1, <2>2, <2>3, ZenonT(30) DEF MemInv
<1>6. (RunInv /\ CopyInv /\ FillInv /\ NoRestoreError)'
  BY <1>1, <1>2 DEF RunInv, CopyInv, FillInv, NoRestoreError, Restoring
<1> QED BY <1>3, <1>4, <1>5, <1>6 DEF MInv

LEMMA BootInv ==
    ASSUME MInv, NEW base \in Bases, Boot(base)
    PROVE  MInv'
<1>1. /\ PoolInv /\ MemInv
  BY DEF MInv
<1>2. /\ phase = "down" /\ phase' = "alloc" /\ pos' = 1 /\ pool_allocator' = base
      /\ blocks' = {InitBlock(base)} /\ root_info' = <<InitInfo(base)>>
      /\ mem' = mem /\ exited' = exited /\ UNCHANGED <<migr_flag, imgVars>>
  BY DEF Boot
<1>3. PoolInv'
  <2>1. Fresh'
    BY <1>1, <1>2, ZenonT(30) DEF Fresh, PoolInv, TypeOK
  <2> QED BY <2>1, FreshPool, PTL
<1>4. MemInv'
  <2>1. DOMAIN mem' = {}
    BY <1>1, <1>2, Nothing, ZenonT(30) DEF MemInv
  <2>2. PtrUnits(blocks') = {}
    <3>1. blocks' = {} \cup {InitBlock(base)} /\ InitBlock(base).type = "skip"
      BY <1>2 DEF InitBlock
    <3> QED BY <3>1, SkipAdds, Nothing
  <2>3. gen' \in 0 .. MaxGen /\ pos' \in Nat /\ phase' \in Phases
    BY <1>1, <1>2 DEF MemInv, Phases, imgVars
  <2>4. migr_flag' \in BOOLEAN
    BY <1>1, <1>2, ZenonT(30) DEF MemInv
  <2> QED BY <1>2, <2>1, <2>2, <2>3, <2>4, ZenonT(30) DEF MemInv
<1>5. CopyInv'
  <2>1. Len(pool_img') \in Nat
    BY <1>2 DEF MInv, ImageInv, imgVars
  <2>2. Len(root_info') = 1 /\ root_info'[1].type = "skip"
    BY <1>2 DEF InitInfo
  <2>3. Allocated' = 0
    BY <1>2 DEF Allocated
  <2> QED BY <1>2, <2>1, <2>2, <2>3 DEF CopyInv
<1>6. FillInv'
  BY <1>2 DEF FillInv
<1> QED BY <1>2, <1>3, <1>4, <1>5, <1>6, RestoreStep

(* A new head leaves the copies where they are, counted from the tail.      *)
LEMMA Pushed ==
    ASSUME root_info \in Seq(PoolInfos), NEW x \in PoolInfos, root_info' = <<x>> \o root_info
    PROVE  /\ Len(root_info') = Len(root_info) + 1 /\ root_info'[1] = x
           /\ \A i \in Int : Len(root_info) - i \in 1 .. Len(root_info) => Copy(i)' = Copy(i)
           /\ 1 <= Len(root_info) => root_info'[Len(root_info')] = root_info[Len(root_info)]
<1>1. /\ Len(root_info') = Len(root_info) + 1 /\ root_info'[1] = x /\ Len(root_info) \in Nat
      /\ \A i \in 2 .. Len(root_info) + 1 : root_info'[i] = root_info[i - 1]
  BY PushSeq
<1>2. ASSUME NEW i \in Int, Len(root_info) - i \in 1 .. Len(root_info) PROVE Copy(i)' = Copy(i)
  <2>1. /\ Len(root_info') - i \in 2 .. Len(root_info) + 1
        /\ (Len(root_info') - i) - 1 = Len(root_info) - i
    BY <1>1, <1>2
  <2> QED BY <1>1, <2>1 DEF Copy
<1>3. 1 <= Len(root_info) => root_info'[Len(root_info')] = root_info[Len(root_info)]
  BY <1>1
<1> QED BY <1>1, <1>2, <1>3

LEMMA RestoreInfoInv ==
    ASSUME MInv, NEW a \in Addrs, RestoreInfo(a)
    PROVE  MInv'
<1> DEFINE r == pool_img[pos]
           b == [addr |-> a, size |-> r.size, type |-> r.type]
           x == [p_raw |-> a, type |-> r.type, size |-> r.size, abs |-> r.abs]
<1>1. /\ PoolInv /\ MemInv /\ SnapInv /\ ImageInv /\ CopyInv /\ FillInv
      /\ root_info \in Seq(PoolInfos) /\ pool_allocator \in Bases
  BY DEF MInv, PoolInv, TypeOK
<1>2. /\ phase = "alloc" /\ phase' = "alloc" /\ pos <= Len(pool_img) /\ Fits(b, blocks)
      /\ blocks' = blocks \cup {b} /\ root_info' = <<x>> \o root_info
      /\ mem' = [u \in PtrUnits(blocks') |-> IF u \in DOMAIN mem THEN mem[u] ELSE NULL]
      /\ pos' = pos + 1 /\ pool_allocator' = pool_allocator /\ exited' = exited
      /\ UNCHANGED <<migr_flag, imgVars>>
  BY DEF RestoreInfo
<1>3. /\ pos \in 1 .. Len(pool_img) /\ Len(root_info) = pos /\ Allocated = pos - 1
      /\ Len(pool_img) \in Nat /\ pos \in Nat /\ root_info[Len(root_info)].type = "skip"
  BY <1>1, <1>2 DEF CopyInv, Restoring, Allocated, ImageInv, MemInv
<1>4. /\ r.size \in 1 .. MaxSize /\ r.type \in Types
      /\ r.abs \in Seq(Int) /\ Len(r.abs) = InfoCount(Original(pos))
      /\ Original(pos).size = r.size /\ Original(pos).type = r.type
  <2>1. /\ Original(pos) \in snap.blocks /\ RecordOf(pos) /\ Len(r.abs) = InfoCount(Original(pos))
        /\ Original(pos).size = r.size /\ Original(pos).type = r.type
    BY <1>1, <1>3, Record
  <2>2. Original(pos).size \in 1 .. MaxSize /\ Original(pos).type \in Types
    BY <1>1, <2>1 DEF SnapInv
  <2>3. r.abs \in Seq(Int)
    BY <2>1 DEF RecordOf
  <2> QED BY <2>1, <2>2, <2>3
<1> HIDE DEF r
<1>5. a \in Int
  BY <1>1, PoolAssumption DEF Addrs
<1>6. b \in Blocks /\ x \in PoolInfos /\ Describes(x, b)
  BY <1>4, <1>5 DEF Blocks, PoolInfos, Describes
<1>7. Len(x.abs) = InfoCount(x)
  BY <1>4 DEF InfoCount
<1>8. x.abs = r.abs /\ x.type = r.type /\ x.size = r.size
  OBVIOUS
<1> HIDE DEF b, x
<1>9. PoolInv'
  BY <1>1, <1>2, <1>6, <1>7, AllocStep
<1>10. MemInv'
  <2>1. /\ DOMAIN mem' = PtrUnits(blocks')
        /\ \A u \in DOMAIN mem' : mem'[u] \in Elements(blocks') \cup {NULL}
    BY <1>1, <1>2, Cleared, ZenonT(30)
  <2>2. gen' \in 0 .. MaxGen /\ pos' \in Nat /\ phase' \in Phases /\ phase' # "down"
    BY <1>1, <1>2 DEF MemInv, Phases, imgVars
  <2>3. migr_flag' \in BOOLEAN
    BY <1>1, <1>2, ZenonT(30) DEF MemInv
  <2> QED BY <2>1, <2>2, <2>3, ZenonT(30) DEF MemInv
<1>11. CopyInv'
  <2>1. /\ Len(root_info') = pos + 1 /\ root_info'[1] = x
        /\ root_info'[Len(root_info')] = root_info[Len(root_info)]
        /\ \A i \in Int : Len(root_info) - i \in 1 .. Len(root_info) => Copy(i)' = Copy(i)
    <3>1. 1 <= Len(root_info) /\ Len(root_info) + 1 = pos + 1
      BY <1>3
    <3> QED BY <1>1, <1>2, <1>6, <3>1, Pushed, ZenonT(30)
  <2>2. pool_img' = pool_img /\ Allocated' = pos
    BY <1>2, <1>3 DEF imgVars, Allocated
  <2>3. ASSUME NEW i \in 1 .. pos
        PROVE  /\ Copy(i)'.abs = pool_img[i].abs
               /\ Copy(i)'.type = pool_img[i].type /\ Copy(i)'.size = pool_img[i].size
    <3>1. CASE i = pos
      <4>1. Copy(i)' = x
        BY <1>3, <2>1, <3>1 DEF Copy
      <4> QED BY <1>8, <3>1, <4>1 DEF r
    <3>2. CASE i # pos
      <4>1. i \in 1 .. Allocated /\ Len(root_info) - i \in 1 .. Len(root_info)
        BY <1>3, <3>2
      <4>2. Copy(i)' = Copy(i)
        BY <2>1, <4>1
      <4>3. /\ Copy(i).abs = pool_img[i].abs
            /\ Copy(i).type = pool_img[i].type /\ Copy(i).size = pool_img[i].size
        BY <1>1, <1>2, <4>1 DEF CopyInv, Restoring
      <4> QED BY <4>2, <4>3
    <3> QED BY <3>1, <3>2
  <2>4. pos' \in 1 .. Len(pool_img) + 1
    BY <1>2, <1>3
  <2> QED BY <1>2, <1>3, <2>1, <2>2, <2>3, <2>4 DEF CopyInv
<1>12. FillInv'
  BY <1>2 DEF FillInv
<1> QED BY <1>2, <1>9, <1>10, <1>11, <1>12, RestoreStep

(* A step that changes the phase only.                                      *)
LEMMA PhaseInv ==
    ASSUME MInv, RestoreNoSpace \/ StartFill \/ EndFill \/ InitWasiFails
    PROVE  MInv'
<1>1. /\ PoolInv /\ MemInv /\ ImageInv /\ CopyInv /\ FillInv
  BY DEF MInv
<1>2. /\ phase \in {"alloc", "fill", "wasi"} /\ phase' \in {"crashed", "fill", "wasi", "interp"}
      /\ UNCHANGED <<poolVars, mem, local, migr_flag, imgVars>> /\ pos' \in {1, pos}
  BY DEF RestoreNoSpace, StartFill, EndFill, InitWasiFails
<1>3. PoolInv' /\ root_info' = root_info /\ exited' = exited /\ blocks' = blocks
  BY <1>1, <1>2 DEF poolVars, PoolInv, TypeOK, PoolDisjoint, RegistryMirrorsPool, Counted,
                    Mirrors, InfoCount, Blocks, Addrs
<1>4. MemInv'
  <2>1. gen' \in 0 .. MaxGen /\ pos' \in Nat /\ phase' \in Phases /\ phase' # "down"
    BY <1>1, <1>2 DEF MemInv, Phases, imgVars
  <2>2. migr_flag' \in BOOLEAN
    BY <1>1, <1>2, ZenonT(30) DEF MemInv
  <2> QED BY <1>1, <1>2, <1>3, <2>1, <2>2, ZenonT(30) DEF MemInv
<1>5. \A i : Copy(i)' = Copy(i)
  BY <1>3 DEF Copy
<1>6. pool_img' = pool_img /\ dump_img' = dump_img /\ Len(pool_img) \in Nat
      /\ Len(dump_img) = Len(pool_img) /\ pos \in Nat
  BY <1>1, <1>2 DEF imgVars, ImageInv, MemInv
<1>7. phase' # "crashed" => Allocated' = Allocated
  <2>1. StartFill => pos = Len(pool_img) + 1
    BY <1>1, <1>6 DEF StartFill, CopyInv, Restoring
  <2> QED BY <1>6, <2>1 DEF RestoreNoSpace, StartFill, EndFill, InitWasiFails, Allocated
<1>8. CopyInv'
  BY <1>1, <1>2, <1>3, <1>5, <1>6, <1>7 DEF CopyInv, Restoring
<1>9. FillInv'
  <2>1. CASE StartFill
    BY <1>6, <2>1 DEF StartFill, FillInv
  <2>2. CASE EndFill
    <3>1. phase = "fill" /\ phase' = "wasi" /\ pos' = pos /\ pos > Len(dump_img) /\ mem' = mem
      BY <2>2 DEF EndFill
    <3>2. pos = Len(dump_img) + 1
      BY <1>1, <1>6, <3>1 DEF FillInv
    <3> QED BY <1>1, <1>3, <1>5, <1>6, <3>1, <3>2 DEF FillInv
  <2>3. CASE RestoreNoSpace \/ InitWasiFails
    BY <2>3 DEF RestoreNoSpace, InitWasiFails, FillInv
  <2> QED BY <2>1, <2>2, <2>3
<1> QED BY <1>1, <1>2, <1>3, <1>4, <1>8, <1>9, RestoreStep

LEMMA InitWasiInv ==
    ASSUME MInv, NEW b \in SkipBlocks, InitWasi(b)
    PROVE  MInv'
<1>1. /\ PoolInv /\ MemInv /\ SnapInv /\ ImageInv /\ CopyInv
      /\ root_info \in Seq(PoolInfos) /\ pool_allocator \in Bases
      /\ b \in Blocks /\ b.type = "skip"
  BY DEF MInv, PoolInv, TypeOK, SkipBlocks
<1>2. /\ phase = "wasi" /\ phase' = "interp" /\ Fits(b, blocks)
      /\ blocks' = blocks \cup {b} /\ root_info' = <<NewInfo(b)>> \o root_info
      /\ mem' = mem /\ pos' = pos /\ pool_allocator' = pool_allocator /\ exited' = exited
      /\ UNCHANGED <<migr_flag, imgVars>>
  BY DEF InitWasi, AddInfo
<1>3. /\ NewInfo(b) \in PoolInfos /\ Describes(NewInfo(b), b)
      /\ Len(NewInfo(b).abs) = InfoCount(NewInfo(b))
  BY <1>1, NewInfoType DEF HasOffsets
<1>4. PoolInv'
  BY <1>1, <1>2, <1>3, AllocStep
<1>5. MemInv'
  <2>1. PtrUnits(blocks') = PtrUnits(blocks) /\ Elements(blocks') = Elements(blocks)
    BY <1>1, <1>2, SkipAdds
  <2>2. gen' \in 0 .. MaxGen /\ pos' \in Nat /\ phase' \in Phases /\ phase' # "down"
    BY <1>1, <1>2 DEF MemInv, Phases, imgVars
  <2>3. migr_flag' \in BOOLEAN
    BY <1>1, <1>2, ZenonT(30) DEF MemInv
  <2> QED BY <1>1, <1>2, <2>1, <2>2, <2>3, ZenonT(30) DEF MemInv
<1>6. CopyInv'
  <2>1. /\ Allocated = Len(pool_img) /\ Restoring /\ Len(root_info) = Len(pool_img) + 1
        /\ root_info[Len(root_info)].type = "skip" /\ Len(pool_img) \in Nat
    BY <1>1, <1>2 DEF CopyInv, Restoring, Allocated, ImageInv
  <2>2. /\ Len(root_info') = Len(root_info) + 1 /\ root_info'[1] = NewInfo(b)
        /\ root_info'[Len(root_info')] = root_info[Len(root_info)]
        /\ \A i \in Int : Len(root_info) - i \in 1 .. Len(root_info) => Copy(i)' = Copy(i)
    <3>1. 1 <= Len(root_info)
      BY <2>1
    <3> QED BY <1>1, <1>2, <1>3, <3>1, Pushed, ZenonT(30)
  <2>3. pool_img' = pool_img /\ Allocated' = Allocated
    BY <1>2, <2>1 DEF imgVars, Allocated
  <2>4. root_info'[1].type = "skip"
    BY <1>1, <1>3, <2>2 DEF Describes
  <2>5. ASSUME NEW i \in 1 .. Allocated
        PROVE  /\ Copy(i)'.abs = pool_img[i].abs
               /\ Copy(i)'.type = pool_img[i].type /\ Copy(i)'.size = pool_img[i].size
    <3>1. i \in Int /\ Len(root_info) - i \in 1 .. Len(root_info)
      BY <2>1
    <3>2. Copy(i)' = Copy(i)
      BY <2>2, <3>1
    <3>3. /\ Copy(i).abs = pool_img[i].abs
          /\ Copy(i).type = pool_img[i].type /\ Copy(i).size = pool_img[i].size
      BY <1>1, <2>1, SMTT(30) DEF CopyInv
    <3> QED BY <3>2, <3>3
  <2>6. Len(root_info') = Allocated' + 2
    BY <2>1, <2>2, <2>3
  <2>7. root_info'[Len(root_info')].type = "skip"
    BY <2>1, <2>2
  <2>8. phase' = "interp"
    BY <1>2
  <2>9. \A i \in 1 .. Allocated' :
           /\ Copy(i)'.abs = pool_img'[i].abs
           /\ Copy(i)'.type = pool_img'[i].type /\ Copy(i)'.size = pool_img'[i].size
    BY <2>3, <2>5, ZenonT(30)
  <2>10. ~ (phase' = "alloc")
    BY <2>8
  <2> QED BY <2>4, <2>6, <2>7, <2>8, <2>9, <2>10, ZenonT(30) DEF CopyInv
<1>7. FillInv'
  BY <1>2 DEF FillInv
<1> QED BY <1>2, <1>4, <1>5, <1>6, <1>7, RestoreStep

LEMMA RestoreInterpInv ==
    ASSUME MInv, RestoreInterp
    PROVE  MInv'
<1>1. /\ PoolInv /\ MemInv /\ SnapInv /\ ImageInv /\ CopyInv
  BY DEF MInv
<1>2. /\ phase = "interp" /\ UNCHANGED <<pool_allocator, blocks, root_info, mem, pos, imgVars>>
      /\ \/ phase' = "run" /\ migr_flag' = TRUE /\ exited' = exited /\ ~ exited
         \/ /\ ~ Resolves(interp_img, root_info)
            /\ exited' = TRUE /\ phase' = phase /\ migr_flag' = migr_flag
  BY ZenonT(30) DEF RestoreInterp
<1>3. exited' \in BOOLEAN
  BY <1>1, <1>2, ZenonT(30) DEF PoolInv, TypeOK
<1>4. PoolInv'
  <2>1. /\ TypeOK'
    BY <1>1, <1>2, <1>3, ZenonT(30) DEF PoolInv, TypeOK, Blocks, Addrs
  <2>2. (PoolDisjoint /\ RegistryMirrorsPool /\ Counted)'
    BY <1>1, <1>2, SMTT(30) DEF PoolInv, PoolDisjoint, RegistryMirrorsPool, Mirrors, Counted, InfoCount, Overlap
  <2> QED BY <2>1, <2>2 DEF PoolInv
<1>5. SnapInv' /\ ImageInv'
  BY <1>1, <1>2, ImagesKept
<1>6. MemInv'
  <2>1. gen' \in 0 .. MaxGen /\ pos' \in Nat /\ phase' \in Phases /\ phase' # "down"
    BY <1>1, <1>2 DEF MemInv, Phases, imgVars
  <2>2. migr_flag' \in BOOLEAN
    BY <1>1, <1>2, ZenonT(30) DEF MemInv
  <2> QED BY <1>1, <1>2, <2>1, <2>2, ZenonT(30) DEF MemInv
<1>7. RunInv'
  BY <1>2 DEF RunInv
<1>8. FillInv'
  BY <1>2 DEF FillInv
<1>9. CopyInv'
  <2>1. phase' = "interp" => Restoring /\ Allocated' = Allocated /\ \A i : Copy(i)' = Copy(i)
    BY <1>2 DEF Restoring, Allocated, Copy, imgVars
  <2> QED BY <1>1, <1>2, <2>1 DEF CopyInv, Restoring, imgVars
<1>10. NoRestoreError'
  <2>1. CASE exited' = exited /\ ~ exited
    BY <2>1 DEF NoRestoreError
  <2>2. CASE ~ Resolves(interp_img, root_info) /\ phase' = phase
    <3>1. interp_img = Away(snap.local)
      BY <1>1 DEF ImageInv
    <3>2. snap.local \notin Elements(snap.blocks) \cup {NULL}
      BY <1>1, <1>2, <2>2, <3>1, PtrFound
    <3> QED BY <1>2, <2>2, <3>2 DEF NoRestoreError, imgVars
  <2> QED BY <1>2, <2>1, <2>2
<1> QED BY <1>4, <1>5, <1>6, <1>7, <1>8, <1>9, <1>10 DEF MInv

(* restore_internal fills one copy: everything is found, and the units of   *)
(* the other copies are left alone.                                         *)
LEMMA RestoreDataInv ==
    ASSUME MInv, RestoreData
    PROVE  MInv'
<1> DEFINE r == dump_img[pos]
           n == Len(r.ptrs)
           a == Copy(pos).p_raw
<1>1. /\ PoolInv /\ MemInv /\ SnapInv /\ ImageInv /\ CopyInv /\ FillInv
  BY DEF MInv
<1>2. /\ phase = "fill" /\ pos <= Len(dump_img)
      /\ UNCHANGED <<pool_allocator, blocks, root_info, local, migr_flag, phase, imgVars>>
  BY DEF RestoreData
<1>3. /\ Restoring /\ Allocated = Len(pool_img) /\ Len(root_info) = Len(pool_img) + 1
      /\ Len(dump_img) = Len(pool_img) /\ Len(pool_img) \in Nat
      /\ pos \in 1 .. Len(pool_img) /\ pos \in Int
  BY <1>1, <1>2 DEF Restoring, Allocated, CopyInv, ImageInv, FillInv
<1>4. /\ r.abs = pool_img[pos].abs[1] /\ 1 \in 1 .. Len(pool_img[pos].abs)
  BY <1>1, <1>3, Record DEF RecordOf
<1>5. a \in Int /\ Found(r.abs, root_info) # {} /\ GetInfo(r.abs, root_info) = a
  <2>1. Found(r.abs, root_info) # {} /\ GetInfo(r.abs, root_info) = a + 1 - 1
    BY <1>1, <1>2, <1>3, <1>4, Lookup
  <2>2. a \in Int
    BY <1>1, <1>3, CopyPlace
  <2> QED BY <2>1, <2>2
<1>6. ASSUME NEW i \in 1 .. Len(pool_img), NEW k \in 1 .. Len(dump_img[i].ptrs)
      PROVE  /\ Resolves(dump_img[i].ptrs[k], root_info)
             /\ RestorePtr(dump_img[i].ptrs[k], root_info) \in Elements(blocks) \cup {NULL}
             /\ k \in 1 .. pool_img[i].size /\ Copy(i).p_raw + k - 1 \in DOMAIN mem
  <2> DEFINE p == snap.mem[Original(i).addr + k - 1]
  <2>1. /\ dump_img[i].ptrs[k] = Away(p) /\ Original(i).addr + k - 1 \in DOMAIN snap.mem
        /\ pool_img[i].type \in {"list", "ex"} /\ k \in Int /\ 1 <= k /\ k <= pool_img[i].size
    BY <1>1, OldUnit
  <2>2. p \in Elements(snap.blocks) \cup {NULL}
    BY <1>1, <2>1 DEF SnapInv
  <2> HIDE DEF p
  <2>3. Resolves(dump_img[i].ptrs[k], root_info)
    BY <1>1, <1>2, <2>1, <2>2, PtrFound
  <2>4. RestorePtr(dump_img[i].ptrs[k], root_info) \in Elements(blocks) \cup {NULL}
    BY <1>1, <1>2, <1>3, <2>1, <2>2, PtrRestored
  <2>5. pool_img[i].size \in Int
    BY <1>1, Record, OldBlock
  <2>6. k \in 1 .. pool_img[i].size
    BY ONLY <2>1, <2>5
  <2>7. Copy(i).p_raw + k - 1 \in DOMAIN mem
    BY <1>1, <1>3, <2>1, <2>6, CopyPlace DEF MemInv
  <2> QED BY <2>3, <2>4, <2>6, <2>7
<1>7. /\ mem' = [u \in DOMAIN mem |-> IF u \in a .. a + n - 1
                                      THEN RestorePtr(r.ptrs[u - a + 1], root_info) ELSE mem[u]]
      /\ pos' = pos + 1 /\ exited' = exited
  <2>1. \A k \in 1 .. n : Resolves(r.ptrs[k], root_info)
    BY <1>3, <1>6
  <2> QED BY <1>5, <2>1, ZenonT(30) DEF RestoreData
<1>8. n \in Nat
  <2>1. /\ n = IF pool_img[pos].type = "buf" THEN 0 ELSE pool_img[pos].size
    BY <1>1, <1>3, Record DEF RecordOf
  <2>2. pool_img[pos].size \in Int /\ pool_img[pos].size >= 1
    BY <1>1, <1>3, Record, OldBlock
  <2> QED BY <2>1, <2>2
<1>9. \A k \in 1 .. n : /\ RestorePtr(r.ptrs[k], root_info) \in Elements(blocks) \cup {NULL}
                        /\ a + k - 1 \in DOMAIN mem /\ k \in 1 .. pool_img[pos].size
  BY <1>3, <1>6
<1> HIDE DEF r, n, a
<1>10. /\ DOMAIN mem' = DOMAIN mem
       /\ \A u \in DOMAIN mem : u \notin a .. a + n - 1 => mem'[u] = mem[u]
       /\ \A u \in DOMAIN mem : u \in a .. a + n - 1 =>
             mem'[u] = RestorePtr(r.ptrs[u - a + 1], root_info)
  BY <1>7, ZenonT(30)
<1>11. PoolInv'
  BY <1>1, <1>2, <1>7 DEF PoolInv, TypeOK, PoolDisjoint, RegistryMirrorsPool, Counted,
                    Mirrors, InfoCount, Blocks, Addrs
<1>12. MemInv'
  <2>1. ASSUME NEW u \in DOMAIN mem PROVE mem'[u] \in Elements(blocks) \cup {NULL}
    <3>1. CASE u \in a .. a + n - 1
      <4>1. u - a + 1 \in 1 .. n
        BY <1>5, <1>8, <3>1
      <4> QED BY <1>9, <1>10, <3>1, <4>1
    <3>2. CASE u \notin a .. a + n - 1
      BY <1>1, <1>10, <3>2 DEF MemInv
    <3> QED BY <3>1, <3>2
  <2>2. gen' \in 0 .. MaxGen /\ pos' \in Nat /\ phase' \in Phases /\ phase' # "down"
    BY <1>1, <1>2, <1>7 DEF MemInv, Phases, imgVars
  <2>3. migr_flag' \in BOOLEAN
    BY <1>1, <1>2, ZenonT(30) DEF MemInv
  <2>4. blocks' = blocks /\ DOMAIN mem' = PtrUnits(blocks)
    BY <1>1, <1>2, <1>10 DEF MemInv
  <2> QED BY <1>10, <2>1, <2>2, <2>3, <2>4, ZenonT(30) DEF MemInv
<1>13. /\ pool_img' = pool_img /\ dump_img' = dump_img /\ root_info' = root_info
       /\ phase' = phase /\ \A i : Copy(i)' = Copy(i)
  BY <1>2 DEF imgVars, Copy
<1>14. CopyInv'
  <2>1. Allocated' = Allocated
    BY <1>2, <1>13 DEF Allocated
  <2> QED BY <1>1, <1>2, <1>13, <2>1 DEF CopyInv, Restoring
<1>15. ASSUME NEW i \in 1 .. pos, NEW k \in 1 .. Len(dump_img[i].ptrs)
       PROVE  mem'[Copy(i).p_raw + k - 1] = RestorePtr(dump_img[i].ptrs[k], root_info)
  <2>1. CASE i = pos
    <3>1. k \in 1 .. n /\ a + k - 1 \in DOMAIN mem
      BY <1>9, <2>1 DEF n, r
    <3>2. a + k - 1 \in a .. a + n - 1 /\ (a + k - 1) - a + 1 = k
      BY <1>5, <1>8, <3>1
    <3>3. mem'[a + k - 1] = RestorePtr(r.ptrs[k], root_info)
      BY <1>10, <3>1, <3>2
    <3> QED BY <2>1, <3>3 DEF a, r
  <2>2. CASE i # pos
    <3> DEFINE u == Copy(i).p_raw + k - 1
    <3>1. i \in 1 .. pos - 1 /\ i \in 1 .. Len(pool_img)
      BY <1>3, <2>2
    <3>2. u \in DOMAIN mem /\ k \in 1 .. pool_img[i].size
      BY <1>6, <3>1
    <3>3. mem[u] = RestorePtr(dump_img[i].ptrs[k], root_info)
      BY <1>1, <1>2, <3>1 DEF FillInv
    <3>4. ASSUME u \in a .. a + n - 1 PROVE FALSE
      <4> DEFINE l == u - a + 1
      <4>1. l \in 1 .. n /\ a + l - 1 = u
        BY <1>5, <1>8, <3>4
      <4> HIDE DEF l
      <4>2. l \in 1 .. pool_img[pos].size
        BY <1>9, <4>1
      <4>3. Copy(i).p_raw + k - 1 = Copy(pos).p_raw + l - 1
        BY <4>1 DEF a
      <4> QED BY <1>1, <1>3, <2>2, <3>1, <3>2, <4>2, <4>3, CopyApart
    <3> QED BY <1>10, <3>2, <3>3, <3>4
  <2> QED BY <2>1, <2>2
<1>16. FillInv'
  <2>1. pos' \in 1 .. Len(dump_img) + 1 /\ pos' - 1 = pos
    BY <1>3, <1>7
  <2> QED BY <1>2, <1>13, <1>15, <2>1, ZenonT(30) DEF FillInv
<1> QED BY <1>2, <1>7, <1>11, <1>12, <1>14, <1>16, RestoreStep

-----------------------------------------------------------------------------
(* Every step preserves the inductive invariant.                            *)
LEMMA MNextInv == MInv /\ [MNext]_vars => MInv'
<1> SUFFICES ASSUME MInv, [MNext]_vars PROVE MInv'
  OBVIOUS
<1>1. CASE MNext
  <2>1. \A b \in Blocks \ SkipBlocks : New(b) => MInv'
    BY NewInv
  <2>2. \A b \in blocks \ SkipBlocks : Delete(b) => MInv'
    BY DeleteInv
  <2>3. \A b \in blocks, c \in Blocks : Grow(b, c) => MInv'
    BY GrowInv
  <2>4. (\E u \in DOMAIN mem, p \in Elements(blocks) \cup {NULL} : SetPtr(u, p)) => MInv'
    BY SetInv
  <2>5. (\E p \in Elements(blocks) \cup {NULL} : SetLocal(p)) => MInv'
    BY SetInv
  <2>6. Checkpoint => MInv'
    BY CheckpointInv
  <2>7. \A base \in Bases : Boot(base) => MInv'
    BY BootInv
  <2>8. \A a \in Addrs : RestoreInfo(a) => MInv'
    BY RestoreInfoInv
  <2>9. RestoreNoSpace \/ StartFill \/ EndFill \/ InitWasiFails => MInv'
    BY PhaseInv
  <2>10. RestoreData => MInv'
    BY RestoreDataInv
  <2>11. \A b \in SkipBlocks : InitWasi(b) => MInv'
    BY InitWasiInv
  <2>12. RestoreInterp => MInv'
    BY RestoreInterpInv
  <2> QED BY <1>1, <2>1, <2>2, <2>3, <2>4, <2>5, <2>6, <2>7, <2>8, <2>9, <2>10, <2>11, <2>12,
             ZenonT(30) DEF MNext
<1>2. CASE UNCHANGED vars
  <2>1. /\ UNCHANGED poolVars /\ UNCHANGED imgVars
        /\ mem' = mem /\ local' = local /\ migr_flag' = migr_flag /\ phase' = phase /\ pos' = pos
    BY <1>2 DEF vars
  <2>2. PoolInv' /\ (AbsIsOffset => AbsIsOffset')
    BY <2>1 DEF MInv, poolVars, PoolInv, TypeOK, PoolDisjoint, RegistryMirrorsPool, Counted,
                AbsIsOffset, Mirrors, HasOffsets, InfoCount, Blocks, Addrs
  <2>3. SnapInv' /\ ImageInv'
    BY <2>1, ImagesKept DEF MInv
  <2>4. MemInv'
    BY <2>1, ZenonT(30) DEF MInv, MemInv, poolVars, imgVars
  <2>5. RunInv'
    BY <2>1, <2>2 DEF MInv, RunInv
  <2>6. /\ Allocated' = Allocated /\ Restoring' = Restoring /\ root_info' = root_info
        /\ \A i : Copy(i)' = Copy(i)
    BY <2>1 DEF Allocated, Restoring, Copy, imgVars, poolVars
  <2>7. CopyInv'
    BY <2>1, <2>6 DEF MInv, CopyInv, imgVars
  <2>8. FillInv'
    BY <2>1, <2>6 DEF MInv, FillInv, imgVars
  <2>9. NoRestoreError'
    BY <2>1, ZenonT(30) DEF MInv, NoRestoreError, imgVars, poolVars
  <2> QED BY <2>2, <2>3, <2>4, <2>5, <2>7, <2>8, <2>9 DEF MInv
<1> QED BY <1>1, <1>2

(* The inductive invariant holds in every behaviour.                        *)
THEOREM MigrationInductive == MSpec => []MInv
BY MInitInv, MNextInv, PTL DEF MSpec

(* The variables of every process, also of a restored one, have their types: *)
(* no pointer dangles.                                                      *)
THEOREM MigrationTypes == MSpec => []MTypeOK
<1>1. MInv => MTypeOK
  BY ZenonT(30) DEF MInv, PoolInv, MemInv, MTypeOK
<1> QED BY <1>1, MigrationInductive, PTL

(* What a checkpoint writes is exact: the registry has every block, also in *)
(* a process that was restored, and each p_abs in dump.img names one        *)
(* element that pool_info.img tells the new process to allocate.            *)
THEOREM ImageCorrect == MSpec => []ImageExact
<1>1. MInv => ImageExact
  BY Closed DEF MInv, PoolInv, ImageExact
<1> QED BY <1>1, MigrationInductive, PTL

(* restore_internal rebuilds the object graph of the checkpoint, whatever   *)
(* addresses the new pool gives to the copies.                              *)
THEOREM GraphCorrect == MSpec => []GraphRestored
BY GraphFromInv, MigrationInductive, PTL

(* get_info and free_info find everything that they look up, so that no     *)
(* process ends in exit(1); the one exception is a pointer that does not    *)
(* name a block the checkpoint wrote.                                       *)
THEOREM RestoreNeverFails == MSpec => []NoRestoreError
<1>1. MInv => NoRestoreError
  BY DEF MInv
<1> QED BY <1>1, MigrationInductive, PTL

(* The interpreter resumes with the pointer it had at the checkpoint, in    *)
(* the new pool, unless the new WASIContext lies at its old offset.         *)
THEOREM LocalCorrect == MSpec => LocalRestored
<1>1. ASSUME MInv, MNext, phase = "interp", phase' = "run",
             snap.local \in Elements(snap.blocks) \cup {NULL}
      PROVE  local' = Home(snap.local) \/ Shadowed
  <2>1. RestoreInterp
    BY <1>1, ZenonT(30) DEF MNext, New, Delete, SetPtr, SetLocal, Grow, Running, Checkpoint,
         Boot, RestoreInfo, RestoreNoSpace, StartFill, RestoreData, EndFill, InitWasi,
         InitWasiFails
  <2>2. local' = RestorePtr(interp_img, root_info)
    BY <1>1, <2>1 DEF RestoreInterp
  <2>3. /\ PoolInv /\ SnapInv /\ ImageInv /\ CopyInv /\ MemInv /\ interp_img = Away(snap.local)
    BY <1>1 DEF MInv, ImageInv
  <2>4. \/ Len(root_info) = Len(pool_img) + 1
        \/ root_info[1].type = "skip"
    BY <1>1, <2>3 DEF CopyInv, Restoring, Allocated
  <2>5. CASE Shadowed
    BY <2>5
  <2>6. CASE ~ Shadowed
    <3>1. Len(root_info) = Len(pool_img) + 1 \/ root_info[1].abs[1] # Away(snap.local)
      BY <2>3, <2>4, <2>6 DEF Shadowed
    <3> QED BY <1>1, <2>2, <2>3, <3>1, PtrRestored
  <2> QED BY <2>5, <2>6
<1>2. MInv /\ [MNext]_vars =>
        [phase = "interp" /\ phase' = "run" /\ snap.local \in Elements(snap.blocks) \cup {NULL}
           => local' = Home(snap.local) \/ Shadowed]_vars
  BY <1>1
<1> QED BY <1>2, MigrationInductive, PTL DEF MSpec, LocalRestored
=============================================================================
