--------------------------- MODULE EmsHeapProofs ---------------------------
(* Proofs about EmsHeap, for every size of the heap, every bound of the     *)
(* normal lists and every set of addresses, as long as the heap does not    *)
(* move while a normal list has a chunk.                                    *)
EXTENDS EmsHeap, FiniteSetTheorems, TLAPS

-----------------------------------------------------------------------------
(* Lists without repetition, as the lists of free chunks are: what adding   *)
(* in front and taking out do to the set of their elements.                 *)

(* No element is in the list twice.                                         *)
Distinct(s) == \A i, j \in DOMAIN s : s[i] = s[j] => i = j

(* Adding an element in front.                                              *)
LEMMA ConsList ==
    ASSUME NEW S, NEW s \in Seq(S), NEW x \in S
    PROVE  /\ bh_list_insert(s, x) \in Seq(S) /\ bh_list_insert(s, x) # <<>>
           /\ Range(bh_list_insert(s, x)) = Range(s) \cup {x}
           /\ Distinct(s) /\ x \notin Range(s) => Distinct(bh_list_insert(s, x))
<1> DEFINE c == <<x>> \o s
<1>1. /\ c \in Seq(S) /\ Len(c) = Len(s) + 1 /\ Len(s) \in Nat
      /\ DOMAIN c = 1 .. Len(s) + 1 /\ DOMAIN s = 1 .. Len(s)
      /\ c[1] = x /\ \A i \in 1 .. Len(s) : c[i + 1] = s[i]
  OBVIOUS
<1>2. \A i \in DOMAIN c : i = 1 \/ (i - 1 \in DOMAIN s /\ c[i] = s[i - 1])
  BY <1>1
<1> HIDE DEF c
<1>3. Range(c) = Range(s) \cup {x}
  <2>1. Range(c) \subseteq Range(s) \cup {x}
    BY <1>1, <1>2 DEF Range
  <2>2. Range(s) \cup {x} \subseteq Range(c)
    <3>1. \A i \in DOMAIN s : i + 1 \in DOMAIN c /\ c[i + 1] = s[i]
      BY <1>1
    <3>2. 1 \in DOMAIN c
      BY <1>1
    <3> QED BY <3>1, <3>2, <1>1 DEF Range
  <2> QED BY <2>1, <2>2
<1>4. ASSUME Distinct(s), x \notin Range(s) PROVE Distinct(c)
  <2>1. \A i \in DOMAIN s : s[i] # x
    BY <1>4 DEF Range
  <2>2. ASSUME NEW i \in DOMAIN c, NEW j \in DOMAIN c, c[i] = c[j] PROVE i = j
    <3>1. i \in Int /\ j \in Int
      BY <1>1
    <3>2. CASE i = 1 \/ j = 1
      BY <1>1, <1>2, <2>1, <2>2, <3>2
    <3>3. CASE i # 1 /\ j # 1
      <4>1. i - 1 = j - 1
        BY <1>2, <1>4, <2>2, <3>3 DEF Distinct
      <4> QED BY <3>1, <4>1
    <3> QED BY <3>2, <3>3
  <2> QED BY <2>2 DEF Distinct
<1>5. c # <<>>
  BY <1>1
<1> QED BY <1>1, <1>3, <1>4, <1>5 DEF c, bh_list_insert

(* A set of naturals that is not empty has a least element.                 *)
LEMMA Least ==
    ASSUME NEW S \in SUBSET Nat, S # {}
    PROVE  \E i \in S : \A j \in S : i <= j
<1> DEFINE R == OpToRel(<, Nat)
<1>1. IsWellFoundedOn(R, Nat)
  BY NatLessThanWellFounded
<1>2. \A i, j \in Nat : j < i => <<j, i>> \in R
  BY DEF OpToRel
<1> HIDE DEF R
<1>3. PICK i \in S : \A j \in S : ~(<<j, i>> \in R)
  BY <1>1, WFMin, ZenonT(30)
<1>4. ASSUME NEW j \in S PROVE i <= j
  <2>1. i \in Nat /\ j \in Nat /\ ~(j < i)
    BY <1>2, <1>3, ZenonT(30)
  <2> QED BY <2>1
<1> QED BY <1>4

(* Where a list has an element, taking it out closes the gap behind its     *)
(* first occurrence.                                                        *)
LEMMA RemovedAt ==
    ASSUME NEW S, NEW s \in Seq(S), NEW x \in Range(s)
    PROVE  \E k \in 1 .. Len(s) :
              /\ s[k] = x
              /\ bh_list_remove(s, x) =
                    [i \in 1 .. Len(s) - 1 |-> s[IF i < k THEN i ELSE i + 1]]
<1> DEFINE I == {i \in 1 .. Len(s) : s[i] = x}
           First(i) == s[i] = x /\ \A j \in 1 .. i - 1 : s[j] # x
           cur == CHOOSE i \in 1 .. Len(s) : First(i)
<1>1. \E i \in 1 .. Len(s) : s[i] = x
  BY DEF Range
<1>2. I \in SUBSET Nat /\ I # {}
  BY <1>1
<1>3. PICK i \in I : \A j \in I : i <= j
  BY <1>2, Least, ZenonT(30)
<1>4. i \in 1 .. Len(s) /\ First(i)
  BY <1>3
<1>5. cur \in 1 .. Len(s) /\ First(cur)
  BY <1>4, ZenonT(30)
<1>6. bh_list_remove(s, x) =
        [j \in 1 .. Len(s) - 1 |-> s[IF j < cur THEN j ELSE j + 1]]
  BY DEF bh_list_remove
<1> QED BY <1>5, <1>6

(* Taking out an element leaves the others.                                 *)
LEMMA RemoveList ==
    ASSUME NEW S, NEW s \in Seq(S), Distinct(s), NEW x
    PROVE  /\ bh_list_remove(s, x) \in Seq(S) /\ Distinct(bh_list_remove(s, x))
           /\ Range(bh_list_remove(s, x)) = Range(s) \ {x}
<1>1. CASE x \notin Range(s)
  <2>1. bh_list_remove(s, x) = s
    BY <1>1 DEF bh_list_remove
  <2> QED BY <1>1, <2>1
<1>2. CASE x \in Range(s)
  <2> DEFINE r == bh_list_remove(s, x)
  <2>1. PICK k \in 1 .. Len(s) :
           /\ s[k] = x
           /\ r = [i \in 1 .. Len(s) - 1 |-> s[IF i < k THEN i ELSE i + 1]]
    BY <1>2, RemovedAt
  <2> DEFINE prior(i) == IF i < k THEN i ELSE i + 1
  <2> HIDE DEF r
  <2>2. /\ r \in Seq(S) /\ Len(r) = Len(s) - 1 /\ Len(s) \in Nat
        /\ DOMAIN r = 1 .. Len(s) - 1 /\ DOMAIN s = 1 .. Len(s)
        /\ \A i \in 1 .. Len(s) - 1 : r[i] = s[prior(i)]
    <3>1. Len(s) - 1 \in Nat
      OBVIOUS
    <3>2. r \in [1 .. Len(s) - 1 -> S]
      BY <2>1
    <3> QED BY <2>1, <3>1, <3>2
  <2>3. \A i \in DOMAIN r : prior(i) \in DOMAIN s /\ prior(i) # k
    BY <2>2
  <2>4. \A i, j \in DOMAIN r : prior(i) = prior(j) => i = j
    BY <2>2
  <2>5. Distinct(r)
    BY <2>2, <2>3, <2>4 DEF Distinct
  <2>6. Range(r) \subseteq Range(s) \ {x}
    BY <2>1, <2>2, <2>3 DEF Distinct, Range
  <2>7. ASSUME NEW y \in Range(s) \ {x} PROVE y \in Range(r)
    <3>1. PICK j \in 1 .. Len(s) : s[j] = y /\ j # k
      BY <2>1 DEF Range
    <3>2. \E i \in 1 .. Len(s) - 1 : prior(i) = j
      <4>1. CASE j < k
        BY <4>1, <2>2
      <4>2. CASE j > k
        <5>1. j - 1 \in 1 .. Len(s) - 1 /\ prior(j - 1) = j
          BY <4>2, <2>2
        <5> QED BY <5>1
      <4> QED BY <3>1, <4>1, <4>2, <2>2
    <3>3. PICK i \in 1 .. Len(s) - 1 : prior(i) = j
      BY <3>2
    <3>4. i \in DOMAIN r /\ r[i] = y
      BY <3>1, <3>3, <2>2
    <3> QED BY <3>4 DEF Range
  <2> QED BY <2>1, <2>2, <2>5, <2>6, <2>7 DEF r
<1> QED BY <1>1, <1>2

(* A list without repetition is as long as its set is large.                *)
LEMMA DistinctLen ==
    ASSUME NEW S, NEW s \in Seq(S), Distinct(s)
    PROVE  IsFiniteSet(Range(s)) /\ Cardinality(Range(s)) = Len(s)
<1>1. s \in Bijection(1 .. Len(s), Range(s))
  <2>1. s \in [1 .. Len(s) -> Range(s)]
    BY DEF Range
  <2> QED BY <2>1 DEF Bijection, Injection, Surjection, IsInjective, Distinct, Range
<1>2. IsFiniteSet(1 .. Len(s)) /\ Cardinality(1 .. Len(s)) = Len(s)
  <2>1. Len(s) \in Nat
    OBVIOUS
  <2> QED BY <2>1, FS_Interval
<1> QED BY <1>1, <1>2, FS_Bijection DEF ExistsBijection

-----------------------------------------------------------------------------

(* The headers a chunk of the heap may have.                                *)
Header == [ut : {"VO", "FC"}, size : Sizes, p : BOOLEAN]

(* The chunks tile the heap, and nothing lies before the first one.         *)
Tiled ==
    /\ base_addr \in Nat
    /\ chunk \in [DOMAIN chunk -> Header] /\ DOMAIN chunk \subseteq Int
    /\ base_addr \in DOMAIN chunk /\ chunk[base_addr].p = TRUE
    /\ \A a \in DOMAIN chunk : base_addr <= a /\ a < End
    /\ \A a \in DOMAIN chunk : NextHmu(a) = End \/ NextHmu(a) \in DOMAIN chunk
    /\ \A a, b \in DOMAIN chunk : a < b => NextHmu(a) <= b
    /\ footer \in [base_addr .. End -> Nat]

(* The boundary tags, as facts about two neighbours.                        *)
Tags ==
    \A a, b \in DOMAIN chunk : NextHmu(a) = b =>
        /\ chunk[a].ut = "VO" => chunk[b].p = TRUE
        /\ chunk[a].ut = "FC" =>
              chunk[b].p = FALSE /\ chunk[b].ut = "VO" /\ footer[b] = chunk[a].size

Well == Tiled /\ Tags

(* What the tiling says of one chunk.                                       *)
LEMMA ChunkFacts ==
    ASSUME Tiled, NEW a \in DOMAIN chunk
    PROVE  /\ a \in Int /\ NextHmu(a) \in Int /\ chunk[a].size \in Sizes
           /\ chunk[a].ut \in {"VO", "FC"} /\ chunk[a].p \in BOOLEAN
           /\ a < NextHmu(a) /\ NextHmu(a) <= End
           /\ base_addr <= a /\ InHeap(a)
           /\ InHeap(NextHmu(a)) <=> NextHmu(a) \in DOMAIN chunk
           /\ chunk[a] = Hmu(chunk[a].ut, chunk[a].size, chunk[a].p)
<1> USE HeapAssumption DEF Tiled, Header, Sizes, Smallest
<1>1. /\ a \in Int /\ chunk[a] \in Header /\ base_addr <= a /\ a < End
  OBVIOUS
<1>2. /\ chunk[a].size \in Sizes /\ chunk[a].ut \in {"VO", "FC"}
      /\ chunk[a].p \in BOOLEAN /\ chunk[a] = Hmu(chunk[a].ut, chunk[a].size, chunk[a].p)
  BY <1>1 DEF Hmu
<1>3. End \in Int /\ base_addr \in Int /\ NextHmu(a) \in Int /\ a < NextHmu(a)
  BY <1>1, <1>2 DEF End, NextHmu
<1>4. NextHmu(a) = End \/ (NextHmu(a) \in DOMAIN chunk /\ NextHmu(a) < End)
  OBVIOUS
<1> QED BY <1>1, <1>2, <1>3, <1>4 DEF InHeap

(* The order of the chunks, in numbers.                                     *)
LEMMA ChunkOrder ==
    ASSUME Well, NEW a \in DOMAIN chunk
    PROVE  /\ base_addr \in Int /\ End \in Int /\ a \in Int /\ NextHmu(a) \in Int
           /\ base_addr <= a /\ a < NextHmu(a) /\ NextHmu(a) <= End
           /\ NextHmu(a) = a + chunk[a].size
           /\ \A x \in DOMAIN chunk :
                 /\ x \in Int /\ chunk[x] \in Header /\ NextHmu(x) = x + chunk[x].size
                 /\ NextHmu(x) \in Int /\ base_addr <= x /\ x < NextHmu(x) /\ NextHmu(x) <= End
                 /\ a < x => NextHmu(a) <= x
                 /\ x < a => NextHmu(x) <= a
<1>1. \A x \in DOMAIN chunk : /\ x \in Int /\ NextHmu(x) = x + chunk[x].size
                              /\ NextHmu(x) \in Int /\ base_addr <= x /\ x < NextHmu(x)
                              /\ NextHmu(x) <= End
  BY ChunkFacts DEF Well, NextHmu
<1>2. \A x \in DOMAIN chunk : /\ chunk[x] \in Header
                              /\ a < x => NextHmu(a) <= x
                              /\ x < a => NextHmu(x) <= a
  BY DEF Well, Tiled
<1>3. base_addr \in Int /\ End \in Int
  BY HeapAssumption DEF Well, Tiled, End
<1> QED BY <1>1, <1>2, <1>3, ZenonT(30)

(* Before every chunk but the first lies a chunk that ends where it starts. *)
LEMMA Before ==
    ASSUME Tiled, NEW b \in DOMAIN chunk, b # base_addr
    PROVE  \E a \in DOMAIN chunk : NextHmu(a) = b
<1> DEFINE S == {b - a : a \in {x \in DOMAIN chunk : x < b}}
<1>1. S \in SUBSET Nat
  BY ChunkFacts
<1>2. base_addr \in DOMAIN chunk /\ base_addr < b
  BY ChunkFacts DEF Tiled
<1>3. S # {}
  BY <1>2
<1>4. PICK i \in S : \A j \in S : i <= j
  BY <1>1, <1>3, Least, ZenonT(30)
<1>5. PICK a \in DOMAIN chunk : a < b /\ i = b - a
  BY <1>4
<1>6. a \in Int /\ b \in Int /\ NextHmu(a) \in Int /\ a < NextHmu(a) /\ NextHmu(a) <= b
  BY <1>5, ChunkFacts, ZenonT(30) DEF Tiled
<1>7. CASE NextHmu(a) < b
  <2>1. NextHmu(a) \in DOMAIN chunk
    BY <1>6, <1>7, ChunkFacts DEF Tiled
  <2>2. b - NextHmu(a) \in S
    BY <1>7, <2>1
  <2>3. b - a <= b - NextHmu(a)
    BY <1>4, <1>5, <2>2
  <2> QED BY <1>6, <2>3
<1> QED BY <1>5, <1>6, <1>7

(* The tags after a step, from headers given by another function.           *)
LEMMA TagsAfter ==
    ASSUME \A x, y \in DOMAIN chunk' : x + chunk'[x].size = y =>
               /\ chunk'[x].ut = "VO" => chunk'[y].p = TRUE
               /\ chunk'[x].ut = "FC" => /\ chunk'[y].p = FALSE /\ chunk'[y].ut = "VO"
                                         /\ footer'[y] = chunk'[x].size
    PROVE  Tags'
BY DEF Tags, NextHmu

(* The values of the P bit.                                                 *)
Yes == TRUE

No == FALSE

(* A row of chunks from lo to hi becomes one chunk: an allocation of a      *)
(* whole chunk, and a free with the free chunks around it.                  *)
LEMMA OneChunk ==
    ASSUME Well, NEW lo \in DOMAIN chunk, NEW hi \in Int, NEW u \in {"VO", "FC"},
           hi = End \/ hi \in DOMAIN chunk, hi - lo \in Sizes,
           base_addr' = base_addr,
           chunk' \in [{x \in DOMAIN chunk : x <= lo \/ hi <= x} -> Header],
           chunk'[lo] = Hmu(u, hi - lo, chunk[lo].p),
           \A x \in DOMAIN chunk : x < lo \/ hi < x => chunk'[x] = chunk[x],
           hi \in DOMAIN chunk =>
              /\ chunk'[hi].ut = chunk[hi].ut /\ chunk'[hi].size = chunk[hi].size
              /\ u = "VO" => chunk'[hi].p = TRUE
              /\ u = "FC" => chunk'[hi].p = FALSE,
           footer' \in [base_addr .. End -> Nat],
           \A x \in base_addr .. End : x <= lo \/ hi < x => footer'[x] = footer[x],
           u = "FC" => /\ hi \in DOMAIN chunk => footer'[hi] = hi - lo /\ chunk[hi].ut = "VO"
                       /\ \A x \in DOMAIN chunk : NextHmu(x) = lo => chunk[x].ut = "VO"
    PROVE  Well'
<1> USE HeapAssumption
<1> DEFINE D == DOMAIN chunk'
           nx(x) == x + chunk'[x].size
<1>1. /\ D = {x \in DOMAIN chunk : x <= lo \/ hi <= x}
      /\ End' = End /\ lo \in Int /\ End \in Int /\ lo < hi /\ hi <= End
      /\ \A x \in D : NextHmu(x)' = nx(x)
  <2>1. End' = End /\ End \in Int /\ lo \in Int
    BY DEF Well, Tiled, End
  <2>2. lo < hi
    BY <2>1 DEF Sizes, Smallest
  <2>3. hi <= End
    BY <2>1 DEF Well, Tiled
  <2> QED BY <2>1, <2>2, <2>3 DEF NextHmu
<1>2. \A x \in DOMAIN chunk : /\ x \in Int /\ NextHmu(x) \in Int /\ x < NextHmu(x)
                              /\ NextHmu(x) = x + chunk[x].size
                              /\ chunk[x].ut \in {"VO", "FC"}
  BY ChunkFacts DEF Well, NextHmu
<1>3. nx(lo) = hi /\ chunk'[lo].ut = u /\ chunk'[lo].p = chunk[lo].p
  BY <1>1 DEF Hmu
<1>4. \A x \in D : x # lo => /\ chunk'[x].size = chunk[x].size
                             /\ chunk'[x].ut = chunk[x].ut
                             /\ x # hi => chunk'[x].p = chunk[x].p
  BY <1>1, <1>2
<1>5. \A x \in D : x # lo => nx(x) = NextHmu(x)
  BY <1>2, <1>4
<1>6. \A x \in DOMAIN chunk : x < lo => NextHmu(x) <= lo
  BY DEF Well, Tiled
<1>7. \A x \in D : nx(x) = End \/ nx(x) \in D
  <2>1. ASSUME NEW x \in D PROVE nx(x) = End \/ nx(x) \in D
    <3>1. CASE x = lo
      BY <1>1, <1>3, <3>1
    <3>2. CASE x < lo
      BY <1>1, <1>2, <1>4, <1>5, <1>6, <3>2 DEF Well, Tiled
    <3>3. CASE hi <= x
      <4>1. x \in DOMAIN chunk /\ nx(x) = NextHmu(x) /\ hi < NextHmu(x)
        BY <1>1, <1>2, <1>5, <3>3
      <4>2. NextHmu(x) = End \/ NextHmu(x) \in DOMAIN chunk
        BY <4>1 DEF Well, Tiled
      <4> QED BY <1>1, <1>2, <4>1, <4>2
    <3> QED BY <1>1, <1>2, <3>1, <3>2, <3>3
  <2> QED BY <2>1
<1>8. \A x, y \in D : x < y => nx(x) <= y
  <2>1. ASSUME NEW x \in D, NEW y \in D, x < y PROVE nx(x) <= y
    <3>1. CASE x = lo
      BY <1>1, <1>2, <1>3, <2>1, <3>1
    <3>2. CASE x # lo
      BY <1>1, <1>5, <2>1, <3>2 DEF Well, Tiled
    <3> QED BY <3>1, <3>2
  <2> QED BY <2>1
<1>9. Tiled'
  <2>1. base_addr \in D /\ chunk'[base_addr].p = TRUE
    <3>1. base_addr \in DOMAIN chunk /\ base_addr <= lo /\ chunk[base_addr].p = TRUE
      BY ChunkFacts DEF Well, Tiled
    <3> QED BY <1>1, <1>2, <1>3, <1>4, <3>1
  <2>2. \A x \in D : base_addr <= x /\ x < End
    BY <1>1 DEF Well, Tiled
  <2>3. D \subseteq Int /\ base_addr \in Nat
    BY <1>1 DEF Well, Tiled
  <2> HIDE DEF D, nx
  <2> QED BY <1>1, <1>7, <1>8, <2>1, <2>2, <2>3 DEF Tiled, D
<1>10. Tags'
  <2>1. ASSUME NEW x \in D, NEW y \in D, nx(x) = y
        PROVE  /\ chunk'[x].ut = "VO" => chunk'[y].p = TRUE
               /\ chunk'[x].ut = "FC" => /\ chunk'[y].p = FALSE /\ chunk'[y].ut = "VO"
                                         /\ footer'[y] = chunk'[x].size
    <3>1. CASE x = lo
      <4>1. y = hi /\ hi \in DOMAIN chunk /\ chunk'[hi].ut = chunk[hi].ut
        BY <1>1, <1>2, <1>3, <1>4, <2>1, <3>1
      <4>2. chunk'[lo].size = hi - lo
        BY DEF Hmu
      <4>3. /\ u = "VO" => chunk'[hi].p = TRUE
            /\ u = "FC" => /\ chunk'[hi].p = FALSE /\ chunk[hi].ut = "VO"
                           /\ footer'[hi] = hi - lo
        BY <4>1
      <4> QED BY <1>3, <3>1, <4>1, <4>2, <4>3, ZenonT(30)
    <3>2. CASE x < lo
      <4>1. NextHmu(x) = y /\ y <= lo /\ chunk'[x] = chunk[x] /\ x \in DOMAIN chunk
        BY <1>1, <1>2, <1>5, <1>6, <2>1, <3>2
      <4>2. footer'[y] = footer[y] /\ chunk'[y].p = chunk[y].p
        BY <1>1, <1>2, <1>3, <1>4, <4>1, ChunkFacts DEF Well
      <4>3. chunk[x].ut = "FC" => chunk'[y].ut = "VO"
        BY <1>1, <1>2, <1>3, <1>4, <4>1 DEF Well, Tags
      <4> QED BY <1>1, <4>1, <4>2, <4>3 DEF Well, Tags
    <3>3. CASE hi <= x
      <4>1. NextHmu(x) = y /\ hi < y /\ x \in DOMAIN chunk /\ x # lo /\ y # lo
        BY <1>1, <1>2, <1>5, <2>1, <3>3
      <4>2. /\ footer'[y] = footer[y] /\ chunk'[y] = chunk[y]
            /\ chunk'[x].ut = chunk[x].ut
        BY <1>1, <1>2, <1>4, <4>1, ChunkFacts DEF Well, InHeap
      <4>3. chunk'[x].size = chunk[x].size
        BY <1>4, <4>1
      <4>4. y \in DOMAIN chunk
        BY <1>1
      <4>5. /\ chunk[x].ut = "VO" => chunk[y].p = TRUE
            /\ chunk[x].ut = "FC" => /\ chunk[y].p = FALSE /\ chunk[y].ut = "VO"
                                     /\ footer[y] = chunk[x].size
        BY <4>1, <4>4 DEF Well, Tags
      <4> QED BY <4>2, <4>3, <4>5, ZenonT(30)
    <3>4. x = lo \/ x < lo \/ hi <= x
      BY <1>1, <1>2
    <3> QED BY <3>1, <3>2, <3>3, <3>4, ZenonT(30)
  <2> HIDE DEF nx
  <2> QED BY <1>1, <2>1, ZenonT(30) DEF Tags
<1> QED BY <1>9, <1>10 DEF Well

(* The front of a free chunk is allocated, and the rest stays free.         *)
LEMMA SplitChunk ==
    ASSUME Well, NEW a \in DOMAIN chunk, chunk[a].ut = "FC",
           NEW n \in Sizes, chunk[a].size - n \in Sizes,
           NEW m, m = a + n, NEW e, e = NextHmu(a),
           base_addr' = base_addr,
           chunk' \in [DOMAIN chunk \cup {m} -> Header],
           chunk'[a] = Hmu("VO", n, chunk[a].p),
           chunk'[m] = Hmu("FC", chunk[a].size - n, Yes),
           \A x \in DOMAIN chunk : x # a => chunk'[x] = chunk[x],
           footer' \in [base_addr .. End -> Nat],
           \A x \in base_addr .. End : x <= a \/ e < x => footer'[x] = footer[x],
           footer'[e] = chunk[a].size - n
    PROVE  Well'
<1> USE HeapAssumption
<1> DEFINE D == DOMAIN chunk'
           nx(x) == x + chunk'[x].size
<1>1. /\ D = DOMAIN chunk \cup {m} /\ End' = End /\ End \in Int
      /\ \A x \in D : NextHmu(x)' = nx(x)
  BY DEF Well, Tiled, End, NextHmu
<1>2. \A x \in DOMAIN chunk : /\ x \in Int /\ NextHmu(x) \in Int /\ x < NextHmu(x)
                              /\ NextHmu(x) = x + chunk[x].size
                              /\ chunk[x].ut \in {"VO", "FC"}
  BY ChunkFacts DEF Well, NextHmu
<1>3. a \in Int /\ m \in Int /\ e \in Int /\ a < m /\ m < e /\ e <= End
  <2>1. a \in Int /\ n \in Int /\ n > 0 /\ chunk[a].size - n > 0 /\ e = a + chunk[a].size
    BY <1>2 DEF Sizes, Smallest
  <2>2. e <= End /\ chunk[a].size \in Int
    BY ChunkFacts DEF Well, Sizes, Smallest
  <2> QED BY <2>1, <2>2
<1>4. \A x \in DOMAIN chunk : (x < a => NextHmu(x) <= a) /\ (a < x => e <= x)
  BY DEF Well, Tiled
<1>5. m \notin DOMAIN chunk
  BY <1>3, <1>4
<1>6. /\ nx(a) = m /\ chunk'[a].ut = "VO" /\ chunk'[a].p = chunk[a].p
      /\ chunk'[a].size = n
  BY DEF Hmu
<1>7. /\ nx(m) = e /\ chunk'[m].ut = "FC" /\ chunk'[m].p = TRUE
      /\ chunk'[m].size = chunk[a].size - n
  <2>1. chunk[a].size \in Int /\ n \in Int /\ a \in Int /\ e = a + chunk[a].size
    BY <1>2, ChunkFacts DEF Sizes, Smallest, Well
  <2> QED BY <2>1 DEF Hmu, Yes
<1>8. \A x \in DOMAIN chunk : x # a => nx(x) = NextHmu(x)
  BY <1>2
<1>9. \A x \in D : nx(x) = End \/ nx(x) \in D
  <2>1. ASSUME NEW x \in DOMAIN chunk PROVE NextHmu(x) = End \/ NextHmu(x) \in D
    BY <1>1 DEF Well, Tiled
  <2>2. \A x \in D : x = a \/ x = m \/ (x \in DOMAIN chunk /\ nx(x) = NextHmu(x))
    BY <1>1, <1>8
  <2>3. m \in D /\ (e = End \/ e \in D)
    BY <1>1, <2>1
  <2> HIDE DEF D, nx
  <2> QED BY <1>6, <1>7, <2>1, <2>2, <2>3, ZenonT(30)
<1>10. \A x, y \in D : x < y => nx(x) <= y
  <2>1. ASSUME NEW x \in D, NEW y \in D, x < y PROVE nx(x) <= y
    <3>1. CASE x = a
      BY <1>1, <1>2, <1>3, <1>4, <1>6, <2>1, <3>1
    <3>2. CASE x = m
      <4>1. y \in DOMAIN chunk /\ a < y /\ nx(x) = e
        <5>1. y \in DOMAIN chunk /\ a < y
          BY <1>1, <1>2, <1>3, <2>1, <3>2
        <5>2. nx(x) = e
          BY <1>7, <3>2, ZenonT(30)
        <5> QED BY <5>1, <5>2
      <4> QED BY <1>4, <4>1
    <3>3. CASE x # a /\ x # m /\ y # m
      BY <1>1, <1>8, <2>1, <3>3 DEF Well, Tiled
    <3>4. CASE x # a /\ x # m /\ y = m
      <4>1. x \in DOMAIN chunk /\ x < a
        BY <1>1, <1>2, <1>3, <1>4, <2>1, <3>4
      <4> QED BY <1>2, <1>3, <1>4, <1>8, <3>4, <4>1
    <3> QED BY <3>1, <3>2, <3>3, <3>4
  <2> QED BY <2>1
<1>11. Tiled'
  <2>1. base_addr \in D /\ chunk'[base_addr].p = TRUE
    <3>1. base_addr \in DOMAIN chunk /\ chunk[base_addr].p = TRUE
      BY DEF Well, Tiled
    <3> QED BY <1>1, <1>6, <3>1
  <2>2. \A x \in DOMAIN chunk : base_addr <= x /\ x < End
    BY DEF Well, Tiled
  <2>3. base_addr <= m /\ m < End /\ base_addr \in Nat
    <3>1. base_addr \in Nat /\ base_addr <= a
      BY <2>2 DEF Well, Tiled
    <3> QED BY <1>1, <1>3, <3>1
  <2>4. \A x \in D : base_addr <= x /\ x < End
    BY <1>1, <2>2, <2>3
  <2>5. D \subseteq Int
    BY <1>1, <1>2, <1>3
  <2> HIDE DEF D, nx
  <2> QED BY <1>1, <1>9, <1>10, <2>1, <2>3, <2>4, <2>5, ZenonT(30) DEF Tiled, D
<1>12. Tags'
  <2>1. ASSUME NEW x \in D, NEW y \in D, nx(x) = y
        PROVE  /\ chunk'[x].ut = "VO" => chunk'[y].p = TRUE
               /\ chunk'[x].ut = "FC" => /\ chunk'[y].p = FALSE /\ chunk'[y].ut = "VO"
                                         /\ footer'[y] = chunk'[x].size
    <3>1. CASE x = a
      <4>1. y = m
        BY <1>6, <2>1, <3>1
      <4> QED BY <1>6, <1>7, <3>1, <4>1, ZenonT(30)
    <3>2. CASE x = m
      <4>1. y = e /\ e \in DOMAIN chunk /\ e # a
        <5>1. y = e
          BY <1>7, <2>1, <3>2, ZenonT(30)
        <5>2. e # m /\ e # a
          BY <1>3
        <5> QED BY <1>1, <5>1, <5>2
      <4>2. chunk[e].p = FALSE /\ chunk[e].ut = "VO"
        BY <4>1 DEF Well, Tags
      <4>3. chunk'[e] = chunk[e] /\ footer'[e] = chunk[a].size - n
        BY <4>1
      <4> QED BY <1>7, <3>2, <4>1, <4>2, <4>3, ZenonT(30)
    <3>3. CASE x # a /\ x # m
      <4>1. /\ x \in DOMAIN chunk /\ NextHmu(x) = y /\ y \in DOMAIN chunk
            /\ chunk'[x] = chunk[x]
        <5>1. x \in DOMAIN chunk /\ NextHmu(x) = y /\ chunk'[x] = chunk[x]
          BY <1>1, <1>8, <2>1, <3>3
        <5>2. NextHmu(x) # m
          BY <1>2, <1>3, <1>4, <3>3, <5>1
        <5> QED BY <1>1, <5>1, <5>2
      <4>2. y <= a \/ e < y
        BY <1>2, <1>3, <1>4, <3>3, <4>1
      <4>3. y \in base_addr .. End
        <5>1. base_addr <= y /\ y < End /\ y \in Int /\ base_addr \in Int
          BY <4>1 DEF Well, Tiled
        <5> QED BY <1>1, <5>1
      <4>4. footer'[y] = footer[y] /\ chunk'[y].p = chunk[y].p
        BY <1>6, <4>1, <4>2, <4>3
      <4>5. /\ chunk[x].ut = "VO" => chunk[y].p = TRUE
            /\ chunk[x].ut = "FC" => /\ chunk[y].p = FALSE /\ chunk[y].ut = "VO"
                                     /\ footer[y] = chunk[x].size
        BY <4>1 DEF Well, Tags
      <4>6. chunk[y].ut = "VO" => chunk'[y].ut = "VO"
        BY <1>6, <4>1
      <4> QED BY <4>1, <4>4, <4>5, <4>6, ZenonT(30)
    <3> QED BY <3>1, <3>2, <3>3, ZenonT(30)
  <2> QED BY <2>1, TagsAfter, ZenonT(30)
<1> QED BY <1>11, <1>12 DEF Well

----------------------------------------------------------------------------
(* The lists and the tree have the chunks of G, by size.                    *)
Listed(normal, tree, G) ==
    /\ G \in [1 .. HeapSize -> SUBSET Int]
    /\ \A r, s \in 1 .. HeapSize : r # s => G[r] \cap G[s] = {}
    /\ normal \in [1 .. MaxNormal - 1 -> Seq(Int)]
    /\ \A s \in 1 .. MaxNormal - 1 : Distinct(normal[s]) /\ Range(normal[s]) = G[s]
    /\ tree = {x \in Int : \E s \in MaxNormal .. HeapSize : x \in G[s]}

(* The free chunks by size.                                                 *)
FreeBySize ==
    [s \in 1 .. HeapSize |-> {a \in DOMAIN chunk : chunk[a].ut = "FC" /\ chunk[a].size = s}]

(* The inductive invariant.                                                 *)
HeapInv ==
    /\ Well
    /\ Listed(kfc_normal_list, kfc_tree, FreeBySize)
    /\ total_free_size = Cardinality(FreeUnits)
    /\ old \subseteq InUse
    /\ is_heap_corrupted = FALSE

(* What FreeBySize says of one chunk.                                       *)
LEMMA FreeChunk ==
    ASSUME Well, NEW s \in 1 .. HeapSize, NEW a
    PROVE  a \in FreeBySize[s] <=> a \in DOMAIN chunk /\ chunk[a].ut = "FC" /\ chunk[a].size = s
BY DEF FreeBySize

(* Lists that hold what is free after a step are right after it.            *)
LEMMA FreeBySizeAfter ==
    ASSUME NEW G, DOMAIN G = 1 .. HeapSize,
           \A s \in 1 .. HeapSize : \A x :
               x \in G[s] <=> x \in DOMAIN chunk' /\ chunk'[x].ut = "FC" /\ chunk'[x].size = s,
           NEW normal, NEW tree, Listed(normal, tree, G)
    PROVE  Listed(normal, tree, FreeBySize')
<1>1. \A s \in 1 .. HeapSize : G[s] = FreeBySize'[s]
  BY DEF FreeBySize
<1>2. DOMAIN FreeBySize' = 1 .. HeapSize /\ FreeBySize' = [s \in DOMAIN FreeBySize' |-> FreeBySize'[s]]
  BY DEF FreeBySize
<1>3. G = [s \in DOMAIN G |-> G[s]]
  BY DEF Listed
<1> DEFINE F == FreeBySize'
<1> HIDE DEF F
<1>4. G = F
  BY <1>1, <1>2, <1>3, ZenonT(30) DEF F
<1> QED BY <1>4 DEF F

(* The chunk at x is free and has size s.                                   *)
FreeIn(c, s, x) == x \in DOMAIN c /\ c[x].ut = "FC" /\ c[x].size = s

(* The free units can be counted.                                           *)
LEMMA UnitsFinite ==
    ASSUME Well
    PROVE  IsFiniteSet(FreeUnits)
<1>1. base_addr \in Int /\ End - 1 \in Int
  BY HeapAssumption DEF Well, Tiled, End
<1>2. IsFiniteSet(base_addr .. End - 1) /\ FreeUnits \subseteq base_addr .. End - 1
  BY <1>1, FS_Interval DEF FreeUnits
<1> QED BY <1>2, FS_Subset, ZenonT(30)

----------------------------------------------------------------------------
(* The invariant gives the tags,                                            *)
LEMMA TagsRight ==
    ASSUME HeapInv
    PROVE  BoundaryTags
<1>1. Tiled /\ Tags
  BY DEF HeapInv, Well
<1>2. SUFFICES ASSUME NEW a \in DOMAIN chunk, InHeap(NextHmu(a))
               PROVE  /\ chunk[NextHmu(a)].p <=> chunk[a].ut = "VO"
                      /\ chunk[a].ut = "FC" => footer[NextHmu(a)] = chunk[a].size
                      /\ chunk[a].ut = "VO" \/ chunk[NextHmu(a)].ut = "VO"
  BY DEF BoundaryTags, PinuseRight, Coalesced
<1>3. PICK b \in DOMAIN chunk : b = NextHmu(a)
  BY <1>1, <1>2, ChunkFacts
<1>4. chunk[a].ut \in {"VO", "FC"}
  BY <1>1, ChunkFacts
<1>5. CASE chunk[a].ut = "VO"
  <2>1. chunk[b].p = TRUE
    BY <1>1, <1>3, <1>5 DEF Tags
  <2> QED BY <1>3, <1>5, <2>1
<1>6. CASE chunk[a].ut = "FC"
  <2>1. chunk[b].p = FALSE /\ chunk[b].ut = "VO" /\ footer[b] = chunk[a].size
    BY <1>1, <1>3, <1>6 DEF Tags
  <2> QED BY <1>3, <1>6, <2>1
<1> QED BY <1>4, <1>5, <1>6

(* the free space,                                                          *)
LEMMA SpaceExact ==
    ASSUME HeapInv
    PROVE  FreeSpaceExact
<1> USE HeapAssumption
<1> DEFINE free(s) == {a \in DOMAIN chunk : chunk[a].ut = "FC" /\ chunk[a].size = s}
<1>1. Well /\ Tiled /\ Listed(kfc_normal_list, kfc_tree, FreeBySize)
  BY DEF HeapInv, Well
<1>2. \A s \in 1 .. HeapSize : FreeBySize[s] = free(s)
  BY DEF FreeBySize
<1>3. ASSUME NEW s \in DOMAIN kfc_normal_list
      PROVE  /\ Range(kfc_normal_list[s]) = free(s)
             /\ Len(kfc_normal_list[s]) = Cardinality(free(s))
  <2>1. s \in 1 .. MaxNormal - 1 /\ s \in 1 .. HeapSize
    BY <1>1 DEF Listed
  <2>2. /\ kfc_normal_list[s] \in Seq(Int) /\ Distinct(kfc_normal_list[s])
        /\ Range(kfc_normal_list[s]) = FreeBySize[s]
    BY <1>1, <2>1 DEF Listed
  <2> HIDE DEF free
  <2> QED BY <1>2, <2>1, <2>2, DistinctLen
<1>4. kfc_tree = {a \in DOMAIN chunk : chunk[a].ut = "FC" /\ ~ IsNormal(chunk[a].size)}
  <2>1. \A a \in DOMAIN chunk : /\ a \in Int /\ chunk[a].size \in 1 .. HeapSize
                                /\ ~ IsNormal(chunk[a].size) <=> chunk[a].size \in MaxNormal .. HeapSize
    BY <1>1, ChunkFacts DEF IsNormal, Sizes, Smallest
  <2>2. \A s \in MaxNormal .. HeapSize : s \in 1 .. HeapSize
    OBVIOUS
  <2>3. kfc_tree = {x \in Int : \E s \in MaxNormal .. HeapSize : x \in FreeBySize[s]}
    BY <1>1 DEF Listed
  <2>4. ASSUME NEW x PROVE x \in kfc_tree <=> /\ x \in DOMAIN chunk /\ chunk[x].ut = "FC"
                                              /\ ~ IsNormal(chunk[x].size)
    <3>1. ASSUME x \in kfc_tree
          PROVE  x \in DOMAIN chunk /\ chunk[x].ut = "FC" /\ ~ IsNormal(chunk[x].size)
      <4>1. PICK s \in MaxNormal .. HeapSize : x \in FreeBySize[s]
        BY <2>3, <3>1
      <4> QED BY <1>2, <2>1, <2>2, <4>1
    <3>2. ASSUME x \in DOMAIN chunk, chunk[x].ut = "FC", ~ IsNormal(chunk[x].size)
          PROVE  x \in kfc_tree
      <4>1. PICK s \in MaxNormal .. HeapSize : s = chunk[x].size
        BY <2>1, <3>2
      <4>2. x \in FreeBySize[s]
        BY <1>2, <2>2, <3>2, <4>1
      <4> QED BY <2>1, <2>3, <3>2, <4>2
    <3> QED BY <3>1, <3>2
  <2> QED BY <2>4
<1> QED BY <1>3, <1>4 DEF FreeSpaceExact, FreeChunksListed, HeapInv

(* and the type.                                                            *)
LEMMA HeapTyped ==
    ASSUME HeapInv
    PROVE  HeapTypeOK
<1>1. Well /\ Tiled /\ base_addr \in Nat
  BY DEF HeapInv, Well, Tiled
<1>2. base_addr \in DOMAIN chunk
  BY <1>1 DEF Tiled
<1>3. ASSUME NEW a \in DOMAIN chunk
      PROVE  /\ InHeap(a) /\ chunk[a].size \in Sizes
             /\ NextHmu(a) = End \/ NextHmu(a) \in DOMAIN chunk
             /\ \A b \in DOMAIN chunk : ~ (a < b /\ b < NextHmu(a))
  <2>1. InHeap(a) /\ chunk[a].size \in Sizes /\ NextHmu(a) \in Int
    BY <1>1, ChunkFacts
  <2>2. NextHmu(a) = End \/ NextHmu(a) \in DOMAIN chunk
    BY <1>1 DEF Tiled
  <2>3. \A b \in DOMAIN chunk : b \in Int /\ (a < b => NextHmu(a) <= b)
    BY <1>1 DEF Tiled
  <2> QED BY <2>1, <2>2, <2>3
<1>4. total_free_size \in 0 .. HeapSize
  <2>1. FreeUnits \subseteq base_addr .. End - 1
    BY DEF FreeUnits
  <2>2. /\ IsFiniteSet(base_addr .. End - 1)
        /\ Cardinality(base_addr .. End - 1) = HeapSize
    <3>1. /\ base_addr \in Int /\ End - 1 \in Int /\ base_addr <= End - 1
          /\ (End - 1) - base_addr + 1 = HeapSize
      BY <1>1, HeapAssumption DEF End
    <3> QED BY <3>1, FS_Interval
  <2>3. Cardinality(FreeUnits) \in Nat /\ Cardinality(FreeUnits) <= HeapSize
    BY <2>1, <2>2, FS_Subset, FS_CardinalityType, ZenonT(30)
  <2> QED BY <2>3, HeapAssumption DEF HeapInv
<1> QED BY <1>2, <1>3, <1>4 DEF HeapTypeOK, HeapInv

(* gc_init_internal makes a heap that satisfies the invariant.              *)
LEMMA HeapInitInv ==
    ASSUME HeapInit
    PROVE  HeapInv
<1> USE HeapAssumption
<1> DEFINE hmu == Hmu("FC", HeapSize, TRUE)
<1>1. /\ base_addr \in Nat /\ chunk = [a \in {base_addr} |-> hmu] /\ base_addr \in Int
      /\ footer = [a \in base_addr .. End |-> 0]
      /\ kfc_normal_list = [s \in 1 .. MaxNormal - 1 |-> <<>>] /\ kfc_tree = {base_addr}
      /\ total_free_size = HeapSize /\ is_heap_corrupted = FALSE /\ old = {}
  BY DEF HeapInit
<1>2. hmu.ut = "FC" /\ hmu.size = HeapSize /\ hmu.p = TRUE /\ hmu \in Header
  BY DEF Hmu, Header, Sizes, Smallest
<1> HIDE DEF hmu
<1>3. DOMAIN chunk = {base_addr} /\ chunk[base_addr] = hmu
  BY <1>1
<1>4. NextHmu(base_addr) = End /\ End \in Int /\ base_addr < End /\ End = base_addr + HeapSize
  BY <1>1, <1>2, <1>3 DEF NextHmu, End
<1>5. Well
  <2>1. footer \in [base_addr .. End -> Nat]
    BY <1>1
  <2>2. chunk \in [DOMAIN chunk -> Header]
    BY <1>1, <1>2
  <2>3. Tiled
    BY <1>1, <1>2, <1>3, <1>4, <2>1, <2>2 DEF Tiled
  <2>4. Tags
    BY <1>3, <1>4 DEF Tags
  <2> QED BY <2>3, <2>4 DEF Well
<1>6. Listed(kfc_normal_list, kfc_tree, FreeBySize)
  <2>1. FreeBySize = [s \in 1 .. HeapSize |-> IF s = HeapSize THEN {base_addr} ELSE {}]
    BY <1>2, <1>3 DEF FreeBySize
  <2>2. /\ FreeBySize \in [1 .. HeapSize -> SUBSET Int]
        /\ \A r, s \in 1 .. HeapSize : r # s => FreeBySize[r] \cap FreeBySize[s] = {}
    BY <1>1, <2>1
  <2>3. /\ kfc_normal_list \in [1 .. MaxNormal - 1 -> Seq(Int)]
        /\ \A s \in 1 .. MaxNormal - 1 : kfc_normal_list[s] = <<>> /\ FreeBySize[s] = {}
    BY <1>1, <2>1
  <2>4. Distinct(<<>>) /\ Range(<<>>) = {}
    BY DEF Distinct, Range
  <2>5. kfc_tree = {x \in Int : \E s \in MaxNormal .. HeapSize : x \in FreeBySize[s]}
    <3>1. \A s \in MaxNormal .. HeapSize : \A x : x \in FreeBySize[s] <=> s = HeapSize /\ x = base_addr
      BY <2>1
    <3>2. HeapSize \in MaxNormal .. HeapSize
      OBVIOUS
    <3> QED BY <1>1, <3>1, <3>2
  <2> QED BY <2>2, <2>3, <2>4, <2>5, ZenonT(30) DEF Listed
<1>7. Cardinality(FreeUnits) = HeapSize
  <2>1. FreeUnits = base_addr .. End - 1
    BY <1>1, <1>2, <1>3, <1>4 DEF FreeUnits
  <2>2. Cardinality(base_addr .. End - 1) = HeapSize
    <3>1. End - 1 \in Int /\ (End - 1) - base_addr + 1 = HeapSize /\ base_addr <= End - 1
      BY <1>1, <1>4
    <3> QED BY <1>1, <3>1, FS_Interval
  <2> QED BY <2>1, <2>2
<1> QED BY <1>1, <1>5, <1>6, <1>7 DEF HeapInv

----------------------------------------------------------------------------
(* gc_migrate: everything moves by d.                                       *)
Shift(f, d) == [x \in {y + d : y \in DOMAIN f} |-> f[x - d]]

(* A shifted function has the values of the old one, d further on.          *)
LEMMA ShiftFacts ==
    ASSUME NEW f, NEW d \in Int, DOMAIN f \subseteq Int
    PROVE  /\ Shift(f, d) = [x \in DOMAIN Shift(f, d) |-> Shift(f, d)[x]]
           /\ \A y \in DOMAIN f : y + d \in DOMAIN Shift(f, d) /\ Shift(f, d)[y + d] = f[y]
           /\ \A x \in DOMAIN Shift(f, d) :
                 x \in Int /\ x - d \in DOMAIN f /\ Shift(f, d)[x] = f[x - d]
<1>1. ASSUME NEW y \in DOMAIN f PROVE y + d \in DOMAIN Shift(f, d) /\ Shift(f, d)[y + d] = f[y]
  <2>1. (y + d) - d = y
    OBVIOUS
  <2> QED BY <2>1 DEF Shift
<1>2. ASSUME NEW x \in DOMAIN Shift(f, d)
      PROVE  x \in Int /\ x - d \in DOMAIN f /\ Shift(f, d)[x] = f[x - d]
  <2>1. PICK y \in DOMAIN f : x = y + d
    BY DEF Shift
  <2>2. x \in Int /\ x - d = y
    BY <2>1
  <2> QED BY <1>1, <2>1, <2>2
<1> QED BY <1>1, <1>2 DEF Shift

Moved(d) ==
    /\ d \in Int /\ base_addr' \in Nat /\ base_addr' = base_addr + d /\ End' = End + d
    /\ chunk' \in [DOMAIN chunk' -> Header]
    /\ \A y \in DOMAIN chunk : y + d \in DOMAIN chunk' /\ chunk'[y + d] = chunk[y]
    /\ \A x \in DOMAIN chunk' : /\ x \in Int /\ x - d \in DOMAIN chunk /\ chunk'[x] = chunk[x - d]
                                /\ x + chunk'[x].size = NextHmu(x - d) + d
    /\ footer' \in [base_addr' .. End' -> Nat]
    /\ \A x \in base_addr' .. End' : footer'[x] = footer[x - d]

(* What the move does, chunk by chunk and word by word.                     *)
LEMMA MigrateFacts ==
    ASSUME Well, NEW d \in Int, base_addr' \in Nat, base_addr' = base_addr + d,
           chunk' = Shift(chunk, d), footer' = Shift(footer, d)
    PROVE  Moved(d)
<1>1. base_addr \in Int /\ End \in Int
  BY HeapAssumption DEF Well, Tiled, End
<1>2. End' = End + d /\ End' \in Int /\ base_addr' \in Int
  BY <1>1, HeapAssumption DEF End
<1>3. \A y \in DOMAIN chunk : /\ y \in Int /\ chunk[y] \in Header /\ NextHmu(y) = y + chunk[y].size
                              /\ chunk[y].size \in Int
  BY ChunkOrder, ChunkFacts, HeapAssumption DEF Well, Sizes, Smallest
<1>4. /\ chunk' = [x \in DOMAIN chunk' |-> chunk'[x]]
      /\ \A y \in DOMAIN chunk : y + d \in DOMAIN chunk' /\ chunk'[y + d] = chunk[y]
      /\ \A x \in DOMAIN chunk' : x \in Int /\ x - d \in DOMAIN chunk /\ chunk'[x] = chunk[x - d]
  <2>1. DOMAIN chunk \subseteq Int
    BY <1>3
  <2> QED BY <2>1, ShiftFacts
<1>5. ASSUME NEW x \in DOMAIN chunk'
      PROVE  x + chunk'[x].size = NextHmu(x - d) + d /\ chunk'[x] \in Header
  <2>1. PICK y : y = x - d
    OBVIOUS
  <2>2. x \in Int /\ y \in DOMAIN chunk /\ chunk'[x] = chunk[y]
    BY <1>4, <2>1
  <2>3. y \in Int /\ chunk[y].size \in Int /\ NextHmu(y) = y + chunk[y].size /\ chunk'[x] \in Header
    BY <1>3, <2>2
  <2>4. x = y + d
    BY <2>1, <2>2
  <2>5. x + chunk'[x].size = NextHmu(y) + d
    BY <2>2, <2>3, <2>4
  <2> QED BY <2>1, <2>3, <2>5
<1>6. chunk' \in [DOMAIN chunk' -> Header]
  BY <1>4, <1>5
<1>7. DOMAIN footer = base_addr .. End /\ \A y \in base_addr .. End : footer[y] \in Nat
  BY DEF Well, Tiled
<1>8. /\ footer' = [x \in DOMAIN footer' |-> footer'[x]]
      /\ \A y \in base_addr .. End : y + d \in DOMAIN footer'
      /\ \A x \in DOMAIN footer' : x \in Int /\ x - d \in base_addr .. End /\ footer'[x] = footer[x - d]
  <2>1. DOMAIN footer \subseteq Int
    BY <1>1, <1>7
  <2> QED BY <1>7, <2>1, ShiftFacts, ZenonT(30)
<1>9. DOMAIN footer' = base_addr' .. End'
  <2>1. ASSUME NEW x \in base_addr' .. End' PROVE x \in DOMAIN footer'
    <3>1. PICK y : y = x - d
      OBVIOUS
    <3>2. y \in base_addr .. End /\ x = y + d
      BY <1>1, <1>2, <3>1
    <3> QED BY <1>8, <3>2
  <2>2. ASSUME NEW x \in DOMAIN footer' PROVE x \in base_addr' .. End'
    BY <1>1, <1>2, <1>8
  <2> QED BY <2>1, <2>2, ZenonT(30)
<1>10. footer' \in [base_addr' .. End' -> Nat]
  BY <1>7, <1>8, <1>9
<1>11. \A x \in base_addr' .. End' : footer'[x] = footer[x - d]
  BY <1>8, <1>9
<1>12. \A x \in DOMAIN chunk' : /\ x \in Int /\ x - d \in DOMAIN chunk /\ chunk'[x] = chunk[x - d]
                                /\ x + chunk'[x].size = NextHmu(x - d) + d
  BY <1>4, <1>5
<1> QED BY <1>2, <1>4, <1>6, <1>10, <1>11, <1>12 DEF Moved

(* The moved heap is well-formed.                                           *)
LEMMA MigrateWell ==
    ASSUME Well, NEW d, Moved(d)
    PROVE  Well'
<1> DEFINE D == DOMAIN chunk'
           nx(x) == x + chunk'[x].size
<1>1. d \in Int /\ base_addr' \in Nat /\ base_addr' = base_addr + d /\ End' = End + d
      /\ chunk' \in [D -> Header] /\ footer' \in [base_addr' .. End' -> Nat]
  BY DEF Moved
<1>2. \A y \in DOMAIN chunk : y + d \in D /\ chunk'[y + d] = chunk[y]
  BY DEF Moved
<1>3. \A x \in D : /\ x \in Int /\ x - d \in DOMAIN chunk /\ chunk'[x] = chunk[x - d]
                   /\ nx(x) = NextHmu(x - d) + d
  BY DEF Moved
<1>4. \A x \in base_addr' .. End' : footer'[x] = footer[x - d]
  BY DEF Moved
<1>5. /\ base_addr \in Int /\ End \in Int /\ base_addr \in DOMAIN chunk
      /\ chunk[base_addr].p = TRUE
  BY HeapAssumption DEF Well, Tiled, End
<1>6. \A y \in DOMAIN chunk : /\ y \in Int /\ NextHmu(y) \in Int /\ base_addr <= y /\ y < End
                              /\ NextHmu(y) = End \/ NextHmu(y) \in DOMAIN chunk
  BY ChunkFacts, ZenonT(30) DEF Well, Tiled
<1>7. \A y, z \in DOMAIN chunk : y < z => NextHmu(y) <= z
  BY DEF Well, Tiled
<1> HIDE DEF D, nx
<1>8. base_addr' \in D /\ chunk'[base_addr'].p = TRUE
  BY <1>1, <1>2, <1>5
<1>9. \A x \in D : base_addr' <= x /\ x < End'
  BY <1>1, <1>3, <1>5, <1>6
<1>10. \A x \in D : nx(x) = End' \/ nx(x) \in D
  BY <1>1, <1>2, <1>3, <1>6
<1>11. \A x, y \in D : x < y => nx(x) <= y
  <2>1. ASSUME NEW x \in D, NEW y \in D, x < y PROVE nx(x) <= y
    <3>1. /\ x - d \in DOMAIN chunk /\ y - d \in DOMAIN chunk /\ x - d < y - d
          /\ x \in Int /\ y \in Int
      BY <1>1, <1>3, <2>1
    <3>2. NextHmu(x - d) <= y - d /\ NextHmu(x - d) \in Int
      BY <1>6, <1>7, <3>1
    <3> QED BY <1>1, <1>3, <3>1, <3>2
  <2> QED BY <2>1
<1>12. D \subseteq Int
  BY <1>3
<1>13. Tiled'
  BY <1>1, <1>8, <1>9, <1>10, <1>11, <1>12, ZenonT(30) DEF Tiled, D, nx, NextHmu
<1>14. Tags'
  <2>1. ASSUME NEW x \in D, NEW y \in D, nx(x) = y
        PROVE  /\ chunk'[x].ut = "VO" => chunk'[y].p = TRUE
               /\ chunk'[x].ut = "FC" => /\ chunk'[y].p = FALSE /\ chunk'[y].ut = "VO"
                                         /\ footer'[y] = chunk'[x].size
    <3>1. PICK v : v = x - d
      OBVIOUS
    <3>2. PICK w : w = y - d
      OBVIOUS
    <3>3. /\ v \in DOMAIN chunk /\ w \in DOMAIN chunk /\ chunk'[x] = chunk[v] /\ chunk'[y] = chunk[w]
          /\ NextHmu(v) = w
      BY <1>1, <1>3, <1>6, <2>1, <3>1, <3>2
    <3>4. footer'[y] = footer[w]
      <4>1. y \in base_addr' .. End'
        BY <1>1, <1>3, <1>5, <1>9
      <4> QED BY <1>4, <3>2, <4>1
    <3>5. /\ chunk[v].ut = "VO" => chunk[w].p = TRUE
          /\ chunk[v].ut = "FC" => /\ chunk[w].p = FALSE /\ chunk[w].ut = "VO"
                                   /\ footer[w] = chunk[v].size
      BY <3>3 DEF Well, Tags
    <3> QED BY <3>3, <3>4, <3>5, ZenonT(30)
  <2> QED BY <2>1, TagsAfter, ZenonT(30) DEF D, nx
<1> QED BY <1>13, <1>14 DEF Well

(* The moved heap has as many free units.                                   *)
LEMMA MigrateUnits ==
    ASSUME Well, NEW d, Moved(d)
    PROVE  Cardinality(FreeUnits') = Cardinality(FreeUnits)
<1> DEFINE U == FreeUnits
           V == FreeUnits'
           f == [u \in U |-> u + d]
<1>1. d \in Int /\ base_addr' = base_addr + d /\ End' = End + d
  BY DEF Moved
<1>2. base_addr \in Int /\ End \in Int
  BY HeapAssumption DEF Well, Tiled, End
<1>3. \A y \in DOMAIN chunk : /\ y \in Int /\ NextHmu(y) \in Int /\ y + d \in DOMAIN chunk'
                              /\ chunk'[y + d] = chunk[y]
  BY ChunkFacts DEF Well, Moved
<1>4. \A x \in DOMAIN chunk' : /\ x \in Int /\ x - d \in DOMAIN chunk /\ chunk'[x] = chunk[x - d]
                               /\ x + chunk'[x].size = NextHmu(x - d) + d
  BY DEF Moved
<1>5. \A u : u \in U <=> /\ u \in base_addr .. End - 1
                         /\ \E y \in DOMAIN chunk : chunk[y].ut = "FC" /\ y <= u /\ u < NextHmu(y)
  BY DEF FreeUnits
<1>6. \A u : u \in V <=> /\ u \in base_addr' .. End' - 1
                         /\ \E x \in DOMAIN chunk' :
                               chunk'[x].ut = "FC" /\ x <= u /\ u < x + chunk'[x].size
  BY DEF FreeUnits, NextHmu
<1> HIDE DEF U, V
<1>7. ASSUME NEW u \in U PROVE u \in Int /\ u + d \in V
  <2>1. PICK y \in DOMAIN chunk : chunk[y].ut = "FC" /\ y <= u /\ u < NextHmu(y)
    BY <1>5
  <2>2. u \in Int /\ base_addr <= u /\ u <= End - 1
    BY <1>2, <1>5
  <2>3. PICK x : x = y + d
    OBVIOUS
  <2>4. /\ x \in DOMAIN chunk' /\ chunk'[x].ut = "FC" /\ x \in Int /\ x - d = y
        /\ x + chunk'[x].size = NextHmu(y) + d
    <3>1. x \in DOMAIN chunk' /\ chunk'[x] = chunk[y] /\ y \in Int
      BY <1>3, <2>3
    <3>2. x - d = y
      BY <1>1, <2>3, <3>1
    <3> QED BY <1>4, <2>1, <3>1, <3>2
  <2>5. x <= u + d /\ u + d < x + chunk'[x].size
    BY <1>1, <1>3, <2>1, <2>2, <2>3, <2>4
  <2>6. u + d \in base_addr' .. End' - 1
    BY <1>1, <1>2, <2>2
  <2> QED BY <1>6, <2>2, <2>4, <2>5, <2>6
<1>8. ASSUME NEW w \in V PROVE \E u \in U : w = u + d
  <2>1. PICK x \in DOMAIN chunk' : chunk'[x].ut = "FC" /\ x <= w /\ w < x + chunk'[x].size
    BY <1>6
  <2>2. w \in Int /\ base_addr' <= w /\ w <= End' - 1
    BY <1>1, <1>2, <1>6
  <2>3. PICK y : y = x - d
    OBVIOUS
  <2>4. /\ y \in DOMAIN chunk /\ chunk[y].ut = "FC" /\ x \in Int /\ x + chunk'[x].size = NextHmu(y) + d
    BY <1>4, <2>1, <2>3
  <2>5. PICK u : u = w - d
    OBVIOUS
  <2>6. u \in Int /\ w = u + d /\ y \in Int /\ NextHmu(y) \in Int
    BY <1>1, <1>3, <2>2, <2>4, <2>5
  <2>7. y <= u /\ u < NextHmu(y)
    BY <1>1, <2>1, <2>2, <2>3, <2>4, <2>5, <2>6
  <2>8. u \in base_addr .. End - 1
    BY <1>1, <1>2, <2>2, <2>6
  <2> QED BY <1>5, <2>4, <2>6, <2>7, <2>8
<1>9. f \in Bijection(U, V)
  <2>1. f \in [U -> V]
    BY <1>7
  <2>2. \A u, w \in U : f[u] = f[w] => u = w
    <3>1. \A u \in U : u \in Int /\ f[u] = u + d
      BY <1>7, ZenonT(30)
    <3> HIDE DEF f
    <3>2. ASSUME NEW u \in U, NEW w \in U, f[u] = f[w] PROVE u = w
      <4>1. u \in Int /\ w \in Int /\ u + d = w + d
        BY <3>1, <3>2
      <4> QED BY <1>1, <4>1
    <3> QED BY <3>2
  <2>3. \A w \in V : \E u \in U : f[u] = w
    BY <1>8
  <2> HIDE DEF f
  <2> QED BY <2>1, <2>2, <2>3 DEF Bijection, Injection, Surjection, IsInjective
<1>10. IsFiniteSet(U)
  BY UnitsFinite DEF U
<1>11. Cardinality(U) = Cardinality(V)
  <2>1. ExistsBijection(U, V)
    BY <1>9 DEF ExistsBijection
  <2> QED BY <1>10, <2>1, FS_Bijection
<1> QED BY <1>11 DEF U, V

(* What is free and what is in use moves along; no normal list has a chunk. *)
LEMMA MigrateFree ==
    ASSUME HeapInv, NEW d, Moved(d),
           \A s \in 1 .. MaxNormal - 1 : kfc_normal_list[s] = <<>>,
           kfc_normal_list' = kfc_normal_list, kfc_tree' = {x + d : x \in kfc_tree},
           old' = {x + d : x \in old}
    PROVE  Listed(kfc_normal_list', kfc_tree', FreeBySize') /\ old' \subseteq InUse'
<1>1. Well /\ Listed(kfc_normal_list, kfc_tree, FreeBySize) /\ old \subseteq InUse /\ d \in Int
  BY DEF HeapInv, Moved
<1>2. \A y \in DOMAIN chunk : y \in Int /\ y + d \in DOMAIN chunk' /\ chunk'[y + d] = chunk[y]
  BY <1>1, ChunkOrder DEF Moved
<1>3. \A x \in DOMAIN chunk' : x \in Int /\ x - d \in DOMAIN chunk /\ chunk'[x] = chunk[x - d]
  BY DEF Moved
<1>4. \A s, x : FreeIn(chunk', s, x) <=> x \in Int /\ FreeIn(chunk, s, x - d)
  <2>1. ASSUME NEW s, NEW x, FreeIn(chunk', s, x) PROVE x \in Int /\ FreeIn(chunk, s, x - d)
    BY <1>3, <2>1 DEF FreeIn
  <2>2. ASSUME NEW s, NEW x \in Int, FreeIn(chunk, s, x - d) PROVE FreeIn(chunk', s, x)
    <3>1. PICK y : y = x - d
      OBVIOUS
    <3>2. x = y + d
      BY <1>1, <3>1
    <3> QED BY <1>2, <2>2, <3>1, <3>2 DEF FreeIn
  <2> QED BY <2>1, <2>2
<1>5. \A s \in 1 .. HeapSize : \A x : x \in FreeBySize[s] <=> FreeIn(chunk, s, x)
  BY <1>1, FreeChunk DEF FreeIn
<1> DEFINE F == [s \in 1 .. HeapSize |-> {x \in Int : x - d \in FreeBySize[s]}]
<1>6. Listed(kfc_normal_list', kfc_tree', F)
  <2>1. F \in [1 .. HeapSize -> SUBSET Int]
    OBVIOUS
  <2>2. \A r, s \in 1 .. HeapSize : r # s => F[r] \cap F[s] = {}
    <3>1. \A r, s \in 1 .. HeapSize : r # s => FreeBySize[r] \cap FreeBySize[s] = {}
      BY <1>1 DEF Listed
    <3> QED BY <3>1
  <2>3. \A s \in 1 .. MaxNormal - 1 : FreeBySize[s] = {} /\ Range(<<>>) = {}
    BY <1>1 DEF Listed, Range
  <2>4. \A s \in 1 .. MaxNormal - 1 : s \in 1 .. HeapSize
    BY HeapAssumption
  <2>5. \A s \in 1 .. MaxNormal - 1 : F[s] = {}
    BY <2>3, <2>4
  <2>6. /\ kfc_normal_list' \in [1 .. MaxNormal - 1 -> Seq(Int)]
        /\ \A s \in 1 .. MaxNormal - 1 :
              Distinct(kfc_normal_list'[s]) /\ Range(kfc_normal_list'[s]) = {}
    BY <1>1, <2>3 DEF Listed
  <2>7. kfc_tree' = {x \in Int : \E s \in MaxNormal .. HeapSize : x \in F[s]}
    <3>1. kfc_tree = {x \in Int : \E s \in MaxNormal .. HeapSize : x \in FreeBySize[s]}
      BY <1>1 DEF Listed
    <3>2. \A s \in MaxNormal .. HeapSize : s \in 1 .. HeapSize
      BY HeapAssumption
    <3>3. \A s \in MaxNormal .. HeapSize : \A x : x \in F[s] <=> x \in Int /\ x - d \in FreeBySize[s]
      BY <3>2
    <3> HIDE DEF F
    <3>4. ASSUME NEW x \in kfc_tree'
          PROVE  x \in Int /\ \E s \in MaxNormal .. HeapSize : x \in F[s]
      <4>1. PICK y \in kfc_tree : x = y + d
        OBVIOUS
      <4>2. y \in Int /\ x \in Int /\ x - d = y
        BY <1>1, <3>1, <4>1
      <4> QED BY <3>1, <3>3, <4>2
    <3>5. ASSUME NEW x \in Int, NEW s \in MaxNormal .. HeapSize, x \in F[s] PROVE x \in kfc_tree'
      <4>1. PICK y : y = x - d
        OBVIOUS
      <4>2. y \in Int /\ x = y + d
        BY <1>1, <4>1
      <4>3. y \in kfc_tree
        BY <3>1, <3>3, <3>5, <4>1, <4>2
      <4> QED BY <4>2, <4>3
    <3> QED BY <3>4, <3>5
  <2> HIDE DEF F
  <2> QED BY <2>1, <2>2, <2>5, <2>6, <2>7, ZenonT(30) DEF Listed
<1>7. \A s \in 1 .. HeapSize : \A x : x \in F[s] <=> FreeIn(chunk', s, x)
  BY <1>4, <1>5
<1>8. DOMAIN F = 1 .. HeapSize
  OBVIOUS
<1> HIDE DEF F
<1>9. Listed(kfc_normal_list', kfc_tree', FreeBySize')
  BY <1>6, <1>7, <1>8, FreeBySizeAfter, ZenonT(30) DEF FreeIn
<1>10. old' \subseteq InUse'
  BY <1>1, <1>2 DEF InUse
<1> QED BY <1>9, <1>10

(* gc_migrate keeps the invariant.                                          *)
LEMMA MigrateKeeps ==
    ASSUME HeapInv, ~ MoveListed, NEW b \in HeapBases, gc_migrate(b)
    PROVE  HeapInv'
<1>1. PICK d : d = b - base_addr
  OBVIOUS
<1>2. Well /\ base_addr \in Int /\ b \in Nat
  BY HeapAssumption DEF HeapInv, Well, Tiled
<1>3. /\ base_addr' = b /\ chunk' = Shift(chunk, d) /\ footer' = Shift(footer, d)
      /\ kfc_tree' = {a + d : a \in kfc_tree} /\ old' = {a + d : a \in old}
      /\ UNCHANGED <<kfc_normal_list, total_free_size, is_heap_corrupted>>
      /\ \A s \in DOMAIN kfc_normal_list : kfc_normal_list[s] = <<>>
  BY <1>1 DEF gc_migrate, Shift
<1>4. d \in Int /\ base_addr' \in Nat /\ base_addr' = base_addr + d
  BY <1>1, <1>2, <1>3
<1>5. Moved(d)
  BY <1>2, <1>3, <1>4, MigrateFacts
<1>6. \A s \in 1 .. MaxNormal - 1 : kfc_normal_list[s] = <<>>
  BY <1>3 DEF HeapInv, Listed
<1>7. Well' /\ Cardinality(FreeUnits') = Cardinality(FreeUnits)
  BY <1>2, <1>5, MigrateWell, MigrateUnits
<1>8. Listed(kfc_normal_list', kfc_tree', FreeBySize') /\ old' \subseteq InUse'
  BY <1>3, <1>5, <1>6, MigrateFree, ZenonT(30)
<1> QED BY <1>3, <1>7, <1>8 DEF HeapInv

----------------------------------------------------------------------------
(* The structures behind the operators on a heap.                           *)

State(c, f, normal, tree) ==
    [chunk |-> c, footer |-> f, normal |-> normal, tree |-> tree]

Set(c, a, hmu) == [x \in DOMAIN c \cup {a} |-> IF x = a THEN hmu ELSE c[x]]

Cut(c, a) == [x \in DOMAIN c \ {a} |-> c[x]]

Write(f, a, b, last) ==
    [x \in DOMAIN f |-> IF x = b THEN last ELSE IF a < x /\ x < b THEN 0 ELSE f[x]]

UnlinkList(normal, s, a) ==
    IF IsNormal(s) THEN [normal EXCEPT ![s] = bh_list_remove(@, a)] ELSE normal

UnlinkTree(tree, s, a) == IF IsNormal(s) THEN tree ELSE tree \ {a}

AddList(normal, s, a) ==
    IF IsNormal(s) THEN [normal EXCEPT ![s] = bh_list_insert(@, a)] ELSE normal

AddTree(tree, s, a) == IF IsNormal(s) THEN tree ELSE tree \cup {a}

(* What each operator of the model does to the structures: a header is put, *)
(* a header is dropped, words are written, a chunk leaves its list or the   *)
(* tree, and one joins them.                                                *)
LEMMA PutState ==
    ASSUME NEW c, NEW f, NEW normal, NEW tree, NEW a, NEW hmu
    PROVE  Put(State(c, f, normal, tree), a, hmu) = State(Set(c, a, hmu), f, normal, tree)
BY DEF Put, State, Set

(* A header is dropped.                                                     *)
LEMMA DropState ==
    ASSUME NEW c, NEW f, NEW normal, NEW tree, NEW a
    PROVE  Drop(State(c, f, normal, tree), a) = State(Cut(c, a), f, normal, tree)
BY DEF Drop, State, Cut

(* The words between two headers are written.                               *)
LEMMA WordsState ==
    ASSUME NEW c, NEW f, NEW normal, NEW tree, NEW a, NEW size, NEW last
    PROVE  Words(State(c, f, normal, tree), a, size, last)
              = State(c, Write(f, a, a + size, last), normal, tree)
BY DEF Words, State, Write

(* unlink_hmu.                                                              *)
LEMMA UnlinkState ==
    ASSUME NEW c, NEW f, NEW normal, NEW tree, NEW a
    PROVE  Unlink(State(c, f, normal, tree), a)
              = State(c, f, UnlinkList(normal, c[a].size, a), UnlinkTree(tree, c[a].size, a))
BY ZenonT(30) DEF Unlink, State, UnlinkList, UnlinkTree

(* gci_add_fc.                                                              *)
LEMMA AddFcState ==
    ASSUME NEW c, NEW f, NEW normal, NEW tree, NEW a, NEW size, NEW p
    PROVE  AddFc(State(c, f, normal, tree), a, size, p)
              = State(Set(c, a, Hmu("FC", size, p)), Write(f, a, a + size, size),
                      AddList(normal, size, a), AddTree(tree, size, a))
<1> DEFINE h == State(c, f, normal, tree)
           g == State(Set(c, a, Hmu("FC", size, p)), Write(f, a, a + size, size), normal, tree)
<1>1. Words(Put(h, a, Hmu("FC", size, p)), a, size, size) = g
  BY PutState, WordsState
<1>2. AddFc(h, a, size, p) = IF IsNormal(size) THEN [g EXCEPT !.normal[size] = bh_list_insert(@, a)]
                             ELSE [g EXCEPT !.tree = @ \cup {a}]
  BY <1>1 DEF AddFc
<1> QED BY <1>2 DEF State, AddList, AddTree

(* unlink_hmu takes one chunk out.                                          *)
LEMMA UnlinkListed ==
    ASSUME NEW normal, NEW tree, NEW G, Listed(normal, tree, G),
           NEW s \in 1 .. HeapSize, NEW a \in G[s]
    PROVE  Listed(UnlinkList(normal, s, a), UnlinkTree(tree, s, a),
                  [G EXCEPT ![s] = @ \ {a}])
<1> USE HeapAssumption
<1> DEFINE F == [G EXCEPT ![s] = @ \ {a}]
           nl == UnlinkList(normal, s, a)
           tr == UnlinkTree(tree, s, a)
<1>1. /\ F \in [1 .. HeapSize -> SUBSET Int] /\ F[s] = G[s] \ {a}
      /\ \A r \in 1 .. HeapSize : r # s => F[r] = G[r] /\ a \notin G[r]
  BY DEF Listed
<1>2. \A r, q \in 1 .. HeapSize : r # q => F[r] \cap F[q] = {}
  <2>1. \A r \in 1 .. HeapSize : F[r] \subseteq G[r]
    BY <1>1
  <2> HIDE DEF F
  <2> QED BY <2>1, ZenonT(30) DEF Listed
<1> HIDE DEF F
<1>3. CASE IsNormal(s)
  <2>1. s \in 1 .. MaxNormal - 1
    BY <1>3 DEF IsNormal
  <2>2. nl = [normal EXCEPT ![s] = bh_list_remove(normal[s], a)] /\ tr = tree
    BY <1>3 DEF UnlinkList, UnlinkTree
  <2>3. normal[s] \in Seq(Int) /\ Distinct(normal[s]) /\ Range(normal[s]) = G[s]
    BY <2>1 DEF Listed
  <2>4. /\ bh_list_remove(normal[s], a) \in Seq(Int)
        /\ Distinct(bh_list_remove(normal[s], a))
        /\ Range(bh_list_remove(normal[s], a)) = G[s] \ {a}
    BY <2>3, RemoveList, ZenonT(30)
  <2> HIDE DEF nl, tr
  <2>5. /\ nl \in [1 .. MaxNormal - 1 -> Seq(Int)]
        /\ nl[s] = bh_list_remove(normal[s], a)
        /\ \A r \in 1 .. MaxNormal - 1 : r # s => nl[r] = normal[r]
    BY <2>1, <2>2, <2>4 DEF Listed
  <2>6. \A r \in 1 .. MaxNormal - 1 : Distinct(nl[r]) /\ Range(nl[r]) = F[r]
    <3>1. ASSUME NEW r \in 1 .. MaxNormal - 1, r # s
          PROVE  Distinct(nl[r]) /\ Range(nl[r]) = F[r]
      <4>1. r \in 1 .. HeapSize
        OBVIOUS
      <4> QED BY <1>1, <2>5, <3>1, <4>1, ZenonT(30) DEF Listed
    <3> QED BY <1>1, <2>4, <2>5, <3>1, ZenonT(30)
  <2>7. tr = {x \in Int : \E r \in MaxNormal .. HeapSize : x \in F[r]}
    <3>1. \A r \in MaxNormal .. HeapSize : F[r] = G[r]
      BY <1>1, <2>1
    <3> QED BY <2>2, <3>1, ZenonT(30) DEF Listed
  <2> QED BY <1>1, <1>2, <2>5, <2>6, <2>7, ZenonT(30) DEF Listed, F, nl, tr
<1>4. CASE ~ IsNormal(s)
  <2>1. s \in MaxNormal .. HeapSize /\ s \notin 1 .. MaxNormal - 1
    BY <1>4 DEF IsNormal
  <2>2. nl = normal /\ tr = tree \ {a}
    BY <1>4 DEF UnlinkList, UnlinkTree
  <2> HIDE DEF nl, tr
  <2>3. \A r \in 1 .. MaxNormal - 1 : F[r] = G[r]
    BY <1>1, <2>1
  <2>4. tr = {x \in Int : \E r \in MaxNormal .. HeapSize : x \in F[r]}
    <3>1. \A x \in Int : \A r \in MaxNormal .. HeapSize :
             x \in F[r] <=> x \in G[r] /\ x # a
      BY <1>1, <2>1
    <3>2. tree = {x \in Int : \E r \in MaxNormal .. HeapSize : x \in G[r]}
      BY DEF Listed
    <3> QED BY <2>2, <3>1, <3>2
  <2> QED BY <1>1, <1>2, <2>2, <2>3, <2>4, ZenonT(30) DEF Listed, F, nl, tr
<1> QED BY <1>3, <1>4

(* gci_add_fc puts one chunk in.                                            *)
LEMMA AddListed ==
    ASSUME NEW normal, NEW tree, NEW G, Listed(normal, tree, G),
           NEW s \in 1 .. HeapSize, NEW a \in Int,
           \A r \in 1 .. HeapSize : a \notin G[r]
    PROVE  Listed(AddList(normal, s, a), AddTree(tree, s, a),
                  [G EXCEPT ![s] = @ \cup {a}])
<1> USE HeapAssumption
<1> DEFINE F == [G EXCEPT ![s] = @ \cup {a}]
           nl == AddList(normal, s, a)
           tr == AddTree(tree, s, a)
<1>1. /\ F \in [1 .. HeapSize -> SUBSET Int] /\ F[s] = G[s] \cup {a}
      /\ \A r \in 1 .. HeapSize : r # s => F[r] = G[r]
  BY DEF Listed
<1>2. \A r, q \in 1 .. HeapSize : r # q => F[r] \cap F[q] = {}
  <2>1. ASSUME NEW r \in 1 .. HeapSize, NEW q \in 1 .. HeapSize, r # q
        PROVE  F[r] \cap F[q] = {}
    <3>1. G[r] \cap G[q] = {} /\ a \notin G[r] /\ a \notin G[q]
      BY <2>1 DEF Listed
    <3> QED BY <1>1, <2>1, <3>1
  <2> QED BY <2>1
<1> HIDE DEF F
<1>3. CASE IsNormal(s)
  <2>1. s \in 1 .. MaxNormal - 1
    BY <1>3 DEF IsNormal
  <2>2. nl = [normal EXCEPT ![s] = bh_list_insert(normal[s], a)] /\ tr = tree
    BY <1>3 DEF AddList, AddTree
  <2>3. normal[s] \in Seq(Int) /\ Distinct(normal[s]) /\ Range(normal[s]) = G[s]
    BY <2>1 DEF Listed
  <2>4. /\ bh_list_insert(normal[s], a) \in Seq(Int)
        /\ Distinct(bh_list_insert(normal[s], a))
        /\ Range(bh_list_insert(normal[s], a)) = G[s] \cup {a}
    BY <2>3, ConsList, ZenonT(30)
  <2> HIDE DEF nl, tr
  <2>5. /\ nl \in [1 .. MaxNormal - 1 -> Seq(Int)]
        /\ nl[s] = bh_list_insert(normal[s], a)
        /\ \A r \in 1 .. MaxNormal - 1 : r # s => nl[r] = normal[r]
    BY <2>1, <2>2, <2>4 DEF Listed
  <2>6. \A r \in 1 .. MaxNormal - 1 : Distinct(nl[r]) /\ Range(nl[r]) = F[r]
    <3>1. ASSUME NEW r \in 1 .. MaxNormal - 1, r # s
          PROVE  Distinct(nl[r]) /\ Range(nl[r]) = F[r]
      <4>1. r \in 1 .. HeapSize
        OBVIOUS
      <4> QED BY <1>1, <2>5, <3>1, <4>1, ZenonT(30) DEF Listed
    <3> QED BY <1>1, <2>4, <2>5, <3>1, ZenonT(30)
  <2>7. tr = {x \in Int : \E r \in MaxNormal .. HeapSize : x \in F[r]}
    <3>1. \A r \in MaxNormal .. HeapSize : F[r] = G[r]
      BY <1>1, <2>1
    <3> QED BY <2>2, <3>1, ZenonT(30) DEF Listed
  <2> QED BY <1>1, <1>2, <2>5, <2>6, <2>7, ZenonT(30) DEF Listed, F, nl, tr
<1>4. CASE ~ IsNormal(s)
  <2>1. s \in MaxNormal .. HeapSize /\ s \notin 1 .. MaxNormal - 1
    BY <1>4 DEF IsNormal
  <2>2. nl = normal /\ tr = tree \cup {a}
    BY <1>4 DEF AddList, AddTree
  <2> HIDE DEF nl, tr
  <2>3. \A r \in 1 .. MaxNormal - 1 : F[r] = G[r]
    BY <1>1, <2>1
  <2>4. tr = {x \in Int : \E r \in MaxNormal .. HeapSize : x \in F[r]}
    <3>1. \A x \in Int : \A r \in MaxNormal .. HeapSize :
             x \in F[r] <=> x \in G[r] \/ (r = s /\ x = a)
      BY <1>1, <2>1
    <3>2. tree = {x \in Int : \E r \in MaxNormal .. HeapSize : x \in G[r]}
      BY DEF Listed
    <3> DEFINE new == {x \in Int : \E r \in MaxNormal .. HeapSize : x \in F[r]}
    <3>3. \A x \in new : x \in tree \/ x = a
      BY <3>1, <3>2
    <3>4. \A x \in tree : x \in new
      BY <3>1, <3>2
    <3>5. a \in new
      BY <2>1, <3>1
    <3> QED BY <2>2, <3>3, <3>4, <3>5
  <2> QED BY <1>1, <1>2, <2>2, <2>3, <2>4, ZenonT(30) DEF Listed, F, nl, tr
<1> QED BY <1>3, <1>4

(* The last words, and the same ones but for a chunk from a to b.           *)
Footers(f) == f \in [base_addr .. End -> Nat]

SameWords(f, g, a, b) == \A x \in base_addr .. End : x <= a \/ b < x => g[x] = f[x]

(* Writing the words of one chunk leaves the others as they are.            *)
LEMMA Written ==
    ASSUME base_addr \in Int, End \in Int, NEW f, Footers(f),
           NEW a \in Int, NEW b \in Int, NEW last \in Nat,
           a < b, base_addr <= a, b <= End
    PROVE  /\ Footers(Write(f, a, b, last)) /\ Write(f, a, b, last)[b] = last
           /\ SameWords(f, Write(f, a, b, last), a, b)
BY DEF Write, Footers, SameWords

(* The P bit of the chunk at b is set.                                      *)
Mark(c, b, v) == IF InHeap(b) THEN [c EXCEPT ![b].p = v] ELSE c

(* alloc_hmu with a rest that makes a chunk, and without.                   *)
LEMMA TakeSplit ==
    ASSUME NEW c, NEW f, NEW normal, NEW tree, NEW a, NEW n, NEW sz, sz = c[a].size,
           Splits(sz, n)
    PROVE  Take(State(c, f, normal, tree), a, n)
              = State(Set(Set(c, a, Hmu("VO", n, c[a].p)), a + n, Hmu("FC", sz - n, Yes)),
                      Write(Write(f, a, a + n, 0), a + n, a + n + (sz - n), sz - n),
                      AddList(normal, sz - n, a + n), AddTree(tree, sz - n, a + n))
<1>1. State(c, f, normal, tree).chunk = c
  BY DEF State
<1>2. Take(State(c, f, normal, tree), a, n)
         = AddFc(Words(Put(State(c, f, normal, tree), a, Hmu("VO", n, c[a].p)), a, n, 0),
                 a + n, sz - n, Yes)
  BY <1>1, ZenonT(30) DEF Take, Yes
<1>3. Words(Put(State(c, f, normal, tree), a, Hmu("VO", n, c[a].p)), a, n, 0)
         = State(Set(c, a, Hmu("VO", n, c[a].p)), Write(f, a, a + n, 0), normal, tree)
  BY PutState, WordsState
<1> QED BY <1>2, <1>3, AddFcState

(* The same without a rest: the chunk is taken whole.                       *)
LEMMA TakeWhole ==
    ASSUME NEW c, NEW f, NEW normal, NEW tree, NEW a, NEW n, NEW sz, sz = c[a].size,
           ~ Splits(sz, n)
    PROVE  Take(State(c, f, normal, tree), a, n)
              = State(Mark(Set(c, a, Hmu("VO", sz, c[a].p)), a + sz, Yes),
                      Write(f, a, a + sz, 0), normal, tree)
<1>1. State(c, f, normal, tree).chunk = c
  BY DEF State
<1>2. Take(State(c, f, normal, tree), a, n)
         = MarkPinuse(Words(Put(State(c, f, normal, tree), a, Hmu("VO", sz, c[a].p)), a, sz, 0),
                      a + sz)
  BY <1>1 DEF Take
<1>3. Words(Put(State(c, f, normal, tree), a, Hmu("VO", sz, c[a].p)), a, sz, 0)
         = State(Set(c, a, Hmu("VO", sz, c[a].p)), Write(f, a, a + sz, 0), normal, tree)
  BY PutState, WordsState
<1>4. ASSUME NEW d, NEW g, NEW b
      PROVE  MarkPinuse(State(d, g, normal, tree), b) = State(Mark(d, b, Yes), g, normal, tree)
  BY ZenonT(30) DEF MarkPinuse, Mark, State, Yes
<1> QED BY <1>2, <1>3, <1>4

(* V is the set U of units without those from lo to hi, which are in U.     *)
Apart(U, V, lo, hi) ==
    /\ lo \in Int /\ hi \in Int /\ lo < hi
    /\ lo .. hi - 1 \subseteq U /\ V = U \ (lo .. hi - 1)

Fewer(U, V, n) == Cardinality(V) = Cardinality(U) - n /\ Cardinality(U) = Cardinality(V) + n

(* Taking n units away lowers the count by n.                               *)
LEMMA UnitsLess ==
    ASSUME NEW U, NEW V, NEW lo, NEW hi, IsFiniteSet(U), Apart(U, V, lo, hi)
    PROVE  Fewer(U, V, hi - lo)
<1> USE DEF Apart
<1> DEFINE W == lo .. hi - 1
<1>1. IsFiniteSet(W) /\ Cardinality(W) = hi - lo
  BY FS_Interval
<1>2. U \cap W = W
  OBVIOUS
<1> HIDE DEF W
<1>3. IsFiniteSet(U \ W) /\ Cardinality(U \ W) = Cardinality(U) - Cardinality(U \cap W)
  BY FS_Difference, ZenonT(30)
<1>4. Cardinality(U) \in Nat /\ hi - lo \in Int
  BY FS_CardinalityType
<1>5. V = U \ W
  BY DEF W
<1>6. Cardinality(V) = Cardinality(U) - (hi - lo)
  BY <1>1, <1>2, <1>3, <1>5, ZenonT(30)
<1> QED BY <1>4, <1>6 DEF Fewer

(* alloc_hmu chooses a free chunk that is large enough.                     *)
LEMMA FitFree ==
    ASSUME HeapInv, NEW n \in Sizes, NEW a \in FitsOf(n)
    PROVE  a \in DOMAIN chunk /\ chunk[a].ut = "FC" /\ n <= chunk[a].size
<1> USE HeapAssumption
<1>1. /\ Listed(kfc_normal_list, kfc_tree, FreeBySize) /\ Well
      /\ n \in 2 .. HeapSize
  BY DEF HeapInv, Sizes, Smallest
<1>2. CASE IsNormal(n) /\ NormalFit(n) # {}
  <2>1. PICK s \in NormalFit(n) : a = kfc_normal_list[s][1]
    BY <1>2 DEF FitsOf
  <2>2. s \in n .. MaxNormal - 1 /\ kfc_normal_list[s] # <<>>
    BY <2>1 DEF NormalFit
  <2>3. s \in 1 .. MaxNormal - 1 /\ s \in 1 .. HeapSize /\ n <= s
    BY <1>1, <2>2
  <2>4. kfc_normal_list[s] \in Seq(Int) /\ Range(kfc_normal_list[s]) = FreeBySize[s]
    BY <1>1, <2>3 DEF Listed
  <2>5. 1 \in DOMAIN kfc_normal_list[s]
    BY <2>2, <2>4
  <2>6. a \in FreeBySize[s]
    BY <2>1, <2>4, <2>5 DEF Range
  <2> QED BY <1>1, <2>3, <2>6, FreeChunk
<1>3. CASE ~ (IsNormal(n) /\ NormalFit(n) # {})
  <2>1. a \in kfc_tree /\ chunk[a].size >= n
    BY <1>3 DEF FitsOf, TreeFit
  <2>2. PICK s \in MaxNormal .. HeapSize : a \in FreeBySize[s]
    BY <1>1, <2>1 DEF Listed
  <2>3. s \in 1 .. HeapSize
    BY <2>2
  <2>4. a \in DOMAIN chunk /\ chunk[a].ut = "FC" /\ chunk[a].size = s
    BY <1>1, <2>2, <2>3, FreeChunk
  <2> QED BY <1>1, <2>1, <2>3, <2>4
<1> QED BY <1>2, <1>3

(* What alloc_hmu does to each of the structures.                           *)
LEMMA AllocParts ==
    ASSUME HeapInv, NEW n \in Sizes, AllocHmu(n)
    PROVE  \E a \in DOMAIN chunk, sz \in Sizes :
              /\ chunk[a].ut = "FC" /\ chunk[a].size = sz /\ n <= sz
              /\ UNCHANGED is_heap_corrupted
              /\ \/ /\ n + Smallest <= sz
                    /\ chunk' = Set(Set(chunk, a, Hmu("VO", n, chunk[a].p)),
                                    a + n, Hmu("FC", sz - n, Yes))
                    /\ footer' = Write(Write(footer, a, a + n, 0), a + n, a + n + (sz - n), sz - n)
                    /\ kfc_normal_list' = AddList(UnlinkList(kfc_normal_list, sz, a), sz - n, a + n)
                    /\ kfc_tree' = AddTree(UnlinkTree(kfc_tree, sz, a), sz - n, a + n)
                    /\ total_free_size' = total_free_size - n
                 \/ /\ ~ (n + Smallest <= sz)
                    /\ chunk' = Mark(Set(chunk, a, Hmu("VO", sz, chunk[a].p)), a + sz, Yes)
                    /\ footer' = Write(footer, a, a + sz, 0)
                    /\ kfc_normal_list' = UnlinkList(kfc_normal_list, sz, a)
                    /\ kfc_tree' = UnlinkTree(kfc_tree, sz, a)
                    /\ total_free_size' = total_free_size - sz
<1> USE HeapAssumption
<1>1. PICK a \in FitsOf(n) :
         IF ~ InHeap(a)
         THEN is_heap_corrupted' = TRUE
         ELSE LET h == Take(Unlink(Heap, a), a, n)
              IN  /\ Become(h)
                  /\ total_free_size' = total_free_size - h.chunk[a].size
                  /\ UNCHANGED is_heap_corrupted
  BY DEF AllocHmu
<1>2. a \in DOMAIN chunk /\ chunk[a].ut = "FC" /\ n <= chunk[a].size
  BY FitFree
<1>3. /\ InHeap(a) /\ chunk[a].size \in Sizes /\ a \in Int /\ a + chunk[a].size # a
      /\ chunk[a].size \in Int /\ n \in Int /\ a + n # a
  BY <1>2, ChunkFacts DEF HeapInv, Well, Sizes, Smallest
<1> DEFINE sz == chunk[a].size
           nl == UnlinkList(kfc_normal_list, sz, a)
           tr == UnlinkTree(kfc_tree, sz, a)
           h == Take(Unlink(Heap, a), a, n)
<1>4. Unlink(Heap, a) = State(chunk, footer, nl, tr)
  <2>1. Heap = State(chunk, footer, kfc_normal_list, kfc_tree)
    BY DEF Heap, State
  <2> QED BY <2>1, UnlinkState
<1> HIDE DEF nl, tr
<1>5. State(chunk, footer, nl, tr).chunk = chunk
  BY DEF State
<1>6. Become(h) /\ total_free_size' = total_free_size - h.chunk[a].size
      /\ UNCHANGED is_heap_corrupted
  BY <1>1, <1>3
<1>7. CASE n + Smallest <= sz
  <2> DEFINE c == Set(Set(chunk, a, Hmu("VO", n, chunk[a].p)), a + n, Hmu("FC", sz - n, Yes))
             new == State(c, Write(Write(footer, a, a + n, 0), a + n, a + n + (sz - n), sz - n),
                          AddList(nl, sz - n, a + n), AddTree(tr, sz - n, a + n))
  <2>1. Splits(sz, n)
    BY <1>3, <1>7 DEF Splits, Smallest
  <2>2. h = Take(State(chunk, footer, nl, tr), a, n)
    BY <1>4
  <2>3. h = new
    BY <2>1, <2>2, TakeSplit
  <2>4. c[a].size = n
    BY <1>3 DEF Set, Hmu
  <2>5. new.chunk = c
    BY DEF State
  <2> HIDE DEF h, c
  <2>6. total_free_size' = total_free_size - n
    BY <1>6, <2>3, <2>4, <2>5
  <2>7. chunk' = c /\ footer' = new.footer /\ kfc_normal_list' = new.normal /\ kfc_tree' = new.tree
    BY <1>6, <2>3, <2>5 DEF Become
  <2> QED BY <1>2, <1>3, <1>6, <1>7, <2>6, <2>7, ZenonT(30) DEF State, c, nl, tr
<1>8. CASE ~ (n + Smallest <= sz)
  <2> DEFINE b == Set(chunk, a, Hmu("VO", sz, chunk[a].p))
             c == Mark(b, a + sz, Yes)
             new == State(c, Write(footer, a, a + sz, 0), nl, tr)
  <2>1. ~ Splits(sz, n)
    BY <1>3, <1>8 DEF Splits, Smallest
  <2>2. h = Take(State(chunk, footer, nl, tr), a, n)
    BY <1>4
  <2>3. h = new
    BY <2>1, <2>2, TakeWhole
  <2>4. c[a].size = sz
    BY <1>2, <1>3 DEF Mark, Set, Hmu
  <2>5. new.chunk = c
    BY DEF State
  <2> HIDE DEF h, c
  <2>6. total_free_size' = total_free_size - sz
    BY <1>6, <2>3, <2>4, <2>5
  <2>7. chunk' = c /\ footer' = new.footer /\ kfc_normal_list' = new.normal /\ kfc_tree' = new.tree
    BY <1>6, <2>3, <2>5 DEF Become
  <2> QED BY <1>2, <1>3, <1>6, <1>8, <2>6, <2>7, ZenonT(30) DEF State, c, nl, tr
<1> QED BY <1>7, <1>8, ZenonT(30)

----------------------------------------------------------------------------
(* alloc_hmu takes the front of the chunk a, and what that makes of the     *)
(* headers and the last words.                                              *)
TakesFront(a, sz, n, rest, m, e) ==
    /\ a \in DOMAIN chunk /\ n \in Sizes /\ rest \in Sizes /\ sz \in Sizes
    /\ m \in Int /\ e \in Int /\ m = a + n /\ e = m + rest /\ e = NextHmu(a)
    /\ chunk[a].ut = "FC" /\ chunk[a].size = sz /\ base_addr' = base_addr
    /\ chunk' = Set(Set(chunk, a, Hmu("VO", n, chunk[a].p)), m, Hmu("FC", rest, Yes))
    /\ footer' = Write(Write(footer, a, m, 0), m, e, rest)

SplitOff(a, sz, n, rest, m, e) ==
    /\ a \in DOMAIN chunk /\ n \in Sizes /\ rest \in Sizes /\ sz \in Sizes
    /\ a \in Int /\ n \in Int /\ rest \in Int /\ m \in Int /\ e \in Int
    /\ m = a + n /\ m + rest = e /\ NextHmu(a) = e /\ rest = chunk[a].size - n /\ m - a = n
    /\ chunk[a].ut = "FC" /\ chunk[a].size = sz /\ base_addr' = base_addr
    /\ m \notin DOMAIN chunk /\ a < m /\ m < e
    /\ DOMAIN chunk' = DOMAIN chunk \cup {m}
    /\ chunk' \in [DOMAIN chunk \cup {m} -> Header]
    /\ chunk'[a] = Hmu("VO", n, chunk[a].p) /\ chunk'[m] = Hmu("FC", rest, Yes)
    /\ \A x \in DOMAIN chunk : x # a => chunk'[x] = chunk[x]
    /\ footer' \in [base_addr .. End -> Nat] /\ footer'[e] = rest
    /\ \A x \in base_addr .. End : x <= a \/ e < x => footer'[x] = footer[x]

(* What the parts of AllocParts say when a chunk is split.                  *)
LEMMA SplitFacts ==
    ASSUME Well, NEW a, NEW sz, NEW n, NEW rest, NEW m, NEW e,
           TakesFront(a, sz, n, rest, m, e)
    PROVE  SplitOff(a, sz, n, rest, m, e)
<1> USE DEF TakesFront
<1>1. n \in Int /\ rest \in Int /\ 0 < n /\ 0 < rest
  BY HeapAssumption DEF Sizes, Smallest
<1>2. a \in Int /\ base_addr \in Int /\ End \in Int /\ base_addr <= a /\ e <= End
  BY ChunkOrder
<1>3. \A x \in DOMAIN chunk : x \in Int /\ chunk[x] \in Header /\ (a < x => e <= x)
  BY ChunkOrder
<1>4. a < m /\ m < e
  BY <1>1, <1>2
<1>5. m \notin DOMAIN chunk
  BY <1>1, <1>2, <1>3, <1>4
<1> DEFINE v == Hmu("VO", n, chunk[a].p)
           f == Hmu("FC", rest, Yes)
<1>6. v \in Header /\ f \in Header
  BY <1>3 DEF Hmu, Header, Yes
<1> HIDE DEF v, f
<1>7. /\ chunk' \in [DOMAIN chunk \cup {m} -> Header]
      /\ chunk'[a] = v /\ chunk'[m] = f
      /\ \A x \in DOMAIN chunk : x # a => chunk'[x] = chunk[x]
  <2>1. chunk' = [x \in DOMAIN chunk \cup {m} |-> IF x = m THEN f ELSE IF x = a THEN v ELSE chunk[x]]
    BY SMTT(30) DEF Set, v, f
  <2> QED BY <1>2, <1>3, <1>4, <1>5, <1>6, <2>1
<1> DEFINE g == Write(footer, a, m, 0)
<1> HIDE DEF g
<1>8. Footers(footer) /\ rest \in Nat /\ 0 \in Nat /\ m <= End /\ base_addr <= m
  BY <1>1, <1>2, <1>4 DEF Well, Tiled, Footers
<1>9. Footers(g) /\ SameWords(footer, g, a, m)
  BY <1>2, <1>4, <1>8, Written DEF g
<1>10. Footers(footer') /\ footer'[e] = rest /\ SameWords(g, footer', m, e)
  <2>1. footer' = Write(g, m, e, rest)
    BY DEF g
  <2> QED BY <1>2, <1>4, <1>8, <1>9, <2>1, Written
<1>11. \A x \in base_addr .. End : x <= a \/ e < x => footer'[x] = footer[x]
  BY <1>2, <1>4, <1>9, <1>10 DEF SameWords
<1>12. rest = chunk[a].size - n /\ m - a = n
  <2>1. sz \in Int /\ e = a + sz
    BY HeapAssumption DEF NextHmu, Sizes, Smallest
  <2> QED BY <1>1, <1>2, <2>1
<1> QED BY <1>1, <1>2, <1>4, <1>5, <1>7, <1>10, <1>11, <1>12 DEF v, f, Footers, SplitOff

(* The free chunks but one, and one more.                                   *)
Less(G, a) == [s \in 1 .. HeapSize |-> G[s] \ {a}]

More(G, s, a) == [r \in 1 .. HeapSize |-> IF r = s THEN G[r] \cup {a} ELSE G[r]]

(* unlink_hmu and gci_add_fc again, by what the lists lose and gain.        *)
LEMMA LessListed ==
    ASSUME NEW normal, NEW tree, NEW G, Listed(normal, tree, G),
           NEW s \in 1 .. HeapSize, NEW a, a \in G[s]
    PROVE  Listed(UnlinkList(normal, s, a), UnlinkTree(tree, s, a), Less(G, a))
<1>1. [G EXCEPT ![s] = @ \ {a}] = Less(G, a)
  <2>1. G \in [1 .. HeapSize -> SUBSET Int]
    BY DEF Listed
  <2>2. \A r \in 1 .. HeapSize : r # s => a \notin G[r]
    BY ZenonT(30) DEF Listed
  <2> QED BY <2>1, <2>2, ZenonT(30) DEF Less
<1> QED BY <1>1, UnlinkListed

(* gci_add_fc puts a chunk of size s in.                                    *)
LEMMA MoreListed ==
    ASSUME NEW normal, NEW tree, NEW G, Listed(normal, tree, G),
           NEW s \in 1 .. HeapSize, NEW a \in Int,
           \A r \in 1 .. HeapSize : a \notin G[r]
    PROVE  Listed(AddList(normal, s, a), AddTree(tree, s, a), More(G, s, a))
<1>1. [G EXCEPT ![s] = @ \cup {a}] = More(G, s, a)
  <2>1. G \in [1 .. HeapSize -> SUBSET Int]
    BY DEF Listed
  <2> QED BY <2>1, ZenonT(30) DEF More
<1> QED BY <1>1, AddListed

(* The free chunks after a chunk was split.                                 *)
LEMMA SplitLists ==
    ASSUME HeapInv, NEW a \in DOMAIN chunk, NEW n, NEW rest \in Sizes, NEW sz \in Sizes,
           NEW m \in Int, m \notin DOMAIN chunk, chunk[a].ut = "FC", chunk[a].size = sz,
           DOMAIN chunk' = DOMAIN chunk \cup {m},
           chunk'[a] = Hmu("VO", n, chunk[a].p), chunk'[m] = Hmu("FC", rest, Yes),
           \A x \in DOMAIN chunk : x # a => chunk'[x] = chunk[x],
           kfc_normal_list' = AddList(UnlinkList(kfc_normal_list, sz, a), rest, m),
           kfc_tree' = AddTree(UnlinkTree(kfc_tree, sz, a), rest, m)
    PROVE  Listed(kfc_normal_list', kfc_tree', FreeBySize')
<1>1. Well /\ Listed(kfc_normal_list, kfc_tree, FreeBySize)
  BY DEF HeapInv
<1>2. rest \in 1 .. HeapSize /\ sz \in 1 .. HeapSize
  BY HeapAssumption DEF Sizes, Smallest
<1>3. \A s \in 1 .. HeapSize : \A x : x \in FreeBySize[s] <=> FreeIn(chunk, s, x)
  BY <1>1, FreeChunk DEF FreeIn
<1>4. a \in FreeBySize[sz]
  BY <1>2, <1>3 DEF FreeIn
<1>5. Listed(UnlinkList(kfc_normal_list, sz, a), UnlinkTree(kfc_tree, sz, a), Less(FreeBySize, a))
  BY <1>1, <1>2, <1>4, LessListed
<1>6. \A s \in 1 .. HeapSize : \A x : x \in Less(FreeBySize, a)[s] <=> FreeIn(chunk, s, x) /\ x # a
  BY <1>3 DEF Less
<1>7. \A s \in 1 .. HeapSize : m \notin Less(FreeBySize, a)[s]
  BY <1>6 DEF FreeIn
<1> DEFINE G == More(Less(FreeBySize, a), rest, m)
<1>8. Listed(kfc_normal_list', kfc_tree', G)
  BY <1>2, <1>5, <1>7, MoreListed
<1>9. \A s \in 1 .. HeapSize : \A x : x \in G[s] <=> (FreeIn(chunk, s, x) /\ x # a) \/ (s = rest /\ x = m)
  BY <1>6 DEF More
<1>10. DOMAIN G = 1 .. HeapSize
  BY DEF More
<1>11. \A s : \A x : FreeIn(chunk', s, x) <=> (FreeIn(chunk, s, x) /\ x # a) \/ (s = rest /\ x = m)
  BY DEF FreeIn, Hmu
<1> HIDE DEF G
<1>12. \A s \in 1 .. HeapSize : \A x : x \in G[s] <=> FreeIn(chunk', s, x)
  BY <1>9, <1>11
<1> QED BY <1>8, <1>10, <1>12, FreeBySizeAfter, ZenonT(30) DEF FreeIn

(* The free units after a chunk was split: the front is no longer free.     *)
LEMMA SplitUnits ==
    ASSUME Well, NEW a, NEW sz, NEW n, NEW rest, NEW m, NEW e, SplitOff(a, sz, n, rest, m, e)
    PROVE  Apart(FreeUnits, FreeUnits', a, m)
<1> DEFINE Unit(c, u) == \E x \in DOMAIN c : c[x].ut = "FC" /\ x <= u /\ u < x + c[x].size
<1>1. /\ a \in DOMAIN chunk /\ chunk[a].ut = "FC" /\ NextHmu(a) = e /\ base_addr' = base_addr
      /\ chunk'[a] = Hmu("VO", n, chunk[a].p) /\ chunk'[m] = Hmu("FC", rest, Yes)
  BY DEF SplitOff
<1>2. a < m /\ m < e /\ m + rest = e /\ a \in Int /\ m \in Int /\ rest \in Int /\ e \in Int
  BY DEF SplitOff
<1>3. DOMAIN chunk' = DOMAIN chunk \cup {m} /\ \A x \in DOMAIN chunk : x # a => chunk'[x] = chunk[x]
  BY DEF SplitOff
<1>4. /\ base_addr \in Int /\ End \in Int /\ base_addr <= a /\ e <= End
      /\ a + chunk[a].size = e
  BY <1>1, ChunkOrder
<1>5. \A x \in DOMAIN chunk : /\ x \in Int /\ x + chunk[x].size \in Int
                              /\ a < x => e <= x
                              /\ x < a => x + chunk[x].size <= a
  BY <1>1, ChunkOrder
<1>6. End' = End
  BY <1>1 DEF End
<1>7. \A u : u \in FreeUnits' <=> u \in base_addr .. End - 1 /\ Unit(chunk', u)
  BY <1>1, <1>6 DEF FreeUnits, NextHmu
<1>8. \A u : u \in FreeUnits <=> u \in base_addr .. End - 1 /\ Unit(chunk, u)
  BY DEF FreeUnits, NextHmu
<1>9. chunk'[a].ut = "VO" /\ chunk'[m].ut = "FC" /\ chunk'[m].size = rest
  BY <1>1 DEF Hmu
<1>10. ASSUME NEW u \in Int, Unit(chunk', u) PROVE Unit(chunk, u) /\ u \notin a .. m - 1
  <2>1. PICK x \in DOMAIN chunk' : chunk'[x].ut = "FC" /\ x <= u /\ u < x + chunk'[x].size
    BY <1>10
  <2>2. CASE x = m
    BY <1>1, <1>2, <1>4, <1>9, <2>1, <2>2
  <2>3. CASE x # m
    <3>1. x \in DOMAIN chunk /\ x # a /\ chunk'[x] = chunk[x]
      BY <1>3, <1>9, <2>1, <2>3
    <3> QED BY <1>2, <1>4, <1>5, <2>1, <3>1
  <2> QED BY <2>2, <2>3
<1>11. ASSUME NEW u \in Int, Unit(chunk, u), u \notin a .. m - 1 PROVE Unit(chunk', u)
  <2>1. PICK x \in DOMAIN chunk : chunk[x].ut = "FC" /\ x <= u /\ u < x + chunk[x].size
    BY <1>11
  <2>2. CASE x = a
    BY <1>2, <1>3, <1>4, <1>9, <1>11, <2>1, <2>2
  <2>3. CASE x # a
    BY <1>3, <2>1, <2>3
  <2> QED BY <2>2, <2>3
<1>12. \A u \in a .. m - 1 : u \in base_addr .. End - 1 /\ Unit(chunk, u)
  BY <1>1, <1>2, <1>4
<1> HIDE DEF Unit
<1> QED BY <1>2, <1>4, <1>7, <1>8, <1>10, <1>11, <1>12 DEF Apart

(* alloc_hmu splits a chunk.                                                *)
LEMMA SplitWell ==
    ASSUME Well, NEW a, NEW sz, NEW n, NEW rest, NEW m, NEW e, SplitOff(a, sz, n, rest, m, e)
    PROVE  Well'
<1>1. /\ a \in DOMAIN chunk /\ chunk[a].ut = "FC" /\ n \in Sizes /\ chunk[a].size - n \in Sizes
      /\ m = a + n /\ e = NextHmu(a) /\ base_addr' = base_addr
      /\ chunk' \in [DOMAIN chunk \cup {m} -> Header]
      /\ chunk'[a] = Hmu("VO", n, chunk[a].p)
      /\ chunk'[m] = Hmu("FC", chunk[a].size - n, Yes) /\ footer'[e] = chunk[a].size - n
      /\ footer' \in [base_addr .. End -> Nat]
  BY DEF SplitOff
<1>2. /\ \A x \in DOMAIN chunk : x # a => chunk'[x] = chunk[x]
      /\ \A x \in base_addr .. End : x <= a \/ e < x => footer'[x] = footer[x]
  BY DEF SplitOff
<1> QED BY <1>1, <1>2, SplitChunk, SMTT(30)

(* A split keeps the lists right and what is in use in use.                 *)
LEMMA SplitFree ==
    ASSUME Well, NEW a, NEW sz, NEW n, NEW rest, NEW m, NEW e, SplitOff(a, sz, n, rest, m, e)
    PROVE  Fewer(FreeUnits, FreeUnits', n) /\ InUse \subseteq InUse'
<1>1. Apart(FreeUnits, FreeUnits', a, m)
  BY SplitUnits
<1>2. IsFiniteSet(FreeUnits)
  BY UnitsFinite
<1>3. Fewer(FreeUnits, FreeUnits', m - a)
  BY <1>1, <1>2, UnitsLess
<1>4. m - a = n
  BY DEF SplitOff
<1>5. InUse \subseteq InUse'
  BY ZenonT(30) DEF InUse, SplitOff
<1> QED BY <1>3, <1>4, <1>5

(* alloc_hmu that splits keeps everything.                                  *)
LEMMA AllocSplit ==
    ASSUME HeapInv, NEW a, NEW sz, NEW n, NEW rest, NEW m, NEW e,
           TakesFront(a, sz, n, rest, m, e),
           kfc_normal_list' = AddList(UnlinkList(kfc_normal_list, sz, a), rest, m),
           kfc_tree' = AddTree(UnlinkTree(kfc_tree, sz, a), rest, m),
           total_free_size' = total_free_size - n
    PROVE  /\ Well' /\ Listed(kfc_normal_list', kfc_tree', FreeBySize')
           /\ total_free_size' = Cardinality(FreeUnits') /\ InUse \subseteq InUse'
<1>1. Well /\ total_free_size = Cardinality(FreeUnits)
  BY DEF HeapInv
<1>2. SplitOff(a, sz, n, rest, m, e)
  BY <1>1, SplitFacts
<1>3. DOMAIN chunk' = DOMAIN chunk \cup {m}
  BY <1>2 DEF SplitOff
<1>4. Listed(kfc_normal_list', kfc_tree', FreeBySize')
  BY <1>2, <1>3, SplitLists, ZenonT(30) DEF SplitOff
<1>5. Well' /\ Fewer(FreeUnits, FreeUnits', n) /\ InUse \subseteq InUse'
  BY <1>1, <1>2, SplitWell, SplitFree
<1> QED BY <1>1, <1>4, <1>5 DEF Fewer

----------------------------------------------------------------------------
(* The chunks from lo to hi become one of the use type u, the P bit of the  *)
(* chunk behind it becomes v, and the last word last: alloc_hmu of a whole  *)
(* chunk, and gc_free_vo.                                                   *)
Outside(lo, hi) == {x \in DOMAIN chunk : x <= lo \/ hi <= x}

Kept(lo, hi) == [x \in Outside(lo, hi) |-> chunk[x]]

Joins(lo, hi, u, v, last) ==
    /\ lo \in DOMAIN chunk /\ hi \in Int
    /\ hi = End \/ hi \in DOMAIN chunk
    /\ hi - lo \in Sizes /\ u \in {"VO", "FC"} /\ v \in BOOLEAN /\ last \in Nat
    /\ base_addr' = base_addr
    /\ chunk' = Mark(Set(Kept(lo, hi), lo, Hmu(u, hi - lo, chunk[lo].p)), hi, v)
    /\ footer' = Write(footer, lo, hi, last)

Joined(lo, hi, u, v, last) ==
    /\ lo \in DOMAIN chunk /\ hi \in Int
    /\ hi = End \/ hi \in DOMAIN chunk
    /\ hi - lo \in Sizes /\ u \in {"VO", "FC"} /\ base_addr' = base_addr
    /\ lo \in Int /\ lo < hi /\ base_addr <= lo /\ hi <= End
    /\ chunk' \in [Outside(lo, hi) -> Header]
    /\ chunk'[lo] = Hmu(u, hi - lo, chunk[lo].p)
    /\ \A x \in DOMAIN chunk : x < lo \/ hi < x => chunk'[x] = chunk[x]
    /\ hi \in DOMAIN chunk => /\ chunk'[hi].ut = chunk[hi].ut /\ chunk'[hi].size = chunk[hi].size
                              /\ chunk'[hi].p = v
    /\ footer' \in [base_addr .. End -> Nat] /\ footer'[hi] = last
    /\ \A x \in base_addr .. End : x <= lo \/ hi < x => footer'[x] = footer[x]

(* What the parts say when a row of chunks becomes one.                     *)
LEMMA JoinFacts ==
    ASSUME Well, NEW lo, NEW hi, NEW u, NEW v, NEW last, Joins(lo, hi, u, v, last)
    PROVE  Joined(lo, hi, u, v, last)
<1>1. /\ lo \in DOMAIN chunk /\ hi \in Int /\ hi - lo \in Sizes
      /\ u \in {"VO", "FC"} /\ v \in BOOLEAN /\ last \in Nat /\ base_addr' = base_addr
      /\ chunk' = Mark(Set(Kept(lo, hi), lo, Hmu(u, hi - lo, chunk[lo].p)), hi, v)
      /\ footer' = Write(footer, lo, hi, last)
  BY DEF Joins
<1>2. hi = End \/ hi \in DOMAIN chunk
  BY DEF Joins
<1>3. lo \in Int /\ base_addr \in Int /\ End \in Int /\ base_addr <= lo
  BY <1>1, ChunkOrder
<1>4. \A x \in DOMAIN chunk : x \in Int /\ chunk[x] \in Header /\ InHeap(x)
  BY <1>1, ChunkOrder, ChunkFacts DEF Well
<1>5. lo < hi
  BY <1>1, <1>3, HeapAssumption DEF Sizes, Smallest
<1>6. hi <= End
  BY <1>2, <1>3, <1>4 DEF InHeap
<1>7. InHeap(hi) <=> hi \in DOMAIN chunk
  BY <1>2, <1>3, <1>4 DEF InHeap
<1> DEFINE b == Hmu(u, hi - lo, chunk[lo].p)
           c == Set(Kept(lo, hi), lo, b)
<1>8. b \in Header
  BY <1>1, <1>4 DEF Hmu, Header
<1> HIDE DEF b
<1>9. lo \in Outside(lo, hi) /\ (hi \in DOMAIN chunk => hi \in Outside(lo, hi))
  BY <1>1, <1>3 DEF Outside
<1>10. \A x \in Outside(lo, hi) : x \in DOMAIN chunk /\ chunk[x] \in Header
  BY <1>4 DEF Outside
<1>11. /\ c \in [Outside(lo, hi) -> Header] /\ c[lo] = b
       /\ \A x \in Outside(lo, hi) : x # lo => c[x] = chunk[x]
  BY <1>8, <1>9, <1>10 DEF Kept, Set
<1> HIDE DEF c
<1>12. chunk' = Mark(c, hi, v)
  BY <1>1 DEF b, c
<1>13. /\ chunk' \in [Outside(lo, hi) -> Header] /\ chunk'[lo] = b
       /\ \A x \in Outside(lo, hi) : x # lo /\ x # hi => chunk'[x] = chunk[x]
       /\ hi \in DOMAIN chunk => /\ chunk'[hi].ut = chunk[hi].ut /\ chunk'[hi].size = chunk[hi].size
                                 /\ chunk'[hi].p = v
  <2>1. CASE InHeap(hi)
    <3>1. chunk' = [c EXCEPT ![hi].p = v] /\ hi \in Outside(lo, hi) /\ hi # lo
      BY <1>3, <1>5, <1>7, <1>9, <1>12, <2>1 DEF Mark
    <3>2. c[hi] = chunk[hi] /\ chunk[hi] \in Header
      BY <1>10, <1>11, <3>1
    <3> DEFINE h == [c[hi] EXCEPT !.p = v]
    <3>3. /\ h \in Header /\ h.ut = chunk[hi].ut /\ h.size = chunk[hi].size /\ h.p = v
      BY <1>1, <3>2 DEF Header
    <3>4. chunk' = [c EXCEPT ![hi] = h]
      BY <3>1
    <3> HIDE DEF h
    <3> QED BY <1>9, <1>11, <3>1, <3>3, <3>4
  <2>2. CASE ~ InHeap(hi)
    BY <1>7, <1>11, <1>12, <2>2 DEF Mark
  <2> QED BY <2>1, <2>2
<1>14. \A x \in DOMAIN chunk : x < lo \/ hi < x => chunk'[x] = chunk[x]
  <2>1. \A x \in DOMAIN chunk : x < lo \/ hi < x => x \in Outside(lo, hi) /\ x # lo /\ x # hi
    BY <1>1, <1>3, <1>4, <1>5 DEF Outside
  <2> QED BY <1>13, <2>1
<1>15. Footers(footer') /\ footer'[hi] = last /\ SameWords(footer, footer', lo, hi)
  <2>1. Footers(footer)
    BY DEF Well, Tiled, Footers
  <2> QED BY <1>1, <1>3, <1>5, <1>6, <2>1, Written
<1> QED BY <1>1, <1>2, <1>3, <1>5, <1>6, <1>13, <1>14, <1>15 DEF Joined, b, Footers, SameWords

(* A row that becomes one chunk leaves a well-formed heap.                  *)
LEMMA JoinWell ==
    ASSUME Well, NEW lo, NEW hi, NEW u, NEW v, NEW last, Joined(lo, hi, u, v, last),
           u = "VO" => v = Yes,
           u = "FC" => /\ v = No /\ last = hi - lo
                       /\ hi \in DOMAIN chunk => chunk[hi].ut = "VO"
                       /\ \A x \in DOMAIN chunk : NextHmu(x) = lo => chunk[x].ut = "VO"
    PROVE  Well'
<1>1. /\ lo \in DOMAIN chunk /\ hi \in Int /\ u \in {"VO", "FC"} /\ hi - lo \in Sizes
      /\ base_addr' = base_addr /\ chunk'[lo] = Hmu(u, hi - lo, chunk[lo].p)
      /\ chunk' \in [{x \in DOMAIN chunk : x <= lo \/ hi <= x} -> Header]
      /\ footer' \in [base_addr .. End -> Nat]
  BY DEF Joined, Outside
<1>2. hi = End \/ hi \in DOMAIN chunk
  BY DEF Joined
<1>3. \A x \in DOMAIN chunk : x < lo \/ hi < x => chunk'[x] = chunk[x]
  BY DEF Joined
<1>4. \A x \in base_addr .. End : x <= lo \/ hi < x => footer'[x] = footer[x]
  BY DEF Joined
<1>5. hi \in DOMAIN chunk =>
              /\ chunk'[hi].ut = chunk[hi].ut /\ chunk'[hi].size = chunk[hi].size
              /\ u = "VO" => chunk'[hi].p = TRUE
              /\ u = "FC" => chunk'[hi].p = FALSE
  BY DEF Joined, Yes, No
<1>6. u = "FC" => /\ hi \in DOMAIN chunk => footer'[hi] = hi - lo /\ chunk[hi].ut = "VO"
                  /\ \A x \in DOMAIN chunk : NextHmu(x) = lo => chunk[x].ut = "VO"
  BY DEF Joined
<1> QED BY <1>1, <1>2, <1>3, <1>4, <1>5, <1>6, OneChunk, ZenonT(60)

(* The units of free chunks after that.                                     *)
LEMMA JoinUnits ==
    ASSUME Well, NEW lo, NEW hi, NEW u, NEW v, NEW last, Joined(lo, hi, u, v, last)
    PROVE  /\ u = "VO" => FreeUnits' = FreeUnits \ (lo .. hi - 1)
           /\ u = "FC" => FreeUnits' = FreeUnits \cup (lo .. hi - 1)
<1> DEFINE Unit(c, w) == \E x \in DOMAIN c : c[x].ut = "FC" /\ x <= w /\ w < x + c[x].size
<1>1. /\ lo \in DOMAIN chunk /\ base_addr' = base_addr
      /\ chunk'[lo] = Hmu(u, hi - lo, chunk[lo].p)
  BY DEF Joined
<1>2. lo \in Int /\ hi \in Int /\ lo < hi /\ base_addr <= lo /\ hi <= End
  BY DEF Joined
<1>3. /\ base_addr \in Int /\ End \in Int /\ End' = End
      /\ \A x \in DOMAIN chunk : x \in Int /\ x + chunk[x].size \in Int
  BY <1>1, ChunkOrder DEF End
<1>4. \A x \in DOMAIN chunk : /\ x < lo => x + chunk[x].size <= lo
                              /\ x < hi => x + chunk[x].size <= hi
  <2>1. \A x, y \in DOMAIN chunk : x < y => x + chunk[x].size <= y
    BY ChunkOrder
  <2>2. \A x \in DOMAIN chunk : x + chunk[x].size <= End
    BY ChunkOrder
  <2> QED BY <1>1, <2>1, <2>2 DEF Joined
<1>5. \A x : x \in DOMAIN chunk' <=> x \in DOMAIN chunk /\ (x <= lo \/ hi <= x)
  BY DEF Joined, Outside
<1>6. \A x \in DOMAIN chunk : x < lo \/ hi <= x =>
          chunk'[x].ut = chunk[x].ut /\ chunk'[x].size = chunk[x].size
  BY <1>2, <1>3 DEF Joined
<1>7. \A w : w \in FreeUnits' <=> w \in base_addr .. End - 1 /\ Unit(chunk', w)
  BY <1>1, <1>3 DEF FreeUnits, NextHmu
<1>8. \A w : w \in FreeUnits <=> w \in base_addr .. End - 1 /\ Unit(chunk, w)
  BY DEF FreeUnits, NextHmu
<1>9. chunk'[lo].ut = u /\ lo + chunk'[lo].size = hi
  BY <1>1, <1>2 DEF Hmu
<1>10. ASSUME NEW w \in Int, Unit(chunk', w)
       PROVE  (w \in lo .. hi - 1 /\ u = "FC") \/ (Unit(chunk, w) /\ w \notin lo .. hi - 1)
  <2>1. PICK x \in DOMAIN chunk' : chunk'[x].ut = "FC" /\ x <= w /\ w < x + chunk'[x].size
    BY <1>10
  <2>2. CASE x = lo
    BY <1>2, <1>9, <2>1, <2>2
  <2>3. CASE x # lo
    <3>1. /\ x \in DOMAIN chunk /\ (x < lo \/ hi <= x)
          /\ chunk'[x].ut = chunk[x].ut /\ chunk'[x].size = chunk[x].size
      BY <1>2, <1>3, <1>5, <1>6, <2>1, <2>3
    <3> QED BY <1>2, <1>3, <1>4, <2>1, <3>1
  <2> QED BY <2>2, <2>3
<1>11. ASSUME NEW w \in Int, Unit(chunk, w), w \notin lo .. hi - 1 PROVE Unit(chunk', w)
  <2>1. PICK x \in DOMAIN chunk : chunk[x].ut = "FC" /\ x <= w /\ w < x + chunk[x].size
    BY <1>11
  <2>2. x < lo \/ hi <= x
    BY <1>2, <1>3, <1>4, <1>11, <2>1
  <2>3. /\ x \in DOMAIN chunk' /\ chunk'[x].ut = chunk[x].ut /\ chunk'[x].size = chunk[x].size
    BY <1>2, <1>3, <1>5, <1>6, <2>2
  <2> QED BY <2>1, <2>3
<1>12. ASSUME NEW w \in lo .. hi - 1 PROVE w \in base_addr .. End - 1 /\ (u = "FC" => Unit(chunk', w))
  <2>1. lo \in DOMAIN chunk'
    BY <1>1, <1>2, <1>5
  <2> QED BY <1>2, <1>3, <1>9, <2>1
<1> HIDE DEF Unit
<1>13. CASE u = "VO"
  BY <1>2, <1>3, <1>7, <1>8, <1>10, <1>11, <1>13
<1>14. CASE u = "FC"
  BY <1>2, <1>3, <1>7, <1>8, <1>10, <1>11, <1>12, <1>14
<1> QED BY <1>13, <1>14

(* The free chunks and the chunks in use after that.                        *)
LEMMA JoinFree ==
    ASSUME Well, NEW lo, NEW hi, NEW u, NEW v, NEW last, Joined(lo, hi, u, v, last)
    PROVE  /\ \A s, x : FreeIn(chunk', s, x) <=>
                  \/ u = "FC" /\ x = lo /\ s = hi - lo
                  \/ FreeIn(chunk, s, x) /\ (x < lo \/ hi <= x)
           /\ \A x : x \in InUse' <=> \/ u = "VO" /\ x = lo
                                      \/ x \in InUse /\ (x < lo \/ hi <= x)
<1>1. /\ lo \in DOMAIN chunk /\ lo \in Int /\ hi \in Int /\ lo < hi
      /\ chunk'[lo].ut = u /\ chunk'[lo].size = hi - lo
  BY DEF Joined, Hmu
<1>2. \A x \in DOMAIN chunk : x \in Int
  BY <1>1, ChunkOrder
<1>3. \A x : x \in DOMAIN chunk' <=> x \in DOMAIN chunk /\ (x <= lo \/ hi <= x)
  BY DEF Joined, Outside
<1>4. \A x \in DOMAIN chunk : x < lo \/ hi <= x =>
          chunk'[x].ut = chunk[x].ut /\ chunk'[x].size = chunk[x].size
  BY <1>1, <1>2 DEF Joined
<1>5. \A x \in DOMAIN chunk : x <= lo <=> x < lo \/ x = lo
  BY <1>1, <1>2
<1>6. ~ (hi <= lo) /\ ~ (lo < lo)
  BY <1>1
<1> QED BY <1>1, <1>3, <1>4, <1>5, <1>6 DEF FreeIn, InUse

(* alloc_hmu takes a whole chunk.                                           *)
LEMMA AllocWhole ==
    ASSUME HeapInv, NEW a \in DOMAIN chunk, NEW sz \in Sizes, NEW e \in Int, e = a + sz,
           chunk[a].ut = "FC", chunk[a].size = sz, base_addr' = base_addr,
           chunk' = Mark(Set(chunk, a, Hmu("VO", sz, chunk[a].p)), e, Yes),
           footer' = Write(footer, a, e, 0),
           kfc_normal_list' = UnlinkList(kfc_normal_list, sz, a),
           kfc_tree' = UnlinkTree(kfc_tree, sz, a),
           total_free_size' = total_free_size - sz
    PROVE  /\ Well' /\ Listed(kfc_normal_list', kfc_tree', FreeBySize')
           /\ total_free_size' = Cardinality(FreeUnits') /\ InUse \subseteq InUse'
<1>1. Well /\ total_free_size = Cardinality(FreeUnits) /\ e = NextHmu(a)
  BY DEF HeapInv, NextHmu
<1>2. /\ a \in Int /\ base_addr \in Int /\ End \in Int /\ a < e /\ base_addr <= a /\ e <= End
      /\ \A x \in DOMAIN chunk : x \in Int /\ (a < x => e <= x)
  BY <1>1, ChunkOrder
<1>3. sz \in Int /\ sz \in 1 .. HeapSize /\ e - a = sz
  BY <1>2, HeapAssumption DEF Sizes, Smallest
<1>4. e = End \/ e \in DOMAIN chunk
  BY <1>1 DEF Well, Tiled
<1>5. Kept(a, e) = chunk
  <2>1. Outside(a, e) = DOMAIN chunk
    BY <1>2 DEF Outside
  <2>2. chunk = [x \in DOMAIN chunk |-> chunk[x]]
    BY <1>1 DEF Well, Tiled
  <2> QED BY <2>1, <2>2 DEF Kept
<1>6. Joins(a, e, "VO", Yes, 0)
  BY <1>3, <1>4, <1>5, ZenonT(30) DEF Joins, Yes
<1>7. Joined(a, e, "VO", Yes, 0)
  BY <1>1, <1>6, JoinFacts
<1>8. Well'
  BY <1>1, <1>7, JoinWell
<1>9. /\ FreeUnits' = FreeUnits \ (a .. e - 1)
      /\ \A s, x : FreeIn(chunk', s, x) <=> FreeIn(chunk, s, x) /\ (x < a \/ e <= x)
      /\ \A x : x \in InUse' <=> x = a \/ (x \in InUse /\ (x < a \/ e <= x))
  BY <1>1, <1>7, JoinUnits, JoinFree, ZenonT(30)
<1>10. \A x \in DOMAIN chunk : (x < a \/ e <= x) <=> x # a
  BY <1>2
<1>11. \A s, x : FreeIn(chunk', s, x) <=> FreeIn(chunk, s, x) /\ x # a
  BY <1>9, <1>10 DEF FreeIn
<1>12. InUse \subseteq InUse'
  BY <1>9, <1>10 DEF InUse
<1>13. Listed(kfc_normal_list', kfc_tree', FreeBySize')
  <2>1. \A s \in 1 .. HeapSize : \A x : x \in FreeBySize[s] <=> FreeIn(chunk, s, x)
    BY <1>1, FreeChunk DEF FreeIn
  <2>2. a \in FreeBySize[sz] /\ Listed(kfc_normal_list, kfc_tree, FreeBySize)
    BY <1>3, <2>1 DEF FreeIn, HeapInv
  <2>3. Listed(kfc_normal_list', kfc_tree', Less(FreeBySize, a))
    BY <1>3, <2>2, LessListed
  <2>4. /\ DOMAIN Less(FreeBySize, a) = 1 .. HeapSize
        /\ \A s \in 1 .. HeapSize : \A x : x \in Less(FreeBySize, a)[s] <=> FreeIn(chunk', s, x)
    BY <1>11, <2>1 DEF Less
  <2> QED BY <2>3, <2>4, FreeBySizeAfter, ZenonT(30) DEF FreeIn
<1>14. Apart(FreeUnits, FreeUnits', a, e)
  <2>1. a .. e - 1 \subseteq FreeUnits
    BY <1>1, <1>2 DEF FreeUnits
  <2> QED BY <1>2, <1>9, <2>1 DEF Apart
<1>15. Fewer(FreeUnits, FreeUnits', e - a)
  BY <1>1, <1>14, UnitsFinite, UnitsLess
<1> QED BY <1>1, <1>3, <1>8, <1>12, <1>13, <1>15 DEF Fewer

(* alloc_hmu keeps everything.                                              *)
LEMMA AllocKeeps ==
    ASSUME HeapInv, NEW n \in Sizes, AllocHmu(n), base_addr' = base_addr
    PROVE  /\ Well' /\ Listed(kfc_normal_list', kfc_tree', FreeBySize')
           /\ total_free_size' = Cardinality(FreeUnits') /\ InUse \subseteq InUse'
           /\ is_heap_corrupted' = FALSE
<1>1. PICK a \in DOMAIN chunk, sz \in Sizes :
              /\ chunk[a].ut = "FC" /\ chunk[a].size = sz /\ n <= sz
              /\ UNCHANGED is_heap_corrupted
              /\ \/ /\ n + Smallest <= sz
                    /\ chunk' = Set(Set(chunk, a, Hmu("VO", n, chunk[a].p)),
                                    a + n, Hmu("FC", sz - n, Yes))
                    /\ footer' = Write(Write(footer, a, a + n, 0), a + n, a + n + (sz - n), sz - n)
                    /\ kfc_normal_list' = AddList(UnlinkList(kfc_normal_list, sz, a), sz - n, a + n)
                    /\ kfc_tree' = AddTree(UnlinkTree(kfc_tree, sz, a), sz - n, a + n)
                    /\ total_free_size' = total_free_size - n
                 \/ /\ ~ (n + Smallest <= sz)
                    /\ chunk' = Mark(Set(chunk, a, Hmu("VO", sz, chunk[a].p)), a + sz, Yes)
                    /\ footer' = Write(footer, a, a + sz, 0)
                    /\ kfc_normal_list' = UnlinkList(kfc_normal_list, sz, a)
                    /\ kfc_tree' = UnlinkTree(kfc_tree, sz, a)
                    /\ total_free_size' = total_free_size - sz
  BY AllocParts
<1>2. a \in Int /\ NextHmu(a) = a + sz
  BY <1>1, ChunkOrder DEF HeapInv
<1>3. n \in Int /\ sz \in Int
  BY HeapAssumption DEF Sizes, Smallest
<1>4. CASE n + Smallest <= sz
  <2>1. PICK m : m = a + n
    OBVIOUS
  <2>2. PICK rest : rest = sz - n
    OBVIOUS
  <2>3. PICK e : e = m + rest
    OBVIOUS
  <2>4. rest \in Sizes /\ m \in Int /\ e \in Int /\ e = a + sz
    BY <1>2, <1>3, <1>4, <2>1, <2>2, <2>3, HeapAssumption DEF Sizes, Smallest
  <2>5. TakesFront(a, sz, n, rest, m, e)
    BY <1>1, <1>2, <1>4, <2>1, <2>2, <2>3, <2>4 DEF TakesFront
  <2>6. /\ kfc_normal_list' = AddList(UnlinkList(kfc_normal_list, sz, a), rest, m)
        /\ kfc_tree' = AddTree(UnlinkTree(kfc_tree, sz, a), rest, m)
        /\ total_free_size' = total_free_size - n
    BY <1>1, <1>4, <2>1, <2>2
  <2> QED BY <1>1, <2>5, <2>6, AllocSplit, ZenonT(30) DEF HeapInv
<1>5. CASE ~ (n + Smallest <= sz)
  <2>1. PICK e : e = a + sz
    OBVIOUS
  <2>2. e \in Int
    BY <1>2, <1>3, <2>1
  <2>3. /\ chunk' = Mark(Set(chunk, a, Hmu("VO", sz, chunk[a].p)), e, Yes)
        /\ footer' = Write(footer, a, e, 0)
        /\ kfc_normal_list' = UnlinkList(kfc_normal_list, sz, a)
        /\ kfc_tree' = UnlinkTree(kfc_tree, sz, a)
        /\ total_free_size' = total_free_size - sz
    BY <1>1, <1>5, <2>1
  <2> QED BY <1>1, <2>1, <2>2, <2>3, AllocWhole, ZenonT(30) DEF HeapInv
<1> QED BY <1>4, <1>5, ZenonT(30)

----------------------------------------------------------------------------
(* gc_free_vo finds the free chunks before and behind the chunk at a.       *)
PrevOf(a) == a - footer[a]

JoinPrev(a) == ~ chunk[a].p /\ InHeap(PrevOf(a)) /\ chunk[PrevOf(a)].ut = "FC"

JoinNext(a) == InHeap(NextHmu(a)) /\ chunk[NextHmu(a)].ut = "FC"

First(a) == IF JoinPrev(a) THEN PrevOf(a) ELSE a

Behind(a) == IF JoinNext(a) THEN NextHmu(a) + chunk[NextHmu(a)].size ELSE NextHmu(a)

(* The previous chunk gc_free_vo computes from the footer is the real one.  *)
LEMMA PrevFacts ==
    ASSUME Well, NEW a \in DOMAIN chunk
    PROVE  /\ JoinPrev(a) => /\ PrevOf(a) \in DOMAIN chunk /\ chunk[PrevOf(a)].ut = "FC"
                             /\ NextHmu(PrevOf(a)) = a
           /\ ~ JoinPrev(a) => \A x \in DOMAIN chunk : NextHmu(x) = a => chunk[x].ut = "VO"
<1>1. \A x \in DOMAIN chunk : x \in Int /\ chunk[x].size \in Int /\ NextHmu(x) = x + chunk[x].size
                              /\ chunk[x].ut \in {"VO", "FC"} /\ InHeap(x)
  BY ChunkFacts, HeapAssumption DEF Well, NextHmu, Sizes, Smallest
<1>2. chunk[a].p \in BOOLEAN
  BY ChunkFacts DEF Well
<1>3. ASSUME NEW x \in DOMAIN chunk, NextHmu(x) = a, chunk[x].ut = "FC"
      PROVE  x = PrevOf(a) /\ ~ chunk[a].p
  <2>1. chunk[a].p = FALSE /\ footer[a] = chunk[x].size
    BY <1>3 DEF Well, Tags
  <2> QED BY <1>1, <1>3, <2>1 DEF PrevOf
<1>4. ASSUME ~ chunk[a].p PROVE \E x \in DOMAIN chunk : NextHmu(x) = a /\ chunk[x].ut = "FC"
  <2>1. a # base_addr
    BY <1>4 DEF Well, Tiled
  <2>2. PICK x \in DOMAIN chunk : NextHmu(x) = a
    BY <2>1, Before DEF Well
  <2>3. chunk[x].ut # "VO"
    BY <1>4, <2>2 DEF Well, Tags
  <2> QED BY <1>1, <2>2, <2>3
<1>5. CASE ~ chunk[a].p
  <2>1. PICK x \in DOMAIN chunk : NextHmu(x) = a /\ chunk[x].ut = "FC"
    BY <1>4, <1>5
  <2>2. x = PrevOf(a)
    BY <1>3, <2>1
  <2>3. JoinPrev(a)
    BY <1>1, <1>5, <2>1, <2>2 DEF JoinPrev
  <2> QED BY <2>1, <2>2, <2>3
<1>6. CASE chunk[a].p
  <2>1. ~ JoinPrev(a)
    BY <1>6 DEF JoinPrev
  <2>2. ASSUME NEW x \in DOMAIN chunk, NextHmu(x) = a PROVE chunk[x].ut = "VO"
    BY <1>1, <1>3, <1>6, <2>2
  <2> QED BY <2>1, <2>2
<1> QED BY <1>2, <1>5, <1>6

(* The row of chunks that becomes one free chunk.                           *)
Row(a, lo, hi) ==
    /\ lo = First(a) /\ hi = Behind(a) /\ lo \in DOMAIN chunk /\ lo \in Int /\ hi \in Int
    /\ hi = End \/ hi \in DOMAIN chunk
    /\ lo <= a /\ NextHmu(a) <= hi /\ hi - lo \in Sizes
    /\ hi \in DOMAIN chunk => chunk[hi].ut = "VO"
    /\ \A x \in DOMAIN chunk : NextHmu(x) = lo => chunk[x].ut = "VO"
    /\ \A x \in DOMAIN chunk :
          lo < x /\ x < hi <=> (JoinPrev(a) /\ x = a) \/ (JoinNext(a) /\ x = NextHmu(a))
    /\ JoinPrev(a) => lo < a
    /\ JoinNext(a) => NextHmu(a) \in DOMAIN chunk

(* The freed chunk and its free neighbours are a row of chunks.             *)
LEMMA RowFacts ==
    ASSUME Well, NEW a \in DOMAIN chunk, chunk[a].ut = "VO"
    PROVE  Row(a, First(a), Behind(a))
<1>1. PICK b : b = NextHmu(a)
  OBVIOUS
<1>2. PICK lo : lo = First(a)
  OBVIOUS
<1>3. PICK hi : hi = Behind(a)
  OBVIOUS
<1>4. \A x \in DOMAIN chunk : /\ x \in Int /\ NextHmu(x) \in Int /\ x < NextHmu(x)
                              /\ base_addr <= x /\ NextHmu(x) <= End /\ InHeap(x)
                              /\ chunk[x].ut \in {"VO", "FC"}
  BY ChunkFacts DEF Well
<1>5. \A x, y \in DOMAIN chunk : x < y => NextHmu(x) <= y
  BY DEF Well, Tiled
<1>6. \A x \in DOMAIN chunk : NextHmu(x) = End \/ NextHmu(x) \in DOMAIN chunk
  BY DEF Well, Tiled
<1>7. base_addr \in Int /\ End \in Int /\ End = base_addr + HeapSize
  BY HeapAssumption DEF Well, Tiled, End
<1>8. JoinNext(a) => b \in DOMAIN chunk /\ chunk[b].ut = "FC" /\ hi = NextHmu(b)
  BY <1>1, <1>3, <1>6, <1>7 DEF JoinNext, Behind, InHeap, NextHmu
<1>9. ~ JoinNext(a) => hi = b /\ (b \in DOMAIN chunk => chunk[b].ut = "VO")
  BY <1>1, <1>3, <1>4 DEF JoinNext, Behind
<1>10. JoinPrev(a) => lo \in DOMAIN chunk /\ chunk[lo].ut = "FC" /\ NextHmu(lo) = a
  BY <1>2, PrevFacts DEF First
<1>11. ~ JoinPrev(a) => lo = a /\ \A x \in DOMAIN chunk : NextHmu(x) = a => chunk[x].ut = "VO"
  BY <1>2, PrevFacts DEF First
<1>12. lo \in DOMAIN chunk /\ lo \in Int /\ lo <= a /\ (JoinPrev(a) => lo < a)
  BY <1>4, <1>10, <1>11
<1>13. hi \in Int /\ b <= hi /\ hi <= End
  BY <1>1, <1>4, <1>8, <1>9
<1>14. hi = End \/ hi \in DOMAIN chunk
  BY <1>1, <1>6, <1>8, <1>9
<1>15. hi - lo \in Sizes
  <2>1. b - a \in Sizes /\ base_addr <= lo /\ a \in Int /\ b \in Int
    <3>1. b = a + chunk[a].size /\ chunk[a].size \in Sizes
      BY <1>1, ChunkFacts DEF Well, NextHmu
    <3> QED BY <1>1, <1>4, <1>12, <3>1, HeapAssumption DEF Sizes, Smallest
  <2> QED BY <1>7, <1>12, <1>13, <2>1, HeapAssumption DEF Sizes, Smallest
<1>16. hi \in DOMAIN chunk => chunk[hi].ut = "VO"
  BY <1>8, <1>9 DEF Well, Tags
<1>17. \A x \in DOMAIN chunk : NextHmu(x) = lo => chunk[x].ut = "VO"
  <2>1. CASE JoinPrev(a)
    BY <1>4, <1>10, <2>1 DEF Well, Tags
  <2> QED BY <1>11, <2>1
<1>18. ASSUME NEW x \in DOMAIN chunk, lo < x, x < hi
       PROVE  (JoinPrev(a) /\ x = a) \/ (JoinNext(a) /\ x = b)
  <2>1. a <= x
    BY <1>4, <1>5, <1>10, <1>11, <1>12, <1>18
  <2>2. x # a => JoinNext(a) /\ x = b
    <3>1. ASSUME x # a PROVE b <= x
      BY <1>1, <1>4, <1>5, <2>1, <3>1
    <3>2. ASSUME x # a PROVE JoinNext(a)
      BY <1>1, <1>4, <1>9, <1>18, <3>1, <3>2
    <3>3. ASSUME x # a, x # b PROVE FALSE
      <4>1. b \in DOMAIN chunk /\ hi = NextHmu(b) /\ b < x
        BY <1>1, <1>4, <1>8, <3>1, <3>2, <3>3
      <4> QED BY <1>4, <1>5, <1>13, <1>18, <4>1
    <3> QED BY <3>2, <3>3
  <2> QED BY <1>11, <1>12, <1>18, <2>2
<1>19. JoinPrev(a) => lo < a /\ a < hi
  BY <1>1, <1>4, <1>12, <1>13
<1>20. JoinNext(a) => lo < b /\ b < hi
  BY <1>1, <1>4, <1>8, <1>12
<1>21. \A x \in DOMAIN chunk :
          lo < x /\ x < hi <=> (JoinPrev(a) /\ x = a) \/ (JoinNext(a) /\ x = b)
  BY <1>18, <1>19, <1>20
<1>22. Row(a, lo, hi)
  BY <1>1, <1>2, <1>3, <1>8, <1>12, <1>13, <1>14, <1>15, <1>16, <1>17, <1>21 DEF Row
<1> QED BY <1>2, <1>3, <1>22

(* The lists after the chunks of the row were taken out of them.            *)
PrevList(a) ==
    IF JoinPrev(a) THEN UnlinkList(kfc_normal_list, chunk[PrevOf(a)].size, PrevOf(a))
    ELSE kfc_normal_list

PrevTree(a) ==
    IF JoinPrev(a) THEN UnlinkTree(kfc_tree, chunk[PrevOf(a)].size, PrevOf(a)) ELSE kfc_tree

BothList(a) ==
    IF JoinNext(a) THEN UnlinkList(PrevList(a), chunk[NextHmu(a)].size, NextHmu(a))
    ELSE PrevList(a)

BothTree(a) ==
    IF JoinNext(a) THEN UnlinkTree(PrevTree(a), chunk[NextHmu(a)].size, NextHmu(a))
    ELSE PrevTree(a)

(* The free chunks that are then still listed.                              *)
PrevLeft(a) == IF JoinPrev(a) THEN Less(FreeBySize, PrevOf(a)) ELSE FreeBySize

BothLeft(a) == IF JoinNext(a) THEN Less(PrevLeft(a), NextHmu(a)) ELSE PrevLeft(a)

(* Membership in a list that lost a chunk.                                  *)
LEMMA LessIn ==
    ASSUME NEW G, NEW a, NEW s \in 1 .. HeapSize, NEW x
    PROVE  x \in Less(G, a)[s] <=> x \in G[s] /\ x # a
BY DEF Less

(* The lists once the free neighbours of a chunk have left them.            *)
LEMMA LeftListed ==
    ASSUME HeapInv, NEW a \in DOMAIN chunk, chunk[a].ut = "VO"
    PROVE  /\ Listed(PrevList(a), PrevTree(a), PrevLeft(a))
           /\ Listed(BothList(a), BothTree(a), BothLeft(a))
           /\ \A s \in 1 .. HeapSize : \A x : x \in PrevLeft(a)[s] => FreeIn(chunk, s, x)
           /\ \A s \in 1 .. HeapSize : \A x : x \in BothLeft(a)[s] <=>
                  /\ FreeIn(chunk, s, x)
                  /\ ~ (JoinPrev(a) /\ x = First(a)) /\ ~ (JoinNext(a) /\ x = NextHmu(a))
<1>1. Well /\ Listed(kfc_normal_list, kfc_tree, FreeBySize)
  BY DEF HeapInv
<1>2. PICK p : p = PrevOf(a)
  OBVIOUS
<1>3. PICK b : b = NextHmu(a)
  OBVIOUS
<1>4. \A s \in 1 .. HeapSize : \A x : x \in FreeBySize[s] <=> FreeIn(chunk, s, x)
  BY <1>1, FreeChunk DEF FreeIn
<1>5. \A x \in DOMAIN chunk : chunk[x].size \in 1 .. HeapSize
  BY <1>1, ChunkFacts, HeapAssumption DEF Well, Sizes, Smallest
<1>6. JoinPrev(a) => /\ FreeIn(chunk, chunk[p].size, p) /\ chunk[p].size \in 1 .. HeapSize
                     /\ p = First(a) /\ NextHmu(p) = a
  BY <1>1, <1>2, <1>5, PrevFacts DEF FreeIn, First
<1>7. JoinNext(a) => FreeIn(chunk, chunk[b].size, b) /\ chunk[b].size \in 1 .. HeapSize /\ b # p
  <2>1. JoinNext(a) => b \in DOMAIN chunk /\ chunk[b].ut = "FC"
    BY <1>1, <1>3, RowFacts DEF Row, JoinNext
  <2>2. JoinNext(a) => b # p
    <3>1. a \in Int /\ b \in Int /\ a < b
      BY <1>1, <1>3, ChunkOrder
    <3>2. footer[a] \in Nat
      <4>1. a \in base_addr .. End
        BY <1>1, <3>1, ChunkOrder
      <4> QED BY <1>1, <4>1 DEF Well, Tiled
    <3> QED BY <1>2, <3>1, <3>2 DEF PrevOf
  <2> QED BY <1>5, <2>1, <2>2 DEF FreeIn
<1>8. Listed(PrevList(a), PrevTree(a), PrevLeft(a))
  <2>1. CASE JoinPrev(a)
    <3>1. p \in FreeBySize[chunk[p].size] /\ chunk[p].size \in 1 .. HeapSize
      BY <1>4, <1>6, <2>1
    <3>2. Listed(UnlinkList(kfc_normal_list, chunk[p].size, p),
                 UnlinkTree(kfc_tree, chunk[p].size, p), Less(FreeBySize, p))
      BY <1>1, <3>1, LessListed
    <3> QED BY <1>2, <2>1, <3>2 DEF PrevList, PrevTree, PrevLeft
  <2>2. CASE ~ JoinPrev(a)
    BY <1>1, <2>2 DEF PrevList, PrevTree, PrevLeft
  <2> QED BY <2>1, <2>2
<1>9. \A s \in 1 .. HeapSize : \A x : x \in PrevLeft(a)[s] <=>
          FreeIn(chunk, s, x) /\ ~ (JoinPrev(a) /\ x = p)
  BY <1>2, <1>4, LessIn DEF PrevLeft
<1>10. Listed(BothList(a), BothTree(a), BothLeft(a))
  <2>1. CASE JoinNext(a)
    <3>1. b \in PrevLeft(a)[chunk[b].size] /\ chunk[b].size \in 1 .. HeapSize
      BY <1>7, <1>9, <2>1
    <3>2. Listed(UnlinkList(PrevList(a), chunk[b].size, b),
                 UnlinkTree(PrevTree(a), chunk[b].size, b), Less(PrevLeft(a), b))
      BY <1>8, <3>1, LessListed
    <3> QED BY <1>3, <2>1, <3>2 DEF BothList, BothTree, BothLeft
  <2>2. CASE ~ JoinNext(a)
    BY <1>8, <2>2 DEF BothList, BothTree, BothLeft
  <2> QED BY <2>1, <2>2
<1>11. \A s \in 1 .. HeapSize : \A x : x \in BothLeft(a)[s] <=>
          /\ FreeIn(chunk, s, x)
          /\ ~ (JoinPrev(a) /\ x = p) /\ ~ (JoinNext(a) /\ x = b)
  BY <1>3, <1>9, LessIn DEF BothLeft
<1> QED BY <1>3, <1>6, <1>8, <1>9, <1>10, <1>11

(* unlink_hmu only meets chunks of the heap.                                *)
LEMMA UnlinkWorks ==
    ASSUME Well, NEW normal, NEW tree, NEW G, NEW f, Listed(normal, tree, G),
           \A s \in 1 .. HeapSize : \A x : x \in G[s] => FreeIn(chunk, s, x),
           NEW b \in DOMAIN chunk
    PROVE  ~ UnlinkFails(State(chunk, f, normal, tree), b)
<1> USE HeapAssumption
<1> DEFINE s == chunk[b].size
           l == normal[s]
<1>1. s \in Int /\ 1 <= s /\ s <= HeapSize
  BY ChunkFacts DEF Well, Sizes, Smallest
<1>2. CASE ~ IsNormal(s)
  BY <1>2, ZenonT(30) DEF UnlinkFails, State
<1>3. CASE IsNormal(s)
  <2>1. s \in 1 .. MaxNormal - 1 /\ s \in 1 .. HeapSize
    BY <1>1, <1>3 DEF IsNormal
  <2>2. l \in Seq(Int) /\ Range(l) = G[s]
    BY <2>1 DEF Listed
  <2>3. \A i \in 1 .. Len(l) : l[i] \in G[s]
    BY <2>2 DEF Range
  <2>4. \A i \in 1 .. Len(l) : l[i] \in DOMAIN chunk
    BY <2>1, <2>3 DEF FreeIn
  <2>5. \A i \in 1 .. Len(l) : InHeap(l[i])
    BY <2>4, ChunkFacts, ZenonT(30) DEF Well
  <2>6. UnlinkFails(State(chunk, f, normal, tree), b) => \E i \in 1 .. Len(l) : ~ InHeap(l[i])
    BY ZenonT(30) DEF UnlinkFails, State
  <2> QED BY <2>5, <2>6
<1> QED BY <1>2, <1>3

(* The P bit of the chunk at x is cleared.                                  *)
Unmark(h, x) == IF InHeap(x) THEN [h EXCEPT !.chunk[x].p = FALSE] ELSE h

(* Clearing the bit, on the structures.                                     *)
LEMMA UnmarkState ==
    ASSUME NEW c, NEW f, NEW normal, NEW tree, NEW x
    PROVE  Unmark(State(c, f, normal, tree), x) = State(Mark(c, x, No), f, normal, tree)
BY ZenonT(30) DEF Unmark, Mark, State, No

(* The structures are those of h.                                           *)
Built(h, c, f, normal, tree) == h = State(c, f, normal, tree)

(* The last part of gc_free_vo: the joined chunk is entered as a free one,  *)
(* and the chunk behind it is told.                                         *)
LEMMA FreeBuilds ==
    ASSUME NEW h, NEW c, NEW f, NEW normal, NEW tree, Built(h, c, f, normal, tree),
           NEW lo, NEW total, NEW p
    PROVE  Built(Unmark(AddFc(h, lo, total, p), lo + total),
                 Mark(Set(c, lo, Hmu("FC", total, p)), lo + total, No),
                 Write(f, lo, lo + total, total), AddList(normal, total, lo),
                 AddTree(tree, total, lo))
<1>1. AddFc(h, lo, total, p)
         = State(Set(c, lo, Hmu("FC", total, p)), Write(f, lo, lo + total, total),
                 AddList(normal, total, lo), AddTree(tree, total, lo))
  BY AddFcState DEF Built
<1> QED BY <1>1, UnmarkState DEF Built

(* What gc_free_vo does to each of the structures.                          *)
LEMMA FreeParts ==
    ASSUME HeapInv, NEW a \in DOMAIN chunk, chunk[a].ut = "VO", FreeVo(a),
           NEW lo, lo = First(a), NEW hi, hi = Behind(a)
    PROVE  /\ is_heap_corrupted' = FALSE
           /\ total_free_size' = total_free_size + chunk[a].size
           /\ chunk' = Mark(Set(Kept(lo, hi), lo, Hmu("FC", hi - lo, chunk[lo].p)), hi, No)
           /\ footer' = Write(footer, lo, hi, hi - lo)
           /\ kfc_normal_list' = AddList(BothList(a), hi - lo, lo)
           /\ kfc_tree' = AddTree(BothTree(a), hi - lo, lo)
<1> DEFINE size == chunk[a].size
           p == PrevOf(a)
           b == NextHmu(a)
           jp == JoinPrev(a)
           jn == JoinNext(a)
           total == (IF jp THEN chunk[p].size ELSE 0) + size + (IF jn THEN chunk[b].size ELSE 0)
           g1 == IF jp THEN Unlink(Heap, p) ELSE Heap
           g2 == IF jn THEN Drop(Unlink(g1, b), b) ELSE g1
           g3 == AddFc(IF jp THEN Drop(g2, a) ELSE g2, lo, total, chunk[lo].p)
           g4 == IF InHeap(lo + total) THEN [g3 EXCEPT !.chunk[lo + total].p = FALSE] ELSE g3
           prevFails == jp /\ UnlinkFails(Heap, p)
           nextFails == jn /\ UnlinkFails(g1, b)
<1>1. /\ total_free_size' = total_free_size + size
      /\ Become(IF prevFails THEN Heap ELSE IF nextFails THEN g1 ELSE g4)
      /\ is_heap_corrupted' = (prevFails \/ nextFails)
  BY DEF FreeVo, First, PrevOf, NextHmu, JoinPrev, JoinNext
<1>2. /\ Well /\ Row(a, lo, hi) /\ a \in Int /\ b \in Int /\ hi \in Int /\ size \in Int
      /\ b = a + size
  <2>1. Well
    BY DEF HeapInv
  <2>2. a \in Int /\ b \in Int /\ b = a + size /\ chunk[a].size \in Sizes
    BY <2>1, ChunkOrder, ChunkFacts DEF Well
  <2>3. Row(a, lo, hi)
    BY <2>1, RowFacts
  <2> QED BY <2>1, <2>2, <2>3, HeapAssumption DEF Row, Sizes, Smallest
<1>3. jp => /\ p \in DOMAIN chunk /\ p = lo /\ p \in Int /\ chunk[p].size \in Int
            /\ a = p + chunk[p].size
  <2>1. jp => p \in DOMAIN chunk /\ p = lo /\ NextHmu(p) = a
    BY <1>2, PrevFacts DEF First
  <2>2. p \in DOMAIN chunk => p \in Int /\ chunk[p].size \in Sizes
    BY <1>2, ChunkFacts DEF Well
  <2> QED BY <2>1, <2>2, HeapAssumption DEF NextHmu, Sizes, Smallest
<1>4. jn => b \in DOMAIN chunk /\ hi = b + chunk[b].size /\ chunk[b].size \in Int
  <2>1. jn => b \in DOMAIN chunk /\ hi = b + chunk[b].size
    BY <1>2 DEF Row, Behind
  <2>2. b \in DOMAIN chunk => chunk[b].size \in Sizes
    BY <1>2, ChunkFacts DEF Well
  <2> QED BY <2>1, <2>2, HeapAssumption DEF Sizes, Smallest
<1>5. total = hi - lo /\ lo + total = hi
  <2>1. ~ jp => lo = a
    BY DEF First
  <2>2. ~ jn => hi = b
    BY DEF Behind
  <2> HIDE DEF jp, jn, p, b, size
  <2> QED BY <1>2, <1>3, <1>4, <2>1, <2>2
<1> HIDE DEF total
<1>6. Heap = State(chunk, footer, kfc_normal_list, kfc_tree)
  BY DEF Heap, State
<1>7. g1 = State(chunk, footer, PrevList(a), PrevTree(a))
  BY <1>6, UnlinkState DEF PrevList, PrevTree
<1> HIDE DEF g1
<1> DEFINE C2 == IF jn THEN Cut(chunk, b) ELSE chunk
           C3 == IF jp THEN Cut(C2, a) ELSE C2
<1>8. g2 = State(C2, footer, BothList(a), BothTree(a))
  <2>1. Unlink(g1, b) = State(chunk, footer, UnlinkList(PrevList(a), chunk[b].size, b),
                              UnlinkTree(PrevTree(a), chunk[b].size, b))
    BY <1>7, UnlinkState
  <2>2. CASE jn
    BY <2>1, <2>2, DropState DEF BothList, BothTree
  <2>3. CASE ~ jn
    BY <1>7, <2>3 DEF BothList, BothTree
  <2> QED BY <2>2, <2>3
<1> HIDE DEF g2
<1>9. (IF jp THEN Drop(g2, a) ELSE g2) = State(C3, footer, BothList(a), BothTree(a))
  <2> HIDE DEF C2
  <2> QED BY <1>8, DropState
<1>10. C3 = Kept(lo, hi)
  <2>1. \A x \in DOMAIN chunk : lo < x /\ x < hi <=> (jp /\ x = a) \/ (jn /\ x = b)
    BY <1>2 DEF Row
  <2>2. \A x \in DOMAIN chunk : x \in Int
    BY <1>2, ChunkOrder
  <2>3. \A x : x \in Outside(lo, hi) <=> x \in DOMAIN chunk /\ ~ (jp /\ x = a) /\ ~ (jn /\ x = b)
    <3>1. lo \in Int /\ hi \in Int
      BY <1>2 DEF Row
    <3>2. \A x \in DOMAIN chunk : x <= lo \/ hi <= x <=> ~ (lo < x /\ x < hi)
      BY <2>2, <3>1
    <3> HIDE DEF jp, jn, b
    <3> QED BY <2>1, <3>2 DEF Outside
  <2>4. chunk = [x \in DOMAIN chunk |-> chunk[x]]
    BY <1>2 DEF Well, Tiled
  <2> HIDE DEF jp, jn, b
  <2>5. C2 = [x \in {y \in DOMAIN chunk : ~ (jn /\ y = b)} |-> chunk[x]]
    BY <2>4 DEF Cut
  <2> HIDE DEF C2
  <2>6. C3 = [x \in {y \in DOMAIN chunk : ~ (jp /\ y = a) /\ ~ (jn /\ y = b)} |-> chunk[x]]
    BY <2>5 DEF Cut
  <2>7. {y \in DOMAIN chunk : ~ (jp /\ y = a) /\ ~ (jn /\ y = b)} = Outside(lo, hi)
    BY <2>3
  <2> QED BY <2>6, <2>7 DEF Kept
<1> DEFINE c == Set(Kept(lo, hi), lo, Hmu("FC", total, chunk[lo].p))
           nl == AddList(BothList(a), total, lo)
           tr == AddTree(BothTree(a), total, lo)
<1> HIDE DEF C3
<1>11. PICK h : h = IF jp THEN Drop(g2, a) ELSE g2
  OBVIOUS
<1>12. g4 = State(Mark(c, lo + total, No), Write(footer, lo, lo + total, total), nl, tr)
  <2>1. g4 = Unmark(AddFc(h, lo, total, chunk[lo].p), lo + total)
    BY <1>11, ZenonT(30) DEF Unmark
  <2>2. Built(h, Kept(lo, hi), footer, BothList(a), BothTree(a))
    BY <1>9, <1>10, <1>11 DEF Built
  <2> HIDE DEF size, p, b, jp, jn, g3, g4, prevFails, nextFails
  <2>3. Built(Unmark(AddFc(h, lo, total, chunk[lo].p), lo + total),
              Mark(c, lo + total, No), Write(footer, lo, lo + total, total), nl, tr)
    BY <2>2, FreeBuilds, ZenonT(30)
  <2> HIDE DEF c, nl, tr
  <2> QED BY <2>1, <2>3, ZenonT(30) DEF Built
<1> HIDE DEF g3, g4
<1>13. ~ prevFails /\ ~ nextFails
  <2>1. /\ Listed(PrevList(a), PrevTree(a), PrevLeft(a))
        /\ \A s \in 1 .. HeapSize : \A x : x \in PrevLeft(a)[s] => FreeIn(chunk, s, x)
    BY LeftListed
  <2>2. /\ Listed(kfc_normal_list, kfc_tree, FreeBySize)
        /\ \A s \in 1 .. HeapSize : \A x : x \in FreeBySize[s] => FreeIn(chunk, s, x)
    BY <1>2, FreeChunk DEF FreeIn, HeapInv
  <2> HIDE DEF p, b, jp, jn
  <2>3. jp => ~ UnlinkFails(Heap, p)
    BY <1>2, <1>3, <1>6, <2>2, UnlinkWorks
  <2>4. jn => ~ UnlinkFails(g1, b)
    BY <1>2, <1>4, <1>7, <2>1, UnlinkWorks
  <2> QED BY <2>3, <2>4
<1>14. Become(g4) /\ is_heap_corrupted' = FALSE
  BY <1>1, <1>13, ZenonT(30)
<1>15. /\ chunk' = Mark(c, lo + total, No) /\ footer' = Write(footer, lo, lo + total, total)
       /\ kfc_normal_list' = nl /\ kfc_tree' = tr
  <2> HIDE DEF c, nl, tr
  <2> QED BY <1>12, <1>14 DEF Become, State
<1> QED BY <1>1, <1>5, <1>14, <1>15

(* gc_free_vo keeps everything but the chunk.                               *)
LEMMA FreeKeeps ==
    ASSUME HeapInv, NEW a \in DOMAIN chunk, chunk[a].ut = "VO", FreeVo(a),
           base_addr' = base_addr
    PROVE  /\ Well' /\ Listed(kfc_normal_list', kfc_tree', FreeBySize')
           /\ total_free_size' = Cardinality(FreeUnits') /\ InUse \ {a} \subseteq InUse'
           /\ is_heap_corrupted' = FALSE
<1>1. PICK lo : lo = First(a)
  OBVIOUS
<1>2. PICK hi : hi = Behind(a)
  OBVIOUS
<1>3. /\ is_heap_corrupted' = FALSE
      /\ total_free_size' = total_free_size + chunk[a].size
      /\ chunk' = Mark(Set(Kept(lo, hi), lo, Hmu("FC", hi - lo, chunk[lo].p)), hi, No)
      /\ footer' = Write(footer, lo, hi, hi - lo)
      /\ kfc_normal_list' = AddList(BothList(a), hi - lo, lo)
      /\ kfc_tree' = AddTree(BothTree(a), hi - lo, lo)
  BY <1>1, <1>2, FreeParts, ZenonT(30)
<1>4. Well /\ total_free_size = Cardinality(FreeUnits)
  BY DEF HeapInv
<1>5. Row(a, lo, hi)
  BY <1>1, <1>2, <1>4, RowFacts
<1>6. PICK b : b = NextHmu(a)
  OBVIOUS
<1>7. /\ a \in Int /\ b \in Int /\ lo \in Int /\ hi \in Int /\ lo <= a /\ a < b /\ b <= hi
      /\ chunk[a].size = b - a /\ lo < hi
  <2>1. a \in Int /\ b \in Int /\ a < b /\ b = a + chunk[a].size /\ chunk[a].size \in Sizes
    BY <1>4, <1>6, ChunkOrder, ChunkFacts DEF Well
  <2>2. lo \in Int /\ hi \in Int /\ lo <= a /\ b <= hi
    BY <1>5, <1>6 DEF Row
  <2> QED BY <2>1, <2>2, HeapAssumption DEF Sizes, Smallest
<1>8. PICK n : n = hi - lo
  OBVIOUS
<1>9. n \in Sizes /\ n \in Nat /\ n \in 1 .. HeapSize
  BY <1>5, <1>8, HeapAssumption DEF Row, Sizes, Smallest
<1>10. Joins(lo, hi, "FC", No, n)
  <2>1. lo \in DOMAIN chunk /\ hi - lo \in Sizes
    BY <1>5 DEF Row
  <2>2. hi = End \/ hi \in DOMAIN chunk
    BY <1>5 DEF Row
  <2>3. No \in BOOLEAN
    BY DEF No
  <2> QED BY <1>3, <1>7, <1>8, <1>9, <2>1, <2>2, <2>3 DEF Joins
<1>11. Joined(lo, hi, "FC", No, n)
  BY <1>4, <1>10, JoinFacts
<1>12. Well'
  <2>1. hi \in DOMAIN chunk => chunk[hi].ut = "VO"
    BY <1>5 DEF Row
  <2>2. \A x \in DOMAIN chunk : NextHmu(x) = lo => chunk[x].ut = "VO"
    BY <1>5 DEF Row
  <2> QED BY <1>4, <1>8, <1>11, <2>1, <2>2, JoinWell
<1>13. /\ FreeUnits' = FreeUnits \cup (lo .. hi - 1)
       /\ \A s, x : FreeIn(chunk', s, x) <=>
              (x = lo /\ s = n) \/ (FreeIn(chunk, s, x) /\ (x < lo \/ hi <= x))
       /\ \A x : x \in InUse' <=> x \in InUse /\ (x < lo \/ hi <= x)
  BY <1>4, <1>8, <1>11, JoinUnits, JoinFree, ZenonT(30)
<1>14. \A x \in DOMAIN chunk : x \in Int
  BY <1>4, ChunkOrder
<1>15. \A x \in DOMAIN chunk :
          lo < x /\ x < hi <=> (JoinPrev(a) /\ x = a) \/ (JoinNext(a) /\ x = b)
  BY <1>5, <1>6 DEF Row
<1>16. JoinNext(a) => b \in DOMAIN chunk /\ chunk[b].ut = "FC"
  BY <1>5, <1>6 DEF Row, JoinNext
<1>17. JoinPrev(a) => lo \in DOMAIN chunk /\ chunk[lo].ut = "FC" /\ NextHmu(lo) = a
  BY <1>1, <1>4, PrevFacts DEF First
<1>18. ~ JoinPrev(a) => lo = a
  BY <1>1 DEF First
<1>19. ~ JoinNext(a) => hi = b
  BY <1>2, <1>6 DEF Behind
<1>20. InUse \ {a} \subseteq InUse'
  <2>1. ASSUME NEW x \in DOMAIN chunk, chunk[x].ut = "VO", x # a
        PROVE  x < lo \/ hi <= x
    <3>1. ~ (lo < x /\ x < hi)
      BY <1>15, <1>16, <2>1
    <3>2. x # lo
      BY <1>17, <1>18, <2>1
    <3> QED BY <1>7, <1>14, <3>1, <3>2
  <2> QED BY <1>13, <2>1 DEF InUse
<1>21. Listed(kfc_normal_list', kfc_tree', FreeBySize')
  <2>1. /\ Listed(BothList(a), BothTree(a), BothLeft(a))
        /\ \A s \in 1 .. HeapSize : \A x : x \in BothLeft(a)[s] <=>
               FreeIn(chunk, s, x) /\ ~ (JoinPrev(a) /\ x = lo) /\ ~ (JoinNext(a) /\ x = b)
    BY <1>1, <1>6, LeftListed
  <2>2. \A s \in 1 .. HeapSize : \A x : x \in BothLeft(a)[s] <=>
            FreeIn(chunk, s, x) /\ (x < lo \/ hi <= x)
    <3>1. ASSUME NEW x \in DOMAIN chunk, chunk[x].ut = "FC"
          PROVE  (x < lo \/ hi <= x) <=> ~ (JoinPrev(a) /\ x = lo) /\ ~ (JoinNext(a) /\ x = b)
      <4>1. x # a
        BY <3>1
      <4>2. x = lo => JoinPrev(a)
        BY <1>18, <4>1
      <4>3. lo < x /\ x < hi <=> JoinNext(a) /\ x = b
        BY <1>15, <4>1
      <4>4. (x < lo \/ hi <= x) <=> x # lo /\ ~ (lo < x /\ x < hi)
        BY <1>7, <1>14
      <4> QED BY <4>2, <4>3, <4>4
    <3> QED BY <2>1, <3>1 DEF FreeIn
  <2>3. \A s \in 1 .. HeapSize : lo \notin BothLeft(a)[s]
    BY <1>7, <2>2
  <2> DEFINE G == More(BothLeft(a), n, lo)
  <2>4. Listed(kfc_normal_list', kfc_tree', G)
    BY <1>3, <1>7, <1>8, <1>9, <2>1, <2>3, MoreListed
  <2>5. DOMAIN G = 1 .. HeapSize
    BY DEF More
  <2>6. \A s \in 1 .. HeapSize : \A x : x \in G[s] <=> (s = n /\ x = lo) \/ x \in BothLeft(a)[s]
    BY DEF More
  <2> HIDE DEF G
  <2>7. \A s \in 1 .. HeapSize : \A x : x \in G[s] <=> FreeIn(chunk', s, x)
    BY <1>13, <2>2, <2>6, ZenonT(30)
  <2> QED BY <2>4, <2>5, <2>7, FreeBySizeAfter, ZenonT(30) DEF FreeIn
<1>22. Apart(FreeUnits', FreeUnits, a, b)
  <2>1. /\ base_addr \in Int /\ End \in Int
        /\ \A x \in DOMAIN chunk : /\ base_addr <= x /\ NextHmu(x) <= End /\ NextHmu(x) \in Int
                                   /\ x < a => NextHmu(x) <= a
                                   /\ a < x => b <= x
    BY <1>4, <1>6, ChunkOrder
  <2>2. ASSUME NEW w \in a .. b - 1 PROVE w \notin FreeUnits
    BY <1>7, <1>14, <2>1 DEF FreeUnits
  <2>3. ASSUME NEW w \in lo .. hi - 1, w \notin a .. b - 1 PROVE w \in FreeUnits
    <3>1. CASE w < a
      <4>1. JoinPrev(a)
        BY <1>7, <1>18, <2>3, <3>1
      <4>2. lo \in DOMAIN chunk /\ chunk[lo].ut = "FC" /\ NextHmu(lo) = a /\ w \in base_addr .. End - 1
        BY <1>7, <1>17, <2>1, <3>1, <4>1
      <4> QED BY <1>7, <3>1, <4>2 DEF FreeUnits
    <3>2. CASE b <= w
      <4>1. JoinNext(a)
        BY <1>7, <1>19, <2>3, <3>2
      <4>2. b \in DOMAIN chunk /\ chunk[b].ut = "FC" /\ NextHmu(b) = hi
        BY <1>2, <1>6, <1>16, <4>1 DEF Behind, NextHmu
      <4>3. w \in base_addr .. End - 1
        BY <1>7, <2>1, <3>2, <4>2
      <4> QED BY <1>7, <3>2, <4>2, <4>3 DEF FreeUnits
    <3> QED BY <1>7, <2>3, <3>1, <3>2
  <2>4. a .. b - 1 \subseteq FreeUnits'
    BY <1>7, <1>13
  <2>5. FreeUnits = FreeUnits' \ (a .. b - 1)
    <3>1. \A w \in FreeUnits : w \in FreeUnits' /\ w \notin a .. b - 1
      BY <1>13, <2>2
    <3>2. \A w \in FreeUnits' : w \notin a .. b - 1 => w \in FreeUnits
      BY <1>13, <2>3
    <3> QED BY <3>1, <3>2
  <2> QED BY <1>7, <2>4, <2>5 DEF Apart
<1>23. IsFiniteSet(FreeUnits')
  <2>1. IsFiniteSet(FreeUnits) /\ IsFiniteSet(lo .. hi - 1)
    BY <1>4, <1>7, UnitsFinite, FS_Interval
  <2> QED BY <1>13, <2>1, FS_Union, ZenonT(30)
<1>24. Fewer(FreeUnits', FreeUnits, b - a)
  BY <1>22, <1>23, UnitsLess
<1> QED BY <1>3, <1>4, <1>7, <1>12, <1>20, <1>21, <1>24 DEF Fewer

----------------------------------------------------------------------------
(* Every step keeps the invariant.                                          *)
LEMMA HeapStep ==
    ASSUME HeapInv, ~ MoveListed, [HeapNext]_heapVars
    PROVE  HeapInv'
<1>1. old \subseteq InUse
  BY DEF HeapInv
<1>2. ASSUME NEW n \in Sizes, gc_alloc_vo(n) PROVE HeapInv'
  <2>1. AllocHmu(n) /\ base_addr' = base_addr /\ old' = old
    BY <1>2 DEF gc_alloc_vo
  <2> QED BY <1>1, <2>1, AllocKeeps, ZenonT(30) DEF HeapInv
<1>3. ASSUME NEW a \in InUse \ old, gc_free_vo(a) PROVE HeapInv'
  <2>1. FreeVo(a) /\ base_addr' = base_addr /\ old' = old
    BY <1>3 DEF gc_free_vo
  <2>2. a \in DOMAIN chunk /\ chunk[a].ut = "VO"
    BY DEF InUse
  <2> QED BY <1>1, <2>1, <2>2, FreeKeeps, ZenonT(30) DEF HeapInv
<1>4. ASSUME NEW a \in InUse \ old, NEW n \in Sizes, ReallocMove(a, n) PROVE HeapInv'
  <2>1. /\ AllocHmu(n) /\ base_addr' = base_addr
        /\ old' = IF is_heap_corrupted' THEN old ELSE old \cup {a}
    BY <1>4 DEF ReallocMove
  <2>2. old' \subseteq InUse
    BY <1>1, <2>1
  <2> QED BY <2>1, <2>2, AllocKeeps, ZenonT(30) DEF HeapInv
<1>5. ASSUME NEW a \in old, ReallocFree(a) PROVE HeapInv'
  <2>1. FreeVo(a) /\ base_addr' = base_addr /\ old' = old \ {a}
    BY <1>5 DEF ReallocFree
  <2>2. a \in DOMAIN chunk /\ chunk[a].ut = "VO"
    BY <1>1 DEF InUse
  <2> QED BY <1>1, <2>1, <2>2, FreeKeeps, ZenonT(30) DEF HeapInv
<1>6. ASSUME NEW b \in HeapBases, gc_migrate(b) PROVE HeapInv'
  BY <1>6, MigrateKeeps
<1>7. CASE UNCHANGED heapVars
  <2>1. /\ base_addr' = base_addr /\ chunk' = chunk /\ footer' = footer /\ old' = old
        /\ kfc_normal_list' = kfc_normal_list /\ kfc_tree' = kfc_tree
        /\ total_free_size' = total_free_size /\ is_heap_corrupted' = is_heap_corrupted
    BY <1>7 DEF heapVars
  <2>2. FreeBySize' = FreeBySize /\ FreeUnits' = FreeUnits /\ InUse' = InUse
    BY <2>1 DEF FreeBySize, FreeUnits, InUse, NextHmu, End
  <2>3. Tiled' <=> Tiled
    BY <2>1 DEF Tiled, NextHmu, End
  <2>4. Tags' <=> Tags
    BY <2>1 DEF Tags, NextHmu
  <2> QED BY <2>1, <2>2, <2>3, <2>4 DEF HeapInv, Well
<1> QED BY <1>2, <1>3, <1>4, <1>5, <1>6, <1>7 DEF HeapNext

(* The inductive invariant of the heap: the chunks tile it, their tags and  *)
(* footers agree with their neighbours, the lists and the tree hold what is *)
(* free, the counter counts it, and no operation marks the heap corrupted.  *)
(* It holds for every size of the heap and every base it is moved to, as    *)
(* long as gc_migrate meets no chunk in a normal list (~ MoveListed).       *)
THEOREM HeapInvariant ==
    ASSUME ~ MoveListed
    PROVE  HeapSpec => []HeapInv
<1>1. HeapInit => HeapInv
  BY HeapInitInv
<1>2. HeapInv /\ [HeapNext]_heapVars => HeapInv'
  BY HeapStep
<1> QED BY <1>1, <1>2, PTL DEF HeapSpec

(* The tags gc_free_vo joins neighbours by are right after every sequence   *)
(* of allocations, frees, moving reallocations and migrations, and no two   *)
(* free chunks stay side by side.                                           *)
THEOREM HeapTagsRight ==
    ASSUME ~ MoveListed
    PROVE  HeapSpec => []BoundaryTags
<1>1. HeapInv => BoundaryTags
  BY TagsRight
<1> QED BY <1>1, HeapInvariant, PTL

(* Every free chunk is found in the one place its size asks for and nothing *)
(* else is, and total_free_size is the number of free units.                *)
THEOREM HeapSpaceExact ==
    ASSUME ~ MoveListed
    PROVE  HeapSpec => []FreeSpaceExact
<1>1. HeapInv => FreeSpaceExact
  BY SpaceExact
<1> QED BY <1>1, HeapInvariant, PTL

(* The walk from header to header that gc_migrate and gci_dump make stays   *)
(* in the heap, meets every chunk and ends at its end.                      *)
THEOREM HeapTypes ==
    ASSUME ~ MoveListed
    PROVE  HeapSpec => []HeapTypeOK
<1>1. HeapInv => HeapTypeOK
  BY HeapTyped
<1> QED BY <1>1, HeapInvariant, PTL
=============================================================================
