--------------------------- MODULE FdTableProofs ---------------------------
(* For every number of threads, entries and descriptors: the reference      *)
(* counts of the file descriptor table are exact, the descriptors of the    *)
(* host are those that somebody can use, and rights only shrink.            *)
EXTENDS FdTable, FiniteSetTheorems, TLAPS

----------------------------------------------------------------------------
(* How often f has the value n on S.                                        *)
Count(f, S, n) == Cardinality({x \in S : f[x] = n})

One(test) == IF test THEN 1 ELSE 0

(* The values of held, nfd and refcount that go with the place of a thread. *)
Fits(t) ==
    /\ pc[t] \in {"idle", "opened"} => held[<<t, 1>>] = NULL /\ held[<<t, 2>>] = NULL
    /\ pc[t] \in {"link", "rename", "open", "put", "insert"} => held[<<t, 2>>] = NULL
    /\ (nfd[t] # NULL) <=> (pc[t] \in {"put", "opened"})
    /\ pc[t] = "insert" => held[<<t, 1>>] \in Numbers /\ refcount[held[<<t, 1>>]] = 1

Types ==
    /\ object \in [Fds -> Numbers \cup {NULL}]
    /\ held \in [Locals -> Numbers \cup {NULL}]
    /\ nfd \in [Threads -> Numbers \cup {NULL}]
    /\ refcount \in [Numbers -> Nat] /\ lost \in [Numbers -> Nat]
    /\ host \subseteq Numbers
    /\ pc \in [Threads -> Places]

Shape == Types /\ \A t \in Threads : Fits(t)

(* RefcountExact with Count.                                                *)
Counted ==
    \A n \in Numbers : refcount[n] = Count(object, Fds, n) + Count(held, Locals, n) + lost[n]

FdInv == Shape /\ Counted /\ HostExact

----------------------------------------------------------------------------
(* A count is a number, and at least 1 when the value occurs.               *)
LEMMA CountNat ==
    ASSUME NEW S, IsFiniteSet(S), NEW f, NEW n
    PROVE  /\ Count(f, S, n) \in Nat
           /\ \A a \in S : f[a] = n => Count(f, S, n) >= 1
           /\ \A a, b \in S : a # b /\ f[a] = n /\ f[b] = n => Count(f, S, n) >= 2
<1> DEFINE T == {x \in S : f[x] = n}
<1>1. IsFiniteSet(T)
  BY FS_Subset
<1>2. Cardinality(T) \in Nat
  BY <1>1, FS_CardinalityType
<1>3. \A a \in T : /\ Cardinality(T \ {a}) = Cardinality(T) - 1
                   /\ Cardinality(T \ {a}) \in Nat
  <2> TAKE a \in T
  <2>1. IsFiniteSet(T \ {a})
    BY <1>1, FS_RemoveElement
  <2>2. Cardinality(T \ {a}) = Cardinality(T) - 1
    BY <1>1, FS_RemoveElement, ZenonT(30)
  <2> QED
    BY <2>1, <2>2, FS_CardinalityType
<1>4. ASSUME NEW a \in T, NEW b \in T, a # b PROVE Cardinality(T) >= 2
  <2>1. IsFiniteSet(T \ {a}) /\ b \in T \ {a}
    BY <1>1, <1>4, FS_RemoveElement
  <2>2. Cardinality((T \ {a}) \ {b}) = Cardinality(T \ {a}) - 1
    BY <2>1, FS_RemoveElement, ZenonT(30)
  <2>3. IsFiniteSet((T \ {a}) \ {b})
    BY <2>1, FS_RemoveElement
  <2>4. Cardinality((T \ {a}) \ {b}) \in Nat
    BY <2>3, FS_CardinalityType
  <2> HIDE DEF T
  <2> QED
    BY <2>2, <2>4, <1>2, <1>3, <1>4
<1>5. ASSUME NEW a \in T PROVE Cardinality(T) >= 1
  <2>1. Cardinality(T \ {a}) = Cardinality(T) - 1 /\ Cardinality(T \ {a}) \in Nat
    BY <1>3
  <2> HIDE DEF T
  <2> QED
    BY <1>2, <2>1
<1> QED
  BY <1>2, <1>4, <1>5 DEF Count

(* The functions f and g differ on S at most at a, or at most at a and b.   *)
DifferAt(f, g, S, a) == a \in S /\ \A x \in S : x # a => g[x] = f[x]

DifferAtTwo(f, g, S, a, b) ==
    a \in S /\ b \in S /\ a # b /\ \A x \in S : x # a /\ x # b => g[x] = f[x]

(* A count changes at the one place where the functions differ.             *)
LEMMA CountOne ==
    ASSUME NEW S, IsFiniteSet(S), NEW f, NEW g, NEW a, DifferAt(f, g, S, a), NEW n
    PROVE  Count(g, S, n) + One(f[a] = n) = Count(f, S, n) + One(g[a] = n)
<1> DEFINE F == {x \in S : f[x] = n}
           G == {x \in S : g[x] = n}
           R == {x \in S : x # a /\ f[x] = n}
<1>0. a \in S /\ \A x \in S : x # a => g[x] = f[x]
  BY DEF DifferAt
<1>1. IsFiniteSet(R) /\ a \notin R
  BY FS_Subset
<1>2. Cardinality(R) \in Nat /\ Cardinality(R \cup {a}) = Cardinality(R) + 1
  BY <1>1, FS_CardinalityType, FS_AddElement, ZenonT(30)
<1>3. F = IF f[a] = n THEN R \cup {a} ELSE R
  BY <1>0
<1>4. G = IF g[a] = n THEN R \cup {a} ELSE R
  BY <1>0
<1>5. Cardinality(F) = Cardinality(R) + One(f[a] = n)
  <2> HIDE DEF R, F
  <2> QED BY <1>2, <1>3 DEF One
<1>6. Cardinality(G) = Cardinality(R) + One(g[a] = n)
  <2> HIDE DEF R, G
  <2> QED BY <1>2, <1>4 DEF One
<1>7. Count(f, S, n) = Cardinality(F) /\ Count(g, S, n) = Cardinality(G)
  BY DEF Count
<1> HIDE DEF F, G, R
<1> QED
  BY <1>2, <1>5, <1>6, <1>7 DEF One

(* And at the two places where they differ.                                 *)
LEMMA CountTwo ==
    ASSUME NEW S, IsFiniteSet(S), NEW f, NEW g, NEW a, NEW b, DifferAtTwo(f, g, S, a, b), NEW n
    PROVE  Count(g, S, n) + One(f[a] = n) + One(f[b] = n)
             = Count(f, S, n) + One(g[a] = n) + One(g[b] = n)
<1> DEFINE m == [x \in S |-> IF x = a THEN g[a] ELSE f[x]]
<1>0. a \in S /\ b \in S /\ a # b /\ \A x \in S : x # a /\ x # b => g[x] = f[x]
  BY DEF DifferAtTwo
<1>1. Count(m, S, n) + One(f[a] = n) = Count(f, S, n) + One(m[a] = n)
  <2>1. DifferAt(f, m, S, a)
    BY <1>0 DEF DifferAt
  <2> HIDE DEF m
  <2> QED BY <2>1, CountOne
<1>2. Count(g, S, n) + One(m[b] = n) = Count(m, S, n) + One(g[b] = n)
  <2>1. DifferAt(m, g, S, b)
    BY <1>0 DEF DifferAt
  <2> HIDE DEF m
  <2> QED BY <2>1, CountOne
<1>3. m[a] = g[a] /\ m[b] = f[b]
  BY <1>0
<1>4. Count(m, S, n) \in Nat /\ Count(f, S, n) \in Nat /\ Count(g, S, n) \in Nat
  BY CountNat
<1> HIDE DEF m
<1> QED
  BY <1>1, <1>2, <1>3, <1>4 DEF One

(* How many of two values are n.                                            *)
Pair(v, w, n) == Cardinality({k \in {1, 2} : (IF k = 1 THEN v ELSE w) = n})

(* Each of the two values that is n counts one.                             *)
LEMMA CountPair ==
    ASSUME NEW v, NEW w, NEW n
    PROVE  Pair(v, w, n) = One(v = n) + One(w = n)
<1>1. {k \in {1, 2} : (IF k = 1 THEN v ELSE w) = n}
        = IF v = n THEN IF w = n THEN {1, 2} ELSE {1} ELSE IF w = n THEN {2} ELSE {}
  <2>1. CASE v = n /\ w = n
    BY <2>1
  <2>2. CASE v = n /\ w # n
    BY <2>2
  <2>3. CASE v # n /\ w = n
    BY <2>3
  <2>4. CASE v # n /\ w # n
    BY <2>4
  <2> QED BY <2>1, <2>2, <2>3, <2>4
<1>2. Cardinality({}) = 0
  BY FS_EmptySet
<1>3. IsFiniteSet({}) /\ IsFiniteSet({1}) /\ IsFiniteSet({2})
  BY FS_EmptySet, FS_Singleton, ZenonT(30)
<1>4. Cardinality({1}) = 1 /\ Cardinality({2}) = 1
  BY FS_Singleton, ZenonT(30)
<1>5. Cardinality({1} \cup {2}) = 2
  BY <1>3, <1>4, FS_AddElement
<1>6. {1} \cup {2} = {1, 2}
  OBVIOUS
<1> QED
  BY <1>1, <1>2, <1>4, <1>5, <1>6, SMTT(30) DEF One, Pair

----------------------------------------------------------------------------
(* The domains of the counts are finite.                                    *)
LEMMA Domains == IsFiniteSet(Fds) /\ IsFiniteSet(Locals)
<1>1. IsFiniteSet({1, 2})
  <2>1. IsFiniteSet({1} \cup {2})
    BY FS_Singleton, FS_AddElement, ZenonT(30)
  <2>2. {1} \cup {2} = {1, 2}
    OBVIOUS
  <2> QED BY <2>1, <2>2
<1>2. IsFiniteSet(Fds) /\ IsFiniteSet(Threads)
  BY FdAssumption
<1> QED BY <1>1, <1>2, FS_Product DEF Locals

(* One local variable, or both of a thread, change.                         *)
SetLocal(t, k, v) == held' = [held EXCEPT ![<<t, k>>] = v]
SetLocals(t, v, w) == held' = [held EXCEPT ![<<t, 1>>] = v, ![<<t, 2>>] = w]

OneChanged(t, k, v) ==
    /\ held' \in [Locals -> Numbers \cup {NULL}]
    /\ <<t, k>> \in Locals /\ held'[<<t, k>>] = v
    /\ \A l \in Locals : l # <<t, k>> => held'[l] = held[l]
    /\ \A s \in Threads, j \in {1, 2} :
         held'[<<s, j>>] = IF s = t /\ j = k THEN v ELSE held[<<s, j>>]

TwoChanged(t, v, w) ==
    /\ held' \in [Locals -> Numbers \cup {NULL}]
    /\ <<t, 1>> \in Locals /\ held'[<<t, 1>>] = v
    /\ <<t, 2>> \in Locals /\ held'[<<t, 2>>] = w
    /\ <<t, 1>> # <<t, 2>>
    /\ \A l \in Locals : l # <<t, 1>> /\ l # <<t, 2>> => held'[l] = held[l]
    /\ \A s \in Threads, j \in {1, 2} : s # t => held'[<<s, j>>] = held[<<s, j>>]

(* What the local variables of the calls are after a change of one of them. *)
LEMMA LocalOne ==
    ASSUME Shape, NEW t \in Threads, NEW k \in {1, 2}, NEW v \in Numbers \cup {NULL},
           SetLocal(t, k, v)
    PROVE  OneChanged(t, k, v)
<1>1. \A s \in Threads, j \in {1, 2} : <<s, j>> \in Locals
  BY DEF Locals
<1>2. held \in [Locals -> Numbers \cup {NULL}]
  BY DEF Shape, Types
<1>3. \A l \in Locals : held'[l] = IF l = <<t, k>> THEN v ELSE held[l]
  BY <1>2 DEF SetLocal
<1>4. ASSUME NEW s \in Threads, NEW j \in {1, 2}
      PROVE  held'[<<s, j>>] = IF s = t /\ j = k THEN v ELSE held[<<s, j>>]
  <2>1. held'[<<s, j>>] = IF <<s, j>> = <<t, k>> THEN v ELSE held[<<s, j>>]
    BY <1>1, <1>3, ZenonT(30)
  <2> QED BY <2>1
<1>5. held' \in [Locals -> Numbers \cup {NULL}]
  BY <1>2, ZenonT(30) DEF SetLocal
<1> QED BY <1>1, <1>3, <1>4, <1>5, ZenonT(30) DEF OneChanged

(* And of both of a thread.                                                 *)
LEMMA LocalTwo ==
    ASSUME Shape, NEW t \in Threads,
           NEW v \in Numbers \cup {NULL}, NEW w \in Numbers \cup {NULL},
           SetLocals(t, v, w)
    PROVE  TwoChanged(t, v, w)
<1>1. \A s \in Threads, j \in {1, 2} : <<s, j>> \in Locals
  BY DEF Locals
<1>2. held \in [Locals -> Numbers \cup {NULL}]
  BY DEF Shape, Types
<1>3. \A l \in Locals :
         held'[l] = IF l = <<t, 2>> THEN w ELSE IF l = <<t, 1>> THEN v ELSE held[l]
  BY <1>2 DEF SetLocals
<1>4. ASSUME NEW s \in Threads, NEW j \in {1, 2}, s # t
      PROVE  held'[<<s, j>>] = held[<<s, j>>]
  <2>1. <<s, j>> # <<t, 1>> /\ <<s, j>> # <<t, 2>>
    BY <1>4
  <2> QED BY <1>1, <1>3, <2>1, ZenonT(30)
<1>5. held' \in [Locals -> Numbers \cup {NULL}]
  BY <1>2, ZenonT(30) DEF SetLocals
<1>6. <<t, 1>> # <<t, 2>>
  OBVIOUS
<1> QED BY <1>1, <1>3, <1>4, <1>5, <1>6 DEF TwoChanged

(* The references that calls hold change where their local variables do.    *)
LEMMA HeldOne ==
    ASSUME NEW t, NEW k, NEW v, OneChanged(t, k, v), NEW m
    PROVE  Count(held', Locals, m) + One(held[<<t, k>>] = m)
             = Count(held, Locals, m) + One(held'[<<t, k>>] = m)
<1>1. DifferAt(held, held', Locals, <<t, k>>)
  BY DEF OneChanged, DifferAt
<1> QED BY <1>1, Domains, CountOne

LEMMA HeldTwo ==
    ASSUME NEW t, NEW v, NEW w, TwoChanged(t, v, w), NEW m
    PROVE  Count(held', Locals, m) + One(held[<<t, 1>>] = m) + One(held[<<t, 2>>] = m)
             = Count(held, Locals, m) + One(held'[<<t, 1>>] = m) + One(held'[<<t, 2>>] = m)
<1>1. DifferAtTwo(held, held', Locals, <<t, 1>>, <<t, 2>>)
  BY DEF TwoChanged, DifferAtTwo
<1> QED BY <1>1, Domains, CountTwo

(* And the references of the entries where an entry does.                   *)
LEMMA ObjectOne ==
    ASSUME NEW fd \in Fds, \A x \in Fds : x # fd => object'[x] = object[x], NEW m
    PROVE  Count(object', Fds, m) + One(object[fd] = m) = Count(object, Fds, m) + One(object'[fd] = m)
<1>1. DifferAt(object, object', Fds, fd)
  BY DEF DifferAt
<1> QED BY <1>1, Domains, CountOne

(* An object that an entry or a local variable has, has a reference.        *)
LEMMA Live ==
    ASSUME Shape, Counted
    PROVE  /\ \A fd \in Fds : object[fd] # NULL => /\ object[fd] \in Numbers
                                                   /\ refcount[object[fd]] >= 1
           /\ \A l \in Locals : held[l] # NULL => /\ held[l] \in Numbers
                                                  /\ refcount[held[l]] >= 1
<1>1. \A n \in Numbers : /\ Count(object, Fds, n) \in Nat
                         /\ Count(held, Locals, n) \in Nat
                         /\ lost[n] \in Nat
                         /\ refcount[n] = Count(object, Fds, n) + Count(held, Locals, n) + lost[n]
  BY Domains, CountNat DEF Counted, Shape, Types
<1>2. ASSUME NEW fd \in Fds, object[fd] # NULL
      PROVE  object[fd] \in Numbers /\ Count(object, Fds, object[fd]) >= 1
  BY <1>2, Domains, CountNat DEF Shape, Types
<1>3. ASSUME NEW l \in Locals, held[l] # NULL
      PROVE  held[l] \in Numbers /\ Count(held, Locals, held[l]) >= 1
  BY <1>3, Domains, CountNat DEF Shape, Types
<1> QED BY <1>1, <1>2, <1>3

(* The object that path_open is about to insert is known to nobody else.    *)
LEMMA Exclusive ==
    ASSUME Shape, Counted, NEW s \in Threads, pc[s] = "insert"
    PROVE  /\ held[<<s, 1>>] \in Numbers /\ refcount[held[<<s, 1>>]] = 1
           /\ \A fd \in Fds : object[fd] # held[<<s, 1>>]
           /\ \A l \in Locals : l # <<s, 1>> => held[l] # held[<<s, 1>>]
<1> DEFINE h == held[<<s, 1>>]
<1>1. h \in Numbers /\ refcount[h] = 1 /\ <<s, 1>> \in Locals
  BY ZenonT(30) DEF Shape, Types, Fits, Locals
<1>2. /\ Count(object, Fds, h) \in Nat
      /\ Count(held, Locals, h) \in Nat
      /\ lost[h] \in Nat
      /\ 1 = Count(object, Fds, h) + Count(held, Locals, h) + lost[h]
  BY <1>1, Domains, CountNat DEF Counted, Shape, Types
<1>3. Count(held, Locals, h) >= 1
  BY <1>1, Domains, CountNat
<1>4. ASSUME NEW fd \in Fds, object[fd] = h PROVE FALSE
  <2>1. Count(object, Fds, h) >= 1
    BY <1>4, Domains, CountNat
  <2> QED BY <2>1, <1>2, <1>3
<1>5. ASSUME NEW l \in Locals, l # <<s, 1>>, held[l] = h PROVE FALSE
  <2>1. Count(held, Locals, h) >= 2
    BY <1>1, <1>5, Domains, CountNat
  <2> QED BY <2>1, <1>2
<1> QED BY <1>1, <1>4, <1>5

(* The host when the same objects have references as before.                *)
LEMMA HostKept ==
    ASSUME HostExact, Shape, UNCHANGED <<host, nfd>>,
           \A n \in Numbers : (refcount'[n] > 0) <=> (refcount[n] > 0),
           refcount' \in [Numbers -> Nat]
    PROVE  HostExact'
<1>1. {n \in Numbers : refcount'[n] > 0} = {n \in Numbers : refcount[n] > 0}
  OBVIOUS
<1>2. \A n \in Numbers : refcount[n] = 0 => refcount'[n] = 0
  BY DEF Shape, Types
<1>3. host' = 0 .. 2 \cup {n \in Numbers : refcount'[n] > 0}
                     \cup {n \in Numbers : \E t \in Threads : nfd'[t] = n}
  BY <1>1 DEF HostExact
<1>4. \A t \in Threads : nfd'[t] # NULL =>
         /\ refcount'[nfd'[t]] = 0 /\ nfd'[t] > 2
         /\ \A s \in Threads \ {t} : nfd'[s] # nfd'[t]
  BY <1>2, ZenonT(30) DEF HostExact, Shape, Types, Fits
<1> QED BY <1>3, <1>4 DEF HostExact

(* The host when one reference to object n goes.                            *)
LEMMA HostReleased ==
    ASSUME HostExact, Shape, NEW n \in Numbers, refcount[n] >= 1,
           refcount' = Released(n), host' = HostWithout(n), nfd' = nfd
    PROVE  /\ HostExact' /\ host' \subseteq Numbers /\ refcount' \in [Numbers -> Nat]
           /\ \A m \in Numbers : refcount'[m] = refcount[m] - One(m = n)
<1>1. /\ refcount' \in [Numbers -> Nat]
      /\ \A m \in Numbers : refcount'[m] = refcount[m] - One(m = n)
  BY DEF Released, Shape, Types, One
<1>2. \A m \in Numbers : m \in Nat
  BY FdAssumption
<1>3. \A t \in Threads : nfd[t] # NULL => nfd[t] # n
  BY DEF HostExact
<1>4. \A m \in Numbers : (refcount'[m] > 0) <=> IF m = n THEN refcount[n] # 1 ELSE refcount[m] > 0
  BY <1>1 DEF Shape, Types, One
<1>5. host' = 0 .. 2 \cup {m \in Numbers : refcount'[m] > 0}
                     \cup {m \in Numbers : \E t \in Threads : nfd[t] = m}
  <2>1. n \notin {m \in Numbers : \E t \in Threads : nfd[t] = m}
    BY <1>3, FdAssumption
  <2>2. n \in 0 .. 2 <=> ~(n > 2)
    BY <1>2
  <2> DEFINE Old == {m \in Numbers : refcount[m] > 0}
             New == {m \in Numbers : refcount'[m] > 0}
             Opening == {m \in Numbers : \E t \in Threads : nfd[t] = m}
             Std == 0 .. 2
  <2>3. New = IF refcount[n] = 1 THEN Old \ {n} ELSE Old
    BY <1>4 DEF Shape, Types
  <2>4. n \in Old /\ n \notin Opening /\ (n \in Std <=> ~(n > 2))
    BY <2>1, <2>2 DEF Shape, Types
  <2>5. host = Std \cup Old \cup Opening
    BY DEF HostExact
  <2>6. host' = IF refcount[n] = 1 /\ n > 2 THEN host \ {n} ELSE host
    BY DEF HostWithout
  <2> HIDE DEF Old, New, Opening, Std
  <2>7. host' = Std \cup New \cup Opening
    BY <2>3, <2>4, <2>5, <2>6
  <2> QED BY <2>7 DEF New, Opening, Std
<1>6. \A t \in Threads : nfd'[t] # NULL =>
         /\ refcount'[nfd'[t]] = 0 /\ nfd'[t] > 2
         /\ \A s \in Threads \ {t} : nfd'[s] # nfd'[t]
  <2>1. \A m \in Numbers : m # n => refcount'[m] = refcount[m]
    BY <1>1 DEF Shape, Types, One
  <2> QED BY <2>1, <1>3, ZenonT(30) DEF HostExact, Shape, Types, Fits
<1> QED BY <1>1, <1>5, <1>6 DEF HostExact, HostWithout, Shape, Types

(* A step of one thread does not disturb the others.                        *)
LEMMA OthersFit ==
    ASSUME Shape, NEW t \in Threads,
           \A s \in Threads : s # t =>
             /\ pc'[s] = pc[s] /\ nfd'[s] = nfd[s]
             /\ held'[<<s, 1>>] = held[<<s, 1>>] /\ held'[<<s, 2>>] = held[<<s, 2>>],
           \A s \in Threads : s # t /\ pc[s] = "insert" =>
             refcount'[held[<<s, 1>>]] = refcount[held[<<s, 1>>]]
    PROVE  \A s \in Threads : s # t => Fits(s)'
BY DEF Shape, Fits

----------------------------------------------------------------------------
(* fd_object_get into a local variable that holds nothing.                  *)
LEMMA GetStep ==
    ASSUME FdInv, NEW t \in Threads, NEW k \in {1, 2}, NEW fd \in Fds,
           NEW base, NEW inheriting, NEW place \in {"use", "validate", "link", "rename", "open"},
           held[<<t, k>>] = NULL, pc[t] \in {"idle", "link", "rename"},
           place \in {"link", "rename", "open"} => k = 1 /\ held[<<t, 2>>] = NULL,
           fd_object_get(t, k, fd, base, inheriting), Go(t, place), nfd' = nfd
    PROVE  FdInv'
<1> DEFINE n == object[fd]
<1>0. Shape /\ Counted /\ HostExact
  BY DEF FdInv
<1>1. /\ n # NULL /\ object' = object /\ host' = host /\ lost' = lost
      /\ held' = [held EXCEPT ![<<t, k>>] = n]
      /\ refcount' = [refcount EXCEPT ![n] = @ + 1]
      /\ pc' = [pc EXCEPT ![t] = place]
  BY DEF fd_object_get, fd_table_get_entry, Go, table
<1>2. n \in Numbers /\ refcount[n] >= 1
  BY <1>0, <1>1, Live
<1>3. /\ refcount' \in [Numbers -> Nat]
      /\ \A m \in Numbers : refcount'[m] = refcount[m] + One(m = n)
  BY <1>0, <1>1, <1>2 DEF Shape, Types, One
<1> HIDE DEF n
<1>4. /\ held' \in [Locals -> Numbers \cup {NULL}]
      /\ <<t, k>> \in Locals /\ held'[<<t, k>>] = n
      /\ \A l \in Locals : l # <<t, k>> => held'[l] = held[l]
      /\ \A s \in Threads, j \in {1, 2} :
           held'[<<s, j>>] = IF s = t /\ j = k THEN n ELSE held[<<s, j>>]
  <2>1. SetLocal(t, k, n)
    BY <1>1 DEF SetLocal
  <2>2. n \in Numbers \cup {NULL}
    BY <1>2
  <2>3. OneChanged(t, k, n)
    BY <1>0, <2>1, <2>2, LocalOne
  <2> QED BY <2>3 DEF OneChanged
<1>5. HostExact'
  <2>1. \A m \in Numbers : (refcount'[m] > 0) <=> (refcount[m] > 0)
    BY <1>0, <1>2, <1>3 DEF Shape, Types, One
  <2> QED BY <2>1, <1>0, <1>1, <1>3, HostKept
<1>6. Counted'
  <2> SUFFICES ASSUME NEW m \in Numbers
               PROVE  refcount'[m] = Count(object', Fds, m) + Count(held', Locals, m) + lost'[m]
    BY DEF Counted, Count
  <2>1. Count(held', Locals, m) + One(held[<<t, k>>] = m)
          = Count(held, Locals, m) + One(held'[<<t, k>>] = m)
    <3>1. OneChanged(t, k, n)
      BY <1>4 DEF OneChanged
    <3> QED BY <3>1, HeldOne
  <2>2. One(held[<<t, k>>] = m) = 0 /\ One(held'[<<t, k>>] = m) = One(m = n)
    BY <1>4, FdAssumption DEF One
  <2>3. Count(held', Locals, m) \in Nat /\ Count(held, Locals, m) \in Nat /\ Count(object, Fds, m) \in Nat
    BY Domains, CountNat
  <2>4. refcount[m] = Count(object, Fds, m) + Count(held, Locals, m) + lost[m] /\ lost[m] \in Nat
    BY <1>0 DEF Counted, Shape, Types
  <2> QED BY <1>1, <1>3, <2>1, <2>2, <2>3, <2>4 DEF One
<1>7. Types'
  BY <1>0, <1>1, <1>3, <1>4 DEF Shape, Types, Places
<1>8. \A s \in Threads : s # t => Fits(s)'
  <2>1. \A s \in Threads : s # t /\ pc[s] = "insert" =>
            refcount'[held[<<s, 1>>]] = refcount[held[<<s, 1>>]]
    BY <1>0, <1>3, Exclusive DEF Shape, Types, One, n
  <2>2. \A s \in Threads : s # t =>
             /\ pc'[s] = pc[s] /\ nfd'[s] = nfd[s]
             /\ held'[<<s, 1>>] = held[<<s, 1>>] /\ held'[<<s, 2>>] = held[<<s, 2>>]
    BY <1>0, <1>1, <1>4 DEF Shape, Types
  <2> QED BY <1>0, <2>1, <2>2, OthersFit
<1>9. Fits(t)'
  <2>1. pc'[t] = place /\ nfd[t] = NULL
    BY <1>0, <1>1, ZenonT(30) DEF Shape, Types, Fits
  <2>2. k = 1 => held'[<<t, 2>>] = held[<<t, 2>>]
    BY <1>4
  <2> QED BY <2>1, <2>2 DEF Fits
<1> QED BY <1>5, <1>6, <1>7, <1>8, <1>9 DEF FdInv, Shape

(* The counts of one object, before and after a step.                       *)
LEMMA Terms ==
    ASSUME Shape, Counted, NEW m \in Numbers
    PROVE  /\ Count(object, Fds, m) \in Nat /\ Count(object', Fds, m) \in Nat
           /\ Count(held, Locals, m) \in Nat /\ Count(held', Locals, m) \in Nat
           /\ lost[m] \in Nat
           /\ refcount[m] = Count(object, Fds, m) + Count(held, Locals, m) + lost[m]
BY Domains, CountNat DEF Counted, Shape, Types

(* fd_object_release of a local variable.                                   *)
LEMMA ReleaseStep ==
    ASSUME FdInv, NEW t \in Threads, NEW k \in {1, 2}, Release(t, k)
    PROVE  FdInv'
<1> DEFINE n == held[<<t, k>>]
<1>0. Shape /\ Counted /\ HostExact
  BY DEF FdInv
<1>1. /\ n # NULL /\ object' = object /\ lost' = lost /\ nfd' = nfd
      /\ held' = [held EXCEPT ![<<t, k>>] = NULL]
      /\ refcount' = Released(n) /\ host' = HostWithout(n)
      /\ pc[t] \in {"use", "put"}
      /\ pc' = [pc EXCEPT ![t] = IF pc[t] = "put" THEN "opened"
                  ELSE IF \E j \in {1, 2} : held[<<t, j>>] # NULL /\ j # k THEN "use" ELSE "idle"]
  BY DEF Release, Go, table
<1>2. n \in Numbers /\ refcount[n] >= 1
  BY <1>0, <1>1, Live DEF Locals
<1>3. OneChanged(t, k, NULL)
  <2>1. SetLocal(t, k, NULL)
    BY <1>1 DEF SetLocal
  <2> QED BY <1>0, <2>1, LocalOne
<1>4. /\ HostExact' /\ host' \subseteq Numbers /\ refcount' \in [Numbers -> Nat]
      /\ \A m \in Numbers : refcount'[m] = refcount[m] - One(m = n)
  BY <1>0, <1>1, <1>2, HostReleased
<1>5. Counted'
  <2> SUFFICES ASSUME NEW m \in Numbers
               PROVE  refcount'[m] = Count(object', Fds, m) + Count(held', Locals, m) + lost'[m]
    BY DEF Counted, Count
  <2>1. Count(held', Locals, m) + One(held[<<t, k>>] = m)
          = Count(held, Locals, m) + One(held'[<<t, k>>] = m)
    BY <1>3, HeldOne
  <2>2. One(held'[<<t, k>>] = m) = 0 /\ One(held[<<t, k>>] = m) = One(m = n)
    BY <1>3, FdAssumption DEF One, OneChanged
  <2>3. refcount'[m] = refcount[m] - One(m = n)
    BY <1>4
  <2>4. /\ Count(object, Fds, m) \in Nat /\ Count(held, Locals, m) \in Nat
        /\ Count(held', Locals, m) \in Nat /\ lost[m] \in Nat
        /\ refcount[m] = Count(object, Fds, m) + Count(held, Locals, m) + lost[m]
    BY <1>0, Terms
  <2> HIDE DEF n
  <2> QED BY <1>1, <2>1, <2>2, <2>3, <2>4 DEF One
<1>6. Types'
  BY <1>0, <1>1, <1>3, <1>4 DEF Shape, Types, Places, OneChanged
<1>7. \A s \in Threads : s # t => Fits(s)'
  <2>1. ASSUME NEW s \in Threads, s # t, pc[s] = "insert"
        PROVE  refcount'[held[<<s, 1>>]] = refcount[held[<<s, 1>>]]
    <3>1. <<t, k>> \in Locals /\ <<t, k>> # <<s, 1>>
      BY <2>1 DEF Locals
    <3>2. held[<<s, 1>>] \in Numbers /\ held[<<s, 1>>] # n
      BY <1>0, <2>1, <3>1, Exclusive
    <3> QED BY <1>0, <1>4, <3>2 DEF Shape, Types, One
  <2>2. \A s \in Threads : s # t =>
             /\ pc'[s] = pc[s] /\ nfd'[s] = nfd[s]
             /\ held'[<<s, 1>>] = held[<<s, 1>>] /\ held'[<<s, 2>>] = held[<<s, 2>>]
    BY <1>0, <1>1, <1>3 DEF Shape, Types, OneChanged
  <2> QED BY <1>0, <2>1, <2>2, OthersFit
<1>8. Fits(t)'
  <2>1. /\ pc'[t] = IF pc[t] = "put" THEN "opened"
                    ELSE IF \E j \in {1, 2} : held[<<t, j>>] # NULL /\ j # k THEN "use" ELSE "idle"
        /\ nfd'[t] = nfd[t] /\ Fits(t)
    BY <1>0, <1>1 DEF Shape, Types
  <2>2. \A j \in {1, 2} : held'[<<t, j>>] = IF j = k THEN NULL ELSE held[<<t, j>>]
    BY <1>3 DEF OneChanged
  <2>3. CASE pc[t] = "put"
    BY <1>1, <2>1, <2>2, <2>3 DEF Fits
  <2>4. CASE pc[t] = "use"
    BY <1>1, <2>1, <2>2, <2>4 DEF Fits
  <2> QED BY <1>1, <2>3, <2>4
<1> QED BY <1>4, <1>5, <1>6, <1>7, <1>8 DEF FdInv, Shape

(* fd_close: the reference goes from the entry to the local variable.       *)
LEMMA CloseStep ==
    ASSUME FdInv, NEW t \in Threads, NEW fd \in Fds, fd_close(t, fd), stopped' = "no"
    PROVE  FdInv'
<1> DEFINE n == object[fd]
<1>0. Shape /\ Counted /\ HostExact
  BY DEF FdInv
<1>1. /\ n # NULL /\ lost' = lost /\ nfd' = nfd /\ refcount' = refcount /\ host' = host
      /\ object' = [object EXCEPT ![fd] = NULL]
      /\ held' = [held EXCEPT ![<<t, 1>>] = n]
      /\ pc[t] = "idle" /\ pc' = [pc EXCEPT ![t] = "use"]
  BY DEF fd_close, Go, Stop
<1>2. n \in Numbers /\ object' \in [Fds -> Numbers \cup {NULL}] /\ object'[fd] = NULL
      /\ \A x \in Fds : x # fd => object'[x] = object[x]
  BY <1>0, <1>1 DEF Shape, Types
<1>3. OneChanged(t, 1, n)
  <2>1. SetLocal(t, 1, n)
    BY <1>1 DEF SetLocal
  <2> QED BY <1>0, <1>2, <2>1, LocalOne
<1>4. held[<<t, 1>>] = NULL /\ held[<<t, 2>>] = NULL /\ nfd[t] = NULL
  BY <1>0, <1>1 DEF Shape, Fits
<1>5. Counted'
  <2> SUFFICES ASSUME NEW m \in Numbers
               PROVE  refcount'[m] = Count(object', Fds, m) + Count(held', Locals, m) + lost'[m]
    BY DEF Counted, Count
  <2>1. Count(held', Locals, m) + One(held[<<t, 1>>] = m)
          = Count(held, Locals, m) + One(held'[<<t, 1>>] = m)
    BY <1>3, HeldOne
  <2>2. Count(object', Fds, m) + One(object[fd] = m) = Count(object, Fds, m) + One(object'[fd] = m)
    BY <1>2, ObjectOne
  <2>3. /\ One(held'[<<t, 1>>] = m) = One(object[fd] = m)
        /\ One(held[<<t, 1>>] = m) = 0 /\ One(object'[fd] = m) = 0
    BY <1>2, <1>3, <1>4, FdAssumption DEF One, OneChanged
  <2>4. /\ Count(object, Fds, m) \in Nat /\ Count(object', Fds, m) \in Nat
        /\ Count(held, Locals, m) \in Nat /\ Count(held', Locals, m) \in Nat
        /\ lost[m] \in Nat
        /\ refcount[m] = Count(object, Fds, m) + Count(held, Locals, m) + lost[m]
    BY <1>0, Terms
  <2> QED BY <1>1, <2>1, <2>2, <2>3, <2>4 DEF One
<1>6. HostExact'
  BY <1>0, <1>1, HostKept DEF Shape, Types
<1>7. Types'
  BY <1>0, <1>1, <1>2, <1>3 DEF Shape, Types, Places, OneChanged
<1>8. \A s \in Threads : s # t => Fits(s)'
  <2>1. \A s \in Threads : s # t =>
             /\ pc'[s] = pc[s] /\ nfd'[s] = nfd[s]
             /\ held'[<<s, 1>>] = held[<<s, 1>>] /\ held'[<<s, 2>>] = held[<<s, 2>>]
    BY <1>0, <1>1, <1>3 DEF Shape, Types, OneChanged
  <2> QED BY <1>0, <1>1, <2>1, OthersFit
<1>9. Fits(t)'
  BY <1>0, <1>1, <1>4 DEF Shape, Types, Fits
<1> QED BY <1>5, <1>6, <1>7, <1>8, <1>9 DEF FdInv, Shape

(* The early returns of path_link and path_symlink: the references of the   *)
(* local variables are lost.                                                *)
LEMMA DeniedStep ==
    ASSUME FdInv, NEW t \in Threads, Denied(t)
    PROVE  FdInv'
<1>0. Shape /\ Counted /\ HostExact
  BY DEF FdInv
<1>1. /\ object' = object /\ nfd' = nfd /\ refcount' = refcount /\ host' = host
      /\ held' = [held EXCEPT ![<<t, 1>>] = NULL, ![<<t, 2>>] = NULL]
      /\ lost' = [n \in Numbers |-> lost[n] + Cardinality({k \in {1, 2} : held[<<t, k>>] = n})]
      /\ pc[t] = "validate" /\ pc' = [pc EXCEPT ![t] = "idle"]
  BY DEF Denied, Go, table
<1>2. TwoChanged(t, NULL, NULL)
  <2>1. SetLocals(t, NULL, NULL)
    BY <1>1 DEF SetLocals
  <2> QED BY <1>0, <2>1, LocalTwo
<1>3. \A m \in Numbers : lost'[m] = lost[m] + (One(held[<<t, 1>>] = m) + One(held[<<t, 2>>] = m))
  <2> TAKE m \in Numbers
  <2>1. {k \in {1, 2} : held[<<t, k>>] = m}
          = {k \in {1, 2} : (IF k = 1 THEN held[<<t, 1>>] ELSE held[<<t, 2>>]) = m}
    OBVIOUS
  <2>2. Pair(held[<<t, 1>>], held[<<t, 2>>], m)
          = One(held[<<t, 1>>] = m) + One(held[<<t, 2>>] = m)
    BY CountPair
  <2>3. lost'[m] = lost[m] + Pair(held[<<t, 1>>], held[<<t, 2>>], m)
    BY <1>1, <2>1 DEF Pair
  <2> QED BY <2>2, <2>3
<1>4. lost' \in [Numbers -> Nat]
  <2>1. \A m \in Numbers : lost'[m] \in Nat
    BY <1>0, <1>3 DEF Shape, Types, One
  <2> QED BY <1>1, <2>1
<1>5. Counted'
  <2> SUFFICES ASSUME NEW m \in Numbers
               PROVE  refcount'[m] = Count(object', Fds, m) + Count(held', Locals, m) + lost'[m]
    BY DEF Counted, Count
  <2>1. Count(held', Locals, m) + One(held[<<t, 1>>] = m) + One(held[<<t, 2>>] = m)
          = Count(held, Locals, m) + One(held'[<<t, 1>>] = m) + One(held'[<<t, 2>>] = m)
    BY <1>2, HeldTwo
  <2>2. One(held'[<<t, 1>>] = m) = 0 /\ One(held'[<<t, 2>>] = m) = 0
    BY <1>2, FdAssumption DEF One, TwoChanged
  <2>3. lost'[m] = lost[m] + (One(held[<<t, 1>>] = m) + One(held[<<t, 2>>] = m))
    BY <1>3
  <2>4. /\ Count(object, Fds, m) \in Nat /\ Count(held, Locals, m) \in Nat
        /\ Count(held', Locals, m) \in Nat /\ lost[m] \in Nat
        /\ refcount[m] = Count(object, Fds, m) + Count(held, Locals, m) + lost[m]
    BY <1>0, Terms
  <2> QED BY <1>1, <2>1, <2>2, <2>3, <2>4 DEF One
<1>6. HostExact'
  BY <1>0, <1>1, HostKept DEF Shape, Types
<1>7. Types'
  BY <1>0, <1>1, <1>2, <1>4 DEF Shape, Types, Places, TwoChanged
<1>8. \A s \in Threads : s # t => Fits(s)'
  <2>1. \A s \in Threads : s # t =>
             /\ pc'[s] = pc[s] /\ nfd'[s] = nfd[s]
             /\ held'[<<s, 1>>] = held[<<s, 1>>] /\ held'[<<s, 2>>] = held[<<s, 2>>]
    BY <1>0, <1>1, <1>2, ZenonT(30) DEF Shape, Types, TwoChanged
  <2> QED BY <1>0, <1>1, <2>1, OthersFit, ZenonT(30)
<1>9. Fits(t)'
  BY <1>0, <1>1, <1>2 DEF Shape, Types, Fits, TwoChanged
<1> QED BY <1>5, <1>6, <1>7, <1>8, <1>9 DEF FdInv, Shape

(* poll_oneoff gets the objects of both subscriptions.                      *)
LEMMA PollStep ==
    ASSUME FdInv, NEW t \in Threads, NEW fd1 \in Fds, NEW fd2 \in Fds, poll_oneoff(t, fd1, fd2)
    PROVE  FdInv'
<1> DEFINE v == IF fd_table_get_entry(fd1, {"POLL_FD_READWRITE"}, {}) THEN object[fd1] ELSE NULL
           w == IF fd_table_get_entry(fd2, {"POLL_FD_READWRITE"}, {}) THEN object[fd2] ELSE NULL
<1>0. Shape /\ Counted /\ HostExact
  BY DEF FdInv
<1>1. /\ object' = object /\ nfd' = nfd /\ lost' = lost /\ host' = host
      /\ held' = [held EXCEPT ![<<t, 1>>] = v, ![<<t, 2>>] = w]
      /\ refcount' = [n \in Numbers |->
            refcount[n] + Cardinality({k \in {1, 2} : (IF k = 1 THEN v ELSE w) = n})]
      /\ pc[t] = "idle" /\ pc' = [pc EXCEPT ![t] = "use"]
  <2> DEFINE got == [k \in {1, 2} |->
                  LET fd == IF k = 1 THEN fd1 ELSE fd2
                  IN  IF fd_table_get_entry(fd, {"POLL_FD_READWRITE"}, {}) THEN object[fd]
                      ELSE NULL]
  <2>1. got[1] = v /\ got[2] = w
    OBVIOUS
  <2>2. \A n : {k \in {1, 2} : got[k] = n} = {k \in {1, 2} : (IF k = 1 THEN v ELSE w) = n}
    BY <2>1
  <2>3. /\ object' = object /\ nfd' = nfd /\ lost' = lost /\ host' = host
        /\ held' = [held EXCEPT ![<<t, 1>>] = got[1], ![<<t, 2>>] = got[2]]
        /\ refcount' = [n \in Numbers |->
              refcount[n] + Cardinality({k \in {1, 2} : got[k] = n})]
        /\ pc[t] = "idle" /\ pc' = [pc EXCEPT ![t] = "use"]
    BY DEF poll_oneoff, Go, table
  <2> HIDE DEF got, v, w
  <2> QED BY <2>1, <2>2, <2>3
<1>2. /\ v \in Numbers \cup {NULL} /\ v # NULL => refcount[v] >= 1 /\ \E fd \in Fds : object[fd] = v
      /\ w \in Numbers \cup {NULL} /\ w # NULL => refcount[w] >= 1 /\ \E fd \in Fds : object[fd] = w
  BY <1>0, Live DEF fd_table_get_entry
<1>3. v \in Numbers \cup {NULL} /\ w \in Numbers \cup {NULL}
  BY <1>0 DEF Shape, Types
<1> HIDE DEF v, w
<1>4. TwoChanged(t, v, w)
  <2>1. SetLocals(t, v, w)
    BY <1>1 DEF SetLocals
  <2> QED BY <1>0, <1>3, <2>1, LocalTwo
<1>5. \A m \in Numbers : refcount'[m] = refcount[m] + (One(v = m) + One(w = m))
  <2> TAKE m \in Numbers
  <2>1. Pair(v, w, m) = One(v = m) + One(w = m)
    BY CountPair
  <2>2. refcount'[m] = refcount[m] + Pair(v, w, m)
    BY <1>1 DEF Pair
  <2> QED BY <2>1, <2>2
<1>6. refcount' \in [Numbers -> Nat]
  <2>1. \A m \in Numbers : refcount'[m] \in Nat
    BY <1>0, <1>5 DEF Shape, Types, One
  <2> QED BY <1>1, <2>1
<1>7. held[<<t, 1>>] = NULL /\ held[<<t, 2>>] = NULL /\ nfd[t] = NULL
  BY <1>0, <1>1 DEF Shape, Fits
<1>8. Counted'
  <2> SUFFICES ASSUME NEW m \in Numbers
               PROVE  refcount'[m] = Count(object', Fds, m) + Count(held', Locals, m) + lost'[m]
    BY SMTT(30) DEF Counted, Count
  <2>1. Count(held', Locals, m) + One(held[<<t, 1>>] = m) + One(held[<<t, 2>>] = m)
          = Count(held, Locals, m) + One(held'[<<t, 1>>] = m) + One(held'[<<t, 2>>] = m)
    BY <1>4, HeldTwo
  <2>2. /\ One(held[<<t, 1>>] = m) = 0 /\ One(held[<<t, 2>>] = m) = 0
        /\ One(held'[<<t, 1>>] = m) = One(v = m) /\ One(held'[<<t, 2>>] = m) = One(w = m)
    BY <1>4, <1>7, FdAssumption DEF One, TwoChanged
  <2>3. refcount'[m] = refcount[m] + (One(v = m) + One(w = m))
    BY <1>5
  <2>4. /\ Count(object, Fds, m) \in Nat /\ Count(held, Locals, m) \in Nat
        /\ Count(held', Locals, m) \in Nat /\ lost[m] \in Nat
        /\ refcount[m] = Count(object, Fds, m) + Count(held, Locals, m) + lost[m]
    BY <1>0, Terms
  <2> QED BY <1>1, <2>1, <2>2, <2>3, <2>4 DEF One
<1>9. HostExact'
  <2>1. \A m \in Numbers : (refcount'[m] > 0) <=> (refcount[m] > 0)
    BY <1>0, <1>2, <1>5, FdAssumption, SMTT(30) DEF Shape, Types, One
  <2> QED BY <2>1, <1>0, <1>1, <1>6, HostKept
<1>10. Types'
  BY <1>0, <1>1, <1>4, <1>6 DEF Shape, Types, Places, TwoChanged
<1>11. \A s \in Threads : s # t => Fits(s)'
  <2>1. ASSUME NEW s \in Threads, s # t, pc[s] = "insert"
        PROVE  refcount'[held[<<s, 1>>]] = refcount[held[<<s, 1>>]]
    <3>1. /\ held[<<s, 1>>] \in Numbers
          /\ \A fd \in Fds : object[fd] # held[<<s, 1>>]
      BY <1>0, <2>1, Exclusive
    <3>2. v # held[<<s, 1>>] /\ w # held[<<s, 1>>]
      BY <1>2, <3>1, FdAssumption
    <3> QED BY <1>0, <1>5, <3>1, <3>2 DEF Shape, Types, One
  <2>2. \A s \in Threads : s # t =>
             /\ pc'[s] = pc[s] /\ nfd'[s] = nfd[s]
             /\ held'[<<s, 1>>] = held[<<s, 1>>] /\ held'[<<s, 2>>] = held[<<s, 2>>]
    BY <1>0, <1>1, <1>4, ZenonT(30) DEF Shape, Types, TwoChanged
  <2> QED BY <1>0, <2>1, <2>2, OthersFit
<1>12. Fits(t)'
  BY <1>0, <1>1, <1>7 DEF Shape, Types, Fits
<1> QED BY <1>8, <1>9, <1>10, <1>11, <1>12 DEF FdInv, Shape

(* fd_renumber: the entry of to loses its object and gets that of from.     *)
LEMMA RenumberStep ==
    ASSUME FdInv, NEW t \in Threads, NEW from \in Fds, NEW to \in Fds,
           fd_renumber(t, from, to), stopped' = "no"
    PROVE  FdInv'
<1> DEFINE n == object[to]
<1>0. Shape /\ Counted /\ HostExact
  BY DEF FdInv
<1>1. /\ from # to /\ n # NULL /\ object[from] # NULL
      /\ lost' = lost /\ nfd' = nfd /\ held' = held /\ pc' = pc
      /\ object' = [object EXCEPT ![to] = object[from], ![from] = NULL]
      /\ refcount' = Released(n) /\ host' = HostWithout(n)
  BY DEF fd_renumber, Stop
<1>2. /\ object' \in [Fds -> Numbers \cup {NULL}]
      /\ object'[to] = object[from] /\ object'[from] = NULL
      /\ \A x \in Fds : x # to /\ x # from => object'[x] = object[x]
  BY <1>0, <1>1 DEF Shape, Types
<1>3. n \in Numbers /\ refcount[n] >= 1
  BY <1>0, <1>1, Live
<1>4. /\ HostExact' /\ host' \subseteq Numbers /\ refcount' \in [Numbers -> Nat]
      /\ \A m \in Numbers : refcount'[m] = refcount[m] - One(m = n)
  BY <1>0, <1>1, <1>3, HostReleased
<1>5. Counted'
  <2> SUFFICES ASSUME NEW m \in Numbers
               PROVE  refcount'[m] = Count(object', Fds, m) + Count(held', Locals, m) + lost'[m]
    BY ZenonT(30) DEF Counted, Count
  <2>1. Count(object', Fds, m) + One(object[to] = m) + One(object[from] = m)
          = Count(object, Fds, m) + One(object'[to] = m) + One(object'[from] = m)
    <3>1. DifferAtTwo(object, object', Fds, to, from)
      BY <1>1, <1>2 DEF DifferAtTwo
    <3> QED BY <3>1, Domains, CountTwo
  <2>2. /\ One(object'[from] = m) = 0 /\ One(object[to] = m) = One(m = n)
        /\ One(object'[to] = m) = One(object[from] = m)
    BY <1>2, FdAssumption DEF One
  <2>3. refcount'[m] = refcount[m] - One(m = n)
    BY <1>4
  <2>4. /\ Count(object, Fds, m) \in Nat /\ Count(object', Fds, m) \in Nat
        /\ Count(held, Locals, m) \in Nat /\ lost[m] \in Nat
        /\ refcount[m] = Count(object, Fds, m) + Count(held, Locals, m) + lost[m]
    BY <1>0, Terms
  <2> HIDE DEF n
  <2> QED BY <1>1, <2>1, <2>2, <2>3, <2>4 DEF One
<1>6. Types'
  BY <1>0, <1>1, <1>2, <1>4 DEF Shape, Types
<1>7. ASSUME NEW s \in Threads PROVE Fits(s)'
  <2>1. CASE pc[s] = "insert"
    <3>1. held[<<s, 1>>] \in Numbers /\ held[<<s, 1>>] # n
      BY <1>0, <2>1, Exclusive
    <3>2. refcount'[held[<<s, 1>>]] = refcount[held[<<s, 1>>]]
      BY <1>0, <1>4, <3>1 DEF Shape, Types, One
    <3> QED BY <1>0, <1>1, <2>1, <3>2 DEF Shape, Fits
  <2>2. CASE pc[s] # "insert"
    BY <1>0, <1>1, <2>2 DEF Shape, Fits
  <2> QED BY <2>1, <2>2
<1> QED BY <1>4, <1>5, <1>6, <1>7 DEF FdInv, Shape

(* openat: the new descriptor belongs to nobody else.                       *)
LEMMA OpenAtStep ==
    ASSUME FdInv, NEW t \in Threads, OpenAt(t)
    PROVE  FdInv'
<1>0. Shape /\ Counted /\ HostExact
  BY DEF FdInv
<1>1. PICK n \in Numbers \ host : nfd' = [nfd EXCEPT ![t] = n] /\ host' = host \cup {n}
  BY ZenonT(30) DEF OpenAt
<1>2. /\ object' = object /\ refcount' = refcount /\ held' = held /\ lost' = lost
      /\ pc[t] = "open" /\ pc' = [pc EXCEPT ![t] = "put"]
  BY DEF OpenAt, Go, table
<1>3. refcount[n] = 0 /\ n > 2 /\ n # NULL /\ \A s \in Threads : nfd[s] # n
  BY <1>0, FdAssumption DEF HostExact, Shape, Types
<1>4. /\ nfd' \in [Threads -> Numbers \cup {NULL}] /\ nfd'[t] = n
      /\ \A s \in Threads : s # t => nfd'[s] = nfd[s]
  BY <1>0, <1>1 DEF Shape, Types
<1>5. nfd[t] = NULL
  BY <1>0, <1>2, ZenonT(30) DEF Shape, Fits
<1>6. HostExact'
  <2>1. {m \in Numbers : \E s \in Threads : nfd'[s] = m}
          = {m \in Numbers : \E s \in Threads : nfd[s] = m} \cup {n}
    BY <1>4, <1>5, FdAssumption
  <2>2. host' = 0 .. 2 \cup {m \in Numbers : refcount'[m] > 0}
                       \cup {m \in Numbers : \E s \in Threads : nfd'[s] = m}
    BY <1>0, <1>1, <1>2, <2>1 DEF HostExact
  <2>3. \A r \in Threads : nfd'[r] # NULL =>
         /\ refcount'[nfd'[r]] = 0 /\ nfd'[r] > 2
         /\ \A s \in Threads \ {r} : nfd'[s] # nfd'[r]
    BY <1>0, <1>2, <1>3, <1>4 DEF HostExact
  <2> QED BY <2>2, <2>3 DEF HostExact
<1>7. Counted'
  BY <1>0, <1>2 DEF Counted, Count
<1>8. Types'
  BY <1>0, <1>1, <1>2, <1>4 DEF Shape, Types, Places
<1>9. \A s \in Threads : s # t => Fits(s)'
  BY <1>0, <1>2, <1>4, OthersFit DEF Shape, Types
<1>10. Fits(t)'
  BY <1>0, <1>2, <1>3, <1>4, ZenonT(30) DEF Shape, Types, Fits
<1> QED BY <1>6, <1>7, <1>8, <1>9, <1>10 DEF FdInv, Shape

(* The new descriptor is closed again.                                      *)
LEMMA CloseNewStep ==
    ASSUME FdInv, NEW t \in Threads, CloseNew(t)
    PROVE  FdInv'
<1> DEFINE n == nfd[t]
<1>0. Shape /\ Counted /\ HostExact
  BY DEF FdInv
<1>1. /\ object' = object /\ refcount' = refcount /\ held' = held /\ lost' = lost
      /\ pc[t] = "opened" /\ pc' = [pc EXCEPT ![t] = "idle"]
      /\ host' = host \ {n} /\ nfd' = [nfd EXCEPT ![t] = NULL]
  BY DEF CloseNew, Go, table
<1>2. n \in Numbers /\ n # NULL
  BY <1>0, <1>1, ZenonT(30) DEF Shape, Types, Fits
<1>3. refcount[n] = 0 /\ n > 2 /\ \A s \in Threads : s # t => nfd[s] # n
  BY <1>0, <1>2 DEF HostExact
<1>4. /\ nfd' \in [Threads -> Numbers \cup {NULL}] /\ nfd'[t] = NULL
      /\ \A s \in Threads : s # t => nfd'[s] = nfd[s]
  BY <1>0, <1>1 DEF Shape, Types
<1>5. HostExact'
  <2> DEFINE Old == {m \in Numbers : \E s \in Threads : nfd[s] = m}
             New == {m \in Numbers : \E s \in Threads : nfd'[s] = m}
             Counts == {m \in Numbers : refcount[m] > 0}
             Std == 0 .. 2
  <2>1. New = Old \ {n}
    BY <1>3, <1>4, FdAssumption
  <2>2. n \notin Counts /\ n \notin Std
    BY <1>2, <1>3, FdAssumption
  <2>3. host = Std \cup Counts \cup Old
    BY <1>0 DEF HostExact
  <2> HIDE DEF Old, New, Counts, Std
  <2>4. host' = Std \cup Counts \cup New
    BY <1>1, <2>1, <2>2, <2>3
  <2>5. host' = 0 .. 2 \cup {m \in Numbers : refcount'[m] > 0}
                       \cup {m \in Numbers : \E s \in Threads : nfd'[s] = m}
    BY <1>1, <2>4 DEF Counts, New, Std
  <2>6. \A r \in Threads : nfd'[r] # NULL =>
         /\ refcount'[nfd'[r]] = 0 /\ nfd'[r] > 2
         /\ \A s \in Threads \ {r} : nfd'[s] # nfd'[r]
    BY <1>0, <1>1, <1>4 DEF HostExact
  <2> QED BY <2>5, <2>6 DEF HostExact
<1>6. Counted'
  BY <1>0, <1>1 DEF Counted, Count
<1>7. Types'
  BY <1>0, <1>1, <1>4 DEF Shape, Types, Places
<1>8. \A s \in Threads : s # t => Fits(s)'
  BY <1>0, <1>1, <1>4, OthersFit DEF Shape, Types
<1>9. Fits(t)'
  BY <1>0, <1>1, <1>4 DEF Shape, Types, Fits
<1> QED BY <1>5, <1>6, <1>7, <1>8, <1>9 DEF FdInv, Shape

(* fd_object_new: the descriptor of path_open becomes an object with one    *)
(* reference, that of the local variable.                                   *)
LEMMA NewStep ==
    ASSUME FdInv, NEW t \in Threads, fd_object_new(t)
    PROVE  FdInv'
<1> DEFINE n == nfd[t]
<1>0. Shape /\ Counted /\ HostExact
  BY DEF FdInv
<1>1. /\ object' = object /\ host' = host /\ lost' = lost
      /\ pc[t] = "opened" /\ pc' = [pc EXCEPT ![t] = "insert"]
      /\ refcount' = [refcount EXCEPT ![n] = 1]
      /\ held' = [held EXCEPT ![<<t, 1>>] = n]
      /\ nfd' = [nfd EXCEPT ![t] = NULL]
  BY DEF fd_object_new, Go, table
<1>2. n \in Numbers /\ n # NULL /\ held[<<t, 1>>] = NULL /\ held[<<t, 2>>] = NULL
  BY <1>0, <1>1 DEF Shape, Types, Fits
<1>3. refcount[n] = 0 /\ n > 2 /\ \A s \in Threads : s # t => nfd[s] # n
  BY <1>0, <1>2 DEF HostExact
<1>4. /\ nfd' \in [Threads -> Numbers \cup {NULL}] /\ nfd'[t] = NULL
      /\ \A s \in Threads : s # t => nfd'[s] = nfd[s]
  BY <1>0, <1>1 DEF Shape, Types
<1>5. /\ refcount' \in [Numbers -> Nat]
      /\ \A m \in Numbers : refcount'[m] = IF m = n THEN 1 ELSE refcount[m]
  BY <1>0, <1>1, <1>2 DEF Shape, Types
<1>6. OneChanged(t, 1, n)
  <2>1. SetLocal(t, 1, n)
    BY <1>1 DEF SetLocal
  <2> QED BY <1>0, <1>2, <2>1, LocalOne
<1>7. HostExact'
  <2> DEFINE Old == {m \in Numbers : \E s \in Threads : nfd[s] = m}
             New == {m \in Numbers : \E s \in Threads : nfd'[s] = m}
             Before == {m \in Numbers : refcount[m] > 0}
             After == {m \in Numbers : refcount'[m] > 0}
             Std == 0 .. 2
  <2>1. New = Old \ {n} /\ n \in Old
    BY <1>2, <1>3, <1>4, FdAssumption
  <2>2. After = Before \cup {n}
    BY <1>2, <1>5
  <2>3. host = Std \cup Before \cup Old
    BY <1>0 DEF HostExact
  <2> HIDE DEF Old, New, Before, After, Std
  <2>4. host' = Std \cup After \cup New
    BY <1>1, <2>1, <2>2, <2>3
  <2>5. host' = 0 .. 2 \cup {m \in Numbers : refcount'[m] > 0}
                       \cup {m \in Numbers : \E s \in Threads : nfd'[s] = m}
    BY <2>4 DEF After, New, Std
  <2>6. \A r \in Threads : nfd'[r] # NULL =>
         /\ refcount'[nfd'[r]] = 0 /\ nfd'[r] > 2
         /\ \A s \in Threads \ {r} : nfd'[s] # nfd'[r]
    <3> SUFFICES ASSUME NEW r \in Threads, nfd'[r] # NULL
                 PROVE  /\ refcount'[nfd'[r]] = 0 /\ nfd'[r] > 2
                        /\ \A s \in Threads \ {r} : nfd'[s] # nfd'[r]
      OBVIOUS
    <3>1. r # t /\ nfd'[r] = nfd[r]
      BY <1>4
    <3>2. nfd[r] \in Numbers /\ nfd[r] # n /\ nfd[r] # NULL
      BY <1>0, <1>3, <3>1 DEF Shape, Types
    <3>3. refcount[nfd[r]] = 0 /\ nfd[r] > 2 /\ \A s \in Threads \ {r} : nfd[s] # nfd[r]
      BY <1>0, <3>2 DEF HostExact
    <3>4. refcount'[nfd[r]] = 0
      BY <1>5, <3>2, <3>3
    <3> QED BY <1>4, <3>1, <3>2, <3>3, <3>4
  <2> QED BY <2>5, <2>6 DEF HostExact
<1>8. Counted'
  <2> SUFFICES ASSUME NEW m \in Numbers
               PROVE  refcount'[m] = Count(object', Fds, m) + Count(held', Locals, m) + lost'[m]
    BY DEF Counted, Count
  <2>1. Count(held', Locals, m) + One(held[<<t, 1>>] = m)
          = Count(held, Locals, m) + One(held'[<<t, 1>>] = m)
    BY <1>6, HeldOne
  <2>2. One(held[<<t, 1>>] = m) = 0 /\ One(held'[<<t, 1>>] = m) = One(m = n)
    BY <1>2, <1>6, FdAssumption DEF One, OneChanged
  <2>3. refcount'[m] = refcount[m] + One(m = n)
    BY <1>0, <1>3, <1>5 DEF One, Shape, Types
  <2>4. /\ Count(object, Fds, m) \in Nat /\ Count(held, Locals, m) \in Nat
        /\ Count(held', Locals, m) \in Nat /\ lost[m] \in Nat
        /\ refcount[m] = Count(object, Fds, m) + Count(held, Locals, m) + lost[m]
    BY <1>0, Terms
  <2> HIDE DEF n
  <2> QED BY <1>1, <2>1, <2>2, <2>3, <2>4 DEF One
<1>9. Types'
  BY <1>0, <1>1, <1>4, <1>5, <1>6 DEF Shape, Types, Places, OneChanged
<1>10. \A s \in Threads : s # t => Fits(s)'
  <2>1. \A s \in Threads : s # t /\ pc[s] = "insert" =>
            refcount'[held[<<s, 1>>]] = refcount[held[<<s, 1>>]]
    BY <1>0, <1>3, <1>5, ZenonT(30) DEF Shape, Fits
  <2>2. \A s \in Threads : s # t =>
             /\ pc'[s] = pc[s] /\ nfd'[s] = nfd[s]
             /\ held'[<<s, 1>>] = held[<<s, 1>>] /\ held'[<<s, 2>>] = held[<<s, 2>>]
    BY <1>0, <1>1, <1>4, <1>6 DEF Shape, Types, OneChanged
  <2> QED BY <1>0, <2>1, <2>2, OthersFit
<1>11. Fits(t)'
  <2>1. pc'[t] = "insert" /\ nfd'[t] = NULL
    BY <1>0, <1>1, <1>4 DEF Shape, Types
  <2>2. held'[<<t, 1>>] = n /\ held'[<<t, 2>>] = NULL
    BY <1>2, <1>6 DEF OneChanged
  <2>3. refcount'[n] = 1
    BY <1>2, <1>5
  <2> HIDE DEF n
  <2> QED BY <1>2, <2>1, <2>2, <2>3 DEF Fits
<1> QED BY <1>7, <1>8, <1>9, <1>10, <1>11 DEF FdInv, Shape

(* fd_table_insert: the reference goes from the local variable to the entry. *)
LEMMA InsertStep ==
    ASSUME FdInv, NEW t \in Threads, NEW fd \in Fds, fd_table_insert(t, fd), stopped' = "no"
    PROVE  FdInv'
<1> DEFINE n == held[<<t, 1>>]
<1>0. Shape /\ Counted /\ HostExact
  BY DEF FdInv
<1>1. /\ lost' = lost /\ nfd' = nfd /\ refcount' = refcount /\ host' = host
      /\ object[fd] = NULL /\ object' = [object EXCEPT ![fd] = n]
      /\ held' = [held EXCEPT ![<<t, 1>>] = NULL]
      /\ pc[t] = "insert" /\ pc' = [pc EXCEPT ![t] = "idle"]
  BY DEF fd_table_insert, Go, Stop
<1>2. n \in Numbers /\ held[<<t, 2>>] = NULL /\ nfd[t] = NULL
  BY <1>0, <1>1 DEF Shape, Types, Fits
<1>3. /\ object' \in [Fds -> Numbers \cup {NULL}] /\ object'[fd] = n
      /\ \A x \in Fds : x # fd => object'[x] = object[x]
  BY <1>0, <1>1, <1>2 DEF Shape, Types
<1>4. OneChanged(t, 1, NULL)
  <2>1. SetLocal(t, 1, NULL)
    BY <1>1 DEF SetLocal
  <2> QED BY <1>0, <2>1, LocalOne
<1>5. Counted'
  <2> SUFFICES ASSUME NEW m \in Numbers
               PROVE  refcount'[m] = Count(object', Fds, m) + Count(held', Locals, m) + lost'[m]
    BY DEF Counted, Count
  <2>1. Count(held', Locals, m) + One(held[<<t, 1>>] = m)
          = Count(held, Locals, m) + One(held'[<<t, 1>>] = m)
    BY <1>4, HeldOne
  <2>2. Count(object', Fds, m) + One(object[fd] = m) = Count(object, Fds, m) + One(object'[fd] = m)
    BY <1>3, ObjectOne
  <2>3. /\ One(object'[fd] = m) = One(held[<<t, 1>>] = m)
        /\ One(held'[<<t, 1>>] = m) = 0 /\ One(object[fd] = m) = 0
    BY <1>1, <1>3, <1>4, FdAssumption DEF One, OneChanged
  <2>4. /\ Count(object, Fds, m) \in Nat /\ Count(object', Fds, m) \in Nat
        /\ Count(held, Locals, m) \in Nat /\ Count(held', Locals, m) \in Nat
        /\ lost[m] \in Nat
        /\ refcount[m] = Count(object, Fds, m) + Count(held, Locals, m) + lost[m]
    BY <1>0, Terms
  <2> QED BY <1>1, <2>1, <2>2, <2>3, <2>4, SMTT(30) DEF One
<1>6. HostExact'
  BY <1>0, <1>1, HostKept DEF Shape, Types
<1>7. Types'
  BY <1>0, <1>1, <1>3, <1>4 DEF Shape, Types, Places, OneChanged
<1>8. \A s \in Threads : s # t => Fits(s)'
  <2>1. \A s \in Threads : s # t =>
             /\ pc'[s] = pc[s] /\ nfd'[s] = nfd[s]
             /\ held'[<<s, 1>>] = held[<<s, 1>>] /\ held'[<<s, 2>>] = held[<<s, 2>>]
    BY <1>0, <1>1, <1>4 DEF Shape, Types, OneChanged
  <2> QED BY <1>0, <1>1, <2>1, OthersFit
<1>9. Fits(t)'
  BY <1>0, <1>1, <1>2, <1>4 DEF Shape, Types, Fits, OneChanged
<1> QED BY <1>5, <1>6, <1>7, <1>8, <1>9 DEF FdInv, Shape

(* A step that changes no object, or only the place of the thread.          *)
LEMMA StillStep ==
    ASSUME FdInv, UNCHANGED <<object, held, refcount, lost, host, nfd>>,
           \/ pc' = pc
           \/ \E t \in Threads : /\ pc[t] \in {"link", "rename", "validate", "open", "insert"}
                                 /\ pc' = [pc EXCEPT ![t] = "use"]
    PROVE  FdInv'
<1>1. Counted'
  BY DEF FdInv, Counted, Count
<1>2. HostExact'
  BY HostKept DEF FdInv, Shape, Types
<1>3. CASE pc' = pc
  BY <1>1, <1>2, <1>3 DEF FdInv, Shape, Types, Fits
<1>4. ASSUME NEW t \in Threads, pc[t] \in {"link", "rename", "validate", "open", "insert"},
             pc' = [pc EXCEPT ![t] = "use"]
      PROVE  FdInv'
  <2>1. Types'
    BY <1>4 DEF FdInv, Shape, Types, Places
  <2>2. \A s \in Threads : s # t => Fits(s)'
    BY <1>4, OthersFit DEF FdInv, Shape, Types
  <2>3. Fits(t)'
    BY <1>4, ZenonT(30) DEF FdInv, Shape, Types, Fits
  <2> QED BY <1>1, <1>2, <2>1, <2>2, <2>3 DEF FdInv, Shape
<1> QED BY <1>3, <1>4, SMTT(30)

----------------------------------------------------------------------------
(* What wasm_runtime_init_wasi leaves.                                      *)
LEMMA InitInv == Init => FdInv
<1> SUFFICES ASSUME Init PROVE FdInv
  OBVIOUS
<1>1. /\ used = 3 + DirCount /\ DirCount \in Nat
      /\ Fds \subseteq Nat /\ Numbers \subseteq Nat /\ 0 .. 2 + DirCount \subseteq Fds \cap Numbers
      /\ NULL \notin Numbers
  BY FdAssumption DEF Init
<1>2. \A n \in Nat : n < used <=> n \in 0 .. 2 + DirCount
  BY <1>1
<1>3. Types
  <2>1. object \in [Fds -> Numbers \cup {NULL}]
    BY <1>1, <1>2 DEF Init
  <2>2. held \in [Locals -> Numbers \cup {NULL}] /\ nfd \in [Threads -> Numbers \cup {NULL}]
    BY DEF Init
  <2>3. refcount \in [Numbers -> Nat] /\ lost \in [Numbers -> Nat]
    BY DEF Init
  <2>4. host \subseteq Numbers /\ pc \in [Threads -> Places]
    BY <1>1 DEF Init, Places
  <2> QED BY <2>1, <2>2, <2>3, <2>4 DEF Types
<1>4. \A t \in Threads : Fits(t)
  BY DEF Init, Fits, Locals
<1>5. Counted
  <2> SUFFICES ASSUME NEW n \in Numbers
               PROVE  refcount[n] = Count(object, Fds, n) + Count(held, Locals, n) + lost[n]
    BY DEF Counted
  <2>1. Count(held, Locals, n) = 0
    <3>1. {l \in Locals : held[l] = n} = {}
      BY <1>1 DEF Init
    <3> QED BY <3>1, FS_EmptySet DEF Count
  <2>2. Count(object, Fds, n) = One(n < used)
    <3>1. CASE n < used
      <4>1. {fd \in Fds : object[fd] = n} = {n}
        BY <1>1, <1>2, <3>1 DEF Init
      <4> QED BY <3>1, <4>1, FS_Singleton DEF Count, One
    <3>2. CASE ~(n < used)
      <4>1. {fd \in Fds : object[fd] = n} = {}
        BY <1>1, <1>2, <3>2 DEF Init
      <4> QED BY <3>2, <4>1, FS_EmptySet DEF Count, One
    <3> QED BY <3>1, <3>2
  <2>3. refcount[n] = One(n < used) /\ lost[n] = 0
    BY DEF Init, One
  <2> QED BY <2>1, <2>2, <2>3 DEF One
<1>6. HostExact
  <2>1. {n \in Numbers : refcount[n] > 0} = 0 .. 2 + DirCount
    <3>1. \A n \in Numbers : (refcount[n] > 0) <=> (n < used)
      BY DEF Init
    <3>2. \A n \in Numbers : (refcount[n] > 0) <=> (n \in 0 .. 2 + DirCount)
      BY <1>1, <1>2, <3>1
    <3> QED BY <1>1, <3>2, ZenonT(30)
  <2>2. {n \in Numbers : \E t \in Threads : nfd[t] = n} = {}
    BY <1>1 DEF Init
  <2>3. 0 .. 2 \subseteq 0 .. 2 + DirCount
    BY <1>1
  <2>4. host = 0 .. 2 + DirCount /\ \A t \in Threads : nfd[t] = NULL
    BY DEF Init
  <2>5. host = 0 .. 2 \cup {n \in Numbers : refcount[n] > 0}
                     \cup {n \in Numbers : \E t \in Threads : nfd[t] = n}
    BY <2>1, <2>2, <2>3, <2>4
  <2> QED BY <2>4, <2>5 DEF HostExact
<1> QED BY <1>3, <1>4, <1>5, <1>6 DEF FdInv, Shape

(* Every call that looks descriptors up.                                    *)
LEMMA LookupStep ==
    ASSUME FdInv, NEW t \in Threads, NEW fd \in Fds, Lookup(t, fd)
    PROVE  FdInv'
<1>1. ASSUME NEW base, NEW next \in {"use", "validate", "link", "rename"}, Call(t, fd, base, next)
      PROVE  FdInv'
  <2>1. held[<<t, 1>>] = NULL /\ held[<<t, 2>>] = NULL
    BY <1>1 DEF Call, FdInv, Shape, Fits
  <2>2. pc[t] = "idle" /\ fd_object_get(t, 1, fd, base, {}) /\ Go(t, next) /\ nfd' = nfd
    BY <1>1 DEF Call
  <2> QED BY <2>1, <2>2, GetStep
<1>2. CASE path_open(t, fd)
  <2>1. pc[t] = "idle" /\ Go(t, "open") /\ nfd' = nfd
    BY <1>2 DEF path_open
  <2>2. held[<<t, 1>>] = NULL /\ held[<<t, 2>>] = NULL
    BY <2>1 DEF FdInv, Shape, Fits
  <2>3. \E base, inheriting : fd_object_get(t, 1, fd, base, inheriting)
    BY <1>2 DEF path_open
  <2> QED BY <2>1, <2>2, <2>3, GetStep
<1>3. CASE SecondPath(t, fd)
  <2>1. pc[t] \in {"link", "rename"} /\ nfd' = nfd
    BY <1>3 DEF SecondPath
  <2>2. held[<<t, 2>>] = NULL
    BY <2>1, ZenonT(30) DEF FdInv, Shape, Fits
  <2>3. \/ fd_object_get(t, 2, fd, {"PATH_LINK_TARGET"}, {}) /\ Go(t, "validate")
        \/ fd_object_get(t, 2, fd, {"PATH_RENAME_TARGET"}, {}) /\ Go(t, "use")
    BY <1>3 DEF SecondPath
  <2>4. ASSUME fd_object_get(t, 2, fd, {"PATH_LINK_TARGET"}, {}), Go(t, "validate") PROVE FdInv'
    BY <2>1, <2>2, <2>4, GetStep, ZenonT(30)
  <2>5. ASSUME fd_object_get(t, 2, fd, {"PATH_RENAME_TARGET"}, {}), Go(t, "use") PROVE FdInv'
    BY <2>1, <2>2, <2>5, GetStep, ZenonT(30)
  <2> QED BY <2>3, <2>4, <2>5
<1>4. CASE path_symlink(t, fd)
  BY <1>1, <1>4 DEF path_symlink
<1>5. CASE path_link(t, fd)
  BY <1>1, <1>5 DEF path_link
<1>6. CASE path_rename(t, fd)
  BY <1>1, <1>6 DEF path_rename
<1>7. CASE \E base : Call(t, fd, base, "use")
  BY <1>1, <1>7
<1> QED BY <1>2, <1>3, <1>4, <1>5, <1>6, <1>7
     DEF Lookup, fd_datasync, fd_pread, fd_pwrite, fd_read, fd_seek, fd_tell,
         fd_fdstat_set_flags, fd_sync, fd_write, fd_advise, fd_allocate, fd_readdir,
         fd_filestat_get, fd_filestat_set_size, fd_filestat_set_times, sock_recv, sock_send,
         sock_shutdown, path_create_directory, path_readlink, path_filestat_get,
         path_filestat_set_times, path_unlink_file, path_remove_directory

(* FdInv is inductive: one case for each action.                            *)
LEMMA NextInv == FdInv /\ [Next]_vars => FdInv'
<1> SUFFICES ASSUME FdInv, [Next]_vars PROVE FdInv'
  OBVIOUS
<1>1. Named \subseteq Fds /\ Picks \subseteq Fds
  BY FdAssumption
<1>2. ASSUME NEW how, Stop(how) PROVE FdInv'
  BY <1>2, StillStep DEF Stop, table, objects
<1>3. ASSUME NEW t \in Threads, NEW fd \in Named, Lookup(t, fd) PROVE FdInv'
  BY <1>1, <1>3, LookupStep
<1>4. ASSUME NEW t \in Threads, NEW fd \in Named, fd_close(t, fd) PROVE FdInv'
  <2>1. Stop("abort") \/ stopped' = "no"
    BY <1>4 DEF fd_close
  <2> QED BY <1>1, <1>2, <1>4, <2>1, CloseStep, SMTT(30)
<1>5. ASSUME NEW t \in Threads, NEW fd \in Named, fd_fdstat_set_rights(t, fd) PROVE FdInv'
  BY <1>5, StillStep DEF fd_fdstat_set_rights, objects
<1>6. ASSUME NEW t \in Threads, NEW fd1 \in Named, NEW fd2 \in Named, poll_oneoff(t, fd1, fd2)
      PROVE  FdInv'
  BY <1>1, <1>6, PollStep
<1>7. ASSUME NEW t \in Threads, NEW fd1 \in Named, NEW fd2 \in Named, fd_renumber(t, fd1, fd2)
      PROVE  FdInv'
  <2>1. Stop("abort") \/ Stop("crash") \/ stopped' = "no"
    BY <1>7 DEF fd_renumber
  <2> QED BY <1>1, <1>2, <1>7, <2>1, RenumberStep
<1>8. ASSUME NEW t \in Threads, NEW k \in {1, 2}, Release(t, k) PROVE FdInv'
  BY <1>8, ReleaseStep
<1>9. ASSUME NEW t \in Threads, OnlyRelease(t) PROVE FdInv'
  BY <1>9, StillStep, ZenonT(30) DEF OnlyRelease, Go, table, objects
<1>10. ASSUME NEW t \in Threads, Denied(t) PROVE FdInv'
  BY <1>10, DeniedStep
<1>11. ASSUME NEW t \in Threads, OpenAt(t) PROVE FdInv'
  BY <1>11, OpenAtStep
<1>12. ASSUME NEW t \in Threads, CloseNew(t) PROVE FdInv'
  BY <1>12, CloseNewStep
<1>13. ASSUME NEW t \in Threads, fd_object_new(t) PROVE FdInv'
  BY <1>13, NewStep
<1>14. ASSUME NEW t \in Threads, GrowFails(t) PROVE FdInv'
  BY <1>14, StillStep, ZenonT(30) DEF GrowFails, Go, table, objects
<1>15. ASSUME NEW t \in Threads, NEW fd \in Picks, fd_table_insert(t, fd) PROVE FdInv'
  <2>1. Stop("abort") \/ Stop("hang") \/ stopped' = "no"
    BY <1>15 DEF fd_table_insert
  <2> QED BY <1>1, <1>2, <1>15, <2>1, InsertStep
<1>16. CASE UNCHANGED vars
  BY <1>16, StillStep DEF vars, table, objects
<1> QED BY <1>3, <1>4, <1>5, <1>6, <1>7, <1>8, <1>9, <1>10, <1>11, <1>12, <1>13, <1>14,
           <1>15, <1>16 DEF Next

(* FdInv holds in every state of the table.                                 *)
THEOREM FdInvariant == Spec => []FdInv
BY InitInv, NextInv, PTL DEF Spec

(* The reference counts of fd_object_get, fd_object_release, fd_renumber    *)
(* and fd_table_attach are exact, for every number of threads, entries and  *)
(* descriptors and whatever rights are asked for.                           *)
THEOREM RefcountCorrect == Spec => []RefcountExact
<1>1. FdInv => RefcountExact
  BY DEF FdInv, Counted, Count, RefcountExact
<1> QED BY <1>1, FdInvariant, PTL

(* No call uses a descriptor of the host after fd_object_release has closed *)
(* it, and no descriptor stays open without a user, for every number of     *)
(* threads, entries and descriptors.                                        *)
THEOREM HostCorrect == Spec => []HostExact
<1>1. FdInv => HostExact
  BY DEF FdInv
<1> QED BY <1>1, FdInvariant, PTL

----------------------------------------------------------------------------
(* Every entry has rights.                                                  *)
RightsOfAll ==
    /\ rights_base = [fd \in Fds |-> rights_base[fd]]
    /\ rights_inheriting = [fd \in Fds |-> rights_inheriting[fd]]

(* What the entry fd has after the step, an entry had before it.            *)
Covers(e, fd) ==
    /\ object[e] = object'[fd]
    /\ rights_base'[fd] \subseteq rights_base[e]
    /\ rights_inheriting'[fd] \subseteq rights_inheriting[e]

(* RightsTo shrinks when every entry is covered.                            *)
LEMMA Covered ==
    ASSUME NEW n, \A fd \in Fds : object'[fd] = n => \E e \in Fds : Covers(e, fd)
    PROVE  RightsTo(n)' \subseteq RightsTo(n)
<1>1. ASSUME NEW fd \in Fds, object'[fd] = n, NEW r \in rights_base'[fd] \cup rights_inheriting'[fd]
      PROVE  r \in RightsTo(n)
  <2>1. PICK e \in Fds : Covers(e, fd)
    BY <1>1
  <2> QED BY <1>1, <2>1 DEF Covers, RightsTo
<1> QED BY <1>1, SMTT(30) DEF RightsTo

(* The rights to the objects after one step.                                *)
Shrunk == \A n \in Numbers : (\E fd \in Fds : object[fd] = n) => RightsTo(n)' \subseteq RightsTo(n)

(* The table is as it was.                                                  *)
LEMMA SameTable ==
    ASSUME RightsOfAll, UNCHANGED <<object, rights_base, rights_inheriting>>
    PROVE  Shrunk /\ RightsOfAll'
BY DEF Shrunk, RightsTo, RightsOfAll

(* One case for each action that changes the table.                         *)
LEMMA RightsStep == FdInv /\ RightsOfAll /\ [Next]_vars => RightsOfAll' /\ [Shrunk]_vars
<1> SUFFICES ASSUME FdInv, RightsOfAll, [Next]_vars PROVE RightsOfAll' /\ Shrunk
  OBVIOUS
<1>1. Named \subseteq Fds /\ Picks \subseteq Fds /\ object \in [Fds -> Numbers \cup {NULL}]
  BY FdAssumption DEF FdInv, Shape, Types
<1>2. ASSUME \A n \in Numbers, fd \in Fds :
               (\E e \in Fds : object[e] = n) /\ object'[fd] = n => \E e \in Fds : Covers(e, fd)
      PROVE  Shrunk
  BY <1>2, Covered DEF Shrunk
<1>3. ASSUME NEW how, Stop(how) PROVE RightsOfAll' /\ Shrunk
  BY <1>3, SameTable DEF Stop, table
<1>4. ASSUME NEW t \in Threads, NEW fd \in Named, Lookup(t, fd) PROVE RightsOfAll' /\ Shrunk
  <2>1. UNCHANGED table
    BY <1>4 DEF Lookup, Call, SecondPath, path_open, fd_object_get,
         fd_datasync, fd_pread, fd_pwrite, fd_read, fd_seek, fd_tell,
         fd_fdstat_set_flags, fd_sync, fd_write, fd_advise, fd_allocate, fd_readdir,
         fd_filestat_get, fd_filestat_set_size, fd_filestat_set_times, sock_recv, sock_send,
         sock_shutdown, path_create_directory, path_readlink, path_filestat_get,
         path_filestat_set_times, path_unlink_file, path_remove_directory, path_symlink,
         path_link, path_rename
  <2> QED BY <2>1, SameTable DEF table
<1>5. ASSUME NEW t \in Threads, NEW fd \in Named, fd_close(t, fd), ~ Stop("abort")
      PROVE  RightsOfAll' /\ Shrunk
  <2>1. UNCHANGED <<rights_base, rights_inheriting>> /\ object' = [object EXCEPT ![fd] = NULL]
    BY <1>5 DEF fd_close
  <2>2. \A n \in Numbers, e \in Fds : object'[e] = n => Covers(e, e)
    BY <1>1, <2>1, FdAssumption DEF Covers
  <2> QED BY <1>2, <2>1, <2>2, SMTT(30) DEF RightsOfAll
<1>6. ASSUME NEW t \in Threads, NEW fd \in Named, fd_fdstat_set_rights(t, fd)
      PROVE  RightsOfAll' /\ Shrunk
  <2>1. PICK base \in Requests, inheriting \in Requests :
           /\ base \subseteq rights_base[fd] /\ inheriting \subseteq rights_inheriting[fd]
           /\ rights_base' = [rights_base EXCEPT ![fd] = base]
           /\ rights_inheriting' = [rights_inheriting EXCEPT ![fd] = inheriting]
           /\ object' = object
    BY <1>6, ZenonT(30) DEF fd_fdstat_set_rights, fd_table_get_entry
  <2>2. \A e \in Fds : /\ rights_base'[e] = IF e = fd THEN base ELSE rights_base[e]
                       /\ rights_inheriting'[e] = IF e = fd THEN inheriting ELSE rights_inheriting[e]
    BY <2>1, ZenonT(30) DEF RightsOfAll
  <2>3. \A e \in Fds : Covers(e, e)
    BY <2>1, <2>2 DEF Covers
  <2>4. RightsOfAll'
    BY <2>1, ZenonT(30) DEF RightsOfAll
  <2> QED BY <1>2, <2>3, <2>4
<1>7. ASSUME NEW t \in Threads, NEW from \in Named, NEW to \in Named, fd_renumber(t, from, to),
             ~ Stop("abort"), ~ Stop("crash")
      PROVE  RightsOfAll' /\ Shrunk
  <2>1. /\ object' = [object EXCEPT ![to] = object[from], ![from] = NULL]
        /\ rights_base' = [rights_base EXCEPT ![to] = rights_base[from]]
        /\ rights_inheriting' = [rights_inheriting EXCEPT ![to] = rights_inheriting[from]]
        /\ from # to
    BY <1>7 DEF fd_renumber
  <2>2. \A e \in Fds :
          /\ object'[e] = IF e = from THEN NULL ELSE IF e = to THEN object[from] ELSE object[e]
          /\ rights_base'[e] = IF e = to THEN rights_base[from] ELSE rights_base[e]
          /\ rights_inheriting'[e] = IF e = to THEN rights_inheriting[from] ELSE rights_inheriting[e]
    BY <1>1, <2>1, ZenonT(30) DEF RightsOfAll
  <2>3. \A n \in Numbers, e \in Fds : object'[e] = n => Covers(IF e = to THEN from ELSE e, e)
    BY <1>1, <2>2, FdAssumption DEF Covers
  <2>4. RightsOfAll'
    BY <2>1, ZenonT(30) DEF RightsOfAll
  <2> QED BY <1>1, <1>2, <2>3, <2>4
<1>8. ASSUME NEW t \in Threads, NEW fd \in Picks, fd_table_insert(t, fd),
             ~ Stop("abort"), ~ Stop("hang")
      PROVE  RightsOfAll' /\ Shrunk
  <2>1. /\ object' = [object EXCEPT ![fd] = held[<<t, 1>>]]
        /\ rights_base' = [rights_base EXCEPT ![fd] = want[t].base]
        /\ rights_inheriting' = [rights_inheriting EXCEPT ![fd] = want[t].inheriting]
        /\ pc[t] = "insert"
    BY <1>8 DEF fd_table_insert
  <2>2. \A e \in Fds : object[e] # held[<<t, 1>>]
    BY <2>1, Exclusive DEF FdInv
  <2>3. \A e \in Fds : e # fd => /\ object'[e] = object[e] /\ rights_base'[e] = rights_base[e]
                                 /\ rights_inheriting'[e] = rights_inheriting[e]
    BY <1>1, <2>1, ZenonT(30) DEF RightsOfAll
  <2>4. object'[fd] = held[<<t, 1>>]
    BY <1>1, <2>1
  <2>5. \A n \in Numbers, e \in Fds :
           (\E x \in Fds : object[x] = n) /\ object'[e] = n => Covers(e, e)
    BY <2>2, <2>3, <2>4 DEF Covers
  <2>6. RightsOfAll'
    BY <2>1, ZenonT(30) DEF RightsOfAll
  <2> QED BY <1>2, <2>5, <2>6
<1>9. ASSUME NEW t \in Threads,
             \/ \E fd1, fd2 \in Named : poll_oneoff(t, fd1, fd2)
             \/ \E k \in {1, 2} : Release(t, k)
             \/ OnlyRelease(t) \/ Denied(t) \/ OpenAt(t) \/ CloseNew(t) \/ fd_object_new(t)
             \/ GrowFails(t)
      PROVE  RightsOfAll' /\ Shrunk
  <2>1. UNCHANGED table
    BY <1>9 DEF poll_oneoff, Release, OnlyRelease, Denied, OpenAt, CloseNew, fd_object_new, GrowFails
  <2> QED BY <2>1, SameTable DEF table
<1>10. CASE UNCHANGED vars
  BY <1>10, SameTable DEF vars, table
<1> QED BY <1>3, <1>4, <1>5, <1>6, <1>7, <1>8, <1>9, <1>10 DEF Next

(* No call on the table gives an object that is in it rights beyond those   *)
(* it has: fd_fdstat_set_rights only takes rights away, fd_renumber moves   *)
(* them, and what path_open inserts is an object that nobody else knows.    *)
THEOREM RightsCorrect == Spec => RightsShrink
<1>1. Init => RightsOfAll
  BY DEF Init, RightsOfAll
<1>2. [][Shrunk]_vars => RightsShrink
  BY DEF Shrunk, RightsShrink
<1> QED BY <1>1, <1>2, FdInvariant, RightsStep, PTL DEF Spec

=============================================================================
