--------------------------- MODULE ThreadsProofs ---------------------------
(* For every number of threads and of segments of the aux stack: no two     *)
(* threads share a segment, a thread that was created is registered, a join *)
(* returns what the thread returned, and the cluster has the threads that   *)
(* have not left it.                                                        *)
EXTENDS Threads, FiniteSetTheorems, TLAPS

-----------------------------------------------------------------------------
(* Lists without repetition, as those of bh_list are: what adding in front  *)
(* and taking out do to the set of their elements.                          *)

(* No element is in the list twice.                                         *)
Distinct(s) == \A i, j \in DOMAIN s : s[i] = s[j] => i = j

(* Adding an element in front.                                              *)
LEMMA ConsList ==
    ASSUME NEW S, NEW s \in Seq(S), NEW x \in S
    PROVE  /\ bh_list_insert(s, x) \in Seq(S) /\ bh_list_insert(s, x) # <<>>
           /\ Range(bh_list_insert(s, x)) = Range(s) \cup {x}
           /\ Distinct(s) /\ x \notin Range(s) => Distinct(bh_list_insert(s, x))
<1> DEFINE c == <<x>> \o s
<1>1. /\ c \in Seq(S) /\ Len(c) = Len(s) + 1 /\ Len(s) \in Nat
      /\ DOMAIN c = 1 .. Len(s) + 1 /\ DOMAIN s = 1 .. Len(s)
      /\ c[1] = x /\ \A i \in 1 .. Len(s) : c[i + 1] = s[i]
  OBVIOUS
<1>2. \A i \in DOMAIN c : i = 1 \/ (i - 1 \in DOMAIN s /\ c[i] = s[i - 1])
  BY <1>1
<1> HIDE DEF c
<1>3. Range(c) = Range(s) \cup {x}
  <2>1. Range(c) \subseteq Range(s) \cup {x}
    BY <1>1, <1>2 DEF Range
  <2>2. Range(s) \cup {x} \subseteq Range(c)
    <3>1. \A i \in DOMAIN s : i + 1 \in DOMAIN c /\ c[i + 1] = s[i]
      BY <1>1
    <3>2. 1 \in DOMAIN c
      BY <1>1
    <3> QED BY <3>1, <3>2, <1>1 DEF Range
  <2> QED BY <2>1, <2>2
<1>4. ASSUME Distinct(s), x \notin Range(s) PROVE Distinct(c)
  <2>1. \A i \in DOMAIN s : s[i] # x
    BY <1>4 DEF Range
  <2>2. ASSUME NEW i \in DOMAIN c, NEW j \in DOMAIN c, c[i] = c[j] PROVE i = j
    <3>1. i \in Int /\ j \in Int
      BY <1>1
    <3>2. CASE i = 1 \/ j = 1
      BY <1>1, <1>2, <2>1, <2>2, <3>2
    <3>3. CASE i # 1 /\ j # 1
      <4>1. i - 1 = j - 1
        BY <1>2, <1>4, <2>2, <3>3 DEF Distinct
      <4> QED BY <3>1, <4>1
    <3> QED BY <3>2, <3>3
  <2> QED BY <2>2 DEF Distinct
<1>5. c # <<>>
  BY <1>1
<1> QED BY <1>1, <1>3, <1>4, <1>5 DEF c, bh_list_insert

(* A set of naturals that is not empty has a least element.                 *)
LEMMA Least ==
    ASSUME NEW S \in SUBSET Nat, S # {}
    PROVE  \E i \in S : \A j \in S : i <= j
<1> DEFINE R == OpToRel(<, Nat)
<1>1. IsWellFoundedOn(R, Nat)
  BY NatLessThanWellFounded
<1>2. \A i, j \in Nat : j < i => <<j, i>> \in R
  BY DEF OpToRel
<1> HIDE DEF R
<1>3. PICK i \in S : \A j \in S : ~(<<j, i>> \in R)
  BY <1>1, WFMin, ZenonT(30)
<1>4. ASSUME NEW j \in S PROVE i <= j
  <2>1. i \in Nat /\ j \in Nat /\ ~(j < i)
    BY <1>2, <1>3, ZenonT(30)
  <2> QED BY <2>1
<1> QED BY <1>4

(* Where a list has an element, taking it out closes the gap behind its     *)
(* first occurrence.                                                        *)
LEMMA RemovedAt ==
    ASSUME NEW S, NEW s \in Seq(S), NEW x \in Range(s)
    PROVE  \E k \in 1 .. Len(s) :
              /\ s[k] = x
              /\ bh_list_remove(s, x) =
                    [i \in 1 .. Len(s) - 1 |-> s[IF i < k THEN i ELSE i + 1]]
<1> DEFINE I == {i \in 1 .. Len(s) : s[i] = x}
           First(i) == s[i] = x /\ \A j \in 1 .. i - 1 : s[j] # x
           cur == CHOOSE i \in 1 .. Len(s) : First(i)
<1>1. \E i \in 1 .. Len(s) : s[i] = x
  BY DEF Range
<1>2. I \in SUBSET Nat /\ I # {}
  BY <1>1
<1>3. PICK i \in I : \A j \in I : i <= j
  BY <1>2, Least, ZenonT(30)
<1>4. i \in 1 .. Len(s) /\ First(i)
  BY <1>3
<1>5. cur \in 1 .. Len(s) /\ First(cur)
  BY <1>4, ZenonT(30)
<1>6. bh_list_remove(s, x) =
        [j \in 1 .. Len(s) - 1 |-> s[IF j < cur THEN j ELSE j + 1]]
  BY DEF bh_list_remove
<1> QED BY <1>5, <1>6

(* Taking out an element leaves the others.                                 *)
LEMMA RemoveList ==
    ASSUME NEW S, NEW s \in Seq(S), Distinct(s), NEW x
    PROVE  /\ bh_list_remove(s, x) \in Seq(S) /\ Distinct(bh_list_remove(s, x))
           /\ Range(bh_list_remove(s, x)) = Range(s) \ {x}
<1>1. CASE x \notin Range(s)
  <2>1. bh_list_remove(s, x) = s
    BY <1>1 DEF bh_list_remove
  <2> QED BY <1>1, <2>1
<1>2. CASE x \in Range(s)
  <2> DEFINE r == bh_list_remove(s, x)
  <2>1. PICK k \in 1 .. Len(s) :
           /\ s[k] = x
           /\ r = [i \in 1 .. Len(s) - 1 |-> s[IF i < k THEN i ELSE i + 1]]
    BY <1>2, RemovedAt
  <2> DEFINE old(i) == IF i < k THEN i ELSE i + 1
  <2> HIDE DEF r
  <2>2. /\ r \in Seq(S) /\ Len(r) = Len(s) - 1 /\ Len(s) \in Nat
        /\ DOMAIN r = 1 .. Len(s) - 1 /\ DOMAIN s = 1 .. Len(s)
        /\ \A i \in 1 .. Len(s) - 1 : r[i] = s[old(i)]
    <3>1. Len(s) - 1 \in Nat
      OBVIOUS
    <3>2. r \in [1 .. Len(s) - 1 -> S]
      BY <2>1
    <3> QED BY <2>1, <3>1, <3>2
  <2>3. \A i \in DOMAIN r : old(i) \in DOMAIN s /\ old(i) # k
    BY <2>2
  <2>4. \A i, j \in DOMAIN r : old(i) = old(j) => i = j
    BY <2>2
  <2>5. Distinct(r)
    BY <2>2, <2>3, <2>4 DEF Distinct
  <2>6. Range(r) \subseteq Range(s) \ {x}
    BY <2>1, <2>2, <2>3 DEF Distinct, Range
  <2>7. ASSUME NEW y \in Range(s) \ {x} PROVE y \in Range(r)
    <3>1. PICK j \in 1 .. Len(s) : s[j] = y /\ j # k
      BY <2>1 DEF Range
    <3>2. \E i \in 1 .. Len(s) - 1 : old(i) = j
      <4>1. CASE j < k
        BY <4>1, <2>2
      <4>2. CASE j > k
        <5>1. j - 1 \in 1 .. Len(s) - 1 /\ old(j - 1) = j
          BY <4>2, <2>2
        <5> QED BY <5>1
      <4> QED BY <3>1, <4>1, <4>2, <2>2
    <3>3. PICK i \in 1 .. Len(s) - 1 : old(i) = j
      BY <3>2
    <3>4. i \in DOMAIN r /\ r[i] = y
      BY <3>1, <3>3, <2>2
    <3> QED BY <3>4 DEF Range
  <2> QED BY <2>1, <2>2, <2>5, <2>6, <2>7 DEF r
<1> QED BY <1>1, <1>2

(* A list without repetition is as long as its set is large.                *)
LEMMA DistinctLen ==
    ASSUME NEW S, NEW s \in Seq(S), Distinct(s)
    PROVE  IsFiniteSet(Range(s)) /\ Cardinality(Range(s)) = Len(s)
<1>1. s \in Bijection(1 .. Len(s), Range(s))
  <2>1. s \in [1 .. Len(s) -> Range(s)]
    BY DEF Range
  <2> QED BY <2>1 DEF Bijection, Injection, Surjection, IsInjective, Distinct, Range
<1>2. IsFiniteSet(1 .. Len(s)) /\ Cardinality(1 .. Len(s)) = Len(s)
  <2>1. Len(s) \in Nat
    OBVIOUS
  <2> QED BY <2>1, FS_Interval
<1> QED BY <1>1, <1>2, FS_Bijection DEF ExistsBijection

(* How often an element is in a list without repetition.                    *)
LEMMA Occurrences ==
    ASSUME NEW S, NEW s \in Seq(S), Distinct(s), NEW x
    PROVE  Cardinality({k \in DOMAIN s : s[k] = x}) = IF x \in Range(s) THEN 1 ELSE 0
<1>1. CASE x \in Range(s)
  <2>1. PICK k \in DOMAIN s : s[k] = x
    BY <1>1 DEF Range
  <2>2. {j \in DOMAIN s : s[j] = x} = {k}
    BY <2>1 DEF Distinct
  <2> QED BY <1>1, <2>2, FS_Singleton, ZenonT(30)
<1>2. CASE x \notin Range(s)
  <2>1. {j \in DOMAIN s : s[j] = x} = {}
    BY <1>2 DEF Range
  <2> QED BY <1>2, <2>1, FS_EmptySet, ZenonT(30)
<1> QED BY <1>1, <1>2

-----------------------------------------------------------------------------

(* Where a thread that was created can be, where the main thread can be,    *)
(* and where the value of a thread is known.                                *)
ChildPlaces == {"unborn", "born", "run", "exit", "store", "status", "aux",
                "detach", "del", "check", "gone"}

MainPlaces == {"run", "create", "create_wait", "join", "join_wait",
               "term_visit", "term_wait", "term_next",
               "fail_visit", "fail_wait", "fail_next",
               "del", "check", "gone"}

Ending == {"aux", "detach", "del", "check", "gone"}

Nodes == [in : BOOLEAN,
          status : {"none", "init", "running", "exit", "cancelled"},
          joinable : BOOLEAN, u : Threads \cup {None, "thread"}]

Types ==
    /\ pc \in [Threads -> ChildPlaces \cup MainPlaces]
    /\ pc[Main] \in MainPlaces
    /\ \A c \in Children : pc[c] \in ChildPlaces
    /\ bottom \in [Threads -> 0 .. MaxThreads]
    /\ occupied \in [1 .. MaxThreads -> BOOLEAN]
    /\ DOMAIN who = Threads
    /\ signalled \in [Threads -> BOOLEAN]
    /\ node \in [Threads -> Nodes]
    /\ ret \in [Threads -> Threads \cup {None}]

(* A thread that runs on a segment has one of its own.                      *)
Segments ==
    /\ \A c \in Children :
         UsesStack(c) => bottom[c] \in 1 .. MaxThreads /\ occupied[bottom[c]]
    /\ \A t, u \in Children :
         UsesStack(t) /\ UsesStack(u) /\ t # u => bottom[t] # bottom[u]
    /\ \A i \in 1 .. MaxThreads :
          occupied[i] => \E t \in Children : UsesStack(t) /\ bottom[t] = i

(* The thread that has not registered itself is the one that its creator    *)
(* waits for, and has not signalled.                                        *)
Newborn ==
    \A c \in Children : pc[c] = "born" =>
        /\ pc[Main] \in {"create", "create_wait"}
        /\ who[Main] = c /\ ~ signalled[Main]

(* The value of a thread is stored before its status says so.               *)
Stored(c) ==
    /\ pc[c] \in {"exit", "store", "status"} => ret[c] = c
    /\ pc[c] = "status" => node[c].u = c
    /\ node[c].status = "exit" => ret[c] = c /\ node[c].u = c
    /\ node[c].in => pc[c] \notin {"unborn", "born"}
    /\ node[c].in /\ pc[c] \in Ending => ret[c] = c

(* A thread that is joined has registered, and has a value once it ends.    *)
Joined ==
    /\ pc[Main] \in {"join", "join_wait"} =>
         /\ who[Main] \in Children /\ pc[who[Main]] \notin {"unborn", "born"}
         /\ pc[who[Main]] \in Ending => ret[who[Main]] = who[Main]
    /\ result # <<>> /\ result[2] = 0 =>
         /\ result[1] \in Children
         /\ ret[result[1]] = result[1] /\ result[3] = result[1]

Values == (\A c \in Children : Stored(c)) /\ Joined

ThreadsInv == Types /\ Segments /\ Newborn /\ Values

----------------------------------------------------------------------------
(* What a step that writes one node leaves: the node has become r.          *)
NodeSet(t, r) ==
    /\ node' \in [Threads -> Nodes] /\ node'[t] = r
    /\ \A s \in Threads : s # t => node'[s] = node[s]

(* The four fields of a node, and that they are all of it.                  *)
LEMMA NodeFields ==
    ASSUME node \in [Threads -> Nodes], NEW t \in Threads
    PROVE  /\ node[t] = [in |-> node[t].in, status |-> node[t].status,
                         joinable |-> node[t].joinable, u |-> node[t].u]
           /\ node[t].in \in BOOLEAN /\ node[t].joinable \in BOOLEAN
           /\ node[t].status \in
                {"none", "init", "running", "exit", "cancelled"}
           /\ node[t].u \in Threads \cup {None, "thread"}
BY DEF Nodes

(* The thread enters the map of nodes and is running.                       *)
LEMMA RegisterNode ==
    ASSUME ThreadsInv, NEW t \in Threads, Register(t)
    PROVE  NodeSet(t, [in |-> TRUE,
                       status |-> "running",
                       joinable |-> node[t].joinable, u |-> "thread"])
<1> DEFINE r == [in |-> TRUE,
                 status |-> "running",
                 joinable |-> node[t].joinable, u |-> "thread"]
<1>1. /\ node \in [Threads -> Nodes] /\ t \in Threads
      /\ ret \in [Threads -> Threads \cup {None}]
  BY DEF ThreadsInv, Types, Threads
<1>2. node' = [node EXCEPT ![t].in = TRUE, ![t].status = "running",
                           ![t].u = "thread"]
  BY DEF Register
<1>3. node'[t] = [node[t] EXCEPT !.in = TRUE, !.status = "running",
                                 !.u = "thread"]
  BY <1>1, <1>2
<1>4. node'[t] = r
  BY <1>1, <1>3, NodeFields, ZenonT(30)
<1>5. r \in Nodes
  BY <1>1, NodeFields DEF Nodes
<1> HIDE DEF r
<1>6. /\ node' \in [Threads -> Nodes]
      /\ \A s \in Threads : s # t => node'[s] = node[s]
  BY <1>1, <1>2, <1>4, <1>5
<1>7. NodeSet(t, r)
  BY <1>4, <1>6 DEF NodeSet
<1> QED BY <1>7 DEF r

(* pthread_detach_wrapper takes joinable away.                              *)
LEMMA DetachNode ==
    ASSUME ThreadsInv, NEW c \in Children, DetachWrapper(Main, c)
    PROVE  NodeSet(c, [in |-> node[c].in,
                       status |-> node[c].status,
                       joinable |-> FALSE, u |-> node[c].u])
<1> DEFINE r == [in |-> node[c].in,
                 status |-> node[c].status, joinable |-> FALSE, u |-> node[c].u]
<1>1. /\ node \in [Threads -> Nodes] /\ c \in Threads
      /\ ret \in [Threads -> Threads \cup {None}]
  BY DEF ThreadsInv, Types, Threads
<1>2. node' = [node EXCEPT ![c].joinable = FALSE]
  BY DEF DetachWrapper
<1>3. node'[c] = [node[c] EXCEPT !.joinable = FALSE]
  BY <1>1, <1>2
<1>4. node'[c] = r
  BY <1>1, <1>3, NodeFields, ZenonT(30)
<1>5. r \in Nodes
  BY <1>1, NodeFields DEF Nodes
<1> HIDE DEF r
<1>6. /\ node' \in [Threads -> Nodes]
      /\ \A s \in Threads : s # c => node'[s] = node[s]
  BY <1>1, <1>2, <1>4, <1>5, ZenonT(30)
<1>7. NodeSet(c, r)
  BY <1>4, <1>6 DEF NodeSet
<1> QED BY <1>7 DEF r

(* pthread_cancel_wrapper sets the status and takes joinable away.          *)
LEMMA CancelNode ==
    ASSUME ThreadsInv, NEW c \in Children, CancelWrapper(Main, c)
    PROVE  NodeSet(c, [in |-> node[c].in,
                       status |-> "cancelled",
                       joinable |-> FALSE, u |-> node[c].u])
<1> DEFINE r == [in |-> node[c].in,
                 status |-> "cancelled", joinable |-> FALSE, u |-> node[c].u]
<1>1. /\ node \in [Threads -> Nodes] /\ c \in Threads
      /\ ret \in [Threads -> Threads \cup {None}]
  BY DEF ThreadsInv, Types, Threads
<1>2. node' = [node EXCEPT ![c].status = "cancelled", ![c].joinable = FALSE]
  BY DEF CancelWrapper
<1>3. node'[c] = [node[c] EXCEPT !.status = "cancelled", !.joinable = FALSE]
  BY <1>1, <1>2
<1>4. node'[c] = r
  BY <1>1, <1>3, NodeFields, ZenonT(30)
<1>5. r \in Nodes
  BY <1>1, NodeFields DEF Nodes
<1> HIDE DEF r
<1>6. /\ node' \in [Threads -> Nodes]
      /\ \A s \in Threads : s # c => node'[s] = node[s]
  BY <1>1, <1>2, <1>4, <1>5
<1>7. NodeSet(c, r)
  BY <1>4, <1>6 DEF NodeSet
<1> QED BY <1>7 DEF r

(* The node of a thread that is not joinable leaves the map.                *)
LEMMA ExitNode ==
    ASSUME ThreadsInv, NEW t \in Threads, ThreadExit(t), ~ node[t].joinable
    PROVE  NodeSet(t, [in |-> FALSE,
                       status |-> node[t].status,
                       joinable |-> node[t].joinable, u |-> node[t].u])
<1> DEFINE r == [in |-> FALSE,
                 status |-> node[t].status,
                 joinable |-> node[t].joinable, u |-> node[t].u]
<1>1. /\ node \in [Threads -> Nodes] /\ t \in Threads
      /\ ret \in [Threads -> Threads \cup {None}]
  BY DEF ThreadsInv, Types, Threads
<1>2. node' = [node EXCEPT ![t].in = FALSE]
  BY DEF ThreadExit
<1>3. node'[t] = [node[t] EXCEPT !.in = FALSE]
  BY <1>1, <1>2
<1>4. node'[t] = r
  BY <1>1, <1>3, NodeFields, ZenonT(30)
<1>5. r \in Nodes
  BY <1>1, NodeFields DEF Nodes
<1> HIDE DEF r
<1>6. /\ node' \in [Threads -> Nodes]
      /\ \A s \in Threads : s # t => node'[s] = node[s]
  BY <1>1, <1>2, <1>4, <1>5, ZenonT(30)
<1>7. NodeSet(t, r)
  BY <1>4, <1>6 DEF NodeSet
<1> QED BY <1>7 DEF r

(* The result takes the place of the handle.                                *)
LEMMA ResultNode ==
    ASSUME ThreadsInv, NEW t \in Threads, StoreResult(t), pc[t] = "store"
    PROVE  NodeSet(t, [in |-> node[t].in,
                       status |-> node[t].status,
                       joinable |-> node[t].joinable, u |-> ret[t]])
<1> DEFINE r == [in |-> node[t].in,
                 status |-> node[t].status,
                 joinable |-> node[t].joinable, u |-> ret[t]]
<1>1. /\ node \in [Threads -> Nodes] /\ t \in Threads
      /\ ret \in [Threads -> Threads \cup {None}]
  BY DEF ThreadsInv, Types, Threads
<1>2. node' = [node EXCEPT ![t].u = ret[t]]
  BY DEF StoreResult
<1>3. node'[t] = [node[t] EXCEPT !.u = ret[t]]
  BY <1>1, <1>2
<1>4. node'[t] = r
  BY <1>1, <1>3, NodeFields
<1>5. r \in Nodes
  BY <1>1, NodeFields DEF Nodes
<1> HIDE DEF r
<1>6. /\ node' \in [Threads -> Nodes]
      /\ \A s \in Threads : s # t => node'[s] = node[s]
  BY <1>1, <1>2, <1>4, <1>5
<1>7. NodeSet(t, r)
  BY <1>4, <1>6 DEF NodeSet
<1> QED BY <1>7 DEF r

(* The status says that the thread has ended.                               *)
LEMMA StatusNode ==
    ASSUME ThreadsInv, NEW t \in Threads, StoreResult(t), pc[t] = "status"
    PROVE  NodeSet(t, [in |-> node[t].in,
                       status |-> "exit",
                       joinable |-> node[t].joinable, u |-> node[t].u])
<1> DEFINE r == [in |-> node[t].in,
                 status |-> "exit",
                 joinable |-> node[t].joinable, u |-> node[t].u]
<1>1. /\ node \in [Threads -> Nodes] /\ t \in Threads
      /\ ret \in [Threads -> Threads \cup {None}]
  BY DEF ThreadsInv, Types, Threads
<1>2. node' = [node EXCEPT ![t].status = "exit"]
  BY DEF StoreResult
<1>3. node'[t] = [node[t] EXCEPT !.status = "exit"]
  BY <1>1, <1>2
<1>4. node'[t] = r
  BY <1>1, <1>3, NodeFields
<1>5. r \in Nodes
  BY <1>1, NodeFields DEF Nodes
<1> HIDE DEF r
<1>6. /\ node' \in [Threads -> Nodes]
      /\ \A s \in Threads : s # t => node'[s] = node[s]
  BY <1>1, <1>2, <1>4, <1>5
<1>7. NodeSet(t, r)
  BY <1>4, <1>6 DEF NodeSet
<1> QED BY <1>7 DEF r

(* pthread_create_wrapper makes the node, not yet in the map.               *)
LEMMA CreateNode ==
    ASSUME ThreadsInv, NEW c \in Children, CreateThread(Main, c)
    PROVE  NodeSet(c, [in |-> FALSE,
                       status |-> "init", joinable |-> TRUE, u |-> None])
<1> DEFINE r == [in |-> FALSE, status |-> "init", joinable |-> TRUE, u |-> None]
<1>1. node \in [Threads -> Nodes] /\ c \in Threads
  BY DEF ThreadsInv, Types, Threads
<1>2. node' = [node EXCEPT ![c] =
                   [NoNode EXCEPT !.status = "init", !.joinable = TRUE]]
  BY DEF CreateThread
<1>3. node'[c] = [NoNode EXCEPT !.status = "init", !.joinable = TRUE]
  BY <1>1, <1>2
<1>4. node'[c] = r
  BY <1>3, ZenonT(30) DEF NoNode
<1>5. r \in Nodes
  BY DEF Nodes
<1> HIDE DEF r
<1>6. NodeSet(c, r)
  BY <1>1, <1>2, <1>4, <1>5 DEF NodeSet
<1> QED BY <1>6 DEF r

(* allocate_aux_stack takes a segment that is free.                         *)
LEMMA Allocated ==
    ASSUME ThreadsInv, NEW c \in Children, FreeSegments # {},
           allocate_aux_stack(c)
    PROVE  \E i \in 1 .. MaxThreads :
              /\ ~ occupied[i]
              /\ occupied' = [occupied EXCEPT ![i] = TRUE]
              /\ bottom' = [bottom EXCEPT ![c] = i]
<1> DEFINE i == CHOOSE i \in FreeSegments : \A j \in FreeSegments : i <= j
<1>1. FreeSegments \in SUBSET Nat
  BY ThreadsAssumption DEF FreeSegments
<1>2. \E k \in FreeSegments : \A j \in FreeSegments : k <= j
  BY <1>1, Least
<1>3. i \in FreeSegments
  BY <1>2
<1>4. /\ occupied' = [occupied EXCEPT ![i] = TRUE]
      /\ bottom' = [bottom EXCEPT ![c] = i]
  BY DEF allocate_aux_stack
<1> HIDE DEF i
<1>5. i \in 1 .. MaxThreads /\ ~ occupied[i]
  BY <1>3 DEF FreeSegments
<1> QED BY <1>4, <1>5, ZenonT(30)

(* A step that moves no thread on or off a segment.                         *)
SameStack ==
    /\ occupied' = occupied /\ bottom' = bottom
    /\ \A c \in Children : UsesStack(c)' <=> UsesStack(c)

(* A step of the main thread to p, outside of pthread_create, that changes  *)
(* no thread and makes no join succeed.                                     *)
MainMoves(p) ==
    /\ pc[Main] \notin {"create", "create_wait"} /\ p \in MainPlaces
    /\ pc' = [pc EXCEPT ![Main] = p]
    /\ p \in {"join", "join_wait"} => pc[Main] = "join" /\ who' = who
    /\ DOMAIN who' = Threads
    /\ result' = result \/ result' = <<>> \/ result'[2] # 0
    /\ UNCHANGED <<occupied, bottom, signalled, node, ret>>

(* Only the main thread makes calls about others.                           *)
LEMMA OnlyMain ==
    ASSUME ThreadsInv, NEW t \in Threads, pc[t] \notin ChildPlaces
    PROVE  t = Main
BY DEF ThreadsInv, Types, Threads

(* Segments depends only on who is on which segment.                        *)
LEMMA SegmentsKept ==
    ASSUME Segments, SameStack
    PROVE  Segments'
BY DEF Segments, SameStack

(* What the steps of the main thread have in common.                        *)
LEMMA MainStep ==
    ASSUME ThreadsInv, NEW p, MainMoves(p)
    PROVE  ThreadsInv'
<1> USE ThreadsAssumption DEF Threads
<1>1. /\ pc'[Main] = p /\ \A c \in Children : pc'[c] = pc[c]
      /\ pc' \in [Threads -> ChildPlaces \cup MainPlaces]
  BY DEF ThreadsInv, Types, MainMoves
<1>2. Types'
  BY <1>1 DEF ThreadsInv, Types, MainMoves
<1>3. Segments'
  <2>1. SameStack
    BY <1>1 DEF MainMoves, SameStack, UsesStack
  <2> QED BY <2>1, SegmentsKept DEF ThreadsInv
<1>4. Newborn'
  BY <1>1 DEF ThreadsInv, Newborn, MainMoves
<1>5. ASSUME NEW c \in Children PROVE Stored(c)'
  <2>1. Stored(c)
    BY DEF ThreadsInv, Values
  <2> QED BY <1>1, <2>1 DEF Stored, MainMoves
<1>6. Joined'
  BY <1>1 DEF ThreadsInv, Values, Joined, MainMoves
<1> QED BY <1>2, <1>3, <1>4, <1>5, <1>6 DEF ThreadsInv, Values

----------------------------------------------------------------------------
(* One lemma for every action.                                              *)

(* The new thread gets a free segment, and its creator has neither been     *)
(* signalled nor returned.                                                  *)
LEMMA CreateThreadStep ==
    ASSUME ThreadsInv, NEW c \in Children, CreateThread(Main, c)
    PROVE  ThreadsInv'
<1> USE ThreadsAssumption DEF Threads, ChildPlaces, MainPlaces, Go, stack, sync,
                              calls, misc, CreateThread, Running
<1>1. PICK i \in 1 .. MaxThreads :
         /\ ~ occupied[i]
         /\ occupied' = [occupied EXCEPT ![i] = TRUE]
         /\ bottom' = [bottom EXCEPT ![c] = i]
  BY Allocated
<1>2. NodeSet(c, [in |-> FALSE,
                  status |-> "init", joinable |-> TRUE, u |-> None])
  BY CreateNode, ZenonT(30)
<1>3. Types'
  BY <1>1, <1>2, SMTT(30) DEF ThreadsInv, Types, NodeSet
<1>4. Segments'
  <2>1. /\ ~ UsesStack(c) /\ UsesStack(c)'
        /\ \A d \in Children : d # c => (UsesStack(d)' <=> UsesStack(d))
    <3>1. /\ pc[c] = "unborn"
          /\ pc' = [pc EXCEPT ![Main] = "create", ![c] = "born"]
      OBVIOUS
    <3>2. pc'[c] = "born" /\ \A d \in Children : d # c => pc'[d] = pc[d]
      BY <3>1, ZenonT(30) DEF ThreadsInv, Types
    <3> QED BY <3>1, <3>2, ZenonT(30) DEF UsesStack
  <2>2. bottom'[c] = i /\ \A d \in Children : d # c => bottom'[d] = bottom[d]
    BY <1>1 DEF ThreadsInv, Types
  <2>3. /\ occupied'[i]
        /\ \A j \in 1 .. MaxThreads : j # i => (occupied'[j] <=> occupied[j])
    BY <1>1 DEF ThreadsInv, Types
  <2>4. Segments
    BY DEF ThreadsInv
  <2>5. ASSUME NEW d \in Children, UsesStack(d)'
        PROVE  bottom'[d] \in 1 .. MaxThreads /\ occupied'[bottom'[d]]
    BY ONLY <1>1, <2>1, <2>2, <2>3, <2>4, <2>5 DEF Segments
  <2>6. ASSUME NEW d \in Children, NEW e \in Children,
               UsesStack(d)', UsesStack(e)', d # e
        PROVE  bottom'[d] # bottom'[e]
    BY ONLY <1>1, <2>1, <2>2, <2>4, <2>6 DEF Segments
  <2>7. ASSUME NEW j \in 1 .. MaxThreads, occupied'[j]
        PROVE  \E d \in Children : UsesStack(d)' /\ bottom'[d] = j
    BY ONLY <1>1, <2>1, <2>2, <2>3, <2>4, <2>7 DEF Segments
  <2> QED BY <2>5, <2>6, <2>7 DEF Segments
<1>5. Newborn'
  BY <1>3, SMTT(30) DEF ThreadsInv, Types, Newborn
<1>6. Values'
  <2>1. pc' = [pc EXCEPT ![Main] = "create", ![c] = "born"] /\ ret' = ret
    OBVIOUS
  <2>2. ASSUME NEW d \in Children, d # c PROVE Stored(d)'
    <3>1. Stored(d) /\ pc'[d] = pc[d] /\ node'[d] = node[d] /\ ret'[d] = ret[d]
      BY <1>2, <2>1, <2>2 DEF ThreadsInv, Types, Values, NodeSet
    <3> QED BY <3>1, ZenonT(30) DEF Stored
  <2>3. Stored(c)'
    <3>1. pc'[c] = "born" /\ node'[c].status = "init" /\ ~ node'[c].in
      BY <1>2, <2>1, ZenonT(30) DEF ThreadsInv, Types, NodeSet
    <3> QED BY <3>1 DEF Stored, Ending
  <2>4. Joined'
    BY <1>3, SMTT(30) DEF ThreadsInv, Types, Values, Joined, Ending
  <2> QED BY <2>2, <2>3, <2>4 DEF Values
<1> QED BY <1>3, <1>4, <1>5, <1>6 DEF ThreadsInv

(* The creator goes on waiting for the same thread.                         *)
LEMMA CreateWaitStep ==
    ASSUME ThreadsInv, NEW t \in Threads, CreateWait(t)
    PROVE  ThreadsInv'
<1> USE ThreadsAssumption DEF Threads, ChildPlaces, MainPlaces, Go, stack, sync,
                              calls, misc, CreateWait
<1>1. Types'
  BY SMTT(30) DEF ThreadsInv, Types
<1>2. Segments'
  <2>1. SameStack
    BY SMTT(30) DEF ThreadsInv, Types, SameStack, UsesStack
  <2> QED BY <2>1, SegmentsKept DEF ThreadsInv
<1>3. Newborn'
  BY <1>1, SMTT(30) DEF ThreadsInv, Types, Newborn
<1>4. Values'
  BY <1>1, SMTT(30)
     DEF ThreadsInv, Types, Newborn, Values, Stored, Joined, Ending
<1> QED BY <1>1, <1>2, <1>3, <1>4 DEF ThreadsInv

(* The new thread signals as it stops being new.                            *)
LEMMA RegisterStep ==
    ASSUME ThreadsInv, NEW t \in Threads, Register(t)
    PROVE  ThreadsInv'
<1> USE ThreadsAssumption DEF Threads, ChildPlaces, MainPlaces, Go, stack, sync,
                              calls, misc, Register
<1>1. NodeSet(t, [in |-> TRUE,
                  status |-> "running",
                  joinable |-> node[t].joinable, u |-> "thread"])
  BY RegisterNode
<1>2. Types'
  BY <1>1, SMTT(30) DEF ThreadsInv, Types, NodeSet
<1>3. Segments'
  <2>1. SameStack
    BY SMTT(30) DEF ThreadsInv, Types, SameStack, UsesStack
  <2> QED BY <2>1, SegmentsKept DEF ThreadsInv
<1>4. Newborn'
  BY <1>2, SMTT(30) DEF ThreadsInv, Types, Newborn
<1>5. Values'
  BY <1>2, SMTT(30)
     DEF ThreadsInv, Types, Newborn, Values, Stored, Joined, Ending
<1> QED BY <1>2, <1>3, <1>4, <1>5 DEF ThreadsInv

(* The new thread signals, and ends without a value and without a node.     *)
LEMMA RegisterFailsStep ==
    ASSUME ThreadsInv, NEW t \in Threads, RegisterFails(t)
    PROVE  ThreadsInv'
<1> USE ThreadsAssumption DEF Threads, ChildPlaces, MainPlaces, Go, stack, sync,
                              calls, misc, RegisterFails
<1>1. Types'
  BY SMTT(30) DEF ThreadsInv, Types, NoNode, Nodes
<1>2. Segments'
  <2>1. SameStack
    BY SMTT(30) DEF ThreadsInv, Types, SameStack, UsesStack
  <2> QED BY <2>1, SegmentsKept DEF ThreadsInv
<1>3. Newborn'
  BY <1>1, SMTT(30) DEF ThreadsInv, Types, Newborn
<1>4. Values'
  BY <1>1, SMTT(30)
     DEF ThreadsInv, Types, Newborn, Values, Stored, Joined, Ending, NoNode
<1> QED BY <1>1, <1>2, <1>3, <1>4 DEF ThreadsInv

(* The creator has been signalled, so the thread is no longer new.          *)
LEMMA CreateReturnStep ==
    ASSUME ThreadsInv, NEW t \in Threads, CreateReturn(t)
    PROVE  ThreadsInv'
<1> USE ThreadsAssumption DEF Threads, ChildPlaces, MainPlaces, Go, stack, sync,
                              calls, misc, CreateReturn
<1>1. Types'
  BY SMTT(30) DEF ThreadsInv, Types
<1>2. Segments'
  <2>1. SameStack
    BY SMTT(30) DEF ThreadsInv, Types, SameStack, UsesStack
  <2> QED BY <2>1, SegmentsKept DEF ThreadsInv
<1>3. Newborn'
  BY <1>1, SMTT(30) DEF ThreadsInv, Types, Newborn
<1>4. Values'
  BY <1>1, SMTT(30)
     DEF ThreadsInv, Types, Newborn, Values, Stored, Joined, Ending
<1> QED BY <1>1, <1>2, <1>3, <1>4 DEF ThreadsInv

(* The creator begins to terminate the others; no thread has changed.       *)
LEMMA CreateFailsStep ==
    ASSUME ThreadsInv, NEW c \in Children, CreateFails(Main, c)
    PROVE  ThreadsInv'
<1>1. DOMAIN who = Threads
  BY DEF ThreadsInv, Types
<1>2. MainMoves("fail_visit")
  BY <1>1, SMTT(30)
     DEF MainMoves, MainPlaces, CreateFails, Running,
         Go, stack, sync, calls, misc
<1> QED BY <1>2, MainStep

(* The key values are no part of the invariant.                             *)
LEMMA SetSpecificStep ==
    ASSUME ThreadsInv, NEW t \in Threads, SetSpecific(t)
    PROVE  ThreadsInv'
<1> USE ThreadsAssumption DEF Threads, ChildPlaces, MainPlaces, Go, stack, sync,
                              calls, misc, SetSpecific, Running
<1>1. Types'
  BY SMTT(30) DEF ThreadsInv, Types
<1>2. Segments'
  <2>1. SameStack
    BY SMTT(30) DEF ThreadsInv, Types, SameStack, UsesStack
  <2> QED BY <2>1, SegmentsKept DEF ThreadsInv
<1>3. Newborn'
  BY <1>1, SMTT(30) DEF ThreadsInv, Types, Newborn
<1>4. Values'
  BY <1>1, SMTT(30)
     DEF ThreadsInv, Types, Newborn, Values, Stored, Joined, Ending
<1> QED BY <1>1, <1>2, <1>3, <1>4 DEF ThreadsInv

(* The thread has its value before it begins to end.                        *)
LEMMA ThreadReturnsStep ==
    ASSUME ThreadsInv, NEW c \in Children, ThreadReturns(c)
    PROVE  ThreadsInv'
<1> USE ThreadsAssumption DEF Threads, ChildPlaces, MainPlaces, Go, stack, sync,
                              calls, misc, ThreadReturns, Running
<1>1. Types'
  BY SMTT(30) DEF ThreadsInv, Types
<1>2. Segments'
  <2>1. SameStack
    BY SMTT(30) DEF ThreadsInv, Types, SameStack, UsesStack
  <2> QED BY <2>1, SegmentsKept DEF ThreadsInv
<1>3. Newborn'
  BY <1>1, SMTT(30) DEF ThreadsInv, Types, Newborn
<1>4. Values'
  BY <1>1, SMTT(30)
     DEF ThreadsInv, Types, Newborn, Values, Stored, Joined, Ending
<1> QED BY <1>1, <1>2, <1>3, <1>4 DEF ThreadsInv

(* The node is kept until the value is stored, or leaves the map.           *)
LEMMA ThreadExitStep ==
    ASSUME ThreadsInv, NEW t \in Threads, ThreadExit(t)
    PROVE  ThreadsInv'
<1> USE ThreadsAssumption DEF Threads, ChildPlaces, MainPlaces
<1>1. /\ pc[t] = "exit"
      /\ UNCHANGED <<who, result, signalled, occupied, bottom, ret>>
      /\ \/ pc' = [pc EXCEPT ![t] = "store"] /\ node' = node
         \/ pc' = [pc EXCEPT ![t] = "aux"] /\ ~ node[t].joinable
  BY DEF ThreadExit, Go, calls, sync, stack
<1>2. \/ node' = node
      \/ NodeSet(t, [in |-> FALSE, status |-> node[t].status,
                     joinable |-> node[t].joinable, u |-> node[t].u])
  BY <1>1, ExitNode
<1>3. Types'
  <2>1. node' \in [Threads -> Nodes]
    <3>1. CASE node' = node
      BY <3>1 DEF ThreadsInv, Types
    <3>2. CASE NodeSet(t, [in |-> FALSE, status |-> node[t].status,
                           joinable |-> node[t].joinable, u |-> node[t].u])
      BY <3>2 DEF NodeSet
    <3> QED BY <1>2, <3>1, <3>2
  <2>2. PICK p \in {"store", "aux"} : pc' = [pc EXCEPT ![t] = p]
    BY <1>1
  <2>3. /\ pc' \in [Threads -> ChildPlaces \cup MainPlaces]
        /\ pc'[Main] \in MainPlaces /\ \A c \in Children : pc'[c] \in ChildPlaces
    BY <1>1, <2>2, SMTT(30) DEF ThreadsInv, Types
  <2> QED BY <1>1, <2>1, <2>3 DEF ThreadsInv, Types
<1>4. Segments'
  <2>1. SameStack
    BY <1>1, SMTT(30) DEF ThreadsInv, Types, SameStack, UsesStack
  <2> QED BY <2>1, SegmentsKept DEF ThreadsInv
<1>5. Newborn'
  BY <1>1, SMTT(30) DEF ThreadsInv, Types, Newborn
<1>6. Values'
  BY <1>1, <1>2, <1>3, SMTT(30)
     DEF ThreadsInv, Types, Values, Stored, Joined, Ending, NodeSet
<1> QED BY <1>3, <1>4, <1>5, <1>6 DEF ThreadsInv

(* The value is in the node when the status is set.                         *)
LEMMA StoreResultStep ==
    ASSUME ThreadsInv, NEW t \in Threads, StoreResult(t)
    PROVE  ThreadsInv'
<1> USE ThreadsAssumption DEF Threads, ChildPlaces, MainPlaces
<1>1. /\ UNCHANGED <<who, result, signalled, occupied, bottom, ret>>
      /\ \/ pc[t] = "store" /\ pc' = [pc EXCEPT ![t] = "status"]
         \/ pc[t] = "status" /\ pc' = [pc EXCEPT ![t] = "aux"]
  BY DEF StoreResult, Go, calls, sync, stack, misc
<1>2. pc[t] = "store" => NodeSet(t, [in |-> node[t].in,
                                     status |-> node[t].status,
                                     joinable |-> node[t].joinable,
                                     u |-> ret[t]])
  BY ResultNode
<1>3. pc[t] = "status" => NodeSet(t, [in |-> node[t].in,
                                      status |-> "exit",
                                      joinable |-> node[t].joinable,
                                      u |-> node[t].u])
  BY StatusNode
<1>4. Types'
  <2>1. node' \in [Threads -> Nodes]
    BY <1>1, <1>2, <1>3, ZenonT(30) DEF NodeSet
  <2> QED BY <1>1, <2>1, SMTT(30) DEF ThreadsInv, Types
<1>5. Segments'
  <2>1. SameStack
    BY <1>1, SMTT(30) DEF ThreadsInv, Types, SameStack, UsesStack
  <2> QED BY <2>1, SegmentsKept DEF ThreadsInv
<1>6. Newborn'
  BY <1>1, SMTT(30) DEF ThreadsInv, Types, Newborn
<1>7. Values'
  BY <1>1, <1>2, <1>3, <1>4, SMTT(30)
     DEF ThreadsInv, Types, Values, Stored, Joined, Ending, NodeSet
<1> QED BY <1>4, <1>5, <1>6, <1>7 DEF ThreadsInv

(* The segment is freed by the one thread that was on it.                   *)
LEMMA FreeAuxStackStep ==
    ASSUME ThreadsInv, NEW t \in Threads, FreeAuxStack(t)
    PROVE  ThreadsInv'
<1> USE ThreadsAssumption DEF Threads, ChildPlaces, MainPlaces, Go, stack, sync,
                              calls, misc, FreeAuxStack
<1>1. Types'
  <2>1. t \in Children /\ bottom[t] \in 1 .. MaxThreads
    BY SMTT(30) DEF ThreadsInv, Types, Segments, UsesStack
  <2>2. occupied' \in [1 .. MaxThreads -> BOOLEAN]
    BY <2>1 DEF ThreadsInv, Types
  <2> QED BY <2>1, <2>2, SMTT(30) DEF ThreadsInv, Types
<1>2. Segments'
  BY <1>1, SMTT(30) DEF ThreadsInv, Types, Segments, UsesStack
<1>3. Newborn'
  BY <1>1, SMTT(30) DEF ThreadsInv, Types, Newborn
<1>4. Values'
  BY <1>1, SMTT(30)
     DEF ThreadsInv, Types, Newborn, Values, Stored, Joined, Ending
<1> QED BY <1>1, <1>2, <1>3, <1>4 DEF ThreadsInv

(* A thread that ends detaches itself: it has no segment any more.          *)
LEMMA DetachStep ==
    ASSUME ThreadsInv, NEW t \in Threads, Detach(t)
    PROVE  ThreadsInv'
<1> USE ThreadsAssumption DEF Threads, ChildPlaces, MainPlaces, Go, stack, sync,
                              calls, misc, Detach
<1>1. Types'
  BY SMTT(30) DEF ThreadsInv, Types
<1>2. Segments'
  <2>1. SameStack
    BY SMTT(30) DEF ThreadsInv, Types, SameStack, UsesStack
  <2> QED BY <2>1, SegmentsKept DEF ThreadsInv
<1>3. Newborn'
  BY <1>1, SMTT(30) DEF ThreadsInv, Types, Newborn
<1>4. Values'
  BY <1>1, SMTT(30)
     DEF ThreadsInv, Types, Newborn, Values, Stored, Joined, Ending
<1> QED BY <1>1, <1>2, <1>3, <1>4 DEF ThreadsInv

(* A thread leaves the list after it has left its segment.                  *)
LEMMA DelExecEnvStep ==
    ASSUME ThreadsInv, NEW t \in Threads, DelExecEnv(t)
    PROVE  ThreadsInv'
<1> USE ThreadsAssumption DEF Threads, ChildPlaces, MainPlaces, Go, stack, sync,
                              calls, misc, DelExecEnv
<1>1. Types'
  BY SMTT(30) DEF ThreadsInv, Types
<1>2. Segments'
  <2>1. SameStack
    BY SMTT(30) DEF ThreadsInv, Types, SameStack, UsesStack
  <2> QED BY <2>1, SegmentsKept DEF ThreadsInv
<1>3. Newborn'
  BY <1>1, SMTT(30) DEF ThreadsInv, Types, Newborn
<1>4. Values'
  BY <1>1, SMTT(30)
     DEF ThreadsInv, Types, Newborn, Values, Stored, Joined, Ending
<1> QED BY <1>1, <1>2, <1>3, <1>4 DEF ThreadsInv

(* A thread whose exec_env is freed has left its segment.                   *)
LEMMA CheckEmptyStep ==
    ASSUME ThreadsInv, NEW t \in Threads, CheckEmpty(t)
    PROVE  ThreadsInv'
<1> USE ThreadsAssumption DEF Threads, ChildPlaces, MainPlaces
<1>1. /\ pc[t] = "check" /\ pc' = [pc EXCEPT ![t] = "gone"]
      /\ bottom' = [bottom EXCEPT ![t] = 0]
      /\ UNCHANGED <<who, result, signalled, node, occupied, ret>>
  BY ZenonT(30) DEF CheckEmpty, Go, calls, sync
<1>2. Types'
  BY <1>1, SMTT(30) DEF ThreadsInv, Types
<1>3. Segments'
  BY <1>1, <1>2, SMTT(30) DEF ThreadsInv, Types, Segments, UsesStack
<1>4. Newborn'
  BY <1>1, SMTT(30) DEF ThreadsInv, Types, Newborn
<1>5. Values'
  BY <1>1, <1>2, SMTT(30)
     DEF ThreadsInv, Types, Values, Stored, Joined, Ending
<1> QED BY <1>2, <1>3, <1>4, <1>5 DEF ThreadsInv

(* A join takes the value of the node of a thread that has ended, or goes   *)
(* on with a thread that has registered.                                    *)
LEMMA JoinStep ==
    ASSUME ThreadsInv, NEW c \in Children, Join(Main, c)
    PROVE  ThreadsInv'
<1> USE ThreadsAssumption DEF Threads, ChildPlaces, MainPlaces, Go, stack, sync,
                              calls, misc, Join, Running
<1>1. Types'
  BY SMTT(30) DEF ThreadsInv, Types
<1>2. Segments'
  <2>1. SameStack
    BY SMTT(30) DEF ThreadsInv, Types, SameStack, UsesStack
  <2> QED BY <2>1, SegmentsKept DEF ThreadsInv
<1>3. Newborn'
  BY <1>1, SMTT(30) DEF ThreadsInv, Types, Newborn
<1>4. Values'
  BY <1>1, SMTT(30)
     DEF ThreadsInv, Types, Newborn, Values, Stored, Joined, Ending
<1> QED BY <1>1, <1>2, <1>3, <1>4 DEF ThreadsInv

(* A join that fails returns no value.                                      *)
LEMMA JoinCallStep ==
    ASSUME ThreadsInv, NEW t \in Threads, JoinCall(t)
    PROVE  ThreadsInv'
<1>1. pc[t] \in {"join"}
  BY DEF JoinCall
<1>2. t = Main
  BY <1>1, OnlyMain DEF ChildPlaces
<1>3. DOMAIN who = Threads
  BY DEF ThreadsInv, Types
<1>4. MainMoves("run") \/ MainMoves("join_wait")
  BY <1>1, <1>2, <1>3, SMTT(30)
     DEF MainMoves, MainPlaces, JoinCall, OsJoin,
         Go, stack, sync, calls, misc
<1> QED BY <1>4, MainStep

(* The thread that was waited for has ended, and so has a value.            *)
LEMMA JoinReturnStep ==
    ASSUME ThreadsInv, NEW t \in Threads, JoinReturn(t)
    PROVE  ThreadsInv'
<1> USE ThreadsAssumption DEF Threads
<1>1. pc[t] = "join_wait"
  BY DEF JoinReturn
<1>2. t = Main
  BY <1>1, OnlyMain DEF ChildPlaces
<1>3. /\ pc[Main] = "join_wait" /\ pc[who[Main]] = "gone"
      /\ pc' = [pc EXCEPT ![Main] = "run"]
      /\ result' = <<who[Main], 0, ret[who[Main]]>>
      /\ who' = [who EXCEPT ![Main] = None]
      /\ UNCHANGED <<signalled, node, occupied, bottom, ret>>
  BY <1>2 DEF JoinReturn, Go, sync, stack, misc
<1>4. who[Main] \in Children /\ ret[who[Main]] = who[Main]
  BY <1>3 DEF ThreadsInv, Values, Joined, Ending
<1>5. pc'[Main] = "run" /\ \A c \in Children : pc'[c] = pc[c]
  BY <1>3 DEF ThreadsInv, Types
<1>6. Types'
  BY <1>3, <1>5, SMTT(30) DEF ThreadsInv, Types, MainPlaces
<1>7. Segments'
  <2>1. SameStack
    BY <1>3, <1>5 DEF SameStack, UsesStack
  <2> QED BY <2>1, SegmentsKept DEF ThreadsInv
<1>8. Newborn'
  BY <1>3, <1>5 DEF ThreadsInv, Newborn
<1>9. ASSUME NEW c \in Children PROVE Stored(c)'
  <2>1. Stored(c)
    BY DEF ThreadsInv, Values
  <2> QED BY <1>3, <1>5, <2>1 DEF Stored
<1>10. Joined'
  BY <1>3, <1>4, <1>5 DEF Joined
<1> QED BY <1>6, <1>7, <1>8, <1>9, <1>10 DEF ThreadsInv, Values

(* pthread_detach_wrapper leaves values and segments alone.                 *)
LEMMA DetachWrapperStep ==
    ASSUME ThreadsInv, NEW c \in Children, DetachWrapper(Main, c)
    PROVE  ThreadsInv'
<1> USE ThreadsAssumption DEF Threads, ChildPlaces, MainPlaces, Go, stack, sync,
                              calls, misc, DetachWrapper, Running
<1>1. NodeSet(c, [in |-> node[c].in,
                  status |-> node[c].status,
                  joinable |-> FALSE, u |-> node[c].u])
  BY DetachNode, ZenonT(30)
<1>2. Types'
  <2>1. /\ node' \in [Threads -> Nodes]
        /\ UNCHANGED <<pc, who, signalled, occupied, bottom, ret>>
    BY <1>1, ZenonT(30) DEF NodeSet
  <2> QED BY <2>1 DEF ThreadsInv, Types
<1>3. Segments'
  <2>1. SameStack
    BY SMTT(30) DEF ThreadsInv, Types, SameStack, UsesStack
  <2> QED BY <2>1, SegmentsKept DEF ThreadsInv
<1>4. Newborn'
  BY <1>2, SMTT(30) DEF ThreadsInv, Types, Newborn
<1>5. Values'
  BY <1>2, SMTT(30)
     DEF ThreadsInv, Types, Newborn, Values, Stored, Joined, Ending
<1> QED BY <1>2, <1>3, <1>4, <1>5 DEF ThreadsInv

(* pthread_cancel_wrapper leaves values and segments alone.                 *)
LEMMA CancelWrapperStep ==
    ASSUME ThreadsInv, NEW c \in Children, CancelWrapper(Main, c)
    PROVE  ThreadsInv'
<1> USE ThreadsAssumption DEF Threads, ChildPlaces, MainPlaces, Go, stack, sync,
                              calls, misc, CancelWrapper, Running
<1>1. NodeSet(c, [in |-> node[c].in,
                  status |-> "cancelled", joinable |-> FALSE, u |-> node[c].u])
  BY CancelNode, ZenonT(30)
<1>2. Types'
  <2>1. /\ node' \in [Threads -> Nodes]
        /\ UNCHANGED <<pc, who, signalled, occupied, bottom, ret>>
    BY <1>1, ZenonT(30) DEF NodeSet
  <2> QED BY <2>1, SMTT(30) DEF ThreadsInv, Types
<1>3. Segments'
  <2>1. SameStack
    BY SMTT(30) DEF ThreadsInv, Types, SameStack, UsesStack
  <2> QED BY <2>1, SegmentsKept DEF ThreadsInv
<1>4. Newborn'
  BY <1>2, SMTT(30) DEF ThreadsInv, Types, Newborn
<1>5. Values'
  BY <1>2, <1>1, SMTT(30)
     DEF ThreadsInv, Types, Newborn, Values, Stored, Joined, Ending, NodeSet
<1> QED BY <1>2, <1>3, <1>4, <1>5 DEF ThreadsInv

(* The main thread begins to terminate the others.                          *)
LEMMA DestroyMainStep ==
    ASSUME ThreadsInv, DestroyMain
    PROVE  ThreadsInv'
<1>1. DOMAIN who = Threads
  BY DEF ThreadsInv, Types
<1>2. MainMoves("term_visit")
  BY <1>1, SMTT(30)
     DEF MainMoves, MainPlaces, DestroyMain, Running,
         Go, stack, sync, calls, misc
<1> QED BY <1>2, MainStep

(* A visit sets a flag and waits: only the main thread moves.               *)
LEMMA VisitStep ==
    ASSUME ThreadsInv, NEW t \in Threads, Visit(t)
    PROVE  ThreadsInv'
<1>1. pc[t] \in {"term_visit", "fail_visit"}
  BY DEF Visit, Visiting
<1>2. t = Main
  BY <1>1, OnlyMain DEF ChildPlaces
<1>3. DOMAIN who = Threads
  BY DEF ThreadsInv, Types
<1>4. \E p : MainMoves(p)
  BY <1>1, <1>2, <1>3, SMTT(30)
     DEF MainMoves, MainPlaces, Visit, OsJoin, Visiting, Advancing,
         Go, stack, sync, calls, misc
<1> QED BY <1>4, MainStep

(* The thread that was waited for has ended: only the main thread moves.    *)
LEMMA VisitJoinedStep ==
    ASSUME ThreadsInv, NEW t \in Threads, VisitJoined(t)
    PROVE  ThreadsInv'
<1>1. pc[t] \in {"term_wait", "fail_wait"}
  BY DEF VisitJoined
<1>2. t = Main
  BY <1>1, OnlyMain DEF ChildPlaces
<1>3. DOMAIN who = Threads
  BY DEF ThreadsInv, Types
<1>4. MainMoves("term_next") \/ MainMoves("fail_next")
  <2>1. CASE pc[t] = "term_wait"
    BY <1>2, <1>3, <2>1, SMTT(30)
       DEF MainMoves, MainPlaces, VisitJoined, Go, stack, sync, calls, misc
  <2>2. CASE pc[t] = "fail_wait"
    BY <1>2, <1>3, <2>2, SMTT(30)
       DEF MainMoves, MainPlaces, VisitJoined, Go, stack, sync, calls, misc
  <2> QED BY <1>1, <2>1, <2>2
<1> QED BY <1>4, MainStep

(* The next visit: only the main thread moves.                              *)
LEMMA AdvanceStep ==
    ASSUME ThreadsInv, NEW t \in Threads, Advance(t)
    PROVE  ThreadsInv'
<1>1. pc[t] \in {"term_next", "fail_next"}
  BY DEF Advance
<1>2. t = Main
  BY <1>1, OnlyMain DEF ChildPlaces
<1>3. DOMAIN who = Threads
  BY DEF ThreadsInv, Types
<1>4. \E p : MainMoves(p)
  BY <1>1, <1>2, <1>3, SMTT(30)
     DEF MainMoves, MainPlaces, Advance,
         Go, stack, sync, calls, misc
<1> QED BY <1>4, MainStep

----------------------------------------------------------------------------

(* The invariant holds in the first state: only the main thread is there.   *)
LEMMA InitInv == Init => ThreadsInv
<1> USE ThreadsAssumption DEF Threads, ChildPlaces, MainPlaces, Init
<1> SUFFICES ASSUME Init PROVE ThreadsInv
  BY ZenonT(30)
<1>1. NoNode \in Nodes
  BY DEF NoNode, Nodes
<1>2. Types
  BY <1>1, SMTT(30) DEF Types
<1>3. Segments /\ Newborn
  BY SMTT(30) DEF Segments, UsesStack, Newborn
<1>4. Values
  BY SMTT(30) DEF Values, Stored, Joined, Ending, NoNode
<1> QED BY <1>2, <1>3, <1>4 DEF ThreadsInv

(* Every step of every thread preserves the invariant.                      *)
LEMMA NextInv == ThreadsInv /\ [Next]_vars => ThreadsInv'
<1> SUFFICES ASSUME ThreadsInv, [Next]_vars PROVE ThreadsInv'
  OBVIOUS
<1>1. ASSUME NEW t \in Threads, Step(t) \/ SetSpecific(t) PROVE ThreadsInv'
  BY <1>1, CreateWaitStep, RegisterStep, RegisterFailsStep, CreateReturnStep,
     ThreadExitStep, StoreResultStep, FreeAuxStackStep, DetachStep,
     DelExecEnvStep, CheckEmptyStep, JoinCallStep, JoinReturnStep,
     VisitStep, VisitJoinedStep, AdvanceStep, SetSpecificStep DEF Step
<1>2. ASSUME NEW c \in Children,
             \/ ThreadReturns(c)
             \/ CreateThread(Main, c) \/ CreateFails(Main, c)
             \/ Join(Main, c) \/ DetachWrapper(Main, c)
             \/ CancelWrapper(Main, c)
      PROVE  ThreadsInv'
  BY <1>2, ThreadReturnsStep, CreateThreadStep, CreateFailsStep, JoinStep,
     DetachWrapperStep, CancelWrapperStep
<1>3. ASSUME UNCHANGED vars PROVE ThreadsInv'
  BY <1>3
     DEF vars, ThreadsInv, Types, Segments, UsesStack, Newborn, Values, Stored,
         Joined
<1> QED BY <1>1, <1>2, <1>3, DestroyMainStep DEF Next

(* The invariant that the properties below follow from.                     *)
THEOREM Invariant == Spec => []ThreadsInv
BY InitInv, NextInv, PTL DEF Spec

(* allocate_aux_stack and free_aux_stack: no two threads run on one         *)
(* segment, and a segment is occupied just as long as a thread runs on it,  *)
(* for any number of threads and of segments.                               *)
THEOREM AuxStackCorrect == Spec => []AuxStackExclusive
<1>1. ThreadsInv => AuxStackExclusive
  BY DEF ThreadsInv, Types, Segments, AuxStackExclusive
<1> QED BY <1>1, Invariant, PTL

(* pthread_create_wrapper: once it has returned, the thread it created has  *)
(* put its node into the map or has ended, for any number of threads.       *)
THEOREM CreatedCorrect == Spec => []CreatedIsRegistered
<1>1. ThreadsInv => CreatedIsRegistered
  BY DEF ThreadsInv, Newborn, CreatedIsRegistered
<1> QED BY <1>1, Invariant, PTL

(* pthread_join_wrapper: what a join returns is the value of the thread     *)
(* function, read from the node or from the native thread.                  *)
THEOREM JoinCorrect == Spec => []JoinValue
<1>1. ThreadsInv => JoinValue
  BY ThreadsAssumption, ZenonT(30)
     DEF Threads, ThreadsInv, Values, Joined, JoinValue
<1> QED BY <1>1, Invariant, PTL

----------------------------------------------------------------------------
(* The list of the cluster.                                                 *)

Listed(t) == pc[t] \notin {"unborn", "check", "gone"}

(* The list has the exec_envs of the threads that have not left, once each; *)
(* the cluster is there as long as it has one.                              *)
ListRight ==
    /\ envs \in Seq(Threads) /\ Distinct(envs)
    /\ \A t \in Threads : t \in Range(envs) <=> Listed(t)
    /\ cluster \in BOOLEAN
    /\ envs # <<>> => cluster

(* A thread that was created has key values only while it runs and exits.   *)
KeysRight ==
    /\ keys \subseteq Threads
    /\ \A c \in Children \cap keys : pc[c] \in {"run", "exit"}

(* The threads that calls are about.                                        *)
CallsRight ==
    /\ who \in [Threads -> Threads \cup {None}]
    /\ following \in [Threads -> Threads \cup {None}]
    /\ flags \subseteq Threads
    /\ pc[Main] \in {"term_visit", "fail_visit"} => who[Main] \in Threads

ClusterInv == ListRight /\ KeysRight /\ CallsRight

(* A step of one thread that stays in the list, or out of it.               *)
Moves(t, p) ==
    /\ pc' = [pc EXCEPT ![t] = p]
    /\ Listed(t) <=> p \notin {"unborn", "check", "gone"}
    /\ t = Main \/ pc[t] \notin {"run", "exit"} \/ p \in {"run", "exit"}
    /\ UNCHANGED <<envs, cluster, keys>>

(* Such a step leaves the list and the key values as they are.              *)
LEMMA MovesKeep ==
    ASSUME ThreadsInv, ListRight, KeysRight, NEW t \in Threads, NEW p, Moves(t, p)
    PROVE  ListRight' /\ KeysRight'
<1>1. /\ pc'[t] = p /\ \A s \in Threads : s # t => pc'[s] = pc[s]
  BY DEF ThreadsInv, Types, Moves
<1>2. \A s \in Threads : Listed(s)' <=> Listed(s)
  BY <1>1 DEF Moves, Listed
<1>3. ListRight'
  BY <1>2 DEF ListRight, Moves
<1>4. KeysRight'
  BY <1>1, ThreadsAssumption DEF KeysRight, Moves, Threads
<1> QED BY <1>3, <1>4

(* The element behind one of the list.                                      *)
LEMMA AfterType ==
    ASSUME ListRight, NEW t \in Range(envs)
    PROVE  After(t) \in Threads \cup {None}
<1> DEFINE i == CHOOSE i \in DOMAIN envs : envs[i] = t
<1>1. i \in DOMAIN envs
  BY DEF Range
<1>2. \A k \in 1 .. Len(envs) : envs[k] \in Threads
  BY DEF ListRight
<1>3. DOMAIN envs = 1 .. Len(envs) /\ Len(envs) \in Nat
  BY DEF ListRight
<1>4. After(t) = IF i < Len(envs) THEN envs[i + 1] ELSE None
  BY DEF After
<1> HIDE DEF i
<1>5. i < Len(envs) => i + 1 \in 1 .. Len(envs)
  BY <1>1, <1>3
<1> QED BY <1>2, <1>4, <1>5

(* As long as a thread is in the list, the list has a first element.        *)
LEMMA FirstListed ==
    ASSUME ListRight, NEW t \in Threads, Listed(t)
    PROVE  /\ envs # <<>> /\ Len(envs) \in Nat /\ Len(envs) >= 1
           /\ envs[1] \in Range(envs) /\ envs[1] \in Threads /\ cluster
<1>1. envs \in Seq(Threads) /\ t \in Range(envs)
  BY DEF ListRight
<1>2. PICK i \in DOMAIN envs : envs[i] = t
  BY <1>1 DEF Range
<1>3. Len(envs) \in Nat /\ DOMAIN envs = 1 .. Len(envs)
  BY <1>1
<1>4. Len(envs) >= 1 /\ 1 \in DOMAIN envs
  BY <1>2, <1>3
<1>5. envs # <<>>
  BY <1>3, <1>4
<1>6. envs[1] \in Range(envs)
  BY <1>4 DEF Range
<1>7. envs[1] \in Threads
  BY <1>1, <1>3, <1>4
<1> QED BY <1>3, <1>4, <1>5, <1>6, <1>7 DEF ListRight

(* The steps in which a thread stays in the list.                           *)
LEMMA ChildMoves ==
    ASSUME ThreadsInv, ClusterInv, NEW t \in Threads,
           \/ CreateWait(t) \/ Register(t) \/ RegisterFails(t)
           \/ CreateReturn(t) \/ StoreResult(t) \/ FreeAuxStack(t) \/ Detach(t)
           \/ JoinCall(t) \/ JoinReturn(t) \/ VisitJoined(t)
    PROVE  ClusterInv'
<1> USE ThreadsAssumption DEF Go, sync, calls, misc, stack, Threads
<1> DEFINE Other == {"create_wait", "run", "status", "aux", "detach", "del",
                       "join_wait", "term_next", "fail_next"}
<1>1. \E p \in Other : Moves(t, p)
  <2>1. CASE CreateWait(t)
    <3>1. Moves(t, "create_wait")
      BY <2>1 DEF CreateWait, Moves, Listed
    <3> QED BY <3>1
  <2>2. CASE Register(t)
    <3>1. Moves(t, "run")
      BY <2>2 DEF Register, Moves, Listed
    <3> QED BY <3>1
  <2>3. CASE RegisterFails(t)
    <3>1. Moves(t, "aux")
      BY <2>3 DEF RegisterFails, Moves, Listed
    <3> QED BY <3>1
  <2>4. CASE CreateReturn(t)
    <3>1. Moves(t, "run")
      BY <2>4 DEF CreateReturn, Moves, Listed
    <3> QED BY <3>1
  <2>5. CASE StoreResult(t)
    <3>1. CASE pc[t] = "store"
      <4>1. Moves(t, "status")
        BY <2>5, <3>1 DEF StoreResult, Moves, Listed
      <4> QED BY <4>1
    <3>2. CASE pc[t] # "store"
      <4>1. Moves(t, "aux")
        BY <2>5, <3>2 DEF StoreResult, Moves, Listed
      <4> QED BY <4>1
    <3> QED BY <3>1, <3>2
  <2>6. CASE FreeAuxStack(t)
    <3>1. Moves(t, "detach")
      BY <2>6 DEF FreeAuxStack, Moves, Listed
    <3> QED BY <3>1
  <2>7. CASE Detach(t)
    <3>1. Moves(t, "del")
      BY <2>7 DEF Detach, Moves, Listed
    <3> QED BY <3>1
  <2>8. CASE JoinReturn(t)
    <3>1. Moves(t, "run")
      BY <2>8 DEF JoinReturn, Moves, Listed
    <3> QED BY <3>1
  <2>9. CASE VisitJoined(t)
    <3>1. CASE pc[t] = "term_wait"
      <4>1. Moves(t, "term_next")
        BY <2>9, <3>1 DEF VisitJoined, Moves, Listed
      <4> QED BY <4>1
    <3>2. CASE pc[t] # "term_wait"
      <4>1. Moves(t, "fail_next")
        BY <2>9, <3>2 DEF VisitJoined, Moves, Listed
      <4> QED BY <4>1
    <3> QED BY <3>1, <3>2
  <2>10. CASE JoinCall(t)
    <3>1. Moves(t, "run") \/ Moves(t, "join_wait")
      BY <2>10 DEF JoinCall, OsJoin, Moves, Listed
    <3> QED BY <3>1
  <2> QED BY <2>1, <2>2, <2>3, <2>4, <2>5, <2>6, <2>7, <2>8, <2>9, <2>10
<1>2. /\ who' = who \/ who' = [who EXCEPT ![t] = None]
      /\ UNCHANGED <<following, flags>>
  BY DEF CreateWait, Register, RegisterFails, CreateReturn, StoreResult,
         FreeAuxStack, Detach, JoinCall, JoinReturn, VisitJoined
<1>3. PICK p \in Other : Moves(t, p)
  BY <1>1
<1>4. ListRight' /\ KeysRight'
  BY <1>3, MovesKeep DEF ClusterInv
<1>5. pc'[Main] \in {"term_visit", "fail_visit"} => t # Main /\ pc'[Main] = pc[Main]
  BY <1>3 DEF Moves, ThreadsInv, Types
<1>6. CallsRight'
  BY <1>2, <1>5 DEF ClusterInv, CallsRight
<1> QED BY <1>4, <1>6 DEF ClusterInv

(* The thread function ends: its key values go with it.                     *)
LEMMA ThreadExitList ==
    ASSUME ThreadsInv, ClusterInv, NEW t \in Threads, ThreadExit(t)
    PROVE  ClusterInv'
<1> USE ThreadsAssumption DEF Go, sync, calls, stack, Threads
<1>1. PICK p \in {"store", "aux"} : pc' = [pc EXCEPT ![t] = p]
  BY DEF ThreadExit
<1>2. /\ pc[t] = "exit" /\ keys' = keys \ {t}
      /\ UNCHANGED <<envs, cluster, who, following, flags>>
  BY DEF ThreadExit
<1>3. pc'[t] = p /\ \A s \in Threads : s # t => pc'[s] = pc[s]
  BY <1>1 DEF ThreadsInv, Types
<1>4. \A s \in Threads : Listed(s)' <=> Listed(s)
  BY <1>2, <1>3 DEF Listed
<1>5. ListRight'
  BY <1>2, <1>4 DEF ClusterInv, ListRight
<1>6. KeysRight'
  BY <1>2, <1>3 DEF ClusterInv, KeysRight
<1>7. CallsRight'
  BY <1>2, <1>3 DEF ClusterInv, CallsRight
<1> QED BY <1>5, <1>6, <1>7 DEF ClusterInv

(* wasm_cluster_del_exec_env: the exec_env leaves the list.                 *)
LEMMA DelExecEnvList ==
    ASSUME ThreadsInv, ClusterInv, NEW t \in Threads, DelExecEnv(t)
    PROVE  ClusterInv'
<1> USE ThreadsAssumption DEF Go, sync, calls, misc, stack
<1>1. /\ pc[t] = "del" /\ pc' = [pc EXCEPT ![t] = "check"]
      /\ envs' = bh_list_remove(envs, t)
      /\ UNCHANGED <<cluster, keys, who, following, flags>>
  BY DEF DelExecEnv
<1>2. pc'[t] = "check" /\ \A s \in Threads : s # t => pc'[s] = pc[s]
  BY <1>1 DEF ThreadsInv, Types
<1>3. /\ envs' \in Seq(Threads) /\ Distinct(envs')
      /\ Range(envs') = Range(envs) \ {t}
  BY <1>1, RemoveList DEF ClusterInv, ListRight
<1>4. cluster
  BY <1>1, FirstListed DEF ClusterInv, Listed
<1>5. \A s \in Threads : s \in Range(envs') <=> Listed(s)'
  BY <1>2, <1>3 DEF ClusterInv, ListRight, Listed
<1>6. ListRight'
  BY <1>1, <1>3, <1>4, <1>5 DEF ClusterInv, ListRight, Distinct
<1>7. KeysRight'
  BY <1>1, <1>2 DEF ClusterInv, KeysRight, Threads
<1>8. CallsRight'
  BY <1>1, <1>2 DEF ClusterInv, CallsRight, Threads
<1> QED BY <1>6, <1>7, <1>8 DEF ClusterInv

(* The last one destroys the cluster.                                       *)
LEMMA CheckEmptyList ==
    ASSUME ThreadsInv, ClusterInv, NEW t \in Threads, CheckEmpty(t)
    PROVE  ClusterInv'
<1> USE ThreadsAssumption DEF Go, sync, calls
<1>1. /\ pc[t] = "check" /\ pc' = [pc EXCEPT ![t] = "gone"]
      /\ cluster' = (cluster /\ envs # <<>>) /\ flags' = flags \ {t}
      /\ UNCHANGED <<envs, keys, who, following>>
  BY ZenonT(30) DEF CheckEmpty
<1>2. pc'[t] = "gone" /\ \A s \in Threads : s # t => pc'[s] = pc[s]
  BY <1>1 DEF ThreadsInv, Types
<1>3. \A s \in Threads : Listed(s)' <=> Listed(s)
  BY <1>1, <1>2 DEF Listed
<1>4. cluster' \in BOOLEAN /\ (envs' # <<>> => cluster')
  BY <1>1, ZenonT(30) DEF ClusterInv, ListRight
<1>5. ListRight'
  BY <1>1, <1>3, <1>4, ZenonT(30) DEF ClusterInv, ListRight
<1>6. KeysRight'
  BY <1>1, <1>2 DEF ClusterInv, KeysRight, Threads
<1>7. CallsRight'
  BY <1>1, <1>2 DEF ClusterInv, CallsRight, Threads
<1> QED BY <1>5, <1>6, <1>7 DEF ClusterInv

(* terminate_thread_visitor                                                 *)
LEMMA VisitList ==
    ASSUME ThreadsInv, ClusterInv, NEW t \in Threads, Visit(t)
    PROVE  ClusterInv'
<1> USE ThreadsAssumption DEF Go, sync, calls, stack
<1>1. /\ pc[t] \in {"term_visit", "fail_visit"}
      /\ flags' = flags \/ flags' = flags \cup {who[t]}
      /\ UNCHANGED <<envs, cluster, keys, who, following>>
  BY DEF Visit, Visiting
<1>2. t = Main
  BY <1>1, OnlyMain DEF ChildPlaces
<1>3. PICK p \in {"term_wait", "fail_wait", "term_next", "fail_next"} :
         pc' = [pc EXCEPT ![t] = p]
  BY <1>1 DEF Visit, OsJoin, Visiting, Advancing
<1>4. Moves(t, p)
  BY <1>1, <1>2, <1>3 DEF Moves, Listed
<1>5. ListRight' /\ KeysRight'
  BY <1>4, MovesKeep DEF ClusterInv
<1>6. pc'[Main] = p
  BY <1>2, <1>3 DEF ThreadsInv, Types
<1>7. CallsRight'
  BY <1>1, <1>2, <1>6 DEF ClusterInv, CallsRight
<1> QED BY <1>5, <1>7 DEF ClusterInv

(* terminate_all goes on with the element that it has read in advance.      *)
LEMMA AdvanceList ==
    ASSUME ThreadsInv, ClusterInv, NEW t \in Threads, Advance(t)
    PROVE  ClusterInv'
<1> USE ThreadsAssumption DEF Go, stack
<1>1. pc[t] \in {"term_next", "fail_next"} /\ UNCHANGED <<envs, cluster, keys, flags>>
  BY DEF Advance
<1>2. t = Main
  BY <1>1, OnlyMain DEF ChildPlaces
<1>3. CASE following[t] = None
  <2>1. PICK p \in {"del", "run"} : pc' = [pc EXCEPT ![t] = p]
    BY <1>3 DEF Advance
  <2>2. who' = [who EXCEPT ![t] = None] /\ following' = following
    BY <1>3 DEF Advance
  <2>3. Moves(t, p)
    BY <1>1, <1>2, <2>1 DEF Moves, Listed
  <2>4. ListRight' /\ KeysRight'
    BY <2>3, MovesKeep DEF ClusterInv
  <2>5. pc'[Main] = p
    BY <1>2, <2>1 DEF ThreadsInv, Types
  <2>6. CallsRight'
    BY <1>1, <2>2, <2>5 DEF ClusterInv, CallsRight
  <2> QED BY <2>4, <2>6 DEF ClusterInv
<1>4. CASE following[t] # None
  <2> DEFINE n == following[t]
  <2>1. PICK p \in {"term_visit", "fail_visit"} : pc' = [pc EXCEPT ![t] = p]
    BY <1>4 DEF Advance
  <2>2. /\ who' = [who EXCEPT ![t] = n]
        /\ following' = [following EXCEPT ![t] =
                            IF n \in Range(envs) THEN After(n) ELSE None]
    BY <1>4 DEF Advance
  <2>3. n \in Threads
    BY <1>4 DEF ClusterInv, CallsRight
  <2>4. (IF n \in Range(envs) THEN After(n) ELSE None) \in Threads \cup {None}
    BY AfterType DEF ClusterInv
  <2>5. Moves(t, p)
    BY <1>1, <1>2, <2>1 DEF Moves, Listed
  <2>6. ListRight' /\ KeysRight'
    BY <2>5, MovesKeep DEF ClusterInv
  <2>7. CallsRight'
    BY <1>1, <1>2, <2>2, <2>3, <2>4 DEF ClusterInv, CallsRight
  <2> QED BY <2>6, <2>7 DEF ClusterInv
<1> QED BY <1>3, <1>4

(* pthread_setspecific, and the end of the thread function.                 *)
LEMMA RunningList ==
    ASSUME ThreadsInv, ClusterInv, NEW t \in Threads,
           SetSpecific(t) \/ (t \in Children /\ ThreadReturns(t))
    PROVE  ClusterInv'
<1> USE ThreadsAssumption DEF Go, sync, calls, stack, Running
<1>1. CASE SetSpecific(t)
  <2>1. /\ pc[t] = "run" /\ keys' = keys \cup {t}
        /\ UNCHANGED <<pc, envs, cluster, who, following, flags>>
    BY <1>1 DEF SetSpecific
  <2>2. ListRight'
    BY <2>1 DEF ClusterInv, ListRight, Listed
  <2> QED BY <2>1, <2>2 DEF ClusterInv, KeysRight, CallsRight
<1>2. CASE t \in Children /\ ThreadReturns(t)
  <2>1. /\ pc[t] = "run" /\ pc' = [pc EXCEPT ![t] = "exit"]
        /\ UNCHANGED <<envs, cluster, keys, who, following, flags>>
    BY <1>2 DEF ThreadReturns
  <2>2. Moves(t, "exit")
    BY <2>1 DEF Moves, Listed
  <2>3. ListRight' /\ KeysRight'
    BY <2>2, MovesKeep DEF ClusterInv
  <2>4. pc'[Main] = pc[Main]
    BY <1>2, <2>1 DEF ThreadsInv, Types, Threads
  <2>5. CallsRight'
    BY <2>1, <2>4 DEF ClusterInv, CallsRight
  <2> QED BY <2>3, <2>5 DEF ClusterInv
<1> QED BY <1>1, <1>2

(* The new exec_env is put at the head of the list.                         *)
LEMMA CreateThreadList ==
    ASSUME ThreadsInv, ClusterInv, NEW c \in Children, CreateThread(Main, c)
    PROVE  ClusterInv'
<1> USE ThreadsAssumption DEF Threads, misc, Running
<1>1. /\ pc[Main] = "run" /\ pc[c] = "unborn"
      /\ pc' = [pc EXCEPT ![Main] = "create", ![c] = "born"]
      /\ envs' = bh_list_insert(envs, c) /\ who' = [who EXCEPT ![Main] = c]
      /\ UNCHANGED <<cluster, keys, following, flags>>
  BY DEF CreateThread
<1>2. /\ pc'[Main] = "create" /\ pc'[c] = "born"
      /\ \A s \in Threads : s # Main /\ s # c => pc'[s] = pc[s]
  BY <1>1 DEF ThreadsInv, Types
<1>3. c \notin Range(envs)
  BY <1>1 DEF ClusterInv, ListRight, Listed
<1>4. cluster
  BY <1>1, FirstListed DEF ClusterInv, Listed
<1>5. /\ envs' \in Seq(Threads) /\ Distinct(envs')
      /\ Range(envs') = Range(envs) \cup {c}
  <2>1. envs \in Seq(Threads) /\ c \in Threads /\ Distinct(envs)
    BY DEF ClusterInv, ListRight
  <2> HIDE DEF Threads
  <2>2. \A list \in Seq(Threads), e \in Threads :
           /\ bh_list_insert(list, e) \in Seq(Threads)
           /\ Range(bh_list_insert(list, e)) = Range(list) \cup {e}
           /\ Distinct(list) /\ e \notin Range(list)
              => Distinct(bh_list_insert(list, e))
    BY ConsList
  <2> QED BY <1>1, <1>3, <2>1, <2>2, ZenonT(30)
<1>6. \A s \in Threads : s \in Range(envs') <=> Listed(s)'
  BY <1>1, <1>2, <1>5, ZenonT(30) DEF ClusterInv, ListRight, Listed
<1>7. ListRight'
  BY <1>1, <1>4, <1>5, <1>6 DEF ClusterInv, ListRight, Distinct
<1>8. KeysRight'
  BY <1>1, <1>2, ZenonT(30) DEF ClusterInv, KeysRight
<1>9. CallsRight'
  BY <1>1, <1>2 DEF ClusterInv, CallsRight
<1> QED BY <1>7, <1>8, <1>9 DEF ClusterInv

(* A failed creation, and the end of the main thread, go through the list   *)
(* from its head.                                                           *)
LEMMA TraverseList ==
    ASSUME ThreadsInv, ClusterInv,
           DestroyMain \/ \E c \in Children : CreateFails(Main, c)
    PROVE  ClusterInv'
<1> USE ThreadsAssumption DEF Go, sync, misc, stack, Running
<1>1. /\ pc[Main] = "run" /\ who' = [who EXCEPT ![Main] = envs[1]]
      /\ UNCHANGED <<envs, cluster, keys, flags>>
  BY DEF DestroyMain, CreateFails
<1>2. PICK p \in {"term_visit", "fail_visit"} : pc' = [pc EXCEPT ![Main] = p]
  BY DEF DestroyMain, CreateFails
<1>3. Main \in Threads /\ Moves(Main, p)
  BY <1>1, <1>2 DEF Moves, Listed, Threads
<1>4. ListRight' /\ KeysRight'
  BY <1>3, MovesKeep DEF ClusterInv
<1>5. /\ Len(envs) \in Nat /\ envs[1] \in Threads
      /\ envs[1] \in Range(envs) /\ envs \in Seq(Threads)
  BY <1>1, <1>3, FirstListed DEF ClusterInv, ListRight, Listed
<1>6. (IF Len(envs) > 1 THEN envs[2] ELSE None) \in Threads \cup {None}
  BY <1>5
<1>7. After(envs[1]) \in Threads \cup {None}
  BY <1>5, AfterType DEF ClusterInv
<1>8. \E n \in Threads \cup {None} : following' = [following EXCEPT ![Main] = n]
  <2>1. CASE DestroyMain
    BY <2>1, <1>7, ZenonT(30) DEF DestroyMain
  <2>2. CASE \E c \in Children : CreateFails(Main, c)
    BY <2>2, <1>6, ZenonT(30) DEF CreateFails
  <2> QED BY <2>1, <2>2
<1>9. CallsRight'
  BY <1>1, <1>3, <1>5, <1>8 DEF ClusterInv, CallsRight
<1> QED BY <1>4, <1>9 DEF ClusterInv

(* The calls of the main thread about another.                              *)
LEMMA AboutList ==
    ASSUME ThreadsInv, ClusterInv, NEW c \in Children,
           Join(Main, c) \/ DetachWrapper(Main, c) \/ CancelWrapper(Main, c)
    PROVE  ClusterInv'
<1> USE ThreadsAssumption DEF Go, sync, misc, stack, Running
<1>1. /\ pc[Main] = "run" /\ UNCHANGED <<envs, cluster, keys, following>>
      /\ who' = who \/ who' = [who EXCEPT ![Main] = c]
      /\ flags' = flags \/ flags' = flags \cup {c}
  BY DEF Join, DetachWrapper, CancelWrapper
<1>2. pc' = pc \/ pc' = [pc EXCEPT ![Main] = "join"]
  BY DEF Join, DetachWrapper, CancelWrapper
<1>3. PICK p \in {"run", "join"} : pc' = [pc EXCEPT ![Main] = p]
  BY <1>1, <1>2 DEF ThreadsInv, Types, Threads
<1>4. Main \in Threads /\ Moves(Main, p)
  BY <1>1, <1>3 DEF Moves, Listed, Threads
<1>5. ListRight' /\ KeysRight'
  BY <1>4, MovesKeep DEF ClusterInv
<1>6. pc'[Main] = p
  BY <1>3, <1>4 DEF ThreadsInv, Types
<1>7. CallsRight'
  BY <1>1, <1>6 DEF ClusterInv, CallsRight, Threads
<1> QED BY <1>5, <1>7 DEF ClusterInv

(* The list begins with the main thread.                                    *)
LEMMA ClusterInit == Init => ClusterInv
<1> SUFFICES ASSUME Init PROVE ClusterInv
  OBVIOUS
<1> USE ThreadsAssumption DEF Init, Threads
<1>1. Range(envs) = {Main} /\ Distinct(envs) /\ envs \in Seq(Threads)
  BY DEF Range, Distinct
<1>2. ListRight
  BY <1>1 DEF ListRight, Listed
<1> QED BY <1>2 DEF ClusterInv, KeysRight, CallsRight

(* Every step preserves the invariant of the list.                          *)
LEMMA ClusterNext == ThreadsInv /\ ClusterInv /\ [Next]_vars => ClusterInv'
<1> SUFFICES ASSUME ThreadsInv, ClusterInv, [Next]_vars PROVE ClusterInv'
  OBVIOUS
<1>1. ASSUME NEW t \in Threads, Step(t) \/ SetSpecific(t) PROVE ClusterInv'
  BY <1>1, ChildMoves, ThreadExitList, DelExecEnvList, CheckEmptyList, VisitList,
     AdvanceList, RunningList DEF Step
<1>2. ASSUME NEW c \in Children,
             \/ ThreadReturns(c)
             \/ CreateThread(Main, c) \/ CreateFails(Main, c)
             \/ Join(Main, c) \/ DetachWrapper(Main, c)
             \/ CancelWrapper(Main, c)
      PROVE  ClusterInv'
  BY <1>2, RunningList, CreateThreadList, TraverseList, AboutList DEF Threads
<1>3. ASSUME UNCHANGED vars PROVE ClusterInv'
  BY <1>3 DEF vars, ClusterInv, ListRight, Listed, KeysRight, CallsRight
<1> QED BY <1>1, <1>2, <1>3, TraverseList DEF Next

(* The exec_env list and the life of the cluster, for any number of threads. *)
THEOREM ClusterInvariant == Spec => []ClusterInv
BY ClusterInit, ClusterNext, Invariant, PTL DEF Spec

(* wasm_cluster_del_exec_env: the list has just the threads that have not   *)
(* left, the cluster is there as long as the list has one, and when it is   *)
(* destroyed only the main thread can still have key values.                *)
THEOREM ClusterCorrect == Spec => []ClusterOutlivesThreads
<1>1. ClusterInv => ClusterOutlivesThreads
  <2> SUFFICES ASSUME ClusterInv, ~ cluster PROVE keys \subseteq {Main}
    BY DEF ClusterInv, ListRight, Listed, ClusterOutlivesThreads
  <2>1. \A t \in Threads : ~ Listed(t)
    BY FirstListed DEF ClusterInv
  <2> QED BY <2>1 DEF ClusterInv, KeysRight, Listed, Threads
<1> QED BY <1>1, ClusterInvariant, PTL

(* The threads, the calls under way and the list have their types, and no   *)
(* exec_env is in the list twice.                                           *)
THEOREM ThreadsTypes == Spec => []TypeOK
<1>1. ThreadsInv /\ ClusterInv => TypeOK
  <2> SUFFICES ASSUME ThreadsInv, ClusterInv PROVE TypeOK
    OBVIOUS
  <2>1. Len(envs) = Cardinality(Range(envs))
    BY DistinctLen DEF ClusterInv, ListRight
  <2>2. Range(envs) \subseteq Threads
    BY DEF ClusterInv, ListRight, Range
  <2>3. \A t \in Threads : /\ pc[t] \in ChildPlaces \cup MainPlaces
                           /\ bottom[t] \in 0 .. MaxThreads
    BY DEF ThreadsInv, Types
  <2>4. /\ \A t \in Threads : who[t] \in Threads \cup {None}
        /\ flags \subseteq Threads
    BY DEF ClusterInv, CallsRight
  <2> QED BY <2>1, <2>2, <2>3, <2>4, ZenonT(60) DEF TypeOK, ChildPlaces, MainPlaces
<1> QED BY <1>1, Invariant, ClusterInvariant, PTL
=============================================================================
