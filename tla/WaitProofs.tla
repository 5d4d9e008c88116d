----------------------------- MODULE WaitProofs -----------------------------
(* For every number of threads, addresses and infos: a wait returns what    *)
(* happened to it, and the lists of waiting threads are right.              *)
EXTENDS SharedThreads, ThreadsProofs

Places == {"idle", "create", "wait", "queued", "asleep", "awake", "notify",
           "release", "remove", "destroy"}

Calls == [op : {"wait", "notify"}, address : Addresses, forever : BOOLEAN, count : Nat]

WaitTypes ==
    /\ at \in [Agents -> Places] /\ counted \in [Agents -> Nat]
    /\ wait_list \in [Infos -> Seq(Agents)]
    /\ wait_info \in [Agents -> Infos \cup {NULL}]
    /\ returned \in [Agents -> {NULL, -1, 0, 1, 2}]
    /\ DOMAIN call = Agents
    /\ \A t \in Agents : at[t] # "idle" => call[t] \in Calls
    /\ notified \subseteq Agents

(* An info is at one address of wait_map at most, and the threads that have *)
(* found it were called with that address; what is to be destroyed is out   *)
(* of the map.                                                              *)
Mapped ==
    /\ live \subseteq Infos /\ wait_map \in [Addresses -> live \cup {NULL}]
    /\ \A a, b \in Addresses : wait_map[a] = wait_map[b] /\ a # b => wait_map[a] = NULL
    /\ \A t \in Agents : at[t] \in {"idle", "create"} => wait_info[t] = NULL
    /\ \A t \in Agents : at[t] \in {"remove", "destroy"} => wait_info[t] # NULL
    /\ \A t \in Agents, a \in Addresses :
          wait_info[t] # NULL /\ wait_map[a] = wait_info[t] =>
             call[t].address = a /\ at[t] # "destroy"

(* A thread is in the list of its info between its two critical sections.   *)
Lists ==
    /\ \A i \in live : Distinct(wait_list[i])
    /\ \A i \in live, t \in Agents :
          t \in Range(wait_list[i]) <=> Queued(t) /\ wait_info[t] = i
    /\ \A t \in Agents : Queued(t) => wait_info[t] \in live

(* The status of a node and the count of the notifies agree as long as the  *)
(* node is in a list.                                                       *)
Results ==
    \A t \in Agents :
        /\ Queued(t) => (t \in notified <=> counted[t] > 0) /\ returned[t] = NULL
        /\ at[t] \in {"create", "wait"} => counted[t] = 0 /\ returned[t] = NULL
        /\ returned[t] = 0 => counted[t] > 0
        /\ returned[t] \in {-1, 1, 2} => counted[t] = 0

WaitBody == WaitTypes /\ Mapped /\ Lists /\ Results

WaitInv == ~ dangling => WaitBody

----------------------------------------------------------------------------
(* A thread that is in no list returns.                                     *)
LEMMA ReturnInv ==
    ASSUME WaitBody, NEW t \in Agents, ~ Queued(t),
           NEW r \in {NULL, -1, 0, 1, 2}, Return(t, r), UNCHANGED lists,
           r = 0 => counted[t] > 0, r \in {-1, 1, 2} => counted[t] = 0
    PROVE  WaitBody'
<1> USE WaitAssumption DEF WaitBody
<1>1. /\ at' = [at EXCEPT ![t] = "idle"] /\ returned' = [returned EXCEPT ![t] = r]
      /\ call' = [call EXCEPT ![t] = NULL]
      /\ wait_info' = [wait_info EXCEPT ![t] = NULL]
      /\ UNCHANGED <<wait_map, live, wait_list, notified, counted>>
  BY DEF Return, Goto, lists
<1>2. /\ at'[t] = "idle" /\ returned'[t] = r /\ wait_info'[t] = NULL
      /\ \A s \in Agents : s # t => /\ at'[s] = at[s] /\ returned'[s] = returned[s]
                                    /\ call'[s] = call[s]
                                    /\ wait_info'[s] = wait_info[s]
  BY <1>1 DEF WaitTypes
<1>3. WaitTypes'
  BY <1>1, <1>2 DEF WaitTypes, Places
<1>4. Mapped'
  BY <1>1, <1>2 DEF Mapped
<1>5. \A s \in Agents : Queued(s)' <=> Queued(s)
  BY <1>2 DEF Queued
<1>6. Lists'
  <2>1. \A i \in live, s \in Agents :
           Queued(s)' /\ wait_info'[s] = i <=> Queued(s) /\ wait_info[s] = i
    BY <1>2, <1>5
  <2> QED BY <1>1, <1>2, <1>5, <2>1 DEF Lists, Distinct
<1>7. Results'
  BY <1>1, <1>2, <1>5 DEF Results
<1> QED BY <1>3, <1>4, <1>6, <1>7

(* A thread goes on and stays in its list, or out of it.                    *)
LEMMA GotoInv ==
    ASSUME WaitBody, NEW t \in Agents, at[t] \in Places \ {"idle", "create", "wait"},
           NEW p \in Places \ {"idle", "create", "wait"}, Goto(t, p),
           UNCHANGED <<lists, call, wait_info, returned>>,
           Queued(t) <=> p \in {"queued", "asleep", "awake"},
           p \in {"remove", "destroy"} => wait_info[t] # NULL,
           p = "destroy" => \A a \in Addresses : wait_map[a] # wait_info[t]
    PROVE  WaitBody'
<1> USE WaitAssumption DEF WaitBody
<1>1. /\ at' = [at EXCEPT ![t] = p]
      /\ UNCHANGED <<wait_map, live, wait_list, notified, counted, call, wait_info, returned>>
  BY DEF Goto, lists
<1>2. /\ at'[t] = p /\ \A s \in Agents : s # t => at'[s] = at[s]
  BY <1>1 DEF WaitTypes
<1>3. WaitTypes'
  BY <1>1, <1>2 DEF WaitTypes
<1>4. Mapped'
  BY <1>1, <1>2 DEF Mapped
<1>5. \A s \in Agents : Queued(s)' <=> Queued(s)
  BY <1>2 DEF Queued
<1>6. Lists'
  BY <1>1, <1>5 DEF Lists, Distinct
<1>7. Results'
  BY <1>1, <1>2, <1>5 DEF Results
<1> QED BY <1>3, <1>4, <1>6, <1>7

(* A call begins.                                                           *)
LEMMA BeginInv ==
    ASSUME WaitBody, NEW t \in Agents, NEW c \in Calls, NEW none,
           none = IF c.op = "wait" THEN "create" ELSE "idle", Begin(t, c, none)
    PROVE  WaitBody'
<1> USE WaitAssumption DEF WaitBody
<1> DEFINE i == wait_map[c.address]
           p == IF i = NULL THEN none ELSE c.op
<1>0. c.address \in Addresses /\ c.op \in {"wait", "notify"}
  BY DEF Calls
<1>1. /\ at[t] = "idle" /\ wait_info' = [wait_info EXCEPT ![t] = i]
      /\ at' = [at EXCEPT ![t] = p]
      /\ p # "idle" => call' = [call EXCEPT ![t] = c]
      /\ p = "idle" => call' = call
      /\ counted' = [counted EXCEPT ![t] = 0]
      /\ returned' = [returned EXCEPT ![t] = NULL]
      /\ UNCHANGED <<wait_map, live, wait_list, notified>>
  BY <1>0 DEF Begin, Goto, WaitTypes
<1>2. i \in live \cup {NULL} /\ (i = NULL => p \in {"idle", "create"})
      /\ (i # NULL => p \in {"wait", "notify"})
  BY <1>0 DEF Mapped
<1> HIDE DEF p
<1>3. /\ at'[t] = p /\ returned'[t] = NULL /\ wait_info'[t] = i /\ counted'[t] = 0
      /\ p # "idle" => call'[t] = c
      /\ \A s \in Agents : s # t => /\ at'[s] = at[s] /\ returned'[s] = returned[s]
                                    /\ call'[s] = call[s] /\ counted'[s] = counted[s]
                                    /\ wait_info'[s] = wait_info[s]
  BY <1>1 DEF WaitTypes
<1>4. DOMAIN call' = Agents
  BY <1>1 DEF WaitTypes
<1>5. WaitTypes'
  <2>1. wait_info' \in [Agents -> Infos \cup {NULL}]
    BY <1>1, <1>2 DEF WaitTypes, Mapped
  <2>2. at' \in [Agents -> Places]
    BY <1>1, <1>2 DEF WaitTypes, Places
  <2>3. counted' \in [Agents -> Nat] /\ returned' \in [Agents -> {NULL, -1, 0, 1, 2}]
    BY <1>1 DEF WaitTypes
  <2>4. \A s \in Agents : at'[s] # "idle" => call'[s] \in Calls
    BY <1>3 DEF WaitTypes
  <2> QED BY <1>1, <1>4, <2>1, <2>2, <2>3, <2>4 DEF WaitTypes
<1>6. Mapped'
  <2>1. ASSUME NEW s \in Agents, NEW a \in Addresses,
               wait_info'[s] # NULL, wait_map[a] = wait_info'[s]
        PROVE  call'[s].address = a /\ at'[s] # "destroy"
    <3>1. CASE s = t
      <4>1. c.address = a
        BY <1>0, <1>3, <2>1, <3>1 DEF Mapped
      <4> QED BY <1>2, <1>3, <2>1, <3>1, <4>1
    <3>2. CASE s # t
      BY <1>3, <2>1, <3>2 DEF Mapped
    <3> QED BY <3>1, <3>2
  <2>2. \A s \in Agents : at'[s] \in {"idle", "create"} => wait_info'[s] = NULL
    BY <1>2, <1>3 DEF Mapped
  <2>3. \A s \in Agents : at'[s] \in {"remove", "destroy"} => wait_info'[s] # NULL
    BY <1>2, <1>3 DEF Mapped
  <2> QED BY <1>1, <2>1, <2>2, <2>3 DEF Mapped
<1>7. \A s \in Agents : Queued(s)' <=> Queued(s)
  BY <1>1, <1>2, <1>3 DEF Queued
<1>8. ~ Queued(t)
  BY <1>1 DEF Queued
<1>9. Lists'
  <2>1. \A j \in live, s \in Agents :
           Queued(s)' /\ wait_info'[s] = j <=> Queued(s) /\ wait_info[s] = j
    BY <1>3, <1>7, <1>8
  <2> QED BY <1>1, <1>3, <1>7, <1>8, <2>1 DEF Lists, Distinct
<1>10. Results'
  BY <1>1, <1>3, <1>7, <1>8 DEF Results
<1> QED BY <1>5, <1>6, <1>9, <1>10
(* A new info for an address that has none.                                 *)
LEMMA CreateInfoInv ==
    ASSUME WaitBody, NEW t \in Agents, CreateInfo(t)
    PROVE  WaitBody'
<1> USE WaitAssumption
<1> DEFINE i == CHOOSE i \in Unused : TRUE
           a == call[t].address
<1>1. /\ at[t] = "create" /\ i \in Unused /\ a \in Addresses
      /\ wait_info[t] = NULL /\ counted[t] = 0 /\ returned[t] = NULL
  BY DEF CreateInfo, WaitBody, WaitTypes, Calls, Mapped, Results
<1>2. CASE wait_map[a] # NULL
  <2>1. Return(t, -1) /\ UNCHANGED lists
    BY <1>2 DEF CreateInfo
  <2> QED BY <1>1, <2>1, ReturnInv DEF Queued
<1>3. CASE wait_map[a] = NULL
  <2> USE DEF WaitBody
  <2>1. /\ wait_map' = [wait_map EXCEPT ![a] = i] /\ live' = live \cup {i}
        /\ wait_list' = [wait_list EXCEPT ![i] = <<>>]
        /\ wait_info' = [wait_info EXCEPT ![t] = i]
        /\ at' = [at EXCEPT ![t] = "wait"]
        /\ UNCHANGED <<notified, counted, call, returned>>
    BY <1>3 DEF CreateInfo, Goto
  <2>2. /\ i \in Infos /\ i \notin live /\ i # NULL
        /\ \A s \in Agents : wait_info[s] # i
    BY <1>1 DEF Unused
  <2> HIDE DEF i, a
  <2>3. /\ at'[t] = "wait" /\ wait_info'[t] = i
        /\ \A s \in Agents : s # t => at'[s] = at[s] /\ wait_info'[s] = wait_info[s]
    BY <2>1 DEF WaitTypes
  <2>4. /\ wait_map'[a] = i
        /\ \A b \in Addresses : b # a => wait_map'[b] = wait_map[b]
    BY <1>1, <2>1 DEF Mapped
  <2>5. wait_list'[i] = <<>> /\ \A j \in live : wait_list'[j] = wait_list[j]
    BY <2>1, <2>2 DEF WaitTypes, Mapped
  <2>6. WaitTypes'
    <3>1. wait_list' \in [Infos -> Seq(Agents)]
      BY <2>1, <2>2 DEF WaitTypes
    <3>2. at' \in [Agents -> Places] /\ wait_info' \in [Agents -> Infos \cup {NULL}]
      BY <2>1, <2>2 DEF WaitTypes, Places
    <3>3. \A s \in Agents : at'[s] # "idle" => call'[s] \in Calls
      BY <1>1, <2>1, <2>3 DEF WaitTypes
    <3> QED BY <2>1, <3>1, <3>2, <3>3 DEF WaitTypes
  <2>7. Mapped'
    <3>1. live' \subseteq Infos /\ wait_map' \in [Addresses -> live' \cup {NULL}]
      BY <2>1, <2>2, ZenonT(30) DEF Mapped
    <3>2. \A b, c \in Addresses :
             wait_map'[b] = wait_map'[c] /\ b # c => wait_map'[b] = NULL
      <4>1. \A b \in Addresses : wait_map[b] # i
        BY <2>2 DEF Mapped
      <4> QED BY <2>4, <4>1 DEF Mapped
    <3>3. \A s \in Agents : at'[s] \in {"idle", "create"} => wait_info'[s] = NULL
      BY <2>3 DEF Mapped
    <3>4. \A s \in Agents : at'[s] \in {"remove", "destroy"} => wait_info'[s] # NULL
      BY <2>3 DEF Mapped
    <3>5. ASSUME NEW s \in Agents, NEW b \in Addresses,
                 wait_info'[s] # NULL, wait_map'[b] = wait_info'[s]
          PROVE  call'[s].address = b /\ at'[s] # "destroy"
      <4>1. CASE s = t
        <5>1. b = a
          BY <2>2, <2>3, <2>4, <3>5, <4>1 DEF Mapped
        <5> QED BY <2>1, <2>3, <4>1, <5>1 DEF a
      <4>2. CASE s # t
        <5>1. b # a
          BY <2>2, <2>3, <2>4, <3>5, <4>2
        <5> QED BY <2>1, <2>3, <2>4, <3>5, <4>2, <5>1 DEF Mapped
      <4> QED BY <4>1, <4>2
    <3> QED BY <3>1, <3>2, <3>3, <3>4, <3>5 DEF Mapped
  <2>8. \A s \in Agents : Queued(s)' <=> Queued(s)
    BY <1>1, <2>3 DEF Queued
  <2>9. Lists'
    <3>1. ~ Queued(t)
      BY <1>1 DEF Queued
    <3>2. Range(wait_list'[i]) = {} /\ Distinct(wait_list'[i])
      BY <2>5 DEF Range, Distinct
    <3>3. \A j \in live' : Distinct(wait_list'[j])
      BY <2>1, <2>5, <3>2 DEF Lists
    <3>4. ASSUME NEW j \in live', NEW s \in Agents
          PROVE  s \in Range(wait_list'[j]) <=> Queued(s)' /\ wait_info'[s] = j
      <4>1. CASE j = i
        BY <2>2, <2>3, <2>8, <3>1, <3>2, <4>1 DEF Lists
      <4>2. CASE j # i
        BY <2>1, <2>2, <2>3, <2>5, <2>8, <3>1, <4>2 DEF Lists
      <4> QED BY <4>1, <4>2
    <3>5. \A s \in Agents : Queued(s)' => wait_info'[s] \in live'
      BY <2>1, <2>3, <2>8, <3>1 DEF Lists
    <3> QED BY <3>3, <3>4, <3>5 DEF Lists, Distinct
  <2>10. Results'
    BY <1>1, <2>1, <2>3, <2>8 DEF Results
  <2> QED BY <2>6, <2>7, <2>9, <2>10
<1> QED BY <1>2, <1>3

(* The first critical section.                                              *)
LEMMA EnqueueInv ==
    ASSUME WaitBody, NEW t \in Agents, Enqueue(t), ~ dangling'
    PROVE  WaitBody'
<1> USE WaitAssumption
<1> DEFINE i == wait_info[t]
<1>1. /\ at[t] = "wait" /\ i \in live /\ i \in Infos /\ i # NULL
      /\ counted[t] = 0 /\ returned[t] = NULL
  BY DEF Enqueue, Access, WaitBody, Mapped, Results
<1>2. CASE stores % 2 = 1
  <2>1. Return(t, 1) /\ UNCHANGED lists
    BY <1>1, <1>2 DEF Enqueue, Access
  <2> QED BY <1>1, <2>1, ReturnInv DEF Queued
<1>3. CASE stores % 2 # 1
  <2> USE DEF WaitBody
  <2>1. /\ wait_list' = [wait_list EXCEPT ![i] = bh_list_insert(@, t)]
        /\ notified' = notified \ {t} /\ at' = [at EXCEPT ![t] = "queued"]
        /\ UNCHANGED <<wait_map, live, counted, call, wait_info, returned>>
    BY <1>1, <1>3 DEF Enqueue, Access, Goto
  <2>2. at'[t] = "queued" /\ \A s \in Agents : s # t => at'[s] = at[s]
    BY <2>1 DEF WaitTypes
  <2>3. /\ wait_list'[i] = bh_list_insert(wait_list[i], t)
        /\ \A j \in Infos : j # i => wait_list'[j] = wait_list[j]
    BY <1>1, <2>1 DEF WaitTypes
  <2>4. ~ Queued(t) /\ t \notin Range(wait_list[i]) /\ wait_list[i] \in Seq(Agents)
    BY <1>1 DEF Queued, Lists, WaitTypes
  <2>5. /\ wait_list'[i] \in Seq(Agents) /\ Distinct(wait_list'[i])
        /\ Range(wait_list'[i]) = Range(wait_list[i]) \cup {t}
    <3>1. Distinct(wait_list[i]) /\ t \in Agents
      BY <1>1 DEF Lists
    <3>2. \A list \in Seq(Agents), s \in Agents :
             /\ bh_list_insert(list, s) \in Seq(Agents)
             /\ Range(bh_list_insert(list, s)) = Range(list) \cup {s}
             /\ Distinct(list) /\ s \notin Range(list)
                => Distinct(bh_list_insert(list, s))
      BY ConsList
    <3> QED BY <2>3, <2>4, <3>1, <3>2
  <2>6. WaitTypes'
    <3>1. wait_list' \in [Infos -> Seq(Agents)]
      BY <1>1, <2>1, <2>3, <2>5 DEF WaitTypes
    <3> QED BY <1>1, <2>1, <2>2, <3>1 DEF WaitTypes, Places
  <2>7. Mapped'
    BY <1>1, <2>1, <2>2 DEF Mapped
  <2>8. Queued(t)' /\ \A s \in Agents : s # t => (Queued(s)' <=> Queued(s))
    BY <2>2 DEF Queued
  <2>9. Lists'
    <3>1. \A j \in live : Distinct(wait_list'[j])
      BY <2>3, <2>5, ZenonT(30) DEF Lists, Mapped
    <3>2. ASSUME NEW j \in live, NEW s \in Agents
          PROVE  s \in Range(wait_list'[j]) <=> Queued(s)' /\ wait_info[s] = j
      <4>1. CASE j = i
        BY <1>1, <2>4, <2>5, <2>8, <4>1 DEF Lists
      <4>2. CASE j # i
        BY <2>3, <2>4, <2>8, <4>2 DEF Lists, Mapped
      <4> QED BY <4>1, <4>2
    <3>3. \A s \in Agents : Queued(s)' => wait_info[s] \in live
      BY <1>1, <2>8 DEF Lists
    <3> QED BY <2>1, <3>1, <3>2, <3>3 DEF Lists, Distinct
  <2>10. Results'
    BY <1>1, <2>1, <2>2, <2>8 DEF Results
  <2> QED BY <2>6, <2>7, <2>9, <2>10
<1> QED BY <1>2, <1>3

(* The second critical section.                                             *)
LEMMA DequeueInv ==
    ASSUME WaitBody, NEW t \in Agents, Dequeue(t), ~ dangling'
    PROVE  WaitBody'
<1> USE WaitAssumption DEF WaitBody
<1> DEFINE i == wait_info[t]
           r == IF t \in notified THEN 0 ELSE 2
<1>1. /\ at[t] = "awake" /\ i \in live /\ i \in Infos /\ i # NULL
  BY DEF Dequeue, Access, Mapped
<1>2. /\ wait_list' = [wait_list EXCEPT ![i] = bh_list_remove(@, t)]
      /\ returned' = [returned EXCEPT ![t] = r]
      /\ at' = [at EXCEPT ![t] = "release"]
      /\ UNCHANGED <<wait_map, live, notified, counted, call, wait_info>>
  BY <1>1 DEF Dequeue, Access, Goto
<1>3. /\ at'[t] = "release" /\ returned'[t] = r
      /\ \A s \in Agents : s # t => at'[s] = at[s] /\ returned'[s] = returned[s]
  BY <1>2 DEF WaitTypes
<1>4. /\ wait_list'[i] = bh_list_remove(wait_list[i], t)
      /\ \A j \in Infos : j # i => wait_list'[j] = wait_list[j]
  BY <1>1, <1>2 DEF WaitTypes
<1>5. /\ wait_list'[i] \in Seq(Agents) /\ Distinct(wait_list'[i])
      /\ Range(wait_list'[i]) = Range(wait_list[i]) \ {t}
  <2>1. wait_list[i] \in Seq(Agents) /\ Distinct(wait_list[i])
    BY <1>1 DEF Lists, WaitTypes
  <2> QED BY <1>4, <2>1, RemoveList
<1>6. WaitTypes'
  <2>1. wait_list' \in [Infos -> Seq(Agents)]
    BY <1>1, <1>2, <1>4, <1>5 DEF WaitTypes
  <2> QED BY <1>1, <1>2, <1>3, <2>1 DEF WaitTypes, Places
<1>7. Mapped'
  BY <1>1, <1>2, <1>3 DEF Mapped
<1>8. Queued(t) /\ ~ Queued(t)' /\ \A s \in Agents : s # t => (Queued(s)' <=> Queued(s))
  BY <1>1, <1>3 DEF Queued
<1>9. Lists'
  <2>1. \A j \in live : Distinct(wait_list'[j])
    BY <1>4, <1>5 DEF Lists, Mapped
  <2>2. ASSUME NEW j \in live, NEW s \in Agents
        PROVE  s \in Range(wait_list'[j]) <=> Queued(s)' /\ wait_info[s] = j
    <3>1. CASE j = i
      BY <1>1, <1>5, <1>8, <3>1 DEF Lists
    <3>2. CASE j # i
      BY <1>4, <1>8, <3>2 DEF Lists, Mapped
    <3> QED BY <3>1, <3>2
  <2>3. \A s \in Agents : Queued(s)' => wait_info[s] \in live
    BY <1>8 DEF Lists
  <2> QED BY <1>2, <2>1, <2>2, <2>3 DEF Lists, Distinct
<1>10. Results'
  <2>1. (t \in notified <=> counted[t] > 0) /\ counted[t] \in Nat
    BY <1>8 DEF Results, WaitTypes
  <2> QED BY <1>1, <1>2, <1>3, <1>8, <2>1 DEF Results
<1> QED BY <1>6, <1>7, <1>9, <1>10
(* A notify marks nodes from the head of the list, and counts them.         *)
LEMMA NotifyInv ==
    ASSUME WaitBody, NEW t \in Agents, NotifyList(t), ~ dangling'
    PROVE  WaitBody'
<1> USE WaitAssumption DEF WaitBody
<1> DEFINE i == wait_info[t]
           list == wait_list[i]
           n == IF call[t].count > Len(list) THEN Len(list) ELSE call[t].count
           marked == {list[k] : k \in 1 .. n}
<1>1. at[t] = "notify" /\ i \in live /\ i \in Infos /\ i # NULL
  BY DEF NotifyList, Access, Mapped
<1>2. /\ notified' = notified \cup marked
      /\ counted' = [s \in Agents |-> counted[s] + (IF s \in marked THEN 1 ELSE 0)]
      /\ at' = [s \in Agents |-> IF s = t THEN "release"
                                 ELSE IF s \in marked /\ at[s] = "asleep" THEN "awake"
                                 ELSE at[s]]
      /\ UNCHANGED <<wait_map, live, wait_list, call, wait_info, returned>>
  BY <1>1 DEF NotifyList, Access
<1>3. marked \subseteq Range(list) /\ marked \subseteq Agents
  <2>1. list \in Seq(Agents) /\ call[t] \in Calls
    BY <1>1 DEF WaitTypes
  <2>2. Len(list) \in Nat /\ call[t].count \in Nat /\ DOMAIN list = 1 .. Len(list)
    BY <2>1 DEF Calls
  <2>3. 1 .. n \subseteq DOMAIN list
    BY <2>2
  <2>4. \A k \in DOMAIN list : list[k] \in Agents
    BY <2>1, <2>2
  <2> HIDE DEF n
  <2> QED BY <2>3, <2>4 DEF Range
<1> HIDE DEF marked
<1>4. \A s \in marked : Queued(s) /\ wait_info[s] = i
  BY <1>1, <1>3 DEF Lists
<1>5. at'[t] = "release" /\ \A s \in Agents :
        /\ s # t => at'[s] = at[s] \/ (s \in marked /\ at[s] = "asleep" /\ at'[s] = "awake")
        /\ counted'[s] = counted[s] + (IF s \in marked THEN 1 ELSE 0)
  BY <1>2
<1>6. WaitTypes'
  <2>1. at' \in [Agents -> Places]
    BY <1>2, <1>5 DEF WaitTypes, Places
  <2>2. counted' \in [Agents -> Nat]
    BY <1>2 DEF WaitTypes
  <2>3. \A s \in Agents : at'[s] # "idle" => call'[s] \in Calls
    BY <1>1, <1>2, <1>5 DEF WaitTypes
  <2> QED BY <1>2, <1>3, <2>1, <2>2, <2>3 DEF WaitTypes
<1>7. Mapped'
  BY <1>1, <1>2, <1>5 DEF Mapped
<1>8. \A s \in Agents : Queued(s)' <=> Queued(s)
  BY <1>1, <1>5 DEF Queued
<1>9. Lists'
  BY <1>2, <1>8 DEF Lists, Distinct
<1>10. ASSUME NEW s \in Agents
       PROVE  /\ Queued(s)' => (s \in notified' <=> counted'[s] > 0) /\ returned'[s] = NULL
              /\ at'[s] \in {"create", "wait"} => counted'[s] = 0 /\ returned'[s] = NULL
              /\ returned'[s] = 0 => counted'[s] > 0
              /\ returned'[s] \in {-1, 1, 2} => counted'[s] = 0
  <2>1. counted[s] \in Nat
    BY DEF WaitTypes
  <2>2. CASE s \in marked
    <3>1. Queued(s) /\ returned[s] = NULL
      BY <1>4, <2>2 DEF Results
    <3>2. counted'[s] > 0 /\ s \in notified' /\ returned'[s] = NULL
      BY <1>2, <1>5, <2>1, <2>2, <3>1
    <3>3. at'[s] \notin {"create", "wait"}
      BY <1>8, <3>1 DEF Queued
    <3> QED BY <3>2, <3>3
  <2>3. CASE s \notin marked
    <3>1. counted'[s] = counted[s] /\ returned'[s] = returned[s]
          /\ (s \in notified' <=> s \in notified)
      BY <1>2, <1>5, <2>1, <2>3
    <3>2. at'[s] \in {"create", "wait"} => at[s] \in {"create", "wait"}
      BY <1>5, <2>3
    <3> QED BY <1>8, <3>1, <3>2 DEF Results
  <2> QED BY <2>2, <2>3
<1>11. Results'
  BY <1>10 DEF Results
<1> QED BY <1>6, <1>7, <1>9, <1>11

(* release_wait_info: the address is taken out of the map.                  *)
LEMMA RemoveInv ==
    ASSUME WaitBody, NEW t \in Agents, RemoveInfo(t)
    PROVE  WaitBody'
<1> USE WaitAssumption DEF WaitBody
<1> DEFINE a == call[t].address
<1>1. /\ at[t] = "remove" /\ wait_map' = [wait_map EXCEPT ![a] = NULL]
      /\ at' = [at EXCEPT ![t] = "destroy"]
      /\ UNCHANGED <<live, wait_list, notified, counted, call, wait_info, returned>>
  BY DEF RemoveInfo, Goto
<1>2. a \in Addresses
  BY <1>1 DEF WaitTypes, Calls
<1>3. at'[t] = "destroy" /\ \A s \in Agents : s # t => at'[s] = at[s]
  BY <1>1 DEF WaitTypes
<1> HIDE DEF a
<1>4. wait_map'[a] = NULL /\ \A b \in Addresses : b # a => wait_map'[b] = wait_map[b]
  BY <1>1, <1>2 DEF Mapped
<1>5. WaitTypes'
  BY <1>1, <1>3 DEF WaitTypes, Places
<1>6. Mapped'
  <2>1. wait_map' \in [Addresses -> live' \cup {NULL}]
    BY <1>1, ZenonT(30) DEF Mapped
  <2>2. \A b, c \in Addresses :
           wait_map'[b] = wait_map'[c] /\ b # c => wait_map'[b] = NULL
    BY <1>4 DEF Mapped
  <2>3. ASSUME NEW s \in Agents, NEW b \in Addresses,
               wait_info'[s] # NULL, wait_map'[b] = wait_info'[s]
        PROVE  call'[s].address = b /\ at'[s] # "destroy"
    <3>1. b # a /\ wait_map[b] = wait_info[s] /\ wait_info[s] # NULL
      BY <1>1, <1>4, <2>3
    <3>2. call[s].address = b /\ at[s] # "destroy"
      BY <3>1 DEF Mapped
    <3>3. s # t
      BY <3>1, <3>2 DEF a
    <3> QED BY <1>1, <1>3, <3>2, <3>3
  <2>4. \A s \in Agents : /\ at'[s] \in {"idle", "create"} => wait_info'[s] = NULL
                          /\ at'[s] \in {"remove", "destroy"} => wait_info'[s] # NULL
    BY <1>1, <1>3 DEF Mapped
  <2> QED BY <1>1, <2>1, <2>2, <2>3, <2>4 DEF Mapped
<1>7. \A s \in Agents : Queued(s)' <=> Queued(s)
  BY <1>1, <1>3 DEF Queued
<1>8. Lists'
  BY <1>1, <1>7 DEF Lists, Distinct
<1>9. Results'
  BY <1>1, <1>3, <1>7 DEF Results
<1> QED BY <1>5, <1>6, <1>8, <1>9

(* destroy_wait_info, where the list is still empty.                        *)
LEMMA DestroyInv ==
    ASSUME WaitBody, NEW t \in Agents, DestroyInfo(t), ~ dangling'
    PROVE  WaitBody'
<1> USE WaitAssumption DEF WaitBody
<1> DEFINE i == wait_info[t]
           r == returned[t]
<1>1. /\ at[t] = "destroy" /\ i \in live /\ wait_list[i] = <<>>
      /\ live' = live \ {i} /\ Return(t, r)
      /\ UNCHANGED <<wait_map, wait_list, notified, counted>>
  BY DEF DestroyInfo
<1>2. /\ at' = [at EXCEPT ![t] = "idle"] /\ returned' = returned
      /\ call' = [call EXCEPT ![t] = NULL]
      /\ wait_info' = [wait_info EXCEPT ![t] = NULL]
  BY <1>1 DEF Return, Goto, WaitTypes
<1>3. /\ at'[t] = "idle" /\ wait_info'[t] = NULL
      /\ \A s \in Agents : s # t => /\ at'[s] = at[s] /\ call'[s] = call[s]
                                    /\ wait_info'[s] = wait_info[s]
  BY <1>2 DEF WaitTypes
<1>4. ~ Queued(t) /\ \A s \in Agents : Queued(s)' <=> Queued(s)
  BY <1>1, <1>3 DEF Queued
<1>5. \A s \in Agents : Queued(s) => wait_info[s] # i
  <2>1. Range(wait_list[i]) = {}
    BY <1>1 DEF Range
  <2> QED BY <1>1, <2>1 DEF Lists
<1>6. \A a \in Addresses : wait_map[a] # i
  BY <1>1 DEF Mapped
<1>7. WaitTypes'
  BY <1>1, <1>2, <1>3 DEF WaitTypes, Places
<1>8. Mapped'
  <2>1. live' \subseteq Infos /\ wait_map' \in [Addresses -> live' \cup {NULL}]
    <3>1. live' = live \ {i} /\ wait_map' = wait_map
      BY <1>1
    <3> QED BY <1>6, <3>1, SMTT(30) DEF Mapped
  <2> QED BY <1>1, <1>3, <2>1 DEF Mapped
<1>9. Lists'
  <2>1. \A j \in live', s \in Agents :
           s \in Range(wait_list[j]) <=> Queued(s)' /\ wait_info'[s] = j
    BY <1>1, <1>3, <1>4 DEF Lists
  <2>2. \A s \in Agents : Queued(s)' => wait_info'[s] \in live'
    BY <1>1, <1>3, <1>4, <1>5 DEF Lists
  <2> QED BY <1>1, <2>1, <2>2 DEF Lists, Distinct
<1>10. Results'
  BY <1>1, <1>2, <1>3, <1>4 DEF Results
<1> QED BY <1>7, <1>8, <1>9, <1>10

(* No memory for an info or for a node.                                     *)
LEMMA NoMemoryInv ==
    ASSUME WaitBody, NEW t \in Agents, NoMemory(t), ~ dangling'
    PROVE  WaitBody'
<1>1. at[t] \in {"create", "wait"} /\ Return(t, -1) /\ UNCHANGED lists
  BY DEF NoMemory, Access
<1>2. counted[t] = 0 /\ ~ Queued(t)
  BY <1>1 DEF WaitBody, Results, Queued
<1> QED BY <1>1, <1>2, ReturnInv

(* The call returns, or the info is to be released.                         *)
LEMMA ReleaseInv ==
    ASSUME WaitBody, NEW t \in Agents, ReleaseInfo(t), ~ dangling'
    PROVE  WaitBody'
<1>1. at[t] = "release" /\ wait_info[t] \in live /\ UNCHANGED lists
  BY DEF ReleaseInfo, Access
<1>2. wait_info[t] # NULL /\ ~ Queued(t)
  BY <1>1, WaitAssumption DEF WaitBody, Mapped, Queued
<1>3. CASE wait_list[wait_info[t]] = <<>>
  <2>1. Goto(t, "remove") /\ UNCHANGED <<call, wait_info, returned>>
    BY <1>1, <1>3 DEF ReleaseInfo, Access
  <2> QED BY <1>1, <1>2, <2>1, GotoInv DEF Places
<1>4. CASE wait_list[wait_info[t]] # <<>>
  <2>1. Return(t, returned[t])
    BY <1>1, <1>4 DEF ReleaseInfo, Access
  <2>2. /\ returned[t] \in {NULL, -1, 0, 1, 2}
        /\ returned[t] = 0 => counted[t] > 0
        /\ returned[t] \in {-1, 1, 2} => counted[t] = 0
    BY DEF WaitBody, WaitTypes, Results
  <2> QED BY <1>1, <1>2, <2>1, <2>2, ReturnInv
<1> QED BY <1>3, <1>4

(* The thread goes to sleep, and wakes up.                                  *)
LEMMA SleepInv ==
    ASSUME WaitBody, NEW t \in Agents, CondWait(t) \/ Awake(t)
    PROVE  WaitBody'
<1>1. PICK p \in {"asleep", "awake"} : Goto(t, p)
  BY DEF CondWait, Awake
<1>2. /\ at[t] \in {"queued", "asleep"} /\ Queued(t)
      /\ UNCHANGED <<lists, call, wait_info, returned>>
  BY DEF CondWait, Awake, Queued
<1> QED BY <1>1, <1>2, GotoInv DEF Places

(* At first nobody waits.                                                   *)
LEMMA WaitInitInv == WaitInit => WaitInv
<1> SUFFICES ASSUME WaitInit PROVE WaitBody
  BY DEF WaitInv
<1> USE WaitAssumption DEF WaitInit
<1>1. WaitTypes
  BY DEF WaitTypes, Places
<1> QED BY <1>1 DEF WaitBody, Mapped, Lists, Results, Queued

(* Every step preserves the invariant.                                      *)
LEMMA WaitNextInv == WaitInv /\ [WaitNext]_waitVars => WaitInv'
<1> SUFFICES ASSUME WaitInv, [WaitNext]_waitVars, ~ dangling' PROVE WaitBody'
  BY DEF WaitInv
<1>1. ASSUME UNCHANGED waitVars PROVE WaitBody'
  BY <1>1 DEF WaitInv, waitVars, WaitBody, WaitTypes, Mapped, Lists, Distinct,
              Results, Queued
<1>2. ASSUME WaitNext PROVE WaitBody'
  <2>1. WaitBody
    BY <1>2 DEF WaitNext, WaitInv
  <2>2. ASSUME NEW t \in Agents, NEW a \in Addresses, AtomicWait(t, a) PROVE WaitBody'
    <3>1. PICK f \in BOOLEAN :
             Begin(t, [op |-> "wait", address |-> a, forever |-> f, count |-> 0], "create")
      BY <2>2 DEF AtomicWait
    <3>2. [op |-> "wait", address |-> a, forever |-> f, count |-> 0] \in Calls
      BY DEF Calls
    <3> QED BY <2>1, <3>1, <3>2, BeginInv
  <2>3. ASSUME NEW t \in Agents, NEW a \in Addresses, AtomicNotify(t, a) PROVE WaitBody'
    <3>1. PICK n \in Counts :
             Begin(t, [op |-> "notify", address |-> a, forever |-> FALSE, count |-> n], "idle")
      BY <2>3, ZenonT(30) DEF AtomicNotify
    <3>2. [op |-> "notify", address |-> a, forever |-> FALSE, count |-> n] \in Calls
      BY WaitAssumption DEF Calls
    <3> QED BY <2>1, <3>1, <3>2, BeginInv
  <2>4. ASSUME NEW t \in Agents, Agent(t) \/ NoMemory(t) \/ Spurious(t) PROVE WaitBody'
    BY <2>1, <2>4, CreateInfoInv, EnqueueInv, DequeueInv, NotifyInv, RemoveInv,
       DestroyInv, NoMemoryInv, ReleaseInv, SleepInv DEF Agent, Timeout, Spurious
  <2>5. ASSUME Store PROVE WaitBody'
    BY <2>1, <2>5 DEF Store, lists, WaitBody, WaitTypes, Mapped, Lists, Distinct,
                      Results, Queued
  <2> QED BY <1>2, <2>2, <2>3, <2>4, <2>5 DEF WaitNext
<1> QED BY <1>1, <1>2
(* The invariant of the waits, also beside the threads of a cluster.        *)
THEOREM WaitInvariant == WaitInit /\ [][WaitNext]_waitVars => []WaitInv
BY WaitInitInv, WaitNextInv, PTL

(* wasm_runtime_atomic_wait: a wait returns 0 just when a notify counted    *)
(* it, and 2 just when none did, for any number of threads, addresses and   *)
(* infos, and whatever the order of notifies, timeouts and stores.          *)
THEOREM WaitCorrect == WaitSpec => []WaitResult
<1>1. WaitInv => WaitResult
  BY DEF WaitInv, WaitBody, Results, WaitResult
<1> QED BY <1>1, WaitInvariant, PTL DEF WaitSpec

(* The threads of an application and their waits: the list of the cluster   *)
(* and the lists of waiting threads are well formed, the one beside the     *)
(* other.                                                                   *)
THEOREM SharedTypes == SharedSpec => []SharedTypeOK
<1>1. WaitInv => WaitTypeOK
  <2> SUFFICES ASSUME WaitBody, NEW t \in Agents, NEW i \in live
               PROVE  Cardinality({k \in DOMAIN wait_list[i] : wait_list[i][k] = t})
                        = IF Queued(t) /\ wait_info[t] = i THEN 1 ELSE 0
    BY DEF WaitInv, WaitTypeOK, WaitBody, WaitTypes, Mapped
  <2>1. wait_list[i] \in Seq(Agents) /\ Distinct(wait_list[i])
    BY DEF WaitBody, WaitTypes, Mapped, Lists
  <2>2. t \in Range(wait_list[i]) <=> Queued(t) /\ wait_info[t] = i
    BY DEF WaitBody, Lists
  <2> QED BY <2>1, <2>2, Occurrences
<1>2. SharedInit => Init /\ WaitInit
  BY DEF SharedInit
<1>3. [SharedNext]_all => [Next]_vars /\ [WaitNext]_waitVars
  BY DEF SharedNext, ClusterStep, all
<1>4. SharedSpec => Spec /\ WaitInit /\ [][WaitNext]_waitVars
  BY <1>2, <1>3, PTL DEF SharedSpec, Spec
<1>5. TypeOK /\ WaitTypeOK => SharedTypeOK
  BY DEF SharedTypeOK
<1> QED BY <1>1, <1>4, <1>5, ThreadsTypes, WaitInvariant, PTL
=============================================================================
