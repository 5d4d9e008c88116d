----------------------------- MODULE AtomicWait -----------------------------
(* wasm_runtime_atomic_wait and wasm_runtime_atomic_notify: threads that    *)
(* share a memory wait at addresses, with and without a timeout, and notify *)
(* each other.                                                              *)
(*                                                                          *)
(* A step is what a thread does under one lock (that of wait_map, the       *)
(* wait_list_lock of an info or the wait_lock of a node), or between two.   *)
(* The node of a wait is named by its thread.  A use of an info that is     *)
(* freed is undefined, and ends the behaviour.                              *)
EXTENDS Integers, Sequences, FiniteSets, BhList

CONSTANTS
    Agents,     \* the threads
    Addresses,  \* the addresses they wait at
    Infos,      \* the blocks that AtomicWaitInfos are allocated in
    Counts,     \* the counts that notify is called with
    MaxOps,     \* bound: the calls of each thread
    MaxStores,  \* bound: the stores to memory
    NULL

ASSUME WaitAssumption == NULL \notin Infos \cup (-1 .. 2) /\ Counts \subseteq Nat

VARIABLES
    wait_map,   \* the info of each address, or NULL
    live,       \* the infos that are allocated
    wait_list,  \* the nodes of each info
    notified,   \* the nodes with status S_NOTIFIED
    counted,    \* how many notifies counted the wait of each thread
    at,         \* where each thread is
    call,       \* its address, and timeout or count
    wait_info,  \* the info it has found
    returned,   \* what its last wait returned
    ops,        \* the calls it has made
    stores,     \* the stores so far; memory has the expected value when even
    dangling    \* whether a freed info has been used

waitVars == <<wait_map, live, wait_list, notified, counted, at, call, wait_info,
              returned, ops, stores, dangling>>

lists == <<wait_map, live, wait_list, notified, counted>>

WaitInit ==
    /\ wait_map = [a \in Addresses |-> NULL]
    /\ live = {} /\ wait_list = [i \in Infos |-> <<>>]
    /\ notified = {} /\ counted = [t \in Agents |-> 0]
    /\ at = [t \in Agents |-> "idle"]
    /\ call = [t \in Agents |-> NULL] /\ wait_info = [t \in Agents |-> NULL]
    /\ returned = [t \in Agents |-> NULL]
    /\ ops = [t \in Agents |-> 0] /\ stores = 0 /\ dangling = FALSE

----------------------------------------------------------------------------
Goto(t, where) == at' = [at EXCEPT ![t] = where]

(* The call of thread t is over; r is the result of a wait.                 *)
Return(t, r) ==
    /\ Goto(t, "idle")
    /\ returned' = [returned EXCEPT ![t] = r]
    /\ call' = [call EXCEPT ![t] = NULL]
    /\ wait_info' = [wait_info EXCEPT ![t] = NULL]

(* An access to the info that t has found, which may be freed by now.       *)
Access(t, step) ==
    IF wait_info[t] \in live THEN step /\ UNCHANGED dangling
    ELSE dangling' = TRUE /\ UNCHANGED <<lists, at, call, wait_info, returned>>

Begin(t, c, none) ==
    /\ at[t] = "idle" /\ ops[t] < MaxOps
    /\ ops' = [ops EXCEPT ![t] = @ + 1]
    /\ wait_info' = [wait_info EXCEPT ![t] = wait_map[c.address]]
    /\ IF wait_map[c.address] = NULL /\ none = "idle" THEN UNCHANGED <<at, call>>
       ELSE /\ Goto(t, IF wait_map[c.address] = NULL THEN none ELSE c.op)
            /\ call' = [call EXCEPT ![t] = c]
    /\ counted' = [counted EXCEPT ![t] = 0]
    /\ returned' = [returned EXCEPT ![t] = NULL]
    /\ UNCHANGED <<wait_map, live, wait_list, notified, stores, dangling>>

(* wasm_runtime_atomic_wait: bh_hash_map_find of acquire_wait_info.         *)
AtomicWait(t, a) ==
    \E forever \in BOOLEAN :
        Begin(t, [op |-> "wait", address |-> a, forever |-> forever, count |-> 0], "create")

(* wasm_runtime_atomic_notify: without an info nobody waits.                *)
AtomicNotify(t, a) ==
    \E n \in Counts :
        Begin(t, [op |-> "notify", address |-> a, forever |-> FALSE, count |-> n], "idle")

Unused == {i \in Infos \ live : \A s \in Agents : wait_info[s] # i}

(* A block that no thread has a pointer to is allocated; bh_hash_map_insert *)
(* fails when another thread has inserted an info in the meantime.          *)
CreateInfo(t) ==
    /\ at[t] = "create" /\ Unused # {}
    /\ LET i == CHOOSE i \in Unused : TRUE
       IN  IF wait_map[call[t].address] # NULL
           THEN Return(t, -1) /\ UNCHANGED <<lists, dangling>>
           ELSE /\ wait_map' = [wait_map EXCEPT ![call[t].address] = i]
                /\ live' = live \cup {i}
                /\ wait_list' = [wait_list EXCEPT ![i] = <<>>]
                /\ wait_info' = [wait_info EXCEPT ![t] = i]
                /\ Goto(t, "wait")
                /\ UNCHANGED <<notified, counted, call, returned, dangling>>
    /\ UNCHANGED <<ops, stores>>

NoMemory(t) ==
    /\ at[t] \in {"create", "wait"}
    /\ \/ at[t] = "create" /\ Return(t, -1) /\ UNCHANGED <<lists, dangling>>
       \/ at[t] = "wait" /\ stores % 2 = 0
          /\ Access(t, Return(t, -1) /\ UNCHANGED lists)
    /\ UNCHANGED <<ops, stores>>

(* The first critical section: the value is compared, and a node inserted.  *)
Enqueue(t) ==
    /\ at[t] = "wait"
    /\ Access(t, IF stores % 2 = 1 THEN Return(t, 1) /\ UNCHANGED lists
                 ELSE /\ wait_list' = [wait_list EXCEPT ![wait_info[t]] = bh_list_insert(@, t)]
                      /\ notified' = notified \ {t}
                      /\ Goto(t, "queued")
                      /\ UNCHANGED <<wait_map, live, counted, call, wait_info, returned>>)
    /\ UNCHANGED <<ops, stores>>

(* os_cond_reltimedwait: the thread sleeps.                                 *)
CondWait(t) ==
    /\ at[t] = "queued"
    /\ Goto(t, "asleep")
    /\ UNCHANGED <<lists, call, wait_info, returned, ops, stores, dangling>>

(* The timeout passes, or pthread_cond_wait returns without a signal.       *)
Awake(t) ==
    /\ at[t] = "asleep"
    /\ Goto(t, "awake")
    /\ UNCHANGED <<lists, call, wait_info, returned, ops, stores, dangling>>

Timeout(t) == at[t] = "asleep" /\ ~ call[t].forever /\ Awake(t)

Spurious(t) == Awake(t)

(* The second critical section: the status decides, the node is removed.    *)
Dequeue(t) ==
    /\ at[t] = "awake"
    /\ Access(t, /\ wait_list' = [wait_list EXCEPT ![wait_info[t]] = bh_list_remove(@, t)]
                 /\ returned' = [returned EXCEPT ![t] = IF t \in notified THEN 0 ELSE 2]
                 /\ Goto(t, "release")
                 /\ UNCHANGED <<wait_map, live, notified, counted, call, wait_info>>)
    /\ UNCHANGED <<ops, stores>>

(* A faulty notify_wait_list: only threads that sleep get S_NOTIFIED.        *)
NotifyAsleep(t) ==
    LET list == wait_list[wait_info[t]]
        count == IF call[t].count > Len(list) THEN Len(list) ELSE call[t].count
        marked == {list[k] : k \in 1 .. count}
    IN  /\ at[t] = "notify"
        /\ Access(t, /\ notified' = notified \cup {s \in marked : at[s] = "asleep"}
                     /\ counted' = [s \in Agents |-> counted[s] + (IF s \in marked THEN 1 ELSE 0)]
                     /\ at' = [s \in Agents |-> IF s = t THEN "release"
                                                ELSE IF s \in marked /\ at[s] = "asleep" THEN "awake"
                                                ELSE at[s]]
                     /\ UNCHANGED <<wait_map, live, wait_list, call, wait_info, returned>>)
        /\ UNCHANGED <<ops, stores>>

(* notify_wait_list: nodes from the head of the list get S_NOTIFIED; the    *)
(* signal of a condition wakes a thread that sleeps.                        *)
NotifyList(t) ==
    LET list == wait_list[wait_info[t]]
        count == IF call[t].count > Len(list) THEN Len(list) ELSE call[t].count
        marked == {list[k] : k \in 1 .. count}
    IN  /\ at[t] = "notify"
        /\ Access(t, /\ notified' = notified \cup marked
                     /\ counted' = [s \in Agents |-> counted[s] + (IF s \in marked THEN 1 ELSE 0)]
                     /\ at' = [s \in Agents |-> IF s = t THEN "release"
                                                ELSE IF s \in marked /\ at[s] = "asleep" THEN "awake"
                                                ELSE at[s]]
                     /\ UNCHANGED <<wait_map, live, wait_list, call, wait_info, returned>>)
        /\ UNCHANGED <<ops, stores>>

(* release_wait_info tests the length without the lock, removes what        *)
(* wait_map has at the address, and then destroys the info.                 *)
ReleaseInfo(t) ==
    /\ at[t] = "release"
    /\ Access(t, /\ IF wait_list[wait_info[t]] = <<>>
                    THEN Goto(t, "remove") /\ UNCHANGED <<call, wait_info, returned>>
                    ELSE Return(t, returned[t])
                 /\ UNCHANGED lists)
    /\ UNCHANGED <<ops, stores>>

RemoveInfo(t) ==
    /\ at[t] = "remove"
    /\ wait_map' = [wait_map EXCEPT ![call[t].address] = NULL]
    /\ Goto(t, "destroy")
    /\ UNCHANGED <<live, wait_list, notified, counted, call, wait_info, returned, ops, stores, dangling>>

(* A node that is in the list by now is freed under a thread that waits.    *)
DestroyInfo(t) ==
    /\ at[t] = "destroy"
    /\ IF wait_info[t] \in live /\ wait_list[wait_info[t]] = <<>>
       THEN /\ live' = live \ {wait_info[t]}
            /\ Return(t, returned[t])
            /\ UNCHANGED <<wait_map, wait_list, notified, counted, dangling>>
       ELSE dangling' = TRUE /\ UNCHANGED <<lists, at, call, wait_info, returned>>
    /\ UNCHANGED <<ops, stores>>

(* Another thread stores to the memory.                                     *)
Store ==
    /\ stores < MaxStores
    /\ stores' = stores + 1
    /\ UNCHANGED <<lists, at, call, wait_info, returned, ops, dangling>>

----------------------------------------------------------------------------
Agent(t) == \/ CreateInfo(t) \/ Enqueue(t) \/ CondWait(t) \/ Timeout(t) \/ Dequeue(t)
            \/ NotifyList(t) \/ ReleaseInfo(t) \/ RemoveInfo(t) \/ DestroyInfo(t)

WaitNext ==
    /\ ~ dangling
    /\ \/ \E t \in Agents : \/ \E a \in Addresses : AtomicWait(t, a) \/ AtomicNotify(t, a)
                            \/ Agent(t) \/ NoMemory(t) \/ Spurious(t)
       \/ Store

(* A thread that can go on does so.                                         *)
WaitSpec == /\ WaitInit /\ [][WaitNext]_waitVars
            /\ \A t \in Agents : WF_waitVars(~ dangling /\ Agent(t))

----------------------------------------------------------------------------
Queued(t) == at[t] \in {"queued", "asleep", "awake"}

(* A thread is in the list of its info from its first critical section to   *)
(* its second, once, and in no other; the infos in wait_map are allocated.  *)
WaitTypeOK ==
    ~ dangling =>
        /\ \A a \in Addresses : wait_map[a] \in live \cup {NULL}
        /\ \A t \in Agents, i \in live :
             Cardinality({k \in DOMAIN wait_list[i] : wait_list[i][k] = t})
               = IF Queued(t) /\ wait_info[t] = i THEN 1 ELSE 0
        /\ \A t \in Agents : returned[t] \in {NULL, -1, 0, 1, 2}

(* A wait returns 0 just when a notify has counted it, and 2 just when none *)
(* has, also when the timeout passes while the notify is under way: no      *)
(* notification is used up by a thread that says it timed out, and none is  *)
(* reported that nobody sent.                                               *)
WaitResult ==
    ~ dangling =>
        \A t \in Agents :
            /\ returned[t] = 0 => counted[t] > 0
            /\ returned[t] \in {-1, 1, 2} => counted[t] = 0

(* "wakeup": a thread that a notify has counted wakes up.                   *)
CountedWakes ==
    \A t \in Agents : (counted[t] > 0 /\ Queued(t)) ~> (dangling \/ ~ Queued(t))

=============================================================================
