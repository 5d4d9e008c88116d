------------------------------ MODULE Threads ------------------------------
(* Threads of a wasm application: the clusters of thread_manager.c and the  *)
(* thread functions of lib_pthread_wrapper.c.                               *)
(*                                                                          *)
(* A thread is created, registers itself in the map of thread infos, runs,  *)
(* and takes itself apart in many small steps while others may join,        *)
(* detach or cancel it, or terminate the whole cluster.  Each step here is  *)
(* what the code does between two points at which another thread can see   *)
(* the difference.  The code does not lock all it reads: where a step uses  *)
(* an exec_env or a cluster that is already freed, undefined becomes TRUE   *)
(* and nothing is said about what follows.                                  *)
(*                                                                          *)
(* Only the main thread makes calls about others, and it does not join a    *)
(* thread that it has detached.  os_cond_wait does not return without a     *)
(* signal: pthread_create_wrapper has no loop around it.                    *)
EXTENDS Integers, Sequences, FiniteSets, BhList

CONSTANTS Main,        \* the thread that owns the cluster
          Children,    \* the threads that can be created
          MaxThreads,  \* cluster_max_thread_num: the aux stack segments
          None

Threads == {Main} \union Children

ASSUME ThreadsAssumption ==
    Main \notin Children /\ None \notin Threads /\ MaxThreads \in Nat \ {0}

VARIABLES pc,        \* what each thread does next
          who,       \* the thread that a call of it is about
          following, \* terminate_all: the next element, read in advance
          waitLock,  \* exec_env->wait_lock of each thread: its holder
          signalled, \* exec_env->wait_cond has been signalled
          node,      \* the ThreadInfoNodes
          envs,      \* cluster->exec_env_list
          occupied,  \* cluster->stack_segment_occupied
          bottom,    \* exec_env->aux_stack_bottom, as a segment
          flags,     \* the threads with the termination flag
          os,        \* the native thread: who joins it, detached, exited
          ret,       \* the value of each thread function
          result,    \* what a join has just returned: target, code, value
          keys,      \* the threads with a ThreadKeyValueNode
          cluster,   \* whether the cluster exists
          undefined  \* something freed was used

vars == <<pc, who, following, waitLock, signalled, node, envs, occupied, bottom,
          flags, os, ret, result, keys, cluster, undefined>>

\* What most steps leave alone.
stack == <<occupied, bottom>>
sync == <<waitLock, signalled>>
calls == <<who, following, result>>
misc == <<ret, keys, cluster, undefined>>

----------------------------------------------------------------------------

Go(t, p) == pc' = [pc EXCEPT ![t] = p]

NoNode == [in |-> FALSE, status |-> "none", joinable |-> FALSE, u |-> None]

\* An exec_env is freed in the last step of its thread.
Freed(t) == pc[t] = "gone"

Init ==
    /\ pc = [t \in Threads |-> IF t = Main THEN "run" ELSE "unborn"]
    /\ who = [t \in Threads |-> None] /\ following = [t \in Threads |-> None]
    /\ waitLock = [t \in Threads |-> None]
    /\ signalled = [t \in Threads |-> FALSE]
    /\ node = [t \in Threads |-> NoNode]
    /\ envs = <<Main>>
    /\ occupied = [i \in 1..MaxThreads |-> FALSE]
    /\ bottom = [t \in Threads |-> 0]
    /\ flags = {}
    /\ os = [t \in Threads |-> [joiner |-> None, detached |-> FALSE]]
    /\ ret = [t \in Threads |-> None]
    /\ result = <<>>
    /\ keys = {} /\ cluster = TRUE /\ undefined = FALSE

Running(t) == pc[t] = "run" /\ ~undefined

----------------------------------------------------------------------------
(* pthread_create *)

FreeSegments == {i \in 1..MaxThreads : ~occupied[i]}

\* Faulty variant of allocate_aux_stack: the segment is not marked.
allocate_aux_stackUnmarked(t) ==
    LET i == CHOOSE i \in FreeSegments : \A j \in FreeSegments : i <= j
    IN  /\ occupied' = occupied
        /\ bottom' = [bottom EXCEPT ![t] = i]

\* The first free segment, under the lock of the cluster.
allocate_aux_stack(t) ==
    LET i == CHOOSE i \in FreeSegments : \A j \in FreeSegments : i <= j
    IN  /\ occupied' = [occupied EXCEPT ![i] = TRUE]
        /\ bottom' = [bottom EXCEPT ![t] = i]

\* Faulty variant of CreateThread: wait_lock is not held.
CreateThreadUnlocked(p, c) ==
    /\ Running(p) /\ pc[c] = "unborn" /\ FreeSegments # {}
    /\ waitLock[p] = None
    /\ waitLock' = waitLock
    /\ signalled' = [signalled EXCEPT ![p] = FALSE]
    /\ allocate_aux_stack(c)
    /\ envs' = bh_list_insert(envs, c)
    /\ node' = [node EXCEPT ![c] = [NoNode EXCEPT !.status = "init",
                                                  !.joinable = TRUE]]
    /\ pc' = [pc EXCEPT ![p] = "create", ![c] = "born"]
    /\ who' = [who EXCEPT ![p] = c] /\ result' = <<>>
    /\ UNCHANGED <<following, flags, os, misc>>

\* pthread_create_wrapper locks wait_lock, and wasm_cluster_create_thread
\* makes the exec_env, its aux stack and the native thread.
CreateThread(p, c) ==
    /\ Running(p) /\ pc[c] = "unborn" /\ FreeSegments # {}
    /\ waitLock[p] = None
    /\ waitLock' = [waitLock EXCEPT ![p] = p]
    /\ signalled' = [signalled EXCEPT ![p] = FALSE]
    /\ allocate_aux_stack(c)
    /\ envs' = bh_list_insert(envs, c)
    /\ node' = [node EXCEPT ![c] = [NoNode EXCEPT !.status = "init",
                                                  !.joinable = TRUE]]
    /\ pc' = [pc EXCEPT ![p] = "create", ![c] = "born"]
    /\ who' = [who EXCEPT ![p] = c] /\ result' = <<>>
    /\ UNCHANGED <<following, flags, os, misc>>

\* os_cond_wait of pthread_create_wrapper: the lock is released.
CreateWait(p) ==
    /\ pc[p] = "create" /\ ~undefined
    /\ waitLock' = [waitLock EXCEPT ![p] = None]
    /\ Go(p, "create_wait")
    /\ UNCHANGED <<calls, signalled, node, envs, stack, flags, os, misc>>

\* Faulty variant of Register: the exec_env is added once more.
RegisterTwice(c) ==
    /\ pc[c] = "born" /\ ~undefined /\ waitLock[Main] = None
    /\ node' = [node EXCEPT ![c].in = TRUE, ![c].status = "running",
                            ![c].u = "thread"]
    /\ signalled' = [signalled EXCEPT ![Main] = pc[Main] = "create_wait"]
    /\ envs' = bh_list_insert(envs, c)
    /\ Go(c, "run")
    /\ UNCHANGED <<calls, waitLock, stack, flags, os, misc>>

\* pthread_start_routine: the thread puts its node into the map and signals,
\* under the wait_lock of its parent.
Register(c) ==
    /\ pc[c] = "born" /\ ~undefined /\ waitLock[Main] = None
    /\ node' = [node EXCEPT ![c].in = TRUE, ![c].status = "running",
                            ![c].u = "thread"]
    /\ signalled' = [signalled EXCEPT ![Main] = pc[Main] = "create_wait"]
    /\ Go(c, "run")
    /\ UNCHANGED <<calls, waitLock, envs, stack, flags, os, misc>>

\* append_thread_info_node fails: the node is deleted, the parent is signalled,
\* and the native thread ends without running the thread function.
RegisterFails(c) ==
    /\ pc[c] = "born" /\ ~undefined /\ waitLock[Main] = None
    /\ node' = [node EXCEPT ![c] = NoNode]
    /\ signalled' = [signalled EXCEPT ![Main] = pc[Main] = "create_wait"]
    /\ Go(c, "aux")
    /\ UNCHANGED <<calls, waitLock, envs, stack, flags, os, misc>>

\* Faulty variant of CreateReturn: there is no wait for the signal.
CreateReturnAtOnce(p) ==
    /\ pc[p] = "create_wait" /\ ~undefined /\ waitLock[p] = None
    /\ signalled' = [signalled EXCEPT ![p] = FALSE]
    /\ who' = [who EXCEPT ![p] = None]
    /\ Go(p, "run")
    /\ UNCHANGED <<following, result, waitLock, node, envs, stack, flags, os, misc>>

\* os_cond_wait returns, with the lock; pthread_create_wrapper releases it.
CreateReturn(p) ==
    /\ pc[p] = "create_wait" /\ ~undefined
    /\ signalled[p] /\ waitLock[p] = None
    /\ signalled' = [signalled EXCEPT ![p] = FALSE]
    /\ who' = [who EXCEPT ![p] = None]
    /\ Go(p, "run")
    /\ UNCHANGED <<following, result, waitLock, node, envs, stack, flags, os, misc>>

\* os_thread_create fails.  fail3 takes the exec_env out of the list and frees
\* its aux stack; wasm_exec_env_destroy then finds the cluster of the new
\* exec_env and terminates all of the others, the creator among them.
CreateFails(p, c) ==
    /\ Running(p) /\ pc[c] = "unborn" /\ FreeSegments # {}
    /\ waitLock[p] = None
    /\ waitLock' = [waitLock EXCEPT ![p] = p]
    /\ who' = [who EXCEPT ![p] = envs[1]]
    /\ following' = [following EXCEPT ![p] =
                        IF Len(envs) > 1 THEN envs[2] ELSE None]
    /\ Go(p, "fail_visit") /\ result' = <<>>
    /\ UNCHANGED <<signalled, node, envs, stack, flags, os, misc>>

----------------------------------------------------------------------------
(* The end of a thread *)

\* pthread_setspecific makes a node of key values for the thread.
SetSpecific(t) ==
    /\ Running(t) /\ t \notin keys
    /\ keys' = keys \union {t}
    /\ UNCHANGED <<pc, calls, sync, node, envs, stack, flags, os, ret, cluster,
                   undefined>>

\* The thread function returns, or ends at CHECK_SUSPEND_FLAGS or with a trap
\* of its own or of another thread of the cluster.  The value of a thread is
\* represented by the thread.
ThreadReturns(c) ==
    /\ Running(c)
    /\ ret' = [ret EXCEPT ![c] = c]
    /\ Go(c, "exit")
    /\ UNCHANGED <<calls, sync, node, envs, stack, flags, os, keys, cluster,
                   undefined>>

\* call_key_destructor, the deinstantiation, and the test of joinable: the
\* node of a thread that is not joinable is deleted.
ThreadExit(c) ==
    /\ pc[c] = "exit" /\ ~undefined
    /\ keys' = keys \ {c}
    /\ IF node[c].joinable
       THEN Go(c, "store") /\ UNCHANGED node
       ELSE Go(c, "aux") /\ node' = [node EXCEPT ![c].in = FALSE]
    /\ UNCHANGED <<calls, sync, envs, stack, flags, os, ret, cluster, undefined>>

\* Faulty variant of StoreResult: the status is set first.
StoreResultLate(c) ==
    /\ pc[c] \in {"store", "status"} /\ ~undefined
    /\ IF pc[c] = "store"
       THEN Go(c, "status") /\ node' = [node EXCEPT ![c].status = "exit"]
       ELSE Go(c, "aux") /\ node' = [node EXCEPT ![c].u = ret[c]]
    /\ UNCHANGED <<calls, sync, envs, stack, flags, os, misc>>

\* The result takes the place of the handle, and then the status is set.
StoreResult(c) ==
    /\ pc[c] \in {"store", "status"} /\ ~undefined
    /\ IF pc[c] = "store"
       THEN Go(c, "status") /\ node' = [node EXCEPT ![c].u = ret[c]]
       ELSE Go(c, "aux") /\ node' = [node EXCEPT ![c].status = "exit"]
    /\ UNCHANGED <<calls, sync, envs, stack, flags, os, misc>>

\* free_aux_stack
FreeAuxStack(c) ==
    /\ pc[c] = "aux" /\ ~undefined
    /\ occupied' = [occupied EXCEPT ![bottom[c]] = FALSE]
    /\ Go(c, "detach")
    /\ UNCHANGED <<calls, sync, node, envs, bottom, flags, os, misc>>

\* wasm_cluster_detach_thread; without effect if somebody is joining already.
Detach(c) ==
    /\ pc[c] = "detach" /\ ~undefined
    /\ os' = [os EXCEPT ![c].detached = os[c].joiner = None]
    /\ Go(c, "del")
    /\ UNCHANGED <<calls, sync, node, envs, stack, flags, misc>>

\* wasm_cluster_del_exec_env, under the lock of the cluster.
DelExecEnv(t) ==
    /\ pc[t] = "del" /\ ~undefined
    /\ envs' = bh_list_remove(envs, t)
    /\ Go(t, "check")
    /\ UNCHANGED <<calls, sync, node, stack, flags, os, misc>>

\* Faulty variant of CheckEmpty: the main thread destroys the cluster.
CheckMain(t) ==
    /\ pc[t] = "check" /\ ~undefined
    /\ cluster' = (cluster /\ t # Main)
    /\ flags' = flags \ {t} /\ bottom' = [bottom EXCEPT ![t] = 0]
    /\ Go(t, "gone")
    /\ UNCHANGED <<calls, sync, node, envs, occupied, os, ret, keys, undefined>>

\* wasm_cluster_del_exec_env, after the lock: the last one destroys the
\* cluster.  wasm_exec_env_destroy_internal then frees the exec_env.
CheckEmpty(t) ==
    /\ pc[t] = "check" /\ ~undefined
    /\ cluster' = (cluster /\ envs # <<>>)
    /\ undefined' = (envs = <<>> /\ ~cluster)
    /\ flags' = flags \ {t} /\ bottom' = [bottom EXCEPT ![t] = 0]
    /\ Go(t, "gone")
    /\ UNCHANGED <<calls, sync, node, envs, occupied, os, ret, keys>>

----------------------------------------------------------------------------
(* Calls about other threads *)

\* pthread_join_wrapper looks the node up and reads its status.
Join(p, c) ==
    /\ Running(p)
    /\ node[c].in /\ (node[c].joinable \/ node[c].status = "cancelled")
    /\ IF node[c].status = "exit"
       THEN /\ result' = <<c, 0, node[c].u>>
            /\ UNCHANGED <<pc, who>>
       ELSE /\ Go(p, "join") /\ who' = [who EXCEPT ![p] = c]
            /\ result' = <<>>
    /\ UNCHANGED <<following, sync, node, envs, stack, flags, os, misc>>

\* pthread_join on the handle in the exec_env: EINVAL if the thread is
\* detached or joined by another, else it waits.
OsJoin(p, wait, done) ==
    /\ undefined' = Freed(who[p])
    /\ IF os[who[p]].detached \/ os[who[p]].joiner # None \/ who[p] = p
       THEN Go(p, done) /\ UNCHANGED os
       ELSE Go(p, wait) /\ os' = [os EXCEPT ![who[p]].joiner = p]

JoinCall(p) ==
    /\ pc[p] = "join" /\ ~undefined
    /\ OsJoin(p, "join_wait", "run")
    /\ result' = <<who[p], 1, None>>
    /\ UNCHANGED <<who, following, sync, node, envs, stack, flags, ret, keys,
                   cluster>>

JoinReturn(p) ==
    /\ pc[p] = "join_wait" /\ ~undefined /\ pc[who[p]] = "gone"
    /\ result' = <<who[p], 0, ret[who[p]]>>
    /\ who' = [who EXCEPT ![p] = None]
    /\ Go(p, "run")
    /\ UNCHANGED <<following, sync, node, envs, stack, flags, os, misc>>

\* pthread_detach_wrapper
DetachWrapper(p, c) ==
    /\ Running(p)
    /\ node[c].in /\ node[c].joinable
    /\ node' = [node EXCEPT ![c].joinable = FALSE]
    /\ undefined' = Freed(c)
    /\ os' = [os EXCEPT ![c].detached = TRUE]
    /\ result' = <<>>
    /\ UNCHANGED <<pc, who, following, sync, envs, stack, flags, ret, keys, cluster>>

\* pthread_cancel_wrapper
CancelWrapper(p, c) ==
    /\ Running(p) /\ node[c].in
    /\ node' = [node EXCEPT ![c].status = "cancelled", ![c].joinable = FALSE]
    /\ undefined' = Freed(c)
    /\ flags' = flags \union {c}
    /\ result' = <<>>
    /\ UNCHANGED <<pc, who, following, sync, envs, stack, os, ret, keys, cluster>>

----------------------------------------------------------------------------
(* wasm_exec_env_destroy of the main thread *)

After(t) == LET i == CHOOSE i \in DOMAIN envs : envs[i] = t
            IN  IF i < Len(envs) THEN envs[i + 1] ELSE None

\* traverse_list over the exec_envs.
DestroyMain ==
    /\ Running(Main)
    /\ who' = [who EXCEPT ![Main] = envs[1]]
    /\ following' = [following EXCEPT ![Main] = After(envs[1])]
    /\ Go(Main, "term_visit") /\ result' = <<>>
    /\ UNCHANGED <<sync, node, envs, stack, flags, os, misc>>

Visiting == [term_visit |-> "term_wait", fail_visit |-> "fail_wait"]
Advancing == [term_visit |-> "term_next", fail_visit |-> "fail_next"]

\* Faulty variant of Visit: it joins without setting the flag.
VisitNoFlag(p) ==
    /\ pc[p] \in DOMAIN Visiting /\ ~undefined
    /\ IF who[p] = p /\ pc[p] = "term_visit"
       THEN Go(p, Advancing[pc[p]]) /\ UNCHANGED <<os, undefined>>
       ELSE OsJoin(p, Visiting[pc[p]], Advancing[pc[p]])
    /\ UNCHANGED <<calls, sync, node, envs, stack, flags, ret, keys, cluster>>

\* terminate_thread_visitor: the flag, and a join.  Only the exec_env of the
\* caller is left out, in CreateFails the new one.
Visit(p) ==
    /\ pc[p] \in DOMAIN Visiting /\ ~undefined
    /\ IF who[p] = p /\ pc[p] = "term_visit"
       THEN Go(p, Advancing[pc[p]]) /\ UNCHANGED <<flags, os, undefined>>
       ELSE /\ flags' = flags \union {who[p]}
            /\ OsJoin(p, Visiting[pc[p]], Advancing[pc[p]])
    /\ UNCHANGED <<calls, sync, node, envs, stack, ret, keys, cluster>>

VisitJoined(p) ==
    /\ pc[p] \in {"term_wait", "fail_wait"} /\ ~undefined
    /\ pc[who[p]] = "gone"
    /\ Go(p, IF pc[p] = "term_wait" THEN "term_next" ELSE "fail_next")
    /\ UNCHANGED <<calls, sync, node, envs, stack, flags, os, misc>>

\* The next element was read before the visit.
Advance(p) ==
    /\ pc[p] \in {"term_next", "fail_next"} /\ ~undefined
    /\ LET n == following[p]
           term == pc[p] = "term_next"
       IN  IF n = None
           THEN /\ Go(p, IF term THEN "del" ELSE "run")
                /\ waitLock' = [waitLock EXCEPT ![p] = None]
                /\ who' = [who EXCEPT ![p] = None]
                /\ UNCHANGED <<following, undefined>>
           ELSE /\ undefined' = (n \notin Range(envs))
                /\ Go(p, IF term THEN "term_visit" ELSE "fail_visit")
                /\ who' = [who EXCEPT ![p] = n]
                /\ following' = [following EXCEPT ![p] =
                       IF n \in Range(envs) THEN After(n) ELSE None]
                /\ UNCHANGED waitLock
    /\ UNCHANGED <<result, signalled, node, envs, stack, flags, os, ret, keys,
                   cluster>>

----------------------------------------------------------------------------

Step(t) ==
    \/ CreateWait(t) \/ Register(t) \/ RegisterFails(t) \/ CreateReturn(t)
    \/ ThreadExit(t) \/ StoreResult(t) \/ FreeAuxStack(t) \/ Detach(t)
    \/ DelExecEnv(t) \/ CheckEmpty(t)
    \/ JoinCall(t) \/ JoinReturn(t)
    \/ Visit(t) \/ VisitJoined(t) \/ Advance(t)

Next ==
    \/ \E t \in Threads : Step(t) \/ SetSpecific(t)
    \/ \E c \in Children :
         \/ ThreadReturns(c)
         \/ CreateThread(Main, c) \/ CreateFails(Main, c)
         \/ Join(Main, c) \/ DetachWrapper(Main, c) \/ CancelWrapper(Main, c)
    \/ DestroyMain

\* A thread that has begun a call or its end goes on, and one with the
\* termination flag comes to CHECK_SUSPEND_FLAGS.
Fairness ==
    /\ \A t \in Threads : WF_vars(Step(t))
    /\ \A c \in Children : WF_vars(c \in flags /\ ThreadReturns(c))

Spec == Init /\ [][Next]_vars
FairSpec == Spec /\ Fairness

----------------------------------------------------------------------------

\* The states are well formed.
TypeOK ==
    /\ \A t \in Threads :
         /\ pc[t] \in {"unborn", "born", "run", "exit", "store", "status", "aux",
                       "detach", "del", "check", "gone", "create",
                       "create_wait", "join", "join_wait", "term_visit",
                       "term_wait", "term_next", "fail_visit", "fail_wait",
                       "fail_next"}
         /\ who[t] \in Threads \union {None}
         /\ bottom[t] \in 0..MaxThreads
    /\ Range(envs) \subseteq Threads /\ Len(envs) = Cardinality(Range(envs))
    /\ flags \subseteq Threads

\* The threads that may still run wasm code on their aux stack.
UsesStack(t) == pc[t] \in {"born", "run", "exit", "store", "status", "aux"}

\* Two threads never run on one segment of the aux stack, and a segment is
\* marked as occupied just as long as a thread runs on it.
AuxStackExclusive ==
    ~undefined =>
        /\ \A t, u \in Children :
             UsesStack(t) /\ UsesStack(u) /\ t # u => bottom[t] # bottom[u]
        /\ \A i \in 1..MaxThreads :
             occupied[i] <=> \E t \in Children : UsesStack(t) /\ bottom[t] = i

\* pthread_create_wrapper waits until the thread has registered itself: when
\* it has returned, the thread is in the map with its exec_env, or has ended.
CreatedIsRegistered ==
    \A c \in Children : pc[Main] = "run" => pc[c] # "born"

\* A join that returns 0 gives the value that the thread function returned,
\* whether it comes from the native thread or from the node ("Update node
\* status after ret value was set").
JoinValue ==
    ~undefined /\ result # <<>> /\ result[2] = 0 =>
        ret[result[1]] # None /\ result[3] = ret[result[1]]

\* The exec_env of every thread that has not yet left the cluster is in the
\* list, the cluster is there as long as the list is not empty, and when it is
\* destroyed only the main thread can still have key values ("There should be
\* only one node for main thread").
ClusterOutlivesThreads ==
    ~undefined =>
        /\ \A t \in Threads : t \in Range(envs) <=>
              pc[t] \notin {"unborn", "check", "gone"}
        /\ envs # <<>> => cluster
        /\ ~cluster => keys \subseteq {Main}

\* pthread_create always returns: the signal of the new thread is not lost.
CreateReturns == pc[Main] = "create_wait" ~> (pc[Main] = "run" \/ undefined)

\* Destroying the exec_env of the main thread ends, unless something freed was
\* used: every thread it waits for has the termination flag.
DestroyEnds == pc[Main] = "term_visit" ~> (pc[Main] = "gone" \/ undefined)

=============================================================================
