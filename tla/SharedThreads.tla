--------------------------- MODULE SharedThreads ---------------------------
(* The threads of an application for TLC: their life in a cluster (Threads) *)
(* and their waiting at addresses of a shared memory (AtomicWait).  The two *)
(* share no variable, so a behaviour is one of either: part says of which,  *)
(* and the other rests.                                                     *)
EXTENDS Threads, AtomicWait

VARIABLE part

SharedInit == Init /\ WaitInit /\ part \in {"cluster", "wait"}

ClusterStep(A) == part = "cluster" /\ A /\ UNCHANGED <<part, waitVars>>

SharedNext == \/ ClusterStep(Next)
              \/ part = "wait" /\ WaitNext /\ UNCHANGED <<part, vars>>

all == <<part, vars, waitVars>>

(* The fairness of Threads; the waits are checked for safety only.          *)
SharedSpec ==
    /\ SharedInit /\ [][SharedNext]_all
    /\ \A t \in Threads : WF_all(ClusterStep(Step(t)))
    /\ \A c \in Children : WF_all(ClusterStep(c \in flags /\ ThreadReturns(c)))

(* The states of the cluster and of the lists of waiting threads are well   *)
(* formed (Threads!TypeOK, AtomicWait!WaitTypeOK).                          *)
SharedTypeOK == TypeOK /\ WaitTypeOK
=============================================================================
