------------------------------- MODULE BhList -------------------------------
(* The intrusive linked list of core/shared/utils/bh_list.c, as the         *)
(* sequence of its elements from the head on.                               *)
EXTENDS Integers, Sequences, Functions

(* bh_list_insert: the new element becomes the head.                        *)
bh_list_insert(list, elem) == <<elem>> \o list

(* bh_list_remove: the first link to elem is cut, a list without it stays   *)
(* as it is (BH_LIST_ERROR, on which no caller acts).   *)
bh_list_remove(list, elem) ==
    IF elem \notin Range(list) THEN list
    ELSE LET cur == CHOOSE i \in 1 .. Len(list) :
                       list[i] = elem /\ \A j \in 1 .. i - 1 : list[j] # elem
         IN  [i \in 1 .. Len(list) - 1 |-> list[IF i < cur THEN i ELSE i + 1]]
=============================================================================
