-------------------------------- MODULE Wasi --------------------------------
(* libc-wasi for TLC: the file descriptor table (FdTable) and the resolution *)
(* of one path (PathGet).  The two share no variable, so a behaviour is one  *)
(* of either: part says of which, and the other rests.                       *)
EXTENDS FdTable, Sequences, TLC

CONSTANTS MaxFds, MaxPaths, MaxExpansions    \* of PathGet

ASSUME PathAssumption ==
    MaxFds \in Nat \ {0} /\ MaxPaths \in Nat \ {0} /\ MaxExpansions \in Nat \ {0}

VARIABLES part, tree, asked, fds, paths, expansions, open, result

pathVars == <<tree, asked, fds, paths, expansions, open, result>>

Names == {"..", "d", "l"}

Short == {<<a>> : a \in Names} \cup {<<a, b>> : a, b \in Names}

Path(names, slash) == [absolute |-> FALSE, names |-> names, slash |-> slash]

Slash == [absolute |-> TRUE, names |-> <<>>, slash |-> TRUE]

(* Every path of up to three names, with and without a slash at its end.     *)
MCPaths ==
    {Path(n, s) : n \in Short \cup {<<a, b, c>> : a, b, c \in Names}
                            \cup {<<".">>, <<"d", ".">>}, s \in BOOLEAN}
    \cup {Path(<<>>, FALSE), Slash}

MCTargets == {Path(n, FALSE) : n \in Short} \cup {Path(<<"d">>, TRUE), Slash}

(* A directory in a directory, each with a link; below them a file or one    *)
(* more directory.                                                           *)
MCTrees ==
    {[r |-> [kind |-> "dir", entries |-> [d |-> "s", l |-> "t"]],
      s |-> [kind |-> "dir", entries |-> [d |-> "f", l |-> "u"]],
      f |-> f,
      t |-> [kind |-> "link", target |-> x],
      u |-> [kind |-> "link", target |-> y]] :
        x, y \in MCTargets, f \in {[kind |-> "file"], [kind |-> "dir", entries |-> <<>>]}}

Resolve == INSTANCE PathGet WITH Root <- "r", Trees <- MCTrees, Paths <- MCPaths

WasiInit ==
    /\ Init
    /\ \/ part = "path" /\ Resolve!Init
       \/ part = "table" /\ tree = <<>> /\ asked = <<>> /\ fds = <<>> /\ paths = <<>>
          /\ expansions = 0 /\ open = 0 /\ result = <<>>

WasiNext ==
    /\ \/ part = "table" /\ Next /\ UNCHANGED pathVars
       \/ part = "path" /\ Resolve!Next /\ UNCHANGED vars
    /\ UNCHANGED part

WasiSpec == WasiInit /\ [][WasiNext]_<<part, vars, pathVars>>

MCRequests == {{"FD_READ"}}

ThreadSymmetry == Permutations(Threads)

(* A path means below its directory what path_get makes of it, and nothing   *)
(* that it opens stays open (PathGet!Resolved).                              *)
Resolved == part = "path" => Resolve!Resolved
=============================================================================
