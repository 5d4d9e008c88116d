------------------------------ MODULE PathGet ------------------------------
(* path_get and path_put of libc-wasi: a path of the program is resolved    *)
(* below a directory, one component in each turn of the loop, with a stack  *)
(* of directories for ".." and a stack of paths for symbolic links.         *)
(*                                                                          *)
(* A path is its components, and whether it starts and ends with a slash;   *)
(* the file system does not change while a path is resolved.                *)
EXTENDS Integers, Sequences

CONSTANTS
    Root,           \* the directory that the program names
    Trees,          \* file systems: what each inode is
    Paths,          \* the paths that the program asks for
    MaxFds,         \* the size of fds
    MaxPaths,       \* the size of paths
    MaxExpansions   \* the limit of symbolic links

VARIABLES
    tree,       \* the file system
    asked,      \* the path, and the arguments follow and needs_final_component
    fds,        \* the stack of directories
    paths,      \* the stack of what is left of the paths
    expansions, \* the symbolic links expanded
    open,       \* the number of descriptors that path_get has opened
    result      \* Walking, then an error or the lease, and whether that is put

vars == <<tree, asked, fds, paths, expansions, open, result>>

Walking == [kind |-> "walking"]

Init ==
    /\ tree \in Trees
    /\ asked \in [path : Paths, follow : BOOLEAN, needs_final_component : BOOLEAN]
    /\ fds = <<Root>> /\ paths = <<asked.path>>
    /\ expansions = 0 /\ open = 0 /\ result = Walking

----------------------------------------------------------------------------
Last(s) == s[Len(s)]
Front(s) == SubSeq(s, 1, Len(s) - 1)

(* What is under a name of a directory.                                     *)
Kind(dir, name) ==
    IF name \in DOMAIN tree[dir].entries THEN tree[tree[dir].entries[name]].kind ELSE "none"

Target(dir, name) == tree[tree[dir].entries[name]].target

(* The next component, what follows it, and ends_with_slashes.              *)
file == Head(Last(paths).names)
rest == [Last(paths) EXCEPT !.names = Tail(@)]
ends_with_slashes == rest.names # <<>> \/ rest.slash

Fail(e) ==
    /\ result' = [kind |-> "error", error |-> e]
    /\ open' = open - (Len(fds) - 1)
    /\ UNCHANGED <<tree, asked, fds, paths, expansions>>

Success(dirs, name, slash) ==
    result' = [kind |-> "lease", dir |-> Last(dirs), name |-> name, slash |-> slash]

(* The descriptors that success closes: all but the last, and but fds[0].   *)
Closed(dirs) == IF Len(dirs) > 1 THEN Len(dirs) - 2 ELSE 0

(* The end of a turn of the loop, with the directories dirs and opened      *)
(* descriptors: a path that is used up gives way to the one below it.       *)
NextComponent(dirs, opened) ==
    /\ fds' = dirs
    /\ IF rest.names = <<>> /\ Len(paths) = 1
       THEN /\ Success(dirs, ".", FALSE)
            /\ open' = opened - Closed(dirs)
            /\ paths' = <<>>
       ELSE /\ paths' = IF rest.names = <<>> THEN Front(paths) ELSE Append(Front(paths), rest)
            /\ open' = opened
            /\ UNCHANGED result
    /\ UNCHANGED <<tree, asked, expansions>>

(* A faulty push_symlink: the trailing slash of the path is forgotten.      *)
PushNoSlash ==
    LET symlink == Target(Last(fds), file)
    IN  IF expansions + 1 = MaxExpansions THEN Fail("ELOOP")
        ELSE IF rest.names # <<>> /\ Len(paths) = MaxPaths THEN Fail("ELOOP")
        ELSE /\ paths' = IF rest.names = <<>> THEN Append(Front(paths), symlink)
                         ELSE Append(Append(Front(paths), rest), symlink)
             /\ expansions' = expansions + 1
             /\ UNCHANGED <<tree, asked, fds, open, result>>

(* A link is expanded: its target is next, and what is left of the path     *)
(* stays on the stack.                                                      *)
push_symlink ==
    LET symlink == [Target(Last(fds), file) EXCEPT !.slash = @ \/ ends_with_slashes]
    IN  IF expansions + 1 = MaxExpansions THEN Fail("ELOOP")
        ELSE IF rest.names # <<>> /\ Len(paths) = MaxPaths THEN Fail("ELOOP")
        ELSE /\ paths' = IF rest.names = <<>> THEN Append(Front(paths), symlink)
                         ELSE Append(Append(Front(paths), rest), symlink)
             /\ expansions' = expansions + 1
             /\ UNCHANGED <<tree, asked, fds, open, result>>

More == result = Walking /\ Last(paths).names # <<>> /\ ~ Last(paths).absolute

EmptyOrAbsolute ==
    /\ result = Walking /\ (Last(paths).absolute \/ Last(paths).names = <<>>)
    /\ Fail(IF Last(paths).absolute THEN "ENOTCAPABLE" ELSE "ENOENT")

Dot == /\ More /\ file = "."
       /\ NextComponent(fds, open)

DotDot ==
    /\ More /\ file = ".."
    /\ IF Len(fds) = 1 THEN Fail("ENOTCAPABLE") ELSE NextComponent(Front(fds), open - 1)

(* "a pathname component that must be a directory".                         *)
Inner == \/ Len(paths) > 1 \/ rest.names # <<>>
         \/ ends_with_slashes /\ ~ asked.needs_final_component

Directory ==
    /\ More /\ file \notin {".", ".."} /\ Inner
    /\ CASE Kind(Last(fds), file) = "dir" ->
              IF Len(fds) = MaxFds THEN Fail("ENAMETOOLONG")
              ELSE NextComponent(Append(fds, tree[Last(fds)].entries[file]), open + 1)
         [] Kind(Last(fds), file) = "link" -> push_symlink
         [] Kind(Last(fds), file) = "file" -> Fail("ENOTDIR")
         [] OTHER -> Fail("ENOENT")

FinalComponent ==
    /\ More /\ file \notin {".", ".."} /\ ~ Inner
    /\ IF (ends_with_slashes \/ asked.follow) /\ Kind(Last(fds), file) = "link"
       THEN push_symlink
       ELSE /\ Success(fds, file, ends_with_slashes)
            /\ open' = open - Closed(fds)
            /\ UNCHANGED <<tree, asked, fds, paths, expansions>>

(* path_put, after the system call.                                         *)
path_put ==
    /\ result.kind = "lease"
    /\ result' = [result EXCEPT !.kind = "put"]
    /\ open' = IF Len(fds) > 1 THEN open - 1 ELSE open
    /\ UNCHANGED <<tree, asked, fds, paths, expansions>>

Next == EmptyOrAbsolute \/ Dot \/ DotDot \/ Directory \/ FinalComponent \/ path_put

Spec == Init /\ [][Next]_vars

----------------------------------------------------------------------------
(* What a path means, without stacks: the directory above is the one that   *)
(* has the inode, and the target of a link stands before the rest.          *)
Parent(inode) == CHOOSE d \in DOMAIN tree :
                   /\ tree[d].kind = "dir"
                   /\ \E name \in DOMAIN tree[d].entries : tree[d].entries[name] = inode

RECURSIVE Depth(_)
Depth(inode) == IF inode = Root THEN 1 ELSE Depth(Parent(inode)) + 1

Error(e) == [kind |-> "error", error |-> e]

RECURSIVE Meaning(_, _, _)
Meaning(dir, path, links) ==
    LET name == Head(path.names)
        left == [path EXCEPT !.names = Tail(@)]
        final == left.names = <<>> /\ (~ path.slash \/ asked.needs_final_component)
        isLink == Kind(dir, name) = "link"
        target == Target(dir, name)
    IN  CASE path.absolute -> Error("ENOTCAPABLE")
          [] ~ path.absolute /\ path.names = <<>> ->
               IF dir = Root /\ links = 0 /\ path = asked.path THEN Error("ENOENT")
               ELSE [kind |-> "lease", dir |-> dir, name |-> ".", slash |-> FALSE]
          [] OTHER ->
               IF name = "." THEN Meaning(dir, left, links)
               ELSE IF name = ".."
               THEN IF dir = Root THEN Error("ENOTCAPABLE") ELSE Meaning(Parent(dir), left, links)
               ELSE IF isLink /\ (~ final \/ path.slash \/ asked.follow)
               THEN IF links + 1 = MaxExpansions THEN Error("ELOOP")
                    ELSE Meaning(dir, [absolute |-> target.absolute,
                                       names |-> target.names \o left.names,
                                       slash |-> path.slash \/ (target.slash /\ left.names = <<>>)],
                                 links + 1)
               ELSE IF final
               THEN [kind |-> "lease", dir |-> dir, name |-> name, slash |-> path.slash]
               ELSE CASE Kind(dir, name) = "dir" ->
                           IF Depth(dir) = MaxFds THEN Error("ENAMETOOLONG")
                           ELSE Meaning(tree[dir].entries[name], left, links)
                      [] Kind(dir, name) = "file" -> Error("ENOTDIR")
                      [] OTHER -> Error("ENOENT")

(* path_get resolves a path to what it means below the directory: it        *)
(* leaves the directory for no "..", link or slash, and the two stacks and  *)
(* the slashes they carry over change nothing.  Only more nested links than *)
(* the stack of paths takes end it early.  In the end nothing stays open:   *)
(* an error closes all, a lease keeps one and path_put closes that.         *)
(* Links that lead to each other do not keep it busy for ever.              *)
Resolved ==
    /\ expansions < MaxExpansions
    /\ result.kind \in {"lease", "error"} =>
         \/ result = Meaning(Root, asked.path, 0)
         \/ result = Error("ELOOP") /\ Len(paths) = MaxPaths /\ expansions >= MaxPaths - 1
    /\ open = IF result.kind \in {"error", "put"} THEN 0
              ELSE IF result.kind = "lease" /\ Len(fds) > 1 THEN 1 ELSE Len(fds) - 1

============================================================================
