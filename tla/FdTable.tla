------------------------------ MODULE FdTable ------------------------------
(* The file descriptor table of libc-wasi: the calls of several threads of  *)
(* one module instance on the table, the reference counted objects behind   *)
(* its entries, and the descriptors of the host.                            *)
(*                                                                          *)
(* A step is what a thread does under one lock of the table, or between two *)
(* of them.  An object is named by its number, the descriptor of the host   *)
(* it owns: two live objects never have the same one.  A lookup that fails  *)
(* returns an error and changes nothing, so that it is no step.             *)
EXTENDS Integers, FiniteSets

CONSTANTS
    Threads,    \* the threads of the instance
    Fds,        \* the numbers that entries can have
    Named,      \* bound: the numbers that the program names
    Picks,      \* bound: the numbers that random_uniform may choose
    Numbers,    \* the descriptors of the host
    DirCount,   \* dir_count of wasm_runtime_init_wasi
    StdType,    \* what stdin, stdout and stderr are
    Width,      \* the width of size_t in bits
    Requests,   \* the sets of rights that a program asks for
    Opened,     \* bound: the types of the files that path_open opens
    MaxLost,    \* bound: the objects that early returns lose references to
    NULL

ASSUME FdAssumption ==
    /\ DirCount \in Nat /\ 0 .. 2 + DirCount \subseteq Fds \cap Numbers
    /\ Fds \subseteq Nat /\ Numbers \subseteq Nat
    /\ IsFiniteSet(Fds) /\ IsFiniteSet(Numbers) /\ IsFiniteSet(Threads)
    /\ Picks \subseteq Fds /\ Named \subseteq Fds /\ NULL \notin Numbers
    /\ Width \in Nat \ {0} /\ MaxLost \in Nat
    /\ Opened \subseteq {"directory", "file", "socket", "tty", "device"}
    /\ StdType \in {"file", "socket", "tty", "device"}

VARIABLES
    size, used,         \* ft->size, ft->used
    object,             \* the object of each entry, or NULL
    rights_base,        \* the rights of each entry
    rights_inheriting,
    refcount,           \* of each object; 0 when there is no such object
    host,               \* the open descriptors of the host
    pc,                 \* where each thread is
    held,               \* the objects of its local variables
    nfd,                \* the descriptor that path_open got from openat
    want,               \* the rights that path_open was asked for
    lost,               \* the references that nobody has any more
    stopped             \* "no", or how the process or the call has stopped

table == <<size, used, object, rights_base, rights_inheriting>>
objects == <<refcount, host, held, lost>>
vars == <<table, objects, pc, nfd, want, stopped>>

Preopened == 3 .. 2 + DirCount

(* The local variables that hold objects: fo, or old_pa and new_pa, or fos. *)
Locals == Threads \X {1, 2}

----------------------------------------------------------------------------
(* rights.h and fd_determine_type_rights.                                   *)
RIGHTS_SOCKET_BASE ==
    {"FD_READ", "FD_FDSTAT_SET_FLAGS", "FD_WRITE", "FD_FILESTAT_GET",
     "POLL_FD_READWRITE", "SOCK_SHUTDOWN"}

RIGHTS_TTY_BASE == RIGHTS_SOCKET_BASE \ {"SOCK_SHUTDOWN"}

RIGHTS_REGULAR_FILE_BASE ==
    {"FD_DATASYNC", "FD_READ", "FD_SEEK", "FD_FDSTAT_SET_FLAGS", "FD_SYNC",
     "FD_TELL", "FD_WRITE", "FD_ADVISE", "FD_ALLOCATE", "FD_FILESTAT_GET",
     "FD_FILESTAT_SET_SIZE", "FD_FILESTAT_SET_TIMES", "POLL_FD_READWRITE"}

RIGHTS_DIRECTORY_BASE ==
    {"FD_FDSTAT_SET_FLAGS", "FD_SYNC", "FD_ADVISE", "PATH_CREATE_DIRECTORY",
     "PATH_CREATE_FILE", "PATH_LINK_SOURCE", "PATH_LINK_TARGET", "PATH_OPEN",
     "FD_READDIR", "PATH_READLINK", "PATH_RENAME_SOURCE",
     "PATH_RENAME_TARGET", "PATH_FILESTAT_GET", "PATH_FILESTAT_SET_SIZE",
     "PATH_FILESTAT_SET_TIMES", "FD_FILESTAT_GET", "FD_FILESTAT_SET_TIMES",
     "PATH_SYMLINK", "PATH_UNLINK_FILE", "PATH_REMOVE_DIRECTORY",
     "POLL_FD_READWRITE"}

RIGHTS_ALL ==
    RIGHTS_SOCKET_BASE \cup RIGHTS_REGULAR_FILE_BASE \cup RIGHTS_DIRECTORY_BASE

Base(type) == CASE type = "directory" -> RIGHTS_DIRECTORY_BASE
                [] type = "file" -> RIGHTS_REGULAR_FILE_BASE
                [] type = "socket" -> RIGHTS_SOCKET_BASE
                [] type = "tty" -> RIGHTS_TTY_BASE
                [] OTHER -> RIGHTS_ALL

Inheriting(type) ==
    CASE type = "directory" -> RIGHTS_DIRECTORY_BASE \cup RIGHTS_REGULAR_FILE_BASE
      [] type \in {"file", "tty"} -> {}
      [] OTHER -> RIGHTS_ALL

(* The bits that contradict the access mode, O_RDONLY or O_WRONLY.          *)
Stripped(read, write) ==
    IF ~ write THEN {"FD_WRITE"} ELSE IF ~ read THEN {"FD_READ"} ELSE {}

----------------------------------------------------------------------------
(* fd_table_grow for one more entry.  The size is a power of two, and the   *)
(* sum and the product are those of size_t.                                 *)
SizeT == 2 ^ Width

Sizes == {2 ^ k : k \in 0 .. Width - 1}

Needed == ((used + 1) * 2) % SizeT

(* "Keep on doubling the table size until we've met our constraints": past  *)
(* the largest power of two the size is 0 and stays so.                     *)
NeverEnough == \A s \in Sizes : s < Needed

Grown == IF size >= Needed THEN size
         ELSE CHOOSE s \in Sizes : s >= Needed /\ \A r \in Sizes : r >= Needed => s <= r

(* The table as wasm_runtime_init_wasi leaves it: stdin, stdout and stderr, *)
(* and the preopened directories.                                           *)
Init ==
    /\ used = 3 + DirCount
    /\ size \in Sizes /\ size >= 2 * used /\ size < 4 * used
    /\ object = [fd \in Fds |-> IF fd < used THEN fd ELSE NULL]
    /\ rights_base = [fd \in Fds |->
          IF fd < 3 THEN Base(StdType)
          ELSE IF fd \in Preopened THEN Base("directory") \ Stripped(TRUE, FALSE) ELSE {}]
    /\ rights_inheriting = [fd \in Fds |->
          IF fd < 3 THEN Inheriting(StdType)
          ELSE IF fd \in Preopened THEN Inheriting("directory") ELSE {}]
    /\ refcount = [n \in Numbers |-> IF n < used THEN 1 ELSE 0]
    /\ host = 0 .. 2 + DirCount
    /\ pc = [t \in Threads |-> "idle"]
    /\ held = [l \in Locals |-> NULL]
    /\ nfd = [t \in Threads |-> NULL]
    /\ want = [t \in Threads |-> NULL]
    /\ lost = [n \in Numbers |-> 0]
    /\ stopped = "no"

----------------------------------------------------------------------------
(* fd_table_get_entry: the entry exists and has the rights.                 *)
fd_table_get_entry(fd, base, inheriting) ==
    /\ object[fd] # NULL
    /\ base \subseteq rights_base[fd] /\ inheriting \subseteq rights_inheriting[fd]

(* fd_object_get into a local variable, under a read lock of the table.     *)
fd_object_get(t, k, fd, base, inheriting) ==
    /\ stopped = "no"
    /\ fd_table_get_entry(fd, base, inheriting)
    /\ held' = [held EXCEPT ![<<t, k>>] = object[fd]]
    /\ refcount' = [refcount EXCEPT ![object[fd]] = @ + 1]
    /\ UNCHANGED <<table, host, lost, stopped>>

(* What fd_object_release of object n leaves of the counts and the host:    *)
(* CLOSE_NON_STD_FD leaves the first three open.                            *)
Released(n) == [refcount EXCEPT ![n] = @ - 1]

(* A faulty release: the descriptor is closed one reference too early.      *)
HostEarly(n) == IF refcount[n] <= 2 /\ n > 2 THEN host \ {n} ELSE host

HostWithout(n) == IF refcount[n] = 1 /\ n > 2 THEN host \ {n} ELSE host

Go(t, where) == pc' = [pc EXCEPT ![t] = where]

(* A call that looks one descriptor up, uses it and releases it.            *)
Call(t, fd, base, next) ==
    /\ pc[t] = "idle"
    /\ fd_object_get(t, 1, fd, base, {})
    /\ Go(t, next)
    /\ UNCHANGED <<nfd, want>>

fd_datasync(t, fd) == Call(t, fd, {"FD_DATASYNC"}, "use")
fd_pread(t, fd) == Call(t, fd, {"FD_READ"}, "use")
fd_pwrite(t, fd) == Call(t, fd, {"FD_WRITE"}, "use")
fd_read(t, fd) == Call(t, fd, {"FD_READ"}, "use")
fd_seek(t, fd) == \E need \in {{"FD_TELL"}, {"FD_SEEK", "FD_TELL"}} : Call(t, fd, need, "use")
fd_tell(t, fd) == Call(t, fd, {"FD_TELL"}, "use")
fd_fdstat_set_flags(t, fd) == Call(t, fd, {"FD_FDSTAT_SET_FLAGS"}, "use")
fd_sync(t, fd) == Call(t, fd, {"FD_SYNC"}, "use")
fd_write(t, fd) == Call(t, fd, {"FD_WRITE"}, "use")
fd_advise(t, fd) == Call(t, fd, {"FD_ADVISE"}, "use")
fd_allocate(t, fd) == Call(t, fd, {"FD_ALLOCATE"}, "use")
fd_readdir(t, fd) == Call(t, fd, {"FD_READDIR"}, "use")
fd_filestat_get(t, fd) == Call(t, fd, {"FD_FILESTAT_GET"}, "use")
fd_filestat_set_size(t, fd) == Call(t, fd, {"FD_FILESTAT_SET_SIZE"}, "use")
fd_filestat_set_times(t, fd) == Call(t, fd, {"FD_FILESTAT_SET_TIMES"}, "use")
sock_recv(t, fd) == Call(t, fd, {"FD_READ"}, "use")
sock_send(t, fd) == Call(t, fd, {"FD_WRITE"}, "use")
sock_shutdown(t, fd) == Call(t, fd, {"SOCK_SHUTDOWN"}, "use")

(* The calls on a path: path_get holds the directory until path_put, also   *)
(* when it finds no such path.                                              *)
path_create_directory(t, fd) == Call(t, fd, {"PATH_CREATE_DIRECTORY"}, "use")
path_readlink(t, fd) == Call(t, fd, {"PATH_READLINK"}, "use")
path_filestat_get(t, fd) == Call(t, fd, {"PATH_FILESTAT_GET"}, "use")
path_filestat_set_times(t, fd) == Call(t, fd, {"PATH_FILESTAT_SET_TIMES"}, "use")
path_unlink_file(t, fd) == Call(t, fd, {"PATH_UNLINK_FILE"}, "use")
path_remove_directory(t, fd) == Call(t, fd, {"PATH_REMOVE_DIRECTORY"}, "use")
path_symlink(t, fd) == Call(t, fd, {"PATH_SYMLINK"}, "validate")
path_link(t, fd) == Call(t, fd, {"PATH_LINK_SOURCE"}, "link")
path_rename(t, fd) == Call(t, fd, {"PATH_RENAME_SOURCE"}, "rename")

(* The second path of path_link and path_rename.                            *)
SecondPath(t, fd) ==
    /\ \/ /\ pc[t] = "link"
          /\ fd_object_get(t, 2, fd, {"PATH_LINK_TARGET"}, {})
          /\ Go(t, "validate")
       \/ /\ pc[t] = "rename"
          /\ fd_object_get(t, 2, fd, {"PATH_RENAME_TARGET"}, {})
          /\ Go(t, "use")
    /\ UNCHANGED <<nfd, want>>

(* There is no such path or descriptor, validate_path lets both paths pass, *)
(* or openat fails: what is left to do is to release.                       *)
OnlyRelease(t) ==
    /\ pc[t] \in {"link", "rename", "validate", "open"}
    /\ Go(t, "use")
    /\ want' = [want EXCEPT ![t] = NULL]
    /\ UNCHANGED <<table, objects, nfd, stopped>>

(* validate_path fails: path_link and path_symlink return without path_put. *)
Denied(t) ==
    /\ pc[t] = "validate"
    /\ Cardinality({n \in Numbers : lost[n] > 0}) < MaxLost
    /\ lost' = [n \in Numbers |-> lost[n] + Cardinality({k \in {1, 2} : held[<<t, k>>] = n})]
    /\ held' = [held EXCEPT ![<<t, 1>>] = NULL, ![<<t, 2>>] = NULL]
    /\ Go(t, "idle")
    /\ UNCHANGED <<table, refcount, host, nfd, want, stopped>>

(* poll_oneoff: one object, or none, for each of two subscriptions, under   *)
(* one lock.                                                                *)
poll_oneoff(t, fd1, fd2) ==
    LET got == [k \in {1, 2} |->
                  LET fd == IF k = 1 THEN fd1 ELSE fd2
                  IN  IF fd_table_get_entry(fd, {"POLL_FD_READWRITE"}, {}) THEN object[fd]
                      ELSE NULL]
    IN  /\ pc[t] = "idle" /\ stopped = "no"
        /\ \E k \in {1, 2} : got[k] # NULL
        /\ held' = [held EXCEPT ![<<t, 1>>] = got[1], ![<<t, 2>>] = got[2]]
        /\ refcount' = [n \in Numbers |->
                          refcount[n] + Cardinality({k \in {1, 2} : got[k] = n})]
        /\ Go(t, "use")
        /\ UNCHANGED <<table, host, lost, nfd, want, stopped>>

(* After the system call, fd_object_release of what the call holds.  The    *)
(* last reference closes the descriptor.                                    *)
Release(t, k) ==
    /\ pc[t] \in {"use", "put"} /\ held[<<t, k>>] # NULL
    /\ held' = [held EXCEPT ![<<t, k>>] = NULL]
    /\ refcount' = Released(held[<<t, k>>])
    /\ host' = HostWithout(held[<<t, k>>])
    /\ Go(t, IF pc[t] = "put" THEN "opened"
             ELSE IF \E j \in {1, 2} : held[<<t, j>>] # NULL /\ j # k THEN "use" ELSE "idle")
    /\ UNCHANGED <<table, lost, nfd, want, stopped>>

----------------------------------------------------------------------------
(* The process aborts in an assertion or crashes on a null pointer, or the  *)
(* call hangs with the lock.                                                *)
Stop(how) == /\ stopped' = how
             /\ UNCHANGED <<table, objects, pc, nfd, want>>

(* fd_table_detach asserts that used > 0.  The reference of the entry goes  *)
(* to the local variable, which is released after the lock.                 *)
fd_close(t, fd) ==
    /\ pc[t] = "idle" /\ stopped = "no"
    /\ fd \notin Preopened /\ object[fd] # NULL
    /\ IF used = 0 THEN Stop("abort")
       ELSE /\ object' = [object EXCEPT ![fd] = NULL]
            /\ used' = used - 1
            /\ held' = [held EXCEPT ![<<t, 1>>] = object[fd]]
            /\ Go(t, "use")
            /\ UNCHANGED <<size, rights_base, rights_inheriting, refcount, host, lost,
                           nfd, want, stopped>>

(* A faulty fd_renumber: used is not a size_t.                              *)
RenumberNoWrap(t, from, to) ==
    /\ pc[t] = "idle" /\ stopped = "no"
    /\ {from, to} \cap Preopened = {} /\ object[from] # NULL /\ object[to] # NULL
    /\ IF used = 0 THEN Stop("abort")
       ELSE IF from = to THEN Stop("crash")
       ELSE IF size < (2 * used) % SizeT THEN Stop("abort")
       ELSE /\ object' = [object EXCEPT ![to] = object[from], ![from] = NULL]
            /\ rights_base' = [rights_base EXCEPT ![to] = rights_base[from]]
            /\ rights_inheriting' = [rights_inheriting EXCEPT ![to] = rights_inheriting[from]]
            /\ refcount' = Released(object[to])
            /\ host' = HostWithout(object[to])
            /\ used' = used - 2
            /\ UNCHANGED <<size, held, lost, pc, nfd, want, stopped>>

(* A faulty fd_renumber: it acquires no reference for the new entry.        *)
RenumberTwice(t, from, to) ==
    /\ pc[t] = "idle" /\ stopped = "no"
    /\ {from, to} \cap Preopened = {} /\ object[from] # NULL /\ object[to] # NULL
    /\ IF used = 0 THEN Stop("abort")
       ELSE IF from = to THEN Stop("crash")
       ELSE IF size < (2 * used) % SizeT THEN Stop("abort")
       ELSE /\ object' = [object EXCEPT ![to] = object[from], ![from] = NULL]
            /\ rights_base' = [rights_base EXCEPT ![to] = rights_base[from]]
            /\ rights_inheriting' = [rights_inheriting EXCEPT ![to] = rights_inheriting[from]]
            /\ refcount' = [Released(object[to]) EXCEPT ![object[from]] = @ - 1]
            /\ host' = HostWithout(object[to])
            /\ used' = (used - 2) % SizeT
            /\ UNCHANGED <<size, held, lost, pc, nfd, want, stopped>>

(* A faulty fd_renumber: the rights of the entry of to stay.                *)
RenumberKeepsRights(t, from, to) ==
    /\ pc[t] = "idle" /\ stopped = "no"
    /\ {from, to} \cap Preopened = {} /\ object[from] # NULL /\ object[to] # NULL
    /\ IF used = 0 THEN Stop("abort")
       ELSE IF from = to THEN Stop("crash")
       ELSE IF size < (2 * used) % SizeT THEN Stop("abort")
       ELSE /\ object' = [object EXCEPT ![to] = object[from], ![from] = NULL]
            /\ refcount' = Released(object[to])
            /\ host' = HostWithout(object[to])
            /\ used' = (used - 2) % SizeT
            /\ UNCHANGED <<size, rights_base, rights_inheriting, held, lost, pc, nfd, want, stopped>>

(* Everything under one lock.  used goes down by one for the entry of to,   *)
(* up by one, down by one for that of from, and down by one again.  With    *)
(* from = to the entry is empty when its object is taken a second time.     *)
(* fd_table_attach asserts that the table is not too full.                  *)
fd_renumber(t, from, to) ==
    /\ pc[t] = "idle" /\ stopped = "no"
    /\ {from, to} \cap Preopened = {} /\ object[from] # NULL /\ object[to] # NULL
    /\ IF used = 0 THEN Stop("abort")
       ELSE IF from = to THEN Stop("crash")
       ELSE IF size < (2 * used) % SizeT THEN Stop("abort")
       ELSE /\ object' = [object EXCEPT ![to] = object[from], ![from] = NULL]
            /\ rights_base' = [rights_base EXCEPT ![to] = rights_base[from]]
            /\ rights_inheriting' = [rights_inheriting EXCEPT ![to] = rights_inheriting[from]]
            /\ refcount' = Released(object[to])
            /\ host' = HostWithout(object[to])
            /\ used' = (used - 2) % SizeT
            /\ UNCHANGED <<size, held, lost, pc, nfd, want, stopped>>

fd_fdstat_set_rights(t, fd) ==
    \E base, inheriting \in Requests :
        /\ pc[t] = "idle" /\ stopped = "no"
        /\ fd_table_get_entry(fd, base, inheriting)
        /\ rights_base' = [rights_base EXCEPT ![fd] = base]
        /\ rights_inheriting' = [rights_inheriting EXCEPT ![fd] = inheriting]
        /\ UNCHANGED <<size, used, object, objects, pc, nfd, want, stopped>>

----------------------------------------------------------------------------
(* path_open: the rights that the directory must have.                      *)
Reads(base) == base \cap {"FD_READ", "FD_READDIR"} # {}

Writes(base) ==
    base \cap {"FD_DATASYNC", "FD_WRITE", "FD_ALLOCATE", "FD_FILESTAT_SET_SIZE"} # {}

NeededBase(flags) ==
    {"PATH_OPEN"} \cup (IF "CREAT" \in flags THEN {"PATH_CREATE_FILE"} ELSE {})
                  \cup (IF "TRUNC" \in flags THEN {"PATH_FILESTAT_SET_SIZE"} ELSE {})

NeededInheriting(base, inheriting, flags) ==
    base \cup inheriting
         \cup (IF "DSYNC" \in flags THEN {"FD_DATASYNC"} ELSE {})
         \cup (IF "SYNC" \in flags THEN {"FD_SYNC"} ELSE {})
         \cup (IF Writes(base) /\ flags \cap {"APPEND", "TRUNC"} = {} THEN {"FD_SEEK"} ELSE {})

path_open(t, fd) ==
    \E base, inheriting \in Requests, flags \in SUBSET {"CREAT", "TRUNC", "APPEND", "DSYNC", "SYNC"} :
        /\ pc[t] = "idle"
        /\ fd_object_get(t, 1, fd, NeededBase(flags), NeededInheriting(base, inheriting, flags))
        /\ want' = [want EXCEPT ![t] = [base |-> base, inheriting |-> inheriting]]
        /\ Go(t, "open")
        /\ UNCHANGED nfd

(* openat takes the lowest descriptor.                                      *)
OpenAt(t) ==
    /\ pc[t] = "open"
    /\ \E n \in Numbers \ host :
        /\ \A m \in Numbers \ host : n <= m
        /\ nfd' = [nfd EXCEPT ![t] = n]
        /\ host' = host \cup {n}
    /\ Go(t, "put")
    /\ UNCHANGED <<table, refcount, held, lost, want, stopped>>

(* The type of the descriptor is not known, or there is no memory for the   *)
(* object: the descriptor is closed.                                        *)
CloseNew(t) ==
    /\ pc[t] = "opened"
    /\ host' = host \ {nfd[t]}
    /\ nfd' = [nfd EXCEPT ![t] = NULL]
    /\ want' = [want EXCEPT ![t] = NULL]
    /\ Go(t, "idle")
    /\ UNCHANGED <<table, refcount, held, lost, stopped>>

(* The rights of the new entry: those asked for, and for a directory or a   *)
(* file all that the type has, as far as the type and the access mode let.  *)
NewRights(type, w) ==
    LET all == IF type \in {"directory", "file"} THEN w.base \cup Base(type) ELSE w.base
    IN  [base |-> all \cap (Base(type) \ Stripped(Reads(w.base), Writes(w.base))),
         inheriting |-> w.inheriting \cap Inheriting(type)]

fd_object_new(t) ==
    /\ pc[t] = "opened"
    /\ refcount' = [refcount EXCEPT ![nfd[t]] = 1]
    /\ held' = [held EXCEPT ![<<t, 1>>] = nfd[t]]
    /\ nfd' = [nfd EXCEPT ![t] = NULL]
    /\ \E type \in Opened : want' = [want EXCEPT ![t] = NewRights(type, want[t])]
    /\ Go(t, "insert")
    /\ UNCHANGED <<table, host, lost, stopped>>

(* fd_table_grow finds no memory.                                           *)
GrowFails(t) ==
    /\ pc[t] = "insert" /\ stopped = "no" /\ size < Needed
    /\ want' = [want EXCEPT ![t] = NULL]
    /\ Go(t, "use")
    /\ UNCHANGED <<table, objects, nfd, stopped>>

(* fd_table_grow, fd_table_unused and fd_table_attach: the reference goes   *)
(* from the local variable to the entry.  fd_table_unused asserts that size *)
(* exceeds used, and then draws numbers until one is free.                  *)
fd_table_insert(t, fd) ==
    /\ pc[t] = "insert" /\ stopped = "no"
    /\ IF size < Needed /\ NeverEnough THEN Stop("hang")
       ELSE IF Grown <= used THEN Stop("abort")
       ELSE IF \A n \in 0 .. Grown - 1 : n \in Fds /\ object[n] # NULL THEN Stop("hang")
       ELSE /\ fd < Grown /\ object[fd] = NULL
            /\ size' = Grown
            /\ used' = used + 1
            /\ object' = [object EXCEPT ![fd] = held[<<t, 1>>]]
            /\ rights_base' = [rights_base EXCEPT ![fd] = want[t].base]
            /\ rights_inheriting' = [rights_inheriting EXCEPT ![fd] = want[t].inheriting]
            /\ held' = [held EXCEPT ![<<t, 1>>] = NULL]
            /\ want' = [want EXCEPT ![t] = NULL]
            /\ Go(t, "idle")
            /\ UNCHANGED <<refcount, host, lost, nfd, stopped>>

----------------------------------------------------------------------------
Lookup(t, fd) ==
    \/ fd_datasync(t, fd) \/ fd_pread(t, fd) \/ fd_pwrite(t, fd) \/ fd_read(t, fd)
    \/ fd_seek(t, fd) \/ fd_tell(t, fd) \/ fd_fdstat_set_flags(t, fd) \/ fd_sync(t, fd)
    \/ fd_write(t, fd) \/ fd_advise(t, fd) \/ fd_allocate(t, fd) \/ fd_readdir(t, fd)
    \/ fd_filestat_get(t, fd) \/ fd_filestat_set_size(t, fd)
    \/ fd_filestat_set_times(t, fd) \/ sock_recv(t, fd) \/ sock_send(t, fd)
    \/ sock_shutdown(t, fd) \/ path_create_directory(t, fd) \/ path_readlink(t, fd)
    \/ path_filestat_get(t, fd) \/ path_filestat_set_times(t, fd)
    \/ path_unlink_file(t, fd) \/ path_remove_directory(t, fd) \/ path_symlink(t, fd)
    \/ path_link(t, fd) \/ path_rename(t, fd) \/ path_open(t, fd) \/ SecondPath(t, fd)

Next ==
    \E t \in Threads :
        \/ \E fd \in Named : Lookup(t, fd) \/ fd_close(t, fd) \/ fd_fdstat_set_rights(t, fd)
        \/ \E fd1, fd2 \in Named : poll_oneoff(t, fd1, fd2) \/ fd_renumber(t, fd1, fd2)
        \/ \E k \in {1, 2} : Release(t, k)
        \/ OnlyRelease(t) \/ Denied(t) \/ OpenAt(t) \/ CloseNew(t) \/ fd_object_new(t)
        \/ GrowFails(t) \/ \E fd \in Picks : fd_table_insert(t, fd)

Spec == Init /\ [][Next]_vars

----------------------------------------------------------------------------
Places == {"idle", "use", "link", "rename", "validate", "open", "put", "opened", "insert"}

(* Type correctness of the table, the counts and the threads.               *)
FdTypeOK ==
    /\ size \in Sizes /\ used \in 0 .. SizeT - 1
    /\ object \in [Fds -> Numbers \cup {NULL}]
    /\ \A fd \in Fds : /\ rights_base[fd] \subseteq RIGHTS_ALL
                       /\ rights_inheriting[fd] \subseteq RIGHTS_ALL
    /\ refcount \in [Numbers -> Nat] /\ host \subseteq Numbers
    /\ pc \in [Threads -> Places] /\ held \in [Locals -> Numbers \cup {NULL}]
    /\ nfd \in [Threads -> Numbers \cup {NULL}] /\ lost \in [Numbers -> Nat]
    /\ \A t \in Threads : (want[t] # NULL) <=> (pc[t] \in {"open", "put", "opened", "insert"})
    /\ stopped \in {"no", "abort", "crash", "hang"}

(* The count of an object is the number of its references: the entries of   *)
(* the table, the local variables of the calls under way, and the           *)
(* references that the early returns of path_link and path_symlink lose.    *)
RefcountExact ==
    \A n \in Numbers :
        refcount[n] = Cardinality({fd \in Fds : object[fd] = n})
                      + Cardinality({l \in Locals : held[l] = n}) + lost[n]

(* The open descriptors of the host are those of the standard streams, of   *)
(* the objects with references and of the opens under way, and no two of    *)
(* these are the same: no call uses a descriptor after its close, or one    *)
(* that another thread has opened since, and every other one is closed.     *)
HostExact ==
    /\ host = 0 .. 2 \cup {n \in Numbers : refcount[n] > 0}
                     \cup {n \in Numbers : \E t \in Threads : nfd[t] = n}
    /\ \A t \in Threads : nfd[t] # NULL =>
         /\ refcount[nfd[t]] = 0 /\ nfd[t] > 2
         /\ \A s \in Threads \ {t} : nfd[s] # nfd[t]

(* The rights to an object, those of all the entries that have it.          *)
RightsTo(n) == UNION {rights_base[fd] \cup rights_inheriting[fd] :
                        fd \in {f \in Fds : object[f] = n}}

(* "Restricts": no call on the table, a renumbering included, gives rights  *)
(* to an object that is in the table beyond those it has.                   *)
RightsShrink ==
    [][\A n \in Numbers : (\E fd \in Fds : object[fd] = n) => RightsTo(n)' \subseteq RightsTo(n)]_vars

(* assert(ft->used > 0 && "Reference count mismatch") and the other         *)
(* assertions on the size of the table.                                     *)
NoAbort == stopped # "abort"

============================================================================
