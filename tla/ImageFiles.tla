----------------------------- MODULE ImageFiles -----------------------------
(* The four image files between the processes that write and read them.     *)
(*                                                                          *)
(* A checkpoint opens pool_info.img, dump.img and frame.img, writes them    *)
(* side by side, closes only the first, and then writes interp.img.  What   *)
(* stays in the stdio buffers of dump.img and frame.img reaches the disk in *)
(* exit(0).  The process can be killed at any time, fopen can fail, and the *)
(* process goes on without a checkpoint if interp.img cannot be opened: the *)
(* streams then stay open, and the next call of a function tries again.     *)
(*                                                                          *)
(* A record is represented by the number of the checkpoint that wrote it.    *)
EXTENDS Integers, Sequences, FiniteSetsExt

CONSTANTS NumFrames,      \* the frames, at the head of root_info
          NumBlocks,      \* the other infos that are written
          MaxCheckpoints  \* bound of the checkpoints that are begun

ASSUME FilesAssumption ==
    NumFrames \in Nat \ {0} /\ NumBlocks \in Nat /\ MaxCheckpoints \in Nat

Files == {"pool_info", "dump", "frame", "interp"}

VARIABLES pc,       \* what the process does next; "none" without a process
          ckpt,     \* the number of the last checkpoint that was begun
          disk,     \* the records of each file that have reached the disk
          exists,   \* the files that exist
          streams,  \* the open streams of each file, the oldest first
          next,     \* the info that is written next
          left,     \* a checkpoint of this process left its streams open
          mixed,    \* the images were written with old streams open
          saved     \* the last checkpoint ended with exit(0)

fileVars == <<pc, ckpt, disk, exists, streams, next, left, mixed, saved>>

----------------------------------------------------------------------------

\* The infos of root_info that are written; the frames come first.
NumInfos == NumFrames + NumBlocks

\* The file that the record of the i-th info goes to.
FileOf(i) == IF i <= NumFrames THEN "frame" ELSE "dump"

\* The records of a file when the first n infos are written.
Written(f, n) == IF f = "pool_info" THEN n
                 ELSE IF f = "interp" THEN 1
                 ELSE IF f = "frame" THEN IF n <= NumFrames THEN n ELSE NumFrames
                 ELSE IF n <= NumFrames THEN 0 ELSE n - NumFrames

Count(f) == Written(f, NumInfos)

\* The stream of a file that was opened last.
Current(f) == streams[f][Len(streams[f])]

\* write(2) at the offset of the stream; a hole reads as zeros.
Overwrite(s, at, b) ==
    [i \in 1 .. (IF b = <<>> \/ Len(s) > at + Len(b) THEN Len(s) ELSE at + Len(b)) |->
        IF i - at \in DOMAIN b THEN b[i - at]
        ELSE IF i <= Len(s) THEN s[i] ELSE 0]

NoStreams == [f \in Files |-> <<>>]

\* fopen with "wb": the file is truncated.
Opened(f) == [streams EXCEPT ![f] = Append(@, [at |-> 0, buf |-> <<>>])]

\* Faulty variant of Open: the file is not truncated.
OpenKeeps(f) ==
    /\ UNCHANGED disk
    /\ exists' = exists \union {f}
    /\ streams' = Opened(f)

Open(f) ==
    /\ disk' = [disk EXCEPT ![f] = <<>>]
    /\ exists' = exists \union {f}
    /\ streams' = Opened(f)

\* Faulty variant of Put: what has gone out stays in the buffer.
PutKeeps(s, v, n) == [at |-> s.at + n, buf |-> Append(s.buf, v)]

\* fwrite: the record is buffered; the first n records of the buffer go out.
Put(s, v, n) ==
    [at |-> s.at + n, buf |-> SubSeq(Append(s.buf, v), n + 1, Len(s.buf) + 1)]

\* The file after that fwrite on its newest stream.
Out(f, v, n) ==
    Overwrite(disk[f], Current(f).at, SubSeq(Append(Current(f).buf, v), 1, n))

\* The streams of f after that fwrite.
PutLast(f, v, n) == [streams[f] EXCEPT ![Len(streams[f])] = Put(@, v, n)]

\* fclose of the newest stream of f.
Closed(f, b) == Overwrite(disk[f], Current(f).at, b)

Unlinked(f) == [streams EXCEPT ![f] = SubSeq(@, 1, Len(@) - 1)]

\* The streams of f that have something to write at position i of the file.
Covering(f, i) ==
    {k \in DOMAIN streams[f] : i - streams[f][k].at \in DOMAIN streams[f][k].buf}

\* Where a stream ends in its file when its buffer is written.
Ends(f) == {streams[f][k].at + Len(streams[f][k].buf) :
                k \in {j \in DOMAIN streams[f] : streams[f][j].buf # <<>>}}

\* The disk when all of the streams are flushed, the newest first: where
\* several write, the oldest has the last word.
FlushAll ==
    [f \in Files |->
        [i \in 1 .. Max({Len(disk[f])} \cup Ends(f)) |->
            IF Covering(f, i) # {}
            THEN LET s == streams[f][Min(Covering(f, i))] IN s.buf[i - s.at]
            ELSE IF i <= Len(disk[f]) THEN disk[f][i] ELSE 0]]

----------------------------------------------------------------------------

FilesInit ==
    /\ pc = "run" /\ ckpt = 0
    /\ disk = [f \in Files |-> <<>>] /\ exists = {}
    /\ streams = NoStreams /\ next = 1
    /\ left = FALSE /\ mixed = FALSE /\ saved = FALSE

\* dump_runtime opens pool_info.img.
OpenPool ==
    /\ pc = "run" /\ ckpt < MaxCheckpoints
    /\ Open("pool_info")
    /\ ckpt' = ckpt + 1
    /\ pc' = "open_dump" /\ next' = 1
    /\ mixed' = left /\ saved' = FALSE
    /\ UNCHANGED left

\* The NULL is not checked: dump_runtime goes on to init_dump.
OpenPoolFails ==
    /\ pc = "run" /\ ckpt < MaxCheckpoints
    /\ ckpt' = ckpt + 1
    /\ pc' = "open_dump" /\ next' = 1
    /\ mixed' = (left \/ mixed) /\ saved' = FALSE
    /\ UNCHANGED <<disk, exists, streams, left>>

\* init_dump
OpenDump ==
    /\ pc \in {"open_dump", "open_frame"}
    /\ Open(IF pc = "open_dump" THEN "dump" ELSE "frame")
    /\ pc' = IF pc = "open_dump" THEN "open_frame" ELSE "write"
    /\ UNCHANGED <<ckpt, next, left, mixed, saved>>

\* init_dump: exit(1), which flushes what earlier checkpoints left.
OpenDumpFails ==
    /\ pc \in {"open_dump", "open_frame"}
    /\ disk' = FlushAll /\ streams' = NoStreams /\ pc' = "none"
    /\ UNCHANGED <<ckpt, exists, next, left, mixed, saved>>

\* fp of dump_runtime is not NULL.
PoolOpened == streams["pool_info"] # <<>>

\* Without pool_info.img the process crashes at its first entry; the record of
\* that entry is written before, and may have reached the disk.
WriteCrashes ==
    /\ pc = "write" /\ ~PoolOpened
    /\ \E n \in {0, 1} : disk' = [disk EXCEPT ![FileOf(1)] = Out(FileOf(1), ckpt, n)]
    /\ streams' = NoStreams /\ pc' = "none"
    /\ UNCHANGED <<ckpt, exists, next, left, mixed, saved>>

\* dump_data writes the record, dump_runtime the entry of pool_info.img.
WriteInfo ==
    /\ pc = "write" /\ PoolOpened /\ next <= NumInfos
    /\ LET f == FileOf(next)
       IN  \E n \in 0 .. Len(Current(f).buf) + 1, m \in 0 .. Len(Current("pool_info").buf) + 1 :
             /\ disk' = [disk EXCEPT ![f] = Out(f, ckpt, n),
                                     !["pool_info"] = Out("pool_info", ckpt, m)]
             /\ streams' = [streams EXCEPT ![f] = PutLast(f, ckpt, n),
                                           !["pool_info"] = PutLast("pool_info", ckpt, m)]
    /\ next' = next + 1
    /\ UNCHANGED <<pc, ckpt, exists, left, mixed, saved>>

\* dump_runtime closes pool_info.img, and no other file.
ClosePool ==
    /\ pc = "write" /\ next > NumInfos
    /\ disk' = [disk EXCEPT !["pool_info"] = Closed("pool_info", Current("pool_info").buf)]
    /\ streams' = Unlinked("pool_info")
    /\ pc' = "open_interp"
    /\ UNCHANGED <<ckpt, exists, next, left, mixed, saved>>

OpenInterp ==
    /\ pc = "open_interp"
    /\ Open("interp")
    /\ pc' = "write_interp"
    /\ UNCHANGED <<ckpt, next, left, mixed, saved>>

\* wasm_interp_call_func_bytecode returns.
OpenInterpFails ==
    /\ pc = "open_interp"
    /\ pc' = "run" /\ left' = TRUE
    /\ UNCHANGED <<ckpt, disk, exists, streams, next, mixed, saved>>

\* The locals are written, and interp.img is closed.
WriteInterp ==
    /\ pc = "write_interp"
    /\ disk' = [disk EXCEPT !["interp"] = Closed("interp", <<ckpt>>)]
    /\ streams' = Unlinked("interp")
    /\ pc' = "exit"
    /\ UNCHANGED <<ckpt, exists, next, left, mixed, saved>>

\* Faulty variant of Exit: _exit instead of exit.
ExitUnflushed ==
    /\ pc = "exit"
    /\ streams' = NoStreams /\ pc' = "none" /\ saved' = TRUE
    /\ UNCHANGED <<ckpt, disk, exists, next, left, mixed>>

\* exit(0)
Exit ==
    /\ pc = "exit"
    /\ disk' = FlushAll
    /\ streams' = NoStreams /\ pc' = "none" /\ saved' = TRUE
    /\ UNCHANGED <<ckpt, exists, next, left, mixed>>

\* The process is killed: what is buffered is lost.
Kill ==
    /\ pc # "none"
    /\ streams' = NoStreams /\ pc' = "none"
    /\ UNCHANGED <<ckpt, disk, exists, next, left, mixed, saved>>

\* restore_runtime, restore_internal and restore_frame_internal go through when
\* every record has its entry in pool_info.img and there is a frame; then
\* interp.img has to be there.
Restorable ==
    /\ exists = Files
    /\ LET n == Len(disk["pool_info"])
       IN  /\ n \in 1 .. NumInfos /\ \E i \in 1 .. n : FileOf(i) = "frame"
           /\ \A f \in {"dump", "frame"} : Len(disk[f]) <= Written(f, n)

RestoreImages ==
    /\ pc = "none" /\ Restorable
    /\ pc' = "run" /\ left' = FALSE
    /\ UNCHANGED <<ckpt, disk, exists, streams, next, mixed, saved>>

\* A program is started from its beginning, beside the images that are there.
Start ==
    /\ pc = "none"
    /\ pc' = "run" /\ left' = FALSE
    /\ UNCHANGED <<ckpt, disk, exists, streams, next, mixed, saved>>

FilesNext == OpenPool \/ OpenPoolFails \/ OpenDump \/ OpenDumpFails
        \/ WriteInfo \/ WriteCrashes \/ ClosePool \/ OpenInterp \/ OpenInterpFails
        \/ WriteInterp \/ Exit \/ Kill \/ RestoreImages \/ Start

FilesSpec == FilesInit /\ [][FilesNext]_fileVars

----------------------------------------------------------------------------

\* The states are well formed, and no file has more records than a checkpoint
\* writes.
FilesTypeOK ==
    /\ pc \in {"run", "open_dump", "open_frame", "write", "open_interp",
               "write_interp", "exit", "none"}
    /\ ckpt \in 0..MaxCheckpoints
    /\ \A f \in Files : /\ Len(disk[f]) <= Count(f)
                        /\ \A i \in DOMAIN disk[f] : disk[f][i] \in 0..ckpt
    /\ next \in 1..(NumInfos + 1)

\* However a checkpoint ended, dump.img and frame.img hold no record that is
\* older than pool_info.img, because dump_runtime truncates them before it
\* writes its first entry.
FreshRecords ==
    ~mixed /\ disk["pool_info"] # <<>> =>
        \A f \in {"dump", "frame"} : \A i \in DOMAIN disk[f] :
            disk[f][i] >= disk["pool_info"][1]

\* interp.img is written last: if it belongs to the checkpoint of
\* pool_info.img, then pool_info.img is complete, however the process ended.
InterpLast ==
    /\ disk["interp"] # <<>> /\ disk["pool_info"] # <<>>
    /\ disk["interp"][1] = disk["pool_info"][1]
    => Len(disk["pool_info"]) = Count("pool_info")

\* What a process that was killed in a checkpoint leaves behind is told apart:
\* no older record is read with a newer pool_info.img, and an interp.img of
\* the same checkpoint vouches for the whole of pool_info.img.
KilledDetectable == FreshRecords /\ InterpLast

\* After exit(0) the four images are complete and of the last checkpoint,
\* unless an earlier checkpoint of the process had left its streams open.
CompletedRestorable ==
    saved /\ ~mixed => \A f \in Files : disk[f] = [i \in 1..Count(f) |-> ckpt]

=============================================================================
