-------------------------- MODULE ImageFilesProofs --------------------------
(* For every number of frames, of other infos and of checkpoints: what a    *)
(* killed checkpoint leaves in the four files is told apart from a complete *)
(* one, and exit(0) leaves a complete one.                                  *)
EXTENDS ImageFiles, NaturalsInduction, WellFoundedInduction, TLAPS

----------------------------------------------------------------------------
Places == {"run", "open_dump", "open_frame", "write", "open_interp", "write_interp",
           "exit", "none"}

Stream == [at : Nat, buf : Seq(Nat)]

FileTypes ==
    /\ pc \in Places /\ ckpt \in 0 .. MaxCheckpoints /\ next \in 1 .. NumInfos + 1
    /\ disk \in [Files -> Seq(Nat)] /\ streams \in [Files -> Seq(Stream)]

(* n records of checkpoint c.                                               *)
All(n, c) == [i \in 1 .. n |-> c]

(* No record of s is of a checkpoint after c.                               *)
UpTo(s, c) == \A i \in DOMAIN s : s[i] <= c

(* A file d with the streams ss: they end within n records, and there is no *)
(* record of a checkpoint after c.                                          *)
Within(d, ss, n, c) ==
    /\ Len(d) <= n /\ UpTo(d, c)
    /\ \A k \in DOMAIN ss : ss[k].at + Len(ss[k].buf) <= n /\ UpTo(ss[k].buf, c)

Fitting == \A f \in Files : Within(disk[f], streams[f], Count(f), ckpt)

(* The newest of the streams ss has n records.                              *)
Reached(ss, n) ==
    /\ ss # <<>>
    /\ ss[Len(ss)].at + Len(ss[Len(ss)].buf) = n

(* The only stream has n records, all of checkpoint c, and the file d those *)
(* that have gone out.                                                      *)
Live(d, ss, n, c) ==
    /\ Len(ss) = 1 /\ ss[1].at + Len(ss[1].buf) = n
    /\ ss[1].buf = All(Len(ss[1].buf), c) /\ d = All(ss[1].at, c)

(* The checkpoint has a stream on f.                                        *)
OpenNow(f) == \/ f = "dump" /\ pc \in {"open_frame", "write", "open_interp", "write_interp", "exit"}
              \/ f = "frame" /\ pc \in {"write", "open_interp", "write_interp", "exit"}

(* Which streams there are.                                                 *)
Opens ==
    /\ pc = "none" \/ (pc = "run" /\ ~ left) => streams = NoStreams
    /\ PoolOpened => /\ pc \in {"open_dump", "open_frame", "write"}
                     /\ Live(disk["pool_info"], streams["pool_info"], next - 1, ckpt)
    /\ pc = "write" /\ next > 1 => PoolOpened
    /\ pc \in {"open_dump", "open_frame"} => next = 1
    /\ \A f \in {"dump", "frame"} : OpenNow(f) => Reached(streams[f], Written(f, next - 1))

InterpOpens ==
    IF pc = "write_interp"
    THEN streams["interp"] = <<[at |-> 0, buf |-> <<>>]>> /\ disk["interp"] = <<>>
    ELSE streams["interp"] = <<>>

(* pool_info.img is complete before interp.img is opened.                   *)
Order ==
    /\ pc \in {"open_interp", "write_interp", "exit"} =>
         next = NumInfos + 1 /\ disk["pool_info"] = All(NumInfos, ckpt)
    /\ pc = "exit" => disk["interp"] = All(1, ckpt)
    /\ pc \in {"open_dump", "open_frame", "write", "open_interp"} =>
         \A i \in DOMAIN disk["interp"] : disk["interp"][i] < ckpt

(* Without old streams, dump.img and frame.img have only new records.       *)
Unmixed ==
    ~ mixed => \A f \in {"dump", "frame"} :
        /\ OpenNow(f) => Live(disk[f], streams[f], Written(f, next - 1), ckpt)
        /\ streams[f] # <<>> => OpenNow(f) \/ pc = "run"

(* A completed checkpoint stays until the next one begins.                  *)
Resting == saved => pc \in {"run", "none"}

FilesInv == /\ FileTypes /\ Fitting /\ Opens /\ InterpOpens /\ Order /\ Unmixed /\ Resting
            /\ FreshRecords /\ InterpLast /\ CompletedRestorable

----------------------------------------------------------------------------
(* The files are named by Files.                                            *)
LEMMA FileNames ==
    /\ "pool_info" \in Files /\ "interp" \in Files /\ "dump" \in Files /\ "frame" \in Files
    /\ \A f \in Files : f \in {"pool_info", "interp", "dump", "frame"}
    /\ \A i \in Int : FileOf(i) \in {"dump", "frame"}
BY DEF Files, FileOf

(* The records of a file grow with the infos, up to Count.                  *)
LEMMA WrittenGrows ==
    ASSUME NEW f \in Files, NEW n \in 0 .. NumInfos
    PROVE  /\ Written(f, n) \in Nat /\ Written(f, n) <= Count(f) /\ Count(f) \in Nat
           /\ NumInfos \in Nat /\ NumInfos >= 1
BY FilesAssumption DEF Files, Written, Count, NumInfos

(* The n-th info is one record of its file and of pool_info.img.            *)
LEMMA WrittenNext ==
    ASSUME NEW n \in 1 .. NumInfos
    PROVE  /\ Written(FileOf(n), n) = Written(FileOf(n), n - 1) + 1
           /\ \A f \in {"dump", "frame"} : f # FileOf(n) => Written(f, n) = Written(f, n - 1)
BY FilesAssumption DEF Written, FileOf, NumInfos

(* What is in a file before and after a checkpoint has written its infos.   *)
LEMMA WrittenEnds ==
    /\ \A f \in {"dump", "frame"} : Written(f, 0) = 0
    /\ \A f \in Files : Count(f) = Written(f, NumInfos)
    /\ Count("pool_info") = NumInfos /\ Count("interp") = 1 /\ \A n : Written("pool_info", n) = n
BY FilesAssumption DEF Written, Count, NumInfos

----------------------------------------------------------------------------
(* A set of naturals has a least element.                                   *)
LEMMA HasMin ==
    ASSUME NEW S \in SUBSET Nat, S # {}
    PROVE  Min(S) \in S /\ \A j \in S : Min(S) <= j
<1> DEFINE R == OpToRel(<, Nat)
<1>1. IsWellFoundedOn(R, Nat)
  BY NatLessThanWellFounded
<1>2. \A i, j \in Nat : j < i => <<j, i>> \in R
  BY DEF OpToRel
<1> HIDE DEF R
<1>3. PICK i \in S : \A j \in S : ~(<<j, i>> \in R)
  BY <1>1, WFMin, ZenonT(30)
<1>4. \A j \in S : ~(j < i)
  BY <1>2, <1>3, ZenonT(30)
<1>5. \A j \in S : i <= j
  BY <1>4
<1>6. \E m \in S : \A j \in S : m <= j
  BY <1>5
<1> QED BY <1>6, ZenonT(30) DEF Min

(* A bounded set of naturals has a greatest element.                        *)
LEMMA HasMax ==
    ASSUME NEW S \in SUBSET Nat, S # {}, NEW n \in Nat, \A i \in S : i <= n
    PROVE  Max(S) \in S /\ \A j \in S : j <= Max(S)
<1> DEFINE T == {n - i : i \in S}
<1>1. \A i \in S : n - i \in Nat
  OBVIOUS
<1>2. T \in SUBSET Nat /\ T # {}
  BY <1>1, ZenonT(30)
<1>3. Min(T) \in T /\ \A j \in T : Min(T) <= j
  <2> HIDE DEF T
  <2> QED BY <1>2, HasMin
<1>4. PICK i \in S : Min(T) = n - i
  BY <1>3, ZenonT(30)
<1>5. \A j \in S : n - i <= n - j
  BY <1>3, <1>4, ZenonT(30)
<1>6. \A j \in S : i >= j
  BY <1>5
<1>7. Max(S) \in S /\ \A j \in S : Max(S) >= j
  BY <1>6, ZenonT(30) DEF Max
<1> QED BY <1>7
----------------------------------------------------------------------------
(* write(2) within n records leaves a file of at most n records.            *)
LEMMA OverwriteFits ==
    ASSUME NEW s \in Seq(Nat), NEW at \in Nat, NEW b \in Seq(Nat), NEW n \in Nat, NEW c \in Nat,
           Len(s) <= n, at + Len(b) <= n, UpTo(s, c), UpTo(b, c)
    PROVE  /\ Overwrite(s, at, b) \in Seq(Nat) /\ Len(Overwrite(s, at, b)) <= n
           /\ UpTo(Overwrite(s, at, b), c)
<1> DEFINE len == IF b = <<>> \/ Len(s) > at + Len(b) THEN Len(s) ELSE at + Len(b)
           v(i) == IF i - at \in DOMAIN b THEN b[i - at] ELSE IF i <= Len(s) THEN s[i] ELSE 0
<1>1. len \in Nat /\ len <= n
  OBVIOUS
<1>2. \A i \in 1 .. len : v(i) \in Nat /\ v(i) <= c
  BY <1>1 DEF UpTo
<1>3. Overwrite(s, at, b) = [i \in 1 .. len |-> v(i)]
  BY DEF Overwrite
<1> HIDE DEF len, v
<1>4. /\ [i \in 1 .. len |-> v(i)] \in Seq(Nat) /\ Len([i \in 1 .. len |-> v(i)]) = len
      /\ UpTo([i \in 1 .. len |-> v(i)], c)
  BY <1>1, <1>2 DEF UpTo
<1> QED BY <1>1, <1>3, <1>4

(* n times the same record.                                                 *)
LEMMA AllIs ==
    ASSUME NEW n \in Nat, NEW c \in Nat
    PROVE  /\ All(n, c) \in Seq(Nat) /\ Len(All(n, c)) = n /\ DOMAIN All(n, c) = 1 .. n
           /\ \A i \in 1 .. n : All(n, c)[i] = c
           /\ UpTo(All(n, c), c)
           /\ n = 0 <=> All(n, c) = <<>>
BY DEF All, UpTo

(* write(2) at the end of a file.                                           *)
LEMMA OverwriteAll ==
    ASSUME NEW a \in Nat, NEW m \in Nat, NEW c \in Nat
    PROVE  Overwrite(All(a, c), a, All(m, c)) = All(a + m, c)
<1> DEFINE d == All(a, c)
           b == All(m, c)
<1>1. /\ Len(d) = a /\ Len(b) = m /\ DOMAIN b = 1 .. m /\ (m = 0 <=> b = <<>>)
      /\ \A i \in 1 .. a : d[i] = c
      /\ \A i \in 1 .. m : b[i] = c
  BY AllIs
<1> HIDE DEF d, b
<1>2. (IF b = <<>> \/ Len(d) > a + Len(b) THEN Len(d) ELSE a + Len(b)) = a + m
  BY <1>1
<1>3. \A i \in 1 .. a + m :
         (IF i - a \in DOMAIN b THEN b[i - a] ELSE IF i <= Len(d) THEN d[i] ELSE 0) = c
  BY <1>1
<1>4. Overwrite(d, a, b) = [i \in 1 .. a + m |-> c]
  BY <1>2, <1>3 DEF Overwrite
<1> QED BY <1>4 DEF d, b, All

(* fwrite adds a record to the stream, of which n go out.                   *)
LEMMA PutFits ==
    ASSUME NEW s \in Stream, NEW c \in Nat, NEW n \in 0 .. Len(s.buf) + 1, UpTo(s.buf, c)
    PROVE  /\ Put(s, c, n) \in Stream /\ UpTo(Put(s, c, n).buf, c)
           /\ Put(s, c, n).at + Len(Put(s, c, n).buf) = s.at + Len(s.buf) + 1
           /\ SubSeq(Append(s.buf, c), 1, n) \in Seq(Nat)
           /\ Len(SubSeq(Append(s.buf, c), 1, n)) = n
           /\ UpTo(SubSeq(Append(s.buf, c), 1, n), c)
           /\ Put(s, c, n).at = s.at + n
<1>1. s.at \in Nat /\ s.buf \in Seq(Nat) /\ Len(s.buf) \in Nat
  BY DEF Stream
<1>2. PICK a : a = Append(s.buf, c)
  OBVIOUS
<1>3. a \in Seq(Nat) /\ Len(a) = Len(s.buf) + 1 /\ UpTo(a, c)
  BY <1>1, <1>2 DEF UpTo
<1>4. PICK x : x = SubSeq(a, n + 1, Len(s.buf) + 1)
  OBVIOUS
<1>5. PICK y : y = SubSeq(a, 1, n)
  OBVIOUS
<1>6. x \in Seq(Nat) /\ Len(x) = Len(s.buf) + 1 - n /\ UpTo(x, c)
  BY <1>1, <1>3, <1>4 DEF UpTo
<1>7. y \in Seq(Nat) /\ Len(y) = n /\ UpTo(y, c)
  BY <1>1, <1>3, <1>5 DEF UpTo
<1>8. Put(s, c, n) = [at |-> s.at + n, buf |-> x]
  BY <1>2, <1>4 DEF Put
<1>9. s.at + n \in Nat
  BY <1>1
<1>10. PICK p : p = Put(s, c, n)
  BY ZenonT(30)
<1>11. p.at = s.at + n /\ p.buf = x
  BY <1>8, <1>10, SMTT(30)
<1>12. p \in Stream
  BY <1>6, <1>8, <1>9, <1>10 DEF Stream
<1>13. s.at + n + Len(x) = s.at + Len(s.buf) + 1
  BY <1>1, <1>6
<1>14. p.at + Len(p.buf) = s.at + Len(s.buf) + 1 /\ UpTo(p.buf, c)
  BY <1>6, <1>11, <1>13, ZenonT(30)
<1> QED BY <1>2, <1>5, <1>7, <1>10, <1>11, <1>12, <1>14, ZenonT(30)

(* The same for a buffer of records of one checkpoint.                      *)
LEMMA PutAll ==
    ASSUME NEW s \in Stream, NEW c \in Nat, NEW n \in 0 .. Len(s.buf) + 1,
           s.buf = All(Len(s.buf), c)
    PROVE  /\ Put(s, c, n).buf = All(Len(Put(s, c, n).buf), c)
           /\ SubSeq(Append(s.buf, c), 1, n) = All(n, c)
<1>1. s.at \in Nat /\ s.buf \in Seq(Nat) /\ Len(s.buf) \in Nat
  BY DEF Stream
<1>2. PICK a : a = Append(s.buf, c)
  OBVIOUS
<1>3. s.buf = [i \in 1 .. Len(s.buf) |-> c]
  BY DEF All
<1>4. a \in Seq(Nat) /\ Len(a) = Len(s.buf) + 1 /\ \A i \in 1 .. Len(a) : a[i] = c
  BY <1>1, <1>2, <1>3
<1>5. PICK x : x = SubSeq(a, n + 1, Len(s.buf) + 1)
  OBVIOUS
<1>6. PICK y : y = SubSeq(a, 1, n)
  OBVIOUS
<1>7. x \in Seq(Nat) /\ \A i \in 1 .. Len(x) : x[i] = c
  BY <1>1, <1>4, <1>5
<1>8. y \in Seq(Nat) /\ Len(y) = n /\ \A i \in 1 .. n : y[i] = c
  BY <1>1, <1>4, <1>6
<1>9. Put(s, c, n).buf = x
  BY <1>2, <1>5 DEF Put
<1>10. x = [i \in 1 .. Len(x) |-> c]
  BY <1>7
<1>11. y = [i \in 1 .. n |-> c]
  BY <1>8
<1>12. x = All(Len(x), c) /\ y = All(n, c)
  BY <1>10, <1>11 DEF All
<1> QED BY <1>2, <1>6, <1>9, <1>12
----------------------------------------------------------------------------
(* What FlushAll writes to position i of f.                                 *)
Flushed(f, i) ==
    IF Covering(f, i) # {}
    THEN LET s == streams[f][Min(Covering(f, i))] IN s.buf[i - s.at]
    ELSE IF i <= Len(disk[f]) THEN disk[f][i] ELSE 0

(* The length of f after FlushAll.                                          *)
FlushedLen(f) == Max({Len(disk[f])} \cup Ends(f))

(* FlushAll, point by point: the oldest stream that covers a record decides, *)
(* and the file is as long as the stream that reaches furthest.             *)
LEMMA FlushIs ==
    /\ FlushAll = [f \in Files |-> FlushAll[f]]
    /\ \A f \in Files : FlushAll[f] = [i \in 1 .. FlushedLen(f) |-> Flushed(f, i)]
BY ZenonT(30) DEF FlushAll, Flushed, FlushedLen

(* The types of one file and its streams.                                   *)
LEMMA FileType ==
    ASSUME FileTypes, NEW f \in Files
    PROVE  /\ disk[f] \in Seq(Nat) /\ Len(disk[f]) \in Nat /\ streams[f] \in Seq(Stream)
           /\ Len(streams[f]) \in Nat /\ ckpt \in Nat
           /\ \A k \in DOMAIN streams[f] : /\ streams[f][k].at \in Nat
                                           /\ streams[f][k].buf \in Seq(Nat)
                                           /\ Len(streams[f][k].buf) \in Nat
           /\ \A k \in DOMAIN streams[f] : k \in 1 .. Len(streams[f])
           /\ DOMAIN streams[f] \in SUBSET Nat
<1>1. disk[f] \in Seq(Nat) /\ streams[f] \in Seq(Stream) /\ ckpt \in Nat
  BY FilesAssumption DEF FileTypes
<1>2. \A s \in Stream : s.at \in Nat /\ s.buf \in Seq(Nat) /\ Len(s.buf) \in Nat
  BY DEF Stream
<1>3. \A k \in DOMAIN streams[f] : streams[f][k] \in Stream /\ k \in 1 .. Len(streams[f])
  BY <1>1
<1> QED BY <1>1, <1>2, <1>3

(* How long a file is that is flushed.                                      *)
LEMMA FlushLen ==
    ASSUME FileTypes, NEW f \in Files, Within(disk[f], streams[f], Count(f), ckpt)
    PROVE  /\ FlushedLen(f) \in {Len(disk[f])} \cup Ends(f)
           /\ \A m \in {Len(disk[f])} \cup Ends(f) : m <= FlushedLen(f)
           /\ FlushedLen(f) \in Nat /\ FlushedLen(f) <= Count(f)
<1>1. PICK S : S = {Len(disk[f])} \cup Ends(f)
  BY ZenonT(30)
<1>2. \A m \in Ends(f) : m \in Nat /\ m <= Count(f)
  BY FileType, SMTT(30) DEF Ends, Within
<1>3. Len(disk[f]) \in Nat /\ Len(disk[f]) <= Count(f)
  BY FileType DEF Within
<1>4. Count(f) \in Nat
  BY WrittenGrows, FilesAssumption DEF NumInfos
<1>5. S \in SUBSET Nat /\ S # {} /\ \A m \in S : m <= Count(f)
  BY <1>1, <1>2, <1>3, ZenonT(30)
<1>6. Max(S) \in S /\ \A m \in S : m <= Max(S)
  BY <1>4, <1>5, HasMax, ZenonT(30)
<1>7. Max(S) = FlushedLen(f)
  BY <1>1, ZenonT(30) DEF FlushedLen
<1> QED BY <1>1, <1>5, <1>6, <1>7, ZenonT(30)

(* What is flushed fits.                                                    *)
LEMMA FlushFits ==
    ASSUME FileTypes, NEW f \in Files, Within(disk[f], streams[f], Count(f), ckpt)
    PROVE  /\ FlushAll[f] \in Seq(Nat) /\ Len(FlushAll[f]) <= Count(f)
           /\ UpTo(FlushAll[f], ckpt)
<1>1. ASSUME NEW i \in 1 .. FlushedLen(f)
      PROVE  Flushed(f, i) \in Nat /\ Flushed(f, i) <= ckpt
  <2>1. CASE Covering(f, i) = {}
    BY <2>1, FileType, FlushLen DEF Flushed, Within, UpTo
  <2>2. CASE Covering(f, i) # {}
    <3>1. PICK k : k = Min(Covering(f, i))
      BY ZenonT(30)
    <3>2. Covering(f, i) \in SUBSET Nat
      BY FileType, ZenonT(30) DEF Covering
    <3>3. k \in Covering(f, i)
      BY <2>2, <3>1, <3>2, HasMin
    <3>4. k \in DOMAIN streams[f] /\ i - streams[f][k].at \in DOMAIN streams[f][k].buf
      BY <3>3, ZenonT(30) DEF Covering
    <3>5. Flushed(f, i) = streams[f][k].buf[i - streams[f][k].at]
      BY <2>2, <3>1, ZenonT(30) DEF Flushed
    <3>6. streams[f][k].buf \in Seq(Nat) /\ UpTo(streams[f][k].buf, ckpt)
      BY <3>4, FileType, ZenonT(30) DEF Within
    <3> QED BY <3>4, <3>5, <3>6 DEF UpTo
  <2> QED BY <2>1, <2>2
<1>2. PICK n \in Nat : n = FlushedLen(f)
  BY FlushLen
<1>3. PICK d : d = [i \in 1 .. n |-> Flushed(f, i)]
  BY ZenonT(30)
<1>4. d \in Seq(Nat) /\ Len(d) = n /\ UpTo(d, ckpt)
  BY <1>1, <1>2, <1>3 DEF UpTo
<1>5. FlushAll[f] = d
  BY <1>2, <1>3, FlushIs, ZenonT(30)
<1> QED BY <1>2, <1>4, <1>5, FlushLen

(* Without a stream there is nothing to flush.                              *)
LEMMA FlushNone ==
    ASSUME FileTypes, NEW f \in Files, Within(disk[f], streams[f], Count(f), ckpt),
           streams[f] = <<>>
    PROVE  FlushAll[f] = disk[f]
<1>1. DOMAIN streams[f] = {}
  OBVIOUS
<1>2. Ends(f) = {} /\ \A i : Covering(f, i) = {}
  BY <1>1, ZenonT(30) DEF Ends, Covering
<1>3. FlushedLen(f) = Len(disk[f])
  BY <1>2, FlushLen, ZenonT(30)
<1>4. \A i \in 1 .. Len(disk[f]) : Flushed(f, i) = disk[f][i]
  BY <1>2 DEF Flushed
<1>5. FlushAll[f] = [i \in 1 .. Len(disk[f]) |-> disk[f][i]]
  BY <1>3, <1>4, FlushIs
<1>6. disk[f] = [i \in 1 .. Len(disk[f]) |-> disk[f][i]]
  BY FileType
<1> QED BY <1>5, <1>6

(* The only stream of f completes it.                                       *)
LEMMA FlushLive ==
    ASSUME FileTypes, NEW f \in Files, Within(disk[f], streams[f], Count(f), ckpt),
           NEW n, Live(disk[f], streams[f], n, ckpt)
    PROVE  FlushAll[f] = All(n, ckpt)
<1>1. PICK a : a = streams[f][1].at
  BY ZenonT(30)
<1>2. PICK b : b = streams[f][1].buf
  BY ZenonT(30)
<1>3. DOMAIN streams[f] = {1}
  BY FileType DEF Live
<1>4. /\ a \in Nat /\ b \in Seq(Nat) /\ Len(b) \in Nat /\ DOMAIN b = 1 .. Len(b) /\ ckpt \in Nat
      /\ (b = <<>> <=> Len(b) = 0)
  BY <1>1, <1>2, <1>3, FileType
<1>5. a + Len(b) = n /\ b = All(Len(b), ckpt) /\ disk[f] = All(a, ckpt)
  BY <1>1, <1>2 DEF Live
<1>6. /\ Len(disk[f]) = a /\ \A i \in 1 .. a : disk[f][i] = ckpt
      /\ \A i \in 1 .. Len(b) : b[i] = ckpt
  <2>1. \A m \in Nat : Len(All(m, ckpt)) = m /\ \A i \in 1 .. m : All(m, ckpt)[i] = ckpt
    BY <1>4, AllIs, ZenonT(30)
  <2>2. \A i \in 1 .. Len(b) : All(Len(b), ckpt)[i] = ckpt
    BY <1>4, <2>1, ZenonT(30)
  <2>3. Len(disk[f]) = a /\ \A i \in 1 .. a : disk[f][i] = ckpt
    BY <1>4, <1>5, <2>1, ZenonT(30)
  <2> QED BY <1>5, <2>2, <2>3, ZenonT(30)
<1>7. Ends(f) = IF b = <<>> THEN {} ELSE {n}
  BY <1>1, <1>2, <1>3, <1>5, ZenonT(30) DEF Ends
<1>8. FlushedLen(f) = n
  BY <1>4, <1>5, <1>6, <1>7, FlushLen
<1>9. ASSUME NEW i \in 1 .. n
      PROVE  Flushed(f, i) = ckpt
  <2>1. CASE i <= a
    <3>1. i - a \notin DOMAIN b
      BY <1>4, <2>1
    <3>2. Covering(f, i) = {}
      BY <1>1, <1>2, <1>3, <3>1, ZenonT(30) DEF Covering
    <3> QED BY <1>6, <2>1, <3>2 DEF Flushed
  <2>2. CASE ~(i <= a)
    <3>1. i - a \in DOMAIN b /\ i - a \in 1 .. Len(b)
      BY <1>4, <1>5, <2>2
    <3>2. Covering(f, i) = {1}
      BY <1>1, <1>2, <1>3, <3>1, ZenonT(30) DEF Covering
    <3>3. Min({1}) = 1
      BY HasMin
    <3>4. Flushed(f, i) = b[i - a]
      BY <1>1, <1>2, <3>2, <3>3, ZenonT(30) DEF Flushed
    <3> QED BY <1>6, <3>1, <3>4
  <2> QED BY <2>1, <2>2
<1>10. FlushAll[f] = [i \in 1 .. n |-> ckpt]
  BY <1>8, <1>9, FlushIs
<1> QED BY <1>10 DEF All
----------------------------------------------------------------------------
(* A later checkpoint does not disturb what fits.                           *)
LEMMA WithinLater ==
    ASSUME NEW d \in Seq(Nat), NEW ss \in Seq(Stream), NEW n, NEW c \in Nat, Within(d, ss, n, c)
    PROVE  Within(d, ss, n, c + 1)
<1>1. UpTo(d, c + 1)
  BY DEF Within, UpTo
<1>2. ASSUME NEW k \in DOMAIN ss PROVE UpTo(ss[k].buf, c + 1)
  <2>1. PICK s \in Stream : s = ss[k]
    OBVIOUS
  <2>2. UpTo(s.buf, c) /\ s.buf \in Seq(Nat)
    BY <2>1, ZenonT(30) DEF Within, Stream
  <2>3. UpTo(s.buf, c + 1)
    BY <2>2 DEF UpTo
  <2> QED BY <2>1, <2>3
<1> QED BY <1>1, <1>2, ZenonT(30) DEF Within

(* A stream that has just been opened.                                      *)
Fresh == [at |-> 0, buf |-> <<>>]

(* A fresh stream is a stream at the beginning with nothing in its buffer.  *)
LEMMA FreshIs == Fresh \in Stream /\ Fresh.at = 0 /\ Fresh.buf = <<>> /\ Len(Fresh.buf) = 0
                 /\ DOMAIN Fresh.buf = {}
BY DEF Fresh, Stream

(* fopen: the file is empty, and the new stream is its newest.              *)
LEMMA OpenOne ==
    ASSUME NEW ss \in Seq(Stream), NEW n \in Nat, NEW c \in Nat, NEW d, Within(d, ss, n, c)
    PROVE  /\ Append(ss, Fresh) \in Seq(Stream)
           /\ Within(<<>>, Append(ss, Fresh), n, c)
           /\ Reached(Append(ss, Fresh), 0) /\ Append(ss, Fresh) # <<>>
           /\ ss = <<>> => Live(<<>>, Append(ss, Fresh), 0, c) /\ Append(ss, Fresh) = <<Fresh>>
<1>1. PICK tt : tt = Append(ss, Fresh)
  BY ZenonT(30)
<1>2. /\ tt \in Seq(Stream) /\ Len(ss) \in Nat /\ Len(tt) = Len(ss) + 1 /\ tt[Len(tt)] = Fresh
      /\ \A k \in DOMAIN tt : k = Len(tt) \/ (k \in DOMAIN ss /\ tt[k] = ss[k])
  BY <1>1, FreshIs
<1>3. UpTo(<<>>, c) /\ UpTo(Fresh.buf, c) /\ Fresh.at + Len(Fresh.buf) = 0
  BY FreshIs DEF UpTo
<1>4. \A k \in DOMAIN tt : tt[k].at + Len(tt[k].buf) <= n /\ UpTo(tt[k].buf, c)
  <2>1. 0 <= n
    OBVIOUS
  <2> QED BY <1>2, <1>3, <2>1, ZenonT(30) DEF Within
<1>5. Within(<<>>, tt, n, c)
  BY <1>3, <1>4 DEF Within
<1>6. tt # <<>>
  BY <1>2
<1>7. Reached(tt, 0)
  BY <1>2, <1>3, <1>6, ZenonT(30) DEF Reached
<1>8. ASSUME ss = <<>> PROVE Live(<<>>, tt, 0, c) /\ tt = <<Fresh>>
  <2>1. tt = <<Fresh>> /\ Len(tt) = 1 /\ tt[1] = Fresh
    BY <1>1, <1>8
  <2>2. <<>> = All(0, c)
    BY AllIs
  <2>3. Fresh.buf = All(Len(Fresh.buf), c) /\ <<>> = All(Fresh.at, c)
    BY <2>2, FreshIs, ZenonT(30)
  <2> QED BY <1>3, <2>1, <2>3, ZenonT(30) DEF Live
<1> QED BY <1>1, <1>2, <1>5, <1>6, <1>7, <1>8, ZenonT(30)

(* What Open changes.                                                       *)
LEMMA OpenIs ==
    ASSUME FileTypes, NEW f \in Files, Open(f)
    PROVE  /\ disk' \in [Files -> Seq(Nat)] /\ streams' \in [Files -> Seq(Stream)]
           /\ disk'[f] = <<>> /\ streams'[f] = Append(streams[f], Fresh)
           /\ \A g \in Files : g # f => disk'[g] = disk[g] /\ streams'[g] = streams[g]
<1>1. disk \in [Files -> Seq(Nat)] /\ streams \in [Files -> Seq(Stream)]
  BY DEF FileTypes
<1>2. disk' = [disk EXCEPT ![f] = <<>>] /\ streams' = [streams EXCEPT ![f] = Append(streams[f], Fresh)]
  BY DEF Open, Opened, Fresh
<1>3. Append(streams[f], Fresh) \in Seq(Stream) /\ <<>> \in Seq(Nat)
  BY <1>1, FreshIs
<1> QED BY <1>1, <1>2, <1>3, ZenonT(30)

(* dump_runtime opens pool_info.img.                                        *)
LEMMA OpenPoolStep == FilesInv /\ OpenPool => FilesInv'
<1> SUFFICES ASSUME FilesInv, OpenPool PROVE FilesInv'
  OBVIOUS
<1>1. /\ pc = "run" /\ ckpt < MaxCheckpoints /\ Open("pool_info") /\ ckpt' = ckpt + 1
      /\ pc' = "open_dump" /\ next' = 1 /\ mixed' = left /\ saved' = FALSE /\ left' = left
  BY DEF OpenPool
<1>2. FileTypes /\ Fitting /\ Opens /\ InterpOpens
  BY DEF FilesInv
<1>3. PICK c \in Nat : c = ckpt
  BY <1>2, FilesAssumption DEF FileTypes
<1>4. /\ disk' \in [Files -> Seq(Nat)] /\ streams' \in [Files -> Seq(Stream)]
      /\ disk'["pool_info"] = <<>> /\ streams'["pool_info"] = Append(streams["pool_info"], Fresh)
      /\ \A g \in Files : g # "pool_info" => disk'[g] = disk[g] /\ streams'[g] = streams[g]
  BY <1>1, <1>2, OpenIs, FileNames
<1>5. FileTypes'
  BY <1>1, <1>2, <1>4, FilesAssumption DEF FileTypes, Places, NumInfos
<1>6. \A g \in Files : /\ disk[g] \in Seq(Nat) /\ streams[g] \in Seq(Stream) /\ Count(g) \in Nat
                       /\ Within(disk[g], streams[g], Count(g), c + 1)
  <2> SUFFICES ASSUME NEW g \in Files
      PROVE  /\ disk[g] \in Seq(Nat) /\ streams[g] \in Seq(Stream) /\ Count(g) \in Nat
             /\ Within(disk[g], streams[g], Count(g), c + 1)
    OBVIOUS
  <2>1. disk[g] \in Seq(Nat) /\ streams[g] \in Seq(Stream) /\ Within(disk[g], streams[g], Count(g), c)
    BY <1>2, <1>3, FileType, ZenonT(30) DEF Fitting
  <2>2. Count(g) \in Nat
    BY WrittenGrows, FilesAssumption DEF NumInfos
  <2> QED BY <2>1, <2>2, WithinLater, ZenonT(30)
<1>7. streams["pool_info"] = <<>>
  BY <1>1, <1>2 DEF Opens, PoolOpened
<1>8. /\ Within(<<>>, streams'["pool_info"], Count("pool_info"), c + 1)
      /\ Live(<<>>, streams'["pool_info"], 0, c + 1)
  <2>1. c + 1 \in Nat /\ "pool_info" \in Files
    BY FileNames
  <2>2. PICK ss : ss = streams["pool_info"]
    BY ZenonT(30)
  <2>3. /\ ss \in Seq(Stream) /\ Count("pool_info") \in Nat
        /\ Within(disk["pool_info"], ss, Count("pool_info"), c + 1)
    BY <1>6, <2>1, <2>2, ZenonT(30)
  <2>4. /\ Within(<<>>, Append(ss, Fresh), Count("pool_info"), c + 1)
        /\ ss = <<>> => Live(<<>>, Append(ss, Fresh), 0, c + 1)
    BY <2>1, <2>3, OpenOne, ZenonT(30)
  <2> QED BY <1>4, <1>7, <2>2, <2>4, ZenonT(30)
<1>9. Fitting'
  BY <1>1, <1>3, <1>4, <1>6, <1>8, ZenonT(30) DEF Fitting, Count, Written
<1>10. Opens' /\ Resting'
  BY <1>1, <1>3, <1>4, <1>8 DEF Opens, PoolOpened, OpenNow, Resting
<1>11. InterpOpens' /\ Order'
  <2>1. /\ disk'["interp"] = disk["interp"] /\ streams'["interp"] = streams["interp"]
        /\ UpTo(disk["interp"], c) /\ disk["interp"] \in Seq(Nat)
    BY <1>2, <1>3, <1>4, <1>6, FileNames DEF Fitting, Within
  <2>2. \A i \in DOMAIN disk["interp"] : disk["interp"][i] < c + 1
    BY <2>1 DEF UpTo
  <2> QED BY <1>1, <1>2, <1>3, <2>1, <2>2 DEF InterpOpens, Order
<1>12. Unmixed'
  BY <1>1, <1>2, <1>4, FileNames DEF Unmixed, Opens, NoStreams, OpenNow
<1>13. FreshRecords' /\ InterpLast' /\ CompletedRestorable'
  BY <1>1, <1>4 DEF FreshRecords, InterpLast, CompletedRestorable
<1> QED BY <1>5, <1>9, <1>10, <1>11, <1>12, <1>13 DEF FilesInv
(* What the invariant says of one file.                                     *)
LEMMA Each ==
    ASSUME FilesInv, NEW g \in Files
    PROVE  /\ disk[g] \in Seq(Nat) /\ streams[g] \in Seq(Stream) /\ Count(g) \in Nat
           /\ ckpt \in Nat /\ Within(disk[g], streams[g], Count(g), ckpt) /\ UpTo(disk[g], ckpt)
<1>1. /\ disk[g] \in Seq(Nat) /\ streams[g] \in Seq(Stream) /\ ckpt \in Nat
      /\ Within(disk[g], streams[g], Count(g), ckpt)
  BY FileType, ZenonT(30) DEF FilesInv, Fitting
<1>2. Count(g) \in Nat
  BY WrittenGrows, FilesAssumption DEF NumInfos
<1> QED BY <1>1, <1>2, ZenonT(30) DEF Within

(* pool_info.img cannot be opened.                                          *)
LEMMA OpenPoolFailsStep == FilesInv /\ OpenPoolFails => FilesInv'
<1> SUFFICES ASSUME FilesInv, OpenPoolFails PROVE FilesInv'
  OBVIOUS
<1>1. /\ pc = "run" /\ ckpt < MaxCheckpoints /\ ckpt' = ckpt + 1 /\ disk' = disk
      /\ pc' = "open_dump" /\ next' = 1 /\ mixed' = (left \/ mixed) /\ saved' = FALSE
      /\ left' = left /\ streams' = streams
  BY DEF OpenPoolFails
<1>2. FileTypes /\ Opens /\ InterpOpens /\ Unmixed /\ InterpLast /\ FreshRecords
  BY DEF FilesInv
<1>3. FileTypes'
  BY <1>1, <1>2, FilesAssumption DEF FileTypes, Places, NumInfos
<1>4. Fitting'
  <2>1. ASSUME NEW g \in Files PROVE Within(disk[g], streams[g], Count(g), ckpt + 1)
    BY Each, WithinLater, ZenonT(30)
  <2> QED BY <1>1, <2>1, ZenonT(30) DEF Fitting, Count, Written
<1>5. Opens' /\ Resting' /\ InterpOpens'
  BY <1>1, <1>2 DEF Opens, PoolOpened, OpenNow, Resting, InterpOpens
<1>6. Order'
  <2>1. UpTo(disk["interp"], ckpt) /\ disk["interp"] \in Seq(Nat) /\ ckpt \in Nat
    BY Each, FileNames
  <2>2. \A i \in DOMAIN disk["interp"] : disk["interp"][i] < ckpt + 1
    BY <2>1 DEF UpTo
  <2> QED BY <1>1, <2>2 DEF Order
<1>7. Unmixed'
  BY <1>1, <1>2, FileNames, ZenonT(30) DEF Unmixed, Opens, NoStreams, OpenNow
<1>8. FreshRecords' /\ InterpLast' /\ CompletedRestorable'
  BY <1>1, <1>2, ZenonT(30) DEF FreshRecords, InterpLast, CompletedRestorable, Count, Written
<1> QED BY <1>3, <1>4, <1>5, <1>6, <1>7, <1>8 DEF FilesInv

(* init_dump opens dump.img and frame.img.                                  *)
LEMMA OpenDumpStep == FilesInv /\ OpenDump => FilesInv'
<1> SUFFICES ASSUME FilesInv, OpenDump PROVE FilesInv'
  OBVIOUS
<1>1. PICK f : f = IF pc = "open_dump" THEN "dump" ELSE "frame"
  BY ZenonT(30)
<1>2. /\ pc \in {"open_dump", "open_frame"} /\ Open(f)
      /\ pc' = IF pc = "open_dump" THEN "open_frame" ELSE "write"
      /\ ckpt' = ckpt /\ next' = next /\ left' = left /\ mixed' = mixed /\ saved' = saved
  BY <1>1 DEF OpenDump
<1>3. FileTypes /\ Fitting /\ Opens /\ InterpOpens /\ Order /\ Unmixed /\ InterpLast /\ FreshRecords
      /\ Resting /\ CompletedRestorable
  BY DEF FilesInv
<1>4. /\ disk' \in [Files -> Seq(Nat)] /\ streams' \in [Files -> Seq(Stream)]
      /\ disk'[f] = <<>> /\ streams'[f] = Append(streams[f], Fresh)
      /\ \A g \in Files : g # f => disk'[g] = disk[g] /\ streams'[g] = streams[g]
  BY <1>1, <1>2, <1>3, OpenIs, FileNames
<1>5. f \in Files /\ f \in {"dump", "frame"}
  BY <1>1, FileNames
<1>6. /\ Within(<<>>, streams'[f], Count(f), ckpt) /\ Reached(streams'[f], 0)
      /\ streams[f] = <<>> => Live(<<>>, streams'[f], 0, ckpt)
  <2>1. PICK ss : ss = streams[f]
    BY ZenonT(30)
  <2>2. ss \in Seq(Stream) /\ Count(f) \in Nat /\ Within(disk[f], ss, Count(f), ckpt) /\ ckpt \in Nat
    BY <1>5, <2>1, Each, ZenonT(30)
  <2>3. /\ Within(<<>>, Append(ss, Fresh), Count(f), ckpt) /\ Reached(Append(ss, Fresh), 0)
        /\ ss = <<>> => Live(<<>>, Append(ss, Fresh), 0, ckpt)
    BY <2>2, OpenOne, ZenonT(30)
  <2> QED BY <1>4, <2>1, <2>3, ZenonT(30)
<1>7. next = 1 /\ next - 1 = 0 /\ \A g \in {"dump", "frame"} : Written(g, 0) = 0
  BY <1>2, <1>3, WrittenEnds DEF Opens
<1>8. FileTypes' /\ Resting'
  BY <1>2, <1>3, <1>4 DEF FileTypes, Places, Resting
<1>9. Fitting'
  BY <1>2, <1>3, <1>4, <1>6, ZenonT(30) DEF Fitting, Count, Written
<1>10. InterpOpens' /\ Order'
  <2>1. /\ disk'["interp"] = disk["interp"] /\ streams'["interp"] = streams["interp"]
    BY <1>4, <1>5, FileNames
  <2> QED BY <1>2, <1>3, <2>1 DEF InterpOpens, Order
<1>11. disk'["pool_info"] = disk["pool_info"] /\ streams'["pool_info"] = streams["pool_info"]
  BY <1>4, <1>5, FileNames
<1>12. \A g \in {"dump", "frame"} :
         OpenNow(g)' => (g = f \/ (g # f /\ OpenNow(g) /\ disk'[g] = disk[g] /\ streams'[g] = streams[g]))
  BY <1>1, <1>2, <1>4, FileNames DEF OpenNow
<1>13. Opens'
  <2>1. \A g \in {"dump", "frame"} : OpenNow(g)' => Reached(streams'[g], Written(g, next' - 1))
    BY <1>2, <1>3, <1>6, <1>7, <1>12, ZenonT(30) DEF Opens
  <2>2. PoolOpened' => /\ pc' \in {"open_dump", "open_frame", "write"}
                       /\ Live(disk'["pool_info"], streams'["pool_info"], next' - 1, ckpt')
    BY <1>2, <1>3, <1>11 DEF Opens, PoolOpened
  <2> QED BY <1>2, <1>7, <2>1, <2>2 DEF Opens, Written
<1>14. Unmixed'
  <2>1. ~ mixed => \A g \in {"dump", "frame"} : streams[g] # <<>> => OpenNow(g)
    BY <1>2, <1>3 DEF Unmixed
  <2>2. ~ OpenNow(f) /\ OpenNow(f)'
    BY <1>1, <1>2 DEF OpenNow
  <2>3. \A g \in {"dump", "frame"} : OpenNow(g) => OpenNow(g)'
    BY <1>2 DEF OpenNow
  <2>4. ASSUME ~ mixed, NEW g \in {"dump", "frame"}, OpenNow(g)'
        PROVE  Live(disk'[g], streams'[g], Written(g, next' - 1), ckpt')
    <3>1. CASE g = f
      BY <1>2, <1>4, <1>5, <1>6, <1>7, <2>1, <2>2, <2>4, <3>1, ZenonT(30)
    <3>2. CASE g # f
      BY <1>2, <1>3, <1>12, <2>4, <3>2, ZenonT(30) DEF Unmixed
    <3> QED BY <3>1, <3>2
  <2>5. ASSUME ~ mixed, NEW g \in {"dump", "frame"}, streams'[g] # <<>>
        PROVE  OpenNow(g)'
    BY <1>4, <2>1, <2>2, <2>3, <2>5, FileNames, ZenonT(30)
  <2> QED BY <1>2, <2>4, <2>5, ZenonT(30) DEF Unmixed, Written
<1>15. FreshRecords' /\ InterpLast' /\ CompletedRestorable'
  <2>1. \A g \in {"dump", "frame"} : disk'[g] = <<>> \/ disk'[g] = disk[g]
    BY <1>4, FileNames, ZenonT(30)
  <2>2. FreshRecords'
    <3>1. DOMAIN <<>> = {}
      OBVIOUS
    <3> QED BY <1>2, <1>3, <1>11, <2>1, <3>1, ZenonT(30) DEF FreshRecords
  <2>3. disk'["interp"] = disk["interp"]
    BY <1>4, <1>5, FileNames
  <2>4. InterpLast'
    BY <1>3, <1>11, <2>3 DEF InterpLast, Count, Written
  <2> QED BY <1>2, <1>3, <2>2, <2>4 DEF CompletedRestorable, Resting
<1> QED BY <1>8, <1>9, <1>10, <1>13, <1>14, <1>15 DEF FilesInv
----------------------------------------------------------------------------
(* The parts of the invariant that say nothing of a process that is gone.   *)
LEMMA Died ==
    ASSUME FilesInv, pc' = "none", streams' = NoStreams, UNCHANGED <<ckpt, next>>,
           disk' \in [Files -> Seq(Nat)],
           \A g \in Files : Len(disk'[g]) <= Count(g) /\ UpTo(disk'[g], ckpt)
    PROVE  FileTypes' /\ Fitting' /\ Opens' /\ InterpOpens' /\ Order' /\ Unmixed' /\ Resting'
<1>1. FileTypes
  BY DEF FilesInv
<1>2. \A g \in Files : streams'[g] = <<>>
  BY DEF NoStreams
<1>3. DOMAIN <<>> = {} /\ <<>> \in Seq(Stream)
  OBVIOUS
<1>4. streams' \in [Files -> Seq(Stream)]
  BY <1>3, ZenonT(30) DEF NoStreams
<1>5. FileTypes'
  BY <1>1, <1>4 DEF FileTypes, Places
<1>6. Fitting'
  <2>1. ASSUME NEW g \in Files PROVE Within(disk'[g], streams'[g], Count(g), ckpt)
    BY <1>2, <1>3, ZenonT(30) DEF Within
  <2> QED BY <2>1, ZenonT(30) DEF Fitting, Count, Written
<1>7. InterpOpens' /\ Order' /\ Unmixed' /\ Resting'
  BY <1>2, FileNames DEF InterpOpens, Order, Unmixed, Resting, OpenNow
<1>8. ~ PoolOpened'
  BY <1>2, FileNames, ZenonT(30) DEF PoolOpened
<1>9. Opens'
  BY <1>8 DEF Opens, OpenNow
<1> QED BY <1>5, <1>6, <1>7, <1>9

(* The properties say nothing of the process.                               *)
LEMMA SameFiles ==
    ASSUME FilesInv, UNCHANGED <<disk, ckpt, mixed, saved>>
    PROVE  FreshRecords' /\ InterpLast' /\ CompletedRestorable'
BY DEF FilesInv, FreshRecords, InterpLast, CompletedRestorable, Count, Written

(* The process is killed.                                                   *)
LEMMA KillStep == FilesInv /\ Kill => FilesInv'
<1> SUFFICES ASSUME FilesInv, Kill PROVE FilesInv'
  OBVIOUS
<1>1. /\ pc' = "none" /\ streams' = NoStreams
      /\ ckpt' = ckpt /\ next' = next /\ disk' = disk /\ mixed' = mixed /\ saved' = saved
  BY DEF Kill
<1>2. disk \in [Files -> Seq(Nat)]
  BY DEF FilesInv, FileTypes
<1>3. \A g \in Files : Len(disk[g]) <= Count(g) /\ UpTo(disk[g], ckpt)
  BY Each, ZenonT(30) DEF Within
<1>4. FileTypes' /\ Fitting' /\ Opens' /\ InterpOpens' /\ Order' /\ Unmixed' /\ Resting'
  BY <1>1, <1>2, <1>3, Died
<1> QED BY <1>1, <1>4, SameFiles DEF FilesInv

(* What is flushed has the types.                                           *)
LEMMA FlushTypes ==
    ASSUME FilesInv
    PROVE  /\ FlushAll \in [Files -> Seq(Nat)]
           /\ \A g \in Files : Len(FlushAll[g]) <= Count(g) /\ UpTo(FlushAll[g], ckpt)
<1>1. ASSUME NEW g \in Files
      PROVE  FlushAll[g] \in Seq(Nat) /\ Len(FlushAll[g]) <= Count(g) /\ UpTo(FlushAll[g], ckpt)
  BY Each, FlushFits, ZenonT(30) DEF FilesInv
<1>2. FlushAll = [f \in Files |-> FlushAll[f]]
  BY FlushIs, ZenonT(30)
<1>3. FlushAll \in [Files -> Seq(Nat)]
  BY <1>1, <1>2, ZenonT(30)
<1> QED BY <1>1, <1>3

(* What FlushAll does to a file without a stream, and to one whose stream   *)
(* is the only one.                                                         *)
LEMMA FlushEach ==
    ASSUME FilesInv, NEW f \in Files
    PROVE  /\ streams[f] = <<>> => FlushAll[f] = disk[f]
           /\ \A n : Live(disk[f], streams[f], n, ckpt) => FlushAll[f] = All(n, ckpt)
BY Each, FlushNone, FlushLive, ZenonT(30) DEF FilesInv

(* init_dump exits.                                                         *)
LEMMA OpenDumpFailsStep == FilesInv /\ OpenDumpFails => FilesInv'
<1> SUFFICES ASSUME FilesInv, OpenDumpFails PROVE FilesInv'
  OBVIOUS
<1>1. /\ pc \in {"open_dump", "open_frame"} /\ pc' = "none" /\ streams' = NoStreams
      /\ disk' = FlushAll
      /\ ckpt' = ckpt /\ next' = next /\ mixed' = mixed /\ saved' = saved
  BY DEF OpenDumpFails
<1>2. FileTypes' /\ Fitting' /\ Opens' /\ InterpOpens' /\ Order' /\ Unmixed' /\ Resting'
  BY <1>1, FlushTypes, Died
<1>3. Opens /\ InterpOpens /\ Unmixed /\ Resting /\ FreshRecords /\ InterpLast
  BY DEF FilesInv
<1>4. next = 1 /\ next - 1 = 0 /\ \A g \in {"dump", "frame"} : Written(g, 0) = 0
  BY <1>1, <1>3, WrittenEnds DEF Opens
<1>5. All(0, ckpt) = <<>>
  BY DEF All
<1>6. disk'["interp"] = disk["interp"]
  BY <1>1, <1>3, FlushEach, FileNames, ZenonT(30) DEF InterpOpens
<1>7. disk'["pool_info"] = <<>> \/ disk'["pool_info"] = disk["pool_info"]
  <2>1. CASE PoolOpened
    <3>1. Live(disk["pool_info"], streams["pool_info"], 0, ckpt)
      BY <1>3, <1>4, <2>1, ZenonT(30) DEF Opens
    <3> QED BY <1>1, <1>5, <3>1, FlushEach, FileNames, ZenonT(30)
  <2>2. CASE ~ PoolOpened
    BY <1>1, <2>2, FlushEach, FileNames, ZenonT(30) DEF PoolOpened
  <2> QED BY <2>1, <2>2
<1>8. ASSUME ~ mixed, NEW g \in {"dump", "frame"}
      PROVE  disk'[g] = <<>> \/ disk'[g] = disk[g]
  <2>1. CASE streams[g] = <<>>
    BY <1>1, <2>1, FlushEach, FileNames, ZenonT(30)
  <2>2. CASE streams[g] # <<>>
    <3>1. OpenNow(g)
      BY <1>1, <1>3, <1>8, <2>2 DEF Unmixed
    <3>2. Live(disk[g], streams[g], 0, ckpt)
      BY <1>3, <1>4, <1>8, <3>1, ZenonT(30) DEF Unmixed
    <3> QED BY <1>1, <1>5, <3>2, FlushEach, FileNames, ZenonT(30)
  <2> QED BY <2>1, <2>2
<1>9. FreshRecords'
  <2>1. DOMAIN <<>> = {}
    OBVIOUS
  <2> QED BY <1>1, <1>3, <1>7, <1>8, <2>1, ZenonT(30) DEF FreshRecords
<1>10. InterpLast'
  BY <1>3, <1>6, <1>7, ZenonT(30) DEF InterpLast, Count, Written
<1>11. CompletedRestorable'
  BY <1>1, <1>3 DEF CompletedRestorable, Resting
<1> QED BY <1>2, <1>9, <1>10, <1>11 DEF FilesInv

(* A file of records of the last checkpoint.                                *)
LEMMA AllFresh ==
    ASSUME FilesInv, NEW n \in Nat, NEW p, UpTo(p, ckpt), p \in Seq(Nat)
    PROVE  p # <<>> => \A i \in DOMAIN All(n, ckpt) : All(n, ckpt)[i] >= p[1]
<1>1. ckpt \in Nat
  BY Each, FileNames
<1>2. DOMAIN All(n, ckpt) = 1 .. n /\ \A i \in 1 .. n : All(n, ckpt)[i] = ckpt
  BY <1>1, AllIs, ZenonT(30)
<1>3. p # <<>> => p[1] \in Nat /\ p[1] <= ckpt
  BY DEF UpTo
<1> QED BY <1>1, <1>2, <1>3

(* exit(0) after interp.img is closed.                                      *)
LEMMA ExitStep == FilesInv /\ Exit => FilesInv'
<1> SUFFICES ASSUME FilesInv, Exit PROVE FilesInv'
  OBVIOUS
<1>1. /\ pc = "exit" /\ pc' = "none" /\ streams' = NoStreams /\ disk' = FlushAll
      /\ ckpt' = ckpt /\ next' = next /\ mixed' = mixed /\ saved' = TRUE
  BY DEF Exit
<1>2. FileTypes' /\ Fitting' /\ Opens' /\ InterpOpens' /\ Order' /\ Unmixed' /\ Resting'
  BY <1>1, FlushTypes, Died
<1>3. Opens /\ InterpOpens /\ Unmixed /\ Order
  BY DEF FilesInv
<1>4. /\ streams["pool_info"] = <<>> /\ streams["interp"] = <<>>
      /\ next = NumInfos + 1 /\ disk["pool_info"] = All(NumInfos, ckpt) /\ disk["interp"] = All(1, ckpt)
  BY <1>1, <1>3 DEF Opens, PoolOpened, InterpOpens, Order
<1>5. disk'["pool_info"] = All(NumInfos, ckpt) /\ disk'["interp"] = All(1, ckpt)
  BY <1>1, <1>4, FlushEach, FileNames, ZenonT(30)
<1>6. NumInfos \in Nat /\ next - 1 = NumInfos /\ ckpt \in Nat
  BY <1>4, Each, FileNames, FilesAssumption DEF NumInfos
<1>7. ASSUME ~ mixed, NEW g \in {"dump", "frame"}
      PROVE  disk'[g] = All(Count(g), ckpt)
  <2>1. OpenNow(g)
    BY <1>1 DEF OpenNow
  <2>2. Live(disk[g], streams[g], Written(g, NumInfos), ckpt)
    BY <1>3, <1>6, <1>7, <2>1, ZenonT(30) DEF Unmixed
  <2> QED BY <1>1, <2>2, FlushEach, FileNames, ZenonT(30) DEF Count
<1>8. \A g \in Files : Count(g) \in Nat
  BY Each
<1>9. FreshRecords'
  <2>1. UpTo(disk'["pool_info"], ckpt) /\ disk'["pool_info"] \in Seq(Nat)
    BY <1>5, <1>6, AllIs
  <2>2. ASSUME ~ mixed, disk'["pool_info"] # <<>>, NEW g \in {"dump", "frame"}
        PROVE  \A i \in DOMAIN disk'[g] : disk'[g][i] >= disk'["pool_info"][1]
    <3>1. Count(g) \in Nat
      BY <1>8, FileNames
    <3>2. \A i \in DOMAIN All(Count(g), ckpt) : All(Count(g), ckpt)[i] >= disk'["pool_info"][1]
      BY <2>1, <2>2, <3>1, AllFresh, ZenonT(30)
    <3> QED BY <1>7, <2>2, <3>2, ZenonT(30)
  <2> QED BY <1>1, <2>2, ZenonT(30) DEF FreshRecords
<1>10. InterpLast'
  <2>1. Len(disk'["pool_info"]) = NumInfos
    BY <1>5, <1>6, AllIs
  <2> QED BY <2>1, WrittenEnds DEF InterpLast, Count, Written
<1>11. CompletedRestorable'
  <2>1. ASSUME ~ mixed, NEW g \in Files PROVE disk'[g] = All(Count(g), ckpt)
    BY <1>5, <1>7, <2>1, WrittenEnds, FileNames
  <2> QED BY <1>1, <2>1, ZenonT(30) DEF CompletedRestorable, All, Count, Written
<1> QED BY <1>2, <1>9, <1>10, <1>11 DEF FilesInv
----------------------------------------------------------------------------
(* A file and its streams after an fwrite of a record of checkpoint c.      *)
OutOf(d, ss, c, n) == Overwrite(d, ss[Len(ss)].at, SubSeq(Append(ss[Len(ss)].buf, c), 1, n))

PutOf(ss, c, n) == [ss EXCEPT ![Len(ss)] = Put(@, c, n)]

(* fwrite: the newest stream has one record more.                           *)
LEMMA PutOne ==
    ASSUME NEW d \in Seq(Nat), NEW ss \in Seq(Stream), NEW k \in Nat, NEW lim \in Nat, NEW c \in Nat,
           Within(d, ss, lim, c), Reached(ss, k), k + 1 <= lim,
           NEW n \in 0 .. Len(ss[Len(ss)].buf) + 1
    PROVE  /\ OutOf(d, ss, c, n) \in Seq(Nat) /\ PutOf(ss, c, n) \in Seq(Stream)
           /\ Within(OutOf(d, ss, c, n), PutOf(ss, c, n), lim, c)
           /\ Reached(PutOf(ss, c, n), k + 1) /\ PutOf(ss, c, n) # <<>>
           /\ Live(d, ss, k, c) => Live(OutOf(d, ss, c, n), PutOf(ss, c, n), k + 1, c)
<1>1. PICK l : l = Len(ss)
  BY ZenonT(30)
<1>2. l \in Nat /\ l \in DOMAIN ss /\ l >= 1 /\ DOMAIN ss = 1 .. l
  BY <1>1 DEF Reached
<1>3. PICK s \in Stream : s = ss[l]
  BY <1>1, <1>2
<1>4. s.at \in Nat /\ s.buf \in Seq(Nat) /\ Len(s.buf) \in Nat
  BY DEF Stream
<1>5. s.at + Len(s.buf) = k /\ UpTo(s.buf, c) /\ n \in 0 .. Len(s.buf) + 1
  BY <1>1, <1>2, <1>3, ZenonT(30) DEF Reached, Within
<1>6. PICK p : p = Put(s, c, n)
  BY ZenonT(30)
<1>7. PICK b : b = SubSeq(Append(s.buf, c), 1, n)
  BY ZenonT(30)
<1>8. /\ p \in Stream /\ UpTo(p.buf, c) /\ p.at + Len(p.buf) = s.at + Len(s.buf) + 1
      /\ b \in Seq(Nat) /\ Len(b) = n /\ UpTo(b, c) /\ p.at = s.at + n
  BY <1>5, <1>6, <1>7, PutFits, ZenonT(30)
<1>9. PICK tt : tt = PutOf(ss, c, n)
  BY ZenonT(30)
<1>10. tt = [ss EXCEPT ![l] = p]
  BY <1>1, <1>3, <1>6, <1>9, ZenonT(30) DEF PutOf
<1>11. /\ tt \in Seq(Stream) /\ Len(tt) = l /\ DOMAIN tt = 1 .. l /\ tt[l] = p
       /\ \A i \in 1 .. l : i # l => tt[i] = ss[i]
  BY <1>2, <1>8, <1>10
<1>12. PICK e : e = OutOf(d, ss, c, n)
  BY ZenonT(30)
<1>13. e = Overwrite(d, s.at, b)
  BY <1>1, <1>3, <1>7, <1>12, ZenonT(30) DEF OutOf
<1>14. s.at + Len(b) <= lim /\ Len(d) <= lim /\ UpTo(d, c)
  BY <1>4, <1>5, <1>8 DEF Within
<1>15. e \in Seq(Nat) /\ Len(e) <= lim /\ UpTo(e, c)
  BY <1>4, <1>8, <1>13, <1>14, OverwriteFits, ZenonT(30)
<1>16. p.at + Len(p.buf) = k + 1
  BY <1>5, <1>8
<1>17. \A i \in 1 .. l : tt[i].at + Len(tt[i].buf) <= lim /\ UpTo(tt[i].buf, c)
  BY <1>2, <1>8, <1>11, <1>16, ZenonT(30) DEF Within
<1>18. Within(e, tt, lim, c)
  BY <1>11, <1>15, <1>17, ZenonT(30) DEF Within
<1>19. tt # <<>>
  BY <1>2, <1>11
<1>20. Reached(tt, k + 1)
  BY <1>11, <1>16, <1>19, ZenonT(30) DEF Reached
<1>21. ASSUME Live(d, ss, k, c) PROVE Live(e, tt, k + 1, c)
  <2>1. l = 1 /\ s.buf = All(Len(s.buf), c) /\ d = All(s.at, c)
    BY <1>1, <1>3, <1>21, ZenonT(30) DEF Live
  <2>2. p.buf = All(Len(p.buf), c) /\ b = All(n, c)
    BY <1>5, <1>6, <1>7, <2>1, PutAll, ZenonT(30)
  <2>3. n \in Nat
    BY <1>4, <1>5
  <2>4. e = All(s.at + n, c)
    BY <1>4, <1>13, <2>1, <2>2, <2>3, OverwriteAll, ZenonT(30)
  <2> QED BY <1>8, <1>11, <1>16, <2>1, <2>2, <2>4, ZenonT(30) DEF Live
<1> QED BY <1>9, <1>11, <1>12, <1>15, <1>18, <1>19, <1>20, <1>21, ZenonT(30)

(* Without pool_info.img the process crashes at its first entry.            *)
LEMMA WriteCrashesStep == FilesInv /\ WriteCrashes => FilesInv'
<1> SUFFICES ASSUME FilesInv, WriteCrashes PROVE FilesInv'
  OBVIOUS
<1>1. PICK n \in {0, 1} : disk' = [disk EXCEPT ![FileOf(1)] = Out(FileOf(1), ckpt, n)]
  BY ZenonT(30) DEF WriteCrashes
<1>2. /\ pc = "write" /\ ~ PoolOpened /\ pc' = "none" /\ streams' = NoStreams
      /\ ckpt' = ckpt /\ next' = next /\ mixed' = mixed /\ saved' = saved
  BY DEF WriteCrashes
<1>3. FileTypes /\ Opens /\ Unmixed /\ Resting /\ FreshRecords /\ InterpLast
  BY DEF FilesInv
<1>4. next = 1 /\ next - 1 = 0 /\ FileOf(1) = "frame" /\ Count("frame") >= 1 /\ Written("frame", 0) = 0
  BY <1>2, <1>3, FilesAssumption DEF Opens, FileTypes, NumInfos, FileOf, Count, Written
<1>5. PICK d : d = disk["frame"]
  BY ZenonT(30)
<1>6. PICK ss : ss = streams["frame"]
  BY ZenonT(30)
<1>7. /\ d \in Seq(Nat) /\ ss \in Seq(Stream) /\ Count("frame") \in Nat /\ ckpt \in Nat
      /\ Within(d, ss, Count("frame"), ckpt)
  BY <1>5, <1>6, Each, FileNames, ZenonT(30)
<1>8. OpenNow("frame")
  BY <1>2 DEF OpenNow
<1>9. Reached(ss, 0) /\ (~ mixed => Live(d, ss, 0, ckpt))
  BY <1>3, <1>4, <1>5, <1>6, <1>8, ZenonT(30) DEF Opens, Unmixed
<1>10. n \in 0 .. Len(ss[Len(ss)].buf) + 1
  <2>1. ss # <<>> /\ Len(ss) \in DOMAIN ss
    BY <1>7, <1>9 DEF Reached
  <2>2. PICK s \in Stream : s = ss[Len(ss)]
    BY <1>7, <2>1
  <2>3. Len(s.buf) \in Nat
    BY DEF Stream
  <2>4. n \in 0 .. Len(s.buf) + 1
    BY <1>1, <2>3
  <2> QED BY <2>2, <2>4
<1>11. PICK e : e = OutOf(d, ss, ckpt, n)
  BY ZenonT(30)
<1>12. PICK tt : tt = PutOf(ss, ckpt, n)
  BY ZenonT(30)
<1>13. e \in Seq(Nat) /\ Within(e, tt, Count("frame"), ckpt) /\ (~ mixed => Live(e, tt, 1, ckpt))
  <2>1. 0 + 1 = 1 /\ 0 \in Nat
    OBVIOUS
  <2> QED BY <1>4, <1>7, <1>9, <1>10, <1>11, <1>12, <2>1, PutOne, ZenonT(30)
<1>14. disk' = [disk EXCEPT !["frame"] = e]
  BY <1>1, <1>4, <1>5, <1>6, <1>11, ZenonT(30) DEF Out, OutOf, Current
<1>15. disk \in [Files -> Seq(Nat)]
  BY <1>3 DEF FileTypes
<1>16. disk' \in [Files -> Seq(Nat)] /\ disk'["frame"] = e
       /\ \A g \in Files : g # "frame" => disk'[g] = disk[g]
  BY <1>13, <1>14, <1>15, FileNames, ZenonT(30)
<1>17. \A g \in Files : Len(disk'[g]) <= Count(g) /\ UpTo(disk'[g], ckpt)
  BY <1>13, <1>16, Each, ZenonT(30) DEF Within
<1>18. FileTypes' /\ Fitting' /\ Opens' /\ InterpOpens' /\ Order' /\ Unmixed' /\ Resting'
  BY <1>2, <1>16, <1>17, Died
<1>19. /\ disk'["pool_info"] = disk["pool_info"] /\ disk'["interp"] = disk["interp"]
       /\ disk'["dump"] = disk["dump"]
  BY <1>16, FileNames
<1>20. FreshRecords'
  <2>1. ASSUME ~ mixed, disk["pool_info"] # <<>>, NEW i \in DOMAIN e
        PROVE  e[i] >= disk["pool_info"][1]
    <3>1. UpTo(disk["pool_info"], ckpt) /\ disk["pool_info"] \in Seq(Nat)
      BY Each, FileNames
    <3>2. PICK a : a = tt[1].at
      BY ZenonT(30)
    <3>3. e = All(a, ckpt)
      BY <1>13, <2>1, <3>2, ZenonT(30) DEF Live
    <3>4. \A j \in DOMAIN e : e[j] = ckpt
      BY <3>3 DEF All
    <3>5. disk["pool_info"][1] <= ckpt
      BY <2>1, <3>1 DEF UpTo
    <3> QED BY <1>7, <2>1, <3>4, <3>5, <3>1
  <2> QED BY <1>2, <1>3, <1>16, <1>19, <2>1 DEF FreshRecords
<1>21. InterpLast' /\ CompletedRestorable'
  BY <1>2, <1>3, <1>19 DEF InterpLast, CompletedRestorable, Resting, Count, Written
<1> QED BY <1>18, <1>20, <1>21 DEF FilesInv
(* dump_data writes a record and dump_runtime its entry.                    *)
LEMMA WriteInfoStep == FilesInv /\ WriteInfo => FilesInv'
<1> SUFFICES ASSUME FilesInv, WriteInfo PROVE FilesInv'
  OBVIOUS
<1>1. PICK f : f = FileOf(next)
  BY ZenonT(30)
<1>2. PICK n \in 0 .. Len(Current(f).buf) + 1, m \in 0 .. Len(Current("pool_info").buf) + 1 :
         /\ disk' = [disk EXCEPT ![f] = Out(f, ckpt, n), !["pool_info"] = Out("pool_info", ckpt, m)]
         /\ streams' = [streams EXCEPT ![f] = PutLast(f, ckpt, n),
                                       !["pool_info"] = PutLast("pool_info", ckpt, m)]
  BY <1>1, ZenonT(30) DEF WriteInfo
<1>3. /\ pc = "write" /\ PoolOpened /\ next <= NumInfos /\ next' = next + 1
      /\ pc' = pc /\ ckpt' = ckpt /\ left' = left /\ mixed' = mixed /\ saved' = saved
  BY DEF WriteInfo
<1>4. FileTypes /\ Opens /\ InterpOpens /\ Unmixed /\ Resting /\ Order
  BY DEF FilesInv
<1>5. disk \in [Files -> Seq(Nat)] /\ streams \in [Files -> Seq(Stream)]
  BY <1>4 DEF FileTypes
<1>6. /\ next \in Nat /\ next >= 1 /\ next \in 1 .. NumInfos /\ next - 1 \in Nat
      /\ next - 1 \in 0 .. NumInfos /\ next \in 0 .. NumInfos
      /\ (next - 1) + 1 = next /\ next' - 1 = next /\ NumInfos \in Nat
  BY <1>3, <1>4, FilesAssumption DEF FileTypes, NumInfos
<1>7. f \in {"dump", "frame"} /\ f \in Files /\ f # "pool_info"
  BY <1>1, <1>6, FileNames
<1>8. OpenNow("dump") /\ OpenNow("frame") /\ OpenNow("dump")' /\ OpenNow("frame")'
  BY <1>3 DEF OpenNow
<1>9. /\ Written(f, next) = Written(f, next - 1) + 1
      /\ \A g \in {"dump", "frame"} : g # f => Written(g, next) = Written(g, next - 1)
  BY <1>1, <1>6, WrittenNext
<1>10. PICK e : e = OutOf(disk[f], streams[f], ckpt, n)
  BY ZenonT(30)
<1>11. PICK tt : tt = PutOf(streams[f], ckpt, n)
  BY ZenonT(30)
<1>12. /\ e \in Seq(Nat) /\ tt \in Seq(Stream) /\ Within(e, tt, Count(f), ckpt)
       /\ Reached(tt, Written(f, next)) /\ tt # <<>>
       /\ Live(disk[f], streams[f], Written(f, next - 1), ckpt) => Live(e, tt, Written(f, next), ckpt)
  <2>1. PICK k \in Nat : k = Written(f, next - 1)
    BY <1>6, <1>7, WrittenGrows
  <2>2. k + 1 <= Count(f) /\ Written(f, next) = k + 1
    BY <1>6, <1>7, <1>9, <2>1, WrittenGrows
  <2>3. Reached(streams[f], k)
    BY <1>4, <1>7, <1>8, <2>1, ZenonT(30) DEF Opens
  <2>4. n \in 0 .. Len(streams[f][Len(streams[f])].buf) + 1
    BY <1>2 DEF Current
  <2>5. PICK d : d = disk[f]
    BY ZenonT(30)
  <2>6. PICK ss : ss = streams[f]
    BY ZenonT(30)
  <2>7. /\ d \in Seq(Nat) /\ ss \in Seq(Stream) /\ Count(f) \in Nat /\ ckpt \in Nat
        /\ Within(d, ss, Count(f), ckpt)
    BY <1>7, <2>5, <2>6, Each, ZenonT(30)
  <2>8. /\ OutOf(d, ss, ckpt, n) \in Seq(Nat) /\ PutOf(ss, ckpt, n) \in Seq(Stream)
        /\ Within(OutOf(d, ss, ckpt, n), PutOf(ss, ckpt, n), Count(f), ckpt)
        /\ Reached(PutOf(ss, ckpt, n), k + 1) /\ PutOf(ss, ckpt, n) # <<>>
        /\ Live(d, ss, k, ckpt) => Live(OutOf(d, ss, ckpt, n), PutOf(ss, ckpt, n), k + 1, ckpt)
    BY <2>2, <2>3, <2>4, <2>6, <2>7, PutOne, ZenonT(30)
  <2> QED BY <1>10, <1>11, <2>1, <2>2, <2>5, <2>6, <2>8, ZenonT(30)
<1>13. PICK q : q = OutOf(disk["pool_info"], streams["pool_info"], ckpt, m)
  BY ZenonT(30)
<1>14. PICK pp : pp = PutOf(streams["pool_info"], ckpt, m)
  BY ZenonT(30)
<1>15. /\ q \in Seq(Nat) /\ pp \in Seq(Stream) /\ Within(q, pp, Count("pool_info"), ckpt)
       /\ pp # <<>> /\ Live(q, pp, next, ckpt)
  <2>1. Live(disk["pool_info"], streams["pool_info"], next - 1, ckpt)
    BY <1>3, <1>4 DEF Opens
  <2>2. PICK d : d = disk["pool_info"]
    BY ZenonT(30)
  <2>3. PICK ss : ss = streams["pool_info"]
    BY ZenonT(30)
  <2>4. /\ d \in Seq(Nat) /\ ss \in Seq(Stream) /\ Count("pool_info") \in Nat /\ ckpt \in Nat
        /\ Within(d, ss, Count("pool_info"), ckpt)
    BY <2>2, <2>3, Each, FileNames, ZenonT(30)
  <2>5. PICK k \in Nat : k = next - 1
    BY <1>6
  <2>6. k + 1 <= Count("pool_info") /\ k + 1 = next
    BY <1>3, <1>6, <2>5, WrittenEnds
  <2>7. Live(d, ss, k, ckpt)
    BY <2>1, <2>2, <2>3, <2>5, ZenonT(30)
  <2>8. ss # <<>>
    BY <1>3, <2>3, ZenonT(30) DEF PoolOpened
  <2>9. Reached(ss, k)
    BY <2>7, <2>8, ZenonT(30) DEF Reached, Live
  <2>10. m \in 0 .. Len(ss[Len(ss)].buf) + 1
    BY <1>2, <2>3, ZenonT(30) DEF Current
  <2>11. /\ OutOf(d, ss, ckpt, m) \in Seq(Nat) /\ PutOf(ss, ckpt, m) \in Seq(Stream)
         /\ Within(OutOf(d, ss, ckpt, m), PutOf(ss, ckpt, m), Count("pool_info"), ckpt)
         /\ PutOf(ss, ckpt, m) # <<>>
         /\ Live(OutOf(d, ss, ckpt, m), PutOf(ss, ckpt, m), k + 1, ckpt)
    BY <2>4, <2>6, <2>7, <2>9, <2>10, PutOne, ZenonT(30)
  <2> QED BY <1>13, <1>14, <2>2, <2>3, <2>6, <2>11, ZenonT(30)
<1>16. /\ disk' = [disk EXCEPT ![f] = e, !["pool_info"] = q]
       /\ streams' = [streams EXCEPT ![f] = tt, !["pool_info"] = pp]
  <2>1. e = Out(f, ckpt, n) /\ q = Out("pool_info", ckpt, m)
    BY <1>10, <1>13, ZenonT(30) DEF Out, OutOf, Current
  <2>2. tt = PutLast(f, ckpt, n) /\ pp = PutLast("pool_info", ckpt, m)
    BY <1>11, <1>14, ZenonT(30) DEF PutLast, PutOf
  <2> QED BY <1>2, <2>1, <2>2, ZenonT(30)
<1>17. /\ disk' \in [Files -> Seq(Nat)] /\ streams' \in [Files -> Seq(Stream)]
       /\ disk'[f] = e /\ streams'[f] = tt /\ disk'["pool_info"] = q /\ streams'["pool_info"] = pp
       /\ \A g \in Files : g # f /\ g # "pool_info" => disk'[g] = disk[g] /\ streams'[g] = streams[g]
  BY <1>5, <1>7, <1>12, <1>15, <1>16, FileNames, ZenonT(30)
<1>18. FileTypes' /\ Resting'
  BY <1>3, <1>4, <1>6, <1>17 DEF FileTypes, Resting
<1>19. Fitting'
  <2>1. ASSUME NEW g \in Files PROVE Within(disk'[g], streams'[g], Count(g), ckpt)
    BY <1>12, <1>15, <1>17, Each, ZenonT(30)
  <2> QED BY <1>3, <2>1, ZenonT(30) DEF Fitting, Count, Written
<1>20. disk'["interp"] = disk["interp"] /\ streams'["interp"] = streams["interp"]
  BY <1>7, <1>17, FileNames
<1>21. InterpOpens' /\ Order'
  BY <1>3, <1>4, <1>20 DEF InterpOpens, Order
<1>22. Opens'
  <2>1. \A g \in {"dump", "frame"} : OpenNow(g)' => Reached(streams'[g], Written(g, next' - 1))
    <3>1. ASSUME NEW g \in {"dump", "frame"} PROVE Reached(streams'[g], Written(g, next))
      <4>1. CASE g = f
        BY <1>12, <1>17, <4>1
      <4>2. CASE g # f
        <5>1. streams'[g] = streams[g] /\ OpenNow(g)
          BY <1>8, <1>17, <4>2, FileNames
        <5> QED BY <1>4, <1>9, <4>2, <5>1 DEF Opens
      <4> QED BY <4>1, <4>2
    <3> QED BY <1>6, <3>1
  <2>2. PoolOpened'
    BY <1>15, <1>17 DEF PoolOpened
  <2>3. Live(disk'["pool_info"], streams'["pool_info"], next' - 1, ckpt')
    BY <1>3, <1>6, <1>15, <1>17
  <2> QED BY <1>3, <2>1, <2>2, <2>3 DEF Opens, Written
<1>23. ASSUME ~ mixed, NEW g \in {"dump", "frame"}
       PROVE  Live(disk'[g], streams'[g], Written(g, next), ckpt)
  <2>1. Live(disk[g], streams[g], Written(g, next - 1), ckpt)
    BY <1>4, <1>8, <1>23 DEF Unmixed
  <2>2. CASE g = f
    BY <1>12, <1>17, <2>1, <2>2
  <2>3. CASE g # f
    BY <1>9, <1>17, <2>1, <2>3, FileNames, ZenonT(30)
  <2> QED BY <2>2, <2>3
<1>24. Unmixed'
  <2>1. ASSUME ~ mixed, NEW g \in {"dump", "frame"}
        PROVE  Live(disk'[g], streams'[g], Written(g, next' - 1), ckpt') /\ OpenNow(g)'
    BY <1>3, <1>6, <1>8, <1>23, <2>1
  <2> QED BY <1>3, <2>1, ZenonT(30) DEF Unmixed, Written
<1>25. PICK a : q = All(a, ckpt)
  BY <1>15, ZenonT(30) DEF Live
<1>26. ckpt \in Nat /\ \A x : All(x, ckpt) \in Seq(Nat) => \A i \in DOMAIN All(x, ckpt) : All(x, ckpt)[i] = ckpt
  BY Each, FileNames DEF All
<1>27. \A i \in DOMAIN q : q[i] = ckpt
  BY <1>15, <1>25, <1>26, ZenonT(30)
<1>28. q # <<>> => q[1] = ckpt
  BY <1>15, <1>27
<1>29. FreshRecords'
  <2>1. ASSUME ~ mixed, NEW g \in {"dump", "frame"}, NEW i \in DOMAIN disk'[g]
        PROVE  disk'[g][i] = ckpt
    <3>1. PICK x : disk'[g] = All(x, ckpt)
      BY <1>23, <2>1, ZenonT(30) DEF Live
    <3>2. disk'[g] \in Seq(Nat)
      BY <1>17, FileNames
    <3> QED BY <1>26, <2>1, <3>1, <3>2, ZenonT(30)
  <2>2. ckpt >= ckpt
    BY <1>26
  <2> QED BY <1>3, <1>17, <1>28, <2>1, <2>2, ZenonT(30) DEF FreshRecords
<1>30. InterpLast'
  <2>1. \A i \in DOMAIN disk["interp"] : disk["interp"][i] < ckpt
    BY <1>3, <1>4 DEF Order
  <2>2. disk["interp"] # <<>> => disk["interp"][1] < ckpt /\ disk["interp"][1] \in Nat
    BY <1>5, <2>1, FileNames
  <2> QED BY <1>17, <1>20, <1>26, <1>28, <2>2 DEF InterpLast
<1>31. CompletedRestorable'
  BY <1>3, <1>4 DEF CompletedRestorable, Resting
<1> QED BY <1>18, <1>19, <1>21, <1>22, <1>24, <1>29, <1>30, <1>31 DEF FilesInv
----------------------------------------------------------------------------
(* fclose of the only stream of f.                                          *)
LEMMA CloseOnly ==
    ASSUME FilesInv, NEW f \in Files, Len(streams[f]) = 1, NEW d \in Seq(Nat),
           disk' = [disk EXCEPT ![f] = d], streams' = Unlinked(f)
    PROVE  /\ disk' \in [Files -> Seq(Nat)] /\ streams' \in [Files -> Seq(Stream)]
           /\ disk'[f] = d /\ streams'[f] = <<>>
           /\ \A g \in Files : g # f => disk'[g] = disk[g] /\ streams'[g] = streams[g]
<1>1. disk \in [Files -> Seq(Nat)] /\ streams \in [Files -> Seq(Stream)]
  BY DEF FilesInv, FileTypes
<1>2. SubSeq(streams[f], 1, Len(streams[f]) - 1) = <<>> /\ <<>> \in Seq(Stream)
  BY <1>1
<1>3. streams' = [streams EXCEPT ![f] = <<>>]
  BY <1>1, <1>2, ZenonT(30) DEF Unlinked
<1> QED BY <1>1, <1>2, <1>3, ZenonT(30)

(* A file that is closed with n records of the last checkpoint fits.        *)
LEMMA ClosedFits ==
    ASSUME FilesInv, NEW f \in Files, NEW n \in Nat, n <= Count(f)
    PROVE  Within(All(n, ckpt), <<>>, Count(f), ckpt)
<1>1. ckpt \in Nat
  BY Each
<1>2. Len(All(n, ckpt)) = n /\ UpTo(All(n, ckpt), ckpt)
  BY <1>1, AllIs, ZenonT(30)
<1>3. DOMAIN <<>> = {}
  OBVIOUS
<1> QED BY <1>2, <1>3, ZenonT(30) DEF Within

(* dump_runtime closes pool_info.img.                                       *)
LEMMA ClosePoolStep == FilesInv /\ ClosePool => FilesInv'
<1> SUFFICES ASSUME FilesInv, ClosePool PROVE FilesInv'
  OBVIOUS
<1>1. /\ pc = "write" /\ next > NumInfos /\ pc' = "open_interp"
      /\ disk' = [disk EXCEPT !["pool_info"] = Closed("pool_info", Current("pool_info").buf)]
      /\ streams' = Unlinked("pool_info")
      /\ ckpt' = ckpt /\ next' = next /\ left' = left /\ mixed' = mixed /\ saved' = saved
  BY DEF ClosePool
<1>2. FileTypes /\ Opens /\ InterpOpens /\ Order /\ Unmixed /\ Resting /\ InterpLast /\ FreshRecords
  BY DEF FilesInv
<1>3. next = NumInfos + 1 /\ next - 1 = NumInfos /\ next > 1 /\ NumInfos \in Nat /\ ckpt \in Nat
      /\ NumInfos >= 1
  BY <1>1, <1>2, FilesAssumption DEF FileTypes, NumInfos
<1>4. PoolOpened
  BY <1>1, <1>2, <1>3 DEF Opens
<1>5. Live(disk["pool_info"], streams["pool_info"], NumInfos, ckpt)
  BY <1>2, <1>3, <1>4, ZenonT(30) DEF Opens
<1>6. PICK a : a = streams["pool_info"][1].at
  BY ZenonT(30)
<1>7. PICK l : l = Len(streams["pool_info"][1].buf)
  BY ZenonT(30)
<1>8. /\ Len(streams["pool_info"]) = 1 /\ a + l = NumInfos
      /\ streams["pool_info"][1].buf = All(l, ckpt) /\ disk["pool_info"] = All(a, ckpt)
  BY <1>5, <1>6, <1>7, ZenonT(30) DEF Live
<1>9. a \in Nat /\ l \in Nat
  <2>1. 1 \in DOMAIN streams["pool_info"]
    BY <1>2, <1>8, FileType, FileNames
  <2> QED BY <1>2, <1>6, <1>7, <2>1, FileType, FileNames, ZenonT(30)
<1>10. Closed("pool_info", Current("pool_info").buf) = All(NumInfos, ckpt)
  <2>1. Closed("pool_info", Current("pool_info").buf) = Overwrite(All(a, ckpt), a, All(l, ckpt))
    BY <1>6, <1>8, ZenonT(30) DEF Closed, Current
  <2>2. Overwrite(All(a, ckpt), a, All(l, ckpt)) = All(a + l, ckpt)
    BY <1>3, <1>9, OverwriteAll, ZenonT(30)
  <2> QED BY <1>8, <2>1, <2>2
<1>11. All(NumInfos, ckpt) \in Seq(Nat) /\ Len(All(NumInfos, ckpt)) = NumInfos
  BY <1>3, AllIs
<1>12. /\ disk' \in [Files -> Seq(Nat)] /\ streams' \in [Files -> Seq(Stream)]
       /\ disk'["pool_info"] = All(NumInfos, ckpt) /\ streams'["pool_info"] = <<>>
       /\ \A g \in Files : g # "pool_info" => disk'[g] = disk[g] /\ streams'[g] = streams[g]
  <2>1. disk' = [disk EXCEPT !["pool_info"] = All(NumInfos, ckpt)] /\ "pool_info" \in Files
    BY <1>1, <1>10, FileNames, ZenonT(30)
  <2> QED BY <1>1, <1>8, <1>11, <2>1, CloseOnly, ZenonT(30)
<1>13. \A g \in {"dump", "frame", "interp"} : disk'[g] = disk[g] /\ streams'[g] = streams[g]
  BY <1>12, FileNames, ZenonT(30)
<1>14. \A g \in {"dump", "frame"} : OpenNow(g) /\ OpenNow(g)'
  BY <1>1 DEF OpenNow
<1>15. FileTypes' /\ Resting' /\ InterpOpens' /\ Order'
  BY <1>1, <1>2, <1>3, <1>12, <1>13 DEF FileTypes, Places, Resting, InterpOpens, Order
<1>16. Fitting'
  <2>1. ASSUME NEW g \in Files PROVE Within(disk'[g], streams'[g], Count(g), ckpt)
    <3>1. NumInfos <= Count("pool_info")
      BY <1>3, WrittenEnds
    <3>2. Within(All(NumInfos, ckpt), <<>>, Count("pool_info"), ckpt)
      BY <1>3, <3>1, ClosedFits, FileNames, ZenonT(30)
    <3> QED BY <1>12, <3>2, Each, ZenonT(30)
  <2> QED BY <1>1, <2>1, ZenonT(30) DEF Fitting, Count, Written
<1>17. Opens'
  <2>1. ~ PoolOpened'
    BY <1>12, ZenonT(30) DEF PoolOpened
  <2>2. \A g \in {"dump", "frame"} : Reached(streams'[g], Written(g, next' - 1))
    BY <1>1, <1>2, <1>13, <1>14, ZenonT(30) DEF Opens
  <2> QED BY <1>1, <2>1, <2>2 DEF Opens, Written
<1>18. Unmixed'
  <2>1. ASSUME ~ mixed, NEW g \in {"dump", "frame"}
        PROVE  Live(disk'[g], streams'[g], Written(g, next' - 1), ckpt') /\ OpenNow(g)'
    BY <1>1, <1>2, <1>13, <1>14, <2>1, ZenonT(30) DEF Unmixed
  <2> QED BY <1>1, <2>1, ZenonT(30) DEF Unmixed, Written
<1>19. FreshRecords'
  <2>1. ASSUME ~ mixed, NEW g \in {"dump", "frame"}, NEW i \in DOMAIN disk'[g]
        PROVE  disk'[g][i] = ckpt
    <3>1. PICK x : disk'[g] = All(x, ckpt)
      BY <1>1, <1>2, <1>13, <1>14, <2>1, ZenonT(30) DEF Unmixed, Live
    <3> QED BY <2>1, <3>1, ZenonT(30) DEF All
  <2>2. All(NumInfos, ckpt)[1] = ckpt /\ ckpt >= ckpt
    BY <1>3 DEF All
  <2> QED BY <1>1, <1>12, <2>1, <2>2, ZenonT(30) DEF FreshRecords
<1>20. InterpLast'
  BY <1>11, <1>12, WrittenEnds DEF InterpLast, Count, Written
<1>21. CompletedRestorable'
  BY <1>1, <1>2 DEF CompletedRestorable, Resting
<1> QED BY <1>15, <1>16, <1>17, <1>18, <1>19, <1>20, <1>21 DEF FilesInv

(* interp.img is opened.                                                    *)
LEMMA OpenInterpStep == FilesInv /\ OpenInterp => FilesInv'
<1> SUFFICES ASSUME FilesInv, OpenInterp PROVE FilesInv'
  OBVIOUS
<1>1. /\ pc = "open_interp" /\ pc' = "write_interp" /\ Open("interp")
      /\ ckpt' = ckpt /\ next' = next /\ left' = left /\ mixed' = mixed /\ saved' = saved
  BY DEF OpenInterp
<1>2. FileTypes /\ Opens /\ InterpOpens /\ Order /\ Unmixed /\ Resting /\ InterpLast /\ FreshRecords
  BY DEF FilesInv
<1>3. /\ disk' \in [Files -> Seq(Nat)] /\ streams' \in [Files -> Seq(Stream)]
      /\ disk'["interp"] = <<>> /\ streams'["interp"] = Append(streams["interp"], Fresh)
      /\ \A g \in Files : g # "interp" => disk'[g] = disk[g] /\ streams'[g] = streams[g]
  BY <1>1, <1>2, OpenIs, FileNames
<1>4. \A g \in {"dump", "frame", "pool_info"} : disk'[g] = disk[g] /\ streams'[g] = streams[g]
  BY <1>3, FileNames, ZenonT(30)
<1>5. \A g \in {"dump", "frame"} : OpenNow(g) /\ OpenNow(g)'
  BY <1>1 DEF OpenNow
<1>6. streams["interp"] = <<>>
  BY <1>1, <1>2 DEF InterpOpens
<1>7. Within(<<>>, streams'["interp"], Count("interp"), ckpt) /\ streams'["interp"] = <<Fresh>>
  <2>1. PICK ss : ss = streams["interp"]
    BY ZenonT(30)
  <2>2. /\ ss \in Seq(Stream) /\ Count("interp") \in Nat /\ ckpt \in Nat
        /\ Within(disk["interp"], ss, Count("interp"), ckpt)
    BY <2>1, Each, FileNames, ZenonT(30)
  <2>3. /\ Within(<<>>, Append(ss, Fresh), Count("interp"), ckpt)
        /\ ss = <<>> => Append(ss, Fresh) = <<Fresh>>
    BY <2>2, OpenOne, ZenonT(30)
  <2> QED BY <1>3, <1>6, <2>1, <2>3, ZenonT(30)
<1>8. FileTypes' /\ Resting'
  BY <1>1, <1>2, <1>3 DEF FileTypes, Places, Resting
<1>9. InterpOpens'
  BY <1>1, <1>3, <1>7, ZenonT(30) DEF InterpOpens, Fresh
<1>10. Order'
  BY <1>1, <1>2, <1>4 DEF Order
<1>11. Fitting'
  <2>1. ASSUME NEW g \in Files PROVE Within(disk'[g], streams'[g], Count(g), ckpt)
    BY <1>3, <1>7, Each, ZenonT(30)
  <2> QED BY <1>1, <2>1, ZenonT(30) DEF Fitting, Count, Written
<1>12. Opens'
  <2>1. ~ PoolOpened'
    BY <1>1, <1>2, <1>4 DEF PoolOpened, Opens
  <2>2. \A g \in {"dump", "frame"} : Reached(streams'[g], Written(g, next' - 1))
    BY <1>1, <1>2, <1>4, <1>5, ZenonT(30) DEF Opens
  <2> QED BY <1>1, <2>1, <2>2 DEF Opens, Written
<1>13. Unmixed'
  <2>1. ASSUME ~ mixed, NEW g \in {"dump", "frame"}
        PROVE  Live(disk'[g], streams'[g], Written(g, next' - 1), ckpt') /\ OpenNow(g)'
    BY <1>1, <1>2, <1>4, <1>5, <2>1, ZenonT(30) DEF Unmixed
  <2> QED BY <1>1, <2>1, ZenonT(30) DEF Unmixed, Written
<1>14. FreshRecords'
  BY <1>1, <1>2, <1>4 DEF FreshRecords
<1>15. InterpLast' /\ CompletedRestorable'
  BY <1>1, <1>2, <1>3 DEF InterpLast, CompletedRestorable, Resting
<1> QED BY <1>8, <1>9, <1>10, <1>11, <1>12, <1>13, <1>14, <1>15 DEF FilesInv

(* interp.img cannot be opened, and the program goes on.                    *)
LEMMA OpenInterpFailsStep == FilesInv /\ OpenInterpFails => FilesInv'
<1> SUFFICES ASSUME FilesInv, OpenInterpFails PROVE FilesInv'
  OBVIOUS
<1>1. /\ pc = "open_interp" /\ pc' = "run" /\ left' = TRUE /\ disk' = disk /\ streams' = streams
      /\ ckpt' = ckpt /\ next' = next /\ mixed' = mixed /\ saved' = saved
  BY DEF OpenInterpFails
<1>2. FileTypes /\ Fitting /\ Opens /\ InterpOpens /\ Unmixed
  BY DEF FilesInv
<1>3. FileTypes' /\ Resting' /\ InterpOpens' /\ Order'
  BY <1>1, <1>2 DEF FileTypes, Places, Resting, InterpOpens, Order
<1>4. Fitting'
  BY <1>1, <1>2, ZenonT(30) DEF Fitting, Count, Written
<1>5. Opens' /\ Unmixed'
  BY <1>1, <1>2 DEF Opens, Unmixed, PoolOpened, OpenNow
<1> QED BY <1>1, <1>3, <1>4, <1>5, SameFiles DEF FilesInv

(* interp.img is written and closed.                                        *)
LEMMA WriteInterpStep == FilesInv /\ WriteInterp => FilesInv'
<1> SUFFICES ASSUME FilesInv, WriteInterp PROVE FilesInv'
  OBVIOUS
<1>1. /\ pc = "write_interp" /\ pc' = "exit"
      /\ disk' = [disk EXCEPT !["interp"] = Closed("interp", <<ckpt>>)]
      /\ streams' = Unlinked("interp")
      /\ ckpt' = ckpt /\ next' = next /\ left' = left /\ mixed' = mixed /\ saved' = saved
  BY DEF WriteInterp
<1>2. FileTypes /\ Opens /\ InterpOpens /\ Order /\ Unmixed /\ Resting /\ FreshRecords
  BY DEF FilesInv
<1>3. ckpt \in Nat /\ NumInfos \in Nat
  BY <1>2, FilesAssumption DEF FileTypes, NumInfos
<1>4. streams["interp"] = <<Fresh>> /\ disk["interp"] = <<>>
  BY <1>1, <1>2, ZenonT(30) DEF InterpOpens, Fresh
<1>5. Len(streams["interp"]) = 1 /\ streams["interp"][1] = Fresh
  BY <1>4
<1>6. Closed("interp", <<ckpt>>) = All(1, ckpt)
  <2>1. <<>> = All(0, ckpt) /\ <<ckpt>> = All(1, ckpt)
    BY DEF All
  <2>2. Closed("interp", <<ckpt>>) = Overwrite(All(0, ckpt), 0, All(1, ckpt))
    BY <1>4, <1>5, <2>1, FreshIs, ZenonT(30) DEF Closed, Current
  <2>3. Overwrite(All(0, ckpt), 0, All(1, ckpt)) = All(0 + 1, ckpt)
    BY <1>3, OverwriteAll
  <2>4. 0 + 1 = 1
    OBVIOUS
  <2> QED BY <2>2, <2>3, <2>4
<1>7. All(1, ckpt) \in Seq(Nat) /\ Len(All(1, ckpt)) = 1
  BY <1>3, AllIs, ZenonT(30)
<1>8. /\ disk' \in [Files -> Seq(Nat)] /\ streams' \in [Files -> Seq(Stream)]
      /\ disk'["interp"] = All(1, ckpt) /\ streams'["interp"] = <<>>
      /\ \A g \in Files : g # "interp" => disk'[g] = disk[g] /\ streams'[g] = streams[g]
  <2>1. disk' = [disk EXCEPT !["interp"] = All(1, ckpt)] /\ "interp" \in Files
    BY <1>1, <1>6, FileNames, ZenonT(30)
  <2> QED BY <1>1, <1>5, <1>7, <2>1, CloseOnly, ZenonT(30)
<1>9. \A g \in {"dump", "frame", "pool_info"} : disk'[g] = disk[g] /\ streams'[g] = streams[g]
  BY <1>8, FileNames, ZenonT(30)
<1>10. \A g \in {"dump", "frame"} : OpenNow(g) /\ OpenNow(g)'
  BY <1>1 DEF OpenNow
<1>11. FileTypes' /\ Resting' /\ InterpOpens' /\ Order'
  BY <1>1, <1>2, <1>8, <1>9 DEF FileTypes, Places, Resting, InterpOpens, Order
<1>12. Fitting'
  <2>1. ASSUME NEW g \in Files PROVE Within(disk'[g], streams'[g], Count(g), ckpt)
    <3>1. 1 \in Nat /\ 1 <= Count("interp")
      BY WrittenEnds
    <3>2. Within(All(1, ckpt), <<>>, Count("interp"), ckpt)
      BY <3>1, ClosedFits, FileNames, ZenonT(30)
    <3> QED BY <1>8, <3>2, Each, ZenonT(30)
  <2> QED BY <1>1, <2>1, ZenonT(30) DEF Fitting, Count, Written
<1>13. Opens'
  <2>1. ~ PoolOpened'
    BY <1>1, <1>2, <1>9 DEF PoolOpened, Opens
  <2>2. \A g \in {"dump", "frame"} : Reached(streams'[g], Written(g, next' - 1))
    BY <1>1, <1>2, <1>9, <1>10, ZenonT(30) DEF Opens
  <2> QED BY <1>1, <2>1, <2>2 DEF Opens, Written
<1>14. Unmixed'
  <2>1. ASSUME ~ mixed, NEW g \in {"dump", "frame"}
        PROVE  Live(disk'[g], streams'[g], Written(g, next' - 1), ckpt') /\ OpenNow(g)'
    BY <1>1, <1>2, <1>9, <1>10, <2>1, ZenonT(30) DEF Unmixed
  <2> QED BY <1>1, <2>1, ZenonT(30) DEF Unmixed, Written
<1>15. FreshRecords'
  BY <1>1, <1>2, <1>9 DEF FreshRecords
<1>16. InterpLast'
  <2>1. disk'["pool_info"] = All(NumInfos, ckpt) /\ Len(All(NumInfos, ckpt)) = NumInfos
    BY <1>1, <1>2, <1>3, <1>9, AllIs DEF Order
  <2> QED BY <2>1, WrittenEnds DEF InterpLast, Count, Written
<1>17. CompletedRestorable'
  BY <1>1, <1>2 DEF CompletedRestorable, Resting
<1> QED BY <1>11, <1>12, <1>13, <1>14, <1>15, <1>16, <1>17 DEF FilesInv

(* A new process restores the images, or starts beside them.                *)
LEMMA StartStep == FilesInv /\ (RestoreImages \/ Start) => FilesInv'
<1> SUFFICES ASSUME FilesInv, RestoreImages \/ Start PROVE FilesInv'
  OBVIOUS
<1>1. /\ pc = "none" /\ pc' = "run" /\ left' = FALSE /\ disk' = disk /\ streams' = streams
      /\ ckpt' = ckpt /\ next' = next /\ mixed' = mixed /\ saved' = saved
  BY DEF RestoreImages, Start
<1>2. FileTypes /\ Fitting /\ Opens /\ InterpOpens /\ Unmixed
  BY DEF FilesInv
<1>3. FileTypes' /\ Resting' /\ InterpOpens' /\ Order'
  BY <1>1, <1>2 DEF FileTypes, Places, Resting, InterpOpens, Order
<1>4. Fitting'
  BY <1>1, <1>2, ZenonT(30) DEF Fitting, Count, Written
<1>5. Opens' /\ Unmixed'
  BY <1>1, <1>2 DEF Opens, Unmixed, PoolOpened, OpenNow, NoStreams
<1> QED BY <1>1, <1>3, <1>4, <1>5, SameFiles DEF FilesInv

(* A step that changes nothing.                                             *)
LEMMA RestStep == FilesInv /\ UNCHANGED fileVars => FilesInv'
BY DEF FilesInv, fileVars, FileTypes, Fitting, Opens, InterpOpens, Order, Unmixed, Resting,
       FreshRecords, InterpLast, CompletedRestorable, PoolOpened, OpenNow, NoStreams

(* Before the first checkpoint there is no file.                            *)
LEMMA FilesInitInv == FilesInit => FilesInv
<1> SUFFICES ASSUME FilesInit PROVE FilesInv
  OBVIOUS
<1>1. \A g \in Files : disk[g] = <<>> /\ streams[g] = <<>>
  BY DEF FilesInit, NoStreams
<1>2. DOMAIN <<>> = {} /\ <<>> \in Seq(Stream) /\ <<>> \in Seq(Nat) /\ Len(<<>>) = 0
  OBVIOUS
<1>3. disk \in [Files -> Seq(Nat)] /\ streams \in [Files -> Seq(Stream)]
  BY <1>2, ZenonT(30) DEF FilesInit, NoStreams
<1>4. FileTypes
  BY <1>3, FilesAssumption DEF FilesInit, FileTypes, Places, NumInfos
<1>5. Fitting
  <2>1. ASSUME NEW g \in Files PROVE Within(disk[g], streams[g], Count(g), ckpt)
    <3>1. 0 <= Count(g)
      BY FilesAssumption, WrittenGrows DEF NumInfos
    <3> QED BY <1>1, <1>2, <3>1, ZenonT(30) DEF Within, UpTo
  <2> QED BY <2>1, ZenonT(30) DEF Fitting
<1>6. Opens /\ InterpOpens /\ Unmixed
  BY <1>1, FileNames DEF FilesInit, Opens, InterpOpens, Unmixed, OpenNow, PoolOpened
<1>7. Order /\ Resting
  BY DEF FilesInit, Order, Resting
<1>8. FreshRecords /\ InterpLast /\ CompletedRestorable
  BY <1>1, FileNames DEF FilesInit, FreshRecords, InterpLast, CompletedRestorable
<1> QED BY <1>4, <1>5, <1>6, <1>7, <1>8 DEF FilesInv

(* FilesInv is inductive.                                                   *)
LEMMA FilesNextInv == FilesInv /\ [FilesNext]_fileVars => FilesInv'
BY OpenPoolStep, OpenPoolFailsStep, OpenDumpStep, OpenDumpFailsStep, WriteInfoStep, WriteCrashesStep,
   ClosePoolStep, OpenInterpStep, OpenInterpFailsStep, WriteInterpStep, ExitStep, KillStep, StartStep,
   RestStep, ZenonT(30) DEF FilesNext

(* FilesInv holds in every state of the image files.                        *)
THEOREM FilesInvariant == FilesSpec => []FilesInv
BY FilesInitInv, FilesNextInv, PTL DEF FilesSpec

(* For every number of frames, infos and checkpoints, and however the       *)
(* processes that call dump_runtime and restore_runtime end: no record is   *)
(* older than the pool_info.img it is read with, and an interp.img of the   *)
(* checkpoint of pool_info.img vouches for all of it.                       *)
THEOREM KilledTold == FilesSpec => []KilledDetectable
<1>1. FilesInv => KilledDetectable
  BY DEF FilesInv, KilledDetectable
<1> QED BY <1>1, FilesInvariant, PTL

(* exit(0) completes dump.img and frame.img, which nothing closes: the four *)
(* images are complete and of one checkpoint, unless the process had left   *)
(* the streams of an earlier checkpoint open.                               *)
THEOREM CompletedRight == FilesSpec => []CompletedRestorable
<1>1. FilesInv => CompletedRestorable
  BY DEF FilesInv
<1> QED BY <1>1, FilesInvariant, PTL

(* No image file is ever longer than a checkpoint makes it, also when       *)
(* exit(1) flushes the streams of earlier checkpoints over the newer files. *)
THEOREM FilesTypes == FilesSpec => []FilesTypeOK
<1>1. FilesInv => FilesTypeOK
  <2> SUFFICES ASSUME FilesInv PROVE FilesTypeOK
    OBVIOUS
  <2>1. FileTypes
    BY DEF FilesInv
  <2>2. ASSUME NEW f \in Files
        PROVE  Len(disk[f]) <= Count(f) /\ \A i \in DOMAIN disk[f] : disk[f][i] \in 0 .. ckpt
    <3>1. disk[f] \in Seq(Nat) /\ ckpt \in Nat /\ UpTo(disk[f], ckpt) /\ Len(disk[f]) <= Count(f)
      BY Each, ZenonT(30) DEF Within
    <3> QED BY <3>1 DEF UpTo
  <2> QED BY <2>1, <2>2 DEF FilesTypeOK, FileTypes, Places
<1> QED BY <1>1, FilesInvariant, PTL
=============================================================================
