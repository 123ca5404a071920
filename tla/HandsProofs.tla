----------------------------- MODULE HandsProofs -----------------------------
(***************************************************************************)
(* Theorems about the file capability, for any options, batches, carriers  *)
(* and errors, any number of files at the path and of deeds of others.     *)
(*                                                                         *)
(* A write's own bytes are counted: nobody cutting the file, they are as   *)
(* many as the chunks that were taken, and all of them lie before the      *)
(* place the next one goes to.  A read looks at the file it identified, a  *)
(* listing has counted what is before its cursor, and a watch owes what it *)
(* was sent and has not told.                                              *)
(***************************************************************************)
EXTENDS HandsFiles, SequenceTheorems, FiniteSetTheorems, TLAPS

-----------------------------------------------------------------------------
(* The inductive invariant.                                                *)

Accepted(opts) == opts \in WriteOptions /\ ~IntentIsRefused(opts)

\* The files that came to be at the path are the first ones, and no other
\* is at the path or opened.
FilesInOrder ==
    /\ \E n \in 0..MaxFiles : \A i \in Inode : kind[i] # "free" <=> i <= n
    /\ path # Gone => kind[path] # "free"
    /\ job.file # Gone => kind[job.file] # "free"

\* Bytes of the call are in the file that it writes to.
Written == IF job.op = "write" THEN job.file ELSE Gone
Own(bytes) == {b \in 1..Len(bytes) : bytes[b] = "own"}
OwnBytes == \A f \in Inode : f # Written => Own(content[f]) = {}

\* They are as many as the chunks that were taken, and the cursor is behind
\* the last of them.
OwnAreCounted ==
    /\ Cardinality(Own(content[job.file])) = job.count
    /\ \A b \in Own(content[job.file]) : b <= job.seen
    /\ job.count > 0 => job.seen \in Own(content[job.file])

\* A write that has no file has done nothing, and does not end well...
WriteUnopened ==
    (job.op # "write" \/ job.file = Gone) =>
        /\ ~emptied /\ harmed = {}
        /\ job.op = "write" =>
              /\ job.at \in {"opening", "done"}
              /\ job.at = "opening" => Accepted(job.opts) /\ job.count = 0 /\ job.left = Chunks
              /\ job.at = "done" => result.code # "ok"

\* ... one that has a file acts on options that were accepted...
WriteOpened ==
    (job.op = "write" /\ job.file # Gone) =>
        /\ job.at \in {"consuming", "writing", "done"}
        /\ Accepted(job.opts)
        /\ job.start = NumberOr(job.opts.offset, 0)
        /\ job.count + job.left = Chunks
        /\ emptied => WriteIntent(job.opts).truncate
        /\ WriteIntent(job.opts).append => harmed = {}
        /\ \A at \in harmed : at >= job.start /\ at < job.start + job.count
        /\ ~WriteIntent(job.opts).append /\ job.count > 0 => job.seen = job.start + job.count
        /\ ~cut => OwnAreCounted

\* ... and one that ends well tells of all it has done.
WriteEnded ==
    Ended("write") =>
        /\ result.bytes = job.count /\ result.endOffset = EndOffset
        /\ alive => job.left = 0

\* Unless its file is cut or the path slips away under it, a read never is
\* beyond the end of its file, and what it identified is what it reads.
ReadInv ==
    job.op = "read" =>
        /\ job.at \in {"opening", "identifying", "checking", "reading", "done"}
        /\ job.at \in {"opening", "identifying"} => job.count = 0
        /\ job.at \in {"identifying", "checking", "reading"} => job.file # Gone
        /\ job.at = "opening" /\ ~cut /\ ~slipped =>
              IsFile /\ NumberOr(job.opts, 0) <= Len(content[path])
        /\ job.at = "opening" => Fits(job.opts, "number")
        /\ job.at \in {"identifying", "checking", "reading"} /\ ~cut /\ ~slipped =>
              job.start + job.count <= Len(content[job.file])
        /\ job.at = "identifying" /\ ~slipped => path = job.file
        /\ job.at \in {"checking", "reading"} /\ ~slipped /\ platform.ids => job.seen = job.file
        /\ job.at = "reading" /\ ~slipped /\ platform.ids => ~moved
        /\ Ended("read") /\ ~cut /\ ~slipped =>
              /\ job.start + job.count = Len(content[job.file])
              /\ platform.ids => ~moved

\* A listing has counted the entries before its cursor.
ListInv ==
    job.op = "list" =>
        /\ job.at \in {"opening", "reading", "done"}
        /\ job.at # "done" => job.opts \in BatchOptions /\ Fits(job.opts, "number")
        /\ job.at = "opening" => job.start = 0 /\ job.count = 0
        /\ job.at = "reading" =>
              /\ job.file # Gone /\ kind[job.file] = "dir"
              /\ job.start <= Len(content[job.file])
              /\ job.count = ReadableIn(content[job.file], 1, job.start)
        /\ Ended("list") => job.count = Readable(content[job.file])

\* A preview is of the directory as it was when the call ended.
StatInv ==
    Ended("stat") /\ IsDir =>
        result.items = Readable(content[path]) \/ (result.more /\ result.items = Preview)

\* A watch owes what is told and what is still in its queue.
Pending ==
    {i \in 1..Len(watch.queue) :
        Concerns(watch.queue[i]) /\ watch.queue[i].kind # "access"}
WatchInv ==
    /\ (job.at = "idle" \/ job.at = "refused") => watch = NoWatch
    /\ watch.on # "none" <=> (job.op = "watch" /\ job.at = "watching")
    /\ watch.on = "target" => \A i \in 1..Len(watch.queue) : watch.queue[i].paths = <<"target">>
    /\ watch.on = "parent" => job.why \in {"PathNotFound", "Generic"}
    /\ \A i \in 1..Len(watch.told) : watch.told[i].path = "target"
    /\ watch.owed = Len(watch.told) + Cardinality(Pending)

\* The options of a call that was accepted are those of its operation.
OptionsFit ==
    /\ job.op = "read" /\ job.at = "opening" => job.opts \in OffsetOptions
    /\ job.op = "list" /\ job.at \in {"opening", "reading"} => job.opts \in BatchOptions
    /\ job.op = "write" /\ job.at \in {"opening", "consuming", "writing"} =>
          job.opts \in WriteOptions

CallInv ==
    /\ FilesInOrder /\ OwnBytes
    /\ WriteUnopened /\ WriteOpened /\ WriteEnded
    /\ ReadInv /\ ListInv /\ StatInv /\ WatchInv

HandsInv == HandsTypeOK /\ OptionsFit /\ CallInv

-----------------------------------------------------------------------------
(* Type correctness.                                                       *)

Options == BatchOptions \cup OffsetOptions \cup FlagOptions \cup WriteOptions

LEMMA GoneIsNoInode == HandsBounds => Gone \notin Inode /\ 1 \in Inode /\ Inode \subseteq Nat
BY DEF HandsBounds, Gone, Inode

LEMMA NoCallIsAJob == HandsBounds => NoCall \in Jobs
BY DEF HandsBounds, NoCall, Jobs, BatchOptions, Absent, Gone, Inode

LEMMA NoWatchIsAWatch == NoWatch \in Watches
BY DEF NoWatch, Watches, Gone

LEMMA OptionsHold ==
    /\ BatchOptions \subseteq Options /\ OffsetOptions \subseteq Options
    /\ FlagOptions \subseteq Options /\ WriteOptions \subseteq Options
    /\ Absent \in Options
BY DEF Options, BatchOptions

Operations == {"none", "stat", "list", "read", "write", "watch"}
Stages     ==
    {"idle", "opening", "identifying", "checking", "reading", "consuming", "writing",
     "refused", "watching", "done", "ended"}
Whys       == Refusals \cup {"PathNotFound", "none"}

LEMMA JobsAre ==
    Jobs = [op : Operations, at : Stages, opts : Options, file : Inode \cup {Gone}, seen : Nat,
            start : Nat, count : Nat, left : Nat, why : Whys]
BY DEF Jobs, Operations, Stages, Options, Whys

\* What an option comes to.
LEMMA NumbersAreNat ==
    ASSUME HandsBounds, NEW o \in BatchOptions \cup OffsetOptions
    PROVE  NumberOr(o, 0) \in Nat /\ NumberOr(o, Preview) \in Nat
BY DEF HandsBounds, BatchOptions, OffsetOptions, NumberOr, Given, Absent, NullOption, Wrong,
       Number

LEMMA PlainIsAWriteOption ==
    ASSUME NEW opts \in WriteOptions
    PROVE  Plain(opts) \in WriteOptions
BY DEF WriteOptions, Plain, OffsetOptions, FlagOptions

LEMMA IntentIsNat ==
    ASSUME HandsBounds, NEW opts \in WriteOptions
    PROVE  /\ WriteIntent(opts).offset \in Nat
           /\ WriteIntent(opts).offset = NumberOr(opts.offset, 0)
<1>1. opts.offset \in OffsetOptions
  BY DEF WriteOptions
<1> QED
  BY <1>1, NumbersAreNat DEF WriteIntent

\* A set of numbers that is not empty has a least one.
LEMMA LeastNat ==
    ASSUME NEW S, S \subseteq Nat, S # {}
    PROVE  \E e \in S : \A f \in S : e <= f
<1>1. PICK e \in S : \A f \in S : <<f, e>> \notin OpToRel(<, Nat)
  BY NatLessThanWellFounded, WFMin, Zenon
<1>2. \A f \in S : ~(f < e)
  BY <1>1, Zenon DEF OpToRel
<1> QED
  BY <1>2

LEMMA BatchEndIs ==
    ASSUME NEW entries \in Seq(Held), NEW from \in 0..Len(entries), NEW size \in Nat
    PROVE  /\ BatchEnd(entries, from, size) \in from..Len(entries)
           /\ \/ BatchEnd(entries, from, size) = Len(entries)
              \/ ReadableIn(entries, from + 1, BatchEnd(entries, from, size)) >= size
<1> DEFINE Enough == {e \in (from + 1)..Len(entries) : ReadableIn(entries, from + 1, e) >= size}
<1>1. CASE Enough = {}
  BY <1>1 DEF BatchEnd
<1>2. CASE Enough # {}
  <2>a. Enough \subseteq Nat
    OBVIOUS
  <2> HIDE DEF Enough
  <2>1. \E e \in Enough : \A f \in Enough : e <= f
    BY <1>2, <2>a, LeastNat, Zenon
  <2> USE DEF Enough
  <2>2. (CHOOSE e \in Enough : \A f \in Enough : e <= f) \in Enough
    BY <2>1, Zenon
  <2> QED
    BY <1>2, <2>2 DEF BatchEnd
<1> QED
  BY <1>1, <1>2

\* A byte is put at its place; what lies between is filled.
LEMMA WriteDoes ==
    ASSUME NEW bytes \in Seq(Held), NEW at \in Nat
    PROVE  /\ Write(bytes, at, "own") \in Seq(Held)
           /\ Len(Write(bytes, at, "own")) = IF at < Len(bytes) THEN Len(bytes) ELSE at + 1
           /\ Write(bytes, at, "own")[at + 1] = "own"
           /\ \A b \in 1..Len(bytes) : b # at + 1 => Write(bytes, at, "own")[b] = bytes[b]
           /\ \A b \in Len(bytes) + 1..at : Write(bytes, at, "own")[b] = "nul"
<1>1. CASE at < Len(bytes)
  BY <1>1 DEF Write, Held
<1>2. CASE ~(at < Len(bytes))
  <2> DEFINE hole == [i \in 1..(at - Len(bytes)) |-> "nul"]
  <2>1. hole \in Seq(Held) /\ Len(hole) = at - Len(bytes)
        /\ \A i \in 1..Len(hole) : hole[i] = "nul"
    BY <1>2 DEF Held
  <2>2. <<"own">> \in Seq(Held) /\ Len(<<"own">>) = 1 /\ <<"own">>[1] = "own"
    BY DEF Held
  <2>3. Write(bytes, at, "own") = (bytes \o hole) \o <<"own">>
    BY <1>2 DEF Write
  <2> HIDE DEF hole
  <2>a. /\ bytes \o hole \in Seq(Held) /\ Len(bytes \o hole) = Len(bytes) + Len(hole)
        /\ \A i \in 1..Len(bytes) + Len(hole) :
              (bytes \o hole)[i] = IF i <= Len(bytes) THEN bytes[i] ELSE hole[i - Len(bytes)]
    BY <2>1, ConcatProperties, Zenon
  <2>4. /\ bytes \o hole \in Seq(Held) /\ Len(bytes \o hole) = at
        /\ \A i \in 1..at : (bytes \o hole)[i] = IF i <= Len(bytes) THEN bytes[i] ELSE "nul"
    BY <1>2, <2>1, <2>a
  <2>5. /\ Write(bytes, at, "own") \in Seq(Held) /\ Len(Write(bytes, at, "own")) = at + 1
        /\ \A i \in 1..at + 1 : Write(bytes, at, "own")[i] =
              IF i <= at THEN (bytes \o hole)[i] ELSE "own"
    <3> DEFINE front == bytes \o hole
    <3> HIDE DEF front
    <3>1. /\ front \o <<"own">> \in Seq(Held)
          /\ Len(front \o <<"own">>) = Len(front) + 1
          /\ \A i \in 1..Len(front) + 1 : (front \o <<"own">>)[i] =
                IF i <= Len(front) THEN front[i] ELSE <<"own">>[i - Len(front)]
      <4>1. front \in Seq(Held)
        BY <2>4 DEF front
      <4> QED
        BY <4>1, <2>2, ConcatProperties, Zenon
    <3>2. \A i \in 1..Len(front) + 1 : i > Len(front) => i - Len(front) = 1
      BY <2>4 DEF front
    <3>3. Write(bytes, at, "own") = front \o <<"own">>
      BY <2>3 DEF front
    <3>4. Len(front) = at
      BY <2>4 DEF front
    <3>5. \A i \in 1..at + 1 : (front \o <<"own">>)[i] = IF i <= at THEN front[i] ELSE "own"
      BY <2>2, <3>1, <3>2, <3>4
    <3>6. /\ Write(bytes, at, "own") \in Seq(Held) /\ Len(Write(bytes, at, "own")) = at + 1
          /\ \A i \in 1..at + 1 :
                Write(bytes, at, "own")[i] = IF i <= at THEN front[i] ELSE "own"
      BY <3>1, <3>3, <3>4, <3>5, Zenon
    <3> QED
      BY <3>6 DEF front
  <2>6. \A b \in 1..Len(bytes) : b # at + 1 => Write(bytes, at, "own")[b] = bytes[b]
    BY <1>2, <2>4, <2>5
  <2> QED
    BY <1>2, <2>4, <2>5, <2>6
<1> QED
  BY <1>1, <1>2

LEMMA JobFields ==
    ASSUME NEW j \in Jobs
    PROVE  /\ j.op \in Operations /\ j.at \in Stages /\ j.opts \in Options
           /\ j.file \in Inode \cup {Gone} /\ j.why \in Whys
           /\ j.seen \in Nat /\ j.start \in Nat /\ j.count \in Nat /\ j.left \in Nat
BY JobsAre

LEMMA RefusesFits ==
    ASSUME HandsBounds, NEW op \in Operations, NEW opts \in Options, NEW code,
           Refuses(op, opts, code)
    PROVE  job' \in Jobs /\ job'.op = op /\ job'.at = "done" /\ OptionsFit'
<1>1. "done" \in Stages
  BY DEF Stages
<1>2. job' \in Jobs
  BY <1>1, NoCallIsAJob, JobsAre DEF Refuses, NoCall
<1>3. job'.at = "done" /\ job'.op = op
  BY DEF Refuses, NoCall
<1> QED
  BY <1>2, <1>3 DEF OptionsFit

LEMMA ConcludesFits ==
    ASSUME HandsBounds, job \in Jobs, NEW reply, Concludes(reply)
    PROVE  /\ job' \in Jobs /\ job'.at = "done" /\ OptionsFit'
           /\ job'.op = job.op /\ job'.opts = job.opts /\ job'.file = job.file
           /\ job'.start = job.start /\ job'.count = job.count /\ job'.left = job.left
           /\ job'.seen = job.seen /\ job'.why = job.why
           /\ result' = reply
<1>1. "done" \in Stages
  BY DEF Stages
<1>2. job' = [job EXCEPT !.at = "done"] /\ result' = reply
  BY DEF Concludes
<1>3. job' \in Jobs
  BY <1>1, <1>2, JobsAre
<1>4. /\ job'.op = job.op /\ job'.opts = job.opts /\ job'.file = job.file
      /\ job'.start = job.start /\ job'.count = job.count /\ job'.left = job.left
      /\ job'.seen = job.seen /\ job'.why = job.why /\ job'.at = "done"
  BY <1>2, JobsAre
<1> QED
  BY <1>2, <1>3, <1>4 DEF OptionsFit

LEMMA OpenFits ==
    ASSUME HandsBounds, NEW op \in Operations, NEW opts \in Options, NEW at \in Stages,
           Open(op, opts, at)
    PROVE  /\ job' \in Jobs /\ job'.op = op /\ job'.opts = opts /\ job'.at = at
           /\ job'.file = Gone /\ job'.start = 0 /\ job'.count = 0 /\ job'.left = Chunks
           /\ job'.why = "none"
BY NoCallIsAJob, JobsAre DEF Open, NoCall, HandsBounds

\* A step of the call that leaves the disk alone.
LEMMA QuietTypes ==
    ASSUME HandsTypeOK, Quietly, job' \in Jobs, watch' \in Watches
    PROVE  HandsTypeOK'
BY DEF HandsTypeOK, Quietly, disk, history

LEMMA StagesAre ==
    /\ {"idle", "opening", "identifying", "checking", "reading", "consuming", "writing",
        "refused", "watching", "done", "ended"} \subseteq Stages
    /\ {"none", "stat", "list", "read", "write", "watch"} \subseteq Operations
    /\ "none" \in Whys
BY DEF Stages, Operations, Whys

LEMMA StatTypes ==
    ASSUME HandsBounds, HandsTypeOK, OptionsFit, Stat \/ StatPreview
    PROVE  HandsTypeOK' /\ OptionsFit'
<1> USE HandsAssumption
<1>0. watch' = watch /\ watch \in Watches /\ job \in Jobs /\ Quietly
  BY DEF Stat, StatPreview, HandsTypeOK
<1>1. CASE Stat /\ Open("stat", Absent, "identifying")
  BY <1>0, <1>1, OpenFits, OptionsHold, StagesAre, QuietTypes DEF OptionsFit
<1>2. CASE Stat /\ Refuses("stat", Absent, "null")
  BY <1>0, <1>2, RefusesFits, OptionsHold, StagesAre, QuietTypes
<1>3. CASE StatPreview
  <2>1. \E reply : Concludes(reply)
    BY <1>3 DEF StatPreview
  <2> QED
    BY <1>0, <2>1, ConcludesFits, QuietTypes
<1> QED
  BY <1>1, <1>2, <1>3 DEF Stat

LEMMA ListTypes ==
    ASSUME HandsBounds, HandsTypeOK, OptionsFit, NEW batch \in BatchOptions, List(batch)
    PROVE  HandsTypeOK' /\ OptionsFit'
<1>0. watch' = watch /\ watch \in Watches /\ job \in Jobs /\ Quietly /\ batch \in Options
  BY OptionsHold DEF List, HandsTypeOK
<1>1. CASE Open("list", batch, "opening")
  BY <1>0, <1>1, OpenFits, StagesAre, QuietTypes DEF OptionsFit
<1>2. CASE \E code : Refuses("list", batch, code)
  BY <1>0, <1>2, RefusesFits, StagesAre, QuietTypes
<1> QED
  BY <1>1, <1>2 DEF List

LEMMA OpenDirectoryTypes ==
    ASSUME HandsBounds, HandsTypeOK, OptionsFit, OpenDirectory
    PROVE  HandsTypeOK' /\ OptionsFit'
<1>0. /\ watch' = watch /\ watch \in Watches /\ job \in Jobs /\ Quietly
      /\ job.op = "list" /\ job.at = "opening" /\ path \in Inode \cup {Gone}
  BY DEF OpenDirectory, HandsTypeOK
<1>1. CASE job' = [job EXCEPT !.at = "reading", !.file = path]
  BY <1>0, <1>1, JobsAre, StagesAre, QuietTypes DEF OptionsFit
<1>2. CASE \E code : Fails(code)
  BY <1>0, <1>2, ConcludesFits, QuietTypes DEF Fails
<1> QED
  BY <1>1, <1>2 DEF OpenDirectory

LEMMA ReadableIsNat ==
    ASSUME NEW entries, NEW from \in Int, NEW to \in Int
    PROVE  /\ ReadableIn(entries, from, to) \in Nat
           /\ IsFiniteSet({i \in from..to : entries[i] = "good"})
<1> DEFINE good == {i \in from..to : entries[i] = "good"}
<1>1. IsFiniteSet(from..to) /\ good \in SUBSET (from..to)
  BY FS_Interval
<1>2. IsFiniteSet(good)
  BY <1>1, FS_Subset, Zenon
<1>3. Cardinality(good) \in Nat
  BY <1>2, FS_CardinalityType, Zenon
<1> QED
  BY <1>2, <1>3 DEF ReadableIn

LEMMA NextBatchTypes ==
    ASSUME HandsBounds, HandsTypeOK, OptionsFit, ListInv, NextBatch
    PROVE  HandsTypeOK' /\ OptionsFit'
<1>0. /\ watch' = watch /\ watch \in Watches /\ job \in Jobs /\ Quietly
      /\ job.op = "list" /\ job.at = "reading" /\ job.opts \in BatchOptions
  BY DEF NextBatch, HandsTypeOK, OptionsFit
<1>1. CASE \E code : Fails(code)
  BY <1>0, <1>1, ConcludesFits, QuietTypes DEF Fails
<1>2. CASE ~\E code : Fails(code)
  <2> DEFINE entries == content[job.file]
             end     == BatchEnd(entries, job.start, BatchSize(job.opts))
             sent    == ReadableIn(entries, job.start + 1, end)
  <2>1. job' = [job EXCEPT !.start = end, !.count = @ + sent]
    BY <1>2 DEF NextBatch
  <2>2. entries \in Seq(Held) /\ job.start \in 0..Len(entries) /\ job.start \in Nat
        /\ job.count \in Nat
    BY <1>0, JobFields DEF ListInv, HandsTypeOK
  <2>3. BatchSize(job.opts) \in Nat
    BY <1>0, NumbersAreNat DEF BatchSize
  <2>4. end \in Nat
    <3>1. end \in job.start..Len(entries)
      BY <2>2, <2>3, BatchEndIs, Zenon
    <3> QED
      BY <2>2, <3>1
  <2>5. sent \in Nat
    <3>1. job.start + 1 \in Int /\ end \in Int
      BY <2>2, <2>4
    <3> QED
      BY <3>1, ReadableIsNat, Zenon
  <2> HIDE DEF entries, end, sent
  <2>a. job.count + sent \in Nat
    BY <2>2, <2>5
  <2>6. job' \in Jobs
    BY <1>0, <2>1, <2>4, <2>a, JobsAre
  <2>7. job'.op = "list" /\ job'.opts = job.opts
    BY <1>0, <2>1, JobsAre
  <2> QED
    BY <1>0, <2>6, <2>7, QuietTypes DEF OptionsFit
<1> QED
  BY <1>1, <1>2

LEMMA ReadTypes ==
    ASSUME HandsBounds, HandsTypeOK, OptionsFit, NEW offset \in OffsetOptions, Read(offset)
    PROVE  HandsTypeOK' /\ OptionsFit'
<1>0. watch' = watch /\ watch \in Watches /\ job \in Jobs /\ Quietly /\ offset \in Options
  BY OptionsHold DEF Read, HandsTypeOK
<1>1. CASE Open("read", offset, "opening")
  BY <1>0, <1>1, OpenFits, StagesAre, QuietTypes DEF OptionsFit
<1>2. CASE \E code : Refuses("read", offset, code)
  BY <1>0, <1>2, RefusesFits, StagesAre, QuietTypes
<1> QED
  BY <1>1, <1>2 DEF Read

LEMMA OpenForReadTypes ==
    ASSUME HandsBounds, HandsTypeOK, OptionsFit, OpenForRead
    PROVE  HandsTypeOK' /\ OptionsFit'
<1>0. /\ watch' = watch /\ watch \in Watches /\ job \in Jobs /\ Quietly
      /\ job.op = "read" /\ job.opts \in OffsetOptions /\ path \in Inode \cup {Gone}
  BY DEF OpenForRead, HandsTypeOK, OptionsFit
<1>1. CASE job' = [job EXCEPT !.at = "identifying", !.file = path,
                             !.start = NumberOr(job.opts, 0)]
  <2>1. NumberOr(job.opts, 0) \in Nat
    BY <1>0, NumbersAreNat
  <2> QED
    BY <1>0, <1>1, <2>1, JobsAre, StagesAre, QuietTypes DEF OptionsFit
<1>2. CASE \E code : Fails(code)
  BY <1>0, <1>2, ConcludesFits, QuietTypes DEF Fails
<1> QED
  BY <1>1, <1>2 DEF OpenForRead

LEMMA ReadingTypes ==
    ASSUME HandsBounds, HandsTypeOK, OptionsFit, Identify \/ ReadChunk
    PROVE  HandsTypeOK' /\ OptionsFit'
<1>0. /\ watch' = watch /\ watch \in Watches /\ job \in Jobs /\ Quietly
      /\ job.op = "read" /\ path \in Inode \cup {Gone}
  BY DEF Identify, ReadChunk, HandsTypeOK
<1>1. Identity \in Nat
  BY <1>0, GoneIsNoInode DEF Identity, Gone
<1>2. CASE Identify
  <2>1. job' = [job EXCEPT !.at = "checking", !.seen = Identity]
    BY <1>2 DEF Identify
  <2> QED
    BY <1>0, <1>1, <2>1, JobsAre, StagesAre, QuietTypes DEF OptionsFit
<1>3. CASE job' = [job EXCEPT !.at = "checking", !.count = @ + 1]
  <2>1. job.count + 1 \in Nat
    BY <1>0, JobFields
  <2>2. job' \in Jobs /\ job'.op = "read" /\ job'.at = "checking"
    BY <1>0, <1>3, <2>1, JobsAre, StagesAre
  <2> QED
    BY <1>0, <2>2, QuietTypes DEF OptionsFit
<1>4. CASE \E code : Fails(code)
  BY <1>0, <1>4, ConcludesFits, QuietTypes DEF Fails
<1> QED
  BY <1>2, <1>3, <1>4 DEF ReadChunk

LEMMA CheckTypes ==
    ASSUME HandsBounds, HandsTypeOK, OptionsFit, Check
    PROVE  HandsTypeOK' /\ OptionsFit'
<1>0. job \in Jobs /\ job.op = "read" /\ moved' \in BOOLEAN
  BY DEF Check, HandsTypeOK
<1>1. job' \in Jobs /\ OptionsFit'
  <2>1. CASE job' = [job EXCEPT !.at = "reading"]
    BY <1>0, <2>1, JobsAre, StagesAre DEF OptionsFit
  <2>2. CASE \E code : Fails(code)
    BY <1>0, <2>2, ConcludesFits DEF Fails
  <2> QED
    BY <2>1, <2>2 DEF Check
<1> QED
  BY <1>0, <1>1 DEF Check, HandsTypeOK, disk

LEMMA StartWriteTypes ==
    ASSUME HandsBounds, HandsTypeOK, OptionsFit, NEW opts \in WriteOptions, StartWrite(opts)
    PROVE  HandsTypeOK' /\ OptionsFit'
<1>0. /\ watch' = watch /\ watch \in Watches /\ job \in Jobs /\ Quietly
      /\ opts \in Options /\ Plain(opts) \in Options /\ Plain(opts) \in WriteOptions
  BY OptionsHold, PlainIsAWriteOption DEF StartWrite, HandsTypeOK
<1>1. CASE Open("write", Plain(opts), "opening")
  BY <1>0, <1>1, OpenFits, StagesAre, QuietTypes DEF OptionsFit
<1>2. CASE \E code : Refuses("write", opts, code)
  BY <1>0, <1>2, RefusesFits, StagesAre, QuietTypes
<1> QED
  BY <1>1, <1>2 DEF StartWrite

\* What FileWriter::open comes to.
LEMMA OpenForWriteDoes ==
    ASSUME HandsBounds, HandsTypeOK, OptionsFit, OpenForWrite
    PROVE  /\ job.op = "write" /\ job.at = "opening" /\ job.opts \in WriteOptions
           /\ \/ /\ Fails("EISDIR") /\ UNCHANGED <<path, kind, content, emptied>>
              \/ \E file \in Inode :
                    /\ job' = [job EXCEPT !.at = "consuming", !.file = file,
                                          !.start = WriteIntent(job.opts).offset]
                    /\ result' = result
                    /\ \/ /\ path = file /\ UNCHANGED <<path, kind>>
                          /\ content' = IF WriteIntent(job.opts).truncate
                                        THEN [content EXCEPT ![file] = <<>>] ELSE content
                          /\ emptied' = (WriteIntent(job.opts).truncate /\ content[file] # <<>>)
                       \/ /\ kind[file] = "free"
                          /\ \A f \in Inode : kind[f] = "free" => file <= f
                          /\ path = Gone /\ path' = file
                          /\ kind' = [kind EXCEPT ![file] = "file"]
                          /\ UNCHANGED <<content, emptied>>
           /\ UNCHANGED <<platform, alive, watch, deeds, harmed, cut, slipped, moved>>
<1>0. /\ job.op = "write" /\ job.at = "opening" /\ job.opts \in WriteOptions
      /\ UNCHANGED <<platform, alive, watch, deeds, harmed, cut, slipped, moved>>
      /\ path \in Inode \cup {Gone}
  BY DEF OpenForWrite, OptionsFit, HandsTypeOK
<1>1. CASE IsDir
  BY <1>0, <1>1 DEF OpenForWrite, disk, IsDir
<1>2. CASE Exists /\ ~IsDir
  <2>1. path \in Inode
    BY <1>0, <1>2 DEF Exists
  <2> QED
    BY <1>0, <1>2, <2>1 DEF OpenForWrite, disk
<1>3. CASE ~Exists
  BY <1>0, <1>3 DEF OpenForWrite, disk, IsDir, Exists
<1> QED
  BY <1>1, <1>2, <1>3

LEMMA OpenForWriteTypes ==
    ASSUME HandsBounds, HandsTypeOK, OptionsFit, OpenForWrite
    PROVE  HandsTypeOK' /\ OptionsFit'
<1>0. /\ job.op = "write" /\ job.opts \in WriteOptions /\ job \in Jobs
      /\ UNCHANGED <<platform, alive, watch, deeds, harmed, cut, slipped, moved>>
  BY OpenForWriteDoes DEF HandsTypeOK
<1>1. CASE Fails("EISDIR") /\ UNCHANGED <<path, kind, content, emptied>>
  BY <1>0, <1>1, ConcludesFits DEF HandsTypeOK, Fails
<1>2. ASSUME NEW file \in Inode,
             job' = [job EXCEPT !.at = "consuming", !.file = file,
                                !.start = WriteIntent(job.opts).offset]
      PROVE  job' \in Jobs /\ OptionsFit'
  BY <1>0, <1>2, IntentIsNat, JobsAre, StagesAre DEF OptionsFit
<1>3. \A file \in Inode :
         /\ [content EXCEPT ![file] = <<>>] \in [Inode -> Seq(Held)]
         /\ [kind EXCEPT ![file] = "file"] \in [Inode -> {"file", "dir", "other", "free"}]
  BY DEF HandsTypeOK
<1>4. ASSUME NEW file \in Inode,
             job' = [job EXCEPT !.at = "consuming", !.file = file,
                                !.start = WriteIntent(job.opts).offset],
             \/ /\ path = file /\ UNCHANGED <<path, kind>>
                /\ content' = IF WriteIntent(job.opts).truncate
                              THEN [content EXCEPT ![file] = <<>>] ELSE content
                /\ emptied' = (WriteIntent(job.opts).truncate /\ content[file] # <<>>)
             \/ /\ path' = file /\ kind' = [kind EXCEPT ![file] = "file"]
                /\ UNCHANGED <<content, emptied>>
      PROVE  HandsTypeOK' /\ OptionsFit'
  <2>1. job' \in Jobs /\ OptionsFit'
    BY <1>2, <1>4
  <2>2. WriteIntent(job.opts).truncate \in BOOLEAN
    BY DEF WriteIntent
  <2>3. CASE path = file /\ UNCHANGED <<path, kind>>
    BY <1>0, <1>3, <1>4, <2>1, <2>2, <2>3 DEF HandsTypeOK
  <2>4. CASE path' = file /\ kind' = [kind EXCEPT ![file] = "file"]
    BY <1>0, <1>3, <1>4, <2>1, <2>4 DEF HandsTypeOK
  <2> QED
    BY <1>4, <2>3, <2>4
<1> QED
  <2>1. CASE Fails("EISDIR") /\ UNCHANGED <<path, kind, content, emptied>>
    BY <1>1, <2>1
  <2>2. CASE ~(Fails("EISDIR") /\ UNCHANGED <<path, kind, content, emptied>>)
    BY <1>4, <2>2, OpenForWriteDoes
  <2> QED
    BY <2>1, <2>2

\* Steps that only conclude the call.
LEMMA ConcludingTypes ==
    ASSUME HandsBounds, HandsTypeOK, NEW reply, Concludes(reply), UNCHANGED watch, Quietly
    PROVE  HandsTypeOK' /\ OptionsFit'
<1>1. watch' \in Watches /\ job \in Jobs
  BY DEF HandsTypeOK
<1> QED
  BY <1>1, ConcludesFits, QuietTypes

LEMMA ConsumeTypes ==
    ASSUME HandsBounds, HandsTypeOK, OptionsFit, NEW refusal, Consume(refusal)
    PROVE  HandsTypeOK' /\ OptionsFit'
<1>0. /\ watch' = watch /\ watch \in Watches /\ job \in Jobs /\ Quietly
      /\ job.op = "write" /\ job.opts \in WriteOptions
  BY DEF Consume, HandsTypeOK, OptionsFit
<1>1. CASE job' = [job EXCEPT !.at = "writing"]
  <2>1. job' \in Jobs /\ job'.op = "write" /\ job'.opts = job.opts
    BY <1>0, <1>1, JobsAre, StagesAre
  <2> QED
    BY <1>0, <2>1, QuietTypes DEF OptionsFit
<1>2. CASE \E code : Fails(code)
  BY <1>0, <1>2, ConcludingTypes DEF Fails
<1> QED
  BY <1>1, <1>2 DEF Consume

\* The file that is written to.
LEMMA WriteChunkIsAt ==
    ASSUME HandsBounds, HandsTypeOK, OptionsFit, WriteUnopened, NEW carrier, WriteChunk(carrier)
    PROVE  /\ job.file \in Inode /\ content[job.file] \in Seq(Held)
           /\ Position \in Nat /\ Len(content[job.file]) \in Nat
           /\ job.opts \in WriteOptions /\ job.left > 0
<1>1. job.op = "write" /\ job.at = "writing" /\ job \in Jobs /\ job.left > 0
  BY DEF WriteChunk, HandsTypeOK
<1>2. job.file \in Inode
  BY <1>1, JobFields DEF WriteUnopened
<1>3. content[job.file] \in Seq(Held) /\ Len(content[job.file]) \in Nat
  BY <1>2 DEF HandsTypeOK
<1> QED
  BY <1>1, <1>2, <1>3, JobFields DEF Position, OptionsFit

LEMMA WriteChunkTypes ==
    ASSUME HandsBounds, HandsTypeOK, OptionsFit, WriteUnopened, NEW carrier, WriteChunk(carrier)
    PROVE  HandsTypeOK' /\ OptionsFit'
<1> DEFINE at == Position
           bytes == Write(content[job.file], at, "own")
<1>0. /\ job.file \in Inode /\ at \in Nat /\ at + 1 \in Nat /\ bytes \in Seq(Held)
  BY WriteChunkIsAt, WriteDoes
<1>1. /\ content' = [content EXCEPT ![job.file] = bytes]
      /\ job' = [job EXCEPT !.count = @ + 1, !.left = @ - 1, !.seen = at + 1]
      /\ harmed' \subseteq harmed \cup {at}
      /\ UNCHANGED <<path, kind, platform, alive, watch, deeds, result,
                     emptied, cut, slipped, moved>>
      /\ job.op = "write"
  BY DEF WriteChunk
<1> HIDE DEF at, bytes
<1>2. content' \in [Inode -> Seq(Held)] /\ harmed' \subseteq Nat
  BY <1>0, <1>1 DEF HandsTypeOK
<1>3. job \in Jobs /\ job.count + 1 \in Nat /\ job.left - 1 \in Nat
  BY WriteChunkIsAt, JobFields DEF HandsTypeOK
<1>4. job' \in Jobs /\ job'.op = job.op /\ job'.opts = job.opts /\ job'.at = job.at
  BY <1>0, <1>1, <1>3, JobsAre
<1>5. OptionsFit'
  BY <1>1, <1>4 DEF OptionsFit
<1> QED
  BY <1>1, <1>2, <1>4, <1>5 DEF HandsTypeOK

LEMMA WriteEndTypes ==
    ASSUME HandsBounds, HandsTypeOK, OptionsFit,
           Finish \/ StreamFails \/ Strikes \/ \E carrier \in Carriers : ChunkFails(carrier)
    PROVE  HandsTypeOK' /\ OptionsFit'
<1>1. UNCHANGED watch /\ Quietly /\ \E reply : Concludes(reply)
  BY DEF Finish, StreamFails, Strikes, ChunkFails, Fails
<1> QED
  BY <1>1, ConcludingTypes

LEMMA UnloadTypes ==
    ASSUME HandsTypeOK, OptionsFit, Unload
    PROVE  HandsTypeOK' /\ OptionsFit'
BY DEF HandsTypeOK, OptionsFit, Unload, disk, history

LEMMA UnreachableTypes ==
    ASSUME HandsBounds, HandsTypeOK, OptionsFit,
           NEW op \in {"stat", "list", "read", "write"}, Unreachable(op)
    PROVE  HandsTypeOK' /\ OptionsFit'
<1>1. watch' = watch /\ watch \in Watches /\ Quietly /\ \E code : Refuses(op, Absent, code)
  BY DEF Unreachable, HandsTypeOK
<1> QED
  BY <1>1, RefusesFits, OptionsHold, StagesAre, QuietTypes

\* What reaches the watcher: nothing, or one event, that concerns the path
\* if it is of the very file.
LEMMA WatchFields ==
    ASSUME NEW w \in Watches
    PROVE  /\ w.on \in {"none", "target", "parent"} /\ w.file \in Inode \cup {Gone}
           /\ w.queue \in Seq(Notices) /\ w.owed \in Nat /\ w.told \in Seq(Told)
BY DEF Watches

LEMMA NoticesAre ==
    ASSUME NEW what \in Sorts
    PROVE  /\ FileEvent(what, <<"target">>) \in Notices
           /\ FileEvent(what, <<"sibling">>) \in Notices
           /\ FileEvent(what, <<"sibling", "target">>) \in Notices
           /\ FileEvent(what, <<"target">>).kind = what
           /\ FileEvent(what, <<"sibling">>).kind = what
           /\ FileEvent(what, <<"sibling", "target">>).kind = what
           /\ Concerns(FileEvent(what, <<"target">>))
           /\ ~Concerns(FileEvent(what, <<"sibling">>))
           /\ Concerns(FileEvent(what, <<"sibling", "target">>))
BY DEF FileEvent, Notices, Concerns

LEMMA NoticeFields ==
    ASSUME NEW event \in Notices
    PROVE  /\ event.kind \in Sorts
           /\ event.paths[1] \in {"target", "sibling"}
           /\ ~Concerns(event) => event.paths[1] = "sibling"
           /\ event.paths = <<"target">> => Concerns(event)
           /\ Concerns(event) <=> "target" \in {event.paths[i] : i \in DOMAIN event.paths}
           /\ [event EXCEPT !.paths = <<"target">>] \in Notices
           /\ [event EXCEPT !.paths = <<"target">>].paths = <<"target">>
           /\ [event EXCEPT !.paths = <<"target">>].kind = event.kind
BY DEF Notices, Concerns

LEMMA NotifiedDoes ==
    ASSUME watch \in Watches, NEW event \in Notices, NEW file, Notified(event, file)
    PROVE  \/ watch' = watch /\ watch.on # "parent"
           \/ \E seen \in Notices :
                 /\ watch.on = "parent" \/ (watch.on = "target" /\ watch.file = file)
                 /\ watch.on = "parent" => seen = event
                 /\ watch.on = "target" => seen.paths = <<"target">>
                 /\ seen.kind = event.kind
                 /\ watch' = [watch EXCEPT
                       !.queue = Append(@, seen),
                       !.owed = @ + (IF Concerns(event) /\ event.kind # "access" THEN 1 ELSE 0)]
<1> DEFINE seen == IF watch.on = "parent" THEN event
                   ELSE [event EXCEPT !.paths = <<"target">>]
<1>1. /\ seen \in Notices /\ seen.kind = event.kind
      /\ watch.on # "parent" => seen.paths = <<"target">>
  BY NoticeFields
<1>2. CASE watch.on = "parent" \/ (watch.on = "target" /\ watch.file = file)
  <2>1. watch' = [watch EXCEPT
            !.queue = Append(@, seen),
            !.owed = @ + (IF Concerns(event) /\ event.kind # "access" THEN 1 ELSE 0)]
    BY <1>2, NoticeFields, Zenon DEF Notified
  <2> QED
    BY <1>1, <1>2, <2>1
<1>3. CASE ~(watch.on = "parent" \/ (watch.on = "target" /\ watch.file = file))
  BY <1>3 DEF Notified
<1> QED
  BY <1>2, <1>3

LEMMA NotifiedTypes ==
    ASSUME watch \in Watches, NEW event \in Notices, NEW file, Notified(event, file)
    PROVE  watch' \in Watches /\ watch'.on = watch.on /\ watch'.told = watch.told
<1>1. CASE watch' = watch
  BY <1>1
<1>2. ASSUME NEW seen \in Notices, NEW owed \in Nat,
             watch' = [watch EXCEPT !.queue = Append(@, seen), !.owed = owed]
      PROVE  watch' \in Watches /\ watch'.on = watch.on /\ watch'.told = watch.told
  <2>1. Append(watch.queue, seen) \in Seq(Notices)
    BY WatchFields, AppendProperties
  <2> QED
    BY <1>2, <2>1 DEF Watches
<1>3. CASE watch' # watch
  <2> DEFINE more == IF Concerns(event) /\ event.kind # "access" THEN 1 ELSE 0
  <2>1. PICK seen \in Notices :
           watch' = [watch EXCEPT !.queue = Append(@, seen), !.owed = @ + more]
    BY <1>3, NotifiedDoes, Zenon
  <2>2. watch.owed + more \in Nat
    BY WatchFields
  <2>3. watch' = [watch EXCEPT !.queue = Append(@, seen), !.owed = watch.owed + more]
    BY <2>1, Zenon
  <2> QED
    BY <1>2, <2>2, <2>3, Zenon
<1> QED
  BY <1>1, <1>3

LEMMA StartWatchTypes ==
    ASSUME HandsBounds, HandsTypeOK, NEW recursive \in FlagOptions, Watch(recursive)
    PROVE  HandsTypeOK' /\ OptionsFit'
<1>0. /\ recursive \in Options /\ Quietly /\ watch \in Watches /\ path \in Inode \cup {Gone}
  BY OptionsHold DEF Watch, HandsTypeOK
<1>1. CASE Refuses("watch", recursive, "EUNSUPPORTED") /\ UNCHANGED watch
  BY <1>0, <1>1, RefusesFits, StagesAre, QuietTypes
<1>2. CASE /\ Open("watch", recursive, "watching")
           /\ watch' = [watch EXCEPT !.on = "target", !.file = path]
  <2>1. watch' \in Watches
    BY <1>0, <1>2 DEF Watches
  <2> QED
    BY <1>0, <1>2, <2>1, OpenFits, StagesAre, QuietTypes DEF OptionsFit
<1>3. ASSUME NEW refusal \in Whys, UNCHANGED watch,
             job' = [NoCall EXCEPT !.op = "watch", !.opts = recursive,
                                   !.at = "refused", !.why = refusal]
      PROVE  HandsTypeOK' /\ OptionsFit'
  <2>1. job' \in Jobs /\ job'.op = "watch"
    BY <1>0, <1>3, NoCallIsAJob, JobsAre, StagesAre DEF NoCall
  <2> QED
    BY <1>0, <1>3, <2>1, QuietTypes DEF OptionsFit
<1>4. Refusals \subseteq Whys /\ "Generic" \in Whys /\ "PathNotFound" \in Whys
  BY DEF Whys, Refusals
<1> QED
  BY <1>1, <1>2, <1>3, <1>4 DEF Watch

LEMMA WatchParentTypes ==
    ASSUME HandsBounds, HandsTypeOK, WatchParent
    PROVE  HandsTypeOK' /\ OptionsFit'
<1>0. job \in Jobs /\ watch \in Watches /\ job.op = "watch" /\ Quietly
  BY DEF WatchParent, HandsTypeOK
<1>1. CASE UNCHANGED watch /\ \E code : Fails(code)
  BY <1>0, <1>1, ConcludingTypes DEF Fails
<1>2. CASE /\ job' = [job EXCEPT !.at = "watching"]
           /\ watch' = [watch EXCEPT !.on = "parent"]
  <2>1. watch' \in Watches
    BY <1>0, <1>2 DEF Watches
  <2> QED
    BY <1>0, <1>2, <2>1, JobsAre, StagesAre, QuietTypes DEF OptionsFit
<1> QED
  BY <1>1, <1>2 DEF WatchParent

LEMMA ChangesAreTold ==
    ASSUME NEW event \in Notices
    PROVE  ChangeOf(event) \in Told /\ (Concerns(event) => ChangeOf(event).path = "target")
BY NoticeFields DEF ChangeOf, Told

LEMMA NextValueTypes ==
    ASSUME HandsTypeOK, OptionsFit, NextValue
    PROVE  HandsTypeOK' /\ OptionsFit'
<1>0. watch \in Watches /\ job \in Jobs /\ UNCHANGED job /\ Quietly /\ watch.queue # <<>>
  BY DEF NextValue, HandsTypeOK
<1>1. Head(watch.queue) \in Notices /\ Tail(watch.queue) \in Seq(Notices)
  BY <1>0, WatchFields, HeadTailProperties
<1>2. Append(watch.told, ChangeOf(Head(watch.queue))) \in Seq(Told)
  BY <1>0, <1>1, WatchFields, ChangesAreTold, AppendProperties
<1>3. PICK told \in Seq(Told) : watch' = [watch EXCEPT !.queue = Tail(@), !.told = told]
  BY <1>0, <1>2, WatchFields DEF NextValue
<1>4. watch' \in Watches
  BY <1>0, <1>1, <1>3 DEF Watches
<1> QED
  BY <1>0, <1>4, QuietTypes DEF OptionsFit

LEMMA CloseWatchTypes ==
    ASSUME HandsTypeOK, OptionsFit, CloseWatch
    PROVE  HandsTypeOK' /\ OptionsFit'
<1>0. /\ watch \in Watches /\ job \in Jobs /\ Quietly /\ job.op = "watch"
      /\ job' = [job EXCEPT !.at = "ended"] /\ watch' = [watch EXCEPT !.on = "none"]
  BY DEF CloseWatch, HandsTypeOK
<1>1. watch' \in Watches
  BY <1>0 DEF Watches
<1> QED
  BY <1>0, <1>1, JobsAre, StagesAre, QuietTypes DEF OptionsFit

-----------------------------------------------------------------------------
(* What the other programs may do to a call that is under way.             *)

Meddled ==
    /\ UNCHANGED <<platform, job, result, alive, emptied, harmed, moved>>
    /\ job.at \notin {"idle", "done", "ended"}
    /\ \A f \in Inode : kind[f] # "free" =>
          /\ kind'[f] = kind[f]
          /\ content'[f] # content[f] =>
                /\ kind[f] = "file"
                /\ content'[f] = Append(content[f], "other") \/ (cut' /\ content'[f] = <<>>)
    /\ \A f \in Inode : kind[f] = "free" =>
          content'[f] = content[f] \/ \E n \in Nat : content'[f] = [b \in 1..n |-> "other"]
    /\ path' = path \/ (Opening => slipped')
    /\ (cut => cut') /\ (slipped => slipped')
    /\ \E event \in Notices, file \in Inode \cup {Gone} :
          Notified(event, file) /\ (watch.on = "parent" \/ Concerns(event))

LEMMA MeddlesTypes ==
    ASSUME HandsBounds, HandsTypeOK, OptionsFit, Meddles, watch' \in Watches,
           path' \in Inode \cup {Gone}, kind' \in [Inode -> {"file", "dir", "other", "free"}],
           content' \in [Inode -> Seq(Held)], cut' \in BOOLEAN, slipped' \in BOOLEAN,
           moved' = moved
    PROVE  HandsTypeOK' /\ OptionsFit'
<1>1. deeds' \in 0..MaxDeeds
  BY DEF Meddles, HandsTypeOK, HandsBounds
<1> QED
  BY <1>1 DEF Meddles, HandsTypeOK, OptionsFit

LEMMA GrowDoes ==
    ASSUME HandsBounds, HandsTypeOK, OptionsFit, FilesInOrder, Grow
    PROVE  HandsTypeOK' /\ OptionsFit' /\ FilesInOrder' /\ Meddled
<1>0. /\ path \in Inode /\ kind[path] = "file" /\ Meddles /\ watch \in Watches
      /\ content' = [content EXCEPT ![path] = Append(@, "other")]
      /\ Notified(FileEvent("modify", <<"target">>), path)
      /\ UNCHANGED <<path, kind, cut, slipped, moved>>
  BY DEF Grow, IsFile, Exists, HandsTypeOK
<1>1. /\ FileEvent("modify", <<"target">>) \in Notices
      /\ Concerns(FileEvent("modify", <<"target">>))
  BY NoticesAre DEF Sorts
<1>2. watch' \in Watches
  BY <1>0, <1>1, NotifiedTypes
<1>3. content' \in [Inode -> Seq(Held)] /\ content'[path] = Append(content[path], "other")
      /\ \A f \in Inode : f # path => content'[f] = content[f]
  <2>1. "other" \in Held /\ content[path] \in Seq(Held)
    BY <1>0 DEF Held, HandsTypeOK
  <2>2. Append(content[path], "other") \in Seq(Held)
    BY <2>1, AppendProperties
  <2> QED
    BY <1>0, <2>2 DEF HandsTypeOK
<1>4. HandsTypeOK' /\ OptionsFit'
  <2>1. /\ path' \in Inode \cup {Gone} /\ kind' \in [Inode -> {"file", "dir", "other", "free"}]
        /\ cut' \in BOOLEAN /\ slipped' \in BOOLEAN
    BY <1>0 DEF HandsTypeOK
  <2> QED
    BY <1>0, <1>2, <1>3, <2>1, MeddlesTypes
<1>5. FilesInOrder'
  BY <1>0 DEF FilesInOrder, Meddles
<1> QED
  BY <1>0, <1>1, <1>3, <1>4, <1>5 DEF Meddled, Meddles

LEMMA CutDoes ==
    ASSUME HandsBounds, HandsTypeOK, OptionsFit, FilesInOrder, Cut
    PROVE  HandsTypeOK' /\ OptionsFit' /\ FilesInOrder' /\ Meddled
<1>0. /\ path \in Inode /\ kind[path] = "file" /\ Meddles /\ watch \in Watches
      /\ content' = [content EXCEPT ![path] = <<>>] /\ cut' = TRUE
      /\ Notified(FileEvent("modify", <<"target">>), path)
      /\ UNCHANGED <<path, kind, slipped, moved>>
  BY DEF Cut, IsFile, Exists, HandsTypeOK
<1>1. /\ FileEvent("modify", <<"target">>) \in Notices
      /\ Concerns(FileEvent("modify", <<"target">>))
  BY NoticesAre DEF Sorts
<1>2. watch' \in Watches
  BY <1>0, <1>1, NotifiedTypes
<1>3. content' \in [Inode -> Seq(Held)] /\ content'[path] = <<>>
      /\ \A f \in Inode : f # path => content'[f] = content[f]
  BY <1>0 DEF HandsTypeOK
<1>4. HandsTypeOK' /\ OptionsFit'
  <2>1. /\ path' \in Inode \cup {Gone} /\ kind' \in [Inode -> {"file", "dir", "other", "free"}]
        /\ cut' \in BOOLEAN /\ slipped' \in BOOLEAN
    BY <1>0 DEF HandsTypeOK
  <2> QED
    BY <1>0, <1>2, <1>3, <2>1, MeddlesTypes
<1>5. FilesInOrder'
  BY <1>0 DEF FilesInOrder, Meddles
<1> QED
  BY <1>0, <1>1, <1>3, <1>4, <1>5 DEF Meddled, Meddles

LEMMA RemoveDoes ==
    ASSUME HandsBounds, HandsTypeOK, OptionsFit, FilesInOrder, Remove
    PROVE  HandsTypeOK' /\ OptionsFit' /\ FilesInOrder' /\ Meddled
<1>0. /\ path \in Inode /\ Meddles /\ watch \in Watches
      /\ path' = Gone /\ slipped' = (slipped \/ Opening)
      /\ Notified(FileEvent("remove", <<"target">>), path)
      /\ UNCHANGED <<kind, content, cut, moved>>
  BY DEF Remove, Exists, HandsTypeOK
<1>1. /\ FileEvent("remove", <<"target">>) \in Notices
      /\ Concerns(FileEvent("remove", <<"target">>))
  BY NoticesAre DEF Sorts
<1>2. watch' \in Watches
  BY <1>0, <1>1, NotifiedTypes
<1>4. HandsTypeOK' /\ OptionsFit'
  <2>1. /\ path' \in Inode \cup {Gone} /\ kind' \in [Inode -> {"file", "dir", "other", "free"}]
        /\ cut' \in BOOLEAN /\ slipped' \in BOOLEAN /\ content' \in [Inode -> Seq(Held)]
    BY <1>0 DEF HandsTypeOK
  <2> QED
    BY <1>0, <1>2, <2>1, MeddlesTypes
<1>5. FilesInOrder'
  BY <1>0 DEF FilesInOrder, Meddles
<1> QED
  BY <1>0, <1>1, <1>4, <1>5 DEF Meddled, Meddles

LEMMA RenameDoes ==
    ASSUME HandsBounds, HandsTypeOK, OptionsFit, FilesInOrder, NEW length \in Files,
           Rename(length)
    PROVE  HandsTypeOK' /\ OptionsFit' /\ FilesInOrder' /\ Meddled
<1> DEFINE file == Cardinality({i \in Inode : kind[i] # "free"}) + 1
           bytes == [b \in 1..length |-> "other"]
<1>1. PICK n \in 0..MaxFiles : \A i \in Inode : kind[i] # "free" <=> i <= n
  BY DEF FilesInOrder
<1>2. file = n + 1
  <2>1. {i \in Inode : kind[i] # "free"} = 1..n
    BY <1>1 DEF Inode, HandsBounds
  <2>2. Cardinality(1..n) = n
    BY <1>1, FS_Interval
  <2> QED
    BY <2>1, <2>2
<1>3. /\ file \in Inode /\ path' = file /\ kind' = [kind EXCEPT ![file] = "file"]
      /\ content' = [content EXCEPT ![file] = bytes]
      /\ slipped' = (slipped \/ Opening)
      /\ Notified(FileEvent("replace", <<"sibling", "target">>), path)
      /\ UNCHANGED <<cut, moved>> /\ Meddles
      /\ watch \in Watches /\ path \in Inode \cup {Gone}
  BY DEF Rename, HandsTypeOK
<1>4. length \in Nat /\ bytes \in Seq(Held)
  BY DEF Held, HandsBounds
<1> HIDE DEF file, bytes
<1>5. kind[file] = "free"
  BY <1>1, <1>2, <1>3
<1>6. /\ FileEvent("replace", <<"sibling", "target">>) \in Notices
      /\ Concerns(FileEvent("replace", <<"sibling", "target">>))
  BY NoticesAre DEF Sorts
<1>7. watch' \in Watches
  BY <1>3, <1>6, NotifiedTypes
<1>8. HandsTypeOK' /\ OptionsFit'
  <2>1. /\ path' \in Inode \cup {Gone} /\ kind' \in [Inode -> {"file", "dir", "other", "free"}]
        /\ cut' \in BOOLEAN /\ slipped' \in BOOLEAN /\ content' \in [Inode -> Seq(Held)]
    BY <1>3, <1>4 DEF HandsTypeOK
  <2> QED
    BY <1>3, <1>7, <2>1, MeddlesTypes
<1>9. FilesInOrder'
  <2>1. n + 1 \in 0..MaxFiles
    BY <1>2, <1>3 DEF Inode, HandsBounds
  <2>2. \A i \in Inode : kind'[i] # "free" <=> i <= n + 1
    BY <1>1, <1>2, <1>3 DEF HandsTypeOK, Inode
  <2>3. job.file # Gone => kind'[job.file] # "free"
    <3>1. job.file \in Inode \cup {Gone}
      BY JobFields DEF HandsTypeOK
    <3> QED
      BY <1>3, <3>1 DEF FilesInOrder, HandsTypeOK
  <2>4. kind'[path'] # "free"
    BY <1>3 DEF HandsTypeOK
  <2>5. job' = job
    BY <1>3 DEF Meddles
  <2> QED
    BY <2>1, <2>2, <2>3, <2>4, <2>5 DEF FilesInOrder
<1>10. /\ \A f \in Inode : kind[f] # "free" => kind'[f] = kind[f] /\ content'[f] = content[f]
       /\ \A f \in Inode : kind[f] = "free" => content'[f] = content[f] \/ content'[f] = bytes
  BY <1>3, <1>5 DEF HandsTypeOK
<1>11. \A f \in Inode : kind[f] = "free" =>
          content'[f] = content[f] \/ \E m \in Nat : content'[f] = [b \in 1..m |-> "other"]
  BY <1>4, <1>10 DEF bytes
<1> QED
  BY <1>3, <1>6, <1>8, <1>9, <1>10, <1>11 DEF Meddled, Meddles

LEMMA AsideDoes ==
    ASSUME HandsBounds, HandsTypeOK, OptionsFit, FilesInOrder, NEW what \in Sorts,
           NEW name \in {"target", "sibling"}, Aside(what, name)
    PROVE  HandsTypeOK' /\ OptionsFit' /\ FilesInOrder' /\ Meddled
<1>0. /\ Meddles /\ watch \in Watches /\ Notified(FileEvent(what, <<name>>), Gone)
      /\ watch.on = "parent"
      /\ UNCHANGED <<path, kind, content, cut, slipped, moved>>
  BY DEF Aside, HandsTypeOK, disk
<1>1. FileEvent(what, <<name>>) \in Notices
  BY NoticesAre
<1>2. watch' \in Watches
  BY <1>0, <1>1, NotifiedTypes
<1>4. HandsTypeOK' /\ OptionsFit'
  <2>1. /\ path' \in Inode \cup {Gone} /\ kind' \in [Inode -> {"file", "dir", "other", "free"}]
        /\ cut' \in BOOLEAN /\ slipped' \in BOOLEAN /\ content' \in [Inode -> Seq(Held)]
    BY <1>0 DEF HandsTypeOK
  <2> QED
    BY <1>0, <1>2, <2>1, MeddlesTypes
<1>5. FilesInOrder'
  BY <1>0 DEF FilesInOrder, Meddles
<1> QED
  BY <1>0, <1>1, <1>4, <1>5 DEF Meddled, Meddles

LEMMA OthersDo ==
    ASSUME HandsBounds, HandsTypeOK, OptionsFit, FilesInOrder, Others
    PROVE  HandsTypeOK' /\ OptionsFit' /\ FilesInOrder' /\ Meddled
BY GrowDoes, CutDoes, RemoveDoes, RenameDoes, AsideDoes DEF Others, Sorts

\* Nothing that others put into a file is the call's own.
LEMMA OwnIsNoOthers ==
    /\ \A bytes \in Seq(Held) : /\ Own(Append(bytes, "other")) = Own(bytes)
                                /\ Own(bytes) \subseteq 1..Len(bytes)
    /\ Own(<<>>) = {}
    /\ \A n \in Nat : Own([b \in 1..n |-> "other"]) = {}
<1>1. ASSUME NEW bytes \in Seq(Held)
      PROVE  /\ Own(Append(bytes, "other")) = Own(bytes)
             /\ Own(bytes) \subseteq 1..Len(bytes)
  <2>1. /\ Len(Append(bytes, "other")) = Len(bytes) + 1 /\ Len(bytes) \in Nat
        /\ \A i \in 1..Len(bytes) : Append(bytes, "other")[i] = bytes[i]
        /\ Append(bytes, "other")[Len(bytes) + 1] = "other"
    OBVIOUS
  <2> QED
    BY <2>1 DEF Own
<1>2. Own(<<>>) = {}
  BY DEF Own
<1>3. \A n \in Nat : Own([b \in 1..n |-> "other"]) = {}
  BY DEF Own
<1> QED
  BY <1>1, <1>2, <1>3

LEMMA OwnIsFinite ==
    ASSUME NEW bytes \in Seq(Held)
    PROVE  IsFiniteSet(Own(bytes))
<1>1. Len(bytes) \in Nat
  OBVIOUS
<1>2. IsFiniteSet(1..Len(bytes))
  BY <1>1, FS_Interval
<1>3. Own(bytes) \in SUBSET (1..Len(bytes))
  BY DEF Own
<1> QED
  BY <1>2, <1>3, FS_Subset, Zenon

LEMMA OthersKeepTheWrite ==
    ASSUME HandsTypeOK, FilesInOrder, OwnBytes, WriteUnopened, WriteOpened, WriteEnded, Meddled
    PROVE  OwnBytes' /\ WriteUnopened' /\ WriteOpened' /\ WriteEnded'
<1>0. /\ UNCHANGED <<job, result, alive, emptied, harmed>> /\ (cut => cut')
      /\ job.at # "done" /\ job \in Jobs
  BY DEF Meddled, HandsTypeOK
<1>1. ASSUME NEW f \in Inode, kind[f] # "free", ~cut'
      PROVE  content'[f] = content[f] \/ content'[f] = Append(content[f], "other")
  BY <1>1 DEF Meddled
<1>2. OwnBytes'
  <2>1. ASSUME NEW f \in Inode, f # Written
        PROVE  Own(content'[f]) = {}
    <3>1. Own(content[f]) = {} /\ content[f] \in Seq(Held)
      BY <2>1 DEF OwnBytes, HandsTypeOK
    <3>2. \/ content'[f] = content[f] \/ content'[f] = Append(content[f], "other")
          \/ content'[f] = <<>> \/ \E n \in Nat : content'[f] = [b \in 1..n |-> "other"]
      BY DEF Meddled
    <3> QED
      BY <3>1, <3>2, OwnIsNoOthers
  <2>2. Written' = Written
    BY <1>0 DEF Written
  <2> QED
    BY <2>1, <2>2 DEF OwnBytes
<1>3. WriteUnopened' /\ WriteEnded'
  BY <1>0 DEF WriteUnopened, WriteEnded, Ended
<1>4. WriteOpened'
  <2>1. ASSUME job.op = "write", job.file # Gone, ~cut'
        PROVE  OwnAreCounted'
    <3>1. job.file \in Inode /\ kind[job.file] # "free" /\ content[job.file] \in Seq(Held)
      BY <1>0, <2>1, JobFields DEF FilesInOrder, HandsTypeOK
    <3>2. Own(content'[job.file]) = Own(content[job.file])
      BY <1>1, <2>1, <3>1, OwnIsNoOthers
    <3>3. OwnAreCounted
      BY <1>0, <2>1 DEF WriteOpened
    <3> QED
      BY <1>0, <3>2, <3>3 DEF OwnAreCounted
  <2> HIDE DEF OwnAreCounted
  <2> QED
    BY <1>0, <2>1 DEF WriteOpened
<1> QED
  BY <1>2, <1>3, <1>4

LEMMA OthersKeepTheRead ==
    ASSUME HandsBounds, HandsTypeOK, HandsTypeOK', OptionsFit, FilesInOrder,
           ReadInv, ListInv, StatInv, Meddled
    PROVE  ReadInv' /\ ListInv' /\ StatInv'
<1>0. /\ UNCHANGED <<job, result, platform, moved>> /\ (cut => cut') /\ (slipped => slipped')
      /\ job.at # "done" /\ job \in Jobs /\ path \in Inode \cup {Gone}
      /\ Opening /\ ~slipped' => path' = path
  BY DEF Meddled, HandsTypeOK
<1>1. ASSUME NEW f \in Inode, kind[f] # "free"
      PROVE  /\ kind'[f] = kind[f]
             /\ ~cut' => Len(content[f]) <= Len(content'[f])
             /\ kind[f] = "dir" => content'[f] = content[f]
  <2>1. content[f] \in Seq(Held)
    BY DEF HandsTypeOK
  <2>2. Len(Append(content[f], "other")) = Len(content[f]) + 1 /\ Len(content[f]) \in Nat
    BY <2>1
  <2> QED
    BY <1>1, <2>2 DEF Meddled
<1>2. ReadInv'
  <2> SUFFICES ASSUME job.op = "read"
               PROVE  ReadInv'
    BY <1>0 DEF ReadInv
  <2>1. ASSUME job.at = "opening", ~cut', ~slipped'
        PROVE  IsFile' /\ NumberOr(job.opts, 0) <= Len(content'[path'])
    <3>1. path' = path /\ IsFile /\ NumberOr(job.opts, 0) <= Len(content[path])
      BY <1>0, <2>1 DEF ReadInv, Opening
    <3>2. path \in Inode /\ kind[path] = "file"
      BY <1>0, <3>1 DEF IsFile, Exists
    <3>3. kind'[path] = kind[path] /\ Len(content[path]) <= Len(content'[path])
      BY <1>1, <2>1, <3>2
    <3>4. /\ Len(content[path]) \in Nat /\ Len(content'[path]) \in Nat
          /\ NumberOr(job.opts, 0) \in Nat
      <4>1. job.opts \in OffsetOptions /\ content'[path] \in Seq(Held)
        BY <2>1, <3>2 DEF OptionsFit, HandsTypeOK
      <4> QED
        BY <3>2, <4>1, NumbersAreNat DEF HandsTypeOK
    <3> QED
      BY <3>1, <3>2, <3>3, <3>4 DEF IsFile, Exists
  <2>2. ASSUME job.at \in {"identifying", "checking", "reading"}, ~cut', ~slipped'
        PROVE  job.start + job.count <= Len(content'[job.file])
    <3>1. job.file \in Inode /\ kind[job.file] # "free" /\ job.start + job.count \in Nat
      BY <1>0, <2>2, JobFields DEF ReadInv, FilesInOrder
    <3>2. Len(content[job.file]) \in Nat /\ Len(content'[job.file]) \in Nat
      <4>1. content[job.file] \in Seq(Held) /\ content'[job.file] \in Seq(Held)
        BY <3>1 DEF HandsTypeOK
      <4> QED
        BY <4>1
    <3>3. job.start + job.count <= Len(content[job.file])
      BY <1>0, <2>2 DEF ReadInv
    <3>4. Len(content[job.file]) <= Len(content'[job.file])
      BY <1>1, <2>2, <3>1
    <3> QED
      BY <3>1, <3>2, <3>3, <3>4
  <2>3. job.at = "identifying" /\ ~slipped' => path' = job.file
    BY <1>0 DEF ReadInv, Opening
  <2>4. ~Ended("read")' /\ UNCHANGED job /\ UNCHANGED platform /\ UNCHANGED moved
    BY <1>0 DEF Ended
  <2>5. /\ job.at \in {"opening", "identifying", "checking", "reading", "done"}
        /\ job.at \in {"opening", "identifying"} => job.count = 0
        /\ job.at \in {"identifying", "checking", "reading"} => job.file # Gone
        /\ job.at = "opening" => Fits(job.opts, "number")
        /\ job.at \in {"checking", "reading"} /\ ~slipped' /\ platform.ids => job.seen = job.file
        /\ job.at = "reading" /\ ~slipped' /\ platform.ids => ~moved
    BY <1>0 DEF ReadInv
  <2> QED
    BY <2>1, <2>2, <2>3, <2>4, <2>5 DEF ReadInv
<1>3. ListInv'
  BY <1>0, <1>1, JobFields DEF ListInv, FilesInOrder, Ended
<1>4. StatInv'
  BY <1>0 DEF StatInv, Ended
<1> QED
  BY <1>2, <1>3, <1>4

LEMMA PendingIsFinite ==
    ASSUME watch \in Watches
    PROVE  /\ IsFiniteSet(Pending) /\ Cardinality(Pending) \in Nat
           /\ Pending \subseteq 1..Len(watch.queue)
<1>1. Len(watch.queue) \in Nat /\ Pending \in SUBSET (1..Len(watch.queue))
  BY WatchFields DEF Pending
<1>2. IsFiniteSet(1..Len(watch.queue))
  BY <1>1, FS_Interval
<1>3. IsFiniteSet(Pending)
  BY <1>1, <1>2, FS_Subset, Zenon
<1>4. Cardinality(Pending) \in Nat
  BY <1>3, FS_CardinalityType, Zenon
<1> QED
  BY <1>1, <1>3, <1>4

LEMMA NotifiedKeeps ==
    ASSUME watch \in Watches, NEW event \in Notices, NEW file, Notified(event, file),
           watch.on = "parent" \/ Concerns(event), UNCHANGED job, WatchInv
    PROVE  WatchInv'
<1>1. CASE watch' = watch
  BY <1>1 DEF WatchInv, Pending
<1>2. CASE watch' # watch
  <2> DEFINE counts == Concerns(event) /\ event.kind # "access"
             more   == IF counts THEN 1 ELSE 0
             last   == Len(watch.queue) + 1
  <2>1. PICK seen \in Notices :
           /\ watch.on = "parent" \/ (watch.on = "target" /\ watch.file = file)
           /\ watch.on = "parent" => seen = event
           /\ watch.on = "target" => seen.paths = <<"target">>
           /\ seen.kind = event.kind
           /\ watch' = [watch EXCEPT !.queue = Append(@, seen), !.owed = @ + more]
    BY <1>2, NotifiedDoes, Zenon
  <2>2. Concerns(seen) <=> Concerns(event)
    BY <2>1, NoticeFields
  <2>3. /\ watch'.on = watch.on /\ watch'.told = watch.told
        /\ watch'.queue = Append(watch.queue, seen) /\ watch'.owed = watch.owed + more
    BY <2>1 DEF Watches
  <2>4. /\ Len(watch'.queue) = last /\ watch'.queue[last] = seen
        /\ \A i \in 1..Len(watch.queue) : watch'.queue[i] = watch.queue[i]
        /\ Len(watch.queue) \in Nat
    BY <2>3, WatchFields
  <2>5. Pending' = Pending \cup (IF counts THEN {last} ELSE {})
    <3>1. 1..last = 1..Len(watch.queue) \cup {last}
      BY <2>4
    <3> QED
      BY <2>1, <2>2, <2>4, <3>1 DEF Pending
  <2>6. Cardinality(Pending') = Cardinality(Pending) + more
    <3>1. CASE counts
      <4>1. last \notin Pending
        BY <2>4, PendingIsFinite
      <4>2. Cardinality(Pending \cup {last}) = Cardinality(Pending) + 1
        BY <4>1, PendingIsFinite, FS_AddElement, Zenon
      <4> QED
        BY <2>5, <3>1, <4>2
    <3>2. CASE ~counts
      <4>1. Pending' = Pending /\ more = 0
        BY <2>5, <3>2
      <4> QED
        BY <4>1, PendingIsFinite
    <3> QED
      BY <3>1, <3>2
  <2>7. watch'.owed = Len(watch'.told) + Cardinality(Pending')
    <3>1. Len(watch.told) \in Nat /\ Cardinality(Pending) \in Nat /\ watch.owed \in Nat
      BY PendingIsFinite, WatchFields
    <3>2. watch.owed = Len(watch.told) + Cardinality(Pending)
      BY DEF WatchInv
    <3> QED
      BY <2>3, <2>6, <3>1, <3>2
  <2>8. watch'.on = "target" =>
           \A i \in 1..Len(watch'.queue) : watch'.queue[i].paths = <<"target">>
    BY <2>1, <2>3, <2>4 DEF WatchInv
  <2>9. job.at \notin {"idle", "refused"}
    BY <2>1 DEF WatchInv, NoWatch
  <2> QED
    BY <2>3, <2>7, <2>8, <2>9 DEF WatchInv
<1> QED
  BY <1>1, <1>2

LEMMA OthersKeepTheWatch ==
    ASSUME HandsTypeOK, WatchInv, Meddled
    PROVE  WatchInv'
<1>1. PICK event \in Notices, file \in Inode \cup {Gone} :
         Notified(event, file) /\ (watch.on = "parent" \/ Concerns(event))
  BY DEF Meddled
<1>2. UNCHANGED job /\ watch \in Watches
  BY DEF Meddled, HandsTypeOK
<1> QED
  BY <1>1, <1>2, NotifiedKeeps

-----------------------------------------------------------------------------
(* The steps of the call.                                                  *)

LEMMA CodeIsNotOk ==
    /\ \A errno \in Errnos : Code(errno) # "ok"
    /\ \A refusal \in Whys : ClassifyAnyhow(refusal) # "ok"
    /\ \A refusal \in Whys : ClassifyWatchRefusal(refusal) # "ok"
    /\ \A refusal \in {"none", "consumed", "poisoned", "closed"} : ConsumeRefusal(refusal) # "ok"
BY DEF Code, ClassifyAnyhow, ClassifyWatchRefusal, ConsumeRefusal

LEMMA RefusesKeeps ==
    ASSUME HandsTypeOK, CallInv, job.at = "idle", NEW op, NEW opts, NEW code, code # "ok",
           Refuses(op, opts, code), UNCHANGED watch, Quietly
    PROVE  CallInv'
<1>0. /\ job'.op = op /\ job'.at = "done" /\ job'.file = Gone /\ result'.code # "ok"
      /\ UNCHANGED <<path, kind, content, emptied, harmed, alive>>
      /\ job.op # "write" /\ watch = NoWatch
  BY DEF Refuses, NoCall, Quietly, disk, history, CallInv, WriteUnopened, WriteOpened, WatchInv
<1>1. FilesInOrder' /\ OwnBytes'
  BY <1>0, GoneIsNoInode DEF CallInv, FilesInOrder, OwnBytes, Written
<1>2. WriteUnopened' /\ WriteOpened' /\ WriteEnded'
  BY <1>0 DEF CallInv, WriteUnopened, WriteOpened, WriteEnded, Ended
<1>3. ReadInv' /\ ListInv' /\ StatInv'
  BY <1>0 DEF ReadInv, ListInv, StatInv, Ended
<1>4. WatchInv'
  BY <1>0 DEF CallInv, WatchInv, NoWatch, Pending
<1> QED
  BY <1>1, <1>2, <1>3, <1>4 DEF CallInv

LEMMA OpenKeeps ==
    ASSUME HandsTypeOK, CallInv, job.at = "idle", NEW op \in {"stat", "list", "read", "write"},
           NEW opts, NEW at \in {"opening", "identifying"}, Open(op, opts, at),
           UNCHANGED <<watch, result>>, Quietly,
           op # "stat" => at = "opening",
           op = "read" => /\ IsFile /\ Fits(opts, "number")
                          /\ NumberOr(opts, 0) <= Len(content[path]),
           op = "list" => opts \in BatchOptions /\ Fits(opts, "number"),
           op = "write" => Accepted(opts)
    PROVE  CallInv'
<1>0. /\ job'.op = op /\ job'.at = at /\ job'.file = Gone /\ job'.opts = opts
      /\ job'.start = 0 /\ job'.count = 0 /\ job'.left = Chunks
      /\ UNCHANGED <<path, kind, content, platform, result, emptied, harmed, alive,
                     cut, slipped>>
      /\ job.op # "write" /\ watch = NoWatch
  BY DEF Open, NoCall, Quietly, disk, history, CallInv, WriteUnopened, WriteOpened, WatchInv
<1>1. FilesInOrder' /\ OwnBytes'
  BY <1>0, GoneIsNoInode DEF CallInv, FilesInOrder, OwnBytes, Written
<1>2. WriteUnopened' /\ WriteOpened' /\ WriteEnded'
  BY <1>0 DEF CallInv, WriteUnopened, WriteOpened, WriteEnded, Ended
<1>3. ReadInv'
  BY <1>0 DEF ReadInv, Ended, IsFile, Exists
<1>4. ListInv' /\ StatInv'
  BY <1>0 DEF ListInv, StatInv, Ended
<1>5. WatchInv'
  BY <1>0 DEF CallInv, WatchInv, NoWatch, Pending
<1> QED
  BY <1>1, <1>2, <1>3, <1>4, <1>5 DEF CallInv

LEMMA ConcludesKeeps ==
    ASSUME HandsBounds, HandsTypeOK, CallInv, NEW reply, Concludes(reply),
           UNCHANGED watch, Quietly, ~(job.op = "watch" /\ job.at = "watching"),
           reply.code = "ok" =>
              /\ job.op = "write" =>
                    /\ job.file # Gone /\ reply.bytes = job.count /\ reply.endOffset = EndOffset
                    /\ alive => job.left = 0
              /\ job.op = "read" /\ ~cut /\ ~slipped =>
                    /\ job.start + job.count = Len(content[job.file])
                    /\ platform.ids => ~moved
              /\ job.op = "list" => job.count = Readable(content[job.file])
              /\ job.op = "stat" /\ IsDir =>
                    \/ reply.items = Readable(content[path])
                    \/ reply.more /\ reply.items = Preview
    PROVE  CallInv'
<1>0. /\ job'.at = "done" /\ job'.op = job.op /\ job'.opts = job.opts /\ job'.file = job.file
      /\ job'.start = job.start /\ job'.count = job.count /\ job'.left = job.left
      /\ job'.seen = job.seen /\ job'.why = job.why /\ result' = reply
  BY ConcludesFits DEF HandsTypeOK
<1>a. UNCHANGED <<path, kind, content, platform, alive, emptied, harmed, cut, slipped, moved>>
  BY DEF Quietly, disk, history
<1>1. FilesInOrder' /\ OwnBytes'
  BY <1>0, <1>a DEF CallInv, FilesInOrder, OwnBytes, Written
<1>2. WriteUnopened'
  BY <1>0, <1>a DEF CallInv, WriteUnopened
<1>3. WriteOpened'
  <2>1. OwnAreCounted => OwnAreCounted'
    BY <1>0, <1>a DEF OwnAreCounted
  <2> HIDE DEF OwnAreCounted
  <2> QED
    BY <1>0, <1>a, <2>1 DEF CallInv, WriteOpened
<1>4. WriteEnded'
  BY <1>0, <1>a DEF WriteEnded, Ended, EndOffset
<1>5. ReadInv'
  BY <1>0, <1>a DEF ReadInv, Ended
<1>6. ListInv' /\ StatInv'
  BY <1>0, <1>a DEF ListInv, StatInv, Ended, IsDir, Exists
<1>7. WatchInv'
  BY <1>0 DEF CallInv, WatchInv, Pending
<1> QED
  BY <1>1, <1>2, <1>3, <1>4, <1>5, <1>6, <1>7 DEF CallInv

\* A conclusion that is no success.
LEMMA FailsKeeps ==
    ASSUME HandsBounds, HandsTypeOK, CallInv, NEW code, code # "ok", Fails(code),
           UNCHANGED watch, Quietly, ~(job.op = "watch" /\ job.at = "watching")
    PROVE  CallInv'
<1>1. [code |-> code].code # "ok"
  OBVIOUS
<1> QED
  BY <1>1, ConcludesKeeps DEF Fails

LEMMA StatKeeps ==
    ASSUME HandsBounds, HandsInv, Stat \/ StatPreview
    PROVE  CallInv'
<1>0. HandsTypeOK /\ CallInv /\ watch' = watch /\ Quietly
  BY DEF HandsInv, Stat, StatPreview
<1>1. CASE Stat /\ Open("stat", Absent, "identifying") /\ result' = result
  <2>1. job.at = "idle" /\ UNCHANGED <<watch, result>>
    BY <1>0, <1>1 DEF Stat
  <2> QED
    BY <1>0, <1>1, <2>1, OpenKeeps
<1>2. CASE Stat /\ Refuses("stat", Absent, "null")
  BY <1>0, <1>2, RefusesKeeps DEF Stat
<1>3. CASE StatPreview
  <2> DEFINE items == IF IsDir THEN Readable(content[path]) ELSE 0
             reply == [code |-> "ok", id |-> Identity, more |-> items > Preview,
                       items |-> IF items > Preview THEN Preview ELSE items]
  <2>1. Concludes(reply) /\ job.op = "stat" /\ job.at = "identifying"
    BY <1>3 DEF StatPreview
  <2>2. IsDir => \/ reply.items = Readable(content[path])
                 \/ reply.more /\ reply.items = Preview
    OBVIOUS
  <2> HIDE DEF reply
  <2> QED
    BY <1>0, <2>1, <2>2, ConcludesKeeps
<1> QED
  BY <1>1, <1>2, <1>3 DEF Stat

LEMMA ListKeeps ==
    ASSUME HandsBounds, HandsInv, NEW batch \in BatchOptions, List(batch)
    PROVE  CallInv'
<1>0. HandsTypeOK /\ CallInv /\ watch' = watch /\ Quietly /\ job.at = "idle"
  BY DEF HandsInv, List
<1>1. CASE Fits(batch, "number") /\ Open("list", batch, "opening") /\ result' = result
  <2>1. UNCHANGED <<watch, result>>
    BY <1>0, <1>1
  <2> QED
    BY <1>0, <1>1, <2>1, OpenKeeps
<1>2. CASE \E code : code # "ok" /\ Refuses("list", batch, code)
  BY <1>0, <1>2, RefusesKeeps
<1>3. \/ Fits(batch, "number") /\ Open("list", batch, "opening") /\ result' = result
      \/ \E code : code # "ok" /\ Refuses("list", batch, code)
  <2>1. \/ Fits(batch, "number") /\ Open("list", batch, "opening") /\ result' = result
        \/ Refuses("list", batch, "EUNSUPPORTED") \/ Refuses("list", batch, "ENOENT")
        \/ Refuses("list", batch, "ENOTDIR")
    BY DEF List
  <2> QED
    BY <2>1
<1> QED
  BY <1>1, <1>2, <1>3

LEMMA ReadKeeps ==
    ASSUME HandsBounds, HandsInv, NEW offset \in OffsetOptions, Read(offset)
    PROVE  CallInv'
<1>0. /\ HandsTypeOK /\ CallInv /\ watch' = watch /\ Quietly /\ job.at = "idle"
      /\ path \in Inode \cup {Gone}
  BY DEF HandsInv, HandsTypeOK, Read
<1>a. NumberOr(offset, 0) \in Nat /\ (IsFile => Len(content[path]) \in Nat)
  BY <1>0, NumbersAreNat DEF HandsTypeOK, IsFile, Exists
<1>1. CASE /\ Open("read", offset, "opening") /\ result' = result
           /\ Fits(offset, "number") /\ IsFile /\ ~(NumberOr(offset, 0) > Len(content[path]))
  <2>1. UNCHANGED <<watch, result>> /\ NumberOr(offset, 0) <= Len(content[path])
    BY <1>0, <1>a, <1>1
  <2> QED
    BY <1>0, <1>1, <2>1, OpenKeeps
<1>2. CASE \E code : code # "ok" /\ Refuses("read", offset, code)
  BY <1>0, <1>2, RefusesKeeps
<1>3. \/ /\ Open("read", offset, "opening") /\ result' = result
         /\ Fits(offset, "number") /\ IsFile /\ ~(NumberOr(offset, 0) > Len(content[path]))
      \/ Refuses("read", offset, "EUNSUPPORTED") \/ Refuses("read", offset, "ENOENT")
      \/ Refuses("read", offset, "EISDIR") \/ Refuses("read", offset, "ESTALE")
  BY DEF Read, IsFile, IsDir
<1> QED
  BY <1>1, <1>2, <1>3

\* Null is no other than absent, so what is accepted plainly was accepted.
LEMMA PlainIsAccepted ==
    ASSUME NEW opts \in WriteOptions, ~IntentIsRefused(opts)
    PROVE  Accepted(Plain(opts))
<1> DEFINE p == Plain(opts)
<1>1. p \in WriteOptions
  BY PlainIsAWriteOption
<1>2. /\ p.mode = opts.mode
      /\ p.offset = IF Given(opts.offset) THEN opts.offset ELSE Absent
      /\ p.truncate = IF Given(opts.truncate) THEN opts.truncate ELSE Absent
      /\ p.append = IF Asked(opts.append) THEN opts.append ELSE Absent
  BY DEF Plain, WriteOptions
<1>3. ~Given(Absent) /\ ~Asked(Absent) /\ (\A o : Asked(o) => Given(o))
  BY DEF Given, Asked, Absent, Yes
<1> HIDE DEF p
<1>4. /\ Given(p.offset) <=> Given(opts.offset)
      /\ Given(p.truncate) <=> Given(opts.truncate)
      /\ Asked(p.append) <=> Asked(opts.append)
      /\ Asked(p.truncate) <=> Asked(opts.truncate)
      /\ NumberOr(p.offset, 0) = NumberOr(opts.offset, 0)
      /\ opts.truncate = Absent => p.truncate = Absent
  BY <1>2, <1>3 DEF NumberOr
<1>5. Truncates(p) <=> Truncates(opts)
  BY <1>4 DEF Truncates
<1>6. ~Contradicts(p)
  BY <1>4, <1>5 DEF IntentIsRefused, Contradicts
<1>7. Fits(p.offset, "number") /\ Fits(p.truncate, "flag") /\ Fits(p.append, "flag")
  BY <1>2, <1>3 DEF IntentIsRefused, Fits
<1>8. ~IntentIsRefused(p)
  BY <1>2, <1>6, <1>7 DEF IntentIsRefused
<1> QED
  BY <1>1, <1>8 DEF Accepted, p

LEMMA StartWriteKeeps ==
    ASSUME HandsBounds, HandsInv, NEW opts \in WriteOptions, StartWrite(opts)
    PROVE  CallInv'
<1>0. HandsTypeOK /\ CallInv /\ watch' = watch /\ Quietly /\ job.at = "idle"
  BY DEF HandsInv, StartWrite
<1>1. CASE ~IntentIsRefused(opts) /\ Open("write", Plain(opts), "opening") /\ result' = result
  <2>1. UNCHANGED <<watch, result>> /\ Accepted(Plain(opts))
    BY <1>0, <1>1, PlainIsAccepted
  <2> QED
    BY <1>0, <1>1, <2>1, OpenKeeps
<1>2. CASE \E code : code # "ok" /\ Refuses("write", opts, code)
  BY <1>0, <1>2, RefusesKeeps
<1>3. \/ ~IntentIsRefused(opts) /\ Open("write", Plain(opts), "opening") /\ result' = result
      \/ Refuses("write", opts, "EUNSUPPORTED") \/ Refuses("write", opts, "EISDIR")
  BY DEF StartWrite
<1> QED
  BY <1>1, <1>2, <1>3

LEMMA UnreachableKeeps ==
    ASSUME HandsBounds, HandsInv, NEW op, Unreachable(op)
    PROVE  CallInv'
<1>1. /\ HandsTypeOK /\ CallInv /\ watch' = watch /\ Quietly /\ job.at = "idle"
      /\ \E errno \in Errnos : Refuses(op, Absent, Code(errno))
  BY DEF HandsInv, Unreachable
<1> QED
  BY <1>1, CodeIsNotOk, RefusesKeeps

LEMMA FailingKeeps ==
    ASSUME HandsBounds, HandsInv,
           Strikes \/ StreamFails \/ \E carrier \in Carriers : ChunkFails(carrier)
    PROVE  CallInv'
<1>1. /\ HandsTypeOK /\ CallInv /\ watch' = watch /\ Quietly
      /\ job.op # "watch" /\ \E code : code # "ok" /\ Fails(code)
  <2>1. CASE Strikes
    BY <2>1, CodeIsNotOk DEF HandsInv, Strikes
  <2>2. CASE StreamFails \/ \E carrier \in Carriers : ChunkFails(carrier)
    BY <2>2 DEF HandsInv, StreamFails, ChunkFails
  <2> QED
    BY <2>1, <2>2
<1> QED
  BY <1>1, FailsKeeps

LEMMA ReadableAdds ==
    ASSUME NEW entries, NEW to \in Nat, NEW from \in 0..to
    PROVE  ReadableIn(entries, 1, to) =
              ReadableIn(entries, 1, from) + ReadableIn(entries, from + 1, to)
<1> DEFINE Good(a, b) == {i \in a..b : entries[i] = "good"}
<1>1. IsFiniteSet(Good(1, from)) /\ IsFiniteSet(Good(from + 1, to))
  <2>1. from \in Int /\ from + 1 \in Int /\ to \in Int /\ 1 \in Int
    OBVIOUS
  <2>2. \A a, b \in Int : IsFiniteSet({i \in a..b : entries[i] = "good"})
    BY ReadableIsNat, Zenon
  <2> QED
    BY <2>1, <2>2, Zenon
<1>2. Good(1, to) = Good(1, from) \cup Good(from + 1, to)
  OBVIOUS
<1>3. Good(1, from) \cap Good(from + 1, to) = {}
  OBVIOUS
<1> HIDE DEF Good
<1>4. Cardinality(Good(1, from) \cup Good(from + 1, to))
         = Cardinality(Good(1, from)) + Cardinality(Good(from + 1, to))
         - Cardinality(Good(1, from) \cap Good(from + 1, to))
  BY <1>1, FS_Union, Zenon
<1>5. /\ Cardinality(Good(1, from)) \in Nat /\ Cardinality(Good(from + 1, to)) \in Nat
      /\ Cardinality({}) = 0
  BY <1>1, FS_CardinalityType, FS_EmptySet, Zenon
<1> QED
  BY <1>2, <1>3, <1>4, <1>5 DEF ReadableIn, Good

\* What a step of a listing or a read that goes on leaves as it is.
LEMMA ReaderKeeps ==
    ASSUME HandsTypeOK, CallInv, job.op \in {"list", "read"}, job'.op = job.op,
           job'.at \notin {"idle", "refused"}, job'.at = "done" => result'.code # "ok",
           job'.file # Gone => kind[job'.file] # "free",
           UNCHANGED <<path, kind, content, platform, alive, watch, emptied, harmed>>
    PROVE  /\ FilesInOrder' /\ OwnBytes' /\ WriteUnopened' /\ WriteOpened' /\ WriteEnded'
           /\ StatInv' /\ WatchInv'
<1>1. FilesInOrder' /\ OwnBytes'
  BY DEF CallInv, FilesInOrder, OwnBytes, Written
<1>2. WriteUnopened' /\ WriteOpened' /\ WriteEnded'
  BY DEF CallInv, WriteUnopened, WriteOpened, WriteEnded, Ended
<1>3. StatInv'
  BY DEF StatInv, Ended
<1>4. WatchInv'
  BY DEF CallInv, WatchInv, NoWatch, Pending
<1> QED
  BY <1>1, <1>2, <1>3, <1>4

LEMMA OpenDirectoryKeeps ==
    ASSUME HandsBounds, HandsInv, OpenDirectory
    PROVE  CallInv'
<1>0. /\ HandsTypeOK /\ OptionsFit /\ CallInv /\ watch' = watch /\ Quietly
      /\ job.op = "list" /\ job.at = "opening" /\ path \in Inode \cup {Gone}
  BY DEF HandsInv, HandsTypeOK, OpenDirectory
<1>1. CASE \E code : code # "ok" /\ Fails(code)
  BY <1>0, <1>1, FailsKeeps
<1>2. CASE IsDir /\ result' = result /\ job' = [job EXCEPT !.at = "reading", !.file = path]
  <2>0. UNCHANGED <<path, kind, content, platform, alive, watch, result, emptied, harmed>>
    BY <1>0, <1>2 DEF Quietly, disk, history
  <2>1. /\ job'.op = "list" /\ job'.at = "reading" /\ job'.file = path
        /\ job'.opts = job.opts /\ job'.start = job.start /\ job'.count = job.count
    BY <1>0, <1>2, JobsAre DEF HandsTypeOK
  <2>2. path \in Inode /\ kind[path] = "dir" /\ Len(content[path]) \in Nat
    BY <1>0, <1>2 DEF IsDir, Exists, HandsTypeOK
  <2>3. ReadableIn(content[path], 1, 0) = 0
    <3>1. {i \in 1..0 : content[path][i] = "good"} = {} /\ Cardinality({}) = 0
      BY FS_EmptySet
    <3> QED
      BY <3>1 DEF ReadableIn
  <2>4. ReadInv' /\ ListInv'
    BY <1>0, <2>0, <2>1, <2>2, <2>3, GoneIsNoInode DEF CallInv, ListInv, ReadInv, Ended
  <2>5. job'.file # Gone => kind[job'.file] # "free"
    BY <2>1, <2>2
  <2> QED
    BY <1>0, <2>0, <2>1, <2>4, <2>5, ReaderKeeps DEF CallInv
<1>3. \/ \E code : code # "ok" /\ Fails(code)
      \/ IsDir /\ result' = result /\ job' = [job EXCEPT !.at = "reading", !.file = path]
  <2>1. \/ Fails("ENOENT") \/ Fails("ENOTDIR")
        \/ IsDir /\ result' = result /\ job' = [job EXCEPT !.at = "reading", !.file = path]
    BY DEF OpenDirectory, IsDir
  <2> QED
    BY <2>1
<1> QED
  BY <1>1, <1>2, <1>3

LEMMA NextBatchKeeps ==
    ASSUME HandsBounds, HandsInv, NextBatch
    PROVE  CallInv'
<1> DEFINE entries == content[job.file]
           size    == BatchSize(job.opts)
           end     == BatchEnd(entries, job.start, size)
           sent    == ReadableIn(entries, job.start + 1, end)
<1>0. /\ HandsTypeOK /\ OptionsFit /\ CallInv /\ watch' = watch /\ Quietly
      /\ job.op = "list" /\ job.at = "reading" /\ job.opts \in BatchOptions
      /\ job.file \in Inode /\ kind[job.file] = "dir" /\ job.start <= Len(entries)
      /\ job.count = ReadableIn(entries, 1, job.start)
  BY JobFields DEF HandsInv, HandsTypeOK, OptionsFit, NextBatch, CallInv, ListInv
<1>1. /\ IF sent = 0 THEN Fails("ok")
         ELSE job' = [job EXCEPT !.start = end, !.count = @ + sent] /\ UNCHANGED result
  BY DEF NextBatch
<1>2. entries \in Seq(Held) /\ job.start \in 0..Len(entries) /\ Len(entries) \in Nat
      /\ job.count \in Nat /\ job \in Jobs
  BY <1>0, JobFields DEF HandsTypeOK
<1>3. size \in Nat /\ size >= 1
  BY <1>0, NumbersAreNat DEF BatchSize
<1> HIDE DEF size
<1>4. end \in job.start..Len(entries)
      /\ (end = Len(entries) \/ ReadableIn(entries, job.start + 1, end) >= size)
  BY <1>2, <1>3, BatchEndIs, Zenon
<1>5. ReadableIn(entries, 1, end) = job.count + sent
  <2>1. end \in Nat /\ job.start \in 0..end
    BY <1>2, <1>4
  <2> QED
    BY <1>0, <2>1, ReadableAdds
<1> HIDE DEF end
<1>6. CASE sent = 0
  <2>1. end = Len(entries)
    BY <1>3, <1>4, <1>6
  <2>2. job.count = Readable(content[job.file])
    BY <1>2, <1>5, <1>6, <2>1 DEF Readable
  <2>3. Concludes([code |-> "ok"])
    BY <1>1, <1>6 DEF Fails
  <2> HIDE DEF entries, sent
  <2> QED
    BY <1>0, <2>2, <2>3, ConcludesKeeps
<1>7. CASE sent # 0
  <2>0. UNCHANGED <<path, kind, content, platform, alive, watch, result, emptied, harmed>>
    BY <1>0, <1>1, <1>7 DEF Quietly, disk, history
  <2>1. /\ job'.op = "list" /\ job'.at = "reading" /\ job'.file = job.file
        /\ job'.opts = job.opts /\ job'.start = end /\ job'.count = job.count + sent
    BY <1>0, <1>1, <1>2, <1>7, JobsAre
  <2>4. ReadInv' /\ ListInv'
    BY <1>0, <1>4, <1>5, <2>0, <2>1, GoneIsNoInode DEF CallInv, ListInv, ReadInv, Ended
  <2>5. job'.file # Gone => kind[job'.file] # "free"
    BY <1>0, <2>1
  <2> QED
    BY <1>0, <2>0, <2>1, <2>4, <2>5, ReaderKeeps DEF CallInv
<1> QED
  BY <1>6, <1>7

LEMMA OpenForReadKeeps ==
    ASSUME HandsBounds, HandsInv, OpenForRead
    PROVE  CallInv'
<1>0. /\ HandsTypeOK /\ OptionsFit /\ CallInv /\ watch' = watch /\ Quietly
      /\ job.op = "read" /\ job.at = "opening" /\ path \in Inode \cup {Gone}
  BY DEF HandsInv, HandsTypeOK, OpenForRead
<1>1. CASE Fails("ENOENT")
  BY <1>0, <1>1, FailsKeeps
<1>2. CASE /\ Exists /\ result' = result
           /\ job' = [job EXCEPT !.at = "identifying", !.file = path,
                                 !.start = NumberOr(job.opts, 0)]
  <2>0. UNCHANGED <<path, kind, content, platform, alive, watch, result, emptied, harmed,
                    cut, slipped, moved>>
    BY <1>0, <1>2 DEF Quietly, disk, history
  <2>1. /\ job'.op = "read" /\ job'.at = "identifying" /\ job'.file = path
        /\ job'.start = NumberOr(job.opts, 0) /\ job'.count = 0
    BY <1>0, <1>2, JobsAre DEF HandsTypeOK, CallInv, ReadInv
  <2>2. path # Gone /\ kind[path] # "free"
    BY <1>2 DEF Exists, CallInv, HandsInv, FilesInOrder
  <2>3. NumberOr(job.opts, 0) \in Nat
    BY <1>0, NumbersAreNat DEF OptionsFit
  <2>4. ReadInv'
    BY <1>0, <2>0, <2>1, <2>2, <2>3 DEF CallInv, ReadInv, Ended
  <2>5. ListInv'
    BY <2>1 DEF ListInv, Ended
  <2> QED
    BY <1>0, <2>0, <2>1, <2>2, <2>4, <2>5, ReaderKeeps DEF CallInv
<1> QED
  BY <1>1, <1>2 DEF OpenForRead

LEMMA IdentifyKeeps ==
    ASSUME HandsBounds, HandsInv, Identify
    PROVE  CallInv'
<1>0. /\ HandsTypeOK /\ CallInv /\ result' = result
      /\ job.op = "read" /\ job.at = "identifying" /\ job.file # Gone
      /\ UNCHANGED <<path, kind, content, platform, alive, watch, emptied, harmed,
                     cut, slipped, moved>>
  BY DEF HandsInv, CallInv, ReadInv, Identify, Quietly, disk, history
<1>1. /\ job'.op = "read" /\ job'.at = "checking" /\ job'.file = job.file
      /\ job'.start = job.start /\ job'.count = job.count /\ job'.seen = Identity
  BY <1>0, JobsAre DEF HandsTypeOK, Identify
<1>2. ReadInv'
  BY <1>0, <1>1 DEF CallInv, ReadInv, Ended, Identity, Exists
<1>3. ListInv'
  BY <1>1 DEF ListInv, Ended
<1>4. job'.file # Gone => kind[job'.file] # "free"
  BY <1>0, <1>1 DEF CallInv, FilesInOrder
<1> QED
  BY <1>0, <1>1, <1>2, <1>3, <1>4, ReaderKeeps DEF CallInv

LEMMA CheckKeeps ==
    ASSUME HandsBounds, HandsInv, Check
    PROVE  CallInv'
<1>0. /\ HandsTypeOK /\ CallInv
      /\ job.op = "read" /\ job.at = "checking" /\ job.file # Gone /\ moved' = (path # job.file)
      /\ UNCHANGED <<path, kind, content, platform, alive, watch, emptied, harmed, cut, slipped>>
  BY DEF HandsInv, CallInv, ReadInv, Check, disk
<1>1. /\ job'.op = "read" /\ job'.file = job.file
      /\ job'.start = job.start /\ job'.count = job.count /\ job'.seen = job.seen
      /\ \/ job'.at = "done" /\ result'.code # "ok"
         \/ /\ job'.at = "reading" /\ result' = result
            /\ ~(Identity = Gone /\ ~Exists)
            /\ ~(Identity # Gone /\ job.seen # Gone /\ Identity # job.seen)
  <2>1. CASE \E code : code # "ok" /\ Fails(code)
    BY <1>0, <2>1, ConcludesFits DEF Fails, HandsTypeOK
  <2>2. CASE job' = [job EXCEPT !.at = "reading"]
    BY <1>0, <2>2, JobsAre DEF HandsTypeOK, Check, Fails, Concludes
  <2>3. Fails("ENOENT") \/ Fails("ESTALE") \/ job' = [job EXCEPT !.at = "reading"]
    BY DEF Check
  <2> QED
    BY <2>1, <2>2, <2>3
<1>2. ReadInv'
  <2>1. job'.at = "reading" /\ ~slipped /\ platform.ids => path = job.file
    BY <1>0, <1>1 DEF CallInv, ReadInv, Identity, Exists
  <2> QED
    BY <1>0, <1>1, <2>1 DEF CallInv, ReadInv, Ended
<1>3. ListInv'
  BY <1>1 DEF ListInv, Ended
<1>4. job'.file # Gone => kind[job'.file] # "free"
  BY <1>0, <1>1 DEF CallInv, FilesInOrder
<1> QED
  BY <1>0, <1>1, <1>2, <1>3, <1>4, ReaderKeeps DEF CallInv

LEMMA ReadChunkKeeps ==
    ASSUME HandsBounds, HandsInv, ReadChunk
    PROVE  CallInv'
<1>0. /\ HandsTypeOK /\ CallInv /\ watch' = watch /\ Quietly /\ job \in Jobs
      /\ job.op = "read" /\ job.at = "reading" /\ job.file \in Inode
  BY JobFields DEF HandsInv, HandsTypeOK, CallInv, ReadInv, ReadChunk
<1>a. /\ job.start \in Nat /\ job.count \in Nat /\ Len(content[job.file]) \in Nat
      /\ ~cut /\ ~slipped => job.start + job.count <= Len(content[job.file])
      /\ ~slipped /\ platform.ids => ~moved
  BY <1>0, JobFields, GoneIsNoInode DEF HandsTypeOK, CallInv, ReadInv
<1>1. CASE Fails("EISDIR")
  BY <1>0, <1>1, FailsKeeps
<1>2. CASE job.start + job.count >= Len(content[job.file]) /\ Fails("ok")
  <2>1. ~cut /\ ~slipped => job.start + job.count = Len(content[job.file])
    BY <1>a, <1>2
  <2>2. Concludes([code |-> "ok"])
    BY <1>2 DEF Fails
  <2> QED
    BY <1>0, <1>a, <2>1, <2>2, ConcludesKeeps
<1>3. CASE /\ ~(job.start + job.count >= Len(content[job.file])) /\ result' = result
           /\ job' = [job EXCEPT !.at = "checking", !.count = @ + 1]
  <2>0. UNCHANGED <<path, kind, content, platform, alive, watch, result, emptied, harmed,
                    cut, slipped, moved>>
    BY <1>0, <1>3 DEF Quietly, disk, history
  <2>1. /\ job'.op = "read" /\ job'.at = "checking" /\ job'.file = job.file
        /\ job'.start = job.start /\ job'.count = job.count + 1 /\ job'.seen = job.seen
    BY <1>0, <1>3, JobsAre
  <2>2. job.start + (job.count + 1) <= Len(content[job.file])
    BY <1>a, <1>3
  <2>3. ReadInv'
    BY <1>0, <2>0, <2>1, <2>2 DEF CallInv, ReadInv, Ended
  <2>4. ListInv'
    BY <2>1 DEF ListInv, Ended
  <2>5. job'.file # Gone => kind[job'.file] # "free"
    BY <1>0, <2>1 DEF CallInv, FilesInOrder
  <2> QED
    BY <1>0, <2>0, <2>1, <2>3, <2>4, <2>5, ReaderKeeps DEF CallInv
<1> QED
  BY <1>1, <1>2, <1>3 DEF ReadChunk

\* What a step of a write that goes on leaves as it is.
LEMMA WriterKeeps ==
    ASSUME HandsTypeOK, CallInv, job.op = "write", job'.op = "write",
           job'.at \notin {"idle", "refused", "done"}, UNCHANGED watch
    PROVE  ReadInv' /\ ListInv' /\ StatInv' /\ WatchInv' /\ WriteEnded'
<1>1. ReadInv' /\ ListInv' /\ StatInv' /\ WriteEnded'
  BY DEF ReadInv, ListInv, StatInv, WriteEnded, Ended
<1>2. WatchInv'
  BY DEF CallInv, WatchInv, NoWatch, Pending
<1> QED
  BY <1>1, <1>2

\* A file that is opened holds nothing of the call's yet.
LEMMA OpenForWriteKeeps ==
    ASSUME HandsBounds, HandsInv, OpenForWrite
    PROVE  CallInv'
<1>0. /\ HandsTypeOK /\ OptionsFit /\ CallInv /\ job \in Jobs
      /\ job.op = "write" /\ job.at = "opening" /\ job.opts \in WriteOptions
      /\ UNCHANGED <<platform, alive, watch, deeds, harmed, cut, slipped, moved>>
  BY OpenForWriteDoes DEF HandsInv, HandsTypeOK
<1>a. /\ job.file = Gone /\ ~emptied /\ harmed = {} /\ Accepted(job.opts)
      /\ job.count = 0 /\ job.left = Chunks /\ Chunks \in Nat
      /\ \A f \in Inode : Own(content[f]) = {}
  <2>1. job.file = Gone
    BY <1>0 DEF CallInv, WriteOpened
  <2> QED
    BY <1>0, <2>1, GoneIsNoInode DEF CallInv, WriteUnopened, OwnBytes, Written, HandsBounds
<1>1. CASE Fails("EISDIR") /\ UNCHANGED <<path, kind, content, emptied>>
  <2>1. Quietly /\ UNCHANGED watch
    BY <1>0, <1>1 DEF Quietly, disk, history
  <2> QED
    BY <1>0, <1>1, <2>1, FailsKeeps
<1>2. ASSUME NEW file \in Inode,
             job' = [job EXCEPT !.at = "consuming", !.file = file,
                                !.start = WriteIntent(job.opts).offset],
             result' = result, FilesInOrder',
             \A f \in Inode : content'[f] = content[f] \/ content'[f] = <<>>,
             emptied' => WriteIntent(job.opts).truncate
      PROVE  CallInv'
  <2>1. /\ job'.op = "write" /\ job'.at = "consuming" /\ job'.file = file
        /\ job'.opts = job.opts /\ job'.count = 0 /\ job'.left = Chunks
        /\ job'.start = NumberOr(job.opts.offset, 0)
    <3>1. /\ job'.op = "write" /\ job'.at = "consuming" /\ job'.file = file
          /\ job'.opts = job.opts /\ job'.count = job.count /\ job'.left = job.left
          /\ job'.start = WriteIntent(job.opts).offset
      BY <1>0, <1>2, JobsAre
    <3> QED
      BY <1>0, <1>a, <3>1, IntentIsNat
  <2>2. \A f \in Inode : Own(content'[f]) = {}
    BY <1>2, <1>a, OwnIsNoOthers
  <2>3. OwnBytes' /\ OwnAreCounted'
    <3>1. Own(content'[job'.file]) = {} /\ Cardinality({}) = 0
      BY <2>1, <2>2, FS_EmptySet
    <3> QED
      BY <2>1, <2>2, <3>1 DEF OwnBytes, OwnAreCounted
  <2>4. WriteUnopened'
    BY <2>1, GoneIsNoInode DEF WriteUnopened
  <2>5. WriteOpened'
    <3> HIDE DEF OwnAreCounted
    <3> QED
      BY <1>0, <1>2, <1>a, <2>1, <2>3 DEF WriteOpened
  <2> QED
    BY <1>0, <1>2, <2>1, <2>3, <2>4, <2>5, WriterKeeps DEF CallInv
<1>3. ASSUME NEW file \in Inode, path = file, UNCHANGED <<path, kind>>, job'.file = file,
             content' = IF WriteIntent(job.opts).truncate
                        THEN [content EXCEPT ![file] = <<>>] ELSE content
      PROVE  /\ FilesInOrder'
             /\ \A f \in Inode : content'[f] = content[f] \/ content'[f] = <<>>
  <2>1. kind[file] # "free"
    BY <1>3, GoneIsNoInode DEF HandsInv, CallInv, FilesInOrder
  <2>2. FilesInOrder'
    BY <1>3, <2>1 DEF HandsInv, CallInv, FilesInOrder
  <2> QED
    BY <1>3, <2>2 DEF HandsInv, HandsTypeOK
<1>4. ASSUME NEW file \in Inode, job'.file = file,
             kind[file] = "free", \A f \in Inode : kind[f] = "free" => file <= f,
             path' = file, kind' = [kind EXCEPT ![file] = "file"]
      PROVE  FilesInOrder'
  <2>1. PICK n \in 0..MaxFiles : \A i \in Inode : kind[i] # "free" <=> i <= n
    BY DEF HandsInv, CallInv, FilesInOrder
  <2>2. file = n + 1 /\ n + 1 \in 0..MaxFiles
    BY <1>4, <2>1 DEF Inode, HandsBounds
  <2>3. \A i \in Inode : kind'[i] # "free" <=> i <= n + 1
    BY <1>4, <2>1, <2>2 DEF HandsInv, HandsTypeOK, Inode
  <2>4. kind'[file] # "free"
    BY <1>4 DEF HandsInv, HandsTypeOK
  <2> QED
    BY <1>4, <2>2, <2>3, <2>4 DEF FilesInOrder
<1>5. CASE ~(Fails("EISDIR") /\ UNCHANGED <<path, kind, content, emptied>>)
  <2>1. PICK file \in Inode :
           /\ job' = [job EXCEPT !.at = "consuming", !.file = file,
                                 !.start = WriteIntent(job.opts).offset]
           /\ result' = result
           /\ \/ /\ path = file /\ UNCHANGED <<path, kind>>
                 /\ content' = IF WriteIntent(job.opts).truncate
                               THEN [content EXCEPT ![file] = <<>>] ELSE content
                 /\ emptied' = (WriteIntent(job.opts).truncate /\ content[file] # <<>>)
              \/ /\ kind[file] = "free" /\ \A f \in Inode : kind[f] = "free" => file <= f
                 /\ path = Gone /\ path' = file
                 /\ kind' = [kind EXCEPT ![file] = "file"]
                 /\ UNCHANGED <<content, emptied>>
    BY <1>0, <1>5, OpenForWriteDoes, Zenon DEF HandsInv
  <2>2. job'.file = file
    BY <1>0, <2>1, JobsAre
  <2>3. CASE path = file /\ UNCHANGED <<path, kind>>
    <3>1. /\ content' = IF WriteIntent(job.opts).truncate
                        THEN [content EXCEPT ![file] = <<>>] ELSE content
          /\ emptied' => WriteIntent(job.opts).truncate
      <4>1. path # Gone
        BY <2>3, GoneIsNoInode
      <4> QED
        BY <1>a, <2>1, <2>3, <4>1
    <3>2. FilesInOrder' /\ \A f \in Inode : content'[f] = content[f] \/ content'[f] = <<>>
      BY <1>3, <2>2, <2>3, <3>1, Zenon
    <3> QED
      BY <1>2, <2>1, <3>1, <3>2, Zenon
  <2>4. CASE ~(path = file /\ UNCHANGED <<path, kind>>)
    <3>1. /\ kind[file] = "free" /\ \A f \in Inode : kind[f] = "free" => file <= f
          /\ path' = file /\ kind' = [kind EXCEPT ![file] = "file"]
          /\ UNCHANGED <<content, emptied>>
      BY <2>1, <2>4, Zenon
    <3>2. FilesInOrder'
      BY <1>4, <2>2, <3>1, Zenon
    <3>3. ~emptied' /\ \A f \in Inode : content'[f] = content[f]
      BY <1>a, <3>1
    <3> QED
      BY <1>2, <2>1, <3>2, <3>3, Zenon
  <2> QED
    BY <2>3, <2>4
<1> QED
  BY <1>1, <1>5

LEMMA ConsumeKeeps ==
    ASSUME HandsBounds, HandsInv,
           NEW refusal \in {"none", "consumed", "poisoned", "closed"}, Consume(refusal)
    PROVE  CallInv'
<1>0. /\ HandsTypeOK /\ CallInv /\ watch' = watch /\ Quietly /\ job \in Jobs
      /\ job.op = "write" /\ job.at = "consuming"
  BY DEF HandsInv, HandsTypeOK, Consume
<1>1. CASE Fails(ConsumeRefusal(refusal))
  BY <1>0, <1>1, CodeIsNotOk, FailsKeeps
<1>2. CASE job' = [job EXCEPT !.at = "writing"] /\ result' = result
  <2>0. UNCHANGED <<path, kind, content, emptied, harmed, alive, cut>>
    BY <1>0 DEF Quietly, disk, history
  <2>1. /\ job'.op = "write" /\ job'.at = "writing" /\ job'.file = job.file
        /\ job'.opts = job.opts /\ job'.start = job.start /\ job'.count = job.count
        /\ job'.left = job.left /\ job'.seen = job.seen
    BY <1>0, <1>2, JobsAre
  <2>2. job.file # Gone
    BY <1>0 DEF CallInv, WriteUnopened
  <2>3. FilesInOrder' /\ OwnBytes' /\ WriteUnopened'
    BY <1>0, <2>0, <2>1, <2>2 DEF CallInv, FilesInOrder, OwnBytes, Written, WriteUnopened
  <2>4. WriteOpened'
    <3>1. OwnAreCounted => OwnAreCounted'
      BY <2>0, <2>1 DEF OwnAreCounted
    <3> HIDE DEF OwnAreCounted
    <3> QED
      BY <1>0, <2>0, <2>1, <2>2, <3>1 DEF CallInv, WriteOpened
  <2> QED
    BY <1>0, <2>1, <2>3, <2>4, WriterKeeps DEF CallInv
<1> QED
  BY <1>1, <1>2 DEF Consume

LEMMA FinishKeeps ==
    ASSUME HandsBounds, HandsInv, Finish
    PROVE  CallInv'
<1> DEFINE reply == [code |-> "ok", bytes |-> job.count, endOffset |-> EndOffset,
                     mode |-> Label(WriteIntent(job.opts))]
<1>0. /\ HandsTypeOK /\ CallInv /\ watch' = watch /\ Quietly /\ Concludes(reply)
      /\ job.op = "write" /\ job.at = "writing" /\ (job.left = 0 \/ ~alive)
  BY DEF HandsInv, Finish
<1>1. job.file # Gone
  BY <1>0 DEF CallInv, WriteUnopened
<1>2. reply.bytes = job.count /\ reply.endOffset = EndOffset
  OBVIOUS
<1> HIDE DEF reply
<1> QED
  BY <1>0, <1>1, <1>2, ConcludesKeeps

LEMMA UnloadKeeps ==
    ASSUME HandsInv, Unload
    PROVE  CallInv'
<1>0. /\ UNCHANGED <<path, kind, content, platform, job, result, watch,
                     emptied, harmed, cut, slipped, moved>>
      /\ job.op = "write" /\ job.at # "done" /\ CallInv
  BY DEF HandsInv, Unload, disk, history
<1>1. FilesInOrder' /\ OwnBytes' /\ WriteUnopened' /\ WriteEnded'
  BY <1>0 DEF CallInv, FilesInOrder, OwnBytes, Written, WriteUnopened, WriteEnded, Ended
<1>2. WriteOpened'
  <2>1. OwnAreCounted => OwnAreCounted'
    BY <1>0 DEF OwnAreCounted
  <2> HIDE DEF OwnAreCounted
  <2> QED
    BY <1>0, <2>1 DEF CallInv, WriteOpened
<1>3. ReadInv' /\ ListInv' /\ StatInv' /\ WatchInv'
  BY <1>0 DEF CallInv, ReadInv, ListInv, StatInv, Ended, WatchInv, Pending
<1> QED
  BY <1>1, <1>2, <1>3 DEF CallInv

\* Where a chunk goes there is none of the call's bytes yet, nobody cutting
\* the file, so each chunk adds one to them.
LEMMA WriteChunkKeeps ==
    ASSUME HandsBounds, HandsInv, NEW carrier, WriteChunk(carrier)
    PROVE  CallInv'
<1> DEFINE at    == Position
           file  == job.file
           bytes == content[file]
           after == Write(bytes, at, "own")
           joins == WriteIntent(job.opts).append
<1>0. /\ HandsTypeOK /\ OptionsFit /\ CallInv /\ job \in Jobs
      /\ job.op = "write" /\ job.at = "writing" /\ job.left > 0
      /\ content' = [content EXCEPT ![file] = after]
      /\ harmed' = harmed \cup (IF at < Len(bytes) /\ bytes[at + 1] # "own" THEN {at} ELSE {})
      /\ job' = [job EXCEPT !.count = @ + 1, !.left = @ - 1, !.seen = at + 1]
      /\ UNCHANGED <<path, kind, watch, result, alive, emptied, cut>>
  BY DEF HandsInv, HandsTypeOK, WriteChunk
<1>1. /\ file \in Inode /\ file # Gone /\ bytes \in Seq(Held) /\ at \in Nat /\ Len(bytes) \in Nat
      /\ job.count \in Nat /\ job.left \in Nat /\ job.start \in Nat /\ job.seen \in Nat
  BY <1>0, WriteChunkIsAt, GoneIsNoInode, JobFields DEF CallInv
<1>2. at = IF joins THEN Len(bytes) ELSE job.start + job.count
  BY DEF Position
<1>3. /\ Len(after) = IF at < Len(bytes) THEN Len(bytes) ELSE at + 1
      /\ after[at + 1] = "own"
      /\ \A b \in 1..Len(bytes) : b # at + 1 => after[b] = bytes[b]
      /\ \A b \in Len(bytes) + 1..at : after[b] = "nul"
  BY <1>1, WriteDoes, Zenon
<1>4. job' = [job EXCEPT !.count = job.count + 1, !.left = job.left - 1, !.seen = at + 1]
  BY <1>0
<1>5. /\ content'[file] = after /\ \A f \in Inode : f # file => content'[f] = content[f]
  BY <1>0, <1>1 DEF HandsTypeOK
<1> HIDE DEF at, after, joins
<1>6. /\ job'.op = "write" /\ job'.at = "writing" /\ job'.file = file
      /\ job'.opts = job.opts /\ job'.start = job.start /\ job'.count = job.count + 1
      /\ job'.left = job.left - 1 /\ job'.seen = at + 1
  BY <1>0, <1>4, JobsAre
<1>7. /\ Accepted(job.opts) /\ job.start = NumberOr(job.opts.offset, 0)
      /\ job.count + job.left = Chunks
      /\ emptied => WriteIntent(job.opts).truncate
      /\ joins => harmed = {}
      /\ \A h \in harmed : h >= job.start /\ h < job.start + job.count
      /\ ~joins /\ job.count > 0 => job.seen = job.start + job.count
      /\ ~cut => OwnAreCounted
  BY <1>0, <1>1 DEF CallInv, WriteOpened, joins
<1>8. Own(after) = Own(bytes) \cup {at + 1}
  <2>1. 1..Len(after) \subseteq 1..Len(bytes) \cup (Len(bytes) + 1)..at \cup {at + 1}
        /\ 1..Len(bytes) \subseteq 1..Len(after) /\ at + 1 \in 1..Len(after)
    BY <1>1, <1>3
  <2>2. Own(bytes) \subseteq 1..Len(bytes)
    BY DEF Own
  <2>3. ASSUME NEW b \in Own(after), b # at + 1
        PROVE  b \in Own(bytes)
    <3>1. b \in 1..Len(after) /\ after[b] = "own"
      BY DEF Own
    <3> QED
      BY <1>3, <2>1, <2>3, <3>1 DEF Own
  <2>4. Own(bytes) \subseteq Own(after)
    BY <1>3, <2>1, <2>2 DEF Own
  <2>5. at + 1 \in Own(after)
    BY <1>3, <2>1 DEF Own
  <2> QED
    BY <2>3, <2>4, <2>5
<1>9. ~cut => OwnAreCounted'
  <2> HAVE ~cut
  <2>1. /\ Cardinality(Own(bytes)) = job.count
        /\ \A b \in Own(bytes) : b <= job.seen /\ b \in 1..Len(bytes)
    BY <1>7 DEF OwnAreCounted, Own
  <2>2. IsFiniteSet(Own(bytes))
    BY <1>1, OwnIsFinite
  <2>3. \A b \in Own(bytes) : b <= at
    <3>1. CASE joins
      BY <1>1, <1>2, <2>1, <3>1
    <3>2. CASE ~joins /\ job.count > 0
      BY <1>1, <1>2, <1>7, <2>1, <3>2
    <3>3. CASE job.count = 0
      BY <2>1, <2>2, <3>3, FS_EmptySet
    <3> QED
      BY <1>1, <3>1, <3>2, <3>3
  <2>4. at + 1 \notin Own(bytes)
    BY <1>1, <2>3
  <2>5. Cardinality(Own(bytes) \cup {at + 1}) = Cardinality(Own(bytes)) + 1
    BY <2>2, <2>4, FS_AddElement, Zenon
  <2>6. \A b \in Own(after) : b <= at + 1
    BY <1>1, <1>8, <2>1, <2>3
  <2> QED
    BY <1>5, <1>6, <1>8, <2>1, <2>5, <2>6 DEF OwnAreCounted
<1>10. FilesInOrder' /\ OwnBytes' /\ WriteUnopened'
  BY <1>0, <1>1, <1>5, <1>6 DEF CallInv, FilesInOrder, OwnBytes, Written, WriteUnopened
<1>11. /\ joins => harmed' = {}
       /\ \A h \in harmed' : h >= job.start /\ h < job.start + (job.count + 1)
  <2>1. harmed' \subseteq harmed \cup {at} /\ (joins => harmed' = harmed)
    BY <1>0, <1>1, <1>2
  <2>2. CASE joins
    BY <1>7, <2>1, <2>2
  <2>3. CASE ~joins
    <3>1. at = job.start + job.count
      BY <1>2, <2>3
    <3>2. at >= job.start /\ at < job.start + (job.count + 1)
      BY <1>1, <3>1
    <3>3. \A h \in harmed : h \in Nat /\ h >= job.start /\ h < job.start + (job.count + 1)
      <4>1. \A h \in harmed : h \in Nat
        BY <1>0 DEF HandsTypeOK
      <4> QED
        BY <1>1, <1>7, <4>1
    <3> QED
      BY <2>1, <2>3, <3>2, <3>3
  <2> QED
    BY <2>2, <2>3
<1>12. WriteOpened'
  <2>1. (job.count + 1) + (job.left - 1) = Chunks
    BY <1>1, <1>7
  <2>2. ~joins => at + 1 = job.start + (job.count + 1)
    BY <1>1, <1>2
  <2> HIDE DEF OwnAreCounted
  <2> QED
    BY <1>0, <1>6, <1>7, <1>9, <1>11, <2>1, <2>2 DEF WriteOpened, joins
<1> QED
  BY <1>0, <1>6, <1>10, <1>12, WriterKeeps DEF CallInv

-----------------------------------------------------------------------------
(* The steps of a watch.                                                   *)

\* What a step of a watch leaves as it is.
LEMMA WatcherKeeps ==
    ASSUME HandsTypeOK, CallInv, job'.op = "watch", job'.file \in {Gone, job.file},
           job.op = "watch" \/ job.at = "idle", Quietly, job'.at = "done" => result'.code # "ok"
    PROVE  /\ FilesInOrder' /\ OwnBytes' /\ WriteUnopened' /\ WriteOpened' /\ WriteEnded'
           /\ ReadInv' /\ ListInv' /\ StatInv'
<1>0. UNCHANGED <<path, kind, content, emptied, harmed>> /\ job.op # "write"
  BY DEF Quietly, disk, history, CallInv, WriteUnopened, WriteOpened
<1>1. FilesInOrder' /\ OwnBytes'
  BY <1>0, GoneIsNoInode DEF CallInv, FilesInOrder, OwnBytes, Written
<1>2. WriteUnopened' /\ WriteOpened' /\ WriteEnded'
  BY <1>0 DEF CallInv, WriteUnopened, WriteOpened, WriteEnded, Ended
<1>3. ReadInv' /\ ListInv' /\ StatInv'
  BY <1>0 DEF ReadInv, ListInv, StatInv, Ended
<1> QED
  BY <1>1, <1>2, <1>3

LEMMA StartWatchKeeps ==
    ASSUME HandsBounds, HandsInv, NEW recursive, Watch(recursive)
    PROVE  CallInv'
<1>0. HandsTypeOK /\ CallInv /\ Quietly /\ job.at = "idle" /\ watch = NoWatch
  BY DEF HandsInv, Watch, CallInv, WatchInv
<1>1. CASE Refuses("watch", recursive, "EUNSUPPORTED") /\ UNCHANGED watch
  BY <1>0, <1>1, RefusesKeeps
<1>2. CASE /\ Open("watch", recursive, "watching") /\ result' = result
           /\ watch' = [watch EXCEPT !.on = "target", !.file = path]
  <2>1. job'.op = "watch" /\ job'.at = "watching" /\ job'.file = Gone
    BY <1>2 DEF Open, NoCall
  <2>2. /\ watch'.on = "target" /\ watch'.queue = <<>> /\ watch'.owed = 0
        /\ watch'.told = <<>>
    BY <1>0, <1>2 DEF NoWatch
  <2>3. Pending' = {} /\ Cardinality({}) = 0
    BY <2>2, FS_EmptySet DEF Pending
  <2>4. WatchInv'
    BY <2>1, <2>2, <2>3 DEF WatchInv
  <2> QED
    BY <1>0, <2>1, <2>4, WatcherKeeps DEF CallInv
<1>3. CASE \E refusal : /\ job' = [NoCall EXCEPT !.op = "watch", !.opts = recursive,
                                                  !.at = "refused", !.why = refusal]
                        /\ UNCHANGED <<result, watch>>
  <2>1. job'.op = "watch" /\ job'.at = "refused" /\ job'.file = Gone
    BY <1>3 DEF NoCall
  <2>2. WatchInv'
    <3>1. UNCHANGED watch
      BY <1>3
    <3> QED
      BY <1>0, <2>1, <3>1 DEF CallInv, WatchInv, NoWatch, Pending
  <2> QED
    BY <1>0, <2>1, <2>2, WatcherKeeps DEF CallInv
<1> QED
  BY <1>1, <1>2, <1>3 DEF Watch

\* Only what is no other refusal than absence has the directory watched.
LEMMA WatchParentKeeps ==
    ASSUME HandsBounds, HandsInv, WatchParent
    PROVE  CallInv'
<1>0. /\ HandsTypeOK /\ CallInv /\ Quietly /\ job.op = "watch" /\ job.at = "refused"
      /\ watch = NoWatch /\ job.why \in Whys /\ job \in Jobs
  BY JobFields DEF HandsInv, HandsTypeOK, WatchParent, CallInv, WatchInv
<1>1. CASE UNCHANGED watch /\ \E code : code # "ok" /\ Fails(code)
  BY <1>0, <1>1, FailsKeeps
<1>2. CASE /\ ClassifyWatchRefusal(job.why) = "try parent"
           /\ job' = [job EXCEPT !.at = "watching"] /\ watch' = [watch EXCEPT !.on = "parent"]
  <2>1. /\ job'.op = "watch" /\ job'.at = "watching" /\ job'.file = job.file
        /\ job'.why = job.why
    BY <1>0, <1>2, JobsAre
  <2>2. /\ watch'.on = "parent" /\ watch'.queue = <<>> /\ watch'.owed = 0
        /\ watch'.told = <<>>
    BY <1>0, <1>2 DEF NoWatch
  <2>3. Pending' = {} /\ Cardinality({}) = 0
    BY <2>2, FS_EmptySet DEF Pending
  <2>4. job.why \in {"PathNotFound", "Generic"}
    BY <1>2 DEF ClassifyWatchRefusal, RefusalIsAbsent, ClassifyAnyhow, Code
  <2>5. WatchInv'
    BY <2>1, <2>2, <2>3, <2>4 DEF WatchInv
  <2> QED
    BY <1>0, <2>1, <2>5, WatcherKeeps DEF CallInv
<1>3. \/ UNCHANGED watch /\ \E code : code # "ok" /\ Fails(code)
      \/ /\ ClassifyWatchRefusal(job.why) = "try parent"
         /\ job' = [job EXCEPT !.at = "watching"] /\ watch' = [watch EXCEPT !.on = "parent"]
  <2>1. ClassifyWatchRefusal(job.why) # "ok" /\ Refusals \subseteq Whys
    BY <1>0, CodeIsNotOk DEF Whys
  <2>2. \A refusal \in Refusals : ClassifyAnyhow(refusal) # "ok"
    BY <2>1, CodeIsNotOk
  <2> QED
    BY <2>1, <2>2 DEF WatchParent
<1> QED
  BY <1>1, <1>2, <1>3

\* The first event leaves the queue, and is told if it was owed.
LEMMA PendingWithoutFirst ==
    ASSUME watch \in Watches, watch.queue # <<>>, watch'.queue = Tail(watch.queue)
    PROVE  Cardinality(Pending') =
              Cardinality(Pending) - (IF /\ Concerns(Head(watch.queue))
                                         /\ Head(watch.queue).kind # "access" THEN 1 ELSE 0)
<1> DEFINE rest    == Pending \ {1}
           shift   == [i \in rest |-> i - 1]
           counts  == Concerns(Head(watch.queue)) /\ Head(watch.queue).kind # "access"
<1>1. /\ Len(watch.queue) \in Nat \ {0} /\ Len(watch'.queue) = Len(watch.queue) - 1
      /\ \A i \in 1..Len(watch.queue) - 1 : watch'.queue[i] = watch.queue[i + 1]
      /\ Head(watch.queue) = watch.queue[1]
  BY WatchFields, HeadTailProperties
<1>2. 1 \in Pending <=> counts
  BY <1>1 DEF Pending
<1>3. \A i : i \in Pending' <=> i \in 1..Len(watch.queue) - 1 /\ i + 1 \in Pending
  BY <1>1 DEF Pending
<1>4. Pending \subseteq 1..Len(watch.queue)
  BY PendingIsFinite
<1>5. shift \in [rest -> Pending']
  <2>1. ASSUME NEW i \in rest
        PROVE  i - 1 \in Pending'
    <3>1. i - 1 \in 1..Len(watch.queue) - 1 /\ (i - 1) + 1 = i
      BY <1>1, <1>4
    <3> QED
      BY <1>3, <3>1
  <2> QED
    BY <2>1
<1>6. \A i, j \in rest : shift[i] = shift[j] => i = j
  BY <1>1, <1>4
<1>7. \A k \in Pending' : \E i \in rest : shift[i] = k
  <2>1. ASSUME NEW k \in Pending'
        PROVE  k + 1 \in rest /\ shift[k + 1] = k
    BY <1>1, <1>3, <2>1
  <2> QED
    BY <2>1
<1>8. ExistsBijection(rest, Pending')
  <2> HIDE DEF shift, rest
  <2>1. shift \in Bijection(rest, Pending')
    BY <1>5, <1>6, <1>7, Zenon DEF Bijection, Injection, Surjection, IsInjective
  <2> QED
    BY <2>1, Zenon DEF ExistsBijection
<1>9. /\ IsFiniteSet(rest)
      /\ Cardinality(rest) = IF 1 \in Pending THEN Cardinality(Pending) - 1
                             ELSE Cardinality(Pending)
  BY PendingIsFinite, FS_RemoveElement, Zenon
<1>10. Cardinality(Pending') = Cardinality(rest)
  BY <1>8, <1>9, FS_Bijection, Zenon
<1> QED
  BY <1>2, <1>9, <1>10, PendingIsFinite

LEMMA NextValueKeeps ==
    ASSUME HandsBounds, HandsInv, NextValue
    PROVE  CallInv'
<1> DEFINE event == Head(watch.queue)
           kept  == (watch.on = "parent" => Concerns(event)) /\ event.kind # "access"
           counts == Concerns(event) /\ event.kind # "access"
           told  == IF kept THEN Append(watch.told, ChangeOf(event)) ELSE watch.told
<1>0. /\ HandsTypeOK /\ CallInv /\ Quietly /\ UNCHANGED <<job, result>> /\ watch \in Watches
      /\ job.op = "watch" /\ job.at = "watching" /\ watch.queue # <<>>
      /\ watch' = [watch EXCEPT !.queue = Tail(watch.queue), !.told = told]
  BY DEF HandsInv, HandsTypeOK, NextValue
<1>1. /\ event \in Notices /\ event = watch.queue[1] /\ Len(watch.queue) \in Nat \ {0}
      /\ Len(Tail(watch.queue)) = Len(watch.queue) - 1
      /\ \A i \in 1..Len(watch.queue) - 1 : Tail(watch.queue)[i] = watch.queue[i + 1]
  BY <1>0, WatchFields, HeadTailProperties
<1>2. watch'.queue = Tail(watch.queue) /\ watch'.told = told /\ watch'.on = watch.on
      /\ watch'.owed = watch.owed
  BY <1>0 DEF Watches
<1>3. kept <=> counts
  <2>1. watch.on = "target" => Concerns(event)
    <3>1. 1 \in 1..Len(watch.queue)
      BY <1>1
    <3>2. watch.on = "target" => event.paths = <<"target">>
      BY <1>0, <1>1, <3>1 DEF CallInv, WatchInv
    <3> QED
      BY <1>1, <3>2, NoticeFields
  <2>2. watch.on \in {"target", "parent"}
    BY <1>0, WatchFields DEF CallInv, WatchInv
  <2> QED
    BY <2>1, <2>2
<1>4. Cardinality(Pending') = Cardinality(Pending) - (IF counts THEN 1 ELSE 0)
  BY <1>0, <1>2, PendingWithoutFirst
<1>5. watch.told \in Seq(Told) /\ Len(watch.told) \in Nat /\ ChangeOf(event) \in Told
      /\ Cardinality(Pending) \in Nat /\ watch.owed \in Nat
      /\ (counts => ChangeOf(event).path = "target")
  BY <1>0, <1>1, WatchFields, ChangesAreTold, PendingIsFinite
<1> HIDE DEF event
<1>6. /\ Len(told) = Len(watch.told) + (IF counts THEN 1 ELSE 0)
      /\ \A i \in 1..Len(told) : told[i].path = "target"
  <2>1. \A i \in 1..Len(watch.told) : watch.told[i].path = "target"
    BY <1>0 DEF CallInv, WatchInv
  <2>2. CASE kept
    <3>1. /\ Len(told) = Len(watch.told) + 1
          /\ \A i \in 1..Len(watch.told) : told[i] = watch.told[i]
          /\ told[Len(watch.told) + 1] = ChangeOf(event)
      <4>1. told = Append(watch.told, ChangeOf(event))
        BY <2>2
      <4> HIDE DEF told
      <4> QED
        BY <1>5, <4>1, AppendProperties
    <3>2. counts /\ ChangeOf(event).path = "target"
      BY <1>3, <1>5, <2>2
    <3> HIDE DEF told
    <3>3. \A i \in 1..Len(told) : i \in 1..Len(watch.told) \/ i = Len(watch.told) + 1
      BY <1>5, <3>1
    <3>4. \A i \in 1..Len(told) : told[i].path = "target"
      BY <2>1, <3>1, <3>2, <3>3
    <3> QED
      BY <3>1, <3>2, <3>4
  <2>3. CASE ~kept
    <3>1. told = watch.told /\ ~counts
      BY <1>3, <2>3
    <3> HIDE DEF told, counts
    <3> QED
      BY <1>5, <2>1, <3>1
  <2> QED
    BY <2>2, <2>3
<1>7. watch'.owed = Len(watch'.told) + Cardinality(Pending')
  <2>1. watch.owed = Len(watch.told) + Cardinality(Pending)
    BY <1>0 DEF CallInv, WatchInv
  <2> QED
    <3>1. PICK one \in {0, 1} : one = IF counts THEN 1 ELSE 0
      OBVIOUS
    <3>2. /\ Cardinality(Pending') = Cardinality(Pending) - one
          /\ Len(told) = Len(watch.told) + one
      BY <1>4, <1>6, <3>1
    <3> HIDE DEF told
    <3> QED
      BY <1>2, <1>5, <2>1, <3>2
<1>8. watch.on = "target" =>
         \A i \in 1..Len(watch'.queue) : watch'.queue[i].paths = <<"target">>
  BY <1>0, <1>1, <1>2 DEF CallInv, WatchInv
<1> HIDE DEF told, kept, counts
<1>9. WatchInv'
  BY <1>0, <1>2, <1>6, <1>7, <1>8 DEF CallInv, WatchInv
<1> QED
  BY <1>0, <1>9, WatcherKeeps DEF CallInv

LEMMA CloseWatchKeeps ==
    ASSUME HandsBounds, HandsInv, CloseWatch
    PROVE  CallInv'
<1>0. /\ HandsTypeOK /\ CallInv /\ Quietly /\ result' = result
      /\ job.op = "watch" /\ job.at = "watching" /\ watch \in Watches /\ job \in Jobs
      /\ job' = [job EXCEPT !.at = "ended"] /\ watch' = [watch EXCEPT !.on = "none"]
  BY DEF HandsInv, HandsTypeOK, CloseWatch
<1>1. job'.op = "watch" /\ job'.at = "ended" /\ job'.file = job.file
  BY <1>0, JobsAre
<1>2. /\ watch'.on = "none" /\ watch'.queue = watch.queue /\ watch'.told = watch.told
      /\ watch'.owed = watch.owed
  BY <1>0 DEF Watches
<1>3. WatchInv'
  BY <1>0, <1>1, <1>2 DEF CallInv, WatchInv, Pending
<1> QED
  BY <1>0, <1>1, <1>3, WatcherKeeps DEF CallInv

-----------------------------------------------------------------------------
(* The theorems.                                                           *)

LEMMA HandsStarts ==
    ASSUME HandsBounds, HandsInit
    PROVE  HandsInv
<1> PICK first \in {Gone, 1}, k \in {"file", "dir", "other"}, length \in Files,
         entries \in Directories, plain \in BOOLEAN : Begins(first, k, length, entries, plain)
  BY DEF HandsInit
<1>1. /\ path = first /\ first \in Inode \cup {Gone}
      /\ kind = [i \in Inode |-> IF i = first THEN k ELSE "free"]
      /\ job = NoCall /\ watch = NoWatch /\ result = NoAnswer /\ alive = TRUE
      /\ emptied = FALSE /\ harmed = {} /\ cut = FALSE /\ slipped = FALSE /\ moved = FALSE
      /\ deeds = 0 /\ platform \in [ids : BOOLEAN, generic : BOOLEAN]
  BY GoneIsNoInode DEF Begins
<1>2. ASSUME NEW i \in Inode
      PROVE  content[i] \in Seq(Held) /\ Own(content[i]) = {}
  <2>1. content[i] \in {<<>>, [b \in 1..length |-> "old"], entries}
    BY <1>2 DEF Begins
  <2>2. length \in Nat /\ entries \in Seq({"good", "bad"})
    BY DEF HandsBounds
  <2>3. <<>> \in Seq(Held) /\ Own(<<>>) = {}
    BY OwnIsNoOthers
  <2>4. [b \in 1..length |-> "old"] \in Seq(Held) /\ Own([b \in 1..length |-> "old"]) = {}
    BY <2>2 DEF Held, Own
  <2>5. entries \in Seq(Held)
    BY <2>2 DEF Held
  <2>6. Own(entries) = {}
    BY <2>2 DEF Own
  <2> QED
    BY <2>1, <2>3, <2>4, <2>5, <2>6
<1>3. HandsTypeOK
  <2>1. content \in [Inode -> Seq(Held)]
    BY <1>2 DEF Begins
  <2>2. deeds \in 0..MaxDeeds
    BY <1>1 DEF HandsBounds
  <2> QED
    BY <1>1, <2>1, <2>2, NoCallIsAJob, NoWatchIsAWatch DEF HandsTypeOK
<1>4. FilesInOrder
  <2>1. first \in 0..MaxFiles /\ \A i \in Inode : kind[i] # "free" <=> i <= first
    BY <1>1 DEF Inode, Gone, HandsBounds
  <2>2. (path # Gone => kind[path] # "free") /\ job.file = Gone
    BY <1>1 DEF NoCall
  <2> QED
    BY <2>1, <2>2 DEF FilesInOrder
<1>5. WatchInv
  <2>1. Pending = {} /\ Cardinality({}) = 0
    BY <1>1, FS_EmptySet DEF Pending, NoWatch
  <2> QED
    BY <1>1, <2>1 DEF WatchInv, NoWatch, NoCall
<1>6. /\ OwnBytes /\ WriteUnopened /\ WriteOpened /\ WriteEnded
      /\ ReadInv /\ ListInv /\ StatInv /\ OptionsFit
  BY <1>1, <1>2 DEF OwnBytes, WriteUnopened, WriteOpened, WriteEnded, ReadInv, ListInv, StatInv,
                    OptionsFit, Ended, NoCall
<1> QED
  BY <1>3, <1>4, <1>5, <1>6 DEF HandsInv, CallInv

LEMMA HandsSteps ==
    ASSUME HandsBounds, HandsInv, HandsNext
    PROVE  HandsInv'
<1>0. HandsTypeOK /\ OptionsFit /\ CallInv /\ ListInv /\ WriteUnopened /\ FilesInOrder
  BY DEF HandsInv, CallInv
<1>1. CASE Stat \/ StatPreview
  BY <1>0, <1>1, StatTypes, StatKeeps DEF HandsInv
<1>2. CASE \E batch \in BatchOptions : List(batch)
  BY <1>0, <1>2, ListTypes, ListKeeps DEF HandsInv
<1>3. CASE OpenDirectory
  BY <1>0, <1>3, OpenDirectoryTypes, OpenDirectoryKeeps DEF HandsInv
<1>4. CASE NextBatch
  BY <1>0, <1>4, NextBatchTypes, NextBatchKeeps DEF HandsInv
<1>5. CASE \E offset \in OffsetOptions : Read(offset)
  BY <1>0, <1>5, ReadTypes, ReadKeeps DEF HandsInv
<1>6. CASE OpenForRead
  BY <1>0, <1>6, OpenForReadTypes, OpenForReadKeeps DEF HandsInv
<1>7. CASE Identify \/ ReadChunk
  BY <1>0, <1>7, ReadingTypes, IdentifyKeeps, ReadChunkKeeps DEF HandsInv
<1>8. CASE Check
  BY <1>0, <1>8, CheckTypes, CheckKeeps DEF HandsInv
<1>9. CASE \E opts \in WriteOptions : StartWrite(opts)
  BY <1>0, <1>9, StartWriteTypes, StartWriteKeeps DEF HandsInv
<1>10. CASE OpenForWrite
  BY <1>0, <1>10, OpenForWriteTypes, OpenForWriteKeeps DEF HandsInv
<1>11. CASE \E refusal \in {"none", "consumed", "poisoned", "closed"} : Consume(refusal)
  BY <1>0, <1>11, ConsumeTypes, ConsumeKeeps DEF HandsInv
<1>12. CASE \E carrier \in Carriers : WriteChunk(carrier)
  BY <1>0, <1>12, WriteChunkTypes, WriteChunkKeeps DEF HandsInv
<1>13. CASE StreamFails \/ Strikes \/ \E carrier \in Carriers : ChunkFails(carrier)
  BY <1>0, <1>13, WriteEndTypes, FailingKeeps DEF HandsInv
<1>14. CASE Finish
  BY <1>0, <1>14, WriteEndTypes, FinishKeeps DEF HandsInv
<1>15. CASE Unload
  BY <1>0, <1>15, UnloadTypes, UnloadKeeps DEF HandsInv
<1>16. CASE \E recursive \in FlagOptions : Watch(recursive)
  BY <1>0, <1>16, StartWatchTypes, StartWatchKeeps DEF HandsInv
<1>17. CASE WatchParent
  BY <1>0, <1>17, WatchParentTypes, WatchParentKeeps DEF HandsInv
<1>18. CASE NextValue
  BY <1>0, <1>18, NextValueTypes, NextValueKeeps DEF HandsInv
<1>19. CASE CloseWatch
  BY <1>0, <1>19, CloseWatchTypes, CloseWatchKeeps DEF HandsInv
<1>20. CASE \E op \in {"stat", "list", "read", "write"} : Unreachable(op)
  BY <1>0, <1>20, UnreachableTypes, UnreachableKeeps DEF HandsInv
<1>21. CASE Others
  <2>1. HandsTypeOK' /\ OptionsFit' /\ FilesInOrder' /\ Meddled
    BY <1>0, <1>21, OthersDo
  <2>2. OwnBytes' /\ WriteUnopened' /\ WriteOpened' /\ WriteEnded'
    BY <1>0, <2>1, OthersKeepTheWrite DEF CallInv
  <2>3. ReadInv' /\ ListInv' /\ StatInv'
    BY <1>0, <2>1, OthersKeepTheRead DEF CallInv
  <2>4. WatchInv'
    BY <1>0, <2>1, OthersKeepTheWatch DEF CallInv
  <2> QED
    BY <2>1, <2>2, <2>3, <2>4 DEF HandsInv, CallInv
<1> QED
  BY <1>1, <1>2, <1>3, <1>4, <1>5, <1>6, <1>7, <1>8, <1>9, <1>10, <1>11, <1>12, <1>13, <1>14,
     <1>15, <1>16, <1>17, <1>18, <1>19, <1>20, <1>21 DEF HandsNext

LEMMA HandsStutters ==
    ASSUME HandsInv, UNCHANGED handsVars
    PROVE  HandsInv'
<1>1. UNCHANGED <<path, kind, content, platform, job, result, alive, watch, deeds,
                  emptied, harmed, cut, slipped, moved>>
  BY DEF handsVars, disk, history
<1>2. HandsTypeOK' /\ OptionsFit'
  BY <1>1 DEF HandsInv, HandsTypeOK, OptionsFit
<1>3. FilesInOrder' /\ OwnBytes' /\ WriteUnopened' /\ WriteEnded' /\ WatchInv'
  BY <1>1 DEF HandsInv, CallInv, FilesInOrder, OwnBytes, Written, WriteUnopened, WriteEnded,
              Ended, EndOffset, WatchInv, Pending
<1>4. WriteOpened'
  <2>1. OwnAreCounted => OwnAreCounted'
    BY <1>1 DEF OwnAreCounted
  <2> HIDE DEF OwnAreCounted
  <2> QED
    BY <1>1, <2>1 DEF HandsInv, CallInv, WriteOpened
<1>5. ReadInv' /\ ListInv' /\ StatInv'
  BY <1>1 DEF HandsInv, CallInv, ReadInv, ListInv, StatInv, Ended, IsFile, IsDir, Exists
<1> QED
  BY <1>2, <1>3, <1>4, <1>5 DEF HandsInv, CallInv

\* The invariant is inductive: no step of the call or of others breaks it.
THEOREM HandsAreInductive == HandsSpec => []HandsInv
<1>1. HandsBounds
  BY HandsAssumption
<1>2. HandsInit => HandsInv
  BY <1>1, HandsStarts
<1>3. HandsInv /\ [HandsNext]_handsVars => HandsInv'
  BY <1>1, HandsSteps, HandsStutters
<1> QED
  BY <1>2, <1>3, PTL DEF HandsSpec

\* The values the variables take (hands.rs:629-635, 1006-1010, 1179-1222).
THEOREM HandsTypeCorrect == HandsSpec => []HandsTypeOK
<1>1. HandsInv => HandsTypeOK
  BY DEF HandsInv
<1> QED
  BY <1>1, HandsAreInductive, PTL

LEMMA RewriteIsAskedFor ==
    ASSUME NEW opts \in WriteOptions, ~IntentIsRefused(opts)
    PROVE  /\ WriteIntent(opts).truncate => AsksForRewrite(opts)
           /\ Asked(opts.append) => WriteIntent(opts).append
BY DEF WriteIntent, AsksForRewrite, IntentIsRefused, Truncates

LEMMA WritesAreKept == HandsInv => WritesGoOn
<1> SUFFICES ASSUME HandsInv
             PROVE  WritesGoOn
  OBVIOUS
<1>0. HandsTypeOK /\ CallInv /\ job \in Jobs
  BY DEF HandsInv, HandsTypeOK
<1>1. KeepsTheRest
  <2> SUFFICES ASSUME job.op = "write", job.at # "idle", job.opts # Absent
               PROVE  KeepsTheRest
    BY DEF KeepsTheRest
  <2>1. CASE job.file = Gone
    BY <1>0, <2>1 DEF CallInv, WriteUnopened, KeepsTheRest
  <2>2. CASE job.file # Gone
    <3>1. /\ job.opts \in WriteOptions /\ ~IntentIsRefused(job.opts)
          /\ job.start = NumberOr(job.opts.offset, 0)
          /\ emptied => WriteIntent(job.opts).truncate
          /\ WriteIntent(job.opts).append => harmed = {}
          /\ \A at \in harmed : at >= job.start /\ at < job.start + job.count
      BY <1>0, <2>2 DEF CallInv, WriteOpened, Accepted
    <3> QED
      BY <3>1, RewriteIsAskedFor DEF KeepsTheRest
  <2> QED
    BY <2>1, <2>2 DEF KeepsTheRest
<1>2. EndOffsetResumes
  <2> SUFFICES ASSUME Ended("write")
               PROVE  EndOffsetResumes
    BY DEF EndOffsetResumes
  <2>1. job.op = "write" /\ job.at = "done" /\ result.code = "ok" /\ job.file # Gone
    BY <1>0 DEF Ended, CallInv, WriteUnopened
  <2>2. /\ result.bytes = job.count /\ result.endOffset = EndOffset
        /\ alive => job.left = 0
        /\ job.count + job.left = Chunks
        /\ ~cut => OwnAreCounted
    BY <1>0, <2>1 DEF CallInv, WriteEnded, WriteOpened
  <2>3. /\ job.count \in Nat /\ job.left \in Nat /\ job.file \in Inode
        /\ content[job.file] \in Seq(Held)
    BY <1>0, <2>1, JobFields DEF HandsTypeOK
  <2>4. alive => result.bytes = Chunks
    BY <2>2, <2>3
  <2>5. ASSUME ~cut
        PROVE  /\ result.bytes = Cardinality({i \in DOMAIN content[job.file] :
                                                 content[job.file][i] = "own"})
               /\ result.bytes > 0 => content[job.file][result.endOffset] = "own"
               /\ \A i \in DOMAIN content[job.file] :
                     content[job.file][i] = "own" => i <= result.endOffset
    <3>1. DOMAIN content[job.file] = 1..Len(content[job.file])
      BY <2>3
    <3>2. OwnAreCounted
      BY <2>2, <2>5
    <3>3. /\ Cardinality(Own(content[job.file])) = job.count
          /\ job.count > 0 => content[job.file][job.seen] = "own"
          /\ \A i \in Own(content[job.file]) : i <= job.seen
      BY <3>2 DEF OwnAreCounted, Own
    <3>4. Own(content[job.file]) =
             {i \in DOMAIN content[job.file] : content[job.file][i] = "own"}
      BY <3>1 DEF Own
    <3>5. job.count = 0 => Own(content[job.file]) = {}
      <4>1. IsFiniteSet(Own(content[job.file]))
        BY <2>3, OwnIsFinite
      <4> QED
        BY <3>3, <4>1, FS_EmptySet
    <3> QED
      BY <2>2, <2>3, <3>3, <3>4, <3>5 DEF EndOffset
  <2> QED
    BY <2>4, <2>5 DEF EndOffsetResumes
<1> QED
  BY <1>1, <1>2 DEF WritesGoOn

\* A write overwrites, empties and reports no more and no less than was asked:
\* WritesGoOn, for every sequence of deeds of other programs (hands.rs:889-1134).
THEOREM WritesAreResumable == HandsSpec => []WritesGoOn
BY WritesAreKept, HandsAreInductive, PTL

LEMMA WholeIsKept == HandsInv => DoneIsWhole
<1> SUFFICES ASSUME HandsInv
             PROVE  DoneIsWhole
  OBVIOUS
<1>1. ReadInv /\ ListInv /\ StatInv
  BY DEF HandsInv, CallInv
<1>2. Ended("read") /\ ~cut /\ ~slipped =>
          /\ job.start + job.count = Len(content[job.file])
          /\ platform.ids => ~moved
  BY <1>1 DEF ReadInv, Ended
<1>3. Ended("list") => job.count = Readable(content[job.file])
  BY <1>1 DEF ListInv, Ended
<1> QED
  BY <1>1, <1>2, <1>3 DEF DoneIsWhole, StatInv

\* What is read, listed or previewed to its end is all there is (hands.rs:345-752).
THEOREM EndsAreWhole == HandsSpec => []DoneIsWhole
BY WholeIsKept, HandsAreInductive, PTL

LEMMA WatchIsKept == HandsInv => WatchIsFaithful
<1> SUFFICES ASSUME HandsInv
             PROVE  WatchIsFaithful
  OBVIOUS
<1>1. WatchInv /\ watch \in Watches
  BY DEF HandsInv, CallInv, HandsTypeOK
<1>2. DOMAIN watch.told = 1..Len(watch.told) /\ Len(watch.told) \in Nat
  BY <1>1, WatchFields
<1>3. watch.queue = <<>> => Pending = {}
  <2>1. Len(<<>>) = 0
    OBVIOUS
  <2> QED
    BY <2>1 DEF Pending
<1>4. Cardinality({}) = 0
  BY FS_EmptySet
<1>5. watch.queue = <<>> => Len(watch.told) = watch.owed
  <2>1. watch.owed = Len(watch.told) + Cardinality(Pending)
    BY <1>1 DEF WatchInv
  <2>2. watch.queue = <<>> => Cardinality(Pending) = 0
    BY <1>3, <1>4
  <2> QED
    BY <1>2, <2>1, <2>2
<1>6. /\ watch.on = "parent" => job.why \in {"PathNotFound", "Generic"}
      /\ \A i \in 1..Len(watch.told) : watch.told[i].path = "target"
  BY <1>1 DEF WatchInv
<1> QED
  BY <1>2, <1>5, <1>6 DEF WatchIsFaithful

\* A watcher is told of the path that was asked for, and of everything that it
\* was sent about it (hands.rs:1229-1507).
THEOREM WatchesAreFaithful == HandsSpec => []WatchIsFaithful
BY WatchIsKept, HandsAreInductive, PTL
=============================================================================
