----------------------------- MODULE Pipeline -----------------------------
(***************************************************************************)
(* The ingest path of a node: a FileTailer behind a file input, the frame  *)
(* channel, and the run loop that indexes events into the hot tier         *)
(* (Tantivy) and buffers them for the cold tier (Parquet segments).        *)
(*                                                                         *)
(* A log is written one byte at a time by an external program.  A byte is  *)
(* the pair <<line, position>>, and the last position of a line is its     *)
(* newline; a line of size one is blank.  A frame is the line it was cut   *)
(* from and the position it starts at.  decode and normalize never fail    *)
(* and yield one event, so an event is its frame.  A crash stands for the  *)
(* end of the process and for every I/O error the loop propagates with     *)
(* `?`: both lose what is in memory.  Crashes inside write_segment belong  *)
(* to module ColumnarStore.                                                *)
(***************************************************************************)
EXTENDS Integers, Sequences, FiniteSets, SequencesExt, FiniteSetsExt

CONSTANTS
    Size,           \* Size[l]: the bytes of line l, its newline included
    ChanCap,        \* capacity of the frame channel (8192 in the code)
    RollMax,        \* events that force a rollover (2000 in the code)
    MaxStops,       \* bound: clean stops (Ctrl-C)
    MaxCrashes,     \* bound: crashes
    MaxUnsaved,     \* bound: checkpoint writes that fail with an error
    MaxTorn,        \* bound: crashes in the middle of a checkpoint write
    MaxRotations    \* bound: rotations and truncations of the log

ASSUME PipelineAssumption ==
    /\ Size \in Seq(Nat \ {0})
    /\ ChanCap \in Nat \ {0} /\ RollMax \in Nat \ {0}
    /\ MaxStops \in Nat /\ MaxCrashes \in Nat /\ MaxTorn \in Nat
    /\ MaxUnsaved \in Nat /\ MaxRotations \in Nat

VARIABLES
    \* on disk
    exists,     \* is there a file at the tailed path?
    file,       \* its bytes
    ckpt,       \* the checkpoint file
    hot,        \* committed events of the hot index
    cold,       \* events of the rolled segments
    \* in memory
    node,       \* "up", "stopping" (loop left, final roll to come) or "down"
    offset,     \* FileTailer::offset
    batch,      \* lines of the last poll not yet sent
    chan,       \* the frame channel
    fresh,      \* events added to the hot index since the last commit
    buffer,     \* events waiting for a rollover
    \* the program that writes the log, and history
    next,       \* the next byte it writes
    stops, crashes, torn, unsaved, rotations,
    overtaken   \* the lines of a rotated log that regrew to the length which the
                \* running tailer remembers before it looked

disk == <<exists, file, ckpt, hot, cold>>
memory == <<node, offset, batch, chan, fresh, buffer>>
counters == <<stops, crashes, torn, unsaved, rotations>>
vars == <<disk, memory, next, counters, overtaken>>

Line == DOMAIN Size
IsNewline(b) == b[2] = Size[b[1]]

Init ==
    /\ exists = FALSE /\ file = <<>> /\ ckpt = 0 /\ hot = <<>> /\ cold = <<>>
    /\ node = "up" /\ offset = 0
    /\ batch = <<>> /\ chan = <<>> /\ fresh = <<>> /\ buffer = <<>>
    /\ next = <<1, 1>>
    /\ stops = 0 /\ crashes = 0 /\ torn = 0 /\ unsaved = 0 /\ rotations = 0
    /\ overtaken = {}

---------------------------------------------------------------------------
(* The program that writes the log                                         *)

\* It appends a byte, creating the file when there is none.
Write ==
    /\ next[1] \in Line
    /\ exists' = TRUE
    /\ file' = Append(file, next)
    /\ next' = IF IsNewline(next) THEN <<next[1] + 1, 1>> ELSE <<next[1], next[2] + 1>>
    /\ overtaken' = IF Len(file) + 1 = offset THEN {file'[i][1] : i \in DOMAIN file'} ELSE overtaken
    /\ UNCHANGED <<ckpt, hot, cold, memory, counters>>

\* Between two lines the log is renamed away, or truncated in place.
Rotate ==
    /\ rotations < MaxRotations
    /\ exists /\ next[2] = 1
    /\ exists' \in BOOLEAN
    /\ file' = <<>>
    /\ rotations' = rotations + 1
    /\ overtaken' = {}
    /\ UNCHANGED <<ckpt, hot, cold, memory, next, stops, crashes, torn, unsaved>>

---------------------------------------------------------------------------
(* FileTailer                                                              *)

\* Mutant: a partial last line counts as a line.
EndsAtEof(off) == {i \in off + 1 .. Len(file) : IsNewline(file[i]) \/ i = Len(file)}

\* Where the complete lines after offset off end.
Ends(off) == {i \in off + 1 .. Len(file) : IsNewline(file[i])}

\* The numbers of a finite set, in their order.
Ascending(S) == CHOOSE s \in [1 .. Cardinality(S) -> S] : \A i, j \in DOMAIN s : i < j => s[i] < s[j]

\* The lines poll_lines returns from offset off: cut at the newlines, a
\* partial last line left for later, blank lines dropped.
LinesFrom(off) ==
    LET ends == Ends(off)
        Start(e) == Max({off + 1} \cup {i + 1 : i \in {j \in ends : j < e}})
        full == {e \in ends : Start(e) < e}
        Cut(e) == [line |-> file[e][1], from |-> file[Start(e)][2]]
        order == Ascending(full)
    IN  [k \in DOMAIN order |-> Cut(order[k])]

\* The offset after those lines.
Consumed(off) == Max({off} \cup Ends(off))

\* Mutant: a file that shrank is read on from the old offset.
SeekSame == offset

\* A file shorter than the offset was truncated or rotated: start over.
Seek == IF Len(file) < offset THEN 0 ELSE offset

\* Mutant: the checkpoint is saved and the offset forgotten.
PollForgets ==
    /\ node # "down" /\ batch = <<>> /\ exists
    /\ batch' = LinesFrom(Seek)
    /\ offset' = Seek
    /\ ckpt' = Consumed(Seek)
    /\ UNCHANGED <<exists, file, hot, cold, node, chan, fresh, buffer, next, counters, overtaken>>

\* Mutant: the offset moves and the checkpoint does not.
PollUnsaved ==
    /\ node # "down" /\ batch = <<>> /\ exists
    /\ batch' = LinesFrom(Seek)
    /\ offset' = Consumed(Seek)
    /\ UNCHANGED <<disk, node, chan, fresh, buffer, next, counters, overtaken>>

\* poll_lines: a missing file yields nothing; otherwise read on from the
\* offset, and save the checkpoint when it moved, before the lines go
\* anywhere.  The tailer polls again only when its last lines are sent.
\* write_checkpoint only logs an error: the old checkpoint stays.
Poll ==
    /\ node # "down" /\ batch = <<>> /\ exists
    /\ batch' = LinesFrom(Seek)
    /\ offset' = Consumed(Seek)
    /\ \/ /\ ckpt' = IF Consumed(Seek) # Seek THEN Consumed(Seek) ELSE ckpt
          /\ UNCHANGED unsaved
       \/ /\ Consumed(Seek) # Seek /\ unsaved < MaxUnsaved
          /\ unsaved' = unsaved + 1
          /\ UNCHANGED ckpt
    /\ UNCHANGED <<exists, file, hot, cold, node, chan, fresh, buffer, next, stops, crashes, torn,
                   rotations, overtaken>>

\* The input task sends the next line into the channel, waiting for room.
Send ==
    /\ node # "down" /\ batch # <<>> /\ Len(chan) < ChanCap
    /\ chan' = Append(chan, Head(batch))
    /\ batch' = Tail(batch)
    /\ UNCHANGED <<disk, node, offset, fresh, buffer, next, counters, overtaken>>

---------------------------------------------------------------------------
(* The run loop                                                            *)

\* What a frame's event adds to the buffer; a full buffer is rolled.
Push(e) ==
    LET full == Append(buffer, e)
    IN  IF Len(full) >= RollMax
          THEN cold' = cold \o full /\ buffer' = <<>>
          ELSE buffer' = full /\ UNCHANGED cold

\* A frame is decoded, normalized, indexed and buffered.
Consume ==
    /\ node = "up" /\ chan # <<>>
    /\ chan' = Tail(chan)
    /\ fresh' = Append(fresh, Head(chan))
    /\ Push(Head(chan))
    /\ UNCHANGED <<exists, file, ckpt, hot, node, offset, batch, next, counters, overtaken>>

\* commit tick, when something was added since the last one.
Commit ==
    /\ node = "up" /\ fresh # <<>>
    /\ hot' = hot \o fresh /\ fresh' = <<>>
    /\ UNCHANGED <<exists, file, ckpt, cold, node, offset, batch, chan, buffer, next, counters, overtaken>>

\* rollover tick: the buffer becomes a segment.
Roll ==
    /\ node = "up" /\ buffer # <<>>
    /\ cold' = cold \o buffer /\ buffer' = <<>>
    /\ UNCHANGED <<exists, file, ckpt, hot, node, offset, batch, chan, fresh, next, counters, overtaken>>

\* Ctrl-C leaves the loop, without draining the channel, and commits ...
Interrupt ==
    /\ stops < MaxStops
    /\ node = "up"
    /\ node' = "stopping"
    /\ hot' = hot \o fresh /\ fresh' = <<>>
    /\ stops' = stops + 1
    /\ UNCHANGED <<exists, file, ckpt, cold, offset, batch, chan, buffer, next, crashes, torn, unsaved,
                   rotations, overtaken>>

\* What ends with the process.
LoseMemory ==
    /\ node' = "down" /\ offset' = 0 /\ overtaken' = {}
    /\ batch' = <<>> /\ chan' = <<>> /\ fresh' = <<>> /\ buffer' = <<>>

\* Mutant: the last buffer is not rolled.
ExitNoRoll ==
    /\ node = "stopping"
    /\ LoseMemory
    /\ UNCHANGED <<disk, next, counters>>

\* ... and rolls the last buffer before the process ends.  Until then the
\* tailer goes on polling and sending.
Exit ==
    /\ node = "stopping"
    /\ cold' = cold \o buffer
    /\ LoseMemory
    /\ UNCHANGED <<exists, file, ckpt, hot, next, counters>>

Crash ==
    /\ crashes < MaxCrashes
    /\ node # "down"
    /\ LoseMemory
    /\ crashes' = crashes + 1
    /\ UNCHANGED <<disk, next, stops, torn, unsaved, rotations>>

\* A crash between the truncation and the write of fs::write leaves an empty
\* checkpoint, which read_checkpoint takes for 0.
Tear ==
    /\ torn < MaxTorn
    /\ node # "down" /\ batch = <<>> /\ exists /\ Consumed(Seek) # Seek
    /\ ckpt' = 0
    /\ LoseMemory
    /\ torn' = torn + 1
    /\ UNCHANGED <<exists, file, hot, cold, next, stops, crashes, unsaved, rotations>>

\* The node starts again: FileTailer::open restores the checkpoint.
Start ==
    /\ node = "down"
    /\ node' = "up" /\ offset' = ckpt
    /\ UNCHANGED <<disk, batch, chan, fresh, buffer, next, counters, overtaken>>

---------------------------------------------------------------------------
Next ==
    \/ Write \/ Rotate
    \/ Poll \/ Send
    \/ Consume \/ Commit \/ Roll
    \/ Interrupt \/ Exit \/ Crash \/ Tear \/ Start

Spec == Init /\ [][Next]_vars

\* Every task of the runtime runs, every interval ticks, and a node that
\* ended is started again.  Nothing is assumed of the log's writer.
Fairness ==
    /\ WF_vars(Poll) /\ WF_vars(Send) /\ WF_vars(Consume)
    /\ WF_vars(Commit) /\ WF_vars(Roll)
    /\ WF_vars(Exit) /\ WF_vars(Start)
FairSpec == Spec /\ Fairness

---------------------------------------------------------------------------
(* Properties                                                              *)

InFlight == fresh \o chan \o batch

\* A frame is a whole line of the log (poll_lines: "complete lines appended
\* since the last call"), never a piece of one, however writes, polls,
\* crashes and restarts interleave, as long as the log is not rotated.
WholeLines == rotations = 0 => \A f \in Range(hot \o InFlight) : f.from = 1

\* Frames in the order in which their lines were written, none of them twice.
InSequence(q) == \A i, j \in DOMAIN q : i < j => q[i].line < q[j].line

\* The lines that end in the first n bytes of the file; blank ones are dropped.
LinesWithin(n) == {l \in Line : Size[l] > 1 /\ \E i \in 1 .. n : file[i] = <<l, Size[l]>>}

\* Until the node first ends, every complete line behind the offset is in
\* the hot index or on its way there, once, whole and in the order of the
\* file: no poll, back-pressure of the channel, commit or partial line loses
\* one.
Accounted ==
    stops + crashes + torn + rotations = 0 =>
        /\ Range(hot \o InFlight) = {[line |-> l, from |-> 1] : l \in LinesWithin(offset)}
        /\ InSequence(hot \o InFlight)
        /\ unsaved = 0 => ckpt = offset

\* As long as the node only stops by Ctrl-C, the hot index with its
\* uncommitted events and the segments with the buffer hold the same events
\* in the same order; so a stopped node has every event in both tiers.
TiersAgree ==
    crashes + torn = 0 =>
        /\ hot \o fresh = cold \o buffer
        /\ node = "down" => hot = cold

\* Lines enter the hot index in the order they were written and no line
\* enters it twice, over stops, crashes and rotations, as long as every
\* checkpoint write succeeds: it is saved before the lines are handed on, so
\* a restart never repeats one.
InOrder == unsaved + torn = 0 => InSequence(hot \o InFlight)

\* What is indexed is the log: whole lines, in order, none of them twice.
LinesHold == WholeLines /\ InOrder

\* The line l lies whole behind the first n bytes of the file.
LiesAfter(n, l) == \E i \in n + 1 .. Len(file) : /\ file[i] = <<l, 1>>
                                                 /\ i + Size[l] - 1 <= Len(file)
                                                 /\ Size[l] > 1

\* Once the node no longer stops or crashes, a complete line that the tailer
\* has yet to read becomes searchable and reaches a segment, unless the log is
\* rotated first; a checkpoint torn by a crash loses nothing of the file, the
\* tailer starts over.  After a rotation the lines of the new log are read as
\* well, unless it grows to the length of the old one before the next poll:
\* poll_lines knows a rotation by the length alone.
Searchable ==
    \A l \in Line :
        /\ node = "up" /\ exists /\ stops = MaxStops /\ crashes = MaxCrashes
        /\ LiesAfter(offset, l) \/ (Len(file) < offset /\ LiesAfter(0, l))
        ~>
            \/ \E f \in Range(hot) \cap Range(cold) : f.line = l
            \/ ~LiesAfter(0, l)
            \/ l \in overtaken

\* FileTailer's promise, "at-least-once across restarts": when the node is
\* down, every line of the file that the checkpoint lies behind, so that no
\* restart will read it again, is in the hot index.
AtLeastOnce ==
    node = "down" /\ rotations = 0 =>
        \A l \in Line : LiesAfter(0, l) /\ ~LiesAfter(ckpt, l) => \E f \in Range(hot) : f.line = l
===========================================================================
