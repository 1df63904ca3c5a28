----------------------------- MODULE RawArchive -----------------------------
(***************************************************************************)
(* The archive of raw frames (raw-archive/src/writer.rs): producers push   *)
(* into a bounded queue without ever waiting; a thread takes the frames    *)
(* and appends them, through a zstd encoder, to the file of the hour.      *)
(*                                                                         *)
(* A file is a sequence of zstd streams, one per encoder that wrote to it: *)
(* the frames of the stream that are in the file, and whether its end mark *)
(* is.  An encoder holds frames back until a block is full, it is flushed  *)
(* or it is finished; dropped without that, it leaves an unended stream.   *)
(* A reader decodes streams one after the other and cannot get past one    *)
(* that has no end mark.                                                   *)
(***************************************************************************)
EXTENDS Integers, Sequences, SequencesExt

CONSTANTS
    Hours,          \* hours the clock may show (hour_key); it may be set back
    NoHour,         \* no file is open
    ChannelCap,     \* ArchiveConfig::channel_capacity
    FlushEvery,     \* flush_every_bytes, in frames
    Faults,         \* subset of {"io", "crash"}
    CallsShutdown,  \* whether the owner calls ArchiveHandle::shutdown
    MaxFrames,      \* bound: frames pushed
    MaxRuns         \* bound: starts of the process

ASSUME ArchiveAssumption ==
    /\ NoHour \notin Hours
    /\ ChannelCap \in Nat \ {0} /\ FlushEvery \in Nat \ {0}
    /\ Faults \subseteq {"io", "crash"}
    /\ CallsShutdown \in BOOLEAN
    /\ MaxFrames \in Nat /\ MaxRuns \in Nat \ {0}

VARIABLES
    hour,           \* the clock
    pushed,         \* frames pushed so far; a frame is its number
    accepted,       \* frames try_push returned true for
    queue,          \* the channel
    closed,         \* its sender is dropped
    writer,         \* where writer_loop is
    state,          \* its HourFile
    file,           \* hour -> streams in its file
    up,
    orderly,        \* the process ended by returning from main
    runs,
    healthy         \* the disk has worked, and no process has crashed

vars == << hour, pushed, accepted, queue, closed, writer, state, file,
           up, orderly, runs, healthy >>

Frames == 1 .. MaxFrames
NoFile == [hour |-> NoHour, started |-> FALSE, buf |-> << >>, since_flush |-> 0]

\* What can still be lost in the encoder is less than the flush threshold.
TypeOK ==
    /\ hour \in Hours
    /\ pushed \in 0 .. MaxFrames
    /\ accepted \subseteq Frames
    /\ queue \in Seq(Frames) /\ Len(queue) <= ChannelCap
    /\ closed \in BOOLEAN
    /\ writer \in {"recv", "ended"}
    /\ state \in [hour : Hours \cup {NoHour}, started : BOOLEAN, buf : Seq(Frames),
                  since_flush : 0 .. FlushEvery - 1]
    /\ Len(state.buf) < FlushEvery
    /\ file \in [Hours -> Seq([frames : Seq(Frames), ended : BOOLEAN])]
    /\ up \in BOOLEAN /\ orderly \in BOOLEAN
    /\ runs \in 1 .. MaxRuns
    /\ healthy \in BOOLEAN

\* ArchiveWriter::spawn on an empty directory.
Init ==
    /\ hour \in Hours
    /\ pushed = 0 /\ accepted = {}
    /\ queue = << >> /\ closed = FALSE
    /\ writer = "recv" /\ state = NoFile
    /\ file = [h \in Hours |-> << >>]
    /\ up = TRUE /\ orderly = FALSE /\ runs = 1 /\ healthy = TRUE

-----------------------------------------------------------------------------
\* The files after the first k frames the encoder e holds, and its end mark if
\* `end`, have been written: to the stream e began, or as a new one.
write_out(fs, e, k, end) ==
    LET s   == fs[e.hour]
        out == SubSeq(e.buf, 1, k)
    IN  [fs EXCEPT ![e.hour] =
            IF e.started
            THEN [s EXCEPT ![Len(s)] = [frames |-> @.frames \o out, ended |-> end]]
            ELSE Append(s, [frames |-> out, ended |-> end])]

\* The disk may refuse writes.
IoErrors == "io" \in Faults /\ ~healthy

\* The files an I/O error can leave.
cut_short(fs, e) ==
    IF IoErrors
    THEN {fs} \cup {write_out(fs, e, k, FALSE) : k \in 0 .. Len(e.buf)}
    ELSE {}

\* HourFile::open: nothing is written yet, and what the file holds is kept.
open == {[NoFile EXCEPT !.hour = hour]} \cup (IF IoErrors THEN {NoFile} ELSE {})

\* HourFile::finalize; an error is logged, and the rest of the stream lost.
finalize(fs, e) == {write_out(fs, e, Len(e.buf), TRUE)} \cup cut_short(fs, e)

\* need_rotate: the previous hour's file is finished, then the new one opened.
rotate(fs, e) ==
    IF e.hour = hour
    THEN {[file |-> fs, state |-> e]}
    ELSE {[file |-> f, state |-> o] :
             f \in IF e = NoFile THEN {fs} ELSE finalize(fs, e), o \in open}

\* Mutant: the threshold is never reached.
write_frame_NoFlush(fs, e, n) ==
    LET b == [e EXCEPT !.buf = Append(@, n)]
    IN  {[file |-> IF k = 0 THEN fs ELSE write_out(fs, b, k, FALSE),
          state |-> [b EXCEPT !.started = @ \/ k > 0,
                              !.buf = SubSeq(@, k + 1, Len(@))]] : k \in 0 .. Len(b.buf)}

\* HourFile::write_frame: the encoder writes out blocks as they fill up, and
\* everything at the threshold.  After an error the HourFile is dropped.
write_frame(fs, e, n) ==
    LET b == [e EXCEPT !.buf = Append(@, n), !.since_flush = @ + 1]
        kept(k) == [b EXCEPT !.started = @ \/ k > 0, !.buf = SubSeq(@, k + 1, Len(@))]
        done == IF b.since_flush >= FlushEvery
                THEN {[file |-> write_out(fs, b, Len(b.buf), FALSE),
                       state |-> [kept(Len(b.buf)) EXCEPT !.since_flush = 0]]}
                ELSE {[file |-> IF k = 0 THEN fs ELSE write_out(fs, b, k, FALSE),
                       state |-> kept(k)] : k \in 0 .. Len(b.buf)}
    IN  done \cup {[file |-> f, state |-> NoFile] : f \in cut_short(fs, b)}

-----------------------------------------------------------------------------
\* ArchiveHandle::try_push: a full queue drops the frame.
try_push ==
    /\ up /\ ~closed /\ pushed < MaxFrames
    /\ pushed' = pushed + 1
    /\ IF Len(queue) < ChannelCap
       THEN queue' = Append(queue, pushed') /\ accepted' = accepted \cup {pushed'}
       ELSE UNCHANGED << queue, accepted >>
    /\ UNCHANGED << hour, closed, writer, state, file, up, orderly, runs, healthy >>

\* Mutant: a frame that could not be written is put back.
writer_iteration_Retries ==
    /\ up /\ writer = "recv" /\ queue # << >>
    /\ \E r \in rotate(file, state) :
          IF r.state = NoFile
          THEN file' = r.file /\ state' = NoFile /\ UNCHANGED queue
          ELSE \E w \in write_frame(r.file, r.state, Head(queue)) :
                  /\ file' = w.file /\ state' = w.state
                  /\ queue' = IF w.state = NoFile THEN queue ELSE Tail(queue)
    /\ UNCHANGED << hour, pushed, accepted, closed, writer, up, orderly, runs, healthy >>

\* One iteration of writer_loop.  A file that cannot be opened loses the frame.
writer_iteration ==
    /\ up /\ writer = "recv" /\ queue # << >>
    /\ queue' = Tail(queue)
    /\ \E r \in rotate(file, state) :
          IF r.state = NoFile
          THEN file' = r.file /\ state' = NoFile
          ELSE \E w \in write_frame(r.file, r.state, Head(queue)) :
                  file' = w.file /\ state' = w.state
    /\ UNCHANGED << hour, pushed, accepted, closed, writer, up, orderly, runs, healthy >>

\* Mutant: the last file is dropped and not finished.
writer_end_NoFinalize ==
    /\ up /\ writer = "recv" /\ queue = << >> /\ closed
    /\ writer' = "ended"
    /\ state' = NoFile
    /\ UNCHANGED << hour, pushed, accepted, queue, closed, file, up, orderly, runs, healthy >>

\* The channel is empty and closed: the last file is finished.
writer_end ==
    /\ up /\ writer = "recv" /\ queue = << >> /\ closed
    /\ writer' = "ended"
    /\ state' = NoFile
    /\ file' \in IF state = NoFile THEN {file} ELSE finalize(file, state)
    /\ UNCHANGED << hour, pushed, accepted, queue, closed, up, orderly, runs, healthy >>

\* ArchiveHandle::shutdown, or the drop of the handle with the pipeline.
close ==
    /\ up /\ ~closed
    /\ closed' = TRUE
    /\ UNCHANGED << hour, pushed, accepted, queue, writer, state, file,
                    up, orderly, runs, healthy >>

-----------------------------------------------------------------------------
\* The process is gone, and with it the queue and what the encoder held.
Ends(how) ==
    /\ up
    /\ up' = FALSE /\ orderly' = how
    /\ queue' = << >> /\ state' = NoFile
    /\ healthy' = (healthy /\ how)
    /\ UNCHANGED << hour, pushed, accepted, closed, writer, file, runs >>

\* main returns, after shutdown has joined the thread if it was called; the
\* handle is dropped in any case.
exit == closed /\ (CallsShutdown => writer = "ended") /\ Ends(TRUE)

crash == "crash" \in Faults /\ Ends(FALSE)

\* ArchiveWriter::spawn again, on the same directory.
restart ==
    /\ ~up /\ runs < MaxRuns
    /\ up' = TRUE /\ orderly' = FALSE /\ runs' = runs + 1
    /\ closed' = FALSE /\ writer' = "recv"
    /\ UNCHANGED << hour, pushed, accepted, queue, state, file, healthy >>

\* The clock shows another hour.
clock(h) ==
    /\ h # hour /\ hour' = h
    /\ UNCHANGED << pushed, accepted, queue, closed, writer, state, file,
                    up, orderly, runs, healthy >>

\* The disk is full, or fails: from now on writes may be refused.
disk_fails ==
    /\ "io" \in Faults /\ healthy
    /\ healthy' = FALSE
    /\ UNCHANGED << hour, pushed, accepted, queue, closed, writer, state, file,
                    up, orderly, runs >>

Next ==
    \/ try_push \/ writer_iteration \/ writer_end \/ close
    \/ exit \/ crash \/ restart \/ disk_fails
    \/ \E h \in Hours : clock(h)

Spec == Init /\ [][Next]_vars

-----------------------------------------------------------------------------
\* The frames a reader gets out of the file of hour h.
Readable(h) ==
    LET s == file[h]
        stop == SelectInSeq(s, LAMBDA x : ~x.ended)
    IN  FlattenSeq([i \in 1 .. (IF stop = 0 THEN Len(s) ELSE stop) |-> s[i].frames])

InArchive(n) == \E h \in Hours : n \in ToSet(Readable(h))

(***************************************************************************)
(* Whatever fails, what the archive gives back is what was pushed: frames  *)
(* of a file come in the order they were pushed, none is given back twice, *)
(* in one file or in two, and none that try_push said was dropped.         *)
(***************************************************************************)
ArchiveFaithful ==
    /\ \A h \in Hours :
          LET r == Readable(h) IN \A i, j \in DOMAIN r : i < j => r[i] < r[j]
    /\ \A g, h \in Hours : g # h => ToSet(Readable(g)) \cap ToSet(Readable(h)) = {}
    /\ \A h \in Hours : ToSet(Readable(h)) \subseteq accepted

(***************************************************************************)
(* ArchiveHandle::shutdown: "Closes the channel and joins the writer       *)
(* thread, ensuring every buffered byte hits disk": as long as the disk    *)
(* works, every frame that was accepted can be read once the thread has    *)
(* ended, whichever hours the clock showed, in whichever order, and also   *)
(* if an earlier run of the process wrote to the same files.               *)
(***************************************************************************)
ShutdownSavesAll == healthy /\ writer = "ended" => \A n \in accepted : InArchive(n)

(***************************************************************************)
(* raw-archive/src/lib.rs: "Files are flushed/closed on rotation and at    *)
(* shutdown": after the process has returned from main every frame that    *)
(* was accepted can be read.                                               *)
(***************************************************************************)
ExitFlushes == ~up /\ orderly => \A n \in accepted : InArchive(n)

(***************************************************************************)
(* writer.rs, after a failed write: "Try recovering by closing &           *)
(* re-opening on next iteration": a frame in a stream that was finished    *)
(* can be read.                                                            *)
(***************************************************************************)
RecoveredReadable ==
    \A h \in Hours : \A i \in DOMAIN file[h] :
        file[h][i].ended => \A n \in ToSet(file[h][i].frames) : InArchive(n)
=============================================================================
