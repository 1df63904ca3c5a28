---------------------------- MODULE CedroStream ----------------------------
(***************************************************************************)
(* The bytes of the Cedro connection: Connection::open with the handshake  *)
(* (cedro-client/src/connection.rs and handshake.rs), and the reader with  *)
(* the frame splitter behind it (cedro-protocol/src/frame.rs).  The server *)
(* sends four prompts with text around them, and then the stream of data;  *)
(* a read returns as many bytes as it likes of what has arrived.           *)
(*                                                                         *)
(* A prompt is two symbols, so that a read may cut it; "text" is whatever  *)
(* else comes before "You are connected".  Time passes while the client    *)
(* waits in a read, in ticks; deadline and read timeout are Timeout ticks. *)
(***************************************************************************)
EXTENDS Integers, Sequences, SequencesExt, FiniteSets

CONSTANTS
    Order,          \* the order in which the server sends the prompts
    Timeout,        \* handshake_timeout
    MaxText,        \* bound: symbols of text
    MaxData         \* bound: symbols of the stream

\* What consume_until looks for: Welcome, Username, Password, Connected.
Needle == << << "W1", "W2" >>, << "U1", "U2" >>, << "P1", "P2" >>, << "C1", "C2" >> >>
Steps == DOMAIN Needle

ASSUME StreamAssumption ==
    /\ Order \in [Steps -> Steps] /\ IsInjective(Order)
    /\ Timeout \in Nat \ {0} /\ MaxText \in Nat /\ MaxData \in Nat

PromptBytes == UNION {ToSet(Needle[s]) : s \in Steps}
Terminators == {"newline", "bang"}
Data == {"x"} \cup Terminators
Bytes == PromptBytes \cup {"text"} \cup Data

VARIABLES
    sent,           \* everything the server has sent
    wire,           \* what of it has not been read
    peer,           \* "open", or "closed" once the server is gone
    client,         \* where Connection::open is
    step,           \* the prompt consume_until is called for
    buf,            \* HandshakeBuf::buf
    clock,          \* ticks since the handshake began
    waited,         \* ticks the current read has waited
    reader,         \* where reader_loop is
    splitter,       \* FrameSplitter::buf
    fed,            \* what the reader has read
    frames          \* frames it has pushed

server == << sent, peer >>
handshake == << client, step, buf, clock, waited >>
stream == << reader, splitter, fed, frames >>
vars == << sent, wire, peer, handshake, stream >>

TypeOK ==
    /\ sent \in Seq(Bytes) /\ wire \in Seq(Bytes)
    /\ peer \in {"open", "closed"}
    /\ client \in {"connect", "await", "read", "connected", "failed"}
    /\ step \in Steps
    /\ buf \in Seq(Bytes)
    /\ clock \in Nat
    /\ waited \in 0 .. Timeout
    /\ reader \in {"none", "read", "split", "ended"}
    /\ splitter \in Seq(Bytes) /\ fed \in Seq(Bytes)
    /\ frames \in Seq([kind : {"Bang", "Newline"}, bytes : Seq(Bytes \ Terminators)])

Init ==
    /\ sent = << >> /\ wire = << >> /\ peer = "open"
    /\ client = "connect" /\ step = 1 /\ buf = << >> /\ clock = 0 /\ waited = 0
    /\ reader = "none" /\ splitter = << >> /\ fed = << >> /\ frames = << >>

-----------------------------------------------------------------------------
Count(s, S) == Cardinality({i \in DOMAIN s : s[i] \in S})

\* What the server may send next: the prompts, never broken off, with text
\* between them, and then data.  It need not wait for the client's lines.
ServerNext ==
    LET k == Count(sent, PromptBytes) IN
    IF k = 2 * Len(Needle) THEN IF Count(sent, Data) < MaxData THEN Data ELSE {}
    ELSE {Needle[Order[(k \div 2) + 1]][(k % 2) + 1]}
         \cup (IF k % 2 = 0 /\ Count(sent, {"text"}) < MaxText THEN {"text"} ELSE {})

server_send ==
    /\ peer = "open" /\ client # "connect"
    /\ \E b \in ServerNext : sent' = Append(sent, b) /\ wire' = Append(wire, b)
    /\ UNCHANGED << peer, handshake, stream >>

server_close ==
    /\ peer = "open" /\ client # "connect"
    /\ peer' = "closed"
    /\ UNCHANGED << sent, wire, handshake, stream >>

-----------------------------------------------------------------------------
\* Connection::open up to the handshake, which computes its deadline.
open_connect ==
    /\ client = "connect"
    /\ client' \in {"await", "failed"}
    /\ UNCHANGED << sent, wire, peer, step, buf, clock, waited, stream >>

\* memmem::find.
Found(s, n) == {i \in 1 .. Len(s) - 1 : SubSeq(s, i, i + 1) = n}
find(s, n) == CHOOSE i \in Found(s, n) : \A j \in Found(s, n) : i <= j

\* Mutant: each step starts with an empty buffer.
drain_All(s, n) == << >>

\* Everything up to and including the needle leaves the buffer.
drain(s, n) == SubSeq(s, find(s, n) + 2, Len(s))

\* consume_until finds a prompt and perform writes its line, or fails to; with
\* the line written the next step begins.
hs_answer ==
    /\ client = "await" /\ step < Len(Needle)
    /\ Found(buf, Needle[step]) # {}
    /\ buf' = drain(buf, Needle[step])
    /\ \/ client' = "await" /\ step' = step + 1
       \/ client' = "failed" /\ UNCHANGED step
    /\ UNCHANGED << sent, wire, peer, clock, waited, stream >>

\* The last prompt: perform returns, its buffer is dropped, the timeouts are
\* removed and the reader is spawned on the stream, unless a call for it fails.
hs_connected ==
    /\ client = "await" /\ step = Len(Needle)
    /\ Found(buf, Needle[step]) # {}
    /\ buf' = << >>
    /\ \/ client' = "connected" /\ reader' = "read"
       \/ client' = "failed" /\ UNCHANGED reader
    /\ UNCHANGED << sent, wire, peer, step, clock, waited, splitter, fed, frames >>

\* Mutant: the deadline is not looked at.
hs_check_NoDeadline ==
    /\ client = "await" /\ Found(buf, Needle[step]) = {}
    /\ client' = "read" /\ waited' = 0
    /\ UNCHANGED << sent, wire, peer, step, buf, clock, stream >>

\* consume_until has to read more, unless the deadline is over.
hs_check ==
    /\ client = "await" /\ Found(buf, Needle[step]) = {}
    /\ client' = IF clock >= Timeout THEN "failed" ELSE "read"
    /\ waited' = 0
    /\ UNCHANGED << sent, wire, peer, step, buf, clock, stream >>

\* stream.read returns some of what has arrived.
hs_read ==
    /\ client = "read"
    /\ \E n \in 1 .. Len(wire) :
          /\ buf' = buf \o SubSeq(wire, 1, n)
          /\ wire' = SubSeq(wire, n + 1, Len(wire))
    /\ client' = "await"
    /\ UNCHANGED << sent, peer, step, clock, waited, stream >>

\* stream.read returns 0 at the end of the stream, or fails: at the latest when
\* the read timeout is over, as tick cannot happen then.
hs_read_err ==
    /\ client = "read"
    /\ client' = "failed"
    /\ UNCHANGED << sent, wire, peer, step, buf, clock, waited, stream >>

\* Time passes in a read that has nothing to return.
tick ==
    /\ client = "read" /\ wire = << >> /\ peer = "open" /\ waited < Timeout
    /\ clock' = clock + 1 /\ waited' = waited + 1
    /\ UNCHANGED << sent, wire, peer, client, step, buf, stream >>

-----------------------------------------------------------------------------
\* Mutant: what was left of the last read is overwritten.
reader_read_Overwrites ==
    /\ reader = "read"
    /\ \E n \in 1 .. Len(wire) :
          /\ fed' = fed \o SubSeq(wire, 1, n)
          /\ splitter' = SubSeq(wire, 1, n)
          /\ wire' = SubSeq(wire, n + 1, Len(wire))
    /\ reader' = "split"
    /\ UNCHANGED << sent, peer, handshake, frames >>

\* reader_loop: a read, and extend_from_slice.
reader_read ==
    /\ reader = "read"
    /\ \E n \in 1 .. Len(wire) :
          /\ fed' = fed \o SubSeq(wire, 1, n)
          /\ splitter' = splitter \o SubSeq(wire, 1, n)
          /\ wire' = SubSeq(wire, n + 1, Len(wire))
    /\ reader' = "split"
    /\ UNCHANGED << sent, peer, handshake, frames >>

\* The first terminator in the splitter's buffer, or 0 (memchr2).
terminator == SelectInSeq(splitter, LAMBDA b : b \in Terminators)

\* Mutant: the terminator stays on the frame.
next_frame_NoTruncate ==
    /\ reader = "split" /\ terminator # 0
    /\ frames' = Append(frames,
                        [kind  |-> IF splitter[terminator] = "bang" THEN "Bang" ELSE "Newline",
                         bytes |-> SubSeq(splitter, 1, terminator)])
    /\ splitter' = SubSeq(splitter, terminator + 1, Len(splitter))
    /\ UNCHANGED << sent, wire, peer, handshake, reader, fed >>

\* FrameSplitter::next_frame returns a frame, which goes to the channel.
next_frame ==
    /\ reader = "split" /\ terminator # 0
    /\ frames' = Append(frames,
                        [kind  |-> IF splitter[terminator] = "bang" THEN "Bang" ELSE "Newline",
                         bytes |-> SubSeq(splitter, 1, terminator - 1)])
    /\ splitter' = SubSeq(splitter, terminator + 1, Len(splitter))
    /\ UNCHANGED << sent, wire, peer, handshake, reader, fed >>

\* next_frame returns None: back to the read.
next_frame_none ==
    /\ reader = "split" /\ terminator = 0
    /\ reader' = "read"
    /\ UNCHANGED << sent, wire, peer, handshake, splitter, fed, frames >>

\* End of the stream, an error of the read or the stop flag: an unfinished
\* frame is dropped with the splitter.
reader_end ==
    /\ reader = "read"
    /\ reader' = "ended"
    /\ UNCHANGED << sent, wire, peer, handshake, splitter, fed, frames >>

Next ==
    \/ server_send \/ server_close
    \/ open_connect
    \/ hs_answer \/ hs_connected \/ hs_check \/ hs_read \/ hs_read_err \/ tick
    \/ reader_read \/ next_frame \/ next_frame_none \/ reader_end

Spec == Init /\ [][Next]_vars

-----------------------------------------------------------------------------
\* What the client has read so far.
Read == SubSeq(sent, 1, Len(sent) - Len(wire))

(***************************************************************************)
(* handshake.rs: "a single read() may coalesce several Cedro prompts and   *)
(* we must not drop the surplus": a prompt that has been read and not been *)
(* answered is in the buffer, however reads cut and join the prompts, so   *)
(* that the handshake never waits for, or gives up on, one it was sent.    *)
(***************************************************************************)
NoPromptLost ==
    client \in {"await", "read"} =>
        \A s \in Steps : s >= step /\ Found(Read, Needle[s]) # {} => Found(buf, Needle[s]) # {}

(***************************************************************************)
(* The handshake is over, one way or the other, before twice its timeout:  *)
(* a server that answers slowly, or sends text for ever, cannot hold the   *)
(* boot longer than the deadline and one read that began before it.        *)
(***************************************************************************)
HandshakeBounded ==
    client \in {"await", "read"} => clock < 2 * Timeout

(***************************************************************************)
(* The reference for the splitter: the k-th frame of a byte string is what *)
(* is between its terminator number k and the one before it.               *)
(***************************************************************************)
Ends(s, n) == {i \in 1 .. n : s[i] \in Terminators}
NthEnd(s, k) == CHOOSE i \in Ends(s, Len(s)) : Cardinality(Ends(s, i)) = k
FrameOf(s, from, end) ==
    [kind  |-> IF s[end] = "bang" THEN "Bang" ELSE "Newline",
     bytes |-> SubSeq(s, from + 1, end - 1)]
FramesOf(s) ==
    [k \in 1 .. Cardinality(Ends(s, Len(s))) |->
        FrameOf(s, IF k = 1 THEN 0 ELSE NthEnd(s, k - 1), NthEnd(s, k))]

(***************************************************************************)
(* The frames do not depend on how reads cut the stream: what next_frame   *)
(* has returned is the frames of all that was read, in order, and whenever *)
(* the reader goes back to read none is left.                              *)
(***************************************************************************)
FramesExact ==
    /\ IsPrefix(frames, FramesOf(fed))
    /\ reader # "split" => frames = FramesOf(fed)

(***************************************************************************)
(* handshake.rs, perform: "On success the stream is positioned right after *)
(* `You are connected`": the reader gets everything behind that prompt.    *)
(***************************************************************************)
StreamPositioned ==
    reader # "none" =>
        IsPrefix(fed, SubSeq(sent, find(sent, Needle[Len(Needle)]) + 2, Len(sent)))
=============================================================================
