------------------------- MODULE IngestDaemonProofs -------------------------
(***************************************************************************)
(* Proofs about the way of a frame, for every number of tickers, messages, *)
(* workers and frames and every capacity: what the reader takes from the   *)
(* socket comes to the pool once and in order; a daemon that exits has     *)
(* dispatched it all; and with one worker the engines follow the feed.     *)
(*                                                                         *)
(* The daemon takes the steps of the pipeline and one more that touches    *)
(* its state, which changes the book engine's filter: PipeNext.            *)
(***************************************************************************)
EXTENDS IngestDaemon, FiniteSetTheorems, SequenceTheorems, WellFoundedInduction, TLAPS

set_allowed ==
    /\ allowed' \in SUBSET Tickers
    /\ UNCHANGED << socket, threads, quotes, books, trades, catalog, archive, submitted, persisted >>

PipeNext == Next \/ set_allowed

\* Frames the pool has taken.
Ahead == Len(sent) - (Len(channel) + Len(splitter) + Len(kernel))

(***************************************************************************)
(* The inductive invariant: the three stretches a frame waits in hold      *)
(* consecutive numbers, one behind the other.                              *)
(***************************************************************************)
InLine ==
    /\ \A i \in 1 .. Len(channel) : channel[i] = Ahead + i
    /\ \A i \in 1 .. Len(splitter) : splitter[i] = Ahead + Len(channel) + i
    /\ \A i \in 1 .. Len(kernel) : kernel[i] = Ahead + Len(channel) + Len(splitter) + i

HeldOnce ==
    /\ \A w \in Workers : worker[w].pc = "dispatch" => worker[w].frame \in 1 .. Ahead
    /\ \A v, w \in Workers :
          worker[v].pc = "dispatch" /\ worker[w].pc = "dispatch" /\ v # w =>
              worker[v].frame # worker[w].frame

\* The reader keeps frames only while it is sending them.
SplitterUse == splitter = << >> <=> reader # "send"

\* A worker leaves only an empty channel nobody feeds any more.
LeftEmpty == \A w \in Workers : worker[w].pc = "done" => channel = << >> /\ reader = "exited"

\* TypeOK in two parts: the frames on their way, and the engines.
WayTypes ==
    /\ sent \in Seq(Msgs) /\ Len(sent) <= MaxFrames
    /\ peer \in {"open", "closed"}
    /\ kernel \in Seq(Frames)
    /\ splitter \in Seq(Frames)
    /\ channel \in Seq(Frames) /\ Len(channel) <= ChannelCap
    /\ reader \in {"top", "read", "send", "exited"}
    /\ stop_flag \in BOOLEAN
    /\ worker \in [Workers -> [pc : {"unborn", "recv", "dispatch", "done"},
                               frame : Frames \cup {NoFrame}]]

EngineTypes ==
    /\ quotes \in [Tickers -> [time_hhmmss : Nat, version : Nat, fields : [Fields -> Nat]]]
    /\ books \in [Tickers -> Seq(Frames)]
    /\ allowed \subseteq Tickers
    /\ trades \in [Tickers -> Seq([n : Frames, trade_id : TradeIds])]
    /\ \A t \in Tickers : Len(trades[t]) <= per_ticker_capacity
    /\ catalog \in [symbols : SUBSET Tickers, book_universe : SUBSET Tickers,
                    brokers : [Brokers -> Nat]]
    /\ archive \in Seq(Frames) /\ Len(archive) <= ArchiveCap
    /\ submitted \subseteq Frames
    /\ persisted \subseteq Frames

WayInv == WayTypes /\ Ahead \in Nat /\ InLine /\ HeldOnce /\ SplitterUse /\ LeftEmpty

PipeInv == WayInv /\ EngineTypes

-----------------------------------------------------------------------------
\* A set of numbers that is not empty has a least element.
LEMMA Least ==
    ASSUME NEW T \in SUBSET Nat, T # {}
    PROVE  \E x \in T : \A y \in T : x <= y
<1>1. IsWellFoundedOn(OpToRel(<, Nat), Nat)
  BY NatLessThanWellFounded
<1>2. PICK x \in T : \A y \in T : ~(<< y, x >> \in OpToRel(<, Nat))
  BY <1>1, WFMin
<1>3. \A y \in T : ~(y < x)
  BY <1>2 DEF OpToRel
<1> QED BY <1>3

\* What the kind of a message says of its other fields.
LEMMA MessageFields ==
    ASSUME NEW m \in Msgs
    PROVE  /\ m.kind = "quote" => m.ticker \in Tickers /\ m.diff \subseteq Fields
           /\ m.kind \in {"book", "clear"} => m.ticker \in Tickers
           /\ m.kind \in {"add", "delete"} => m.ticker \in Tickers /\ m.trade_id \in TradeIds
           /\ m.kind = "symbol" => m.ticker \in Tickers
           /\ m.kind = "broker" => m.cedro_id \in Brokers
<1>1. m \in ProtocolMessages
  BY PipelineAssumption
<1>2. CASE m \in [kind : {"quote"}, ticker : Tickers, diff : SUBSET Fields]
  BY <1>2
<1>3. CASE m \in [kind : {"book", "clear"}, ticker : Tickers]
  BY <1>3
<1>4. CASE m \in [kind : {"add", "delete"}, ticker : Tickers, trade_id : TradeIds]
  BY <1>4
<1>5. CASE m \in [kind : {"symbol"}, market : {"Bovespa", "BMF"}, ticker : Tickers]
  BY <1>5
<1>6. CASE m \in [kind : {"broker"}, cedro_id : Brokers]
  BY <1>6
<1>7. CASE m \in [kind : {"other"}]
  BY <1>7
<1> QED BY <1>1, <1>2, <1>3, <1>4, <1>5, <1>6, <1>7 DEF ProtocolMessages

\* A trade is its ticker and its id.
LEMMA TradeMessages ==
    ASSUME NEW a \in Msgs, NEW b \in Msgs, a.kind = "add", b.kind = "add",
           a.ticker = b.ticker, a.trade_id = b.trade_id
    PROVE  a = b
<1>1. \A x \in Msgs : x.kind = "add" => x \in [kind : {"add", "delete"}, ticker : Tickers, trade_id : TradeIds]
  BY PipelineAssumption DEF ProtocolMessages
<1> QED BY <1>1

\* TradeBuffer keeps at least one trade.
LEMMA Capacity == per_ticker_capacity \in Nat \ {0}
BY CapacityAssumption DEF per_ticker_capacity

\* What TradeBuffer::push returns.
LEMMA PushWindow ==
    ASSUME NEW S, NEW window \in Seq(S), Len(window) <= per_ticker_capacity,
           NEW n, NEW id, [n |-> n, trade_id |-> id] \in S
    PROVE  LET d == IF Len(window) = per_ticker_capacity THEN 1 ELSE 0
               after == push(window, n, id)
           IN  /\ after \in Seq(S) /\ Len(after) = Len(window) - d + 1
               /\ Len(after) <= per_ticker_capacity
               /\ \A i \in 1 .. Len(window) - d : after[i] = window[i + d]
               /\ after[Len(after)] = [n |-> n, trade_id |-> id]
<1> DEFINE kept == IF Len(window) = per_ticker_capacity THEN Tail(window) ELSE window
           d == IF Len(window) = per_ticker_capacity THEN 1 ELSE 0
<1>1. /\ kept \in Seq(S) /\ Len(kept) = Len(window) - d
      /\ \A i \in 1 .. Len(kept) : kept[i] = window[i + d]
  <2>1. CASE Len(window) = per_ticker_capacity
    <3>1. window # << >>
      BY <2>1, Capacity
    <3> QED BY <2>1, <3>1
  <2>2. CASE Len(window) # per_ticker_capacity
    BY <2>2
  <2> QED BY <2>1, <2>2
<1>2. push(window, n, id) = Append(kept, [n |-> n, trade_id |-> id])
  BY DEF push
<1>3. Len(kept) + 1 <= per_ticker_capacity
  BY <1>1, Capacity
<1> HIDE DEF kept
<1> QED BY <1>1, <1>2, <1>3

\* Nothing but the new trade comes into a window.
LEMMA PushMembers ==
    ASSUME NEW S, NEW window \in Seq(S), Len(window) <= per_ticker_capacity,
           NEW n, NEW id, [n |-> n, trade_id |-> id] \in S
    PROVE  \A i \in DOMAIN push(window, n, id) :
               \/ \E j \in DOMAIN window : push(window, n, id)[i] = window[j]
               \/ push(window, n, id)[i] = [n |-> n, trade_id |-> id]
<1> DEFINE d == IF Len(window) = per_ticker_capacity THEN 1 ELSE 0
           after == push(window, n, id)
<1>1. /\ after \in Seq(S) /\ Len(after) = Len(window) - d + 1
      /\ \A i \in 1 .. Len(window) - d : after[i] = window[i + d]
      /\ after[Len(after)] = [n |-> n, trade_id |-> id]
  BY SMTT(30), PushWindow
<1>2. d \in {0, 1} /\ Len(window) - d \in Nat /\ Len(window) \in Nat /\ DOMAIN window = 1 .. Len(window)
  BY Capacity
<1> HIDE DEF d, after
<1>3. ASSUME NEW i \in 1 .. Len(window) - d + 1
      PROVE  \/ \E j \in DOMAIN window : after[i] = window[j]
             \/ after[i] = [n |-> n, trade_id |-> id]
  <2>1. CASE i = Len(window) - d + 1
    BY <1>1, <2>1
  <2>2. CASE i # Len(window) - d + 1
    <3>1. i \in 1 .. Len(window) - d /\ i + d \in DOMAIN window
      BY <1>2, <2>2
    <3> QED BY <1>1, <3>1
  <2> QED BY <2>1, <2>2
<1>4. DOMAIN after = 1 .. Len(window) - d + 1
  BY <1>1
<1> QED BY <1>3, <1>4 DEF after

\* What TradeBuffer::remove returns: all but the first trade with the id.
LEMMA RemoveWindow ==
    ASSUME NEW S, NEW window \in Seq(S), NEW id
    PROVE  LET after == remove(window, id)
               Same(i) == window[i].trade_id = id
           IN  /\ after \in Seq(S)
               /\ \/ after = window /\ \A i \in 1 .. Len(window) : ~Same(i)
                  \/ \E p \in 1 .. Len(window) :
                        /\ Same(p) /\ Len(after) = Len(window) - 1
                        /\ \A i \in 1 .. Len(after) :
                              after[i] = IF i < p THEN window[i] ELSE window[i + 1]
<1> DEFINE I == {i \in 1 .. Len(window) : window[i].trade_id = id}
           pos == SelectInSeq(window, LAMBDA r : r.trade_id = id)
<1>1. CASE I = {}
  <2>1. pos = 0
    BY <1>1 DEF SelectInSeq
  <2> QED BY <1>1, <2>1 DEF remove
<1>2. CASE I # {}
  <2>1. pos = Min(I)
    BY <1>2 DEF SelectInSeq
  <2>2. I \in SUBSET Nat
    OBVIOUS
  <2> HIDE DEF I
  <2>3. \E x \in I : \A y \in I : x <= y
    BY <1>2, <2>2, Least
  <2> USE DEF I
  <2>4. pos \in I
    BY <2>1, <2>3 DEF Min
  <2>5. remove(window, id) = RemoveAt(window, pos)
    BY <2>4 DEF remove
  <2> HIDE DEF pos
  <2>6. remove(window, id) = SubSeq(window, 1, pos - 1) \o SubSeq(window, pos + 1, Len(window))
    BY <2>5 DEF RemoveAt
  <2>7. pos \in 1 .. Len(window) /\ window[pos].trade_id = id
    BY <2>4
  <2> DEFINE a == SubSeq(window, 1, pos - 1)
             b == SubSeq(window, pos + 1, Len(window))
  <2>8. a \in Seq(S) /\ Len(a) = pos - 1 /\ \A i \in 1 .. pos - 1 : a[i] = window[i]
    BY <2>7
  <2>9. b \in Seq(S) /\ Len(b) = Len(window) - pos /\ \A i \in 1 .. Len(b) : b[i] = window[i + pos]
    BY <2>7
  <2> HIDE DEF a, b
  <2>10. a \o b \in Seq(S) /\ Len(a \o b) = Len(window) - 1
    <3>1. a \o b \in Seq(S) /\ Len(a \o b) = Len(a) + Len(b)
      BY <2>8, <2>9, ConcatProperties
    <3>2. pos \in Int /\ Len(window) \in Int
      BY <2>7
    <3> QED BY <2>8, <2>9, <3>1, <3>2
  <2>11. ASSUME NEW i \in 1 .. Len(window) - 1
         PROVE  (a \o b)[i] = IF i < pos THEN window[i] ELSE window[i + 1]
    <3>1. CASE i < pos
      BY <2>7, <2>8, <2>9, <3>1
    <3>2. CASE ~(i < pos)
      <4>1. (a \o b)[i] = b[i - Len(a)] /\ i - Len(a) \in 1 .. Len(b)
        BY <2>7, <2>8, <2>9, <3>2
      <4> QED BY <2>7, <2>8, <2>9, <3>2, <4>1
    <3> QED BY <3>1, <3>2
  <2> QED BY <2>6, <2>7, <2>10, <2>11 DEF a, b
<1> QED BY <1>1, <1>2

-----------------------------------------------------------------------------
\* The way of a frame.
LEMMA PipeTypes == PipeInv => TypeOK
BY DEF PipeInv, WayInv, WayTypes, EngineTypes, TypeOK

LEMMA InitPipe == Init => PipeInv
<1> SUFFICES ASSUME Init PROVE PipeInv
  OBVIOUS
<1>1. WayTypes
  <2>1. << >> \in Seq(Msgs) /\ << >> \in Seq(Frames) /\ Len(<< >>) = 0
    OBVIOUS
  <2>2. worker \in [Workers -> [pc : {"unborn", "recv", "dispatch", "done"}, frame : Frames \cup {NoFrame}]]
    BY DEF Init, At
  <2>3. 0 <= MaxFrames /\ 0 <= ChannelCap
    BY PipelineAssumption
  <2>4. stop_flag \in BOOLEAN
    BY DEF Init
  <2> QED BY <2>1, <2>2, <2>3, <2>4 DEF Init, WayTypes
<1>2. EngineTypes
  <2>1. NoQuote \in [time_hhmmss : Nat, version : Nat, fields : [Fields -> Nat]]
    BY DEF NoQuote
  <2>2. << >> \in Seq([n : Frames, trade_id : TradeIds]) /\ << >> \in Seq(Frames)
    OBVIOUS
  <2>3. Len(<< >>) <= per_ticker_capacity /\ Len(<< >>) <= ArchiveCap
    BY Capacity, PipelineAssumption
  <2> QED BY <2>1, <2>2, <2>3 DEF Init, EngineTypes
<1>3. Ahead \in Nat /\ InLine
  BY DEF Init, Ahead, InLine
<1>4. HeldOnce /\ SplitterUse /\ LeftEmpty
  BY DEF Init, HeldOnce, SplitterUse, LeftEmpty, At
<1> QED BY <1>1, <1>2, <1>3, <1>4 DEF PipeInv, WayInv

LEMMA SendWay == ASSUME WayInv, NEW m \in Msgs, server_send(m) PROVE WayInv'
<1> DEFINE n == Len(sent) + 1
<1>1. /\ sent' = Append(sent, m) /\ kernel' = Append(kernel, Len(sent'))
      /\ UNCHANGED << peer, splitter, channel, reader, stop_flag, worker >>
      /\ Len(sent) < MaxFrames
  BY DEF server_send, threads
<1>2. sent \in Seq(Msgs) /\ kernel \in Seq(Frames) /\ n \in Frames
  BY <1>1, PipelineAssumption DEF WayInv, WayTypes, Frames
<1>3. /\ sent' \in Seq(Msgs) /\ Len(sent') = n
      /\ kernel' \in Seq(Frames) /\ Len(kernel') = Len(kernel) + 1
      /\ kernel'[Len(kernel) + 1] = n
      /\ \A i \in 1 .. Len(kernel) : kernel'[i] = kernel[i]
  BY <1>1, <1>2
<1>4. WayTypes'
  BY <1>1, <1>2, <1>3, PipelineAssumption DEF WayInv, WayTypes
<1>5. Len(channel) \in Nat /\ Len(splitter) \in Nat /\ Len(kernel) \in Nat /\ Len(sent) \in Nat
  BY DEF WayInv, WayTypes
<1>6. Ahead' = Ahead
  BY <1>1, <1>3, <1>5 DEF Ahead
<1>7. InLine'
  BY <1>1, <1>3, <1>5, <1>6 DEF WayInv, InLine, Ahead
<1>8. HeldOnce' /\ SplitterUse' /\ LeftEmpty'
  BY <1>1, <1>6 DEF WayInv, HeldOnce, SplitterUse, LeftEmpty
<1> QED BY <1>4, <1>6, <1>7, <1>8 DEF WayInv

LEMMA ReadWay == ASSUME WayInv, reader_read PROVE WayInv'
<1>1. PICK n \in 1 .. Len(kernel) :
         /\ splitter' = splitter \o SubSeq(kernel, 1, n)
         /\ kernel' = SubSeq(kernel, n + 1, Len(kernel))
  BY DEF reader_read
<1>2. /\ reader = "read" /\ reader' = "send"
      /\ UNCHANGED << sent, peer, channel, stop_flag, worker >>
  BY DEF reader_read
<1>3. splitter = << >> /\ splitter \in Seq(Frames) /\ kernel \in Seq(Frames)
  BY <1>2 DEF WayInv, WayTypes, SplitterUse
<1>4. /\ splitter' \in Seq(Frames) /\ Len(splitter') = n
      /\ \A i \in 1 .. n : splitter'[i] = kernel[i]
      /\ kernel' \in Seq(Frames) /\ Len(kernel') = Len(kernel) - n
      /\ \A i \in 1 .. Len(kernel) - n : kernel'[i] = kernel[i + n]
  BY <1>1, <1>3
<1>5. WayTypes'
  BY <1>2, <1>4 DEF WayInv, WayTypes
<1>6. Len(channel) \in Nat /\ Len(splitter) = 0 /\ Len(kernel) \in Nat /\ Len(sent) \in Nat
  BY <1>3 DEF WayInv, WayTypes
<1>7. Ahead' = Ahead
  BY <1>2, <1>4, <1>6 DEF Ahead
<1>8. InLine'
  BY <1>2, <1>4, <1>6, <1>7 DEF WayInv, InLine, Ahead
<1>9. HeldOnce' /\ LeftEmpty'
  BY <1>2, <1>7 DEF WayInv, HeldOnce, LeftEmpty
<1>10. SplitterUse'
  BY <1>2, <1>4 DEF SplitterUse
<1> QED BY <1>5, <1>7, <1>8, <1>9, <1>10 DEF WayInv

LEMMA PushWay == ASSUME WayInv, reader_send PROVE WayInv'
<1>1. /\ reader = "send" /\ Len(channel) < ChannelCap
      /\ channel' = Append(channel, Head(splitter)) /\ splitter' = Tail(splitter)
      /\ reader' = IF Len(splitter) = 1 THEN "top" ELSE "send"
      /\ UNCHANGED << sent, peer, kernel, stop_flag, worker >>
  BY DEF reader_send, socket
<1>2. splitter # << >> /\ splitter \in Seq(Frames) /\ channel \in Seq(Frames)
  BY <1>1 DEF WayInv, WayTypes, SplitterUse
<1>3. /\ channel' \in Seq(Frames) /\ Len(channel') = Len(channel) + 1
      /\ channel'[Len(channel) + 1] = splitter[1]
      /\ \A i \in 1 .. Len(channel) : channel'[i] = channel[i]
      /\ splitter' \in Seq(Frames) /\ Len(splitter') = Len(splitter) - 1
      /\ \A i \in 1 .. Len(splitter) - 1 : splitter'[i] = splitter[i + 1]
  BY <1>1, <1>2
<1>4. WayTypes'
  BY <1>1, <1>3, PipelineAssumption DEF WayInv, WayTypes
<1>5. Len(channel) \in Nat /\ Len(splitter) \in Nat \ {0} /\ Len(kernel) \in Nat /\ Len(sent) \in Nat
  BY <1>2 DEF WayInv, WayTypes
<1>6. Ahead' = Ahead
  BY <1>1, <1>3, <1>5 DEF Ahead
<1>7. InLine'
  <2>1. InLine /\ Ahead \in Nat
    BY DEF WayInv
  <2>2. ASSUME NEW i \in 1 .. Len(channel') PROVE channel'[i] = Ahead' + i
    <3>1. CASE i = Len(channel) + 1
      <4>1. splitter[1] = Ahead + Len(channel) + 1
        BY <1>5, <2>1 DEF InLine
      <4> QED BY <1>3, <1>5, <1>6, <2>1, <3>1, <4>1
    <3>2. CASE i # Len(channel) + 1
      <4>1. i \in 1 .. Len(channel)
        BY <1>3, <1>5, <3>2
      <4>2. channel[i] = Ahead + i /\ channel'[i] = channel[i]
        BY <1>3, <2>1, <4>1 DEF InLine
      <4> QED BY <1>6, <4>2
    <3> QED BY <3>1, <3>2
  <2>3. ASSUME NEW i \in 1 .. Len(splitter') PROVE splitter'[i] = Ahead' + Len(channel') + i
    BY <1>3, <1>5, <1>6, <2>1 DEF InLine
  <2>4. ASSUME NEW i \in 1 .. Len(kernel')
        PROVE  kernel'[i] = Ahead' + Len(channel') + Len(splitter') + i
    BY <1>1, <1>3, <1>5, <1>6, <2>1 DEF InLine
  <2> QED BY <2>2, <2>3, <2>4 DEF InLine
<1>8. HeldOnce' /\ LeftEmpty'
  BY <1>1, <1>6 DEF WayInv, HeldOnce, LeftEmpty
<1>9. SplitterUse'
  BY SMTT(30), <1>1, <1>3, <1>5 DEF SplitterUse
<1> QED BY <1>4, <1>6, <1>7, <1>8, <1>9 DEF WayInv

LEMMA TakeWay == ASSUME WayInv, NEW w \in Workers, worker_recv(w) PROVE WayInv'
<1>1. /\ worker[w].pc = "recv" /\ channel # << >>
      /\ worker' = [worker EXCEPT ![w] = [pc |-> "dispatch", frame |-> Head(channel)]]
      /\ channel' = Tail(channel)
      /\ UNCHANGED << sent, peer, kernel, splitter, reader, stop_flag >>
  BY DEF worker_recv, socket
<1>2. channel \in Seq(Frames)
  BY DEF WayInv, WayTypes
<1>3. /\ channel' \in Seq(Frames) /\ Len(channel') = Len(channel) - 1
      /\ \A i \in 1 .. Len(channel) - 1 : channel'[i] = channel[i + 1]
      /\ Head(channel) = channel[1] /\ channel[1] \in Frames
  BY <1>1, <1>2
<1>4. WayTypes'
  BY <1>1, <1>3, PipelineAssumption DEF WayInv, WayTypes
<1>5. Len(channel) \in Nat \ {0} /\ Len(splitter) \in Nat /\ Len(kernel) \in Nat /\ Len(sent) \in Nat
  BY <1>1, <1>2 DEF WayInv, WayTypes
<1>6. Ahead' = Ahead + 1 /\ Ahead \in Nat
  BY <1>1, <1>3, <1>5 DEF WayInv, Ahead
<1>7. InLine'
  BY <1>1, <1>3, <1>5, <1>6 DEF WayInv, InLine, Ahead
<1>8. channel[1] = Ahead + 1
  BY <1>5 DEF WayInv, InLine
<1>9. HeldOnce'
  <2>1. worker \in [Workers -> [pc : {"unborn", "recv", "dispatch", "done"}, frame : Frames \cup {NoFrame}]]
    BY DEF WayInv, WayTypes
  <2>2. worker'[w].frame = Ahead + 1 /\ \A v \in Workers \ {w} : worker'[v] = worker[v]
    BY <1>1, <1>3, <1>8, <2>1
  <2>3. HeldOnce
    BY DEF WayInv
  <2> QED BY <1>6, <2>2, <2>3 DEF HeldOnce
<1>10. SplitterUse' /\ LeftEmpty'
  BY <1>1 DEF WayInv, WayTypes, SplitterUse, LeftEmpty
<1> QED BY <1>4, <1>6, <1>7, <1>9, <1>10 DEF WayInv

\* A worker lets go of its frame.
LEMMA DispatchWay == ASSUME WayInv, NEW w \in Workers, dispatch(w) PROVE WayInv'
<1>1. /\ worker' = [worker EXCEPT ![w] = At("recv")]
      /\ UNCHANGED << sent, peer, kernel, splitter, channel, reader, stop_flag >>
  BY DEF dispatch, socket
<1>2. worker \in [Workers -> [pc : {"unborn", "recv", "dispatch", "done"}, frame : Frames \cup {NoFrame}]]
  BY DEF WayInv, WayTypes
<1>3. worker'[w].pc = "recv" /\ \A v \in Workers \ {w} : worker'[v] = worker[v]
  BY <1>1, <1>2 DEF At
<1>4. WayTypes'
  BY <1>1, <1>2 DEF WayInv, WayTypes, At
<1>5. Ahead' = Ahead /\ (Ahead \in Nat)' /\ InLine'
  BY <1>1 DEF WayInv, Ahead, InLine
<1>6. HeldOnce'
  BY <1>3, <1>5 DEF WayInv, HeldOnce
<1>7. SplitterUse' /\ LeftEmpty'
  BY <1>1, <1>3 DEF WayInv, SplitterUse, LeftEmpty
<1> QED BY <1>4, <1>5, <1>6, <1>7 DEF WayInv

\* The steps that move no frame.
LEMMA StillWay ==
    ASSUME WayInv,
           \/ server_close \/ reader_check \/ reader_eof \/ reader_interrupted \/ request_stop
           \/ spawn_workers \/ \E w \in Workers : worker_disconnected(w)
           \/ archive_recv \/ set_allowed
           \/ UNCHANGED << sent, peer, kernel, splitter, channel, reader, stop_flag, worker >>
    PROVE  WayInv'
<1>1. UNCHANGED << sent, kernel, splitter, channel >>
  BY DEF server_close, reader_check, reader_eof, reader_interrupted, request_stop, spawn_workers,
         worker_disconnected, archive_recv, set_allowed, socket, threads
<1>2. Ahead' = Ahead /\ (Ahead \in Nat)' /\ InLine'
  BY <1>1 DEF WayInv, Ahead, InLine
<1>3. WayTypes /\ HeldOnce /\ SplitterUse /\ LeftEmpty
  BY DEF WayInv
<1>4. CASE server_close
  BY <1>1, <1>2, <1>3, <1>4
     DEF server_close, threads, WayInv, WayTypes, HeldOnce, SplitterUse, LeftEmpty
<1>5. CASE reader_check \/ reader_eof \/ reader_interrupted
  <2>1. /\ reader # "send" /\ reader # "exited" /\ reader' \in {"top", "read", "exited"}
        /\ UNCHANGED << peer, stop_flag, worker >>
    BY <1>5 DEF reader_check, reader_eof, reader_interrupted, socket
  <2> QED BY <1>1, <1>2, <1>3, <2>1 DEF WayInv, WayTypes, HeldOnce, SplitterUse, LeftEmpty
<1>6. CASE request_stop
  <2>1. stop_flag' \in BOOLEAN
    BY <1>6 DEF request_stop
  <2>2. UNCHANGED << peer, reader, worker >>
    BY <1>6 DEF request_stop, socket
  <2> QED BY <1>1, <1>2, <1>3, <2>1, <2>2 DEF WayInv, WayTypes, HeldOnce, SplitterUse, LeftEmpty
<1>7. CASE spawn_workers
  <2>1. worker' = [w \in Workers |-> At("recv")] /\ UNCHANGED << peer, reader, stop_flag >>
    BY <1>7 DEF spawn_workers, socket
  <2>2. WayTypes'
    BY <1>1, <1>3, <2>1 DEF WayTypes, At
  <2> QED BY <1>1, <1>2, <1>3, <2>1, <2>2 DEF WayInv, HeldOnce, SplitterUse, LeftEmpty, At
<1>8. ASSUME NEW w \in Workers, worker_disconnected(w) PROVE WayInv'
  <2>1. /\ channel = << >> /\ reader = "exited" /\ worker' = [worker EXCEPT ![w] = At("done")]
        /\ UNCHANGED << peer, reader, stop_flag >>
    BY <1>8 DEF worker_disconnected, socket
  <2>2. WayTypes'
    BY <1>1, <1>3, <2>1 DEF WayTypes, At
  <2>3. worker'[w].pc = "done" /\ \A v \in Workers \ {w} : worker'[v] = worker[v]
    BY <1>3, <2>1 DEF WayTypes, At
  <2> QED BY <1>1, <1>2, <1>3, <2>1, <2>2, <2>3 DEF WayInv, HeldOnce, SplitterUse, LeftEmpty
<1>9. CASE \/ archive_recv \/ set_allowed
           \/ UNCHANGED << sent, peer, kernel, splitter, channel, reader, stop_flag, worker >>
  <2>1. UNCHANGED << peer, reader, stop_flag, worker >>
    BY <1>9 DEF archive_recv, set_allowed, socket, threads
  <2> QED BY <1>1, <1>2, <1>3, <2>1 DEF WayInv, WayTypes, HeldOnce, SplitterUse, LeftEmpty
<1> QED BY <1>4, <1>5, <1>6, <1>7, <1>8, <1>9

-----------------------------------------------------------------------------
\* The engines: only dispatch changes them, and each keeps its type.
LEMMA DispatchEngines ==
    ASSUME PipeInv, NEW w \in Workers, dispatch(w) PROVE EngineTypes'
<1> DEFINE n == worker[w].frame
           m == sent[n]
<1>1. n \in 1 .. Ahead /\ Ahead <= Len(sent) /\ Len(sent) <= MaxFrames /\ sent \in Seq(Msgs)
  BY DEF dispatch, PipeInv, WayInv, HeldOnce, Ahead, WayTypes
<1>2. n \in Frames /\ m \in Msgs
  <2>1. Ahead \in Nat /\ Len(sent) \in Nat /\ MaxFrames \in Nat
    BY <1>1, PipelineAssumption DEF PipeInv, WayInv
  <2>2. n \in 1 .. Len(sent) /\ n \in Frames
    BY <1>1, <2>1 DEF Frames
  <2> QED BY <1>1, <2>2
<1>3. EngineTypes
  BY DEF PipeInv
<1>4. /\ try_push(n)
      /\ quotes' = quotes_after(m, n) /\ books' = books_after(m, n)
      /\ trades' = trades_after(m, n) /\ catalog' = catalog_after(m, n)
      /\ submitted' \in {submitted, submitted \cup {n}} /\ persisted' \in {persisted, persisted \cup {n}}
      /\ allowed' = allowed
  BY DEF dispatch
<1> HIDE DEF n, m
<1>5. quotes' \in [Tickers -> [time_hhmmss : Nat, version : Nat, fields : [Fields -> Nat]]]
  <2>1. CASE m.kind = "quote"
    <3>1. m.ticker \in Tickers /\ n \in Nat
      BY <1>2, <2>1, MessageFields, PipelineAssumption DEF Frames
    <3>2. apply_diff(quotes[m.ticker], n, m.diff) \in [time_hhmmss : Nat, version : Nat, fields : [Fields -> Nat]]
      BY <1>3, <3>1 DEF EngineTypes, apply_diff
    <3> QED BY <1>3, <1>4, <2>1, <3>1, <3>2 DEF EngineTypes, quotes_after
  <2>2. CASE m.kind # "quote"
    BY <1>3, <1>4, <2>2 DEF EngineTypes, quotes_after
  <2> QED BY <2>1, <2>2
<1>6. books' \in [Tickers -> Seq(Frames)]
  BY <1>2, <1>3, <1>4 DEF EngineTypes, books_after
<1>7. trades' \in [Tickers -> Seq([n : Frames, trade_id : TradeIds])]
      /\ \A t \in Tickers : Len(trades'[t]) <= per_ticker_capacity
  <2> DEFINE S == [n : Frames, trade_id : TradeIds]
  <2>0. trades \in [Tickers -> Seq(S)] /\ \A t \in Tickers : Len(trades[t]) <= per_ticker_capacity
    BY <1>3 DEF EngineTypes
  <2>1. CASE m.kind = "add"
    <3>1. m.ticker \in Tickers /\ [n |-> n, trade_id |-> m.trade_id] \in S
      BY <1>2, <2>1, MessageFields
    <3> DEFINE after == push(trades[m.ticker], n, m.trade_id)
    <3>2. after \in Seq(S) /\ Len(after) <= per_ticker_capacity
      BY <2>0, <3>1, PushWindow
    <3>3. trades' = [trades EXCEPT ![m.ticker] = after]
      BY <1>4, <2>1 DEF trades_after
    <3> HIDE DEF after, S
    <3> QED BY <2>0, <3>1, <3>2, <3>3 DEF S
  <2>2. CASE m.kind = "delete"
    <3>1. m.ticker \in Tickers
      BY <1>2, <2>2, MessageFields
    <3> DEFINE after == remove(trades[m.ticker], m.trade_id)
    <3>2. trades[m.ticker] \in Seq(S) /\ Len(trades[m.ticker]) <= per_ticker_capacity
      BY <2>0, <3>1
    <3>4. after \in Seq(S) /\ (after = trades[m.ticker] \/ Len(after) = Len(trades[m.ticker]) - 1)
      <4> HIDE DEF S
      <4> QED BY <3>2, RemoveWindow
    <3>5. Len(after) <= per_ticker_capacity
      <4> HIDE DEF after
      <4> QED BY <3>2, <3>4, Capacity
    <3>3. trades' = [trades EXCEPT ![m.ticker] = after]
      BY <1>4, <2>2 DEF trades_after
    <3> HIDE DEF after, S
    <3> QED BY <2>0, <3>1, <3>3, <3>4, <3>5 DEF S
  <2>3. CASE m.kind = "clear"
    <3>1. trades' = [trades EXCEPT ![m.ticker] = << >>]
      BY <1>4, <2>3 DEF trades_after
    <3>2. << >> \in Seq(S) /\ Len(<< >>) <= per_ticker_capacity
      BY Capacity
    <3> HIDE DEF S
    <3> QED BY <2>0, <3>1, <3>2 DEF S
  <2>4. CASE m.kind \notin {"add", "delete", "clear"}
    BY <1>4, <2>0, <2>4 DEF trades_after
  <2> QED BY <2>1, <2>2, <2>3, <2>4
<1>8. catalog' \in [symbols : SUBSET Tickers, book_universe : SUBSET Tickers, brokers : [Brokers -> Nat]]
  <2>1. CASE m.kind = "symbol"
    BY <1>2, <1>3, <1>4, <2>1, MessageFields DEF EngineTypes, catalog_after
  <2>2. CASE m.kind = "broker"
    <3>1. catalog' = [catalog EXCEPT !.brokers[m.cedro_id] = n]
      BY <1>4, <2>2 DEF catalog_after
    <3>2. n \in Nat
      BY <1>2, PipelineAssumption DEF Frames
    <3> QED BY <1>3, <3>1, <3>2 DEF EngineTypes
  <2>3. CASE m.kind \notin {"symbol", "broker"}
    BY <1>3, <1>4, <2>3 DEF EngineTypes, catalog_after
  <2> QED BY <2>1, <2>2, <2>3
<1>9. archive' \in Seq(Frames) /\ Len(archive') <= ArchiveCap
  BY <1>2, <1>3, <1>4, PipelineAssumption DEF EngineTypes, try_push
<1>10. submitted' \subseteq Frames /\ persisted' \subseteq Frames /\ allowed' \subseteq Tickers
  BY <1>2, <1>3, <1>4 DEF EngineTypes
<1> QED BY <1>5, <1>6, <1>7, <1>8, <1>9, <1>10 DEF EngineTypes

LEMMA NextPipe == PipeInv /\ [PipeNext]_vars => PipeInv'
<1> SUFFICES ASSUME PipeInv, [PipeNext]_vars PROVE PipeInv'
  OBVIOUS
<1>1. WayInv'
  <2>1. WayInv
    BY DEF PipeInv
  <2> QED BY <2>1, SendWay, ReadWay, PushWay, TakeWay, DispatchWay, StillWay
          DEF PipeNext, Next, vars, socket, threads
<1>2. EngineTypes'
  <2>1. EngineTypes
    BY DEF PipeInv
  <2>2. CASE UNCHANGED engines
    BY <2>1, <2>2 DEF EngineTypes, engines
  <2>3. CASE \E w \in Workers : dispatch(w)
    BY <2>3, DispatchEngines
  <2>4. CASE archive_recv
    <3>1. archive # << >> /\ archive \in Seq(Frames) /\ archive' = Tail(archive) /\ Len(archive) <= ArchiveCap
      BY <2>1, <2>4 DEF EngineTypes, archive_recv
    <3>2. archive' \in Seq(Frames) /\ Len(archive') <= ArchiveCap
      BY <3>1, PipelineAssumption
    <3> QED BY <2>1, <2>4, <3>2 DEF EngineTypes, archive_recv
  <2>5. CASE set_allowed
    BY <2>1, <2>5 DEF EngineTypes, set_allowed
  <2> QED BY <2>2, <2>3, <2>4, <2>5
          DEF PipeNext, Next, vars, server_send, server_close, reader_check, reader_read, reader_eof,
              reader_interrupted, reader_send, request_stop, spawn_workers, worker_recv,
              worker_disconnected
<1> QED BY <1>1, <1>2 DEF PipeInv

\* The three stretches one behind the other.
LEMMA PendingInLine ==
    ASSUME PipeInv
    PROVE  /\ Len(Pending) = Len(channel) + Len(splitter) + Len(kernel)
           /\ Taken = Ahead
           /\ \A i \in DOMAIN Pending : Pending[i] = Taken + i
<1> DEFINE c == Len(channel)
           s == Len(splitter)
           k == Len(kernel)
<1>1. channel \in Seq(Frames) /\ splitter \in Seq(Frames) /\ kernel \in Seq(Frames)
  BY DEF PipeInv, WayInv, WayTypes
<1>2. c \in Nat /\ s \in Nat /\ k \in Nat /\ Len(sent) \in Nat /\ Ahead \in Nat
  BY <1>1 DEF PipeInv, WayInv, WayTypes
<1> DEFINE front == channel \o splitter
<1>3. front \in Seq(Frames) /\ Len(front) = c + s
  BY <1>1, ConcatProperties
<1>4. Pending \in Seq(Frames) /\ Len(Pending) = Len(front) + k
  BY <1>1, <1>3, ConcatProperties DEF Pending
<1>5. Taken = Ahead /\ DOMAIN Pending = 1 .. c + s + k
  BY <1>2, <1>3, <1>4 DEF Taken, Ahead
<1>6. InLine
  BY DEF PipeInv, WayInv
<1>7. ASSUME NEW i \in 1 .. c + s PROVE front[i] = Ahead + i
  <2>1. CASE i <= c
    <3>1. i \in 1 .. c
      BY <1>2, <2>1
    <3> QED BY <1>1, <1>6, <3>1 DEF InLine
  <2>2. CASE ~(i <= c)
    <3>1. i - c \in 1 .. s
      BY <1>2, <2>2
    <3>2. front[i] = splitter[i - c]
      BY <1>1, <1>2, <2>2, ConcatProperties
    <3>3. splitter[i - c] = Ahead + c + (i - c)
      BY <1>6, <3>1 DEF InLine
    <3> QED BY <1>2, <3>2, <3>3
  <2> QED BY <2>1, <2>2
<1>8. ASSUME NEW i \in 1 .. c + s + k PROVE Pending[i] = Ahead + i
  <2>1. CASE i <= c + s
    <3>1. i \in 1 .. c + s
      BY <1>2, <2>1
    <3>2. Pending[i] = front[i]
      <4> HIDE DEF front
      <4> QED BY <1>1, <1>2, <1>3, <3>1, ConcatProperties DEF Pending, front
    <3> QED BY <1>7, <3>1, <3>2
  <2>2. CASE ~(i <= c + s)
    <3>1. i - (c + s) \in 1 .. k
      BY <1>2, <2>2
    <3>2. Pending[i] = kernel[i - Len(front)]
      BY <1>1, <1>2, <1>3, <2>2, ConcatProperties DEF Pending
    <3>3. kernel[i - (c + s)] = Ahead + c + s + (i - (c + s))
      BY <1>6, <3>1 DEF InLine
    <3> QED BY <1>2, <1>3, <3>2, <3>3
  <2> QED BY <2>1, <2>2
<1> HIDE DEF front
<1> QED BY <1>3, <1>4, <1>5, <1>8

LEMMA PipeFifo == PipeInv => FifoDelivery
<1> SUFFICES ASSUME PipeInv PROVE FifoDelivery
  OBVIOUS
<1>1. HeldOnce
  BY DEF PipeInv, WayInv
<1>2. InHand \subseteq 1 .. Taken
  BY <1>1, PendingInLine DEF HeldOnce, InHand
<1> QED BY <1>1, <1>2, PendingInLine DEF FifoDelivery, HeldOnce

\* A step of the daemon is one of the pipeline, or leaves it alone.
LEMMA DaemonSteps ==
    ASSUME PipeInv, [DaemonNext]_daemonVars PROVE [PipeNext]_vars
<1>1. CASE UNCHANGED daemonVars
  BY <1>1 DEF daemonVars
<1>2. CASE boot_resolve
  <2>1. catalog.book_universe \subseteq Tickers
    BY DEF PipeInv, EngineTypes
  <2> QED BY <1>2, <2>1 DEF boot_resolve, set_allowed, PipeNext
<1>3. CASE \/ \E m \in Msgs : server_answer(m)
           \/ server_leaves \/ pipeline_step \/ start_pool \/ stop_reader
  BY <1>3 DEF server_answer, server_leaves, pipeline_step, start_pool, stop_reader,
              PipeNext, Next, ReaderStep, WorkerStep
<1>4. CASE \/ boot_query \/ boot_subscribe \/ watch_panic \/ notify_waiters \/ await_timer
           \/ flush_all \/ join_threads \/ exit \/ boot_fails \/ watchdog_check \/ watchdog_sample
           \/ timer_tick \/ timer_flushed \/ timer_return \/ sigint \/ sigterm
  <2>1. UNCHANGED vars
    BY <1>4 DEF boot_query, boot_subscribe, watch_panic, notify_waiters, await_timer, flush_all,
                join_threads, exit, boot_fails, watchdog_check, watchdog_sample, timer_tick,
                timer_flushed, timer_return, sigint, sigterm
  <2> QED BY <2>1
<1> QED BY <1>1, <1>2, <1>3, <1>4 DEF DaemonNext, MainStep

-----------------------------------------------------------------------------
\* The life of the process, next to the pipeline.
LifeTypes ==
    /\ main \in Booting \cup {"running"} \cup Stopping \cup Gone
    /\ watchdog \in {"top", "sample", "ended"}
    /\ panic_flag \in BOOLEAN
    /\ timer \in {"unborn", "waiting", "woken", "flushing", "ended"}
    /\ subscriptions \subseteq {"Quote", "BookDetailed", "Trades"} \X Tickers
    /\ offered \subseteq Tickers
    /\ terminated \in BOOLEAN

\* main joins the reader, then waits for the pool.
Wound ==
    /\ main \in {"drop", "exited"} => reader = "exited"
    /\ main = "exited" => \A w \in Workers : worker[w].pc = "done"

DaemonInv == PipeInv /\ LifeTypes /\ Wound

LEMMA InitDaemon == DaemonInit => DaemonInv
<1> SUFFICES ASSUME DaemonInit PROVE DaemonInv
  OBVIOUS
<1>1. PipeInv
  BY InitPipe DEF DaemonInit
<1>2. panic_flag \in BOOLEAN /\ terminated \in BOOLEAN
  BY DEF DaemonInit
<1>3. LifeTypes
  BY <1>2 DEF DaemonInit, LifeTypes, Booting
<1>4. Wound
  BY DEF DaemonInit, Wound
<1> QED BY <1>1, <1>3, <1>4 DEF DaemonInv

LEMMA NextDaemon == DaemonInv /\ [DaemonNext]_daemonVars => DaemonInv'
<1> SUFFICES ASSUME DaemonInv, [DaemonNext]_daemonVars PROVE DaemonInv'
  OBVIOUS
<1>1. PipeInv /\ LifeTypes /\ Wound
  BY DEF DaemonInv
<1>2. [PipeNext]_vars
  BY <1>1, DaemonSteps
<1>3. PipeInv'
  BY <1>1, <1>2, NextPipe
<1>4. CASE UNCHANGED daemonVars
  BY <1>1, <1>3, <1>4 DEF DaemonInv, LifeTypes, Wound, daemonVars, vars, threads, life
<1>5. CASE pipeline_step
  <2>1. UNCHANGED life /\ main # "exited"
    BY <1>5 DEF pipeline_step, Alive, Gone
  <2>2. reader = "exited" => reader' = "exited"
    BY <1>5 DEF pipeline_step, ReaderStep, WorkerStep, reader_check, reader_read, reader_eof,
                reader_interrupted, reader_send, worker_recv, worker_disconnected, dispatch,
                archive_recv, threads
  <2> QED BY <1>1, <1>3, <2>1, <2>2 DEF DaemonInv, LifeTypes, Wound, life
<1>6. CASE (\E m \in Msgs : server_answer(m)) \/ server_leaves
  <2>1. UNCHANGED << life, threads >>
    BY <1>6 DEF server_answer, server_leaves, server_send, server_close
  <2> QED BY <1>1, <1>3, <2>1 DEF DaemonInv, LifeTypes, Wound, life, threads
<1>7. CASE boot_resolve
  <2>1. offered' \subseteq Tickers
    <3>1. channel \in Seq(Frames) /\ sent \in Seq(Msgs) /\ InLine /\ Ahead \in Nat
          /\ Len(splitter) \in Nat /\ Len(kernel) \in Nat
      BY <1>1 DEF PipeInv, WayInv, WayTypes
    <3>2. \A c \in ToSet(channel) : c \in 1 .. Len(sent)
      BY <3>1 DEF ToSet, InLine, Ahead
    <3>3. \A c \in ToSet(channel) : sent[c] \in Msgs
      BY <3>1, <3>2
    <3> QED BY <1>7, <3>3, MessageFields DEF boot_resolve
  <2> QED BY <1>1, <1>3, <1>7, <2>1
          DEF boot_resolve, threads, DaemonInv, LifeTypes, Wound, Booting, Stopping, Gone
<1>8. CASE boot_subscribe
  <2>1. subscriptions' \subseteq {"Quote", "BookDetailed", "Trades"} \X Tickers
    <3>1. catalog.symbols \subseteq Tickers /\ catalog.book_universe \subseteq Tickers
      BY <1>1 DEF PipeInv, EngineTypes
    <3> QED BY <1>8, <3>1 DEF boot_subscribe
  <2> QED BY <1>1, <1>3, <1>8, <2>1
          DEF boot_subscribe, vars, threads, DaemonInv, LifeTypes, Wound, Booting, Stopping, Gone
<1>9. CASE \/ boot_query \/ start_pool \/ boot_fails \/ watch_panic \/ sigint \/ notify_waiters
           \/ await_timer \/ flush_all \/ stop_reader
  <2>1. /\ main' \in (Booting \cup {"running"} \cup Stopping \cup Gone) \ {"drop", "exited"}
        /\ timer' \in {timer, "waiting", "woken"}
        /\ UNCHANGED << watchdog, panic_flag, subscriptions, offered, terminated >>
    BY <1>9 DEF boot_query, start_pool, boot_fails, watch_panic, sigint, notify_waiters, await_timer,
                flush_all, stop_reader, Booting, Stopping, Gone
  <2> QED BY <1>1, <1>3, <2>1 DEF DaemonInv, LifeTypes, Wound
<1>10. CASE join_threads \/ exit
  <2>1. UNCHANGED << vars, watchdog, panic_flag, timer, subscriptions, offered, terminated >>
        /\ main' \in {"drop", "exited"} /\ reader = "exited"
        /\ (main' = "exited" => \A w \in Workers : worker[w].pc = "done")
    BY <1>1, <1>10 DEF join_threads, exit, Wound
  <2> QED BY <1>1, <1>3, <2>1 DEF vars, threads, DaemonInv, LifeTypes, Wound, Stopping, Gone
<1>11. CASE watchdog_check \/ watchdog_sample
  <2>1. watchdog' \in {"top", "sample", "ended"}
        /\ UNCHANGED << vars, main, timer, subscriptions, offered, terminated >>
    BY <1>11 DEF watchdog_check, watchdog_sample
  <2>2. panic_flag' \in BOOLEAN
    BY <1>1, <1>11 DEF watchdog_check, watchdog_sample, LifeTypes
  <2> QED BY <1>1, <1>3, <2>1, <2>2 DEF vars, threads, DaemonInv, LifeTypes, Wound
<1>12. CASE timer_tick \/ timer_flushed \/ timer_return
  BY <1>1, <1>3, <1>12 DEF timer_tick, timer_flushed, timer_return, vars, threads,
                           DaemonInv, LifeTypes, Wound
<1>13. CASE sigterm
  <2>1. terminated' \in BOOLEAN
    BY <1>13 DEF sigterm
  <2> QED BY <1>1, <1>3, <1>13, <2>1 DEF sigterm, DaemonInv, LifeTypes, Wound, Gone
<1> QED BY <1>4, <1>5, <1>6, <1>7, <1>8, <1>9, <1>10, <1>11, <1>12, <1>13 DEF DaemonNext, MainStep

(***************************************************************************)
(* The daemon's variables keep their types: the channels stay within their *)
(* capacities and a ticker's window within per_ticker_capacity.            *)
(***************************************************************************)
THEOREM TypeCorrect == DaemonSpec => []DaemonTypeOK
<1>1. DaemonInv => DaemonTypeOK
  BY PipeTypes DEF DaemonInv, LifeTypes, DaemonTypeOK
<1> QED BY <1>1, InitDaemon, NextDaemon, PTL DEF DaemonSpec

(***************************************************************************)
(* Between the socket and the pool nothing is lost, repeated or reordered, *)
(* for any number of workers and frames and any capacity (reader_loop and  *)
(* the crossbeam channel behind it).                                       *)
(***************************************************************************)
THEOREM FramesInOrder == DaemonSpec => []FifoDelivery
<1>1. DaemonInv => FifoDelivery
  BY PipeFifo DEF DaemonInv
<1> QED BY <1>1, InitDaemon, NextDaemon, PTL DEF DaemonSpec

(***************************************************************************)
(* A daemon with a worker that comes to the end of main has dispatched     *)
(* every frame the reader took from the socket.                            *)
(***************************************************************************)
THEOREM ExitIsDrained == Workers # {} => (DaemonSpec => []ExitDrained)
<1> SUFFICES ASSUME Workers # {} PROVE DaemonSpec => []ExitDrained
  OBVIOUS
<1>1. ASSUME DaemonInv, main = "exited"
      PROVE  Dispatched = 1 .. Len(sent) - Len(kernel)
  <2>1. PipeInv /\ reader = "exited" /\ \A w \in Workers : worker[w].pc = "done"
    BY <1>1 DEF DaemonInv, Wound
  <2>2. channel = << >> /\ splitter = << >>
    BY <1>1, <2>1 DEF PipeInv, WayInv, LeftEmpty, SplitterUse
  <2>3. InHand = {}
    BY <2>1 DEF InHand
  <2>4. Taken = Len(sent) - Len(kernel)
    BY <2>1, <2>2, PendingInLine DEF Ahead, PipeInv, WayInv, WayTypes
  <2> QED BY <2>3, <2>4 DEF Dispatched
<1>2. DaemonInv => ExitDrained
  BY <1>1 DEF ExitDrained
<1> QED BY <1>2, InitDaemon, NextDaemon, PTL DEF DaemonSpec

-----------------------------------------------------------------------------
(***************************************************************************)
(* One worker.  It holds the newest frame the pool has taken, so that what *)
(* is dispatched is a beginning of the feed, and grows by its next frame.  *)
(***************************************************************************)
OneWorker == \A v, w \in Workers : v = w

HoldsNewest == \A w \in Workers : worker[w].pc = "dispatch" => worker[w].frame = Ahead

\* No two trades of the feed are the same.
TradesOnce == \A i, j \in DOMAIN sent : i # j /\ sent[i].kind = "add" => sent[i] # sent[j]

BookFollows ==
    /\ BookOpsInOrder
    /\ \A t \in Tickers : \A i \in DOMAIN books[t] : books[t][i] \in Dispatched

\* MostRecentWins without Max.
QuoteFollows ==
    \A t \in Tickers, f \in Fields :
        LET q == quotes[t].fields[f] IN
        /\ q = 0 \/ (q \in Done("quote", t) /\ f \in sent[q].diff)
        /\ \A n \in Done("quote", t) : f \in sent[n].diff => n <= q

\* A window's entry knows the id of its trade.
WindowIds == \A t \in Tickers : \A i \in DOMAIN trades[t] :
                 trades[t][i].trade_id = sent[trades[t][i].n].trade_id

FeedInv == HoldsNewest /\ TradesOnce /\ BookFollows /\ QuoteFollows /\ WindowIds /\ WindowFollowsFeed

LEMMA InitFeed == Init => FeedInv
<1> SUFFICES ASSUME Init PROVE FeedInv
  OBVIOUS
<1>0. PipeInv
  BY InitPipe
<1>1. Dispatched = {}
  <2>0. sent = << >> /\ channel = << >> /\ splitter = << >> /\ kernel = << >>
    BY DEF Init
  <2>1. Len(sent) = 0 /\ Len(channel) = 0 /\ Len(splitter) = 0 /\ Len(kernel) = 0
    BY <2>0
  <2>2. Ahead = 0
    BY <2>1 DEF Ahead
  <2> QED BY <1>0, <2>2, PendingInLine DEF Dispatched
<1>2. \A k, t : Done(k, t) = {}
  BY <1>1 DEF Done
<1>3. HoldsNewest /\ TradesOnce
  BY DEF Init, HoldsNewest, TradesOnce, At
<1>4. BookFollows
  BY DEF Init, BookFollows, BookOpsInOrder
<1>5. QuoteFollows
  BY <1>2 DEF Init, QuoteFollows, NoQuote
<1>6. WindowIds
  BY DEF Init, WindowIds
<1>7. WindowFollowsFeed
  <2>1. \A t \in Tickers : trades[t] = << >> /\ Live(t) = {}
    BY <1>2 DEF Init, Live
  <2> QED BY <2>1 DEF WindowFollowsFeed
<1> QED BY <1>3, <1>4, <1>5, <1>6, <1>7 DEF FeedInv

\* In the next state, too.
LEMMA TakenAhead == PipeInv => Taken = Ahead
BY PendingInLine

LEMMA TakenAheadNext == PipeInv' => (Taken = Ahead)'
BY TakenAhead, PTL

\* Every step but a dispatch leaves what is dispatched, and the feed up to there.
LEMMA QuietStep ==
    ASSUME OneWorker, PipeInv, HoldsNewest, [PipeNext]_vars, ~\E w \in Workers : dispatch(w)
    PROVE  /\ HoldsNewest'
           /\ Dispatched' = Dispatched
           /\ Dispatched \subseteq DOMAIN sent
           /\ \A n \in DOMAIN sent : n \in DOMAIN sent' /\ sent'[n] = sent[n]
           /\ UNCHANGED << quotes, books, trades >>
<1>1. PipeInv' /\ WayInv /\ WayInv'
  BY NextPipe DEF PipeInv
<1>2. Taken = Ahead /\ Taken' = Ahead' /\ Ahead \in Nat /\ Ahead <= Len(sent) /\ Len(sent) \in Nat
  BY <1>1, TakenAhead, TakenAheadNext DEF WayInv, WayTypes, Ahead
<1>3. UNCHANGED << quotes, books, trades >>
  BY DEF PipeNext, Next, vars, engines, set_allowed, server_send, server_close, reader_check,
         reader_read, reader_eof, reader_interrupted, reader_send, request_stop, spawn_workers,
         worker_recv, worker_disconnected, archive_recv
<1>4. Dispatched \subseteq DOMAIN sent
  BY <1>1, <1>2 DEF Dispatched, WayInv, WayTypes
<1>5. CASE \E m \in Msgs : server_send(m)
  <2>1. PICK m \in Msgs : sent' = Append(sent, m) /\ kernel' = Append(kernel, Len(sent'))
                          /\ UNCHANGED << splitter, channel, worker >>
    BY <1>5 DEF server_send, threads
  <2>2. /\ Len(sent') = Len(sent) + 1 /\ Len(kernel') = Len(kernel) + 1
        /\ \A n \in DOMAIN sent : n \in DOMAIN sent' /\ sent'[n] = sent[n]
    BY <1>1, <2>1 DEF WayInv, WayTypes
  <2>3. Ahead' = Ahead
    BY <1>1, <2>1, <2>2 DEF Ahead, WayInv, WayTypes
  <2>4. InHand' = InHand
    BY <2>1 DEF InHand
  <2>5. Dispatched' = Dispatched
    BY <1>2, <2>3, <2>4 DEF Dispatched
  <2> QED BY <1>3, <1>4, <2>1, <2>2, <2>3, <2>5 DEF HoldsNewest
<1>6. CASE \E w \in Workers : worker_recv(w)
  <2>1. PICK w \in Workers : worker_recv(w)
    BY <1>6
  <2>2. Workers = {w} /\ worker[w].pc = "recv" /\ channel # << >> /\ UNCHANGED << sent, kernel, splitter >>
        /\ worker' = [worker EXCEPT ![w] = [pc |-> "dispatch", frame |-> Head(channel)]]
        /\ channel' = Tail(channel)
    BY <2>1 DEF OneWorker, worker_recv, socket
  <2>3. Ahead' = Ahead + 1 /\ Head(channel) = Ahead + 1
    BY <1>1, <2>2 DEF Ahead, WayInv, WayTypes, InLine
  <2>4. worker'[w] = [pc |-> "dispatch", frame |-> Ahead + 1]
    BY <1>1, <2>2, <2>3 DEF WayInv, WayTypes
  <2>5. InHand = {} /\ InHand' = {Ahead + 1}
    BY <2>2, <2>4 DEF InHand
  <2>6. Dispatched' = Dispatched
    BY <1>2, <2>3, <2>5 DEF Dispatched
  <2> QED BY <1>3, <1>4, <2>2, <2>3, <2>4, <2>6 DEF HoldsNewest
<1>7. CASE ~(\E m \in Msgs : server_send(m)) /\ ~(\E w \in Workers : worker_recv(w))
  <2>1. sent' = sent
    BY <1>7 DEF PipeNext, Next, vars, socket, set_allowed, server_close, reader_check,
         reader_read, reader_eof, reader_interrupted, reader_send, request_stop, spawn_workers,
         worker_disconnected, archive_recv
  <2>2. Ahead' = Ahead
    <3>1. CASE reader_read
      <4>1. PICK n \in 1 .. Len(kernel) :
               /\ splitter' = splitter \o SubSeq(kernel, 1, n)
               /\ kernel' = SubSeq(kernel, n + 1, Len(kernel))
        BY <3>1 DEF reader_read
      <4>2. kernel \in Seq(Frames) /\ splitter \in Seq(Frames) /\ Len(channel) \in Nat
        BY <1>1 DEF WayInv, WayTypes
      <4>3. Len(splitter') = Len(splitter) + n /\ Len(kernel') = Len(kernel) - n
        BY <4>1, <4>2
      <4>4. channel' = channel
        BY <3>1 DEF reader_read
      <4> QED BY <2>1, <4>2, <4>3, <4>4 DEF Ahead
    <3>2. CASE reader_send
      <4>1. splitter # << >> /\ splitter \in Seq(Frames) /\ channel \in Seq(Frames) /\ Len(kernel) \in Nat
        BY <1>1, <3>2 DEF reader_send, WayInv, WayTypes, SplitterUse
      <4>2. Len(splitter') = Len(splitter) - 1 /\ Len(channel') = Len(channel) + 1 /\ kernel' = kernel
        BY <3>2, <4>1 DEF reader_send, socket
      <4> QED BY <2>1, <4>1, <4>2 DEF Ahead
    <3>3. CASE ~(reader_read \/ reader_send)
      <4>1. UNCHANGED << kernel, splitter, channel >>
        BY <1>7, <3>3 DEF PipeNext, Next, vars, socket, threads, set_allowed, server_close,
             reader_check, reader_eof, reader_interrupted, request_stop, spawn_workers,
             worker_disconnected, archive_recv
      <4> QED BY <2>1, <4>1 DEF Ahead
    <3> QED BY <3>1, <3>2, <3>3
  <2>3. \A w \in Workers : \/ worker'[w] = worker[w]
                           \/ worker[w].pc # "dispatch" /\ worker'[w].pc # "dispatch"
    <3>1. CASE spawn_workers
      BY <3>1 DEF spawn_workers, At
    <3>2. CASE \E w \in Workers : worker_disconnected(w)
      BY <1>1, <3>2 DEF worker_disconnected, At, WayInv, WayTypes
    <3>3. CASE worker' = worker
      BY <3>3
    <3> QED BY <1>7, <3>1, <3>2, <3>3 DEF PipeNext, Next, vars, threads, set_allowed, server_close,
             reader_check, reader_read, reader_eof, reader_interrupted, reader_send, request_stop,
             archive_recv
  <2>4. InHand' = InHand
    BY <2>3 DEF InHand
  <2>5. Dispatched' = Dispatched
    BY <1>2, <2>2, <2>4 DEF Dispatched
  <2>6. HoldsNewest'
    BY <2>2, <2>3 DEF HoldsNewest
  <2> QED BY <1>3, <1>4, <2>1, <2>5, <2>6
<1> QED BY <1>5, <1>6, <1>7

LEMMA QuietFeed ==
    ASSUME OneWorker, PipeInv, FeedInv, [PipeNext]_vars, ~\E w \in Workers : dispatch(w)
    PROVE  FeedInv'
<1>1. /\ HoldsNewest' /\ Dispatched' = Dispatched /\ Dispatched \subseteq DOMAIN sent
      /\ \A n \in DOMAIN sent : n \in DOMAIN sent' /\ sent'[n] = sent[n]
      /\ UNCHANGED << quotes, books, trades >>
  BY QuietStep DEF FeedInv
<1>2. \A n \in Dispatched : sent'[n] = sent[n]
  BY <1>1
<1>3. \A k, t : Done(k, t)' = Done(k, t)
  BY <1>1, <1>2 DEF Done
<1>4. \A k, t : \A n \in Done(k, t) : sent'[n] = sent[n]
  BY <1>2 DEF Done
<1>5. TradesOnce'
  <2>1. TradesOnce /\ sent \in Seq(Msgs)
    BY DEF FeedInv, PipeInv, WayInv, WayTypes
  <2>2. CASE sent' = sent
    BY <2>1, <2>2 DEF TradesOnce
  <2>3. CASE \E m \in Msgs : server_send(m)
    <3>1. PICK m \in Msgs : (m.kind = "add" => m \notin ToSet(sent)) /\ sent' = Append(sent, m)
      BY <2>3 DEF server_send
    <3>2. DOMAIN sent' = DOMAIN sent \cup {Len(sent) + 1} /\ sent'[Len(sent) + 1] = m
          /\ \A i \in DOMAIN sent : sent'[i] = sent[i]
      BY <2>1, <3>1
    <3> QED BY <2>1, <3>1, <3>2 DEF TradesOnce, ToSet
  <2> QED BY <2>2, <2>3 DEF PipeNext, Next, vars, socket, set_allowed, server_close, reader_check,
         reader_read, reader_eof, reader_interrupted, reader_send, request_stop, spawn_workers,
         worker_recv, worker_disconnected, archive_recv
<1>6. BookFollows'
  BY <1>1 DEF FeedInv, BookFollows, BookOpsInOrder
<1>7. QuoteFollows'
  BY <1>1, <1>3, <1>4 DEF FeedInv, QuoteFollows
<1>8. \A t : Live(t)' = Live(t)
  BY <1>3, <1>4 DEF Live
<1>9. WindowIds'
  <2> SUFFICES ASSUME NEW t \in Tickers, NEW i \in DOMAIN trades[t]
               PROVE  trades[t][i].trade_id = sent'[trades[t][i].n].trade_id
    BY <1>1 DEF WindowIds
  <2>1. trades[t][i].n \in Dispatched
    BY DEF FeedInv, WindowFollowsFeed, Live, Done
  <2> QED BY <1>2, <2>1 DEF FeedInv, WindowIds
<1>10. WindowFollowsFeed'
  BY <1>1, <1>3, <1>8 DEF FeedInv, WindowFollowsFeed
<1> QED BY <1>1, <1>5, <1>6, <1>7, <1>9, <1>10 DEF FeedInv

\* A dispatch takes the next frame of the feed.
LEMMA DispatchStep ==
    ASSUME OneWorker, PipeInv, HoldsNewest, NEW w \in Workers, dispatch(w)
    PROVE  LET n == worker[w].frame IN
           /\ HoldsNewest' /\ sent' = sent
           /\ n \in Frames /\ n \in DOMAIN sent /\ sent[n] \in Msgs
           /\ Dispatched \subseteq DOMAIN sent /\ \A d \in Dispatched : d \in Nat /\ d < n
           /\ Dispatched' = Dispatched \cup {n}
<1> DEFINE n == worker[w].frame
<1>1. PipeInv' /\ WayInv
  BY NextPipe DEF PipeInv, PipeNext, Next
<1>2. Taken = Ahead /\ Taken' = Ahead' /\ Ahead \in Nat /\ Ahead <= Len(sent) /\ Len(sent) \in Nat
  BY <1>1, TakenAhead, TakenAheadNext DEF WayInv, WayTypes, Ahead
<1>3. /\ worker[w].pc = "dispatch" /\ worker' = [worker EXCEPT ![w] = At("recv")]
      /\ UNCHANGED << sent, kernel, splitter, channel >>
  BY DEF dispatch, socket
<1>4. Workers = {w}
  BY DEF OneWorker
<1>5. n = Ahead /\ n \in 1 .. Ahead
  BY <1>1, <1>3 DEF HoldsNewest, WayInv, HeldOnce
<1>6. Ahead' = Ahead
  BY <1>3 DEF Ahead
<1>7. worker'[w].pc = "recv"
  BY <1>1, <1>3 DEF At, WayInv, WayTypes
<1>8. InHand = {n} /\ InHand' = {}
  BY <1>3, <1>4, <1>7 DEF InHand
<1>9. n \in Frames /\ n \in DOMAIN sent /\ sent[n] \in Msgs
  BY <1>1, <1>2, <1>5, PipelineAssumption DEF WayInv, WayTypes, Frames
<1>10. Dispatched = 1 .. Ahead - 1 /\ Dispatched' = 1 .. Ahead
  BY <1>2, <1>5, <1>6, <1>8 DEF Dispatched
<1>11. HoldsNewest'
  BY <1>4, <1>7 DEF HoldsNewest
<1>12. Dispatched \subseteq DOMAIN sent /\ \A d \in Dispatched : d \in Nat /\ d < n
  BY <1>1, <1>2, <1>5, <1>10 DEF WayInv, WayTypes
<1>13. Dispatched' = Dispatched \cup {n}
  BY <1>2, <1>5, <1>10
<1> QED BY <1>3, <1>9, <1>11, <1>12, <1>13

\* What is done after a dispatch.
LEMMA DoneAfter ==
    ASSUME sent' = sent, NEW n, Dispatched' = Dispatched \cup {n}, NEW k, NEW t
    PROVE  Done(k, t)' = IF sent[n].kind = k /\ sent[n].ticker = t
                         THEN Done(k, t) \cup {n} ELSE Done(k, t)
BY DEF Done

LEMMA DispatchBook ==
    ASSUME OneWorker, PipeInv, FeedInv, NEW w \in Workers, dispatch(w) PROVE BookFollows'
<1> DEFINE n == worker[w].frame
           m == sent[n]
<1>1. /\ n \in Frames /\ m \in Msgs /\ Dispatched' = Dispatched \cup {n}
      /\ \A d \in Dispatched : d \in Nat /\ d < n
  BY DispatchStep DEF FeedInv
<1>2. books' = books_after(m, n)
  BY DEF dispatch
<1>3. books \in [Tickers -> Seq(Frames)] /\ BookFollows
  BY DEF PipeInv, EngineTypes, FeedInv
<1> HIDE DEF n, m
<1>4. CASE books' = books
  BY <1>1, <1>3, <1>4 DEF BookFollows, BookOpsInOrder
<1>5. CASE m.kind = "book" /\ books' = [books EXCEPT ![m.ticker] = Append(@, n)]
  <2> SUFFICES ASSUME NEW t \in Tickers
               PROVE  /\ \A i, j \in DOMAIN books'[t] : i < j => books'[t][i] < books'[t][j]
                      /\ \A i \in DOMAIN books'[t] : books'[t][i] \in Dispatched'
    BY DEF BookFollows, BookOpsInOrder
  <2>1. CASE t = m.ticker
    <3> DEFINE b == books[t]
    <3>1. b \in Seq(Frames) /\ books'[t] = Append(b, n)
      BY <1>3, <1>5, <2>1
    <3>2. /\ DOMAIN books'[t] = 1 .. Len(b) + 1 /\ books'[t][Len(b) + 1] = n /\ Len(b) \in Nat
          /\ \A i \in 1 .. Len(b) : books'[t][i] = b[i]
          /\ DOMAIN b = 1 .. Len(b)
      BY <1>1, <3>1
    <3>3. /\ \A i, j \in DOMAIN b : i < j => b[i] < b[j]
          /\ \A i \in DOMAIN b : b[i] \in Dispatched
      BY <1>3 DEF BookFollows, BookOpsInOrder
    <3> HIDE DEF b
    <3> QED BY <1>1, <3>2, <3>3
  <2>2. CASE t # m.ticker
    <3>1. books'[t] = books[t]
      BY <1>3, <1>5, <2>2
    <3> QED BY <1>1, <1>3, <3>1 DEF BookFollows, BookOpsInOrder
  <2> QED BY <2>1, <2>2
<1> QED BY <1>2, <1>4, <1>5 DEF books_after

LEMMA DispatchQuote ==
    ASSUME OneWorker, PipeInv, FeedInv, NEW w \in Workers, dispatch(w) PROVE QuoteFollows'
<1> DEFINE n == worker[w].frame
           m == sent[n]
<1>1. /\ n \in Frames /\ m \in Msgs /\ Dispatched' = Dispatched \cup {n} /\ sent' = sent
      /\ \A d \in Dispatched : d \in Nat /\ d < n
  BY DispatchStep DEF FeedInv
<1>2. quotes' = quotes_after(m, n)
  BY DEF dispatch
<1>3. quotes \in [Tickers -> [time_hhmmss : Nat, version : Nat, fields : [Fields -> Nat]]] /\ QuoteFollows
  BY DEF PipeInv, EngineTypes, FeedInv
<1>4. n \in Nat
  BY <1>1, PipelineAssumption DEF Frames
<1> SUFFICES ASSUME NEW t \in Tickers, NEW f \in Fields
             PROVE  LET q == quotes'[t].fields[f] IN
                    /\ q = 0 \/ (q \in Done("quote", t)' /\ f \in sent'[q].diff)
                    /\ \A d \in Done("quote", t)' : f \in sent'[d].diff => d <= q
  BY DEF QuoteFollows
<1>5. Done("quote", t)' = IF m.kind = "quote" /\ m.ticker = t THEN Done("quote", t) \cup {n} ELSE Done("quote", t)
  BY <1>1, DoneAfter
<1>6. \A d \in Done("quote", t) : d \in Nat /\ d < n
  BY <1>1 DEF Done
<1>7. LET q == quotes[t].fields[f] IN
      /\ q = 0 \/ (q \in Done("quote", t) /\ f \in sent[q].diff)
      /\ \A d \in Done("quote", t) : f \in sent[d].diff => d <= q
  BY <1>3 DEF QuoteFollows
<1>8. m = sent[n]
  OBVIOUS
<1> HIDE DEF n, m
<1>9. CASE m.kind = "quote" /\ m.ticker = t
  <2>1. quotes'[t] = apply_diff(quotes[t], n, m.diff)
    BY <1>2, <1>3, <1>9 DEF quotes_after
  <2>2. quotes'[t].fields[f] = IF f \in m.diff THEN n ELSE quotes[t].fields[f]
    BY <2>1 DEF apply_diff
  <2> QED BY <1>1, <1>4, <1>5, <1>6, <1>7, <1>8, <1>9, <2>2
<1>10. CASE ~(m.kind = "quote" /\ m.ticker = t)
  <2>1. quotes'[t] = quotes[t]
    BY <1>2, <1>3, <1>10 DEF quotes_after
  <2> QED BY <1>1, <1>5, <1>7, <1>10, <2>1
<1> QED BY <1>9, <1>10

\* The frames of a window, and what WindowFollowsFeed says of one ticker.
Shown(window) == {window[i].n : i \in DOMAIN window}

Follows(window, live, adds) ==
    /\ \A i, j \in DOMAIN window : i < j => window[i].n < window[j].n
    /\ Shown(window) \subseteq live
    /\ \A n \in live \ Shown(window) :
          /\ \A s \in Shown(window) : n < s
          /\ Cardinality({a \in adds : n < a}) >= per_ticker_capacity

LEMMA WindowIsFollows ==
    WindowFollowsFeed <=> \A t \in Tickers : Follows(trades[t], Live(t), Done("add", t))
BY DEF WindowFollowsFeed, Follows, Shown

\* A window whose trades are all newer than n, and which is full, is evidence
\* that a window's worth of trades was added after n.
LEMMA FullWindow ==
    ASSUME NEW n \in Nat, NEW f \in [1 .. per_ticker_capacity -> Nat],
           NEW adds \in SUBSET Nat, IsFiniteSet(adds),
           \A i \in 1 .. per_ticker_capacity : f[i] \in adds /\ n < f[i],
           \A i, j \in 1 .. per_ticker_capacity : i < j => f[i] < f[j]
    PROVE  Cardinality({a \in adds : n < a}) >= per_ticker_capacity
<1> DEFINE c == per_ticker_capacity
           A == {a \in adds : n < a}
<1>1. c \in Nat \ {0}
  BY Capacity
<1>2. IsFiniteSet(A)
  BY FS_Subset
<1>3. f \in Injection(1 .. c, A)
  <2>1. f \in [1 .. c -> A]
    OBVIOUS
  <2>2. \A i, j \in 1 .. c : f[i] = f[j] => i = j
    BY <1>1
  <2> QED BY <2>1, <2>2 DEF Injection, IsInjective
<1>4. Cardinality(1 .. c) <= Cardinality(A)
  BY <1>2, <1>3, FS_Injection
<1>5. Cardinality(1 .. c) = c
  BY <1>1, FS_Interval
<1>6. Cardinality(A) \in Nat
  BY <1>2, FS_CardinalityType
<1> QED BY <1>1, <1>4, <1>5, <1>6

\* More trades after n are not fewer.
LEMMA MoreAdds ==
    ASSUME NEW n \in Nat, NEW adds \in SUBSET Nat, IsFiniteSet(adds), NEW before \in SUBSET adds,
           Cardinality({a \in before : n < a}) >= per_ticker_capacity
    PROVE  Cardinality({a \in adds : n < a}) >= per_ticker_capacity
<1> DEFINE A == {a \in adds : n < a}
           B == {a \in before : n < a}
<1>1. IsFiniteSet(A) /\ B \in SUBSET A
  BY FS_Subset
<1>2. Cardinality(B) <= Cardinality(A) /\ IsFiniteSet(B)
  BY <1>1, FS_Subset
<1>3. Cardinality(A) \in Nat /\ Cardinality(B) \in Nat
  BY <1>1, <1>2, FS_CardinalityType
<1> QED BY <1>2, <1>3, Capacity

\* TradeBuffer::push of a trade newer than all.
LEMMA PushFollows ==
    ASSUME NEW window \in Seq([n : Frames, trade_id : TradeIds]), Len(window) <= per_ticker_capacity,
           NEW live, NEW adds \in SUBSET Nat, IsFiniteSet(adds), live \subseteq adds,
           Follows(window, live, adds),
           NEW n \in Frames, NEW id \in TradeIds, \A a \in adds : a < n
    PROVE  Follows(push(window, n, id), live \cup {n}, adds \cup {n})
<1> DEFINE after == push(window, n, id)
           d == IF Len(window) = per_ticker_capacity THEN 1 ELSE 0
           k == Len(window)
           adds2 == adds \cup {n}
           S == [n : Frames, trade_id : TradeIds]
<1>1. [n |-> n, trade_id |-> id] \in S /\ window \in Seq(S)
  OBVIOUS
<1>2. /\ after \in Seq(S) /\ Len(after) = k - d + 1
      /\ \A i \in 1 .. k - d : after[i] = window[i + d]
      /\ after[Len(after)] = [n |-> n, trade_id |-> id]
  <2> HIDE DEF S
  <2> QED BY <1>1, PushWindow
<1>3. k \in Nat /\ d \in {0, 1} /\ k - d \in Nat /\ n \in Nat
  BY Capacity, PipelineAssumption DEF Frames
<1>4. DOMAIN window = 1 .. k /\ DOMAIN after = 1 .. k - d + 1
  BY <1>2
<1>5. /\ \A i \in 1 .. k - d : after[i].n = window[i + d].n
      /\ after[k - d + 1].n = n
  BY <1>2
<1>6. /\ \A i, j \in 1 .. k : i < j => window[i].n < window[j].n
      /\ \A i \in 1 .. k : window[i].n \in live /\ window[i].n \in adds
  BY <1>4 DEF Follows, Shown
<1> HIDE DEF after, d, k
<1>7. \A i, j \in DOMAIN after : i < j => after[i].n < after[j].n
  <2> SUFFICES ASSUME NEW i \in 1 .. k - d + 1, NEW j \in 1 .. k - d + 1, i < j
               PROVE  after[i].n < after[j].n
    BY <1>4
  <2>1. i \in 1 .. k - d /\ i + d \in 1 .. k
    BY <1>3
  <2>2. CASE j = k - d + 1
    BY <1>5, <1>6, <2>1, <2>2
  <2>3. CASE j # k - d + 1
    <3>1. j \in 1 .. k - d /\ j + d \in 1 .. k /\ i + d < j + d
      BY <1>3, <2>3
    <3> QED BY <1>5, <1>6, <2>1, <3>1
  <2> QED BY <2>2, <2>3
<1>8. Shown(after) = {window[i].n : i \in 1 + d .. k} \cup {n}
  <2>1. ASSUME NEW i \in 1 .. k - d + 1 PROVE after[i].n \in {window[j].n : j \in 1 + d .. k} \cup {n}
    <3>1. CASE i = k - d + 1
      BY <1>5, <3>1
    <3>2. CASE i # k - d + 1
      <4>1. i \in 1 .. k - d /\ i + d \in 1 + d .. k
        BY <1>3, <3>2
      <4> QED BY <1>5, <4>1
    <3> QED BY <3>1, <3>2
  <2>2. ASSUME NEW j \in 1 + d .. k PROVE \E i \in 1 .. k - d + 1 : after[i].n = window[j].n
    <3>1. j - d \in 1 .. k - d /\ (j - d) + d = j /\ j - d \in 1 .. k - d + 1
      BY <1>3
    <3> QED BY <1>5, <3>1
  <2>3. n = after[k - d + 1].n /\ k - d + 1 \in 1 .. k - d + 1
    BY <1>3, <1>5
  <2> QED BY SMTT(30), <1>4, <2>1, <2>2, <2>3 DEF Shown
<1>9. Shown(after) \subseteq live \cup {n}
  BY <1>3, <1>6, <1>8
<1>10. IsFiniteSet(adds2) /\ adds2 \in SUBSET Nat /\ adds \in SUBSET adds2
  BY <1>3, FS_AddElement
<1>11. ASSUME NEW x \in (live \cup {n}) \ Shown(after)
       PROVE  /\ \A s \in Shown(after) : x < s
              /\ Cardinality({a \in adds2 : x < a}) >= per_ticker_capacity
  <2>1. x \in live /\ x \in Nat /\ x < n
    BY <1>8, <1>11
  <2>2. CASE x \notin Shown(window)
    <3>1. /\ \A s \in Shown(window) : x < s
          /\ Cardinality({a \in adds : x < a}) >= per_ticker_capacity
      BY <2>1, <2>2 DEF Follows
    <3>2. ASSUME NEW s \in Shown(after) PROVE x < s
      <4>1. s = n \/ \E i \in 1 + d .. k : s = window[i].n
        BY <1>8
      <4>2. \A i \in 1 + d .. k : i \in 1 .. k
        BY <1>3
      <4>3. \A i \in 1 .. k : window[i].n \in Shown(window)
        BY <1>4 DEF Shown
      <4> QED BY <2>1, <3>1, <4>1, <4>2, <4>3
    <3>3. Cardinality({a \in adds2 : x < a}) >= per_ticker_capacity
      BY <1>10, <2>1, <3>1, MoreAdds
    <3> QED BY <3>2, <3>3
  <2>3. CASE x \in Shown(window)
    <3>1. PICK i \in 1 .. k : window[i].n = x
      BY <1>4, <2>3 DEF Shown
    <3>2. d = 1 /\ i = 1
      BY <1>3, <1>8, <1>11, <3>1
    <3>3. \A s \in Shown(after) : x < s
      BY <1>3, <1>6, <1>8, <2>1, <3>1, <3>2
    <3>4. k = per_ticker_capacity
      BY <3>2 DEF d, k
    <3> DEFINE f == [j \in 1 .. per_ticker_capacity |-> after[j].n]
    <3>5. \A j \in 1 .. per_ticker_capacity : f[j] \in Shown(after)
      <4>1. k - d + 1 = per_ticker_capacity
        BY <1>3, <3>2, <3>4
      <4>2. DOMAIN after = 1 .. per_ticker_capacity
        BY <1>4, <4>1
      <4> QED BY <4>2 DEF Shown
    <3>6. \A j \in 1 .. per_ticker_capacity : f[j] \in adds2 /\ f[j] \in Nat /\ x < f[j]
      BY <1>9, <1>10, <3>3, <3>5
    <3>7. \A a, b \in 1 .. per_ticker_capacity : a < b => f[a] < f[b]
      BY <1>3, <1>4, <1>7, <3>2, <3>4
    <3>8. f \in [1 .. per_ticker_capacity -> Nat]
      BY <3>6
    <3> HIDE DEF f, adds2
    <3>9. Cardinality({a \in adds2 : x < a}) >= per_ticker_capacity
      BY <1>10, <2>1, <3>6, <3>7, <3>8, FullWindow
    <3> QED BY <3>3, <3>9
  <2> QED BY <2>2, <2>3
<1> QED BY <1>7, <1>9, <1>11 DEF Follows, after

\* TradeBuffer::remove, where the id is that of one trade at most.
LEMMA RemoveFollows ==
    ASSUME NEW window \in Seq([n : Frames, trade_id : TradeIds]),
           NEW live, NEW adds, Follows(window, live, adds),
           NEW id, NEW left \in SUBSET live,
           \A i \in DOMAIN window : window[i].n \in left <=> window[i].trade_id # id,
           \A i, j \in DOMAIN window :
               window[i].trade_id = id /\ window[j].trade_id = id => i = j
    PROVE  Follows(remove(window, id), left, adds)
<1> DEFINE after == remove(window, id)
           S == [n : Frames, trade_id : TradeIds]
           k == Len(window)
<1>1. window \in Seq(S) /\ k \in Nat /\ DOMAIN window = 1 .. k
  OBVIOUS
<1>2. /\ after \in Seq(S)
      /\ \/ after = window /\ \A i \in 1 .. k : window[i].trade_id # id
         \/ \E p \in 1 .. k :
               /\ window[p].trade_id = id /\ Len(after) = k - 1
               /\ \A i \in 1 .. Len(after) : after[i] = IF i < p THEN window[i] ELSE window[i + 1]
  <2> HIDE DEF S
  <2> QED BY ZenonT(60), <1>1, RemoveWindow
<1> HIDE DEF after
<1>3. /\ \A i, j \in 1 .. k : i < j => window[i].n < window[j].n
      /\ Shown(window) \subseteq live
  BY <1>1 DEF Follows
<1>4. /\ \A i, j \in DOMAIN after : i < j => after[i].n < after[j].n
      /\ Shown(after) = Shown(window) \cap left
  <2>1. CASE after = window /\ \A i \in 1 .. k : window[i].trade_id # id
    BY <1>1, <1>3, <2>1 DEF Shown
  <2>2. ASSUME NEW p \in 1 .. k, window[p].trade_id = id, Len(after) = k - 1,
               \A i \in 1 .. Len(after) : after[i] = IF i < p THEN window[i] ELSE window[i + 1]
        PROVE  /\ \A i, j \in DOMAIN after : i < j => after[i].n < after[j].n
               /\ Shown(after) = Shown(window) \cap left
    <3>1. DOMAIN after = 1 .. k - 1
      BY <1>2, <2>2
    <3>2. \A i \in 1 .. k : window[i].n \in left <=> i # p
      BY <1>1, <2>2
    <3>3. ASSUME NEW i \in 1 .. k - 1, NEW j \in 1 .. k - 1, i < j PROVE after[i].n < after[j].n
      <4>1. PICK a \in 1 .. k : after[i] = window[a] /\ a = IF i < p THEN i ELSE i + 1
        BY <1>1, <2>2
      <4>2. PICK b \in 1 .. k : after[j] = window[b] /\ b = IF j < p THEN j ELSE j + 1
        BY <1>1, <2>2
      <4>3. a < b
        BY <3>3, <4>1, <4>2
      <4> QED BY <1>3, <4>1, <4>2, <4>3
    <3>4. ASSUME NEW i \in 1 .. k - 1 PROVE after[i].n \in Shown(window) \cap left
      <4>1. PICK a \in 1 .. k : after[i] = window[a] /\ a = IF i < p THEN i ELSE i + 1
        BY <1>1, <2>2
      <4>2. a # p
        BY <4>1
      <4> QED BY <1>1, <3>2, <4>1, <4>2 DEF Shown
    <3>5. ASSUME NEW a \in 1 .. k, a # p PROVE \E i \in 1 .. k - 1 : after[i].n = window[a].n
      <4> DEFINE i == IF a < p THEN a ELSE a - 1
      <4>1. i \in 1 .. k - 1 /\ a = IF i < p THEN i ELSE i + 1
        BY <3>5, <1>1
      <4> HIDE DEF i
      <4>2. after[i] = window[a]
        BY <2>2, <4>1
      <4> QED BY <4>1, <4>2
    <3>6. Shown(after) = Shown(window) \cap left
      <4>1. Shown(after) \subseteq Shown(window) \cap left
        BY <3>1, <3>4 DEF Shown
      <4>2. ASSUME NEW x \in Shown(window) \cap left PROVE x \in Shown(after)
        <5>1. PICK a \in 1 .. k : x = window[a].n
          BY <1>1 DEF Shown
        <5>2. a # p
          BY <3>2, <5>1
        <5>3. PICK i \in 1 .. k - 1 : after[i].n = x
          BY <3>5, <5>1, <5>2
        <5> QED BY <3>1, <5>3 DEF Shown
      <4> QED BY <4>1, <4>2
    <3> QED BY <3>1, <3>3, <3>6
  <2> QED BY <1>2, <2>1, <2>2
<1>5. \A x \in left \ Shown(after) : x \in live \ Shown(window)
  BY <1>4
<1> QED BY <1>4, <1>5 DEF Follows, after

\* A dispatch changes the window of the message's ticker, and the trades that
\* are live, alike.
LEMMA DispatchWindow ==
    ASSUME OneWorker, PipeInv, FeedInv, NEW w \in Workers, dispatch(w)
    PROVE  WindowFollowsFeed' /\ WindowIds'
<1> DEFINE n == worker[w].frame
           m == sent[n]
           S == [n : Frames, trade_id : TradeIds]
<1>1. /\ n \in Frames /\ n \in DOMAIN sent /\ m \in Msgs
      /\ Dispatched' = Dispatched \cup {n} /\ sent' = sent /\ Dispatched \subseteq DOMAIN sent
      /\ \A d \in Dispatched : d \in Nat /\ d < n
  BY DispatchStep DEF FeedInv
<1>2. trades' = trades_after(m, n)
  BY DEF dispatch
<1>3. trades \in [Tickers -> Seq(S)] /\ \A t \in Tickers : Len(trades[t]) <= per_ticker_capacity
  BY DEF PipeInv, EngineTypes
<1>4. m = sent[n] /\ n \in Nat
  BY <1>1, PipelineAssumption DEF Frames
<1> HIDE DEF n, m
<1> SUFFICES ASSUME NEW t \in Tickers
             PROVE  /\ Follows(trades'[t], Live(t)', Done("add", t)')
                    /\ \A i \in DOMAIN trades'[t] : trades'[t][i].trade_id = sent[trades'[t][i].n].trade_id
  <2>1. WindowFollowsFeed' <=> \A t \in Tickers : Follows(trades'[t], Live(t)', Done("add", t)')
    BY DEF WindowFollowsFeed, Follows, Shown
  <2> QED BY <1>1, <2>1 DEF WindowIds
<1> DEFINE win == trades[t]
           adds == Done("add", t)
<1>5. /\ win \in Seq(S) /\ Len(win) <= per_ticker_capacity
      /\ Follows(win, Live(t), adds)
      /\ \A i \in DOMAIN win : win[i].trade_id = sent[win[i].n].trade_id
  BY <1>3, WindowIsFollows DEF FeedInv, WindowIds
<1>6. \A k : Done(k, t)' = IF m.kind = k /\ m.ticker = t THEN Done(k, t) \cup {n} ELSE Done(k, t)
  BY <1>1, <1>4, DoneAfter
<1>7. /\ adds \in SUBSET Nat /\ \A k : \A a \in Done(k, t) : a \in Nat /\ a < n
      /\ Live(t) \subseteq adds
  BY <1>1 DEF Done, Live
<1>8. IsFiniteSet(adds)
  <2>1. \A a \in adds : a <= n
    BY <1>4, <1>7
  <2> QED BY <1>4, <1>7, <2>1, FS_BoundedSetOfNaturals
<1>9. Live(t)' = {x \in Done("add", t)' :
                    /\ \A c \in Done("clear", t)' : c < x
                    /\ \A d \in Done("delete", t)' : sent[d].trade_id = sent[x].trade_id => d < x}
  BY <1>1 DEF Live
<1>10. CASE m.ticker # t \/ m.kind \notin {"add", "delete", "clear"}
  <2>1. trades'[t] = win
    BY <1>2, <1>3, <1>10 DEF trades_after
  <2>2. Live(t)' = Live(t) /\ Done("add", t)' = adds
    BY <1>6, <1>9, <1>10 DEF Live
  <2> QED BY <1>5, <2>1, <2>2
<1>11. CASE m.kind = "add" /\ m.ticker = t
  <2>1. trades'[t] = push(win, n, m.trade_id) /\ m.trade_id \in TradeIds
    BY <1>1, <1>2, <1>3, <1>11, MessageFields DEF trades_after
  <2>2. Done("add", t)' = adds \cup {n} /\ Done("clear", t)' = Done("clear", t)
        /\ Done("delete", t)' = Done("delete", t)
    BY <1>6, <1>11
  <2>3. Live(t)' = Live(t) \cup {n}
    BY <1>7, <1>9, <2>2 DEF Live
  <2>4. Follows(push(win, n, m.trade_id), Live(t) \cup {n}, adds \cup {n})
    <3>1. \A a \in adds : a < n
      BY <1>7
    <3> HIDE DEF win, adds
    <3> QED BY <1>1, <1>5, <1>7, <1>8, <2>1, <3>1, PushFollows
  <2>5. \A i \in DOMAIN trades'[t] : \/ \E j \in DOMAIN win : trades'[t][i] = win[j]
                                   \/ trades'[t][i] = [n |-> n, trade_id |-> m.trade_id]
    <3>1. [n |-> n, trade_id |-> m.trade_id] \in S
      BY <1>1, <2>1
    <3> HIDE DEF S, win
    <3> QED BY <1>5, <2>1, <3>1, PushMembers
  <2>6. \A i \in DOMAIN trades'[t] : trades'[t][i].trade_id = sent[trades'[t][i].n].trade_id
    BY <1>4, <1>5, <2>5
  <2> QED BY <2>1, <2>2, <2>3, <2>4, <2>6
<1>12. CASE m.kind = "delete" /\ m.ticker = t
  <2>1. trades'[t] = remove(win, m.trade_id)
    BY <1>2, <1>3, <1>12 DEF trades_after
  <2>2. Done("add", t)' = adds /\ Done("clear", t)' = Done("clear", t)
        /\ Done("delete", t)' = Done("delete", t) \cup {n}
    BY <1>6, <1>12
  <2>3. Live(t)' = {x \in Live(t) : sent[x].trade_id # m.trade_id}
    BY <1>4, <1>7, <1>9, <2>2 DEF Live
  <2>4. \A i \in DOMAIN win : win[i].n \in Live(t)' <=> win[i].trade_id # m.trade_id
    BY <1>5, <2>3 DEF Follows, Shown
  <2>5. ASSUME NEW i \in DOMAIN win, NEW j \in DOMAIN win,
               win[i].trade_id = m.trade_id, win[j].trade_id = m.trade_id
        PROVE  i = j
    <3> DEFINE x == win[i].n
               y == win[j].n
    <3>1. x \in adds /\ y \in adds /\ sent[x].trade_id = sent[y].trade_id
      BY <1>5, <1>7, <2>5 DEF Follows, Shown
    <3>2. /\ x \in DOMAIN sent /\ sent[x].kind = "add" /\ sent[x].ticker = t /\ sent[x] \in Msgs
          /\ y \in DOMAIN sent /\ sent[y].kind = "add" /\ sent[y].ticker = t /\ sent[y] \in Msgs
      BY <1>1, <3>1 DEF Done, PipeInv, WayInv, WayTypes
    <3>3. sent[x] = sent[y]
      BY <3>1, <3>2, TradeMessages
    <3>4. x = y
      BY <3>2, <3>3 DEF FeedInv, TradesOnce
    <3>5. DOMAIN win = 1 .. Len(win) /\ x \in Nat
      BY <1>5, <1>7, <3>1
    <3> QED BY <1>5, <3>4, <3>5 DEF Follows
  <2>6. Follows(remove(win, m.trade_id), Live(t)', adds)
    <3>1. PICK left \in SUBSET Live(t) : left = Live(t)'
      BY <2>3
    <3> HIDE DEF win, adds
    <3> QED BY <1>5, <2>4, <2>5, <3>1, RemoveFollows
  <2>7. \A i \in DOMAIN trades'[t] : \E j \in DOMAIN win : trades'[t][i] = win[j]
    <3> DEFINE after == remove(win, m.trade_id)
               k == Len(win)
    <3>1. /\ after \in Seq(S)
          /\ \/ after = win
             \/ \E p \in 1 .. k :
                   /\ Len(after) = k - 1
                   /\ \A i \in 1 .. Len(after) : after[i] = IF i < p THEN win[i] ELSE win[i + 1]
      <4> HIDE DEF S, win
      <4> QED BY <1>5, RemoveWindow
    <3>2. k \in Nat /\ DOMAIN win = 1 .. k
      BY <1>5
    <3> HIDE DEF after, win, k
    <3> QED BY <2>1, <3>1, <3>2 DEF after
  <2> QED BY <1>5, <2>1, <2>2, <2>6, <2>7
<1>13. CASE m.kind = "clear" /\ m.ticker = t
  <2>1. trades'[t] = << >>
    BY <1>2, <1>3, <1>13 DEF trades_after
  <2>2. n \in Done("clear", t)' /\ Done("add", t)' = adds
    BY <1>6, <1>13
  <2>3. Live(t)' = {}
    BY <1>4, <1>7, <1>9, <2>2
  <2> QED BY <2>1, <2>3 DEF Follows, Shown
<1> QED BY <1>10, <1>11, <1>12, <1>13

LEMMA NextFeed ==
    ASSUME OneWorker, PipeInv, FeedInv, [PipeNext]_vars PROVE FeedInv'
<1>1. CASE \E w \in Workers : dispatch(w)
  <2>1. PICK w \in Workers : dispatch(w)
    BY <1>1
  <2>2. HoldsNewest' /\ sent' = sent
    BY <2>1, DispatchStep DEF FeedInv
  <2>3. TradesOnce'
    BY <2>2 DEF FeedInv, TradesOnce
  <2> QED BY <2>1, <2>2, <2>3, DispatchBook, DispatchQuote, DispatchWindow DEF FeedInv
<1>2. CASE ~\E w \in Workers : dispatch(w)
  BY <1>2, QuietFeed
<1> QED BY <1>1, <1>2

\* The pipeline by itself, and within the daemon.
LEMMA SequentialFeed ==
    ASSUME OneWorker
    PROVE  /\ Spec => [](PipeInv /\ FeedInv)
           /\ DaemonSpec => [](PipeInv /\ FeedInv)
<1>1. Init => PipeInv /\ FeedInv
  BY InitPipe, InitFeed
<1>2. PipeInv /\ FeedInv /\ [PipeNext]_vars => PipeInv' /\ FeedInv'
  BY NextPipe, NextFeed
<1>3. [Next]_vars => [PipeNext]_vars
  BY DEF PipeNext
<1>4. Spec => [](PipeInv /\ FeedInv)
  BY <1>1, <1>2, <1>3, PTL DEF Spec
<1>5. DaemonInit => Init
  BY DEF DaemonInit
<1>6. PipeInv /\ [DaemonNext]_daemonVars => [PipeNext]_vars
  BY DaemonSteps
<1>7. DaemonSpec => [](PipeInv /\ FeedInv)
  BY <1>1, <1>2, <1>5, <1>6, PTL DEF DaemonSpec
<1> QED BY <1>4, <1>7

\* Max of a set that has a greatest element.
LEMMA MaxIs ==
    ASSUME NEW S \in SUBSET Nat, NEW x \in S, \A y \in S : y <= x
    PROVE  Max(S) = x
<1>1. \A y \in S : (\A z \in S : y >= z) => y = x
  OBVIOUS
<1> QED BY <1>1 DEF Max

LEMMA FeedQuotes == PipeInv /\ FeedInv => MostRecentWins
<1> SUFFICES ASSUME PipeInv, FeedInv, NEW t \in Tickers, NEW f \in Fields
             PROVE  quotes[t].fields[f] = Max({0} \cup {n \in Done("quote", t) : f \in sent[n].diff})
  BY DEF MostRecentWins
<1> DEFINE S == {0} \cup {n \in Done("quote", t) : f \in sent[n].diff}
           q == quotes[t].fields[f]
<1>1. S \in SUBSET Nat
  <2>1. Taken \in Nat
    BY TakenAhead DEF PipeInv, WayInv
  <2> QED BY <2>1 DEF Done, Dispatched
<1>2. q \in S /\ \A y \in S : y <= q
  BY <1>1 DEF FeedInv, QuoteFollows, PipeInv, EngineTypes
<1> HIDE DEF S, q
<1>3. Max(S) = q
  BY <1>1, <1>2, MaxIs
<1> QED BY <1>3 DEF S, q

(***************************************************************************)
(* With one worker a book gets its operations in the order they were sent, *)
(* of any feed (two workers do not keep it: run pipeline_book_reorder).    *)
(***************************************************************************)
THEOREM BooksFollowFeed == OneWorker => (Spec => []BookOpsInOrder) /\ (DaemonSpec => []BookOpsInOrder)
<1> SUFFICES ASSUME OneWorker PROVE (Spec => []BookOpsInOrder) /\ (DaemonSpec => []BookOpsInOrder)
  OBVIOUS
<1>1. PipeInv /\ FeedInv => BookOpsInOrder
  BY DEF FeedInv, BookFollows
<1> QED BY <1>1, SequentialFeed, PTL

(***************************************************************************)
(* With one worker a field of a quote shows the last frame that carried it *)
(* (QuoteEngine::apply, "Most recent update wins").                        *)
(***************************************************************************)
THEOREM QuotesFollowFeed == OneWorker => (Spec => []MostRecentWins) /\ (DaemonSpec => []MostRecentWins)
<1> SUFFICES ASSUME OneWorker PROVE (Spec => []MostRecentWins) /\ (DaemonSpec => []MostRecentWins)
  OBVIOUS
<1> QED BY FeedQuotes, SequentialFeed, PTL

(***************************************************************************)
(* With one worker the window of a ticker is the most recent part of its   *)
(* live trades, of any length and for any capacity (TradeBuffer::push,     *)
(* remove and clear).                                                      *)
(***************************************************************************)
THEOREM WindowsFollowFeed ==
    OneWorker => (Spec => []WindowFollowsFeed) /\ (DaemonSpec => []WindowFollowsFeed)
<1> SUFFICES ASSUME OneWorker PROVE (Spec => []WindowFollowsFeed) /\ (DaemonSpec => []WindowFollowsFeed)
  OBVIOUS
<1>1. PipeInv /\ FeedInv => WindowFollowsFeed
  BY DEF FeedInv
<1> QED BY <1>1, SequentialFeed, PTL
=============================================================================
