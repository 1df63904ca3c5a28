--------------------------- MODULE IngestPipeline ---------------------------
(***************************************************************************)
(* The way of a frame from the Cedro socket to the engines: the reader     *)
(* thread (cedro-client/src/reader.rs) reads the socket, splits frames and *)
(* pushes them to a bounded channel; the workers of the parser pool        *)
(* (ingest-daemon/src/pipeline.rs) pull from it and dispatch.  The reader  *)
(* starts before the pool does: until spawn_workers nobody pulls.          *)
(*                                                                         *)
(* A frame is the number of its message in `sent`, so that the order and   *)
(* the number of deliveries stay visible.  A read returns whole frames: an *)
(* unfinished one stays in the splitter and is as good as unread.  The     *)
(* book of a ticker is represented by the frames applied to it, in order   *)
(* (OrderBook says what applying them does).                               *)
(***************************************************************************)
EXTENDS MarketState, FiniteSets, FiniteSetsExt

CONSTANTS
    Tickers,
    TradeIds,
    Brokers,
    Msgs,           \* messages the server may send
    Workers,        \* threads of the parser pool (PARSER_WORKERS)
    ChannelCap,     \* frame_channel_capacity
    ArchiveCap,     \* ArchiveConfig::channel_capacity
    Assets,         \* tickers the AssetCache knows, {} also if there is no writer
    MaxFrames       \* bound: frames the server sends

(***************************************************************************)
(* What parse_frame makes of a frame.  "other" stands for a frame that     *)
(* does not parse and for a message dispatch ignores.                      *)
(***************************************************************************)
ProtocolMessages ==
    [kind : {"quote"}, ticker : Tickers, diff : SUBSET Fields]
    \cup [kind : {"book", "clear"}, ticker : Tickers]
    \cup [kind : {"add", "delete"}, ticker : Tickers, trade_id : TradeIds]
    \cup [kind : {"symbol"}, market : {"Bovespa", "BMF"}, ticker : Tickers]
    \cup [kind : {"broker"}, cedro_id : Brokers]
    \cup [kind : {"other"}]

ASSUME PipelineAssumption ==
    /\ Msgs \subseteq ProtocolMessages
    /\ ChannelCap \in Nat \ {0}
    /\ ArchiveCap \in Nat \ {0}
    /\ Assets \subseteq Tickers
    /\ MaxFrames \in Nat

VARIABLES
    sent,           \* the messages the server has sent, in order
    peer,           \* "open", or "closed" once the server is gone
    kernel,         \* frames in the receive buffer of the socket
    splitter,       \* frames read and not pushed yet
    channel,        \* the bounded frame channel
    reader,         \* where reader_loop is
    stop_flag,
    worker,         \* worker -> where worker_loop is, with the frame it holds
    quotes,         \* QuoteEngine: ticker -> QuoteState
    books,          \* BookEngine: ticker -> frames applied to its book
    allowed,        \* BookEngine's filter; no filter is Tickers
    trades,         \* TradeBuffer: ticker -> window
    catalog,        \* Catalog
    archive,        \* frames queued for the archive's writer thread
    submitted,      \* frames whose fanout submit was spawned
    persisted       \* frames whose trade was handed to spawn_persist

socket == << sent, peer, kernel >>
threads == << splitter, channel, reader, stop_flag, worker >>
engines == << quotes, books, allowed, trades, catalog, archive, submitted, persisted >>
vars == << socket, threads, engines >>

Frames == 1 .. MaxFrames
NoFrame == 0

TypeOK ==
    /\ sent \in Seq(Msgs) /\ Len(sent) <= MaxFrames
    /\ peer \in {"open", "closed"}
    /\ kernel \in Seq(Frames)
    /\ splitter \in Seq(Frames)
    /\ channel \in Seq(Frames) /\ Len(channel) <= ChannelCap
    /\ reader \in {"top", "read", "send", "exited"}
    /\ stop_flag \in BOOLEAN
    /\ worker \in [Workers -> [pc : {"unborn", "recv", "dispatch", "done"},
                               frame : Frames \cup {NoFrame}]]
    /\ quotes \in [Tickers -> [time_hhmmss : Nat, version : Nat, fields : [Fields -> Nat]]]
    /\ books \in [Tickers -> Seq(Frames)]
    /\ allowed \subseteq Tickers
    /\ trades \in [Tickers -> Seq([n : Frames, trade_id : TradeIds])]
    /\ \A t \in Tickers : Len(trades[t]) <= per_ticker_capacity
    /\ catalog \in [symbols : SUBSET Tickers, book_universe : SUBSET Tickers,
                    brokers : [Brokers -> Nat]]
    /\ archive \in Seq(Frames) /\ Len(archive) <= ArchiveCap
    /\ submitted \subseteq Frames
    /\ persisted \subseteq Frames

At(pc) == [pc |-> pc, frame |-> NoFrame]

Init ==
    /\ sent = << >> /\ peer = "open" /\ kernel = << >>
    /\ splitter = << >> /\ channel = << >> /\ reader = "top" /\ stop_flag = FALSE
    /\ worker = [w \in Workers |-> At("unborn")]
    /\ quotes = [t \in Tickers |-> NoQuote]
    /\ books = [t \in Tickers |-> << >>]
    /\ allowed = Tickers
    /\ trades = [t \in Tickers |-> << >>]
    /\ catalog = [symbols |-> {}, book_universe |-> {}, brokers |-> [b \in Brokers |-> 0]]
    /\ archive = << >> /\ submitted = {} /\ persisted = {}

-----------------------------------------------------------------------------
\* The server sends a message; it does not give two trades one id.
server_send(m) ==
    /\ peer = "open" /\ Len(sent) < MaxFrames
    /\ m.kind = "add" => m \notin ToSet(sent)
    /\ sent' = Append(sent, m)
    /\ kernel' = Append(kernel, Len(sent'))
    /\ UNCHANGED << peer, threads, engines >>

\* The server closes or resets the connection; what it sent is still readable.
server_close ==
    /\ peer = "open"
    /\ peer' = "closed"
    /\ UNCHANGED << sent, kernel, threads, engines >>

-----------------------------------------------------------------------------
\* Top of reader_loop: the stop flag is looked at once per read.
reader_check ==
    /\ reader = "top"
    /\ reader' = IF stop_flag THEN "exited" ELSE "read"
    /\ UNCHANGED << socket, splitter, channel, stop_flag, worker, engines >>

\* stream.read returns some of what has arrived.
reader_read ==
    /\ reader = "read"
    /\ \E n \in 1 .. Len(kernel) :
          /\ splitter' = splitter \o SubSeq(kernel, 1, n)
          /\ kernel' = SubSeq(kernel, n + 1, Len(kernel))
    /\ reader' = "send"
    /\ UNCHANGED << sent, peer, channel, stop_flag, worker, engines >>

\* Mutant: the end of the stream is taken for a read to retry.
reader_eof_Retries ==
    /\ reader = "read" /\ kernel = << >> /\ peer = "closed"
    /\ reader' = "top"
    /\ UNCHANGED << socket, splitter, channel, stop_flag, worker, engines >>

\* stream.read returns 0 or an error: the thread ends and drops the sender.
reader_eof ==
    /\ reader = "read" /\ kernel = << >> /\ peer = "closed"
    /\ reader' = "exited"
    /\ UNCHANGED << socket, splitter, channel, stop_flag, worker, engines >>

\* A blocked stream.read is interrupted by a signal.
reader_interrupted ==
    /\ reader = "read" /\ kernel = << >> /\ peer = "open"
    /\ reader' = "top"
    /\ UNCHANGED << socket, splitter, channel, stop_flag, worker, engines >>

\* Mutant: a frame that finds the channel full is dropped.
reader_send_Drops ==
    /\ reader = "send"
    /\ channel' = IF Len(channel) < ChannelCap
                  THEN Append(channel, Head(splitter)) ELSE channel
    /\ splitter' = Tail(splitter)
    /\ reader' = IF Len(splitter) = 1 THEN "top" ELSE "send"
    /\ UNCHANGED << socket, stop_flag, worker, engines >>

\* Mutant: the channel is not bounded.
reader_send_Unbounded ==
    /\ reader = "send"
    /\ channel' = Append(channel, Head(splitter))
    /\ splitter' = Tail(splitter)
    /\ reader' = IF Len(splitter) = 1 THEN "top" ELSE "send"
    /\ UNCHANGED << socket, stop_flag, worker, engines >>

\* Mutant: the newest of the frames that were read is pushed first.
reader_send_Lifo ==
    /\ reader = "send"
    /\ Len(channel) < ChannelCap
    /\ channel' = Append(channel, Last(splitter))
    /\ splitter' = Front(splitter)
    /\ reader' = IF Len(splitter) = 1 THEN "top" ELSE "send"
    /\ UNCHANGED << socket, stop_flag, worker, engines >>

\* try_send, or the blocking send it falls back to: a full channel waits.
reader_send ==
    /\ reader = "send"
    /\ Len(channel) < ChannelCap
    /\ channel' = Append(channel, Head(splitter))
    /\ splitter' = Tail(splitter)
    /\ reader' = IF Len(splitter) = 1 THEN "top" ELSE "send"
    /\ UNCHANGED << socket, stop_flag, worker, engines >>

\* ReaderHandle::shutdown, before it joins the threads.
request_stop ==
    /\ ~stop_flag
    /\ stop_flag' = TRUE
    /\ UNCHANGED << socket, splitter, channel, reader, worker, engines >>

-----------------------------------------------------------------------------
\* spawn_workers.
spawn_workers ==
    /\ \A w \in Workers : worker[w].pc = "unborn"
    /\ worker' = [w \in Workers |-> At("recv")]
    /\ UNCHANGED << socket, splitter, channel, reader, stop_flag, engines >>

\* frames.recv returns the frame at the head of the channel.
worker_recv(w) ==
    /\ worker[w].pc = "recv" /\ channel # << >>
    /\ worker' = [worker EXCEPT ![w] = [pc |-> "dispatch", frame |-> Head(channel)]]
    /\ channel' = Tail(channel)
    /\ UNCHANGED << socket, splitter, reader, stop_flag, engines >>

\* frames.recv fails: the channel is empty and its sender gone.
worker_disconnected(w) ==
    /\ worker[w].pc = "recv" /\ channel = << >> /\ reader = "exited"
    /\ worker' = [worker EXCEPT ![w] = At("done")]
    /\ UNCHANGED << socket, splitter, channel, reader, stop_flag, engines >>

\* QuoteEngine::apply.
quotes_after(m, n) ==
    IF m.kind # "quote" THEN quotes
    ELSE [quotes EXCEPT ![m.ticker] = apply_diff(@, n, m.diff)]

\* BookEngine::apply: nothing happens to a ticker outside the filter.
books_after(m, n) ==
    IF m.kind = "book" /\ m.ticker \in allowed
    THEN [books EXCEPT ![m.ticker] = Append(@, n)]
    ELSE books

\* TradeBuffer::push, remove and clear.
trades_after(m, n) ==
    CASE m.kind = "add"    -> [trades EXCEPT ![m.ticker] = push(@, n, m.trade_id)]
      [] m.kind = "delete" -> [trades EXCEPT ![m.ticker] = remove(@, m.trade_id)]
      [] m.kind = "clear"  -> [trades EXCEPT ![m.ticker] = << >>]
      [] OTHER             -> trades

\* Catalog::insert_symbol and insert_broker.
catalog_after(m, n) ==
    CASE m.kind = "symbol" ->
            [catalog EXCEPT
                !.symbols = @ \cup {m.ticker},
                !.book_universe = IF m.market = "Bovespa" THEN @ \cup {m.ticker} ELSE @]
      [] m.kind = "broker" -> [catalog EXCEPT !.brokers[m.cedro_id] = n]
      [] OTHER             -> catalog

\* Mutant: a worker waits for room in the archive's queue.
try_push_Blocks(n) == Len(archive) < ArchiveCap /\ archive' = Append(archive, n)

\* ArchiveHandle::try_push: a full queue drops the frame.
try_push(n) ==
    archive' = IF Len(archive) < ArchiveCap THEN Append(archive, n) ELSE archive

(***************************************************************************)
(* The rest of a worker's iteration: tee into the archive, parse, apply to *)
(* the one engine the message is for, spawn the fanout submit and, for a   *)
(* trade of a known asset, its persistence.  Only the engine's step can be *)
(* told apart from the outside, so the iteration is one action.            *)
(***************************************************************************)
dispatch(w) ==
    LET n == worker[w].frame
        m == sent[n]
    IN
    /\ worker[w].pc = "dispatch"
    /\ try_push(n)
    /\ quotes' = quotes_after(m, n)
    /\ books' = books_after(m, n)
    /\ trades' = trades_after(m, n)
    /\ catalog' = catalog_after(m, n)
    /\ submitted' = IF m.kind \in {"quote", "book", "add"} THEN submitted \cup {n} ELSE submitted
    /\ persisted' = IF m.kind = "add" /\ m.ticker \in Assets THEN persisted \cup {n} ELSE persisted
    /\ worker' = [worker EXCEPT ![w] = At("recv")]
    /\ UNCHANGED << socket, splitter, channel, reader, stop_flag, allowed >>

\* The archive's writer thread takes a frame from its queue.
archive_recv ==
    /\ archive # << >>
    /\ archive' = Tail(archive)
    /\ UNCHANGED << socket, threads, quotes, books, allowed, trades, catalog,
                    submitted, persisted >>

-----------------------------------------------------------------------------
ReaderStep == reader_check \/ reader_read \/ reader_eof \/ reader_send

WorkerStep(w) == worker_recv(w) \/ worker_disconnected(w) \/ dispatch(w)

Next ==
    \/ \E m \in Msgs : server_send(m)
    \/ server_close
    \/ reader_check \/ reader_read \/ reader_eof \/ reader_interrupted \/ reader_send
    \/ request_stop
    \/ spawn_workers
    \/ \E w \in Workers : worker_recv(w) \/ worker_disconnected(w) \/ dispatch(w)
    \/ archive_recv

Spec == Init /\ [][Next]_vars

(***************************************************************************)
(* The operating system runs every thread that can run, and the boot       *)
(* sequence gets to spawn_workers.  Nothing is asked of the server, nor of *)
(* the archive's thread, whose disk may be stuck.                          *)
(***************************************************************************)
Fairness ==
    /\ WF_vars(ReaderStep)
    /\ WF_vars(spawn_workers)
    /\ \A w \in Workers : WF_vars(WorkerStep(w))

FairSpec == Spec /\ Fairness

-----------------------------------------------------------------------------
\* Frames still on their way, in the order the reader and the pool see them.
Pending == channel \o splitter \o kernel

Taken == Len(sent) - Len(Pending)

\* Frames held by a worker.
InHand == {worker[w].frame : w \in {v \in Workers : worker[v].pc = "dispatch"}}

Dispatched == (1 .. Taken) \ InHand

(***************************************************************************)
(* Between the socket and the pool nothing is lost, repeated or reordered, *)
(* however reads cut the stream, whether or not the channel was full, and  *)
(* after a stop: what is on its way is the end of what was sent, and no    *)
(* two workers hold the same frame.                                        *)
(***************************************************************************)
FifoDelivery ==
    /\ \A i \in DOMAIN Pending : Pending[i] = Taken + i
    /\ InHand \subseteq 1 .. Taken
    /\ \A v, w \in Workers :
          worker[v].pc = "dispatch" /\ worker[w].pc = "dispatch" /\ v # w =>
              worker[v].frame # worker[w].frame

\* Frames of kind k about t that are dispatched.
Done(k, t) == {n \in Dispatched : sent[n].kind = k /\ sent[n].ticker = t}

(***************************************************************************)
(* market-engine/src/lib.rs: the book "never observes out-of-order         *)
(* operations".                                                            *)
(***************************************************************************)
BookOpsInOrder ==
    \A t \in Tickers : \A i, j \in DOMAIN books[t] : i < j => books[t][i] < books[t][j]

(***************************************************************************)
(* market-engine/src/lib.rs, QuoteEngine: "Most recent update wins": a     *)
(* field shows the last dispatched frame that carried it.                  *)
(***************************************************************************)
MostRecentWins ==
    \A t \in Tickers, f \in Fields :
        quotes[t].fields[f] = Max({0} \cup {n \in Done("quote", t) : f \in sent[n].diff})

\* Trades of t that were added after the last clear and not deleted since.
Live(t) ==
    {n \in Done("add", t) :
        /\ \A c \in Done("clear", t) : c < n
        /\ \A d \in Done("delete", t) : sent[d].trade_id = sent[n].trade_id => d < n}

(***************************************************************************)
(* The window of a ticker is the most recent part of its live trades, in   *)
(* the order they were sent: no busted trade (op D) and no trade from      *)
(* before a clear (op R) stays, and a live trade is missing only if every  *)
(* older one is and the window had been full.                              *)
(***************************************************************************)
WindowFollowsFeed ==
    \A t \in Tickers :
        LET shown == {trades[t][i].n : i \in DOMAIN trades[t]} IN
        /\ \A i, j \in DOMAIN trades[t] : i < j => trades[t][i].n < trades[t][j].n
        /\ shown \subseteq Live(t)
        /\ \A n \in Live(t) \ shown :
              /\ \A s \in shown : n < s
              /\ Cardinality({a \in Done("add", t) : n < a}) >= per_ticker_capacity

(***************************************************************************)
(* pipeline.rs: "Engine updates synchronously trigger fanout publishes +   *)
(* persistence stages": a trade in an engine is on its way to the writer.  *)
(***************************************************************************)
TradesPersisted == \A t \in Tickers : Done("add", t) \subseteq persisted

(***************************************************************************)
(* reader.rs, ReaderHandle::shutdown: "Signals the reader/watchdog threads *)
(* to wind down and joins them".                                           *)
(***************************************************************************)
ShutdownJoinsReader == stop_flag ~> reader = "exited"
=============================================================================
