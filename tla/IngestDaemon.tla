---------------------------- MODULE IngestDaemon ----------------------------
(***************************************************************************)
(* The life of the daemon's process around the pipeline: the boot sequence *)
(* and the shutdown of main.rs and bootstrap.rs, the watchdog thread of    *)
(* reader.rs and the flush timer of pipeline.rs.  The reader and the       *)
(* watchdog run from the start; the pool and the timer start after the     *)
(* bootstrap; a signal or the watchdog's flag ends the wait, and main then *)
(* wakes the timer through a Notify, awaits it, flushes, stops and joins   *)
(* the threads, and returns, whereupon the runtime waits for the pool.     *)
(***************************************************************************)
EXTENDS IngestPipeline

CONSTANTS
    PanicLevel,     \* backpressure_panic_ratio of SO_RCVBUF, in frames
    Signals         \* signals the process may receive

ASSUME DaemonAssumption ==
    /\ PanicLevel \in Nat \ {0}
    /\ Signals \subseteq {"SIGINT", "SIGTERM"}

VARIABLES
    main,           \* where main is
    watchdog,       \* where watchdog_loop is
    panic_flag,
    timer,          \* where the flush timer's task is
    subscriptions,  \* SubscriptionRegistry, and what the server was asked for
    offered,        \* symbols waiting in the channel when the universe was resolved
    terminated      \* SIGTERM was sent

life == << main, watchdog, panic_flag, timer, subscriptions, offered, terminated >>
daemonVars == << vars, life >>

Booting == {"start", "queried", "resolved", "booted"}
Stopping == {"notify", "await", "flush", "stop", "join", "drop"}
Gone == {"exited", "failed", "killed"}

DaemonTypeOK ==
    /\ TypeOK
    /\ main \in Booting \cup {"running"} \cup Stopping \cup Gone
    /\ watchdog \in {"top", "sample", "ended"}
    /\ panic_flag \in BOOLEAN
    /\ timer \in {"unborn", "waiting", "woken", "flushing", "ended"}
    /\ subscriptions \subseteq {"Quote", "BookDetailed", "Trades"} \X Tickers
    /\ offered \subseteq Tickers
    /\ terminated \in BOOLEAN

\* Connection::open and Reader::spawn have returned, the pipeline is built.
DaemonInit ==
    /\ Init
    /\ main = "start" /\ watchdog = "top" /\ panic_flag = FALSE /\ timer = "unborn"
    /\ subscriptions = {} /\ offered = {} /\ terminated = FALSE

Alive == main \notin Gone

-----------------------------------------------------------------------------
\* The server answers queries, and streams what was subscribed to.
server_answer(m) ==
    /\ m.kind \in {"symbol", "broker"} => main # "start"
    /\ m.kind = "quote" => << "Quote", m.ticker >> \in subscriptions
    /\ m.kind = "book" => << "BookDetailed", m.ticker >> \in subscriptions
    /\ m.kind \in {"add", "delete", "clear"} => << "Trades", m.ticker >> \in subscriptions
    /\ server_send(m)
    /\ UNCHANGED life

server_leaves == server_close /\ UNCHANGED life

\* The threads of the pipeline run while the process does.
pipeline_step ==
    /\ Alive
    /\ \/ ReaderStep
       \/ reader_interrupted
       \/ \E w \in Workers : WorkerStep(w)
       \/ archive_recv
    /\ UNCHANGED life

-----------------------------------------------------------------------------
\* bootstrap::run, first part: GPN and the MQC queries.
boot_query ==
    /\ main = "start"
    /\ main' = "queried"
    /\ UNCHANGED << vars, watchdog, panic_flag, timer, subscriptions, offered, terminated >>

\* After the sleeps: the universe is what the catalog holds, and the book
\* engine's filter is its Bovespa part.
boot_resolve ==
    /\ main = "queried"
    /\ main' = "resolved"
    /\ allowed' = catalog.book_universe
    /\ offered' = {sent[n].ticker : n \in {c \in ToSet(channel) : sent[c].kind = "symbol"}}
    /\ UNCHANGED << socket, threads, quotes, books, trades, catalog, archive, submitted,
                    persisted, watchdog, panic_flag, timer, subscriptions, terminated >>

\* The subscription commands, each entered in the registry too.  The catalog
\* does not change between the two parts: there is no worker yet.
boot_subscribe ==
    /\ main = "resolved"
    /\ main' = "booted"
    /\ subscriptions' = ({"Quote", "Trades"} \X catalog.symbols)
                        \cup ({"BookDetailed"} \X catalog.book_universe)
    /\ UNCHANGED << vars, watchdog, panic_flag, timer, offered, terminated >>

\* A command cannot be written: main returns the error.
boot_fails ==
    /\ main \in {"start", "resolved"} /\ peer = "closed"
    /\ main' = "failed"
    /\ UNCHANGED << vars, watchdog, panic_flag, timer, subscriptions, offered, terminated >>

\* spawn_workers and spawn_flush_timer.
start_pool ==
    /\ main = "booted"
    /\ spawn_workers
    /\ main' = "running"
    /\ timer' = "waiting"
    /\ UNCHANGED << watchdog, panic_flag, subscriptions, offered, terminated >>

-----------------------------------------------------------------------------
\* watchdog_loop: the stop flag, then FIONREAD on the reader's descriptor.
watchdog_check ==
    /\ Alive /\ watchdog = "top"
    /\ watchdog' = IF stop_flag THEN "ended" ELSE "sample"
    /\ UNCHANGED << vars, main, panic_flag, timer, subscriptions, offered, terminated >>

(***************************************************************************)
(* The sample.  The reader's stream, and the descriptor with it, is closed *)
(* when the reader's thread ends: the ioctl then fails, or, if the number  *)
(* has been given to another file since, returns that file's count.        *)
(***************************************************************************)
watchdog_sample ==
    /\ Alive /\ watchdog = "sample"
    /\ \/ /\ reader # "exited" /\ Len(kernel) < PanicLevel
          /\ watchdog' = "top" /\ UNCHANGED panic_flag
       \/ /\ reader # "exited" /\ Len(kernel) >= PanicLevel
          /\ watchdog' = "ended" /\ panic_flag' = TRUE
       \/ /\ reader = "exited"
          /\ \/ watchdog' = "ended" /\ panic_flag' \in {panic_flag, TRUE}
             \/ watchdog' = "top" /\ UNCHANGED panic_flag
    /\ UNCHANGED << vars, main, timer, subscriptions, offered, terminated >>

(***************************************************************************)
(* The timer's task: select! between the Notify and the interval.  A tick  *)
(* drops the Notified future; it is created again after the flush.  When   *)
(* both are ready select! takes either.                                    *)
(***************************************************************************)
timer_tick ==
    /\ Alive /\ main # "drop" /\ timer \in {"waiting", "woken"}
    /\ timer' = "flushing"
    /\ UNCHANGED << vars, main, watchdog, panic_flag, subscriptions, offered, terminated >>

timer_flushed ==
    /\ Alive /\ main # "drop" /\ timer = "flushing"
    /\ timer' = "waiting"
    /\ UNCHANGED << vars, main, watchdog, panic_flag, subscriptions, offered, terminated >>

timer_return ==
    /\ Alive /\ timer = "woken"
    /\ timer' = "ended"
    /\ UNCHANGED << vars, main, watchdog, panic_flag, subscriptions, offered, terminated >>

-----------------------------------------------------------------------------
\* SIGINT ends wait_for_shutdown; before it is installed, it ends the process.
sigint ==
    /\ "SIGINT" \in Signals
    /\ main \in Booting \cup {"running"}
    /\ main' = IF main = "running" THEN "notify" ELSE "killed"
    /\ UNCHANGED << vars, watchdog, panic_flag, timer, subscriptions, offered, terminated >>

\* Nothing handles SIGTERM.
sigterm ==
    /\ "SIGTERM" \in Signals
    /\ Alive
    /\ main' = "killed"
    /\ terminated' = TRUE
    /\ UNCHANGED << vars, watchdog, panic_flag, timer, subscriptions, offered >>

\* Mutant: the flag is looked at only while the watchdog runs.
watch_panic_WhileWatched ==
    /\ main = "running" /\ panic_flag /\ watchdog # "ended"
    /\ main' = "notify"
    /\ UNCHANGED << vars, watchdog, panic_flag, timer, subscriptions, offered, terminated >>

\* wait_for_shutdown polls the watchdog's flag.
watch_panic ==
    /\ main = "running" /\ panic_flag
    /\ main' = "notify"
    /\ UNCHANGED << vars, watchdog, panic_flag, timer, subscriptions, offered, terminated >>

\* shutdown.notify_waiters: wakes whoever waits now, and leaves no permit.
notify_waiters ==
    /\ main = "notify"
    /\ main' = "await"
    /\ timer' = IF timer = "waiting" THEN "woken" ELSE timer
    /\ UNCHANGED << vars, watchdog, panic_flag, subscriptions, offered, terminated >>

\* flush_handle.await.
await_timer ==
    /\ main = "await" /\ timer = "ended"
    /\ main' = "flush"
    /\ UNCHANGED << vars, watchdog, panic_flag, timer, subscriptions, offered, terminated >>

\* Pipeline::flush_all, whether or not it fails: TradeWriter says what the
\* writer's flush does.
flush_all ==
    /\ main = "flush"
    /\ main' = "stop"
    /\ UNCHANGED << vars, watchdog, panic_flag, timer, subscriptions, offered, terminated >>

\* ReaderHandle::shutdown: the flag, then the two joins.
stop_reader ==
    /\ main = "stop"
    /\ request_stop
    /\ main' = "join"
    /\ UNCHANGED << watchdog, panic_flag, timer, subscriptions, offered, terminated >>

join_threads ==
    /\ main = "join" /\ reader = "exited" /\ watchdog = "ended"
    /\ main' = "drop"
    /\ UNCHANGED << vars, watchdog, panic_flag, timer, subscriptions, offered, terminated >>

\* Mutant: the runtime is dropped without waiting for its blocking threads.
exit_Background ==
    /\ main = "drop"
    /\ main' = "exited"
    /\ UNCHANGED << vars, watchdog, panic_flag, timer, subscriptions, offered, terminated >>

\* main has returned: the runtime waits for its blocking threads, the pool.
exit ==
    /\ main = "drop" /\ \A w \in Workers : worker[w].pc = "done"
    /\ main' = "exited"
    /\ UNCHANGED << vars, watchdog, panic_flag, timer, subscriptions, offered, terminated >>

-----------------------------------------------------------------------------
MainStep ==
    \/ boot_query \/ boot_resolve \/ boot_subscribe \/ start_pool
    \/ watch_panic \/ notify_waiters \/ await_timer \/ flush_all
    \/ stop_reader \/ join_threads \/ exit

DaemonNext ==
    \/ \E m \in Msgs : server_answer(m)
    \/ server_leaves
    \/ pipeline_step
    \/ MainStep \/ boot_fails
    \/ watchdog_check \/ watchdog_sample
    \/ timer_tick \/ timer_flushed \/ timer_return
    \/ sigint \/ sigterm

DaemonSpec == DaemonInit /\ [][DaemonNext]_daemonVars

(***************************************************************************)
(* Threads and tasks that can run do, and timers fire; nothing is asked of *)
(* the server, of the archive's thread, or of whoever sends signals.       *)
(***************************************************************************)
DaemonFairness ==
    /\ WF_daemonVars(MainStep)
    /\ WF_daemonVars(Alive /\ ReaderStep /\ UNCHANGED life)
    /\ \A w \in Workers : WF_daemonVars(Alive /\ WorkerStep(w) /\ UNCHANGED life)
    /\ WF_daemonVars(watchdog_check) /\ WF_daemonVars(watchdog_sample)
    /\ WF_daemonVars(timer_tick) /\ WF_daemonVars(timer_flushed)
    /\ WF_daemonVars(timer_return)

DaemonFairSpec == DaemonSpec /\ DaemonFairness

-----------------------------------------------------------------------------
(***************************************************************************)
(* A process that ends the way main intends to has dispatched every frame  *)
(* the reader took from the socket: the reader never leaves frames in the  *)
(* splitter, and the pool drains the channel before the runtime is gone.   *)
(***************************************************************************)
ExitDrained == main = "exited" => Dispatched = 1 .. Len(sent) - Len(kernel)

(***************************************************************************)
(* A frame the server got through reaches the engines, whoever is slow: a  *)
(* full channel, a boot during which nobody pulls, a stuck archive, a      *)
(* server that closes, a stop meanwhile.  The ways out are that the        *)
(* process is killed or fails to boot, and that the frame was still unread *)
(* when the reader was told to stop.                                       *)
(***************************************************************************)
FramesReachEngines ==
    \A n \in Frames :
        n <= Len(sent) ~>
            \/ n \in Dispatched
            \/ main \in {"failed", "killed"}
            \/ stop_flag /\ reader = "exited" /\ n \in ToSet(kernel)

(***************************************************************************)
(* When the server is gone the reader and then every worker end: nobody is *)
(* left waiting on a channel nobody feeds.                                 *)
(***************************************************************************)
PoolWindsDown ==
    peer = "closed" ~> ~Alive \/ \A w \in Workers : worker[w].pc = "done"

(***************************************************************************)
(* When the watchdog finds the receive buffer past its limit the daemon    *)
(* leaves its main loop, also if that happens during the bootstrap.        *)
(***************************************************************************)
PanicStopsDaemon == panic_flag ~> main \notin Booting \cup {"running"}

(***************************************************************************)
(* bootstrap.rs: MQC responses go through "the pipeline's existing parser  *)
(* dispatch", and the bootstrap waits "to let responses settle in the      *)
(* catalog": a symbol whose frame was in the channel when the universe was *)
(* resolved is subscribed to.                                              *)
(***************************************************************************)
UniverseSubscribed ==
    main = "running" => \A t \in offered : << "Quote", t >> \in subscriptions

(***************************************************************************)
(* reader.rs: on EOF "The orchestrator will detect this via the            *)
(* disconnected channel and trigger a reconnect": main does not stay in    *)
(* its wait for ever after the reader is gone.                             *)
(***************************************************************************)
EofNoticed == reader = "exited" ~> main # "running"

(***************************************************************************)
(* main.rs: on a signal "gracefully flush trade buffer and exit": once     *)
(* main awaits the flush timer, the timer ends and the flush is reached.   *)
(***************************************************************************)
FinalFlushReached == main = "notify" ~> main \in {"flush"} \cup Gone

(***************************************************************************)
(* main.rs: "Wait for SIGTERM / SIGINT; gracefully flush trade buffer and  *)
(* exit": after a SIGTERM the process gets to the end of main.             *)
(***************************************************************************)
SigtermIsGraceful == terminated ~> main = "exited"

(***************************************************************************)
(* connection.rs, pending_recv_bytes: "raw_fd came from a live TcpStream   *)
(* that the caller keeps alive for the duration of this call (the reader   *)
(* thread owns it)": the watchdog is never about to use the descriptor     *)
(* after the reader's thread has dropped the stream.                       *)
(***************************************************************************)
WatchdogFdLive == Alive /\ watchdog = "sample" => reader # "exited"
=============================================================================
