---------------------------- MODULE CedroSession ----------------------------
(***************************************************************************)
(* A session with the Cedro server once the handshake is over: the threads *)
(* that write commands through the shared CommandSink, the bootstrap that  *)
(* subscribes the universe and enters it in the SubscriptionRegistry, the  *)
(* server that hears lines and answers with lines, and the parsers that    *)
(* read them.                                                              *)
(*                                                                         *)
(* write_line takes the sink's mutex, writes the payload, writes the line  *)
(* break and releases the mutex; both writes can fail.  A write that fails *)
(* may have sent a part of its bytes, and the socket takes no more: the    *)
(* timeouts of the handshake were removed, so an error is the end of the   *)
(* connection.                                                             *)
(***************************************************************************)
EXTENDS CedroParser

CONSTANTS Tickers,       \* the universe, as a sequence
          BookSet,       \* the tickers whose book is subscribed
          Orchestrator,  \* the thread that runs the bootstrap
          Others,        \* other threads that write commands
          OtherCommands, \* what they write
          NoThread       \* the mutex is free

ASSUME SessionAssumption ==
    /\ Orchestrator \notin Others
    /\ NoThread \notin Others \cup {Orchestrator}
    /\ Tickers \in Seq({Tickers[i] : i \in DOMAIN Tickers})
    /\ <<"cut">> \notin OtherCommands      \* the mark of a command cut short

VARIABLES lock,     \* the thread that holds the sink's mutex
          pc,       \* where each thread is in write_line
          calls,    \* what each thread has left to do
          socket,   \* TRUE while the connection is up
          partial,  \* the payloads the server got since the last line break
          received, \* the lines the server got
          registry, \* SubscriptionRegistry
          line,     \* the last line the server sent
          got       \* what the parser made of it

vars == <<lock, pc, calls, socket, partial, received, registry, line, got>>

Wire    == INSTANCE CedroWire
Threads == Others \cup {Orchestrator}

(***************************************************************************)
(* The commands, as their words.                                           *)
(***************************************************************************)
subscribe_quote(t, snapshot_only) == IF snapshot_only THEN <<"SQT", t, "N">> ELSE <<"SQT", t>>
unsubscribe_quote(t) == <<"USQ", t>>
subscribe_book_detailed(t) == <<"BQT", t>>
unsubscribe_book_detailed(t) == <<"UBQ", t>>
subscribe_book_aggregated(t, snapshot_only) == IF snapshot_only THEN <<"SAB", t, "N">> ELSE <<"SAB", t>>
unsubscribe_book_aggregated(t) == <<"UAB", t>>
\* history is the Option of a count.
subscribe_trades(t, history) == <<"GQT", t, "S">> \o history
unsubscribe_trades(t) == <<"UQT", t>>
list_market(market, asset_type, subtype) ==
    IF subtype = <<>> THEN <<"MQC", market, asset_type>>
    ELSE <<"MQC", market, "T", asset_type, "S">> \o subtype
list_brokers(market) == <<"GPN", market>>
subscribe_news(agency) == <<"NEM", "A", agency>>
unsubscribe_news(agency) == <<"UNE", agency>>
get_server_time == <<"GTC">>
quit == <<"QUIT">>

(***************************************************************************)
(* What the threads do: a call of a command of the sink, or an entry of    *)
(* the registry.  The bootstrap asks for the brokers and the catalog; then *)
(* it writes the commands of a ticker and enters them, ticker by ticker.   *)
(***************************************************************************)
Write(words)     == [do |-> "write", what |-> words]
Enter(kind, t)   == [do |-> "enter", what |-> <<kind, t>>]
SubscriptionKind == {"Quote", "BookDetailed", "BookAggregated", "Trades"}

\* One query of each form of MQC_QUERIES.
discovery == <<Write(list_brokers("BOVESPA")), Write(list_market("Bovespa", "1", <<>>)),
               Write(list_market("BMF", "7", <<"130">>))>>

\* The command that makes the server stream a subscription.
command(kind, t) == CASE kind = "Quote"          -> subscribe_quote(t, FALSE)
                      [] kind = "BookDetailed"   -> subscribe_book_detailed(t)
                      [] kind = "BookAggregated" -> subscribe_book_aggregated(t, FALSE)
                      [] kind = "Trades"         -> subscribe_trades(t, <<"50">>)

\* Mutant: a ticker is entered before its commands are written.
subscribe_EntersFirst(t) ==
    LET kinds == IF t \in BookSet THEN <<"Quote", "BookDetailed", "Trades">> ELSE <<"Quote", "Trades">>
    IN  [i \in DOMAIN kinds |-> Enter(kinds[i], t)]
        \o [i \in DOMAIN kinds |-> Write(command(kinds[i], t))]

subscribe(t) ==
    LET kinds == IF t \in BookSet THEN <<"Quote", "BookDetailed", "Trades">> ELSE <<"Quote", "Trades">>
    IN  [i \in DOMAIN kinds |-> Write(command(kinds[i], t))]
        \o [i \in DOMAIN kinds |-> Enter(kinds[i], t)]

run == discovery \o Wire!FlattenSeq([i \in DOMAIN Tickers |-> subscribe(Tickers[i])])

NoLine == [toks |-> <<>>]
NotYet == Err("NotYet")

Init ==
    /\ lock = NoThread
    /\ pc = [t \in Threads |-> "idle"]
    /\ \E other \in [Others -> OtherCommands] :
         calls = [t \in Threads |-> IF t = Orchestrator THEN run ELSE <<Write(other[t])>>]
    /\ socket = TRUE
    /\ partial = <<>>
    /\ received = {}
    /\ registry = {}
    /\ line = NoLine
    /\ got = NotYet

(***************************************************************************)
(* write_line and its callers.                                             *)
(***************************************************************************)
Calling(t, what) == calls[t] # <<>> /\ Head(calls[t]).do = what
Goto(t, where)   == pc' = [pc EXCEPT ![t] = where]
Session          == UNCHANGED <<line, got>>

\* The call returned: the next one, or none of them after an error, whose `?`
\* leaves the caller.
Return(t, ok) == /\ calls' = [calls EXCEPT ![t] = IF ok THEN Tail(calls[t]) ELSE <<>>]
                 /\ Goto(t, "idle")

write_line_lock(t) ==
    /\ pc[t] = "idle" /\ Calling(t, "write")
    /\ lock = NoThread
    /\ lock' = t
    /\ Goto(t, "payload")
    /\ UNCHANGED <<calls, socket, partial, received, registry>> /\ Session

\* Mutant: the mutex is released between the payload and the line break.
write_payload_Unlocks(t) ==
    /\ pc[t] = "payload" /\ socket
    /\ partial' = Append(partial, Head(calls[t]).what)
    /\ lock' = NoThread
    /\ Goto(t, "newline")
    /\ UNCHANGED <<calls, socket, received, registry>> /\ Session

write_payload(t) ==
    /\ pc[t] = "payload" /\ socket
    /\ partial' = Append(partial, Head(calls[t]).what)
    /\ Goto(t, "newline")
    /\ UNCHANGED <<lock, calls, socket, received, registry>> /\ Session

\* The line break, the flush, which does nothing on a socket, and the drop of
\* the guard.
write_newline(t) ==
    /\ pc[t] = "newline" /\ socket
    /\ received' = received \cup {partial}
    /\ partial' = <<>>
    /\ lock' = NoThread
    /\ Return(t, TRUE)
    /\ UNCHANGED <<socket, registry>> /\ Session

\* Mutant: the error path keeps the mutex.
write_failed_KeepsLock(t) ==
    /\ pc[t] \in {"payload", "newline"}
    /\ socket' = FALSE
    /\ partial' \in IF socket /\ pc[t] = "payload" THEN {partial, Append(partial, <<"cut">>)} ELSE {partial}
    /\ Return(t, FALSE)
    /\ UNCHANGED <<lock, received, registry>> /\ Session

\* A write that fails: the guard is dropped on this path too.
write_failed(t) ==
    /\ pc[t] \in {"payload", "newline"}
    /\ socket' = FALSE
    /\ partial' \in IF socket /\ pc[t] = "payload" THEN {partial, Append(partial, <<"cut">>)} ELSE {partial}
    /\ lock' = NoThread
    /\ Return(t, FALSE)
    /\ UNCHANGED <<received, registry>> /\ Session

\* SubscriptionRegistry::add, under its own lock.
add(t) ==
    /\ pc[t] = "idle" /\ Calling(t, "enter")
    /\ registry' = registry \cup {Head(calls[t]).what}
    /\ Return(t, TRUE)
    /\ UNCHANGED <<lock, socket, partial, received>> /\ Session

(***************************************************************************)
(* The server answers what it was asked, and may send an error or a line   *)
(* the client has no command for.  The client parses each line.  Parsing   *)
(* shares no state with the sink, so that lines are sent only when no      *)
(* thread has a call left; that bounds the states.                         *)
(***************************************************************************)
asked(verb) == \E l \in received : \E i \in DOMAIN l : l[i][1] = verb

Answer == "SQT" :> Wire!QuoteLines \cup Wire!DepartingLines @@ "BQT" :> Wire!BookLines
          @@ "SAB" :> Wire!AggBookLines @@ "GQT" :> Wire!TradeLines @@ "MQC" :> Wire!CatalogLines
          @@ "GPN" :> Wire!BrokerLines @@ "NEM" :> Wire!HeadlineLines @@ "GTC" :> Wire!TimeLines

\* The lines the client's commands can bring about.
Solicited == Wire!ErrorLines \cup UNION {Answer[verb] : verb \in DOMAIN Answer}

Unsolicited == Wire!HistoryLines \cup Wire!VapLines \cup Wire!SnapshotLines

QuietSink == \A t \in Threads : calls[t] = <<>>

server_line ==
    /\ socket /\ QuietSink
    /\ line = NoLine \/ got # NotYet
    /\ line' \in Wire!ErrorLines \cup Unsolicited \cup UNION {Answer[v] : v \in {w \in DOMAIN Answer : asked(w)}}
    /\ got' = NotYet
    /\ UNCHANGED <<lock, pc, calls, socket, partial, received, registry>>

client_parse ==
    /\ line # NoLine /\ got = NotYet
    /\ got' = parse_frame(line.toks)
    /\ UNCHANGED <<lock, pc, calls, socket, partial, received, registry, line>>

\* The server closes the connection, at any time and after QUIT.
server_close ==
    /\ socket
    /\ socket' = FALSE
    /\ UNCHANGED <<lock, pc, calls, partial, received, registry, line, got>>

ThreadStep(t) == write_line_lock(t) \/ write_payload(t) \/ write_newline(t) \/ write_failed(t) \/ add(t)

Next == (\E t \in Threads : ThreadStep(t)) \/ server_line \/ client_parse \/ server_close

\* A thread that can run runs; a write ends, because the server reads or the
\* connection breaks.
Spec == Init /\ [][Next]_vars /\ \A t \in Threads : WF_vars(ThreadStep(t))

(***************************************************************************)
(* Properties.                                                             *)
(***************************************************************************)
\* Every variable has its type; a parsed line is an error or a message with
\* exactly the fields of its kind (types.rs).
TypeOK ==
    /\ lock \in Threads \cup {NoThread}
    /\ pc \in [Threads -> {"idle", "payload", "newline"}]
    /\ socket \in BOOLEAN
    /\ registry \subseteq SubscriptionKind \X {Tickers[i] : i \in DOMAIN Tickers}
    /\ got # NotYet => WellFormed(got)

\* The threads of the sink never mix their commands: every line the server
\* gets is the one command that some call wrote, whole (CommandSink::write_line
\* keeps the mutex from the payload to the line break).
CommandsWhole == \A l \in received : Len(l) = 1 /\ l[1] # <<"cut">>

\* The registry never runs ahead of the wire: what it would have resubscribed
\* is what the server has been asked for, whatever call fails on the way
\* (bootstrap::run enters a ticker after its last command was written).
RegistryBehindWire == \A r \in registry : <<command(r[1], r[2])>> \in received

\* Every call of a command returns, on the error paths too: nobody waits for
\* ever for the sink's mutex (write_line drops its guard on every path).
CallsReturn == \A t \in Threads : (calls[t] # <<>>) ~> (calls[t] = <<>>)

\* The result of parsing differs from the message in one field at most.
Contained(r, msg) ==
    r.err = "none" => /\ r.val.kind = msg.kind
                      /\ Cardinality({f \in DOMAIN msg : r.val[f] # msg[f]}) <= 1

\* The parsers read the lines of the protocol as the messages they stand for:
\* the fields are in their places, numbers of every width and form, optional
\* tails, both kinds of trade and of offer included.  Quotes that carry one of
\* the indices 83, 106, 120, 124 and 141 are the exception, as field_type does
\* not give these the type of the table in api.md: they are refused, price and
\* all, or differ in the diff alone.
LinesUnderstood ==
    got # NotYet => IF line \in Wire!DepartingLines THEN Contained(got, line.msg)
                    ELSE got = Ok(line.msg)

\* No line of the protocol is refused.  The code does not keep it: of index 106,
\* in api.md "TickDirection (BMF FIX): `+`, `0+`, `-`, `0-` | String(2)",
\* decode_value takes one byte, and a quote with "0+" or "0-" is refused with
\* all its other changes.
NoLineRefused == got # NotYet => got.err = "none"

Damage == {"", "zz", "18446744073709551616", NotUtf8}

DamageOf(l) == {[l.toks EXCEPT ![i] = d] : d \in Damage, i \in {j \in DOMAIN l.toks : l.own[j]}}

\* A damaged field, emptied, too wide or not a number, is refused or changes
\* that field alone: it never moves the other fields of a line the client's
\* commands bring about (Scanner::next keeps empty tokens in their places).  A
\* line with one of the indices LinesUnderstood excepts is no measure of damage.
DamageContained ==
    got # NotYet /\ line \in Solicited \ Wire!DepartingLines =>
        \A toks \in DamageOf(line) : Contained(parse_frame(toks), line.msg)

\* The same of every line the parsers know, snapshots of trades included.
DamageContainedEverywhere ==
    got # NotYet /\ line \notin Wire!DepartingLines =>
        \A toks \in DamageOf(line) : Contained(parse_frame(toks), line.msg)
=============================================================================
