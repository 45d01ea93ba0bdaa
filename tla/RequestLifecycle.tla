-------------------------- MODULE RequestLifecycle --------------------------
(***************************************************************************)
(* One request through the proxy (proxy_handler and the stream or relay it *)
(* hands the response to): the permits it is served under, the events it   *)
(* emits to the console, the row it leaves in request_logs and the metric  *)
(* that the writer thread stores for it.                                   *)
(*                                                                         *)
(* An action is what runs between two awaits.  The client may go away at   *)
(* any await: the handler's future is dropped there, and with it the       *)
(* permits and the cancellation guard it owns; later the response stream   *)
(* or the relay task owns the permits and answers for the request.         *)
(***************************************************************************)
EXTENDS RequestPermits, Sequences

CONSTANTS
    GatewayTokens,  \* tokens of gateway outlets, which are forwarded as they are
    TakeoverToken,  \* the setting CODEX_SESSION_TOKEN, a session the app made
    QueueLimit      \* capacity of the channel to the metrics writer

ASSUME LifecycleAssumption ==
    /\ GatewayTokens \subseteq Tokens
    /\ TakeoverToken \in Tokens \ GatewayTokens
    /\ QueueLimit \in Nat \ {0}

VARIABLES
    at,        \* the await (or section) the handler is at
    session,   \* the session it was routed to; NoToken passes it through
    armed,     \* its RequestCancellationGuard exists and is armed
    task,      \* what outlives the handler: the response stream, the relay
    carrier,   \* who owns the RequestPermits, the handler or the task
    stream,    \* its UsageTrackingStream
    events,    \* console events with its id, in order
    rows,      \* outcomes of its request_logs rows, in order
    lost,      \* requests with a row that the database refused
    queue,     \* metrics on their way to the writer thread
    metric,    \* the kind stored for it in gateway_request_events
    unmetered  \* requests with a metric dropped: queue full, or not stored

requestVars == <<at, session, armed, task, carrier, stream,
                 events, rows, lost, queue, metric, unmetered>>
vars == <<permitVars, requestVars>>

Places   == {"permits", "catalog", "connect", "body", "send", "collect", "returned"}
Tasks    == {"none", "stream", "relay", "ended"}
Kinds    == {"pending", "ok", "estimated", "upstream_error", "cancelled", "rejected", "ws"}
Outcomes == {"success", "client_error", "upstream_error", "transport_error"}
Signs    == {"marker", "usage"}  \* a stream's completion marker, billable usage

Streams  == [plain : BOOLEAN, detail : BOOLEAN, status : Outcomes \ {"transport_error"},
             sent : SUBSET Signs, seen : SUBSET Signs, truncated : BOOLEAN,
             end : {"open", "eof", "error", "dropped"}]

(* A tracker for a response that starts with this status.                  *)
Tracker(plain, detail, status) ==
    [plain |-> plain, detail |-> detail, status |-> status,
     sent |-> {}, seen |-> {}, truncated |-> FALSE, end |-> "open"]

(* The same tracker later on: what was sent and seen, how it ended.        *)
Tracked(s, sent, seen, truncated, end) ==
    [plain |-> s.plain, detail |-> s.detail, status |-> s.status,
     sent |-> sent, seen |-> seen, truncated |-> truncated, end |-> end]

NoStream == Tracker(TRUE, FALSE, "success")

Init ==
    /\ PermitsInit
    /\ at = [r \in Requests |-> "permits"]
    /\ session = [r \in Requests |-> NoToken]
    /\ armed = [r \in Requests |-> FALSE]
    /\ task = [r \in Requests |-> "none"]
    /\ carrier = [r \in Requests |-> "handler"]
    /\ stream = [r \in Requests |-> NoStream]
    /\ events = [r \in Requests |-> <<>>]
    /\ rows = [r \in Requests |-> <<>>]
    /\ lost = {}
    /\ queue = <<>>
    /\ metric = [r \in Requests |-> "none"]
    /\ unmetered = {}

Routed(r)  == session[r] # NoToken                 \* it has a log_ctx
Gateway(r) == session[r] \in GatewayTokens         \* transparent
Client(r)  == Routed(r) /\ ~Gateway(r)             \* it has a cli_type
Over(r)    == at[r] = "returned" /\ task[r] \in {"none", "ended"}
Serving(r) == \/ at[r] \notin {"permits", "returned"}
              \/ task[r] \in {"stream", "relay"}

----------------------------------------------------------------------------
(* Console events, metrics and log rows *)

(* (Variant: cancellations are counted as requests.)                       *)
CountedAll(kind) == kind # "pending"

Counted(kind) == kind \notin {"pending", "cancelled"}

Silent == UNCHANGED <<events, queue, unmetered, metric>>

(* emit_console: the metric by try_send, then the event.                   *)
Emit(r, kind) ==
    IF kind = "nothing" THEN Silent
    ELSE /\ events' = [events EXCEPT ![r] = Append(@, kind)]
         /\ IF Counted(kind) /\ Len(queue) < QueueLimit
            THEN queue' = Append(queue, [request |-> r, kind |-> kind])
            ELSE UNCHANGED queue
         /\ IF Counted(kind) /\ Len(queue) >= QueueLimit
            THEN unmetered' = unmetered \cup {r}
            ELSE UNCHANGED unmetered
         /\ UNCHANGED metric

(* record_usage, for a request with a log_ctx: the row may not make it.    *)
Record(r, outcome) ==
    IF ~Routed(r) THEN UNCHANGED <<rows, lost>>
    ELSE \/ rows' = [rows EXCEPT ![r] = Append(@, outcome)] /\ UNCHANGED lost
         \/ lost' = lost \cup {r} /\ UNCHANGED rows

NoRow == UNCHANGED <<rows, lost>>

(* The writer thread takes the oldest metric and upserts it, or fails to.  *)
(* (Variant: INSERT OR IGNORE.)                                            *)
StoreMetricIgnore(m) ==
    metric' = [metric EXCEPT ![m.request] = IF @ = "none" THEN m.kind ELSE @]

StoreMetric(m) == metric' = [metric EXCEPT ![m.request] = m.kind]

WriteMetric ==
    /\ queue # <<>>
    /\ queue' = Tail(queue)
    /\ \/ StoreMetric(Head(queue)) /\ UNCHANGED unmetered
       \/ unmetered' = unmetered \cup {Head(queue).request} /\ UNCHANGED metric
    /\ UNCHANGED <<permitVars, at, session, armed, task, carrier, stream, events, rows, lost>>

----------------------------------------------------------------------------
(* Permits: asked for before anything else, dropped by whoever owns them   *)

OnlyPermits == UNCHANGED requestVars

AskPermits(r) ==
    /\ at[r] = "permits"
    /\ \/ \E t \in Tokens \cup {NoToken} : TakeGlobal(r, t) \/ RefuseGlobal(r, t)
       \/ Lookup(r)
       \/ TakeSession(r)
       \/ RefuseSession(r)
    /\ OnlyPermits

(* (Variant: the session permit outlives the request.)                     *)
DropGlobalPermit(r) ==
    /\ \/ stage[r] = "refused"
       \/ at[r] = "returned" /\ (carrier[r] = "handler" \/ task[r] = "ended")
    /\ ReleaseGlobal(r)
    /\ OnlyPermits

DropPermits(r) ==
    /\ \/ stage[r] = "refused"
       \/ at[r] = "returned" /\ (carrier[r] = "handler" \/ task[r] = "ended")
    /\ ReleaseGlobal(r) \/ ReleaseSession(r)
    /\ OnlyPermits

(* The handler returns, with this event (or nothing) and no task behind it.*)
Return(r, kind) ==
    /\ at' = [at EXCEPT ![r] = "returned"]
    /\ armed' = [armed EXCEPT ![r] = FALSE]
    /\ Emit(r, kind)
    /\ UNCHANGED <<permitVars, task, carrier, stream>>

(* A provider credential from a peer on the LAN, or no permit to be had.   *)
TurnAway(r) ==
    /\ at[r] = "permits"
    /\ stage[r] \in {"new", "over"}
    /\ Return(r, "rejected")
    /\ UNCHANGED session
    /\ NoRow

----------------------------------------------------------------------------
(* Routing: from here the request is served *)

AtRouting(r) == at[r] = "permits" /\ stage[r] = "admitted"

(* A token names its session.  Without one the request is passed through,  *)
(* unless it is a Codex request and the takeover session exists.           *)
RoutesOf(r) == IF token[r] = NoToken THEN {NoToken, TakeoverToken} ELSE {token[r]}

(* No credential, no usable session, a policy that forbids it.  One failed *)
(* read (the managed instance's row) is answered without an event.         *)
RefuseRoute(r) ==
    /\ AtRouting(r)
    /\ \E kind \in {"rejected", "nothing"} : Return(r, kind)
    /\ UNCHANGED session
    /\ NoRow

(* GET /v1/models at a gateway with selected models is answered locally.   *)
ListSelectedModels(r) ==
    /\ AtRouting(r)
    /\ token[r] \in GatewayTokens
    /\ session' = [session EXCEPT ![r] = token[r]]
    /\ Return(r, "ok")
    /\ NoRow

(* A discovery request of a session, a WebSocket upgrade, or any other.    *)
TakeRoute(r) ==
    /\ AtRouting(r)
    /\ \E s \in RoutesOf(r), place \in {"catalog", "connect", "body"} :
        /\ place = "catalog" => s # NoToken
        /\ session' = [session EXCEPT ![r] = s]
        /\ at' = [at EXCEPT ![r] = place]
    /\ Silent
    /\ NoRow
    /\ UNCHANGED <<permitVars, armed, task, carrier, stream>>

CatalogAnswered(r) ==
    /\ at[r] = "catalog"
    /\ \E kind \in {"ok", "upstream_error"} : Return(r, kind)
    /\ UNCHANGED session
    /\ NoRow

----------------------------------------------------------------------------
(* WebSockets *)

ConnectFailed(r) ==
    /\ at[r] = "connect"
    /\ \E kind \in {"rejected", "upstream_error"} : Return(r, kind)
    /\ UNCHANGED session
    /\ NoRow

(* (Variant: the relay task does not take the permits along.)              *)
UpgradeWithoutPermits(r) ==
    /\ at[r] = "connect"
    /\ at' = [at EXCEPT ![r] = "returned"]
    /\ task' = [task EXCEPT ![r] = "relay"]
    /\ Emit(r, "ws")
    /\ NoRow
    /\ UNCHANGED <<permitVars, session, armed, carrier, stream>>

(* ws_relay outlives the handler's future and takes the permits along.     *)
Upgrade(r) ==
    /\ at[r] = "connect"
    /\ at' = [at EXCEPT ![r] = "returned"]
    /\ task' = [task EXCEPT ![r] = "relay"]
    /\ carrier' = [carrier EXCEPT ![r] = "task"]
    /\ Emit(r, "ws")
    /\ NoRow
    /\ UNCHANGED <<permitVars, session, armed, stream>>

(* A close from either side (or an upgrade that never completes) needs no  *)
(* further event; a failure does, and so does a gateway's changed policy.  *)
RelayEnds(r) ==
    /\ task[r] = "relay"
    /\ \E kind \in {"nothing", "upstream_error", "cancelled"}
                   \cup (IF Gateway(r) THEN {"rejected"} ELSE {}) : Emit(r, kind)
    /\ task' = [task EXCEPT ![r] = "ended"]
    /\ NoRow
    /\ UNCHANGED <<permitVars, at, session, armed, carrier, stream>>

----------------------------------------------------------------------------
(* HTTP requests *)

(* Headers that cannot be built, a body too large or against the policy,   *)
(* no client for the provider's proxy.                                     *)
RefuseBody(r) ==
    /\ at[r] = "body"
    /\ Return(r, "rejected")
    /\ UNCHANGED session
    /\ NoRow

Dispatch(r) ==
    /\ at[r] = "body"
    /\ at' = [at EXCEPT ![r] = "send"]
    /\ armed' = [armed EXCEPT ![r] = TRUE]
    /\ Emit(r, "pending")
    /\ NoRow
    /\ UNCHANGED <<permitVars, session, task, carrier, stream>>

(* The request could not be sent, the answer is declared too long, breaks  *)
(* off, grows too long or cannot be decoded.                               *)
UpstreamFailed(r) ==
    /\ at[r] \in {"send", "collect"}
    /\ Return(r, "upstream_error")
    /\ Record(r, "transport_error")
    /\ UNCHANGED session

(* count_tokens, which this upstream does not have, is estimated locally.  *)
EstimateTokens(r) ==
    /\ at[r] = "send"
    /\ Client(r)
    /\ Return(r, "estimated")
    /\ UNCHANGED session
    /\ NoRow

(* A body that is not a stream is collected before it is passed on.        *)
Collect(r) ==
    /\ at[r] = "send"
    /\ at' = [at EXCEPT ![r] = "collect"]
    /\ Silent
    /\ NoRow
    /\ UNCHANGED <<permitVars, session, armed, task, carrier, stream>>

(* invalid: a classifier (auto mode) was answered 2xx with no message.     *)
(* (Variant: the row knows of the invalid answer, the event does not.)     *)
AnswerIgnoresInvalid(r, outcome, billable, invalid) ==
    /\ Return(r, IF outcome = "success" THEN "ok" ELSE "upstream_error")
    /\ IF billable \/ outcome # "success" \/ invalid
       THEN Record(r, IF invalid THEN "upstream_error" ELSE outcome)
       ELSE NoRow

Answer(r, outcome, billable, invalid) ==
    /\ Return(r, IF outcome = "success" /\ ~invalid THEN "ok" ELSE "upstream_error")
    /\ IF billable \/ outcome # "success" \/ invalid
       THEN Record(r, IF invalid THEN "upstream_error" ELSE outcome)
       ELSE NoRow

Collected(r) ==
    /\ at[r] = "collect"
    /\ \E outcome \in Outcomes \ {"transport_error"}, billable, invalid \in BOOLEAN :
        /\ invalid => Client(r) /\ outcome = "success" /\ ~billable
        /\ Answer(r, outcome, billable, invalid)
    /\ UNCHANGED session

(* The client is gone: the future is dropped at the await it is at, and    *)
(* the guard speaks up if it is armed.                                     *)
(* (Variant: the guard was never given the log context.)                   *)
HandlerDroppedUnlogged(r) ==
    /\ at[r] \in {"catalog", "connect", "body", "send", "collect"}
    /\ Return(r, IF armed[r] THEN "cancelled" ELSE "nothing")
    /\ NoRow
    /\ UNCHANGED session

HandlerDropped(r) ==
    /\ at[r] \in {"catalog", "connect", "body", "send", "collect"}
    /\ Return(r, IF armed[r] THEN "cancelled" ELSE "nothing")
    /\ IF armed[r] THEN Record(r, "transport_error") ELSE NoRow
    /\ UNCHANGED session

----------------------------------------------------------------------------
(* Streamed responses *)

(* (Variant: the guard is still armed when the handler returns.)           *)
StartStreamArmed(r) ==
    /\ at[r] = "send"
    /\ \E plain, detail \in BOOLEAN, status \in Outcomes \ {"transport_error"} :
        stream' = [stream EXCEPT ![r] = Tracker(plain, detail, status)]
    /\ at' = [at EXCEPT ![r] = "returned"]
    /\ armed' = [armed EXCEPT ![r] = FALSE]
    /\ task' = [task EXCEPT ![r] = "stream"]
    /\ carrier' = [carrier EXCEPT ![r] = "task"]
    /\ Emit(r, "cancelled")
    /\ Record(r, "transport_error")
    /\ UNCHANGED <<permitVars, session>>

(* The tracking stream takes over the permits and the duty to answer for   *)
(* the request; detail mode is as it was at dispatch.                      *)
StartStream(r) ==
    /\ at[r] = "send"
    /\ \E plain, detail \in BOOLEAN, status \in Outcomes \ {"transport_error"} :
        stream' = [stream EXCEPT ![r] = Tracker(plain, detail, status)]
    /\ at' = [at EXCEPT ![r] = "returned"]
    /\ armed' = [armed EXCEPT ![r] = FALSE]
    /\ task' = [task EXCEPT ![r] = "stream"]
    /\ carrier' = [carrier EXCEPT ![r] = "task"]
    /\ Silent
    /\ NoRow
    /\ UNCHANGED <<permitVars, session>>

(* What is known of the stream after a chunk: a plain one is parsed as it  *)
(* passes; a compressed one is captured if it is logged or shown in detail,*)
(* up to a limit beyond which the whole capture is given up.               *)
Observations(r, sent) ==
    LET s == stream[r]
        seen(signs) == Tracked(s, s.sent \cup sent, signs, s.truncated, "open")
    IN  IF s.plain THEN {seen(s.seen \cup sent)}
        ELSE IF s.truncated \/ ~(Routed(r) \/ s.detail) THEN {seen(s.seen)}
        ELSE {seen(s.seen \cup sent), Tracked(s, s.sent \cup sent, {}, TRUE, "open")}

StreamChunk(r) ==
    /\ task[r] = "stream"
    /\ \E sent \in SUBSET Signs : \E s \in Observations(r, sent) :
        stream' = [stream EXCEPT ![r] = s]
    /\ Silent
    /\ NoRow
    /\ UNCHANGED <<permitVars, at, session, armed, task, carrier>>

(* stream_terminal                                                         *)
(* (Variant: any 2xx stream with usage is a success.)                      *)
TerminalUnmarked(status, seen) ==
    IF status # "success" THEN status
    ELSE IF "usage" \in seen THEN "success" ELSE "transport_error"

Terminal(status, seen) ==
    IF status # "success" THEN status
    ELSE IF seen = Signs THEN "success" ELSE "transport_error"

(* What the capture yields: a compressed one may turn out undecodable.     *)
Decodings(s) == IF s.plain THEN {s.seen} ELSE {s.seen, {}}

(* The stream has ended: its tracker frees what it captured.               *)
EndStream(r, end) ==
    /\ task[r] = "stream"
    /\ task' = [task EXCEPT ![r] = "ended"]
    /\ stream' = [stream EXCEPT ![r] = Tracked(@, @.sent, {}, FALSE, end)]
    /\ UNCHANGED <<permitVars, at, session, armed, carrier>>

(* (Variant: the event is classified before the capture is decoded.)       *)
StreamCompletedEarly(r) ==
    /\ EndStream(r, "eof")
    /\ \E seen \in Decodings(stream[r]) :
        /\ Record(r, Terminal(stream[r].status, seen))
        /\ Emit(r, IF Terminal(stream[r].status, IF stream[r].plain THEN seen ELSE {}) = "success"
                     THEN "ok" ELSE "upstream_error")

StreamCompleted(r) ==
    /\ EndStream(r, "eof")
    /\ \E seen \in Decodings(stream[r]) :
        LET outcome == Terminal(stream[r].status, seen) IN
        /\ Record(r, outcome)
        /\ Emit(r, IF outcome = "success" THEN "ok" ELSE "upstream_error")

StreamFailed(r) ==
    /\ EndStream(r, "error")
    /\ Record(r, "transport_error")
    /\ Emit(r, "upstream_error")

(* (Variant: an outcome that request_logs does not know.)                  *)
StreamDroppedAsCancelled(r) ==
    /\ EndStream(r, "dropped")
    /\ Record(r, "cancelled")
    /\ Emit(r, "cancelled")

StreamDropped(r) ==
    /\ EndStream(r, "dropped")
    /\ Record(r, "transport_error")
    /\ Emit(r, "cancelled")

----------------------------------------------------------------------------

HandlerStep(r) ==
    \/ TurnAway(r)
    \/ RefuseRoute(r)
    \/ ListSelectedModels(r)
    \/ TakeRoute(r)
    \/ CatalogAnswered(r)
    \/ ConnectFailed(r)
    \/ Upgrade(r)
    \/ RefuseBody(r)
    \/ Dispatch(r)
    \/ UpstreamFailed(r)
    \/ EstimateTokens(r)
    \/ Collect(r)
    \/ Collected(r)
    \/ HandlerDropped(r)
    \/ StartStream(r)

TaskStep(r) ==
    \/ RelayEnds(r)
    \/ StreamChunk(r)
    \/ StreamCompleted(r)
    \/ StreamFailed(r)
    \/ StreamDropped(r)

Next ==
    \/ \E r \in Requests : AskPermits(r) \/ DropPermits(r) \/ HandlerStep(r) \/ TaskStep(r)
    \/ WriteMetric

Spec == Init /\ [][Next]_vars

(* Destructors run to their end.                                           *)
Fairness == \A r \in Requests : WF_vars(DropPermits(r))

FairSpec == Spec /\ Fairness

----------------------------------------------------------------------------
(* Properties *)

TypeOK ==
    /\ PermitsTypeOK
    /\ at \in [Requests -> Places]
    /\ session \in [Requests -> Tokens \cup {NoToken}]
    /\ armed \in [Requests -> BOOLEAN]
    /\ task \in [Requests -> Tasks]
    /\ carrier \in [Requests -> {"handler", "task"}]
    /\ stream \in [Requests -> Streams]
    /\ events \in [Requests -> Seq(Kinds)]
    /\ rows \in [Requests -> Seq(Outcomes)]
    /\ lost \subseteq Requests
    /\ queue \in Seq([request : Requests, kind : Kinds])
    /\ metric \in [Requests -> Kinds \cup {"none"}]
    /\ unmetered \subseteq Requests

(* "Permits are held for the whole request and moved into the              *)
(* streaming/WebSocket task": the requests being served, streams and       *)
(* relays included, stay within both limits.                               *)
ServingWithinLimits ==
    /\ Cardinality({r \in Requests : Serving(r)}) <= GlobalLimit
    /\ \A t \in Tokens :
        Cardinality({r \in Requests : Serving(r) /\ token[r] = t}) <= SessionLimit

(* Why: whoever answers for the request still owns its permits.            *)
PermitsFollowTheWork ==
    \A r \in Requests :
        /\ Serving(r) => stage[r] = "admitted"
        /\ task[r] # "none" => at[r] = "returned"
        /\ task[r] \in {"stream", "relay"} => carrier[r] = "task"

(* The console never leaves a request pending or answers it twice: what    *)
(* was shown as pending gets exactly one more event, when it is over.      *)
Answers == {"ok", "estimated", "upstream_error", "cancelled"}

Histories == {<<>>}
    \cup {<<kind>> : kind \in Kinds \ {"pending"}}
    \cup {<<"pending", kind>> : kind \in Answers}
    \cup {<<"ws", kind>> : kind \in {"upstream_error", "cancelled", "rejected"}}

ConsoleAnswersOnce ==
    \A r \in Requests :
        events[r] \in IF Over(r) THEN Histories ELSE {<<>>, <<"pending">>, <<"ws">>}

(* "So the console event and the request log agree": a request leaves at   *)
(* most one row, only once it was dispatched and is over, and the row says *)
(* success exactly when the console does.                                  *)
Agreeing == {<<"success", "ok">>,
             <<"client_error", "upstream_error">>,
             <<"upstream_error", "upstream_error">>,
             <<"transport_error", "upstream_error">>,
             <<"transport_error", "cancelled">>}

ConsoleAndLogAgree ==
    \A r \in Requests : rows[r] # <<>> =>
        /\ Over(r) /\ Routed(r)
        /\ \E p \in Agreeing : rows[r] = <<p[1]>> /\ events[r] = <<"pending", p[2]>>

(* "Any failure: record": a dispatched request of a session that ends in   *)
(* anything but an answer has its row, unless the database refused it.     *)
FailuresAreLogged ==
    \A r \in Requests :
        (/\ Routed(r) /\ r \notin lost
         /\ events[r] \in {<<"pending", "upstream_error">>, <<"pending", "cancelled">>})
        => rows[r] # <<>>

(* Why: the console knows how far the handler is, and nothing is logged    *)
(* before the request is over.                                             *)
AnswersFollowTheWork ==
    \A r \in Requests :
        /\ at[r] \in {"permits", "catalog", "connect", "body"} => events[r] = <<>>
        /\ at[r] \in {"send", "collect"} => events[r] = <<"pending">>
        /\ armed[r] <=> at[r] \in {"send", "collect"}
        /\ task[r] = "stream" => events[r] = <<"pending">>
        /\ task[r] = "relay" => events[r] = <<"ws">>
        /\ ~Over(r) => rows[r] = <<>>

RequestInv ==
    /\ TypeOK
    /\ PermitsFollowTheWork
    /\ AnswersFollowTheWork
    /\ ConsoleAnswersOnce
    /\ ConsoleAndLogAgree
    /\ FailuresAreLogged

(* A stream is shown as a success only if the upstream completed it: 2xx,  *)
(* with completion marker and usage, up to its end.                        *)
SuccessMeansComplete ==
    \A r \in Requests :
        (task[r] = "ended" /\ events[r] = <<"pending", "ok">>)
        => stream[r].status = "success" /\ stream[r].sent = Signs /\ stream[r].end = "eof"

(* Cancellations do not count, and once its metrics have been written the  *)
(* stored one is the last that counts: a WebSocket that fails does not     *)
(* stay a success.                                                         *)
LatestCounted(history, kind) ==
    LET counts(i) == history[i] \notin {"pending", "cancelled"} IN
    \/ kind = "none" /\ \A i \in 1 .. Len(history) : ~counts(i)
    \/ \E i \in 1 .. Len(history) :
         history[i] = kind /\ counts(i) /\ \A j \in i + 1 .. Len(history) : ~counts(j)

MetricsAreLatest ==
    \A r \in Requests :
        (r \notin unmetered /\ \A i \in 1 .. Len(queue) : queue[i].request # r)
        => LatestCounted(events[r], metric[r])

(* What a request held is given back once it is over.                      *)
PermitsReturn ==
    \A r \in Requests : Over(r) ~> ~HasGlobal(r) /\ ~HasSession(r)

(* "The console still needs the completion marker to avoid reporting a     *)
(* successful 200 stream as truncated": a stream passed through that was   *)
(* completed is shown as a success.                                        *)
CompletedStreamsSucceed ==
    \A r \in Requests :
        (/\ task[r] = "ended" /\ ~Routed(r)
         /\ stream[r].status = "success" /\ stream[r].sent = Signs /\ stream[r].end = "eof")
        => events[r] = <<"pending", "ok">>

(* "Per-session semaphore 16": no session serves more at once, whichever   *)
(* way its requests were routed to it.                                     *)
SessionsWithinLimits ==
    \A t \in Tokens :
        Cardinality({r \in Requests : Serving(r) /\ session[r] = t}) <= SessionLimit
=============================================================================
