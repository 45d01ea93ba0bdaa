---------------------- MODULE RequestLifecycle_proofs ----------------------
(* Proofs about RequestLifecycle: it uses the permits as RequestPermits    *)
(* prescribes, so the limits hold for it; and RequestInv is inductive.     *)
EXTENDS RequestLifecycle, RequestPermits_proofs, SequenceTheorems

----------------------------------------------------------------------------
(* The permits *)

LEMMA PermitsRefinedInitially == Init => PermitsInit
  BY DEF Init

LEMMA PermitsRefinedStep == [Next]_vars => [PermitsNext]_permitVars
<1> SUFFICES ASSUME [Next]_vars PROVE [PermitsNext]_permitVars
  OBVIOUS
<1>1. ASSUME NEW r \in Requests, AskPermits(r) PROVE PermitsNext
  BY <1>1 DEF AskPermits, PermitsNext
<1>2. ASSUME NEW r \in Requests, DropPermits(r) PROVE PermitsNext
  BY <1>2 DEF DropPermits, PermitsNext
<1>3. ASSUME NEW r \in Requests, HandlerStep(r) PROVE UNCHANGED permitVars
  BY <1>3 DEF HandlerStep, TurnAway, RefuseRoute, ListSelectedModels, TakeRoute, CatalogAnswered,
              ConnectFailed, Upgrade, RefuseBody, Dispatch, UpstreamFailed, EstimateTokens,
              Collect, Collected, Answer, HandlerDropped, StartStream, Return
<1>4. ASSUME NEW r \in Requests, TaskStep(r) PROVE UNCHANGED permitVars
  BY <1>4 DEF TaskStep, RelayEnds, StreamChunk, StreamCompleted, StreamFailed, StreamDropped,
              EndStream
<1>5. ASSUME WriteMetric PROVE UNCHANGED permitVars
  BY <1>5 DEF WriteMetric
<1>6. ASSUME UNCHANGED vars PROVE UNCHANGED permitVars
  BY <1>6 DEF vars
<1> QED BY <1>1, <1>2, <1>3, <1>4, <1>5, <1>6 DEF Next

(* The handler, its streams and relays ask for permits and drop them the   *)
(* way RequestPermits says, and never touch them otherwise.                *)
THEOREM PermitsRefined == Spec => PermitsSpec
  BY PermitsRefinedInitially, PermitsRefinedStep, PTL DEF Spec, PermitsSpec

(* So whatever a request does, the limits hold.                            *)
THEOREM LimitsHoldForRequests == Spec => []ServedWithinLimits
  BY PermitsRefined, LimitsHold, PTL

----------------------------------------------------------------------------
(* RequestInv, request by request *)

RequestOK(r) ==
    /\ Serving(r) => stage[r] = "admitted"
    /\ task[r] # "none" => at[r] = "returned"
    /\ task[r] \in {"stream", "relay"} => carrier[r] = "task"
    /\ at[r] \in {"permits", "catalog", "connect", "body"} => events[r] = <<>>
    /\ at[r] \in {"send", "collect"} => events[r] = <<"pending">>
    /\ armed[r] <=> at[r] \in {"send", "collect"}
    /\ task[r] = "stream" => events[r] = <<"pending">>
    /\ task[r] = "relay" => events[r] = <<"ws">>
    /\ ~Over(r) => rows[r] = <<>>
    /\ events[r] \in IF Over(r) THEN Histories ELSE {<<>>, <<"pending">>, <<"ws">>}
    /\ rows[r] # <<>> =>
         /\ Over(r) /\ Routed(r)
         /\ \E p \in Agreeing : rows[r] = <<p[1]>> /\ events[r] = <<"pending", p[2]>>
    /\ (/\ Routed(r) /\ r \notin lost
        /\ events[r] \in {<<"pending", "upstream_error">>, <<"pending", "cancelled">>})
       => rows[r] # <<>>

LEMMA InvAtRequest ==
    ASSUME RequestInv, NEW r \in Requests
    PROVE  RequestOK(r)
  BY DEF RequestInv, RequestOK, PermitsFollowTheWork, AnswersFollowTheWork,
         ConsoleAnswersOnce, ConsoleAndLogAgree, FailuresAreLogged

LEMMA InvFromRequests ==
    ASSUME TypeOK', \A r \in Requests : RequestOK(r)'
    PROVE  RequestInv'
  BY DEF RequestInv, RequestOK, PermitsFollowTheWork, AnswersFollowTheWork,
         ConsoleAnswersOnce, ConsoleAndLogAgree, FailuresAreLogged

(* A request that a step does not touch stays as it is.                    *)
LEMMA RequestUntouched ==
    ASSUME RequestInv, NEW q \in Requests,
           stage'[q] = stage[q], at'[q] = at[q], session'[q] = session[q],
           armed'[q] = armed[q], task'[q] = task[q], carrier'[q] = carrier[q],
           events'[q] = events[q], rows'[q] = rows[q], q \in lost => q \in lost'
    PROVE  RequestOK(q)'
<1>1. RequestOK(q)
  BY InvAtRequest
<1> QED BY <1>1 DEF RequestOK, Serving, Over, Routed

----------------------------------------------------------------------------
(* Events, metrics and rows *)

MetricsTypeOK ==
    /\ queue \in Seq([request : Requests, kind : Kinds])
    /\ metric \in [Requests -> Kinds \cup {"none"}]
    /\ unmetered \subseteq Requests

LEMMA EmitEffect ==
    ASSUME TypeOK, NEW r \in Requests, NEW kind \in Kinds \cup {"nothing"}, Emit(r, kind)
    PROVE  /\ events' \in [Requests -> Seq(Kinds)]
           /\ events'[r] = IF kind = "nothing" THEN events[r] ELSE Append(events[r], kind)
           /\ \A q \in Requests : q # r => events'[q] = events[q]
           /\ MetricsTypeOK'
<1>1. CASE kind = "nothing"
  BY <1>1 DEF Emit, Silent, TypeOK, MetricsTypeOK
<1>2. CASE kind # "nothing"
  <2>1. /\ kind \in Kinds
        /\ events' = [events EXCEPT ![r] = Append(@, kind)]
        /\ queue' \in {queue, Append(queue, [request |-> r, kind |-> kind])}
        /\ unmetered' \in {unmetered, unmetered \cup {r}}
        /\ metric' = metric
    BY <1>2 DEF Emit
  <2>2. /\ events' \in [Requests -> Seq(Kinds)]
        /\ events'[r] = Append(events[r], kind)
        /\ \A q \in Requests : q # r => events'[q] = events[q]
    BY <2>1 DEF TypeOK
  <2>3. MetricsTypeOK'
    <3>1. [request |-> r, kind |-> kind] \in [request : Requests, kind : Kinds]
      BY <2>1
    <3> DEFINE M == [request : Requests, kind : Kinds]
    <3>2. queue \in Seq(M) /\ [request |-> r, kind |-> kind] \in M
      BY <3>1 DEF TypeOK
    <3>3. queue' \in Seq(M)
      <4> HIDE DEF M
      <4> QED BY <2>1, <3>2
    <3> QED BY <2>1, <3>3 DEF TypeOK, MetricsTypeOK
  <2> QED BY <1>2, <2>2, <2>3
<1> QED BY <1>1, <1>2

LEMMA SilentEffect ==
    ASSUME TypeOK, Silent
    PROVE  events' = events /\ MetricsTypeOK'
  BY DEF Silent, TypeOK, MetricsTypeOK

LEMMA RecordEffect ==
    ASSUME TypeOK, NEW r \in Requests, NEW outcome \in Outcomes, Record(r, outcome)
    PROVE  /\ rows' \in [Requests -> Seq(Outcomes)]
           /\ lost' \subseteq Requests
           /\ \A q \in Requests : q # r => rows'[q] = rows[q]
           /\ lost \subseteq lost'
           /\ ~Routed(r) => rows'[r] = rows[r]
           /\ Routed(r) => \/ rows'[r] = Append(rows[r], outcome)
                           \/ rows'[r] = rows[r] /\ r \in lost'
<1>0. rows \in [Requests -> Seq(Outcomes)] /\ lost \subseteq Requests
  BY DEF TypeOK
<1>1. CASE rows' = rows /\ lost' = lost /\ ~Routed(r)
  BY <1>0, <1>1
<1>2. CASE rows' = [rows EXCEPT ![r] = Append(@, outcome)] /\ lost' = lost /\ Routed(r)
  <2>1. Append(rows[r], outcome) \in Seq(Outcomes)
    BY <1>0
  <2> QED BY <1>0, <1>2, <2>1
<1>3. CASE rows' = rows /\ lost' = lost \cup {r} /\ Routed(r)
  BY <1>0, <1>3
<1> QED BY <1>1, <1>2, <1>3 DEF Record

LEMMA NoRowEffect ==
    ASSUME TypeOK, NoRow
    PROVE  /\ rows' = rows /\ lost' = lost
           /\ rows' \in [Requests -> Seq(Outcomes)]
           /\ lost' \subseteq Requests
  BY DEF NoRow, TypeOK

----------------------------------------------------------------------------
(* Steps of the handler *)

(* A handler that returns before it dispatched anything, with one event or *)
(* none, and no row.                                                       *)
LEMMA EarlyReturnKeeps ==
    ASSUME RequestInv, NEW r \in Requests,
           at[r] \in {"permits", "catalog", "connect", "body"},
           NEW kind \in (Kinds \ {"pending"}) \cup {"nothing"}, Return(r, kind),
           session' \in [Requests -> Tokens \cup {NoToken}],
           \A q \in Requests : q # r => session'[q] = session[q],
           NoRow
    PROVE  RequestInv'
<1>1. TypeOK
  BY DEF RequestInv
<1>2. /\ at' = [at EXCEPT ![r] = "returned"]
      /\ armed' = [armed EXCEPT ![r] = FALSE]
      /\ Emit(r, kind)
      /\ stage' = stage /\ PermitsTypeOK' /\ task' = task /\ carrier' = carrier /\ stream' = stream
  BY <1>1 DEF Return, permitVars, TypeOK, PermitsTypeOK, Entries
<1>3. /\ at' \in [Requests -> Places] /\ at'[r] = "returned"
      /\ armed' \in [Requests -> BOOLEAN] /\ armed'[r] = FALSE
      /\ \A q \in Requests : q # r => at'[q] = at[q] /\ armed'[q] = armed[q]
  BY <1>1, <1>2 DEF TypeOK, Places
<1>4. TypeOK'
  BY <1>1, <1>2, <1>3, EmitEffect, NoRowEffect DEF TypeOK, MetricsTypeOK
<1>5. RequestOK(r)
  BY InvAtRequest
<1>6. /\ task[r] = "none" /\ rows[r] = <<>> /\ events[r] = <<>>
  BY <1>1, <1>5 DEF RequestOK, Over, TypeOK, Tasks
<1>7. events'[r] = <<>> \/ \E k \in Kinds \ {"pending"} : events'[r] = <<k>>
  <2>1. events'[r] = IF kind = "nothing" THEN <<>> ELSE Append(<<>>, kind)
    BY <1>1, <1>2, <1>6, EmitEffect
  <2>2. kind # "nothing" => kind \in Kinds \ {"pending"}
    OBVIOUS
  <2>3. Append(<<>>, kind) = <<kind>>
    OBVIOUS
  <2> QED BY <2>1, <2>2, <2>3
<1>8. rows'[r] = <<>>
  BY <1>1, <1>6, NoRowEffect
<1>9. RequestOK(r)'
  <2>1. Over(r)' /\ ~Serving(r)'
    BY <1>2, <1>3, <1>6 DEF Over, Serving
  <2>2. events'[r] \in Histories
    BY <1>7 DEF Histories
  <2>3. events'[r] \notin {<<"pending", "upstream_error">>, <<"pending", "cancelled">>}
    BY <1>7
  <2> QED BY <1>2, <1>3, <1>6, <1>8, <2>1, <2>2, <2>3 DEF RequestOK
<1>10. ASSUME NEW q \in Requests, q # r PROVE RequestOK(q)'
  BY <1>1, <1>2, <1>3, <1>10, EmitEffect, NoRowEffect, RequestUntouched
<1> QED BY <1>4, <1>9, <1>10, InvFromRequests

(* A second element, said as Append and as a tuple.                        *)
LEMMA AppendSecond ==
    ASSUME NEW S, NEW a \in S, NEW b \in S
    PROVE  Append(<<a>>, b) = <<a, b>>
<1> DEFINE s == Append(<<a>>, b)
<1> DEFINE t == <<a, b>>
<1>1. s \in Seq(S) /\ Len(s) = 2 /\ s[1] = a /\ s[2] = b
  OBVIOUS
<1>2. t \in Seq(S) /\ Len(t) = 2 /\ t[1] = a /\ t[2] = b
  OBVIOUS
<1> HIDE DEF s, t
<1>3. \A i \in 1 .. Len(s) : s[i] = t[i]
  <2>1. \A i \in 1 .. Len(s) : i = 1 \/ i = 2
    BY <1>1
  <2> QED BY <2>1, <1>1, <1>2
<1>4. s = t
  BY <1>1, <1>2, <1>3, SeqEqual
<1> QED BY <1>4 DEF s, t

(* What a dispatched request may leave behind when it is answered: no row  *)
(* for an answer, or the row that agrees with the event.                   *)
LeavesRow(r, kind) ==
    \/ NoRow /\ kind \in {"ok", "estimated"}
    \/ \E outcome \in Outcomes : <<outcome, kind>> \in Agreeing /\ Record(r, outcome)

LEMMA LeavesRowEffect ==
    ASSUME TypeOK, NEW r \in Requests, NEW kind \in Answers, LeavesRow(r, kind),
           rows[r] = <<>>
    PROVE  /\ rows' \in [Requests -> Seq(Outcomes)]
           /\ lost' \subseteq Requests
           /\ \A q \in Requests : q # r => rows'[q] = rows[q]
           /\ lost \subseteq lost'
           /\ \/ /\ rows'[r] = <<>>
                 /\ ~Routed(r) \/ r \in lost' \/ kind \in {"ok", "estimated"}
              \/ /\ Routed(r)
                 /\ \E p \in Agreeing : rows'[r] = <<p[1]>> /\ p[2] = kind
<1>1. CASE NoRow /\ kind \in {"ok", "estimated"}
  BY <1>1, NoRowEffect
<1>2. ASSUME NEW outcome \in Outcomes, <<outcome, kind>> \in Agreeing, Record(r, outcome)
      PROVE  /\ rows' \in [Requests -> Seq(Outcomes)]
             /\ lost' \subseteq Requests
             /\ \A q \in Requests : q # r => rows'[q] = rows[q]
             /\ lost \subseteq lost'
             /\ \/ /\ rows'[r] = <<>>
                   /\ ~Routed(r) \/ r \in lost' \/ kind \in {"ok", "estimated"}
                \/ /\ Routed(r)
                   /\ \E p \in Agreeing : rows'[r] = <<p[1]>> /\ p[2] = kind
  <2>1. Append(<<>>, outcome) = <<outcome>>
    OBVIOUS
  <2>2. /\ rows' \in [Requests -> Seq(Outcomes)]
        /\ lost' \subseteq Requests
        /\ \A q \in Requests : q # r => rows'[q] = rows[q]
        /\ lost \subseteq lost'
        /\ ~Routed(r) => rows'[r] = <<>>
        /\ Routed(r) => rows'[r] = <<outcome>> \/ (rows'[r] = <<>> /\ r \in lost')
    BY <1>2, <2>1, RecordEffect
  <2>3. rows'[r] = <<outcome>> => \E p \in Agreeing : rows'[r] = <<p[1]>> /\ p[2] = kind
    BY <1>2
  <2> QED BY <2>2, <2>3
<1> QED BY <1>1, <1>2 DEF LeavesRow

(* Once answered, a dispatched request is as it should be.                 *)
LEMMA AnsweredOK ==
    ASSUME NEW r \in Requests, NEW kind \in Answers,
           at'[r] = "returned", armed'[r] = FALSE, task'[r] \in {"none", "ended"},
           events'[r] = <<"pending", kind>>,
           Routed(r)' <=> Routed(r),
           \/ /\ rows'[r] = <<>>
              /\ ~Routed(r) \/ r \in lost' \/ kind \in {"ok", "estimated"}
           \/ /\ Routed(r)
              /\ \E p \in Agreeing : rows'[r] = <<p[1]>> /\ p[2] = kind
    PROVE  RequestOK(r)'
<1>1. Over(r)' /\ ~Serving(r)'
  BY DEF Over, Serving
<1>2. events'[r] \in Histories
  BY DEF Histories
<1>3. rows'[r] # <<>> =>
        /\ Routed(r)'
        /\ \E p \in Agreeing : rows'[r] = <<p[1]>> /\ events'[r] = <<"pending", p[2]>>
  OBVIOUS
<1>4. (/\ Routed(r)' /\ r \notin lost'
       /\ events'[r] \in {<<"pending", "upstream_error">>, <<"pending", "cancelled">>})
      => rows'[r] # <<>>
  <2>1. events'[r] \in {<<"pending", "upstream_error">>, <<"pending", "cancelled">>}
        => kind \notin {"ok", "estimated"}
    OBVIOUS
  <2> QED BY <2>1
<1>5. \A p : events'[r] # <<p>>
  OBVIOUS
<1>6. events'[r] # <<>>
  OBVIOUS
<1> QED BY <1>1, <1>2, <1>3, <1>4, <1>5, <1>6 DEF RequestOK

(* A handler that returns after dispatch.                                  *)
LEMMA LateReturnKeeps ==
    ASSUME RequestInv, NEW r \in Requests, at[r] \in {"send", "collect"},
           NEW kind \in Answers, Return(r, kind), UNCHANGED session, LeavesRow(r, kind)
    PROVE  RequestInv'
<1>1. TypeOK /\ kind \in Kinds /\ kind # "nothing"
  BY DEF RequestInv, Answers, Kinds
<1>2. /\ at' = [at EXCEPT ![r] = "returned"]
      /\ armed' = [armed EXCEPT ![r] = FALSE]
      /\ Emit(r, kind)
      /\ stage' = stage /\ PermitsTypeOK' /\ task' = task /\ carrier' = carrier /\ stream' = stream
  BY <1>1 DEF Return, permitVars, TypeOK, PermitsTypeOK, Entries
<1>3. /\ at' \in [Requests -> Places] /\ at'[r] = "returned"
      /\ armed' \in [Requests -> BOOLEAN] /\ armed'[r] = FALSE
      /\ \A q \in Requests : q # r => at'[q] = at[q] /\ armed'[q] = armed[q]
  BY <1>1, <1>2 DEF TypeOK, Places
<1>4. RequestOK(r)
  BY InvAtRequest
<1>5. task[r] = "none" /\ rows[r] = <<>> /\ events[r] = <<"pending">>
  BY <1>1, <1>4 DEF RequestOK, Over, TypeOK, Tasks
<1>6. TypeOK'
  BY <1>1, <1>2, <1>3, <1>5, EmitEffect, LeavesRowEffect DEF TypeOK, MetricsTypeOK
<1>7. events'[r] = <<"pending", kind>>
  <2>1. events'[r] = Append(<<"pending">>, kind)
    BY <1>1, <1>2, <1>5, EmitEffect
  <2>2. "pending" \in Kinds
    BY DEF Kinds
  <2>3. Append(<<"pending">>, kind) = <<"pending", kind>>
    BY <1>1, <2>2, AppendSecond
  <2> QED BY <2>1, <2>3
<1>8. Routed(r)' <=> Routed(r)
  BY DEF Routed
<1>9. RequestOK(r)'
  BY <1>1, <1>2, <1>3, <1>5, <1>7, <1>8, LeavesRowEffect, AnsweredOK
<1>10. ASSUME NEW q \in Requests, q # r PROVE RequestOK(q)'
  BY <1>1, <1>2, <1>3, <1>5, <1>10, EmitEffect, LeavesRowEffect, RequestUntouched
<1> QED BY <1>6, <1>9, <1>10, InvFromRequests

LEMMA HandlerReturnKeeps ==
    ASSUME RequestInv, NEW r \in Requests,
           \/ TurnAway(r) \/ RefuseRoute(r) \/ ListSelectedModels(r) \/ CatalogAnswered(r)
           \/ ConnectFailed(r) \/ RefuseBody(r) \/ UpstreamFailed(r) \/ EstimateTokens(r)
           \/ Collected(r) \/ HandlerDropped(r)
    PROVE  RequestInv'
<1>1. session \in [Requests -> Tokens \cup {NoToken}] /\ token \in [Requests -> Tokens \cup {NoToken}]
  BY DEF RequestInv, TypeOK, PermitsTypeOK
<1>2. CASE TurnAway(r)
  BY <1>1, <1>2, EarlyReturnKeeps DEF TurnAway, Kinds
<1>3. CASE RefuseRoute(r)
  BY <1>1, <1>3, EarlyReturnKeeps DEF RefuseRoute, AtRouting, Kinds
<1>4. CASE ListSelectedModels(r)
  <2>1. /\ session' \in [Requests -> Tokens \cup {NoToken}]
        /\ \A q \in Requests : q # r => session'[q] = session[q]
    BY <1>1, <1>4 DEF ListSelectedModels
  <2> QED BY <1>4, <2>1, EarlyReturnKeeps DEF ListSelectedModels, AtRouting, Kinds
<1>5. CASE CatalogAnswered(r)
  BY <1>1, <1>5, EarlyReturnKeeps DEF CatalogAnswered, Kinds
<1>6. CASE ConnectFailed(r)
  BY <1>1, <1>6, EarlyReturnKeeps DEF ConnectFailed, Kinds
<1>7. CASE RefuseBody(r)
  BY <1>1, <1>7, EarlyReturnKeeps DEF RefuseBody, Kinds
<1>8. CASE UpstreamFailed(r)
  <2>1. LeavesRow(r, "upstream_error")
    BY <1>8 DEF UpstreamFailed, LeavesRow, Agreeing, Outcomes
  <2> QED BY <1>8, <2>1, LateReturnKeeps DEF UpstreamFailed, Answers
<1>9. CASE EstimateTokens(r)
  <2>1. LeavesRow(r, "estimated")
    BY <1>9 DEF EstimateTokens, LeavesRow
  <2> QED BY <1>9, <2>1, LateReturnKeeps DEF EstimateTokens, Answers
<1>10. CASE Collected(r)
  <2>1. PICK outcome \in Outcomes \ {"transport_error"}, billable \in BOOLEAN, invalid \in BOOLEAN :
          /\ invalid => Client(r) /\ outcome = "success" /\ ~billable
          /\ Answer(r, outcome, billable, invalid)
    BY <1>10 DEF Collected
  <2> DEFINE kind == IF outcome = "success" /\ ~invalid THEN "ok" ELSE "upstream_error"
  <2>2. LeavesRow(r, kind)
    BY <2>1 DEF Answer, LeavesRow, Agreeing, Outcomes
  <2>3. Return(r, kind) /\ kind \in Answers
    BY <2>1 DEF Answer, Answers
  <2> QED BY <1>10, <2>2, <2>3, LateReturnKeeps DEF Collected
<1>11. CASE HandlerDropped(r)
  <2>1. RequestOK(r)
    BY InvAtRequest
  <2>2. CASE at[r] \in {"send", "collect"}
    <3>1. armed[r] = TRUE
      BY <2>1, <2>2 DEF RequestOK, RequestInv, TypeOK
    <3>2. LeavesRow(r, "cancelled")
      BY <1>11, <3>1 DEF HandlerDropped, LeavesRow, Agreeing, Outcomes
    <3> QED BY <1>11, <2>2, <3>1, <3>2, LateReturnKeeps DEF HandlerDropped, Answers
  <2>3. CASE at[r] \in {"catalog", "connect", "body"}
    <3>1. armed[r] = FALSE
      BY <2>1, <2>3 DEF RequestOK, RequestInv, TypeOK
    <3> QED BY <1>1, <1>11, <2>3, <3>1, EarlyReturnKeeps DEF HandlerDropped, Kinds
  <2> QED BY <1>11, <2>2, <2>3 DEF HandlerDropped
<1> QED BY <1>2, <1>3, <1>4, <1>5, <1>6, <1>7, <1>8, <1>9, <1>10, <1>11

(* The steps that keep the handler running, or hand over to a task.        *)
LEMMA TakeRouteKeeps ==
    ASSUME RequestInv, NEW r \in Requests, TakeRoute(r)
    PROVE  RequestInv'
<1>1. TypeOK
  BY DEF RequestInv
<1>2. PICK s \in RoutesOf(r), place \in {"catalog", "connect", "body"} :
        /\ session' = [session EXCEPT ![r] = s]
        /\ at' = [at EXCEPT ![r] = place]
  BY DEF TakeRoute
<1>3. s \in Tokens \cup {NoToken}
  BY <1>1, LifecycleAssumption DEF RoutesOf, TypeOK, PermitsTypeOK, LifecycleAssumption
<1>4. /\ at[r] = "permits" /\ stage[r] = "admitted"
      /\ stage' = stage /\ PermitsTypeOK' /\ task' = task /\ carrier' = carrier
      /\ stream' = stream /\ armed' = armed
      /\ Silent /\ NoRow
  BY <1>1 DEF TakeRoute, AtRouting, permitVars, TypeOK, PermitsTypeOK, Entries
<1>5. /\ at' \in [Requests -> Places] /\ at'[r] = place
      /\ session' \in [Requests -> Tokens \cup {NoToken}]
      /\ \A q \in Requests : q # r => at'[q] = at[q] /\ session'[q] = session[q]
  BY <1>1, <1>2, <1>3 DEF TypeOK, Places
<1>6. TypeOK'
  BY <1>1, <1>4, <1>5, SilentEffect, NoRowEffect DEF TypeOK, MetricsTypeOK
<1>7. RequestOK(r)
  BY InvAtRequest
<1>8. task[r] = "none" /\ rows[r] = <<>> /\ events[r] = <<>> /\ ~armed[r]
  BY <1>1, <1>4, <1>7 DEF RequestOK, Over, TypeOK, Tasks
<1>9. RequestOK(r)'
  <2>1. events'[r] = <<>> /\ rows'[r] = <<>> /\ ~armed'[r]
    BY <1>1, <1>4, <1>8, SilentEffect, NoRowEffect
  <2>2. at'[r] \in {"catalog", "connect", "body"} /\ task'[r] = "none" /\ stage'[r] = "admitted"
    BY <1>4, <1>5, <1>8
  <2>3. Serving(r)' /\ ~Over(r)'
    BY <2>2 DEF Serving, Over
  <2> QED BY <2>1, <2>2, <2>3 DEF RequestOK
<1>10. ASSUME NEW q \in Requests, q # r PROVE RequestOK(q)'
  BY <1>1, <1>4, <1>5, <1>10, SilentEffect, NoRowEffect, RequestUntouched
<1> QED BY <1>6, <1>9, <1>10, InvFromRequests

LEMMA DispatchKeeps ==
    ASSUME RequestInv, NEW r \in Requests, Dispatch(r)
    PROVE  RequestInv'
<1>1. TypeOK /\ "pending" \in Kinds
  BY DEF RequestInv, Kinds
<1>2. /\ at[r] = "body" /\ at' = [at EXCEPT ![r] = "send"]
      /\ armed' = [armed EXCEPT ![r] = TRUE]
      /\ Emit(r, "pending") /\ NoRow
      /\ stage' = stage /\ PermitsTypeOK' /\ task' = task /\ carrier' = carrier
      /\ stream' = stream /\ session' = session
  BY <1>1 DEF Dispatch, permitVars, TypeOK, PermitsTypeOK, Entries
<1>3. /\ at' \in [Requests -> Places] /\ at'[r] = "send"
      /\ armed' \in [Requests -> BOOLEAN] /\ armed'[r] = TRUE
      /\ \A q \in Requests : q # r => at'[q] = at[q] /\ armed'[q] = armed[q]
  BY <1>1, <1>2 DEF TypeOK, Places
<1>4. TypeOK'
  BY <1>1, <1>2, <1>3, EmitEffect, NoRowEffect DEF TypeOK, MetricsTypeOK
<1>5. RequestOK(r)
  BY InvAtRequest
<1>6. /\ task[r] = "none" /\ rows[r] = <<>> /\ events[r] = <<>> /\ stage[r] = "admitted"
  BY <1>1, <1>2, <1>5 DEF RequestOK, Over, Serving, TypeOK, Tasks
<1>7. events'[r] = <<"pending">>
  <2>1. events'[r] = Append(<<>>, "pending")
    BY <1>1, <1>2, <1>6, EmitEffect
  <2> QED BY <2>1
<1>8. rows'[r] = <<>>
  BY <1>1, <1>2, <1>6, NoRowEffect
<1>9. RequestOK(r)'
  BY <1>2, <1>3, <1>6, <1>7, <1>8 DEF RequestOK, Over, Serving
<1>10. ASSUME NEW q \in Requests, q # r PROVE RequestOK(q)'
  BY <1>1, <1>2, <1>3, <1>10, EmitEffect, NoRowEffect, RequestUntouched
<1> QED BY <1>4, <1>9, <1>10, InvFromRequests

LEMMA CollectKeeps ==
    ASSUME RequestInv, NEW r \in Requests, Collect(r)
    PROVE  RequestInv'
<1>1. TypeOK
  BY DEF RequestInv
<1>2. /\ at[r] = "send" /\ at' = [at EXCEPT ![r] = "collect"]
      /\ Silent /\ NoRow
      /\ stage' = stage /\ PermitsTypeOK' /\ task' = task /\ carrier' = carrier
      /\ stream' = stream /\ session' = session /\ armed' = armed
  BY <1>1 DEF Collect, permitVars, TypeOK, PermitsTypeOK, Entries
<1>3. /\ at' \in [Requests -> Places] /\ at'[r] = "collect"
      /\ \A q \in Requests : q # r => at'[q] = at[q]
  BY <1>1, <1>2 DEF TypeOK, Places
<1>4. TypeOK'
  BY <1>1, <1>2, <1>3, SilentEffect, NoRowEffect DEF TypeOK, MetricsTypeOK
<1>5. RequestOK(r)
  BY InvAtRequest
<1>6. RequestOK(r)'
  BY <1>1, <1>2, <1>3, <1>5, SilentEffect, NoRowEffect DEF RequestOK, Over, Serving, Routed
<1>7. ASSUME NEW q \in Requests, q # r PROVE RequestOK(q)'
  BY <1>1, <1>2, <1>3, <1>7, SilentEffect, NoRowEffect, RequestUntouched
<1> QED BY <1>4, <1>6, <1>7, InvFromRequests

LEMMA UpgradeKeeps ==
    ASSUME RequestInv, NEW r \in Requests, Upgrade(r)
    PROVE  RequestInv'
<1>1. TypeOK /\ "ws" \in Kinds
  BY DEF RequestInv, Kinds
<1>2. /\ at[r] = "connect" /\ at' = [at EXCEPT ![r] = "returned"]
      /\ task' = [task EXCEPT ![r] = "relay"]
      /\ carrier' = [carrier EXCEPT ![r] = "task"]
      /\ Emit(r, "ws") /\ NoRow
      /\ stage' = stage /\ PermitsTypeOK' /\ armed' = armed
      /\ stream' = stream /\ session' = session
  BY <1>1 DEF Upgrade, permitVars, TypeOK, PermitsTypeOK, Entries
<1>3. /\ at' \in [Requests -> Places] /\ at'[r] = "returned"
      /\ task' \in [Requests -> Tasks] /\ task'[r] = "relay"
      /\ carrier' \in [Requests -> {"handler", "task"}] /\ carrier'[r] = "task"
      /\ \A q \in Requests : q # r =>
            at'[q] = at[q] /\ task'[q] = task[q] /\ carrier'[q] = carrier[q]
  BY <1>1, <1>2 DEF TypeOK, Places, Tasks
<1>4. TypeOK'
  BY <1>1, <1>2, <1>3, EmitEffect, NoRowEffect DEF TypeOK, MetricsTypeOK
<1>5. RequestOK(r)
  BY InvAtRequest
<1>6. /\ rows[r] = <<>> /\ events[r] = <<>> /\ stage[r] = "admitted" /\ ~armed[r]
  BY <1>1, <1>2, <1>5 DEF RequestOK, Over, Serving, TypeOK, Tasks
<1>7. events'[r] = <<"ws">>
  <2>1. events'[r] = Append(<<>>, "ws")
    BY <1>1, <1>2, <1>6, EmitEffect
  <2> QED BY <2>1
<1>8. rows'[r] = <<>>
  BY <1>1, <1>2, <1>6, NoRowEffect
<1>9. RequestOK(r)'
  BY <1>2, <1>3, <1>6, <1>7, <1>8 DEF RequestOK, Over, Serving
<1>10. ASSUME NEW q \in Requests, q # r PROVE RequestOK(q)'
  BY <1>1, <1>2, <1>3, <1>10, EmitEffect, NoRowEffect, RequestUntouched
<1> QED BY <1>4, <1>9, <1>10, InvFromRequests

LEMMA TrackersAreStreams ==
    ASSUME NEW plain \in BOOLEAN, NEW detail \in BOOLEAN,
           NEW status \in Outcomes \ {"transport_error"}
    PROVE  Tracker(plain, detail, status) \in Streams
  BY DEF Tracker, Streams

LEMMA TrackedAreStreams ==
    ASSUME NEW s \in Streams, NEW sent \in SUBSET Signs, NEW seen \in SUBSET Signs,
           NEW truncated \in BOOLEAN, NEW end \in {"open", "eof", "error", "dropped"}
    PROVE  Tracked(s, sent, seen, truncated, end) \in Streams
  BY DEF Tracked, Streams

LEMMA StartStreamKeeps ==
    ASSUME RequestInv, NEW r \in Requests, StartStream(r)
    PROVE  RequestInv'
<1>1. TypeOK
  BY DEF RequestInv
<1>2. /\ at[r] = "send" /\ at' = [at EXCEPT ![r] = "returned"]
      /\ armed' = [armed EXCEPT ![r] = FALSE]
      /\ task' = [task EXCEPT ![r] = "stream"]
      /\ carrier' = [carrier EXCEPT ![r] = "task"]
      /\ Silent /\ NoRow
      /\ stage' = stage /\ PermitsTypeOK' /\ session' = session
  BY <1>1 DEF StartStream, permitVars, TypeOK, PermitsTypeOK, Entries
<1>3. /\ at' \in [Requests -> Places] /\ at'[r] = "returned"
      /\ armed' \in [Requests -> BOOLEAN] /\ armed'[r] = FALSE
      /\ task' \in [Requests -> Tasks] /\ task'[r] = "stream"
      /\ carrier' \in [Requests -> {"handler", "task"}] /\ carrier'[r] = "task"
      /\ \A q \in Requests : q # r =>
            /\ at'[q] = at[q] /\ armed'[q] = armed[q]
            /\ task'[q] = task[q] /\ carrier'[q] = carrier[q]
  BY <1>1, <1>2 DEF TypeOK, Places, Tasks
<1>4. stream' \in [Requests -> Streams]
  <2>1. PICK s \in Streams : stream' = [stream EXCEPT ![r] = s]
    BY TrackersAreStreams DEF StartStream
  <2> QED BY <1>1, <2>1 DEF TypeOK
<1>5. TypeOK'
  BY <1>1, <1>2, <1>3, <1>4, SilentEffect, NoRowEffect DEF TypeOK, MetricsTypeOK
<1>6. RequestOK(r)
  BY InvAtRequest
<1>7. rows[r] = <<>> /\ events[r] = <<"pending">> /\ stage[r] = "admitted"
  BY <1>1, <1>2, <1>6 DEF RequestOK, Over, Serving
<1>8. rows'[r] = <<>> /\ events'[r] = <<"pending">> /\ stage'[r] = "admitted"
  BY <1>1, <1>2, <1>7, SilentEffect, NoRowEffect
<1>9. RequestOK(r)'
  BY <1>3, <1>8 DEF RequestOK, Over, Serving
<1>10. ASSUME NEW q \in Requests, q # r PROVE RequestOK(q)'
  BY <1>1, <1>2, <1>3, <1>10, SilentEffect, NoRowEffect, RequestUntouched
<1> QED BY <1>5, <1>9, <1>10, InvFromRequests

----------------------------------------------------------------------------
(* Steps of relays and streams *)

LEMMA RelayEndsKeeps ==
    ASSUME RequestInv, NEW r \in Requests, RelayEnds(r)
    PROVE  RequestInv'
<1>1. TypeOK /\ "ws" \in Kinds
  BY DEF RequestInv, Kinds
<1>2. PICK kind \in {"nothing", "upstream_error", "cancelled", "rejected"} : Emit(r, kind)
  BY DEF RelayEnds
<1>3. /\ task[r] = "relay" /\ task' = [task EXCEPT ![r] = "ended"]
      /\ NoRow
      /\ stage' = stage /\ PermitsTypeOK' /\ at' = at /\ armed' = armed
      /\ carrier' = carrier /\ stream' = stream /\ session' = session
  BY <1>1 DEF RelayEnds, permitVars, TypeOK, PermitsTypeOK, Entries
<1>4. /\ task' \in [Requests -> Tasks] /\ task'[r] = "ended"
      /\ \A q \in Requests : q # r => task'[q] = task[q]
  BY <1>1, <1>3 DEF TypeOK, Tasks
<1>5. kind \in Kinds \cup {"nothing"}
  BY DEF Kinds
<1>6. TypeOK'
  BY <1>1, <1>2, <1>3, <1>4, <1>5, EmitEffect, NoRowEffect DEF TypeOK, MetricsTypeOK
<1>7. RequestOK(r)
  BY InvAtRequest
<1>8. at[r] = "returned" /\ rows[r] = <<>> /\ events[r] = <<"ws">> /\ armed[r] = FALSE
  BY <1>1, <1>3, <1>7 DEF RequestOK, Over, TypeOK
<1>9. events'[r] \in {<<"ws">>, <<"ws", "upstream_error">>, <<"ws", "cancelled">>,
                      <<"ws", "rejected">>}
  <2>1. events'[r] = IF kind = "nothing" THEN <<"ws">> ELSE Append(<<"ws">>, kind)
    BY <1>1, <1>2, <1>5, <1>8, EmitEffect
  <2>2. kind # "nothing" => Append(<<"ws">>, kind) = <<"ws", kind>>
    BY <1>1, <1>5, AppendSecond
  <2> QED BY <2>1, <2>2
<1>10. rows'[r] = <<>>
  BY <1>1, <1>3, <1>8, NoRowEffect
<1>11. RequestOK(r)'
  <2>1. Over(r)' /\ ~Serving(r)'
    BY <1>3, <1>4, <1>8 DEF Over, Serving
  <2>2. events'[r] \in Histories
    BY <1>9 DEF Histories, Kinds
  <2>3. events'[r] \notin {<<"pending", "upstream_error">>, <<"pending", "cancelled">>}
    BY <1>9
  <2> QED BY <1>3, <1>4, <1>8, <1>10, <2>1, <2>2, <2>3 DEF RequestOK
<1>12. ASSUME NEW q \in Requests, q # r PROVE RequestOK(q)'
  BY <1>1, <1>2, <1>3, <1>4, <1>5, <1>12, EmitEffect, NoRowEffect, RequestUntouched
<1> QED BY <1>6, <1>11, <1>12, InvFromRequests

LEMMA StreamChunkKeeps ==
    ASSUME RequestInv, NEW r \in Requests, StreamChunk(r)
    PROVE  RequestInv'
<1>1. TypeOK /\ stream[r] \in Streams
  BY DEF RequestInv, TypeOK
<1>2. /\ Silent /\ NoRow
      /\ stage' = stage /\ PermitsTypeOK' /\ at' = at /\ armed' = armed
      /\ task' = task /\ carrier' = carrier /\ session' = session
  BY <1>1 DEF StreamChunk, permitVars, TypeOK, PermitsTypeOK, Entries
<1>3. stream' \in [Requests -> Streams]
  <2>0. PICK sent \in SUBSET Signs :
          \E s \in Observations(r, sent) : stream' = [stream EXCEPT ![r] = s]
    BY DEF StreamChunk
  <2>1. PICK s \in Observations(r, sent) : stream' = [stream EXCEPT ![r] = s]
    BY <2>0
  <2>2. /\ stream[r].sent \in SUBSET Signs /\ stream[r].seen \in SUBSET Signs
        /\ stream[r].truncated \in BOOLEAN
    BY <1>1 DEF Streams
  <2>3. s \in Streams
    <3>1. stream[r].sent \cup sent \in SUBSET Signs /\ stream[r].seen \cup sent \in SUBSET Signs
      BY <2>2
    <3>2. \E seen \in SUBSET Signs, truncated \in BOOLEAN :
            s = Tracked(stream[r], stream[r].sent \cup sent, seen, truncated, "open")
      <4>1. {} \in SUBSET Signs
        OBVIOUS
      <4> QED BY <2>1, <2>2, <3>1, <4>1 DEF Observations
    <3> QED BY <1>1, <3>1, <3>2, TrackedAreStreams
  <2> QED BY <1>1, <2>1, <2>3 DEF TypeOK
<1>4. TypeOK'
  BY <1>1, <1>2, <1>3, SilentEffect, NoRowEffect DEF TypeOK, MetricsTypeOK
<1>5. ASSUME NEW q \in Requests PROVE RequestOK(q)'
  BY <1>1, <1>2, <1>5, SilentEffect, NoRowEffect, RequestUntouched
<1> QED BY <1>4, <1>5, InvFromRequests

(* However a stream ends, one event and one row that agrees with it.       *)
LEMMA EndStreamKeeps ==
    ASSUME RequestInv, NEW r \in Requests, NEW end \in {"eof", "error", "dropped"},
           EndStream(r, end), NEW kind \in Answers, Emit(r, kind), LeavesRow(r, kind)
    PROVE  RequestInv'
<1>1. TypeOK /\ kind \in Kinds /\ kind # "nothing" /\ "pending" \in Kinds
  BY DEF RequestInv, Answers, Kinds
<1>2. /\ task[r] = "stream" /\ task' = [task EXCEPT ![r] = "ended"]
      /\ stream' = [stream EXCEPT ![r] = Tracked(@, @.sent, {}, FALSE, end)]
      /\ stage' = stage /\ PermitsTypeOK' /\ at' = at /\ armed' = armed
      /\ carrier' = carrier /\ session' = session
  BY <1>1 DEF EndStream, permitVars, TypeOK, PermitsTypeOK, Entries
<1>3. /\ task' \in [Requests -> Tasks] /\ task'[r] = "ended"
      /\ \A q \in Requests : q # r => task'[q] = task[q]
  BY <1>1, <1>2 DEF TypeOK, Tasks
<1>4. stream' \in [Requests -> Streams]
  <2>1. stream[r] \in Streams /\ stream[r].sent \in SUBSET Signs
    BY <1>1 DEF TypeOK, Streams
  <2>2. Tracked(stream[r], stream[r].sent, {}, FALSE, end) \in Streams
    BY <2>1, TrackedAreStreams
  <2> QED BY <1>1, <1>2, <2>2 DEF TypeOK
<1>5. RequestOK(r)
  BY InvAtRequest
<1>6. at[r] = "returned" /\ rows[r] = <<>> /\ events[r] = <<"pending">> /\ armed[r] = FALSE
  BY <1>1, <1>2, <1>5 DEF RequestOK, Over, TypeOK
<1>7. TypeOK'
  BY <1>1, <1>2, <1>3, <1>4, <1>6, EmitEffect, LeavesRowEffect DEF TypeOK, MetricsTypeOK
<1>8. events'[r] = <<"pending", kind>>
  <2>1. events'[r] = Append(<<"pending">>, kind)
    BY <1>1, <1>6, EmitEffect
  <2>2. Append(<<"pending">>, kind) = <<"pending", kind>>
    BY <1>1, AppendSecond
  <2> QED BY <2>1, <2>2
<1>9. Routed(r)' <=> Routed(r)
  BY <1>2 DEF Routed
<1>10. RequestOK(r)'
  BY <1>1, <1>2, <1>3, <1>6, <1>8, <1>9, LeavesRowEffect, AnsweredOK
<1>11. ASSUME NEW q \in Requests, q # r PROVE RequestOK(q)'
  BY <1>1, <1>2, <1>3, <1>6, <1>11, EmitEffect, LeavesRowEffect, RequestUntouched
<1> QED BY <1>7, <1>10, <1>11, InvFromRequests

LEMMA StreamEndsKeep ==
    ASSUME RequestInv, NEW r \in Requests,
           StreamCompleted(r) \/ StreamFailed(r) \/ StreamDropped(r)
    PROVE  RequestInv'
<1>1. CASE StreamCompleted(r)
  <2>1. PICK seen \in Decodings(stream[r]) :
          /\ Record(r, Terminal(stream[r].status, seen))
          /\ Emit(r, IF Terminal(stream[r].status, seen) = "success"
                     THEN "ok" ELSE "upstream_error")
    BY <1>1 DEF StreamCompleted
  <2> DEFINE outcome == Terminal(stream[r].status, seen)
             kind == IF outcome = "success" THEN "ok" ELSE "upstream_error"
  <2>2. outcome \in Outcomes
    <3>1. stream[r].status \in Outcomes
      BY DEF RequestInv, TypeOK, Streams
    <3> QED BY <3>1 DEF Terminal, Outcomes
  <2>3. <<outcome, kind>> \in Agreeing
    <3> HIDE DEF outcome
    <3> QED BY <2>2 DEF Agreeing, Outcomes
  <2>4. EndStream(r, "eof") /\ kind \in Answers /\ Emit(r, kind) /\ Record(r, outcome)
    BY <1>1, <2>1 DEF StreamCompleted, Answers
  <2>5. LeavesRow(r, kind)
    <3> HIDE DEF outcome, kind
    <3> QED BY <2>2, <2>3, <2>4 DEF LeavesRow
  <2> HIDE DEF outcome, kind
  <2> QED BY <2>4, <2>5, EndStreamKeeps
<1>2. CASE StreamFailed(r)
  <2>1. LeavesRow(r, "upstream_error")
    BY <1>2 DEF StreamFailed, LeavesRow, Agreeing, Outcomes
  <2> QED BY <1>2, <2>1, EndStreamKeeps DEF StreamFailed, Answers
<1>3. CASE StreamDropped(r)
  <2>1. LeavesRow(r, "cancelled")
    BY <1>3 DEF StreamDropped, LeavesRow, Agreeing, Outcomes
  <2> QED BY <1>3, <2>1, EndStreamKeeps DEF StreamDropped, Answers
<1> QED BY <1>1, <1>2, <1>3

----------------------------------------------------------------------------
(* The writer, the permits, and nothing at all *)

LEMMA WriteMetricKeeps ==
    ASSUME RequestInv, WriteMetric
    PROVE  RequestInv'
<1>1. TypeOK
  BY DEF RequestInv
<1>2. /\ queue # <<>> /\ queue' = Tail(queue)
      /\ stage' = stage /\ PermitsTypeOK' /\ at' = at /\ session' = session
      /\ armed' = armed /\ task' = task /\ carrier' = carrier /\ stream' = stream
      /\ events' = events /\ rows' = rows /\ lost' = lost
  BY <1>1 DEF WriteMetric, permitVars, TypeOK, PermitsTypeOK, Entries
<1>3. MetricsTypeOK'
  <2> DEFINE M == [request : Requests, kind : Kinds]
  <2>1. queue \in Seq(M)
    BY <1>1 DEF TypeOK
  <2>2. Head(queue) \in M /\ queue' \in Seq(M)
    <3> HIDE DEF M
    <3> QED BY <1>2, <2>1
  <2>3. Head(queue).request \in Requests /\ Head(queue).kind \in Kinds
    BY <2>2
  <2>4. \/ metric' = [metric EXCEPT ![Head(queue).request] = Head(queue).kind] /\ unmetered' = unmetered
        \/ unmetered' = unmetered \cup {Head(queue).request} /\ metric' = metric
    BY DEF WriteMetric, StoreMetric
  <2>5. metric' \in [Requests -> Kinds \cup {"none"}] /\ unmetered' \subseteq Requests
    BY <1>1, <2>3, <2>4 DEF TypeOK
  <2> QED BY <2>2, <2>5 DEF MetricsTypeOK
<1>4. TypeOK'
  BY <1>1, <1>2, <1>3 DEF TypeOK, MetricsTypeOK
<1>5. ASSUME NEW q \in Requests PROVE RequestOK(q)'
  BY <1>2, <1>5, RequestUntouched
<1> QED BY <1>4, <1>5, InvFromRequests

(* Nobody asks for permits or drops them while the request is served.      *)
LEMMA PermitStepKeeps ==
    ASSUME RequestInv, PermitsTypeOK', NEW r \in Requests, UNCHANGED requestVars,
           ~Serving(r), \A q \in Requests : q # r => stage'[q] = stage[q]
    PROVE  RequestInv'
<1>1. /\ at' = at /\ session' = session /\ armed' = armed /\ task' = task
      /\ carrier' = carrier /\ stream' = stream /\ events' = events /\ rows' = rows
      /\ lost' = lost /\ queue' = queue /\ metric' = metric /\ unmetered' = unmetered
  BY DEF requestVars
<1>2. TypeOK'
  BY <1>1 DEF RequestInv, TypeOK
<1>3. RequestOK(r)
  BY InvAtRequest
<1>4. RequestOK(r)'
  BY <1>1, <1>3 DEF RequestOK, Serving, Over, Routed
<1>5. ASSUME NEW q \in Requests, q # r PROVE RequestOK(q)'
  BY <1>1, <1>5, RequestUntouched
<1> QED BY <1>2, <1>4, <1>5, InvFromRequests

LEMMA AskPermitsKeeps ==
    ASSUME RequestInv, PermitsTypeOK', NEW r \in Requests, AskPermits(r)
    PROVE  RequestInv'
<1>1. UNCHANGED requestVars /\ at[r] = "permits"
  BY DEF AskPermits, OnlyPermits
<1>2. ~Serving(r)
  <2>1. RequestOK(r)
    BY InvAtRequest
  <2> QED BY <1>1, <2>1 DEF RequestOK, Serving
<1>3. \A q \in Requests : q # r => stage'[q] = stage[q]
  BY DEF AskPermits, TakeGlobal, RefuseGlobal, Lookup, TakeSession, RefuseSession,
         RequestInv, TypeOK, PermitsTypeOK
<1> QED BY <1>1, <1>2, <1>3, PermitStepKeeps

LEMMA DropPermitsKeeps ==
    ASSUME RequestInv, PermitsTypeOK', NEW r \in Requests, DropPermits(r)
    PROVE  RequestInv'
<1>1. /\ UNCHANGED requestVars
      /\ \/ stage[r] = "refused"
         \/ at[r] = "returned" /\ (carrier[r] = "handler" \/ task[r] = "ended")
  BY DEF DropPermits, OnlyPermits
<1>2. ~Serving(r)
  <2>1. RequestOK(r)
    BY InvAtRequest
  <2> QED BY <1>1, <2>1 DEF RequestOK, Serving
<1>3. \A q \in Requests : q # r => stage'[q] = stage[q]
  BY DEF DropPermits, ReleaseGlobal, ReleaseSession, RequestInv, TypeOK, PermitsTypeOK
<1> QED BY <1>1, <1>2, <1>3, PermitStepKeeps

LEMMA RequestStutter ==
    ASSUME RequestInv, UNCHANGED vars
    PROVE  RequestInv'
<1>1. /\ stage' = stage /\ PermitsTypeOK'
      /\ at' = at /\ session' = session /\ armed' = armed /\ task' = task
      /\ carrier' = carrier /\ stream' = stream /\ events' = events /\ rows' = rows
      /\ lost' = lost /\ queue' = queue /\ metric' = metric /\ unmetered' = unmetered
  BY DEF vars, permitVars, requestVars, RequestInv, TypeOK, PermitsTypeOK, Entries
<1>2. TypeOK'
  BY <1>1 DEF RequestInv, TypeOK
<1>3. ASSUME NEW q \in Requests PROVE RequestOK(q)'
  BY <1>1, <1>3, RequestUntouched
<1> QED BY <1>2, <1>3, InvFromRequests

----------------------------------------------------------------------------
(* RequestInv is inductive, together with the permits' own invariant *)

LEMMA RequestInitially == Init => RequestInv
<1> SUFFICES ASSUME Init PROVE RequestInv
  OBVIOUS
<1>1. TypeOK
  <2>1. PermitsTypeOK
    BY PermitsInitially DEF Init, PermitsInv
  <2>2. NoStream \in Streams
    BY DEF NoStream, Tracker, Streams, Outcomes, Signs
  <2> QED BY <2>1, <2>2 DEF Init, TypeOK, Places, Tasks
<1>2. \A r \in Requests : RequestOK(r)
  BY DEF Init, RequestOK, Serving, Over
<1> QED BY <1>1, <1>2 DEF RequestInv, RequestOK, PermitsFollowTheWork, AnswersFollowTheWork,
                          ConsoleAnswersOnce, ConsoleAndLogAgree, FailuresAreLogged

LEMMA RequestStep == RequestInv /\ PermitsInv' /\ [Next]_vars => RequestInv'
<1> SUFFICES ASSUME RequestInv, PermitsInv', [Next]_vars PROVE RequestInv'
  OBVIOUS
<1>1. PermitsTypeOK'
  BY DEF PermitsInv
<1>2. ASSUME NEW r \in Requests, AskPermits(r) PROVE RequestInv'
  BY <1>1, <1>2, AskPermitsKeeps
<1>3. ASSUME NEW r \in Requests, DropPermits(r) PROVE RequestInv'
  BY <1>1, <1>3, DropPermitsKeeps
<1>4. ASSUME NEW r \in Requests, HandlerStep(r) PROVE RequestInv'
  BY <1>4, HandlerReturnKeeps, TakeRouteKeeps, UpgradeKeeps, DispatchKeeps, CollectKeeps,
     StartStreamKeeps DEF HandlerStep
<1>5. ASSUME NEW r \in Requests, TaskStep(r) PROVE RequestInv'
  BY <1>5, RelayEndsKeeps, StreamChunkKeeps, StreamEndsKeep DEF TaskStep
<1>6. CASE WriteMetric
  BY <1>6, WriteMetricKeeps
<1>7. CASE UNCHANGED vars
  BY <1>7, RequestStutter
<1> QED BY <1>2, <1>3, <1>4, <1>5, <1>6, <1>7 DEF Next

(* Whoever answers for a request owns its permits, the console and the log *)
(* follow its progress and agree, for any number of requests.              *)
THEOREM RequestInductive == Spec => []RequestInv
<1>1. Spec => []PermitsInv
  BY PermitsRefined, PermitsInductive, PTL
<1> QED BY <1>1, RequestInitially, RequestStep, PTL DEF Spec

----------------------------------------------------------------------------
(* What follows from it *)

LEMMA SmallerIsWithinLimit ==
    ASSUME NEW A, NEW B, A \subseteq B, B \subseteq Requests, NEW limit \in Nat,
           IsFiniteSet(Requests), Cardinality(B) <= limit
    PROVE  Cardinality(A) <= limit
<1>1. IsFiniteSet(A) /\ IsFiniteSet(B) /\ Cardinality(A) <= Cardinality(B)
  BY FS_Subset
<1>2. Cardinality(A) \in Nat /\ Cardinality(B) \in Nat
  BY <1>1, FS_CardinalityType
<1> QED BY <1>1, <1>2

(* Every variable of the lifecycle has its type.                           *)
THEOREM LifecycleTypeCorrect == Spec => []TypeOK
<1>1. RequestInv => TypeOK
  BY DEF RequestInv
<1> QED BY <1>1, RequestInductive, PTL

(* What was shown as pending gets exactly one more event.                  *)
THEOREM ConsoleIsAnsweredOnce == Spec => []ConsoleAnswersOnce
<1>1. RequestInv => ConsoleAnswersOnce
  BY DEF RequestInv
<1> QED BY <1>1, RequestInductive, PTL

(* A request's row and its console event tell the same story.              *)
THEOREM ConsoleAgreesWithLog == Spec => []ConsoleAndLogAgree
<1>1. RequestInv => ConsoleAndLogAgree
  BY DEF RequestInv
<1> QED BY <1>1, RequestInductive, PTL

(* A dispatched request of a session that fails has its row.               *)
THEOREM FailuresLeaveRows == Spec => []FailuresAreLogged
<1>1. RequestInv => FailuresAreLogged
  BY DEF RequestInv
<1> QED BY <1>1, RequestInductive, PTL

(* The permits move with the work, into the stream or the relay.           *)
THEOREM PermitsStayWithTheWork == Spec => []PermitsFollowTheWork
<1>1. RequestInv => PermitsFollowTheWork
  BY DEF RequestInv
<1> QED BY <1>1, RequestInductive, PTL

(* Requests being served, streams and relays included, are within both     *)
(* limits.                                                                 *)
THEOREM ServingStaysWithinLimits == Spec => []ServingWithinLimits
<1>1. RequestInv /\ ServedWithinLimits => ServingWithinLimits
  <2> SUFFICES ASSUME RequestInv, ServedWithinLimits PROVE ServingWithinLimits
    OBVIOUS
  <2>1. \A r \in Requests : Serving(r) => stage[r] = "admitted"
    BY DEF RequestInv, PermitsFollowTheWork
  <2>2. IsFiniteSet(Requests) /\ GlobalLimit \in Nat /\ SessionLimit \in Nat
    BY PermitsAssumption DEF PermitsAssumption
  <2>3. Cardinality({r \in Requests : Serving(r)}) <= GlobalLimit
    <3> DEFINE serving == {r \in Requests : Serving(r)}
               served == {r \in Requests : stage[r] = "admitted"}
    <3>1. serving \subseteq served /\ served \subseteq Requests
      BY <2>1
    <3>2. Cardinality(served) <= GlobalLimit
      BY DEF ServedWithinLimits
    <3> HIDE DEF serving, served
    <3>3. Cardinality(serving) <= GlobalLimit
      BY <2>2, <3>1, <3>2, SmallerIsWithinLimit
    <3> QED BY <3>3 DEF serving
  <2>4. ASSUME NEW t \in Tokens
        PROVE  Cardinality({r \in Requests : Serving(r) /\ token[r] = t}) <= SessionLimit
    <3> DEFINE serving == {r \in Requests : Serving(r) /\ token[r] = t}
               served == {r \in Requests : stage[r] = "admitted" /\ token[r] = t}
    <3>1. serving \subseteq served /\ served \subseteq Requests
      BY <2>1
    <3>2. Cardinality(served) <= SessionLimit
      BY DEF ServedWithinLimits
    <3> HIDE DEF serving, served
    <3>3. Cardinality(serving) <= SessionLimit
      BY <2>2, <3>1, <3>2, SmallerIsWithinLimit
    <3> QED BY <3>3 DEF serving
  <2> QED BY <2>3, <2>4 DEF ServingWithinLimits
<1> QED BY <1>1, RequestInductive, LimitsHoldForRequests, PTL

----------------------------------------------------------------------------
(* A stream shown as a success was completed by the upstream *)

(* What is seen of a stream was sent; that makes the property inductive.   *)
SuccessOK(r) ==
    /\ stream[r].seen \subseteq stream[r].sent
    /\ (task[r] = "ended" /\ events[r] = <<"pending", "ok">>)
       => stream[r].status = "success" /\ stream[r].sent = Signs /\ stream[r].end = "eof"

SuccessInv == \A r \in Requests : SuccessOK(r)

LEMMA EmitElsewhere ==
    ASSUME TypeOK, NEW r \in Requests, NEW kind, Emit(r, kind)
    PROVE  \A q \in Requests : q # r => events'[q] = events[q]
  BY DEF Emit, Silent, TypeOK

(* The handler itself ends no task: at most it starts one.                 *)
LEMMA HandlerKeepsSuccess ==
    ASSUME RequestInv, SuccessInv, NEW r \in Requests, HandlerStep(r)
    PROVE  SuccessInv'
<1>1. TypeOK
  BY DEF RequestInv
<1>2. task[r] = "none"
  <2>1. at[r] # "returned"
    BY DEF HandlerStep, TurnAway, RefuseRoute, AtRouting, ListSelectedModels, TakeRoute,
           CatalogAnswered, ConnectFailed, Upgrade, RefuseBody, Dispatch, UpstreamFailed,
           EstimateTokens, Collect, Collected, HandlerDropped, StartStream
  <2> QED BY <2>1 DEF RequestInv, PermitsFollowTheWork
<1>3. \E kind : Emit(r, kind)
  <2>1. Silent => Emit(r, "nothing")
    BY DEF Emit
  <2> QED BY <2>1 DEF HandlerStep, TurnAway, RefuseRoute, ListSelectedModels, TakeRoute,
             CatalogAnswered, ConnectFailed, Upgrade, RefuseBody, Dispatch, UpstreamFailed,
             EstimateTokens, Collect, Collected, Answer, HandlerDropped, StartStream, Return
<1>4. /\ task' \in {task, [task EXCEPT ![r] = "relay"], [task EXCEPT ![r] = "stream"]}
      /\ \/ stream' = stream
         \/ \E plain, detail \in BOOLEAN, status \in Outcomes \ {"transport_error"} :
              stream' = [stream EXCEPT ![r] = Tracker(plain, detail, status)]
  BY DEF HandlerStep, TurnAway, RefuseRoute, ListSelectedModels, TakeRoute, CatalogAnswered,
         ConnectFailed, Upgrade, RefuseBody, Dispatch, UpstreamFailed, EstimateTokens,
         Collect, Collected, Answer, HandlerDropped, StartStream, Return
<1>5. /\ task'[r] # "ended"
      /\ \A q \in Requests : q # r => task'[q] = task[q] /\ stream'[q] = stream[q]
  BY <1>1, <1>2, <1>4 DEF TypeOK
<1>6. stream'[r].seen \subseteq stream'[r].sent
  <2>1. CASE stream' = stream
    BY <2>1 DEF SuccessInv, SuccessOK
  <2>2. CASE stream' # stream
    BY <1>1, <1>4, <2>2 DEF Tracker, TypeOK
  <2> QED BY <2>1, <2>2
<1>7. SuccessOK(r)'
  BY <1>5, <1>6 DEF SuccessOK
<1>8. ASSUME NEW q \in Requests, q # r PROVE SuccessOK(q)'
  <2>1. events'[q] = events[q]
    BY <1>1, <1>3, <1>8, EmitElsewhere
  <2> QED BY <1>5, <1>8, <2>1 DEF SuccessInv, SuccessOK
<1> QED BY <1>7, <1>8 DEF SuccessInv

LEMMA RelayKeepsSuccess ==
    ASSUME RequestInv, SuccessInv, NEW r \in Requests, RelayEnds(r)
    PROVE  SuccessInv'
<1>1. TypeOK /\ stream' = stream
  BY DEF RequestInv, RelayEnds
<1>2. PICK kind : Emit(r, kind)
  BY DEF RelayEnds
<1>3. events[r] = <<"ws">> /\ \A q \in Requests : q # r => task'[q] = task[q]
  BY <1>1 DEF RelayEnds, RequestInv, AnswersFollowTheWork, TypeOK
<1>4. events'[r] # <<"pending", "ok">>
  <2>1. events'[r] \in {<<"ws">>, Append(<<"ws">>, kind)}
    BY <1>1, <1>2, <1>3 DEF Emit, Silent, TypeOK
  <2>2. Append(<<"ws">>, kind)[1] = "ws" /\ <<"ws">>[1] = "ws"
    OBVIOUS
  <2>3. <<"pending", "ok">>[1] # "ws"
    OBVIOUS
  <2> QED BY <2>1, <2>2, <2>3
<1>5. ASSUME NEW q \in Requests PROVE SuccessOK(q)'
  <2>1. q # r => events'[q] = events[q]
    BY <1>1, <1>2, EmitElsewhere
  <2> QED BY <1>1, <1>3, <1>4, <2>1 DEF SuccessInv, SuccessOK
<1> QED BY <1>5 DEF SuccessInv

LEMMA ChunkKeepsSuccess ==
    ASSUME RequestInv, SuccessInv, NEW r \in Requests, StreamChunk(r)
    PROVE  SuccessInv'
<1>1. /\ TypeOK /\ task[r] = "stream" /\ task' = task /\ events' = events
  BY DEF RequestInv, StreamChunk, Silent
<1>2. PICK sent \in SUBSET Signs :
        \E s \in Observations(r, sent) : stream' = [stream EXCEPT ![r] = s]
  BY DEF StreamChunk
<1>3. PICK s \in Observations(r, sent) : stream' = [stream EXCEPT ![r] = s]
  BY <1>2
<1>4. s.seen \subseteq s.sent
  <2>1. stream[r].seen \subseteq stream[r].sent
    BY DEF SuccessInv, SuccessOK
  <2> QED BY <1>3, <2>1 DEF Observations, Tracked
<1>5. stream'[r] = s /\ \A q \in Requests : q # r => stream'[q] = stream[q]
  BY <1>1, <1>3 DEF TypeOK
<1>6. ASSUME NEW q \in Requests PROVE SuccessOK(q)'
  BY <1>1, <1>4, <1>5, <1>6 DEF SuccessInv, SuccessOK
<1> QED BY <1>6 DEF SuccessInv

(* The event of a stream that ends says ok only if Terminal said success.  *)
LEMMA StreamEndsKeepSuccess ==
    ASSUME RequestInv, SuccessInv, NEW r \in Requests, NEW end, EndStream(r, end),
           NEW kind \in Answers, Emit(r, kind),
           kind = "ok" => /\ end = "eof"
                          /\ \E seen \in Decodings(stream[r]) :
                                Terminal(stream[r].status, seen) = "success"
    PROVE  SuccessInv'
<1>1. TypeOK /\ kind \in Kinds /\ "pending" \in Kinds /\ "ok" \in Kinds
  BY DEF RequestInv, Answers, Kinds
<1>2. /\ task[r] = "stream" /\ stream[r].seen \subseteq stream[r].sent
      /\ stream[r].sent \subseteq Signs
      /\ events[r] = <<"pending">>
  BY <1>1 DEF EndStream, SuccessInv, SuccessOK, RequestInv, AnswersFollowTheWork, TypeOK, Streams
<1>3. /\ stream'[r] = Tracked(stream[r], stream[r].sent, {}, FALSE, end)
      /\ \A q \in Requests : q # r => stream'[q] = stream[q] /\ task'[q] = task[q]
  BY <1>1 DEF EndStream, TypeOK
<1>4. events'[r] = <<"pending", "ok">> => kind = "ok"
  <2>1. events'[r] = Append(<<"pending">>, kind)
    BY <1>1, <1>2, EmitEffect DEF Answers
  <2>2. Append(<<"pending">>, kind) = <<"pending", kind>>
    BY <1>1, AppendSecond
  <2> QED BY <2>1, <2>2
<1>5. kind = "ok" =>
        stream[r].status = "success" /\ stream[r].sent = Signs /\ end = "eof"
  BY <1>2 DEF Terminal, Decodings, Signs
<1>6. SuccessOK(r)'
  BY <1>3, <1>4, <1>5 DEF SuccessOK, Tracked
<1>7. ASSUME NEW q \in Requests, q # r PROVE SuccessOK(q)'
  <2>1. events'[q] = events[q]
    BY <1>1, <1>7, EmitElsewhere
  <2> QED BY <1>3, <1>7, <2>1 DEF SuccessInv, SuccessOK
<1> QED BY <1>6, <1>7 DEF SuccessInv

LEMMA TaskKeepsSuccess ==
    ASSUME RequestInv, SuccessInv, NEW r \in Requests, TaskStep(r)
    PROVE  SuccessInv'
<1>1. CASE StreamCompleted(r)
  <2>1. PICK seen \in Decodings(stream[r]) :
          Emit(r, IF Terminal(stream[r].status, seen) = "success" THEN "ok" ELSE "upstream_error")
    BY <1>1 DEF StreamCompleted
  <2> DEFINE kind == IF Terminal(stream[r].status, seen) = "success" THEN "ok" ELSE "upstream_error"
  <2>2. /\ kind \in Answers /\ Emit(r, kind) /\ EndStream(r, "eof")
        /\ kind = "ok" => Terminal(stream[r].status, seen) = "success"
    BY <1>1, <2>1 DEF Answers, StreamCompleted
  <2> HIDE DEF kind
  <2> QED BY <2>1, <2>2, StreamEndsKeepSuccess
<1>2. CASE StreamFailed(r)
  BY <1>2, StreamEndsKeepSuccess DEF StreamFailed, Answers
<1>3. CASE StreamDropped(r)
  BY <1>3, StreamEndsKeepSuccess DEF StreamDropped, Answers
<1> QED BY <1>1, <1>2, <1>3, RelayKeepsSuccess, ChunkKeepsSuccess DEF TaskStep

LEMMA SuccessStep == RequestInv /\ SuccessInv /\ [Next]_vars => SuccessInv'
<1> SUFFICES ASSUME RequestInv, SuccessInv, [Next]_vars PROVE SuccessInv'
  OBVIOUS
<1>1. ASSUME NEW r \in Requests, HandlerStep(r) PROVE SuccessInv'
  BY <1>1, HandlerKeepsSuccess
<1>2. ASSUME NEW r \in Requests, TaskStep(r) PROVE SuccessInv'
  BY <1>2, TaskKeepsSuccess
<1>3. ASSUME \/ \E r \in Requests : AskPermits(r) \/ DropPermits(r)
             \/ WriteMetric
             \/ UNCHANGED vars
      PROVE  SuccessInv'
  <2>1. task' = task /\ stream' = stream /\ events' = events
    BY <1>3 DEF AskPermits, DropPermits, OnlyPermits, requestVars, WriteMetric, vars
  <2> QED BY <2>1 DEF SuccessInv, SuccessOK
<1> QED BY <1>1, <1>2, <1>3 DEF Next

(* A stream is shown as a success only if the upstream completed it.       *)
THEOREM SuccessIsComplete == Spec => []SuccessMeansComplete
<1>1. Init => SuccessInv
  BY DEF Init, SuccessInv, SuccessOK, NoStream, Tracker
<1>2. SuccessInv => SuccessMeansComplete
  BY DEF SuccessInv, SuccessOK, SuccessMeansComplete
<1> QED BY <1>1, <1>2, SuccessStep, RequestInductive, PTL DEF Spec
----------------------------------------------------------------------------
(* The stored metric *)

(* What will be stored for a request once the queue is empty: its last     *)
(* metric on the way, or the one already stored, is the last that counts.  *)
MetricOK(r) ==
    r \notin unmetered =>
        /\ (\A i \in 1 .. Len(queue) : queue[i].request # r)
              => LatestCounted(events[r], metric[r])
        /\ \A i \in 1 .. Len(queue) :
              queue[i].request = r /\ (\A j \in i + 1 .. Len(queue) : queue[j].request # r)
              => LatestCounted(events[r], queue[i].kind)

MetricInv == \A r \in Requests : MetricOK(r)

LEMMA UncountedKeepsLatest ==
    ASSUME NEW history \in Seq(Kinds), NEW kind \in {"pending", "cancelled"}, NEW latest,
           LatestCounted(history, latest)
    PROVE  LatestCounted(Append(history, kind), latest)
<1> DEFINE longer == Append(history, kind)
<1>1. kind \in Kinds
  BY DEF Kinds
<1>2. /\ Len(longer) = Len(history) + 1 /\ Len(history) \in Nat
      /\ \A i \in 1 .. Len(history) : longer[i] = history[i]
      /\ longer[Len(history) + 1] = kind
  BY <1>1
<1> HIDE DEF longer
<1>3. ASSUME latest = "none",
             \A i \in 1 .. Len(history) : history[i] \in {"pending", "cancelled"}
      PROVE  LatestCounted(longer, latest)
  BY <1>2, <1>3 DEF LatestCounted
<1>4. ASSUME NEW i \in 1 .. Len(history), history[i] = latest,
             history[i] \notin {"pending", "cancelled"},
             \A j \in i + 1 .. Len(history) : history[j] \in {"pending", "cancelled"}
      PROVE  LatestCounted(longer, latest)
  <2>1. i \in 1 .. Len(longer) /\ longer[i] = latest
    BY <1>2, <1>4
  <2>2. \A j \in i + 1 .. Len(longer) : longer[j] \in {"pending", "cancelled"}
    BY <1>2, <1>4
  <2> QED BY <1>4, <2>1, <2>2 DEF LatestCounted
<1>5. \/ latest = "none" /\ \A i \in 1 .. Len(history) : history[i] \in {"pending", "cancelled"}
      \/ \E i \in 1 .. Len(history) :
           /\ history[i] = latest /\ history[i] \notin {"pending", "cancelled"}
           /\ \A j \in i + 1 .. Len(history) : history[j] \in {"pending", "cancelled"}
  BY DEF LatestCounted
<1>6. LatestCounted(longer, latest)
  BY <1>3, <1>4, <1>5
<1> QED BY <1>6 DEF longer

LEMMA CountedIsLatest ==
    ASSUME NEW history \in Seq(Kinds), NEW kind \in Kinds \ {"pending", "cancelled"}
    PROVE  LatestCounted(Append(history, kind), kind)
<1> DEFINE longer == Append(history, kind)
<1>1. /\ Len(longer) = Len(history) + 1 /\ Len(history) \in Nat
      /\ longer[Len(history) + 1] = kind
  OBVIOUS
<1> HIDE DEF longer
<1>2. LatestCounted(longer, kind)
  BY <1>1 DEF LatestCounted
<1> QED BY <1>2 DEF longer

(* A metric at the end of the queue.                                       *)
LEMMA QueuedMetric ==
    ASSUME TypeOK, MetricInv, NEW r \in Requests, NEW kind \in Kinds,
           Counted(kind), Len(queue) < QueueLimit, Emit(r, kind)
    PROVE  MetricInv'
<1>0. kind # "nothing" /\ kind \in Kinds \ {"pending", "cancelled"}
  BY DEF Kinds, Counted
<1> DEFINE m == [request |-> r, kind |-> kind]
           M == [request : Requests, kind : Kinds]
<1>1. /\ queue' = Append(queue, m) /\ metric' = metric /\ unmetered' = unmetered
      /\ events' = [events EXCEPT ![r] = Append(@, kind)]
  <2>1. Len(queue) \in Nat /\ QueueLimit \in Nat
    BY LifecycleAssumption DEF TypeOK
  <2>2. ~(Len(queue) >= QueueLimit)
    BY <2>1
  <2> QED BY <1>0, <2>2 DEF Emit
<1>2. m \in M /\ queue \in Seq(M) /\ m.request = r /\ m.kind = kind
  BY DEF TypeOK
<1> HIDE DEF m, M
<1>3. /\ Len(queue') = Len(queue) + 1 /\ Len(queue) \in Nat
      /\ \A i \in 1 .. Len(queue) : queue'[i] = queue[i]
      /\ queue'[Len(queue) + 1] = m
  BY <1>1, <1>2
<1>4. LatestCounted(events'[r], kind)
  <2>1. events[r] \in Seq(Kinds) /\ events'[r] = Append(events[r], kind)
    BY <1>1 DEF TypeOK
  <2> QED BY <1>0, <2>1, CountedIsLatest
<1>5. MetricOK(r)'
  <2>1. ~\A i \in 1 .. Len(queue') : queue'[i].request # r
    BY <1>2, <1>3
  <2>2. ASSUME NEW i \in 1 .. Len(queue'),
               \A j \in i + 1 .. Len(queue') : queue'[j].request # r
        PROVE  i = Len(queue) + 1
    BY <1>2, <1>3, <2>2
  <2>3. \A i \in 1 .. Len(queue') :
           queue'[i].request = r /\ (\A j \in i + 1 .. Len(queue') : queue'[j].request # r)
           => LatestCounted(events'[r], queue'[i].kind)
    BY <1>2, <1>3, <1>4, <2>2
  <2> QED BY <2>1, <2>3 DEF MetricOK
<1>6. ASSUME NEW q \in Requests, q # r PROVE MetricOK(q)'
  <2>1. events'[q] = events[q]
    BY <1>1, <1>6 DEF TypeOK
  <2>2. MetricOK(q)
    BY DEF MetricInv
  <2>3. (\A i \in 1 .. Len(queue') : queue'[i].request # q)
          => \A i \in 1 .. Len(queue) : queue[i].request # q
    BY <1>3
  <2>4. ASSUME NEW i \in 1 .. Len(queue'), queue'[i].request = q, q \notin unmetered,
               \A j \in i + 1 .. Len(queue') : queue'[j].request # q
        PROVE  LatestCounted(events[q], queue'[i].kind)
    <3>1. i \in 1 .. Len(queue) /\ queue'[i] = queue[i]
      BY <1>2, <1>3, <1>6, <2>4
    <3>2. \A j \in i + 1 .. Len(queue) : queue[j].request # q
      BY <1>3, <2>4, <3>1
    <3> QED BY <2>2, <2>4, <3>1, <3>2 DEF MetricOK
  <2> QED BY <1>1, <2>1, <2>2, <2>3, <2>4 DEF MetricOK
<1> QED BY <1>5, <1>6 DEF MetricInv

LEMMA EmitKeepsMetrics ==
    ASSUME TypeOK, MetricInv, NEW r \in Requests, NEW kind \in Kinds \cup {"nothing"},
           Emit(r, kind)
    PROVE  MetricInv'
<1>1. CASE kind = "nothing"
  BY <1>1 DEF Emit, Silent, MetricInv, MetricOK
<1>2. CASE kind \in {"pending", "cancelled"}
  <2>1. /\ UNCHANGED <<queue, metric, unmetered>>
        /\ events' = [events EXCEPT ![r] = Append(@, kind)]
    BY <1>2 DEF Emit, Counted
  <2>2. ASSUME NEW q \in Requests, NEW latest, LatestCounted(events[q], latest)
        PROVE  LatestCounted(events'[q], latest)
    <3>1. events[q] \in Seq(Kinds)
      BY DEF TypeOK
    <3>2. CASE q = r
      <4>1. events'[q] = Append(events[q], kind)
        BY <2>1, <3>2 DEF TypeOK
      <4> QED BY <1>2, <2>2, <3>1, <4>1, UncountedKeepsLatest
    <3>3. CASE q # r
      BY <2>1, <2>2, <3>3 DEF TypeOK
    <3> QED BY <3>2, <3>3
  <2> QED BY <2>1, <2>2 DEF MetricInv, MetricOK
<1>3. CASE kind \in Kinds /\ Counted(kind) /\ Len(queue) < QueueLimit
  BY <1>3, QueuedMetric
<1>4. CASE kind \in Kinds /\ Counted(kind) /\ ~(Len(queue) < QueueLimit)
  <2>1. Len(queue) \in Nat /\ QueueLimit \in Nat /\ kind # "nothing"
    BY <1>4, LifecycleAssumption DEF TypeOK, Kinds
  <2>2. /\ UNCHANGED <<queue, metric>> /\ unmetered' = unmetered \cup {r}
        /\ events' = [events EXCEPT ![r] = Append(@, kind)]
    BY <1>4, <2>1 DEF Emit
  <2>3. \A q \in Requests : q # r => events'[q] = events[q]
    BY <2>2 DEF TypeOK
  <2> QED BY <2>2, <2>3 DEF MetricInv, MetricOK
<1> QED BY <1>1, <1>2, <1>3, <1>4 DEF Counted

LEMMA WriteKeepsMetrics ==
    ASSUME TypeOK, MetricInv, WriteMetric
    PROVE  MetricInv'
<1> DEFINE m == Head(queue)
           M == [request : Requests, kind : Kinds]
<1>1. /\ queue # <<>> /\ queue' = Tail(queue) /\ events' = events
      /\ \/ metric' = [metric EXCEPT ![m.request] = m.kind] /\ unmetered' = unmetered
         \/ unmetered' = unmetered \cup {m.request} /\ metric' = metric
  BY DEF WriteMetric, StoreMetric
<1>2. queue \in Seq(M)
  BY DEF TypeOK
<1> HIDE DEF M
<1>3. /\ Len(queue') = Len(queue) - 1 /\ Len(queue) \in Nat /\ Len(queue) >= 1
      /\ \A i \in 1 .. Len(queue') : queue'[i] = queue[i + 1]
      /\ m = queue[1]
  BY <1>1, <1>2
<1> HIDE DEF m
<1>4. ASSUME NEW r \in Requests, r \notin unmetered' PROVE MetricOK(r)'
  <2>1. MetricOK(r) /\ r \notin unmetered
    BY <1>1, <1>4 DEF MetricInv
  <2>2. ASSUME \A i \in 1 .. Len(queue') : queue'[i].request # r
        PROVE  LatestCounted(events[r], metric'[r])
    <3>1. \A i \in 2 .. Len(queue) : queue[i].request # r
      <4>1. ASSUME NEW i \in 2 .. Len(queue) PROVE queue[i].request # r
        <5>1. i - 1 \in 1 .. Len(queue') /\ queue'[i - 1] = queue[(i - 1) + 1]
          BY <1>3
        <5>2. (i - 1) + 1 = i
          OBVIOUS
        <5> QED BY <2>2, <5>1, <5>2
      <4> QED BY <4>1
    <3>2. CASE m.request = r
      <4>1. 1 \in 1 .. Len(queue) /\ queue[1].request = r
            /\ \A j \in 1 + 1 .. Len(queue) : queue[j].request # r
        BY <1>3, <3>1, <3>2
      <4>2. LatestCounted(events[r], m.kind)
        BY <1>3, <2>1, <4>1 DEF MetricOK
      <4>3. metric'[r] = m.kind
        BY <1>1, <1>4, <3>2 DEF TypeOK
      <4> QED BY <4>2, <4>3
    <3>3. CASE m.request # r
      <4>1. \A i \in 1 .. Len(queue) : queue[i].request # r
        BY <1>3, <3>1, <3>3
      <4>2. metric'[r] = metric[r]
        BY <1>1, <3>3 DEF TypeOK
      <4> QED BY <2>1, <4>1, <4>2 DEF MetricOK
    <3> QED BY <3>2, <3>3
  <2>3. ASSUME NEW i \in 1 .. Len(queue'), queue'[i].request = r,
               \A j \in i + 1 .. Len(queue') : queue'[j].request # r
        PROVE  LatestCounted(events[r], queue'[i].kind)
    <3>1. i + 1 \in 1 .. Len(queue) /\ queue'[i] = queue[i + 1]
      BY <1>3
    <3>2. ASSUME NEW j \in (i + 1) + 1 .. Len(queue) PROVE queue[j].request # r
      <4>1. j - 1 \in i + 1 .. Len(queue') /\ queue'[j - 1] = queue[(j - 1) + 1]
        BY <1>3
      <4>2. (j - 1) + 1 = j
        OBVIOUS
      <4> QED BY <2>3, <4>1, <4>2
    <3> QED BY <2>1, <2>3, <3>1, <3>2 DEF MetricOK
  <2> QED BY <1>1, <2>2, <2>3 DEF MetricOK
<1> QED BY <1>4 DEF MetricInv, MetricOK

(* Every step emits one event or none, or is the writer's.                 *)
LEMMA StepsEmit ==
    ASSUME [Next]_vars
    PROVE  \/ Silent \/ WriteMetric
           \/ \E r \in Requests, kind \in Kinds \cup {"nothing"} : Emit(r, kind)
<1> DEFINE Emits == \E r \in Requests, kind \in Kinds \cup {"nothing"} : Emit(r, kind)
<1>0. {"pending", "ok", "estimated", "upstream_error", "cancelled", "rejected", "ws"} = Kinds
  BY DEF Kinds
<1>1. ASSUME NEW r \in Requests, NEW kind \in Kinds \cup {"nothing"}, Emit(r, kind) PROVE Emits
  BY <1>1
<1>2. ASSUME NEW r \in Requests, NEW kind \in Kinds \cup {"nothing"}, Return(r, kind) PROVE Emits
  BY <1>2 DEF Return
<1> HIDE DEF Emits
<1>3. ASSUME NEW r \in Requests, HandlerStep(r) PROVE Silent \/ Emits
  <2>1. ASSUME Collected(r) PROVE Emits
    <3>1. PICK outcome \in Outcomes \ {"transport_error"}, billable \in BOOLEAN, invalid \in BOOLEAN :
            Answer(r, outcome, billable, invalid)
      BY <2>1 DEF Collected
    <3> DEFINE kind == IF outcome = "success" /\ ~invalid THEN "ok" ELSE "upstream_error"
    <3>2. kind \in Kinds \cup {"nothing"} /\ Return(r, kind)
      BY <1>0, <3>1 DEF Answer
    <3> HIDE DEF kind
    <3> QED BY <1>2, <3>2
  <2>2. ASSUME HandlerDropped(r) PROVE Emits
    <3>1. Return(r, IF armed[r] THEN "cancelled" ELSE "nothing")
      BY <2>2 DEF HandlerDropped
    <3> QED BY <1>0, <1>2, <3>1
  <2>3. ASSUME TakeRoute(r) \/ Collect(r) \/ StartStream(r) PROVE Silent
    BY <2>3 DEF TakeRoute, Collect, StartStream
  <2>4. ASSUME Upgrade(r) \/ Dispatch(r) PROVE Emits
    BY <1>0, <1>1, <2>4 DEF Upgrade, Dispatch
  <2>5. ASSUME \/ TurnAway(r) \/ RefuseRoute(r) \/ ListSelectedModels(r) \/ CatalogAnswered(r)
               \/ ConnectFailed(r) \/ RefuseBody(r) \/ UpstreamFailed(r) \/ EstimateTokens(r)
        PROVE  Emits
    BY <1>0, <1>2, <2>5 DEF TurnAway, RefuseRoute, ListSelectedModels, CatalogAnswered,
       ConnectFailed, RefuseBody, UpstreamFailed, EstimateTokens
  <2> QED BY <1>3, <2>1, <2>2, <2>3, <2>4, <2>5 DEF HandlerStep
<1>4. ASSUME NEW r \in Requests, TaskStep(r) PROVE Silent \/ Emits
  <2>1. ASSUME RelayEnds(r) PROVE Emits
    BY <1>0, <1>1, <2>1 DEF RelayEnds
  <2>2. ASSUME StreamChunk(r) PROVE Silent
    BY <2>2 DEF StreamChunk
  <2>3. ASSUME StreamCompleted(r) PROVE Emits
    <3>1. PICK seen \in Decodings(stream[r]) :
            Emit(r, IF Terminal(stream[r].status, seen) = "success" THEN "ok" ELSE "upstream_error")
      BY <2>3 DEF StreamCompleted
    <3> QED BY <1>0, <1>1, <3>1
  <2>4. ASSUME StreamFailed(r) \/ StreamDropped(r) PROVE Emits
    BY <1>0, <1>1, <2>4 DEF StreamFailed, StreamDropped
  <2> QED BY <1>4, <2>1, <2>2, <2>3, <2>4 DEF TaskStep
<1>5. ASSUME NEW r \in Requests, AskPermits(r) \/ DropPermits(r) PROVE Silent
  BY <1>5 DEF AskPermits, DropPermits, OnlyPermits, requestVars, Silent
<1>6. ASSUME UNCHANGED vars PROVE Silent
  BY <1>6 DEF vars, requestVars, Silent
<1>7. Silent \/ WriteMetric \/ Emits
  BY <1>3, <1>4, <1>5, <1>6 DEF Next
<1> QED BY <1>7 DEF Emits

(* Once its metrics have left the queue, the stored metric of a request is *)
(* the last of its events that counts, unless one was dropped.             *)
THEOREM MetricsStayLatest == Spec => []MetricsAreLatest
<1>1. Init => MetricInv
  BY DEF Init, MetricInv, MetricOK, LatestCounted
<1>2. TypeOK /\ MetricInv /\ [Next]_vars => MetricInv'
  <2> SUFFICES ASSUME TypeOK, MetricInv, [Next]_vars PROVE MetricInv'
    OBVIOUS
  <2>1. CASE Silent
    BY <2>1 DEF Silent, MetricInv, MetricOK
  <2> QED BY <2>1, StepsEmit, EmitKeepsMetrics, WriteKeepsMetrics
<1>3. MetricInv => MetricsAreLatest
  BY DEF MetricInv, MetricOK, MetricsAreLatest
<1> QED BY <1>1, <1>2, <1>3, LifecycleTypeCorrect, PTL DEF Spec

=============================================================================
