--------------------------- MODULE RequestRewrite ---------------------------
(***************************************************************************)
(* What of a client's request reaches the upstream: the envelope and body  *)
(* checks of an outlet's model policy, the outbound headers of a plain     *)
(* request and of a WebSocket handshake, the upstream path.  Three kinds   *)
(* of route differ: an outlet (its own connection settings), a session of  *)
(* a client (the key's settings for that client) and a request passed      *)
(* through with the client's own credential.                               *)
(*                                                                         *)
(* Headers are a function from names to where their value came from; a     *)
(* path is whether it is an inference endpoint, under which alias, and     *)
(* whether it begins with /v1; a body is the sequence of its model fields. *)
(***************************************************************************)
EXTENDS Integers, Sequences, FiniteSets

CONSTANTS
    ModelIds,           \* model ids a client may name
    Exposed,            \* those a selected-model outlet exposes
    ConnectionLists,    \* what a client's Connection may list, each a set of headers
    RuleLists           \* the headers a provider's rules may ask for, likewise

\* "listed" and "extra" stand for any header the code does not know.
Credentials == {"authorization", "x-api-key"}
HopByHop    == {"connection", "te", "upgrade"}
Protected   == Credentials \cup HopByHop \cup {"accept-encoding"}
HeaderNames == Protected \cup {"user-agent", "extra", "listed"}

ASSUME RewriteAssumption ==
    /\ Exposed \subseteq ModelIds /\ Exposed # {}
    /\ ConnectionLists \cup RuleLists \subseteq SUBSET HeaderNames
    /\ {} \in ConnectionLists \cap RuleLists

VARIABLES
    target,    \* the resolved route and its settings
    inbound,   \* the client's request, once it has arrived
    outcome    \* what became of it

rewriteVars == <<target, inbound, outcome>>

\* The settings of a route.  Its base address may have a prefix and may end in
\* /v1; the provider may ask for further headers.
Settings(kinds, clients, schemes, policies) ==
    [kind : kinds, client : clients, scheme : schemes, policy : policies,
     agent : BOOLEAN, base : {"root", "v1", "relay", "relay/v1"},
     rules : RuleLists]

Targets ==
    Settings({"outlet"}, {"any"}, {"bearer", "x-api-key", "none"}, {"all", "selected"})
    \cup Settings({"session"}, {"openai", "claude"},
                  {"bearer", "x-api-key", "none", "protocol"}, {"all"})
    \cup {t \in Settings({"pass"}, {"openai", "claude"}, {"none"}, {"all"}) :
             ~t.agent /\ t.base = "root" /\ t.rules = {}}

\* The credential a client presents: the local token in one of the headers,
\* with or without another credential beside it, or its own.
Presented(kind) ==
    IF kind = "pass"
       THEN {[n \in {"authorization"} |-> "client"], [n \in {"x-api-key"} |-> "client"]}
       ELSE {[n \in {"authorization"} |-> "local"], [n \in {"x-api-key"} |-> "local"],
             [n \in Credentials |-> IF n = "authorization" THEN "local" ELSE "client"]}

\* One header map over another.
Over(h, g) == [n \in DOMAIN h \cup DOMAIN g |-> IF n \in DOMAIN h THEN h[n] ELSE g[n]]

Ordinary == {"user-agent", "extra", "listed", "connection", "te", "accept-encoding"}
Upgrade(yes) == IF yes THEN [n \in {"upgrade", "connection"} |-> "client"] ELSE <<>>
HeadersOf(kind, websocket) ==
    {Over(credential, Over(others, Upgrade(websocket))) :
        credential \in Presented(kind), others \in {<<>>, [n \in Ordinary |-> "client"]}}

Bodies == {<<>>} \cup {<<m>> : m \in ModelIds} \cup {<<m, n>> : m, n \in ModelIds}
Paths  == {"standard", "aliased", "discovery", "other"}

\* An upgrade is a GET; an alias holds its own /v1; only a POST has a body.
Envelopes ==
    {e \in [method : {"GET", "POST"}, path : Paths, versioned : BOOLEAN, query : BOOLEAN,
            json : BOOLEAN, models : Bodies, websocket : BOOLEAN] :
        /\ e.websocket => e.method = "GET"
        /\ e.path = "aliased" => ~e.versioned
        /\ e.method = "GET" => ~e.json /\ e.models = <<>>}

Nil == [kind |-> "nothing"]

RewriteInit == target \in Targets /\ inbound = Nil /\ outcome = Nil

-----------------------------------------------------------------------------
(***************************************************************************)
(* Headers.  Inserting replaces; a provider's header is only added where   *)
(* none is there.                                                          *)
(***************************************************************************)
Strike(h, names) == [n \in DOMAIN h \ names |-> h[n]]
Put(h, name, value) == Over([n \in {name} |-> value], h)

\* Connection goes, with every header it lists.
StripHopByHop(h, named) == Strike(h, HopByHop \cup named)

AddRules(h, rules) == Over(h, [n \in rules |-> "provider"])

ApplyAuthOnly(h, scheme) ==
    CASE scheme = "bearer"    -> Put(h, "authorization", "key")
      [] scheme = "x-api-key" -> Put(h, "x-api-key", "key")
      [] scheme = "none"      -> h
ApplyAuth(h, scheme) ==
    CASE scheme = "bearer"    -> Put(Strike(h, {"x-api-key"}), "authorization", "key")
      [] scheme = "x-api-key" -> Put(Strike(h, {"authorization"}), "x-api-key", "key")
      [] scheme = "none"      -> Strike(h, Credentials)

ChosenAgent(h, t) == IF t.agent THEN Put(h, "user-agent", "chosen") ELSE h

\* An outlet: one policy for requests, handshakes and catalog queries.  Rules
\* that name a protected header are skipped.
OutletHeaders(t, h, named) ==
    LET stripped == Strike(StripHopByHop(h, named), Protected)
    IN  ChosenAgent(ApplyAuth(AddRules(stripped, t.rules \ Protected), t.scheme), t)

\* The application's own User-Agent, when a catalog query has no other.
QueryHeaders(t, h, named) == Over(OutletHeaders(t, h, named), [n \in {"user-agent"} |-> "app"])

\* A key that names no scheme follows its client's protocol.
SchemeOf(t) ==
    IF t.scheme = "protocol"
       THEN IF t.client = "openai" THEN "bearer" ELSE "x-api-key"
       ELSE t.scheme

\* A session: the credential before the strip, the provider's headers (any of
\* them, but none in a handshake) and the chosen agent after it.
SessionHeaders(t, h, named, websocket) ==
    LET stripped == StripHopByHop(ApplyAuth(h, SchemeOf(t)), named)
        plain == AddRules(Strike(stripped, {"accept-encoding"}), t.rules)
    IN ChosenAgent(IF websocket THEN stripped ELSE plain, t)

PassHeaders(h, named, websocket) ==
    Strike(StripHopByHop(h, named), IF websocket THEN {} ELSE {"accept-encoding"})

Headers(t, r) ==
    CASE t.kind = "outlet"  -> OutletHeaders(t, r.headers, r.named)
      [] t.kind = "session" -> SessionHeaders(t, r.headers, r.named, r.websocket)
      [] t.kind = "pass"    -> PassHeaders(r.headers, r.named, r.websocket)

-----------------------------------------------------------------------------
(***************************************************************************)
(* The upstream path, and how many /v1 it has.                             *)
(***************************************************************************)
EndsInV1(base) == base \in {"v1", "relay/v1"}
Count(condition) == IF condition THEN 1 ELSE 0

\* The outlet's alias is resolved only where the policy authorised it.
CanonicalPath(t, path) ==
    IF path = "aliased" /\ t.policy = "selected" THEN "standard" ELSE path

\* join_upstream_path: the base's /v1, the path's or an added one, and never
\* two; an alias that is kept has its own further down.
OutletVersions(t, r) == 1 + Count(CanonicalPath(t, r.path) = "aliased")

\* strip_common_prefix compares the path with the whole path of the base.
SessionVersions(t, r) ==
    Count(EndsInV1(t.base)) + Count(r.versioned \/ r.path = "aliased")
        - Count(t.base = "v1" /\ r.versioned)

\* /claude is cut off, /openai is cut off with its /v1.
PassVersions(t) == Count(t.client = "claude")

Versions(t, r) ==
    CASE t.kind = "outlet"  -> OutletVersions(t, r)
      [] t.kind = "session" -> SessionVersions(t, r)
      [] t.kind = "pass"    -> PassVersions(t)

-----------------------------------------------------------------------------
(***************************************************************************)
(* The model policy of an outlet that exposes selected models.             *)
(***************************************************************************)
Discovery(r) == r.method = "GET" /\ r.path = "discovery"

EnvelopeAllowed(r) ==
    /\ ~r.websocket /\ ~r.query
    /\ \/ Discovery(r)
       \/ r.method = "POST" /\ r.path \in {"standard", "aliased"} /\ r.json

\* The body names its model exactly once.
BodyAllowed(models) == Len(models) = 1 /\ models[1] \in Exposed

Arrive ==
    /\ inbound = Nil
    /\ \E e \in Envelopes, named \in ConnectionLists :
          \E h \in HeadersOf(target.kind, e.websocket) :
              /\ named # {} => "connection" \in DOMAIN h
              /\ target.kind = "pass" => e.path = "aliased"
              /\ inbound' = Over([headers |-> h, named |-> named], e)
    /\ UNCHANGED <<target, outcome>>

Waiting == inbound # Nil /\ outcome = Nil
Selected == target.policy = "selected"

Refuse ==
    /\ Waiting /\ Selected
    /\ ~EnvelopeAllowed(inbound) \/ (~Discovery(inbound) /\ ~BodyAllowed(inbound.models))
    /\ outcome' = [kind |-> "refused"]
    /\ UNCHANGED <<target, inbound>>

\* A selected-model outlet answers a discovery from its own list.
AnswerList ==
    /\ Waiting /\ Selected
    /\ EnvelopeAllowed(inbound) /\ Discovery(inbound)
    /\ outcome' = [kind |-> "listed", models |-> Exposed]
    /\ UNCHANGED <<target, inbound>>

\* Any other outlet asks the upstream over the same connection.
QueryCatalog ==
    /\ Waiting /\ target.kind = "outlet" /\ ~Selected /\ Discovery(inbound)
    /\ outcome' = [kind |-> "queried", headers |-> QueryHeaders(target, inbound.headers, inbound.named)]
    /\ UNCHANGED <<target, inbound>>

\* A session's discovery is answered from the key's catalog.
AnswerCatalog ==
    /\ Waiting /\ target.kind = "session" /\ Discovery(inbound)
    /\ outcome' = [kind |-> "catalog"]
    /\ UNCHANGED <<target, inbound>>

Forward ==
    /\ Waiting
    /\ Selected => EnvelopeAllowed(inbound) /\ BodyAllowed(inbound.models)
    /\ ~(Discovery(inbound) /\ target.kind \in {"outlet", "session"})
    /\ outcome' = [kind |-> "sent", headers |-> Headers(target, inbound),
                   path |-> CanonicalPath(target, inbound.path),
                   versions |-> Versions(target, inbound), models |-> inbound.models]
    /\ UNCHANGED <<target, inbound>>

RewriteNext == Arrive \/ Refuse \/ AnswerList \/ QueryCatalog \/ AnswerCatalog \/ Forward

RewriteSpec == RewriteInit /\ [][RewriteNext]_rewriteVars

-----------------------------------------------------------------------------
Outbound == outcome.kind \in {"sent", "queried"}
Values(h) == {h[n] : n \in DOMAIN h}

\* The header that carries the bound key; and the rules that go out even where
\* they name a credential or a hop-by-hop header.
KeyHeader(t) ==
    CASE SchemeOf(t) = "bearer"    -> {"authorization"}
      [] SchemeOf(t) = "x-api-key" -> {"x-api-key"}
      [] SchemeOf(t) = "none"      -> {}
Unreserved(t, r) == IF t.kind = "session" /\ ~r.websocket THEN t.rules ELSE {}

HeadersKept(t, r, h) ==
    /\ "local" \notin Values(h)
    /\ t.kind # "pass" =>
          /\ \A n \in DOMAIN h \cap Credentials :
                \/ n \in KeyHeader(t) /\ h[n] = "key"
                \/ n \in Unreserved(t, r) /\ h[n] = "provider"
          /\ \A n \in KeyHeader(t) :
                (n \in DOMAIN h /\ h[n] = "key") \/ (t.kind = "session" /\ n \in r.named)
    /\ \A n \in DOMAIN h \cap HopByHop : n \in Unreserved(t, r) /\ h[n] = "provider"
    /\ \A n \in DOMAIN h \cap r.named : h[n] # "client"
    /\ t.agent => "user-agent" \in DOMAIN h /\ h["user-agent"] = "chosen"
    /\ \A n \in DOMAIN r.headers \ (Protected \cup r.named) :
          n \in DOMAIN h /\ (h[n] = "client" \/ (n = "user-agent" /\ t.agent))

(***************************************************************************)
(* What leaves for the upstream, whatever the client's Connection lists    *)
(* and whatever headers the provider's rules name.  The local token stays  *)
(* here, and no other credential of the client's goes beside the key.  An  *)
(* outlet's request, handshake or catalog query carries the bound key, in  *)
(* the one header the scheme names; a session's does unless the client's   *)
(* Connection lists that header, since the key is set before the strip.    *)
(* A rule may add a credential or a hop-by-hop header to a session's       *)
(* request, never to a handshake or to anything of an outlet's.  Nothing   *)
(* the client says of its own connection goes on, nor what its Connection  *)
(* lists; a chosen User-Agent wins over the client's, every other header   *)
(* of the client over the provider's.  And an outlet that exposes selected *)
(* models sends only a body that names one of them, to a standard endpoint *)
(* with one /v1, over plain HTTP.                                          *)
(***************************************************************************)
SentAsThePolicySays ==
    Outbound =>
        /\ HeadersKept(target, inbound, outcome.headers)
        /\ outcome.kind = "sent" /\ target.policy = "selected" =>
              /\ outcome.path = "standard" /\ outcome.versions = 1
              /\ ~inbound.websocket
              /\ Len(outcome.models) = 1 /\ outcome.models[1] \in Exposed

(***************************************************************************)
(* "If the start of req_path and the end of base_path have a common part   *)
(* (such as /v1)", it is joined once (proxy/handler.rs:1800, and :1772):   *)
(* no session's request goes out with two.                                 *)
(***************************************************************************)
VersionJoinedOnce ==
    outcome.kind = "sent" /\ target.kind = "session" /\ inbound.path # "aliased"
        => outcome.versions <= 1
=============================================================================
