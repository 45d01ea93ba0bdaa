----------------------------- MODULE MC_Records -----------------------------
(***************************************************************************)
(* Instances of the modules about what the app and the daemon keep, and of *)
(* the two that decide what one request may become: console logs, permits, *)
(* rows, cached catalogs, the schema, and the headers of a request.  They  *)
(* share no state, so a run checks them one at a time: `subject` says      *)
(* which of them moves, and their state spaces add up.                     *)
(***************************************************************************)
EXTENDS ConsoleLogStore, RequestPermits, KeyStore, ModelCatalog, RequestRewrite, SchemaMigrations

CONSTANTS
    d1, a1, daemonSource, appSource,     \* ConsoleLogStore
    p1, p2, n1, n2, k1, k2, g1,          \* KeyStore
    b1, s1, s2, f1,                      \* ModelCatalog
    q1, q3, t1, t2                       \* RequestPermits

VARIABLE subject

recordVars ==
    <<subject, logVars, permitVars, storeVars, catalogVars, rewriteVars, schemaVars>>

\* ConsoleLogStore: faults, clock changes and clears are combined with one
\* process, or with few records of two; a third record is the
\* daemon's, and no fault meets it and a later day.  The second day meets a
\* fault or a clear, not both.
MCTwoSources == [p \in {d1, a1} |-> IF p = a1 THEN appSource ELSE daemonSource]
MCSmall ==
    (\A p \in Procs : proc[p].pc # "down") =>
        made.faults = 0 /\ clock.utc = 0 /\ (made.clears > 0 => made.records <= 1)
MCThirdRecord ==
    /\ clock.utc > 1 => made.faults + made.clears <= 1
    /\ made.records > 2 =>
        /\ proc[a1] = Off /\ FilesOf(disk, appSource) = {}
        /\ clock.utc = 0 \/ made.faults = 0

\* RequestPermits: the third request contends for the first token, and the
\* first request makes two of the four.
MCThird ==
    /\ token[q3] \in {NoToken, t1}
    /\ token[q1] \in {NoToken, t1, t2}

\* KeyStore: an empty store, or one with two providers, a key each, an outlet.
MCNames  == [p \in {p1, p2} |-> IF p = p1 THEN n1 ELSE n2]
MCOwners == [k \in {k1, k2} |-> IF k = k1 THEN p1 ELSE p2]
MCBound  == [g \in {g1} |-> k1]

\* ModelCatalog: two routes, one model with its Claude alias, which the
\* second route offers from the start; the key's own list comes by a save.
MCPlain  == [base |-> b1, claude |-> FALSE]
MCClaude == [base |-> b1, claude |-> TRUE]
MCLists  == {{MCPlain}, {MCPlain, MCClaude}}
MCSettings ==
    {[route |-> s1, mode |-> "provider", own |-> {}, rule |-> "fixed"],
     [route |-> s2, mode |-> "append", own |-> {MCPlain}, rule |-> "follow"],
     [route |-> s1, mode |-> "custom", own |-> {MCPlain, MCClaude}, rule |-> "fixed"]}

\* ModelCatalog: a preview stores nothing, so one of the discoveries makes them.
MCPreviews ==
    subject = "catalog" =>
        \A d \in Discoveries : query[d].at = "idle" \/ query[d].persist \/ d = f1

\* RequestRewrite: a target that exposes all models never reads the body, and
\* the base address has no part in the headers.
MCBodies ==
    subject = "rewrite" =>
        /\ target.base # "root" => target.rules = {}
        /\ inbound # Nil =>
            /\ target.base # "root" => inbound.named = {}
            /\ target.policy = "all" =>
                Len(inbound.models) <= 1 /\ ~inbound.query /\ ~inbound.json

\* One initial state of each module for the runs of the others.
MCStill == [settings |-> CHOOSE s \in MCSettings : s.mode # "custom",
            target   |-> CHOOSE t \in Targets : TRUE]

MCInit ==
    /\ subject \in {"log", "permits", "store", "catalog", "rewrite", "schema"}
    /\ LogInit /\ PermitsInit
    /\ StoreInit /\ job.p = p1 /\ job.k = k1
    /\ known = {} \/ (subject = "store" /\ Filled(MCNames, MCOwners, MCBound))
    /\ CatalogInit /\ settings.mode # "custom"
    /\ \A i \in Identities : i[1] = s2 => lists[i] = {MCPlain, MCClaude}
    /\ subject # "catalog" =>
        settings = MCStill.settings /\ \A i \in Identities : lists[i] = {MCPlain, MCClaude}
    /\ SchemaInit /\ (subject # "schema" => database = Fresh)
    /\ RewriteInit /\ (subject # "rewrite" => target = MCStill.target)

MCNext ==
    /\ UNCHANGED subject
    /\ \/ /\ subject = "log" /\ LogNext
          /\ UNCHANGED <<permitVars, storeVars, catalogVars, rewriteVars, schemaVars>>
       \/ /\ subject = "permits" /\ PermitsNext
          /\ UNCHANGED <<logVars, storeVars, catalogVars, rewriteVars, schemaVars>>
       \/ /\ subject = "store" /\ StoreNext
          /\ UNCHANGED <<logVars, permitVars, catalogVars, rewriteVars, schemaVars>>
       \/ /\ subject = "catalog" /\ CatalogNext
          /\ UNCHANGED <<logVars, permitVars, storeVars, rewriteVars, schemaVars>>
       \/ /\ subject = "rewrite" /\ RewriteNext
          /\ UNCHANGED <<logVars, permitVars, storeVars, catalogVars, schemaVars>>
       \/ /\ subject = "schema" /\ SchemaNext
          /\ UNCHANGED <<logVars, permitVars, storeVars, catalogVars, rewriteVars>>

MCSpec == MCInit /\ [][MCNext]_recordVars

\* Every variable of the module that moves keeps its type.
TypesOK ==
    /\ subject = "log" => LogTypeOK
    /\ subject = "permits" => PermitsTypeOK
    /\ subject = "store" => StoreTypeOK
    /\ subject = "catalog" => CatalogTypeOK
    /\ subject = "schema" => SchemaTypeOK
    /\ subject = "rewrite" => (outcome # Nil => inbound # Nil)
=============================================================================
