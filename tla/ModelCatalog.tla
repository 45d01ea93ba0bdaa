---------------------------- MODULE ModelCatalog ----------------------------
(***************************************************************************)
(* The model menu of a Claude Code key (services/model_catalog.rs,         *)
(* shared_runtime/model_mapping.rs): it is fetched from the upstream or    *)
(* taken from a cache in the settings table, merged with the key's own     *)
(* list, and its ids are renamed so that the client accepts them.  A table *)
(* of what each id stands for is stored with every menu, and the proxy     *)
(* decodes requests by it (handler.rs, decode_catalog_alias and            *)
(* apply_model_mapping).                                                   *)
(*                                                                         *)
(* A model id is a base name with or without the prefix "claude-"; ids     *)
(* with the prefix are those the client recognises.  Fetches of several    *)
(* requests overlap, and the settings of the key change meanwhile.         *)
(***************************************************************************)
EXTENDS Integers, FiniteSets

CONSTANTS
    Bases,               \* names of models
    Routes,              \* base URL, credential, proxy and headers of a key
    KeySettings,         \* settings a key can have: [route, mode, own, rule]
    Lists,               \* lists the upstream can have
    Tenants,             \* request headers that belong to the cache's identity
    Discoveries,
    Unset,
    FreshFor,            \* how long a cached catalog is served unasked (300 s)
    MaxAge, MaxSaves     \* bounds: the clock, and changes to settings and upstream

Ids == [base : Bases, claude : BOOLEAN]
Alias(id) == [id EXCEPT !.claude = TRUE]

VARIABLES
    settings,   \* the key: [route, mode, own, rule]
    lists,      \* what the upstream answers, per identity
    snapshots,  \* the cache: per identity Unset or [models, at]
    table,      \* the stored alias table: Unset or a function from shown ids
    query,      \* the discoveries in flight
    answered,   \* what the upstream answered so far
    age,        \* the clock
    saves,      \* changes so far
    writer      \* the discovery that wrote the table last

catalogVars == <<settings, lists, snapshots, table, query, answered, age, saves, writer>>

Identities == Routes \X Tenants
Modes3 == {"provider", "custom", "append"}

ASSUME CatalogConstants ==
    /\ KeySettings \subseteq
         [route : Routes, mode : Modes3, own : SUBSET Ids, rule : {"follow", "fixed"}]
    /\ \A s \in KeySettings : s.mode = "custom" => s.own # {}
    /\ Lists \subseteq SUBSET Ids
    /\ {FreshFor, MaxAge, MaxSaves} \subseteq Nat
    /\ \A S \in SUBSET Ids : Unset \notin [S -> Ids]

-----------------------------------------------------------------------------
(* effective_catalog_ex, as a function of settings and provider list.      *)

Listed(s, models) ==
    CASE s.mode = "custom" -> s.own
      [] s.mode = "append" -> s.own \union models
      [] OTHER -> models

(* (Variant: ids are renamed whether or not the new name is taken.)        *)
RenamedAlways(id, all) == Alias(id)

(* A real id of the catalog keeps its name; no alias may take it.          *)
Renamed(id, all) == IF id.claude \/ Alias(id) \in all THEN id ELSE Alias(id)

Menu(s, models) ==
    LET all == Listed(s, models) IN
    {[id |-> Renamed(id, all), upstream |-> id] : id \in all}

(* A model of the key's own list also decodes under its own name.          *)
TableOf(s, models) ==
    LET all == Listed(s, models)
        shown == {Renamed(id, all) : id \in all}
    IN  [id \in shown \union (all \intersect s.own) |->
            IF id \in shown
            THEN CHOOSE up \in all : Renamed(up, all) = id ELSE id]

(* What the proxy sends for a picked id, its suffix [1m] stripped: the     *)
(* table first, then the rules of the key.                                 *)
Sent(t, s, id) ==
    IF t # Unset /\ id \in DOMAIN t THEN <<"model", t[id]>>
    ELSE IF s.rule = "fixed" THEN <<"fixed">> ELSE <<"model", id>>

-----------------------------------------------------------------------------
(* Discovery.                                                              *)

Still == [at |-> "idle", ident |-> Unset, with |-> Unset, cached |-> Unset,
          got |-> Unset, kept |-> FALSE, error |-> FALSE, persist |-> FALSE]

(* (Variant: the settings of the route are left out of the identity.)      *)
IdentityOfTenant(s, tenant) == <<CHOOSE r \in Routes : TRUE, tenant>>

Identity(s, tenant) == <<s.route, tenant>>

(* The settings are a snapshot from before the fetch.  A custom list needs *)
(* no fetch; a preview (persist FALSE) prefers none and stores nothing.    *)
Begin(d, tenant, s, persist) ==
    /\ query[d].at = "idle"
    /\ LET ident == Identity(s, tenant)
           q == [Still EXCEPT !.ident = <<s.route, tenant>>, !.with = s, !.persist = persist,
                              !.cached = snapshots[ident]]
           fresh == q.cached # Unset /\ age - q.cached.at \in 0..(FreshFor - 1)
       IN  query' = [query EXCEPT ![d] =
               IF persist /\ s.mode = "custom"
               THEN [q EXCEPT !.at = "generate", !.got = [models |-> {}, at |-> age]]
               ELSE IF persist /\ fresh
               THEN [q EXCEPT !.at = "generate", !.got = q.cached, !.kept = TRUE]
               ELSE [q EXCEPT !.at = "fetch"]]
    /\ UNCHANGED <<settings, lists, snapshots, table, answered, age, saves, writer>>

Discover(d, tenant) == Begin(d, tenant, settings, TRUE)
Preview(d, tenant) == \E s \in {[settings EXCEPT !.route = r] : r \in Routes} : Begin(d, tenant, s, FALSE)

(* The answer is stored under the identity it was asked with.              *)
Fetched(d) ==
    LET q == query[d] IN
    /\ q.at = "fetch"
    /\ LET got == [models |-> lists[q.ident], at |-> age] IN
       /\ answered' = answered \union {<<q.ident, got>>}
       /\ snapshots' = IF q.persist
                       THEN [snapshots EXCEPT ![Identity(q.with, q.ident[2])] = got] ELSE snapshots
       /\ query' = [query EXCEPT ![d] =
            [q EXCEPT !.got = got, !.at = IF q.persist THEN "generate" ELSE "served"]]
    /\ UNCHANGED <<settings, lists, table, age, saves, writer>>

(* A refusal, a timeout, a page too large or a cursor that repeats: the    *)
(* cached catalog with the error, if there is one.                         *)
FetchFails(d) ==
    LET q == query[d] IN
    /\ q.at = "fetch"
    /\ query' = [query EXCEPT ![d] =
         IF q.cached = Unset THEN Still
         ELSE [q EXCEPT !.got = q.cached, !.kept = TRUE, !.error = TRUE,
                        !.at = IF q.persist THEN "generate" ELSE "served"]]
    /\ UNCHANGED <<settings, lists, snapshots, table, answered, age, saves, writer>>

(* An empty menu is an error, and leaves the table alone.                  *)
Generate(d) ==
    LET q == query[d] IN
    /\ q.at = "generate"
    /\ IF Listed(q.with, q.got.models) = {}
       THEN query' = [query EXCEPT ![d] = Still] /\ UNCHANGED <<table, writer>>
       ELSE /\ query' = [query EXCEPT ![d].at = "served"]
            /\ table' = TableOf(q.with, q.got.models)
            /\ writer' = d
    /\ UNCHANGED <<settings, lists, snapshots, answered, age, saves>>

(* The client is done with the menu.                                       *)
Leave(d) ==
    /\ query[d].at = "served"
    /\ query' = [query EXCEPT ![d] = Still]
    /\ UNCHANGED <<settings, lists, snapshots, table, answered, age, saves, writer>>

-----------------------------------------------------------------------------
(* What changes meanwhile.                                                 *)

Change == saves < MaxSaves /\ saves' = saves + 1

SaveSettings(s) ==
    /\ Change
    /\ s # settings
    /\ settings' = s
    /\ UNCHANGED <<lists, snapshots, table, query, answered, age, writer>>

UpstreamChanges(ident, models) ==
    /\ Change
    /\ lists' = [lists EXCEPT ![ident] = models]
    /\ UNCHANGED <<settings, snapshots, table, query, answered, age, writer>>

Ages ==
    /\ age < MaxAge
    /\ age' = age + 1
    /\ UNCHANGED <<settings, lists, snapshots, table, query, answered, saves, writer>>

-----------------------------------------------------------------------------
CatalogInit ==
    /\ settings \in KeySettings
    /\ lists \in [Identities -> Lists]
    /\ snapshots = [i \in Identities |-> Unset]
    /\ table = Unset
    /\ query = [d \in Discoveries |-> Still]
    /\ answered = {}
    /\ age = 0 /\ saves = 0
    /\ writer = Unset

CatalogNext ==
    \/ \E d \in Discoveries :
        \/ \E tenant \in Tenants : Discover(d, tenant) \/ Preview(d, tenant)
        \/ Fetched(d) \/ FetchFails(d) \/ Generate(d) \/ Leave(d)
    \/ \E s \in KeySettings : SaveSettings(s)
    \/ \E ident \in Identities, models \in Lists : UpstreamChanges(ident, models)
    \/ Ages

CatalogSpec == CatalogInit /\ [][CatalogNext]_catalogVars

-----------------------------------------------------------------------------
(* Properties.                                                             *)

(* A discovery that runs knows its settings, with the route it asks for.   *)
KeyRecords == [route : Routes, mode : Modes3, own : SUBSET Ids, rule : {"follow", "fixed"}]
Catalogs == [models : SUBSET Ids, at : Nat]
Queries ==
    [at : {"idle", "fetch", "generate", "served"},
     ident : Identities \union {Unset}, with : KeyRecords \union {Unset},
     cached : Catalogs \union {Unset}, got : Catalogs \union {Unset},
     kept : BOOLEAN, error : BOOLEAN, persist : BOOLEAN]

(* Every variable keeps its type.                                          *)
CatalogTypeOK ==
    /\ settings \in KeySettings
    /\ lists \in [Identities -> Lists]
    /\ snapshots \in [Identities -> Catalogs \union {Unset}]
    /\ query \in [Discoveries -> Queries]
    /\ table = Unset \/ \E S \in SUBSET Ids : table \in [S -> Ids]
    /\ age \in Nat /\ saves \in Nat
    /\ writer \in Discoveries \union {Unset}

(* A provider list that is served, from the cache or as a fallback after a *)
(* failed fetch too, is one the upstream gave under the route and the      *)
(* headers of this very request, however settings changed during fetches.  *)
CatalogOfTheRoute ==
    \A d \in Discoveries :
        LET q == query[d] IN
        q.at \in {"generate", "served"} /\ ~(q.persist /\ q.with.mode = "custom") =>
            <<q.ident, q.got>> \in answered

(* What the user picks from the menu that was written last is what the     *)
(* proxy sends, whatever rule the key has, whatever ids the provider lists *)
(* next to each other, and whatever menus were served before.              *)
PickedIsSent ==
    \A d \in Discoveries :
        LET q == query[d] IN
        q.at = "served" /\ q.persist /\ writer = d =>
            \A row \in Menu(q.with, q.got.models) :
                Sent(table, settings, row.id) = <<"model", row.upstream>>
=============================================================================
