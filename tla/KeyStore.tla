------------------------------ MODULE KeyStore ------------------------------
(***************************************************************************)
(* Providers, keys and gateway outlets in the database (db/providers.rs,   *)
(* db/api_keys.rs, db/proxy_sessions.rs, commands/gateways.rs), their      *)
(* export and import (services/import_export.rs), and the WebSocket relay  *)
(* of an outlet, which reads them again for every frame of its client.     *)
(*                                                                         *)
(* The app writes, one command at a time under its mutex, but statement by *)
(* statement: the daemon reads through a connection of its own and sees    *)
(* what lies between two statements.  Keys refer to their provider by a    *)
(* foreign key, outlets refer to both by nothing at all.                   *)
(***************************************************************************)
EXTENDS Integers, FiniteSets

CONSTANTS
    ProviderIds, ProviderNames, KeyIds, OutletTokens,
    Absent,               \* no row
    MaxEdits, MaxBreaks   \* bounds: commands, and faults, of one behaviour

ASSUME StoreConstants ==
    /\ MaxEdits \in Nat /\ MaxBreaks \in Nat
    /\ Absent \notin [name : ProviderNames, on : BOOLEAN]
    /\ Absent \notin [of : ProviderIds, usable : BOOLEAN]
    /\ Absent \notin [of : ProviderIds, key : KeyIds, on : BOOLEAN, all : BOOLEAN]

VARIABLES
    provs,     \* providers: [name, on]
    keyRows,   \* api_keys: [of, usable], usable for active and not exhausted
    outlets,   \* gateway rows of proxy_sessions: [of, key, on, all], all for the policy All
    enforced,  \* PRAGMA foreign_keys of the app's connection
    job,       \* the command the app is in
    known,     \* ids and tokens handed out, never drawn again
    backup,    \* providers of the last export: [id, name, keys]
    replaced,  \* keys that went because an import replaced their provider's row
    relay,     \* the open upgrade of an outlet in the daemon
    since,     \* what held at some moment since its last frame arrived
    spent      \* commands and faults so far

storeVars == <<provs, keyRows, outlets, enforced, job, known, backup, replaced, relay, since, spent>>
rows == <<provs, keyRows, outlets>>
daemonSide == <<relay, since>>

ProviderRows == [name : ProviderNames, on : BOOLEAN]
KeyRowSet == [of : ProviderIds, usable : BOOLEAN]
OutletRows == [of : ProviderIds, key : KeyIds, on : BOOLEAN, all : BOOLEAN]
Entries2 == [id : ProviderIds, name : ProviderNames, keys : SUBSET KeyIds]

JobSteps == {"rest", "keyOutlets", "keyRow", "providerOutlets", "providerRow",
             "import", "insert", "insertKeys", "logsOff", "logsIn"}

\* p, k: the rows a delete is about; todo, entry, keys: what an import has
\* still to insert; overwrite, same (ids), logs: its options and its file.
Jobs == [at : JobSteps, p : ProviderIds, k : KeyIds, importing : BOOLEAN,
         overwrite : BOOLEAN, same : BOOLEAN, logs : BOOLEAN,
         todo : SUBSET Entries2, entry : Entries2 \union {Absent}, keys : SUBSET KeyIds]

Resting(p, k) ==
    [at |-> "rest", p |-> p, k |-> k, importing |-> FALSE, overwrite |-> FALSE, same |-> TRUE,
     logs |-> FALSE, todo |-> {}, entry |-> Absent, keys |-> {}]

OwnedBy(p) == {k \in KeyIds : keyRows[k] # Absent /\ keyRows[k].of = p}

-----------------------------------------------------------------------------
(* The commands of the app.                                                *)

Command == job.at = "rest" /\ spent.edits < MaxEdits /\ spent' = [spent EXCEPT !.edits = @ + 1]
Breaks == spent.breaks < MaxBreaks /\ spent' = [spent EXCEPT !.breaks = @ + 1]

AddProvider(p, n) ==
    /\ Command
    /\ p \notin known /\ known' = known \union {p}
    /\ provs' = [provs EXCEPT ![p] = [name |-> n, on |-> TRUE]]
    /\ UNCHANGED <<keyRows, outlets, enforced, job, backup, replaced, relay>>

SaveProvider(p, row) ==
    /\ Command
    /\ provs[p] # Absent /\ provs[p] # row
    /\ provs' = [provs EXCEPT ![p] = row]
    /\ UNCHANGED <<keyRows, outlets, enforced, job, known, backup, replaced, relay>>

(* The insert names a provider; the foreign key asks for its row.          *)
AddKey(k, p) ==
    /\ Command
    /\ k \notin known /\ known' = known \union {k}
    /\ provs[p] # Absent \/ ~enforced
    /\ keyRows' = [keyRows EXCEPT ![k] = [of |-> p, usable |-> TRUE]]
    /\ UNCHANGED <<provs, outlets, enforced, job, backup, replaced, relay>>

(* is_active and is_exhausted; no update moves a key to another provider.  *)
SaveKey(k) ==
    /\ Command
    /\ keyRows[k] # Absent
    /\ keyRows' = [keyRows EXCEPT ![k].usable = ~@]
    /\ UNCHANGED <<provs, outlets, enforced, job, known, backup, replaced, relay>>

ValidateBinding(p, k) ==
    /\ provs[p] # Absent
    /\ keyRows[k] # Absent /\ keyRows[k].of = p /\ keyRows[k].usable

CreateOutlet(g, p, k, all) ==
    /\ Command
    /\ g \notin known /\ known' = known \union {g}
    /\ ValidateBinding(p, k)
    /\ outlets' = [outlets EXCEPT ![g] = [of |-> p, key |-> k, on |-> TRUE, all |-> all]]
    /\ UNCHANGED <<provs, keyRows, enforced, job, backup, replaced, relay>>

(* Every update validates the binding, also one that only turns it off.    *)
UpdateOutlet(g, row) ==
    /\ Command
    /\ outlets[g] # Absent /\ outlets[g] # row
    /\ ValidateBinding(row.of, row.key)
    /\ outlets' = [outlets EXCEPT ![g] = row]
    /\ UNCHANGED <<provs, keyRows, enforced, job, known, backup, replaced, relay>>

DeleteOutlet(g) ==
    /\ Command
    /\ outlets[g] # Absent
    /\ outlets' = [outlets EXCEPT ![g] = Absent]
    /\ UNCHANGED <<provs, keyRows, enforced, job, known, backup, replaced, relay>>

(* Deletes find their rows first by the snapshot of names into the logs.   *)
DeleteKey(k) ==
    /\ Command
    /\ keyRows[k] # Absent
    /\ job' = [job EXCEPT !.at = "keyOutlets", !.k = k]
    /\ UNCHANGED <<rows, enforced, known, backup, replaced, relay>>

DeleteProvider(p) ==
    /\ Command
    /\ provs[p] # Absent
    /\ job' = [job EXCEPT !.at = "providerOutlets", !.p = p]
    /\ UNCHANGED <<rows, enforced, known, backup, replaced, relay>>

(* A redacted export has keys without values, which an import leaves out.  *)
Export(redacted) ==
    /\ Command
    /\ backup' = {[id |-> p, name |-> provs[p].name, keys |-> IF redacted THEN {} ELSE OwnedBy(p)] :
                    p \in {q \in ProviderIds : provs[q] # Absent}}
    /\ UNCHANGED <<rows, enforced, job, known, replaced, relay>>

(* same: a version 2 file, whose ids the import keeps.                     *)
Import(overwrite, same, logs) ==
    /\ Command
    /\ backup # {}
    /\ job' = [job EXCEPT !.at = "import", !.importing = TRUE, !.overwrite = overwrite,
                          !.same = same, !.logs = logs, !.todo = backup]
    /\ UNCHANGED <<rows, enforced, known, backup, replaced, relay>>

-----------------------------------------------------------------------------
(* The statements of a delete.                                             *)

Rest == Resting(job.p, job.k)

OutletsWithout(S) == [g \in OutletTokens |-> IF g \in S THEN Absent ELSE outlets[g]]
BoundToKey(k) == {g \in OutletTokens : outlets[g] # Absent /\ outlets[g].key = k}
BoundToProvider(p) == {g \in OutletTokens : outlets[g] # Absent /\ outlets[g].of = p}

(* (Variant: the foreign keys are relied on for the outlets.)              *)
KeyOutletsLeft ==
    /\ job.at = "keyOutlets"
    /\ job' = [job EXCEPT !.at = "keyRow"]
    /\ UNCHANGED <<rows, enforced, known, backup, replaced, relay, spent>>

KeyOutlets ==
    /\ job.at = "keyOutlets"
    /\ outlets' = OutletsWithout(BoundToKey(job.k))
    /\ job' = [job EXCEPT !.at = "keyRow"]
    /\ UNCHANGED <<provs, keyRows, enforced, known, backup, replaced, relay, spent>>

KeyRow ==
    /\ job.at = "keyRow"
    /\ keyRows' = [keyRows EXCEPT ![job.k] = Absent]
    /\ job' = Rest
    /\ UNCHANGED <<provs, outlets, enforced, known, backup, replaced, relay, spent>>

ProviderOutlets ==
    /\ job.at = "providerOutlets"
    /\ outlets' = OutletsWithout(BoundToProvider(job.p))
    /\ job' = [job EXCEPT !.at = "providerRow"]
    /\ UNCHANGED <<provs, keyRows, enforced, known, backup, replaced, relay, spent>>

(* ON DELETE CASCADE, while the connection enforces it.                    *)
Cascade(p) == [k \in KeyIds |-> IF enforced /\ k \in OwnedBy(p) THEN Absent ELSE keyRows[k]]

ProviderRow ==
    /\ job.at = "providerRow"
    /\ provs' = [provs EXCEPT ![job.p] = Absent]
    /\ keyRows' = Cascade(job.p)
    /\ job' = IF job.importing THEN [job EXCEPT !.at = "insert"] ELSE Rest
    /\ UNCHANGED <<outlets, enforced, known, backup, replaced, relay, spent>>

-----------------------------------------------------------------------------
(* The statements of an import.                                            *)

SameName(n) == {p \in ProviderIds : provs[p] # Absent /\ provs[p].name = n}

(* The providers of the file in turn, each matched by its name.            *)
NextEntry(e) ==
    /\ job.at = "import" /\ e \in job.todo
    /\ LET j == [job EXCEPT !.todo = @ \ {e}, !.entry = e] IN
       \/ SameName(e.name) # {} /\ ~job.overwrite /\ job' = j
       \/ /\ job.overwrite
          /\ \E p \in SameName(e.name) : job' = [j EXCEPT !.at = "providerOutlets", !.p = p]
       \/ SameName(e.name) = {} /\ job' = [j EXCEPT !.at = "insert"]
    /\ UNCHANGED <<rows, enforced, known, backup, replaced, relay, spent>>

(* INSERT OR REPLACE under the id of the file: a row of that id under      *)
(* another name goes, and its keys with it.                                *)
InsertProvider ==
    /\ job.at = "insert" /\ job.same
    /\ LET p == job.entry.id IN
       /\ provs' = [provs EXCEPT ![p] = [name |-> job.entry.name, on |-> TRUE]]
       /\ IF provs[p] # Absent
          THEN keyRows' = Cascade(p) /\ replaced' = replaced \union OwnedBy(p)
          ELSE UNCHANGED <<keyRows, replaced>>
       /\ job' = [job EXCEPT !.at = "insertKeys", !.p = p, !.keys = job.entry.keys]
    /\ UNCHANGED <<outlets, enforced, known, backup, relay, spent>>

(* An old file: new ids for the provider and its keys.                     *)
InsertFresh(p) ==
    /\ job.at = "insert" /\ ~job.same
    /\ p \notin known /\ known' = known \union {p}
    /\ provs' = [provs EXCEPT ![p] = [name |-> job.entry.name, on |-> TRUE]]
    /\ job' = [job EXCEPT !.at = "insertKeys", !.p = p, !.keys = job.entry.keys]
    /\ UNCHANGED <<keyRows, outlets, enforced, backup, replaced, relay, spent>>

(* A plain INSERT: an id that is taken is an error, noted and passed over. *)
InsertKey(k, id) ==
    /\ job.at = "insertKeys" /\ k \in job.keys
    /\ IF job.same THEN id = k ELSE id \notin known
    /\ known' = known \union {id}
    /\ keyRows' = IF keyRows[id] = Absent
                  THEN [keyRows EXCEPT ![id] = [of |-> job.p, usable |-> TRUE]] ELSE keyRows
    /\ job' = [job EXCEPT !.keys = @ \ {k}]
    /\ UNCHANGED <<provs, outlets, enforced, backup, replaced, relay, spent>>

EntryDone ==
    /\ job.at = "insertKeys" /\ job.keys = {}
    /\ job' = [job EXCEPT !.at = "import"]
    /\ UNCHANGED <<rows, enforced, known, backup, replaced, relay, spent>>

ProvidersDone ==
    /\ job.at = "import" /\ job.todo = {}
    /\ job' = IF job.logs THEN [job EXCEPT !.at = "logsOff"] ELSE Rest
    /\ UNCHANGED <<rows, enforced, known, backup, replaced, relay, spent>>

(* PRAGMA foreign_keys = OFF; BEGIN IMMEDIATE.  When the second fails,     *)
(* nobody turns the first back.                                            *)
LogsOff(begun) ==
    /\ job.at = "logsOff"
    /\ IF begun THEN UNCHANGED spent ELSE Breaks
    /\ enforced' = FALSE
    /\ job' = IF begun THEN [job EXCEPT !.at = "logsIn"] ELSE Rest
    /\ UNCHANGED <<rows, known, backup, replaced, relay>>

(* COMMIT or ROLLBACK; PRAGMA foreign_keys = ON.  When the first fails,    *)
(* the batch ends there.                                                   *)
LogsIn(ended) ==
    /\ job.at = "logsIn"
    /\ IF ended THEN UNCHANGED spent ELSE Breaks
    /\ enforced' = ended
    /\ job' = Rest
    /\ UNCHANGED <<rows, known, backup, replaced, relay>>

(* A statement fails: a delete ends with it, an import goes on with what   *)
(* comes next, a key or a provider of the file.                            *)
StatementFails ==
    /\ Breaks
    /\ job.at \in {"keyOutlets", "keyRow", "providerOutlets", "providerRow", "insert", "insertKeys"}
    /\ \/ ~job.importing /\ job' = Rest
       \/ job.importing /\ job.at # "insertKeys" /\ job' = [job EXCEPT !.at = "import"]
       \/ job.at = "insertKeys" /\ \E k \in job.keys : job' = [job EXCEPT !.keys = @ \ {k}]
    /\ UNCHANGED <<rows, enforced, known, backup, replaced, relay>>

(* The app ends and starts again; a new connection enforces foreign keys.  *)
AppRestarts ==
    /\ Breaks
    /\ job' = Rest /\ enforced' = TRUE
    /\ UNCHANGED <<rows, known, backup, replaced, relay>>

-----------------------------------------------------------------------------
(* The relay of an upgrade, in the daemon: three reads for the handshake   *)
(* and for every text or binary frame of the client.                       *)

Down(r) == [r EXCEPT !.at = "none", !.up = FALSE]

Handshake(g) ==
    /\ relay.at = "none"
    /\ outlets[g] # Absent
    /\ relay' = [relay EXCEPT !.at = "session", !.up = FALSE, !.g = g]

FrameArrives ==
    /\ relay.at = "open"
    /\ relay' = [relay EXCEPT !.at = "session"]

(* (Variant: the grant of the handshake is kept.)                          *)
ReadSessionOnce ==
    /\ relay.at = "session"
    /\ LET o == outlets[relay.g] IN
       relay' = IF relay.up THEN [relay EXCEPT !.at = "sent"]
                ELSE IF o # Absent /\ o.on /\ o.all
                THEN [relay EXCEPT !.at = "provider", !.of = o.of, !.key = o.key]
                ELSE Down(relay)

(* The upgrade of an outlet needs the policy All; a frame also needs the   *)
(* binding of the handshake.                                               *)
ReadSession ==
    /\ relay.at = "session"
    /\ LET o == outlets[relay.g] IN
       relay' = IF o # Absent /\ o.on /\ o.all
                   /\ (relay.up => o.of = relay.of /\ o.key = relay.key)
                THEN [relay EXCEPT !.at = "provider", !.of = o.of, !.key = o.key]
                ELSE Down(relay)

ReadProvider ==
    /\ relay.at = "provider"
    /\ relay' = IF provs[relay.of] # Absent /\ provs[relay.of].on
                THEN [relay EXCEPT !.at = "key"] ELSE Down(relay)

ReadKey ==
    /\ relay.at = "key"
    /\ LET k == keyRows[relay.key] IN
       relay' = IF k # Absent /\ k.of = relay.of /\ k.usable
                THEN [relay EXCEPT !.at = IF relay.up THEN "sent" ELSE "open", !.up = TRUE]
                ELSE Down(relay)

FrameSent == relay.at = "sent" /\ relay' = [relay EXCEPT !.at = "open"]

HangUp == relay.at # "none" /\ relay' = Down(relay)

DaemonStep ==
    /\ \/ \E g \in OutletTokens : Handshake(g)
       \/ FrameArrives \/ ReadSession \/ ReadProvider \/ ReadKey \/ FrameSent \/ HangUp
    /\ UNCHANGED <<rows, enforced, job, known, backup, replaced, spent>>

(* What a frame needs, and what of it holds as things stand.               *)
Reads == {"session", "provider", "key"}
Grant(r) ==
    {f \in Reads :
       \/ /\ f = "session"
          /\ outlets[r.g] # Absent /\ outlets[r.g].on /\ outlets[r.g].all
          /\ outlets[r.g].of = r.of /\ outlets[r.g].key = r.key
       \/ f = "provider" /\ provs[r.of] # Absent /\ provs[r.of].on
       \/ /\ f = "key"
          /\ keyRows[r.key] # Absent /\ keyRows[r.key].of = r.of /\ keyRows[r.key].usable}

Checking == {"session", "provider", "key", "sent"}

Watch ==
    since' = IF relay'.at \in Checking /\ relay'.up
             THEN (IF relay.at \in Checking THEN since ELSE {})
                    \union Grant(relay') \union Grant(relay)'
             ELSE {}

-----------------------------------------------------------------------------

(* A new database, or one that holds a row under every id and token.       *)
Filled(name, of, bound) ==
    /\ provs = [p \in ProviderIds |-> [name |-> name[p], on |-> TRUE]]
    /\ keyRows = [k \in KeyIds |-> [of |-> of[k], usable |-> TRUE]]
    /\ outlets = [g \in OutletTokens |->
         [of |-> of[bound[g]], key |-> bound[g], on |-> TRUE, all |-> TRUE]]
    /\ known = ProviderIds \union KeyIds \union OutletTokens

StoreInit ==
    /\ \/ /\ provs = [p \in ProviderIds |-> Absent]
          /\ keyRows = [k \in KeyIds |-> Absent]
          /\ outlets = [g \in OutletTokens |-> Absent]
          /\ known = {}
       \/ \E name \in [ProviderIds -> ProviderNames], of \in [KeyIds -> ProviderIds],
            bound \in [OutletTokens -> KeyIds] : Filled(name, of, bound)
    /\ enforced = TRUE
    /\ \E p \in ProviderIds, k \in KeyIds, g \in OutletTokens :
         /\ job = Resting(p, k)
         /\ relay = [at |-> "none", up |-> FALSE, g |-> g, of |-> p, key |-> k]
    /\ backup = {} /\ replaced = {}
    /\ since = {}
    /\ spent = [edits |-> 0, breaks |-> 0]

AppCommand ==
    \/ \E p \in ProviderIds :
        \/ \E n \in ProviderNames : AddProvider(p, n)
        \/ \E row \in ProviderRows : SaveProvider(p, row)
        \/ DeleteProvider(p)
        \/ \E k \in KeyIds : AddKey(k, p)
    \/ \E k \in KeyIds : SaveKey(k) \/ DeleteKey(k)
    \/ \E g \in OutletTokens :
        \/ \E p \in ProviderIds, k \in KeyIds, all \in BOOLEAN : CreateOutlet(g, p, k, all)
        \/ \E row \in OutletRows : UpdateOutlet(g, row)
        \/ DeleteOutlet(g)
    \/ \E redacted \in BOOLEAN : Export(redacted)
    \/ \E overwrite, same, logs \in BOOLEAN : Import(overwrite, same, logs)

AppStatement ==
    \/ KeyOutlets \/ KeyRow \/ ProviderOutlets \/ ProviderRow
    \/ \E e \in job.todo : NextEntry(e)
    \/ InsertProvider
    \/ \E p \in ProviderIds : InsertFresh(p)
    \/ \E k, id \in KeyIds : InsertKey(k, id)
    \/ EntryDone \/ ProvidersDone
    \/ \E done \in BOOLEAN : LogsOff(done) \/ LogsIn(done)
    \/ StatementFails \/ AppRestarts

StoreNext == (AppCommand \/ AppStatement \/ DaemonStep) /\ Watch

StoreSpec == StoreInit /\ [][StoreNext]_storeVars

-----------------------------------------------------------------------------
(* Properties.                                                             *)

(* Every variable keeps its type.                                          *)
StoreTypeOK ==
    /\ provs \in [ProviderIds -> ProviderRows \union {Absent}]
    /\ keyRows \in [KeyIds -> KeyRowSet \union {Absent}]
    /\ outlets \in [OutletTokens -> OutletRows \union {Absent}]
    /\ enforced \in BOOLEAN
    /\ job \in Jobs
    /\ job.at = "insert" => job.entry \in Entries2
    /\ backup \subseteq Entries2 /\ replaced \subseteq KeyIds
    /\ relay \in [at : {"none", "open"} \union Checking, up : BOOLEAN,
                  g : OutletTokens, of : ProviderIds, key : KeyIds]
    /\ since \subseteq Reads
    /\ spent \in [edits : Nat, breaks : Nat]

(* Every outlet leads to a key that is there and belongs to its provider,  *)
(* between any two statements of any command, after any failed one and     *)
(* over restarts: deletes take the outlets along.  The one exception is a  *)
(* key that an import took away by replacing its provider's row.           *)
OutletsReach ==
    \A g \in OutletTokens : outlets[g] # Absent =>
        \/ outlets[g].key \in replaced
        \/ /\ keyRows[outlets[g].key] # Absent
           /\ keyRows[outlets[g].key].of = outlets[g].of
           /\ provs[outlets[g].of] # Absent

(* A frame goes upstream only under a grant that was in force after it     *)
(* arrived: outlet on, with policy All and bound as at the handshake, its  *)
(* provider on, its key usable; what the handshake saw does not count.     *)
FramesUnderGrant == relay.at = "sent" => since = Reads
=============================================================================
