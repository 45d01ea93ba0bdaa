-------------------------- MODULE SchemaMigrations --------------------------
(***************************************************************************)
(* How the database is brought up to date.  The app, the daemon and every  *)
(* cc-use command open the one SQLite file and run all migrations first,   *)
(* with nothing that keeps them apart.  Three kinds of step are told       *)
(* apart: a statement whose error is swallowed (the ALTERs, the backfills),*)
(* a read followed by a later write in a statement of its own (the scripts,*)
(* the lifecycle marker, the keychain secrets) and a transaction guarded   *)
(* by a marker that was read before it began.                              *)
(*                                                                         *)
(* A transaction starts with a read, so it works on the snapshot of that   *)
(* moment: its first write is refused (SQLITE_BUSY_SNAPSHOT) when anyone   *)
(* committed since, and from that write to the commit it excludes all      *)
(* other writers.  Read and commit are therefore two steps.  One provider, *)
(* one key and one project stand for all of them: no migration relates two.*)
(***************************************************************************)
EXTENDS Integers, FiniteSets

CONSTANTS
    Processes,       \* the app, the daemon and the commands
    Sessions,        \* the rows of proxy_sessions
    Outlets,         \* those with a display name and no client
    Desktops,        \* those of a client whose configuration is taken over
    MaxCrashes,      \* bound: processes that die while they migrate
    MaxSwallowed,    \* bound: statements whose error nobody sees
    MaxUserEdits     \* bound: values the user saves

ASSUME SchemaAssumption ==
    /\ Outlets \subseteq Sessions /\ Desktops \subseteq Sessions
    /\ Outlets \cap Desktops = {}
    /\ {MaxCrashes, MaxSwallowed, MaxUserEdits} \subseteq Nat

VARIABLES
    database,    \* what is committed
    boot,    \* where each process is, and what it read and still relies on
    stale,   \* the transactions whose snapshot is no longer the database
    mine,    \* the values the user saved through an open process
    torn,    \* a process died while it migrated, and none has opened since
    behind,  \* the processes that were on their way when it died
    trouble  \* how often a bounded event has happened

schemaVars == <<database, boot, stale, mine, torn, behind, trouble>>

Markers == {"lifecycle", "connection", "goDefaults", "retired"}
Steps ==
    {"alter", "scripts", "lift", "lifecycle", "backfill", "mark", "repair", "clients",
     "connection", "snapshot", "connect", "goDefaults", "shipped", "clear",
     "retired", "rules", "retire", "secrets", "restore"}
EditedFields == {"conf", "script", "defaults", "mapping", "secret"}

(***************************************************************************)
(* A database of an old version: its outlets were rewritten to 'manual' by *)
(* the builds that ran the backfill at every start, its other rows have    *)
(* the column's default.  A new one has the columns and no rows.           *)
(***************************************************************************)
Legacy ==
    [columns |-> FALSE, kind |-> [s \in Sessions |-> IF s \in Outlets THEN "manual" ELSE "managed"],
     conf |-> [s \in Sessions |-> "null"], script |-> "legacy", defaults |-> "shipped",
     mapping |-> "retired", secret |-> "keychain", client |-> "claude",
     marks |-> {}, report |-> {}]
Fresh ==
    [Legacy EXCEPT !.columns = TRUE, !.kind = [s \in Sessions |-> "absent"],
                   !.script = "user", !.defaults = "cleared", !.mapping = "clean",
                   !.secret = "inline", !.client = "claude_code"]

NotOpen == [at |-> "off", took |-> "nothing"]

SchemaInit ==
    /\ database \in {Legacy, Fresh}
    /\ boot = [p \in Processes |-> NotOpen]
    /\ stale = {} /\ mine = {} /\ torn = FALSE /\ behind = {}
    /\ trouble = [crashes |-> 0, swallowed |-> 0, edits |-> 0]

-----------------------------------------------------------------------------
Goes(p, from, to) ==
    /\ boot[p].at = from
    /\ boot' = [boot EXCEPT ![p].at = to]

\* Whoever commits leaves the open transactions of the others on old snapshots.
InTransaction == {p \in Processes : boot[p].at \in {"connect", "clear", "retire"}}
Commits(db) == database' = db /\ stale' = InTransaction'
WritesNothing == UNCHANGED <<database, stale>>

\* A statement of its own whose result is thrown away: it commits, or its
\* error is lost and the boot goes on.
Swallowing(db) ==
    \/ Commits(db) /\ UNCHANGED trouble
    \/ /\ trouble.swallowed < MaxSwallowed
       /\ trouble' = [trouble EXCEPT !.swallowed = @ + 1]
       /\ WritesNothing

OnTheirWay == {p \in Processes : boot[p].at \in Steps}

Dies(p) ==
    /\ boot' = [boot EXCEPT ![p] = NotOpen]
    /\ torn' = TRUE /\ behind' = OnTheirWay \ {p}

\* Database::new fails: the app panics, the daemon and the command exit.
OpenFails(p) ==
    /\ Dies(p)
    /\ UNCHANGED <<database, stale, mine, trouble>>

-----------------------------------------------------------------------------
StartOpening(p) ==
    /\ Goes(p, "off", "alter")
    /\ behind' = behind \ {p}
    /\ UNCHANGED <<database, stale, mine, torn, trouble>>

Alter(p) ==
    /\ Goes(p, "alter", "scripts")
    /\ Swallowing([database EXCEPT !.columns = TRUE])
    /\ UNCHANGED <<mine, torn, behind>>

\* The queries that have no script yet are collected; without the column the
\* lift returns at once.
ReadScripts(p) ==
    /\ boot[p].at = "scripts"
    /\ LET found == database.columns /\ database.script = "legacy" IN
       boot' = [boot EXCEPT ![p].at = IF found THEN "lift" ELSE "lifecycle"]
    /\ UNCHANGED <<database, stale, mine, torn, behind, trouble>>

\* The update has no condition on the script it replaces.
Lift(p) ==
    /\ Goes(p, "lift", "lifecycle")
    /\ Swallowing([database EXCEPT !.script = "lifted"])
    /\ UNCHANGED <<mine, torn, behind>>

\* Is a marker set?  The answer is read in a statement of its own, and every
\* later step of the migration relies on it.
ReadMarker(p, marker, todo, done) ==
    /\ boot[p].at = marker
    /\ boot' = [boot EXCEPT ![p].at = IF marker \in database.marks THEN done ELSE todo]
    /\ UNCHANGED <<database, stale, mine, torn, behind, trouble>>

ReadLifecycle(p) == ReadMarker(p, "lifecycle", "backfill", "repair")

KindByShape(s) ==
    CASE s \in Desktops -> "desktop"
      [] s \in Outlets -> "manual"
      [] OTHER -> "managed"

BackfilledKinds ==
    [s \in Sessions |-> IF database.kind[s] = "absent" THEN "absent" ELSE KindByShape(s)]

Backfill(p) ==
    /\ Goes(p, "backfill", "mark")
    /\ Swallowing([database EXCEPT !.kind = BackfilledKinds])
    /\ UNCHANGED <<mine, torn, behind>>

\* (Variant: the repair is left to the next start.)
MarkLifecycleAlone(p) ==
    /\ Goes(p, "mark", "clients")
    /\ Swallowing([database EXCEPT !.marks = @ \cup {"lifecycle"}])
    /\ UNCHANGED <<mine, torn, behind>>

MarkLifecycle(p) ==
    /\ Goes(p, "mark", "repair")
    /\ Swallowing([database EXCEPT !.marks = @ \cup {"lifecycle"}])
    /\ UNCHANGED <<mine, torn, behind>>

RepairedKinds ==
    [s \in Sessions |-> IF s \in Outlets /\ database.kind[s] # "absent"
                           THEN "gateway" ELSE database.kind[s]]

Repair(p) ==
    /\ Goes(p, "repair", "clients")
    /\ Swallowing([database EXCEPT !.kind = RepairedKinds])
    /\ UNCHANGED <<mine, torn, behind>>

NameClients(p) ==
    /\ Goes(p, "clients", "connection")
    /\ Swallowing([database EXCEPT !.client = "claude_code"])
    /\ UNCHANGED <<mine, torn, behind>>

-----------------------------------------------------------------------------
BeginTransaction(p, from, to) ==
    /\ boot[p].at = from
    /\ boot' = [boot EXCEPT ![p].at = to]
    /\ stale' = stale \ {p}
    /\ UNCHANGED <<database, mine, torn, behind, trouble>>
SnapshotHolds(p) == p \notin stale

\* The transaction writes its rows and its marker, all or nothing.
CommitOrFail(p, from, to, db, refused) ==
    /\ boot[p].at = from
    /\ IF SnapshotHolds(p) /\ ~refused
          THEN /\ Goes(p, from, to)
               /\ Commits(db)
               /\ UNCHANGED <<mine, torn, behind, trouble>>
          ELSE OpenFails(p)

ReadConnection(p) == ReadMarker(p, "connection", "snapshot", "goDefaults")
SnapshotConnections(p) == BeginTransaction(p, "snapshot", "connect")

\* A key whose client configuration cannot be parsed rolls the step back.
ConnectionUnreadable(p) ==
    /\ boot[p].at = "connect"
    /\ \E s \in Outlets : database.kind[s] = "gateway" /\ database.conf[s] = "null"
    /\ OpenFails(p)

\* Only outlets that have no connection yet get the one their key implied.
Connected ==
    [s \in Sessions |-> IF database.kind[s] = "gateway" /\ database.conf[s] = "null"
                           THEN "snapshot" ELSE database.conf[s]]

Connect(p) ==
    CommitOrFail(p, "connect", "goDefaults",
        [database EXCEPT !.conf = Connected, !.marks = @ \cup {"connection"}], FALSE)

ReadGoDefaults(p) == ReadMarker(p, "goDefaults", "shipped", "retired")
SnapshotShipped(p) == BeginTransaction(p, "shipped", "clear")

\* The mapping is recognised by its content: one the user chose again looks
\* like the one that was shipped.
ClearedDefaults ==
    [database EXCEPT !.defaults = IF @ \in {"shipped", "user"} THEN "cleared" ELSE @,
                 !.marks = @ \cup {"goDefaults"}]

\* The marker is a plain INSERT: a second process that is in time to see the
\* first one's commit fails on it, and loses what it rewrote.
MarkerRefused(marker) == marker \in database.marks

ClearShipped(p) ==
    CommitOrFail(p, "clear", "retired", ClearedDefaults, MarkerRefused("goDefaults"))

ReadRetired(p) == ReadMarker(p, "retired", "rules", "secrets")
SnapshotRules(p) == BeginTransaction(p, "rules", "retire")

\* The keys whose rules were removed are reported to the user; a second run
\* finds none and replaces the report.
RetiredRemoved ==
    [database EXCEPT !.mapping = IF @ = "retired" THEN "clean" ELSE @,
                 !.report = IF database.mapping = "retired" THEN {"key"} ELSE {},
                 !.marks = @ \cup {"retired"}]

Retire(p) == CommitOrFail(p, "retire", "secrets", RetiredRemoved, FALSE)

-----------------------------------------------------------------------------
\* The rows that name a keychain item are read and their secrets fetched; a
\* secret that cannot be read fails the whole open.
ReadSecrets(p) ==
    \/ /\ boot[p].at = "secrets"
       /\ boot' = [boot EXCEPT ![p].at = "restore", ![p].took = database.secret]
       /\ UNCHANGED <<database, stale, mine, torn, behind, trouble>>
    \/ /\ boot[p].at = "secrets"
       /\ database.secret = "keychain"
       /\ OpenFails(p)

\* The database is open.  This transaction begins with its write and so never
\* works on an old snapshot; nothing is written when nothing was found.
RestoreSecrets(p) ==
    /\ boot[p].at = "restore"
    /\ boot' = [boot EXCEPT ![p] = [NotOpen EXCEPT !.at = "open"]]
    /\ IF boot[p].took = "keychain"
          THEN Commits([database EXCEPT !.secret = "inline"])
          ELSE WritesNothing
    /\ torn' = (torn /\ p \in behind)
    /\ UNCHANGED <<mine, behind, trouble>>

Exit(p) ==
    /\ Goes(p, "open", "off")
    /\ UNCHANGED <<database, stale, mine, torn, behind, trouble>>

CrashWhileOpening(p) ==
    /\ boot[p].at \in Steps
    /\ trouble.crashes < MaxCrashes
    /\ trouble' = [trouble EXCEPT !.crashes = @ + 1]
    /\ Dies(p)
    /\ UNCHANGED <<database, stale, mine>>

\* The user saves a value through a process that is open.  A saved mapping is
\* taken off the report of removed rules.
Saved(field) ==
    [database EXCEPT ![field] = "user",
                 !.report = IF field = "mapping" THEN {} ELSE @]
SavedOutlet(s) == [database EXCEPT !.kind[s] = "gateway", !.conf[s] = "user"]

UserSaves(p) ==
    /\ boot[p].at = "open"
    /\ trouble.edits < MaxUserEdits
    /\ trouble' = [trouble EXCEPT !.edits = @ + 1]
    /\ UNCHANGED <<boot, torn, behind>>
    /\ \/ \E field \in EditedFields \ {"conf"} :
            Commits(Saved(field)) /\ mine' = mine \cup {field}
       \/ \E s \in Outlets :
            Commits(SavedOutlet(s)) /\ mine' = mine \cup {"conf"}

SchemaStep(p) ==
    \/ StartOpening(p) \/ Alter(p) \/ ReadScripts(p) \/ Lift(p)
    \/ ReadLifecycle(p) \/ Backfill(p) \/ MarkLifecycle(p) \/ Repair(p)
    \/ NameClients(p)
    \/ ReadConnection(p) \/ SnapshotConnections(p) \/ Connect(p)
    \/ ConnectionUnreadable(p)
    \/ ReadGoDefaults(p) \/ SnapshotShipped(p) \/ ClearShipped(p)
    \/ ReadRetired(p) \/ SnapshotRules(p) \/ Retire(p)
    \/ ReadSecrets(p) \/ RestoreSecrets(p)
    \/ Exit(p) \/ CrashWhileOpening(p) \/ UserSaves(p)

SchemaNext == \E p \in Processes : SchemaStep(p)

SchemaSpec == SchemaInit /\ [][SchemaNext]_schemaVars

-----------------------------------------------------------------------------
Kinds == {"absent", "managed", "manual", "desktop", "gateway"}

\* Every part of the database and of each process holds a value of its kind.
SchemaTypeOK ==
    /\ database.kind \in [Sessions -> Kinds]
    /\ database.conf \in [Sessions -> {"null", "snapshot", "user"}]
    /\ database.script \in {"legacy", "lifted", "user"}
    /\ database.defaults \in {"shipped", "cleared", "user"}
    /\ database.mapping \in {"retired", "clean", "user"}
    /\ database.secret \in {"keychain", "inline", "user"}
    /\ database.marks \subseteq Markers /\ stale \subseteq Processes
    /\ \A p \in Processes : boot[p].at \in Steps \cup {"off", "open"}
    /\ mine \subseteq EditedFields
    /\ torn \in BOOLEAN /\ behind \subseteq Processes

Converted ==
    /\ database.marks = Markers /\ database.columns
    /\ \A s \in Outlets : database.kind[s] \in {"absent", "gateway"}
    /\ database.script # "legacy" /\ database.mapping # "retired"
    /\ database.secret # "keychain" /\ database.client = "claude_code"

SavesKept ==
    /\ "conf" \in mine => \E s \in Outlets : database.conf[s] = "user"
    /\ "defaults" \in mine => database.defaults = "user"
    /\ "mapping" \in mine => database.mapping = "user"

\* A process has opened the database; none is on its way, none died on it
\* since, and no statement's error was lost.
Settled ==
    /\ \E p \in Processes : boot[p].at = "open"
    /\ OnTheirWay = {} /\ ~torn /\ trouble.swallowed = 0

(***************************************************************************)
(* What run_migrations leaves behind, however many processes ran it at     *)
(* once and wherever one of them died: once it has settled no value of an  *)
(* older version is left and every outlet is a gateway again.  And at all  *)
(* times the connections, template defaults and model rules the user saved *)
(* after an open are the ones on disk: a late migration of another process *)
(* does not take them back.  (Scripts and secrets are not promised that:   *)
(* their updates do not ask whether the value is still the one they read.) *)
(***************************************************************************)
SchemaWhole == (Settled => Converted) /\ SavesKept

(***************************************************************************)
(* "Snapshot the old implicit Claude Code connection exactly once, after   *)
(* the column exists and before anything can read a gateway row"           *)
(* (db/mod.rs:362): when it has settled every outlet has its connection.   *)
(***************************************************************************)
OutletsKeepTheirConnection ==
    Settled => \A s \in Outlets : database.kind[s] = "gateway" => database.conf[s] # "null"
=============================================================================
