--------------------------- MODULE CodexTakeover ---------------------------
(***************************************************************************)
(* Taking over Codex Desktop and giving it back (codex_config.rs).  The    *)
(* app keeps a session row and the setting that names its token in the     *)
(* database, and a backup, a model catalog and the user's own config.toml  *)
(* on disk.  A takeover waits for the catalog of the key, then writes one  *)
(* after the other; a restore undoes them in its own order.  The page and  *)
(* the tray start both on the threads of the runtime, and only the         *)
(* database is behind a lock, so every access to it and to a file is an    *)
(* action.  Any of them may fail, the app may die between two of them, and *)
(* the user and Codex edit the same file.                                  *)
(***************************************************************************)
EXTENDS Naturals, FiniteSets

CONSTANTS
    Commands,    \* invocations of takeover or restore that may overlap
    NoCommand,   \* nobody holds the database
    Keys,        \* api keys with a Codex catalog
    NoKey,       \* no key, no row, no catalog file
    Tokens,      \* session tokens
    NoToken,
    UserValues,  \* what the user's own file may hold for a field
    FirstFiles,  \* what config.toml may be before cc-use sees it
    Absent,      \* the field is not there
    Ours,        \* "cc-use", the path of our catalog
    NoFile,      \* no config.toml, nothing read
    Broken,      \* a config.toml that is not TOML
    MaxEdits,    \* bound: edits by the user or by Codex
    MaxFaults    \* bound: failed operations and crashes

ASSUME TakeoverAssumption ==
    /\ NoCommand \notin Commands
    /\ NoKey \notin Keys
    /\ NoToken \notin Tokens
    /\ Absent \notin UserValues
    /\ Ours \notin UserValues \cup {Absent}
    /\ Keys \cap (UserValues \cup {Absent}) = {}
    /\ NoFile # Broken
    /\ MaxEdits \in Nat /\ MaxFaults \in Nat

VARIABLES
    config,       \* ~/.codex/config.toml
    backup,       \* config.toml of the latest backup directory
    catalogFile,  \* the key whose catalog is in the runtime directory
    setting,      \* codex_session_token
    session,      \* proxy_sessions of kind desktop
    dbLock,       \* who holds the Mutex<Database>
    cmd,          \* the commands: where they are and what they remember
    returned,     \* what the command that just ended returned
    edits, faults,
    orphans,      \* history: tokens replaced because the setting could not be read
    disturbed,    \* history: "overlap" of two commands, "mark" moved by the user
    baseline      \* history: what the user's file held before it was taken over

fileVars == <<config, backup, catalogFile>>
dbVars   == <<setting, session, dbLock>>
cmdVars  == <<cmd, returned>>
history  == <<orphans, disturbed, baseline>>
vars     == <<fileVars, dbVars, cmdVars, edits, faults, history>>

(* A file by the fields a takeover overwrites: `mark' is model_provider,   *)
(* `model' stands for the model, its effort and the response storage,      *)
(* `catalog' is model_catalog_json and `token' the bearer token of the     *)
(* table [model_providers.cc-use].  The port in base_url is fixed.         *)
Own    == UserValues \cup {Absent}
Files  == [mark : Own \cup {Ours}, model : Own \cup Keys,
           catalog : Own \cup {Ours}, token : Tokens \cup {NoToken}]
OwnFiles == [mark : Own, model : Own, catalog : Own, token : {NoToken}]
Empty  == [mark |-> Absent, model |-> Absent, catalog |-> Absent, token |-> NoToken]

ASSUME FirstFilesAssumption == FirstFiles \subseteq OwnFiles \cup {NoFile}

(* NoFile and Broken stand for what is not a file with fields.             *)
ASSUME FilesAssumption == Files \cap {NoFile, Broken} = {}

(* What parsing gives: no keys if there is no file, or none that parses.   *)
Doc(text) == IF text \in {NoFile, Broken} THEN Empty ELSE text

IsTakenOver(text) == Doc(text).mark = Ours /\ Doc(text).token # NoToken

TakenOverBy(k, t) == [mark |-> Ours, model |-> k, catalog |-> Ours, token |-> t]

(* matches_takeover_catalog: the provider mark is not among what it reads. *)
IsCurrent(text, k, t) ==
    LET doc == Doc(text) IN
    doc.token = t /\ doc.model = k /\ doc.catalog = Ours /\ catalogFile = k

(* (Variant: our catalog stays in the file.)                               *)
RestoredFieldsOnly(doc, snapshot) ==
    [mark    |-> IF doc.mark = Ours THEN snapshot.mark ELSE doc.mark,
     model   |-> IF doc.mark = Ours THEN snapshot.model ELSE doc.model,
     catalog |-> doc.catalog,
     token   |-> NoToken]

(* restore_overwritten_fields: only what is ours goes back to the snapshot.*)
Restored(doc, snapshot) ==
    [mark    |-> IF doc.mark = Ours THEN snapshot.mark ELSE doc.mark,
     model   |-> IF doc.mark = Ours THEN snapshot.model ELSE doc.model,
     catalog |-> IF doc.catalog = Ours THEN snapshot.catalog ELSE doc.catalog,
     token   |-> NoToken]

Idle == [pc |-> "idle", key |-> NoKey, token |-> NoToken, text |-> NoFile, calm |-> TRUE]

NoRow == [open |-> FALSE, key |-> NoKey]

Init ==
    /\ config \in FirstFiles
    /\ backup = NoFile
    /\ catalogFile = NoKey
    /\ setting = NoToken
    /\ session = [t \in Tokens |-> NoRow]
    /\ dbLock = NoCommand
    /\ cmd = [c \in Commands |-> Idle]
    /\ returned = "none"
    /\ edits = 0
    /\ faults = 0
    /\ orphans = {}
    /\ disturbed = {}
    /\ baseline = NoFile

----------------------------------------------------------------------------
(* How commands proceed *)

Running == {c \in Commands : cmd[c].pc # "idle"}

Places == {"idle",
           "fetch", "session", "match", "read", "backup", "catalog", "write",
           "open", "rewrite", "clean", "revoke", "forget"}

At(c, pc) == cmd[c].pc = pc

HoldsText(c) == cmd[c].pc \in {"backup", "catalog", "write", "rewrite"}

Goto(c, pc) ==
    /\ cmd' = [cmd EXCEPT ![c].pc = pc]
    /\ returned' = "none"

Finish(c, result) ==
    /\ cmd' = [cmd EXCEPT ![c] = Idle]
    /\ returned' = result

Start(c, first, k) ==
    /\ At(c, "idle")
    /\ cmd' = [cmd EXCEPT ![c] = [Idle EXCEPT !.pc = first, !.key = k]]
    /\ returned' = "none"
    /\ disturbed' = IF Running = {} THEN disturbed ELSE disturbed \cup {"overlap"}
    /\ baseline' = IF Running = {} THEN baseline ELSE NoFile
    /\ UNCHANGED <<fileVars, dbVars, edits, faults, orphans>>

(* An operation on the file system or the database fails: the command      *)
(* returns its error, and lets go of the database.                         *)
Fails(c) ==
    /\ faults < MaxFaults
    /\ faults' = faults + 1
    /\ Finish(c, "error")
    /\ dbLock' = IF dbLock = c THEN NoCommand ELSE dbLock
    /\ UNCHANGED <<config, catalogFile, setting, session, edits, history>>

FailsCleanly(c) == Fails(c) /\ UNCHANGED backup

NoFault == UNCHANGED <<edits, faults>>

----------------------------------------------------------------------------
(* codex_config_takeover_inner *)

(* Provider and key are checked, then the catalog is awaited.              *)
BeginTakeover(c, k) ==
    /\ Start(c, "fetch", k)

(* It did not arrive, or does not contain the default model.               *)
CatalogFailed(c) ==
    /\ At(c, "fetch")
    /\ Finish(c, "error")
    /\ UNCHANGED <<fileVars, dbVars, edits, faults, history>>

(* The catalog has arrived: the database is locked and the setting read.   *)
UseToken(c, t) ==
    /\ At(c, "fetch")
    /\ dbLock = NoCommand
    /\ dbLock' = c
    /\ setting' = t
    /\ cmd' = [cmd EXCEPT ![c] = [@ EXCEPT !.pc = "session", !.token = t]]
    /\ returned' = "none"
    /\ UNCHANGED <<fileVars, session, edits, disturbed, baseline>>

Fresh(t) == session[t] = NoRow /\ t # setting

KeepToken(c) ==
    /\ setting # NoToken
    /\ UseToken(c, setting)
    /\ UNCHANGED <<faults, orphans>>

NewToken(c) ==
    /\ setting = NoToken
    /\ \E t \in Tokens : Fresh(t) /\ UseToken(c, t)
    /\ UNCHANGED <<faults, orphans>>

(* The setting cannot be read, which the code treats like an absent one.   *)
UnreadToken(c) ==
    /\ setting # NoToken
    /\ faults < MaxFaults
    /\ faults' = faults + 1
    /\ orphans' = orphans \cup {setting}
    /\ \E t \in Tokens : Fresh(t) /\ UseToken(c, t)

(* (Variant: the row of a known token keeps its old key.)                  *)
WriteSessionOpensOnly(c) ==
    /\ At(c, "session")
    /\ session' = [session EXCEPT ![cmd[c].token].open = TRUE]
    /\ dbLock' = NoCommand
    /\ Goto(c, "match")
    /\ NoFault
    /\ UNCHANGED <<fileVars, setting, history>>

(* (Variant: the row is updated without being opened again.)               *)
WriteSessionKeyOnly(c) ==
    /\ At(c, "session")
    /\ session' = [session EXCEPT ![cmd[c].token] =
                     [open |-> @.open \/ @ = NoRow, key |-> cmd[c].key]]
    /\ dbLock' = NoCommand
    /\ Goto(c, "match")
    /\ NoFault
    /\ UNCHANGED <<fileVars, setting, history>>

(* The row is created, or updated and given back its access.               *)
WriteSession(c) ==
    /\ At(c, "session")
    /\ session' = [session EXCEPT ![cmd[c].token] = [open |-> TRUE, key |-> cmd[c].key]]
    /\ dbLock' = NoCommand
    /\ Goto(c, "match")
    /\ NoFault
    /\ UNCHANGED <<fileVars, setting, history>>

Match(c) ==
    /\ At(c, "match")
    /\ \/ config = Broken /\ Finish(c, "error")
       \/ /\ config # Broken
          /\ IF IsCurrent(config, cmd[c].key, cmd[c].token)
             THEN Finish(c, "ok")
             ELSE Goto(c, "read")
    /\ NoFault
    /\ UNCHANGED <<fileVars, dbVars, history>>

(* What was read is what will be written back, so an edit in between is    *)
(* lost; `calm' remembers that there was none.                             *)
Reads(c, next) ==
    /\ cmd' = [cmd EXCEPT ![c] = [@ EXCEPT !.pc = next, !.text = config, !.calm = TRUE]]
    /\ returned' = "none"

(* (Variant: every takeover makes a backup.)                               *)
ReadConfigBackupAlways(c) ==
    /\ At(c, "read")
    /\ IF config = Broken
       THEN Finish(c, "error")
       ELSE Reads(c, "backup")
    /\ NoFault
    /\ UNCHANGED <<fileVars, dbVars, history>>

(* A backup is due if the file is not taken over yet; with neither it nor   *)
(* auth.json there is none to make.                                        *)
ReadConfig(c) ==
    /\ At(c, "read")
    /\ IF config = Broken
       THEN Finish(c, "error")
       ELSE \/ ~IsTakenOver(config) /\ Reads(c, "backup")
            \/ (IsTakenOver(config) \/ config = NoFile) /\ Reads(c, "catalog")
    /\ NoFault
    /\ UNCHANGED <<fileVars, dbVars, history>>

(* backup: a new directory, and in it config.toml if there is one.         *)
Backup(c) ==
    /\ At(c, "backup")
    /\ backup' = config
    /\ Goto(c, "catalog")
    /\ NoFault
    /\ UNCHANGED <<config, catalogFile, dbVars, history>>

(* The directory is there, but copying config.toml or auth.json failed.    *)
BackupFails(c) ==
    /\ At(c, "backup")
    /\ Fails(c)
    /\ backup' \in {NoFile, config}

(* remember_original_model_catalog and write_model_catalog                 *)
WriteCatalog(c) ==
    /\ At(c, "catalog")
    /\ catalogFile' = cmd[c].key
    /\ Goto(c, "write")
    /\ NoFault
    /\ UNCHANGED <<config, backup, dbVars, history>>

WriteConfig(c) ==
    /\ At(c, "write")
    /\ config' = TakenOverBy(cmd[c].key, cmd[c].token)
    /\ baseline' = IF IsTakenOver(cmd[c].text) THEN baseline
                   ELSE IF cmd[c].calm /\ disturbed = {} THEN cmd[c].text ELSE NoFile
    /\ Finish(c, "ok")
    /\ NoFault
    /\ UNCHANGED <<backup, catalogFile, dbVars, orphans, disturbed>>

(* Any other operation of a takeover that can fail.                        *)
TakeoverFails(c) ==
    /\ cmd[c].pc \in {"fetch", "session", "match", "read", "catalog", "write"}
    /\ FailsCleanly(c)

----------------------------------------------------------------------------
(* codex_config_restore_inner *)

BeginRestore(c) == Start(c, "open", NoKey)

(* An empty file has nothing to give back; one with none of these fields    *)
(* may hold others.                                                        *)
OpenConfig(c) ==
    /\ At(c, "open")
    /\ IF config = Broken
       THEN Finish(c, "error")
       ELSE \/ Doc(config) = Empty /\ Goto(c, "clean")
            \/ config # NoFile /\ Reads(c, "rewrite")
    /\ NoFault
    /\ UNCHANGED <<fileVars, dbVars, history>>

(* The latest backup is read here, and written back at once.               *)
Rewrite(c) ==
    /\ At(c, "rewrite")
    /\ config' = Restored(cmd[c].text, Doc(backup))
    /\ cmd' = [cmd EXCEPT ![c] = [Idle EXCEPT !.pc = "clean"]]
    /\ returned' = "none"
    /\ NoFault
    /\ UNCHANGED <<backup, catalogFile, dbVars, history>>

(* cleanup_deepseek_runtime, whose failures are ignored.                   *)
Clean(c) ==
    /\ At(c, "clean")
    /\ catalogFile' = NoKey
    /\ Goto(c, "revoke")
    /\ NoFault
    /\ UNCHANGED <<config, backup, dbVars, history>>

CleanFails(c) ==
    /\ At(c, "clean")
    /\ faults < MaxFaults
    /\ faults' = faults + 1
    /\ Goto(c, "revoke")
    /\ UNCHANGED <<fileVars, dbVars, edits, history>>

(* (Variant: the setting is deleted first, and nothing is left to revoke.) *)
RevokeForgotten(c) ==
    /\ At(c, "revoke")
    /\ dbLock = NoCommand
    /\ dbLock' = c
    /\ session' = session
    /\ Goto(c, "forget")
    /\ NoFault
    /\ UNCHANGED <<fileVars, setting, history>>

(* proxy_session_revoke changes no row if there is none.                   *)
Revoke(c) ==
    /\ At(c, "revoke")
    /\ dbLock = NoCommand
    /\ dbLock' = c
    /\ session' = [t \in Tokens |->
                     [open |-> session[t].open /\ t # setting, key |-> session[t].key]]
    /\ Goto(c, "forget")
    /\ NoFault
    /\ UNCHANGED <<fileVars, setting, history>>

Forget(c) ==
    /\ At(c, "forget")
    /\ setting' = NoToken
    /\ dbLock' = NoCommand
    /\ Finish(c, "ok")
    /\ NoFault
    /\ UNCHANGED <<fileVars, session, history>>

RestoreFails(c) ==
    /\ cmd[c].pc \in {"open", "rewrite", "revoke", "forget"}
    /\ FailsCleanly(c)

----------------------------------------------------------------------------
(* The app dies; the user and Codex edit the file *)

Crash ==
    /\ Running # {}
    /\ faults < MaxFaults
    /\ faults' = faults + 1
    /\ cmd' = [c \in Commands |-> Idle]
    /\ returned' = "none"
    /\ dbLock' = NoCommand
    /\ UNCHANGED <<fileVars, setting, session, edits, history>>

Edits ==
    /\ edits < MaxEdits
    /\ edits' = edits + 1
    /\ cmd' = [c \in Commands |-> [cmd[c] EXCEPT !.calm = ~HoldsText(c)]]
    /\ returned' = "none"
    /\ UNCHANGED <<backup, catalogFile, dbVars, faults, orphans, baseline>>

(* Another model, another catalog: the user has no values of ours to write.*)
EditField ==
    /\ Edits
    /\ config # Broken
    /\ \E v \in Own : \/ config' = [Doc(config) EXCEPT !.model = v]
                      \/ config' = [Doc(config) EXCEPT !.catalog = v]
    /\ UNCHANGED disturbed

(* Another model_provider, by hand or with another tool.                   *)
EditMark ==
    /\ Edits
    /\ config # Broken
    /\ \E v \in Own : config' = [Doc(config) EXCEPT !.mark = v]
    /\ disturbed' = IF Doc(config).token = NoToken THEN disturbed
                    ELSE disturbed \cup {"mark"}

ReplaceFile ==
    /\ Edits
    /\ config' \in {NoFile, Broken}
    /\ UNCHANGED disturbed

----------------------------------------------------------------------------

Takeover(c) ==
    \/ \E k \in Keys : BeginTakeover(c, k)
    \/ CatalogFailed(c)
    \/ KeepToken(c) \/ NewToken(c) \/ UnreadToken(c)
    \/ WriteSession(c) \/ Match(c) \/ ReadConfig(c)
    \/ Backup(c) \/ BackupFails(c)
    \/ WriteCatalog(c)
    \/ WriteConfig(c) \/ TakeoverFails(c)

Restore(c) ==
    \/ BeginRestore(c) \/ OpenConfig(c) \/ Rewrite(c)
    \/ Clean(c) \/ CleanFails(c)
    \/ Revoke(c) \/ Forget(c) \/ RestoreFails(c)

Environment == Crash \/ EditField \/ EditMark \/ ReplaceFile

Next == (\E c \in Commands : Takeover(c) \/ Restore(c)) \/ Environment

Spec == Init /\ [][Next]_vars

----------------------------------------------------------------------------
(* Properties *)

CommandState ==
    [pc : Places, key : Keys \cup {NoKey}, token : Tokens \cup {NoToken},
     text : Files \cup {NoFile}, calm : BOOLEAN]

TypeOK ==
    /\ config \in Files \cup {NoFile, Broken}
    /\ backup \in Files \cup {NoFile, Broken}
    /\ catalogFile \in Keys \cup {NoKey}
    /\ setting \in Tokens \cup {NoToken}
    /\ session \in [Tokens -> [open : BOOLEAN, key : Keys] \cup {NoRow}]
    /\ dbLock \in Commands \cup {NoCommand}
    /\ cmd \in [Commands -> CommandState]
    /\ returned \in {"none", "ok", "error"}
    /\ edits \in 0 .. MaxEdits
    /\ faults \in 0 .. MaxFaults
    /\ orphans \subseteq Tokens
    /\ disturbed \subseteq {"overlap", "mark"}
    /\ baseline \in Files \cup {NoFile}

(* A token opens the gateway only while the setting names it: the setting  *)
(* is written before the row and deleted after the row was revoked, both   *)
(* under the lock, so that no crash, failure or overlap leaves a token     *)
(* that nobody will ever revoke.  The code gives up on this in one place:  *)
(* a setting that cannot be read is replaced by a new one.                 *)
CurrentTokenOnly ==
    \A t \in Tokens : session[t].open => t = setting \/ t \in orphans

(* What makes that inductive: a takeover knows its key and its token, a     *)
(* restore its file; who is between two statements on the database holds   *)
(* its lock, and finds setting and row as the first of them left them.     *)
CommandsCarry ==
    \A c \in Commands :
        /\ cmd[c].pc \in {"fetch", "session", "match", "read", "backup", "catalog", "write"}
              => cmd[c].key \in Keys
        /\ cmd[c].pc \in {"session", "match", "read", "backup", "catalog", "write"}
              => cmd[c].token \in Tokens
        /\ cmd[c].pc = "rewrite" => cmd[c].text \in Files

LockedSections ==
    \A c \in Commands :
        /\ cmd[c].pc \in {"session", "forget"} <=> dbLock = c
        /\ cmd[c].pc = "session" => cmd[c].token = setting
        /\ cmd[c].pc = "forget" /\ setting \in Tokens => ~session[setting].open

CodexInv == TypeOK /\ CommandsCarry /\ LockedSections /\ CurrentTokenOnly

(* A config.toml that points to our catalog finds it: the catalog is       *)
(* written before the pointer and removed after it.  Two commands that     *)
(* overlap break this, and so does a backup that was made after the user   *)
(* moved model_provider away (the file then counts as not taken over).     *)
CatalogOnFile ==
    disturbed = {} => (Doc(config).catalog = Ours => catalogFile # NoKey)

TakeoverSucceeds(c) ==
    /\ cmd[c].pc \in {"match", "write"}
    /\ cmd'[c].pc = "idle"
    /\ returned' = "ok"

(* A takeover that reports success left everything in place: config.toml   *)
(* with the model of the key and the token, the catalog, the setting, and  *)
(* an open session on the key, whatever earlier commands left half done,   *)
(* and also where it found the file current and wrote nothing.             *)
TakeoverServes ==
    [][\A c \in Commands : TakeoverSucceeds(c) /\ disturbed = {} =>
          /\ config' = TakenOverBy(cmd[c].key, cmd[c].token)
          /\ catalogFile' = cmd[c].key
          /\ setting' = cmd[c].token
          /\ session'[cmd[c].token] = [open |-> TRUE, key |-> cmd[c].key]]_vars

(* The success message of a takeover means that Codex uses the gateway.    *)
TakeoverTakesOver ==
    [][\A c \in Commands : TakeoverSucceeds(c) /\ "overlap" \notin disturbed =>
          IsTakenOver(config')]_vars

(* A restore takes everything of cc-use out of the file and puts back what *)
(* the user had there before the first of any number of takeovers, however *)
(* these ended, and leaves what the user changed since.  What an edit      *)
(* between reading and writing becomes is left open, and so is a file that *)
(* did not exist before: an older backup is then taken for its state.      *)
RestoreGivesBack ==
    [][\A c \in Commands :
          /\ At(c, "rewrite") /\ cmd'[c].pc = "clean" /\ disturbed = {}
          => /\ config' \in OwnFiles
             /\ cmd[c].text.mark = Ours /\ cmd[c].calm /\ baseline # NoFile =>
                   /\ config'.mark = baseline.mark
                   /\ config'.model = baseline.model
                   /\ config'.catalog = IF cmd[c].text.catalog = Ours
                                        THEN baseline.catalog ELSE cmd[c].text.catalog]_vars

=============================================================================
