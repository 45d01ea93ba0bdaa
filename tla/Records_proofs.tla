--------------------------- MODULE Records_proofs ---------------------------
(***************************************************************************)
(* Proofs about what app and daemon keep in the database and about what    *)
(* becomes of one request, for any number of rows, processes, model ids,   *)
(* routes and faults: KeyStore (keys, outlets, frames), SchemaMigrations   *)
(* (every way through it ends with a whole schema), RequestRewrite         *)
(* (headers, path and model id that go upstream), ModelCatalog (catalog    *)
(* and mapping); and that these, the permits and the console log keep      *)
(* their types in any of the behaviours that MC_Records puts side by side. *)
(***************************************************************************)
EXTENDS MC_Records, ConsoleLogStore_proofs, RequestPermits_proofs

----------------------------------------------------------------------------
(* What OutletsReach and FramesUnderGrant need to survive a step.          *)

(* An import has its entry until it is inserted; between the statements of *)
(* a delete nothing is bound to the row that is about to go.               *)
JobInv ==
    /\ job.at = "rest" => ~job.importing
    /\ job.at \in {"import", "insert", "insertKeys"} => job.importing
    /\ job.importing /\ job.at \in {"providerOutlets", "providerRow"} => job.entry \in Entries2
    /\ job.at = "keyRow" => BoundToKey(job.k) = {}
    /\ job.at = "providerRow" => BoundToProvider(job.p) = {}

(* The id of a key that is there is not drawn again.                       *)
KeysKnown == \A k \in KeyIds : keyRows[k] # Absent => k \in known

(* What the reads of a frame have found.                                   *)
RelayInv ==
    /\ relay.at \in {"open", "sent"} => relay.up
    /\ relay.up /\ relay.at \in {"provider", "key", "sent"} => "session" \in since
    /\ relay.up /\ relay.at \in {"key", "sent"} => "provider" \in since
    /\ relay.at = "sent" => "key" \in since

RowsInv == KeysKnown /\ OutletsReach

StoreInv == StoreTypeOK /\ JobInv /\ RowsInv /\ RelayInv

USE StoreConstants

(* No row is not a row.                                                    *)
LEMMA AbsentIsNoRow ==
    Absent \notin ProviderRows /\ Absent \notin KeyRowSet /\ Absent \notin OutletRows
BY DEF StoreConstants, ProviderRows, KeyRowSet, OutletRows

----------------------------------------------------------------------------
(* The initial state *)

LEMMA StoreInitial == StoreInit => StoreInv
<1> SUFFICES ASSUME StoreInit PROVE StoreInv
  OBVIOUS
<1> USE DEF StoreInit
<1>1. PICK p \in ProviderIds, k \in KeyIds, g \in OutletTokens :
        /\ job = Resting(p, k)
        /\ relay = [at |-> "none", up |-> FALSE, g |-> g, of |-> p, key |-> k]
  OBVIOUS
<1>2. job \in Jobs /\ job.at = "rest" /\ ~job.importing
  BY <1>1 DEF Jobs, JobSteps, Resting
<1>3. since = {}
  OBVIOUS
<1>4. /\ relay \in [at : {"none", "open"} \union Checking, up : BOOLEAN,
                    g : OutletTokens, of : ProviderIds, key : KeyIds]
      /\ relay.at = "none"
  BY <1>1
<1>5. spent \in [edits : Nat, breaks : Nat]
  OBVIOUS
<1>6. /\ provs \in [ProviderIds -> ProviderRows \union {Absent}]
      /\ keyRows \in [KeyIds -> KeyRowSet \union {Absent}]
      /\ outlets \in [OutletTokens -> OutletRows \union {Absent}]
      /\ RowsInv
  <2>1. CASE /\ provs = [q \in ProviderIds |-> Absent]
             /\ keyRows = [q \in KeyIds |-> Absent]
             /\ outlets = [q \in OutletTokens |-> Absent]
    BY <2>1 DEF RowsInv, KeysKnown, OutletsReach
  <2>2. ASSUME NEW name \in [ProviderIds -> ProviderNames], NEW of \in [KeyIds -> ProviderIds],
               NEW bound \in [OutletTokens -> KeyIds], Filled(name, of, bound)
        PROVE  /\ provs \in [ProviderIds -> ProviderRows \union {Absent}]
               /\ keyRows \in [KeyIds -> KeyRowSet \union {Absent}]
               /\ outlets \in [OutletTokens -> OutletRows \union {Absent}]
               /\ RowsInv
    <3>1. /\ provs \in [ProviderIds -> ProviderRows]
          /\ keyRows \in [KeyIds -> KeyRowSet]
          /\ outlets \in [OutletTokens -> OutletRows]
      BY <2>2 DEF Filled, ProviderRows, KeyRowSet, OutletRows
    <3>2. KeysKnown
      BY <2>2 DEF Filled, KeysKnown
    <3>3. ASSUME NEW q \in OutletTokens
          PROVE  /\ outlets[q].key = bound[q] /\ bound[q] \in KeyIds
                 /\ outlets[q].of = of[bound[q]] /\ of[bound[q]] \in ProviderIds
                 /\ keyRows[bound[q]].of = of[bound[q]]
                 /\ keyRows[bound[q]] \in KeyRowSet /\ provs[of[bound[q]]] \in ProviderRows
      BY <2>2, <3>1 DEF Filled
    <3>4. OutletsReach
      BY <3>3, AbsentIsNoRow DEF OutletsReach
    <3> QED BY <3>1, <3>2, <3>4 DEF RowsInv
  <2> QED BY <2>1, <2>2
<1>7. StoreTypeOK
  BY <1>2, <1>3, <1>4, <1>5, <1>6 DEF StoreTypeOK
<1>8. JobInv /\ RelayInv
  BY <1>2, <1>4 DEF JobInv, RelayInv
<1> QED BY <1>6, <1>7, <1>8 DEF StoreInv

----------------------------------------------------------------------------
(* Types *)

(* What the statements write into the record of a command.                 *)
LEMMA JobChanges ==
    ASSUME job \in Jobs, NEW at \in JobSteps, NEW p \in ProviderIds, NEW k \in KeyIds,
           NEW todo \in SUBSET Entries2, NEW entry \in Entries2, NEW keys \in SUBSET KeyIds
    PROVE  /\ [job EXCEPT !.at = at] \in Jobs
           /\ [job EXCEPT !.at = at, !.p = p] \in Jobs
           /\ [job EXCEPT !.at = at, !.k = k] \in Jobs
           /\ [job EXCEPT !.keys = keys] \in Jobs
           /\ [job EXCEPT !.at = at, !.p = p, !.keys = keys] \in Jobs
           /\ [job EXCEPT !.todo = todo, !.entry = entry] \in Jobs
           /\ [[job EXCEPT !.todo = todo, !.entry = entry] EXCEPT !.at = at] \in Jobs
           /\ [[job EXCEPT !.todo = todo, !.entry = entry] EXCEPT !.at = at, !.p = p] \in Jobs
BY DEF Jobs

LEMMA JobRests == job \in Jobs => Rest \in Jobs /\ Rest.at = "rest" /\ ~Rest.importing
BY DEF Jobs, JobSteps, Rest, Resting

Relays == [at : {"none", "open"} \union Checking, up : BOOLEAN,
           g : OutletTokens, of : ProviderIds, key : KeyIds]

LEMMA RelayChanges ==
    ASSUME relay \in Relays
    PROVE  /\ Down(relay) \in Relays
           /\ \A at \in {"none", "open"} \union Checking : [relay EXCEPT !.at = at] \in Relays
BY DEF Relays, Down

(* The types of what a step of the app may change.                         *)
RowTypes ==
    /\ provs \in [ProviderIds -> ProviderRows \union {Absent}]
    /\ keyRows \in [KeyIds -> KeyRowSet \union {Absent}]
    /\ outlets \in [OutletTokens -> OutletRows \union {Absent}]
    /\ enforced \in BOOLEAN
    /\ backup \subseteq Entries2 /\ replaced \subseteq KeyIds
    /\ spent \in [edits : Nat, breaks : Nat]
JobTypes == job \in Jobs /\ (job.at = "insert" => job.entry \in Entries2)
AppTypes == RowTypes /\ JobTypes

LEMMA CommandsKeepTypes ==
    ASSUME StoreTypeOK, AppCommand
    PROVE  AppTypes' /\ relay' = relay
<1> USE DEF StoreTypeOK, AppTypes, RowTypes, JobTypes, Command
<1>1. ASSUME Command PROVE spent' \in [edits : Nat, breaks : Nat]
  BY <1>1
<1>2. ASSUME NEW p \in ProviderIds, NEW n \in ProviderNames, AddProvider(p, n)
      PROVE  AppTypes' /\ relay' = relay
  BY <1>1, <1>2 DEF AddProvider, ProviderRows
<1>3. ASSUME NEW p \in ProviderIds, NEW row \in ProviderRows, SaveProvider(p, row)
      PROVE  AppTypes' /\ relay' = relay
  BY <1>1, <1>3 DEF SaveProvider
<1>4. ASSUME NEW p \in ProviderIds, DeleteProvider(p)
      PROVE  AppTypes' /\ relay' = relay
  BY <1>1, <1>4 DEF DeleteProvider, rows, Jobs, JobSteps
<1>5. ASSUME NEW p \in ProviderIds, NEW k \in KeyIds, AddKey(k, p)
      PROVE  AppTypes' /\ relay' = relay
  BY <1>1, <1>5 DEF AddKey, KeyRowSet
<1>6. ASSUME NEW k \in KeyIds, SaveKey(k)
      PROVE  AppTypes' /\ relay' = relay
  <2>1. keyRows[k] \in KeyRowSet
    BY <1>6 DEF SaveKey
  <2> QED BY <1>1, <1>6, <2>1 DEF SaveKey, KeyRowSet
<1>7. ASSUME NEW k \in KeyIds, DeleteKey(k)
      PROVE  AppTypes' /\ relay' = relay
  BY <1>1, <1>7 DEF DeleteKey, rows, Jobs, JobSteps
<1>8. ASSUME NEW g \in OutletTokens, NEW p \in ProviderIds, NEW k \in KeyIds,
             NEW all \in BOOLEAN, CreateOutlet(g, p, k, all)
      PROVE  AppTypes' /\ relay' = relay
  BY <1>1, <1>8 DEF CreateOutlet, OutletRows
<1>9. ASSUME NEW g \in OutletTokens, NEW row \in OutletRows, UpdateOutlet(g, row)
      PROVE  AppTypes' /\ relay' = relay
  BY <1>1, <1>9 DEF UpdateOutlet
<1>10. ASSUME NEW g \in OutletTokens, DeleteOutlet(g)
       PROVE  AppTypes' /\ relay' = relay
  BY <1>1, <1>10 DEF DeleteOutlet
<1>11. ASSUME NEW redacted \in BOOLEAN, Export(redacted)
       PROVE  AppTypes' /\ relay' = relay
  <2>1. backup' \subseteq Entries2
    BY <1>11 DEF Export, Entries2, ProviderRows, OwnedBy
  <2> QED BY <1>1, <1>11, <2>1 DEF Export, rows
<1>12. ASSUME NEW overwrite \in BOOLEAN, NEW same \in BOOLEAN, NEW logs \in BOOLEAN,
              Import(overwrite, same, logs)
       PROVE  AppTypes' /\ relay' = relay
  BY <1>1, <1>12 DEF Import, rows, Jobs, JobSteps
<1> QED
  BY <1>2, <1>3, <1>4, <1>5, <1>6, <1>7, <1>8, <1>9, <1>10, <1>11, <1>12 DEF AppCommand

LEMMA StatementsKeepRows ==
    ASSUME StoreTypeOK, AppStatement
    PROVE  RowTypes' /\ relay' = relay
<1> USE DEF StoreTypeOK, RowTypes
<1>1. ASSUME NEW S \in SUBSET OutletTokens
      PROVE  OutletsWithout(S) \in [OutletTokens -> OutletRows \union {Absent}]
  BY DEF OutletsWithout
<1>2. ASSUME NEW p PROVE Cascade(p) \in [KeyIds -> KeyRowSet \union {Absent}]
  BY DEF Cascade
<1>3. ASSUME Breaks PROVE spent' \in [edits : Nat, breaks : Nat]
  BY <1>3 DEF Breaks
<1>4. job.p \in ProviderIds /\ job.k \in KeyIds /\ (job.at = "insert" => job.entry \in Entries2)
  BY DEF Jobs
<1>5. CASE KeyOutlets
  <2>1. BoundToKey(job.k) \in SUBSET OutletTokens
    BY DEF BoundToKey
  <2> QED BY <1>5, <1>1, <2>1 DEF KeyOutlets
<1>6. CASE KeyRow
  BY <1>6 DEF KeyRow
<1>7. CASE ProviderOutlets
  <2>1. BoundToProvider(job.p) \in SUBSET OutletTokens
    BY DEF BoundToProvider
  <2> QED BY <1>7, <1>1, <2>1 DEF ProviderOutlets
<1>8. CASE ProviderRow
  BY <1>8, <1>2, <1>4 DEF ProviderRow
<1>9. ASSUME NEW e \in job.todo, NextEntry(e)
      PROVE  RowTypes' /\ relay' = relay
  BY <1>9 DEF NextEntry, rows
<1>10. CASE InsertProvider
  <2>1. provs' \in [ProviderIds -> ProviderRows \union {Absent}]
    BY <1>10, <1>4 DEF InsertProvider, Entries2, ProviderRows
  <2>2. replaced' \subseteq KeyIds /\ keyRows' \in [KeyIds -> KeyRowSet \union {Absent}]
    BY <1>10, <1>2 DEF InsertProvider, OwnedBy
  <2> QED BY <1>10, <2>1, <2>2 DEF InsertProvider
<1>11. ASSUME NEW p \in ProviderIds, InsertFresh(p)
       PROVE  RowTypes' /\ relay' = relay
  BY <1>11, <1>4 DEF InsertFresh, Entries2, ProviderRows
<1>12. ASSUME NEW k \in KeyIds, NEW id \in KeyIds, InsertKey(k, id)
       PROVE  RowTypes' /\ relay' = relay
  BY <1>12, <1>4 DEF InsertKey, KeyRowSet
<1>13. CASE EntryDone \/ ProvidersDone
  BY <1>13 DEF EntryDone, ProvidersDone, rows
<1>14. ASSUME NEW done \in BOOLEAN, LogsOff(done) \/ LogsIn(done)
       PROVE  RowTypes' /\ relay' = relay
  BY <1>14, <1>3 DEF LogsOff, LogsIn, rows
<1>15. CASE StatementFails \/ AppRestarts
  BY <1>15, <1>3 DEF StatementFails, AppRestarts, rows
<1> QED
  BY <1>5, <1>6, <1>7, <1>8, <1>9, <1>10, <1>11, <1>12, <1>13, <1>14, <1>15 DEF AppStatement

LEMMA StatementsKeepJob ==
    ASSUME StoreTypeOK, JobInv, AppStatement
    PROVE  JobTypes'
<1> USE DEF JobTypes
<1>1. /\ job \in Jobs /\ job.p \in ProviderIds /\ job.k \in KeyIds
      /\ job.todo \in SUBSET Entries2 /\ job.keys \in SUBSET KeyIds
      /\ job.importing \in BOOLEAN
  BY DEF StoreTypeOK, Jobs
<1>2. ASSUME NEW at \in JobSteps
      PROVE  LET j == [job EXCEPT !.at = at] IN j \in Jobs /\ j.at = at /\ j.entry = job.entry
  BY <1>1, <1>2, JobChanges DEF Jobs
<1>3. CASE KeyOutlets \/ ProviderOutlets \/ EntryDone
  BY <1>3, <1>2 DEF KeyOutlets, ProviderOutlets, EntryDone, JobSteps
<1>4. CASE KeyRow \/ AppRestarts
  BY <1>4, <1>1, JobRests DEF KeyRow, AppRestarts
<1>5. CASE ProviderRow
  BY <1>5, <1>1, <1>2, JobRests DEF ProviderRow, JobSteps, JobInv
<1>6. ASSUME NEW e \in job.todo, NextEntry(e)
      PROVE  JobTypes'
  <2>1. e \in Entries2 /\ job.todo \ {e} \in SUBSET Entries2
    BY <1>1
  <2> DEFINE j == [job EXCEPT !.todo = @ \ {e}, !.entry = e]
  <2>2. /\ j \in Jobs /\ j.at = job.at /\ j.entry = e
        /\ \A at \in JobSteps : [j EXCEPT !.at = at] \in Jobs /\ [j EXCEPT !.at = at].entry = e
        /\ \A at \in JobSteps, p \in ProviderIds :
             /\ [j EXCEPT !.at = at, !.p = p] \in Jobs /\ [j EXCEPT !.at = at, !.p = p].entry = e
    BY <1>1, <2>1 DEF Jobs
  <2>3. SameName(e.name) \subseteq ProviderIds
    BY DEF SameName
  <2>4. /\ job.at = "import"
        /\ \/ job' = j
           \/ \E q \in SameName(e.name) : job' = [j EXCEPT !.at = "providerOutlets", !.p = q]
           \/ job' = [j EXCEPT !.at = "insert"]
    BY <1>6 DEF NextEntry
  <2> HIDE DEF j
  <2>5. CASE job' = j
    BY <2>1, <2>2, <2>4, <2>5
  <2>6. CASE job' = [j EXCEPT !.at = "insert"]
    BY <2>1, <2>2, <2>6 DEF JobSteps
  <2>7. ASSUME NEW q \in SameName(e.name), job' = [j EXCEPT !.at = "providerOutlets", !.p = q]
        PROVE  JobTypes'
    BY <2>1, <2>2, <2>3, <2>7 DEF JobSteps
  <2> QED BY <2>4, <2>5, <2>6, <2>7
<1>7. CASE InsertProvider
  <2>1. job.entry \in Entries2
    BY <1>7 DEF InsertProvider, StoreTypeOK
  <2>2. job.entry.id \in ProviderIds /\ job.entry.keys \in SUBSET KeyIds
    BY <2>1 DEF Entries2
  <2> QED BY <1>7, <1>1, <2>2 DEF InsertProvider, Jobs, JobSteps
<1>8. ASSUME NEW p \in ProviderIds, InsertFresh(p)
      PROVE  JobTypes'
  <2>1. job.entry \in Entries2
    BY <1>8 DEF InsertFresh, StoreTypeOK
  <2>2. job.entry.keys \in SUBSET KeyIds
    BY <2>1 DEF Entries2
  <2> QED BY <1>8, <1>1, <2>2 DEF InsertFresh, Jobs, JobSteps
<1>9. ASSUME NEW k, job.at = "insertKeys", job' = [job EXCEPT !.keys = @ \ {k}]
      PROVE  JobTypes'
  <2>1. job.keys \ {k} \in SUBSET KeyIds
    BY <1>1
  <2> QED BY <1>9, <1>1, <2>1 DEF Jobs
<1>10. ASSUME NEW k \in KeyIds, NEW id \in KeyIds, InsertKey(k, id)
       PROVE  JobTypes'
  BY <1>10, <1>9 DEF InsertKey
<1>11. CASE ProvidersDone
  BY <1>11, <1>1, <1>2, JobRests DEF ProvidersDone, JobSteps
<1>12. ASSUME NEW done \in BOOLEAN, LogsOff(done) \/ LogsIn(done)
       PROVE  JobTypes'
  BY <1>12, <1>1, <1>2, JobRests DEF LogsOff, LogsIn, JobSteps
<1>13. CASE StatementFails
  BY <1>13, <1>1, <1>2, <1>9, JobRests DEF StatementFails, JobSteps
<1> QED
  BY <1>3, <1>4, <1>5, <1>6, <1>7, <1>8, <1>10, <1>11, <1>12, <1>13 DEF AppStatement

LEMMA DaemonKeepsRelay ==
    ASSUME relay \in Relays, DaemonStep,
           outlets \in [OutletTokens -> OutletRows \union {Absent}]
    PROVE  relay' \in Relays
<1>1. ASSUME NEW g \in OutletTokens, Handshake(g) PROVE relay' \in Relays
  BY <1>1 DEF Handshake, Checking, Relays
<1>2. CASE FrameArrives \/ FrameSent \/ HangUp
  BY <1>2, RelayChanges DEF FrameArrives, FrameSent, HangUp, Checking
<1>3. CASE ReadSession
  <2>1. CASE relay' = Down(relay)
    BY <2>1, RelayChanges
  <2>2. CASE relay' # Down(relay)
    <3>1. /\ outlets[relay.g] # Absent
          /\ relay' = [relay EXCEPT !.at = "provider", !.of = outlets[relay.g].of,
                                    !.key = outlets[relay.g].key]
      BY <1>3, <2>2 DEF ReadSession
    <3>2. outlets[relay.g] \in OutletRows
      BY <3>1 DEF Relays
    <3> QED BY <3>1, <3>2 DEF Relays, Checking, OutletRows
  <2> QED BY <2>1, <2>2
<1>4. CASE ReadProvider
  BY <1>4, RelayChanges DEF ReadProvider, Checking
<1>5. CASE ReadKey
  BY <1>5, RelayChanges DEF ReadKey, Checking, Relays
<1> QED
  BY <1>1, <1>2, <1>3, <1>4, <1>5 DEF DaemonStep

LEMMA CommandsKeepRelay == AppCommand => relay' = relay
BY DEF AppCommand, AddProvider, SaveProvider, DeleteProvider, AddKey, SaveKey, DeleteKey,
       CreateOutlet, UpdateOutlet, DeleteOutlet, Export, Import

LEMMA StatementsKeepRelay == AppStatement => relay' = relay
BY DEF AppStatement, KeyOutlets, KeyRow, ProviderOutlets, ProviderRow, NextEntry, InsertProvider,
       InsertFresh, InsertKey, EntryDone, ProvidersDone, LogsOff, LogsIn, StatementFails, AppRestarts

LEMMA TypesKept ==
    ASSUME StoreTypeOK, JobInv, StoreNext
    PROVE  StoreTypeOK'
<1>1. since' \subseteq Reads
  BY DEF StoreNext, Watch, Grant, StoreTypeOK
<1>2. CASE AppCommand \/ AppStatement
  BY <1>1, <1>2, CommandsKeepTypes, StatementsKeepRows, StatementsKeepJob
     DEF StoreTypeOK, AppTypes, RowTypes, JobTypes
<1>3. CASE DaemonStep
  <2>1. relay' \in Relays
    BY <1>3, DaemonKeepsRelay DEF StoreTypeOK, Relays
  <2> QED BY <1>1, <1>3, <2>1 DEF DaemonStep, StoreTypeOK, rows, Relays
<1> QED BY <1>2, <1>3 DEF StoreNext

----------------------------------------------------------------------------
(* Commands and their statements *)

LEMMA JobKept ==
    ASSUME StoreTypeOK, JobInv, StoreNext
    PROVE  JobInv'
<1>1. /\ job \in Jobs /\ job.at \in JobSteps /\ job.p \in ProviderIds /\ job.k \in KeyIds
      /\ job.importing \in BOOLEAN /\ job.todo \subseteq Entries2
  BY DEF StoreTypeOK, Jobs
<1>2. ASSUME UNCHANGED <<job, outlets>> PROVE JobInv'
  BY <1>2 DEF JobInv, BoundToKey, BoundToProvider
<1>3. ASSUME job.at = "rest", job' = job PROVE JobInv'
  BY <1>3 DEF JobInv
<1>4. ASSUME job' = Rest PROVE JobInv'
  BY <1>1, <1>4, JobRests DEF JobInv
<1>5. ASSUME NEW at \in JobSteps \ {"rest", "insert", "providerOutlets", "providerRow", "keyRow"},
             job'.at = at, at \in {"import", "insertKeys"} => job'.importing
      PROVE  JobInv'
  BY <1>5 DEF JobInv, JobSteps
<1>6. ASSUME NEW k \in KeyIds, DeleteKey(k) PROVE JobInv'
  BY <1>1, <1>5, <1>6 DEF DeleteKey, JobSteps, Jobs
<1>7. ASSUME NEW p \in ProviderIds, DeleteProvider(p) PROVE JobInv'
  BY <1>1, <1>7 DEF DeleteProvider, Command, JobInv, Jobs
<1>8. ASSUME NEW overwrite \in BOOLEAN, NEW same \in BOOLEAN, NEW logs \in BOOLEAN,
             Import(overwrite, same, logs)
      PROVE  JobInv'
  BY <1>1, <1>5, <1>8 DEF Import, JobSteps, Jobs
<1>9. CASE AppCommand
  BY <1>9, <1>3, <1>6, <1>7, <1>8
     DEF AppCommand, Command, AddProvider, SaveProvider, AddKey, SaveKey,
         CreateOutlet, UpdateOutlet, DeleteOutlet, Export
<1>10. CASE KeyOutlets
  <2>1. job'.at = "keyRow" /\ job'.k = job.k /\ outlets' = OutletsWithout(BoundToKey(job.k))
    BY <1>10, <1>1 DEF KeyOutlets, Jobs
  <2>2. BoundToKey(job.k)' = {}
    BY <2>1 DEF BoundToKey, OutletsWithout
  <2> QED BY <2>1, <2>2 DEF JobInv, BoundToKey
<1>11. CASE ProviderOutlets
  <2>1. /\ job'.at = "providerRow" /\ job'.p = job.p /\ job'.importing = job.importing
        /\ job'.entry = job.entry /\ outlets' = OutletsWithout(BoundToProvider(job.p))
        /\ job.at = "providerOutlets"
    BY <1>11, <1>1 DEF ProviderOutlets, Jobs
  <2>2. BoundToProvider(job.p)' = {}
    BY <2>1 DEF BoundToProvider, OutletsWithout
  <2> QED BY <2>1, <2>2 DEF JobInv, BoundToProvider
<1>12. CASE ProviderRow
  BY <1>12, <1>1, <1>4 DEF ProviderRow, JobInv, Jobs
<1>13. ASSUME NEW e \in job.todo, NextEntry(e) PROVE JobInv'
  <2> DEFINE j == [job EXCEPT !.todo = @ \ {e}, !.entry = e]
  <2>1. /\ e \in Entries2 /\ job.at = "import" /\ job.importing
        /\ j.at = "import" /\ j.importing
        /\ [j EXCEPT !.at = "insert"].at = "insert" /\ [j EXCEPT !.at = "insert"].importing
        /\ \A q : LET i == [j EXCEPT !.at = "providerOutlets", !.p = q] IN
             i.at = "providerOutlets" /\ i.entry = e
    BY <1>13, <1>1 DEF NextEntry, JobInv, Jobs
  <2>2. \/ job' = j
        \/ \E q \in SameName(e.name) : job' = [j EXCEPT !.at = "providerOutlets", !.p = q]
        \/ job' = [j EXCEPT !.at = "insert"]
    BY <1>13 DEF NextEntry
  <2> HIDE DEF j
  <2>3. CASE job' = j
    BY <2>1, <2>3 DEF JobInv
  <2>4. CASE job' = [j EXCEPT !.at = "insert"]
    BY <2>1, <2>4 DEF JobInv
  <2>5. ASSUME NEW q, job' = [j EXCEPT !.at = "providerOutlets", !.p = q] PROVE JobInv'
    <3>1. job'.at = "providerOutlets" /\ job'.entry = e
      BY <2>1, <2>5
    <3> QED BY <2>1, <3>1 DEF JobInv
  <2> QED BY <2>2, <2>3, <2>4, <2>5
<1>14. CASE InsertProvider
  BY <1>14, <1>1, <1>5 DEF InsertProvider, JobInv, Jobs, JobSteps
<1>15. ASSUME NEW p \in ProviderIds, InsertFresh(p) PROVE JobInv'
  BY <1>15, <1>1, <1>5 DEF InsertFresh, JobInv, Jobs, JobSteps
<1>16. ASSUME NEW k \in KeyIds, NEW id \in KeyIds, InsertKey(k, id) PROVE JobInv'
  BY <1>16, <1>1, <1>5 DEF InsertKey, JobInv, Jobs, JobSteps
<1>17. CASE EntryDone \/ ProvidersDone
  BY <1>17, <1>1, <1>4, <1>5 DEF EntryDone, ProvidersDone, JobInv, Jobs, JobSteps
<1>18. ASSUME NEW done \in BOOLEAN, LogsOff(done) \/ LogsIn(done) PROVE JobInv'
  BY <1>18, <1>1, <1>4, <1>5 DEF LogsOff, LogsIn, Jobs, JobSteps
<1>19. CASE StatementFails
  BY <1>19, <1>1, <1>4, <1>5 DEF StatementFails, JobInv, Jobs, JobSteps
<1>20. CASE KeyRow \/ AppRestarts
  BY <1>20, <1>4 DEF KeyRow, AppRestarts
<1>21. CASE AppStatement
  BY <1>21, <1>10, <1>11, <1>12, <1>13, <1>14, <1>15, <1>16, <1>17, <1>18, <1>19, <1>20
     DEF AppStatement
<1>22. CASE DaemonStep
  BY <1>22, <1>2 DEF DaemonStep, rows
<1> QED
  BY <1>9, <1>21, <1>22 DEF StoreNext

----------------------------------------------------------------------------
(* Outlets and their keys *)

LEMMA RowsUnchanged ==
    ASSUME RowsInv, UNCHANGED <<rows, known, replaced>>
    PROVE  RowsInv'
BY DEF RowsInv, KeysKnown, OutletsReach, rows

(* Fewer outlets reach as well as before.                                  *)
LEMMA OutletsLeave ==
    ASSUME OutletsReach, UNCHANGED <<provs, keyRows, replaced>>,
           \A g \in OutletTokens : outlets'[g] \in {outlets[g], Absent}
    PROVE  OutletsReach'
BY DEF OutletsReach

LEMMA NewProviderIsRow == \A n \in ProviderNames : [name |-> n, on |-> TRUE] # Absent
<1> TAKE n \in ProviderNames
<1>1. [name |-> n, on |-> TRUE] \in ProviderRows
  BY DEF ProviderRows
<1> QED BY <1>1, AbsentIsNoRow

LEMMA CommandsKeepRows ==
    ASSUME StoreTypeOK, RowsInv, AppCommand
    PROVE  RowsInv'
<1> USE DEF StoreTypeOK, RowsInv, KeysKnown
<1>1. ASSUME NEW p \in ProviderIds, NEW n \in ProviderNames, AddProvider(p, n)
      PROVE  RowsInv'
  <2>1. provs'[p] # Absent /\ \A q \in ProviderIds \ {p} : provs'[q] = provs[q]
    BY <1>1, NewProviderIsRow DEF AddProvider
  <2>2. \A g \in OutletTokens : outlets[g] # Absent => outlets[g].of \in ProviderIds
    BY AbsentIsNoRow DEF OutletRows
  <2> QED BY <1>1, <2>1, <2>2 DEF AddProvider, OutletsReach
<1>2. ASSUME NEW p \in ProviderIds, NEW row \in ProviderRows, SaveProvider(p, row)
      PROVE  RowsInv'
  <2>1. provs'[p] # Absent /\ \A q \in ProviderIds \ {p} : provs'[q] = provs[q]
    BY <1>2, AbsentIsNoRow DEF SaveProvider
  <2>2. \A g \in OutletTokens : outlets[g] # Absent => outlets[g].of \in ProviderIds
    BY AbsentIsNoRow DEF OutletRows
  <2> QED BY <1>2, <2>1, <2>2 DEF SaveProvider, OutletsReach
<1>3. ASSUME NEW p \in ProviderIds, NEW k \in KeyIds, AddKey(k, p)
      PROVE  RowsInv'
  <2>1. keyRows[k] = Absent /\ \A i \in KeyIds \ {k} : keyRows'[i] = keyRows[i]
    BY <1>3 DEF AddKey
  <2>2. \A g \in OutletTokens : outlets[g] # Absent => outlets[g].key \in KeyIds
    BY AbsentIsNoRow DEF OutletRows
  <2>3. OutletsReach'
    BY <1>3, <2>1, <2>2 DEF AddKey, OutletsReach
  <2>4. KeysKnown'
    BY <1>3, <2>1 DEF AddKey
  <2> QED BY <2>3, <2>4
<1>4. ASSUME NEW k \in KeyIds, SaveKey(k)
      PROVE  RowsInv'
  <2>1. keyRows[k] \in KeyRowSet
    BY <1>4 DEF SaveKey
  <2>2. /\ keyRows'[k] # Absent /\ keyRows'[k].of = keyRows[k].of
        /\ \A i \in KeyIds \ {k} : keyRows'[i] = keyRows[i]
    BY <1>4, <2>1, AbsentIsNoRow DEF SaveKey, KeyRowSet
  <2>3. \A g \in OutletTokens : outlets[g] # Absent => outlets[g].key \in KeyIds
    BY AbsentIsNoRow DEF OutletRows
  <2>4. OutletsReach'
    BY <1>4, <2>2, <2>3 DEF SaveKey, OutletsReach
  <2>5. KeysKnown'
    BY <1>4, <2>2 DEF SaveKey
  <2> QED BY <2>4, <2>5
<1>5. ASSUME NEW g \in OutletTokens, NEW p \in ProviderIds, NEW k \in KeyIds,
             NEW all \in BOOLEAN, CreateOutlet(g, p, k, all)
      PROVE  RowsInv'
  BY <1>5 DEF CreateOutlet, ValidateBinding, OutletsReach
<1>6. ASSUME NEW g \in OutletTokens, NEW row \in OutletRows, UpdateOutlet(g, row)
      PROVE  RowsInv'
  BY <1>6 DEF UpdateOutlet, ValidateBinding, OutletsReach
<1>7. ASSUME NEW g \in OutletTokens, DeleteOutlet(g)
      PROVE  RowsInv'
  BY <1>7, OutletsLeave DEF DeleteOutlet
<1>8. ASSUME UNCHANGED <<rows, known, replaced>> PROVE RowsInv'
  BY <1>8, RowsUnchanged
<1>9. /\ \A p \in ProviderIds : DeleteProvider(p) => RowsInv'
      /\ \A k \in KeyIds : DeleteKey(k) => RowsInv'
      /\ \A redacted \in BOOLEAN : Export(redacted) => RowsInv'
      /\ \A overwrite, same, logs \in BOOLEAN : Import(overwrite, same, logs) => RowsInv'
  BY <1>8 DEF DeleteProvider, DeleteKey, Export, Import
<1> HIDE DEF StoreTypeOK, RowsInv
<1> QED
  BY <1>1, <1>2, <1>3, <1>4, <1>5, <1>6, <1>7, <1>9 DEF AppCommand

LEMMA StatementsKeepReach ==
    ASSUME StoreTypeOK, JobInv, RowsInv, AppStatement
    PROVE  RowsInv'
<1> USE DEF StoreTypeOK, RowsInv, KeysKnown
<1>1. job.p \in ProviderIds /\ job.k \in KeyIds
  BY DEF Jobs
<1>2. \A g \in OutletTokens :
        outlets[g] # Absent => outlets[g].of \in ProviderIds /\ outlets[g].key \in KeyIds
  BY AbsentIsNoRow DEF OutletRows
<1>3. \A p, k : Cascade(p)[k] # Absent /\ k \in KeyIds => Cascade(p)[k] = keyRows[k]
  BY DEF Cascade
<1>4. ASSUME NEW S PROVE \A g \in OutletTokens : OutletsWithout(S)[g] \in {outlets[g], Absent}
  BY DEF OutletsWithout
<1>5. CASE KeyOutlets \/ ProviderOutlets
  BY <1>4, <1>5, OutletsLeave DEF KeyOutlets, ProviderOutlets
<1>6. CASE KeyRow
  <2>1. /\ \A g \in OutletTokens : outlets[g] # Absent => outlets[g].key # job.k
        /\ \A i \in KeyIds \ {job.k} : keyRows'[i] = keyRows[i]
        /\ keyRows'[job.k] = Absent
    BY <1>1, <1>6 DEF KeyRow, JobInv, BoundToKey
  <2> QED BY <1>2, <1>6, <2>1 DEF KeyRow, OutletsReach
<1>7. CASE ProviderRow
  <2>1. /\ \A g \in OutletTokens : outlets[g] # Absent => outlets[g].of # job.p
        /\ \A q \in ProviderIds \ {job.p} : provs'[q] = provs[q]
        /\ \A i \in KeyIds : keyRows[i] # Absent /\ keyRows[i].of # job.p => keyRows'[i] = keyRows[i]
        /\ \A i \in KeyIds : keyRows'[i] # Absent => keyRows'[i] = keyRows[i]
    BY <1>1, <1>3, <1>7 DEF ProviderRow, JobInv, BoundToProvider, Cascade, OwnedBy
  <2>2. OutletsReach'
    BY <1>2, <1>7, <2>1 DEF ProviderRow, OutletsReach
  <2> QED BY <1>7, <2>1, <2>2 DEF ProviderRow
<1>8. CASE InsertProvider
  <2> DEFINE id == job.entry.id
  <2>1. id \in ProviderIds /\ job.entry.name \in ProviderNames
    BY <1>8 DEF InsertProvider, Entries2
  <2>2. provs'[id] # Absent /\ \A q \in ProviderIds \ {id} : provs'[q] = provs[q]
    BY <1>8, <2>1, NewProviderIsRow DEF InsertProvider
  <2>3. /\ \A i \in KeyIds : keyRows[i] # Absent /\ keyRows'[i] # keyRows[i] => i \in replaced'
        /\ \A i \in KeyIds : keyRows'[i] # Absent => keyRows'[i] = keyRows[i]
        /\ replaced \subseteq replaced'
    BY <1>8, <1>3 DEF InsertProvider, Cascade, OwnedBy
  <2> HIDE DEF id
  <2>4. OutletsReach'
    <3>1. outlets' = outlets
      BY <1>8 DEF InsertProvider
    <3>2. ASSUME NEW g \in OutletTokens, outlets[g] # Absent, outlets[g].key \notin replaced'
          PROVE  /\ keyRows'[outlets[g].key] # Absent
                 /\ keyRows'[outlets[g].key].of = outlets[g].of
                 /\ provs'[outlets[g].of] # Absent
      BY <1>2, <2>2, <2>3, <3>2 DEF OutletsReach
    <3> QED BY <3>1, <3>2 DEF OutletsReach
  <2> QED BY <1>8, <2>3, <2>4 DEF InsertProvider
<1>9. ASSUME NEW p \in ProviderIds, InsertFresh(p)
      PROVE  RowsInv'
  <2>1. job.entry.name \in ProviderNames
    BY <1>9 DEF InsertFresh, Entries2
  <2>2. provs'[p] # Absent /\ \A q \in ProviderIds \ {p} : provs'[q] = provs[q]
    BY <1>9, <2>1, NewProviderIsRow DEF InsertFresh
  <2> QED BY <1>2, <1>9, <2>2 DEF InsertFresh, OutletsReach
<1>10. ASSUME NEW k \in KeyIds, NEW id \in KeyIds, InsertKey(k, id)
       PROVE  RowsInv'
  <2>1. /\ \A i \in KeyIds : keyRows[i] # Absent => keyRows'[i] = keyRows[i]
        /\ \A i \in KeyIds \ {id} : keyRows'[i] = keyRows[i]
    BY <1>10 DEF InsertKey
  <2>2. OutletsReach'
    BY <1>2, <1>10, <2>1 DEF InsertKey, OutletsReach
  <2>3. KeysKnown'
    BY <1>10, <2>1 DEF InsertKey
  <2> QED BY <2>2, <2>3
<1>11. ASSUME NEW e \in job.todo, NextEntry(e) PROVE RowsInv'
  BY <1>11, RowsUnchanged DEF NextEntry
<1>12. CASE EntryDone \/ ProvidersDone \/ StatementFails \/ AppRestarts
  BY <1>12, RowsUnchanged DEF EntryDone, ProvidersDone, StatementFails, AppRestarts
<1>13. ASSUME NEW done \in BOOLEAN, LogsOff(done) \/ LogsIn(done) PROVE RowsInv'
  BY <1>13, RowsUnchanged DEF LogsOff, LogsIn
<1> QED
  BY <1>5, <1>6, <1>7, <1>8, <1>9, <1>10, <1>11, <1>12, <1>13 DEF AppStatement

----------------------------------------------------------------------------
(* The reads of a frame *)

LEMMA RelayKept ==
    ASSUME StoreTypeOK, RelayInv, StoreNext
    PROVE  RelayInv'
<1> USE DEF RelayInv
<1>1. Watch /\ relay \in Relays
  BY DEF StoreNext, StoreTypeOK, Relays
<1>2. CASE AppCommand \/ AppStatement
  <2>1. relay' = relay
    BY <1>2, CommandsKeepRelay, StatementsKeepRelay
  <2>2. relay.at \in Checking /\ relay.up => since \subseteq since'
    BY <1>1, <2>1 DEF Watch
  <2> QED BY <2>1, <2>2 DEF Checking
<1>3. ASSUME NEW g \in OutletTokens, Handshake(g) PROVE RelayInv'
  BY <1>1, <1>3 DEF Handshake, Relays
<1>4. CASE FrameArrives
  BY <1>1, <1>4 DEF FrameArrives, Relays
<1>5. ASSUME relay' = Down(relay) PROVE RelayInv'
  BY <1>1, <1>5 DEF Down, Relays
<1>6. ASSUME relay'.at \in Checking, relay'.up, relay.at \in Checking
      PROVE  since \union Grant(relay') \subseteq since'
  BY <1>1, <1>6 DEF Watch
<1>7. ASSUME ReadSession, relay' # Down(relay) PROVE RelayInv'
  <2>1. /\ relay.at = "session"
        /\ outlets[relay.g] # Absent /\ outlets[relay.g].on /\ outlets[relay.g].all
        /\ relay' = [relay EXCEPT !.at = "provider", !.of = outlets[relay.g].of,
                                  !.key = outlets[relay.g].key]
    BY <1>7 DEF ReadSession
  <2>2. /\ relay'.at = "provider" /\ relay'.g = relay.g
        /\ relay'.of = outlets[relay.g].of /\ relay'.key = outlets[relay.g].key
    BY <1>1, <2>1 DEF Relays
  <2>3. "session" \in Grant(relay')
    BY <2>1, <2>2 DEF Grant, Reads
  <2> QED BY <1>6, <2>1, <2>2, <2>3 DEF Checking
<1>8. ASSUME ReadProvider, relay' # Down(relay) PROVE RelayInv'
  <2>1. /\ relay.at = "provider" /\ relay' = [relay EXCEPT !.at = "key"]
        /\ provs[relay.of] # Absent /\ provs[relay.of].on
    BY <1>8 DEF ReadProvider
  <2>2. relay'.at = "key" /\ relay'.of = relay.of /\ relay'.up = relay.up
    BY <1>1, <2>1 DEF Relays
  <2>3. "provider" \in Grant(relay')
    BY <2>1, <2>2 DEF Grant, Reads
  <2> QED BY <1>6, <2>1, <2>2, <2>3 DEF Checking
<1>9. ASSUME ReadKey, relay' # Down(relay) PROVE RelayInv'
  <2> DEFINE k == keyRows[relay.key]
  <2>1. /\ relay.at = "key" /\ k # Absent /\ k.of = relay.of /\ k.usable
        /\ relay' = [relay EXCEPT !.at = IF relay.up THEN "sent" ELSE "open", !.up = TRUE]
    BY <1>9 DEF ReadKey
  <2>2. /\ relay'.at = (IF relay.up THEN "sent" ELSE "open") /\ relay'.up
        /\ relay'.of = relay.of /\ relay'.key = relay.key
    BY <1>1, <2>1 DEF Relays
  <2>3. "key" \in Grant(relay')
    BY <2>1, <2>2 DEF Grant, Reads
  <2>4. CASE relay.up
    BY <1>6, <2>1, <2>2, <2>3, <2>4 DEF Checking
  <2> QED BY <2>2, <2>4
<1>10. CASE FrameSent
  BY <1>1, <1>10 DEF FrameSent, Relays
<1>11. CASE DaemonStep
  BY <1>11, <1>3, <1>4, <1>5, <1>7, <1>8, <1>9, <1>10 DEF DaemonStep, HangUp
<1> QED
  BY <1>2, <1>11 DEF StoreNext

----------------------------------------------------------------------------
(* Theorems *)

LEMMA StoreStuttering ==
    ASSUME StoreInv, UNCHANGED storeVars
    PROVE  StoreInv'
BY DEF StoreInv, StoreTypeOK, JobInv, RowsInv, RelayInv, KeysKnown, OutletsReach,
       BoundToKey, BoundToProvider, storeVars

(* Providers, keys, outlets, the command and the relay stay consistent.    *)
THEOREM StoreInductive == StoreSpec => []StoreInv
<1>1. ASSUME StoreInv, [StoreNext]_storeVars PROVE StoreInv'
  <2>1. CASE StoreNext
    <3>1. StoreTypeOK' /\ JobInv' /\ RelayInv'
      BY <1>1, <2>1, TypesKept, JobKept, RelayKept DEF StoreInv
    <3>2. RowsInv'
      <4>1. CASE DaemonStep
        BY <1>1, <4>1, RowsUnchanged DEF StoreInv, DaemonStep
      <4> QED
        BY <1>1, <2>1, <4>1, CommandsKeepRows, StatementsKeepReach DEF StoreInv, StoreNext
    <3> QED BY <3>1, <3>2 DEF StoreInv
  <2> QED BY <1>1, <2>1, StoreStuttering
<1> QED BY StoreInitial, <1>1, PTL DEF StoreSpec

(* Every variable keeps its type: no command, failed statement or restart  *)
(* leaves a half-made row or record behind.                                *)
THEOREM StoreTypeCorrect == StoreSpec => []StoreTypeOK
<1>1. StoreInv => StoreTypeOK
  BY DEF StoreInv
<1> QED BY <1>1, StoreInductive, PTL

(* An outlet leads to a key of its provider between any two statements of  *)
(* the deletes and imports, whatever fails: api_key_delete and             *)
(* provider_delete take the outlets along.                                 *)
THEOREM OutletsAlwaysReach == StoreSpec => []OutletsReach
<1>1. StoreInv => OutletsReach
  BY DEF StoreInv, RowsInv
<1> QED BY <1>1, StoreInductive, PTL

(* A frame of a WebSocket relay is sent only under a grant that held since *)
(* it arrived: gateway_ws_frame_allowed reads outlet, provider and key     *)
(* again, although each in a statement of its own.                         *)
THEOREM FramesAreGranted == StoreSpec => []FramesUnderGrant
<1>1. StoreInv => FramesUnderGrant
  BY DEF StoreInv, StoreTypeOK, RelayInv, FramesUnderGrant, Reads
<1> QED BY <1>1, StoreInductive, PTL

----------------------------------------------------------------------------
(* The migrations. *)

HIDE StoreConstants

(* The steps before the repair of the outlets, and those behind it.        *)
BeforeRepair == {"alter", "scripts", "lift", "lifecycle", "backfill", "mark", "repair"}
PastRepair == Steps \ BeforeRepair
PastLift == Steps \ {"alter", "scripts", "lift"}
PastConnect ==
    {"goDefaults", "shipped", "clear", "retired", "rules", "retire", "secrets", "restore", "open"}
PastDefaults == {"retired", "rules", "retire", "secrets", "restore", "open"}
PastRetire == {"secrets", "restore", "open"}

Databases ==
    [columns : BOOLEAN, kind : [Sessions -> Kinds],
     conf : [Sessions -> {"null", "snapshot", "user"}],
     script : {"legacy", "lifted", "user"}, defaults : {"shipped", "cleared", "user"},
     mapping : {"retired", "clean", "user"}, secret : {"keychain", "inline", "user"},
     client : {"claude", "claude_code"}, marks : SUBSET Markers, report : SUBSET {"key"}]
Boots ==
    [at : Steps \cup {"off", "open"}, took : {"nothing", "keychain", "inline", "user"}]

SchemaTyped ==
    /\ database \in Databases
    /\ boot \in [Processes -> Boots]
    /\ stale \subseteq Processes /\ behind \subseteq Processes
    /\ mine \subseteq EditedFields /\ torn \in BOOLEAN
    /\ trouble \in [crashes : Nat, swallowed : Nat, edits : Nat]

(* A marker that a process has passed is set, and what it guards is done.  *)
GuardedAt(p) ==
    /\ boot[p].at \in PastConnect => "connection" \in database.marks
    /\ boot[p].at \in PastDefaults => "goDefaults" \in database.marks
    /\ boot[p].at \in PastRetire => "retired" \in database.marks
    /\ boot[p].at = "restore" /\ boot[p].took # "keychain" => database.secret # "keychain"
    /\ boot[p].at = "open" => database.secret # "keychain"
Guarded ==
    /\ \A p \in Processes : GuardedAt(p)
    /\ "retired" \in database.marks => database.mapping # "retired"
    /\ mine # {} => "goDefaults" \in database.marks

(* As long as no error was lost, what a process has passed is done.        *)
PassedAt(p) ==
    /\ boot[p].at \in (Steps \ {"alter"}) \cup {"open"} => database.columns
    /\ boot[p].at \in PastLift \cup {"open"} => database.script # "legacy"
    /\ boot[p].at \in PastRepair \cup {"repair", "open"} => "lifecycle" \in database.marks
    /\ boot[p].at \in (PastRepair \ {"clients"}) \cup {"open"} => database.client = "claude_code"
Passed == trouble.swallowed = 0 => \A p \in Processes : PassedAt(p)

(* An outlet that is not a gateway is owed a repair: a process is still    *)
(* before it, or one died, and whoever is further on started before that.  *)
NoGateway(s) == database.kind[s] \notin {"absent", "gateway"}
Misnamed == \E s \in Outlets : NoGateway(s)
Repairing == \E p \in Processes : boot[p].at \in BeforeRepair
RepairOwed ==
    trouble.swallowed = 0 /\ Misnamed /\ ~Repairing =>
        \A p \in Processes :
            /\ boot[p].at \in PastRepair => p \in behind
            /\ boot[p].at \in PastRepair \cup {"open"} => torn

SchemaInv == SchemaTyped /\ Guarded /\ Passed /\ RepairOwed /\ SavesKept

USE SchemaAssumption

----------------------------------------------------------------------------
LEMMA SchemaInitial == SchemaInit => SchemaInv
<1> SUFFICES ASSUME SchemaInit PROVE SchemaInv
  OBVIOUS
<1> USE DEF SchemaInit
<1>1. Legacy \in Databases /\ Fresh \in Databases
  BY DEF Legacy, Fresh, Databases, Kinds, Markers
<1>2. SchemaTyped
  BY <1>1 DEF SchemaTyped, Boots, NotOpen
<1>3. \A p \in Processes : boot[p].at = "off"
  BY DEF NotOpen
<1>4. database.marks = {}
  <2>1. Legacy.marks = {}
    BY DEF Legacy
  <2>2. Fresh.marks = Legacy.marks
    BY <1>1 DEF Fresh, Databases
  <2> QED BY <2>1, <2>2
<1>5. Guarded
  BY <1>3, <1>4 DEF Guarded, GuardedAt, PastConnect, PastDefaults, PastRetire
<1>6. Passed
  BY <1>3 DEF Passed, PassedAt, PastLift, PastRepair, Steps
<1>7. RepairOwed
  BY <1>3 DEF RepairOwed, PastRepair, Steps
<1>8. SavesKept
  BY DEF SavesKept
<1> QED BY <1>2, <1>5, <1>6, <1>7, <1>8 DEF SchemaInv

----------------------------------------------------------------------------
(* What the parts of a step do. *)

LEMMA BootGoes ==
    ASSUME boot \in [Processes -> Boots], NEW p \in Processes,
           NEW from, NEW to \in Steps \cup {"off", "open"}, Goes(p, from, to)
    PROVE  /\ boot' \in [Processes -> Boots]
           /\ boot[p].at = from /\ boot'[p].at = to /\ boot'[p].took = boot[p].took
           /\ \A q \in Processes \ {p} : boot'[q] = boot[q]
BY DEF Goes, Boots

LEMMA BootDies ==
    ASSUME SchemaTyped, NEW p \in Processes, Dies(p)
    PROVE  /\ boot' \in [Processes -> Boots]
           /\ boot'[p].at = "off"
           /\ \A q \in Processes \ {p} : boot'[q] = boot[q]
           /\ torn' = TRUE /\ behind' = OnTheirWay \ {p} /\ behind' \subseteq Processes
BY DEF Dies, Boots, NotOpen, SchemaTyped, OnTheirWay

LEMMA SwallowedOrNot ==
    ASSUME SchemaTyped, NEW db, Swallowing(db)
    PROVE  /\ trouble' \in [crashes : Nat, swallowed : Nat, edits : Nat]
           /\ trouble'.swallowed = 0 => trouble.swallowed = 0 /\ database' = db
           /\ database' = db \/ database' = database
           /\ stale' \subseteq Processes
BY DEF Swallowing, Commits, WritesNothing, SchemaTyped, InTransaction

(* A step that only reads or moves on.                                     *)
Quiet(p) ==
    \/ StartOpening(p) \/ ReadScripts(p) \/ ReadLifecycle(p)
    \/ ReadConnection(p) \/ SnapshotConnections(p)
    \/ ReadGoDefaults(p) \/ SnapshotShipped(p)
    \/ ReadRetired(p) \/ SnapshotRules(p) \/ ReadSecrets(p) \/ Exit(p)
    \/ ConnectionUnreadable(p) \/ CrashWhileOpening(p)
(* A statement whose error is lost.                                        *)
Careless(p) ==
    Alter(p) \/ Lift(p) \/ Backfill(p) \/ MarkLifecycle(p) \/ Repair(p) \/ NameClients(p)
(* A guarded transaction, the restore of the secrets and a save.           *)
Writing(p) ==
    Connect(p) \/ ClearShipped(p) \/ Retire(p) \/ RestoreSecrets(p) \/ UserSaves(p)

LEMMA StepKinds ==
    ASSUME NEW p \in Processes
    PROVE  SchemaStep(p) <=> Quiet(p) \/ Careless(p) \/ Writing(p)
BY DEF SchemaStep, Quiet, Careless, Writing

----------------------------------------------------------------------------
(* What is committed only moves on.                                        *)

Advances ==
    /\ database' \in Databases
    /\ database.marks \subseteq database'.marks
    /\ database'.mapping = "retired" =>
        database.mapping = "retired" /\ ("retired" \in database'.marks => "retired" \in database.marks)
    /\ database'.secret = "keychain" => database.secret = "keychain"
    /\ database.columns => database'.columns
    /\ database'.script = "legacy" => database.script = "legacy"
    /\ database.client = "claude_code" => database'.client = "claude_code"
    /\ database.mapping = "user" => database'.mapping = "user"
    /\ database.defaults = "user" /\ "goDefaults" \in database.marks => database'.defaults = "user"
    /\ \A s \in Sessions : database.conf[s] = "user" => database'.conf[s] = "user"

(* All other parts of the database are as they were.                       *)
SameBut(parts) ==
    /\ "columns" \notin parts => database'.columns = database.columns
    /\ "kind" \notin parts => database'.kind = database.kind
    /\ "conf" \notin parts => database'.conf = database.conf
    /\ "script" \notin parts => database'.script = database.script
    /\ "defaults" \notin parts => database'.defaults = database.defaults
    /\ "mapping" \notin parts => database'.mapping = database.mapping
    /\ "secret" \notin parts => database'.secret = database.secret
    /\ "client" \notin parts => database'.client = database.client
    /\ "marks" \notin parts => database'.marks = database.marks

LEMMA StayingAdvances ==
    ASSUME database \in Databases, database' = database PROVE Advances
BY DEF Advances

LEMMA CarelessAdvances ==
    ASSUME SchemaTyped, NEW p \in Processes, Careless(p) PROVE Advances
<1> USE DEF SchemaTyped
<1>1. CASE Alter(p)
  <2> DEFINE db == [database EXCEPT !.columns = TRUE]
  <2>1. database' = db \/ database' = database
    BY <1>1, SwallowedOrNot DEF Alter
  <2> QED BY <2>1 DEF Advances, Databases
<1>2. CASE Lift(p)
  <2> DEFINE db == [database EXCEPT !.script = "lifted"]
  <2>1. database' = db \/ database' = database
    BY <1>2, SwallowedOrNot DEF Lift
  <2> QED BY <2>1 DEF Advances, Databases
<1>3. CASE Backfill(p)
  <2> DEFINE db == [database EXCEPT !.kind = BackfilledKinds]
  <2>1. database' = db \/ database' = database
    BY <1>3, SwallowedOrNot DEF Backfill
  <2>2. BackfilledKinds \in [Sessions -> Kinds]
    BY DEF BackfilledKinds, KindByShape, Kinds
  <2> QED BY <2>1, <2>2 DEF Advances, Databases
<1>4. CASE MarkLifecycle(p)
  <2> DEFINE db == [database EXCEPT !.marks = @ \cup {"lifecycle"}]
  <2>1. database' = db \/ database' = database
    BY <1>4, SwallowedOrNot DEF MarkLifecycle
  <2> QED BY <2>1 DEF Advances, Databases, Markers
<1>5. CASE Repair(p)
  <2> DEFINE db == [database EXCEPT !.kind = RepairedKinds]
  <2>1. database' = db \/ database' = database
    BY <1>5, SwallowedOrNot DEF Repair
  <2>2. RepairedKinds \in [Sessions -> Kinds]
    BY DEF RepairedKinds, Kinds, Databases
  <2> QED BY <2>1, <2>2 DEF Advances, Databases
<1>6. CASE NameClients(p)
  <2> DEFINE db == [database EXCEPT !.client = "claude_code"]
  <2>1. database' = db \/ database' = database
    BY <1>6, SwallowedOrNot DEF NameClients
  <2> QED BY <2>1 DEF Advances, Databases
<1> QED BY <1>1, <1>2, <1>3, <1>4, <1>5, <1>6 DEF Careless

(* A transaction commits, or the open fails and nothing is written.        *)
LEMMA CommittedOrFailed ==
    ASSUME SchemaTyped, NEW p \in Processes, NEW from, NEW to \in Steps \cup {"off", "open"},
           NEW db, NEW refused \in BOOLEAN, CommitOrFail(p, from, to, db, refused)
    PROVE  /\ boot' \in [Processes -> Boots]
           /\ stale' \subseteq Processes /\ behind' \subseteq Processes
           /\ torn' \in BOOLEAN
           /\ mine' = mine /\ trouble' = trouble
           /\ \A q \in Processes \ {p} : boot'[q] = boot[q]
           /\ \/ /\ ~refused /\ boot[p].at = from /\ boot'[p].at = to
                 /\ database' = db /\ UNCHANGED <<torn, behind>>
              \/ boot[p].at = from /\ database' = database /\ Dies(p)
<1>1. CASE SnapshotHolds(p) /\ ~refused
  BY <1>1, BootGoes DEF CommitOrFail, Commits, InTransaction, SchemaTyped
<1>2. CASE ~(SnapshotHolds(p) /\ ~refused)
  BY <1>2, BootDies DEF CommitOrFail, OpenFails, SchemaTyped
<1> QED BY <1>1, <1>2

LEMMA WritingAdvances ==
    ASSUME SchemaTyped, NEW p \in Processes, Writing(p) PROVE Advances
<1> USE DEF SchemaTyped
<1> USE DEF Steps
<1>1. CASE Connect(p)
  <2> DEFINE db == [database EXCEPT !.conf = Connected, !.marks = @ \cup {"connection"}]
  <2>1. database' = db \/ database' = database
    <3>1. CommitOrFail(p, "connect", "goDefaults", db, FALSE)
      BY <1>1 DEF Connect
    <3>2. "goDefaults" \in Steps \cup {"off", "open"}
      OBVIOUS
    <3> HIDE DEF db, Steps
    <3> QED BY <3>1, <3>2, CommittedOrFailed
  <2>2. /\ Connected \in [Sessions -> {"null", "snapshot", "user"}]
        /\ \A s \in Sessions : database.conf[s] = "user" => Connected[s] = "user"
    BY DEF Connected, Databases
  <2>3. ASSUME database' = db PROVE Advances
    <3>1. /\ database' \in Databases
          /\ database'.conf = Connected
          /\ database'.marks = database.marks \cup {"connection"}
          /\ SameBut({"conf", "marks"})
      BY <2>2, <2>3 DEF Databases, Markers, SameBut
    <3> QED BY <2>2, <3>1 DEF Advances, SameBut
  <2> QED BY <2>1, <2>3, StayingAdvances
<1>2. CASE ClearShipped(p)
  <2>1. database' = database \/ (database' = ClearedDefaults /\ ~MarkerRefused("goDefaults"))
    BY <1>2 DEF ClearShipped, CommitOrFail, Commits, OpenFails
  <2>3. ASSUME database' = ClearedDefaults, ~MarkerRefused("goDefaults") PROVE Advances
    <3>1. /\ database' \in Databases
          /\ database'.marks = database.marks \cup {"goDefaults"}
          /\ SameBut({"defaults", "marks"})
      BY <2>3 DEF Databases, Markers, SameBut, ClearedDefaults
    <3> QED BY <2>3, <3>1 DEF Advances, SameBut, MarkerRefused
  <2> QED BY <2>1, <2>3, StayingAdvances
<1>3. CASE Retire(p)
  <2>1. database' = RetiredRemoved \/ database' = database
    BY <1>3, CommittedOrFailed DEF Retire
  <2>3. ASSUME database' = RetiredRemoved PROVE Advances
    <3>1. /\ database' \in Databases
          /\ database'.marks = database.marks \cup {"retired"}
          /\ database'.mapping = IF database.mapping = "retired" THEN "clean" ELSE database.mapping
          /\ SameBut({"mapping", "marks", "report"})
      BY <2>3 DEF Databases, Markers, SameBut, RetiredRemoved
    <3> QED BY <3>1 DEF Advances, SameBut
  <2> QED BY <2>1, <2>3, StayingAdvances
<1>4. CASE RestoreSecrets(p)
  <2>1. database' = [database EXCEPT !.secret = "inline"] \/ database' = database
    BY <1>4 DEF RestoreSecrets, Commits, WritesNothing
  <2> QED BY <2>1 DEF Advances, Databases
<1>5. CASE UserSaves(p)
  <2>1. CASE \E s \in Outlets : database' = SavedOutlet(s)
    <3>1. PICK s \in Outlets : database' = SavedOutlet(s)
      BY <2>1
    <3>2. /\ database' \in Databases
          /\ database'.conf = [database.conf EXCEPT ![s] = "user"]
          /\ SameBut({"kind", "conf"})
      BY <3>1 DEF Databases, Kinds, SameBut, SavedOutlet
    <3> QED BY <3>2 DEF Advances, SameBut, Databases
  <2>2. CASE \E field \in EditedFields \ {"conf"} : database' = Saved(field)
    <3>1. PICK field \in EditedFields \ {"conf"} : database' = Saved(field)
      BY <2>2
    <3>2. CASE field = "script"
      BY <3>1, <3>2 DEF Advances, Databases, Saved
    <3>3. CASE field = "defaults"
      BY <3>1, <3>3 DEF Advances, Databases, Saved
    <3>4. CASE field = "mapping"
      BY <3>1, <3>4 DEF Advances, Databases, Saved
    <3>5. CASE field = "secret"
      BY <3>1, <3>5 DEF Advances, Databases, Saved
    <3> QED BY <3>2, <3>3, <3>4, <3>5 DEF EditedFields
  <2> QED BY <1>5, <2>1, <2>2 DEF UserSaves, Commits
<1> QED BY <1>1, <1>2, <1>3, <1>4, <1>5 DEF Writing

LEMMA QuietStays ==
    ASSUME SchemaTyped, NEW p \in Processes, Quiet(p)
    PROVE  database' = database /\ mine' = mine /\ trouble'.swallowed = trouble.swallowed
BY DEF Quiet, StartOpening, ReadScripts, ReadLifecycle, ReadConnection, ReadGoDefaults,
       ReadRetired, ReadMarker, SnapshotConnections, SnapshotShipped, SnapshotRules,
       BeginTransaction, ReadSecrets, Exit, ConnectionUnreadable, OpenFails, CrashWhileOpening,
       SchemaTyped

LEMMA SchemaAdvances ==
    ASSUME SchemaTyped, NEW p \in Processes, SchemaStep(p) PROVE Advances
<1>1. CASE Quiet(p)
  BY <1>1, QuietStays, StayingAdvances DEF SchemaTyped
<1> QED BY <1>1, StepKinds, CarelessAdvances, WritingAdvances

(* Where a step takes its process, and that it leaves the others alone.    *)
OthersStand(p) == \A q \in Processes \ {p} : boot'[q] = boot[q]

LEMMA QuietTypes ==
    ASSUME SchemaTyped, NEW p \in Processes, Quiet(p)
    PROVE  SchemaTyped' /\ OthersStand(p)
<1> USE DEF SchemaTyped, OthersStand
<1>1. CASE StartOpening(p)
  BY <1>1, BootGoes DEF StartOpening, Steps
<1>2. CASE ReadScripts(p)
  BY <1>2 DEF ReadScripts, Steps, Boots
<1>3. CASE ReadLifecycle(p)
  BY <1>3 DEF ReadLifecycle, ReadMarker, Steps, Boots
<1>4. CASE ReadConnection(p)
  BY <1>4 DEF ReadConnection, ReadMarker, Steps, Boots
<1>5. CASE ReadGoDefaults(p)
  BY <1>5 DEF ReadGoDefaults, ReadMarker, Steps, Boots
<1>6. CASE ReadRetired(p)
  BY <1>6 DEF ReadRetired, ReadMarker, Steps, Boots
<1>7. CASE SnapshotConnections(p) \/ SnapshotShipped(p) \/ SnapshotRules(p)
  BY <1>7 DEF SnapshotConnections, SnapshotShipped, SnapshotRules, BeginTransaction, Steps, Boots
<1>8. CASE ReadSecrets(p)
  <2>1. CASE OpenFails(p)
    BY <2>1, BootDies DEF OpenFails
  <2>2. CASE /\ boot' = [boot EXCEPT ![p].at = "restore", ![p].took = database.secret]
             /\ UNCHANGED <<database, stale, mine, torn, behind, trouble>>
    <3>1. database.secret \in {"keychain", "inline", "user"}
      BY DEF Databases
    <3>2. boot' \in [Processes -> Boots]
      BY <2>2, <3>1 DEF Steps, Boots
    <3> QED BY <2>2, <3>2
  <2> QED BY <1>8, <2>1, <2>2 DEF ReadSecrets
<1>9. CASE Exit(p)
  BY <1>9, BootGoes DEF Exit
<1>10. CASE ConnectionUnreadable(p)
  BY <1>10, BootDies DEF ConnectionUnreadable, OpenFails
<1>11. CASE CrashWhileOpening(p)
  <2>1. trouble' \in [crashes : Nat, swallowed : Nat, edits : Nat]
    BY <1>11 DEF CrashWhileOpening
  <2> QED BY <1>11, <2>1, BootDies DEF CrashWhileOpening
<1> QED
  BY <1>1, <1>2, <1>3, <1>4, <1>5, <1>6, <1>7, <1>8, <1>9, <1>10, <1>11 DEF Quiet

LEMMA CarelessTypes ==
    ASSUME SchemaTyped, NEW p \in Processes, Careless(p)
    PROVE  SchemaTyped' /\ OthersStand(p)
<1>1. Advances
  BY CarelessAdvances
<1>2. database' \in Databases
  BY <1>1 DEF Advances
<1> USE DEF OthersStand, Steps
<1>3. \E from, to \in Steps : \E db : Goes(p, from, to) /\ Swallowing(db)
  BY DEF Careless, Alter, Lift, Backfill, MarkLifecycle, Repair, NameClients
<1>4. UNCHANGED <<mine, torn, behind>>
  BY DEF Careless, Alter, Lift, Backfill, MarkLifecycle, Repair, NameClients
<1>5. boot \in [Processes -> Boots]
  BY DEF SchemaTyped
<1>6. boot' \in [Processes -> Boots] /\ OthersStand(p)
  BY <1>3, <1>5, BootGoes
<1>7. stale' \subseteq Processes /\ trouble' \in [crashes : Nat, swallowed : Nat, edits : Nat]
  BY <1>3, SwallowedOrNot
<1> QED BY <1>2, <1>4, <1>6, <1>7 DEF SchemaTyped

LEMMA WritingTypes ==
    ASSUME SchemaTyped, NEW p \in Processes, Writing(p)
    PROVE  SchemaTyped' /\ OthersStand(p)
<1>1. database' \in Databases
  BY WritingAdvances DEF Advances
<1> USE <1>1 DEF OthersStand, Steps
<1>2. CASE Connect(p)
  BY <1>2, CommittedOrFailed DEF Connect, SchemaTyped
<1>3. CASE ClearShipped(p)
  <2>1. CASE SnapshotHolds(p) /\ ~MarkerRefused("goDefaults")
    BY <1>3, <2>1, BootGoes DEF ClearShipped, CommitOrFail, Commits, InTransaction, SchemaTyped
  <2>2. CASE ~(SnapshotHolds(p) /\ ~MarkerRefused("goDefaults"))
    BY <1>3, <2>2, BootDies DEF ClearShipped, CommitOrFail, OpenFails, SchemaTyped
  <2> QED BY <2>1, <2>2
<1>4. CASE Retire(p)
  BY <1>4, CommittedOrFailed DEF Retire, SchemaTyped
<1>5. CASE RestoreSecrets(p)
  BY <1>5 DEF RestoreSecrets, NotOpen, Boots, Commits, WritesNothing, InTransaction, SchemaTyped
<1>6. CASE UserSaves(p)
  BY <1>6 DEF UserSaves, Commits, InTransaction, SchemaTyped, EditedFields
<1> QED BY <1>2, <1>3, <1>4, <1>5, <1>6 DEF Writing

LEMMA SchemaTypesKept ==
    ASSUME SchemaTyped, NEW p \in Processes, SchemaStep(p)
    PROVE  SchemaTyped' /\ OthersStand(p)
BY StepKinds, QuietTypes, CarelessTypes, WritingTypes

----------------------------------------------------------------------------
(* The way of a process through the migrations: where a step starts and    *)
(* ends, and what is on disk at its end.                                   *)

Heard == trouble'.swallowed = 0
From(p, from, to) == boot[p].at = from /\ boot'[p].at = to
Marked(marker) == marker \in database'.marks

ThroughColumns(p) ==
    \/ From(p, "off", "alter")
    \/ From(p, "alter", "scripts") /\ (Heard => database'.columns)
    \/ From(p, "scripts", "lift")
    \/ From(p, "scripts", "lifecycle") /\ (database'.columns => database'.script # "legacy")
    \/ From(p, "lift", "lifecycle") /\ (Heard => database'.script # "legacy")
ThroughKinds(p) ==
    \/ From(p, "lifecycle", "backfill")
    \/ From(p, "lifecycle", "repair") /\ Marked("lifecycle")
    \/ From(p, "backfill", "mark")
    \/ From(p, "mark", "repair") /\ (Heard => Marked("lifecycle"))
    \/ From(p, "repair", "clients")
    \/ From(p, "clients", "connection") /\ (Heard => database'.client = "claude_code")
ThroughMarkers(p) ==
    \/ From(p, "connection", "snapshot") \/ From(p, "snapshot", "connect")
    \/ (From(p, "connection", "goDefaults") \/ From(p, "connect", "goDefaults")) /\ Marked("connection")
    \/ From(p, "goDefaults", "shipped") \/ From(p, "shipped", "clear")
    \/ (From(p, "goDefaults", "retired") \/ From(p, "clear", "retired")) /\ Marked("goDefaults")
    \/ From(p, "retired", "rules") \/ From(p, "rules", "retire")
    \/ (From(p, "retired", "secrets") \/ From(p, "retire", "secrets")) /\ Marked("retired")
ThroughSecrets(p) ==
    \/ From(p, "secrets", "restore") /\ boot'[p].took = database'.secret
    \/ /\ From(p, "restore", "open")
       /\ boot[p].took = "keychain" => database'.secret # "keychain"
    \/ boot'[p].at = "off"
    \/ boot'[p] = boot[p]
Course(p) == ThroughColumns(p) \/ ThroughKinds(p) \/ ThroughMarkers(p) \/ ThroughSecrets(p)

LEMMA QuietCourse ==
    ASSUME SchemaTyped, NEW p \in Processes, Quiet(p) PROVE Course(p)
<1>0. database' = database /\ boot \in [Processes -> Boots] /\ p \in DOMAIN boot
  BY QuietStays DEF SchemaTyped
<1>1. CASE StartOpening(p)
  BY <1>0, <1>1, BootGoes DEF StartOpening, Steps, Course, ThroughColumns, From
<1>2. CASE ReadScripts(p)
  <2>1. boot'[p].at = IF database.columns /\ database.script = "legacy" THEN "lift" ELSE "lifecycle"
    BY <1>0, <1>2 DEF ReadScripts, Boots
  <2> QED BY <1>0, <1>2, <2>1 DEF ReadScripts, Course, ThroughColumns, From
<1>3. \A marker, todo, done : ReadMarker(p, marker, todo, done) =>
        boot[p].at = marker /\ boot'[p].at = IF Marked(marker) THEN done ELSE todo
  BY <1>0 DEF ReadMarker, Marked, Boots
<1>4. CASE ReadLifecycle(p)
  BY <1>3, <1>4 DEF ReadLifecycle, Course, ThroughKinds, From
<1>5. CASE ReadConnection(p) \/ ReadGoDefaults(p) \/ ReadRetired(p)
  BY <1>3, <1>5 DEF ReadConnection, ReadGoDefaults, ReadRetired, Course, ThroughMarkers, From
<1>6. CASE SnapshotConnections(p) \/ SnapshotShipped(p) \/ SnapshotRules(p)
  BY <1>0, <1>6 DEF SnapshotConnections, SnapshotShipped, SnapshotRules, BeginTransaction, Boots,
                    Course, ThroughMarkers, From
<1>7. CASE \/ ReadSecrets(p) /\ OpenFails(p)
           \/ ConnectionUnreadable(p) \/ CrashWhileOpening(p)
  <2>1. boot'[p].at = "off"
    BY <1>7, BootDies DEF ConnectionUnreadable, CrashWhileOpening, OpenFails
  <2> QED BY <2>1 DEF Course, ThroughSecrets
<1>8. CASE ReadSecrets(p) /\ ~OpenFails(p)
  BY <1>0, <1>8 DEF ReadSecrets, Boots, Course, ThroughSecrets, From
<1>9. CASE Exit(p)
  <2>1. boot'[p].at = "off"
    BY <1>0, <1>9, BootGoes DEF Exit
  <2> QED BY <2>1 DEF Course, ThroughSecrets
<1> QED BY <1>1, <1>2, <1>4, <1>5, <1>6, <1>7, <1>8, <1>9 DEF Quiet

LEMMA CarelessCourse ==
    ASSUME SchemaTyped, NEW p \in Processes, Careless(p) PROVE Course(p)
<1>0. boot \in [Processes -> Boots] /\ database \in Databases
  BY DEF SchemaTyped
<1> USE DEF Steps, From, Heard
<1>1. CASE Alter(p)
  BY <1>0, <1>1, BootGoes, SwallowedOrNot DEF Alter, Course, ThroughColumns, Databases
<1>2. CASE Lift(p)
  BY <1>0, <1>2, BootGoes, SwallowedOrNot DEF Lift, Course, ThroughColumns, Databases
<1>3. CASE Backfill(p) \/ Repair(p)
  BY <1>0, <1>3, BootGoes DEF Backfill, Repair, Course, ThroughKinds
<1>4. CASE MarkLifecycle(p)
  <2>1. Heard => database' = [database EXCEPT !.marks = @ \cup {"lifecycle"}]
    BY <1>4, SwallowedOrNot DEF MarkLifecycle
  <2>2. Heard => Marked("lifecycle")
    BY <1>0, <2>1 DEF Databases, Marked
  <2> QED BY <1>0, <1>4, <2>2, BootGoes DEF MarkLifecycle, Course, ThroughKinds
<1>5. CASE NameClients(p)
  BY <1>0, <1>5, BootGoes, SwallowedOrNot DEF NameClients, Course, ThroughKinds, Databases
<1> QED BY <1>1, <1>2, <1>3, <1>4, <1>5 DEF Careless

LEMMA WritingCourse ==
    ASSUME SchemaTyped, NEW p \in Processes, Writing(p) PROVE Course(p)
<1>0. boot \in [Processes -> Boots] /\ database \in Databases
  BY DEF SchemaTyped
<1>1. Dies(p) => boot'[p].at = "off"
  BY BootDies
<1> USE DEF Steps, From
<1>2. CASE Connect(p)
  <2> DEFINE db == [database EXCEPT !.conf = Connected, !.marks = @ \cup {"connection"}]
  <2>1. "connection" \in db.marks
    BY <1>0 DEF Databases
  <2>2. CommitOrFail(p, "connect", "goDefaults", db, FALSE)
    BY <1>2 DEF Connect
  <2>3. "goDefaults" \in Steps \cup {"off", "open"}
    OBVIOUS
  <2> HIDE DEF db
  <2>4. \/ boot[p].at = "connect" /\ boot'[p].at = "goDefaults" /\ database' = db
        \/ boot[p].at = "connect" /\ database' = database /\ Dies(p)
    <3> HIDE DEF Steps
    <3> QED BY <2>2, <2>3, CommittedOrFailed
  <2> QED BY <1>0, <1>1, <2>1, <2>4 DEF Course, ThroughMarkers, ThroughSecrets, Marked
<1>3. CASE ClearShipped(p)
  <2>1. "goDefaults" \in ClearedDefaults.marks
    BY <1>0 DEF ClearedDefaults, Databases
  <2>2. CASE OpenFails(p)
    BY <1>1, <2>2 DEF OpenFails, Course, ThroughSecrets
  <2>3. CASE Goes(p, "clear", "retired") /\ Commits(ClearedDefaults)
    BY <1>0, <2>1, <2>3, BootGoes DEF Commits, Course, ThroughMarkers, Marked
  <2> QED BY <1>3, <2>2, <2>3 DEF ClearShipped, CommitOrFail
<1>4. CASE Retire(p)
  <2>1. "retired" \in RetiredRemoved.marks
    BY <1>0 DEF RetiredRemoved, Databases
  <2> QED
    BY <1>0, <1>1, <1>4, <2>1, CommittedOrFailed
    DEF Retire, Course, ThroughMarkers, ThroughSecrets, Marked
<1>5. CASE RestoreSecrets(p)
  <2>1. boot[p].at = "restore" /\ boot'[p].at = "open"
    BY <1>0, <1>5 DEF RestoreSecrets, NotOpen
  <2>2. boot[p].took = "keychain" => database'.secret = "inline"
    BY <1>0, <1>5 DEF RestoreSecrets, Commits, Databases
  <2> QED BY <2>1, <2>2 DEF Course, ThroughSecrets
<1>6. CASE UserSaves(p)
  BY <1>6 DEF UserSaves, Course, ThroughSecrets
<1> QED BY <1>2, <1>3, <1>4, <1>5, <1>6 DEF Writing

LEMMA StepsFollowCourse ==
    ASSUME SchemaTyped, NEW p \in Processes, SchemaStep(p) PROVE Course(p)
BY StepKinds, QuietCourse, CarelessCourse, WritingCourse

LEMMA GuardedKept ==
    ASSUME SchemaTyped, Guarded, NEW p \in Processes, SchemaStep(p) PROVE Guarded'
<1>1. Advances /\ OthersStand(p) /\ Course(p)
  BY SchemaAdvances, SchemaTypesKept, StepsFollowCourse
<1>2. ASSUME NEW q \in Processes, q # p PROVE GuardedAt(q)'
  BY <1>1, <1>2 DEF Guarded, GuardedAt, OthersStand, Advances
<1>3. GuardedAt(p)'
  <2>1. GuardedAt(p)
    BY DEF Guarded
  <2> USE <1>1, <2>1 DEF GuardedAt, Advances, From, Marked, PastConnect, PastDefaults, PastRetire
  <2>2. CASE ThroughColumns(p) \/ ThroughKinds(p)
    BY <2>2 DEF ThroughColumns, ThroughKinds
  <2>3. CASE ThroughMarkers(p)
    BY <2>3 DEF ThroughMarkers
  <2>4. CASE ThroughSecrets(p)
    BY <2>4 DEF ThroughSecrets
  <2> QED BY <2>2, <2>3, <2>4 DEF Course
<1>4. ("retired" \in database.marks => database.mapping # "retired")'
  BY <1>1 DEF Guarded, Advances
<1>5. (mine # {} => "goDefaults" \in database.marks)'
  <2>1. mine' = mine \/ boot[p].at = "open"
    <3>1. Quiet(p) => mine' = mine
      BY QuietStays
    <3> QED
      BY <3>1, StepKinds, CommittedOrFailed
      DEF Careless, Alter, Lift, Backfill, MarkLifecycle, Repair, NameClients, Writing, UserSaves,
          RestoreSecrets, Connect, ClearShipped, Retire, CommitOrFail, OpenFails
  <2> QED BY <1>1, <2>1 DEF Guarded, GuardedAt, Advances, PastDefaults
<1> QED BY <1>2, <1>3, <1>4, <1>5 DEF Guarded

LEMMA HeardBefore ==
    ASSUME SchemaTyped, NEW p \in Processes, SchemaStep(p), trouble'.swallowed = 0
    PROVE  trouble.swallowed = 0
<1>1. CASE Quiet(p)
  BY <1>1, QuietStays
<1>2. CASE Careless(p)
  BY <1>2, SwallowedOrNot DEF Careless, Alter, Lift, Backfill, MarkLifecycle, Repair, NameClients
<1>3. CASE Writing(p)
  BY <1>3 DEF Writing, UserSaves, RestoreSecrets, Connect, ClearShipped, Retire, CommitOrFail,
              OpenFails, SchemaTyped
<1> QED BY <1>1, <1>2, <1>3, StepKinds

LEMMA PassedKept ==
    ASSUME SchemaTyped, Passed, NEW p \in Processes, SchemaStep(p) PROVE Passed'
<1> SUFFICES ASSUME trouble'.swallowed = 0, NEW q \in Processes PROVE PassedAt(q)'
  BY DEF Passed
<1>1. Advances /\ OthersStand(p) /\ Course(p)
  BY SchemaAdvances, SchemaTypesKept, StepsFollowCourse
<1>2. PassedAt(q)
  BY HeardBefore DEF Passed
<1>3. CASE q # p
  BY <1>1, <1>2, <1>3 DEF PassedAt, OthersStand, Advances
<1>4. CASE q = p
  <2> USE <1>1, <1>2, <1>4 DEF PassedAt, Advances, From, Marked, Heard, PastLift, PastRepair,
                               BeforeRepair, Steps
  <2>2. CASE ThroughColumns(p)
    BY <2>2 DEF ThroughColumns
  <2>3. CASE ThroughKinds(p)
    BY <2>3 DEF ThroughKinds
  <2>4. CASE ThroughMarkers(p)
    BY <2>4 DEF ThroughMarkers
  <2>5. CASE ThroughSecrets(p)
    BY <2>5 DEF ThroughSecrets
  <2> QED BY <2>2, <2>3, <2>4, <2>5 DEF Course
<1> QED BY <1>3, <1>4

----------------------------------------------------------------------------
(* The repair of the outlets                                               *)

LEMMA DeathsAndOpens ==
    ASSUME NEW p \in Processes, SchemaStep(p)
    PROVE  Dies(p) \/ StartOpening(p) \/ RestoreSecrets(p) \/ UNCHANGED <<torn, behind>>
BY DEF SchemaStep, Alter, ReadScripts, Lift, ReadLifecycle, ReadMarker, Backfill, MarkLifecycle,
       Repair, NameClients, ReadConnection, SnapshotConnections, BeginTransaction, Connect,
       CommitOrFail, OpenFails, ConnectionUnreadable, ReadGoDefaults, SnapshotShipped, ClearShipped,
       ReadRetired, SnapshotRules, Retire, ReadSecrets, Exit, CrashWhileOpening, UserSaves

(* Only the backfill takes an outlet its kind.                             *)
LEMMA KindsStand ==
    ASSUME SchemaTyped, NEW p \in Processes, SchemaStep(p), ~Backfill(p),
           NEW s \in Outlets, NoGateway(s)'
    PROVE  NoGateway(s)
<1> DEFINE Stands == database'.kind = database.kind
<1>0. database \in Databases
  BY DEF SchemaTyped
<1>1. CASE Quiet(p)
  BY <1>1, QuietStays DEF NoGateway
<1>2. CASE Alter(p)
  <2>1. Stands BY <1>0, <1>2, SwallowedOrNot DEF Alter, Databases
  <2> QED BY <2>1 DEF NoGateway
<1>3. CASE Lift(p)
  <2>1. Stands BY <1>0, <1>3, SwallowedOrNot DEF Lift, Databases
  <2> QED BY <2>1 DEF NoGateway
<1>4. CASE MarkLifecycle(p)
  <2>1. Stands BY <1>0, <1>4, SwallowedOrNot DEF MarkLifecycle, Databases
  <2> QED BY <2>1 DEF NoGateway
<1>5. CASE NameClients(p)
  <2>1. Stands BY <1>0, <1>5, SwallowedOrNot DEF NameClients, Databases
  <2> QED BY <2>1 DEF NoGateway
<1>6. CASE Repair(p)
  <2>1. database'.kind = RepairedKinds \/ Stands
    BY <1>0, <1>6, SwallowedOrNot DEF Repair, Databases
  <2>2. RepairedKinds[s] \in {"absent", "gateway"}
    BY DEF RepairedKinds
  <2> QED BY <2>1, <2>2 DEF NoGateway
<1>7. CASE Connect(p)
  <2> DEFINE db == [database EXCEPT !.conf = Connected, !.marks = @ \cup {"connection"}]
  <2>1. db.kind = database.kind
    BY <1>0 DEF Databases
  <2>2. database' = db \/ database' = database
    BY <1>7, CommittedOrFailed DEF Connect, Steps
  <2> QED BY <2>1, <2>2 DEF NoGateway
<1>8. CASE ClearShipped(p)
  <2>1. ClearedDefaults.kind = database.kind
    BY <1>0 DEF ClearedDefaults, Databases
  <2>2. database' = ClearedDefaults \/ database' = database
    BY <1>8 DEF ClearShipped, CommitOrFail, Commits, OpenFails
  <2> QED BY <2>1, <2>2 DEF NoGateway
<1>9. CASE Retire(p)
  <2>1. RetiredRemoved.kind = database.kind
    BY <1>0 DEF RetiredRemoved, Databases
  <2>2. database' = RetiredRemoved \/ database' = database
    BY <1>9, CommittedOrFailed DEF Retire, Steps
  <2> QED BY <2>1, <2>2 DEF NoGateway
<1>10. CASE RestoreSecrets(p)
  <2>1. Stands BY <1>0, <1>10 DEF RestoreSecrets, Commits, WritesNothing, Databases
  <2> QED BY <2>1 DEF NoGateway
<1>11. CASE UserSaves(p)
  <2>1. CASE \E field \in EditedFields \ {"conf"} : database' = Saved(field)
    <3>1. Stands BY <1>0, <2>1 DEF Saved, Databases, EditedFields
    <3> QED BY <3>1 DEF NoGateway
  <2>2. CASE \E o \in Outlets : database' = SavedOutlet(o)
    <3>1. PICK o \in Outlets : database' = SavedOutlet(o)
      BY <2>2
    <3>2. database'.kind = [database.kind EXCEPT ![o] = "gateway"]
      BY <1>0, <3>1 DEF SavedOutlet, Databases
    <3> QED BY <1>0, <3>2 DEF NoGateway, Databases
  <2> QED BY <1>11, <2>1, <2>2 DEF UserSaves, Commits
<1> QED
  BY <1>1, <1>2, <1>3, <1>4, <1>5, <1>6, <1>7, <1>8, <1>9, <1>10, <1>11, StepKinds
  DEF Careless, Writing

LEMMA RepairRepairs ==
    ASSUME SchemaTyped, NEW p \in Processes, Repair(p), trouble'.swallowed = 0
    PROVE  ~Misnamed'
<1>1. database'.kind = RepairedKinds
  BY SwallowedOrNot DEF Repair, SchemaTyped, Databases
<1> QED BY <1>1 DEF RepairedKinds, Misnamed, NoGateway

LEMMA RepairOwedKept ==
    ASSUME SchemaTyped, RepairOwed, NEW p \in Processes, SchemaStep(p)
    PROVE  RepairOwed'
<1> SUFFICES ASSUME trouble'.swallowed = 0, Misnamed', ~Repairing', NEW q \in Processes
             PROVE  /\ boot'[q].at \in PastRepair => q \in behind'
                    /\ boot'[q].at \in PastRepair \cup {"open"} => torn'
  BY DEF RepairOwed
<1>1. trouble.swallowed = 0
  BY HeardBefore
<1>2. boot \in [Processes -> Boots] /\ OthersStand(p) /\ Course(p)
  BY SchemaTypesKept, StepsFollowCourse DEF SchemaTyped
<1>3. ~Backfill(p) /\ ~StartOpening(p)
  <2>1. (Backfill(p) \/ StartOpening(p)) => boot'[p].at \in BeforeRepair
    BY <1>2, BootGoes DEF Backfill, StartOpening, BeforeRepair, Steps
  <2> QED BY <2>1 DEF Repairing
<1>4. Misnamed
  BY <1>3, KindsStand DEF Misnamed
<1>5. CASE Dies(p)
  <2>1. boot'[p].at = "off" /\ torn' = TRUE /\ behind' = OnTheirWay \ {p}
    BY <1>5, BootDies
  <2>2. boot'[q].at \in PastRepair => q # p /\ q \in OnTheirWay
    BY <1>2, <2>1 DEF OthersStand, OnTheirWay, PastRepair, Steps
  <2> QED BY <2>1, <2>2
<1>6. CASE ~Dies(p)
  <2>1. ~Repairing
    <3>1. ASSUME NEW r \in Processes, boot[r].at \in BeforeRepair PROVE FALSE
      <4>1. r = p /\ boot'[p].at \notin BeforeRepair
        BY <1>2, <3>1 DEF Repairing, OthersStand
      <4>2. From(p, "repair", "clients") \/ boot'[p].at = "off"
        BY <1>2, <3>1, <4>1 DEF Course, ThroughColumns, ThroughKinds, ThroughMarkers, ThroughSecrets,
                                From, BeforeRepair
      <4>3. Repair(p)
        <5>1. boot[p].at # "open"
          BY <3>1, <4>1 DEF BeforeRepair
        <5>2. ~UserSaves(p) /\ ~Exit(p) /\ ~RestoreSecrets(p)
          BY <3>1, <4>1 DEF UserSaves, Exit, Goes, RestoreSecrets, BeforeRepair
        <5>3. boot'[p].at # "off"
          BY <1>2, <1>6, <3>1, <4>1, <5>2
          DEF SchemaStep, StartOpening, Alter, ReadScripts, Lift, ReadLifecycle, ReadMarker, Backfill,
              MarkLifecycle, Repair, NameClients, ReadConnection, SnapshotConnections,
              BeginTransaction, Connect, CommitOrFail, OpenFails, ConnectionUnreadable,
              ReadGoDefaults, SnapshotShipped, ClearShipped, ReadRetired, SnapshotRules, Retire,
              ReadSecrets, CrashWhileOpening, Goes, Boots
        <5> QED
          BY <1>2, <4>2, <5>2, <5>3, <1>6
          DEF From, SchemaStep, StartOpening, Alter, ReadScripts, Lift, ReadLifecycle, ReadMarker,
              Backfill, MarkLifecycle, NameClients, ReadConnection, SnapshotConnections,
              BeginTransaction, Connect, CommitOrFail, OpenFails, ConnectionUnreadable,
              ReadGoDefaults, SnapshotShipped, ClearShipped, ReadRetired, SnapshotRules, Retire,
              ReadSecrets, CrashWhileOpening, Goes
      <4> QED BY <4>3, RepairRepairs
    <3> QED BY <3>1 DEF Repairing
  <2>2. \A r \in Processes :
          /\ boot[r].at \in PastRepair => r \in behind
          /\ boot[r].at \in PastRepair \cup {"open"} => torn
    BY <1>1, <1>4, <2>1 DEF RepairOwed
  <2>3. boot'[q].at \in PastRepair => boot[q].at \in PastRepair
    <3>1. CASE q # p
      BY <1>2, <3>1 DEF OthersStand
    <3>2. CASE q = p
      BY <1>2, <2>1, <3>2
      DEF Repairing, Course, ThroughColumns, ThroughKinds, ThroughMarkers, ThroughSecrets, From,
          PastRepair, BeforeRepair, Steps
    <3> QED BY <3>1, <3>2
  <2>4. boot'[q].at = "open" => boot[q].at \in PastRepair \cup {"open"}
    <3>1. CASE q # p
      BY <1>2, <3>1 DEF OthersStand
    <3>2. CASE q = p
      BY <1>2, <2>1, <3>2
      DEF Repairing, Course, ThroughColumns, ThroughKinds, ThroughMarkers, ThroughSecrets, From,
          PastRepair, BeforeRepair, Steps
    <3> QED BY <3>1, <3>2
  <2>5. CASE RestoreSecrets(p)
    <3>1. boot[p].at \in PastRepair
      BY <2>5 DEF RestoreSecrets, PastRepair, BeforeRepair, Steps
    <3>2. behind' = behind /\ torn' = torn
      BY <2>2, <2>5, <3>1 DEF RestoreSecrets, SchemaTyped
    <3> QED BY <2>2, <2>3, <2>4, <3>2
  <2>6. CASE UNCHANGED <<torn, behind>>
    BY <2>2, <2>3, <2>4, <2>6
  <2> QED BY <1>3, <1>6, <2>5, <2>6, DeathsAndOpens
<1> QED BY <1>5, <1>6

----------------------------------------------------------------------------
(* What the user saved *)

LEMMA SavesKeptKept ==
    ASSUME SchemaTyped, Guarded, SavesKept, NEW p \in Processes, SchemaStep(p)
    PROVE  SavesKept'
<1>1. Advances
  BY SchemaAdvances
<1>2. CASE mine' = mine
  <2>1. mine # {} => "goDefaults" \in database.marks
    BY DEF Guarded
  <2> QED BY <1>1, <1>2, <2>1 DEF SavesKept, Advances
<1>3. CASE UserSaves(p)
  <2>1. boot[p].at = "open" => "goDefaults" \in database.marks
    BY DEF Guarded, GuardedAt, PastDefaults
  <2>2. "goDefaults" \in database.marks
    BY <1>3, <2>1 DEF UserSaves
  <2>3. CASE \E field \in EditedFields \ {"conf"} : database' = Saved(field) /\ mine' = mine \cup {field}
    <3>1. PICK field \in EditedFields \ {"conf"} : database' = Saved(field) /\ mine' = mine \cup {field}
      BY <2>3
    <3>2. /\ field = "defaults" => database'.defaults = "user"
          /\ field = "mapping" => database'.mapping = "user"
      BY <3>1 DEF Saved, SchemaTyped, Databases
    <3> QED BY <1>1, <2>2, <3>1, <3>2 DEF SavesKept, Advances
  <2>4. CASE \E s \in Outlets : database' = SavedOutlet(s) /\ mine' = mine \cup {"conf"}
    <3>1. PICK s \in Outlets : database' = SavedOutlet(s) /\ mine' = mine \cup {"conf"}
      BY <2>4
    <3>2. database'.conf[s] = "user"
      BY <3>1 DEF SavedOutlet, SchemaTyped, Databases
    <3> QED BY <1>1, <2>2, <3>1, <3>2 DEF SavesKept, Advances
  <2> QED BY <1>3, <2>3, <2>4 DEF UserSaves, Commits
<1>4. mine' = mine \/ UserSaves(p)
  <2>1. Quiet(p) => mine' = mine
    BY QuietStays
  <2> QED
    BY <2>1, StepKinds
    DEF Careless, Alter, Lift, Backfill, MarkLifecycle, Repair, NameClients, Writing,
        RestoreSecrets, Connect, ClearShipped, Retire, CommitOrFail, OpenFails
<1> QED BY <1>2, <1>3, <1>4

----------------------------------------------------------------------------
(* Theorems *)

LEMMA SchemaStuttering ==
    ASSUME SchemaInv, UNCHANGED schemaVars PROVE SchemaInv'
BY DEF SchemaInv, SchemaTyped, Guarded, GuardedAt, Passed, PassedAt, RepairOwed, Misnamed, NoGateway,
       Repairing, SavesKept, schemaVars

(* Markers, positions, repairs and saves stay consistent.                  *)
THEOREM SchemaInductive == SchemaSpec => []SchemaInv
<1>1. ASSUME SchemaInv, [SchemaNext]_schemaVars PROVE SchemaInv'
  <2>1. CASE SchemaNext
    <3>1. PICK p \in Processes : SchemaStep(p)
      BY <2>1 DEF SchemaNext
    <3> QED
      BY <1>1, <3>1, SchemaTypesKept, GuardedKept, PassedKept, RepairOwedKept, SavesKeptKept
      DEF SchemaInv
  <2> QED BY <1>1, <2>1, SchemaStuttering
<1> QED BY SchemaInitial, <1>1, PTL DEF SchemaSpec

LEMMA InvMakesWhole == SchemaInv => SchemaWhole
<1> SUFFICES ASSUME SchemaInv, Settled PROVE Converted
  BY DEF SchemaWhole, SchemaInv
<1>1. PICK p \in Processes : boot[p].at = "open"
  BY DEF Settled
<1>2. GuardedAt(p) /\ PassedAt(p)
  BY DEF SchemaInv, Guarded, Passed, Settled
<1>3. database.marks = Markers
  BY <1>1, <1>2
  DEF GuardedAt, PassedAt, PastConnect, PastDefaults, PastRetire, SchemaInv, SchemaTyped, Databases,
      Markers
<1>4. ~Misnamed
  <2>1. ~Repairing
    BY DEF Settled, Repairing, OnTheirWay, BeforeRepair, Steps
  <2> QED BY <1>1, <2>1 DEF Settled, SchemaInv, RepairOwed
<1> QED
  BY <1>1, <1>2, <1>3, <1>4
  DEF Converted, GuardedAt, PassedAt, Misnamed, NoGateway, SchemaInv, Guarded, Markers

(* Whenever the database has settled no value of an older version is left, *)
(* and at no time does a late migration take back what the user saved      *)
(* (run_migrations with its markers, repair_legacy_gateway_sessions).      *)
THEOREM SchemaEndsWhole == SchemaSpec => []SchemaWhole
BY SchemaInductive, InvMakesWhole, PTL

(* Every variable of the migrations keeps its type.                        *)
THEOREM SchemaTypeCorrect == SchemaSpec => []SchemaTypeOK
<1>1. SchemaInv => SchemaTypeOK
  BY DEF SchemaInv, SchemaTyped, SchemaTypeOK, Databases, Boots
<1> QED BY <1>1, SchemaInductive, PTL

----------------------------------------------------------------------------
(* Header maps: what arrives, and what the operations leave under a name.  *)

(* What is known of a request: all but a credential is the client's.       *)
Arrived(kind, r) ==
    /\ \A n \in DOMAIN r.headers \ Credentials : r.headers[n] = "client"
    /\ kind = "pass" => \A n \in DOMAIN r.headers : r.headers[n] = "client"
    /\ r.path \in Paths /\ r.websocket \in BOOLEAN

LEMMA ArrivingArrives ==
    ASSUME NEW kind \in {"outlet", "session", "pass"}, NEW e \in Envelopes, NEW named,
           NEW h \in HeadersOf(kind, e.websocket)
    PROVE  /\ Arrived(kind, Over([headers |-> h, named |-> named], e))
           /\ Over([headers |-> h, named |-> named], e) # Nil
<1> DEFINE r == Over([headers |-> h, named |-> named], e)
<1>1. e.path \in Paths /\ e.websocket \in BOOLEAN /\ {"path", "websocket"} \subseteq DOMAIN e
  BY DEF Envelopes
<1>2. /\ r.headers = h /\ r.path = e.path /\ r.websocket = e.websocket
      /\ "headers" \in DOMAIN r
  BY <1>1 DEF Over
<1> HIDE DEF r
<1>3. PICK credential \in Presented(kind), others \in {<<>>, [n \in Ordinary |-> "client"]} :
        h = Over(credential, Over(others, Upgrade(e.websocket)))
  BY DEF HeadersOf
<1>4. /\ DOMAIN credential \subseteq Credentials
      /\ kind = "pass" => \A n \in DOMAIN credential : credential[n] = "client"
  BY DEF Presented, Credentials
<1>5. \A n \in DOMAIN others : others[n] = "client"
  OBVIOUS
<1>6. \A n \in DOMAIN Upgrade(e.websocket) : Upgrade(e.websocket)[n] = "client"
  BY DEF Upgrade
<1>7. \A n \in DOMAIN h : h[n] = IF n \in DOMAIN credential THEN credential[n] ELSE "client"
  BY <1>3, <1>5, <1>6 DEF Over
<1>8. \A n \in DOMAIN h \ Credentials : h[n] = "client"
  BY <1>4, <1>7
<1>9. kind = "pass" => \A n \in DOMAIN h : h[n] = "client"
  BY <1>4, <1>7
<1>10. r # Nil
  BY <1>2 DEF Nil
<1>11. Arrived(kind, r)
  BY <1>1, <1>2, <1>8, <1>9 DEF Arrived
<1> QED BY <1>10, <1>11 DEF r

USE DEF Credentials, HopByHop

LEMMA RuledMap ==
    ASSUME NEW h, NEW rules
    PROVE  /\ DOMAIN AddRules(h, rules) = DOMAIN h \cup rules
           /\ \A n \in DOMAIN h : AddRules(h, rules)[n] = h[n]
           /\ \A n \in rules \ DOMAIN h : AddRules(h, rules)[n] = "provider"
BY DEF AddRules, Over

LEMMA AgentMap ==
    ASSUME NEW h, NEW t, t.agent \in BOOLEAN
    PROVE  /\ t.agent => DOMAIN ChosenAgent(h, t) = DOMAIN h \cup {"user-agent"}
           /\ \A n \in DOMAIN h \ {"user-agent"} : ChosenAgent(h, t)[n] = h[n]
           /\ t.agent => ChosenAgent(h, t)["user-agent"] = "chosen"
           /\ ~t.agent => ChosenAgent(h, t) = h
<1>1. CASE t.agent
  <2> DEFINE g == Put(h, "user-agent", "chosen")
  <2>1. ChosenAgent(h, t) = g
    BY <1>1 DEF ChosenAgent
  <2>2. /\ DOMAIN g = DOMAIN h \cup {"user-agent"} /\ g["user-agent"] = "chosen"
        /\ \A n \in DOMAIN h \ {"user-agent"} : g[n] = h[n]
    BY DEF Put, Over
  <2> HIDE DEF g
  <2> QED BY <1>1, <2>1, <2>2
<1>2. CASE ~t.agent
  <2>1. ChosenAgent(h, t) = h
    BY <1>2 DEF ChosenAgent
  <2> QED BY <1>2, <2>1
<1> QED BY <1>1, <1>2

(* What a target can be, by kind.                                          *)
LEMMA TargetKinds ==
    ASSUME NEW t \in Targets
    PROVE  /\ t.kind \in {"outlet", "session", "pass"} /\ t.agent \in BOOLEAN
           /\ t.client \in {"any", "openai", "claude"}
           /\ t.scheme \in {"bearer", "x-api-key", "none", "protocol"}
           /\ t.kind # "session" => t.scheme # "protocol"
           /\ t.kind = "pass" => ~t.agent
           /\ t.policy = "selected" => t.kind = "outlet"
BY DEF Targets, Settings

LEMMA SchemesOf ==
    ASSUME NEW t \in Targets
    PROVE  /\ SchemeOf(t) \in {"bearer", "x-api-key", "none"}
           /\ t.kind # "session" => SchemeOf(t) = t.scheme
BY TargetKinds DEF SchemeOf

(* The credentials of a signed map are the key in its header.              *)
LEMMA AuthMap ==
    ASSUME NEW t \in Targets, NEW h
    PROVE  /\ KeyHeader(t) \subseteq Credentials
           /\ DOMAIN ApplyAuth(h, SchemeOf(t)) = (DOMAIN h \ Credentials) \cup KeyHeader(t)
           /\ \A n \in DOMAIN h \ Credentials : ApplyAuth(h, SchemeOf(t))[n] = h[n]
           /\ \A n \in KeyHeader(t) : ApplyAuth(h, SchemeOf(t))[n] = "key"
<1> DEFINE g == ApplyAuth(h, SchemeOf(t))
<1>1. CASE SchemeOf(t) = "bearer"
  <2>1. KeyHeader(t) = {"authorization"}
    BY <1>1 DEF KeyHeader
  <2> DEFINE s == Strike(h, {"x-api-key"})
  <2>2. g = Put(s, "authorization", "key")
    BY <1>1 DEF ApplyAuth
  <2>3. DOMAIN s = DOMAIN h \ {"x-api-key"} /\ \A n \in DOMAIN s : s[n] = h[n]
    BY DEF Strike
  <2>4. /\ DOMAIN g = DOMAIN s \cup {"authorization"} /\ g["authorization"] = "key"
        /\ \A n \in DOMAIN s \ {"authorization"} : g[n] = s[n]
    BY <2>2 DEF Put, Over
  <2> HIDE DEF g, s
  <2>5. /\ DOMAIN g = (DOMAIN h \ Credentials) \cup KeyHeader(t)
        /\ \A n \in DOMAIN h \ Credentials : g[n] = h[n]
    BY <2>1, <2>3, <2>4
  <2> QED BY <2>1, <2>4, <2>5 DEF g
<1>2. CASE SchemeOf(t) = "x-api-key"
  <2>1. KeyHeader(t) = {"x-api-key"}
    BY <1>2 DEF KeyHeader
  <2> DEFINE s == Strike(h, {"authorization"})
  <2>2. g = Put(s, "x-api-key", "key")
    BY <1>2 DEF ApplyAuth
  <2>3. DOMAIN s = DOMAIN h \ {"authorization"} /\ \A n \in DOMAIN s : s[n] = h[n]
    BY DEF Strike
  <2>4. /\ DOMAIN g = DOMAIN s \cup {"x-api-key"} /\ g["x-api-key"] = "key"
        /\ \A n \in DOMAIN s \ {"x-api-key"} : g[n] = s[n]
    BY <2>2 DEF Put, Over
  <2> HIDE DEF g, s
  <2>5. /\ DOMAIN g = (DOMAIN h \ Credentials) \cup KeyHeader(t)
        /\ \A n \in DOMAIN h \ Credentials : g[n] = h[n]
    BY <2>1, <2>3, <2>4
  <2> QED BY <2>1, <2>4, <2>5 DEF g
<1>3. CASE SchemeOf(t) = "none"
  <2>1. KeyHeader(t) = {}
    BY <1>3 DEF KeyHeader
  <2>2. g = Strike(h, Credentials)
    BY <1>3 DEF ApplyAuth
  <2>3. DOMAIN g = DOMAIN h \ Credentials /\ \A n \in DOMAIN g : g[n] = h[n]
    BY <2>2 DEF Strike
  <2> HIDE DEF g
  <2> QED BY <2>1, <2>3 DEF g
<1> QED BY <1>1, <1>2, <1>3, SchemesOf

----------------------------------------------------------------------------
(* The three kinds of route.  A map fits when each header of it does, and  *)
(* none is missing.                                                        *)
Allowed(t, r, n, value) ==
    /\ value # "local"
    /\ t.kind # "pass" /\ n \in Credentials =>
          \/ n \in KeyHeader(t) /\ value = "key"
          \/ n \in Unreserved(t, r) /\ value = "provider"
    /\ n \in HopByHop => n \in Unreserved(t, r) /\ value = "provider"
    /\ n \in r.named => value # "client"

Complete(t, r, g) ==
    /\ t.kind # "pass" =>
          \A n \in KeyHeader(t) :
             (n \in DOMAIN g /\ g[n] = "key") \/ (t.kind = "session" /\ n \in r.named)
    /\ t.agent => "user-agent" \in DOMAIN g /\ g["user-agent"] = "chosen"
    /\ \A n \in DOMAIN r.headers \ (Protected \cup r.named) :
          n \in DOMAIN g /\ (g[n] = "client" \/ (n = "user-agent" /\ t.agent))

LEMMA KeptByEach ==
    ASSUME NEW t, NEW r, NEW g,
           \A n \in DOMAIN g : Allowed(t, r, n, g[n]), Complete(t, r, g)
    PROVE  HeadersKept(t, r, g)
<1>1. "local" \notin Values(g)
  BY DEF Values, Allowed
<1>2. \A n \in DOMAIN g \cap HopByHop : n \in Unreserved(t, r) /\ g[n] = "provider"
  BY DEF Allowed
<1>3. \A n \in DOMAIN g \cap r.named : g[n] # "client"
  BY DEF Allowed
<1>4. t.kind # "pass" => \A n \in DOMAIN g \cap Credentials :
                            \/ n \in KeyHeader(t) /\ g[n] = "key"
                            \/ n \in Unreserved(t, r) /\ g[n] = "provider"
  BY DEF Allowed
<1> QED BY <1>1, <1>2, <1>3, <1>4 DEF HeadersKept, Complete

LEMMA OutletHeadersKept ==
    ASSUME NEW t \in Targets, t.kind = "outlet", NEW r, Arrived(t.kind, r)
    PROVE  HeadersKept(t, r, OutletHeaders(t, r.headers, r.named))
<1> DEFINE h == r.headers
           s == StripHopByHop(h, r.named)
           f == Strike(s, Protected)
           ruled == AddRules(f, t.rules \ Protected)
           signed == ApplyAuth(ruled, SchemeOf(t))
           g == ChosenAgent(signed, t)
<1>1. OutletHeaders(t, h, r.named) = g /\ t.agent \in BOOLEAN
  BY SchemesOf, TargetKinds DEF OutletHeaders
<1>2. \A n \in DOMAIN h \ Credentials : h[n] = "client"
  BY DEF Arrived
<1>3. DOMAIN f = DOMAIN h \ (Protected \cup r.named) /\ \A n \in DOMAIN f : f[n] = "client"
  <2>1. DOMAIN s = DOMAIN h \ (HopByHop \cup r.named) /\ \A n \in DOMAIN s : s[n] = h[n]
    BY DEF StripHopByHop, Strike
  <2> HIDE DEF s
  <2>2. DOMAIN f = DOMAIN s \ Protected /\ \A n \in DOMAIN f : f[n] = s[n]
    BY DEF Strike
  <2> HIDE DEF f
  <2> QED BY <1>2, <2>1, <2>2 DEF Protected
<1> HIDE DEF f
<1>4. /\ DOMAIN ruled = DOMAIN f \cup (t.rules \ Protected)
      /\ \A n \in DOMAIN f : ruled[n] = "client"
      /\ \A n \in DOMAIN ruled \ DOMAIN f : ruled[n] = "provider"
  <2> DEFINE rules == t.rules \ Protected
  <2> HIDE DEF rules
  <2>1. /\ DOMAIN AddRules(f, rules) = DOMAIN f \cup rules
        /\ \A n \in DOMAIN f : AddRules(f, rules)[n] = f[n]
        /\ \A n \in rules \ DOMAIN f : AddRules(f, rules)[n] = "provider"
    BY RuledMap
  <2> QED BY <1>3, <2>1 DEF rules
<1> HIDE DEF ruled
<1>5. /\ KeyHeader(t) \subseteq Credentials
      /\ DOMAIN signed = (DOMAIN ruled \ Credentials) \cup KeyHeader(t)
      /\ \A n \in DOMAIN ruled \ Credentials : signed[n] = ruled[n]
      /\ \A n \in KeyHeader(t) : signed[n] = "key"
  BY AuthMap
<1> HIDE DEF signed
<1>6. /\ t.agent => DOMAIN g = DOMAIN signed \cup {"user-agent"}
      /\ \A n \in DOMAIN signed \ {"user-agent"} : g[n] = signed[n]
      /\ t.agent => g["user-agent"] = "chosen"
      /\ ~t.agent => g = signed
  <2>1. t.agent \in BOOLEAN
    BY <1>1
  <2> QED BY <2>1, AgentMap
<1> HIDE DEF g
<1>7. ASSUME NEW n \in DOMAIN signed PROVE Allowed(t, r, n, signed[n])
  <2>1. CASE n \in KeyHeader(t)
    BY <1>5, <2>1 DEF Allowed
  <2>2. CASE n \in DOMAIN f
    BY <1>3, <1>4, <1>5, <2>2 DEF Allowed, Protected
  <2>3. CASE n \in t.rules \ Protected /\ n \notin DOMAIN f
    BY <1>3, <1>4, <1>5, <2>3 DEF Allowed, Protected
  <2> QED BY <1>4, <1>5, <2>1, <2>2, <2>3
<1>8. \A n \in DOMAIN g : Allowed(t, r, n, g[n])
  <2>1. Allowed(t, r, "user-agent", "chosen")
    BY DEF Allowed
  <2> QED BY <1>1, <1>6, <1>7, <2>1
<1>9. Complete(t, r, g)
  <2>1. \A n \in KeyHeader(t) : n \in DOMAIN g /\ g[n] = "key"
    BY <1>5, <1>6
  <2>2. ASSUME NEW n \in DOMAIN h \ (Protected \cup r.named)
        PROVE  n \in DOMAIN g /\ (g[n] = "client" \/ (n = "user-agent" /\ t.agent))
    <3>1. n \in DOMAIN signed /\ signed[n] = "client"
      BY <1>3, <1>4, <1>5, <2>2 DEF Protected
    <3> QED BY <1>1, <1>6, <3>1
  <2> QED BY <1>6, <2>1, <2>2 DEF Complete
<1> QED BY <1>1, <1>8, <1>9, KeptByEach

LEMMA QueryHeadersKept ==
    ASSUME NEW t \in Targets, t.kind = "outlet", NEW r, Arrived(t.kind, r)
    PROVE  HeadersKept(t, r, QueryHeaders(t, r.headers, r.named))
<1> DEFINE g == OutletHeaders(t, r.headers, r.named)
           q == QueryHeaders(t, r.headers, r.named)
<1>1. /\ DOMAIN q = DOMAIN g \cup {"user-agent"} /\ \A n \in DOMAIN g : q[n] = g[n]
      /\ "user-agent" \notin DOMAIN g => q["user-agent"] = "app"
  BY DEF QueryHeaders, Over
<1>2. HeadersKept(t, r, g)
  BY OutletHeadersKept
<1> HIDE DEF g, q
<1>3. \A n \in DOMAIN q : Allowed(t, r, n, q[n])
  <2>1. ASSUME NEW n \in DOMAIN g PROVE Allowed(t, r, n, g[n])
    BY <1>2, <2>1 DEF HeadersKept, Allowed, Values
  <2>2. "user-agent" \notin Credentials /\ "user-agent" \notin HopByHop
    OBVIOUS
  <2>3. Allowed(t, r, "user-agent", "app")
    BY <2>2 DEF Allowed
  <2>4. ASSUME NEW n \in DOMAIN q PROVE Allowed(t, r, n, q[n])
    <3>1. CASE n \in DOMAIN g
      BY <1>1, <2>1, <3>1
    <3>2. CASE n = "user-agent" /\ n \notin DOMAIN g
      BY <1>1, <2>3, <3>2
    <3> QED BY <1>1, <3>1, <3>2
  <2> QED BY <2>4
<1>4. Complete(t, r, q)
  <2>1. Complete(t, r, g)
    BY <1>2 DEF HeadersKept, Complete
  <2> QED BY <1>1, <2>1 DEF Complete
<1> QED BY <1>3, <1>4, KeptByEach DEF q

LEMMA SessionHeadersKept ==
    ASSUME NEW t \in Targets, t.kind = "session", NEW r, Arrived(t.kind, r)
    PROVE  HeadersKept(t, r, SessionHeaders(t, r.headers, r.named, r.websocket))
<1> DEFINE h == r.headers
           signed == ApplyAuth(h, SchemeOf(t))
           stripped == StripHopByHop(signed, r.named)
           bare == Strike(stripped, {"accept-encoding"})
           plain == AddRules(bare, t.rules)
           f == IF r.websocket THEN stripped ELSE plain
           g == ChosenAgent(f, t)
<1>1. /\ SessionHeaders(t, h, r.named, r.websocket) = g
      /\ t.agent \in BOOLEAN /\ r.websocket \in BOOLEAN
  BY TargetKinds DEF SessionHeaders, Arrived
<1>2. \A n \in DOMAIN h \ Credentials : h[n] = "client"
  BY DEF Arrived
<1>3. /\ KeyHeader(t) \subseteq Credentials
      /\ DOMAIN signed = (DOMAIN h \ Credentials) \cup KeyHeader(t)
      /\ \A n \in DOMAIN h \ Credentials : signed[n] = "client"
      /\ \A n \in KeyHeader(t) : signed[n] = "key"
  <2>1. /\ KeyHeader(t) \subseteq Credentials
        /\ DOMAIN signed = (DOMAIN h \ Credentials) \cup KeyHeader(t)
        /\ \A n \in DOMAIN h \ Credentials : signed[n] = h[n]
        /\ \A n \in KeyHeader(t) : signed[n] = "key"
    BY AuthMap
  <2> HIDE DEF signed
  <2> QED BY <1>2, <2>1
<1> HIDE DEF signed
<1>4. /\ DOMAIN stripped = DOMAIN signed \ (HopByHop \cup r.named)
      /\ \A n \in DOMAIN stripped : stripped[n] = signed[n]
  BY DEF StripHopByHop, Strike
<1> HIDE DEF stripped
<1>5. /\ DOMAIN bare = DOMAIN stripped \ {"accept-encoding"}
      /\ \A n \in DOMAIN bare : bare[n] = stripped[n]
  BY DEF Strike
<1> HIDE DEF bare
<1>6. /\ DOMAIN plain = DOMAIN bare \cup t.rules
      /\ \A n \in DOMAIN bare : plain[n] = stripped[n]
      /\ \A n \in DOMAIN plain \ DOMAIN bare : plain[n] = "provider"
  <2>1. /\ DOMAIN plain = DOMAIN bare \cup t.rules
        /\ \A n \in DOMAIN bare : plain[n] = bare[n]
        /\ \A n \in t.rules \ DOMAIN bare : plain[n] = "provider"
    BY DEF AddRules, Over
  <2> HIDE DEF plain
  <2> QED BY <1>5, <2>1
<1> HIDE DEF plain
<1>7. \A n \in DOMAIN stripped : Allowed(t, r, n, stripped[n])
  BY <1>3, <1>4 DEF Allowed
<1>8. ASSUME NEW n \in DOMAIN f PROVE Allowed(t, r, n, f[n])
  <2>1. CASE n \in DOMAIN stripped /\ f[n] = stripped[n]
    BY <1>7, <2>1
  <2>2. CASE n \in t.rules /\ f[n] = "provider" /\ ~r.websocket
    <3>1. n \in Unreserved(t, r)
      BY <2>2 DEF Unreserved
    <3> QED BY <2>2, <3>1 DEF Allowed
  <2> QED BY <1>1, <1>5, <1>6, <1>8, <2>1, <2>2
<1>9. /\ DOMAIN stripped \ {"accept-encoding"} \subseteq DOMAIN f
      /\ \A n \in DOMAIN stripped \ {"accept-encoding"} : f[n] = stripped[n]
  BY <1>1, <1>5, <1>6
<1> HIDE DEF f
<1>10. /\ t.agent => DOMAIN g = DOMAIN f \cup {"user-agent"}
       /\ \A n \in DOMAIN f \ {"user-agent"} : g[n] = f[n]
       /\ t.agent => g["user-agent"] = "chosen"
       /\ ~t.agent => g = f
  <2>1. CASE t.agent
    <3> DEFINE put == Put(f, "user-agent", "chosen")
    <3>1. g = put
      BY <2>1 DEF ChosenAgent
    <3>2. /\ DOMAIN put = DOMAIN f \cup {"user-agent"} /\ put["user-agent"] = "chosen"
          /\ \A n \in DOMAIN f \ {"user-agent"} : put[n] = f[n]
      BY DEF Put, Over
    <3> HIDE DEF put, g
    <3> QED BY <2>1, <3>1, <3>2
  <2>2. CASE ~t.agent
    <3>1. g = f
      BY <2>2 DEF ChosenAgent
    <3> HIDE DEF g
    <3> QED BY <2>2, <3>1
  <2> QED BY <2>1, <2>2
<1> HIDE DEF g
<1>11. \A n \in DOMAIN g : Allowed(t, r, n, g[n])
  <2>1. Allowed(t, r, "user-agent", "chosen")
    BY DEF Allowed
  <2> QED BY <1>1, <1>8, <1>10, <2>1
<1>12. Complete(t, r, g)
  <2>1. ASSUME NEW n \in KeyHeader(t), n \notin r.named PROVE n \in DOMAIN g /\ g[n] = "key"
    <3>1. n \in DOMAIN stripped \ {"accept-encoding"} /\ stripped[n] = "key" /\ n # "user-agent"
      BY <1>3, <1>4, <2>1
    <3> QED BY <1>9, <1>10, <3>1
  <2>2. ASSUME NEW n \in DOMAIN h \ (Protected \cup r.named)
        PROVE  n \in DOMAIN g /\ (g[n] = "client" \/ (n = "user-agent" /\ t.agent))
    <3>1. n \in DOMAIN stripped \ {"accept-encoding"} /\ stripped[n] = "client"
      BY <1>3, <1>4, <2>2 DEF Protected
    <3> QED BY <1>1, <1>9, <1>10, <3>1
  <2> QED BY <1>10, <2>1, <2>2 DEF Complete
<1> QED BY <1>1, <1>11, <1>12, KeptByEach

LEMMA PassHeadersKept ==
    ASSUME NEW t \in Targets, t.kind = "pass", NEW r, Arrived(t.kind, r)
    PROVE  HeadersKept(t, r, PassHeaders(r.headers, r.named, r.websocket))
<1> DEFINE h == r.headers
           s == StripHopByHop(h, r.named)
           gone == IF r.websocket THEN {} ELSE {"accept-encoding"}
           g == Strike(s, gone)
<1>1. PassHeaders(h, r.named, r.websocket) = g /\ ~t.agent
  BY TargetKinds DEF PassHeaders
<1>2. \A n \in DOMAIN h : h[n] = "client"
  BY DEF Arrived
<1>3. /\ DOMAIN g = DOMAIN h \ (HopByHop \cup r.named \cup gone)
      /\ \A n \in DOMAIN g : g[n] = "client"
  <2>1. DOMAIN s = DOMAIN h \ (HopByHop \cup r.named) /\ \A n \in DOMAIN s : s[n] = h[n]
    BY DEF StripHopByHop, Strike
  <2> HIDE DEF s
  <2>2. DOMAIN g = DOMAIN s \ gone /\ \A n \in DOMAIN g : g[n] = s[n]
    BY DEF Strike
  <2> HIDE DEF g
  <2> QED BY <1>2, <2>1, <2>2
<1> HIDE DEF g
<1>4. \A n \in DOMAIN g : Allowed(t, r, n, g[n])
  BY <1>3 DEF Allowed
<1>5. Complete(t, r, g)
  BY <1>1, <1>3 DEF Complete, Protected
<1> QED BY <1>1, <1>4, <1>5, KeptByEach

----------------------------------------------------------------------------
(* The invariant: what went out fits its target and its request.           *)

PolicyKept(t, r, o) ==
    o.kind = "sent" /\ t.policy = "selected" =>
        /\ o.path = "standard" /\ o.versions = 1 /\ ~r.websocket
        /\ Len(o.models) = 1 /\ o.models[1] \in Exposed

RewriteInv ==
    /\ target \in Targets
    /\ inbound # Nil => Arrived(target.kind, inbound)
    /\ Outbound =>
          inbound # Nil /\ HeadersKept(target, inbound, outcome.headers)
              /\ PolicyKept(target, inbound, outcome)

LEMMA RewriteInitial == RewriteInit => RewriteInv
BY DEF RewriteInit, RewriteInv, Outbound, Nil

LEMMA QueryFits ==
    ASSUME RewriteInv, QueryCatalog
    PROVE  HeadersKept(target, inbound, outcome'.headers) /\ PolicyKept(target, inbound, outcome')
<1>1. /\ target \in Targets /\ target.kind = "outlet" /\ Arrived(target.kind, inbound)
      /\ outcome' = [kind |-> "queried",
                     headers |-> QueryHeaders(target, inbound.headers, inbound.named)]
  BY DEF QueryCatalog, Waiting, RewriteInv
<1>2. outcome'.kind = "queried"
      /\ outcome'.headers = QueryHeaders(target, inbound.headers, inbound.named)
  BY <1>1
<1> QED BY <1>1, <1>2, QueryHeadersKept DEF PolicyKept

LEMMA ForwardFits ==
    ASSUME RewriteInv, Forward
    PROVE  HeadersKept(target, inbound, outcome'.headers) /\ PolicyKept(target, inbound, outcome')
<1>1. /\ target \in Targets /\ target.kind \in {"outlet", "session", "pass"}
      /\ Arrived(target.kind, inbound)
  BY TargetKinds DEF Forward, Waiting, RewriteInv
<1>2. /\ outcome'.kind = "sent" /\ outcome'.headers = Headers(target, inbound)
      /\ outcome'.path = CanonicalPath(target, inbound.path)
      /\ outcome'.versions = Versions(target, inbound) /\ outcome'.models = inbound.models
  BY DEF Forward
<1>3. HeadersKept(target, inbound, Headers(target, inbound))
  <2>1. CASE target.kind = "outlet"
    BY <1>1, <2>1, OutletHeadersKept DEF Headers
  <2>2. CASE target.kind = "session"
    BY <1>1, <2>2, SessionHeadersKept DEF Headers
  <2>3. CASE target.kind = "pass"
    BY <1>1, <2>3, PassHeadersKept DEF Headers
  <2> QED BY <1>1, <2>1, <2>2, <2>3
<1>4. ASSUME target.policy = "selected"
      PROVE  /\ CanonicalPath(target, inbound.path) = "standard"
             /\ Versions(target, inbound) = 1 /\ ~inbound.websocket
             /\ Len(inbound.models) = 1 /\ inbound.models[1] \in Exposed
  <2>1. target.kind = "outlet"
    BY <1>1, <1>4, TargetKinds
  <2>2. /\ EnvelopeAllowed(inbound) /\ BodyAllowed(inbound.models) /\ ~Discovery(inbound)
    BY <1>4, <2>1 DEF Forward, Selected
  <2>3. ~inbound.websocket /\ inbound.path \in {"standard", "aliased"}
    BY <2>2 DEF EnvelopeAllowed
  <2>4. CanonicalPath(target, inbound.path) = "standard"
    BY <1>4, <2>3 DEF CanonicalPath
  <2>5. Versions(target, inbound) = 1
    BY <2>1, <2>4 DEF Versions, OutletVersions, Count
  <2> QED
    BY <2>2, <2>3, <2>4, <2>5 DEF BodyAllowed
<1> QED
  BY <1>2, <1>3, <1>4 DEF PolicyKept

LEMMA RewriteStep == RewriteInv /\ [RewriteNext]_rewriteVars => RewriteInv'
<1> SUFFICES ASSUME RewriteInv, [RewriteNext]_rewriteVars PROVE RewriteInv'
  OBVIOUS
<1>1. CASE Arrive
  <2>1. outcome' = outcome /\ target' = target /\ inbound = Nil
    BY <1>1 DEF Arrive
  <2>2. ~Outbound
    BY <2>1 DEF RewriteInv
  <2>3. PICK e \in Envelopes, named \in ConnectionLists :
          \E h \in HeadersOf(target.kind, e.websocket) :
              inbound' = Over([headers |-> h, named |-> named], e)
    BY <1>1 DEF Arrive
  <2>4. PICK h \in HeadersOf(target.kind, e.websocket) :
          inbound' = Over([headers |-> h, named |-> named], e)
    BY <2>3
  <2>5. target.kind \in {"outlet", "session", "pass"}
    BY TargetKinds DEF RewriteInv
  <2>6. Arrived(target.kind, inbound')
    BY <2>4, <2>5, ArrivingArrives
  <2> QED
    BY <2>1, <2>2, <2>6 DEF RewriteInv, Outbound, Arrived
<1>2. CASE Refuse
  BY <1>2 DEF Refuse, RewriteInv, Outbound, Arrived
<1>3. CASE AnswerList
  BY <1>3 DEF AnswerList, RewriteInv, Outbound, Arrived
<1>4. CASE QueryCatalog
  <2>1. UNCHANGED <<target, inbound>> /\ inbound # Nil
    BY <1>4 DEF QueryCatalog, Waiting
  <2> QED BY <1>4, <2>1, QueryFits DEF RewriteInv
<1>5. CASE AnswerCatalog
  BY <1>5 DEF AnswerCatalog, RewriteInv, Outbound, Arrived
<1>6. CASE Forward
  <2>1. UNCHANGED <<target, inbound>> /\ inbound # Nil
    BY <1>6 DEF Forward, Waiting
  <2> QED BY <1>6, <2>1, ForwardFits DEF RewriteInv
<1>7. CASE UNCHANGED rewriteVars
  BY <1>7 DEF rewriteVars, RewriteInv, Outbound
<1> QED
  BY <1>1, <1>2, <1>3, <1>4, <1>5, <1>6, <1>7 DEF RewriteNext

----------------------------------------------------------------------------
(* Results *)

(* What goes out fits its target and its request, in every reachable state,*)
(* for every list a client's Connection may hold and every set of headers  *)
(* a provider's rules may name (handler.rs, gateway_connection.rs).        *)
THEOREM RewriteInductive == RewriteSpec => []RewriteInv
BY RewriteInitial, RewriteStep, PTL DEF RewriteSpec

(* What leaves for the upstream keeps the local token here and carries the *)
(* bound key in the one header its scheme names, unless it is a session's  *)
(* and the client's Connection lists that header; beside it a session's    *)
(* plain request may have what the provider's rules name, and no route has *)
(* anything the client said of its own connection.  What an outlet sends   *)
(* fits its model policy (handler.rs, connection and policy modules).      *)
THEOREM PolicyIsSent == RewriteSpec => []SentAsThePolicySays
<1>1. RewriteInv => SentAsThePolicySays
  BY DEF RewriteInv, SentAsThePolicySays, PolicyKept
<1> QED
  BY <1>1, RewriteInductive, PTL

----------------------------------------------------------------------------
(* The catalog. *)

HIDE DEF Credentials, HopByHop
USE CatalogConstants

----------------------------------------------------------------------------
(* What the properties need to survive a step.                             *)

(* What is cached was answered under the identity it is filed under, and a *)
(* discovery carries the identity of its settings.                         *)
CacheInv ==
    /\ \A i \in Identities : snapshots[i] # Unset => <<i, snapshots[i]>> \in answered
    /\ \A d \in Discoveries : query[d].cached # Unset =>
            <<query[d].ident, query[d].cached>> \in answered

AskedInv ==
    \A d \in Discoveries : query[d].at # "idle" =>
        /\ query[d].with \in KeyRecords
        /\ \E tenant \in Tenants : query[d].ident = <<query[d].with.route, tenant>>
        /\ query[d].at \in {"generate", "served"} => query[d].got \in Catalogs

(* The table is the one of the discovery that wrote it.                    *)
TableInv ==
    \A d \in Discoveries :
        query[d].at = "served" /\ query[d].persist /\ writer = d =>
            table = TableOf(query[d].with, query[d].got.models)

CatalogInv == CatalogTypeOK /\ CacheInv /\ AskedInv /\ CatalogOfTheRoute /\ TableInv

----------------------------------------------------------------------------
(* Renaming and the table *)

LEMMA AliasesAreIds == ASSUME NEW id \in Ids PROVE Alias(id) \in Ids /\ Alias(id).claude
BY DEF Ids, Alias

LEMMA RenamedIsId == ASSUME NEW id \in Ids, NEW all PROVE Renamed(id, all) \in Ids
BY AliasesAreIds DEF Renamed

LEMMA AliasesAreDistinct ==
    ASSUME NEW x \in Ids, NEW y \in Ids, ~x.claude, ~y.claude, Alias(x) = Alias(y)
    PROVE  x = y
<1>1. Alias(x).base = x.base /\ Alias(y).base = y.base
  BY DEF Ids, Alias
<1> QED
  BY <1>1 DEF Ids

(* No two ids of a catalog are shown under the same name.                  *)
THEOREM NamesAreDistinct ==
    ASSUME NEW all \in SUBSET Ids, NEW x \in all, NEW y \in all,
           Renamed(x, all) = Renamed(y, all)
    PROVE  x = y
<1>1. CASE (x.claude \/ Alias(x) \in all) /\ (y.claude \/ Alias(y) \in all)
  BY <1>1 DEF Renamed
<1>2. CASE ~(x.claude \/ Alias(x) \in all) /\ ~(y.claude \/ Alias(y) \in all)
  BY <1>2, AliasesAreDistinct DEF Renamed
<1>3. CASE (x.claude \/ Alias(x) \in all) /\ ~(y.claude \/ Alias(y) \in all)
  BY <1>3 DEF Renamed
<1>4. CASE ~(x.claude \/ Alias(x) \in all) /\ (y.claude \/ Alias(y) \in all)
  BY <1>4 DEF Renamed
<1> QED
  BY <1>1, <1>2, <1>3, <1>4

LEMMA ListedAreIds ==
    ASSUME NEW s \in KeyRecords, NEW models \in SUBSET Ids
    PROVE  Listed(s, models) \in SUBSET Ids
BY DEF Listed, KeyRecords, Modes3

LEMMA TableType ==
    ASSUME NEW s \in KeyRecords, NEW models \in SUBSET Ids
    PROVE  /\ \E S \in SUBSET Ids : TableOf(s, models) \in [S -> Ids]
           /\ TableOf(s, models) # Unset
<1> DEFINE all == Listed(s, models)
           shown == {Renamed(id, all) : id \in all}
           S == shown \union (all \intersect s.own)
<1>1. all \in SUBSET Ids
  BY ListedAreIds
<1>2. shown \in SUBSET Ids
  BY <1>1, RenamedIsId
<1>3. S \in SUBSET Ids
  BY <1>1, <1>2
<1>4. ASSUME NEW id \in S
      PROVE  (IF id \in shown THEN CHOOSE up \in all : Renamed(up, all) = id ELSE id) \in Ids
  <2>1. CASE id \in shown
    <3>1. \E up \in all : Renamed(up, all) = id
      BY <2>1
    <3>2. (CHOOSE up \in all : Renamed(up, all) = id) \in all
      BY <3>1
    <3> QED
      BY <2>1, <3>2, <1>1
  <2>2. CASE id \notin shown
    BY <2>2, <1>3
  <2> QED
    BY <2>1, <2>2
<1>5. TableOf(s, models) \in [S -> Ids]
  BY <1>4 DEF TableOf
<1> QED
  BY <1>3, <1>5

(* The table that goes with a menu decodes each of its rows.               *)
THEOREM TablesDecode ==
    ASSUME NEW s \in KeyRecords, NEW models \in SUBSET Ids,
           NEW row \in Menu(s, models), NEW now
    PROVE  Sent(TableOf(s, models), now, row.id) = <<"model", row.upstream>>
<1> DEFINE all == Listed(s, models)
           shown == {Renamed(id, all) : id \in all}
           t == TableOf(s, models)
<1>1. all \in SUBSET Ids
  BY ListedAreIds
<1>2. PICK id \in all : row = [id |-> Renamed(id, all), upstream |-> id]
  BY DEF Menu
<1>3. row.id = Renamed(id, all) /\ row.upstream = id /\ row.id \in shown
  BY <1>2
<1>4. row.id \in DOMAIN t /\ t[row.id] = CHOOSE up \in all : Renamed(up, all) = row.id
  BY <1>3 DEF TableOf
<1>5. (CHOOSE up \in all : Renamed(up, all) = row.id) = id
  <2>1. \E up \in all : Renamed(up, all) = row.id
    BY <1>3
  <2>2. PICK up \in all : up = (CHOOSE u \in all : Renamed(u, all) = row.id) /\ Renamed(up, all) = row.id
    BY <2>1
  <2> QED
    BY <1>1, <1>3, <2>2, NamesAreDistinct
<1>6. t # Unset
  BY TableType
<1> QED
  BY <1>3, <1>4, <1>5, <1>6 DEF Sent

----------------------------------------------------------------------------
(* The initial state *)

LEMMA StillIsQuery == Still \in Queries /\ Still.at = "idle" /\ Still.cached = Unset
BY DEF Still, Queries

LEMMA CatalogInitial == CatalogInit => CatalogInv
<1> SUFFICES ASSUME CatalogInit PROVE CatalogInv
  OBVIOUS
<1> USE StillIsQuery DEF CatalogInit
<1>1. CatalogTypeOK
  BY DEF CatalogTypeOK
<1>2. \A d \in Discoveries : query[d].at = "idle" /\ query[d].cached = Unset
  OBVIOUS
<1>3. CacheInv
  BY <1>2 DEF CacheInv
<1>4. AskedInv /\ TableInv
  BY <1>2 DEF AskedInv, TableInv
<1>5. CatalogOfTheRoute
  BY <1>2 DEF CatalogOfTheRoute
<1> QED
  BY <1>1, <1>3, <1>4, <1>5 DEF CatalogInv

----------------------------------------------------------------------------
(* The steps of a discovery *)

(* One discovery moves, and the cache and the table stay.                  *)
LEMMA OnlyTheQuery ==
    ASSUME CatalogInv, NEW d \in Discoveries, NEW q \in Queries,
           query' = [query EXCEPT ![d] = q],
           UNCHANGED <<settings, lists, snapshots, table, answered, age, saves, writer>>,
           q.cached # Unset => <<q.ident, q.cached>> \in answered,
           q.at # "idle" =>
               /\ q.with \in KeyRecords
               /\ \E tenant \in Tenants : q.ident = <<q.with.route, tenant>>
               /\ q.at \in {"generate", "served"} => q.got \in Catalogs,
           q.at \in {"generate", "served"} /\ ~(q.persist /\ q.with.mode = "custom") =>
               <<q.ident, q.got>> \in answered,
           ~(q.at = "served" /\ q.persist)
    PROVE  CatalogInv'
<1> USE DEF CatalogInv
<1>1. query' \in [Discoveries -> Queries]
  BY DEF CatalogTypeOK
<1>2. \A c \in Discoveries : query'[c] = IF c = d THEN q ELSE query[c]
  BY DEF CatalogTypeOK
<1>3. CatalogTypeOK'
  BY <1>1 DEF CatalogTypeOK
<1>4. CacheInv'
  BY <1>2 DEF CacheInv
<1>5. AskedInv'
  BY <1>2 DEF AskedInv
<1>6. CatalogOfTheRoute'
  BY <1>2 DEF CatalogOfTheRoute
<1>7. TableInv'
  BY <1>2 DEF TableInv
<1> QED
  BY <1>3, <1>4, <1>5, <1>6, <1>7

LEMMA BeginPreserves ==
    ASSUME CatalogInv, NEW d \in Discoveries, NEW tenant \in Tenants, NEW s \in KeyRecords,
           NEW persist \in BOOLEAN, Begin(d, tenant, s, persist)
    PROVE  CatalogInv'
<1> DEFINE ident == Identity(s, tenant)
           q == [Still EXCEPT !.ident = <<s.route, tenant>>, !.with = s, !.persist = persist,
                              !.cached = snapshots[ident]]
           fresh == q.cached # Unset /\ age - q.cached.at \in 0..(FreshFor - 1)
<1>1. ident \in Identities /\ ident = <<s.route, tenant>>
  BY DEF Identity, Identities, KeyRecords
<1>2. snapshots[ident] \in Catalogs \union {Unset}
  BY <1>1 DEF CatalogInv, CatalogTypeOK
<1>3. snapshots[ident] # Unset => <<ident, snapshots[ident]>> \in answered
  BY <1>1 DEF CatalogInv, CacheInv
<1>4. /\ q \in Queries
      /\ q.ident = ident /\ q.with = s /\ q.persist = persist /\ q.cached = snapshots[ident]
  BY <1>1, <1>2 DEF Still, Queries
<1>5. age \in Nat
  BY DEF CatalogInv, CatalogTypeOK
<1>9. /\ UNCHANGED <<settings, lists, snapshots, table, answered, age, saves, writer>>
      /\ q.cached # Unset => <<q.ident, q.cached>> \in answered
      /\ q.with \in KeyRecords
      /\ \E u \in Tenants : q.ident = <<q.with.route, u>>
  BY <1>1, <1>3, <1>4 DEF Begin
<1> HIDE DEF q, ident
<1>6. CASE persist /\ s.mode = "custom"
  <2> DEFINE n == [q EXCEPT !.at = "generate", !.got = [models |-> {}, at |-> age]]
  <2>1. [models |-> {}, at |-> age] \in Catalogs
    BY <1>5 DEF Catalogs
  <2>2. /\ n \in Queries
        /\ n.at = "generate" /\ n.got \in Catalogs /\ n.ident = q.ident
        /\ n.with = q.with /\ n.persist = q.persist /\ n.cached = q.cached
    BY <1>4, <2>1 DEF Queries
  <2>3. query' = [query EXCEPT ![d] = n]
    BY <1>6 DEF Begin, q, ident
  <2> HIDE DEF n
  <2> QED
    BY <1>4, <1>6, <1>9, <2>2, <2>3, OnlyTheQuery
<1>7. CASE ~(persist /\ s.mode = "custom") /\ persist /\ fresh
  <2> DEFINE n == [q EXCEPT !.at = "generate", !.got = q.cached, !.kept = TRUE]
  <2>1. q.cached \in Catalogs
    BY <1>2, <1>4, <1>7
  <2>2. /\ n \in Queries
        /\ n.at = "generate" /\ n.got = q.cached /\ n.ident = q.ident
        /\ n.with = q.with /\ n.persist = q.persist /\ n.cached = q.cached
    BY <1>4, <2>1 DEF Queries
  <2>3. query' = [query EXCEPT ![d] = n]
    BY <1>7 DEF Begin, q, ident
  <2>4. q.cached # Unset
    BY <1>7
  <2> HIDE DEF n
  <2> QED
    BY <1>9, <2>1, <2>2, <2>3, <2>4, OnlyTheQuery
<1>8. CASE ~(persist /\ s.mode = "custom") /\ ~(persist /\ fresh)
  <2> DEFINE n == [q EXCEPT !.at = "fetch"]
  <2>1. /\ n \in Queries
        /\ n.at = "fetch" /\ n.ident = q.ident
        /\ n.with = q.with /\ n.cached = q.cached
    BY <1>4 DEF Queries
  <2>2. query' = [query EXCEPT ![d] = n]
    BY <1>8 DEF Begin, q, ident
  <2> HIDE DEF n
  <2> QED
    BY <1>9, <2>1, <2>2, OnlyTheQuery
<1> QED
  BY <1>6, <1>7, <1>8

LEMMA SettingsTyped ==
    ASSUME CatalogInv
    PROVE  /\ settings \in KeyRecords
           /\ \A r \in Routes : [settings EXCEPT !.route = r] \in KeyRecords
<1>1. settings \in KeyRecords
  BY DEF CatalogInv, CatalogTypeOK, KeyRecords
<1> QED
  BY <1>1 DEF KeyRecords

(* What is known of a discovery that is not idle.                          *)
LEMMA Asking ==
    ASSUME CatalogInv, NEW d \in Discoveries
    PROVE  /\ query[d] \in Queries
           /\ query[d].cached # Unset =>
                /\ query[d].cached \in Catalogs
                /\ <<query[d].ident, query[d].cached>> \in answered
           /\ query[d].at # "idle" =>
                /\ query[d].with \in KeyRecords
                /\ query[d].ident \in Identities
                /\ query[d].ident = Identity(query[d].with, query[d].ident[2])
                /\ \E tenant \in Tenants : query[d].ident = <<query[d].with.route, tenant>>
<1>1. query[d] \in Queries
  BY DEF CatalogInv, CatalogTypeOK
<1>2. query[d].cached # Unset =>
        query[d].cached \in Catalogs /\ <<query[d].ident, query[d].cached>> \in answered
  BY <1>1 DEF CatalogInv, CacheInv, Queries
<1>3. ASSUME query[d].at # "idle"
      PROVE  /\ query[d].with \in KeyRecords
             /\ query[d].ident \in Identities
             /\ query[d].ident = Identity(query[d].with, query[d].ident[2])
             /\ \E tenant \in Tenants : query[d].ident = <<query[d].with.route, tenant>>
  <2>1. query[d].with \in KeyRecords
    BY <1>3 DEF CatalogInv, AskedInv
  <2>2. PICK tenant \in Tenants : query[d].ident = <<query[d].with.route, tenant>>
    BY <1>3 DEF CatalogInv, AskedInv
  <2>3. query[d].ident[2] = tenant
    BY <2>2
  <2>4. query[d].with.route \in Routes
    BY <2>1 DEF KeyRecords
  <2> QED
    BY <2>1, <2>2, <2>3, <2>4 DEF Identity, Identities
<1> QED
  BY <1>1, <1>2, <1>3

LEMMA FetchedPreserves ==
    ASSUME CatalogInv, NEW d \in Discoveries, Fetched(d)
    PROVE  CatalogInv'
<1> DEFINE q == query[d]
           got == [models |-> lists[q.ident], at |-> age]
           n == [q EXCEPT !.got = got, !.at = IF q.persist THEN "generate" ELSE "served"]
<1>1. /\ q.at = "fetch"
      /\ answered' = answered \union {<<q.ident, got>>}
      /\ snapshots' = IF q.persist
                      THEN [snapshots EXCEPT ![Identity(q.with, q.ident[2])] = got] ELSE snapshots
      /\ query' = [query EXCEPT ![d] = n]
      /\ UNCHANGED <<settings, lists, table, age, saves, writer>>
  BY DEF Fetched
<1>2. /\ q \in Queries /\ q.with \in KeyRecords /\ q.ident \in Identities
      /\ q.ident = Identity(q.with, q.ident[2])
      /\ \E tenant \in Tenants : q.ident = <<q.with.route, tenant>>
      /\ q.cached # Unset => <<q.ident, q.cached>> \in answered
  BY <1>1, Asking
<1>3. got \in Catalogs
  BY <1>2 DEF CatalogInv, CatalogTypeOK, Catalogs
<1>4. /\ n \in Queries /\ n.ident = q.ident /\ n.with = q.with /\ n.cached = q.cached
      /\ n.got = got /\ n.persist = q.persist
      /\ n.at = IF q.persist THEN "generate" ELSE "served"
  BY <1>2, <1>3 DEF Queries
<1> HIDE DEF n, got
<1>5. \A c \in Discoveries : query'[c] = IF c = d THEN n ELSE query[c]
  BY <1>1 DEF CatalogInv, CatalogTypeOK
<1>6. \A i \in Identities :
        snapshots'[i] = IF q.persist /\ i = q.ident THEN got ELSE snapshots[i]
  BY <1>1, <1>2 DEF CatalogInv, CatalogTypeOK
<1>7. CatalogTypeOK'
  <2>1. query' \in [Discoveries -> Queries]
    BY <1>1, <1>4 DEF CatalogInv, CatalogTypeOK
  <2>2. snapshots' \in [Identities -> Catalogs \union {Unset}]
    BY <1>1, <1>2, <1>3 DEF CatalogInv, CatalogTypeOK
  <2> QED
    BY <1>1, <2>1, <2>2 DEF CatalogInv, CatalogTypeOK
<1>8. CacheInv'
  BY <1>1, <1>2, <1>4, <1>5, <1>6 DEF CatalogInv, CacheInv
<1>9. AskedInv'
  BY <1>2, <1>3, <1>4, <1>5 DEF CatalogInv, AskedInv
<1>10. CatalogOfTheRoute'
  BY <1>1, <1>4, <1>5 DEF CatalogInv, CatalogOfTheRoute
<1>11. TableInv'
  BY <1>1, <1>4, <1>5 DEF CatalogInv, TableInv
<1> QED
  BY <1>7, <1>8, <1>9, <1>10, <1>11 DEF CatalogInv

LEMMA FetchFailsPreserves ==
    ASSUME CatalogInv, NEW d \in Discoveries, FetchFails(d)
    PROVE  CatalogInv'
<1> DEFINE q == query[d]
           n == [q EXCEPT !.got = q.cached, !.kept = TRUE, !.error = TRUE,
                          !.at = IF q.persist THEN "generate" ELSE "served"]
<1>1. /\ q.at = "fetch"
      /\ UNCHANGED <<settings, lists, snapshots, table, answered, age, saves, writer>>
  BY DEF FetchFails
<1>2. CASE q.cached = Unset
  BY <1>1, <1>2, StillIsQuery, OnlyTheQuery DEF FetchFails
<1>3. CASE q.cached # Unset
  <2>1. /\ q \in Queries /\ q.with \in KeyRecords
        /\ \E tenant \in Tenants : q.ident = <<q.with.route, tenant>>
        /\ q.cached \in Catalogs /\ <<q.ident, q.cached>> \in answered
    BY <1>1, <1>3, Asking
  <2>2. /\ n \in Queries /\ n.ident = q.ident /\ n.with = q.with /\ n.cached = q.cached
        /\ n.got = q.cached /\ n.persist = q.persist
        /\ n.at = IF q.persist THEN "generate" ELSE "served"
    BY <2>1 DEF Queries
  <2>3. query' = [query EXCEPT ![d] = n]
    BY <1>3 DEF FetchFails
  <2> HIDE DEF n
  <2> QED
    BY <1>1, <2>1, <2>2, <2>3, OnlyTheQuery
<1> QED
  BY <1>2, <1>3

LEMMA GeneratePreserves ==
    ASSUME CatalogInv, NEW d \in Discoveries, Generate(d)
    PROVE  CatalogInv'
<1> DEFINE q == query[d]
           n == [q EXCEPT !.at = "served"]
<1>1. q.at = "generate" /\ UNCHANGED <<settings, lists, snapshots, answered, age, saves>>
  BY DEF Generate
<1>2. /\ q \in Queries /\ q.with \in KeyRecords
      /\ \E tenant \in Tenants : q.ident = <<q.with.route, tenant>>
      /\ q.cached # Unset => <<q.ident, q.cached>> \in answered
      /\ q.got \in Catalogs
  BY <1>1, Asking DEF CatalogInv, AskedInv
<1>3. CASE Listed(q.with, q.got.models) = {}
  BY <1>1, <1>3, StillIsQuery, OnlyTheQuery DEF Generate
<1>4. CASE Listed(q.with, q.got.models) # {}
  <2>1. /\ query' = [query EXCEPT ![d] = n]
        /\ table' = TableOf(q.with, q.got.models) /\ writer' = d
    BY <1>4 DEF Generate
  <2>2. /\ n \in Queries /\ n.at = "served" /\ n.ident = q.ident /\ n.with = q.with
        /\ n.cached = q.cached /\ n.got = q.got /\ n.persist = q.persist
    BY <1>2 DEF Queries
  <2>3. q.got.models \in SUBSET Ids
    BY <1>2 DEF Catalogs
  <2> HIDE DEF n
  <2>4. \A c \in Discoveries : query'[c] = IF c = d THEN n ELSE query[c]
    BY <2>1 DEF CatalogInv, CatalogTypeOK
  <2>5. CatalogTypeOK'
    <3>1. query' \in [Discoveries -> Queries]
      BY <2>1, <2>2 DEF CatalogInv, CatalogTypeOK
    <3>2. \E S \in SUBSET Ids : table' \in [S -> Ids]
      BY <1>2, <2>1, <2>3, TableType
    <3> QED
      BY <1>1, <2>1, <3>1, <3>2 DEF CatalogInv, CatalogTypeOK
  <2>6. CacheInv'
    BY <1>1, <1>2, <2>2, <2>4 DEF CatalogInv, CacheInv
  <2>7. AskedInv'
    BY <1>2, <2>2, <2>4 DEF CatalogInv, AskedInv
  <2>8. CatalogOfTheRoute'
    BY <1>1, <2>2, <2>4 DEF CatalogInv, CatalogOfTheRoute
  <2>9. TableInv'
    BY <2>1, <2>2, <2>4 DEF TableInv
  <2> QED
    BY <2>5, <2>6, <2>7, <2>8, <2>9 DEF CatalogInv
<1> QED
  BY <1>3, <1>4

LEMMA LeavePreserves ==
    ASSUME CatalogInv, NEW d \in Discoveries, Leave(d)
    PROVE  CatalogInv'
BY StillIsQuery, OnlyTheQuery DEF Leave

----------------------------------------------------------------------------
(* What changes meanwhile *)

LEMMA OthersPreserve ==
    ASSUME CatalogInv, UNCHANGED <<snapshots, table, query, answered, writer>>,
           (CatalogTypeOK)'
    PROVE  CatalogInv'
BY DEF CatalogInv, CacheInv, AskedInv, CatalogOfTheRoute, TableInv

LEMMA CatalogStep == CatalogInv /\ [CatalogNext]_catalogVars => CatalogInv'
<1> SUFFICES ASSUME CatalogInv, [CatalogNext]_catalogVars PROVE CatalogInv'
  OBVIOUS
<1>1. ASSUME NEW d \in Discoveries, NEW tenant \in Tenants, Discover(d, tenant)
      PROVE  CatalogInv'
  BY <1>1, SettingsTyped, BeginPreserves DEF Discover
<1>2. ASSUME NEW d \in Discoveries, NEW tenant \in Tenants, Preview(d, tenant)
      PROVE  CatalogInv'
  <2>1. PICK r \in Routes : Begin(d, tenant, [settings EXCEPT !.route = r], FALSE)
    BY <1>2 DEF Preview
  <2> QED
    BY <2>1, SettingsTyped, BeginPreserves
<1>3. ASSUME NEW d \in Discoveries, Fetched(d) \/ FetchFails(d) \/ Generate(d) \/ Leave(d)
      PROVE  CatalogInv'
  BY <1>3, FetchedPreserves, FetchFailsPreserves, GeneratePreserves, LeavePreserves
<1>4. ASSUME NEW s \in KeySettings, SaveSettings(s) PROVE CatalogInv'
  BY <1>4, OthersPreserve DEF SaveSettings, Change, CatalogInv, CatalogTypeOK
<1>5. ASSUME NEW ident \in Identities, NEW models \in Lists, UpstreamChanges(ident, models)
      PROVE  CatalogInv'
  BY <1>5, OthersPreserve DEF UpstreamChanges, Change, CatalogInv, CatalogTypeOK
<1>6. CASE Ages
  BY <1>6, OthersPreserve DEF Ages, CatalogInv, CatalogTypeOK
<1>7. CASE UNCHANGED catalogVars
  BY <1>7, OthersPreserve DEF catalogVars, CatalogInv, CatalogTypeOK
<1> QED
  BY <1>1, <1>2, <1>3, <1>4, <1>5, <1>6, <1>7 DEF CatalogNext

----------------------------------------------------------------------------
(* Results *)

(* The invariant of discoveries, the cache and the alias table holds.      *)
THEOREM CatalogInductive == CatalogSpec => []CatalogInv
BY CatalogInitial, CatalogStep, PTL DEF CatalogSpec

(* A list that is served was given by the upstream under the very route    *)
(* and headers of the request, whatever overlaps (model_catalog.rs).       *)
THEOREM ServedListsAreOfTheRoute == CatalogSpec => []CatalogOfTheRoute
<1>1. CatalogInv => CatalogOfTheRoute
  BY DEF CatalogInv
<1> QED
  BY <1>1, CatalogInductive, PTL

(* The pick from the last menu is what the proxy sends.                    *)
THEOREM PicksAreSent == CatalogSpec => []PickedIsSent
<1>1. ASSUME CatalogInv PROVE PickedIsSent
  <2> SUFFICES ASSUME NEW d \in Discoveries, query[d].at = "served", query[d].persist,
                      writer = d, NEW row \in Menu(query[d].with, query[d].got.models)
               PROVE  Sent(table, settings, row.id) = <<"model", row.upstream>>
    BY DEF PickedIsSent
  <2>1. query[d].with \in KeyRecords /\ query[d].got \in Catalogs
    BY <1>1 DEF CatalogInv, AskedInv
  <2>2. query[d].got.models \in SUBSET Ids
    BY <2>1 DEF Catalogs
  <2>3. table = TableOf(query[d].with, query[d].got.models)
    BY <1>1 DEF CatalogInv, TableInv
  <2> DEFINE s == query[d].with
             models == query[d].got.models
  <2>4. s \in KeyRecords /\ models \in SUBSET Ids /\ row \in Menu(s, models)
    BY <2>1, <2>2
  <2> HIDE DEF s, models
  <2>5. Sent(TableOf(s, models), settings, row.id) = <<"model", row.upstream>>
    BY <2>4, TablesDecode
  <2> QED
    BY <2>3, <2>5 DEF s, models
<1> QED
  BY <1>1, CatalogInductive, PTL

(* Every variable keeps its type.                                          *)
THEOREM CatalogTypeCorrect == CatalogSpec => []CatalogTypeOK
<1>1. CatalogInv => CatalogTypeOK
  BY DEF CatalogInv
<1> QED
  BY <1>1, CatalogInductive, PTL

----------------------------------------------------------------------------
(* Nothing is answered before a request came in.                           *)
AnswersArrived == outcome # Nil => inbound # Nil

(* Every variable of the module that moves keeps its type: console log,    *)
(* permits, store, catalog and schema; and of the rewriting that nothing   *)
(* goes out before a request came in (console_log_store.rs, proxy/mod.rs,  *)
(* api_keys.rs, model_catalog.rs, db/mod.rs, handler.rs).                  *)
THEOREM RecordTypesAreKept == MCSpec => []TypesOK
<1>1. MCInit => LogInit /\ PermitsInit /\ StoreInit /\ CatalogInit /\ SchemaInit /\ RewriteInit
  BY DEF MCInit
<1>2. [MCNext]_recordVars =>
        /\ [LogNext]_logVars /\ [PermitsNext]_permitVars /\ [StoreNext]_storeVars
        /\ [CatalogNext]_catalogVars /\ [SchemaNext]_schemaVars /\ [RewriteNext]_rewriteVars
  BY DEF MCNext, recordVars
<1>3. (LogSpec => []LogTypeOK) /\ (PermitsSpec => []PermitsInv) /\ (StoreSpec => []StoreTypeOK)
  BY LogTypeCorrect, PermitsInductive, StoreTypeCorrect
<1>4. (CatalogSpec => []CatalogTypeOK) /\ (SchemaSpec => []SchemaTypeOK)
  BY CatalogTypeCorrect, SchemaTypeCorrect
<1>5. RewriteInit => AnswersArrived
  BY DEF RewriteInit, AnswersArrived
<1>6. AnswersArrived /\ [RewriteNext]_rewriteVars => AnswersArrived'
  BY DEF AnswersArrived, RewriteNext, Arrive, Refuse, AnswerList, QueryCatalog, AnswerCatalog, Forward,
         Waiting, rewriteVars
<1>7. LogTypeOK /\ PermitsInv /\ StoreTypeOK /\ CatalogTypeOK /\ SchemaTypeOK /\ AnswersArrived => TypesOK
  BY DEF TypesOK, PermitsInv, AnswersArrived
<1> QED
  BY <1>1, <1>2, <1>3, <1>4, <1>5, <1>6, <1>7, PTL
     DEF MCSpec, LogSpec, PermitsSpec, StoreSpec, CatalogSpec, SchemaSpec, RewriteSpec
=============================================================================
