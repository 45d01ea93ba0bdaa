------------------------- MODULE ManagedInstances -------------------------
(***************************************************************************)
(* The life of a managed instance: the terminal wrapper that cc-use starts *)
(* around a coding CLI, the managed_instances row that tracks it and the   *)
(* proxy_sessions row whose token lets the CLI through the local proxy.    *)
(*                                                                         *)
(* Three kinds of process share one SQLite database and nothing else:      *)
(*   - the desktop app, whose commands run one at a time under its mutex;  *)
(*   - any number of `cc-use <client>` command lines, each launching one   *)
(*     instance;                                                           *)
(*   - the daemon, whose handlers, proxy requests and sweeper run one at a *)
(*     time under a mutex of its own.                                      *)
(* A single SQL statement (or an explicit transaction) is atomic; between  *)
(* two statements of one process the others may run, and a process may     *)
(* die.  An action below is one statement or one transaction.              *)
(***************************************************************************)
EXTENDS Naturals, FiniteSets

CONSTANTS
    Instances,   \* instance ids; each names its session token too
    Keys,        \* API keys; a key stands for the pair (provider, key)
    Clients,     \* normalised CLI types (claude_code, grok)
    ClientOf,    \* the client of each instance
    NoKey,       \* a NULL api_key_id
    NoInstance,  \* "no instance" in the processes' local state
    StaleAfter,  \* MANAGED_INSTANCE_STALE_AFTER_SECS, in heartbeat periods
    StopAfter,   \* MANAGED_INSTANCE_STOP_STALE_AFTER_SECS, in the same unit
    MaxFaults    \* bound: crashes, failed statements and 30-day idle spells

ASSUME ConstantsAssumption ==
    /\ ClientOf \in [Instances -> Clients]
    /\ NoKey \notin Keys
    /\ NoInstance \notin Instances
    /\ StaleAfter \in Nat
    /\ StopAfter \in Nat
    /\ StaleAfter <= StopAfter
    /\ MaxFaults \in Nat

VARIABLES
    session,   \* proxy_sessions: session[i] is the row of i's token
    instance,  \* managed_instances: instance[i] is the row of i
    launch,    \* where the launch of i stands, and the key chosen for it
    shell,     \* the wrapper script of i
    net,       \* posts of i's wrapper that are on their way to the daemon
    keys,      \* providers and api_keys: what may be routed to
    app,       \* the command that holds the app's database mutex
    daemon,    \* the handler that holds the daemon's database mutex
    dormant,   \* tokens without a request for thirty days
    faults     \* faults so far

vars == <<session, instance, launch, shell, net, keys, app, daemon, dormant, faults>>

----------------------------------------------------------------------------
(* States *)

ActiveStatus   == {"launching", "running", "stale"}
TerminalStatus == {"stopped", "failed"}
Phases         == {"launching", "running"}
Heartbeats     == [kind : {"heartbeat"}, arg : Phases]
Stops          == [kind : {"stop"}, arg : TerminalStatus]
Messages       == Heartbeats \cup Stops

SessionState == {"absent", "valid", "revoked"}
LaunchStage  == {"idle", "prepared", "session", "instance", "rollback",
                 "failing", "revoking", "started", "over"}
ShellState   == {"none", "launching", "running", "ended"}
AppOp        == {"idle", "launch", "reassign"}
DaemonOp     == {"down", "idle", "stopMark", "stopRevoke",
                 "sweepLaunching", "sweepRunning", "sweepStale", "sweepSessions",
                 "authInstance", "authKey", "authTouch"}
Ages         == 0 .. StopAfter + 1
KeyOrNone    == Keys \cup {NoKey}

SessionRows  == [state : SessionState, key : KeyOrNone]
InstanceRows == [status : {"absent"} \cup ActiveStatus \cup TerminalStatus,
                 key : KeyOrNone, age : Ages]
Launches     == [stage : LaunchStage, key : KeyOrNone]
Shells       == [state : ShellState, stopSent : BOOLEAN]
AppCommands  == [op : AppOp, i : Instances \cup {NoInstance}, key : KeyOrNone]
DaemonTasks  == [op : DaemonOp, i : Instances \cup {NoInstance},
                 key : KeyOrNone, final : TerminalStatus]

NoSession  == [state |-> "absent", key |-> NoKey]
NoRow      == [status |-> "absent", key |-> NoKey, age |-> 0]
AppIdle    == [op |-> "idle", i |-> NoInstance, key |-> NoKey]
DaemonOn(op, i, key, final) == [op |-> op, i |-> i, key |-> key, final |-> final]
DaemonAt(op) == DaemonOn(op, NoInstance, NoKey, "stopped")
DaemonIdle == DaemonAt("idle")

HeartbeatOf(phase) == [kind |-> "heartbeat", arg |-> phase]
StopOf(status)     == [kind |-> "stop", arg |-> status]

Active(i)   == instance[i].status \in ActiveStatus
Terminal(i) == instance[i].status \in TerminalStatus

Init ==
    /\ session = [i \in Instances |-> NoSession]
    /\ instance = [i \in Instances |-> NoRow]
    /\ launch = [i \in Instances |-> [stage |-> "idle", key |-> NoKey]]
    /\ shell = [i \in Instances |-> [state |-> "none", stopSent |-> FALSE]]
    /\ net = [i \in Instances |-> {}]
    /\ keys = [k \in Keys |-> "usable"]
    /\ app = AppIdle
    /\ daemon = DaemonIdle
    /\ dormant = {}
    /\ faults = 0

(* A crash, a statement that fails (a locked or full database), ... *)
Fault   == faults < MaxFaults /\ faults' = faults + 1
NoFault == UNCHANGED faults

(* COALESCE(revoked_at, now): a session that is not there stays absent.    *)
Revoked(s) == IF s.state = "valid" THEN [s EXCEPT !.state = "revoked"] ELSE s

(* SET status = ?, last_heartbeat_at = now                                 *)
Stamped(row, status) == [status |-> status, key |-> row.key, age |-> 0]

(* The row as managed_instance_mark_stopped leaves it, if it is active.    *)
(* (Variant: the stop reason written where the status belongs.)            *)
MarkedStoppedWithReason(row, final) ==
    IF row.status \in ActiveStatus
    THEN Stamped(row, IF final = "stopped" THEN "process_exit" ELSE final) ELSE row
MarkedStopped(row, final) ==
    IF row.status \in ActiveStatus THEN Stamped(row, final) ELSE row

SetStage(i, stage) == launch' = [launch EXCEPT ![i].stage = stage]

(* The app's mutex is released when its launch ends, however it ends.      *)
ReleaseIfApp(i) == app' = IF app.op = "launch" /\ app.i = i THEN AppIdle ELSE app

----------------------------------------------------------------------------
(* Launching: terminal::create_managed_launch and its callers              *)

(* The app launches with the project's stored binding, which only has to   *)
(* name an existing key; the command line offers usable keys, and its      *)
(* picker waits for the user while anything may happen to the chosen one.  *)
BeginLaunch(i, k) ==
    /\ launch[i].stage = "idle"
    /\ \/ /\ app.op = "idle" /\ keys[k] # "deleted"
          /\ app' = [op |-> "launch", i |-> i, key |-> k]
       \/ /\ keys[k] = "usable"
          /\ UNCHANGED app
    /\ launch' = [launch EXCEPT ![i] = [stage |-> "prepared", key |-> k]]
    /\ UNCHANGED <<session, instance, shell, net, keys, daemon, dormant, faults>>

CreateSession(i) ==
    /\ launch[i].stage = "prepared"
    /\ \/ /\ session' = [session EXCEPT ![i] = [state |-> "valid", key |-> launch[i].key]]
          /\ SetStage(i, "session")
          /\ UNCHANGED <<app, faults>>
       \/ /\ Fault
          /\ SetStage(i, "over")
          /\ ReleaseIfApp(i)
          /\ UNCHANGED session
    /\ UNCHANGED <<instance, shell, net, keys, daemon, dormant>>

(* The row references its key, so the INSERT fails when the key has been   *)
(* deleted since it was chosen.                                            *)
CreateInstance(i) ==
    /\ launch[i].stage = "session"
    /\ \/ /\ keys[launch[i].key] # "deleted"
          /\ instance' = [instance EXCEPT
                ![i] = [status |-> "launching", key |-> launch[i].key, age |-> 0]]
          /\ SetStage(i, "instance")
          /\ NoFault
       \/ /\ (keys[launch[i].key] = "deleted" /\ NoFault) \/ Fault
          /\ SetStage(i, "rollback")
          /\ UNCHANGED instance
    /\ UNCHANGED <<session, shell, net, keys, app, daemon, dormant>>

(* `let _ = db.proxy_session_delete(..)`: a failure leaves the session.    *)
RollbackSession(i) ==
    /\ launch[i].stage = "rollback"
    /\ \/ session' = [session EXCEPT ![i] = NoSession] /\ NoFault
       \/ UNCHANGED session /\ Fault
    /\ SetStage(i, "over")
    /\ ReleaseIfApp(i)
    /\ UNCHANGED <<instance, shell, net, keys, daemon, dormant>>

(* The terminal (or exec) takes the wrapper; or no terminal is available   *)
(* (or exec fails) and the caller returns at once, leaving both rows; or   *)
(* the app's terminal strategy fails and the launch is marked failed.      *)
OpenTerminal(i) ==
    /\ launch[i].stage = "instance"
    /\ \/ SetStage(i, "started") /\ ReleaseIfApp(i)
       \/ SetStage(i, "over") /\ ReleaseIfApp(i)
       \/ app.op = "launch" /\ app.i = i /\ SetStage(i, "failing") /\ UNCHANGED app
    /\ UNCHANGED <<session, instance, shell, net, keys, daemon, dormant, faults>>

(* mark_launch_failed: the row first, then the session, errors ignored.    *)
MarkLaunchFailed(i) ==
    /\ launch[i].stage = "failing"
    /\ \/ instance' = [instance EXCEPT ![i] = MarkedStopped(@, "failed")] /\ NoFault
       \/ UNCHANGED instance /\ Fault
    /\ SetStage(i, "revoking")
    /\ UNCHANGED <<session, shell, net, keys, app, daemon, dormant>>

RevokeFailedLaunch(i) ==
    /\ launch[i].stage = "revoking"
    /\ \/ session' = [session EXCEPT ![i] = Revoked(@)] /\ NoFault
       \/ UNCHANGED session /\ Fault
    /\ SetStage(i, "over")
    /\ ReleaseIfApp(i)
    /\ UNCHANGED <<instance, shell, net, keys, daemon, dormant>>

(* The launching process dies between two of the steps above.              *)
LauncherCrash(i) ==
    /\ launch[i].stage \in {"prepared", "session", "instance", "rollback", "failing", "revoking"}
    /\ Fault
    /\ SetStage(i, "over")
    /\ ReleaseIfApp(i)
    /\ UNCHANGED <<session, instance, shell, net, keys, daemon, dormant>>

----------------------------------------------------------------------------
(* The wrapper script: write_managed_launch_script                         *)

Post(i, m) == net' = [net EXCEPT ![i] = @ \cup {m}]
ShellTo(i, state) == shell' = [shell EXCEPT ![i].state = state]
ShellUp(i) == shell[i].state \in Phases

ShellStart(i) ==
    /\ launch[i].stage = "started"
    /\ shell[i].state = "none"
    /\ ShellTo(i, "launching")
    /\ Post(i, HeartbeatOf("launching"))
    /\ UNCHANGED <<session, instance, launch, keys, app, daemon, dormant, faults>>

(* Both heartbeat loops post the phase the script is in; the loop of the   *)
(* prelaunch command is killed when that ends, but not a curl it started.  *)
ShellBeat(i) ==
    /\ ShellUp(i)
    /\ Post(i, HeartbeatOf(shell[i].state))
    /\ UNCHANGED <<session, instance, launch, shell, keys, app, daemon, dormant, faults>>

PrelaunchDone(i) ==
    /\ shell[i].state = "launching"
    /\ ShellTo(i, "running")
    /\ Post(i, HeartbeatOf("running"))
    /\ UNCHANGED <<session, instance, launch, keys, app, daemon, dormant, faults>>

(* cc_use_stop_once: the second call of one script posts nothing.          *)
StopOnce(i, status) ==
    net' = IF shell[i].stopSent THEN net ELSE [net EXCEPT ![i] = @ \cup {StopOf(status)}]

PrelaunchFailed(i) ==
    /\ shell[i].state = "launching"
    /\ StopOnce(i, "failed")
    /\ shell' = [shell EXCEPT ![i] = [state |-> "ended", stopSent |-> TRUE]]
    /\ UNCHANGED <<session, instance, launch, keys, app, daemon, dormant, faults>>

ChildExit(i) ==
    /\ shell[i].state = "running"
    /\ StopOnce(i, "stopped")
    /\ shell' = [shell EXCEPT ![i] = [state |-> "ended", stopSent |-> TRUE]]
    /\ UNCHANGED <<session, instance, launch, keys, app, daemon, dormant, faults>>

(* HUP, INT or TERM: the trap posts the stop, and the script goes on after *)
(* the interrupted command.  A prelaunch command that survives the signal  *)
(* lets it start the client all the same.                                  *)
ShellTrap(i) ==
    /\ ShellUp(i)
    /\ ~shell[i].stopSent
    /\ StopOnce(i, "stopped")
    /\ shell' = [shell EXCEPT ![i] = [
          state |-> IF shell[i].state = "running" THEN "ended" ELSE "launching",
          stopSent |-> TRUE]]
    /\ UNCHANGED <<session, instance, launch, keys, app, daemon, dormant, faults>>

(* SIGKILL or a power cut: nothing is posted.                              *)
ShellKilled(i) ==
    /\ ShellUp(i)
    /\ ShellTo(i, "ended")
    /\ UNCHANGED <<session, instance, launch, net, keys, app, daemon, dormant, faults>>

(* `curl .. || true`: nobody listens, and the post is never repeated.      *)
PostLost(i, m) ==
    /\ daemon.op = "down"
    /\ m \in net[i]
    /\ net' = [net EXCEPT ![i] = @ \ {m}]
    /\ UNCHANGED <<session, instance, launch, shell, keys, app, daemon, dormant, faults>>

----------------------------------------------------------------------------
(* The daemon: management_instance_heartbeat, management_instance_stop     *)

Receive(i, m) ==
    /\ daemon.op = "idle"
    /\ m \in net[i]
    /\ net' = [net EXCEPT ![i] = @ \ {m}]

(* WHERE status IN (..) AND (?3 != 'launching' OR status = 'launching');   *)
(* no row changed is a 409 that the wrapper ignores.                       *)
(* (Variants: the status condition dropped, the phase condition dropped.)  *)
TouchHeartbeatAnyStatus(row, phase) ==
    IF row.status # "absent" THEN Stamped(row, phase) ELSE row
TouchHeartbeatAnyPhase(row, phase) ==
    IF row.status \in ActiveStatus THEN Stamped(row, phase) ELSE row
TouchHeartbeat(row, phase) ==
    IF /\ row.status \in ActiveStatus
       /\ phase # "launching" \/ row.status = "launching"
    THEN Stamped(row, phase)
    ELSE row

Heartbeat(i) ==
    \E phase \in Phases :
        /\ Receive(i, HeartbeatOf(phase))
        /\ instance' = [instance EXCEPT ![i] = TouchHeartbeat(@, phase)]
        /\ UNCHANGED <<session, launch, shell, keys, app, daemon, dormant, faults>>

(* managed_instance_get: 404 without a row; a terminal row only has its    *)
(* session revoked again; an active one is marked first.  (Variant: an     *)
(* active row is not marked.)                                              *)
StopReadRevokesOnly(i) ==
    \E final \in TerminalStatus :
        /\ Receive(i, StopOf(final))
        /\ daemon' = IF instance[i].status # "absent"
                     THEN DaemonOn("stopRevoke", i, NoKey, "stopped") ELSE daemon
        /\ UNCHANGED <<session, instance, launch, shell, keys, app, dormant, faults>>
StopRead(i) ==
    \E final \in TerminalStatus :
        /\ Receive(i, StopOf(final))
        /\ daemon' = IF Active(i)
                     THEN DaemonOn("stopMark", i, NoKey, final)
                     ELSE IF Terminal(i) THEN DaemonOn("stopRevoke", i, NoKey, "stopped")
                     ELSE daemon
        /\ UNCHANGED <<session, instance, launch, shell, keys, app, dormant, faults>>

(* No row updated (another process removed or ended it meanwhile) is a 409 *)
(* without a revocation; so is a failed statement a 500.                   *)
StopMark ==
    LET i == daemon.i IN
    /\ daemon.op = "stopMark"
    /\ \/ /\ Active(i)
          /\ instance' = [instance EXCEPT ![i] = MarkedStopped(@, daemon.final)]
          /\ daemon' = DaemonOn("stopRevoke", i, NoKey, "stopped")
          /\ NoFault
       \/ /\ (~Active(i) /\ NoFault) \/ Fault
          /\ daemon' = DaemonIdle
          /\ UNCHANGED instance
    /\ UNCHANGED <<session, launch, shell, net, keys, app, dormant>>

StopRevoke ==
    /\ daemon.op = "stopRevoke"
    /\ \/ session' = [session EXCEPT ![daemon.i] = Revoked(@)] /\ NoFault
       \/ UNCHANGED session /\ Fault
    /\ daemon' = DaemonIdle
    /\ UNCHANGED <<instance, launch, shell, net, keys, app, dormant>>

----------------------------------------------------------------------------
(* The daemon: spawn_managed_instance_sweeper, four statements in a row    *)

SweepBegin ==
    /\ daemon.op = "idle"
    /\ daemon' = DaemonAt("sweepLaunching")
    /\ UNCHANGED <<session, instance, launch, shell, net, keys, app, dormant, faults>>

(* One UPDATE over the rows; its error is dropped and the sweep goes on.   *)
SweepRows(op, next, status, limit, result) ==
    /\ daemon.op = op
    /\ \/ /\ instance' = [i \in Instances |->
                IF instance[i].status = status /\ instance[i].age > limit
                THEN [instance[i] EXCEPT !.status = result]
                ELSE instance[i]]
          /\ NoFault
       \/ UNCHANGED instance /\ Fault
    /\ daemon' = DaemonAt(next)
    /\ UNCHANGED <<session, launch, shell, net, keys, app, dormant>>

SweepLaunching ==
    SweepRows("sweepLaunching", "sweepRunning", "launching", StaleAfter, "failed")
SweepRunning ==
    SweepRows("sweepRunning", "sweepStale", "running", StaleAfter, "stale")
(* (Variant: the statement looks for the wrong status.)                    *)
SweepStaleRunning == SweepRows("sweepStale", "sweepSessions", "running", StopAfter, "stopped")
SweepStale ==
    SweepRows("sweepStale", "sweepSessions", "stale", StopAfter, "stopped")

(* proxy_session_revoke_stopped_managed.  (Variant: failed rows left out.) *)
SweepSessionsStopped ==
    /\ daemon.op = "sweepSessions"
    /\ session' = [i \in Instances |->
          IF instance[i].status = "stopped" THEN Revoked(session[i]) ELSE session[i]]
    /\ daemon' = DaemonIdle
    /\ UNCHANGED <<instance, launch, shell, net, keys, app, dormant, faults>>
SweepSessions ==
    /\ daemon.op = "sweepSessions"
    /\ \/ /\ session' = [i \in Instances |->
                IF Terminal(i) THEN Revoked(session[i]) ELSE session[i]]
          /\ NoFault
       \/ UNCHANGED session /\ Fault
    /\ daemon' = DaemonIdle
    /\ UNCHANGED <<instance, launch, shell, net, keys, app, dormant>>

----------------------------------------------------------------------------
(* The daemon: resolve_session_resources, a request of i's client.  Each   *)
(* read is a statement of its own; a failed check answers the request.     *)

AuthSession(i) ==
    /\ daemon.op = "idle"
    /\ shell[i].state # "none"
    /\ session[i].state = "valid"
    /\ daemon' = DaemonOn("authInstance", i, session[i].key, "stopped")
    /\ UNCHANGED <<session, instance, launch, shell, net, keys, app, dormant, faults>>

(* managed_instance_get_by_session_id and is_active.  (Variant: any row.)  *)
AuthInstanceAnyRow ==
    /\ daemon.op = "authInstance"
    /\ daemon' = IF instance[daemon.i].status # "absent"
                 THEN [daemon EXCEPT !.op = "authKey"] ELSE DaemonIdle
    /\ UNCHANGED <<session, instance, launch, shell, net, keys, app, dormant, faults>>
AuthInstance ==
    /\ daemon.op = "authInstance"
    /\ daemon' = IF Active(daemon.i) THEN [daemon EXCEPT !.op = "authKey"] ELSE DaemonIdle
    /\ UNCHANGED <<session, instance, launch, shell, net, keys, app, dormant, faults>>

AuthKey ==
    /\ daemon.op = "authKey"
    /\ daemon' = IF keys[daemon.key] = "usable"
                 THEN [daemon EXCEPT !.op = "authTouch"] ELSE DaemonIdle
    /\ UNCHANGED <<session, instance, launch, shell, net, keys, app, dormant, faults>>

(* proxy_session_touch, after which the request goes upstream with the key *)
AuthTouch ==
    /\ daemon.op = "authTouch"
    /\ dormant' = dormant \ {daemon.i}
    /\ daemon' = DaemonIdle
    /\ UNCHANGED <<session, instance, launch, shell, net, keys, app, faults>>

DaemonCrash ==
    /\ daemon.op # "down"
    /\ Fault
    /\ daemon' = DaemonAt("down")
    /\ UNCHANGED <<session, instance, launch, shell, net, keys, app, dormant>>

DaemonStart ==
    /\ daemon.op = "down"
    /\ daemon' = DaemonIdle
    /\ UNCHANGED <<session, instance, launch, shell, net, keys, app, dormant, faults>>

----------------------------------------------------------------------------
(* The app's other commands                                                *)

(* managed_instance_update_assignment_inner: the checks ...                *)
ReassignCheck(i, k) ==
    /\ app.op = "idle"
    /\ Active(i)
    /\ keys[k] = "usable"
    /\ app' = [op |-> "reassign", i |-> i, key |-> k]
    /\ UNCHANGED <<session, instance, launch, shell, net, keys, daemon, dormant, faults>>

(* ... and the transaction, which takes both rows or neither.  (Variant:   *)
(* no rollback when one row does not match.)                               *)
ReassignNoRollback ==
    LET i == app.i IN
    /\ app.op = "reassign"
    /\ session' = IF session[i].state = "valid"
                  THEN [session EXCEPT ![i].key = app.key] ELSE session
    /\ instance' = IF Active(i) THEN [instance EXCEPT ![i].key = app.key] ELSE instance
    /\ app' = AppIdle
    /\ UNCHANGED <<launch, shell, net, keys, daemon, dormant, faults>>
ReassignCommit ==
    LET i == app.i IN
    /\ app.op = "reassign"
    /\ \/ /\ session[i].state = "valid" /\ Active(i)
          /\ session' = [session EXCEPT ![i].key = app.key]
          /\ instance' = [instance EXCEPT ![i].key = app.key]
          /\ NoFault
       \/ /\ (~(session[i].state = "valid" /\ Active(i)) /\ NoFault) \/ Fault
          /\ UNCHANGED <<session, instance>>
    /\ app' = AppIdle
    /\ UNCHANGED <<launch, shell, net, keys, daemon, dormant>>

(* managed_instance_cleanup_inactive_for_cli_type, one transaction: stale  *)
(* and launching rows of the client end, then every ended one loses its    *)
(* session and its row.  (Variant: the rows of every client.)              *)
CleanedUpAnyClient(c) ==
    {i \in Instances : instance[i].status \in TerminalStatus \cup {"stale", "launching"}}
CleanedUp(c) ==
    {i \in Instances : ClientOf[i] = c /\ instance[i].status \in TerminalStatus \cup {"stale", "launching"}}

Cleanup(c) ==
    /\ app.op = "idle"
    /\ CleanedUp(c) # {}
    /\ session' = [i \in Instances |->
          IF i \in CleanedUp(c) THEN Revoked(session[i]) ELSE session[i]]
    /\ instance' = [i \in Instances |-> IF i \in CleanedUp(c) THEN NoRow ELSE instance[i]]
    /\ UNCHANGED <<launch, shell, net, keys, app, daemon, dormant, faults>>

(* A token that has carried no request for thirty days.  Heartbeats do not *)
(* count: they refresh the instance, never the session.                    *)
GoDormant(i) ==
    /\ launch[i].stage \in {"started", "over"}
    /\ session[i].state # "absent"
    /\ i \notin dormant
    /\ Fault
    /\ dormant' = dormant \cup {i}
    /\ UNCHANGED <<session, instance, launch, shell, net, keys, app, daemon>>

(* proxy_session_cleanup_stale at app start; the instance row references   *)
(* the session ON DELETE CASCADE.                                          *)
CleanupDormant ==
    /\ app.op = "idle"
    /\ dormant # {}
    /\ session' = [i \in Instances |-> IF i \in dormant THEN NoSession ELSE session[i]]
    /\ instance' = [i \in Instances |-> IF i \in dormant THEN NoRow ELSE instance[i]]
    /\ dormant' = {}
    /\ UNCHANGED <<launch, shell, net, keys, app, daemon, faults>>

(* api_key_update, provider_update: enabled, disabled or exhausted         *)
ToggleKey(k) ==
    /\ app.op = "idle"
    /\ keys[k] # "deleted"
    /\ keys' = [keys EXCEPT ![k] = IF @ = "usable" THEN "unusable" ELSE "usable"]
    /\ UNCHANGED <<session, instance, launch, shell, net, app, daemon, dormant, faults>>

(* api_key_delete, provider_delete: rows that name the key get NULL (ON    *)
(* DELETE SET NULL); sessions keep naming it.                              *)
DeleteKey(k) ==
    /\ app.op = "idle"
    /\ keys[k] # "deleted"
    /\ keys' = [keys EXCEPT ![k] = "deleted"]
    /\ instance' = [i \in Instances |->
          IF instance[i].key = k THEN [instance[i] EXCEPT !.key = NoKey] ELSE instance[i]]
    /\ UNCHANGED <<session, launch, shell, net, app, daemon, dormant, faults>>

----------------------------------------------------------------------------
(* Time: one heartbeat period passes.  A handler that holds the daemon's   *)
(* mutex takes milliseconds, so no period ends within it.                  *)
Tick ==
    /\ daemon.op \in {"idle", "down"}
    /\ instance' = [i \in Instances |->
          IF Active(i) /\ instance[i].age <= StopAfter
          THEN [instance[i] EXCEPT !.age = @ + 1] ELSE instance[i]]
    /\ UNCHANGED <<session, launch, shell, net, keys, app, daemon, dormant, faults>>

LaunchStep(i) ==
    \/ \E k \in Keys : BeginLaunch(i, k)
    \/ CreateSession(i) \/ CreateInstance(i) \/ RollbackSession(i) \/ OpenTerminal(i)
    \/ MarkLaunchFailed(i) \/ RevokeFailedLaunch(i) \/ LauncherCrash(i)

ShellStep(i) ==
    \/ ShellStart(i) \/ ShellBeat(i) \/ PrelaunchDone(i) \/ PrelaunchFailed(i)
    \/ ChildExit(i) \/ ShellTrap(i) \/ ShellKilled(i)
    \/ \E m \in Messages : PostLost(i, m)

Sweep == SweepBegin \/ SweepLaunching \/ SweepRunning \/ SweepStale \/ SweepSessions

DaemonStep ==
    \/ \E i \in Instances : Heartbeat(i) \/ StopRead(i) \/ AuthSession(i)
    \/ StopMark \/ StopRevoke \/ Sweep
    \/ AuthInstance \/ AuthKey \/ AuthTouch
    \/ DaemonCrash \/ DaemonStart

AppStep ==
    \/ \E i \in Instances, k \in Keys : ReassignCheck(i, k)
    \/ \E c \in Clients : Cleanup(c)
    \/ \E k \in Keys : ToggleKey(k) \/ DeleteKey(k)
    \/ \E i \in Instances : GoDormant(i)
    \/ ReassignCommit \/ CleanupDormant

Next ==
    \/ \E i \in Instances : LaunchStep(i) \/ ShellStep(i)
    \/ DaemonStep
    \/ AppStep
    \/ Tick

Spec == Init /\ [][Next]_vars

(* The sweeper's timer fires and its thread gets the mutex; a handler that *)
(* holds the mutex runs to its end; launchd restarts the daemon; the clock *)
(* advances.  Nothing is assumed of the wrapper, the app or the clients.   *)
Fairness ==
    /\ SF_vars(Tick)
    /\ SF_vars(SweepBegin)
    /\ WF_vars(SweepLaunching \/ SweepRunning \/ SweepStale \/ SweepSessions)
    /\ WF_vars(StopMark \/ StopRevoke)
    /\ WF_vars(AuthInstance \/ AuthKey \/ AuthTouch)
    /\ WF_vars(DaemonStart)

FairSpec == Spec /\ Fairness

----------------------------------------------------------------------------
(* Properties                                                              *)

(* The domains of the variables. *)
TypeOK ==
    /\ session \in [Instances -> SessionRows]
    /\ instance \in [Instances -> InstanceRows]
    /\ launch \in [Instances -> Launches]
    /\ shell \in [Instances -> Shells]
    /\ net \in [Instances -> SUBSET Messages]
    /\ keys \in [Keys -> {"usable", "unusable", "deleted"}]
    /\ app \in AppCommands
    /\ daemon \in DaemonTasks
    /\ dormant \subseteq Instances
    /\ faults \in 0 .. MaxFaults

(* What the proxy accepts: resolve_session_resources wants both rows.      *)
Open(i) == session[i].state = "valid" /\ Active(i)

(* Every writer that revokes a managed session ends its row first, so a    *)
(* revoked token never belongs to a row that still counts as active.  The  *)
(* one exception is a failed launch whose row could not be marked: no      *)
(* wrapper ever ran there, and the sweeper ends the row.                   *)
RevokedMeansOver ==
    \A i \in Instances :
        session[i].state = "revoked" /\ Active(i) =>
            /\ instance[i].status = "launching"
            /\ shell[i].state = "none"
            /\ launch[i].stage = "over"

(* The key the Instances page shows (the row's) is the key the proxy uses  *)
(* (the session's), through hot switches, races with stops and deletions   *)
(* of keys, which leave NULL in the row.                                   *)
AssignmentsAgree ==
    \A i \in Instances :
        instance[i].status # "absent" => instance[i].key \in {session[i].key, NoKey}

(* What the stages of a launch leave behind: nothing before the session,   *)
(* the session alone before the row, no message without a wrapper and no   *)
(* wrapper before the launch is over; only a wrapper gets a row running.   *)
LaunchFootprint ==
    \A i \in Instances :
        /\ launch[i].stage \in {"idle", "prepared"} =>
              session[i].state = "absent" /\ instance[i].status = "absent"
        /\ launch[i].stage \in {"session", "rollback"} =>
              /\ session[i].state = "valid"
              /\ session[i].key = launch[i].key
              /\ instance[i].status = "absent"
        /\ launch[i].stage # "idle" => launch[i].key \in Keys
        /\ session[i].state # "absent" => session[i].key \in Keys
        /\ instance[i].status # "absent" => session[i].state # "absent"
        /\ shell[i].state # "none" => launch[i].stage = "started"
        /\ shell[i].state = "none" =>
              net[i] = {} /\ instance[i].status \notin {"running", "stale"}
        /\ i \in dormant => launch[i].stage \in {"started", "over"}

(* A handler or command that is under way has an instance of its own, and  *)
(* a stop handler about to revoke has an instance that is over.            *)
HandlerFootprint ==
    /\ daemon.op \in {"stopMark", "stopRevoke", "authInstance", "authKey", "authTouch"} =>
          daemon.i \in Instances /\ shell[daemon.i].state # "none"
    /\ daemon.op = "stopRevoke" => ~Active(daemon.i)
    /\ app.op = "reassign" => app.i \in Instances /\ app.key \in Keys

(* The inductive invariant: what the first three need to survive a step.   *)
IInv ==
    /\ TypeOK
    /\ RevokedMeansOver
    /\ AssignmentsAgree
    /\ LaunchFootprint
    /\ HandlerFootprint

(* The session is read, then the row, in two statements that the app may   *)
(* write between: a request that passes both checks belongs to a token     *)
(* that is open at that very moment.                                       *)
AdmittedWhileOpen ==
    [][daemon.op = "authInstance" /\ daemon'.op = "authKey" => Open(daemon.i)]_vars

(* A late heartbeat, a repeated stop or a hot switch never brings an ended *)
(* instance back; the row may only be removed.                             *)
TerminalIsFinal ==
    [][\A i \in Instances :
        Terminal(i) => instance'[i].status \in {instance[i].status, "absent"}]_vars

(* Nothing gives a managed token back: a revoked session stays revoked     *)
(* until its row is removed.                                               *)
RevocationIsFinal ==
    [][\A i \in Instances :
        session[i].state = "revoked" => session'[i].state \in {"revoked", "absent"}]_vars

(* The prelaunch loop's last heartbeat may arrive after the first one of   *)
(* the running client; it never takes the row back to launching.           *)
NoPhaseRegression ==
    [][\A i \in Instances :
        instance[i].status \in {"running", "stale"} => instance'[i].status # "launching"]_vars

(* An open token closes only on its own account: its wrapper sent a stop,  *)
(* its launch failed, it has been silent for longer than the sweeper's     *)
(* limit, the user cleans up its client's idle instances, or it has been   *)
(* unused for thirty days.  No event of another instance closes it.        *)
ClosesOnItsOwnAccount ==
    [][\A i \in Instances :
        Open(i) /\ ~Open(i)' =>
            \/ shell[i].stopSent
            \/ launch[i].stage \in {"failing", "revoking"}
            \/ instance[i].age > StaleAfter
            \/ i \in dormant
            \/ /\ instance[i].status \in {"launching", "stale"}
               /\ \A j \in Instances :
                    instance[j].status \in {"launching", "stale"} /\ instance'[j].status = "absent"
                        => ClientOf[j] = ClientOf[i]]_vars

(* The abstract view: see ManagedAccess.                                   *)
AccessOf(i) ==
    IF Open(i) THEN "open"
    ELSE IF launch[i].stage \in {"idle", "prepared", "session"} THEN "new"
    ELSE "closed"
accessView == [i \in Instances |-> AccessOf(i)]
routeView  == [i \in Instances |-> IF Open(i) THEN session[i].key ELSE NoKey]
Access == INSTANCE ManagedAccess WITH access <- accessView, route <- routeView

(* A managed token opens once, is switched only while open, and never      *)
(* reopens, whatever the app, the daemon and the wrapper do and lose.      *)
ImplementsAccess == Access!Spec

(* A wrapper that is gone, or that never came, does not leave its token    *)
(* usable for ever: the sweeper ends the row even if the stop was lost.    *)
NeverStarts(i) == shell[i].state = "none" /\ launch[i].stage = "over"
GoneIsClosed ==
    \A i \in Instances :
        shell[i].state = "ended" \/ NeverStarts(i) ~> ~Open(i)

(* An ended row's token is revoked in the end even if the handler died, or *)
(* failed, between ending the row and revoking.                            *)
EndedIsRevoked ==
    \A i \in Instances : Terminal(i) ~> session[i].state # "valid"
=============================================================================
