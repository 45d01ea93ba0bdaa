---------------------- MODULE ManagedInstances_proofs ----------------------
(***************************************************************************)
(* Proofs about ManagedInstances, for any number of instances, keys and    *)
(* clients, any limits and any number of faults.                           *)
(***************************************************************************)
EXTENDS ManagedInstances, TLAPS

(***************************************************************************)
(* What the operators on one row return.                                   *)
(***************************************************************************)

LEMMA SessionRowFacts ==
    ASSUME NEW s \in SessionRows
    PROVE  /\ NoSession \in SessionRows
           /\ Revoked(s) \in SessionRows
           /\ \A k \in KeyOrNone : /\ [state |-> "valid", key |-> k] \in SessionRows
                                   /\ [s EXCEPT !.key = k] \in SessionRows
    BY DEF SessionRows, SessionState, KeyOrNone, NoSession, Revoked

LEMMA InstanceRowFacts ==
    ASSUME NEW r \in InstanceRows
    PROVE  /\ NoRow \in InstanceRows
           /\ \A k \in KeyOrNone :
                /\ [status |-> "launching", key |-> k, age |-> 0] \in InstanceRows
                /\ [r EXCEPT !.key = k] \in InstanceRows
           /\ \A x \in ActiveStatus \cup TerminalStatus : [r EXCEPT !.status = x] \in InstanceRows
           /\ \A x \in TerminalStatus : MarkedStopped(r, x) \in InstanceRows
           /\ \A x \in Phases : TouchHeartbeat(r, x) \in InstanceRows
           /\ r.age <= StopAfter => [r EXCEPT !.age = @ + 1] \in InstanceRows
<1> USE ConstantsAssumption DEF InstanceRows, KeyOrNone, Ages
<1>1. NoRow \in InstanceRows
    BY DEF NoRow
<1>2. ASSUME NEW k \in KeyOrNone
      PROVE  /\ [status |-> "launching", key |-> k, age |-> 0] \in InstanceRows
             /\ [r EXCEPT !.key = k] \in InstanceRows
    BY DEF ActiveStatus
<1>3. ASSUME NEW x \in ActiveStatus \cup TerminalStatus
      PROVE  [r EXCEPT !.status = x] \in InstanceRows
    OBVIOUS
<1>4. ASSUME NEW x \in ActiveStatus \cup TerminalStatus
      PROVE  Stamped(r, x) \in InstanceRows
    BY DEF Stamped
<1>5. ASSUME NEW x \in TerminalStatus PROVE MarkedStopped(r, x) \in InstanceRows
    BY <1>4 DEF MarkedStopped
<1>6. ASSUME NEW x \in Phases PROVE TouchHeartbeat(r, x) \in InstanceRows
    BY <1>4 DEF TouchHeartbeat, Phases, ActiveStatus
<1>7. r.age <= StopAfter => [r EXCEPT !.age = @ + 1] \in InstanceRows
    OBVIOUS
<1> QED BY <1>1, <1>2, <1>3, <1>5, <1>6, <1>7

LEMMA ProcessFacts ==
    /\ AppIdle \in AppCommands
    /\ \A op \in DaemonOp : DaemonAt(op) \in DaemonTasks
    /\ DaemonIdle \in DaemonTasks
    /\ \A l \in Launches, x \in LaunchStage : [l EXCEPT !.stage = x] \in Launches
    /\ \A s \in Shells, x \in ShellState : [s EXCEPT !.state = x] \in Shells
    /\ \A p \in Phases : HeartbeatOf(p) \in Messages
    /\ \A x \in TerminalStatus : StopOf(x) \in Messages
<1>1. AppIdle \in AppCommands
    BY DEF AppIdle, AppCommands, AppOp, KeyOrNone
<1>2. \A op \in DaemonOp : DaemonAt(op) \in DaemonTasks
    BY DEF DaemonAt, DaemonOn, DaemonTasks, KeyOrNone, TerminalStatus
<1>3. DaemonIdle \in DaemonTasks
    BY <1>2 DEF DaemonIdle, DaemonOp
<1>4. \A l \in Launches, x \in LaunchStage : [l EXCEPT !.stage = x] \in Launches
    BY DEF Launches
<1>5. \A s \in Shells, x \in ShellState : [s EXCEPT !.state = x] \in Shells
    BY DEF Shells
<1>6. \A p \in Phases : HeartbeatOf(p) \in Messages
    BY DEF HeartbeatOf, Messages, Heartbeats
<1>7. \A x \in TerminalStatus : StopOf(x) \in Messages
    BY DEF StopOf, Messages, Stops
<1> QED BY <1>1, <1>2, <1>3, <1>4, <1>5, <1>6, <1>7

(***************************************************************************)
(* Types.                                                                  *)
(***************************************************************************)

LEMMA SetStageType ==
    ASSUME TypeOK, NEW i \in Instances, NEW x \in LaunchStage, SetStage(i, x)
    PROVE  launch' \in [Instances -> Launches]
    BY ProcessFacts DEF TypeOK, SetStage

LEMMA ReleaseType ==
    ASSUME TypeOK, NEW i, ReleaseIfApp(i)
    PROVE  app' \in AppCommands
    BY ProcessFacts DEF TypeOK, ReleaseIfApp

LEMMA FaultType ==
    ASSUME TypeOK, Fault \/ NoFault
    PROVE  faults' \in 0 .. MaxFaults
    BY ConstantsAssumption DEF TypeOK, Fault, NoFault

LEMMA LaunchKeepsTypes ==
    ASSUME TypeOK, NEW i \in Instances, LaunchStep(i)
    PROVE  TypeOK'
<1>0. /\ \A s \in LaunchStage : SetStage(i, s) => launch' \in [Instances -> Launches]
      /\ ReleaseIfApp(i) => app' \in AppCommands
      /\ Fault \/ NoFault => faults' \in 0 .. MaxFaults
    BY SetStageType, ReleaseType, FaultType
<1>1. ASSUME NEW k \in Keys, BeginLaunch(i, k) PROVE TypeOK'
    <2>1. [stage |-> "prepared", key |-> k] \in Launches
        BY DEF Launches, LaunchStage, KeyOrNone
    <2>2. [op |-> "launch", i |-> i, key |-> k] \in AppCommands
        BY DEF AppCommands, AppOp, KeyOrNone
    <2> QED BY <1>1, <2>1, <2>2 DEF TypeOK, BeginLaunch
<1>2. CASE CreateSession(i)
    <2>1. launch[i].key \in KeyOrNone
        BY DEF TypeOK, Launches
    <2>2. session' \in [Instances -> SessionRows]
        BY <1>2, <2>1, SessionRowFacts DEF TypeOK, CreateSession
    <2> QED BY <1>0, <1>2, <2>2 DEF TypeOK, CreateSession, LaunchStage
<1>3. CASE CreateInstance(i)
    <2>1. launch[i].key \in KeyOrNone
        BY DEF TypeOK, Launches
    <2>2. instance' \in [Instances -> InstanceRows]
        BY <1>3, <2>1, InstanceRowFacts DEF TypeOK, CreateInstance
    <2> QED BY <1>0, <1>3, <2>2 DEF TypeOK, CreateInstance, LaunchStage
<1>4. CASE RollbackSession(i)
    <2>1. session' \in [Instances -> SessionRows]
        BY <1>4, SessionRowFacts DEF TypeOK, RollbackSession
    <2> QED BY <1>0, <1>4, <2>1 DEF TypeOK, RollbackSession, LaunchStage
<1>5. CASE OpenTerminal(i)
    BY <1>0, <1>5 DEF TypeOK, OpenTerminal, LaunchStage
<1>6. CASE MarkLaunchFailed(i)
    <2>1. MarkedStopped(instance[i], "failed") \in InstanceRows
        BY InstanceRowFacts DEF TypeOK, TerminalStatus
    <2>2. instance' \in [Instances -> InstanceRows]
        BY <1>6, <2>1 DEF TypeOK, MarkLaunchFailed
    <2> QED BY <1>0, <1>6, <2>2 DEF TypeOK, MarkLaunchFailed, LaunchStage
<1>7. CASE RevokeFailedLaunch(i)
    <2>1. session' \in [Instances -> SessionRows]
        BY <1>7, SessionRowFacts DEF TypeOK, RevokeFailedLaunch
    <2> QED BY <1>0, <1>7, <2>1 DEF TypeOK, RevokeFailedLaunch, LaunchStage
<1>8. CASE LauncherCrash(i)
    BY <1>0, <1>8 DEF TypeOK, LauncherCrash, LaunchStage
<1> QED BY <1>1, <1>2, <1>3, <1>4, <1>5, <1>6, <1>7, <1>8 DEF LaunchStep

LEMMA ShellKeepsTypes ==
    ASSUME TypeOK, NEW i \in Instances, ShellStep(i)
    PROVE  TypeOK'
<1>1. \A m \in Messages : Post(i, m) => net' \in [Instances -> SUBSET Messages]
    BY DEF TypeOK, Post
<1>2. \A x \in ShellState : ShellTo(i, x) => shell' \in [Instances -> Shells]
    BY ProcessFacts DEF TypeOK, ShellTo
<1>3. \A x \in TerminalStatus : StopOnce(i, x) => net' \in [Instances -> SUBSET Messages]
    BY ProcessFacts DEF TypeOK, StopOnce
<1>4. \A x \in {"launching", "ended"} : [state |-> x, stopSent |-> TRUE] \in Shells
    BY DEF Shells, ShellState
<1>5. CASE ShellStart(i)
    BY <1>1, <1>2, <1>5, ProcessFacts DEF TypeOK, ShellStart, Phases, ShellState
<1>6. CASE ShellBeat(i)
    BY <1>1, <1>6, ProcessFacts DEF TypeOK, ShellBeat, ShellUp
<1>7. CASE PrelaunchDone(i)
    BY <1>1, <1>2, <1>7, ProcessFacts DEF TypeOK, PrelaunchDone, Phases, ShellState
<1>8. CASE PrelaunchFailed(i)
    BY <1>3, <1>4, <1>8 DEF TypeOK, PrelaunchFailed, TerminalStatus
<1>9. CASE ChildExit(i)
    BY <1>3, <1>4, <1>9 DEF TypeOK, ChildExit, TerminalStatus
<1>10. CASE ShellTrap(i)
    BY <1>3, <1>4, <1>10 DEF TypeOK, ShellTrap, TerminalStatus
<1>11. CASE ShellKilled(i)
    BY <1>2, <1>11 DEF TypeOK, ShellKilled, ShellState
<1>12. ASSUME NEW m \in Messages, PostLost(i, m) PROVE TypeOK'
    BY <1>12 DEF TypeOK, PostLost
<1> QED
    BY <1>5, <1>6, <1>7, <1>8, <1>9, <1>10, <1>11, <1>12 DEF ShellStep

LEMMA DaemonKeepsTypes ==
    ASSUME TypeOK, DaemonStep
    PROVE  TypeOK'
<1> USE DEF DaemonOp
<1>0. Fault \/ NoFault => faults' \in 0 .. MaxFaults
    BY FaultType
<1>1. ASSUME NEW i \in Instances, Heartbeat(i) PROVE TypeOK'
    <2>1. PICK p \in Phases : /\ Receive(i, HeartbeatOf(p))
                              /\ instance' = [instance EXCEPT ![i] = TouchHeartbeat(@, p)]
        BY <1>1 DEF Heartbeat
    <2>2. TouchHeartbeat(instance[i], p) \in InstanceRows
        BY InstanceRowFacts DEF TypeOK
    <2> QED BY <1>1, <2>1, <2>2 DEF TypeOK, Heartbeat, Receive
<1>2. ASSUME NEW i \in Instances, StopRead(i) PROVE TypeOK'
    <2>1. PICK x \in TerminalStatus :
              /\ Receive(i, StopOf(x))
              /\ daemon' = IF Active(i)
                           THEN DaemonOn("stopMark", i, NoKey, x)
                           ELSE IF Terminal(i) THEN DaemonOn("stopRevoke", i, NoKey, "stopped")
                           ELSE daemon
        BY <1>2 DEF StopRead
    <2>4. daemon' \in DaemonTasks
        BY <2>1 DEF TypeOK, DaemonOn, DaemonTasks, KeyOrNone, TerminalStatus
    <2> QED BY <1>2, <2>1, <2>4 DEF TypeOK, StopRead, Receive
<1>3. ASSUME NEW i \in Instances, AuthSession(i) PROVE TypeOK'
    <2>2. session[i].key \in KeyOrNone
        BY DEF TypeOK, SessionRows
    <2>3. daemon' \in DaemonTasks
        BY <1>3, <2>2 DEF DaemonOn, DaemonTasks, TerminalStatus, AuthSession
    <2> QED BY <1>3, <2>3 DEF TypeOK, AuthSession
<1>4. CASE StopMark
    <2>1. MarkedStopped(instance[daemon.i], daemon.final) \in InstanceRows
             \/ daemon.i \notin Instances
        <3>1. daemon.final \in TerminalStatus
            BY DEF TypeOK, DaemonTasks
        <3> QED BY <3>1, InstanceRowFacts DEF TypeOK
    <2>2. instance' \in [Instances -> InstanceRows]
        BY <1>4, <2>1 DEF TypeOK, StopMark
    <2>3. DaemonOn("stopRevoke", daemon.i, NoKey, "stopped") \in DaemonTasks
        BY DEF TypeOK, DaemonOn, DaemonTasks, KeyOrNone, TerminalStatus
    <2> QED BY <1>0, <1>4, <2>2, <2>3, ProcessFacts DEF TypeOK, StopMark
<1>5. CASE StopRevoke
    <2>1. Revoked(session[daemon.i]) \in SessionRows \/ daemon.i \notin Instances
        BY SessionRowFacts DEF TypeOK
    <2>2. session' \in [Instances -> SessionRows]
        BY <1>5, <2>1 DEF TypeOK, StopRevoke
    <2> QED BY <1>0, <1>5, <2>2, ProcessFacts DEF TypeOK, StopRevoke
<1>6. CASE SweepBegin
    BY <1>6, ProcessFacts DEF TypeOK, SweepBegin
<1>7. ASSUME NEW op, NEW next \in DaemonOp, NEW status, NEW limit,
             NEW result \in ActiveStatus \cup TerminalStatus,
             SweepRows(op, next, status, limit, result)
      PROVE  TypeOK'
    <2>1. \A i \in Instances : [instance[i] EXCEPT !.status = result] \in InstanceRows
        BY InstanceRowFacts DEF TypeOK
    <2>2. instance' \in [Instances -> InstanceRows]
        BY <1>7, <2>1 DEF TypeOK, SweepRows
    <2> QED BY <1>0, <1>7, <2>2, ProcessFacts DEF TypeOK, SweepRows
<1>8. CASE SweepLaunching
    BY <1>7, <1>8 DEF SweepLaunching, TerminalStatus
<1>9. CASE SweepRunning
    BY <1>7, <1>9 DEF SweepRunning, ActiveStatus
<1>10. CASE SweepStale
    BY <1>7, <1>10 DEF SweepStale, TerminalStatus
<1>11. CASE SweepSessions
    <2>1. \A i \in Instances : Revoked(session[i]) \in SessionRows
        BY SessionRowFacts DEF TypeOK
    <2>2. session' \in [Instances -> SessionRows]
        BY <1>11, <2>1 DEF TypeOK, SweepSessions
    <2> QED BY <1>0, <1>11, <2>2, ProcessFacts DEF TypeOK, SweepSessions
<1>12. \A op \in DaemonOp : [daemon EXCEPT !.op = op] \in DaemonTasks
    BY DEF TypeOK, DaemonTasks
<1>13. CASE AuthInstance
    BY <1>12, <1>13, ProcessFacts DEF TypeOK, AuthInstance
<1>14. CASE AuthKey
    BY <1>12, <1>14, ProcessFacts DEF TypeOK, AuthKey
<1>15. CASE AuthTouch
    BY <1>15, ProcessFacts DEF TypeOK, AuthTouch
<1>16. CASE DaemonCrash
    BY <1>0, <1>16, ProcessFacts DEF TypeOK, DaemonCrash
<1>17. CASE DaemonStart
    BY <1>17, ProcessFacts DEF TypeOK, DaemonStart
<1> QED
    BY <1>1, <1>2, <1>3, <1>4, <1>5, <1>6, <1>8, <1>9, <1>10, <1>11, <1>13, <1>14,
       <1>15, <1>16, <1>17 DEF DaemonStep, Sweep

LEMMA AppKeepsTypes ==
    ASSUME TypeOK, AppStep
    PROVE  TypeOK'
<1>0. Fault \/ NoFault => faults' \in 0 .. MaxFaults
    BY FaultType
<1>1. /\ \A i \in Instances : Revoked(session[i]) \in SessionRows
      /\ NoSession \in SessionRows \/ Instances = {}
      /\ NoRow \in InstanceRows \/ Instances = {}
      /\ \A i \in Instances, k \in KeyOrNone :
            /\ [session[i] EXCEPT !.key = k] \in SessionRows
            /\ [instance[i] EXCEPT !.key = k] \in InstanceRows
    BY SessionRowFacts, InstanceRowFacts DEF TypeOK
<1>2. ASSUME NEW i \in Instances, NEW k \in Keys, ReassignCheck(i, k) PROVE TypeOK'
    <2>1. [op |-> "reassign", i |-> i, key |-> k] \in AppCommands
        BY DEF AppCommands, AppOp, KeyOrNone
    <2> QED BY <1>2, <2>1 DEF TypeOK, ReassignCheck
<1>3. CASE ReassignCommit
    <2>1. app.key \in KeyOrNone
        BY DEF TypeOK, AppCommands
    <2>2. session' \in [Instances -> SessionRows]
        BY <1>1, <1>3, <2>1 DEF TypeOK, ReassignCommit
    <2>3. instance' \in [Instances -> InstanceRows]
        BY <1>1, <1>3, <2>1 DEF TypeOK, ReassignCommit
    <2> QED BY <1>0, <1>3, <2>2, <2>3, ProcessFacts DEF TypeOK, ReassignCommit
<1>4. ASSUME NEW c \in Clients, Cleanup(c) PROVE TypeOK'
    <2>1. session' \in [Instances -> SessionRows]
        BY <1>1, <1>4 DEF TypeOK, Cleanup
    <2>2. instance' \in [Instances -> InstanceRows]
        BY <1>1, <1>4 DEF TypeOK, Cleanup
    <2> QED BY <1>4, <2>1, <2>2 DEF TypeOK, Cleanup
<1>5. ASSUME NEW k \in Keys, ToggleKey(k) PROVE TypeOK'
    BY <1>5 DEF TypeOK, ToggleKey
<1>6. ASSUME NEW k \in Keys, DeleteKey(k) PROVE TypeOK'
    <2>1. instance' \in [Instances -> InstanceRows]
        BY <1>1, <1>6 DEF TypeOK, DeleteKey, KeyOrNone
    <2> QED BY <1>6, <2>1 DEF TypeOK, DeleteKey
<1>7. ASSUME NEW i \in Instances, GoDormant(i) PROVE TypeOK'
    BY <1>0, <1>7 DEF TypeOK, GoDormant
<1>8. CASE CleanupDormant
    <2>1. session' \in [Instances -> SessionRows]
        BY <1>1, <1>8 DEF TypeOK, CleanupDormant
    <2>2. instance' \in [Instances -> InstanceRows]
        BY <1>1, <1>8 DEF TypeOK, CleanupDormant
    <2> QED BY <1>8, <2>1, <2>2 DEF TypeOK, CleanupDormant
<1> QED BY <1>2, <1>3, <1>4, <1>5, <1>6, <1>7, <1>8 DEF AppStep

LEMMA TickKeepsTypes ==
    ASSUME TypeOK, Tick
    PROVE  TypeOK'
<1>1. \A i \in Instances :
         instance[i].age <= StopAfter => [instance[i] EXCEPT !.age = @ + 1] \in InstanceRows
    BY InstanceRowFacts DEF TypeOK
<1>2. instance' \in [Instances -> InstanceRows]
    BY <1>1 DEF TypeOK, Tick
<1> QED BY <1>2 DEF TypeOK, Tick

(* Every variable keeps its domain: in particular no row takes a status    *)
(* outside the five of the code, and no age outgrows the sweeper's limit.  *)
THEOREM TypeCorrect == Spec => []TypeOK
<1>1. Init => TypeOK
    <2> USE ConstantsAssumption
    <2> SUFFICES ASSUME Init PROVE TypeOK
        OBVIOUS
    <2>1. NoSession \in SessionRows /\ NoRow \in InstanceRows
        BY DEF NoSession, SessionRows, SessionState, KeyOrNone, NoRow, InstanceRows, Ages
    <2>2. [stage |-> "idle", key |-> NoKey] \in Launches
        BY DEF Launches, LaunchStage, KeyOrNone
    <2>3. [state |-> "none", stopSent |-> FALSE] \in Shells
        BY DEF Shells, ShellState
    <2> QED BY <2>1, <2>2, <2>3, ProcessFacts DEF Init, TypeOK
<1>2. TypeOK /\ [Next]_vars => TypeOK'
    <2> SUFFICES ASSUME TypeOK, [Next]_vars PROVE TypeOK'
        OBVIOUS
    <2>1. CASE Next
        BY <2>1, LaunchKeepsTypes, ShellKeepsTypes, DaemonKeepsTypes, AppKeepsTypes,
           TickKeepsTypes DEF Next
    <2>2. CASE UNCHANGED vars
        BY <2>2 DEF vars, TypeOK
    <2> QED BY <2>1, <2>2
<1> QED BY <1>1, <1>2, PTL DEF Spec

(***************************************************************************)
(* The inductive invariant.                                                *)
(***************************************************************************)

(* What each statement does to the two rows of an instance.                *)

LEMMA RevokedFields ==
    ASSUME NEW s \in SessionRows
    PROVE  /\ Revoked(s).key = s.key
           /\ Revoked(s).state = IF s.state = "valid" THEN "revoked" ELSE s.state
    BY DEF SessionRows, Revoked

LEMMA NoRowFields == NoSession.state = "absent" /\ NoRow.status = "absent"
    BY DEF NoSession, NoRow

LEMMA MarkedStoppedFields ==
    ASSUME NEW r \in InstanceRows, NEW x
    PROVE  /\ MarkedStopped(r, x).key = r.key
           /\ MarkedStopped(r, x).status = IF r.status \in ActiveStatus THEN x ELSE r.status
    BY DEF InstanceRows, MarkedStopped, Stamped

LEMMA TouchHeartbeatFields ==
    ASSUME NEW r \in InstanceRows, NEW p \in Phases
    PROVE  /\ TouchHeartbeat(r, p).key = r.key
           /\ \/ TouchHeartbeat(r, p).status = r.status
              \/ /\ r.status \in ActiveStatus
                 /\ TouchHeartbeat(r, p).status = p
                 /\ p = "launching" => r.status = "launching"
    BY DEF InstanceRows, TouchHeartbeat, Stamped

LEMMA SetStageAt ==
    ASSUME TypeOK, NEW i \in Instances, NEW x, SetStage(i, x)
    PROVE  \A j \in Instances : /\ launch'[j].key = launch[j].key
                                /\ launch'[j].stage = IF j = i THEN x ELSE launch[j].stage
    BY DEF TypeOK, Launches, SetStage

LEMMA MarkLaunchFailedAt ==
    ASSUME TypeOK, NEW i \in Instances, MarkLaunchFailed(i), NEW j \in Instances
    PROVE  /\ instance'[j].key = instance[j].key
           /\ \/ instance'[j].status = instance[j].status
              \/ /\ j = i /\ Active(j)
                 /\ instance'[j].status = "failed"
<1>1. \/ instance'[j] = instance[j]
      \/ instance'[j] = IF j = i THEN MarkedStopped(instance[j], "failed") ELSE instance[j]
    <2>1. instance' = instance \/ instance' = [instance EXCEPT ![i] = MarkedStopped(@, "failed")]
        BY DEF MarkLaunchFailed
    <2>2. instance \in [Instances -> InstanceRows]
        BY DEF TypeOK
    <2> QED BY <2>1, <2>2
<1>2. instance[j] \in InstanceRows
    BY DEF TypeOK
<1> QED BY <1>1, <1>2, MarkedStoppedFields DEF Active

LEMMA HeartbeatAt ==
    ASSUME TypeOK, NEW i \in Instances, Heartbeat(i), NEW j \in Instances
    PROVE  /\ net[i] # {}
           /\ net[j] = {} => net'[j] = {}
           /\ j # i => instance'[j] = instance[j]
           /\ instance'[j].key = instance[j].key
           /\ \/ instance'[j].status = instance[j].status
              \/ /\ Active(j)
                 /\ instance'[j].status \in Phases
                 /\ instance'[j].status = "launching" => instance[j].status = "launching"
<1>1. PICK p \in Phases : /\ Receive(i, HeartbeatOf(p))
                          /\ instance' = [instance EXCEPT ![i] = TouchHeartbeat(@, p)]
    BY DEF Heartbeat
<1>2. net[i] # {} /\ (net[j] = {} => net'[j] = {})
    BY <1>1 DEF TypeOK, Receive
<1>3. instance[j] \in InstanceRows
    BY DEF TypeOK
<1>4. instance'[j] = IF j = i THEN TouchHeartbeat(instance[j], p) ELSE instance[j]
    BY <1>1 DEF TypeOK
<1>5. CASE j # i
    BY <1>2, <1>4, <1>5
<1>6. CASE j = i
    BY <1>2, <1>3, <1>4, <1>6, TouchHeartbeatFields DEF Active
<1> QED BY <1>5, <1>6

LEMMA StopMarkAt ==
    ASSUME TypeOK, StopMark, NEW j \in Instances
    PROVE  /\ instance'[j].key = instance[j].key
           /\ \/ instance'[j].status = instance[j].status
              \/ Active(j) /\ instance'[j].status \in TerminalStatus
           /\ daemon'.op # "idle" =>
                 /\ daemon'.op = "stopRevoke" /\ daemon'.i = daemon.i
                 /\ j = daemon.i => instance'[j].status \in TerminalStatus
<1>1. daemon.final \in TerminalStatus /\ instance[j] \in InstanceRows
    BY DEF TypeOK, DaemonTasks
<1>2. \/ /\ instance'[j] = IF j = daemon.i THEN MarkedStopped(instance[j], daemon.final)
                           ELSE instance[j]
         /\ Active(daemon.i)
         /\ daemon'.op = "stopRevoke" /\ daemon'.i = daemon.i
      \/ instance'[j] = instance[j] /\ daemon'.op = "idle"
    BY DEF TypeOK, StopMark, DaemonIdle, DaemonAt, DaemonOn
<1> QED BY <1>1, <1>2, MarkedStoppedFields DEF Active

LEMMA SweepRowsAt ==
    ASSUME TypeOK, NEW op, NEW next, NEW status, NEW limit, NEW result,
           SweepRows(op, next, status, limit, result), NEW j \in Instances
    PROVE  /\ instance'[j].key = instance[j].key
           /\ \/ instance'[j].status = instance[j].status
              \/ instance[j].status = status /\ instance'[j].status = result
<1>1. instance[j] \in InstanceRows
    BY DEF TypeOK
<1>2. \/ instance'[j] = instance[j]
      \/ /\ instance[j].status = status
         /\ instance'[j] = [instance[j] EXCEPT !.status = result]
    BY DEF TypeOK, SweepRows
<1> QED BY <1>1, <1>2 DEF SessionRows, InstanceRows

LEMMA SweepSessionsAt ==
    ASSUME TypeOK, SweepSessions, NEW j \in Instances
    PROVE  /\ session'[j].key = session[j].key
           /\ \/ session'[j].state = session[j].state
              \/ /\ instance[j].status \in TerminalStatus
                 /\ session'[j].state = "revoked" /\ session[j].state = "valid"
<1>1. session[j] \in SessionRows
    BY DEF TypeOK
<1>2. \/ session'[j] = session[j]
      \/ session'[j] = IF Terminal(j) THEN Revoked(session[j]) ELSE session[j]
    <2>1. \/ session' = session
          \/ session' = [k \in Instances |-> IF Terminal(k) THEN Revoked(session[k]) ELSE session[k]]
        BY DEF SweepSessions
    <2> QED BY <2>1
<1> QED BY <1>1, <1>2, RevokedFields DEF Terminal

LEMMA RevokeAt ==
    ASSUME TypeOK, NEW i, session' = [session EXCEPT ![i] = Revoked(@)], NEW j \in Instances
    PROVE  /\ session'[j].key = session[j].key
           /\ \/ session'[j].state = session[j].state
              \/ j = i /\ session'[j].state = "revoked" /\ session[j].state = "valid"
<1>1. session[j] \in SessionRows
    BY DEF TypeOK
<1>2. session \in [Instances -> SessionRows]
    BY DEF TypeOK
<1>3. session'[j] = IF j = i THEN Revoked(session[j]) ELSE session[j]
    BY <1>2
<1> QED BY <1>1, <1>3, RevokedFields

LEMMA ReassignCommitAt ==
    ASSUME TypeOK, ReassignCommit, NEW j \in Instances
    PROVE  /\ session'[j].state = session[j].state
           /\ instance'[j].status = instance[j].status
           /\ \/ session'[j].key = session[j].key /\ instance'[j].key = instance[j].key
              \/ /\ j = app.i /\ Active(j) /\ session[j].state = "valid"
                 /\ session'[j].key = app.key /\ instance'[j].key = app.key
<1>1. session[j] \in SessionRows /\ instance[j] \in InstanceRows
    BY DEF TypeOK
<1>2. \/ session'[j] = session[j] /\ instance'[j] = instance[j]
      \/ /\ j = app.i /\ Active(j) /\ session[j].state = "valid"
         /\ session'[j] = [session[j] EXCEPT !.key = app.key]
         /\ instance'[j] = [instance[j] EXCEPT !.key = app.key]
    BY DEF TypeOK, ReassignCommit
<1> QED BY <1>1, <1>2 DEF SessionRows, InstanceRows

LEMMA CleanupAt ==
    ASSUME TypeOK, NEW c, Cleanup(c), NEW j \in Instances
    PROVE  \/ session'[j] = session[j] /\ instance'[j] = instance[j]
           \/ /\ instance'[j].status = "absent" /\ instance[j].status # "absent"
              /\ session'[j].key = session[j].key
              /\ \/ session'[j].state = session[j].state
                 \/ session'[j].state = "revoked" /\ session[j].state = "valid"
<1>1. session[j] \in SessionRows
    BY DEF TypeOK
<1>2. \/ session'[j] = session[j] /\ instance'[j] = instance[j]
      \/ /\ j \in CleanedUp(c)
         /\ instance'[j] = NoRow /\ session'[j] = Revoked(session[j])
    BY DEF TypeOK, Cleanup
<1>3. j \in CleanedUp(c) => instance[j].status # "absent"
    BY DEF CleanedUp, TerminalStatus
<1> QED BY <1>1, <1>2, <1>3, RevokedFields, NoRowFields

LEMMA DeleteKeyAt ==
    ASSUME TypeOK, NEW k, DeleteKey(k), NEW j \in Instances
    PROVE  /\ instance'[j].status = instance[j].status
           /\ instance'[j].key \in {instance[j].key, NoKey}
<1>1. instance[j] \in InstanceRows
    BY DEF TypeOK
<1>2. instance'[j] = instance[j] \/ instance'[j] = [instance[j] EXCEPT !.key = NoKey]
    BY DEF TypeOK, DeleteKey
<1> QED BY <1>1, <1>2 DEF SessionRows, InstanceRows

LEMMA TickAt ==
    ASSUME TypeOK, Tick, NEW j \in Instances
    PROVE  /\ instance'[j].status = instance[j].status
           /\ instance'[j].key = instance[j].key
<1>1. instance[j] \in InstanceRows
    BY DEF TypeOK
<1>2. instance'[j] = instance[j] \/ instance'[j] = [instance[j] EXCEPT !.age = @ + 1]
    BY DEF TypeOK, Tick
<1> QED BY <1>1, <1>2 DEF SessionRows, InstanceRows

(* What IInv adds to the types.                                            *)
Parts == RevokedMeansOver /\ AssignmentsAgree /\ LaunchFootprint /\ HandlerFootprint

LEMMA LaunchKeepsParts ==
    ASSUME TypeOK, Parts, NEW i \in Instances, LaunchStep(i)
    PROVE  Parts'
<1> USE DEF Parts, RevokedMeansOver, AssignmentsAgree, LaunchFootprint, HandlerFootprint,
            Active, ActiveStatus
<1>0. /\ session \in [Instances -> SessionRows]
      /\ instance \in [Instances -> InstanceRows]
      /\ launch \in [Instances -> Launches]
      /\ shell \in [Instances -> Shells]
    BY DEF TypeOK
<1>a. \A x : SetStage(i, x) =>
          \A j \in Instances : /\ launch'[j].key = launch[j].key
                               /\ launch'[j].stage = IF j = i THEN x ELSE launch[j].stage
    BY SetStageAt
<1>b. ReleaseIfApp(i) => (app'.op = "reassign" => app' = app)
    BY DEF ReleaseIfApp, AppIdle
<1>1. ASSUME NEW k \in Keys, BeginLaunch(i, k) PROVE Parts'
    BY <1>0, <1>1 DEF BeginLaunch
<1>2. CASE CreateSession(i)
    BY <1>0, <1>a, <1>b, <1>2 DEF CreateSession
<1>3. CASE CreateInstance(i)
    <2>1. \A j \in Instances :
              \/ instance'[j] = instance[j] /\ (j = i => launch'[j].stage = "rollback")
              \/ /\ j = i
                 /\ instance'[j].status = "launching"
                 /\ instance'[j].key = launch[j].key
                 /\ launch'[j].stage = "instance"
        BY <1>0, <1>a, <1>3 DEF CreateInstance
    <2>2. LaunchFootprint'
        BY <1>0, <1>a, <1>3, <2>1 DEF CreateInstance
    <2>3. HandlerFootprint'
        BY <1>0, <1>3, <2>1 DEF CreateInstance
    <2>4. AssignmentsAgree'
        BY <1>0, <1>3, <2>1 DEF CreateInstance
    <2>5. RevokedMeansOver'
        BY <1>0, <1>a, <1>3, <2>1 DEF CreateInstance
    <2> QED BY <2>2, <2>3, <2>4, <2>5
<1>4. CASE RollbackSession(i)
    BY <1>0, <1>a, <1>b, <1>4 DEF RollbackSession, NoSession
<1>5. CASE OpenTerminal(i)
    BY <1>0, <1>a, <1>b, <1>5 DEF OpenTerminal
<1>6. CASE MarkLaunchFailed(i)
    <2>1. \A j \in Instances :
              /\ instance'[j].key = instance[j].key
              /\ \/ instance'[j].status = instance[j].status
                 \/ j = i /\ Active(j) /\ instance'[j].status = "failed"
        BY <1>6, MarkLaunchFailedAt
    <2>2. LaunchFootprint'
        BY <1>0, <1>a, <1>6, <2>1 DEF MarkLaunchFailed
    <2>3. HandlerFootprint'
        BY <1>0, <1>6, <2>1 DEF MarkLaunchFailed
    <2>4. AssignmentsAgree'
        BY <1>0, <1>6, <2>1 DEF MarkLaunchFailed
    <2>5. RevokedMeansOver'
        BY <1>0, <1>a, <1>6, <2>1 DEF MarkLaunchFailed
    <2> QED BY <2>2, <2>3, <2>4, <2>5
<1>7. CASE RevokeFailedLaunch(i)
    <2>1. \A j \in Instances :
              /\ session'[j].key = session[j].key
              /\ \/ session'[j].state = session[j].state
                 \/ j = i /\ session'[j].state = "revoked" /\ session[j].state = "valid"
        BY <1>7, RevokeAt DEF RevokeFailedLaunch
    <2> QED BY <1>0, <1>a, <1>b, <1>7, <2>1 DEF RevokeFailedLaunch
<1>8. CASE LauncherCrash(i)
    BY <1>0, <1>a, <1>b, <1>8 DEF LauncherCrash
<1> QED BY <1>1, <1>2, <1>3, <1>4, <1>5, <1>6, <1>7, <1>8 DEF LaunchStep

LEMMA ShellKeepsParts ==
    ASSUME TypeOK, Parts, NEW i \in Instances, ShellStep(i)
    PROVE  Parts'
<1> USE DEF Parts, RevokedMeansOver, AssignmentsAgree, LaunchFootprint, HandlerFootprint,
            Active
<1>1. /\ UNCHANGED <<session, instance, launch, app, daemon, dormant>>
      /\ i \in Instances
      /\ \A j \in Instances : j # i => shell'[j] = shell[j] /\ net'[j] = net[j]
      /\ shell'[i].state = "none" => net'[i] = {}
      /\ shell[i].state # "none" => shell'[i].state # "none"
      /\ shell'[i].state # "none" => launch[i].stage = "started"
    <2> USE DEF TypeOK, Shells, Phases, Post, ShellTo, ShellUp, StopOnce
    <2>1. CASE ShellStart(i) BY <2>1 DEF ShellStart
    <2>2. CASE ShellBeat(i) BY <2>2 DEF ShellBeat
    <2>3. CASE PrelaunchDone(i) BY <2>3 DEF PrelaunchDone
    <2>4. CASE PrelaunchFailed(i) BY <2>4 DEF PrelaunchFailed
    <2>5. CASE ChildExit(i) BY <2>5 DEF ChildExit
    <2>6. CASE ShellTrap(i) BY <2>6 DEF ShellTrap
    <2>7. CASE ShellKilled(i) BY <2>7 DEF ShellKilled
    <2>8. ASSUME NEW m \in Messages, PostLost(i, m)
          PROVE  /\ UNCHANGED <<session, instance, launch, shell, app, daemon, dormant>>
                 /\ net' = [net EXCEPT ![i] = @ \ {m}]
        BY <2>8 DEF PostLost
    <2> QED BY <2>1, <2>2, <2>3, <2>4, <2>5, <2>6, <2>7, <2>8 DEF ShellStep
<1> QED BY <1>1

LEMMA DaemonKeepsParts ==
    ASSUME TypeOK, Parts, DaemonStep
    PROVE  Parts'
<1> USE DEF Parts, RevokedMeansOver, AssignmentsAgree, LaunchFootprint, HandlerFootprint,
            Active, ActiveStatus
<1>0. /\ session \in [Instances -> SessionRows]
      /\ instance \in [Instances -> InstanceRows]
      /\ net \in [Instances -> SUBSET Messages]
    BY DEF TypeOK
<1>1. ASSUME NEW i \in Instances, Heartbeat(i) PROVE Parts'
    <2>1. /\ shell[i].state # "none"
          /\ \A j \in Instances :
                /\ net[j] = {} => net'[j] = {}
                /\ j # i => instance'[j] = instance[j]
                /\ instance'[j].key = instance[j].key
                /\ \/ instance'[j].status = instance[j].status
                   \/ Active(j) /\ instance'[j].status \in Phases
        BY <1>1, HeartbeatAt
    <2> QED BY <1>0, <1>1, <2>1 DEF Heartbeat, Phases
<1>2. ASSUME NEW i \in Instances, StopRead(i) PROVE Parts'
    <2>1. /\ shell[i].state # "none"
          /\ \A j \in Instances : net[j] = {} => net'[j] = {}
          /\ daemon.op = "idle"
        BY <1>0, <1>2 DEF StopRead, Receive
    <2>2. \/ daemon' = daemon
          \/ daemon'.op = "stopMark" /\ daemon'.i = i
          \/ daemon'.op = "stopRevoke" /\ daemon'.i = i /\ ~Active(i)
        BY <1>2 DEF StopRead, DaemonOn
    <2> QED BY <1>0, <1>2, <2>1, <2>2 DEF StopRead
<1>3. ASSUME NEW i \in Instances, AuthSession(i) PROVE Parts'
    BY <1>0, <1>3 DEF AuthSession, DaemonOn
<1>4. CASE StopMark
    <2>1. \A j \in Instances :
              /\ instance'[j].key = instance[j].key
              /\ \/ instance'[j].status = instance[j].status
                 \/ Active(j) /\ instance'[j].status \in TerminalStatus
              /\ daemon'.op # "idle" =>
                    /\ daemon'.op = "stopRevoke" /\ daemon'.i = daemon.i
                    /\ j = daemon.i => instance'[j].status \in TerminalStatus
        BY <1>4, StopMarkAt
    <2>2. daemon.i \in Instances
        BY <1>4 DEF StopMark
    <2> QED BY <1>0, <1>4, <2>1, <2>2 DEF StopMark, TerminalStatus
<1>5. CASE StopRevoke
    <2>1. \A j \in Instances :
              /\ session'[j].key = session[j].key
              /\ \/ session'[j].state = session[j].state
                 \/ j = daemon.i /\ session'[j].state = "revoked" /\ session[j].state = "valid"
        BY <1>5, RevokeAt DEF StopRevoke
    <2> QED BY <1>0, <1>5, <2>1 DEF StopRevoke, DaemonIdle, DaemonAt, DaemonOn
<1>6. CASE SweepBegin
    BY <1>6 DEF SweepBegin, DaemonAt, DaemonOn
<1>7. ASSUME NEW op, NEW next \in {"sweepRunning", "sweepStale", "sweepSessions"},
             NEW status \in ActiveStatus, NEW limit,
             NEW result \in TerminalStatus \cup {"stale"}, result = "stale" => status = "running",
             SweepRows(op, next, status, limit, result)
      PROVE  Parts'
    <2>1. \A j \in Instances :
              /\ instance'[j].key = instance[j].key
              /\ instance'[j].status = instance[j].status
                    \/ /\ instance[j].status = status
                       /\ instance'[j].status = result
        BY <1>7, SweepRowsAt
    <2> QED BY <1>0, <1>7, <2>1 DEF SweepRows, TerminalStatus, DaemonAt, DaemonOn
<1>8. CASE SweepLaunching
    BY <1>7, <1>8 DEF SweepLaunching, TerminalStatus
<1>9. CASE SweepRunning
    BY <1>7, <1>9 DEF SweepRunning
<1>10. CASE SweepStale
    BY <1>7, <1>10 DEF SweepStale, TerminalStatus
<1>11. CASE SweepSessions
    <2>1. \A j \in Instances :
              /\ session'[j].key = session[j].key
              /\ session'[j].state = session[j].state
                    \/ /\ instance[j].status \in TerminalStatus
                       /\ session'[j].state = "revoked" /\ session[j].state = "valid"
        BY <1>11, SweepSessionsAt
    <2> QED BY <1>0, <1>11, <2>1
            DEF SweepSessions, TerminalStatus, DaemonIdle, DaemonAt, DaemonOn
<1>12. CASE AuthInstance \/ AuthKey \/ AuthTouch \/ DaemonCrash \/ DaemonStart
    <2>1. /\ UNCHANGED <<session, instance, launch, shell, net, app>>
          /\ dormant' \subseteq dormant
          /\ \/ daemon'.op \in {"idle", "down"}
             \/ daemon'.op \in {"authKey", "authTouch"} /\ daemon'.i = daemon.i
                   /\ daemon.op \in {"authInstance", "authKey"}
        BY <1>12 DEF AuthInstance, AuthKey, AuthTouch, DaemonCrash, DaemonStart,
                     DaemonIdle, DaemonAt, DaemonOn, TypeOK, DaemonTasks
    <2> QED BY <2>1
<1> QED
    BY <1>1, <1>2, <1>3, <1>4, <1>5, <1>6, <1>8, <1>9, <1>10, <1>11, <1>12 DEF DaemonStep, Sweep

LEMMA AppKeepsParts ==
    ASSUME TypeOK, Parts, AppStep \/ Tick
    PROVE  Parts'
<1> USE DEF Parts, RevokedMeansOver, AssignmentsAgree, LaunchFootprint, HandlerFootprint,
            Active, ActiveStatus
<1>0. /\ session \in [Instances -> SessionRows]
      /\ instance \in [Instances -> InstanceRows]
    BY DEF TypeOK
<1>1. ASSUME NEW i \in Instances, NEW k \in Keys, ReassignCheck(i, k) PROVE Parts'
    BY <1>1 DEF ReassignCheck
<1>2. CASE ReassignCommit
    <2>1. app'.op = "idle"
        BY <1>2 DEF ReassignCommit, AppIdle
    <2>2. \A j \in Instances :
              /\ session'[j].state = session[j].state
              /\ instance'[j].status = instance[j].status
              /\ \/ session'[j].key = session[j].key /\ instance'[j].key = instance[j].key
                 \/ /\ j = app.i /\ Active(j)
                    /\ session'[j].key = app.key /\ instance'[j].key = app.key
        BY <1>2, ReassignCommitAt
    <2> QED BY <1>0, <1>2, <2>1, <2>2 DEF ReassignCommit
<1>3. ASSUME NEW c \in Clients, Cleanup(c) PROVE Parts'
    <2>1. \A j \in Instances :
              \/ session'[j] = session[j] /\ instance'[j] = instance[j]
              \/ /\ instance'[j].status = "absent" /\ instance[j].status # "absent"
                 /\ session'[j].key = session[j].key
                 /\ \/ session'[j].state = session[j].state
                    \/ session'[j].state = "revoked" /\ session[j].state = "valid"
        BY <1>3, CleanupAt
    <2> QED BY <1>0, <1>3, <2>1 DEF Cleanup
<1>4. ASSUME NEW k \in Keys, ToggleKey(k) PROVE Parts'
    BY <1>4 DEF ToggleKey
<1>5. ASSUME NEW k \in Keys, DeleteKey(k) PROVE Parts'
    <2>1. \A j \in Instances :
              /\ instance'[j].status = instance[j].status
              /\ instance'[j].key \in {instance[j].key, NoKey}
        BY <1>5, DeleteKeyAt
    <2> QED BY <1>0, <1>5, <2>1 DEF DeleteKey
<1>6. ASSUME NEW i \in Instances, GoDormant(i) PROVE Parts'
    BY <1>6 DEF GoDormant
<1>7. CASE CleanupDormant
    <2>1. \A j \in Instances :
              \/ session'[j] = session[j] /\ instance'[j] = instance[j]
              \/ /\ instance'[j].status = "absent" /\ session'[j].state = "absent"
                 /\ j \in dormant
        BY <1>0, <1>7, NoRowFields DEF CleanupDormant
    <2> QED BY <1>0, <1>7, <2>1 DEF CleanupDormant
<1>8. CASE Tick
    <2>1. \A j \in Instances :
              /\ instance'[j].status = instance[j].status
              /\ instance'[j].key = instance[j].key
        BY <1>8, TickAt
    <2> QED BY <1>0, <1>8, <2>1 DEF Tick
<1> QED BY <1>1, <1>2, <1>3, <1>4, <1>5, <1>6, <1>7, <1>8 DEF AppStep

(* The inductive invariant holds in every reachable state.                 *)
THEOREM Inductive == Spec => []IInv
<1>1. Init => Parts
    BY DEF Init, Parts, RevokedMeansOver, AssignmentsAgree, LaunchFootprint, HandlerFootprint,
           NoSession, NoRow, DaemonIdle, DaemonAt, DaemonOn, AppIdle
<1>2. TypeOK /\ Parts /\ [Next]_vars => Parts'
    <2> SUFFICES ASSUME TypeOK, Parts, [Next]_vars PROVE Parts'
        OBVIOUS
    <2>1. CASE Next
        BY <2>1, LaunchKeepsParts, ShellKeepsParts, DaemonKeepsParts, AppKeepsParts DEF Next
    <2>2. CASE UNCHANGED vars
        BY <2>2 DEF vars, Parts, RevokedMeansOver, AssignmentsAgree, LaunchFootprint,
                    HandlerFootprint, Active
    <2> QED BY <2>1, <2>2
<1>3. TypeOK /\ Parts => IInv
    BY DEF Parts, IInv
<1> QED BY <1>1, <1>2, <1>3, TypeCorrect, PTL DEF Spec

(* A revoked token never belongs to a row that still counts as active,     *)
(* except for a failed launch whose row could not be marked.               *)
THEOREM RevokedSessionsAreOver == Spec => []RevokedMeansOver
<1>1. IInv => RevokedMeansOver
    BY DEF IInv
<1> QED BY <1>1, Inductive, PTL

(* The key the row shows is the key the session routes to, or NULL.        *)
THEOREM RowAndSessionAgree == Spec => []AssignmentsAgree
<1>1. IInv => AssignmentsAgree
    BY DEF IInv
<1> QED BY <1>1, Inductive, PTL

(***************************************************************************)
(* What a step may do to an instance that is over, or open.                *)
(***************************************************************************)

(* Every write of a session: created, switched, revoked or removed.        *)
SessionMove(j) ==
    \/ session'[j].state = session[j].state
    \/ session[j].state = "absent"
    \/ session'[j].state \in {"revoked", "absent"}

(* Every write of a row: created, moved on while active, or removed.       *)
RowMove(j) ==
    \/ instance'[j].status = instance[j].status
    \/ instance[j].status = "absent"
    \/ instance'[j].status = "absent"
    \/ /\ instance[j].status \in ActiveStatus
       /\ instance'[j].status \in TerminalStatus \cup {"running", "stale"}

LEMMA StepMoves ==
    ASSUME IInv, Next, NEW j \in Instances
    PROVE  SessionMove(j) /\ RowMove(j)
<1> USE DEF ActiveStatus, TerminalStatus, Phases, SessionMove, RowMove, Active
<1>0. /\ TypeOK /\ LaunchFootprint
      /\ session \in [Instances -> SessionRows]
      /\ instance \in [Instances -> InstanceRows]
    BY DEF IInv, TypeOK
<1>1. ASSUME NEW i \in Instances, LaunchStep(i) PROVE SessionMove(j) /\ RowMove(j)
    <2>1. ASSUME NEW k \in Keys, BeginLaunch(i, k) PROVE SessionMove(j) /\ RowMove(j)
        BY <2>1 DEF BeginLaunch
    <2>2. CASE CreateSession(i)
        BY <1>0, <2>2 DEF CreateSession, LaunchFootprint
    <2>3. CASE CreateInstance(i)
        BY <1>0, <2>3 DEF CreateInstance, LaunchFootprint
    <2>4. CASE RollbackSession(i)
        BY <1>0, <2>4, NoRowFields DEF RollbackSession
    <2>5. CASE OpenTerminal(i)
        BY <2>5 DEF OpenTerminal
    <2>6. CASE MarkLaunchFailed(i)
        BY <1>0, <2>6, MarkLaunchFailedAt DEF MarkLaunchFailed
    <2>7. CASE RevokeFailedLaunch(i)
        BY <1>0, <2>7, RevokeAt DEF RevokeFailedLaunch
    <2>8. CASE LauncherCrash(i)
        BY <2>8 DEF LauncherCrash
    <2> QED
        BY <1>1, <2>1, <2>2, <2>3, <2>4, <2>5, <2>6, <2>7, <2>8 DEF LaunchStep
<1>2. ASSUME NEW i \in Instances, ShellStep(i) PROVE SessionMove(j) /\ RowMove(j)
    <2>1. UNCHANGED <<session, instance>>
        BY <1>2 DEF ShellStep, ShellStart, ShellBeat, PrelaunchDone, PrelaunchFailed,
                    ChildExit, ShellTrap, ShellKilled, PostLost
    <2> QED BY <2>1
<1>3. CASE DaemonStep
    <2>1. ASSUME NEW i \in Instances, Heartbeat(i) PROVE SessionMove(j) /\ RowMove(j)
        BY <1>0, <2>1, HeartbeatAt DEF Heartbeat
    <2>2. CASE StopMark
        BY <1>0, <2>2, StopMarkAt DEF StopMark
    <2>3. CASE StopRevoke
        BY <1>0, <2>3, RevokeAt DEF StopRevoke
    <2>4. CASE SweepLaunching
        <3>1. \/ instance'[j].status = instance[j].status
              \/ instance[j].status = "launching" /\ instance'[j].status = "failed"
            BY <1>0, <2>4, SweepRowsAt DEF SweepLaunching
        <3>2. UNCHANGED session
            BY <2>4 DEF SweepLaunching, SweepRows
        <3> QED BY <3>1, <3>2
    <2>5. CASE SweepRunning
        <3>1. \/ instance'[j].status = instance[j].status
              \/ instance[j].status = "running" /\ instance'[j].status = "stale"
            BY <1>0, <2>5, SweepRowsAt DEF SweepRunning
        <3>2. UNCHANGED session
            BY <2>5 DEF SweepRunning, SweepRows
        <3> QED BY <3>1, <3>2
    <2>6. CASE SweepStale
        <3>1. \/ instance'[j].status = instance[j].status
              \/ instance[j].status = "stale" /\ instance'[j].status = "stopped"
            BY <1>0, <2>6, SweepRowsAt DEF SweepStale
        <3>2. UNCHANGED session
            BY <2>6 DEF SweepStale, SweepRows
        <3> QED BY <3>1, <3>2
    <2>7. CASE SweepSessions
        BY <1>0, <2>7, SweepSessionsAt DEF SweepSessions
    <2>8. ASSUME \/ \E i \in Instances : StopRead(i) \/ AuthSession(i)
                 \/ SweepBegin \/ AuthInstance \/ AuthKey \/ AuthTouch
                 \/ DaemonCrash \/ DaemonStart
          PROVE  SessionMove(j) /\ RowMove(j)
        <3>1. UNCHANGED <<session, instance>>
            BY <2>8 DEF StopRead, AuthSession, SweepBegin, AuthInstance, AuthKey, AuthTouch,
                        DaemonCrash, DaemonStart
        <3> QED BY <3>1
    <2> QED
        BY <1>3, <2>1, <2>2, <2>3, <2>4, <2>5, <2>6, <2>7, <2>8 DEF DaemonStep, Sweep
<1>4. CASE AppStep \/ Tick
    <2>1. CASE ReassignCommit
        BY <1>0, <2>1, ReassignCommitAt
    <2>2. ASSUME NEW c \in Clients, Cleanup(c) PROVE SessionMove(j) /\ RowMove(j)
        BY <1>0, <2>2, CleanupAt
    <2>3. ASSUME NEW k \in Keys, DeleteKey(k) PROVE SessionMove(j) /\ RowMove(j)
        BY <1>0, <2>3, DeleteKeyAt DEF DeleteKey
    <2>4. CASE CleanupDormant
        BY <1>0, <2>4, NoRowFields DEF CleanupDormant
    <2>5. CASE Tick
        BY <1>0, <2>5, TickAt DEF Tick
    <2>6. ASSUME \/ \E i \in Instances, k \in Keys : ReassignCheck(i, k)
                 \/ \E k \in Keys : ToggleKey(k)
                 \/ \E i \in Instances : GoDormant(i)
          PROVE  SessionMove(j) /\ RowMove(j)
        <3>1. UNCHANGED <<session, instance>>
            BY <2>6 DEF ReassignCheck, ToggleKey, GoDormant
        <3> QED BY <3>1
    <2> QED BY <1>4, <2>1, <2>2, <2>3, <2>4, <2>5, <2>6 DEF AppStep
<1> QED BY <1>1, <1>2, <1>3, <1>4 DEF Next

(* No write brings an ended instance back.                                 *)
THEOREM TerminalStaysTerminal == Spec => TerminalIsFinal
<1>1. IInv /\ [Next]_vars =>
        [\A i \in Instances :
            Terminal(i) => instance'[i].status \in {instance[i].status, "absent"}]_vars
    <2> SUFFICES ASSUME IInv, Next, NEW i \in Instances, Terminal(i)
                 PROVE  instance'[i].status \in {instance[i].status, "absent"}
        OBVIOUS
    <2> QED BY StepMoves DEF RowMove, Terminal, TerminalStatus, ActiveStatus
<1> QED BY <1>1, Inductive, PTL DEF Spec, TerminalIsFinal

(* No write gives a revoked token back.                                    *)
THEOREM RevokedStaysRevoked == Spec => RevocationIsFinal
<1>1. IInv /\ [Next]_vars =>
        [\A i \in Instances :
            session[i].state = "revoked" => session'[i].state \in {"revoked", "absent"}]_vars
    <2> SUFFICES ASSUME IInv, Next, NEW i \in Instances, session[i].state = "revoked"
                 PROVE  session'[i].state \in {"revoked", "absent"}
        OBVIOUS
    <2> QED BY StepMoves DEF SessionMove
<1> QED BY <1>1, Inductive, PTL DEF Spec, RevocationIsFinal

(* A late launching heartbeat never takes a running row back.              *)
THEOREM PhasesOnlyAdvance == Spec => NoPhaseRegression
<1>1. IInv /\ [Next]_vars =>
        [\A i \in Instances :
            instance[i].status \in {"running", "stale"} => instance'[i].status # "launching"]_vars
    <2> SUFFICES ASSUME IInv, Next, NEW i \in Instances, instance[i].status \in {"running", "stale"}
                 PROVE  instance'[i].status # "launching"
        OBVIOUS
    <2> QED BY StepMoves DEF RowMove, TerminalStatus, ActiveStatus
<1> QED BY <1>1, Inductive, PTL DEF Spec, NoPhaseRegression

(* A request is admitted on two reads with the app's writes between them:  *)
(* the second read also stands for the first, since a token is never       *)
(* revoked while its row is active.                                        *)
THEOREM AdmittedRequestsAreOpen == Spec => AdmittedWhileOpen
<1>1. IInv /\ [Next]_vars =>
        [daemon.op = "authInstance" /\ daemon'.op = "authKey" => Open(daemon.i)]_vars
    <2> SUFFICES ASSUME IInv, Next, daemon.op = "authInstance", daemon'.op = "authKey"
                 PROVE  Open(daemon.i)
        OBVIOUS
    <2>1. \/ daemon' = daemon
          \/ daemon'.op \in {"idle", "down"}
          \/ AuthInstance
        <3>1. ASSUME NEW i \in Instances, LaunchStep(i) \/ ShellStep(i) PROVE daemon' = daemon
            BY <3>1 DEF LaunchStep, BeginLaunch, CreateSession, CreateInstance, RollbackSession,
                OpenTerminal, MarkLaunchFailed, RevokeFailedLaunch, LauncherCrash,
                ShellStep, ShellStart, ShellBeat, PrelaunchDone, PrelaunchFailed,
                ChildExit, ShellTrap, ShellKilled, PostLost
        <3>2. CASE DaemonStep
            BY <3>2 DEF DaemonStep, Heartbeat, StopRead, Receive, AuthSession, StopMark, StopRevoke,
                Sweep, SweepBegin, SweepLaunching, SweepRunning, SweepStale, SweepRows,
                SweepSessions, AuthKey, AuthTouch, DaemonCrash, DaemonStart,
                DaemonIdle, DaemonAt, DaemonOn
        <3>3. CASE AppStep \/ Tick
            BY <3>3 DEF AppStep, Tick, ReassignCheck, ReassignCommit, Cleanup, CleanupDormant,
                ToggleKey, DeleteKey, GoDormant
        <3> QED BY <3>1, <3>2, <3>3 DEF Next
    <2>2. AuthInstance
        BY <2>1
    <2>3. daemon.i \in Instances /\ Active(daemon.i) /\ shell[daemon.i].state # "none"
        BY <2>2 DEF IInv, HandlerFootprint, AuthInstance, DaemonIdle, DaemonAt, DaemonOn
    <2>4. session[daemon.i].state # "absent"
        BY <2>3 DEF IInv, LaunchFootprint, Active, ActiveStatus
    <2>5. session[daemon.i].state # "revoked"
        BY <2>3 DEF IInv, RevokedMeansOver, Active
    <2>6. session[daemon.i].state \in SessionState
        BY <2>3 DEF IInv, TypeOK, SessionRows
    <2> QED BY <2>3, <2>4, <2>5, <2>6 DEF Open, SessionState, Active
<1> QED BY <1>1, Inductive, PTL DEF Spec, AdmittedWhileOpen

(***************************************************************************)
(* What closes a token.                                                    *)
(***************************************************************************)

(* A stop that is on its way, or being handled, was sent by the wrapper.   *)
StopInv ==
    /\ \A i \in Instances : \A m \in net[i] : m.kind = "stop" => shell[i].stopSent
    /\ daemon.op = "stopMark" => daemon.i \in Instances /\ shell[daemon.i].stopSent

LEMMA MessageKinds ==
    /\ \A p : HeartbeatOf(p).kind = "heartbeat"
    /\ \A x : StopOf(x).kind = "stop"
    BY DEF HeartbeatOf, StopOf

(* A wrapper forgets nothing it sent, and sends a stop only as it notes it. *)
LEMMA ShellSends ==
    ASSUME TypeOK, StopInv, NEW i \in Instances, ShellStep(i), NEW j \in Instances
    PROVE  /\ shell[j].stopSent => shell'[j].stopSent
           /\ \A m \in net'[j] : m.kind = "stop" => shell'[j].stopSent
<1>0. /\ shell \in [Instances -> Shells] /\ net \in [Instances -> SUBSET Messages]
      /\ shell[j] \in Shells
      /\ \A m \in net[j] : m.kind = "stop" => shell[j].stopSent
    BY DEF TypeOK, StopInv
<1>1. ASSUME NEW x, ShellTo(i, x) PROVE shell'[j].stopSent = shell[j].stopSent
    <2>1. shell'[j] = IF j = i THEN [shell[j] EXCEPT !.state = x] ELSE shell[j]
        BY <1>0, <1>1 DEF ShellTo
    <2> QED BY <1>0, <2>1 DEF Shells
<1>2. ASSUME NEW p, Post(i, HeartbeatOf(p))
      PROVE  \A m \in net'[j] : m.kind = "stop" => m \in net[j]
    <2>1. net'[j] \subseteq net[j] \cup {HeartbeatOf(p)}
        BY <1>0, <1>2 DEF Post
    <2> QED BY <2>1, MessageKinds
<1>3. CASE ShellStart(i) \/ PrelaunchDone(i)
    BY <1>0, <1>1, <1>2, <1>3 DEF ShellStart, PrelaunchDone
<1>4. CASE ShellBeat(i)
    BY <1>0, <1>2, <1>4 DEF ShellBeat
<1>5. CASE ShellKilled(i)
    BY <1>0, <1>1, <1>5 DEF ShellKilled
<1>6. ASSUME NEW x, PostLost(i, x)
      PROVE  /\ shell[j].stopSent => shell'[j].stopSent
             /\ \A m \in net'[j] : m.kind = "stop" => shell'[j].stopSent
    BY <1>0, <1>6 DEF PostLost
<1>7. CASE PrelaunchFailed(i) \/ ChildExit(i) \/ ShellTrap(i)
    <2>1. j # i => shell'[j] = shell[j] /\ net'[j] = net[j]
        BY <1>0, <1>7 DEF PrelaunchFailed, ChildExit, ShellTrap, StopOnce
    <2>2. shell'[i].stopSent
        BY <1>0, <1>7 DEF PrelaunchFailed, ChildExit, ShellTrap
    <2> QED BY <1>0, <2>1, <2>2
<1> QED BY <1>3, <1>4, <1>5, <1>6, <1>7 DEF ShellStep

LEMMA StopsAreSent == IInv /\ StopInv /\ [Next]_vars => StopInv'
<1> SUFFICES ASSUME IInv, StopInv, [Next]_vars PROVE StopInv'
    OBVIOUS
<1>0. TypeOK
    BY DEF IInv
<1>1. ASSUME UNCHANGED shell, daemon' = daemon \/ daemon'.op # "stopMark",
             \A i \in Instances : net'[i] \subseteq net[i]
      PROVE  StopInv'
    BY <1>1 DEF StopInv
<1>2. ASSUME NEW i \in Instances, LaunchStep(i) PROVE StopInv'
    BY <1>1, <1>2 DEF LaunchStep, BeginLaunch, CreateSession, CreateInstance, RollbackSession,
        OpenTerminal, MarkLaunchFailed, RevokeFailedLaunch, LauncherCrash
<1>3. ASSUME NEW i \in Instances, ShellStep(i) PROVE StopInv'
    <2>1. UNCHANGED daemon
        BY <1>3 DEF ShellStep, ShellStart, ShellBeat, PrelaunchDone, PrelaunchFailed,
            ChildExit, ShellTrap, ShellKilled, PostLost
    <2> QED BY <1>0, <1>3, <2>1, ShellSends DEF StopInv
<1>4. CASE DaemonStep
    <2>1. ASSUME NEW i \in Instances, NEW m, Receive(i, m)
          PROVE  m \in net[i] /\ \A j \in Instances : net'[j] \subseteq net[j]
        BY <1>0, <2>1 DEF Receive, TypeOK
    <2>2. ASSUME NEW i \in Instances, Heartbeat(i) PROVE StopInv'
        BY <1>1, <2>1, <2>2 DEF Heartbeat
    <2>3. ASSUME NEW i \in Instances, StopRead(i) PROVE StopInv'
        <3>1. PICK final \in TerminalStatus :
                /\ Receive(i, StopOf(final)) /\ UNCHANGED shell
                /\ \/ daemon' = DaemonOn("stopMark", i, NoKey, final)
                   \/ daemon' = DaemonOn("stopRevoke", i, NoKey, "stopped")
                   \/ daemon' = daemon
            BY <2>3 DEF StopRead
        <3>2. shell[i].stopSent
            BY <2>1, <3>1, MessageKinds DEF StopInv
        <3>3. daemon' = daemon \/ daemon'.op # "stopMark" \/ daemon'.i = i
            BY <3>1 DEF DaemonOn
        <3> QED BY <2>1, <3>1, <3>2, <3>3 DEF StopInv
    <2>4. ASSUME NEW i \in Instances, AuthSession(i) PROVE StopInv'
        BY <1>1, <2>4 DEF AuthSession, DaemonOn
    <2>5. CASE StopMark \/ StopRevoke \/ SweepBegin \/ AuthTouch \/ DaemonCrash \/ DaemonStart
        BY <1>1, <2>5 DEF StopMark, StopRevoke, SweepBegin, AuthTouch, DaemonCrash, DaemonStart,
            DaemonIdle, DaemonAt, DaemonOn
    <2>6. CASE SweepLaunching \/ SweepRunning \/ SweepStale \/ SweepSessions
        BY <1>1, <2>6 DEF SweepLaunching, SweepRunning, SweepStale, SweepSessions, SweepRows,
            DaemonIdle, DaemonAt, DaemonOn
    <2>7. CASE AuthInstance \/ AuthKey
        <3>1. daemon \in DaemonTasks
            BY <1>0 DEF TypeOK
        <3>2. daemon'.op # "stopMark"
            BY <2>7, <3>1 DEF AuthInstance, AuthKey, DaemonTasks, DaemonIdle, DaemonAt, DaemonOn
        <3> QED BY <1>1, <2>7, <3>2 DEF AuthInstance, AuthKey
    <2> QED BY <1>4, <2>2, <2>3, <2>4, <2>5, <2>6, <2>7 DEF DaemonStep, Sweep
<1>5. CASE AppStep \/ Tick
    BY <1>1, <1>5 DEF AppStep, Tick, ReassignCheck, ReassignCommit, Cleanup, CleanupDormant,
        ToggleKey, DeleteKey, GoDormant
<1>6. CASE UNCHANGED vars
    BY <1>1, <1>6 DEF vars
<1> QED BY <1>2, <1>3, <1>4, <1>5, <1>6 DEF Next

(* What may close the token of an instance.                                *)
OwnAccount(i) ==
    \/ shell[i].stopSent
    \/ launch[i].stage \in {"failing", "revoking"}
    \/ instance[i].age > StaleAfter
    \/ i \in dormant
    \/ /\ instance[i].status \in {"launching", "stale"}
       /\ \A j \in Instances :
            instance[j].status \in {"launching", "stale"} /\ instance'[j].status = "absent"
                => ClientOf[j] = ClientOf[i]

LEMMA SweepAge ==
    ASSUME TypeOK, NEW op, NEW next, NEW status, NEW limit \in {StaleAfter, StopAfter},
           NEW result, SweepRows(op, next, status, limit, result), NEW j \in Instances
    PROVE  instance'[j] = instance[j] \/ instance[j].age > StaleAfter
<1>1. instance'[j] = instance[j] \/ instance[j].age > limit
    BY DEF SweepRows, TypeOK
<1>2. instance[j].age \in Nat
    BY ConstantsAssumption DEF TypeOK, InstanceRows, Ages
<1> QED BY <1>1, <1>2, ConstantsAssumption

LEMMA CleanupCloses ==
    ASSUME TypeOK, NEW c \in Clients, Cleanup(c), NEW j \in Instances, Open(j), ~Open(j)'
    PROVE  OwnAccount(j)
<1>1. ASSUME NEW k \in Instances, k \notin CleanedUp(c)
      PROVE  instance'[k] = instance[k] /\ session'[k] = session[k]
    BY <1>1 DEF Cleanup
<1>2. j \in CleanedUp(c)
    BY <1>1 DEF Open, Active
<1>3. instance[j].status \in {"launching", "stale"} /\ ClientOf[j] = c
    BY <1>2 DEF CleanedUp, Open, Active, ActiveStatus, TerminalStatus
<1>4. ASSUME NEW k \in Instances, instance[k].status \in {"launching", "stale"},
             instance'[k].status = "absent"
      PROVE  ClientOf[k] = c
    BY <1>1, <1>4 DEF CleanedUp
<1> QED BY <1>3, <1>4 DEF OwnAccount

LEMMA ClosingHasItsReason ==
    ASSUME IInv, StopInv, Next, NEW j \in Instances, Open(j), ~Open(j)'
    PROVE  OwnAccount(j)
<1> USE DEF Open, Active, ActiveStatus, TerminalStatus
<1>0. /\ TypeOK /\ LaunchFootprint /\ HandlerFootprint
      /\ session \in [Instances -> SessionRows]
      /\ instance \in [Instances -> InstanceRows]
    BY DEF IInv, TypeOK
<1>1. ASSUME NEW i \in Instances, LaunchStep(i) PROVE OwnAccount(j)
    <2>1. ASSUME \/ \E k \in Keys : BeginLaunch(i, k)
                 \/ OpenTerminal(i) \/ LauncherCrash(i)
          PROVE  FALSE
        BY <2>1 DEF BeginLaunch, OpenTerminal, LauncherCrash
    <2>2. CASE CreateSession(i)
        BY <1>0, <2>2 DEF CreateSession, LaunchFootprint
    <2>3. CASE CreateInstance(i)
        BY <1>0, <2>3 DEF CreateInstance
    <2>4. CASE RollbackSession(i)
        BY <1>0, <2>4 DEF RollbackSession, LaunchFootprint
    <2>5. CASE MarkLaunchFailed(i)
        BY <1>0, <2>5, MarkLaunchFailedAt DEF MarkLaunchFailed, OwnAccount
    <2>6. CASE RevokeFailedLaunch(i)
        BY <1>0, <2>6, RevokeAt DEF RevokeFailedLaunch, OwnAccount
    <2> QED BY <1>1, <2>1, <2>2, <2>3, <2>4, <2>5, <2>6 DEF LaunchStep
<1>2. ASSUME NEW i \in Instances, ShellStep(i) PROVE FALSE
    <2>1. UNCHANGED <<session, instance>>
        BY <1>2 DEF ShellStep, ShellStart, ShellBeat, PrelaunchDone, PrelaunchFailed,
                    ChildExit, ShellTrap, ShellKilled, PostLost
    <2> QED BY <2>1
<1>3. CASE DaemonStep
    <2>1. ASSUME NEW i \in Instances, Heartbeat(i) PROVE FALSE
        BY <1>0, <2>1, HeartbeatAt DEF Heartbeat, Phases
    <2>2. CASE StopMark
        <3>1. j = daemon.i
            BY <1>0, <2>2 DEF StopMark
        <3> QED BY <2>2, <3>1 DEF StopMark, StopInv, OwnAccount
    <2>3. CASE StopRevoke
        BY <1>0, <2>3, RevokeAt DEF StopRevoke, HandlerFootprint
    <2>4. CASE SweepLaunching \/ SweepRunning \/ SweepStale
        <3>1. instance'[j] = instance[j] \/ instance[j].age > StaleAfter
            BY <1>0, <2>4, SweepAge DEF SweepLaunching, SweepRunning, SweepStale
        <3>2. UNCHANGED session
            BY <2>4 DEF SweepLaunching, SweepRunning, SweepStale, SweepRows
        <3> QED BY <3>1, <3>2 DEF OwnAccount
    <2>5. CASE SweepSessions
        BY <1>0, <2>5, SweepSessionsAt DEF SweepSessions
    <2>6. ASSUME \/ \E i \in Instances : StopRead(i) \/ AuthSession(i)
                 \/ SweepBegin \/ AuthInstance \/ AuthKey \/ AuthTouch
                 \/ DaemonCrash \/ DaemonStart
          PROVE  FALSE
        <3>1. UNCHANGED <<session, instance>>
            BY <2>6 DEF StopRead, AuthSession, SweepBegin, AuthInstance, AuthKey, AuthTouch,
                        DaemonCrash, DaemonStart
        <3> QED BY <3>1
    <2> QED BY <1>3, <2>1, <2>2, <2>3, <2>4, <2>5, <2>6 DEF DaemonStep, Sweep
<1>4. CASE AppStep \/ Tick
    <2>1. CASE ReassignCommit
        BY <1>0, <2>1, ReassignCommitAt
    <2>2. ASSUME NEW c \in Clients, Cleanup(c) PROVE OwnAccount(j)
        BY <1>0, <2>2, CleanupCloses
    <2>3. ASSUME NEW k \in Keys, DeleteKey(k) PROVE FALSE
        BY <1>0, <2>3, DeleteKeyAt DEF DeleteKey
    <2>4. CASE CleanupDormant
        BY <1>0, <2>4 DEF CleanupDormant, OwnAccount
    <2>5. CASE Tick
        BY <1>0, <2>5, TickAt DEF Tick
    <2>6. ASSUME \/ \E i \in Instances, k \in Keys : ReassignCheck(i, k)
                 \/ \E k \in Keys : ToggleKey(k)
                 \/ \E i \in Instances : GoDormant(i)
          PROVE  FALSE
        <3>1. UNCHANGED <<session, instance>>
            BY <2>6 DEF ReassignCheck, ToggleKey, GoDormant
        <3> QED BY <3>1
    <2> QED BY <1>4, <2>1, <2>2, <2>3, <2>4, <2>5, <2>6 DEF AppStep
<1> QED BY <1>1, <1>2, <1>3, <1>4 DEF Next

(* An open token closes on its own account: nothing that happens to        *)
(* another instance, and no late message, takes it away.                   *)
THEOREM TokensCloseOnTheirOwnAccount == Spec => ClosesOnItsOwnAccount
<1>1. Init => StopInv
    BY DEF Init, StopInv, DaemonIdle, DaemonAt, DaemonOn
<1>2. IInv /\ StopInv /\ [Next]_vars =>
        [\A i \in Instances :
            Open(i) /\ ~Open(i)' =>
                \/ shell[i].stopSent
                \/ launch[i].stage \in {"failing", "revoking"}
                \/ instance[i].age > StaleAfter
                \/ i \in dormant
                \/ /\ instance[i].status \in {"launching", "stale"}
                   /\ \A j \in Instances :
                        instance[j].status \in {"launching", "stale"}
                        /\ instance'[j].status = "absent"
                            => ClientOf[j] = ClientOf[i]]_vars
    BY ClosingHasItsReason DEF OwnAccount
<1> QED BY <1>1, <1>2, StopsAreSent, Inductive, PTL DEF Spec, ClosesOnItsOwnAccount

(***************************************************************************)
(* The refinement.                                                         *)
(***************************************************************************)

Early == {"idle", "prepared", "session"}

(* Nothing but the row's creation opens a token, and nothing but a switch  *)
(* changes where an open one leads.                                        *)
LEMMA OnlyCreationOpens ==
    ASSUME IInv, Next, ~ReassignCommit, NEW j \in Instances, Open(j)', ~CreateInstance(j)
    PROVE  Open(j) /\ session'[j].key = session[j].key
<1> USE DEF Open, Active, ActiveStatus, TerminalStatus
<1>0. /\ TypeOK /\ LaunchFootprint
      /\ session \in [Instances -> SessionRows]
      /\ instance \in [Instances -> InstanceRows]
    BY DEF IInv, TypeOK
<1>1. ASSUME NEW i \in Instances, LaunchStep(i)
      PROVE  Open(j) /\ session'[j].key = session[j].key
    <2>1. ASSUME NEW k \in Keys, BeginLaunch(i, k)
          PROVE  Open(j) /\ session'[j].key = session[j].key
        BY <2>1 DEF BeginLaunch
    <2>2. CASE CreateSession(i)
        BY <1>0, <2>2 DEF CreateSession, LaunchFootprint
    <2>3. CASE CreateInstance(i)
        BY <1>0, <2>3 DEF CreateInstance
    <2>4. CASE RollbackSession(i)
        BY <1>0, <2>4, NoRowFields DEF RollbackSession
    <2>5. CASE OpenTerminal(i)
        BY <2>5 DEF OpenTerminal
    <2>6. CASE MarkLaunchFailed(i)
        BY <1>0, <2>6, MarkLaunchFailedAt DEF MarkLaunchFailed
    <2>7. CASE RevokeFailedLaunch(i)
        BY <1>0, <2>7, RevokeAt DEF RevokeFailedLaunch
    <2>8. CASE LauncherCrash(i)
        BY <2>8 DEF LauncherCrash
    <2> QED
        BY <1>1, <2>1, <2>2, <2>3, <2>4, <2>5, <2>6, <2>7, <2>8 DEF LaunchStep
<1>2. ASSUME NEW i \in Instances, ShellStep(i)
      PROVE  Open(j) /\ session'[j].key = session[j].key
    <2>1. UNCHANGED <<session, instance>>
        BY <1>2 DEF ShellStep, ShellStart, ShellBeat, PrelaunchDone, PrelaunchFailed,
                    ChildExit, ShellTrap, ShellKilled, PostLost
    <2> QED BY <2>1
<1>3. CASE DaemonStep
    <2>1. ASSUME NEW i \in Instances, Heartbeat(i)
          PROVE  Open(j) /\ session'[j].key = session[j].key
        BY <1>0, <2>1, HeartbeatAt DEF Heartbeat
    <2>2. CASE StopMark
        BY <1>0, <2>2, StopMarkAt DEF StopMark
    <2>3. CASE StopRevoke
        BY <1>0, <2>3, RevokeAt DEF StopRevoke
    <2>4. ASSUME SweepLaunching \/ SweepRunning \/ SweepStale
          PROVE  Open(j) /\ session'[j].key = session[j].key
        <3>1. UNCHANGED session
            BY <2>4 DEF SweepLaunching, SweepRunning, SweepStale, SweepRows
        <3>2. \/ instance'[j].status = instance[j].status
              \/ instance[j].status \in ActiveStatus
            BY <1>0, <2>4, SweepRowsAt DEF SweepLaunching, SweepRunning, SweepStale
        <3> QED BY <3>1, <3>2
    <2>5. CASE SweepSessions
        BY <1>0, <2>5, SweepSessionsAt DEF SweepSessions
    <2>6. ASSUME \/ \E i \in Instances : StopRead(i) \/ AuthSession(i)
                 \/ SweepBegin \/ AuthInstance \/ AuthKey \/ AuthTouch
                 \/ DaemonCrash \/ DaemonStart
          PROVE  Open(j) /\ session'[j].key = session[j].key
        <3>1. UNCHANGED <<session, instance>>
            BY <2>6 DEF StopRead, AuthSession, SweepBegin, AuthInstance, AuthKey, AuthTouch,
                        DaemonCrash, DaemonStart
        <3> QED BY <3>1
    <2> QED BY <1>3, <2>1, <2>2, <2>3, <2>4, <2>5, <2>6 DEF DaemonStep, Sweep
<1>4. CASE AppStep \/ Tick
    <2>1. ASSUME NEW c \in Clients, Cleanup(c)
          PROVE  Open(j) /\ session'[j].key = session[j].key
        BY <1>0, <2>1, CleanupAt
    <2>2. ASSUME NEW k \in Keys, DeleteKey(k)
          PROVE  Open(j) /\ session'[j].key = session[j].key
        BY <1>0, <2>2, DeleteKeyAt DEF DeleteKey
    <2>3. CASE CleanupDormant
        BY <1>0, <2>3, NoRowFields DEF CleanupDormant
    <2>4. CASE Tick
        BY <1>0, <2>4, TickAt DEF Tick
    <2>5. ASSUME \/ \E i \in Instances, k \in Keys : ReassignCheck(i, k)
                 \/ \E k \in Keys : ToggleKey(k)
                 \/ \E i \in Instances : GoDormant(i)
          PROVE  Open(j) /\ session'[j].key = session[j].key
        <3>1. UNCHANGED <<session, instance>>
            BY <2>5 DEF ReassignCheck, ToggleKey, GoDormant
        <3> QED BY <3>1
    <2> QED BY <1>4, <2>1, <2>2, <2>3, <2>4, <2>5 DEF AppStep
<1> QED BY <1>1, <1>2, <1>3, <1>4 DEF Next

(* A launch never goes back to a stage in which its token may still open.  *)
LEMMA EarlyIsOnce ==
    ASSUME IInv, Next, NEW j \in Instances, launch'[j].stage \in Early
    PROVE  launch[j].stage \in Early /\ ~Open(j)
<1>1. launch[j].stage \in Early
    <2>1. CASE \E i \in Instances : LaunchStep(i)
        <3>1. PICK i \in Instances : LaunchStep(i)
            BY <2>1
        <3>2. ASSUME NEW k \in Keys, BeginLaunch(i, k) PROVE launch[j].stage \in Early
            BY <3>2 DEF BeginLaunch, IInv, TypeOK, Early
        <3>3. CASE CreateSession(i)
            <4>1. launch'[j].stage = launch[j].stage \/ j = i
                BY <3>3, SetStageAt DEF CreateSession, IInv
            <4> QED BY <3>3, <4>1 DEF CreateSession, Early
        <3>4. ASSUME NEW x, x \notin Early, SetStage(i, x) PROVE launch[j].stage \in Early
            BY <3>4, SetStageAt DEF IInv
        <3> QED
            BY <3>1, <3>2, <3>3, <3>4
            DEF LaunchStep, CreateInstance, RollbackSession, OpenTerminal, MarkLaunchFailed,
                RevokeFailedLaunch, LauncherCrash, Early
    <2>2. CASE ~ \E i \in Instances : LaunchStep(i)
        <3>1. UNCHANGED launch
            BY <2>2 DEF Next, ShellStep, ShellStart, ShellBeat, PrelaunchDone, PrelaunchFailed,
                ChildExit, ShellTrap, ShellKilled, PostLost, DaemonStep, Heartbeat, StopRead,
                AuthSession, StopMark, StopRevoke, Sweep, SweepBegin, SweepLaunching, SweepRunning,
                SweepStale, SweepRows, SweepSessions, AuthInstance, AuthKey, AuthTouch, DaemonCrash,
                DaemonStart, AppStep, Tick, ReassignCheck, ReassignCommit, Cleanup, CleanupDormant,
                ToggleKey, DeleteKey, GoDormant
        <3> QED BY <3>1
    <2> QED BY <2>1, <2>2
<1>2. ~Open(j)
    BY <1>1 DEF IInv, LaunchFootprint, Open, Active, ActiveStatus, Early
<1> QED BY <1>1, <1>2

(* An instance either looks the same after the step or has closed.         *)
SameOrCloses(j) ==
    \/ accessView'[j] = accessView[j] /\ routeView'[j] = routeView[j]
    \/ accessView[j] # "closed" /\ accessView'[j] = "closed" /\ routeView'[j] = NoKey

LEMMA AccessSameOrCloses ==
    ASSUME NEW j \in Instances,
           Open(j)' => Open(j) /\ session'[j].key = session[j].key,
           launch'[j].stage \in Early => launch[j].stage \in Early /\ ~Open(j)
    PROVE  SameOrCloses(j)
<1> USE DEF SameOrCloses, accessView, routeView, AccessOf, Early
<1>1. CASE Open(j)'
    BY <1>1 DEF Open, Active
<1>2. CASE ~Open(j)' /\ launch'[j].stage \in Early
    BY <1>2 DEF Open, Active
<1>3. CASE ~Open(j)' /\ launch'[j].stage \notin Early
    BY <1>3 DEF Open, Active
<1> QED BY <1>1, <1>2, <1>3

LEMMA ClosingIsAnAccessStep ==
    ASSUME \A j \in Instances : SameOrCloses(j)
    PROVE  [Access!Next]_Access!vars
<1> DEFINE S == {j \in Instances : accessView[j] # "closed" /\ accessView'[j] = "closed"}
<1>1. \A j \in Instances : /\ accessView'[j] = IF j \in S THEN "closed" ELSE accessView[j]
                           /\ routeView'[j] = IF j \in S THEN NoKey ELSE routeView[j]
    BY DEF SameOrCloses
<1>2. \A j \in S : accessView[j] # "closed"
    OBVIOUS
<1>3. S \in SUBSET Instances
    OBVIOUS
<1> HIDE DEF S
<1>4. /\ accessView' = [j \in Instances |-> accessView'[j]]
      /\ routeView' = [j \in Instances |-> routeView'[j]]
    BY DEF accessView, routeView
<1>5. Access!Close(S)
    BY <1>1, <1>2, <1>4 DEF Access!Close
<1> QED BY <1>3, <1>5 DEF Access!Next

(* The row's creation opens the token, for the key the launch chose.       *)
LEMMA CreationIsAnAccessStep ==
    ASSUME IInv, NEW i \in Instances, CreateInstance(i), Open(i)'
    PROVE  Access!Next
<1> USE DEF Open, Active, ActiveStatus
<1>0. /\ session \in [Instances -> SessionRows]
      /\ instance \in [Instances -> InstanceRows]
      /\ launch \in [Instances -> Launches]
      /\ UNCHANGED session
    BY DEF IInv, TypeOK, CreateInstance
<1>1. /\ launch[i].stage = "session" /\ session[i].state = "valid"
      /\ session[i].key \in Keys /\ instance[i].status = "absent"
    BY DEF IInv, LaunchFootprint, CreateInstance
<1>2. \A j \in Instances : j # i =>
         /\ instance'[j] = instance[j]
         /\ launch'[j].stage = launch[j].stage
    BY <1>0, SetStageAt DEF CreateInstance, IInv
<1>3. accessView[i] = "new" /\ accessView'[i] = "open" /\ routeView'[i] = session[i].key
    BY <1>0, <1>1 DEF accessView, routeView, AccessOf
<1>4. \A j \in Instances : j # i =>
         accessView'[j] = accessView[j] /\ routeView'[j] = routeView[j]
    BY <1>0, <1>2 DEF accessView, routeView, AccessOf
<1>5. /\ accessView' = [accessView EXCEPT ![i] = "open"]
      /\ routeView' = [routeView EXCEPT ![i] = session[i].key]
    BY <1>3, <1>4 DEF accessView, routeView
<1>6. Access!Open(i, session[i].key)
    BY <1>3, <1>5 DEF Access!Open
<1> QED BY <1>1, <1>6 DEF Access!Next

(* A hot switch changes where one open token leads, or nothing.            *)
LEMMA SwitchIsAnAccessStep ==
    ASSUME IInv, ReassignCommit
    PROVE  [Access!Next]_Access!vars
<1> USE DEF Open, Active, ActiveStatus
<1>0. /\ TypeOK /\ app.i \in Instances /\ app.key \in Keys /\ UNCHANGED launch
      /\ session \in [Instances -> SessionRows]
      /\ instance \in [Instances -> InstanceRows]
    BY DEF IInv, HandlerFootprint, ReassignCommit, TypeOK
<1>1. \A j \in Instances :
         /\ session'[j].state = session[j].state
         /\ instance'[j].status = instance[j].status
         /\ \/ session'[j].key = session[j].key
            \/ /\ j = app.i /\ Open(j) /\ session'[j].key = app.key
    BY <1>0, ReassignCommitAt
<1>2. accessView' = accessView
    BY <1>0, <1>1 DEF accessView, AccessOf
<1>3. CASE \A j \in Instances : session'[j].key = session[j].key
    <2>1. routeView' = routeView
        BY <1>1, <1>3 DEF routeView
    <2> QED BY <1>2, <2>1 DEF Access!vars
<1>4. CASE Open(app.i) /\ session'[app.i].key = app.key
    <2>1. \A j \in Instances : routeView'[j] = IF j = app.i THEN app.key ELSE routeView[j]
        BY <1>0, <1>1, <1>4 DEF routeView
    <2>2. routeView' = [routeView EXCEPT ![app.i] = app.key]
        BY <1>0, <2>1 DEF routeView
    <2>3. accessView[app.i] = "open"
        BY <1>0, <1>4 DEF accessView, AccessOf
    <2>4. Access!Switch(app.i, app.key)
        BY <1>2, <2>2, <2>3 DEF Access!Switch
    <2> QED BY <1>0, <2>4 DEF Access!Next
<1> QED BY <1>1, <1>3, <1>4

(* Wrapper, rows, sweeper, app and faults together keep the promise of     *)
(* ManagedAccess: a token opens once, is switched only while it is open,   *)
(* and closes for good.                                                    *)
THEOREM KeepsTheAccessPromise == Spec => ImplementsAccess
<1>1. Init => Access!Init
    <2> SUFFICES ASSUME Init PROVE Access!Init
        OBVIOUS
    <2>1. \A i \in Instances : ~Open(i) /\ AccessOf(i) = "new"
        BY DEF Init, Open, Active, ActiveStatus, AccessOf, NoSession, NoRow
    <2> QED BY <2>1 DEF Access!Init, accessView, routeView
<1>2. IInv /\ [Next]_vars => [Access!Next]_Access!vars
    <2> SUFFICES ASSUME IInv, [Next]_vars PROVE [Access!Next]_Access!vars
        OBVIOUS
    <2>1. CASE UNCHANGED vars
        BY <2>1 DEF vars, Access!vars, accessView, routeView, AccessOf, Open, Active
    <2>2. CASE ReassignCommit
        BY <2>2, SwitchIsAnAccessStep
    <2>3. CASE \E i \in Instances : CreateInstance(i) /\ Open(i)'
        BY <2>3, CreationIsAnAccessStep
    <2>4. CASE Next /\ ~ReassignCommit /\ ~ \E i \in Instances : CreateInstance(i) /\ Open(i)'
        <3>1. ASSUME NEW j \in Instances PROVE SameOrCloses(j)
            <4>1. Open(j)' => Open(j) /\ session'[j].key = session[j].key
                BY <2>4, OnlyCreationOpens
            <4>2. launch'[j].stage \in Early => launch[j].stage \in Early /\ ~Open(j)
                BY <2>4, EarlyIsOnce
            <4> QED BY <4>1, <4>2, AccessSameOrCloses
        <3> QED BY <3>1, ClosingIsAnAccessStep
    <2> QED BY <2>1, <2>2, <2>3, <2>4
<1> QED BY <1>1, <1>2, Inductive, PTL DEF Spec, ImplementsAccess, Access!Spec
=============================================================================
