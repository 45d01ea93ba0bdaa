-------------------------- MODULE DaemonLifecycle --------------------------
(***************************************************************************)
(* Who starts and stops the daemon.  The switch and the port in the        *)
(* settings page, a restart from page or tray, the start of the app and    *)
(* its watchdog all drive launchd by way of the daemon's own binary        *)
(* (settings.rs, proxy.rs, lib.rs, daemon_client.rs, launchd.rs); launchd  *)
(* restarts a daemon that ends, and the daemon reads its port when it      *)
(* starts (runtime.rs).  All that they have in common is launchd and the   *)
(* settings, so their steps interleave.                                    *)
(***************************************************************************)
EXTENDS Naturals

CONSTANTS
    Users,       \* commands of page and tray that may overlap
    Ports,
    MaxOrders,   \* bound: settings saved, restarts, starts and ends of the app
    MaxTroubles  \* bound: failed launchctl calls, crashes, foreign listeners, logins

ASSUME LifecycleBounds == MaxOrders \in Nat /\ MaxTroubles \in Nat

VARIABLES
    on, port,   \* settings daemonEnabled and proxyPort
    app,        \* the app runs
    plist,      \* the launch agent's file is there
    loaded,     \* launchd has the service, and keeps it alive
    daemon,     \* its process: where it is and the port it read
    taken,      \* ports that other programs listen on
    task,       \* what the app is doing: its users' commands, start, watchdog
    orders, troubles

lifeVars == <<on, port, app, plist, loaded, daemon, taken, task, orders, troubles>>

Tasks == Users \union {"start", "watch"}

(* do: the call under way; was: the switch before it was changed; again: a *)
(* restart for a changed port follows.                                     *)
Quiet == [at |-> "idle", do |-> "start", port |-> 0, was |-> FALSE, again |-> FALSE]
Gone == [at |-> "none", port |-> 0]

LifeInit ==
    /\ on \in BOOLEAN /\ port \in Ports
    /\ app = FALSE
    /\ plist = FALSE /\ loaded = FALSE /\ daemon = Gone
    /\ taken = {}
    /\ task = [t \in Tasks |-> Quiet]
    /\ orders = 0 /\ troubles = 0

Order == orders < MaxOrders /\ orders' = orders + 1
Trouble == troubles < MaxTroubles /\ troubles' = troubles + 1

(* probe_tcp_port: anybody's listener will do.                             *)
Reachable(p) == p \in taken \/ (daemon.at = "up" /\ daemon.port = p)
(* (Variant: what launchd keeps alive runs.)                               *)
DaemonLoaded == loaded
DaemonRuns == loaded /\ Reachable(port)

Goto(t, at) == task' = [task EXCEPT ![t].at = at]
Do(t, what) == task' = [task EXCEPT ![t].at = "begin", ![t].do = what]
Machine == <<plist, loaded, daemon, taken>>
Settings == <<on, port>>

-----------------------------------------------------------------------------
(* settings_update, proxy_restart.                                         *)

SaveSettings(u) ==
    /\ app /\ task[u].at = "idle" /\ Order
    /\ on' \in BOOLEAN /\ port' \in Ports
    /\ task' = [task EXCEPT ![u] =
         [at |-> IF on' # on \/ (port' # port /\ on') THEN "begin" ELSE "idle",
          do |-> IF on' = on THEN "restart" ELSE IF on' THEN "toggle on" ELSE "toggle off",
          port |-> 0, was |-> on, again |-> on' # on /\ on' /\ port' # port]]
    /\ UNCHANGED <<app, Machine, troubles>>

AskRestart(u) ==
    /\ app /\ task[u].at = "idle" /\ Order
    /\ Do(u, "restart")
    /\ UNCHANGED <<Settings, app, Machine, troubles>>

-----------------------------------------------------------------------------
(* The calls: read the port, unload, write the agent's file and load,      *)
(* then wait for the port.                                                 *)

Begin(t) ==
    /\ task[t].at = "begin"
    /\ task' = [task EXCEPT ![t].at = "unload", ![t].port = port]
    /\ UNCHANGED <<Settings, app, Machine, orders, troubles>>

Stopping(t) == task[t].do = "toggle off"

(* bootout ends the process; without the agent's file nothing is done.     *)
Unload(t) ==
    /\ task[t].at = "unload"
    /\ IF plist THEN loaded' = FALSE /\ daemon' = Gone ELSE UNCHANGED <<loaded, daemon>>
    /\ Goto(t, IF Stopping(t) THEN "ebb" ELSE "load")
    /\ UNCHANGED <<Settings, app, plist, taken, orders, troubles>>

(* Only start goes on when bootout fails.                                  *)
UnloadFails(t) ==
    /\ task[t].at = "unload" /\ plist /\ Trouble
    /\ Goto(t, IF task[t].do \in {"start", "toggle on"} THEN "load" ELSE "failed")
    /\ UNCHANGED <<Settings, app, Machine, orders>>

(* RunAtLoad starts the process; loading what is loaded is no error.       *)
Load(t) ==
    /\ task[t].at = "load"
    /\ plist' = TRUE /\ loaded' = TRUE
    /\ daemon' = IF loaded THEN daemon ELSE [Gone EXCEPT !.at = "boot"]
    /\ Goto(t, "wait")
    /\ UNCHANGED <<Settings, app, taken, orders, troubles>>

LoadFails(t) ==
    /\ task[t].at = "load" /\ Trouble
    /\ plist' = TRUE
    /\ Goto(t, "failed")
    /\ UNCHANGED <<Settings, app, loaded, daemon, taken, orders>>

(* The port answers, or does not for three seconds.                        *)
Await(t) ==
    /\ task[t].at \in {"wait", "ebb"}
    /\ \/ Goto(t, IF (task[t].at = "wait") = Reachable(task[t].port) THEN "done" ELSE "failed")
       \/ (task[t].at = "wait") = Reachable(task[t].port) /\ Goto(t, "done")
    /\ UNCHANGED <<Settings, app, Machine, orders, troubles>>

(* A switch that failed is put back; a restart that failed is logged.      *)
Finish(t) ==
    /\ task[t].at \in {"done", "failed"}
    /\ IF task[t].at = "failed" /\ task[t].do \in {"toggle on", "toggle off"}
       THEN on' = task[t].was ELSE on' = on
    /\ IF task[t].at = "done" /\ task[t].again
       THEN task' = [task EXCEPT ![t] = [Quiet EXCEPT !.at = "begin", !.do = "restart"]]
       ELSE task' = [task EXCEPT ![t] = Quiet]
    /\ UNCHANGED <<port, app, Machine, orders, troubles>>

-----------------------------------------------------------------------------
(* The start of the app, its watchdog and its end.                         *)

Launch ==
    /\ ~app /\ Order
    /\ app' = TRUE
    /\ task' = [task EXCEPT !["start"].at = IF on THEN "check" ELSE "idle"]
    /\ UNCHANGED <<Settings, Machine, troubles>>

(* A daemon that runs is restarted if the app has a new version.           *)
StartCheck ==
    /\ task["start"].at = "check"
    /\ IF DaemonRuns THEN Do("start", "restart") \/ Goto("start", "idle") ELSE Do("start", "start")
    /\ UNCHANGED <<Settings, app, Machine, orders, troubles>>

(* Every 30 seconds.  A daemon that starts is given that time: it is up or *)
(* gone before the next round.                                             *)
WatchRead ==
    /\ app /\ task["watch"].at = "idle"
    /\ daemon.at \notin {"boot", "bind"}
    /\ on
    /\ Goto("watch", "check")
    /\ UNCHANGED <<Settings, app, Machine, orders, troubles>>

WatchCheck ==
    /\ task["watch"].at = "check"
    /\ IF DaemonRuns THEN Goto("watch", "idle") ELSE Do("watch", "start")
    /\ UNCHANGED <<Settings, app, Machine, orders, troubles>>

(* The menu entry starts a stop and ends the process without waiting for   *)
(* it: it has unloaded the service, or it has not.                         *)
Quit ==
    /\ app /\ Order
    /\ app' = FALSE
    /\ task' = [t \in Tasks |-> Quiet]
    /\ \/ loaded' = FALSE /\ daemon' = Gone
       \/ UNCHANGED <<loaded, daemon>>
    /\ UNCHANGED <<Settings, plist, taken, troubles>>

-----------------------------------------------------------------------------
(* launchd and the daemon.                                                 *)

KeepAlive ==
    /\ loaded /\ daemon.at = "none"
    /\ daemon' = [Gone EXCEPT !.at = "boot"]
    /\ UNCHANGED <<Settings, app, plist, loaded, taken, task, orders, troubles>>

DaemonReads ==
    /\ daemon.at = "boot"
    /\ daemon' = [at |-> "bind", port |-> port]
    /\ UNCHANGED <<Settings, app, plist, loaded, taken, task, orders, troubles>>

DaemonBinds ==
    /\ daemon.at = "bind"
    /\ daemon' = IF daemon.port \in taken THEN Gone ELSE [daemon EXCEPT !.at = "up"]
    /\ UNCHANGED <<Settings, app, plist, loaded, taken, task, orders, troubles>>

DaemonCrashes ==
    /\ daemon.at # "none" /\ Trouble
    /\ daemon' = Gone
    /\ UNCHANGED <<Settings, app, plist, loaded, taken, task, orders>>

(* The user logs in again: launchd loads what has a file.                  *)
Login ==
    /\ Trouble
    /\ app' = FALSE /\ task' = [t \in Tasks |-> Quiet]
    /\ loaded' = plist /\ daemon' = Gone
    /\ UNCHANGED <<Settings, plist, taken, orders>>

Foreign ==
    /\ \E p \in Ports :
         \/ /\ p \notin taken /\ ~(daemon.at = "up" /\ daemon.port = p) /\ Trouble
            /\ taken' = taken \union {p}
         \/ /\ p \in taken /\ taken' = taken \ {p} /\ UNCHANGED troubles
    /\ UNCHANGED <<Settings, app, plist, loaded, daemon, task, orders>>

-----------------------------------------------------------------------------
Call(t) == Begin(t) \/ Unload(t) \/ Load(t) \/ Await(t) \/ Finish(t)

LifeNext ==
    \/ \E u \in Users : SaveSettings(u) \/ AskRestart(u)
    \/ \E t \in Tasks : Call(t) \/ UnloadFails(t) \/ LoadFails(t)
    \/ Launch \/ StartCheck \/ WatchRead \/ WatchCheck \/ Quit
    \/ KeepAlive \/ DaemonReads \/ DaemonBinds \/ DaemonCrashes \/ Login \/ Foreign

(* Calls and checks come to their end, the watchdog goes round, launchd    *)
(* and the daemon do their work; nobody has to give an order.              *)
LifeSpec == LifeInit /\ [][LifeNext]_lifeVars
FairLifeSpec ==
    /\ LifeSpec
    /\ \A t \in Tasks : WF_lifeVars(Call(t))
    /\ WF_lifeVars(StartCheck) /\ WF_lifeVars(WatchRead \/ WatchCheck)
    /\ WF_lifeVars(KeepAlive) /\ WF_lifeVars(DaemonReads \/ DaemonBinds)

-----------------------------------------------------------------------------
(* Properties.                                                             *)

LifeTypeOK ==
    /\ on \in BOOLEAN /\ port \in Ports /\ app \in BOOLEAN
    /\ daemon \in [at : {"none", "boot", "bind", "up"}, port : Ports \union {0}]
    /\ daemon.at # "none" => loaded
    /\ loaded => plist
    /\ ~app => \A t \in Tasks : task[t].at = "idle"

(* With the switch on and the port free, the app gets a daemon to listen   *)
(* on the port of the settings in the end, whatever overlapped or failed   *)
(* before, and whichever port it last listened on.                         *)
Wanted == app /\ on /\ port \notin taken
Converges == <>[]Wanted => <>[](daemon.at = "up" /\ daemon.port = port)
=============================================================================
