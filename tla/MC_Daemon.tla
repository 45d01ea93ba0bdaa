----------------------------- MODULE MC_Daemon -----------------------------
(***************************************************************************)
(* Instances of the two modules about the link between app and daemon.     *)
(* They share no state, so a run checks them one at a time: `subject` says *)
(* which of them moves, and their state spaces add up.                     *)
(***************************************************************************)
EXTENDS ConsoleStream, DaemonLifecycle

VARIABLE subject

\* With breaks of the connection only its events redraw the tray; whatever
\* else does is combined with failed readings and whole frames (subject
\* "tray").
MCEnds == {Ok, Rejected}

allVars == <<subject, streamVars, lifeVars>>

MCInit ==
    /\ subject \in {"stream", "tray", "life"}
    /\ StreamInit /\ LifeInit
    /\ subject = "life" => ~up
    /\ subject = "tray" => up
    /\ subject # "life" => ~on /\ port = 1

MCNext ==
    /\ UNCHANGED subject
    /\ \/ /\ subject = "stream" /\ StreamNext /\ UNCHANGED lifeVars
          /\ refresh'[Timer] = NoRefresh
          /\ breaks' # breaks => refresh' = refresh
       \/ /\ subject = "tray" /\ StreamNext /\ UNCHANGED lifeVars
          /\ breaks' # breaks => refresh' # refresh
          /\ refresh'[Timer] # refresh[Timer] => rows # {}
          /\ buffer' = <<>>
       \/ subject = "life" /\ LifeNext /\ UNCHANGED streamVars

\* StreamFairness and the fairness of FairLifeSpec, each for its subject.
Streaming(A) == subject # "life" /\ A /\ UNCHANGED <<subject, lifeVars>>
Living(A) == subject = "life" /\ A /\ UNCHANGED <<subject, streamVars>>
MCSpec ==
    /\ MCInit /\ [][MCNext]_allVars
    /\ WF_allVars(Streaming(Connect \/ ConnectFails))
    /\ WF_allVars(Streaming(WaitEnds))
    /\ WF_allVars(Streaming(Break))
    /\ WF_allVars(Streaming(Serialize))
    /\ WF_allVars(Streaming(\E n \in 1..Len(wire) : Receive(n)))
    /\ WF_allVars(Streaming(link = "open" /\ ~up /\ ConnectionLost))
    /\ \A t \in Tasks : WF_allVars(Living(Call(t)))
    /\ WF_allVars(Living(StartCheck)) /\ WF_allVars(Living(WatchRead \/ WatchCheck))
    /\ WF_allVars(Living(KeepAlive)) /\ WF_allVars(Living(DaemonReads \/ DaemonBinds))

\* Every variable of both modules keeps its type, ring and wait their limits.
TypesOK == StreamTypeOK /\ LifeTypeOK
=============================================================================
