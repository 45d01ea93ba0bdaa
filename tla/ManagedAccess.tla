--------------------------- MODULE ManagedAccess ---------------------------
(***************************************************************************)
(* What a managed instance is promised, without wrapper, rows or sweeper:  *)
(* its token opens the proxy once, for one key at a time that may be       *)
(* switched while it is open, and when it closes it closes for good.       *)
(***************************************************************************)
CONSTANTS Instances, Keys, NoKey

VARIABLES
    access,  \* "new", "open" or "closed"
    route    \* the key the token leads to while it is open

vars == <<access, route>>

Init ==
    /\ access = [i \in Instances |-> "new"]
    /\ route = [i \in Instances |-> NoKey]

Open(i, k) ==
    /\ access[i] = "new"
    /\ access' = [access EXCEPT ![i] = "open"]
    /\ route' = [route EXCEPT ![i] = k]

Switch(i, k) ==
    /\ access[i] = "open"
    /\ route' = [route EXCEPT ![i] = k]
    /\ UNCHANGED access

(* A sweep or a cleanup closes several at once; a launch that fails early  *)
(* closes a token that never opened.                                       *)
Close(S) ==
    /\ \A i \in S : access[i] # "closed"
    /\ access' = [i \in Instances |-> IF i \in S THEN "closed" ELSE access[i]]
    /\ route' = [i \in Instances |-> IF i \in S THEN NoKey ELSE route[i]]

Next ==
    \/ \E i \in Instances, k \in Keys : Open(i, k) \/ Switch(i, k)
    \/ \E S \in SUBSET Instances : Close(S)

Spec == Init /\ [][Next]_vars
=============================================================================
