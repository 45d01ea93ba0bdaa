--------------------------- MODULE Daemon_proofs ---------------------------
(***************************************************************************)
(* Proofs about the link between app and daemon, for any number of users,  *)
(* ports, requests and faults and any sizes of ring and wait: the types of *)
(* both modules, and that the live stream reaches the window in order.     *)
(***************************************************************************)
EXTENDS MC_Daemon, WellFoundedInduction, SequenceTheorems, TLAPS

----------------------------------------------------------------------------
(* Daemon lifecycle: its types.  A call that is under way names a port     *)
(* once it has read it, and nothing is under way when the app is gone.     *)

TaskState ==
    [at : {"idle", "begin", "unload", "load", "wait", "ebb", "done", "failed", "check"},
     do : {"start", "restart", "toggle on", "toggle off"},
     port : Ports \union {0}, was : BOOLEAN, again : BOOLEAN]

LifeInv ==
    /\ LifeTypeOK
    /\ task \in [Tasks -> TaskState]
    /\ loaded \in BOOLEAN /\ plist \in BOOLEAN

LEMMA QuietIsTask == Quiet \in TaskState /\ Quiet.at = "idle" /\ Gone.at = "none"
BY DEF Quiet, TaskState, Gone

LEMMA GotoKeepsTasks ==
    ASSUME task \in [Tasks -> TaskState], NEW t \in Tasks,
           NEW at \in {"idle", "begin", "unload", "load", "wait", "ebb", "done", "failed", "check"},
           Goto(t, at)
    PROVE  task' \in [Tasks -> TaskState]
BY DEF Goto, TaskState

LEMMA DoKeepsTasks ==
    ASSUME task \in [Tasks -> TaskState], NEW t \in Tasks,
           NEW what \in {"start", "restart", "toggle on", "toggle off"}, Do(t, what)
    PROVE  task' \in [Tasks -> TaskState]
BY DEF Do, TaskState

(* A task that is not idle belongs to an app that runs.                    *)
LEMMA BusyMeansApp ==
    ASSUME LifeInv, NEW t \in Tasks, task[t].at # "idle"
    PROVE  app
BY DEF LifeInv, LifeTypeOK

LEMMA NamedTasks == {"start", "watch"} \subseteq Tasks /\ Users \subseteq Tasks
BY DEF Tasks

LEMMA LifeInitInv == LifeInit => LifeInv
<1> SUFFICES ASSUME LifeInit PROVE LifeInv
  OBVIOUS
<1>1. task \in [Tasks -> TaskState] /\ \A t \in Tasks : task[t].at = "idle"
  BY QuietIsTask DEF LifeInit
<1>2. daemon \in [at : {"none", "boot", "bind", "up"}, port : Ports \union {0}]
  BY DEF LifeInit, Gone
<1> QED BY <1>1, <1>2, QuietIsTask DEF LifeInit, LifeInv, LifeTypeOK

LEMMA CallKeepsLifeInv ==
    ASSUME LifeInv, NEW t \in Tasks, Call(t) \/ UnloadFails(t) \/ LoadFails(t)
    PROVE  LifeInv'
<1>1. CASE Begin(t)
  <2>1. app
    BY <1>1, BusyMeansApp DEF Begin
  <2>2. task' \in [Tasks -> TaskState]
    <3>1. task[t] \in TaskState /\ port \in Ports \union {0}
      BY DEF LifeInv, LifeTypeOK
    <3>2. [[task[t] EXCEPT !.at = "unload"] EXCEPT !.port = port] \in TaskState
      BY <3>1 DEF TaskState
    <3>3. task' = [task EXCEPT ![t] = [[task[t] EXCEPT !.at = "unload"] EXCEPT !.port = port]]
      BY <1>1, <3>1 DEF Begin, LifeInv
    <3> QED BY <3>2, <3>3 DEF LifeInv
  <2> QED BY <1>1, <2>1, <2>2 DEF Begin, LifeInv, LifeTypeOK, Settings, Machine
<1>2. CASE Unload(t)
  <2>1. app
    BY <1>2, BusyMeansApp DEF Unload
  <2>2. task' \in [Tasks -> TaskState]
    BY <1>2, <2>1, GotoKeepsTasks DEF Unload, LifeInv
  <2>3. CASE plist
    <3>1. loaded' = FALSE /\ daemon' = Gone
      BY <1>2, <2>3 DEF Unload
    <3>2. UNCHANGED <<on, port, app, plist>>
      BY <1>2 DEF Unload, Settings
    <3> QED BY <2>1, <2>2, <3>1, <3>2 DEF LifeInv, LifeTypeOK, Gone
  <2>4. CASE ~plist
    BY <1>2, <2>1, <2>2, <2>4 DEF Unload, LifeInv, LifeTypeOK, Settings
  <2> QED BY <2>3, <2>4
<1>3. CASE UnloadFails(t)
  <2>1. app
    BY <1>3, BusyMeansApp DEF UnloadFails
  <2>2. task' \in [Tasks -> TaskState]
    BY <1>3, <2>1, GotoKeepsTasks DEF UnloadFails, LifeInv
  <2> QED BY <1>3, <2>1, <2>2 DEF UnloadFails, LifeInv, LifeTypeOK, Settings, Machine
<1>4. CASE Load(t)
  <2>1. app
    BY <1>4, BusyMeansApp DEF Load
  <2>2. task' \in [Tasks -> TaskState]
    BY <1>4, <2>1, GotoKeepsTasks DEF Load, LifeInv
  <2> QED BY <1>4, <2>1, <2>2 DEF Load, LifeInv, LifeTypeOK, Gone, Settings
<1>5. CASE LoadFails(t)
  <2>1. app
    BY <1>5, BusyMeansApp DEF LoadFails
  <2>2. task' \in [Tasks -> TaskState]
    BY <1>5, <2>1, GotoKeepsTasks DEF LoadFails, LifeInv
  <2> QED BY <1>5, <2>1, <2>2 DEF LoadFails, LifeInv, LifeTypeOK, Settings
<1>6. CASE Await(t)
  <2>1. app
    BY <1>6, BusyMeansApp DEF Await
  <2>2. task' \in [Tasks -> TaskState]
    BY <1>6, <2>1, GotoKeepsTasks DEF Await, LifeInv
  <2> QED BY <1>6, <2>1, <2>2 DEF Await, LifeInv, LifeTypeOK, Settings, Machine
<1>7. CASE Finish(t)
  <2>1. app
    BY <1>7, BusyMeansApp DEF Finish
  <2>2. task' \in [Tasks -> TaskState] /\ on' \in BOOLEAN
    <3>1. on' \in BOOLEAN
      BY <1>7 DEF Finish, LifeInv, LifeTypeOK, TaskState
    <3>2. [Quiet EXCEPT !.at = "begin", !.do = "restart"] \in TaskState
      BY DEF Quiet, TaskState
    <3> QED BY <1>7, <3>1, <3>2, QuietIsTask DEF Finish, LifeInv
  <2> QED BY <1>7, <2>1, <2>2 DEF Finish, LifeInv, LifeTypeOK, Machine
<1> QED BY <1>1, <1>2, <1>3, <1>4, <1>5, <1>6, <1>7 DEF Call

LEMMA AppKeepsLifeInv ==
    ASSUME LifeInv,
           \/ \E u \in Users : SaveSettings(u) \/ AskRestart(u)
           \/ Launch \/ StartCheck \/ WatchRead \/ WatchCheck \/ Quit
    PROVE  LifeInv'
<1> USE NamedTasks
<1>1. ASSUME NEW u \in Users, SaveSettings(u) PROVE LifeInv'
  <2>1. task' \in [Tasks -> TaskState]
    BY <1>1 DEF SaveSettings, LifeInv, LifeTypeOK, TaskState
  <2> QED BY <1>1, <2>1 DEF SaveSettings, LifeInv, LifeTypeOK, Machine
<1>2. ASSUME NEW u \in Users, AskRestart(u) PROVE LifeInv'
  <2>1. task' \in [Tasks -> TaskState]
    BY <1>2, DoKeepsTasks DEF AskRestart, LifeInv
  <2> QED BY <1>2, <2>1 DEF AskRestart, LifeInv, LifeTypeOK, Machine, Settings
<1>3. CASE Launch
  <2>1. task' \in [Tasks -> TaskState]
    <3>1. \A at \in {"check", "idle"} : [task EXCEPT !["start"].at = at] \in [Tasks -> TaskState]
      BY DEF LifeInv, TaskState
    <3> QED BY <1>3, <3>1 DEF Launch
  <2> QED BY <1>3, <2>1 DEF Launch, LifeInv, LifeTypeOK, Machine, Settings
<1>4. CASE StartCheck
  <2>1. app
    BY <1>4, BusyMeansApp DEF StartCheck
  <2>2. task' \in [Tasks -> TaskState]
    BY <1>4, <2>1, GotoKeepsTasks, DoKeepsTasks DEF StartCheck, LifeInv
  <2> QED BY <1>4, <2>1, <2>2 DEF StartCheck, LifeInv, LifeTypeOK, Machine, Settings
<1>5. CASE WatchRead
  <2>1. task' \in [Tasks -> TaskState]
    BY <1>5, GotoKeepsTasks DEF WatchRead, LifeInv
  <2> QED BY <1>5, <2>1 DEF WatchRead, LifeInv, LifeTypeOK, Machine, Settings
<1>6. CASE WatchCheck
  <2>1. app
    BY <1>6, BusyMeansApp DEF WatchCheck
  <2>2. task' \in [Tasks -> TaskState]
    BY <1>6, <2>1, GotoKeepsTasks, DoKeepsTasks DEF WatchCheck, LifeInv
  <2> QED BY <1>6, <2>1, <2>2 DEF WatchCheck, LifeInv, LifeTypeOK, Machine, Settings
<1>7. CASE Quit
  <2>1. task' \in [Tasks -> TaskState] /\ \A t \in Tasks : task'[t].at = "idle"
    BY <1>7, QuietIsTask DEF Quit
  <2>2. (loaded' = FALSE /\ daemon' = Gone) \/ UNCHANGED <<loaded, daemon>>
    BY <1>7 DEF Quit
  <2>3. on' = on /\ port' = port /\ plist' = plist /\ app' = FALSE
    BY <1>7 DEF Quit, Settings
  <2>4. CASE loaded' = FALSE /\ daemon' = Gone
    BY <2>1, <2>3, <2>4 DEF LifeInv, LifeTypeOK, Gone
  <2>5. CASE UNCHANGED <<loaded, daemon>>
    BY <2>1, <2>3, <2>5 DEF LifeInv, LifeTypeOK
  <2> QED BY <2>2, <2>4, <2>5
<1> QED BY <1>1, <1>2, <1>3, <1>4, <1>5, <1>6, <1>7

LEMMA SystemKeepsLifeInv ==
    ASSUME LifeInv,
           KeepAlive \/ DaemonReads \/ DaemonBinds \/ DaemonCrashes \/ Login \/ Foreign
    PROVE  LifeInv'
<1>1. CASE KeepAlive
  BY <1>1 DEF KeepAlive, LifeInv, LifeTypeOK, Gone, Settings
<1>2. CASE DaemonReads
  BY <1>2 DEF DaemonReads, LifeInv, LifeTypeOK, Settings
<1>3. CASE DaemonBinds
  BY <1>3 DEF DaemonBinds, LifeInv, LifeTypeOK, Gone, Settings
<1>4. CASE DaemonCrashes
  BY <1>4 DEF DaemonCrashes, LifeInv, LifeTypeOK, Gone, Settings
<1>5. CASE Login
  BY <1>5, QuietIsTask DEF Login, LifeInv, LifeTypeOK, Gone, Settings
<1>6. CASE Foreign
  BY <1>6 DEF Foreign, LifeInv, LifeTypeOK, Settings
<1> QED BY <1>1, <1>2, <1>3, <1>4, <1>5, <1>6

LEMMA LifeNextKeepsInv == LifeInv /\ [LifeNext]_lifeVars => LifeInv'
<1> SUFFICES ASSUME LifeInv, [LifeNext]_lifeVars PROVE LifeInv'
  OBVIOUS
<1>1. CASE LifeNext
  BY <1>1, CallKeepsLifeInv, AppKeepsLifeInv, SystemKeepsLifeInv DEF LifeNext
<1>2. CASE UNCHANGED lifeVars
  BY <1>2 DEF LifeInv, LifeTypeOK, lifeVars
<1> QED BY <1>1, <1>2

----------------------------------------------------------------------------
(* Live stream: induction on the pieces of a chunk by way of a least       *)
(* counterexample.                                                         *)

LEMMA LeastNumber ==
    ASSUME NEW T \in SUBSET Nat, T # {}
    PROVE  \E m \in T : \A k \in T : m <= k
<1> DEFINE R == OpToRel(<, Nat)
<1>1. R = {ss \in Nat \X Nat : ss[1] < ss[2]}
  BY DEF OpToRel
<1>2. PICK m \in T : \A k \in T : ~ <<k, m>> \in R
  <2> HIDE DEF R
  <2> QED BY NatLessThanWellFounded, WFMin DEF R
<1>3. ASSUME NEW k \in T PROVE m <= k
  <2>1. ~ <<k, m>> \in R
    BY <1>2
  <2> HIDE DEF R
  <2>2. k \in Nat /\ m \in Nat
    OBVIOUS
  <2> QED BY <1>1, <2>1, <2>2
<1> QED BY <1>3

Events == [r : Requests, shape : Terminal \union {Pending}]
Pieces == [e : Events, part : {"text", "rest", "blank"}]

(* The last blank line of a stretch is the last.                           *)
LEMMA LastBlankIsLast ==
    ASSUME NEW ps \in Seq(Pieces)
    PROVE  /\ LastBlank(ps) \in 0..Len(ps)
           /\ \A k \in Blanks(ps) : k <= LastBlank(ps)
<1>1. Blanks(ps) \subseteq 1..Len(ps)
  BY DEF Blanks
<1>2. CASE Blanks(ps) = {}
  BY <1>2 DEF LastBlank
<1>3. CASE Blanks(ps) # {}
  <2> DEFINE T == {Len(ps) - k : k \in Blanks(ps)}
  <2>1. T \in SUBSET Nat /\ T # {}
    BY <1>1, <1>3
  <2>2. PICK m \in T : \A k \in T : m <= k
    BY <2>1, LeastNumber
  <2>3. PICK n \in Blanks(ps) : m = Len(ps) - n
    BY <2>2
  <2>4. \A k \in Blanks(ps) : k <= n
    <3> SUFFICES ASSUME NEW k \in Blanks(ps) PROVE k <= n
      OBVIOUS
    <3>1. m <= Len(ps) - k
      BY <2>2
    <3>2. k \in Nat /\ n \in Nat /\ Len(ps) \in Nat
      BY <1>1
    <3> QED BY <3>1, <3>2, <2>3
  <2> QED BY <2>3, <2>4, <1>1, <1>3 DEF LastBlank
<1> QED BY <1>2, <1>3

(* The event of a frame that ended at a blank line was in the two pieces   *)
(* before it.                                                              *)
Made(ps, b, e) ==
    /\ b \in DOMAIN ps /\ b >= 3 /\ ps[b].part = "blank"
    /\ ps[b - 2] = [e |-> e, part |-> "text"] /\ ps[b - 1] = [e |-> e, part |-> "rest"]

LEMMA ParsedIsMade ==
    ASSUME NEW ps \in Seq(Pieces), NEW n \in DOMAIN ps, ps[n].part = "blank"
    PROVE  \/ Parsed(FrameAt(ps, n)) = <<>>
           \/ \E e \in Events : Parsed(FrameAt(ps, n)) = <<e>> /\ Made(ps, n, e)
<1> DEFINE front == SubSeq(ps, 1, n - 1)
           from == LastBlank(front)
           frame == SubSeq(ps, from + 1, n - 1)
<1>1. n \in 1..Len(ps) /\ Len(ps) \in Nat
  OBVIOUS
<1>2. front \in Seq(Pieces) /\ Len(front) = n - 1
  BY <1>1
<1>3. from \in 0..(n - 1)
  BY <1>2, LastBlankIsLast
<1>4. FrameAt(ps, n) = frame
  BY DEF FrameAt
<1> HIDE DEF front, from
<1>5. frame \in Seq(Pieces) /\ Len(frame) = n - 1 - from /\ \A k \in 1..(n - 1 - from) : frame[k] = ps[from + k]
  BY <1>1, <1>3
<1> HIDE DEF frame
<1> SUFFICES ASSUME Parsed(frame) # <<>>
             PROVE  \E e \in Events : Parsed(frame) = <<e>> /\ Made(ps, n, e)
  BY <1>4
<1>6. /\ Len(frame) = 2 /\ frame[1].part = "text" /\ frame[2].part = "rest"
      /\ frame[1].e = frame[2].e /\ Parsed(frame) = <<frame[1].e>>
  BY DEF Parsed
<1>7. n - 1 - from = 2 /\ n >= 3
  <2>1. n - 1 - from = 2
    BY <1>5, <1>6
  <2>2. n \in Int /\ from \in Int /\ from >= 0
    BY <1>1, <1>3
  <2> QED BY <2>1, <2>2
<1>10. from = n - 3 /\ from + 1 = n - 2 /\ from + 2 = n - 1 /\ 1 \in 1..(n - 1 - from) /\ 2 \in 1..(n - 1 - from)
  BY <1>7, <1>3, <1>1
<1>8. frame[1] = ps[n - 2] /\ frame[2] = ps[n - 1]
  BY <1>5, <1>10
<1>9. ps[n - 2] \in Pieces /\ ps[n - 1] \in Pieces
  BY <1>1, <1>7
<1> QED BY <1>6, <1>7, <1>8, <1>9 DEF Made, Pieces

(* What the blank line n adds.                                             *)
Added(ps, n) == IF ps[n].part = "blank" THEN Parsed(FrameAt(ps, n)) ELSE <<>>

LEMMA AddedIsMade ==
    ASSUME NEW ps \in Seq(Pieces), NEW n \in DOMAIN ps
    PROVE  \/ Added(ps, n) = <<>>
           \/ \E e \in Events : Added(ps, n) = <<e>> /\ Made(ps, n, e)
BY ParsedIsMade DEF Added

LEMMA EmittedExists ==
    ASSUME NEW ps \in Seq(Pieces)
    PROVE  \E g : /\ g = [n \in 0..Len(ps) |-> IF n = 0 THEN <<>> ELSE g[n - 1] \o Added(ps, n)]
                  /\ Emitted(ps) = g[Len(ps)]
<1> DEFINE Is(g, m) == g = [n \in 0..m |-> IF n = 0 THEN <<>> ELSE g[n - 1] \o Added(ps, n)]
           T == {m \in Nat : ~ \E g : Is(g, m)}
<1>1. T = {}
  <2> SUFFICES ASSUME T # {} PROVE FALSE
    OBVIOUS
  <2>1. PICK m \in T : \A k \in T : m <= k
    <3>1. T \in SUBSET Nat
      OBVIOUS
    <3> HIDE DEF T
    <3> QED BY <3>1, LeastNumber
  <2>2. CASE m = 0
    <3>1. Is([n \in 0..0 |-> <<>>], 0)
      OBVIOUS
    <3> QED BY <3>1, <2>1, <2>2
  <2>3. CASE m # 0
    <3>1. m \in Nat /\ m - 1 \in Nat /\ m - 1 \notin T
      <4> HIDE DEF Is
      <4>1. m \in Nat /\ m - 1 \in Nat
        BY <2>1, <2>3
      <4>2. m - 1 \in T => m <= m - 1
        BY <2>1
      <4> HIDE DEF T
      <4> QED BY <4>1, <4>2
    <3>2. PICK g : Is(g, m - 1)
      <4> HIDE DEF Is
      <4> QED BY <3>1
    <3> DEFINE h == [n \in 0..m |-> IF n = m THEN g[m - 1] \o Added(ps, m) ELSE g[n]]
    <3>3. \A n \in 0..m : h[n] = IF n = 0 THEN <<>> ELSE h[n - 1] \o Added(ps, n)
      <4> TAKE n \in 0..m
      <4>1. CASE n = m
        <5>1. h[n] = g[m - 1] \o Added(ps, m) /\ h[n - 1] = g[m - 1]
          BY <4>1, <3>1
        <5> QED BY <5>1, <4>1, <2>3
      <4>2. CASE n # m
        <5>1. n \in 0..(m - 1)
          BY <4>2, <3>1
        <5>2. g[n] = IF n = 0 THEN <<>> ELSE g[n - 1] \o Added(ps, n)
          BY <5>1, <3>2
        <5>3. h[n] = g[n] /\ (n # 0 => h[n - 1] = g[n - 1])
          BY <4>2, <5>1, <3>1
        <5> QED BY <5>2, <5>3
      <4> QED BY <4>1, <4>2
    <3>4. Is(h, m)
      BY <3>3
    <3> QED BY <3>4, <2>1
  <2> QED BY <2>2, <2>3
<1>2. \E g : Is(g, Len(ps))
  <2> HIDE DEF Is
  <2>1. Len(ps) \in Nat
    OBVIOUS
  <2> QED BY <1>1, <2>1
<1> DEFINE Upto[n \in 0..Len(ps)] == IF n = 0 THEN <<>>
                ELSE Upto[n - 1] \o (IF ps[n].part = "blank" THEN Parsed(FrameAt(ps, n)) ELSE <<>>)
<1>3. Emitted(ps) = Upto[Len(ps)]
  BY DEF Emitted
<1>4. Is(Upto, Len(ps))
  BY <1>2 DEF Added
<1> QED BY <1>3, <1>4

(* The order of the broadcast, in which an event came only once.           *)
Precedes(s, e, f) == \E i, j \in DOMAIN s : i < j /\ s[i] = e /\ s[j] = f
Once(s) == s \in Seq(Events) /\ \A i, j \in DOMAIN s : s[i] = s[j] => i = j

LEMMA PrecedesIsOrder ==
    ASSUME NEW s, Once(s), NEW e, NEW f
    PROVE  /\ ~ Precedes(s, e, e)
           /\ \A g : Precedes(s, e, f) /\ Precedes(s, f, g) => Precedes(s, e, g)
<1>1. DOMAIN s = 1..Len(s) /\ Len(s) \in Nat
  BY DEF Once
<1>2. ~ Precedes(s, e, e)
  BY <1>1 DEF Once, Precedes
<1>3. ASSUME NEW g, Precedes(s, e, f), Precedes(s, f, g) PROVE Precedes(s, e, g)
  <2>1. PICK i, j \in DOMAIN s : i < j /\ s[i] = e /\ s[j] = f
    BY <1>3 DEF Precedes
  <2>2. PICK k, l \in DOMAIN s : k < l /\ s[k] = f /\ s[l] = g
    BY <1>3 DEF Precedes
  <2>3. j = k
    BY <2>1, <2>2 DEF Once
  <2>4. i < l
    BY <1>1, <2>1, <2>2, <2>3
  <2> QED BY <2>1, <2>2, <2>4 DEF Precedes
<1> QED BY <1>2, <1>3

LEMMA AppendExtendsOrder ==
    ASSUME NEW s, Once(s), NEW x \in Events, x \notin ToSet(s)
    PROVE  /\ Once(Append(s, x)) /\ ToSet(Append(s, x)) = ToSet(s) \union {x}
           /\ \A e, f : Precedes(s, e, f) => Precedes(Append(s, x), e, f)
           /\ \A e \in ToSet(s) : Precedes(Append(s, x), e, x)
<1> DEFINE t == Append(s, x)
<1>1. /\ t \in Seq(Events) /\ Len(t) = Len(s) + 1 /\ t[Len(s) + 1] = x /\ Len(s) \in Nat
      /\ DOMAIN s = 1..Len(s) /\ DOMAIN t = 1..(Len(s) + 1)
      /\ \A i \in 1..Len(s) : t[i] = s[i]
  BY DEF Once
<1> HIDE DEF t
<1>2. ToSet(t) = ToSet(s) \union {x}
  BY <1>1 DEF ToSet
<1>3. \A i \in DOMAIN s : s[i] # x
  BY DEF ToSet
<1>4. Once(t)
  BY <1>1, <1>3 DEF Once
<1>5. \A e, f : Precedes(s, e, f) => Precedes(t, e, f)
  BY <1>1 DEF Precedes
<1>6. ASSUME NEW e \in ToSet(s) PROVE Precedes(t, e, x)
  <2>1. PICK i \in DOMAIN s : s[i] = e
    BY DEF ToSet
  <2>2. i < Len(s) + 1 /\ i \in DOMAIN t /\ Len(s) + 1 \in DOMAIN t /\ t[i] = e /\ t[Len(s) + 1] = x
    BY <1>1, <2>1
  <2> QED BY <2>2 DEF Precedes
<1> QED BY <1>2, <1>4, <1>5, <1>6 DEF t

(* Pieces in their order: by event and within a frame.                     *)
Within(a, b) == (a = "text" /\ b # "text") \/ (a = "rest" /\ b = "blank")
PieceBefore(s, p, q) == Precedes(s, p.e, q.e) \/ (p.e = q.e /\ Within(p.part, q.part))
InLine(s, ps) ==
    /\ ps \in Seq(Pieces)
    /\ \A m, n \in DOMAIN ps : m < n => PieceBefore(s, ps[m], ps[n])

(* Taking pieces out keeps the others in line.                             *)
LEMMA ThinnedStaysInLine ==
    ASSUME NEW s, NEW ps, InLine(s, ps), NEW qs \in Seq(Pieces), NEW h \in [DOMAIN qs -> DOMAIN ps],
           \A i \in DOMAIN qs : qs[i] = ps[h[i]],
           \A i, j \in DOMAIN qs : i < j => h[i] < h[j]
    PROVE  InLine(s, qs)
BY DEF InLine

(* A piece after a blank line belongs to a later event.                    *)
LEMMA AfterBlankIsLater ==
    ASSUME NEW s, Once(s), NEW ps, InLine(s, ps), NEW e \in Events,
           NEW b \in DOMAIN ps, Made(ps, b, e), NEW n \in DOMAIN ps, b < n
    PROVE  Precedes(s, e, ps[n].e)
<1>1. b - 1 \in DOMAIN ps /\ b - 1 < b /\ b \in Int
  BY DEF Made, InLine
<1>2. PieceBefore(s, ps[b - 1], ps[b]) /\ PieceBefore(s, ps[b], ps[n])
  BY <1>1 DEF InLine
<1>3. Precedes(s, e, ps[b].e) \/ e = ps[b].e
  BY <1>2 DEF PieceBefore, Made
<1>4. Precedes(s, ps[b].e, ps[n].e)
  BY <1>2 DEF PieceBefore, Within, Made
<1> QED BY <1>3, <1>4, PrecedesIsOrder

(* What a stretch gives to the window: events of its frames, in order.     *)
LEMMA EmittedInOrder ==
    ASSUME NEW s, Once(s), NEW ps, InLine(s, ps)
    PROVE  /\ Emitted(ps) \in Seq(Events)
           /\ \A k \in DOMAIN Emitted(ps) : \E b \in DOMAIN ps : Made(ps, b, Emitted(ps)[k])
           /\ \A k, l \in DOMAIN Emitted(ps) : k < l => Precedes(s, Emitted(ps)[k], Emitted(ps)[l])
<1>1. ps \in Seq(Pieces) /\ Len(ps) \in Nat /\ DOMAIN ps = 1..Len(ps)
  BY DEF InLine
<1>2. PICK g : /\ g = [n \in 0..Len(ps) |-> IF n = 0 THEN <<>> ELSE g[n - 1] \o Added(ps, n)]
               /\ Emitted(ps) = g[Len(ps)]
  BY <1>1, EmittedExists
<1> DEFINE Good(out, n) ==
             /\ out \in Seq(Events)
             /\ \A k \in DOMAIN out : \E b \in DOMAIN ps : b <= n /\ Made(ps, b, out[k])
             /\ \A k, l \in DOMAIN out : k < l => Precedes(s, out[k], out[l])
           T == {n \in 0..Len(ps) : ~ Good(g[n], n)}
<1>3. Good(g[0], 0)
  <2>1. g[0] = <<>>
    BY <1>1, <1>2
  <2>2. DOMAIN <<>> = {} /\ <<>> \in Seq(Events)
    OBVIOUS
  <2> QED BY <2>1, <2>2
<1>4. ASSUME NEW n \in 1..Len(ps), Good(g[n - 1], n - 1) PROVE Good(g[n], n)
  <2> DEFINE old == g[n - 1]
             new == old \o Added(ps, n)
  <2>1. g[n] = new
    <3>1. \A k \in 0..Len(ps) : g[k] = IF k = 0 THEN <<>> ELSE g[k - 1] \o Added(ps, k)
      BY <1>2
    <3>2. n \in 0..Len(ps) /\ n # 0
      BY <1>1
    <3> QED BY <3>1, <3>2
  <2>2. n \in DOMAIN ps /\ n \in Nat /\ n - 1 < n
    BY <1>1
  <2>3. old \in Seq(Events)
    BY <1>4
  <2>4. CASE Added(ps, n) = <<>>
    <3>1. new = old
      BY <2>3, <2>4
    <3>2. \A k \in DOMAIN old : \E b \in DOMAIN ps : b <= n /\ Made(ps, b, old[k])
      BY <1>4, <1>1, <2>2
    <3> QED BY <1>4, <2>1, <3>1, <3>2
  <2>5. ASSUME NEW e \in Events, Added(ps, n) = <<e>>, Made(ps, n, e) PROVE Good(g[n], n)
    <3> HIDE DEF old
    <3>1. /\ new \in Seq(Events) /\ Len(old) \in Nat /\ DOMAIN old = 1..Len(old)
          /\ DOMAIN new = 1..(Len(old) + 1) /\ new[Len(old) + 1] = e
          /\ \A k \in 1..Len(old) : new[k] = old[k]
      BY <2>3, <2>5
    <3> HIDE DEF new
    <3>2. ASSUME NEW k \in 1..Len(old)
          PROVE  \E b \in DOMAIN ps : b <= n - 1 /\ Made(ps, b, new[k]) /\ new[k] \in Events
      <4>1. k \in DOMAIN old /\ new[k] = old[k] /\ old[k] \in Events
        BY <3>1, <2>3
      <4>2. \A i \in DOMAIN old : \E b \in DOMAIN ps : b <= n - 1 /\ Made(ps, b, old[i])
        BY <1>4 DEF old
      <4> QED BY <4>1, <4>2
    <3>3. ASSUME NEW k \in DOMAIN new PROVE \E b \in DOMAIN ps : b <= n /\ Made(ps, b, new[k])
      <4>1. CASE k \in 1..Len(old)
        <5>1. PICK b \in DOMAIN ps : b <= n - 1 /\ Made(ps, b, new[k])
          BY <3>2, <4>1
        <5>2. b <= n
          BY <5>1, <2>2, <1>1
        <5> QED BY <5>1, <5>2
      <4>2. CASE k = Len(old) + 1
        <5>1. n <= n /\ Made(ps, n, new[k])
          BY <3>1, <4>2, <2>5, <2>2
        <5> QED BY <5>1, <2>2
      <4> QED BY <3>1, <4>1, <4>2
    <3>4. ASSUME NEW k \in DOMAIN new, NEW l \in DOMAIN new, k < l PROVE Precedes(s, new[k], new[l])
      <4>1. k \in 1..Len(old)
        BY <3>1, <3>4
      <4>2. CASE l \in 1..Len(old)
        BY <1>4, <3>1, <3>4, <4>1, <4>2 DEF old
      <4>3. CASE l = Len(old) + 1
        <5>1. PICK b \in DOMAIN ps : b <= n - 1 /\ Made(ps, b, new[k]) /\ new[k] \in Events
          BY <3>2, <4>1
        <5>2. n >= 3 /\ n - 2 \in DOMAIN ps /\ ps[n - 2].e = e /\ ps[n - 2].part = "text"
              /\ ps[n - 1].part = "rest" /\ ps[b].part = "blank" /\ b \in Int
          BY <1>1, <2>2, <2>5, <5>1 DEF Made
        <5>3. b < n - 2
          <6>1. b # n - 1 /\ b # n - 2
            BY <5>2
          <6> QED BY <5>1, <5>2, <6>1, <2>2
        <5>4. Precedes(s, new[k], ps[n - 2].e)
          BY <5>1, <5>2, <5>3, AfterBlankIsLater
        <5> QED BY <5>2, <5>4, <3>1, <4>3
      <4> QED BY <3>1, <4>2, <4>3
    <3> QED BY <2>1, <3>1, <3>3, <3>4
  <2> QED BY <2>4, <2>5, AddedIsMade, <1>1, <2>2
<1>5. Good(g[Len(ps)], Len(ps))
  <2> SUFFICES ASSUME T # {} PROVE FALSE
    <3> HIDE DEF Good
    <3> QED BY <1>1
  <2> HIDE DEF Good
  <2>1. PICK m \in T : \A k \in T : m <= k
    <3>1. T \in SUBSET Nat
      OBVIOUS
    <3> HIDE DEF T
    <3> QED BY <3>1, LeastNumber
  <2>2. m # 0 /\ m \in 1..Len(ps)
    BY <1>3, <1>1, <2>1
  <2>3. m - 1 \notin T
    <3>1. m - 1 \in T => m <= m - 1
      BY <2>1
    <3> HIDE DEF T
    <3> QED BY <2>2, <3>1
  <2>4. Good(g[m - 1], m - 1)
    BY <2>2, <2>3, <1>1
  <2> QED BY <1>4, <2>1, <2>2, <2>4
<1> QED BY <1>2, <1>5

----------------------------------------------------------------------------
(* The invariant.  What a request has told so far: `hand' is new, and      *)
(* what the history holds of a request is what its stage allows, so no     *)
(* event is broadcast twice; a row precedes the event that tells of it.    *)
(* What is on its way is in the order of the broadcast: what the window    *)
(* was shown, then the pieces, then the ring.                              *)
StreamData ==
    /\ Once(sent) /\ ring \in Seq(Events) /\ shown \in Seq(Events)
    /\ wire \in Seq(Pieces) /\ buffer \in Seq(Pieces)
    /\ hand \in [Requests -> Events \union {NoEvent}]
    /\ stage \in [Requests -> {"new", "sent", "counted", "over"}]

Told ==
    \A r \in Requests :
        /\ hand[r] # NoEvent => hand[r].r = r /\ hand[r] \in recorded /\ hand[r] \notin ToSet(sent)
        /\ stage[r] = "new" => \A e \in recorded : e.r # r
        /\ stage[r] \in {"sent", "counted"} => \A e \in recorded : e.r = r => e.shape = Pending
        /\ stage[r] = "counted" => r \in rows
Paid == \A e \in recorded : Billable(e) => e.r \in rows

AllPrecede(s, A, B) == \A e \in A, f \in B : Precedes(s, e, f)
Ordered(s, q) == \A m, n \in DOMAIN q : m < n => Precedes(s, q[m], q[n])
EventsOf(ps) == {ps[n].e : n \in DOMAIN ps}

(* The line as a whole, for the three parts it has.                        *)
LineOf(s, seen, ps, q) ==
    /\ InLine(s, ps)
    /\ Ordered(s, seen) /\ Ordered(s, q)
    /\ ToSet(seen) \subseteq ToSet(s) /\ EventsOf(ps) \subseteq ToSet(s) /\ ToSet(q) \subseteq ToSet(s)
    /\ AllPrecede(s, ToSet(seen), EventsOf(ps))
    /\ AllPrecede(s, ToSet(seen), ToSet(q))
    /\ AllPrecede(s, EventsOf(ps), ToSet(q))
Line == LineOf(sent, shown, buffer \o wire, ring)

(* The tray: what was drawn last is what a refresh that is over had read,  *)
(* readings include one another, and a request's refresh was asked by the  *)
(* one event that tells it is paid, whose row it therefore finds.          *)
HasRead(c) == refresh[c].at \in {"read", "done"}
Drawn ==
    (\E c \in Callers : refresh[c].at = "done") =>
        \E q \in Callers : refresh[q].at = "done" /\ badge = refresh[q].saw
Nested ==
    \A c, q \in Callers :
        refresh[c].saw \subseteq refresh[q].saw \/ refresh[q].saw \subseteq refresh[c].saw
Counted ==
    \A e \in ToSet(shown) : Billable(e) =>
        /\ refresh[e.r].at # "none"
        /\ HasRead(e.r) => e.r \in refresh[e.r].saw \/ refresh[e.r].saw = {}
AskedOnce ==
    \A r \in Requests : refresh[r].at # "none" =>
        \E e \in ToSet(shown) : Billable(e) /\ e.r = r
Tray == Drawn /\ Nested /\ Counted /\ AskedOnce

StreamInv == StreamTypeOK /\ StreamData /\ Told /\ Paid /\ Line /\ Tray

LEMMA TrayStays ==
    ASSUME Tray, UNCHANGED <<shown, refresh, badge>>
    PROVE  Tray'
<1>1. shown' = shown /\ refresh' = refresh /\ badge' = badge
  OBVIOUS
<1>2. Drawn' /\ Nested'
  BY <1>1 DEF Tray, Drawn, Nested
<1>3. Counted'
  BY <1>1 DEF Tray, Counted, HasRead, Billable, ToSet
<1>4. AskedOnce'
  BY <1>1 DEF Tray, AskedOnce, Billable, ToSet
<1> QED BY <1>2, <1>3, <1>4 DEF Tray

(* Where the elements of a concatenation are.                              *)
LEMMA Joined ==
    ASSUME NEW S, NEW a \in Seq(S), NEW b \in Seq(S)
    PROVE  /\ a \o b \in Seq(S) /\ Len(a \o b) = Len(a) + Len(b)
           /\ Len(a) \in Nat /\ Len(b) \in Nat
           /\ DOMAIN a = 1..Len(a) /\ DOMAIN b = 1..Len(b) /\ DOMAIN (a \o b) = 1..(Len(a) + Len(b))
           /\ \A k \in 1..Len(a) : (a \o b)[k] = a[k]
           /\ \A k \in 1..Len(b) : (a \o b)[Len(a) + k] = b[k]
<1>1. a \o b \in Seq(S) /\ Len(a \o b) = Len(a) + Len(b)
  OBVIOUS
<1>2. \A k \in 1..Len(a) : (a \o b)[k] = a[k]
  OBVIOUS
<1>3. ASSUME NEW k \in 1..Len(b) PROVE (a \o b)[Len(a) + k] = b[k]
  <2>1. Len(a) + k \in 1..(Len(a) + Len(b)) /\ ~ (Len(a) + k <= Len(a)) /\ Len(a) + k - Len(a) = k
    OBVIOUS
  <2> QED BY <2>1
<1> QED BY <1>1, <1>2, <1>3

LEMMA JoinedThree ==
    ASSUME NEW S, NEW a \in Seq(S), NEW b \in Seq(S)
    PROVE  Len(b) = 3 =>
           /\ a \o b \in Seq(S) /\ DOMAIN (a \o b) = 1..(Len(a) + 3)
           /\ \A k \in 1..Len(a) : (a \o b)[k] = a[k]
           /\ (a \o b)[Len(a) + 1] = b[1] /\ (a \o b)[Len(a) + 2] = b[2]
           /\ (a \o b)[Len(a) + 3] = b[3]
<1> DEFINE c == a \o b
<1>1. c \in Seq(S) /\ DOMAIN c = 1..(Len(a) + Len(b)) /\ \A k \in 1..Len(a) : c[k] = a[k]
  BY Joined
<1>2. \A k \in 1..Len(b) : c[Len(a) + k] = b[k]
  BY Joined
<1> HIDE DEF c
<1>3. Len(b) = 3 => c[Len(a) + 1] = b[1] /\ c[Len(a) + 2] = b[2] /\ c[Len(a) + 3] = b[3]
  BY <1>2
<1> QED BY <1>1, <1>3 DEF c

(* An event more at the end of the broadcast disturbs nothing before it.   *)
LEMMA LineUnderAppend ==
    ASSUME NEW s, Once(s), NEW x \in Events, x \notin ToSet(s),
           NEW seen, NEW ps, NEW q, LineOf(s, seen, ps, q)
    PROVE  LineOf(Append(s, x), seen, ps, q)
<1> DEFINE t == Append(s, x)
<1>1. /\ ToSet(t) = ToSet(s) \union {x}
      /\ \A e, f : Precedes(s, e, f) => Precedes(t, e, f)
  BY AppendExtendsOrder
<1> HIDE DEF t
<1>2. InLine(t, ps)
  BY <1>1 DEF LineOf, InLine, PieceBefore
<1>3. Ordered(t, seen) /\ Ordered(t, q)
  BY <1>1 DEF LineOf, Ordered
<1>4. /\ AllPrecede(t, ToSet(seen), EventsOf(ps))
      /\ AllPrecede(t, ToSet(seen), ToSet(q))
      /\ AllPrecede(t, EventsOf(ps), ToSet(q))
  BY <1>1 DEF LineOf, AllPrecede
<1> QED BY <1>1, <1>2, <1>3, <1>4 DEF LineOf, t

(* The ring takes the newest event and gives up its oldest.                *)
LEMMA RingTakes ==
    ASSUME NEW s, NEW seen, NEW ps, NEW q \in Seq(Events), LineOf(s, seen, ps, q),
           NEW x \in ToSet(s), x \in Events,
           \A e \in ToSet(seen) \union EventsOf(ps) \union ToSet(q) : Precedes(s, e, x)
    PROVE  LineOf(s, seen, ps, Append(q, x)) /\ Append(q, x) \in Seq(Events)
<1> DEFINE r == Append(q, x)
<1>1. /\ r \in Seq(Events) /\ DOMAIN q = 1..Len(q) /\ DOMAIN r = 1..(Len(q) + 1) /\ Len(q) \in Nat
      /\ r[Len(q) + 1] = x /\ \A k \in 1..Len(q) : r[k] = q[k]
  OBVIOUS
<1> HIDE DEF r
<1>2. ToSet(r) = ToSet(q) \union {x}
  BY <1>1 DEF ToSet
<1>3. Ordered(s, r)
  <2> SUFFICES ASSUME NEW m \in DOMAIN r, NEW n \in DOMAIN r, m < n PROVE Precedes(s, r[m], r[n])
    BY DEF Ordered
  <2>1. m \in 1..Len(q) /\ r[m] = q[m] /\ q[m] \in ToSet(q)
    BY <1>1 DEF ToSet
  <2>2. CASE n \in 1..Len(q)
    BY <2>1, <2>2, <1>1 DEF LineOf, Ordered
  <2>3. CASE n = Len(q) + 1
    BY <2>1, <2>3, <1>1
  <2> QED BY <2>2, <2>3, <1>1
<1>4. AllPrecede(s, ToSet(seen), ToSet(r)) /\ AllPrecede(s, EventsOf(ps), ToSet(r))
  BY <1>2 DEF LineOf, AllPrecede
<1> QED BY <1>1, <1>2, <1>3, <1>4 DEF LineOf, r

LEMMA RingGivesUp ==
    ASSUME NEW s, NEW seen, NEW ps, NEW q \in Seq(Events), q # <<>>, LineOf(s, seen, ps, q)
    PROVE  /\ LineOf(s, seen, ps, Tail(q)) /\ Tail(q) \in Seq(Events)
           /\ Head(q) \in ToSet(q) /\ Head(q) \in Events
           /\ ToSet(Tail(q)) \subseteq ToSet(q)
           /\ \A e \in ToSet(Tail(q)) : Precedes(s, Head(q), e)
<1> DEFINE r == Tail(q)
<1>1. /\ r \in Seq(Events) /\ DOMAIN q = 1..Len(q) /\ DOMAIN r = 1..(Len(q) - 1) /\ Len(q) \in Nat
      /\ Len(q) >= 1 /\ Head(q) = q[1] /\ \A k \in 1..(Len(q) - 1) : r[k] = q[k + 1]
  OBVIOUS
<1> HIDE DEF r
<1>2. ToSet(r) \subseteq ToSet(q)
  BY <1>1 DEF ToSet
<1>3. Head(q) \in ToSet(q) /\ Head(q) \in Events
  BY <1>1 DEF ToSet
<1>4. Ordered(s, r)
  BY <1>1 DEF LineOf, Ordered
<1>5. ASSUME NEW e \in ToSet(r) PROVE Precedes(s, Head(q), e)
  <2>1. PICK k \in DOMAIN r : r[k] = e
    BY DEF ToSet
  <2>2. k + 1 \in DOMAIN q /\ 1 \in DOMAIN q /\ 1 < k + 1 /\ q[k + 1] = e /\ Head(q) = q[1]
    BY <1>1, <2>1
  <2> QED BY <2>2 DEF LineOf, Ordered
<1>6. AllPrecede(s, ToSet(seen), ToSet(r)) /\ AllPrecede(s, EventsOf(ps), ToSet(r))
  BY <1>2 DEF LineOf, AllPrecede
<1> QED BY <1>1, <1>2, <1>3, <1>4, <1>5, <1>6 DEF LineOf, r

(* The oldest event of the ring goes on the wire.                          *)
LEMMA WireTakes ==
    ASSUME NEW s, NEW seen, NEW ps, NEW q \in Seq(Events), q # <<>>, LineOf(s, seen, ps, q)
    PROVE  LineOf(s, seen, ps \o Frame(Head(q)), Tail(q))
<1> DEFINE x == Head(q)
           new == ps \o Frame(x)
<1>1. /\ LineOf(s, seen, ps, Tail(q)) /\ x \in ToSet(q) /\ x \in Events
      /\ \A e \in ToSet(Tail(q)) : Precedes(s, x, e)
  BY RingGivesUp
<1> HIDE DEF x
<1>2. /\ ps \in Seq(Pieces) /\ Len(ps) \in Nat /\ DOMAIN ps = 1..Len(ps)
  BY DEF LineOf, InLine
<1>3. /\ Frame(x) \in Seq(Pieces) /\ Len(Frame(x)) = 3
      /\ Frame(x)[1] = [e |-> x, part |-> "text"] /\ Frame(x)[2] = [e |-> x, part |-> "rest"]
      /\ Frame(x)[3] = [e |-> x, part |-> "blank"]
  BY <1>1 DEF Frame, Pieces
<1>4. /\ new \in Seq(Pieces) /\ DOMAIN new = 1..(Len(ps) + 3)
      /\ \A k \in 1..Len(ps) : new[k] = ps[k]
      /\ new[Len(ps) + 1] = [e |-> x, part |-> "text"]
      /\ new[Len(ps) + 2] = [e |-> x, part |-> "rest"]
      /\ new[Len(ps) + 3] = [e |-> x, part |-> "blank"]
  <2> DEFINE f == Frame(x)
  <2>1. f \in Seq(Pieces) /\ Len(f) = 3
    BY <1>3
  <2> HIDE DEF f
  <2>2. /\ ps \o f \in Seq(Pieces) /\ DOMAIN (ps \o f) = 1..(Len(ps) + 3)
        /\ \A k \in 1..Len(ps) : (ps \o f)[k] = ps[k]
        /\ (ps \o f)[Len(ps) + 1] = f[1] /\ (ps \o f)[Len(ps) + 2] = f[2]
        /\ (ps \o f)[Len(ps) + 3] = f[3]
    BY <1>2, <2>1, JoinedThree
  <2> QED BY <1>3, <2>2 DEF f
<1> HIDE DEF new
<1>5. \A k \in DOMAIN new : k \in 1..Len(ps) \/ k \in {Len(ps) + 1, Len(ps) + 2, Len(ps) + 3}
  BY <1>4, <1>2
<1>6. EventsOf(new) = EventsOf(ps) \union {x}
  <2>1. ASSUME NEW k \in DOMAIN new PROVE new[k].e \in EventsOf(ps) \union {x}
    <3>1. CASE k \in 1..Len(ps)
      BY <3>1, <1>2, <1>4 DEF EventsOf
    <3>2. CASE k \notin 1..Len(ps)
      BY <3>2, <1>4, <1>5
    <3> QED BY <3>1, <3>2
  <2>2. ASSUME NEW k \in DOMAIN ps PROVE ps[k].e \in EventsOf(new)
    <3>1. k \in DOMAIN new /\ new[k] = ps[k]
      BY <1>2, <1>4
    <3> QED BY <3>1 DEF EventsOf
  <2>3. x \in EventsOf(new)
    <3>1. Len(ps) + 1 \in DOMAIN new /\ new[Len(ps) + 1].e = x
      BY <1>2, <1>4
    <3> QED BY <3>1 DEF EventsOf
  <2>4. EventsOf(new) \subseteq EventsOf(ps) \union {x}
    BY <2>1 DEF EventsOf
  <2>5. EventsOf(ps) \subseteq EventsOf(new)
    BY <2>2 DEF EventsOf
  <2> QED BY <2>3, <2>4, <2>5
<1>7. InLine(s, new)
  <2> SUFFICES ASSUME NEW m \in DOMAIN new, NEW n \in DOMAIN new, m < n
               PROVE  PieceBefore(s, new[m], new[n])
    BY <1>4 DEF InLine
  <2>1. CASE n \in 1..Len(ps)
    <3>1. m \in 1..Len(ps)
      BY <2>1, <1>4, <1>2
    <3> QED BY <2>1, <3>1, <1>2, <1>4 DEF LineOf, InLine
  <2>2. CASE m \in 1..Len(ps) /\ n \notin 1..Len(ps)
    <3>1. new[m].e \in EventsOf(ps) /\ new[n].e = x
      <4>1. new[m] = ps[m] /\ ps[m].e \in EventsOf(ps)
        BY <2>2, <1>2, <1>4 DEF EventsOf
      <4>2. new[n].e = x
        BY <2>2, <1>4, <1>5
      <4> QED BY <4>1, <4>2
    <3> QED BY <3>1, <1>1 DEF LineOf, AllPrecede, PieceBefore
  <2>3. CASE m \notin 1..Len(ps) /\ n \notin 1..Len(ps)
    BY <2>3, <1>2, <1>4, <1>5 DEF PieceBefore, Within
  <2> QED BY <2>1, <2>2, <2>3
<1>8. /\ AllPrecede(s, ToSet(seen), EventsOf(new))
      /\ AllPrecede(s, EventsOf(new), ToSet(Tail(q)))
  BY <1>1, <1>6 DEF LineOf, AllPrecede
<1>9. EventsOf(new) \subseteq ToSet(s)
  BY <1>1, <1>6 DEF LineOf
<1> QED BY <1>1, <1>7, <1>8, <1>9 DEF LineOf, x, new

LEMMA NothingInLine ==
    ASSUME NEW s, NEW seen, NEW ps, NEW q, LineOf(s, seen, ps, q)
    PROVE  LineOf(s, seen, <<>>, <<>>) /\ EventsOf(<<>>) = {} /\ ToSet(<<>>) = {}
<1>1. <<>> \in Seq(Pieces) /\ DOMAIN <<>> = {}
  OBVIOUS
<1>2. EventsOf(<<>>) = {} /\ ToSet(<<>>) = {}
  BY <1>1 DEF EventsOf, ToSet
<1> QED BY <1>1, <1>2 DEF LineOf, InLine, Ordered, AllPrecede

(* Pieces taken out of the middle.                                         *)
LEMMA LineUnderThinning ==
    ASSUME NEW s, NEW seen, NEW ps, NEW q, LineOf(s, seen, ps, q),
           NEW qs \in Seq(Pieces), NEW h \in [DOMAIN qs -> DOMAIN ps],
           \A i \in DOMAIN qs : qs[i] = ps[h[i]],
           \A i, j \in DOMAIN qs : i < j => h[i] < h[j]
    PROVE  LineOf(s, seen, qs, q)
<1>1. InLine(s, qs)
  BY ThinnedStaysInLine DEF LineOf
<1>2. EventsOf(qs) \subseteq EventsOf(ps)
  BY DEF EventsOf
<1> QED BY <1>1, <1>2 DEF LineOf, AllPrecede

LEMMA RestLength ==
    ASSUME NEW len \in Nat, NEW n \in Nat, n <= len, NEW r,
           r = IF n + 1 <= len THEN len - (n + 1) + 1 ELSE 0
    PROVE  r = len - n
OBVIOUS

(* What a chunk leaves of the line, kept or dropped.                       *)
LEMMA ChunkKept ==
    ASSUME NEW s, NEW seen, NEW q, NEW buf \in Seq(Pieces), NEW w \in Seq(Pieces),
           LineOf(s, seen, buf \o w, q), NEW n \in 1..Len(w)
    PROVE  /\ SubSeq(w, 1, n) \in Seq(Pieces) /\ SubSeq(w, n + 1, Len(w)) \in Seq(Pieces)
           /\ LineOf(s, seen, (buf \o SubSeq(w, 1, n)) \o SubSeq(w, n + 1, Len(w)), q)
           /\ LineOf(s, seen, buf \o SubSeq(w, n + 1, Len(w)), q)
<1> DEFINE chunk == SubSeq(w, 1, n)
           rest == SubSeq(w, n + 1, Len(w))
           line == buf \o w
<1>1. /\ Len(w) \in Nat /\ n \in Nat /\ n <= Len(w) /\ 1 <= n /\ Len(buf) \in Nat
      /\ DOMAIN w = 1..Len(w) /\ DOMAIN buf = 1..Len(buf)
  OBVIOUS
<1>2. /\ chunk \in Seq(Pieces) /\ Len(chunk) = n /\ DOMAIN chunk = 1..n
      /\ \A k \in 1..n : chunk[k] = w[k]
  OBVIOUS
<1>3. /\ rest \in Seq(Pieces) /\ Len(rest) = Len(w) - n /\ DOMAIN rest = 1..(Len(w) - n)
      /\ \A k \in 1..(Len(w) - n) : rest[k] = w[n + k]
  <2>1. n + 1 \in 1..(Len(w) + 1) /\ Len(w) - (n + 1) + 1 = Len(w) - n
    BY <1>1
  <2>2. rest \in Seq(Pieces)
    BY <1>1, <2>1, SubSeqProperties
  <2>3. Len(rest) = Len(w) - n
    <3>1. Len(rest) = IF n + 1 <= Len(w) THEN Len(w) - (n + 1) + 1 ELSE 0
      BY <1>1, <2>1, SubSeqProperties
    <3> HIDE DEF rest
    <3> QED BY <1>1, <3>1, RestLength, Zenon
  <2>4. \A k \in 1..(Len(w) - n) : rest[k] = w[n + k]
    BY <1>1
  <2> QED BY <2>2, <2>3, <2>4
<1>4. /\ DOMAIN line = 1..(Len(buf) + Len(w))
      /\ \A k \in 1..Len(buf) : line[k] = buf[k]
      /\ \A k \in 1..Len(w) : line[Len(buf) + k] = w[k]
  BY Joined
<1> HIDE DEF chunk, rest, line
<1>7. chunk \in Seq(Pieces) /\ rest \in Seq(Pieces)
  BY <1>2, <1>3
<1>5. LineOf(s, seen, (buf \o chunk) \o rest, q)
  <2> DEFINE all == buf \o chunk
             qs == all \o rest
  <2>1. /\ all \in Seq(Pieces) /\ Len(all) = Len(buf) + Len(chunk)
        /\ \A k \in 1..Len(buf) : all[k] = buf[k]
        /\ \A k \in 1..Len(chunk) : all[Len(buf) + k] = chunk[k]
    BY <1>7, Joined
  <2> HIDE DEF all
  <2>8. all \in Seq(Pieces)
    BY <2>1
  <2>2. /\ qs \in Seq(Pieces) /\ DOMAIN qs = 1..(Len(all) + Len(rest))
        /\ \A k \in 1..Len(all) : qs[k] = all[k]
        /\ \A k \in 1..Len(rest) : qs[Len(all) + k] = rest[k]
    BY <1>7, <2>8, Joined
  <2> HIDE DEF qs
  <2>9. qs \in Seq(Pieces)
    BY <2>2
  <2>3. DOMAIN qs = DOMAIN line /\ Len(all) = Len(buf) + n
    BY <1>1, <1>2, <1>3, <1>4, <2>1, <2>2
  <2>4. ASSUME NEW k \in DOMAIN qs PROVE qs[k] = line[k]
    <3>1. CASE k \in 1..Len(buf)
      BY <3>1, <1>1, <1>4, <2>1, <2>2, <2>3
    <3>2. CASE k - Len(buf) \in 1..n
      <4> DEFINE i == k - Len(buf)
      <4>1. k = Len(buf) + i /\ i \in 1..n /\ i \in 1..Len(w) /\ k \in 1..Len(all)
        BY <3>2, <1>1, <2>2, <2>3
      <4> HIDE DEF i
      <4>2. qs[k] = all[k] /\ all[k] = chunk[i] /\ chunk[i] = w[i]
        BY <4>1, <1>2, <2>1, <2>2
      <4> QED BY <4>1, <4>2, <1>4
    <3>3. CASE k > Len(buf) + n
      <4> DEFINE i == k - Len(all)
      <4>1. k = Len(all) + i /\ i \in 1..Len(rest) /\ n + i \in 1..Len(w) /\ k = Len(buf) + (n + i)
        BY <3>3, <1>1, <1>3, <2>2, <2>3
      <4> HIDE DEF i
      <4>2. qs[k] = rest[i] /\ rest[i] = w[n + i]
        BY <4>1, <1>3, <2>2
      <4> QED BY <4>1, <4>2, <1>4
    <3> QED BY <3>1, <3>2, <3>3, <1>1, <2>2, <2>3
  <2> DEFINE h == [k \in DOMAIN qs |-> k]
  <2>5. h \in [DOMAIN qs -> DOMAIN line] /\ (\A k \in DOMAIN qs : qs[k] = line[h[k]])
        /\ \A i, j \in DOMAIN qs : i < j => h[i] < h[j]
    BY <2>3, <2>4
  <2> HIDE DEF h
  <2>6. LineOf(s, seen, line, q)
    BY DEF line
  <2>7. LineOf(s, seen, qs, q)
    BY <2>9, <2>5, <2>6, LineUnderThinning
  <2> QED BY <2>7 DEF qs, all
<1>6. LineOf(s, seen, buf \o rest, q)
  <2> DEFINE qs == buf \o rest
  <2>1. /\ qs \in Seq(Pieces) /\ DOMAIN qs = 1..(Len(buf) + Len(rest))
        /\ \A k \in 1..Len(buf) : qs[k] = buf[k]
        /\ \A k \in 1..Len(rest) : qs[Len(buf) + k] = rest[k]
    BY <1>7, Joined
  <2> HIDE DEF qs
  <2>7. qs \in Seq(Pieces)
    BY <2>1
  <2> DEFINE h == [k \in DOMAIN qs |-> IF k <= Len(buf) THEN k ELSE n + k]
  <2>2. ASSUME NEW k \in DOMAIN qs PROVE h[k] \in DOMAIN line /\ qs[k] = line[h[k]]
    <3>1. CASE k \in 1..Len(buf)
      <4>1. h[k] = k /\ k \in DOMAIN line
        BY <3>1, <1>1, <1>4
      <4> QED BY <3>1, <4>1, <1>4, <2>1
    <3>2. CASE k > Len(buf)
      <4> DEFINE i == k - Len(buf)
      <4>1. /\ k = Len(buf) + i /\ i \in 1..Len(rest) /\ n + i \in 1..Len(w)
            /\ h[k] = Len(buf) + (n + i) /\ h[k] \in DOMAIN line
        <5>1. k \in Int /\ k <= Len(buf) + (Len(w) - n) /\ k = Len(buf) + i
          BY <1>1, <1>3, <2>1
        <5>2. i \in 1..(Len(w) - n) /\ i \in 1..Len(rest) /\ n + i \in 1..Len(w)
          BY <3>2, <1>1, <1>3, <5>1
        <5>3. h[k] = n + k /\ n + k = Len(buf) + (n + i)
          <6>1. h[k] = n + k
            BY <3>2, <1>1, <5>1
          <6>2. n \in Int /\ i \in Int /\ Len(buf) \in Int
            BY <1>1, <5>1
          <6> HIDE DEF i, h
          <6> QED BY <6>1, <6>2, <5>1
        <5>4. Len(buf) + (n + i) \in 1..(Len(buf) + Len(w))
          BY <1>1, <5>2
        <5> QED BY <5>1, <5>2, <5>3, <5>4, <1>4
      <4> HIDE DEF i, h
      <4>2. qs[k] = rest[i] /\ rest[i] = w[n + i]
        BY <4>1, <1>3, <2>1
      <4> QED BY <4>1, <4>2, <1>4
    <3> QED BY <3>1, <3>2, <1>1, <2>1
  <2>3. \A i, j \in DOMAIN qs : i < j => h[i] < h[j]
    BY <1>1, <1>3, <2>1
  <2>4. h \in [DOMAIN qs -> DOMAIN line]
    BY <2>2
  <2> HIDE DEF h
  <2>5. LineOf(s, seen, line, q)
    BY DEF line
  <2>6. LineOf(s, seen, qs, q)
    BY <2>7, <2>2, <2>3, <2>4, <2>5, LineUnderThinning
  <2> QED BY <2>6 DEF qs
<1> QED BY <1>2, <1>3, <1>5, <1>6 DEF chunk, rest

(* Frames leave the line for the window.                                   *)
LEMMA FramesAreShown ==
    ASSUME NEW s, Once(s), NEW seen \in Seq(Events), NEW q,
           NEW all \in Seq(Pieces), NEW rest \in Seq(Pieces), LineOf(s, seen, all \o rest, q)
    PROVE  /\ LineOf(s, seen \o Emitted(all), Left(all) \o rest, q)
           /\ Left(all) \in Seq(Pieces) /\ Emitted(all) \in Seq(Events)
           /\ seen \o Emitted(all) \in Seq(Events)
           /\ ToSet(seen \o Emitted(all)) = ToSet(seen) \union ToSet(Emitted(all))
           /\ ToSet(Emitted(all)) \subseteq ToSet(s)
<1> DEFINE line == all \o rest
           out == Emitted(all)
           last == LastBlank(all)
           left == SubSeq(all, last + 1, Len(all))
           qs == left \o rest
           now == seen \o out
<1>1. /\ line \in Seq(Pieces) /\ DOMAIN line = 1..(Len(all) + Len(rest))
      /\ Len(all) \in Nat /\ Len(rest) \in Nat /\ DOMAIN all = 1..Len(all)
      /\ \A k \in 1..Len(all) : line[k] = all[k]
      /\ \A k \in 1..Len(rest) : line[Len(all) + k] = rest[k]
  BY Joined
<1>2. LineOf(s, seen, line, q)
  OBVIOUS
<1> HIDE DEF line
<1>3. InLine(s, all)
  BY <1>1, <1>2 DEF LineOf, InLine
<1>4. /\ out \in Seq(Events)
      /\ \A k \in DOMAIN out : \E b \in DOMAIN all : Made(all, b, out[k])
      /\ \A k, l \in DOMAIN out : k < l => Precedes(s, out[k], out[l])
  BY <1>3, EmittedInOrder
<1>5. last \in 0..Len(all) /\ \A k \in Blanks(all) : k <= last
  BY LastBlankIsLast
<1> HIDE DEF out, last
<1>6. /\ left \in Seq(Pieces) /\ Len(left) = Len(all) - last
      /\ \A k \in 1..(Len(all) - last) : left[k] = all[last + k]
  <2>1. last \in Nat /\ last <= Len(all) /\ Len(all) \in Nat
    BY <1>1, <1>5
  <2>2. left \in Seq(Pieces)
    BY <2>1
  <2>3. Len(left) = Len(all) - last
    BY <2>1
  <2>4. \A k \in 1..(Len(all) - last) : left[k] = all[last + k]
    BY <2>1
  <2> QED BY <2>2, <2>3, <2>4
<1> HIDE DEF left
<1>18. left \in Seq(Pieces)
  BY <1>6
<1>7. /\ qs \in Seq(Pieces) /\ DOMAIN qs = 1..(Len(left) + Len(rest))
      /\ \A k \in 1..Len(left) : qs[k] = left[k]
      /\ \A k \in 1..Len(rest) : qs[Len(left) + k] = rest[k]
  BY <1>18, Joined
<1> HIDE DEF qs
<1>19. qs \in Seq(Pieces)
  BY <1>7
<1>8. ASSUME NEW k \in DOMAIN qs PROVE last + k \in DOMAIN line /\ qs[k] = line[last + k]
  <2>1. CASE k \in 1..Len(left)
    <3>1. qs[k] = left[k] /\ left[k] = all[last + k]
      BY <2>1, <1>6, <1>7
    <3>2. last + k \in 1..Len(all) /\ last + k \in DOMAIN line
      BY <2>1, <1>1, <1>5, <1>6
    <3> QED BY <3>1, <3>2, <1>1
  <2>2. CASE k > Len(left)
    <3>1. PICK i \in 1..Len(rest) : k = Len(left) + i
      <4>1. Len(left) \in Nat /\ Len(rest) \in Nat
        BY <1>18
      <4>2. k - Len(left) \in 1..Len(rest) /\ k = Len(left) + (k - Len(left))
        BY <2>2, <4>1, <1>7
      <4> QED BY <4>2
    <3>2. last + k = Len(all) + i
      <4>1. Len(left) = Len(all) - last /\ last \in Int /\ Len(all) \in Int /\ i \in Int
        BY <1>1, <1>5, <1>6, <3>1
      <4> QED BY <3>1, <4>1
    <3>3. Len(all) + i \in DOMAIN line
      BY <1>1, <3>1
    <3> QED BY <3>1, <3>2, <3>3, <1>1, <1>7
  <2> QED BY <2>1, <2>2, <1>1, <1>5, <1>6, <1>7
<1>9. LineOf(s, seen, qs, q)
  <2> DEFINE h == [k \in DOMAIN qs |-> last + k]
  <2>1. h \in [DOMAIN qs -> DOMAIN line] /\ (\A k \in DOMAIN qs : qs[k] = line[h[k]])
    BY <1>8
  <2>2. \A i, j \in DOMAIN qs : i < j => h[i] < h[j]
    BY <1>5, <1>7
  <2> HIDE DEF h
  <2> QED BY <1>2, <1>19, <2>1, <2>2, LineUnderThinning
<1>10. ASSUME NEW e \in ToSet(out)
       PROVE  /\ e \in Events /\ e \in EventsOf(line)
              /\ \A f \in EventsOf(qs) : Precedes(s, e, f)
  <2>1. PICK k \in DOMAIN out : out[k] = e
    BY DEF ToSet
  <2>2. PICK b \in DOMAIN all : Made(all, b, e)
    BY <1>4, <2>1
  <2>3. e \in Events
    BY <1>4, <2>1
  <2>4. /\ b \in Blanks(all) /\ b <= last /\ b \in DOMAIN line /\ b >= 3
        /\ b - 1 \in DOMAIN line /\ b - 2 \in DOMAIN line
    BY <1>1, <1>5, <2>2 DEF Made, Blanks
  <2>5. line[b] = all[b] /\ line[b - 1] = all[b - 1] /\ line[b - 2] = all[b - 2]
    BY <1>1, <2>2, <2>4
  <2>6. Made(line, b, e)
    BY <2>2, <2>4, <2>5 DEF Made
  <2>7. line[b - 2].e = e
    BY <2>6 DEF Made
  <2>8. ASSUME NEW f \in EventsOf(qs) PROVE Precedes(s, e, f)
    <3>1. PICK i \in DOMAIN qs : qs[i].e = f
      BY DEF EventsOf
    <3>2. last + i \in DOMAIN line /\ line[last + i].e = f
      BY <1>8, <3>1
    <3>3. b < last + i
      BY <1>1, <1>5, <1>7, <2>2, <2>4
    <3>4. InLine(s, line)
      BY <1>2 DEF LineOf
    <3> QED BY <2>3, <2>4, <2>6, <3>2, <3>3, <3>4, AfterBlankIsLater
  <2> QED BY <2>3, <2>4, <2>7, <2>8 DEF EventsOf
<1>11. /\ now \in Seq(Events) /\ DOMAIN now = 1..(Len(seen) + Len(out))
       /\ Len(seen) \in Nat /\ Len(out) \in Nat
       /\ DOMAIN seen = 1..Len(seen) /\ DOMAIN out = 1..Len(out)
       /\ \A k \in 1..Len(seen) : now[k] = seen[k]
       /\ \A k \in 1..Len(out) : now[Len(seen) + k] = out[k]
  BY <1>4, Joined
<1> HIDE DEF now
<1>12. ASSUME NEW k \in DOMAIN now
       PROVE  \/ k \in 1..Len(seen)
              \/ \E i \in DOMAIN out : k = Len(seen) + i
  <2>1. CASE k > Len(seen)
    <3>1. k - Len(seen) \in DOMAIN out /\ k = Len(seen) + (k - Len(seen))
      BY <2>1, <1>11
    <3> QED BY <3>1
  <2> QED BY <2>1, <1>11
<1>13. ToSet(now) = ToSet(seen) \union ToSet(out)
  <2>1. ToSet(now) \subseteq ToSet(seen) \union ToSet(out)
    <3>1. ASSUME NEW k \in DOMAIN now PROVE now[k] \in ToSet(seen) \union ToSet(out)
      <4>1. CASE k \in 1..Len(seen)
        BY <1>11, <4>1 DEF ToSet
      <4>2. ASSUME NEW i \in DOMAIN out, k = Len(seen) + i PROVE now[k] \in ToSet(out)
        BY <1>11, <4>2 DEF ToSet
      <4> QED BY <1>12, <4>1, <4>2
    <3> QED BY <3>1 DEF ToSet
  <2>2. ASSUME NEW i \in DOMAIN seen PROVE seen[i] \in ToSet(now)
    <3>1. i \in DOMAIN now /\ now[i] = seen[i]
      BY <1>11
    <3> QED BY <3>1 DEF ToSet
  <2>3. ASSUME NEW i \in DOMAIN out PROVE out[i] \in ToSet(now)
    <3>1. Len(seen) + i \in DOMAIN now /\ now[Len(seen) + i] = out[i]
      BY <1>11
    <3> QED BY <3>1 DEF ToSet
  <2> QED BY <2>1, <2>2, <2>3 DEF ToSet
<1>14. Ordered(s, now)
  <2> SUFFICES ASSUME NEW m \in DOMAIN now, NEW n \in DOMAIN now, m < n
               PROVE  Precedes(s, now[m], now[n])
    BY DEF Ordered
  <2>1. CASE n \in 1..Len(seen)
    <3>1. m \in 1..Len(seen)
      BY <2>1, <1>11
    <3> QED BY <2>1, <3>1, <1>9, <1>11 DEF LineOf, Ordered
  <2>2. ASSUME NEW i \in DOMAIN out, n = Len(seen) + i, m \in 1..Len(seen)
        PROVE  Precedes(s, now[m], now[n])
    <3>1. now[m] \in ToSet(seen) /\ now[n] = out[i] /\ out[i] \in ToSet(out)
      BY <2>2, <1>11 DEF ToSet
    <3> QED BY <3>1, <1>2, <1>10 DEF LineOf, AllPrecede
  <2>3. ASSUME NEW i \in DOMAIN out, n = Len(seen) + i, NEW j \in DOMAIN out, m = Len(seen) + j
        PROVE  Precedes(s, now[m], now[n])
    <3>1. j < i /\ now[m] = out[j] /\ now[n] = out[i]
      BY <2>3, <1>11
    <3> QED BY <3>1, <1>4
  <2> QED BY <2>1, <2>2, <2>3, <1>12
<1>15. /\ AllPrecede(s, ToSet(now), EventsOf(qs))
       /\ AllPrecede(s, ToSet(now), ToSet(q))
       /\ ToSet(now) \subseteq ToSet(s) /\ ToSet(out) \subseteq ToSet(s)
  BY <1>2, <1>9, <1>10, <1>13 DEF LineOf, AllPrecede
<1>16. LineOf(s, now, qs, q)
  BY <1>9, <1>14, <1>15 DEF LineOf
<1>17. qs = Left(all) \o rest /\ now = seen \o Emitted(all) /\ out = Emitted(all) /\ left = Left(all)
  BY DEF qs, left, last, now, out, Left
<1> QED BY <1>4, <1>6, <1>11, <1>13, <1>15, <1>16, <1>17

----------------------------------------------------------------------------
(* The steps.                                                              *)

LEMMA EventShapes ==
    /\ Pending \notin Terminal /\ Rejected \in Terminal
    /\ \A shape \in Terminal : shape.kind = "ok" => shape = Ok
    /\ Pending.kind # "ok" /\ Rejected.kind # "ok"
    /\ NoEvent \notin Events
<1> USE DEF Terminal, Pending, Ok, Estimated, UpstreamError, UpstreamResponseError, Cancelled,
            Rejected, WsUpgraded
<1>1. ASSUME NEW shape \in Terminal
      PROVE  shape.kind # "pending" /\ (shape.kind = "ok" => shape = Ok)
  <2>1. \/ shape = Ok \/ shape.kind \in {"estimated", "upstream_error", "cancelled", "rejected", "ws"}
    <3>1. /\ Estimated.kind = "estimated" /\ UpstreamError.kind = "upstream_error"
          /\ UpstreamResponseError.kind = "upstream_error"
          /\ Rejected.kind = "rejected" /\ WsUpgraded.kind = "ws"
      OBVIOUS
    <3>2. Cancelled(TRUE).kind = "cancelled" /\ Cancelled(FALSE).kind = "cancelled"
      OBVIOUS
    <3>3. shape \in {Ok, Estimated, UpstreamError, UpstreamResponseError,
                      Cancelled(TRUE), Cancelled(FALSE), Rejected, WsUpgraded}
      BY Zenon DEF Terminal
    <3> HIDE DEF Terminal, Ok, Estimated, UpstreamError, UpstreamResponseError, Cancelled,
                 Rejected, WsUpgraded
    <3> QED BY <3>1, <3>2, <3>3
  <2>2. Ok.kind = "ok"
    OBVIOUS
  <2> QED BY <2>1, <2>2
<1>2. Pending.kind = "pending" /\ Rejected.kind = "rejected" /\ Rejected \in Terminal
  OBVIOUS
<1> HIDE DEF Terminal, Pending, Rejected
<1> QED BY <1>1, <1>2, EventConstants DEF EventConstants, Events

LEMMA EventTyped ==
    ASSUME NEW r \in Requests, NEW shape \in Terminal \union {Pending}
    PROVE  /\ Event(r, shape) \in Events /\ Event(r, shape).r = r /\ Event(r, shape).shape = shape
           /\ Event(r, shape) # NoEvent
BY EventShapes DEF Event, Events

LEMMA StreamInitInv == StreamInit => StreamInv
<1> SUFFICES ASSUME StreamInit PROVE StreamInv
  OBVIOUS
<1>1. /\ sent = <<>> /\ ring = <<>> /\ shown = <<>> /\ wire = <<>> /\ buffer = <<>>
      /\ recorded = {} /\ rows = {} /\ badge = {} /\ refresh = [c \in Callers |-> NoRefresh]
  BY DEF StreamInit
<1>2. /\ \A S : <<>> \in Seq(S)
      /\ DOMAIN <<>> = {} /\ Len(<<>>) = 0 /\ <<>> \o <<>> = <<>>
  OBVIOUS
<1>3. ToSet(<<>>) = {} /\ EventsOf(<<>>) = {}
  BY <1>2 DEF ToSet, EventsOf
<1>4. StreamTypeOK
  <2>1. refresh \in [Callers -> [at : {"none", "asked", "read", "done"}, saw : SUBSET rows]]
    BY <1>1 DEF NoRefresh
  <2> QED BY <1>1, <1>2, <1>3, <2>1, StreamConstants DEF StreamTypeOK, StreamInit, StreamConstants
<1>5. StreamData /\ Told
  BY <1>1, <1>2 DEF StreamData, Once, Told, StreamInit
<1>6. Line
  BY <1>1, <1>2, <1>3 DEF Line, LineOf, InLine, Ordered, AllPrecede
<1>7. Tray
  <2>1. \A c \in Callers : refresh[c].at = "none" /\ refresh[c].saw = {}
    BY <1>1 DEF NoRefresh
  <2>2. Requests \subseteq Callers
    BY DEF Callers
  <2> QED BY <1>1, <1>3, <2>1, <2>2 DEF Tray, Drawn, Nested, Counted, AskedOnce
<1> QED BY <1>1, <1>4, <1>5, <1>6, <1>7 DEF StreamInv, Paid

(* A new event in the history: of a request that has not told it before,   *)
(* and with its row, if it will redraw the tray.                           *)
LEMMA PersistKeepsInv ==
    ASSUME StreamInv, NEW r \in Requests, NEW shape \in Terminal \union {Pending}, Persist(r, shape),
           \A e \in recorded : e.r = r => e.shape # shape,
           Billable(Event(r, shape)) => r \in rows,
           NEW at \in {"sent", "over"}, stage' = [stage EXCEPT ![r] = at], UNCHANGED rows,
           at = "sent" => shape = Pending /\ \A e \in recorded : e.r # r
    PROVE  StreamInv'
<1> DEFINE new == Event(r, shape)
<1>1. new \in Events /\ new.r = r /\ new.shape = shape /\ new # NoEvent
  BY EventTyped
<1> HIDE DEF new
<1>2. /\ hand[r] = NoEvent /\ hand' = [hand EXCEPT ![r] = new]
      /\ recorded' = recorded \union {new}
      /\ UNCHANGED <<up, link, backoff, permit, sent, ring, wire, buffer, shown, lost, refresh, badge, breaks>>
  BY DEF Persist, linkVars, trayVars, new
<1>3. new \notin recorded /\ new \notin ToSet(sent)
  BY <1>1 DEF StreamInv, StreamTypeOK
<1>4. StreamTypeOK'
  BY <1>1, <1>2 DEF StreamInv, StreamTypeOK, Events, ToSet
<1>5. StreamData'
  BY <1>1, <1>2 DEF StreamInv, StreamData, Once
<1>6. Told'
  <2> SUFFICES ASSUME NEW o \in Requests PROVE
        /\ hand'[o] # NoEvent => hand'[o].r = o /\ hand'[o] \in recorded' /\ hand'[o] \notin ToSet(sent)
        /\ stage'[o] = "new" => \A e \in recorded' : e.r # o
        /\ stage'[o] \in {"sent", "counted"} => \A e \in recorded' : e.r = o => e.shape = Pending
        /\ stage'[o] = "counted" => o \in rows'
    BY <1>2 DEF Told, ToSet
  <2>1. CASE o = r
    BY <1>1, <1>2, <1>3, <2>1 DEF StreamInv, StreamData, Told
  <2>2. CASE o # r
    <3>1. hand'[o] = hand[o] /\ stage'[o] = stage[o]
      BY <1>2, <2>2 DEF StreamInv, StreamData
    <3> QED BY <1>1, <1>2, <2>2, <3>1 DEF StreamInv, Told
  <2> QED BY <2>1, <2>2
<1>7. Paid'
  BY <1>1, <1>2 DEF StreamInv, Paid, Billable, new
<1>8. Line' /\ Tray'
  BY <1>2, TrayStays
     DEF StreamInv, Line, ToSet
<1> QED BY <1>4, <1>5, <1>6, <1>7, <1>8 DEF StreamInv

LEMMA RequestKeepsInv ==
    ASSUME StreamInv, NEW r \in Requests, Dispatch(r) \/ Reject(r) \/ RecordUsage(r) \/ End(r)
    PROVE  StreamInv'
<1>1. CASE Dispatch(r)
  <2>1. \A e \in recorded : e.r # r
    BY <1>1 DEF Dispatch, StreamInv, Told
  <2>2. ~ Billable(Event(r, Pending))
    BY EventShapes, EventTyped DEF Billable
  <2> QED BY <1>1, <2>1, <2>2, PersistKeepsInv DEF Dispatch
<1>2. CASE Reject(r)
  <2>1. \A e \in recorded : e.r # r
    BY <1>2 DEF Reject, StreamInv, Told
  <2>2. ~ Billable(Event(r, Rejected))
    BY EventShapes, EventTyped DEF Billable
  <2> QED BY <1>2, <2>1, <2>2, PersistKeepsInv, EventShapes DEF Reject
<1>3. CASE RecordUsage(r)
  <2>1. /\ rows' = rows \union {r} /\ stage[r] = "sent" /\ stage' = [stage EXCEPT ![r] = "counted"]
        /\ UNCHANGED <<up, hand, recorded, sent, link, backoff, permit, ring, wire, buffer, shown, lost,
                       refresh, badge, breaks>>
    BY <1>3 DEF RecordUsage, linkVars, trayVars
  <2>2. StreamTypeOK' /\ StreamData'
    BY <2>1 DEF StreamInv, StreamTypeOK, StreamData, ToSet, Once
  <2>3. Told'
    <3> SUFFICES ASSUME NEW o \in Requests PROVE
          /\ hand[o] # NoEvent => hand[o].r = o /\ hand[o] \in recorded /\ hand[o] \notin ToSet(sent)
          /\ stage'[o] = "new" => \A e \in recorded : e.r # o
          /\ stage'[o] \in {"sent", "counted"} => \A e \in recorded : e.r = o => e.shape = Pending
          /\ stage'[o] = "counted" => o \in rows'
      BY <2>1 DEF Told, ToSet
    <3> QED BY <2>1 DEF StreamInv, StreamData, Told
  <2>4. Paid' /\ Line' /\ Tray'
    BY <2>1, TrayStays DEF StreamInv, Paid, Line, ToSet
  <2> QED BY <2>2, <2>3, <2>4 DEF StreamInv
<1>4. CASE End(r)
  <2>1. PICK shape \in Ends \ {Rejected} :
          /\ stage[r] = "counted" \/ (stage[r] = "sent" /\ shape \notin {Ok, Estimated})
          /\ Persist(r, shape)
    BY <1>4 DEF End
  <2>2. shape \in Terminal /\ shape # Pending
    BY <2>1, EventConstants, EventShapes DEF EventConstants
  <2>3. \A e \in recorded : e.r = r => e.shape # shape
    BY <2>1, <2>2 DEF StreamInv, Told
  <2>4. Billable(Event(r, shape)) => r \in rows
    BY <2>1, <2>2, EventShapes, EventTyped DEF Billable, StreamInv, Told
  <2>5. stage' = [stage EXCEPT ![r] = "over"] /\ UNCHANGED rows
    BY <1>4 DEF End
  <2> QED BY <2>1, <2>2, <2>3, <2>4, <2>5, PersistKeepsInv
<1> QED BY <1>1, <1>2, <1>3, <1>4

LEMMA BroadcastKeepsInv ==
    ASSUME StreamInv, NEW r \in Requests, Broadcast(r)
    PROVE  StreamInv'
<1> DEFINE x == hand[r]
           line == buffer \o wire
<1>1. /\ x # NoEvent /\ sent' = Append(sent, x) /\ hand' = [hand EXCEPT ![r] = NoEvent]
      /\ UNCHANGED <<up, link, backoff, permit, stage, rows, recorded, wire, buffer, shown, refresh, badge, breaks>>
  BY DEF Broadcast, linkVars, trayVars
<1>2. x \in Events /\ x.r = r /\ x \in recorded /\ x \notin ToSet(sent) /\ Once(sent)
  BY <1>1 DEF StreamInv, StreamData, Told
<1>3. \/ ring' = ring
      \/ link = "open" /\ Len(ring) < RingCap /\ ring' = Append(ring, x)
      \/ link = "open" /\ Len(ring) >= RingCap /\ ring' = Append(Tail(ring), x)
  BY StreamConstants DEF Broadcast, StreamInv, StreamData, StreamConstants
<1> HIDE DEF x, line
<1>4. /\ Once(sent') /\ ToSet(sent') = ToSet(sent) \union {x}
      /\ \A e \in ToSet(sent) : Precedes(sent', e, x)
  BY <1>1, <1>2, AppendExtendsOrder
<1>5. RingCap \in Nat \ {0} /\ Len(ring) \in Nat /\ Len(ring) <= RingCap /\ ring \in Seq(Events)
  BY StreamConstants DEF StreamConstants, StreamInv, StreamTypeOK, StreamData
<1>6. LineOf(sent', shown, line, ring)
  BY <1>1, <1>2, LineUnderAppend DEF StreamInv, Line, line
<1>7. LineOf(sent', shown, line, ring') /\ ring' \in Seq(Events) /\ Len(ring') <= RingCap
      /\ (ring' # ring => link = "open")
  <2>1. CASE ring' = ring
    BY <1>5, <1>6, <2>1
  <2>2. \A e \in ToSet(shown) \union EventsOf(line) \union ToSet(ring) : Precedes(sent', e, x)
    BY <1>4 DEF StreamInv, Line, LineOf, line
  <2>3. CASE link = "open" /\ Len(ring) < RingCap /\ ring' = Append(ring, x)
    <3>1. Len(ring') = Len(ring) + 1
      BY <1>5, <2>3
    <3>2. LineOf(sent', shown, line, ring') /\ ring' \in Seq(Events)
      BY <1>2, <1>4, <1>5, <1>6, <2>2, <2>3, RingTakes
    <3> QED BY <1>5, <2>3, <3>1, <3>2
  <2>4. CASE link = "open" /\ Len(ring) >= RingCap /\ ring' = Append(Tail(ring), x)
    <3>1. ring # <<>> /\ Len(Tail(ring)) = Len(ring) - 1
      BY <1>5, <2>4
    <3>2. LineOf(sent', shown, line, Tail(ring)) /\ Tail(ring) \in Seq(Events)
          /\ ToSet(Tail(ring)) \subseteq ToSet(ring)
      BY <1>5, <1>6, <3>1, RingGivesUp
    <3>3. LineOf(sent', shown, line, ring') /\ ring' \in Seq(Events)
      BY <1>2, <1>4, <2>2, <2>4, <3>2, RingTakes
    <3>4. Len(ring') = Len(Tail(ring)) + 1
      BY <2>4, <3>2
    <3> QED BY <1>5, <2>4, <3>1, <3>3, <3>4
  <2> QED BY <1>3, <2>1, <2>3, <2>4
<1>8. StreamTypeOK'
  BY <1>1, <1>2, <1>4, <1>7 DEF StreamInv, StreamTypeOK, x
<1>9. StreamData'
  BY <1>1, <1>4, <1>7 DEF StreamInv, StreamData
<1>10. Told'
  <2> SUFFICES ASSUME NEW o \in Requests
               PROVE  hand'[o] # NoEvent => hand'[o].r = o /\ hand'[o] \in recorded /\ hand'[o] \notin ToSet(sent')
    BY <1>1 DEF Told, StreamInv
  <2>1. CASE o = r
    BY <1>1, <2>1 DEF StreamInv, StreamData
  <2>2. CASE o # r
    <3>1. hand'[o] = hand[o]
      BY <1>1, <2>2 DEF StreamInv, StreamData
    <3> QED BY <1>2, <1>4, <2>2, <3>1 DEF StreamInv, Told
  <2> QED BY <2>1, <2>2
<1>11. Line'
  BY <1>1, <1>7 DEF Line, line
<1>12. Paid' /\ Tray'
  BY <1>1, TrayStays DEF StreamInv, Paid, ToSet
<1> QED BY <1>8, <1>9, <1>10, <1>11, <1>12 DEF StreamInv

(* Steps of the connection that move no piece.                             *)
LEMMA LinkKeepsInv ==
    ASSUME StreamInv, DaemonStops \/ DaemonStarts \/ Connect \/ ConnectFails \/ WaitEnds \/ Restart
    PROVE  StreamInv'
<1>1. /\ UNCHANGED <<stage, hand, rows, recorded, sent, ring, wire, buffer, shown, refresh, badge>>
      /\ link' \in {"connecting", "open", "waiting"}
      /\ link' = link \/ (link # "open")
  BY DEF StreamInv, StreamTypeOK, DaemonStops, DaemonStarts, Connect, ConnectFails, WaitEnds, Restart,
         linkVars, daemonVars, trayVars
<1>2. backoff' \in 1..MaxBackoff
  <2>1. backoff \in 1..MaxBackoff /\ MaxBackoff \in Nat \ {0}
    BY StreamConstants DEF StreamConstants, StreamInv, StreamTypeOK
  <2>2. backoff' = backoff \/ backoff' = (IF 2 * backoff > MaxBackoff THEN MaxBackoff ELSE 2 * backoff)
    BY DEF DaemonStops, DaemonStarts, Connect, ConnectFails, WaitEnds, Restart, linkVars
  <2> QED BY <2>1, <2>2
<1>3. StreamTypeOK'
  BY <1>1, <1>2 DEF StreamInv, StreamTypeOK, ToSet
<1>4. StreamData' /\ Told' /\ Paid' /\ Line' /\ Tray'
  BY <1>1, TrayStays DEF StreamInv, StreamData, Once, Told, Paid, Line, ToSet
<1> QED BY <1>3, <1>4 DEF StreamInv

LEMMA CutKeepsInv ==
    ASSUME StreamInv, Break \/ ConnectionLost
    PROVE  StreamInv'
<1>1. /\ UNCHANGED <<stage, hand, rows, recorded, sent, shown, refresh, badge>>
      /\ link' \in {"connecting", "waiting"} /\ backoff' \in {1, backoff}
      /\ ring' = <<>> /\ wire' = <<>> /\ buffer' = <<>>
  BY DEF Break, ConnectionLost, Cut, daemonVars, trayVars
<1>2. <<>> \in Seq(Events) /\ <<>> \in Seq(Pieces) /\ Len(<<>>) = 0 /\ <<>> \o <<>> = <<>>
  OBVIOUS
<1>3. StreamTypeOK'
  BY <1>1, <1>2, StreamConstants DEF StreamInv, StreamTypeOK, ToSet, StreamConstants
<1>4. StreamData'
  BY <1>1, <1>2 DEF StreamInv, StreamData, Once
<1>5. Line'
  BY <1>1, <1>2, NothingInLine DEF StreamInv, Line
<1>6. Told' /\ Paid' /\ Tray'
  BY <1>1, TrayStays DEF StreamInv, Told, Paid, ToSet
<1> QED BY <1>3, <1>4, <1>5, <1>6 DEF StreamInv

LEMMA SerializeKeepsInv ==
    ASSUME StreamInv, Serialize
    PROVE  StreamInv'
<1>1. /\ link = "open" /\ ring # <<>> /\ wire' = wire \o Frame(Head(ring)) /\ ring' = Tail(ring)
      /\ UNCHANGED <<link, backoff, stage, hand, rows, recorded, sent, buffer, shown, refresh, badge>>
  BY DEF Serialize, linkVars, daemonVars, trayVars
<1>2. ring \in Seq(Events) /\ wire \in Seq(Pieces) /\ buffer \in Seq(Pieces)
  BY DEF StreamInv, StreamData
<1>3. /\ Tail(ring) \in Seq(Events) /\ Head(ring) \in Events
      /\ LineOf(sent, shown, (buffer \o wire) \o Frame(Head(ring)), Tail(ring))
  BY <1>1, <1>2, RingGivesUp, WireTakes DEF StreamInv, Line
<1>4. Frame(Head(ring)) \in Seq(Pieces)
  BY <1>3 DEF Frame, Pieces
<1>5. wire' \in Seq(Pieces) /\ (buffer \o wire) \o Frame(Head(ring)) = buffer \o wire'
  BY <1>1, <1>2, <1>4
<1>6. Len(Tail(ring)) <= RingCap
  <2>1. Len(Tail(ring)) = Len(ring) - 1 /\ Len(ring) \in Nat
    BY <1>1, <1>2
  <2> QED BY <2>1, StreamConstants DEF StreamConstants, StreamInv, StreamTypeOK
<1>7. StreamTypeOK'
  BY <1>1, <1>6 DEF StreamInv, StreamTypeOK, ToSet
<1>8. StreamData' /\ Line'
  BY <1>1, <1>3, <1>5 DEF StreamInv, StreamData, Once, Line
<1>9. Told' /\ Paid' /\ Tray'
  BY <1>1, TrayStays DEF StreamInv, Told, Paid, ToSet
<1> QED BY <1>7, <1>8, <1>9 DEF StreamInv

(* An event that is passed to the window was not passed before, so its     *)
(* refresh is the first of its request.                                    *)
LEMMA AskingKeepsTray ==
    ASSUME StreamTypeOK, Tray, Once(sent),
           NEW out \in Seq(Events), shown \in Seq(Events), shown \o out \in Seq(Events),
           Ordered(sent, shown \o out), ToSet(shown \o out) = ToSet(shown) \union ToSet(out),
           shown' = shown \o out, refresh' = Asked(out), badge' = badge
    PROVE  Tray'
<1>1. ToSet(shown') = ToSet(shown) \union ToSet(out)
  BY DEF ToSet
<1>2. ASSUME NEW e \in ToSet(out) PROVE e \in Events /\ e \notin ToSet(shown)
  <2>1. PICK k \in DOMAIN out : out[k] = e
    BY DEF ToSet
  <2>2. e \in Events
    BY <2>1
  <2>3. ASSUME NEW m \in DOMAIN shown, shown[m] = e PROVE FALSE
    <3>1. /\ m \in 1..Len(shown) /\ k \in 1..Len(out) /\ Len(shown) \in Nat /\ Len(out) \in Nat
          /\ m \in DOMAIN (shown \o out) /\ Len(shown) + k \in DOMAIN (shown \o out)
          /\ (shown \o out)[m] = e /\ (shown \o out)[Len(shown) + k] = e
      BY <2>1, <2>3, Joined
    <3>2. m < Len(shown) + k
      BY <3>1
    <3>3. Precedes(sent, e, e)
      BY <3>1, <3>2 DEF Ordered
    <3> QED BY <3>3, PrecedesIsOrder
  <2> QED BY <2>2, <2>3 DEF ToSet
<1>3. \A e \in ToSet(shown) : e \in Events
  BY DEF ToSet
<1>4. ASSUME NEW e \in ToSet(out), Billable(e) PROVE refresh[e.r].at = "none"
  <2>1. e.r \in Requests
    BY <1>2 DEF Events
  <2>2. ASSUME NEW f \in ToSet(shown), Billable(f), f.r = e.r PROVE FALSE
    <3>1. e \in Events /\ f \in Events
      BY <1>2, <1>3
    <3>2. e.shape = f.shape
      BY <1>4, <2>2, <3>1, EventShapes DEF Billable, Events
    <3>3. e = f
      BY <2>2, <3>1, <3>2 DEF Events
    <3> QED BY <1>2, <3>3
  <2> QED BY <2>1, <2>2 DEF Tray, AskedOnce
<1>5. ASSUME NEW c \in Callers
      PROVE  \/ refresh'[c] = refresh[c]
             \/ /\ refresh[c].at = "none" /\ refresh'[c] = [at |-> "asked", saw |-> {}]
                /\ \E e \in ToSet(out) : Billable(e) /\ e.r = c
  BY <1>4 DEF Asked
<1>6. Drawn' /\ Nested'
  <2>1. \A c \in Callers : refresh'[c].at = "done" <=> refresh[c].at = "done"
    BY <1>5
  <2>2. \A c \in Callers : refresh[c].at = "done" => refresh'[c] = refresh[c]
    BY <1>5
  <2>3. \A c \in Callers : refresh'[c].saw = refresh[c].saw \/ refresh'[c].saw = {}
    BY <1>5
  <2> QED BY <2>1, <2>2, <2>3 DEF Tray, Drawn, Nested
<1>7. Counted'
  <2> SUFFICES ASSUME NEW e \in ToSet(shown'), Billable(e)
               PROVE  /\ refresh'[e.r].at # "none"
                      /\ refresh'[e.r].at \in {"read", "done"} =>
                            e.r \in refresh'[e.r].saw \/ refresh'[e.r].saw = {}
    BY DEF Counted, HasRead, Billable
  <2>1. e.r \in Requests /\ e.r \in Callers
    BY <1>1, <1>2, <1>3 DEF Events, Callers
  <2>2. CASE e \in ToSet(shown)
    BY <1>5, <2>1, <2>2 DEF Tray, Counted, HasRead
  <2>3. CASE e \in ToSet(out)
    <3>1. refresh'[e.r] = [at |-> "asked", saw |-> {}]
      BY <2>1, <2>3 DEF Asked
    <3> QED BY <3>1
  <2> QED BY <1>1, <2>2, <2>3
<1>8. AskedOnce'
  <2> SUFFICES ASSUME NEW r \in Requests, refresh'[r].at # "none"
               PROVE  \E e \in ToSet(shown') : Billable(e) /\ e.r = r
    BY DEF AskedOnce, Billable
  <2>1. r \in Callers
    BY DEF Callers
  <2> QED BY <1>1, <1>5, <2>1 DEF Tray, AskedOnce
<1> QED BY <1>6, <1>7, <1>8 DEF Tray

LEMMA ReceiveKeepsInv ==
    ASSUME StreamInv, NEW n \in 1..Len(wire), Receive(n)
    PROVE  StreamInv'
<1> DEFINE chunk == SubSeq(wire, 1, n)
           all == IF Utf8(chunk) THEN buffer \o chunk ELSE buffer
           out == Emitted(all)
           rest == SubSeq(wire, n + 1, Len(wire))
<1>1. /\ link = "open" /\ wire' = rest /\ buffer' = Left(all) /\ shown' = shown \o out
      /\ refresh' = Asked(out)
      /\ UNCHANGED <<link, backoff, stage, hand, rows, recorded, sent, ring, badge>>
  BY DEF Receive, linkVars, daemonVars
<1>2. /\ wire \in Seq(Pieces) /\ buffer \in Seq(Pieces) /\ shown \in Seq(Events) /\ Once(sent)
      /\ LineOf(sent, shown, buffer \o wire, ring)
  BY DEF StreamInv, StreamData, Line
<1>3. /\ chunk \in Seq(Pieces) /\ rest \in Seq(Pieces)
      /\ LineOf(sent, shown, (buffer \o chunk) \o rest, ring)
      /\ LineOf(sent, shown, buffer \o rest, ring)
  BY <1>2, ChunkKept
<1> HIDE DEF chunk, rest
<1>4. all \in Seq(Pieces) /\ LineOf(sent, shown, all \o rest, ring)
  BY <1>2, <1>3
<1> HIDE DEF all
<1>5. /\ LineOf(sent, shown \o out, Left(all) \o rest, ring)
      /\ Left(all) \in Seq(Pieces) /\ out \in Seq(Events) /\ shown \o out \in Seq(Events)
      /\ ToSet(shown \o out) = ToSet(shown) \union ToSet(out)
      /\ ToSet(out) \subseteq ToSet(sent)
  BY <1>2, <1>3, <1>4, FramesAreShown
<1> HIDE DEF out
<1>6. refresh' \in [Callers -> [at : {"none", "asked", "read", "done"}, saw : SUBSET rows']]
  <2>1. refresh \in [Callers -> [at : {"none", "asked", "read", "done"}, saw : SUBSET rows]]
    BY DEF StreamInv, StreamTypeOK
  <2> QED BY <1>1, <2>1 DEF Asked
<1>7. StreamTypeOK'
  BY <1>1, <1>6 DEF StreamInv, StreamTypeOK, ToSet
<1>8. StreamData' /\ Line'
  BY <1>1, <1>3, <1>5 DEF StreamInv, StreamData, Once, Line
<1>9. Told' /\ Paid'
  BY <1>1 DEF StreamInv, Told, Paid, ToSet
<1>10. Tray'
  BY <1>1, <1>2, <1>5, AskingKeepsTray DEF StreamInv, LineOf
<1> QED BY <1>7, <1>8, <1>9, <1>10 DEF StreamInv

LEMMA TrayKeepsInv ==
    ASSUME StreamInv, RefreshElsewhere \/ \E c \in Callers : ReadRows(c) \/ DrawBadge(c)
    PROVE  StreamInv'
<1>1. UNCHANGED <<link, backoff, stage, hand, rows, recorded, sent, ring, wire, buffer, shown>>
  BY DEF RefreshElsewhere, ReadRows, DrawBadge, linkVars, daemonVars
<1>2. /\ refresh \in [Callers -> [at : {"none", "asked", "read", "done"}, saw : SUBSET rows]]
      /\ badge \subseteq rows
  BY DEF StreamInv, StreamTypeOK
<1>3. StreamData' /\ Told' /\ Paid' /\ Line'
  BY <1>1 DEF StreamInv, StreamData, Once, Told, Paid, Line, ToSet
<1>4. \A e \in ToSet(shown) : Billable(e) => e.r \in rows /\ e.r \in Requests
  BY DEF StreamInv, StreamTypeOK, StreamData, Line, LineOf, Paid
<1> SUFFICES /\ refresh' \in [Callers -> [at : {"none", "asked", "read", "done"}, saw : SUBSET rows]]
             /\ badge' \subseteq rows
             /\ Tray'
  BY <1>1, <1>3 DEF StreamInv, StreamTypeOK, ToSet
<1>5. CASE RefreshElsewhere
  <2>1. /\ refresh[Timer].at = "none" /\ badge' = badge
        /\ refresh' = [refresh EXCEPT ![Timer].at = "asked"]
    BY <1>5 DEF RefreshElsewhere
  <2>2. Timer \in Callers /\ Timer \notin Requests
    BY StreamConstants DEF StreamConstants, Callers
  <2>3. /\ \A c \in Callers : c # Timer => refresh'[c] = refresh[c]
        /\ \A c \in Callers : refresh'[c].saw = refresh[c].saw
        /\ refresh'[Timer].at = "asked"
    BY <1>2, <2>1, <2>2
  <2>4. Drawn' /\ Nested'
    BY <2>1, <2>2, <2>3 DEF StreamInv, Tray, Drawn, Nested
  <2>5. \A r \in Requests : r \in Callers /\ refresh'[r] = refresh[r]
    BY <2>2, <2>3 DEF Callers
  <2>6. Counted'
    <3> SUFFICES ASSUME NEW e \in ToSet(shown), Billable(e)
                 PROVE  /\ refresh'[e.r].at # "none"
                        /\ refresh'[e.r].at \in {"read", "done"} =>
                              e.r \in refresh'[e.r].saw \/ refresh'[e.r].saw = {}
      BY <1>1 DEF Counted, HasRead, Billable, ToSet
    <3>1. e.r \in Requests
      BY <1>4
    <3> QED BY <2>5, <3>1 DEF StreamInv, Tray, Counted, HasRead
  <2>7. AskedOnce'
    BY <1>1, <2>5 DEF StreamInv, Tray, AskedOnce, ToSet, Billable
  <2> QED BY <1>2, <2>1, <2>4, <2>6, <2>7 DEF Tray
<1>6. ASSUME NEW c \in Callers, ReadRows(c)
      PROVE  /\ refresh' \in [Callers -> [at : {"none", "asked", "read", "done"}, saw : SUBSET rows]]
             /\ badge' \subseteq rows
             /\ Tray'
  <2>1. PICK seen \in {rows, {}} :
          /\ refresh[c].at = "asked" /\ badge' = badge
          /\ refresh' = [refresh EXCEPT ![c] = [at |-> "read", saw |-> seen]]
    BY <1>6 DEF ReadRows
  <2>2. /\ \A q \in Callers : q # c => refresh'[q] = refresh[q]
        /\ refresh'[c] = [at |-> "read", saw |-> seen]
    BY <1>2, <2>1
  <2>3. Drawn'
    <3>1. \A q \in Callers : refresh'[q].at = "done" <=> refresh[q].at = "done"
      BY <2>1, <2>2
    <3>2. \A q \in Callers : refresh[q].at = "done" => refresh'[q] = refresh[q]
      BY <2>1, <2>2
    <3> QED BY <2>1, <3>1, <3>2 DEF StreamInv, Tray, Drawn
  <2>4. Nested'
    BY <1>2, <2>1, <2>2 DEF StreamInv, Tray, Nested
  <2>5. Counted'
    <3> SUFFICES ASSUME NEW e \in ToSet(shown), Billable(e)
                 PROVE  /\ refresh'[e.r].at # "none"
                        /\ refresh'[e.r].at \in {"read", "done"} =>
                              e.r \in refresh'[e.r].saw \/ refresh'[e.r].saw = {}
      BY <1>1 DEF Counted, HasRead, Billable, ToSet
    <3>1. e.r \in rows /\ e.r \in Callers
      BY <1>4 DEF Callers
    <3>2. CASE e.r = c
      BY <2>1, <2>2, <3>1, <3>2
    <3>3. CASE e.r # c
      BY <2>2, <3>1, <3>3 DEF StreamInv, Tray, Counted, HasRead
    <3> QED BY <3>2, <3>3
  <2>6. AskedOnce'
    <3> SUFFICES ASSUME NEW r \in Requests, refresh'[r].at # "none"
                 PROVE  \E e \in ToSet(shown) : Billable(e) /\ e.r = r
      BY <1>1 DEF AskedOnce, Billable, ToSet
    <3>1. refresh[r].at # "none"
      <4>1. r \in Callers
        BY DEF Callers
      <4>2. CASE r = c
        BY <2>1, <4>2
      <4>3. CASE r # c
        BY <2>2, <4>1, <4>3
      <4> QED BY <4>2, <4>3
    <3> QED BY <3>1 DEF StreamInv, Tray, AskedOnce
  <2> QED BY <1>2, <2>1, <2>3, <2>4, <2>5, <2>6 DEF Tray
<1>7. ASSUME NEW c \in Callers, DrawBadge(c)
      PROVE  /\ refresh' \in [Callers -> [at : {"none", "asked", "read", "done"}, saw : SUBSET rows]]
             /\ badge' \subseteq rows
             /\ Tray'
  <2>1. /\ refresh[c].at = "read" /\ badge' = refresh[c].saw
        /\ refresh' = [refresh EXCEPT ![c].at = "done"]
    BY <1>7 DEF DrawBadge
  <2>2. /\ \A q \in Callers : q # c => refresh'[q] = refresh[q]
        /\ refresh'[c].at = "done" /\ \A q \in Callers : refresh'[q].saw = refresh[q].saw
    BY <1>2, <2>1
  <2>3. Drawn' /\ Nested'
    BY <2>1, <2>2 DEF StreamInv, Tray, Drawn, Nested
  <2>4. \A r \in Requests : /\ r \in Callers
                            /\ refresh'[r].at # "none" <=> refresh[r].at # "none"
                            /\ refresh'[r].at \in {"read", "done"} <=> refresh[r].at \in {"read", "done"}
                            /\ refresh'[r].saw = refresh[r].saw
    BY <2>1, <2>2 DEF Callers
  <2>5. Counted'
    <3> SUFFICES ASSUME NEW e \in ToSet(shown), Billable(e)
                 PROVE  /\ refresh'[e.r].at # "none"
                        /\ refresh'[e.r].at \in {"read", "done"} =>
                              e.r \in refresh'[e.r].saw \/ refresh'[e.r].saw = {}
      BY <1>1 DEF Counted, HasRead, Billable, ToSet
    <3>1. e.r \in Requests
      BY <1>4
    <3> QED BY <2>4, <3>1 DEF StreamInv, Tray, Counted, HasRead
  <2>6. AskedOnce'
    <3> SUFFICES ASSUME NEW r \in Requests, refresh'[r].at # "none"
                 PROVE  \E e \in ToSet(shown) : Billable(e) /\ e.r = r
      BY <1>1 DEF AskedOnce, Billable, ToSet
    <3>1. refresh[r].at # "none"
      BY <2>4
    <3> QED BY <3>1 DEF StreamInv, Tray, AskedOnce
  <2> QED BY <1>2, <2>1, <2>3, <2>5, <2>6 DEF Tray
<1> QED BY <1>5, <1>6, <1>7

LEMMA StreamNextKeepsInv == StreamInv /\ [StreamNext]_streamVars => StreamInv'
<1> SUFFICES ASSUME StreamInv, [StreamNext]_streamVars PROVE StreamInv'
  OBVIOUS
<1>1. CASE StreamNext
  BY <1>1, RequestKeepsInv, BroadcastKeepsInv, LinkKeepsInv, CutKeepsInv, SerializeKeepsInv,
     ReceiveKeepsInv, TrayKeepsInv DEF StreamNext
<1>2. CASE UNCHANGED streamVars
  BY <1>2, TrayStays DEF streamVars, daemonVars, linkVars, trayVars, StreamInv, StreamTypeOK, StreamData,
                         Once, Told, Paid, Line, ToSet
<1> QED BY <1>1, <1>2

LEMMA LineIsInOrder == StreamInv => ShownInOrderAndCounted
<1> SUFFICES ASSUME StreamInv PROVE ShownInOrder /\ BadgeFollows
  BY DEF ShownInOrderAndCounted
<1>1. ShownInOrder
  BY DEF StreamInv, Line, LineOf, Ordered, Precedes, ShownInOrder
<1>2. ASSUME NEW e \in ToSet(shown), Billable(e), ~ Failed(e.r)
      PROVE  /\ e.r \in rows
             /\ refresh[e.r].at # "none"
             /\ refresh[e.r].at \in {"read", "done"} => e.r \in refresh[e.r].saw
             /\ refresh[e.r].at = "done" => e.r \in badge \/ DrawnOver(e.r)
  <2>1. e.r \in rows /\ e.r \in Callers
    BY <1>2 DEF StreamInv, StreamTypeOK, Line, LineOf, Paid, Callers
  <2>2. /\ refresh[e.r].at # "none"
        /\ refresh[e.r].at \in {"read", "done"} => e.r \in refresh[e.r].saw
    BY <1>2 DEF StreamInv, Tray, Counted, HasRead, Failed
  <2>3. ASSUME refresh[e.r].at = "done", e.r \notin badge PROVE DrawnOver(e.r)
    <3>1. PICK q \in Callers : refresh[q].at = "done" /\ badge = refresh[q].saw
      BY <2>1, <2>3 DEF StreamInv, Tray, Drawn
    <3>2. e.r \in refresh[e.r].saw
      BY <2>2, <2>3
    <3>3. q # e.r /\ badge \subseteq refresh[e.r].saw
      BY <2>1, <2>3, <3>1, <3>2 DEF StreamInv, Tray, Nested
    <3> QED BY <3>1, <3>3 DEF DrawnOver
  <2> QED BY <2>1, <2>2, <2>3
<1> QED BY <1>1, <1>2 DEF BadgeFollows

----------------------------------------------------------------------------
(* What the window shows it shows once and in the order of the broadcast,  *)
(* over any number of connections, frames torn and events overtaken, and   *)
(* a request it shows as paid has its row and its refresh of the tray,     *)
(* which counts it unless its reading fails or an older one is drawn over  *)
(* it (console_bridge.rs, console_stream.rs, tray.rs).                     *)
THEOREM WindowIsInOrderAndCounted == StreamSpec => []ShownInOrderAndCounted
<1>1. StreamSpec => []StreamInv
  BY StreamInitInv, StreamNextKeepsInv, PTL DEF StreamSpec
<1> QED BY <1>1, LineIsInOrder, PTL

(* Every variable of stream and lifecycle keeps its type: the ring and the *)
(* wait between connections keep their limits, a connection that is down   *)
(* has nothing on it, a daemon that runs is loaded and has its agent's     *)
(* file, and no call outlives the app (console_stream.rs, daemon_client.rs,*)
(* launchd.rs).                                                            *)
THEOREM DaemonTypesAreKept == MCSpec => []TypesOK
<1>1. MCInit => StreamInv /\ LifeInv
  BY StreamInitInv, LifeInitInv DEF MCInit
<1>2. StreamInv /\ LifeInv /\ [MCNext]_allVars => (StreamInv /\ LifeInv)'
  <2>1. [MCNext]_allVars => [StreamNext]_streamVars /\ [LifeNext]_lifeVars
    BY DEF MCNext, allVars
  <2> QED BY <2>1, StreamNextKeepsInv, LifeNextKeepsInv
<1>3. StreamInv /\ LifeInv => TypesOK
  BY DEF StreamInv, LifeInv, TypesOK
<1> QED BY <1>1, <1>2, <1>3, PTL DEF MCSpec
=============================================================================
