--------------------------- MODULE ConsoleStream ---------------------------
(***************************************************************************)
(* The live console.  A request event is handed to the daemon's history    *)
(* and then broadcast (proxy/mod.rs, proxy/console.rs); the app's bridge   *)
(* subscribes over SSE, cuts the byte stream into frames and passes each   *)
(* event to the window (console_stream.rs, console_bridge.rs).             *)
(*                                                                         *)
(* A frame is three pieces: text, the rest of the text, the blank line.    *)
(* In a wide event a character lies across the first two.                  *)
(*                                                                         *)
(* A paid event also has the tray redrawn (tray.rs), by a task of its own  *)
(* that reads the database and hands what it read to the main thread.      *)
(***************************************************************************)
EXTENDS Integers, Sequences, FiniteSets

CONSTANTS
    Requests,     \* requests in flight at the daemon
    NoEvent,
    Timer,        \* whatever else redraws the tray: a timer, the window, the menu
    Ends,         \* how they end: a set of the Terminal shapes below
    Wide,         \* requests whose events have a character across their pieces
    RingCap,      \* CONSOLE_CHANNEL_CAPACITY
    MaxBackoff,   \* BACKOFF_MAX in units of BACKOFF_MIN
    MaxBreaks     \* bound: stops of the daemon, broken connections, restarts,
                  \* failed readings of the database

ASSUME StreamConstants ==
    /\ {RingCap, MaxBackoff} \subseteq Nat \ {0}
    /\ MaxBreaks \in Nat
    /\ Wide \subseteq Requests /\ Timer \notin Requests

VARIABLES
    up,        \* the daemon listens
    link,      \* where the bridge is: "connecting", "open", "waiting"
    backoff,   \* its next wait
    permit,    \* a restart was asked for and not consumed (Notify)
    stage,     \* how far each request is: "new", "sent", "counted", "over"
    hand,      \* the event it has recorded and not yet broadcast
    rows,      \* requests whose usage is in the database
    recorded,  \* events handed to the daemon's history
    sent,      \* events broadcast, in order
    ring,      \* broadcast, not yet read by the subscription
    wire,      \* pieces on their way to the bridge
    buffer,    \* pieces in the bridge, up to the next blank line
    shown,     \* events passed to the window
    lost,      \* by cause: overtaken in the ring, cut off, torn
    refresh,   \* the redrawing each caller asked for, and the rows it found
    badge,     \* rows the tray counted when it was last drawn
    breaks     \* stops, breaks, restarts and failed readings so far

daemonVars == <<stage, hand, rows, recorded, sent>>
linkVars == <<link, backoff, permit>>
trayVars == <<refresh, badge>>
streamVars == <<up, daemonVars, linkVars, ring, wire, buffer, shown, lost, trayVars, breaks>>

Callers == Requests \union {Timer}
NoRefresh == [at |-> "none", saw |-> {}]

ToSet(s) == {s[n] : n \in DOMAIN s}

(* What a request event carries, by kind: a target once it is dispatched,  *)
(* a status once upstream answered, a latency once it is over.             *)
Pending == [kind |-> "pending", upstream |-> TRUE, status |-> FALSE, latency |-> FALSE]
Ok == [kind |-> "ok", upstream |-> TRUE, status |-> TRUE, latency |-> TRUE]
Estimated == [Ok EXCEPT !.kind = "estimated"]
UpstreamError == [kind |-> "upstream_error", upstream |-> TRUE, status |-> FALSE, latency |-> TRUE]
UpstreamResponseError == [UpstreamError EXCEPT !.status = TRUE]
Cancelled(started) == [UpstreamError EXCEPT !.kind = "cancelled", !.status = started]
Rejected == [UpstreamError EXCEPT !.kind = "rejected", !.upstream = FALSE]
WsUpgraded == [UpstreamError EXCEPT !.kind = "ws"]
Terminal == {Ok, Estimated, UpstreamError, UpstreamResponseError,
             Cancelled(TRUE), Cancelled(FALSE), Rejected, WsUpgraded}

ASSUME EventConstants ==
    /\ Ends \subseteq Terminal
    /\ NoEvent \notin [r : Requests, shape : Terminal \union {Pending}]

(* Which events redraw the tray.                                           *)
Billable(e) == e.shape.kind = "ok" /\ e.shape.status

(* Request and kind are the identity (event_id) by which a copy from the   *)
(* history is recognised.                                                  *)
Event(r, shape) == [r |-> r, shape |-> shape]

StreamInit ==
    /\ up \in BOOLEAN
    /\ link = "connecting" /\ backoff = 1 /\ permit = FALSE
    /\ stage = [r \in Requests |-> "new"] /\ hand = [r \in Requests |-> NoEvent]
    /\ rows = {} /\ recorded = {} /\ sent = <<>>
    /\ refresh = [c \in Callers |-> NoRefresh] /\ badge = {}
    /\ ring = <<>> /\ wire = <<>> /\ buffer = <<>> /\ shown = <<>>
    /\ lost = [lagged |-> {}, cut |-> {}, torn |-> {}]
    /\ breaks = 0

-----------------------------------------------------------------------------
(* The daemon.                                                             *)

(* emit_console: history first, then the broadcast; other requests may     *)
(* come in between.                                                        *)
Persist(r, shape) ==
    /\ up /\ hand[r] = NoEvent
    /\ hand' = [hand EXCEPT ![r] = Event(r, shape)]
    /\ recorded' = recorded \union {Event(r, shape)}
    /\ UNCHANGED <<up, linkVars, sent, ring, wire, buffer, shown, lost, trayVars, breaks>>

(* Without a subscriber the event is gone; one that is too far behind      *)
(* loses the oldest it has not read.                                       *)
Broadcast(r) ==
    /\ up /\ hand[r] # NoEvent
    /\ sent' = Append(sent, hand[r])
    /\ hand' = [hand EXCEPT ![r] = NoEvent]
    /\ IF link # "open" THEN UNCHANGED <<ring, lost>>
       ELSE IF Len(ring) < RingCap THEN ring' = Append(ring, hand[r]) /\ UNCHANGED lost
       ELSE /\ ring' = Append(Tail(ring), hand[r])
            /\ lost' = [lost EXCEPT !.lagged = @ \union {Head(ring)}]
    /\ UNCHANGED <<up, linkVars, stage, rows, recorded, wire, buffer, shown, trayVars, breaks>>

Dispatch(r) ==
    /\ stage[r] = "new"
    /\ Persist(r, Pending)
    /\ stage' = [stage EXCEPT ![r] = "sent"]
    /\ UNCHANGED rows

Reject(r) ==
    /\ stage[r] = "new"
    /\ Rejected \in Ends
    /\ Persist(r, Rejected)
    /\ stage' = [stage EXCEPT ![r] = "over"]
    /\ UNCHANGED rows

(* The usage row comes first, then the event that tells of the end.        *)
RecordUsage(r) ==
    /\ up /\ stage[r] = "sent"
    /\ rows' = rows \union {r}
    /\ stage' = [stage EXCEPT ![r] = "counted"]
    /\ UNCHANGED <<up, hand, recorded, sent, linkVars, ring, wire, buffer, shown, lost, trayVars, breaks>>

End(r) ==
    /\ \E shape \in Ends \ {Rejected} :
         /\ stage[r] = "counted" \/ (stage[r] = "sent" /\ shape \notin {Ok, Estimated})
         /\ Persist(r, shape)
    /\ stage' = [stage EXCEPT ![r] = "over"]
    /\ UNCHANGED rows

Frame(e) == <<[e |-> e, part |-> "text"], [e |-> e, part |-> "rest"], [e |-> e, part |-> "blank"]>>

(* The subscription reads on and serialises.                               *)
Serialize ==
    /\ link = "open" /\ up
    /\ ring # <<>>
    /\ wire' = wire \o Frame(Head(ring))
    /\ ring' = Tail(ring)
    /\ UNCHANGED <<up, linkVars, daemonVars, buffer, shown, trayVars, lost, breaks>>

InFlight == ToSet(ring) \union {p.e : p \in ToSet(wire)} \union {p.e : p \in ToSet(buffer)}

(* (Variant: the bridge keeps what it had not finished.)                   *)
CutButBuffer ==
    /\ ring' = <<>> /\ wire' = <<>>
    /\ UNCHANGED <<buffer, lost>>

(* The connection is gone with all that was on it.                         *)
Cut ==
    /\ ring' = <<>> /\ wire' = <<>> /\ buffer' = <<>>
    /\ lost' = [lost EXCEPT !.cut = @ \union (InFlight \ ToSet(shown))]

DaemonStops ==
    /\ up /\ breaks < MaxBreaks
    /\ up' = FALSE
    /\ breaks' = breaks + 1
    /\ UNCHANGED <<linkVars, daemonVars, ring, wire, buffer, shown, trayVars, lost>>

DaemonStarts ==
    /\ ~up
    /\ up' = TRUE
    /\ UNCHANGED <<linkVars, daemonVars, ring, wire, buffer, shown, trayVars, lost, breaks>>

-----------------------------------------------------------------------------
(* The bridge.                                                             *)

Connect ==
    /\ link = "connecting" /\ up
    /\ link' = "open"
    /\ UNCHANGED <<up, backoff, permit, daemonVars, ring, wire, buffer, shown, trayVars, lost, breaks>>

ConnectFails ==
    /\ link = "connecting" /\ ~up
    /\ link' = "waiting"
    /\ UNCHANGED <<up, backoff, permit, daemonVars, ring, wire, buffer, shown, trayVars, lost, breaks>>

(* (Variant: only a restart ends it.)                                      *)
WaitForRestart ==
    /\ link = "waiting" /\ permit
    /\ link' = "connecting"
    /\ permit' = FALSE
    /\ backoff' = IF 2 * backoff > MaxBackoff THEN MaxBackoff ELSE 2 * backoff
    /\ UNCHANGED <<up, daemonVars, ring, wire, buffer, shown, trayVars, lost, breaks>>

(* The wait ends with its time or with a restart; either way the next one  *)
(* is longer.                                                              *)
WaitEnds ==
    /\ link = "waiting"
    /\ link' = "connecting"
    /\ permit' = FALSE
    /\ backoff' = IF 2 * backoff > MaxBackoff THEN MaxBackoff ELSE 2 * backoff
    /\ UNCHANGED <<up, daemonVars, ring, wire, buffer, shown, trayVars, lost, breaks>>

Restart ==
    /\ breaks < MaxBreaks
    /\ permit' = TRUE
    /\ breaks' = breaks + 1
    /\ UNCHANGED <<up, link, backoff, daemonVars, ring, wire, buffer, shown, trayVars, lost>>

(* Only a break that was asked for resets the wait.                        *)
Break ==
    /\ link = "open" /\ permit
    /\ link' = "connecting" /\ permit' = FALSE /\ backoff' = 1
    /\ Cut
    /\ UNCHANGED <<up, daemonVars, shown, trayVars, breaks>>

ConnectionLost ==
    /\ link = "open"
    /\ ~up \/ breaks < MaxBreaks
    /\ breaks' = IF up THEN breaks + 1 ELSE breaks
    /\ link' = "waiting"
    /\ Cut
    /\ UNCHANGED <<up, backoff, permit, daemonVars, shown, trayVars>>

(* A chunk is any stretch of the wire.  One that begins or ends inside a   *)
(* character is not UTF-8 and is dropped whole.                            *)
Utf8(chunk) ==
    LET first == chunk[1]
        last == chunk[Len(chunk)]
    IN  ~(first.part = "rest" /\ first.e.r \in Wide) /\ ~(last.part = "text" /\ last.e.r \in Wide)

(* drain_complete_records over pieces: the frames up to the last blank     *)
(* line, and what stays for the next chunk.                                *)
Blanks(ps) == {n \in DOMAIN ps : ps[n].part = "blank"}
LastBlank(ps) == IF Blanks(ps) = {} THEN 0 ELSE CHOOSE n \in Blanks(ps) : \A k \in Blanks(ps) : k <= n
(* (Variant: the drained frames stay.)                                     *)
LeftAll(ps) == ps
Left(ps) == SubSeq(ps, LastBlank(ps) + 1, Len(ps))
FrameAt(ps, n) ==  \* the pieces of the frame that the blank line n ends
    LET from == LastBlank(SubSeq(ps, 1, n - 1)) IN SubSeq(ps, from + 1, n - 1)

(* What emit_record makes of a frame: the event, if the JSON is whole.     *)
Parsed(frame) ==
    IF Len(frame) = 2 /\ frame[1].part = "text" /\ frame[2].part = "rest" /\ frame[1].e = frame[2].e
    THEN <<frame[1].e>> ELSE <<>>

Emitted(ps) ==
    LET Upto[n \in 0..Len(ps)] ==
          IF n = 0 THEN <<>>
          ELSE Upto[n - 1] \o (IF ps[n].part = "blank" THEN Parsed(FrameAt(ps, n)) ELSE <<>>)
    IN  Upto[Len(ps)]

(* Every paid event has the tray redrawn, without waiting for it.          *)
Asked(out) ==
    [c \in Callers |->
        IF \E e \in ToSet(out) : Billable(e) /\ e.r = c
        THEN [at |-> "asked", saw |-> {}] ELSE refresh[c]]

Receive(n) ==
    /\ link = "open"
    /\ LET chunk == SubSeq(wire, 1, n)
           all == IF Utf8(chunk) THEN buffer \o chunk ELSE buffer
           out == Emitted(all)
           left == Left(all)
           rest == SubSeq(wire, n + 1, Len(wire))
           gone == {p.e : p \in ToSet(buffer \o chunk)}
                     \ (ToSet(out) \union {p.e : p \in ToSet(left \o rest)} \union ToSet(shown))
       IN  /\ wire' = rest
           /\ buffer' = left
           /\ shown' = shown \o out
           /\ refresh' = Asked(out)
           /\ lost' = [lost EXCEPT !.torn = @ \union gone]
    /\ UNCHANGED <<up, linkVars, daemonVars, ring, badge, breaks>>

-----------------------------------------------------------------------------
(* The tray.                                                               *)

RefreshElsewhere ==
    /\ refresh[Timer].at = "none"
    /\ refresh' = [refresh EXCEPT ![Timer].at = "asked"]
    /\ UNCHANGED <<up, linkVars, daemonVars, ring, wire, buffer, shown, lost, badge, breaks>>

(* A reading that fails counts as nothing.                                 *)
ReadRows(c) ==
    /\ refresh[c].at = "asked"
    /\ \/ /\ refresh' = [refresh EXCEPT ![c] = [at |-> "read", saw |-> rows]]
          /\ UNCHANGED breaks
       \/ /\ breaks < MaxBreaks /\ breaks' = breaks + 1
          /\ refresh' = [refresh EXCEPT ![c] = [at |-> "read", saw |-> {}]]
    /\ UNCHANGED <<up, linkVars, daemonVars, ring, wire, buffer, shown, lost, badge>>

(* The main thread draws what it is given, in the order it is given.       *)
DrawBadge(c) ==
    /\ refresh[c].at = "read"
    /\ badge' = refresh[c].saw
    /\ refresh' = [refresh EXCEPT ![c].at = "done"]
    /\ UNCHANGED <<up, linkVars, daemonVars, ring, wire, buffer, shown, lost, breaks>>

-----------------------------------------------------------------------------
StreamNext ==
    \/ \E r \in Requests : Dispatch(r) \/ Reject(r) \/ RecordUsage(r) \/ End(r) \/ Broadcast(r)
    \/ Serialize \/ DaemonStops \/ DaemonStarts
    \/ Connect \/ ConnectFails \/ WaitEnds \/ Restart \/ Break \/ ConnectionLost
    \/ \E n \in 1..Len(wire) : Receive(n)
    \/ RefreshElsewhere \/ \E c \in Callers : ReadRows(c) \/ DrawBadge(c)

(* The tasks run on; nothing else has to happen.                           *)
StreamFairness ==
    /\ WF_streamVars(Connect \/ ConnectFails)
    /\ WF_streamVars(WaitEnds)
    /\ WF_streamVars(Break)
    /\ WF_streamVars(Serialize)
    /\ WF_streamVars(\E n \in 1..Len(wire) : Receive(n))
    /\ WF_streamVars(link = "open" /\ ~up /\ ConnectionLost)

StreamSpec == StreamInit /\ [][StreamNext]_streamVars
FairStreamSpec == StreamSpec /\ StreamFairness

-----------------------------------------------------------------------------
(* Properties.                                                             *)

StreamTypeOK ==
    /\ link \in {"connecting", "open", "waiting"}
    /\ backoff \in 1..MaxBackoff
    /\ recorded \subseteq [r : Requests, shape : Terminal \union {Pending}]
    /\ ToSet(sent) \subseteq recorded /\ badge \subseteq rows /\ rows \subseteq Requests
    /\ refresh \in [Callers -> [at : {"none", "asked", "read", "done"}, saw : SUBSET rows]]
    /\ Len(ring) <= RingCap
    /\ link # "open" => ring = <<>> /\ wire = <<>> /\ buffer = <<>>

(* The window sees events once, in the order of the broadcast, whatever    *)
(* was lost in between and over any number of connections.  The tray comes *)
(* after it, in no order: what holds is that the row of a request the      *)
(* window shows as done and paid is there, that a refresh was asked for it *)
(* which finds the row unless its reading fails, and that once that one is *)
(* drawn the request is counted, unless an older reading was drawn over it.*)
ShownInOrder ==
    \A m, n \in DOMAIN shown : m < n =>
        \E i, j \in DOMAIN sent : i < j /\ sent[i] = shown[m] /\ sent[j] = shown[n]
Failed(c) == refresh[c].at \in {"read", "done"} /\ refresh[c].saw = {}
DrawnOver(c) ==
    \E q \in Callers \ {c} :
        refresh[q].at = "done" /\ badge = refresh[q].saw /\ badge \subseteq refresh[c].saw
BadgeFollows ==
    \A e \in ToSet(shown) : Billable(e) /\ ~Failed(e.r) =>
        /\ e.r \in rows
        /\ refresh[e.r].at # "none"
        /\ refresh[e.r].at \in {"read", "done"} => e.r \in refresh[e.r].saw
        /\ refresh[e.r].at = "done" => e.r \in badge \/ DrawnOver(e.r)
ShownInOrderAndCounted == ShownInOrder /\ BadgeFollows

(* "forwards every event into a Tauri event" (console_bridge.rs:3): no     *)
(* event that came over the connection is lost in the bridge.              *)
ForwardsEveryEvent == lost.torn = {}

(* While the daemon runs the bridge gets back to it, and all that is on    *)
(* the connection goes to the window or is given up: nothing stays behind  *)
(* for want of a next event.                                               *)
BridgeComesBack == up /\ link # "open" ~> link = "open" \/ ~up
NothingStaysBehind == []<>(InFlight = {})
EventsArrive == BridgeComesBack /\ NothingStaysBehind
=============================================================================
