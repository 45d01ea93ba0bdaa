--------------------------- MODULE ClaudeDesktop ---------------------------
(***************************************************************************)
(* Taking over Claude Desktop and giving it back                           *)
(* (commands/claude_desktop_config.rs).  A takeover prepares token and     *)
(* session under the database lock, then writes four files of the client   *)
(* one after the other without it, and undoes them from a snapshot if one  *)
(* fails; a restore writes the same files first and closes the session     *)
(* after.  A saved key and a starting app refresh the profile under the    *)
(* lock.  The key a page or the tray marks as current is one more setting, *)
(* written when the command has returned (tray.rs, ClaudeDesktopPage.tsx). *)
(***************************************************************************)
EXTENDS Naturals

CONSTANTS
    Desks,     \* commands that may overlap: page, tray, saved key, start
    DeskKeys, DeskTokens, None,
    MaxSaves,  \* bound: saves of a key that change its menu
    MaxUses,   \* bound: choices the user makes in Claude Desktop itself
    MaxFails   \* bound: failed operations and crashes

ASSUME DeskAssumption ==
    /\ None \notin DeskKeys \union DeskTokens \union Desks
    /\ {MaxSaves, MaxUses, MaxFails} \subseteq Nat

VARIABLES
    files,   \* the client's four files
    token,   \* the setting claudeDesktopGatewayToken
    opens,   \* proxy_sessions of kind desktop: the key a token opens, or None
    aliases, \* per key, the menu whose alias table the daemon reads
    marked,  \* the setting claude_desktop_last_api_key_id
    menu,    \* per key, the version of the menu its catalog makes
    holder,  \* the refresh that holds the database
    desk,    \* the commands
    unsure,  \* history: what an overlap, a crash or a failure left in doubt
    fails, uses

deskVars == <<files, token, opens, aliases, marked, menu, holder, desk, unsure, fails, uses>>

Modes == {None, "1p", "3p"}
Menus == DeskKeys \X Nat
Profiles == [by : DeskTokens, menu : Menus \union {None}]

(* configs: deploymentMode of the two claude_desktop_config.json; entries  *)
(* and appliedId of _meta.json, where "own" stands for the user's profile. *)
DeskFiles ==
    [normal : Modes, threep : Modes, profile : Profiles \union {None},
     meta : [applied : {None, "own", "ours"}, entries : SUBSET {"own", "ours"}]]

ASSUME DeskAbsence ==
    /\ None \notin {"1p", "3p", "own", "ours"}
    /\ None \notin Menus /\ None \notin Profiles /\ None \notin DeskFiles

DeskCommands ==
    [op : {"none", "takeover", "restore"},
     at : {"rest", "snapshot", "normal", "threep", "profile", "meta", "filed", "mark",
           "undo_normal", "undo_threep", "undo_profile", "undo_meta"},
     key : DeskKeys \union {None}, by : DeskTokens \union {None}, menu : Menus \union {None},
     snap : DeskFiles \union {None}, alone : BOOLEAN]
AtRest == [op |-> "none", at |-> "rest", key |-> None, by |-> None, menu |-> None,
           snap |-> None, alone |-> TRUE]

DeskInit ==
    /\ files \in [normal : {None, "1p"}, threep : {None}, profile : {None},
                  meta : {[applied |-> None, entries |-> {}],
                          [applied |-> "own", entries |-> {"own"}]}]
    /\ token = None /\ marked = None
    /\ opens = [t \in DeskTokens |-> None]
    /\ aliases = [k \in DeskKeys |-> 0] /\ menu = [k \in DeskKeys |-> 1]
    /\ holder = None
    /\ desk = [c \in Desks |-> AtRest]
    /\ unsure = {}
    /\ fails = 0 /\ uses = 0

-----------------------------------------------------------------------------
(* What a command does to each file.                                       *)

(* (Variant: no other profile is applied instead.)                         *)
WrittenMetaAlone(m, op) ==
    [applied |-> IF op = "takeover" THEN "ours" ELSE IF m.applied = "ours" THEN None ELSE m.applied,
     entries |-> IF op = "takeover" THEN m.entries \union {"ours"} ELSE m.entries \ {"ours"}]

WrittenMeta(m, op) ==
    IF op = "takeover"
    THEN [applied |-> "ours", entries |-> m.entries \union {"ours"}]
    ELSE [applied |-> IF m.applied # "ours" THEN m.applied
                      ELSE IF "own" \in m.entries THEN "own" ELSE None,
          entries |-> m.entries \ {"ours"}]

(* (Variant: the profile keeps the menu it had.)                           *)
WrittenOnce(f, at, c) ==
    CASE at \in {"normal", "threep"} ->
             [f EXCEPT ![at] = IF desk[c].op = "takeover" THEN "3p" ELSE "1p"]
      [] at = "profile" ->
             [f EXCEPT !.profile = IF desk[c].op = "restore" THEN None
                                   ELSE [by |-> desk[c].by,
                                         menu |-> IF @ = None THEN desk[c].menu ELSE @.menu]]
      [] at = "meta" -> [f EXCEPT !.meta = WrittenMeta(@, desk[c].op)]

Written(f, at, c) ==
    CASE at \in {"normal", "threep"} ->
             [f EXCEPT ![at] = IF desk[c].op = "takeover" THEN "3p" ELSE "1p"]
      [] at = "profile" ->
             [f EXCEPT !.profile = IF desk[c].op = "takeover"
                                   THEN [by |-> desk[c].by, menu |-> desk[c].menu] ELSE None]
      [] at = "meta" -> [f EXCEPT !.meta = WrittenMeta(@, desk[c].op)]

Steps == {"normal", "threep", "profile", "meta"}
FollowedBy(at) ==
    CASE at = "snapshot" -> "normal" [] at = "normal" -> "threep" [] at = "threep" -> "profile"
      [] at = "profile" -> "meta" [] at = "meta" -> "filed"

(* The files are undone in the same order, from the top.                   *)
UndoStep == [normal |-> "undo_normal", threep |-> "undo_threep",
             profile |-> "undo_profile", meta |-> "undo_meta"]

Free == holder = None
DeskFails == fails < MaxFails /\ fails' = fails + 1
NoFail == UNCHANGED fails

(* A command that starts beside another leaves neither alone; one that     *)
(* starts alone leaves the doubt there is.                                 *)
Busy == {c \in Desks : desk[c].at # "rest"}
Started(c, cmd, doubt) ==
    /\ desk' = [d \in Desks |->
         IF d = c THEN [cmd EXCEPT !.alone = (Busy = {})]
         ELSE IF d \in Busy THEN [desk[d] EXCEPT !.alone = FALSE] ELSE desk[d]]
    /\ unsure' = IF Busy = {} THEN doubt ELSE {"files", "key"}

Move(c, at) == desk' = [desk EXCEPT ![c].at = at]

-----------------------------------------------------------------------------
(* Takeover.                                                               *)

(* The block under the lock: alias table, then token, then session; the    *)
(* statement that fails ends the command with what was done before.        *)
Prepare(c) ==
    /\ desk[c].at = "rest" /\ Free
    /\ \E k \in DeskKeys, t \in DeskTokens :
         /\ t = token \/ (token = None /\ opens[t] = None)
         /\ aliases' = [aliases EXCEPT ![k] = menu[k]]
         /\ \/ /\ token' = t /\ opens' = [opens EXCEPT ![t] = k]
               /\ Started(c, [AtRest EXCEPT !.op = "takeover", !.at = "snapshot",
                                            !.key = k, !.by = t, !.menu = <<k, menu[k]>>], unsure)
               /\ NoFail
            \/ /\ token' \in {token, t} /\ DeskFails
               /\ unsure' = {"files", "key"}
               /\ UNCHANGED <<opens, desk>>
    /\ UNCHANGED <<files, marked, menu, holder, uses>>

(* The key a refresh makes the menu of: the row of a revoked token is      *)
(* found as well, and names the key it once opened.                        *)
Bound == IF opens[token] # None THEN {opens[token]} ELSE DeskKeys \union {None}
MenuOf(k) == IF k = None THEN None ELSE <<k, menu[k]>>

(* What a refresh rewrites the profile to.                                 *)
Renewal(m) == [AtRest EXCEPT !.op = "takeover", !.at = "snapshot", !.by = token, !.menu = m]
Shows(m) == files.profile # None /\ files.profile = [by |-> token, menu |-> m]

(* api_key_update and the app's start: everything under the lock.  The     *)
(* takeover is one only if cc-use's profile is applied and not current.  A *)
(* statement that fails ends the refresh, or leaves it without the key.    *)
Refresh(c, k, save) ==
    /\ desk[c].at = "rest" /\ Free
    /\ save => menu[k] <= MaxSaves
    /\ menu' = IF save THEN [menu EXCEPT ![k] = @ + 1] ELSE menu
    /\ \/ /\ files.meta.applied # "ours" \/ token = None
          /\ IF save /\ Busy # {} THEN Started(c, AtRest, unsure) ELSE UNCHANGED <<desk, unsure>>
          /\ NoFail /\ UNCHANGED <<aliases, holder>>
       \/ /\ files.meta.applied = "ours" /\ token # None
          /\ \E used \in Bound :
               /\ aliases' = IF used = None THEN aliases ELSE [aliases EXCEPT ![used] = menu'[used]]
               /\ IF Shows(MenuOf(used)') THEN UNCHANGED <<desk, unsure, holder>>
                  ELSE holder' = c /\ Started(c, Renewal(MenuOf(used)'), unsure)
          /\ NoFail
       \/ /\ files.meta.applied = "ours" /\ token # None
          /\ \/ Started(c, AtRest, unsure \union {"key"}) /\ UNCHANGED holder
             \/ ~Shows(None) /\ Started(c, Renewal(None), unsure \union {"key"}) /\ holder' = c
          /\ DeskFails /\ UNCHANGED aliases
    /\ UNCHANGED <<files, token, opens, marked, uses>>

RestoreDesk(c) ==
    /\ desk[c].at = "rest"
    /\ Started(c, [AtRest EXCEPT !.op = "restore", !.at = "snapshot"], unsure)
    /\ UNCHANGED <<files, token, opens, aliases, marked, menu, holder, fails, uses>>

Snapshot(c) ==
    /\ desk[c].at = "snapshot"
    /\ desk' = [desk EXCEPT ![c].at = "normal", ![c].snap = files]
    /\ UNCHANGED <<files, token, opens, aliases, marked, menu, holder, unsure, fails, uses>>

WriteFile(c) ==
    /\ desk[c].at \in Steps
    /\ files' = Written(files, desk[c].at, c)
    /\ Move(c, FollowedBy(desk[c].at))
    /\ UNCHANGED <<token, opens, aliases, marked, menu, holder, unsure, fails, uses>>

(* The step fails before its rename or after it (the 3p file is written    *)
(* twice, the flag it must not carry removed by the second write).  What   *)
(* a takeover did in the database is not undone: the session has the key   *)
(* of the failed switch, the files and the mark have the other.            *)
FileFails(c) ==
    /\ desk[c].at \in Steps /\ DeskFails
    /\ files' \in {files} \union
         (IF desk[c].at = "threep" THEN {Written(files, "threep", c)} ELSE {})
    /\ Move(c, "undo_normal")
    /\ unsure' = IF desk[c].op = "takeover" THEN unsure \union {"key"} ELSE unsure
    /\ UNCHANGED <<token, opens, aliases, marked, menu, holder, uses>>

Undo(c) ==
    \E step \in Steps :
      /\ desk[c].at = UndoStep[step]
      /\ files' = [files EXCEPT ![step] = desk[c].snap[step]]
      /\ IF step = "meta"
         THEN /\ desk' = [desk EXCEPT ![c] = AtRest]
              /\ holder' = IF holder = c THEN None ELSE holder
         ELSE Move(c, UndoStep[FollowedBy(step)]) /\ UNCHANGED holder
      /\ UNCHANGED <<token, opens, aliases, marked, menu, unsure, fails, uses>>

(* The rest is left as it is.                                              *)
UndoFails(c) ==
    /\ \E step \in Steps : desk[c].at = UndoStep[step]
    /\ DeskFails
    /\ desk' = [desk EXCEPT ![c] = AtRest]
    /\ holder' = IF holder = c THEN None ELSE holder
    /\ unsure' = {"files", "key"}
    /\ UNCHANGED <<files, token, opens, aliases, marked, menu, uses>>

(* Revoke, then forget the token; what a failure leaves: opens and token.  *)
(* (Variant: the other order.)                                             *)
Revoked == [t \in DeskTokens |-> IF t = token THEN None ELSE opens[t]]
ForgottenFirst == {<<opens, token>>, <<opens, None>>}
PartlyClosed == {<<opens, token>>, <<Revoked, token>>}

(* (Variant: the lock stays taken.)                                        *)
SettleLocked(c) ==
    /\ desk[c].at = "filed" /\ holder = c
    /\ desk' = [desk EXCEPT ![c] = AtRest]
    /\ UNCHANGED <<files, token, opens, aliases, marked, menu, holder, unsure, fails, uses>>

(* A refresh is over; a takeover and a restore go on.                      *)
Settle(c) ==
    /\ desk[c].at = "filed" /\ holder = c
    /\ holder' = None
    /\ desk' = [desk EXCEPT ![c] = AtRest]
    /\ UNCHANGED <<files, token, opens, aliases, marked, menu, unsure, fails, uses>>

(* The restore's block under the lock.                                     *)
Close(c) ==
    /\ desk[c].op = "restore" /\ desk[c].at = "filed" /\ Free
    /\ \/ opens' = Revoked /\ token' = None /\ Move(c, "mark") /\ NoFail /\ UNCHANGED unsure
       \/ /\ \E left \in PartlyClosed : opens' = left[1] /\ token' = left[2]
          /\ DeskFails /\ unsure' = {"files", "key"}
          /\ desk' = [desk EXCEPT ![c] = AtRest]
    /\ UNCHANGED <<files, aliases, marked, menu, holder, uses>>

(* The page or the tray notes the key; the command that ran alone to here  *)
(* has put everything in order.                                            *)
Mark(c) ==
    /\ Free
    /\ \/ desk[c].op = "takeover" /\ desk[c].at = "filed" /\ desk[c].key # None
       \/ desk[c].op = "restore" /\ desk[c].at = "mark"
    /\ marked' = desk[c].key
    /\ unsure' = IF desk[c].alone THEN {} ELSE unsure
    /\ desk' = [desk EXCEPT ![c] = AtRest]
    /\ UNCHANGED <<files, token, opens, aliases, menu, holder, fails, uses>>

(* The app ends in the midst of everything.                                *)
DeskCrash ==
    /\ DeskFails /\ Busy # {}
    /\ desk' = [c \in Desks |-> AtRest]
    /\ holder' = None /\ unsure' = {"files", "key"}
    /\ UNCHANGED <<files, token, opens, aliases, marked, menu, uses>>

(* The user goes back to a profile of their own in the client.             *)
ApplyOwn ==
    /\ uses < MaxUses /\ uses' = uses + 1
    /\ files.meta.applied = "ours"
    /\ files' = [files EXCEPT !.meta = [applied |-> "own", entries |-> @.entries \union {"own"}]]
    /\ unsure' = IF Busy = {} THEN unsure ELSE {"files", "key"}
    /\ desk' = [c \in Desks |-> [desk[c] EXCEPT !.alone = FALSE]]
    /\ UNCHANGED <<token, opens, aliases, marked, menu, holder, fails>>

DeskNext ==
    \/ \E c \in Desks :
         \/ Prepare(c) \/ RestoreDesk(c) \/ Snapshot(c) \/ WriteFile(c) \/ FileFails(c)
         \/ Undo(c) \/ UndoFails(c) \/ Settle(c) \/ Close(c) \/ Mark(c)
         \/ \E k \in DeskKeys, save \in BOOLEAN : Refresh(c, k, save)
    \/ DeskCrash \/ ApplyOwn

DeskSpec == DeskInit /\ [][DeskNext]_deskVars

-----------------------------------------------------------------------------
(* Properties.                                                             *)

DeskTypeOK ==
    /\ files \in DeskFiles
    /\ token \in DeskTokens \union {None} /\ marked \in DeskKeys \union {None}
    /\ opens \in [DeskTokens -> DeskKeys \union {None}]
    /\ aliases \in [DeskKeys -> Nat] /\ menu \in [DeskKeys -> Nat]
    /\ holder \in Desks \union {None}
    /\ desk \in [Desks -> DeskCommands]
    /\ \A c \in Desks : holder = c => desk[c].op = "takeover"
    /\ unsure \subseteq {"files", "key"} /\ fails \in Nat /\ uses \in Nat

(* A token that opens the gateway for Claude Desktop is the one the        *)
(* setting names, so that a restore can always close it: over overlapping  *)
(* commands, failed statements and crashes.                                *)
OpenIsNamed == \A t \in DeskTokens : opens[t] # None => t = token

(* While cc-use's profile is applied and nothing is under way or was       *)
(* interrupted, the client can work: both modes are 3p and the token of    *)
(* the profile opens a key, whichever step failed and was undone.  Unless  *)
(* that was a switch or a refresh it is the key the tray marks, and        *)
(* profile and alias table are those of its menu, however often saved.     *)
AppliedServes ==
    Busy = {} /\ files.meta.applied = "ours" /\ "files" \notin unsure =>
        /\ files.normal = "3p" /\ files.threep = "3p"
        /\ files.profile # None /\ files.profile.by = token /\ opens[token] # None
        /\ LET k == opens[token] IN
           "key" \notin unsure =>
              marked = k /\ files.profile.menu = <<k, menu[k]>> /\ aliases[k] = menu[k]

(* A restore that runs alone to its end leaves nothing of cc-use behind,   *)
(* whatever state it found, and keeps the user's choice of profile.        *)
RestoreLeavesNothing ==
    [][\A c \in Desks :
         desk[c].at = "mark" /\ desk[c].alone /\ desk'[c].at = "rest" /\ fails' = fails =>
            /\ files.normal = "1p" /\ files.threep = "1p" /\ files.profile = None
            /\ files.meta.applied # "ours" /\ "ours" \notin files.meta.entries
            /\ "own" \in files.meta.entries => files.meta.applied = "own"
            /\ \A t \in DeskTokens : opens[t] = None]_deskVars
=============================================================================
