-------------------------- MODULE Takeover_proofs --------------------------
(***************************************************************************)
(* Proofs about the takeovers of the two desktop clients, for any number   *)
(* of commands, keys and tokens, of edits and of faults.                   *)
(*                                                                         *)
(* CodexTakeover: every variable keeps its type, a token only opens the    *)
(* gateway while the setting names it, and, while no two commands overlap, *)
(* the files are in order: a pointer finds its catalog, a takeover that    *)
(* succeeds serves, a restore gives back the user's file.                  *)
(*                                                                         *)
(* ClaudeDesktop: a token that opens is the one the setting names, also    *)
(* when commands overlap; when they do not, the applied files serve what   *)
(* the database grants and a restore leaves nothing of ours.               *)
(***************************************************************************)
EXTENDS MC_Desktop, TLAPS


----------------------------------------------------------------------------
(* Types *)

LEMMA OwnAreFiles == OwnFiles \subseteq Files /\ Empty \in Files
BY DEF OwnFiles, Files, Empty, Own

LEMMA DocIsFile ==
    ASSUME NEW text \in Files \cup {NoFile, Broken}
    PROVE  Doc(text) \in Files
BY OwnAreFiles DEF Doc

LEMMA RestoredIsFile ==
    ASSUME NEW doc \in Files, NEW snapshot \in Files
    PROVE  Restored(doc, snapshot) \in Files
BY DEF Files, Restored

LEMMA IdleIsState == Idle \in CommandState
BY DEF Idle, CommandState, Places

(* Only the commands, what they returned and the history change when a     *)
(* command moves on.                                                       *)
LEMMA GotoKeepsType ==
    ASSUME TypeOK, NEW c \in Commands, NEW pc \in Places, Goto(c, pc)
    PROVE  cmd' \in [Commands -> CommandState] /\ returned' \in {"none", "ok", "error"}
BY DEF TypeOK, Goto, CommandState

LEMMA FinishKeepsType ==
    ASSUME TypeOK, NEW c \in Commands, NEW result \in {"ok", "error"}, Finish(c, result)
    PROVE  cmd' \in [Commands -> CommandState] /\ returned' \in {"none", "ok", "error"}
BY IdleIsState DEF TypeOK, Finish

LEMMA ReadsKeepsType ==
    ASSUME TypeOK, NEW c \in Commands, NEW pc \in Places, Reads(c, pc), config # Broken
    PROVE  cmd' \in [Commands -> CommandState] /\ returned' \in {"none", "ok", "error"}
<1>1. cmd[c] \in CommandState /\ config \in Files \cup {NoFile}
  BY DEF TypeOK
<1>2. [cmd[c] EXCEPT !.pc = pc, !.text = config, !.calm = TRUE] \in CommandState
  BY <1>1 DEF CommandState
<1> QED
  BY <1>2 DEF TypeOK, Reads

LEMMA StartKeepsType ==
    ASSUME TypeOK, NEW c \in Commands, NEW pc \in Places, NEW k \in Keys \cup {NoKey},
           Start(c, pc, k)
    PROVE  TypeOK'
<1>1. [Idle EXCEPT !.pc = pc, !.key = k] \in CommandState
  BY IdleIsState DEF CommandState, Idle
<1>2. cmd' \in [Commands -> CommandState]
  BY <1>1 DEF TypeOK, Start
<1>3. disturbed' \subseteq {"overlap", "mark"} /\ baseline' \in Files \cup {NoFile}
  BY DEF TypeOK, Start
<1> QED
  BY <1>2, <1>3 DEF TypeOK, Start, fileVars, dbVars

LEMMA FaultKeepsType ==
    ASSUME TypeOK, faults < MaxFaults, faults' = faults + 1
    PROVE  faults' \in 0 .. MaxFaults
BY TakeoverAssumption DEF TypeOK

LEMMA FailsKeepsType ==
    ASSUME TypeOK, NEW c \in Commands, Fails(c), backup' \in Files \cup {NoFile, Broken}
    PROVE  TypeOK'
<1>1. cmd' \in [Commands -> CommandState] /\ returned' \in {"none", "ok", "error"}
  BY FinishKeepsType DEF Fails
<1>2. faults' \in 0 .. MaxFaults
  BY FaultKeepsType DEF Fails
<1>3. dbLock' \in Commands \cup {NoCommand}
  BY DEF TypeOK, Fails
<1> QED
  BY <1>1, <1>2, <1>3 DEF TypeOK, Fails, history

LEMMA UseTokenKeepsType ==
    ASSUME TypeOK, NEW c \in Commands, NEW t \in Tokens, UseToken(c, t),
           faults' \in 0 .. MaxFaults, orphans' \subseteq Tokens
    PROVE  TypeOK'
<1>1. cmd[c] \in CommandState
  BY DEF TypeOK
<1>2. [cmd[c] EXCEPT !.pc = "session", !.token = t] \in CommandState
  BY <1>1 DEF CommandState, Places
<1>3. cmd' \in [Commands -> CommandState]
  BY <1>2 DEF TypeOK, UseToken
<1> QED
  BY <1>3 DEF TypeOK, UseToken, fileVars

LEMMA InitTypeOK == Init => TypeOK
<1> SUFFICES ASSUME Init PROVE TypeOK
  OBVIOUS
<1>1. config \in Files \cup {NoFile, Broken}
  BY OwnAreFiles, FirstFilesAssumption DEF Init
<1>2. cmd \in [Commands -> CommandState]
  BY IdleIsState DEF Init
<1>3. session \in [Tokens -> [open : BOOLEAN, key : Keys] \cup {NoRow}]
  BY DEF Init
<1>4. edits \in 0 .. MaxEdits /\ faults \in 0 .. MaxFaults
  BY TakeoverAssumption DEF Init
<1> QED
  BY <1>1, <1>2, <1>3, <1>4 DEF Init, TypeOK

LEMMA TakeoverKeepsType ==
    ASSUME TypeOK, CommandsCarry, NEW c \in Commands, Takeover(c)
    PROVE  TypeOK'
<1> USE DEF fileVars, dbVars, cmdVars, history, NoFault
<1>0. Places = {"idle", "fetch", "session", "match", "read", "backup", "catalog",
                "write", "open", "rewrite", "clean", "revoke", "forget"}
  BY DEF Places
<1>1. ASSUME NEW k \in Keys, BeginTakeover(c, k) PROVE TypeOK'
  BY <1>0, <1>1, StartKeepsType DEF BeginTakeover
<1>2. CASE CatalogFailed(c)
  BY <1>2, FinishKeepsType DEF CatalogFailed, TypeOK
<1>3. CASE KeepToken(c)
  <2>1. setting \in Tokens /\ faults' \in 0 .. MaxFaults /\ orphans' \subseteq Tokens
    BY <1>3 DEF KeepToken, TypeOK
  <2> QED BY <1>3, <2>1, UseTokenKeepsType DEF KeepToken
<1>4. CASE NewToken(c)
  <2>1. faults' \in 0 .. MaxFaults /\ orphans' \subseteq Tokens
    BY <1>4 DEF NewToken, TypeOK
  <2> QED BY <1>4, <2>1, UseTokenKeepsType DEF NewToken
<1>5. CASE UnreadToken(c)
  <2>1. faults' \in 0 .. MaxFaults
    BY <1>5, FaultKeepsType DEF UnreadToken
  <2>2. orphans' \subseteq Tokens
    BY <1>5 DEF UnreadToken, TypeOK
  <2> QED BY <1>5, <2>1, <2>2, UseTokenKeepsType DEF UnreadToken
<1>6. CASE WriteSession(c)
  <2>1. [open |-> TRUE, key |-> cmd[c].key] \in [open : BOOLEAN, key : Keys]
    BY <1>6 DEF WriteSession, At, CommandsCarry
  <2>2. session' \in [Tokens -> [open : BOOLEAN, key : Keys] \cup {NoRow}]
    BY <1>6, <2>1 DEF WriteSession, TypeOK
  <2>3. cmd' \in [Commands -> CommandState] /\ returned' \in {"none", "ok", "error"}
    BY <1>0, <1>6, GotoKeepsType DEF WriteSession
  <2> QED BY <1>6, <2>2, <2>3 DEF WriteSession, TypeOK
<1>7. CASE Match(c)
  <2>1. cmd' \in [Commands -> CommandState] /\ returned' \in {"none", "ok", "error"}
    BY <1>0, <1>7, FinishKeepsType, GotoKeepsType DEF Match
  <2> QED BY <1>7, <2>1 DEF Match, TypeOK
<1>8. CASE ReadConfig(c)
  <2>1. cmd' \in [Commands -> CommandState] /\ returned' \in {"none", "ok", "error"}
    BY <1>0, <1>8, FinishKeepsType, ReadsKeepsType DEF ReadConfig
  <2> QED BY <1>8, <2>1 DEF ReadConfig, TypeOK
<1>9. CASE Backup(c)
  <2>1. cmd' \in [Commands -> CommandState] /\ returned' \in {"none", "ok", "error"}
    BY <1>0, <1>9, GotoKeepsType DEF Backup
  <2> QED BY <1>9, <2>1 DEF Backup, TypeOK
<1>10. CASE BackupFails(c)
  <2>1. backup' \in Files \cup {NoFile, Broken}
    BY <1>10 DEF BackupFails, TypeOK
  <2> QED BY <1>10, <2>1, FailsKeepsType DEF BackupFails
<1>11. CASE WriteCatalog(c)
  <2>1. cmd' \in [Commands -> CommandState] /\ returned' \in {"none", "ok", "error"}
    BY <1>0, <1>11, GotoKeepsType DEF WriteCatalog
  <2>2. catalogFile' \in Keys \cup {NoKey}
    BY <1>11 DEF WriteCatalog, TypeOK, CommandState
  <2> QED BY <1>11, <2>1, <2>2 DEF WriteCatalog, TypeOK
<1>12. CASE WriteConfig(c)
  <2>1. cmd[c].key \in Keys /\ cmd[c].token \in Tokens
    BY <1>12 DEF WriteConfig, At, CommandsCarry
  <2>2. config' \in Files
    BY <1>12, <2>1 DEF WriteConfig, TakenOverBy, Files
  <2>3. cmd[c].text \in Files \cup {NoFile}
    BY DEF TypeOK, CommandState
  <2>4. baseline' \in Files \cup {NoFile}
    BY <1>12, <2>3 DEF WriteConfig, TypeOK
  <2>5. cmd' \in [Commands -> CommandState] /\ returned' \in {"none", "ok", "error"}
    BY <1>12, FinishKeepsType DEF WriteConfig
  <2> QED BY <1>12, <2>2, <2>4, <2>5 DEF WriteConfig, TypeOK
<1>13. CASE TakeoverFails(c)
  BY <1>13, FailsKeepsType DEF TakeoverFails, FailsCleanly, TypeOK
<1> QED
  BY <1>1, <1>2, <1>3, <1>4, <1>5, <1>6, <1>7, <1>8, <1>9, <1>10, <1>11, <1>12, <1>13
     DEF Takeover

LEMMA RestoreKeepsType ==
    ASSUME TypeOK, CommandsCarry, NEW c \in Commands, Restore(c)
    PROVE  TypeOK'
<1> USE DEF fileVars, dbVars, cmdVars, history, NoFault
<1>0. Places = {"idle", "fetch", "session", "match", "read", "backup", "catalog",
                "write", "open", "rewrite", "clean", "revoke", "forget"}
  BY DEF Places
<1>1. CASE BeginRestore(c)
  BY <1>0, <1>1, StartKeepsType DEF BeginRestore
<1>2. CASE OpenConfig(c)
  <2>1. cmd' \in [Commands -> CommandState] /\ returned' \in {"none", "ok", "error"}
    BY <1>0, <1>2, FinishKeepsType, GotoKeepsType, ReadsKeepsType DEF OpenConfig
  <2> QED BY <1>2, <2>1 DEF OpenConfig, TypeOK
<1>3. CASE Rewrite(c)
  <2>1. config' \in Files
    <3>1. cmd[c].text \in Files
      BY <1>3 DEF Rewrite, At, CommandsCarry
    <3> QED BY <1>3, <3>1, DocIsFile, RestoredIsFile DEF Rewrite, TypeOK
  <2>2. [Idle EXCEPT !.pc = "clean"] \in CommandState
    BY <1>0, IdleIsState DEF CommandState
  <2> QED BY <1>3, <2>1, <2>2 DEF Rewrite, TypeOK
<1>4. CASE Clean(c)
  <2>1. cmd' \in [Commands -> CommandState] /\ returned' \in {"none", "ok", "error"}
    BY <1>0, <1>4, GotoKeepsType DEF Clean
  <2> QED BY <1>4, <2>1 DEF Clean, TypeOK
<1>5. CASE CleanFails(c)
  <2>1. cmd' \in [Commands -> CommandState] /\ returned' \in {"none", "ok", "error"}
    BY <1>0, <1>5, GotoKeepsType DEF CleanFails
  <2>2. faults' \in 0 .. MaxFaults
    BY <1>5, FaultKeepsType DEF CleanFails
  <2> QED BY <1>5, <2>1, <2>2 DEF CleanFails, TypeOK
<1>6. CASE Revoke(c)
  <2>1. cmd' \in [Commands -> CommandState] /\ returned' \in {"none", "ok", "error"}
    BY <1>0, <1>6, GotoKeepsType DEF Revoke
  <2>2. session' \in [Tokens -> [open : BOOLEAN, key : Keys] \cup {NoRow}]
    <3>1. ASSUME NEW t \in Tokens
          PROVE  [open |-> session[t].open /\ t # setting, key |-> session[t].key]
                    \in [open : BOOLEAN, key : Keys] \cup {NoRow}
      <4>1. CASE session[t] = NoRow
        <5>1. session[t].open = FALSE /\ session[t].key = NoKey
          BY <4>1 DEF NoRow
        <5> QED BY <5>1 DEF NoRow
      <4>2. CASE session[t] \in [open : BOOLEAN, key : Keys]
        BY <4>2
      <4> QED BY <4>1, <4>2 DEF TypeOK
    <3> QED BY <1>6, <3>1 DEF Revoke, TypeOK
  <2> QED BY <1>6, <2>1, <2>2 DEF Revoke, TypeOK
<1>7. CASE Forget(c)
  <2>1. cmd' \in [Commands -> CommandState] /\ returned' \in {"none", "ok", "error"}
    BY <1>7, FinishKeepsType DEF Forget
  <2> QED BY <1>7, <2>1 DEF Forget, TypeOK
<1>8. CASE RestoreFails(c)
  BY <1>8, FailsKeepsType DEF RestoreFails, FailsCleanly, TypeOK
<1> QED
  BY <1>1, <1>2, <1>3, <1>4, <1>5, <1>6, <1>7, <1>8 DEF Restore

LEMMA EnvironmentKeepsType ==
    ASSUME TypeOK, Environment
    PROVE  TypeOK'
<1> USE DEF fileVars, dbVars, cmdVars, history
<1>1. CASE Crash
  <2>1. faults' \in 0 .. MaxFaults
    BY <1>1, FaultKeepsType DEF Crash
  <2> QED BY <1>1, <2>1, IdleIsState DEF Crash, TypeOK
<1>2. ASSUME Edits
      PROVE  /\ edits' \in 0 .. MaxEdits
             /\ cmd' \in [Commands -> CommandState]
  <2>1. edits' \in 0 .. MaxEdits
    BY <1>2, TakeoverAssumption DEF Edits, TypeOK
  <2>2. ASSUME NEW c \in Commands
        PROVE  [cmd[c] EXCEPT !.calm = ~HoldsText(c)] \in CommandState
    <3>1. cmd[c] \in CommandState /\ HoldsText(c) \in BOOLEAN
      BY DEF TypeOK, HoldsText
    <3> QED BY <3>1 DEF CommandState
  <2> QED BY <1>2, <2>1, <2>2 DEF Edits
<1>3. Own \subseteq Own \cup Keys /\ Doc(config) \in Files
  BY DocIsFile DEF TypeOK
<1>4. CASE EditField
  <2>1. config' \in Files
    BY <1>3, <1>4 DEF EditField, Files
  <2> QED BY <1>2, <1>4, <2>1 DEF EditField, Edits, TypeOK
<1>5. CASE EditMark
  <2>1. config' \in Files
    BY <1>3, <1>5 DEF EditMark, Files
  <2>2. disturbed' \subseteq {"overlap", "mark"}
    BY <1>5 DEF EditMark, TypeOK
  <2> QED BY <1>2, <1>5, <2>1, <2>2 DEF EditMark, Edits, TypeOK
<1>6. CASE ReplaceFile
  BY <1>2, <1>6 DEF ReplaceFile, Edits, TypeOK
<1> QED
  BY <1>1, <1>4, <1>5, <1>6 DEF Environment

----------------------------------------------------------------------------
(* The inductive invariant *)

(* Where a command stands after its step, and that no other one moved.     *)
OthersStay(c) == \A d \in Commands : d # c => cmd'[d] = cmd[d]

LEMMA GotoMoves ==
    ASSUME TypeOK, NEW c \in Commands, NEW pc \in Places, Goto(c, pc)
    PROVE  /\ cmd'[c] = [cmd[c] EXCEPT !.pc = pc]
           /\ cmd'[c].pc = pc
           /\ cmd'[c].key = cmd[c].key /\ cmd'[c].token = cmd[c].token
           /\ OthersStay(c)
BY DEF TypeOK, Goto, CommandState, OthersStay

LEMMA FinishMoves ==
    ASSUME TypeOK, NEW c \in Commands, NEW result, Finish(c, result)
    PROVE  cmd'[c] = Idle /\ OthersStay(c)
BY DEF TypeOK, Finish, OthersStay

LEMMA ReadsMoves ==
    ASSUME TypeOK, NEW c \in Commands, NEW pc \in Places, Reads(c, pc)
    PROVE  /\ cmd'[c].pc = pc /\ cmd'[c].text = config
           /\ cmd'[c].key = cmd[c].key /\ cmd'[c].token = cmd[c].token
           /\ OthersStay(c)
<1>1. cmd[c] \in CommandState /\ cmd'[c] = [cmd[c] EXCEPT !.pc = pc, !.text = config, !.calm = TRUE]
  BY DEF TypeOK, Reads
<1> QED
  BY <1>1 DEF TypeOK, Reads, CommandState, OthersStay

(* A command that moves on without touching the database keeps the other   *)
(* parts of the invariant if it knows what its next place needs.           *)
LEMMA Unlocked ==
    ASSUME CommandsCarry, LockedSections, CurrentTokenOnly,
           NEW c \in Commands, OthersStay(c),
           cmd[c].pc \notin {"session", "forget"},
           cmd'[c].pc \notin {"session", "forget"},
           cmd'[c].pc \in {"fetch", "match", "read", "backup", "catalog", "write"}
              => cmd'[c].key \in Keys,
           cmd'[c].pc \in {"match", "read", "backup", "catalog", "write"}
              => cmd'[c].token \in Tokens,
           cmd'[c].pc = "rewrite" => cmd'[c].text \in Files,
           UNCHANGED <<dbVars, orphans>>
    PROVE  CommandsCarry' /\ LockedSections' /\ CurrentTokenOnly'
<1>2. CommandsCarry'
  BY DEF CommandsCarry, OthersStay
<1>3. LockedSections'
  BY DEF LockedSections, dbVars, OthersStay
<1>4. CurrentTokenOnly'
  BY DEF CurrentTokenOnly, dbVars
<1> QED
  BY <1>2, <1>3, <1>4

(* A command that ends lets go of the lock it may hold.                    *)
LEMMA Ended ==
    ASSUME TypeOK, CommandsCarry, LockedSections, CurrentTokenOnly,
           NEW c \in Commands, OthersStay(c), cmd'[c] = Idle,
           dbLock' = IF dbLock = c THEN NoCommand ELSE dbLock,
           UNCHANGED <<setting, session, orphans>>
    PROVE  CommandsCarry' /\ LockedSections' /\ CurrentTokenOnly'
<1>2. CommandsCarry'
  BY DEF CommandsCarry, Idle, OthersStay
<1>3. LockedSections'
  BY TakeoverAssumption DEF LockedSections, Idle, OthersStay
<1>4. CurrentTokenOnly'
  BY DEF CurrentTokenOnly
<1> QED
  BY <1>2, <1>3, <1>4

(* Taking the lock for the session of a takeover.                          *)
LEMMA TokenInUse ==
    ASSUME TypeOK, CommandsCarry, LockedSections, NEW c \in Commands, NEW t \in Tokens,
           UseToken(c, t)
    PROVE  CommandsCarry' /\ LockedSections'
<1>1. /\ cmd'[c].pc = "session" /\ cmd'[c].token = t
      /\ cmd'[c].key = cmd[c].key
      /\ \A d \in Commands : d # c => cmd'[d] = cmd[d]
  BY DEF TypeOK, UseToken, CommandState
<1>2. CommandsCarry'
  BY <1>1 DEF CommandsCarry, UseToken, At
<1>3. \A d \in Commands : cmd[d].pc \notin {"session", "forget"}
  BY TakeoverAssumption DEF LockedSections, UseToken
<1>4. LockedSections'
  BY <1>1, <1>3 DEF LockedSections, UseToken
<1> QED
  BY <1>2, <1>4

LEMMA TakeoverKeepsInv ==
    ASSUME CodexInv, NEW c \in Commands, Takeover(c)
    PROVE  CodexInv'
<1> USE DEF fileVars, dbVars, history
<1>0. TypeOK /\ CommandsCarry /\ LockedSections /\ CurrentTokenOnly /\ TypeOK'
  BY TakeoverKeepsType DEF CodexInv
<1> SUFFICES CommandsCarry' /\ LockedSections' /\ CurrentTokenOnly'
  BY <1>0 DEF CodexInv
<1>1. ASSUME NEW k \in Keys, BeginTakeover(c, k)
      PROVE  CommandsCarry' /\ LockedSections' /\ CurrentTokenOnly'
  <2>1. cmd'[c] = [Idle EXCEPT !.pc = "fetch", !.key = k] /\ OthersStay(c)
    BY <1>0, <1>1 DEF BeginTakeover, Start, OthersStay, TypeOK
  <2>2. cmd'[c].pc = "fetch" /\ cmd'[c].key = k
    BY <2>1 DEF Idle
  <2> QED BY <1>0, <1>1, <2>1, <2>2, Unlocked DEF BeginTakeover, Start, At
<1>2. CASE CatalogFailed(c)
  <2>1. cmd'[c] = Idle /\ OthersStay(c)
    BY <1>0, <1>2, FinishMoves DEF CatalogFailed
  <2> QED BY <1>0, <1>2, <2>1, Unlocked DEF CatalogFailed, At, Idle
<1>3. CASE KeepToken(c)
  <2>1. setting \in Tokens
    BY <1>0, <1>3 DEF KeepToken, TypeOK
  <2>2. CommandsCarry' /\ LockedSections'
    BY <1>0, <1>3, <2>1, TokenInUse DEF KeepToken
  <2>3. CurrentTokenOnly'
    BY <1>0, <1>3 DEF KeepToken, UseToken, CurrentTokenOnly
  <2> QED BY <2>2, <2>3
<1>4. CASE NewToken(c)
  <2>1. CommandsCarry' /\ LockedSections'
    BY <1>0, <1>4, TokenInUse DEF NewToken
  <2>2. CurrentTokenOnly'
    BY <1>0, <1>4, TakeoverAssumption DEF NewToken, UseToken, CurrentTokenOnly
  <2> QED BY <2>1, <2>2
<1>5. CASE UnreadToken(c)
  <2>1. CommandsCarry' /\ LockedSections'
    BY <1>0, <1>5, TokenInUse DEF UnreadToken
  <2>2. CurrentTokenOnly'
    BY <1>0, <1>5 DEF UnreadToken, UseToken, CurrentTokenOnly
  <2> QED BY <2>1, <2>2
<1>6. CASE WriteSession(c)
  <2>1. /\ cmd'[c].pc = "match" /\ cmd'[c].token = cmd[c].token /\ cmd'[c].key = cmd[c].key
        /\ \A d \in Commands : d # c => cmd'[d] = cmd[d]
    BY <1>0, <1>6 DEF WriteSession, Goto, TypeOK, CommandState
  <2>2. CommandsCarry'
    BY <1>0, <1>6, <2>1 DEF CommandsCarry, WriteSession, At
  <2>3. dbLock = c /\ cmd[c].token = setting
    BY <1>0, <1>6 DEF LockedSections, WriteSession, At
  <2>4. \A d \in Commands : d # c => cmd[d].pc \notin {"session", "forget"}
    BY <1>0, <2>3 DEF LockedSections
  <2>5. LockedSections'
    BY <1>6, <2>1, <2>4, TakeoverAssumption DEF LockedSections, WriteSession
  <2>6. CurrentTokenOnly'
    BY <1>0, <1>6, <2>3 DEF CurrentTokenOnly, WriteSession, TypeOK
  <2> QED BY <2>2, <2>5, <2>6
<1>7. CASE Match(c)
  <2>1. \/ cmd'[c] = Idle
        \/ cmd'[c].pc = "read" /\ cmd'[c].key = cmd[c].key /\ cmd'[c].token = cmd[c].token
    BY <1>0, <1>7, FinishMoves, GotoMoves DEF Match, Places
  <2>2. OthersStay(c) /\ cmd[c].key \in Keys /\ cmd[c].token \in Tokens
    BY <1>0, <1>7, FinishMoves, GotoMoves DEF Match, Places, At, CommandsCarry
  <2> QED BY <1>0, <1>7, <2>1, <2>2, Unlocked DEF Match, At, Idle
<1>8. CASE ReadConfig(c)
  <2>1. \/ cmd'[c] = Idle
        \/ /\ cmd'[c].pc \in {"backup", "catalog"}
           /\ cmd'[c].key = cmd[c].key /\ cmd'[c].token = cmd[c].token
    BY <1>0, <1>8, FinishMoves, ReadsMoves DEF ReadConfig, Places
  <2>2. OthersStay(c) /\ cmd[c].key \in Keys /\ cmd[c].token \in Tokens
    BY <1>0, <1>8, FinishMoves, ReadsMoves DEF ReadConfig, Places, At, CommandsCarry
  <2> QED BY <1>0, <1>8, <2>1, <2>2, Unlocked DEF ReadConfig, At, Idle
<1>9. CASE Backup(c)
  <2>1. cmd'[c].pc = "catalog" /\ cmd'[c].key \in Keys /\ cmd'[c].token \in Tokens /\ OthersStay(c)
    BY <1>0, <1>9, GotoMoves DEF Backup, Places, At, CommandsCarry
  <2> QED BY <1>0, <1>9, <2>1, Unlocked DEF Backup, At
<1>10. CASE BackupFails(c)
  <2>1. cmd'[c] = Idle /\ OthersStay(c)
    BY <1>0, <1>10, FinishMoves DEF BackupFails, Fails
  <2> QED BY <1>0, <1>10, <2>1, Ended DEF BackupFails, Fails
<1>11. CASE WriteCatalog(c)
  <2>1. cmd'[c].pc = "write" /\ cmd'[c].key \in Keys /\ cmd'[c].token \in Tokens /\ OthersStay(c)
    BY <1>0, <1>11, GotoMoves DEF WriteCatalog, Places, At, CommandsCarry
  <2> QED BY <1>0, <1>11, <2>1, Unlocked DEF WriteCatalog, At
<1>12. CASE WriteConfig(c)
  <2>1. cmd'[c] = Idle /\ OthersStay(c)
    BY <1>0, <1>12, FinishMoves DEF WriteConfig
  <2> QED BY <1>0, <1>12, <2>1, Unlocked DEF WriteConfig, At, Idle
<1>13. CASE TakeoverFails(c)
  <2>1. cmd'[c] = Idle /\ OthersStay(c)
    BY <1>0, <1>13, FinishMoves DEF TakeoverFails, FailsCleanly, Fails
  <2> QED BY <1>0, <1>13, <2>1, Ended DEF TakeoverFails, FailsCleanly, Fails
<1> QED
  BY <1>0, <1>1, <1>2, <1>3, <1>4, <1>5, <1>6, <1>7, <1>8, <1>9, <1>10, <1>11, <1>12, <1>13
     DEF Takeover

LEMMA RestoreKeepsInv ==
    ASSUME CodexInv, NEW c \in Commands, Restore(c)
    PROVE  CodexInv'
<1> USE DEF fileVars, dbVars, history
<1>0. TypeOK /\ CommandsCarry /\ LockedSections /\ CurrentTokenOnly /\ TypeOK'
  BY RestoreKeepsType DEF CodexInv
<1> SUFFICES CommandsCarry' /\ LockedSections' /\ CurrentTokenOnly'
  BY <1>0 DEF CodexInv
<1>1. CASE BeginRestore(c)
  <2>1. cmd'[c] = [Idle EXCEPT !.pc = "open", !.key = NoKey] /\ OthersStay(c)
    BY <1>0, <1>1 DEF BeginRestore, Start, OthersStay, TypeOK
  <2>2. cmd'[c].pc = "open"
    BY <2>1 DEF Idle
  <2> QED BY <1>0, <1>1, <2>1, <2>2, Unlocked DEF BeginRestore, Start, At
<1>2. CASE OpenConfig(c)
  <2>1. \/ cmd'[c] = Idle
        \/ cmd'[c].pc = "clean"
        \/ cmd'[c].pc = "rewrite" /\ cmd'[c].text \in Files
    <3>1. CASE config = Broken
      BY <1>0, <1>2, <3>1, FinishMoves DEF OpenConfig
    <3>2. CASE config # Broken /\ Goto(c, "clean")
      BY <1>0, <3>2, GotoMoves DEF Places
    <3>3. CASE config \notin {NoFile, Broken} /\ Reads(c, "rewrite")
      <4>1. config \in Files
        BY <1>0, <3>3 DEF TypeOK
      <4> QED BY <1>0, <3>3, <4>1, ReadsMoves DEF Places
    <3> QED BY <1>2, <3>1, <3>2, <3>3 DEF OpenConfig
  <2>2. OthersStay(c)
    BY <1>0, <1>2, FinishMoves, GotoMoves, ReadsMoves DEF OpenConfig, Places
  <2> QED BY <1>0, <1>2, <2>1, <2>2, Unlocked DEF OpenConfig, At, Idle
<1>3. CASE Rewrite(c)
  <2>1. cmd'[c] = [Idle EXCEPT !.pc = "clean"] /\ OthersStay(c)
    BY <1>0, <1>3 DEF Rewrite, OthersStay, TypeOK
  <2>2. cmd'[c].pc = "clean"
    BY <2>1 DEF Idle
  <2> QED BY <1>0, <1>3, <2>1, <2>2, Unlocked DEF Rewrite, At
<1>4. CASE Clean(c)
  <2>1. cmd'[c].pc = "revoke" /\ OthersStay(c)
    BY <1>0, <1>4, GotoMoves DEF Clean, Places
  <2> QED BY <1>0, <1>4, <2>1, Unlocked DEF Clean, At
<1>5. CASE CleanFails(c)
  <2>1. cmd'[c].pc = "revoke" /\ OthersStay(c)
    BY <1>0, <1>5, GotoMoves DEF CleanFails, Places
  <2> QED BY <1>0, <1>5, <2>1, Unlocked DEF CleanFails, At
<1>6. CASE Revoke(c)
  <2>1. cmd'[c].pc = "forget" /\ OthersStay(c)
    BY <1>0, <1>6, GotoMoves DEF Revoke, Places
  <2>2. CommandsCarry'
    BY <1>0, <2>1 DEF CommandsCarry, OthersStay
  <2>3. \A d \in Commands : cmd[d].pc \notin {"session", "forget"}
    BY <1>0, <1>6, TakeoverAssumption DEF LockedSections, Revoke
  <2>4. \A t \in Tokens :
           /\ session'[t].open => session[t].open
           /\ t = setting => ~session'[t].open
    BY <1>6 DEF Revoke
  <2>5. LockedSections'
    BY <1>6, <2>1, <2>3, <2>4 DEF LockedSections, Revoke, OthersStay
  <2>6. CurrentTokenOnly'
    BY <1>0, <1>6, <2>4 DEF CurrentTokenOnly, Revoke
  <2> QED BY <2>2, <2>5, <2>6
<1>7. CASE Forget(c)
  <2>1. cmd'[c] = Idle /\ OthersStay(c)
    BY <1>0, <1>7, FinishMoves DEF Forget
  <2>2. CommandsCarry'
    BY <1>0, <2>1 DEF CommandsCarry, OthersStay, Idle
  <2>3. dbLock = c /\ (setting \in Tokens => ~session[setting].open)
    BY <1>0, <1>7 DEF Forget, At, LockedSections
  <2>4. \A d \in Commands : d # c => cmd[d].pc \notin {"session", "forget"}
    BY <1>0, <2>3 DEF LockedSections
  <2>5. LockedSections'
    BY <1>7, <2>1, <2>4, TakeoverAssumption DEF LockedSections, Forget, OthersStay, Idle
  <2>6. CurrentTokenOnly'
    BY <1>0, <1>7, <2>3 DEF CurrentTokenOnly, Forget
  <2> QED BY <2>2, <2>5, <2>6
<1>8. CASE RestoreFails(c)
  <2>1. cmd'[c] = Idle /\ OthersStay(c)
    BY <1>0, <1>8, FinishMoves DEF RestoreFails, FailsCleanly, Fails
  <2> QED BY <1>0, <1>8, <2>1, Ended DEF RestoreFails, FailsCleanly, Fails
<1> QED
  BY <1>1, <1>2, <1>3, <1>4, <1>5, <1>6, <1>7, <1>8 DEF Restore

LEMMA EnvironmentKeepsInv ==
    ASSUME CodexInv, Environment
    PROVE  CodexInv'
<1> USE DEF fileVars, dbVars, history
<1>0. TypeOK /\ CommandsCarry /\ LockedSections /\ CurrentTokenOnly /\ TypeOK'
  BY EnvironmentKeepsType DEF CodexInv
<1> SUFFICES CommandsCarry' /\ LockedSections' /\ CurrentTokenOnly'
  BY <1>0 DEF CodexInv
<1>1. CASE Crash
  <2>1. \A c \in Commands : cmd'[c] = Idle
    BY <1>1 DEF Crash
  <2>2. CommandsCarry'
    BY <2>1 DEF CommandsCarry, Idle
  <2>3. LockedSections'
    BY <1>1, <2>1, TakeoverAssumption DEF LockedSections, Crash, Idle
  <2>4. CurrentTokenOnly'
    BY <1>0, <1>1 DEF CurrentTokenOnly, Crash
  <2> QED BY <2>2, <2>3, <2>4
<1>2. ASSUME Edits PROVE CommandsCarry' /\ LockedSections' /\ CurrentTokenOnly'
  <2>1. ASSUME NEW c \in Commands
        PROVE  /\ cmd'[c].pc = cmd[c].pc /\ cmd'[c].key = cmd[c].key
               /\ cmd'[c].token = cmd[c].token /\ cmd'[c].text = cmd[c].text
    <3>1. cmd[c] \in CommandState /\ cmd'[c] = [cmd[c] EXCEPT !.calm = ~HoldsText(c)]
      BY <1>0, <1>2 DEF Edits, TypeOK
    <3> QED BY <3>1 DEF CommandState
  <2>2. CommandsCarry'
    BY <1>0, <2>1 DEF CommandsCarry
  <2>3. LockedSections'
    BY <1>0, <1>2, <2>1 DEF LockedSections, Edits
  <2>4. CurrentTokenOnly'
    BY <1>0, <1>2 DEF CurrentTokenOnly, Edits
  <2> QED BY <2>2, <2>3, <2>4
<1> QED
  BY <1>1, <1>2 DEF Environment, EditField, EditMark, ReplaceFile

(* CodexInv is an inductive invariant of the takeover.                     *)
THEOREM CodexInductive == Spec => []CodexInv
<1>1. Init => CodexInv
  <2> SUFFICES ASSUME Init PROVE CodexInv
    OBVIOUS
  <2>1. TypeOK
    BY InitTypeOK
  <2>2. CommandsCarry /\ LockedSections
    BY TakeoverAssumption DEF Init, Idle, CommandsCarry, LockedSections
  <2>3. CurrentTokenOnly
    BY DEF Init, NoRow, CurrentTokenOnly
  <2> QED BY <2>1, <2>2, <2>3 DEF CodexInv
<1>2. CodexInv /\ [Next]_vars => CodexInv'
  <2> SUFFICES ASSUME CodexInv, [Next]_vars PROVE CodexInv'
    OBVIOUS
  <2>1. ASSUME NEW c \in Commands, Takeover(c) PROVE CodexInv'
    BY <2>1, TakeoverKeepsInv
  <2>2. ASSUME NEW c \in Commands, Restore(c) PROVE CodexInv'
    BY <2>2, RestoreKeepsInv
  <2>3. CASE Environment
    BY <2>3, EnvironmentKeepsInv
  <2>4. CASE UNCHANGED vars
    BY <2>4 DEF vars, fileVars, dbVars, cmdVars, history, CodexInv, TypeOK,
                CommandsCarry, LockedSections, CurrentTokenOnly
  <2> QED BY <2>1, <2>2, <2>3, <2>4 DEF Next
<1> QED
  BY <1>1, <1>2, PTL DEF Spec

(* Every variable of the takeover keeps its type.                          *)
THEOREM CodexTypeCorrect == Spec => []TypeOK
BY CodexInductive, PTL DEF CodexInv

(* A desktop token opens the gateway only while the setting names it,      *)
(* whatever fails, dies or overlaps.                                       *)
THEOREM OnlyTheCurrentTokenOpens == Spec => []CurrentTokenOnly
BY CodexInductive, PTL DEF CodexInv

(* A restore that reports success has closed the gateway for the desktop.  *)
THEOREM RestoreCloses ==
    Spec => [][\A c \in Commands : Forget(c) =>
                  \A t \in Tokens : session'[t].open => t \in orphans']_vars
<1>1. CodexInv /\ CodexInv' /\ [Next]_vars =>
        [\A c \in Commands : Forget(c) =>
            \A t \in Tokens : session'[t].open => t \in orphans']_vars
  <2> SUFFICES ASSUME CodexInv', NEW c \in Commands, Forget(c), NEW t \in Tokens,
                      session'[t].open
               PROVE  t \in orphans'
    OBVIOUS
  <2> QED BY TakeoverAssumption DEF CodexInv, CurrentTokenOnly, Forget
<1> QED
  BY <1>1, CodexInductive, PTL DEF Spec
----------------------------------------------------------------------------
(* The files, while no two commands overlap and the user leaves the mark   *)
(* of a takeover alone                                                     *)

(* While no two commands overlap, at most one of them is anywhere.         *)
OneAtATime ==
    "overlap" \notin disturbed =>
        \A c, d \in Commands : cmd[c].pc # "idle" /\ cmd[d].pc # "idle" => c = d

(* A file is the user's own, or carries both marks of a takeover.          *)
Whole(text) ==
    \/ Doc(text) \in OwnFiles
    \/ Doc(text).mark = Ours /\ Doc(text).token # NoToken

(* What a restore of this file would need is in the backup.                *)
BackedUp(text) == Doc(text).mark = Ours /\ baseline # NoFile => baseline = backup

FilesInOrder ==
    /\ Whole(config)
    /\ backup \in OwnFiles \cup {NoFile, Broken}
    /\ Doc(config).catalog = Ours => catalogFile # NoKey
    /\ BackedUp(config)

(* What a command relies on where it stands.                               *)
ReliesOn(c) ==
    /\ cmd[c].pc \in {"match", "read", "backup", "catalog", "write"} =>
          /\ cmd[c].token = setting
          /\ session[setting] = [open |-> TRUE, key |-> cmd[c].key]
    /\ HoldsText(c) =>
          /\ Whole(cmd[c].text)
          /\ BackedUp(cmd[c].text)
          /\ cmd[c].calm => cmd[c].text = config
    /\ cmd[c].pc = "backup" => Doc(config) \in OwnFiles /\ Doc(cmd[c].text) \in OwnFiles
    /\ cmd[c].pc \in {"catalog", "write"} /\ cmd[c].calm
       /\ cmd[c].text # NoFile /\ Doc(cmd[c].text) \in OwnFiles => backup = cmd[c].text
    /\ cmd[c].pc = "write" => catalogFile = cmd[c].key
    /\ cmd[c].pc \in {"clean", "revoke", "forget"} => Doc(config).catalog # Ours

Undisturbed ==
    /\ OneAtATime
    /\ disturbed = {} => FilesInOrder /\ \A c \in Commands : ReliesOn(c)

(* Facts about the fields of files *)

LEMMA OwnFields ==
    ASSUME NEW text \in OwnFiles
    PROVE  /\ text \in Files /\ text.mark # Ours /\ text.catalog # Ours
           /\ text.token = NoToken /\ text.mark \in Own /\ text.model \in Own
           /\ text.catalog \in Own
BY TakeoverAssumption DEF OwnFiles, Files, Own

LEMMA DocOfFile ==
    ASSUME NEW text \in Files
    PROVE  Doc(text) = text /\ text # NoFile /\ text # Broken
BY FilesAssumption DEF Doc

LEMMA EmptyIsOwn ==
    /\ Empty \in OwnFiles /\ Doc(NoFile) = Empty /\ Doc(Broken) = Empty
BY DEF Empty, OwnFiles, Own, Doc

(* An own file is what is not taken over.                                  *)
LEMMA WholeCases ==
    ASSUME NEW text, Whole(text)
    PROVE  IsTakenOver(text) \/ Doc(text) \in OwnFiles
BY DEF Whole, IsTakenOver

LEMMA OwnIsNotTakenOver ==
    ASSUME NEW text, Doc(text) \in OwnFiles
    PROVE  ~IsTakenOver(text) /\ Doc(text).mark # Ours /\ Doc(text).catalog # Ours
           /\ Whole(text)
BY OwnFields DEF IsTakenOver, Whole

LEMMA TakenOverFields ==
    ASSUME NEW k \in Keys, NEW t \in Tokens
    PROVE  /\ TakenOverBy(k, t) \in Files
           /\ Doc(TakenOverBy(k, t)) = TakenOverBy(k, t)
           /\ TakenOverBy(k, t).mark = Ours /\ TakenOverBy(k, t).token = t
           /\ TakenOverBy(k, t).catalog = Ours /\ TakenOverBy(k, t).model = k
           /\ Whole(TakenOverBy(k, t))
<1>1. TakenOverBy(k, t) \in Files
  BY DEF TakenOverBy, Files
<1>2. Doc(TakenOverBy(k, t)) = TakenOverBy(k, t)
  BY <1>1, DocOfFile
<1>3. t # NoToken
  BY TakeoverAssumption
<1> QED
  BY <1>1, <1>2, <1>3 DEF TakenOverBy, Whole

(* A restore leaves nothing of ours in a file if the backup has nothing.   *)
LEMMA RestoredIsOwn ==
    ASSUME NEW text \in Files, Whole(text), NEW snapshot \in OwnFiles
    PROVE  Restored(text, snapshot) \in OwnFiles
<1>1. Doc(text) = text
  BY DocOfFile
<1>2. /\ snapshot.mark \in Own /\ snapshot.model \in Own /\ snapshot.catalog \in Own
  BY OwnFields
<1>3. CASE text \in OwnFiles
  BY <1>2, <1>3, OwnFields DEF Restored, OwnFiles
<1>4. CASE text.mark = Ours
  <2>1. text.catalog \in Own \cup {Ours}
    BY DEF Files
  <2> QED BY <1>2, <1>4, <2>1 DEF Restored, OwnFiles
<1> QED
  BY <1>1, <1>3, <1>4 DEF Whole

(* What an editor may do to a file keeps it whole, brings in none of our   *)
(* marks, and leaves an own file an own file.                              *)
LEMMA EditedField ==
    ASSUME NEW text \in Files, Whole(text), NEW v \in Own, NEW new,
           new = [text EXCEPT !.model = v] \/ new = [text EXCEPT !.catalog = v]
    PROVE  /\ new \in Files /\ Whole(new)
           /\ new.mark = text.mark
           /\ new.catalog = Ours => text.catalog = Ours
           /\ text \in OwnFiles => new \in OwnFiles
<1>0. v # Ours /\ v \in Own \cup Keys
  BY TakeoverAssumption DEF Own
<1>1. new \in Files /\ new.mark = text.mark /\ new.token = text.token
      /\ (new.catalog = Ours => text.catalog = Ours)
  BY <1>0 DEF Files
<1>2. text \in OwnFiles => new \in OwnFiles
  BY DEF OwnFiles
<1>3. Doc(text) = text /\ Doc(new) = new
  BY <1>1, DocOfFile
<1> QED
  BY <1>1, <1>2, <1>3 DEF Whole

LEMMA EditedMark ==
    ASSUME NEW text \in OwnFiles, NEW v \in Own
    PROVE  [text EXCEPT !.mark = v] \in OwnFiles
BY DEF OwnFiles

(* What each step of a takeover and of a restore keeps *)

LEMMA FilesStay ==
    ASSUME FilesInOrder, UNCHANGED fileVars, UNCHANGED baseline
    PROVE  FilesInOrder'
BY DEF FilesInOrder, fileVars, BackedUp

LEMMA IdleRelies ==
    ASSUME NEW c \in Commands, cmd'[c].pc = "idle"
    PROVE  ReliesOn(c)'
BY DEF ReliesOn, HoldsText

LEMMA WriteSessionInOrder ==
    ASSUME TypeOK, CommandsCarry, LockedSections, NEW c \in Commands, FilesInOrder,
           WriteSession(c)
    PROVE  FilesInOrder' /\ ReliesOn(c)'
<1>1. cmd'[c].pc = "match" /\ cmd'[c].token = cmd[c].token /\ cmd'[c].key = cmd[c].key
  BY GotoMoves DEF WriteSession, Places
<1>2. cmd[c].token = setting /\ setting \in Tokens
  BY DEF WriteSession, At, LockedSections, CommandsCarry
<1>3. session'[setting] = [open |-> TRUE, key |-> cmd[c].key] /\ setting' = setting
  BY <1>2 DEF WriteSession, TypeOK
<1>4. FilesInOrder'
  BY FilesStay DEF WriteSession, history
<1> QED
  BY <1>1, <1>2, <1>3, <1>4 DEF ReliesOn, HoldsText

LEMMA MatchInOrder ==
    ASSUME TypeOK, NEW c \in Commands, FilesInOrder, ReliesOn(c), Match(c)
    PROVE  FilesInOrder' /\ ReliesOn(c)'
<1>1. FilesInOrder'
  BY FilesStay DEF Match, history
<1>2. CASE cmd'[c] = Idle
  BY <1>1, <1>2, IdleRelies DEF Idle
<1>3. CASE Goto(c, "read")
  <2>1. cmd'[c].pc = "read" /\ cmd'[c].token = cmd[c].token /\ cmd'[c].key = cmd[c].key
    BY <1>3, GotoMoves DEF Places
  <2>2. cmd[c].token = setting /\ session[setting] = [open |-> TRUE, key |-> cmd[c].key]
    BY DEF ReliesOn, Match, At
  <2> QED BY <1>1, <2>1, <2>2 DEF ReliesOn, HoldsText, Match, dbVars
<1> QED
  BY <1>2, <1>3, FinishMoves DEF Match

LEMMA ReadConfigInOrder ==
    ASSUME TypeOK, NEW c \in Commands, FilesInOrder, ReliesOn(c), ReadConfig(c)
    PROVE  FilesInOrder' /\ ReliesOn(c)'
<1>1. FilesInOrder' /\ UNCHANGED <<config, backup, setting, session, baseline>>
  BY FilesStay DEF ReadConfig, history, dbVars, fileVars
<1>2. CASE cmd'[c] = Idle
  BY <1>1, <1>2, IdleRelies DEF Idle
<1>3. cmd[c].token = setting /\ session[setting] = [open |-> TRUE, key |-> cmd[c].key]
  BY DEF ReliesOn, ReadConfig, At
<1>4. Whole(config) /\ BackedUp(config)
  BY DEF FilesInOrder
<1>5. CASE ~IsTakenOver(config) /\ Reads(c, "backup")
  <2>1. /\ cmd'[c].pc = "backup" /\ cmd'[c].text = config
        /\ cmd'[c].token = cmd[c].token /\ cmd'[c].key = cmd[c].key
    BY <1>5, ReadsMoves DEF Places
  <2>2. Doc(config) \in OwnFiles
    BY <1>4, <1>5, WholeCases
  <2> QED BY <1>1, <1>3, <1>4, <2>1, <2>2 DEF ReliesOn, HoldsText, Whole, BackedUp
<1>6. CASE (IsTakenOver(config) \/ config = NoFile) /\ Reads(c, "catalog")
  <2>1. /\ cmd'[c].pc = "catalog" /\ cmd'[c].text = config
        /\ cmd'[c].token = cmd[c].token /\ cmd'[c].key = cmd[c].key
    BY <1>6, ReadsMoves DEF Places
  <2>2. config # NoFile => Doc(config) \notin OwnFiles
    BY <1>6, OwnIsNotTakenOver
  <2> QED BY <1>1, <1>3, <1>4, <2>1, <2>2 DEF ReliesOn, HoldsText, Whole, BackedUp
<1> QED
  BY <1>2, <1>5, <1>6, FinishMoves DEF ReadConfig

LEMMA BackupInOrder ==
    ASSUME TypeOK, NEW c \in Commands, FilesInOrder, ReliesOn(c), At(c, "backup"),
           backup' \in {NoFile, config},
           UNCHANGED <<config, catalogFile, baseline>>
    PROVE  FilesInOrder'
<1>1. Doc(config) \in OwnFiles
  BY DEF ReliesOn, At
<1>2. config \in OwnFiles \cup {NoFile, Broken}
  BY <1>1 DEF Doc
<1>3. Doc(config).mark # Ours
  BY <1>1, OwnIsNotTakenOver
<1> QED
  BY <1>2, <1>3 DEF FilesInOrder, BackedUp

LEMMA BackedUpRelies ==
    ASSUME TypeOK, NEW c \in Commands, FilesInOrder, ReliesOn(c), Backup(c)
    PROVE  FilesInOrder' /\ ReliesOn(c)'
<1>1. FilesInOrder'
  BY BackupInOrder DEF Backup, history
<1>2. /\ cmd'[c] = [cmd[c] EXCEPT !.pc = "catalog"] /\ cmd'[c].pc = "catalog"
      /\ cmd'[c].token = cmd[c].token /\ cmd'[c].key = cmd[c].key
  BY GotoMoves DEF Backup, Places
<1>3. cmd[c] \in CommandState
  BY DEF TypeOK
<1>4. cmd'[c].text = cmd[c].text /\ cmd'[c].calm = cmd[c].calm
  BY <1>2, <1>3 DEF CommandState
<1>5. /\ cmd[c].token = setting /\ session[setting] = [open |-> TRUE, key |-> cmd[c].key]
      /\ Whole(cmd[c].text) /\ (cmd[c].calm => cmd[c].text = config)
      /\ Doc(cmd[c].text) \in OwnFiles
  BY DEF ReliesOn, HoldsText, Backup, At
<1>6. Doc(cmd[c].text).mark # Ours
  BY <1>5, OwnIsNotTakenOver
<1>7. UNCHANGED <<config, setting, session, baseline>> /\ backup' = config
  BY DEF Backup, dbVars, history
<1> QED
  BY <1>1, <1>2, <1>4, <1>5, <1>6, <1>7 DEF ReliesOn, HoldsText, Whole, BackedUp

LEMMA WriteCatalogInOrder ==
    ASSUME TypeOK, CommandsCarry, NEW c \in Commands, FilesInOrder, ReliesOn(c), WriteCatalog(c)
    PROVE  FilesInOrder' /\ ReliesOn(c)'
<1>1. /\ cmd'[c] = [cmd[c] EXCEPT !.pc = "write"] /\ cmd'[c].pc = "write"
      /\ cmd'[c].token = cmd[c].token /\ cmd'[c].key = cmd[c].key
  BY GotoMoves DEF WriteCatalog, Places
<1>2. cmd[c] \in CommandState
  BY DEF TypeOK
<1>3. cmd'[c].text = cmd[c].text /\ cmd'[c].calm = cmd[c].calm
  BY <1>1, <1>2 DEF CommandState
<1>4. UNCHANGED <<config, backup, setting, session, baseline>> /\ catalogFile' = cmd[c].key
  BY DEF WriteCatalog, dbVars, history
<1>5. cmd[c].key \in Keys /\ cmd[c].key # NoKey
  BY TakeoverAssumption DEF WriteCatalog, At, CommandsCarry
<1>6. FilesInOrder'
  BY <1>4, <1>5 DEF FilesInOrder, BackedUp
<1>7. /\ cmd[c].token = setting /\ session[setting] = [open |-> TRUE, key |-> cmd[c].key]
      /\ Whole(cmd[c].text) /\ BackedUp(cmd[c].text) /\ (cmd[c].calm => cmd[c].text = config)
      /\ cmd[c].calm /\ cmd[c].text # NoFile /\ Doc(cmd[c].text) \in OwnFiles
            => backup = cmd[c].text
  BY DEF ReliesOn, HoldsText, WriteCatalog, At
<1> QED
  BY <1>1, <1>3, <1>4, <1>6, <1>7 DEF ReliesOn, HoldsText, Whole, BackedUp

LEMMA WriteConfigInOrder ==
    ASSUME TypeOK, CommandsCarry, NEW c \in Commands, FilesInOrder, ReliesOn(c), WriteConfig(c)
    PROVE  FilesInOrder' /\ ReliesOn(c)'
<1>1. cmd'[c] = Idle
  BY FinishMoves DEF WriteConfig
<1>2. cmd[c].key \in Keys /\ cmd[c].token \in Tokens
  BY DEF WriteConfig, At, CommandsCarry
<1>3. /\ Whole(config') /\ backup' = backup /\ catalogFile' = cmd[c].key
  BY <1>2, TakenOverFields DEF WriteConfig, ReliesOn, At
<1>4. catalogFile' # NoKey
  BY <1>2, <1>3, TakeoverAssumption
<1>5. /\ Whole(cmd[c].text) /\ BackedUp(cmd[c].text)
      /\ cmd[c].calm /\ cmd[c].text # NoFile /\ Doc(cmd[c].text) \in OwnFiles
            => backup = cmd[c].text
  BY DEF ReliesOn, HoldsText, WriteConfig, At
<1>6. baseline' # NoFile => baseline' = backup'
  <2>1. CASE IsTakenOver(cmd[c].text)
    BY <1>3, <1>5, <2>1 DEF WriteConfig, BackedUp, IsTakenOver
  <2>2. CASE ~IsTakenOver(cmd[c].text)
    <3>1. Doc(cmd[c].text) \in OwnFiles
      BY <1>5, <2>2, WholeCases
    <3> QED BY <1>3, <1>5, <2>2, <3>1 DEF WriteConfig
  <2> QED BY <2>1, <2>2
<1>7. FilesInOrder'
  BY <1>3, <1>4, <1>6 DEF FilesInOrder, BackedUp
<1> QED
  BY <1>1, <1>7, IdleRelies DEF Idle

LEMMA OpenConfigInOrder ==
    ASSUME TypeOK, NEW c \in Commands, FilesInOrder, OpenConfig(c)
    PROVE  FilesInOrder' /\ ReliesOn(c)'
<1>1. FilesInOrder' /\ UNCHANGED <<config, backup, baseline>>
  BY FilesStay DEF OpenConfig, history, fileVars
<1>2. CASE cmd'[c] = Idle
  BY <1>1, <1>2, IdleRelies DEF Idle
<1>3. CASE Doc(config) = Empty /\ Goto(c, "clean")
  <2>1. cmd'[c].pc = "clean"
    BY <1>3, GotoMoves DEF Places
  <2>2. Doc(config).catalog # Ours
    BY <1>3, EmptyIsOwn, OwnFields
  <2>3. Doc(config').catalog # Ours
    BY <1>1, <2>2
  <2> QED BY <1>1, <2>1, <2>3 DEF ReliesOn, HoldsText
<1>4. CASE Reads(c, "rewrite")
  <2>1. cmd'[c].pc = "rewrite" /\ cmd'[c].text = config
    BY <1>4, ReadsMoves DEF Places
  <2>2. Whole(config) /\ BackedUp(config)
    BY DEF FilesInOrder
  <2> QED BY <1>1, <2>1, <2>2 DEF ReliesOn, HoldsText, Whole, BackedUp
<1> QED
  BY <1>2, <1>3, <1>4, FinishMoves DEF OpenConfig

(* The rewritten file is the user's own.                                   *)
LEMMA RewriteGives ==
    ASSUME TypeOK, CommandsCarry, NEW c \in Commands, FilesInOrder, ReliesOn(c), Rewrite(c)
    PROVE  config' \in OwnFiles
<1>1. cmd[c].text \in Files /\ Whole(cmd[c].text)
  BY DEF Rewrite, At, CommandsCarry, ReliesOn, HoldsText
<1>2. Doc(backup) \in OwnFiles
  BY EmptyIsOwn DEF FilesInOrder, Doc
<1> QED
  BY <1>1, <1>2, RestoredIsOwn DEF Rewrite

LEMMA RewriteInOrder ==
    ASSUME TypeOK, CommandsCarry, NEW c \in Commands, FilesInOrder, ReliesOn(c), Rewrite(c)
    PROVE  FilesInOrder' /\ ReliesOn(c)'
<1>1. config' \in OwnFiles
  BY RewriteGives
<1>2. Doc(config') = config'
  BY <1>1, OwnFields, DocOfFile
<1>3. Whole(config') /\ Doc(config').mark # Ours /\ Doc(config').catalog # Ours
  BY <1>1, <1>2, OwnIsNotTakenOver
<1>4. FilesInOrder'
  BY <1>3 DEF FilesInOrder, BackedUp, Rewrite
<1>5. cmd'[c] = [Idle EXCEPT !.pc = "clean"]
  BY DEF Rewrite, TypeOK
<1>6. cmd'[c].pc = "clean"
  BY <1>5 DEF Idle
<1> QED
  BY <1>3, <1>4, <1>6 DEF ReliesOn, HoldsText

LEMMA CleanInOrder ==
    ASSUME TypeOK, NEW c \in Commands, FilesInOrder, ReliesOn(c), Clean(c) \/ CleanFails(c)
    PROVE  FilesInOrder' /\ ReliesOn(c)'
<1>1. cmd'[c].pc = "revoke"
  BY GotoMoves DEF Clean, CleanFails, Places
<1>2. Doc(config).catalog # Ours
  BY DEF ReliesOn, Clean, CleanFails, At
<1>3. UNCHANGED <<config, backup, baseline>>
  BY DEF Clean, CleanFails, history, fileVars
<1>4. FilesInOrder'
  BY <1>2, <1>3 DEF FilesInOrder, BackedUp
<1> QED
  BY <1>1, <1>2, <1>3, <1>4 DEF ReliesOn, HoldsText

LEMMA RevokeInOrder ==
    ASSUME TypeOK, NEW c \in Commands, FilesInOrder, ReliesOn(c), Revoke(c)
    PROVE  FilesInOrder' /\ ReliesOn(c)'
<1>1. cmd'[c].pc = "forget"
  BY GotoMoves DEF Revoke, Places
<1>2. Doc(config).catalog # Ours /\ config' = config
  BY DEF ReliesOn, Revoke, At, fileVars
<1>3. FilesInOrder'
  BY FilesStay DEF Revoke, history
<1> QED
  BY <1>1, <1>2, <1>3 DEF ReliesOn, HoldsText

(* An edit that brings in no mark of ours keeps everything in order.       *)
LEMMA EditInOrder ==
    ASSUME TypeOK, FilesInOrder, \A c \in Commands : ReliesOn(c), Edits,
           Whole(config'),
           Doc(config').mark = Ours => Doc(config).mark = Ours,
           Doc(config').catalog = Ours => Doc(config).catalog = Ours,
           Doc(config) \in OwnFiles => Doc(config') \in OwnFiles
    PROVE  FilesInOrder' /\ \A c \in Commands : ReliesOn(c)'
<1>1. UNCHANGED <<backup, catalogFile, baseline, setting, session>>
  BY DEF Edits, dbVars
<1>2. FilesInOrder'
  BY <1>1 DEF FilesInOrder, BackedUp
<1>3. ASSUME NEW c \in Commands PROVE ReliesOn(c)'
  <2>1. cmd'[c] = [cmd[c] EXCEPT !.calm = ~HoldsText(c)] /\ cmd[c] \in CommandState
    BY DEF Edits, TypeOK
  <2>2. /\ cmd'[c].pc = cmd[c].pc /\ cmd'[c].key = cmd[c].key
        /\ cmd'[c].token = cmd[c].token /\ cmd'[c].text = cmd[c].text
        /\ cmd'[c].calm = ~HoldsText(c)
    BY <2>1 DEF CommandState
  <2>3. ReliesOn(c)
    OBVIOUS
  <2>4. cmd[c].pc \in {"backup", "catalog", "write", "rewrite"} => ~cmd'[c].calm
    BY <2>2 DEF HoldsText
  <2> QED BY <1>1, <2>2, <2>3, <2>4 DEF ReliesOn, HoldsText, Whole, BackedUp
<1> QED
  BY <1>2, <1>3

LEMMA EditsInOrder ==
    ASSUME TypeOK, FilesInOrder, \A c \in Commands : ReliesOn(c),
           EditField \/ EditMark \/ ReplaceFile, disturbed' = {}
    PROVE  FilesInOrder' /\ \A c \in Commands : ReliesOn(c)'
<1>0. Whole(config) /\ Edits
  BY DEF FilesInOrder, EditField, EditMark, ReplaceFile
<1>1. Doc(config) \in Files /\ Doc(Doc(config)) = Doc(config)
  BY DocIsFile, DocOfFile DEF TypeOK
<1>2. Whole(Doc(config))
  BY <1>0, <1>1 DEF Whole
<1>3. CASE EditField
  <2>1. PICK v \in Own : \/ config' = [Doc(config) EXCEPT !.model = v]
                         \/ config' = [Doc(config) EXCEPT !.catalog = v]
    BY <1>3 DEF EditField
  <2>2. /\ config' \in Files /\ Whole(config')
        /\ config'.mark = Doc(config).mark
        /\ config'.catalog = Ours => Doc(config).catalog = Ours
        /\ Doc(config) \in OwnFiles => config' \in OwnFiles
    BY <1>1, <1>2, <2>1, EditedField
  <2>3. Doc(config') = config'
    BY <2>2, DocOfFile
  <2> QED BY <1>0, <2>2, <2>3, EditInOrder
<1>4. CASE EditMark
  <2>1. Doc(config).token = NoToken
    BY <1>4 DEF EditMark
  <2>2. Doc(config) \in OwnFiles
    BY <1>0, <2>1 DEF Whole
  <2>3. PICK v \in Own : config' = [Doc(config) EXCEPT !.mark = v]
    BY <1>4 DEF EditMark
  <2>4. config' \in OwnFiles
    BY <2>2, <2>3, EditedMark
  <2>5. Doc(config') = config'
    BY <2>4, OwnFields, DocOfFile
  <2> QED BY <1>0, <2>4, <2>5, OwnIsNotTakenOver, EditInOrder
<1>5. CASE ReplaceFile
  <2>1. Doc(config') = Empty
    BY <1>5, EmptyIsOwn DEF ReplaceFile
  <2>2. Doc(config') \in OwnFiles
    BY <2>1, EmptyIsOwn
  <2> QED BY <1>0, <2>2, OwnIsNotTakenOver, EditInOrder
<1> QED
  BY <1>3, <1>4, <1>5

(* Of commands that do not overlap, only the one that moves is anywhere.   *)
LEMMA OnlyMover ==
    ASSUME Undisturbed, NEW c \in Commands, OthersStay(c), cmd[c].pc # "idle",
           UNCHANGED disturbed,
           disturbed = {} => FilesInOrder' /\ ReliesOn(c)'
    PROVE  Undisturbed'
<1>1. OneAtATime'
  BY DEF Undisturbed, OneAtATime, OthersStay
<1>2. ASSUME disturbed' = {}, NEW d \in Commands PROVE ReliesOn(d)'
  <2>1. CASE d = c
    BY <1>2, <2>1
  <2>2. CASE d # c
    <3>1. cmd'[d].pc = "idle"
      BY <1>2, <2>2 DEF Undisturbed, OneAtATime, OthersStay
    <3> QED BY <3>1, IdleRelies
  <2> QED BY <2>1, <2>2
<1> QED
  BY <1>1, <1>2 DEF Undisturbed

LEMMA EndsInOrder ==
    ASSUME Undisturbed, NEW c \in Commands, OthersStay(c), cmd[c].pc # "idle",
           cmd'[c] = Idle, UNCHANGED disturbed, disturbed = {} => FilesInOrder'
    PROVE  Undisturbed'
BY IdleRelies, OnlyMover DEF Idle

LEMMA StartsUndisturbed ==
    ASSUME TypeOK, Undisturbed, NEW c \in Commands, NEW pc \in {"fetch", "open"}, NEW k,
           Start(c, pc, k)
    PROVE  Undisturbed'
<1>1. cmd'[c] = [Idle EXCEPT !.pc = pc, !.key = k] /\ OthersStay(c)
  BY DEF Start, OthersStay, TypeOK
<1>2. cmd'[c].pc = pc
  BY <1>1 DEF Idle
<1>3. CASE Running = {}
  <2>1. \A d \in Commands : cmd[d].pc = "idle"
    BY <1>3 DEF Running
  <2>2. OneAtATime'
    BY <1>1, <2>1 DEF OneAtATime, OthersStay
  <2>3. ASSUME NEW d \in Commands PROVE ReliesOn(d)'
    BY <1>1, <1>2, <2>1 DEF ReliesOn, HoldsText, OthersStay
  <2>4. disturbed = {} => FilesInOrder'
    BY <1>3, FilesStay DEF Start, Undisturbed
  <2> QED BY <1>3, <2>2, <2>3, <2>4 DEF Undisturbed, Start
<1>4. CASE Running # {}
  <2>1. "overlap" \in disturbed'
    BY <1>4 DEF Start
  <2> QED BY <2>1 DEF Undisturbed, OneAtATime
<1> QED
  BY <1>3, <1>4

LEMMA TakeoverUndisturbed ==
    ASSUME CodexInv, Undisturbed, NEW c \in Commands, Takeover(c)
    PROVE  Undisturbed'
<1> USE DEF history, NoFault
<1>0. TypeOK /\ CommandsCarry /\ LockedSections
  BY DEF CodexInv
<1>a. disturbed = {} => FilesInOrder /\ ReliesOn(c)
  BY DEF Undisturbed
<1>1. ASSUME NEW k \in Keys, BeginTakeover(c, k) PROVE Undisturbed'
  BY <1>0, <1>1, StartsUndisturbed DEF BeginTakeover
<1>2. CASE CatalogFailed(c)
  <2>1. cmd'[c] = Idle /\ OthersStay(c)
    BY <1>0, <1>2, FinishMoves DEF CatalogFailed
  <2> QED BY <1>2, <1>a, <2>1, FilesStay, EndsInOrder DEF CatalogFailed, At
<1>3. CASE KeepToken(c) \/ NewToken(c) \/ UnreadToken(c)
  <2>1. PICK t \in Tokens \cup {NoToken} : UseToken(c, t)
    BY <1>0, <1>3 DEF KeepToken, NewToken, UnreadToken, TypeOK
  <2>2. cmd'[c] = [cmd[c] EXCEPT !.pc = "session", !.token = t] /\ OthersStay(c)
    BY <1>0, <2>1 DEF UseToken, OthersStay, TypeOK
  <2>3. cmd'[c].pc = "session" /\ cmd[c] \in CommandState
    BY <1>0, <2>2 DEF TypeOK, CommandState
  <2>4. ReliesOn(c)'
    BY <2>3 DEF ReliesOn, HoldsText
  <2> QED BY <1>a, <2>1, <2>2, <2>4, FilesStay, OnlyMover DEF UseToken, At
<1>6. CASE WriteSession(c)
  <2>1. OthersStay(c)
    BY <1>0, <1>6, GotoMoves DEF WriteSession, Places
  <2> QED BY <1>0, <1>6, <1>a, <2>1, WriteSessionInOrder, OnlyMover DEF WriteSession, At
<1>7. CASE Match(c)
  <2>1. OthersStay(c)
    BY <1>0, <1>7, FinishMoves, GotoMoves DEF Match, Places
  <2> QED BY <1>0, <1>7, <1>a, <2>1, MatchInOrder, OnlyMover DEF Match, At
<1>8. CASE ReadConfig(c)
  <2>1. OthersStay(c)
    BY <1>0, <1>8, FinishMoves, ReadsMoves DEF ReadConfig, Places
  <2> QED BY <1>0, <1>8, <1>a, <2>1, ReadConfigInOrder, OnlyMover DEF ReadConfig, At
<1>9. CASE Backup(c)
  <2>1. OthersStay(c)
    BY <1>0, <1>9, GotoMoves DEF Backup, Places
  <2> QED BY <1>0, <1>9, <1>a, <2>1, BackedUpRelies, OnlyMover DEF Backup, At
<1>10. CASE BackupFails(c)
  <2>1. cmd'[c] = Idle /\ OthersStay(c)
    BY <1>0, <1>10, FinishMoves DEF BackupFails, Fails
  <2>2. disturbed = {} => FilesInOrder'
    BY <1>0, <1>10, <1>a, BackupInOrder DEF BackupFails, Fails
  <2> QED BY <1>10, <2>1, <2>2, EndsInOrder DEF BackupFails, Fails, At
<1>11. CASE WriteCatalog(c)
  <2>1. OthersStay(c)
    BY <1>0, <1>11, GotoMoves DEF WriteCatalog, Places
  <2> QED BY <1>0, <1>11, <1>a, <2>1, WriteCatalogInOrder, OnlyMover DEF WriteCatalog, At
<1>12. CASE WriteConfig(c)
  <2>1. OthersStay(c)
    BY <1>0, <1>12, FinishMoves DEF WriteConfig
  <2> QED BY <1>0, <1>12, <1>a, <2>1, WriteConfigInOrder, OnlyMover DEF WriteConfig, At
<1>13. CASE TakeoverFails(c)
  <2>1. cmd'[c] = Idle /\ OthersStay(c)
    BY <1>0, <1>13, FinishMoves DEF TakeoverFails, FailsCleanly, Fails
  <2>2. disturbed = {} => FilesInOrder'
    BY <1>13, <1>a, FilesStay DEF TakeoverFails, FailsCleanly, Fails, fileVars
  <2> QED BY <1>13, <2>1, <2>2, EndsInOrder DEF TakeoverFails, FailsCleanly, Fails
<1> QED
  BY <1>1, <1>2, <1>3, <1>6, <1>7, <1>8, <1>9, <1>10, <1>11, <1>12, <1>13 DEF Takeover

LEMMA RestoreUndisturbed ==
    ASSUME CodexInv, Undisturbed, NEW c \in Commands, Restore(c)
    PROVE  Undisturbed'
<1> USE DEF history, NoFault
<1>0. TypeOK /\ CommandsCarry
  BY DEF CodexInv
<1>a. disturbed = {} => FilesInOrder /\ ReliesOn(c)
  BY DEF Undisturbed
<1>1. CASE BeginRestore(c)
  BY <1>0, <1>1, StartsUndisturbed DEF BeginRestore
<1>2. CASE OpenConfig(c)
  <2>1. OthersStay(c)
    BY <1>0, <1>2, FinishMoves, GotoMoves, ReadsMoves DEF OpenConfig, Places
  <2> QED BY <1>0, <1>2, <1>a, <2>1, OpenConfigInOrder, OnlyMover DEF OpenConfig, At
<1>3. CASE Rewrite(c)
  <2>1. OthersStay(c)
    BY <1>0, <1>3 DEF Rewrite, OthersStay, TypeOK
  <2> QED BY <1>0, <1>3, <1>a, <2>1, RewriteInOrder, OnlyMover DEF Rewrite, At
<1>4. CASE Clean(c) \/ CleanFails(c)
  <2>1. OthersStay(c)
    BY <1>0, <1>4, GotoMoves DEF Clean, CleanFails, Places
  <2> QED BY <1>0, <1>4, <1>a, <2>1, CleanInOrder, OnlyMover DEF Clean, CleanFails, At
<1>5. CASE Revoke(c)
  <2>1. OthersStay(c)
    BY <1>0, <1>5, GotoMoves DEF Revoke, Places
  <2> QED BY <1>0, <1>5, <1>a, <2>1, RevokeInOrder, OnlyMover DEF Revoke, At
<1>6. CASE Forget(c)
  <2>1. cmd'[c] = Idle /\ OthersStay(c)
    BY <1>0, <1>6, FinishMoves DEF Forget
  <2> QED BY <1>6, <1>a, <2>1, FilesStay, EndsInOrder DEF Forget, At
<1>7. CASE RestoreFails(c)
  <2>1. cmd'[c] = Idle /\ OthersStay(c)
    BY <1>0, <1>7, FinishMoves DEF RestoreFails, FailsCleanly, Fails
  <2>2. disturbed = {} => FilesInOrder'
    BY <1>7, <1>a, FilesStay DEF RestoreFails, FailsCleanly, Fails, fileVars
  <2> QED BY <1>7, <2>1, <2>2, EndsInOrder DEF RestoreFails, FailsCleanly, Fails
<1> QED
  BY <1>1, <1>2, <1>3, <1>4, <1>5, <1>6, <1>7 DEF Restore

LEMMA EnvironmentUndisturbed ==
    ASSUME CodexInv, Undisturbed, Environment
    PROVE  Undisturbed'
<1>0. TypeOK
  BY DEF CodexInv
<1>1. CASE Crash
  <2>1. \A c \in Commands : cmd'[c].pc = "idle"
    BY <1>1 DEF Crash, Idle
  <2>2. disturbed' = {} => FilesInOrder'
    BY <1>1, FilesStay DEF Crash, Undisturbed, history
  <2> QED BY <2>1, <2>2, IdleRelies DEF Undisturbed, OneAtATime
<1>2. CASE EditField \/ EditMark \/ ReplaceFile
  <2>1. disturbed \subseteq disturbed' /\ Edits
    BY <1>2 DEF EditField, EditMark, ReplaceFile
  <2>2. ASSUME NEW c \in Commands PROVE cmd'[c].pc = cmd[c].pc
    <3>1. cmd'[c] = [cmd[c] EXCEPT !.calm = ~HoldsText(c)] /\ cmd[c] \in CommandState
      BY <1>0, <2>1 DEF Edits, TypeOK
    <3> QED BY <3>1 DEF CommandState
  <2>3. OneAtATime'
    BY <2>1, <2>2 DEF Undisturbed, OneAtATime
  <2>4. disturbed' = {} => FilesInOrder' /\ \A c \in Commands : ReliesOn(c)'
    BY <1>0, <1>2, <2>1, EditsInOrder DEF Undisturbed
  <2> QED BY <2>3, <2>4 DEF Undisturbed
<1> QED
  BY <1>1, <1>2 DEF Environment

(* While nothing overlaps and the user leaves the mark alone, the files     *)
(* are in order and every command finds what it relies on: an inductive    *)
(* invariant, together with CodexInv.                                      *)
THEOREM UndisturbedInductive == Spec => []Undisturbed
<1>1. Init => Undisturbed
  <2> SUFFICES ASSUME Init PROVE Undisturbed
    OBVIOUS
  <2>1. \A c \in Commands : cmd[c].pc = "idle"
    BY DEF Init, Idle
  <2>2. Doc(config) \in OwnFiles
    <3>1. CASE config = NoFile
      BY <3>1, EmptyIsOwn
    <3>2. CASE config \in OwnFiles
      BY <3>2, OwnFields, DocOfFile
    <3> QED BY <3>1, <3>2, FirstFilesAssumption DEF Init
  <2>3. FilesInOrder
    BY <2>2, OwnIsNotTakenOver DEF Init, FilesInOrder, BackedUp
  <2> QED BY <2>1, <2>3 DEF Undisturbed, OneAtATime, ReliesOn, HoldsText
<1>2. CodexInv /\ Undisturbed /\ [Next]_vars => Undisturbed'
  <2> SUFFICES ASSUME CodexInv, Undisturbed, [Next]_vars PROVE Undisturbed'
    OBVIOUS
  <2>1. CASE UNCHANGED vars
    BY <2>1 DEF vars, fileVars, dbVars, cmdVars, history, Undisturbed, OneAtATime,
                FilesInOrder, BackedUp, ReliesOn, HoldsText
  <2> QED BY <2>1, TakeoverUndisturbed, RestoreUndisturbed, EnvironmentUndisturbed DEF Next
<1> QED
  BY <1>1, <1>2, CodexInductive, PTL DEF Spec

(* A config.toml that points to our catalog finds it, whatever failed or   *)
(* died between writing the one and the other.                             *)
THEOREM PointerFindsCatalog == Spec => []CatalogOnFile
<1>1. Undisturbed => CatalogOnFile
  BY DEF Undisturbed, FilesInOrder, CatalogOnFile
<1> QED
  BY <1>1, UndisturbedInductive, PTL

(* A step of one command moves no other.                                   *)
LEMMA OneMoves ==
    ASSUME TypeOK, NEW d \in Commands, Takeover(d) \/ Restore(d)
    PROVE  OthersStay(d)
<1>1. ASSUME NEW pc, NEW k, Start(d, pc, k) PROVE OthersStay(d)
  BY <1>1 DEF Start, OthersStay, TypeOK
<1>2. ASSUME NEW pc, Goto(d, pc) PROVE OthersStay(d)
  BY <1>2 DEF Goto, OthersStay, TypeOK
<1>3. ASSUME NEW result, Finish(d, result) PROVE OthersStay(d)
  BY <1>3 DEF Finish, OthersStay, TypeOK
<1>4. ASSUME NEW pc, Reads(d, pc) PROVE OthersStay(d)
  BY <1>4 DEF Reads, OthersStay, TypeOK
<1>5. ASSUME NEW t, UseToken(d, t) PROVE OthersStay(d)
  BY <1>5 DEF UseToken, OthersStay, TypeOK
<1>6. CASE Takeover(d)
  BY <1>1, <1>2, <1>3, <1>4, <1>5, <1>6
     DEF Takeover, BeginTakeover, CatalogFailed, KeepToken, NewToken, UnreadToken,
         WriteSession, Match, ReadConfig, Backup, BackupFails, Fails, WriteCatalog,
         WriteConfig, TakeoverFails, FailsCleanly
<1>7. Rewrite(d) => OthersStay(d)
  BY DEF Rewrite, OthersStay, TypeOK
<1>8. CASE Restore(d)
  BY <1>1, <1>2, <1>3, <1>4, <1>7, <1>8
     DEF Restore, BeginRestore, OpenConfig, Clean, CleanFails, Revoke, Forget,
         RestoreFails, FailsCleanly, Fails
<1> QED
  BY <1>6, <1>8

(* Only two steps end a takeover with success.                             *)
LEMMA SuccessEnds ==
    ASSUME TypeOK, Next, NEW c \in Commands, TakeoverSucceeds(c)
    PROVE  Match(c) \/ WriteConfig(c)
<1>1. ~Environment
  BY DEF TakeoverSucceeds, Environment, Crash, EditField, EditMark, ReplaceFile, Edits
<1>2. PICK d \in Commands : Takeover(d) \/ Restore(d)
  BY <1>1 DEF Next
<1>3. d = c
  BY <1>2, OneMoves DEF TakeoverSucceeds, OthersStay
<1>4. returned' = "ok" /\ cmd[c].pc \in {"match", "write"}
  BY DEF TakeoverSucceeds
<1>5. ~Restore(c)
  BY <1>4 DEF Restore, BeginRestore, Start, OpenConfig, Rewrite, Clean, CleanFails,
              Revoke, Forget, RestoreFails, At
<1>6. Takeover(c)
  BY <1>2, <1>3, <1>5
<1> QED
  BY <1>4, <1>6 DEF Takeover, BeginTakeover, Start, CatalogFailed, KeepToken, NewToken,
     UnreadToken, UseToken, WriteSession, ReadConfig, Backup, BackupFails, WriteCatalog,
     TakeoverFails, FailsCleanly, Fails, Finish, At

(* A takeover that reports success left file, catalog, setting and session *)
(* as it promises, also where it found the file current.                   *)
THEOREM SuccessfulTakeoverServes == Spec => TakeoverServes
<1>1. CodexInv /\ Undisturbed /\ [Next]_vars =>
        [\A c \in Commands : TakeoverSucceeds(c) /\ disturbed = {} =>
            /\ config' = TakenOverBy(cmd[c].key, cmd[c].token)
            /\ catalogFile' = cmd[c].key
            /\ setting' = cmd[c].token
            /\ session'[cmd[c].token] = [open |-> TRUE, key |-> cmd[c].key]]_vars
  <2> SUFFICES ASSUME CodexInv, Undisturbed, Next, NEW c \in Commands,
                      TakeoverSucceeds(c), disturbed = {}
               PROVE  /\ config' = TakenOverBy(cmd[c].key, cmd[c].token)
                      /\ catalogFile' = cmd[c].key
                      /\ setting' = cmd[c].token
                      /\ session'[cmd[c].token] = [open |-> TRUE, key |-> cmd[c].key]
    OBVIOUS
  <2>0. TypeOK /\ CommandsCarry /\ FilesInOrder /\ ReliesOn(c) /\ OneAtATime
    BY DEF CodexInv, Undisturbed
  <2>1. /\ cmd[c].token = setting /\ session[setting] = [open |-> TRUE, key |-> cmd[c].key]
        /\ cmd[c].key \in Keys /\ cmd[c].token \in Tokens
    BY <2>0 DEF TakeoverSucceeds, ReliesOn, CommandsCarry
  <2>2. Match(c) \/ WriteConfig(c)
    BY <2>0, SuccessEnds
  <2>3. CASE WriteConfig(c)
    BY <2>0, <2>1, <2>3 DEF WriteConfig, ReliesOn, At, dbVars
  <2>4. CASE Match(c)
    <3>1. IsCurrent(config, cmd[c].key, cmd[c].token)
      BY <2>4 DEF TakeoverSucceeds, Match, Goto, Finish
    <3>2. /\ Doc(config).token = cmd[c].token /\ Doc(config).model = cmd[c].key
          /\ Doc(config).catalog = Ours /\ catalogFile = cmd[c].key
      BY <3>1 DEF IsCurrent
    <3>3. Doc(config).token # NoToken
      BY <2>1, <3>2, TakeoverAssumption
    <3>4. Doc(config).mark = Ours
      BY <2>0, <3>3, OwnFields DEF FilesInOrder, Whole
    <3>5. config \in Files /\ Doc(config) = config
      BY <2>0, <3>3, DocOfFile DEF TypeOK, Doc, Empty
    <3>6. config = TakenOverBy(cmd[c].key, cmd[c].token)
      BY <3>2, <3>4, <3>5 DEF Files, TakenOverBy
    <3> QED BY <2>1, <2>4, <3>2, <3>6 DEF Match, fileVars, dbVars
  <2> QED BY <2>2, <2>3, <2>4
<1> QED
  BY <1>1, CodexInductive, UndisturbedInductive, PTL DEF Spec, TakeoverServes

(* Only Rewrite takes a command from "rewrite" to "clean".                 *)
LEMMA RewriteIs ==
    ASSUME TypeOK, Next, NEW c \in Commands, At(c, "rewrite"), cmd'[c].pc = "clean"
    PROVE  Rewrite(c)
<1>1. ASSUME Edits PROVE FALSE
  <2>1. cmd'[c] = [cmd[c] EXCEPT !.calm = ~HoldsText(c)] /\ cmd[c] \in CommandState
    BY <1>1 DEF Edits, TypeOK
  <2> QED BY <2>1 DEF CommandState, At
<1>2. ~Environment
  BY <1>1 DEF Environment, Crash, Idle, EditField, EditMark, ReplaceFile
<1>3. PICK d \in Commands : Takeover(d) \/ Restore(d)
  BY <1>2 DEF Next
<1>4. d = c
  BY <1>3, OneMoves DEF At, OthersStay
<1>5. ~Takeover(c)
  BY DEF Takeover, BeginTakeover, Start, CatalogFailed, KeepToken, NewToken, UnreadToken,
         UseToken, WriteSession, Match, ReadConfig, Backup, BackupFails, WriteCatalog,
         WriteConfig, TakeoverFails, At
<1>6. Restore(c)
  BY <1>3, <1>4, <1>5
<1>7. ~RestoreFails(c)
  <2>1. RestoreFails(c) => cmd'[c] = Idle
    BY FinishMoves DEF RestoreFails, FailsCleanly, Fails
  <2> QED BY <2>1 DEF Idle
<1> QED
  BY <1>6, <1>7 DEF Restore, BeginRestore, Start, OpenConfig, Clean, CleanFails, Revoke,
                    Forget, At

(* A restore takes out of the file what is ours and puts back what the     *)
(* user had before the first takeover.                                     *)
THEOREM RestoreGivesTheFileBack == Spec => RestoreGivesBack
<1>1. ASSUME CodexInv, Undisturbed, Next, NEW c \in Commands,
             At(c, "rewrite"), cmd'[c].pc = "clean", disturbed = {}
      PROVE  /\ config' \in OwnFiles
             /\ cmd[c].text.mark = Ours /\ cmd[c].calm /\ baseline # NoFile =>
                   /\ config'.mark = baseline.mark
                   /\ config'.model = baseline.model
                   /\ config'.catalog = IF cmd[c].text.catalog = Ours
                                        THEN baseline.catalog ELSE cmd[c].text.catalog
  <2>0. TypeOK /\ CommandsCarry /\ FilesInOrder /\ ReliesOn(c)
    BY <1>1 DEF CodexInv, Undisturbed
  <2>1. Rewrite(c)
    BY <1>1, <2>0, RewriteIs
  <2>2. config' \in OwnFiles
    BY <2>0, <2>1, RewriteGives
  <2>3. cmd[c].text \in Files /\ Doc(cmd[c].text) = cmd[c].text
    BY <2>0, <2>1, DocOfFile DEF Rewrite, At, CommandsCarry
  <2>4. ASSUME cmd[c].text.mark = Ours, baseline # NoFile
        PROVE  /\ config'.mark = baseline.mark
               /\ config'.model = baseline.model
               /\ config'.catalog = IF cmd[c].text.catalog = Ours
                                    THEN baseline.catalog ELSE cmd[c].text.catalog
    <3>1. BackedUp(cmd[c].text)
      BY <2>0, <2>1 DEF ReliesOn, HoldsText, Rewrite, At
    <3>2. baseline = backup
      BY <2>3, <2>4, <3>1 DEF BackedUp
    <3>3. Doc(backup) = baseline
      BY <2>0, <2>4, <3>2, DocOfFile DEF TypeOK
    <3>4. config' = Restored(cmd[c].text, baseline)
      BY <2>1, <3>3 DEF Rewrite
    <3> QED BY <2>4, <3>4 DEF Restored
  <2> QED BY <2>2, <2>4
<1>2. CodexInv /\ Undisturbed /\ [Next]_vars =>
        [\A c \in Commands :
          /\ At(c, "rewrite") /\ cmd'[c].pc = "clean" /\ disturbed = {}
          => /\ config' \in OwnFiles
             /\ cmd[c].text.mark = Ours /\ cmd[c].calm /\ baseline # NoFile =>
                   /\ config'.mark = baseline.mark
                   /\ config'.model = baseline.model
                   /\ config'.catalog = IF cmd[c].text.catalog = Ours
                                        THEN baseline.catalog ELSE cmd[c].text.catalog]_vars
  BY <1>1
<1> QED
  BY <1>2, CodexInductive, UndisturbedInductive, PTL DEF Spec, RestoreGivesBack

----------------------------------------------------------------------------
(* Claude Desktop.                                                         *)


----------------------------------------------------------------------------
(* What the types need to survive a step: a takeover knows its token from  *)
(* the start, and a command that may have to undo a file has its snapshot. *)

Undoing == {"undo_normal", "undo_threep", "undo_profile", "undo_meta"}

CommandInv(doing) ==
    /\ doing.op = "none" <=> doing.at = "rest"
    /\ doing.op = "takeover" => doing.by \in DeskTokens
    /\ doing.at \in Steps \union Undoing => doing.snap \in DeskFiles

CommandsInv == desk \in [Desks -> DeskCommands] /\ \A c \in Desks : CommandInv(desk[c])

DataInv ==
    /\ token \in DeskTokens \union {None} /\ marked \in DeskKeys \union {None}
    /\ opens \in [DeskTokens -> DeskKeys \union {None}]
    /\ aliases \in [DeskKeys -> Nat] /\ menu \in [DeskKeys -> Nat]
    /\ OpenIsNamed

HolderInv ==
    /\ holder \in Desks \union {None}
    /\ \A c \in Desks : holder = c => desk[c].op = "takeover"

RestInv == unsure \subseteq {"files", "key"} /\ fails \in Nat /\ uses \in Nat

DeskInv == files \in DeskFiles /\ DataInv /\ HolderInv /\ RestInv /\ CommandsInv

(* None is no value.                                                       *)
LEMMA NoneIsNothing ==
    /\ None \notin DeskKeys /\ None \notin DeskTokens /\ None \notin Desks
    /\ None \notin {"1p", "3p", "own", "ours"}
    /\ None \notin Menus /\ None \notin Profiles /\ None \notin DeskFiles
BY DeskAssumption, DeskAbsence DEF DeskAssumption, DeskAbsence

LEMMA AtRestTyped == AtRest \in DeskCommands /\ CommandInv(AtRest)
BY DEF AtRest, DeskCommands, CommandInv, Steps, Undoing

LEMMA DeskInitial == DeskInit => DeskInv
<1> SUFFICES ASSUME DeskInit PROVE DeskInv
  OBVIOUS
<1> USE DEF DeskInit
<1>1. files \in DeskFiles
  BY DEF DeskFiles, Modes
<1>2. desk \in [Desks -> DeskCommands] /\ \A c \in Desks : CommandInv(desk[c])
  BY AtRestTyped
<1> QED
  BY <1>1, <1>2, NoneIsNothing DEF DeskInv, DataInv, HolderInv, RestInv, CommandsInv, OpenIsNamed

----------------------------------------------------------------------------
(* The files *)

(* Every write and every undo leaves files the client could have.          *)
LEMMA WriteTyped ==
    ASSUME DeskInv, NEW c \in Desks, NEW at \in Steps, desk[c].at \in Steps
    PROVE  Written(files, at, c) \in DeskFiles
<1> DEFINE doing == desk[c]
<1>1. /\ files \in DeskFiles /\ doing \in DeskCommands
      /\ doing.op = "takeover" => doing.by \in DeskTokens
      /\ doing.menu \in Menus \union {None}
  BY DEF DeskInv, CommandsInv, CommandInv, DeskCommands
<1>2. CASE at = "normal"
  BY <1>1, <1>2 DEF Written, DeskFiles, Modes
<1>3. CASE at = "threep"
  BY <1>1, <1>3 DEF Written, DeskFiles, Modes
<1>4. CASE at = "profile"
  BY <1>1, <1>4 DEF Written, DeskFiles, Profiles
<1>5. CASE at = "meta"
  <2>1. ASSUME NEW op
        PROVE  WrittenMeta(files.meta, op)
                 \in [applied : {None, "own", "ours"}, entries : SUBSET {"own", "ours"}]
    BY <1>1 DEF WrittenMeta, DeskFiles
  <2> QED BY <1>1, <1>5, <2>1 DEF Written, DeskFiles
<1> QED BY <1>2, <1>3, <1>4, <1>5 DEF Steps

LEMMA UndoTyped ==
    ASSUME NEW f \in DeskFiles, NEW snap \in DeskFiles, NEW step \in Steps
    PROVE  [f EXCEPT ![step] = snap[step]] \in DeskFiles
<1>1. CASE step = "normal"
  BY <1>1 DEF DeskFiles
<1>2. CASE step = "threep"
  BY <1>2 DEF DeskFiles
<1>3. CASE step = "profile"
  BY <1>3 DEF DeskFiles
<1>4. CASE step = "meta"
  BY <1>4 DEF DeskFiles
<1> QED BY <1>1, <1>2, <1>3, <1>4 DEF Steps

----------------------------------------------------------------------------
(* The commands *)

LEMMA CommandReplaced ==
    ASSUME CommandsInv, NEW c \in Desks, NEW doing \in DeskCommands, CommandInv(doing),
           desk' = [desk EXCEPT ![c] = doing]
    PROVE  CommandsInv' /\ desk'[c] = doing /\ \A d \in Desks \ {c} : desk'[d] = desk[d]
BY DEF CommandsInv

LEMMA CommandStarted ==
    ASSUME CommandsInv, NEW doubt, doubt \subseteq {"files", "key"},
           NEW c \in Desks, NEW doing \in DeskCommands, CommandInv(doing), Started(c, doing, doubt)
    PROVE  /\ CommandsInv' /\ unsure' \subseteq {"files", "key"}
           /\ desk'[c].op = doing.op /\ \A d \in Desks \ {c} : desk'[d].op = desk[d].op
<1>1. ASSUME NEW k \in DeskCommands, NEW b \in BOOLEAN, CommandInv(k)
      PROVE  LET l == [k EXCEPT !.alone = b] IN l \in DeskCommands /\ l.op = k.op /\ CommandInv(l)
  BY <1>1 DEF DeskCommands, CommandInv
<1>2. ASSUME NEW d \in Desks
      PROVE  desk'[d] \in DeskCommands /\ CommandInv(desk'[d])
             /\ desk'[d].op = IF d = c THEN doing.op ELSE desk[d].op
  <2>1. /\ desk[d] \in DeskCommands /\ CommandInv(desk[d])
        /\ desk'[d] = IF d = c THEN [doing EXCEPT !.alone = (Busy = {})]
                      ELSE IF d \in Busy THEN [desk[d] EXCEPT !.alone = FALSE] ELSE desk[d]
    BY DEF CommandsInv, Started
  <2> QED BY <1>1, <2>1
<1>3. desk' = [d \in Desks |-> desk'[d]]
  BY DEF Started
<1>4. CommandsInv'
  BY <1>2, <1>3 DEF CommandsInv
<1>5. unsure' \subseteq {"files", "key"}
  BY DEF Started
<1> QED BY <1>2, <1>4, <1>5

LEMMA CommandMoved ==
    ASSUME CommandsInv, NEW c \in Desks, desk[c].at # "rest", NEW at,
           at \in Steps \union Undoing => desk[c].snap \in DeskFiles,
           at \in Steps \union Undoing \union {"filed", "mark"}, Move(c, at)
    PROVE  /\ CommandsInv' /\ \A d \in Desks : desk'[d].op = desk[d].op
<1> DEFINE doing == [desk[c] EXCEPT !.at = at]
<1>1. desk[c] \in DeskCommands /\ CommandInv(desk[c])
  BY DEF CommandsInv
<1>2. doing \in DeskCommands /\ CommandInv(doing) /\ doing.op = desk[c].op
  BY <1>1 DEF DeskCommands, CommandInv, Steps, Undoing
<1>3. desk' = [desk EXCEPT ![c] = doing]
  BY DEF Move
<1> HIDE DEF doing
<1> QED BY <1>2, <1>3, CommandReplaced

(* The order of the steps stays among them.                                *)
LEMMA NextStep ==
    \A at \in Steps : FollowedBy(at) \in Steps \union {"filed"} /\ UndoStep[at] \in Undoing
BY DEF Steps, FollowedBy, UndoStep, Undoing

----------------------------------------------------------------------------
(* One lemma per action *)

LEMMA PrepareKeeps ==
    ASSUME DeskInv, NEW c \in Desks, Prepare(c)
    PROVE  DeskInv'
<1>1. files \in DeskFiles /\ DataInv /\ HolderInv /\ RestInv /\ CommandsInv
  BY DEF DeskInv
<1>2. PICK k \in DeskKeys, t \in DeskTokens :
        /\ t = token \/ (token = None /\ opens[t] = None)
        /\ aliases' = [aliases EXCEPT ![k] = menu[k]]
        /\ \/ /\ token' = t /\ opens' = [opens EXCEPT ![t] = k]
              /\ Started(c, [AtRest EXCEPT !.op = "takeover", !.at = "snapshot",
                                           !.key = k, !.by = t, !.menu = <<k, menu[k]>>], unsure)
              /\ NoFail
           \/ /\ token' \in {token, t} /\ DeskFails
              /\ unsure' = {"files", "key"}
              /\ UNCHANGED <<opens, desk>>
  BY DEF Prepare
<1>3. UNCHANGED <<files, marked, menu, holder, uses>> /\ holder = None
  BY DEF Prepare, Free
<1>4. DataInv'
  <2>1. CASE token' = t /\ opens' = [opens EXCEPT ![t] = k]
    BY <1>1, <1>2, <1>3, <2>1, NoneIsNothing DEF DataInv, OpenIsNamed
  <2>2. CASE token' \in {token, t} /\ opens' = opens
    BY <1>1, <1>2, <1>3, <2>2, NoneIsNothing DEF DataInv, OpenIsNamed
  <2> QED BY <1>2, <2>1, <2>2
<1>5. HolderInv'
  BY <1>3, NoneIsNothing DEF HolderInv
<1> DEFINE doing == [AtRest EXCEPT !.op = "takeover", !.at = "snapshot",
                                 !.key = k, !.by = t, !.menu = <<k, menu[k]>>]
<1>6. doing \in DeskCommands /\ CommandInv(doing)
  <2>1. <<k, menu[k]>> \in Menus
    BY <1>1 DEF DataInv, Menus
  <2> QED BY <2>1 DEF AtRest, DeskCommands, CommandInv, Steps, Undoing
<1>7. CommandsInv' /\ RestInv'
  <2>1. CASE Started(c, doing, unsure) /\ NoFail
    <3> HIDE DEF doing
    <3> QED BY <1>1, <1>3, <1>6, <2>1, CommandStarted DEF RestInv, NoFail
  <2>2. CASE DeskFails /\ unsure' = {"files", "key"} /\ UNCHANGED desk
    BY <1>1, <1>3, <2>2 DEF CommandsInv, RestInv, DeskFails
  <2> QED BY <1>2, <2>1, <2>2
<1> QED BY <1>1, <1>3, <1>4, <1>5, <1>7 DEF DeskInv

(* What a refresh may do, whichever key it finds and whatever fails.       *)
LEMMA RefreshShape ==
    ASSUME DeskInv, NEW c \in Desks, NEW k \in DeskKeys, NEW save \in BOOLEAN,
           Refresh(c, k, save)
    PROVE  /\ desk[c].at = "rest" /\ holder = None /\ fails' \in Nat
           /\ UNCHANGED <<files, token, opens, marked, uses>>
           /\ menu' \in [DeskKeys -> Nat] /\ \A j \in DeskKeys : menu[j] <= menu'[j]
           /\ aliases' \in [DeskKeys -> Nat]
<1>1. DataInv /\ fails \in Nat
  BY DEF DeskInv, RestInv
<1>2. /\ desk[c].at = "rest" /\ holder = None
      /\ UNCHANGED <<files, token, opens, marked, uses>>
      /\ menu' = IF save THEN [menu EXCEPT ![k] = @ + 1] ELSE menu
  BY DEF Refresh, Free
<1>3. menu' \in [DeskKeys -> Nat] /\ \A j \in DeskKeys : menu[j] <= menu'[j]
  BY <1>1, <1>2 DEF DataInv
<1>4. fails' \in Nat
  BY <1>1 DEF Refresh, NoFail, DeskFails
<1>5. \/ aliases' = aliases
      \/ \E used \in Bound :
            aliases' = IF used = None THEN aliases ELSE [aliases EXCEPT ![used] = menu'[used]]
  BY DEF Refresh
<1>6. CASE aliases' = aliases
  BY <1>1, <1>2, <1>3, <1>4, <1>6 DEF DataInv
<1>7. ASSUME NEW used \in Bound,
             aliases' = IF used = None THEN aliases ELSE [aliases EXCEPT ![used] = menu'[used]]
      PROVE  aliases' \in [DeskKeys -> Nat]
  BY <1>1, <1>3, <1>7 DEF DataInv
<1> QED BY <1>2, <1>3, <1>4, <1>5, <1>6, <1>7

LEMMA RenewalTyped ==
    ASSUME DataInv, token # None, NEW m, m \in Menus \union {None}
    PROVE  /\ Renewal(m) \in DeskCommands /\ CommandInv(Renewal(m))
           /\ Renewal(m).op = "takeover" /\ Renewal(m).at = "snapshot" /\ Renewal(m).key = None
           /\ Renewal(m).by = token /\ Renewal(m).menu = m /\ Renewal(m).snap = None
BY DEF Renewal, DataInv, AtRest, DeskCommands, CommandInv, Steps, Undoing

LEMMA RefreshKeeps ==
    ASSUME DeskInv, NEW c \in Desks, NEW k \in DeskKeys, NEW save \in BOOLEAN,
           Refresh(c, k, save)
    PROVE  DeskInv'
<1>1. files \in DeskFiles /\ DataInv /\ HolderInv /\ RestInv /\ CommandsInv
  BY DEF DeskInv
<1>2. /\ holder = None /\ UNCHANGED <<files, token, opens, marked, uses>>
      /\ fails' \in Nat /\ menu' \in [DeskKeys -> Nat] /\ aliases' \in [DeskKeys -> Nat]
  BY RefreshShape
<1>3. DataInv'
  BY <1>1, <1>2 DEF DataInv, OpenIsNamed
<1>4. ASSUME NEW used \in DeskKeys \union {None}
      PROVE  MenuOf(used)' \in Menus \union {None}
  BY <1>2, <1>4 DEF MenuOf, Menus
<1>5. CASE UNCHANGED <<holder, desk, unsure>>
  <2>1. HolderInv' /\ RestInv' /\ CommandsInv'
    BY <1>1, <1>2, <1>5 DEF HolderInv, RestInv, CommandsInv
  <2> QED BY <1>1, <1>2, <1>3, <2>1 DEF DeskInv
<1>6. ASSUME NEW doubt, doubt \subseteq {"files", "key"}, holder' = holder, Started(c, AtRest, doubt)
      PROVE  DeskInv'
  <2>1. CommandsInv' /\ RestInv'
    BY <1>1, <1>2, <1>6, AtRestTyped, CommandStarted DEF RestInv
  <2>2. HolderInv'
    BY <1>2, <1>6, NoneIsNothing DEF HolderInv
  <2> QED BY <1>1, <1>2, <1>3, <2>1, <2>2 DEF DeskInv
<1>7. ASSUME NEW doubt, doubt \subseteq {"files", "key"}, NEW m, m \in Menus \union {None},
             token # None, holder' = c, Started(c, Renewal(m), doubt)
      PROVE  DeskInv'
  <2>1. CommandsInv' /\ RestInv' /\ desk'[c].op = "takeover"
    <3>1. Renewal(m) \in DeskCommands /\ CommandInv(Renewal(m)) /\ Renewal(m).op = "takeover"
      BY <1>1, <1>7, RenewalTyped
    <3>2. /\ CommandsInv' /\ unsure' \subseteq {"files", "key"}
          /\ desk'[c].op = "takeover"
      BY <1>1, <1>7, <3>1, CommandStarted
    <3> QED BY <1>1, <1>2, <3>2 DEF RestInv
  <2>2. HolderInv'
    BY <1>7, <2>1 DEF HolderInv
  <2> QED BY <1>1, <1>2, <1>3, <2>1, <2>2 DEF DeskInv
<1>8. unsure \subseteq {"files", "key"} /\ unsure \union {"key"} \subseteq {"files", "key"}
  BY <1>1 DEF RestInv
<1>9. Bound \subseteq DeskKeys \union {None} \/ token = None
  BY <1>1 DEF Bound, DataInv
<1>10. \/ UNCHANGED <<holder, desk, unsure>>
       \/ holder' = holder /\ Started(c, AtRest, unsure)
       \/ holder' = holder /\ Started(c, AtRest, unsure \union {"key"})
       \/ /\ token # None /\ holder' = c
          /\ \E used \in Bound : Started(c, Renewal(MenuOf(used)'), unsure)
       \/ token # None /\ holder' = c /\ Started(c, Renewal(None), unsure \union {"key"})
  BY DEF Refresh
<1>11. CASE token # None /\ holder' = c
            /\ \E used \in Bound : Started(c, Renewal(MenuOf(used)'), unsure)
  <2>1. PICK used \in DeskKeys \union {None} : Started(c, Renewal(MenuOf(used)'), unsure)
    BY <1>9, <1>11
  <2> QED BY <1>4, <1>7, <1>8, <1>11, <2>1
<1> QED BY <1>5, <1>6, <1>7, <1>8, <1>10, <1>11

LEMMA FilesKeep ==
    ASSUME DeskInv, NEW c \in Desks,
           Snapshot(c) \/ WriteFile(c) \/ FileFails(c) \/ Undo(c) \/ UndoFails(c)
    PROVE  DeskInv'
<1>1. files \in DeskFiles /\ DataInv /\ HolderInv /\ RestInv /\ CommandsInv
  BY DEF DeskInv
<1>2. desk[c] \in DeskCommands /\ CommandInv(desk[c])
  BY <1>1 DEF CommandsInv
<1>3. UNCHANGED <<token, opens, aliases, marked, menu, uses>> /\ DataInv'
  BY <1>1 DEF Snapshot, WriteFile, FileFails, Undo, UndoFails, DataInv, OpenIsNamed
<1>4. ASSUME holder' = holder, \A d \in Desks : desk'[d].op = desk[d].op
      PROVE  HolderInv'
  BY <1>1, <1>4 DEF HolderInv
<1>5. ASSUME desk' = [desk EXCEPT ![c] = AtRest],
             holder' = IF holder = c THEN None ELSE holder
      PROVE  HolderInv' /\ CommandsInv'
  <2>1. CommandsInv' /\ \A d \in Desks \ {c} : desk'[d] = desk[d]
    BY <1>1, <1>5, AtRestTyped, CommandReplaced
  <2>2. HolderInv'
    BY <1>1, <1>5, <2>1, NoneIsNothing DEF HolderInv
  <2> QED BY <2>1, <2>2
<1>6. CASE Snapshot(c)
  <2> DEFINE doing == [desk[c] EXCEPT !.at = "normal", !.snap = files]
  <2>1. doing \in DeskCommands /\ CommandInv(doing) /\ doing.op = desk[c].op
    BY <1>1, <1>2, <1>6 DEF Snapshot, DeskCommands, CommandInv, Steps, Undoing
  <2>2. desk' = [desk EXCEPT ![c] = doing] /\ UNCHANGED <<files, holder, unsure, fails>>
    BY <1>6 DEF Snapshot
  <2> HIDE DEF doing
  <2>3. CommandsInv' /\ \A d \in Desks : desk'[d].op = desk[d].op
    BY <1>1, <2>1, <2>2, CommandReplaced
  <2> QED BY <1>1, <1>3, <1>4, <2>2, <2>3 DEF DeskInv, RestInv
<1>7. CASE WriteFile(c)
  <2>1. /\ desk[c].at \in Steps /\ UNCHANGED <<holder, unsure, fails>>
        /\ Move(c, FollowedBy(desk[c].at)) /\ files' = Written(files, desk[c].at, c)
    BY <1>7 DEF WriteFile
  <2>2. /\ FollowedBy(desk[c].at) \in Steps \union Undoing \union {"filed", "mark"}
        /\ desk[c].snap \in DeskFiles /\ desk[c].at # "rest"
    BY <1>2, <2>1, NextStep DEF CommandInv, Steps
  <2>3. CommandsInv' /\ \A d \in Desks : desk'[d].op = desk[d].op
    BY <1>1, <2>1, <2>2, CommandMoved
  <2>4. files' \in DeskFiles
    BY <2>1, WriteTyped
  <2> QED BY <1>1, <1>3, <1>4, <2>1, <2>3, <2>4 DEF DeskInv, RestInv
<1>8. CASE FileFails(c)
  <2>1. /\ desk[c].at \in Steps /\ DeskFails /\ holder' = holder
        /\ Move(c, "undo_normal")
        /\ files' \in {files} \union {Written(files, "threep", c)}
        /\ unsure' \subseteq unsure \union {"key"}
    BY <1>8 DEF FileFails
  <2>2. desk[c].snap \in DeskFiles /\ desk[c].at # "rest"
    BY <1>2, <2>1 DEF CommandInv, Steps
  <2>3. CommandsInv' /\ \A d \in Desks : desk'[d].op = desk[d].op
    BY <1>1, <2>1, <2>2, CommandMoved DEF Undoing
  <2>4. files' \in DeskFiles
    BY <1>1, <2>1, WriteTyped DEF Steps
  <2>5. RestInv'
    BY <1>1, <1>3, <2>1 DEF RestInv, DeskFails
  <2> QED BY <1>3, <1>4, <2>1, <2>3, <2>4, <2>5 DEF DeskInv
<1>9. CASE Undo(c)
  <2>1. PICK step \in Steps :
          /\ desk[c].at = UndoStep[step]
          /\ files' = [files EXCEPT ![step] = desk[c].snap[step]]
          /\ IF step = "meta"
             THEN /\ desk' = [desk EXCEPT ![c] = AtRest]
                  /\ holder' = IF holder = c THEN None ELSE holder
             ELSE Move(c, UndoStep[FollowedBy(step)]) /\ UNCHANGED holder
          /\ UNCHANGED <<unsure, fails>>
    BY <1>9 DEF Undo
  <2>2. desk[c].snap \in DeskFiles /\ desk[c].at # "rest"
    BY <1>2, <2>1, NextStep DEF CommandInv, Undoing
  <2>3. files' \in DeskFiles
    BY <1>1, <2>1, <2>2, UndoTyped
  <2>4. CASE step = "meta"
    BY <1>1, <1>3, <1>5, <2>1, <2>3, <2>4 DEF DeskInv, RestInv
  <2>5. CASE step # "meta"
    <3>1. UndoStep[FollowedBy(step)] \in Undoing
      BY <2>5 DEF Steps, FollowedBy, UndoStep, Undoing
    <3>2. CommandsInv' /\ \A d \in Desks : desk'[d].op = desk[d].op
      BY <1>1, <2>1, <2>2, <2>5, <3>1, CommandMoved
    <3> QED BY <1>1, <1>3, <1>4, <2>1, <2>3, <2>5, <3>2 DEF DeskInv, RestInv
  <2> QED BY <2>4, <2>5
<1>10. CASE UndoFails(c)
  <2>1. files' = files /\ RestInv'
    BY <1>1, <1>3, <1>10 DEF UndoFails, DeskFails, RestInv
  <2>2. HolderInv' /\ CommandsInv'
    BY <1>5, <1>10 DEF UndoFails
  <2> QED BY <1>1, <1>3, <2>1, <2>2 DEF DeskInv
<1> QED BY <1>6, <1>7, <1>8, <1>9, <1>10

LEMMA EndsKeep ==
    ASSUME DeskInv, NEW c \in Desks,
           RestoreDesk(c) \/ Settle(c) \/ Close(c) \/ Mark(c)
    PROVE  DeskInv'
<1>1. files \in DeskFiles /\ DataInv /\ HolderInv /\ RestInv /\ CommandsInv
  BY DEF DeskInv
<1>2. desk[c] \in DeskCommands /\ CommandInv(desk[c])
  BY <1>1 DEF CommandsInv
<1>3. CASE RestoreDesk(c)
  <2> DEFINE doing == [AtRest EXCEPT !.op = "restore", !.at = "snapshot"]
  <2>1. doing \in DeskCommands /\ CommandInv(doing)
    BY DEF AtRest, DeskCommands, CommandInv, Steps, Undoing
  <2>2. /\ desk[c].at = "rest" /\ Started(c, doing, unsure)
        /\ UNCHANGED <<files, token, opens, aliases, marked, menu, holder, fails, uses>>
    BY <1>3 DEF RestoreDesk
  <2> HIDE DEF doing
  <2>3. /\ CommandsInv' /\ unsure' \subseteq {"files", "key"}
        /\ \A d \in Desks \ {c} : desk'[d].op = desk[d].op
    BY <1>1, <2>1, <2>2, CommandStarted DEF RestInv
  <2>4. holder # c
    BY <1>1, <1>2, <2>2 DEF HolderInv, CommandInv
  <2> QED BY <1>1, <2>2, <2>3, <2>4 DEF DeskInv, DataInv, HolderInv, RestInv, OpenIsNamed
<1>4. ASSUME desk' = [desk EXCEPT ![c] = AtRest]
      PROVE  CommandsInv'
  BY <1>1, <1>4, AtRestTyped, CommandReplaced
<1>5. CASE Settle(c)
  BY <1>1, <1>4, <1>5, NoneIsNothing
     DEF Settle, DeskInv, DataInv, HolderInv, RestInv, OpenIsNamed
<1>6. ASSUME holder = None, holder' = holder PROVE HolderInv'
  BY <1>6, NoneIsNothing DEF HolderInv
<1>7. CASE Close(c)
  <2>1. /\ holder = None /\ desk[c].at = "filed"
        /\ UNCHANGED <<files, aliases, marked, menu, holder, uses>>
    BY <1>7 DEF Close, Free
  <2>2. /\ Revoked \in [DeskTokens -> DeskKeys \union {None}]
        /\ \A t \in DeskTokens : Revoked[t] = None
    BY <1>1 DEF Revoked, DataInv, OpenIsNamed
  <2>3. CASE opens' = Revoked /\ token' = None /\ Move(c, "mark") /\ NoFail /\ UNCHANGED unsure
    <3>1. CommandsInv'
      BY <1>1, <2>1, <2>3, CommandMoved DEF Steps, Undoing
    <3> QED BY <1>1, <1>6, <2>1, <2>2, <2>3, <3>1 DEF DeskInv, DataInv, RestInv, OpenIsNamed, NoFail
  <2>4. CASE /\ \E left \in PartlyClosed : opens' = left[1] /\ token' = left[2]
             /\ DeskFails /\ unsure' = {"files", "key"}
             /\ desk' = [desk EXCEPT ![c] = AtRest]
    <3>1. token' = token /\ opens' \in {opens, Revoked}
      BY <2>4 DEF PartlyClosed
    <3>2. DataInv'
      BY <1>1, <2>1, <2>2, <3>1 DEF DataInv, OpenIsNamed
    <3> QED BY <1>1, <1>4, <1>6, <2>1, <2>4, <3>2 DEF DeskInv, RestInv, DeskFails
  <2> QED BY <1>7, <2>3, <2>4 DEF Close
<1>8. CASE Mark(c)
  <2>1. /\ holder = None /\ desk' = [desk EXCEPT ![c] = AtRest] /\ marked' = desk[c].key
        /\ UNCHANGED <<files, token, opens, aliases, menu, holder, fails, uses>>
        /\ unsure' \in {unsure, {}}
    BY <1>8 DEF Mark, Free
  <2>2. marked' \in DeskKeys \union {None}
    BY <1>2, <2>1 DEF DeskCommands
  <2> QED BY <1>1, <1>4, <1>6, <2>1, <2>2 DEF DeskInv, DataInv, RestInv, OpenIsNamed
<1> QED BY <1>3, <1>5, <1>7, <1>8

LEMMA WorldKeeps ==
    ASSUME DeskInv, DeskCrash \/ ApplyOwn
    PROVE  DeskInv'
<1>1. files \in DeskFiles /\ DataInv /\ HolderInv /\ RestInv /\ CommandsInv
  BY DEF DeskInv
<1>2. DataInv'
  BY <1>1 DEF DeskCrash, ApplyOwn, DataInv, OpenIsNamed
<1>3. CASE DeskCrash
  <2>1. CommandsInv' /\ HolderInv'
    BY <1>3, AtRestTyped, NoneIsNothing DEF DeskCrash, CommandsInv, HolderInv
  <2> QED BY <1>1, <1>2, <1>3, <2>1 DEF DeskInv, DeskCrash, DeskFails, RestInv
<1>4. CASE ApplyOwn
  <2>1. files' \in DeskFiles
    BY <1>1, <1>4 DEF ApplyOwn, DeskFiles
  <2>2. \A d \in Desks : desk'[d] = [desk[d] EXCEPT !.alone = FALSE]
    BY <1>4 DEF ApplyOwn
  <2>3. ASSUME NEW d \in Desks
        PROVE  desk'[d] \in DeskCommands /\ CommandInv(desk'[d]) /\ desk'[d].op = desk[d].op
    BY <1>1, <2>2 DEF CommandsInv, DeskCommands, CommandInv
  <2>4. CommandsInv' /\ HolderInv'
    BY <1>1, <1>4, <2>3 DEF ApplyOwn, CommandsInv, HolderInv
  <2> QED BY <1>1, <1>2, <1>4, <2>1, <2>4 DEF DeskInv, ApplyOwn, RestInv
<1> QED BY <1>3, <1>4

----------------------------------------------------------------------------
(* What a takeover and a restore promise.  A command that runs alone finds *)
(* on disk what it has written so far, and what the database said when it  *)
(* began; and when nothing is in doubt, what it may have to put back       *)
(* serves as well.                                                         *)

Opened == IF token = None THEN None ELSE opens[token]
Current(k) == k # None => aliases[k] = menu[k]

(* The files of a client that can work, and those of one whose key is the  *)
(* marked one and whose menu is the saved one.                             *)
FilesServe(f) ==
    f.meta.applied = "ours" =>
        /\ f.normal = "3p" /\ f.threep = "3p"
        /\ f.profile # None /\ f.profile.by = token /\ Opened # None
KeyServes(f) ==
    f.meta.applied = "ours" =>
        marked = Opened /\ f.profile.menu = MenuOf(Opened) /\ Current(Opened)

(* What a command has written when it comes to a step.                     *)
ModeOf(doing) == IF doing.op = "takeover" THEN "3p" ELSE "1p"
ProfileOf(doing) == IF doing.op = "takeover" THEN [by |-> doing.by, menu |-> doing.menu] ELSE None
MetaOf(doing, m) ==
    IF doing.op = "takeover" THEN m.applied = "ours" ELSE m.applied # "ours" /\ "ours" \notin m.entries
WrittenSoFar(doing, f) ==
    /\ doing.at \in {"threep", "profile", "meta", "filed", "mark"} => f.normal = ModeOf(doing)
    /\ doing.at \in {"profile", "meta", "filed", "mark"} => f.threep = ModeOf(doing)
    /\ doing.at \in {"meta", "filed", "mark"} => f.profile = ProfileOf(doing)
    /\ doing.at \in {"filed", "mark"} => MetaOf(doing, f.meta)
UndoneSoFar(doing, f) ==
    /\ doing.at \in {"undo_threep", "undo_profile", "undo_meta"} => f.normal = doing.snap.normal
    /\ doing.at \in {"undo_profile", "undo_meta"} => f.threep = doing.snap.threep
    /\ doing.at = "undo_meta" => f.profile = doing.snap.profile

(* What a takeover relies on in the database; one without a key of its own *)
(* is a refresh, and finds the key that is marked; the menu of one that    *)
(* began in doubt may be any.                                              *)
Prepared(doing) ==
    /\ token = doing.by
    /\ doing.key # None \/ unsure = {} => doing.menu = MenuOf(Opened) /\ Current(Opened)
    /\ doing.key # None => Opened = doing.key
    /\ doing.key = None =>
         /\ "files" \notin unsure => Opened # None
         /\ unsure = {} => marked = Opened

ToPutBack(doing, f) ==
    "files" \notin unsure =>
        /\ FilesServe(f)
        /\ doing.op = "restore" /\ unsure = {} => KeyServes(f)

AloneInv(doing) ==
    /\ WrittenSoFar(doing, files)
    /\ doing.op = "takeover" /\ doing.at \notin Undoing => Prepared(doing)
    /\ doing.op = "takeover" /\ doing.at \in Undoing => unsure # {}
    /\ doing.at = "snapshot" => ToPutBack(doing, files)
    /\ doing.at \in Steps \union Undoing => ToPutBack(doing, doing.snap)
    /\ doing.at \in Undoing => UndoneSoFar(doing, files)
    /\ doing.at = "mark" => doing.op = "restore" /\ \A t \in DeskTokens : opens[t] = None

(* No profile is ahead of the saved menu, and the user's profile is not    *)
(* left unapplied.                                                         *)
Saved(m) == m # None => m[2] <= menu[m[1]]
Sound(f) ==
    /\ f.profile # None => Saved(f.profile.menu)
    /\ "own" \in f.meta.entries => f.meta.applied # None

(* An overlap leaves everything in doubt, and nobody in it alone.          *)
OverlapInv ==
    /\ unsure \in {{}, {"key"}, {"files", "key"}}
    /\ \A c, d \in Busy : desk[c].alone => c = d
    /\ \A c \in Busy : ~desk[c].alone => "files" \in unsure
SoundInv ==
    /\ Sound(files)
    /\ \A c \in Desks : Saved(desk[c].menu) /\ (desk[c].snap # None => Sound(desk[c].snap))
KeylessInv == \A c \in Desks : holder = c => desk[c].key = None
InOrderInv == "files" \notin unsure => FilesServe(files) /\ (unsure = {} => KeyServes(files))

ServeInv ==
    /\ OverlapInv /\ SoundInv /\ KeylessInv
    /\ Busy = {} => InOrderInv
    /\ \A c \in Busy : desk[c].alone => AloneInv(desk[c])

LEMMA DeskInitServes == DeskInit => ServeInv
<1> SUFFICES ASSUME DeskInit PROVE ServeInv
  OBVIOUS
<1>1. Busy = {} /\ unsure = {} /\ \A c \in Desks : desk[c] = AtRest
  BY DEF DeskInit, Busy, AtRest
<1>2. files.profile = None /\ files.meta \in {[applied |-> None, entries |-> {}],
                                              [applied |-> "own", entries |-> {"own"}]}
  BY DEF DeskInit
<1>3. /\ files.meta.applied # "ours"
      /\ "own" \in files.meta.entries => files.meta.applied # None
  <2>1. CASE files.meta = [applied |-> None, entries |-> {}]
    BY <2>1, NoneIsNothing
  <2>2. CASE files.meta = [applied |-> "own", entries |-> {"own"}]
    BY <2>2, NoneIsNothing
  <2> QED BY <1>2, <2>1, <2>2
<1> QED
  BY <1>1, <1>2, <1>3, NoneIsNothing
     DEF ServeInv, OverlapInv, SoundInv, KeylessInv, InOrderInv, Sound, Saved, AtRest,
         FilesServe, KeyServes, DeskInit

(* A step of a command that is under way.  Whoever is not alone is in      *)
(* doubt already, so that only a command that is alone has to answer.      *)
LEMMA OwnStep ==
    ASSUME DeskInv, ServeInv, NEW c \in Busy, NEW doing,
           desk' = [desk EXCEPT ![c] = doing],
           doing.at = "rest" \/ doing.alone = desk[c].alone,
           unsure' \in {{}, {"key"}, {"files", "key"}},
           ~desk[c].alone /\ "files" \in unsure => "files" \in unsure',
           desk[c].alone /\ doing.at = "rest" => InOrderInv',
           desk[c].alone /\ doing.at # "rest" => AloneInv(desk[c])'
    PROVE  /\ OverlapInv'
           /\ (Busy = {} => InOrderInv)'
           /\ (\A d \in Busy : desk[d].alone => AloneInv(desk[d]))'
<1>1. /\ c \in Desks /\ desk'[c] = doing /\ \A d \in Desks \ {c} : desk'[d] = desk[d]
  BY DEF DeskInv, CommandsInv, Busy
<1>2. Busy' = IF doing.at = "rest" THEN Busy \ {c} ELSE Busy
  BY <1>1 DEF Busy
<1>3. CASE desk[c].alone
  <2>1. Busy = {c}
    BY <1>3 DEF ServeInv, OverlapInv
  <2>2. Busy' \subseteq {c}
    BY <1>2, <2>1
  <2>3. \A d \in Busy' : d = c /\ doing.at # "rest" /\ desk'[d].alone
    BY <1>1, <1>2, <1>3, <2>1
  <2>4. OverlapInv'
    BY <2>2, <2>3 DEF OverlapInv
  <2>5. Busy' = {} => InOrderInv'
    BY <1>2, <1>3, <2>1
  <2>6. ASSUME NEW d \in Busy' PROVE AloneInv(desk[d])'
    BY <1>3, <2>3, <2>6
  <2> QED BY <2>4, <2>5, <2>6
<1>4. CASE ~desk[c].alone
  <2>1. "files" \in unsure' /\ \A d \in Busy : ~desk[d].alone
    BY <1>4 DEF ServeInv, OverlapInv
  <2>2. \A d \in Busy' : ~desk'[d].alone
    BY <1>1, <1>2, <2>1
  <2> QED BY <2>1, <2>2 DEF OverlapInv, InOrderInv
<1> QED BY <1>3, <1>4

(* A command that begins.  Beside another it leaves neither alone.         *)
LEMMA BeginStep ==
    ASSUME DeskInv, ServeInv, NEW c \in Desks, desk[c].at = "rest", NEW doing,
           doing \in DeskCommands, NEW doubt, Started(c, doing, doubt),
           Busy = {} => doubt \in {{}, {"key"}, {"files", "key"}},
           Busy = {} /\ doing.at # "rest" /\ desk'[c] = [doing EXCEPT !.alone = TRUE] /\ unsure' = doubt =>
             AloneInv(desk[c])',
           Busy = {} /\ doing.at = "rest" /\ unsure' = doubt => InOrderInv'
    PROVE  /\ OverlapInv'
           /\ (Busy = {} => InOrderInv)'
           /\ (\A d \in Busy : desk[d].alone => AloneInv(desk[d]))'
<1>1. /\ desk'[c] = [doing EXCEPT !.alone = (Busy = {})]
      /\ \A d \in Desks \ {c} :
           desk'[d] = IF d \in Busy THEN [desk[d] EXCEPT !.alone = FALSE] ELSE desk[d]
      /\ unsure' = IF Busy = {} THEN doubt ELSE {"files", "key"}
  BY DEF Started
<1>2. c \notin Busy /\ Busy \subseteq Desks
  BY DEF Busy
<1>3. \A d \in Desks : desk[d] \in DeskCommands
  BY DEF DeskInv, CommandsInv
<1>4. ASSUME NEW d \in Desks \ {c}
      PROVE  desk'[d].at = desk[d].at /\ (d \in Busy => ~desk'[d].alone)
  <2>1. desk[d] \in DeskCommands /\ desk'[d] \in {desk[d], [desk[d] EXCEPT !.alone = FALSE]}
        /\ (d \in Busy => desk'[d] = [desk[d] EXCEPT !.alone = FALSE])
    BY <1>1, <1>3
  <2> QED BY <2>1 DEF DeskCommands
<1>5. desk'[c].at = doing.at /\ desk'[c].alone = (Busy = {})
  BY <1>1 DEF DeskCommands
<1>6. Busy' = IF doing.at = "rest" THEN Busy ELSE Busy \union {c}
  BY <1>2, <1>4, <1>5 DEF Busy
<1>7. CASE Busy = {} /\ doing.at # "rest"
  <2>1. Busy' = {c} /\ doing.at # "rest" /\ unsure' = doubt /\ desk'[c].alone
    BY <1>5, <1>6, <1>1, <1>7
  <2>2. desk'[c] = [doing EXCEPT !.alone = TRUE]
    BY <1>1, <1>7
  <2>3. AloneInv(desk[c])'
    BY <1>7, <2>1, <2>2
  <2>4. OverlapInv'
    BY <1>7, <2>1 DEF OverlapInv, ServeInv
  <2>5. ASSUME NEW d \in Busy' PROVE AloneInv(desk[d])'
    BY <2>1, <2>3, <2>5
  <2> QED BY <2>1, <2>4, <2>5
<1>9. CASE Busy = {} /\ doing.at = "rest"
  <2>1. Busy' = {} /\ unsure' = doubt /\ doubt \in {{}, {"key"}, {"files", "key"}}
    BY <1>1, <1>6, <1>9
  <2> QED BY <1>9, <2>1 DEF OverlapInv
<1>8. CASE Busy # {}
  <2>1. unsure' = {"files", "key"} /\ \A d \in Busy' : ~desk'[d].alone
    BY <1>1, <1>2, <1>4, <1>5, <1>6, <1>8
  <2> QED BY <2>1 DEF OverlapInv, InOrderInv
<1> QED BY <1>7, <1>8, <1>9

(* Sound files stay so: a menu only grows, and a command carries what it   *)
(* was given.                                                              *)
LEMMA SoundBegins ==
    ASSUME DeskInv, SoundInv, KeylessInv, NEW c \in Desks, NEW doing \in DeskCommands,
           NEW doubt, Started(c, doing, doubt), files' = files,
           \A k \in DeskKeys : menu[k] <= menu'[k], menu' \in [DeskKeys -> Nat],
           doing.menu # None => doing.menu[2] <= menu'[doing.menu[1]], doing.snap = None,
           holder' \in {holder, c}, doing.key = None \/ holder' = None
    PROVE  SoundInv' /\ KeylessInv'
<1>1. /\ files \in DeskFiles /\ menu \in [DeskKeys -> Nat]
      /\ \A d \in Desks : desk[d] \in DeskCommands
  BY DEF DeskInv, DataInv, CommandsInv
<1>2. ASSUME NEW m \in Menus \union {None}, m # None => m[2] <= menu[m[1]]
      PROVE  m # None => m[2] <= menu'[m[1]]
  BY <1>1, <1>2 DEF Menus
<1>3. ASSUME NEW f \in DeskFiles, Sound(f)
      PROVE  /\ f.profile # None /\ f.profile.menu # None =>
                  f.profile.menu[2] <= menu'[f.profile.menu[1]]
             /\ "own" \in f.meta.entries => f.meta.applied # None
  <2>1. f.profile # None => f.profile.menu \in Menus \union {None}
    BY DEF DeskFiles, Profiles
  <2> QED BY <1>2, <1>3, <2>1 DEF Sound, Saved
<1>4. ASSUME NEW d \in Desks \ {c}
      PROVE  /\ desk'[d].menu = desk[d].menu /\ desk'[d].snap = desk[d].snap
             /\ desk'[d].key = desk[d].key
  <2>1. desk[d] \in DeskCommands /\ desk'[d] \in {desk[d], [desk[d] EXCEPT !.alone = FALSE]}
    BY <1>1 DEF Started
  <2> QED BY <2>1 DEF DeskCommands
<1>5. desk'[c].menu = doing.menu /\ desk'[c].snap = None /\ desk'[c].key = doing.key
  BY DEF Started, DeskCommands
<1>6. Sound(files)'
  BY <1>1, <1>3 DEF SoundInv, Sound, Saved
<1>7. ASSUME NEW d \in Desks
      PROVE  /\ desk'[d].menu # None => desk'[d].menu[2] <= menu'[desk'[d].menu[1]]
             /\ desk'[d].snap # None =>
                  LET f == desk'[d].snap IN
                  /\ f.profile # None /\ f.profile.menu # None =>
                       f.profile.menu[2] <= menu'[f.profile.menu[1]]
                  /\ "own" \in f.meta.entries => f.meta.applied # None
  <2>1. CASE d = c
    BY <1>5, <2>1
  <2>2. CASE d # c
    <3>1. /\ desk[d].menu \in Menus \union {None} /\ desk[d].snap \in DeskFiles \union {None}
          /\ desk'[d].menu = desk[d].menu /\ desk'[d].snap = desk[d].snap
      BY <1>1, <1>4, <2>2 DEF DeskCommands
    <3>2. /\ desk[d].menu # None => desk[d].menu[2] <= menu[desk[d].menu[1]]
          /\ desk[d].snap # None => Sound(desk[d].snap)
      BY DEF SoundInv, Saved
    <3>3. desk[d].menu # None => desk[d].menu[2] <= menu'[desk[d].menu[1]]
      BY <1>2, <3>1, <3>2
    <3>4. desk[d].snap # None =>
            LET f == desk[d].snap IN
            /\ f.profile # None /\ f.profile.menu # None =>
                 f.profile.menu[2] <= menu'[f.profile.menu[1]]
            /\ "own" \in f.meta.entries => f.meta.applied # None
      BY <1>3, <3>1, <3>2
    <3> QED BY <3>1, <3>3, <3>4
  <2> QED BY <2>1, <2>2
<1>8. SoundInv'
  BY <1>6, <1>7 DEF SoundInv, Sound, Saved
<1>9. KeylessInv'
  BY <1>4, <1>5, NoneIsNothing DEF KeylessInv
<1> QED BY <1>8, <1>9

LEMMA SoundStep ==
    ASSUME DeskInv, SoundInv, KeylessInv, NEW c \in Desks, NEW doing,
           desk' = [desk EXCEPT ![c] = doing], menu' = menu, Sound(files)',
           doing.menu \in {desk[c].menu, None}, doing.snap \in {desk[c].snap, files, None},
           doing.key \in {desk[c].key, None}, holder' \in {holder, None}
    PROVE  SoundInv' /\ KeylessInv'
<1>1. desk'[c] = doing /\ \A d \in Desks \ {c} : desk'[d] = desk[d]
  BY DEF DeskInv, CommandsInv
<1>2. ASSUME NEW d \in Desks
      PROVE  /\ desk'[d].menu # None => desk'[d].menu[2] <= menu[desk'[d].menu[1]]
             /\ desk'[d].snap # None => Sound(desk'[d].snap)
  <2>1. CASE d = c
    BY <1>1, <2>1 DEF SoundInv, Saved
  <2>2. CASE d # c
    BY <1>1, <2>2 DEF SoundInv, Saved
  <2> QED BY <2>1, <2>2
<1>3. SoundInv'
  BY <1>2 DEF SoundInv, Sound, Saved
<1>4. KeylessInv'
  BY <1>1, NoneIsNothing DEF KeylessInv
<1> QED BY <1>3, <1>4

LEMMA PrepareServes ==
    ASSUME DeskInv, ServeInv, NEW c \in Desks, Prepare(c)
    PROVE  ServeInv'
<1>1. /\ files \in DeskFiles /\ DataInv /\ CommandsInv
      /\ OverlapInv /\ SoundInv /\ KeylessInv
  BY DEF DeskInv, ServeInv
<1>2. PICK k \in DeskKeys, t \in DeskTokens :
        /\ t = token \/ (token = None /\ opens[t] = None)
        /\ aliases' = [aliases EXCEPT ![k] = menu[k]]
        /\ \/ /\ token' = t /\ opens' = [opens EXCEPT ![t] = k]
              /\ Started(c, [AtRest EXCEPT !.op = "takeover", !.at = "snapshot",
                                           !.key = k, !.by = t, !.menu = <<k, menu[k]>>], unsure)
              /\ NoFail
           \/ /\ token' \in {token, t} /\ DeskFails
              /\ unsure' = {"files", "key"}
              /\ UNCHANGED <<opens, desk>>
  BY DEF Prepare
<1>3. UNCHANGED <<files, marked, menu, holder, uses>> /\ holder = None /\ desk[c].at = "rest"
  BY DEF Prepare, Free
<1> DEFINE doing == [AtRest EXCEPT !.op = "takeover", !.at = "snapshot",
                                 !.key = k, !.by = t, !.menu = <<k, menu[k]>>]
<1>4. aliases \in [DeskKeys -> Nat] /\ menu \in [DeskKeys -> Nat]
      /\ opens \in [DeskTokens -> DeskKeys \union {None}]
  BY <1>1 DEF DataInv
<1>5. CASE token' = t /\ opens' = [opens EXCEPT ![t] = k] /\ Started(c, doing, unsure)
  <2>1. doing \in DeskCommands
    <3>1. <<k, menu[k]>> \in Menus
      BY <1>4 DEF Menus
    <3> QED BY <3>1 DEF AtRest, DeskCommands
  <2>2. /\ doing.op = "takeover" /\ doing.at = "snapshot" /\ doing.key = k /\ doing.by = t
        /\ doing.menu = <<k, menu[k]>> /\ doing.snap = None
    BY DEF AtRest
  <2>3. Opened' = k /\ token' # None /\ k # None
    BY <1>4, <1>5, NoneIsNothing DEF Opened
  <2>4. ASSUME Busy = {}, desk'[c] = [doing EXCEPT !.alone = TRUE], unsure' = unsure
        PROVE  AloneInv(desk[c])'
    <3>1. /\ desk'[c].op = "takeover" /\ desk'[c].at = "snapshot" /\ desk'[c].key = k
          /\ desk'[c].by = t /\ desk'[c].menu = <<k, menu[k]>>
      BY <2>1, <2>2, <2>4 DEF DeskCommands
    <3>2. Prepared(desk[c])'
      BY <1>2, <1>3, <1>4, <1>5, <2>3, <3>1 DEF Prepared, MenuOf, Current
    <3>3. ToPutBack(desk[c], files)'
      <4>1. "files" \notin unsure => FilesServe(files)
        BY <2>4 DEF ServeInv, InOrderInv
      <4>2. "files" \notin unsure => FilesServe(files)'
        BY <1>2, <1>3, <1>5, <2>3, <4>1 DEF FilesServe, Opened
      <4> QED BY <2>4, <3>1, <4>2 DEF ToPutBack
    <3> QED BY <3>1, <3>2, <3>3 DEF AloneInv, WrittenSoFar, Undoing, Steps
  <2> HIDE DEF doing
  <2>5. /\ OverlapInv' /\ (Busy = {} => InOrderInv)'
        /\ (\A d \in Busy : desk[d].alone => AloneInv(desk[d]))'
    <3>1. unsure \in {{}, {"key"}, {"files", "key"}} /\ doing.at # "rest"
      BY <1>1, <2>2 DEF OverlapInv
    <3> QED BY <1>3, <1>5, <2>1, <2>4, <3>1, BeginStep
  <2>6. SoundInv' /\ KeylessInv'
    BY <1>1, <1>3, <1>4, <1>5, <2>1, <2>2, SoundBegins
  <2> QED BY <2>5, <2>6 DEF ServeInv
<1>6. CASE token' \in {token, t} /\ unsure' = {"files", "key"} /\ UNCHANGED <<opens, desk>>
  <2>1. Busy' = Busy
    BY <1>6 DEF Busy
  <2>2. OverlapInv' /\ SoundInv' /\ KeylessInv' /\ (Busy = {} => InOrderInv)'
    BY <1>1, <1>3, <1>6, <2>1
       DEF OverlapInv, SoundInv, KeylessInv, InOrderInv, Sound, Saved
  <2>3. ASSUME NEW d \in Busy', desk'[d].alone PROVE AloneInv(desk[d])'
    <3>1. AloneInv(desk[d]) /\ desk'[d] = desk[d]
      BY <1>6, <2>1, <2>3 DEF ServeInv
    <3>2. d \in Desks /\ (desk[d].op = "takeover" => desk[d].by \in DeskTokens)
      BY <1>1, <2>1 DEF Busy, CommandsInv, CommandInv
    <3>3. ASSUME desk[d].op = "takeover", desk[d].at \notin Undoing PROVE Prepared(desk[d])'
      <4>1. Prepared(desk[d]) /\ token' = token /\ token # None
        BY <1>2, <1>6, <3>1, <3>2, <3>3, NoneIsNothing DEF AloneInv, Prepared
      <4>2. Opened' = Opened /\ Opened \in DeskKeys \union {None}
        BY <1>1, <1>6, <4>1 DEF Opened, DataInv
      <4>3. Current(Opened) => Current(Opened)'
        BY <1>2, <1>3, <1>4, <4>2 DEF Current
      <4>4. MenuOf(Opened)' = MenuOf(Opened)
        BY <1>3, <4>2 DEF MenuOf
      <4> QED BY <1>6, <3>1, <4>1, <4>2, <4>3, <4>4 DEF Prepared
    <3> QED
      BY <1>3, <1>6, <3>1, <3>3
         DEF AloneInv, WrittenSoFar, ModeOf, ProfileOf, MetaOf, UndoneSoFar, ToPutBack
  <2> QED BY <2>2, <2>3 DEF ServeInv
<1> QED BY <1>2, <1>5, <1>6

(* What the files, a command that is alone and the database agree on does  *)
(* not change while the opened key and its menu stay as they are.          *)
LEMMA SteadyServes ==
    ASSUME ServeInv,
           UNCHANGED <<files, token, opens, marked, holder, desk, unsure>>,
           MenuOf(Opened)' = MenuOf(Opened), Current(Opened) => Current(Opened)'
    PROVE  /\ OverlapInv' /\ KeylessInv' /\ (Busy = {} => InOrderInv)'
           /\ (\A d \in Busy : desk[d].alone => AloneInv(desk[d]))'
<1>1. Busy' = Busy /\ Opened' = Opened
  BY DEF Busy, Opened
<1>2. OverlapInv' /\ KeylessInv'
  BY <1>1 DEF ServeInv, OverlapInv, KeylessInv
<1>3. InOrderInv => InOrderInv'
  BY <1>1 DEF InOrderInv, FilesServe, KeyServes
<1>4. ASSUME NEW d \in Busy, AloneInv(desk[d])
      PROVE  AloneInv(desk[d])'
  <2>1. Prepared(desk[d]) => Prepared(desk[d])'
    BY <1>1 DEF Prepared
  <2>2. ToPutBack(desk[d], files) => ToPutBack(desk[d], files)'
    BY <1>1 DEF ToPutBack, FilesServe, KeyServes
  <2>3. ToPutBack(desk[d], desk[d].snap) => ToPutBack(desk[d], desk[d].snap)'
    BY <1>1 DEF ToPutBack, FilesServe, KeyServes
  <2> QED
    BY <1>4, <2>1, <2>2, <2>3
       DEF AloneInv, WrittenSoFar, ModeOf, ProfileOf, MetaOf, UndoneSoFar
<1> QED BY <1>1, <1>2, <1>3, <1>4 DEF ServeInv

LEMMA SoundGrows ==
    ASSUME DeskInv, SoundInv, UNCHANGED <<files, desk>>, menu' \in [DeskKeys -> Nat],
           \A k \in DeskKeys : menu[k] <= menu'[k]
    PROVE  SoundInv'
<1>1. /\ files \in DeskFiles /\ menu \in [DeskKeys -> Nat]
      /\ \A d \in Desks : /\ desk[d].menu \in Menus \union {None}
                          /\ desk[d].snap # None => desk[d].snap \in DeskFiles
  BY DEF DeskInv, DataInv, CommandsInv, DeskCommands
<1>2. ASSUME NEW m \in Menus \union {None}, m # None => m[2] <= menu[m[1]]
      PROVE  m # None => m[2] <= menu'[m[1]]
  BY <1>1, <1>2 DEF Menus
<1>3. ASSUME NEW f \in DeskFiles, Sound(f)
      PROVE  f.profile # None /\ f.profile.menu # None =>
                f.profile.menu[2] <= menu'[f.profile.menu[1]]
  <2>1. f.profile # None => f.profile.menu \in Menus \union {None}
    BY DEF DeskFiles, Profiles
  <2> QED BY <1>2, <1>3, <2>1 DEF Sound, Saved
<1> QED BY <1>1, <1>2, <1>3 DEF SoundInv, Sound, Saved

(* A refresh that begins to rewrite the profile: with the menu of the key  *)
(* the token opens unless something is in doubt.                           *)
LEMMA RenewServes ==
    ASSUME DeskInv, ServeInv, NEW c \in Desks, NEW k \in DeskKeys, NEW save \in BOOLEAN,
           Refresh(c, k, save), token # None, holder' = c,
           NEW m, m \in Menus \union {None}, m # None => m[2] <= menu'[m[1]],
           NEW doubt, doubt \in {unsure, unsure \union {"key"}}, Started(c, Renewal(m), doubt),
           doubt = {} /\ Opened # None => m = MenuOf(Opened)' /\ Current(Opened)',
           files.meta.applied = "ours"
    PROVE  ServeInv'
<1>1. /\ DataInv /\ SoundInv /\ KeylessInv /\ unsure \in {{}, {"key"}, {"files", "key"}}
  BY DEF DeskInv, ServeInv, OverlapInv
<1>2. /\ desk[c].at = "rest" /\ holder = None
      /\ UNCHANGED <<files, token, opens, marked>>
      /\ menu' \in [DeskKeys -> Nat] /\ \A j \in DeskKeys : menu[j] <= menu'[j]
  BY RefreshShape
<1> DEFINE doing == Renewal(m)
<1>3. /\ doing \in DeskCommands /\ doing.op = "takeover" /\ doing.at = "snapshot"
      /\ doing.key = None /\ doing.by = token /\ doing.menu = m /\ doing.snap = None
  BY <1>1, RenewalTyped
<1>4. Opened' = Opened
  BY <1>2 DEF Opened
<1> HIDE DEF doing
<1>5. ASSUME Busy = {}, desk'[c] = [doing EXCEPT !.alone = TRUE], unsure' = doubt
      PROVE  AloneInv(desk[c])'
  <2>1. /\ desk'[c].op = "takeover" /\ desk'[c].at = "snapshot" /\ desk'[c].key = None
        /\ desk'[c].by = token /\ desk'[c].menu = m
    BY <1>3, <1>5 DEF DeskCommands
  <2>2. InOrderInv
    BY <1>5 DEF ServeInv
  <2>3. /\ "files" \notin unsure' => "files" \notin unsure /\ Opened # None
        /\ unsure' = {} => unsure = {} /\ marked = Opened
    BY <1>5, <2>2 DEF InOrderInv, FilesServe, KeyServes
  <2>4. Prepared(desk[c])'
    <3>1. unsure' = {} => desk'[c].menu = MenuOf(Opened)' /\ Current(Opened)'
      BY <1>5, <2>1, <2>3
    <3> QED BY <1>2, <1>4, <2>1, <2>3, <3>1 DEF Prepared
  <2>5. ToPutBack(desk[c], files)'
    BY <1>2, <1>4, <2>1, <2>2, <2>3 DEF ToPutBack, InOrderInv, FilesServe
  <2> QED BY <2>1, <2>4, <2>5 DEF AloneInv, WrittenSoFar, Undoing, Steps
<1>6. Started(c, doing, doubt)
  BY DEF doing
<1>7. SoundInv' /\ KeylessInv'
  BY <1>1, <1>2, <1>3, <1>6, SoundBegins
<1>8. /\ OverlapInv' /\ (Busy = {} => InOrderInv)'
      /\ (\A d \in Busy : desk[d].alone => AloneInv(desk[d]))'
  <2>1. doubt \in {{}, {"key"}, {"files", "key"}}
    BY <1>1
  <2> QED BY <1>2, <1>3, <1>5, <1>6, <2>1, BeginStep
<1> QED BY <1>7, <1>8 DEF ServeInv

(* One that writes no profile: it failed, or cc-use's is not applied.      *)
LEMMA PassedOver ==
    ASSUME DeskInv, ServeInv, NEW c \in Desks, NEW k \in DeskKeys, NEW save \in BOOLEAN,
           Refresh(c, k, save), holder' = holder,
           NEW doubt, Started(c, AtRest, doubt),
           Busy # {} \/ doubt = unsure \union {"key"}
    PROVE  ServeInv'
<1>1. /\ SoundInv /\ KeylessInv /\ unsure \in {{}, {"key"}, {"files", "key"}}
  BY DEF ServeInv, OverlapInv
<1>2. /\ desk[c].at = "rest" /\ holder = None
      /\ UNCHANGED <<files, token, opens, marked>>
      /\ menu' \in [DeskKeys -> Nat] /\ \A j \in DeskKeys : menu[j] <= menu'[j]
  BY RefreshShape
<1>3. /\ AtRest \in DeskCommands /\ AtRest.at = "rest" /\ AtRest.menu = None
      /\ AtRest.snap = None /\ AtRest.key = None
  BY AtRestTyped DEF AtRest
<1>4. SoundInv' /\ KeylessInv'
  BY <1>1, <1>2, <1>3, SoundBegins
<1>5. ASSUME Busy = {}, unsure' = doubt PROVE InOrderInv'
  <2>1. InOrderInv /\ unsure' = unsure \union {"key"}
    BY <1>5 DEF ServeInv
  <2> QED BY <1>2, <2>1 DEF InOrderInv, FilesServe, Opened
<1>6. Busy = {} => doubt \in {{}, {"key"}, {"files", "key"}}
  BY <1>1
<1>7. /\ OverlapInv' /\ (Busy = {} => InOrderInv)'
      /\ (\A d \in Busy : desk[d].alone => AloneInv(desk[d]))'
  BY <1>2, <1>3, <1>5, <1>6, BeginStep
<1> QED BY <1>4, <1>7 DEF ServeInv

LEMMA RefreshServes ==
    ASSUME DeskInv, ServeInv, NEW c \in Desks, NEW k \in DeskKeys, NEW save \in BOOLEAN,
           Refresh(c, k, save)
    PROVE  ServeInv'
<1>1. /\ files \in DeskFiles /\ DataInv /\ CommandsInv
      /\ OverlapInv /\ SoundInv /\ KeylessInv
      /\ opens \in [DeskTokens -> DeskKeys \union {None}] /\ token \in DeskTokens \union {None}
      /\ aliases \in [DeskKeys -> Nat] /\ menu \in [DeskKeys -> Nat]
  BY DEF DeskInv, ServeInv, DataInv
<1>2. /\ desk[c].at = "rest" /\ holder = None
      /\ UNCHANGED <<files, token, opens, marked>>
      /\ menu' = IF save THEN [menu EXCEPT ![k] = @ + 1] ELSE menu
  BY DEF Refresh, Free
<1>3. /\ menu' \in [DeskKeys -> Nat] /\ \A j \in DeskKeys : menu[j] <= menu'[j]
  BY RefreshShape
<1>4. Opened \in DeskKeys \union {None} /\ Opened' = Opened
  BY <1>1, <1>2 DEF Opened
<1>5. ASSUME files.meta.applied # "ours" \/ token = None, aliases' = aliases, holder' = holder,
             IF save /\ Busy # {} THEN Started(c, AtRest, unsure) ELSE UNCHANGED <<desk, unsure>>
      PROVE  ServeInv'
  <2>1. CASE save /\ Busy # {}
    BY <1>5, <2>1, PassedOver
  <2>2. CASE ~(save /\ Busy # {})
    <3>1. UNCHANGED <<desk, unsure>> /\ Busy' = Busy
      BY <1>5, <2>2 DEF Busy
    <3>2. SoundInv'
      BY <1>1, <1>2, <1>3, <3>1, SoundGrows
    <3>3. CASE Busy = {}
      <4>1. InOrderInv'
        <5>1. ASSUME "files" \notin unsure PROVE files.meta.applied # "ours"
          BY <1>5, <3>3, <5>1 DEF ServeInv, InOrderInv, FilesServe, Opened
        <5> QED BY <1>2, <3>1, <5>1 DEF InOrderInv, FilesServe, KeyServes
      <4>2. OverlapInv' /\ KeylessInv'
        BY <1>1, <1>5, <3>1 DEF OverlapInv, KeylessInv
      <4> QED BY <3>1, <3>2, <3>3, <4>1, <4>2 DEF ServeInv
    <3>4. CASE Busy # {}
      <4>1. menu' = menu
        BY <1>2, <2>2, <3>4
      <4>2. MenuOf(Opened)' = MenuOf(Opened) /\ (Current(Opened) => Current(Opened)')
        BY <1>4, <1>5, <4>1 DEF MenuOf, Current
      <4> QED BY <1>2, <1>5, <3>1, <3>2, <4>2, SteadyServes DEF ServeInv
    <3> QED BY <3>3, <3>4
  <2> QED BY <2>1, <2>2
<1>6. ASSUME files.meta.applied = "ours", token # None, NEW used \in Bound,
             aliases' = IF used = None THEN aliases ELSE [aliases EXCEPT ![used] = menu'[used]],
             IF Shows(MenuOf(used)') THEN UNCHANGED <<desk, unsure, holder>>
             ELSE holder' = c /\ Started(c, Renewal(MenuOf(used)'), unsure)
      PROVE  ServeInv'
  <2> DEFINE now == MenuOf(used)'
  <2>1. used \in DeskKeys \union {None} /\ (Opened # None => used = Opened)
    BY <1>1, <1>6 DEF Bound, Opened
  <2>2. /\ now \in Menus \union {None} /\ (now # None => now[2] <= menu'[now[1]])
        /\ used # None => now # None /\ now[1] = used /\ now[2] = menu'[used]
    BY <1>3, <2>1, NoneIsNothing DEF MenuOf, Menus
  <2>3. Current(Opened)' /\ (Opened # None => now = MenuOf(Opened)')
    BY <1>1, <1>3, <1>4, <1>6, <2>1 DEF Current
  <2>4. CASE Shows(MenuOf(used)')
    <3>1. Opened # None => menu'[Opened] <= menu[Opened]
      <4>1. files.profile # None /\ files.profile.menu = now
        BY <2>4 DEF Shows
      <4>2. now = None \/ now[2] <= menu[now[1]]
        BY <1>1, <4>1 DEF SoundInv, Sound, Saved
      <4> HIDE DEF now
      <4> QED BY <2>1, <2>2, <4>2
    <3>2. MenuOf(Opened)' = MenuOf(Opened)
      <4>1. CASE Opened = None
        BY <1>4, <4>1 DEF MenuOf
      <4>2. CASE Opened # None
        <5>1. menu'[Opened] \in Nat /\ menu[Opened] \in Nat /\ menu[Opened] <= menu'[Opened]
          BY <1>1, <1>3, <1>4, <4>2
        <5>2. menu'[Opened] = menu[Opened]
          BY <3>1, <4>2, <5>1
        <5> QED BY <1>4, <4>2, <5>2 DEF MenuOf
      <4> QED BY <4>1, <4>2
    <3>3. UNCHANGED <<desk, unsure, holder>>
      BY <1>6, <2>4
    <3>4. SoundInv'
      BY <1>1, <1>2, <1>3, <3>3, SoundGrows
    <3> HIDE DEF now
    <3> QED BY <1>2, <2>3, <3>2, <3>3, <3>4, SteadyServes DEF ServeInv
  <2>5. CASE ~Shows(MenuOf(used)')
    <3>1. holder' = c /\ Started(c, Renewal(now), unsure)
      BY <1>6, <2>5
    <3> HIDE DEF now
    <3> QED BY <1>6, <2>2, <2>3, <3>1, RenewServes
  <2> QED BY <2>4, <2>5
<1>7. ASSUME files.meta.applied = "ours", token # None,
             Started(c, AtRest, unsure \union {"key"}), holder' = holder
      PROVE  ServeInv'
  BY <1>7, PassedOver
<1>8. ASSUME files.meta.applied = "ours", token # None,
             Started(c, Renewal(None), unsure \union {"key"}), holder' = c
      PROVE  ServeInv'
  BY <1>8, RenewServes
<1> QED BY <1>5, <1>6, <1>7, <1>8 DEF Refresh

LEMMA RestoreServes ==
    ASSUME DeskInv, ServeInv, NEW c \in Desks, RestoreDesk(c)
    PROVE  ServeInv'
<1> DEFINE doing == [AtRest EXCEPT !.op = "restore", !.at = "snapshot"]
<1>1. /\ desk[c].at = "rest" /\ Started(c, doing, unsure)
      /\ UNCHANGED <<files, token, opens, aliases, marked, menu, holder, fails, uses>>
  BY DEF RestoreDesk
<1>2. /\ doing \in DeskCommands /\ doing.op = "restore" /\ doing.at = "snapshot" /\ doing.key = None
      /\ doing.menu = None /\ doing.snap = None
  BY DEF AtRest, DeskCommands
<1>3. menu \in [DeskKeys -> Nat] /\ \A k \in DeskKeys : menu[k] <= menu[k]
  BY DEF DeskInv, DataInv
<1>4. ASSUME Busy = {}, desk'[c] = [doing EXCEPT !.alone = TRUE], unsure' = unsure
      PROVE  AloneInv(desk[c])'
  <2>1. desk'[c].op = "restore" /\ desk'[c].at = "snapshot"
    BY <1>2, <1>4 DEF DeskCommands
  <2>2. InOrderInv
    BY <1>4 DEF ServeInv
  <2>3. ToPutBack(desk[c], files)'
    BY <1>1, <1>4, <2>2 DEF ToPutBack, InOrderInv, FilesServe, KeyServes, Opened, MenuOf, Current
  <2> QED BY <2>1, <2>3 DEF AloneInv, WrittenSoFar, Undoing, Steps
<1> HIDE DEF doing
<1>5. SoundInv' /\ KeylessInv'
  BY <1>1, <1>2, <1>3, SoundBegins DEF ServeInv
<1>6. /\ OverlapInv' /\ (Busy = {} => InOrderInv)'
      /\ (\A d \in Busy : desk[d].alone => AloneInv(desk[d]))'
  <2>1. unsure \in {{}, {"key"}, {"files", "key"}} /\ doing.at # "rest"
    BY <1>2 DEF ServeInv, OverlapInv
  <2> QED BY <1>1, <1>2, <1>4, <2>1, BeginStep
<1> QED BY <1>5, <1>6 DEF ServeInv

LEMMA SnapshotServes ==
    ASSUME DeskInv, ServeInv, NEW c \in Desks, Snapshot(c)
    PROVE  ServeInv'
<1> DEFINE doing == [desk[c] EXCEPT !.at = "normal", !.snap = files]
<1>1. /\ desk[c].at = "snapshot" /\ desk' = [desk EXCEPT ![c] = doing]
      /\ UNCHANGED <<files, token, opens, aliases, marked, menu, holder, unsure>>
  BY DEF Snapshot
<1>2. desk[c] \in DeskCommands
  BY DEF DeskInv, CommandsInv
<1>3. /\ doing.at = "normal" /\ doing.snap = files /\ doing.op = desk[c].op /\ doing.key = desk[c].key
      /\ doing.by = desk[c].by /\ doing.menu = desk[c].menu /\ doing.alone = desk[c].alone
  BY <1>2 DEF DeskCommands
<1>4. c \in Busy /\ desk'[c] = doing
  BY <1>1 DEF Busy, DeskInv, CommandsInv
<1> HIDE DEF doing
<1>5. ASSUME desk[c].alone
      PROVE  AloneInv(desk[c])'
  <2>1. AloneInv(desk[c])
    BY <1>4, <1>5 DEF ServeInv
  <2>2. doing.op = "takeover" => Prepared(desk[c])'
    BY <1>1, <1>3, <1>4, <2>1 DEF AloneInv, Prepared, Undoing, Opened, MenuOf, Current
  <2>3. ToPutBack(desk[c], desk[c].snap)'
    BY <1>1, <1>3, <1>4, <2>1
       DEF AloneInv, ToPutBack, FilesServe, KeyServes, Opened, MenuOf, Current
  <2> QED BY <1>3, <1>4, <2>2, <2>3 DEF AloneInv, WrittenSoFar, Undoing
<1>6. /\ OverlapInv' /\ (Busy = {} => InOrderInv)'
      /\ (\A d \in Busy : desk[d].alone => AloneInv(desk[d]))'
  BY <1>1, <1>3, <1>4, <1>5, OwnStep DEF ServeInv, OverlapInv
<1>7. SoundInv' /\ KeylessInv'
  <2>1. Sound(files)'
    BY <1>1 DEF ServeInv, SoundInv, Sound, Saved
  <2> QED BY <1>1, <1>3, <2>1, SoundStep DEF ServeInv
<1> QED BY <1>6, <1>7 DEF ServeInv

LEMMA WriteServes ==
    ASSUME DeskInv, ServeInv, NEW c \in Desks, WriteFile(c)
    PROVE  ServeInv'
<1> DEFINE at == desk[c].at
           doing == [desk[c] EXCEPT !.at = FollowedBy(at)]
<1>1. /\ at \in Steps /\ desk' = [desk EXCEPT ![c] = doing] /\ files' = Written(files, at, c)
      /\ UNCHANGED <<token, opens, aliases, marked, menu, holder, unsure>>
  BY DEF WriteFile, Move
<1>2. desk[c] \in DeskCommands /\ desk[c].op \in {"takeover", "restore"} /\ files \in DeskFiles
      /\ (desk[c].op = "takeover" => desk[c].by \in DeskTokens)
  BY <1>1 DEF DeskInv, CommandsInv, CommandInv, DeskCommands, Steps
<1>3. /\ doing.at = FollowedBy(at) /\ doing.snap = desk[c].snap /\ doing.op = desk[c].op
      /\ doing.key = desk[c].key /\ doing.by = desk[c].by /\ doing.menu = desk[c].menu
      /\ doing.alone = desk[c].alone
  BY <1>2 DEF DeskCommands
<1>4. c \in Busy /\ desk'[c] = doing
  BY <1>1 DEF Busy, DeskInv, CommandsInv, Steps
<1> HIDE DEF doing
<1>5. ASSUME desk[c].alone
      PROVE  AloneInv(desk[c])'
  <2>1. AloneInv(desk[c])
    BY <1>4, <1>5 DEF ServeInv
  <2>2. doing.op = "takeover" => Prepared(desk[c])'
    BY <1>1, <1>3, <1>4, <2>1 DEF AloneInv, Prepared, Undoing, Steps, Opened, MenuOf, Current
  <2>3. ToPutBack(desk[c], desk[c].snap)'
    BY <1>1, <1>3, <1>4, <2>1
       DEF AloneInv, ToPutBack, FilesServe, KeyServes, Opened, MenuOf, Current
  <2>4. WrittenSoFar(desk[c], files)'
    <3>1. WrittenSoFar(desk[c], files)
      BY <2>1 DEF AloneInv
    <3>2. CASE at = "normal"
      BY <1>1, <1>2, <1>3, <1>4, <3>1, <3>2
         DEF WrittenSoFar, Written, FollowedBy, ModeOf, DeskFiles
    <3>3. CASE at = "threep"
      BY <1>1, <1>2, <1>3, <1>4, <3>1, <3>3
         DEF WrittenSoFar, Written, FollowedBy, ModeOf, DeskFiles
    <3>4. CASE at = "profile"
      BY <1>1, <1>2, <1>3, <1>4, <3>1, <3>4
         DEF WrittenSoFar, Written, FollowedBy, ModeOf, ProfileOf, DeskFiles
    <3>5. CASE at = "meta"
      <4>1. /\ files' = [files EXCEPT !.meta = WrittenMeta(@, desk[c].op)]
            /\ desk'[c].at = "filed"
        BY <1>1, <1>3, <1>4, <3>5 DEF Written, FollowedBy
      <4>2. MetaOf(desk[c], files.meta)'
        BY <1>2, <1>3, <1>4, <4>1, NoneIsNothing DEF MetaOf, WrittenMeta, DeskFiles
      <4> QED
        BY <1>2, <1>3, <1>4, <3>1, <3>5, <4>1, <4>2
           DEF WrittenSoFar, ModeOf, ProfileOf, DeskFiles
    <3> QED BY <1>1, <3>2, <3>3, <3>4, <3>5 DEF Steps
  <2>5. desk'[c].at \in Steps \union {"filed"}
    BY <1>1, <1>3, <1>4, NextStep
  <2> QED BY <1>3, <1>4, <2>2, <2>3, <2>4, <2>5 DEF AloneInv, Undoing, Steps
<1>6. /\ OverlapInv' /\ (Busy = {} => InOrderInv)'
      /\ (\A d \in Busy : desk[d].alone => AloneInv(desk[d]))'
  <2>1. doing.at # "rest"
    BY <1>1, <1>3, NextStep DEF Steps
  <2> QED BY <1>1, <1>3, <1>4, <1>5, <2>1, OwnStep DEF ServeInv, OverlapInv
<1>7. Sound(files)'
  <2>1. Sound(files) /\ Saved(desk[c].menu)
    BY DEF ServeInv, SoundInv
  <2>2. CASE at \in {"normal", "threep"}
    BY <1>1, <1>2, <2>1, <2>2 DEF Written, Sound, Saved, DeskFiles
  <2>3. CASE at = "profile"
    BY <1>1, <1>2, <2>1, <2>3 DEF Written, Sound, Saved, DeskFiles
  <2>4. CASE at = "meta"
    <3>1. files' = [files EXCEPT !.meta = WrittenMeta(@, desk[c].op)]
      BY <1>1, <2>4 DEF Written
    <3>2. files'.profile = files.profile /\ files'.meta = WrittenMeta(files.meta, desk[c].op)
      BY <1>2, <3>1 DEF DeskFiles
    <3>3. "own" \in files'.meta.entries => files'.meta.applied # None
      BY <1>2, <2>1, <3>2, NoneIsNothing DEF WrittenMeta, Sound
    <3> QED BY <1>1, <2>1, <3>2, <3>3 DEF Sound, Saved
  <2> QED BY <1>1, <2>2, <2>3, <2>4 DEF Steps
<1>8. SoundInv' /\ KeylessInv'
  BY <1>1, <1>3, <1>7, SoundStep DEF ServeInv
<1> QED BY <1>6, <1>8 DEF ServeInv

LEMMA FailServes ==
    ASSUME DeskInv, ServeInv, NEW c \in Desks, FileFails(c)
    PROVE  ServeInv'
<1> DEFINE doing == [desk[c] EXCEPT !.at = "undo_normal"]
<1>1. /\ desk[c].at \in Steps /\ desk' = [desk EXCEPT ![c] = doing]
      /\ files' \in {files} \union
           (IF desk[c].at = "threep" THEN {Written(files, "threep", c)} ELSE {})
      /\ unsure' = IF desk[c].op = "takeover" THEN unsure \union {"key"} ELSE unsure
      /\ UNCHANGED <<token, opens, aliases, marked, menu, holder>>
  BY DEF FileFails, Move
<1>2. desk[c] \in DeskCommands /\ desk[c].op \in {"takeover", "restore"} /\ files \in DeskFiles
  BY <1>1 DEF DeskInv, CommandsInv, CommandInv, DeskCommands, Steps
<1>3. /\ doing.at = "undo_normal" /\ doing.snap = desk[c].snap /\ doing.op = desk[c].op
      /\ doing.key = desk[c].key /\ doing.by = desk[c].by /\ doing.menu = desk[c].menu
      /\ doing.alone = desk[c].alone
  BY <1>2 DEF DeskCommands
<1>4. c \in Busy /\ desk'[c] = doing
  BY <1>1 DEF Busy, DeskInv, CommandsInv, Steps
<1> HIDE DEF doing
<1>5. /\ unsure' \in {{}, {"key"}, {"files", "key"}}
      /\ "files" \in unsure <=> "files" \in unsure'
      /\ desk[c].op = "takeover" => unsure' # {}
      /\ unsure' = {} => unsure = {}
  BY <1>1 DEF ServeInv, OverlapInv
<1>6. ASSUME desk[c].alone
      PROVE  AloneInv(desk[c])'
  <2>1. AloneInv(desk[c])
    BY <1>4, <1>6 DEF ServeInv
  <2>2. ToPutBack(desk[c], desk[c].snap)'
    BY <1>1, <1>3, <1>4, <1>5, <2>1
       DEF AloneInv, ToPutBack, FilesServe, KeyServes, Opened, MenuOf, Current
  <2> QED BY <1>3, <1>4, <1>5, <2>2 DEF AloneInv, WrittenSoFar, UndoneSoFar, Undoing
<1>7. /\ OverlapInv' /\ (Busy = {} => InOrderInv)'
      /\ (\A d \in Busy : desk[d].alone => AloneInv(desk[d]))'
  BY <1>1, <1>3, <1>4, <1>5, <1>6, OwnStep
<1>8. Sound(files)'
  BY <1>1, <1>2 DEF ServeInv, SoundInv, Sound, Saved, Written, DeskFiles
<1>9. SoundInv' /\ KeylessInv'
  BY <1>1, <1>3, <1>8, SoundStep DEF ServeInv
<1> QED BY <1>7, <1>9 DEF ServeInv

LEMMA UndoServes ==
    ASSUME DeskInv, ServeInv, NEW c \in Desks, Undo(c)
    PROVE  ServeInv'
<1>1. PICK step \in Steps :
        /\ desk[c].at = UndoStep[step]
        /\ files' = [files EXCEPT ![step] = desk[c].snap[step]]
        /\ IF step = "meta"
           THEN /\ desk' = [desk EXCEPT ![c] = AtRest]
                /\ holder' = IF holder = c THEN None ELSE holder
           ELSE Move(c, UndoStep[FollowedBy(step)]) /\ UNCHANGED holder
        /\ UNCHANGED <<token, opens, aliases, marked, menu, unsure, fails, uses>>
  BY DEF Undo
<1> DEFINE doing == IF step = "meta" THEN AtRest
                  ELSE [desk[c] EXCEPT !.at = UndoStep[FollowedBy(step)]]
<1>2. /\ desk' = [desk EXCEPT ![c] = doing] /\ holder' \in {holder, None}
  BY <1>1 DEF Move
<1>3. /\ desk[c] \in DeskCommands /\ files \in DeskFiles /\ desk[c].snap \in DeskFiles
      /\ desk[c].at \in Undoing /\ desk[c].op \in {"takeover", "restore"}
  BY <1>1, NextStep DEF DeskInv, CommandsInv, CommandInv, DeskCommands, Undoing
<1>4. IF step = "meta"
      THEN doing.at = "rest" /\ doing.snap = None /\ doing.key = None /\ doing.menu = None
      ELSE /\ doing.at = UndoStep[FollowedBy(step)] /\ doing.snap = desk[c].snap
           /\ doing.op = desk[c].op /\ doing.key = desk[c].key
           /\ doing.menu = desk[c].menu /\ doing.alone = desk[c].alone
  BY <1>3 DEF DeskCommands, AtRest
<1>5. c \in Busy /\ desk'[c] = doing
  BY <1>2, <1>3 DEF Busy, DeskInv, CommandsInv, Undoing
<1> HIDE DEF doing
<1>6. desk[c].alone => AloneInv(desk[c])
  BY <1>5 DEF ServeInv
<1>7. ASSUME desk[c].alone, step # "meta"
      PROVE  AloneInv(desk[c])'
  <2>1. AloneInv(desk[c])
    BY <1>6, <1>7
  <2>2. ToPutBack(desk[c], desk[c].snap)'
    BY <1>1, <1>3, <1>4, <1>5, <1>7, <2>1
       DEF AloneInv, ToPutBack, FilesServe, KeyServes, Opened, MenuOf, Current
  <2>3. UndoneSoFar(desk[c], files)
    BY <1>3, <2>1 DEF AloneInv
  <2>4. UndoneSoFar(desk[c], files)'
    <3>1. CASE step = "normal"
      BY <1>1, <1>3, <1>4, <1>5, <2>3, <3>1 DEF UndoneSoFar, UndoStep, FollowedBy, DeskFiles
    <3>2. CASE step = "threep"
      BY <1>1, <1>3, <1>4, <1>5, <2>3, <3>2 DEF UndoneSoFar, UndoStep, FollowedBy, DeskFiles
    <3>3. CASE step = "profile"
      BY <1>1, <1>3, <1>4, <1>5, <2>3, <3>3 DEF UndoneSoFar, UndoStep, FollowedBy, DeskFiles
    <3> QED BY <1>7, <3>1, <3>2, <3>3 DEF Steps
  <2>5. desk'[c].at \in Undoing \ {"undo_normal"} /\ desk'[c].op = desk[c].op
    BY <1>4, <1>5, <1>7 DEF Undoing, UndoStep, FollowedBy, Steps
  <2>6. desk[c].op = "takeover" => unsure' # {}
    BY <1>1, <1>3, <2>1 DEF AloneInv
  <2> QED BY <2>2, <2>4, <2>5, <2>6 DEF AloneInv, WrittenSoFar, Undoing, Steps
<1>8. ASSUME desk[c].alone, step = "meta"
      PROVE  InOrderInv'
  <2>1. AloneInv(desk[c]) /\ desk[c].at = "undo_meta"
    BY <1>1, <1>6, <1>8 DEF UndoStep
  <2>2. files' = desk[c].snap
    <3>1. files' = [files EXCEPT !.meta = desk[c].snap.meta]
      BY <1>1, <1>8
    <3>2. files.normal = desk[c].snap.normal /\ files.threep = desk[c].snap.threep
          /\ files.profile = desk[c].snap.profile
      BY <2>1 DEF AloneInv, UndoneSoFar, Undoing
    <3> QED BY <1>3, <3>1, <3>2 DEF DeskFiles
  <2>3. ToPutBack(desk[c], desk[c].snap) /\ (desk[c].op = "takeover" => unsure # {})
    BY <2>1 DEF AloneInv, Undoing
  <2> QED
    BY <1>1, <1>3, <2>2, <2>3
       DEF InOrderInv, ToPutBack, FilesServe, KeyServes, Opened, MenuOf, Current
<1>9. /\ OverlapInv' /\ (Busy = {} => InOrderInv)'
      /\ (\A d \in Busy : desk[d].alone => AloneInv(desk[d]))'
  <2>1. doing.at = "rest" \/ doing.alone = desk[c].alone
    BY <1>4
  <2>2. step = "meta" <=> doing.at = "rest"
    BY <1>4 DEF Steps, UndoStep, FollowedBy
  <2> QED BY <1>1, <1>2, <1>5, <1>7, <1>8, <2>1, <2>2, OwnStep DEF ServeInv, OverlapInv
<1>10. Sound(files)'
  <2>1. Sound(files) /\ Sound(desk[c].snap)
    BY <1>3, NoneIsNothing DEF ServeInv, SoundInv
  <2>2. /\ files'.profile \in {files.profile, desk[c].snap.profile}
        /\ files'.meta \in {files.meta, desk[c].snap.meta}
    BY <1>1, <1>3 DEF DeskFiles, Steps
  <2> QED BY <1>1, <2>1, <2>2 DEF Sound, Saved
<1>11. SoundInv' /\ KeylessInv'
  BY <1>1, <1>2, <1>4, <1>10, SoundStep DEF ServeInv
<1> QED BY <1>9, <1>11 DEF ServeInv

LEMMA UndoFailServes ==
    ASSUME DeskInv, ServeInv, NEW c \in Desks, UndoFails(c)
    PROVE  ServeInv'
<1>1. /\ desk' = [desk EXCEPT ![c] = AtRest] /\ holder' \in {holder, None}
      /\ unsure' = {"files", "key"}
      /\ UNCHANGED <<files, token, opens, aliases, marked, menu>>
  BY DEF UndoFails
<1>2. c \in Busy
  BY NextStep DEF UndoFails, Busy, Undoing
<1>3. AtRest.at = "rest" /\ AtRest.menu = None /\ AtRest.snap = None /\ AtRest.key = None
  BY DEF AtRest
<1>4. /\ OverlapInv' /\ (Busy = {} => InOrderInv)'
      /\ (\A d \in Busy : desk[d].alone => AloneInv(desk[d]))'
  BY <1>1, <1>2, <1>3, OwnStep DEF InOrderInv
<1>5. Sound(files)'
  BY <1>1 DEF ServeInv, SoundInv, Sound, Saved
<1>6. SoundInv' /\ KeylessInv'
  BY <1>1, <1>3, <1>5, SoundStep DEF ServeInv
<1> QED BY <1>4, <1>6 DEF ServeInv

LEMMA SettleServes ==
    ASSUME DeskInv, ServeInv, NEW c \in Desks, Settle(c)
    PROVE  ServeInv'
<1>1. /\ desk[c].at = "filed" /\ holder = c /\ holder' = None
      /\ desk' = [desk EXCEPT ![c] = AtRest]
      /\ UNCHANGED <<files, token, opens, aliases, marked, menu, unsure>>
  BY DEF Settle
<1>2. c \in Busy /\ desk[c].op = "takeover" /\ desk[c].key = None
      /\ desk[c].by \in DeskTokens
  BY <1>1 DEF Busy, DeskInv, HolderInv, CommandsInv, CommandInv, ServeInv, KeylessInv
<1>3. AtRest.at = "rest" /\ AtRest.menu = None /\ AtRest.snap = None /\ AtRest.key = None
  BY DEF AtRest
<1>4. ASSUME desk[c].alone
      PROVE  InOrderInv'
  <2>1. AloneInv(desk[c])
    BY <1>2, <1>4 DEF ServeInv
  <2>2. Prepared(desk[c]) /\ WrittenSoFar(desk[c], files)
    BY <1>1, <1>2, <2>1 DEF AloneInv, Undoing
  <2>3. /\ files.normal = "3p" /\ files.threep = "3p" /\ files.meta.applied = "ours"
        /\ files.profile = [by |-> desk[c].by, menu |-> desk[c].menu]
    BY <1>1, <1>2, <2>2 DEF WrittenSoFar, ModeOf, ProfileOf, MetaOf
  <2>4. files.profile # None
    BY <2>3, <1>2, NoneIsNothing DEF Profiles, DeskInv, CommandsInv, DeskCommands
  <2>5. /\ token' = desk[c].by
        /\ unsure = {} => desk[c].menu = MenuOf(Opened) /\ Current(Opened)
        /\ "files" \notin unsure => Opened # None
        /\ unsure = {} => marked = Opened
    BY <1>1, <1>2, <2>2 DEF Prepared
  <2>6. /\ Opened' = Opened /\ MenuOf(Opened)' = MenuOf(Opened)
        /\ Current(Opened) => Current(Opened)'
        /\ files' = files /\ unsure' = unsure /\ marked' = marked
    BY <1>1, <2>5 DEF Opened, MenuOf, Current
  <2> QED BY <2>3, <2>4, <2>5, <2>6 DEF InOrderInv, FilesServe, KeyServes
<1>5. /\ OverlapInv' /\ (Busy = {} => InOrderInv)'
      /\ (\A d \in Busy : desk[d].alone => AloneInv(desk[d]))'
  BY <1>1, <1>2, <1>3, <1>4, OwnStep DEF ServeInv, OverlapInv
<1>6. Sound(files)'
  BY <1>1 DEF ServeInv, SoundInv, Sound, Saved
<1>7. SoundInv' /\ KeylessInv'
  BY <1>1, <1>3, <1>6, SoundStep DEF ServeInv
<1> QED BY <1>5, <1>7 DEF ServeInv

LEMMA CloseServes ==
    ASSUME DeskInv, ServeInv, NEW c \in Desks, Close(c)
    PROVE  ServeInv'
<1>1. /\ desk[c].op = "restore" /\ desk[c].at = "filed"
      /\ UNCHANGED <<files, aliases, marked, menu, holder>>
  BY DEF Close
<1>2. c \in Busy /\ desk[c] \in DeskCommands
  BY <1>1 DEF Busy, DeskInv, CommandsInv
<1>3. Sound(files)'
  BY <1>1 DEF ServeInv, SoundInv, Sound, Saved
<1>4. CASE opens' = Revoked /\ token' = None /\ Move(c, "mark") /\ UNCHANGED unsure
  <2> DEFINE doing == [desk[c] EXCEPT !.at = "mark"]
  <2>1. desk' = [desk EXCEPT ![c] = doing]
    BY <1>4 DEF Move
  <2>2. /\ doing.at = "mark" /\ doing.snap = desk[c].snap /\ doing.op = desk[c].op
        /\ doing.key = desk[c].key /\ doing.menu = desk[c].menu /\ doing.alone = desk[c].alone
    BY <1>2 DEF DeskCommands
  <2>3. desk'[c] = doing
    BY <1>2, <2>1 DEF Busy, DeskInv, CommandsInv
  <2> HIDE DEF doing
  <2>4. \A t \in DeskTokens : opens'[t] = None
    BY <1>4 DEF Revoked, DeskInv, DataInv, OpenIsNamed
  <2>5. ASSUME desk[c].alone
        PROVE  AloneInv(desk[c])'
    <3>1. WrittenSoFar(desk[c], files)
      BY <1>2, <2>5 DEF ServeInv, AloneInv
    <3>2. WrittenSoFar(desk[c], files)'
      BY <1>1, <2>2, <2>3, <3>1 DEF WrittenSoFar, ModeOf, ProfileOf, MetaOf
    <3> QED BY <1>1, <2>2, <2>3, <2>4, <3>2 DEF AloneInv, Undoing, Steps
  <2>6. /\ OverlapInv' /\ (Busy = {} => InOrderInv)'
        /\ (\A d \in Busy : desk[d].alone => AloneInv(desk[d]))'
    BY <1>2, <1>4, <2>1, <2>2, <2>5, OwnStep DEF ServeInv, OverlapInv
  <2>7. SoundInv' /\ KeylessInv'
    BY <1>1, <1>2, <1>3, <2>1, <2>2, SoundStep DEF ServeInv, Busy
  <2> QED BY <2>6, <2>7 DEF ServeInv
<1>5. CASE unsure' = {"files", "key"} /\ desk' = [desk EXCEPT ![c] = AtRest]
  <2>1. AtRest.at = "rest" /\ AtRest.menu = None /\ AtRest.snap = None /\ AtRest.key = None
    BY DEF AtRest
  <2>2. /\ OverlapInv' /\ (Busy = {} => InOrderInv)'
        /\ (\A d \in Busy : desk[d].alone => AloneInv(desk[d]))'
    BY <1>2, <1>5, <2>1, OwnStep DEF InOrderInv
  <2>3. SoundInv' /\ KeylessInv'
    BY <1>1, <1>3, <1>5, <2>1, SoundStep DEF ServeInv
  <2> QED BY <2>2, <2>3 DEF ServeInv
<1> QED BY <1>4, <1>5 DEF Close

LEMMA MarkServes ==
    ASSUME DeskInv, ServeInv, NEW c \in Desks, Mark(c)
    PROVE  ServeInv'
<1>1. /\ \/ desk[c].op = "takeover" /\ desk[c].at = "filed" /\ desk[c].key # None
         \/ desk[c].op = "restore" /\ desk[c].at = "mark"
      /\ marked' = desk[c].key
      /\ unsure' = IF desk[c].alone THEN {} ELSE unsure
      /\ desk' = [desk EXCEPT ![c] = AtRest]
      /\ UNCHANGED <<files, token, opens, aliases, menu, holder>>
  BY DEF Mark
<1>2. c \in Busy
  BY <1>1 DEF Busy
<1>3. AtRest.at = "rest" /\ AtRest.menu = None /\ AtRest.snap = None /\ AtRest.key = None
  BY DEF AtRest
<1>4. ASSUME desk[c].alone
      PROVE  InOrderInv'
  <2>1. AloneInv(desk[c])
    BY <1>2, <1>4 DEF ServeInv
  <2>2. CASE desk[c].op = "takeover"
    <3>1. desk[c].at = "filed" /\ desk[c].key # None
      BY <1>1, <2>2
    <3>2. Prepared(desk[c]) /\ WrittenSoFar(desk[c], files)
      BY <2>1, <2>2, <3>1 DEF AloneInv, Undoing
    <3>3. /\ files.normal = "3p" /\ files.threep = "3p"
          /\ files.profile = [by |-> desk[c].by, menu |-> desk[c].menu]
      BY <2>2, <3>1, <3>2 DEF WrittenSoFar, ModeOf, ProfileOf
    <3>4. files.profile # None
      <4>1. desk[c] \in DeskCommands /\ desk[c].by \in DeskTokens
        BY <2>2 DEF DeskInv, CommandsInv, CommandInv
      <4> QED BY <3>3, <4>1, NoneIsNothing DEF Profiles, DeskCommands
    <3>5. /\ token' = desk[c].by /\ desk[c].menu = MenuOf(Opened) /\ Current(Opened)
          /\ Opened = desk[c].key
      BY <1>1, <3>1, <3>2 DEF Prepared
    <3>6. /\ Opened' = Opened /\ MenuOf(Opened)' = MenuOf(Opened) /\ Current(Opened)'
          /\ files' = files /\ marked' = desk[c].key
      BY <1>1, <3>5 DEF Opened, MenuOf, Current
    <3> QED BY <3>1, <3>3, <3>4, <3>5, <3>6 DEF InOrderInv, FilesServe, KeyServes
  <2>3. CASE desk[c].op = "restore"
    <3>1. desk[c].at = "mark" /\ WrittenSoFar(desk[c], files)
      BY <1>1, <2>1, <2>3 DEF AloneInv
    <3>2. files.meta.applied # "ours"
      BY <2>3, <3>1 DEF WrittenSoFar, MetaOf
    <3> QED BY <1>1, <3>2 DEF InOrderInv, FilesServe, KeyServes
  <2> QED BY <1>1, <2>2, <2>3
<1>5. /\ OverlapInv' /\ (Busy = {} => InOrderInv)'
      /\ (\A d \in Busy : desk[d].alone => AloneInv(desk[d]))'
  BY <1>1, <1>2, <1>3, <1>4, OwnStep DEF ServeInv, OverlapInv
<1>6. Sound(files)'
  BY <1>1 DEF ServeInv, SoundInv, Sound, Saved
<1>7. SoundInv' /\ KeylessInv'
  BY <1>1, <1>3, <1>6, SoundStep DEF ServeInv
<1> QED BY <1>5, <1>7 DEF ServeInv

LEMMA WorldServes ==
    ASSUME DeskInv, ServeInv, DeskCrash \/ ApplyOwn
    PROVE  ServeInv'
<1>1. files \in DeskFiles /\ CommandsInv /\ OverlapInv /\ SoundInv /\ KeylessInv
  BY DEF DeskInv, ServeInv
<1>2. CASE DeskCrash
  <2>1. /\ desk' = [d \in Desks |-> AtRest] /\ holder' = None /\ unsure' = {"files", "key"}
        /\ UNCHANGED <<files, token, opens, aliases, marked, menu>>
    BY <1>2 DEF DeskCrash
  <2>2. Busy' = {} /\ \A d \in Desks : desk'[d] = AtRest
    BY <2>1 DEF Busy, AtRest
  <2>3. SoundInv' /\ KeylessInv'
    BY <1>1, <2>1, <2>2 DEF SoundInv, KeylessInv, Sound, Saved, AtRest
  <2> QED BY <2>1, <2>2, <2>3 DEF ServeInv, OverlapInv, InOrderInv
<1>3. CASE ApplyOwn
  <2>1. /\ files' = [files EXCEPT !.meta =
                       [applied |-> "own", entries |-> @.entries \union {"own"}]]
        /\ unsure' = IF Busy = {} THEN unsure ELSE {"files", "key"}
        /\ desk' = [d \in Desks |-> [desk[d] EXCEPT !.alone = FALSE]]
        /\ UNCHANGED <<token, opens, aliases, marked, menu, holder>>
    BY <1>3 DEF ApplyOwn
  <2>2. files'.profile = files.profile /\ files'.meta.applied = "own"
    BY <1>1, <2>1 DEF DeskFiles
  <2>3. ASSUME NEW d \in Desks
        PROVE  /\ desk'[d].at = desk[d].at /\ ~desk'[d].alone /\ desk'[d].key = desk[d].key
               /\ desk'[d].menu = desk[d].menu /\ desk'[d].snap = desk[d].snap
    <3>1. desk[d] \in DeskCommands /\ desk'[d] = [desk[d] EXCEPT !.alone = FALSE]
      BY <1>1, <2>1 DEF CommandsInv
    <3> QED BY <3>1 DEF DeskCommands
  <2>4. Busy' = Busy /\ \A d \in Busy' : ~desk'[d].alone
    BY <2>3 DEF Busy
  <2>5. OverlapInv'
    BY <1>1, <2>1, <2>4 DEF OverlapInv
  <2>6. SoundInv' /\ KeylessInv'
    BY <1>1, <2>1, <2>2, <2>3, NoneIsNothing DEF SoundInv, KeylessInv, Sound, Saved
  <2>7. InOrderInv'
    BY <2>2 DEF InOrderInv, FilesServe, KeyServes
  <2> QED BY <2>4, <2>5, <2>6, <2>7 DEF ServeInv
<1> QED BY <1>2, <1>3

----------------------------------------------------------------------------
(* Theorems *)

(* The commands carry what they need, the lock is held by a refresh, and   *)
(* the open token is named, over any overlap, fault or crash.              *)
THEOREM DeskInductive == DeskSpec => []DeskInv
<1>1. ASSUME DeskInv, [DeskNext]_deskVars PROVE DeskInv'
  <2>1. CASE UNCHANGED deskVars
    BY <1>1, <2>1 DEF deskVars, DeskInv, DataInv, HolderInv, RestInv, CommandsInv, OpenIsNamed
  <2> QED
    BY <1>1, <2>1, PrepareKeeps, RefreshKeeps, FilesKeep, EndsKeep, WorldKeeps DEF DeskNext
<1> QED BY DeskInitial, <1>1, PTL DEF DeskSpec

(* Every variable keeps its type: what an undo puts back is a snapshot of  *)
(* the four files, what a refresh writes a profile with a token.           *)
THEOREM DeskTypeCorrect == DeskSpec => []DeskTypeOK
<1>1. DeskInv => DeskTypeOK
  BY DEF DeskInv, DeskTypeOK, DataInv, HolderInv, RestInv, CommandsInv
<1> QED BY <1>1, DeskInductive, PTL

(* A token that opens the gateway for Claude Desktop is the one the        *)
(* setting names: claude_desktop_takeover writes the setting first and a   *)
(* restore revokes before it forgets, so no order loses an open token.     *)
THEOREM OpenTokensAreNamed == DeskSpec => []OpenIsNamed
<1>1. DeskInv => OpenIsNamed
  BY DEF DeskInv, DataInv
<1> QED BY <1>1, DeskInductive, PTL

(* Files, database and marked key agree while nothing is in doubt, and a   *)
(* command that is alone finds what it has prepared and written.           *)
THEOREM ServeInductive == DeskSpec => []ServeInv
<1>1. ASSUME DeskInv, ServeInv, [DeskNext]_deskVars PROVE ServeInv'
  <2>1. CASE UNCHANGED deskVars
    <3>1. UNCHANGED <<files, token, opens, aliases, marked, menu, holder, desk, unsure>>
      BY <2>1 DEF deskVars
    <3>2. MenuOf(Opened)' = MenuOf(Opened) /\ (Current(Opened) => Current(Opened)')
      BY <3>1 DEF MenuOf, Opened, Current
    <3>3. SoundInv'
      BY <1>1, <3>1 DEF ServeInv, SoundInv, Sound, Saved
    <3> QED BY <1>1, <3>1, <3>2, <3>3, SteadyServes DEF ServeInv
  <2> QED
    BY <1>1, <2>1, PrepareServes, RefreshServes, RestoreServes, SnapshotServes, WriteServes,
       FailServes, UndoServes, UndoFailServes, SettleServes, CloseServes, MarkServes, WorldServes
       DEF DeskNext
<1> QED BY DeskInitServes, DeskInductive, <1>1, PTL DEF DeskSpec

(* While the profile is applied and nothing is under way or in doubt, the  *)
(* client can work with it; unless a switch or a refresh was undone, with  *)
(* the key the tray marks and the menu that key was saved with: whatever   *)
(* commands overlapped, failed or died before (claude_desktop_config.rs).  *)
THEOREM AppliedFilesServe == DeskSpec => []AppliedServes
<1>1. ServeInv => AppliedServes
  <2> SUFFICES ASSUME ServeInv, Busy = {}, files.meta.applied = "ours", "files" \notin unsure
               PROVE  /\ files.normal = "3p" /\ files.threep = "3p"
                      /\ files.profile # None /\ files.profile.by = token /\ opens[token] # None
                      /\ LET k == opens[token] IN
                         "key" \notin unsure =>
                            marked = k /\ files.profile.menu = <<k, menu[k]>> /\ aliases[k] = menu[k]
    BY DEF AppliedServes
  <2>1. FilesServe(files) /\ (unsure = {} => KeyServes(files))
    BY DEF ServeInv, InOrderInv
  <2>2. "key" \notin unsure => unsure = {}
    BY DEF ServeInv, OverlapInv
  <2>3. Opened # None /\ Opened = opens[token]
    BY <2>1 DEF FilesServe, Opened
  <2> QED BY <2>1, <2>2, <2>3 DEF FilesServe, KeyServes, MenuOf, Current
<1> QED BY <1>1, ServeInductive, PTL

(* claude_desktop_restore alone to its end leaves nothing of cc-use in the *)
(* four files and no open session, from whatever state it found, and gives *)
(* the user's own profile back.                                            *)
THEOREM RestoreIsClean == DeskSpec => RestoreLeavesNothing
<1>1. ASSUME DeskInv, ServeInv, [DeskNext]_deskVars, NEW c \in Desks,
             desk[c].at = "mark", desk[c].alone
      PROVE  /\ files.normal = "1p" /\ files.threep = "1p" /\ files.profile = None
             /\ files.meta.applied # "ours" /\ "ours" \notin files.meta.entries
             /\ "own" \in files.meta.entries => files.meta.applied = "own"
             /\ \A t \in DeskTokens : opens[t] = None
  <2>1. AloneInv(desk[c])
    BY <1>1 DEF ServeInv, Busy
  <2>2. /\ desk[c].op = "restore" /\ WrittenSoFar(desk[c], files)
        /\ \A t \in DeskTokens : opens[t] = None
    BY <1>1, <2>1 DEF AloneInv
  <2>3. /\ files.normal = "1p" /\ files.threep = "1p" /\ files.profile = None
        /\ files.meta.applied # "ours" /\ "ours" \notin files.meta.entries
    BY <1>1, <2>2 DEF WrittenSoFar, ModeOf, ProfileOf, MetaOf
  <2>4. files.meta.applied \in {None, "own", "ours"}
    BY <1>1 DEF DeskInv, DeskFiles
  <2>5. "own" \in files.meta.entries => files.meta.applied # None
    BY <1>1 DEF ServeInv, SoundInv, Sound
  <2> QED BY <2>2, <2>3, <2>4, <2>5
<1>2. ASSUME DeskInv, ServeInv, [DeskNext]_deskVars
      PROVE  [\A c \in Desks :
               desk[c].at = "mark" /\ desk[c].alone /\ desk'[c].at = "rest" /\ fails' = fails =>
                  /\ files.normal = "1p" /\ files.threep = "1p" /\ files.profile = None
                  /\ files.meta.applied # "ours" /\ "ours" \notin files.meta.entries
                  /\ "own" \in files.meta.entries => files.meta.applied = "own"
                  /\ \A t \in DeskTokens : opens[t] = None]_deskVars
  BY <1>1, <1>2
<1> QED BY <1>2, DeskInductive, ServeInductive, PTL DEF DeskSpec, RestoreLeavesNothing

----------------------------------------------------------------------------
(* Every variable of both takeovers keeps its type, a command under way    *)
(* has read what it will write, and the setting names a token that is      *)
(* there (codex_config.rs, claude_desktop_config.rs).                      *)
THEOREM TakeoverTypesAreKept == MCSpec => []TypesOK
<1>1. Spec => []TypeOK
  BY CodexTypeCorrect
<1>2. DeskSpec => []DeskTypeOK
  BY DeskTypeCorrect
<1>3. MCInit => Init /\ DeskInit
  BY DEF MCInit
<1>4. [MCNext]_desktopVars => [Next]_vars /\ [DeskNext]_deskVars
  BY DEF MCNext, desktopVars
<1>5. TypeOK /\ DeskTypeOK => TypesOK
  BY DEF TypesOK
<1> QED BY <1>1, <1>2, <1>3, <1>4, <1>5, PTL DEF MCSpec, Spec, DeskSpec
=============================================================================
