----------------------------- MODULE MC_Desktop -----------------------------
(***************************************************************************)
(* Instances of the two takeovers of desktop clients.  They share no       *)
(* state, so a run checks them one at a time: `subject` says which of them *)
(* moves, and their state spaces add up.                                   *)
(***************************************************************************)
EXTENDS MC_CodexTakeover, ClaudeDesktop

VARIABLE subject

desktopVars == <<subject, vars, deskVars>>

MCInit ==
    /\ subject \in {"codex", "claude"}
    /\ Init /\ DeskInit
    /\ subject = "codex" => files.normal = None /\ files.meta.applied = None
    /\ subject = "claude" => config = NoFile

MCNext ==
    /\ UNCHANGED subject
    /\ \/ subject = "codex" /\ Next /\ UNCHANGED deskVars
       \/ subject = "claude" /\ DeskNext /\ UNCHANGED vars

MCSpec == MCInit /\ [][MCNext]_desktopVars

InOrder(f) ==
    IF f.meta.applied = "ours"
    THEN f.profile # None /\ f.normal = "3p" /\ f.threep = "3p"
    ELSE f.profile = None /\ f.normal # "3p" /\ f.threep # "3p"

\* Claude Desktop's files are promised only for commands that do not overlap,
\* so faults, edits and saves are not combined with an overlap, and the first
\* of two overlapping commands finds the files in order.
MCDeskQuiet ==
    (\E c \in Desks : desk[c].at # "rest" /\ ~desk[c].alone) =>
        /\ fails = 0 /\ uses = 0 /\ \A k \in DeskKeys : menu[k] = 1
        /\ \E c \in Desks :
             desk[c].at = "rest" \/ InOrder(IF desk[c].snap = None THEN files ELSE desk[c].snap)

\* Every variable of both modules keeps its type.
TypesOK == TypeOK /\ DeskTypeOK
=============================================================================
