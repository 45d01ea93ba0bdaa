-------------------------- MODULE MC_CodexTakeover --------------------------
(* Values of the constants of CodexTakeover for TLC.                       *)
EXTENDS CodexTakeover, TLC

CONSTANT u1

MCUserValues == {u1}

(* No file, and one in which the user has chosen everything.               *)
MCFirstFiles ==
    {NoFile, [mark |-> u1, model |-> u1, catalog |-> u1, token |-> NoToken]}

MCSymmetry == Permutations(Commands) \cup Permutations(Tokens) \cup Permutations(Keys)

(* What a file holds is promised only for commands that do not overlap, so *)
(* edits and faults are not combined with an overlap.                      *)
MCQuiet == "overlap" \in disturbed => edits = 0 /\ faults = 0
=============================================================================
