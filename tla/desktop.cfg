\* Codex: two commands, keys and tokens, two edits, one fault.
\* Claude Desktop: the same values, one saved menu.
CONSTANTS
    Commands = {c1, c2}
    NoCommand = NoCommand
    Keys = {k1, k2}
    NoKey = NoKey
    Tokens = {t1, t2}
    NoToken = NoToken
    u1 = u1
    UserValues <- MCUserValues
    FirstFiles <- MCFirstFiles
    Absent = Absent
    Ours = Ours
    NoFile = NoFile
    Broken = Broken
    MaxEdits = 2
    MaxFaults = 1
    Desks = {c1, c2}
    DeskKeys = {k1, k2}
    DeskTokens = {t1, t2}
    None = None
    MaxSaves = 1
    MaxUses = 1
    MaxFails = 1
SPECIFICATION MCSpec
SYMMETRY MCSymmetry
CONSTRAINTS
    MCQuiet
    MCDeskQuiet
INVARIANTS
    TypesOK
    CurrentTokenOnly
    CatalogOnFile
    OpenIsNamed
    AppliedServes
PROPERTIES
    TakeoverServes
    RestoreGivesBack
    RestoreLeavesNothing
