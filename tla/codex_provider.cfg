\* One edit by the user, no fault.
CONSTANTS
    Commands = {c1}
    NoCommand = NoCommand
    Keys = {k1}
    NoKey = NoKey
    Tokens = {t1}
    NoToken = NoToken
    u1 = u1
    UserValues <- MCUserValues
    FirstFiles <- MCFirstFiles
    Absent = Absent
    Ours = Ours
    NoFile = NoFile
    Broken = Broken
    MaxEdits = 1
    MaxFaults = 0
SPECIFICATION Spec
PROPERTIES
    TakeoverTakesOver
