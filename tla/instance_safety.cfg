\* One instance, two keys to switch between, two faults.
CONSTANTS
    i1 = i1
    i2 = i2
    claude = claude
    grok = grok
    Instances <- MCInstance
    Clients <- MCOneClient
    ClientOf <- MCClaudeOnly
    Keys = {k1, k2}
    NoKey = NoKey
    NoInstance = NoInstance
    StaleAfter = 1
    StopAfter = 2
    MaxFaults = 2
SPECIFICATION Spec
INVARIANTS
    TypeOK
    RevokedMeansOver
    AssignmentsAgree
PROPERTIES
    AdmittedWhileOpen
    NoPhaseRegression
    ImplementsAccess
