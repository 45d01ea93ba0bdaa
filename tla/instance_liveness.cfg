\* One instance and one key, with a fault, under the daemon's fairness.
CONSTANTS
    i1 = i1
    i2 = i2
    claude = claude
    grok = grok
    Instances <- MCInstance
    Clients <- MCOneClient
    ClientOf <- MCClaudeOnly
    Keys = {k1}
    NoKey = NoKey
    NoInstance = NoInstance
    StaleAfter = 1
    StopAfter = 2
    MaxFaults = 1
SPECIFICATION FairSpec
PROPERTIES
    GoneIsClosed
    EndedIsRevoked
