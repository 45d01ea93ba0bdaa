\* Two instances of two clients that share the daemon, the app and a key.
CONSTANTS
    i1 = i1
    i2 = i2
    claude = claude
    grok = grok
    Instances <- MCPair
    Clients <- MCTwoClients
    ClientOf <- MCOnePerClient
    Keys = {k1}
    NoKey = NoKey
    NoInstance = NoInstance
    StaleAfter = 0
    StopAfter = 0
    MaxFaults = 0
SPECIFICATION Spec
PROPERTIES
    ClosesOnItsOwnAccount
