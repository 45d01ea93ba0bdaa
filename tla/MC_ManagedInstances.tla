------------------------ MODULE MC_ManagedInstances ------------------------
(* Values of the constants of ManagedInstances for TLC.                    *)
EXTENDS ManagedInstances

CONSTANTS i1, i2, claude, grok

MCInstance     == {i1}
MCPair         == {i1, i2}
MCOneClient    == {claude}
MCTwoClients   == {claude, grok}
MCClaudeOnly   == [i \in Instances |-> claude]
MCOnePerClient == [i \in Instances |-> IF i = i1 THEN claude ELSE grok]
=============================================================================
