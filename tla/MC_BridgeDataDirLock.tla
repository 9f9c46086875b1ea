------------------------ MODULE MC_BridgeDataDirLock ------------------------
EXTENDS BridgeDataDirLock

\* Four generations of sessions one after the other, and three of which the
\* older ones may still be draining when the next starts.
Generations == [r \in Resources |-> IF r = "kernel" THEN 4 ELSE 3]
=============================================================================
