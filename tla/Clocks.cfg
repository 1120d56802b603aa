CONSTANTS
 Retries = 2
 MaxDrops = 2
 MaxDdr = 2
SPECIFICATION Spec
INVARIANTS ClusterClocked
CHECK_DEADLOCK FALSE
