\* The hybrid Dijkstra case, nothing else going wrong.
SPECIFICATION FairSpec
CONSTANTS
    Confs <- DijkstraConfs
    FaultKinds = {}
    MaxFaults = 0
CHECK_DEADLOCK FALSE
PROPERTY Completes
