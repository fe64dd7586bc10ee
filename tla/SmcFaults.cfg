\* Every failure, on agreeing and disagreeing parties.  A party in ERROR or
\* FINI keeps reading and its peer waits for it: the system may really stop.
SPECIFICATION FairSpec
CONSTANTS
    Confs <- EveryConf
    FaultKinds = {"ret", "status", "write", "exit", "crash"}
    MaxFaults = 2
CHECK_DEADLOCK FALSE
INVARIANTS
    TypeOK
    SenderDoneImpliesEvaluatorDone
    BadAttestationNeverComputes
    SenderExpectsEveryMessage
    TurnTaking
    StalledOnlyAfterError
    TornIsLast
    YaoSameCase
PROPERTIES
    OnlyErrorLeadsToFini
    EndNoticed
