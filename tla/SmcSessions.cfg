\* SFE sessions under every failure but a status nobody looks at.
SPECIFICATION Spec
CONSTANTS
    Confs <- SessionConfs
    FaultKinds = {"ret", "write", "crash"}
    MaxFaults = 2
CHECK_DEADLOCK FALSE
INVARIANTS
    SecretBeforeInput
    ReportIsAnswer
PROPERTY ImplementsSession
