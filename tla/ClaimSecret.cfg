\* One ECall that reports failure in its status argument.
SPECIFICATION Spec
CONSTANTS
    Confs <- SfeConfs
    FaultKinds = {"status"}
    MaxFaults = 1
CHECK_DEADLOCK FALSE
INVARIANT SecretBeforeInput
