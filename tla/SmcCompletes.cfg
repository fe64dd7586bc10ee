\* SFE and hybrid sessions without failures.  When the connection attempts of the
\* sender run out the evaluator waits in accept() for ever, so the system may
\* really stop.
SPECIFICATION FairSpec
CONSTANTS
    Confs <- HonestConfs
    FaultKinds = {}
    MaxFaults = 0
CHECK_DEADLOCK FALSE
PROPERTY Completes
