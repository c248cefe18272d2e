SPECIFICATION ProbeFairSpec
INVARIANTS ProbeTypeOK DecidedOnOutput
PROPERTIES ImplementsPromise Ends
CHECK_DEADLOCK FALSE
