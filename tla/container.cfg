SPECIFICATION MCSpec
CONSTANTS
    MaxTries = 2
    Answers = {FALSE}
INVARIANTS ContainerTypeOK BootstrappedOnce
PROPERTIES SystemStays ComesUp
