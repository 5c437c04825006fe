CONSTANTS
    Contexts <- MCContexts
SPECIFICATION Spec
\* A Verify call that has returned takes no further steps.
CHECK_DEADLOCK FALSE
INVARIANTS
    TypeOK
    GasConservation
PROPERTIES
    VerifyRefined
