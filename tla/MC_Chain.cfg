CONSTANTS
    g = g
    a1 = a1
    a2 = a2
    b1 = b1
    x1 = x1
    NoBlock = NoBlock
    Genesis <- g
    Blocks <- MCBlocks
    Parent <- MCParent
    Invalid <- MCInvalid
    Waiters <- MCWaiters
    Target <- MCTarget
    OrphanTTL = 1
    ChCap = 2
    MaxDeliveries = 4
    MaxTime = 1
    MaxCrashes = 1
    MaxStoreFail = 1
SPECIFICATION Spec
CHECK_DEADLOCK FALSE
INVARIANTS
    TypeOK
    IndexIsValidTree
    DurableBest
    OrphanBufferConsistent
PROPERTIES
    BestNeverRegresses
    WaiterResolves
    OrphanAdoption
    BestChainRefined
