\* Three concurrent calls over three transactions, so that calls can read
\* the header at each point of setState while the chain persists, moves
\* the index and publishes blocks.
CONSTANTS
    g = g  a1 = a1  a2 = a2  b1 = b1
    t1 = t1  t2 = t2  t3 = t3
    NoBlock = NoBlock
    Genesis <- g
    Blocks <- MCBlocks
    Parent <- MCParent
    Invalid = {}
    Txs = {t1, t2, t3}
    GasInvalid = {t3}
    RuleFail = {t2}
    Callers = {c1, c2, c3}
SPECIFICATION Spec
\* Every call returns and the chain stops at its highest block.
CHECK_DEADLOCK FALSE
INVARIANTS TypeOK HeaderPersisted
