\* Two pullers so that replies can overlap, two sessions, one failed RPC.
CONSTANTS
    g = g  a1 = a1  a2 = a2  b1 = b1
    NoTemplate = NoTemplate  NoJob = NoJob
    Genesis <- g
    Blocks <- MCBlocks
    Parent <- MCParent
    Pullers = {p1, p2}
    Sessions = {s1, s2}
    MaxRpcFail = 1
SPECIFICATION Spec
\* The node may stop producing blocks and the pool keeps pulling: no
\* terminal state, but the bounded heights end the node's moves.
INVARIANTS TypeOK
PROPERTIES ServedTracksTip
