------------------------------ MODULE BestChain ------------------------------
(***************************************************************************)
(* What the chain state machine promises its readers, without the block   *)
(* processor, the channel, the orphans or the waiters: a best block that  *)
(* is persisted before it is published, only ever replaced by a higher    *)
(* block whose whole ancestry is valid, forgotten by a crash and reloaded *)
(* from the Store on restart.  Chain.tla implements it (the refinement is *)
(* checked by MC_Chain.cfg).                                               *)
(***************************************************************************)
EXTENDS Naturals

CONSTANTS Blocks, Genesis, Parent, Invalid, NoBlock

Nodes == Blocks \cup {Genesis}

Height[b \in Nodes] == IF b = Genesis THEN 0 ELSE Height[Parent[b]] + 1

Lineage[b \in Nodes] == IF b = Genesis THEN {b} ELSE {b} \cup Lineage[Parent[b]]

VARIABLES
    best,     \* the best block the chain reports, NoBlock while it is down
    durable   \* the best block the Store holds, NoBlock before the first start

bvars == <<best, durable>>

Init == best = NoBlock /\ durable = NoBlock

\* Start-up: the stored best (genesis on an empty Store) is reported.
Start ==
    /\ best = NoBlock
    /\ durable' = IF durable = NoBlock THEN Genesis ELSE durable
    /\ best' = durable'

\* A higher block, valid down to genesis, is persisted as the new best.
Persist ==
    /\ best # NoBlock
    /\ best = durable
    /\ \E b \in Blocks :
          /\ Height[b] > Height[best]
          /\ Lineage[b] \cap Invalid = {}
          /\ durable' = b
    /\ UNCHANGED best

\* The persisted best becomes the reported best.
Publish ==
    /\ best \notin {NoBlock, durable}
    /\ best' = durable
    /\ UNCHANGED durable

\* A crash forgets the reported best; the Store keeps its own.
Crash ==
    /\ best # NoBlock
    /\ best' = NoBlock
    /\ UNCHANGED durable

Next == Start \/ Persist \/ Publish \/ Crash

\* The chain comes up, and a persisted best is published unless the
\* process dies first.
Spec == Init /\ [][Next]_bvars /\ WF_bvars(Start) /\ WF_bvars(Publish)
=============================================================================
