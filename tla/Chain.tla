------------------------------- MODULE Chain --------------------------------
(***************************************************************************)
(* The chain state machine of protocol/protocol.go together with the       *)
(* block-processing goroutine it starts, the orphan buffer, the Store and  *)
(* the BlockWaiter goroutines.                                             *)
(*                                                                         *)
(* Actors that run concurrently in the code, each an action family here:   *)
(*  - the block processor (blockProcesser): one goroutine draining         *)
(*    processBlockCh; it alone writes the index and the Store;             *)
(*  - peers submitting blocks into processBlockCh (capacity ChCap);        *)
(*  - the orphan-expiry ticker calling orphanExpire(now);                  *)
(*  - BlockWaiter goroutines sleeping on c.cond;                           *)
(*  - the process itself, which may crash at any point and restart in      *)
(*    NewChain from what the Store kept.                                   *)
(* setState is split where the code releases nothing but a crash can hit:  *)
(* SaveChainStatus (Store) first, then the locked update of bestNode and   *)
(* the index's main chain followed by cond.Broadcast.                      *)
(***************************************************************************)
EXTENDS Integers, Sequences, OrphanManage

CONSTANTS
    Invalid,      \* blocks whose transactions fail validation (UTXO replay)
    Waiters,      \* BlockWaiter calls
    Target,       \* Target[w]: the height waiter w waits for
    NoBlock,      \* nil node / absent store status
    ChCap,        \* capacity of processBlockCh (maxProcessBlockChSize)
    MaxDeliveries,\* bound on blocks delivered by peers (duplicates included)
    MaxTime,      \* bound of the model clock
    MaxCrashes,   \* bound on process crashes
    MaxStoreFail  \* bound on failing calls of each Store write

ASSUME Invalid \subseteq Blocks
ASSUME Target \in [Waiters -> Nat]

VARIABLES
    phase,          \* "down" (not running), "initSaved", "running"
    storeBlocks,    \* blocks written by Store.SaveBlock
    storeStatus,    \* Store.GetStoreStatus(): the persisted best node
    index,          \* the in-memory BlockIndex (set of node hashes)
    bestNode,       \* c.bestNode
    om,             \* c.orphanManage
    now,            \* wall clock seen by Add and orphanExpire
    processBlockCh, \* queued ProcessBlock messages
    pending,        \* the processor's work list: the block being processed
                    \* and the orphans it released (saveSubBlock recursion)
    proc,           \* processor step inside setState: [st, node]
    waiter,         \* state of each BlockWaiter goroutine
    delivered,      \* blocks delivered by peers so far
    crashes,
    storeFails,     \* failed calls so far, per Store write (StoreWrites)
    maxServed       \* history: highest best height the chain has reported

vars == <<phase, storeBlocks, storeStatus, index, bestNode, om, now,
          processBlockCh, pending, proc, waiter, delivered, crashes,
          storeFails, maxServed>>

\* Height of a node, from its parent links.
HeightOf[b \in Hashes] == IF b = Genesis THEN 0 ELSE HeightOf[Parent[b]] + 1

\* Strict ancestors of a node.
Ancestors[b \in Hashes] ==
    IF b = Genesis THEN {} ELSE {Parent[b]} \cup Ancestors[Parent[b]]

Idle == [st |-> "idle", node |-> NoBlock]

WaiterStates == {"idle", "new", "waiting", "woken", "done", "dead"}

MaxOf(a, b) == IF a >= b THEN a ELSE b

StoreWrites == {"SaveBlock", "SaveChainStatus"}

-----------------------------------------------------------------------------
(* Process start: NewChain and initChainStatus.                            *)

\* store.LoadBlockIndex(height): every stored node up to the status height.
LoadBlockIndex(h) == {b \in storeBlocks : HeightOf[b] <= h}

\* initChainStatus, first half: SaveBlock(genesis) on an empty Store.
InitSaveGenesis ==
    /\ phase = "down"
    /\ storeStatus = NoBlock
    /\ storeBlocks' = storeBlocks \cup {Genesis}
    /\ phase' = "initSaved"
    /\ UNCHANGED <<storeStatus, index, bestNode, om, now, processBlockCh,
                   pending, proc, waiter, delivered, crashes, storeFails,
                   maxServed>>

\* The rest of NewChain: SaveChainStatus(genesis) when initialising, then
\* LoadBlockIndex, bestNode := GetNode(status.Hash), SetMainChain, and the
\* processor goroutine starts.
NewChain ==
    /\ \/ phase = "initSaved" /\ storeStatus' = Genesis
       \/ phase = "down" /\ storeStatus # NoBlock
          /\ UNCHANGED storeStatus
    /\ index' = LoadBlockIndex(HeightOf[storeStatus'])
    /\ bestNode' = storeStatus'
    /\ maxServed' = MaxOf(maxServed, HeightOf[storeStatus'])
    /\ phase' = "running"
    /\ UNCHANGED <<storeBlocks, om, now, processBlockCh, pending, proc,
                   waiter, delivered, crashes, storeFails>>

\* The process dies: everything in memory is lost, the Store survives, and
\* the BlockWaiter goroutines never send.
Crash ==
    /\ phase # "down"
    /\ crashes < MaxCrashes
    /\ crashes' = crashes + 1
    /\ phase' = "down"
    /\ index' = {}
    /\ bestNode' = NoBlock
    /\ om' = EmptyOrphanManage
    /\ processBlockCh' = <<>>
    /\ pending' = <<>>
    /\ proc' = Idle
    /\ waiter' = [w \in Waiters |->
                    IF waiter[w] \in {"new", "waiting", "woken"}
                    THEN "dead" ELSE waiter[w]]
    /\ UNCHANGED <<storeBlocks, storeStatus, now, delivered, storeFails,
                   maxServed>>

-----------------------------------------------------------------------------
(* Block submission and the processor goroutine.                           *)

\* A send that ignores the channel's capacity.
SubmitMutantUnbounded(b) ==
    /\ phase = "running"
    /\ delivered < MaxDeliveries
    /\ processBlockCh' = Append(processBlockCh, b)
    /\ delivered' = delivered + 1
    /\ UNCHANGED <<phase, storeBlocks, storeStatus, index, bestNode, om, now,
                   pending, proc, waiter, crashes, storeFails, maxServed>>

\* A peer hands a block to ProcessBlock; the send blocks while the channel
\* is full.
Submit(b) ==
    /\ phase = "running"
    /\ delivered < MaxDeliveries
    /\ Len(processBlockCh) < ChCap
    /\ processBlockCh' = Append(processBlockCh, b)
    /\ delivered' = delivered + 1
    /\ UNCHANGED <<phase, storeBlocks, storeStatus, index, bestNode, om, now,
                   pending, proc, waiter, crashes, storeFails, maxServed>>

\* blockProcesser takes the next message off processBlockCh.
Dequeue ==
    /\ phase = "running"
    /\ proc = Idle
    /\ pending = <<>>
    /\ processBlockCh # <<>>
    /\ pending' = <<[blk |-> Head(processBlockCh), fromOrphan |-> FALSE]>>
    /\ processBlockCh' = Tail(processBlockCh)
    /\ UNCHANGED <<phase, storeBlocks, storeStatus, index, bestNode, om, now,
                   proc, waiter, delivered, crashes, storeFails, maxServed>>

\* Common guard of one processing step on the head of the work list.
ProcessStep ==
    /\ phase = "running"
    /\ proc = Idle
    /\ pending # <<>>

Current == Head(pending)

\* A released orphan that is no longer in the buffer (it expired after its
\* parent was accepted): orphanManage.Get fails.
Gone(it) == it.fromOrphan /\ it.blk \notin DOMAIN om.orphan

UnchangedButPending ==
    UNCHANGED <<phase, storeBlocks, storeStatus, index, bestNode, om, now,
                processBlockCh, proc, waiter, delivered, crashes, storeFails,
                maxServed>>

\* The released orphan is skipped.
SkipExpired ==
    /\ ProcessStep
    /\ Gone(Current)
    /\ pending' = Tail(pending)
    /\ UnchangedButPending

\* The block is already in the index: nothing to do.
SkipKnown ==
    /\ ProcessStep
    /\ ~Gone(Current)
    /\ Current.blk \in index
    /\ pending' = Tail(pending)
    /\ UnchangedButPending

\* Parent unknown: the block goes to the orphan manager and stops there.
AddOrphan ==
    /\ ProcessStep
    /\ Current.blk \notin index
    /\ Parent[Current.blk] \notin index
    /\ om' = OMAdd(om, Current.blk, now)
    /\ pending' = Tail(pending)
    /\ UNCHANGED <<phase, storeBlocks, storeStatus, index, bestNode, now,
                   processBlockCh, proc, waiter, delivered, crashes,
                   storeFails, maxServed>>

\* Replaying the block's transactions on a UTXO view seeded from the Store.
ValidBlockMutantSkipped(b) == TRUE
ValidBlock(b) == b \notin Invalid

\* Parent known, but validation fails: the view is discarded and the block
\* rejected.
RejectBlock ==
    /\ ProcessStep
    /\ ~Gone(Current)
    /\ Current.blk \notin index
    /\ Parent[Current.blk] \in index
    /\ ~ValidBlock(Current.blk)
    /\ pending' = Tail(pending)
    /\ UnchangedButPending

\* The orphans waiting on b, queued for acceptance in arrival order.
ReleasedMutantNone(o, b) == <<>>
Released(o, b) ==
    [i \in 1..Len(OMPrevOrphans(o, b)) |->
        [blk |-> OMPrevOrphans(o, b)[i], fromOrphan |-> TRUE]]

\* The block is saved next: its parent is known and it is valid.
Acceptable(it) ==
    /\ ~Gone(it)
    /\ it.blk \notin index
    /\ Parent[it.blk] \in index
    /\ ValidBlock(it.blk)

\* Store.SaveBlock fails: the error is returned before the block is added
\* to the index or deleted from the orphan manager, and nothing retries
\* it.  The processor goes on with the rest of its work list (the other
\* orphans released with it are still attempted).
SaveBlockFails ==
    /\ ProcessStep
    /\ Acceptable(Current)
    /\ storeFails["SaveBlock"] < MaxStoreFail
    /\ storeFails' = [storeFails EXCEPT !["SaveBlock"] = @ + 1]
    /\ pending' = Tail(pending)
    /\ UNCHANGED <<phase, storeBlocks, storeStatus, index, bestNode, om, now,
                   processBlockCh, proc, waiter, delivered, crashes,
                   maxServed>>

\* Parent known and the block valid: SaveBlock, remove it from the orphan
\* manager, add its node to the index, queue the orphans waiting on it
\* ahead of the rest of the work, and enter setState when its height beats
\* the current best (no other fork choice).
AcceptBlock ==
    /\ ProcessStep
    /\ Acceptable(Current)
    /\ LET b == Current.blk IN
          /\ storeBlocks' = storeBlocks \cup {b}
          /\ index' = index \cup {b}
          /\ om' = OMDelete(om, b)
          /\ pending' = Released(om', b) \o Tail(pending)
          /\ proc' = IF HeightOf[b] > HeightOf[bestNode]
                     THEN [st |-> "save", node |-> b] ELSE Idle
    /\ UNCHANGED <<phase, storeStatus, bestNode, now, processBlockCh, waiter,
                   delivered, crashes, storeFails, maxServed>>

\* A failed SaveChainStatus whose error is ignored: memory moves on.
SaveChainStatusMutantIgnoreError ==
    /\ phase = "running"
    /\ proc.st = "save"
    /\ \/ /\ storeStatus' = proc.node
          /\ UNCHANGED storeFails
       \/ /\ storeFails["SaveChainStatus"] < MaxStoreFail
          /\ storeFails' = [storeFails EXCEPT !["SaveChainStatus"] = @ + 1]
          /\ UNCHANGED storeStatus
    /\ proc' = [proc EXCEPT !.st = "publish"]
    /\ UNCHANGED <<phase, storeBlocks, index, bestNode, om, now,
                   processBlockCh, pending, waiter, delivered, crashes,
                   maxServed>>

\* setState, first step: store.SaveChainStatus(node, view), written
\* atomically with its UTXO diff.  On error setState returns before
\* touching the in-memory state.
SaveChainStatus ==
    /\ phase = "running"
    /\ proc.st = "save"
    /\ \/ /\ storeStatus' = proc.node
          /\ proc' = [proc EXCEPT !.st = "publish"]
          /\ UNCHANGED storeFails
       \/ /\ storeFails["SaveChainStatus"] < MaxStoreFail
          /\ storeFails' = [storeFails EXCEPT !["SaveChainStatus"] = @ + 1]
          /\ proc' = Idle
          /\ UNCHANGED storeStatus
    /\ UNCHANGED <<phase, storeBlocks, index, bestNode, om, now,
                   processBlockCh, pending, waiter, delivered, crashes,
                   maxServed>>

\* c.cond.Broadcast(): every goroutine sleeping in Wait becomes runnable.
CondBroadcastMutantLost(ws) == ws
CondBroadcast(ws) ==
    [w \in Waiters |-> IF ws[w] = "waiting" THEN "woken" ELSE ws[w]]

\* setState, second step, under c.cond.L: index.SetMainChain(node),
\* c.bestNode = node, c.cond.Broadcast() waking every sleeping waiter.
PublishBest ==
    /\ phase = "running"
    /\ proc.st = "publish"
    /\ bestNode' = proc.node
    /\ maxServed' = MaxOf(maxServed, HeightOf[proc.node])
    /\ waiter' = CondBroadcast(waiter)
    /\ proc' = Idle
    /\ UNCHANGED <<phase, storeBlocks, storeStatus, index, om, now,
                   processBlockCh, pending, delivered, crashes, storeFails>>

-----------------------------------------------------------------------------
(* Orphan expiry, driven by an external ticker.                            *)

Tick ==
    /\ now < MaxTime
    /\ now' = now + 1
    /\ UNCHANGED <<phase, storeBlocks, storeStatus, index, bestNode, om,
                   processBlockCh, pending, proc, waiter, delivered, crashes,
                   storeFails, maxServed>>

OrphanExpire ==
    /\ phase = "running"
    /\ Expired(om, now) # {}
    /\ om' = OMExpire(om, now)
    /\ UNCHANGED <<phase, storeBlocks, storeStatus, index, bestNode, now,
                   processBlockCh, pending, proc, waiter, delivered, crashes,
                   storeFails, maxServed>>

-----------------------------------------------------------------------------
(* BlockWaiter(height): a goroutine that, holding c.cond.L, loops          *)
(* `for c.bestNode.Height < height { c.cond.Wait() }` and then sends on a  *)
(* buffered channel of capacity one, so the send never blocks.             *)

BlockWaiter(w) ==
    /\ phase = "running"
    /\ waiter[w] = "idle"
    /\ waiter' = [waiter EXCEPT ![w] = "new"]
    /\ UNCHANGED <<phase, storeBlocks, storeStatus, index, bestNode, om, now,
                   processBlockCh, pending, proc, delivered, crashes,
                   storeFails, maxServed>>

\* The loop condition c.bestNode.Height < height.
BelowTargetMutantOffByOne(w) == HeightOf[bestNode] + 1 < Target[w]
BelowTarget(w) == HeightOf[bestNode] < Target[w]

\* One pass of the loop with the lock held: either Wait (releasing the lock
\* atomically) or leave the loop and send.
WaiterCheck(w) ==
    /\ phase = "running"
    /\ waiter[w] \in {"new", "woken"}
    /\ waiter' = [waiter EXCEPT ![w] =
                    IF BelowTarget(w) THEN "waiting" ELSE "done"]
    /\ UNCHANGED <<phase, storeBlocks, storeStatus, index, bestNode, om, now,
                   processBlockCh, pending, proc, delivered, crashes,
                   storeFails, maxServed>>

-----------------------------------------------------------------------------
Init ==
    /\ phase = "down"
    /\ storeBlocks = {}
    /\ storeStatus = NoBlock
    /\ index = {}
    /\ bestNode = NoBlock
    /\ om = EmptyOrphanManage
    /\ now = 0
    /\ processBlockCh = <<>>
    /\ pending = <<>>
    /\ proc = Idle
    /\ waiter = [w \in Waiters |-> "idle"]
    /\ delivered = 0
    /\ crashes = 0
    /\ storeFails = [w \in StoreWrites |-> 0]
    /\ maxServed = -1

Processor ==
    \/ Dequeue \/ SkipExpired \/ SkipKnown \/ AddOrphan \/ RejectBlock
    \/ AcceptBlock \/ SaveBlockFails \/ SaveChainStatus \/ PublishBest

Next ==
    \/ InitSaveGenesis \/ NewChain \/ Crash
    \/ \E b \in Blocks : Submit(b)
    \/ Processor
    \/ Tick \/ OrphanExpire
    \/ \E w \in Waiters : BlockWaiter(w) \/ WaiterCheck(w)

\* The processor goroutine and every waiter goroutine, once runnable, are
\* scheduled; start-up runs to completion.  Peers, the clock, the ticker
\* and crashes get no fairness.
Fairness ==
    /\ WF_vars(InitSaveGenesis) /\ WF_vars(NewChain)
    /\ WF_vars(Processor)
    /\ \A w \in Waiters : WF_vars(WaiterCheck(w))

Spec == Init /\ [][Next]_vars /\ Fairness

-----------------------------------------------------------------------------
(* Properties.                                                             *)

TypeOK ==
    /\ phase \in {"down", "initSaved", "running"}
    /\ storeBlocks \subseteq Hashes
    /\ storeStatus \in Hashes \cup {NoBlock}
    /\ index \subseteq Hashes
    /\ bestNode \in Hashes \cup {NoBlock}
    /\ DOMAIN om.orphan \subseteq Blocks
    /\ now \in 0..MaxTime
    /\ processBlockCh \in Seq(Blocks)
    /\ Len(processBlockCh) <= ChCap
    /\ proc \in [st : {"idle", "save", "publish"}, node : Hashes \cup {NoBlock}]
    /\ waiter \in [Waiters -> WaiterStates]
    /\ delivered \in 0..MaxDeliveries
    /\ storeFails \in [StoreWrites -> 0..MaxStoreFail]

\* Whatever order blocks, restarts and persistence failures arrive in, the
\* index the processor builds (and NewChain reloads) is a tree rooted at
\* genesis holding only valid blocks: every node's whole ancestry is in the
\* index and no node was rejected by validation.
IndexIsValidTree ==
    phase = "running" =>
        /\ Genesis \in index
        /\ \A b \in index : Ancestors[b] \subseteq index
        /\ index \cap Invalid = {}

\* setState writes the Store before it moves bestNode, and a failed write
\* leaves memory alone: the in-memory best is always in the index, never
\* ahead of the persisted status, and equal to it whenever the processor is
\* outside setState.
DurableBest ==
    phase = "running" =>
        /\ bestNode \in index
        /\ storeStatus \in storeBlocks
        /\ HeightOf[storeStatus] >= HeightOf[bestNode]
        /\ proc = Idle => bestNode = storeStatus

\* Add, delete and orphanExpire, interleaved with block acceptance, keep the
\* two orphan maps in lockstep, and an accepted block never lingers in the
\* orphan buffer.
OrphanBufferConsistent ==
    /\ OMConsistent(om)
    /\ DOMAIN om.orphan \cap index = {}

\* The best height the chain reports never goes back, within a run or
\* across a crash and NewChain reload.
BestNeverRegresses ==
    [][bestNode' # NoBlock => HeightOf[bestNode'] >= maxServed]_vars

\* A BlockWaiter whose target the best chain has reached eventually sends
\* (unless the process dies first): the Broadcast in setState reaches every
\* sleeping waiter.
WaiterResolves ==
    \A w \in Waiters :
        (/\ phase = "running" /\ waiter[w] \in {"new", "waiting", "woken"}
         /\ HeightOf[bestNode] >= Target[w])
        ~> waiter[w] \in {"done", "dead"}

\* The chain implements its abstract promise (BestChain): c.bestNode is the
\* reported best, the Store's status the persisted one.  setState saves
\* before it publishes and drops memory on a failed save, NewChain reloads
\* what was saved, and only a higher block with a valid ancestry is saved.
BC == INSTANCE BestChain WITH best <- bestNode, durable <- storeStatus

BestChainRefined == BC!Spec

\* A valid orphan whose parent is in the index does not stay buffered: the
\* acceptance of the parent releases it (or it expires, or the process
\* dies).  The one way to strand it is a failed SaveBlock of the released
\* orphan, which nothing retries, so the promise is made while SaveBlock
\* has not failed.
SaveBlockFailed == storeFails["SaveBlock"] > 0

OrphanAdoption ==
    \A b \in Blocks \ Invalid :
        (/\ phase = "running" /\ b \in DOMAIN om.orphan /\ Parent[b] \in index
         /\ ~SaveBlockFailed)
        ~> (b \notin DOMAIN om.orphan \/ SaveBlockFailed)
=============================================================================
