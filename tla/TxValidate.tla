------------------------------ MODULE TxValidate -----------------------------
(***************************************************************************)
(* Chain.ValidateTx (protocol/tx.go) called concurrently, by API and peer *)
(* goroutines, against the tx pool while the chain moves its best block.  *)
(*                                                                         *)
(* One call is three steps, split where another goroutine can run in      *)
(* between: the HaveTransaction check (with its early return of the       *)
(* cached error), the read of the best header with the validation that    *)
(* uses it, and the pool update (AddErrCache or ProcessTransaction).       *)
(*                                                                         *)
(* The tx pool is not part of this repository; its operations follow the *)
(* contract of spec.md section 6, and ProcessTransaction admits or        *)
(* rejects by the pool's own policy (spec.md 4.2).  Each pool operation   *)
(* is atomic, as the pool guards its maps with its own lock.              *)
(* validation.ValidateTx is a pure function of the transaction here: the  *)
(* sets GasInvalid and RuleFail say which transactions fail gas accounting *)
(* and which pass it but break another rule.                               *)
(*                                                                         *)
(* The chain is its abstract specification BestChain (which Chain.tla     *)
(* implements), without crashes (a crash empties the pool and kills every *)
(* call with it), and with setState's locked section split in two:        *)
(* index.SetMainChain (line 136), which moves the index's best node that  *)
(* BestBlockHeader reads without c.cond.L, and c.bestNode = node (137).    *)
(***************************************************************************)
EXTENDS Naturals, FiniteSets, TLC

CONSTANTS
    Blocks, Genesis, Parent, Invalid, NoBlock,   \* the chain, as in BestChain
    Txs,          \* transactions
    GasInvalid,   \* gasStatus.GasValid is false
    RuleFail,     \* gas valid, but validation returns an error
    Callers       \* concurrent ValidateTx calls

ASSUME GasInvalid \subseteq Txs /\ RuleFail \subseteq Txs
ASSUME GasInvalid \cap RuleFail = {}

VARIABLES
    best, durable,  \* the chain (BestChain): c.bestNode and the Store's status
    indexBest,      \* c.index.BestNode(), the tip of the index's main chain
    pool,           \* txs in the pool: tx -> [height, failed]
    errCache,       \* the pool's error cache: tx -> error
    call            \* call[c]: the state of ValidateTx call c

vars == <<best, durable, indexBest, pool, errCache, call>>

Chain == INSTANCE BestChain

Errors == {"nil", "ErrGas", "ErrRule", "ErrPoolPolicy"}

Call == [pc : {"idle"}]
    \cup [pc : {"checked", "validated", "done"}, tx : Txs, hdr : Chain!Nodes,
          gasValid : BOOLEAN, err : Errors]

(***************************************************************************)
(* The tx pool (spec.md 6).                                                *)
(***************************************************************************)
HaveTransaction(t) == t \in DOMAIN pool \cup DOMAIN errCache

GetErrCache(t) == IF t \in DOMAIN errCache THEN errCache[t] ELSE "nil"

AddErrCache(t, e) == errCache' = errCache @@ (t :> e)

\* ProcessTransaction(tx, isFailed, height, fee): the pool admits the
\* transaction at the given height (a failed one is kept as failed), or
\* rejects it by its own policy (a duplicate, a low fee).
ProcessTransaction(t, failed, h) ==
    {[pool |-> [x \in DOMAIN pool \cup {t} |->
                  IF x = t THEN [height |-> h, failed |-> failed] ELSE pool[x]],
      err |-> "nil"],
     [pool |-> pool, err |-> "ErrPoolPolicy"]}

(***************************************************************************)
(* The chain and validation.                                               *)
(***************************************************************************)

\* A header read while the chain has no best node yet (nil).
BestBlockHeaderMutantNil == NoBlock

\* BestBlockHeader: node := c.index.BestNode(), read without c.cond.L.
BestBlockHeader == indexBest

\* validation.ValidateTx: (gasStatus.GasValid, err).
ValidateRules(t) ==
    [gasValid |-> t \notin GasInvalid,
     err |-> CASE t \in GasInvalid -> "ErrGas"
               [] t \in RuleFail   -> "ErrRule"
               [] OTHER            -> "nil"]

PoolAndCalls == <<pool, errCache, call>>

\* setState, lines 128-131: SaveChainStatus persists the new best node.
ChainPersist ==
    /\ Chain!Persist
    /\ UNCHANGED <<indexBest, pool, errCache, call>>

\* A setState that moves the index's main chain to a new best node before
\* the node is persisted.
SetMainChainMutantBeforeSave ==
    /\ best = durable /\ indexBest = best
    /\ \E b \in Blocks :
          /\ Chain!Height[b] > Chain!Height[best]
          /\ Chain!Lineage[b] \cap Invalid = {}
          /\ indexBest' = b
    /\ UNCHANGED <<best, durable, pool, errCache, call>>

\* setState, lines 133-136: under c.cond.L, index.SetMainChain(node) for
\* the node just persisted; from here on index.BestNode() returns it.
SetMainChain ==
    /\ best # durable
    /\ indexBest # durable
    /\ indexBest' = durable
    /\ UNCHANGED <<best, durable, pool, errCache, call>>

\* setState, lines 137-141: c.bestNode = node, still under c.cond.L.
PublishBest ==
    /\ Chain!Publish
    /\ indexBest = durable
    /\ UNCHANGED <<indexBest, pool, errCache, call>>

(***************************************************************************)
(* ValidateTx(tx).                                                         *)
(***************************************************************************)

\* Lines 30-31: a tracked transaction returns its cached error at once.
Begin(c, t) ==
    /\ call[c].pc = "idle"
    /\ call' = [call EXCEPT ![c] =
                  [pc |-> IF HaveTransaction(t) THEN "done" ELSE "checked",
                   tx |-> t, hdr |-> Genesis, gasValid |-> TRUE,
                   err |-> GetErrCache(t)]]
    /\ UNCHANGED <<best, durable, indexBest, pool, errCache>>

\* Lines 34-36: the best header is read and the transaction validated
\* against a block built from it.
Validate(c) ==
    /\ call[c].pc = "checked"
    /\ LET v == ValidateRules(call[c].tx)
       IN call' = [call EXCEPT ![c].pc = "validated",
                               ![c].hdr = BestBlockHeader,
                               ![c].gasValid = v.gasValid,
                               ![c].err = v.err]
    /\ UNCHANGED <<best, durable, indexBest, pool, errCache>>

\* Lines 37-40: invalid gas is cached as the transaction's error.
RejectGas(c) ==
    /\ call[c].pc = "validated"
    /\ ~call[c].gasValid
    /\ AddErrCache(call[c].tx, call[c].err)
    /\ call' = [call EXCEPT ![c].pc = "done"]
    /\ UNCHANGED <<best, durable, indexBest, pool>>

\* Lines 42-46: the pool decides, at the height of the header read.
Admit(c) ==
    /\ call[c].pc = "validated"
    /\ call[c].gasValid
    /\ \E r \in ProcessTransaction(call[c].tx, call[c].err # "nil",
                                    Chain!Height[call[c].hdr]) :
          /\ pool' = r.pool
          /\ call' = [call EXCEPT ![c].pc = "done", ![c].err = r.err]
    /\ UNCHANGED <<best, durable, indexBest, errCache>>

\* The chain is up at genesis, the pool is empty, no call has started.
Init ==
    /\ best = Genesis /\ durable = Genesis /\ indexBest = Genesis
    /\ pool = <<>> /\ errCache = <<>>
    /\ call = [c \in Callers |-> [pc |-> "idle"]]

Next ==
    \/ ChainPersist \/ SetMainChain \/ PublishBest
    \/ \E c \in Callers :
          \/ \E t \in Txs : Begin(c, t)
          \/ Validate(c) \/ RejectGas(c) \/ Admit(c)

Spec == Init /\ [][Next]_vars

-----------------------------------------------------------------------------
(* Properties *)

TypeOK ==
    /\ best \in Chain!Nodes /\ durable \in Chain!Nodes
    /\ indexBest \in Chain!Nodes
    /\ DOMAIN pool \subseteq Txs
    /\ \A t \in DOMAIN pool :
          pool[t] \in [height : Nat, failed : BOOLEAN]
    /\ DOMAIN errCache \subseteq Txs
    /\ call \in [Callers -> Call]

(***************************************************************************)
(* The header ValidateTx reads without c.cond.L may be ahead of c.bestNode *)
(* but never ahead of the Store: setState persists the node before the    *)
(* index's main chain moves to it, so no transaction is admitted at the   *)
(* height of a block the Store has not persisted.                          *)
(***************************************************************************)
HeaderPersisted ==
    \A t \in DOMAIN pool : pool[t].height <= Chain!Height[durable]

(***************************************************************************)
(* spec.md 5: the best-chain state is guarded by one lock, and readers see *)
(* the current best.  So the header ValidateTx reads is never ahead of the *)
(* best the chain reports (BestBlockHeight): every admitted transaction   *)
(* carries a height at most c.bestNode's.                                   *)
(***************************************************************************)
HeaderNotAhead ==
    \A t \in DOMAIN pool : pool[t].height <= Chain!Height[best]
=============================================================================
