# TLA+ models of the corepool chain core

This directory holds TLA+ models of the chain core in `src/`, together with
the TLC configurations that check them. The core is the chain state machine
(`protocol/protocol.go`, `protocol/tx.go`, `protocol/store.go`), the orphan
buffer it feeds, the bytecode VM (`protocol/vm/vm.go`), and the stratum
block-template code (`stratum/ey/*.go`) that serves the chain's work to
miners.

## 1. Inventory

### Components and their state

| Component | Source | State | Operations |
|---|---|---|---|
| Chain (block index and best chain) | `protocol/protocol.go` | `index` (BlockIndex), `bestNode`, `cond` (mutex plus condvar), `processBlockCh` (capacity 1024), `orphanManage`, `txPool`, `store` | `NewChain`, `initChainStatus`, `setState`, `BlockWaiter`, `BestBlockHeight/Hash/Header`, `InMainChain`, `CalcNextSeed/Bits` |
| Block processor | not in `src/` (spec.md §4.4, §5) | the work of one `blockProcesser` goroutine | `processBlock`, `saveBlock`, `saveSubBlock`, connect or reorganize, then `setState` |
| Orphan manager | not in `src/`; the tests are in `protocol/orphan_manage_test.go` (spec.md §4.3) | `orphan` (hash → block and expiry), `prevOrphans` (parent → list of hashes) | `Add`, `delete`, `orphanExpire`, `Get`, `GetPrevOrphans` |
| Store | `protocol/store.go` (interface only) | blocks, chain status, UTXOs | `SaveBlock`, `SaveChainStatus` (atomic), `GetStoreStatus`, `LoadBlockIndex`, ... |
| Transaction validator | `protocol/tx.go` | none of its own; uses the TxPool and the best header | `ValidateTx` |
| Tx pool | not in `src/` (spec.md §6) | pool and error cache | `HaveTransaction`, `GetErrCache`, `AddErrCache`, `ProcessTransaction` |
| Verification engine | `protocol/vm/vm.go` | `dataStack`, `altStack`, `pc`, `runLimit`, `deferredCost`, `depth` | `Verify`, `run`, `step`, `push`, `pop`, `applyCost`, `deferCost`, `falseResult` |
| Stratum block template | `stratum/ey/blocktemplate.go`, `job.go`, `nodesyncer.go` | the current template, `bt` behind `btLock` | `Compare`, `CreateJob`, `fetchBlockTemplate`, `Pull`, `Submit` (modelled); `GetBt`, `Encode`, `encodeLogin`, `genReplyData` (not modelled) |
| API handlers | `api/transact.go`, `api/assets.go` | none (they build requests) | `build`, `buildTxs`, `submit`, `EstimateTxGas`, `createAsset` |
| Unrelated code | `gonum/blas/level3double.go`, tensority tests, `cmd/bytomcli`, `test/` | none | dense float linear algebra, PoW hashing, CLI entry, test helpers |

### How the components interact

- Peers call `ProcessBlock`, which sends a message on `processBlockCh`. A
  send blocks while the channel is full. The single `blockProcesser`
  goroutine takes the messages off the channel one at a time.
- If a block's parent is not in the index, the processor hands it to the
  orphan manager. Otherwise it validates the block, saves it, adds it to
  the index and deletes it from the orphan manager. Then it releases the
  orphans that were waiting on it. If the new block's height beats the best
  height, it calls `setState`.
- `setState` first calls `SaveChainStatus` with no lock held. It then takes
  `cond.L`, calls `SetMainChain`, assigns `bestNode` and calls
  `cond.Broadcast()`. A failed save returns before memory is touched.
- Each `BlockWaiter(h)` starts a goroutine. The goroutine sleeps in
  `cond.Wait()` while the best height is below `h`, then sends once on a
  buffered channel.
- An external ticker calls `orphanExpire(now)`, which runs concurrently with
  the processor.
- `ValidateTx` runs on API and peer goroutines. It reads the best header
  without `cond.L`, consults and updates the tx pool, and calls the VM
  (through `validation`) for every input.
- On restart, `NewChain` rebuilds memory from the Store. It runs
  `initChainStatus` (save genesis, then save the status) when the Store has
  no status. Otherwise it loads the index up to the stored height and sets
  `bestNode` to the stored node.

### What is hard

- Concurrency. The processor runs alongside waiters, readers, the expiry
  ticker and `ValidateTx` callers.
- A crash can hit between the two writes of `initChainStatus`, or between
  `SaveChainStatus` and the in-memory update in `setState`.
- A persistence failure: a failed `SaveBlock` drops a block, and any
  orphans released behind it, without a retry. A failed `SaveChainStatus`
  leaves the best unchanged.
- Orphans can expire while they sit in a released list, before they are
  processed.
- Lost wakeups: a waiter must never sleep past the height it waits for.
- The VM's gas accounting. Deferred costs may be negative, pops refund
  gas, exhaustion clamps the budget to zero, and a panic is recovered with
  the named result `gasLeft` never assigned.
- Readers without the lock. `BestBlockHeader` reads the index's best
  without `cond.L`, and `setState` moves the index before `bestNode`.
- Template comparison in stratum. It returns -1 whenever the previous
  hashes differ, and it reads `b.height` right after guarding against
  `b == nil`.

### Properties per component

- Chain: the index is a tree of valid blocks rooted at genesis. The
  in-memory best is never ahead of the persisted status, and equals it
  outside `setState`. The reported best height never goes back, even across
  a restart. Waiters always signal once their target is reached.
- Orphan manager: the two maps stay in lockstep. A valid orphan whose
  parent is in the index is released, unless a `SaveBlock` failed.
- VM: the budget never goes negative or above the limit. Exhaustion reports
  exactly 0. An unsupported version refunds the whole limit. The budget
  always equals the limit minus the cost of the data stack minus the flat
  charges. Success means the top of the stack is true.
- ValidateTx: a transaction is admitted at a height the Store has
  persisted. Whether that height can be ahead of the published best is
  run `txvalidate_header`.
- Stratum: the served template, and every miner's job, eventually build
  on the node's best block.

## 2. Plan

The modules, in the order they were built. The most important behaviour
comes first.

1. `OrphanManage.tla` (done): the orphan buffer as operators.
2. `Chain.tla` and `MC_Chain` (done): the processor, the Store, `setState`,
   the waiters, expiry and crash/restart.
3. `VM.tla` and `MC_VM` (done): `Verify`, its gas accounting and the panic
   recovery.
4. `BestChain.tla` (done): the abstract promise of the chain. `Chain`
   refines it through INSTANCE ... WITH.
5. `TxValidate.tla` (done): concurrent `ValidateTx` calls against the pool,
   on top of `BestChain`.
6. `Stratum.tla` (done): pulls, `Compare`, job broadcast and `Submit`.
7. `EstimateGas.tla` (done): `EstimateTxGas` in W-bit integers against an
   unbounded reference.
8. `VerifySpec.tla` (done): the engine's contract. `VM` refines it, which
   replaces two invariants that restated `applyCost`.
9. Revision (done): `SaveBlock` may fail in `Chain`; `TxValidate` splits
   `setState`'s critical section into the index move and the `bestNode`
   assignment; `Stratum` keeps only the code of this repository and takes
   the server loop as its environment.

Still open:

- More opcode handlers, and the alt stack.
- The job encoders and `GetBt` of `stratum/ey`, and a composition of
  `Stratum` with the chain as its node.

## 3. Modules and runs

### `OrphanManage.tla`

- `orphan` is a function from hash to expiry.
- `prevOrphans` is a function from parent hash to a sequence of hashes.
- `OMAdd` is `Add`. It is idempotent on a tracked hash and appends to the
  parent's list.
- `OMDelete` is `delete`. It removes an emptied list together with its key.
- `OMExpire` is `orphanExpire`. It deletes every entry whose deadline is at
  or before `now`.

The implementation file is not in this repository, so these definitions are
marked `spec_modelled` and follow spec.md §4.3 and the cases in
`orphan_manage_test.go`.

### `Chain.tla` (checked by `MC_Chain.cfg`, run `chain`)

Each variable below is followed by the code state it stands for:

- `index`: the BlockIndex.
- `bestNode`: `c.bestNode`, which is also the index's main-chain tip,
  updated in the same critical section.
- `storeBlocks` and `storeStatus`: the Store.
- `om`: `c.orphanManage`.
- `processBlockCh`: the process-block channel.
- `pending`: the processor's work list. It holds the block being processed
  and the orphans it released, so the recursion of `saveSubBlock` becomes
  an explicit list.
- `proc`: where the processor is inside `setState`.
- `waiter`: one per `BlockWaiter` goroutine.

Each action below is followed by the code it models:

- `InitSaveGenesis` and `NewChain`: `NewChain` and `initChainStatus`.
- `Submit`: a peer's `ProcessBlock`.
- `Dequeue`, `SkipKnown`, `AddOrphan`, `RejectBlock` and `AcceptBlock`: the
  branches of `processBlock` and `saveBlock`.
- `SaveBlockFails`: `Store.SaveBlock` returns an error for a block that
  would be accepted. `saveBlock` returns the error before the block enters
  the index, and the block (with any orphans it would have released) is
  dropped. Nothing retries it. Failures are counted per Store write in
  `storeFails` and bounded by `MaxStoreFail`.
- `SkipExpired`: `saveSubBlock` failing to `Get` an orphan that expired.
- `SaveChainStatus` (success or counted failure) and `PublishBest`: the two
  halves of `setState`.
- `OrphanExpire`: the ticker.
- `BlockWaiter` and `WaiterCheck`: one pass of the wait loop under the lock.
  The check and `cond.Wait` are one atomic step because `Wait` releases the
  lock atomically.
- `Crash`: memory lost, Store kept, live waiters dead.

`LoadBlockIndex`, the Store's rebuild of the index on restart, is not in
this repository (`store.go` declares only the interface), so it is marked
`spec_modelled`, as are `SaveBlockFails` and the processor's actions.

Checked, with the bounds of `MC_Chain.cfg`:

- The model has a genesis `g`, a branch `g ← a1 ← a2`, a rival `b1` at the
  height of `a1`, and an invalid `x1` on `b1`. This covers a reorganisation
  to `a2` when `b1` came first, an equal-height block that is never
  promoted, and an orphan chain behind an invalid block.
- 4 deliveries are allowed, so one block can be a duplicate. The channel
  capacity is 2. There is 1 crash, 1 failing call of each Store write
  (`SaveBlock` and `SaveChainStatus`), 2 waiters
  (targets 1 and 2), TTL 1 and a clock up to 1.
- The properties are `TypeOK`, `IndexIsValidTree`, `DurableBest`,
  `OrphanBufferConsistent`, `BestNeverRegresses` (an action property), the
  liveness properties `WaiterResolves` and `OrphanAdoption`, and
  `BestChainRefined`, the refinement described next.
- `OrphanAdoption` says that a valid orphan whose parent is in the index
  leaves the buffer, unless a `SaveBlock` has failed. The condition is
  needed: without it TLC finds the trace in which `a1` is accepted and
  releases `a2`, `SaveBlock` fails on `a2`, and `a2` is stranded in the
  buffer (its parent will not be delivered again). The mutant that releases
  no orphans breaks the conditioned property.
- About 459 000 distinct states, in about 2.5 minutes.
- Deadlock is not checked. The real system idles when no peer sends a
  block: the processor blocks on an empty channel and the clock is bounded.

Fairness: weak fairness on the processor (a single goroutine that is
runnable whenever it has work), on start-up, and on each waiter's
`WaiterCheck`. A woken goroutine is scheduled eventually. Peers, the clock,
the expiry ticker and crashes get no fairness, because nothing in the code
forces them.

### `VM.tla` (checked by `MC_VM.cfg`, run `vm`; `MC_VM_panic.cfg`, run `vm_panic`)

One behaviour is one call of `Verify(ctx, gasLimit)`:

- `ctx` is the context: VM and transaction versions, program, arguments
  and gas limit. `status` moves from `args` (the argument pushes) to `run`
  (the `run` loop) to `done` (the return). `gasLeft` and `err` are the named
  results.
- `vm` is the `virtualMachine` record: `runLimit`, `deferredCost` and
  `dataStack`. It also holds a ghost, `flat`, the flat charges (`applyCost(1)`
  of the handlers) paid so far.
- `Push` and `Pop` charge and refund `8 + len(data)`. With `deferred` set they
  add to `deferredCost`; otherwise they call `ApplyCost` at once.
  `ApplyCost` clamps `runLimit` to 0 and fails with `ErrRunLimitExceeded`.
- `StepExpansion`, `StepBadOp` and `StepOp` are the three paths of `step`.
  `StepOp` runs the handler, then settles `deferredCost` unless the handler
  failed, then advances `pc`.
- `EndRun` and `FalseResult` are the exit of `run` and the final check.
  `RejectVersion` is the version check, and `Recovered` is the deferred
  `recover`.
- The opcode handlers live in `ops.go`, which is not in this repository.
  A representative set is modelled from spec.md 4.1: a data push,
  `EQUAL` (two deferred pops and a deferred push), `DROP`, `FAIL`, an
  expansion `NOP`, and a handler that panics (`TRAP`).

Bounds: data items of length 0 and 1, programs of length 0 to 3, zero or
one argument, and limits 8, 17, 26 and 40. These sit on both sides of the
cost of one and of two pushes, so exhaustion happens in an argument push,
in a data push and in a flat charge. A deferred settlement is never
positive here: `EQUAL`, the one handler with deferred costs, pops two
items and pushes one, so its net deferred cost is always a refund, and
exhaustion in a settlement is not exercised. Both transaction versions
are checked (expansion reserved or not), and so is an unsupported VM
version. The run covers about 55 000 states in seconds. Deadlock is not
checked because a returned call takes no further steps.

The properties:

- `GasConservation`: outside a clamp, `runLimit + cost(dataStack) + flat`
  is the limit. The deferred costs therefore cancel exactly, and so do the
  refunds.
- `VerifyRefined`: `VM` implements `VerifySpec` (see below). Through the
  refinement mapping, a call that has not returned is `running`.
- `UnexpectedReportsGasLeft` (the `vm_panic` run, expected to be violated):
  a recovered panic reports the gas left at the panic. TLC violates it in
  two steps. A program `<<TRAP>>` with limit 8 returns `ErrUnexpected` with
  `gasLeft = 0`, but 8 units were left. The deferred `recover` in
  `vm.go:40-47` assigns only `err`, so the named result `gasLeft` keeps its
  zero value. spec.md 4.1 and 7(c) say the gas consumed so far is reported.
  The discrepancy is listed under "findings" in `PROJECT.json`.

### `VerifySpec.tla`, the engine's contract (checked as `VerifyRefined` in run `vm`)

`VerifySpec` is what a caller of `Verify` may rely on (spec.md 4.1, 6 and
7). It has no stack, program counter or step costs. A call is `running`
until one `Return` step reports an outcome from `Outcomes(ctx)`:

- An unsupported VM version returns the whole limit with
  `UnsupportedVM`.
- Every other failure returns a gas in `0..limit`, and
  `RunLimitExceeded` returns exactly 0.
- Success returns strictly less than the limit: a true result was pushed,
  and pushes cost gas.
- `DisallowedOpcode` is possible only when expansion opcodes are reserved
  (transaction version 1).

Weak fairness on `Return` states that every call terminates, as the gas
budget guarantees (spec.md 6). `VM` maps `args` and `run` to `running`.
The check therefore covers every path by which `Verify` returns, and
that it does return. The mutant that fails without clamping the budget
breaks it.

The `Unexpected` outcome allows any gas in range. The gas a recovered panic
should report is the separate question of run `vm_panic`.

### `BestChain.tla`, the abstract chain (checked as `BestChainRefined` in run `chain`)

`BestChain` states what the chain promises its readers. It has two
variables: `best`, the best block reported (`NoBlock` while the process is
down), and `durable`, the best block the Store holds. Its actions are:

- `Start`: genesis on an empty Store, otherwise the stored best, is
  reported.
- `Persist`: a higher block whose whole lineage is valid is persisted.
  This needs `best = durable`, so one save is in flight at a time.
- `Publish`: the persisted block becomes the reported best.
- `Crash`: the reported best is forgotten.

It assumes weak fairness on `Start` and `Publish`.

`Chain` implements it under the mapping `best <- bestNode`,
`durable <- storeStatus`. `InitSaveGenesis`, the processor's bookkeeping,
the orphans and the waiters are stuttering steps. `NewChain` is `Start`,
a successful `SaveChainStatus` is `Persist`, `PublishBest` is `Publish`,
and `Crash` is `Crash`. The refinement fails if a failed save still
publishes, or if an invalid block reaches the best. `TxValidate` uses
`BestChain` as its chain.

### `TxValidate.tla` (runs `txvalidate` and `txvalidate_header`)

A `ValidateTx` call is three steps, split where another goroutine can run:

- `Begin`: `HaveTransaction`, with the early return of `GetErrCache`
  (tx.go lines 30-31).
- `Validate`: the `BestBlockHeader` read and `validation.ValidateTx`
  (lines 34-36).
- `RejectGas` or `Admit`: `AddErrCache`, or `ProcessTransaction` at the
  header's height (lines 37-46).

The chain is `BestChain` without crashes, plus one variable, `indexBest`,
for what `c.index.BestNode()` returns. `setState` is split into its three
parts, so a call can read the header between any two of them:

- `ChainPersist`: `SaveChainStatus` (protocol.go 128-131), `BestChain`'s
  persist step.
- `SetMainChain`: the index's main chain moves to the persisted node
  (line 136, under `cond.L`).
- `PublishBest`: `c.bestNode` is assigned (line 137), `BestChain`'s publish
  step.

`BestBlockHeader` is `indexBest`: `protocol.go:100` reads the index's best
node without taking `cond.L`.

The tx pool and `validation` are not in this repository. spec.md §6 says
only that the pool admits a transaction or rejects it by its own policy,
so `ProcessTransaction` returns either outcome nondeterministically.
Validation is a fixed verdict per transaction.

The run has 3 callers and 3 transactions: one valid, one that fails a rule
but has valid gas, and one with invalid gas. The chain has a rival branch.
That lets the calls read the header at each point of `setState` while the
best moves. About 152 000 states, in seconds.

- `HeaderPersisted` (run `txvalidate`): every admitted transaction carries
  a height the Store has persisted. It holds because `setState` saves the
  status before it moves the index. The mutant that moves the index before
  the save breaks it.
- `HeaderNotAhead` (run `txvalidate_header`, expected to be violated):
  spec.md §5 puts the best-chain state under one lock that readers take,
  so an admitted transaction's height should never be above the published
  best (`c.bestNode`). TLC finds a 6-state trace:
  1. `ChainPersist` saves `a1`.
  2. `SetMainChain` moves the index to `a1`, while `bestNode` is still `g`.
  3. A call begins, reads the header (height 1) and admits `t1` at height 1.

  The lock-free read at line 100 therefore sees the index's best before the
  chain publishes it. This is listed under "findings" in `PROJECT.json`.

### `Stratum.tla` (checked by `MC_Stratum.cfg`, run `stratum`)

The state of `Stratum`:

- `tip`: the node's best block, which moves only to a higher block.
- `pull[p]`: one `Pull` call per puller. It goes idle, then GetWork is
  sent, then the reply arrives.
- `cur`: the served template.
- `notify`: the sessions still to be sent a job.
- `jobs`: the last job the pool cut for each session.
- `submitted`: what the last `Submit` of each session returned.
- `rpcFails`: failed RPC calls so far, bounded by `MaxRpcFail`.

The steps are:

- `PullStart` and `GetWork`: the RPC. The node answers from the best block
  it has when it answers, or fails (a transport error, or a reply whose
  header is nil).
- `PullDone`: `fetchBlockTemplate`'s error paths, then the install of the
  new template when nothing is served or `Compare` returns -1.
- `SendJob`: `CreateJob` for one queued session.
- `Submit`: the miner's header, built on its job, goes out by RPC. A false
  result is logged and nil returned, or the RPC fails.

The server loop that calls `Pull`, `Compare` and `CreateJob` (`Install`
and `SendJob`) belongs to the stratum package, which is not in this
repository. It is the module's environment, taken from spec.md §4. The
node's rule for accepting a submitted header is likewise the node's, not
code of `nodesyncer.go`. Templates and jobs keep only the height and the
previous hash. The other header fields are copied through unchanged.

Bounds: two branches off genesis (`g <- a1 <- a2` and `g <- b1`), so the
node can switch from `b1` to the higher `a2`; two pullers, so replies can
overlap; two sessions; one failed RPC. That is about 34 000 states in
seconds. Weak fairness holds on each puller, because the server loop keeps
pulling and the node answers a call it was sent, and on sending a queued
job. Miners' shares and other nodes' blocks get none.

- `ServedTracksTip` (liveness): while the node stays on a block, the served
  template and every session's job eventually build on it, with pulls
  overlapping and RPCs failing. It is written as
  `[]<>(tip # b \/ BuildsOn(b))`, the tableau-free form of
  `tip = b ~> (tip # b \/ BuildsOn(b))`. The mutant of `Compare` that
  compares the served template's hash with itself breaks it.
- `TypeOK`. The mutant of `fetchBlockTemplate` that copies a nil header
  breaks it.

### `EstimateGas.tla` (runs `estimate`, `estimate_overflow` and `estimate_panic`)

`EstimateTxGas` is one step from a template, chosen in `Init`, to a
response. `estimateSignSize`, `estimateP2WSHGas` and the input loop are
folds (`FoldLeft`, `FoldLeftDomain`). Every `+`, `-` and `*` of the code
wraps at W bits, except the product that `checked.MulInt64` guards.
`math.Ceil` of the float quotient is exact at these magnitudes.

The reference, written as sums over the template in unbounded integers,
gives the exact fee rounded up to the base rate.

W is 22, not 64. TLC's integers are 32 bits, and 22 is the widest W at
which every intermediate product still fits. The code's control flow does
not depend on W. The rates are bytom's consensus values:
`StorageGasRate = 1` and `VMGasRate = 200`.

- `EstimateIsRoundedCost` (run `estimate`): the check covers 544
  templates, with marshal failures, missing spends or outputs, P2WPKH and
  P2WSH inputs, and one or two signing witnesses. Every successful
  response is the exact cost rounded up to the base rate.
- The same property is violated in run `estimate_overflow`. A template
  with a large quorum (quorum = keys = 30) gets a successful response with
  `TotalNeu` of -500000 and a wrapped, positive `VMNeu` of 1412696. Only
  the storage product is checked, and it
  cannot fail at rate 1. The sums and the `VMGasRate` and base-rate
  products wrap. At 64 bits the same shape needs a quorum near 10^14,
  which the client's JSON can carry.
- `EstimateHandlerResponds` (run `estimate_panic`, expected to be
  violated): the handler `estimateTxGas` turns every error into an error
  response. But a P2WSH input at a position with no signing instruction
  indexes past `SigningInstructions` (`transact.go:271`). That request
  panics out of the handler and never gets a response.

## 4. Not modelled

- The UTXO view and transaction replay. Block validity is the constant set
  `Invalid`.
- Hashing, PoW (`tensority`), seeds and difficulty bits. `CalcNextSeed` and
  `CalcNextBits` are lookups in the index.
- The gonum BLAS routines: dense floating-point linear algebra that is
  outside TLC's reach and has no state.
- The CLI entry point and the test helpers.
- The stratum job encoders (`Encode`, `encodeLogin`, `genReplyData`), the
  job id, and the getters `GetId`, `GetDiff` and `GetTarget`: formatting of
  the fields `CreateJob` copies.
- `eyNodeSyncer.GetBt`: `bt` is never assigned in this repository, so it
  always returns its error.
- The stratum server loop (not in this repository); it is the environment
  of `Stratum`.
- The API's `build`, `buildTxs`, `submit` and `createAsset`. They assemble
  requests for the wallet and the tx builder, which are not in this
  repository, and keep no state of their own.
- Logging, and the VM's trace output.
- The VM's alt stack, `depth`, and the opcodes other than the representative
  set above; `wrapErr` only formats an error.
