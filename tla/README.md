# A verification project for the Linea rollup

TLA+ models of the Linea monorepo, the TLC runs that check them on small
instances, and TLAPS proofs of the properties that matter most. Paths below are
relative to the root of the repository. `PROJECT.json` holds the same
information in machine-readable form: which lines each definition models, which
properties each run checks, and which hazard of the code each property covers.

Run a model with `tlc -config X.cfg M`, a proof with `tlapm M_proofs.tla`.

## 1. The system and its parts

Linea is a zk-rollup. Users move ether and tokens between Ethereum (L1) and
Linea (L2). The coordinator cuts the L2 chain into batches, blobs and
aggregations, has each of them proven, submits the blobs and finalizes the
aggregations on L1. It also anchors on L2 the messages sent from L1.

```
 users --sendMessage--> LineaRollup (L1) <--submit, finalize-- coordinator
                           ^     |                               |    ^
        claim with proof --+     +-- MessageSent --> anchoring --+    |
                                                        |             |
 users <--claim-- L2MessageService (L2) <---------------+     request and
                           |                                  response files
                           +-- L2 blocks --> conflation -> blobs      |
                                             -> aggregations     prover controllers
```

| part | where | state | operations | what is hard about it |
|---|---|---|---|---|
| L1 rollup | `contracts/contracts/LineaRollup.sol`, `ZkEvmV2.sol` | shnarfs, finalized block, roots, hash of the finalized state, verifiers, operators | submit blobs or calldata, finalize, set and unset verifiers, fallback operator | forks of submitted blobs, stale finalization data, several operators |
| L1 message service | `contracts/contracts/messageService/l1/` | message number, rolling hashes, L2 Merkle roots, claimed bitmap | send, claim with a proof, legacy claim | each message paid once, from enough ether |
| L2 message service | `contracts/contracts/messageService/l2/` | inbox, last anchored number, rolling hashes, minimum fee | send, anchor, claim, roles | repeated, reordered or invented anchoring |
| Rate limiter | `contracts/contracts/messageService/lib/RateLimiter.sol` | limit, end of period, used amount | use, set limit, reset | lazily opened periods |
| Pauses | `contracts/contracts/lib/PauseManager.sol` | paused types | pause, unpause | each entry point checks the right types |
| Conflation | `coordinator/core/.../conflation/` | conflation and blob in progress, queue, monitors | new block, deadline check, trigger | threads, callbacks with monitors held, five limits |
| Blob compressor | `jvm-libs/linea/blob-compressor`, `prover/lib/compressor` | batches of the blob in progress | can append, append, new batch, reset | shared by the batches of a blob |
| Prover client | `coordinator/clients/prover-client/file-based-client` | place of each request | request, wait, time out, clean up at start | restarts, late answers, names of files |
| Prover controllers | `prover/cmd/controller` | files, locked job, exit code | list, lock, run, retry, publish, defer | several processes, crashes, renames as locks |
| Interconnection circuit | `prover/circuits/pi-interconnection` | none | ties blobs, executions and messages | |
| Aggregation | `coordinator/core/.../aggregation/` | blobs in flight, next block to poll, deadline | poll, process blob, deadline, request, save | re-entrance of triggers, stale deadline answers |
| Compression proofs | `coordinator/core/.../blob/` | queue of blobs, parent shnarf | handle, send, save | order of shnarfs, failed proofs |
| Submission, finalization | `coordinator/ethereum/blob-submitter` | none but the nonce | poll, filter, chunk, submit | pending transactions, other operators |
| Anchoring | `coordinator/ethereum/message-anchoring` | none but the nonce | poll events, filter, anchor | reads behind the head |
| Finalization monitor, records | `coordinator/ethereum/finalization-monitor`, `coordinator/persistence` | last update, tables | poll, handlers, clean up | failing handlers, restart |
| Block monitor | `coordinator/app/.../blockcreation` | next block, parent hash | poll | reorganisation, failing listener |
| Token bridge | `contracts/contracts/tokenBridge` | state of each token | bridge, complete, confirm, reserve | order of events on two layers |
| Postman | `postman` | status of each message | five pollers | restart, nonces, retries of claims |
| Finalized tag updater | `finalized-tag-updater` | last finalized block | poll, update | failed updates |
| Others | `bridge-ui`, `sdk`, `traces-api-facade`, `transaction-exclusion-api`, `state-recover`, `operations`, `testing-tools`, ... | | | see `PROJECT.json` |

## 2. Modules and how they correspond to the code

### 2.1 The contracts

- **`Clock`** declares `now`, the block timestamp. L1 and L2 share one clock.
- **`RateLimiter`** is `RateLimiter.sol`: `AddUsedAmount`, `ResetRateLimitAmount`,
  `ResetAmountUsedInPeriod`. It is instantiated once for each layer.
  **`RateLimiterAccounting`** drives it alone and records what was let through.
- **`L2Chain`** is the chain that is being proven: for each block its timestamp,
  the first and last `RollingHashUpdated` event, the L2->L1 messages and the
  claims. `Circuit` states what the interconnection circuit ties together:
  the blobs tile the blocks after the finalized one, the executions are segments
  of the chain, the rolling hash is the last one of those segments, and the
  Merkle roots hold their messages. That a proof exists only for executions of
  the real chain is assumed, as is collision resistance: a hash is what it
  hashes (a shnarf is a sequence of blobs, a rolling hash a sequence of
  messages, a Merkle root the sequence of its leaves). The code leaves the initial
  state root of an aggregation a free witness of the circuit, and binds neither the
  chain's identifier nor the address of the message service in the public input: that
  all executions are of one and the same chain is part of what is assumed.
- **`LineaRollup`** is `LineaRollup.sol` with the message service it inherits from.
  One action for each external function: `sendMessage`, `claimMessageWithProof`,
  `claimMessage`, `submitBlobs`, `submitDataAsCalldata`,
  `finalizeBlocks` (with `_finalizeBlocks`), `setFallbackOperator`,
  `renounceRole`, `setVerifierAddress`, `unsetVerifierAddress`, `pauseByType`,
  `unPauseByType`, `resetRateLimit`. The reverts are guards. Operators call
  `finalizeBlocks` with every combination of old and new parents, shnarfs and
  ranges (`FinalizationData`), so that the checks of the code, and not the good
  will of the caller, decide. The call a claim makes may call back
  into the contract; the code has finished its own changes by then, apart from
  paying, so a nested call is the same as one after the other.
- **`LineaRollupSpec`** closes `LineaRollup` with an L2 chain that may have anchored
  anything. **`MCLineaRollup`** is its TLC instance.
- **`L2MessageService`** is `L2MessageService.sol`: `l2SendMessage`,
  `anchorL1L2MessageHashes`, `l2ClaimMessage`, `setMinimumFee`, pauses.
  `SealOpenBlock` ends the current L2 block.
- **`LineaBridge`** composes both: the blocks that are finalized on L1 are those
  the L2 message service ran in. **`MCLineaBridge`** is its TLC instance.

### 2.2 The proof queue

- **`RequestFiles`**: the directories. A file name is a record: the job, the
  `.large` suffixes, the `.failure.code_N` suffix, the
  `.inprogress.LocalID` suffix. A rename is atomic.
- **`ProverController`** is the loop `runController`: list and sort (`List`,
  `Before`), lock by renaming (`tryLockFile`), run the prover, with the local
  retry (`runCmd`), move the response (`Publish`), move the request to the
  done directory or back to the queue for the large prover (`Close`); and a
  machine that goes down and is started again.
- **`ProverClient`** is `GenericFileBasedProverClient.requestProof` with the retries
  around it and `DirectoryCleaner` at start and stop. A request whose rename fails is
  waited for all the same, since `FileWriter` ignores the result of `renameTo`
  (`writeRequest`); any other failure before the wait ends the attempt
  (`requestFails`). Which request files count as in progress (`Found`) depends on the
  configured pattern: the default `\.inprogress\.prover.*` misses a deferred request
  that is locked, the `.*\.inprogress\.prover.*` of `coordinator-docker.config.toml`
  finds it. `anyMiddle` says which of the two is configured and never changes.
- **`ProofQueue`** composes both. **`MCProofQueue`** is its TLC instance.

A directory is listed in one step. A call of `requestProof` that is in flight when
the coordinator is stopped is frozen and starts again with it. A prover that exits with
code 0 has written its whole output; any other exit leaves the temporary file as it was, or
with a cut proof. `failures` counts crashes of controllers and file operations that failed,
`interruptions` stops of the coordinator and timeouts of requests still in the queue;
their sum is bounded.

### 2.3 Conflation

- **`BlobMaker`** is the compressor: the batches of a blob, `CanWrite`, `Write`,
  `sealBatch`. Compression is abstracted to a size for each block and a size for
  each batch.
- **`ConflationCalculator`** holds the calculators as functions of a record:
  the overflow checks in their order of priority (`Triggers`, `FirstTrigger`),
  `conflateBlock`, `fireConflationAndResetState`, `handleBatchTrigger`,
  `fireBlobTriggerAndResetState`, `reset`.
- **`Conflation`** holds the threads: `newBlock` on the thread on which the traces
  counters of a block arrive, and the deadline check with its callback. A step is
  what a thread does up to the next Java monitor it has to wait for; the three
  monitors (service, blob calculator, global calculator) are variables. The fourth, of
  the deadline calculator, is not: see section 4, item 3.
  **`MCConflation`** is its TLC instance.

The clock is abstracted: a deadline check that finds nothing to do changes
nothing. Blocks that do not fit in an empty blob are excluded, since the sequencer
does not produce them.

## 3. Runs

| run | states | checks |
|---|---|---|
| `rate_limiter` | 173,721 | the counter is exact; a window of one period lets at most two limits through |
| `rollup` | 147,434 | the finalized blocks are a prefix of the L2 chain, what they received is a prefix of what L1 sent, the claimable messages are theirs, finalization only moves forward, the fallback operator only after six months without newer finalized blocks |
| `rollup_roles` | 865,280 | a pause freezes what it stands for, with all roles acting |
| `rollup_fallback` | violation | "six months since the last finalization" |
| `bridge` | 271,136 | inbox, number and rolling hash agree; each message is claimed once; finalized claims were sent; the rollup can pay every finalized withdrawal |
| `bridge_roles` | 60,128 | the same escrow with the roles of L2 and a legacy inbox; the pauses of L2 |
| `proof_queue` | 2,600,566 | locks are exclusive, responses are whole, success means a response unless it could not be moved, each failure leaves at most one lock behind |
| `proof_queue_liveness` | 122,878 | every request is decided, a proof of an execution reaches the coordinator, lost requests and responses of executions are asked for again |
| `proof_queue_cleanup` | violation | the clean-up at start is over before requests are looked for |
| `conflation` | 285,552 | batches and blobs cut the chain, within the limits and at the targets; no calculator throws |
| `conflation_locks` | violation | every block reaches the calculators |
| `conflation_deadline` | violation | a conflation on a quiet chain times out |

**Bounds.** Every bound is a constant used in a guard.

- Contracts: two L1 messages, two L2 blocks, two submissions: enough for two blobs
  that fork from one parent, for one blob over two blocks against two blobs of one
  block, for a finalization prepared before another one, and for a hash repeated or
  reordered in an anchoring. Time runs to 4 with six months being 2, so that the
  fallback operator is both refused and granted. Trees have one leaf, so two
  messages need two roots. `rollup_roles` and `bridge_roles` have one of each and
  all roles instead.
- Rate limiter: a period of 2, times to 6: a burst across the end of a period and the
  lazily opened third one.
- Proof queue: an execution job, which can be retried and deferred, and an aggregation
  job, which cannot; the large controller and another one. An execution request is
  for one of them at a time; for the aggregation they compete. Any two incidents (`MaxIncidents`): two failed renames, a crash and a timeout, a restart
  and a failed write, and so on. Exit codes 0 (success) and 137 (retry locally, then
  defer; the configuration may list a code for both); the safety run has the pattern of the shipped configuration. The liveness run
  has the execution job alone, exit code 77 (retry locally, then fail) as well, and both
  patterns. The timeout of a request that has left the queue is not bounded.
- Conflation: three blocks with every combination of traces (fits with another, only
  alone with a small one, over the limit) and sizes; two deadline checks in flight;
  limits of two blocks, two batches; a target at block 2. Traces counters may arrive in
  any order or never.

Deadlock checking is off since bounded systems stop; where stopping would be wrong there
is a liveness property.

**Fairness.** `ProofQueue`: weak fairness of each controller's loop (its delay and its
prover end, a machine that is down is started again), of each `requestProof`, and of the
start of the coordinator; and of the timeout, since `fs-polling-timeout` ends every wait.
Crashes, failed operations, deletions and stops are not fair: nothing makes them happen. `Conflation`: weak fairness of the thread of each block (its counters
arrive; it runs on while it can take its next monitor), of the timer and of the header
request, since requests end; strong fairness of the check that succeeds and of the trigger,
since on a quiet chain the clock passes every deadline and a monitor that is free again and
again is obtained. The sequencer owes no blocks.

## 4. Where the code and its documentation disagree

1. `setFallbackOperator` (`LineaRollup.sol:213`) counts six months from the timestamp of the
   last finalized L2 block; its comment says "since the last finalization". What does hold
   is `FallbackOnlyIfFinalizedIsOld`.
2. `cleanDirectory` (`DirectoryCleaner.kt:35`) completes before its deletions: after a
   restart a request of the last run can be found, waited for and then deleted. The wait
   ends with the timeout. `ExecutionProofsArrive`, `RequestsAreDecided` and
   `ExecutionsAreServed` hold even so: the retry writes a deleted request again.
3. `GlobalBlockConflationCalculator.kt:118` calls its batch consumer with its monitor held.
   The deadline callback so takes the monitors global, blob, service; `newBlock` takes them
   service, blob, global. The two can wait for each other for ever. There is a second
   inversion that the model leaves out: if the safe header is there before `thenPeek`
   (`ConflationCalculatorByTimeDeadline.kt:84`) registers the callback, the callback runs on
   the timer thread with the monitor of the deadline calculator held and waits for the
   global one, while `newBlock` holds the global one and waits for the deadline
   calculator's. No property that passes depends on it: it adds only ways to stop.
4. `ConflationCalculatorByTimeDeadline.kt:96` resets the deadline after the trigger has
   released the global calculator. A block that is appended in between has no deadline: on a
   quiet chain its conflation waits for the next block. Without that last reset
   `TimeoutFires` holds on the same instance.

## 5. What is proved

The theorems hold for every value of the constants that satisfies the `ASSUME`s of the
modules: any chain, any number of messages, jobs, controllers, crashes.

**`CounterHonesty`** (`RateLimiter_proofs`): `Spec => []CounterIsHonest`. The inductive
invariant adds that the clock, the contract's counters and the history are natural numbers
(the subtraction of what was forgiven is then exact); the ledger plays no role in it.

**`FinalizedPrefix`** (`LineaRollup_proofs`): `Spec => []FinalizedIsL2Prefix`. `PrefixInv` is
the property and the shape of chain and shnarfs. The step that matters is
`finalizeBlocks`. `CircuitOfFinalization` says what the proof implies for the data of the
call; the check of the last finalized state ties its start to the stored state;
`TilesConcatenate` joins the blobs finalized before with the new ones; and
`RollingHashComposes` shows that following the rolling hash up to the old end and on to the
new one is following it all the way. Sealing a block changes nothing of the past
(`SealKeepsPast`).

**`FeedbackLoop`**: `Spec => []FinalizedAnchoringIsL1Prefix`. The property is not inductive:
`LoopInv` adds that the rolling hashes of L1 extend each other (`L1Hashes`), that those
of the L2 chain do (`L2Hashes`), and that the finalized one is one of L1's
(`FinalizedHashIsL1s`), which is what `_validateL2ComputedRollingHash` checks. A finalized
block's hash is then a prefix of the last finalized one, which is a prefix of L1's.

**`LockExclusion`** (`ProofQueue_proofs`): `OneLargeController => (Spec => []LocksAreExclusive)`.
`LockInv` says that a job is at most once under its first name, locked or not; that
the coordinator writes only where there is none; that what is listed matched
the controller's pattern; that what is about to be deleted is not locked; and that a held
file is in the directory under its holder's name. That there is one large controller is how
the system is deployed (`docs/architecture-description.md:450`).

**`WholeResponses`, `SuccessMeansResponse`**: `ResponseInv` adds to `LockInv` what the
temporary file of a controller holds at each point of its loop: after exit code 0 the whole
proof of the held job, and, once it was moved, a response for it. A success whose response
could not be moved is exempt: the code does report it as a success. What follows from it is
the subject of `ExecutionsAreServed`.

**`StrandedLocks`**: `Spec => []EachIncidentStrandsOne`, for any number of jobs and
controllers. `StrandedInv` adds to the bound `LockInv`, that a controller which works on
nothing holds nothing, and that the stranded files are finitely many. A step either strands nothing, because every lock it leaves is held by its owner,
or it is a crash or a failed rename, which strands the one file its controller held and is
counted. A stranded lock is never released (`controller.go:84`): with the pattern of the shipped
configuration the coordinator takes it for a request in progress on each retry.

**Only model-checked.** The liveness properties, which need fairness; the properties of
`LineaBridge` and of `Conflation`; `ClaimableIsFinalized`, `FinalizationMovesForward`, the
pauses, `WindowBound`. `RequestsAreDecided` and `ExecutionsAreServed` accept a stranded lock as
an end, since the code has none other for it.

## 6. What is not modelled

- Arithmetic circuits, cryptography and compression: see the assumptions in section 2.
- Gas and gas pricing: floating point averages over fee histories.
- Granting and revoking roles by the administrator, except what the contract itself does
  with `OPERATOR_ROLE`; proxies and upgrades.
- `_anchorL2MessagingBlocks`, which only emits events, and the cap on the number of Merkle
  roots of one finalization.
- User interface, SDK, scripts, test tools, stateless servers.
- The parts listed in the plan.

## 7. Plan

Next modules, in this order:

1. **`Aggregation`**: the global aggregation calculator, its triggers and
   `ProofAggregationCoordinatorService`; the blobs that are processed again after a trigger
   are a work list, one step each, under the monitors. Properties: aggregations tile the
   blobs, stay within the proof limit and end at the targets; the asserts of `onAggregation`
   never fail; no stale deadline answer is applied. Instance: four blobs, one deadline check
   in flight. Together with it the shnarf chain of `BlobCompressionProofCoordinator`: each
   saved blob continues the one before.
2. **`Submission`**: both polling loops against `LineaRollup`, with pending transactions and a
   second operator; an abstract specification "the finalized block only moves to ends of
   aggregations" that the composition implements. `chunkBlobs` as an operator against a
   reference definition over all lists of bounded length.
3. **`MessageAnchoring`** against `LineaBridge`: the polling loop with reads behind the head;
   every message sent is eventually anchored, once. The search window of `L2QuerierImpl` as
   an operator against "the last event".
4. **`Records`**: finalization monitor, clean-up, block monitor and restart of the coordinator:
   from whatever is in the tables after a crash the coordinator goes on without a gap.
5. **`TokenBridge`** on two message channels: conservation of supply, one bridged
   token for each native token.
6. **`Postman`**: the statuses of a message under its pollers, restarts and lost claims.
7. **`FinalizedTagUpdater`**, and the sparse Merkle verifier as an operator against
   the definition of a tree.

Next proofs: `BatchesCutTheChain` and `BlobsHoldTheirBatches` for `Conflation`,
`InboxIsRollingHash` and `FinalizedClaimsWereSent` for `LineaBridge`,
`FinalizationMovesForward` as an action property, and the tiling of `Aggregation`.
