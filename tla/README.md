# ZeroDev SDK v1: models, checks and proofs

TLA+ modules about the repository `zerodevapp/sdk-v1`: an ERC-4337 bundler
(`packages/bundler`) and the client SDK that signs user operations and sends
them to one (`packages/sdk`), with three small packages around them.  The
modules are translated from the TypeScript source; TLC checks them on small
instances, and TLAPS proves the most important facts for every instance.

Paths below are relative to `src/`; `modules/` is
`packages/bundler/src/modules/`, `sdk/` is `packages/sdk/src/`.

## 1. The system

| Component | State it keeps | Operations | What must be right |
|---|---|---|---|
| Reputation table, `modules/ReputationManager.ts` | `entries`: per address, operations seen and operations included; `whitelist`, `blackList` | `updateSeenStatus`, `updateIncludedStatus`, `crashedHandleOps`, `hourlyCron`, `clearState`, `getStatus` | who gets banned, by whose doing, and how a ban ends |
| Mempool, `modules/MempoolManager.ts` | `mempool`: an array of entries; `entryCount`: a counter per sender | `addUserOp` (with replacement), `removeUserOp`, `removeAllUserOps`, `getSortedForInclusion`, `clearState` | one entry per sender and nonce, replaced only by one paying 10% more; the counter; the order |
| Execution, `modules/ExecutionManager.ts` | `mutex`, `autoInterval`, `maxMempoolSize`, a timer | `sendUserOperation`, `attemptBundle`, `setAutoBundler` | one request at a time, each answered |
| Bundling, `modules/BundleManager.ts` | `mutex`; the locals of `createBundle` across awaits | `sendNextBundle`, `createBundle`, `sendBundle`, `_selectBeneficiary` | what a bundle holds, what leaves the mempool, who is blamed |
| Event listener, `modules/EventsManager.ts` | `lastBlock`, the aggregator of the last transaction | `initEventListener`, `handlePastEvents`, three handlers | what an event does to the reputation table, heard once, late or again |
| Debug RPC, `DebugMethodHandler.ts` | none | `clearState`, `sendBundleNow`, `setBundlingMode`, `setBundleInterval`, dumps | safe at any point of a running build |
| Validation, `modules/ValidationManager.ts`, `parseScannerResult.ts`, `BundlerCollectorTracer.ts` | the tracer's collection, per simulation | field checks, `step` of the tracer, `parseScannerResult`, `validateUserOp` | an operation is refused exactly if its validation broke a rule |
| RPC server, `BundlerServer.ts`, `UserOpMethodHandler.ts` | none | dispatch, gas estimation, receipts | what is answered about an operation is its own |
| Waiting for an operation, `sdk/UserOperationEventListener.ts`, `sdk/ZeroDevProvider.ts` | a promise, a timer, a polling loop | `start`, `stop`, `listenerCallback` | the promise settles, with what happened |
| Signer, `sdk/ZeroDevSigner.ts`, `sdk/session/SessionSigner.ts`, `sdk/HttpRpcClient.ts` | the bundler client and the paymaster's provider in use; a frame per nested call | `sendTransaction`, resend with higher fees, fallback | retries are bounded and replace; a call is not executed twice; the configured client is restored |
| Account APIs and validators, `sdk/*AccountAPI.ts`, `sdk/validators/` | `isPhantom`; the configured mode, enable data and signature | building and signing an operation | initCode, nonce, estimate and signature fit the account's state on chain, and each other |
| Web socket, `sdk/InfuraWebSocketProvider.ts` | the provider in use, requests and events kept for the next, two timers | `create`, the handlers of open, pong and close, the proxy | nothing asked for or listened to is lost when the socket is |
| Gas, paymasters, session keys, deployer, WalletConnect | little or none | pure arithmetic, single requests, check-then-deploy, relaying | see `PROJECT.json` |

How they interact.  The server hands `eth_sendUserOperation` to
`ExecutionManager.sendUserOperation`, which holds the *execution mutex* while
it validates the operation, adds it to the mempool (which reports the
paymaster and the factory to the reputation table) and, if enough is waiting,
bundles.  `sendNextBundle` holds the *bundling mutex*: it copies and sorts the
mempool, goes through the entries (each validated a second time, paymaster
deposits read once each), picks a beneficiary and calls `handleOps`.  The
auto-bundle timer and `debug_bundler_sendBundleNow` take only the bundling
mutex.  `debug_bundler_clearState` takes none.  Everything shares one mempool
and one reputation table, in one process, between awaits.

On the client, `sendTransaction` builds an operation through the account API
(chain, paymaster, estimate), signs it through a validator, and sends it through
the HTTP client; a refused replacement or any other error makes it call itself,
with higher fees or with the fallback providers.  Then a
`UserOperationEventListener` waits for the event.

What is hard: the interleaving at awaits of requests and forced attempts; data
read before an await and used after it (an entry of the mempool, a status, a
deposit); each await failing separately with a mutex or two held; an order of
updates that matters (the cron, the counter beside the array); events heard
once, late or again; answers that are lost or wrong, and retries of what may
have been done; state swapped for the length of a nested call; a socket that
fails while its failure is being repaired; and values on the edge of a limit.
The complete list, with lines, is `hazards` in `PROJECT.json`.

## 2. The modules

| Module | Models | Correspondence |
|---|---|---|
| `ReputationManager` | the table | Methods are operators on a table (`updateSeenStatus(es, addr)`), so that callers can apply several in one stretch of JavaScript; the actions are those of the callers, in `EventsManager` and `Bundler`. `NoEntry` and `NoAddr` are `undefined`. |
| `UserOpPool` | nothing concrete: the abstract specification of a mempool | A set; `Add` replaces what has the key if it pays enough; `Drop` takes away anything. |
| `MempoolManager` | the array and the counter | `mempool` is a sequence in arrival order, `entryCount` a function where 0 is `undefined`. |
| `Bundler` | `ExecutionManager`, `BundleManager`, the debug methods, over one pool and one table | `pc` says at which await each task is; each mutex is a queue whose head holds it; `build` holds the locals of `createBundle`. |
| `BundlerProperties` | | what `Bundler` promises |
| `EventsManager` | the listener, driven by the chain's log; extends `ReputationManager`, whose table it drives | `cache` is `eventAggregator` and its hash; `log` is the chain, a sequence of events for each transaction, and `heard` the subscription; `indirect` are the transactions that are no `handleOps` to the EntryPoint itself; `past` is the loop of `handlePastEvents`, which awaits between two events, so that others act in between. |
| `UserOperationEventListener` | one `waitForTransaction` of the client, with the hooks | `timer`, `poll` and `iteration`, and `callback` are the three things that run; `promise` keeps its first settlement; `chain` is the EntryPoint. |
| `UserOpMethodHandler` | the answers about a mined operation, read from the log of `EventsManager`, which it extends | Methods are functions of the log, `Ends` is the filter by hash; a receipt of `null` is the empty sequence, and `getUserOperationByHash` answers null, an operation, or an exception. |
| `BundlerCollectorTracer` | the tracer | Operators on what it has collected; an opcode stands for each class the scanner tells apart. |
| `parseScannerResult` | the judgement of a trace | The `requireCond`s are conjuncts, and `parse` says which exception the first of them to fail is: `OpcodeValidation` or the scanner's own `Error`; a slot is the address its hash starts with, and an offset. |
| `ValidationManager` | one validation, over the two above | `trace` is what the entities really did, step by step, and only the properties read it; `tracer` is what the tracer made of it. |
| `ZeroDevSigner` | `sendTransaction` of both signers | A call is its innermost frame (`calls[c]`), as outer frames only wait; `saved` is the providers they will put back. `providers` is the HTTP client and the paymaster's provider, which always change together. Building is an action per group of awaits: `Prepare` reads nonce and fees, `AskPaymaster` asks the paymaster of the moment, `Sign` is the estimate and the signature. `Accept`, `Refuse` and `Drop` are a bundler with the rules of this repository's mempool and bundle builder, `Mine` is the chain. |
| `KernelAccountV2API` | building and signing for a Kernel v2 account | `pc` says which of the calls to the node or the paymaster is awaited; `op.asked` is the selector of the call the client wants, `op.selector` that of `callData`, which the paymaster may replace; `kernel` is the account on chain, with the selectors the validator is enabled for, which `OthersAct` may change at any point. |
| `InfuraWebSocketProvider` | keep-alive and reconnection | `_requests` and `_events` are those of the provider in use, `requests` and `events` those kept for the next; `wire` and `replies` are what is under way on the socket. `Fail` is an 'error' event of `ws`, which nobody handles. |
| `MC*` | | finite instances |
| `*_proofs` | | section 5 |

`ZeroDevSigner`, `KernelAccountV2API` and the listener are three views of one
call of the client: the first abstracts what is built and when the listener
settles, the others abstract the retries.  `UserOpMethodHandler` composes with
`EventsManager` (one log), `ValidationManager` with the scanner and the tracer;
`Bundler` sees a validation as a call that passes or fails.

`Bundler` uses the operators of `ReputationManager` and `UserOpPool` through
INSTANCE; that the array of `MempoolManager` is such a pool is a run of its own
(`mempool`), so the bundler can use the set.  `getSortedForInclusion` is
`NextEntries`: lowest fee first; the order of equal fees is lost with the array,
and `Bundler` allows every order.

Each action of `Bundler` is one stretch of JavaScript from an await to the next,
with one exception: the loop of `createBundle` takes one action per entry it
skips, and `Yielded` keeps all other tasks out while a task is in the loop.
An operation is a record with what the code looks at: `sender` and `nonce` (the
strings the client sent), `fee` (`maxPriorityFeePerGas`), `paymaster`,
`factory`, and the `prefund` and `gas` that `simulateValidation` returns.

Details of the source that the model keeps, and a reader may take for mistakes:

* `paymasterStatus === THROTTLED ?? count > 1` is the comparison alone
  (`modules/BundleManager.ts:120`): any entry of a throttled entity is skipped.
* `entryCount[sender] ?? 0 - 1` (`modules/MempoolManager.ts:117`) keeps a
  defined count, so removal never lowers it; the comment on line 72 wonders why.
* `hourlyCron` computes `opsIncluded` from the decayed `opsSeen`
  (`modules/ReputationManager.ts:71`), so one run lifts every ban, where the
  comment (line 65) has a backoff of either value.
* The server runs with equal slacks, so the two limits of `getStatus` are one
  and no entity is ever THROTTLED.
* The paymaster of a `FailedOp` error is decoded with a checksum, while the
  mempool and the builder use the lower-case string of `getAddr`: the blame is
  recorded under another key (`Checksummed`).
* Senders are compared as the strings clients sent.
* `handleEvent` compares `ev.event` with the names of TypeScript types, and
  `_includedAddress` asks for more than the 42 characters an address has
  (`modules/EventsManager.ts:41`, `:86`), so the handlers never count anything,
  although the class is to "trigger ReputationManager's Included" (line 11).
* `crashedHandleOps` sets the count to 100, and the limit is "more than
  10 * 10": the entity that "should be banned immediately"
  (`modules/ReputationManager.ts:151`) is not, until its next operation is seen.
* The timer of a wait is never cleared, so `transactionReverted` is called for
  every transaction when it fires, confirmed ones too; and a failed operation is
  reported to both hooks, as the callback resolves after it has rejected.  The
  hooks therefore contradict the promise, and only the promise is judged.
* The receipt of the first operation of a bundle contains what the validation of
  the whole bundle emitted (`UserOpMethodHandler.ts:172`): the run `receipts`.
* An operation that came by way of another contract, or of another method than
  `handleOps`, has a receipt, but looking it up by its hash throws
  (`UserOpMethodHandler.ts:202`).
* The comparison of a slot with the padded address is never true, the check for
  calls with value compares two objects and always passes
  (`parseScannerResult.ts:202`, the run `value_calls`), and the deadline check
  asks for a deadline that has passed (`modules/ValidationManager.ts:186`).
  "GAS" is forgiven before any opcode whose name contains `CALL`, `CALLER` and
  `CALLVALUE` included (`BundlerCollectorTracer.ts:168`), where the comment
  below speaks of `CALL` alone.
* `isReplacementOpError` parses the body of the error inside the catch
  (`sdk/ZeroDevSigner.ts:179`): if it is not JSON there is no fallback.
* The bundler of this repository refuses an underpriced replacement in words
  (`modules/MempoolManager.ts:83`) that `isReplacementOpError` does not know:
  the signer then falls back or throws (`Refuse` may answer either way).
* A fallback starts counting retries anew, and the resend inside it forgets
  `fallbackMode`, so with `shouldFallback` the number of attempts has no bound.
* A session signer sets the fees of a resend to zero, which means "ask again":
  its resends need not pay more, although it logs "Resending tx with Increased
  Gas fees" (`sdk/session/SessionSigner.ts:119`).
* `smartAccountAPI.httpRpcClient`, used for estimates, is never switched to the
  fallback; a nested call that throws leaves the signer with the fallback
  providers, and so may two calls that overlap.
* A signature for the modes sudo and plugin is prefixed with the configured
  mode, not with the resolved one (`sdk/validators/BaseValidator.ts:116`).
* `off()` on the web socket while it reconnects forgets nothing: the kept event
  is listened to again, and `off()` with `on()` after it doubles the listener,
  which the model leaves out (`Listen` waits until the kept event is gone).  A
  request whose answer was lost with the socket is served again.  A method that was bound before a reconnection writes to
  the old provider, and its promise never settles (`stranded`).  After a close
  with code 1000 what waits goes on waiting.
* No handler is registered for the 'error' event of `ws`: a handshake that fails
  throws where nobody catches, and nothing reconnects.  Pings start when the
  socket opens, so a peer that is silent in the handshake is never noticed.

## 3. The runs

A run either passes (every property holds in every reachable state) or shows
one disagreement between the code and what the repository says of it.

| Run | Module, cfg | What it shows |
|---|---|---|
| `mempool` | `MCMempoolManager` | Five operations of two senders in an array. `CounterNeverUnderReports`: the counter errs only upwards; `ImplementsPool`: the array is the abstract pool of `UserOpPool`. |
| `bundler_concurrent` | `MCBundler`, `Bundler_concurrent.cfg` | Two requests and a forced attempt, interleaved at every await: `MutexDiscipline`, `BundleOneOpPerSender`, `BundleFits` (the gas sum kept across awaits is that of the bundle, and within the limit), `NoPaymasterOvercommitted` (what is charged adds up to what was read, once, from the EntryPoint), `NoBlacklistedInBundle`; and `EveryTaskEnds` under `FairSpec`: every request is answered and every forced attempt ends, with every call failing at will. |
| `bundler_serial` | `MCBundler`, `Bundler_serial.cfg` | Without forced attempts (no timer, no `sendBundleNow`), with two bundling modes, `clearState` at any time and all three statuses: `NoBannedInBundle`, `NoReplacedOpInBundle`, `RemovalsAreJudged`. |
| `bundler_removal` | `MCBundler`, `Bundler_removal.cfg` | violation of `RemovalsAreJudged` as soon as a forced attempt runs: while it awaits the second validation of an operation, a request replaces that operation; the builder then removes by sender and nonce, and the replacement, which nobody found invalid, is gone. `NoBannedInBundle` and `NoReplacedOpInBundle` fail the same way. |
| `events` | `MCEventsManager`, `EventsManager.cfg` | Bundles of up to three operations are mined, directly or by way of another contract, heard and replayed. `AnswersAreItsOwn`: the operation found for a hash is that operation, or the lookup throws for the reason above, and its receipt has all that its execution emitted and nothing of another execution. |
| `receipts` | `MCEventsManager`, `UserOpMethodHandler.cfg` | violation of `ReceiptIsItsOwn`, which is what the comment at `UserOpMethodHandler.ts:169` says ("leave only logs for the given userOpHash"): in a bundle of two, of which one deploys its account, the receipt of the first has the deployment of the second. |
| `listener` | `UserOperationEventListener` | One wait of the client. `PromiseIsTrue`: apart from a timeout the promise tells what happened on chain, a failure with its reason is a rejection although the callback resolves right after it; the first hook agrees with it; and `transactionConfirmed` is called at most once, for an operation that was executed. `WaitEnds`. |
| `signer` | `MCZeroDevSigner`, `ZeroDevSigner.cfg` | Two concurrent calls, with and without session, fallback, a paymaster that sets fees and a Gelato bundler. `AttemptsBounded` (no fallback); `OnlyFallBackRepeats`: two operations of one call are both executed only with a fallback attempt between them, although a bundler's failure may be reported of an operation that it took; `ResendsCanReplace`; `AnnouncedWereAccepted`, up to what bundlers drop; `FallbackIsScoped`, for a client that awaits each call. |
| `validation` | `MCValidationManager`, `ValidationManager.cfg` | Every trace of up to three steps, spread over three levels. `ScannerFollowsRules`: the verdict of the scanner, which sees counts and sets per level, agrees with the rules it enforces, stated step by step (`Rules`), and is never its own `Error`. The rules are the code's: not that on value, and GAS before `CALLER` is forgiven. |
| `value_calls` | `MCValidationManager`, `CallsWithValue.cfg` | violation of `CallsWithValueAreRefused`, which is what the message at `parseScannerResult.ts:205` says ("May not may CALL with value"). |
| `kernel_v2` | `KernelAccountV2API` | Every kind of validator in every configured mode, with other sessions deploying, using, enabling and disabling in between, a paymaster that may replace the call, and every call failing at will. `UndisturbedIsValid`, `EstimatedAsSigned`: see below. |
| `websocket` | `InfuraWebSocketProvider` | `WaitingIsKept`, `ListeningSurvives`, and `WaitingEnds` under `FairSpec`, with two failures of the network, one of which may hit the reconnection. |

`UndisturbedIsValid` needs two conditions that the code cannot check: since the
build began nobody else changed the account and no call failed, and the
configured mode is one that fits the account (`Fits`), because of the prefix
above.  Without either the operation may be refused on chain, which the model has.
`EstimatedAsSigned` needs the first, and that the paymaster does not make the
operation a call of another function (`op.selector = op.asked`): the batch that
`getPaymasterResp` builds for a token paymaster has its own selector, for which
the validator may not be enabled, and then the gas was estimated for another mode.
Of whether the signature enables the validator it needs no more; of the prefix
it needs `Fits`.

`WaitingEnds` is conditional: every handshake ends, and no socket fails with an
'error' event.  The code guarantees neither, see the last of the details above.
`WaitingIsKept` speaks of requests that were sent; a call that was bound before a
reconnection and sent after it (`stranded`) is lost, and the property says so.

Four things the repository says and the code does not do have no run, and are in
the details above: that a crashed entity is banned immediately, that both values
decay each by itself, that inclusions are counted, and, in
`sdk/session/SessionSigner.ts:119`, that a resend pays more.

Every property of a passing run has a mutant (`PROJECT.json`): a variant of one
definition, marked *Faulty variant* in its module, with a plausible bug, which
makes TLC find that property violated.

## 4. Bounds and fairness

* **Fees** 10, 11, 12 straddle the 10% rule; **gas** 1 against `MaxBundleGas`
  2, with an operation of gas 3, reaches every branch of the gas check; prefund
  1 against deposits 0, 1, 2 makes a paymaster pay for none, one or two.
* **Limits** of the reputation: the bundler's runs use a denominator of 1 and
  slacks of 1 or 2, so that two or three operations seen are enough to ban;
  `bundler_serial` has a lower throttling slack, which the server has not, so that
  all three statuses occur.
* **Tasks**: two requests and one forced attempt, three requests where there is
  none.  A violation of exclusion, and a stale read, need two tasks; the third
  waits for a mutex while the other two hold both.  A tick may come back after it
  ended, so one stands for any number that do not overlap; requests come once.
* The listener polls with the eight iterations of the code, and the timer may
  fire at any point between them, as the timeout is a parameter.
* `MaxOps` in `mempool` bounds how often one sender is counted, and `MaxBundle`
  in `events` the operations of a bundle; both are guards of the actions and
  stand for nothing in the code.  One replay at a time is under way.  Three operations in a bundle are one before,
  one between and one after two events.
* `signer`: the market fee falls from 40 to 34 between the calls, so the second
  has to resend (34, then 38, where more than 44 is asked) and may run out of retries
  (`MaxTxRetries` 1).  `MaxSends` 3 is one attempt more than a call without a
  fallback has, so `AttemptsBounded` is not cut off by it; with a fallback it
  bounds recursion that the code does not.
* `validation`: `MaxSteps` 3 lets a hash, an access and a third step meet in one
  level or over several, and GAS be followed by every opcode or by the end of
  its level; the slots are at offsets 0, 127 and 128, the hashes at lengths 64
  and 512.
* `kernel_v2`: `MaxNonce` 3 operations of the account, two by others around one
  of the client, and two selectors; the proofs need no such bounds.
* `websocket`: `MaxDrops` 2, one failure and one during its repair, and two
  requests.
* Requests are symmetric in `bundler_serial`; no liveness run uses symmetry.

Fairness (`FairSpec`).  JavaScript's event loop runs every ready continuation,
and the provider answers every call or the call times out with an error, so a
task that can go on again and again does so: strong fairness for each task's
steps, because `Yielded` and the mutexes enable and disable them in turn.
`async-mutex` serves its waiters in order, which is in the queues, not in the
fairness.  For the client's wait only its timer is fair.  For the web
socket the timers fire (`Create`, `Ping`, `PongTimeout`), and a server that is
reached answers (`Serve`, `Answer`); no pong and no handshake is assumed to come
through.  Nothing is assumed about
clients, the timer or the debug API, nor about which of its possible answers a
call gives.

## 5. What is proved

All theorems hold for every value of the constants, under the named assumptions
of the modules (`AddrsAssumption`, `ParamsAssumption`, `ReputationAssumption`, `ChecksummedAssumption`,
`BundlerAssumption`, `OpsAssumption`, `StepsAssumption`, `RequestsAssumption`,
`StakesAssumption`, `LastIterationAssumption`, `ConfigsAssumption`,
`FeesAssumption`, `RetriesAssumption`, `SendsAssumption`, `DropsAssumption`,
`MaxNonceAssumption`), which only say what type each
constant has and which tokens differ; TLC evaluates them in the runs.

| Module | Theorems |
|---|---|
| `EventsManager_proofs` | of the listener: `EventsType`; of the server's answers: `AnswersOwn` |
| `MempoolManager_proofs` | of the abstract pool: `PoolKeysUnique`; of the array: `MempoolInvariant`, `MempoolType`, `CounterCovers`, `MempoolImplementsPool`, `MempoolKeysUnique` |
| `Bundler_proofs` | `MutexInvariant`, `MutexesExclude`, `Invariant`, `BundlerType`, `OneOpPerSender`, `NoneBlacklisted`, `GasWithinLimit`, `DepositsCover`, `BundlerKeysUnique`; with `Ticks = {}`: `SerialNoReplaced`, `SerialNoBanned`, `SerialRemovals` |
| `ValidationManager_proofs` | `ValidationInvariant`, `ValidationType`, `ScannerIsExact` |
| `UserOperationEventListener_proofs` | `ListenerInvariant`, `ListenerType`, `PromiseSettlesTruly` |
| `ZeroDevSigner_proofs` | `SignerInvariant`, `SignerType`, `AttemptsWithinRetries`, `OnlyFallBackRepeatsCalls`, `ResendsReplace`, `ToldOnlyOfAccepted`, `FallbackStaysInScope` |
| `InfuraWebSocketProvider_proofs` | `ProviderInvariant`, `ProviderType`, `RequestsAreKept`, `EventsAreKept` |
| `KernelAccountV2API_proofs` | `AccountInvariant`, `AccountType`, `UndisturbedOperationsAreValid`, `SignedAsEstimated` |

**The listener and the answers of the server.**  Both read the chain's log, and
`EventsTypeOK` and `AnswersAreItsOwn` follow from one inductive invariant,
`EventInv`, whose part `LogInv` says how transactions lie in the log: each is a
bundle (`BundleOK`), that is `v` events of its validation, then two of each
operation in turn; no operation is in two transactions; and within one the sender
and the nonce tell the operations apart.

* That a mined bundle keeps `LogInv` (`MinedKeepsLog`) is three arguments.  Where
  its events lie: the flattening of the pairs (`BundleShape`).  That two of its
  operations differ in sender or nonce: a nonce counts what came before, and the
  later operation of a sender has strictly more before it (`BundlesToldApart`).
  That it shares no operation with an earlier one: `Bundles` takes from what is
  not mined.
* The answers are then a calculation of places.  The operation ends at one place of one
  transaction (`EndsOnce`, `OwnEvent`); what `_filterLogs` keeps starts after the
  end of the operation before, or with the validation (`LogsOfOne`); and in a
  transaction that can be parsed `FoundIn` has one choice.

Folds, flattening and the first of several places are inductions, over a log or a
bundle of any length.  As no installed prover can instantiate an induction
theorem, they go by a least element, which comes from the well-foundedness of
inclusion (`MinimalSubset`, `UpToBound`).

**The mempool.**  `CounterNeverUnderReports` is inductive only for an array whose
keys are unique (`Fit`): a replacement and a removal act on the first entry of a
key, and what they do to the counter is right because that entry is the only
one.  Each operation is one of three moves of the array (append, replace in
place, remove at a place), each with its effect on the keys, on the operations
of a sender and on the set of entries; the last gives the refinement.  That
something that is there has a *first* place is the least element of a set of
indexes, which comes from the well-foundedness of inclusion.

**The bundler.**  Its inductive invariant is `IInv == MutexInv /\ SharedInv /\
BuildInv`.

* `MutexInv`.  `MutexDiscipline` is not inductive: when the holder leaves, the
  next head could be a task that is elsewhere.  The queues must hold each task
  once, and only tasks that wait or hold (`QueuesHonest`).  Every action is one
  of seven moves on `pc` and the two queues (`QueueStep`), so the proof goes
  through the moves, and once through the actions.
* `SharedInv` types the shared state.
* `BuildInv`.  What the bundle promises depends on checks made before an await:
  the sender is new to the bundle, the entities are not blacklisted, the gas
  fits.  The invariant carries them across: `CurrentOK` at "revalidate" and
  "balance", `CurrentFits` at "balance" only, because the gas check is made
  after the first await.  It holds because no one else can touch the locals,
  which is `MutexInv`.
* `SumsOK`, a part of `BuildInv`: `totalGas` is the gas of the operations in the
  bundle, and a deposit that was read has lost exactly the prefund of the
  operations it sponsors.

The two sums add up a set by a recursion that picks elements in an order nobody
knows.  That adding an element adds its value is proved by induction over finite
sets.  The library's induction theorems take a predicate, which the provers
cannot instantiate; the proofs take the set of the subsets for which the claim
holds instead, and use that strict inclusion is well founded on finite sets.

`BundlerKeysUnique`: only `AddAndAttempt` adds to the mempool, after the
replacement rule; every other step drops or leaves.

The last section of `Bundler_proofs` shows why forced attempts are needed for the
violation of `bundler_removal`: with none, whoever builds is a request and holds the
execution mutex, so nobody can add to the pool or be counted as seen.  The
invariant `SerialInv` says that every operation the builder has in hand is
still the only one of its key in the pool (`Fresh`), and that the current one
and those in the bundle are not banned.  `clearState` at any point keeps it.

**Validation.**  `ScannerFollowsRules` compares two things that are computed apart:
the scanner's judgement of the counts and sets that the tracer keeps per level,
and the rules of each step of the trace.  The invariant says what the tracer
knows after any number of steps (`Collected`): the count of an opcode on a level
is the number of its steps there, but for a GAS followed by an opcode
whose name contains `CALL` (`Called`) and for a GAS that is the last step so far and
whose fate is open (`Waits`, which is what `lastOp` remembers); the accesses, the
hashes and the calls are those of the steps; and a level ran out of gas if one
of its steps did.  `Begun` says where the validation is, and `ByEntities` that
only an entity that the operation has makes steps, so that a level without a
step breaks no rule.  At the end no GAS waits any more, a count is zero exactly
if no step stands behind it, and each condition of the scanner is equivalent to
one of the rules (`ParseByRules`).  The scanner's own errors cannot occur
(`NoErrorOfItsOwn`): all three levels are there, and only entities of the
operation access storage.

**The client.**  The listener's invariant says that the callback starts only when
polling has ended and the operation is on chain, and that confirming is its last
act.

The signer's invariant has four parts.  `CallInv` ties a frame to the attempts of
its call: the operation in hand is the last one sent (`Recorded`), without a
fallback the attempts are the retries counted (`Counted`), and a resend starts
from 113/100 of the fee before it (`Priced`; `ResendsReplace` then is
arithmetic on `113 * fee \div 100`).  `TakenInv` is about
operations that a bundler took: what follows such an attempt in its call is in
fallback mode, and if nothing follows yet, the call is not about to resend.
This holds because only a failure, never "underpriced", may be reported of an
operation that was taken, and a failure leads to a fallback or to a throw.
`AnnouncedInv`: an operation that was accepted is covered and stays so, whether
its caller has been told or not.  The account is past its nonce, or one of its
nonce that pays no less is held by a bundler or was dropped by one; a replacement
pays more, and mining takes an operation away only by taking the account past its
nonce.
`ScopeInv`, for a client that awaits each call: one call is under way at a
time, and the providers it saved are the primary ones at the bottom and those of
the fallback above, so that coming back through any depth of frames ends at
the primary ones, unless a nested call threw.

The web socket's invariant is the conjunction of its safety properties: they are
inductive together, as each of the two moves of a request (into `requests` on
`Create`, back on `Open`) keeps the sets disjoint and their union unchanged, and
what `Open` sends is all that its provider then has.

The account's invariant follows the build: at each `pc` what has been read so
far (`PluginOK`, `InitCodeOK`, `NonceOK`) and resolved so far (`DummyOK` for the
selector that was asked for, `PrefixOK` for that of `callData`) agrees with the
account as it is, as long as the build is undisturbed; `AccountOK` holds of every build: an
account that is not deployed has nonce 0, and so has an operation whose nonce
has not been read.

**Only model-checked.**  `EveryTaskEnds`, `WaitEnds` and `WaitingEnds`: liveness
under fairness and ENABLED are beyond the provers.  Every invariant and every
action property that a passing run checks is proved.

## 6. What is left out, and why

* In `Bundler` validation is a call that passes or fails; so is `handleOps`.
  `ValidationManager` has the former in detail, for one operation.
* `entryCount` and the aggregator are not in `Bundler`: nothing the code does
  with them has an effect there (`checkSenderCountInMempool` is empty, and
  validation rejects every operation that has an aggregator).  `MempoolManager`
  has the counter.
* The comparator and the copy of `getSortedForInclusion`.  Priority fees above
  2^53: `toNumber` throws in it, and every later bundle fails with it.
* Nothing calls `hourlyCron` (through `setReputationCorn`) or
  `handlePastEvents` in the server; `EventsManager` has
  them as actions all the same, `Bundler` has not.  `debug_bundler_setReputation`
  throws whatever it is given, and is no action.
* An unhandled rejection of the timer's `attemptBundle` is a warning on the
  Node version of the Docker image (13); on a later one it would end the process.
* Nothing is persisted, so there is no crash and recovery to model: a restart
  is `Init`.
* Most of the implementation's lines are contract bindings under
  `packages/sdk/typechain-types`, which are generated and keep no state.
* Gas price, overhead and packed lengths: arithmetic without state or branches
  that the rest depends on; the fee and the check enter the models as inputs.
* Paymaster clients and session keys: one request or one contract call each.
* `DeterministicDeployer` and `update.ts`: deployments through the factory are
  idempotent, so callers that race lose a transaction and nothing else.
* WalletConnect: the state is that SDK's.
* The opcode table of the scanner is a class per rule, and the tracer's logs,
  contract sizes and debug texts, which nobody reads, are left out; so is a step
  of the EntryPoint itself that runs out of gas.

## 7. What is left

The order in which more could be added:

1. the composition of `ZeroDevSigner` with `UserOperationEventListener` and
   `Bundler`, from a call of the client to its confirmation, by way of an
   abstract client that executes each transaction at most once;
2. fees above 2^53 in `MempoolManager`;
3. `estimateUserOperationGas` and the gas arithmetic as pure operators.
