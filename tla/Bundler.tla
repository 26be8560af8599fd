------------------------------- MODULE Bundler -------------------------------
(***************************************************************************)
(* The running bundler: concurrent eth_sendUserOperation requests and      *)
(* forced bundling attempts, over one mempool and one reputation table     *)
(* (packages/bundler/src/modules/ExecutionManager.ts, BundleManager.ts).   *)
(*                                                                         *)
(* A task is one asynchronous call.  A request holds the execution mutex   *)
(* from the validation of its operation to the end of the bundling it      *)
(* triggers.  Every task that builds a bundle holds the bundling mutex;    *)
(* ticks (the auto-bundle timer, debug_bundler_sendBundleNow) take only    *)
(* that one, so they interleave with the requests at every await.  Both    *)
(* mutexes serve their waiters first come, first served: each is a queue   *)
(* whose head is the holder.                                               *)
(*                                                                         *)
(* JavaScript runs to the next await without interruption.  Each action is *)
(* such a stretch, except that the loop of createBundle takes one action   *)
(* per mempool entry; Yielded keeps the other tasks out meanwhile.         *)
(***************************************************************************)
EXTENDS Integers, Sequences, FiniteSets

CONSTANTS
  Requests,      \* eth_sendUserOperation calls, each made at most once
  Ticks,         \* forced bundling attempts that may be pending at a time
  Ops, NoOp,     \* the user operations clients may send
  Addrs, NoAddr, NoEntry, whitelist, blackList,
  MinInclusionDenominator, ThrottlingSlack, BanSlack, CrashSeen, MaxOps,
  Paymasters,
  Checksummed,   \* paymaster -> the same address as ethers decodes it
  Deposits,      \* what the EntryPoint may answer to balanceOf
  Unread,        \* no deposit read yet in this build
  MaxBundleGas,
  Modes,         \* the modes setAutoBundler is called with
  InitMode       \* the configured one (runBundler.ts, initServer.ts)

\* prefund and gas are what simulateValidation returns for the operation
\* (prefund, and preOpGas + callGasLimit).
OpType == [sender : STRING, nonce : Nat, fee : Nat, prefund : Nat, gas : Nat,
           paymaster : Paymasters \cup {NoAddr}, factory : Addrs \cup {NoAddr}]
\* autoInterval # 0, and maxMempoolSize.
ModeType == [interval : BOOLEAN, size : Nat]

ASSUME ReputationAssumption ==
  /\ NoAddr \notin Addrs
  /\ NoEntry \notin [opsSeen : Nat, opsIncluded : Nat]
  /\ whitelist \subseteq Addrs /\ blackList \subseteq Addrs
  /\ {MinInclusionDenominator, ThrottlingSlack, BanSlack, CrashSeen} \subseteq Nat

ASSUME BundlerAssumption ==
  /\ Requests \cap Ticks = {}
  /\ Ops \subseteq OpType /\ NoOp \notin Ops
  /\ Paymasters \subseteq Addrs
  /\ Checksummed \in [Paymasters -> Addrs]
  /\ Deposits \subseteq Nat
  /\ Unread \notin [read : Nat, left : Nat]
  /\ MaxBundleGas \in Nat
  /\ InitMode \in Modes /\ Modes \subseteq ModeType

VARIABLES
  pool,          \* MempoolManager.mempool, as the set it stands for
  entries,       \* ReputationManager.entries
  mode,          \* autoInterval and maxMempoolSize of the ExecutionManager
  pc,            \* where each task is
  op,            \* the operation each request carries
  execQueue,     \* the execution mutex: holder first, then the waiters
  bundleQueue,   \* the bundling mutex
  build          \* the locals of createBundle, in the task that holds it

shared == <<pool, entries, mode>>
tasks == <<pc, op, execQueue, bundleQueue>>
vars == <<pool, entries, mode, pc, op, execQueue, bundleQueue, build>>

Rep == INSTANCE ReputationManager
Pool == INSTANCE UserOpPool

Tasks == Requests \cup Ticks

\* rest: entries of the snapshot still to look at; cur: the one an await is
\* about; deposit: paymasterDeposit, what was read and what is left of it.
NoBuild ==
  [rest |-> {}, cur |-> NoOp, bundle |-> {}, totalGas |-> 0,
   deposit |-> [p \in Paymasters |-> Unread]]

\* A request ends "ok" or "error"; a tick becomes idle again.
Building == {"scan", "revalidate", "balance", "beneficiary", "send"}
Places == {"idle", "exec", "validate", "wait", "ok", "error"} \cup Building

\* No task is inside the loop of createBundle, between two awaits.
Yielded == \A t \in Tasks : pc[t] # "scan"

AtAwait(t, place) == Yielded /\ pc[t] = place

GoTo(t, place) == pc' = [pc EXCEPT ![t] = place]
-----------------------------------------------------------------------------
Init ==
  /\ pool = {}
  /\ entries = Rep!NoEntries
  /\ mode = InitMode
  /\ pc = [t \in Tasks |-> "idle"]
  /\ op = [r \in Requests |-> NoOp]
  /\ execQueue = <<>>
  /\ bundleQueue = <<>>
  /\ build = NoBuild
-----------------------------------------------------------------------------
(* ExecutionManager *)

\* sendUserOperation: wait for the execution mutex.
Submit(r, o) ==
  /\ AtAwait(r, "idle")
  /\ GoTo(r, "exec")
  /\ op' = [op EXCEPT ![r] = o]
  /\ execQueue' = Append(execQueue, r)
  /\ UNCHANGED <<shared, bundleQueue, build>>

\* The request leaves the execution mutex and is answered.
Answer(r, how) ==
  /\ GoTo(r, how)
  /\ execQueue' = Tail(execQueue)
  /\ UNCHANGED <<op, bundleQueue, build>>

\* With the mutex, validateInputParameters either throws or lets
\* validateUserOp call the node.
BeginValidation(r) ==
  /\ AtAwait(r, "exec")
  /\ execQueue # <<>> /\ Head(execQueue) = r
  /\ \/ Answer(r, "error")
     \/ GoTo(r, "validate") /\ UNCHANGED <<op, execQueue, bundleQueue, build>>
  /\ UNCHANGED shared

ValidationFails(r) ==
  /\ AtAwait(r, "validate")
  /\ Answer(r, "error")
  /\ UNCHANGED shared

\* addUserOp throws: the key is taken and the fee is not high enough.
AdditionFails(r) ==
  /\ AtAwait(r, "validate")
  /\ ~Pool!accepts(pool, op[r])
  /\ Answer(r, "error")
  /\ UNCHANGED shared

\* addUserOp, then attemptBundle(false): bundle now if enough is waiting.
AddAndAttempt(r) ==
  /\ AtAwait(r, "validate")
  /\ Pool!accepts(pool, op[r])
  /\ pool' = Pool!added(pool, op[r])
  /\ entries' = Rep!updateSeenStatus(Rep!updateSeenStatus(entries, op[r].paymaster), op[r].factory)
  /\ IF Cardinality(pool') >= mode.size
     THEN /\ GoTo(r, "wait")
          /\ bundleQueue' = Append(bundleQueue, r)
          /\ UNCHANGED <<op, execQueue, build>>
     ELSE Answer(r, "ok")
  /\ UNCHANGED mode

\* attemptBundle(true): wait for the bundling mutex.
ForceAttempt(t) ==
  /\ AtAwait(t, "idle")
  /\ GoTo(t, "wait")
  /\ bundleQueue' = Append(bundleQueue, t)
  /\ UNCHANGED <<shared, op, execQueue, build>>

\* The callback of setInterval; it does not wait for the previous one.
TimerTick(t) == mode.interval /\ ForceAttempt(t)

\* debug_bundler_sendBundleNow.
SendBundleNow(t) == ForceAttempt(t)

\* setAutoBundler, through debug_bundler_setBundlingMode and setBundleInterval.
SetAutoBundler(m) ==
  /\ Yielded
  /\ mode' = m
  /\ UNCHANGED <<pool, entries, tasks, build>>

\* debug_bundler_clearState: the mempool and the reputation table.
ClearState ==
  /\ Yielded
  /\ pool' = {}
  /\ entries' = Rep!NoEntries
  /\ UNCHANGED <<mode, tasks, build>>
-----------------------------------------------------------------------------
(* BundleManager.sendNextBundle and the loop of createBundle *)

\* Faulty variant: a build that fails for a request keeps the bundling mutex.
FinishKeepingMutex(t, how) ==
  /\ bundleQueue' = IF how = "error" /\ t \in Requests
                     THEN bundleQueue ELSE Tail(bundleQueue)
  /\ GoTo(t, IF t \in Requests THEN how ELSE "idle")
  /\ execQueue' = IF t \in Requests THEN Tail(execQueue) ELSE execQueue
  /\ build' = NoBuild
  /\ UNCHANGED op

\* Leave the bundling mutex.  For a request this also ends runExclusive of
\* sendUserOperation; a tick's own rejection is handled by nobody.
Finish(t, how) ==
  /\ bundleQueue' = Tail(bundleQueue)
  /\ GoTo(t, IF t \in Requests THEN how ELSE "idle")
  /\ execQueue' = IF t \in Requests THEN Tail(execQueue) ELSE execQueue
  /\ build' = NoBuild
  /\ UNCHANGED op

\* Faulty variant: the bundling mutex is not awaited.
StartBuildUnlocked(t) ==
  /\ AtAwait(t, "wait")
  /\ GoTo(t, "scan")
  /\ build' = [NoBuild EXCEPT !.rest = pool]
  /\ UNCHANGED <<shared, op, execQueue, bundleQueue>>

\* With the mutex, createBundle copies and sorts the mempool.
StartBuild(t) ==
  /\ AtAwait(t, "wait")
  /\ bundleQueue # <<>> /\ Head(bundleQueue) = t
  /\ GoTo(t, "scan")
  /\ build' = [NoBuild EXCEPT !.rest = pool]
  /\ UNCHANGED <<shared, op, execQueue, bundleQueue>>

\* The entries the loop may come to next: lowest fee first.  The order of equal
\* fees is that of arrival in the code, any here.
NextEntries == {o \in build.rest : \A other \in build.rest : o.fee <= other.fee}

\* Faulty variant: the paymaster's status is not looked at.
FactoryHasStatus(o, status) == Rep!getStatus(entries, o.factory) = status

HasStatus(o, status) ==
  \E a \in {o.paymaster, o.factory} : Rep!getStatus(entries, a) = status

\* Faulty variant: operations are compared, not senders.
SameOpInBundle(o) == o \in build.bundle

SenderInBundle(o) == \E b \in build.bundle : b.sender = o.sender

\* `status === THROTTLED ?? count > 1` is the comparison alone: an entry of a
\* throttled entity is skipped, whatever the bundle holds.
Skipped(o) == HasStatus(o, "THROTTLED") \/ SenderInBundle(o)

ScanBanned(o) ==
  /\ HasStatus(o, "BANNED")
  /\ pool' = Pool!removed(pool, o)
  /\ build' = [build EXCEPT !.rest = @ \ {o}]
  /\ UNCHANGED <<entries, mode, tasks>>

ScanSkipped(o) ==
  /\ ~HasStatus(o, "BANNED")
  /\ Skipped(o)
  /\ build' = [build EXCEPT !.rest = @ \ {o}]
  /\ UNCHANGED <<shared, tasks>>

\* Await validateUserOp(entry.userOp, false).
ScanRevalidate(t, o) ==
  /\ ~HasStatus(o, "BANNED")
  /\ ~Skipped(o)
  /\ GoTo(t, "revalidate")
  /\ build' = [build EXCEPT !.rest = @ \ {o}, !.cur = o]
  /\ UNCHANGED <<shared, op, execQueue, bundleQueue>>

Scan(t) ==
  /\ pc[t] = "scan"
  /\ \E o \in NextEntries : ScanBanned(o) \/ ScanSkipped(o) \/ ScanRevalidate(t, o)

\* createBundle returns: nothing to send, or _selectBeneficiary is awaited.
ScanEnds(t) ==
  /\ pc[t] = "scan"
  /\ build.rest = {}
  /\ IF build.bundle = {}
     THEN Finish(t, "ok")
     ELSE GoTo(t, "beneficiary") /\ UNCHANGED <<op, execQueue, bundleQueue, build>>
  /\ UNCHANGED shared
-----------------------------------------------------------------------------
(* createBundle, after an await *)

\* Back to the loop with the given locals.
Continue(t, locals) ==
  /\ GoTo(t, "scan")
  /\ build' = [locals EXCEPT !.cur = NoOp]
  /\ UNCHANGED <<entries, mode, op, execQueue, bundleQueue>>

\* A failed second validation, or an operation too big for any bundle.
DropCurrent(t) ==
  /\ Continue(t, build)
  /\ pool' = Pool!removed(pool, build.cur)

Taken(locals, left) ==
  [rest |-> locals.rest, cur |-> locals.cur,
   bundle |-> locals.bundle \cup {build.cur},
   totalGas |-> locals.totalGas + build.cur.gas,
   deposit |-> left]

\* Faulty variant: the gas before the operation is compared.
WithoutRoom(o) == build.totalGas >= MaxBundleGas

\* The bundle is full: `break`.
Full(o) == build.totalGas + o.gas > MaxBundleGas

\* Faulty variant: the deposit is charged without a comparison.
TakeUncovered(t, deposit) ==
  LET o == build.cur
      charged == IF o.paymaster = NoAddr THEN deposit
                 ELSE [deposit EXCEPT ![o.paymaster].left = @ - o.prefund]
  IN  Continue(t, Taken(build, charged)) /\ UNCHANGED pool

\* The operation joins the bundle, unless its paymaster's deposit, as known
\* to this build, does not cover it.
TakeCurrent(t, deposit) ==
  LET o == build.cur
      p == o.paymaster
  IN  /\ \/ p = NoAddr /\ Continue(t, Taken(build, deposit))
         \/ /\ p # NoAddr /\ deposit[p].left >= o.prefund
            /\ Continue(t, Taken(build, [deposit EXCEPT ![p].left = @ - o.prefund]))
         \/ /\ p # NoAddr /\ deposit[p].left < o.prefund
            /\ Continue(t, [build EXCEPT !.deposit = deposit])
      /\ UNCHANGED pool

NeedsDeposit(o) == o.paymaster # NoAddr /\ build.deposit[o.paymaster] = Unread

RevalidationFails(t) == AtAwait(t, "revalidate") /\ DropCurrent(t)

RevalidationPasses(t) ==
  LET o == build.cur
  IN  /\ AtAwait(t, "revalidate")
      /\ \/ o.gas > MaxBundleGas /\ DropCurrent(t)
         \/ /\ o.gas <= MaxBundleGas /\ Full(o)
            /\ Continue(t, [build EXCEPT !.rest = {}])
            /\ UNCHANGED pool
         \/ /\ o.gas <= MaxBundleGas /\ ~Full(o) /\ NeedsDeposit(o)
            /\ GoTo(t, "balance")
            /\ UNCHANGED <<shared, op, execQueue, bundleQueue, build>>
         \/ /\ o.gas <= MaxBundleGas /\ ~Full(o) /\ ~NeedsDeposit(o)
            /\ TakeCurrent(t, build.deposit)

\* entryPoint.balanceOf answers, or throws out of createBundle.
BalanceReply(t) ==
  /\ AtAwait(t, "balance")
  /\ \/ \E d \in Deposits :
          TakeCurrent(t, [build.deposit EXCEPT
                            ![build.cur.paymaster] = [read |-> d, left |-> d]])
     \/ Finish(t, "error") /\ UNCHANGED shared
-----------------------------------------------------------------------------
(* BundleManager._selectBeneficiary and sendBundle *)

\* provider.getBalance answers, or throws out of sendNextBundle.
BeneficiaryReply(t) ==
  /\ AtAwait(t, "beneficiary")
  /\ \/ GoTo(t, "send") /\ UNCHANGED <<op, execQueue, bundleQueue, build>>
     \/ Finish(t, "error")
  /\ UNCHANGED shared

\* The node took the handleOps transaction; it may not be mined yet.
Sent(t) ==
  /\ AtAwait(t, "send")
  /\ pool' = Pool!removedAll(pool, build.bundle)
  /\ Finish(t, "ok")
  /\ UNCHANGED <<entries, mode>>

\* getGasPrice or handleOps threw, but not FailedOp: logged and swallowed.
SendFails(t) ==
  /\ AtAwait(t, "send")
  /\ Finish(t, "ok")
  /\ UNCHANGED shared

\* handleOps reverts with FailedOp(index, paymaster, reason) about operation o:
\* the paymaster is blamed, or the factory (reason "AA1..."), or else o is
\* dropped.  The paymaster comes decoded, as a checksummed address.
FailedOp(t, o) ==
  /\ AtAwait(t, "send")
  /\ \/ /\ o.paymaster # NoAddr
        /\ entries' = Rep!crashedHandleOps(entries, Checksummed[o.paymaster])
        /\ UNCHANGED pool
     \/ /\ o.factory # NoAddr
        /\ entries' = Rep!crashedHandleOps(entries, o.factory)
        /\ UNCHANGED pool
     \/ pool' = Pool!removed(pool, o) /\ UNCHANGED entries
  /\ Finish(t, "ok")
  /\ UNCHANGED mode
-----------------------------------------------------------------------------
RequestStep(r) ==
  \/ BeginValidation(r)
  \/ ValidationFails(r) \/ AdditionFails(r) \/ AddAndAttempt(r)

BuildStep(t) ==
  \/ StartBuild(t) \/ Scan(t) \/ ScanEnds(t)
  \/ RevalidationFails(t) \/ RevalidationPasses(t)
  \/ BalanceReply(t) \/ BeneficiaryReply(t)
  \/ Sent(t) \/ SendFails(t) \/ \E o \in build.bundle : FailedOp(t, o)

Next ==
  \/ \E r \in Requests : (\E o \in Ops : Submit(r, o)) \/ RequestStep(r)
  \/ \E t \in Ticks : TimerTick(t) \/ SendBundleNow(t)
  \/ \E t \in Tasks : BuildStep(t)
  \/ \E m \in Modes : SetAutoBundler(m)
  \/ ClearState

Spec == Init /\ [][Next]_vars

\* The event loop runs every ready continuation, and each provider call is
\* answered or times out; a continuation may have to wait, again and again, for
\* another task's stretch to end, hence strong fairness.
FairSpec ==
  /\ Spec
  /\ \A r \in Requests : SF_vars(RequestStep(r))
  /\ \A t \in Tasks : SF_vars(BuildStep(t))
=============================================================================
