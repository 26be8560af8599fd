--------------------------- MODULE MempoolManager ---------------------------
(***************************************************************************)
(* The mempool (packages/bundler/src/modules/MempoolManager.ts): the array *)
(* of entries, the per-sender counter beside it, and the reputation table  *)
(* it reports new operations to.  An entry is its user operation: the      *)
(* prefund and the aggregator stored with it are never read back.  The     *)
(* order for inclusion is used by Bundler (NextEntries).                   *)
(***************************************************************************)
EXTENDS Integers, FiniteSets, SequencesExt

CONSTANTS
  Ops, Addrs, NoAddr, NoEntry, whitelist, blackList,
  MinInclusionDenominator, ThrottlingSlack, BanSlack, CrashSeen, MaxOps

\* What the proofs need to know of an operation (moduleUtils.ts, UserOperation).
ASSUME OpsAssumption ==
  \A op \in Ops :
    /\ op.fee \in Nat
    /\ op.paymaster \in Addrs \cup {NoAddr}
    /\ op.factory \in Addrs \cup {NoAddr}

VARIABLES
  mempool,       \* sequence of operations, in arrival order
  entryCount,    \* Senders -> Nat; 0 stands for undefined
  entries        \* the table of the ReputationManager

vars == <<mempool, entryCount, entries>>

Rep == INSTANCE ReputationManager
Pool == INSTANCE UserOpPool WITH pool <- ToSet(mempool)

Senders == {op.sender : op \in Ops}
-----------------------------------------------------------------------------
\* Faulty variant: only an identical operation counts as already there.
FindIdentical(ms, op) == SelectInSeq(ms, LAMBDA o : o = op)

\* The first entry with the operation's key; 0 stands for -1.
find(ms, op) == SelectInSeq(ms, LAMBDA o : Pool!SameKey(o, op))

splice(ms, op) ==
  LET i == find(ms, op) IN IF i = 0 THEN ms ELSE RemoveAt(ms, i)

\* Faulty variant: one entry removed, two subtracted.
CountDownTwice(n) == n - 2

\* `entryCount ?? 0 - 1` is `entryCount ?? (0 - 1)`: a defined count is kept
\* as it is, and only an undefined one is deleted (again).
countAfterRemove(n) ==
  LET count == IF n = 0 THEN 0 - 1 ELSE n IN IF count <= 0 THEN 0 ELSE count

\* Both the array and the counter, after removeUserOp of one operation.
removeOne(state, op) ==
  IF find(state.ms, op) = 0 THEN state
  ELSE [ms |-> splice(state.ms, op),
        count |-> [state.count EXCEPT ![op.sender] = countAfterRemove(@)]]

\* updateSeenStatus of the aggregator is a no-op: validation rejects every
\* operation that has one, so addUserOp gets undefined for it.
seenBy(es, op) ==
  Rep!updateSeenStatus(Rep!updateSeenStatus(es, op.paymaster), op.factory)
-----------------------------------------------------------------------------
Init ==
  /\ mempool = <<>>
  /\ entryCount = [s \in Senders |-> 0]
  /\ entries = Rep!NoEntries

\* addUserOp with a new key.  checkSenderCountInMempool has an empty body.
AddNew(op) ==
  /\ find(mempool, op) = 0
  /\ entryCount[op.sender] < MaxOps
  /\ mempool' = Append(mempool, op)
  /\ entryCount' = [entryCount EXCEPT ![op.sender] = @ + 1]
  /\ entries' = seenBy(entries, op)

\* Faulty variant: the fees are not compared.
ReplaceUnchecked(op) ==
  LET i == find(mempool, op)
  IN  /\ i # 0
      /\ mempool' = [mempool EXCEPT ![i] = op]
      /\ entries' = seenBy(entries, op)
      /\ UNCHANGED entryCount

\* addUserOp with a key that is taken; it throws unless the fee is higher.
Replace(op) ==
  LET i == find(mempool, op)
  IN  /\ i # 0
      /\ Pool!mayReplace(mempool[i], op)
      /\ mempool' = [mempool EXCEPT ![i] = op]
      /\ entries' = seenBy(entries, op)
      /\ UNCHANGED entryCount

RemoveAllUserOps(ops) ==
  LET after == FoldLeft(removeOne, [ms |-> mempool, count |-> entryCount], ops)
  IN  /\ mempool' = after.ms
      /\ entryCount' = after.count
      /\ UNCHANGED entries

RemoveUserOp(op) == RemoveAllUserOps(<<op>>)

\* The counter is left alone.
ClearState ==
  /\ mempool' = <<>>
  /\ UNCHANGED <<entryCount, entries>>

\* A bundle holds one operation per sender; by the time it has been sent, any
\* of them may have been replaced or removed.
Bundles == {ops \in Ops \X Ops : ops[1].sender # ops[2].sender}

Next ==
  \/ \E op \in Ops : AddNew(op) \/ Replace(op) \/ RemoveUserOp(op)
  \/ \E ops \in Bundles : RemoveAllUserOps(ops)
  \/ ClearState

Spec == Init /\ [][Next]_vars
-----------------------------------------------------------------------------
(* Properties *)

\* Types; the counter never goes below zero (removeUserOp, clearState).
TypeOK ==
  /\ mempool \in Seq(Ops)
  /\ entryCount \in [Senders -> Nat]
  /\ entries \in Rep!EntriesType

WaitingOf(s) == {i \in DOMAIN mempool : mempool[i].sender = s}

\* The per-sender counter never under-reports the entries of the sender, so
\* the limit it was made for would never let too many in.
CounterNeverUnderReports ==
  \A s \in Senders : Cardinality(WaitingOf(s)) <= entryCount[s]

\* The array implements the pool: one entry per key, replaced only upwards.
ImplementsPool == Pool!Spec
=============================================================================
