-------------------------- MODULE BundlerProperties --------------------------
(* What the running bundler should and should not do (see Bundler). *)
EXTENDS Bundler, FiniteSetsExt

DepositType == [Paymasters -> [read : Nat, left : Nat] \cup {Unread}]
BuildType ==
  [rest : SUBSET Ops, cur : Ops \cup {NoOp}, bundle : SUBSET Ops, totalGas : Nat,
   deposit : DepositType]

\* Every variable keeps its type; in particular no deposit goes below zero.
TypeOK ==
  /\ pool \subseteq Ops
  /\ entries \in Rep!EntriesType
  /\ mode \in Modes
  /\ pc \in [Tasks -> Places]
  /\ op \in [Requests -> Ops \cup {NoOp}]
  /\ execQueue \in Seq(Requests)
  /\ bundleQueue \in Seq(Tasks)
  /\ build \in BuildType
-----------------------------------------------------------------------------
(* The mutexes *)

HoldsExec(t) == execQueue # <<>> /\ Head(execQueue) = t
HoldsBundle(t) == bundleQueue # <<>> /\ Head(bundleQueue) = t

\* Bundles are built one at a time, and a request keeps every other request
\* out from its validation to the end of its bundling (the two mutexes).
MutexDiscipline ==
  /\ \A t \in Tasks : pc[t] \in Building => HoldsBundle(t)
  /\ \A r \in Requests : pc[r] \in {"validate", "wait"} \cup Building => HoldsExec(r)

\* Every request that reached the server is answered (sendUserOperation), and
\* every forced attempt ends (attemptBundle(true)), however many queue up for the
\* same mutex: no failure of a call leaves a mutex taken, and the two are taken
\* in one order.
EveryTaskEnds ==
  /\ \A r \in Requests : pc[r] = "exec" ~> pc[r] \in {"ok", "error"}
  /\ \A t \in Ticks : pc[t] = "wait" ~> pc[t] = "idle"
-----------------------------------------------------------------------------
(* The bundle *)

\* BundleManager.ts:106: each sender is allowed only once per bundle; a sender
\* is the string the client sent, which createBundle compares as it is.
BundleOneOpPerSender ==
  \A o1, o2 \in build.bundle : o1.sender = o2.sender => o1 = o2

\* The gas of a bundle is that of its operations, interrupted as the build may
\* be, and never exceeds maxBundleGas (createBundle).
BundleFits ==
  /\ build.totalGas = MapThenSumSet(LAMBDA o : o.gas, build.bundle)
  /\ build.totalGas <= MaxBundleGas

\* What a bundle charges a paymaster is covered by the deposit this build read,
\* which it read only once (paymasterDeposit in createBundle).
NoPaymasterOvercommitted ==
  \A p \in Paymasters :
    LET sponsored == {o \in build.bundle : o.paymaster = p}
        d         == build.deposit[p]
    IN  sponsored # {} =>
          /\ d.left >= 0
          /\ MapThenSumSet(LAMBDA o : o.prefund, sponsored) + d.left = d.read

\* An operation of a blacklisted paymaster or factory is never bundled,
\* whatever is seen, blamed or cleared while the bundle is built (getStatus).
NoBlacklistedInBundle ==
  \A o \in build.bundle : {o.paymaster, o.factory} \cap (blackList \ whitelist) = {}
-----------------------------------------------------------------------------
(* The pool, while a bundle is built *)

BannedIn(es, o) == \E a \in {o.paymaster, o.factory} : Rep!getStatus(es, a) = "BANNED"

At(place) == \E t \in Tasks : pc[t] = place

\* The operation leaves the pool because it was replaced, was found banned,
\* failed its validation, was put in the bundle, or everything was cleared.
Judged(o) ==
  \/ \E new \in pool' : Pool!SameKey(new, o)
  \/ At("scan") /\ o \in build.rest /\ BannedIn(entries, o)
  \/ At("revalidate") /\ o = build.cur
  \/ At("send") /\ o \in build.bundle
  \/ ClearState

\* MempoolManager.ts:109: an operation is removed because "either it is invalid,
\* or was included in a block": one that leaves the pool is the very operation
\* that was judged, and not another one that came to have its key.
RemovalsAreJudged == [][\A o \in pool \ pool' : Judged(o)]_vars

\* ReputationManager.ts:9: "banned entities are allowed none" of the entries of
\* a bundle about to be sent.
NoBannedInBundle == At("send") => \A o \in build.bundle : ~BannedIn(entries, o)

\* MempoolManager.ts:36: addUserOp is to "replace existing", so a replaced
\* operation is out: it is not sent when another one has taken its place.
NoReplacedOpInBundle ==
  At("send") => \A o \in build.bundle, new \in pool : Pool!SameKey(o, new) => o = new
=============================================================================
