---------------------------- MODULE Bundler_proofs ----------------------------
(***************************************************************************)
(* The bundler's mutexes, its state and the bundle it builds, for every    *)
(* set of operations, requests, forced attempts, paymasters and limits.    *)
(*                                                                         *)
(* The mutexes: the invariant adds to MutexDiscipline what the queues      *)
(* hold, each task once, and only tasks that wait for the mutex or hold    *)
(* it, so that a task which leaves a queue is really out.                  *)
(*                                                                         *)
(* The bundle: a build is interrupted by awaits, so its locals are good    *)
(* between them only if what was checked of the current operation is still *)
(* known when the await is over: that its sender is new to the bundle,     *)
(* that it is of no blacklisted entity and, past the gas check, that it    *)
(* fits.  What the locals count is tied to what the bundle holds: totalGas *)
(* is the gas of its operations, and a deposit that was read has lost      *)
(* exactly the prefund of those its paymaster sponsors.                    *)
(***************************************************************************)
EXTENDS BundlerProperties, TLAPS, WellFoundedInduction, FiniteSetTheorems

(* The mutexes *)

Queued(q, t) == \E i \in 1..Len(q) : q[i] = t
NoRepeats(q) == \A i, j \in 1..Len(q) : q[i] = q[j] => i = j

TasksType ==
  /\ pc \in [Tasks -> Places]
  /\ execQueue \in Seq(Requests)
  /\ bundleQueue \in Seq(Tasks)

QueuesHonest ==
  /\ NoRepeats(execQueue)
  /\ NoRepeats(bundleQueue)
  /\ \A t \in Tasks : Queued(execQueue, t) => pc[t] \in {"exec", "validate", "wait"} \cup Building
  /\ \A t \in Tasks : Queued(bundleQueue, t) => pc[t] \in {"wait"} \cup Building

MutexInv == TasksType /\ QueuesHonest /\ MutexDiscipline
-----------------------------------------------------------------------------
(* Queues *)

\* A task that is not in a queue yet can join it at the end; the holder stays.
LEMMA AppendQueue ==
  ASSUME NEW S, NEW q \in Seq(S), NEW e \in S, NoRepeats(q), ~Queued(q, e)
  PROVE  /\ Append(q, e) \in Seq(S)
         /\ NoRepeats(Append(q, e))
         /\ \A x : Queued(Append(q, e), x) => Queued(q, x) \/ x = e
         /\ q # <<>> => Append(q, e) # <<>> /\ Head(Append(q, e)) = Head(q)
  BY DEF NoRepeats, Queued

\* Releasing a mutex takes its holder out of the queue, and nobody else.
LEMMA TailQueue ==
  ASSUME NEW S, NEW q \in Seq(S), q # <<>>, NoRepeats(q)
  PROVE  /\ Tail(q) \in Seq(S)
         /\ NoRepeats(Tail(q))
         /\ \A x : Queued(Tail(q), x) => Queued(q, x) /\ x # Head(q)
<1>1. /\ Tail(q) \in Seq(S)
      /\ Len(Tail(q)) = Len(q) - 1 /\ Len(q) \in Nat
      /\ \A i \in 1..Len(Tail(q)) : Tail(q)[i] = q[i + 1]
    OBVIOUS
<1>2. Head(q) = q[1] /\ 1 \in 1..Len(q)
    OBVIOUS
<1> QED BY <1>1, <1>2 DEF NoRepeats, Queued
-----------------------------------------------------------------------------
(* What a step does to the queues: every action of Bundler is one of these *)

Enters(r) ==
  /\ pc[r] = "idle" /\ GoTo(r, "exec")
  /\ execQueue' = Append(execQueue, r) /\ UNCHANGED bundleQueue

Validates(r) ==
  /\ HoldsExec(r) /\ pc[r] = "exec" /\ GoTo(r, "validate")
  /\ UNCHANGED <<execQueue, bundleQueue>>

Leaves(r) ==
  /\ HoldsExec(r) /\ pc[r] \in {"exec", "validate"}
  /\ \E how \in {"ok", "error"} : GoTo(r, how)
  /\ execQueue' = Tail(execQueue) /\ UNCHANGED bundleQueue

Waits(t) ==
  /\ (t \in Requests /\ pc[t] = "validate") \/ (t \in Ticks /\ pc[t] = "idle")
  /\ GoTo(t, "wait")
  /\ bundleQueue' = Append(bundleQueue, t) /\ UNCHANGED execQueue

Builds(t) ==
  /\ HoldsBundle(t) /\ pc[t] \in {"wait"} \cup Building
  /\ \E place \in Building : GoTo(t, place)
  /\ UNCHANGED <<execQueue, bundleQueue>>

Finishes(t) ==
  /\ pc[t] \in Building
  /\ \E how \in {"ok", "error"} : GoTo(t, IF t \in Requests THEN how ELSE "idle")
  /\ bundleQueue' = Tail(bundleQueue)
  /\ execQueue' = IF t \in Requests THEN Tail(execQueue) ELSE execQueue

Idles == UNCHANGED <<pc, execQueue, bundleQueue>>

\* A request joining the execution queue (eth_sendUserOperation).
LEMMA EntersKeeps ==
  ASSUME MutexInv, NEW r \in Requests, Enters(r)
  PROVE  MutexInv'
<1> USE DEF MutexInv, TasksType, QueuesHonest, MutexDiscipline, Enters, GoTo, HoldsExec,
            HoldsBundle, Tasks, Places, Building
<1>1. ~Queued(execQueue, r)
    OBVIOUS
<1>2. /\ execQueue' \in Seq(Requests) /\ NoRepeats(execQueue')
      /\ \A x : Queued(execQueue', x) => Queued(execQueue, x) \/ x = r
      /\ execQueue # <<>> => execQueue' # <<>> /\ Head(execQueue') = Head(execQueue)
    BY <1>1, AppendQueue
<1> QED BY <1>2

\* The request at the head of the execution queue starts its validation.
LEMMA ValidatesKeeps ==
  ASSUME MutexInv, NEW r \in Requests, Validates(r)
  PROVE  MutexInv'
BY DEF MutexInv, TasksType, QueuesHonest, MutexDiscipline, Validates, GoTo, HoldsExec,
       HoldsBundle, Tasks, Places, Building

\* A request answered before it reached the bundling mutex releases its own.
LEMMA LeavesKeeps ==
  ASSUME MutexInv, NEW r \in Requests, Leaves(r)
  PROVE  MutexInv'
<1> USE DEF MutexInv, TasksType, QueuesHonest, MutexDiscipline, Leaves, GoTo, HoldsExec,
            HoldsBundle, Tasks, Places, Building
<1>1. /\ execQueue' \in Seq(Requests) /\ NoRepeats(execQueue')
      /\ \A x : Queued(execQueue', x) => Queued(execQueue, x) /\ x # r
    BY TailQueue
<1> QED BY <1>1

\* A request or a forced attempt joining the bundling queue.
LEMMA WaitsKeeps ==
  ASSUME MutexInv, NEW t \in Tasks, Waits(t)
  PROVE  MutexInv'
<1> USE BundlerAssumption
    DEF MutexInv, TasksType, QueuesHonest, MutexDiscipline, Waits, GoTo, HoldsExec,
        HoldsBundle, Tasks, Places, Building
<1>1. ~Queued(bundleQueue, t)
    OBVIOUS
<1>2. /\ bundleQueue' \in Seq(Tasks) /\ NoRepeats(bundleQueue')
      /\ \A x : Queued(bundleQueue', x) => Queued(bundleQueue, x) \/ x = t
      /\ bundleQueue # <<>> => bundleQueue' # <<>> /\ Head(bundleQueue') = Head(bundleQueue)
    BY <1>1, AppendQueue
<1> QED BY <1>2

\* The builder goes from one await of the bundle to the next.
LEMMA BuildsKeeps ==
  ASSUME MutexInv, NEW t \in Tasks, Builds(t)
  PROVE  MutexInv'
BY DEF MutexInv, TasksType, QueuesHonest, MutexDiscipline, Builds, GoTo, HoldsExec,
       HoldsBundle, Tasks, Places, Building

\* The end of a bundle releases the bundling mutex, and a request's own as well.
LEMMA FinishesKeeps ==
  ASSUME MutexInv, NEW t \in Tasks, Finishes(t)
  PROVE  MutexInv'
<1> USE DEF MutexInv, TasksType, QueuesHonest, MutexDiscipline, Finishes, GoTo, HoldsExec,
            HoldsBundle, Tasks, Places, Building
<1>1. /\ bundleQueue' \in Seq(Tasks) /\ NoRepeats(bundleQueue')
      /\ \A x : Queued(bundleQueue', x) => Queued(bundleQueue, x) /\ x # t
    BY TailQueue
<1>2. CASE t \in Requests
  <2>1. /\ execQueue' \in Seq(Requests) /\ NoRepeats(execQueue')
        /\ \A x : Queued(execQueue', x) => Queued(execQueue, x) /\ x # t
      BY <1>2, TailQueue
  <2> QED BY <1>1, <1>2, <2>1
<1>3. CASE t \notin Requests
  <2>1. ~Queued(execQueue, t)
      BY <1>3 DEF Queued
  <2> QED BY <1>1, <1>3, <2>1
<1> QED BY <1>2, <1>3
-----------------------------------------------------------------------------
(* The specification takes only such steps *)

QueueStep ==
  \/ \E r \in Requests : Enters(r) \/ Validates(r) \/ Leaves(r)
  \/ \E t \in Tasks : Waits(t) \/ Builds(t) \/ Finishes(t)
  \/ Idles

\* None of the moves above breaks the invariant.
LEMMA QueueStepKeeps == MutexInv /\ QueueStep => MutexInv'
<1> SUFFICES ASSUME MutexInv, QueueStep
             PROVE  MutexInv'
    OBVIOUS
<1>1. CASE Idles
    BY <1>1 DEF Idles, MutexInv, TasksType, QueuesHonest, MutexDiscipline, HoldsExec, HoldsBundle
<1> QED BY <1>1, EntersKeeps, ValidatesKeeps, LeavesKeeps, WaitsKeeps, BuildsKeeps, FinishesKeeps
        DEF QueueStep

\* Up to the attempt to bundle, a request makes one of the moves above.
LEMMA RequestIsQueueStep ==
  ASSUME MutexInv, NEW r \in Requests, RequestStep(r)
  PROVE  QueueStep
<1> r \in Tasks
    BY DEF Tasks
<1> USE DEF AtAwait, Answer, Leaves, GoTo
<1>1. CASE BeginValidation(r)
    BY <1>1 DEF BeginValidation, Validates, HoldsExec, QueueStep
<1>2. ASSUME pc[r] = "validate" PROVE HoldsExec(r)
    BY <1>2 DEF MutexInv, MutexDiscipline
<1>3. CASE ValidationFails(r)
    BY <1>2, <1>3 DEF ValidationFails, QueueStep
<1>4. CASE AdditionFails(r)
    BY <1>2, <1>4 DEF AdditionFails, QueueStep
<1>5. CASE AddAndAttempt(r)
  <2>1. CASE Answer(r, "ok")
      BY <1>2, <1>5, <2>1 DEF AddAndAttempt, QueueStep
  <2>2. CASE ~Answer(r, "ok")
      BY <1>5, <2>2 DEF AddAndAttempt, Waits, QueueStep
  <2> QED BY <2>1, <2>2
<1> QED BY <1>1, <1>3, <1>4, <1>5 DEF RequestStep

\* So does every step of a builder, whichever await it is at.
LEMMA BuildIsQueueStep ==
  ASSUME MutexInv, NEW t \in Tasks, BuildStep(t)
  PROVE  QueueStep
<1>1. ASSUME pc[t] \in Building PROVE HoldsBundle(t)
    BY <1>1 DEF MutexInv, MutexDiscipline
<1>2. ASSUME pc[t] \in Building, NEW how \in {"ok", "error"}, Finish(t, how)
      PROVE  QueueStep
    BY <1>2 DEF Finish, Finishes, GoTo, QueueStep
<1>3. ASSUME pc[t] \in {"wait"} \cup Building, HoldsBundle(t), NEW place \in Building,
             GoTo(t, place), UNCHANGED <<execQueue, bundleQueue>>
      PROVE  QueueStep
    BY <1>3 DEF Builds, QueueStep
<1> USE DEF AtAwait, Building
<1>4. CASE StartBuild(t)
    BY <1>3, <1>4 DEF StartBuild, HoldsBundle
<1>5. CASE Scan(t)
  <2> PICK o \in NextEntries : ScanBanned(o) \/ ScanSkipped(o) \/ ScanRevalidate(t, o)
      BY <1>5 DEF Scan
  <2>1. CASE ScanBanned(o)
      BY <2>1 DEF ScanBanned, tasks, QueueStep, Idles
  <2>2. CASE ScanSkipped(o)
      BY <2>2 DEF ScanSkipped, tasks, QueueStep, Idles
  <2>3. CASE ScanRevalidate(t, o)
      BY <1>1, <1>3, <1>5, <2>3 DEF Scan, ScanRevalidate
  <2> QED BY <2>1, <2>2, <2>3
<1>6. CASE ScanEnds(t)
    BY <1>1, <1>2, <1>3, <1>6 DEF ScanEnds
<1>7. ASSUME pc[t] \in Building, NEW locals, Continue(t, locals) PROVE QueueStep
    BY <1>1, <1>3, <1>7 DEF Continue
<1>8. ASSUME pc[t] \in Building, NEW d, TakeCurrent(t, d) PROVE QueueStep
    BY <1>7, <1>8 DEF TakeCurrent
<1>9. CASE RevalidationFails(t)
    BY <1>7, <1>9 DEF RevalidationFails, DropCurrent
<1>10. CASE RevalidationPasses(t)
    BY <1>1, <1>3, <1>7, <1>8, <1>10 DEF RevalidationPasses, DropCurrent
<1>11. CASE BalanceReply(t)
    BY <1>2, <1>8, <1>11 DEF BalanceReply
<1>12. CASE BeneficiaryReply(t)
    BY <1>1, <1>2, <1>3, <1>12 DEF BeneficiaryReply
<1>13. CASE Sent(t)
    BY <1>2, <1>13 DEF Sent
<1>14. CASE SendFails(t)
    BY <1>2, <1>14 DEF SendFails
<1>15. CASE \E o \in build.bundle : FailedOp(t, o)
    BY <1>2, <1>15 DEF FailedOp
<1> QED BY <1>4, <1>5, <1>6, <1>9, <1>10, <1>11, <1>12, <1>13, <1>14, <1>15 DEF BuildStep

\* So does every step of the bundler.
LEMMA NextIsQueueStep == MutexInv /\ [Next]_vars => QueueStep
<1> SUFFICES ASSUME MutexInv, [Next]_vars
             PROVE  QueueStep
    OBVIOUS
<1>1. ASSUME NEW r \in Requests, NEW o \in Ops, Submit(r, o)
      PROVE  QueueStep
    BY <1>1 DEF Submit, AtAwait, Enters, QueueStep
<1>2. ASSUME NEW t \in Ticks, TimerTick(t) \/ SendBundleNow(t)
      PROVE  QueueStep
    BY <1>2 DEF TimerTick, SendBundleNow, ForceAttempt, AtAwait, Waits, QueueStep, Tasks
<1>3. ASSUME NEW m \in Modes, SetAutoBundler(m)
      PROVE  QueueStep
    BY <1>3 DEF SetAutoBundler, tasks, QueueStep, Idles
<1>4. CASE ClearState
    BY <1>4 DEF ClearState, tasks, QueueStep, Idles
<1>5. CASE UNCHANGED vars
    BY <1>5 DEF vars, QueueStep, Idles
<1> QED BY <1>1, <1>2, <1>3, <1>4, <1>5, RequestIsQueueStep, BuildIsQueueStep DEF Next

\* Both queues start empty, and no task is inside.
LEMMA InitMutex == Init => MutexInv
  BY DEF Init, MutexInv, TasksType, QueuesHonest, NoRepeats, Queued, MutexDiscipline,
         Tasks, Places, Building

\* The invariant of runExclusive: along every behaviour the two queues hold each task
\* at most once, only tasks that wait or hold, and only the head is inside the mutex.
THEOREM MutexInvariant == Spec => []MutexInv
  BY InitMutex, NextIsQueueStep, QueueStepKeeps, PTL DEF Spec

\* Bundles are built one at a time, and a request keeps every other request out
\* from its validation to the end of its bundling, for any number of requests
\* and forced attempts and whatever their operations are.
THEOREM MutexesExclude == Spec => []MutexDiscipline
  BY MutexInvariant, PTL DEF MutexInv
-----------------------------------------------------------------------------
(* The state and the bundle *)

Unlisted(o) == {o.paymaster, o.factory} \cap (blackList \ whitelist) = {}

gasOf(ops) == MapThenSumSet(LAMBDA o : o.gas, ops)
prefundOf(ops) == MapThenSumSet(LAMBDA o : o.prefund, ops)
sponsoredBy(p, ops) == {o \in ops : o.paymaster = p}

\* The counters of the build agree with the operations it took.
SumsOK(bundle, totalGas, deposit) ==
  /\ IsFiniteSet(bundle)
  /\ totalGas = gasOf(bundle)
  /\ \A p \in Paymasters :
       IF deposit[p] = Unread THEN sponsoredBy(p, bundle) = {}
       ELSE prefundOf(sponsoredBy(p, bundle)) + deposit[p].left = deposit[p].read

LocalsOK(b) ==
  /\ b \in BuildType
  /\ SumsOK(b.bundle, b.totalGas, b.deposit)
  /\ \A o1, o2 \in b.bundle : o1.sender = o2.sender => o1 = o2
  /\ b.totalGas <= MaxBundleGas
  /\ \A o \in b.bundle : Unlisted(o)

CurrentOK(b) ==
  /\ b.cur \in Ops
  /\ Unlisted(b.cur)
  /\ \A o \in b.bundle : o.sender # b.cur.sender

CurrentFits(b) == b.totalGas + b.cur.gas <= MaxBundleGas

BuildInv ==
  /\ LocalsOK(build)
  /\ \A t \in Tasks : pc[t] \in {"revalidate", "balance"} => CurrentOK(build)
  /\ \A t \in Tasks : pc[t] = "balance" => CurrentFits(build) /\ NeedsDeposit(build.cur)

SharedInv ==
  /\ pool \subseteq Ops
  /\ entries \in Rep!EntriesType
  /\ mode \in Modes
  /\ op \in [Requests -> Ops \cup {NoOp}]
  /\ \A r \in Requests : pc[r] # "idle" => op[r] \in Ops

IInv == MutexInv /\ SharedInv /\ BuildInv
-----------------------------------------------------------------------------
(***************************************************************************)
(* Adding up a set.  gasOf and prefundOf fold a set by picking an element  *)
(* at a time; that the order is no matter is an induction over the set.    *)
(* It rests on the strict-subset ordering of a finite set being well       *)
(* founded, with a set of subsets in the place of a predicate.             *)
(***************************************************************************)

\* Any subsets of a finite set have a minimal one among them.
LEMMA MinimalSubset ==
  ASSUME NEW S, IsFiniteSet(S), NEW B, B \subseteq SUBSET S, B # {}
  PROVE  \E T \in B : \A U \in B : ~ (U \subseteq T /\ U # T)
<1>1. IsWellFoundedOn(StrictSubsetOrdering(S), FiniteSubsetsOf(S))
  BY FS_StrictSubsetOrderingWellFounded
<1>2. B \subseteq FiniteSubsetsOf(S)
  BY FS_FiniteSubsetsOfFinite
<1>3. \E T \in B : \A U \in B : ~ (<<U, T>> \in StrictSubsetOrdering(S))
  BY <1>1, <1>2, WFMin
<1> QED BY <1>3 DEF StrictSubsetOrdering

\* Induction over the natural numbers.
LEMMA NatInduct ==
  ASSUME NEW A, 0 \in A, \A n \in Nat : n \in A => n + 1 \in A
  PROVE  Nat \subseteq A
<1> SUFFICES ASSUME NEW n \in Nat, n \notin A PROVE FALSE
  OBVIOUS
<1> DEFINE B == {0..m : m \in {k \in 0..n : k \notin A}}
       I == 0..n
<1>1. B # {} /\ B \subseteq SUBSET I
  OBVIOUS
<1>2. PICK T \in B : \A U \in B : ~ (U \subseteq T /\ U # T)
  <2>1. IsFiniteSet(I)
    BY FS_Interval
  <2> HIDE DEF B, I
  <2> QED BY <1>1, <2>1, MinimalSubset
<1>3. PICK m \in 0..n : T = 0..m /\ m \notin A
  OBVIOUS
<1>4. m - 1 \in 0..n /\ m - 1 \notin A
  BY <1>3
<1>5. 0..(m-1) \in B
  BY <1>4
<1>6. 0..(m-1) \subseteq T /\ 0..(m-1) # T
  BY <1>3, <1>4
<1> QED BY <1>2, <1>5, <1>6

\* The element that is added up next.
Pick(s) == CHOOSE x \in s : TRUE

\* The sum of v over s, given the sums of smaller sets.
SumFrom(v, sum, s) == IF s = {} THEN 0 ELSE v[Pick(s)] + sum[s \ {Pick(s)}]

\* sum holds the sums of v over the subsets of S.
Sums(v, sum, S) == sum = [s \in SUBSET S |-> SumFrom(v, sum, s)]

\* Pick takes an element of its set.
LEMMA Picks == ASSUME NEW s, s # {} PROVE Pick(s) \in s
  BY DEF Pick

\* A function may hold the sums of a finite set's subsets.
LEMMA SumsExist ==
  ASSUME NEW S, IsFiniteSet(S), NEW v, \A x \in S : v[x] \in Nat
  PROVE  \E sum : Sums(v, sum, S)
<1> DEFINE UpTo(n, sum) == \A s \in SUBSET S : Cardinality(s) <= n => sum[s] = SumFrom(v, sum, s)
           A == {n \in Nat : \E sum \in [SUBSET S -> Nat] : UpTo(n, sum)}
<1>1. \A s \in SUBSET S : IsFiniteSet(s) /\ Cardinality(s) \in Nat
                          /\ (Cardinality(s) = 0 <=> s = {})
  BY FS_Subset, FS_CardinalityType, FS_EmptySet
<1>2. \A s \in SUBSET S : s # {} => /\ Pick(s) \in S /\ s \ {Pick(s)} \in SUBSET S
                                    /\ Cardinality(s \ {Pick(s)}) = Cardinality(s) - 1
  BY <1>1, Picks, FS_RemoveElement
<1>3. 0 \in A
  <2> DEFINE zero == [s \in SUBSET S |-> 0]
  <2>1. zero \in [SUBSET S -> Nat] /\ UpTo(0, zero)
    BY <1>1 DEF SumFrom
  <2> QED BY <2>1
<1>4. ASSUME NEW n \in Nat, n \in A PROVE n + 1 \in A
  <2>1. PICK sum \in [SUBSET S -> Nat] : UpTo(n, sum)
    BY <1>4
  <2> DEFINE next == [s \in SUBSET S |-> SumFrom(v, sum, s)]
  <2>2. next \in [SUBSET S -> Nat]
    <3>1. ASSUME NEW s \in SUBSET S PROVE SumFrom(v, sum, s) \in Nat
      <4>1. CASE s = {}
        BY <4>1 DEF SumFrom
      <4>2. CASE s # {}
        <5>1. v[Pick(s)] \in Nat /\ sum[s \ {Pick(s)}] \in Nat
          BY <1>2, <4>2
        <5> QED BY <4>2, <5>1 DEF SumFrom
      <4> QED BY <4>1, <4>2
    <3> QED BY <3>1
  <2>3. ASSUME NEW s \in SUBSET S, Cardinality(s) <= n + 1 PROVE next[s] = SumFrom(v, next, s)
    <3>1. CASE s = {}
      BY <3>1 DEF SumFrom
    <3>2. CASE s # {}
      <4> DEFINE r == s \ {Pick(s)}
      <4>1. r \in SUBSET S /\ Cardinality(r) <= n
        BY <1>1, <1>2, <2>3, <3>2
      <4>2. sum[r] = next[r]
        BY <2>1, <4>1
      <4>3. next[s] = SumFrom(v, sum, s)
        OBVIOUS
      <4> QED BY <3>2, <4>2, <4>3 DEF SumFrom
    <3> QED BY <3>1, <3>2
  <2>4. UpTo(n + 1, next)
    BY <2>3
  <2> HIDE DEF next, UpTo
  <2> QED BY <2>2, <2>4
<1>5. Cardinality(S) \in A
  <2>1. Nat \subseteq A
    <3> HIDE DEF A
    <3> QED BY <1>3, <1>4, NatInduct
  <2> QED BY <1>1, <2>1
<1>6. PICK sum \in [SUBSET S -> Nat] : UpTo(Cardinality(S), sum)
  BY <1>5
<1>7. \A s \in SUBSET S : sum[s] = SumFrom(v, sum, s)
  BY <1>1, <1>6, FS_Subset
<1>8. Sums(v, sum, S)
  BY <1>7 DEF Sums
<1> QED BY <1>8

\* Both ways of adding up a set agree, however far each reaches.
LEMMA SumsAgree ==
  ASSUME NEW S, IsFiniteSet(S), NEW v, NEW sum, Sums(v, sum, S),
         NEW T, NEW w, NEW other, Sums(w, other, T),
         \A x \in T : v[x] = w[x], T \subseteq S
  PROVE  \A s \in SUBSET T : sum[s] = other[s]
<1> DEFINE B == {s \in SUBSET T : sum[s] # other[s]}
<1> SUFFICES ASSUME B # {} PROVE FALSE
  OBVIOUS
<1>1. PICK s \in B : \A u \in B : ~ (u \subseteq s /\ u # s)
  <2>1. B \subseteq SUBSET S
    OBVIOUS
  <2> HIDE DEF B
  <2> QED BY <2>1, MinimalSubset
<1>2. s \in SUBSET S /\ s \in SUBSET T /\ sum[s] # other[s]
  OBVIOUS
<1>3. sum[s] = SumFrom(v, sum, s) /\ other[s] = SumFrom(w, other, s)
  BY <1>2 DEF Sums
<1>4. s # {}
  BY <1>2, <1>3 DEF SumFrom
<1> DEFINE r == s \ {Pick(s)}
<1>5. Pick(s) \in s /\ r \subseteq s /\ r # s
  BY <1>4, Picks
<1>6. sum[r] = other[r] /\ v[Pick(s)] = w[Pick(s)]
  BY <1>1, <1>2, <1>5
<1> QED BY <1>2, <1>3, <1>4, <1>6 DEF SumFrom

\* Adding an element adds its value, whichever elements are picked first.
LEMMA SumsAdd ==
  ASSUME NEW S, IsFiniteSet(S), NEW v, \A y \in S : v[y] \in Nat, NEW sum, Sums(v, sum, S),
         NEW t \in SUBSET S, NEW z \in S, z \notin t
  PROVE  sum[t] \in Nat /\ sum[t \cup {z}] = sum[t] + v[z]
<1>1. \A s \in SUBSET S : sum[s] = SumFrom(v, sum, s)
  BY DEF Sums
<1>2. sum \in [SUBSET S -> Nat]
  <2> DEFINE B == {s \in SUBSET S : sum[s] \notin Nat}
  <2>1. ASSUME B # {} PROVE FALSE
    <3>1. PICK s \in B : \A u \in B : ~ (u \subseteq s /\ u # s)
      <4>1. B \subseteq SUBSET S
        OBVIOUS
      <4> HIDE DEF B
      <4> QED BY <2>1, <4>1, MinimalSubset
    <3> DEFINE r == s \ {Pick(s)}
    <3>2. s # {} /\ sum[s] \notin Nat
      <4>1. s \in SUBSET S /\ sum[s] \notin Nat
        OBVIOUS
      <4>2. s = {} => sum[s] = 0
        BY <1>1, <4>1 DEF SumFrom
      <4> QED BY <4>1, <4>2
    <3>3. Pick(s) \in s /\ r \subseteq s /\ r # s
      BY <3>2, Picks
    <3>4. sum[r] \in Nat /\ v[Pick(s)] \in Nat
      BY <3>1, <3>3
    <3>5. sum[s] = v[Pick(s)] + sum[r]
      BY <1>1, <3>2 DEF SumFrom
    <3> QED BY <3>2, <3>4, <3>5
  <2> QED BY <2>1 DEF Sums
<1>3. ASSUME NEW s \in SUBSET S, s # {}
      PROVE  /\ Pick(s) \in s
             /\ sum[s] = v[Pick(s)] + sum[s \ {Pick(s)}]
  BY <1>1, <1>3, Picks DEF SumFrom
<1> DEFINE Adds(s) == \A x \in S : x \notin s => sum[s \cup {x}] = sum[s] + v[x]
           B == {s \in SUBSET S : ~ Adds(s)}
<1>4. ASSUME B # {} PROVE FALSE
  <2>1. PICK s \in B : \A u \in B : ~ (u \subseteq s /\ u # s)
    <3>1. B \subseteq SUBSET S
      OBVIOUS
    <3> HIDE DEF B
    <3> QED BY <1>4, <3>1, MinimalSubset
  <2>2. s \in SUBSET S
    OBVIOUS
  <2>3. PICK x \in S : x \notin s /\ sum[s \cup {x}] # sum[s] + v[x]
    OBVIOUS
  <2> DEFINE y == Pick(s \cup {x})
             r == s \ {y}
  <2>4. y \in s \cup {x} /\ sum[s \cup {x}] = v[y] + sum[(s \cup {x}) \ {y}]
    BY <1>3, <2>2
  <2>5. CASE y = x
    <3>1. (s \cup {x}) \ {y} = s
      BY <2>3, <2>5
    <3>2. sum[s] \in Nat /\ v[x] \in Nat
      BY <1>2, <2>2
    <3>3. sum[s \cup {x}] = v[x] + sum[s]
      BY <2>4, <2>5, <3>1
    <3> QED BY <2>3, <3>2, <3>3
  <2>6. CASE y # x
    <3>1. y \in s /\ r \in SUBSET S /\ r \subseteq s /\ r # s /\ y \notin r /\ x \notin r
      BY <2>2, <2>3, <2>4, <2>6
    <3>2. Adds(r)
      <4> HIDE DEF Adds, y
      <4> QED BY <2>1, <3>1
    <3>3. (s \cup {x}) \ {y} = r \cup {x} /\ r \cup {y} = s
      BY <2>3, <2>4, <2>6
    <3>4. sum[r \cup {x}] = sum[r] + v[x] /\ sum[r \cup {y}] = sum[r] + v[y]
      BY <3>1, <3>2
    <3>5. sum[r] \in Nat /\ v[x] \in Nat /\ v[y] \in Nat
      BY <1>2, <3>1
    <3>6. sum[s \cup {x}] = v[y] + (sum[r] + v[x]) /\ sum[s] = sum[r] + v[y]
      BY <2>4, <3>3, <3>4
    <3> QED BY <2>3, <3>5, <3>6
  <2> QED BY <2>5, <2>6
<1> QED BY <1>2, <1>4

Total(v, S) == (CHOOSE f : Sums(v, f, S))[S]

\* Whatever adds up the elements of S by picking one at a time finds the total.
LEMMA TotalIsSum ==
  ASSUME NEW S, IsFiniteSet(S), NEW v, \A x \in S : v[x] \in Nat,
         NEW w, NEW other, Sums(w, other, S), \A x \in S : v[x] = w[x]
  PROVE  other[S] = Total(v, S)
<1> DEFINE sum == CHOOSE f : Sums(v, f, S)
<1>1. Sums(v, sum, S)
  BY SumsExist
<1> HIDE DEF sum
<1>2. \A s \in SUBSET S : sum[s] = other[s]
  BY <1>1, SumsAgree
<1> QED BY <1>2 DEF Total, sum

\* The total of nothing.
LEMMA TotalEmpty == ASSUME NEW v PROVE Total(v, {}) = 0
<1> DEFINE sum == CHOOSE f : Sums(v, f, {})
<1>1. \E f : Sums(v, f, {})
  BY SumsExist, FS_EmptySet
<1>2. Sums(v, sum, {})
  BY <1>1
<1> HIDE DEF sum
<1>3. sum[{}] = 0
  BY <1>2 DEF Sums, SumFrom
<1> QED BY <1>3 DEF Total, sum

\* The total of one element more.
LEMMA TotalAdds ==
  ASSUME NEW S, IsFiniteSet(S), NEW v, NEW x, x \notin S,
         \A y \in S \cup {x} : v[y] \in Nat
  PROVE  /\ Total(v, S) \in Nat
         /\ Total(v, S \cup {x}) = Total(v, S) + v[x]
<1> DEFINE R == S \cup {x}
           sum == CHOOSE f : Sums(v, f, R)
<1>1. IsFiniteSet(R) /\ S \in SUBSET R /\ x \in R /\ \A y \in R : v[y] \in Nat
  BY FS_AddElement
<1>2. Sums(v, sum, R)
  BY <1>1, SumsExist
<1> HIDE DEF sum, R
<1>3. sum[S] \in Nat /\ sum[S \cup {x}] = sum[S] + v[x]
  BY <1>1, <1>2, SumsAdd
<1>4. ASSUME NEW s \in SUBSET R PROVE sum[s] = Total(v, s)
  <2> DEFINE other == CHOOSE f : Sums(v, f, s)
  <2>1. IsFiniteSet(s) /\ \A y \in s : v[y] \in Nat
    BY <1>1, FS_Subset
  <2>2. Sums(v, other, s)
    BY <2>1, SumsExist
  <2> HIDE DEF other
  <2>3. \A u \in SUBSET s : sum[u] = other[u]
    BY <1>1, <1>2, <2>2, SumsAgree
  <2> QED BY <2>3 DEF Total, other
<1>5. sum[S] = Total(v, S) /\ sum[R] = Total(v, R)
  BY <1>1, <1>4
<1> QED BY <1>1, <1>3, <1>5 DEF R
-----------------------------------------------------------------------------
(* Operations and the reputation table *)

\* The types of an operation's fields.
LEMMA OpFields ==
  ASSUME NEW o \in Ops
  PROVE  /\ o.gas \in Nat /\ o.prefund \in Nat
         /\ o.paymaster \in Paymasters \cup {NoAddr} /\ o.factory \in Addrs \cup {NoAddr}
         /\ o.paymaster \in Addrs \cup {NoAddr}
         /\ o.paymaster # NoAddr => Checksummed[o.paymaster] \in Addrs
  BY BundlerAssumption DEF OpType

\* The gas of operations is the sum of theirs, in whatever order it is added up.
LEMMA GasIsTotal ==
  ASSUME NEW ops \in SUBSET Ops, IsFiniteSet(ops)
  PROVE  gasOf(ops) = Total([o \in Ops |-> o.gas], ops)
<1> DEFINE gas == [o \in Ops |-> o.gas]
           adds(sum) == sum = [s \in SUBSET ops |->
                                 IF s = {} THEN 0
                                 ELSE (CHOOSE x \in s : TRUE).gas + sum[s \ {CHOOSE x \in s : TRUE}]]
           chosen == CHOOSE sum : adds(sum)
<1>1. gasOf(ops) = chosen[ops]
  BY DEF gasOf, MapThenSumSet, MapThenFoldSet
<1>2. \A o \in ops : gas[o] \in Nat
  BY OpFields
<1>3. \A sum : Sums(gas, sum, ops) <=> adds(sum)
  <2>1. \A s \in SUBSET ops : s # {} => gas[Pick(s)] = Pick(s).gas
    BY Picks
  <2> QED BY <2>1 DEF Sums, SumFrom, Pick
<1> HIDE DEF gas, adds
<1>4. \E sum : Sums(gas, sum, ops)
  BY <1>2, SumsExist
<1>5. Sums(gas, chosen, ops)
  BY <1>3, <1>4
<1> HIDE DEF chosen
<1>6. gasOf(ops) = Total(gas, ops)
  BY <1>1, <1>2, <1>5, TotalIsSum
<1> QED BY <1>6 DEF gas

\* So is their prefund.
LEMMA PrefundIsTotal ==
  ASSUME NEW ops \in SUBSET Ops, IsFiniteSet(ops)
  PROVE  prefundOf(ops) = Total([o \in Ops |-> o.prefund], ops)
<1> DEFINE prefund == [o \in Ops |-> o.prefund]
           adds(sum) == sum = [s \in SUBSET ops |->
                                 IF s = {} THEN 0
                                 ELSE (CHOOSE x \in s : TRUE).prefund + sum[s \ {CHOOSE x \in s : TRUE}]]
           chosen == CHOOSE sum : adds(sum)
<1>1. prefundOf(ops) = chosen[ops]
  BY DEF prefundOf, MapThenSumSet, MapThenFoldSet
<1>2. \A o \in ops : prefund[o] \in Nat
  BY OpFields
<1>3. \A sum : Sums(prefund, sum, ops) <=> adds(sum)
  <2>1. \A s \in SUBSET ops : s # {} => prefund[Pick(s)] = Pick(s).prefund
    BY Picks
  <2> QED BY <2>1 DEF Sums, SumFrom, Pick
<1> HIDE DEF prefund, adds
<1>4. \E sum : Sums(prefund, sum, ops)
  BY <1>2, SumsExist
<1>5. Sums(prefund, chosen, ops)
  BY <1>3, <1>4
<1> HIDE DEF chosen
<1>6. prefundOf(ops) = Total(prefund, ops)
  BY <1>1, <1>2, <1>5, TotalIsSum
<1> QED BY <1>6 DEF prefund

\* One operation more adds its gas.
LEMMA GasAdds ==
  ASSUME NEW ops \in SUBSET Ops, IsFiniteSet(ops), NEW o \in Ops, o \notin ops
  PROVE  gasOf(ops) \in Nat /\ gasOf(ops \cup {o}) = gasOf(ops) + o.gas
<1> DEFINE gas == [x \in Ops |-> x.gas]
<1>1. IsFiniteSet(ops \cup {o}) /\ ops \cup {o} \in SUBSET Ops
  BY FS_AddElement
<1>2. gasOf(ops) = Total(gas, ops) /\ gasOf(ops \cup {o}) = Total(gas, ops \cup {o})
  BY <1>1, GasIsTotal
<1>3. gas[o] = o.gas /\ \A x \in ops \cup {o} : gas[x] \in Nat
  BY OpFields
<1> HIDE DEF gas
<1>4. Total(gas, ops) \in Nat /\ Total(gas, ops \cup {o}) = Total(gas, ops) + gas[o]
  BY <1>3, TotalAdds
<1> QED BY <1>2, <1>3, <1>4

\* And its prefund.
LEMMA PrefundAdds ==
  ASSUME NEW ops \in SUBSET Ops, IsFiniteSet(ops), NEW o \in Ops, o \notin ops
  PROVE  prefundOf(ops) \in Nat /\ prefundOf(ops \cup {o}) = prefundOf(ops) + o.prefund
<1> DEFINE prefund == [x \in Ops |-> x.prefund]
<1>1. IsFiniteSet(ops \cup {o}) /\ ops \cup {o} \in SUBSET Ops
  BY FS_AddElement
<1>2. prefundOf(ops) = Total(prefund, ops) /\ prefundOf(ops \cup {o}) = Total(prefund, ops \cup {o})
  BY <1>1, PrefundIsTotal
<1>3. prefund[o] = o.prefund /\ \A x \in ops \cup {o} : prefund[x] \in Nat
  BY OpFields
<1> HIDE DEF prefund
<1>4. Total(prefund, ops) \in Nat /\ Total(prefund, ops \cup {o}) = Total(prefund, ops) + prefund[o]
  BY <1>3, TotalAdds
<1> QED BY <1>2, <1>3, <1>4

\* Counting an operation seen keeps the table's type.
LEMMA SeenType ==
  ASSUME NEW es \in Rep!EntriesType, NEW a \in Addrs \cup {NoAddr}
  PROVE  Rep!updateSeenStatus(es, a) \in Rep!EntriesType
<1>1. CASE a = NoAddr
    BY <1>1 DEF Rep!updateSeenStatus
<1>2. CASE a # NoAddr
  <2>1. Rep!getOrCreate(es, a) \in [opsSeen : Nat, opsIncluded : Nat]
      BY <1>2 DEF Rep!EntriesType, Rep!getOrCreate, Rep!ReputationEntry
  <2>2. [Rep!getOrCreate(es, a) EXCEPT !.opsSeen = @ + 1] \in [opsSeen : Nat, opsIncluded : Nat]
      BY <2>1
  <2> QED BY <1>2, <2>2 DEF Rep!EntriesType, Rep!updateSeenStatus, Rep!ReputationEntry
<1> QED BY <1>1, <1>2

\* Recording a crash keeps the table's type.
LEMMA CrashedType ==
  ASSUME NEW es \in Rep!EntriesType, NEW a \in Addrs
  PROVE  Rep!crashedHandleOps(es, a) \in Rep!EntriesType
  BY ReputationAssumption DEF Rep!EntriesType, Rep!crashedHandleOps, Rep!ReputationEntry

\* An operation that passed the check for banned entities names none of the black list.
LEMMA NotBannedUnlisted ==
  ASSUME NEW o, ~HasStatus(o, "BANNED")
  PROVE  Unlisted(o)
  BY ReputationAssumption DEF HasStatus, Unlisted, Rep!getStatus, Rep!AlwaysOk

\* At most one task builds a bundle.
LEMMA LoneBuilder ==
  ASSUME MutexInv, NEW t \in Tasks, NEW u \in Tasks, pc[t] \in Building, pc[u] \in Building
  PROVE  t = u
  BY DEF MutexInv, MutexDiscipline, HoldsBundle
-----------------------------------------------------------------------------
(* The shared state *)

\* Going on with a build leaves the shared state typed.
LEMMA ContinueKeepsShared ==
  ASSUME SharedInv, TasksType, NEW t \in Tasks, pc[t] \in Building, NEW locals, Continue(t, locals),
         pool' \subseteq pool
  PROVE  SharedInv'
  BY DEF SharedInv, TasksType, Continue, GoTo, Building

\* Ending a build leaves the shared state typed.
LEMMA FinishKeepsShared ==
  ASSUME SharedInv, TasksType, NEW t \in Tasks, pc[t] \in Building, NEW how \in {"ok", "error"},
         Finish(t, how), pool' \subseteq pool, entries' \in Rep!EntriesType, UNCHANGED mode
  PROVE  SharedInv'
  BY DEF SharedInv, TasksType, Finish, GoTo, Building, Tasks

\* A request's steps up to the bundle leave the shared state typed.
LEMMA RequestKeepsShared ==
  ASSUME SharedInv, TasksType, NEW r \in Requests, RequestStep(r)
  PROVE  SharedInv'
<1> USE DEF SharedInv, TasksType, AtAwait, Answer, GoTo, shared, Tasks
<1>1. CASE BeginValidation(r)
    BY <1>1 DEF BeginValidation
<1>2. CASE ValidationFails(r) \/ AdditionFails(r)
    BY <1>2 DEF ValidationFails, AdditionFails
<1>3. CASE AddAndAttempt(r)
  <2>1. op[r] \in Ops
      BY <1>3 DEF AddAndAttempt
  <2>2. pool' \subseteq Ops
      BY <1>3, <2>1 DEF AddAndAttempt, Pool!added
  <2>3. entries' \in Rep!EntriesType
      BY <1>3, <2>1, SeenType, OpFields DEF AddAndAttempt
  <2>4. UNCHANGED op /\ \A q \in Requests : q # r => pc'[q] = pc[q]
      BY <1>3 DEF AddAndAttempt
  <2>5. pc[r] # "idle" /\ UNCHANGED mode
      BY <1>3 DEF AddAndAttempt
  <2> HIDE DEF AtAwait, Answer, GoTo
  <2> QED BY <2>1, <2>2, <2>3, <2>4, <2>5
<1> QED BY <1>1, <1>2, <1>3 DEF RequestStep

\* A builder's steps leave the shared state typed.
LEMMA BuildKeepsShared ==
  ASSUME SharedInv, BuildInv, TasksType, NEW t \in Tasks, BuildStep(t)
  PROVE  SharedInv'
<1>1. ASSUME pc[t] # "idle", NEW place \in Places, GoTo(t, place), UNCHANGED <<shared, op>>
      PROVE  SharedInv'
    BY <1>1 DEF SharedInv, TasksType, GoTo, shared
<1>2. ASSUME pc[t] \in Building, NEW d, TakeCurrent(t, d)
      PROVE  SharedInv'
    BY <1>2, ContinueKeepsShared DEF TakeCurrent
<1>3. ASSUME pc[t] \in Building, DropCurrent(t)
      PROVE  SharedInv'
    BY <1>3, ContinueKeepsShared DEF DropCurrent, Pool!removed
<1>4. ASSUME pc[t] \in Building, NEW how \in {"ok", "error"}, Finish(t, how), UNCHANGED shared
      PROVE  SharedInv'
    BY <1>4, FinishKeepsShared DEF shared, SharedInv
<1> USE DEF AtAwait, Building, Places
<1>5. CASE StartBuild(t)
    BY <1>1, <1>5 DEF StartBuild
<1>6. CASE Scan(t)
  <2> PICK o \in NextEntries : ScanBanned(o) \/ ScanSkipped(o) \/ ScanRevalidate(t, o)
      BY <1>6 DEF Scan
  <2>1. CASE ScanBanned(o)
      BY <2>1 DEF ScanBanned, tasks, SharedInv, Pool!removed
  <2>2. CASE ScanSkipped(o)
      BY <2>2 DEF ScanSkipped, tasks, SharedInv, shared
  <2>3. CASE ScanRevalidate(t, o)
      BY <1>1, <1>6, <2>3 DEF Scan, ScanRevalidate
  <2> QED BY <2>1, <2>2, <2>3
<1>7. CASE ScanEnds(t)
    BY <1>1, <1>4, <1>7 DEF ScanEnds
<1>8. CASE RevalidationFails(t)
    BY <1>3, <1>8 DEF RevalidationFails
<1>9. CASE RevalidationPasses(t)
    BY <1>1, <1>2, <1>3, <1>9, ContinueKeepsShared DEF RevalidationPasses
<1>10. CASE BalanceReply(t)
    BY <1>2, <1>4, <1>10 DEF BalanceReply
<1>11. CASE BeneficiaryReply(t)
    BY <1>1, <1>4, <1>11 DEF BeneficiaryReply
<1>12. CASE Sent(t)
    BY <1>12, FinishKeepsShared DEF Sent, Pool!removedAll, SharedInv
<1>13. CASE SendFails(t)
    BY <1>4, <1>13 DEF SendFails
<1>14. ASSUME NEW o \in build.bundle, FailedOp(t, o)
       PROVE  SharedInv'
  <2>1. o \in Ops
      BY <1>14 DEF BuildInv, LocalsOK, BuildType
  <2>2. pool' \subseteq pool /\ entries' \in Rep!EntriesType
      BY <1>14, <2>1, OpFields, CrashedType DEF FailedOp, SharedInv, Pool!removed
  <2> QED BY <1>14, <2>2, FinishKeepsShared DEF FailedOp
<1> QED BY <1>5, <1>6, <1>7, <1>8, <1>9, <1>10, <1>11, <1>12, <1>13, <1>14 DEF BuildStep

\* Every step leaves the shared state typed.
LEMMA NextKeepsShared == IInv /\ [Next]_vars => SharedInv'
<1> SUFFICES ASSUME MutexInv, SharedInv, BuildInv, [Next]_vars
             PROVE  SharedInv'
    BY DEF IInv
<1> TasksType
    BY DEF MutexInv
<1> USE DEF SharedInv, TasksType, shared, tasks
<1>1. ASSUME NEW r \in Requests, NEW o \in Ops, Submit(r, o)
      PROVE  SharedInv'
    BY <1>1 DEF Submit, GoTo, Tasks
<1>2. ASSUME NEW t \in Ticks, TimerTick(t) \/ SendBundleNow(t)
      PROVE  SharedInv'
    BY <1>2, BundlerAssumption DEF TimerTick, SendBundleNow, ForceAttempt, GoTo, Tasks
<1>3. ASSUME NEW m \in Modes, SetAutoBundler(m)
      PROVE  SharedInv'
    BY <1>3 DEF SetAutoBundler
<1>4. CASE ClearState
    BY <1>4 DEF ClearState, Rep!NoEntries, Rep!EntriesType
<1>5. CASE UNCHANGED vars
    BY <1>5 DEF vars
<1> HIDE DEF SharedInv, TasksType, shared, tasks
<1> QED BY <1>1, <1>2, <1>3, <1>4, <1>5, RequestKeepsShared, BuildKeepsShared DEF Next
-----------------------------------------------------------------------------
(* The build *)

\* createBundle starts from good locals.
LEMMA EmptyBuildOK == LocalsOK(NoBuild)
<1>1. gasOf({}) = 0
  BY GasIsTotal, TotalEmpty, FS_EmptySet
<1>2. SumsOK({}, 0, NoBuild.deposit)
  BY <1>1, FS_EmptySet DEF SumsOK, sponsoredBy, NoBuild
<1> QED BY <1>2, BundlerAssumption DEF LocalsOK, NoBuild, BuildType, DepositType

\* Steps that leave the locals alone and move nobody onto an await of the loop.
LEMMA SameBuildKept ==
  ASSUME BuildInv, UNCHANGED build,
         \A u \in Tasks : pc'[u] \in {"revalidate", "balance"} => pc'[u] = pc[u]
  PROVE  BuildInv'
  BY DEF BuildInv, LocalsOK, CurrentOK, CurrentFits, NeedsDeposit, Unlisted

\* Steps of the task that builds, after which no operation is in its hands.
LEMMA NewLocalsKept ==
  ASSUME MutexInv, NEW t \in Tasks, pc[t] \in Building, LocalsOK(build'),
         NEW place, place \notin {"revalidate", "balance"}, GoTo(t, place)
  PROVE  BuildInv'
<1>1. \A u \in Tasks : u # t => pc'[u] \notin {"revalidate", "balance"}
    BY LoneBuilder DEF GoTo, MutexInv, TasksType, Building
<1>2. pc'[t] \notin {"revalidate", "balance"}
    BY DEF GoTo, MutexInv, TasksType
<1> QED BY <1>1, <1>2 DEF BuildInv, LocalsOK, Unlisted

\* The locals end with the call.
LEMMA FinishKeepsBuild ==
  ASSUME MutexInv, NEW t \in Tasks, pc[t] \in Building, NEW how \in {"ok", "error"},
         Finish(t, how)
  PROVE  BuildInv'
<1>1. LocalsOK(build')
    BY EmptyBuildOK DEF Finish
<1>2. PICK place \in {how, "idle"} : GoTo(t, place)
    BY DEF Finish
<1> QED BY <1>1, <1>2, NewLocalsKept

\* Good locals carried to the next await stay good.
LEMMA ContinueKeepsBuild ==
  ASSUME MutexInv, NEW t \in Tasks, pc[t] \in Building, NEW locals,
         LocalsOK(locals), Continue(t, locals)
  PROVE  BuildInv'
<1>1. LocalsOK(build')
    BY DEF Continue, LocalsOK, BuildType
<1> QED BY <1>1, NewLocalsKept DEF Continue

\* left is what is left of the known deposits once o is charged.
LeftOf(known, left, o) ==
  \A p \in Paymasters :
    IF p # o.paymaster THEN left[p] = known[p]
    ELSE /\ known[p] # Unread /\ left[p] # Unread
         /\ left[p].read = known[p].read /\ left[p].left + o.prefund = known[p].left

\* Taking an operation that was checked and fits keeps the locals good.
LEMMA TakenOK ==
  ASSUME LocalsOK(build), CurrentOK(build), CurrentFits(build),
         NEW known \in DepositType, SumsOK(build.bundle, build.totalGas, known),
         NEW left \in DepositType, LeftOf(known, left, build.cur)
  PROVE  LocalsOK(Taken(build, left))
<1>1. build \in BuildType /\ build.cur \in Ops /\ build.cur.gas \in Nat
    BY OpFields DEF LocalsOK, CurrentOK
<1> DEFINE both == build.bundle \cup {build.cur}
           gas == build.totalGas + build.cur.gas
<1>2. both \in SUBSET Ops /\ gas \in Nat
    BY <1>1 DEF BuildType
<1>3. Taken(build, left) =
        [rest |-> build.rest, cur |-> build.cur, bundle |-> both, totalGas |-> gas,
         deposit |-> left]
    BY DEF Taken
<1>4. Taken(build, left) \in BuildType
    BY <1>1, <1>2, <1>3 DEF BuildType
<1>5. SumsOK(both, gas, left)
  <2>1. /\ IsFiniteSet(build.bundle) /\ build.totalGas = gasOf(build.bundle)
        /\ build.cur \notin build.bundle /\ build.bundle \in SUBSET Ops
    BY <1>1 DEF LocalsOK, SumsOK, CurrentOK, BuildType
  <2>2. IsFiniteSet(both) /\ gas = gasOf(both)
    BY <1>1, <2>1, FS_AddElement, GasAdds
  <2>3. ASSUME NEW p \in Paymasters, p = build.cur.paymaster
        PROVE  /\ left[p] # Unread
               /\ prefundOf(sponsoredBy(p, both)) + left[p].left = left[p].read
    <3> DEFINE old == sponsoredBy(p, build.bundle)
    <3>1. sponsoredBy(p, both) = old \cup {build.cur} /\ build.cur \notin old
          /\ old \in SUBSET Ops /\ IsFiniteSet(old)
      BY <2>1, <2>3, FS_Subset DEF sponsoredBy
    <3>2. prefundOf(old) \in Nat /\ build.cur.prefund \in Nat
          /\ prefundOf(sponsoredBy(p, both)) = prefundOf(old) + build.cur.prefund
      BY <1>1, <3>1, PrefundAdds, OpFields
    <3>3. known[p] # Unread /\ left[p] # Unread
          /\ left[p].read = known[p].read /\ left[p].left + build.cur.prefund = known[p].left
      BY <2>3 DEF LeftOf
    <3>4. prefundOf(old) + known[p].left = known[p].read
      BY <3>3 DEF SumsOK
    <3>5. left[p].left \in Nat
      BY <3>3 DEF DepositType
    <3> QED BY <3>2, <3>3, <3>4, <3>5
  <2>4. ASSUME NEW p \in Paymasters, p # build.cur.paymaster
        PROVE  sponsoredBy(p, both) = sponsoredBy(p, build.bundle) /\ left[p] = known[p]
    BY <2>4 DEF sponsoredBy, LeftOf
  <2> QED BY <2>2, <2>3, <2>4 DEF SumsOK
<1> QED BY <1>3, <1>4, <1>5 DEF LocalsOK, CurrentOK, CurrentFits

\* Taking the current operation, with or without a deposit that was read before.
LEMMA TakeCurrentKeepsBuild ==
  ASSUME MutexInv, BuildInv, NEW t \in Tasks, pc[t] \in {"revalidate", "balance"},
         CurrentFits(build), NEW d \in DepositType, SumsOK(build.bundle, build.totalGas, d),
         build.cur.paymaster # NoAddr => d[build.cur.paymaster] # Unread,
         TakeCurrent(t, d)
  PROVE  BuildInv'
<1> DEFINE o == build.cur
           p == o.paymaster
<1>1. LocalsOK(build) /\ CurrentOK(build) /\ pc[t] \in Building
    BY DEF BuildInv, Building
<1>2. o \in Ops /\ o.prefund \in Nat /\ p \in Paymasters \cup {NoAddr}
    BY <1>1, OpFields DEF CurrentOK
<1>3. CASE p = NoAddr /\ Continue(t, Taken(build, d))
  <2>1. LeftOf(d, d, o)
      BY <1>3, ReputationAssumption, BundlerAssumption DEF LeftOf
  <2> QED BY <1>1, <1>3, <2>1, TakenOK, ContinueKeepsBuild
<1>4. CASE /\ p # NoAddr /\ d[p].left >= o.prefund
           /\ Continue(t, Taken(build, [d EXCEPT ![p].left = @ - o.prefund]))
  <2>1. d[p] \in [read : Nat, left : Nat]
      BY <1>2, <1>4 DEF DepositType
  <2>2. [d[p] EXCEPT !.left = @ - o.prefund] \in [read : Nat, left : Nat]
      BY <1>2, <1>4, <2>1
  <2>3. [d EXCEPT ![p].left = @ - o.prefund] \in DepositType
      BY <1>2, <2>2 DEF DepositType
  <2>4. LeftOf(d, [d EXCEPT ![p].left = @ - o.prefund], o)
      BY <1>2, <1>4, <2>1, <2>2, BundlerAssumption DEF LeftOf, DepositType
  <2> QED BY <1>1, <1>4, <2>3, <2>4, TakenOK, ContinueKeepsBuild
<1>5. CASE Continue(t, [build EXCEPT !.deposit = d])
  <2>1. LocalsOK([build EXCEPT !.deposit = d])
      BY <1>1 DEF LocalsOK, BuildType
  <2> QED BY <1>1, <1>5, <2>1, ContinueKeepsBuild
<1> QED BY <1>3, <1>4, <1>5 DEF TakeCurrent

\* Dropping the current operation leaves the locals as they were.
LEMMA DropCurrentKeepsBuild ==
  ASSUME MutexInv, BuildInv, NEW t \in Tasks, pc[t] \in Building, DropCurrent(t)
  PROVE  BuildInv'
  BY ContinueKeepsBuild DEF DropCurrent, BuildInv

\* The synchronous part of the loop establishes what is known of the current operation.
LEMMA ScanKeepsBuild ==
  ASSUME MutexInv, SharedInv, BuildInv, NEW t \in Tasks, Scan(t)
  PROVE  BuildInv'
<1>1. PICK o \in NextEntries : ScanBanned(o) \/ ScanSkipped(o) \/ ScanRevalidate(t, o)
    BY DEF Scan
<1>2. o \in Ops /\ LocalsOK(build) /\ pc[t] = "scan" /\ pc[t] \in Building
    BY <1>1 DEF NextEntries, BuildInv, LocalsOK, BuildType, Scan, Building
<1>3. \A u \in Tasks : pc[u] \in Building => u = t
    BY <1>2, LoneBuilder
<1>4. CASE ScanBanned(o) \/ ScanSkipped(o)
  <2>1. UNCHANGED pc /\ build' = [build EXCEPT !.rest = @ \ {o}]
      BY <1>4 DEF ScanBanned, ScanSkipped, tasks
  <2>2. LocalsOK(build')
      BY <1>2, <2>1 DEF LocalsOK, BuildType
  <2>3. \A u \in Tasks : pc'[u] \notin {"revalidate", "balance"}
      BY <1>2, <1>3, <2>1 DEF Building
  <2> QED BY <2>2, <2>3 DEF BuildInv, LocalsOK, Unlisted
<1>5. CASE ScanRevalidate(t, o)
  <2>1. build' = [build EXCEPT !.rest = @ \ {o}, !.cur = o] /\ GoTo(t, "revalidate")
      BY <1>5 DEF ScanRevalidate
  <2>2. build' \in BuildType /\ build'.cur = o
        /\ build'.bundle = build.bundle /\ build'.totalGas = build.totalGas
        /\ build'.deposit = build.deposit
      BY <1>2, <2>1 DEF LocalsOK, BuildType
  <2>3. LocalsOK(build')
      BY <1>2, <2>2 DEF LocalsOK
  <2>4. CurrentOK(build')
      BY <1>2, <1>5, <2>2, NotBannedUnlisted
      DEF ScanRevalidate, CurrentOK, Skipped, SenderInBundle
  <2>5. \A u \in Tasks : pc'[u] # "balance"
      BY <1>3, <2>1 DEF GoTo, MutexInv, TasksType, Building
  <2> QED BY <2>3, <2>4, <2>5 DEF BuildInv, LocalsOK, CurrentOK, Unlisted
<1> QED BY <1>1, <1>4, <1>5

\* Every step of a builder keeps its locals good.
LEMMA StepKeepsBuild ==
  ASSUME MutexInv, SharedInv, BuildInv, NEW t \in Tasks, BuildStep(t)
  PROVE  BuildInv'
<1> USE DEF AtAwait, Building
<1>1. ASSUME pc[t] \in Building, NEW place, place \notin {"revalidate", "balance"},
             GoTo(t, place), UNCHANGED build
      PROVE  BuildInv'
    BY <1>1, NewLocalsKept DEF BuildInv, LocalsOK, Unlisted
<1>2. ASSUME pc[t] \in {"revalidate", "balance"}
      PROVE  LocalsOK(build) /\ CurrentOK(build) /\ build.cur \in Ops
    BY <1>2 DEF BuildInv, CurrentOK
<1>3. CASE StartBuild(t)
  <2>1. HoldsBundle(t) /\ build' = [NoBuild EXCEPT !.rest = pool] /\ GoTo(t, "scan")
      BY <1>3 DEF StartBuild, HoldsBundle
  <2>2. LocalsOK(build')
      BY <2>1, EmptyBuildOK DEF LocalsOK, BuildType, SharedInv
  <2>3. \A u \in Tasks : pc'[u] \notin {"revalidate", "balance"}
      BY <2>1 DEF GoTo, MutexInv, TasksType, MutexDiscipline, HoldsBundle
  <2> QED BY <2>2, <2>3 DEF BuildInv, LocalsOK, Unlisted
<1>4. CASE Scan(t)
    BY <1>4, ScanKeepsBuild
<1>5. CASE ScanEnds(t)
    BY <1>1, <1>5, FinishKeepsBuild DEF ScanEnds
<1>6. CASE RevalidationFails(t)
    BY <1>6, DropCurrentKeepsBuild DEF RevalidationFails
<1>7. CASE RevalidationPasses(t)
  <2> DEFINE o == build.cur
  <2>1. /\ pc[t] = "revalidate" /\ LocalsOK(build) /\ CurrentOK(build)
        /\ o \in Ops /\ o.gas \in Nat /\ o.paymaster \in Paymasters \cup {NoAddr}
      BY <1>2, <1>7, OpFields DEF RevalidationPasses
  <2>2. CASE DropCurrent(t)
      BY <2>1, <2>2, DropCurrentKeepsBuild
  <2>3. CASE Continue(t, [build EXCEPT !.rest = {}])
    <3>1. LocalsOK([build EXCEPT !.rest = {}])
        BY <2>1 DEF LocalsOK, BuildType
    <3> QED BY <2>1, <2>3, <3>1, ContinueKeepsBuild
  <2>4. CASE ~Full(o) /\ NeedsDeposit(o) /\ GoTo(t, "balance") /\ UNCHANGED build
    <3>1. CurrentFits(build)
        BY <2>1, <2>4, BundlerAssumption DEF Full, CurrentFits, LocalsOK, BuildType
    <3>2. \A u \in Tasks : u # t => pc'[u] \notin {"revalidate", "balance"}
        BY <2>1, <2>4, LoneBuilder DEF GoTo, MutexInv, TasksType
    <3>3. NeedsDeposit(o)'
        BY <2>4 DEF NeedsDeposit
    <3> QED BY <2>1, <2>4, <3>1, <3>2, <3>3 DEF BuildInv, LocalsOK, CurrentOK, CurrentFits, Unlisted
  <2>5. CASE ~Full(o) /\ ~NeedsDeposit(o) /\ TakeCurrent(t, build.deposit)
    <3>1. CurrentFits(build)
        BY <2>1, <2>5, BundlerAssumption DEF Full, CurrentFits, LocalsOK, BuildType
    <3>2. build.deposit \in DepositType
        BY <2>1 DEF LocalsOK, BuildType
    <3> QED BY <2>1, <2>5, <3>1, <3>2, TakeCurrentKeepsBuild DEF NeedsDeposit, LocalsOK
  <2> QED BY <1>7, <2>2, <2>3, <2>4, <2>5 DEF RevalidationPasses
<1>8. CASE BalanceReply(t)
  <2>1. CASE Finish(t, "error")
      BY <1>8, <2>1, FinishKeepsBuild DEF BalanceReply
  <2>2. ASSUME NEW d \in Deposits,
               TakeCurrent(t, [build.deposit EXCEPT
                                 ![build.cur.paymaster] = [read |-> d, left |-> d]])
        PROVE  BuildInv'
    <3> DEFINE after == [build.deposit EXCEPT
                           ![build.cur.paymaster] = [read |-> d, left |-> d]]
    <3>1. pc[t] = "balance" /\ LocalsOK(build) /\ CurrentFits(build) /\ NeedsDeposit(build.cur)
          /\ build.cur.paymaster \in Paymasters \cup {NoAddr}
        BY <1>2, <1>8, OpFields DEF BalanceReply, BuildInv
    <3>2. [read |-> d, left |-> d] \in [read : Nat, left : Nat]
        BY BundlerAssumption
    <3>3. after \in DepositType
        BY <3>1, <3>2 DEF LocalsOK, BuildType, DepositType
    <3>4. build.cur.paymaster # NoAddr => after[build.cur.paymaster] # Unread
        BY <3>1, <3>2, BundlerAssumption DEF LocalsOK, BuildType, DepositType
    <3>5. SumsOK(build.bundle, build.totalGas, after)
      <4>1. /\ build.cur.paymaster \in Paymasters
            /\ build.deposit[build.cur.paymaster] = Unread
            /\ build.deposit \in DepositType
          BY <3>1 DEF NeedsDeposit, LocalsOK, BuildType
      <4>2. sponsoredBy(build.cur.paymaster, build.bundle) = {}
          BY <3>1, <4>1 DEF LocalsOK, SumsOK
      <4>3. prefundOf({}) = 0
          BY PrefundIsTotal, TotalEmpty, FS_EmptySet
      <4>4. \A p \in Paymasters : p # build.cur.paymaster => after[p] = build.deposit[p]
          BY <4>1 DEF DepositType
      <4>5. after[build.cur.paymaster] = [read |-> d, left |-> d] /\ d \in Nat
          BY <4>1, BundlerAssumption DEF DepositType
      <4> HIDE DEF after
      <4>6. ASSUME NEW p \in Paymasters, p = build.cur.paymaster
            PROVE  prefundOf(sponsoredBy(p, build.bundle)) + after[p].left = after[p].read
          BY <4>2, <4>3, <4>5, <4>6
      <4> QED BY <3>1, <3>4, <4>1, <4>4, <4>6, BundlerAssumption DEF LocalsOK, SumsOK
    <3> QED BY <2>2, <3>1, <3>3, <3>4, <3>5, TakeCurrentKeepsBuild
  <2> QED BY <1>8, <2>1, <2>2 DEF BalanceReply
<1>9. CASE BeneficiaryReply(t)
    BY <1>1, <1>9, FinishKeepsBuild DEF BeneficiaryReply
<1>10. CASE Sent(t) \/ SendFails(t)
    BY <1>10, FinishKeepsBuild DEF Sent, SendFails
<1>11. ASSUME NEW o \in build.bundle, FailedOp(t, o)
       PROVE  BuildInv'
    BY <1>11, FinishKeepsBuild DEF FailedOp
<1> QED BY <1>3, <1>4, <1>5, <1>6, <1>7, <1>8, <1>9, <1>10, <1>11 DEF BuildStep

\* Every step keeps the builder's locals good.
LEMMA NextKeepsBuild == IInv /\ [Next]_vars => BuildInv'
<1> SUFFICES ASSUME MutexInv, SharedInv, BuildInv, [Next]_vars
             PROVE  BuildInv'
    BY DEF IInv
<1>1. ASSUME NEW t \in Tasks, NEW place \in {"exec", "validate", "wait", "ok", "error"},
             GoTo(t, place), UNCHANGED build
      PROVE  BuildInv'
    BY <1>1, SameBuildKept DEF GoTo, MutexInv, TasksType
<1>2. ASSUME UNCHANGED <<pc, build>>
      PROVE  BuildInv'
    BY <1>2, SameBuildKept
<1>3. ASSUME NEW r \in Requests, NEW o \in Ops, Submit(r, o)
      PROVE  BuildInv'
    BY <1>1, <1>3 DEF Submit, Tasks
<1>4. ASSUME NEW r \in Requests, RequestStep(r)
      PROVE  BuildInv'
    BY <1>1, <1>4 DEF RequestStep, BeginValidation, ValidationFails, AdditionFails, AddAndAttempt,
       Answer, Tasks
<1>5. ASSUME NEW t \in Ticks, TimerTick(t) \/ SendBundleNow(t)
      PROVE  BuildInv'
    BY <1>1, <1>5 DEF TimerTick, SendBundleNow, ForceAttempt, Tasks
<1>6. ASSUME NEW m \in Modes, SetAutoBundler(m)
      PROVE  BuildInv'
    BY <1>2, <1>6 DEF SetAutoBundler, tasks
<1>7. CASE ClearState
    BY <1>2, <1>7 DEF ClearState, tasks
<1>8. CASE UNCHANGED vars
    BY <1>2, <1>8 DEF vars
<1> QED BY <1>3, <1>4, <1>5, <1>6, <1>7, <1>8, StepKeepsBuild DEF Next
-----------------------------------------------------------------------------
(* The theorems *)

\* The server starts in the invariant.
LEMMA InitInv == Init => IInv
<1> SUFFICES ASSUME Init
             PROVE  IInv
    OBVIOUS
<1>1. SharedInv
    BY BundlerAssumption DEF Init, SharedInv, Rep!NoEntries, Rep!EntriesType, Tasks
<1>2. BuildInv
    BY EmptyBuildOK DEF Init, BuildInv
<1> QED BY <1>1, <1>2, InitMutex DEF IInv

\* The inductive invariant holds along every behaviour.
THEOREM Invariant == Spec => []IInv
<1>1. IInv /\ [Next]_vars => MutexInv'
    BY NextIsQueueStep, QueueStepKeeps DEF IInv
<1>2. IInv /\ [Next]_vars => IInv'
    BY <1>1, NextKeepsShared, NextKeepsBuild DEF IInv
<1> QED BY <1>2, InitInv, PTL DEF Spec

\* Every variable of the bundler keeps its type: the deposits a build charges
\* never go below zero, and an operation in a task's hands is one of Ops.
THEOREM BundlerType == Spec => []TypeOK
<1>1. IInv => TypeOK
    BY DEF IInv, MutexInv, TasksType, SharedInv, BuildInv, LocalsOK, TypeOK
<1> QED BY <1>1, Invariant, PTL

\* Two operations of a bundle never have the same sender, whatever happens at
\* the awaits of createBundle.
THEOREM OneOpPerSender == Spec => []BundleOneOpPerSender
<1>1. IInv => BundleOneOpPerSender
    BY DEF IInv, BuildInv, LocalsOK, BundleOneOpPerSender
<1> QED BY <1>1, Invariant, PTL

\* No bundle ever holds an operation of a blacklisted paymaster or factory.
THEOREM NoneBlacklisted == Spec => []NoBlacklistedInBundle
<1>1. IInv => NoBlacklistedInBundle
    BY DEF IInv, BuildInv, LocalsOK, Unlisted, NoBlacklistedInBundle
<1> QED BY <1>1, Invariant, PTL

\* The gas of a bundle is that of its operations and within maxBundleGas, however
\* often the gas check and the await of the deposit are interleaved with other
\* tasks (createBundle).
THEOREM GasWithinLimit == Spec => []BundleFits
<1>1. IInv => BundleFits
    BY DEF IInv, BuildInv, LocalsOK, SumsOK, gasOf, BundleFits
<1> QED BY <1>1, Invariant, PTL

\* What a bundle charges a paymaster and what is left of its deposit add up to
\* what was read of it: no paymaster pays for more than it has, for any prefunds
\* and deposits (paymasterDeposit in createBundle).
THEOREM DepositsCover == Spec => []NoPaymasterOvercommitted
<1>1. IInv => NoPaymasterOvercommitted
  <2> SUFFICES ASSUME IInv, NEW p \in Paymasters, sponsoredBy(p, build.bundle) # {}
               PROVE  /\ build.deposit[p].left >= 0
                      /\ prefundOf(sponsoredBy(p, build.bundle)) + build.deposit[p].left
                           = build.deposit[p].read
    BY DEF NoPaymasterOvercommitted, sponsoredBy, prefundOf
  <2>1. build.deposit[p] # Unread /\ build.deposit \in DepositType
    BY DEF IInv, BuildInv, LocalsOK, SumsOK, BuildType
  <2>2. build.deposit[p].left \in Nat
    BY <2>1 DEF DepositType
  <2> QED BY <2>1, <2>2 DEF IInv, BuildInv, LocalsOK, SumsOK
<1> QED BY <1>1, Invariant, PTL
-----------------------------------------------------------------------------
(***************************************************************************)
(* The mempool of the bundler: only addUserOp adds to it, by replacing what  *)
(* has the key, so its keys stay unique however requests, forced attempts  *)
(* and the debug calls interleave.                                         *)
(***************************************************************************)

\* createBundle and sendBundle never add to the mempool.
LEMMA BuildOnlyRemoves ==
  ASSUME NEW t \in Tasks, BuildStep(t)
  PROVE  pool' \subseteq pool
<1>1. ASSUME NEW d, TakeCurrent(t, d) PROVE pool' = pool
    BY <1>1 DEF TakeCurrent
<1>2. ASSUME DropCurrent(t) PROVE pool' \subseteq pool
    BY <1>2 DEF DropCurrent, Pool!removed
<1>3. CASE Scan(t)
    BY <1>3 DEF Scan, ScanBanned, ScanSkipped, ScanRevalidate, shared, Pool!removed
<1>4. CASE StartBuild(t) \/ ScanEnds(t) \/ BeneficiaryReply(t) \/ SendFails(t)
    BY <1>4 DEF StartBuild, ScanEnds, BeneficiaryReply, SendFails, shared
<1>5. CASE RevalidationFails(t) \/ RevalidationPasses(t) \/ BalanceReply(t)
    BY <1>1, <1>2, <1>5 DEF RevalidationFails, RevalidationPasses, BalanceReply, shared
<1>6. CASE Sent(t)
    BY <1>6 DEF Sent, Pool!removedAll
<1>7. ASSUME NEW o \in build.bundle, FailedOp(t, o) PROVE pool' \subseteq pool
    BY <1>7 DEF FailedOp, Pool!removed
<1> QED BY <1>3, <1>4, <1>5, <1>6, <1>7 DEF BuildStep

\* Only addUserOp adds, so every other step leaves a part of the pool.
LEMMA OnlyRequestsAdd ==
  ASSUME [Next]_vars
  PROVE  (\E r \in Requests : AddAndAttempt(r)) \/ pool' \subseteq pool
<1>1. ASSUME NEW r \in Requests, RequestStep(r)
      PROVE  AddAndAttempt(r) \/ pool' = pool
    BY <1>1 DEF RequestStep, BeginValidation, ValidationFails, AdditionFails, shared
<1>2. ASSUME NEW r \in Requests, NEW o \in Ops, Submit(r, o)
      PROVE  pool' = pool
    BY <1>2 DEF Submit, shared
<1>3. ASSUME NEW t \in Ticks, TimerTick(t) \/ SendBundleNow(t)
      PROVE  pool' = pool
    BY <1>3 DEF TimerTick, SendBundleNow, ForceAttempt, shared
<1>4. ASSUME NEW m \in Modes, SetAutoBundler(m)
      PROVE  pool' = pool
    BY <1>4 DEF SetAutoBundler
<1>5. CASE ClearState
    BY <1>5 DEF ClearState
<1>6. CASE UNCHANGED vars
    BY <1>6 DEF vars
<1> QED BY <1>1, <1>2, <1>3, <1>4, <1>5, <1>6, BuildOnlyRemoves DEF Next

\* An empty mempool has unique keys.
LEMMA InitUnique == Init => Pool!KeysUnique
  BY DEF Init, Pool!KeysUnique

\* Adding by replacement and removing keep the keys unique.
LEMMA NextUnique == Pool!KeysUnique /\ [Next]_vars => Pool!KeysUnique'
<1> SUFFICES ASSUME Pool!KeysUnique, [Next]_vars
             PROVE  Pool!KeysUnique'
    OBVIOUS
<1>1. ASSUME NEW r \in Requests, AddAndAttempt(r)
      PROVE  Pool!KeysUnique'
  <2>1. pool' = (pool \ {o \in pool : Pool!SameKey(o, op[r])}) \cup {op[r]}
      BY <1>1 DEF AddAndAttempt, Pool!added, Pool!SameKeyIn
  <2> SUFFICES ASSUME NEW o1 \in pool', NEW o2 \in pool', Pool!SameKey(o1, o2)
               PROVE  o1 = o2
      BY DEF Pool!KeysUnique
  <2>2. CASE o1 = op[r] \/ o2 = op[r]
      BY <2>1, <2>2 DEF Pool!SameKey
  <2>3. CASE o1 # op[r] /\ o2 # op[r]
      BY <2>1, <2>3 DEF Pool!KeysUnique
  <2> QED BY <2>2, <2>3
<1>2. CASE pool' \subseteq pool
    BY <1>2 DEF Pool!KeysUnique
<1> QED BY <1>1, <1>2, OnlyRequestsAdd

\* The mempool of the running bundler never holds two operations with one
\* sender and nonce.
THEOREM BundlerKeysUnique == Spec => []Pool!KeysUnique
  BY InitUnique, NextUnique, PTL DEF Spec
-----------------------------------------------------------------------------
(***************************************************************************)
(* Without forced attempts (no timer, no debug_bundler_sendBundleNow) the  *)
(* execution mutex serialises everything, and the three properties that    *)
(* fail in general hold.  The invariant says why: as long as a bundle is   *)
(* built nothing is added to the pool, so an operation the builder has in  *)
(* hand is still the only one of its key, and no status gets worse.        *)
(***************************************************************************)

Current(t) == IF pc[t] \in {"revalidate", "balance"} THEN {build.cur} ELSE {}

Fresh(ops) == \A o \in ops, new \in pool : Pool!SameKey(o, new) => o = new

SerialInv ==
  \A t \in Tasks : pc[t] \in Building =>
    /\ Fresh(build.rest \cup build.bundle \cup Current(t))
    /\ \A o \in build.bundle \cup Current(t) : ~BannedIn(entries, o)

HandsOf(t) == build.rest \cup build.bundle \cup Current(t)
-----------------------------------------------------------------------------
\* A table without entries bans only the blacklisted.
LEMMA ClearedBansListed ==
  ASSUME NEW o \in Ops, Unlisted(o)
  PROVE  ~BannedIn(Rep!NoEntries, o)
  BY OpFields, ReputationAssumption
  DEF BannedIn, Unlisted, Rep!getStatus, Rep!AlwaysOk, Rep!StatusUnlessListed, Rep!Behind,
      Rep!NoEntries

\* With no forced attempt, whoever builds is a request, and no other request
\* has got past the execution mutex.
LEMMA NobodyElse ==
  ASSUME Ticks = {}, MutexInv, NEW t \in Tasks, pc[t] \in Building,
         NEW r \in Requests, pc[r] \in {"validate", "wait"} \cup Building
  PROVE  r = t
  BY DEF Tasks, MutexInv, MutexDiscipline, HoldsExec

\* The steps after which the builder has no more in hand than before.
LEMMA ShrinkingKeeps ==
  ASSUME MutexInv, SerialInv, NEW t \in Tasks, pc[t] \in Building,
         \A u \in Tasks : u # t => pc'[u] \notin Building,
         pc'[t] \in Building =>
           /\ HandsOf(t)' \subseteq HandsOf(t)
           /\ (build.bundle \cup Current(t))' \subseteq build.bundle \cup Current(t),
         pool' \subseteq pool, UNCHANGED entries
  PROVE  SerialInv'
  BY DEF SerialInv, Fresh, HandsOf

\* A step of the builder takes nobody else into a build.
LEMMA OthersStay ==
  ASSUME MutexInv, NEW t \in Tasks, pc[t] \in Building, NEW place, GoTo(t, place)
  PROVE  /\ \A u \in Tasks : u # t => pc'[u] \notin Building
         /\ pc'[t] = place
  BY LoneBuilder DEF GoTo, MutexInv, TasksType

\* After a bundle nobody builds.
LEMMA FinishKeepsSerial ==
  ASSUME MutexInv, NEW t \in Tasks, pc[t] \in Building, NEW how \in {"ok", "error"}, Finish(t, how)
  PROVE  SerialInv'
<1>1. PICK place \in {how, "idle"} : GoTo(t, place)
    BY DEF Finish
<1>2. \A u \in Tasks : pc'[u] \notin Building
    BY <1>1, OthersStay DEF Building
<1> QED BY <1>2 DEF SerialInv

\* Back at the head of the loop the builder has nothing new in hand.
LEMMA LoopKeepsSerial ==
  ASSUME MutexInv, SerialInv, NEW t \in Tasks, pc[t] \in {"revalidate", "balance"},
         GoTo(t, "scan"), UNCHANGED entries, pool' \subseteq pool,
         build'.rest \subseteq build.rest, build'.bundle \subseteq build.bundle \cup {build.cur}
  PROVE  SerialInv'
<1>1. pc[t] \in Building /\ Current(t) = {build.cur}
    BY DEF Building, Current
<1>2. \A u \in Tasks : u # t => pc'[u] \notin Building
    BY <1>1, OthersStay
<1>3. Current(t)' = {}
    BY <1>1, OthersStay DEF Current
<1> QED BY <1>1, <1>2, <1>3, ShrinkingKeeps DEF HandsOf

\* Taking the operation moves it from the current one into the bundle.
LEMMA TakeCurrentKeepsSerial ==
  ASSUME MutexInv, SerialInv, BuildInv, NEW t \in Tasks, pc[t] \in {"revalidate", "balance"},
         NEW d, TakeCurrent(t, d)
  PROVE  SerialInv'
<1>1. build \in BuildType
    BY DEF BuildInv, LocalsOK
<1>2. build'.rest = build.rest /\ build'.bundle \subseteq build.bundle \cup {build.cur}
    BY <1>1 DEF TakeCurrent, Continue, Taken, BuildType
<1>3. GoTo(t, "scan") /\ UNCHANGED <<entries, pool>>
    BY DEF TakeCurrent, Continue
<1> QED BY <1>2, <1>3, LoopKeepsSerial

\* Dropping it leaves less in hand and less in the pool.
LEMMA DropCurrentKeepsSerial ==
  ASSUME MutexInv, SerialInv, BuildInv, NEW t \in Tasks, pc[t] \in {"revalidate", "balance"},
         DropCurrent(t)
  PROVE  SerialInv'
<1>1. build'.rest = build.rest /\ build'.bundle = build.bundle
    BY DEF DropCurrent, Continue, BuildInv, LocalsOK, BuildType
<1>2. GoTo(t, "scan") /\ UNCHANGED entries /\ pool' \subseteq pool
    BY DEF DropCurrent, Continue, Pool!removed
<1> QED BY <1>1, <1>2, LoopKeepsSerial

\* The loop's synchronous part puts in hand only an operation it just found unbanned.
LEMMA ScanKeepsSerial ==
  ASSUME MutexInv, SerialInv, BuildInv, NEW t \in Tasks, Scan(t)
  PROVE  SerialInv'
<1>1. PICK o \in NextEntries : ScanBanned(o) \/ ScanSkipped(o) \/ ScanRevalidate(t, o)
    BY DEF Scan
<1>2. o \in build.rest /\ build \in BuildType /\ pc[t] = "scan" /\ pc[t] \in Building
      /\ Current(t) = {}
    BY <1>1 DEF NextEntries, BuildInv, LocalsOK, Scan, Building, Current
<1>3. CASE ScanBanned(o) \/ ScanSkipped(o)
  <2>1. UNCHANGED <<pc, entries>> /\ pool' \subseteq pool
        /\ build' = [build EXCEPT !.rest = @ \ {o}]
      BY <1>3 DEF ScanBanned, ScanSkipped, tasks, shared, Pool!removed
  <2>2. build'.rest \subseteq build.rest /\ build'.bundle = build.bundle /\ Current(t)' = {}
      BY <1>2, <2>1 DEF BuildType, Current
  <2>3. \A u \in Tasks : u # t => pc'[u] \notin Building
      BY <1>2, <2>1, LoneBuilder
  <2> QED BY <1>2, <2>1, <2>2, <2>3, ShrinkingKeeps DEF HandsOf
<1>4. CASE ScanRevalidate(t, o)
  <2>1. GoTo(t, "revalidate") /\ UNCHANGED <<pool, entries>> /\ ~BannedIn(entries, o)
        /\ build' = [build EXCEPT !.rest = @ \ {o}, !.cur = o]
      BY <1>4 DEF ScanRevalidate, shared, HasStatus, BannedIn
  <2>2. pc'[t] = "revalidate" /\ \A u \in Tasks : u # t => pc'[u] \notin Building
      BY <1>2, <2>1, OthersStay
  <2>3. build'.rest \subseteq build.rest /\ build'.bundle = build.bundle /\ Current(t)' = {o}
      BY <1>2, <2>1, <2>2 DEF BuildType, Current
  <2> QED BY <1>2, <2>1, <2>2, <2>3 DEF SerialInv, Fresh
<1> QED BY <1>1, <1>3, <1>4

\* Every step of a build keeps what it has in hand fresh and unbanned.
LEMMA BuildKeepsSerial ==
  ASSUME IInv, Pool!KeysUnique, SerialInv, NEW t \in Tasks, BuildStep(t)
  PROVE  SerialInv'
<1> MutexInv /\ SharedInv /\ BuildInv
    BY DEF IInv
<1> USE DEF AtAwait, Building
<1>1. ASSUME pc[t] \in {"scan", "revalidate", "beneficiary"},
             NEW place \in {"balance", "beneficiary", "send"},
             pc[t] = "revalidate" <=> place = "balance",
             GoTo(t, place), UNCHANGED <<pool, entries, build>>
      PROVE  SerialInv'
  <2>1. pc'[t] = place /\ \A u \in Tasks : u # t => pc'[u] \notin Building
      BY <1>1, OthersStay
  <2>2. Current(t)' = Current(t)
      BY <1>1, <2>1 DEF Current
  <2> QED BY <1>1, <2>1, <2>2, ShrinkingKeeps DEF HandsOf
<1>2. CASE StartBuild(t)
  <2>1. /\ HoldsBundle(t) /\ build' = [NoBuild EXCEPT !.rest = pool] /\ GoTo(t, "scan")
        /\ UNCHANGED pool
      BY <1>2 DEF StartBuild, HoldsBundle, shared
  <2>2. build'.rest = pool /\ build'.bundle = {}
      BY <2>1 DEF NoBuild
  <2>3. pc'[t] = "scan" /\ \A u \in Tasks : u # t => pc'[u] \notin Building
      BY <2>1 DEF GoTo, MutexInv, TasksType, MutexDiscipline, HoldsBundle
  <2>4. Current(t)' = {}
      BY <2>3 DEF Current
  <2> QED BY <2>1, <2>2, <2>3, <2>4 DEF SerialInv, Fresh, Pool!KeysUnique
<1>3. CASE Scan(t)
    BY <1>3, ScanKeepsSerial
<1>4. CASE ScanEnds(t)
    BY <1>1, <1>4, FinishKeepsSerial DEF ScanEnds, shared
<1>5. CASE RevalidationFails(t)
    BY <1>5, DropCurrentKeepsSerial DEF RevalidationFails
<1>6. CASE RevalidationPasses(t)
  <2>1. CASE Continue(t, [build EXCEPT !.rest = {}]) /\ UNCHANGED pool
    <3>1. build'.rest = {} /\ build'.bundle = build.bundle
        BY <2>1 DEF Continue, BuildInv, LocalsOK, BuildType
    <3> QED BY <1>6, <2>1, <3>1, LoopKeepsSerial DEF Continue, RevalidationPasses
  <2> QED BY <1>1, <1>6, <2>1, DropCurrentKeepsSerial, TakeCurrentKeepsSerial
          DEF RevalidationPasses, shared
<1>7. CASE BalanceReply(t)
    BY <1>7, TakeCurrentKeepsSerial, FinishKeepsSerial DEF BalanceReply
<1>8. CASE BeneficiaryReply(t)
    BY <1>1, <1>8, FinishKeepsSerial DEF BeneficiaryReply, shared
<1>9. CASE Sent(t) \/ SendFails(t)
    BY <1>9, FinishKeepsSerial DEF Sent, SendFails
<1>10. ASSUME NEW o \in build.bundle, FailedOp(t, o)
       PROVE  SerialInv'
    BY <1>10, FinishKeepsSerial DEF FailedOp
<1> QED BY <1>2, <1>3, <1>4, <1>5, <1>6, <1>7, <1>8, <1>9, <1>10 DEF BuildStep

\* Steps that leave pool, table and build alone and let nobody go on building.
LEMMA UntouchedKeeps ==
  ASSUME SerialInv, UNCHANGED <<pool, entries, build>>,
         \A u \in Tasks : pc'[u] \in Building => pc'[u] = pc[u]
  PROVE  SerialInv'
  BY DEF SerialInv, Fresh, Current

\* A request that adds an operation or updates a counter holds the execution mutex,
\* so nobody builds at that time.
LEMMA RequestKeepsSerial ==
  ASSUME Ticks = {}, IInv, SerialInv, NEW r \in Requests, RequestStep(r)
  PROVE  SerialInv'
<1> MutexInv /\ r \in Tasks
    BY DEF IInv, Tasks
<1>1. ASSUME NEW place \in {"validate", "wait", "ok", "error"}, GoTo(r, place)
      PROVE  \A u \in Tasks : pc'[u] \in Building => pc'[u] = pc[u]
    BY <1>1 DEF GoTo, MutexInv, TasksType, Building
<1>2. CASE BeginValidation(r) \/ ValidationFails(r) \/ AdditionFails(r)
    BY <1>1, <1>2, UntouchedKeeps
    DEF BeginValidation, ValidationFails, AdditionFails, Answer, shared
<1>3. CASE AddAndAttempt(r)
  <2>1. pc[r] = "validate" /\ \A u \in Tasks : pc[u] \notin Building
      BY <1>3, NobodyElse DEF AddAndAttempt, AtAwait, Building
  <2>2. \A u \in Tasks : pc'[u] \in Building => pc'[u] = pc[u]
      BY <1>1, <1>3 DEF AddAndAttempt, Answer
  <2> QED BY <2>1, <2>2 DEF SerialInv
<1> QED BY <1>2, <1>3 DEF RequestStep

\* debug_clearState may come in the middle of a build: an empty pool and an empty
\* table make nothing in hand stale or banned.
LEMMA ClearKeepsSerial ==
  ASSUME IInv, SerialInv, ClearState
  PROVE  SerialInv'
<1>1. pool' = {} /\ entries' = Rep!NoEntries /\ UNCHANGED <<pc, build>>
    BY DEF ClearState, tasks
<1>2. ASSUME NEW t \in Tasks, pc[t] \in Building, NEW o \in build.bundle \cup Current(t)
      PROVE  o \in Ops /\ Unlisted(o)
    BY <1>2 DEF IInv, BuildInv, LocalsOK, BuildType, CurrentOK, Current
<1>3. \A t \in Tasks : Current(t)' = Current(t)
    BY <1>1 DEF Current
<1> QED BY <1>1, <1>2, <1>3, ClearedBansListed DEF SerialInv, Fresh

\* Every step of the bundler, then.
LEMMA NextKeepsSerial ==
  ASSUME Ticks = {}, IInv, Pool!KeysUnique, SerialInv, [Next]_vars
  PROVE  SerialInv'
<1>1. ASSUME NEW r \in Requests, NEW o \in Ops, Submit(r, o)
      PROVE  SerialInv'
  <2>1. \A u \in Tasks : pc'[u] \in Building => pc'[u] = pc[u]
      BY <1>1 DEF Submit, GoTo, IInv, MutexInv, TasksType, Building
  <2> QED BY <1>1, <2>1, UntouchedKeeps DEF Submit, shared
<1>2. ASSUME NEW m \in Modes, SetAutoBundler(m)
      PROVE  SerialInv'
    BY <1>2, UntouchedKeeps DEF SetAutoBundler, tasks
<1>3. CASE UNCHANGED vars
    BY <1>3, UntouchedKeeps DEF vars
<1> QED BY <1>1, <1>2, <1>3, RequestKeepsSerial, BuildKeepsSerial, ClearKeepsSerial DEF Next

\* Without forced attempts the invariant holds along every behaviour.
LEMMA SerialInvariant ==
  ASSUME Ticks = {}
  PROVE  Spec => [](IInv /\ Pool!KeysUnique /\ SerialInv)
<1>1. Init => SerialInv
    BY DEF Init, SerialInv, Building, Tasks
<1>2. IInv /\ Pool!KeysUnique /\ SerialInv /\ [Next]_vars => SerialInv'
    BY NextKeepsSerial
<1> QED BY <1>1, <1>2, Invariant, BundlerKeysUnique, PTL DEF Spec
-----------------------------------------------------------------------------
(* The theorems *)

\* Without forced attempts, a replaced operation is never sent.
THEOREM SerialNoReplaced ==
  ASSUME Ticks = {}
  PROVE  Spec => []NoReplacedOpInBundle
<1>1. SerialInv => NoReplacedOpInBundle
    BY DEF SerialInv, Fresh, NoReplacedOpInBundle, At, Building
<1> QED BY <1>1, SerialInvariant, PTL

\* Without forced attempts, an operation about to be sent is of no entity that
\* is banned by then.
THEOREM SerialNoBanned ==
  ASSUME Ticks = {}
  PROVE  Spec => []NoBannedInBundle
<1>1. SerialInv => NoBannedInBundle
    BY DEF SerialInv, NoBannedInBundle, At, Building
<1> QED BY <1>1, SerialInvariant, PTL

\* An operation a build takes out of the pool is one it had in hand and judged.
LEMMA BuildJudges ==
  ASSUME IInv, SerialInv, NEW t \in Tasks, BuildStep(t), NEW o \in pool, o \notin pool'
  PROVE  Judged(o)
<1> SUFFICES ASSUME ~Judged(o)
             PROVE  FALSE
    OBVIOUS
<1> USE DEF AtAwait, At, Building
<1>1. \A u \in Tasks : pc[u] \in Building => Fresh(build.rest \cup build.bundle \cup Current(u))
    BY DEF SerialInv
<1>2. ASSUME pc[t] = "revalidate", DropCurrent(t)
      PROVE  FALSE
  <2>1. Pool!SameKey(o, build.cur)
      BY <1>2 DEF DropCurrent, Pool!removed, Pool!SameKeyIn
  <2>2. o = build.cur
      BY <1>1, <1>2, <2>1 DEF Fresh, Current, Pool!SameKey
  <2> QED BY <1>2, <2>2 DEF Judged
<1>3. CASE Scan(t)
  <2>1. PICK b \in NextEntries : ScanBanned(b)
      BY <1>3 DEF Scan, ScanSkipped, ScanRevalidate, shared
  <2>2. Pool!SameKey(o, b) /\ b \in build.rest /\ BannedIn(entries, b) /\ pc[t] = "scan"
      BY <1>3, <2>1 DEF Scan, ScanBanned, NextEntries, HasStatus, BannedIn, Pool!removed,
                        Pool!SameKeyIn
  <2>3. o = b
      BY <1>1, <2>2 DEF Fresh, Pool!SameKey
  <2> QED BY <2>2, <2>3 DEF Judged
<1>4. CASE RevalidationFails(t) \/ RevalidationPasses(t)
    BY <1>2, <1>4 DEF RevalidationFails, RevalidationPasses, TakeCurrent, shared
<1>5. CASE Sent(t)
  <2>1. PICK b \in build.bundle : Pool!SameKey(o, b)
      BY <1>5 DEF Sent, Pool!removedAll
  <2>2. o = b /\ pc[t] = "send"
      BY <1>1, <1>5, <2>1 DEF Sent, Fresh, Pool!SameKey
  <2> QED BY <2>2 DEF Judged
<1>6. ASSUME NEW b \in build.bundle, FailedOp(t, b)
      PROVE  FALSE
  <2>1. Pool!SameKey(o, b) /\ pc[t] = "send"
      BY <1>6 DEF FailedOp, Pool!removed, Pool!SameKeyIn
  <2>2. o = b
      BY <1>1, <2>1 DEF Fresh, Pool!SameKey
  <2> QED BY <2>1, <2>2 DEF Judged
<1>7. CASE StartBuild(t) \/ ScanEnds(t) \/ BalanceReply(t) \/ BeneficiaryReply(t) \/ SendFails(t)
    BY <1>7 DEF StartBuild, ScanEnds, BalanceReply, BeneficiaryReply, SendFails, TakeCurrent, shared
<1> QED BY <1>3, <1>4, <1>5, <1>6, <1>7 DEF BuildStep

\* Without forced attempts, only the operation that was judged leaves the pool.
THEOREM SerialRemovals ==
  ASSUME Ticks = {}
  PROVE  Spec => RemovalsAreJudged
<1>1. ASSUME IInv, SerialInv, [Next]_vars, NEW o \in pool, o \notin pool'
      PROVE  Judged(o)
  <2>1. ASSUME NEW r \in Requests, RequestStep(r)
        PROVE  Judged(o)
    <3>1. Pool!SameKey(op[r], o) /\ op[r] \in pool'
        BY <1>1, <2>1 DEF RequestStep, BeginValidation, ValidationFails, AdditionFails,
           AddAndAttempt, shared, Pool!added, Pool!SameKeyIn, Pool!SameKey
    <3> QED BY <3>1 DEF Judged
  <2>2. CASE ClearState
      BY <2>2 DEF Judged
  <2>3. ASSUME NEW r \in Requests, NEW new \in Ops, Submit(r, new)
        PROVE  FALSE
      BY <1>1, <2>3 DEF Submit, shared
  <2>4. ASSUME NEW m \in Modes, SetAutoBundler(m)
        PROVE  FALSE
      BY <1>1, <2>4 DEF SetAutoBundler
  <2>5. CASE UNCHANGED vars
      BY <1>1, <2>5 DEF vars
  <2> QED BY <1>1, <2>1, <2>2, <2>3, <2>4, <2>5, BuildJudges DEF Next
<1>2. IInv /\ SerialInv /\ [Next]_vars => [\A o \in pool \ pool' : Judged(o)]_vars
    BY <1>1
<1> QED BY <1>2, SerialInvariant, PTL DEF Spec, RemovalsAreJudged
=============================================================================
