------------------------- MODULE EventsManager_proofs -------------------------
(***************************************************************************)
(* What the reputation table and the listener keep, and what the server    *)
(* answers from the same log, for any operations, bundles of any size and  *)
(* all parameters of the table.                                            *)
(***************************************************************************)
EXTENDS UserOpMethodHandler, FiniteSetTheorems, WellFoundedInduction, TLAPS

\* Decaying a counter keeps it a counter, and takes at most a 24th, rounded up.
LEMMA DecayBounds ==
  ASSUME NEW n \in Nat
  PROVE  /\ Decay(n) \in Nat
         /\ Decay(n) <= n
         /\ 24 * Decay(n) >= 23 * n - 23
  BY DEF Decay

\* An entry found or created has both counters.
LEMMA GetOrCreateType ==
  ASSUME NEW es \in EntriesType, NEW addr \in Addrs
  PROVE  getOrCreate(es, addr) \in ReputationEntry
  BY DEF EntriesType, getOrCreate, ReputationEntry

\* The cron leaves an entry with both counters, or removes it.
LEMMA CronEntryType ==
  ASSUME NEW e \in ReputationEntry
  PROVE  cronEntry(e) \in ReputationEntry \cup {NoEntry}
<1>1. e.opsSeen \in Nat
    BY DEF ReputationEntry
<1>2. Decay(e.opsSeen) \in Nat /\ Decay(Decay(e.opsSeen)) \in Nat
    BY <1>1, DecayBounds
<1> QED BY <1>2 DEF cronEntry, ReputationEntry

\* Seeing an operation, blaming an entity for a crash and the cron keep every
\* counter of the table a natural number.
LEMMA TableKept ==
  ASSUME NEW es \in EntriesType, NEW addr
  PROVE  /\ updateSeenStatus(es, addr) \in EntriesType
         /\ crashedHandleOps(es, addr) \in EntriesType
         /\ hourlyCron(es) \in EntriesType
<1>1. updateSeenStatus(es, addr) \in EntriesType
  <2>1. CASE addr \notin Addrs
    BY <2>1 DEF updateSeenStatus, EntriesType
  <2>2. CASE addr \in Addrs
    <3>1. [getOrCreate(es, addr) EXCEPT !.opsSeen = @ + 1] \in ReputationEntry
      BY <2>2, GetOrCreateType DEF ReputationEntry
    <3> QED BY <2>2, <3>1 DEF updateSeenStatus, EntriesType
  <2> QED BY <2>1, <2>2
<1>2. crashedHandleOps(es, addr) \in EntriesType
  <2>1. CASE addr \notin Addrs
    BY <2>1 DEF crashedHandleOps, EntriesType
  <2>2. CASE addr \in Addrs
    <3>1. [opsSeen |-> CrashSeen, opsIncluded |-> 0] \in ReputationEntry
      BY ParamsAssumption DEF ReputationEntry
    <3> QED BY <2>2, <3>1 DEF crashedHandleOps, EntriesType
  <2> QED BY <2>1, <2>2
<1>3. hourlyCron(es) \in EntriesType
  BY CronEntryType DEF hourlyCron, EntriesType
<1> QED BY <1>1, <1>2, <1>3
-----------------------------------------------------------------------------
(***************************************************************************)
(* The listener of EventsManager.ts, and the answers of the RPC server     *)
(* from the same log.  No event of the chain has one of the names that     *)
(* handleEvent asks for, so handling one leaves the table as it is.        *)
(***************************************************************************)

\* The events of the chain.
Names == {"AccountDeployed", "Transfer", "UserOperationEvent"}
Events == {Event(name, tx, o) : name \in Names, tx \in Nat, o \in Ops}

\* The sender and the nonce tell the operations of a bundle apart.
ToldApart(b, n) ==
  \A j, k \in 1..n : b[j].sender = b[k].sender /\ b[j].nonce = b[k].nonce => j = k

\* The events of a bundle: v of its validation, then two of each operation.
Shaped(evs, tx, b, n, v) ==
  /\ evs \in Seq(Events) /\ Len(evs) = v + 2 * n
  /\ \A i \in 1..v : evs[i].event = "AccountDeployed" /\ \E k \in 1..n : evs[i].op = b[k]
  /\ \A k \in 1..n : /\ evs[v + 2 * k - 1] = Event("Transfer", tx, b[k])
                     /\ evs[v + 2 * k] = Event("UserOperationEvent", tx, b[k])

BundleOK(evs, tx, b, n, v) ==
  n \in Nat \ {0} /\ v \in Nat /\ b \in [1..n -> Ops] /\ ToldApart(b, n) /\ Shaped(evs, tx, b, n, v)

\* Every transaction is a bundle, and no operation is in two of them.
LogInv ==
  /\ log \in Seq(Seq(Events))
  /\ \A tx \in DOMAIN log : \E b, n, v : BundleOK(log[tx], tx, b, n, v)
  /\ \A tx, other \in DOMAIN log : tx # other => OpsOf(log[tx]) \cap OpsOf(log[other]) = {}
  /\ IsFiniteSet(MinedOps)

EventInv == EventsTypeOK /\ LogInv

\* Any subsets of a finite set have a minimal one among them.
LEMMA MinimalSubset ==
  ASSUME NEW S, IsFiniteSet(S), NEW B, B \subseteq SUBSET S, B # {}
  PROVE  \E T \in B : \A U \in B : ~ (U \subseteq T /\ U # T)
<1>1. IsWellFoundedOn(StrictSubsetOrdering(S), FiniteSubsetsOf(S))
  BY FS_StrictSubsetOrderingWellFounded
<1>2. B \subseteq FiniteSubsetsOf(S)
  BY FS_FiniteSubsetsOfFinite
<1>3. \E T \in B : \A U \in B : ~ (<<U, T>> \in StrictSubsetOrdering(S))
  BY <1>1, <1>2, WFMin
<1> QED BY <1>3 DEF StrictSubsetOrdering

\* The numbers up to a bound, by induction.
LEMMA UpToBound ==
  ASSUME NEW n \in Nat, NEW A, 0 \in A, \A k \in 0..n : k \in A /\ k < n => k + 1 \in A
  PROVE  n \in A
<1> SUFFICES ASSUME n \notin A PROVE FALSE
  OBVIOUS
<1> DEFINE I == 0..n
           B == {0..m : m \in {k \in 0..n : k \notin A}}
<1>1. B # {} /\ B \subseteq SUBSET I
  OBVIOUS
<1>2. PICK T \in B : \A U \in B : ~ (U \subseteq T /\ U # T)
  <2>1. IsFiniteSet(I)
    BY FS_Interval
  <2> HIDE DEF B, I
  <2> QED BY <1>1, <2>1, MinimalSubset
<1>3. PICK m \in 0..n : T = 0..m /\ m \notin A
  OBVIOUS
<1>4. m - 1 \in 0..n /\ m - 1 \notin A
  BY <1>3
<1>5. 0..(m-1) \in B
  BY <1>4
<1>6. 0..(m-1) \subseteq T /\ 0..(m-1) # T
  BY <1>3, <1>4
<1> QED BY <1>2, <1>5, <1>6

\* A set of places has a least one.
LEMMA LeastIndex ==
  ASSUME NEW n \in Nat, NEW I, I \subseteq 1..n, I # {}
  PROVE  Min(I) \in I /\ \A k \in I : Min(I) <= k
<1> DEFINE All == 1..n
           B == {1..m : m \in I}
<1>1. B \subseteq SUBSET All /\ B # {}
  <2>1. \A m \in I : 1..m \subseteq 1..n
    OBVIOUS
  <2>2. \E m \in I : 1..m \in B
    OBVIOUS
  <2> QED BY <2>1, <2>2
<1>2. PICK T \in B : \A U \in B : ~ (U \subseteq T /\ U # T)
  <2>1. IsFiniteSet(All)
    BY FS_Interval
  <2> HIDE DEF B, All
  <2> QED BY <1>1, <2>1, MinimalSubset
<1>3. PICK m \in I : T = 1..m
  OBVIOUS
<1>4. ASSUME NEW k \in I, ~ (m <= k) PROVE FALSE
  <2>1. 1..k \in B /\ 1..k \subseteq T /\ m \in T /\ m \notin 1..k
    BY <1>3, <1>4
  <2> QED BY <1>2, <2>1
<1>5. \A k \in I : m <= k
  BY <1>4
<1> QED BY <1>5 DEF Min

\* Handling an event of the chain changes nothing.
LEMMA HandlesNothing ==
  ASSUME NEW ev \in Events, Handle(ev)
  PROVE  entries' = entries /\ cache' = cache
<1>1. ev.event \in Names
  BY DEF Events, Event
<1>2. ev.event # "UserOperationEventEvent" /\ ev.event # "AccountDeployedEvent"
      /\ ev.event # "SignatureAggregatorForUserOperationsEvent"
  BY <1>1 DEF Names
<1>3. handleEvent([entries |-> entries, cache |-> cache], ev) = [entries |-> entries, cache |-> cache]
  BY <1>2 DEF handleEvent
<1> QED BY <1>3 DEF Handle

\* n sequences over S.
Parts(n, S) == [1..n -> Seq(S)]

\* f[k] is the first k parts, one after the other.
Joins(f, parts, n, S) ==
  /\ f \in [1..n -> Seq(S)]
  /\ f[1] = parts[1]
  /\ \A k \in 1..(n - 1) : f[k + 1] = f[k] \o parts[k + 1]

\* One sequence after another.
LEMMA Concats ==
  ASSUME NEW S, NEW s \in Seq(S), NEW t \in Seq(S)
  PROVE  /\ s \o t \in Seq(S)
         /\ Len(s \o t) = Len(s) + Len(t)
         /\ \A j \in 1..(Len(s) + Len(t)) : (s \o t)[j] = IF j <= Len(s) THEN s[j] ELSE t[j - Len(s)]
<1>1. s \o t \in Seq(S)
  OBVIOUS
<1>2. Len(s \o t) = Len(s) + Len(t)
  OBVIOUS
<1> QED BY <1>1, <1>2

\* A sequence of sequences is flattened one part after the other.
LEMMA FlattenSteps ==
  ASSUME NEW S, NEW n \in Nat, n # 0, NEW parts \in Parts(n, S)
  PROVE  \E f : Joins(f, parts, n, S) /\ FlattenSeq(parts) = f[n]
<1> USE DEF Parts
<1> DEFINE next(f, i) == IF i = 1 THEN parts[i] ELSE f[i-1] \o parts[i]
           Loop(f) == [i \in 1..Len(parts) |-> next(f, i)]
           flat == CHOOSE f : f = Loop(f)
<1>1. parts \in Seq(Seq(S)) /\ Len(parts) = n
  OBVIOUS
<1>2. FlattenSeq(parts) = flat[n]
  BY <1>1 DEF FlattenSeq
<1> DEFINE A == {k \in Nat : \E f \in [1..k -> Seq(S)] : \A i \in 1..k : f[i] = next(f, i)}
<1>3. 0 \in A
  <2> DEFINE none == [i \in 1..0 |-> <<>>]
  <2>1. none \in [1..0 -> Seq(S)]
    OBVIOUS
  <2>2. \A i \in 1..0 : none[i] = next(none, i)
    OBVIOUS
  <2> HIDE DEF none, next
  <2> QED BY <2>1, <2>2
<1>4. ASSUME NEW k \in 0..n, k \in A, k < n PROVE k + 1 \in A
  <2>1. PICK f \in [1..k -> Seq(S)] : \A i \in 1..k : f[i] = next(f, i)
    BY <1>4
  <2> DEFINE f2 == [i \in 1..(k+1) |-> IF i <= k THEN f[i] ELSE next(f, i)]
  <2>2. next(f, k + 1) \in Seq(S)
    <3>1. parts[k + 1] \in Seq(S)
      BY <1>4
    <3>2. CASE k = 0
      BY <3>1, <3>2
    <3>3. CASE k # 0
      <4>1. f[k] \in Seq(S) /\ (k + 1) - 1 = k /\ k + 1 # 1
        BY <3>3
      <4>2. f[k] \o parts[k + 1] \in Seq(S)
        BY <3>1, <4>1
      <4> QED BY <4>1, <4>2
    <3> QED BY <3>2, <3>3
  <2>3. f2 \in [1..(k+1) -> Seq(S)]
    <3>1. ASSUME NEW i \in 1..(k+1) PROVE f2[i] \in Seq(S)
      <4>1. i \in 1..k \/ i = k + 1
        OBVIOUS
      <4> HIDE DEF next
      <4> QED BY <2>2, <4>1
    <3> QED BY <3>1
  <2>4. ASSUME NEW i \in 1..(k+1) PROVE f2[i] = next(f2, i)
    <3>1. i = 1 \/ (i - 1 \in 1..k /\ f2[i - 1] = f[i - 1])
      OBVIOUS
    <3>2. next(f2, i) = next(f, i)
      BY <3>1
    <3>3. CASE i \in 1..k
      <4>1. f2[i] = f[i] /\ f[i] = next(f, i)
        BY <2>1, <3>3
      <4> QED BY <3>2, <4>1
    <3>4. CASE i = k + 1
      <4>1. f2[i] = next(f, i)
        BY <3>4
      <4> QED BY <3>2, <4>1
    <3> QED BY <3>3, <3>4
  <2>5. k + 1 \in Nat
    OBVIOUS
  <2> HIDE DEF f2, next
  <2> QED BY <2>3, <2>4, <2>5
<1>5. n \in A
  <2> HIDE DEF A
  <2> QED BY <1>3, <1>4, UpToBound
<1>6. PICK f \in [1..n -> Seq(S)] : \A i \in 1..n : f[i] = next(f, i)
  BY <1>5
<1>7. f = Loop(f)
  BY <1>1, <1>6
<1>8. flat = Loop(flat)
  BY <1>7
<1> HIDE DEF flat
<1>9. DOMAIN flat = 1..n /\ \A i \in 1..n : flat[i] = next(flat, i)
  BY <1>1, <1>8
<1>10. flat[1] = parts[1]
  BY <1>9
<1>11. ASSUME NEW k \in 1..(n - 1) PROVE flat[k + 1] = flat[k] \o parts[k + 1]
  <2>1. k + 1 \in 1..n /\ k + 1 # 1 /\ (k + 1) - 1 = k
    OBVIOUS
  <2> QED BY <1>9, <2>1
<1> DEFINE C == {k \in Nat : k # 0 => flat[k] \in Seq(S)}
<1>12. 0 \in C
  OBVIOUS
<1>13. ASSUME NEW k \in 0..n, k \in C, k < n PROVE k + 1 \in C
  <2>1. parts[k + 1] \in Seq(S) /\ k + 1 \in Nat
    BY <1>13
  <2>2. CASE k = 0
    <3>1. flat[k + 1] \in Seq(S)
      BY <1>10, <2>1, <2>2
    <3> QED BY <2>1, <3>1
  <2>3. CASE k # 0
    <3>1. flat[k] \in Seq(S) /\ k \in 1..(n - 1)
      BY <1>13, <2>3
    <3>2. flat[k] \o parts[k + 1] \in Seq(S)
      BY <2>1, <3>1
    <3>3. flat[k + 1] \in Seq(S)
      BY <1>11, <3>1, <3>2
    <3> QED BY <2>1, <3>3
  <2> QED BY <2>2, <2>3
<1>14. ASSUME NEW k \in 1..n PROVE flat[k] \in Seq(S)
  <2> DEFINE D == {j \in Nat : j <= k => j \in C}
  <2>1. 0 \in D /\ \A j \in 0..k : j \in D /\ j < k => j + 1 \in D
    <3> HIDE DEF C
    <3> QED BY <1>12, <1>13
  <2>2. k \in D
    <3> HIDE DEF D
    <3> QED BY <2>1, UpToBound
  <2> QED BY <2>2
<1>15. flat \in [1..n -> Seq(S)]
  <2>1. flat = [i \in 1..n |-> flat[i]]
    BY <1>1, <1>8
  <2> QED BY <1>14, <2>1
<1>16. Joins(flat, parts, n, S)
  BY <1>10, <1>11, <1>15 DEF Joins
<1> QED BY <1>2, <1>16

\* Nothing, flattened, is nothing.
LEMMA FlattenNone == FlattenSeq(<<>>) = <<>>
  BY DEF FlattenSeq

\* Sequences of a kind, one after the other, are a sequence of that kind.
LEMMA Flattens ==
  ASSUME NEW S, NEW n \in Nat, NEW parts \in Parts(n, S)
  PROVE  FlattenSeq(parts) \in Seq(S)
<1>1. CASE n = 0
  <2>1. parts = <<>>
    BY <1>1 DEF Parts
  <2>2. FlattenSeq(parts) = <<>>
    BY <2>1, FlattenNone
  <2> QED BY <2>2
<1>2. CASE n # 0
  <2>1. PICK f : Joins(f, parts, n, S) /\ FlattenSeq(parts) = f[n]
    BY <1>2, FlattenSteps
  <2>2. f \in [1..n -> Seq(S)]
    BY <2>1 DEF Joins
  <2> QED BY <1>2, <2>1, <2>2
<1> QED BY <1>1, <1>2

\* A longer log does not flatten to fewer events.
LEMMA FlattensLonger ==
  ASSUME NEW S, NEW s \in Seq(Seq(S)), NEW x \in Seq(S)
  PROVE  /\ FlattenSeq(s) \in Seq(S) /\ FlattenSeq(Append(s, x)) \in Seq(S)
         /\ Len(FlattenSeq(Append(s, x))) >= Len(FlattenSeq(s))
<1> DEFINE n == Len(s)
           t == Append(s, x)
<1>1. n \in Nat /\ s \in Parts(n, S) /\ t \in Parts(n + 1, S)
  <2>1. n \in Nat /\ s \in [1..n -> Seq(S)]
    OBVIOUS
  <2>2. t \in Seq(Seq(S)) /\ Len(t) = n + 1
    OBVIOUS
  <2>3. t \in [1..(n + 1) -> Seq(S)]
    <3> HIDE DEF n, t
    <3>1. t \in [1..Len(t) -> Seq(S)]
      BY <2>2
    <3> QED BY <2>2, <3>1
  <2> QED BY <2>1, <2>3 DEF Parts
<1>2. t[n + 1] = x /\ \A k \in 1..n : t[k] = s[k]
  <2>1. t[Len(s) + 1] = x
    OBVIOUS
  <2>2. \A k \in 1..Len(s) : t[k] = s[k]
    OBVIOUS
  <2> QED BY <2>1, <2>2
<1> HIDE DEF n, t
<1>3. FlattenSeq(s) \in Seq(S) /\ FlattenSeq(t) \in Seq(S)
  BY <1>1, Flattens
<1>4. Len(FlattenSeq(t)) >= Len(FlattenSeq(s))
  <2>1. CASE n = 0
    <3>1. s = <<>>
      BY <2>1 DEF n
    <3>2. Len(FlattenSeq(s)) = 0
      BY <3>1, FlattenNone
    <3> QED BY <1>3, <3>2
  <2>2. CASE n # 0
    <3>0. n + 1 \in Nat /\ n + 1 # 0
      BY <1>1
    <3> PICK f : Joins(f, s, n, S) /\ FlattenSeq(s) = f[n]
      BY <1>1, <2>2, FlattenSteps
    <3> PICK g : Joins(g, t, n + 1, S) /\ FlattenSeq(t) = g[n + 1]
      BY <1>1, <3>0, FlattenSteps
    <3>1. /\ f \in [1..n -> Seq(S)]
          /\ f[1] = s[1]
          /\ \A k \in 1..(n - 1) : f[k + 1] = f[k] \o s[k + 1]
      BY DEF Joins
    <3>2. /\ g \in [1..(n + 1) -> Seq(S)]
          /\ g[1] = t[1]
          /\ \A k \in 1..((n + 1) - 1) : g[k + 1] = g[k] \o t[k + 1]
      BY DEF Joins
    <3> DEFINE A == {k \in Nat : k # 0 => f[k] = g[k]}
    <3>3. 0 \in A
      OBVIOUS
    <3>4. ASSUME NEW k \in 0..n, k \in A, k < n PROVE k + 1 \in A
      <4>1. CASE k = 0
        <5>1. f[k + 1] = g[k + 1]
          BY <1>1, <1>2, <2>2, <3>1, <3>2, <4>1
        <5> QED BY <5>1
      <4>2. CASE k # 0
        <5>1. k \in 1..(n - 1) /\ k \in 1..((n + 1) - 1) /\ k + 1 \in 1..n
          BY <1>1, <3>4, <4>2
        <5>2. f[k + 1] = f[k] \o s[k + 1] /\ g[k + 1] = g[k] \o t[k + 1]
          BY <3>1, <3>2, <5>1
        <5>3. f[k] = g[k] /\ s[k + 1] = t[k + 1]
          BY <1>2, <3>4, <4>2, <5>1
        <5>4. f[k + 1] = g[k + 1] /\ k + 1 \in Nat
          BY <5>2, <5>3
        <5> QED BY <5>4
      <4> QED BY <4>1, <4>2
    <3>5. n \in A
      <4> HIDE DEF A
      <4> QED BY <1>1, <3>3, <3>4, UpToBound
    <3>6. g[n] = f[n] /\ f[n] \in Seq(S)
      BY <1>1, <2>2, <3>1, <3>5
    <3>7. g[n + 1] = f[n] \o x
      <4>1. n \in 1..((n + 1) - 1)
        BY <1>1, <2>2
      <4>2. g[n + 1] = g[n] \o t[n + 1]
        BY <3>2, <4>1
      <4> QED BY <1>2, <3>6, <4>2
    <3>8. Len(f[n] \o x) = Len(f[n]) + Len(x) /\ Len(f[n]) \in Nat /\ Len(x) \in Nat
      BY <3>6
    <3> QED BY <3>7, <3>8
  <2> QED BY <2>1, <2>2
<1> QED BY <1>3, <1>4 DEF t

\* Flattened pairs lie two by two.
LEMMA FlattensPairs ==
  ASSUME NEW S, NEW n \in Nat, n # 0, NEW parts \in Parts(n, S),
         \A k \in 1..n : Len(parts[k]) = 2
  PROVE  /\ Len(FlattenSeq(parts)) = 2 * n
         /\ \A k \in 1..n : /\ FlattenSeq(parts)[2 * k - 1] = parts[k][1]
                            /\ FlattenSeq(parts)[2 * k] = parts[k][2]
<1> PICK f : Joins(f, parts, n, S) /\ FlattenSeq(parts) = f[n]
  BY FlattenSteps
<1>1. /\ f \in [1..n -> Seq(S)] /\ parts \in [1..n -> Seq(S)]
      /\ f[1] = parts[1]
      /\ \A k \in 1..(n - 1) : f[k + 1] = f[k] \o parts[k + 1]
  BY DEF Joins, Parts
<1> DEFINE Paired(k) == /\ Len(f[k]) = 2 * k
                        /\ \A j \in 1..k : f[k][2 * j - 1] = parts[j][1] /\ f[k][2 * j] = parts[j][2]
           A == {k \in Nat : k # 0 => Paired(k)}
<1>2. 0 \in A
  OBVIOUS
<1>3. ASSUME NEW k \in 0..n, k \in A, k < n PROVE k + 1 \in A
  <2>1. CASE k = 0
    <3>1. f[1] = parts[1] /\ Len(parts[1]) = 2
      BY <1>1
    <3>2. Paired(1)
      BY <3>1
    <3> QED BY <2>1, <3>2
  <2>2. CASE k # 0
    <3>1. k \in 1..(n - 1) /\ k \in 1..n /\ k + 1 \in 1..n
      BY <1>3, <2>2
    <3> DEFINE s == f[k]
               t == parts[k + 1]
    <3>2. s \in Seq(S) /\ t \in Seq(S) /\ Len(t) = 2 /\ f[k + 1] = s \o t
      BY <1>1, <3>1
    <3>3. Len(s) = 2 * k /\ \A j \in 1..k : s[2 * j - 1] = parts[j][1] /\ s[2 * j] = parts[j][2]
      BY <1>3, <2>2
    <3> HIDE DEF s
    <3>4. Len(s \o t) = 2 * (k + 1)
      <4>1. Len(s \o t) = Len(s) + Len(t)
        BY <3>2, Concats
      <4> QED BY <3>2, <3>3, <4>1
    <3>5. \A i \in 1..(Len(s) + Len(t)) : (s \o t)[i] = IF i <= Len(s) THEN s[i] ELSE t[i - Len(s)]
      BY <3>2, Concats
    <3>6. ASSUME NEW j \in 1..(k + 1)
          PROVE  (s \o t)[2 * j - 1] = parts[j][1] /\ (s \o t)[2 * j] = parts[j][2]
      <4>1. CASE j \in 1..k
        <5>1. /\ 2 * j - 1 \in 1..(Len(s) + Len(t)) /\ 2 * j - 1 <= Len(s)
              /\ 2 * j \in 1..(Len(s) + Len(t)) /\ 2 * j <= Len(s)
          BY <3>2, <3>3, <4>1
        <5> QED BY <3>3, <3>5, <4>1, <5>1
      <4>2. CASE j = k + 1
        <5> DEFINE m == 2 * k
        <5>0. m \in Nat /\ Len(s) = m /\ Len(t) = 2 /\ 2 * j = m + 2
          BY <3>2, <3>3, <4>2
        <5> HIDE DEF m, t
        <5>1. /\ 2 * j - 1 \in 1..(Len(s) + Len(t)) /\ ~ (2 * j - 1 <= Len(s))
              /\ 2 * j \in 1..(Len(s) + Len(t)) /\ ~ (2 * j <= Len(s))
              /\ (2 * j - 1) - Len(s) = 1 /\ 2 * j - Len(s) = 2
          BY <5>0
        <5> QED BY <3>5, <4>2, <5>1 DEF t
      <4>3. j \in 1..k \/ j = k + 1
        OBVIOUS
      <4> QED BY <4>1, <4>2, <4>3
    <3>7. Paired(k + 1)
      BY <3>2, <3>4, <3>6
    <3> HIDE DEF Paired
    <3> QED BY <3>7
  <2> QED BY <2>1, <2>2
<1>4. n \in A
  <2> HIDE DEF A
  <2> QED BY <1>2, <1>3, UpToBound
<1> QED BY <1>1, <1>4

\* What a bundle leaves in the log: the events of its validation, then two of
\* each operation in turn.
LEMMA BundleShape ==
  ASSUME NEW tx \in Nat, NEW n \in Nat, n # 0, NEW b \in [1..n -> Ops]
  PROVE  \E v \in Nat : Shaped(BundleEvents(tx, b), tx, b, n, v)
<1> DEFINE validated == [i \in DOMAIN b |-> Validated(tx, b[i])]
           executed == [i \in DOMAIN b |-> Executed(tx, b[i])]
           D == {Event("AccountDeployed", tx, b[k]) : k \in 1..n}
           first == FlattenSeq(validated)
           second == FlattenSeq(executed)
           v == Len(first)
<1>1. DOMAIN b = 1..n /\ \A k \in 1..n : b[k] \in Ops
  OBVIOUS
<1>2. ASSUME NEW k \in 1..n
      PROVE  /\ Event("AccountDeployed", tx, b[k]) \in Events
             /\ Event("Transfer", tx, b[k]) \in Events
             /\ Event("UserOperationEvent", tx, b[k]) \in Events
  BY <1>1 DEF Events, Names
<1>3. validated \in Parts(n, D)
  <2>1. ASSUME NEW k \in 1..n PROVE Validated(tx, b[k]) \in Seq(D)
    <3>1. Event("AccountDeployed", tx, b[k]) \in D
      OBVIOUS
    <3> HIDE DEF D
    <3> QED BY <3>1 DEF Validated
  <2> HIDE DEF D
  <2> QED BY <1>1, <2>1 DEF Parts
<1>4. D \subseteq Events
  BY <1>2
<1>5. executed \in Parts(n, Events)
  <2>1. ASSUME NEW k \in 1..n PROVE Executed(tx, b[k]) \in Seq(Events)
    BY <1>2 DEF Executed
  <2> QED BY <1>1, <2>1 DEF Parts
<1>6. \A k \in 1..n : executed[k] = <<Event("Transfer", tx, b[k]), Event("UserOperationEvent", tx, b[k])>>
  BY <1>1 DEF Executed
<1>7. BundleEvents(tx, b) = first \o second
  BY DEF BundleEvents
<1> HIDE DEF validated, executed
<1>8. first \in Seq(D)
  <2> HIDE DEF D
  <2> QED BY <1>3, Flattens
<1>9. second \in Seq(Events)
  BY <1>5, Flattens
<1>10. /\ Len(second) = 2 * n
       /\ \A k \in 1..n : /\ second[2 * k - 1] = executed[k][1]
                          /\ second[2 * k] = executed[k][2]
  <2>1. \A k \in 1..n : Len(executed[k]) = 2
    <3> TAKE k \in 1..n
    <3>1. PICK x, y : executed[k] = <<x, y>>
      BY <1>6
    <3>2. Len(<<x, y>>) = 2
      OBVIOUS
    <3> QED BY <3>1, <3>2
  <2> QED BY <1>5, <2>1, FlattensPairs
<1> HIDE DEF first, second
<1>11. first \in Seq(Events) /\ v \in Nat /\ \A i \in 1..v : first[i] \in D
  <2>1. v \in Nat /\ \A i \in 1..v : first[i] \in D
    <3> HIDE DEF D
    <3> QED BY <1>8
  <2>2. first \in Seq(Events)
    <3> HIDE DEF D
    <3> QED BY <1>4, <1>8
  <2> QED BY <2>1, <2>2
<1> DEFINE evs == first \o second
<1>12. /\ evs \in Seq(Events)
       /\ Len(evs) = v + 2 * n
       /\ \A j \in 1..(v + 2 * n) : evs[j] = IF j <= v THEN first[j] ELSE second[j - v]
  <2>1. /\ first \o second \in Seq(Events)
        /\ Len(first \o second) = Len(first) + Len(second)
        /\ \A j \in 1..(Len(first) + Len(second)) :
             (first \o second)[j] = IF j <= Len(first) THEN first[j] ELSE second[j - Len(first)]
    BY <1>9, <1>11, Concats
  <2> QED BY <1>10, <2>1
<1> HIDE DEF evs, v
<1>13. ASSUME NEW i \in 1..v
       PROVE  evs[i].event = "AccountDeployed" /\ \E k \in 1..n : evs[i].op = b[k]
  <2>1. i \in 1..(v + 2 * n) /\ i <= v
    BY <1>11
  <2>2. evs[i] \in D
    <3> HIDE DEF D
    <3> QED BY <1>11, <1>12, <2>1
  <2> QED BY <2>2 DEF Event
<1>14. ASSUME NEW k \in 1..n
       PROVE  /\ evs[v + 2 * k - 1] = Event("Transfer", tx, b[k])
              /\ evs[v + 2 * k] = Event("UserOperationEvent", tx, b[k])
  <2>1. /\ v + 2 * k - 1 \in 1..(v + 2 * n) /\ ~ (v + 2 * k - 1 <= v) /\ (v + 2 * k - 1) - v = 2 * k - 1
        /\ v + 2 * k \in 1..(v + 2 * n) /\ ~ (v + 2 * k <= v) /\ (v + 2 * k) - v = 2 * k
    BY <1>11
  <2>2. evs[v + 2 * k - 1] = second[2 * k - 1] /\ evs[v + 2 * k] = second[2 * k]
    BY <1>12, <2>1
  <2>3. second[2 * k - 1] = executed[k][1] /\ second[2 * k] = executed[k][2]
    BY <1>10
  <2>4. /\ executed[k][1] = Event("Transfer", tx, b[k])
        /\ executed[k][2] = Event("UserOperationEvent", tx, b[k])
    BY <1>6
  <2> QED BY <2>2, <2>3, <2>4
<1>15. Shaped(evs, tx, b, n, v)
  BY <1>12, <1>13, <1>14 DEF Shaped
<1> QED BY <1>7, <1>11, <1>15 DEF evs

\* The elements of a sequence are finitely many.
LEMMA FiniteImage ==
  ASSUME NEW n \in Nat, NEW f
  PROVE  IsFiniteSet({f[k] : k \in 1..n})
<1> DEFINE im(m) == {f[k] : k \in 1..m}
           A == {m \in Nat : IsFiniteSet(im(m))}
<1>1. 0 \in A
  <2>1. im(0) = {}
    OBVIOUS
  <2> HIDE DEF im
  <2> QED BY <2>1, FS_EmptySet
<1>2. ASSUME NEW m \in 0..n, m \in A, m < n PROVE m + 1 \in A
  <2>1. im(m + 1) = im(m) \cup {f[m + 1]}
    OBVIOUS
  <2>2. IsFiniteSet(im(m)) /\ m + 1 \in Nat
    BY <1>2
  <2> HIDE DEF im
  <2>3. IsFiniteSet(im(m) \cup {f[m + 1]})
    BY <2>2, FS_AddElement
  <2> QED BY <2>1, <2>2, <2>3
<1>3. n \in A
  <2> HIDE DEF A
  <2> QED BY <1>1, <1>2, UpToBound
<1> QED BY <1>3

\* An account's nonces count, so no two operations of a bundle have the same
\* sender and the same nonce.
LEMMA BundlesToldApart ==
  ASSUME IsFiniteSet(MinedOps), NEW b \in Bundles
  PROVE  \E n \in Nat \ {0} : /\ b \in [1..n -> Ops] /\ ToldApart(b, n)
                              /\ \A k \in 1..n : b[k] \notin MinedOps
<1>1. PICK n \in Nat : b \in [1..n -> Ops \ MinedOps]
  BY DEF Bundles, SeqOf
<1>2. n # 0
  <2>1. b # <<>>
    BY DEF Bundles
  <2> QED BY <1>1, <2>1
<1> DEFINE Own(i) == {o \in MinedOps \cup {b[j] : j \in 1..i - 1} : o.sender = b[i].sender}
<1>3. ASSUME NEW i \in 1..n PROVE b[i].nonce = Cardinality(Own(i))
  <2>1. DOMAIN b = 1..n
    BY <1>1
  <2> QED BY <2>1 DEF Bundles
<1>4. ASSUME NEW i \in 1..n PROVE IsFiniteSet(Own(i))
  <2> DEFINE before == {b[j] : j \in 1..i - 1}
             all == MinedOps \cup before
  <2>1. i - 1 \in Nat
    OBVIOUS
  <2>2. IsFiniteSet(before)
    BY <2>1, FiniteImage
  <2> HIDE DEF before
  <2>3. IsFiniteSet(all)
    BY <2>2, FS_Union
  <2>4. Own(i) \subseteq all
    BY DEF before
  <2> HIDE DEF all, Own
  <2> QED BY <2>3, <2>4, FS_Subset
<1>5. ASSUME NEW j \in 1..n, NEW k \in 1..n, j < k,
             b[j].sender = b[k].sender, b[j].nonce = b[k].nonce
      PROVE  FALSE
  <2> DEFINE Same == {i \in 1..n : b[i] = b[j]}
             m == Min(Same)
  <2>1. m \in Same
    <3>1. Same \subseteq 1..n /\ Same # {}
      OBVIOUS
    <3> HIDE DEF Same
    <3> QED BY <3>1, LeastIndex
  <2>2. m \in 1..n /\ b[m] = b[j]
    BY <2>1
  <2>3. \A i \in Same : m <= i
    <3>1. Same \subseteq 1..n /\ Same # {}
      OBVIOUS
    <3> HIDE DEF Same
    <3> QED BY <3>1, LeastIndex
  <2>4. j \in Same
    OBVIOUS
  <2>5. m < k
    BY <1>5, <2>2, <2>3, <2>4
  <2>6. \A i \in 1..m - 1 : b[i] # b[m]
    <3>1. \A i \in 1..m - 1 : i \in 1..n /\ ~ (m <= i)
      BY <2>2
    <3> QED BY <2>2, <2>3, <3>1
  <2> HIDE DEF m, Same
  <2>7. b[m] \notin MinedOps
    BY <1>1, <2>2
  <2>8. b[m] \notin Own(m)
    BY <2>6, <2>7
  <2>9. b[m] \in Own(k)
    <3>1. m \in 1..k - 1
      BY <2>2, <2>5
    <3> QED BY <1>5, <2>2, <3>1
  <2>10. Own(m) \subseteq Own(k)
    <3>1. 1..m - 1 \subseteq 1..k - 1
      BY <2>2, <2>5
    <3> QED BY <1>5, <2>2, <3>1
  <2>11. Cardinality(Own(m)) = Cardinality(Own(k))
    <3> HIDE DEF Own
    <3> QED BY <1>3, <1>5, <2>2
  <2>12. IsFiniteSet(Own(k))
    <3> HIDE DEF Own
    <3> QED BY <1>4
  <2> HIDE DEF Own
  <2> QED BY <2>8, <2>9, <2>10, <2>11, <2>12, FS_Subset
<1>6. ToldApart(b, n)
  <2>1. ASSUME NEW j \in 1..n, NEW k \in 1..n,
               b[j].sender = b[k].sender, b[j].nonce = b[k].nonce
        PROVE  j = k
    <3>1. j < k \/ k < j \/ j = k
      OBVIOUS
    <3> QED BY <1>5, <2>1, <3>1
  <2> QED BY <2>1 DEF ToldApart
<1> QED BY <1>1, <1>2, <1>6

\* Where the events of a bundle lie.
LEMMA Places ==
  ASSUME NEW evs, NEW tx, NEW b, NEW n, NEW v, BundleOK(evs, tx, b, n, v)
  PROVE  /\ DOMAIN evs = 1..(v + 2 * n)
         /\ \A i \in DOMAIN evs : i \in 1..v \/ \E k \in 1..n : i = v + 2 * k - 1 \/ i = v + 2 * k
         /\ \A k \in 1..n : v + 2 * k - 1 \in DOMAIN evs /\ v + 2 * k \in DOMAIN evs
<1>1. evs \in Seq(Events) /\ Len(evs) = v + 2 * n /\ n \in Nat /\ v \in Nat
  BY DEF BundleOK, Shaped
<1>2. DOMAIN evs = 1..(v + 2 * n)
  BY <1>1
<1>3. ASSUME NEW i \in 1..(v + 2 * n), ~ (i \in 1..v)
      PROVE  \E k \in 1..n : i = v + 2 * k - 1 \/ i = v + 2 * k
  <2> DEFINE k == (i - v + 1) \div 2
  <2>1. k \in 1..n /\ (i = v + 2 * k - 1 \/ i = v + 2 * k)
    BY <1>1, <1>3
  <2> QED BY <2>1
<1>4. \A k \in 1..n : v + 2 * k - 1 \in 1..(v + 2 * n) /\ v + 2 * k \in 1..(v + 2 * n)
  BY <1>1
<1> QED BY <1>2, <1>3, <1>4

\* The operations that the events of a bundle tell of are its own.
LEMMA BundleOps ==
  ASSUME NEW evs, NEW tx, NEW b, NEW n, NEW v, BundleOK(evs, tx, b, n, v)
  PROVE  OpsOf(evs) = {b[k] : k \in 1..n}
<1>1. Shaped(evs, tx, b, n, v)
  BY DEF BundleOK
<1>2. ASSUME NEW i \in DOMAIN evs PROVE \E k \in 1..n : evs[i].op = b[k]
  <2>1. i \in 1..v \/ \E k \in 1..n : i = v + 2 * k - 1 \/ i = v + 2 * k
    BY Places
  <2>2. CASE i \in 1..v
    BY <1>1, <2>2 DEF Shaped
  <2>3. ASSUME NEW k \in 1..n, i = v + 2 * k - 1 \/ i = v + 2 * k PROVE evs[i].op = b[k]
    <3>1. evs[i] = Event("Transfer", tx, b[k]) \/ evs[i] = Event("UserOperationEvent", tx, b[k])
      BY <1>1, <2>3 DEF Shaped
    <3> QED BY <3>1 DEF Event
  <2> QED BY <2>1, <2>2, <2>3
<1>3. ASSUME NEW k \in 1..n PROVE \E i \in DOMAIN evs : evs[i].op = b[k]
  <2>1. v + 2 * k \in DOMAIN evs
    BY Places
  <2>2. evs[v + 2 * k] = Event("UserOperationEvent", tx, b[k])
    BY <1>1 DEF Shaped
  <2> QED BY <2>1, <2>2 DEF Event
<1> QED BY <1>2, <1>3 DEF OpsOf

\* A mined bundle is one more transaction, of operations that are in no other.
LEMMA MinedKeepsLog ==
  ASSUME LogInv, NEW b \in Bundles, NEW relayed, Mined(b, relayed)
  PROVE  LogInv' /\ Len(log') = Len(log) + 1 /\ Len(Emitted') >= Len(Emitted)
<1> DEFINE last == Len(log) + 1
           new == BundleEvents(last, b)
<1>1. log \in Seq(Seq(Events)) /\ last \in Nat /\ IsFiniteSet(MinedOps)
  BY DEF LogInv
<1>2. PICK n \in Nat \ {0} : /\ b \in [1..n -> Ops] /\ ToldApart(b, n)
                             /\ \A k \in 1..n : b[k] \notin MinedOps
  BY <1>1, BundlesToldApart
<1>3. log' = Append(log, new)
  BY DEF Mined
<1>4. \E v \in Nat : BundleOK(new, last, b, n, v)
  <2> HIDE DEF last
  <2>1. \E v \in Nat : Shaped(BundleEvents(last, b), last, b, n, v)
    BY <1>1, <1>2, BundleShape
  <2> QED BY <1>2, <2>1 DEF BundleOK
<1> HIDE DEF new
<1>5. PICK v \in Nat : BundleOK(new, last, b, n, v)
  BY <1>4
<1>6. new \in Seq(Events) /\ OpsOf(new) = {b[k] : k \in 1..n}
  <2>1. new \in Seq(Events)
    BY <1>5 DEF BundleOK, Shaped
  <2> HIDE DEF last
  <2> QED BY <1>5, <2>1, BundleOps
<1>7. /\ log' \in Seq(Seq(Events)) /\ Len(log') = Len(log) + 1
      /\ DOMAIN log = 1..Len(log) /\ DOMAIN log' = 1..(Len(log) + 1)
      /\ log'[last] = new
      /\ \A tx \in DOMAIN log : log'[tx] = log[tx]
  <2> DEFINE S == Seq(Events)
  <2>1. log \in Seq(S) /\ new \in S
    BY <1>1, <1>6
  <2> HIDE DEF S
  <2>2. Append(log, new) \in Seq(S) /\ Len(Append(log, new)) = Len(log) + 1
    BY <2>1
  <2>3. \A tx \in 1..Len(log) : Append(log, new)[tx] = log[tx]
    BY <2>1
  <2>4. Append(log, new)[Len(log) + 1] = new
    BY <2>1
  <2> QED BY <1>3, <2>1, <2>2, <2>3, <2>4 DEF S
<1>8. ASSUME NEW tx \in DOMAIN log' PROVE tx \in DOMAIN log \/ tx = last
  BY <1>7
<1> HIDE DEF last
<1>9. ASSUME NEW tx \in DOMAIN log' PROVE \E c, m, w : BundleOK(log'[tx], tx, c, m, w)
  <2>1. CASE tx \in DOMAIN log
    <3>1. \E c, m, w : BundleOK(log[tx], tx, c, m, w)
      BY <2>1 DEF LogInv
    <3> QED BY <1>7, <2>1, <3>1
  <2>2. CASE tx = last
    BY <1>5, <1>7, <2>2
  <2> QED BY <1>8, <2>1, <2>2
<1>10. ASSUME NEW tx \in DOMAIN log PROVE OpsOf(log[tx]) \cap OpsOf(new) = {}
  <2>1. OpsOf(log[tx]) \subseteq MinedOps
    BY DEF MinedOps
  <2> QED BY <1>2, <1>6, <2>1
<1>11. ASSUME NEW tx \in DOMAIN log', NEW other \in DOMAIN log', tx # other
       PROVE  OpsOf(log'[tx]) \cap OpsOf(log'[other]) = {}
  <2>1. CASE tx \in DOMAIN log /\ other \in DOMAIN log
    <3>1. OpsOf(log[tx]) \cap OpsOf(log[other]) = {}
      BY <1>11, <2>1 DEF LogInv
    <3> QED BY <1>7, <2>1, <3>1
  <2>2. CASE tx \in DOMAIN log /\ other = last
    BY <1>7, <1>10, <2>2
  <2>3. CASE tx = last /\ other \in DOMAIN log
    BY <1>7, <1>10, <2>3
  <2> QED BY <1>8, <1>11, <2>1, <2>2, <2>3
<1>12. IsFiniteSet(MinedOps')
  <2>1. MinedOps' = MinedOps \cup OpsOf(new)
    <3>1. MinedOps' = UNION {OpsOf(log'[tx]) : tx \in DOMAIN log'}
      BY DEF MinedOps
    <3>2. last \in DOMAIN log'
      BY <1>7 DEF last
    <3>3. \A tx \in DOMAIN log : tx \in DOMAIN log' /\ log'[tx] = log[tx]
      BY <1>7
    <3> QED BY <1>7, <1>8, <3>1, <3>2, <3>3 DEF MinedOps
  <2>2. IsFiniteSet(OpsOf(new))
    BY <1>2, <1>6, FiniteImage
  <2>3. IsFiniteSet(MinedOps \cup OpsOf(new))
    BY <1>1, <2>2, FS_Union
  <2> QED BY <2>1, <2>3
<1>13. LogInv'
  BY <1>7, <1>9, <1>11, <1>12 DEF LogInv
<1>14. Len(Emitted') >= Len(Emitted)
  <2>1. Len(FlattenSeq(Append(log, new))) >= Len(FlattenSeq(log))
    BY <1>1, <1>6, FlattensLonger
  <2> QED BY <1>3, <2>1 DEF Emitted
<1> QED BY <1>7, <1>13, <1>14

\* What the chain emitted are events of it.
LEMMA FlatLog ==
  ASSUME NEW s \in Seq(Seq(Events))
  PROVE  FlattenSeq(s) \in Seq(Events)
<1> DEFINE n == Len(s)
<1>1. n \in Nat /\ s \in [1..n -> Seq(Events)]
  OBVIOUS
<1> HIDE DEF n
<1>2. s \in Parts(n, Events)
  BY <1>1 DEF Parts
<1> QED BY <1>1, <1>2, Flattens

\* The listener hears of an event, or a replay fetches or handles some.
LEMMA ListenerIdle ==
  ASSUME EventInv, Listen \/ FetchPastEvents \/ HandlePastEvent
  PROVE  /\ entries' = entries /\ cache' = cache /\ log' = log /\ indirect' = indirect
         /\ heard' \in 0..Len(Emitted)
         /\ past' \in [next : Nat \ {0}, last : 0..Len(Emitted)] /\ past'.next <= past'.last + 1
<1>1. Emitted \in Seq(Events) /\ heard \in 0..Len(Emitted) /\ Len(Emitted) \in Nat
  BY FlatLog DEF EventInv, EventsTypeOK, LogInv, Emitted
<1>2. past \in [next : Nat \ {0}, last : 0..Len(Emitted)] /\ past.next <= past.last + 1
  BY DEF EventInv, EventsTypeOK
<1>3. CASE Listen
  <2>1. heard' \in 1..Len(Emitted)
    BY <1>1, <1>3 DEF Listen
  <2>2. Emitted[heard'] \in Events
    BY <1>1, <2>1
  <2>3. entries' = entries /\ cache' = cache
    BY <1>3, <2>2, HandlesNothing DEF Listen
  <2> QED BY <1>1, <1>2, <1>3, <2>1, <2>3 DEF Listen
<1>4. CASE FetchPastEvents
  <2>1. past' = [next |-> 1, last |-> Len(Emitted)]
    BY <1>4 DEF FetchPastEvents
  <2> QED BY <1>1, <1>4, <2>1 DEF FetchPastEvents
<1>5. CASE HandlePastEvent
  <2>1. past.next \in 1..Len(Emitted)
    BY <1>1, <1>2, <1>5 DEF HandlePastEvent
  <2>2. Emitted[past.next] \in Events
    BY <1>1, <2>1
  <2>3. entries' = entries /\ cache' = cache
    BY <1>5, <2>2, HandlesNothing DEF HandlePastEvent
  <2>4. past'.next = past.next + 1 /\ past'.last = past.last
        /\ past' \in [next : Nat \ {0}, last : 0..Len(Emitted)]
    BY <1>2, <1>5 DEF HandlePastEvent
  <2>5. past'.next <= past'.last + 1
    BY <1>1, <1>2, <1>5, <2>4 DEF HandlePastEvent
  <2> QED BY <1>1, <1>5, <2>3, <2>4, <2>5 DEF HandlePastEvent
<1> QED BY <1>3, <1>4, <1>5

\* Types hold, and the log is one of bundles.
LEMMA EventInvariant == EventsSpec => []EventInv
<1>1. EventsInit => EventInv
  <2> SUFFICES ASSUME EventsInit PROVE EventInv
    OBVIOUS
  <2>1. /\ log = <<>> /\ indirect = {} /\ heard = 0 /\ past = [next |-> 1, last |-> 0]
        /\ entries = [a \in Addrs |-> NoEntry]
        /\ cache = [addr |-> NoAddr, tx |-> NoTx]
    BY DEF EventsInit, Init, NoEntries
  <2>2. LogInv
    <3>1. log \in Seq(Seq(Events)) /\ DOMAIN log = {}
      BY <2>1
    <3>2. MinedOps = {}
      BY <3>1 DEF MinedOps
    <3>3. IsFiniteSet(MinedOps)
      BY <3>2, FS_EmptySet
    <3> QED BY <3>1, <3>3 DEF LogInv
  <2>3. Len(Emitted) = 0
    <3>1. Emitted = <<>>
      BY <2>1, FlattenNone DEF Emitted
    <3> QED BY <3>1
  <2>4. EventsTypeOK
    BY <2>1, <2>3 DEF EventsTypeOK, TypeOK, EntriesType
  <2> QED BY <2>2, <2>4 DEF EventInv
<1>2. EventInv /\ [EventsNext]_eventVars => EventInv'
  <2> SUFFICES ASSUME EventInv, [EventsNext]_eventVars PROVE EventInv'
    OBVIOUS
  <2>1. /\ LogInv /\ entries \in EntriesType
        /\ cache \in [addr : Addrs \cup {NoAddr}, tx : 1..Len(log) \cup {NoTx}]
        /\ indirect \subseteq 1..Len(log)
        /\ heard \in 0..Len(Emitted)
        /\ past \in [next : Nat \ {0}, last : 0..Len(Emitted)] /\ past.next <= past.last + 1
    BY DEF EventInv, EventsTypeOK, TypeOK
  <2>2. ASSUME entries' \in EntriesType, cache' = cache, log' = log, indirect' = indirect,
               heard' \in 0..Len(Emitted),
               past' \in [next : Nat \ {0}, last : 0..Len(Emitted)], past'.next <= past'.last + 1
        PROVE  EventInv'
    <3>1. Emitted' = Emitted
      BY <2>2 DEF Emitted
    <3>2. LogInv'
      BY <2>1, <2>2 DEF LogInv, MinedOps
    <3>3. EventsTypeOK'
      BY <2>1, <2>2, <3>1 DEF EventsTypeOK, TypeOK
    <3> QED BY <3>2, <3>3 DEF EventInv
  <2>3. ASSUME NEW o \in Ops, Seen(o) PROVE EventInv'
    <3> DEFINE one == updateSeenStatus(entries, o.paymaster)
    <3>1. one \in EntriesType
      BY <2>1, TableKept
    <3>2. updateSeenStatus(one, o.factory) \in EntriesType
      <4> HIDE DEF one
      <4> QED BY <3>1, TableKept
    <3> QED BY <2>1, <2>2, <2>3, <3>2 DEF Seen
  <2>4. CASE TableStep
    <3>1. /\ \A a : crashedHandleOps(entries, a) \in EntriesType
          /\ hourlyCron(entries) \in EntriesType
      BY <2>1, TableKept
    <3>2. NoEntries \in EntriesType
      BY DEF NoEntries, EntriesType
    <3>3. entries' \in EntriesType
      BY <2>4, <3>1, <3>2 DEF TableStep
    <3> QED BY <2>1, <2>2, <2>4, <3>3 DEF TableStep
  <2>5. ASSUME NEW b \in Bundles, NEW relayed \in BOOLEAN, Mined(b, relayed) PROVE EventInv'
    <3>1. LogInv' /\ Len(log') = Len(log) + 1 /\ Len(Emitted') >= Len(Emitted)
      BY <2>1, <2>5, MinedKeepsLog
    <3>2. /\ entries' = entries /\ cache' = cache /\ heard' = heard /\ past' = past
          /\ indirect' \subseteq indirect \cup {Len(log) + 1}
      BY <2>5 DEF Mined
    <3>3. Len(Emitted) \in Nat /\ Len(Emitted') \in Nat /\ Len(log) \in Nat
      <4>1. log \in Seq(Seq(Events)) /\ log' \in Seq(Seq(Events))
        BY <2>1, <3>1 DEF LogInv
      <4>2. Emitted \in Seq(Events) /\ Emitted' \in Seq(Events)
        BY <4>1, FlatLog DEF Emitted
      <4> QED BY <4>1, <4>2
    <3>4. /\ heard' \in 0..Len(Emitted') /\ 1..Len(log) \subseteq 1..Len(log')
          /\ 0..Len(Emitted) \subseteq 0..Len(Emitted')
      BY <2>1, <3>1, <3>2, <3>3
    <3>5. indirect' \subseteq 1..Len(log')
      BY <2>1, <3>1, <3>2, <3>3
    <3>6. past' \in [next : Nat \ {0}, last : 0..Len(Emitted')] /\ past'.next <= past'.last + 1
      BY <2>1, <3>2, <3>4
    <3>7. EventsTypeOK'
      <4>1. cache' \in [addr : Addrs \cup {NoAddr}, tx : 1..Len(log') \cup {NoTx}]
        BY <2>1, <3>2, <3>4
      <4> QED BY <2>1, <3>2, <3>4, <3>5, <3>6, <4>1 DEF EventsTypeOK, TypeOK
    <3> QED BY <3>1, <3>7 DEF EventInv
  <2>6. CASE Listen \/ FetchPastEvents \/ HandlePastEvent
    BY <2>1, <2>2, <2>6, ListenerIdle
  <2>7. CASE UNCHANGED eventVars
    BY <2>1, <2>2, <2>7 DEF eventVars
  <2> QED BY <2>3, <2>4, <2>5, <2>6, <2>7 DEF EventsNext
<1> QED BY <1>1, <1>2, PTL DEF EventsSpec

\* Whatever the table goes through its counters stay natural numbers, and however
\* bundles are mined, heard and replayed, nothing is handled that is not in the log.
THEOREM EventsType == EventsSpec => []EventsTypeOK
<1>1. EventInv => EventsTypeOK
  BY DEF EventInv
<1> QED BY <1>1, EventInvariant, PTL

\* An operation of a bundle ends at one place among the events.
LEMMA EndsOnce ==
  ASSUME NEW evs, NEW tx, NEW b, NEW n, NEW v, BundleOK(evs, tx, b, n, v), NEW k \in 1..n
  PROVE  Ends(b[k], evs) = {v + 2 * k}
<1>1. Shaped(evs, tx, b, n, v) /\ ToldApart(b, n)
  BY DEF BundleOK
<1>2. ASSUME NEW i \in Ends(b[k], evs) PROVE i = v + 2 * k
  <2>1. i \in DOMAIN evs /\ evs[i].event = "UserOperationEvent" /\ evs[i].op = b[k]
    BY DEF Ends
  <2>2. i \in 1..v \/ \E j \in 1..n : i = v + 2 * j - 1 \/ i = v + 2 * j
    BY <2>1, Places
  <2>3. ~ (i \in 1..v)
    BY <1>1, <2>1 DEF Shaped
  <2>4. ASSUME NEW j \in 1..n, i = v + 2 * j - 1 PROVE FALSE
    <3>1. evs[i] = Event("Transfer", tx, b[j])
      BY <1>1, <2>4 DEF Shaped
    <3> QED BY <2>1, <3>1 DEF Event
  <2>5. ASSUME NEW j \in 1..n, i = v + 2 * j PROVE j = k
    <3>1. evs[i] = Event("UserOperationEvent", tx, b[j])
      BY <1>1, <2>5 DEF Shaped
    <3>2. b[j] = b[k]
      BY <2>1, <3>1 DEF Event
    <3> QED BY <1>1, <3>2 DEF ToldApart
  <2> QED BY <2>2, <2>3, <2>4, <2>5
<1>3. v + 2 * k \in Ends(b[k], evs)
  <2>1. v + 2 * k \in DOMAIN evs
    BY Places
  <2>2. evs[v + 2 * k] = Event("UserOperationEvent", tx, b[k])
    BY <1>1 DEF Shaped
  <2> QED BY <2>1, <2>2 DEF Ends, Event
<1> QED BY <1>2, <1>3

\* Where the operations of a bundle end.
LEMMA AllEnds ==
  ASSUME NEW evs, NEW tx, NEW b, NEW n, NEW v, BundleOK(evs, tx, b, n, v)
  PROVE  {i \in DOMAIN evs : evs[i].event = "UserOperationEvent"} = {v + 2 * j : j \in 1..n}
<1>1. Shaped(evs, tx, b, n, v)
  BY DEF BundleOK
<1>2. ASSUME NEW i \in DOMAIN evs, evs[i].event = "UserOperationEvent"
      PROVE  \E j \in 1..n : i = v + 2 * j
  <2>1. i \in 1..v \/ \E j \in 1..n : i = v + 2 * j - 1 \/ i = v + 2 * j
    BY Places
  <2>2. ~ (i \in 1..v)
    BY <1>1, <1>2 DEF Shaped
  <2>3. ASSUME NEW j \in 1..n, i = v + 2 * j - 1 PROVE FALSE
    <3>1. evs[i] = Event("Transfer", tx, b[j])
      BY <1>1, <2>3 DEF Shaped
    <3> QED BY <1>2, <3>1 DEF Event
  <2> QED BY <2>1, <2>2, <2>3
<1>3. ASSUME NEW j \in 1..n
      PROVE  v + 2 * j \in DOMAIN evs /\ evs[v + 2 * j].event = "UserOperationEvent"
  <2>1. v + 2 * j \in DOMAIN evs
    BY Places
  <2>2. evs[v + 2 * j] = Event("UserOperationEvent", tx, b[j])
    BY <1>1 DEF Shaped
  <2> QED BY <2>1, <2>2 DEF Event
<1> QED BY <1>2, <1>3

\* The logs kept of an operation start after the end of the one before.
Before(k, v) == IF k = 1 THEN 0 ELSE v + 2 * (k - 1)

LEMMA LogsOfOne ==
  ASSUME NEW evs, NEW tx, NEW b, NEW n, NEW v, BundleOK(evs, tx, b, n, v), NEW k \in 1..n
  PROVE  _filterLogs(Event("UserOperationEvent", tx, b[k]), evs)
           = SubSeq(evs, Before(k, v) + 1, v + 2 * k - 1)
<1> DEFINE ev == Event("UserOperationEvent", tx, b[k])
           ends == {i \in DOMAIN evs : evs[i].event = ev.event}
           end == CHOOSE i \in ends : evs[i].op = ev.op
           earlier == {0} \cup {i \in ends : i < end}
<1>1. ev.event = "UserOperationEvent" /\ ev.op = b[k]
  BY DEF Event
<1>2. n \in Nat /\ v \in Nat
  BY DEF BundleOK
<1>3. ends = {v + 2 * j : j \in 1..n}
  BY <1>1, AllEnds
<1>4. end = v + 2 * k
  <2>1. \A i \in ends : evs[i].op = ev.op <=> i = v + 2 * k
    <3>1. \A i \in ends : evs[i].op = b[k] <=> i \in Ends(b[k], evs)
      BY <1>1 DEF Ends
    <3>2. Ends(b[k], evs) = {v + 2 * k}
      BY EndsOnce
    <3> HIDE DEF ends, ev
    <3> QED BY <1>1, <3>1, <3>2
  <2>2. v + 2 * k \in ends
    BY <1>3
  <2> HIDE DEF ends, ev
  <2> QED BY <2>1, <2>2
<1>5. _filterLogs(ev, evs) = SubSeq(evs, Max(earlier) + 1, end - 1)
  BY DEF _filterLogs
<1> HIDE DEF ends, end
<1>6. Max(earlier) = Before(k, v)
  <2>1. Before(k, v) \in earlier
    <3>1. CASE k = 1
      BY <3>1 DEF Before
    <3>2. CASE k # 1
      <4>1. k - 1 \in 1..n /\ v + 2 * (k - 1) < v + 2 * k
        BY <1>2, <3>2
      <4> QED BY <1>3, <1>4, <3>2, <4>1 DEF Before
    <3> QED BY <3>1, <3>2
  <2>2. ASSUME NEW i \in earlier PROVE Before(k, v) >= i
    <3>1. i = 0 \/ \E j \in 1..n : i = v + 2 * j /\ v + 2 * j < v + 2 * k
      BY <1>3, <1>4
    <3>2. CASE i = 0
      BY <1>2, <3>2 DEF Before
    <3>3. ASSUME NEW j \in 1..n, i = v + 2 * j, v + 2 * j < v + 2 * k PROVE Before(k, v) >= i
      BY <1>2, <3>3 DEF Before
    <3> QED BY <3>1, <3>2, <3>3
  <2>3. \A i \in earlier : i \in Int
    BY <1>2, <1>3
  <2> HIDE DEF earlier
  <2>4. \A x \in earlier : (\A y \in earlier : x >= y) => x = Before(k, v)
    BY <2>1, <2>2, <2>3
  <2> QED BY <2>1, <2>2, <2>4 DEF Max
<1> HIDE DEF earlier, ev
<1>7. _filterLogs(ev, evs) = SubSeq(evs, Before(k, v) + 1, v + 2 * k - 1)
  <2>1. end - 1 = v + 2 * k - 1
    BY <1>2, <1>4
  <2> QED BY <1>5, <1>6, <2>1
<1> QED BY <1>7 DEF ev

\* The event found is the operation's own.
LEMMA OwnEvent ==
  ASSUME LogInv, NEW t \in DOMAIN log, NEW b, NEW n, NEW v,
         BundleOK(log[t], t, b, n, v), NEW k \in 1..n
  PROVE  _getUserOperationEvent(b[k]) = <<Event("UserOperationEvent", t, b[k])>>
<1> DEFINE o == b[k]
           I == {i \in 1..Len(log) : Ends(o, log[i]) # {}}
<1>1. DOMAIN log = 1..Len(log) /\ Len(log) \in Nat
  BY DEF LogInv
<1>2. Ends(o, log[t]) = {v + 2 * k}
  BY EndsOnce
<1>3. ASSUME NEW i \in DOMAIN log, i # t PROVE Ends(o, log[i]) = {}
  <2>1. OpsOf(log[i]) \cap OpsOf(log[t]) = {}
    BY <1>3 DEF LogInv
  <2>2. o \in OpsOf(log[t])
    BY BundleOps
  <2> QED BY <2>1, <2>2 DEF Ends, OpsOf
<1>4. I = {t}
  BY <1>1, <1>2, <1>3
<1>5. t \in 1..Len(log) /\ t # 0
  BY <1>1
<1>6. Min({t}) = t /\ Min({v + 2 * k}) = v + 2 * k
  <2>1. t \in Int /\ v + 2 * k \in Int
    BY <1>5 DEF BundleOK
  <2> QED BY <2>1 DEF Min
<1> HIDE DEF I
<1>7. SelectInSeq(log, LAMBDA evs : Ends(o, evs) # {}) = t
  BY <1>4, <1>6 DEF SelectInSeq, I
<1>8. log[t][v + 2 * k] = Event("UserOperationEvent", t, o)
  BY DEF BundleOK, Shaped
<1> QED BY <1>2, <1>5, <1>6, <1>7, <1>8 DEF _getUserOperationEvent

\* An operation of the log is found, unless its transaction cannot be parsed, with
\* a receipt of its own execution.
LEMMA MinedAnswer ==
  ASSUME LogInv, NEW t \in DOMAIN log, NEW b, NEW n, NEW v,
         BundleOK(log[t], t, b, n, v), NEW k \in 1..n
  PROVE  LET o       == b[k]
             receipt == getUserOperationReceipt(o)[1]
             last    == Len(receipt)
         IN  /\ _getUserOperationEvent(o)[1].tx = t
             /\ getUserOperationByHash(o) =
                  IF t \in indirect THEN [answer |-> "throws"] ELSE [answer |-> "found", op |-> o]
             /\ last > 0 /\ receipt[last] = Event("Transfer", t, o)
             /\ \A i \in 1..last - 1 : receipt[i].event = "AccountDeployed"
<1> DEFINE o == b[k]
           ev == Event("UserOperationEvent", t, o)
           from == Before(k, v) + 1
           to == v + 2 * k - 1
           receipt == SubSeq(log[t], from, to)
<1>1. _getUserOperationEvent(o) = <<ev>>
  BY OwnEvent
<1>2. ev.tx = t /\ ev.op = o /\ <<ev>> # <<>> /\ <<ev>>[1] = ev
  BY DEF Event
<1>3. n \in Nat /\ v \in Nat /\ Shaped(log[t], t, b, n, v) /\ ToldApart(b, n)
  BY DEF BundleOK
<1>4. getUserOperationByHash(o) =
        IF t \in indirect THEN [answer |-> "throws"] ELSE [answer |-> "found", op |-> o]
  <2>1. OpsOf(log[t]) = {b[j] : j \in 1..n}
    BY BundleOps
  <2>2. \A x \in OpsOf(log[t]) : Told(x, ev) <=> x = o
    <3>1. \A x \in OpsOf(log[t]) : x.sender = o.sender /\ x.nonce = o.nonce <=> x = o
      BY <1>3, <2>1 DEF ToldApart
    <3> HIDE DEF ev, o
    <3> QED BY <1>2, <3>1 DEF Told
  <2>3. o \in OpsOf(log[t])
    BY <2>1
  <2> HIDE DEF ev, o
  <2>4. FoundIn(OpsOf(log[t]), ev) = o
    BY <2>2, <2>3 DEF FoundIn
  <2>5. \E other \in OpsOf(log[t]) : Told(other, ev)
    BY <2>2, <2>3
  <2> QED BY <1>1, <1>2, <2>4, <2>5 DEF getUserOperationByHash
<1>5. getUserOperationReceipt(o) = <<receipt>>
  <2>1. _filterLogs(ev, log[t]) = receipt
    BY LogsOfOne
  <2> HIDE DEF ev, o, receipt
  <2> QED BY <1>1, <1>2, <2>1 DEF getUserOperationReceipt
<1>6. /\ from \in Nat \ {0} /\ to \in Nat /\ from <= to /\ to <= Len(log[t])
      /\ log[t] \in Seq(Events)
  BY <1>3 DEF Shaped, Before
<1>7. /\ Len(receipt) = to - from + 1
      /\ \A i \in 1..(to - from + 1) : receipt[i] = log[t][i + from - 1]
  <2> DEFINE evs == log[t]
  <2> HIDE DEF from, to, evs
  <2>1. evs \in Seq(Events) /\ from \in Nat \ {0} /\ to \in Nat /\ from <= to /\ to <= Len(evs)
    BY <1>6 DEF evs
  <2>2. SubSeq(evs, from, to) = [i \in 1..(to - from + 1) |-> evs[i + from - 1]]
    BY <2>1
  <2>3. Len(SubSeq(evs, from, to)) = to - from + 1
    BY <2>1
  <2> QED BY <2>2, <2>3 DEF evs
<1>8. log[t][to] = Event("Transfer", t, o)
  BY <1>3 DEF Shaped
<1> DEFINE last == Len(receipt)
<1>9. last \in Nat /\ last > 0 /\ receipt[last] = Event("Transfer", t, o)
  <2>1. to - from + 1 \in 1..(to - from + 1) /\ (to - from + 1) + from - 1 = to
    BY <1>6
  <2> HIDE DEF from, to, receipt, o
  <2> QED BY <1>7, <1>8, <2>1
<1>10. ASSUME k = 1, NEW i \in 1..last - 1 PROVE receipt[i].event = "AccountDeployed"
  <2>1. from = 1 /\ to = v + 1
    BY <1>3, <1>10 DEF Before
  <2>2. i \in 1..v /\ i \in 1..(to - from + 1) /\ i + from - 1 = i
    BY <1>3, <1>7, <1>10, <2>1
  <2>3. receipt[i] = log[t][i]
    BY <1>7, <2>2
  <2> QED BY <1>3, <2>2, <2>3 DEF Shaped
<1>11. ASSUME k # 1 PROVE last = 1
  <2>1. from = v + 2 * k - 1
    BY <1>3, <1>11 DEF Before
  <2> QED BY <1>3, <1>7, <2>1
<1>12. \A i \in 1..last - 1 : receipt[i].event = "AccountDeployed"
  <2>1. CASE k = 1
    BY <1>10, <2>1
  <2>2. CASE k # 1
    <3>1. last = 1
      BY <1>11, <2>2
    <3> HIDE DEF last
    <3> QED BY <3>1
  <2> QED BY <2>1, <2>2
<1>14. getUserOperationReceipt(o)[1] = receipt /\ _getUserOperationEvent(o)[1].tx = t
  <2> HIDE DEF receipt, ev, o
  <2> QED BY <1>1, <1>2, <1>5
<1> HIDE DEF receipt
<1> QED BY <1>4, <1>9, <1>12, <1>14

\* An operation that is not in the log has no answer.
LEMMA NoAnswer ==
  ASSUME LogInv, NEW o, o \notin MinedOps
  PROVE  getUserOperationByHash(o) = [answer |-> "null"] /\ getUserOperationReceipt(o) = <<>>
<1>1. DOMAIN log = 1..Len(log)
  BY DEF LogInv
<1>2. \A i \in 1..Len(log) : Ends(o, log[i]) = {}
  BY <1>1 DEF MinedOps, OpsOf, Ends
<1>3. SelectInSeq(log, LAMBDA evs : Ends(o, evs) # {}) = 0
  BY <1>2 DEF SelectInSeq
<1>4. _getUserOperationEvent(o) = <<>>
  BY <1>3 DEF _getUserOperationEvent
<1> QED BY <1>4 DEF getUserOperationByHash, getUserOperationReceipt

\* Whatever bundles were mined, every operation of them is found by its hash, as
\* itself, or its transaction cannot be parsed; and its receipt has the logs of its
\* own execution and of no other (_getUserOperationEvent, _filterLogs,
\* getUserOperationByHash).
THEOREM AnswersOwn == EventsSpec => []AnswersAreItsOwn
<1>1. EventInv => AnswersAreItsOwn
  <2> SUFFICES ASSUME EventInv, NEW o \in Ops
               PROVE  IF o \notin MinedOps
                      THEN getUserOperationByHash(o) = [answer |-> "null"]
                           /\ getUserOperationReceipt(o) = <<>>
                      ELSE LET tx      == _getUserOperationEvent(o)[1].tx
                               receipt == getUserOperationReceipt(o)[1]
                               last    == Len(receipt)
                           IN  /\ getUserOperationByHash(o) =
                                    IF tx \in indirect THEN [answer |-> "throws"]
                                    ELSE [answer |-> "found", op |-> o]
                               /\ last > 0 /\ receipt[last] = Event("Transfer", tx, o)
                               /\ \A i \in 1..last - 1 :
                                    receipt[i].event \notin {"Transfer", "UserOperationEvent"}
    BY DEF AnswersAreItsOwn
  <2>1. LogInv
    BY DEF EventInv
  <2>2. CASE o \notin MinedOps
    BY <2>1, <2>2, NoAnswer
  <2>3. CASE o \in MinedOps
    <3>1. PICK t \in DOMAIN log : o \in OpsOf(log[t])
      BY <2>3 DEF MinedOps
    <3>2. PICK b, n, v : BundleOK(log[t], t, b, n, v)
      BY <2>1 DEF LogInv
    <3>3. PICK k \in 1..n : o = b[k]
      BY <3>1, <3>2, BundleOps
    <3> DEFINE receipt == getUserOperationReceipt(o)[1]
    <3>4. /\ _getUserOperationEvent(o)[1].tx = t
          /\ getUserOperationByHash(o) =
               IF t \in indirect THEN [answer |-> "throws"] ELSE [answer |-> "found", op |-> o]
          /\ Len(receipt) > 0 /\ receipt[Len(receipt)] = Event("Transfer", t, o)
          /\ \A i \in 1..Len(receipt) - 1 : receipt[i].event = "AccountDeployed"
      BY <2>1, <3>2, <3>3, MinedAnswer
    <3> HIDE DEF receipt
    <3>5. \A i \in 1..Len(receipt) - 1 : receipt[i].event \notin {"Transfer", "UserOperationEvent"}
      BY <3>4
    <3> QED BY <2>3, <3>4, <3>5 DEF receipt
  <2> QED BY <2>2, <2>3
<1> QED BY <1>1, EventInvariant, PTL
=============================================================================
