------------------------- MODULE MempoolManager_proofs -------------------------
(***************************************************************************)
(* The mempool's array and its counter, for every set of operations, every *)
(* list and all parameters of the reputation table.                        *)
(*                                                                         *)
(* The array implements the pool because no key is in it twice: so the     *)
(* first entry with a key is the only one, and replacing or removing it    *)
(* replaces or removes what the pool calls SameKeyIn.                      *)
(***************************************************************************)
EXTENDS MempoolManager, TLAPS, WellFoundedInduction, FunctionTheorems, FiniteSetTheorems

UniqueKeys(ms) == \A i, j \in DOMAIN ms : Pool!SameKey(ms[i], ms[j]) => i = j

Of(ms, s) == {i \in DOMAIN ms : ms[i].sender = s}

Covers(count, ms) == \A s \in Senders : Cardinality(Of(ms, s)) <= count[s]

\* An array and a counter that go together.
Fit(ms, count) ==
  /\ ms \in Seq(Ops)
  /\ count \in [Senders -> Nat]
  /\ UniqueKeys(ms)
  /\ Covers(count, ms)

IInv == Fit(mempool, entryCount) /\ entries \in Rep!EntriesType
-----------------------------------------------------------------------------
(* The array *)

\* A set of places has a least one: the intervals up to its elements are
\* finite sets, and those are well founded by inclusion.
LEMMA LeastIndex ==
  ASSUME NEW n \in Nat, NEW I, I \subseteq 1..n, I # {}
  PROVE  Min(I) \in I
<1> DEFINE All == 1..n
           B == {1..m : m \in I}
<1>1. IsFiniteSet(All)
  BY FS_Interval
<1>2. B \subseteq SUBSET All /\ B # {}
  <2>1. \A m \in I : 1..m \subseteq 1..n
    OBVIOUS
  <2> QED BY <2>1
<1> HIDE DEF All, B
<1>3. B \subseteq FiniteSubsetsOf(All)
  BY <1>1, <1>2, FS_FiniteSubsetsOfFinite
<1>4. IsWellFoundedOn(StrictSubsetOrdering(All), FiniteSubsetsOf(All))
  BY FS_StrictSubsetOrderingWellFounded
<1>5. PICK T \in B : \A U \in B : ~ (<<U, T>> \in StrictSubsetOrdering(All))
  BY <1>2, <1>3, <1>4, WFMin
<1>6. \A U \in B : ~ (U \subseteq T /\ U # T)
  BY <1>2, <1>5 DEF StrictSubsetOrdering
<1>7. PICK m \in I : T = 1..m
  BY <1>5 DEF B
<1>8. \A j \in I : m <= j
  <2> SUFFICES ASSUME NEW j \in I, j < m PROVE FALSE
    OBVIOUS
  <2>1. 1..j \in B
    BY DEF B
  <2>2. 1..j \subseteq T /\ m \in T /\ m \notin 1..j
    BY <1>7
  <2> QED BY <1>6, <2>1, <2>2
<1> QED BY <1>8 DEF Min

\* find returns the place of an entry with the key, or 0 when there is none.
LEMMA FindsKey ==
  ASSUME NEW ms \in Seq(Ops), NEW op
  PROVE  \/ find(ms, op) = 0 /\ \A i \in DOMAIN ms : ~ Pool!SameKey(ms[i], op)
         \/ find(ms, op) \in DOMAIN ms /\ Pool!SameKey(ms[find(ms, op)], op)
<1> DEFINE I == {i \in 1..Len(ms) : Pool!SameKey(ms[i], op)}
<1>1. find(ms, op) = IF I # {} THEN Min(I) ELSE 0
  BY DEF find, SelectInSeq
<1>2. DOMAIN ms = 1..Len(ms) /\ Len(ms) \in Nat /\ I \subseteq 1..Len(ms)
  OBVIOUS
<1>3. I # {} => Min(I) \in I
  BY <1>2, LeastIndex
<1> QED BY <1>1, <1>2, <1>3

\* One sequence after another.
LEMMA Concats ==
  ASSUME NEW S, NEW s \in Seq(S), NEW t \in Seq(S)
  PROVE  /\ s \o t \in Seq(S)
         /\ Len(s \o t) = Len(s) + Len(t)
         /\ \A j \in 1..(Len(s) + Len(t)) : (s \o t)[j] = IF j <= Len(s) THEN s[j] ELSE t[j - Len(s)]
<1>1. s \o t \in Seq(S)
  OBVIOUS
<1>2. Len(s \o t) = Len(s) + Len(t)
  OBVIOUS
<1> QED BY <1>1, <1>2

\* splice takes one entry out and moves the later ones up.
LEMMA RemovesAt ==
  ASSUME NEW S, NEW s \in Seq(S), NEW i \in 1..Len(s)
  PROVE  /\ RemoveAt(s, i) \in Seq(S)
         /\ Len(RemoveAt(s, i)) = Len(s) - 1
         /\ \A j \in 1..(Len(s) - 1) : RemoveAt(s, i)[j] = IF j < i THEN s[j] ELSE s[j + 1]
<1> DEFINE head == SubSeq(s, 1, i - 1)
           tail == SubSeq(s, i + 1, Len(s))
<1>1. \A j \in 1..Len(s) : s[j] \in S
  OBVIOUS
<1>2. /\ head \in Seq(S)
      /\ Len(head) = i - 1
      /\ \A j \in 1..(i - 1) : head[j] = s[j]
  BY <1>1
<1>3. /\ tail \in Seq(S)
      /\ Len(tail) = Len(s) - i
      /\ \A j \in 1..(Len(s) - i) : tail[j] = s[i + j]
  BY <1>1
<1>4. RemoveAt(s, i) = head \o tail
  BY DEF RemoveAt
<1> HIDE DEF head, tail
<1> DEFINE n == Len(s)
           whole == head \o tail
<1>5. n \in Nat /\ i \in Nat /\ 1 <= i /\ i <= n
  OBVIOUS
<1> HIDE DEF n
<1>6. whole \in Seq(S) /\ Len(whole) = Len(head) + Len(tail)
  BY <1>2, <1>3, Concats
<1>7. \A j \in 1..(Len(head) + Len(tail)) :
        whole[j] = IF j <= Len(head) THEN head[j] ELSE tail[j - Len(head)]
  BY <1>2, <1>3, Concats
<1> HIDE DEF whole
<1>8. Len(head) = i - 1 /\ Len(tail) = n - i /\ Len(whole) = n - 1
  BY <1>2, <1>3, <1>5, <1>6 DEF n
<1>9. ASSUME NEW j \in 1..(n - 1)
      PROVE  whole[j] = IF j < i THEN s[j] ELSE s[j + 1]
  <2>1. CASE j < i
    <3>1. whole[j] = head[j] /\ j \in 1..(i - 1)
      BY <1>5, <1>7, <1>8, <2>1
    <3> QED BY <1>2, <2>1, <3>1
  <2>2. CASE ~ (j < i)
    <3>1. whole[j] = tail[j - (i - 1)] /\ j - (i - 1) \in 1..(n - i)
      BY <1>5, <1>7, <1>8, <2>2
    <3>2. tail[j - (i - 1)] = s[i + (j - (i - 1))] /\ i + (j - (i - 1)) = j + 1
      BY <1>3, <1>5, <3>1 DEF n
    <3> QED BY <2>2, <3>1, <3>2
  <2> QED BY <2>1, <2>2
<1> QED BY <1>4, <1>6, <1>8, <1>9 DEF n, whole

\* The entries of a sender can be counted.
LEMMA OfFinite ==
  ASSUME NEW ms \in Seq(Ops), NEW s
  PROVE  IsFiniteSet(Of(ms, s)) /\ Cardinality(Of(ms, s)) \in Nat
<1>1. IsFiniteSet(1..Len(ms))
  <2>1. Len(ms) \in Int
    OBVIOUS
  <2> QED BY <2>1, FS_Interval
<1>2. Of(ms, s) \subseteq 1..Len(ms)
  BY DEF Of
<1> QED BY <1>1, <1>2, FS_Subset, FS_CardinalityType

\* Taking an entry out leaves every sender at most what it had.
LEMMA FewerRemain ==
  ASSUME NEW ms \in Seq(Ops), NEW rest \in Seq(Ops), NEW f,
         \A j \in DOMAIN rest : f[j] \in DOMAIN ms /\ rest[j] = ms[f[j]],
         \A j, k \in DOMAIN rest : f[j] = f[k] => j = k,
         NEW s
  PROVE  IsFiniteSet(Of(rest, s)) /\ Cardinality(Of(rest, s)) <= Cardinality(Of(ms, s))
<1> DEFINE g == [j \in Of(rest, s) |-> f[j]]
<1>1. IsFiniteSet(Of(ms, s))
  BY OfFinite
<1>2. g \in Injection(Of(rest, s), Of(ms, s))
  BY DEF Of, Injection, IsInjective
<1> QED BY <1>1, <1>2, FS_Injection
-----------------------------------------------------------------------------
(* The operations on the array and the counter *)

\* A new operation is appended and counted (addUserOp).
LEMMA Adds ==
  ASSUME NEW ms, NEW count, Fit(ms, count), NEW op \in Ops, find(ms, op) = 0
  PROVE  /\ Fit(Append(ms, op), [count EXCEPT ![op.sender] = @ + 1])
         /\ ToSet(Append(ms, op)) = ToSet(ms) \cup {op}
         /\ \A i \in DOMAIN ms : ~ Pool!SameKey(ms[i], op)
<1> DEFINE more == Append(ms, op)
           n == Len(ms)
           counted == [count EXCEPT ![op.sender] = @ + 1]
<1>1. ms \in Seq(Ops) /\ n \in Nat /\ DOMAIN ms = 1..n
  BY DEF Fit
<1>2. /\ more \in Seq(Ops)
      /\ DOMAIN more = 1..(n + 1)
      /\ \A i \in 1..n : more[i] = ms[i]
      /\ more[n + 1] = op
  BY <1>1
<1>3. \A i \in DOMAIN ms : ~ Pool!SameKey(ms[i], op)
  BY <1>1, FindsKey
<1> HIDE DEF more, n
<1>4. ToSet(more) = ToSet(ms) \cup {op}
  <2>1. 1..(n + 1) = (1..n) \cup {n + 1}
    BY <1>1
  <2> QED BY <1>1, <1>2, <2>1 DEF ToSet
<1>5. UniqueKeys(more)
  <2> SUFFICES ASSUME NEW i \in 1..(n + 1), NEW j \in 1..(n + 1), Pool!SameKey(more[i], more[j])
               PROVE  i = j
    BY <1>2 DEF UniqueKeys
  <2>1. CASE i \in 1..n /\ j \in 1..n
    BY <1>1, <1>2, <2>1 DEF Fit, UniqueKeys
  <2>2. CASE i = n + 1 /\ j \in 1..n
    BY <1>1, <1>2, <1>3, <2>2 DEF Pool!SameKey
  <2>3. CASE i \in 1..n /\ j = n + 1
    BY <1>1, <1>2, <1>3, <2>3
  <2> QED BY <1>1, <2>1, <2>2, <2>3
<1>6. counted \in [Senders -> Nat] /\ op.sender \in Senders
  BY DEF Fit, Senders
<1>7. Covers(counted, more)
  <2> SUFFICES ASSUME NEW s \in Senders
               PROVE  Cardinality(Of(more, s)) <= counted[s]
    BY DEF Covers
  <2>1. Cardinality(Of(ms, s)) <= count[s] /\ count[s] \in Nat
    BY DEF Fit, Covers
  <2>2. IsFiniteSet(Of(ms, s)) /\ Cardinality(Of(ms, s)) \in Nat
    BY <1>1, OfFinite
  <2>3. CASE s = op.sender
    <3>1. Of(more, s) = Of(ms, s) \cup {n + 1}
      BY <1>1, <1>2, <2>3 DEF Of
    <3>2. n + 1 \notin Of(ms, s)
      BY <1>1 DEF Of
    <3>3. Cardinality(Of(more, s)) = Cardinality(Of(ms, s)) + 1
      BY <2>2, <3>1, <3>2, FS_AddElement
    <3>4. counted[s] = count[s] + 1
      BY <1>6, <2>3 DEF Fit
    <3> QED BY <2>1, <2>2, <3>3, <3>4
  <2>4. CASE s # op.sender
    <3>1. Of(more, s) = Of(ms, s)
      BY <1>1, <1>2, <2>4 DEF Of
    <3>2. counted[s] = count[s]
      BY <2>4 DEF Fit
    <3> QED BY <2>1, <3>1, <3>2
  <2> QED BY <2>3, <2>4
<1> QED BY <1>2, <1>3, <1>4, <1>5, <1>6, <1>7 DEF Fit, more

\* An operation takes the place of the one entry with its key (addUserOp).
LEMMA Replaces ==
  ASSUME NEW ms, NEW count, Fit(ms, count), NEW op \in Ops, find(ms, op) # 0
  PROVE  LET i == find(ms, op)
         IN  /\ i \in DOMAIN ms
             /\ Fit([ms EXCEPT ![i] = op], count)
             /\ Pool!SameKeyIn(ToSet(ms), op) = {ms[i]}
             /\ ToSet([ms EXCEPT ![i] = op]) = (ToSet(ms) \ {ms[i]}) \cup {op}
<1> DEFINE i == find(ms, op)
           with == [ms EXCEPT ![i] = op]
<1>1. ms \in Seq(Ops) /\ i \in DOMAIN ms /\ Pool!SameKey(ms[i], op)
  BY FindsKey DEF Fit
<1> HIDE DEF i
<1>2. with \in Seq(Ops) /\ DOMAIN with = DOMAIN ms
  BY <1>1
<1>3. \A j \in DOMAIN ms : with[j] = IF j = i THEN op ELSE ms[j]
  BY <1>1
<1> HIDE DEF with
<1>4. \A j \in DOMAIN ms : Pool!SameKey(ms[j], op) => j = i
  BY <1>1 DEF Fit, UniqueKeys, Pool!SameKey
<1>5. UniqueKeys(with)
  BY <1>1, <1>2, <1>3, <1>4 DEF Fit, UniqueKeys, Pool!SameKey
<1>6. \A s : Of(with, s) = Of(ms, s)
  BY <1>1, <1>2, <1>3 DEF Of, Pool!SameKey
<1>7. Fit(with, count)
  BY <1>2, <1>5, <1>6 DEF Fit, Covers
<1>8. Pool!SameKeyIn(ToSet(ms), op) = {ms[i]}
  BY <1>1, <1>4 DEF Pool!SameKeyIn, ToSet
<1>9. ToSet(with) = (ToSet(ms) \ {ms[i]}) \cup {op}
  <2>1. \A j \in DOMAIN ms : ms[j] = ms[i] => j = i
    BY <1>1 DEF Fit, UniqueKeys, Pool!SameKey
  <2> QED BY <1>1, <1>2, <1>3, <2>1 DEF ToSet
<1> QED BY <1>1, <1>7, <1>8, <1>9 DEF i, with

\* Entries that are dropped leave a fitting array, whichever the counter keeps.
LEMMA Drops ==
  ASSUME NEW ms, NEW count, Fit(ms, count), NEW rest \in Seq(Ops), NEW f,
         \A j \in DOMAIN rest : f[j] \in DOMAIN ms /\ rest[j] = ms[f[j]],
         \A j, k \in DOMAIN rest : f[j] = f[k] => j = k
  PROVE  Fit(rest, count) /\ ToSet(rest) \subseteq ToSet(ms)
<1>1. UniqueKeys(rest)
  BY DEF Fit, UniqueKeys
<1>2. Covers(count, rest)
  <2> SUFFICES ASSUME NEW s \in Senders
               PROVE  Cardinality(Of(rest, s)) <= count[s]
    BY DEF Covers
  <2>1. ms \in Seq(Ops) /\ IsFiniteSet(Of(rest, s)) /\ Cardinality(Of(rest, s)) <= Cardinality(Of(ms, s))
    BY FewerRemain DEF Fit
  <2>2. Cardinality(Of(rest, s)) \in Nat /\ Cardinality(Of(ms, s)) \in Nat
    BY <2>1, OfFinite
  <2> QED BY <2>1, <2>2 DEF Fit, Covers
<1> QED BY <1>1, <1>2 DEF Fit, ToSet

\* removeUserOp takes out at most the entry with the key; the counter, which
\* the misplaced `?? 0 - 1` keeps as it is, still covers what is left.
LEMMA RemovesOne ==
  ASSUME NEW ms, NEW count, Fit(ms, count), NEW op \in Ops
  PROVE  \E rest : /\ removeOne([ms |-> ms, count |-> count], op) = [ms |-> rest, count |-> count]
                   /\ Fit(rest, count)
                   /\ ToSet(rest) \subseteq ToSet(ms)
<1> DEFINE state == [ms |-> ms, count |-> count]
           i == find(ms, op)
           rest == RemoveAt(ms, i)
<1>1. CASE i = 0
  <2>1. removeOne(state, op) = state
    BY <1>1 DEF removeOne
  <2> QED BY <2>1
<1>2. CASE i # 0
  <2>1. ms \in Seq(Ops) /\ i \in 1..Len(ms)
    BY <1>2, FindsKey DEF Fit
  <2>2. op.sender \in Senders /\ count \in [Senders -> Nat]
    BY DEF Fit, Senders
  <2>3. countAfterRemove(count[op.sender]) = count[op.sender]
    <3>1. count[op.sender] \in Nat
      BY <2>2
    <3> QED BY <3>1 DEF countAfterRemove
  <2>4. [count EXCEPT ![op.sender] = countAfterRemove(@)] = count
    BY <2>2, <2>3
  <2>5. removeOne(state, op) = [ms |-> rest, count |-> count]
    BY <1>2, <2>4 DEF removeOne, splice
  <2>6. /\ rest \in Seq(Ops)
        /\ Len(rest) = Len(ms) - 1
        /\ \A j \in 1..(Len(ms) - 1) : rest[j] = IF j < i THEN ms[j] ELSE ms[j + 1]
    BY <2>1, RemovesAt
  <2> HIDE DEF rest, i
  <2> DEFINE f == [j \in 1..(Len(ms) - 1) |-> IF j < i THEN j ELSE j + 1]
  <2>7. DOMAIN rest = 1..(Len(ms) - 1)
    BY <2>6
  <2>8. \A j \in DOMAIN rest : f[j] \in DOMAIN ms /\ rest[j] = ms[f[j]]
    BY <2>1, <2>6, <2>7
  <2>9. \A j, k \in DOMAIN rest : f[j] = f[k] => j = k
    BY <2>1, <2>7
  <2> HIDE DEF f
  <2>10. Fit(rest, count) /\ ToSet(rest) \subseteq ToSet(ms)
    BY <2>6, <2>8, <2>9, Drops
  <2> QED BY <2>5, <2>10
<1> QED BY <1>1, <1>2

\* The array and the counter after removeUserOp of one operation after another.
removeEach(base, ops) == FoldLeft(removeOne, base, ops)

\* removeAllUserOps of one operation.
LEMMA FoldsOne ==
  ASSUME NEW base, NEW op
  PROVE  removeEach(base, <<op>>) = removeOne(base, op)
<1> DEFINE Step(prev) == [s \in SUBSET {1} |->
             IF s = {} THEN base ELSE removeOne(prev[s \ {Max(s)}], <<op>>[Max(s)])]
           g == CHOOSE f : f = Step(f)
           h == [s \in SUBSET {1} |-> IF s = {} THEN base ELSE removeOne(base, op)]
<1>1. removeEach(base, <<op>>) = g[{1}]
  BY DEF removeEach, FoldLeft, MapThenFoldSet
<1>2. Max({1}) = 1
  BY DEF Max
<1>3. h = Step(h)
  <2>1. ASSUME NEW s \in SUBSET {1} PROVE h[s] = Step(h)[s]
    <3>1. CASE s = {}
      BY <3>1
    <3>2. CASE s = {1}
      BY <1>2, <3>2
    <3> QED BY <3>1, <3>2
  <2> QED BY <2>1
<1>4. g = Step(g)
  BY <1>3
<1> HIDE DEF g
<1>5. g[{}] = base
  BY <1>4
<1>6. g[{1}] = removeOne(g[{}], op)
  <2>1. {1} \ {1} = {} /\ {1} # {} /\ <<op>>[1] = op
    OBVIOUS
  <2> QED BY <1>2, <1>4, <2>1
<1> QED BY <1>1, <1>5, <1>6

\* removeAllUserOps of two operations removes the first, then the second.
LEMMA FoldsTwo ==
  ASSUME NEW base, NEW op1, NEW op2
  PROVE  removeEach(base, <<op1, op2>>) = removeOne(removeOne(base, op1), op2)
<1> DEFINE ops == <<op1, op2>>
           Step(prev) == [s \in SUBSET {1, 2} |->
             IF s = {} THEN base ELSE removeOne(prev[s \ {Max(s)}], ops[Max(s)])]
           g == CHOOSE f : f = Step(f)
           first == [s \in SUBSET {1, 2} |-> IF 1 \in s THEN removeOne(base, op1) ELSE base]
           h == [s \in SUBSET {1, 2} |-> IF 2 \in s THEN removeOne(first[s], op2) ELSE first[s]]
<1>1. removeEach(base, ops) = g[{1, 2}]
  BY DEF removeEach, FoldLeft, MapThenFoldSet
<1>2. Max({1}) = 1 /\ Max({2}) = 2 /\ Max({1, 2}) = 2
  BY DEF Max
<1>3. h = Step(h)
  <2>1. ASSUME NEW s \in SUBSET {1, 2} PROVE h[s] = Step(h)[s]
    <3>1. s = {} \/ s = {1} \/ s = {2} \/ s = {1, 2}
      OBVIOUS
    <3>2. CASE s = {}
      BY <3>2
    <3>3. CASE s = {1}
      BY <1>2, <3>3
    <3>4. CASE s = {2}
      BY <1>2, <3>4
    <3>5. CASE s = {1, 2}
      BY <1>2, <3>5
    <3> QED BY <3>1, <3>2, <3>3, <3>4, <3>5
  <2> QED BY <2>1
<1>4. g = Step(g)
  BY <1>3
<1> HIDE DEF g
<1>5. g[{}] = base
  BY <1>4
<1>6. g[{1}] = removeOne(g[{}], op1)
  <2>1. {1} \ {1} = {} /\ {1} # {} /\ ops[1] = op1 /\ {1} \in SUBSET {1, 2}
    OBVIOUS
  <2>2. g[{1}] = IF {1} = {} THEN base ELSE removeOne(g[{1} \ {Max({1})}], ops[Max({1})])
    BY <1>4, <2>1
  <2> HIDE DEF ops
  <2> QED BY <1>2, <2>1, <2>2
<1>7. g[{1, 2}] = removeOne(g[{1}], op2)
  <2>1. {1, 2} \ {2} = {1}
    OBVIOUS
  <2> QED BY <1>2, <1>4, <2>1
<1> QED BY <1>1, <1>5, <1>6, <1>7

\* removeAllUserOps of the operations of a bundle, or of one operation.
LEMMA RemovesAll ==
  ASSUME NEW ms, NEW count, Fit(ms, count),
         NEW ops, ops \in Bundles \/ \E op \in Ops : ops = <<op>>
  PROVE  \E rest : /\ removeEach([ms |-> ms, count |-> count], ops) = [ms |-> rest, count |-> count]
                   /\ Fit(rest, count)
                   /\ ToSet(rest) \subseteq ToSet(ms)
<1>1. CASE \E op \in Ops : ops = <<op>>
  <2>1. PICK op \in Ops : ops = <<op>>
    BY <1>1
  <2>2. removeEach([ms |-> ms, count |-> count], <<op>>) = removeOne([ms |-> ms, count |-> count], op)
    BY FoldsOne
  <2> QED BY <2>1, <2>2, RemovesOne
<1>2. CASE ops \in Bundles
  <2>1. ops[1] \in Ops /\ ops[2] \in Ops /\ ops = <<ops[1], ops[2]>>
    BY <1>2 DEF Bundles
  <2>2. PICK first : /\ removeOne([ms |-> ms, count |-> count], ops[1]) = [ms |-> first, count |-> count]
                     /\ Fit(first, count)
                     /\ ToSet(first) \subseteq ToSet(ms)
    BY <2>1, RemovesOne
  <2>3. PICK rest : /\ removeOne([ms |-> first, count |-> count], ops[2]) = [ms |-> rest, count |-> count]
                    /\ Fit(rest, count)
                    /\ ToSet(rest) \subseteq ToSet(first)
    BY <2>1, <2>2, RemovesOne
  <2>4. removeEach([ms |-> ms, count |-> count], <<ops[1], ops[2]>>)
          = removeOne(removeOne([ms |-> ms, count |-> count], ops[1]), ops[2])
    BY FoldsTwo
  <2> QED BY <2>1, <2>2, <2>3, <2>4
<1> QED BY <1>1, <1>2

\* Reporting an operation to the reputation table keeps the table one.
LEMMA SeenType ==
  ASSUME NEW es \in Rep!EntriesType, NEW op \in Ops
  PROVE  seenBy(es, op) \in Rep!EntriesType
<1>1. ASSUME NEW t \in Rep!EntriesType, NEW a \in Addrs \cup {NoAddr}
      PROVE  Rep!updateSeenStatus(t, a) \in Rep!EntriesType
  <2>1. CASE a = NoAddr
    BY <2>1 DEF Rep!updateSeenStatus
  <2>2. CASE a # NoAddr
    <3>1. a \in Addrs /\ Rep!getOrCreate(t, a) \in Rep!ReputationEntry
      BY <1>1, <2>2 DEF Rep!EntriesType, Rep!getOrCreate, Rep!ReputationEntry
    <3>2. [Rep!getOrCreate(t, a) EXCEPT !.opsSeen = @ + 1] \in Rep!ReputationEntry
      BY <3>1 DEF Rep!ReputationEntry
    <3> QED BY <1>1, <2>2, <3>1, <3>2 DEF Rep!updateSeenStatus, Rep!EntriesType
  <2> QED BY <2>1, <2>2
<1>2. op.paymaster \in Addrs \cup {NoAddr} /\ op.factory \in Addrs \cup {NoAddr}
  BY OpsAssumption
<1> QED BY <1>1, <1>2 DEF seenBy
-----------------------------------------------------------------------------
(* Every step *)

\* What a step does to the array and the counter.
LEMMA RemovalStep ==
  ASSUME IInv, NEW ops, ops \in Bundles \/ \E op \in Ops : ops = <<op>>, RemoveAllUserOps(ops)
  PROVE  /\ Fit(mempool', entryCount')
         /\ ToSet(mempool') \subseteq ToSet(mempool)
         /\ entries' = entries
<1>1. Fit(mempool, entryCount)
  BY DEF IInv
<1>2. PICK rest : /\ removeEach([ms |-> mempool, count |-> entryCount], ops)
                       = [ms |-> rest, count |-> entryCount]
                  /\ Fit(rest, entryCount)
                  /\ ToSet(rest) \subseteq ToSet(mempool)
  BY <1>1, RemovesAll
<1>3. mempool' = rest /\ entryCount' = entryCount /\ entries' = entries
  BY <1>2 DEF RemoveAllUserOps, removeEach
<1> QED BY <1>2, <1>3

\* Clearing the array leaves the counters as they were.
LEMMA ClearStep ==
  ASSUME IInv, ClearState
  PROVE  /\ Fit(mempool', entryCount')
         /\ ToSet(mempool') = {}
         /\ entries' = entries
<1>1. mempool' = <<>> /\ entryCount' = entryCount /\ entries' = entries
  BY DEF ClearState
<1>2. ASSUME NEW s \in Senders PROVE Cardinality(Of(<<>>, s)) <= entryCount[s]
  <2>1. Of(<<>>, s) = {}
    BY DEF Of
  <2>2. Cardinality(Of(<<>>, s)) = 0
    BY <2>1, FS_EmptySet
  <2>3. entryCount[s] \in Nat
    BY DEF IInv, Fit
  <2> QED BY <2>2, <2>3
<1>3. Fit(<<>>, entryCount)
  BY <1>2 DEF IInv, Fit, UniqueKeys, Covers
<1> QED BY <1>1, <1>3 DEF ToSet

\* The invariant: no key twice, and the counters cover the array.
THEOREM MempoolInvariant == Spec => []IInv
<1>1. Init => IInv
  <2> SUFFICES ASSUME Init PROVE IInv
    OBVIOUS
  <2>1. mempool = <<>> /\ entryCount = [s \in Senders |-> 0] /\ entries = Rep!NoEntries
    BY DEF Init
  <2>2. ASSUME NEW s \in Senders PROVE Cardinality(Of(<<>>, s)) <= entryCount[s]
    <3>1. Of(<<>>, s) = {}
      BY DEF Of
    <3> QED BY <2>1, <3>1, FS_EmptySet
  <2>3. Fit(mempool, entryCount)
    BY <2>1, <2>2 DEF Fit, UniqueKeys, Covers
  <2>4. entries \in Rep!EntriesType
    BY <2>1 DEF Rep!NoEntries, Rep!EntriesType
  <2> QED BY <2>3, <2>4 DEF IInv
<1>2. IInv /\ [Next]_vars => IInv'
  <2> SUFFICES ASSUME IInv, [Next]_vars
               PROVE  Fit(mempool', entryCount') /\ entries' \in Rep!EntriesType
    BY DEF IInv, Fit, UniqueKeys, Covers, Of, Pool!SameKey, Rep!EntriesType
  <2>1. ASSUME NEW op \in Ops, AddNew(op) PROVE Fit(mempool', entryCount') /\ entries' \in Rep!EntriesType
    BY <2>1, Adds, SeenType DEF AddNew, IInv
  <2>2. ASSUME NEW op \in Ops, Replace(op) PROVE Fit(mempool', entryCount') /\ entries' \in Rep!EntriesType
    BY <2>2, Replaces, SeenType DEF Replace, IInv
  <2>3. ASSUME NEW op \in Ops, RemoveUserOp(op) PROVE Fit(mempool', entryCount') /\ entries' \in Rep!EntriesType
    BY <2>3, RemovalStep DEF RemoveUserOp, IInv
  <2>4. ASSUME NEW ops \in Bundles, RemoveAllUserOps(ops) PROVE Fit(mempool', entryCount') /\ entries' \in Rep!EntriesType
    BY <2>4, RemovalStep DEF IInv
  <2>5. CASE ClearState
    BY <2>5, ClearStep DEF IInv
  <2>6. CASE UNCHANGED vars
    BY <2>6 DEF vars, IInv
  <2> QED BY <2>1, <2>2, <2>3, <2>4, <2>5, <2>6 DEF Next
<1> QED BY <1>1, <1>2, PTL DEF Spec

\* The array holds operations, the counters stay natural numbers through every
\* removal (removeUserOp, clearState), and the table stays a table.
THEOREM MempoolType == Spec => []TypeOK
<1>1. IInv => TypeOK
  BY DEF IInv, Fit, TypeOK
<1> QED BY <1>1, MempoolInvariant, PTL

\* No counter is ever below the number of entries its sender has waiting
\* (addUserOp counts every new entry, removeUserOp never counts one twice).
THEOREM CounterCovers == Spec => []CounterNeverUnderReports
<1>1. IInv => CounterNeverUnderReports
  BY DEF IInv, Fit, Covers, CounterNeverUnderReports, WaitingOf, Of
<1> QED BY <1>1, MempoolInvariant, PTL
-----------------------------------------------------------------------------
(* The pool *)

\* Adding keeps the keys of a pool unique (addUserOp).
LEMMA AddedUnique ==
  ASSUME NEW p, NEW op,
         \A op1, op2 \in p : Pool!SameKey(op1, op2) => op1 = op2
  PROVE  \A op1, op2 \in Pool!added(p, op) : Pool!SameKey(op1, op2) => op1 = op2
<1> SUFFICES ASSUME NEW op1 \in Pool!added(p, op), NEW op2 \in Pool!added(p, op), Pool!SameKey(op1, op2)
             PROVE  op1 = op2
    OBVIOUS
<1>1. CASE op1 = op \/ op2 = op
    BY <1>1 DEF Pool!added, Pool!SameKeyIn, Pool!SameKey
<1>2. CASE op1 # op /\ op2 # op
    BY <1>2 DEF Pool!added, Pool!SameKeyIn
<1> QED BY <1>1, <1>2

\* Whatever is added, replaced or dropped, no two operations of the abstract
\* pool have the same sender and nonce, and all of them were sent by clients.
THEOREM PoolKeysUnique == Pool!Spec => [](Pool!KeysUnique /\ Pool!TypeOK)
<1> DEFINE K == Pool!KeysUnique /\ Pool!TypeOK
<1>1. Pool!Init => K
    BY DEF Pool!Init, Pool!KeysUnique, Pool!TypeOK
<1>2. K /\ [Pool!Next]_(ToSet(mempool)) => K'
  <2> SUFFICES ASSUME K, [Pool!Next]_(ToSet(mempool))
               PROVE  K'
      OBVIOUS
  <2>1. ASSUME NEW op \in Ops, Pool!Add(op)
        PROVE  K'
      BY <2>1, AddedUnique DEF Pool!KeysUnique, Pool!TypeOK, Pool!Add, Pool!added
  <2>2. CASE Pool!Drop
      BY <2>2 DEF Pool!KeysUnique, Pool!TypeOK, Pool!Drop
  <2>3. CASE ToSet(mempool)' = ToSet(mempool)
      BY <2>3 DEF Pool!KeysUnique, Pool!TypeOK
  <2> QED BY <2>1, <2>2, <2>3 DEF Pool!Next
<1> QED BY <1>1, <1>2, PTL DEF Pool!Spec

\* Every step on the array is a step of the abstract pool or none: addUserOp
\* adds, or replaces by an operation whose fee is more than 10% higher; removals
\* and clearing only drop.
THEOREM MempoolImplementsPool == Spec => ImplementsPool
<1>1. Init => Pool!Init
  BY DEF Init, Pool!Init, ToSet
<1>2. IInv /\ [Next]_vars => [Pool!Next]_(ToSet(mempool))
  <2> SUFFICES ASSUME IInv, [Next]_vars
               PROVE  Pool!Next \/ ToSet(mempool') = ToSet(mempool)
    BY DEF ToSet
  <2>1. Fit(mempool, entryCount)
    BY DEF IInv
  <2>2. ASSUME NEW op \in Ops, AddNew(op) PROVE Pool!Next
    <3>1. /\ ToSet(mempool') = ToSet(mempool) \cup {op}
          /\ \A i \in DOMAIN mempool : ~ Pool!SameKey(mempool[i], op)
      BY <2>1, <2>2, Adds DEF AddNew
    <3>2. Pool!SameKeyIn(ToSet(mempool), op) = {}
      BY <3>1 DEF Pool!SameKeyIn, ToSet
    <3>3. Pool!accepts(ToSet(mempool), op) /\ ToSet(mempool') = Pool!added(ToSet(mempool), op)
      BY <3>1, <3>2 DEF Pool!accepts, Pool!added
    <3> QED BY <3>3 DEF Pool!Next, Pool!Add, ToSet
  <2>3. ASSUME NEW op \in Ops, Replace(op) PROVE Pool!Next
    <3> DEFINE old == mempool[find(mempool, op)]
    <3>1. /\ Pool!SameKeyIn(ToSet(mempool), op) = {old}
          /\ ToSet(mempool') = (ToSet(mempool) \ {old}) \cup {op}
      BY <2>1, <2>3, Replaces DEF Replace
    <3>2. Pool!mayReplace(old, op)
      BY <2>3 DEF Replace
    <3> HIDE DEF old
    <3>3. Pool!accepts(ToSet(mempool), op) /\ ToSet(mempool') = Pool!added(ToSet(mempool), op)
      BY <3>1, <3>2 DEF Pool!accepts, Pool!added
    <3> QED BY <3>3 DEF Pool!Next, Pool!Add, ToSet
  <2>4. ASSUME ToSet(mempool') \subseteq ToSet(mempool) PROVE Pool!Next
    <3> DEFINE gone == ToSet(mempool) \ ToSet(mempool')
    <3>1. gone \in SUBSET ToSet(mempool) /\ ToSet(mempool') = ToSet(mempool) \ gone
      BY <2>4
    <3> QED BY <3>1 DEF Pool!Next, Pool!Drop, ToSet
  <2>5. ASSUME NEW op \in Ops, RemoveUserOp(op) PROVE Pool!Next
    BY <2>4, <2>5, RemovalStep DEF RemoveUserOp
  <2>6. ASSUME NEW ops \in Bundles, RemoveAllUserOps(ops) PROVE Pool!Next
    BY <2>4, <2>6, RemovalStep
  <2>7. CASE ClearState
    BY <2>4, <2>7, ClearStep
  <2>8. CASE UNCHANGED vars
    BY <2>8 DEF vars
  <2> QED BY <2>2, <2>3, <2>5, <2>6, <2>7, <2>8 DEF Next
<1> QED BY <1>1, <1>2, MempoolInvariant, PTL DEF Spec, ImplementsPool, Pool!Spec

\* So the array never has a key twice either.
THEOREM MempoolKeysUnique == Spec => []Pool!KeysUnique
  BY MempoolImplementsPool, PoolKeysUnique, PTL DEF ImplementsPool
=============================================================================
