------------------------ MODULE ValidationManager_proofs ------------------------
(***************************************************************************)
(* The tracer and the scanner, for every operation, every stake and every  *)
(* sequence of steps of the entities' code, however long.                  *)
(*                                                                         *)
(* The tracer keeps counts, sets and the last opcode, and the rules speak  *)
(* of steps.  The invariant says what each thing collected is of the steps *)
(* so far: a count is the number of steps it stands for, with a GAS        *)
(* counted when the next step of its level, or the end of the level, shows *)
(* that it was not for a call; until then it waits as the last opcode.     *)
(***************************************************************************)
EXTENDS ValidationManager, TLAPS, FiniteSetTheorems

(* What the steps of a trace are *)

At(tr, n) == {i \in DOMAIN tr : tr[i].level = n}
Doing(tr, n, o) == {i \in At(tr, n) : tr[i].s.op = o}

\* The step after i, on the same level, is one that may use the gas.
Called(tr, i) ==
  i < Len(tr) /\ tr[i + 1].level = tr[i].level /\ tr[i + 1].s.op \in NamedCall

\* i is the last step so far, a GAS, and its level has not ended.
Waits(t, tr, i) ==
  i = Len(tr) /\ t.lastOp = "GAS" /\ tr[i].level = Len(t.numberLevels)

Counted(t, tr, n, o) ==
  {i \in Doing(tr, n, o) : o = "GAS" => ~ Called(tr, i) /\ ~ Waits(t, tr, i)}

Accessing(tr, n) == Doing(tr, n, "SLOAD") \cup Doing(tr, n, "SSTORE")
accessOf(s) == [addr |-> s.addr, slot |-> s.slot]

kept(len) == len > 20 /\ len < 512
Hashing(tr) == {i \in DOMAIN tr : tr[i].s.op = "KECCAK256" /\ kept(tr[i].s.len)}

Calling(tr) == {i \in DOMAIN tr : tr[i].s.op = "CALL"}
callOf(s) == [to |-> s.to, method |-> s.method, value |-> s.value, reverted |-> s.reverted]
-----------------------------------------------------------------------------
(* The invariant *)

Accesses == {accessOf(s) : s \in {s \in Steps : s.op \in {"SLOAD", "SSTORE"}}}
Hashes == {s.of : s \in {s \in Steps : s.op = "KECCAK256"}}
Calls == {callOf(s) : s \in {s \in Steps : s.op = "CALL"}}

LevelType == [opcodes : [Opcodes -> Nat], access : SUBSET Accesses, oog : BOOLEAN]

TracerType ==
  [numberLevels : Seq(LevelType), lastOp : Opcodes \cup Unimportant \cup {""},
   keccak : SUBSET Hashes, calls : SUBSET Calls]

TraceType == Seq([level : 1..3, s : Steps])

\* What the tracer has collected of a level is of the steps on that level.
LevelCollected(t, tr, n) ==
  LET l == t.numberLevels[n]
  IN  /\ \A o \in Opcodes \ {"STOP"} : l.opcodes[o] = Cardinality(Counted(t, tr, n, o))
      /\ l.access = {accessOf(tr[i].s) : i \in Accessing(tr, n)}
      /\ l.oog <=> \E i \in At(tr, n) : tr[i].s.oog

Collected(t, tr) ==
  /\ t \in TracerType /\ tr \in TraceType
  /\ \A i \in DOMAIN tr : tr[i].level <= Len(t.numberLevels)
  /\ \A n \in 1..Len(t.numberLevels) : LevelCollected(t, tr, n)
  /\ t.keccak = {tr[i].s.of : i \in Hashing(tr)}
  /\ t.calls = {callOf(tr[i].s) : i \in Calling(tr)}

\* The last opcode is that of the last step, if that is of the current level.
LastKnown(t, tr) ==
  t.lastOp = IF tr # <<>> /\ tr[Len(tr)].level = Len(t.numberLevels)
             THEN tr[Len(tr)].s.op ELSE ""

Shape ==
  /\ request \in Requests /\ stakes \in Stakes /\ result \in LikelyResults
  /\ phase \in {"received", "simulating", "done"}
  /\ Len(trace) <= MaxSteps
  /\ level \in 0..3

Begun ==
  /\ phase = "received" => tracer = noTrace /\ trace = <<>>
  /\ phase = "simulating" =>
       level # 0 /\ validateInputParameters(request) /\ LastKnown(tracer, trace)

ByEntities == \A i \in DOMAIN trace : hasEntity(Entities[trace[i].level])

IInv == Shape /\ Begun /\ ByEntities /\ Collected(tracer, trace) /\ ScannerFollowsRules
-----------------------------------------------------------------------------
(* Counting *)

\* The entities by level.
LEMMA EntitiesAre ==
  /\ Len(Entities) = 3 /\ DOMAIN Entities = 1..3
  /\ Entities[1] = "factory" /\ Entities[2] = "account" /\ Entities[3] = "paymaster"
  /\ ToSet(Entities) = {"factory", "account", "paymaster"}
<1>1. /\ Len(Entities) = 3 /\ DOMAIN Entities = 1..3
      /\ Entities[1] = "factory" /\ Entities[2] = "account" /\ Entities[3] = "paymaster"
  BY DEF Entities
<1>2. ToSet(Entities) = {Entities[i] : i \in 1..3}
  BY <1>1 DEF ToSet
<1>3. 1..3 = {1, 2, 3}
  OBVIOUS
<1> QED BY <1>1, <1>2, <1>3

\* A level of an entity is a number, and not zero.
LEMMA LevelNumber == ASSUME NEW n \in 1..3 PROVE n \in Nat \ {0}
  OBVIOUS

\* Each step of a trace is of an entity.
LEMMA StepOf ==
  ASSUME NEW tr \in TraceType, NEW i \in DOMAIN tr
  PROVE  tr[i].level \in 1..3 /\ tr[i].s \in Steps
<1> DEFINE S == [level : 1..3, s : Steps]
<1>1. tr \in Seq(S)
  BY DEF TraceType
<1>2. tr[i] \in S
  <2> HIDE DEF S
  <2> QED BY <1>1
<1> QED BY <1>2

\* What a step adds to the counts of its level (countGas, countOp).
countsAfter(t, c, op) == countOp(countGas(t, c, op), op)

LEMMA Counts ==
  ASSUME NEW t, NEW c \in [Opcodes -> Nat], NEW op \in Opcodes \cup Unimportant
  PROVE  /\ countsAfter(t, c, op) \in [Opcodes -> Nat]
         /\ countsAfter(t, c, op)["GAS"] =
              IF t.lastOp = "GAS" /\ op \notin NamedCall THEN c["GAS"] + 1 ELSE c["GAS"]
<1> DEFINE b == countGas(t, c, op)
<1>1. "GAS" \in Opcodes /\ Unimportant = {"PUSH1"} /\ "PUSH1" \notin Opcodes
  BY DEF Opcodes, NamedCall, Unimportant
<1>2. /\ b \in [Opcodes -> Nat]
      /\ b["GAS"] = IF t.lastOp = "GAS" /\ op \notin NamedCall THEN c["GAS"] + 1 ELSE c["GAS"]
  BY <1>1 DEF countGas, countSlot
<1> HIDE DEF b
<1>3. countOp(b, op) \in [Opcodes -> Nat] /\ countOp(b, op)["GAS"] = b["GAS"]
  <2>1. CASE op \in {"GAS"} \cup Unimportant
    BY <1>1, <1>2, <2>1 DEF countOp
  <2>2. CASE op \notin {"GAS"} \cup Unimportant
    BY <1>1, <1>2, <2>2 DEF countOp, countSlot
  <2> QED BY <2>1, <2>2
<1> QED BY <1>2, <1>3 DEF b, countsAfter

LEMMA CountsOther ==
  ASSUME NEW t, NEW c \in [Opcodes -> Nat], NEW op \in Opcodes \cup Unimportant,
         NEW o \in Opcodes, o # "GAS"
  PROVE  countsAfter(t, c, op)[o] = IF o = op THEN c[o] + 1 ELSE c[o]
<1> DEFINE b == countGas(t, c, op)
<1>1. "GAS" \in Opcodes /\ Unimportant = {"PUSH1"} /\ "PUSH1" \notin Opcodes
  BY DEF Opcodes, NamedCall, Unimportant
<1>2. b \in [Opcodes -> Nat] /\ b[o] = c[o]
  BY <1>1 DEF countGas, countSlot
<1> HIDE DEF b
<1>3. countOp(b, op)[o] = IF o = op THEN b[o] + 1 ELSE b[o]
  <2>1. CASE op \in {"GAS"} \cup Unimportant
    BY <1>1, <1>2, <2>1 DEF countOp
  <2>2. CASE op \notin {"GAS"} \cup Unimportant
    BY <1>1, <1>2, <2>2 DEF countOp, countSlot
  <2> QED BY <2>1, <2>2
<1> QED BY <1>2, <1>3 DEF b, countsAfter

\* The steps that are counted are finitely many.
LEMMA CountedFinite ==
  ASSUME NEW t, NEW tr \in TraceType, NEW n, NEW o
  PROVE  /\ IsFiniteSet(Doing(tr, n, o)) /\ Cardinality(Doing(tr, n, o)) \in Nat
         /\ IsFiniteSet(Counted(t, tr, n, o)) /\ Cardinality(Counted(t, tr, n, o)) \in Nat
         /\ Cardinality(Counted(t, tr, n, o)) <= Cardinality(Doing(tr, n, o))
<1>1. IsFiniteSet(1..Len(tr))
  <2>1. Len(tr) \in Int
    BY DEF TraceType
  <2> QED BY <2>1, FS_Interval
<1>2. Doing(tr, n, o) \subseteq 1..Len(tr) /\ Counted(t, tr, n, o) \subseteq Doing(tr, n, o)
  BY DEF Doing, At, Counted, TraceType
<1>3. IsFiniteSet(Doing(tr, n, o))
  BY <1>1, <1>2, FS_Subset
<1>4. IsFiniteSet(Counted(t, tr, n, o)) /\ Cardinality(Counted(t, tr, n, o)) <= Cardinality(Doing(tr, n, o))
  BY <1>2, <1>3, FS_Subset
<1> QED BY <1>3, <1>4, FS_CardinalityType

\* From t and tr to u and more by the step s on level lv.
Taken(t, tr, lv, s, u, more) ==
  /\ tr \in TraceType /\ LastKnown(t, tr)
  /\ Len(t.numberLevels) = lv /\ Len(u.numberLevels) = lv /\ u.lastOp = s.op
  /\ Len(more) = Len(tr) + 1 /\ DOMAIN more = 1..(Len(tr) + 1)
  /\ \A i \in 1..Len(tr) : more[i] = tr[i]
  /\ more[Len(tr) + 1].level = lv /\ more[Len(tr) + 1].s = s

\* Only the waiting GAS is not counted at once; the next step decides.
CountsStep(t, tr, lv, s, u, more, n, o) ==
  /\ n # lv => Counted(u, more, n, o) = Counted(t, tr, n, o)
  /\ o # "GAS" =>
       Counted(u, more, lv, o) = Counted(t, tr, lv, o) \cup (IF s.op = o THEN {Len(tr) + 1} ELSE {})
  /\ Counted(u, more, lv, "GAS") = Counted(t, tr, lv, "GAS") \cup
       (IF t.lastOp = "GAS" /\ s.op \notin NamedCall THEN {Len(tr)} ELSE {})
  /\ Len(tr) + 1 \notin Counted(t, tr, lv, o)
  /\ Len(tr) \notin Counted(t, tr, lv, "GAS")

LEMMA StepCounted ==
  ASSUME NEW t, NEW tr, NEW lv, NEW s \in Steps, NEW u, NEW more, Taken(t, tr, lv, s, u, more),
         NEW n, NEW o
  PROVE  CountsStep(t, tr, lv, s, u, more, n, o)
<1> DEFINE last == Len(tr)
<1> USE DEF Taken
<1>1. last \in Nat /\ Len(tr) = last /\ DOMAIN tr = 1..last
  BY DEF TraceType
<1>2. /\ Len(more) = last + 1 /\ DOMAIN more = 1..(last + 1)
      /\ \A i \in 1..last : more[i] = tr[i]
      /\ more[last + 1].level = lv /\ more[last + 1].s = s
  OBVIOUS
<1> HIDE DEF Taken
<1>3. t.lastOp = "GAS" <=> last # 0 /\ tr[last].level = lv /\ tr[last].s.op = "GAS"
  <2>1. tr # <<>> <=> last # 0
    BY DEF TraceType
  <2> QED BY <2>1 DEF LastKnown, Taken
<1> HIDE DEF last
<1>4. \A i \in 1..last : Called(more, i) <=> IF i = last THEN tr[i].level = lv /\ s.op \in NamedCall ELSE Called(tr, i)
  <2> SUFFICES ASSUME NEW i \in 1..last
               PROVE  Called(more, i) <=> IF i = last THEN tr[i].level = lv /\ s.op \in NamedCall ELSE Called(tr, i)
    OBVIOUS
  <2>1. CASE i = last
    BY <1>1, <1>2, <2>1 DEF Called
  <2>2. CASE i # last
    <3>1. i + 1 \in 1..last /\ more[i] = tr[i] /\ more[i + 1] = tr[i + 1] /\ i < Len(tr) /\ i < Len(more)
      BY <1>1, <1>2, <2>2
    <3> QED BY <2>2, <3>1 DEF Called
  <2> QED BY <2>1, <2>2
<1>5. ~ Called(more, last + 1) /\ ~ Called(tr, last)
  BY <1>1, <1>2 DEF Called, last
<1>6. /\ \A i \in 1..last : ~ Waits(u, more, i)
      /\ Waits(u, more, last + 1) <=> s.op = "GAS"
      /\ \A i \in 1..last : Waits(t, tr, i) <=> i = last /\ t.lastOp = "GAS"
  <2>1. \A i \in 1..last : ~ Waits(u, more, i)
    BY <1>1, <1>2 DEF Waits, Taken
  <2>2. Waits(u, more, last + 1) <=> s.op = "GAS"
    BY <1>2 DEF Waits, Taken
  <2>3. \A i \in 1..last : Waits(t, tr, i) <=> i = last /\ t.lastOp = "GAS"
    BY <1>3 DEF Waits, last, Taken
  <2> QED BY <2>1, <2>2, <2>3
<1>7. \A m, a : Doing(more, m, a) = Doing(tr, m, a) \cup (IF m = lv /\ s.op = a THEN {last + 1} ELSE {})
  BY <1>1, <1>2 DEF Doing, At
<1>8. \A m, a : Doing(tr, m, a) = {i \in 1..last : tr[i].level = m /\ tr[i].s.op = a}
  BY <1>1 DEF Doing, At
<1>9. n # lv => Counted(u, more, n, o) = Counted(t, tr, n, o)
  BY <1>1, <1>3, <1>4, <1>5, <1>6, <1>7, <1>8 DEF Counted
<1>10. o # "GAS" => Counted(u, more, lv, o) = Counted(t, tr, lv, o) \cup (IF s.op = o THEN {last + 1} ELSE {})
  BY <1>7 DEF Counted
<1>11. Counted(u, more, lv, "GAS") = Counted(t, tr, lv, "GAS") \cup
         (IF t.lastOp = "GAS" /\ s.op \notin NamedCall THEN {last} ELSE {})
  BY <1>1, <1>3, <1>4, <1>5, <1>6, <1>7, <1>8 DEF Counted
<1>12. last + 1 \notin Counted(t, tr, lv, o)
  BY <1>1, <1>8 DEF Counted
<1>13. last \notin Counted(t, tr, lv, "GAS")
  BY <1>3, <1>6, <1>8 DEF Counted
<1> QED BY <1>9, <1>10, <1>11, <1>12, <1>13 DEF last, CountsStep

\* At the end of a level a waiting GAS is counted.
CountsStop(t, tr, lv, u, n, o) ==
  /\ n # lv \/ o # "GAS" => Counted(u, tr, n, o) = Counted(t, tr, n, o)
  /\ Counted(u, tr, lv, "GAS") =
       Counted(t, tr, lv, "GAS") \cup (IF t.lastOp = "GAS" THEN {Len(tr)} ELSE {})
  /\ Len(tr) \notin Counted(t, tr, lv, "GAS")

LEMMA StopCounted ==
  ASSUME NEW t, NEW tr \in TraceType, NEW lv, lv = Len(t.numberLevels), LastKnown(t, tr),
         NEW u, u.lastOp # "GAS", NEW n, NEW o
  PROVE  CountsStop(t, tr, lv, u, n, o)
<1> DEFINE last == Len(tr)
<1>1. last \in Nat /\ Len(tr) = last /\ DOMAIN tr = 1..last
  BY DEF TraceType
<1>2. t.lastOp = "GAS" <=> last # 0 /\ tr[last].level = lv /\ tr[last].s.op = "GAS"
  <2>1. tr # <<>> <=> last # 0
    BY DEF TraceType
  <2> QED BY <2>1 DEF LastKnown
<1>3. /\ \A i \in 1..last : ~ Waits(u, tr, i)
      /\ \A i \in 1..last : Waits(t, tr, i) => i = last /\ t.lastOp = "GAS"
      /\ t.lastOp = "GAS" => Waits(t, tr, last)
  BY <1>1, <1>2 DEF Waits
<1>4. ~ Called(tr, last)
  BY <1>1 DEF Called
<1>5. \A m, a : Doing(tr, m, a) = {i \in 1..last : tr[i].level = m /\ tr[i].s.op = a}
  BY <1>1 DEF Doing, At
<1> HIDE DEF last
<1>6. n # lv \/ o # "GAS" => Counted(u, tr, n, o) = Counted(t, tr, n, o)
  <2>1. CASE o # "GAS"
    BY <2>1 DEF Counted
  <2>2. CASE n # lv
    <3>1. ASSUME NEW i \in Doing(tr, n, o) PROVE ~ Waits(u, tr, i) /\ ~ Waits(t, tr, i)
      <4>1. i \in 1..last /\ tr[i].level = n
        BY <1>5
      <4>2. ~ (i = last /\ t.lastOp = "GAS")
        BY <1>2, <2>2, <4>1
      <4> QED BY <1>3, <4>1, <4>2
    <3> QED BY <3>1 DEF Counted
  <2> QED BY <2>1, <2>2
<1>7. Counted(u, tr, lv, "GAS") = Counted(t, tr, lv, "GAS") \cup (IF t.lastOp = "GAS" THEN {last} ELSE {})
  <2>1. \A i \in Doing(tr, lv, "GAS") :
          /\ ~ Waits(u, tr, i)
          /\ Waits(t, tr, i) => i = last /\ t.lastOp = "GAS"
    <3>1. Doing(tr, lv, "GAS") \subseteq 1..last
      BY <1>5
    <3> QED BY <1>3, <3>1
  <2>2. t.lastOp = "GAS" => last \in Doing(tr, lv, "GAS")
    BY <1>1, <1>2, <1>5
  <2> QED BY <1>3, <1>4, <2>1, <2>2 DEF Counted
<1>8. last \notin Counted(t, tr, lv, "GAS")
  BY <1>2, <1>3, <1>5 DEF Counted
<1> QED BY <1>6, <1>7, <1>8 DEF last, CountsStop
-----------------------------------------------------------------------------
(* What each step collects *)

\* A record is what its fields are.
LEMMA RecordIs ==
  ASSUME NEW A, NEW B, NEW C, NEW D, NEW t \in [numberLevels : A, lastOp : B, keccak : C, calls : D]
  PROVE  t = [numberLevels |-> t.numberLevels, lastOp |-> t.lastOp, keccak |-> t.keccak, calls |-> t.calls]
  OBVIOUS

\* What the tracer holds after a step, part by part.
levelAfter(t, s, lv) ==
  LET l == t.numberLevels[lv]
  IN  [opcodes |-> countsAfter(t, l.opcodes, s.op),
       access  |-> l.access \cup (IF s.op \in {"SLOAD", "SSTORE"} THEN {accessOf(s)} ELSE {}),
       oog     |-> l.oog \/ s.oog]

levelsAfter(t, s, lv) == [t.numberLevels EXCEPT ![lv] = levelAfter(t, s, lv)]

keccakAfter(t, s) ==
  t.keccak \cup (IF s.op = "KECCAK256" /\ kept(s.len) THEN {s.of} ELSE {})

callsAfter(t, s) == t.calls \cup (IF s.op = "CALL" THEN {callOf(s)} ELSE {})

\* A step changes the tracer part by part.
LEMMA InsideIs ==
  ASSUME NEW t \in TracerType, NEW s, NEW lv \in Nat \ {0}, lv = Len(t.numberLevels)
  PROVE  stepInside(t, s) = [numberLevels |-> levelsAfter(t, s, lv), lastOp |-> s.op,
                             keccak |-> keccakAfter(t, s), calls |-> callsAfter(t, s)]
<1>1. t = [numberLevels |-> t.numberLevels, lastOp |-> t.lastOp, keccak |-> t.keccak, calls |-> t.calls]
  BY RecordIs DEF TracerType
<1>2. stepInside(t, s) = [t EXCEPT !.lastOp = s.op, !.numberLevels = levelsAfter(t, s, lv),
                                   !.keccak = keccakAfter(t, s), !.calls = callsAfter(t, s)]
  BY DEF stepInside, levelsAfter, levelAfter, countsAfter, keccakAfter, callsAfter, accessOf, callOf, kept
<1> QED BY <1>1, <1>2

\* Only the current level changes.
LEMMA LevelsAfter ==
  ASSUME NEW t \in TracerType, NEW s, NEW lv \in Nat \ {0}, lv = Len(t.numberLevels)
  PROVE  /\ DOMAIN levelsAfter(t, s, lv) = 1..lv /\ Len(levelsAfter(t, s, lv)) = lv
         /\ levelsAfter(t, s, lv)[lv] = levelAfter(t, s, lv)
         /\ \A n \in 1..lv : n # lv => levelsAfter(t, s, lv)[n] = t.numberLevels[n]
         /\ levelAfter(t, s, lv) \in LevelType => levelsAfter(t, s, lv) \in Seq(LevelType)
<1> DEFINE f == t.numberLevels
           k == levelAfter(t, s, lv)
           T == LevelType \cup {k}
<1>1. f \in Seq(LevelType) /\ f \in Seq(T) /\ lv = Len(f)
  <2>1. f \in Seq(LevelType)
    BY DEF TracerType
  <2> HIDE DEF f, k
  <2> QED BY <2>1 DEF f
<1> HIDE DEF f, k
<1>2. DOMAIN f = 1..lv
  BY <1>1
<1>3. [f EXCEPT ![lv] = k] \in Seq(T)
  <2>1. k \in T
    OBVIOUS
  <2> HIDE DEF T
  <2> QED BY <1>1, <2>1
<1>4. Len([f EXCEPT ![lv] = k]) = lv
  BY <1>1
<1>5. /\ DOMAIN [f EXCEPT ![lv] = k] = 1..lv
      /\ [f EXCEPT ![lv] = k][lv] = k
      /\ \A n \in 1..lv : n # lv => [f EXCEPT ![lv] = k][n] = f[n]
  BY <1>2
<1>6. k \in LevelType => [f EXCEPT ![lv] = k] \in Seq(LevelType)
  BY <1>1
<1> QED BY <1>4, <1>5, <1>6 DEF f, k, levelsAfter

\* What is collected has its types when what the step does has.
LEMMA InsideType ==
  ASSUME NEW t \in TracerType, NEW lv \in Nat \ {0}, lv = Len(t.numberLevels), NEW s,
         s.op \in Opcodes \cup Unimportant, s.oog \in BOOLEAN,
         s.op \in {"SLOAD", "SSTORE"} => accessOf(s) \in Accesses,
         s.op = "KECCAK256" => s.of \in Hashes,
         s.op = "CALL" => callOf(s) \in Calls
  PROVE  stepInside(t, s) \in TracerType
<1> DEFINE l == t.numberLevels[lv]
<1>1. l \in LevelType
  <2>1. t.numberLevels \in Seq(LevelType)
    BY DEF TracerType
  <2> QED BY <2>1
<1> HIDE DEF l
<1>2. l.opcodes \in [Opcodes -> Nat] /\ l.access \in SUBSET Accesses /\ l.oog \in BOOLEAN
  BY <1>1 DEF LevelType
<1>3. countsAfter(t, l.opcodes, s.op) \in [Opcodes -> Nat]
  BY <1>2, Counts
<1>4. levelAfter(t, s, lv) \in LevelType
  BY <1>2, <1>3 DEF LevelType, levelAfter, l
<1>5. levelsAfter(t, s, lv) \in Seq(LevelType)
  BY <1>4, LevelsAfter
<1>6. keccakAfter(t, s) \in SUBSET Hashes /\ callsAfter(t, s) \in SUBSET Calls
  BY DEF TracerType, keccakAfter, callsAfter
<1>7. s.op \in Opcodes \cup Unimportant \cup {""}
  OBVIOUS
<1>8. stepInside(t, s) = [numberLevels |-> levelsAfter(t, s, lv), lastOp |-> s.op,
                          keccak |-> keccakAfter(t, s), calls |-> callsAfter(t, s)]
  BY InsideIs
<1>9. [numberLevels |-> levelsAfter(t, s, lv), lastOp |-> s.op,
       keccak |-> keccakAfter(t, s), calls |-> callsAfter(t, s)] \in TracerType
  BY <1>5, <1>6, <1>7 DEF TracerType
<1> QED BY <1>8, <1>9

\* A step of an entity is collected on the current level.
LEMMA InsideCollects ==
  ASSUME NEW t, NEW tr, Collected(t, tr), LastKnown(t, tr),
         NEW lv \in 1..3, lv = Len(t.numberLevels), NEW s \in Steps
  PROVE  /\ Collected(stepInside(t, s), Append(tr, [level |-> lv, s |-> s]))
         /\ LastKnown(stepInside(t, s), Append(tr, [level |-> lv, s |-> s]))
         /\ Len(stepInside(t, s).numberLevels) = lv
<1> DEFINE u == stepInside(t, s)
           more == Append(tr, [level |-> lv, s |-> s])
           last == Len(tr)
<1>1. t \in TracerType /\ tr \in TraceType /\ lv \in Nat \ {0}
  BY LevelNumber DEF Collected
<1>2. s.op \in Opcodes \cup Unimportant /\ s.oog \in BOOLEAN
  BY StepsAssumption
<1>3. /\ s.op \in {"SLOAD", "SSTORE"} => accessOf(s) \in Accesses
      /\ s.op = "KECCAK256" => s.of \in Hashes
      /\ s.op = "CALL" => callOf(s) \in Calls
  BY DEF Accesses, Hashes, Calls
<1>4. u \in TracerType
  BY <1>1, <1>2, <1>3, InsideType
<1>5. /\ u.numberLevels = levelsAfter(t, s, lv) /\ u.lastOp = s.op
      /\ u.keccak = keccakAfter(t, s) /\ u.calls = callsAfter(t, s)
  <2>1. u = [numberLevels |-> levelsAfter(t, s, lv), lastOp |-> s.op,
             keccak |-> keccakAfter(t, s), calls |-> callsAfter(t, s)]
    BY <1>1, InsideIs
  <2> HIDE DEF u
  <2> QED BY <2>1
<1>6. /\ Len(u.numberLevels) = lv
      /\ u.numberLevels[lv] = levelAfter(t, s, lv)
      /\ \A n \in 1..lv : n # lv => u.numberLevels[n] = t.numberLevels[n]
  BY <1>1, <1>5, LevelsAfter
<1>7. last \in Nat /\ Len(tr) = last /\ DOMAIN tr = 1..last
  BY <1>1 DEF TraceType
<1>8. /\ more \in TraceType
      /\ Len(more) = last + 1 /\ DOMAIN more = 1..(last + 1)
      /\ \A i \in 1..last : more[i] = tr[i]
      /\ more[last + 1] = [level |-> lv, s |-> s]
  BY <1>1 DEF TraceType
<1>9. more[last + 1].level = lv /\ more[last + 1].s = s
  BY <1>8
<1> HIDE DEF u, more, last
<1>10. \A m, a : Doing(more, m, a) = Doing(tr, m, a) \cup (IF m = lv /\ s.op = a THEN {last + 1} ELSE {})
  BY <1>7, <1>8, <1>9 DEF Doing, At
<1>11. \A n, o : CountsStep(t, tr, lv, s, u, more, n, o)
  <2>1. Taken(t, tr, lv, s, u, more)
    BY <1>1, <1>5, <1>6, <1>8, <1>9 DEF Taken, last
  <2> QED BY <2>1, StepCounted
<1>12. ASSUME NEW o
       PROVE  /\ \A n : n # lv => Counted(u, more, n, o) = Counted(t, tr, n, o)
              /\ o # "GAS" => Counted(u, more, lv, o) =
                   Counted(t, tr, lv, o) \cup (IF s.op = o THEN {last + 1} ELSE {})
              /\ last + 1 \notin Counted(t, tr, lv, o)
  BY <1>11 DEF CountsStep, last
<1>13. /\ Counted(u, more, lv, "GAS") = Counted(t, tr, lv, "GAS") \cup
            (IF t.lastOp = "GAS" /\ s.op \notin NamedCall THEN {last} ELSE {})
       /\ last \notin Counted(t, tr, lv, "GAS")
  <2>1. CountsStep(t, tr, lv, s, u, more, lv, "GAS")
    BY <1>11
  <2> QED BY <2>1 DEF CountsStep, last
<1>14. ASSUME NEW n \in 1..lv PROVE LevelCollected(u, more, n)
  <2> DEFINE l == t.numberLevels[n]
             k == u.numberLevels[n]
  <2>1. /\ \A o \in Opcodes \ {"STOP"} : l.opcodes[o] = Cardinality(Counted(t, tr, n, o))
        /\ l.access = {accessOf(tr[i].s) : i \in Accessing(tr, n)}
        /\ l.oog <=> \E i \in At(tr, n) : tr[i].s.oog
    BY DEF Collected, LevelCollected
  <2>3. \A o : /\ IsFiniteSet(Counted(t, tr, n, o)) /\ Cardinality(Counted(t, tr, n, o)) \in Nat
    BY <1>1, CountedFinite
  <2>4. Accessing(tr, n) \subseteq 1..last /\ At(tr, n) \subseteq 1..last
    BY <1>7 DEF Accessing, Doing, At
  <2>5. CASE n # lv
    <3>1. k = l
      BY <1>6, <2>5
    <3>2. \A o : Counted(u, more, n, o) = Counted(t, tr, n, o)
      BY <1>12, <2>5
    <3>3. Accessing(more, n) = Accessing(tr, n) /\ At(more, n) = At(tr, n)
      BY <1>7, <1>8, <1>9, <1>10, <2>5 DEF Accessing, At
    <3> HIDE DEF k, l
    <3>4. /\ \A o \in Opcodes \ {"STOP"} : k.opcodes[o] = Cardinality(Counted(u, more, n, o))
          /\ k.access = {accessOf(more[i].s) : i \in Accessing(more, n)}
          /\ k.oog <=> \E i \in At(more, n) : more[i].s.oog
      BY <1>8, <2>1, <2>4, <3>1, <3>2, <3>3
    <3> QED BY <3>4 DEF LevelCollected, k
  <2>6. CASE n = lv
    <3>1. k = levelAfter(t, s, lv)
      BY <1>6, <2>6
    <3>2. /\ k.opcodes = countsAfter(t, l.opcodes, s.op)
          /\ k.access = l.access \cup (IF s.op \in {"SLOAD", "SSTORE"} THEN {accessOf(s)} ELSE {})
          /\ k.oog = (l.oog \/ s.oog)
      BY <2>6, <3>1 DEF levelAfter
    <3>3. l.opcodes \in [Opcodes -> Nat]
      <4>1. t.numberLevels \in Seq(LevelType)
        BY <1>1 DEF TracerType
      <4>2. l \in LevelType
        BY <1>1, <2>6, <4>1
      <4> HIDE DEF l
      <4> QED BY <4>2 DEF LevelType
    <3> HIDE DEF k, l
    <3>4. /\ \A o \in Opcodes \ {"GAS"} : k.opcodes[o] = IF o = s.op THEN l.opcodes[o] + 1 ELSE l.opcodes[o]
          /\ k.opcodes["GAS"] = IF t.lastOp = "GAS" /\ s.op \notin NamedCall THEN l.opcodes["GAS"] + 1
                                ELSE l.opcodes["GAS"]
      <4> DEFINE c == countsAfter(t, l.opcodes, s.op)
      <4>1. /\ \A o \in Opcodes \ {"GAS"} : c[o] = IF o = s.op THEN l.opcodes[o] + 1 ELSE l.opcodes[o]
            /\ c["GAS"] = IF t.lastOp = "GAS" /\ s.op \notin NamedCall THEN l.opcodes["GAS"] + 1
                          ELSE l.opcodes["GAS"]
        <5>1. s.op \in Opcodes \cup Unimportant /\ l.opcodes \in [Opcodes -> Nat]
          BY <1>2, <3>3
        <5>2. c["GAS"] = IF t.lastOp = "GAS" /\ s.op \notin NamedCall THEN l.opcodes["GAS"] + 1
                          ELSE l.opcodes["GAS"]
          BY <5>1, Counts
        <5>3. ASSUME NEW o \in Opcodes, o # "GAS" PROVE c[o] = IF o = s.op THEN l.opcodes[o] + 1 ELSE l.opcodes[o]
          BY <5>1, <5>3, CountsOther
        <5> QED BY <5>2, <5>3
      <4> QED BY <3>2, <4>1
    <3>5. ASSUME NEW o \in Opcodes \ {"STOP"} PROVE k.opcodes[o] = Cardinality(Counted(u, more, n, o))
      <4>1. IsFiniteSet(Counted(t, tr, n, o)) /\ l.opcodes[o] = Cardinality(Counted(t, tr, n, o))
        BY <2>1, <2>3
      <4>2. CASE o # "GAS"
        <5>1. Counted(u, more, n, o) = Counted(t, tr, n, o) \cup (IF s.op = o THEN {last + 1} ELSE {})
              /\ last + 1 \notin Counted(t, tr, n, o)
          BY <1>12, <2>6, <4>2
        <5>2. CASE s.op = o
          <6>1. Cardinality(Counted(t, tr, n, o) \cup {last + 1}) = Cardinality(Counted(t, tr, n, o)) + 1
            BY <4>1, <5>1, FS_AddElement
          <6>2. k.opcodes[o] = l.opcodes[o] + 1
            BY <3>4, <4>2, <5>2
          <6> QED BY <4>1, <5>1, <5>2, <6>1, <6>2
        <5>3. CASE s.op # o
          BY <3>4, <4>1, <4>2, <5>1, <5>3
        <5> QED BY <5>2, <5>3
      <4>3. CASE o = "GAS"
        <5> DEFINE wasted == t.lastOp = "GAS" /\ s.op \notin NamedCall
        <5>1. Counted(u, more, n, o) = Counted(t, tr, n, o) \cup (IF wasted THEN {last} ELSE {})
              /\ last \notin Counted(t, tr, n, o)
          BY <1>13, <2>6, <4>3
        <5>2. CASE wasted
          <6>1. Cardinality(Counted(t, tr, n, o) \cup {last}) = Cardinality(Counted(t, tr, n, o)) + 1
            BY <4>1, <5>1, FS_AddElement
          <6>2. k.opcodes[o] = l.opcodes[o] + 1
            BY <3>4, <4>3, <5>2
          <6> QED BY <4>1, <5>1, <5>2, <6>1, <6>2
        <5>3. CASE ~ wasted
          BY <3>4, <4>1, <4>3, <5>1, <5>3
        <5> QED BY <5>2, <5>3
      <4> QED BY <4>2, <4>3
    <3>6. k.access = {accessOf(more[i].s) : i \in Accessing(more, n)}
      <4>1. Accessing(more, n) = Accessing(tr, n) \cup (IF s.op \in {"SLOAD", "SSTORE"} THEN {last + 1} ELSE {})
        BY <1>10, <2>6 DEF Accessing
      <4> QED BY <1>8, <1>9, <2>1, <2>4, <3>2, <4>1
    <3>7. k.oog <=> \E i \in At(more, n) : more[i].s.oog
      <4>1. At(more, n) = At(tr, n) \cup {last + 1}
        BY <1>7, <1>8, <1>9, <2>6 DEF At
      <4> QED BY <1>8, <1>9, <2>1, <2>4, <3>2, <4>1
    <3> QED BY <3>5, <3>6, <3>7 DEF LevelCollected, k
  <2> QED BY <2>5, <2>6
<1>15. \A i \in DOMAIN more : more[i].level <= lv
  BY <1>7, <1>8, <1>9 DEF Collected
<1>16. u.keccak = {more[i].s.of : i \in Hashing(more)}
  <2>1. Hashing(more) = Hashing(tr) \cup (IF s.op = "KECCAK256" /\ kept(s.len) THEN {last + 1} ELSE {})
    BY <1>7, <1>8, <1>9 DEF Hashing
  <2>2. Hashing(tr) \subseteq 1..last /\ t.keccak = {tr[i].s.of : i \in Hashing(tr)}
    BY <1>7 DEF Hashing, Collected
  <2> QED BY <1>5, <1>8, <1>9, <2>1, <2>2 DEF keccakAfter
<1>17. u.calls = {callOf(more[i].s) : i \in Calling(more)}
  <2>1. Calling(more) = Calling(tr) \cup (IF s.op = "CALL" THEN {last + 1} ELSE {})
    BY <1>7, <1>8, <1>9 DEF Calling
  <2>2. Calling(tr) \subseteq 1..last /\ t.calls = {callOf(tr[i].s) : i \in Calling(tr)}
    BY <1>7 DEF Calling, Collected
  <2> QED BY <1>5, <1>8, <1>9, <2>1, <2>2 DEF callsAfter
<1>18. Collected(u, more)
  BY <1>4, <1>6, <1>8, <1>14, <1>15, <1>16, <1>17 DEF Collected
<1>19. LastKnown(u, more)
  <2>1. more # <<>> /\ more[Len(more)].level = lv
    BY <1>7, <1>8, <1>9
  <2> QED BY <1>5, <1>6, <1>8, <1>9, <2>1 DEF LastKnown
<1> QED BY <1>6, <1>18, <1>19 DEF u, more

\* The end of an entity's code is no step of it, and settles a waiting GAS.
LEMMA StopCollects ==
  ASSUME NEW t, NEW tr, Collected(t, tr), LastKnown(t, tr),
         NEW lv \in 1..3, lv = Len(t.numberLevels)
  PROVE  /\ Collected(stepInside(t, Stop), tr)
         /\ stepInside(t, Stop).lastOp = "STOP"
         /\ Len(stepInside(t, Stop).numberLevels) = lv
<1> DEFINE u == stepInside(t, Stop)
<1>1. t \in TracerType /\ tr \in TraceType /\ lv \in Nat \ {0}
  BY LevelNumber DEF Collected
<1>2. /\ Stop.op = "STOP" /\ Stop.oog = FALSE
      /\ "STOP" \in Opcodes /\ "STOP" \notin NamedCall /\ "GAS" \in Opcodes
  BY DEF Stop, Opcodes, NamedCall
<1>3. u \in TracerType
  BY <1>1, <1>2, InsideType
<1>4. /\ u.numberLevels = levelsAfter(t, Stop, lv) /\ u.lastOp = "STOP"
      /\ u.keccak = t.keccak /\ u.calls = t.calls
  <2>1. u = [numberLevels |-> levelsAfter(t, Stop, lv), lastOp |-> Stop.op,
             keccak |-> keccakAfter(t, Stop), calls |-> callsAfter(t, Stop)]
    BY <1>1, InsideIs
  <2>2. keccakAfter(t, Stop) = t.keccak /\ callsAfter(t, Stop) = t.calls
    BY <1>2 DEF keccakAfter, callsAfter
  <2> HIDE DEF u
  <2> QED BY <1>2, <2>1, <2>2
<1>5. /\ Len(u.numberLevels) = lv
      /\ u.numberLevels[lv] = levelAfter(t, Stop, lv)
      /\ \A n \in 1..lv : n # lv => u.numberLevels[n] = t.numberLevels[n]
  BY <1>1, <1>4, LevelsAfter
<1> HIDE DEF u
<1>6. \A n, o : CountsStop(t, tr, lv, u, n, o)
  BY <1>1, <1>4, StopCounted
<1>7. ASSUME NEW n, NEW o, n # lv \/ o # "GAS" PROVE Counted(u, tr, n, o) = Counted(t, tr, n, o)
  BY <1>6, <1>7 DEF CountsStop
<1>8. /\ Counted(u, tr, lv, "GAS") =
            Counted(t, tr, lv, "GAS") \cup (IF t.lastOp = "GAS" THEN {Len(tr)} ELSE {})
      /\ Len(tr) \notin Counted(t, tr, lv, "GAS")
  <2>1. CountsStop(t, tr, lv, u, lv, "GAS")
    BY <1>6
  <2> QED BY <2>1 DEF CountsStop
<1>9. ASSUME NEW n \in 1..lv PROVE LevelCollected(u, tr, n)
  <2> DEFINE l == t.numberLevels[n]
             k == u.numberLevels[n]
  <2>1. /\ \A o \in Opcodes \ {"STOP"} : l.opcodes[o] = Cardinality(Counted(t, tr, n, o))
        /\ l.access = {accessOf(tr[i].s) : i \in Accessing(tr, n)}
        /\ l.oog <=> \E i \in At(tr, n) : tr[i].s.oog
    BY DEF Collected, LevelCollected
  <2>2. CASE n # lv
    <3>1. k = l
      BY <1>5, <2>2
    <3>2. \A o : Counted(u, tr, n, o) = Counted(t, tr, n, o)
      BY <1>7, <2>2
    <3> HIDE DEF k, l
    <3> QED BY <2>1, <3>1, <3>2 DEF LevelCollected, k
  <2>3. CASE n = lv
    <3>1. k = levelAfter(t, Stop, lv)
      BY <1>5, <2>3
    <3>2. l.opcodes \in [Opcodes -> Nat] /\ l.access \in SUBSET Accesses /\ l.oog \in BOOLEAN
      <4>1. t.numberLevels \in Seq(LevelType)
        BY <1>1 DEF TracerType
      <4>2. l \in LevelType
        BY <1>1, <2>3, <4>1
      <4> HIDE DEF l
      <4> QED BY <4>2 DEF LevelType
    <3>3. /\ k.opcodes = countsAfter(t, l.opcodes, "STOP")
          /\ k.access = l.access /\ k.oog = l.oog
      BY <1>2, <2>3, <3>1, <3>2 DEF levelAfter
    <3> HIDE DEF k, l
    <3>4. k.opcodes["GAS"] = IF t.lastOp = "GAS" THEN l.opcodes["GAS"] + 1 ELSE l.opcodes["GAS"]
      <4>1. "STOP" \in Opcodes \cup Unimportant
        BY <1>2
      <4>2. countsAfter(t, l.opcodes, "STOP")["GAS"] =
              IF t.lastOp = "GAS" /\ "STOP" \notin NamedCall THEN l.opcodes["GAS"] + 1 ELSE l.opcodes["GAS"]
        BY <3>2, <4>1, Counts
      <4> QED BY <1>2, <3>3, <4>2
    <3>5. ASSUME NEW o \in Opcodes, o # "GAS", o # "STOP" PROVE k.opcodes[o] = l.opcodes[o]
      BY <1>2, <3>2, <3>3, <3>5, CountsOther
    <3>6. ASSUME NEW o \in Opcodes \ {"STOP"} PROVE k.opcodes[o] = Cardinality(Counted(u, tr, n, o))
      <4>1. l.opcodes[o] = Cardinality(Counted(t, tr, n, o))
        BY <2>1
      <4>2. CASE o # "GAS"
        BY <1>7, <3>5, <4>1, <4>2
      <4>3. CASE o = "GAS" /\ t.lastOp # "GAS"
        BY <1>8, <2>3, <3>4, <4>1, <4>3
      <4>4. CASE o = "GAS" /\ t.lastOp = "GAS"
        <5>1. IsFiniteSet(Counted(t, tr, n, o))
          BY <1>1, CountedFinite
        <5>2. Counted(u, tr, n, o) = Counted(t, tr, n, o) \cup {Len(tr)} /\ Len(tr) \notin Counted(t, tr, n, o)
          BY <1>8, <2>3, <4>4
        <5>3. Cardinality(Counted(t, tr, n, o) \cup {Len(tr)}) = Cardinality(Counted(t, tr, n, o)) + 1
          BY <5>1, <5>2, FS_AddElement
        <5>4. k.opcodes[o] = l.opcodes[o] + 1
          BY <3>4, <4>4
        <5> QED BY <4>1, <5>2, <5>3, <5>4
      <4> QED BY <4>2, <4>3, <4>4
    <3> QED BY <2>1, <3>3, <3>6 DEF LevelCollected, k
  <2> QED BY <2>2, <2>3
<1>10. Collected(u, tr)
  BY <1>1, <1>3, <1>4, <1>5, <1>9 DEF Collected
<1> QED BY <1>4, <1>5, <1>10 DEF u

\* A step of the EntryPoint leaves what is collected, and may begin a level.
LEMMA TopCollects ==
  ASSUME NEW t, NEW tr, Collected(t, tr), t.lastOp # "GAS",
         NEW lv \in Nat, lv = Len(t.numberLevels), NEW op
  PROVE  /\ Collected(stepAtTop(t, op), tr)
         /\ stepAtTop(t, op).lastOp = ""
         /\ Len(stepAtTop(t, op).numberLevels) = IF op = "NUMBER" \/ lv = 0 THEN lv + 1 ELSE lv
<1> DEFINE u == stepAtTop(t, op)
           begins == op = "NUMBER" \/ lv = 0
           levels == IF begins THEN Append(t.numberLevels, newLevel) ELSE t.numberLevels
<1>1. t \in TracerType /\ tr \in TraceType /\ t.numberLevels \in Seq(LevelType)
  BY DEF Collected, TracerType
<1>2. u = [numberLevels |-> levels, lastOp |-> "", keccak |-> t.keccak, calls |-> t.calls]
  <2>1. t = [numberLevels |-> t.numberLevels, lastOp |-> t.lastOp, keccak |-> t.keccak, calls |-> t.calls]
    BY <1>1, RecordIs DEF TracerType
  <2>2. t.numberLevels = <<>> <=> lv = 0
    BY <1>1
  <2>3. u = [t EXCEPT !.lastOp = "", !.numberLevels = levels]
    BY <2>2 DEF stepAtTop
  <2> HIDE DEF levels, u
  <2> QED BY <2>1, <2>3
<1> HIDE DEF u
<1>3. newLevel \in LevelType
  BY DEF newLevel, LevelType
<1>4. levels \in Seq(LevelType) /\ Len(levels) = IF begins THEN lv + 1 ELSE lv
  BY <1>1, <1>3
<1>5. /\ \A n \in 1..lv : levels[n] = t.numberLevels[n]
      /\ begins => levels[lv + 1] = newLevel
  BY <1>1, <1>3
<1> HIDE DEF levels
<1>6. u \in TracerType
  BY <1>1, <1>2, <1>4 DEF TracerType
<1>7. u.numberLevels = levels /\ u.lastOp = "" /\ u.keccak = t.keccak /\ u.calls = t.calls
  BY <1>2
<1>8. \A n, o : Counted(u, tr, n, o) = Counted(t, tr, n, o)
  BY <1>7 DEF Counted, Waits
<1>9. ASSUME NEW n \in 1..lv PROVE LevelCollected(u, tr, n)
  <2>1. LevelCollected(t, tr, n) /\ u.numberLevels[n] = t.numberLevels[n]
    BY <1>5, <1>7 DEF Collected
  <2> QED BY <1>8, <2>1 DEF LevelCollected
<1>10. \A i \in DOMAIN tr : tr[i].level <= lv /\ tr[i].level \in 1..3
  <2>1. \A i \in DOMAIN tr : tr[i].level <= lv
    BY DEF Collected
  <2> QED BY <1>1, <2>1, StepOf
<1>11. ASSUME begins PROVE LevelCollected(u, tr, lv + 1)
  <2>1. At(tr, lv + 1) = {}
    BY <1>10 DEF At
  <2>2. /\ \A o : Counted(u, tr, lv + 1, o) = {}
        /\ Accessing(tr, lv + 1) = {}
    BY <2>1 DEF Counted, Doing, Accessing
  <2>3. Cardinality({}) = 0
    BY FS_EmptySet
  <2>4. u.numberLevels[lv + 1] = newLevel
    BY <1>5, <1>7, <1>11
  <2>5. newLevel.access = {} /\ newLevel.oog = FALSE /\ \A o \in Opcodes : newLevel.opcodes[o] = 0
    BY DEF newLevel
  <2> QED BY <2>1, <2>2, <2>3, <2>4, <2>5 DEF LevelCollected
<1>12. \A n \in 1..Len(u.numberLevels) : LevelCollected(u, tr, n)
  <2> SUFFICES ASSUME NEW n \in 1..Len(u.numberLevels) PROVE LevelCollected(u, tr, n)
    OBVIOUS
  <2>1. n \in 1..lv \/ (begins /\ n = lv + 1)
    <3>1. Len(u.numberLevels) = IF begins THEN lv + 1 ELSE lv
      BY <1>4, <1>7
    <3> HIDE DEF begins
    <3>2. n \in 1..(IF begins THEN lv + 1 ELSE lv)
      BY <3>1
    <3> QED BY <3>2
  <2> QED BY <1>9, <1>11, <2>1
<1>13. Collected(u, tr)
  <2>1. \A i \in DOMAIN tr : tr[i].level <= Len(u.numberLevels)
    <3>1. Len(u.numberLevels) = IF begins THEN lv + 1 ELSE lv
      BY <1>4, <1>7
    <3> HIDE DEF begins
    <3>2. lv <= Len(u.numberLevels)
      BY <3>1
    <3>3. Len(u.numberLevels) \in Nat
      BY <3>1
    <3> QED BY <1>10, <3>2, <3>3
  <2>2. /\ u.keccak = {tr[i].s.of : i \in Hashing(tr)}
        /\ u.calls = {callOf(tr[i].s) : i \in Calling(tr)}
    BY <1>7 DEF Collected
  <2> QED BY <1>1, <1>6, <1>12, <2>1, <2>2 DEF Collected
<1> QED BY <1>4, <1>7, <1>13 DEF u
-----------------------------------------------------------------------------
(* What the scanner reads in it, rule by rule *)

\* The end of a simulation that came to a result.
Ended(t) ==
  /\ request \in Requests /\ stakes \in Stakes /\ validateInputParameters(request)
  /\ ByEntities /\ Collected(t, trace) /\ Len(t.numberLevels) = 3 /\ t.lastOp = ""

\* A count is zero if nothing is counted.
LEMMA NothingCounted ==
  ASSUME NEW t, NEW tr \in TraceType, NEW n, NEW o
  PROVE  Cardinality(Counted(t, tr, n, o)) = 0 <=> Counted(t, tr, n, o) = {}
BY CountedFinite, FS_EmptySet

\* The level of a step is one of three, and its step one of Steps.
LEMMA Levels ==
  ASSUME NEW t, Ended(t)
  PROVE  /\ trace \in TraceType
         /\ \A i \in DOMAIN trace : trace[i].level \in 1..3 /\ trace[i].s \in Steps
         /\ \A n \in 1..3 : LevelCollected(t, trace, n)
<1>1. trace \in TraceType /\ \A n \in 1..Len(t.numberLevels) : LevelCollected(t, trace, n)
  BY DEF Ended, Collected
<1>2. \A n \in 1..3 : LevelCollected(t, trace, n)
  BY <1>1 DEF Ended
<1> QED BY <1>1, <1>2, StepOf

\* The scanner knows the account, the entities that ran code and their stakes.
LEMMA ScannerReads ==
  ASSUME NEW t, Ended(t)
  PROVE  /\ scannedOp.initCode <=> present(request.initCode)
         /\ scannedOp.addr["account"] = "account"
         /\ \A i \in DOMAIN trace : scannedOp.addr[Entities[trace[i].level]] = Entities[trace[i].level]
         /\ \A n \in 1..3 : staked(stakes[Entities[n]]) <=> hasStake(Entities[n])
<1>1. request.initCode \in Nat /\ (request.initCode = 2 \/ request.initCode >= 42)
  BY RequestsAssumption DEF Ended, validateInputParameters
<1>2. scannedOp.initCode <=> present(request.initCode)
  <2>1. scannedOp.initCode = (request.initCode > 2)
    BY DEF scannedOp
  <2>2. request.initCode > 2 <=> present(request.initCode)
    BY <1>1 DEF present
  <2> QED BY <2>1, <2>2
<1>3. \A e \in ToSet(Entities) : hasEntity(e) => scannedOp.addr[e] = e
  BY DEF scannedOp
<1>4. "account" \in ToSet(Entities) /\ hasEntity("account")
  BY EntitiesAre DEF hasEntity
<1>5. \A n \in 1..3 : Entities[n] \in ToSet(Entities)
  <2>1. 1..3 = {1, 2, 3}
    OBVIOUS
  <2> QED BY <2>1, EntitiesAre
<1>6. \A i \in DOMAIN trace : scannedOp.addr[Entities[trace[i].level]] = Entities[trace[i].level]
  BY <1>3, <1>5, Levels DEF Ended, ByEntities
<1>7. ASSUME NEW n \in 1..3 PROVE staked(stakes[Entities[n]]) <=> hasStake(Entities[n])
  <2>1. stakes[Entities[n]].stake \in Nat /\ stakes[Entities[n]].unstakeDelaySec \in Nat
    BY <1>5, StakesAssumption DEF Ended
  <2> QED BY <2>1 DEF staked, hasStake
<1> QED BY <1>2, <1>3, <1>4, <1>6, <1>7

\* A hash is kept if what is hashed holds more than an address, and is no code.
LEMMA KeptIs == ASSUME NEW k \in Nat PROVE k \in 21..511 <=> kept(k)
  BY DEF kept

\* The scanner's association of a slot is that of the hashes of the entities.
LEMMA AssociatedIsHashed ==
  ASSUME NEW t, Ended(t), NEW slot, slot.off \in Nat, NEW addr
  PROVE  associatedWith(slot, addr, t.keccak) <=> hashed(slot, addr)
<1>1. t.keccak = {trace[i].s.of : i \in Hashing(trace)}
  BY DEF Ended, Collected
<1>2. \A i \in DOMAIN trace : trace[i].s.op = "KECCAK256" => (trace[i].s.len \in 21..511 <=> kept(trace[i].s.len))
  BY Levels, StepsAssumption, KeptIs
<1>3. addr \in t.keccak <=>
        \E i \in DOMAIN trace :
          trace[i].s.op = "KECCAK256" /\ trace[i].s.of = addr /\ trace[i].s.len \in 21..511
  BY <1>1, <1>2 DEF Hashing
<1>4. ASSUME NEW k \in Nat PROVE k \in 0..127 <=> k < 128
  OBVIOUS
<1> QED BY <1>3, <1>4 DEF associatedWith, hashed, StructSize

\* An access is allowed, with the stake it needs, as its rule says.
LEMMA AccessByRule ==
  ASSUME NEW t, Ended(t), NEW i \in DOMAIN trace, trace[i].s.op \in {"SLOAD", "SSTORE"},
         NEW entity, entity = Entities[trace[i].level]
  PROVE  accessRule(entity, trace[i].s) <=>
           /\ allowedSlot(scannedOp, entity, accessOf(trace[i].s), t.keccak)
           /\ needsStake(scannedOp, entity, accessOf(trace[i].s), t.keccak) => staked(stakes[entity])
<1> DEFINE s == trace[i].s
           a == accessOf(s)
<1>1. a.addr = s.addr /\ a.slot = s.slot /\ s.slot.off \in Nat
  BY Levels, StepsAssumption DEF accessOf
<1>2. \A addr : associatedWith(s.slot, addr, t.keccak) <=> hashed(s.slot, addr)
  BY <1>1, AssociatedIsHashed
<1>3. /\ scannedOp.addr["account"] = "account" /\ scannedOp.addr[entity] = entity
      /\ scannedOp.initCode <=> present(request.initCode)
      /\ staked(stakes[entity]) <=> hasStake(entity)
  BY Levels, ScannerReads
<1> HIDE DEF s, a
<1>4. allowedSlot(scannedOp, entity, a, t.keccak) <=>
        s.addr \in {"account", EntryPoint, entity} \/ hashed(s.slot, "account") \/ hashed(s.slot, entity)
  BY <1>1, <1>2, <1>3 DEF allowedSlot
<1>5. needsStake(scannedOp, entity, a, t.keccak) <=>
        /\ s.addr \notin {"account", EntryPoint}
        /\ hashed(s.slot, "account") => present(request.initCode)
  BY <1>1, <1>2, <1>3 DEF needsStake
<1> QED BY <1>3, <1>4, <1>5 DEF accessRule, s, a

\* A level's accesses are allowed if each of its steps that accesses is.
LEMMA AccessesByRule ==
  ASSUME NEW t, Ended(t), NEW n \in 1..3
  PROVE  (\A a \in t.numberLevels[n].access :
            /\ allowedSlot(scannedOp, Entities[n], a, t.keccak)
            /\ needsStake(scannedOp, Entities[n], a, t.keccak) => staked(stakes[Entities[n]]))
         <=> \A i \in Accessing(trace, n) : accessRule(Entities[n], trace[i].s)
<1> DEFINE ok(a) == /\ allowedSlot(scannedOp, Entities[n], a, t.keccak)
                    /\ needsStake(scannedOp, Entities[n], a, t.keccak) => staked(stakes[Entities[n]])
<1>1. t.numberLevels[n].access = {accessOf(trace[i].s) : i \in Accessing(trace, n)}
  BY Levels DEF LevelCollected
<1>2. ASSUME NEW i \in Accessing(trace, n)
      PROVE  accessRule(Entities[n], trace[i].s) <=> ok(accessOf(trace[i].s))
  <2>1. i \in DOMAIN trace /\ trace[i].level = n /\ trace[i].s.op \in {"SLOAD", "SSTORE"}
    BY DEF Accessing, Doing, At
  <2> QED BY <2>1, AccessByRule
<1> HIDE DEF ok
<1>3. (\A a \in t.numberLevels[n].access : ok(a)) <=>
        \A i \in Accessing(trace, n) : accessRule(Entities[n], trace[i].s)
  BY <1>1, <1>2
<1> QED BY <1>3 DEF ok

\* No banned opcode is counted exactly if no step is one; a GAS may be for a call.
LEMMA BannedByRule ==
  ASSUME NEW t, Ended(t), NEW n \in 1..3
  PROVE  (\A o \in bannedOpCodes : t.numberLevels[n].opcodes[o] = 0)
         <=> \A i \in At(trace, n) :
               /\ trace[i].s.op # "TIMESTAMP"
               /\ trace[i].s.op = "GAS" => Called(trace, i)
<1>1. \A o \in Opcodes \ {"STOP"} : t.numberLevels[n].opcodes[o] = Cardinality(Counted(t, trace, n, o))
  BY Levels DEF LevelCollected
<1>2. "TIMESTAMP" \in Opcodes \ {"STOP"} /\ "GAS" \in Opcodes \ {"STOP"}
  BY DEF Opcodes
<1>3. \A o : Cardinality(Counted(t, trace, n, o)) = 0 <=> Counted(t, trace, n, o) = {}
  BY Levels, NothingCounted
<1>4. Counted(t, trace, n, "TIMESTAMP") = {i \in At(trace, n) : trace[i].s.op = "TIMESTAMP"}
  BY DEF Counted, Doing
<1>5. Counted(t, trace, n, "GAS") = {i \in At(trace, n) : trace[i].s.op = "GAS" /\ ~ Called(trace, i)}
  BY DEF Counted, Doing, Waits, Ended
<1> HIDE DEF bannedOpCodes
<1>6. (\A o \in bannedOpCodes : t.numberLevels[n].opcodes[o] = 0) <=>
        t.numberLevels[n].opcodes["TIMESTAMP"] = 0 /\ t.numberLevels[n].opcodes["GAS"] = 0
  BY DEF bannedOpCodes
<1>7. t.numberLevels[n].opcodes["TIMESTAMP"] = 0 <=> \A i \in At(trace, n) : trace[i].s.op # "TIMESTAMP"
  BY <1>1, <1>2, <1>3, <1>4
<1>8. t.numberLevels[n].opcodes["GAS"] = 0 <=>
        \A i \in At(trace, n) : trace[i].s.op = "GAS" => Called(trace, i)
  BY <1>1, <1>2, <1>3, <1>5
<1> QED BY <1>6, <1>7, <1>8

\* The bounds on CREATE2 by level are those of one creation, by the factory.
LEMMA CreationByRule ==
  ASSUME NEW t, Ended(t)
  PROVE  (\A n \in 1..3 : t.numberLevels[n].opcodes["CREATE2"] <= IF Entities[n] = "factory" THEN 1 ELSE 0)
         <=> \A i \in DOMAIN trace : trace[i].s.op = "CREATE2" =>
               /\ Entities[trace[i].level] = "factory"
               /\ \A j \in 1..(i - 1) : trace[j].s.op # "CREATE2"
<1> DEFINE C(n) == Counted(t, trace, n, "CREATE2")
           bounded == \A n \in 1..3 : Cardinality(C(n)) <= IF n = 1 THEN 1 ELSE 0
<1>1. \A n \in 1..3 : t.numberLevels[n].opcodes["CREATE2"] = Cardinality(C(n))
  <2>1. "CREATE2" \in Opcodes \ {"STOP"}
    BY DEF Opcodes
  <2> QED BY <2>1, Levels DEF LevelCollected
<1>2. \A n \in 1..3 : Entities[n] = "factory" <=> n = 1
  <2>1. 1..3 = {1, 2, 3}
    OBVIOUS
  <2> QED BY <2>1, EntitiesAre
<1>3. /\ DOMAIN trace = 1..Len(trace) /\ Len(trace) \in Nat
      /\ \A i \in DOMAIN trace : trace[i].level \in 1..3
  <2>1. DOMAIN trace = 1..Len(trace) /\ Len(trace) \in Nat
    BY Levels DEF TraceType
  <2> QED BY <2>1, Levels
<1>4. \A n : C(n) = {i \in DOMAIN trace : trace[i].level = n /\ trace[i].s.op = "CREATE2"}
  BY DEF Counted, Doing, At
<1>5. \A n : IsFiniteSet(C(n)) /\ Cardinality(C(n)) \in Nat /\ (Cardinality(C(n)) = 0 <=> C(n) = {})
  BY Levels, CountedFinite, NothingCounted
<1> HIDE DEF C
<1>6. ASSUME bounded, NEW i \in DOMAIN trace, trace[i].s.op = "CREATE2"
      PROVE  trace[i].level = 1 /\ \A j \in 1..(i - 1) : trace[j].s.op # "CREATE2"
  <2>1. \A j \in DOMAIN trace : trace[j].s.op = "CREATE2" => trace[j].level = 1
    <3> SUFFICES ASSUME NEW j \in DOMAIN trace, trace[j].s.op = "CREATE2", trace[j].level # 1
                 PROVE  FALSE
      OBVIOUS
    <3>1. j \in C(trace[j].level) /\ trace[j].level \in 1..3
      BY <1>3, <1>4
    <3>2. Cardinality(C(trace[j].level)) = 0
      BY <1>5, <1>6, <3>1
    <3> QED BY <1>5, <3>1, <3>2
  <2>2. ASSUME NEW j \in 1..(i - 1), trace[j].s.op = "CREATE2" PROVE FALSE
    <3>1. j \in DOMAIN trace /\ j # i
      BY <1>3
    <3>2. i \in C(1) /\ j \in C(1)
      BY <1>4, <1>6, <2>1, <2>2, <3>1
    <3>3. /\ IsFiniteSet(C(1) \ {i}) /\ Cardinality(C(1) \ {i}) = Cardinality(C(1)) - 1
      BY <1>5, <3>2, FS_RemoveElement
    <3>4. Cardinality(C(1)) <= 1 /\ Cardinality(C(1)) \in Nat
      BY <1>5, <1>6
    <3>5. Cardinality(C(1) \ {i}) \in Nat
      BY <3>3, FS_CardinalityType
    <3>6. Cardinality(C(1) \ {i}) = 0
      BY <3>3, <3>4, <3>5
    <3>7. C(1) \ {i} = {}
      BY <3>3, <3>6, FS_EmptySet
    <3> QED BY <3>1, <3>2, <3>7
  <2> QED BY <1>6, <2>1, <2>2
<1>7. ASSUME \A i \in DOMAIN trace : trace[i].s.op = "CREATE2" =>
               trace[i].level = 1 /\ \A j \in 1..(i - 1) : trace[j].s.op # "CREATE2",
             NEW n \in 1..3
      PROVE  Cardinality(C(n)) <= IF n = 1 THEN 1 ELSE 0
  <2>1. CASE n # 1
    <3>1. C(n) = {}
      BY <1>4, <1>7, <2>1
    <3> QED BY <1>5, <2>1, <3>1
  <2>2. CASE n = 1 /\ C(n) = {}
    BY <1>5, <2>2
  <2>3. CASE n = 1 /\ C(n) # {}
    <3>1. PICK i \in C(n) : TRUE
      BY <2>3
    <3>2. C(n) = {i}
      <4> SUFFICES ASSUME NEW j \in C(n), j # i PROVE FALSE
        BY <3>1
      <4>1. /\ i \in 1..Len(trace) /\ j \in 1..Len(trace)
            /\ trace[i].s.op = "CREATE2" /\ trace[j].s.op = "CREATE2"
        BY <1>3, <1>4
      <4>2. i \in 1..(j - 1) \/ j \in 1..(i - 1)
        BY <1>3, <4>1
      <4> QED BY <1>3, <1>7, <4>1, <4>2
    <3>3. Cardinality(C(n) \ {i}) = Cardinality(C(n)) - 1
      BY <1>5, FS_RemoveElement
    <3>4. C(n) \ {i} = {}
      BY <3>2
    <3> QED BY <1>5, <2>3, <3>3, <3>4, FS_EmptySet
  <2> QED BY <2>1, <2>2, <2>3
<1>8. bounded <=> \A i \in DOMAIN trace : trace[i].s.op = "CREATE2" =>
        trace[i].level = 1 /\ \A j \in 1..(i - 1) : trace[j].s.op # "CREATE2"
  BY <1>6, <1>7
<1>9. (\A n \in 1..3 : t.numberLevels[n].opcodes["CREATE2"] <= IF Entities[n] = "factory" THEN 1 ELSE 0)
      <=> bounded
  BY <1>1, <1>2
<1> QED BY <1>2, <1>3, <1>8, <1>9

\* The top-level call is not of the EntryPoint.
LEMMA TopCall == ASSUME NEW calls PROVE \E call \in parseCallStack(calls) : call.to # EntryPoint
<1>1. [to |-> "undefined", method |-> "validateUserOp", value |-> FALSE] \in parseCallStack(calls)
  BY DEF parseCallStack
<1>2. [to |-> "undefined", method |-> "validateUserOp", value |-> FALSE].to # EntryPoint
  BY DEF EntryPoint
<1> QED BY <1>1, <1>2

\* The calls of the EntryPoint that are kept allow what those made did.
LEMMA CallsByRule ==
  ASSUME NEW t, Ended(t)
  PROVE  callsPass(t.calls) <=>
           \A i \in DOMAIN trace : trace[i].s.op = "CALL" /\ trace[i].s.to = EntryPoint =>
               \/ trace[i].s.method = "depositTo"
               \/ (trace[i].s.method = "0x" /\ ~ trace[i].s.reverted)
<1> DEFINE seen(c) == [to |-> c.to, method |-> IF c.reverted /\ c.method = "0x" THEN "undefined" ELSE c.method,
                       value |-> c.reverted /\ c.value]
           top == [to |-> "undefined", method |-> "validateUserOp", value |-> FALSE]
           bad(e) == e.to = EntryPoint /\ e.method \notin {"0x", "depositTo"}
           fine(s) == s.method = "depositTo" \/ (s.method = "0x" /\ ~ s.reverted)
<1>1. t.calls = {callOf(trace[i].s) : i \in Calling(trace)}
  BY DEF Ended, Collected
<1>2. parseCallStack(t.calls) = {seen(c) : c \in t.calls} \cup {top}
  BY DEF parseCallStack
<1>3. ~ bad(top)
  BY DEF EntryPoint
<1>4. ASSUME NEW s \in Steps, s.op = "CALL"
      PROVE  bad(seen(callOf(s))) <=> s.to = EntryPoint /\ ~ fine(s)
  <2>1. callOf(s).to = s.to /\ callOf(s).method = s.method /\ callOf(s).reverted = s.reverted
    BY DEF callOf
  <2>2. s.reverted \in BOOLEAN
    BY <1>4, StepsAssumption
  <2>3. /\ seen(callOf(s)).to = s.to
        /\ seen(callOf(s)).method = IF s.reverted /\ s.method = "0x" THEN "undefined" ELSE s.method
    BY <2>1
  <2> HIDE DEF seen
  <2> QED BY <2>2, <2>3
<1>5. \A i \in Calling(trace) : bad(seen(callOf(trace[i].s))) <=> trace[i].s.to = EntryPoint /\ ~ fine(trace[i].s)
  BY <1>4, Levels DEF Calling
<1> HIDE DEF seen, top, bad, fine
<1>6. (~ \E e \in parseCallStack(t.calls) : bad(e)) <=> \A i \in Calling(trace) : ~ bad(seen(callOf(trace[i].s)))
  BY <1>1, <1>2, <1>3
<1>7. (~ \E e \in parseCallStack(t.calls) : bad(e)) <=>
        \A i \in DOMAIN trace : trace[i].s.op = "CALL" /\ trace[i].s.to = EntryPoint => fine(trace[i].s)
  BY <1>5, <1>6 DEF Calling
<1>8. callsPass(t.calls) <=> ~ \E e \in parseCallStack(t.calls) : bad(e)
  BY TopCall DEF callsPass, bad
<1> QED BY <1>7, <1>8, Zenon DEF fine

\* The rules of the steps on one level, but for those of creations and calls.
levelRule(n) ==
  \A i \in At(trace, n) :
    /\ ~ trace[i].s.oog /\ trace[i].s.op # "TIMESTAMP"
    /\ trace[i].s.op = "GAS" => Called(trace, i)
    /\ trace[i].s.op \in {"SLOAD", "SSTORE"} => accessRule(Entities[n], trace[i].s)

creationRule ==
  \A i \in DOMAIN trace : trace[i].s.op = "CREATE2" =>
    /\ Entities[trace[i].level] = "factory"
    /\ \A j \in 1..(i - 1) : trace[j].s.op # "CREATE2"

callRule ==
  \A i \in DOMAIN trace : trace[i].s.op = "CALL" /\ trace[i].s.to = EntryPoint =>
    \/ trace[i].s.method = "depositTo"
    \/ (trace[i].s.method = "0x" /\ ~ trace[i].s.reverted)

\* All levels are there.
LEMMA LevelsEnd ==
  ASSUME NEW t, Ended(t)
  PROVE  Len(t.numberLevels) = 3 /\ \A n \in 1..3 : n <= Len(t.numberLevels) /\ ~ n > Len(t.numberLevels)
<1>1. Len(t.numberLevels) = 3
  BY DEF Ended
<1> QED BY <1>1

\* An entity that is in the operation has its address.
LEMMA PresentIs ==
  ASSUME NEW n \in 1..3, hasEntity(Entities[n])
  PROVE  scannedOp.addr[Entities[n]] = Entities[n] /\ Entities[n] # "undefined"
<1>1. Entities[n] \in ToSet(Entities) /\ Entities[n] # "undefined"
  <2>1. 1..3 = {1, 2, 3}
    OBVIOUS
  <2> QED BY <2>1, EntitiesAre
<1> QED BY <1>1 DEF scannedOp

\* What is accessed on a level is accessed by its entity.
LEMMA AccessesArePresent ==
  ASSUME NEW t, Ended(t), NEW n \in 1..3, t.numberLevels[n].access # {}
  PROVE  scannedOp.addr[Entities[n]] # NoAddr
<1>1. t.numberLevels[n].access = {accessOf(trace[i].s) : i \in Accessing(trace, n)}
  BY Levels DEF LevelCollected
<1>2. PICK i \in Accessing(trace, n) : TRUE
  BY <1>1
<1>3. i \in DOMAIN trace /\ trace[i].level = n
  BY DEF Accessing, Doing, At
<1>4. hasEntity(Entities[n])
  BY <1>3 DEF Ended, ByEntities
<1> QED BY <1>4, PresentIs DEF NoAddr

\* A level passes if its steps follow the rules; the paymaster's, with a context, if it staked.
LEMMA LevelByRule ==
  ASSUME NEW t, Ended(t), NEW context \in BOOLEAN, context => hasEntity("paymaster"), NEW n \in 1..3
  PROVE  entityPasses(scannedOp, stakes, t, context, n) <=>
           /\ levelRule(n)
           /\ t.numberLevels[n].opcodes["CREATE2"] <= IF Entities[n] = "factory" THEN 1 ELSE 0
           /\ Entities[n] = "paymaster" /\ context => hasStake(Entities[n])
<1> DEFINE l == t.numberLevels[n]
           here == scannedOp.addr[Entities[n]] # NoAddr
           stake == staked(stakes[Entities[n]])
           allowed(a) == allowedSlot(scannedOp, Entities[n], a, t.keccak)
           needs(a) == needsStake(scannedOp, Entities[n], a, t.keccak)
           accesses == \A a \in l.access : allowed(a) /\ (needs(a) => stake)
           accessesHere == \A a \in l.access : allowed(a) /\ (needs(a) => here /\ stake)
           created == l.opcodes["CREATE2"] <= IF Entities[n] = "factory" THEN 1 ELSE 0
           banned == \A o \in bannedOpCodes : l.opcodes[o] = 0
           sponsors == Entities[n] = "paymaster" /\ context
<1>1. entityPasses(scannedOp, stakes, t, context, n) <=>
        ~ l.oog /\ banned /\ created /\ accessesHere /\ (sponsors => here /\ stake)
  BY LevelsEnd DEF entityPasses, opcodesPass
<1>2. l.oog <=> \E i \in At(trace, n) : trace[i].s.oog
  BY Levels DEF LevelCollected
<1>3. banned <=> \A i \in At(trace, n) :
                   /\ trace[i].s.op # "TIMESTAMP"
                   /\ trace[i].s.op = "GAS" => Called(trace, i)
  BY BannedByRule
<1>4. accesses <=> \A i \in Accessing(trace, n) : accessRule(Entities[n], trace[i].s)
  BY AccessesByRule
<1>5. stake <=> hasStake(Entities[n])
  BY ScannerReads
<1>6. Accessing(trace, n) = {i \in At(trace, n) : trace[i].s.op \in {"SLOAD", "SSTORE"}}
  BY DEF Accessing, Doing
<1>7. l.access # {} => here
  BY AccessesArePresent
<1>8. sponsors => here
  BY PresentIs DEF NoAddr
<1> HIDE DEF l, here, stake, allowed, needs, accesses, accessesHere, created, banned, sponsors
<1>9. accesses <=> accessesHere
  BY <1>7 DEF accesses, accessesHere
<1>10. levelRule(n) <=> ~ l.oog /\ banned /\ accesses
  BY <1>2, <1>3, <1>4, <1>6 DEF levelRule
<1>11. entityPasses(scannedOp, stakes, t, context, n) <=>
         levelRule(n) /\ created /\ (sponsors => hasStake(Entities[n]))
  BY <1>1, <1>5, <1>8, <1>9, <1>10
<1> QED BY <1>11 DEF created, l, sponsors

\* The scanner never fails with an error of its own: there are three levels, and
\* what is not in the operation makes no access.
LEMMA NoErrorOfItsOwn ==
  ASSUME NEW t, Ended(t), NEW context \in BOOLEAN, context => hasEntity("paymaster"), NEW n \in 1..3,
         ~ entityPasses(scannedOp, stakes, t, context, n)
  PROVE  entityError(scannedOp, t, n) = "OpcodeValidation"
<1>1. n <= Len(t.numberLevels)
  BY LevelsEnd
<1>2. ASSUME scannedOp.addr[Entities[n]] = NoAddr, opcodesPass(t.numberLevels[n], Entities[n])
      PROVE  FALSE
  <2>1. t.numberLevels[n].access = {}
    BY <1>2, AccessesArePresent
  <2>2. ~ (Entities[n] = "paymaster" /\ context)
    BY <1>2, PresentIs DEF NoAddr
  <2> QED BY <1>1, <1>2, <2>1, <2>2 DEF entityPasses
<1> QED BY <1>1, <1>2, LevelsEnd DEF entityError

\* The rules, as stepRule states them, in the parts the scanner checks.
LEMMA RulesInParts ==
  ASSUME NEW t, Ended(t)
  PROVE  (\A i \in DOMAIN trace : stepRule(i)) <=> (\A n \in 1..3 : levelRule(n)) /\ creationRule /\ callRule
<1>1. (\A n \in 1..3 : levelRule(n)) <=>
        \A i \in DOMAIN trace :
          /\ ~ trace[i].s.oog /\ trace[i].s.op # "TIMESTAMP"
          /\ trace[i].s.op = "GAS" => Called(trace, i)
          /\ trace[i].s.op \in {"SLOAD", "SSTORE"} => accessRule(Entities[trace[i].level], trace[i].s)
  BY Levels DEF levelRule, At
<1> QED BY <1>1 DEF creationRule, callRule, stepRule, Called

\* The scanner passes what follows the rules, and nothing else.
LEMMA ParseByRules ==
  ASSUME NEW t, Ended(t), NEW context \in BOOLEAN, context => hasEntity("paymaster")
  PROVE  parse(scannedOp, stakes, t, context) =
           IF (\A i \in DOMAIN trace : stepRule(i)) /\ (context => hasStake("paymaster"))
           THEN "passes" ELSE "OpcodeValidation"
<1> DEFINE created(n) == t.numberLevels[n].opcodes["CREATE2"] <= IF Entities[n] = "factory" THEN 1 ELSE 0
           passes(n) == entityPasses(scannedOp, stakes, t, context, n)
           failing == {n \in 1..3 : ~ passes(n)}
           first == CHOOSE n \in failing : \A other \in failing : n <= other
<1>1. parse(scannedOp, stakes, t, context) =
        IF ~ callsPass(t.calls) THEN "OpcodeValidation"
        ELSE IF failing # {} THEN entityError(scannedOp, t, first)
        ELSE "passes"
  BY LevelsEnd, EntitiesAre DEF parse
<1>2. \A n \in 1..3 : passes(n) <=>
        levelRule(n) /\ created(n) /\ (Entities[n] = "paymaster" /\ context => hasStake(Entities[n]))
  BY LevelByRule
<1>3. (\A n \in 1..3 : created(n)) <=> creationRule
  BY CreationByRule DEF creationRule
<1>4. (\A n \in 1..3 : Entities[n] = "paymaster" /\ context => hasStake(Entities[n]))
      <=> (context => hasStake("paymaster"))
  <2>1. 1..3 = {1, 2, 3}
    OBVIOUS
  <2> QED BY <2>1, EntitiesAre
<1>5. ASSUME failing # {} PROVE entityError(scannedOp, t, first) = "OpcodeValidation"
  <2>1. \E n \in failing : \A other \in failing : n <= other
    <3>1. CASE 1 \in failing
      BY <3>1
    <3>2. CASE 1 \notin failing /\ 2 \in failing
      BY <3>2
    <3>3. CASE 1 \notin failing /\ 2 \notin failing
      <4>1. failing = {3}
        BY <1>5, <3>3
      <4> QED BY <4>1
    <3> QED BY <3>1, <3>2, <3>3
  <2>2. first \in failing
    BY <2>1
  <2> HIDE DEF first
  <2> QED BY <2>2, NoErrorOfItsOwn
<1> HIDE DEF created, first
<1>6. failing = {} <=> \A n \in 1..3 : passes(n)
  OBVIOUS
<1> HIDE DEF passes, failing
<1>7. failing = {} <=> (\A n \in 1..3 : levelRule(n)) /\ creationRule /\ (context => hasStake("paymaster"))
  BY <1>2, <1>3, <1>4, <1>6
<1>8. callsPass(t.calls) <=> callRule
  BY CallsByRule DEF callRule
<1> QED BY <1>1, <1>5, <1>7, <1>8, RulesInParts
-----------------------------------------------------------------------------
(* The invariant holds *)

LEMMA InitIInv == Init => IInv
<1> SUFFICES ASSUME Init PROVE IInv
  OBVIOUS
<1> USE DEF Init
<1>1. /\ noTrace.numberLevels = <<>> /\ noTrace.lastOp = ""
      /\ noTrace.keccak = {} /\ noTrace.calls = {} /\ Len(noTrace.numberLevels) = 0
  BY DEF noTrace
<1>2. noTrace \in TracerType /\ <<>> \in TraceType
  <2>1. <<>> \in Seq(LevelType) /\ <<>> \in TraceType
    BY DEF TraceType
  <2> QED BY <2>1 DEF noTrace, TracerType
<1>3. Collected(noTrace, <<>>)
  <2>1. DOMAIN <<>> = {}
    OBVIOUS
  <2>2. Hashing(<<>>) = {} /\ Calling(<<>>) = {}
    BY <2>1 DEF Hashing, Calling
  <2>3. 1..Len(noTrace.numberLevels) = {}
    <3>1. 1..0 = {}
      OBVIOUS
    <3> QED BY <1>1, <3>1
  <2> QED BY <1>1, <1>2, <2>1, <2>2, <2>3 DEF Collected
<1>4. Clean \in LikelyResults
  <2>1. Clean \in Results
    BY DEF Clean, Results
  <2>2. {f \in DOMAIN Clean : Clean[f] # Clean[f]} = {}
    OBVIOUS
  <2>3. Cardinality({f \in DOMAIN Clean : Clean[f] # Clean[f]}) <= 1
    <3>1. Cardinality({}) = 0
      BY FS_EmptySet
    <3> QED BY <2>2, <3>1
  <2> QED BY <2>1, <2>3 DEF LikelyResults
<1>5. Shape
  <2>1. Len(trace) = 0 /\ MaxSteps \in Nat
    BY StepsAssumption
  <2>2. level = 0
    BY <1>1 DEF level
  <2> QED BY <1>4, <2>1, <2>2 DEF Shape
<1>6. Begun /\ ByEntities /\ ScannerFollowsRules
  BY DEF Begun, ByEntities, ScannerFollowsRules
<1> QED BY <1>3, <1>5, <1>6 DEF IInv

\* Of a simulation the tracer knows the level and the last step.
LEMMA Simulating ==
  ASSUME IInv, phase = "simulating"
  PROVE  /\ level \in 1..3 /\ level = Len(tracer.numberLevels)
         /\ Collected(tracer, trace) /\ LastKnown(tracer, trace)
         /\ request \in Requests /\ stakes \in Stakes /\ validateInputParameters(request)
         /\ ByEntities
<1>1. level \in 0..3 /\ level # 0
  BY DEF IInv, Shape, Begun
<1> HIDE DEF level
<1>2. level \in 1..3
  BY <1>1
<1> QED BY <1>2 DEF IInv, Shape, Begun, level

\* When a level ends, no GAS waits any more, whether its entity ran code or not.
LEMMA LeftCollects ==
  ASSUME IInv, phase = "simulating"
  PROVE  /\ Collected(left, trace) /\ left.lastOp # "GAS"
         /\ Len(left.numberLevels) = level
<1>1. CASE hasEntity(Entities[level])
  <2>1. left = stepInside(tracer, Stop)
    BY <1>1 DEF left
  <2> HIDE DEF left
  <2>2. PICK lv \in 1..3 : lv = level
    BY Simulating
  <2>3. /\ Collected(stepInside(tracer, Stop), trace)
        /\ stepInside(tracer, Stop).lastOp = "STOP"
        /\ Len(stepInside(tracer, Stop).numberLevels) = lv
    BY <2>2, Simulating, StopCollects
  <2> QED BY <2>1, <2>2, <2>3
<1>2. CASE ~ hasEntity(Entities[level])
  <2>1. left = tracer
    BY <1>2 DEF left
  <2> HIDE DEF left
  <2>2. tracer.lastOp = ""
    <3>1. CASE trace = <<>>
      BY <3>1, Simulating DEF LastKnown
    <3>2. CASE trace # <<>>
      <4>1. Len(trace) \in DOMAIN trace
        <5>1. trace \in TraceType
          BY Simulating DEF Collected
        <5> QED BY <3>2, <5>1 DEF TraceType
      <4>2. trace[Len(trace)].level # level
        BY <1>2, <4>1, Simulating DEF ByEntities
      <4> QED BY <4>2, Simulating DEF LastKnown
    <3> QED BY <3>1, <3>2
  <2> QED BY <2>1, <2>2, Simulating
<1> QED BY <1>1, <1>2

LEMMA ValidateInputIInv == IInv /\ ValidateInput => IInv'
<1> SUFFICES ASSUME IInv, ValidateInput PROVE IInv'
  OBVIOUS
<1>1. /\ phase = "received" /\ tracer = noTrace /\ trace = <<>>
      /\ UNCHANGED <<request, stakes, trace, result>>
  BY DEF IInv, Begun, ValidateInput
<1>2. Collected(tracer, trace) /\ level = 0 /\ tracer.lastOp = ""
  BY <1>1 DEF IInv, noTrace, level
<1>3. CASE validateInputParameters(request)
  <2>1. phase' = "simulating" /\ tracer' = stepAtTop(tracer, "other")
    BY <1>3 DEF ValidateInput
  <2>2. /\ Collected(stepAtTop(tracer, "other"), trace)
        /\ stepAtTop(tracer, "other").lastOp = ""
        /\ Len(stepAtTop(tracer, "other").numberLevels) = 1
    <3>1. Len(tracer.numberLevels) = 0
      BY <1>2 DEF level
    <3>2. 0 \in Nat /\ tracer.lastOp # "GAS"
      BY <1>2
    <3>3. /\ Collected(stepAtTop(tracer, "other"), trace)
          /\ stepAtTop(tracer, "other").lastOp = ""
          /\ Len(stepAtTop(tracer, "other").numberLevels) = IF "other" = "NUMBER" \/ 0 = 0 THEN 0 + 1 ELSE 0
      BY <1>2, <3>1, <3>2, TopCollects
    <3>4. (IF "other" = "NUMBER" \/ 0 = 0 THEN 0 + 1 ELSE 0) = 1
      OBVIOUS
    <3> HIDE DEF stepAtTop
    <3> QED BY <3>3, <3>4
  <2>3. Collected(tracer, trace)' /\ tracer'.lastOp = "" /\ Len(tracer'.numberLevels) = 1
    BY <1>1, <2>1, <2>2
  <2>4. level' = 1
    BY <2>3 DEF level
  <2>5. level' \in 0..3 /\ level' # 0
    BY <2>4
  <2>6. Shape'
    BY <1>1, <2>1, <2>5 DEF IInv, Shape
  <2>7. LastKnown(tracer, trace)'
    BY <1>1, <2>3 DEF LastKnown
  <2>8. Begun'
    BY <1>1, <1>3, <2>1, <2>7, <2>5 DEF Begun, validateInputParameters
  <2>9. ByEntities' /\ ScannerFollowsRules'
    BY <1>1, <2>1 DEF ByEntities, ScannerFollowsRules
  <2> QED BY <2>3, <2>6, <2>8, <2>9 DEF IInv
<1>4. CASE ~ validateInputParameters(request)
  <2>1. phase' = "done" /\ verdict' = "InvalidFields" /\ tracer' = tracer
    BY <1>4 DEF ValidateInput
  <2>2. Shape' /\ Begun' /\ Collected(tracer, trace)'
    BY <1>1, <1>2, <2>1 DEF IInv, Shape, Begun, level
  <2>3. ByEntities' /\ ScannerFollowsRules'
    BY <1>1, <2>1 DEF ByEntities, ScannerFollowsRules
  <2> QED BY <2>2, <2>3 DEF IInv
<1> QED BY <1>3, <1>4

LEMMA EntityStepIInv == IInv /\ EntityStep => IInv'
<1> SUFFICES ASSUME IInv, EntityStep PROVE IInv'
  OBVIOUS
<1>1. /\ phase = "simulating" /\ hasEntity(Entities[level]) /\ Len(trace) < MaxSteps
      /\ UNCHANGED <<request, stakes, phase, result, verdict>>
  BY DEF EntityStep
<1>2. PICK s \in Steps : /\ trace' = Append(trace, [level |-> level, s |-> s])
                         /\ tracer' = stepInside(tracer, s)
  BY DEF EntityStep
<1>3. PICK lv \in 1..3 : lv = level
  BY <1>1, Simulating
<1>4. /\ Collected(tracer, trace) /\ LastKnown(tracer, trace) /\ lv = Len(tracer.numberLevels)
      /\ trace \in TraceType
  BY <1>1, <1>3, Simulating DEF Collected
<1>5. /\ Collected(tracer, trace)' /\ LastKnown(tracer, trace)' /\ level' = lv
  BY <1>2, <1>3, <1>4, InsideCollects DEF level
<1>6. /\ Len(trace') = Len(trace) + 1 /\ DOMAIN trace' = 1..(Len(trace) + 1)
      /\ \A i \in DOMAIN trace : trace'[i] = trace[i]
      /\ trace'[Len(trace) + 1].level = lv
      /\ DOMAIN trace = 1..Len(trace) /\ Len(trace) \in Nat
  BY <1>2, <1>3, <1>4 DEF TraceType
<1>7. Shape'
  BY <1>1, <1>5, <1>6, StepsAssumption DEF IInv, Shape
<1>8. Begun'
  <2>1. validateInputParameters(request)
    BY <1>1, Simulating
  <2> QED BY <1>1, <1>5, <2>1 DEF Begun
<1>9. ByEntities'
  <2>1. \A i \in DOMAIN trace : hasEntity(Entities[trace'[i].level])
    BY <1>6 DEF IInv, ByEntities
  <2>2. hasEntity(Entities[trace'[Len(trace) + 1].level])
    BY <1>1, <1>3, <1>6
  <2>3. \A e : hasEntity(e)' <=> hasEntity(e)
    BY <1>1 DEF hasEntity
  <2>4. \A i \in DOMAIN trace' : i \in DOMAIN trace \/ i = Len(trace) + 1
    BY <1>6
  <2> QED BY <2>1, <2>2, <2>3, <2>4 DEF ByEntities
<1>10. ScannerFollowsRules'
  BY <1>1 DEF ScannerFollowsRules
<1> QED BY <1>5, <1>7, <1>8, <1>9, <1>10 DEF IInv

LEMMA NumberMarkerIInv == IInv /\ NumberMarker => IInv'
<1> SUFFICES ASSUME IInv, NumberMarker PROVE IInv'
  OBVIOUS
<1>1. /\ phase = "simulating" /\ level < Len(Entities)
      /\ tracer' = stepAtTop(left, "NUMBER")
      /\ UNCHANGED <<request, stakes, phase, trace, result, verdict>>
  BY DEF NumberMarker
<1>2. PICK lv \in 1..3 : lv = level
  BY <1>1, Simulating
<1>3. lv \in 1..2 /\ lv \in Nat
  BY <1>1, <1>2, EntitiesAre
<1>4. Collected(left, trace) /\ left.lastOp # "GAS" /\ lv = Len(left.numberLevels)
  BY <1>1, <1>2, LeftCollects
<1>5. /\ Collected(stepAtTop(left, "NUMBER"), trace)
      /\ stepAtTop(left, "NUMBER").lastOp = ""
      /\ Len(stepAtTop(left, "NUMBER").numberLevels) = lv + 1
  BY <1>3, <1>4, TopCollects
<1>6. Collected(tracer, trace)' /\ tracer'.lastOp = "" /\ Len(tracer'.numberLevels) = lv + 1
  BY <1>1, <1>5
<1>7. level' = lv + 1
  BY <1>6 DEF level
<1>8. level' \in 0..3 /\ level' # 0
  BY <1>3, <1>7
<1>9. LastKnown(tracer, trace)'
  <2>1. ASSUME trace # <<>> PROVE trace[Len(trace)].level # lv + 1
    <3>1. trace \in TraceType /\ \A i \in DOMAIN trace : trace[i].level <= lv
      BY <1>1, <1>2, Simulating DEF Collected
    <3>2. Len(trace) \in DOMAIN trace
      BY <2>1, <3>1 DEF TraceType
    <3>3. trace[Len(trace)].level \in 1..3 /\ trace[Len(trace)].level <= lv
      BY <3>1, <3>2, StepOf
    <3> QED BY <1>3, <3>3
  <2> QED BY <1>1, <1>6, <2>1 DEF LastKnown
<1>10. Shape'
  BY <1>1, <1>8 DEF IInv, Shape
<1>11. Begun'
  <2>1. validateInputParameters(request)
    BY <1>1, Simulating
  <2> QED BY <1>1, <1>8, <1>9, <2>1 DEF Begun, validateInputParameters
<1>12. ByEntities' /\ ScannerFollowsRules'
  BY <1>1 DEF IInv, ByEntities, ScannerFollowsRules, hasEntity
<1> QED BY <1>6, <1>10, <1>11, <1>12 DEF IInv

\* Only the scanner answers OpcodeValidation.
LEMMA WhoRefuses ==
  ASSUME NEW t, NEW r, r.kind = "ValidationResult", NEW ok \in BOOLEAN,
         parse(scannedOp, stakes, t, r.context) = IF ok THEN "passes" ELSE "OpcodeValidation"
  PROVE  /\ validateUserOp(t, r) = "OpcodeValidation" <=> ~ request.unsafe /\ ~ ok
         /\ validateUserOp(t, r) # "Error"
<1>1. resultVerdict(r) \notin {"OpcodeValidation", "Error"}
  BY DEF resultVerdict
<1> QED BY <1>1 DEF validateUserOp

LEMMA FinishIInv == IInv /\ Finish => IInv'
<1> SUFFICES ASSUME IInv, Finish PROVE IInv'
  OBVIOUS
<1> DEFINE last == stepAtTop(left, "REVERT")
<1>1. /\ phase = "simulating" /\ phase' = "done" /\ tracer' = last
      /\ UNCHANGED <<request, stakes, trace>>
  BY DEF Finish
<1>2. PICK r \in LikelyResults :
        /\ level = Len(Entities) \/ r.kind # "ValidationResult"
        /\ r.kind = "FailedOpPaymaster" \/ r.context => hasEntity("paymaster")
        /\ result' = r /\ verdict' = validateUserOp(last, r)
  BY DEF Finish
<1>3. PICK lv \in 1..3 : lv = level
  BY <1>1, Simulating
<1>4. lv \in Nat /\ lv # 0
  BY <1>3
<1>5. Collected(left, trace) /\ left.lastOp # "GAS" /\ lv = Len(left.numberLevels)
  BY <1>1, <1>3, LeftCollects
<1>6. Collected(last, trace) /\ last.lastOp = "" /\ Len(last.numberLevels) = lv
  BY <1>4, <1>5, TopCollects
<1> HIDE DEF last
<1>7. Collected(tracer, trace)' /\ Len(tracer'.numberLevels) = lv
  BY <1>1, <1>6
<1>8. level' = lv
  BY <1>7 DEF level
<1>9. Shape'
  <2>1. level' \in 0..3
    BY <1>4, <1>3, <1>8
  <2> QED BY <1>1, <1>2, <2>1 DEF IInv, Shape
<1>10. Begun' /\ ByEntities'
  BY <1>1 DEF IInv, Begun, ByEntities, hasEntity
<1>11. ScannerFollowsRules'
  <2> SUFFICES ASSUME r.kind = "ValidationResult"
               PROVE  /\ verdict' = "OpcodeValidation" <=> ~ request.unsafe /\ ~ Rules'
                      /\ verdict' # "Error"
    BY <1>1, <1>2 DEF ScannerFollowsRules
  <2> DEFINE ok == (\A i \in DOMAIN trace : stepRule(i)) /\ (r.context => hasStake("paymaster"))
  <2>1. Ended(last)
    <3>1. level = 3
      BY <1>2, EntitiesAre
    <3> QED BY <1>1, <1>3, <1>6, <3>1, Simulating DEF Ended
  <2>2. r.context \in BOOLEAN /\ (r.context => hasEntity("paymaster"))
    BY <1>2 DEF LikelyResults, Results
  <2>3. parse(scannedOp, stakes, last, r.context) = IF ok THEN "passes" ELSE "OpcodeValidation"
    BY <2>1, <2>2, ParseByRules
  <2>4. Rules' <=> ok
    BY <1>1, <1>2 DEF Rules, stepRule, accessRule, hashed, hasStake
  <2>5. ok \in BOOLEAN
    OBVIOUS
  <2> HIDE DEF ok
  <2> QED BY <1>2, <2>3, <2>4, <2>5, WhoRefuses
<1> QED BY <1>7, <1>9, <1>10, <1>11 DEF IInv

LEMMA StutterIInv == IInv /\ UNCHANGED vars => IInv'
<1> SUFFICES ASSUME IInv, UNCHANGED vars PROVE IInv'
  OBVIOUS
<1>0. /\ request' = request /\ stakes' = stakes /\ phase' = phase /\ tracer' = tracer
      /\ trace' = trace /\ result' = result /\ verdict' = verdict
  BY DEF vars
<1>1. Shape' /\ Begun' /\ ByEntities' /\ Collected(tracer, trace)'
  BY <1>0 DEF IInv, Shape, Begun, ByEntities, level, hasEntity
<1>2. ScannerFollowsRules'
  <2>1. Rules' <=> Rules
    BY <1>0 DEF Rules, stepRule, accessRule, hashed, hasStake
  <2> QED BY <1>0, <2>1 DEF IInv, ScannerFollowsRules
<1> QED BY <1>1, <1>2 DEF IInv

\* The inductive invariant: what the tracer has collected is of the steps of the
\* entities so far, and a verdict follows from the rules.
THEOREM ValidationInvariant == Spec => []IInv
<1>1. IInv /\ [Next]_vars => IInv'
  BY ValidateInputIInv, EntityStepIInv, NumberMarkerIInv, FinishIInv, StutterIInv DEF Next
<1> QED BY <1>1, InitIInv, PTL DEF Spec

\* Types; the levels are those of the entities, and no level counts an opcode
\* that no step on it was (the dictionaries of bundlerCollectorTracer).
THEOREM ValidationType == Spec => []TypeOK
<1>1. IInv => TypeOK
  <2> SUFFICES ASSUME IInv PROVE TypeOK
    OBVIOUS
  <2>1. level \in 0..3 /\ Collected(tracer, trace) /\ level = Len(tracer.numberLevels)
    BY DEF IInv, Shape, level
  <2>2. ASSUME NEW n \in 1..level, NEW o \in Opcodes \ {"STOP"}
        PROVE  tracer.numberLevels[n].opcodes[o] <=
                 Cardinality({i \in DOMAIN trace : trace[i].level = n /\ trace[i].s.op = o})
    <3>1. LevelCollected(tracer, trace, n) /\ trace \in TraceType
      BY <2>1 DEF Collected
    <3>2. tracer.numberLevels[n].opcodes[o] = Cardinality(Counted(tracer, trace, n, o))
      BY <3>1 DEF LevelCollected
    <3>3. {i \in DOMAIN trace : trace[i].level = n /\ trace[i].s.op = o} = Doing(trace, n, o)
      BY DEF Doing, At
    <3> QED BY <3>1, <3>2, <3>3, CountedFinite
  <2> QED BY <2>1, <2>2, EntitiesAre DEF IInv, Shape, TypeOK
<1> QED BY <1>1, ValidationInvariant, PTL

\* For every operation, stakes and code of the entities: the scanner refuses an
\* operation exactly if a step of its validation breaks one of the rules it enforces
\* (that on value is none of them), and never fails with an error of its own.
THEOREM ScannerIsExact == Spec => []ScannerFollowsRules
<1>1. IInv => ScannerFollowsRules
  BY DEF IInv
<1> QED BY <1>1, ValidationInvariant, PTL
=============================================================================
