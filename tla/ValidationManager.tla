-------------------------- MODULE ValidationManager --------------------------
(***************************************************************************)
(* Validation of one user operation: its fields, the simulation that geth  *)
(* traces, and the judgement of the trace and of the result                *)
(* (packages/bundler/src/modules/ValidationManager.ts).  The EVM is        *)
(* external: it runs the factory, the account and the paymaster in turn.   *)
(***************************************************************************)
EXTENDS FiniteSets, parseScannerResult

CONSTANTS
  Requests,       \* what clients send, with the mode the bundler runs in
  Stakes,         \* the stakes of the entities there may be
  Steps,          \* what the code of an entity may do, a step each
  MaxSteps        \* bound on the steps of a simulation, for model checking

\* A step has what its opcode takes from the stack (BundlerCollectorTracer.ts).
ASSUME StepsAssumption ==
  /\ MaxSteps \in Nat
  /\ \A s \in Steps :
       /\ s.op \in Opcodes \cup Unimportant
       /\ s.oog \in BOOLEAN
       /\ s.op \in {"SLOAD", "SSTORE"} => s.slot.off \in Nat
       /\ s.op = "KECCAK256" => s.len \in Nat
       /\ s.op = "CALL" => s.reverted \in BOOLEAN /\ s.value \in BOOLEAN

ASSUME RequestsAssumption ==
  \A r \in Requests : r.initCode \in Nat /\ r.paymasterAndData \in Nat /\ r.unsafe \in BOOLEAN

ASSUME StakesAssumption ==
  \A info \in Stakes : \A entity \in ToSet(Entities) :
    info[entity].stake \in Nat /\ info[entity].unstakeDelaySec \in Nat

VARIABLES
  request, stakes,
  phase,          \* of the validation
  tracer,         \* what the tracer has collected
  trace,          \* what the entities did, by level
  result,         \* what the simulation reverted with
  verdict

vars == <<request, stakes, phase, tracer, trace, result, verdict>>

\* getAddr: 42 characters hold an address.
present(data) == data >= 42

hasEntity(entity) ==
  CASE entity = "factory" -> present(request.initCode)
    [] entity = "paymaster" -> present(request.paymasterAndData)
    [] OTHER -> TRUE

\* What the scanner reads of the operation.
scannedOp ==
  [initCode |-> request.initCode > 2,
   addr |-> [e \in ToSet(Entities) |-> IF hasEntity(e) THEN e ELSE NoAddr]]

Results ==
  [kind : {"ValidationResult", "FailedOp", "FailedOpPaymaster", "other"},
   deadline : {"none", "passed", "ahead"}, aggregator : BOOLEAN, sigFailed : BOOLEAN,
   context : BOOLEAN]

Clean == [kind |-> "ValidationResult", deadline |-> "none", aggregator |-> FALSE,
          sigFailed |-> FALSE, context |-> FALSE]

\* One thing at a time is other than it should be.
LikelyResults ==
  {r \in Results : Cardinality({f \in DOMAIN r : r[f] # Clean[f]}) <= 1}
-----------------------------------------------------------------------------
(* The conditions, in the order in which the code has them *)

validateInputParameters(r) ==
  /\ r.entryPoint = "ours" /\ r.hexFields
  /\ \A data \in {r.paymasterAndData, r.initCode} : data = 2 \/ data >= 42
  /\ r.enoughPreVerificationGas

\* _parseErrorResult and what surrounds it: anything but a result is an error.
simulationError(r) ==
  CASE r.kind = "FailedOp" -> "SimulateValidation"
    [] r.kind = "FailedOpPaymaster" -> "SimulatePaymasterValidation"
    [] OTHER -> "unknown"

\* The sign of the comparison is as the code has it: a deadline that passed.
resultVerdict(r) ==
  IF r.deadline = "ahead" THEN "ExpiresShortly"
  ELSE IF r.aggregator THEN "UnsupportedSignatureAggregator"
  ELSE IF r.sigFailed THEN "InvalidSignature"
  ELSE "accepted"

validateUserOp(t, r) ==
  IF r.kind # "ValidationResult" THEN simulationError(r)
  ELSE IF ~request.unsafe /\ parse(scannedOp, stakes, t, r.context) # "passes"
       THEN parse(scannedOp, stakes, t, r.context)
  ELSE resultVerdict(r)
-----------------------------------------------------------------------------
Init ==
  /\ request \in Requests /\ stakes \in Stakes
  /\ phase = "received"
  /\ tracer = noTrace /\ trace = <<>>
  /\ result = Clean /\ verdict = "none"

\* sendUserOperation checks the fields first; the EntryPoint then begins.
ValidateInput ==
  /\ phase = "received"
  /\ IF validateInputParameters(request)
     THEN /\ phase' = "simulating" /\ tracer' = stepAtTop(tracer, "other")
          /\ UNCHANGED verdict
     ELSE phase' = "done" /\ verdict' = "InvalidFields" /\ UNCHANGED tracer
  /\ UNCHANGED <<request, stakes, trace, result>>

level == Len(tracer.numberLevels)

EntityStep ==
  /\ phase = "simulating" /\ ~request.unsafe
  /\ hasEntity(Entities[level]) /\ Len(trace) < MaxSteps
  /\ \E s \in Steps :
       /\ trace' = Append(trace, [level |-> level, s |-> s])
       /\ tracer' = stepInside(tracer, s)
  /\ UNCHANGED <<request, stakes, phase, result, verdict>>

Stop == [op |-> "STOP", oog |-> FALSE]

left == IF hasEntity(Entities[level]) THEN stepInside(tracer, Stop) ELSE tracer

\* The entity returns, and the EntryPoint marks the end of its level.
NumberMarker ==
  /\ phase = "simulating" /\ level < Len(Entities)
  /\ tracer' = stepAtTop(left, "NUMBER")
  /\ UNCHANGED <<request, stakes, phase, trace, result, verdict>>

\* The simulation ends in the last level, or fails in one before, and is judged.
Finish ==
  /\ phase = "simulating"
  /\ tracer' = stepAtTop(left, "REVERT")
  /\ \E r \in LikelyResults :
       /\ level = Len(Entities) \/ r.kind # "ValidationResult"
       /\ r.kind = "FailedOpPaymaster" \/ r.context => hasEntity("paymaster")
       /\ result' = r /\ verdict' = validateUserOp(stepAtTop(left, "REVERT"), r)
  /\ phase' = "done"
  /\ UNCHANGED <<request, stakes, trace>>

Next == ValidateInput \/ EntityStep \/ NumberMarker \/ Finish

Spec == Init /\ [][Next]_vars
-----------------------------------------------------------------------------
(* The rules as the scanner enforces them, said of what the entities did.     *)
(* Two texts of the repository ask for more: "May not may CALL with value"    *)
(* (parseScannerResult), for which there is a property of its own, and GAS    *)
(* "only if not followed by "CALL"" (bundlerCollectorTracer), where the code  *)
(* also lets pass the other opcodes with CALL in their names, such as CALLER. *)

hashed(slot, addr) ==
  /\ slot.of = addr /\ slot.off \in 0..127
  /\ \E i \in DOMAIN trace :
       trace[i].s.op = "KECCAK256" /\ trace[i].s.of = addr /\ trace[i].s.len \in 21..511

hasStake(entity) == stakes[entity].stake >= 2 /\ stakes[entity].unstakeDelaySec >= 2

\* An access to storage that is not the sender's or the EntryPoint's is keyed by
\* the sender; or it is the entity's own, or keyed by it, and the entity staked.
accessRule(entity, s) ==
  \/ s.addr \in {"account", EntryPoint}
  \/ hashed(s.slot, "account") /\ (present(request.initCode) => hasStake(entity))
  \/ (s.addr = entity \/ hashed(s.slot, entity)) /\ ~hashed(s.slot, "account") /\ hasStake(entity)

stepRule(i) ==
  LET s == trace[i].s  entity == Entities[trace[i].level]
  IN  /\ ~s.oog /\ s.op # "TIMESTAMP"
      /\ s.op = "GAS" =>
           i < Len(trace) /\ trace[i+1].level = trace[i].level /\ trace[i+1].s.op \in NamedCall
      /\ s.op = "CREATE2" =>
           entity = "factory" /\ \A j \in 1..(i - 1) : trace[j].s.op # "CREATE2"
      /\ s.op = "CALL" /\ s.to = EntryPoint =>
           s.method = "depositTo" \/ (s.method = "0x" /\ ~s.reverted)
      /\ s.op \in {"SLOAD", "SSTORE"} => accessRule(entity, s)

Rules ==
  /\ \A i \in DOMAIN trace : stepRule(i)
  /\ result.context => hasStake("paymaster")
-----------------------------------------------------------------------------
(* Properties *)

\* Types; the levels are those of the entities, and what is counted happened.
TypeOK ==
  /\ request \in Requests /\ stakes \in Stakes /\ result \in LikelyResults
  /\ phase \in {"received", "simulating", "done"}
  /\ level \in 0..Len(Entities) /\ Len(trace) <= MaxSteps
  /\ \A n \in 1..level : \A o \in Opcodes \ {"STOP"} :
       tracer.numberLevels[n].opcodes[o] <=
         Cardinality({i \in DOMAIN trace : trace[i].level = n /\ trace[i].s.op = o})

\* The scanner sees counts, sets and levels; the rules it enforces speak of single
\* steps, in their order.  It refuses an operation exactly if a step of its
\* validation breaks one of them, whatever came before or after it, and never fails
\* with an error of its own: it gets a trace with all levels, and only entities of
\* the operation access storage (bundlerCollectorTracer, parseScannerResult).  The
\* rule on value is not among them.
ScannerFollowsRules ==
  phase = "done" /\ verdict # "InvalidFields" /\ result.kind = "ValidationResult" =>
    /\ verdict = "OpcodeValidation" <=> ~request.unsafe /\ ~Rules
    /\ verdict # "Error"

\* "May not may CALL with value" (parseScannerResult): an operation is refused if an
\* entity sends value to anything but the EntryPoint.
CallsWithValueAreRefused ==
  /\ phase = "done" /\ ~request.unsafe
  /\ verdict # "InvalidFields" /\ result.kind = "ValidationResult"
  /\ \E i \in DOMAIN trace :
       trace[i].s.op = "CALL" /\ trace[i].s.to # EntryPoint /\ trace[i].s.value
  => verdict = "OpcodeValidation"
=============================================================================
