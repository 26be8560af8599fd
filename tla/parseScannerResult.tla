-------------------------- MODULE parseScannerResult --------------------------
(***************************************************************************)
(* The judgement of a traced validation: no banned opcodes, no storage     *)
(* but the sender's own and what is keyed by the sender, and for staked    *)
(* entities what is their own (packages/bundler/src/parseScannerResult.ts). *)
(*                                                                         *)
(* A slot is the hash of something that starts with the address `of`, plus *)
(* an offset; one that is not has an `of` that is no address.              *)
(***************************************************************************)
EXTENDS BundlerCollectorTracer

Entities == <<"factory", "account", "paymaster">>      \* by level
EntryPoint == "entryPoint"
NoAddr == "undefined"                                   \* of an entity that is not in the operation
StructSize == 128

staked(info) == 1 < info.stake /\ 1 < info.unstakeDelaySec

\* The name of a method is known from its ABI, or is its selector; of a call
\* that reverted only the former is kept, but also its value.  The last entry is
\* the top-level one.
parseCallStack(calls) ==
  {[to |-> c.to, method |-> IF c.reverted /\ c.method = "0x" THEN "undefined" ELSE c.method,
    value |-> c.reverted /\ c.value] : c \in calls}
    \cup {[to |-> "undefined", method |-> "validateUserOp", value |-> FALSE]}

\* Faulty variant: the window is one slot too long.
AssociatedWithOneMore(slot, addr, keccak) ==
  slot.of = addr /\ addr \in keccak /\ slot.off <= StructSize

\* parseEntitySlots and associatedWith.  The comparison of the slot with the
\* padded address is never true: only the latter starts with 0x.
associatedWith(slot, addr, keccak) ==
  slot.of = addr /\ addr \in keccak /\ slot.off < StructSize

allowedSlot(op, entity, a, keccak) ==
  \/ a.addr \in {op.addr["account"], EntryPoint, op.addr[entity]}
  \/ associatedWith(a.slot, op.addr["account"], keccak)
  \/ associatedWith(a.slot, op.addr[entity], keccak)

\* Faulty variant: what is keyed by the sender is free in every operation.
StakeUnlessSenders(op, entity, a, keccak) ==
  /\ a.addr \notin {op.addr["account"], EntryPoint}
  /\ ~associatedWith(a.slot, op.addr["account"], keccak)

\* What is keyed by the sender needs a stake only beside an initCode.
needsStake(op, entity, a, keccak) ==
  /\ a.addr \notin {op.addr["account"], EntryPoint}
  /\ associatedWith(a.slot, op.addr["account"], keccak) => op.initCode

bannedOpCodes == {"TIMESTAMP", "GAS"}

opcodesPass(level, entity) ==
  /\ ~level.oog
  /\ \A o \in bannedOpCodes : level.opcodes[o] = 0
  /\ level.opcodes["CREATE2"] <= IF entity = "factory" THEN 1 ELSE 0

\* Without a level there is nothing to look at; without the entity, no stake.
entityPasses(op, stakes, t, context, index) ==
  LET entity == Entities[index]  level == t.numberLevels[index]
      stake == op.addr[entity] # NoAddr /\ staked(stakes[entity])
  IN  /\ index <= Len(t.numberLevels)
      /\ opcodesPass(level, entity)
      /\ \A a \in level.access :
           /\ allowedSlot(op, entity, a, t.keccak)
           /\ needsStake(op, entity, a, t.keccak) => stake
      /\ entity = "paymaster" /\ context => stake

\* What is thrown if an entity does not pass: an access at the level of one that is
\* not in the operation is an internal error.
entityError(op, t, index) ==
  IF \/ index > Len(t.numberLevels)
     \/ op.addr[Entities[index]] = NoAddr /\ opcodesPass(t.numberLevels[index], Entities[index])
  THEN "Error" ELSE "OpcodeValidation"

\* The second condition on the calls is what is left of "May not may CALL with
\* value": two BigNumbers are never the same object, so it is that there is a call
\* to something else, whatever its value, and the top-level entry is one.
callsPass(calls) ==
  LET callStack == parseCallStack(calls)
  IN  /\ ~ \E call \in callStack : call.to = EntryPoint /\ call.method \notin {"0x", "depositTo"}
      /\ \E call \in callStack : call.to # EntryPoint

\* The entities are judged in order, up to the first that does not pass.
parse(op, stakes, t, context) ==
  LET failing == {index \in DOMAIN Entities : ~entityPasses(op, stakes, t, context, index)}
      first == CHOOSE index \in failing : \A other \in failing : index <= other
  IN  IF Len(t.numberLevels) < 2 THEN "Error"
      ELSE IF ~callsPass(t.calls) THEN "OpcodeValidation"
      ELSE IF failing # {} THEN entityError(op, t, first)
      ELSE "passes"
=============================================================================
