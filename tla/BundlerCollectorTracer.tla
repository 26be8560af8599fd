----------------------- MODULE BundlerCollectorTracer -----------------------
(***************************************************************************)
(* The tracer that geth runs over simulateValidation: what it collects     *)
(* step by step, split into levels by the NUMBER opcodes of the EntryPoint *)
(* (packages/bundler/src/BundlerCollectorTracer.ts).                       *)
(*                                                                         *)
(* One opcode stands for each class the scanner tells apart: TIMESTAMP for *)
(* the banned ones, PUSH1 for those not worth counting, CALL for the calls *)
(* and CALLER for the other opcodes whose names contain "CALL".            *)
(***************************************************************************)
EXTENDS Integers, SequencesExt

Unimportant == {"PUSH1"}
NamedCall == {"CALL", "CALLER"}
Opcodes == {"GAS", "CREATE2", "TIMESTAMP", "STOP", "SLOAD", "SSTORE", "KECCAK256"} \cup NamedCall

newLevel == [opcodes |-> [o \in Opcodes |-> 0], access |-> {}, oog |-> FALSE]

noTrace == [numberLevels |-> <<>>, lastOp |-> "", keccak |-> {}, calls |-> {}]

countSlot(list, key) == [list EXCEPT ![key] = @ + 1]

\* GAS counts only if what follows does not contain "CALL".
countGas(t, opcodes, op) ==
  IF t.lastOp = "GAS" /\ op \notin NamedCall THEN countSlot(opcodes, "GAS") ELSE opcodes

\* Faulty variant: GAS counts at once, too.
CountOpAndGas(opcodes, op) ==
  IF op \in Unimportant THEN opcodes ELSE countSlot(opcodes, op)

countOp(opcodes, op) ==
  IF op \in {"GAS"} \cup Unimportant THEN opcodes ELSE countSlot(opcodes, op)

\* A step of the EntryPoint itself, at depth 1.
stepAtTop(t, op) ==
  [t EXCEPT !.lastOp = "",
            !.numberLevels = IF op = "NUMBER" \/ @ = <<>> THEN Append(@, newLevel) ELSE @]

\* A step of what the EntryPoint calls; enter and exit add the calls.
stepInside(t, s) ==
  [t EXCEPT
     !.lastOp = s.op,
     !.numberLevels[Len(t.numberLevels)] =
       [opcodes |-> countOp(countGas(t, @.opcodes, s.op), s.op),
        access  |-> @.access \cup (IF s.op \in {"SLOAD", "SSTORE"} THEN {[addr |-> s.addr, slot |-> s.slot]} ELSE {}),
        oog     |-> @.oog \/ s.oog],
     !.keccak = @ \cup (IF s.op = "KECCAK256" /\ s.len > 20 /\ s.len < 512 THEN {s.of} ELSE {}),
     !.calls = @ \cup (IF s.op = "CALL" THEN {[to |-> s.to, method |-> s.method,
                                           value |-> s.value, reverted |-> s.reverted]} ELSE {})]
=============================================================================
