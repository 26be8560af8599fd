------------------------- MODULE MCValidationManager -------------------------
(* Requests with a factory, or with a paymaster, and others that are wrong    *)
(* in one field; what the entities do covers every class of opcode, slots at  *)
(* both ends of a structure, each kind of call to the EntryPoint, and a call  *)
(* that sends value to something else.                                        *)
EXTENDS ValidationManager

Sponsored ==
  [entryPoint |-> "ours", hexFields |-> TRUE, paymasterAndData |-> 42, initCode |-> 2,
   enoughPreVerificationGas |-> TRUE, unsafe |-> FALSE]

Valid ==
  { [Sponsored EXCEPT !.paymasterAndData = 2, !.initCode = 43],
    Sponsored, [Sponsored EXCEPT !.unsafe = TRUE] }

MCRequests ==
  Valid \cup
  { [Sponsored EXCEPT !.entryPoint = "other"], [Sponsored EXCEPT !.hexFields = FALSE],
    [Sponsored EXCEPT !.paymasterAndData = 41], [Sponsored EXCEPT !.initCode = 41],
    [Sponsored EXCEPT !.enoughPreVerificationGas = FALSE] }

Info(s, d) == [stake |-> s, unstakeDelaySec |-> d]

\* All alike, but for a paymaster whose stake can be withdrawn at once.
MCStakes ==
  { [e \in ToSet(Entities) |-> i] : i \in {Info(0, 0), Info(2, 2)} }
  \cup { [e \in ToSet(Entities) |-> IF e = "paymaster" THEN Info(2, 1) ELSE Info(1, 2)] }

Plain(o) == [op |-> o, oog |-> FALSE]
Access(o, a, of, off) == [op |-> o, oog |-> FALSE, addr |-> a, slot |-> [of |-> of, off |-> off]]
Hash(of, len) == [op |-> "KECCAK256", oog |-> FALSE, of |-> of, len |-> len]
Call(to, m, v, r) ==
  [op |-> "CALL", oog |-> FALSE, to |-> to, method |-> m, value |-> v, reverted |-> r]

MCSteps ==
  { Plain(o) : o \in {"GAS", "PUSH1", "CALLER", "CREATE2", "TIMESTAMP"} }
  \cup { [Plain("PUSH1") EXCEPT !.oog = TRUE] }
  \cup { Hash("account", 64), Hash("account", 512), Hash("paymaster", 64) }
  \cup { Access("SLOAD", "token", "account", 127), Access("SSTORE", "token", "account", 128),
         Access("SLOAD", "token", "paymaster", 0), Access("SSTORE", "paymaster", "data", 0),
         Access("SLOAD", "account", "data", 0) }
  \cup { Call(EntryPoint, "0x", TRUE, FALSE), Call(EntryPoint, "0x", TRUE, TRUE),
         Call(EntryPoint, "depositTo", TRUE, TRUE), Call(EntryPoint, "withdrawTo", FALSE, FALSE),
         Call("token", "0x", TRUE, TRUE) }
=============================================================================
