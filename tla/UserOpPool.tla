----------------------------- MODULE UserOpPool -----------------------------
(***************************************************************************)
(* What the mempool of the bundler promises, without the array that keeps  *)
(* it: a set of user operations, at most one for each sender and nonce,    *)
(* where an operation is replaced only by one that pays over 10% more.     *)
(* MempoolManager, the array, is shown to implement Spec; Bundler, the     *)
(* server around it, uses the operators.                                   *)
(*                                                                         *)
(* The operators take the set, so that a caller may compose them within    *)
(* one synchronous stretch of code.                                        *)
(***************************************************************************)
EXTENDS Integers

CONSTANT Ops      \* the user operations clients may send, as records

VARIABLE pool     \* the operations waiting for a bundle

\* The strings of sender and nonce are compared, as the client spelled them.
SameKey(op1, op2) == op1.sender = op2.sender /\ op1.nonce = op2.nonce

\* newGas > oldGas * 1.1, on maxPriorityFeePerGas.
mayReplace(old, new) == 10 * new.fee > 11 * old.fee

SameKeyIn(p, op) == {o \in p : SameKey(o, op)}

accepts(p, op) == \A old \in SameKeyIn(p, op) : mayReplace(old, op)

\* Faulty variant: the operation with the same key stays.
AddedBeside(p, op) == p \cup {op}

added(p, op) == (p \ SameKeyIn(p, op)) \cup {op}

\* Faulty variant: every operation of the sender goes.
RemovedSender(p, op) == p \ {o \in p : o.sender = op.sender}

\* The entry with the operation's key goes, whichever operation it holds.
removed(p, op) == p \ SameKeyIn(p, op)

removedAll(p, ops) == {o \in p : \A op \in ops : ~SameKey(o, op)}
-----------------------------------------------------------------------------
Init == pool = {}

Add(op) ==
  /\ accepts(pool, op)
  /\ pool' = added(pool, op)

Drop == \E gone \in SUBSET pool : pool' = pool \ gone

Next == (\E op \in Ops : Add(op)) \/ Drop

Spec == Init /\ [][Next]_pool
-----------------------------------------------------------------------------
\* No two waiting operations have the same sender and nonce (addUserOp
\* replaces, removeUserOp finds by key).
KeysUnique == \A op1, op2 \in pool : SameKey(op1, op2) => op1 = op2

\* Only operations that clients sent are waiting (addUserOp).
TypeOK == pool \subseteq Ops
=============================================================================
