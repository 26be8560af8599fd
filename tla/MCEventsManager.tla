--------------------------- MODULE MCEventsManager ---------------------------
(* Two operations of an account that exists, one of them sponsored, and one    *)
(* that deploys its account.  The paymaster's address has no letters, so both  *)
(* its spellings are one; the factory has two.                                 *)
EXTENDS UserOpMethodHandler

CONSTANTS acc1, acc2, pm, fa, faChecksummed

MCOps ==
  { [sender |-> acc1, nonce |-> 0, paymaster |-> pm, factory |-> NoAddr],
    [sender |-> acc1, nonce |-> 1, paymaster |-> NoAddr, factory |-> NoAddr],
    [sender |-> acc2, nonce |-> 0, paymaster |-> pm, factory |-> fa] }

CheckedAddress ==
  [a \in Addrs \cup {NoAddr} |-> IF a = fa THEN faChecksummed ELSE a]
=============================================================================
