-------------------------- MODULE MCMempoolManager --------------------------
(* Two senders.  s1 has one nonce offered at three fees around the 10% rule  *)
(* (10 -> 11 is refused, 10 -> 12 accepted) and a second nonce; s2 pays with *)
(* the same paymaster.                                                       *)
EXTENDS MempoolManager

CONSTANTS pm, fa

Op(s, n, f, p, d) == [sender |-> s, nonce |-> n, fee |-> f, paymaster |-> p, factory |-> d]

MCOps ==
  { Op("s1", 0, 10, NoAddr, NoAddr), Op("s1", 0, 11, pm, NoAddr),
    Op("s1", 0, 12, pm, NoAddr), Op("s1", 1, 10, NoAddr, NoAddr),
    Op("s2", 0, 11, pm, fa) }
=============================================================================
