------------------------------ MODULE MCBundler ------------------------------
(* Small instances of the bundler.  Fees straddle the 10% rule; gas 1, and    *)
(* once 2, against a bundle of 2, and one operation no bundle can hold.       *)
EXTENDS BundlerProperties, TLC

CONSTANTS pm, pmChecksummed, badPm, fa

Op(s, n, f, p, d, g) ==
  [sender |-> s, nonce |-> n, fee |-> f, paymaster |-> p, factory |-> d,
   prefund |-> 1, gas |-> g]

\* A sponsored operation, its unsponsored replacement, and the next nonce of its sender.
first == Op("s1", 0, 10, pm, NoAddr, 1)
replacement == Op("s1", 0, 12, NoAddr, NoAddr, 1)
second == Op("s1", 1, 11, NoAddr, NoAddr, 1)
\* Other senders: sponsored, of a blacklisted paymaster, deploying, oversized,
\* and as big as a bundle.
other == Op("s2", 0, 11, pm, NoAddr, 1)
blacklisted == Op("s3", 0, 10, badPm, NoAddr, 1)
deploying == Op("s3", 0, 12, NoAddr, fa, 1)
oversized == Op("s4", 0, 10, NoAddr, NoAddr, 3)
large == Op("s5", 0, 13, pm, NoAddr, 2)

AllOps == {first, replacement, second, other, blacklisted, deploying, oversized, large}
MostOps == AllOps \ {deploying, oversized}
FewOps == {first, replacement, second, other}

CheckedAddress == (pm :> pmChecksummed) @@ (badPm :> badPm)

Immediate == [interval |-> TRUE, size |-> 1]
OnDemand == [interval |-> FALSE, size |-> 3]
ImmediateOnly == {Immediate}
BothModes == {Immediate, OnDemand}

Symmetry == Permutations(Requests)
=============================================================================
