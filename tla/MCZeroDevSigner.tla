--------------------------- MODULE MCZeroDevSigner ---------------------------
(* Two calls when fees fall: what the second starts with is too low to replace *)
(* the first, even after one increase (34, then 38).  A paymaster sets fees,   *)
(* and Gelato none, only where nothing else is special, to keep it small.      *)
EXTENDS ZeroDevSigner

CONSTANTS c1, c2

FallingFees == [c \in Calls |-> IF c = c1 THEN {40} ELSE {34}]

MCConfigs ==
  {cfg \in ConfigType :
     ~(cfg.fallback /\ cfg.paymasterFees) /\ (cfg.gelato => ~cfg.session /\ ~cfg.paymasterFees)}
=============================================================================
