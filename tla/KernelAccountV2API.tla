-------------------------- MODULE KernelAccountV2API --------------------------
(***************************************************************************)
(* How the API of a Kernel v2 account fills in and signs an operation: it  *)
(* asks the chain, one call after the other, whether the account is        *)
(* deployed, for its nonce and, once for the estimate and once for the     *)
(* signature, for the mode in which its validator is to be used with the   *)
(* function that is called; in between the paymaster may replace the call  *)
(* (packages/sdk/src/KernelAccountV2API.ts, BaseAccountAPI.ts, the         *)
(* validators, ZeroDevSigner.getDummySignature).                           *)
(*                                                                         *)
(* The account is shared: other sessions deploy it, use up its nonces and  *)
(* change its validators in between.  The Kernel contract is external.     *)
(***************************************************************************)
EXTENDS Integers

CONSTANTS
  Selectors,   \* of the functions of the account and its executors
  MaxNonce     \* bound on the operations of the account, for model checking

ASSUME MaxNonceAssumption == MaxNonce \in Nat

VARIABLES
  validator,    \* how the client set up its validator
  kernel,       \* the account, on chain
  isPhantom,    \* not yet known to be deployed
  pc,           \* the call whose answer the build awaits
  op,           \* what is known of the operation
  undisturbed,  \* since the build began no one else changed the account, no call failed
  outcome       \* of the last operation

vars == <<validator, kernel, isPhantom, pc, op, undisturbed, outcome>>

Modes == {"sudo", "plugin", "enable"}

\* `default`: the account is created with this validator; `approved`: the selector
\* its enableSignature was given for, by the owner of the other validator.
Validators ==
  [kind : {"ecdsa", "sessionKey", "killSwitch"}, mode : Modes, default : BOOLEAN,
   approved : Selectors \cup {"none"}]

\* `asked` is the selector of the call the client wants, `selector` that of callData.
NoOp == [asked |-> "none", selector |-> "none", dummy |-> "none", initCode |-> FALSE, nonce |-> 0, prefix |-> "none", enables |-> FALSE]

Steps == {"dummyDefault", "dummyPlugin", "initCode", "nonce", "readNonce", "sponsor", "signDefault",
          "signPlugin"}
-----------------------------------------------------------------------------
Init ==
  /\ validator \in Validators
  /\ kernel = [deployed |-> FALSE, nonce |-> 0, isDefault |-> validator.default, enabled |-> {}]
  /\ isPhantom = TRUE
  /\ pc = "idle" /\ op = NoOp
  /\ undisturbed = TRUE /\ outcome = "none"

Begin ==
  /\ pc = "idle"
  /\ pc' = "dummyDefault"
  /\ \E selector \in Selectors : op' = [NoOp EXCEPT !.asked = selector, !.selector = selector]
  /\ undisturbed' = TRUE /\ outcome' = "none"
  /\ UNCHANGED <<validator, kernel, isPhantom>>

\* Faulty variant: the estimate is made for the configured mode.
ResolvesForConfigured(mode) ==
  IF pc \in {"dummyDefault", "dummyPlugin"}
  THEN pc' = "initCode" /\ op' = [op EXCEPT !.dummy = validator.mode]
  ELSE /\ pc' = "built"
       /\ op' = [op EXCEPT !.enables = (mode = "enable"),
                           !.prefix = IF mode = "enable" THEN mode ELSE validator.mode]

\* The build goes on: the mode is for the dummy signature or for the real one,
\* whose prefix is the configured mode unless it brings the data to enable with.
resolvesTo(mode) ==
  IF pc \in {"dummyDefault", "dummyPlugin"}
  THEN pc' = "initCode" /\ op' = [op EXCEPT !.dummy = mode]
  ELSE /\ pc' = "built"
       /\ op' = [op EXCEPT !.enables = (mode = "enable"),
                           !.prefix = IF mode = "enable" THEN mode ELSE validator.mode]

\* Faulty variant: a validator that was to be a plugin is taken for one.
FallbackToOwnMode == validator.mode

\* The catch of resolveValidatorMode.
modeOnError == IF validator.mode = "plugin" THEN "enable" ELSE validator.mode

\* Whether the execution of the selector names the validator, with its data: the
\* kill switch compares the time of its last use with a time to come.
isPluginEnabled(selector) == selector \in kernel.enabled /\ validator.kind # "killSwitch"

\* getDefaultValidator, of a contract that may not be there.
ReadDefault ==
  /\ pc \in {"dummyDefault", "signDefault"}
  /\ IF ~kernel.deployed THEN resolvesTo(modeOnError)
     ELSE IF kernel.isDefault THEN resolvesTo("sudo")
     ELSE pc' = (IF pc = "dummyDefault" THEN "dummyPlugin" ELSE "signPlugin") /\ UNCHANGED op
  /\ UNCHANGED <<validator, kernel, isPhantom, undisturbed, outcome>>

ReadPlugin ==
  /\ pc \in {"dummyPlugin", "signPlugin"}
  /\ resolvesTo(IF isPluginEnabled(op.selector) THEN "plugin" ELSE "enable")
  /\ UNCHANGED <<validator, kernel, isPhantom, undisturbed, outcome>>

\* Faulty variant: the length of the code is compared the other way round.
PhantomIfCode == isPhantom /\ kernel.deployed

\* checkAccountPhantom: the code is read as long as there was none.
phantomNow == isPhantom /\ ~kernel.deployed

ReadInitCode ==
  /\ pc = "initCode"
  /\ isPhantom' = phantomNow
  /\ op' = [op EXCEPT !.initCode = phantomNow]
  /\ pc' = "nonce"
  /\ UNCHANGED <<validator, kernel, undisturbed, outcome>>

\* getNonce checks again.
CheckNonce ==
  /\ pc = "nonce"
  /\ isPhantom' = phantomNow
  /\ pc' = IF phantomNow THEN "sponsor" ELSE "readNonce"
  /\ UNCHANGED <<validator, kernel, op, undisturbed, outcome>>

ReadNonce ==
  /\ pc = "readNonce"
  /\ op' = [op EXCEPT !.nonce = kernel.nonce]
  /\ pc' = "sponsor"
  /\ UNCHANGED <<validator, kernel, isPhantom, undisturbed, outcome>>

\* getPaymasterResp: callData may become a call of another function, such as the
\* batch that approves the token first; if the paymaster fails it is as it was.
AskPaymaster ==
  /\ pc = "sponsor"
  /\ \E selector \in Selectors : op' = [op EXCEPT !.selector = selector]
  /\ pc' = "signDefault"
  /\ UNCHANGED <<validator, kernel, isPhantom, undisturbed, outcome>>

\* A call of the node fails: the mode is resolved by the catch, the rest throws.
ReadFails ==
  /\ pc \in Steps
  /\ undisturbed' = FALSE
  /\ IF pc \in {"dummyDefault", "dummyPlugin", "signDefault", "signPlugin"}
     THEN resolvesTo(modeOnError) /\ UNCHANGED outcome
     ELSE pc' = "idle" /\ outcome' = "threw" /\ UNCHANGED op
  /\ UNCHANGED <<validator, kernel, isPhantom>>
-----------------------------------------------------------------------------
(* The account: Kernel, its factory and the EntryPoint *)

signatureOk ==
  CASE op.prefix = "sudo" -> kernel.isDefault
    [] op.prefix = "plugin" -> kernel.deployed /\ op.selector \in kernel.enabled
    [] OTHER -> op.enables /\ validator.approved = op.selector /\ ~kernel.isDefault

valid == op.initCode = ~kernel.deployed /\ op.nonce = kernel.nonce /\ signatureOk

\* The mode was configured, and enabling was approved, as the account needs it for
\* the call.
Fits ==
  IF kernel.isDefault THEN validator.mode = "sudo"
  ELSE validator.mode = "plugin" /\ validator.approved = op.selector

Handle ==
  /\ pc = "built"
  /\ pc' = "idle"
  /\ IF valid /\ kernel.nonce < MaxNonce
     THEN /\ outcome' = "executed"
          /\ kernel' = [kernel EXCEPT !.deployed = TRUE, !.nonce = @ + 1,
                                      !.enabled = @ \cup (IF op.enables THEN {op.selector} ELSE {})]
     ELSE /\ ~valid
          /\ outcome' = "refused" /\ UNCHANGED kernel
  /\ UNCHANGED <<validator, isPhantom, op, undisturbed>>

\* Others: an operation that may deploy the account and may enable or disable
\* the validator or make it, or another, the default.
OthersAct ==
  /\ kernel.nonce < MaxNonce
  /\ \E default \in BOOLEAN, on \in SUBSET Selectors :
       /\ ~kernel.deployed => default = kernel.isDefault
       /\ kernel' = [deployed |-> TRUE, nonce |-> kernel.nonce + 1, isDefault |-> default, enabled |-> on]
  /\ undisturbed' = (pc = "idle" /\ undisturbed)
  /\ UNCHANGED <<validator, isPhantom, pc, op, outcome>>

Next ==
  \/ Begin \/ ReadDefault \/ ReadPlugin \/ ReadInitCode \/ CheckNonce \/ ReadNonce \/ AskPaymaster
  \/ ReadFails \/ Handle \/ OthersAct

Spec == Init /\ [][Next]_vars
-----------------------------------------------------------------------------
(* Properties *)

\* Types; an account known to be deployed is (checkAccountPhantom remembers
\* only what cannot be undone).
TypeOK ==
  /\ validator \in Validators
  /\ kernel \in [deployed : BOOLEAN, nonce : 0..MaxNonce, isDefault : BOOLEAN,
                enabled : SUBSET Selectors]
  /\ isPhantom \in BOOLEAN /\ undisturbed \in BOOLEAN
  /\ pc \in {"idle", "built"} \cup Steps
  /\ op \in [asked : Selectors \cup {"none"}, selector : Selectors \cup {"none"},
             dummy : Modes \cup {"none"}, initCode : BOOLEAN, nonce : 0..MaxNonce,
             prefix : Modes \cup {"none"}, enables : BOOLEAN]
  /\ outcome \in {"none", "threw", "refused", "executed"}
  /\ ~isPhantom => kernel.deployed

\* Whatever happened before, an operation that is built and executed while
\* nobody else touches the account, by a validator whose configured mode is the
\* one the account needs, is valid: nothing that was cached is stale, and the
\* answers of the calls go together.
UndisturbedIsValid == pc = "built" /\ undisturbed /\ Fits => valid

\* Unless the paymaster makes it a call of another function, the gas of an
\* operation that is built while nobody else touches the account was estimated for
\* a signature that enables the validator exactly if the real one does; and for
\* the very mode of the real one, if the configured mode is the one the account
\* needs: the signature is prefixed with the configured mode, not with the one
\* that was resolved (getDummySignature, getPaymasterResp, getSignature).
EstimatedAsSigned ==
  pc = "built" /\ undisturbed /\ op.selector = op.asked =>
    /\ op.dummy = "enable" <=> op.enables
    /\ Fits => op.dummy = op.prefix
=============================================================================
