----------------------- MODULE KernelAccountV2API_proofs -----------------------
(***************************************************************************)
(* The answers of a build go together, if nothing disturbs it.  The        *)
(* invariant says what each of them still means later on, whatever mode    *)
(* the client configured and whatever the paymaster made of the call.      *)
(***************************************************************************)
EXTENDS KernelAccountV2API, TLAPS

\* What resolveValidatorMode answers for a call, if no call of the node fails.
Resolved(selector) ==
  IF ~kernel.deployed THEN modeOnError
  ELSE IF kernel.isDefault THEN "sudo"
  ELSE IF isPluginEnabled(selector) THEN "plugin" ELSE "enable"

Reading == {"dummyDefault", "dummyPlugin", "initCode", "nonce", "readNonce"}

\* Also of a build that is disturbed.
AccountOK ==
  /\ ~kernel.deployed => kernel.nonce = 0
  /\ pc \in Reading => op.nonce = 0

DummyOK == pc \notin {"idle", "dummyDefault", "dummyPlugin"} => op.dummy = Resolved(op.asked)

\* Until the paymaster is asked the call is the one the client wants.
CallOK == pc \in {"dummyDefault", "dummyPlugin"} => op.selector = op.asked

SelectorOK == pc # "idle" => op.selector \in Selectors

PluginOK == pc \in {"dummyPlugin", "signPlugin"} => kernel.deployed /\ ~kernel.isDefault

InitCodeOK ==
  /\ pc \in {"nonce", "readNonce", "sponsor", "signDefault", "signPlugin", "built"} => op.initCode = ~kernel.deployed
  /\ pc = "readNonce" => kernel.deployed

NonceOK == pc \in {"sponsor", "signDefault", "signPlugin", "built"} => op.nonce = kernel.nonce

PrefixOK ==
  pc = "built" =>
    /\ op.enables <=> Resolved(op.selector) = "enable"
    /\ op.prefix = IF op.enables THEN "enable" ELSE validator.mode

BuildOK == undisturbed => DummyOK /\ PluginOK /\ InitCodeOK /\ NonceOK /\ PrefixOK

KInv == TypeOK /\ AccountOK /\ CallOK /\ SelectorOK /\ BuildOK
-----------------------------------------------------------------------------
OpType ==
  [asked : Selectors \cup {"none"}, selector : Selectors \cup {"none"}, dummy : Modes \cup {"none"},
   initCode : BOOLEAN, nonce : 0..MaxNonce, prefix : Modes \cup {"none"}, enables : BOOLEAN]

KernelType ==
  [deployed : BOOLEAN, nonce : 0..MaxNonce, isDefault : BOOLEAN, enabled : SUBSET Selectors]

LEMMA InitKInv == Init => KInv
  BY MaxNonceAssumption
  DEF Init, KInv, TypeOK, AccountOK, CallOK, SelectorOK, BuildOK, DummyOK, PluginOK, InitCodeOK, NonceOK, PrefixOK,
      Steps, Reading, Validators, NoOp, Modes

LEMMA BeginKeeps == ASSUME KInv, Begin PROVE KInv'
<1>1. PICK selector \in Selectors : op' = [NoOp EXCEPT !.asked = selector, !.selector = selector]
  BY DEF Begin
<1>2. op' = [asked |-> selector, selector |-> selector, dummy |-> "none", initCode |-> FALSE,
             nonce |-> 0, prefix |-> "none", enables |-> FALSE]
  BY <1>1 DEF NoOp
<1>3. pc' = "dummyDefault" /\ UNCHANGED <<validator, kernel, isPhantom>>
      /\ undisturbed' = TRUE /\ outcome' = "none"
  BY DEF Begin
<1>4. op' \in OpType /\ op'.asked = selector /\ op'.selector = selector /\ op'.nonce = 0
  BY <1>2, MaxNonceAssumption DEF OpType
<1>5. TypeOK'
  BY <1>3, <1>4 DEF KInv, TypeOK, Steps, OpType
<1>6. AccountOK' /\ CallOK' /\ SelectorOK'
  BY <1>3, <1>4 DEF KInv, AccountOK, CallOK, SelectorOK
<1>7. BuildOK'
  BY <1>3 DEF BuildOK, DummyOK, PluginOK, InitCodeOK, NonceOK, PrefixOK
<1> QED BY <1>5, <1>6, <1>7 DEF KInv

\* What the build knows once a mode is resolved.
LEMMA Resolves ==
  ASSUME KInv, pc \in {"dummyDefault", "dummyPlugin", "signDefault", "signPlugin"},
         NEW mode \in Modes, resolvesTo(mode), UNCHANGED <<validator, kernel, isPhantom>>,
         undisturbed' \in BOOLEAN, undisturbed' => undisturbed,
         outcome' \in {"none", "threw", "refused", "executed"},
         undisturbed' => mode = Resolved(op.selector)
  PROVE  KInv'
<1> DEFINE prefix == IF mode = "enable" THEN mode ELSE validator.mode
           enables == mode = "enable"
<1>1. op \in OpType /\ prefix \in Modes /\ enables \in BOOLEAN
  BY DEF KInv, TypeOK, Validators, OpType
<1>2. CASE pc \in {"dummyDefault", "dummyPlugin"}
  <2>1. pc' = "initCode" /\ op' = [op EXCEPT !.dummy = mode]
    BY <1>2 DEF resolvesTo
  <2>2. op' \in OpType /\ op'.dummy = mode /\ op'.asked = op.asked /\ op'.selector = op.selector
        /\ op'.nonce = op.nonce
    BY <1>1, <2>1 DEF OpType
  <2>3. TypeOK'
    BY <2>1, <2>2 DEF KInv, TypeOK, Steps, OpType
  <2>4. AccountOK' /\ CallOK' /\ SelectorOK'
    BY <1>2, <2>1, <2>2 DEF KInv, AccountOK, CallOK, SelectorOK, Reading
  <2>5. undisturbed' => op'.dummy = Resolved(op.asked)'
    <3>1. op.selector = op.asked
      BY <1>2 DEF KInv, CallOK
    <3> QED BY <2>2, <3>1 DEF Resolved, modeOnError, isPluginEnabled
  <2>6. BuildOK'
    BY <2>1, <2>5 DEF BuildOK, DummyOK, PluginOK, InitCodeOK, NonceOK, PrefixOK
  <2> QED BY <2>3, <2>4, <2>6 DEF KInv
<1>3. CASE pc \in {"signDefault", "signPlugin"}
  <2>1. pc' = "built" /\ op' = [op EXCEPT !.enables = enables, !.prefix = prefix]
    BY <1>3 DEF resolvesTo
  <2> HIDE DEF prefix, enables
  <2>2. op' \in OpType /\ op'.dummy = op.dummy /\ op'.asked = op.asked /\ op'.selector = op.selector
        /\ op'.nonce = op.nonce /\ op'.initCode = op.initCode
        /\ op'.enables = enables /\ op'.prefix = prefix
    BY <1>1, <2>1 DEF OpType
  <2>3. TypeOK'
    BY <2>1, <2>2 DEF KInv, TypeOK, OpType
  <2>4. AccountOK' /\ CallOK' /\ SelectorOK'
    BY <2>1 DEF KInv, AccountOK, CallOK, SelectorOK, Reading
  <2>5. Resolved(op.asked)' = Resolved(op.asked) /\ Resolved(op.selector)' = Resolved(op.selector)
    BY <2>2 DEF Resolved, modeOnError, isPluginEnabled
  <2>6. ASSUME undisturbed'
        PROVE  DummyOK' /\ PluginOK' /\ InitCodeOK' /\ NonceOK' /\ PrefixOK'
    <3>1. mode = Resolved(op.selector) /\ DummyOK /\ InitCodeOK /\ NonceOK
      BY <2>6 DEF KInv, BuildOK
    <3>2. DummyOK' /\ PluginOK'
      BY <1>3, <2>1, <2>2, <2>5, <3>1 DEF DummyOK, PluginOK
    <3>3. InitCodeOK' /\ NonceOK'
      BY <1>3, <2>1, <2>2, <3>1 DEF InitCodeOK, NonceOK
    <3>4. PrefixOK'
      BY <2>1, <2>2, <2>5, <3>1 DEF PrefixOK, prefix, enables
    <3> QED BY <3>2, <3>3, <3>4
  <2> QED BY <2>3, <2>4, <2>6 DEF KInv, BuildOK
<1> QED BY <1>2, <1>3

LEMMA ReadDefaultKeeps == ASSUME KInv, ReadDefault PROVE KInv'
<1>0. modeOnError \in Modes
  BY DEF KInv, TypeOK, modeOnError, Validators, Modes
<1>1. CASE ~kernel.deployed
  BY <1>0, <1>1, Resolves DEF ReadDefault, Resolved, KInv, TypeOK
<1>2. CASE kernel.deployed /\ kernel.isDefault
  BY <1>2, Resolves DEF ReadDefault, Resolved, Modes, KInv, TypeOK
<1>3. CASE kernel.deployed /\ ~kernel.isDefault
  BY <1>3 DEF ReadDefault, KInv, TypeOK, AccountOK, CallOK, SelectorOK, BuildOK, DummyOK, PluginOK, InitCodeOK,
              NonceOK, PrefixOK, Steps, Reading, Resolved, modeOnError, isPluginEnabled
<1> QED BY <1>1, <1>2, <1>3

LEMMA ReadPluginKeeps == ASSUME KInv, ReadPlugin PROVE KInv'
<1> DEFINE mode == IF isPluginEnabled(op.selector) THEN "plugin" ELSE "enable"
<1>1. mode \in Modes
  BY DEF Modes
<1>2. undisturbed => mode = Resolved(op.selector)
  BY DEF ReadPlugin, KInv, BuildOK, PluginOK, Resolved
<1> QED BY <1>1, <1>2, Resolves DEF ReadPlugin, KInv, TypeOK

\* The call that was asked for stays known, whatever it is replaced with.
LEMMA AskPaymasterKeeps == ASSUME KInv, AskPaymaster PROVE KInv'
<1>1. PICK selector \in Selectors : op' = [op EXCEPT !.selector = selector]
  BY DEF AskPaymaster
<1>2. pc = "sponsor" /\ pc' = "signDefault" /\ UNCHANGED <<validator, kernel, isPhantom, undisturbed, outcome>>
  BY DEF AskPaymaster
<1>3. op \in OpType
  BY DEF KInv, TypeOK, OpType
<1>4. op' \in OpType /\ op'.dummy = op.dummy /\ op'.asked = op.asked /\ op'.nonce = op.nonce
      /\ op'.initCode = op.initCode
  BY <1>1, <1>3 DEF OpType
<1>5. op'.selector \in Selectors
  BY <1>1, <1>3 DEF OpType
<1>6. TypeOK'
  BY <1>2, <1>4 DEF KInv, TypeOK, Steps, OpType
<1>7. AccountOK' /\ CallOK' /\ SelectorOK'
  BY <1>2, <1>5 DEF KInv, AccountOK, CallOK, SelectorOK, Reading
<1>8. Resolved(op.asked)' = Resolved(op.asked)
  BY <1>2, <1>4 DEF Resolved, modeOnError, isPluginEnabled
<1>9. BuildOK'
  BY <1>2, <1>4, <1>8 DEF KInv, BuildOK, DummyOK, PluginOK, InitCodeOK, NonceOK, PrefixOK
<1> QED BY <1>9, <1>6, <1>7 DEF KInv

LEMMA ReadFailsKeeps == ASSUME KInv, ReadFails PROVE KInv'
<1>1. CASE pc \in {"dummyDefault", "dummyPlugin", "signDefault", "signPlugin"}
  <2>1. modeOnError \in Modes
    BY DEF KInv, TypeOK, modeOnError, Validators, Modes
  <2> QED BY <1>1, <2>1, Resolves DEF ReadFails, KInv, TypeOK
<1>2. CASE pc \notin {"dummyDefault", "dummyPlugin", "signDefault", "signPlugin"}
  BY <1>2 DEF ReadFails, KInv, TypeOK, AccountOK, CallOK, SelectorOK, BuildOK, Steps, Reading
<1> QED BY <1>1, <1>2

\* What is remembered of the account is true, and looked up while there was none.
LEMMA PhantomNow == ASSUME KInv PROVE phantomNow = ~kernel.deployed
  BY DEF KInv, TypeOK, phantomNow

LEMMA ReadInitCodeKeeps == ASSUME KInv, ReadInitCode PROVE KInv'
  BY PhantomNow
  DEF ReadInitCode, KInv, TypeOK, AccountOK, CallOK, SelectorOK, BuildOK, DummyOK, PluginOK, InitCodeOK, NonceOK,
      PrefixOK, Steps, Reading, Resolved, modeOnError, isPluginEnabled

LEMMA CheckNonceKeeps == ASSUME KInv, CheckNonce PROVE KInv'
  BY PhantomNow
  DEF CheckNonce, KInv, TypeOK, AccountOK, CallOK, SelectorOK, BuildOK, DummyOK, PluginOK, InitCodeOK, NonceOK,
      PrefixOK, Steps, Reading, Resolved, modeOnError, isPluginEnabled

LEMMA ReadNonceKeeps == ASSUME KInv, ReadNonce PROVE KInv'
  BY DEF ReadNonce, KInv, TypeOK, AccountOK, CallOK, SelectorOK, BuildOK, DummyOK, PluginOK, InitCodeOK, NonceOK,
         PrefixOK, Steps, Reading, Resolved, modeOnError, isPluginEnabled

\* The account changes, and no build is under way that has to hear of it.
LEMMA KernelChanges ==
  ASSUME KInv, UNCHANGED <<validator, isPhantom, op>>,
         kernel' \in KernelType,
         kernel'.deployed, undisturbed' \in BOOLEAN, pc' \in {pc, "idle"},
         outcome' \in {"none", "threw", "refused", "executed"},
         pc' = "idle" \/ ~undisturbed'
  PROVE  KInv'
<1>1. TypeOK'
  BY DEF KInv, TypeOK, KernelType
<1>2. AccountOK' /\ CallOK' /\ SelectorOK'
  BY DEF KInv, AccountOK, CallOK, SelectorOK, Reading
<1>3. BuildOK'
  BY DEF BuildOK, DummyOK, PluginOK, InitCodeOK, NonceOK, PrefixOK
<1> QED BY <1>1, <1>2, <1>3 DEF KInv

LEMMA HandleKeeps == ASSUME KInv, Handle PROVE KInv'
<1>1. CASE kernel' = kernel
  BY <1>1 DEF Handle, KInv, TypeOK, AccountOK, CallOK, SelectorOK, BuildOK, DummyOK, PluginOK, InitCodeOK, NonceOK,
              PrefixOK, Steps, Reading
<1>2. CASE kernel' # kernel
  <2> DEFINE on == kernel.enabled \cup (IF op.enables THEN {op.selector} ELSE {})
  <2>1. kernel' = [kernel EXCEPT !.deployed = TRUE, !.nonce = @ + 1, !.enabled = on] /\ kernel.nonce < MaxNonce
    BY <1>2 DEF Handle
  <2>2. on \in SUBSET Selectors
    <3>1. op.selector \in Selectors
      BY DEF Handle, KInv, SelectorOK
    <3> QED BY <3>1 DEF KInv, TypeOK
  <2> HIDE DEF on
  <2>3. kernel' \in KernelType /\ kernel'.deployed
    <3>1. kernel \in KernelType
      BY DEF KInv, TypeOK, KernelType
    <3>2. kernel.nonce + 1 \in 0..MaxNonce
      BY <2>1, <3>1, MaxNonceAssumption DEF KernelType
    <3>3. kernel' = [deployed |-> TRUE, nonce |-> kernel.nonce + 1,
                     isDefault |-> kernel.isDefault, enabled |-> on]
      BY <2>1, <3>1 DEF KernelType
    <3> QED BY <2>2, <3>1, <3>2, <3>3 DEF KernelType
  <2>4. /\ UNCHANGED <<validator, isPhantom, op, undisturbed>> /\ pc' = "idle"
        /\ outcome' \in {"none", "threw", "refused", "executed"}
    BY DEF Handle
  <2> QED BY <2>3, <2>4, KernelChanges DEF KInv, TypeOK
<1> QED BY <1>1, <1>2

LEMMA OthersKeep == ASSUME KInv, OthersAct PROVE KInv'
<1>1. PICK default \in BOOLEAN, on \in SUBSET Selectors :
        kernel' = [deployed |-> TRUE, nonce |-> kernel.nonce + 1, isDefault |-> default, enabled |-> on]
  BY DEF OthersAct
<1>2. kernel.nonce + 1 \in 0..MaxNonce
  BY MaxNonceAssumption DEF OthersAct, KInv, TypeOK
<1>3. kernel' \in KernelType /\ kernel'.deployed
  BY <1>1, <1>2 DEF KernelType
<1>4. /\ UNCHANGED <<validator, isPhantom, op, pc, outcome>>
      /\ undisturbed' = (pc = "idle" /\ undisturbed)
  BY DEF OthersAct
<1>5. undisturbed' \in BOOLEAN /\ (pc' = "idle" \/ ~undisturbed')
  BY <1>4
<1> QED BY <1>3, <1>4, <1>5, KernelChanges DEF KInv, TypeOK

LEMMA NextKInv == KInv /\ [Next]_vars => KInv'
<1> SUFFICES ASSUME KInv, [Next]_vars PROVE KInv'
  OBVIOUS
<1>1. CASE UNCHANGED vars
  BY <1>1 DEF vars, KInv, TypeOK, AccountOK, CallOK, SelectorOK, BuildOK, DummyOK, PluginOK, InitCodeOK, NonceOK,
              PrefixOK, Resolved, modeOnError, isPluginEnabled
<1> QED BY <1>1, BeginKeeps, ReadDefaultKeeps, ReadPluginKeeps, ReadInitCodeKeeps, CheckNonceKeeps,
           ReadNonceKeeps, AskPaymasterKeeps, ReadFailsKeeps, HandleKeeps, OthersKeep DEF Next

\* The invariant holds along every behaviour of the client and the account.
THEOREM AccountInvariant == Spec => []KInv
  BY InitKInv, NextKInv, PTL DEF Spec

\* Types; an account that is remembered as deployed is (checkAccountPhantom).
THEOREM AccountType == Spec => []TypeOK
<1>1. KInv => TypeOK
  BY DEF KInv
<1> QED BY <1>1, AccountInvariant, PTL

\* An operation built while nobody else touches the account is valid, for any
\* number of operations before it (createUnsignedUserOp, signUserOp).
THEOREM UndisturbedOperationsAreValid == Spec => []UndisturbedIsValid
<1>1. KInv => UndisturbedIsValid
  <2> SUFFICES ASSUME KInv, pc = "built", undisturbed, Fits PROVE valid
    BY DEF UndisturbedIsValid
  <2>1. op.initCode = ~kernel.deployed /\ op.nonce = kernel.nonce
        /\ (op.enables <=> Resolved(op.selector) = "enable")
        /\ op.prefix = IF op.enables THEN "enable" ELSE validator.mode
    BY DEF KInv, BuildOK, InitCodeOK, NonceOK, PrefixOK
  <2>2. signatureOk
    BY <2>1 DEF signatureOk, Resolved, Fits, isPluginEnabled, modeOnError
  <2> QED BY <2>1, <2>2 DEF valid
<1> QED BY <1>1, AccountInvariant, PTL

\* Whatever mode the client configured, an operation whose call the paymaster does
\* not make one of another function is estimated for a signature that enables the
\* validator exactly if the real one does, and for the same mode, if it fits.
THEOREM SignedAsEstimated == Spec => []EstimatedAsSigned
<1>1. KInv => EstimatedAsSigned
  <2> SUFFICES ASSUME KInv, pc = "built", undisturbed, op.selector = op.asked
               PROVE  (op.dummy = "enable" <=> op.enables) /\ (Fits => op.dummy = op.prefix)
    BY DEF EstimatedAsSigned
  <2>1. op.dummy = Resolved(op.selector) /\ (op.enables <=> Resolved(op.selector) = "enable")
        /\ op.prefix = IF op.enables THEN "enable" ELSE validator.mode
    BY DEF KInv, BuildOK, DummyOK, PrefixOK
  <2>2. Fits => Resolved(op.selector) \in {"enable", validator.mode}
    BY DEF Fits, Resolved, modeOnError
  <2> QED BY <2>1, <2>2
<1> QED BY <1>1, AccountInvariant, PTL
=============================================================================
