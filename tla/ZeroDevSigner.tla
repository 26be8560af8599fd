---------------------------- MODULE ZeroDevSigner ----------------------------
(***************************************************************************)
(* sendTransaction of the SDK's signers: a user operation is built, signed *)
(* and sent to a bundler; a refused replacement is sent again with higher  *)
(* fees, and any other error makes the signer switch to the fallback       *)
(* bundler and paymaster for the length of a nested call                   *)
(* (packages/sdk/src/ZeroDevSigner.ts, session/SessionSigner.ts,           *)
(* BaseAccountAPI.ts, HttpRpcClient.ts).                                   *)
(*                                                                         *)
(* Several calls may run at once on one signer: they share its HTTP client *)
(* and the provider of its paymaster, which always change together, and    *)
(* the nonce of the account.  The bundlers keep a mempool by the rules of  *)
(* packages/bundler/src/modules/MempoolManager.ts; the chain is external.  *)
(***************************************************************************)
EXTENDS Integers, FiniteSets, SequencesExt

CONSTANTS
  Calls,          \* the calls of sendTransaction
  Configs,        \* the configurations to look at
  MarketFees,     \* what getFeeData may say, in each call
  PaymasterFees,  \* what a paymaster that sets fees may say
  MaxTxRetries,   \* config.maxTxRetries
  MaxSends        \* bound on the attempts of a call, for model checking

ConfigType ==
  [fallback : BOOLEAN, session : BOOLEAN,
   paymasterFees : BOOLEAN,  \* the paymaster answers with fees of its own
   gelato : BOOLEAN,         \* bundlerProvider is 'GELATO': no fees
   serial : BOOLEAN]         \* the application awaits a call before the next

ASSUME ConfigsAssumption == Configs \subseteq ConfigType
ASSUME FeesAssumption == MarketFees \in [Calls -> SUBSET Nat] /\ PaymasterFees \subseteq Nat
ASSUME RetriesAssumption == MaxTxRetries \in Nat
ASSUME SendsAssumption == MaxSends \in Nat

VARIABLES
  config,         \* shouldFallback, which signer, and two facts of its surroundings
  providers,      \* httpRpcClient's bundler and paymasterAPI's provider
  calls,          \* the frames of each call
  sent,           \* the attempts of each call, in order, with the bundler they went to
  announced,      \* the operations the transactionStarted hook was told of
  pools,          \* each bundler's operations of the account
  dropped,        \* what the bundlers took and threw away again
  nonce,          \* the account's, on chain
  executed        \* the operations executed on chain

outside == <<pools, dropped, nonce, executed>>
vars == <<config, providers, calls, sent, announced, outside>>

Providers == {"primary", "fallback"}
NoFee == 0 - 1    \* undefined: createUnsignedUserOp asks for fee data

NoOp == [attempt |-> 0]
Nobody == "nobody"  \* no paymaster was asked yet
Idle == [pc |-> "idle", retry |-> 0, fallback |-> FALSE, fee |-> NoFee, saved |-> <<>>, op |-> NoOp]

Ended == {"idle", "returned", "threw", "gaveUp"}
Active(c) == calls[c].pc \notin Ended
-----------------------------------------------------------------------------
Init ==
  /\ config \in Configs
  /\ providers = "primary"
  /\ calls = [c \in Calls |-> Idle]
  /\ sent = [c \in Calls |-> <<>>]
  /\ announced = {}
  /\ pools = [b \in Providers |-> {}] /\ dropped = {}
  /\ nonce = 0
  /\ executed = {}

\* The client runs on in call c, and touches none of the outside world.
Goes(c, changed) ==
  /\ calls' = [calls EXCEPT ![c] = changed]
  /\ UNCHANGED <<config, outside>>

Start(c) ==
  /\ calls[c].pc = "idle"
  /\ config.serial => \A d \in Calls : ~Active(d)
  /\ Goes(c, [calls[c] EXCEPT !.pc = "building"])
  /\ UNCHANGED <<providers, sent, announced>>

\* Gelato asks for no fees, and a session signer zeroes those of the transaction,
\* so that the market's are asked for.
ownFees(c) ==
  IF config.gelato THEN {0}
  ELSE IF calls[c].fee = NoFee \/ config.session THEN MarketFees[c]
  ELSE {calls[c].fee}

\* createUnsignedUserOp: the nonce and the fees are asked for.
Prepare(c) ==
  /\ calls[c].pc = "building"
  /\ \E f \in ownFees(c) :
       Goes(c, [calls[c] EXCEPT !.pc = "prepared",
                  !.op = [call |-> c, attempt |-> Len(sent[c]) + 1, nonce |-> nonce, fee |-> f,
                          retry |-> calls[c].retry, fallback |-> calls[c].fallback,
                          sponsor |-> Nobody]])
  /\ UNCHANGED <<providers, sent, announced>>

\* getPaymasterResp, once these are known: the paymaster of the moment is asked,
\* and may set the fees.
AskPaymaster(c) ==
  /\ calls[c].pc = "prepared"
  /\ \E f \in {calls[c].op.fee} \cup (IF config.paymasterFees THEN PaymasterFees ELSE {}) :
       Goes(c, [calls[c] EXCEPT !.pc = "sponsored",
                  !.op = [@ EXCEPT !.fee = f, !.sponsor = providers]])
  /\ UNCHANGED <<providers, sent, announced>>

\* The gas is estimated, the operation signed, and userOperationStarted agrees.
Sign(c) ==
  /\ calls[c].pc = "sponsored"
  /\ Goes(c, [calls[c] EXCEPT !.pc = "built"])
  /\ UNCHANGED <<providers, sent, announced>>

\* A request of these fails, nobody sponsors an operation that must be, or the
\* hook rejects it: outside of the try.
BuildFails(c) ==
  /\ calls[c].pc \in {"building", "prepared", "sponsored"}
  /\ Goes(c, [calls[c] EXCEPT !.pc = "threw"])
  /\ UNCHANGED <<providers, sent, announced>>

\* A session signer starts the listener and the hook before it sends.
Send(c) ==
  /\ calls[c].pc = "built"
  /\ Goes(c, [calls[c] EXCEPT !.pc = "sent"])
  /\ sent' = [sent EXCEPT ![c] = Append(@, [op |-> calls[c].op, bundler |-> providers])]
  /\ announced' = IF config.session THEN announced \cup {calls[c].op} ELSE announced
  /\ UNCHANGED providers
-----------------------------------------------------------------------------
(* The bundler that the operation was sent to (MempoolManager), and the chain *)

competitors(b, op) == {o \in pools[b] : o.nonce = op.nonce}

\* 10% more than what is there for the same nonce.
underpriced(b, op) == \E o \in competitors(b, op) : 10 * op.fee <= 11 * o.fee

\* The answer may be lost, or late: to the client that is a failure, which it may
\* be unable to read.
Accept(c) ==
  LET b == Last(sent[c]).bundler  op == calls[c].op
  IN  /\ calls[c].pc = "sent"
      /\ op.nonce = nonce /\ ~underpriced(b, op)
      /\ pools' = [pools EXCEPT ![b] = (@ \ competitors(b, op)) \cup {op}]
      /\ \E answer \in {"accepted", "failed", "unreadable"} : calls' = [calls EXCEPT ![c].pc = answer]
      /\ UNCHANGED <<config, providers, sent, announced, dropped, nonce, executed>>

\* An underpriced replacement may be told in words the signer does not know, as
\* this repository's bundler does; a body that is not JSON makes the look at the
\* error throw in turn ("unreadable").
Refuse(c) ==
  /\ calls[c].pc = "sent"
  /\ \E answer \in {"failed", "unreadable"} \cup
       (IF underpriced(Last(sent[c]).bundler, calls[c].op) THEN {"underpriced"} ELSE {}) :
         calls' = [calls EXCEPT ![c].pc = answer]
  /\ UNCHANGED <<config, providers, sent, announced, outside>>

\* A bundler throws an operation away: it fails the second validation, reverts
\* the bundle, is of a banned paymaster or factory, or the state is cleared.
Drop(b) ==
  \E op \in pools[b] :
    /\ pools' = [pools EXCEPT ![b] = @ \ {op}]
    /\ dropped' = dropped \cup {op}
    /\ UNCHANGED <<config, providers, calls, sent, announced, nonce, executed>>

\* What waits, or was dropped with a bundle under way, is executed; operations of
\* a past nonce are of no further use to anybody.
Mine ==
  \E op \in dropped \cup UNION {pools[b] : b \in Providers} :
    /\ op.nonce = nonce
    /\ executed' = executed \cup {op}
    /\ nonce' = nonce + 1
    /\ pools' = [b \in Providers |-> {o \in pools[b] : o.nonce > nonce}]
    /\ dropped' = {o \in dropped : o.nonce > nonce}
    /\ UNCHANGED <<config, providers, calls, sent, announced>>
-----------------------------------------------------------------------------
(* The answer, in the innermost frame *)

\* Faulty variant: the fee goes up by a tenth, and no more.
TenPercentMore(fee) == (110 * fee) \div 100

increasedFee(fee) == (113 * fee) \div 100

\* Faulty variant: the count of the retries is not passed on.
ResendUncounted(c) ==
  /\ calls[c].pc = "underpriced" /\ calls[c].retry < MaxTxRetries /\ Len(sent[c]) < MaxSends
  /\ Goes(c, [calls[c] EXCEPT !.pc = "building", !.fallback = FALSE,
                              !.fee = increasedFee(calls[c].op.fee)])
  /\ UNCHANGED <<providers, sent, announced>>

\* Faulty variant: `>` for `>=`.
ResendOnceMore(c) ==
  /\ calls[c].pc = "underpriced" /\ calls[c].retry <= MaxTxRetries /\ Len(sent[c]) < MaxSends
  /\ Goes(c, [calls[c] EXCEPT !.pc = "building", !.retry = @ + 1, !.fallback = FALSE,
                              !.fee = increasedFee(calls[c].op.fee)])
  /\ UNCHANGED <<providers, sent, announced>>

\* Faulty variant: every error counts as an underpriced replacement.
ResendOnAnyError(c) ==
  /\ calls[c].pc \in {"underpriced", "failed"} /\ calls[c].retry < MaxTxRetries
  /\ Len(sent[c]) < MaxSends
  /\ Goes(c, [calls[c] EXCEPT !.pc = "building", !.retry = @ + 1, !.fallback = FALSE,
                              !.fee = increasedFee(calls[c].op.fee)])
  /\ UNCHANGED <<providers, sent, announced>>

\* isReplacementOpError: the resend does not pass fallbackMode on.
Resend(c) ==
  /\ calls[c].pc = "underpriced" /\ calls[c].retry < MaxTxRetries /\ Len(sent[c]) < MaxSends
  /\ Goes(c, [calls[c] EXCEPT !.pc = "building", !.retry = @ + 1, !.fallback = FALSE,
                              !.fee = increasedFee(calls[c].op.fee)])
  /\ UNCHANGED <<providers, sent, announced>>

GiveUp(c) ==
  /\ calls[c].pc = "underpriced" /\ calls[c].retry >= MaxTxRetries
  /\ Goes(c, [calls[c] EXCEPT !.pc = "gaveUp"])
  /\ UNCHANGED <<providers, sent, announced>>

fallsBack(c) == ~calls[c].fallback /\ config.fallback

FallBack(c) ==
  /\ calls[c].pc = "failed" /\ fallsBack(c) /\ Len(sent[c]) < MaxSends
  /\ Goes(c, [calls[c] EXCEPT !.pc = "building", !.retry = 0, !.fallback = TRUE,
                              !.saved = Append(@, providers)])
  /\ providers' = "fallback"
  /\ UNCHANGED <<sent, announced>>

\* The providers stay as they are: no finally restores them.
Throw(c) ==
  /\ calls[c].pc = "unreadable" \/ (calls[c].pc = "failed" /\ ~fallsBack(c))
  /\ Goes(c, [calls[c] EXCEPT !.pc = "threw"])
  /\ UNCHANGED <<providers, sent, announced>>

\* Faulty variant: the hook is told even of an answer that never came.
AnnounceAnyway(c) ==
  /\ calls[c].pc \in {"accepted", "failed"}
  /\ \/ Goes(c, [calls[c] EXCEPT !.pc = "returning"]) /\ announced' = announced \cup {calls[c].op}
     \/ /\ ~config.session
        /\ Goes(c, [calls[c] EXCEPT !.pc = "threw"])
        /\ UNCHANGED announced
  /\ UNCHANGED <<providers, sent>>

\* The listener is started and the hook is told; asking the EntryPoint for the
\* hash may fail, in a session signer before the operation is sent.
Confirm(c) ==
  /\ calls[c].pc = "accepted"
  /\ \/ Goes(c, [calls[c] EXCEPT !.pc = "returning"]) /\ announced' = announced \cup {calls[c].op}
     \/ /\ ~config.session
        /\ Goes(c, [calls[c] EXCEPT !.pc = "threw"])
        /\ UNCHANGED announced
  /\ UNCHANGED <<providers, sent>>

\* Faulty variant: the providers are put back by the first frame only.
ReturnUnrestored(c) ==
  /\ calls[c].pc = "returning"
  /\ Goes(c, [calls[c] EXCEPT !.pc = "returned", !.saved = <<>>])
  /\ UNCHANGED <<providers, sent, announced>>

\* The frames return, the innermost first; those that fell back restore.
Return(c) ==
  /\ calls[c].pc = "returning"
  /\ IF calls[c].saved = <<>>
     THEN Goes(c, [calls[c] EXCEPT !.pc = "returned"]) /\ UNCHANGED providers
     ELSE /\ Goes(c, [calls[c] EXCEPT !.saved = Front(@)])
          /\ providers' = Last(calls[c].saved)
  /\ UNCHANGED <<sent, announced>>
-----------------------------------------------------------------------------
Signer(c) ==
  \/ Start(c) \/ Prepare(c) \/ AskPaymaster(c) \/ Sign(c) \/ BuildFails(c) \/ Send(c)
  \/ Resend(c) \/ GiveUp(c) \/ FallBack(c) \/ Throw(c) \/ Confirm(c) \/ Return(c)

Bundler(c) == Accept(c) \/ Refuse(c)

Next == (\E c \in Calls : Signer(c) \/ Bundler(c)) \/ (\E b \in Providers : Drop(b)) \/ Mine

Spec == Init /\ [][Next]_vars
-----------------------------------------------------------------------------
(* Properties *)

OpType ==
  [call : Calls, attempt : Nat, nonce : Nat, fee : Nat, retry : 0..MaxTxRetries,
   fallback : BOOLEAN, sponsor : Providers \cup {Nobody}]

FrameType ==
  [pc : Ended \cup {"building", "prepared", "sponsored", "built", "sent", "accepted",
                   "underpriced", "failed", "unreadable", "returning"},
   retry : 0..MaxTxRetries, fallback : BOOLEAN, fee : Nat \cup {NoFee}, saved : Seq(Providers),
   op : OpType \cup {NoOp}]

\* Types; no frame counts more retries than it may make.
TypeOK ==
  /\ config \in Configs /\ providers \in Providers /\ nonce \in Nat
  /\ calls \in [Calls -> FrameType]
  /\ sent \in [Calls -> Seq([op : OpType, bundler : Providers])]
  /\ \A c \in Calls : calls[c].pc \notin {"idle", "building", "threw"} => calls[c].op \in OpType
  /\ announced \subseteq OpType /\ executed \subseteq OpType
  /\ pools \in [Providers -> SUBSET OpType] /\ dropped \subseteq OpType

\* Without a fallback a call sends at most maxTxRetries + 1 operations, however
\* often the bundler refuses them (sendTransaction, retryCount).
AttemptsBounded ==
  ~config.fallback => \A c \in Calls : Len(sent[c]) <= MaxTxRetries + 1

\* What one call asked for is executed twice only if it fell back between the
\* two operations: a resend never doubles a transfer, although the nonce is read
\* anew for it and the earlier answer may have been wrong.
OnlyFallBackRepeats ==
  \A o1, o2 \in executed :
    o1.call = o2.call /\ o1.attempt < o2.attempt =>
      \E i \in DOMAIN sent[o1.call] : i > o1.attempt /\ i <= o2.attempt /\ sent[o1.call][i].op.fallback

\* A resend pays enough to replace the operation it follows, by the 10% rule of
\* the bundlers, as long as it is the signer that sets the fees and these are 34
\* or more (resendTransactionWithIncreasedGasFees).
ResendsCanReplace ==
  ~config.session /\ ~config.paymasterFees =>
    \A c \in Calls : \A i \in DOMAIN sent[c] :
      i > 1 /\ sent[c][i].op.retry > 0 /\ sent[c][i-1].op.fee >= 34 =>
        10 * sent[c][i].op.fee > 11 * sent[c][i-1].op.fee

\* ZeroDevSigner tells its client only of operations that a bundler took, although
\* answers get lost and calls overlap: such an operation, or one of its nonce that
\* pays no less, waits or was dropped by a bundler, unless the account is past
\* the nonce (the hook after sendUserOpToBundler).
AnnouncedWereAccepted ==
  ~config.session =>
    \A o \in announced :
      \/ o.nonce < nonce
      \/ \E p \in dropped \cup UNION {pools[b] : b \in Providers} : p.nonce = o.nonce /\ p.fee >= o.fee

\* For a client that awaits each call before the next, the fallback is confined
\* to the frames in its mode, however deep they are: such an attempt is sponsored
\* by the fallback paymaster and goes to the fallback bundler, and a client whose
\* calls all came back has its own bundler and paymaster again.
FallbackIsScoped ==
  config.serial =>
    /\ \A c \in Calls : \A i \in DOMAIN sent[c] :
         sent[c][i].op.fallback => sent[c][i].op.sponsor = "fallback" /\ sent[c][i].bundler = "fallback"
    /\ (\A c \in Calls : calls[c].pc \in {"idle", "returned"}) => providers = "primary"
=============================================================================
