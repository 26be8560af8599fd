---------------------- MODULE UserOperationEventListener ----------------------
(***************************************************************************)
(* One call of ZeroDevProvider.waitForTransaction: a timer and a polling   *)
(* loop race to settle a promise with what happened to a user operation,   *)
(* and the hooks of the client are called on the way                       *)
(* (packages/sdk/src/UserOperationEventListener.ts, ZeroDevProvider.ts).   *)
(* The subscription is commented out in start(), so stop() has no effect.  *)
(***************************************************************************)
EXTENDS Naturals, SequencesExt

CONSTANT LastIteration      \* the 7 of `iteration < 7`

ASSUME LastIterationAssumption == LastIteration \in Nat

VARIABLES
  chain,      \* what became of the operation, as its event tells
  timer,      \* the setTimeout of the constructor
  poll,       \* manualQuery
  iteration,
  callback,   \* listenerCallback: the call it awaits
  promise,
  resolved,
  hooks       \* the calls of transactionConfirmed and transactionReverted

vars == <<chain, timer, poll, iteration, callback, promise, resolved, hooks>>

\* A failed operation may have emitted a UserOperationRevertReason, or not.
Outcomes == {"success", "failedWithReason", "failedSilently"}
Settled == {"timedOut", "receipt", "failedReceipt", "reverted"}
-----------------------------------------------------------------------------
Init ==
  /\ chain = "pending"
  /\ timer = "armed"
  /\ poll = "scheduled" /\ iteration = 0
  /\ callback = "none"
  /\ promise = "pending" /\ resolved = FALSE
  /\ hooks = <<>>

\* The EntryPoint executes the operation and emits its event.
Mined(outcome) ==
  /\ chain = "pending"
  /\ chain' = outcome
  /\ UNCHANGED <<timer, poll, iteration, callback, promise, resolved, hooks>>

\* A promise keeps what it was first settled with.
settled(how) == IF promise = "pending" THEN how ELSE promise

\* Faulty variant: finding the event clears the timer.
TimeoutUnlessFound ==
  /\ timer = "armed" /\ callback = "none"
  /\ timer' = "fired"
  /\ promise' = settled("timedOut")
  /\ hooks' = Append(hooks, "reverted")
  /\ UNCHANGED <<chain, poll, iteration, callback, resolved>>

\* Nothing clears the timer.
Timeout ==
  /\ timer = "armed"
  /\ timer' = "fired"
  /\ promise' = settled("timedOut")
  /\ hooks' = Append(hooks, "reverted")
  /\ UNCHANGED <<chain, poll, iteration, callback, resolved>>

Query ==
  /\ poll = "scheduled"
  /\ poll' = IF resolved THEN "ended" ELSE "asked"
  /\ UNCHANGED <<chain, timer, iteration, callback, promise, resolved, hooks>>

\* Faulty variant: polling goes on beside the callback.
FoundPollingOn ==
  /\ poll = "asked" /\ chain # "pending"
  /\ callback' = "receipt"
  /\ poll' = "scheduled"
  /\ UNCHANGED <<chain, timer, iteration, promise, resolved, hooks>>

\* The answer holds the event: listenerCallback awaits the receipt.
Found ==
  /\ poll = "asked" /\ chain # "pending"
  /\ callback' = "receipt"
  /\ poll' = "ended"
  /\ UNCHANGED <<chain, timer, iteration, promise, resolved, hooks>>

\* Faulty variant: `<=`.
NotFoundOnceMore ==
  /\ poll = "asked"
  /\ IF iteration <= LastIteration
     THEN poll' = "scheduled" /\ iteration' = iteration + 1
     ELSE poll' = "ended" /\ UNCHANGED iteration
  /\ UNCHANGED <<chain, timer, callback, promise, resolved, hooks>>

\* An empty answer, which a node that lags behind gives after the event, too.
NotFound ==
  /\ poll = "asked"
  /\ IF iteration < LastIteration
     THEN poll' = "scheduled" /\ iteration' = iteration + 1
     ELSE poll' = "ended" /\ UNCHANGED iteration
  /\ UNCHANGED <<chain, timer, callback, promise, resolved, hooks>>

\* The rejection of queryFilter is handled by nobody.
QueryFails ==
  /\ poll = "asked"
  /\ poll' = "ended"
  /\ UNCHANGED <<chain, timer, iteration, callback, promise, resolved, hooks>>
-----------------------------------------------------------------------------
(* listenerCallback, after an await *)

Ends(calls, how) ==
  /\ callback' = "ended"
  /\ hooks' = hooks \o calls
  /\ promise' = settled(how)
  /\ resolved' = TRUE
  /\ UNCHANGED <<chain, timer, poll, iteration>>

Receipt ==
  /\ callback = "receipt"
  /\ \/ chain = "success" /\ Ends(<<"confirmed">>, "receipt")
     \/ /\ chain # "success"
        /\ callback' = "reason"
        /\ UNCHANGED <<chain, timer, poll, iteration, promise, resolved, hooks>>

\* Faulty variant: extractFailureReason is not awaited.
ReasonNotAwaited ==
  /\ callback = "reason"
  /\ \/ chain = "failedWithReason" /\ Ends(<<"confirmed", "reverted">>, "failedReceipt")
     \/ chain = "failedSilently" /\ Ends(<<"confirmed">>, "failedReceipt")

\* extractFailureReason rejects the promise if there is a reason; the callback
\* then goes on to resolve it with the receipt, its status set to 0.
Reason ==
  /\ callback = "reason"
  /\ \/ chain = "failedWithReason" /\ Ends(<<"reverted", "confirmed">>, "reverted")
     \/ chain = "failedSilently" /\ Ends(<<"confirmed">>, "failedReceipt")

\* getTransactionReceipt or queryFilter throws; nobody handles it.
CallbackFails ==
  /\ callback \in {"receipt", "reason"}
  /\ callback' = "ended"
  /\ UNCHANGED <<chain, timer, poll, iteration, promise, resolved, hooks>>
-----------------------------------------------------------------------------
Next ==
  \/ \E outcome \in Outcomes : Mined(outcome)
  \/ Timeout
  \/ Query \/ Found \/ NotFound \/ QueryFails
  \/ Receipt \/ Reason \/ CallbackFails

Spec == Init /\ [][Next]_vars

\* A timer of the event loop fires; neither the chain nor the node that is
\* polled has to answer.
FairSpec == Spec /\ WF_vars(Timeout)
-----------------------------------------------------------------------------
(* Properties *)

\* Types; polling never asks more often than the code's bound allows.
TypeOK ==
  /\ chain \in {"pending"} \cup Outcomes
  /\ timer \in {"armed", "fired"}
  /\ poll \in {"scheduled", "asked", "ended"} /\ iteration \in 0..LastIteration
  /\ callback \in {"none", "receipt", "reason", "ended"}
  /\ promise \in {"pending"} \cup Settled
  /\ resolved \in BOOLEAN
  /\ hooks \in Seq({"confirmed", "reverted"})

\* Unless it timed out, the promise tells what happened on chain: a receipt of
\* success or of failure is one of an operation that did so, and an operation
\* that failed with a reason is a rejection, although the same callback also
\* resolves (extractFailureReason, listenerCallback).
OutcomeIsTrue ==
  /\ promise = "receipt" => chain = "success"
  /\ promise = "failedReceipt" => chain = "failedSilently"
  /\ promise = "reverted" => chain = "failedWithReason"

\* The promise is settled together with the first hook, which is that of the
\* settlement; what later hooks say does not change it.
FirstHookSettles ==
  /\ promise = "pending" <=> hooks = <<>>
  /\ hooks # <<>> => (hooks[1] = "confirmed" <=> promise \in {"receipt", "failedReceipt"})

\* transactionConfirmed is called at most once, whatever polling finds, and only
\* for an operation that was executed.
ConfirmedOnceExecuted ==
  /\ \A i, j \in DOMAIN hooks : hooks[i] = "confirmed" /\ hooks[j] = "confirmed" => i = j
  /\ chain = "pending" => \A i \in DOMAIN hooks : hooks[i] # "confirmed"

\* The promise settles once, with the first hook, and with what happened on chain
\* unless it timed out.  The hooks promise less: transactionConfirmed is called
\* for operations that failed, too, after transactionReverted if there is a
\* reason, and a timeout calls transactionReverted whatever became of the
\* operation (resolveWithHooks, rejectWithHooks).
PromiseIsTrue == OutcomeIsTrue /\ FirstHookSettles /\ ConfirmedOnceExecuted

\* Nobody waits for ever: whichever query or callback fails, the promise
\* settles in the end.
WaitEnds == <>(promise # "pending")
=============================================================================
