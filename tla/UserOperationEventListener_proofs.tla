------------------ MODULE UserOperationEventListener_proofs ------------------
(***************************************************************************)
(* What a wait settles with and which hooks it calls, however many queries *)
(* the polling makes.  The invariant adds where the callback stands: it    *)
(* starts when polling ends, for an operation that is on chain, and        *)
(* confirms as its last act.                                               *)
(***************************************************************************)
EXTENDS UserOperationEventListener, TLAPS

CallbackOK ==
  /\ poll # "ended" => callback = "none"
  /\ callback = "receipt" => chain # "pending"
  /\ callback = "reason" => chain \in {"failedWithReason", "failedSilently"}
  /\ callback # "ended" => \A i \in DOMAIN hooks : hooks[i] # "confirmed"

ListenerInv == TypeOK /\ OutcomeIsTrue /\ FirstHookSettles /\ ConfirmedOnceExecuted /\ CallbackOK
-----------------------------------------------------------------------------
\* Ending the callback with an outcome that is true, confirming once.
LEMMA EndsKeeps ==
  ASSUME ListenerInv, callback \in {"receipt", "reason"}, poll = "ended",
         NEW calls \in {<<"confirmed">>, <<"reverted", "confirmed">>},
         NEW how \in {"receipt", "failedReceipt", "reverted"}, Ends(calls, how),
         calls = <<"confirmed">> <=> how # "reverted",
         how = "receipt" => chain = "success",
         how = "failedReceipt" => chain = "failedSilently",
         how = "reverted" => chain = "failedWithReason"
  PROVE  ListenerInv'
<1> USE DEF ListenerInv, Ends
<1>1. hooks \in Seq({"confirmed", "reverted"}) /\ \A i \in 1..Len(hooks) : hooks[i] # "confirmed"
    BY DEF TypeOK, CallbackOK
<1>2. /\ hooks' \in Seq({"confirmed", "reverted"})
      /\ ConfirmedOnceExecuted' /\ FirstHookSettles'
  <2> DEFINE Calls == {"confirmed", "reverted"}
  <2>0. <<"confirmed">> \in Seq(Calls) /\ <<"reverted", "confirmed">> \in Seq(Calls)
      OBVIOUS
  <2>1. hooks' = hooks \o calls /\ calls \in Seq(Calls)
      BY <2>0
  <2>2. PICK n \in {1, 2} : Len(calls) = n /\ \A k \in 1..n : calls[k] = "confirmed" => k = n
      OBVIOUS
  <2>3. /\ hooks' \in Seq({"confirmed", "reverted"})
        /\ DOMAIN hooks' = 1..(Len(hooks) + n)
        /\ \A i \in 1..(Len(hooks) + n) :
             hooks'[i] = IF i <= Len(hooks) THEN hooks[i] ELSE calls[i - Len(hooks)]
      BY <1>1, <2>1, <2>2
  <2>4. \A i \in DOMAIN hooks' : hooks'[i] = "confirmed" => i = Len(hooks) + n
      BY <1>1, <2>2, <2>3
  <2>5. ConfirmedOnceExecuted'
      BY <2>3, <2>4 DEF ConfirmedOnceExecuted, OutcomeIsTrue
  <2>6. hooks' # <<>> /\ hooks'[1] = IF hooks = <<>> THEN calls[1] ELSE hooks[1]
    <3>1. Len(hooks) \in Nat /\ (hooks = <<>> <=> Len(hooks) = 0) /\ Len(hooks) + n >= 1
        BY <1>1, <2>2
    <3>2. 1 \in DOMAIN hooks' /\ hooks' \in Seq(Calls)
        BY <2>3, <3>1
    <3>3. hooks' # <<>>
        BY <3>2
    <3>4. hooks'[1] = IF 1 <= Len(hooks) THEN hooks[1] ELSE calls[1 - Len(hooks)]
        BY <2>3, <3>1
    <3> QED BY <3>1, <3>3, <3>4
  <2>7. promise' # "pending"
      BY DEF settled
  <2>8. calls[1] = "confirmed" <=> how # "reverted"
      OBVIOUS
  <2>9. FirstHookSettles'
      BY <2>6, <2>7, <2>8 DEF FirstHookSettles, settled
  <2> QED BY <2>3, <2>5, <2>9
<1>3. TypeOK' /\ OutcomeIsTrue'
    BY <1>2 DEF TypeOK, OutcomeIsTrue, settled, Settled
<1> QED BY <1>2, <1>3 DEF CallbackOK

\* Every step keeps the invariant.
LEMMA NextKeepsListener == ListenerInv /\ [Next]_vars => ListenerInv'
<1> SUFFICES ASSUME ListenerInv, [Next]_vars
             PROVE  ListenerInv'
    OBVIOUS
<1> USE DEF ListenerInv, TypeOK, OutcomeIsTrue, FirstHookSettles, ConfirmedOnceExecuted, CallbackOK
<1>1. ASSUME NEW outcome \in Outcomes, Mined(outcome)
      PROVE  ListenerInv'
    BY <1>1 DEF Mined, Outcomes
<1>2. CASE Timeout
    BY <1>2 DEF Timeout, settled, Settled
<1>3. CASE Query \/ NotFound \/ QueryFails
    BY <1>3, LastIterationAssumption DEF Query, NotFound, QueryFails
<1>4. CASE Found
    BY <1>4 DEF Found
<1>5. CASE Receipt
    BY <1>5, EndsKeeps DEF Receipt, Outcomes
<1>6. CASE Reason
    BY <1>6, EndsKeeps DEF Reason
<1>7. CASE CallbackFails
    BY <1>7 DEF CallbackFails
<1>8. CASE UNCHANGED vars
    BY <1>8 DEF vars
<1> QED BY <1>1, <1>2, <1>3, <1>4, <1>5, <1>6, <1>7, <1>8 DEF Next

\* The invariant holds along every behaviour.
THEOREM ListenerInvariant == Spec => []ListenerInv
<1>1. Init => ListenerInv
  <2> SUFFICES ASSUME Init PROVE ListenerInv
      OBVIOUS
  <2>1. hooks = <<>> /\ hooks \in Seq({"confirmed", "reverted"}) /\ DOMAIN hooks = {}
      BY DEF Init
  <2>2. 0 \in 0..LastIteration
      BY LastIterationAssumption
  <2> QED BY <2>1, <2>2
          DEF Init, ListenerInv, TypeOK, OutcomeIsTrue, FirstHookSettles, ConfirmedOnceExecuted,
              CallbackOK
<1> QED BY <1>1, NextKeepsListener, PTL DEF Spec

\* Types, and no more queries than the code's bound allows.
THEOREM ListenerType == Spec => []TypeOK
  BY ListenerInvariant, PTL DEF ListenerInv

\* The promise settles once, together with the first hook, and never with a
\* success, a failure or a reason for it that is not what the chain has;
\* transactionConfirmed is called at most once and for executed operations only.
\* Of transactionReverted nothing of the kind holds: a timeout calls it, too
\* (listenerCallback, extractFailureReason, rejectWithHooks).
THEOREM PromiseSettlesTruly == Spec => []PromiseIsTrue
  BY ListenerInvariant, PTL DEF ListenerInv, PromiseIsTrue
=============================================================================
