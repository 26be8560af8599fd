-------------------- MODULE InfuraWebSocketProvider_proofs --------------------
(***************************************************************************)
(* Whatever fails, and however often: the hand-over to the next provider   *)
(* drops no request that was sent, and every event listened to is listened *)
(* to again.                                                               *)
(***************************************************************************)
EXTENDS InfuraWebSocketProvider, TLAPS

\* The invariants of the runs are inductive together: what Open sends is what
\* was kept, and what an answer meets is what the open socket owes.
IInv == TypeOK /\ RequestsAreKnown /\ AnswersAreExpected /\ ListeningSurvives

LEMMA InitIInv == Init => IInv
  BY DropsAssumption
  DEF Init, IInv, TypeOK, RequestsAreKnown, AnswersAreExpected, ListeningSurvives

LEMMA CallKeeps == ASSUME IInv, NEW r \in Requests, Call(r) PROVE IInv'
  BY DEF IInv, TypeOK, RequestsAreKnown, AnswersAreExpected, ListeningSurvives, Call, eventVars

LEMMA SendKeeps == ASSUME IInv, NEW r \in Requests, Send(r) PROVE IInv'
  BY DEF IInv, TypeOK, RequestsAreKnown, AnswersAreExpected, ListeningSurvives, Send, eventVars

LEMMA SendOnOldKeeps == ASSUME IInv, NEW r \in Requests, SendOnOld(r) PROVE IInv'
  BY DEF IInv, TypeOK, RequestsAreKnown, AnswersAreExpected, ListeningSurvives, SendOnOld, eventVars

LEMMA ListenKeeps == ASSUME IInv, NEW e \in Events, Listen(e) \/ Unlisten(e) PROVE IInv'
  BY DEF IInv, TypeOK, RequestsAreKnown, AnswersAreExpected, ListeningSurvives, Listen, Unlisten,
         requestVars

LEMMA ServeKeeps == ASSUME IInv, NEW r \in Requests, Serve(r) PROVE IInv'
  BY DEF IInv, TypeOK, RequestsAreKnown, AnswersAreExpected, ListeningSurvives, Serve, eventVars

LEMMA AnswerKeeps == ASSUME IInv, NEW r \in Requests, Answer(r) PROVE IInv'
  BY DEF IInv, TypeOK, RequestsAreKnown, AnswersAreExpected, ListeningSurvives, Answer, eventVars

LEMMA FallSilentKeeps == ASSUME IInv, FallSilent PROVE IInv'
  BY DropsAssumption DEF IInv, TypeOK, RequestsAreKnown, AnswersAreExpected, ListeningSurvives,
         FallSilent, requestVars, eventVars

\* A socket that is not open owes nothing.
LEMMA ClosedKeeps ==
  ASSUME IInv, NEW how \in {"closed", "gone", "failed"}, Closed(how), drops' \in 0..MaxDrops
  PROVE  IInv'
  BY DEF IInv, TypeOK, RequestsAreKnown, AnswersAreExpected, ListeningSurvives, Closed, eventVars

LEMMA DropKeeps == ASSUME IInv, Drop \/ Fail \/ CloseNormally \/ PongTimeout PROVE IInv'
<1>1. drops' \in 0..MaxDrops
  BY DropsAssumption DEF IInv, TypeOK, Drop, Fail, CloseNormally, PongTimeout
<1>2. Closed("closed") \/ Closed("gone") \/ Closed("failed")
  BY DEF Drop, Fail, CloseNormally, PongTimeout
<1> QED BY <1>1, <1>2, ClosedKeeps

LEMMA OpenKeeps == ASSUME IInv, Open PROVE IInv'
  BY DEF IInv, TypeOK, RequestsAreKnown, AnswersAreExpected, ListeningSurvives, Open

LEMMA PingKeeps == ASSUME IInv, Ping \/ Pong PROVE IInv'
  BY DEF IInv, TypeOK, RequestsAreKnown, AnswersAreExpected, ListeningSurvives, Ping, Pong,
         requestVars, eventVars

LEMMA CreateKeeps == ASSUME IInv, Create PROVE IInv'
  BY DEF IInv, TypeOK, RequestsAreKnown, AnswersAreExpected, ListeningSurvives, Create

LEMMA NextKeeps == IInv /\ [Next]_vars => IInv'
<1> SUFFICES ASSUME IInv, [Next]_vars PROVE IInv'
  OBVIOUS
<1>1. CASE UNCHANGED vars
  BY <1>1 DEF IInv, TypeOK, RequestsAreKnown, AnswersAreExpected, ListeningSurvives, vars,
              requestVars, eventVars
<1>2. CASE \E r \in Requests : Call(r) \/ Send(r) \/ SendOnOld(r) \/ Serve(r) \/ Answer(r)
  BY <1>2, CallKeeps, SendKeeps, SendOnOldKeeps, ServeKeeps, AnswerKeeps
<1>3. CASE \E e \in Events : Listen(e) \/ Unlisten(e)
  BY <1>3, ListenKeeps
<1>4. CASE FallSilent \/ Drop \/ Fail \/ CloseNormally \/ PongTimeout
  BY <1>4, FallSilentKeeps, DropKeeps
<1>5. CASE Open \/ Ping \/ Pong \/ Create
  BY <1>5, OpenKeeps, PingKeeps, CreateKeeps
<1> QED BY <1>1, <1>2, <1>3, <1>4, <1>5 DEF Next

\* The inductive invariant holds in every behaviour of create and its handlers.
THEOREM ProviderInvariant == Spec => []IInv
  BY InitIInv, NextKeeps, PTL DEF Spec

\* Types, and nothing on the wire of a socket that is not open.
THEOREM ProviderType == Spec => []TypeOK
<1>1. IInv => TypeOK
  BY DEF IInv
<1> QED BY <1>1, ProviderInvariant, PTL

\* For any number of failures of the socket: a request that was sent and not
\* answered is either the current provider's or kept for the next, and an open
\* socket owes exactly the answers of its provider's requests.
THEOREM RequestsAreKept == Spec => []WaitingIsKept
<1>1. IInv => WaitingIsKept
  BY DEF IInv, WaitingIsKept
<1> QED BY <1>1, ProviderInvariant, PTL

\* Whatever the application listens to survives any number of reconnections.
THEOREM EventsAreKept == Spec => []ListeningSurvives
<1>1. IInv => ListeningSurvives
  BY DEF IInv
<1> QED BY <1>1, ProviderInvariant, PTL
=============================================================================
