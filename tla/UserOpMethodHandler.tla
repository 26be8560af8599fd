------------------------ MODULE UserOpMethodHandler ------------------------
(***************************************************************************)
(* What the RPC server answers about an operation that was mined           *)
(* (packages/bundler/src/UserOpMethodHandler.ts), read from the log that   *)
(* EventsManager models.                                                   *)
(***************************************************************************)
EXTENDS EventsManager

\* The places among the events of a transaction where the operation ended.
Ends(o, evs) == {i \in DOMAIN evs : evs[i].event = "UserOperationEvent" /\ evs[i].op = o}

\* The first event of the operation, or none.
_getUserOperationEvent(o) ==
  LET tx == SelectInSeq(log, LAMBDA evs : Ends(o, evs) # {})
  IN  IF tx = 0 THEN <<>> ELSE <<log[tx][Min(Ends(o, log[tx]))]>>

\* Faulty variant: the event of the operation before is taken along.
FilterFromTheEvent(ev, logs) ==
  LET ends   == {i \in DOMAIN logs : logs[i].event = ev.event}
      end    == CHOOSE i \in ends : logs[i].op = ev.op
  IN  SubSeq(logs, Max({1} \cup {i \in ends : i < end}), end - 1)

\* What lies between the event of the operation before and the operation's own.
_filterLogs(ev, logs) ==
  LET ends   == {i \in DOMAIN logs : logs[i].event = ev.event}
      end    == CHOOSE i \in ends : logs[i].op = ev.op
  IN  SubSeq(logs, Max({0} \cup {i \in ends : i < end}) + 1, end - 1)

\* null, here the empty sequence, for an operation that is not on chain.
getUserOperationReceipt(o) ==
  LET found == _getUserOperationEvent(o)
  IN  IF found = <<>> THEN <<>> ELSE <<_filterLogs(found[1], log[found[1].tx])>>

\* Faulty variant: looked up by the sender alone.
ToldBySender(op, ev) == op.sender = ev.op.sender

\* The event tells the sender and the nonce of its operation.
Told(op, ev) == op.sender = ev.op.sender /\ op.nonce = ev.op.nonce

\* ops.find.
FoundIn(ops, ev) == CHOOSE o \in ops : Told(o, ev)

\* null, what was found, or an exception: the transaction does not go to the
\* EntryPoint, is no handleOps, or has no such operation.
getUserOperationByHash(o) ==
  LET found == _getUserOperationEvent(o)
      tx    == found[1].tx
  IN  IF found = <<>> THEN [answer |-> "null"]
      ELSE IF tx \in indirect \/ ~ \E other \in OpsOf(log[tx]) : Told(other, found[1])
      THEN [answer |-> "throws"]
      ELSE [answer |-> "found", op |-> FoundIn(OpsOf(log[tx]), found[1])]
-----------------------------------------------------------------------------
\* An operation that was mined is found by its hash, as itself, unless it came by
\* a transaction that the server cannot parse (UserOpMethodHandler.ts:202-209);
\* and whatever its place in the bundle, the logs of its receipt hold what its
\* own execution emitted, and nothing of the execution of another operation.
\* Of the logs of the validation this says nothing: see ReceiptIsItsOwn.
AnswersAreItsOwn ==
  \A o \in Ops :
    IF o \notin MinedOps
    THEN getUserOperationByHash(o) = [answer |-> "null"] /\ getUserOperationReceipt(o) = <<>>
    ELSE LET tx      == _getUserOperationEvent(o)[1].tx
             receipt == getUserOperationReceipt(o)[1]
             last    == Len(receipt)
         IN  /\ getUserOperationByHash(o) =
                  IF tx \in indirect THEN [answer |-> "throws"] ELSE [answer |-> "found", op |-> o]
             /\ last > 0 /\ receipt[last] = Event("Transfer", tx, o)
             /\ \A i \in 1..last - 1 : receipt[i].event \notin {"Transfer", "UserOperationEvent"}

\* UserOpMethodHandler.ts:169: "filter full bundle logs, and leave only logs for
\* the given userOpHash".  Violated: the EntryPoint validates the whole bundle
\* before it executes any of it, so the first operation gets the logs of the
\* validation of all.
ReceiptIsItsOwn ==
  \A o \in MinedOps :
    LET receipt == getUserOperationReceipt(o)[1]
    IN  \A i \in DOMAIN receipt : receipt[i].op = o
=============================================================================
