---------------------------- MODULE EventsManager ----------------------------
(***************************************************************************)
(* The reputation table among its callers: the listener that is to report  *)
(* on-chain inclusions (packages/bundler/src/modules/EventsManager.ts),    *)
(* operations entering the mempool, which are seen, bundles that crash,    *)
(* the hourly cron and the debug API.  Bundles being mined emit the        *)
(* events; the log of the chain is also what the RPC server answers from,  *)
(* see UserOpMethodHandler.                                                *)
(***************************************************************************)
EXTENDS ReputationManager, FiniteSets, SequencesExt

CONSTANTS
  Ops,          \* operations, with their sender, paymaster and factory
  MaxBundle,    \* bound on the operations of a bundle, for model checking
  Checksummed,  \* address -> the same address as ethers decodes it
  NoTx

ASSUME ChecksummedAssumption == Checksummed \in [Addrs \cup {NoAddr} -> Addrs \cup {NoAddr}]

VARIABLES
  cache,        \* eventAggregator and eventAggregatorTxHash
  log,          \* the chain: a sequence of events for each transaction
  indirect,     \* the transactions that are no handleOps to the EntryPoint itself
  heard,        \* how many events the listener has been handed
  past          \* of the events that handlePastEvents fetched: the next, the last

eventVars == <<entries, cache, log, indirect, heard, past>>

\* All events of the chain, in order.
Emitted == FlattenSeq(log)

AddressLength == 42      \* characters of "0x" and 20 bytes
-----------------------------------------------------------------------------
(* Handlers, from a state of the manager and the table to the next one *)

\* The guard asks for more characters than an address has.
_includedAddress(m, addr) ==
  IF addr # NoAddr /\ AddressLength > 42
  THEN [m EXCEPT !.entries = updateIncludedStatus(@, addr)] ELSE m

\* The aggregator of the event's transaction; none has been seen for a new one.
getEventAggregator(m, ev) ==
  IF ev.tx = m.cache.tx THEN m ELSE [m EXCEPT !.cache = [addr |-> NoAddr, tx |-> ev.tx]]

handleUserOperationEvent(m, ev) ==
  LET known == getEventAggregator(m, ev)
      withOp == _includedAddress(_includedAddress(known, ev.sender), ev.paymaster)
  IN  _includedAddress(withOp, known.cache.addr)

handleAccountDeployedEvent(m, ev) == _includedAddress(m, ev.factory)

handleAggregatorChangedEvent(m, ev) ==
  [m EXCEPT !.cache = [addr |-> ev.aggregator, tx |-> ev.tx]]

\* The cases are the names of the TypeScript types of the events; `ev.event` is
\* the name of the event itself, so none of them matches what the chain emits,
\* and nothing is ever counted as included.
handleEvent(m, ev) ==
  CASE ev.event = "UserOperationEventEvent" -> handleUserOperationEvent(m, ev)
    [] ev.event = "AccountDeployedEvent" -> handleAccountDeployedEvent(m, ev)
    [] ev.event = "SignatureAggregatorForUserOperationsEvent" ->
         handleAggregatorChangedEvent(m, ev)
    [] OTHER -> m
-----------------------------------------------------------------------------
EventsInit ==
  /\ Init
  /\ cache = [addr |-> NoAddr, tx |-> NoTx]
  /\ log = <<>>
  /\ indirect = {}
  /\ heard = 0
  /\ past = [next |-> 1, last |-> 0]

\* MempoolManager.updateSeenStatus.
Seen(o) ==
  /\ \A a \in {o.paymaster, o.factory} \ {NoAddr} :
       getOrCreate(entries, a).opsSeen < MaxOps
  /\ entries' = updateSeenStatus(updateSeenStatus(entries, o.paymaster), o.factory)
  /\ UNCHANGED <<cache, log, indirect, heard, past>>

\* A bundle crashed and a paymaster or factory is blamed, the cron runs, or
\* debug_bundler_clearState is called.
TableStep ==
  /\ \/ \E o \in Ops : \E a \in {Checksummed[o.paymaster], o.factory} :
          entries' = crashedHandleOps(entries, a)
     \/ entries' = hourlyCron(entries)
     \/ entries' = NoEntries
  /\ UNCHANGED <<cache, log, indirect, heard, past>>

\* What one operation leaves in the log of its transaction.
Event(name, tx, o) ==
  [event |-> name, tx |-> tx, op |-> o, sender |-> Checksummed[o.sender],
   paymaster |-> Checksummed[o.paymaster], factory |-> Checksummed[o.factory],
   aggregator |-> NoAddr]

Validated(tx, o) == IF o.factory = NoAddr THEN <<>> ELSE <<Event("AccountDeployed", tx, o)>>

Executed(tx, o) == <<Event("Transfer", tx, o), Event("UserOperationEvent", tx, o)>>

\* The EntryPoint validates every operation of a bundle, then executes them in
\* turn, each followed by its event.  The bundler uses handleOps, which has no
\* aggregator event.
BundleEvents(tx, b) ==
  FlattenSeq([i \in DOMAIN b |-> Validated(tx, b[i])])
    \o FlattenSeq([i \in DOMAIN b |-> Executed(tx, b[i])])

OpsOf(evs) == {evs[i].op : i \in DOMAIN evs}
MinedOps == UNION {OpsOf(log[tx]) : tx \in DOMAIN log}

\* Anyone's bundles: an account takes its operations in the order of their nonces.
Bundles ==
  {b \in SeqOf(Ops \ MinedOps, MaxBundle) :
     /\ b # <<>>
     /\ \A i \in DOMAIN b :
          b[i].nonce = Cardinality({o \in MinedOps \cup {b[j] : j \in 1..i - 1} :
                                      o.sender = b[i].sender})}

\* The transaction calls handleOps of the EntryPoint, or is `relayed`: it calls
\* another contract or another method, whose own events are left out.
Mined(b, relayed) ==
  LET tx == Len(log) + 1
  IN  /\ log' = Append(log, BundleEvents(tx, b))
      /\ indirect' = indirect \cup (IF relayed THEN {tx} ELSE {})
      /\ UNCHANGED <<entries, cache, heard, past>>

\* The manager and the table after the event.
Handle(ev) ==
  LET m == handleEvent([entries |-> entries, cache |-> cache], ev)
  IN  entries' = m.entries /\ cache' = m.cache

\* initEventListener subscribes to UserOperationEvent only.
Listen ==
  /\ heard < Len(Emitted)
  /\ heard' = heard + 1
  /\ IF Emitted[heard'].event = "UserOperationEvent"
     THEN Handle(Emitted[heard']) ELSE UNCHANGED <<entries, cache>>
  /\ UNCHANGED <<log, indirect, past>>

\* handlePastEvents fetches every event since lastBlock, which stays 0.  Nothing
\* in the server calls it; one call at a time, for model checking.
FetchPastEvents ==
  /\ past.next > past.last
  /\ past' = [next |-> 1, last |-> Len(Emitted)]
  /\ UNCHANGED <<entries, cache, log, indirect, heard>>

\* Faulty variant: one event too many is awaited.
HandlePastLast ==
  /\ past.next <= past.last + 1 /\ past.last > 0
  /\ past' = [past EXCEPT !.next = @ + 1]
  /\ UNCHANGED <<entries, cache, log, indirect, heard>>

\* One of them is handled, and the loop awaits before the next.
HandlePastEvent ==
  /\ past.next <= past.last
  /\ Handle(Emitted[past.next])
  /\ past' = [past EXCEPT !.next = @ + 1]
  /\ UNCHANGED <<log, indirect, heard>>

EventsNext ==
  \/ \E o \in Ops : Seen(o)
  \/ TableStep
  \/ \E b \in Bundles, relayed \in BOOLEAN : Mined(b, relayed)
  \/ Listen \/ FetchPastEvents \/ HandlePastEvent

EventsSpec == EventsInit /\ [][EventsNext]_eventVars
-----------------------------------------------------------------------------
(* Properties *)

\* Types; neither the listener nor a replay handles an event that is not in the
\* log, however bundles are mined, heard and replayed meanwhile.
EventsTypeOK ==
  /\ TypeOK
  /\ cache \in [addr : Addrs \cup {NoAddr}, tx : 1..Len(log) \cup {NoTx}]
  /\ indirect \subseteq 1..Len(log)
  /\ heard \in 0..Len(Emitted)
  /\ past \in [next : Nat \ {0}, last : 0..Len(Emitted)] /\ past.next <= past.last + 1
=============================================================================
