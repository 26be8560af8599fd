----------------------- MODULE InfuraWebSocketProvider -----------------------
(***************************************************************************)
(* A provider that reconnects: behind a proxy, each socket that closed is  *)
(* replaced by a new provider, which takes over the requests that were not *)
(* answered and the events that were listened to                           *)
(* (packages/sdk/src/InfuraWebSocketProvider.ts).  The WebSocketProvider   *)
(* of ethers, the socket of ws and the server are external: an open socket *)
(* is closed, but a handshake that fails is an 'error' event, for which no *)
(* handler is registered: it throws, and nothing is closed or replaced.    *)
(***************************************************************************)
EXTENDS Naturals

CONSTANTS
  Requests,     \* calls of the application, each with an id of its own
  Events,       \* what it listens to
  MaxDrops      \* bound on the failures of the network, for model checking

ASSUME DropsAssumption == MaxDrops \in Nat

VARIABLES
  socket,       \* of the current provider
  link,         \* whether anything still arrives over it
  pong,         \* pongTimeout
  status,       \* of each request
  wire,         \* the requests the server has got and not answered
  replies,      \* the answers under way
  _requests,    \* of the current provider
  requests,     \* kept for the next one
  _events,
  events,
  wanted,       \* what the application listens to
  drops

requestVars == <<status, wire, replies, _requests, requests>>
eventVars == <<_events, events, wanted>>
vars == <<socket, link, pong, requestVars, eventVars, drops>>

Init ==
  /\ socket = "connecting" /\ link = "alive" /\ pong = "none"
  /\ status = [r \in Requests |-> "none"]
  /\ wire = {} /\ replies = {} /\ _requests = {} /\ requests = {}
  /\ _events = {} /\ events = {} /\ wanted = {}
  /\ drops = 0
-----------------------------------------------------------------------------
(* The application *)

\* The proxy binds the method to the provider of the moment.
Call(r) ==
  /\ status[r] = "none"
  /\ status' = [status EXCEPT ![r] = "called"]
  /\ UNCHANGED <<socket, link, pong, wire, replies, _requests, requests, eventVars, drops>>

\* After the awaits of the method: it is sent at once, or when the socket opens.
Send(r) ==
  /\ status[r] = "called"
  /\ status' = [status EXCEPT ![r] = "waiting"]
  /\ _requests' = _requests \cup {r}
  /\ wire' = IF socket = "open" THEN wire \cup {r} ELSE wire
  /\ UNCHANGED <<socket, link, pong, replies, requests, eventVars, drops>>

\* The provider was replaced meanwhile: nobody looks at its requests again.
SendOnOld(r) ==
  /\ status[r] = "calledBefore"
  /\ status' = [status EXCEPT ![r] = "stranded"]
  /\ UNCHANGED <<socket, link, pong, wire, replies, _requests, requests, eventVars, drops>>

Listen(e) ==
  /\ e \notin wanted \cup _events
  /\ _events' = _events \cup {e} /\ wanted' = wanted \cup {e}
  /\ UNCHANGED <<socket, link, pong, requestVars, events, drops>>

\* Only the current provider forgets the event.
Unlisten(e) ==
  /\ e \in wanted
  /\ _events' = _events \ {e} /\ wanted' = wanted \ {e}
  /\ UNCHANGED <<socket, link, pong, requestVars, events, drops>>
-----------------------------------------------------------------------------
(* The server and the network *)

Serve(r) ==
  /\ socket = "open" /\ link = "alive" /\ r \in wire
  /\ wire' = wire \ {r} /\ replies' = replies \cup {r}
  /\ UNCHANGED <<socket, link, pong, status, _requests, requests, eventVars, drops>>

\* onmessage of ethers looks the request up by the id of the answer.
Answer(r) ==
  /\ socket = "open" /\ link = "alive" /\ r \in replies
  /\ replies' = replies \ {r} /\ _requests' = _requests \ {r}
  /\ status' = [status EXCEPT ![r] = "answered"]
  /\ UNCHANGED <<socket, link, pong, wire, requests, eventVars, drops>>

\* Nothing arrives any more, and nobody is told.
FallSilent ==
  /\ socket \in {"connecting", "open"} /\ link = "alive" /\ drops < MaxDrops
  /\ link' = "silent" /\ drops' = drops + 1
  /\ UNCHANGED <<socket, pong, requestVars, eventVars>>

\* Faulty variant: only the interval of the pings is cleared.
ClosedTimerOn(how) ==
  /\ socket' = how
  /\ wire' = {} /\ replies' = {}
  /\ UNCHANGED <<pong, link, status, _requests, requests, eventVars>>

\* Of what was under way nothing arrives; the timers are cleared.
Closed(how) ==
  /\ socket' = how /\ pong' = "none"
  /\ wire' = {} /\ replies' = {}
  /\ UNCHANGED <<link, status, _requests, requests, eventVars>>

\* The network or the server closes the open socket.
Drop ==
  /\ socket = "open" /\ drops < MaxDrops
  /\ drops' = drops + 1
  /\ Closed("closed")

\* The handshake fails, or what arrives is no frame: ws emits 'error' first,
\* nobody handles it, and the exception leaves the provider as it is for good.
Fail ==
  /\ socket \in {"connecting", "open"} /\ drops < MaxDrops
  /\ drops' = drops + 1
  /\ Closed("failed")

\* Code 1000: the provider stays closed.
CloseNormally ==
  /\ socket = "open"
  /\ Closed("gone")
  /\ UNCHANGED drops
-----------------------------------------------------------------------------
(* The provider *)

\* Faulty variant: the events are kept, and the new provider gets no copy.
OpenWithoutEvents ==
  /\ socket = "connecting" /\ link = "alive"
  /\ socket' = "open"
  /\ _requests' = _requests \cup requests /\ requests' = {}
  /\ wire' = _requests \cup requests
  /\ events' = {}
  /\ UNCHANGED <<link, pong, status, replies, _events, wanted, drops>>

\* Faulty variant: the requests kept are sent and not handed over.
OpenForgetful ==
  /\ socket = "connecting" /\ link = "alive"
  /\ socket' = "open"
  /\ requests' = {} /\ UNCHANGED _requests
  /\ wire' = _requests \cup requests
  /\ _events' = _events \cup events /\ events' = {}
  /\ UNCHANGED <<link, pong, status, replies, wanted, drops>>

\* ethers sends what was asked for since the provider was created; the handler
\* hands over and sends what was kept.
Open ==
  /\ socket = "connecting" /\ link = "alive"
  /\ socket' = "open"
  /\ _requests' = _requests \cup requests /\ requests' = {}
  /\ wire' = _requests \cup requests
  /\ _events' = _events \cup events /\ events' = {}
  /\ UNCHANGED <<link, pong, status, replies, wanted, drops>>

\* Faulty variant: no ping is ever sent.
NoPing == FALSE /\ UNCHANGED vars

Ping ==
  /\ socket = "open" /\ pong = "none"
  /\ pong' = "awaited"
  /\ UNCHANGED <<socket, link, requestVars, eventVars, drops>>

Pong ==
  /\ socket = "open" /\ link = "alive" /\ pong = "awaited"
  /\ pong' = "none"
  /\ UNCHANGED <<socket, link, requestVars, eventVars, drops>>

\* terminate(); of a live peer only if the pong is late.
PongTimeout ==
  /\ socket = "open" /\ pong = "awaited"
  /\ \/ link = "silent" /\ UNCHANGED drops
     \/ link = "alive" /\ drops < MaxDrops /\ drops' = drops + 1
  /\ Closed("closed")

\* create() again, WEBSOCKET_RECONNECT_DELAY after the socket closed.
Create ==
  /\ socket = "closed"
  /\ socket' = "connecting" /\ link' = "alive"
  /\ requests' = requests \cup _requests /\ _requests' = {}
  /\ events' = events \cup _events /\ _events' = {}
  /\ status' = [r \in Requests |-> IF status[r] = "called" THEN "calledBefore" ELSE status[r]]
  /\ UNCHANGED <<pong, wire, replies, wanted, drops>>
-----------------------------------------------------------------------------
Next ==
  \/ \E r \in Requests : Call(r) \/ Send(r) \/ SendOnOld(r) \/ Serve(r) \/ Answer(r)
  \/ \E e \in Events : Listen(e) \/ Unlisten(e)
  \/ FallSilent \/ Drop \/ Fail \/ CloseNormally
  \/ Open \/ Ping \/ Pong \/ PongTimeout \/ Create

Spec == Init /\ [][Next]_vars

\* The timers fire, and a server that is reached answers.  Of a handshake nothing
\* is assumed here.
FairSpec ==
  /\ Spec
  /\ WF_vars(Create) /\ WF_vars(Ping) /\ WF_vars(PongTimeout)
  /\ \A r \in Requests : WF_vars(Serve(r)) /\ WF_vars(Answer(r))
-----------------------------------------------------------------------------
(* Properties *)

\* Types; a socket that is not open has nothing on the wire.
TypeOK ==
  /\ socket \in {"connecting", "open", "closed", "gone", "failed"}
  /\ link \in {"alive", "silent"} /\ pong \in {"none", "awaited"}
  /\ status \in [Requests -> {"none", "called", "calledBefore", "waiting", "stranded", "answered"}]
  /\ wire \cup replies \cup _requests \cup requests \subseteq Requests
  /\ wanted \cup _events \cup events \subseteq Events
  /\ drops \in 0..MaxDrops
  /\ socket # "open" => wire \cup replies = {} /\ pong = "none"

\* What the application waits for is known to the current provider or kept for
\* the next, and only that.
RequestsAreKnown ==
  \A r \in Requests :
    /\ status[r] = "waiting" <=> r \in _requests \cup requests
    /\ r \notin _requests \cap requests

\* An open socket owes an answer to each request of its provider, and to no other.
AnswersAreExpected ==
  socket = "open" => wire \cup replies = _requests /\ wire \cap replies = {}

\* Across any number of reconnections a request that was sent and not answered
\* is on exactly one of the two lists, never dropped by the hand-over, and every
\* answer finds its request: onmessage would fail on an id it does not know
\* (create, on open).  Not promised: a call whose provider was replaced before it
\* was sent is on no list, and a request whose answer was lost with the socket is
\* sent, and served, again.
WaitingIsKept == RequestsAreKnown /\ AnswersAreExpected

\* What the application listens to survives every reconnection, and an open
\* provider listens to all of it.  The other direction is not promised: off()
\* during a reconnection does not reach the events that are kept.
ListeningSurvives ==
  /\ wanted \subseteq _events \cup events
  /\ socket = "open" => events = {}

\* If every handshake ends and no socket fails with an 'error' event, a request
\* that was sent is answered in the end, also if an open socket is closed or its
\* peer falls silent without a word, unless the socket was closed for good.
WaitingEnds ==
  []<>(socket # "connecting") /\ [](socket # "failed") =>
    \A r \in Requests : status[r] = "waiting" ~> status[r] = "answered" \/ socket = "gone"
=============================================================================
