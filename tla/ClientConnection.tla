-------------------------- MODULE ClientConnection --------------------------
(***************************************************************************)
(* The connection of one browser client to River, and what depends on it:  *)
(* how a connection is opened and registered (service/river-client-        *)
(* factory.ts, service/outerspace-client.ts, util/registry.ts), how a      *)
(* response finds the request it answers, the message listeners of the     *)
(* client (public/worker.ts) and the subscriptions of its sessions at      *)
(* River (outerspace/subscription.h, river/handler.cpp).                   *)
(*                                                                         *)
(* A caller is an asynchronous function of worker.ts or client.ts; between *)
(* two awaits it is one step.  River's threads handle the requests of a    *)
(* session in any order and their responses are sent in any order.  A      *)
(* message that arrives after close() is not delivered, as the WebSocket   *)
(* standard has it.                                                        *)
(***************************************************************************)
EXTENDS Naturals, Sequences, FiniteSets, SequencesExt

CONSTANTS Events,          \* message class and source: what is subscribed to
          Data,            \* keys of Data whose updates are subscribed to
          Callers,         \* calls that may be under way; each has one listener
          Nobody,          \* no connection, no topic
          MaxConnections,  \* bound: connections ever opened
          MaxCalls,        \* bound: calls ever started
          HeaderRange,     \* values of a request id in a header (2^32)
          Operations,      \* what the program does, of AllOperations
          Exclusive        \* the program awaits its calls on one event

Topics == Events \cup Data
Connections == 1 .. MaxConnections

Subscriptions == {"subscribe", "unsubscribe", "watch", "unwatch"}
Requests == Subscriptions \cup {"request"}
AllOperations == Requests \cup {"remove", "close", "lose"}

ASSUME ConstantsAssumption ==
    /\ MaxConnections \in Nat /\ MaxCalls \in Nat
    /\ HeaderRange \in Nat \ {0} /\ MaxCalls < HeaderRange
    /\ Operations \subseteq AllOperations
    /\ Exclusive \in BOOLEAN
    /\ Events \cap Data = {}
    /\ Nobody \notin Topics \cup Connections

VARIABLES socket,      \* a connection: readyState, and "lost" when it broke
          river,       \* WorkerRegistry: the registered connection
          nextId,      \* _nextRequestId of a connection
          waiting,     \* _waitingRequests of all connections
          listeners,   \* MessageRegistry: the listeners of an event, in order
          call,        \* what a caller is doing
          requests,    \* requests that River has not handled
          responses,   \* responses on their way
          subscribed,  \* River: the topics of a session
          calls        \* how many calls were started

clientVars == <<socket, river, nextId, waiting, listeners, call>>
vars == <<socket, river, nextId, waiting, listeners, call, requests,
          responses, subscribed, calls>>

SocketStates == {"unused", "connecting", "open", "closing", "closed", "lost"}
Pcs == {"idle", "connecting", "ready", "waiting"}
Call == [pc : Pcs, op : Requests, topic : Topics \cup {Nobody},
         conn : Connections \cup {Nobody}]
Idle == [pc |-> "idle", op |-> "request", topic |-> Nobody, conn |-> Nobody]

\* "caller" is not sent: it is the call a request was made for.
Executor == [conn : Connections, id : Nat, caller : Callers]
Request == [conn : Connections, id : Nat, caller : Callers, op : Requests,
            topic : Topics \cup {Nobody}]
Response == [conn : Connections, id : Nat, caller : Callers, ok : BOOLEAN]

Init ==
    /\ socket = [c \in Connections |-> "unused"]
    /\ river = Nobody
    /\ nextId = [c \in Connections |-> 1]
    /\ waiting = {} /\ requests = {} /\ responses = {} /\ subscribed = {}
    /\ listeners = [e \in {} |-> <<>>]
    /\ call = [t \in Callers |-> Idle]
    /\ calls = 0

-----------------------------------------------------------------------------
(* A call gets the registered connection, or opens one.  Nothing notes     *)
(* that a connection is being opened: a second call opens another.         *)

Busy(topic) == \E t \in Callers : call[t].pc # "idle" /\ call[t].topic = topic

MayStart(t, op, topic) ==
    /\ op \in Operations
    /\ call[t].pc = "idle"
    /\ calls < MaxCalls
    /\ Exclusive /\ topic \in Events => ~Busy(topic)

Unused == {c \in Connections : socket[c] = "unused"}

GetRiverClient(t, op, topic) ==
    \/ /\ river # Nobody
       /\ call' = [call EXCEPT ![t] = [pc |-> "ready", op |-> op,
                                       topic |-> topic, conn |-> river]]
       /\ UNCHANGED socket
    \/ /\ river = Nobody
       /\ \E c \in Unused :
             /\ \A d \in Unused : c <= d
             /\ socket' = [socket EXCEPT ![c] = "connecting"]
             /\ call' = [call EXCEPT ![t] = [pc |-> "connecting", op |-> op,
                                             topic |-> topic, conn |-> c]]

AddListener(t, e) ==
    listeners' = [f \in DOMAIN listeners \cup {e} |->
                    IF f # e THEN listeners[f]
                    ELSE IF e \in DOMAIN listeners THEN Append(listeners[e], t)
                    ELSE <<t>>]

\* Mutant: the listeners go, the entry of the event stays.
ClearListenersKeepingEntry(e) ==
    listeners' = [f \in DOMAIN listeners |->
                    IF f = e THEN <<>> ELSE listeners[f]]

ClearListeners(e) ==
    listeners' = [f \in DOMAIN listeners \ {e} |-> listeners[f]]

\* An event that has an entry, though it may be empty, is taken to be
\* subscribed to: the listener is added and the call is done.
Subscribe(t, e) ==
    /\ MayStart(t, "subscribe", e)
    /\ calls' = calls + 1
    /\ \/ /\ e \in DOMAIN listeners
          /\ AddListener(t, e)
          /\ UNCHANGED <<socket, call>>
       \/ /\ e \notin DOMAIN listeners
          /\ GetRiverClient(t, "subscribe", e)
          /\ UNCHANGED listeners
    /\ UNCHANGED <<river, nextId, waiting, requests, responses, subscribed>>

StartRequest(t, op, topic) ==
    /\ MayStart(t, op, topic)
    /\ calls' = calls + 1
    /\ GetRiverClient(t, op, topic)
    /\ UNCHANGED <<river, nextId, waiting, listeners, requests, responses,
                   subscribed>>

Unsubscribe(t, e) == StartRequest(t, "unsubscribe", e)
SubscribeUpdates(t, k) == StartRequest(t, "watch", k)
UnsubscribeUpdates(t, k) == StartRequest(t, "unwatch", k)
\* getDataAsync, saveDataAsync and callServiceMethodAsync
OtherRequest(t) == StartRequest(t, "request", Nobody)

SetRiverClient(c) == river' = c

\* onopen: the client is made and registered, in place of any other.
Opened(t) ==
    /\ call[t].pc = "connecting" /\ socket[call[t].conn] = "connecting"
    /\ socket' = [socket EXCEPT ![call[t].conn] = "open"]
    /\ SetRiverClient(call[t].conn)
    /\ call' = [call EXCEPT ![t].pc = "ready"]
    /\ UNCHANGED <<nextId, waiting, listeners, requests, responses, subscribed,
                   calls>>

\* onclose before onopen: the call throws.
OpenFailed(t) ==
    /\ call[t].pc = "connecting" /\ socket[call[t].conn] = "connecting"
    /\ socket' = [socket EXCEPT ![call[t].conn] = "closed"]
    /\ call' = [call EXCEPT ![t] = Idle]
    /\ UNCHANGED <<river, nextId, waiting, listeners, requests, responses,
                   subscribed, calls>>

-----------------------------------------------------------------------------
(* A request is sent with the number of the next, and waits for a response *)
(* with that number.                                                       *)

\* Mutant: a request does not take its number.
BundleRequestSameId(c) == UNCHANGED nextId

BundleRequest(c) == nextId' = [nextId EXCEPT ![c] = @ + 1]

SetWaiting(c, id, t) ==
    waiting' = {w \in waiting : w.conn # c \/ w.id # id}
                  \cup {[conn |-> c, id |-> id, caller |-> t]}

SendRequest(t) ==
    LET c == call[t].conn IN
    /\ call[t].pc = "ready"
    /\ BundleRequest(c)
    /\ \/ /\ socket[c] = "open"
          /\ SetWaiting(c, nextId[c], t)
          /\ requests' = requests \cup
                {[conn |-> c, id |-> nextId[c] % HeaderRange, caller |-> t,
                  op |-> call[t].op, topic |-> call[t].topic]}
          /\ call' = [call EXCEPT ![t].pc = "waiting"]
       \/ /\ socket[c] # "open"
          /\ call' = [call EXCEPT ![t] = Idle]
          /\ UNCHANGED <<waiting, requests>>
    /\ UNCHANGED <<socket, river, listeners, responses, subscribed, calls>>

\* What the caller does with the answer to its request.
Finish(t, ok) ==
    /\ call' = [call EXCEPT ![t] = Idle]
    /\ IF ok /\ call[t].op = "subscribe" THEN AddListener(t, call[t].topic)
       ELSE IF ok /\ call[t].op = "unsubscribe" THEN ClearListeners(call[t].topic)
       ELSE UNCHANGED listeners

\* onMessage, handleResponse: a response that nothing waits for is ignored.
ReceiveResponse(r) ==
    /\ socket[r.conn] = "open"
    /\ responses' = responses \ {r}
    /\ \/ \E w \in waiting :
             /\ w.conn = r.conn /\ w.id = r.id
             /\ waiting' = waiting \ {w}
             /\ Finish(w.caller, r.ok)
       \/ /\ \A w \in waiting : w.conn # r.conn \/ w.id # r.id
          /\ UNCHANGED <<waiting, listeners, call>>
    /\ UNCHANGED <<socket, river, nextId, requests, subscribed, calls>>

-----------------------------------------------------------------------------
(* Operations without a request, and the end of connections.               *)

\* The entry of the event stays, even when its last listener goes.
RemoveListener(t, e) ==
    /\ "remove" \in Operations
    /\ e \in DOMAIN listeners /\ t \in ToSet(listeners[e])
    /\ listeners' = [listeners EXCEPT ![e] = RemoveFirst(@, t)]
    /\ UNCHANGED <<socket, river, nextId, waiting, call, requests, responses,
                   subscribed, calls>>

\* The connection that is registered is shut down; what waits on it is not told.
ClearRiverClients ==
    /\ socket' = [c \in Connections |->
                    IF c = river /\ socket[c] = "open" THEN "closing"
                                                       ELSE socket[c]]
    /\ river' = Nobody

CloseConnections ==
    /\ "close" \in Operations
    /\ river # Nobody \/ listeners # [e \in {} |-> <<>>]
    /\ ClearRiverClients
    /\ listeners' = [e \in {} |-> <<>>]
    /\ UNCHANGED <<nextId, waiting, call, requests, responses, subscribed, calls>>

\* The connection breaks.  onClose only logs: the client stays registered.
Lose(c) ==
    /\ "lose" \in Operations
    /\ socket[c] = "open"
    /\ socket' = [socket EXCEPT ![c] = "lost"]
    /\ UNCHANGED <<river, nextId, waiting, listeners, call, requests, responses,
                   subscribed, calls>>

-----------------------------------------------------------------------------
(* River.                                                                  *)

Of(c, S) == {x \in S : x.conn = c}
SubscriptionsOf(c) == {s \in subscribed : s[1] = c}
Sessions(topic) == {c \in Connections : <<c, topic>> \in subscribed}

\* Mutant: a request that fails is not answered.
HandleAnsweringSuccess(r) ==
    /\ requests' = requests \ {r}
    /\ \/ /\ responses' = responses \cup
                {[conn |-> r.conn, id |-> r.id, caller |-> r.caller, ok |-> TRUE]}
          /\ subscribed' = IF r.op \in {"subscribe", "watch"}
                           THEN subscribed \cup {<<r.conn, r.topic>>}
                           ELSE subscribed \ {<<r.conn, r.topic>>}
       \/ UNCHANGED <<responses, subscribed>>
    /\ UNCHANGED <<socket, river, nextId, waiting, listeners, call, calls>>

\* A request may be refused before it is handled, or fail.
Handle(r) ==
    /\ requests' = requests \ {r}
    /\ \E ok \in BOOLEAN :
          /\ responses' = responses \cup
                {[conn |-> r.conn, id |-> r.id, caller |-> r.caller, ok |-> ok]}
          /\ subscribed' =
                IF ok /\ r.op \in {"subscribe", "watch"}
                THEN subscribed \cup {<<r.conn, r.topic>>}
                ELSE IF ok /\ r.op \in {"unsubscribe", "unwatch"}
                THEN subscribed \ {<<r.conn, r.topic>>}
                ELSE subscribed
    /\ UNCHANGED <<socket, river, nextId, waiting, listeners, call, calls>>

\* ~WebSocketSession: nothing reads from the connection nor answers on it.
EndSession(c) ==
    /\ socket[c] \in {"closing", "lost"}
    /\ socket[c] = "lost" => Of(c, requests) \cup Of(c, responses) # {}
                               \/ SubscriptionsOf(c) # {}
    /\ socket' = [socket EXCEPT ![c] = IF @ = "closing" THEN "closed" ELSE @]
    /\ requests' = requests \ Of(c, requests)
    /\ responses' = responses \ Of(c, responses)
    /\ subscribed' = subscribed \ SubscriptionsOf(c)
    /\ UNCHANGED <<river, nextId, waiting, listeners, call, calls>>

-----------------------------------------------------------------------------
Connect(t) == Opened(t) \/ OpenFailed(t)

CallerNext(t) ==
    \/ \E e \in Events : \/ Subscribe(t, e)
                         \/ Unsubscribe(t, e)
                         \/ RemoveListener(t, e)
    \/ \E k \in Data : SubscribeUpdates(t, k) \/ UnsubscribeUpdates(t, k)
    \/ OtherRequest(t)
    \/ Opened(t)
    \/ OpenFailed(t)
    \/ SendRequest(t)

Next ==
    \/ \E t \in Callers : CallerNext(t)
    \/ CloseConnections
    \/ \E c \in Connections : Lose(c) \/ EndSession(c)
    \/ \E r \in requests : Handle(r)
    \/ \E r \in responses : ReceiveResponse(r)

\* The event loop runs what is ready to run, River's threads handle what they
\* read, and an attempt to connect ends.
HandleFor(t) == \E r \in requests : r.caller = t /\ Handle(r)
ReceiveFor(t) == \E r \in responses : r.caller = t /\ ReceiveResponse(r)
Fairness ==
    \A t \in Callers : /\ WF_vars(Connect(t))
                       /\ WF_vars(SendRequest(t))
                       /\ WF_vars(HandleFor(t))
                       /\ WF_vars(ReceiveFor(t))

Spec == Init /\ [][Next]_vars
FairSpec == Spec /\ Fairness

-----------------------------------------------------------------------------
\* The type of the state.
TypeOK ==
    /\ socket \in [Connections -> SocketStates]
    /\ river \in Connections \cup {Nobody}
    /\ nextId \in [Connections -> Nat]
    /\ waiting \subseteq Executor
    /\ listeners = [e \in DOMAIN listeners |-> listeners[e]]
    /\ DOMAIN listeners \subseteq Events
    /\ \A e \in DOMAIN listeners : listeners[e] \in Seq(Callers)
    /\ call \in [Callers -> Call]
    /\ requests \subseteq Request
    /\ responses \subseteq Response
    /\ subscribed \subseteq Connections \X Topics
    /\ calls \in Nat

\* A response finds the call it answers and only that one: whatever is on its
\* way on a connection is awaited by its caller under its number, no number is
\* awaited twice, and the caller has not turned to something else
\* (bundleRequest, sendRequestAsync, handleResponse in outerspace-client.ts).
AnswersReachTheirCall ==
    /\ \A m \in requests \cup responses :
          \E w \in waiting : w.conn = m.conn /\ w.id = m.id /\ w.caller = m.caller
    /\ \A v, w \in waiting : v.conn = w.conn /\ v.id = w.id => v = w
    /\ \A w \in waiting : call[w.caller].pc = "waiting"
                            /\ call[w.caller].conn = w.conn

\* An event that has listeners, or an entry that will make the next
\* subscription of it a local one, has a session of this client at River that
\* gets its messages, unless a call on the event is under way or a connection
\* broke (subscribeMessageAsync, unsubscribeMessageAsync, closeConnections in
\* worker.ts; subscribe, unsubscribe in subscription.h).
ListenersAreSubscribed ==
    (\A c \in Connections : socket[c] # "lost") =>
       \A e \in DOMAIN listeners :
          Busy(e) \/ \E c \in Sessions(e) : socket[c] = "open"

\* A call returns or throws as long as its connection is there
\* (getRiverClientAsync, sendRequestAsync).
CallsSettle ==
    \A t \in Callers :
       call[t].pc # "idle" ~>
          \/ call[t].pc = "idle"
          \/ socket[call[t].conn] \in {"closing", "closed", "lost"}

=============================================================================
