----------------------- MODULE ClientConnectionProofs -----------------------
(***************************************************************************)
(* Proofs about ClientConnection, for any events, callers and connections  *)
(* and any number of calls.                                                *)
(***************************************************************************)
EXTENDS ClientConnection, TLAPS, FiniteSetTheorems, SequenceTheorems,
        WellFoundedInduction

(* The inductive invariant.                                                *)

\* The callers that have not sent their request yet.
Unsent == {t \in Callers : call[t].pc \in {"connecting", "ready"}}

\* No connection ever runs out of numbers: each call sends one request.
NumbersSuffice ==
    /\ calls <= MaxCalls
    /\ IsFiniteSet(Unsent)
    /\ \A c \in Connections :
          nextId[c] > 0 /\ nextId[c] + Cardinality(Unsent) <= calls + 1

\* What waits was numbered before, and every waiting caller waits once.
WaitInv ==
    /\ \A w \in waiting :
          /\ w.id < nextId[w.conn]
          /\ call[w.caller].pc = "waiting" /\ call[w.caller].conn = w.conn
    /\ \A v, w \in waiting : v.conn = w.conn /\ v.id = w.id => v = w
    /\ \A v, w \in waiting : v.caller = w.caller => v = w

\* Every request and every response is awaited; a caller has one of them.
MessageInv ==
    /\ \A m \in requests \cup responses :
          [conn |-> m.conn, id |-> m.id, caller |-> m.caller] \in waiting
    /\ \A m, n \in requests : m.caller = n.caller => m = n
    /\ \A m, n \in responses : m.caller = n.caller => m = n
    /\ \A m \in requests, n \in responses : m.caller # n.caller

\* A call under way has a connection and the topic its operation is about.
CallInv ==
    /\ \A t \in Callers : call[t].pc # "idle" =>
          /\ call[t].conn \in Connections
          /\ call[t].op \in {"subscribe", "unsubscribe"} => call[t].topic \in Events
          /\ call[t].op \in {"watch", "unwatch"} => call[t].topic \in Data
    /\ \A m \in requests : m.op = call[m.caller].op /\ m.topic = call[m.caller].topic

OneCallPerEvent ==
    \A s, t \in Callers :
       /\ call[s].pc # "idle" /\ call[t].pc # "idle"
       /\ call[s].topic = call[t].topic /\ call[t].topic \in Events
       => s = t

\* A subscription that was confirmed is there until the call returns.
ConfirmedInv ==
    \A r \in responses :
       r.ok /\ call[r.caller].op = "subscribe" =>
          <<r.conn, call[r.caller].topic>> \in subscribed

Served(e) == \E c \in Sessions(e) : socket[c] = "open"

\* The caller of a response is about to clear the listeners of an event.
Clearing(e) ==
    \E r \in responses :
       /\ r.ok /\ socket[r.conn] = "open"
       /\ call[r.caller].op = "unsubscribe" /\ call[r.caller].topic = e

NoneLost == \A c \in Connections : socket[c] # "lost"

ListenInv == NoneLost => \A e \in DOMAIN listeners : Served(e) \/ Clearing(e)

\* What holds however the program orders its calls.
IInv == TypeOK /\ NumbersSuffice /\ WaitInv /\ MessageInv /\ CallInv

\* What holds when it awaits its calls on one event.
XInv == OneCallPerEvent /\ ConfirmedInv /\ ListenInv

-----------------------------------------------------------------------------
\* Removing a listener leaves a sequence of listeners.
LEMMA RemoveFirstType ==
  ASSUME NEW S, NEW s \in Seq(S), NEW x
  PROVE  RemoveFirst(s, x) \in Seq(S)
<1> DEFINE I == {i \in 1 .. Len(s) : s[i] = x}
<1>1. CASE I = {}
  BY <1>1 DEF RemoveFirst
<1>2. CASE I # {}
  <2>1. PICK m \in I : \A i \in I : m <= i
    <3>1. I \subseteq Nat
      BY LenProperties
    <3> HIDE DEF I
    <3>2. PICK m \in I : \A i \in I : ~ (<<i, m>> \in OpToRel(<, Nat))
      BY <1>2, <3>1, NatLessThanWellFounded, WFMin
    <3>3. \A i \in I : ~ (i < m)
      BY <3>1, <3>2 DEF OpToRel
    <3> QED
      BY <3>1, <3>3
  <2>2. Min(I) \in I
    BY <2>1 DEF Min
  <2>3. SelectInSeq(s, LAMBDA v : v = x) = Min(I)
    BY <1>2 DEF SelectInSeq
  <2>4. RemoveFirst(s, x) = SubSeq(s, 1, Min(I) - 1) \o SubSeq(s, Min(I) + 1, Len(s))
    BY <1>2, <2>3 DEF RemoveFirst, RemoveAt
  <2>5. Min(I) \in 1 .. Len(s) /\ Len(s) \in Nat
    BY <2>2, LenProperties
  <2> HIDE DEF I
  <2>6. \A i \in Int, j \in Int : 1 <= i /\ j <= Len(s) => SubSeq(s, i, j) \in Seq(S)
    BY <2>5, SubSeqProperties
  <2>7. SubSeq(s, 1, Min(I) - 1) \in Seq(S) /\ SubSeq(s, Min(I) + 1, Len(s)) \in Seq(S)
    BY <2>5, <2>6
  <2> QED
    BY <2>4, <2>7, ConcatProperties
<1> QED
  BY <1>1, <1>2

-----------------------------------------------------------------------------
(* The steps.  A call that starts adds one to calls and to the calls that  *)
(* have not sent; one that sends takes a number and is no longer of them.  *)

LEMMA InitIInv == Init => IInv /\ XInv
<1> SUFFICES ASSUME Init PROVE IInv /\ XInv
  OBVIOUS
<1> USE ConstantsAssumption DEF Init
<1>1. TypeOK
  BY DEF TypeOK, Idle, Call, Pcs, Requests, Subscriptions, SocketStates
<1>2. NumbersSuffice
  <2>1. Unsent = {}
    BY DEF Unsent, Idle
  <2> QED
    BY <2>1, FS_EmptySet DEF NumbersSuffice
<1>3. WaitInv /\ MessageInv /\ CallInv
  BY DEF WaitInv, MessageInv, CallInv, Idle
<1>4. XInv
  BY DEF XInv, OneCallPerEvent, ConfirmedInv, ListenInv, Idle
<1> QED
  BY <1>1, <1>2, <1>3, <1>4 DEF IInv

\* The calls that have not sent are as many as before, one less or one more.
LEMMA UnsentAdd ==
  ASSUME NumbersSuffice, NEW t \in Callers, Unsent' = Unsent \cup {t}, t \notin Unsent,
         calls' = calls + 1, calls \in Nat, calls < MaxCalls, UNCHANGED nextId,
         nextId \in [Connections -> Nat]
  PROVE  NumbersSuffice'
<1>1. IsFiniteSet(Unsent) /\ Cardinality(Unsent) \in Nat
  BY FS_CardinalityType DEF NumbersSuffice
<1>2. IsFiniteSet(Unsent') /\ Cardinality(Unsent') = Cardinality(Unsent) + 1
  BY <1>1, FS_AddElement
<1> QED
  BY <1>1, <1>2, ConstantsAssumption DEF NumbersSuffice

LEMMA UnsentRemove ==
  ASSUME NumbersSuffice, NEW t \in Callers, Unsent' = Unsent \ {t}, t \in Unsent,
         UNCHANGED calls, calls \in Nat, nextId \in [Connections -> Nat],
         nextId' \in [Connections -> Nat],
         \A c \in Connections : nextId'[c] \in {nextId[c], nextId[c] + 1}
  PROVE  NumbersSuffice'
<1>1. IsFiniteSet(Unsent) /\ Cardinality(Unsent) \in Nat
  BY FS_CardinalityType DEF NumbersSuffice
<1>2. IsFiniteSet(Unsent') /\ Cardinality(Unsent') = Cardinality(Unsent) - 1
  BY <1>1, FS_RemoveElement
<1> QED
  BY <1>1, <1>2 DEF NumbersSuffice

\* The number of a request fits its header.
LEMMA HeaderHoldsId ==
  ASSUME TypeOK, NumbersSuffice, NEW t \in Callers, t \in Unsent, NEW c \in Connections
  PROVE  nextId[c] % HeaderRange = nextId[c]
<1>1. IsFiniteSet(Unsent) /\ Cardinality(Unsent) \in Nat
  BY FS_CardinalityType DEF NumbersSuffice
<1>2. Cardinality(Unsent) # 0
  BY <1>1, FS_EmptySet
<1>3. nextId[c] \in Nat /\ nextId[c] <= MaxCalls
  BY <1>1, <1>2, ConstantsAssumption DEF NumbersSuffice, TypeOK
<1>4. \A i \in Nat, n \in Nat : i < n => i % n = i
  OBVIOUS
<1> QED
  BY <1>3, <1>4, ConstantsAssumption

\* A call starts: Subscribe, unless it only adds a listener, and StartRequest.
LEMMA StartsIInv ==
  ASSUME IInv, NEW t \in Callers, NEW op \in Requests, NEW topic \in Topics \cup {Nobody},
         op \in {"subscribe", "unsubscribe"} => topic \in Events,
         op \in {"watch", "unwatch"} => topic \in Data,
         MayStart(t, op, topic), calls' = calls + 1, GetRiverClient(t, op, topic),
         UNCHANGED <<river, nextId, waiting, listeners, requests, responses, subscribed>>
  PROVE  IInv'
<1> USE DEF IInv
<1>1. PICK c \in Connections, pc \in {"ready", "connecting"} :
        /\ call' = [call EXCEPT ![t] = [pc |-> pc, op |-> op, topic |-> topic, conn |-> c]]
        /\ socket' \in [Connections -> SocketStates]
  BY DEF GetRiverClient, TypeOK, Unused, SocketStates
<1>2. TypeOK'
  BY <1>1 DEF TypeOK, Call, Pcs
<1>3. NumbersSuffice'
  <2>1. Unsent' = Unsent \cup {t} /\ t \notin Unsent
    BY <1>1 DEF Unsent, MayStart, TypeOK
  <2> QED
    BY <2>1, UnsentAdd DEF MayStart, TypeOK
<1>4. \A w \in waiting : w.caller # t
  BY DEF WaitInv, MayStart
<1>5. WaitInv'
  BY <1>1, <1>4 DEF WaitInv, TypeOK, Executor
<1>6. \A m \in requests \cup responses : m.caller # t
  BY <1>4 DEF MessageInv
<1>7. MessageInv' /\ CallInv'
  BY <1>1, <1>6 DEF MessageInv, CallInv, TypeOK, Request
<1> QED
  BY <1>2, <1>3, <1>5, <1>7

LEMMA OpenedIInv ==
  ASSUME IInv, NEW t \in Callers, Opened(t)
  PROVE  IInv'
<1> USE DEF IInv, Opened
<1>1. call[t].conn \in Connections
  BY DEF CallInv
<1>2. TypeOK'
  BY <1>1 DEF TypeOK, Call, Pcs, SocketStates, SetRiverClient
<1>3. Unsent' = Unsent
  BY DEF Unsent, TypeOK
<1>4. NumbersSuffice'
  BY <1>3 DEF NumbersSuffice
<1>5. \A s \in Callers : /\ call'[s].conn = call[s].conn /\ call'[s].op = call[s].op
                         /\ call'[s].topic = call[s].topic
                         /\ call[s].pc = "waiting" => call'[s].pc = "waiting"
                         /\ call'[s].pc # "idle" => call[s].pc # "idle"
  BY DEF TypeOK, Call
<1>6. WaitInv'
  BY <1>5 DEF WaitInv, TypeOK, Executor
<1>7. MessageInv' /\ CallInv'
  BY <1>5 DEF MessageInv, CallInv, TypeOK, Request
<1> QED
  BY <1>2, <1>4, <1>6, <1>7

\* A call that has not sent its request ends: OpenFailed, or a connection that
\* is not open any more.
LEMMA EndsIInv ==
  ASSUME IInv, NEW t \in Callers, t \in Unsent, call' = [call EXCEPT ![t] = Idle],
         nextId' \in [Connections -> Nat],
         \A c \in Connections : nextId'[c] \in {nextId[c], nextId[c] + 1},
         socket' \in [Connections -> SocketStates],
         UNCHANGED <<river, waiting, listeners, requests, responses, subscribed, calls>>
  PROVE  IInv'
<1> USE DEF IInv
<1>1. TypeOK'
  BY DEF TypeOK, Idle, Call, Pcs, Requests, Subscriptions
<1>2. Unsent' = Unsent \ {t}
  BY DEF Unsent, TypeOK, Idle
<1>3. NumbersSuffice'
  BY <1>2, UnsentRemove DEF TypeOK
<1>4. \A w \in waiting : w.caller # t
  BY DEF WaitInv, Unsent
<1>5. WaitInv'
  BY <1>4 DEF WaitInv, TypeOK, Executor
<1>6. \A m \in requests \cup responses : m.caller # t
  BY <1>4 DEF MessageInv
<1>7. MessageInv' /\ CallInv'
  BY <1>6 DEF MessageInv, CallInv, TypeOK, Request, Idle
<1> QED
  BY <1>1, <1>3, <1>5, <1>7

LEMMA OpenFailedIInv ==
  ASSUME IInv, NEW t \in Callers, OpenFailed(t)
  PROVE  IInv'
<1>1. t \in Unsent
  BY DEF OpenFailed, Unsent
<1>2. /\ socket' \in [Connections -> SocketStates]
      /\ nextId' \in [Connections -> Nat]
      /\ \A c \in Connections : nextId'[c] \in {nextId[c], nextId[c] + 1}
  BY DEF OpenFailed, IInv, TypeOK, SocketStates
<1> QED
  BY <1>1, <1>2, EndsIInv DEF OpenFailed

LEMMA SendRequestIInv ==
  ASSUME IInv, NEW t \in Callers, SendRequest(t)
  PROVE  IInv'
<1> DEFINE c == call[t].conn
           id == nextId[c]
           w == [conn |-> c, id |-> id, caller |-> t]
           m == [conn |-> c, id |-> id % HeaderRange, caller |-> t,
                 op |-> call[t].op, topic |-> call[t].topic]
<1> USE DEF IInv
<1>1. c \in Connections /\ t \in Unsent /\ id \in Nat
  BY DEF SendRequest, CallInv, TypeOK, Unsent
<1>2. /\ nextId' \in [Connections -> Nat]
      /\ nextId' = [nextId EXCEPT ![c] = id + 1]
      /\ \A d \in Connections : nextId'[d] \in {nextId[d], nextId[d] + 1}
  BY <1>1 DEF SendRequest, BundleRequest, TypeOK
<1>3. CASE socket[c] # "open"
  BY <1>1, <1>2, <1>3, EndsIInv DEF SendRequest, TypeOK
<1>4. CASE socket[c] = "open"
  <2>1. id % HeaderRange = id
    BY <1>1, HeaderHoldsId
  <2>2. /\ waiting' = {v \in waiting : v.conn # c \/ v.id # id} \cup {w}
        /\ requests' = requests \cup {m}
        /\ call' = [call EXCEPT ![t].pc = "waiting"]
        /\ UNCHANGED <<socket, river, listeners, responses, subscribed, calls>>
    BY <1>4 DEF SendRequest, SetWaiting
  <2>3. w \in Executor /\ m \in Request
    BY <1>1, <2>1 DEF Executor, Request, TypeOK, Call
  <2>4. \A v \in waiting : ~ (v.conn = c /\ v.id = id)
    BY <1>1 DEF WaitInv, TypeOK, Executor
  <2>5. waiting' = waiting \cup {w}
    BY <2>2, <2>4
  <2>6. /\ w.conn = c /\ w.id = id /\ w.caller = t
        /\ m.conn = c /\ m.id = id /\ m.caller = t
        /\ m.op = call[t].op /\ m.topic = call[t].topic
    BY <2>1
  <2> HIDE DEF w, m, id, c
  <2>7. TypeOK'
    BY <1>2, <2>2, <2>3, <2>5 DEF TypeOK, Call, Pcs
  <2>8. Unsent' = Unsent \ {t}
    BY <2>2 DEF Unsent, TypeOK
  <2>9. NumbersSuffice'
    BY <1>1, <1>2, <2>2, <2>8, UnsentRemove DEF TypeOK
  <2>10. \A v \in waiting : v.caller # t
    BY <1>1 DEF WaitInv, Unsent
  <2>11. \A s \in Callers : /\ call'[s].conn = call[s].conn /\ call'[s].op = call[s].op
                            /\ call'[s].topic = call[s].topic
                            /\ s # t => call'[s] = call[s]
                            /\ call'[t].pc = "waiting"
    BY <2>2 DEF TypeOK, Call
  <2>12. call[t].conn = c
    BY DEF c
  <2>13. WaitInv'
    <3>1. \A v \in waiting' : /\ v.id < nextId'[v.conn]
                              /\ call'[v.caller].pc = "waiting" /\ call'[v.caller].conn = v.conn
      <4> TAKE v \in waiting'
      <4>1. CASE v = w
        BY <4>1, <1>1, <1>2, <2>6, <2>11, <2>12 DEF TypeOK
      <4>2. CASE v \in waiting
        <5>1. v \in Executor /\ v.caller # t /\ v.id < nextId[v.conn]
          BY <4>2, <2>10 DEF TypeOK, WaitInv
        <5>2. v.id < nextId'[v.conn]
          BY <1>1, <1>2, <5>1 DEF Executor, TypeOK
        <5> QED
          BY <4>2, <5>1, <5>2, <2>11 DEF WaitInv, Executor
      <4> QED
        BY <2>5, <4>1, <4>2
    <3>2. \A u, v \in waiting' : u.conn = v.conn /\ u.id = v.id => u = v
      BY <2>4, <2>5, <2>6 DEF WaitInv
    <3>3. \A u, v \in waiting' : u.caller = v.caller => u = v
      BY <2>5, <2>6, <2>10 DEF WaitInv
    <3> QED
      BY <3>1, <3>2, <3>3 DEF WaitInv
  <2>14. \A n \in requests \cup responses : n.caller # t
    BY <2>10 DEF MessageInv
  <2>15. MessageInv'
    <3>1. [conn |-> m.conn, id |-> m.id, caller |-> m.caller] = w
      BY <2>6 DEF w
    <3>2. \A n \in requests' \cup responses' :
            [conn |-> n.conn, id |-> n.id, caller |-> n.caller] \in waiting'
      BY <2>2, <2>5, <3>1 DEF MessageInv
    <3> QED
      BY <2>2, <2>6, <2>14, <3>2 DEF MessageInv
  <2>16. CallInv'
    BY <1>1, <2>2, <2>6, <2>11, <2>12, <2>14 DEF CallInv, TypeOK, Request, Unsent
  <2> QED
    BY <2>7, <2>9, <2>13, <2>15, <2>16
<1> QED
  BY <1>3, <1>4

LEMMA ReceiveResponseIInv ==
  ASSUME IInv, NEW r \in responses, ReceiveResponse(r)
  PROVE  IInv'
<1> DEFINE w == [conn |-> r.conn, id |-> r.id, caller |-> r.caller]
           t == r.caller
<1> USE DEF IInv
<1>1. w \in waiting /\ w.conn = r.conn /\ w.id = r.id /\ w.caller = r.caller
  BY DEF MessageInv
<1>2. r \in Response /\ t \in Callers
  BY DEF TypeOK, Response
<1> HIDE DEF w
<1>3. \A v \in waiting : v.conn = r.conn /\ v.id = r.id => v = w
  BY <1>1 DEF WaitInv
<1>4. /\ waiting' = waiting \ {w}
      /\ responses' = responses \ {r}
      /\ Finish(t, r.ok)
      /\ UNCHANGED <<socket, river, nextId, requests, subscribed, calls>>
  BY <1>1, <1>3 DEF ReceiveResponse
<1>5. call' = [call EXCEPT ![t] = Idle]
  BY <1>4 DEF Finish
<1>6. call[t].pc = "waiting" /\ t \notin Unsent
  BY <1>1, <1>2 DEF WaitInv, Unsent
<1>7. /\ listeners' = [e \in DOMAIN listeners' |-> listeners'[e]]
      /\ DOMAIN listeners' \subseteq Events
      /\ \A e \in DOMAIN listeners' : listeners'[e] \in Seq(Callers)
  <2>1. CASE r.ok /\ call[t].op = "subscribe"
    <3>1. call[t].topic \in Events
      BY <1>2, <1>6, <2>1 DEF CallInv
    <3>2. AddListener(t, call[t].topic)
      BY <1>4, <2>1 DEF Finish
    <3>3. <<t>> \in Seq(Callers) /\ \A q \in Seq(Callers) : Append(q, t) \in Seq(Callers)
      BY <1>2, AppendProperties
    <3> QED
      BY <3>1, <3>2, <3>3 DEF AddListener, TypeOK
  <2>2. CASE ~ (r.ok /\ call[t].op = "subscribe") /\ r.ok /\ call[t].op = "unsubscribe"
    BY <1>4, <2>2 DEF Finish, ClearListeners, TypeOK
  <2>3. CASE ~ (r.ok /\ call[t].op = "subscribe") /\ ~ (r.ok /\ call[t].op = "unsubscribe")
    BY <1>4, <2>3 DEF Finish, TypeOK
  <2> QED
    BY <2>1, <2>2, <2>3
<1>8. TypeOK'
  BY <1>2, <1>4, <1>5, <1>7 DEF TypeOK, Idle, Call, Pcs, Requests, Subscriptions
<1>9. Unsent' = Unsent
  BY <1>5, <1>6 DEF Unsent, TypeOK, Idle
<1>10. NumbersSuffice'
  BY <1>4, <1>9 DEF NumbersSuffice
<1>11. \A v \in waiting' : v.caller # t
  BY <1>1, <1>4 DEF WaitInv
<1>12. WaitInv'
  BY <1>4, <1>5, <1>11 DEF WaitInv, TypeOK, Executor
<1>13. \A m \in requests' \cup responses' : m.caller # t
  BY <1>4 DEF MessageInv
<1>14. MessageInv'
  <2>1. \A m \in requests' \cup responses' :
          [conn |-> m.conn, id |-> m.id, caller |-> m.caller] \in waiting'
    <3> TAKE m \in requests' \cup responses'
    <3> DEFINE v == [conn |-> m.conn, id |-> m.id, caller |-> m.caller]
    <3>1. v \in waiting /\ v.caller = m.caller
      BY <1>4 DEF MessageInv
    <3>2. v # w
      BY <1>1, <1>13, <3>1
    <3> HIDE DEF v
    <3>3. v \in waiting'
      BY <1>4, <3>1, <3>2
    <3> QED
      BY <3>3 DEF v
  <2> QED
    BY <1>4, <2>1 DEF MessageInv
<1>15. CallInv'
  BY <1>4, <1>5, <1>13 DEF CallInv, TypeOK, Request, Idle
<1> QED
  BY <1>8, <1>10, <1>12, <1>14, <1>15

LEMMA HandleIInv ==
  ASSUME IInv, NEW r \in requests, Handle(r)
  PROVE  IInv'
<1> USE DEF IInv
<1>1. PICK ok \in BOOLEAN :
        /\ requests' = requests \ {r}
        /\ responses' = responses \cup
              {[conn |-> r.conn, id |-> r.id, caller |-> r.caller, ok |-> ok]}
        /\ subscribed' = IF ok /\ r.op \in {"subscribe", "watch"}
                         THEN subscribed \cup {<<r.conn, r.topic>>}
                         ELSE IF ok /\ r.op \in {"unsubscribe", "unwatch"}
                         THEN subscribed \ {<<r.conn, r.topic>>}
                         ELSE subscribed
        /\ UNCHANGED <<socket, river, nextId, waiting, listeners, call, calls>>
  BY DEF Handle
<1> DEFINE q == [conn |-> r.conn, id |-> r.id, caller |-> r.caller, ok |-> ok]
<1>2. r \in Request /\ q \in Response
  BY DEF TypeOK, Request, Response
<1>3. /\ q.conn = r.conn /\ q.id = r.id /\ q.caller = r.caller
      /\ responses' = responses \cup {q}
  BY <1>1
<1> HIDE DEF q
<1>4. [conn |-> r.conn, id |-> r.id, caller |-> r.caller] \in waiting
  BY DEF MessageInv
<1>5. call[r.caller].pc = "waiting" /\ r.caller \in Callers
  BY <1>2, <1>4 DEF WaitInv, Request
<1>6. ok /\ r.op \in {"subscribe", "watch"} => <<r.conn, r.topic>> \in Connections \X Topics
  BY <1>2, <1>5 DEF CallInv, Topics, Request
<1>7. TypeOK'
  BY <1>1, <1>2, <1>3, <1>6 DEF TypeOK
<1>8. NumbersSuffice' /\ WaitInv'
  BY <1>1 DEF NumbersSuffice, Unsent, WaitInv
<1>9. MessageInv'
  <2>1. \A m \in requests' \cup responses' :
          [conn |-> m.conn, id |-> m.id, caller |-> m.caller] \in waiting'
    BY <1>1, <1>3, <1>4 DEF MessageInv
  <2> QED
    BY <1>1, <1>3, <2>1 DEF MessageInv
<1>10. CallInv'
  BY <1>1 DEF CallInv
<1> QED
  BY <1>7, <1>8, <1>9, <1>10

\* The other steps: they neither make calls nor answer them.
LEMMA OthersIInv ==
  ASSUME IInv, UNCHANGED <<nextId, waiting, call, calls>>,
         requests' \subseteq requests, responses' \subseteq responses,
         subscribed' \subseteq subscribed, socket' \in [Connections -> SocketStates],
         river' \in Connections \cup {Nobody},
         listeners' = [e \in DOMAIN listeners' |-> listeners'[e]],
         DOMAIN listeners' \subseteq Events,
         \A e \in DOMAIN listeners' : listeners'[e] \in Seq(Callers)
  PROVE  IInv'
<1> USE DEF IInv
<1>1. TypeOK'
  BY DEF TypeOK
<1>2. NumbersSuffice' /\ WaitInv'
  BY DEF NumbersSuffice, Unsent, WaitInv
<1>3. MessageInv' /\ CallInv'
  BY DEF MessageInv, CallInv
<1> QED
  BY <1>1, <1>2, <1>3

\* A listener of an event that is taken to be subscribed to.
LEMMA OnlyListensIInv ==
  ASSUME IInv, NEW t \in Callers, NEW e \in Events, calls < MaxCalls, call[t].pc = "idle",
         calls' = calls + 1, AddListener(t, e),
         UNCHANGED <<socket, river, nextId, waiting, call, requests, responses, subscribed>>
  PROVE  IInv'
<1> USE DEF IInv
<1>1. <<t>> \in Seq(Callers) /\ \A q \in Seq(Callers) : Append(q, t) \in Seq(Callers)
  BY AppendProperties
<1>2. TypeOK'
  BY <1>1 DEF TypeOK, AddListener
<1>3. NumbersSuffice'
  <2>1. IsFiniteSet(Unsent) /\ Cardinality(Unsent) \in Nat /\ Unsent' = Unsent
    BY FS_CardinalityType DEF NumbersSuffice, Unsent
  <2> QED
    BY <2>1, ConstantsAssumption DEF NumbersSuffice, TypeOK
<1>4. WaitInv' /\ MessageInv' /\ CallInv'
  BY DEF WaitInv, MessageInv, CallInv
<1> QED
  BY <1>2, <1>3, <1>4

\* Every step preserves what holds however the program orders its calls.
LEMMA StepIInv ==
  ASSUME IInv, [Next]_vars
  PROVE  IInv'
<1>1. ASSUME NEW t \in Callers, NEW e \in Events, Subscribe(t, e)
      PROVE  IInv'
  <2>1. CASE e \in DOMAIN listeners /\ AddListener(t, e) /\ UNCHANGED <<socket, call>>
    BY <1>1, <2>1, OnlyListensIInv DEF Subscribe, MayStart
  <2>2. CASE GetRiverClient(t, "subscribe", e) /\ UNCHANGED listeners
    BY <1>1, <2>2, StartsIInv DEF Subscribe, Topics, Requests, Subscriptions
  <2> QED
    BY <1>1, <2>1, <2>2 DEF Subscribe
<1>2. ASSUME NEW t \in Callers, NEW e \in Events, Unsubscribe(t, e)
      PROVE  IInv'
  BY <1>2, StartsIInv DEF Unsubscribe, StartRequest, Topics, Requests, Subscriptions
<1>3. ASSUME NEW t \in Callers, NEW k \in Data, SubscribeUpdates(t, k) \/ UnsubscribeUpdates(t, k)
      PROVE  IInv'
  BY <1>3, StartsIInv DEF SubscribeUpdates, UnsubscribeUpdates, StartRequest, Topics, Requests,
                          Subscriptions
<1>4. ASSUME NEW t \in Callers, OtherRequest(t)
      PROVE  IInv'
  BY <1>4, StartsIInv DEF OtherRequest, StartRequest, Requests
<1>5. ASSUME NEW t \in Callers, NEW e \in Events, RemoveListener(t, e)
      PROVE  IInv'
  <2>1. /\ listeners' = [e2 \in DOMAIN listeners' |-> listeners'[e2]]
        /\ DOMAIN listeners' = DOMAIN listeners
        /\ \A e2 \in DOMAIN listeners' : listeners'[e2] \in Seq(Callers)
    <3>1. RemoveFirst(listeners[e], t) \in Seq(Callers)
      BY <1>5, RemoveFirstType DEF RemoveListener, IInv, TypeOK
    <3> QED
      BY <1>5, <3>1 DEF RemoveListener, IInv, TypeOK
  <2> QED
    BY <1>5, <2>1, OthersIInv DEF RemoveListener, IInv, TypeOK
<1>6. ASSUME CloseConnections
      PROVE  IInv'
  <2>1. socket' \in [Connections -> SocketStates] /\ river' = Nobody
    BY <1>6 DEF CloseConnections, ClearRiverClients, IInv, TypeOK, SocketStates
  <2> QED
    BY <1>6, <2>1, OthersIInv DEF CloseConnections
<1>7. ASSUME NEW c \in Connections, Lose(c)
      PROVE  IInv'
  BY <1>7, OthersIInv DEF Lose, IInv, TypeOK, SocketStates
<1>8. ASSUME NEW c \in Connections, EndSession(c)
      PROVE  IInv'
  <2>1. socket' \in [Connections -> SocketStates]
    BY <1>8 DEF EndSession, IInv, TypeOK, SocketStates
  <2> QED
    BY <1>8, <2>1, OthersIInv DEF EndSession, IInv, TypeOK
<1>9. CASE UNCHANGED vars
  BY <1>9, OthersIInv DEF vars, IInv, TypeOK
<1> QED
  BY <1>1, <1>2, <1>3, <1>4, <1>5, <1>6, <1>7, <1>8, <1>9, OpenedIInv, OpenFailedIInv,
     SendRequestIInv, ReceiveResponseIInv, HandleIInv DEF Next, CallerNext

-----------------------------------------------------------------------------
(* What holds when the program awaits its calls on one event.              *)

\* Whoever a response is for waits for it.
LEMMA AnsweredWait ==
  ASSUME IInv, NEW r \in responses
  PROVE  r.caller \in Callers /\ call[r.caller].pc = "waiting" /\ r.conn \in Connections
<1>1. [conn |-> r.conn, id |-> r.id, caller |-> r.caller] \in waiting
  BY DEF IInv, MessageInv
<1> QED
  BY <1>1 DEF IInv, WaitInv, TypeOK, Response

\* Steps that leave River alone: no call turns to another topic unless it
\* starts, and no listener, connection or answer goes.
LEMMA QuietXInv ==
  ASSUME IInv, XInv,
         OneCallPerEvent',
         UNCHANGED <<listeners, responses, subscribed>>,
         \A r \in responses : call'[r.caller].op = call[r.caller].op
                            /\ call'[r.caller].topic = call[r.caller].topic,
         \A c \in Connections : /\ socket[c] = "open" => socket'[c] = "open"
                                /\ socket[c] = "lost" => socket'[c] = "lost"
  PROVE  XInv'
<1>1. ConfirmedInv'
  BY DEF XInv, ConfirmedInv
<1>2. NoneLost' => NoneLost
  BY DEF NoneLost
<1>3. ASSUME NEW e, Served(e) PROVE Served(e)'
  <2>1. PICK c \in Sessions(e) : socket[c] = "open"
    BY <1>3 DEF Served
  <2>2. c \in Connections /\ <<c, e>> \in subscribed' /\ socket'[c] = "open"
    BY <2>1 DEF Sessions
  <2> QED
    BY <2>2 DEF Served, Sessions
<1>4. ASSUME NEW e, Clearing(e) PROVE Clearing(e)'
  <2>1. PICK r \in responses : /\ r.ok /\ socket[r.conn] = "open"
                               /\ call[r.caller].op = "unsubscribe" /\ call[r.caller].topic = e
    BY <1>4 DEF Clearing
  <2>2. r \in responses' /\ socket'[r.conn] = "open"
    BY <2>1, AnsweredWait
  <2> QED
    BY <2>1, <2>2 DEF Clearing
<1>5. ListenInv'
  BY <1>2, <1>3, <1>4 DEF XInv, ListenInv
<1> QED
  BY <1>1, <1>5 DEF XInv

LEMMA StartsXInv ==
  ASSUME Exclusive, IInv, XInv, NEW t \in Callers, NEW op \in Requests,
         NEW topic \in Topics \cup {Nobody},
         MayStart(t, op, topic), GetRiverClient(t, op, topic),
         UNCHANGED <<listeners, responses, subscribed>>
  PROVE  XInv'
<1>1. PICK c \in Connections, pc \in {"ready", "connecting"} :
        call' = [call EXCEPT ![t] = [pc |-> pc, op |-> op, topic |-> topic, conn |-> c]]
  BY DEF GetRiverClient, IInv, TypeOK, Unused
<1>2. OneCallPerEvent'
  BY <1>1 DEF XInv, OneCallPerEvent, MayStart, Busy, IInv, TypeOK
<1>3. \A c2 \in Connections : /\ socket[c2] = "open" => socket'[c2] = "open"
                              /\ socket[c2] = "lost" => socket'[c2] = "lost"
  BY DEF GetRiverClient, Unused, IInv, TypeOK
<1>4. \A r \in responses : r.caller # t
  BY AnsweredWait DEF MayStart
<1>5. \A r \in responses : call'[r.caller] = call[r.caller]
  BY <1>1, <1>4, AnsweredWait DEF IInv, TypeOK
<1> QED
  BY <1>2, <1>3, <1>5, QuietXInv

LEMMA OpenedXInv ==
  ASSUME IInv, XInv, NEW t \in Callers, Opened(t)
  PROVE  XInv'
<1>1. \A s \in Callers : /\ call'[s].op = call[s].op /\ call'[s].topic = call[s].topic
                         /\ call'[s].pc # "idle" => call[s].pc # "idle"
  BY DEF Opened, IInv, TypeOK, Call
<1>2. OneCallPerEvent'
  BY <1>1 DEF XInv, OneCallPerEvent
<1>3. \A c \in Connections : /\ socket[c] = "open" => socket'[c] = "open"
                             /\ socket[c] = "lost" => socket'[c] = "lost"
  BY DEF Opened, IInv, TypeOK
<1> QED
  BY <1>1, <1>2, <1>3, AnsweredWait, QuietXInv DEF Opened

\* OpenFailed, and SendRequest in both cases.
LEMMA SendsOrEndsXInv ==
  ASSUME IInv, XInv, NEW t \in Callers, OpenFailed(t) \/ SendRequest(t)
  PROVE  XInv'
<1>1. call' = [call EXCEPT ![t] = Idle] \/ call' = [call EXCEPT ![t].pc = "waiting"]
  BY DEF OpenFailed, SendRequest
<1>2. call[t].pc # "waiting" /\ call[t].pc # "idle"
  BY DEF OpenFailed, SendRequest
<1>3. OneCallPerEvent'
  <2>1. \A s \in Callers : call'[s].pc # "idle" => /\ call[s].pc # "idle"
                                                   /\ call'[s].topic = call[s].topic
    <3>1. CASE call' = [call EXCEPT ![t] = Idle]
      BY <3>1 DEF IInv, TypeOK, Idle
    <3>2. CASE call' = [call EXCEPT ![t].pc = "waiting"]
      BY <1>2, <3>2 DEF IInv, TypeOK, Call
    <3> QED
      BY <1>1, <3>1, <3>2
  <2> QED
    BY <2>1 DEF XInv, OneCallPerEvent
<1>4. \A c \in Connections : /\ socket[c] = "open" => socket'[c] = "open"
                             /\ socket[c] = "lost" => socket'[c] = "lost"
  BY DEF OpenFailed, SendRequest, IInv, TypeOK
<1>5. \A r \in responses : call'[r.caller] = call[r.caller]
  BY <1>1, <1>2, AnsweredWait DEF IInv, TypeOK
<1> QED
  BY <1>3, <1>4, <1>5, QuietXInv DEF OpenFailed, SendRequest

LEMMA ReceiveResponseXInv ==
  ASSUME IInv, XInv, NEW r \in responses, ReceiveResponse(r)
  PROVE  XInv'
<1> DEFINE t == r.caller
<1>1. [conn |-> r.conn, id |-> r.id, caller |-> t] \in waiting
  BY DEF IInv, MessageInv
<1>2. /\ Finish(t, r.ok)
      /\ responses' = responses \ {r}
      /\ socket[r.conn] = "open"
      /\ UNCHANGED <<socket, subscribed>>
  BY <1>1 DEF ReceiveResponse, IInv, WaitInv
<1>3. call' = [call EXCEPT ![t] = Idle]
  BY <1>2 DEF Finish
<1>4. t \in Callers /\ r.conn \in Connections /\ call[t].pc = "waiting"
  BY AnsweredWait
<1>5. \A q \in responses' : q.caller \in Callers /\ call'[q.caller] = call[q.caller]
  BY <1>2, <1>3, AnsweredWait DEF IInv, MessageInv, TypeOK
<1>6. OneCallPerEvent'
  BY <1>3 DEF XInv, OneCallPerEvent, IInv, TypeOK, Idle
<1>7. ConfirmedInv'
  BY <1>2, <1>5 DEF XInv, ConfirmedInv
<1>8. ListenInv'
  <2> SUFFICES ASSUME NoneLost, NEW e \in DOMAIN listeners'
               PROVE  Served(e)' \/ Clearing(e)'
    BY <1>2 DEF ListenInv, NoneLost
  <2>1. CASE e \notin DOMAIN listeners
    <3>1. r.ok /\ call[t].op = "subscribe" /\ AddListener(t, call[t].topic)
      BY <1>2, <2>1 DEF Finish, ClearListeners
    <3>2. e = call[t].topic
      BY <2>1, <3>1 DEF AddListener
    <3>3. <<r.conn, e>> \in subscribed
      BY <3>1, <3>2 DEF XInv, ConfirmedInv
    <3> QED
      BY <1>2, <1>4, <3>3 DEF Served, Sessions
  <2>2. CASE Served(e)
    BY <1>2, <2>2 DEF Served, Sessions
  <2>3. CASE Clearing(e)
    <3>1. PICK q \in responses : /\ q.ok /\ socket[q.conn] = "open"
                                 /\ call[q.caller].op = "unsubscribe"
                                 /\ call[q.caller].topic = e
      BY <2>3 DEF Clearing
    <3>2. q # r
      BY <1>2, <3>1 DEF Finish, ClearListeners
    <3> QED
      BY <1>2, <1>5, <3>1, <3>2 DEF Clearing
  <2> QED
    BY <2>1, <2>2, <2>3 DEF XInv, ListenInv
<1> QED
  BY <1>6, <1>7, <1>8 DEF XInv

LEMMA HandleXInv ==
  ASSUME IInv, XInv, NEW r \in requests, Handle(r)
  PROVE  XInv'
<1>1. PICK ok \in BOOLEAN :
        /\ responses' = responses \cup
              {[conn |-> r.conn, id |-> r.id, caller |-> r.caller, ok |-> ok]}
        /\ subscribed' = IF ok /\ r.op \in {"subscribe", "watch"}
                         THEN subscribed \cup {<<r.conn, r.topic>>}
                         ELSE IF ok /\ r.op \in {"unsubscribe", "unwatch"}
                         THEN subscribed \ {<<r.conn, r.topic>>}
                         ELSE subscribed
        /\ UNCHANGED <<socket, listeners, call>>
  BY DEF Handle
<1> DEFINE q == [conn |-> r.conn, id |-> r.id, caller |-> r.caller, ok |-> ok]
<1>2. /\ q.conn = r.conn /\ q.caller = r.caller /\ q.ok = ok
      /\ responses' = responses \cup {q}
  BY <1>1
<1> HIDE DEF q
<1>3. r.op = call[r.caller].op /\ r.topic = call[r.caller].topic
  BY DEF IInv, CallInv
<1>4. r.caller \in Callers /\ call[r.caller].pc = "waiting"
  <2>1. [conn |-> r.conn, id |-> r.id, caller |-> r.caller] \in waiting
    BY DEF IInv, MessageInv
  <2> QED
    BY <2>1 DEF IInv, WaitInv, TypeOK, Request
<1>5. OneCallPerEvent'
  BY <1>1 DEF XInv, OneCallPerEvent
<1>6. r.op \in {"unwatch"} => r.topic \notin Events
  BY <1>3, <1>4, ConstantsAssumption DEF IInv, CallInv
<1>7. ConfirmedInv'
  <2> SUFFICES ASSUME NEW p \in responses', p.ok, call[p.caller].op = "subscribe"
               PROVE  <<p.conn, call[p.caller].topic>> \in subscribed'
    BY <1>1 DEF ConfirmedInv
  <2>1. CASE p = q
    BY <1>1, <1>2, <1>3, <2>1
  <2>2. CASE p \in responses
    <3>1. <<p.conn, call[p.caller].topic>> \in subscribed
      BY <2>2 DEF XInv, ConfirmedInv
    <3>2. p.caller \in Callers /\ call[p.caller].pc = "waiting"
      BY <2>2, AnsweredWait
    <3>3. p.caller # r.caller
      BY <2>2 DEF IInv, MessageInv
    <3>4. call[p.caller].topic \in Events
      BY <3>2 DEF IInv, CallInv
    <3>5. call[p.caller].topic # r.topic
      BY <1>3, <1>4, <3>2, <3>3, <3>4 DEF XInv, OneCallPerEvent
    <3> QED
      BY <1>1, <3>1, <3>5
  <2> QED
    BY <1>2, <2>1, <2>2
<1>8. ListenInv'
  <2> SUFFICES ASSUME NoneLost, NEW e \in DOMAIN listeners
               PROVE  Served(e)' \/ Clearing(e)'
    BY <1>1 DEF ListenInv, NoneLost
  <2>1. CASE Clearing(e)
    BY <1>1, <1>2, <2>1 DEF Clearing
  <2>2. CASE Served(e)
    <3>1. PICK c \in Sessions(e) : socket[c] = "open"
      BY <2>2 DEF Served
    <3>2. CASE <<c, e>> \in subscribed'
      BY <1>1, <3>1, <3>2 DEF Served, Sessions
    <3>3. CASE <<c, e>> \notin subscribed'
      <4>1. ok /\ r.op \in {"unsubscribe", "unwatch"} /\ r.conn = c /\ r.topic = e
        BY <1>1, <3>1, <3>3 DEF Sessions
      <4>2. e \in Events
        BY DEF IInv, TypeOK
      <4>3. r.op = "unsubscribe"
        BY <1>6, <4>1, <4>2
      <4> QED
        BY <1>1, <1>2, <1>3, <3>1, <4>1, <4>3 DEF Clearing
    <3> QED
      BY <3>2, <3>3
  <2> QED
    BY <2>1, <2>2 DEF XInv, ListenInv
<1> QED
  BY <1>5, <1>7, <1>8 DEF XInv

LEMMA EndSessionXInv ==
  ASSUME IInv, XInv, NEW c \in Connections, EndSession(c)
  PROVE  XInv'
<1>1. /\ responses' = {r \in responses : r.conn # c}
      /\ subscribed' = {s \in subscribed : s[1] # c}
      /\ UNCHANGED <<listeners, call>>
  BY DEF EndSession, Of, SubscriptionsOf
<1>2. /\ socket[c] # "open"
      /\ \A d \in Connections : d # c => socket'[d] = socket[d]
      /\ socket[c] = "lost" => socket'[c] = "lost"
  BY DEF EndSession, IInv, TypeOK
<1>3. OneCallPerEvent' /\ ConfirmedInv'
  BY <1>1 DEF XInv, OneCallPerEvent, ConfirmedInv
<1>4. NoneLost' => NoneLost
  BY <1>2 DEF NoneLost
<1>5. ASSUME NEW e, Served(e) PROVE Served(e)'
  <2>1. PICK d \in Sessions(e) : socket[d] = "open"
    BY <1>5 DEF Served
  <2>2. d \in Connections /\ d # c /\ <<d, e>> \in subscribed'
    BY <1>1, <1>2, <2>1 DEF Sessions
  <2> QED
    BY <1>2, <2>1, <2>2 DEF Served, Sessions
<1>6. ASSUME NEW e, Clearing(e) PROVE Clearing(e)'
  <2>1. PICK r \in responses : /\ r.ok /\ socket[r.conn] = "open"
                               /\ call[r.caller].op = "unsubscribe" /\ call[r.caller].topic = e
    BY <1>6 DEF Clearing
  <2>2. r.conn # c /\ r.conn \in Connections
    BY <1>2, <2>1, AnsweredWait
  <2> QED
    BY <1>1, <1>2, <2>1, <2>2 DEF Clearing
<1>7. ListenInv'
  BY <1>1, <1>4, <1>5, <1>6 DEF XInv, ListenInv
<1> QED
  BY <1>3, <1>7 DEF XInv

LEMMA StepXInv ==
  ASSUME Exclusive, IInv, XInv, [Next]_vars
  PROVE  XInv'
<1>1. ASSUME NEW t \in Callers, NEW e \in Events, Subscribe(t, e)
      PROVE  XInv'
  <2>1. CASE e \in DOMAIN listeners /\ AddListener(t, e) /\ UNCHANGED <<socket, call>>
    <3>1. DOMAIN listeners' = DOMAIN listeners
      BY <2>1 DEF AddListener
    <3> QED
      BY <1>1, <2>1, <3>1 DEF Subscribe, XInv, OneCallPerEvent, ConfirmedInv, ListenInv, NoneLost,
                              Served, Sessions, Clearing
  <2>2. CASE GetRiverClient(t, "subscribe", e) /\ UNCHANGED listeners
    BY <1>1, <2>2, StartsXInv DEF Subscribe, Topics, Requests, Subscriptions
  <2> QED
    BY <1>1, <2>1, <2>2 DEF Subscribe
<1>2. ASSUME NEW t \in Callers, NEW e \in Events, Unsubscribe(t, e)
      PROVE  XInv'
  BY <1>2, StartsXInv DEF Unsubscribe, StartRequest, Topics, Requests, Subscriptions
<1>3. ASSUME NEW t \in Callers, NEW k \in Data, SubscribeUpdates(t, k) \/ UnsubscribeUpdates(t, k)
      PROVE  XInv'
  BY <1>3, StartsXInv DEF SubscribeUpdates, UnsubscribeUpdates, StartRequest, Topics, Requests,
                          Subscriptions
<1>4. ASSUME NEW t \in Callers, OtherRequest(t)
      PROVE  XInv'
  BY <1>4, StartsXInv DEF OtherRequest, StartRequest, Requests
<1>5. ASSUME NEW t \in Callers, NEW e \in Events, RemoveListener(t, e)
      PROVE  XInv'
  <2>1. DOMAIN listeners' = DOMAIN listeners
    BY <1>5 DEF RemoveListener, IInv, TypeOK
  <2> QED
    BY <1>5, <2>1 DEF RemoveListener, XInv, OneCallPerEvent, ConfirmedInv, ListenInv, NoneLost,
                      Served, Sessions, Clearing
<1>6. ASSUME CloseConnections
      PROVE  XInv'
  <2>1. DOMAIN listeners' = {}
    BY <1>6 DEF CloseConnections
  <2> QED
    BY <1>6, <2>1 DEF CloseConnections, XInv, OneCallPerEvent, ConfirmedInv, ListenInv
<1>7. ASSUME NEW c \in Connections, Lose(c)
      PROVE  XInv'
  <2>1. ~ NoneLost'
    BY <1>7 DEF Lose, NoneLost, IInv, TypeOK
  <2> QED
    BY <1>7, <2>1 DEF Lose, XInv, OneCallPerEvent, ConfirmedInv, ListenInv
<1>8. CASE UNCHANGED vars
  BY <1>8 DEF vars, XInv, OneCallPerEvent, ConfirmedInv, ListenInv, NoneLost, Served, Sessions,
              Clearing
<1> QED
  BY <1>1, <1>2, <1>3, <1>4, <1>5, <1>6, <1>7, <1>8, OpenedXInv, SendsOrEndsXInv,
     ReceiveResponseXInv, HandleXInv, EndSessionXInv DEF Next, CallerNext

-----------------------------------------------------------------------------
\* The invariant holds in every reachable state, however the program orders its
\* calls (worker.ts, outerspace-client.ts).
THEOREM Invariance == Spec => []IInv
<1>1. Init => IInv
  BY InitIInv
<1>2. IInv /\ [Next]_vars => IInv'
  BY StepIInv
<1> QED
  BY <1>1, <1>2, PTL DEF Spec

\* Every reachable state of the client, its connections and River's sessions is
\* well typed.
THEOREM TypeCorrect == Spec => []TypeOK
<1>1. IInv => TypeOK
  BY DEF IInv
<1> QED
  BY <1>1, Invariance, PTL

\* A response finds the call it answers and only that one, for any number of
\* calls below the range of the header (bundleRequest, sendRequestAsync,
\* handleResponse).
THEOREM AnswersFindTheirCall == Spec => []AnswersReachTheirCall
<1>1. IInv => AnswersReachTheirCall
  <2> SUFFICES ASSUME IInv PROVE AnswersReachTheirCall
    OBVIOUS
  <2>1. ASSUME NEW m \in requests \cup responses
        PROVE  \E w \in waiting : w.conn = m.conn /\ w.id = m.id /\ w.caller = m.caller
    <3>1. [conn |-> m.conn, id |-> m.id, caller |-> m.caller] \in waiting
      BY DEF IInv, MessageInv
    <3> QED
      BY <3>1
  <2> QED
    BY <2>1 DEF IInv, WaitInv, AnswersReachTheirCall
<1> QED
  BY <1>1, Invariance, PTL

\* An event with an entry among the listeners is subscribed to on an open
\* connection, for a program that awaits its calls on one event and until a
\* connection breaks (subscribeMessageAsync, unsubscribeMessageAsync,
\* closeConnections).
THEOREM ListenersServed ==
  ASSUME Exclusive
  PROVE  Spec => []ListenersAreSubscribed
<1>1. Init => IInv /\ XInv
  BY InitIInv
<1>2. (IInv /\ XInv) /\ [Next]_vars => (IInv /\ XInv)'
  BY StepIInv, StepXInv
<1>3. IInv /\ XInv => ListenersAreSubscribed
  <2> SUFFICES ASSUME IInv, XInv, NoneLost, NEW e \in DOMAIN listeners
               PROVE  Busy(e) \/ \E c \in Sessions(e) : socket[c] = "open"
    BY DEF ListenersAreSubscribed, NoneLost
  <2>1. CASE Served(e)
    BY <2>1 DEF Served
  <2>2. CASE Clearing(e)
    BY <2>2, AnsweredWait DEF Clearing, Busy
  <2> QED
    BY <2>1, <2>2 DEF XInv, ListenInv
<1> QED
  BY <1>1, <1>2, <1>3, PTL DEF Spec

=============================================================================
