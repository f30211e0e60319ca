----------------------------- MODULE ClientValues -----------------------------
(***************************************************************************)
(* How the browser client writes values, Data and requests into the tables *)
(* of RiverProtocol and how it reads responses and messages back           *)
(* (util/serde.ts, service/river-client.ts, client.ts).  A request goes to *)
(* the worker, which is not modelled: it reads the tables and answers with *)
(* anything its schema allows.                                             *)
(*                                                                         *)
(* A JavaScript value is a record [is, ...].  An object, a Map or a Set    *)
(* keeps the order of its properties, entries or items.  A Data is named   *)
(* by its key; heap has its version and its properties.                    *)
(***************************************************************************)
EXTENDS RiverProtocol, Positions, FiniteSets, SequencesExt

CONSTANTS Layers,     \* the values: sets of them, each made of those before it
          Worker,     \* the id and the version of the worker the client was made for
          Throws,     \* an exception
          Heaps,      \* the Data of a client: functions from keys to objects
          Calls,      \* what the program asks of the worker
          Says,       \* what the worker may say in a response
          Pushes      \* what the worker may say in a message

VARIABLES heap,       \* the Data of the client
          call,       \* what the program asked, Null: a message is pushed
          wire,       \* the table on its way, Null: none
          said,       \* what the worker meant by its response or message
          outcome,    \* what the client made of it
          pc          \* "idle", "sent", "answered", "pushed" or "done"

vars == <<heap, call, wire, said, outcome, pc>>

RIVER_PROTOCOL_VERSION == 1

-----------------------------------------------------------------------------
(* Values into tables.                                                     *)

\* Everything else, a Message or a function, is not supported.
ValueTypes ==
    [undefined |-> "UndefinedValueProto", null |-> "NullValueProto",
     boolean |-> "BooleanValueProto", number |-> "NumberValueProto",
     string |-> "StringValueProto", Date |-> "DateValueProto",
     Data |-> "DataReferenceValueProto", Service |-> "ServiceReferenceValueProto",
     Array |-> "ArrayValueProto", Map |-> "MapValueProto", Set |-> "SetValueProto",
     object |-> "ObjectValueProto"]

\* valueOf: a String, Number or Boolean object stands for its primitive.
Unboxed(v) == IF v.is = "boxed" THEN v.primitive ELSE v

GetValueType(v) == ValueTypes[Unboxed(v).is]

\* The values nested no deeper than n, and all of them.
Below(n) == UNION {Layers[k] : k \in 1..n}
Values == Below(Len(Layers))

\* The items, properties or entries of a value: the values inside each.
Entries(v) ==
    CASE v.is \in {"Array", "Set"} -> [i \in DOMAIN v.items |-> <<v.items[i]>>]
      [] v.is = "object" -> [i \in DOMAIN v.properties |-> <<v.properties[i].value>>]
      [] v.is = "Map" -> [i \in DOMAIN v.items |-> <<v.items[i].key, v.items[i].value>>]
      [] OTHER -> <<>>

InEntries(entries) == UNION {ToSet(entries[i]) : i \in DOMAIN entries}
Inside(v) == InEntries(Entries(v))

\* What becomes of what is inside entries.
Each(entries, f) ==
    [i \in DOMAIN entries |-> [j \in DOMAIN entries[i] |-> f[entries[i][j]]]]

\* getValueType throws for a value that is not supported, however deep.
Serializable[v \in Values] ==
    /\ Unboxed(v).is \in DOMAIN ValueTypes
    /\ \A x \in Inside(v) : Serializable[x]

\* The Data that serializing a value adds to the transfer queue.
ReferencesIn[v \in Values] ==
    IF v.is = "Data" THEN <<v>> ELSE FlattenSeq(FlattenSeq(Each(Entries(v), ReferencesIn)))

Reference(v) == [classId |-> v.classId, primaryKey |-> v.primaryKey]

\* What is in the table of a value, from the tables of what is inside it.
Contents(v, inside) ==
    LET u == Unboxed(v)
    IN  CASE u.is \in {"undefined", "null"} -> [none \in {} |-> Null]
          [] u.is = "boolean" -> [value |-> u.boolean]
          [] u.is = "number" -> [value |-> u.number]
          [] u.is = "string" -> [value |-> u.string]
          [] u.is = "Date" -> [value |-> u.time]
          [] u.is \in {"Data", "Service"} -> Reference(u)
          [] u.is = "Set" -> [items |-> [i \in DOMAIN inside |-> inside[i][1]]]
          [] u.is = "object" ->
               [properties |-> [i \in DOMAIN inside |->
                  Create(PropertyProto, [name |-> v.properties[i].name,
                                         value |-> inside[i][1]])]]
          [] u.is = "Array" ->
               [items |-> [i \in DOMAIN inside |->
                  Create(ArrayItemValueProto, [index |-> i - 1, value |-> inside[i][1]])]]
          [] u.is = "Map" ->
               [items |-> [i \in DOMAIN inside |->
                  Create(MapValueItemProto, [key |-> inside[i][1], value |-> inside[i][2]])]]

ValueTable(v, inside) ==
    LET type == GetValueType(v)
    IN  Create(ValueProto,
               [valueType |-> type,
                value |-> Create(ValueUnionProto[type], Contents(v, inside))])

SerializeValue[v \in Values] == ValueTable(v, Each(Entries(v), SerializeValue))

-----------------------------------------------------------------------------
(* The Data that travel with a request (DataTransferQueue).                *)

\* tryAdd, for several Data: those whose key was not added before.
TryAdd(keys, more) ==
    Pick(more, {i \in DOMAIN more : /\ more[i] \notin keys
                                    /\ \A j \in 1..(i - 1) : more[j] # more[i]})

\* Mutant: only what a property refers to itself, not inside its value.
ReferencesOfFlat(d) ==
    FlattenSeq([i \in DOMAIN heap[d].properties |->
                  LET v == heap[d].properties[i].value
                  IN  IF v.is = "Data" THEN <<v>> ELSE <<>>])

\* What serializing the properties of d refers to.
ReferencesOf(d) ==
    FlattenSeq([i \in DOMAIN heap[d].properties |->
                  ReferencesIn[heap[d].properties[i].value]])

\* The queue is emptied from its front; what an object refers to goes to its end.
\* added[n] is what has been added to it when n objects have been taken from it.
Transfer(roots) ==
    LET added[n \in 0..Cardinality(DOMAIN heap)] ==
          IF n = 0 THEN TryAdd({}, roots)
          ELSE IF n <= Len(added[n - 1])
          THEN added[n - 1] \o TryAdd(ToSet(added[n - 1]), ReferencesOf(added[n - 1][n]))
          ELSE added[n - 1]
    IN  added[Cardinality(DOMAIN heap)]

\* A version of 0 is sent for an object the worker does not know.
CreateInboundDataDelta(d) ==
    Create(InboundDataDeltaProto,
        [classId |-> d.classId, objectVersion |-> heap[d].version,
         primaryKey |-> d.primaryKey,
         properties |-> [i \in DOMAIN heap[d].properties |->
            Create(NestedPropertyProto,
                   [name |-> heap[d].properties[i].name,
                    valueBytes |-> SerializeValue[heap[d].properties[i].value]])],
         deletedProperties |-> <<>>])

InboundDeltas(roots) ==
    LET all == Transfer(roots)
    IN  [i \in DOMAIN all |-> CreateInboundDataDelta(all[i])]

\* Mutant: tryAdd does not compare the worker.
TransferableAnyWorker(worker, roots) ==
    LET all == ToSet(Transfer(roots))
    IN  \A d \in all : \A i \in DOMAIN heap[d].properties :
          Serializable[heap[d].properties[i].value]

\* tryAdd throws for an object of another worker, and serializing for a
\* property that is not supported.
Transferable(worker, roots) ==
    LET all == ToSet(Transfer(roots))
    IN  \A d \in all :
          /\ d.worker = worker
          /\ \A i \in DOMAIN heap[d].properties : Serializable[heap[d].properties[i].value]

-----------------------------------------------------------------------------
(* Requests.                                                               *)

CreateRequest(worker, kind, inner) ==
    Create(UserRequestProto,
        [protocolVersion |-> RIVER_PROTOCOL_VERSION, logContext |-> "log",
         workerId |-> worker.id, workerVersion |-> worker.version,
         requestType |-> kind, request |-> Create(UserRequestUnionProto[kind], inner)])

\* The Data that the arguments refer to.
Referenced(c) == FlattenSeq([i \in DOMAIN c.args |-> ReferencesIn[c.args[i]]])

CreateCallServiceMethodRequest(c) ==
    CreateRequest(c.source.worker, "CallServiceMethodRequestProto",
        [classId |-> c.source.classId, primaryKey |-> c.source.primaryKey,
         methodId |-> c.methodId,
         arguments |-> [i \in DOMAIN c.args |-> SerializeValue[c.args[i]]],
         referencedDataDeltas |-> InboundDeltas(Referenced(c))])

CreateGetDataRequest(c) ==
    CreateRequest(c.source.worker, "GetDataRequestProto", Reference(c.source))

\* getDataAndKeyMap and getDataAndKeys: of one worker, and none twice.
OneWorker(data) ==
    /\ \A i \in DOMAIN data : data[i].worker = data[1].worker
    /\ IsInjective(data)

CreateSaveDataRequest(c) ==
    CreateRequest(c.data[1].worker, "SaveDataRequestProto",
                  [dataDeltas |-> InboundDeltas(c.data)])

\* createSubscribeMessageRequest, createUnsubscribeMessageRequest
CreateMessageRequest(c, kind) ==
    LET type == ValueTypes[c.source.is]
    IN  CreateRequest(c.source.worker, kind,
          [classId |-> c.messageClassId, sourceType |-> type,
           source |-> Create(WorkerReferenceUnionProto[type], Reference(c.source))])

\* createSubscribeDataUpdatesRequest, createUnsubscribeDataUpdatesRequest
CreateDataUpdatesRequest(c, kind) ==
    CreateRequest(c.data[1].worker, kind,
        [references |-> [i \in DOMAIN c.data |->
           Create(DataReferenceValueProto, Reference(c.data[i]))]])

\* Whether the call throws before a request is sent.
Refused(c) ==
    \/ /\ c.op = "CallServiceMethod"
       /\ \/ \E i \in DOMAIN c.args : ~Serializable[c.args[i]]
          \/ ~Transferable(c.source.worker, Referenced(c))
    \/ /\ c.op = "SaveData"
       /\ ~OneWorker(c.data) \/ ~Transferable(c.data[1].worker, c.data)
    \/ /\ c.op \in {"SubscribeDataUpdates", "UnsubscribeDataUpdates"}
       /\ ~OneWorker(c.data)

RequestFor(c) ==
    CASE c.op = "CallServiceMethod" -> CreateCallServiceMethodRequest(c)
      [] c.op = "GetData" -> CreateGetDataRequest(c)
      [] c.op = "SaveData" -> CreateSaveDataRequest(c)
      [] c.op \in {"SubscribeMessage", "UnsubscribeMessage"} ->
           CreateMessageRequest(c, c.op \o "RequestProto")
      [] c.op \in {"SubscribeDataUpdates", "UnsubscribeDataUpdates"} ->
           CreateDataUpdatesRequest(c, c.op \o "RequestProto")

-----------------------------------------------------------------------------
(* Tables into values.                                                     *)

InnerOf(t) == Read(ValueProto, t, "value")
TypeOf(t) == Read(ValueProto, t, "valueType")
\* The entries of a container, or of the properties of an object.
EntriesOf(t) ==
    CASE TypeOf(t) = "ArrayValueProto" -> Read(ArrayValueProto, InnerOf(t), "items")
      [] TypeOf(t) = "SetValueProto" -> Read(SetValueProto, InnerOf(t), "items")
      [] TypeOf(t) = "MapValueProto" -> Read(MapValueProto, InnerOf(t), "items")
      [] TypeOf(t) = "ObjectValueProto" -> Read(ObjectValueProto, InnerOf(t), "properties")
      [] OTHER -> <<>>

\* The values in an entry.
ValuesIn(t, e) ==
    CASE TypeOf(t) = "ArrayValueProto" -> <<Read(ArrayItemValueProto, e, "value")>>
      [] TypeOf(t) = "SetValueProto" -> <<e>>
      [] TypeOf(t) = "MapValueProto" ->
           <<Read(MapValueItemProto, e, "key"), Read(MapValueItemProto, e, "value")>>
      [] TypeOf(t) = "ObjectValueProto" -> <<Read(PropertyProto, e, "value")>>

\* The tables of the values inside a container.
TablesIn(t) == [i \in DOMAIN EntriesOf(t) |-> ValuesIn(t, EntriesOf(t)[i])]

\* What serializing values can make.
Tables == {SerializeValue[v] : v \in {w \in Values : Serializable[w]}}

IsReference(t) == TypeOf(t) = "DataReferenceValueProto"

\* References are resolved later: what has one comes after what has none.
Postponed(all, late) == InOrder(all \ late) \o InOrder(late)

\* Mutant: an entry whose key and value are both references is lost.
ArrangedLosing(t) ==
    LET entries == TablesIn(t)
        References(i) == {j \in DOMAIN entries[i] : IsReference(entries[i][j])}
        few == {i \in DOMAIN entries : Cardinality(References(i)) < 2}
    IN  Postponed(few, {i \in few : References(i) # {}})

\* The entries that have a reference.
Late(entries) ==
    {i \in DOMAIN entries : \E j \in DOMAIN entries[i] : IsReference(entries[i][j])}

\* The order in which what is inside a container is put into it.
Arranged(t) == Postponed(DOMAIN EntriesOf(t), Late(TablesIn(t)))

\* Reading a property of an object whose name is empty throws.
Readable[t \in Tables] ==
    /\ TypeOf(t) = "ObjectValueProto" =>
         \A i \in DOMAIN EntriesOf(t) : Read(PropertyProto, EntriesOf(t)[i], "name") # ""
    /\ \A x \in InEntries(TablesIn(t)) : Readable[x]

\* Set.add and Map.set; objects differ by identity, so only these can coincide.
Same(v, w) ==
    v.is \in {"undefined", "null", "boolean", "number", "string", "Data"} /\ v = w

\* What was added before is not added again.
SetOf(s) == Pick(s, {i \in DOMAIN s : \A j \in 1..(i - 1) : ~Same(s[i], s[j])})

\* A key keeps its place, and has the last value that it was given.
MapOf(s) ==
    LET at == InOrder({i \in DOMAIN s : \A j \in 1..(i - 1) : ~Same(s[i].key, s[j].key)})
        Given(k) == {j \in DOMAIN s : j = at[k] \/ Same(s[at[k]].key, s[j].key)}
    IN  [k \in DOMAIN at |-> s[CHOOSE j \in Given(k) : \A l \in Given(k) : l <= j]]

\* The value of a table, from the values of the tables inside it.
ValueOf(t, inside) ==
    LET type == TypeOf(t)
        In(f) == Read(ValueUnionProto[type], InnerOf(t), f)
        entries == EntriesOf(t)
        at == Arranged(t)
        Own(is) == [is |-> is, worker |-> Worker, classId |-> In("classId"),
                    primaryKey |-> In("primaryKey")]
    IN  CASE type = "UndefinedValueProto" -> [is |-> "undefined"]
          [] type = "NullValueProto" -> [is |-> "null"]
          [] type = "BooleanValueProto" -> [is |-> "boolean", boolean |-> In("value")]
          [] type = "NumberValueProto" -> [is |-> "number", number |-> In("value")]
          [] type = "StringValueProto" -> [is |-> "string", string |-> In("value")]
          [] type = "DateValueProto" -> [is |-> "Date", time |-> In("value")]
          [] type = "DataReferenceValueProto" -> Own("Data")
          [] type = "ServiceReferenceValueProto" -> Own("Service")
          [] type = "ArrayValueProto" ->
               [is |-> "Array", items |-> [i \in DOMAIN entries |->
                  inside[CHOOSE k \in DOMAIN entries :
                           Read(ArrayItemValueProto, entries[k], "index") = i - 1][1]]]
          [] type = "SetValueProto" ->
               [is |-> "Set", items |-> SetOf([k \in DOMAIN at |-> inside[at[k]][1]])]
          [] type = "MapValueProto" ->
               [is |-> "Map", items |->
                  MapOf([k \in DOMAIN at |-> [key |-> inside[at[k]][1],
                                              value |-> inside[at[k]][2]]])]
          [] type = "ObjectValueProto" ->
               [is |-> "object", properties |-> [k \in DOMAIN at |->
                  [name |-> Read(PropertyProto, entries[at[k]], "name"),
                   value |-> inside[at[k]][1]]]]

DeserializeValue[t \in Tables] == ValueOf(t, Each(TablesIn(t), DeserializeValue))

-----------------------------------------------------------------------------
(* What the worker writes.  It is not modelled: it says anything.          *)

PropertiesOf(schema, ps, bytes) ==
    [i \in DOMAIN ps |->
       Create(schema, [f \in {"name", bytes} |->
                         IF f = "name" THEN ps[i].name ELSE SerializeValue[ps[i].value]])]

WrittenDelta(d) ==
    Create(DataDeltaBytesProto, [bytes |->
      Create(DataDeltaProto,
        [classId |-> d.classId, objectVersion |-> d.version, primaryKey |-> d.primaryKey,
         deleted |-> d.deleted,
         properties |-> PropertiesOf(NestedPropertyProto, d.properties, "valueBytes"),
         deletedProperties |-> d.deletedProperties])])

EventOf(m) ==
    LET source == ValueTypes[m.source.is]
    IN  Create(MessageProto,
          [classId |-> m.classId, sourceType |-> source,
           source |-> Create(WorkerReferenceUnionProto[source], Reference(m.source)),
           properties |-> PropertiesOf(PropertyProto, m.properties, "value"),
           referencedDataHandles |-> <<>>])

MessageOf(m) ==
    LET deltas == [i \in DOMAIN m.deltas |-> WrittenDelta(m.deltas[i])]
    IN  IF m.type = "DataUpdateMessageProto" THEN [deltas |-> deltas]
        ELSE [event |-> Create(MessageBytesProto, [bytes |-> EventOf(m)]), deltas |-> deltas]

WrittenMessage(m) ==
    Create(UserMessageUnionWrapperBytesProto, [bytes |->
      Create(UserMessageUnionWrapperProto,
        [valueType |-> m.type, value |-> Create(UserMessageUnionProto[m.type], MessageOf(m))])])

WrittenLog(log) ==
    Create(ConsoleLogBytesProto, [bytes |->
      Create(ConsoleLogProto, [messages |->
        [i \in DOMAIN log |-> Create(ConsoleLogMessageProto, log[i])]])])

WrittenData(d) ==
    Create(NestedDataProto,
      [classId |-> d.classId, objectVersion |-> d.version, primaryKey |-> d.primaryKey,
       deleted |-> d.deleted,
       properties |-> PropertiesOf(NestedPropertyProto, d.properties, "valueBytes")])

ResponseOf(s) ==
    CASE s.type = "ErrorCodeResponseProto" -> [errorCode |-> s.code]
      [] s.type = "ExceptionResponseProto" -> [stack |-> s.stack, message |-> s.message]
      [] s.type = "CallServiceMethodResponseProto" -> [returnValue |-> SerializeValue[s.value]]
      [] s.type = "GetDataResponseProto" ->
           [data |-> [i \in DOMAIN s.data |-> WrittenData(s.data[i])]]
      [] s.type = "SaveDataResponseProto" ->
           [handles |-> [i \in DOMAIN s.handles |->
              Create(DataHandleProto,
                [classId |-> s.handles[i].classId, objectVersion |-> s.handles[i].version,
                 primaryKey |-> s.handles[i].primaryKey])]]
      [] OTHER -> [none \in {} |-> Null]

WrittenResponse(s) ==
    Create(RiverUserResponseProto,
      [response |-> Create(UserResponseUnionWrapperBytesProto, [bytes |->
          Create(UserResponseUnionWrapperProto,
            [valueType |-> s.type,
             value |-> Create(UserResponseUnionProto[s.type], ResponseOf(s))])]),
       messages |-> [i \in DOMAIN s.messages |-> WrittenMessage(s.messages[i])],
       consoleLog |-> IF s.log = <<>> THEN Null ELSE WrittenLog(s.log)])

WrittenPush(p) ==
    Create(RiverUserMessageProto,
      [logContext |-> "log", workerId |-> p.worker.id, workerVersion |-> p.worker.version,
       message |-> WrittenMessage(p)])

-----------------------------------------------------------------------------
(* What the client reads.                                                  *)

\* The properties in the order in which they are set: references come later.
ReadProperties(schema, ps, bytes) ==
    LET ValueIn(i) == Read(schema, ps[i], bytes)
        at == Postponed(DOMAIN ps, {i \in DOMAIN ps : IsReference(ValueIn(i))})
    IN  [k \in DOMAIN at |-> [name |-> Read(schema, ps[at[k]], "name"),
                              value |-> DeserializeValue[ValueIn(at[k])]]]

\* readProperty: a name must not be empty.
ReadableProperties(schema, ps, bytes) ==
    \A i \in DOMAIN ps : /\ Read(schema, ps[i], "name") # ""
                         /\ Readable[Read(schema, ps[i], bytes)]

\* mergeDelta, without what it does to the instance (ClientData).
ReadDelta(t) ==
    LET d == Read(DataDeltaBytesProto, t, "bytes")
        In(f) == Read(DataDeltaProto, d, f)
    IN  IF /\ In("objectVersion") # 0
           /\ In("deleted") \/ ReadableProperties(NestedPropertyProto, In("properties"),
                                                  "valueBytes")
        THEN [classId |-> In("classId"), version |-> In("objectVersion"),
              primaryKey |-> In("primaryKey"), deleted |-> In("deleted"),
              properties |-> IF In("deleted") THEN <<>>
                             ELSE ReadProperties(NestedPropertyProto, In("properties"),
                                                 "valueBytes"),
              deletedProperties |-> IF In("deleted") THEN <<>> ELSE In("deletedProperties")]
        ELSE Throws

ReadAllOf(Op(_), ts) ==
    LET all == [i \in DOMAIN ts |-> Op(ts[i])]
    IN  IF Throws \in ToSet(all) THEN Throws ELSE all

\* handleMessageMessageWithTrackerAsync
ReadEvent(event, deltas) ==
    LET In(f) == Read(MessageProto, event, f)
        source == [f \in {"classId", "primaryKey"} |->
                     Read(WorkerReferenceUnionProto[In("sourceType")], In("source"), f)]
    IN  IF ReadableProperties(PropertyProto, In("properties"), "value")
        THEN [type |-> "MessageMessageProto", deltas |-> deltas, classId |-> In("classId"),
              sourceType |-> In("sourceType"), source |-> source,
              properties |-> ReadProperties(PropertyProto, In("properties"), "value")]
        ELSE Throws

\* A message after its deltas.
ReadAfter(type, value, deltas) ==
    LET event == Read(MessageBytesProto, Read(MessageMessageProto, value, "event"), "bytes")
    IN  IF deltas = Throws THEN Throws
        ELSE IF type = "DataUpdateMessageProto" THEN [type |-> type, deltas |-> deltas]
        ELSE ReadEvent(event, deltas)

\* handleDataUpdateMessage
ReadMessage(bytes) ==
    LET wrapper == Read(UserMessageUnionWrapperBytesProto, bytes, "bytes")
        type == Read(UserMessageUnionWrapperProto, wrapper, "valueType")
        value == Read(UserMessageUnionWrapperProto, wrapper, "value")
    IN  ReadAfter(type, value,
          ReadAllOf(ReadDelta, Read(UserMessageUnionProto[type], value, "deltas")))

\* validateWorkerTarget: a message for another worker or another version throws.
ReadPush(t) ==
    LET target == [id |-> Read(RiverUserMessageProto, t, "workerId"),
                   version |-> Read(RiverUserMessageProto, t, "workerVersion")]
    IN  IF target = Worker THEN ReadMessage(Read(RiverUserMessageProto, t, "message"))
        ELSE Throws

\* replaceData, without what it does to the instance (ClientData).
ReadData(t) ==
    LET In(f) == Read(NestedDataProto, t, f)
    IN  IF /\ In("objectVersion") # 0
           /\ ReadableProperties(NestedPropertyProto, In("properties"), "valueBytes")
        THEN [classId |-> In("classId"), version |-> In("objectVersion"),
              primaryKey |-> In("primaryKey"), deleted |-> In("deleted"),
              properties |->
                ReadProperties(NestedPropertyProto, In("properties"), "valueBytes")]
        ELSE Throws

\* Mutant: an answer with events loses its updates.
HandledEventsOnly(messages, op) ==
    LET IsEvent(m) == m.type = "MessageMessageProto"
    IN  IF Throws \in ToSet(messages) THEN Throws
        ELSE IF \E i \in DOMAIN messages : IsEvent(messages[i])
        THEN Select(messages, IsEvent) ELSE messages

\* The answer to a service method: its events are handled first, then its
\* updates, then its value.  A save takes updates only.
Handled(messages, op) ==
    LET IsEvent(m) == m.type = "MessageMessageProto"
        IsUpdate(m) == m.type = "DataUpdateMessageProto"
    IN  IF Throws \in ToSet(messages) THEN Throws
        ELSE IF op = "CallServiceMethod"
        THEN Select(messages, IsEvent) \o Select(messages, IsUpdate)
        ELSE IF \A i \in DOMAIN messages : IsUpdate(messages[i]) THEN messages ELSE Throws

\* What answers an operation if nothing went wrong.
ResponseTypes ==
    [CallServiceMethod |-> "CallServiceMethodResponseProto",
     GetData |-> "GetDataResponseProto", SaveData |-> "SaveDataResponseProto",
     SubscribeMessage |-> "SubscribeMessageResponseProto",
     UnsubscribeMessage |-> "UnsubscribeMessageResponseProto",
     SubscribeDataUpdates |-> "SubscribeDataUpdatesResponseProto",
     UnsubscribeDataUpdates |-> "UnsubscribeDataUpdatesResponseProto"]

OrEmpty(text) == IF text \in {Null, ""} THEN "<empty>" ELSE text

ReadLog(t) ==
    LET bytes == Read(RiverUserResponseProto, t, "consoleLog")
        entries == Read(ConsoleLogProto, Read(ConsoleLogBytesProto, bytes, "bytes"), "messages")
    IN  IF bytes = Null THEN <<>>
        ELSE [i \in DOMAIN entries |-> ReadAll(ConsoleLogMessageProto, entries[i])]

\* The response in a table: its type and a field of it.
ResponseIn(t) ==
    Read(UserResponseUnionWrapperBytesProto,
         Read(RiverUserResponseProto, t, "response"), "bytes")
ResponseType(t) == Read(UserResponseUnionWrapperProto, ResponseIn(t), "valueType")
ResponseField(t, f) ==
    Read(UserResponseUnionProto[ResponseType(t)],
         Read(UserResponseUnionWrapperProto, ResponseIn(t), "value"), f)

\* What the operation makes of a response of its own type, after the messages in it.
Answered(op, t, messages, data, log) ==
    IF messages = Throws THEN Throws
    ELSE CASE op = "CallServiceMethod" ->
                LET value == ResponseField(t, "returnValue")
                IN  IF Readable[value]
                    THEN [value |-> DeserializeValue[value], messages |-> messages, log |-> log]
                    ELSE Throws
           [] op = "GetData" -> IF data = Throws THEN Throws ELSE [data |-> data, log |-> log]
           [] OTHER -> [messages |-> messages, log |-> log]

\* readResponse and what the operation does with the response.
ReadResponse(op, t) ==
    LET type == ResponseType(t)
        In(f) == ResponseField(t, f)
        received == Read(RiverUserResponseProto, t, "messages")
        acceptMessages == op \in {"CallServiceMethod", "SaveData"}
        log == ReadLog(t)
    IN  CASE type = "ErrorCodeResponseProto" ->
               IF In("errorCode") = 0 THEN Throws
               ELSE [platformException |-> In("errorCode"), log |-> log]
          [] type = "ExceptionResponseProto" ->
               [stack |-> OrEmpty(In("stack")), message |-> OrEmpty(In("message")), log |-> log]
          [] OTHER ->
               IF type # ResponseTypes[op] THEN Throws
               ELSE IF received # <<>> /\ ~acceptMessages THEN Throws
               ELSE Answered(op, t,
                             Handled([i \in DOMAIN received |-> ReadMessage(received[i])], op),
                             ReadAllOf(ReadData, In("data")), log)

-----------------------------------------------------------------------------
(* What the constants are.                                                 *)

IsList(s) == s \in Seq(ToSet(s))

\* A value and everything inside it.
Within[v \in Values] == {v} \cup UNION {Within[x] : x \in Inside(v)}

IsPrimitive(v) ==
    CASE v.is = "boolean" -> /\ v = [is |-> "boolean", boolean |-> v.boolean]
                             /\ v.boolean \in BOOLEAN
      [] v.is = "number" -> v = [is |-> "number", number |-> v.number]
      [] v.is = "string" -> v = [is |-> "string", string |-> v.string]
      [] OTHER -> FALSE

\* A Date never has the time -0.
IsValue(v) ==
    CASE v.is \in {"undefined", "null", "Message", "function"} -> v = [is |-> v.is]
      [] v.is = "boxed" -> IsPrimitive(v.primitive)
      [] v.is = "Date" -> v = [is |-> "Date", time |-> v.time] /\ v.time # NegativeZero
      [] v.is \in {"Data", "Service"} ->
           /\ v = [is |-> v.is, worker |-> v.worker, classId |-> v.classId,
                   primaryKey |-> v.primaryKey]
           /\ v.worker = [id |-> v.worker.id, version |-> v.worker.version]
      [] v.is \in {"Array", "Set", "Map"} -> IsList(v.items)
      [] v.is = "object" -> IsList(v.properties)
      [] OTHER -> IsPrimitive(v)

\* No value contains itself: serializeValue would not end.
LayersAssumption ==
    /\ Len(Layers) \in Nat
    /\ \A n \in 1..Len(Layers) :
         /\ \A v \in Layers[n] : IsValue(v)
         /\ UNION {Inside(v) : v \in Layers[n]} \subseteq Below(n - 1)
ASSUME LayersAssumption

\* A client has a version and properties for every Data that a value refers to.
HeapsAssumption ==
    \A h \in Heaps :
      /\ DOMAIN h = {v \in Values : v.is = "Data"}
      /\ IsFiniteSet(DOMAIN h)
      /\ \A d \in DOMAIN h :
           /\ IsList(h[d].properties)
           /\ \A i \in DOMAIN h[d].properties : h[d].properties[i].value \in Values
ASSUME HeapsAssumption

\* A RiverClient calls the services of its own worker.
CallsAssumption ==
    \A c \in Calls :
      /\ c.op \in DOMAIN ResponseTypes
      /\ c.op = "CallServiceMethod" => c.source.worker = Worker /\ c.args \in Seq(Values)
      /\ c.op = "SaveData" =>
           c.data \in Seq({v \in Values : v.is = "Data"}) /\ c.data # <<>>
ASSUME CallsAssumption

\* A worker says what it can write, and refers to nothing that is not its own.
Sayable(v) ==
    /\ v \in Values /\ Serializable[v]
    /\ \A w \in Within[v] : w.is \in {"Data", "Service"} => w.worker = Worker
SayableProperties(ps) ==
    IsList(ps) /\ \A i \in DOMAIN ps : Sayable(ps[i].value)

\* Nothing is left of what is deleted.
IsDelta(d) ==
    /\ d = [classId |-> d.classId, version |-> d.version, primaryKey |-> d.primaryKey,
            deleted |-> d.deleted, properties |-> d.properties,
            deletedProperties |-> d.deletedProperties]
    /\ d.deleted \in BOOLEAN
    /\ SayableProperties(d.properties)
    /\ d.deleted => d.properties = <<>> /\ d.deletedProperties = <<>>
IsStored(d) ==
    /\ d = [classId |-> d.classId, version |-> d.version, primaryKey |-> d.primaryKey,
            deleted |-> d.deleted, properties |-> d.properties]
    /\ SayableProperties(d.properties)
IsMessage(m) ==
    /\ m.type \in {"DataUpdateMessageProto", "MessageMessageProto"}
    /\ IsList(m.deltas) /\ \A i \in DOMAIN m.deltas : IsDelta(m.deltas[i])
    /\ m.type = "MessageMessageProto" =>
         m.source.is \in {"Data", "Service"} /\ SayableProperties(m.properties)

SaysAssumption ==
    /\ \A s \in Says :
         /\ s.type \in DOMAIN UserResponseUnionProto
         /\ IsList(s.messages) /\ \A i \in DOMAIN s.messages : IsMessage(s.messages[i])
         /\ IsList(s.log)
         /\ \A i \in DOMAIN s.log :
              s.log[i] = [message |-> s.log[i].message, error |-> s.log[i].error]
         /\ s.type = "CallServiceMethodResponseProto" => Sayable(s.value)
         /\ s.type = "GetDataResponseProto" =>
              IsList(s.data) /\ \A i \in DOMAIN s.data : IsStored(s.data[i])
    /\ \A p \in Pushes :
         IsMessage(p) /\ p.worker = [id |-> p.worker.id, version |-> p.worker.version]
ASSUME SaysAssumption

\* A method that returns its first argument.
Returned(c) ==
    [type |-> "CallServiceMethodResponseProto", value |-> c.args[1],
     messages |-> <<>>, log |-> <<>>]

NullAssumption ==
    /\ Null # 0 /\ Null # Throws
    /\ \A x \in Calls \cup Says \cup Pushes : x # Null
    /\ \A c \in Calls : c.op = "CallServiceMethod" /\ c.args # <<>> => Returned(c) # Null
    /\ NegativeZero \notin BOOLEAN
    /\ Worker = [id |-> Worker.id, version |-> Worker.version]
    /\ \A s \in Says : WrittenLog(s.log) # Null
ASSUME NullAssumption

-----------------------------------------------------------------------------
Init ==
    /\ heap \in Heaps
    /\ call = Null
    /\ wire = Null
    /\ said = Null
    /\ outcome = Null
    /\ pc = "idle"

\* The program calls an operation, which sends a request or throws.
Ask(c) ==
    /\ pc = "idle"
    /\ call' = c
    /\ IF Refused(c)
       THEN outcome' = Throws /\ pc' = "done" /\ UNCHANGED wire
       ELSE wire' = RequestFor(c) /\ pc' = "sent" /\ UNCHANGED outcome
    /\ UNCHANGED <<heap, said>>

\* The worker answers.
Answer(s) ==
    /\ pc = "sent"
    /\ said' = s
    /\ wire' = WrittenResponse(s)
    /\ pc' = "answered"
    /\ UNCHANGED <<heap, call, outcome>>

\* Bound: a method with arguments returns the first, everything else gets every answer
\* there is.
Answers ==
    IF call # Null /\ call.op = "CallServiceMethod" /\ call.args # <<>>
    THEN {Returned(call)} ELSE Says

Receive ==
    /\ pc = "answered"
    /\ outcome' = ReadResponse(call.op, wire)
    /\ pc' = "done"
    /\ UNCHANGED <<heap, call, wire, said>>

\* The worker sends a message by itself.
Push(p) ==
    /\ pc = "idle"
    /\ said' = p
    /\ wire' = WrittenPush(p)
    /\ pc' = "pushed"
    /\ UNCHANGED <<heap, call, outcome>>

ReceivePush ==
    /\ pc = "pushed"
    /\ outcome' = ReadPush(wire)
    /\ pc' = "done"
    /\ UNCHANGED <<heap, call, wire, said>>

Next ==
    \/ \E c \in Calls : Ask(c)
    \/ \E s \in Answers : Answer(s)
    \/ Receive
    \/ \E p \in Pushes : Push(p)
    \/ ReceivePush

Spec == Init /\ [][Next]_vars

-----------------------------------------------------------------------------
(* What the client promises.                                               *)

\* What the client can have read.
Results == {DeserializeValue[t] : t \in {u \in Tables : Readable[u]}}

\* w is what v becomes, if like are the pairs of what is inside v and what that becomes.
\* Boxes are opened, -0 becomes 0, the entries of a Map or a Set and the properties of
\* an object may be in another order, and a Service of any worker becomes one of the
\* client's own.
Resembles(v, w, like) ==
    LET u == Unboxed(v)
        Like(x, y) == <<x, y>> \in like
        Entry(e, f) == Like(e.key, f.key) /\ Like(e.value, f.value)
        Property(e, f) == e.name = f.name /\ Like(e.value, f.value)
    IN  CASE u.is = "number" ->
               w = [is |-> "number",
                    number |-> IF u.number = NegativeZero THEN 0 ELSE u.number]
          [] u.is = "Service" -> w = [u EXCEPT !.worker = Worker]
          [] u.is = "Array" ->
               /\ w.is = "Array" /\ Len(w.items) = Len(v.items)
               /\ \A i \in DOMAIN v.items : Like(v.items[i], w.items[i])
          [] u.is = "Set" ->
               /\ w.is = "Set" /\ Len(w.items) <= Len(v.items)
               /\ \A i \in DOMAIN v.items : \E j \in DOMAIN w.items :
                    Like(v.items[i], w.items[j])
          [] u.is = "Map" ->
               /\ w.is = "Map" /\ Len(w.items) <= Len(v.items)
               /\ \A i \in DOMAIN v.items : \E j \in DOMAIN w.items :
                    Like(v.items[i].key, w.items[j].key)
               /\ \A j \in DOMAIN w.items : \E i \in DOMAIN v.items :
                    Entry(v.items[i], w.items[j])
          [] u.is = "object" ->
               /\ w.is = "object" /\ Len(w.properties) = Len(v.properties)
               /\ \A i \in DOMAIN v.properties : \E j \in DOMAIN w.properties :
                    Property(v.properties[i], w.properties[j])
          [] OTHER -> w = u

Preserved[p \in Values \X Results] ==
    Resembles(p[1], p[2],
              {q \in Inside(p[1]) \X (Inside(p[2]) \cap Results) : Preserved[q]})

Becomes(v, w) == w \in Results /\ Preserved[<<v, w>>]

SameProperties(ps, qs) ==
    /\ Len(qs) = Len(ps)
    /\ \A i \in DOMAIN ps : \E j \in DOMAIN qs :
         ps[i].name = qs[j].name /\ Becomes(ps[i].value, qs[j].value)

Owned(d) == UNION {Within[heap[d].properties[i].value] : i \in DOMAIN heap[d].properties}
Asked(c) == UNION {Within[c.args[i]] : i \in DOMAIN c.args}

\* What the roots refer to, and what that refers to: the least set closed under it.
ReachableData(roots) ==
    {d \in DOMAIN heap :
       \A S \in SUBSET DOMAIN heap :
         (roots \subseteq S /\ \A x \in S : Owned(x) \cap DOMAIN heap \subseteq S) => d \in S}
RootsOf(c) ==
    IF c.op = "SaveData" THEN ToSet(c.data) ELSE Asked(c) \cap DOMAIN heap
Supported(v) == v.is \notin {"Message", "function"}
Transfers(c) == c.op \in {"CallServiceMethod", "SaveData"}

\* A value that a method gets and returns comes back as it was, through the
\* tables in both directions, whatever it nests (serde.ts:166-262, 644-832).
ReturnPreserved ==
    (/\ pc = "done" /\ call # Null /\ said # Null /\ outcome # Throws
     /\ call.op = "CallServiceMethod"
     /\ said.type = "CallServiceMethodResponseProto") =>
      Becomes(said.value, outcome.value)

\* A request takes along every Data that its own Data refer to, directly or not,
\* each once, cycles or not, and with the version and the properties that the
\* client has (DataTransferQueue, serde.ts:123-164, 264-295).
TransferComplete ==
    (pc = "sent" /\ Transfers(call)) =>
      LET request == Read(UserRequestProto, wire, "request")
          deltas == IF call.op = "SaveData"
                    THEN Read(SaveDataRequestProto, request, "dataDeltas")
                    ELSE Read(CallServiceMethodRequestProto, request, "referencedDataDeltas")
          worker == [id |-> Read(UserRequestProto, wire, "workerId"),
                     version |-> Read(UserRequestProto, wire, "workerVersion")]
          KeyOf(t) == [is |-> "Data", worker |-> worker,
                       classId |-> Read(InboundDataDeltaProto, t, "classId"),
                       primaryKey |-> Read(InboundDataDeltaProto, t, "primaryKey")]
      IN  /\ {KeyOf(deltas[i]) : i \in DOMAIN deltas} = ReachableData(RootsOf(call))
          /\ Len(deltas) = Cardinality(ReachableData(RootsOf(call)))
          /\ \A i \in DOMAIN deltas :
               LET d == heap[KeyOf(deltas[i])]
               IN  /\ Read(InboundDataDeltaProto, deltas[i], "objectVersion") = d.version
                   /\ Len(Read(InboundDataDeltaProto, deltas[i], "properties"))
                        = Len(d.properties)

\* A call throws before anything is sent exactly when a value in it, in one of its
\* Data or in one that these refer to, however far away, is not supported, when one
\* of those Data is of another worker, or when a Data is saved twice.  A Service of
\* another worker is no cause: a reference to it is its class and key only, which
\* the worker that is asked takes for a Service of its own, see Resembles
\* (serde.ts:118, 148-163, 225-231, 1016-1078).
RefusedForCause ==
    (pc \in {"sent", "done"} /\ call # Null /\ Transfers(call)) =>
      LET all == ReachableData(RootsOf(call))
          worker == IF call.op = "SaveData" THEN call.data[1].worker ELSE call.source.worker
          twice == call.op = "SaveData" /\ ~IsInjective(call.data)
          bad == \/ \E d \in all : d.worker # worker
                 \/ \E d \in all : \E v \in Owned(d) : ~Supported(v)
                 \/ call.op = "CallServiceMethod" /\ \E v \in Asked(call) : ~Supported(v)
      IN  (outcome = Throws /\ said = Null) <=> (bad \/ twice)

SameDelta(d, e) ==
    /\ [d EXCEPT !.properties = <<>>] = [e EXCEPT !.properties = <<>>]
    /\ SameProperties(d.properties, e.properties)
SameMessage(m, n) ==
    /\ m.type = n.type
    /\ Len(m.deltas) = Len(n.deltas)
    /\ \A i \in DOMAIN m.deltas : SameDelta(m.deltas[i], n.deltas[i])
    /\ m.type = "MessageMessageProto" =>
         /\ n.classId = m.classId
         /\ n.sourceType = ValueTypes[m.source.is]
         /\ n.source = Reference(m.source)
         /\ SameProperties(m.properties, n.properties)

\* What the client makes of a response is what the worker meant by it: an error
\* is never taken for success nor one kind of answer for another, zeros and empty
\* fields included (readResponse, serde.ts:515-602).  A message is handled only by
\* a client made for exactly the worker and the version that sent it, and then as
\* it was meant (river-client.ts:44-125).
ReceivedAsMeant ==
  /\ (pc = "done" /\ call # Null /\ said # Null /\ outcome # Throws) =>
      /\ outcome.log = said.log
      /\ CASE said.type = "ErrorCodeResponseProto" ->
                 outcome = [platformException |-> said.code, log |-> said.log]
           [] said.type = "ExceptionResponseProto" ->
                 outcome.stack = OrEmpty(said.stack) /\ outcome.message = OrEmpty(said.message)
           [] OTHER ->
                 /\ said.type = ResponseTypes[call.op]
                 /\ call.op = "GetData" =>
                      /\ said.messages = <<>>
                      /\ Len(outcome.data) = Len(said.data)
                      /\ \A i \in DOMAIN said.data : SameDelta(said.data[i], outcome.data[i])
                 /\ call.op # "GetData" =>
                      /\ Len(outcome.messages) = Len(said.messages)
                      /\ \A i \in DOMAIN said.messages : \E j \in DOMAIN outcome.messages :
                           SameMessage(said.messages[i], outcome.messages[j])
  /\ (pc = "done" /\ call = Null /\ outcome # Throws) =>
      said.worker = Worker /\ SameMessage(said, outcome)

=============================================================================
