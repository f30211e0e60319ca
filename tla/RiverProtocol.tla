---------------------------- MODULE RiverProtocol ----------------------------
(***************************************************************************)
(* The FlatBuffers tables that the client and the worker exchange          *)
(* (internal/protocol).  A table in a buffer has only those fields whose   *)
(* value differs from the default of the field; a reader gets the default  *)
(* for a field that is not there, so it cannot tell the two apart.  A      *)
(* table is declared as its fields with what their accessors return when   *)
(* they are absent, and the fields that must be there.  A vector that is   *)
(* absent reads as an empty one.  A nested buffer (...BytesProto) stands   *)
(* for the table it holds.                                                 *)
(***************************************************************************)
EXTENDS Naturals, Sequences

CONSTANTS Null,          \* what the accessor of an absent table or string returns
          NegativeZero   \* the number -0, which is equal to 0

Table(fields, required) == [fields |-> fields, required |-> required]

\* Builder.addField...: a value that equals the default is left out.  Of the
\* numbers only those named value, with 0 as the default, can be -0.
IsDefault(schema, f, value) ==
    value = schema.fields[f] \/ (f = "value" /\ value = NegativeZero /\ schema.fields[f] = 0)

\* requiredField: finishing a table without it throws.
CanCreate(schema, given) == \A f \in schema.required : given[f] # Null

Create(schema, given) ==
    [f \in {g \in DOMAIN given : ~IsDefault(schema, g, given[g])} |-> given[f]]

Read(schema, table, f) == IF f \in DOMAIN table THEN table[f] ELSE schema.fields[f]

\* All fields of a table, as a reader sees them.
ReadAll(schema, table) == [f \in DOMAIN schema.fields |-> Read(schema, table, f)]

-----------------------------------------------------------------------------
(* Values.                                                                 *)

UndefinedValueProto == Table([none \in {} |-> Null], {})
NullValueProto == Table([none \in {} |-> Null], {})
BooleanValueProto == Table([value |-> FALSE], {})
NumberValueProto == Table([value |-> 0], {})
StringValueProto == Table([value |-> Null], {"value"})
DateValueProto == Table([value |-> 0], {})
ObjectValueProto == Table([properties |-> <<>>], {})
ArrayValueProto == Table([items |-> <<>>], {})
ArrayItemValueProto == Table([index |-> 0, value |-> Null], {})
MapValueProto == Table([items |-> <<>>], {})
MapValueItemProto == Table([key |-> Null, value |-> Null], {})
SetValueProto == Table([items |-> <<>>], {})
DataReferenceValueProto == Table([classId |-> 0, primaryKey |-> Null], {"primaryKey"})
ServiceReferenceValueProto == Table([classId |-> 0, primaryKey |-> Null], {"primaryKey"})
ValueProto == Table([valueType |-> "NONE", value |-> Null], {})
PropertyProto == Table([name |-> Null, value |-> Null], {"name"})
NestedPropertyProto == Table([name |-> Null, valueBytes |-> Null], {"name"})

\* The table of each type of a value.
ValueUnionProto ==
    [UndefinedValueProto |-> UndefinedValueProto, NullValueProto |-> NullValueProto,
     BooleanValueProto |-> BooleanValueProto, StringValueProto |-> StringValueProto,
     NumberValueProto |-> NumberValueProto, ObjectValueProto |-> ObjectValueProto,
     ArrayValueProto |-> ArrayValueProto,
     DataReferenceValueProto |-> DataReferenceValueProto,
     ServiceReferenceValueProto |-> ServiceReferenceValueProto,
     MapValueProto |-> MapValueProto, SetValueProto |-> SetValueProto,
     DateValueProto |-> DateValueProto]

-----------------------------------------------------------------------------
(* Requests.                                                               *)

InboundDataDeltaProto ==
    Table([classId |-> 0, objectVersion |-> 0, primaryKey |-> Null,
           properties |-> <<>>, deletedProperties |-> <<>>], {"primaryKey"})
CallServiceMethodRequestProto ==
    Table([classId |-> 0, primaryKey |-> Null, methodId |-> 0, arguments |-> <<>>,
           referencedDataDeltas |-> <<>>], {"primaryKey"})
GetDataRequestProto == Table([classId |-> 0, primaryKey |-> Null], {"primaryKey"})
SaveDataRequestProto == Table([dataDeltas |-> <<>>], {"dataDeltas"})
SubscribeMessageRequestProto ==
    Table([classId |-> 0, sourceType |-> "NONE", source |-> Null], {"source"})
UnsubscribeMessageRequestProto ==
    Table([classId |-> 0, sourceType |-> "NONE", source |-> Null], {"source"})
SubscribeDataUpdatesRequestProto == Table([references |-> <<>>], {"references"})
UnsubscribeDataUpdatesRequestProto == Table([references |-> <<>>], {"references"})
UserRequestProto ==
    Table([protocolVersion |-> 0, logContext |-> Null, workerId |-> 0,
           workerVersion |-> 0, requestType |-> "NONE", request |-> Null],
          {"logContext"})

\* The table of each type of request.
UserRequestUnionProto ==
    [CallServiceMethodRequestProto |-> CallServiceMethodRequestProto,
     GetDataRequestProto |-> GetDataRequestProto,
     SaveDataRequestProto |-> SaveDataRequestProto,
     SubscribeMessageRequestProto |-> SubscribeMessageRequestProto,
     UnsubscribeMessageRequestProto |-> UnsubscribeMessageRequestProto,
     SubscribeDataUpdatesRequestProto |-> SubscribeDataUpdatesRequestProto,
     UnsubscribeDataUpdatesRequestProto |-> UnsubscribeDataUpdatesRequestProto]

\* The table of each type of source of a message.
WorkerReferenceUnionProto ==
    [DataReferenceValueProto |-> DataReferenceValueProto,
     ServiceReferenceValueProto |-> ServiceReferenceValueProto]

-----------------------------------------------------------------------------
(* Responses.                                                              *)

ErrorCodeResponseProto == Table([errorCode |-> 0], {})
ExceptionResponseProto == Table([stack |-> Null, message |-> Null], {})
CallServiceMethodResponseProto == Table([returnValue |-> Null], {})
NestedDataProto ==
    Table([classId |-> 0, objectVersion |-> 0, primaryKey |-> Null,
           deleted |-> FALSE, properties |-> <<>>], {"primaryKey"})
GetDataResponseProto == Table([data |-> <<>>], {})
DataHandleProto ==
    Table([classId |-> 0, objectVersion |-> 0, primaryKey |-> Null], {"primaryKey"})
SaveDataResponseProto == Table([handles |-> <<>>], {"handles"})
SubscribeMessageResponseProto == Table([none \in {} |-> Null], {})
UnsubscribeMessageResponseProto == Table([none \in {} |-> Null], {})
SubscribeDataUpdatesResponseProto == Table([none \in {} |-> Null], {})
UnsubscribeDataUpdatesResponseProto == Table([none \in {} |-> Null], {})

\* The table of each type of response.
UserResponseUnionProto ==
    [ErrorCodeResponseProto |-> ErrorCodeResponseProto,
     ExceptionResponseProto |-> ExceptionResponseProto,
     CallServiceMethodResponseProto |-> CallServiceMethodResponseProto,
     GetDataResponseProto |-> GetDataResponseProto,
     SaveDataResponseProto |-> SaveDataResponseProto,
     SubscribeMessageResponseProto |-> SubscribeMessageResponseProto,
     UnsubscribeMessageResponseProto |-> UnsubscribeMessageResponseProto,
     SubscribeDataUpdatesResponseProto |-> SubscribeDataUpdatesResponseProto,
     UnsubscribeDataUpdatesResponseProto |-> UnsubscribeDataUpdatesResponseProto]

UserResponseUnionWrapperProto == Table([valueType |-> "NONE", value |-> Null], {})
UserResponseUnionWrapperBytesProto == Table([bytes |-> Null], {})
ConsoleLogMessageProto == Table([message |-> Null, error |-> FALSE], {"message"})
ConsoleLogProto == Table([messages |-> <<>>], {})
ConsoleLogBytesProto == Table([bytes |-> Null], {})
RiverUserResponseProto ==
    Table([response |-> Null, messages |-> <<>>, consoleLog |-> Null], {})

-----------------------------------------------------------------------------
(* Messages.                                                               *)

DataDeltaProto ==
    Table([classId |-> 0, objectVersion |-> 0, primaryKey |-> Null,
           deleted |-> FALSE, properties |-> <<>>, deletedProperties |-> <<>>],
          {"primaryKey"})
DataDeltaBytesProto == Table([bytes |-> Null], {})
DataUpdateMessageProto == Table([deltas |-> <<>>], {"deltas"})
MessageProto ==
    Table([classId |-> 0, sourceType |-> "NONE", source |-> Null,
           properties |-> <<>>, referencedDataHandles |-> <<>>], {"source"})
MessageBytesProto == Table([bytes |-> Null], {})
MessageMessageProto == Table([event |-> Null, deltas |-> <<>>], {"event"})

\* The table of each type of message.
UserMessageUnionProto ==
    [DataUpdateMessageProto |-> DataUpdateMessageProto,
     MessageMessageProto |-> MessageMessageProto]

UserMessageUnionWrapperProto == Table([valueType |-> "NONE", value |-> Null], {})
UserMessageUnionWrapperBytesProto == Table([bytes |-> Null], {})
RiverUserMessageProto ==
    Table([logContext |-> Null, workerId |-> 0, workerVersion |-> 0,
           message |-> Null], {"logContext"})

=============================================================================
