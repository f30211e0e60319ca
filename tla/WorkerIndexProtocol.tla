------------------------ MODULE WorkerIndexProtocol ------------------------
(***************************************************************************)
(* The FlatBuffers tables of a worker's index (tools/src/protocol): what   *)
(* Jayne writes when a worker is deployed, keeps, gives to Serenity and    *)
(* hands to "estate worker connect", which generates a client from it.     *)
(* Tables, defaults and required fields are those of RiverProtocol.        *)
(***************************************************************************)
EXTENDS RiverProtocol

MethodKindProto == {"Normal", "Getter", "Setter"}

MethodArgumentProto == Table([name |-> Null, type |-> Null], {"name", "type"})

MethodProto ==
    Table([methodName |-> Null, methodKind |-> "Normal", arguments |-> <<>>,
           returnType |-> Null], {"methodName"})

ConstructorProto == Table([arguments |-> <<>>], {})

FreeFunctionProto ==
    Table([sourceCode |-> Null, functionName |-> Null, arguments |-> <<>>,
           returnType |-> Null], {"sourceCode"})

FreeClassProto ==
    Table([ctor |-> Null, sourceCode |-> Null, className |-> Null, methods |-> <<>>],
          {"ctor", "sourceCode"})

DataClassProto ==
    Table([classId |-> 0, className |-> Null, sourceCode |-> Null, fileNameId |-> 0,
           ctor |-> Null, methods |-> <<>>], {"className", "sourceCode", "ctor"})

MessageClassProto ==
    Table([classId |-> 0, className |-> Null, sourceCode |-> Null, fileNameId |-> 0,
           ctor |-> Null, methods |-> <<>>], {"className", "sourceCode", "ctor"})

ServiceMethodProto ==
    Table([methodId |-> 0, methodName |-> Null, arguments |-> <<>>, returnType |-> Null],
          {"methodName"})

ServiceClassProto ==
    Table([classId |-> 0, className |-> Null, fileNameId |-> 0, methods |-> <<>>],
          {"className", "methods"})

WorkerFileNameProto == Table([fileNameId |-> 0, fileName |-> Null], {"fileName"})

WorkerIndexProto ==
    Table([isDebug |-> FALSE, workerId |-> 0, workerVersion |-> 0, workerName |-> Null,
           fileNames |-> <<>>, workerLanguage |-> 0, freeFunctions |-> <<>>,
           freeClasses |-> <<>>, serviceClasses |-> <<>>, dataClasses |-> <<>>,
           messageClasses |-> <<>>], {"workerName", "fileNames"})

=============================================================================
