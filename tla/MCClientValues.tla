---------------------------- MODULE MCClientValues ----------------------------
(* A small instance of ClientValues for TLC: all values of depth two over a *)
(* few leaves, heaps of three Data that refer to each other in chains and   *)
(* cycles, and responses of every kind.                                     *)
EXTENDS ClientValues, TLC

CONSTANTS one, text, empty   \* a number that is not 0, and strings

MCWorker == [id |-> 1, version |-> 2]
Other == [id |-> 1, version |-> 3]

Data(w, c, k) == [is |-> "Data", worker |-> w, classId |-> c, primaryKey |-> k]
d1 == Data(MCWorker, 1, "a")
d2 == Data(MCWorker, 2, "a")
d3 == Data(MCWorker, 1, "b")
foreign == Data(Other, 1, "a")
service == [is |-> "Service", worker |-> MCWorker, classId |-> 3, primaryKey |-> "s"]
otherService == [service EXCEPT !.worker = Other]

Number(n) == [is |-> "number", number |-> n]
Text(t) == [is |-> "string", string |-> t]
Boxed(v) == [is |-> "boxed", primitive |-> v]
Bool(b) == [is |-> "boolean", boolean |-> b]

Leaves ==
    {Number(0), Number(one), Number(NegativeZero), Boxed(Number(one)), Text(empty), Text(text),
     Boxed(Text(text)), Bool(FALSE), Bool(TRUE), [is |-> "undefined"], [is |-> "null"],
     [is |-> "Date", time |-> 0], d1, d2, service, otherService, [is |-> "Message"],
     [is |-> "function"]}
Few == {Number(one), Boxed(Number(one)), Text(text), d1, d2}

Array(s) == [is |-> "Array", items |-> s]
Set(s) == [is |-> "Set", items |-> s]
Map(s) == [is |-> "Map", items |-> s]
Object(s) == [is |-> "object", properties |-> s]
Pair(k, v) == [key |-> k, value |-> v]
Named(n, v) == [name |-> n, value |-> v]

Lists(S) == {<<>>} \cup {<<x>> : x \in S} \cup {<<x, y>> : x, y \in S}
Distinct(S) == {s \in Lists(S) : IsInjective(s)}

Containers ==
    {Array(s) : s \in Lists(Leaves)} \cup {Set(s) : s \in Distinct(Leaves)}
      \cup {Map(<<Pair(k, v)>>) : k, v \in Leaves}
      \cup {Map(<<Pair(k, v), Pair(l, w)>>) : <<k, l>> \in {s \in Few \X Few : s[1] # s[2]},
                                              v, w \in Few}
      \cup {Object(<<Named(n, v)>>) : n \in {"", "p"}, v \in Leaves}
      \cup {Object(<<Named("p", v), Named("q", w)>>) : v, w \in Few}
Nested == {Object(<<Named("p", v)>>) : v \in Containers}
MCLayers == <<Leaves \cup {d3, foreign}, Containers \cup {Array(<<d3, d1>>)}, Nested>>

CallOf(args) == [op |-> "CallServiceMethod", source |-> service, methodId |-> 4, args |-> args]
MCCalls ==
    {CallOf(<<v>>) : v \in Leaves \cup Containers \cup Nested}
      \cup {CallOf(s) : s \in Lists({d1, d3, Number(0)})}
      \cup {[op |-> "SaveData", data |-> s] : s \in Lists({d1, d2, foreign}) \ {<<>>}}
      \cup {[op |-> "GetData", source |-> d1]}
      \cup {[op |-> o, source |-> x, messageClassId |-> 5] :
              o \in {"SubscribeMessage", "UnsubscribeMessage"}, x \in {d1, service}}
      \cup {[op |-> o, data |-> s] :
              o \in {"SubscribeDataUpdates", "UnsubscribeDataUpdates"},
              s \in {<<d1>>, <<d1, d2>>, <<d1, d1>>, <<d1, foreign>>}}

Object3(v, p1) == [version |-> v, properties |-> p1]
MCHeaps ==
    {(d1 :> Object3(0, <<Named("p", x)>>)) @@ (d2 :> Object3(1, <<Named("p", y), Named("q", z)>>))
       @@ (d3 :> Object3(2, <<>>)) @@ (foreign :> Object3(1, <<>>)) :
       x \in {d2, [is |-> "function"]}, y \in {d1},
       z \in {Array(<<d3, d1>>), foreign}}

Delta(v, del, ps) == [classId |-> 1, version |-> v, primaryKey |-> "a", deleted |-> del,
                      properties |-> ps, deletedProperties |-> IF del THEN <<>> ELSE <<"r">>]
Stored(ps) == [classId |-> 1, version |-> 1, primaryKey |-> "a", deleted |-> FALSE,
               properties |-> ps]
Props == {<<>>, <<Named("p", d1), Named("q", Number(0))>>, <<Named("", Number(one))>>}
Update(ps) == [type |-> "DataUpdateMessageProto",
               deltas |-> <<Delta(1, FALSE, ps), Delta(2, TRUE, <<>>)>>]
Event(x, ps) == [type |-> "MessageMessageProto", deltas |-> <<Delta(1, FALSE, ps)>>,
                 classId |-> 5, source |-> x, properties |-> ps]
Messages == {Update(ps) : ps \in Props} \cup {Event(x, ps) : x \in {d1, service}, ps \in Props}

Empty(t) == [type |-> t]
Meanings ==
    {[type |-> "ErrorCodeResponseProto", code |-> c] : c \in {0, 7}}
      \cup {[type |-> "ExceptionResponseProto", stack |-> a, message |-> b] :
              a \in {Null, "", "at"}, b \in {Null, "why"}}
      \cup {[type |-> "CallServiceMethodResponseProto", value |-> d1],
            [type |-> "SaveDataResponseProto",
             handles |-> <<[classId |-> 1, version |-> 1, primaryKey |-> "a"]>>]}
      \cup {[type |-> "GetDataResponseProto", data |-> <<Stored(ps)>>] : ps \in Props}
      \cup {[type |-> o \o "ResponseProto"] :
              o \in {"SubscribeMessage", "UnsubscribeMessage", "SubscribeDataUpdates",
                     "UnsubscribeDataUpdates"}}
MCSays ==
    {m @@ [messages |-> <<>>, log |-> l] :
       m \in Meanings, l \in {<<>>, <<[message |-> "text", error |-> FALSE]>>}}
      \cup {m @@ [messages |-> s, log |-> <<>>] :
              m \in {x \in Meanings : x.type \in {"CallServiceMethodResponseProto",
                       "SaveDataResponseProto", "GetDataResponseProto"}},
              s \in {<<x, y>> : x, y \in Messages}}
MCPushes ==
    {m @@ [worker |-> w] : m \in Messages, w \in {MCWorker, Other, [id |-> 9, version |-> 2]}}

=============================================================================
