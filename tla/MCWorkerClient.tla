----------------------------- MODULE MCWorkerClient -----------------------------
(* A small instance of WorkerClient for TLC: every class with up to two      *)
(* members of ten kinds, members and classes that Jayne's parser stumbles on *)
(* or does not see, every pair of declarations that may share a name, files  *)
(* that are refused, and trees of modules that import each other; two        *)
(* versions of a worker.                                                     *)
EXTENDS WorkerClient

Member(kind, name) ==
    [kind |-> kind, name |-> name, static |-> FALSE, async |-> FALSE, promise |-> FALSE,
     computed |-> FALSE, plain |-> TRUE]
m == Member("method", "m")
n == Member("method", "n")
Members ==
    {m, [m EXCEPT !.static = TRUE], [m EXCEPT !.async = TRUE], [m EXCEPT !.promise = TRUE],
     n, Member("method", "loadAsync"), Member("get", "m"), Member("set", "m"),
     Member("property", "p")}
Computed == [m EXCEPT !.computed = TRUE]
\* Members whose names or parameters are no identifiers, or whose names have no text.
OddMembers ==
    {[x EXCEPT !.plain = FALSE] : x \in {m, Computed, [m EXCEPT !.static = TRUE], Member("get", "m")}}
      \cup {Computed, [Member("method", "loadAsync") EXCEPT !.computed = TRUE]}

Lists(S) == {<<>>} \cup {<<x>> : x \in S} \cup {<<x, y>> : x, y \in S}

Class(name, base, ctor, members) ==
    [is |-> "class", name |-> name, byDefault |-> FALSE, base |-> base, ctor |-> ctor,
     members |-> members]
Function(name) == [is |-> "function", name |-> name, byDefault |-> FALSE, plain |-> TRUE]
ByDefault(declaration) == [declaration EXCEPT !.byDefault = TRUE]

Plain == Class("A", "Service", "good", <<m>>)
Other == Class("B", "Data", "bad", <<Member("get", "m"), Member("set", "m")>>)

File(d, name, ext, imports, decls) ==
    [dir |-> d, name |-> name, ext |-> ext, imports |-> imports, decls |-> decls,
     text |-> "code"]
One(decls) == <<File(<<"w">>, "main", ".ts", <<>>, decls)>>
More(decls) == <<File(<<"w", "sub">>, "more", ".ts", <<>>, decls)>>

OneClass ==
    {One(<<Class("A", base, ctor, ms)>>) :
       base \in Bases \cup {"B"}, ctor \in {Null, "bad", "good"}, ms \in Lists(Members)}
OddClass ==
    {One(<<Class("A", base, ctor, ms)>>) :
       base \in Bases \cup {"B", Expression}, ctor \in {"good", "odd"},
       ms \in {<<x>> : x \in OddMembers} \cup {<<m, x>> : x \in OddMembers}}
ThreeMembers ==
    {One(<<Class("A", "Service", "good", <<x, y, z>>)>>) :
       x, y, z \in {m, n, [m EXCEPT !.static = TRUE], Computed}}
Declarations == {Plain, Other, Class("A", "Message", "bad", <<n>>), Class("C", "B", "bad", <<m>>),
                 Function("A"), Function("f"), [Function("g") EXCEPT !.plain = FALSE]}
\* A default export breaks what rules it may: the one for all classes, or others.
Defaults ==
    {ByDefault(d) : d \in Declarations \cup
       {Class("A", base, Null, <<x>>) :
          base \in {"Service", "Data", Expression},
          x \in {m, Computed, Member("get", "m"), [m EXCEPT !.promise = TRUE]}}}
TwoDeclarations ==
    {One(<<x, y>>) : x, y \in Declarations}
      \cup {One(<<x>>) \o More(<<y>>) : x, y \in Declarations}
      \cup {One(<<x>>) \o More(<<y>>) : x \in {Plain, ByDefault(Plain)}, y \in Defaults}
Texts ==
    {One(<<Plain>>) \o <<[More(<<>>)[1] EXCEPT !.text = t]>> : t \in {"code", "empty", "barred"}}
      \cup {<<[One(<<x>>)[1] EXCEPT !.text = "barred"]>> : x \in {Plain, ByDefault(Plain)}}

Import(steps) == [steps |-> steps, ext |-> FALSE]
Imports ==
    <<Import(<<".", "sub">>), Import(<<".", "sub", "index">>), Import(<<".", "sub", "a">>),
      Import(<<"..", "main">>), Import(<<"..">>), Import(<<".">>), Import(<<".", "a">>),
      Import(<<"..", "sub", "a">>), Import(<<"worker-runtime">>), Import(<<".", "types">>),
      Import(<<"..", "worker-runtime-more">>), Import(<<"..", "deep", "more">>),
      [steps |-> <<".", "a">>, ext |-> TRUE]>>
Trees ==
    {<<File(<<"w">>, x, ".ts", SubSeq(Imports, 1, 3) \o SubSeq(Imports, 9, 10), <<>>),
       File(<<"w">>, "types", ".d.ts", <<>>, <<>>),
       File(<<"w">>, "worker-runtime-more", ".ts", <<>>, <<>>),
       File(<<"w", "deep">>, "more", ".ts", <<Import(<<"..", "sub">>)>>, <<>>),
       File(<<"w", "sub">>, y, ".ts", Imports, <<Plain>>)>> \o rest :
       x \in {"index", "main"}, y \in {"index", "a"},
       rest \in {<<>>, <<File(<<"w", "sub">>, "a", ".mjs", <<>>, <<Other>>)>>,
                 <<File(<<"w", "sub">>, "index", ".js", <<>>, <<Other>>)>>}}

MCPrograms == OneClass \cup ThreeMembers \cup TwoDeclarations \cup Trees
                \cup OddClass \cup Texts
                \cup {<<File(<<"w">>, "types", ".d.ts", <<>>, <<>>)>>}
MCNextPrograms == {One(<<Class("A", "Service", "good", <<n, m>>), Other>>)}

=============================================================================
