----------------------------- MODULE WorkerClient -----------------------------
(***************************************************************************)
(* From the source of a worker to the client that programs import: what    *)
(* "estate worker deploy" compiles (util/compiler.ts, util/transformer.ts),*)
(* what Jayne makes of it (JavaScriptParserServiceImpl.cs,                 *)
(* ProtocolSerializerImpl.cs) and what "estate worker connect" writes into *)
(* the directory of a client (worker-connect.ts, client-generator.ts).     *)
(*                                                                         *)
(* A program is a sequence of modules [dir, name, ext, imports, decls,     *)
(* text]: a path is a sequence of names, an import the steps of its text   *)
(* and whether it ends with an extension.  text is what TypeScript makes   *)
(* of the rest: "code", "empty", or "barred" if it has the prefix of       *)
(* Estate's own names or syntax that Jayne's parser does not know.  A      *)
(* declaration is a class [is, name, byDefault, base, ctor, members] or a  *)
(* function.  It may be its module's default export.  base is what a class *)
(* extends: one of Bases, an Expression, or anything else.  ctor is "good" *)
(* if it has one parameter and passes it to super, Null if there is none,  *)
(* "odd" if a parameter is no identifier, "bad" otherwise.  A member or a  *)
(* function is plain if its name and its parameters are identifiers.       *)
(* TypeScript itself is not modelled: it refuses a program, or emits its   *)
(* declarations as they are.  Who deploys, and what becomes of             *)
(* worker.json, is WorkerDeploy.                                           *)
(***************************************************************************)
EXTENDS WorkerIndexProtocol, Positions, FiniteSets, SequencesExt

CONSTANTS WorkerName,     \* the name of the worker
          Programs,       \* what may be deployed first
          NextPrograms,   \* what may be deployed after it
          MaxVersion,     \* bound: versions of the worker
          AsyncNames,     \* names of members that contain "async"
          RuntimeNames    \* names of files that begin with "worker-runtime"

VARIABLES build,     \* the deployment under way: [pc, program, schema, decl]
          outcome,   \* what became of the last one: [program, cause], Null: none
          jayne,     \* the version that is live: [version, program, index, decl]
          connect,   \* the connection under way: [pc, version, left]
          dir,       \* the files of the generated client: path -> [version, content]
          registry   \* of a running program: [worker, classes], worker Null: none

vars == <<build, outcome, jayne, connect, dir, registry>>

Bases == {"Service", "Data", "Message"}
\* What a class extends that is no identifier.
Expression == "()"
WorkerId == 1
UserMethodIdStart == 100

\* Where Jayne's parser finds the classes or functions of a program, <<module,
\* declaration>>: a default export is a statement of a kind that it skips.
Places(program, is) ==
    {p \in UNION {{i} \X DOMAIN program[i].decls : i \in DOMAIN program} :
       LET d == program[p[1]].decls[p[2]] IN d.is = is /\ ~d.byDefault}

NotAfter(p, q) == p[1] < q[1] \/ (p[1] = q[1] /\ p[2] <= q[2])

InFile(declaration, i) ==
    [x \in DOMAIN declaration \cup {"file"} |-> IF x = "file" THEN i ELSE declaration[x]]

\* They with their files, in order.
Decls(program, is) ==
    LET places == Places(program, is)
        at == Listing([p \in places |-> {q \in places : NotAfter(q, p)}])
    IN  [k \in DOMAIN at |-> InFile(program[at[k][1]].decls[at[k][2]], at[k][1])]
Classes(program) == Decls(program, "class")
Functions(program) == Decls(program, "function")

HasBaseClass(base, class) == class.base = base
IsTypeDef(m) == m.ext = ".d.ts"
IsAccessor(m) == m.kind \in {"get", "set"}

-----------------------------------------------------------------------------
(* What is deployed.                                                       *)

IsSequence(s) == s \in Seq(ToSet(s))

IsMember(m) ==
    /\ DOMAIN m = {"kind", "name", "static", "async", "promise", "computed", "plain"}
    /\ m.kind \in {"method", "get", "set", "property"}
    /\ {m.static, m.async, m.promise, m.computed, m.plain} \subseteq BOOLEAN

IsDeclaration(d) ==
    \/ /\ DOMAIN d = {"is", "name", "byDefault", "plain"} /\ d.is = "function"
       /\ {d.byDefault, d.plain} \subseteq BOOLEAN
    \/ /\ DOMAIN d = {"is", "name", "byDefault", "base", "ctor", "members"} /\ d.is = "class"
       /\ d.byDefault \in BOOLEAN /\ d.ctor \in {Null, "odd", "bad", "good"}
       /\ IsSequence(d.members) /\ \A m \in ToSet(d.members) : IsMember(m)

IsImport(i) == DOMAIN i = {"steps", "ext"} /\ IsSequence(i.steps) /\ i.ext \in BOOLEAN

\* Files are named, and .d.ts files declare types only.
IsFile(m) ==
    /\ DOMAIN m = {"dir", "name", "ext", "imports", "decls", "text"}
    /\ m.text \in {"code", "empty", "barred"}
    /\ IsSequence(m.dir) /\ \A s \in ToSet(m.dir) \cup {m.name} : s \notin {".", ".."}
    /\ IsSequence(m.imports) /\ \A i \in ToSet(m.imports) : IsImport(i)
    /\ IsSequence(m.decls) /\ \A d \in ToSet(m.decls) : IsDeclaration(d)
    /\ IsTypeDef(m) => m.decls = <<>>
    /\ m.text = "empty" => m.imports = <<>> /\ m.decls = <<>>

IsProgram(p) == IsSequence(p) /\ \A m \in ToSet(p) : IsFile(m)

ASSUME ProgramsAssumption == \A p \in Programs \cup NextPrograms : IsProgram(p)

\* Null is no text, no constructor, no source and no reason.
ASSUME NullAssumption ==
    /\ Null \notin {"odd", "bad", "good", "compiler", "typescript", "empty", "malformed", "failure"}
    /\ Create(ConstructorProto, [arguments |-> <<>>]) # Null
    /\ \A p \in Programs \cup NextPrograms : \A m \in ToSet(p) : \A d \in ToSet(m.decls) :
         d.name # Null /\ (d.is = "class" => [base |-> d.base] # Null)

-----------------------------------------------------------------------------
(* Imports.                                                                *)

\* Mutant: the index module of a directory has no special path.
PathOfFile(m) == Append(m.dir, m.name)

\* Module.path: an index module is found under the name of its directory.
ModulePath(m) == IF m.name = "index" THEN m.dir ELSE Append(m.dir, m.name)

StepFrom(at, s) ==
    CASE s = "." -> at [] s = ".." -> Front(at) [] OTHER -> Append(at, s)

Resolve(from, steps) ==
    LET at[i \in 0..Len(steps)] == IF i = 0 THEN from ELSE StepFrom(at[i - 1], steps[i])
    IN  at[Len(steps)]

Relative(from, to) ==
    LET common == Len(LongestCommonPrefix({from, to}))
    IN  [i \in 1..(Len(from) - common) |-> ".."] \o SubSeq(to, common + 1, Len(to))

\* getUpdatedPath: the import as it is staged.  modules is in the order in which
\* the directories were read.
GetUpdatedPath(modules, from, import) ==
    LET res == Resolve(from, import.steps)
        runtime == SelectInSeq(res, LAMBDA s : s \in RuntimeNames)
        found == SelectInSeq(modules, LAMBDA m : ModulePath(m) = res)
    IN  CASE ~import.ext /\ runtime > 0 ->
               [steps |-> SubSeq(res, runtime, Len(res)), ext |-> FALSE]
          [] ~import.ext /\ runtime = 0 /\ found > 0 ->
               IF IsTypeDef(modules[found]) THEN import
               ELSE [steps |-> Append(Relative(from, modules[found].dir), modules[found].name),
                     ext |-> TRUE]
          [] OTHER -> import

-----------------------------------------------------------------------------
(* Compiling.                                                              *)

\* transformTypeScript: no two modules of the same base name.
DuplicateFiles(program) ==
    \E i, j \in DOMAIN program :
      /\ i # j /\ ~IsTypeDef(program[i]) /\ ~IsTypeDef(program[j])
      /\ program[i].dir = program[j].dir /\ program[i].name = program[j].name

\* Mutant: methods that return a Promise are let through.
StageErrorsButPromises(class) ==
    {m \in ToSet(class.members) :
       \/ HasBaseClass("Service", class) /\ IsAccessor(m)
       \/ /\ class.base \in Bases /\ m.kind = "method"
          /\ m.async \/ (m.name \in AsyncNames /\ ~m.computed)}

\* StageTransformer: the members that are not allowed, of any class.  A computed name
\* has no text.
StageErrors(class) ==
    {m \in ToSet(class.members) :
       \/ HasBaseClass("Service", class) /\ IsAccessor(m)
       \/ /\ class.base \in Bases /\ m.kind = "method"
          /\ m.async \/ m.promise \/ (m.name \in AsyncNames /\ ~m.computed)}

StageTransformer(program) ==
    [i \in DOMAIN program |->
       [program[i] EXCEPT
          !.imports = [j \in DOMAIN program[i].imports |->
             GetUpdatedPath(program, program[i].dir, program[i].imports[j])]]]

ClassesAsWritten(program) ==
    {d \in UNION {ToSet(program[i].decls) : i \in DOMAIN program} : d.is = "class"}

\* Every class of a program with the members that a function gives it.
WithMembers(program, members) ==
    [i \in DOMAIN program |->
       [program[i] EXCEPT
          !.decls = [j \in DOMAIN program[i].decls |->
             LET d == program[i].decls[j]
             IN  IF d.is = "class" THEN [d EXCEPT !.members = members[d]] ELSE d]]]

\* JavaScriptWorkerExecutionTransformer: what runs in the worker has no
\* property declarations (nor what they assign), and no async in services.
WorkerMembers(class) ==
    LET methods == Select(class.members, LAMBDA m : m.kind # "property")
    IN  [i \in DOMAIN methods |->
           [methods[i] EXCEPT !.async = @ /\ ~HasBaseClass("Service", class)]]

Async(name) == name \o "Async"

\* Mutant: the methods of services keep their names.
ClientMembersAsTheyAre(class) ==
    IF HasBaseClass("Service", class)
    THEN Select(class.members, LAMBDA m : m.kind # "property")
    ELSE class.members

\* ClientDeclTransformer: what the client declares.  A computed name has no text.
ClientMembers(class) ==
    IF ~HasBaseClass("Service", class) THEN class.members
    ELSE LET methods == Select(class.members, LAMBDA m : m.kind # "property")
         IN  [i \in DOMAIN methods |->
                [methods[i] EXCEPT !.name = Async(IF methods[i].computed THEN "undefined" ELSE @),
                                   !.promise = TRUE]]

Idle == [pc |-> "idle", program |-> Null, schema |-> Null, decl |-> Null]

Finish(cause) == outcome' = [program |-> build.program, cause |-> cause] /\ build' = Idle

\* stageForCompilation, into .build, which is made anew.
Stage(program) ==
    /\ build.pc = "idle" /\ outcome = Null /\ jayne.version < MaxVersion
    /\ IF \/ DuplicateFiles(program)
          \/ \E c \in ClassesAsWritten(program) : StageErrors(c) # {}
       THEN outcome' = [program |-> program, cause |-> "compiler"] /\ build' = Idle
       ELSE /\ build' = [Idle EXCEPT !.pc = "staged", !.program = program,
                                     !.schema = StageTransformer(program)]
            /\ UNCHANGED outcome
    /\ UNCHANGED <<jayne, connect, dir, registry>>

\* getWorkerFileContent: the files that are deployed.
SchemaFiles(program) == Select(program, LAMBDA m : ~IsTypeDef(m))

\* It throws for a file that has nothing in it.
EmptyFiles(code) == {m \in ToSet(code) : m.text = "empty"}

\* compileTypeScript and the two transformations after it.
Compile ==
    /\ build.pc = "staged"
    /\ \/ Finish("typescript")
       \/ LET code == SchemaFiles(build.schema)
          IN  IF code = <<>> \/ EmptyFiles(code) # {} THEN Finish("empty")
              ELSE /\ build' = [build EXCEPT
                        !.pc = "compiled",
                        !.schema = WithMembers(code,
                           [c \in ClassesAsWritten(code) |-> WorkerMembers(c)]),
                        !.decl = WithMembers(build.schema,
                           [c \in ClassesAsWritten(build.schema) |-> ClientMembers(c)])]
                   /\ UNCHANGED outcome
    /\ UNCHANGED <<jayne, connect, dir, registry>>

-----------------------------------------------------------------------------
(* Jayne: the index of a worker.                                           *)

\* ParseClassMetadata: a name is used twice in the same way, or by an
\* accessor after a method.
DuplicateMethods(class) ==
    \E i, j \in DOMAIN class.members :
      LET a == class.members[i] b == class.members[j]
      IN  /\ i < j /\ a.name = b.name /\ a.kind # "property"
          /\ a.kind = b.kind \/ (IsAccessor(b) /\ a.kind = "method")

Called(class) == Select(class.members, LAMBDA m : ~m.static /\ ~m.computed)

\* The methods and accessors of a class that the parser reads: of its compiled
\* form there are no others.
Parsed(class) ==
    IF HasBaseClass("Service", class) THEN ToSet(Called(class)) ELSE ToSet(class.members)

\* ParseWorkerCode: what makes code bad, or makes the parser fail because it takes
\* for an identifier what is none.
BadClass(class) ==
    \/ class.base = Expression \/ \E m \in Parsed(class) : ~m.plain
    \/ /\ HasBaseClass("Service", class)
       /\ \/ class.ctor # "good" \/ Called(class) = <<>>
          \/ \E m \in ToSet(Called(class)) : IsAccessor(m)
    \/ HasBaseClass("Data", class) /\ class.ctor = Null
    \/ ~HasBaseClass("Service", class) /\ (class.ctor = "odd" \/ DuplicateMethods(class))

NamesAreTaken(decls) ==
    \E i, j \in DOMAIN decls : i # j /\ decls[i].name = decls[j].name

BadCode(program) ==
    \/ NamesAreTaken(Classes(program)) \/ NamesAreTaken(Functions(program))
    \/ \E c \in ToSet(Classes(program)) : BadClass(c)
    \/ \E f \in ToSet(Functions(program)) : ~f.plain
    \/ \E m \in ToSet(program) : m.text = "barred"

\* getClassId: a class keeps its id, a new one gets the next.
ClassIds(names) ==
    LET new == {i \in DOMAIN names : names[i] \notin DOMAIN jayne.ids}
    IN  [n \in ToSet(names) |->
           IF n \in DOMAIN jayne.ids THEN jayne.ids[n]
           ELSE jayne.last + Cardinality({i \in new : \E j \in DOMAIN names : i <= j /\ names[j] = n})]

Constructor(class) == IF class.ctor = Null THEN Null ELSE Create(ConstructorProto, [arguments |-> <<>>])

MethodOf(m) ==
    Create(MethodProto, [methodName |-> m.name, arguments |-> <<>>, returnType |-> "any",
                         methodKind |-> CASE m.kind = "get" -> "Getter"
                                          [] m.kind = "set" -> "Setter"
                                          [] OTHER -> "Normal"])

\* A table of a class that is not a service, before it is written.  Of its source
\* the model keeps what it extends.
ClassTable(class, ids) ==
    LET table == [className |-> class.name, sourceCode |-> [base |-> class.base],
                  ctor |-> Constructor(class),
                  methods |-> [i \in DOMAIN class.members |-> MethodOf(class.members[i])]]
    IN  IF class.base \in Bases
        THEN [f \in DOMAIN table \cup {"classId", "fileNameId"} |->
                CASE f = "classId" -> ids[class.name]
                  [] f = "fileNameId" -> class.file
                  [] OTHER -> table[f]]
        ELSE table

ServiceMethod(class, i) ==
    Create(ServiceMethodProto,
        [methodId |-> UserMethodIdStart + i - 1, methodName |-> Called(class)[i].name,
         arguments |-> <<>>, returnType |-> "any"])

ServiceTable(class, ids) ==
    [classId |-> ids[class.name], className |-> class.name, fileNameId |-> class.file,
     methods |-> [i \in DOMAIN Called(class) |-> ServiceMethod(class, i)]]

ClassesOf(program, base) ==
    Select(Classes(program),
              LAMBDA c : c.base = base \/ (base = "none" /\ c.base \notin Bases))

ManagedNames(program) ==
    LET managed == Select(Classes(program), LAMBDA c : c.base \in Bases)
    IN  [i \in DOMAIN managed |-> managed[i].name]

Tables(classes, ids) == [i \in DOMAIN classes |-> ClassTable(classes[i], ids)]

\* SerializeWorkerIndex throws if a required field is not there.
CanSerialize(program, ids) ==
    \A kind \in {<<FreeClassProto, "none">>, <<DataClassProto, "Data">>,
                 <<MessageClassProto, "Message">>} :
      \A table \in ToSet(Tables(ClassesOf(program, kind[2]), ids)) : CanCreate(kind[1], table)

SerializeWorkerIndex(program, version, ids) ==
    LET service == ClassesOf(program, "Service")
        function == Functions(program)
        Written(schema, base) ==
          LET tables == Tables(ClassesOf(program, base), ids)
          IN  [i \in DOMAIN tables |-> Create(schema, tables[i])]
    IN  Create(WorkerIndexProto,
          [isDebug |-> TRUE, workerId |-> WorkerId, workerVersion |-> version,
           workerName |-> WorkerName, workerLanguage |-> 0,
           fileNames |-> [i \in DOMAIN program |->
              Create(WorkerFileNameProto, [fileNameId |-> i, fileName |-> program[i].name])],
           freeFunctions |-> [i \in DOMAIN function |->
              Create(FreeFunctionProto, [sourceCode |-> function[i], arguments |-> <<>>,
                 functionName |-> function[i].name, returnType |-> "any"])],
           freeClasses |-> Written(FreeClassProto, "none"),
           serviceClasses |-> [i \in DOMAIN service |->
              Create(ServiceClassProto, ServiceTable(service[i], ids))],
           dataClasses |-> Written(DataClassProto, "Data"),
           messageClasses |-> Written(MessageClassProto, "Message")])

\* UpdateWorkerAsync and CreateWorkerAsync, as far as the code is concerned.
Deploy ==
    /\ build.pc = "compiled"
    /\ IF BadCode(build.schema) THEN Finish("malformed") /\ UNCHANGED jayne
       ELSE LET ids == ClassIds(ManagedNames(build.schema))
                index == SerializeWorkerIndex(build.schema, jayne.version + 1, ids)
            IN  IF ~CanSerialize(build.schema, ids) THEN Finish("failure") /\ UNCHANGED jayne
                ELSE /\ jayne' = [version |-> jayne.version + 1, program |-> build.program,
                                  index |-> index, decl |-> build.decl, ids |-> ids,
                                  last |-> Max({jayne.last} \cup {ids[n] : n \in DOMAIN ids})]
                     /\ Finish(Null)
    /\ UNCHANGED <<connect, dir, registry>>

\* The developer has read what became of the deployment.
Again == outcome # Null /\ outcome' = Null /\ UNCHANGED <<build, jayne, connect, dir, registry>>

-----------------------------------------------------------------------------
(* The generated client.                                                   *)

IndexFiles == {<<"cjs", "index.js">>, <<"esm", "index.js">>}

\* A field of a table of the index.
Field(schema, tables, f) == [i \in DOMAIN tables |-> Read(schema, tables[i], f)]

\* generateClient: every field it needs must be there.
Readable(index) ==
    LET Of(f) == Read(WorkerIndexProto, index, f)
        Has(schema, tables, f, absent) ==
          \A i \in DOMAIN tables : Field(schema, tables, f)[i] # absent
    IN  /\ Of("workerName") # Null /\ Of("workerId") # 0 /\ Of("workerVersion") # 0
        /\ \A f \in {"sourceCode", "functionName"} : Has(FreeFunctionProto, Of("freeFunctions"), f, Null)
        /\ \A f \in {"sourceCode", "className"} : Has(FreeClassProto, Of("freeClasses"), f, Null)
        /\ Has(DataClassProto, Of("dataClasses"), "classId", 0)
        /\ Has(MessageClassProto, Of("messageClasses"), "classId", 0)
        /\ Has(ServiceClassProto, Of("serviceClasses"), "classId", 0)

\* A class of the client: the last of the methods of a name is the one called.
ServiceClass(table) ==
    LET methods == Read(ServiceClassProto, table, "methods")
        names == Field(ServiceMethodProto, methods, "methodName")
    IN  [classId |-> Read(ServiceClassProto, table, "classId"),
         calls |-> [n \in {Async(names[i]) : i \in DOMAIN names} |->
            Read(ServiceMethodProto,
                 methods[Max({i \in DOMAIN names : Async(names[i]) = n})], "methodId")]]

WorkerKey(index) ==
    [workerId |-> Read(WorkerIndexProto, index, "workerId"),
     workerVersion |-> Read(WorkerIndexProto, index, "workerVersion")]

\* What registerData, registerMessage and registerService get for the classes of
\* one kind: their key and name.
Registrations(index, kind, schema, tables) ==
    [i \in DOMAIN tables |->
       [name |-> Read(schema, tables[i], "className"), base |-> kind,
        key |-> [kind |-> kind, workerKey |-> WorkerKey(index),
                 classId |-> Read(schema, tables[i], "classId")]]]

\* Classes that belong to the client only, with what they extend.
FreeClasses(tables) ==
    [i \in DOMAIN tables |->
       [name |-> Read(FreeClassProto, tables[i], "className"), key |-> Null,
        base |-> Read(FreeClassProto, tables[i], "sourceCode").base]]

\* What index.js exports, declares in order, and registers.  What belongs to the
\* client only is exported by the CommonJS client, not by the other one.
GenerateClient(index, isEsm) ==
    LET Of(f) == Read(WorkerIndexProto, index, f)
        functions == Field(FreeFunctionProto, Of("freeFunctions"), "functionName")
        free == FreeClasses(Of("freeClasses"))
        services == Of("serviceClasses")
        registered == Registrations(index, "Data", DataClassProto, Of("dataClasses"))
                        \o Registrations(index, "Message", MessageClassProto, Of("messageClasses"))
                        \o Registrations(index, "Service", ServiceClassProto, services)
        NamesOf(classes) == {classes[i].name : i \in DOMAIN classes}
    IN  [worker |-> WorkerKey(index), functions |-> functions, classes |-> free \o registered,
         exports |-> NamesOf(registered)
            \cup IF isEsm THEN {} ELSE ToSet(functions) \cup NamesOf(free),
         services |-> [n \in ToSet(Field(ServiceClassProto, services, "className")) |->
            ServiceClass(services[SelectInSeq(services,
                           LAMBDA t : Read(ServiceClassProto, t, "className") = n)])]]

\* createClient's files in the order in which they are written, then those of
\* writeTypeDefinitions.  ".d.ts" ends a name.
Files(index, decl) ==
    [i \in 1..5 |->
       LET file == (<<<<"package.json">>, <<"cjs", "package.json">>, <<"cjs", "index.js">>,
                     <<"esm", "package.json">>, <<"esm", "index.js">>>>)[i]
       IN  [file |-> file, content |-> IF file \in IndexFiles
                                       THEN GenerateClient(index, file[1] = "esm") ELSE Null]]
    \o [i \in DOMAIN decl |->
          [file |-> decl[i].dir \o <<decl[i].name, ".d.ts">>, content |-> decl[i]]]

NotConnecting == [pc |-> "idle", version |-> 0, left |-> <<>>]

\* getWorkerConnectionInfoAsync, then createClient: both clients are generated
\* before a file is touched.
Ask ==
    /\ connect.pc = "idle" /\ jayne.version > 0 /\ Readable(jayne.index)
    /\ connect' = [pc |-> "remove", version |-> jayne.version,
                   left |-> Files(jayne.index, jayne.decl)]
    /\ UNCHANGED <<build, outcome, jayne, dir, registry>>

\* Mutant: files are written over those of the client that is there.
RemoveNoFile ==
    /\ connect.pc = "remove"
    /\ connect' = [connect EXCEPT !.pc = "write"]
    /\ UNCHANGED <<build, outcome, jayne, dir, registry>>

\* rmSync of the client that is there, a file at a time (in some order), then
\* mkdirSync.
RemoveFile ==
    /\ connect.pc = "remove"
    /\ IF DOMAIN dir = {} THEN connect' = [connect EXCEPT !.pc = "write"] /\ UNCHANGED dir
       ELSE LET f == CHOOSE x \in DOMAIN dir : TRUE
            IN  dir' = [g \in DOMAIN dir \ {f} |-> dir[g]] /\ UNCHANGED connect
    /\ UNCHANGED <<build, outcome, jayne, registry>>

Write ==
    /\ connect.pc = "write"
    /\ IF connect.left = <<>> THEN connect' = NotConnecting /\ UNCHANGED dir
       ELSE LET w == Head(connect.left)
            IN  /\ dir' = [f \in DOMAIN dir \cup {w.file} |->
                             IF f = w.file THEN [version |-> connect.version, content |-> w.content]
                             ELSE dir[f]]
                /\ connect' = [connect EXCEPT !.left = Tail(@)]
    /\ UNCHANGED <<build, outcome, jayne, registry>>

\* The command is interrupted, or fails to write.
Kill ==
    /\ connect.pc # "idle"
    /\ connect' = NotConnecting
    /\ UNCHANGED <<build, outcome, jayne, dir, registry>>

-----------------------------------------------------------------------------
(* A program that uses the client.  The client library has a registry for    *)
(* each of the two kinds of modules: this is the one the program uses.       *)

NoRegistry == [worker |-> Null, classes |-> {}]

\* Two declarations of one name are no module at all.
IsModule(content) ==
    /\ \A i \in DOMAIN content.classes : content.classes[i].name \notin ToSet(content.functions)
    /\ ~NamesAreTaken(content.classes)

\* The classes are declared and registered in order, up to the first that
\* extends one which comes later or whose key is registered already.
Registered(classes) ==
    LET Fails(i) ==
          \/ \E j \in i..Len(classes) : classes[j].name = classes[i].base
          \/ \E j \in 1..(i - 1) : classes[j].key = classes[i].key /\ classes[i].key # Null
    IN  {classes[i] : i \in {j \in DOMAIN classes :
                                classes[j].key # Null /\ \A k \in 1..j : ~Fails(k)}}

\* Mutant: a worker that is registered is registered again, in another version.
RegisterAnew(workerKey, classes) ==
    registry' = [worker |-> workerKey, classes |-> registry.classes \cup classes]

\* WorkerRegistry.register throws for a worker that is registered, in whatever
\* version; a module that throws does not go on to its classes.
Register(workerKey, classes) ==
    registry' = IF registry.worker = Null THEN [worker |-> workerKey, classes |-> classes]
                ELSE registry

\* The program loads the client, or what reloads changed modules does so again.
Load(f) ==
    /\ f \in DOMAIN dir
    /\ IF IsModule(dir[f].content)
       THEN Register(dir[f].content.worker, Registered(dir[f].content.classes))
       ELSE UNCHANGED registry
    /\ UNCHANGED <<build, outcome, jayne, connect, dir>>

\* The program starts anew.
Restart ==
    /\ registry' = NoRegistry
    /\ UNCHANGED <<build, outcome, jayne, connect, dir>>

-----------------------------------------------------------------------------
Init ==
    /\ build = Idle /\ outcome = Null
    /\ jayne = [version |-> 0, program |-> <<>>, index |-> Null, decl |-> <<>>,
                ids |-> [n \in {} |-> 0], last |-> 0]
    /\ connect = NotConnecting
    /\ dir = [f \in {} |-> Null]
    /\ registry = NoRegistry

Next ==
    \/ \E p \in IF jayne.version = 0 THEN Programs ELSE NextPrograms : Stage(p)
    \/ Compile \/ Deploy \/ Again \/ Ask \/ RemoveFile \/ Write \/ Kill
    \/ (\E f \in IndexFiles : Load(f)) \/ Restart

Spec == Init /\ [][Next]_vars

-----------------------------------------------------------------------------
(* Properties.                                                             *)

\* What the compiler asks of every class.
IsAllowed(class) ==
    \A m \in ToSet(class.members) :
      /\ class.base = "Service" => ~IsAccessor(m)
      /\ class.base \in Bases /\ m.kind = "method" =>
           ~m.async /\ ~m.promise /\ (m.computed \/ m.name \notin AsyncNames)

\* What Jayne asks of a class that it finds.
IsProper(class) ==
    LET methods == {m \in ToSet(class.members) : m.kind # "property"}
        called == {m \in methods : ~m.static /\ ~m.computed}
    IN  /\ class.base # Expression /\ class.ctor # Null
        /\ IF class.base = "Service"
           THEN class.ctor = "good" /\ called # {} /\ \A m \in called : m.plain
           ELSE class.ctor # "odd" /\ ~DuplicateMethods(class) /\ \A m \in methods : m.plain

\* What is asked of a program.
IsValid(program) ==
    LET code == SchemaFiles(program)
    IN  /\ code # <<>> /\ \A m \in ToSet(code) : m.text = "code"
        /\ ~DuplicateFiles(program)
        /\ \A c \in ClassesAsWritten(program) : IsAllowed(c)
        /\ \A c \in ToSet(Classes(program)) : IsProper(c)
        /\ \A f \in ToSet(Functions(program)) : f.plain
        /\ \A decls \in {Classes(program), Functions(program)} :
             Cardinality({decls[i].name : i \in DOMAIN decls}) = Len(decls)

\* A worker is deployed exactly if its source keeps the rules for all classes
\* (IsAllowed) and those for the classes and functions that are no default export
\* (IsProper), whichever of the compiler, the parser and the serializer looks after
\* each of them; that TypeScript refuses it is left aside.  A class that is not a
\* service needs a constructor: for a Data the parser asks for it, for all others
\* it is the serializer that fails without it.  Nothing but IsAllowed is asked of a
\* default export, which is deployed without being parsed.
RefusedForCause ==
    outcome # Null /\ outcome.cause # "typescript" => (outcome.cause = Null <=> IsValid(outcome.program))

\* The module an import names: TypeScript looks for the file, or for the index
\* of the directory.  There is at most one, unless both are there.
Targets(program, from, steps) ==
    {t \in ToSet(program) : LET res == Resolve(from, steps)
                            IN  res = Append(t.dir, t.name) \/ (t.name = "index" /\ res = t.dir)}

\* The paths that the compiler leaves in import declarations lead, from the
\* directory of the importing module, to the very file that the imported module
\* is compiled to: a worker process takes the path without its extension and does
\* not look for an index.  (If a name in the path begins with worker-runtime, it
\* is taken for the runtime.)
ImportsReachTheirModule ==
    build.pc = "staged" =>
      \A i \in DOMAIN build.program : \A j \in DOMAIN build.program[i].imports :
        LET m == build.program[i]
            targets == Targets(build.program, m.dir, m.imports[j].steps)
            updated == build.schema[i].imports[j]
        IN  /\ ~m.imports[j].ext
            /\ \A s \in ToSet(Resolve(m.dir, m.imports[j].steps)) : s \notin RuntimeNames
            =>  \A t \in targets : ~IsTypeDef(t) /\ Cardinality(targets) = 1 =>
                  Resolve(m.dir, updated.steps) = Append(t.dir, t.name)

\* If the type definitions of a client say that a service has a method, the
\* program may call it: index.js has it, and as long as that version is live the
\* id it sends is, in the worker's index, the id of the method the declaration
\* was made from, which every instance of the class has.  The exception is a
\* service that its module exports as its default: it is declared like any other,
\* but index.js has it only if there is another class of its name.
ClientCallsWorker ==
    \A f \in IndexFiles \cap DOMAIN dir :
      \A g \in {h \in DOMAIN dir \ IndexFiles : dir[h].content # Null} :
        \A c \in {d \in ToSet(dir[g].content.decls) : d.is = "class"} : \A m \in ToSet(c.members) :
        (/\ dir[g].version = dir[f].version /\ c.base = "Service" /\ ~c.byDefault
         /\ ~m.static /\ ~m.computed) =>
          LET services == dir[f].content.services
              tables == Read(WorkerIndexProto, jayne.index, "serviceClasses")
          IN  /\ c.name \in dir[f].content.exports \cap DOMAIN services
              /\ m.name \in DOMAIN services[c.name].calls
              /\ dir[f].version = jayne.version =>
                   \E t \in ToSet(tables) : \E method \in ToSet(Read(ServiceClassProto, t, "methods")) :
                     /\ Read(ServiceClassProto, t, "classId") = services[c.name].classId
                     /\ Read(ServiceClassProto, t, "className") = c.name
                     /\ Read(ServiceMethodProto, method, "methodId") = services[c.name].calls[m.name]
                     /\ Async(Read(ServiceMethodProto, method, "methodName")) = m.name
                     /\ \A w \in ToSet(Classes(jayne.program)) : w.name = c.name =>
                          \E x \in ToSet(w.members) :
                            x.kind = "method" /\ ~x.static /\ Async(x.name) = m.name

\* The files of a client are never of two versions of the worker, however often
\* connecting is interrupted and done again while new versions are deployed.
ClientIsOfOneVersion ==
    \A f, g \in DOMAIN dir : dir[f].version = dir[g].version

\* The classes a program has registered are those of the version of the worker
\* that it has registered, though the client may be replaced and loaded again
\* while the program runs: messages are told by the worker's id only.  As long as
\* that version is live each stands for the class of that id and kind in the
\* worker's index.
RegisteredAreTheWorkers ==
    \A c \in registry.classes :
      /\ c.key.workerKey = registry.worker
      /\ registry.worker.workerVersion = jayne.version =>
           c.name \in DOMAIN jayne.ids /\ jayne.ids[c.name] = c.key.classId
           /\ \E w \in ToSet(Classes(jayne.program)) : w.name = c.name /\ w.base = c.key.kind

=============================================================================
