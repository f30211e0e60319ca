---------------------------- MODULE WorkerDeploy ----------------------------
(***************************************************************************)
(* Deploying the versions of a worker: the worker.json of each developer   *)
(* (worker-deploy.ts, worker-config.ts), Jayne's row of the worker and the *)
(* transaction around it (WorkerAdminSystemImpl.cs), and the version that  *)
(* Serenity runs (handler/admin.h), with answers that are lost, setups     *)
(* that take effect after Jayne gave them up, commits that fail, and the   *)
(* worker being deleted.                                                   *)
(*                                                                         *)
(* Source code is the sequence of its Service, Data and Message classes,   *)
(* each with the kind it really is: a renamed class keeps its kind.  What  *)
(* code may be deployed at all is WorkerClient.  A class's tag in          *)
(* worker.json stands for the class id it was made for.  Code and class    *)
(* keys are edited from what was last deployed (checksum, known) whenever  *)
(* a deployment is started; json is the rest of worker.json.  There is one *)
(* name of a worker; its index is the function from class names to ids.    *)
(***************************************************************************)
EXTENDS Integers, FiniteSets, SequencesExt, FiniteSetsExt

CONSTANTS Developers,  \* those who have the worker's directory
          Nobody,      \* the developer of a deployment that was given up
          Requests,    \* deployments under way
          NoRequest,   \* no deployment has written
          Names,       \* names of classes
          Kinds,       \* what classes really are
          Codes,       \* what she may write: sequences of [name, kind]
          MaxVersions  \* bound: a sequence, the versions of each worker there may be

ASSUME NobodyAssumption == Nobody \notin Developers
ASSUME NoRequestAssumption == NoRequest \notin Requests
\* No two classes of one name are parsed.
ASSUME CodesAssumption ==
    \A code \in Codes :
      /\ code \in Seq([name : Names, kind : Kinds])
      /\ \A i, j \in DOMAIN code : code[i].name = code[j].name => i = j
ASSUME BoundsAssumption == MaxVersions \in Seq(Nat \ {0})

MaxWorkers == Len(MaxVersions)

VARIABLES
  json,        \* of a developer: [worker, version, checksum, known, last]
  deploy,      \* of a request: [pc, dev, worker, version, source, classes, last]
  row,         \* committed in MySQL: [worker, version, index]; worker 0: none
  written,     \* the request whose transaction has written the row, or NoRequest
  serenity,    \* of a worker: [version, index]; version 0: never set up
  gone,        \* the workers deleted from Serenity
  deletion,    \* the worker whose deletion is under way, or 0
  nextWorker,  \* AUTO_INCREMENT
  owners       \* <<worker, class id, kind>> of every version set up, a history

vars == <<json, deploy, row, written, serenity, gone, deletion, nextWorker, owners>>
jayne == <<row, written, nextWorker>>

Empty == [n \in {} |-> 0]
Ids(f) == {f[n] : n \in DOMAIN f}
NamesOf(code) == {code[i].name : i \in DOMAIN code}

NoJson == [worker |-> 0, version |-> 0, checksum |-> <<>>, known |-> Empty, last |-> 0]
NoRow == [worker |-> 0, version |-> 0, index |-> Empty]
Idle == [pc |-> "idle", dev |-> Nobody, worker |-> 0, version |-> 0, source |-> <<>>,
         classes |-> Empty, last |-> 0]

-----------------------------------------------------------------------------
(* A developer and her directory.                                          *)

\* Editing changes code and class keys to anything, but what a class key is of
\* stays the same class: it is renamed in the code and in worker.json, and
\* removed from worker.json before its name is used again.
IsEditOf(code, classes, j) ==
    \A n \in DOMAIN classes : \E old \in DOMAIN j.known :
      /\ j.known[old] = classes[n]
      /\ \A i \in DOMAIN code : code[i].name = n =>
           [name |-> old, kind |-> code[i].kind] \in ToSet(j.checksum)

\* The class keys that may be left of f, some under other names.
ClassKeys(f) == {g \in UNION {[S -> Ids(f)] : S \in SUBSET Names} : IsInjective(g)}

\* Whether the names of the classes in worker.json are those of the last deployment.
HasClassMappingChanges(j, classes) == DOMAIN classes # DOMAIN j.known

\* The JavaScript that is compiled has the checksum of the last deployment.
HasChecksumOf(j, code) == j.version # 0 /\ j.checksum = code

\* What the worker.json of a developer may hold when she deploys: her own, that
\* of another developer or a new one.
Opened == {json[e] : e \in Developers} \cup {NoJson}

\* deployWorkerAsync: the request of a developer.
RequestOf(d, j, code, classes) ==
    [pc |-> "sent", dev |-> d, worker |-> j.worker, version |-> j.version,
     source |-> code, classes |-> classes, last |-> j.last]

\* executeWorkerDeployAsync up to the call, by a developer who has nothing else
\* under way.
StartDeploy(d, r) ==
    /\ deploy[r] = Idle /\ \A q \in Requests : deploy[q].dev # d
    /\ \E j \in Opened, code \in Codes :
         /\ j.worker # 0 => j.version < MaxVersions[j.worker]
         /\ json' = [json EXCEPT ![d] = j]
         /\ \E classes \in ClassKeys(j.known) :
              /\ IsEditOf(code, classes, j)
              /\ HasChecksumOf(j, code) => HasClassMappingChanges(j, classes)
              /\ deploy' = [deploy EXCEPT ![r] = RequestOf(d, j, code, classes)]
    /\ UNCHANGED <<jayne, serenity, gone, deletion, owners>>

-----------------------------------------------------------------------------
(* Jayne.                                                                  *)

\* How many of the classes up to n are not mapped.
NewUpTo(source, classes, n) ==
    Cardinality({i \in DOMAIN source :
                   /\ source[i].name \notin DOMAIN classes
                   /\ \E j \in DOMAIN source : i <= j /\ source[j].name = n})

\* Mutant: the ids of new classes follow those that are mapped.
IndexAfterMapped(source, classes, last) ==
    [n \in NamesOf(source) |->
       IF n \in DOMAIN classes THEN classes[n]
       ELSE Max(Ids(classes) \cup {0}) + NewUpTo(source, classes, n)]

\* getClassId and CreateClassMappings: a class that is mapped keeps its id, the
\* others get the next ones, in order.
IndexOf(source, classes, last) ==
    [n \in NamesOf(source) |->
       IF n \in DOMAIN classes THEN classes[n] ELSE last + NewUpTo(source, classes, n)]

Index(r) == IndexOf(deploy[r].source, deploy[r].classes, deploy[r].last)

\* ParseWorkerCode: what is mapped must be in the code.
IsParsed(r) == DOMAIN deploy[r].classes \subseteq NamesOf(deploy[r].source)

Step(r, pc) == deploy' = [deploy EXCEPT ![r].pc = pc]
End(r) == deploy' = [deploy EXCEPT ![r] = Idle]

\* The transaction is over.
Release(r) == written' = IF written = r THEN NoRequest ELSE written

IsUpdate(r) == deploy[r].worker # 0 /\ deploy[r].version # 0

\* UpdateWorkerAsync reads the row of that worker in that version and parses the
\* code; otherwise the developer is told to pull the latest version.
Select(r) ==
    /\ deploy[r].pc = "sent" /\ IsUpdate(r)
    /\ IF row.worker = deploy[r].worker /\ row.version = deploy[r].version /\ IsParsed(r)
       THEN Step(r, "selected") ELSE End(r)
    /\ UNCHANGED <<json, jayne, serenity, gone, deletion, owners>>

\* CreateWorkerAsync: the insert of a name waits for another insert of it, and
\* fails if the name is taken.  The id stays used if the transaction is undone.
Insert(r) ==
    /\ deploy[r].pc = "sent" /\ ~IsUpdate(r)
    /\ IF row.worker # 0
       THEN End(r) /\ UNCHANGED <<written, nextWorker>>
       ELSE /\ written = NoRequest /\ nextWorker <= MaxWorkers
            /\ nextWorker' = nextWorker + 1
            /\ IF IsParsed(r)
               THEN /\ written' = r
                    /\ deploy' = [deploy EXCEPT ![r].pc = "asked", ![r].worker = nextWorker]
               ELSE End(r) /\ UNCHANGED written
    /\ UNCHANGED <<json, row, serenity, gone, deletion, owners>>

\* SaveChangesAsync of an update: it waits for whoever has written the row, and
\* then writes over whatever that one has committed.  SetupWorkerAsync follows.
Save(r) ==
    /\ deploy[r].pc = "selected" /\ written = NoRequest
    /\ IF row.worker = deploy[r].worker
       THEN Step(r, "asked") /\ written' = r
       ELSE End(r) /\ UNCHANGED written
    /\ UNCHANGED <<json, row, serenity, gone, deletion, nextWorker, owners>>

\* Mutant: Serenity sets a worker up whatever version it is at.
AcceptsAnyVersion(r) == deploy[r].worker \notin gone

\* A worker that was set up is at the version the deployment started from; that
\* of one that was not is 0.
Accepts(r) ==
    /\ deploy[r].worker \notin gone
    /\ serenity[deploy[r].worker].version = deploy[r].version

\* The setup handler, at work for Jayne or when Jayne has given it up.  owners
\* notes what the ids of the classes stand for from now on.
Setup(r) ==
    /\ deploy[r].pc \in {"asked", "late"}
    /\ IF Accepts(r)
       THEN /\ serenity' = [serenity EXCEPT ![deploy[r].worker] =
                 [version |-> deploy[r].version + 1, index |-> Index(r)]]
            /\ owners' = owners \cup
                 {<<deploy[r].worker, Index(r)[c.name], c.kind>> : c \in ToSet(deploy[r].source)}
       ELSE UNCHANGED <<serenity, owners>>
    /\ IF deploy[r].pc = "late" THEN End(r) /\ UNCHANGED written
       ELSE IF Accepts(r) THEN Step(r, "set up") /\ UNCHANGED written
       ELSE End(r) /\ Release(r)
    /\ UNCHANGED <<json, row, gone, deletion, nextWorker>>

\* Mutant: the transaction is committed before the worker is set up.
CommitFirst(r) ==
    /\ deploy[r].pc \in {"asked", "set up"}
    /\ row' = [worker |-> deploy[r].worker, version |-> deploy[r].version + 1, index |-> Index(r)]
    /\ Release(r)
    /\ Step(r, "committed")
    /\ UNCHANGED <<json, serenity, gone, deletion, nextWorker, owners>>

Commit(r) ==
    /\ deploy[r].pc = "set up"
    /\ row' = [worker |-> deploy[r].worker, version |-> deploy[r].version + 1, index |-> Index(r)]
    /\ Release(r)
    /\ Step(r, "committed")
    /\ UNCHANGED <<json, serenity, gone, deletion, nextWorker, owners>>

\* Anything fails: the transaction is rolled back.  A setup may go on without
\* Jayne; a worker whose creation had been set up is deleted from Serenity.
Fail(r) ==
    /\ deploy[r].pc \in {"selected", "asked", "set up"}
    /\ Release(r)
    /\ \/ ~(deploy[r].pc = "set up" /\ deploy[r].version = 0) /\ End(r)
       \/ deploy[r].pc = "set up" /\ deploy[r].version = 0 /\ Step(r, "undo")
       \/ /\ deploy[r].pc = "asked"
          /\ deploy' = [deploy EXCEPT ![r].pc = "late", ![r].dev = Nobody]
    /\ UNCHANGED <<json, row, serenity, gone, deletion, nextWorker, owners>>

\* DeleteWorkerAsync of the rollback, which may fail too.
UndoSetup(r) ==
    /\ deploy[r].pc = "undo"
    /\ gone' \in {gone, gone \cup {deploy[r].worker}}
    /\ End(r)
    /\ UNCHANGED <<json, jayne, serenity, deletion, owners>>

\* "estate worker delete": first from Serenity, whatever the version.
DeleteFromSerenity ==
    /\ deletion = 0 /\ row.worker \notin gone \cup {0}
    /\ gone' = gone \cup {row.worker} /\ deletion' = row.worker
    /\ UNCHANGED <<json, deploy, jayne, serenity, owners>>

\* Then the row, once nobody has written it; or that fails.
DeleteRow ==
    /\ deletion # 0
    /\ \/ written = NoRequest /\ row' = NoRow
       \/ UNCHANGED row
    /\ deletion' = 0
    /\ UNCHANGED <<json, deploy, written, serenity, gone, nextWorker, owners>>

-----------------------------------------------------------------------------
(* The answer.                                                             *)

\* Mutant: the classes are those of the request.
NewJsonOfRequest(r) ==
    [worker |-> deploy[r].worker, version |-> deploy[r].version + 1, checksum |-> deploy[r].source,
     known |-> deploy[r].classes,
     last |-> Max(Ids(Index(r)) \cup {deploy[r].last})]

\* The identity and the classes of worker.json after a deployment.
NewJson(r) ==
    [worker |-> deploy[r].worker, version |-> deploy[r].version + 1, checksum |-> deploy[r].source,
     known |-> Index(r), last |-> Max(Ids(Index(r)) \cup {deploy[r].last})]

\* The developer gets the answer, and worker.json is written: unless the worker
\* never had a class, which WorkerIdentity does not take.
Receive(r) ==
    /\ deploy[r].pc = "committed" /\ NewJson(r).last # 0
    /\ json' = [json EXCEPT ![deploy[r].dev] = NewJson(r)]
    /\ End(r)
    /\ UNCHANGED <<jayne, serenity, gone, deletion, owners>>

\* Or the connection is lost, the command is interrupted, or it fails to write.
Lose(r) ==
    /\ deploy[r].pc = "committed"
    /\ End(r)
    /\ UNCHANGED <<json, jayne, serenity, gone, deletion, owners>>

Init ==
    /\ json = [d \in Developers |-> NoJson]
    /\ deploy = [r \in Requests |-> Idle]
    /\ row = NoRow /\ written = NoRequest /\ nextWorker = 1
    /\ serenity = [w \in 1..MaxWorkers |-> [version |-> 0, index |-> Empty]]
    /\ gone = {} /\ deletion = 0 /\ owners = {}

Serve(r) ==
    \/ Select(r) \/ Insert(r) \/ Save(r) \/ Setup(r) \/ Commit(r) \/ Fail(r) \/ UndoSetup(r)
    \/ Receive(r) \/ Lose(r)

Next ==
    \/ \E r \in Requests : Serve(r) \/ \E d \in Developers : StartDeploy(d, r)
    \/ DeleteFromSerenity \/ DeleteRow

Spec == Init /\ [][Next]_vars

-----------------------------------------------------------------------------
(* Properties.                                                             *)

Pcs == {"idle", "sent", "selected", "asked", "set up", "late", "undo", "committed"}

IsJson(j) ==
    /\ DOMAIN j = DOMAIN NoJson
    /\ j.worker \in 0..MaxWorkers /\ j.version \in Nat

IsRequest(q) ==
    /\ DOMAIN q = DOMAIN Idle
    /\ q.pc \in Pcs /\ q.dev \in Developers \cup {Nobody}
    /\ q.worker \in 0..MaxWorkers /\ q.version \in Nat

DirectoriesOK == DOMAIN json = Developers /\ \A d \in Developers : IsJson(json[d])

RequestsOK == DOMAIN deploy = Requests /\ \A r \in Requests : IsRequest(deploy[r])

JayneOK ==
    /\ row.worker \in 0..MaxWorkers /\ row.version \in Nat
    /\ written \in Requests \cup {NoRequest} /\ deletion \in 0..MaxWorkers
    /\ nextWorker \in 1..(MaxWorkers + 1)

SerenityOK ==
    /\ DOMAIN serenity = 1..MaxWorkers
    /\ \A w \in 1..MaxWorkers : serenity[w].version \in Nat
    /\ gone \subseteq 1..MaxWorkers

\* The types of the variables, and that only a request at work holds the row.
TypeOK ==
    /\ DirectoriesOK /\ RequestsOK /\ JayneOK /\ SerenityOK
    /\ \A r \in Requests : written = r => deploy[r].pc \in {"asked", "set up"}

\* A class id that a worker's stored data may refer to never comes to stand for
\* another class, whatever the developers add, rename, remove and add again,
\* whoever deploys, and whichever answers are lost.
ClassIdsKeepTheirClass ==
    \A o, p \in owners : o[1] = p[1] /\ o[2] = p[2] => o[3] = p[3]

\* Of the deployments that start from one version of a worker at most one is
\* committed: the row goes from version to version, one at a time, and what is
\* committed under a version is never changed, though an update does not look at
\* the version again when it writes.
DeploysAreSerial ==
    [][row'.worker = row.worker /\ row' # row => row'.version = row.version + 1]_vars

\* What "estate worker connect" is given is what Serenity runs: its version has
\* been set up with that very index, and is the latest, or was the latest before
\* one whose commit is still to come or has failed.
ConnectInfoIsLive ==
    row.worker \notin gone \cup {0} =>
      LET live == serenity[row.worker]
      IN  /\ live.version \in {row.version, row.version + 1}
          /\ live.version = row.version => live.index = row.index

\* The worker.json of every developer is that of a version that was committed:
\* of the current version, it has the classes and ids of the index, and the last
\* id is not below any of them.
WorkerJsonIsTrue ==
    \A d \in Developers : json[d].worker = row.worker /\ row.worker # 0 =>
      /\ json[d].version <= row.version
      /\ json[d].version = row.version =>
           json[d].known = row.index /\ \A i \in Ids(row.index) : i <= json[d].last

=============================================================================
