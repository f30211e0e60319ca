# A verification development of estatejs

This directory holds TLA+ modules that model the estatejs platform, the TLC
configurations that check them on small instances, and proofs checked by TLAPS.
Every definition is translated from the source; `PROJECT.json` maps each one to
the lines it stands for, lists the runs, the mutants, the hazards the
properties are aimed at and the theorems.

Paths below are relative to the repository's root. `serenity/...`,
`internal/...` and `river/...` stand for
`platform/native/lib/{serenity,internal,river}/...`, `client/...` for
`framework/client/src/internal/...` (`worker.ts` is `framework/client/src/public/worker.ts`)
and `tools/...` for `framework/tools/src/...`. The
repository's `src/` is the root of the paths in `PROJECT.json`.

## 1. The system

A developer deploys a *worker* (JavaScript classes of data, services and
messages). Browsers talk to it through websockets. The parts:

| Part | Source | State it keeps | Operations |
|---|---|---|---|
| Launcher, WorkerLoader, WorkerProcess | `serenity/src/system/*`, `serenity/src/worker-process-table.cpp` | shared memory: table of worker processes, free ports, a mutex and two condition variables; the processes | `launcher_update`, `loader_get_endpoint`, `mark_worker_process_deleted`, fork, exit |
| Request handlers of a worker process | `serenity/include/.../handler/{admin,user}.h` | none of their own | SetupWorker, DeleteWorker, GetData, SaveData, CallServiceMethod |
| DatabaseManager, Database | `internal/src/server/server.cpp` 1795-2085 | open databases, one mutex per worker and one for the mutexes; on disk: version, index, source, the deleted flag and the deleted file | `get_database`, `open_database`, `mark_as_deleted`, `close_database`, `create_transaction` |
| Transaction | `server.cpp` 1494-1790 | RocksDB optimistic transaction: tracked keys and pending writes | reads for update, writes, commit |
| Data layer | `server.cpp` 189-1455 | per call: working set of objects, each with a saved, a current and a script state per property | load, create, set, erase, delete, purge, revert, flush, save, deltas |
| Script engine | `server.cpp` 2087-5008 | V8 isolates, script proxies of objects, console log | `setup`, `call_service_method`, (de)serialization |
| Innerspace | `internal/include/.../innerspace/innerspace.h`, `internal/src/innerspace/*` | per connection: request queue, response map, breaker, read and write threads; endpoint and client caches | send, respond, fault, reconnect |
| River, Outerspace | `river/src/handler.cpp`, `internal/src/outerspace/*` | websocket sessions, send queues, subscription maps | request, subscribe, broadcast |
| Browser client: data | `client/util/registry.ts`, `tracker.ts`, `serde.ts`, `worker.ts`, `client/client.ts` | registry of instances with their versions and listeners; per message a tracker with queues of references, events and deletions | data update, message, get, save, call, create, delete, collect |
| Browser client: values | `client/util/serde.ts`, `client/service/river-client.ts` | none between requests | write requests, read responses and messages |
| Browser client: connection | `client/service/*`, `client/util/registry.ts` | the registered connection, waiting requests, message listeners | open, close, request, subscribe, unsubscribe |
| Worker compiler and client generator | `tools/util/{compiler,transformer,client-generator}.ts`, `tools/command/worker/worker-connect.ts`, Jayne's parser and serializer | files of a client; the compiled worker on its way to Jayne | compile, deploy, connect |
| Deployment | `tools/command/worker/worker-deploy.ts`, `tools/model/worker-config.ts`, `platform/dotnet/Jayne/Systems/Impl/WorkerAdminSystemImpl.cs` | each developer's `worker.json`; Jayne's row of the worker; the version that Serenity runs | deploy, delete |
| Jayne's accounts, other commands, runtime | `platform/dotnet/Jayne`, `framework/tools`, `platform/native/lib/runtime` | MySQL (accounts), Redis (keys), files | log in, create, list, boot, code names |

How they interact: a browser's request goes by websocket to River, which asks
the WorkerLoader (by Innerspace) where the worker's process is, and forwards the
request there; the WorkerLoader waits, through shared memory, for the Launcher
to fork the process. The process answers from its database and River sends the
response to the caller and the deltas and messages in it to the subscribers.
Jayne sets workers up and deletes them by Innerspace requests to the same
process, around transactions of its own database.

What is hard in it:

- *shared memory between processes that die*: the mutex is inherited by forked
  children, waits have no predicate, a process is waited for with the mutex held;
- *ports and table entries reclaimed by two parties* that judge a process's
  life in different ways;
- *two levels of mutexes* around opening and closing a database, with handles
  that outlive the closing;
- *optimistic transactions* over several keys per object, with reads that are
  tracked and reads that are not;
- *three copies of every property's state*, with views from one into another;
- *requests whose answer is lost*, broken connections with requests in three
  places (queue, wire, response map), callbacks under mutexes;
- *sagas over three stores* without a common transaction (MySQL, Serenity, Redis);
- *two maps for subscriptions* that must agree, sessions that close meanwhile;
- *updates applied asynchronously* by the client, next to its own changes: every
  `await` in a handler lets others change what it has read;
- *one id space for a worker's classes* that is kept in files of developers who
  cannot see each other's;
- *generated code* that must agree with an index made elsewhere, and files of a
  client that are replaced while they are in use.

The properties that make each part correct are listed with it in section 2; the
hazards, with the line where each bites and the properties about it, are in
`PROJECT.json`.

## 2. The modules

### WorkerProcessTable

The Launcher, the WorkerLoader's threads and the worker processes around the
shared table.

| In the model | In the code |
|---|---|
| `table[w]`: `Absent` or `[deleted, pid]` | `_table`, `WorkerProcessTableEntry` |
| `ports`, `has_changes` | `_ports`, `_lock->has_changes` |
| `changes_lock` | `_lock->changes_lock`: free, locked, or *broken*, unlocked while somebody is in its critical section |
| `torn` | history: somebody entered a broken section, or a process ended in one |
| `lpc`, `cursor`, `waiting_to_be_deleted`, `to_be_removed`, `changes_made`, `endpoint`, `spawned` | where the Launcher is in `launcher_update`, and its locals |
| `tpc[t]`, `request[t]`, `instance[t]`, `answer[t]` | where a loader thread is in `loader_get_endpoint`, its argument, the instance it has found stopped, and its result |
| `pstate[p]`, `pworker[p]`, `pports[p]` | a forked process: unborn, serving, on its way through `mark_worker_process_deleted`, stopping, zombie, gone; its worker; its endpoint |

A critical section is not one action but one per access to the shared state: a loader
locks, looks at the entry, inserts the ports, resets the entry, signals and
unlocks in steps of their own, the Launcher locks, visits an entry, reclaims the ports of its
instance, takes ports, forks and records the child, and a worker process locks,
marks its entry, and signals. So whatever is done in a section may be interleaved with whoever
else has got into one.
`waitpid` and `kill` are modelled by what they answer: for the Launcher, which is
the parent, a zombie is reaped and not running; for the loader, which is a
sibling, a zombie is still running until it is reaped. Once the Launcher is gone,
`init` reaps.

`Exit` unlocks `changes_lock` whoever has it: the child was forked inside `launcher_update`
and unwinds through its `scoped_lock`. While somebody is in the critical
section that leaves the mutex broken, and the next to lock it tears the section: two are inside at once.
A process that is killed inside (`Crash`) tears the section too, and leaves the mutex locked for good.
What the code does then is shown by the run `torn_section`: the ports of a live
process are freed, against the comment "reclaim the ports since the process is dead"
(`serenity/src/worker-process-table.cpp:200`). From there every other property may fail, a second process of
the worker included, so each of them claims nothing once `torn` is true: they say
what the protocol guarantees as long as no process happens to end in the few
moments in which another is in its section and a third is waiting for it. A process that ends while
nobody is inside, or whose broken section is left before anybody enters, tears
nothing, and the properties hold across it.

Within a torn section each operation on the map or the set of ports is still one
step, and the fields of an entry that was overwritten meanwhile are read as those of the
new one: what two such operations at once do to the same tree in memory is not
modelled. That only leaves out further ways for a torn section to go wrong.

Properties (each is stated in words above its definition): the invariants
`OneProcessPerWorker`, `PortsExclusive`, `PortsNotLeaked`,
`LiveProcessHasEntry`, `NoLostWork`, the action properties `DeletedUntilStopped`
and `EndpointOfRequestedWorker`, and the liveness properties `RequestsAnswered`
and `EntriesAttendedTo`.

Fairness (`FairSpec`), strong throughout, for each of them waits for the mutex at some step:
the Launcher keeps running, and so does a loader thread, whose timed wait ends; a
worker process marks its entry and, once it is stopping, ends. The mutex is released
after each pass of a Launcher that sleeps when it has nothing to do, so that nobody is
kept from it for ever. One condition is stated for all worker processes,
which is no stronger than one for each: a process takes three steps to mark its entry and one to end,
so none can be passed over for ever by the others. Nothing makes a process
crash, a request arrive or a worker be deleted.

Two more things are kept that the code does not intend: the Launcher's one `notify_one` may wake a
thread that waits for another worker; and a wait has no predicate, so that it may
end because of another worker's process and be answered with a failure. The
properties hold in spite of them: nothing is read across an unlock without being
looked at again, and every wait of the loader is timed.


### DatabaseManager

The database of one worker, with the requests that open, use, delete and close
it in its worker process.

| In the model | In the code |
|---|---|
| `created`, `version`, `index`, `deleted_flag`, `deleted_file` | what is on disk: the RocksDB directory, the keys for the version, index and "deleted", and the deleted file |
| `in_map`, `leaked`, `holds[t]` | who refers to the open RocksDB: `databases`, an `open_database` that failed half-way, a request |
| `outer`, `inner` | `open_databases_mutexes_mutex` and the worker's member of `open_database_mutexes` |
| `tpc[t]`, `request[t]` | where a thread is in `get_database`, a transaction or `DeleteWorker`, and the request |
| `outdated[t]` | whether RocksDB would find the version written since the transaction read it with `GetForUpdate` |

Each lock, each write to disk and each test of it is an action, because the
process may end between any two (`Restart`) and other threads run between them.
`databases_mutex` is held for one look-up or one change only and has no
variable. `open_databases_mutexes_mutex` is not held during an opening, but it
is held while the worker's mutex is waited for: that is the order `close_database`
reverses. Erasing a mutex from `open_database_mutexes` is the same as unlocking
it, since it happens under the outer mutex and whoever waits for it holds that.

A transaction is a read of the version, a time in which other requests commit,
and a commit that RocksDB refuses if the version was written meanwhile. It may
fail for any other reason too (`Abandon`). `Receive` assumes of Jayne that a
worker is set up as a new one (previous version 0) once, and of `validate_request`
that other setups move to a later version.

Properties: `DeletedIsClosing`, `IndexIsOfVersion`, the action
properties `DeletionIsFinal` and `CommitsUnderItsVersion`, and the liveness
property `RequestsAnswered`. `DeletionIsAnswered` is found violated: see
`deletion_deadlock` under "findings" in `PROJECT.json`.

Fairness: a thread that can go on does, and a mutex that is free again and again
is got in the end (strong fairness on the three steps that lock one). No fairness
on requests coming in or on the process ending.

### WorkerObject and ObjectValues

One Data or Service object: its keys in the datastore, and the object that each
request that touches it builds over them in its transaction.

| In the model | In the code |
|---|---|
| `disk`, `txn` (`version`, `deleted`, `index`, `cells`) | the keys of the object - instance, property index, one cell per property - as committed and as the transaction sees them |
| `request` | the stage of the request: a call whose script runs, a SaveData that applies its delta, or the answer being made |
| `object.version`, `.original` | the handle's version and original version |
| `object.option`, `.names` | `CurrentObjectState`: the delete option and the names |
| `object.buried`, `.permanent`, `.changed` | `PermanentObjectState`: `_is_deleted`, its names, the changed properties |
| `object.cached`, `.props[n]` | the property cache; of each property `_saved` and `_current` (a cell, a view of the other, or nothing) and the script value |
| `delta` | the last delta of the object in the response; its version is `_delta_version` |

The script's operations are actions, in any order and number, as are the client's
delta that comes with a request, the end of the call (services are saved), the
check for unsaved changes, and the commit. An exception that the script does not
catch, an error of the datastore, a conflict and the end of the process are one
action, `Fail`, because each of them drops the transaction. An exception that the
script does catch leaves what was done before it, as `SendMessage` shows.

A value stands for its bytes and its checksum. A cell that does not exist, an
erased cell and the script value `undefined` are one value, `None`, because the code
turns each into the others. `Unknown` is a script value that was not read yet.

`ObjectValues` says what all this is for: three values of each property -
committed, stored by the transaction, seen by the script - and the steps
between them. `WorkerObject` implements it (`Refinement`) with
`seen <- ScriptCell` of the cached properties and the transaction's cells of the others.

Properties: `NoDanglingView`, `SavedIsPending`, the action properties
`TombstoneIsFinal`, `ChangesHaveVersions` and `DeltaTellsCommit`, and `Refinement`.
Two things the code does that its documentation does not say do not contradict them: a
property that is deleted and set again may be stored without being in the index of
names, and so outlives its object (`ObjectValues!Delete` allows for that), and changes
that are not saved are answered as a success and lost as a whole.

No liveness is stated here: what a script does is up to the developer, and
nothing in a request waits.

### ClientData

The Data of a worker in one browser client, and the worker as far as the client can
tell. JavaScript has one thread, and every `await` gives it away: a *task* is the handler
of a message or a call of the program, `running` is the task that has the
thread, and the steps between two awaits are taken by nobody else.

| In the model | In the code |
|---|---|
| `instance[k]`, `keyOf[o]`, `version[o]`, `listening` | `DataRegistry`: the weak maps between keys and instances, the versions, the update listeners |
| `primaryKey[o]`, `content[o]` | an instance: its key and its properties - one plain property, whose value is the version that wrote it, and one reference |
| `task[t]` | a message or call under way, and its `Tracker`: `batches` are the deltas to merge, `resolve`, `firing` and `deletes` its queues, in the order in which `execute` empties them |
| `held`, `Collect` | what the program refers to; the garbage collector and its finalizer |
| `stored[k]`, `deleted` | the worker: every version of an object, and the deleted keys |
| `inflight` | deltas and messages on their way; they arrive in any order, as each thread of the worker sends for itself, and answers carry deltas of their own |

Every operation of `worker.ts` and `client.ts` on Data is an action: getting, saving,
calling a service, creating an object under a key that may be taken, editing and linking,
listening to updates, clearing all listeners, and dropping what one holds. So are
the changes of others, and their deletions that leave a mark. A refusal by the worker, a listener that waits for a promise, and an instance of which only
its key is left are alternatives of these actions.

Only keys outside `Targets` have a reference; that keeps chains short and still
lets an object refer to one that was never saved, is being saved, or was replaced.

Properties: the invariants `RegistryBijective`, `ContentMatchesVersion`, `ReferencesAreStored` and the
action property `SaveRevertsNothing`. All of them are about workers whose services delete without purging.
A purged key starts again at version 1 (`server.cpp` 794-796, 918-925; `WorkerObject` has that), and
nothing tells a client's instance of the old object from one of the new: until the client hears of the
deletion, a delta of version 2 of the new object is merged into version 1 of the old one, and a save
of the old one passes the check of its version and replaces what the new one has. The model assumes
that no service does so rather than to weaken what it says of all others. `ReferencesKeptUpToDate` is found violated (`client_updates`
under "findings"): a reference that was resolved late is put over a newer one.

### ClientValues and RiverProtocol

`RiverProtocol` has the tables of the schema: fields with their defaults, which are not
written, and required fields. `ClientValues` writes and reads them: the serializer
with the queue of Data that travel with a request, every request, and every response
and message with what the client makes of it. A value is a record with its kind; a
Data is named by its key, and `heap` has its version and properties, so that Data may
refer to each other in cycles.

A run is one exchange: the program asks (`Ask`) and the request is on the wire or
refused; the worker answers anything its schema allows (`Answer`), among it what it was
given; the client reads it (`Receive`). Or the worker pushes a message (`Push`,
`ReceivePush`). There is nothing between these steps that others could interleave with:
what can happen meanwhile is `ClientData` and `ClientConnection`.

`Layers` are the values by how deep they nest: each layer is made of values of the layers before
it, so what the code does by recursion is a recursive function on `Values` or on the `Tables`
that values are written to. The named assumptions say what the constants stand for, and TLC evaluates them:
a value is one of the kinds that JavaScript or the client's API has (`LayersAssumption`), the client has
properties for every Data that a value names (`HeapsAssumption`), a client calls the
services of its own worker (`CallsAssumption`), and a worker writes what is in the
schema (`SaysAssumption`) and refers to its own Data only. A method with arguments may
return the first of them; that is the exchange `ReturnPreserved` is about.

`Positions` has what this module and `WorkerClient` share: the elements of a sequence that a filter leaves or a
sort arranges, by their positions (`Listing`, `InOrder`, `Pick`, `Select`).

Properties: `ReturnPreserved` (a value comes back as it was sent), `TransferComplete` (a
save takes along all it refers to, once), `RefusedForCause` (a call is refused exactly if a value that it
reaches is not supported, a Data that it reaches is of another worker, or a Data is saved twice), `ReceivedAsMeant` (an error is never taken
for a success, a message of another worker or version is not handled). `Preserved` says
what "as it was" means: boxed primitives are opened, `-0` becomes `0`, and the order of
a Map, a Set or an object's properties may change when references are in it.

Only Data are compared with the worker that is asked. A Service of another worker is let through: its
reference is its class and its key (`serde.ts` 225-231), so that the worker, and the client when it gets the value
back, take it for a Service of their own. The model does the same: `RefusedForCause` does not count such a
Service as a cause, `Preserved` says that it becomes one of the client's own, and the arguments of the
instance include one (`otherService`).

### ClientConnection

The connection of one client to River, with the session at River's end.

| In the model | In the code |
|---|---|
| `socket[c]`, `river` | a WebSocket and its `readyState`; the connection in `WorkerRegistry` |
| `nextId[c]`, `waiting` | `_nextRequestId`, `_waitingRequests` |
| `listeners` | `MessageRegistry` |
| `call[t]` | where an asynchronous function of `worker.ts` is, between two awaits |
| `requests`, `responses` | on their way; River handles and answers them in any order |
| `subscribed` | the two maps of `subscription.h`, as a set of pairs |

A number of a request is compared in the 32 bits that a header has for it; the module
assumes that fewer requests are made on a connection than there are such numbers
(`MaxCalls < HeaderRange`). A message that arrives after `close()` is not delivered,
as the standard of WebSockets has it.

Properties: the invariants `AnswersReachTheirCall` and `ListenersAreSubscribed`, and the liveness
property `CallsSettle`. `ListenersAreSubscribed` is checked and proved for a program that awaits
its calls on one event (`Exclusive`) and says nothing of others: otherwise `subscribeMessageAsync` may return
while the subscription that it relies on is being undone, and `closeConnections` may leave a
second connection open.

Fairness: what is ready to run is run by the event loop (`SendRequest`, `ReceiveFor`), an attempt to
connect ends, and River's threads handle what they have read. Nothing makes the program call,
or a connection break.

### WorkerClient and WorkerIndexProtocol

From a worker's source to the client that programs import. A program is a sequence of modules
with their imports and declarations, which may be default exports. `Stage` and `Compile` are the compiler, with TypeScript as something that
refuses a program or emits it; `Deploy` is Jayne's parser and serializer, whose tables
are `WorkerIndexProtocol`; `Ask`, `RemoveFile` and `Write` are `worker connect`, which may
be killed between any two files; `Load` is a program that imports the client, and
may do so again after it was replaced.

What TypeScript and Esprima can give is stated as assumptions on `Programs` (`IsProgram`), so that the module
can be proved about: filters of lists are the operators of `Positions`, and a path is resolved by a
recursive function over its steps. A table that is created has only the fields that differ from
their defaults; `-0`, which the builder takes for 0, occurs in the fields named `value` only (`IsDefault`).

What Jayne's parser refuses is more than the bad code it reports. It takes for an identifier every
parameter, every key of a method it reads and every superclass, and fails on any other
(`plain`, `ctor = "odd"`, `Expression`; `JavaScriptParserServiceImpl.cs:148`, 169, 203, 350, 472, 532); it refuses
a file with the prefix of Estate's own names (252) or with syntax it does not know (`text = "barred"`). Before it,
`worker deploy` refuses an empty file (`EmptyFiles`). Of members with computed names it reads those of classes that
are not services only (384), and the compiler finds no text in such a name (`StageErrors`).

A default export is a statement that the parser skips (339-340), while the compiler and the type
definitions have it like any other (`Places`, `ClassesAsWritten`). A class that is exported so is deployed
without Jayne's rules for it, is in no table of the index and not in `index.js`, and the type definitions declare it
all the same: a program that calls such a service fails.

Properties: `RefusedForCause` (whichever of three parsers is responsible for a rule, a worker is
deployed if and only if it keeps those of the compiler for all classes and those of Jayne for
whatever is no default export), `ImportsReachTheirModule`, `ClientCallsWorker` (what the
type definitions declare of a service that is no default export exists in `index.js` and in the worker, under the
same id), `ClientIsOfOneVersion` and `RegisteredAreTheWorkers`.

Two connects into one directory at once are not modelled: they may mix. A developer is taken to
remove the classes from `worker.json` that she removes from the source.

### WorkerDeploy

Versions of a worker, from the directory of each developer to Serenity.

| In the model | In the code |
|---|---|
| `json[d]` | `worker.json`, with the checksum and the classes known at the last deployment |
| `deploy[r]` | a deployment under way: where it is in `CreateWorkerAsync` or `UpdateWorkerAsync`, and what it was sent |
| `row`, `written`, `nextWorker` | Jayne's row of the worker as committed; whose transaction holds it; the counter of ids |
| `serenity[w]`, `gone` | the version and index that Serenity runs; the workers it deleted |
| `deletion` | a deletion between Serenity and MySQL |
| `owners` | which class had an id in which worker: a history for the property |

Between any two steps Jayne may give up: the answer of Serenity is lost and the setup
takes effect late, the commit fails, a rollback of a created worker is asked for, the
developer never hears of a success. Commits are atomic, and a row that a
transaction wrote is locked until it ends.

Properties: the invariants `ClassIdsKeepTheirClass`, `ConnectInfoIsLive`, `WorkerJsonIsTrue` and the
action property `DeploysAreSerial`, which is not evident since an update does not compare the version
when it writes: Serenity, which accepts only a setup that starts from the version it is
at, makes it so.

## 3. The runs

| Run | Module | What it shows | Bounds |
|---|---|---|---|
| `table` | `WorkerProcessTable` | while no critical section is torn, processes, ports and entries stay consistent; no work is lost; no endpoint of another worker is returned; requests are answered, entries filled in and removed | 3 workers, 1 loader thread, 2 forks, 6 ports |
| `torn_section` | `WorkerProcessTable` | the violation: a process that ends unlocks the mutex, and the ports of a live process are freed | 2 workers, 2 loader threads, 3 forks, 6 ports |
| `database` | `DatabaseManager` | a deleted database stays deleted and is taken out of the map; requests commit under their version; the index is that of the version; no request waits for ever for a database that nobody deletes | 2 threads, 2 versions |
| `deletion_deadlock` | `DatabaseManager` | the violation: closing and opening wait for each other | 2 threads, 1 version |
| `object` | `WorkerObject` | the copies of a property agree; a deleted object never changes; changes have new versions; the delta tells the commit; the object implements `ObjectValues` | 2 properties, 1 value, 3 versions |
| `client_data` | `ClientData` | registry, versions and contents agree; a save reverts nothing | 1 key, 3 instances, 1 handler, 1 call, 2 versions, 1 object held |
| `client_references` | `ClientData` | a save stores references to stored objects only | 2 keys, one referring to the other, 4 instances, 1 handler, 1 call, 1 version |
| `client_updates` | `ClientData` | the violation: a newer version with an older reference | as before, with 2 handlers and 2 versions |
| `client_values` | `ClientValues` | values come back as sent, saves are complete, refusals have a cause, responses mean what they meant | values three levels deep, 4 Data in cycles, every kind of request, response and message |
| `client_connection` | `ClientConnection` | answers find their call, listeners have a subscription, calls settle | 1 event, 1 Data, 2 calls at a time of 3, 2 connections |
| `worker_client` | `WorkerClient` | what is deployed keeps the rules (default exports: those of the compiler); imports and calls of the client reach what they name | all classes of up to 2 members, default exports, files that the parser refuses, pairs of declarations, trees of modules; 2 versions |
| `worker_deploy` | `WorkerDeploy` | ids keep their class; row, Serenity and `worker.json` agree | 2 developers, 2 deployments at a time, 2 names, 2 kinds of class, 3 versions and a second worker |

Why the bounds are enough. `table`: two workers are needed for the Launcher's
scan to have an order and for one worker's update to wake the thread of another, a
third for the ports to run out: six hold two
processes exactly, so that a port reclaimed too early or too late is missed or
shared at once, and the Launcher fails at a third. Two forks let a worker be started, die and be
started again, or two workers' processes live at once; that both happen in one
behaviour is left to the theorems, which are about any number of forks and cover
every safety property of the run, and to `torn_section`, which has three. One loader thread is
enough while no section is torn: between its sections a
thread knows nothing but its request, and one that times out may ask for
another worker at once, so that a second thread adds no state of the table that one does not reach.
The run stops at torn sections (`NotTorn`), of which its properties say nothing.
`torn_section` has two threads. `Pids` bounds the number of forks in a behaviour, not a
structure of the code; they are forked in order. Symmetry is used in `torn_section` only, on loader
threads, which the specification treats alike.

`database`: a deletion and a request that opens or holds the database meet in two
threads, and so do two setups, or a setup and a request of the version before. Two
versions let the worker move on once under a transaction that has read the first. A
third thread adds another that waits for the same two mutexes. There is no symmetry in
the run, since it checks liveness.

`object`: the properties of the run are about sets of properties - names, index, changes,
deltas - for which two are enough to have one changed and one not, and about the copies of
one property, for which a value that comes and goes, from one version to the next, is enough to
tell a copy from an older one. Three versions let a request save twice after
another has created the object. `MaxVersion` bounds the number of saves in a behaviour
only. Symmetry is used on the properties, for which the specification only ever
tests equality.

`client_data` and `client_references` split one module along what its properties tell
apart. A key, its registration and its contents do not depend on other keys, so the
first has one key, whose instance is replaced while another is being made (three
instances), and a handler and a call that interleave at each of their waits; the second
has an object that refers to another, without what only others can do to it. What
is left out of each run by `Operations` is in the other, or - events of messages and two versions
together with references - in `client_updates`. The proofs are about all of it together.
`MaxHeld` bounds how much the program refers to; the collector takes the rest.

`client_connection`: two connections let a call be made on one while another
replaces it; the second call and the third meet the end of the first. `HeaderRange` is 8, more than
there are calls, as 2^32 is.

`client_values`: three levels are a container in a property of an object, with one
element of each kind; deeper values only repeat the same cases of the serializer. The Data
form a chain and a cycle, one of them is of another worker.

`worker_client`: a rule about one class needs two members to be broken by a pair; a rule
about names needs two declarations, in one module or in two; a default export breaks one rule at a time,
beside a class that keeps them or shares its name. The trees have modules
in three directories with `index` files where they matter.

`worker_deploy`: a class at a time in the code, under one of two names, is enough to be renamed,
removed and added again under the name of another; the two developers' files then
differ. Symmetry is used on developers, deployments, names and kinds, in a run without
liveness.

`CHECK_DEADLOCK FALSE` stands in the configurations whose system really may stop:
a program that does nothing more, a bound on versions or objects that is used up,
a deployment that is done. In `WorkerProcessTable`, `DatabaseManager` and
`WorkerObject` something can always happen, and TLC checks that it does.

Every property of a passing run has a *mutant*: an operator next to the
definition it changes, under a comment that says what plausible bug it is, with which
TLC finds that property violated under the same configuration.

## 4. What is proved

`WorkerProcessTableProofs` proves, for any number of workers, ports, processes
and threads, every safety invariant and both action properties of the `table` run. The assumptions are those of the module's `ASSUME`s:
worker ids are positive naturals, ports and processes are naturals, `NoPid` is not a process
and `Absent` is not an entry.

The argument. None of the invariants is inductive: that a worker has one process
depends on the entry naming it (`LiveProcessHasEntry`), which depends on the
Launcher's cursor, on which entries it may still erase, and on what the loader is about to
reset. `IInv` has two parts. Torn or not, every variable has its type and the entry
the Launcher works on is there (`CursorInv`). While no section is torn, `WholeInv` holds:
nobody is in a section with another (`MutexInv`: an ending process that unlocks the mutex
breaks it only for those who enter before the section is left, and to enter then is what `torn`
records); what the Launcher and a loader know of the entry they work on is still so
(`LauncherInv`, `LoaderInv`); an entry's process was forked for its worker (`InstanceInv`); a worker in
`to_be_removed` is deleted and its process has stopped (`ErasureInv`); ports of
entries that were not reclaimed yet, of the forked process, in the Launcher's hands and free ones
are disjoint (`OwnershipInv`); an entry that needs the Launcher is announced, about
to be, or ahead of its scan (`PendingInv`). `Invariance` shows `Spec => []IInv`: `MutexStep` for the mutex,
`QuietStep` for the steps that change neither the table nor the ports, one
lemma for each other action, and in each one step per conjunct. The theorems follow from it.

`DatabaseManagerProofs` proves the four safety properties of the `database` run and
its type invariant for any set of threads and any number of versions, from the
assumptions that `NoThread` is not a thread and that there is a version. The
inductive invariant adds what the code relies on without saying so: who is
between locking and unlocking the worker's mutex has it (`MutexInv`); a thread
that has opened RocksDB and not put it in the map yet is its only user
(`OpensAlone`, from RocksDB's own lock file and not from the mutexes, which do not
protect `try_get_database`); the flag comes before the file, and a thread that has
seen no flag meets none until it puts the database in the map (`FlagInv`), since
only holders set it; a transaction that may still commit has read the current
version (`ReadInv`); the first setup finds version 0 until it writes its own
(`FirstSetupInv`). `DeletionIsFinal` rests on the first three: it would fail if the
file alone were looked at, because of an end of the process between the two.

`WorkerObjectProofs` proves the type invariant and all the safety and action
properties of the `object` run, and that `WorkerObject`
implements `ObjectValues`, for any properties, any values and any bound on the
versions, from the assumptions that the three markers (`None`, `View`, `Unknown`) are no
values and differ from each other.

The lemmas go from one property to one object to one request. Of a property that is
`Sound` (a view has a cell to look at), `SetCurrentFacts`, `FlushedFacts`, `SavedFacts` and
`RevertedFacts` say which of its three values each operation changes and that it is sound
afterwards. `Ready` is what the code relies on for a loaded object: its saved cells are
those of the transaction (`Mirrors`), whatever of the transaction differs from the
disk is listed in its changes and has a greater version (`Follows`), and the delta, if it is
of this version, turns the committed cells into the transaction's (`Tells`). `KeptFacts`
and `BuriedFacts` show that a save keeps the first two, `SaveTells` and `SaveUntold` the
third, with and without a new delta. The invariant `Inv` is `Ready` of the object
of the request, and that no request has left anything behind. One lemma per
action shows `Correct`: `Inv` holds again, and the step is one of `ObjectValues` or changes none of its values.

The strengthening is needed because no property speaks of an object between two of
its saves: that a delta is complete, for example, depends on `_changed_properties`
having kept what earlier saves changed, which only `Follows` says.

`ClientDataProofs` proves the three invariants, the action property and the type invariant
of `ClientData` for any keys, instances, handlers, calls and versions. It assumes what
`ConstantsAssumption` says: markers are no objects, and targets are keys. Its
invariant has a conjunct for each place that a version of an object may be in:

- at the worker, only keys outside `Targets` have a reference, and only to stored objects (`WorkerInv`);
- in the registry (`RegistryInv`), with the version and contents of each instance (`ContentInv`);
- in a message on its way (`MessageInv`): the version of each delta is stored, and its value is that of the
  version, or the same as that of the version before when it tells none;
- in what the program holds (`HeldInv`), and in the locals of a task (`TaskInv`): what
  a tracker has merged and is to fire (`StageOK`), what was read and not yet merged, and
  what a request under way has sent (`SentOK`).

The argument for every step is that two things only grow: the worker's versions (`Grows`), so that what was
stored stays so while a message is on its way, and the keys of objects in use
(`KeysStay`), so that what a closure remembers is still the same object after an `await`.
`SaveRevertsNothing` needs `SavesOK` in addition: a save sends an object once, with all it refers
to, and an object the worker does not know yet is an edited one.

`ClientConnectionProofs` proves `AnswersReachTheirCall` and the type invariant for any callers,
events and connections, as long as the numbers of a connection do not come round
(`MaxCalls < HeaderRange`). `IInv` says that there are numbers left for the calls that have not sent their request
(`NumbersSuffice`), that a connection's next number is above all those that are waited for, each by
one caller that waits on that connection (`WaitInv`), that each message on its way is one of
those, and a caller's only one (`MessageInv`), and that it is about the call's topic (`CallInv`).
`ListenersAreSubscribed` is proved for `Exclusive` programs from a second invariant (`XInv`):
at most one call on an event is under way (`OneCallPerEvent`), a subscription that was confirmed
is there until the call returns (`ConfirmedInv`), and while no connection broke an event with listeners has
an open session that gets it, or a call that is about to clear them (`ListenInv`).

`WorkerDeployProofs` proves the three invariants, the action property and the type invariant of
`WorkerDeploy`, for any developers, deployments, code and bounds, from the assumption that code is a
sequence of classes with different names (`CodesAssumption`). `IInv` is about who may write the row: a deployment
that asked Serenity, or had the worker set up, holds the row's lock (`HoldsRow`), so there is only one;
an update is of the row's worker and starts from its version or an earlier one (`StartsFromRow`,
`IdentityInv`); a worker that is being created is known to nobody else and was never set up (`IdsAreNew`,
`CreatesAlone`, `CreatesNew`); what was set up for a deployment is still what it is to commit (`SetUpInv`),
and Serenity is at the version of the row or one ahead (`RowIsLive`). That a setup which was given up takes effect late does no harm,
because Serenity accepts it only if the worker is still at the version it started from.
Two more invariants stand on it. `IdsInv` ties every table of names and ids to what the ids were given
to: the table of a `worker.json` or of a request that starts from Serenity's version (`Agrees`)
has no id twice, none that was ever given is above its last one, and under each name stands what the id
was given to. The next index gives new ids above the last one only, so `GivenOnce` goes on and
`ClassIdsKeepTheirClass` follows; of a table of an earlier version nothing is claimed, for Serenity
will not accept what starts from it. `CommitsInv` says of what versions the files and answers are:
ones that were committed (`IsCommitted`), of a worker that is not being created, whose row has only
gone on since. `WorkerJsonIsTrue` joins the two.

`WorkerClientProofs` proves all five invariants of `WorkerClient` for any programs, any names
and any number of versions. It assumes that programs are what a parser can give
(`ProgramsAssumption`) and that `Null` is no text (`NullAssumption`). Most of the work are lemmas about
the operators: a `Listing` has each element once and in order (`ListingFacts`), what is picked from a sequence is
in its order (`PickFacts`), so that the declarations of a program are those that were written
(`DeclsFacts`), and those of the compiled program are theirs (`SchemaFacts`, `SchemaPlaces`).

- `RefusedForCause` follows from `BuildInv`: what is built is what its program is compiled to, without the
  declarations that the parser does not find (`Places`).
  `ValidPrograms` is the heart of it, that the rules of the three parsers together are those of
  `IsValid`, class by class (`ProperClasses`, `SerializedClasses`) and name by name (`DuplicatesAreAsWritten`).
- `ImportsReachTheirModule` follows from `BuildInv` and a lemma about paths: `RelativeLeadsThere`, that
  resolving the relative path between two directories leads from one to the other, whatever they share.
  Steps are followed one at a time by a function of how many were taken (`Walks`).
- `ClientIsOfOneVersion` follows from `WrittenVersion`: only one who found the directory empty writes.
- `RegisteredAreTheWorkers` and `ClientCallsWorker` follow from `History`: there is a sequence of what was deployed
  (`IsGeneration`), one program and table of ids per version, of which everything was made that is
  around - the files of the client, those still to be written, and what a program has registered - each of the
  version that it says (`HasHistory`). Without it nothing can be said of a client whose version
  is no longer live. `ClientFacts` and `DeclaredIsCalled` then compare two results of one source: the index
  and the code generated from it, and the type definitions.

`ClientValuesProofs` proves all four invariants of `ClientValues` for values nested to any depth, any Data of
the client with any references among them, any calls, and any responses and messages, from the module's
named assumptions (`LayersAssumption`, `HeapsAssumption`, `CallsAssumption`, `SaysAssumption`,
`NullAssumption`). The inductive invariant, `Told`, is short, since an exchange has few steps: a call that is on the
wire was not refused and is there as `RequestFor` it, what the worker said is one of its answers, and the outcome
is what the client reads from what was written for that. The work is in the operators.

- *Recursion.* What is recursive in the code is a recursive function on `Values` or `Tables`. Each is shown to solve
  its equation, layer by layer (`SerializableIs` to `PreservedIs`), by an induction over the number of
  layers that `Induct` derives from the well-foundedness of `<` for a given set, and `ValueInduction` makes
  an induction over values of it: a set that has each value of which it has everything inside has all of them.
- `TransferComplete` follows from `TransferFacts`: as many steps as there are Data empty the queue, which
  has had each Data once and ends as the least set with the roots and all that their properties refer to.
- `RefusedForCause` follows from it and `RefusedFacts`: what stops a value, or one of the Data that it
  reaches, is what the property calls a cause (`Cause`).
- `ReturnPreserved` is `RoundTrip`, by `ValueInduction`: one lemma per kind of value (`LeafBecomes`,
  `ArrayBecomes`, `SetBecomes`, `MapBecomes`, `ObjectBecomes`). `ReadCreate` says that a field that was
  left out because it has its default is read as what was written; `PostponedFacts`, that the order in
  which references come last has every position once; a Map or a Set loses no entry but one whose key
  was there already.
- `ReceivedAsMeant` joins `RoundTrip` for the properties of Data, deltas and messages (`DataRead`, `DeltasRead`,
  `EventFacts`) with `ResponseFacts`, that a response is read as the type it was written as, and
  `HandledFacts`, that handling the events of an answer before its updates drops none of them.

## 5. What is only model-checked, and what is not modelled

Only model-checked:

- liveness (`RequestsAnswered` of both modules, `EntriesAttendedTo`, `CallsSettle`): the
  provers handle neither fairness nor ENABLED.

Every invariant and every action property that a passing run checks is proved.

The type invariants (`TypeOK`) of the modules with proofs are not properties of runs:
they are proved for all values.

Not modelled in the parts that are:

- *WorkerProcessTable*: bytes of the shared tree and set while two are inside a torn section; sizes
  of the shared memory; a Launcher that is shut down by a signal.
- *DatabaseManager*: memory that is leaked; reads of the index and source outside a
  transaction (`get_worker_index`, `get_engine_source`), which change nothing. Error
  paths that leave RocksDB open are in the model.
- *WorkerObject*: two requests that work on one object at the same time (here they
  follow each other, as those do whose transactions commit), collisions of
  checksums, several deltas of one object in a request, objects that refer to others
  (`saveDataGraphs` saves each of them as `saveData` does), the contents of messages.
- *ClientData*: services that purge what they delete; objects with more than one property and one reference; that
  a client may unsubscribe from updates of a key. What River does with
  the messages of a response for several sessions is not modelled.
- *ClientConnection*: the chain of writes of a session (`Sender`), HTTP upgrades, the sizes of
  messages, several clients.
- *ClientValues*: bytes and text; what scripts of the worker do to a value.
- *WorkerClient*: TypeScript, source text, npm and the program's `package.json`; names exported apart from
  their declarations (`export {A}`, and `export default A` of a class declared before), default exports
  that have no name.
- *WorkerDeploy*: accounts and their limits, the user's key in Redis, renaming a worker, ids
  beyond 16 bits, and editing between the start of a deployment and its answer.

Parts not modelled at all:

- *Innerspace* (connections, servers, endpoint and client caches): callbacks of
  boost::asio over threads that join one another and break off. A model of it
  needs the executor's threads and the moments at which each callback may still come. Its
  hazard is in the list without a property.
- *Jayne's accounts, keys and web server*: single transactions of MySQL, a call
  of an identity service, and a cache in Redis.
- *Buffer pool, object pool, thread pool*: each operation is one critical section.
- *V8 isolates, console output, conversion of values in a worker process*: calls into V8
  without state between requests.
- *FlatBuffers' generated code, logging, configuration readers, the documentation site,
  build files and examples*: no behaviour of the running system.

## 6. What the models show of the code, and what is left

Three runs find a violation, with the lines in `findings`: a process that ends unlocks a mutex
that somebody else has, a deletion and an opening wait for
each other's mutex, and a late reference is put over a newer one. Other things that
were met while the code was modelled, and that the properties allow for or are stated around:

- native: processes killed in a critical section leave the shared mutex locked
  (`worker-process-table.cpp:173`); `run_daemon` sets `keep_running_daemon` after `start()`
  (`worker-process.cpp:140`); RocksDB stays open after errors of an opening
  (`server.cpp:2034`) and a transaction leaks when its version differs (1871); holders of a database may
  commit after its deletion was answered (2072); reading a property that does not exist makes a
  new version that no delta tells (1388), and a new object without properties is not written
  (825); a purged object starts again at version 1 (890), for a client that holds the old one too; unsaved changes are
  answered as a success (3302), unlike `runtime-index.d.ts:26`; requests that only read are
  never validated by a commit (`user.h:79`); a second unsubscribe dereferences a missing entry
  (`subscription.h:132`); faults of Innerspace leave queued requests unanswered (`innerspace.h:195`, 305).
- client: `getDataAsync` throws where its comment says null (`worker.ts:49`); `-0` becomes `0`, entries of a
  Map whose keys become equal collapse, and a property named `""` can be saved and never read
  (`serde.ts:625`); properties deleted locally are not sent (267); a failing
  load or listener ends a tracker with its queues (`tracker.ts:135`).
- tools and Jayne: the comparison of class mappings looks at names only; static service methods, and services that are default exports, are declared
  for the client and not generated; default exports are deployed unchecked; a class that extends a worker's Data is put before it in
  `index.js`, which then fails to load; `foo.ts` and `foo/index.ts` are confused; a function and a class of one name in
  two modules break `index.js`; free functions and classes are not exported to ES modules; the two kinds of modules
  have separate registries; a lost answer leaves a developer's `worker.json` behind for good,
  a commit that fails after Serenity's setup leaves the worker undeployable, a
  deletion that fails between Serenity and MySQL can never be completed, and a worker that never
  had a class has no `worker.json` (`worker-config.ts:43`).

What is left, in the order of what it would add:

1. Innerspace's connections and the two caches above them: each request answered at most
   once, and at least once unless its connection faults. `fault` joins threads with two mutexes held
   (`innerspace.h:188`), one of the ten hazards in the list that no property is about: of the others the code promises nothing, as their notes say.
2. Concurrent transactions over the keys of several objects, against a serial
   store: the reads that are tracked and those that are not.
3. River's broadcast to several sessions, on top of the subscriptions of `ClientConnection`.
