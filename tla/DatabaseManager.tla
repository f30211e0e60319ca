---------------------------- MODULE DatabaseManager ----------------------------
(***************************************************************************)
(* The database of one worker (server.cpp, DatabaseManager and             *)
(* DatabaseImpl), as the request handlers of its worker process open, use, *)
(* delete and close it (handler/user.h, handler/admin.h).                  *)
(*                                                                         *)
(* A worker process serves one worker, so of open_database_mutexes and     *)
(* databases only that worker's member is modelled. What a transaction     *)
(* reads and writes besides the worker's version is left out: it may       *)
(* conflict with another one over an object at any time.                   *)
(***************************************************************************)
EXTENDS Integers

CONSTANTS
  Threads,     \* the threads of the process that handle requests
  MaxVersion,  \* bounds the versions of the worker
  NoThread     \* the mutex is free

ASSUME ThreadsAssumption == NoThread \notin Threads
ASSUME VersionAssumption == MaxVersion \in Nat \ {0}

VARIABLES
  created,       \* the data directory holds a RocksDB database
  version,       \* on disk: the worker's version, 0 when there is none
  index,         \* on disk: the version whose index and source are saved
  deleted_flag,  \* on disk: the key "deleted"
  deleted_file,  \* on disk: the file that says so too
  in_map,        \* databases has the worker's database
  leaked,        \* a failed open_database has left RocksDB open
  outer,         \* who has locked open_databases_mutexes_mutex
  inner,         \* who has locked the worker's own mutex
  tpc,           \* where each thread is
  request,       \* the request it handles
  holds,         \* it has a reference to the database
  outdated,      \* the version has been written since its transaction read it
  deployed       \* the first SetupWorker request has been sent

diskVars == <<created, version, index, deleted_flag, deleted_file>>
lockVars == <<outer, inner>>
openVars == <<in_map, leaked, holds>>
vars == <<diskVars, lockVars, openVars, tpc, request, outdated, deployed>>

Versions == 1..MaxVersion

\* is_new is request.previous = 0; a user's request has no previous version.
Requests ==
  [kind : {"setup"}, previous : 0..MaxVersion, version : Versions]
    \cup [kind : {"user", "delete"}, previous : {0}, version : Versions]

IsNew(t) == request[t].kind = "setup" /\ request[t].previous = 0

\* RocksDB's LOCK file: the worker's database is open already. It is closed
\* when the last reference to it is dropped.
IsOpen ==
  \/ in_map
  \/ leaked
  \/ \E t \in Threads : holds[t] \/ tpc[t] \in {"put_version", "check_flag"}

Init ==
  /\ created = FALSE /\ version = 0 /\ index = 0
  /\ deleted_flag = FALSE /\ deleted_file = FALSE
  /\ in_map = FALSE /\ leaked = FALSE
  /\ outer = NoThread /\ inner = NoThread
  /\ tpc = [t \in Threads |-> "idle"]
  /\ request = [t \in Threads |-> [kind |-> "user", previous |-> 0, version |-> 1]]
  /\ holds = [t \in Threads |-> FALSE]
  /\ outdated = [t \in Threads |-> FALSE]
  /\ deployed = FALSE

GoTo(t, pc) == tpc' = [tpc EXCEPT ![t] = pc]

\* The handler answers and drops its reference to the database.
Respond(t) ==
  /\ GoTo(t, "idle")
  /\ holds' = [holds EXCEPT ![t] = FALSE]

-----------------------------------------------------------------------------
(* A request is handled from here on. A worker is set up as a new one once, *)
(* with its first version.                                                  *)
Receive(t, r) ==
  /\ tpc[t] = "idle"
  /\ r.kind = "setup" =>
       \/ r.previous = 0 /\ r.version = 1 /\ ~deployed
       \/ r.previous # 0 /\ r.previous < r.version
  /\ GoTo(t, "find")
  /\ request' = [request EXCEPT ![t] = r]
  /\ outdated' = [outdated EXCEPT ![t] = FALSE]
  /\ deployed' = (deployed \/ (r.kind = "setup" /\ r.previous = 0))
  /\ UNCHANGED <<diskVars, lockVars, openVars>>

\* What the handler does with the database it has got.
Use(t) == IF request[t].kind = "delete" THEN "mark" ELSE "begin"

\* get_database: try_get_database.
Find(t) ==
  /\ tpc[t] = "find"
  /\ \/ in_map /\ GoTo(t, Use(t)) /\ holds' = [holds EXCEPT ![t] = TRUE]
     \/ ~in_map /\ GoTo(t, "outer") /\ UNCHANGED holds
  /\ UNCHANGED <<diskVars, lockVars, in_map, leaked, request, outdated, deployed>>

\* get_and_lock_open_databases_mutex, called to open and to close: the worker's
\* mutex is waited for with the other one locked.
LockOuter(t) ==
  /\ outer = NoThread
  /\ \/ tpc[t] = "outer" /\ GoTo(t, "inner")
     \/ tpc[t] = "close_outer" /\ GoTo(t, "close_inner")
  /\ outer' = t
  /\ UNCHANGED <<diskVars, inner, openVars, request, outdated, deployed>>

LockInner(t) ==
  /\ inner = NoThread
  /\ \/ tpc[t] = "inner" /\ GoTo(t, "check_file")
     \/ tpc[t] = "close_inner" /\ GoTo(t, "erase")
  /\ inner' = t
  /\ outer' = NoThread
  /\ UNCHANGED <<diskVars, openVars, request, outdated, deployed>>

\* Mutant: the mutex stays locked.
MutantFailToOpen(t) == GoTo(t, "idle") /\ UNCHANGED <<inner, holds>>

\* open_database fails: get_database unlocks the worker's mutex.
FailToOpen(t) ==
  /\ GoTo(t, "idle")
  /\ inner' = NoThread
  /\ UNCHANGED holds

\* open_database: the deleted file.
CheckFile(t) ==
  /\ tpc[t] = "check_file"
  /\ \/ deleted_file /\ FailToOpen(t)
     \/ ~deleted_file /\ GoTo(t, "open") /\ UNCHANGED <<inner, holds>>
  /\ UNCHANGED <<diskVars, outer, in_map, leaked, request, outdated, deployed>>

\* create_if_missing.
MayCreate(t) == IsNew(t)

\* open_database: OptimisticTransactionDB::Open.
Open(t) ==
  /\ tpc[t] = "open"
  /\ \/ /\ IsOpen \/ ~(created \/ MayCreate(t))
        /\ FailToOpen(t)
        /\ UNCHANGED created
     \/ /\ ~IsOpen /\ (created \/ MayCreate(t))
        /\ created' = TRUE
        /\ GoTo(t, IF IsNew(t) THEN "put_version" ELSE "check_flag")
        /\ UNCHANGED <<inner, holds>>
  /\ UNCHANGED <<version, index, deleted_flag, deleted_file, outer, in_map, leaked,
                 request, outdated, deployed>>

\* open_database: the initial version. An error leaves RocksDB open.
PutVersion(t) ==
  /\ tpc[t] = "put_version"
  /\ \/ /\ version' = request[t].version
        /\ GoTo(t, "check_flag")
        /\ UNCHANGED <<leaked, inner, holds>>
     \/ /\ FailToOpen(t)
        /\ leaked' = TRUE
        /\ UNCHANGED version
  /\ UNCHANGED <<created, index, deleted_flag, deleted_file, outer, in_map, request,
                 outdated, deployed>>

\* Mutant: the flag is not looked at, only the file.
MutantSeenDeleted == FALSE

\* is_deleted.
SeenDeleted == deleted_flag

\* open_database: the deleted flag. An error of the read leaves RocksDB open.
CheckFlag(t) ==
  /\ tpc[t] = "check_flag"
  /\ \/ SeenDeleted /\ FailToOpen(t) /\ UNCHANGED leaked
     \/ FailToOpen(t) /\ leaked' = TRUE
     \/ /\ ~SeenDeleted
        /\ GoTo(t, "insert")
        /\ holds' = [holds EXCEPT ![t] = TRUE]
        /\ UNCHANGED <<inner, leaked>>
  /\ UNCHANGED <<diskVars, outer, in_map, request, outdated, deployed>>

\* get_database: the end.
Insert(t) ==
  /\ tpc[t] = "insert"
  /\ in_map' = TRUE
  /\ inner' = NoThread
  /\ GoTo(t, Use(t))
  /\ UNCHANGED <<diskVars, outer, leaked, holds, request, outdated, deployed>>

-----------------------------------------------------------------------------
(* Transactions of the user's and the SetupWorker requests.                 *)

\* The version a request's transaction must find.
VersionToOpen(t) ==
  IF request[t].kind = "setup" /\ ~IsNew(t) THEN request[t].previous
                                            ELSE request[t].version

\* create_transaction. outdated[t] is meaningful from here to the commit.
Begin(t) ==
  /\ tpc[t] = "begin"
  /\ \/ /\ version = VersionToOpen(t)
        /\ GoTo(t, "commit")
        /\ outdated' = [outdated EXCEPT ![t] = FALSE]
        /\ UNCHANGED holds
     \/ /\ version # VersionToOpen(t)
        /\ Respond(t)
        /\ UNCHANGED outdated
  /\ UNCHANGED <<diskVars, lockVars, in_map, leaked, request, deployed>>

\* Mutant: the version is read with Get, which RocksDB does not validate.
MutantConflicts(t) == FALSE

\* RocksDB finds the version written since it was read with GetForUpdate.
Conflicts(t) == outdated[t]

\* The request has no changes, fails, or conflicts with another one.
Abandon(t) ==
  /\ tpc[t] = "commit"
  /\ Respond(t)
  /\ UNCHANGED <<diskVars, lockVars, in_map, leaked, request, outdated, deployed>>

\* A user's request commits its changes of the worker's data.
CommitData(t) ==
  /\ tpc[t] = "commit"
  /\ request[t].kind = "user"
  /\ ~Conflicts(t)
  /\ Respond(t)
  /\ UNCHANGED <<diskVars, lockVars, in_map, leaked, request, outdated, deployed>>

\* Mutant: setup forgets the version, save_worker_index saves only the index.
MutantNewVersion(t) == version

\* save_worker_index writes the version with the index.
NewVersion(t) == request[t].version

\* A SetupWorker request commits the index, the source and the version.
CommitSetup(t) ==
  /\ tpc[t] = "commit"
  /\ request[t].kind = "setup"
  /\ ~Conflicts(t)
  /\ index' = request[t].version
  /\ version' = NewVersion(t)
  /\ outdated' = [s \in Threads |-> IF tpc[s] = "commit" THEN TRUE ELSE outdated[s]]
  /\ Respond(t)
  /\ UNCHANGED <<created, deleted_flag, deleted_file, lockVars, in_map, leaked,
                 request, deployed>>

-----------------------------------------------------------------------------
(* The DeleteWorker request.                                                *)

\* mark_as_deleted: the flag.
Mark(t) ==
  /\ tpc[t] = "mark"
  /\ \/ /\ deleted_flag' = TRUE
        /\ GoTo(t, "touch")
        /\ UNCHANGED holds
     \/ Respond(t) /\ UNCHANGED deleted_flag
  /\ UNCHANGED <<created, version, index, deleted_file, lockVars, in_map, leaked,
                 request, outdated, deployed>>

\* mark_as_deleted: the file; then the handler drops its reference.
Touch(t) ==
  /\ tpc[t] = "touch"
  /\ \/ deleted_file' = TRUE /\ GoTo(t, "close_outer")
     \/ UNCHANGED deleted_file /\ GoTo(t, "idle")
  /\ holds' = [holds EXCEPT ![t] = FALSE]
  /\ UNCHANGED <<created, version, index, deleted_flag, lockVars, in_map, leaked,
                 request, outdated, deployed>>

\* Mutant: the database is left in the map.
MutantStillOpen == in_map

\* databases without the worker.
StillOpen == FALSE

\* close_database: the database is taken out of the map.
Erase(t) ==
  /\ tpc[t] = "erase"
  /\ in_map' = StillOpen
  /\ GoTo(t, "close_unlock")
  /\ UNCHANGED <<diskVars, lockVars, leaked, holds, request, outdated, deployed>>

\* close_database: the worker's mutex is unlocked and erased under the other one.
CloseUnlock(t) ==
  /\ tpc[t] = "close_unlock"
  /\ outer = NoThread
  /\ inner' = NoThread
  /\ Respond(t)
  /\ UNCHANGED <<diskVars, outer, in_map, leaked, request, outdated, deployed>>

-----------------------------------------------------------------------------
\* The process ends, by a crash or once its worker is deleted, and another one
\* is started for the worker when it is asked for.
Restart ==
  /\ in_map' = FALSE /\ leaked' = FALSE
  /\ outer' = NoThread /\ inner' = NoThread
  /\ tpc' = [t \in Threads |-> "idle"]
  /\ holds' = [t \in Threads |-> FALSE]
  /\ outdated' = [t \in Threads |-> FALSE]
  /\ UNCHANGED <<diskVars, request, deployed>>

GetDatabase(t) ==
  \/ Find(t) \/ LockOuter(t) \/ LockInner(t) \/ CheckFile(t)
  \/ Open(t) \/ PutVersion(t) \/ CheckFlag(t) \/ Insert(t)

Transact(t) == Begin(t) \/ Abandon(t) \/ CommitData(t) \/ CommitSetup(t)

Delete(t) == Mark(t) \/ Touch(t) \/ Erase(t) \/ CloseUnlock(t)

Handle(t) == GetDatabase(t) \/ Transact(t) \/ Delete(t)

Next ==
  \/ \E t \in Threads :
       \/ \E r \in Requests : Receive(t, r)
       \/ Handle(t)
  \/ Restart

Spec == Init /\ [][Next]_vars

\* Threads run, and mutexes are not starved.
Fairness == \A t \in Threads : WF_vars(Handle(t)) /\ SF_vars(LockOuter(t))
                               /\ SF_vars(LockInner(t)) /\ SF_vars(CloseUnlock(t))

FairSpec == Spec /\ Fairness

-----------------------------------------------------------------------------
(* Properties.                                                              *)

\* Every variable has a value of its kind.
TypeOK ==
  /\ created \in BOOLEAN
  /\ version \in 0..MaxVersion
  /\ index \in 0..MaxVersion
  /\ deleted_flag \in BOOLEAN
  /\ deleted_file \in BOOLEAN
  /\ in_map \in BOOLEAN
  /\ leaked \in BOOLEAN
  /\ outer \in Threads \cup {NoThread}
  /\ inner \in Threads \cup {NoThread}
  /\ tpc \in [Threads -> {"idle", "find", "outer", "inner", "check_file", "open",
                          "put_version", "check_flag", "insert", "begin", "commit",
                          "mark", "touch", "close_outer", "close_inner", "erase",
                          "close_unlock"}]
  /\ request \in [Threads -> Requests]
  /\ holds \in [Threads -> BOOLEAN]
  /\ outdated \in [Threads -> BOOLEAN]
  /\ deployed \in BOOLEAN

\* A database with its deleted file is in the map only while a deletion is about
\* to take it out: once DeleteWorker requests are answered, none is left there for
\* other requests, although they may delete at the same time, fail or compete with
\* requests that open it.
DeletedIsClosing ==
  deleted_file /\ in_map =>
    \E t \in Threads : tpc[t] \in {"close_outer", "close_inner", "erase"}

\* "Close the database so it can't be opened again": no request gets a database
\* that was marked as deleted and is not in the map, in this process or in a later
\* one, even if the deletion ended between the flag and the file. The requests that
\* hold it go on.
DeletionIsFinal ==
  [][deleted_flag /\ ~in_map
       => /\ deleted_flag' /\ ~in_map'
          /\ \A t \in Threads : holds'[t] => holds[t]]_vars

\* A request commits only under the version of the worker that it was made for:
\* a SetupWorker request between its first read and its commit makes it fail.
\* A worker is never moved to a new version from another than the expected one.
CommitsUnderItsVersion ==
  [][\A t \in Threads :
       CommitData(t) \/ CommitSetup(t) => version = VersionToOpen(t)]_vars

\* The index and source that requests are handled with are those of the current
\* version, once there are any: whatever setups crash, fail or compete.
IndexIsOfVersion == index # 0 => index = version

\* A DeleteWorker request that has marked the database as deleted is answered,
\* unless the process ends: "Close the database so it can't be opened again",
\* "All done".
DeletionIsAnswered ==
  \A t \in Threads : tpc[t] = "touch" ~> tpc[t] = "idle"

\* No request is kept waiting for the database as long as none deletes it.
RequestsAnswered ==
  \A t \in Threads :
    tpc[t] = "find"
      ~> tpc[t] = "idle" \/ \E s \in Threads : tpc[s] = "close_unlock"

=============================================================================
