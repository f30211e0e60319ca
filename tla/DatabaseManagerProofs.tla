------------------------- MODULE DatabaseManagerProofs -------------------------
(***************************************************************************)
(* Proofs about DatabaseManager, for any set of threads and any number of  *)
(* versions.                                                               *)
(***************************************************************************)
EXTENDS DatabaseManager, TLAPS

(* The inductive invariant.                                                *)

\* Where a thread has locked the worker's mutex, and where it has a reference
\* to the database.
InnerPcs == {"check_file", "open", "put_version", "check_flag", "insert", "erase",
             "close_unlock"}
HoldPcs  == {"insert", "begin", "commit", "mark", "touch"}

MutexInv == \A t \in Threads : tpc[t] \in InnerPcs => inner = t

HoldInv == \A t \in Threads : holds[t] <=> tpc[t] \in HoldPcs

\* A thread that has opened RocksDB and not put the database in the map yet is
\* the only one that uses it.
OpensAlone ==
  \A t \in Threads : tpc[t] \in {"put_version", "check_flag", "insert"} =>
    /\ ~in_map
    /\ \A s \in Threads : s # t => tpc[s] \notin HoldPcs

\* The flag is written before the file, and after it has been looked at.
FlagInv ==
  /\ deleted_file => deleted_flag
  /\ \A t \in Threads :
       /\ tpc[t] = "touch" => deleted_flag
       /\ tpc[t] = "insert" => ~deleted_flag

\* A transaction that may commit has read the current version.
ReadInv ==
  \A t \in Threads :
    tpc[t] = "commit" /\ request[t].kind \in {"user", "setup"}
      => outdated[t] \/ version = VersionToOpen(t)

\* The worker is new until the request that sets it up as new has written the
\* initial version.
NewAt(t) == tpc[t] # "idle" /\ IsNew(t)

FirstSetupInv ==
  /\ version # 0 => deployed
  /\ \A t \in Threads :
       /\ NewAt(t) => deployed
       /\ \A s \in Threads : NewAt(t) /\ NewAt(s) => s = t
       /\ tpc[t] = "put_version" => IsNew(t)
       /\ /\ NewAt(t)
          /\ tpc[t] \in {"find", "outer", "inner", "check_file", "open", "put_version"}
          => version = 0

IInv ==
  /\ TypeOK
  /\ MutexInv
  /\ HoldInv
  /\ OpensAlone
  /\ FlagInv
  /\ DeletedIsClosing
  /\ ReadInv
  /\ FirstSetupInv
  /\ IndexIsOfVersion

-----------------------------------------------------------------------------
\* The fields of a request.
LEMMA RequestTypes ==
  ASSUME NEW r \in Requests
  PROVE  r.version \in Versions /\ r.previous \in 0..MaxVersion
<1>1. CASE r \in [kind : {"setup"}, previous : 0..MaxVersion, version : Versions]
  BY <1>1
<1>2. CASE r \in [kind : {"user", "delete"}, previous : {0}, version : Versions]
  BY <1>2, VersionAssumption
<1> QED
  BY <1>1, <1>2 DEF Requests

\* The initial states.
LEMMA InitIInv == Init => IInv
<1> SUFFICES ASSUME Init PROVE IInv
  OBVIOUS
<1>1. TypeOK
  <2> DEFINE first == [kind |-> "user", previous |-> 0, version |-> 1]
  <2>1. first \in Requests
    <3>1. first \in [kind : {"user", "delete"}, previous : {0}, version : Versions]
      BY VersionAssumption DEF Versions
    <3> QED
      BY <3>1 DEF Requests
  <2>2. request = [t \in Threads |-> first]
    BY DEF Init
  <2> HIDE DEF first
  <2>3. request \in [Threads -> Requests]
    BY <2>1, <2>2
  <2>4. version \in 0..MaxVersion /\ index \in 0..MaxVersion
    BY VersionAssumption DEF Init
  <2>5. holds \in [Threads -> BOOLEAN] /\ outdated \in [Threads -> BOOLEAN]
    BY DEF Init
  <2> QED
    BY <2>3, <2>4, <2>5 DEF Init, TypeOK
<1> QED
  BY <1>1 DEF Init, IInv, MutexInv, HoldInv, OpensAlone, FlagInv, DeletedIsClosing, ReadInv,
              FirstSetupInv, NewAt, IndexIsOfVersion, InnerPcs, HoldPcs


\* The invariant is preserved by every step of get_database.
LEMMA GetDatabaseStep ==
  ASSUME IInv, NEW t \in Threads, GetDatabase(t)
  PROVE  IInv'
<1> USE ThreadsAssumption, VersionAssumption
<1>1. CASE Find(t)
  <2>1. TypeOK'
    BY <1>1 DEF IInv, TypeOK, Find, GoTo, Use, diskVars, lockVars, openVars
  <2>2. MutexInv' /\ HoldInv' /\ OpensAlone'
    BY <1>1 DEF IInv, TypeOK, MutexInv, InnerPcs, HoldInv, HoldPcs, OpensAlone, Find, GoTo,
                Use, diskVars, lockVars, openVars
  <2>3. FlagInv' /\ DeletedIsClosing'
    BY <1>1 DEF IInv, TypeOK, HoldInv, OpensAlone, FlagInv, DeletedIsClosing, Find, GoTo,
                Use, diskVars, lockVars, openVars
  <2>4. ReadInv'
    BY <1>1 DEF IInv, TypeOK, HoldInv, OpensAlone, ReadInv, VersionToOpen, IsNew, Find,
                GoTo, Use, diskVars, lockVars, openVars
  <2>5. FirstSetupInv' /\ IndexIsOfVersion'
    BY <1>1 DEF IInv, TypeOK, FirstSetupInv, ReadInv, NewAt, IsNew, IndexIsOfVersion, Find,
                GoTo, Use, diskVars, lockVars, openVars
  <2> QED
    BY <2>1, <2>2, <2>3, <2>4, <2>5 DEF IInv
<1>2. CASE LockOuter(t)
  <2>1. TypeOK'
    BY <1>2 DEF IInv, TypeOK, LockOuter, GoTo, diskVars, lockVars, openVars
  <2>2. MutexInv' /\ HoldInv' /\ OpensAlone'
    BY <1>2 DEF IInv, TypeOK, MutexInv, InnerPcs, HoldInv, HoldPcs, OpensAlone, LockOuter,
                GoTo, diskVars, lockVars, openVars
  <2>3. FlagInv' /\ DeletedIsClosing'
    BY <1>2 DEF IInv, TypeOK, HoldInv, OpensAlone, FlagInv, DeletedIsClosing, LockOuter,
                GoTo, diskVars, lockVars, openVars
  <2>4. ReadInv'
    BY <1>2 DEF IInv, TypeOK, HoldInv, OpensAlone, ReadInv, VersionToOpen, IsNew, LockOuter,
                GoTo, diskVars, lockVars, openVars
  <2>5. FirstSetupInv' /\ IndexIsOfVersion'
    BY <1>2 DEF IInv, TypeOK, FirstSetupInv, ReadInv, NewAt, IsNew, IndexIsOfVersion,
                LockOuter, GoTo, diskVars, lockVars, openVars
  <2> QED
    BY <2>1, <2>2, <2>3, <2>4, <2>5 DEF IInv
<1>3. CASE LockInner(t)
  <2>1. TypeOK'
    BY <1>3 DEF IInv, TypeOK, LockInner, GoTo, diskVars, lockVars, openVars
  <2>2. MutexInv' /\ HoldInv' /\ OpensAlone'
    BY <1>3 DEF IInv, TypeOK, MutexInv, InnerPcs, HoldInv, HoldPcs, OpensAlone, LockInner,
                GoTo, diskVars, lockVars, openVars
  <2>3. FlagInv' /\ DeletedIsClosing'
    BY <1>3 DEF IInv, TypeOK, HoldInv, OpensAlone, FlagInv, DeletedIsClosing, LockInner,
                GoTo, diskVars, lockVars, openVars
  <2>4. ReadInv'
    BY <1>3 DEF IInv, TypeOK, HoldInv, OpensAlone, ReadInv, VersionToOpen, IsNew, LockInner,
                GoTo, diskVars, lockVars, openVars
  <2>5. FirstSetupInv' /\ IndexIsOfVersion'
    BY <1>3 DEF IInv, TypeOK, FirstSetupInv, ReadInv, NewAt, IsNew, IndexIsOfVersion,
                LockInner, GoTo, diskVars, lockVars, openVars
  <2> QED
    BY <2>1, <2>2, <2>3, <2>4, <2>5 DEF IInv
<1>4. CASE CheckFile(t)
  <2>1. TypeOK'
    BY <1>4 DEF IInv, TypeOK, CheckFile, GoTo, FailToOpen, diskVars, lockVars, openVars
  <2>2. MutexInv' /\ HoldInv' /\ OpensAlone'
    BY <1>4 DEF IInv, TypeOK, MutexInv, InnerPcs, HoldInv, HoldPcs, OpensAlone, CheckFile,
                GoTo, FailToOpen, diskVars, lockVars, openVars
  <2>3. FlagInv' /\ DeletedIsClosing'
    BY <1>4 DEF IInv, TypeOK, HoldInv, OpensAlone, FlagInv, DeletedIsClosing, CheckFile,
                GoTo, FailToOpen, diskVars, lockVars, openVars
  <2>4. ReadInv'
    BY <1>4 DEF IInv, TypeOK, HoldInv, OpensAlone, ReadInv, VersionToOpen, IsNew, CheckFile,
                GoTo, FailToOpen, diskVars, lockVars, openVars
  <2>5. FirstSetupInv' /\ IndexIsOfVersion'
    BY <1>4 DEF IInv, TypeOK, FirstSetupInv, ReadInv, NewAt, IsNew, IndexIsOfVersion,
                CheckFile, GoTo, FailToOpen, diskVars, lockVars, openVars
  <2> QED
    BY <2>1, <2>2, <2>3, <2>4, <2>5 DEF IInv
<1>5. CASE Open(t)
  <2>1. TypeOK'
    BY <1>5 DEF IInv, TypeOK, Open, GoTo, FailToOpen, IsOpen, MayCreate, diskVars, lockVars,
                openVars
  <2>2. MutexInv' /\ HoldInv' /\ OpensAlone'
    BY <1>5 DEF IInv, TypeOK, MutexInv, InnerPcs, HoldInv, HoldPcs, OpensAlone, Open, GoTo,
                FailToOpen, IsOpen, MayCreate, diskVars, lockVars, openVars
  <2>3. FlagInv' /\ DeletedIsClosing'
    BY <1>5 DEF IInv, TypeOK, HoldInv, OpensAlone, FlagInv, DeletedIsClosing, Open, GoTo,
                FailToOpen, IsOpen, MayCreate, diskVars, lockVars, openVars
  <2>4. ReadInv'
    BY <1>5 DEF IInv, TypeOK, HoldInv, OpensAlone, ReadInv, VersionToOpen, IsNew, Open,
                GoTo, FailToOpen, IsOpen, MayCreate, diskVars, lockVars, openVars
  <2>5. FirstSetupInv' /\ IndexIsOfVersion'
    BY <1>5 DEF IInv, TypeOK, FirstSetupInv, ReadInv, NewAt, IsNew, IndexIsOfVersion, Open,
                GoTo, FailToOpen, IsOpen, MayCreate, diskVars, lockVars, openVars
  <2> QED
    BY <2>1, <2>2, <2>3, <2>4, <2>5 DEF IInv
<1>6. CASE PutVersion(t)
  <2>1. TypeOK'
    <3>1. request[t].version \in 0..MaxVersion
      BY RequestTypes DEF IInv, TypeOK, Versions
    <3> QED
      BY <1>6, <3>1 DEF IInv, TypeOK, PutVersion, GoTo, FailToOpen, diskVars, lockVars,
                        openVars
  <2>2. MutexInv' /\ HoldInv' /\ OpensAlone'
    BY <1>6 DEF IInv, TypeOK, MutexInv, InnerPcs, HoldInv, HoldPcs, OpensAlone, PutVersion,
                GoTo, FailToOpen, diskVars, lockVars, openVars
  <2>3. FlagInv' /\ DeletedIsClosing'
    BY <1>6 DEF IInv, TypeOK, HoldInv, OpensAlone, FlagInv, DeletedIsClosing, PutVersion,
                GoTo, FailToOpen, diskVars, lockVars, openVars
  <2>4. ReadInv'
    BY <1>6 DEF IInv, TypeOK, HoldInv, OpensAlone, ReadInv, VersionToOpen, IsNew, HoldPcs,
                PutVersion, GoTo, FailToOpen, diskVars, lockVars, openVars
  <2>5. FirstSetupInv' /\ IndexIsOfVersion'
    BY <1>6 DEF IInv, TypeOK, FirstSetupInv, ReadInv, NewAt, IsNew, IndexIsOfVersion,
                PutVersion, GoTo, FailToOpen, diskVars, lockVars, openVars
  <2> QED
    BY <2>1, <2>2, <2>3, <2>4, <2>5 DEF IInv
<1>7. CASE CheckFlag(t)
  <2>1. TypeOK'
    BY <1>7 DEF IInv, TypeOK, CheckFlag, GoTo, FailToOpen, SeenDeleted, diskVars, lockVars,
                openVars
  <2>2. MutexInv' /\ HoldInv' /\ OpensAlone'
    BY <1>7 DEF IInv, TypeOK, MutexInv, InnerPcs, HoldInv, HoldPcs, OpensAlone, CheckFlag,
                GoTo, FailToOpen, SeenDeleted, diskVars, lockVars, openVars
  <2>3. FlagInv' /\ DeletedIsClosing'
    BY <1>7 DEF IInv, TypeOK, HoldInv, OpensAlone, FlagInv, DeletedIsClosing, CheckFlag,
                GoTo, FailToOpen, SeenDeleted, diskVars, lockVars, openVars
  <2>4. ReadInv'
    BY <1>7 DEF IInv, TypeOK, HoldInv, OpensAlone, ReadInv, VersionToOpen, IsNew, CheckFlag,
                GoTo, FailToOpen, SeenDeleted, diskVars, lockVars, openVars
  <2>5. FirstSetupInv' /\ IndexIsOfVersion'
    BY <1>7 DEF IInv, TypeOK, FirstSetupInv, ReadInv, NewAt, IsNew, IndexIsOfVersion,
                CheckFlag, GoTo, FailToOpen, SeenDeleted, diskVars, lockVars, openVars
  <2> QED
    BY <2>1, <2>2, <2>3, <2>4, <2>5 DEF IInv
<1>8. CASE Insert(t)
  <2>1. TypeOK'
    BY <1>8 DEF IInv, TypeOK, Insert, GoTo, Use, diskVars, lockVars, openVars
  <2>2. MutexInv' /\ HoldInv' /\ OpensAlone'
    BY <1>8 DEF IInv, TypeOK, MutexInv, InnerPcs, HoldInv, HoldPcs, OpensAlone, Insert,
                GoTo, Use, diskVars, lockVars, openVars
  <2>3. FlagInv' /\ DeletedIsClosing'
    BY <1>8 DEF IInv, TypeOK, HoldInv, OpensAlone, FlagInv, DeletedIsClosing, Insert, GoTo,
                Use, diskVars, lockVars, openVars
  <2>4. ReadInv'
    BY <1>8 DEF IInv, TypeOK, HoldInv, OpensAlone, ReadInv, VersionToOpen, IsNew, Insert,
                GoTo, Use, diskVars, lockVars, openVars
  <2>5. FirstSetupInv' /\ IndexIsOfVersion'
    BY <1>8 DEF IInv, TypeOK, FirstSetupInv, ReadInv, NewAt, IsNew, IndexIsOfVersion,
                Insert, GoTo, Use, diskVars, lockVars, openVars
  <2> QED
    BY <2>1, <2>2, <2>3, <2>4, <2>5 DEF IInv
<1> QED
  BY <1>1, <1>2, <1>3, <1>4, <1>5, <1>6, <1>7, <1>8 DEF GetDatabase

\* The invariant is preserved by every step of a transaction.
LEMMA TransactStep ==
  ASSUME IInv, NEW t \in Threads, Transact(t)
  PROVE  IInv'
<1> USE ThreadsAssumption, VersionAssumption
<1>1. CASE Begin(t)
  <2>1. TypeOK'
    BY <1>1 DEF IInv, TypeOK, Begin, GoTo, Respond, VersionToOpen, diskVars, lockVars,
                openVars
  <2>2. MutexInv' /\ HoldInv' /\ OpensAlone'
    BY <1>1 DEF IInv, TypeOK, MutexInv, InnerPcs, HoldInv, HoldPcs, OpensAlone, Begin, GoTo,
                Respond, VersionToOpen, diskVars, lockVars, openVars
  <2>3. FlagInv' /\ DeletedIsClosing'
    BY <1>1 DEF IInv, TypeOK, HoldInv, OpensAlone, FlagInv, DeletedIsClosing, Begin, GoTo,
                Respond, VersionToOpen, diskVars, lockVars, openVars
  <2>4. ReadInv'
    BY <1>1 DEF IInv, TypeOK, HoldInv, OpensAlone, ReadInv, VersionToOpen, IsNew, Begin,
                GoTo, Respond, diskVars, lockVars, openVars
  <2>5. FirstSetupInv' /\ IndexIsOfVersion'
    BY <1>1 DEF IInv, TypeOK, FirstSetupInv, ReadInv, NewAt, IsNew, IndexIsOfVersion, Begin,
                GoTo, Respond, VersionToOpen, diskVars, lockVars, openVars
  <2> QED
    BY <2>1, <2>2, <2>3, <2>4, <2>5 DEF IInv
<1>2. CASE Abandon(t)
  <2>1. TypeOK'
    BY <1>2 DEF IInv, TypeOK, Abandon, Respond, GoTo, diskVars, lockVars, openVars
  <2>2. MutexInv' /\ HoldInv' /\ OpensAlone'
    BY <1>2 DEF IInv, TypeOK, MutexInv, InnerPcs, HoldInv, HoldPcs, OpensAlone, Abandon,
                Respond, GoTo, diskVars, lockVars, openVars
  <2>3. FlagInv' /\ DeletedIsClosing'
    BY <1>2 DEF IInv, TypeOK, HoldInv, OpensAlone, FlagInv, DeletedIsClosing, Abandon,
                Respond, GoTo, diskVars, lockVars, openVars
  <2>4. ReadInv'
    BY <1>2 DEF IInv, TypeOK, HoldInv, OpensAlone, ReadInv, VersionToOpen, IsNew, Abandon,
                Respond, GoTo, diskVars, lockVars, openVars
  <2>5. FirstSetupInv' /\ IndexIsOfVersion'
    BY <1>2 DEF IInv, TypeOK, FirstSetupInv, ReadInv, NewAt, IsNew, IndexIsOfVersion,
                Abandon, Respond, GoTo, diskVars, lockVars, openVars
  <2> QED
    BY <2>1, <2>2, <2>3, <2>4, <2>5 DEF IInv
<1>3. CASE CommitData(t)
  <2>1. TypeOK'
    BY <1>3 DEF IInv, TypeOK, CommitData, Respond, GoTo, Conflicts, diskVars, lockVars,
                openVars
  <2>2. MutexInv' /\ HoldInv' /\ OpensAlone'
    BY <1>3 DEF IInv, TypeOK, MutexInv, InnerPcs, HoldInv, HoldPcs, OpensAlone, CommitData,
                Respond, GoTo, Conflicts, diskVars, lockVars, openVars
  <2>3. FlagInv' /\ DeletedIsClosing'
    BY <1>3 DEF IInv, TypeOK, HoldInv, OpensAlone, FlagInv, DeletedIsClosing, CommitData,
                Respond, GoTo, Conflicts, diskVars, lockVars, openVars
  <2>4. ReadInv'
    BY <1>3 DEF IInv, TypeOK, HoldInv, OpensAlone, ReadInv, VersionToOpen, IsNew,
                CommitData, Respond, GoTo, Conflicts, diskVars, lockVars, openVars
  <2>5. FirstSetupInv' /\ IndexIsOfVersion'
    BY <1>3 DEF IInv, TypeOK, FirstSetupInv, ReadInv, NewAt, IsNew, IndexIsOfVersion,
                CommitData, Respond, GoTo, Conflicts, diskVars, lockVars, openVars
  <2> QED
    BY <2>1, <2>2, <2>3, <2>4, <2>5 DEF IInv
<1>4. CASE CommitSetup(t)
  <2>1. TypeOK'
    <3>1. request[t].version \in 0..MaxVersion
      BY RequestTypes DEF IInv, TypeOK, Versions
    <3> QED
      BY <1>4, <3>1 DEF IInv, TypeOK, CommitSetup, Respond, GoTo, Conflicts, NewVersion,
                        diskVars, lockVars, openVars
  <2>2. MutexInv' /\ HoldInv' /\ OpensAlone'
    BY <1>4 DEF IInv, TypeOK, MutexInv, InnerPcs, HoldInv, HoldPcs, OpensAlone, CommitSetup,
                Respond, GoTo, Conflicts, NewVersion, VersionToOpen, diskVars, lockVars,
                openVars
  <2>3. FlagInv' /\ DeletedIsClosing'
    BY <1>4 DEF IInv, TypeOK, HoldInv, OpensAlone, FlagInv, DeletedIsClosing, CommitSetup,
                Respond, GoTo, Conflicts, NewVersion, VersionToOpen, diskVars, lockVars,
                openVars
  <2>4. ReadInv'
    BY <1>4 DEF IInv, TypeOK, HoldInv, OpensAlone, ReadInv, VersionToOpen, IsNew,
                CommitSetup, Respond, GoTo, Conflicts, NewVersion, diskVars, lockVars,
                openVars
  <2>5. FirstSetupInv' /\ IndexIsOfVersion'
    BY <1>4 DEF IInv, TypeOK, FirstSetupInv, ReadInv, NewAt, IsNew, IndexIsOfVersion,
                CommitSetup, Respond, GoTo, Conflicts, NewVersion, VersionToOpen, diskVars,
                lockVars, openVars
  <2> QED
    BY <2>1, <2>2, <2>3, <2>4, <2>5 DEF IInv
<1> QED
  BY <1>1, <1>2, <1>3, <1>4 DEF Transact

\* The invariant is preserved by every step of a deletion.
LEMMA DeleteStep ==
  ASSUME IInv, NEW t \in Threads, Delete(t)
  PROVE  IInv'
<1> USE ThreadsAssumption, VersionAssumption
<1>1. CASE Mark(t)
  <2>1. TypeOK'
    BY <1>1 DEF IInv, TypeOK, Mark, GoTo, Respond, diskVars, lockVars, openVars
  <2>2. MutexInv' /\ HoldInv' /\ OpensAlone'
    BY <1>1 DEF IInv, TypeOK, MutexInv, InnerPcs, HoldInv, HoldPcs, OpensAlone, Mark, GoTo,
                Respond, diskVars, lockVars, openVars
  <2>3. FlagInv' /\ DeletedIsClosing'
    BY <1>1 DEF IInv, TypeOK, HoldInv, OpensAlone, FlagInv, HoldPcs, DeletedIsClosing, Mark,
                GoTo, Respond, diskVars, lockVars, openVars
  <2>4. ReadInv'
    BY <1>1 DEF IInv, TypeOK, HoldInv, OpensAlone, ReadInv, VersionToOpen, IsNew, Mark,
                GoTo, Respond, diskVars, lockVars, openVars
  <2>5. FirstSetupInv' /\ IndexIsOfVersion'
    BY <1>1 DEF IInv, TypeOK, FirstSetupInv, ReadInv, NewAt, IsNew, IndexIsOfVersion, Mark,
                GoTo, Respond, diskVars, lockVars, openVars
  <2> QED
    BY <2>1, <2>2, <2>3, <2>4, <2>5 DEF IInv
<1>2. CASE Touch(t)
  <2>1. TypeOK'
    BY <1>2 DEF IInv, TypeOK, Touch, GoTo, diskVars, lockVars, openVars
  <2>2. MutexInv' /\ HoldInv' /\ OpensAlone'
    BY <1>2 DEF IInv, TypeOK, MutexInv, InnerPcs, HoldInv, HoldPcs, OpensAlone, Touch, GoTo,
                diskVars, lockVars, openVars
  <2>3. FlagInv' /\ DeletedIsClosing'
    BY <1>2 DEF IInv, TypeOK, HoldInv, OpensAlone, FlagInv, DeletedIsClosing, Touch, GoTo,
                diskVars, lockVars, openVars
  <2>4. ReadInv'
    BY <1>2 DEF IInv, TypeOK, HoldInv, OpensAlone, ReadInv, VersionToOpen, IsNew, Touch,
                GoTo, diskVars, lockVars, openVars
  <2>5. FirstSetupInv' /\ IndexIsOfVersion'
    BY <1>2 DEF IInv, TypeOK, FirstSetupInv, ReadInv, NewAt, IsNew, IndexIsOfVersion, Touch,
                GoTo, diskVars, lockVars, openVars
  <2> QED
    BY <2>1, <2>2, <2>3, <2>4, <2>5 DEF IInv
<1>3. CASE Erase(t)
  <2>1. TypeOK'
    BY <1>3 DEF IInv, TypeOK, Erase, GoTo, StillOpen, diskVars, lockVars, openVars
  <2>2. MutexInv' /\ HoldInv' /\ OpensAlone'
    BY <1>3 DEF IInv, TypeOK, MutexInv, InnerPcs, HoldInv, HoldPcs, OpensAlone, Erase, GoTo,
                StillOpen, diskVars, lockVars, openVars
  <2>3. FlagInv' /\ DeletedIsClosing'
    BY <1>3 DEF IInv, TypeOK, HoldInv, OpensAlone, FlagInv, DeletedIsClosing, Erase, GoTo,
                StillOpen, diskVars, lockVars, openVars
  <2>4. ReadInv'
    BY <1>3 DEF IInv, TypeOK, HoldInv, OpensAlone, ReadInv, VersionToOpen, IsNew, Erase,
                GoTo, StillOpen, diskVars, lockVars, openVars
  <2>5. FirstSetupInv' /\ IndexIsOfVersion'
    BY <1>3 DEF IInv, TypeOK, FirstSetupInv, ReadInv, NewAt, IsNew, IndexIsOfVersion, Erase,
                GoTo, StillOpen, diskVars, lockVars, openVars
  <2> QED
    BY <2>1, <2>2, <2>3, <2>4, <2>5 DEF IInv
<1>4. CASE CloseUnlock(t)
  <2>1. TypeOK'
    BY <1>4 DEF IInv, TypeOK, CloseUnlock, GoTo, Respond, diskVars, lockVars, openVars
  <2>2. MutexInv' /\ HoldInv' /\ OpensAlone'
    BY <1>4 DEF IInv, TypeOK, MutexInv, InnerPcs, HoldInv, HoldPcs, OpensAlone, CloseUnlock,
                GoTo, Respond, diskVars, lockVars, openVars
  <2>3. FlagInv' /\ DeletedIsClosing'
    BY <1>4 DEF IInv, TypeOK, HoldInv, OpensAlone, FlagInv, DeletedIsClosing, CloseUnlock,
                GoTo, Respond, diskVars, lockVars, openVars
  <2>4. ReadInv'
    BY <1>4 DEF IInv, TypeOK, HoldInv, OpensAlone, ReadInv, VersionToOpen, IsNew,
                CloseUnlock, GoTo, Respond, diskVars, lockVars, openVars
  <2>5. FirstSetupInv' /\ IndexIsOfVersion'
    BY <1>4 DEF IInv, TypeOK, FirstSetupInv, ReadInv, NewAt, IsNew, IndexIsOfVersion,
                CloseUnlock, GoTo, Respond, diskVars, lockVars, openVars
  <2> QED
    BY <2>1, <2>2, <2>3, <2>4, <2>5 DEF IInv
<1> QED
  BY <1>1, <1>2, <1>3, <1>4 DEF Delete

\* A new request.
LEMMA ReceiveStep ==
  ASSUME IInv, NEW t \in Threads, NEW r \in Requests, Receive(t, r)
  PROVE  IInv'
<1> USE ThreadsAssumption, VersionAssumption
<1>1. TypeOK'
  BY DEF IInv, TypeOK, Receive, GoTo, diskVars, lockVars, openVars
<1>2. MutexInv' /\ HoldInv' /\ OpensAlone' /\ FlagInv' /\ DeletedIsClosing'
  BY DEF IInv, TypeOK, MutexInv, HoldInv, OpensAlone, FlagInv, DeletedIsClosing,
         InnerPcs, HoldPcs, Receive, GoTo, diskVars, lockVars, openVars
<1>3. ReadInv' /\ IndexIsOfVersion'
  BY DEF IInv, TypeOK, ReadInv, IndexIsOfVersion, VersionToOpen, IsNew,
         Receive, GoTo, diskVars, lockVars, openVars
<1>4. FirstSetupInv'
  <2>1. IsNew(t)' => r.previous = 0 /\ ~deployed /\ deployed'
    BY DEF IInv, TypeOK, Receive, IsNew
  <2>2. \A s \in Threads \ {t} : NewAt(s)' <=> NewAt(s)
    BY DEF IInv, TypeOK, Receive, GoTo, NewAt, IsNew
  <2> QED
    BY <2>1, <2>2 DEF IInv, TypeOK, FirstSetupInv, NewAt, IsNew, Receive, GoTo, diskVars
<1> QED
  BY <1>1, <1>2, <1>3, <1>4 DEF IInv

\* The end of the process.
LEMMA RestartStep == IInv /\ Restart => IInv'
<1> SUFFICES ASSUME IInv, Restart PROVE IInv'
  OBVIOUS
<1>1. TypeOK'
  BY DEF IInv, TypeOK, Restart, diskVars
<1> QED
  BY <1>1 DEF IInv, TypeOK, MutexInv, HoldInv, OpensAlone, FlagInv, DeletedIsClosing,
              ReadInv, FirstSetupInv, NewAt, IsNew, IndexIsOfVersion, InnerPcs, HoldPcs,
              Restart, diskVars

\* Nothing changes.
LEMMA StutterStep == IInv /\ UNCHANGED vars => IInv'
  BY DEF IInv, TypeOK, MutexInv, HoldInv, OpensAlone, FlagInv, DeletedIsClosing,
         ReadInv, VersionToOpen, FirstSetupInv, NewAt, IsNew, IndexIsOfVersion,
         InnerPcs, HoldPcs, vars, diskVars, lockVars, openVars

\* Every step preserves the invariant.
LEMMA NextIInv == IInv /\ [Next]_vars => IInv'
<1> SUFFICES ASSUME IInv, [Next]_vars PROVE IInv'
  OBVIOUS
<1>1. ASSUME NEW t \in Threads, NEW r \in Requests, Receive(t, r) PROVE IInv'
  BY <1>1, ReceiveStep
<1>2. ASSUME NEW t \in Threads, Handle(t) PROVE IInv'
  BY <1>2, GetDatabaseStep, TransactStep, DeleteStep DEF Handle
<1>3. CASE Restart
  BY <1>3, RestartStep
<1>4. CASE UNCHANGED vars
  BY <1>4, StutterStep
<1> QED
  BY <1>1, <1>2, <1>3, <1>4 DEF Next

-----------------------------------------------------------------------------
(* The theorems.                                                           *)

\* The inductive invariant holds of every reachable state.
THEOREM Invariance == Spec => []IInv
<1> QED
  BY InitIInv, NextIInv, PTL DEF Spec

\* The database, the mutexes and the threads are always well typed.
THEOREM TypeCorrect == Spec => []TypeOK
<1>1. IInv => TypeOK
  BY DEF IInv
<1> QED
  BY Invariance, <1>1, PTL

\* No deleted database is left in the map once the deletions are over, however
\* many threads delete, open and use it.
THEOREM DeletedIsTakenOut == Spec => []DeletedIsClosing
<1>1. IInv => DeletedIsClosing
  BY DEF IInv
<1> QED
  BY Invariance, <1>1, PTL

\* Requests run with the index and source of the current version, whatever
\* setups compete, fail or are cut short by the end of the process.
THEOREM IndexOfCurrentVersion == Spec => []IndexIsOfVersion
<1>1. IInv => IndexIsOfVersion
  BY DEF IInv
<1> QED
  BY Invariance, <1>1, PTL

\* A database that was deleted is never got again (close_database's comment),
\* across the ends of any number of processes.
THEOREM DeletedForEver == Spec => DeletionIsFinal
<1> DEFINE Final == deleted_flag /\ ~in_map
                      => /\ deleted_flag' /\ ~in_map'
                         /\ \A t \in Threads : holds'[t] => holds[t]
<1>1. IInv /\ [Next]_vars => [Final]_vars
  <2> SUFFICES ASSUME IInv, Next, deleted_flag, ~in_map PROVE Final
    OBVIOUS
  <2>1. ASSUME NEW t \in Threads, NEW r \in Requests, Receive(t, r) PROVE Final
    BY <2>1 DEF Receive, diskVars, openVars
  <2>2. ASSUME NEW t \in Threads, GetDatabase(t) PROVE Final
    <3>1. tpc[t] # "insert"
      BY DEF IInv, FlagInv
    <3> QED
      BY <2>2, <3>1 DEF IInv, TypeOK, GetDatabase, Find, LockOuter, LockInner, CheckFile,
                        Open,
                        PutVersion, CheckFlag, Insert, FailToOpen, SeenDeleted, diskVars, openVars
  <2>3. ASSUME NEW t \in Threads, Transact(t) \/ Delete(t) PROVE Final
    BY <2>3 DEF IInv, TypeOK, Transact, Begin, Abandon, CommitData, CommitSetup, Delete,
                Mark,
                Touch, Erase, CloseUnlock, Respond, StillOpen, diskVars
  <2>4. CASE Restart
    BY <2>4 DEF Restart, diskVars
  <2> QED
    BY <2>1, <2>2, <2>3, <2>4 DEF Next, Handle
<1> QED
  BY Invariance, <1>1, PTL DEF Spec, DeletionIsFinal

\* Transactions commit only under the version of the worker that their request
\* was made for, however setups interleave with them.
THEOREM CommitsAreCurrent == Spec => CommitsUnderItsVersion
<1> DEFINE Current == \A t \in Threads :
                        CommitData(t) \/ CommitSetup(t) => version = VersionToOpen(t)
<1>1. IInv => Current
  BY DEF IInv, ReadInv, CommitData, CommitSetup, Conflicts
<1> QED
  BY Invariance, <1>1, PTL DEF Spec, CommitsUnderItsVersion

=============================================================================
