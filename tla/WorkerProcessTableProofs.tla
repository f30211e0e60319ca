----------------------- MODULE WorkerProcessTableProofs -----------------------
(***************************************************************************)
(* Proofs about WorkerProcessTable, for any sets of workers, ports,        *)
(* processes and loader threads.                                           *)
(***************************************************************************)
EXTENDS WorkerProcessTable, TLAPS

(* The inductive invariant. Torn or not, the entry that the Launcher works *)
(* on is there; all else holds while no critical section is torn.          *)

Starting == {"reclaim", "take", "fork", "forking"}

CursorInv ==
  lpc \in Starting \cup {"remove"} => cursor \in Workers /\ Present(cursor)

\* Nobody is in the critical section with another, and with the mutex free
\* nobody is in it at all.
MutexInv ==
  /\ changes_lock = "free" \/ LauncherInside =>
       /\ \A t \in Threads : ~LoaderInside(t)
       /\ \A p \in Pids : ~ProcessInside(p)
  /\ changes_lock = "free" => ~LauncherInside
  /\ \A t, u \in Threads : LoaderInside(t) /\ LoaderInside(u) => t = u
  /\ \A p, q \in Pids : ProcessInside(p) /\ ProcessInside(q) => p = q
  /\ \A t \in Threads, p \in Pids : ~(LoaderInside(t) /\ ProcessInside(p))

\* What the Launcher knows of the entry it works on.
LauncherInv ==
  /\ lpc = "remove" => table[cursor].deleted /\ ~RunsForLauncher(cursor)
  /\ lpc \in Starting => ~table[cursor].deleted
  /\ lpc = "reclaim" => ~RunsForLauncher(cursor)
  /\ lpc \in {"take", "fork", "forking"} => ~HasInstance(cursor)
  /\ lpc # "fork" => endpoint = {}
  /\ lpc = "forking" <=> spawned # NoPid
  /\ lpc = "forking" => pworker[spawned] = cursor /\ pstate[spawned] # "unborn"

\* What a loader thread knows of the entry whose ports it reclaims.
LoaderInv ==
  \A t \in Threads :
    /\ tpc[t] \in {"reclaim", "reset"} =>
         /\ HasInstance(request[t]) /\ ~table[request[t]].deleted
         /\ ~Alive(table[request[t]].pid)
    /\ tpc[t] = "reset" => pports[table[request[t]].pid] \subseteq ports

\* An instance of the table is a process that was forked for its worker.
InstanceInv ==
  \A w \in Workers : HasInstance(w) =>
    /\ pstate[table[w].pid] # "unborn"
    /\ pworker[table[w].pid] = w

\* An entry to be erased is of a deleted worker, its process has stopped and
\* its ports are already reclaimed: until it is erased nobody takes a port.
ErasureInv ==
  /\ lpc = "break" <=> to_be_removed # {}
  /\ \A w \in to_be_removed :
       /\ Present(w) /\ table[w].deleted
       /\ ~RunsForLauncher(w)
       /\ HasInstance(w) => pports[table[w].pid] \subseteq ports

\* The entries with an instance whose ports were reclaimed already.
Freed(w) ==
  \/ w \in to_be_removed
  \/ \E t \in Threads : tpc[t] = "reset" /\ request[t] = w

\* The processes whose ports are not free.
Holds(p) ==
  \/ spawned = p
  \/ \E w \in Workers : HasInstance(w) /\ ~Freed(w) /\ table[w].pid = p

OwnershipInv ==
  /\ endpoint \cap ports = {}
  /\ \A p \in Pids : Holds(p) =>
       /\ pports[p] \cap ports = {}
       /\ pports[p] \cap endpoint = {}
       /\ \A q \in Pids : q # p /\ Holds(q) => pports[p] \cap pports[q] = {}

\* Somebody in the critical section is about to set has_changes for w.
Announced(w) ==
  \/ \E t \in Threads : tpc[t] = "announce" /\ request[t] = w
  \/ \E p \in Pids : pstate[p] = "announcing" /\ pworker[p] = w

\* An entry with work to do is announced by has_changes, or the scan is still
\* to reach it, or the Launcher waits for its process to stop.
PendingInv ==
  \/ has_changes
  \/ lpc \in {"exited", "break", "remove"}
  \/ \A w \in Workers : Pending(w) =>
       \/ Announced(w)
       \/ w \in waiting_to_be_deleted /\ lpc \in Starting \cup {"scan"}
       \/ w > cursor /\ lpc \in Starting \cup {"scan"}
       \/ w = cursor /\ lpc \in Starting

WholeInv ==
  /\ MutexInv
  /\ LauncherInv
  /\ LoaderInv
  /\ InstanceInv
  /\ LiveProcessHasEntry
  /\ ErasureInv
  /\ OwnershipInv
  /\ PortsNotLeaked
  /\ PendingInv

IInv ==
  /\ TypeOK
  /\ CursorInv
  /\ ~torn => WholeInv

-----------------------------------------------------------------------------
(* Type correctness, together with CursorInv, of which RecordInstance needs *)
(* that the entry it updates is there.                                      *)

LEMMA InitTypeOK == Init => TypeOK /\ CursorInv
<1> SUFFICES ASSUME Init PROVE TypeOK /\ CursorInv
  OBVIOUS
<1>1. table \in [Workers -> Entry \cup {Absent}]
  BY DEF Init
<1>2. answer \in [Threads -> Pids \cup {NoPid}]
  BY DEF Init, Error
<1> QED
  BY <1>1, <1>2 DEF Init, TypeOK, CursorInv, Starting, NoWorker

LEMMA EmptyEntryType == EmptyEntry \in Entry /\ EmptyEntry # Absent
<1>1. EmptyEntry \in Entry
  BY DEF EmptyEntry, Entry
<1>2. Absent \notin Entry
  BY AbsentAssumption DEF Entry
<1> QED
  BY <1>1, <1>2

LEMMA EntryUpdates ==
  ASSUME NEW e \in Entry
  PROVE  /\ e # Absent
         /\ \A p \in Pids \cup {NoPid} :
              /\ [e EXCEPT !.pid = p] \in Entry
              /\ [e EXCEPT !.pid = p].pid = p
              /\ [e EXCEPT !.pid = p].deleted = e.deleted
         /\ [e EXCEPT !.deleted = TRUE] \in Entry
         /\ [e EXCEPT !.deleted = TRUE].deleted
         /\ [e EXCEPT !.deleted = TRUE].pid = e.pid
  BY AbsentAssumption DEF Entry

\* What an entry of the table is, and what is not an entry.
LEMMA TableTypes ==
  ASSUME TypeOK, NEW w \in Workers
  PROVE  /\ Present(w) => table[w] \in Entry /\ table[w].deleted \in BOOLEAN
         /\ HasInstance(w) => table[w].pid \in Pids
  BY DEF TypeOK, Present, HasInstance, Entry

\* An update of one entry, and that nothing else in the table changes.
LEMMA TableUpdate ==
  ASSUME TypeOK, NEW w \in Workers, NEW e \in Entry, table' = [table EXCEPT ![w] = e]
  PROVE  /\ table' \in [Workers -> Entry \cup {Absent}]
         /\ table'[w] = e /\ Present(w)'
         /\ \A v \in Workers : v # w => table'[v] = table[v]
  BY AbsentAssumption DEF TypeOK, Present, Entry

LEMMA LoaderTypes ==
  ASSUME TypeOK, CursorInv, NEW t \in Threads, Loader(t)
  PROVE  TypeOK' /\ CursorInv'
<1> USE DEF TypeOK, CursorInv, Starting, Continue, Respond, Lock, Unlock, Error, Ok, Present,
        tableVars, mutexVars, launcherVars, processVars
<1>1. CASE LockToCheck(t) \/ LockToCollect(t) \/ StartWait(t) \/ TimeOut(t)
  <2>1. CASE LockToCheck(t)
    BY <2>1 DEF LockToCheck
  <2>2. CASE LockToCollect(t)
    BY <2>2 DEF LockToCollect
  <2>3. CASE StartWait(t)
    BY <2>3 DEF StartWait
  <2>4. CASE TimeOut(t)
    BY <2>4 DEF TimeOut, NoWorker
  <2> QED
    BY <1>1, <2>1, <2>2, <2>3, <2>4
<1>2. CASE CheckTable(t)
  <2>1. request[t] \in Workers
    BY <1>2 DEF CheckTable
  <2>2. /\ table' \in [Workers -> Entry \cup {Absent}]
        /\ \A v \in Workers : table[v] # Absent => table'[v] # Absent
    BY <1>2, <2>1, EmptyEntryType DEF CheckTable
  <2>3. HasInstance(request[t]) => table[request[t]].pid \in Pids
    BY <2>1, TableTypes
  <2>4. /\ tpc' \in [Threads -> {"idle", "check", "look", "reclaim", "reset", "announce",
                          "unlocked", "waiting", "woken", "collect"}]
        /\ request' \in [Threads -> Workers \cup {NoWorker}]
        /\ \A u \in Threads : tpc'[u] # "idle" => request'[u] \in Workers
    BY <1>2 DEF CheckTable
  <2>5. instance' \in [Threads -> Pids \cup {NoPid}]
        /\ \A u \in Threads : tpc'[u] = "reclaim" => instance'[u] \in Pids
    BY <1>2, <2>3 DEF CheckTable
  <2>6. answer' \in [Threads -> Pids \cup {NoPid}]
    BY <1>2, <2>3 DEF CheckTable, RunsForLoader
  <2>7. changes_lock' \in {"free", "locked", "broken"} /\ torn' \in BOOLEAN
    BY <1>2 DEF CheckTable
  <2>8. UNCHANGED <<ports, has_changes, launcherVars, processVars>>
    BY <1>2 DEF CheckTable
  <2> QED
    BY <2>2, <2>4, <2>5, <2>6, <2>7, <2>8
<1>3. CASE ReclaimPorts(t)
  <2>1. request[t] \in Workers /\ instance[t] \in Pids
    BY <1>3 DEF ReclaimPorts
  <2>2. ports' \subseteq Ports
    BY <1>3, <2>1, TableTypes DEF ReclaimPorts
  <2> QED
    BY <1>3, <2>1, <2>2 DEF ReclaimPorts
<1>4. CASE ResetEntry(t)
  <2>1. request[t] \in Workers
    BY <1>4 DEF ResetEntry
  <2> QED
    BY <1>4, <2>1, EmptyEntryType DEF ResetEntry, Reset
<1>5. CASE Announce(t)
  BY <1>5 DEF Announce, Signal
<1>6. CASE CollectEndpoint(t)
  <2>1. request[t] \in Workers
    BY <1>6 DEF CollectEndpoint
  <2>2. HasInstance(request[t]) => table[request[t]].pid \in Pids
    BY <2>1, TableTypes
  <2> QED
    BY <1>6, <2>2 DEF CollectEndpoint
<1> QED
  BY <1>1, <1>2, <1>3, <1>4, <1>5, <1>6 DEF Loader

LEMMA ReapTypes ==
  ASSUME TypeOK, ReapAny \/ \E w \in Workers : pstate' = ReapInstance(w)
  PROVE  /\ pstate' \in [Pids -> Live \cup {"unborn", "zombie", "gone"}]
         /\ \A p \in Pids : pstate'[p] = "unborn" <=> pstate[p] = "unborn"
         /\ \A p \in Pids : Alive(p)' <=> Alive(p)
         /\ \A p \in Pids : Alive(p) => pstate'[p] = pstate[p]
<1>1. CASE ReapAny
  BY <1>1 DEF TypeOK, ReapAny, Alive, Live
<1>2. CASE \E w \in Workers : pstate' = ReapInstance(w)
  BY <1>2, TableTypes DEF TypeOK, ReapInstance, Alive, Live
<1> QED
  BY <1>1, <1>2

LEMMA LauncherTypes ==
  ASSUME TypeOK, CursorInv, Launcher
  PROVE  TypeOK' /\ CursorInv'
<1> USE DEF TypeOK, CursorInv, Starting, Lock, Unlock, Present,
        tableVars, mutexVars, loaderVars, processVars
<1>1. CASE LockToUpdate
  BY <1>1 DEF LockToUpdate
<1>2. CASE FindNoChanges \/ BeginPass
  <2>1. ReapAny
    BY <1>2 DEF FindNoChanges, BeginPass
  <2> QED
    BY <1>2, <2>1, ReapTypes DEF FindNoChanges, BeginPass
<1>3. ASSUME NEW w \in Workers, VisitDeletedRunning(w) \/ VisitRunning(w)
      PROVE  TypeOK' /\ CursorInv'
  BY <1>3 DEF VisitDeletedRunning, VisitRunning, Reaches
<1>4. ASSUME NEW w \in Workers, VisitStopped(w) PROVE TypeOK' /\ CursorInv'
  BY <1>4, ReapTypes DEF VisitStopped, Reaches
<1>5. ASSUME PortsReclaimed(cursor) # ports PROVE HasInstance(cursor)
  BY <1>5 DEF PortsReclaimed
<1>6. cursor \in Workers => PortsReclaimed(cursor) \subseteq Ports
  BY TableTypes DEF PortsReclaimed
<1>7. CASE RemoveStopped
  BY <1>6, <1>7 DEF RemoveStopped, HasInstance
<1>8. CASE ReclaimInstance
  <2>1. cursor \in Workers /\ table[cursor] \in Entry
    BY <1>8 DEF ReclaimInstance
  <2>2. /\ table' \in [Workers -> Entry \cup {Absent}]
        /\ table'[cursor] # Absent
    BY <1>8, <2>1, EntryUpdates DEF ReclaimInstance
  <2> QED
    BY <1>6, <1>8, <2>1, <2>2 DEF ReclaimInstance, HasInstance
<1>9. CASE NotEnoughPorts \/ ForkFails
  BY <1>9 DEF NotEnoughPorts, ForkFails, Fail
<1>10. CASE TakePorts
  BY <1>10 DEF TakePorts
<1>11. CASE Fork
  <2>1. PICK p \in Pids :
          /\ pstate' = [pstate EXCEPT ![p] = "serving"]
          /\ pworker' = [pworker EXCEPT ![p] = cursor]
          /\ pports' = [pports EXCEPT ![p] = endpoint]
          /\ spawned' = p
    BY <1>11 DEF Fork
  <2>2. cursor \in Workers
    BY <1>11 DEF Fork
  <2> QED
    BY <1>11, <2>1, <2>2 DEF Fork, Live
<1>12. CASE RecordInstance
  <2>1. cursor \in Workers /\ table[cursor] \in Entry
    BY <1>12 DEF RecordInstance
  <2>2. table' \in [Workers -> Entry \cup {Absent}]
    BY <1>12, <2>1, EntryUpdates DEF RecordInstance
  <2> QED
    BY <1>12, <2>2 DEF RecordInstance
<1>13. CASE ScanAgain
  BY <1>13 DEF ScanAgain
<1>14. CASE EndPass
  BY <1>14 DEF EndPass
<1>15. CASE Notify
  BY <1>15 DEF Notify
<1> QED
  BY <1>1, <1>2, <1>3, <1>4, <1>7, <1>8, <1>9, <1>10, <1>11, <1>12, <1>13, <1>14, <1>15
  DEF Launcher, Visit

LEMMA ProcessTypes ==
  ASSUME TypeOK, CursorInv, NEW p \in Pids, Process(p)
  PROVE  TypeOK' /\ CursorInv'
<1> USE DEF TypeOK, CursorInv, Starting, Lock, Unlock, Present, Live,
        tableVars, mutexVars, launcherVars, loaderVars
<1>1. CASE DeleteWorker(p) \/ LockToMark(p) \/ InitReaps(p)
  BY <1>1 DEF DeleteWorker, LockToMark, InitReaps
<1>4. CASE Exit(p) \/ Crash(p)
  <2>1. /\ pstate' = [pstate EXCEPT ![p] = "zombie"]
        /\ Alive(p)
        /\ changes_lock' \in {"free", "locked", "broken"}
        /\ UNCHANGED <<tableVars, launcherVars, loaderVars, pworker, pports>>
    BY <1>4 DEF Exit, Crash
  <2>2. torn' \in BOOLEAN
    BY <1>4 DEF Exit, Crash, ProcessInside
  <2> QED
    BY <2>1, <2>2 DEF Alive
<1>2. CASE MarkDeleted(p)
  <2>1. pworker[p] \in Workers
    BY <1>2 DEF MarkDeleted
  <2>2. [deleted |-> TRUE, pid |-> NoPid] \in Entry
    BY DEF Entry
  <2>3. \A e \in Entry : [e EXCEPT !.deleted = TRUE] \in Entry \ {Absent}
    BY EntryUpdates
  <2>4. /\ table' \in [Workers -> Entry \cup {Absent}]
        /\ \A v \in Workers : table[v] # Absent => table'[v] # Absent
    <3>1. CASE table' = [table EXCEPT ![pworker[p]] = [deleted |-> TRUE, pid |-> NoPid]]
      <4> DEFINE e == [deleted |-> TRUE, pid |-> NoPid]
      <4>1. Absent \notin Entry
        BY AbsentAssumption DEF Entry
      <4>2. e \in Entry /\ e # Absent
        BY <2>2, <4>1
      <4>3. table' = [table EXCEPT ![pworker[p]] = e]
        BY <3>1
      <4> HIDE DEF e
      <4> QED
        BY <2>1, <4>2, <4>3
    <3>2. CASE Present(pworker[p]) /\ table' = [table EXCEPT ![pworker[p]].deleted = TRUE]
      <4>1. table[pworker[p]] \in Entry
        BY <2>1, <3>2
      <4> QED
        BY <2>1, <2>3, <3>2, <4>1
    <3> QED
      BY <1>2, <3>1, <3>2 DEF MarkDeleted
  <2> QED
    BY <1>2, <2>4 DEF MarkDeleted
<1>3. CASE AnnounceDeleted(p)
  BY <1>3 DEF AnnounceDeleted, Signal
<1> QED
  BY <1>1, <1>2, <1>3, <1>4 DEF Process, Mark

LEMMA NextTypes == TypeOK /\ CursorInv /\ [Next]_vars => TypeOK' /\ CursorInv'
<1> SUFFICES ASSUME TypeOK, CursorInv, [Next]_vars PROVE TypeOK' /\ CursorInv'
  OBVIOUS
<1>1. ASSUME NEW t \in Threads, NEW w \in Workers, Request(t, w)
      PROVE  TypeOK' /\ CursorInv'
  BY <1>1 DEF TypeOK, CursorInv, Starting, Request, Error, Present,
              tableVars, mutexVars, launcherVars, processVars
<1>2. CASE UNCHANGED vars
  BY <1>2 DEF TypeOK, CursorInv, Starting, Present, vars,
              tableVars, mutexVars, launcherVars, loaderVars, processVars
<1> QED
  BY <1>1, <1>2, LoaderTypes, LauncherTypes, ProcessTypes DEF Next


-----------------------------------------------------------------------------
(* The mutex, while no critical section is torn.                           *)

\* A section torn once is torn for ever.
LEMMA TornForEver ==
  ASSUME TypeOK, [Next]_vars, ~torn'
  PROVE  ~torn
  BY DEF Next, Request, Loader, LockToCheck, CheckTable, ReclaimPorts, ResetEntry, Announce,
     StartWait, TimeOut, LockToCollect, CollectEndpoint, Launcher, LockToUpdate,
     FindNoChanges, BeginPass, Visit, VisitDeletedRunning, VisitRunning, VisitStopped,
     RemoveStopped, ReclaimInstance, NotEnoughPorts, TakePorts, Fork, ForkFails, Fail,
     RecordInstance, ScanAgain, EndPass, Notify, Process, Mark, DeleteWorker, LockToMark,
     MarkDeleted, AnnounceDeleted, Exit, Crash, InitReaps, Lock, Unlock, vars, mutexVars

\* Who takes the mutex finds nobody in the critical section.
LEMMA LockedAlone ==
  ASSUME TypeOK, MutexInv, Lock, ~torn'
  PROVE  /\ changes_lock' = "locked"
         /\ ~LauncherInside
         /\ \A t \in Threads : ~LoaderInside(t)
         /\ \A p \in Pids : ~ProcessInside(p)
  BY DEF TypeOK, MutexInv, Lock

\* Nobody enters the critical section.
LEMMA NobodyEnters ==
  ASSUME TypeOK, MutexInv,
         LauncherInside' => LauncherInside,
         \A t \in Threads : LoaderInside(t)' => LoaderInside(t),
         \A p \in Pids : ProcessInside(p)' => ProcessInside(p),
         changes_lock' = "free" =>
           /\ ~LauncherInside'
           /\ \A t \in Threads : ~LoaderInside(t)'
           /\ \A p \in Pids : ~ProcessInside(p)'
  PROVE  MutexInv'
  BY DEF MutexInv

LEMMA LoaderMutex ==
  ASSUME TypeOK, MutexInv, NEW t \in Threads, Loader(t), ~torn'
  PROVE  MutexInv'
<1> USE DEF TypeOK, Continue, Respond, launcherVars, processVars, mutexVars
<1>0. UNCHANGED <<lpc, pstate>>
  BY DEF Loader, LockToCheck, CheckTable, ReclaimPorts, ResetEntry, Announce, StartWait,
     TimeOut, LockToCollect, CollectEndpoint
<1>1. /\ LauncherInside' <=> LauncherInside
      /\ \A p \in Pids : ProcessInside(p)' <=> ProcessInside(p)
  BY <1>0 DEF LauncherInside, ProcessInside
<1>2. \A u \in Threads : u # t => (LoaderInside(u)' <=> LoaderInside(u))
  BY DEF LoaderInside, Loader, LockToCheck, CheckTable, ReclaimPorts, ResetEntry, Announce,
     StartWait, TimeOut, LockToCollect, CollectEndpoint
<1>3. CASE LockToCheck(t) \/ LockToCollect(t)
  <2>1. Lock
    BY <1>3 DEF LockToCheck, LockToCollect
  <2> QED
    BY <1>1, <1>2, <2>1, LockedAlone DEF MutexInv
<1>4. CASE StartWait(t) \/ TimeOut(t)
  <2>1. ~LoaderInside(t) /\ ~LoaderInside(t)' /\ UNCHANGED changes_lock
    BY <1>4 DEF LoaderInside, StartWait, TimeOut
  <2> QED
    BY <1>1, <1>2, <2>1 DEF MutexInv
<1>5. CASE CheckTable(t) \/ ReclaimPorts(t) \/ ResetEntry(t) \/ Announce(t) \/ CollectEndpoint(t)
  <2>1. /\ LoaderInside(t)
        /\ UNCHANGED changes_lock \/ (changes_lock' = "free" /\ ~LoaderInside(t)')
    BY <1>5 DEF LoaderInside, CheckTable, ReclaimPorts, ResetEntry, Announce,
       CollectEndpoint, Unlock
  <2> QED
    BY <1>1, <1>2, <2>1 DEF MutexInv
<1> QED
  BY <1>3, <1>4, <1>5 DEF Loader

LEMMA LauncherMutex ==
  ASSUME TypeOK, MutexInv, Launcher, ~torn'
  PROVE  MutexInv'
<1> USE DEF loaderVars, processVars, mutexVars
<1>1. \A t \in Threads : LoaderInside(t)' <=> LoaderInside(t)
  BY DEF TypeOK, LoaderInside, Launcher, LockToUpdate, FindNoChanges, BeginPass, Visit,
     VisitDeletedRunning, VisitRunning, VisitStopped, RemoveStopped, ReclaimInstance,
     NotEnoughPorts, TakePorts, Fork, ForkFails, RecordInstance, ScanAgain, EndPass, Notify
<1>2. \A p \in Pids : ProcessInside(p)' <=> ProcessInside(p)
  BY ReapTypes DEF TypeOK, ProcessInside, Alive, Live, Launcher, LockToUpdate, FindNoChanges,
     BeginPass, ReapAny, ReapInstance, Visit, VisitDeletedRunning, VisitRunning, VisitStopped,
     RemoveStopped, ReclaimInstance, NotEnoughPorts, TakePorts, Fork, ForkFails,
     RecordInstance, ScanAgain, EndPass, Notify
<1>3. CASE LockToUpdate
  BY <1>1, <1>2, <1>3, LockedAlone DEF LockToUpdate, MutexInv
<1>4. CASE Notify
  <2>1. ~LauncherInside /\ ~LauncherInside' /\ UNCHANGED changes_lock
    BY <1>4 DEF LauncherInside, Notify
  <2> QED
    BY <1>1, <1>2, <2>1 DEF MutexInv
<1>5. ASSUME ~LockToUpdate, ~Notify
      PROVE  /\ LauncherInside
             /\ UNCHANGED changes_lock \/ (changes_lock' = "free" /\ ~LauncherInside')
  BY <1>5 DEF LauncherInside, Launcher, FindNoChanges, BeginPass, Visit, Reaches,
     VisitDeletedRunning, VisitRunning, VisitStopped, RemoveStopped, ReclaimInstance,
     NotEnoughPorts, TakePorts, Fork, ForkFails, Fail, RecordInstance, ScanAgain, ScanOver,
     EndPass, Unlock
<1> QED
  BY <1>1, <1>2, <1>3, <1>4, <1>5 DEF MutexInv

LEMMA ProcessMutex ==
  ASSUME TypeOK, MutexInv, NEW p \in Pids, Process(p), ~torn'
  PROVE  MutexInv'
<1> USE DEF launcherVars, loaderVars, mutexVars
<1>0. UNCHANGED <<lpc, tpc>>
  BY DEF Process, Mark, DeleteWorker, LockToMark, MarkDeleted, AnnounceDeleted, Exit, Crash,
     InitReaps
<1>1. /\ LauncherInside' <=> LauncherInside
      /\ \A t \in Threads : LoaderInside(t)' <=> LoaderInside(t)
  BY <1>0 DEF LauncherInside, LoaderInside
<1>2. \A q \in Pids : q # p => (ProcessInside(q)' <=> ProcessInside(q))
  BY DEF TypeOK, ProcessInside, Process, Mark, DeleteWorker, LockToMark, MarkDeleted,
     AnnounceDeleted, Exit, Crash, InitReaps
<1>3. CASE LockToMark(p)
  BY <1>1, <1>2, <1>3, LockedAlone DEF LockToMark, MutexInv
<1>4. CASE DeleteWorker(p) \/ InitReaps(p) \/ Crash(p)
  <2>1. ~ProcessInside(p) /\ ~ProcessInside(p)' /\ UNCHANGED changes_lock
    BY <1>4 DEF TypeOK, ProcessInside, DeleteWorker, InitReaps, Crash
  <2> QED
    BY <1>1, <1>2, <2>1 DEF MutexInv
<1>5. CASE MarkDeleted(p) \/ AnnounceDeleted(p)
  <2>1. /\ ProcessInside(p)
        /\ UNCHANGED changes_lock \/ (changes_lock' = "free" /\ ~ProcessInside(p)')
    BY <1>5 DEF TypeOK, ProcessInside, MarkDeleted, AnnounceDeleted, Unlock
  <2> QED
    BY <1>1, <1>2, <2>1 DEF MutexInv
<1>6. CASE Exit(p)
  <2>1. /\ ~ProcessInside(p) /\ ~ProcessInside(p)'
        /\ changes_lock' = "free" =>
             /\ ~LauncherInside
             /\ \A t \in Threads : ~LoaderInside(t)
             /\ \A q \in Pids \ {p} : ~ProcessInside(q)
    BY <1>6 DEF TypeOK, ProcessInside, Exit
  <2> QED
    BY <1>1, <1>2, <2>1, NobodyEnters
<1> QED
  BY <1>3, <1>4, <1>5, <1>6 DEF Process, Mark

LEMMA MutexStep ==
  ASSUME IInv, [Next]_vars, ~torn'
  PROVE  MutexInv'
<1>0. TypeOK /\ MutexInv
  BY TornForEver DEF IInv, WholeInv
<1>1. ASSUME NEW t \in Threads, NEW w \in Workers, Request(t, w) PROVE MutexInv'
  <2>1. \A u \in Threads : LoaderInside(u)' <=> LoaderInside(u)
    BY <1>0, <1>1 DEF TypeOK, Request, LoaderInside
  <2>2. UNCHANGED <<changes_lock, lpc, pstate>>
    BY <1>1 DEF Request, mutexVars, launcherVars, processVars
  <2> QED
    BY <1>0, <2>1, <2>2 DEF MutexInv, LauncherInside, ProcessInside
<1>2. CASE UNCHANGED vars
  BY <1>0, <1>2 DEF MutexInv, LauncherInside, LoaderInside, ProcessInside,
     vars, mutexVars, launcherVars, loaderVars, processVars
<1> QED
  BY <1>0, <1>1, <1>2, LoaderMutex, LauncherMutex, ProcessMutex DEF Next

-----------------------------------------------------------------------------
(* The steps that change neither the table nor the ports nor what is held. *)

LEMMA QuietStep ==
  ASSUME IInv, ~torn, TypeOK', MutexInv', LauncherInv', LoaderInv', PendingInv',
         UNCHANGED <<table, ports, spawned, to_be_removed, pworker, pports>>,
         endpoint' = endpoint \/ (endpoint' = {} /\ lpc' = "exited"),
         lpc' = "break" <=> lpc = "break",
         lpc = "exited" => lpc' = "exited",
         \A p \in Pids : pstate'[p] = "unborn" <=> pstate[p] = "unborn",
         \A p \in Pids : Alive(p)' => Alive(p),
         \A t \in Threads : tpc[t] = "reset" => tpc'[t] = "reset" /\ request'[t] = request[t],
         \A t \in Threads : tpc'[t] = "reset" => tpc[t] = "reset"
  PROVE  WholeInv'
<1> USE DEF IInv, WholeInv
<1>1. /\ \A w : Present(w)' <=> Present(w)
      /\ \A w : HasInstance(w)' <=> HasInstance(w)
      /\ \A w : Freed(w)' <=> Freed(w)
      /\ \A p : Holds(p)' <=> Holds(p)
  BY DEF Present, HasInstance, Freed, Holds
<1>2. \A w \in Workers : HasInstance(w) => table[w].pid \in Pids
  BY TableTypes
<1>3. InstanceInv'
  BY <1>1, <1>2 DEF InstanceInv
<1>4. LiveProcessHasEntry'
  BY <1>1 DEF LiveProcessHasEntry
<1>5. ErasureInv'
  BY <1>1, <1>2 DEF ErasureInv, RunsForLauncher, TypeOK
<1>6. OwnershipInv'
  BY <1>1 DEF OwnershipInv
<1>7. PortsNotLeaked'
  BY <1>1 DEF PortsNotLeaked
<1> QED
  BY <1>3, <1>4, <1>5, <1>6, <1>7

\* The Launcher does not move, nor does the table: what it knows still holds.
LEMMA LauncherKept ==
  ASSUME IInv, ~torn, UNCHANGED <<table, lpc, cursor, endpoint, spawned, pworker>>,
         \A p \in Pids : pstate'[p] = "unborn" <=> pstate[p] = "unborn",
         \A p \in Pids : Alive(p)' => Alive(p)
  PROVE  LauncherInv'
<1>1. \A w \in Workers : HasInstance(w) => table[w].pid \in Pids
  BY TableTypes DEF IInv
<1>2. HasInstance(cursor)' <=> HasInstance(cursor)
  BY DEF HasInstance, Present
<1>3. cursor \in Workers => (RunsForLauncher(cursor)' => RunsForLauncher(cursor))
  BY <1>1, <1>2 DEF RunsForLauncher
<1>4. lpc = "forking" => spawned \in Pids
  BY DEF IInv, WholeInv, LauncherInv, TypeOK
<1> QED
  BY <1>2, <1>3, <1>4 DEF IInv, WholeInv, LauncherInv, CursorInv, Starting

\* Nor do the loader threads that reclaim ports.
LEMMA LoaderKept ==
  ASSUME IInv, ~torn, UNCHANGED <<table, ports, pports>>,
         \A p \in Pids : Alive(p)' => Alive(p),
         \A t \in Threads :
           tpc'[t] \in {"reclaim", "reset"} => tpc'[t] = tpc[t] /\ request'[t] = request[t]
  PROVE  LoaderInv'
<1> SUFFICES ASSUME NEW t \in Threads, tpc'[t] \in {"reclaim", "reset"}
             PROVE  /\ HasInstance(request[t])' /\ ~table[request[t]].deleted
                    /\ ~Alive(table[request[t]].pid)' /\ request'[t] = request[t]
                    /\ tpc[t] = "reset" => pports[table[request[t]].pid] \subseteq ports
  BY DEF LoaderInv
<1>1. /\ HasInstance(request[t]) /\ ~table[request[t]].deleted
      /\ ~Alive(table[request[t]].pid)
      /\ tpc[t] = "reset" => pports[table[request[t]].pid] \subseteq ports
  BY DEF IInv, WholeInv, LoaderInv
<1>2. request[t] \in Workers
  BY DEF IInv, TypeOK
<1>3. table[request[t]].pid \in Pids
  BY <1>1, <1>2, TableTypes DEF IInv
<1> QED
  BY <1>1, <1>3 DEF HasInstance, Present

\* What is announced stays so while those who are to signal do not move.
LEMMA AnnouncedKept ==
  ASSUME NEW w, Announced(w), UNCHANGED pworker,
         \A t \in Threads :
           tpc[t] = "announce" => tpc'[t] = "announce" /\ request'[t] = request[t],
         \A p \in Pids : pstate[p] = "announcing" => pstate'[p] = "announcing"
  PROVE  Announced(w)'
  BY DEF Announced

\* A step of a loader thread on its own variables, and the mutex.
LEMMA LoaderLocalStep ==
  ASSUME IInv, ~torn, TypeOK', MutexInv',
         UNCHANGED <<tableVars, launcherVars, processVars>>,
         \A t \in Threads :
           \/ tpc'[t] = tpc[t] /\ request'[t] = request[t]
           \/ tpc[t] \notin {"reset", "announce"} /\ tpc'[t] \notin {"reclaim", "reset"}
  PROVE  WholeInv'
<1> USE DEF tableVars, launcherVars, processVars
<1>1. \A p : Alive(p)' <=> Alive(p)
  BY DEF Alive
<1>2. LauncherInv'
  BY <1>1, LauncherKept
<1>3. LoaderInv'
  BY <1>1, LoaderKept
<1>4. PendingInv'
  <2>1. \A w : Announced(w) => Announced(w)'
    BY AnnouncedKept
  <2>2. \A w : Pending(w)' <=> Pending(w)
    BY DEF Pending, Present, HasInstance
  <2> QED
    BY <2>1, <2>2 DEF IInv, WholeInv, PendingInv
<1> QED
  BY <1>1, <1>2, <1>3, <1>4, QuietStep

LEMMA AnnounceStep ==
  ASSUME IInv, ~torn, TypeOK', MutexInv', NEW t \in Threads, Announce(t)
  PROVE  WholeInv'
<1> USE DEF Announce, Continue, launcherVars, processVars
<1>1. \A p : Alive(p)' <=> Alive(p)
  BY DEF Alive
<1>2. LauncherInv'
  BY <1>1, LauncherKept
<1>3. /\ \A u \in Threads : u # t => tpc'[u] = tpc[u]
      /\ tpc[t] = "announce" /\ tpc'[t] = "unlocked" /\ request' = request
  BY DEF IInv, TypeOK
<1>4. LoaderInv'
  BY <1>1, <1>3, LoaderKept
<1>5. PendingInv'
  BY DEF Signal, PendingInv
<1> QED
  BY <1>1, <1>2, <1>3, <1>4, <1>5, QuietStep

\* A process ends or is reaped, or goes on to delete its worker.
LEMMA ProcessLocalStep ==
  ASSUME IInv, ~torn, TypeOK', MutexInv',
         UNCHANGED <<table, ports, launcherVars, loaderVars, pworker, pports>>,
         has_changes' \/ has_changes' = has_changes,
         \A p \in Pids : pstate'[p] = "unborn" <=> pstate[p] = "unborn",
         \A p \in Pids : Alive(p)' => Alive(p),
         has_changes' \/ \A p \in Pids : pstate[p] = "announcing" => pstate'[p] = "announcing"
  PROVE  WholeInv'
<1> USE DEF launcherVars, loaderVars
<1>1. LauncherInv'
  BY LauncherKept
<1>2. LoaderInv'
  BY LoaderKept
<1>3. PendingInv'
  <2>1. CASE has_changes'
    BY <2>1 DEF PendingInv
  <2>2. CASE ~has_changes'
    <3>1. \A w : Announced(w) => Announced(w)'
      BY <2>2, AnnouncedKept
    <3>2. \A w : Pending(w)' <=> Pending(w)
      BY DEF Pending, Present, HasInstance
    <3> QED
      BY <2>2, <3>1, <3>2 DEF IInv, WholeInv, PendingInv
  <2> QED
    BY <2>1, <2>2
<1> QED
  BY <1>1, <1>2, <1>3, QuietStep

\* The steps of a process but the marking of its entry.
LEMMA ProcessStep ==
  ASSUME IInv, ~torn', TypeOK', MutexInv', NEW p \in Pids, Process(p), ~MarkDeleted(p)
  PROVE  WholeInv'
<1>0. ~torn /\ TypeOK
  BY TornForEver DEF IInv, Next
<1>1. /\ UNCHANGED <<table, ports, launcherVars, loaderVars, pworker, pports>>
      /\ has_changes' \/ has_changes' = has_changes
  BY DEF Process, Mark, DeleteWorker, LockToMark, AnnounceDeleted, Exit, Crash, InitReaps,
     tableVars, Signal
<1>2. /\ \A q \in Pids : pstate'[q] = "unborn" <=> pstate[q] = "unborn"
      /\ \A q \in Pids : Alive(q)' => Alive(q)
  BY <1>0 DEF TypeOK, Alive, Live, Process, Mark, DeleteWorker, LockToMark, AnnounceDeleted,
     Exit, Crash, InitReaps
<1>3. has_changes' \/ \A q \in Pids : pstate[q] = "announcing" => pstate'[q] = "announcing"
  BY <1>0 DEF TypeOK, Process, Mark, DeleteWorker, LockToMark, AnnounceDeleted,
     Exit, Crash, InitReaps, ProcessInside, Signal
<1> QED
  BY <1>0, <1>1, <1>2, <1>3, ProcessLocalStep

\* The steps of the Launcher that change only its own variables and reap.
LEMMA LauncherLocalStep ==
  ASSUME IInv, ~torn, TypeOK', MutexInv', LauncherInv', PendingInv',
         UNCHANGED <<table, ports, spawned, to_be_removed, request, pworker, pports>>,
         endpoint' = endpoint \/ (endpoint' = {} /\ lpc' = "exited"),
         lpc' = "break" <=> lpc = "break",
         lpc = "exited" => lpc' = "exited",
         \A p \in Pids : pstate'[p] = "unborn" <=> pstate[p] = "unborn",
         \A p \in Pids : Alive(p)' => Alive(p),
         \A t \in Threads : tpc'[t] = tpc[t] \/ (tpc[t] = "waiting" /\ tpc'[t] = "woken")
  PROVE  WholeInv'
<1>1. LoaderInv'
  BY LoaderKept
<1> QED
  BY <1>1, QuietStep

LEMMA LockToUpdateStep ==
  ASSUME IInv, ~torn, TypeOK', MutexInv', LockToUpdate
  PROVE  WholeInv'
<1> USE DEF LockToUpdate, tableVars, loaderVars, processVars
<1>1. LauncherInv'
  BY DEF IInv, WholeInv, LauncherInv, Starting
<1>2. PendingInv'
  BY DEF IInv, WholeInv, PendingInv, Pending, Present, HasInstance, Announced, Starting
<1>3. \A p : Alive(p)' <=> Alive(p)
  BY DEF Alive
<1> QED
  BY <1>1, <1>2, <1>3, LauncherLocalStep

LEMMA FindNoChangesStep ==
  ASSUME IInv, ~torn, TypeOK', MutexInv', FindNoChanges
  PROVE  WholeInv'
<1> USE DEF FindNoChanges, tableVars, loaderVars
<1>1. /\ \A p \in Pids : pstate'[p] = "unborn" <=> pstate[p] = "unborn"
      /\ \A p \in Pids : Alive(p)' => Alive(p)
      /\ \A p \in Pids : Alive(p) => pstate'[p] = pstate[p]
  BY ReapTypes DEF IInv
<1>2. LauncherInv'
  BY DEF IInv, WholeInv, LauncherInv, Starting
<1>3. \A w : Announced(w) => Announced(w)'
  BY <1>1 DEF Announced, Alive, Live
<1>4. PendingInv'
  BY <1>3 DEF IInv, WholeInv, PendingInv, Pending, Present, HasInstance, Starting
<1> QED
  BY <1>1, <1>2, <1>4, LauncherLocalStep

LEMMA BeginPassStep ==
  ASSUME IInv, ~torn, TypeOK', MutexInv', BeginPass
  PROVE  WholeInv'
<1> USE DEF BeginPass, loaderVars
<1>1. /\ \A p \in Pids : pstate'[p] = "unborn" <=> pstate[p] = "unborn"
      /\ \A p \in Pids : Alive(p)' => Alive(p)
  BY ReapTypes DEF IInv
<1>2. LauncherInv'
  BY DEF IInv, WholeInv, LauncherInv, Starting
<1>3. PendingInv'
  BY WorkersAssumption DEF PendingInv
<1>4. to_be_removed' = to_be_removed
  BY DEF IInv, WholeInv, ErasureInv
<1> QED
  BY <1>1, <1>2, <1>3, <1>4, LauncherLocalStep

LEMMA VisitRunningStep ==
  ASSUME IInv, ~torn, TypeOK', MutexInv', NEW w \in Workers,
         VisitRunning(w) \/ VisitDeletedRunning(w)
  PROVE  WholeInv'
<1> USE DEF VisitRunning, VisitDeletedRunning, Reaches, tableVars, loaderVars, processVars
<1>1. \A p : Alive(p)' <=> Alive(p)
  BY DEF Alive
<1>2. LauncherInv'
  BY DEF IInv, WholeInv, LauncherInv, Starting
<1>3. PendingInv'
  <2>1. \A v : Announced(v) => Announced(v)'
    BY DEF Announced
  <2>2. \A v : Pending(v)' <=> Pending(v)
    BY DEF Pending, Present, HasInstance
  <2>3. Pending(w) => w \in waiting_to_be_deleted'
    BY DEF Pending, RunsForLauncher
  <2>4. \A v \in Workers : Pending(v) /\ v > cursor => v > w \/ v = w
    BY WorkersAssumption DEF Pending
  <2>5. lpc = "scan" /\ lpc' = "scan" /\ cursor' = w
    OBVIOUS
  <2>6. waiting_to_be_deleted \subseteq waiting_to_be_deleted' /\ has_changes' = has_changes
    OBVIOUS
  <2>7. \/ has_changes
        \/ \A v \in Workers : Pending(v) =>
             Announced(v) \/ v \in waiting_to_be_deleted \/ v > cursor
    BY <2>5 DEF IInv, WholeInv, PendingInv, Starting
  <2> HIDE DEF VisitRunning, VisitDeletedRunning
  <2> QED
    BY <2>1, <2>2, <2>3, <2>4, <2>5, <2>6, <2>7 DEF PendingInv
<1> QED
  BY <1>1, <1>2, <1>3, LauncherLocalStep

LEMMA VisitStoppedStep ==
  ASSUME IInv, ~torn, TypeOK', CursorInv', MutexInv', NEW w \in Workers, VisitStopped(w)
  PROVE  WholeInv'
<1> USE DEF VisitStopped, Reaches, tableVars, loaderVars
<1>1. /\ \A p \in Pids : pstate'[p] = "unborn" <=> pstate[p] = "unborn"
      /\ \A p \in Pids : Alive(p)' <=> Alive(p)
      /\ \A p \in Pids : Alive(p) => pstate'[p] = pstate[p]
  BY ReapTypes DEF IInv
<1>2. LauncherInv'
  <2>1. HasInstance(w) => table[w].pid \in Pids
    BY TableTypes DEF IInv
  <2>2. ~RunsForLauncher(w)' /\ cursor' = w /\ table' = table
    BY <1>1, <2>1 DEF RunsForLauncher, HasInstance, Present
  <2>3. lpc = "scan" /\ endpoint = {} /\ spawned = NoPid
    BY DEF IInv, WholeInv, LauncherInv
  <2>4. lpc' = IF table[w].deleted THEN "remove" ELSE "reclaim"
    OBVIOUS
  <2>5. endpoint' = {} /\ spawned' = NoPid
    BY <2>3
  <2> HIDE DEF VisitStopped
  <2> QED
    BY <2>2, <2>4, <2>5 DEF LauncherInv, Starting
<1>3. PendingInv'
  <2>1. \A v : Announced(v) => Announced(v)'
    BY <1>1 DEF Announced, Alive, Live
  <2>2. \A v : Pending(v)' <=> Pending(v)
    BY DEF Pending, Present, HasInstance
  <2>3. \A v \in Workers : Pending(v) /\ v > cursor => v > w \/ v = w
    BY WorkersAssumption DEF Pending
  <2>4. lpc = "scan" /\ lpc' \in {"remove", "reclaim"} /\ cursor' = w
    OBVIOUS
  <2>5. UNCHANGED <<waiting_to_be_deleted, has_changes>>
    OBVIOUS
  <2>6. \/ has_changes
        \/ \A v \in Workers : Pending(v) =>
             Announced(v) \/ v \in waiting_to_be_deleted \/ v > cursor
    BY <2>4 DEF IInv, WholeInv, PendingInv, Starting
  <2> HIDE DEF VisitStopped
  <2> QED
    BY <2>1, <2>2, <2>3, <2>4, <2>5, <2>6 DEF PendingInv, Starting
<1> QED
  BY <1>1, <1>2, <1>3, LauncherLocalStep

LEMMA FailStep ==
  ASSUME IInv, ~torn, TypeOK', MutexInv', NotEnoughPorts \/ ForkFails
  PROVE  WholeInv'
<1> USE DEF NotEnoughPorts, ForkFails, Fail, tableVars, loaderVars, processVars
<1>1. \A p : Alive(p)' <=> Alive(p)
  BY DEF Alive
<1>2. LauncherInv'
  BY DEF IInv, WholeInv, LauncherInv, Starting
<1>3. PendingInv'
  BY DEF PendingInv
<1> QED
  BY <1>1, <1>2, <1>3, LauncherLocalStep

LEMMA EndPassStep ==
  ASSUME IInv, ~torn, TypeOK', MutexInv', EndPass
  PROVE  WholeInv'
<1> USE DEF EndPass, tableVars, loaderVars, processVars
<1>1. \A p : Alive(p)' <=> Alive(p)
  BY DEF Alive
<1>2. /\ lpc = "scan" /\ lpc' \in {"notify", "idle"}
      /\ \A w \in Workers : Present(w) => w <= cursor
  BY DEF ScanOver, IInv, WholeInv, ErasureInv
<1>3. LauncherInv'
  BY <1>2 DEF IInv, WholeInv, LauncherInv, Starting
<1>4. PendingInv'
  <2>1. \A w : Announced(w) => Announced(w)'
    BY DEF Announced
  <2>2. \A w : Pending(w)' <=> Pending(w)
    BY DEF Pending, Present, HasInstance
  <2>3. \A w \in Workers : Pending(w) => ~(w > cursor) /\ w \notin waiting_to_be_deleted
    BY <1>2, WorkersAssumption DEF Pending, IInv, TypeOK
  <2>4. has_changes \/ \A w \in Workers : Pending(w) => Announced(w)
    BY <1>2, <2>3 DEF IInv, WholeInv, PendingInv, Starting
  <2> QED
    BY <2>1, <2>2, <2>4 DEF PendingInv
<1> QED
  BY <1>1, <1>2, <1>3, <1>4, LauncherLocalStep

LEMMA NotifyStep ==
  ASSUME IInv, ~torn, TypeOK', MutexInv', Notify
  PROVE  WholeInv'
<1> USE DEF Notify, tableVars, processVars
<1>1. \A p : Alive(p)' <=> Alive(p)
  BY DEF Alive
<1>2. \A t \in Threads : tpc'[t] = tpc[t] \/ (tpc[t] = "waiting" /\ tpc'[t] = "woken")
  BY DEF IInv, TypeOK
<1>3. LauncherInv'
  BY DEF IInv, WholeInv, LauncherInv, Starting
<1>4. PendingInv'
  <2>1. \A w : Announced(w) => Announced(w)'
    BY <1>2 DEF Announced
  <2>2. \A w : Pending(w)' <=> Pending(w)
    BY DEF Pending, Present, HasInstance
  <2>3. has_changes \/ \A w \in Workers : Pending(w) => Announced(w)
    BY DEF IInv, WholeInv, PendingInv, Starting
  <2> QED
    BY <2>1, <2>2, <2>3 DEF PendingInv
<1> QED
  BY <1>1, <1>2, <1>3, <1>4, LauncherLocalStep

-----------------------------------------------------------------------------
(* The steps that change the table or the ports.                           *)

\* While somebody else is in the critical section the Launcher has nothing in
\* hand, and no entry whose ports are reclaimed is left in the table.
LEMMA LauncherOutside ==
  ASSUME IInv, ~torn, ~LauncherInside
  PROVE  /\ to_be_removed = {} /\ endpoint = {} /\ spawned = NoPid
         /\ lpc \notin Starting \cup {"remove", "break", "scan", "begin"}
  BY DEF IInv, WholeInv, ErasureInv, LauncherInv, LauncherInside, Starting, TypeOK

\* In a section of a loader thread.
LEMMA LoaderAlone ==
  ASSUME IInv, ~torn, NEW t \in Threads, LoaderInside(t)
  PROVE  /\ to_be_removed = {} /\ endpoint = {} /\ spawned = NoPid
         /\ lpc \notin Starting \cup {"remove", "break", "scan", "begin"}
         /\ \A u \in Threads \ {t} : ~LoaderInside(u)
         /\ request[t] \in Workers
<1>1. ~LauncherInside /\ \A u \in Threads \ {t} : ~LoaderInside(u)
  BY DEF IInv, WholeInv, MutexInv
<1>2. request[t] \in Workers
  BY DEF IInv, TypeOK, LoaderInside
<1> QED
  BY <1>1, <1>2, LauncherOutside

\* In the Launcher's section.
LEMMA LauncherAlone ==
  ASSUME IInv, ~torn, LauncherInside
  PROVE  /\ \A t \in Threads : ~LoaderInside(t)
         /\ \A w \in Workers : Freed(w) => w \in to_be_removed
<1>1. \A t \in Threads : ~LoaderInside(t)
  BY DEF IInv, WholeInv, MutexInv
<1> QED
  BY <1>1 DEF LoaderInside, Freed

\* An instance of the table was forked for the worker of its entry: it is the
\* instance of no other entry.
LEMMA InstanceOnce ==
  ASSUME IInv, ~torn, NEW v \in Workers, NEW w \in Workers,
         HasInstance(v), HasInstance(w), table[v].pid = table[w].pid
  PROVE  v = w
  BY DEF IInv, WholeInv, InstanceInv

\* A loader finds no entry for the worker and makes an empty one.
LEMMA InsertStep ==
  ASSUME IInv, ~torn, TypeOK', MutexInv', NEW t \in Threads, CheckTable(t),
         ~Present(request[t])
  PROVE  WholeInv'
<1>a. PICK w \in Workers : w = request[t]
  BY DEF CheckTable, IInv, TypeOK
<1>0. /\ LoaderInside(t)
      /\ table' = [table EXCEPT ![w] = EmptyEntry]
      /\ tpc' = [tpc EXCEPT ![t] = "announce"]
      /\ UNCHANGED <<ports, has_changes, request, lpc, cursor, waiting_to_be_deleted,
                     to_be_removed, endpoint, spawned, pstate, pworker, pports>>
  BY <1>a DEF CheckTable, HasInstance, Continue, LoaderInside, launcherVars, processVars
<1>1. /\ to_be_removed = {} /\ endpoint = {} /\ spawned = NoPid
      /\ lpc \notin Starting \cup {"remove", "break", "scan", "begin"}
  BY <1>0, LoaderAlone
<1>2. /\ Present(w)' /\ ~HasInstance(w)'
      /\ \A v \in Workers : v # w => table'[v] = table[v]
      /\ ~Present(w)
  BY <1>a, <1>0, <1>1, TableUpdate, EmptyEntryType DEF IInv, HasInstance, EmptyEntry
<1>3. /\ tpc'[t] = "announce" /\ request'[t] = w
      /\ \A u \in Threads : u # t => tpc'[u] \notin {"reclaim", "reset"}
      /\ \A u \in Threads : tpc[u] # "reset"
  BY <1>a, <1>0, <1>1, LoaderAlone DEF IInv, TypeOK, LoaderInside, CheckTable
<1>4. LauncherInv'
  BY <1>0, <1>1 DEF LauncherInv, Starting, IInv, WholeInv
<1>5. LoaderInv'
  BY <1>3 DEF LoaderInv
<1>6. \A v \in Workers : /\ HasInstance(v)' => v # w
                         /\ v # w => (HasInstance(v)' <=> HasInstance(v))
                         /\ v # w => (Present(v)' <=> Present(v))
  BY <1>2 DEF HasInstance, Present
<1>7. InstanceInv'
  BY <1>0, <1>2, <1>6 DEF InstanceInv, IInv, WholeInv
<1>8. LiveProcessHasEntry'
  <2>1. \A p \in Pids : Alive(p)' => Alive(p) /\ pworker[p] \in Workers /\ Present(pworker[p])
    BY <1>0 DEF Alive, Live, IInv, TypeOK, WholeInv, LiveProcessHasEntry
  <2> QED
    BY <1>0, <1>2, <1>6, <2>1 DEF IInv, WholeInv, LiveProcessHasEntry
<1>9. ErasureInv'
  BY <1>0, <1>1 DEF ErasureInv
<1>10. OwnershipInv'
  <2>1. \A p \in Pids : Holds(p)' => Holds(p)
    BY <1>0, <1>1, <1>2, <1>3, <1>6 DEF Holds, Freed
  <2> QED
    BY <1>0, <2>1 DEF OwnershipInv, IInv, WholeInv
<1>11. PortsNotLeaked'
  BY <1>0, <1>2, <1>6 DEF PortsNotLeaked, IInv, WholeInv, HasInstance
<1>12. PendingInv'
  BY <1>0, <1>1, <1>2, <1>3, <1>6 DEF PendingInv, Pending, Announced, IInv, WholeInv, Starting
<1> QED
  BY <1>4, <1>5, <1>7, <1>8, <1>9, <1>10, <1>11, <1>12 DEF WholeInv

\* The other outcomes of CheckTable.
LEMMA CheckStep ==
  ASSUME IInv, ~torn, TypeOK', MutexInv', NEW t \in Threads, CheckTable(t),
         Present(request[t])
  PROVE  WholeInv'
<1> DEFINE w == request[t]
<1>1. CASE tpc'[t] # "reclaim"
  <2>1. UNCHANGED <<tableVars, launcherVars, processVars>>
    BY <1>1 DEF CheckTable, tableVars, HasInstance, Respond, Continue
  <2>2. \A u \in Threads :
           \/ tpc'[u] = tpc[u] /\ request'[u] = request[u]
           \/ tpc[u] \notin {"reset", "announce"} /\ tpc'[u] \notin {"reclaim", "reset"}
    BY <1>1 DEF CheckTable, Respond, Continue, IInv, TypeOK
  <2> QED
    BY <2>1, <2>2, LoaderLocalStep
<1>2. CASE tpc'[t] = "reclaim"
  <2>1. /\ HasInstance(w) /\ ~table[w].deleted /\ ~RunsForLoader(w)
        /\ tpc[t] = "look" /\ tpc' = [tpc EXCEPT ![t] = "reclaim"]
        /\ UNCHANGED <<tableVars, request, launcherVars, processVars>>
    BY <1>2 DEF CheckTable, Respond, Continue, IInv, TypeOK, tableVars
  <2> USE DEF tableVars, launcherVars, processVars
  <2>2. \A p : Alive(p)' <=> Alive(p)
    BY <2>1 DEF Alive
  <2>3. LauncherInv'
    BY <2>1, <2>2, LauncherKept
  <2>4. LoaderInv'
    <3>1. ~Alive(table[w].pid)' /\ HasInstance(w)' /\ ~table'[w].deleted
      BY <2>1 DEF RunsForLoader, HasInstance, Present, Alive
    <3>2. \A u \in Threads : u # t => tpc'[u] = tpc[u]
      BY <2>1 DEF IInv, TypeOK
    <3>3. LoaderInside(t)
      BY <2>1 DEF LoaderInside
    <3>4. \A u \in Threads : u # t => tpc'[u] \notin {"reclaim", "reset"}
      BY <3>2, <3>3, LoaderAlone DEF LoaderInside
    <3> QED
      BY <1>2, <2>1, <3>1, <3>4 DEF LoaderInv
  <2>5. PendingInv'
    <3>1. \A v : Announced(v) => Announced(v)'
      BY <2>1 DEF Announced, IInv, TypeOK
    <3>2. \A v : Pending(v)' <=> Pending(v)
      BY <2>1 DEF Pending, Present, HasInstance
    <3> QED
      BY <2>1, <3>1, <3>2 DEF IInv, WholeInv, PendingInv
  <2>6. \A u \in Threads : /\ tpc[u] = "reset" => tpc'[u] = "reset"
                           /\ tpc'[u] = "reset" => tpc[u] = "reset"
    BY <2>1 DEF IInv, TypeOK
  <2> QED
    BY <2>1, <2>2, <2>3, <2>4, <2>5, <2>6, QuietStep
<1> QED
  BY <1>1, <1>2

LEMMA ReclaimPortsStep ==
  ASSUME IInv, ~torn, TypeOK', MutexInv', NEW t \in Threads, ReclaimPorts(t)
  PROVE  WholeInv'
<1>a. PICK w \in Workers : w = request[t]
  BY DEF ReclaimPorts, IInv, TypeOK
<1>0. /\ LoaderInside(t) /\ HasInstance(w) /\ ~table[w].deleted /\ ~Alive(table[w].pid)
      /\ ports' = ports \cup pports[table[w].pid]
      /\ tpc' = [tpc EXCEPT ![t] = "reset"]
      /\ UNCHANGED <<table, has_changes, request, lpc, cursor, waiting_to_be_deleted,
                     to_be_removed, endpoint, spawned, pstate, pworker, pports>>
  BY <1>a DEF ReclaimPorts, Continue, LoaderInside, LoaderInv, IInv, WholeInv,
     launcherVars, processVars
<1>b. PICK p \in Pids : p = table[w].pid
  BY <1>0, TableTypes DEF IInv
<1>1. /\ to_be_removed = {} /\ endpoint = {} /\ spawned = NoPid
      /\ lpc \notin Starting \cup {"remove", "break", "scan", "begin"}
  BY <1>0, LoaderAlone
<1>2. /\ \A v : Present(v)' <=> Present(v)
      /\ \A v : HasInstance(v)' <=> HasInstance(v)
      /\ \A q : Alive(q)' <=> Alive(q)
  BY <1>0 DEF Present, HasInstance, Alive
<1>3. /\ tpc'[t] = "reset" /\ tpc[t] = "reclaim"
      /\ \A u \in Threads : u # t => tpc[u] \notin {"reclaim", "reset"} /\ tpc'[u] = tpc[u]
  BY <1>0, LoaderAlone DEF IInv, TypeOK, LoaderInside, ReclaimPorts
<1>4. LauncherInv'
  BY <1>0, <1>1 DEF LauncherInv, Starting, IInv, WholeInv
<1>5. LoaderInv'
  BY <1>a, <1>0, <1>2, <1>3 DEF LoaderInv
<1>6. InstanceInv' /\ LiveProcessHasEntry' /\ ErasureInv'
  BY <1>0, <1>1, <1>2 DEF InstanceInv, LiveProcessHasEntry, ErasureInv, IInv, WholeInv
<1>7. OwnershipInv'
  <2>1. /\ \A v \in Workers : ~Freed(v)
        /\ Freed(w)'
    BY <1>a, <1>0, <1>1, <1>3 DEF Freed
  <2>2. \A q \in Pids : Holds(q)' => Holds(q) /\ q # p
    <3>1. \A v \in Workers : HasInstance(v) /\ table[v].pid = p => v = w
      BY <1>0, <1>b, InstanceOnce
    <3> QED
      BY <1>0, <1>1, <1>2, <2>1, <3>1, PidsAssumption DEF Holds
  <2>3. Holds(p)
    BY <1>0, <1>b, <2>1 DEF Holds
  <2> QED
    BY <1>0, <1>1, <1>b, <2>2, <2>3 DEF OwnershipInv, IInv, WholeInv
<1>8. PortsNotLeaked'
  BY <1>0, <1>2 DEF PortsNotLeaked, IInv, WholeInv
<1>9. PendingInv'
  <2>1. \A v : Announced(v) => Announced(v)'
    BY <1>0, <1>3 DEF Announced
  <2> QED
    BY <1>0, <1>2, <2>1 DEF PendingInv, Pending, IInv, WholeInv
<1> QED
  BY <1>4, <1>5, <1>6, <1>7, <1>8, <1>9 DEF WholeInv

LEMMA ResetEntryStep ==
  ASSUME IInv, ~torn, TypeOK', MutexInv', NEW t \in Threads, ResetEntry(t)
  PROVE  WholeInv'
<1>a. PICK w \in Workers : w = request[t]
  BY DEF ResetEntry, IInv, TypeOK
<1>0. /\ LoaderInside(t) /\ HasInstance(w) /\ ~Alive(table[w].pid)
      /\ pports[table[w].pid] \subseteq ports
      /\ table' = [table EXCEPT ![w] = EmptyEntry]
      /\ tpc' = [tpc EXCEPT ![t] = "announce"]
      /\ UNCHANGED <<ports, has_changes, request, lpc, cursor, waiting_to_be_deleted,
                     to_be_removed, endpoint, spawned, pstate, pworker, pports>>
  BY <1>a DEF ResetEntry, Reset, Continue, LoaderInside, LoaderInv, IInv, WholeInv,
     launcherVars, processVars
<1>1. /\ to_be_removed = {} /\ endpoint = {} /\ spawned = NoPid
      /\ lpc \notin Starting \cup {"remove", "break", "scan", "begin"}
  BY <1>0, LoaderAlone
<1>2. /\ Present(w)' /\ ~HasInstance(w)'
      /\ \A v \in Workers : v # w => table'[v] = table[v]
  BY <1>0, <1>1, TableUpdate, EmptyEntryType DEF IInv, HasInstance, EmptyEntry
<1>3. /\ tpc'[t] = "announce" /\ request'[t] = w /\ tpc[t] = "reset"
      /\ \A u \in Threads : u # t => tpc[u] \notin {"reclaim", "reset"} /\ tpc'[u] = tpc[u]
  BY <1>a, <1>0, LoaderAlone DEF IInv, TypeOK, LoaderInside, ResetEntry
<1>4. LauncherInv'
  BY <1>0, <1>1 DEF LauncherInv, Starting, IInv, WholeInv
<1>5. LoaderInv'
  BY <1>3 DEF LoaderInv
<1>6. \A v \in Workers : /\ HasInstance(v)' => v # w
                         /\ v # w => (HasInstance(v)' <=> HasInstance(v))
                         /\ v # w => (Present(v)' <=> Present(v))
  BY <1>2 DEF HasInstance, Present
<1>7. InstanceInv'
  BY <1>0, <1>2, <1>6 DEF InstanceInv, IInv, WholeInv
<1>8. LiveProcessHasEntry'
  <2>1. \A p \in Pids : Alive(p)' =>
           /\ Alive(p) /\ pworker[p] \in Workers
           /\ Present(pworker[p]) /\ table[pworker[p]].pid = p
    BY <1>0, <1>1, PidsAssumption
    DEF Alive, Live, IInv, TypeOK, WholeInv, LiveProcessHasEntry
  <2>2. \A p \in Pids : Alive(p)' => pworker[p] # w
    BY <1>0, <2>1
  <2> QED
    BY <1>0, <1>2, <1>6, <2>1, <2>2 DEF LiveProcessHasEntry
<1>9. ErasureInv'
  BY <1>0, <1>1 DEF ErasureInv
<1>10. OwnershipInv'
  <2>1. \A p \in Pids : Holds(p)' => Holds(p)
    BY <1>a, <1>0, <1>1, <1>2, <1>3, <1>6 DEF Holds, Freed
  <2> QED
    BY <1>0, <2>1 DEF OwnershipInv, IInv, WholeInv
<1>11. PortsNotLeaked'
  BY <1>0, <1>2, <1>6 DEF PortsNotLeaked, IInv, WholeInv
<1>12. PendingInv'
  BY <1>0, <1>1, <1>2, <1>3, <1>6 DEF PendingInv, Pending, Announced, IInv, WholeInv, Starting
<1> QED
  BY <1>4, <1>5, <1>7, <1>8, <1>9, <1>10, <1>11, <1>12 DEF WholeInv

LEMMA RemoveStoppedStep ==
  ASSUME IInv, ~torn, TypeOK', MutexInv', RemoveStopped
  PROVE  WholeInv'
<1>a. PICK w \in Workers : w = cursor /\ Present(w)
  BY DEF RemoveStopped, IInv, CursorInv
<1>0. /\ LauncherInside /\ lpc = "remove" /\ lpc' = "break"
      /\ table[w].deleted /\ ~RunsForLauncher(w)
      /\ ports' = PortsReclaimed(w)
      /\ to_be_removed' = to_be_removed \cup {w}
      /\ UNCHANGED <<table, cursor, endpoint, spawned, tpc, request, pstate, pworker, pports>>
  BY <1>a DEF RemoveStopped, LauncherInside, LauncherInv, IInv, WholeInv, loaderVars, processVars
<1>1. to_be_removed = {} /\ endpoint = {} /\ spawned = NoPid
  BY <1>0 DEF IInv, WholeInv, ErasureInv, LauncherInv
<1>2. /\ \A v : Present(v)' <=> Present(v)
      /\ \A v : HasInstance(v)' <=> HasInstance(v)
      /\ \A v : RunsForLauncher(v)' <=> RunsForLauncher(v)
      /\ \A q : Alive(q)' <=> Alive(q)
  BY <1>0 DEF Present, HasInstance, Alive, RunsForLauncher
<1>3. \A u \in Threads : tpc'[u] \notin {"reclaim", "reset"}
  BY <1>0, LauncherAlone DEF LoaderInside
<1>4. LauncherInv'
  BY <1>0, <1>1 DEF LauncherInv, Starting
<1>5. LoaderInv'
  BY <1>3 DEF LoaderInv
<1>6. InstanceInv' /\ LiveProcessHasEntry'
  BY <1>0, <1>1, <1>2 DEF InstanceInv, LiveProcessHasEntry, IInv, WholeInv
<1>7. ErasureInv'
  BY <1>a, <1>0, <1>1, <1>2 DEF ErasureInv, PortsReclaimed
<1>8. OwnershipInv'
  <2>1. \A v \in Workers : ~Freed(v)
    BY <1>0, <1>1, LauncherAlone
  <2>2. Freed(w)'
    BY <1>0 DEF Freed
  <2>3. \A q \in Pids : Holds(q)' =>
           Holds(q) /\ \A v \in Workers : HasInstance(v) /\ table[v].pid = q => v # w
    <3>1. \A v, u \in Workers :
             HasInstance(v) /\ HasInstance(u) /\ table[v].pid = table[u].pid => v = u
      BY InstanceOnce
    <3> QED
      BY <1>0, <1>1, <1>2, <2>1, <2>2, <3>1, PidsAssumption DEF Holds
  <2>4. CASE HasInstance(w)
    <3>1. PICK p \in Pids : p = table[w].pid
      BY <2>4, TableTypes DEF IInv
    <3>2. Holds(p) /\ \A q \in Pids : Holds(q)' => Holds(q) /\ q # p
      BY <2>1, <2>3, <2>4, <3>1 DEF Holds
    <3> QED
      BY <1>0, <1>1, <2>4, <3>1, <3>2 DEF OwnershipInv, IInv, WholeInv, PortsReclaimed
  <2>5. CASE ~HasInstance(w)
    BY <1>0, <2>3, <2>5 DEF OwnershipInv, IInv, WholeInv, PortsReclaimed
  <2> QED
    BY <2>4, <2>5
<1>9. PortsNotLeaked'
  <2>1. ports \subseteq ports' /\ lpc # "exited"
    BY <1>0 DEF PortsReclaimed
  <2> QED
    BY <1>0, <1>2, <2>1 DEF PortsNotLeaked, IInv, WholeInv
<1>10. PendingInv'
  BY <1>0 DEF PendingInv
<1> QED
  BY <1>4, <1>5, <1>6, <1>7, <1>8, <1>9, <1>10 DEF WholeInv

LEMMA ReclaimInstanceStep ==
  ASSUME IInv, ~torn, TypeOK', MutexInv', ReclaimInstance
  PROVE  WholeInv'
<1>a. PICK w \in Workers : w = cursor /\ Present(w)
  BY DEF ReclaimInstance, IInv, CursorInv, Starting
<1>0. /\ LauncherInside /\ lpc = "reclaim" /\ lpc' = "take"
      /\ ~table[w].deleted /\ ~RunsForLauncher(w)
      /\ ports' = PortsReclaimed(w)
      /\ table' = [table EXCEPT ![w].pid = NoPid]
      /\ UNCHANGED <<has_changes, cursor, waiting_to_be_deleted, to_be_removed, endpoint,
                     spawned, tpc, request, pstate, pworker, pports>>
  BY <1>a DEF ReclaimInstance, LauncherInside, LauncherInv, IInv, WholeInv, Starting,
     loaderVars, processVars
<1>1. to_be_removed = {} /\ endpoint = {} /\ spawned = NoPid
  BY <1>0 DEF IInv, WholeInv, ErasureInv, LauncherInv
<1>2. /\ Present(w)' /\ ~HasInstance(w)' /\ ~table'[w].deleted
      /\ \A v \in Workers : v # w => table'[v] = table[v]
  <2>1. table[w] \in Entry
    BY <1>a DEF IInv, TypeOK, Present
  <2>2. /\ [table[w] EXCEPT !.pid = NoPid] \in Entry
        /\ [table[w] EXCEPT !.pid = NoPid] # Absent
        /\ [table[w] EXCEPT !.pid = NoPid].pid = NoPid
        /\ [table[w] EXCEPT !.pid = NoPid].deleted = table[w].deleted
    BY <2>1, EntryUpdates
  <2>3. /\ table'[w] = [table[w] EXCEPT !.pid = NoPid]
        /\ \A v \in Workers : v # w => table'[v] = table[v]
    BY <1>0 DEF IInv, TypeOK
  <2> QED
    BY <1>0, <2>2, <2>3 DEF Present, HasInstance
<1>3. \A u \in Threads : tpc'[u] \notin {"reclaim", "reset"}
  BY <1>0, LauncherAlone DEF LoaderInside
<1>4. LauncherInv'
  BY <1>a, <1>0, <1>1, <1>2 DEF LauncherInv, Starting
<1>5. LoaderInv'
  BY <1>3 DEF LoaderInv
<1>6. \A v \in Workers : /\ HasInstance(v)' => v # w
                         /\ v # w => (HasInstance(v)' <=> HasInstance(v))
                         /\ (Present(v)' <=> Present(v))
  BY <1>a, <1>2 DEF HasInstance, Present
<1>7. InstanceInv'
  BY <1>0, <1>2, <1>6 DEF InstanceInv, IInv, WholeInv
<1>8. LiveProcessHasEntry'
  <2>1. \A p \in Pids : Alive(p)' =>
           /\ Alive(p) /\ pworker[p] \in Workers
           /\ Present(pworker[p]) /\ table[pworker[p]].pid = p
    BY <1>0, <1>1, PidsAssumption
    DEF Alive, Live, IInv, TypeOK, WholeInv, LiveProcessHasEntry
  <2>2. \A p \in Pids : Alive(p)' => pworker[p] # w
    BY <1>0, <2>1, PidsAssumption DEF RunsForLauncher, HasInstance
  <2> QED
    BY <1>0, <1>2, <1>6, <2>1, <2>2 DEF LiveProcessHasEntry
<1>9. ErasureInv'
  BY <1>0, <1>1 DEF ErasureInv
<1>10. OwnershipInv'
  <2>1. \A v \in Workers : ~Freed(v)
    BY <1>0, <1>1, LauncherAlone
  <2>2. \A q \in Pids : Holds(q)' => Holds(q) /\ (HasInstance(w) => q # table[w].pid)
    <3>1. \A v \in Workers :
             HasInstance(v) /\ HasInstance(w) /\ table[v].pid = table[w].pid => v = w
      BY InstanceOnce
    <3> QED
      BY <1>0, <1>1, <1>2, <1>6, <2>1, <3>1, PidsAssumption DEF Holds
  <2>3. HasInstance(w) => table[w].pid \in Pids /\ Holds(table[w].pid)
    BY <2>1, TableTypes DEF Holds, IInv
  <2> QED
    BY <1>0, <1>1, <2>2, <2>3 DEF OwnershipInv, IInv, WholeInv, PortsReclaimed
<1>11. PortsNotLeaked'
  <2>1. /\ ports \subseteq ports' /\ lpc # "exited"
        /\ HasInstance(w) => pports[table[w].pid] \subseteq ports'
    BY <1>0 DEF PortsReclaimed
  <2> QED
    BY <1>0, <1>2, <1>6, <2>1 DEF PortsNotLeaked, IInv, WholeInv
<1>12. PendingInv'
  <2>1. \A v \in Workers : Pending(v)' => Pending(v) \/ v = w
    BY <1>2, <1>6 DEF Pending
  <2>2. \A v : Announced(v)' <=> Announced(v)
    BY <1>0 DEF Announced
  <2> QED
    BY <1>a, <1>0, <2>1, <2>2 DEF PendingInv, IInv, WholeInv, Starting
<1> QED
  BY <1>4, <1>5, <1>7, <1>8, <1>9, <1>10, <1>11, <1>12 DEF WholeInv

LEMMA TakePortsStep ==
  ASSUME IInv, ~torn, TypeOK', MutexInv', TakePorts
  PROVE  WholeInv'
<1>0. /\ LauncherInside /\ lpc = "take" /\ lpc' = "fork"
      /\ endpoint' \subseteq ports /\ ports' = ports \ endpoint'
      /\ UNCHANGED <<table, has_changes, cursor, waiting_to_be_deleted, to_be_removed,
                     spawned, tpc, request, pstate, pworker, pports>>
  BY DEF TakePorts, LauncherInside, loaderVars, processVars
<1>1. to_be_removed = {} /\ endpoint = {} /\ spawned = NoPid
  BY <1>0 DEF IInv, WholeInv, ErasureInv, LauncherInv
<1>2. /\ \A v : Present(v)' <=> Present(v)
      /\ \A v : HasInstance(v)' <=> HasInstance(v)
      /\ \A q : Alive(q)' <=> Alive(q)
      /\ \A q : Holds(q)' <=> Holds(q)
  BY <1>0 DEF Present, HasInstance, Alive, Holds, Freed
<1>3. \A u \in Threads : tpc'[u] \notin {"reclaim", "reset"}
  BY <1>0, LauncherAlone DEF LoaderInside
<1>4. LauncherInv'
  BY <1>0, <1>1, <1>2 DEF LauncherInv, Starting, IInv, WholeInv
<1>5. LoaderInv'
  BY <1>3 DEF LoaderInv
<1>6. InstanceInv' /\ LiveProcessHasEntry' /\ ErasureInv'
  BY <1>0, <1>1, <1>2 DEF InstanceInv, LiveProcessHasEntry, ErasureInv, IInv, WholeInv
<1>7. OwnershipInv'
  BY <1>0, <1>2 DEF OwnershipInv, IInv, WholeInv
<1>8. PortsNotLeaked'
  BY <1>0, <1>1, <1>2 DEF PortsNotLeaked, IInv, WholeInv
<1>9. PendingInv'
  BY <1>0, <1>2 DEF PendingInv, Pending, Announced, IInv, WholeInv, Starting
<1> QED
  BY <1>4, <1>5, <1>6, <1>7, <1>8, <1>9 DEF WholeInv

LEMMA ForkStep ==
  ASSUME IInv, ~torn, TypeOK', CursorInv', MutexInv', Fork
  PROVE  WholeInv'
<1>a. PICK p \in Pids :
        /\ pstate[p] = "unborn"
        /\ pstate' = [pstate EXCEPT ![p] = "serving"]
        /\ pworker' = [pworker EXCEPT ![p] = cursor]
        /\ pports' = [pports EXCEPT ![p] = endpoint]
        /\ spawned' = p
  BY DEF Fork
<1>0. /\ LauncherInside /\ lpc = "fork" /\ lpc' = "forking" /\ endpoint' = {}
      /\ cursor \in Workers /\ Present(cursor) /\ ~HasInstance(cursor)
      /\ ~table[cursor].deleted
      /\ UNCHANGED <<table, ports, has_changes, cursor, waiting_to_be_deleted, to_be_removed,
                     tpc, request>>
  BY DEF Fork, LauncherInside, tableVars, loaderVars, IInv, CursorInv, WholeInv, LauncherInv,
     Starting
<1>1. to_be_removed = {} /\ spawned = NoPid
  BY <1>0 DEF IInv, WholeInv, ErasureInv, LauncherInv
<1>2. /\ \A v : Present(v)' <=> Present(v)
      /\ \A v : HasInstance(v)' <=> HasInstance(v)
      /\ \A v : Freed(v)' <=> Freed(v)
  BY <1>0 DEF Present, HasInstance, Freed
<1>3. /\ pstate'[p] = "serving" /\ pworker'[p] = cursor /\ pports'[p] = endpoint
      /\ \A q \in Pids : q # p =>
           pstate'[q] = pstate[q] /\ pworker'[q] = pworker[q] /\ pports'[q] = pports[q]
  BY <1>a DEF IInv, TypeOK
<1>4. \A u \in Threads : tpc'[u] \notin {"reclaim", "reset"}
  BY <1>0, LauncherAlone DEF LoaderInside
<1>5. \A v \in Workers : HasInstance(v) => table[v].pid \in Pids /\ table[v].pid # p
  BY <1>a, TableTypes DEF IInv, WholeInv, InstanceInv
<1>6. LauncherInv'
  BY <1>a, <1>0, <1>2, <1>3, PidsAssumption DEF LauncherInv, Starting
<1>7. LoaderInv'
  BY <1>4 DEF LoaderInv
<1>8. InstanceInv'
  BY <1>0, <1>2, <1>3, <1>5 DEF InstanceInv, IInv, WholeInv
<1>9. LiveProcessHasEntry'
  <2>1. ASSUME NEW q \in Pids, Alive(q)'
        PROVE  Present(pworker[q])' /\ (table'[pworker'[q]].pid = q \/ spawned' = q)
    <3>1. CASE q = p
      BY <1>a, <1>0, <1>2, <1>3, <3>1
    <3>2. CASE q # p
      <4>1. Alive(q)
        BY <1>3, <2>1, <3>2 DEF Alive
      <4>2. Present(pworker[q]) /\ table[pworker[q]].pid = q
        BY <1>1, <4>1, PidsAssumption DEF LiveProcessHasEntry, IInv, WholeInv
      <4> QED
        BY <1>0, <1>3, <3>2, <4>2 DEF Present
    <3> QED
      BY <3>1, <3>2
  <2> QED
    BY <2>1 DEF LiveProcessHasEntry
<1>10. ErasureInv'
  BY <1>0, <1>1 DEF ErasureInv
<1>11. OwnershipInv'
  <2>1. \A q \in Pids : Holds(q)' => q = p \/ (q # p /\ Holds(q))
    BY <1>a, <1>0, <1>2 DEF Holds
  <2>2. endpoint \cap ports = {}
    BY DEF OwnershipInv, IInv, WholeInv
  <2>3. \A q \in Pids : q # p /\ Holds(q) =>
          pports'[q] \cap ports' = {} /\ pports'[q] \cap pports'[p] = {}
    BY <1>0, <1>3 DEF OwnershipInv, IInv, WholeInv
  <2>4. \A q, r \in Pids : q # p /\ r # p /\ q # r /\ Holds(q) /\ Holds(r) =>
          pports'[q] \cap pports'[r] = {}
    BY <1>3 DEF OwnershipInv, IInv, WholeInv
  <2>5. \A q, r \in Pids : Holds(q)' /\ Holds(r)' /\ q # r => pports'[q] \cap pports'[r] = {}
    BY <2>1, <2>3, <2>4
  <2>6. \A q \in Pids : Holds(q)' => pports'[q] \cap ports' = {}
    BY <1>0, <1>3, <2>1, <2>2, <2>3
  <2> QED
    BY <1>0, <2>5, <2>6 DEF OwnershipInv
<1>12. PortsNotLeaked'
  <2>1. spawned' # NoPid
    BY <1>a, PidsAssumption
  <2> QED
    BY <1>a, <1>0, <1>1, <1>2, <1>3, <1>5, <2>1 DEF PortsNotLeaked, IInv, WholeInv
<1>13. PendingInv'
  <2>1. \A v : Announced(v) => Announced(v)'
    BY <1>a, <1>0, <1>3 DEF Announced
  <2>2. \A v : Pending(v)' <=> Pending(v)
    BY <1>0 DEF Pending, Present, HasInstance
  <2> QED
    BY <1>0, <2>1, <2>2 DEF PendingInv, IInv, WholeInv, Starting
<1> QED
  BY <1>6, <1>7, <1>8, <1>9, <1>10, <1>11, <1>12, <1>13 DEF WholeInv

LEMMA RecordInstanceStep ==
  ASSUME IInv, ~torn, TypeOK', MutexInv', RecordInstance
  PROVE  WholeInv'
<1>a. PICK w \in Workers : w = cursor /\ Present(w)
  BY DEF RecordInstance, IInv, CursorInv, Starting
<1>0. /\ LauncherInside /\ lpc = "forking" /\ lpc' = "scan" /\ spawned' = NoPid
      /\ ~table[w].deleted /\ ~HasInstance(w)
      /\ table' = [table EXCEPT ![w].pid = spawned]
      /\ UNCHANGED <<ports, has_changes, cursor, waiting_to_be_deleted, to_be_removed,
                     endpoint, tpc, request, pstate, pworker, pports>>
  BY <1>a DEF RecordInstance, LauncherInside, LauncherInv, IInv, WholeInv, Starting,
     loaderVars, processVars
<1>b. PICK p \in Pids : p = spawned /\ pworker[p] = w /\ pstate[p] # "unborn"
  BY <1>a, <1>0 DEF IInv, TypeOK, WholeInv, LauncherInv
<1>1. to_be_removed = {} /\ endpoint = {}
  BY <1>0 DEF IInv, WholeInv, ErasureInv, LauncherInv
<1>2. /\ Present(w)' /\ HasInstance(w)' /\ ~table'[w].deleted /\ table'[w].pid = p
      /\ \A v \in Workers : v # w => table'[v] = table[v]
  <2>1. table[w] \in Entry
    BY <1>a DEF IInv, TypeOK, Present
  <2>2. /\ [table[w] EXCEPT !.pid = p] # Absent
        /\ [table[w] EXCEPT !.pid = p].pid = p
        /\ [table[w] EXCEPT !.pid = p].deleted = table[w].deleted
    <3>1. [table[w] EXCEPT !.pid = p] \in Entry
      BY <2>1, EntryUpdates
    <3> QED
      BY <2>1, <3>1, EntryUpdates
  <2>3. /\ table'[w] = [table[w] EXCEPT !.pid = p]
        /\ \A v \in Workers : v # w => table'[v] = table[v]
    BY <1>0, <1>b DEF IInv, TypeOK
  <2> QED
    BY <1>0, <2>2, <2>3, PidsAssumption DEF Present, HasInstance
<1>3. \A u \in Threads : tpc'[u] \notin {"reclaim", "reset"}
  BY <1>0, LauncherAlone DEF LoaderInside
<1>4. LauncherInv'
  BY <1>0, <1>1 DEF LauncherInv, Starting
<1>5. LoaderInv'
  BY <1>3 DEF LoaderInv
<1>6. \A v \in Workers : /\ v # w => (HasInstance(v)' <=> HasInstance(v))
                         /\ (Present(v)' <=> Present(v))
  BY <1>a, <1>2 DEF HasInstance, Present
<1>7. InstanceInv'
  BY <1>0, <1>b, <1>2, <1>6 DEF InstanceInv, IInv, WholeInv
<1>8. LiveProcessHasEntry'
  <2>1. \A q \in Pids : Alive(q)' =>
           /\ pworker[q] \in Workers /\ Present(pworker[q])
           /\ q = p \/ table[pworker[q]].pid = q
    BY <1>0, <1>b DEF Alive, Live, IInv, TypeOK, WholeInv, LiveProcessHasEntry
  <2>2. table[w].pid = NoPid
    BY <1>a, <1>0 DEF HasInstance
  <2> QED
    BY <1>0, <1>b, <1>2, <1>6, <2>1, <2>2, PidsAssumption DEF LiveProcessHasEntry
<1>9. ErasureInv'
  BY <1>0, <1>1 DEF ErasureInv
<1>10. OwnershipInv'
  <2>1. \A q \in Pids : Holds(q)' => Holds(q)
    BY <1>0, <1>b, <1>1, <1>2, <1>6, PidsAssumption DEF Holds, Freed
  <2> QED
    BY <1>0, <2>1 DEF OwnershipInv, IInv, WholeInv
<1>11. PortsNotLeaked'
  BY <1>0, <1>b, <1>2, <1>6 DEF PortsNotLeaked, IInv, WholeInv
<1>12. PendingInv'
  <2>1. \A v \in Workers : Pending(v)' => Pending(v) /\ v # w
    BY <1>2, <1>6 DEF Pending
  <2>2. \A v : Announced(v)' <=> Announced(v)
    BY <1>0 DEF Announced
  <2> QED
    BY <1>a, <1>0, <2>1, <2>2 DEF PendingInv, IInv, WholeInv, Starting
<1> QED
  BY <1>4, <1>5, <1>7, <1>8, <1>9, <1>10, <1>11, <1>12 DEF WholeInv

LEMMA ScanAgainStep ==
  ASSUME IInv, ~torn, TypeOK', MutexInv', ScanAgain
  PROVE  WholeInv'
<1>0. /\ LauncherInside /\ lpc \in {"break", "scan"} /\ lpc' = "scan"
      /\ cursor' = 0 /\ to_be_removed' = {}
      /\ table' = [w \in Workers |-> IF w \in to_be_removed THEN Absent ELSE table[w]]
      /\ UNCHANGED <<ports, has_changes, waiting_to_be_deleted, endpoint, spawned,
                     tpc, request, pstate, pworker, pports>>
  BY DEF ScanAgain, ScanOver, Erased, LauncherInside, loaderVars, processVars
<1>1. endpoint = {} /\ spawned = NoPid
  BY <1>0 DEF IInv, WholeInv, LauncherInv
<1>2. \A w \in Workers : /\ w \in to_be_removed => ~Present(w)' /\ ~HasInstance(w)'
                         /\ w \notin to_be_removed =>
                              /\ table'[w] = table[w]
                              /\ Present(w)' <=> Present(w)
                              /\ HasInstance(w)' <=> HasInstance(w)
  BY <1>0 DEF Present, HasInstance
<1>3. \A u \in Threads : tpc'[u] \notin {"reclaim", "reset"}
  BY <1>0, LauncherAlone DEF LoaderInside
<1>4. LauncherInv'
  BY <1>0, <1>1 DEF LauncherInv, Starting
<1>5. LoaderInv'
  BY <1>3 DEF LoaderInv
<1>6. InstanceInv'
  BY <1>0, <1>2 DEF InstanceInv, IInv, WholeInv
<1>7. LiveProcessHasEntry'
  <2>1. \A q \in Pids : Alive(q)' =>
           /\ Alive(q) /\ pworker[q] \in Workers /\ Present(pworker[q])
           /\ table[pworker[q]].pid = q
    BY <1>0, <1>1, PidsAssumption
    DEF Alive, Live, IInv, TypeOK, WholeInv, LiveProcessHasEntry
  <2>2. \A q \in Pids : Alive(q)' => pworker[q] \notin to_be_removed
    BY <2>1, PidsAssumption
    DEF IInv, WholeInv, ErasureInv, RunsForLauncher, HasInstance
  <2> QED
    BY <1>0, <1>2, <2>1, <2>2 DEF LiveProcessHasEntry
<1>8. ErasureInv'
  BY <1>0 DEF ErasureInv
<1>9. OwnershipInv'
  <2>1. \A v \in Workers : Freed(v) => v \in to_be_removed
    BY <1>0, LauncherAlone
  <2>2. \A q \in Pids : Holds(q)' => Holds(q)
    BY <1>0, <1>2, <2>1 DEF Holds
  <2> QED
    BY <1>0, <2>2 DEF OwnershipInv, IInv, WholeInv
<1>10. PortsNotLeaked'
  <2>1. \A w \in to_be_removed : HasInstance(w) => pports[table[w].pid] \subseteq ports
    BY DEF IInv, WholeInv, ErasureInv
  <2> QED
    BY <1>0, <1>1, <1>2, <2>1 DEF PortsNotLeaked, IInv, WholeInv
<1>11. PendingInv'
  BY <1>0, WorkersAssumption DEF PendingInv
<1> QED
  BY <1>4, <1>5, <1>6, <1>7, <1>8, <1>9, <1>10, <1>11 DEF WholeInv

LEMMA MarkDeletedStep ==
  ASSUME IInv, ~torn, TypeOK', MutexInv', NEW p \in Pids, MarkDeleted(p)
  PROVE  WholeInv'
<1>a. PICK w \in Workers : w = pworker[p] /\ Present(w)
  BY DEF MarkDeleted, IInv, TypeOK, WholeInv, LiveProcessHasEntry, Alive, Live
<1>0. /\ ProcessInside(p) /\ pstate[p] = "marking"
      /\ UNCHANGED <<ports, has_changes, launcherVars, loaderVars, pworker, pports>>
      /\ \A q \in Pids : pstate'[q] = "unborn" <=> pstate[q] = "unborn"
      /\ \A q \in Pids : Alive(q)' <=> Alive(q)
      /\ \A q \in Pids : pstate[q] = "announcing" => pstate'[q] = "announcing"
  BY DEF MarkDeleted, ProcessInside, IInv, TypeOK, Alive, Live
<1>1. /\ to_be_removed = {} /\ endpoint = {} /\ spawned = NoPid
      /\ lpc \notin Starting \cup {"remove", "break", "scan", "begin"}
      /\ \A t \in Threads : ~LoaderInside(t)
  <2>1. ~LauncherInside /\ \A t \in Threads : ~LoaderInside(t)
    BY <1>0 DEF IInv, WholeInv, MutexInv
  <2> QED
    BY <2>1, LauncherOutside
<1>2. CASE table[w].deleted
  <2>1. UNCHANGED table
    BY <1>a, <1>2 DEF MarkDeleted
  <2> QED
    BY <1>0, <2>1, ProcessLocalStep
<1>3. CASE ~table[w].deleted
  <2> USE DEF launcherVars, loaderVars
  <2>1. /\ table' = [table EXCEPT ![w].deleted = TRUE]
        /\ pstate' = [pstate EXCEPT ![p] = "announcing"]
    BY <1>a, <1>3 DEF MarkDeleted
  <2>2. /\ Present(w)' /\ table'[w].pid = table[w].pid /\ table'[w].deleted
        /\ \A v \in Workers : v # w => table'[v] = table[v]
    <3>1. table[w] \in Entry
      BY <1>a DEF Present, IInv, TypeOK
    <3>2. table'[w] = [table[w] EXCEPT !.deleted = TRUE]
          /\ \A v \in Workers : v # w => table'[v] = table[v]
      BY <2>1 DEF IInv, TypeOK
    <3>3. /\ [table[w] EXCEPT !.deleted = TRUE] # Absent
          /\ [table[w] EXCEPT !.deleted = TRUE].deleted
          /\ [table[w] EXCEPT !.deleted = TRUE].pid = table[w].pid
      <4>1. [table[w] EXCEPT !.deleted = TRUE] \in Entry
        BY <3>1, EntryUpdates
      <4> QED
        BY <3>1, <4>1, EntryUpdates
    <3> QED
      BY <3>2, <3>3 DEF Present
  <2>3. /\ \A v \in Workers : Present(v)' <=> Present(v)
        /\ \A v \in Workers : table'[v].pid = table[v].pid
        /\ \A v \in Workers : HasInstance(v)' <=> HasInstance(v)
        /\ \A v : Freed(v)' <=> Freed(v)
    BY <1>a, <1>0, <2>2 DEF Present, HasInstance, Freed
  <2>4. LauncherInv'
    BY <1>0, <1>1 DEF LauncherInv, Starting, IInv, WholeInv
  <2>5. LoaderInv'
    BY <1>0, <1>1 DEF LoaderInv, LoaderInside
  <2>6. InstanceInv'
    <3>1. \A v \in Workers : HasInstance(v) => table[v].pid \in Pids
      BY TableTypes DEF IInv
    <3> QED
      BY <1>0, <2>3, <3>1 DEF InstanceInv, IInv, WholeInv
  <2>7. LiveProcessHasEntry'
    <3>1. \A q \in Pids : Alive(q) => pworker[q] \in Workers
      BY DEF Alive, Live, IInv, TypeOK
    <3> QED
      BY <1>0, <2>3, <3>1 DEF LiveProcessHasEntry, IInv, WholeInv
  <2>8. ErasureInv'
    BY <1>0, <1>1 DEF ErasureInv
  <2>9. OwnershipInv'
    <3>1. \A q : Holds(q)' <=> Holds(q)
      BY <1>0, <2>3 DEF Holds
    <3> QED
      BY <1>0, <3>1 DEF OwnershipInv, IInv, WholeInv
  <2>10. PortsNotLeaked'
    BY <1>0, <2>3 DEF PortsNotLeaked, IInv, WholeInv
  <2>11. PendingInv'
    <3>1. \A v : Announced(v) => Announced(v)'
      BY <1>0 DEF Announced
    <3>2. Announced(w)'
      BY <1>a, <1>0, <2>1 DEF Announced, IInv, TypeOK
    <3>3. \A v \in Workers : v # w => (Pending(v)' <=> Pending(v))
      BY <2>2, <2>3 DEF Pending
    <3> QED
      BY <1>0, <3>1, <3>2, <3>3 DEF PendingInv, IInv, WholeInv
  <2> QED
    BY <2>4, <2>5, <2>6, <2>7, <2>8, <2>9, <2>10, <2>11 DEF WholeInv
<1> QED
  BY <1>2, <1>3

-----------------------------------------------------------------------------
LEMMA InitIInv == Init => IInv
<1> SUFFICES ASSUME Init PROVE IInv
  OBVIOUS
<1> USE DEF Init
<1>1. TypeOK /\ CursorInv
  BY InitTypeOK
<1>2. \A w \in Workers : ~Present(w) /\ ~HasInstance(w)
  BY DEF Present, HasInstance
<1>3. \A p \in Pids : ~Alive(p) /\ ~ProcessInside(p)
  BY DEF Alive, Live, ProcessInside
<1>4. MutexInv
  BY <1>3 DEF MutexInv, LauncherInside, LoaderInside
<1>5. LauncherInv /\ LoaderInv
  BY DEF LauncherInv, LoaderInv, Starting
<1>6. InstanceInv /\ LiveProcessHasEntry /\ ErasureInv
  BY <1>2, <1>3 DEF InstanceInv, LiveProcessHasEntry, ErasureInv
<1>7. OwnershipInv /\ PortsNotLeaked
  BY <1>2, PidsAssumption DEF OwnershipInv, Holds, PortsNotLeaked
<1>8. PendingInv
  BY <1>2 DEF PendingInv, Pending
<1> QED
  BY <1>1, <1>4, <1>5, <1>6, <1>7, <1>8 DEF IInv, WholeInv

LEMMA NextIInv == IInv /\ [Next]_vars => IInv'
<1> SUFFICES ASSUME IInv, [Next]_vars PROVE IInv'
  OBVIOUS
<1>1. TypeOK' /\ CursorInv'
  BY NextTypes DEF IInv
<1>2. SUFFICES ASSUME ~torn' PROVE WholeInv'
  BY <1>1 DEF IInv
<1>3. ~torn /\ MutexInv'
  BY <1>2, TornForEver, MutexStep DEF IInv
<1> USE <1>1, <1>2, <1>3
<1>4. ASSUME NEW t \in Threads, NEW w \in Workers, Request(t, w) PROVE WholeInv'
  <2>1. \A u \in Threads :
          \/ tpc'[u] = tpc[u] /\ request'[u] = request[u]
          \/ tpc[u] \notin {"reset", "announce"} /\ tpc'[u] \notin {"reclaim", "reset"}
    BY <1>4 DEF Request, IInv, TypeOK
  <2> QED
    BY <1>4, <2>1, LoaderLocalStep DEF Request
<1>5. ASSUME NEW t \in Threads,
             LockToCheck(t) \/ StartWait(t) \/ TimeOut(t) \/ LockToCollect(t) \/ CollectEndpoint(t)
      PROVE  WholeInv'
  <2>1. \A u \in Threads :
          \/ tpc'[u] = tpc[u] /\ request'[u] = request[u]
          \/ tpc[u] \notin {"reset", "announce"} /\ tpc'[u] \notin {"reclaim", "reset"}
    BY <1>5 DEF LockToCheck, StartWait, TimeOut, LockToCollect, CollectEndpoint, Continue,
       Respond, IInv, TypeOK
  <2> QED
    BY <1>5, <2>1, LoaderLocalStep
    DEF LockToCheck, StartWait, TimeOut, LockToCollect, CollectEndpoint
<1>6. ASSUME NEW t \in Threads, Loader(t) PROVE WholeInv'
  BY <1>5, <1>6, InsertStep, CheckStep, ReclaimPortsStep, ResetEntryStep, AnnounceStep DEF Loader
<1>7. CASE Launcher
  BY <1>7, LockToUpdateStep, FindNoChangesStep, BeginPassStep, VisitRunningStep,
     VisitStoppedStep, RemoveStoppedStep, ReclaimInstanceStep, FailStep, TakePortsStep,
     ForkStep, RecordInstanceStep, ScanAgainStep, EndPassStep, NotifyStep
  DEF Launcher, Visit
<1>8. ASSUME NEW p \in Pids, Process(p) PROVE WholeInv'
  BY <1>8, MarkDeletedStep, ProcessStep
<1>9. CASE UNCHANGED vars
  BY <1>9, LoaderLocalStep DEF vars, loaderVars
<1> QED
  BY <1>4, <1>6, <1>7, <1>8, <1>9 DEF Next

-----------------------------------------------------------------------------
(* The theorems.                                                           *)

\* IInv holds in every reachable state.
THEOREM Invariance == Spec => []IInv
  BY InitIInv, NextIInv, PTL DEF Spec

\* Every variable always has a value of its kind, whether or not a critical
\* section was torn; in particular the instance of an entry is a process, and
\* the Launcher fills in an entry that is there.
THEOREM TypeCorrect == Spec => []TypeOK
<1>1. IInv => TypeOK
  BY DEF IInv
<1> QED
  BY <1>1, Invariance, PTL

\* However the loader threads, the Launcher and the worker processes interleave
\* between the critical sections, and while none is torn, a worker never has two
\* live processes: a live process is the instance of its worker's entry or the
\* one the Launcher is forking.
THEOREM OneProcess == Spec => []OneProcessPerWorker
<1>1. IInv => OneProcessPerWorker
  <2> SUFFICES ASSUME IInv, ~torn, NEW p \in Pids, NEW q \in Pids,
                      p # q, Alive(p), Alive(q), pworker[p] = pworker[q]
               PROVE  FALSE
    BY DEF OneProcessPerWorker
  <2>1. /\ table[pworker[p]].pid = p \/ spawned = p
        /\ table[pworker[p]].pid = q \/ spawned = q
        /\ Present(pworker[p])
    BY DEF IInv, WholeInv, LiveProcessHasEntry
  <2>2. spawned \in {p, q} => table[pworker[spawned]].pid = NoPid
    BY PidsAssumption DEF IInv, WholeInv, LauncherInv, CursorInv, HasInstance, Starting
  <2> QED
    BY <2>1, <2>2, PidsAssumption
<1> QED
  BY <1>1, Invariance, PTL

\* A live process holds its ports: its entry is not one whose ports were
\* reclaimed already.
LEMMA LiveHolds == IInv /\ ~torn => \A p \in Pids : Alive(p) => Holds(p)
<1> SUFFICES ASSUME IInv, ~torn, NEW p \in Pids, Alive(p) PROVE Holds(p)
  OBVIOUS
<1>1. pworker[p] \in Workers
  BY DEF IInv, TypeOK, Alive, Live
<1>2. /\ Present(pworker[p])
      /\ table[pworker[p]].pid = p \/ spawned = p
  BY DEF IInv, WholeInv, LiveProcessHasEntry
<1>3. CASE spawned = p
  BY <1>3 DEF Holds
<1>4. CASE table[pworker[p]].pid = p
  <2>1. HasInstance(pworker[p])
    BY <1>2, <1>4, PidsAssumption DEF HasInstance
  <2>2. pworker[p] \notin to_be_removed
    BY <1>1, <1>4, <2>1 DEF IInv, WholeInv, ErasureInv, RunsForLauncher
  <2>3. \A t \in Threads : tpc[t] = "reset" => request[t] # pworker[p]
    BY <1>4 DEF IInv, WholeInv, LoaderInv
  <2> QED
    BY <1>1, <1>4, <2>1, <2>2, <2>3 DEF Holds, Freed
<1> QED
  BY <1>2, <1>3, <1>4

\* While no critical section is torn, the ports of a live process are its own,
\* for any number of ports: neither the Launcher nor a loader reclaims them while
\* it runs, and none is given to two.
THEOREM PortsOwned == Spec => []PortsExclusive
<1>1. IInv => PortsExclusive
  BY LiveHolds DEF PortsExclusive, IInv, WholeInv, OwnershipInv
<1> QED
  BY <1>1, Invariance, PTL

\* While no critical section is torn, reclaiming in two programs loses no port:
\* unless the Launcher failed, each is free, in the Launcher's hands, or of an
\* instance of the table or the forked process.
THEOREM NoPortLost == Spec => []PortsNotLeaked
<1>1. IInv => PortsNotLeaked
  BY DEF IInv, WholeInv, PortsNotLeaked
<1> QED
  BY <1>1, Invariance, PTL

\* While no critical section is torn, the branch of mark_worker_process_deleted
\* that "shouldn't ever happen" never does: a live process is found in the table.
THEOREM EntryOfLiveProcess == Spec => []LiveProcessHasEntry
<1>1. IInv => LiveProcessHasEntry
  BY DEF IInv, WholeInv, LiveProcessHasEntry
<1> QED
  BY <1>1, Invariance, PTL

\* While no critical section is torn, the Launcher never goes idle with work that
\* nobody announces, so that a loader may wait for an entry it has not announced.
THEOREM WorkAnnounced == Spec => []NoLostWork
<1>1. IInv => NoLostWork
  BY DEF IInv, WholeInv, NoLostWork, PendingInv, Announced, Starting
<1> QED
  BY <1>1, Invariance, PTL

\* While no critical section is torn, no step forgets a deleted worker that has a
\* live process: only the Launcher erases entries, and only those whose process
\* it found stopped; a loader resets none that is deleted.
THEOREM DeletionOutlastsProcess == Spec => DeletedUntilStopped
<1> DEFINE Kept(w) == Present(w)' /\ table'[w].deleted
           Stopped(w) == \A p \in Pids : pworker[p] = w => ~Alive(p)
<1>1. IInv /\ [Next]_vars =>
        (~torn =>
           \A w \in Workers :
             Present(w) /\ table[w].deleted
               => \/ Present(w)' /\ table'[w].deleted
                  \/ \A p \in Pids : pworker[p] = w => ~Alive(p))
  <2> SUFFICES ASSUME IInv, [Next]_vars, ~torn, NEW w \in Workers,
                      Present(w), table[w].deleted
               PROVE  Kept(w) \/ Stopped(w)
    OBVIOUS
  <2>0. table[w] \in Entry
    BY DEF IInv, TypeOK, Present
  <2> USE DEF Present
  <2>1. ASSUME table'[w] = table[w] PROVE Kept(w)
    BY <2>1
  <2>2. ASSUME NEW t \in Threads, CheckTable(t) PROVE Kept(w)
    BY <2>1, <2>2 DEF CheckTable, IInv, TypeOK
  <2>3. ASSUME NEW t \in Threads, ResetEntry(t) PROVE Kept(w)
    <3>1. request[t] # w
      BY <2>3 DEF ResetEntry, IInv, WholeInv, LoaderInv
    <3> QED
      BY <2>1, <2>3, <3>1 DEF ResetEntry, Reset, IInv, TypeOK
  <2>4. CASE ReclaimInstance \/ RecordInstance
    <3>1. cursor # w
      BY <2>4 DEF ReclaimInstance, RecordInstance, IInv, WholeInv, LauncherInv, Starting
    <3> QED
      BY <2>1, <2>4, <3>1 DEF ReclaimInstance, RecordInstance, IInv, TypeOK
  <2>5. CASE ScanAgain
    <3>1. CASE w \in to_be_removed
      <4>1. spawned = NoPid /\ ~RunsForLauncher(w)
        BY <2>5, <3>1 DEF ScanAgain, ScanOver, IInv, WholeInv, LauncherInv, ErasureInv
      <4> QED
        BY <4>1, PidsAssumption DEF IInv, WholeInv, LiveProcessHasEntry, RunsForLauncher, HasInstance
    <3>2. CASE w \notin to_be_removed
      BY <2>1, <2>5, <3>2 DEF ScanAgain, Erased
    <3> QED
      BY <3>1, <3>2
  <2>6. ASSUME NEW p \in Pids, MarkDeleted(p) PROVE Kept(w)
    BY <2>1, <2>6 DEF MarkDeleted, IInv, TypeOK
  <2>7. CASE UNCHANGED table
    BY <2>1, <2>7
  <2> QED
    BY <2>2, <2>3, <2>4, <2>5, <2>6, <2>7
    DEF Next, Loader, Launcher, Visit, Process, Mark, Request, LockToCheck, ReclaimPorts,
        Announce, StartWait, TimeOut, LockToCollect, CollectEndpoint, LockToUpdate,
        FindNoChanges, BeginPass, VisitDeletedRunning, VisitRunning, VisitStopped,
        RemoveStopped, NotEnoughPorts, TakePorts, Fork, ForkFails, EndPass, Notify,
        DeleteWorker, LockToMark, AnnounceDeleted, Exit, Crash, InitReaps, vars, tableVars
<1> QED
  BY <1>1, Invariance, PTL DEF Spec, DeletedUntilStopped

\* While no critical section is torn, whoever asks for the endpoint of a worker is
\* given one whose ports no live process of another worker has: the loader is
\* alone with an entry that is not deleted, and whose ports nobody reclaimed.
THEOREM EndpointIsTheWorkers == Spec => EndpointOfRequestedWorker
<1> DEFINE Own(t, p) == /\ pworker[p] = request[t]
                        /\ \A q \in Pids \ {p} : Alive(q) => pports[p] \cap pports[q] = {}
           FromTable(t, p) == /\ HasInstance(request[t]) /\ request[t] \in Workers
                              /\ table[request[t]].pid = p
                              /\ tpc[t] \in {"look", "collect"}
<1>1. IInv /\ [Next]_vars =>
        (~torn =>
           \A t \in Threads, p \in Pids :
             answer'[t] = Ok(p) /\ answer[t] # Ok(p) => Own(t, p))
  <2> SUFFICES ASSUME IInv, [Next]_vars, ~torn, NEW t \in Threads, NEW p \in Pids,
                      answer'[t] = Ok(p), answer[t] # Ok(p)
               PROVE  Own(t, p)
    OBVIOUS
  <2> USE DEF Ok, Error
  <2>0. /\ answer \in [Threads -> Pids \cup {NoPid}]
        /\ \A u \in Threads : tpc[u] # "idle" => request[u] \in Workers
        /\ p # NoPid
    BY PidsAssumption DEF IInv, TypeOK
  <2>1. answer' # answer
    OBVIOUS
  <2>2. ASSUME NEW u \in Threads, NEW w \in Workers, Request(u, w) PROVE FALSE
    BY <2>0, <2>2 DEF Request
  <2>3. ASSUME NEW u \in Threads, CheckTable(u) PROVE FromTable(t, p)
    <3>1. u = t
      BY <2>0, <2>3 DEF CheckTable, Respond, Continue
    <3>2. tpc[t] = "look"
      BY <2>3, <3>1 DEF CheckTable
    <3> QED
      BY <2>0, <2>3, <3>1, <3>2 DEF CheckTable, Respond, Continue, RunsForLoader
  <2>4. ASSUME NEW u \in Threads, TimeOut(u) PROVE FALSE
    BY <2>0, <2>4 DEF TimeOut, Respond
  <2>5. ASSUME NEW u \in Threads, CollectEndpoint(u) PROVE FromTable(t, p)
    <3>1. u = t
      BY <2>0, <2>5 DEF CollectEndpoint, Respond
    <3>2. tpc[t] = "collect"
      BY <2>5, <3>1 DEF CollectEndpoint
    <3> QED
      BY <2>0, <2>5, <3>1, <3>2 DEF CollectEndpoint, Respond
  <2>6. FromTable(t, p)
    BY <2>1, <2>2, <2>3, <2>4, <2>5
    DEF Next, Loader, Launcher, Visit, Process, Mark, LockToCheck, ReclaimPorts, ResetEntry,
        Announce, StartWait, LockToCollect, Continue, LockToUpdate, FindNoChanges, BeginPass,
        VisitDeletedRunning, VisitRunning, VisitStopped, RemoveStopped, ReclaimInstance,
        NotEnoughPorts, TakePorts, Fork, ForkFails, RecordInstance, ScanAgain, EndPass,
        Notify, DeleteWorker, LockToMark, MarkDeleted, AnnounceDeleted, Exit, Crash,
        InitReaps, vars, loaderVars
  <2>7. pworker[p] = request[t]
    BY <2>6 DEF IInv, WholeInv, InstanceInv
  <2>8. Holds(p)
    <3>1. LoaderInside(t)
      BY <2>6 DEF LoaderInside
    <3>2. ~Freed(request[t])
      BY <2>6, <3>1, LoaderAlone DEF Freed, LoaderInside
    <3> QED
      BY <2>6, <3>2 DEF Holds
  <2> QED
    BY <2>7, <2>8, LiveHolds DEF IInv, WholeInv, OwnershipInv
<1> QED
  BY <1>1, Invariance, PTL DEF Spec, EndpointOfRequestedWorker
=============================================================================
