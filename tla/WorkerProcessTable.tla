-------------------------- MODULE WorkerProcessTable --------------------------
(***************************************************************************)
(* Serenity's worker process table (worker-process-table.cpp): a map from  *)
(* worker ids to worker processes, the pool of free TCP ports and one      *)
(* mutex, all in memory shared by                                          *)
(*                                                                         *)
(*   - the Launcher, which scans the table, forks worker processes and     *)
(*     reclaims the ports of the stopped ones (launcher_update);           *)
(*   - the WorkerLoader, whose threads ask for the endpoint of a worker    *)
(*     (loader_get_endpoint) and wait for the Launcher to start it;        *)
(*   - the worker processes, each of which marks its own entry deleted     *)
(*     once its worker is (mark_worker_process_deleted).                   *)
(*                                                                         *)
(* The mutex does not keep them apart: a worker process that ends unlocks  *)
(* it, whoever is in the critical section (see Exit). So a section is not  *)
(* one step but one step per access to the shared state, and between two   *)
(* of them anybody who has got the mutex meanwhile may do anything.        *)
(***************************************************************************)
EXTENDS Integers, FiniteSets

CONSTANTS
  Workers,   \* WorkerId: the table is ordered by it, and 0 is not an id
  Ports,     \* port_start..port_end of the configuration
  Pids,      \* the processes that may be forked, in this order: bounds the model
  Threads,   \* the WorkerLoader's request handler threads
  NoPid,     \* the entry's instance is std::nullopt
  Absent     \* the table has no entry for the worker

ASSUME WorkersAssumption == Workers \subseteq Nat \ {0}
ASSUME PortsAssumption == Ports \subseteq Nat
ASSUME PidsAssumption == Pids \subseteq Nat /\ NoPid \notin Pids
ASSUME AbsentAssumption == Absent \notin [deleted : BOOLEAN, pid : Pids \cup {NoPid}]

VARIABLES
  table,          \* Workers -> entry [deleted, pid], or Absent
  ports,          \* the free ports
  has_changes,    \* the loader's or a worker process's signal to the Launcher
  changes_lock,   \* the shared mutex: see Lock, Unlock and Exit
  torn,           \* history: a critical section has not run alone to its end
  lpc,            \* where the Launcher is
  cursor,         \* the worker id its scan of the table has reached
  waiting_to_be_deleted, to_be_removed, changes_made,  \* its locals
  endpoint,       \* the ports it has taken for the process it is to fork
  spawned,        \* the process it has forked and not recorded yet
  tpc,            \* where each loader thread is
  request,        \* the worker each loader thread asks for
  instance,       \* the instance whose ports each loader thread reclaims
  answer,         \* what each loader thread answered last
  pstate,         \* the life of each process
  pworker,        \* the worker it was forked for
  pports          \* the three ports of the endpoint it was given

tableVars    == <<table, ports, has_changes>>
mutexVars    == <<changes_lock, torn>>
launcherVars == <<lpc, cursor, waiting_to_be_deleted, to_be_removed,
                  changes_made, endpoint, spawned>>
loaderVars   == <<tpc, request, instance, answer>>
processVars  == <<pstate, pworker, pports>>
vars == <<tableVars, mutexVars, launcherVars, loaderVars, processVars>>

(* Definitions named Mutant... are plausible bugs, one small change each to *)
(* the definition that follows them. The specification uses none of them:   *)
(* each shows that a property tells the code from the bug.                  *)

\* WorkerProcessTableEntry; the endpoint of its instance is pports[pid].
Entry == [deleted : BOOLEAN, pid : Pids \cup {NoPid}]

\* WorkerProcessTableEntry{}: what a loader leaves for the Launcher to fill in.
EmptyEntry == [deleted |-> FALSE, pid |-> NoPid]

NoWorker == 0

Present(w) == table[w] # Absent

HasInstance(w) == Present(w) /\ table[w].pid # NoPid

\* An entry on which the Launcher has work to do.
Pending(w) == Present(w) /\ (table[w].deleted \/ ~HasInstance(w))

\* What loader_get_endpoint returns: the process of the endpoint, or an error
\* code (WorkerProcess_WorkerDeleted, Launcher_TimedOutWhileGettingWorkerProcess
\* or Launcher_FailedToSpawnWorkerProcess), which no property tells apart.
Ok(p) == p
Error == NoPid

-----------------------------------------------------------------------------
(* A process is serving, then marks its entry and stops if its worker is   *)
(* deleted, then a zombie, and gone once it is reaped.                     *)

Live == {"serving", "deleting", "marking", "announcing", "stopping"}

Alive(p) == pstate[p] \in Live

\* Mutant: a worker that is deleted counts as stopped.
MutantRunsForLauncher(w) ==
  HasInstance(w) /\ Alive(table[w].pid) /\ ~table[w].deleted

\* is_running in the Launcher, the parent: waitpid reaps a zombie first.
RunsForLauncher(w) == HasInstance(w) /\ Alive(table[w].pid)

\* Mutant: a process that is about to stop is taken for stopped.
MutantRunsForLoader(w) == HasInstance(w) /\ pstate[table[w].pid] = "serving"

\* is_running in the loader, a sibling: waitpid fails, kill finds the zombie.
RunsForLoader(w) ==
  HasInstance(w) /\ (Alive(table[w].pid) \/ pstate[table[w].pid] = "zombie")

\* What the Launcher's is_running(w) does to the processes.
ReapInstance(w) ==
  IF HasInstance(w) /\ pstate[table[w].pid] = "zombie"
  THEN [pstate EXCEPT ![table[w].pid] = "gone"]
  ELSE pstate

\* waitpid(0, nullptr, WNOHANG): reaps one zombie if there is any.
ReapAny ==
  \/ /\ \A p \in Pids : pstate[p] # "zombie"
     /\ UNCHANGED pstate
  \/ \E p \in Pids :
       /\ pstate[p] = "zombie"
       /\ pstate' = [pstate EXCEPT ![p] = "gone"]

-----------------------------------------------------------------------------
(* The critical sections.                                                  *)

LoaderInside(t) == tpc[t] \in {"look", "reclaim", "reset", "announce", "collect"}

LauncherInside ==
  lpc \in {"begin", "scan", "remove", "reclaim", "take", "fork", "forking", "break"}

ProcessInside(p) == pstate[p] \in {"marking", "announcing"}

\* Mutant: the Launcher is not told.
MutantSignal == UNCHANGED has_changes

\* The Launcher is told that there is something to do.
Signal == has_changes' = TRUE

\* Mutant: nobody waits for the mutex.
MutantLock == changes_lock' = "locked" /\ UNCHANGED torn

\* scoped_lock on changes_lock. The mutex is broken, not free, if an ending
\* process has unlocked it while somebody was in the critical section: to enter
\* tears that section.
Lock ==
  /\ changes_lock # "locked"
  /\ changes_lock' = "locked"
  /\ torn' = (torn \/ changes_lock = "broken")

\* The end of the scope of that scoped_lock.
Unlock == changes_lock' = "free" /\ UNCHANGED torn

-----------------------------------------------------------------------------
Init ==
  /\ table = [w \in Workers |-> Absent]
  /\ ports = Ports
  /\ has_changes = FALSE
  /\ changes_lock = "free"
  /\ torn = FALSE
  /\ lpc = "idle"
  /\ cursor = 0
  /\ waiting_to_be_deleted = {}
  /\ to_be_removed = {}
  /\ changes_made = FALSE
  /\ endpoint = {}
  /\ spawned = NoPid
  /\ tpc = [t \in Threads |-> "idle"]
  /\ request = [t \in Threads |-> NoWorker]
  /\ instance = [t \in Threads |-> NoPid]
  /\ answer = [t \in Threads |-> Error]
  /\ pstate = [p \in Pids |-> "unborn"]
  /\ pworker = [p \in Pids |-> NoWorker]
  /\ pports = [p \in Pids |-> {}]

-----------------------------------------------------------------------------
(* The WorkerLoader: loader_get_endpoint.                                  *)

\* A GetWorkerProcessEndpoint request for worker w is dispatched to thread t.
Request(t, w) ==
  /\ tpc[t] = "idle"
  /\ tpc' = [tpc EXCEPT ![t] = "check"]
  /\ request' = [request EXCEPT ![t] = w]
  /\ answer' = [answer EXCEPT ![t] = Error]
  /\ UNCHANGED <<tableVars, mutexVars, launcherVars, instance, processVars>>

Respond(t, result) ==
  /\ tpc' = [tpc EXCEPT ![t] = "idle"]
  /\ request' = [request EXCEPT ![t] = NoWorker]
  /\ answer' = [answer EXCEPT ![t] = result]
  /\ UNCHANGED instance

\* Thread t goes on to pc without an answer.
Continue(t, pc) ==
  /\ tpc' = [tpc EXCEPT ![t] = pc]
  /\ UNCHANGED <<request, answer>>

LockToCheck(t) ==
  /\ tpc[t] = "check"
  /\ Lock
  /\ Continue(t, "look")
  /\ UNCHANGED <<tableVars, launcherVars, instance, processVars>>

\* The table is looked at. An entry that is already empty is left as it is,
\* without another signal to the Launcher.
CheckTable(t) ==
  LET w == request[t] IN
  /\ tpc[t] = "look"
  /\ \/ /\ ~Present(w)
        /\ table' = [table EXCEPT ![w] = EmptyEntry]
        /\ Continue(t, "announce")
        /\ UNCHANGED <<mutexVars, instance>>
     \/ /\ Present(w) /\ table[w].deleted
        /\ Respond(t, Error)
        /\ Unlock
        /\ UNCHANGED table
     \/ /\ Present(w) /\ ~table[w].deleted /\ RunsForLoader(w)
        /\ Respond(t, Ok(table[w].pid))
        /\ Unlock
        /\ UNCHANGED table
     \/ /\ HasInstance(w) /\ ~table[w].deleted /\ ~RunsForLoader(w)
        /\ instance' = [instance EXCEPT ![t] = table[w].pid]
        /\ Continue(t, "reclaim")
        /\ UNCHANGED <<table, mutexVars>>
     \/ /\ Present(w) /\ ~table[w].deleted /\ ~HasInstance(w)
        /\ Continue(t, "unlocked")
        /\ Unlock
        /\ UNCHANGED <<table, instance>>
  /\ UNCHANGED <<ports, has_changes, launcherVars, processVars>>

\* The process of w has stopped: its ports are reclaimed. The code reads them
\* through a reference into the entry, so that they are those of the process
\* the entry has now, if another than the one that has stopped.
ReclaimPorts(t) ==
  LET w == request[t]
      p == IF HasInstance(w) THEN table[w].pid ELSE instance[t]
  IN
  /\ tpc[t] = "reclaim"
  /\ ports' = ports \cup pports[p]
  /\ instance' = [instance EXCEPT ![t] = NoPid]
  /\ Continue(t, "reset")
  /\ UNCHANGED <<table, has_changes, mutexVars, launcherVars, processVars>>

Reset(w) == [table EXCEPT ![w] = EmptyEntry]

ResetEntry(t) ==
  /\ tpc[t] = "reset"
  /\ table' = Reset(request[t])
  /\ Continue(t, "announce")
  /\ UNCHANGED <<ports, has_changes, mutexVars, launcherVars, instance, processVars>>

\* The end of the first critical section, unless it ended in CheckTable.
Announce(t) ==
  /\ tpc[t] = "announce"
  /\ Signal
  /\ Unlock
  /\ Continue(t, "unlocked")
  /\ UNCHANGED <<table, ports, launcherVars, instance, processVars>>

\* wake_has_updated.timed_wait: it tests no predicate before it waits.
StartWait(t) ==
  /\ tpc[t] = "unlocked"
  /\ Continue(t, "waiting")
  /\ UNCHANGED <<tableVars, mutexVars, launcherVars, instance, processVars>>

\* Mutant: a wait without a time limit.
MutantTimeOut(t) == FALSE /\ tpc[t] = "waiting" /\ UNCHANGED vars

\* launcher_wait_secs have passed.
TimeOut(t) ==
  /\ tpc[t] = "waiting"
  /\ Respond(t, Error)
  /\ UNCHANGED <<tableVars, mutexVars, launcherVars, processVars>>

\* The last critical section, after the Launcher's notification.
LockToCollect(t) ==
  /\ tpc[t] = "woken"
  /\ Lock
  /\ Continue(t, "collect")
  /\ UNCHANGED <<tableVars, launcherVars, instance, processVars>>

CollectEndpoint(t) ==
  LET w == request[t]
      Filled == HasInstance(w) /\ ~table[w].deleted
  IN
  /\ tpc[t] = "collect"
  /\ Unlock
  /\ \/ Filled /\ Respond(t, Ok(table[w].pid))
     \/ ~Filled /\ Respond(t, Error)
  /\ UNCHANGED <<tableVars, launcherVars, processVars>>

Loader(t) ==
  \/ LockToCheck(t)
  \/ CheckTable(t)
  \/ ReclaimPorts(t)
  \/ ResetEntry(t)
  \/ Announce(t)
  \/ StartWait(t)
  \/ TimeOut(t)
  \/ LockToCollect(t)
  \/ CollectEndpoint(t)

-----------------------------------------------------------------------------
(* The Launcher: launcher_update, called in a loop by Launcher::run.       *)

LockToUpdate ==
  /\ lpc = "idle"
  /\ Lock
  /\ lpc' = "begin"
  /\ UNCHANGED <<tableVars, cursor, waiting_to_be_deleted, to_be_removed,
                 changes_made, endpoint, spawned, loaderVars, processVars>>

\* Nothing to do: IDLE, and the Launcher sleeps for a second.
FindNoChanges ==
  /\ lpc = "begin"
  /\ ~has_changes
  /\ ReapAny
  /\ Unlock
  /\ lpc' = "idle"
  /\ UNCHANGED <<tableVars, cursor, waiting_to_be_deleted, to_be_removed,
                 changes_made, endpoint, spawned, loaderVars, pworker, pports>>

BeginPass ==
  /\ lpc = "begin"
  /\ has_changes
  /\ ReapAny
  /\ has_changes' = FALSE
  /\ lpc' = "scan"
  /\ cursor' = 0
  /\ waiting_to_be_deleted' = {}
  /\ to_be_removed' = {}
  /\ changes_made' = FALSE
  /\ UNCHANGED <<table, ports, mutexVars, endpoint, spawned, loaderVars, pworker, pports>>

\* The scan is by increasing worker id.
Reaches(w) ==
  /\ lpc = "scan"
  /\ Present(w) /\ w > cursor
  /\ \A v \in Workers : Present(v) /\ v > cursor => w <= v

VisitDeletedRunning(w) ==
  /\ Reaches(w)
  /\ table[w].deleted /\ RunsForLauncher(w)
  /\ waiting_to_be_deleted' = waiting_to_be_deleted \cup {w}
  /\ cursor' = w
  /\ UNCHANGED <<tableVars, mutexVars, lpc, to_be_removed, changes_made,
                 endpoint, spawned, loaderVars, processVars>>

VisitRunning(w) ==
  /\ Reaches(w)
  /\ ~table[w].deleted /\ RunsForLauncher(w)
  /\ cursor' = w
  /\ UNCHANGED <<tableVars, mutexVars, lpc, waiting_to_be_deleted, to_be_removed,
                 changes_made, endpoint, spawned, loaderVars, processVars>>

\* w has no process or its process has stopped.
VisitStopped(w) ==
  /\ Reaches(w)
  /\ ~RunsForLauncher(w)
  /\ pstate' = ReapInstance(w)
  /\ cursor' = w
  /\ lpc' = IF table[w].deleted THEN "remove" ELSE "reclaim"
  /\ UNCHANGED <<tableVars, mutexVars, waiting_to_be_deleted, to_be_removed,
                 changes_made, endpoint, spawned, loaderVars, pworker, pports>>

\* Mutant: the ports of a stopped process are forgotten.
MutantPortsReclaimed(w) == ports

\* The free ports once those of the stopped process of w are reclaimed.
PortsReclaimed(w) ==
  IF HasInstance(w) THEN ports \cup pports[table[w].pid] ELSE ports

\* w is deleted. Its entry is erased at the next turn of the loop, not here:
\* the scan breaks.
RemoveStopped ==
  /\ lpc = "remove"
  /\ waiting_to_be_deleted' = waiting_to_be_deleted \ {cursor}
  /\ to_be_removed' = to_be_removed \cup {cursor}
  /\ ports' = PortsReclaimed(cursor)
  /\ changes_made' = (changes_made \/ HasInstance(cursor))
  /\ lpc' = "break"
  /\ UNCHANGED <<table, has_changes, mutexVars, cursor, endpoint, spawned,
                 loaderVars, processVars>>

\* w is to be started anew.
ReclaimInstance ==
  /\ lpc = "reclaim"
  /\ ports' = PortsReclaimed(cursor)
  /\ table' = [table EXCEPT ![cursor].pid = NoPid]
  /\ changes_made' = (changes_made \/ HasInstance(cursor))
  /\ lpc' = "take"
  /\ UNCHANGED <<has_changes, mutexVars, cursor, waiting_to_be_deleted,
                 to_be_removed, endpoint, spawned, loaderVars, processVars>>

\* e is the three lowest of the free ports.
IsLowestThree(e) ==
  e \subseteq ports /\ Cardinality(e) = 3 /\ \A p \in e, q \in ports \ e : p < q

\* FAILURE: the Launcher ends, and loses what it had taken.
Fail ==
  /\ lpc' = "exited"
  /\ Unlock
  /\ endpoint' = {}

NotEnoughPorts ==
  /\ lpc = "take"
  /\ Cardinality(ports) < 3
  /\ Fail
  /\ UNCHANGED <<tableVars, cursor, waiting_to_be_deleted, to_be_removed,
                 changes_made, spawned, loaderVars, processVars>>

\* The ports of the new process, and the endpoint made of them.
TakePorts ==
  /\ lpc = "take"
  /\ \E e \in SUBSET ports :
       /\ IsLowestThree(e)
       /\ ports' = ports \ e
       /\ endpoint' = e
  /\ lpc' = "fork"
  /\ UNCHANGED <<table, has_changes, mutexVars, cursor, waiting_to_be_deleted,
                 to_be_removed, changes_made, spawned, loaderVars, processVars>>

Fork ==
  /\ lpc = "fork"
  /\ \E p \in Pids :
       /\ pstate[p] = "unborn"
       /\ \A q \in Pids : q < p => pstate[q] # "unborn"
       /\ pstate' = [pstate EXCEPT ![p] = "serving"]
       /\ pworker' = [pworker EXCEPT ![p] = cursor]
       /\ pports' = [pports EXCEPT ![p] = endpoint]
       /\ spawned' = p
  /\ endpoint' = {}
  /\ lpc' = "forking"
  /\ UNCHANGED <<tableVars, mutexVars, cursor, waiting_to_be_deleted,
                 to_be_removed, changes_made, loaderVars>>

ForkFails ==
  /\ lpc = "fork"
  /\ Fail
  /\ UNCHANGED <<tableVars, cursor, waiting_to_be_deleted, to_be_removed,
                 changes_made, spawned, loaderVars, processVars>>

\* The child listens, or the wait for it, worker_process_wait_secs, is over.
RecordInstance ==
  /\ lpc = "forking"
  /\ table' = [table EXCEPT ![cursor].pid = spawned]
  /\ spawned' = NoPid
  /\ changes_made' = TRUE
  /\ lpc' = "scan"
  /\ UNCHANGED <<ports, has_changes, mutexVars, cursor, waiting_to_be_deleted,
                 to_be_removed, endpoint, loaderVars, processVars>>

ScanOver ==
  \/ lpc = "break"
  \/ lpc = "scan" /\ \A w \in Workers : Present(w) => w <= cursor

\* Mutant: the workers whose process still runs are erased too.
MutantErased == to_be_removed \cup waiting_to_be_deleted

\* The entries erased at the start of a turn of the loop.
Erased == to_be_removed

\* Another turn of the loop, which starts with the erasures.
ScanAgain ==
  /\ ScanOver
  /\ waiting_to_be_deleted \cup to_be_removed # {}
  /\ table' = [w \in Workers |-> IF w \in Erased THEN Absent ELSE table[w]]
  /\ changes_made' = (changes_made \/ to_be_removed # {})
  /\ to_be_removed' = {}
  /\ lpc' = "scan"
  /\ cursor' = 0
  /\ UNCHANGED <<ports, has_changes, mutexVars, waiting_to_be_deleted,
                 endpoint, spawned, loaderVars, processVars>>

\* The locals of the pass end with it.
EndPass ==
  /\ ScanOver
  /\ waiting_to_be_deleted \cup to_be_removed = {}
  /\ Unlock
  /\ lpc' = IF changes_made THEN "notify" ELSE "idle"
  /\ cursor' = 0
  /\ changes_made' = FALSE
  /\ UNCHANGED <<tableVars, waiting_to_be_deleted, to_be_removed, endpoint,
                 spawned, loaderVars, processVars>>

\* wake_has_updated.notify_one, without updated_lock: nobody may be waiting yet.
Notify ==
  /\ lpc = "notify"
  /\ lpc' = "idle"
  /\ \/ \E t \in Threads :
          /\ tpc[t] = "waiting"
          /\ tpc' = [tpc EXCEPT ![t] = "woken"]
     \/ /\ \A t \in Threads : tpc[t] # "waiting"
        /\ UNCHANGED tpc
  /\ UNCHANGED <<tableVars, mutexVars, cursor, waiting_to_be_deleted, to_be_removed,
                 changes_made, endpoint, spawned, request, instance, answer, processVars>>

Visit(w) ==
  \/ VisitDeletedRunning(w)
  \/ VisitRunning(w)
  \/ VisitStopped(w)

Launcher ==
  \/ LockToUpdate
  \/ FindNoChanges
  \/ BeginPass
  \/ \E w \in Workers : Visit(w)
  \/ RemoveStopped
  \/ ReclaimInstance
  \/ NotEnoughPorts
  \/ TakePorts
  \/ Fork
  \/ ForkFails
  \/ RecordInstance
  \/ ScanAgain
  \/ EndPass
  \/ Notify

-----------------------------------------------------------------------------
(* The worker processes.                                                   *)

\* A DeleteWorker request has deleted the database of the worker of p and has
\* been answered: what follows the response is mark_worker_process_deleted.
DeleteWorker(p) ==
  /\ pstate[p] = "serving"
  /\ pstate' = [pstate EXCEPT ![p] = "deleting"]
  /\ UNCHANGED <<tableVars, mutexVars, launcherVars, loaderVars, pworker, pports>>

LockToMark(p) ==
  /\ pstate[p] = "deleting"
  /\ Lock
  /\ pstate' = [pstate EXCEPT ![p] = "marking"]
  /\ UNCHANGED <<tableVars, launcherVars, loaderVars, pworker, pports>>

\* mark_worker_process_deleted. The process then shuts down.
MarkDeleted(p) ==
  LET w == pworker[p] IN
  /\ pstate[p] = "marking"
  /\ \/ /\ ~Present(w)
        /\ table' = [table EXCEPT ![w] = [deleted |-> TRUE, pid |-> NoPid]]
        /\ Unlock
        /\ pstate' = [pstate EXCEPT ![p] = "stopping"]
     \/ /\ Present(w) /\ ~table[w].deleted
        /\ table' = [table EXCEPT ![w].deleted = TRUE]
        /\ UNCHANGED mutexVars
        /\ pstate' = [pstate EXCEPT ![p] = "announcing"]
     \/ /\ Present(w) /\ table[w].deleted
        /\ Unlock
        /\ pstate' = [pstate EXCEPT ![p] = "stopping"]
        /\ UNCHANGED table
  /\ UNCHANGED <<ports, has_changes, launcherVars, loaderVars, pworker, pports>>

AnnounceDeleted(p) ==
  /\ pstate[p] = "announcing"
  /\ Signal
  /\ Unlock
  /\ pstate' = [pstate EXCEPT ![p] = "stopping"]
  /\ UNCHANGED <<table, ports, launcherVars, loaderVars, pworker, pports>>

\* run_daemon returns, after the shutdown or on a signal. The child returns
\* from the launcher_update it was forked in, whose scoped_lock unlocks the
\* shared mutex, whoever is in the critical section.
Exit(p) ==
  /\ Alive(p)
  /\ pstate' = [pstate EXCEPT ![p] = "zombie"]
  /\ changes_lock' = IF \/ LauncherInside
                        \/ \E t \in Threads : LoaderInside(t)
                        \/ \E q \in Pids \ {p} : ProcessInside(q)
                     THEN "broken" ELSE "free"
  /\ torn' = (torn \/ ProcessInside(p))
  /\ UNCHANGED <<tableVars, launcherVars, loaderVars, pworker, pports>>

\* The process is killed or aborts: it runs no destructor, and leaves the mutex
\* locked if it is in the critical section.
Crash(p) ==
  /\ Alive(p)
  /\ pstate' = [pstate EXCEPT ![p] = "zombie"]
  /\ torn' = (torn \/ ProcessInside(p))
  /\ UNCHANGED <<tableVars, changes_lock, launcherVars, loaderVars, pworker, pports>>

\* Without the Launcher the worker processes are children of init.
InitReaps(p) ==
  /\ lpc = "exited"
  /\ pstate[p] = "zombie"
  /\ pstate' = [pstate EXCEPT ![p] = "gone"]
  /\ UNCHANGED <<tableVars, mutexVars, launcherVars, loaderVars, pworker, pports>>

Mark(p) ==
  \/ LockToMark(p)
  \/ MarkDeleted(p)
  \/ AnnounceDeleted(p)

Process(p) ==
  \/ DeleteWorker(p)
  \/ Mark(p)
  \/ Exit(p)
  \/ Crash(p)
  \/ InitReaps(p)

-----------------------------------------------------------------------------
Next ==
  \/ \E t \in Threads, w \in Workers : Request(t, w)
  \/ \E t \in Threads : Loader(t)
  \/ Launcher
  \/ \E p \in Pids : Process(p)

Spec == Init /\ [][Next]_vars

\* Every process keeps running, one that finds the mutex free again and again
\* gets it in the end, and a process that shuts down ends. A worker process takes
\* only so many of these steps: what is fair to all of them is fair to each.
Fairness ==
  /\ SF_vars(Launcher)
  /\ \A t \in Threads : SF_vars(Loader(t))
  /\ SF_vars(\E p \in Pids : Mark(p) \/ (pstate[p] = "stopping" /\ Exit(p)))

FairSpec == Spec /\ Fairness

-----------------------------------------------------------------------------
(* Properties. Once a critical section is torn the code guarantees nothing  *)
(* (see ReclaimedAreOfTheDead): what follows holds while none has been.    *)

\* Every variable has a value of its kind.
TypeOK ==
  /\ table \in [Workers -> Entry \cup {Absent}]
  /\ ports \subseteq Ports
  /\ has_changes \in BOOLEAN
  /\ changes_lock \in {"free", "locked", "broken"}
  /\ torn \in BOOLEAN
  /\ lpc \in {"idle", "begin", "scan", "remove", "reclaim", "take", "fork",
              "forking", "break", "notify", "exited"}
  /\ cursor \in Workers \cup {0}
  /\ waiting_to_be_deleted \subseteq Workers
  /\ to_be_removed \subseteq Workers
  /\ changes_made \in BOOLEAN
  /\ endpoint \subseteq Ports
  /\ spawned \in Pids \cup {NoPid}
  /\ tpc \in [Threads -> {"idle", "check", "look", "reclaim", "reset", "announce",
                          "unlocked", "waiting", "woken", "collect"}]
  /\ request \in [Threads -> Workers \cup {NoWorker}]
  /\ \A t \in Threads : tpc[t] # "idle" => request[t] \in Workers
  /\ instance \in [Threads -> Pids \cup {NoPid}]
  /\ \A t \in Threads : tpc[t] = "reclaim" => instance[t] \in Pids
  /\ answer \in [Threads -> Pids \cup {NoPid}]
  /\ pstate \in [Pids -> Live \cup {"unborn", "zombie", "gone"}]
  /\ pworker \in [Pids -> Workers \cup {NoWorker}]
  /\ \A p \in Pids : pstate[p] # "unborn" => pworker[p] \in Workers
  /\ pports \in [Pids -> SUBSET Ports]

\* A worker never has two live processes, which would both open its database:
\* the Launcher forks one only when it finds the worker's entry not running.
OneProcessPerWorker ==
  ~torn =>
    \A p, q \in Pids :
      p # q /\ Alive(p) /\ Alive(q) => pworker[p] # pworker[q]

\* The ports of a live process are its own: no other live process was given
\* one of them, and none is free to be given again, although both the Launcher
\* and the loader reclaim ports.
PortsExclusive ==
  ~torn =>
    \A p \in Pids : Alive(p) =>
      /\ pports[p] \cap ports = {}
      /\ \A q \in Pids \ {p} : Alive(q) => pports[p] \cap pports[q] = {}

\* No port is lost, whoever reclaims the ports of a stopped process: unless the
\* Launcher failed, each is free or belongs to an instance of the table (or to
\* the process that is being forked).
PortsNotLeaked ==
  ~torn /\ lpc # "exited" =>
    \A q \in Ports :
      \/ q \in ports
      \/ q \in endpoint
      \/ \E w \in Workers : HasInstance(w) /\ q \in pports[table[w].pid]
      \/ spawned # NoPid /\ q \in pports[spawned]

\* A live process has an entry when it marks itself deleted: the branch of
\* mark_worker_process_deleted that finds none "shouldn't ever happen".
LiveProcessHasEntry ==
  ~torn =>
    \A p \in Pids : Alive(p) =>
      /\ Present(pworker[p])
      /\ table[pworker[p]].pid = p \/ spawned = p

\* The Launcher loses no work: when it is between passes, an entry that it
\* must start or delete is announced by has_changes, or is about to be. A
\* loader that finds such an entry relies on it, for it waits without
\* announcing anything.
NoLostWork ==
  ~torn /\ lpc \in {"idle", "begin", "notify"} /\ ~has_changes =>
    \A w \in Workers : Pending(w) =>
      \/ \E t \in Threads : tpc[t] = "announce" /\ request[t] = w
      \/ \E p \in Pids : pstate[p] = "announcing" /\ pworker[p] = w

\* A worker that was deleted is forgotten, which lets a new process be forked
\* for it, only once its process has stopped.
DeletedUntilStopped ==
  [][~torn =>
       \A w \in Workers :
         Present(w) /\ table[w].deleted
           => \/ Present(w)' /\ table'[w].deleted
              \/ \A p \in Pids : pworker[p] = w => ~Alive(p)]_vars

\* When an endpoint is returned, its ports are in use by no process but that of
\* the requested worker, even if that process has died since: a client of the
\* loader is never sent to another worker's process.
EndpointOfRequestedWorker ==
  [][~torn =>
       \A t \in Threads, p \in Pids :
         answer'[t] = Ok(p) /\ answer[t] # Ok(p)
           => /\ pworker[p] = request[t]
              /\ \A q \in Pids \ {p} : Alive(q) => pports[p] \cap pports[q] = {}]_vars

\* "reclaim the ports since the process is dead" (worker-process-table.cpp:200):
\* a port is never freed while a process lives that was given it. The code does
\* so after a critical section was torn.
ReclaimedAreOfTheDead ==
  [][\A q \in ports' \ ports, p \in Pids : Alive(p) => q \notin pports[p]]_vars

\* Every GetWorkerProcessEndpoint request is answered, although the Launcher
\* keeps the mutex for as long as a deleted worker's process takes to stop.
RequestsAnswered == \A t \in Threads : tpc[t] = "check" ~> tpc[t] = "idle" \/ torn

\* Unless the Launcher fails, an entry that was left empty is filled in and that
\* of a deleted worker is removed.
EntriesAttendedTo ==
  \A w \in Workers : Pending(w) ~> ~Pending(w) \/ lpc = "exited" \/ torn

=============================================================================
