----------------------------- MODULE ClientData -----------------------------
(***************************************************************************)
(* The Data of a worker in one browser client: the registry of instances   *)
(* (util/registry.ts), the deltas and the answers that change them         *)
(* (util/serde.ts), the Tracker that carries out what a message caused     *)
(* (util/tracker.ts) and the operations of the program that uses the       *)
(* client (public/worker.ts, client.ts).                                   *)
(*                                                                         *)
(* JavaScript has one thread.  A task (the handler of a message, or a call *)
(* of the program) keeps it until it waits for an answer of the worker or  *)
(* for the promise of a listener; `running' is the task that has it.       *)
(* Between two such points no other task takes a step, and the worker's     *)
(* steps, which commute with the thread's, are taken in between.           *)
(*                                                                         *)
(* Data are abstracted to one plain property, whose value is the version   *)
(* that wrote it, and one property that refers to another object.  Only    *)
(* keys outside Targets have a reference, to a key in Targets.  The worker *)
(* keeps every version it stored; what it sends to this client arrives in  *)
(* any order, because each of its threads sends for itself.  The client is *)
(* subscribed to the updates of all keys.                                  *)
(*                                                                         *)
(* What a service deletes it does not purge: this is assumed of the code   *)
(* of the worker.  A purge leaves no mark of the object, so that its key   *)
(* starts again at version 1 (server.cpp 794-796, 918-925), and a client   *)
(* that has not heard of it holds a version that means another object.     *)
(* Nothing here holds of such a key.                                       *)
(***************************************************************************)
EXTENDS Naturals, Sequences, FiniteSets

CONSTANTS Keys,        \* the keys of Data objects
          Targets,     \* those that other objects may refer to
          Objs,        \* identities of instances in the client's memory
          Handlers,    \* handlers of messages that may be under way at a time
          Callers,     \* calls of the program that may be under way at a time
          None,        \* no object, no key, no task
          Program,     \* a resolved object that is handed to the program
          Operations,  \* the operations the program uses; "event": it gets messages
          MaxVersion,  \* bound: versions of a key, and one more by a save
          MaxHeld      \* bound: objects the program holds

Tasks == Handlers \cup Callers

ASSUME ConstantsAssumption ==
    /\ Targets \subseteq Keys
    /\ None \notin Keys \cup Objs \cup Tasks
    /\ Program \notin Objs \cup {None}
    /\ Operations \subseteq 
         {"new", "edit", "link", "get", "save", "call", "listen", "event"}
    /\ MaxVersion \in Nat \ {0}
    /\ MaxHeld \in Nat

VARIABLES stored,     \* worker: the versions of a key, each [val, ref]
          deleted,    \* worker: the keys whose object was deleted
          inflight,   \* messages on their way to the client
          instance,   \* registry: the live instance of a key
          keyOf,      \* registry: the key of an instance
          version,    \* registry: the version of an instance, 0 when none
          listening,  \* registry: the instances with update listeners
          primaryKey, \* the key an object was made with, None: not in use
          content,    \* the properties of an object
          held,       \* the objects the program has references to
          task,       \* what is under way
          running     \* the task that has the thread

workerVars == <<stored, deleted>>
registryVars == <<instance, keyOf, version, listening, primaryKey, content>>
vars == <<stored, deleted, inflight, instance, keyOf, version, listening,
          primaryKey, content, held, task, running>>

-----------------------------------------------------------------------------
(* What the client and the worker exchange.                                *)

Refs == Targets \cup {None}
OptObjs == Objs \cup {None}

\* val = 0: the plain property did not change.
DataDelta == [key : Keys, ver : Nat, deleted : BOOLEAN, val : Nat,
              setsRef : BOOLEAN, ref : Refs]
DataProto == [key : Keys, ver : Nat, val : Nat, ref : Refs]
\* A message of the worker, or one part of the answer to a call: its deltas
\* share a tracker.  returns: the object a service method returns.
Batch == [event : BOOLEAN, deltas : SUBSET DataDelta, returns : Keys \cup {None}]
InboundDelta == [key : Keys, ver : Nat, val : Nat, edited : BOOLEAN, ref : Refs]

Item == [key : Keys, into : OptObjs \cup {Program}]
Fired == [object : Objs, deleted : BOOLEAN]

Waits == {"waiting", "saving", "calling", "listener"}
Steps == {"merge", "resolve", "replace", "message", "fire"}

IdleTask == [pc |-> "idle", batches |-> <<>>, resolve |-> <<>>, firing |-> <<>>,
             deletes |-> {}, into |-> None, key |-> None, target |-> None,
             result |-> None, answered |-> FALSE, ok |-> FALSE,
             protos |-> {}, inbound |-> {}]

-----------------------------------------------------------------------------
(* The registry and the memory of the client.                              *)

Registered(k) == instance[k] # None

Unused == {o \in Objs : primaryKey[o] = None}

\* Mutant: the key of a removed instance stays.
RemoveKeepingKey(ks) ==
    LET gone == {instance[k] : k \in ks}
    IN  /\ instance' = [k \in Keys |-> IF k \in ks THEN None ELSE instance[k]]
        /\ version' = [o \in Objs |-> IF o \in gone THEN 0 ELSE version[o]]
        /\ listening' = listening \ gone
        /\ UNCHANGED keyOf

\* DataRegistry.remove for a set of keys.
Remove(ks) ==
    LET gone == {instance[k] : k \in ks}
    IN  /\ instance' = [k \in Keys |-> IF k \in ks THEN None ELSE instance[k]]
        /\ keyOf' = [o \in Objs |-> IF o \in gone THEN None ELSE keyOf[o]]
        /\ version' = [o \in Objs |-> IF o \in gone THEN 0 ELSE version[o]]
        /\ listening' = listening \ gone

\* The instance of k, or a new one that setInstance registers.
InstanceFor(k, o) == IF Registered(k) THEN o = instance[k] ELSE o \in Unused

SetInstance(k, o) ==
    /\ instance' = [instance EXCEPT ![k] = o]
    /\ keyOf' = [keyOf EXCEPT ![o] = k]
    /\ primaryKey' = [primaryKey EXCEPT ![o] = k]

\* What the program, the queues and the closures of the tasks refer to.
Roots == held \cup UNION {
    LET w == task[t]
    IN  {w.target, w.result, w.into}
          \cup {w.resolve[i].into : i \in DOMAIN w.resolve}
          \cup {w.firing[i].object : i \in DOMAIN w.firing} : t \in Tasks}
Reachable == Roots \cup {content[o].ref : o \in Objs}

-----------------------------------------------------------------------------
(* The worker.                                                             *)

Latest(k) == Len(stored[k])
Exists(k) == stored[k] # <<>> /\ k \notin deleted
Last(k) == stored[k][Len(stored[k])]
OldVal(k) == IF stored[k] = <<>> THEN 0 ELSE Last(k).val
OldRef(k) == IF stored[k] = <<>> THEN None ELSE Last(k).ref

\* The delta of a version: what differs from the version before.
DeltaOf(k, v, r) ==
    [key |-> k, ver |-> Latest(k) + 1, deleted |-> FALSE,
     val |-> IF v # OldVal(k) THEN v ELSE 0,
     setsRef |-> r # OldRef(k), ref |-> r]
DeletionOf(k) ==
    [key |-> k, ver |-> Latest(k) + 1, deleted |-> TRUE, val |-> 0,
     setsRef |-> FALSE, ref |-> None]

\* What others may change in one request: the plain property, the reference, or
\* another property of an object that exists.
Changes(k) ==
    {<<Latest(k) + 1, OldRef(k)>>}
      \cup {<<OldVal(k), OldRef(k)>> : x \in {1} \cap 1..Latest(k)}
      \cup IF k \in Targets THEN {}
           ELSE {<<IF stored[k] = <<>> THEN 1 ELSE OldVal(k), r>> :
                   r \in {x \in Refs : x # OldRef(k) /\ (x = None \/ Exists(x))}}

Store(k, v, r) ==
    stored' = [stored EXCEPT ![k] = Append(@, [val |-> v, ref |-> r])]

Writable(k) == k \notin deleted /\ Latest(k) < MaxVersion

\* The client gets a delta as an update and, when the program subscribed to
\* messages ("event"), perhaps once more with an event, in any order.
Broadcasts(d) ==
    {{[event |-> e, deltas |-> {d}, returns |-> None] : e \in E} :
       E \in {{FALSE}} \cup {{TRUE, FALSE} : x \in Operations \cap {"event"}}}

\* Another client or a service changes an object.
OtherChanges(k) ==
    /\ running = None
    /\ Writable(k)
    /\ \E c \in Changes(k) :
         /\ Store(k, c[1], c[2])
         /\ \E m \in Broadcasts(DeltaOf(k, c[1], c[2])) : inflight' = inflight \cup m
    /\ UNCHANGED <<deleted, registryVars, held, task, running>>

\* Another client or a service deletes an object, without purging it: the mark that
\* it leaves keeps another from being made in its place.
OtherDeletes(k) ==
    /\ running = None
    /\ Exists(k)
    /\ deleted' = deleted \cup {k}
    /\ \E m \in Broadcasts(DeletionOf(k)) : inflight' = inflight \cup m
    /\ UNCHANGED <<stored, registryVars, held, task, running>>

-----------------------------------------------------------------------------
(* Steps of a task.                                                        *)

At(t, p) == task[t].pc = p /\ running = t
Update(t, w) == task' = [task EXCEPT ![t] = w]
Goto(t, p) == task' = [task EXCEPT ![t].pc = p]

\* The thread is given up; a program's result becomes a reference it holds.
Finish(t) ==
    /\ Update(t, IdleTask)
    /\ running' = None

Current(t) == Head(task[t].batches)

\* Deliver(t, m): the socket hands a message to its handler.
Deliver(t, m) ==
    /\ running = None
    /\ t \in Handlers
    /\ task[t].pc = "idle"
    /\ m \in inflight
    /\ inflight' = inflight \ {m}
    /\ Update(t, [IdleTask EXCEPT !.pc = "merge", !.batches = <<m>>])
    /\ running' = t
    /\ UNCHANGED <<workerVars, registryVars, held>>

\* task[t] without the delta d, which goes on with the queues given.
Merged(t, d, resolve, firing, deletes) ==
    Update(t, [task[t] EXCEPT !.batches[1].deltas = @ \ {d}, !.resolve = resolve,
                              !.firing = firing, !.deletes = deletes])

MergeDeleted(t, d) ==
    LET o == instance[d.key]
        firing == IF o = None THEN task[t].firing
                  ELSE Append(task[t].firing, [object |-> o, deleted |-> TRUE])
    IN  /\ d.deleted
        /\ Merged(t, d, task[t].resolve, firing, task[t].deletes \cup {d.key})
        /\ UNCHANGED registryVars

\* Mutant: a delta of any version makes the first instance.
AdoptsAny(d) == IF Registered(d.key) THEN version[instance[d.key]] = 0 ELSE TRUE

Adopts(d) == d.ver = 1 /\ (IF Registered(d.key) THEN version[instance[d.key]] = 0 ELSE TRUE)
Follows(d) == IF Registered(d.key)
              THEN version[instance[d.key]] > 0 /\ d.ver = version[instance[d.key]] + 1
              ELSE FALSE

\* mergeDeltaProperties: a reference is set later, when it was resolved.
MergedContent(o, d) ==
    [val |-> IF d.val = 0 THEN content[o].val ELSE d.val,
     edited |-> content[o].edited /\ d.val = 0,
     ref |-> IF d.setsRef /\ d.ref = None THEN None ELSE content[o].ref]

MergeProperties(t, d) ==
    /\ ~d.deleted
    /\ Adopts(d) \/ Follows(d)
    /\ \E o \in Objs :
         /\ InstanceFor(d.key, o)
         /\ SetInstance(d.key, o)
         /\ content' = [content EXCEPT ![o] = MergedContent(o, d)]
         /\ version' = [version EXCEPT ![o] = d.ver]
         /\ Merged(t, d,
                   IF d.setsRef /\ d.ref # None
                     THEN Append(task[t].resolve, [key |-> d.ref, into |-> o])
                     ELSE task[t].resolve,
                   Append(task[t].firing, [object |-> o, deleted |-> FALSE]),
                   task[t].deletes)
    /\ UNCHANGED listening

\* A delta that does not fit removes the instance; the object is loaded anew.
RejectDelta(t, d) ==
    /\ ~d.deleted
    /\ ~Adopts(d) /\ ~Follows(d)
    /\ Remove({d.key})
    /\ Merged(t, d, Append(task[t].resolve, [key |-> d.key, into |-> None]),
              task[t].firing, task[t].deletes)
    /\ UNCHANGED <<primaryKey, content>>

MergeDelta(t) ==
    /\ At(t, "merge")
    /\ \E d \in Current(t).deltas :
         MergeDeleted(t, d) \/ MergeProperties(t, d) \/ RejectDelta(t, d)
    /\ UNCHANGED <<workerVars, inflight, held, running>>

\* The return value of a method joins the tracker of the updates.
MergeDone(t) ==
    /\ At(t, "merge")
    /\ Current(t).deltas = {}
    /\ Update(t, [task[t] EXCEPT !.pc = "resolve",
           !.resolve = IF Current(t).returns = None THEN @
                       ELSE Append(@, [key |-> Current(t).returns, into |-> Program])])
    /\ UNCHANGED <<workerVars, inflight, registryVars, held, running>>

\* What is done with a resolved object: a property, or the program's result.
Hand(t, into, o, w) ==
    /\ content' = IF into \in Objs THEN [content EXCEPT ![into].ref = o] ELSE content
    /\ Update(t, IF into = Program THEN [w EXCEPT !.result = o] ELSE w)

ResolveLocally(t) ==
    /\ At(t, "resolve")
    /\ task[t].resolve # <<>>
    /\ LET item == Head(task[t].resolve)
       IN  /\ Registered(item.key)
           /\ Hand(t, item.into, instance[item.key],
                   [task[t] EXCEPT !.resolve = Tail(@)])
    /\ UNCHANGED <<workerVars, inflight, instance, keyOf, version, listening,
                   primaryKey, held, running>>

\* client.getDataAsync: the task waits for the worker.
Request(t, w, key, into) ==
    /\ Update(t, [w EXCEPT !.pc = "waiting", !.key = key, !.into = into,
                           !.target = None, !.answered = FALSE])
    /\ running' = None

ResolveRemotely(t) ==
    /\ At(t, "resolve")
    /\ task[t].resolve # <<>>
    /\ LET item == Head(task[t].resolve)
       IN  /\ ~Registered(item.key)
           /\ Request(t, [task[t] EXCEPT !.resolve = Tail(@)], item.key, item.into)
    /\ UNCHANGED <<workerVars, inflight, registryVars, held>>

ResolveDone(t) ==
    /\ At(t, "resolve")
    /\ task[t].resolve = <<>>
    /\ Goto(t, IF task[t].batches # <<>> /\ Current(t).event THEN "message" ELSE "fire")
    /\ UNCHANGED <<workerVars, inflight, registryVars, held, running>>

Answered(t, w) == Update(t, [w EXCEPT !.answered = TRUE, !.ok = TRUE])
Refused(t) == Update(t, [task[t] EXCEPT !.answered = TRUE, !.inbound = {}])

\* export_data: the object and what it refers to; a reference to a deleted
\* object fails the whole request.
AnswerGet(t) ==
    LET k == task[t].key
        ref == OldRef(k)
        Proto(x) == [key |-> x, ver |-> Latest(x), val |-> OldVal(x), ref |-> OldRef(x)]
        found == {k} \cup {x \in {ref} \ {None} : stored[x] # <<>>}
    IN  /\ running = None
        /\ task[t].pc = "waiting"
        /\ ~task[t].answered
        /\ IF Exists(k) /\ ref \notin deleted
             THEN Answered(t, [task[t] EXCEPT !.protos = {Proto(x) : x \in found}])
             ELSE Refused(t)
        /\ UNCHANGED <<workerVars, inflight, registryVars, held, running>>

\* An error is thrown through the tracker: what is left of it is not done.
ReceiveGet(t) ==
    /\ running = None
    /\ task[t].pc = "waiting"
    /\ task[t].answered
    /\ IF task[t].ok THEN Goto(t, "replace") /\ running' = t
                     ELSE Finish(t)
    /\ UNCHANGED <<workerVars, inflight, registryVars, held>>

ReplaceData(t) ==
    /\ At(t, "replace")
    /\ \E p \in task[t].protos, o \in Objs :
         /\ InstanceFor(p.key, o)
         /\ SetInstance(p.key, o)
         /\ content' = [content EXCEPT
                          ![o] = [val |-> p.val, edited |-> FALSE, ref |-> None]]
         /\ version' = [version EXCEPT ![o] = p.ver]
         /\ Update(t, [task[t] EXCEPT
                !.protos = @ \ {p},
                !.target = IF p.key = task[t].key THEN o ELSE @,
                !.resolve = IF p.ref = None THEN @
                            ELSE Append(@, [key |-> p.ref, into |-> o]),
                !.firing = IF Registered(p.key)
                             THEN Append(@, [object |-> o, deleted |-> FALSE])
                             ELSE @])
    /\ UNCHANGED <<workerVars, inflight, listening, held, running>>

ReplaceDone(t) ==
    /\ At(t, "replace")
    /\ task[t].protos = {}
    /\ Hand(t, task[t].into, task[t].target,
            [task[t] EXCEPT !.pc = "resolve", !.into = None, !.target = None,
                            !.key = None, !.answered = FALSE, !.ok = FALSE])
    /\ UNCHANGED <<workerVars, inflight, instance, keyOf, version, listening,
                   primaryKey, held, running>>

\* A listener may return a promise: the task waits for it.
ListenerCalled(t, w) ==
    \/ Update(t, w) /\ UNCHANGED running
    \/ Update(t, [w EXCEPT !.pc = "listener"]) /\ running' = None

FireMessage(t) ==
    /\ At(t, "message")
    /\ ListenerCalled(t, [task[t] EXCEPT !.pc = "fire"])
    /\ UNCHANGED <<workerVars, inflight, registryVars, held>>

\* getDataKey throws for an object that has listeners and no key: the rest of
\* the tracker, its deletions included, is not done.
FireUpdated(t) ==
    /\ At(t, "fire")
    /\ task[t].firing # <<>>
    /\ LET o == Head(task[t].firing).object
           w == [task[t] EXCEPT !.firing = Tail(@)]
       IN  CASE o \notin listening -> Update(t, w) /\ UNCHANGED running
             [] o \in listening /\ keyOf[o] = None -> Finish(t)
             [] OTHER -> ListenerCalled(t, w)
    /\ UNCHANGED <<workerVars, inflight, registryVars, held>>

ListenerReturns(t) ==
    /\ running = None
    /\ task[t].pc = "listener"
    /\ Goto(t, "fire")
    /\ running' = t
    /\ UNCHANGED <<workerVars, inflight, registryVars, held>>

\* The deletions of the tracker, by key; then the next part of the answer.
ApplyDeletes(t) ==
    /\ At(t, "fire")
    /\ task[t].firing = <<>>
    /\ Remove(task[t].deletes)
    /\ IF Len(task[t].batches) > 1
         THEN /\ Update(t, [task[t] EXCEPT !.pc = "merge", !.batches = Tail(@),
                                           !.deletes = {}])
              /\ UNCHANGED <<held, running>>
         ELSE /\ Finish(t)
              /\ held' = held \cup ({task[t].result} \ {None})
    /\ UNCHANGED <<workerVars, inflight, primaryKey, content>>

-----------------------------------------------------------------------------
(* The program.                                                            *)

Ready(t, operation) ==
    /\ operation \in Operations
    /\ t \in Callers
    /\ running = None
    /\ task[t].pc = "idle"

\* Bound: what the program holds and what its calls may still return.
CanHold == Cardinality(held) + Cardinality({t \in Tasks : task[t].pc # "idle"}) < MaxHeld

\* worker.getDataAsync asks the worker even when there is an instance.
StartGet(t, k) ==
    /\ Ready(t, "get")
    /\ CanHold
    /\ Request(t, IdleTask, k, Program)
    /\ UNCHANGED <<workerVars, inflight, registryVars, held>>

\* createInboundDataDelta for an object and for the object it refers to.
Inbound(o) ==
    LET ref == content[o].ref
    IN  [key |-> primaryKey[o], ver |-> version[o], val |-> content[o].val,
         edited |-> content[o].edited,
         ref |-> IF ref \in Objs THEN primaryKey[ref] ELSE None]
\* Mutant: the object is sent without what it refers to.
TransferAlone(o) == {Inbound(o)}


Transfer(o) == {Inbound(x) : x \in {o} \cup ({content[o].ref} \cap Objs)}

StartSave(t, o) ==
    /\ Ready(t, "save")
    /\ o \in held
    /\ Update(t, [IdleTask EXCEPT !.pc = "saving", !.inbound = Transfer(o)])
    /\ UNCHANGED <<workerVars, inflight, registryVars, held, running>>

\* Mutant: an older version is accepted too.
AcceptsOlder(i) == i.key \notin deleted /\ i.ver <= Latest(i.key)

\* apply_inbound_delta: the version must be the one stored, 0 for a new object.
Accepts(i) == i.key \notin deleted /\ i.ver = Latest(i.key)
SavedVal(i) == IF i.edited THEN Latest(i.key) + 1 ELSE i.val
SavedRef(i) == IF i.ref = None THEN OldRef(i.key) ELSE i.ref
Changed(i) == SavedVal(i) # OldVal(i.key) \/ SavedRef(i) # OldRef(i.key)

\* SaveData of all objects or of none, answered with the deltas it caused.
AnswerSave(t) ==
    LET changed == {i \in task[t].inbound : Changed(i)}
        deltas == {DeltaOf(i.key, SavedVal(i), SavedRef(i)) : i \in changed}
    IN  /\ running = None
        /\ task[t].pc = "saving"
        /\ ~task[t].answered
        /\ \/ /\ \A i \in task[t].inbound : Accepts(i)
              /\ \A i \in changed : Latest(i.key) <= MaxVersion
              /\ stored' = [k \in Keys |->
                   IF \E i \in changed : i.key = k
                   THEN LET i == CHOOSE j \in changed : j.key = k
                        IN  Append(stored[k], [val |-> SavedVal(i), ref |-> SavedRef(i)])
                   ELSE stored[k]]
              /\ Answered(t, [task[t] EXCEPT !.inbound = {},
                     !.batches = <<[event |-> FALSE, deltas |-> deltas, returns |-> None]>>])
           \/ Refused(t) /\ UNCHANGED stored
        /\ UNCHANGED <<deleted, inflight, registryVars, held, running>>

ReceiveSave(t) ==
    /\ running = None
    /\ task[t].pc \in {"saving", "calling"}
    /\ task[t].answered
    /\ IF task[t].ok
         THEN /\ Update(t, [task[t] EXCEPT !.pc = "merge", !.answered = FALSE,
                                           !.ok = FALSE])
              /\ running' = t
         ELSE Finish(t)
    /\ UNCHANGED <<workerVars, inflight, registryVars, held>>

\* A service method that changes k, sends an event or not, and returns the
\* object or not.  Its answer has the events first, then the updates.
StartCall(t, k) ==
    /\ Ready(t, "call")
    /\ CanHold
    /\ Update(t, [IdleTask EXCEPT !.pc = "calling", !.key = k])
    /\ UNCHANGED <<workerVars, inflight, registryVars, held, running>>

AnswerCall(t) ==
    LET k == task[t].key
    IN  /\ running = None
        /\ task[t].pc = "calling"
        /\ ~task[t].answered
        /\ \/ /\ Writable(k)
              /\ \E c \in Changes(k), event \in BOOLEAN, returns \in {k, None} :
                   LET delta == {DeltaOf(k, c[1], c[2])}
                       part(e, ds, r) == [event |-> e, deltas |-> ds, returns |-> r]
                       parts == IF event
                                THEN <<part(TRUE, delta, None), part(FALSE, {}, returns)>>
                                ELSE <<part(FALSE, delta, returns)>>
                   IN  /\ Store(k, c[1], c[2])
                       /\ Answered(t, [task[t] EXCEPT !.key = None, !.batches = parts])
           \/ Refused(t) /\ UNCHANGED stored
        /\ UNCHANGED <<deleted, inflight, registryVars, held, running>>

\* new Data(primaryKey) throws when there is an instance.  The class sets the
\* plain property: the worker stores nothing for an object without properties.
NewData(o, k) ==
    /\ "new" \in Operations
    /\ running = None
    /\ CanHold
    /\ o \in Unused
    /\ ~Registered(k)
    /\ SetInstance(k, o)
    /\ content' = [content EXCEPT ![o] = [val |-> 0, edited |-> TRUE, ref |-> None]]
    /\ held' = held \cup {o}
    /\ UNCHANGED <<workerVars, inflight, version, listening, task, running>>

Edit(o) ==
    /\ "edit" \in Operations
    /\ running = None
    /\ o \in held
    /\ ~content[o].edited
    /\ content' = [content EXCEPT ![o].edited = TRUE]
    /\ UNCHANGED <<workerVars, inflight, instance, keyOf, version, listening,
                   primaryKey, held, task, running>>

\* A property is set to another object.
SetReference(o, x) ==
    /\ "link" \in Operations
    /\ running = None
    /\ {o, x} \subseteq held
    /\ primaryKey[o] \notin Targets
    /\ primaryKey[x] \in Targets
    /\ content[o].ref # x
    /\ content' = [content EXCEPT ![o].ref = x]
    /\ UNCHANGED <<workerVars, inflight, instance, keyOf, version, listening,
                   primaryKey, held, task, running>>

AddUpdateListener(o) ==
    /\ "listen" \in Operations
    /\ running = None
    /\ o \in held \ listening
    /\ listening' = listening \cup {o}
    /\ UNCHANGED <<workerVars, inflight, instance, keyOf, version, primaryKey,
                   content, held, task, running>>

\* closeConnections and clearUpdateListeners.
ClearAllUpdateListeners ==
    /\ running = None
    /\ listening # {}
    /\ listening' = {}
    /\ UNCHANGED <<workerVars, inflight, instance, keyOf, version, primaryKey,
                   content, held, task, running>>

Drop(o) ==
    /\ running = None
    /\ o \in held
    /\ held' = held \ {o}
    /\ UNCHANGED <<workerVars, inflight, registryVars, task, running>>

\* The registry refers to instances weakly.  While a task has the thread the
\* instances it may have looked at stay.
Collect(o) ==
    /\ running = None \/ keyOf[o] = None
    /\ primaryKey[o] # None
    /\ o \notin Reachable
    /\ instance' = [k \in Keys |-> IF instance[k] = o THEN None ELSE instance[k]]
    /\ keyOf' = [keyOf EXCEPT ![o] = None]
    /\ version' = [version EXCEPT ![o] = 0]
    /\ listening' = listening \ {o}
    /\ primaryKey' = [primaryKey EXCEPT ![o] = None]
    /\ content' = [content EXCEPT ![o] = [val |-> 0, edited |-> FALSE, ref |-> None]]
    /\ UNCHANGED <<workerVars, inflight, held, task, running>>

-----------------------------------------------------------------------------
Init ==
    /\ stored = [k \in Keys |-> <<>>]
    /\ deleted = {}
    /\ inflight = {}
    /\ instance = [k \in Keys |-> None]
    /\ keyOf = [o \in Objs |-> None]
    /\ version = [o \in Objs |-> 0]
    /\ listening = {}
    /\ primaryKey = [o \in Objs |-> None]
    /\ content = [o \in Objs |-> [val |-> 0, edited |-> FALSE, ref |-> None]]
    /\ held = {}
    /\ task = [t \in Tasks |-> IdleTask]
    /\ running = None

\* The steps a task takes while it has the thread.
Work(t) ==
    \/ MergeDelta(t) \/ MergeDone(t)
    \/ ResolveLocally(t) \/ ResolveRemotely(t) \/ ResolveDone(t)
    \/ ReplaceData(t) \/ ReplaceDone(t)
    \/ FireMessage(t) \/ FireUpdated(t) \/ ApplyDeletes(t)

Resume(t) == ReceiveGet(t) \/ ReceiveSave(t) \/ ListenerReturns(t)
Answer(t) == AnswerGet(t) \/ AnswerSave(t) \/ AnswerCall(t)

ProgramStep ==
    \/ \E t \in Tasks, k \in Keys : StartGet(t, k) \/ StartCall(t, k)
    \/ \E t \in Tasks, o \in Objs : StartSave(t, o)
    \/ \E o \in Objs, k \in Keys : NewData(o, k)
    \/ \E o \in Objs : Edit(o) \/ AddUpdateListener(o) \/ Drop(o)
    \/ \E o, x \in Objs : SetReference(o, x)
    \/ ClearAllUpdateListeners

Next ==
    \/ \E k \in Keys : OtherChanges(k) \/ OtherDeletes(k)
    \/ \E t \in Tasks : Work(t) \/ Resume(t) \/ Answer(t)
    \/ \E t \in Tasks, m \in inflight : Deliver(t, m)
    \/ \E o \in Objs : Collect(o)
    \/ ProgramStep

Spec == Init /\ [][Next]_vars

-----------------------------------------------------------------------------
(* Types.                                                                  *)

Task == [pc : {"idle"} \cup Waits \cup Steps, batches : Seq(Batch),
         resolve : Seq(Item), firing : Seq(Fired), deletes : SUBSET Keys,
         into : OptObjs \cup {Program}, key : Keys \cup {None}, target : OptObjs,
         result : OptObjs, answered : BOOLEAN, ok : BOOLEAN,
         protos : SUBSET DataProto, inbound : SUBSET InboundDelta]

\* Everything is of its kind (util/registry.ts, util/tracker.ts).
TypeOK ==
    /\ stored \in [Keys -> Seq([val : Nat, ref : Refs])]
    /\ deleted \subseteq Keys
    /\ inflight \subseteq Batch
    /\ instance \in [Keys -> OptObjs]
    /\ keyOf \in [Objs -> Keys \cup {None}]
    /\ version \in [Objs -> Nat]
    /\ listening \subseteq Objs
    /\ primaryKey \in [Objs -> Keys \cup {None}]
    /\ content \in [Objs -> [val : Nat, edited : BOOLEAN, ref : OptObjs]]
    /\ held \subseteq Objs
    /\ task \in [Tasks -> Task]
    /\ running \in Tasks \cup {None}

-----------------------------------------------------------------------------
(* Safety.                                                                 *)

\* The two directions of the registry agree through merges, replacements,
\* removals by key and collections: a key has at most one instance, which
\* knows its key (registry.ts:136-213).  An object that lost its registration has
\* no version: the worker refuses to save it over the object that took its place
\* (registry.ts:208, serde.ts:269).
RegistryBijective ==
    /\ \A k \in Keys, o \in Objs : instance[k] = o <=> keyOf[o] = k
    /\ \A o \in Objs : version[o] > 0 => keyOf[o] # None /\ keyOf[o] = primaryKey[o]

\* What an instance has of a property is what the worker stored with the
\* instance's version, whatever order deltas and answers came in: no delta is
\* merged into the wrong version (serde.ts:865-995).
ContentMatchesVersion ==
    \A o \in Objs :
        version[o] > 0 =>
          /\ version[o] <= Latest(primaryKey[o])
          /\ content[o].val = stored[primaryKey[o]][version[o]].val

\* Saving an object never puts an older value of a property back that the
\* program did not touch (createInboundDataDelta sends all properties with the
\* object's version, serde.ts:264-295).
SaveRevertsNothing ==
    [][\A k \in Keys :
         Len(stored'[k]) > Len(stored[k]) =>
           stored'[k][Len(stored'[k])].val \in {OldVal(k), Len(stored'[k])}]_vars

\* The worker stores no reference to an object that it never had: a save sends
\* the objects an object refers to with it, and all are stored or none
\* (DataTransferQueue, serde.ts:123-164; saveDataAsync, worker.ts:75-106).
ReferencesAreStored ==
    \A k \in Keys : OldRef(k) # None => stored[OldRef(k)] # <<>>

\* What the documentation of subscribeUpdatesAsync says (worker.ts:274, "so the
\* objects are kept up to date automatically"), for the references of an object
\* that already has the newest version: with no message on its way and no task
\* under way they are what the worker stored.
ReferencesKeptUpToDate ==
    (inflight = {} /\ \A t \in Tasks : task[t].pc = "idle") =>
      \A k \in Keys :
        (Registered(k) /\ Exists(k) /\ version[instance[k]] = Latest(k)
           /\ content[instance[k]].ref # None) =>
          primaryKey[content[instance[k]].ref] = OldRef(k)

=============================================================================
