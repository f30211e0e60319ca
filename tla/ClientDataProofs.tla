-------------------------- MODULE ClientDataProofs --------------------------
(***************************************************************************)
(* Proofs about ClientData, for any keys, any objects in memory, any number *)
(* of tasks and versions.  The parts of the invariant take what they look  *)
(* at as parameters: a task, the keys of the objects (pk) and the worker's *)
(* versions (st), so that they can be said of the state after a step too.  *)
(***************************************************************************)
EXTENDS ClientData, TLAPS, SequenceTheorems

(* What is on its way is about versions that the worker stored.            *)

\* The worker stored val in version v of k.
Matches(k, v, val, st) == v \in 1 .. Len(st[k]) /\ st[k][v].val = val

ValBefore(k, v, st) == IF v = 1 THEN 0 ELSE st[k][v - 1].val

DeltaOK(d, st) ==
    /\ d \in DataDelta
    /\ d.ref # None => d.key \notin Targets
    /\ ~d.deleted =>
         Matches(d.key, d.ver, IF d.val = 0 THEN ValBefore(d.key, d.ver, st) ELSE d.val, st)

ProtoOK(p, st) ==
    /\ p \in DataProto
    /\ p.ref # None => p.key \notin Targets
    /\ Matches(p.key, p.ver, p.val, st)

\* An object that the worker does not know was edited since it was made.
InboundOK(i, st) ==
    /\ i \in InboundDelta
    /\ i.ref # None => i.key \notin Targets
    /\ i.ver > 0 => Matches(i.key, i.ver, i.val, st)
    /\ st[i.key] = <<>> => i.val = 0 /\ i.edited

BatchOK(b, st) == b \in Batch /\ \A d \in b.deltas : DeltaOK(d, st)

\* A save sends an object once, and with it all that it refers to.
SavesOK(is, st) ==
    /\ \A i \in is : InboundOK(i, st)
    /\ \A i, j \in is : i.key = j.key => i = j
    /\ \A i \in is : i.ref # None => \E j \in is : j.key = i.ref

-----------------------------------------------------------------------------
(* A task.                                                                 *)

ItemOK(i, pk) ==
    i.into \in Objs => i.key \in Targets /\ pk[i.into] \in Keys \ Targets

\* What a task sets is an object in use, and what it sets it to is of the key
\* that the property refers to.
UseOK(w, pk) ==
    /\ \A i \in DOMAIN w.resolve : ItemOK(w.resolve[i], pk)
    /\ w.into \in Objs => w.key \in Targets /\ pk[w.into] \in Keys \ Targets
    /\ w.target # None => pk[w.target] = w.key /\ w.key # None
    /\ w.result # None => pk[w.result] # None

StageOK(w) ==
    /\ w.pc = "merge" => w.batches # <<>>
    /\ w.pc \in {"saving", "calling"} =>
         IF w.answered THEN w.ok => w.batches # <<>> ELSE ~w.ok
    /\ w.pc = "calling" => w.into = None /\ w.target = None
    /\ w.pc = "waiting" \/ (w.pc = "calling" /\ ~w.answered) => w.key \in Keys

SentOK(w, st) ==
    /\ \A i \in DOMAIN w.batches : BatchOK(w.batches[i], st)
    /\ \A p \in w.protos : ProtoOK(p, st)
    /\ SavesOK(w.inbound, st)

TaskOK(w, pk, st) == w \in Task /\ UseOK(w, pk) /\ StageOK(w) /\ SentOK(w, st)

-----------------------------------------------------------------------------
(* The inductive invariant.                                                *)

\* Only what is no target has references, and only to what was stored.
WorkerInv ==
    /\ stored \in [Keys -> Seq([val : Nat, ref : Refs])]
    /\ deleted \subseteq Keys
    /\ \A k \in Targets : OldRef(k) = None
    /\ ReferencesAreStored

RegistryType ==
    /\ instance \in [Keys -> OptObjs]
    /\ keyOf \in [Objs -> Keys \cup {None}]
    /\ version \in [Objs -> Nat]
    /\ listening \subseteq Objs
    /\ primaryKey \in [Objs -> Keys \cup {None}]
    /\ content \in [Objs -> [val : Nat, edited : BOOLEAN, ref : OptObjs]]

RegistryInv ==
    /\ \A k \in Keys, o \in Objs : instance[k] = o <=> keyOf[o] = k
    /\ \A o \in Objs : keyOf[o] # None => keyOf[o] = primaryKey[o]
    /\ \A o \in Objs : version[o] > 0 => keyOf[o] # None

\* An object without a version that is registered, or not in use, is empty.
ValueOK(o, c, pk, st) ==
    /\ version[o] > 0 => Matches(pk[o], version[o], c.val, st)
    /\ pk[o] = None \/ (keyOf[o] # None /\ version[o] = 0) => c.val = 0
    /\ pk[o] # None => st[pk[o]] # <<>> \/ (c.val = 0 /\ c.edited)

RefOK(o) ==
    content[o].ref # None =>
      primaryKey[o] \in Keys \ Targets /\ primaryKey[content[o].ref] \in Targets

ContentInv ==
    \A o \in Objs : ValueOK(o, content[o], primaryKey, stored) /\ RefOK(o)

MessageInv == \A m \in inflight : BatchOK(m, stored)

HeldInv == held \subseteq Objs /\ \A o \in held : primaryKey[o] # None

TaskInv ==
    /\ task = [t \in Tasks |-> task[t]]
    /\ \A t \in Tasks : TaskOK(task[t], primaryKey, stored)
    /\ running \in Tasks \cup {None}

IInv == /\ WorkerInv
        /\ RegistryType /\ RegistryInv /\ ContentInv
        /\ MessageInv /\ HeldInv /\ TaskInv

-----------------------------------------------------------------------------
(* What stays true of a task while the worker stores more and objects get  *)
(* their keys.                                                             *)

Stored == [Keys -> Seq([val : Nat, ref : Refs])]

Grows(st, tt) ==
    /\ st \in Stored /\ tt \in Stored
    /\ \A k \in Keys : /\ Len(st[k]) <= Len(tt[k])
                       /\ \A i \in 1 .. Len(st[k]) : tt[k][i] = st[k][i]

UsedBy(w) == {w.into, w.target, w.result} \cup {w.resolve[i].into : i \in DOMAIN w.resolve}

KeysStay(S, pk, qk) == \A o \in Objs \cap S : pk[o] # None => qk[o] = pk[o]

LEMMA GrowsSame ==
  ASSUME NEW st \in Stored
  PROVE  Grows(st, st)
<1>1. \A k \in Keys : Len(st[k]) \in Nat
  BY DEF Stored
<1>2. \A k \in Keys : Len(st[k]) <= Len(st[k])
  BY <1>1
<1> QED
  BY <1>2 DEF Grows

\* No version is ever stored again.
LEMMA MatchesKept ==
  ASSUME NEW st, NEW tt, Grows(st, tt), NEW k \in Keys, NEW v \in Nat, NEW val,
         Matches(k, v, val, st)
  PROVE  Matches(k, v, val, tt) /\ ValBefore(k, v, tt) = ValBefore(k, v, st)
<1>1. Len(st[k]) \in Nat /\ Len(tt[k]) \in Nat
  BY DEF Grows, Stored
<1>2. v \in 1 .. Len(st[k]) /\ Len(st[k]) <= Len(tt[k])
  BY DEF Grows, Matches
<1>3. tt[k][v] = st[k][v]
  BY <1>2 DEF Grows
<1>4. v # 1 => v - 1 \in 1 .. Len(st[k])
  BY <1>1, <1>2
<1>5. v # 1 => tt[k][v - 1] = st[k][v - 1]
  BY <1>4 DEF Grows
<1> QED
  BY <1>1, <1>2, <1>3, <1>5 DEF Matches, ValBefore

LEMMA BatchKept ==
  ASSUME NEW st, NEW tt, Grows(st, tt), NEW b, BatchOK(b, st)
  PROVE  BatchOK(b, tt)
<1> SUFFICES ASSUME NEW d \in b.deltas, ~ d.deleted
             PROVE  Matches(d.key, d.ver,
                      IF d.val = 0 THEN ValBefore(d.key, d.ver, tt) ELSE d.val, tt)
  BY DEF BatchOK, DeltaOK
<1>1. d.key \in Keys /\ d.ver \in Nat
  BY DEF BatchOK, DeltaOK, DataDelta
<1>2. Matches(d.key, d.ver, IF d.val = 0 THEN ValBefore(d.key, d.ver, st) ELSE d.val, st)
  BY DEF BatchOK, DeltaOK
<1> QED
  BY <1>1, <1>2, MatchesKept

LEMMA SavesKept ==
  ASSUME NEW st, NEW tt, Grows(st, tt), NEW is, SavesOK(is, st)
  PROVE  SavesOK(is, tt)
<1> SUFFICES ASSUME NEW i \in is PROVE InboundOK(i, tt)
  BY DEF SavesOK
<1>1. InboundOK(i, st) /\ i.key \in Keys /\ i.ver \in Nat
  BY DEF SavesOK, InboundOK, InboundDelta
<1>2. tt[i.key] = <<>> => st[i.key] = <<>>
  <2>1. st[i.key] \in Seq([val : Nat, ref : Refs]) /\ tt[i.key] \in Seq([val : Nat, ref : Refs])
    BY <1>1 DEF Grows, Stored
  <2>2. Len(st[i.key]) <= Len(tt[i.key])
    BY <1>1 DEF Grows
  <2> QED
    BY <2>1, <2>2, EmptySeq
<1> QED
  BY <1>1, <1>2, MatchesKept DEF InboundOK

LEMMA SentKept ==
  ASSUME NEW st, NEW tt, Grows(st, tt), NEW w, SentOK(w, st)
  PROVE  SentOK(w, tt)
<1>1. \A i \in DOMAIN w.batches : BatchOK(w.batches[i], tt)
  BY BatchKept DEF SentOK
<1>2. ASSUME NEW p \in w.protos PROVE ProtoOK(p, tt)
  <2>1. p.key \in Keys /\ p.ver \in Nat /\ ProtoOK(p, st)
    BY DEF SentOK, ProtoOK, DataProto
  <2> QED
    BY <2>1, MatchesKept DEF ProtoOK
<1> QED
  BY <1>1, <1>2, SavesKept DEF SentOK

LEMMA UseKept ==
  ASSUME NEW w, NEW pk, NEW qk, KeysStay(UsedBy(w), pk, qk), UseOK(w, pk), w \in Task
  PROVE  UseOK(w, qk)
<1> USE ConstantsAssumption
<1>1. ASSUME NEW i \in DOMAIN w.resolve PROVE ItemOK(w.resolve[i], qk)
  <2>1. ItemOK(w.resolve[i], pk) /\ w.resolve[i].into \in UsedBy(w)
    BY DEF UseOK, UsedBy
  <2> QED
    BY <2>1 DEF ItemOK, KeysStay
<1>2. w.into \in Objs => w.key \in Targets /\ qk[w.into] \in Keys \ Targets
  BY DEF UseOK, UsedBy, KeysStay
<1>3. w.target # None => qk[w.target] = w.key /\ w.key # None
  BY DEF UseOK, UsedBy, KeysStay, Task, OptObjs
<1>4. w.result # None => qk[w.result] # None
  BY DEF UseOK, UsedBy, KeysStay, Task, OptObjs
<1> QED
  BY <1>1, <1>2, <1>3, <1>4 DEF UseOK

LEMMA TaskKept ==
  ASSUME NEW w, NEW pk, NEW qk, NEW st, NEW tt,
         Grows(st, tt), KeysStay(UsedBy(w), pk, qk), TaskOK(w, pk, st)
  PROVE  TaskOK(w, qk, tt)
BY SentKept, UseKept DEF TaskOK

\* One task is at work: the others stay as they are.
LEMMA TasksKept ==
  ASSUME TaskInv, NEW t \in Tasks, NEW w, Grows(stored, stored'),
         \A u \in Tasks : KeysStay(UsedBy(task[u]), primaryKey, primaryKey'),
         task' = [task EXCEPT ![t] = w], TaskOK(w, primaryKey', stored'),
         running' \in Tasks \cup {None}
  PROVE  TaskInv'
<1>1. task' = [u \in Tasks |-> task'[u]]
  BY DEF TaskInv
<1>2. ASSUME NEW u \in Tasks PROVE TaskOK(task'[u], primaryKey', stored')
  <2>1. CASE u = t
    BY <2>1 DEF TaskInv
  <2>2. CASE u # t
    <3>1. task'[u] = task[u]
      BY <2>2 DEF TaskInv
    <3>2. TaskOK(task[u], primaryKey, stored)
      BY DEF TaskInv
    <3> QED
      BY <3>1, <3>2, TaskKept
  <2> QED
    BY <2>1, <2>2
<1> QED
  BY <1>1, <1>2 DEF TaskInv

\* What is checked of a task after its step, and of the rest after any step.
LEMMA TaskStep ==
  ASSUME IInv, NEW t \in Tasks, NEW w,
         UNCHANGED workerVars, inflight' \subseteq inflight,
         RegistryType', RegistryInv', ContentInv', HeldInv',
         KeysStay(Objs, primaryKey, primaryKey'),
         task' = [task EXCEPT ![t] = w], TaskOK(w, primaryKey', stored),
         running' \in Tasks \cup {None}
  PROVE  IInv'
<1>1. stored' = stored /\ deleted' = deleted
  BY DEF workerVars
<1>2. Grows(stored, stored')
  BY <1>1, GrowsSame DEF IInv, WorkerInv, Stored
<1>3. WorkerInv'
  BY <1>1 DEF IInv, WorkerInv, OldRef, Last, ReferencesAreStored
<1>4. MessageInv'
  BY <1>1 DEF IInv, MessageInv
<1>5. \A u \in Tasks : KeysStay(UsedBy(task[u]), primaryKey, primaryKey')
  BY DEF KeysStay
<1>6. TaskInv'
  BY <1>1, <1>2, <1>5, TasksKept DEF IInv
<1> QED
  BY <1>3, <1>4, <1>6 DEF IInv

LEMMA RegistrySame ==
  ASSUME IInv, UNCHANGED registryVars, UNCHANGED stored
  PROVE  RegistryType' /\ RegistryInv' /\ ContentInv' /\ KeysStay(Objs, primaryKey, primaryKey')
<1>1. ContentInv'
  BY DEF IInv, ContentInv, ValueOK, RefOK, registryVars
<1> QED
  BY <1>1 DEF IInv, RegistryType, RegistryInv, KeysStay, registryVars

\* A step that changes a task and nothing else of the client.
LEMMA OwnStep ==
  ASSUME IInv, NEW t \in Tasks, NEW w,
         UNCHANGED <<workerVars, registryVars, held>>, inflight' \subseteq inflight,
         task' = [task EXCEPT ![t] = w], TaskOK(w, primaryKey, stored),
         running' \in Tasks \cup {None}
  PROVE  IInv'
<1>1. UNCHANGED stored /\ UNCHANGED primaryKey
  BY DEF workerVars, registryVars
<1>2. HeldInv'
  BY <1>1 DEF IInv, HeldInv
<1> QED
  BY <1>1, <1>2, RegistrySame, TaskStep

-----------------------------------------------------------------------------
(* The registry.                                                           *)

\* An instance gets its key, its version and its properties.
LEMMA Registering ==
  ASSUME RegistryType, RegistryInv, ContentInv, WorkerInv,
         NEW k \in Keys, NEW o \in Objs, InstanceFor(k, o), SetInstance(k, o),
         NEW v \in Nat, version' = [version EXCEPT ![o] = v],
         NEW c \in [val : Nat, edited : BOOLEAN, ref : OptObjs],
         content' = [content EXCEPT ![o] = c],
         UNCHANGED <<listening, stored>>,
         v > 0 => Matches(k, v, c.val, stored), v = 0 => c.val = 0 /\ c.edited,
         c.ref \in {None, content[o].ref}
  PROVE  /\ RegistryType' /\ RegistryInv' /\ ContentInv'
         /\ KeysStay(Objs, primaryKey, primaryKey') /\ primaryKey'[o] = k
<1> USE ConstantsAssumption
<1>1. RegistryType'
  BY DEF RegistryType, SetInstance, OptObjs
<1>2. k # None /\ o # None
  OBVIOUS
<1>3. primaryKey[o] \in {None, k}
  <2>1. CASE Registered(k)
    BY <2>1 DEF InstanceFor, RegistryInv, Registered
  <2>2. CASE ~ Registered(k)
    BY <2>2 DEF InstanceFor, Unused
  <2> QED
    BY <2>1, <2>2
<1>4. KeysStay(Objs, primaryKey, primaryKey') /\ primaryKey'[o] = k
  BY <1>3 DEF KeysStay, SetInstance, RegistryType
<1>5. RegistryInv'
  <2>1. CASE Registered(k)
    <3>1. instance[k] = o /\ keyOf[o] = k
      BY <2>1 DEF InstanceFor, RegistryInv
    <3>2. instance' = instance /\ keyOf' = keyOf /\ primaryKey' = primaryKey
      BY <3>1 DEF SetInstance, RegistryType, RegistryInv
    <3>3. \A x \in Objs : version'[x] > 0 => keyOf[x] # None
      BY <1>2, <3>1 DEF RegistryInv, RegistryType
    <3> QED
      BY <3>2, <3>3 DEF RegistryInv
  <2>2. CASE ~ Registered(k)
    <3>1. keyOf[o] = None /\ instance[k] = None
      BY <2>2 DEF InstanceFor, Unused, RegistryInv, Registered
    <3>2. \A j \in Keys : instance[j] # o
      BY <3>1 DEF RegistryInv
    <3>3. \A x \in Objs : keyOf[x] # k
      BY <1>2, <3>1 DEF RegistryInv
    <3>4. \A j \in Keys, x \in Objs : instance'[j] = x <=> keyOf'[x] = j
      <4> TAKE j \in Keys, x \in Objs
      <4>1. instance'[j] = IF j = k THEN o ELSE instance[j]
        BY DEF SetInstance, RegistryType
      <4>2. keyOf'[x] = IF x = o THEN k ELSE keyOf[x]
        BY DEF SetInstance, RegistryType
      <4> QED
        BY <3>1, <3>2, <3>3, <4>1, <4>2 DEF RegistryInv
    <3>5. \A x \in Objs : keyOf'[x] # None => keyOf'[x] = primaryKey'[x]
      BY DEF SetInstance, RegistryType, RegistryInv
    <3>6. \A x \in Objs : version'[x] > 0 => keyOf'[x] # None
      BY <1>2 DEF SetInstance, RegistryType, RegistryInv
    <3> QED
      BY <3>4, <3>5, <3>6 DEF RegistryInv
  <2> QED
    BY <2>1, <2>2
<1>6. ASSUME NEW x \in Objs
      PROVE  (ValueOK(x, content[x], primaryKey, stored))' /\ (RefOK(x))'
  <2>1. CASE x = o
    <3>1. content'[o] = c /\ version'[o] = v /\ keyOf'[o] = k
      BY DEF RegistryType, SetInstance
    <3>2. v > 0 => stored[k] # <<>>
      <4>1. stored[k] \in Seq([val : Nat, ref : Refs])
        BY DEF WorkerInv
      <4>2. v > 0 => v \in 1 .. Len(stored[k])
        BY DEF Matches
      <4> QED
        BY <4>1, <4>2
    <3>3. (ValueOK(x, content[x], primaryKey, stored))'
      BY <2>1, <1>2, <1>4, <3>1, <3>2 DEF ValueOK
    <3>4. c.ref # None => k \in Keys \ Targets /\ primaryKey'[c.ref] \in Targets
      <4> HAVE c.ref # None
      <4>1. c.ref = content[o].ref /\ c.ref \in Objs
        BY DEF OptObjs
      <4>2. primaryKey[o] \in Keys \ Targets /\ primaryKey[c.ref] \in Targets
        BY <4>1 DEF ContentInv, RefOK
      <4> QED
        BY <4>1, <4>2, <1>3, <1>4 DEF KeysStay
    <3> QED
      BY <2>1, <1>4, <3>1, <3>3, <3>4 DEF RefOK
  <2>2. CASE x # o
    <3>1. /\ content'[x] = content[x] /\ version'[x] = version[x]
          /\ keyOf'[x] = keyOf[x] /\ primaryKey'[x] = primaryKey[x]
      BY <2>2 DEF RegistryType, SetInstance
    <3>2. (ValueOK(x, content[x], primaryKey, stored))'
      BY <3>1 DEF ContentInv, ValueOK
    <3>3. content[x].ref # None => primaryKey'[content[x].ref] \in Targets
      BY <1>4 DEF ContentInv, RefOK, KeysStay, RegistryType, OptObjs
    <3> QED
      BY <3>1, <3>2, <3>3 DEF ContentInv, RefOK
  <2> QED
    BY <2>1, <2>2
<1> QED
  BY <1>1, <1>4, <1>5, <1>6 DEF ContentInv

\* Instances are removed by their keys; the objects stay.
LEMMA Removing ==
  ASSUME RegistryType, RegistryInv, ContentInv, NEW ks \in SUBSET Keys, Remove(ks),
         UNCHANGED <<primaryKey, content, stored>>
  PROVE  /\ RegistryType' /\ RegistryInv' /\ ContentInv'
         /\ KeysStay(Objs, primaryKey, primaryKey')
<1> USE ConstantsAssumption
<1>1. RegistryType'
  BY DEF RegistryType, Remove, OptObjs
<1>2. ASSUME NEW o \in Objs
      PROVE  IF keyOf[o] \in ks THEN keyOf'[o] = None /\ version'[o] = 0
                                ELSE keyOf'[o] = keyOf[o] /\ version'[o] = version[o]
  <2>1. o \in {instance[k] : k \in ks} <=> keyOf[o] \in ks
    BY DEF RegistryInv
  <2> QED
    BY <2>1 DEF Remove
<1>3. RegistryInv'
  <2>1. \A k \in Keys, o \in Objs : instance'[k] = o <=> keyOf'[o] = k
    <3> TAKE k \in Keys, o \in Objs
    <3>1. instance'[k] = IF k \in ks THEN None ELSE instance[k]
      BY DEF Remove
    <3>2. instance[k] = o <=> keyOf[o] = k
      BY DEF RegistryInv
    <3> QED
      BY <1>2, <3>1, <3>2
  <2> QED
    BY <1>2, <2>1 DEF RegistryInv
<1>4. \A o \in Objs : (ValueOK(o, content[o], primaryKey, stored))'
  BY <1>2 DEF ContentInv, ValueOK
<1> QED
  BY <1>1, <1>3, <1>4 DEF ContentInv, RefOK, KeysStay

\* A property is set to an object of a key it may refer to.
LEMMA Referring ==
  ASSUME RegistryType, RegistryInv, ContentInv, NEW o \in Objs, NEW x \in OptObjs,
         content' = [content EXCEPT ![o].ref = x],
         x # None => primaryKey[o] \in Keys \ Targets /\ primaryKey[x] \in Targets,
         UNCHANGED <<instance, keyOf, version, listening, primaryKey, stored>>
  PROVE  /\ RegistryType' /\ RegistryInv' /\ ContentInv'
         /\ KeysStay(Objs, primaryKey, primaryKey')
<1>1. RegistryType'
  BY DEF RegistryType
<1>2. ASSUME NEW y \in Objs
      PROVE  (ValueOK(y, content[y], primaryKey, stored))' /\ (RefOK(y))'
  <2>1. content'[y].val = content[y].val /\ content'[y].edited = content[y].edited
    BY DEF RegistryType
  <2>2. content'[y].ref = IF y = o THEN x ELSE content[y].ref
    BY DEF RegistryType
  <2> QED
    BY <2>1, <2>2 DEF ContentInv, ValueOK, RefOK
<1> QED
  BY <1>1, <1>2 DEF ContentInv, RegistryInv, KeysStay

-----------------------------------------------------------------------------
(* The queues of a task.                                                   *)

LEMMA ItemsTail ==
  ASSUME NEW pk, NEW s \in Seq(Item), s # <<>>, \A i \in DOMAIN s : ItemOK(s[i], pk)
  PROVE  /\ Tail(s) \in Seq(Item) /\ \A i \in DOMAIN Tail(s) : ItemOK(Tail(s)[i], pk)
         /\ Head(s) \in Item /\ ItemOK(Head(s), pk)
<1>1. Len(s) \in Nat /\ Len(s) > 0 /\ DOMAIN s = 1 .. Len(s)
  BY EmptySeq, LenProperties
<1>2. Head(s) = s[1] /\ 1 \in DOMAIN s /\ Head(s) \in Item
  BY <1>1
<1>3. Tail(s) \in Seq(Item) /\ DOMAIN Tail(s) = 1 .. Len(s) - 1
  BY <1>1
<1>4. \A i \in 1 .. Len(s) - 1 : Tail(s)[i] = s[i + 1] /\ i + 1 \in DOMAIN s
  BY <1>1
<1> QED
  BY <1>2, <1>3, <1>4

LEMMA ItemsAppend ==
  ASSUME NEW pk, NEW s \in Seq(Item), \A i \in DOMAIN s : ItemOK(s[i], pk),
         NEW x \in Item, ItemOK(x, pk)
  PROVE  /\ Append(s, x) \in Seq(Item)
         /\ \A i \in DOMAIN Append(s, x) : ItemOK(Append(s, x)[i], pk)
<1>1. Len(s) \in Nat /\ DOMAIN s = 1 .. Len(s)
  BY LenProperties
<1>2. Append(s, x) \in Seq(Item) /\ DOMAIN Append(s, x) = 1 .. Len(s) + 1
  BY AppendProperties
<1>3. \A i \in 1 .. Len(s) : Append(s, x)[i] = s[i]
  BY AppendProperties
<1>4. Append(s, x)[Len(s) + 1] = x
  BY AppendProperties
<1>5. ASSUME NEW i \in 1 .. Len(s) + 1 PROVE ItemOK(Append(s, x)[i], pk)
  <2>1. i \in 1 .. Len(s) \/ i = Len(s) + 1
    BY <1>1
  <2> QED
    BY <1>1, <1>3, <1>4, <2>1
<1> QED
  BY <1>2, <1>5

LEMMA BatchesHead ==
  ASSUME NEW st, NEW s \in Seq(Batch), s # <<>>, \A i \in DOMAIN s : BatchOK(s[i], st)
  PROVE  /\ Head(s) = s[1] /\ 1 \in DOMAIN s /\ BatchOK(Head(s), st)
         /\ Tail(s) \in Seq(Batch) /\ \A i \in DOMAIN Tail(s) : BatchOK(Tail(s)[i], st)
<1>1. Len(s) \in Nat /\ Len(s) > 0 /\ DOMAIN s = 1 .. Len(s)
  BY EmptySeq, LenProperties
<1>2. Head(s) = s[1] /\ 1 \in DOMAIN s
  BY <1>1
<1>3. Tail(s) \in Seq(Batch) /\ DOMAIN Tail(s) = 1 .. Len(s) - 1
  BY <1>1
<1>4. \A i \in 1 .. Len(s) - 1 : Tail(s)[i] = s[i + 1] /\ i + 1 \in DOMAIN s
  BY <1>1
<1> QED
  BY <1>2, <1>3, <1>4

LEMMA FiringAppend ==
  ASSUME NEW s \in Seq(Fired), NEW o \in Objs, NEW b \in BOOLEAN
  PROVE  Append(s, [object |-> o, deleted |-> b]) \in Seq(Fired)
<1>1. [object |-> o, deleted |-> b] \in Fired
  BY DEF Fired
<1> QED
  BY <1>1, AppendProperties

LEMMA IdleOK ==
  ASSUME NEW pk, NEW st
  PROVE  TaskOK(IdleTask, pk, st)
<1> USE ConstantsAssumption
<1>1. IdleTask \in Task
  BY DEF IdleTask, Task, OptObjs
<1>2. UseOK(IdleTask, pk)
  BY DEF IdleTask, UseOK
<1>3. StageOK(IdleTask) /\ SentOK(IdleTask, st)
  BY DEF IdleTask, StageOK, SentOK, SavesOK
<1> QED
  BY <1>1, <1>2, <1>3 DEF TaskOK

-----------------------------------------------------------------------------
(* The steps of a task.                                                    *)

LEMMA DeliverStep ==
  ASSUME IInv, NEW t \in Tasks, NEW m \in inflight, Deliver(t, m)
  PROVE  IInv'
<1> DEFINE w == [IdleTask EXCEPT !.pc = "merge", !.batches = <<m>>]
<1>1. BatchOK(m, stored) /\ m \in Batch
  BY DEF IInv, MessageInv, BatchOK
<1>2. TaskOK(IdleTask, primaryKey, stored)
  BY IdleOK
<1>3. w \in Task
  <2>1. <<m>> \in Seq(Batch)
    BY <1>1
  <2>2. IdleTask \in Task
    BY <1>2 DEF TaskOK
  <2> QED
    BY <2>1, <2>2 DEF Task, Steps
<1>4. UseOK(w, primaryKey)
  BY <1>2 DEF TaskOK, UseOK, IdleTask
<1>5. StageOK(w)
  BY DEF StageOK, IdleTask
<1>6. SentOK(w, stored)
  BY <1>1 DEF SentOK, SavesOK, IdleTask
<1>7. TaskOK(w, primaryKey, stored)
  BY <1>3, <1>4, <1>5, <1>6 DEF TaskOK
<1> QED
  BY <1>7, OwnStep DEF Deliver, Update

\* A task at work: its parts, one by one.
LEMMA TaskParts ==
  ASSUME IInv, NEW t \in Tasks
  PROVE  /\ task[t] \in Task
         /\ task[t].batches \in Seq(Batch) /\ task[t].resolve \in Seq(Item)
         /\ task[t].firing \in Seq(Fired) /\ task[t].deletes \subseteq Keys
         /\ \A i \in DOMAIN task[t].batches : BatchOK(task[t].batches[i], stored)
         /\ \A i \in DOMAIN task[t].resolve : ItemOK(task[t].resolve[i], primaryKey)
         /\ TaskOK(task[t], primaryKey, stored)
BY DEF IInv, TaskInv, TaskOK, Task, SentOK, UseOK

\* A delta of the batch at hand is taken out of it.
LEMMA BatchWithout ==
  ASSUME NEW st, NEW s \in Seq(Batch), s # <<>>, \A i \in DOMAIN s : BatchOK(s[i], st),
         NEW d \in Head(s).deltas
  PROVE  LET r == [s EXCEPT ![1].deltas = @ \ {d}]
         IN  /\ r \in Seq(Batch) /\ r # <<>> /\ \A i \in DOMAIN r : BatchOK(r[i], st)
             /\ DeltaOK(d, st)
<1> DEFINE b == [s[1] EXCEPT !.deltas = @ \ {d}]
           r == [s EXCEPT ![1].deltas = @ \ {d}]
<1>1. Head(s) = s[1] /\ 1 \in DOMAIN s /\ BatchOK(s[1], st) /\ s[1] \in Batch
  BY BatchesHead DEF BatchOK
<1>2. b \in Batch /\ b.deltas = s[1].deltas \ {d}
  BY <1>1 DEF Batch
<1>3. r = [s EXCEPT ![1] = b]
  OBVIOUS
<1>4. Len(s) \in Nat /\ Len(s) > 0 /\ DOMAIN s = 1 .. Len(s)
  BY EmptySeq, LenProperties
<1>5. r \in Seq(Batch) /\ Len(r) = Len(s)
  BY <1>1, <1>2, <1>3, ExceptSeq, <1>4
<1>6. \A i \in DOMAIN r : r[i] = IF i = 1 THEN b ELSE s[i]
  BY <1>3, <1>4, <1>5
<1>7. BatchOK(b, st)
  BY <1>1, <1>2 DEF BatchOK
<1>8. \A i \in DOMAIN r : BatchOK(r[i], st)
  BY <1>6, <1>7, <1>3
<1>9. r # <<>>
  BY <1>4, <1>5
<1>10. DeltaOK(d, st)
  BY <1>1 DEF BatchOK
<1> HIDE DEF r, b
<1> QED
  BY <1>5, <1>8, <1>9, <1>10 DEF r

LEMMA MergedOK ==
  ASSUME IInv, NEW t \in Tasks, At(t, "merge"), NEW d \in Current(t).deltas,
         NEW resolve \in Seq(Item), NEW firing \in Seq(Fired), NEW deletes \in SUBSET Keys,
         NEW pk, KeysStay(Objs, primaryKey, pk),
         \A i \in DOMAIN resolve : ItemOK(resolve[i], pk),
         NEW w, w = [task[t] EXCEPT !.batches[1].deltas = @ \ {d}, !.resolve = resolve,
                                    !.firing = firing, !.deletes = deletes]
  PROVE  TaskOK(w, pk, stored) /\ DeltaOK(d, stored)
<1> DEFINE s == task[t].batches
           r == [s EXCEPT ![1].deltas = @ \ {d}]
<1>1. TaskOK(task[t], primaryKey, stored) /\ task[t] \in Task /\ s \in Seq(Batch)
  BY TaskParts
<1>2. s # <<>> /\ task[t].pc = "merge" /\ d \in Head(s).deltas
  BY <1>1 DEF TaskOK, StageOK, At, Current
<1>3. \A i \in DOMAIN s : BatchOK(s[i], stored)
  BY TaskParts
<1>4. r \in Seq(Batch) /\ r # <<>> /\ DeltaOK(d, stored)
  BY <1>1, <1>2, <1>3, BatchWithout
<1>5. \A i \in DOMAIN r : BatchOK(r[i], stored)
  BY <1>1, <1>2, <1>3, BatchWithout
<1>6. w = [task[t] EXCEPT !.batches = r, !.resolve = resolve, !.firing = firing,
                          !.deletes = deletes]
  OBVIOUS
<1> HIDE DEF r
<1>7. TaskOK(task[t], pk, stored)
  <2>1. KeysStay(UsedBy(task[t]), primaryKey, pk)
    BY DEF KeysStay
  <2>2. Grows(stored, stored)
    BY GrowsSame DEF IInv, WorkerInv, Stored
  <2> QED
    BY <1>1, <2>1, <2>2, TaskKept
<1>8. w \in Task
  BY <1>1, <1>4, <1>6 DEF Task
<1>9. UseOK(w, pk)
  BY <1>1, <1>6, <1>7 DEF TaskOK, UseOK, Task
<1>10. StageOK(w)
  BY <1>1, <1>2, <1>4, <1>6 DEF StageOK, Task
<1>11. SentOK(w, stored)
  BY <1>1, <1>5, <1>6, <1>7 DEF TaskOK, SentOK, Task
<1> QED
  BY <1>4, <1>8, <1>9, <1>10, <1>11 DEF TaskOK

LEMMA MergeDeletedStep ==
  ASSUME IInv, NEW t \in Tasks, At(t, "merge"), NEW d \in Current(t).deltas,
         MergeDeleted(t, d), UNCHANGED <<workerVars, inflight, held, running>>
  PROVE  IInv'
<1> DEFINE o == instance[d.key]
           firing == IF o = None THEN task[t].firing
                     ELSE Append(task[t].firing, [object |-> o, deleted |-> TRUE])
           deletes == task[t].deletes \cup {d.key}
           w == [task[t] EXCEPT !.batches[1].deltas = @ \ {d}, !.resolve = task[t].resolve,
                                !.firing = firing, !.deletes = deletes]
<1>1. \A pk \in {primaryKey} : KeysStay(Objs, primaryKey, pk)
  BY DEF KeysStay
<1>2. task[t].resolve \in Seq(Item) /\ task[t].firing \in Seq(Fired) /\ task[t].deletes \subseteq Keys
  BY TaskParts
<1>3. \A i \in DOMAIN task[t].resolve : ItemOK(task[t].resolve[i], primaryKey)
  BY TaskParts
<1>4. d.key \in Keys
  <2>1. DeltaOK(d, stored)
    BY <1>1, <1>2, <1>3, MergedOK
  <2> QED
    BY <2>1 DEF DeltaOK, DataDelta
<1>5. firing \in Seq(Fired)
  BY <1>2, <1>4, FiringAppend DEF IInv, RegistryType, OptObjs
<1>6. deletes \in SUBSET Keys
  BY <1>2, <1>4
<1>7. task' = [task EXCEPT ![t] = w]
  BY DEF MergeDeleted, Merged, Update
<1> HIDE DEF firing, deletes
<1>8. TaskOK(w, primaryKey, stored)
  BY <1>1, <1>2, <1>3, <1>5, <1>6, MergedOK
<1>9. UNCHANGED <<workerVars, registryVars, held>> /\ inflight' \subseteq inflight
      /\ running' \in Tasks \cup {None}
  BY DEF MergeDeleted, IInv, TaskInv
<1> HIDE DEF w
<1> QED
  BY <1>7, <1>8, <1>9, OwnStep

LEMMA MergePropertiesStep ==
  ASSUME IInv, NEW t \in Tasks, At(t, "merge"), NEW d \in Current(t).deltas,
         MergeProperties(t, d), UNCHANGED <<workerVars, inflight, held, running>>
  PROVE  IInv'
<1> USE ConstantsAssumption
<1>1. PICK o \in Objs :
         /\ InstanceFor(d.key, o)
         /\ SetInstance(d.key, o)
         /\ content' = [content EXCEPT ![o] = MergedContent(o, d)]
         /\ version' = [version EXCEPT ![o] = d.ver]
         /\ Merged(t, d,
                   IF d.setsRef /\ d.ref # None
                     THEN Append(task[t].resolve, [key |-> d.ref, into |-> o])
                     ELSE task[t].resolve,
                   Append(task[t].firing, [object |-> o, deleted |-> FALSE]),
                   task[t].deletes)
  BY DEF MergeProperties
<1> DEFINE k == d.key
           c == MergedContent(o, d)
           resolve == IF d.setsRef /\ d.ref # None
                        THEN Append(task[t].resolve, [key |-> d.ref, into |-> o])
                        ELSE task[t].resolve
           firing == Append(task[t].firing, [object |-> o, deleted |-> FALSE])
           w == [task[t] EXCEPT !.batches[1].deltas = @ \ {d}, !.resolve = resolve,
                                !.firing = firing, !.deletes = task[t].deletes]
<1>2. /\ task[t].resolve \in Seq(Item) /\ task[t].firing \in Seq(Fired)
      /\ task[t].deletes \subseteq Keys
      /\ \A i \in DOMAIN task[t].resolve : ItemOK(task[t].resolve[i], primaryKey)
  BY TaskParts
<1>3. DeltaOK(d, stored)
  <2>1. KeysStay(Objs, primaryKey, primaryKey)
    BY DEF KeysStay
  <2> QED
    BY <1>2, <2>1, MergedOK
<1>4. d \in DataDelta /\ k \in Keys /\ d.ver \in Nat /\ d.val \in Nat /\ d.ref \in Refs
  BY <1>3 DEF DeltaOK, DataDelta
<1>5. ~ d.deleted /\ (Adopts(d) \/ Follows(d)) /\ listening' = listening /\ stored' = stored
  BY DEF MergeProperties, workerVars
<1>6. content[o] \in [val : Nat, edited : BOOLEAN, ref : OptObjs] /\ version[o] \in Nat
  BY DEF IInv, RegistryType
<1>7. c \in [val : Nat, edited : BOOLEAN, ref : OptObjs]
      /\ c.ref \in {None, content[o].ref}
      /\ c.val = IF d.val = 0 THEN content[o].val ELSE d.val
  BY <1>4, <1>6 DEF MergedContent, OptObjs
<1>8. d.ver > 0 /\ (d.val = 0 => content[o].val = ValBefore(k, d.ver, stored))
  <2>1. ValueOK(o, content[o], primaryKey, stored)
    BY DEF IInv, ContentInv
  <2>2. CASE Adopts(d)
    <3>1. d.ver = 1
      BY <2>2 DEF Adopts
    <3>2. CASE Registered(k)
      <4>1. instance[k] = o /\ version[o] = 0 /\ keyOf[o] = k
        BY <1>1, <1>4, <2>2, <3>2 DEF Adopts, InstanceFor, IInv, RegistryInv
      <4>2. content[o].val = 0
        BY <1>4, <2>1, <4>1 DEF ValueOK
      <4> QED
        BY <3>1, <4>2 DEF ValBefore
    <3>3. CASE ~ Registered(k)
      <4>1. primaryKey[o] = None
        BY <1>1, <3>3 DEF InstanceFor, Unused
      <4>2. content[o].val = 0
        BY <2>1, <4>1 DEF ValueOK
      <4> QED
        BY <3>1, <4>2 DEF ValBefore
    <3> QED
      BY <3>2, <3>3
  <2>3. CASE Follows(d)
    <3>1. Registered(k) /\ instance[k] = o /\ version[o] > 0 /\ d.ver = version[o] + 1
      BY <1>1, <2>3 DEF Follows, InstanceFor
    <3>2. primaryKey[o] = k
      BY <1>4, <3>1 DEF IInv, RegistryInv
    <3>3. content[o].val = stored[k][version[o]].val
      BY <2>1, <3>1, <3>2 DEF ValueOK, Matches
    <3>4. d.ver # 1 /\ d.ver - 1 = version[o] /\ d.ver > 0
      BY <1>6, <3>1
    <3> QED
      BY <1>4, <3>3, <3>4 DEF ValBefore
  <2> QED
    BY <1>5, <2>2, <2>3
<1>9. Matches(k, d.ver, c.val, stored)
  BY <1>3, <1>5, <1>7, <1>8 DEF DeltaOK
<1>10. /\ RegistryType' /\ RegistryInv' /\ ContentInv'
       /\ KeysStay(Objs, primaryKey, primaryKey') /\ primaryKey'[o] = k
  <2> HIDE DEF k, c
  <2>1. SetInstance(k, o) /\ InstanceFor(k, o) /\ content' = [content EXCEPT ![o] = c]
    BY <1>1 DEF k, c
  <2>2. RegistryType /\ RegistryInv /\ ContentInv /\ WorkerInv
    BY DEF IInv
  <2>3. d.ver = 0 => c.val = 0 /\ c.edited
    BY <1>8
  <2>4. UNCHANGED <<listening, stored>>
    BY <1>5
  <2>5. version' = [version EXCEPT ![o] = d.ver]
    BY <1>1
  <2> QED
    BY <1>4, <1>7, <1>9, <2>1, <2>2, <2>3, <2>4, <2>5, Registering
<1>11. resolve \in Seq(Item) /\ \A i \in DOMAIN resolve : ItemOK(resolve[i], primaryKey')
  <2>1. \A i \in DOMAIN task[t].resolve : ItemOK(task[t].resolve[i], primaryKey')
    BY <1>2, <1>10 DEF ItemOK, KeysStay
  <2>2. ASSUME d.ref # None
        PROVE  [key |-> d.ref, into |-> o] \in Item
               /\ ItemOK([key |-> d.ref, into |-> o], primaryKey')
    BY <1>3, <1>4, <1>10, <2>2 DEF Item, ItemOK, DeltaOK, OptObjs, Refs
  <2> QED
    BY <1>2, <2>1, <2>2, ItemsAppend
<1>12. firing \in Seq(Fired)
  BY <1>2, FiringAppend
<1>13. task' = [task EXCEPT ![t] = w]
  BY <1>1 DEF Merged, Update
<1> HIDE DEF resolve, firing
<1>14. TaskOK(w, primaryKey', stored)
  BY <1>2, <1>10, <1>11, <1>12, MergedOK
<1>15. HeldInv'
  BY <1>10 DEF IInv, HeldInv, KeysStay
<1> HIDE DEF w
<1> QED
  BY <1>10, <1>13, <1>14, <1>15, TaskStep DEF IInv, TaskInv

LEMMA RejectDeltaStep ==
  ASSUME IInv, NEW t \in Tasks, At(t, "merge"), NEW d \in Current(t).deltas,
         RejectDelta(t, d), UNCHANGED <<workerVars, inflight, held, running>>
  PROVE  IInv'
<1> USE ConstantsAssumption
<1> DEFINE x == [key |-> d.key, into |-> None]
           resolve == Append(task[t].resolve, x)
           w == [task[t] EXCEPT !.batches[1].deltas = @ \ {d}, !.resolve = resolve,
                                !.firing = task[t].firing, !.deletes = task[t].deletes]
<1>1. /\ task[t].resolve \in Seq(Item) /\ task[t].firing \in Seq(Fired)
      /\ task[t].deletes \subseteq Keys
      /\ \A i \in DOMAIN task[t].resolve : ItemOK(task[t].resolve[i], primaryKey)
  BY TaskParts
<1>2. KeysStay(Objs, primaryKey, primaryKey)
  BY DEF KeysStay
<1>3. d.key \in Keys
  <2>1. DeltaOK(d, stored)
    BY <1>1, <1>2, MergedOK
  <2> QED
    BY <2>1 DEF DeltaOK, DataDelta
<1>4. x \in Item /\ ItemOK(x, primaryKey)
  BY <1>3 DEF Item, ItemOK, OptObjs
<1>5. resolve \in Seq(Item) /\ \A i \in DOMAIN resolve : ItemOK(resolve[i], primaryKey)
  BY <1>1, <1>4, ItemsAppend
<1>6. task' = [task EXCEPT ![t] = w]
  BY DEF RejectDelta, Merged, Update
<1> HIDE DEF resolve
<1>7. TaskOK(w, primaryKey, stored)
  BY <1>1, <1>2, <1>5, MergedOK
<1>8. Remove({d.key}) /\ UNCHANGED <<primaryKey, content, stored>>
  BY DEF RejectDelta, workerVars
<1>9. /\ RegistryType' /\ RegistryInv' /\ ContentInv'
      /\ KeysStay(Objs, primaryKey, primaryKey')
  <2>1. {d.key} \in SUBSET Keys
    BY <1>3
  <2> QED
    BY <1>8, <2>1, Removing DEF IInv
<1>10. HeldInv'
  BY <1>8 DEF IInv, HeldInv
<1> HIDE DEF w
<1> QED
  BY <1>6, <1>7, <1>8, <1>9, <1>10, TaskStep DEF IInv, TaskInv

\* The thread goes on, or is given up; what is checked stays.
LEMMA GotoStep ==
  ASSUME IInv, NEW t \in Tasks, NEW p \in Waits \cup Steps, NEW firing \in Seq(Fired),
         NEW w, w = [task[t] EXCEPT !.pc = p, !.firing = firing],
         p \notin {"saving", "calling", "waiting"}, p = "merge" => w.batches # <<>>,
         UNCHANGED <<workerVars, registryVars, held>>, inflight' \subseteq inflight,
         task' = [task EXCEPT ![t] = w], running' \in Tasks \cup {None}
  PROVE  IInv'
<1>1. TaskOK(task[t], primaryKey, stored) /\ task[t] \in Task
  BY TaskParts
<1>2. w \in Task
  BY <1>1 DEF Task
<1>3. UseOK(w, primaryKey)
  BY <1>1 DEF TaskOK, UseOK, Task
<1>4. StageOK(w)
  BY <1>1 DEF StageOK, Task
<1>5. SentOK(w, stored)
  BY <1>1 DEF TaskOK, SentOK, Task
<1>6. TaskOK(w, primaryKey, stored)
  BY <1>2, <1>3, <1>4, <1>5 DEF TaskOK
<1> QED
  BY <1>6, OwnStep

LEMMA FinishStep ==
  ASSUME IInv, NEW t \in Tasks, Finish(t),
         UNCHANGED <<workerVars, registryVars, held>>, inflight' \subseteq inflight
  PROVE  IInv'
<1>1. TaskOK(IdleTask, primaryKey, stored)
  BY IdleOK
<1> QED
  BY <1>1, OwnStep DEF Finish, Update

LEMMA MergeDoneStep ==
  ASSUME IInv, NEW t \in Tasks, MergeDone(t)
  PROVE  IInv'
<1> USE ConstantsAssumption
<1> DEFINE r == Current(t).returns
           x == [key |-> r, into |-> Program]
           resolve == IF r = None THEN task[t].resolve ELSE Append(task[t].resolve, x)
           w == [task[t] EXCEPT !.pc = "resolve", !.resolve = resolve]
<1>1. /\ TaskOK(task[t], primaryKey, stored) /\ task[t] \in Task
      /\ task[t].resolve \in Seq(Item) /\ task[t].batches \in Seq(Batch)
      /\ \A i \in DOMAIN task[t].resolve : ItemOK(task[t].resolve[i], primaryKey)
      /\ \A i \in DOMAIN task[t].batches : BatchOK(task[t].batches[i], stored)
  BY TaskParts
<1>2. r \in Keys \cup {None}
  <2>1. task[t].batches # <<>>
    BY <1>1 DEF TaskOK, StageOK, MergeDone, At
  <2>2. BatchOK(Head(task[t].batches), stored)
    BY <1>1, <2>1, BatchesHead
  <2> QED
    BY <2>2 DEF BatchOK, Batch, Current
<1>3. resolve \in Seq(Item) /\ \A i \in DOMAIN resolve : ItemOK(resolve[i], primaryKey)
  <2>1. r # None => x \in Item /\ ItemOK(x, primaryKey)
    BY <1>2 DEF Item, ItemOK, OptObjs
  <2> QED
    BY <1>1, <2>1, ItemsAppend
<1>4. task' = [task EXCEPT ![t] = w]
  BY DEF MergeDone, Update
<1>5. running' \in Tasks \cup {None} /\ UNCHANGED <<workerVars, inflight, registryVars, held>>
  BY DEF MergeDone, IInv, TaskInv
<1> HIDE DEF resolve
<1>6. w \in Task
  BY <1>1, <1>3 DEF Task, Steps
<1>7. UseOK(w, primaryKey)
  BY <1>1, <1>3 DEF TaskOK, UseOK, Task
<1>8. StageOK(w)
  BY <1>1 DEF StageOK, Task
<1>9. SentOK(w, stored)
  BY <1>1 DEF TaskOK, SentOK, Task
<1>10. TaskOK(w, primaryKey, stored)
  BY <1>6, <1>7, <1>8, <1>9 DEF TaskOK
<1> HIDE DEF w
<1> QED
  BY <1>4, <1>5, <1>10, OwnStep

\* What a task resolved becomes the value of a property, or its result.
LEMMA HandStep ==
  ASSUME IInv, NEW t \in Tasks, NEW into \in OptObjs \cup {Program}, NEW o \in OptObjs,
         NEW w, TaskOK(w, primaryKey, stored), Hand(t, into, o, w),
         o # None => primaryKey[o] # None,
         o # None /\ into \in Objs =>
           primaryKey[into] \in Keys \ Targets /\ primaryKey[o] \in Targets,
         UNCHANGED <<workerVars, inflight, instance, keyOf, version, listening,
                     primaryKey, held, running>>
  PROVE  IInv'
<1> USE ConstantsAssumption
<1> DEFINE v == IF into = Program THEN [w EXCEPT !.result = o] ELSE w
<1>1. task' = [task EXCEPT ![t] = v]
  BY DEF Hand, Update
<1>2. TaskOK(v, primaryKey, stored)
  <2> DEFINE z == [w EXCEPT !.result = o]
  <2>1. w \in Task /\ UseOK(w, primaryKey) /\ StageOK(w) /\ SentOK(w, stored)
    BY DEF TaskOK
  <2>2. z \in Task
    BY <2>1 DEF Task
  <2>3. UseOK(z, primaryKey)
    BY <2>1 DEF UseOK, Task
  <2>4. StageOK(z)
    BY <2>1 DEF StageOK, Task
  <2>5. SentOK(z, stored)
    BY <2>1 DEF SentOK, Task
  <2> QED
    BY <2>2, <2>3, <2>4, <2>5 DEF TaskOK
<1>3. stored' = stored /\ HeldInv'
  BY DEF workerVars, IInv, HeldInv
<1>4. /\ RegistryType' /\ RegistryInv' /\ ContentInv'
      /\ KeysStay(Objs, primaryKey, primaryKey')
  <2>1. CASE into \in Objs
    <3>1. content' = [content EXCEPT ![into].ref = o]
      BY <2>1 DEF Hand
    <3>2. RegistryType /\ RegistryInv /\ ContentInv
      BY DEF IInv
    <3>3. UNCHANGED <<instance, keyOf, version, listening, primaryKey, stored>>
      BY <1>3
    <3>4. o # None => primaryKey[into] \in Keys \ Targets /\ primaryKey[o] \in Targets
      BY <2>1
    <3> QED
      BY <2>1, <3>1, <3>2, <3>3, <3>4, Referring
  <2>2. CASE into \notin Objs
    <3>1. content' = content
      BY <2>2 DEF Hand
    <3>2. UNCHANGED registryVars
      BY <3>1 DEF registryVars
    <3> QED
      BY <1>3, <3>2, RegistrySame
  <2> QED
    BY <2>1, <2>2
<1>5. running' \in Tasks \cup {None} /\ inflight' \subseteq inflight
  BY DEF IInv, TaskInv
<1>6. primaryKey' = primaryKey
  OBVIOUS
<1> HIDE DEF v
<1> QED
  BY <1>1, <1>2, <1>3, <1>4, <1>5, <1>6, TaskStep

\* The queue without its first key.
LEMMA ResolveRest ==
  ASSUME IInv, NEW t \in Tasks, task[t].pc = "resolve", task[t].resolve # <<>>
  PROVE  LET x == Head(task[t].resolve)
         IN  /\ TaskOK([task[t] EXCEPT !.resolve = Tail(@)], primaryKey, stored)
             /\ x \in Item /\ ItemOK(x, primaryKey)
<1> DEFINE w == [task[t] EXCEPT !.resolve = Tail(@)]
<1>1. /\ TaskOK(task[t], primaryKey, stored) /\ task[t] \in Task
      /\ task[t].resolve \in Seq(Item)
      /\ \A i \in DOMAIN task[t].resolve : ItemOK(task[t].resolve[i], primaryKey)
  BY TaskParts
<1>2. /\ Tail(task[t].resolve) \in Seq(Item)
      /\ \A i \in DOMAIN Tail(task[t].resolve) : ItemOK(Tail(task[t].resolve)[i], primaryKey)
      /\ Head(task[t].resolve) \in Item /\ ItemOK(Head(task[t].resolve), primaryKey)
  BY <1>1, ItemsTail
<1>3. w \in Task
  BY <1>1, <1>2 DEF Task
<1>4. UseOK(w, primaryKey)
  BY <1>1, <1>2 DEF TaskOK, UseOK, Task
<1>5. StageOK(w)
  BY <1>1 DEF StageOK, Task
<1>6. SentOK(w, stored)
  BY <1>1 DEF TaskOK, SentOK, Task
<1> QED
  BY <1>2, <1>3, <1>4, <1>5, <1>6 DEF TaskOK

LEMMA ResolveLocallyStep ==
  ASSUME IInv, NEW t \in Tasks, ResolveLocally(t)
  PROVE  IInv'
<1> USE ConstantsAssumption
<1> DEFINE x == Head(task[t].resolve)
           o == instance[x.key]
           w == [task[t] EXCEPT !.resolve = Tail(@)]
<1>1. TaskOK(w, primaryKey, stored) /\ x \in Item /\ ItemOK(x, primaryKey)
  BY ResolveRest DEF ResolveLocally, At
<1>2. x.key \in Keys /\ x.into \in OptObjs \cup {Program}
  BY <1>1 DEF Item
<1>3. o \in Objs /\ primaryKey[o] = x.key
  <2>1. o \in OptObjs /\ o # None
    BY <1>2 DEF IInv, RegistryType, ResolveLocally, Registered
  <2> QED
    BY <1>2, <2>1 DEF IInv, RegistryInv, OptObjs
<1>4. Hand(t, x.into, o, w)
  BY DEF ResolveLocally
<1>5. x.into \in Objs => primaryKey[x.into] \in Keys \ Targets /\ primaryKey[o] \in Targets
  BY <1>1, <1>3 DEF ItemOK
<1>6. UNCHANGED <<workerVars, inflight, instance, keyOf, version, listening,
                  primaryKey, held, running>>
  BY DEF ResolveLocally
<1>7. o \in OptObjs /\ primaryKey[o] # None
  BY <1>2, <1>3 DEF OptObjs
<1> HIDE DEF x, o, w
<1> QED
  BY <1>1, <1>2, <1>4, <1>5, <1>6, <1>7, HandStep

\* A request for an object, by a task whose parts are in order.
LEMMA RequestStep ==
  ASSUME IInv, NEW t \in Tasks, NEW w, TaskOK(w, primaryKey, stored),
         NEW k \in Keys, NEW into \in OptObjs \cup {Program},
         into \in Objs => k \in Targets /\ primaryKey[into] \in Keys \ Targets,
         Request(t, w, k, into), UNCHANGED <<workerVars, inflight, registryVars, held>>
  PROVE  IInv'
<1> USE ConstantsAssumption
<1> DEFINE v == [w EXCEPT !.pc = "waiting", !.key = k, !.into = into,
                          !.target = None, !.answered = FALSE]
<1>1. w \in Task /\ UseOK(w, primaryKey) /\ SentOK(w, stored)
  BY DEF TaskOK
<1>2. v \in Task
  BY <1>1 DEF Task, Waits, OptObjs
<1>3. UseOK(v, primaryKey)
  BY <1>1 DEF UseOK, Task
<1>4. StageOK(v)
  BY <1>1 DEF StageOK, Task
<1>5. SentOK(v, stored)
  BY <1>1 DEF SentOK, Task
<1>6. TaskOK(v, primaryKey, stored)
  BY <1>2, <1>3, <1>4, <1>5 DEF TaskOK
<1>7. task' = [task EXCEPT ![t] = v] /\ running' = None
  BY DEF Request, Update
<1> HIDE DEF v
<1> QED
  BY <1>6, <1>7, OwnStep

LEMMA ResolveRemotelyStep ==
  ASSUME IInv, NEW t \in Tasks, ResolveRemotely(t)
  PROVE  IInv'
<1> DEFINE x == Head(task[t].resolve)
           w == [task[t] EXCEPT !.resolve = Tail(@)]
<1>1. TaskOK(w, primaryKey, stored) /\ x \in Item /\ ItemOK(x, primaryKey)
  BY ResolveRest DEF ResolveRemotely, At
<1>2. x.key \in Keys /\ x.into \in OptObjs \cup {Program}
  BY <1>1 DEF Item
<1>3. x.into \in Objs => x.key \in Targets /\ primaryKey[x.into] \in Keys \ Targets
  BY <1>1 DEF ItemOK
<1>4. Request(t, w, x.key, x.into) /\ UNCHANGED <<workerVars, inflight, registryVars, held>>
  BY DEF ResolveRemotely
<1> HIDE DEF x, w
<1> QED
  BY <1>1, <1>2, <1>3, <1>4, RequestStep

LEMMA ResolveDoneStep ==
  ASSUME IInv, NEW t \in Tasks, ResolveDone(t)
  PROVE  IInv'
<1> DEFINE p == IF task[t].batches # <<>> /\ Current(t).event THEN "message" ELSE "fire"
           w == [task[t] EXCEPT !.pc = p, !.firing = task[t].firing]
<1>1. task[t] \in Task /\ task[t].firing \in Seq(Fired)
  BY TaskParts
<1>2. task' = [task EXCEPT ![t] = w]
  BY <1>1 DEF ResolveDone, Goto, Task, IInv, TaskInv
<1>3. p \in Waits \cup Steps /\ p \notin {"saving", "calling", "waiting", "merge"}
  BY DEF Waits, Steps
<1>4. running' \in Tasks \cup {None} /\ UNCHANGED <<workerVars, inflight, registryVars, held>>
  BY DEF ResolveDone, IInv, TaskInv
<1> HIDE DEF p
<1> QED
  BY <1>1, <1>2, <1>3, <1>4, GotoStep

\* What the worker stored last of a key.
LEMMA LastFacts ==
  ASSUME WorkerInv, NEW k \in Keys
  PROVE  /\ Latest(k) \in Nat /\ Latest(k) = Len(stored[k])
         /\ OldVal(k) \in Nat /\ OldRef(k) \in Refs
         /\ OldRef(k) # None => k \notin Targets
         /\ stored[k] # <<>> => Latest(k) > 0 /\ Matches(k, Latest(k), OldVal(k), stored)
         /\ stored[k] = <<>> => Latest(k) = 0 /\ OldVal(k) = 0 /\ OldRef(k) = None
<1>1. stored[k] \in Seq([val : Nat, ref : Refs])
  BY DEF WorkerInv
<1>2. CASE stored[k] = <<>>
  BY <1>2 DEF Latest, OldVal, OldRef, Refs
<1>3. CASE stored[k] # <<>>
  <2>1. Len(stored[k]) \in Nat /\ Len(stored[k]) > 0
    BY <1>1, <1>3, EmptySeq, LenProperties
  <2>2. Len(stored[k]) \in 1 .. Len(stored[k])
    BY <2>1
  <2>3. Last(k) \in [val : Nat, ref : Refs] /\ Last(k) = stored[k][Len(stored[k])]
    BY <1>1, <2>2, ElementOfSeq DEF Last
  <2>4. OldVal(k) = Last(k).val /\ OldRef(k) = Last(k).ref
    BY <1>3 DEF OldVal, OldRef
  <2> QED
    BY <1>3, <2>1, <2>2, <2>3, <2>4 DEF Matches, Latest, WorkerInv
<1> QED
  BY <1>2, <1>3

LEMMA RefusedStep ==
  ASSUME IInv, NEW t \in Tasks, Refused(t), ~ task[t].answered,
         task[t].pc \in {"waiting", "saving", "calling"},
         UNCHANGED <<workerVars, inflight, registryVars, held, running>>
  PROVE  IInv'
<1> DEFINE w == [task[t] EXCEPT !.answered = TRUE, !.inbound = {}]
<1>1. TaskOK(task[t], primaryKey, stored) /\ task[t] \in Task
  BY TaskParts
<1>2. w \in Task
  BY <1>1 DEF Task
<1>3. UseOK(w, primaryKey)
  BY <1>1 DEF TaskOK, UseOK, Task
<1>4. StageOK(w)
  BY <1>1 DEF TaskOK, StageOK, Task
<1>5. SentOK(w, stored)
  BY <1>1 DEF TaskOK, SentOK, SavesOK, Task
<1>6. TaskOK(w, primaryKey, stored)
  BY <1>2, <1>3, <1>4, <1>5 DEF TaskOK
<1>7. task' = [task EXCEPT ![t] = w] /\ running' \in Tasks \cup {None}
  BY DEF Refused, Update, IInv, TaskInv
<1> HIDE DEF w
<1> QED
  BY <1>6, <1>7, OwnStep

LEMMA AnswerGetStep ==
  ASSUME IInv, NEW t \in Tasks, AnswerGet(t)
  PROVE  IInv'
<1> DEFINE k == task[t].key
           ref == OldRef(k)
           Proto(x) == [key |-> x, ver |-> Latest(x), val |-> OldVal(x), ref |-> OldRef(x)]
           found == {k} \cup {x \in {ref} \ {None} : stored[x] # <<>>}
           protos == {Proto(x) : x \in found}
           w == [task[t] EXCEPT !.protos = protos, !.answered = TRUE, !.ok = TRUE]
<1>1. CASE Exists(k) /\ ref \notin deleted
  <2>1. task[t].pc = "waiting" /\ task' = [task EXCEPT ![t] = w]
    BY <1>1 DEF AnswerGet, Answered, Update
  <2>2. TaskOK(task[t], primaryKey, stored) /\ task[t] \in Task
    BY TaskParts
  <2>3. k \in Keys
    BY <2>1, <2>2 DEF TaskOK, StageOK
  <2>4. ASSUME NEW p \in protos PROVE ProtoOK(p, stored)
    <3>1. PICK x \in found : p = Proto(x)
      OBVIOUS
    <3>2. x \in Keys /\ stored[x] # <<>>
      <4>1. ref \in Refs /\ stored[k] # <<>>
        BY <1>1, <2>3, LastFacts DEF Exists, IInv
      <4>2. x = k \/ (x = ref /\ x # None /\ stored[x] # <<>>)
        OBVIOUS
      <4> QED
        BY <2>3, <4>1, <4>2, ConstantsAssumption DEF Refs
    <3>3. /\ Latest(x) \in Nat /\ OldVal(x) \in Nat /\ OldRef(x) \in Refs
          /\ OldRef(x) # None => x \notin Targets
          /\ Matches(x, Latest(x), OldVal(x), stored)
      BY <3>2, LastFacts DEF IInv
    <3> QED
      BY <3>1, <3>2, <3>3 DEF ProtoOK, DataProto
  <2>5. protos \subseteq DataProto
    BY <2>4 DEF ProtoOK
  <2> HIDE DEF protos
  <2>6. w \in Task
    BY <2>2, <2>5 DEF Task
  <2>7. UseOK(w, primaryKey)
    BY <2>2 DEF TaskOK, UseOK, Task
  <2>8. StageOK(w)
    BY <2>1, <2>2, <2>3 DEF StageOK, Task
  <2>9. SentOK(w, stored)
    BY <2>2, <2>4 DEF TaskOK, SentOK, Task
  <2>10. TaskOK(w, primaryKey, stored)
    BY <2>6, <2>7, <2>8, <2>9 DEF TaskOK
  <2>11. running' \in Tasks \cup {None} /\ UNCHANGED <<workerVars, inflight, registryVars, held>>
    BY DEF AnswerGet, IInv, TaskInv
  <2> HIDE DEF w
  <2> QED
    BY <2>1, <2>10, <2>11, OwnStep
<1>2. CASE ~ (Exists(k) /\ ref \notin deleted)
  <2>1. Refused(t)
    BY <1>2 DEF AnswerGet
  <2> QED
    BY <2>1, RefusedStep DEF AnswerGet
<1> QED
  BY <1>1, <1>2

LEMMA ReceiveGetStep ==
  ASSUME IInv, NEW t \in Tasks, ReceiveGet(t)
  PROVE  IInv'
<1> DEFINE w == [task[t] EXCEPT !.pc = "replace", !.firing = task[t].firing]
<1>1. task[t] \in Task /\ task[t].firing \in Seq(Fired)
  BY TaskParts
<1>2. UNCHANGED <<workerVars, inflight, registryVars, held>>
  BY DEF ReceiveGet
<1>3. CASE task[t].ok
  <2>1. task' = [task EXCEPT ![t] = w] /\ running' \in Tasks \cup {None}
    BY <1>1, <1>3 DEF ReceiveGet, Goto, Task, IInv, TaskInv
  <2>2. "replace" \in Waits \cup Steps
    BY DEF Steps
  <2> QED
    BY <1>1, <1>2, <2>1, <2>2, GotoStep
<1>4. CASE ~ task[t].ok
  BY <1>2, <1>4, FinishStep DEF ReceiveGet
<1> QED
  BY <1>3, <1>4

LEMMA ReplaceDataStep ==
  ASSUME IInv, NEW t \in Tasks, ReplaceData(t)
  PROVE  IInv'
<1> USE ConstantsAssumption
<1>1. PICK p \in task[t].protos, o \in Objs :
         /\ InstanceFor(p.key, o)
         /\ SetInstance(p.key, o)
         /\ content' = [content EXCEPT
                          ![o] = [val |-> p.val, edited |-> FALSE, ref |-> None]]
         /\ version' = [version EXCEPT ![o] = p.ver]
         /\ Update(t, [task[t] EXCEPT
                !.protos = @ \ {p},
                !.target = IF p.key = task[t].key THEN o ELSE @,
                !.resolve = IF p.ref = None THEN @
                            ELSE Append(@, [key |-> p.ref, into |-> o]),
                !.firing = IF Registered(p.key)
                             THEN Append(@, [object |-> o, deleted |-> FALSE])
                             ELSE @])
  BY DEF ReplaceData
<1> DEFINE k == p.key
           c == [val |-> p.val, edited |-> FALSE, ref |-> None]
           protos == task[t].protos \ {p}
           target == IF k = task[t].key THEN o ELSE task[t].target
           resolve == IF p.ref = None THEN task[t].resolve
                      ELSE Append(task[t].resolve, [key |-> p.ref, into |-> o])
           firing == IF Registered(k)
                     THEN Append(task[t].firing, [object |-> o, deleted |-> FALSE])
                     ELSE task[t].firing
           w == [task[t] EXCEPT !.protos = protos, !.target = target,
                                !.resolve = resolve, !.firing = firing]
<1>2. /\ TaskOK(task[t], primaryKey, stored) /\ task[t] \in Task
      /\ task[t].resolve \in Seq(Item) /\ task[t].firing \in Seq(Fired)
      /\ \A i \in DOMAIN task[t].resolve : ItemOK(task[t].resolve[i], primaryKey)
  BY TaskParts
<1>3. ProtoOK(p, stored)
  BY <1>2 DEF TaskOK, SentOK
<1>4. k \in Keys /\ p.ver \in Nat /\ p.val \in Nat /\ p.ref \in Refs
      /\ Matches(k, p.ver, p.val, stored) /\ p.ver > 0
  <2>1. p \in DataProto /\ Matches(k, p.ver, p.val, stored)
    BY <1>3 DEF ProtoOK
  <2> QED
    BY <2>1 DEF DataProto, Matches
<1>5. UNCHANGED <<listening, stored>>
  BY DEF ReplaceData, workerVars
<1>6. /\ RegistryType' /\ RegistryInv' /\ ContentInv'
      /\ KeysStay(Objs, primaryKey, primaryKey') /\ primaryKey'[o] = k
  <2>1. /\ SetInstance(k, o) /\ InstanceFor(k, o) /\ content' = [content EXCEPT ![o] = c]
        /\ version' = [version EXCEPT ![o] = p.ver]
    BY <1>1
  <2>2. RegistryType /\ RegistryInv /\ ContentInv /\ WorkerInv
    BY DEF IInv
  <2>3. c \in [val : Nat, edited : BOOLEAN, ref : OptObjs] /\ c.val = p.val
        /\ c.ref \in {None, content[o].ref}
    BY <1>4 DEF OptObjs
  <2>4. p.ver = 0 => c.val = 0 /\ c.edited
    BY <1>4
  <2>5. p.ver > 0 => Matches(k, p.ver, c.val, stored)
    BY <1>4
  <2> HIDE DEF k, c
  <2> QED
    BY <1>4, <1>5, <2>1, <2>2, <2>3, <2>4, <2>5, Registering
<1>7. TaskOK(task[t], primaryKey', stored)
  <2>1. KeysStay(UsedBy(task[t]), primaryKey, primaryKey')
    BY <1>6 DEF KeysStay
  <2>2. Grows(stored, stored)
    BY GrowsSame DEF IInv, WorkerInv, Stored
  <2> QED
    BY <1>2, <2>1, <2>2, TaskKept
<1>8. resolve \in Seq(Item) /\ \A i \in DOMAIN resolve : ItemOK(resolve[i], primaryKey')
  <2>1. \A i \in DOMAIN task[t].resolve : ItemOK(task[t].resolve[i], primaryKey')
    BY <1>2, <1>6 DEF ItemOK, KeysStay
  <2>2. ASSUME p.ref # None
        PROVE  [key |-> p.ref, into |-> o] \in Item
               /\ ItemOK([key |-> p.ref, into |-> o], primaryKey')
    BY <1>3, <1>4, <1>6, <2>2 DEF Item, ItemOK, ProtoOK, OptObjs, Refs
  <2> QED
    BY <1>2, <2>1, <2>2, ItemsAppend
<1>9. firing \in Seq(Fired)
  BY <1>2, FiringAppend
<1>10. target \in OptObjs /\ (target # None => primaryKey'[target] = task[t].key /\ task[t].key # None)
  BY <1>2, <1>4, <1>6, <1>7 DEF TaskOK, UseOK, Task, OptObjs
<1>11. task' = [task EXCEPT ![t] = w]
  BY <1>1 DEF Update
<1>12. protos \subseteq task[t].protos /\ task[t].pc = "replace"
  BY DEF ReplaceData, At
<1> HIDE DEF protos, target, resolve, firing
<1>13. w \in Task
  BY <1>2, <1>8, <1>9, <1>10, <1>12 DEF Task
<1>14. UseOK(w, primaryKey')
  BY <1>2, <1>7, <1>8, <1>10 DEF TaskOK, UseOK, Task
<1>15. StageOK(w)
  BY <1>2, <1>12 DEF StageOK, Task
<1>16. SentOK(w, stored)
  BY <1>2, <1>12 DEF TaskOK, SentOK, Task
<1>17. TaskOK(w, primaryKey', stored)
  BY <1>13, <1>14, <1>15, <1>16 DEF TaskOK
<1>18. HeldInv'
  BY <1>6 DEF IInv, HeldInv, KeysStay, ReplaceData
<1>19. UNCHANGED workerVars /\ inflight' \subseteq inflight /\ running' \in Tasks \cup {None}
  BY DEF ReplaceData, IInv, TaskInv
<1> HIDE DEF w
<1> QED
  BY <1>6, <1>11, <1>17, <1>18, <1>19, TaskStep

LEMMA ReplaceDoneStep ==
  ASSUME IInv, NEW t \in Tasks, ReplaceDone(t)
  PROVE  IInv'
<1> USE ConstantsAssumption
<1> DEFINE w == [task[t] EXCEPT !.pc = "resolve", !.into = None, !.target = None,
                                !.key = None, !.answered = FALSE, !.ok = FALSE]
           into == task[t].into
           o == task[t].target
<1>1. TaskOK(task[t], primaryKey, stored) /\ task[t] \in Task
  BY TaskParts
<1>2. into \in OptObjs \cup {Program} /\ o \in OptObjs
  BY <1>1 DEF Task
<1>3. w \in Task
  BY <1>1 DEF Task, OptObjs, Steps
<1>4. UseOK(w, primaryKey)
  BY <1>1 DEF TaskOK, UseOK, Task
<1>5. StageOK(w)
  BY <1>1 DEF StageOK, Task
<1>6. SentOK(w, stored)
  BY <1>1 DEF TaskOK, SentOK, Task
<1>7. TaskOK(w, primaryKey, stored)
  BY <1>3, <1>4, <1>5, <1>6 DEF TaskOK
<1>8. Hand(t, into, o, w)
  BY DEF ReplaceDone
<1>9. o # None => primaryKey[o] # None
  BY <1>1 DEF TaskOK, UseOK
<1>10. o # None /\ into \in Objs =>
         primaryKey[into] \in Keys \ Targets /\ primaryKey[o] \in Targets
  BY <1>1 DEF TaskOK, UseOK
<1>11. UNCHANGED <<workerVars, inflight, instance, keyOf, version, listening,
                   primaryKey, held, running>>
  BY DEF ReplaceDone
<1> HIDE DEF w, into, o
<1> QED
  BY <1>2, <1>7, <1>8, <1>9, <1>10, <1>11, HandStep

LEMMA ListenerCalledStep ==
  ASSUME IInv, NEW t \in Tasks, NEW firing \in Seq(Fired),
         NEW w, w = [task[t] EXCEPT !.pc = "fire", !.firing = firing],
         ListenerCalled(t, w), UNCHANGED <<workerVars, inflight, registryVars, held>>
  PROVE  IInv'
<1> DEFINE v == [task[t] EXCEPT !.pc = "listener", !.firing = firing]
<1>1. task[t] \in Task
  BY TaskParts
<1>2. [w EXCEPT !.pc = "listener"] = v
  BY <1>1 DEF Task
<1>3. "listener" \in Waits \cup Steps /\ "fire" \in Waits \cup Steps
  BY DEF Waits, Steps
<1>4. CASE Update(t, w) /\ UNCHANGED running
  <2>1. task' = [task EXCEPT ![t] = w] /\ running' \in Tasks \cup {None}
    BY <1>4 DEF Update, IInv, TaskInv
  <2> QED
    BY <1>3, <2>1, GotoStep
<1>5. CASE Update(t, v) /\ running' = None
  <2>1. task' = [task EXCEPT ![t] = v] /\ running' \in Tasks \cup {None}
    BY <1>5 DEF Update
  <2> QED
    BY <1>3, <2>1, GotoStep
<1> HIDE DEF v
<1> QED
  BY <1>2, <1>4, <1>5 DEF ListenerCalled

LEMMA FireMessageStep ==
  ASSUME IInv, NEW t \in Tasks, FireMessage(t)
  PROVE  IInv'
<1> DEFINE w == [task[t] EXCEPT !.pc = "fire", !.firing = task[t].firing]
<1>1. task[t] \in Task /\ task[t].firing \in Seq(Fired)
  BY TaskParts
<1>2. w = [task[t] EXCEPT !.pc = "fire"]
  BY <1>1 DEF Task
<1> HIDE DEF w
<1>3. ListenerCalled(t, w) /\ UNCHANGED <<workerVars, inflight, registryVars, held>>
  BY <1>2 DEF FireMessage
<1> QED
  BY <1>1, <1>3, ListenerCalledStep DEF w

LEMMA FireUpdatedStep ==
  ASSUME IInv, NEW t \in Tasks, FireUpdated(t)
  PROVE  IInv'
<1> DEFINE o == Head(task[t].firing).object
           firing == Tail(task[t].firing)
           v == [task[t] EXCEPT !.firing = Tail(@)]
           w == [task[t] EXCEPT !.pc = "fire", !.firing = firing]
<1>1. task[t] \in Task /\ task[t].firing \in Seq(Fired)
  BY TaskParts
<1>2. firing \in Seq(Fired)
  BY <1>1 DEF FireUpdated
<1>3. v = w
  BY <1>1 DEF FireUpdated, At, Task
<1>4. UNCHANGED <<workerVars, inflight, registryVars, held>>
  BY DEF FireUpdated
<1>5. "fire" \in Waits \cup Steps
  BY DEF Steps
<1>6. CASE o \notin listening
  <2>1. Update(t, v) /\ UNCHANGED running
    BY <1>6 DEF FireUpdated
  <2>2. task' = [task EXCEPT ![t] = w] /\ running' \in Tasks \cup {None}
    BY <1>3, <2>1 DEF Update, IInv, TaskInv
  <2> HIDE DEF firing
  <2> QED
    BY <1>2, <1>4, <1>5, <2>2, GotoStep
<1>7. CASE o \in listening /\ keyOf[o] = None
  <2>1. Finish(t)
    BY <1>7 DEF FireUpdated
  <2> QED
    BY <1>4, <2>1, FinishStep
<1>8. CASE o \in listening /\ keyOf[o] # None
  <2>1. ListenerCalled(t, v)
    BY <1>8 DEF FireUpdated
  <2> HIDE DEF firing, v
  <2>2. ListenerCalled(t, w)
    BY <1>3, <2>1
  <2> QED
    BY <1>2, <1>4, <2>2, ListenerCalledStep
<1> QED
  BY <1>6, <1>7, <1>8

LEMMA ListenerReturnsStep ==
  ASSUME IInv, NEW t \in Tasks, ListenerReturns(t)
  PROVE  IInv'
<1> DEFINE w == [task[t] EXCEPT !.pc = "fire", !.firing = task[t].firing]
<1>1. task[t] \in Task /\ task[t].firing \in Seq(Fired)
  BY TaskParts
<1>2. task' = [task EXCEPT ![t] = w] /\ running' \in Tasks \cup {None}
  BY <1>1 DEF ListenerReturns, Goto, Task, IInv, TaskInv
<1>3. "fire" \in Waits \cup Steps
  BY DEF Steps
<1>4. UNCHANGED <<workerVars, inflight, registryVars, held>>
  BY DEF ListenerReturns
<1> QED
  BY <1>1, <1>2, <1>3, <1>4, GotoStep

LEMMA ApplyDeletesStep ==
  ASSUME IInv, NEW t \in Tasks, ApplyDeletes(t)
  PROVE  IInv'
<1> USE ConstantsAssumption
<1> DEFINE s == task[t].batches
           w == [task[t] EXCEPT !.pc = "merge", !.batches = Tail(@), !.deletes = {}]
<1>1. /\ TaskOK(task[t], primaryKey, stored) /\ task[t] \in Task
      /\ s \in Seq(Batch) /\ task[t].deletes \in SUBSET Keys
      /\ \A i \in DOMAIN s : BatchOK(s[i], stored)
  BY TaskParts
<1>2. UNCHANGED <<primaryKey, content, stored>> /\ UNCHANGED workerVars
      /\ inflight' \subseteq inflight /\ Remove(task[t].deletes)
  BY DEF ApplyDeletes, workerVars
<1>3. /\ RegistryType' /\ RegistryInv' /\ ContentInv'
      /\ KeysStay(Objs, primaryKey, primaryKey')
  BY <1>1, <1>2, Removing DEF IInv
<1>4. CASE Len(s) > 1
  <2>1. s # <<>> /\ Tail(s) # <<>>
    <3>1. Len(s) \in Nat /\ s # <<>>
      BY <1>1, <1>4
    <3>2. Len(Tail(s)) = Len(s) - 1
      BY <1>1, <3>1
    <3> QED
      BY <1>4, <3>1, <3>2
  <2>2. Tail(s) \in Seq(Batch) /\ \A i \in DOMAIN Tail(s) : BatchOK(Tail(s)[i], stored)
    BY <1>1, <2>1, BatchesHead
  <2>3. w \in Task
    BY <1>1, <2>2 DEF Task, Steps
  <2>4. UseOK(w, primaryKey)
    BY <1>1 DEF TaskOK, UseOK, Task
  <2>5. StageOK(w)
    BY <1>1, <2>1 DEF StageOK, Task
  <2>6. SentOK(w, stored)
    BY <1>1, <2>2 DEF TaskOK, SentOK, Task
  <2>7. TaskOK(w, primaryKey', stored)
    BY <1>2, <2>3, <2>4, <2>5, <2>6 DEF TaskOK
  <2>8. task' = [task EXCEPT ![t] = w] /\ running' \in Tasks \cup {None} /\ held' = held
    BY <1>4 DEF ApplyDeletes, Update, IInv, TaskInv
  <2>9. HeldInv'
    BY <1>2, <2>8 DEF IInv, HeldInv
  <2> HIDE DEF w
  <2> QED
    BY <1>2, <1>3, <2>7, <2>8, <2>9, TaskStep
<1>5. CASE ~ (Len(s) > 1)
  <2>1. TaskOK(IdleTask, primaryKey', stored)
    BY IdleOK
  <2>2. /\ task' = [task EXCEPT ![t] = IdleTask] /\ running' = None
        /\ held' = held \cup ({task[t].result} \ {None})
    BY <1>5 DEF ApplyDeletes, Finish, Update
  <2>3. HeldInv'
    BY <1>1, <1>2, <2>2 DEF IInv, HeldInv, TaskOK, UseOK, Task, OptObjs
  <2> QED
    BY <1>2, <1>3, <2>1, <2>2, <2>3, TaskStep
<1> QED
  BY <1>4, <1>5

-----------------------------------------------------------------------------
(* The program.                                                            *)

LEMMA StartGetStep ==
  ASSUME IInv, NEW t \in Tasks, NEW k \in Keys, StartGet(t, k)
  PROVE  IInv'
<1> USE ConstantsAssumption
<1>1. TaskOK(IdleTask, primaryKey, stored)
  BY IdleOK
<1>2. Program \in OptObjs \cup {Program} /\ Program \notin Objs
  OBVIOUS
<1> QED
  BY <1>1, <1>2, RequestStep DEF StartGet

LEMMA InboundFacts ==
  ASSUME IInv, NEW x \in Objs, primaryKey[x] # None
  PROVE  InboundOK(Inbound(x), stored) /\ Inbound(x).key = primaryKey[x]
<1> USE ConstantsAssumption
<1>1. /\ primaryKey[x] \in Keys /\ version[x] \in Nat
      /\ content[x] \in [val : Nat, edited : BOOLEAN, ref : OptObjs]
  BY DEF IInv, RegistryType
<1>2. ValueOK(x, content[x], primaryKey, stored) /\ RefOK(x)
  BY DEF IInv, ContentInv
<1>3. /\ Inbound(x).key = primaryKey[x] /\ Inbound(x).ver = version[x]
      /\ Inbound(x).val = content[x].val /\ Inbound(x).edited = content[x].edited
      /\ Inbound(x).ref = IF content[x].ref \in Objs THEN primaryKey[content[x].ref] ELSE None
  BY DEF Inbound
<1>4. Inbound(x).ref \in Refs
  BY <1>2, <1>3 DEF RefOK, Refs
<1>5. Inbound(x) \in InboundDelta
  BY <1>1, <1>3, <1>4 DEF Inbound, InboundDelta
<1>6. Inbound(x).ref # None => primaryKey[x] \notin Targets
  BY <1>2, <1>3 DEF RefOK
<1>7. version[x] > 0 => Matches(primaryKey[x], version[x], content[x].val, stored)
  BY <1>2 DEF ValueOK
<1>8. stored[primaryKey[x]] = <<>> => content[x].val = 0 /\ content[x].edited
  BY <1>2 DEF ValueOK
<1> QED
  BY <1>3, <1>5, <1>6, <1>7, <1>8 DEF InboundOK

LEMMA TransferOK ==
  ASSUME IInv, NEW o \in Objs, primaryKey[o] # None
  PROVE  SavesOK(Transfer(o), stored) /\ Transfer(o) \subseteq InboundDelta
<1> USE ConstantsAssumption
<1> DEFINE r == content[o].ref
           sent == {o} \cup ({r} \cap Objs)
<1>1. content[o] \in [val : Nat, edited : BOOLEAN, ref : OptObjs] /\ RefOK(o)
  BY DEF IInv, RegistryType, ContentInv
<1>2. r \in Objs => /\ primaryKey[o] \in Keys \ Targets /\ primaryKey[r] \in Targets
                    /\ primaryKey[r] # None
  BY <1>1 DEF RefOK
<1>3. r \in Objs => Inbound(r).ref = None
  <2> HAVE r \in Objs
  <2>1. RefOK(r)
    BY DEF IInv, ContentInv
  <2>2. content[r].ref = None
    BY <1>2, <2>1 DEF RefOK
  <2> QED
    BY <2>2 DEF Inbound
<1>4. \A x \in sent : x \in Objs /\ primaryKey[x] # None
  BY <1>2
<1>5. \A x \in sent : InboundOK(Inbound(x), stored) /\ Inbound(x).key = primaryKey[x]
  BY <1>4, InboundFacts
<1>6. Transfer(o) = {Inbound(x) : x \in sent}
  BY DEF Transfer
<1>7. \A i, j \in Transfer(o) : i.key = j.key => i = j
  BY <1>2, <1>5, <1>6
<1>8. \A i \in Transfer(o) : i.ref # None => \E j \in Transfer(o) : j.key = i.ref
  <2>1. Inbound(o).ref # None => r \in sent /\ Inbound(o).ref = primaryKey[r]
    BY DEF Inbound
  <2> QED
    BY <1>3, <1>5, <1>6, <2>1
<1> QED
  BY <1>5, <1>6, <1>7, <1>8 DEF SavesOK, InboundOK

LEMMA StartSaveStep ==
  ASSUME IInv, NEW t \in Tasks, NEW o \in Objs, StartSave(t, o)
  PROVE  IInv'
<1> DEFINE is == Transfer(o)
           w == [IdleTask EXCEPT !.pc = "saving", !.inbound = is]
<1>1. SavesOK(is, stored) /\ is \subseteq InboundDelta
  BY TransferOK DEF StartSave, IInv, HeldInv
<1>2. task' = [task EXCEPT ![t] = w] /\ running' \in Tasks \cup {None}
      /\ UNCHANGED <<workerVars, inflight, registryVars, held>>
  BY DEF StartSave, Update, IInv, TaskInv
<1> HIDE DEF is
<1>3. TaskOK(IdleTask, primaryKey, stored)
  BY IdleOK
<1>4. w \in Task
  BY <1>1, <1>3 DEF TaskOK, Task, Waits
<1>5. UseOK(w, primaryKey)
  BY <1>3 DEF TaskOK, UseOK, IdleTask
<1>6. StageOK(w)
  BY DEF StageOK, IdleTask
<1>7. SentOK(w, stored)
  BY <1>1, <1>3 DEF TaskOK, SentOK, IdleTask
<1>8. TaskOK(w, primaryKey, stored)
  BY <1>4, <1>5, <1>6, <1>7 DEF TaskOK
<1> HIDE DEF w
<1> QED
  BY <1>2, <1>8, OwnStep

LEMMA StartCallStep ==
  ASSUME IInv, NEW t \in Tasks, NEW k \in Keys, StartCall(t, k)
  PROVE  IInv'
<1> DEFINE w == [IdleTask EXCEPT !.pc = "calling", !.key = k]
<1>1. TaskOK(IdleTask, primaryKey, stored)
  BY IdleOK
<1>2. task' = [task EXCEPT ![t] = w] /\ running' \in Tasks \cup {None}
      /\ UNCHANGED <<workerVars, inflight, registryVars, held>>
  BY DEF StartCall, Update, IInv, TaskInv
<1>3. w \in Task
  BY <1>1 DEF TaskOK, Task, Waits
<1>4. UseOK(w, primaryKey)
  BY ConstantsAssumption DEF UseOK, IdleTask
<1>5. StageOK(w)
  BY DEF StageOK, IdleTask
<1>6. SentOK(w, stored)
  BY <1>1 DEF TaskOK, SentOK, IdleTask
<1>7. TaskOK(w, primaryKey, stored)
  BY <1>3, <1>4, <1>5, <1>6 DEF TaskOK
<1> HIDE DEF w
<1> QED
  BY <1>2, <1>7, OwnStep

LEMMA ReceiveSaveStep ==
  ASSUME IInv, NEW t \in Tasks, ReceiveSave(t)
  PROVE  IInv'
<1> DEFINE w == [task[t] EXCEPT !.pc = "merge", !.answered = FALSE, !.ok = FALSE]
<1>1. TaskOK(task[t], primaryKey, stored) /\ task[t] \in Task
  BY TaskParts
<1>2. UNCHANGED <<workerVars, inflight, registryVars, held>>
  BY DEF ReceiveSave
<1>3. CASE task[t].ok
  <2>1. task' = [task EXCEPT ![t] = w] /\ running' \in Tasks \cup {None}
    BY <1>3 DEF ReceiveSave, Update
  <2>2. task[t].batches # <<>>
    BY <1>1, <1>3 DEF ReceiveSave, TaskOK, StageOK
  <2>3. w \in Task
    BY <1>1 DEF Task, Steps
  <2>4. UseOK(w, primaryKey)
    BY <1>1 DEF TaskOK, UseOK, Task
  <2>5. StageOK(w)
    BY <1>1, <2>2 DEF StageOK, Task
  <2>6. SentOK(w, stored)
    BY <1>1 DEF TaskOK, SentOK, Task
  <2>7. TaskOK(w, primaryKey, stored)
    BY <2>3, <2>4, <2>5, <2>6 DEF TaskOK
  <2> HIDE DEF w
  <2> QED
    BY <1>2, <2>1, <2>7, OwnStep
<1>4. CASE ~ task[t].ok
  BY <1>2, <1>4, FinishStep DEF ReceiveSave
<1> QED
  BY <1>3, <1>4

\* A step of the program or of the collector: what tasks use keeps its key.
LEMMA MemoryStep ==
  ASSUME IInv, UNCHANGED <<workerVars, inflight, task, running>>,
         RegistryType', RegistryInv', ContentInv', HeldInv',
         \A u \in Tasks : KeysStay(UsedBy(task[u]), primaryKey, primaryKey')
  PROVE  IInv'
<1>1. stored' = stored /\ deleted' = deleted
  BY DEF workerVars
<1>2. WorkerInv' /\ MessageInv'
  BY <1>1 DEF IInv, WorkerInv, OldRef, Last, ReferencesAreStored, MessageInv
<1>3. ASSUME NEW u \in Tasks PROVE TaskOK(task[u], primaryKey', stored)
  <2>1. TaskOK(task[u], primaryKey, stored)
    BY TaskParts
  <2>2. Grows(stored, stored)
    BY GrowsSame DEF IInv, WorkerInv, Stored
  <2> QED
    BY <2>1, <2>2, TaskKept
<1>4. TaskInv'
  BY <1>1, <1>3 DEF IInv, TaskInv
<1> QED
  BY <1>2, <1>4 DEF IInv

LEMMA NewDataStep ==
  ASSUME IInv, NEW o \in Objs, NEW k \in Keys, NewData(o, k)
  PROVE  IInv'
<1> USE ConstantsAssumption
<1> DEFINE c == [val |-> 0, edited |-> TRUE, ref |-> None]
<1>1. /\ SetInstance(k, o) /\ InstanceFor(k, o) /\ content' = [content EXCEPT ![o] = c]
      /\ held' = held \cup {o}
  BY DEF NewData, InstanceFor
<1>2. primaryKey[o] = None
  BY DEF NewData, Unused
<1>3. version' = [version EXCEPT ![o] = 0]
  <2>1. version[o] = 0
    BY <1>2 DEF IInv, RegistryInv, RegistryType
  <2> QED
    BY <2>1 DEF NewData, IInv, RegistryType
<1>4. UNCHANGED <<workerVars, inflight, task, running>> /\ UNCHANGED <<listening, stored>>
  BY DEF NewData, workerVars
<1>5. c \in [val : Nat, edited : BOOLEAN, ref : OptObjs] /\ c.val = 0 /\ c.edited /\ c.ref = None
  BY DEF OptObjs
<1>6. c.ref \in {None, content[o].ref} /\ 0 \in Nat /\ ~ (0 > 0)
  BY <1>5
<1>7. RegistryType /\ RegistryInv /\ ContentInv /\ WorkerInv
  BY DEF IInv
<1> HIDE DEF c
<1>8. /\ RegistryType' /\ RegistryInv' /\ ContentInv'
      /\ KeysStay(Objs, primaryKey, primaryKey') /\ primaryKey'[o] = k
  BY <1>1, <1>3, <1>4, <1>5, <1>6, <1>7, Registering
<1>9. HeldInv'
  BY <1>1, <1>8 DEF IInv, HeldInv, KeysStay
<1>10. \A u \in Tasks : KeysStay(UsedBy(task[u]), primaryKey, primaryKey')
  BY <1>8 DEF KeysStay
<1> QED
  BY <1>4, <1>8, <1>9, <1>10, MemoryStep

LEMMA EditStep ==
  ASSUME IInv, NEW o \in Objs, Edit(o)
  PROVE  IInv'
<1>1. /\ UNCHANGED <<workerVars, inflight, instance, keyOf, version, listening,
                     primaryKey, held, task, running>>
      /\ content' = [content EXCEPT ![o].edited = TRUE] /\ stored' = stored
  BY DEF Edit, workerVars
<1>2. RegistryType' /\ RegistryInv'
  <2>1. content' \in [Objs -> [val : Nat, edited : BOOLEAN, ref : OptObjs]]
    <3>1. content \in [Objs -> [val : Nat, edited : BOOLEAN, ref : OptObjs]]
      BY DEF IInv, RegistryType
    <3> QED
      BY <1>1, <3>1
  <2>2. RegistryType'
    BY <1>1, <2>1 DEF IInv, RegistryType
  <2>3. RegistryInv'
    BY <1>1 DEF IInv, RegistryInv
  <2> QED
    BY <2>2, <2>3
<1>3. ASSUME NEW x \in Objs
      PROVE  (ValueOK(x, content[x], primaryKey, stored))' /\ (RefOK(x))'
  <2>1. /\ content'[x].val = content[x].val /\ content'[x].ref = content[x].ref
        /\ content[x].edited => content'[x].edited
    BY <1>1 DEF IInv, RegistryType
  <2> QED
    BY <1>1, <2>1 DEF IInv, ContentInv, ValueOK, RefOK
<1>4. ContentInv' /\ HeldInv'
  BY <1>1, <1>3 DEF ContentInv, IInv, HeldInv
<1>5. \A u \in Tasks : KeysStay(UsedBy(task[u]), primaryKey, primaryKey')
  BY <1>1 DEF KeysStay
<1> QED
  BY <1>1, <1>2, <1>4, <1>5, MemoryStep

LEMMA SetReferenceStep ==
  ASSUME IInv, NEW o \in Objs, NEW x \in Objs, SetReference(o, x)
  PROVE  IInv'
<1>1. /\ UNCHANGED <<workerVars, inflight, task, running>>
      /\ UNCHANGED <<instance, keyOf, version, listening, primaryKey, stored>>
      /\ held' = held /\ content' = [content EXCEPT ![o].ref = x]
  BY DEF SetReference, workerVars
<1>2. primaryKey[o] \in Keys \ Targets /\ primaryKey[x] \in Targets
  BY DEF SetReference, IInv, HeldInv, RegistryType
<1>3. x \in OptObjs
  BY DEF OptObjs
<1>4. /\ RegistryType' /\ RegistryInv' /\ ContentInv'
      /\ KeysStay(Objs, primaryKey, primaryKey')
  BY <1>1, <1>2, <1>3, Referring DEF IInv
<1>5. HeldInv' /\ \A u \in Tasks : KeysStay(UsedBy(task[u]), primaryKey, primaryKey')
  BY <1>1, <1>4 DEF IInv, HeldInv, KeysStay
<1> QED
  BY <1>1, <1>4, <1>5, MemoryStep

\* Listeners are added and cleared, references are dropped.
LEMMA ListenAndDropStep ==
  ASSUME IInv, \/ \E o \in Objs : AddUpdateListener(o) \/ Drop(o)
               \/ ClearAllUpdateListeners
  PROVE  IInv'
<1>1. /\ UNCHANGED <<workerVars, inflight, task, running>>
      /\ UNCHANGED <<instance, keyOf, version, primaryKey, content, stored>>
      /\ held' \subseteq held /\ listening' \subseteq Objs
  BY DEF AddUpdateListener, Drop, ClearAllUpdateListeners, workerVars, registryVars,
         IInv, RegistryType
<1>2. RegistryType' /\ RegistryInv'
  BY <1>1 DEF IInv, RegistryType, RegistryInv
<1>3. ContentInv'
  BY <1>1 DEF IInv, ContentInv, ValueOK, RefOK
<1>4. HeldInv' /\ \A u \in Tasks : KeysStay(UsedBy(task[u]), primaryKey, primaryKey')
  BY <1>1 DEF IInv, HeldInv, KeysStay
<1> QED
  BY <1>1, <1>2, <1>3, <1>4, MemoryStep

\* Nothing that is left refers to what is collected.
LEMMA CollectStep ==
  ASSUME IInv, NEW o \in Objs, Collect(o)
  PROVE  IInv'
<1> USE ConstantsAssumption
<1>1. /\ UNCHANGED <<workerVars, inflight, task, running>> /\ held' = held
      /\ stored' = stored /\ o \notin Reachable
      /\ instance' = [k \in Keys |-> IF instance[k] = o THEN None ELSE instance[k]]
      /\ keyOf' = [keyOf EXCEPT ![o] = None]
      /\ version' = [version EXCEPT ![o] = 0]
      /\ listening' = listening \ {o}
      /\ primaryKey' = [primaryKey EXCEPT ![o] = None]
      /\ content' = [content EXCEPT ![o] = [val |-> 0, edited |-> FALSE, ref |-> None]]
  BY DEF Collect, workerVars
<1>2. RegistryType'
  BY <1>1 DEF IInv, RegistryType, OptObjs
<1>3. RegistryInv'
  <2>1. \A k \in Keys, x \in Objs : instance'[k] = x <=> keyOf'[x] = k
    <3> TAKE k \in Keys, x \in Objs
    <3>1. instance'[k] = IF instance[k] = o THEN None ELSE instance[k]
      BY <1>1
    <3>2. keyOf'[x] = IF x = o THEN None ELSE keyOf[x]
      BY <1>1 DEF IInv, RegistryType
    <3>3. instance[k] = x <=> keyOf[x] = k
      BY DEF IInv, RegistryInv
    <3> QED
      BY <3>1, <3>2, <3>3
  <2>2. \A x \in Objs : keyOf'[x] # None => keyOf'[x] = primaryKey'[x]
    BY <1>1 DEF IInv, RegistryInv, RegistryType
  <2>3. \A x \in Objs : version'[x] > 0 => keyOf'[x] # None
    BY <1>1 DEF IInv, RegistryInv, RegistryType
  <2> QED
    BY <2>1, <2>2, <2>3 DEF RegistryInv
<1>4. ASSUME NEW x \in Objs
      PROVE  (ValueOK(x, content[x], primaryKey, stored))' /\ (RefOK(x))'
  <2>1. CASE x = o
    <3>1. /\ content'[x].val = 0 /\ content'[x].ref = None /\ version'[x] = 0
          /\ primaryKey'[x] = None
      BY <1>1, <2>1 DEF IInv, RegistryType
    <3> QED
      BY <3>1 DEF ValueOK, RefOK
  <2>2. CASE x # o
    <3>1. /\ content'[x] = content[x] /\ version'[x] = version[x]
          /\ primaryKey'[x] = primaryKey[x] /\ keyOf'[x] = keyOf[x]
      BY <1>1, <2>2 DEF IInv, RegistryType
    <3>2. content[x].ref # o
      BY <1>1 DEF Reachable
    <3>3. content[x].ref # None => primaryKey'[content[x].ref] = primaryKey[content[x].ref]
      BY <1>1, <3>2 DEF IInv, RegistryType, OptObjs
    <3> QED
      BY <1>1, <3>1, <3>3 DEF IInv, ContentInv, ValueOK, RefOK
  <2> QED
    BY <2>1, <2>2
<1>5. o \notin held /\ \A u \in Tasks : o \notin UsedBy(task[u])
  BY <1>1 DEF Reachable, Roots, UsedBy
<1>6. HeldInv' /\ \A u \in Tasks : KeysStay(UsedBy(task[u]), primaryKey, primaryKey')
  BY <1>1, <1>5 DEF IInv, HeldInv, KeysStay, RegistryType
<1> QED
  BY <1>1, <1>2, <1>3, <1>4, <1>6, MemoryStep DEF ContentInv

-----------------------------------------------------------------------------
(* The worker.                                                             *)

\* A new version of k, and its delta.
LEMMA AppendedVersion ==
  ASSUME WorkerInv, NEW k \in Keys, NEW v \in Nat, NEW r \in Refs,
         r # None => k \notin Targets, v = 0 => OldVal(k) = 0,
         NEW tt, tt[k] = Append(stored[k], [val |-> v, ref |-> r])
  PROVE  /\ tt[k] \in Seq([val : Nat, ref : Refs])
         /\ tt[k] # <<>> /\ Len(tt[k]) = Latest(k) + 1
         /\ tt[k][Latest(k) + 1] = [val |-> v, ref |-> r]
         /\ \A i \in 1 .. Len(stored[k]) : tt[k][i] = stored[k][i]
         /\ DeltaOK(DeltaOf(k, v, r), tt)
<1> DEFINE x == [val |-> v, ref |-> r]
           d == DeltaOf(k, v, r)
<1>1. stored[k] \in Seq([val : Nat, ref : Refs]) /\ x \in [val : Nat, ref : Refs]
  BY DEF WorkerInv
<1>2. Latest(k) \in Nat /\ Latest(k) = Len(stored[k]) /\ OldVal(k) \in Nat
  BY LastFacts
<1>3. /\ tt[k] \in Seq([val : Nat, ref : Refs]) /\ Len(tt[k]) = Latest(k) + 1
      /\ tt[k][Latest(k) + 1] = x
      /\ \A i \in 1 .. Len(stored[k]) : tt[k][i] = stored[k][i]
  BY <1>1, <1>2, AppendProperties
<1>4. tt[k] # <<>>
  BY <1>2, <1>3
<1>5. d \in DataDelta
  BY <1>2 DEF DeltaOf, DataDelta
<1>6. d.key = k /\ d.ref = r /\ d.ver = Latest(k) + 1 /\ ~ d.deleted
      /\ d.val = IF v # OldVal(k) THEN v ELSE 0
  BY DEF DeltaOf
<1>7. ValBefore(k, Latest(k) + 1, tt) = OldVal(k)
  <2>1. CASE stored[k] = <<>>
    BY <2>1, LastFacts DEF ValBefore
  <2>2. CASE stored[k] # <<>>
    <3>1. Latest(k) > 0 /\ Matches(k, Latest(k), OldVal(k), stored)
      BY <2>2, LastFacts
    <3>2. Latest(k) + 1 # 1 /\ (Latest(k) + 1) - 1 = Latest(k) /\ Latest(k) \in 1 .. Len(stored[k])
      BY <1>2, <3>1
    <3> QED
      BY <1>3, <3>1, <3>2 DEF ValBefore, Matches
  <2> QED
    BY <2>1, <2>2
<1>8. Matches(k, Latest(k) + 1, v, tt)
  BY <1>2, <1>3 DEF Matches
<1>9. v = IF d.val = 0 THEN ValBefore(k, Latest(k) + 1, tt) ELSE d.val
  BY <1>6, <1>7
<1>10. DeltaOK(d, tt)
  BY <1>5, <1>6, <1>8, <1>9 DEF DeltaOK
<1> QED
  BY <1>3, <1>4, <1>10

\* The worker stores more, the client's memory stays.
LEMMA GrowingStep ==
  ASSUME IInv, Grows(stored, stored'), WorkerInv', UNCHANGED <<registryVars, held>>,
         MessageInv', TaskInv'
  PROVE  IInv'
<1>1. RegistryType' /\ RegistryInv' /\ HeldInv' /\ primaryKey' = primaryKey
      /\ content' = content /\ version' = version /\ keyOf' = keyOf
  BY DEF IInv, RegistryType, RegistryInv, HeldInv, registryVars
<1>2. ASSUME NEW o \in Objs
      PROVE  (ValueOK(o, content[o], primaryKey, stored))' /\ (RefOK(o))'
  <2> USE ConstantsAssumption
  <2>1. ValueOK(o, content[o], primaryKey, stored) /\ RefOK(o) /\ version[o] \in Nat
    BY DEF IInv, ContentInv, RegistryType
  <2>2. version[o] > 0 => primaryKey[o] \in Keys
    BY DEF IInv, RegistryInv, RegistryType
  <2>3. version[o] > 0 => Matches(primaryKey[o], version[o], content[o].val, stored')
    BY <2>1, <2>2, MatchesKept DEF ValueOK
  <2>4. \A k \in Keys : stored[k] # <<>> => stored'[k] # <<>>
    <3> TAKE k \in Keys
    <3>1. /\ stored[k] \in Seq([val : Nat, ref : Refs])
          /\ stored'[k] \in Seq([val : Nat, ref : Refs]) /\ Len(stored[k]) <= Len(stored'[k])
      BY DEF Grows, Stored
    <3> QED
      BY <3>1, EmptySeq
  <2>5. primaryKey[o] # None => primaryKey[o] \in Keys
    BY DEF IInv, RegistryType
  <2> QED
    BY <1>1, <2>1, <2>3, <2>4, <2>5 DEF ValueOK, RefOK
<1> QED
  BY <1>1, <1>2 DEF IInv, ContentInv

LEMMA MessagesKept ==
  ASSUME IInv, Grows(stored, stored')
  PROVE  /\ \A m \in inflight : BatchOK(m, stored')
         /\ \A u \in Tasks : TaskOK(task[u], primaryKey, stored')
<1>1. \A m \in inflight : BatchOK(m, stored')
  BY BatchKept DEF IInv, MessageInv
<1>2. \A u \in Tasks : TaskOK(task[u], primaryKey, stored')
  <2> TAKE u \in Tasks
  <2>1. TaskOK(task[u], primaryKey, stored) /\ KeysStay(UsedBy(task[u]), primaryKey, primaryKey)
    BY TaskParts DEF KeysStay
  <2> QED
    BY <2>1, TaskKept
<1> QED
  BY <1>1, <1>2

\* What one request of others may change.
LEMMA ChangesFacts ==
  ASSUME WorkerInv, NEW k \in Keys, NEW c \in Changes(k)
  PROVE  /\ c[1] \in Nat /\ c[2] \in Refs /\ (c[1] = 0 => OldVal(k) = 0)
         /\ c[1] \in {OldVal(k), Latest(k) + 1}
         /\ c[2] # None => k \notin Targets /\ stored[c[2]] # <<>>
<1> USE ConstantsAssumption
<1>1. /\ Latest(k) \in Nat /\ OldVal(k) \in Nat /\ OldRef(k) \in Refs
      /\ OldRef(k) # None => k \notin Targets
      /\ stored[k] = <<>> => Latest(k) = 0 /\ OldVal(k) = 0
  BY LastFacts
<1>2. OldRef(k) # None => stored[OldRef(k)] # <<>>
  BY DEF WorkerInv, ReferencesAreStored
<1>3. CASE c = <<Latest(k) + 1, OldRef(k)>>
  <2>1. c[1] = Latest(k) + 1 /\ c[2] = OldRef(k)
    BY <1>3
  <2> QED
    BY <1>1, <1>2, <2>1
<1>4. CASE c = <<OldVal(k), OldRef(k)>>
  <2>1. c[1] = OldVal(k) /\ c[2] = OldRef(k)
    BY <1>4
  <2> QED
    BY <1>1, <1>2, <2>1
<1>5. ASSUME k \notin Targets, NEW r \in Refs, r = None \/ Exists(r),
             c = <<IF stored[k] = <<>> THEN 1 ELSE OldVal(k), r>>
      PROVE  /\ c[1] \in Nat /\ c[2] \in Refs /\ (c[1] = 0 => OldVal(k) = 0)
             /\ c[1] \in {OldVal(k), Latest(k) + 1}
             /\ c[2] # None => k \notin Targets /\ stored[c[2]] # <<>>
  <2>1. c[1] = (IF stored[k] = <<>> THEN 1 ELSE OldVal(k)) /\ c[2] = r
    BY <1>5
  <2> QED
    BY <1>1, <1>5, <2>1 DEF Exists
<1>6. \/ c = <<Latest(k) + 1, OldRef(k)>>
      \/ c = <<OldVal(k), OldRef(k)>>
      \/ k \notin Targets /\ \E r \in Refs :
            (r = None \/ Exists(r)) /\ c = <<IF stored[k] = <<>> THEN 1 ELSE OldVal(k), r>>
  BY DEF Changes
<1> QED
  BY <1>3, <1>4, <1>5, <1>6

\* One key gets a new version.
LEMMA StoreFacts ==
  ASSUME IInv, NEW k \in Keys, NEW v \in Nat, NEW r \in Refs,
         r # None => k \notin Targets /\ stored[r] # <<>>, v = 0 => OldVal(k) = 0,
         Store(k, v, r), deleted' = deleted
  PROVE  Grows(stored, stored') /\ WorkerInv' /\ DeltaOK(DeltaOf(k, v, r), stored')
<1> USE ConstantsAssumption
<1>1. stored' = [stored EXCEPT ![k] = Append(stored[k], [val |-> v, ref |-> r])]
  BY DEF Store
<1>2. stored \in Stored
  BY DEF IInv, WorkerInv, Stored
<1>3. stored'[k] = Append(stored[k], [val |-> v, ref |-> r])
      /\ \A j \in Keys \ {k} : stored'[j] = stored[j]
  BY <1>1, <1>2 DEF Stored
<1>4. /\ stored'[k] \in Seq([val : Nat, ref : Refs])
      /\ stored'[k] # <<>> /\ Len(stored'[k]) = Latest(k) + 1
      /\ stored'[k][Latest(k) + 1] = [val |-> v, ref |-> r]
      /\ \A i \in 1 .. Len(stored[k]) : stored'[k][i] = stored[k][i]
      /\ DeltaOK(DeltaOf(k, v, r), stored')
  BY <1>3, AppendedVersion DEF IInv
<1>5. stored' \in Stored
  BY <1>1, <1>2, <1>4 DEF Stored
<1>6. ASSUME NEW j \in Keys
      PROVE  Len(stored[j]) <= Len(stored'[j])
             /\ \A i \in 1 .. Len(stored[j]) : stored'[j][i] = stored[j][i]
  <2>1. Len(stored[j]) \in Nat /\ Latest(k) = Len(stored[k]) /\ Latest(k) \in Nat
    BY <1>2, LastFacts DEF Stored, IInv
  <2>2. CASE j = k
    <3>1. Len(stored[k]) <= Len(stored'[k])
      BY <1>4, <2>1
    <3> QED
      BY <1>4, <2>2, <3>1
  <2>3. CASE j # k
    <3>1. stored'[j] = stored[j]
      BY <1>3, <2>3
    <3> QED
      BY <2>1, <3>1
  <2> QED
    BY <2>2, <2>3
<1>7. Grows(stored, stored')
  BY <1>2, <1>5, <1>6 DEF Grows
<1>8. ASSUME NEW j \in Keys
      PROVE  (OldRef(j))' = IF j = k THEN r ELSE OldRef(j)
  BY <1>3, <1>4 DEF OldRef, Last
<1>9. \A j \in Keys : stored[j] # <<>> => stored'[j] # <<>>
  BY <1>3, <1>4
<1>10. (\A j \in Targets : OldRef(j) = None)'
  BY <1>8 DEF IInv, WorkerInv
<1>11. ReferencesAreStored'
  <2> SUFFICES ASSUME NEW j \in Keys, (OldRef(j))' # None
               PROVE  stored'[(OldRef(j))'] # <<>>
    BY DEF ReferencesAreStored
  <2>1. (OldRef(j))' \in Keys /\ stored[(OldRef(j))'] # <<>>
    BY <1>8, LastFacts DEF IInv, WorkerInv, ReferencesAreStored, Refs
  <2> QED
    BY <1>9, <2>1
<1>12. WorkerInv'
  BY <1>5, <1>10, <1>11 DEF WorkerInv, Stored, IInv
<1> QED
  BY <1>4, <1>7, <1>12

\* What others did goes to the client.
LEMMA BroadcastOK ==
  ASSUME NEW st, NEW d, DeltaOK(d, st), NEW m \in Broadcasts(d), NEW b \in m
  PROVE  BatchOK(b, st)
<1>1. PICK e \in BOOLEAN : b = [event |-> e, deltas |-> {d}, returns |-> None]
  BY DEF Broadcasts
<1> QED
  BY <1>1 DEF BatchOK, Batch, DeltaOK

LEMMA OtherChangesStep ==
  ASSUME IInv, NEW k \in Keys, OtherChanges(k)
  PROVE  IInv'
<1>1. PICK c \in Changes(k) :
         /\ Store(k, c[1], c[2])
         /\ \E m \in Broadcasts(DeltaOf(k, c[1], c[2])) : inflight' = inflight \cup m
  BY DEF OtherChanges
<1>2. PICK m \in Broadcasts(DeltaOf(k, c[1], c[2])) : inflight' = inflight \cup m
  BY <1>1
<1>3. UNCHANGED <<deleted, registryVars, held, task, running>>
  BY DEF OtherChanges
<1>4. /\ c[1] \in Nat /\ c[2] \in Refs /\ (c[1] = 0 => OldVal(k) = 0)
      /\ c[2] # None => k \notin Targets /\ stored[c[2]] # <<>>
  BY ChangesFacts DEF IInv
<1>5. /\ Grows(stored, stored') /\ WorkerInv'
      /\ DeltaOK(DeltaOf(k, c[1], c[2]), stored')
  BY <1>1, <1>3, <1>4, StoreFacts
<1>6. MessageInv'
  BY <1>2, <1>5, BroadcastOK, MessagesKept DEF MessageInv
<1>7. TaskInv'
  BY <1>3, <1>5, MessagesKept DEF TaskInv, IInv, registryVars
<1> QED
  BY <1>3, <1>5, <1>6, <1>7, GrowingStep

LEMMA OtherDeletesStep ==
  ASSUME IInv, NEW k \in Keys, OtherDeletes(k)
  PROVE  IInv'
<1> DEFINE d == DeletionOf(k)
<1>1. /\ UNCHANGED <<stored, registryVars, held, task, running>>
      /\ deleted' = deleted \cup {k}
  BY DEF OtherDeletes
<1>2. PICK m \in Broadcasts(d) : inflight' = inflight \cup m
  BY DEF OtherDeletes
<1>3. Grows(stored, stored')
  BY <1>1, GrowsSame DEF IInv, WorkerInv, Stored
<1>4. WorkerInv'
  BY <1>1 DEF IInv, WorkerInv, OldRef, Last, ReferencesAreStored
<1>5. DeltaOK(d, stored')
  <2>1. Latest(k) \in Nat
    BY LastFacts DEF IInv
  <2>2. d \in DataDelta
    BY <2>1 DEF DeletionOf, DataDelta, Refs
  <2> QED
    BY <2>2 DEF DeltaOK, DeletionOf
<1>6. MessageInv'
  BY <1>2, <1>3, <1>5, BroadcastOK, MessagesKept DEF MessageInv
<1>7. TaskInv'
  BY <1>1, <1>3, MessagesKept DEF TaskInv, IInv, registryVars
<1> QED
  BY <1>1, <1>3, <1>4, <1>6, <1>7, GrowingStep

LEMMA AnswerCallStep ==
  ASSUME IInv, NEW t \in Tasks, AnswerCall(t)
  PROVE  IInv'
<1> USE ConstantsAssumption
<1> DEFINE k == task[t].key
           part(e, ds, r) == [event |-> e, deltas |-> ds, returns |-> r]
<1>1. /\ UNCHANGED <<deleted, inflight, registryVars, held, running>>
      /\ task[t].pc = "calling" /\ ~ task[t].answered
  BY DEF AnswerCall
<1>2. TaskOK(task[t], primaryKey, stored) /\ task[t] \in Task
  BY TaskParts
<1>3. k \in Keys
  BY <1>1, <1>2 DEF TaskOK, StageOK
<1>4. CASE Refused(t) /\ UNCHANGED stored
  BY <1>1, <1>4, RefusedStep DEF workerVars
<1>5. ASSUME NEW c \in Changes(k), NEW event \in BOOLEAN, NEW returns \in {k, None},
             NEW parts,
             parts = IF event
                     THEN <<part(TRUE, {DeltaOf(k, c[1], c[2])}, None), part(FALSE, {}, returns)>>
                     ELSE <<part(FALSE, {DeltaOf(k, c[1], c[2])}, returns)>>,
             Store(k, c[1], c[2]),
             Answered(t, [task[t] EXCEPT !.key = None, !.batches = parts])
      PROVE  IInv'
  <2> DEFINE d == DeltaOf(k, c[1], c[2])
             w == [task[t] EXCEPT !.key = None, !.batches = parts,
                                  !.answered = TRUE, !.ok = TRUE]
  <2>1. /\ c[1] \in Nat /\ c[2] \in Refs /\ (c[1] = 0 => OldVal(k) = 0)
        /\ c[2] # None => k \notin Targets /\ stored[c[2]] # <<>>
    BY <1>3, <1>5, ChangesFacts DEF IInv
  <2>2. Grows(stored, stored') /\ WorkerInv' /\ DeltaOK(d, stored')
    BY <1>1, <1>3, <1>5, <2>1, StoreFacts
  <2>3. TaskOK(task[t], primaryKey, stored') /\ MessageInv'
    BY <1>1, <2>2, MessagesKept DEF MessageInv
  <2>4. /\ BatchOK(part(TRUE, {d}, None), stored') /\ BatchOK(part(FALSE, {}, returns), stored')
        /\ BatchOK(part(FALSE, {d}, returns), stored')
    <3>1. d \in DataDelta
      BY <2>2 DEF DeltaOK
    <3> QED
      BY <1>3, <1>5, <2>2, <3>1 DEF BatchOK, Batch
  <2>5. parts \in Seq(Batch) /\ parts # <<>>
        /\ \A i \in DOMAIN parts : BatchOK(parts[i], stored')
    <3> DEFINE b1 == part(TRUE, {d}, None)
               b2 == part(FALSE, {}, returns)
               b3 == part(FALSE, {d}, returns)
    <3>1. parts = IF event THEN <<b1, b2>> ELSE <<b3>>
      BY <1>5
    <3>2. b1 \in Batch /\ b2 \in Batch /\ b3 \in Batch
      BY <2>4 DEF BatchOK
    <3>3. BatchOK(b1, stored') /\ BatchOK(b2, stored') /\ BatchOK(b3, stored')
      BY <2>4
    <3> HIDE DEF b1, b2, b3
    <3>4. CASE event
      <4>1. parts = <<b1, b2>> /\ DOMAIN parts = 1 .. 2 /\ parts[1] = b1 /\ parts[2] = b2
        BY <3>1, <3>4
      <4>2. \A i \in 1 .. 2 : i = 1 \/ i = 2
        OBVIOUS
      <4>3. \A i \in DOMAIN parts : BatchOK(parts[i], stored')
        BY <3>3, <4>1, <4>2
      <4> QED
        BY <3>2, <4>1, <4>3
    <3>5. CASE ~ event
      <4>1. parts = <<b3>> /\ DOMAIN parts = 1 .. 1 /\ parts[1] = b3
        BY <3>1, <3>5
      <4>2. \A i \in 1 .. 1 : i = 1
        OBVIOUS
      <4>3. \A i \in DOMAIN parts : BatchOK(parts[i], stored')
        BY <3>3, <4>1, <4>2
      <4> QED
        BY <3>2, <4>1, <4>3
    <3> QED
      BY <3>4, <3>5
  <2>6. w \in Task
    BY <1>2, <2>5 DEF Task
  <2>7. UseOK(w, primaryKey)
    <3>1. \A i \in DOMAIN task[t].resolve : ItemOK(task[t].resolve[i], primaryKey)
      BY <1>2 DEF TaskOK, UseOK
    <3>2. task[t].result # None => primaryKey[task[t].result] # None
      BY <1>2 DEF TaskOK, UseOK
    <3>3. task[t].into = None /\ task[t].target = None
      BY <1>1, <1>2 DEF TaskOK, StageOK
    <3> QED
      BY <1>2, <3>1, <3>2, <3>3 DEF UseOK, Task
  <2>8. StageOK(w)
    BY <1>1, <1>2, <2>5 DEF TaskOK, StageOK, Task
  <2>9. SentOK(w, stored')
    BY <1>2, <2>3, <2>5 DEF TaskOK, SentOK, Task
  <2>10. TaskOK(w, primaryKey', stored')
    BY <1>1, <2>6, <2>7, <2>8, <2>9 DEF TaskOK, registryVars
  <2>11. task' = [task EXCEPT ![t] = w]
    BY <1>5 DEF Answered, Update
  <2>12. \A u \in Tasks : KeysStay(UsedBy(task[u]), primaryKey, primaryKey')
    BY <1>1 DEF KeysStay, registryVars
  <2> HIDE DEF w
  <2>13. TaskInv'
    BY <1>1, <2>2, <2>10, <2>11, <2>12, TasksKept DEF IInv, TaskInv
  <2> QED
    BY <1>1, <2>2, <2>3, <2>13, GrowingStep
<1> QED
  BY <1>4, <1>5 DEF AnswerCall

\* What a save makes of an object that the worker accepts.
LEMMA SavedFacts ==
  ASSUME IInv, NEW t \in Tasks, NEW i \in task[t].inbound, Accepts(i)
  PROVE  /\ i.key \in Keys /\ SavedVal(i) \in Nat /\ SavedRef(i) \in Refs
         /\ SavedRef(i) # None => i.key \notin Targets
         /\ SavedVal(i) \in {OldVal(i.key), Latest(i.key) + 1}
         /\ SavedVal(i) = 0 => OldVal(i.key) = 0
         /\ stored[i.key] = <<>> => Changed(i)
<1> DEFINE k == i.key
<1>1. InboundOK(i, stored)
  BY TaskParts DEF TaskOK, SentOK, SavesOK
<1>2. k \in Keys /\ i.val \in Nat /\ i.ref \in Refs /\ i.ver \in Nat /\ i.edited \in BOOLEAN
  BY <1>1 DEF InboundOK, InboundDelta
<1>3. /\ Latest(k) \in Nat /\ Latest(k) = Len(stored[k])
      /\ OldVal(k) \in Nat /\ OldRef(k) \in Refs
      /\ OldRef(k) # None => k \notin Targets
      /\ stored[k] # <<>> => Latest(k) > 0 /\ Matches(k, Latest(k), OldVal(k), stored)
      /\ stored[k] = <<>> => Latest(k) = 0 /\ OldVal(k) = 0 /\ OldRef(k) = None
  BY <1>2, LastFacts DEF IInv
<1>4. i.ver = Latest(k)
  BY DEF Accepts
<1>5. SavedRef(i) \in Refs /\ (SavedRef(i) # None => k \notin Targets)
  BY <1>1, <1>2, <1>3 DEF SavedRef, InboundOK
<1>6. CASE stored[k] = <<>>
  <2>1. SavedVal(i) = 1 /\ Latest(k) + 1 = 1 /\ OldVal(k) = 0
    BY <1>1, <1>3, <1>6 DEF InboundOK, SavedVal
  <2> QED
    BY <1>2, <1>5, <2>1 DEF Changed
<1>7. CASE stored[k] # <<>>
  <2>1. stored[k][Latest(k)].val = i.val /\ stored[k][Latest(k)].val = OldVal(k)
    BY <1>1, <1>3, <1>4, <1>7 DEF InboundOK, Matches
  <2>2. SavedVal(i) = IF i.edited THEN Latest(k) + 1 ELSE OldVal(k)
    BY <2>1 DEF SavedVal
  <2> QED
    BY <1>2, <1>3, <1>5, <1>7, <2>2
<1> QED
  BY <1>6, <1>7

\* A save adds a version to each of the objects that changed.
Appends(changed, st, tt) ==
    /\ \A i \in changed :
         tt[i.key] = Append(st[i.key], [val |-> SavedVal(i), ref |-> SavedRef(i)])
    /\ \A k \in Keys : (~ \E i \in changed : i.key = k) => tt[k] = st[k]

\* The versions that a save adds.
LEMMA SaveFacts ==
  ASSUME IInv, NEW t \in Tasks, NEW changed,
         changed = {i \in task[t].inbound : Changed(i)},
         \A i \in task[t].inbound : Accepts(i), deleted' = deleted,
         stored' = [k \in Keys |-> stored'[k]], Appends(changed, stored, stored')
  PROVE  /\ Grows(stored, stored') /\ WorkerInv'
         /\ \A i \in changed : DeltaOK(DeltaOf(i.key, SavedVal(i), SavedRef(i)), stored')
         /\ \A k \in Keys : Len(stored'[k]) > Len(stored[k]) =>
              /\ Len(stored'[k]) = Latest(k) + 1
              /\ stored'[k][Len(stored'[k])].val \in {OldVal(k), Latest(k) + 1}
<1> USE ConstantsAssumption
<1> DEFINE is == task[t].inbound
<1>1. SavesOK(is, stored)
  BY TaskParts DEF TaskOK, SentOK
<1>2. \A i, j \in is : i.key = j.key => i = j
  BY <1>1 DEF SavesOK
<1>3. ASSUME NEW i \in is
      PROVE  /\ i.key \in Keys /\ SavedVal(i) \in Nat /\ SavedRef(i) \in Refs
             /\ SavedRef(i) # None => i.key \notin Targets
             /\ SavedVal(i) \in {OldVal(i.key), Latest(i.key) + 1}
             /\ SavedVal(i) = 0 => OldVal(i.key) = 0
             /\ stored[i.key] = <<>> => i \in changed
  BY SavedFacts
<1>4. ASSUME NEW i \in changed
      PROVE  stored'[i.key] = Append(stored[i.key], [val |-> SavedVal(i), ref |-> SavedRef(i)])
  BY DEF Appends
<1>5. ASSUME NEW k \in Keys, ~ \E i \in changed : i.key = k
      PROVE  stored'[k] = stored[k]
  BY <1>5 DEF Appends
<1>6. ASSUME NEW i \in changed
      PROVE  LET k == i.key
             IN  /\ stored'[k] \in Seq([val : Nat, ref : Refs])
                 /\ stored'[k] # <<>> /\ Len(stored'[k]) = Latest(k) + 1
                 /\ stored'[k][Latest(k) + 1] = [val |-> SavedVal(i), ref |-> SavedRef(i)]
                 /\ \A j \in 1 .. Len(stored[k]) : stored'[k][j] = stored[k][j]
                 /\ DeltaOK(DeltaOf(k, SavedVal(i), SavedRef(i)), stored')
  <2>1. i \in is
    OBVIOUS
  <2>2. /\ i.key \in Keys /\ SavedVal(i) \in Nat /\ SavedRef(i) \in Refs
        /\ SavedRef(i) # None => i.key \notin Targets
        /\ SavedVal(i) = 0 => OldVal(i.key) = 0
    BY <1>3, <2>1
  <2>3. WorkerInv
    BY DEF IInv
  <2> QED
    BY <1>4, <2>2, <2>3, AppendedVersion
<1>7. \A k \in Keys : /\ stored[k] \in Seq([val : Nat, ref : Refs]) /\ Len(stored[k]) \in Nat
                      /\ Latest(k) = Len(stored[k])
  BY LastFacts DEF IInv, WorkerInv
<1>8. stored' \in Stored
  <2>1. ASSUME NEW k \in Keys PROVE stored'[k] \in Seq([val : Nat, ref : Refs])
    BY <1>5, <1>6, <1>7
  <2> QED
    BY <2>1 DEF Stored
<1>9. ASSUME NEW k \in Keys
      PROVE  /\ Len(stored[k]) <= Len(stored'[k])
             /\ \A j \in 1 .. Len(stored[k]) : stored'[k][j] = stored[k][j]
             /\ Len(stored'[k]) > Len(stored[k]) =>
                  /\ Len(stored'[k]) = Latest(k) + 1
                  /\ stored'[k][Len(stored'[k])].val \in {OldVal(k), Latest(k) + 1}
             /\ stored[k] # <<>> => stored'[k] # <<>>
  <2>1. CASE \E i \in changed : i.key = k
    <3>1. PICK i \in changed : i.key = k
      BY <2>1
    <3>2. /\ stored'[k] # <<>> /\ Len(stored'[k]) = Latest(k) + 1
          /\ stored'[k][Latest(k) + 1] = [val |-> SavedVal(i), ref |-> SavedRef(i)]
          /\ \A j \in 1 .. Len(stored[k]) : stored'[k][j] = stored[k][j]
      BY <1>6, <3>1
    <3>3. SavedVal(i) \in {OldVal(k), Latest(k) + 1}
      BY <1>3, <3>1
    <3>4. Len(stored[k]) <= Len(stored'[k])
      BY <1>7, <3>2
    <3> QED
      BY <3>2, <3>3, <3>4
  <2>2. CASE ~ \E i \in changed : i.key = k
    <3>1. stored'[k] = stored[k] /\ Len(stored[k]) \in Nat
      BY <1>5, <1>7, <2>2
    <3>2. Len(stored[k]) <= Len(stored'[k]) /\ ~ (Len(stored'[k]) > Len(stored[k]))
      BY <3>1
    <3> QED
      BY <3>1, <3>2
  <2> QED
    BY <2>1, <2>2
<1>10. Grows(stored, stored')
  BY <1>8, <1>9 DEF Grows, IInv, WorkerInv, Stored
<1>11. ASSUME NEW k \in Keys, NEW i \in changed, i.key = k PROVE (OldRef(k))' = SavedRef(i)
  <2>1. /\ stored'[k] # <<>> /\ Len(stored'[k]) = Latest(k) + 1
        /\ stored'[k][Latest(k) + 1] = [val |-> SavedVal(i), ref |-> SavedRef(i)]
    BY <1>6, <1>11
  <2> QED
    BY <2>1 DEF OldRef, Last
<1>12. ASSUME NEW k \in Keys, ~ \E i \in changed : i.key = k PROVE (OldRef(k))' = OldRef(k)
  BY <1>5, <1>12 DEF OldRef, Last
<1>13. (\A k \in Targets : OldRef(k) = None)'
  <2> SUFFICES ASSUME NEW k \in Targets PROVE (OldRef(k))' = None
    OBVIOUS
  <2>1. k \in Keys /\ OldRef(k) = None
    BY DEF IInv, WorkerInv
  <2>2. CASE \E i \in changed : i.key = k
    BY <1>3, <1>11, <2>2
  <2>3. CASE ~ \E i \in changed : i.key = k
    BY <1>12, <2>1, <2>3
  <2> QED
    BY <2>2, <2>3
<1>14. ReferencesAreStored'
  <2> SUFFICES ASSUME NEW k \in Keys, (OldRef(k))' # None
               PROVE  stored'[(OldRef(k))'] # <<>>
    BY DEF ReferencesAreStored
  <2>1. ASSUME OldRef(k) # None PROVE OldRef(k) \in Keys /\ stored'[OldRef(k)] # <<>>
    <3>1. OldRef(k) \in Keys /\ stored[OldRef(k)] # <<>>
      BY <2>1, LastFacts DEF IInv, WorkerInv, ReferencesAreStored, Refs
    <3> QED
      BY <1>9, <3>1
  <2>2. CASE \E i \in changed : i.key = k
    <3>1. PICK i \in changed : i.key = k
      BY <2>2
    <3>2. (OldRef(k))' = SavedRef(i)
      BY <1>11, <3>1
    <3>3. CASE i.ref = None
      BY <2>1, <3>1, <3>2, <3>3 DEF SavedRef
    <3>4. CASE i.ref # None
      <4>1. SavedRef(i) = i.ref
        BY <3>4 DEF SavedRef
      <4>2. PICK j \in is : j.key = i.ref
        BY <1>1, <3>4 DEF SavesOK
      <4>3. j.key \in Keys /\ (stored[j.key] = <<>> => j \in changed)
        BY <1>3
      <4>4. stored'[j.key] # <<>>
        BY <1>6, <1>9, <4>3
      <4> QED
        BY <3>2, <4>1, <4>2, <4>4
    <3> QED
      BY <3>3, <3>4
  <2>3. CASE ~ \E i \in changed : i.key = k
    BY <1>12, <2>1, <2>3
  <2> QED
    BY <2>2, <2>3
<1>15. WorkerInv'
  BY <1>8, <1>13, <1>14 DEF WorkerInv, Stored, IInv
<1> QED
  BY <1>6, <1>9, <1>10, <1>15

\* An object is sent once, so that each version is that of one object.
LEMMA SaveAppends ==
  ASSUME IInv, NEW t \in Tasks, NEW changed \in SUBSET task[t].inbound,
         stored' = [k \in Keys |->
                   IF \E i \in changed : i.key = k
                   THEN LET i == CHOOSE j \in changed : j.key = k
                        IN  Append(stored[k], [val |-> SavedVal(i), ref |-> SavedRef(i)])
                   ELSE stored[k]]
  PROVE  Appends(changed, stored, stored')
<1>1. SavesOK(task[t].inbound, stored)
  BY TaskParts DEF TaskOK, SentOK
<1>2. ASSUME NEW i \in changed
      PROVE  stored'[i.key] = Append(stored[i.key], [val |-> SavedVal(i), ref |-> SavedRef(i)])
  <2>1. i.key \in Keys
    BY <1>1 DEF SavesOK, InboundOK, InboundDelta
  <2>2. (CHOOSE j \in changed : j.key = i.key) = i
    BY <1>1 DEF SavesOK
  <2>3. stored'[i.key] =
          LET x == CHOOSE j \in changed : j.key = i.key
          IN  Append(stored[i.key], [val |-> SavedVal(x), ref |-> SavedRef(x)])
    BY <2>1
  <2> QED
    BY <2>2, <2>3
<1>3. ASSUME NEW k \in Keys, ~ \E i \in changed : i.key = k
      PROVE  stored'[k] = stored[k]
  BY <1>3
<1> QED
  BY <1>2, <1>3 DEF Appends

LEMMA AnswerSaveStep ==
  ASSUME IInv, NEW t \in Tasks, AnswerSave(t)
  PROVE  IInv'
<1> DEFINE changed == {i \in task[t].inbound : Changed(i)}
           deltas == {DeltaOf(i.key, SavedVal(i), SavedRef(i)) : i \in changed}
           b == [event |-> FALSE, deltas |-> deltas, returns |-> None]
           w == [task[t] EXCEPT !.inbound = {}, !.batches = <<b>>,
                                !.answered = TRUE, !.ok = TRUE]
<1>1. /\ UNCHANGED <<deleted, inflight, registryVars, held, running>>
      /\ task[t].pc = "saving" /\ ~ task[t].answered
  BY DEF AnswerSave
<1>2. TaskOK(task[t], primaryKey, stored) /\ task[t] \in Task
  BY TaskParts
<1>3. CASE Refused(t) /\ UNCHANGED stored
  BY <1>1, <1>3, RefusedStep DEF workerVars
<1>4. ASSUME \A i \in task[t].inbound : Accepts(i),
             stored' = [k \in Keys |->
                   IF \E i \in changed : i.key = k
                   THEN LET i == CHOOSE j \in changed : j.key = k
                        IN  Append(stored[k], [val |-> SavedVal(i), ref |-> SavedRef(i)])
                   ELSE stored[k]],
             Answered(t, [task[t] EXCEPT !.inbound = {}, !.batches = <<b>>])
      PROVE  IInv'
  <2>1. task' = [task EXCEPT ![t] = w]
    BY <1>4 DEF Answered, Update
  <2>2. /\ Grows(stored, stored') /\ WorkerInv'
        /\ \A i \in changed : DeltaOK(DeltaOf(i.key, SavedVal(i), SavedRef(i)), stored')
    <3>1. changed = {i \in task[t].inbound : Changed(i)}
      OBVIOUS
    <3>2. deleted' = deleted /\ stored' = [k \in Keys |-> stored'[k]]
      BY <1>1, <1>4
    <3>3. Appends(changed, stored, stored')
      BY <1>4, SaveAppends
    <3> HIDE DEF changed
    <3> QED
      BY <1>4, <3>1, <3>2, <3>3, SaveFacts
  <2> HIDE DEF changed
  <2>3. BatchOK(b, stored')
    <3>1. \A d \in deltas : DeltaOK(d, stored')
      BY <2>2
    <3>2. deltas \subseteq DataDelta
      BY <3>1 DEF DeltaOK
    <3> HIDE DEF deltas
    <3> QED
      BY <3>1, <3>2 DEF BatchOK, Batch
  <2> HIDE DEF b
  <2>4. TaskOK(task[t], primaryKey, stored') /\ MessageInv'
    BY <1>1, <2>2, MessagesKept DEF MessageInv
  <2>5. <<b>> \in Seq(Batch) /\ <<b>> # <<>> /\ \A i \in DOMAIN <<b>> : BatchOK(<<b>>[i], stored')
    BY <2>3 DEF BatchOK
  <2>6. w \in Task
    BY <1>2, <2>5 DEF Task
  <2>7. UseOK(w, primaryKey)
    BY <1>2 DEF TaskOK, UseOK, Task
  <2>8. StageOK(w)
    BY <1>1, <1>2, <2>5 DEF TaskOK, StageOK, Task
  <2>9. SentOK(w, stored')
    BY <1>2, <2>4, <2>5 DEF TaskOK, SentOK, SavesOK, Task
  <2>10. TaskOK(w, primaryKey', stored')
    BY <1>1, <2>6, <2>7, <2>8, <2>9 DEF TaskOK, registryVars
  <2>11. \A u \in Tasks : KeysStay(UsedBy(task[u]), primaryKey, primaryKey')
    BY <1>1 DEF KeysStay, registryVars
  <2> HIDE DEF w
  <2>12. TaskInv'
    BY <1>1, <2>1, <2>2, <2>10, <2>11, TasksKept DEF IInv, TaskInv
  <2> QED
    BY <1>1, <2>2, <2>4, <2>12, GrowingStep
<1> QED
  BY <1>3, <1>4 DEF AnswerSave

-----------------------------------------------------------------------------
(* The theorems.                                                           *)

LEMMA InitInv == Init => IInv
<1> SUFFICES ASSUME Init PROVE IInv
  OBVIOUS
<1> USE ConstantsAssumption DEF Init
<1>1. WorkerInv
  BY DEF WorkerInv, OldRef, ReferencesAreStored
<1>2. RegistryType
  BY DEF RegistryType, OptObjs
<1>3. RegistryInv
  BY DEF RegistryInv
<1>4. ContentInv
  BY DEF ContentInv, ValueOK, RefOK
<1>5. MessageInv /\ HeldInv
  BY DEF MessageInv, HeldInv
<1>6. TaskInv
  <2>1. \A t \in Tasks : TaskOK(task[t], primaryKey, stored)
    BY IdleOK
  <2> QED
    BY <2>1 DEF TaskInv
<1> QED
  BY <1>1, <1>2, <1>3, <1>4, <1>5, <1>6 DEF IInv

LEMMA NextInv == IInv /\ [Next]_vars => IInv'
<1> SUFFICES ASSUME IInv, [Next]_vars PROVE IInv'
  OBVIOUS
<1>1. CASE UNCHANGED vars
  <2>1. UNCHANGED <<workerVars, inflight, task, running>> /\ UNCHANGED registryVars
        /\ UNCHANGED stored /\ UNCHANGED held
    BY <1>1 DEF vars, workerVars, registryVars
  <2>2. RegistryType' /\ RegistryInv' /\ ContentInv' /\ KeysStay(Objs, primaryKey, primaryKey')
    BY <2>1, RegistrySame
  <2>3. HeldInv' /\ \A u \in Tasks : KeysStay(UsedBy(task[u]), primaryKey, primaryKey')
    BY <2>1, <2>2 DEF IInv, HeldInv, KeysStay
  <2> QED
    BY <2>1, <2>2, <2>3, MemoryStep
<1>2. ASSUME NEW k \in Keys, OtherChanges(k) \/ OtherDeletes(k) PROVE IInv'
  BY <1>2, OtherChangesStep, OtherDeletesStep
<1>3. ASSUME NEW t \in Tasks, Work(t) PROVE IInv'
  <2>1. CASE MergeDelta(t)
    <3>1. PICK d \in Current(t).deltas :
             MergeDeleted(t, d) \/ MergeProperties(t, d) \/ RejectDelta(t, d)
      BY <2>1 DEF MergeDelta
    <3>2. At(t, "merge") /\ UNCHANGED <<workerVars, inflight, held, running>>
      BY <2>1 DEF MergeDelta
    <3> QED
      BY <3>1, <3>2, MergeDeletedStep, MergePropertiesStep, RejectDeltaStep
  <2>2. CASE MergeDone(t) \/ ResolveDone(t) \/ ReplaceData(t) \/ ReplaceDone(t)
    BY <2>2, MergeDoneStep, ResolveDoneStep, ReplaceDataStep, ReplaceDoneStep
  <2>3. CASE ResolveLocally(t) \/ ResolveRemotely(t)
    BY <2>3, ResolveLocallyStep, ResolveRemotelyStep
  <2>4. CASE FireMessage(t) \/ FireUpdated(t) \/ ApplyDeletes(t)
    BY <2>4, FireMessageStep, FireUpdatedStep, ApplyDeletesStep
  <2> QED
    BY <1>3, <2>1, <2>2, <2>3, <2>4 DEF Work
<1>4. ASSUME NEW t \in Tasks, Resume(t) PROVE IInv'
  BY <1>4, ReceiveGetStep, ReceiveSaveStep, ListenerReturnsStep DEF Resume
<1>5. ASSUME NEW t \in Tasks, Answer(t) PROVE IInv'
  BY <1>5, AnswerGetStep, AnswerSaveStep, AnswerCallStep DEF Answer
<1>6. ASSUME NEW t \in Tasks, NEW m \in inflight, Deliver(t, m) PROVE IInv'
  BY <1>6, DeliverStep
<1>7. ASSUME NEW o \in Objs, Collect(o) PROVE IInv'
  BY <1>7, CollectStep
<1>8. CASE ProgramStep
  <2>1. ASSUME NEW t \in Tasks, NEW k \in Keys, StartGet(t, k) \/ StartCall(t, k) PROVE IInv'
    BY <2>1, StartGetStep, StartCallStep
  <2>2. ASSUME NEW t \in Tasks, NEW o \in Objs, StartSave(t, o) PROVE IInv'
    BY <2>2, StartSaveStep
  <2>3. ASSUME NEW o \in Objs, NEW k \in Keys, NewData(o, k) PROVE IInv'
    BY <2>3, NewDataStep
  <2>4. ASSUME NEW o \in Objs, Edit(o) \/ AddUpdateListener(o) \/ Drop(o) PROVE IInv'
    BY <2>4, EditStep, ListenAndDropStep
  <2>5. ASSUME NEW o \in Objs, NEW x \in Objs, SetReference(o, x) PROVE IInv'
    BY <2>5, SetReferenceStep
  <2>6. CASE ClearAllUpdateListeners
    BY <2>6, ListenAndDropStep
  <2> QED
    BY <1>8, <2>1, <2>2, <2>3, <2>4, <2>5, <2>6 DEF ProgramStep
<1> QED
  BY <1>1, <1>2, <1>3, <1>4, <1>5, <1>6, <1>7, <1>8 DEF Next

\* The invariant holds in every state that the client and the worker can be in
\* (registry.ts, serde.ts, tracker.ts).
THEOREM Invariance == Spec => []IInv
BY InitInv, NextInv, PTL DEF Spec

\* Everything is of its kind (registry.ts, tracker.ts).
THEOREM TypeCorrect == Spec => []TypeOK
<1>1. IInv => TypeOK
  <2> SUFFICES ASSUME IInv PROVE TypeOK
    OBVIOUS
  <2>1. task \in [Tasks -> Task]
    BY DEF IInv, TaskInv, TaskOK
  <2>2. inflight \subseteq Batch
    BY DEF IInv, MessageInv, BatchOK
  <2> QED
    BY <2>1, <2>2 DEF IInv, WorkerInv, RegistryType, HeldInv, TaskInv, TypeOK
<1> QED
  BY <1>1, Invariance, PTL

\* A key has at most one instance, which knows its key, and what was removed
\* has no version (registry.ts:136-213).
THEOREM RegistryAgrees == Spec => []RegistryBijective
<1>1. IInv => RegistryBijective
  BY DEF IInv, RegistryInv, RegistryBijective
<1> QED
  BY <1>1, Invariance, PTL

\* An instance has what the worker stored with its version, in whatever order
\* deltas and answers arrive (serde.ts:865-995).
THEOREM ContentIsOfVersion == Spec => []ContentMatchesVersion
<1>1. IInv => ContentMatchesVersion
  <2> SUFFICES ASSUME IInv, NEW o \in Objs, version[o] > 0
               PROVE  /\ version[o] <= Latest(primaryKey[o])
                      /\ content[o].val = stored[primaryKey[o]][version[o]].val
    BY DEF ContentMatchesVersion
  <2>1. Matches(primaryKey[o], version[o], content[o].val, stored)
    BY DEF IInv, ContentInv, ValueOK
  <2>2. primaryKey[o] \in Keys
    BY ConstantsAssumption DEF IInv, RegistryInv, RegistryType
  <2>3. Latest(primaryKey[o]) = Len(stored[primaryKey[o]])
    BY <2>2, LastFacts DEF IInv
  <2> QED
    BY <2>1, <2>3 DEF Matches
<1> QED
  BY <1>1, Invariance, PTL

\* No reference is stored to an object that was not (serde.ts:123-164,
\* worker.ts:75-106).
THEOREM StoredReferencesAreStored == Spec => []ReferencesAreStored
<1>1. IInv => ReferencesAreStored
  BY DEF IInv, WorkerInv
<1> QED
  BY <1>1, Invariance, PTL

\* A save writes the newest value of a property or a new one, never an older
\* one (createInboundDataDelta, serde.ts:264-295).
THEOREM SavesRevertNothing == Spec => SaveRevertsNothing
<1> DEFINE New(k) == Len(stored'[k]) > Len(stored[k]) =>
                       stored'[k][Len(stored'[k])].val \in {OldVal(k), Len(stored'[k])}
<1>1. IInv /\ [Next]_vars => \A k \in Keys : New(k)
  <2> SUFFICES ASSUME IInv, [Next]_vars, NEW k \in Keys PROVE New(k)
    OBVIOUS
  <2>1. Len(stored[k]) \in Nat /\ Latest(k) = Len(stored[k])
    BY LastFacts DEF IInv
  <2>2. ASSUME stored' = stored PROVE New(k)
    BY <2>1, <2>2
  <2>3. ASSUME NEW j \in Keys, NEW c \in Changes(j), Store(j, c[1], c[2]) PROVE New(k)
    <3>1. /\ c[1] \in Nat /\ c[2] \in Refs /\ (c[1] = 0 => OldVal(j) = 0)
          /\ c[1] \in {OldVal(j), Latest(j) + 1}
          /\ c[2] # None => j \notin Targets /\ stored[c[2]] # <<>>
      BY ChangesFacts DEF IInv
    <3>2. stored' = [stored EXCEPT ![j] = Append(stored[j], [val |-> c[1], ref |-> c[2]])]
      BY <2>3 DEF Store
    <3>3. CASE k = j
      <4>1. stored'[k] = Append(stored[k], [val |-> c[1], ref |-> c[2]])
        BY <3>2, <3>3 DEF IInv, WorkerInv
      <4>2. /\ Len(stored'[k]) = Latest(k) + 1
            /\ stored'[k][Latest(k) + 1] = [val |-> c[1], ref |-> c[2]]
        BY <3>1, <3>3, <4>1, AppendedVersion DEF IInv
      <4> QED
        BY <3>1, <3>3, <4>2
    <3>4. CASE k # j
      <4>1. stored'[k] = stored[k]
        BY <3>2, <3>4 DEF IInv, WorkerInv
      <4>2. ~ (Len(stored'[k]) > Len(stored[k]))
        BY <2>1, <4>1
      <4> QED
        BY <4>2
    <3> QED
      BY <3>3, <3>4
  <2>4. ASSUME NEW t \in Tasks, AnswerSave(t) PROVE New(k)
    <3> DEFINE changed == {i \in task[t].inbound : Changed(i)}
    <3>1. CASE UNCHANGED stored
      BY <2>2, <3>1
    <3>2. CASE /\ \A i \in task[t].inbound : Accepts(i)
               /\ stored' = [x \in Keys |->
                    IF \E i \in changed : i.key = x
                    THEN LET i == CHOOSE j \in changed : j.key = x
                         IN  Append(stored[x], [val |-> SavedVal(i), ref |-> SavedRef(i)])
                    ELSE stored[x]]
      <4>1. changed = {i \in task[t].inbound : Changed(i)}
        OBVIOUS
      <4>2. deleted' = deleted /\ stored' = [x \in Keys |-> stored'[x]]
        BY <2>4, <3>2 DEF AnswerSave
      <4>3. Appends(changed, stored, stored')
        BY <3>2, SaveAppends
      <4> HIDE DEF changed
      <4>4. Len(stored'[k]) > Len(stored[k]) =>
              /\ Len(stored'[k]) = Latest(k) + 1
              /\ stored'[k][Len(stored'[k])].val \in {OldVal(k), Latest(k) + 1}
        BY <3>2, <4>1, <4>2, <4>3, SaveFacts
      <4> QED
        BY <4>4
    <3> QED
      BY <2>4, <3>1, <3>2 DEF AnswerSave
  <2>5. ASSUME NEW t \in Tasks, AnswerCall(t) PROVE New(k)
    <3>1. task[t].key \in Keys
      <4>1. TaskOK(task[t], primaryKey, stored)
        BY TaskParts
      <4> QED
        BY <2>5, <4>1 DEF AnswerCall, TaskOK, StageOK
    <3>2. \/ UNCHANGED stored
          \/ \E c \in Changes(task[t].key) : Store(task[t].key, c[1], c[2])
      BY <2>5 DEF AnswerCall
    <3> QED
      BY <2>2, <2>3, <3>1, <3>2
  <2>6. ASSUME NEW j \in Keys, OtherChanges(j) PROVE New(k)
    BY <2>3, <2>6 DEF OtherChanges
  <2>7. CASE \/ UNCHANGED vars
             \/ \E j \in Keys : OtherDeletes(j)
             \/ \E t \in Tasks : Work(t) \/ Resume(t) \/ AnswerGet(t)
             \/ \E t \in Tasks, m \in inflight : Deliver(t, m)
             \/ \E o \in Objs : Collect(o)
             \/ ProgramStep
    <3>1. (\E j \in Keys : OtherDeletes(j)) \/ UNCHANGED vars => stored' = stored
      BY DEF OtherDeletes, vars
    <3>2. ASSUME NEW t \in Tasks, Work(t) PROVE stored' = stored
      BY <3>2 DEF Work, MergeDelta, MergeDone, ResolveLocally, ResolveRemotely, ResolveDone,
                  ReplaceData, ReplaceDone, FireMessage, FireUpdated, ApplyDeletes, workerVars
    <3>3. ASSUME NEW t \in Tasks, Resume(t) \/ AnswerGet(t) PROVE stored' = stored
      BY <3>3 DEF Resume, ReceiveGet, ReceiveSave, ListenerReturns, AnswerGet, workerVars
    <3>4. (\E t \in Tasks, m \in inflight : Deliver(t, m)) \/ (\E o \in Objs : Collect(o))
            => stored' = stored
      BY DEF Deliver, Collect, workerVars
    <3>5. ProgramStep => stored' = stored
      BY DEF ProgramStep, StartGet, StartCall, StartSave, NewData, Edit, AddUpdateListener,
             Drop, SetReference, ClearAllUpdateListeners, workerVars
    <3> QED
      BY <2>2, <2>7, <3>1, <3>2, <3>3, <3>4, <3>5
  <2> QED
    BY <2>4, <2>5, <2>6, <2>7 DEF Next, Answer
<1>2. IInv /\ [Next]_vars => [\A k \in Keys : New(k)]_vars
  BY <1>1
<1> QED
  BY <1>2, Invariance, PTL DEF Spec, SaveRevertsNothing

=============================================================================
