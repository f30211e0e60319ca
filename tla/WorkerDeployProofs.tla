------------------------- MODULE WorkerDeployProofs -------------------------
(***************************************************************************)
(* Proofs about WorkerDeploy, for any developers, deployments and code and *)
(* any number of workers and versions.                                     *)
(***************************************************************************)
EXTENDS WorkerDeploy, TLAPS, FiniteSetTheorems, SequenceTheorems, WellFoundedInduction

(* The inductive invariant.                                                *)

\* A deployment of a worker that has a version, and one that creates a worker.
Updates(r) == deploy[r].version # 0 /\ deploy[r].pc \in {"selected", "asked", "set up", "late"}
Creates(r) == deploy[r].version = 0 /\ deploy[r].pc \in {"asked", "set up", "late", "undo"}

\* A directory and a request have both an id and a version, or neither; what
\* selected the row is an update.
IdentityInv ==
    /\ \A d \in Developers : json[d].worker = 0 <=> json[d].version = 0
    /\ \A r \in Requests :
         /\ deploy[r].pc = "sent" => (deploy[r].worker = 0 <=> deploy[r].version = 0)
         /\ deploy[r].pc \notin {"idle", "sent"} => deploy[r].worker # 0
         /\ deploy[r].pc = "selected" => deploy[r].version # 0
    /\ row.worker = 0 => row = NoRow

\* Whoever waits for a setup, or has had it, holds the row.
HoldsRow == \A r \in Requests : deploy[r].pc \in {"asked", "set up"} => written = r

\* Ids of workers are given once.
IdsAreNew ==
    /\ row.worker < nextWorker
    /\ \A w \in 1..MaxWorkers : w >= nextWorker => serenity[w].version = 0
    /\ \A r \in Requests : Updates(r) \/ Creates(r) => deploy[r].worker < nextWorker

\* The worker that is created is known to nobody else.
CreatesAlone ==
    \A r, q \in Requests :
      /\ Creates(r) /\ deploy[q].worker = deploy[r].worker /\ (Updates(q) \/ Creates(q))
      => q = r

CreatesNew ==
    \A r \in Requests : Creates(r) =>
      /\ deploy[r].worker # row.worker
      /\ deploy[r].pc \in {"asked", "late"} => serenity[deploy[r].worker].version = 0

\* An update starts from the version of the row or from an earlier one.
StartsFromRow ==
    \A r \in Requests : Updates(r) =>
      /\ deploy[r].worker = row.worker => deploy[r].version <= row.version
      /\ deploy[r].pc \in {"asked", "set up"} => deploy[r].worker = row.worker

\* What Serenity answered is what the deployment asked for, and is so still.
IsLive(r) ==
    /\ serenity[deploy[r].worker].version = deploy[r].version + 1
    /\ serenity[deploy[r].worker].index = Index(r)
    /\ deploy[r].version # 0 => deploy[r].version = row.version

SetUpInv == \A r \in Requests : deploy[r].pc = "set up" => IsLive(r)

\* Serenity is at the version of the row or one ahead.
RowIsLive ==
    row.worker # 0 =>
      LET live == serenity[row.worker]
      IN  /\ live.version \in {row.version, row.version + 1}
          /\ live.version = row.version => live.index = row.index

IInv ==
    /\ TypeOK /\ IdentityInv /\ HoldsRow /\ IdsAreNew /\ CreatesAlone /\ CreatesNew
    /\ StartsFromRow /\ SetUpInv /\ RowIsLive

-----------------------------------------------------------------------------
LEMMA MaxWorkersType == MaxWorkers \in Nat
  BY BoundsAssumption DEF MaxWorkers

LEMMA Successor == \A n \in Nat : n + 1 \in Nat /\ n + 1 # n /\ n + 1 # 0 /\ n <= n
  OBVIOUS

LEMMA Positive == \A m \in Nat : \A n \in 0..m : n # 0 => n \in 1..m
  OBVIOUS

\* The fields of a request.
LEMMA Fields == DOMAIN Idle = {"pc", "dev", "worker", "version", "source", "classes", "last"}
  BY DEF Idle

LEMMA InitIInv == Init => IInv
<1> SUFFICES ASSUME Init PROVE IInv
  OBVIOUS
<1> USE MaxWorkersType DEF Init
<1>1. /\ row.worker = 0 /\ row.version = 0 /\ row = NoRow
      /\ DOMAIN json = Developers /\ DOMAIN deploy = Requests /\ DOMAIN serenity = 1..MaxWorkers
  BY DEF NoRow
<1>2. \A d \in Developers : /\ DOMAIN json[d] = DOMAIN NoJson
                            /\ json[d].worker = 0 /\ json[d].version = 0
  BY DEF NoJson
<1>3. \A r \in Requests :
        /\ DOMAIN deploy[r] = DOMAIN Idle
        /\ deploy[r].pc = "idle" /\ deploy[r].dev = Nobody
        /\ deploy[r].worker = 0 /\ deploy[r].version = 0
  BY DEF Idle
<1>4. \A w \in 1..MaxWorkers : serenity[w].version = 0
  OBVIOUS
<1>5. written = NoRequest /\ gone = {} /\ deletion = 0 /\ nextWorker = 1
  OBVIOUS
<1> HIDE DEF Init
<1>6. TypeOK
  <2>1. \A d \in Developers : IsJson(json[d])
    BY <1>2 DEF IsJson
  <2>2. \A r \in Requests : IsRequest(deploy[r])
    <3> TAKE r \in Requests
    <3>1. deploy[r].pc \in Pcs
      BY <1>3 DEF Pcs
    <3>2. deploy[r].dev \in Developers \cup {Nobody}
      BY <1>3
    <3>3. deploy[r].worker \in 0..MaxWorkers /\ deploy[r].version \in Nat
      BY <1>3
    <3> QED
      BY <1>3, <3>1, <3>2, <3>3 DEF IsRequest
  <2>3. \A r \in Requests : written = r => deploy[r].pc \in {"asked", "set up"}
    BY <1>5, NoRequestAssumption
  <2>4. JayneOK
    BY <1>1, <1>5 DEF JayneOK
  <2>5. SerenityOK
    BY <1>1, <1>4, <1>5 DEF SerenityOK
  <2>6. DirectoriesOK /\ RequestsOK
    BY <1>1, <2>1, <2>2 DEF DirectoriesOK, RequestsOK
  <2> QED
    BY <2>3, <2>4, <2>5, <2>6 DEF TypeOK
<1>7. IdentityInv /\ HoldsRow
  BY <1>1, <1>2, <1>3 DEF IdentityInv, HoldsRow
<1>8. \A r \in Requests : ~ Updates(r) /\ ~ Creates(r)
  BY <1>3 DEF Updates, Creates
<1>9. IdsAreNew /\ CreatesAlone /\ CreatesNew
  BY <1>1, <1>4, <1>5, <1>8 DEF IdsAreNew, CreatesAlone, CreatesNew
<1>10. StartsFromRow /\ SetUpInv /\ RowIsLive
  BY <1>1, <1>3, <1>8 DEF StartsFromRow, SetUpInv, IsLive, RowIsLive
<1> QED
  BY <1>6, <1>7, <1>9, <1>10 DEF IInv

-----------------------------------------------------------------------------
(* What a step of one request changes, and what it leaves to the others.   *)

\* Neither q nor what is asked of it by the invariant changes.
Keeps(q) ==
    /\ deploy'[q] = deploy[q] /\ (Index(q))' = Index(q)
    /\ (Updates(q))' <=> Updates(q)
    /\ (Creates(q))' <=> Creates(q)

LEMMA KeepsOthers ==
  ASSUME NEW q \in Requests, deploy'[q] = deploy[q]
  PROVE  Keeps(q)
  BY DEF Keeps, Index, Updates, Creates

LEMMA StepEffect ==
  ASSUME TypeOK, NEW r \in Requests, NEW pc \in Pcs, Step(r, pc)
  PROVE  /\ RequestsOK'
         /\ \A q \in Requests \ {r} : Keeps(q)
         /\ deploy'[r].pc = pc
         /\ deploy'[r].worker = deploy[r].worker
         /\ deploy'[r].version = deploy[r].version
         /\ (Index(r))' = Index(r)
<1>1. /\ DOMAIN deploy' = Requests
      /\ \A q \in Requests \ {r} : deploy'[q] = deploy[q]
      /\ deploy'[r] = [deploy[r] EXCEPT !.pc = pc]
  BY DEF Step, TypeOK, RequestsOK
<1>2. IsRequest(deploy[r])
  BY DEF TypeOK, RequestsOK
<1>3. /\ DOMAIN deploy'[r] = DOMAIN Idle
      /\ deploy'[r].pc = pc
      /\ deploy'[r].dev = deploy[r].dev
      /\ deploy'[r].worker = deploy[r].worker
      /\ deploy'[r].version = deploy[r].version
      /\ deploy'[r].source = deploy[r].source
      /\ deploy'[r].classes = deploy[r].classes
      /\ deploy'[r].last = deploy[r].last
  BY <1>1, <1>2, Fields DEF IsRequest
<1>4. (Index(r))' = Index(r)
  BY <1>3 DEF Index
<1>5. IsRequest(deploy[r])'
  BY <1>2, <1>3 DEF IsRequest
<1>6. RequestsOK'
  BY <1>1, <1>5 DEF TypeOK, RequestsOK, IsRequest
<1> QED
  BY <1>1, <1>3, <1>4, <1>6, KeepsOthers

LEMMA EndEffect ==
  ASSUME TypeOK, NEW r \in Requests, End(r)
  PROVE  /\ RequestsOK'
         /\ \A q \in Requests \ {r} : Keeps(q)
         /\ deploy'[r].pc = "idle"
<1>1. /\ DOMAIN deploy' = Requests
      /\ \A q \in Requests \ {r} : deploy'[q] = deploy[q]
      /\ deploy'[r] = Idle
  BY DEF End, TypeOK, RequestsOK
<1>2. /\ Idle.pc = "idle" /\ Idle.worker = 0 /\ Idle.version = 0 /\ Idle.dev = Nobody
  BY DEF Idle
<1>3. IsRequest(Idle)
  <2>1. Idle.pc \in Pcs
    BY <1>2 DEF Pcs
  <2>2. Idle.dev \in Developers \cup {Nobody}
    BY <1>2
  <2>3. Idle.worker \in 0..MaxWorkers /\ Idle.version \in Nat
    BY <1>2, MaxWorkersType
  <2> QED
    BY <2>1, <2>2, <2>3 DEF IsRequest
<1>4. IsRequest(deploy[r])'
  BY <1>1, <1>3 DEF IsRequest
<1>5. RequestsOK'
  BY <1>1, <1>4 DEF TypeOK, RequestsOK, IsRequest
<1> QED
  BY <1>1, <1>2, <1>5, KeepsOthers

\* The numbers that the proofs compare.
LEMMA Numbers ==
  ASSUME TypeOK
  PROVE  /\ row.worker \in 0..MaxWorkers /\ row.version \in Nat
         /\ nextWorker \in Nat /\ nextWorker >= 1 /\ nextWorker <= MaxWorkers + 1
         /\ \A q \in Requests : deploy[q].worker \in 0..MaxWorkers /\ deploy[q].version \in Nat
         /\ \A w \in 1..MaxWorkers : serenity[w].version \in Nat
<1>1. row.worker \in 0..MaxWorkers /\ row.version \in Nat /\ nextWorker \in 1..(MaxWorkers + 1)
  BY DEF TypeOK, JayneOK
<1>2. \A q \in Requests : deploy[q].worker \in 0..MaxWorkers /\ deploy[q].version \in Nat
  BY DEF TypeOK, RequestsOK, IsRequest
<1>3. \A w \in 1..MaxWorkers : serenity[w].version \in Nat
  BY DEF TypeOK, SerenityOK
<1> QED
  BY <1>1, <1>2, <1>3, MaxWorkersType

\* A request ends: Select, Insert, Save and Setup that fail, Fail, UndoSetup,
\* Receive and Lose.
LEMMA EndIInv ==
  ASSUME IInv, NEW r \in Requests, End(r),
         written' # r, written' = written \/ (written = r /\ written' = NoRequest),
         nextWorker' \in {nextWorker, nextWorker + 1}, nextWorker' <= MaxWorkers + 1,
         gone' \subseteq 1..MaxWorkers, DirectoriesOK',
         \A d \in Developers : json'[d].worker = 0 <=> json'[d].version = 0,
         UNCHANGED <<row, serenity, deletion>>
  PROVE  IInv'
<1> TypeOK /\ IdentityInv /\ HoldsRow /\ IdsAreNew /\ CreatesAlone /\ CreatesNew
    /\ StartsFromRow /\ SetUpInv /\ RowIsLive
  BY DEF IInv
<1>1. /\ RequestsOK'
      /\ \A q \in Requests \ {r} : Keeps(q)
      /\ deploy'[r].pc = "idle"
  BY EndEffect
<1>2. ~ (Updates(r))' /\ ~ (Creates(r))'
  BY <1>1 DEF Updates, Creates
<1>3. /\ row.worker \in Nat /\ nextWorker \in Nat /\ nextWorker >= 1 /\ MaxWorkers \in Nat
      /\ \A q \in Requests : deploy[q].worker \in Nat
  BY Numbers, MaxWorkersType
<1>4. nextWorker' \in Nat /\ nextWorker' >= nextWorker
  BY <1>3
<1>5. TypeOK'
  <2>1. JayneOK'
    <3>1. written' \in Requests \cup {NoRequest}
      BY DEF TypeOK, JayneOK
    <3>2. nextWorker' \in 1..(MaxWorkers + 1)
      BY <1>3, <1>4
    <3> QED
      BY <3>1, <3>2 DEF TypeOK, JayneOK
  <2>2. SerenityOK'
    BY DEF TypeOK, SerenityOK
  <2>3. \A q \in Requests : written' = q => deploy'[q].pc \in {"asked", "set up"}
    BY <1>1, NoRequestAssumption DEF TypeOK, Keeps
  <2> QED
    BY <1>1, <2>1, <2>2, <2>3 DEF TypeOK
<1>6. IdentityInv' /\ HoldsRow'
  BY <1>1 DEF IdentityInv, HoldsRow, Keeps
<1>7. IdsAreNew'
  <2>1. row'.worker < nextWorker'
    BY <1>3, <1>4 DEF IdsAreNew
  <2>2. \A w \in 1..MaxWorkers : w >= nextWorker' => serenity'[w].version = 0
    BY <1>3, <1>4 DEF IdsAreNew
  <2>3. \A q \in Requests : (Updates(q))' \/ (Creates(q))' => deploy'[q].worker < nextWorker'
    BY <1>1, <1>2, <1>3, <1>4 DEF IdsAreNew, Keeps
  <2> QED
    BY <2>1, <2>2, <2>3 DEF IdsAreNew
<1>8. CreatesAlone' /\ CreatesNew'
  BY <1>1, <1>2 DEF CreatesAlone, CreatesNew, Keeps
<1>9. StartsFromRow' /\ SetUpInv' /\ RowIsLive'
  BY <1>1, <1>2 DEF StartsFromRow, SetUpInv, IsLive, RowIsLive, Keeps
<1> QED
  BY <1>5, <1>6, <1>7, <1>8, <1>9 DEF IInv

-----------------------------------------------------------------------------
(* The steps of a developer and of a deletion.                             *)

\* A request is sent.
LEMMA StartIInv ==
  ASSUME IInv, NEW r \in Requests, NEW d \in Developers, StartDeploy(d, r)
  PROVE  IInv'
<1> TypeOK /\ IdentityInv /\ HoldsRow /\ IdsAreNew /\ CreatesAlone /\ CreatesNew
    /\ StartsFromRow /\ SetUpInv /\ RowIsLive
  BY DEF IInv
<1> PICK j \in Opened, code \in Codes :
       /\ json' = [json EXCEPT ![d] = j]
       /\ \E classes \in ClassKeys(j.known) :
            deploy' = [deploy EXCEPT ![r] = RequestOf(d, j, code, classes)]
  BY DEF StartDeploy
<1> PICK classes \in ClassKeys(j.known) :
       deploy' = [deploy EXCEPT ![r] = RequestOf(d, j, code, classes)]
  OBVIOUS
<1>1. UNCHANGED <<row, written, nextWorker, serenity, gone, deletion>>
  BY DEF StartDeploy, jayne
<1>2. IsJson(j) /\ (j.worker = 0 <=> j.version = 0)
  <2>1. CASE j \in {json[e] : e \in Developers}
    <3>1. PICK e \in Developers : j = json[e]
      BY <2>1
    <3>2. IsJson(json[e])
      BY DEF TypeOK, DirectoriesOK
    <3>3. json[e].worker = 0 <=> json[e].version = 0
      BY DEF IdentityInv
    <3> QED
      BY <3>1, <3>2, <3>3
  <2>2. CASE j = NoJson
    <3>1. j.worker = 0 /\ j.version = 0
      BY <2>2 DEF NoJson
    <3> QED
      BY <2>2, <3>1, MaxWorkersType DEF IsJson
  <2> QED
    BY <2>1, <2>2 DEF Opened
<1>3. DirectoriesOK' /\ \A e \in Developers : json'[e].worker = 0 <=> json'[e].version = 0
  <2>1. /\ DOMAIN json' = Developers /\ json'[d] = j
        /\ \A e \in Developers \ {d} : json'[e] = json[e]
    BY DEF TypeOK, DirectoriesOK
  <2>2. \A e \in Developers : IsJson(json'[e])
    BY <1>2, <2>1 DEF TypeOK, DirectoriesOK
  <2>3. \A e \in Developers : json'[e].worker = 0 <=> json'[e].version = 0
    BY <1>2, <2>1 DEF IdentityInv
  <2> QED
    BY <2>1, <2>2, <2>3 DEF DirectoriesOK, IsJson
<1>4. LET q == RequestOf(d, j, code, classes)
      IN  q.pc = "sent" /\ q.dev = d /\ q.worker = j.worker /\ q.version = j.version
          /\ DOMAIN q = DOMAIN Idle
  BY Fields DEF RequestOf
<1>5. /\ DOMAIN deploy' = Requests /\ deploy'[r] = RequestOf(d, j, code, classes)
      /\ \A q \in Requests \ {r} : deploy'[q] = deploy[q]
  BY DEF TypeOK, RequestsOK
<1>6. \A q \in Requests \ {r} : Keeps(q)
  BY <1>5, KeepsOthers
<1>7. /\ deploy'[r].pc = "sent"
      /\ deploy'[r].worker = 0 <=> deploy'[r].version = 0
      /\ ~ (Updates(r))' /\ ~ (Creates(r))'
  BY <1>2, <1>4, <1>5 DEF Updates, Creates
<1>8. deploy[r].pc = "idle"
  BY DEF StartDeploy, Idle
<1>9. TypeOK'
  <2>1. IsRequest(deploy'[r])
    <3>1. deploy'[r].pc \in Pcs
      BY <1>7 DEF Pcs
    <3>2. deploy'[r].dev \in Developers \cup {Nobody}
      BY <1>4, <1>5
    <3>3. deploy'[r].worker \in 0..MaxWorkers /\ deploy'[r].version \in Nat
      BY <1>2, <1>4, <1>5 DEF IsJson
    <3> QED
      BY <1>4, <1>5, <3>1, <3>2, <3>3 DEF IsRequest
  <2>2. RequestsOK'
    BY <1>5, <2>1 DEF TypeOK, RequestsOK, IsRequest
  <2>3. JayneOK' /\ SerenityOK'
    BY <1>1 DEF TypeOK, JayneOK, SerenityOK
  <2>4. \A q \in Requests : written' = q => deploy'[q].pc \in {"asked", "set up"}
    BY <1>1, <1>6, <1>8 DEF TypeOK, Keeps
  <2> QED
    BY <1>3, <2>2, <2>3, <2>4 DEF TypeOK
<1>10. IdentityInv' /\ HoldsRow'
  <2>1. \A q \in Requests :
          /\ deploy'[q].pc = "sent" => (deploy'[q].worker = 0 <=> deploy'[q].version = 0)
          /\ deploy'[q].pc \notin {"idle", "sent"} => deploy'[q].worker # 0
          /\ deploy'[q].pc = "selected" => deploy'[q].version # 0
    BY <1>6, <1>7 DEF IdentityInv, Keeps
  <2>2. row'.worker = 0 => row' = NoRow
    BY <1>1 DEF IdentityInv
  <2>3. IdentityInv'
    BY <1>3, <2>1, <2>2 DEF IdentityInv
  <2>4. HoldsRow'
    BY <1>1, <1>6, <1>7 DEF HoldsRow, Keeps
  <2> QED
    BY <2>3, <2>4
<1>11. IdsAreNew'
  BY <1>1, <1>6, <1>7 DEF IdsAreNew, Keeps
<1>12. CreatesAlone' /\ CreatesNew'
  BY <1>1, <1>6, <1>7 DEF CreatesAlone, CreatesNew, Keeps
<1>13. StartsFromRow' /\ SetUpInv' /\ RowIsLive'
  BY <1>1, <1>6, <1>7 DEF StartsFromRow, SetUpInv, IsLive, RowIsLive, Keeps
<1> QED
  BY <1>9, <1>10, <1>11, <1>12, <1>13 DEF IInv

\* The requests and the directories do not change.
LEMMA SameRequests ==
  ASSUME UNCHANGED <<json, deploy>>
  PROVE  /\ DirectoriesOK' = DirectoriesOK /\ RequestsOK' = RequestsOK
         /\ \A r \in Requests : Keeps(r)
<1>1. \A r \in Requests : Keeps(r)
  BY KeepsOthers
<1> QED
  BY <1>1 DEF DirectoriesOK, RequestsOK, IsJson, IsRequest

LEMMA DeleteFromSerenityIInv ==
  ASSUME IInv, DeleteFromSerenity
  PROVE  IInv'
<1> TypeOK /\ IdentityInv /\ HoldsRow /\ IdsAreNew /\ CreatesAlone /\ CreatesNew
    /\ StartsFromRow /\ SetUpInv /\ RowIsLive
  BY DEF IInv
<1> UNCHANGED <<json, deploy, row, written, nextWorker, serenity>>
  BY DEF DeleteFromSerenity, jayne
<1>1. DirectoriesOK' = DirectoriesOK /\ RequestsOK' = RequestsOK /\ \A r \in Requests : Keeps(r)
  BY SameRequests
<1>2. TypeOK'
  <2>1. row.worker \in 1..MaxWorkers
    BY Numbers, MaxWorkersType DEF DeleteFromSerenity
  <2>2. JayneOK' /\ SerenityOK'
    BY <2>1 DEF DeleteFromSerenity, TypeOK, JayneOK, SerenityOK
  <2> QED
    BY <1>1, <2>2 DEF TypeOK
<1>3. IdentityInv' /\ HoldsRow' /\ IdsAreNew'
  BY <1>1 DEF IdentityInv, HoldsRow, IdsAreNew, Keeps
<1>4. CreatesAlone' /\ CreatesNew'
  BY <1>1 DEF CreatesAlone, CreatesNew, Keeps
<1>5. StartsFromRow' /\ SetUpInv' /\ RowIsLive'
  BY <1>1 DEF StartsFromRow, SetUpInv, IsLive, RowIsLive, Keeps
<1> QED
  BY <1>2, <1>3, <1>4, <1>5 DEF IInv

LEMMA DeleteRowIInv ==
  ASSUME IInv, DeleteRow
  PROVE  IInv'
<1> TypeOK /\ IdentityInv /\ HoldsRow /\ IdsAreNew /\ CreatesAlone /\ CreatesNew
    /\ StartsFromRow /\ SetUpInv /\ RowIsLive
  BY DEF IInv
<1> UNCHANGED <<json, deploy, written, nextWorker, serenity, gone>>
  BY DEF DeleteRow
<1>1. DirectoriesOK' = DirectoriesOK /\ RequestsOK' = RequestsOK /\ \A r \in Requests : Keeps(r)
  BY SameRequests
<1>2. row' = row \/ (row' = NoRow /\ row'.worker = 0 /\ written = NoRequest)
  BY DEF DeleteRow, NoRow
<1>3. TypeOK'
  <2>1. row'.worker \in 0..MaxWorkers /\ row'.version \in Nat
    <3>1. row.worker \in 0..MaxWorkers /\ row.version \in Nat
      BY Numbers
    <3>2. NoRow.worker = 0 /\ NoRow.version = 0
      BY DEF NoRow
    <3> QED
      BY <1>2, <3>1, <3>2, MaxWorkersType
  <2>2. deletion' \in 0..MaxWorkers
    BY MaxWorkersType DEF DeleteRow
  <2>3. JayneOK' /\ SerenityOK'
    BY <2>1, <2>2 DEF TypeOK, JayneOK, SerenityOK
  <2> QED
    BY <1>1, <2>3 DEF TypeOK
<1>4. CASE row' = row
  <2>1. IdentityInv' /\ HoldsRow' /\ IdsAreNew'
    BY <1>1, <1>4 DEF IdentityInv, HoldsRow, IdsAreNew, Keeps
  <2>2. CreatesAlone' /\ CreatesNew'
    BY <1>1, <1>4 DEF CreatesAlone, CreatesNew, Keeps
  <2>3. StartsFromRow' /\ SetUpInv' /\ RowIsLive'
    BY <1>1, <1>4 DEF StartsFromRow, SetUpInv, IsLive, RowIsLive, Keeps
  <2> QED
    BY <1>3, <2>1, <2>2, <2>3 DEF IInv
<1>5. CASE row' = NoRow /\ row'.worker = 0 /\ written = NoRequest
  <2>1. \A r \in Requests : deploy[r].pc \notin {"asked", "set up"}
    BY <1>5, NoRequestAssumption DEF HoldsRow
  <2>2. \A r \in Requests : Updates(r) \/ Creates(r) => deploy[r].worker # 0
    BY DEF Updates, Creates, IdentityInv
  <2>3. IdentityInv' /\ HoldsRow'
    BY <1>1, <1>5 DEF IdentityInv, HoldsRow, Keeps
  <2>4. IdsAreNew'
    BY <1>1, <1>5, Numbers DEF IdsAreNew, Keeps
  <2>5. CreatesAlone' /\ CreatesNew'
    BY <1>1, <1>5, <2>2 DEF CreatesAlone, CreatesNew, Keeps
  <2>6. StartsFromRow' /\ SetUpInv' /\ RowIsLive'
    BY <1>1, <1>5, <2>1, <2>2 DEF StartsFromRow, SetUpInv, IsLive, RowIsLive, Keeps
  <2> QED
    BY <1>3, <2>3, <2>4, <2>5, <2>6 DEF IInv
<1> QED
  BY <1>2, <1>4, <1>5

-----------------------------------------------------------------------------
(* The steps of a request that goes on.                                    *)

\* What of TypeOK is not about the requests.
LEMMA OtherTypes ==
  ASSUME TypeOK, NEW r \in Requests, RequestsOK', \A q \in Requests \ {r} : Keeps(q),
         written' \in {written, NoRequest, r},
         written' = r => deploy'[r].pc \in {"asked", "set up"},
         nextWorker' \in 1..(MaxWorkers + 1),
         UNCHANGED <<json, row, serenity, gone, deletion>>
  PROVE  TypeOK'
<1>1. DirectoriesOK' /\ SerenityOK'
  BY DEF TypeOK, DirectoriesOK, SerenityOK, IsJson
<1>2. JayneOK'
  BY DEF TypeOK, JayneOK
<1>3. \A q \in Requests : written' = q => deploy'[q].pc \in {"asked", "set up"}
  BY NoRequestAssumption DEF TypeOK, Keeps
<1> QED
  BY <1>1, <1>2, <1>3 DEF TypeOK

\* The row of the version that the deployment starts from is found.
LEMMA SelectIInv ==
  ASSUME IInv, NEW r \in Requests, deploy[r].pc = "sent", IsUpdate(r),
         row.worker = deploy[r].worker, row.version = deploy[r].version, Step(r, "selected"),
         UNCHANGED <<json, row, written, nextWorker, serenity, gone, deletion>>
  PROVE  IInv'
<1> TypeOK /\ IdentityInv /\ HoldsRow /\ IdsAreNew /\ CreatesAlone /\ CreatesNew
    /\ StartsFromRow /\ SetUpInv /\ RowIsLive
  BY DEF IInv
<1>1. /\ RequestsOK'
      /\ \A q \in Requests \ {r} : Keeps(q)
      /\ deploy'[r].pc = "selected"
      /\ deploy'[r].worker = deploy[r].worker
      /\ deploy'[r].version = deploy[r].version
  BY StepEffect DEF Pcs
<1>2. (Updates(r))' /\ ~ (Creates(r))'
  BY <1>1 DEF Updates, Creates, IsUpdate
<1>3. /\ row.worker \in Nat /\ row.version \in Nat
      /\ deploy[r].worker # 0 /\ deploy[r].version # 0
  BY Numbers DEF IsUpdate
<1>4. TypeOK'
  BY <1>1, OtherTypes DEF TypeOK, JayneOK
<1>5. IdentityInv' /\ HoldsRow'
  BY <1>1, <1>3 DEF IdentityInv, HoldsRow, Keeps
<1>6. IdsAreNew'
  BY <1>1, <1>2, <1>3 DEF IdsAreNew, Keeps
<1>7. CreatesAlone' /\ CreatesNew'
  BY <1>1, <1>2, <1>3 DEF CreatesAlone, CreatesNew, Keeps
<1>8. StartsFromRow'
  <2> SUFFICES ASSUME NEW q \in Requests, (Updates(q))'
               PROVE  /\ deploy'[q].worker = row'.worker => deploy'[q].version <= row'.version
                      /\ deploy'[q].pc \in {"asked", "set up"} => deploy'[q].worker = row'.worker
    BY DEF StartsFromRow
  <2>1. CASE q = r
    <3>1. row' = row /\ row.version <= row.version
      BY <1>3
    <3>2. deploy'[r].version <= row'.version
      BY <1>1, <3>1
    <3> QED
      BY <1>1, <2>1, <3>2
  <2>2. CASE q # r
    BY <1>1, <2>2 DEF StartsFromRow, Keeps
  <2> QED
    BY <2>1, <2>2
<1>9. SetUpInv' /\ RowIsLive'
  BY <1>1 DEF SetUpInv, IsLive, RowIsLive, Keeps
<1> QED
  BY <1>4, <1>5, <1>6, <1>7, <1>8, <1>9 DEF IInv

\* An update writes the row, which is of its worker still.
LEMMA SaveIInv ==
  ASSUME IInv, NEW r \in Requests, deploy[r].pc = "selected", written = NoRequest,
         row.worker = deploy[r].worker, Step(r, "asked"), written' = r,
         UNCHANGED <<json, row, nextWorker, serenity, gone, deletion>>
  PROVE  IInv'
<1> TypeOK /\ IdentityInv /\ HoldsRow /\ IdsAreNew /\ CreatesAlone /\ CreatesNew
    /\ StartsFromRow /\ SetUpInv /\ RowIsLive
  BY DEF IInv
<1>1. /\ RequestsOK'
      /\ \A q \in Requests \ {r} : Keeps(q)
      /\ deploy'[r].pc = "asked"
      /\ deploy'[r].worker = deploy[r].worker
      /\ deploy'[r].version = deploy[r].version
  BY StepEffect DEF Pcs
<1>2. deploy[r].worker # 0 /\ row.worker \in Nat /\ row.version \in Nat /\ deploy[r].version \in Nat
  BY Numbers DEF IdentityInv
<1>3. \A q \in Requests : deploy[q].pc \notin {"asked", "set up"}
  BY NoRequestAssumption DEF HoldsRow
<1>4. TypeOK'
  BY <1>1, OtherTypes DEF TypeOK, JayneOK
<1>5. IdentityInv' /\ HoldsRow'
  BY <1>1, <1>2, <1>3 DEF IdentityInv, HoldsRow, Keeps
<1>6. Updates(r) /\ (Updates(r))' /\ ~ (Creates(r))'
  BY <1>1 DEF Updates, Creates, IdentityInv
<1>7. IdsAreNew'
  BY <1>1, <1>6 DEF IdsAreNew, Keeps
<1>8. CreatesAlone' /\ CreatesNew'
  BY <1>1, <1>6 DEF CreatesAlone, CreatesNew, Keeps
<1>9. StartsFromRow'
  BY <1>1, <1>6 DEF StartsFromRow, Keeps
<1>10. SetUpInv' /\ RowIsLive'
  BY <1>1 DEF SetUpInv, IsLive, RowIsLive, Keeps
<1> QED
  BY <1>4, <1>5, <1>6, <1>7, <1>8, <1>9, <1>10 DEF IInv

\* What a creation that inserts its row changes.
LEMMA InsertEffect ==
  ASSUME TypeOK, NEW r \in Requests, nextWorker <= MaxWorkers,
         deploy' = [deploy EXCEPT ![r].pc = "asked", ![r].worker = nextWorker]
  PROVE  /\ RequestsOK'
         /\ \A q \in Requests \ {r} : Keeps(q)
         /\ deploy'[r].pc = "asked"
         /\ deploy'[r].worker = nextWorker
         /\ deploy'[r].version = deploy[r].version
         /\ DOMAIN deploy'[r] = DOMAIN Idle
<1>1. /\ DOMAIN deploy' = Requests
      /\ \A q \in Requests \ {r} : deploy'[q] = deploy[q]
      /\ deploy'[r] = [deploy[r] EXCEPT !.pc = "asked", !.worker = nextWorker]
  BY DEF TypeOK, RequestsOK
<1>2. IsRequest(deploy[r])
  BY DEF TypeOK, RequestsOK
<1>3. /\ DOMAIN deploy'[r] = DOMAIN Idle
      /\ deploy'[r].pc = "asked"
      /\ deploy'[r].dev = deploy[r].dev
      /\ deploy'[r].worker = nextWorker
      /\ deploy'[r].version = deploy[r].version
  BY <1>1, <1>2, Fields DEF IsRequest
<1>4. IsRequest(deploy[r])'
  <2>1. deploy'[r].pc \in Pcs
    BY <1>3 DEF Pcs
  <2>2. deploy'[r].dev \in Developers \cup {Nobody} /\ deploy'[r].worker \in 0..MaxWorkers
    BY <1>2, <1>3, Numbers, MaxWorkersType DEF IsRequest
  <2>3. deploy'[r].version \in Nat
    BY <1>2, <1>3 DEF IsRequest
  <2> QED
    BY <1>3, <2>1, <2>2, <2>3 DEF IsRequest
<1>5. RequestsOK'
  BY <1>1, <1>4 DEF TypeOK, RequestsOK, IsRequest
<1> QED
  BY <1>1, <1>3, <1>5, KeepsOthers

LEMMA InsertIInv ==
  ASSUME IInv, NEW r \in Requests, deploy[r].pc = "sent", ~ IsUpdate(r), row.worker = 0,
         written = NoRequest, nextWorker <= MaxWorkers, nextWorker' = nextWorker + 1,
         written' = r,
         deploy' = [deploy EXCEPT ![r].pc = "asked", ![r].worker = nextWorker],
         UNCHANGED <<json, row, serenity, gone, deletion>>
  PROVE  IInv'
<1> TypeOK /\ IdentityInv /\ HoldsRow /\ IdsAreNew /\ CreatesAlone /\ CreatesNew
    /\ StartsFromRow /\ SetUpInv /\ RowIsLive
  BY DEF IInv
<1>1. /\ RequestsOK'
      /\ \A q \in Requests \ {r} : Keeps(q)
      /\ deploy'[r].pc = "asked"
      /\ deploy'[r].worker = nextWorker
      /\ deploy'[r].version = deploy[r].version
  BY InsertEffect
<1>2. /\ nextWorker \in 1..MaxWorkers /\ nextWorker \in Nat
      /\ \A q \in Requests : deploy[q].worker \in Nat
  BY Numbers, MaxWorkersType
<1>3. deploy[r].version = 0
  BY DEF IdentityInv, IsUpdate
<1>4. ~ (Updates(r))' /\ (Creates(r))' /\ ~ Updates(r) /\ ~ Creates(r)
  BY <1>1, <1>3 DEF Updates, Creates
<1>5. serenity[nextWorker].version = 0
  BY <1>2 DEF IdsAreNew
<1>6. \A q \in Requests \ {r} : deploy'[q].pc \notin {"asked", "set up"}
  BY <1>1, NoRequestAssumption DEF HoldsRow, Keeps
<1>7. \A q \in Requests \ {r} :
         (Updates(q))' \/ (Creates(q))' =>
           deploy'[q].worker < nextWorker /\ deploy'[q].worker \in Nat
  BY <1>1, <1>2 DEF IdsAreNew, Keeps
<1>8. TypeOK'
  <2>1. nextWorker' \in 1..(MaxWorkers + 1)
    BY <1>2, MaxWorkersType
  <2> QED
    BY <1>1, <2>1, OtherTypes
<1>9. IdentityInv' /\ HoldsRow'
  <2>1. deploy'[r].worker # 0
    BY <1>1, <1>2
  <2>2. IdentityInv'
    BY <1>1, <2>1 DEF IdentityInv, Keeps
  <2>3. HoldsRow'
    BY <1>1, <1>6 DEF HoldsRow
  <2> QED
    BY <2>2, <2>3
<1>10. IdsAreNew'
  <2>1. row'.worker < nextWorker'
    BY <1>2
  <2>2. \A w \in 1..MaxWorkers : w >= nextWorker' => serenity'[w].version = 0
    BY <1>2 DEF IdsAreNew
  <2>3. deploy'[r].worker < nextWorker'
    BY <1>1, <1>2
  <2>4. \A q \in Requests \ {r} : (Updates(q))' \/ (Creates(q))' => deploy'[q].worker < nextWorker'
    <3> SUFFICES ASSUME NEW q \in Requests \ {r}, (Updates(q))' \/ (Creates(q))'
                 PROVE  deploy'[q].worker < nextWorker'
      OBVIOUS
    <3>1. deploy'[q].worker < nextWorker /\ deploy'[q].worker \in Nat
      BY <1>7
    <3> QED
      BY <1>2, <3>1
  <2> QED
    BY <2>1, <2>2, <2>3, <2>4 DEF IdsAreNew
<1>11. CreatesAlone'
  <2>1. \A q \in Requests \ {r} :
          (Updates(q))' \/ (Creates(q))' => deploy'[q].worker # deploy'[r].worker
    <3> SUFFICES ASSUME NEW q \in Requests \ {r}, (Updates(q))' \/ (Creates(q))'
                 PROVE  deploy'[q].worker # deploy'[r].worker
      OBVIOUS
    <3>1. deploy'[q].worker < nextWorker /\ deploy'[q].worker \in Nat
      BY <1>7
    <3> QED
      BY <1>1, <1>2, <3>1
  <2> QED
    BY <1>1, <1>4, <2>1 DEF CreatesAlone, Keeps
<1>12. CreatesNew'
  <2>1. deploy'[r].worker # row'.worker /\ serenity'[deploy'[r].worker].version = 0
    BY <1>1, <1>2, <1>5
  <2> QED
    BY <1>1, <2>1 DEF CreatesNew, Keeps
<1>13. StartsFromRow' /\ SetUpInv' /\ RowIsLive'
  BY <1>1, <1>4, <1>6 DEF StartsFromRow, SetUpInv, IsLive, RowIsLive, Keeps
<1> QED
  BY <1>8, <1>9, <1>10, <1>11, <1>12, <1>13 DEF IInv

\* Jayne gives a setup up.
LEMMA LateEffect ==
  ASSUME TypeOK, NEW r \in Requests,
         deploy' = [deploy EXCEPT ![r].pc = "late", ![r].dev = Nobody]
  PROVE  /\ RequestsOK'
         /\ \A q \in Requests \ {r} : Keeps(q)
         /\ deploy'[r].pc = "late"
         /\ deploy'[r].worker = deploy[r].worker
         /\ deploy'[r].version = deploy[r].version
         /\ DOMAIN deploy'[r] = DOMAIN Idle
<1>1. /\ DOMAIN deploy' = Requests
      /\ \A q \in Requests \ {r} : deploy'[q] = deploy[q]
      /\ deploy'[r] = [deploy[r] EXCEPT !.pc = "late", !.dev = Nobody]
  BY DEF TypeOK, RequestsOK
<1>2. IsRequest(deploy[r])
  BY DEF TypeOK, RequestsOK
<1>3. /\ DOMAIN deploy'[r] = DOMAIN Idle
      /\ deploy'[r].pc = "late"
      /\ deploy'[r].dev = Nobody
      /\ deploy'[r].worker = deploy[r].worker
      /\ deploy'[r].version = deploy[r].version
  BY <1>1, <1>2, Fields DEF IsRequest
<1>4. IsRequest(deploy[r])'
  <2>1. deploy'[r].pc \in Pcs
    BY <1>3 DEF Pcs
  <2>2. deploy'[r].dev \in Developers \cup {Nobody} /\ deploy'[r].worker \in 0..MaxWorkers
    BY <1>2, <1>3, Numbers, MaxWorkersType DEF IsRequest
  <2>3. deploy'[r].version \in Nat
    BY <1>2, <1>3 DEF IsRequest
  <2> QED
    BY <1>3, <2>1, <2>2, <2>3 DEF IsRequest
<1>5. RequestsOK'
  BY <1>1, <1>4 DEF TypeOK, RequestsOK, IsRequest
<1> QED
  BY <1>1, <1>3, <1>5, KeepsOthers

LEMMA LateIInv ==
  ASSUME IInv, NEW r \in Requests, deploy[r].pc = "asked", Release(r),
         deploy' = [deploy EXCEPT ![r].pc = "late", ![r].dev = Nobody],
         UNCHANGED <<json, row, nextWorker, serenity, gone, deletion>>
  PROVE  IInv'
<1> TypeOK /\ IdentityInv /\ HoldsRow /\ IdsAreNew /\ CreatesAlone /\ CreatesNew
    /\ StartsFromRow /\ SetUpInv /\ RowIsLive
  BY DEF IInv
<1>1. /\ RequestsOK'
      /\ \A q \in Requests \ {r} : Keeps(q)
      /\ deploy'[r].pc = "late"
      /\ deploy'[r].worker = deploy[r].worker
      /\ deploy'[r].version = deploy[r].version
  BY LateEffect
<1>2. /\ Updates(r) <=> (Updates(r))'
      /\ Creates(r) <=> (Creates(r))'
  BY <1>1 DEF Updates, Creates
<1>3. written' = NoRequest /\ NoRequest # r /\ \A q \in Requests \ {r} : written # q
  BY NoRequestAssumption DEF HoldsRow, Release
<1>4. TypeOK'
  BY <1>1, <1>3, OtherTypes DEF TypeOK, JayneOK
<1>5. IdentityInv' /\ HoldsRow'
  BY <1>1, <1>3 DEF IdentityInv, HoldsRow, Keeps
<1>6. IdsAreNew'
  BY <1>1, <1>2 DEF IdsAreNew, Keeps
<1>7. CreatesAlone' /\ CreatesNew'
  <2>1. \A q \in Requests :
          /\ deploy'[q].worker = deploy[q].worker
          /\ (Creates(q))' <=> Creates(q)
          /\ (Updates(q))' <=> Updates(q)
    BY <1>1, <1>2 DEF Keeps
  <2>2. CreatesAlone'
    BY <2>1 DEF CreatesAlone
  <2>3. \A q \in Requests :
          deploy'[q].pc \in {"asked", "late"} => deploy[q].pc \in {"asked", "late"}
    BY <1>1 DEF Keeps
  <2>4. CreatesNew'
    BY <2>1, <2>3 DEF CreatesNew
  <2> QED
    BY <2>2, <2>4
<1>8. StartsFromRow' /\ SetUpInv' /\ RowIsLive'
  BY <1>1, <1>2 DEF StartsFromRow, SetUpInv, IsLive, RowIsLive, Keeps
<1> QED
  BY <1>4, <1>5, <1>6, <1>7, <1>8 DEF IInv

\* A creation that was set up is undone.
LEMMA UndoIInv ==
  ASSUME IInv, NEW r \in Requests, deploy[r].pc = "set up", deploy[r].version = 0,
         Release(r), Step(r, "undo"),
         UNCHANGED <<json, row, nextWorker, serenity, gone, deletion>>
  PROVE  IInv'
<1> TypeOK /\ IdentityInv /\ HoldsRow /\ IdsAreNew /\ CreatesAlone /\ CreatesNew
    /\ StartsFromRow /\ SetUpInv /\ RowIsLive
  BY DEF IInv
<1>1. /\ RequestsOK'
      /\ \A q \in Requests \ {r} : Keeps(q)
      /\ deploy'[r].pc = "undo"
      /\ deploy'[r].worker = deploy[r].worker
      /\ deploy'[r].version = deploy[r].version
  BY StepEffect DEF Pcs
<1>2. ~ Updates(r) /\ ~ (Updates(r))' /\ Creates(r) /\ (Creates(r))'
  BY <1>1 DEF Updates, Creates
<1>3. written' = NoRequest /\ NoRequest # r /\ \A q \in Requests \ {r} : written # q
  BY NoRequestAssumption DEF HoldsRow, Release
<1>4. TypeOK'
  BY <1>1, <1>3, OtherTypes DEF TypeOK, JayneOK
<1>5. IdentityInv' /\ HoldsRow'
  BY <1>1, <1>3 DEF IdentityInv, HoldsRow, Keeps
<1>6. IdsAreNew'
  BY <1>1, <1>2 DEF IdsAreNew, Keeps
<1>7. CreatesAlone' /\ CreatesNew'
  <2>1. \A q \in Requests :
          /\ deploy'[q].worker = deploy[q].worker
          /\ (Creates(q))' <=> Creates(q)
          /\ (Updates(q))' <=> Updates(q)
    BY <1>1, <1>2 DEF Keeps
  <2>2. CreatesAlone'
    BY <2>1 DEF CreatesAlone
  <2>3. \A q \in Requests :
          deploy'[q].pc \in {"asked", "late"} => deploy[q].pc \in {"asked", "late"}
    BY <1>1 DEF Keeps
  <2>4. CreatesNew'
    BY <2>1, <2>3 DEF CreatesNew
  <2> QED
    BY <2>2, <2>4
<1>8. StartsFromRow' /\ SetUpInv' /\ RowIsLive'
  BY <1>1, <1>2 DEF StartsFromRow, SetUpInv, IsLive, RowIsLive, Keeps
<1> QED
  BY <1>4, <1>5, <1>6, <1>7, <1>8 DEF IInv

-----------------------------------------------------------------------------
(* Serenity sets a worker up: an update of the row's worker is accepted    *)
(* only if it starts from the version of the row, and then nothing else    *)
(* that was asked for this worker has been accepted.                       *)

SetsUp(r) ==
    /\ deploy[r].pc \in {"asked", "late"} /\ Accepts(r)
    /\ serenity' = [serenity EXCEPT ![deploy[r].worker] =
         [version |-> deploy[r].version + 1, index |-> Index(r)]]

LEMMA SetsUpEffect ==
  ASSUME IInv, NEW r \in Requests, SetsUp(r), row' = row
  PROVE  /\ deploy[r].worker \in 1..MaxWorkers /\ deploy[r].version \in Nat
         /\ DOMAIN serenity' = 1..MaxWorkers
         /\ serenity'[deploy[r].worker].version = deploy[r].version + 1
         /\ serenity'[deploy[r].worker].index = Index(r)
         /\ \A w \in 1..MaxWorkers \ {deploy[r].worker} : serenity'[w] = serenity[w]
         /\ \A w \in 1..MaxWorkers : w >= nextWorker => serenity'[w].version = 0
         /\ deploy[r].version # 0 /\ deploy[r].worker = row.worker =>
              deploy[r].version = row.version
         /\ RowIsLive'
         /\ \A q \in Requests \ {r} :
              Creates(q) \/ deploy[q].pc = "set up" => deploy[q].worker # deploy[r].worker
<1> TypeOK /\ IdentityInv /\ HoldsRow /\ IdsAreNew /\ CreatesAlone /\ CreatesNew
    /\ StartsFromRow /\ SetUpInv /\ RowIsLive
  BY DEF IInv
<1> DEFINE v == deploy[r].version
           w == deploy[r].worker
<1>1. /\ w \in 1..MaxWorkers /\ v \in Nat /\ row.version \in Nat
      /\ row.worker \in 0..MaxWorkers /\ nextWorker \in Nat
  BY Numbers, MaxWorkersType DEF SetsUp, IdentityInv
<1>2. /\ DOMAIN serenity' = 1..MaxWorkers
      /\ serenity'[w].version = v + 1 /\ serenity'[w].index = Index(r)
      /\ \A x \in 1..MaxWorkers \ {w} : serenity'[x] = serenity[x]
  BY <1>1 DEF SetsUp, TypeOK, SerenityOK
<1>3. serenity[w].version = v
  BY DEF SetsUp, Accepts
<1>4. Updates(r) \/ Creates(r)
  BY DEF SetsUp, Updates, Creates
<1>5. w < nextWorker
  BY <1>4 DEF IdsAreNew
<1>6. \A x \in 1..MaxWorkers : x >= nextWorker => serenity'[x].version = 0
  <2> SUFFICES ASSUME NEW x \in 1..MaxWorkers, x >= nextWorker
               PROVE  serenity'[x].version = 0
    OBVIOUS
  <2>1. x # w
    BY <1>1, <1>5
  <2>2. serenity[x].version = 0
    BY DEF IdsAreNew
  <2> QED
    BY <1>2, <2>1, <2>2
<1>7. ASSUME v # 0, w = row.worker PROVE v = row.version
  <2>1. Updates(r)
    BY <1>7 DEF SetsUp, Updates
  <2>2. v <= row.version
    BY <1>7, <2>1 DEF StartsFromRow
  <2>3. v \in {row.version, row.version + 1}
    BY <1>1, <1>3, <1>7 DEF RowIsLive
  <2> QED
    BY <1>1, <2>2, <2>3
<1>8. v = 0 => w # row.worker
  BY DEF SetsUp, Creates, CreatesNew
<1>9. RowIsLive'
  <2>1. CASE row.worker = w
    <3>1. serenity'[w].version = row.version + 1 /\ row.version + 1 # row.version
      BY <1>1, <1>2, <1>7, <1>8, <2>1
    <3> QED
      BY <2>1, <3>1 DEF RowIsLive
  <2>2. CASE row.worker # w
    <3>1. row.worker # 0 => serenity'[row.worker] = serenity[row.worker]
      BY <1>1, <1>2, <2>2
    <3> QED
      BY <3>1 DEF RowIsLive
  <2> QED
    BY <2>1, <2>2
<1>10. \A q \in Requests \ {r} : Creates(q) => deploy[q].worker # w
  BY <1>4 DEF CreatesAlone
<1>11. \A q \in Requests \ {r} : deploy[q].pc = "set up" => deploy[q].worker # w
  <2> SUFFICES ASSUME NEW q \in Requests \ {r}, deploy[q].pc = "set up", deploy[q].worker = w,
                      ~ Creates(q)
               PROVE  FALSE
    BY <1>10
  <2>1. deploy[q].version # 0 /\ Updates(q)
    BY DEF Creates, Updates
  <2>2. w = row.worker /\ deploy[q].version = row.version /\ v = deploy[q].version + 1
    BY <1>3, <2>1 DEF StartsFromRow, SetUpInv, IsLive
  <2>3. v # 0
    BY <1>8, <2>2
  <2>4. v = row.version
    BY <1>7, <2>2, <2>3
  <2>5. v = row.version + 1
    BY <2>2
  <2>6. row.version # row.version + 1
    BY <1>1, Successor
  <2> QED
    BY <2>4, <2>5, <2>6
<1> QED
  BY <1>1, <1>2, <1>6, <1>7, <1>9, <1>10, <1>11

\* SerenityOK is all that setting a worker up changes of TypeOK.
LEMMA SetsUpTypes ==
  ASSUME IInv, NEW r \in Requests, SetsUp(r), RequestsOK', row' = row,
         \A q \in Requests \ {r} : Keeps(q),
         deploy'[r].pc = "set up" \/ written # r,
         UNCHANGED <<json, row, written, nextWorker, gone, deletion>>
  PROVE  TypeOK'
<1> TypeOK
  BY DEF IInv
<1>1. SerenityOK'
  <2>1. DOMAIN serenity' = 1..MaxWorkers /\ gone' \subseteq 1..MaxWorkers
    BY SetsUpEffect DEF TypeOK, SerenityOK
  <2>2. \A w \in 1..MaxWorkers : serenity'[w].version \in Nat
    <3> TAKE w \in 1..MaxWorkers
    <3>1. CASE w = deploy[r].worker
      <4>1. /\ deploy[r].version \in Nat
            /\ serenity'[deploy[r].worker].version = deploy[r].version + 1
        BY SetsUpEffect
      <4> QED
        BY <3>1, <4>1, Successor
    <3>2. CASE w # deploy[r].worker
      BY <3>2, SetsUpEffect, Numbers
    <3> QED
      BY <3>1, <3>2
  <2> QED
    BY <2>1, <2>2 DEF SerenityOK
<1>2. DirectoriesOK' /\ JayneOK'
  BY DEF TypeOK, DirectoriesOK, IsJson, JayneOK
<1>3. \A q \in Requests : written' = q => deploy'[q].pc \in {"asked", "set up"}
  BY DEF TypeOK, Keeps
<1> QED
  BY <1>1, <1>2, <1>3 DEF TypeOK

\* Jayne gets the answer of a setup.
LEMMA AcceptIInv ==
  ASSUME IInv, NEW r \in Requests, deploy[r].pc = "asked", SetsUp(r), Step(r, "set up"),
         UNCHANGED <<json, row, written, nextWorker, gone, deletion>>
  PROVE  IInv'
<1> TypeOK /\ IdentityInv /\ HoldsRow /\ IdsAreNew /\ CreatesAlone /\ CreatesNew
    /\ StartsFromRow /\ SetUpInv /\ RowIsLive
  BY DEF IInv
<1>1. /\ RequestsOK'
      /\ \A q \in Requests \ {r} : Keeps(q)
      /\ deploy'[r].pc = "set up"
      /\ deploy'[r].worker = deploy[r].worker
      /\ deploy'[r].version = deploy[r].version
      /\ (Index(r))' = Index(r)
  BY StepEffect DEF Pcs
<1>2. /\ deploy[r].worker \in 1..MaxWorkers /\ deploy[r].version \in Nat
      /\ serenity'[deploy[r].worker].version = deploy[r].version + 1
      /\ serenity'[deploy[r].worker].index = Index(r)
      /\ \A w \in 1..MaxWorkers \ {deploy[r].worker} : serenity'[w] = serenity[w]
  BY SetsUpEffect
<1>3. /\ \A w \in 1..MaxWorkers : w >= nextWorker => serenity'[w].version = 0
      /\ RowIsLive'
  BY SetsUpEffect
<1>4. /\ deploy[r].version # 0 /\ deploy[r].worker = row.worker =>
           deploy[r].version = row.version
      /\ \A q \in Requests \ {r} :
           Creates(q) \/ deploy[q].pc = "set up" => deploy[q].worker # deploy[r].worker
  BY SetsUpEffect
<1>5. \A q \in Requests \ {r} : Creates(q) \/ deploy[q].pc = "set up" =>
        serenity'[deploy[q].worker] = serenity[deploy[q].worker]
  <2> SUFFICES ASSUME NEW q \in Requests \ {r}, Creates(q) \/ deploy[q].pc = "set up"
               PROVE  serenity'[deploy[q].worker] = serenity[deploy[q].worker]
    OBVIOUS
  <2>1. deploy[q].worker # deploy[r].worker
    BY <1>4
  <2>2. deploy[q].worker # 0
    BY DEF IdentityInv, Creates
  <2>3. deploy[q].worker \in 1..MaxWorkers
    BY <2>2, Numbers, MaxWorkersType, Positive
  <2> QED
    BY <1>2, <2>1, <2>3
<1>6. /\ Updates(r) <=> (Updates(r))'
      /\ Creates(r) <=> (Creates(r))'
  BY <1>1 DEF Updates, Creates
<1>7. \A q \in Requests :
        /\ deploy'[q].worker = deploy[q].worker
        /\ (Creates(q))' <=> Creates(q)
        /\ (Updates(q))' <=> Updates(q)
  BY <1>1, <1>6 DEF Keeps
<1>8. TypeOK'
  BY <1>1, SetsUpTypes
<1>9. IdentityInv' /\ HoldsRow'
  BY <1>1 DEF IdentityInv, HoldsRow, Keeps
<1>10. IdsAreNew'
  BY <1>3, <1>7 DEF IdsAreNew
<1>11. CreatesAlone'
  BY <1>7 DEF CreatesAlone
<1>12. CreatesNew'
  BY <1>1, <1>5, <1>7 DEF CreatesNew, Keeps
<1>13. StartsFromRow'
  BY <1>1, <1>6 DEF StartsFromRow, Keeps
<1>14. SetUpInv'
  <2>1. deploy[r].version # 0 => deploy[r].version = row.version
    BY <1>4 DEF StartsFromRow, Updates
  <2>2. \A q \in Requests \ {r} : deploy'[q].pc = "set up" => deploy[q].pc = "set up"
    BY <1>1 DEF Keeps
  <2>3. (IsLive(r))'
    BY <1>1, <1>2, <2>1 DEF IsLive
  <2>4. \A q \in Requests \ {r} : deploy[q].pc = "set up" => (IsLive(q))'
    <3> SUFFICES ASSUME NEW q \in Requests \ {r}, deploy[q].pc = "set up"
                 PROVE  (IsLive(q))'
      OBVIOUS
    <3>1. IsLive(q)
      BY DEF SetUpInv
    <3>2. /\ deploy'[q] = deploy[q] /\ (Index(q))' = Index(q)
          /\ serenity'[deploy[q].worker] = serenity[deploy[q].worker]
      BY <1>1, <1>5 DEF Keeps
    <3> QED
      BY <3>1, <3>2 DEF IsLive
  <2> QED
    BY <2>2, <2>3, <2>4 DEF SetUpInv
<1> QED
  BY <1>3, <1>8, <1>9, <1>10, <1>11, <1>12, <1>13, <1>14 DEF IInv

\* A setup takes effect that Jayne has given up.
LEMMA AcceptLateIInv ==
  ASSUME IInv, NEW r \in Requests, deploy[r].pc = "late", SetsUp(r), End(r),
         UNCHANGED <<json, row, written, nextWorker, gone, deletion>>
  PROVE  IInv'
<1> TypeOK /\ IdentityInv /\ HoldsRow /\ IdsAreNew /\ CreatesAlone /\ CreatesNew
    /\ StartsFromRow /\ SetUpInv /\ RowIsLive
  BY DEF IInv
<1>1. /\ RequestsOK'
      /\ \A q \in Requests \ {r} : Keeps(q)
      /\ deploy'[r].pc = "idle"
  BY EndEffect
<1>2. /\ deploy[r].worker \in 1..MaxWorkers /\ deploy[r].version \in Nat
      /\ serenity'[deploy[r].worker].version = deploy[r].version + 1
      /\ serenity'[deploy[r].worker].index = Index(r)
      /\ \A w \in 1..MaxWorkers \ {deploy[r].worker} : serenity'[w] = serenity[w]
  BY SetsUpEffect
<1>3. /\ \A w \in 1..MaxWorkers : w >= nextWorker => serenity'[w].version = 0
      /\ RowIsLive'
  BY SetsUpEffect
<1>4. /\ deploy[r].version # 0 /\ deploy[r].worker = row.worker =>
           deploy[r].version = row.version
      /\ \A q \in Requests \ {r} :
           Creates(q) \/ deploy[q].pc = "set up" => deploy[q].worker # deploy[r].worker
  BY SetsUpEffect
<1>5. \A q \in Requests \ {r} : Creates(q) \/ deploy[q].pc = "set up" =>
        serenity'[deploy[q].worker] = serenity[deploy[q].worker]
  <2> SUFFICES ASSUME NEW q \in Requests \ {r}, Creates(q) \/ deploy[q].pc = "set up"
               PROVE  serenity'[deploy[q].worker] = serenity[deploy[q].worker]
    OBVIOUS
  <2>1. deploy[q].worker # deploy[r].worker
    BY <1>4
  <2>2. deploy[q].worker # 0
    BY DEF IdentityInv, Creates
  <2>3. deploy[q].worker \in 1..MaxWorkers
    BY <2>2, Numbers, MaxWorkersType, Positive
  <2> QED
    BY <1>2, <2>1, <2>3
<1>6. ~ (Updates(r))' /\ ~ (Creates(r))'
  BY <1>1 DEF Updates, Creates
<1>7. \A q \in Requests \ {r} :
        /\ deploy'[q].worker = deploy[q].worker
        /\ (Creates(q))' <=> Creates(q)
        /\ (Updates(q))' <=> Updates(q)
  BY <1>1 DEF Keeps
<1>8. TypeOK'
  <2>1. written # r
    BY DEF TypeOK
  <2> QED
    BY <1>1, <2>1, SetsUpTypes
<1>9. IdentityInv' /\ HoldsRow'
  BY <1>1 DEF IdentityInv, HoldsRow, Keeps
<1>10. IdsAreNew'
  BY <1>3, <1>6, <1>7 DEF IdsAreNew
<1>11. CreatesAlone'
  BY <1>6, <1>7 DEF CreatesAlone
<1>12. CreatesNew'
  <2>1. \A q \in Requests \ {r} :
          deploy'[q].pc \in {"asked", "late"} => deploy[q].pc \in {"asked", "late"}
    BY <1>1 DEF Keeps
  <2> QED
    BY <1>5, <1>6, <1>7, <2>1 DEF CreatesNew
<1>13. StartsFromRow'
  BY <1>1, <1>6 DEF StartsFromRow, Keeps
<1>14. SetUpInv'
  <2>1. \A q \in Requests \ {r} : deploy'[q].pc = "set up" => deploy[q].pc = "set up"
    BY <1>1 DEF Keeps
  <2>2. \A q \in Requests \ {r} : deploy[q].pc = "set up" => (IsLive(q))'
    <3> SUFFICES ASSUME NEW q \in Requests \ {r}, deploy[q].pc = "set up"
                 PROVE  (IsLive(q))'
      OBVIOUS
    <3>1. IsLive(q)
      BY DEF SetUpInv
    <3>2. /\ deploy'[q] = deploy[q] /\ (Index(q))' = Index(q)
          /\ serenity'[deploy[q].worker] = serenity[deploy[q].worker]
      BY <1>1, <1>5 DEF Keeps
    <3> QED
      BY <3>1, <3>2 DEF IsLive
  <2> QED
    BY <1>1, <2>1, <2>2 DEF SetUpInv
<1> QED
  BY <1>3, <1>8, <1>9, <1>10, <1>11, <1>12, <1>13, <1>14 DEF IInv

-----------------------------------------------------------------------------
(* The commit.                                                             *)

\* A deployment that commits an update commits it over the version it started
\* from, and one that commits a creation a worker that is not the row's.
LEMMA CommitEffect ==
  ASSUME IInv, NEW r \in Requests, Commit(r)
  PROVE  /\ deploy[r].worker \in 1..MaxWorkers /\ deploy[r].version \in Nat
         /\ row'.worker = deploy[r].worker /\ row'.version = deploy[r].version + 1
         /\ row'.index = Index(r)
         /\ IsLive(r) /\ written = r
         /\ deploy[r].version # 0 => row.worker = deploy[r].worker
         /\ deploy[r].version = 0 => row.worker # deploy[r].worker
<1> TypeOK /\ IdentityInv /\ HoldsRow /\ IdsAreNew /\ CreatesAlone /\ CreatesNew
    /\ StartsFromRow /\ SetUpInv /\ RowIsLive
  BY DEF IInv
<1>1. deploy[r].pc = "set up"
  BY DEF Commit
<1>2. /\ row'.worker = deploy[r].worker /\ row'.version = deploy[r].version + 1
      /\ row'.index = Index(r)
  BY DEF Commit
<1>3. deploy[r].worker \in 1..MaxWorkers /\ deploy[r].version \in Nat
  <2>1. deploy[r].worker # 0
    BY <1>1 DEF IdentityInv
  <2> QED
    BY <2>1, Numbers, MaxWorkersType, Positive
<1>4. IsLive(r) /\ written = r
  BY <1>1 DEF SetUpInv, HoldsRow
<1>5. deploy[r].version # 0 => row.worker = deploy[r].worker
  BY <1>1 DEF StartsFromRow, Updates
<1>6. deploy[r].version = 0 => row.worker # deploy[r].worker
  BY <1>1 DEF CreatesNew, Creates
<1> QED
  BY <1>2, <1>3, <1>4, <1>5, <1>6

LEMMA CommitIInv ==
  ASSUME IInv, NEW r \in Requests, Commit(r)
  PROVE  IInv'
<1> TypeOK /\ IdentityInv /\ HoldsRow /\ IdsAreNew /\ CreatesAlone /\ CreatesNew
    /\ StartsFromRow /\ SetUpInv /\ RowIsLive
  BY DEF IInv
<1> DEFINE v == deploy[r].version
           w == deploy[r].worker
<1> UNCHANGED <<json, serenity, gone, deletion, nextWorker>>
  BY DEF Commit
<1>1. /\ RequestsOK'
      /\ \A q \in Requests \ {r} : Keeps(q)
      /\ deploy'[r].pc = "committed"
      /\ deploy'[r].worker = w
  BY StepEffect DEF Commit, Pcs
<1>2. /\ w \in 1..MaxWorkers /\ v \in Nat
      /\ row'.worker = w /\ row'.version = v + 1 /\ row'.index = Index(r)
      /\ IsLive(r) /\ written = r
      /\ v # 0 => row.worker = w
  BY CommitEffect
<1>3. /\ ~ (Updates(r))' /\ ~ (Creates(r))'
      /\ Updates(r) \/ Creates(r)
  BY <1>1 DEF Commit, Updates, Creates
<1>4. written' = NoRequest
  BY <1>2 DEF Commit, Release
<1>5. \A q \in Requests \ {r} : deploy'[q].pc \notin {"asked", "set up"}
  BY <1>1, <1>2 DEF HoldsRow, Keeps
<1>6. TypeOK'
  <2>1. DirectoriesOK' /\ SerenityOK'
    BY DEF TypeOK, DirectoriesOK, IsJson, SerenityOK
  <2>2. row'.worker \in 0..MaxWorkers /\ row'.version \in Nat
    BY <1>2, MaxWorkersType, Successor
  <2>3. JayneOK'
    BY <1>4, <2>2 DEF TypeOK, JayneOK
  <2>4. \A q \in Requests : written' = q => deploy'[q].pc \in {"asked", "set up"}
    BY <1>4, NoRequestAssumption
  <2> QED
    BY <1>1, <2>1, <2>3, <2>4 DEF TypeOK
<1>7. IdentityInv'
  <2>1. row'.worker # 0 /\ deploy'[r].worker # 0
    BY <1>1, <1>2
  <2> QED
    BY <1>1, <2>1 DEF IdentityInv, Keeps
<1>8. HoldsRow'
  BY <1>1, <1>5 DEF HoldsRow
<1>9. IdsAreNew'
  <2>1. row'.worker < nextWorker'
    BY <1>2, <1>3 DEF IdsAreNew
  <2> QED
    BY <1>1, <1>3, <2>1 DEF IdsAreNew, Keeps
<1>10. CreatesAlone' /\ CreatesNew'
  <2>1. CreatesAlone'
    BY <1>1, <1>3 DEF CreatesAlone, Keeps
  <2>2. \A q \in Requests \ {r} : Creates(q) => deploy[q].worker # w
    BY <1>3 DEF CreatesAlone
  <2>3. CreatesNew'
    BY <1>1, <1>2, <1>3, <2>2 DEF CreatesNew, Keeps
  <2> QED
    BY <2>1, <2>3
<1>11. StartsFromRow'
  <2> SUFFICES ASSUME NEW q \in Requests \ {r}, Updates(q), deploy[q].worker = w
               PROVE  deploy[q].version <= v + 1
    BY <1>1, <1>2, <1>3, <1>5 DEF StartsFromRow, Keeps
  <2>1. ~ Creates(r)
    BY DEF CreatesAlone
  <2>2. v # 0
    BY <2>1 DEF Creates, Commit
  <2>3. v = row.version
    BY <1>2, <2>2 DEF IsLive
  <2>4. deploy[q].version <= v
    BY <1>2, <2>2, <2>3 DEF StartsFromRow
  <2>5. deploy[q].version \in Nat
    BY Numbers
  <2> QED
    BY <1>2, <2>4, <2>5
<1>12. SetUpInv'
  BY <1>1, <1>5 DEF SetUpInv
<1>13. RowIsLive'
  BY <1>2 DEF IsLive, RowIsLive
<1> QED
  BY <1>6, <1>7, <1>8, <1>9, <1>10, <1>11, <1>12, <1>13 DEF IInv

-----------------------------------------------------------------------------
(* Every step.                                                             *)

\* A request ends without a change of the directories.
LEMMA QuietEnd ==
  ASSUME IInv, NEW r \in Requests, End(r), Release(r),
         nextWorker' \in {nextWorker, nextWorker + 1}, nextWorker' <= MaxWorkers + 1,
         gone' \subseteq 1..MaxWorkers,
         UNCHANGED <<json, row, serenity, deletion>>
  PROVE  IInv'
<1>1. DirectoriesOK' /\ \A d \in Developers : json'[d].worker = 0 <=> json'[d].version = 0
  BY DEF IInv, TypeOK, DirectoriesOK, IsJson, IdentityInv
<1>2. written' # r /\ (written' = written \/ (written = r /\ written' = NoRequest))
  BY NoRequestAssumption DEF Release
<1> QED
  BY <1>1, <1>2, EndIInv

\* A request that is not at Serenity, nor has been there, has not written.
LEMMA NotWritten ==
  ASSUME IInv, NEW r \in Requests, deploy[r].pc \notin {"asked", "set up"}
  PROVE  written # r /\ (UNCHANGED written => Release(r))
  BY DEF IInv, TypeOK, Release

LEMMA Bounds ==
  ASSUME IInv
  PROVE  nextWorker <= MaxWorkers + 1 /\ gone \subseteq 1..MaxWorkers
  BY Numbers DEF IInv, TypeOK, SerenityOK

LEMMA SetupIInv ==
  ASSUME IInv, NEW r \in Requests, Setup(r)
  PROVE  IInv'
<1> UNCHANGED <<json, row, gone, deletion, nextWorker>>
  BY DEF Setup
<1>1. CASE Accepts(r)
  <2>1. SetsUp(r)
    BY <1>1 DEF Setup, SetsUp
  <2>2. CASE deploy[r].pc = "late"
    <3>1. End(r) /\ UNCHANGED written
      BY <2>2 DEF Setup
    <3> QED
      BY <2>1, <2>2, <3>1, AcceptLateIInv
  <2>3. CASE deploy[r].pc = "asked"
    <3>1. Step(r, "set up") /\ UNCHANGED written
      BY <1>1, <2>3 DEF Setup
    <3> QED
      BY <2>1, <2>3, <3>1, AcceptIInv
  <2> QED
    BY <2>2, <2>3 DEF Setup
<1>2. CASE ~ Accepts(r)
  <2>1. UNCHANGED serenity
    BY <1>2 DEF Setup
  <2>2. End(r) /\ Release(r)
    <3>1. CASE deploy[r].pc = "late"
      BY <3>1, NotWritten DEF Setup
    <3>2. CASE deploy[r].pc = "asked"
      BY <1>2, <3>2 DEF Setup
    <3> QED
      BY <3>1, <3>2 DEF Setup
  <2> QED
    BY <2>1, <2>2, QuietEnd, Bounds
<1> QED
  BY <1>1, <1>2

LEMMA FailIInv ==
  ASSUME IInv, NEW r \in Requests, Fail(r)
  PROVE  IInv'
<1> Release(r) /\ UNCHANGED <<json, row, serenity, gone, deletion, nextWorker>>
  BY DEF Fail
<1>1. CASE End(r)
  BY <1>1, QuietEnd, Bounds
<1>2. CASE deploy[r].pc = "set up" /\ deploy[r].version = 0 /\ Step(r, "undo")
  BY <1>2, UndoIInv
<1>3. CASE /\ deploy[r].pc = "asked"
           /\ deploy' = [deploy EXCEPT ![r].pc = "late", ![r].dev = Nobody]
  BY <1>3, LateIInv
<1> QED
  BY <1>1, <1>2, <1>3 DEF Fail

LEMMA ReceiveIInv ==
  ASSUME IInv, NEW r \in Requests, Receive(r)
  PROVE  IInv'
<1> TypeOK /\ IdentityInv
  BY DEF IInv
<1>1. deploy[r].pc = "committed" /\ End(r) /\ UNCHANGED <<row, written, nextWorker, serenity, gone, deletion>>
  BY DEF Receive, jayne
<1>2. /\ NewJson(r).worker = deploy[r].worker
      /\ NewJson(r).version = deploy[r].version + 1
      /\ DOMAIN NewJson(r) = DOMAIN NoJson
  BY DEF NewJson, NoJson
<1>3. deploy[r].worker # 0 /\ deploy[r].worker \in 0..MaxWorkers /\ deploy[r].version \in Nat
  BY <1>1, Numbers DEF IdentityInv
<1>4. IsJson(NewJson(r)) /\ NewJson(r).worker # 0 /\ NewJson(r).version # 0
  BY <1>2, <1>3, Successor DEF IsJson
<1>5. /\ DOMAIN json' = Developers
      /\ \A d \in Developers : json'[d] \in {json[d], NewJson(r)}
  BY DEF Receive, TypeOK, DirectoriesOK
<1>6. \A d \in Developers : IsJson(json'[d])
  BY <1>4, <1>5 DEF TypeOK, DirectoriesOK
<1>7. \A d \in Developers : json'[d].worker = 0 <=> json'[d].version = 0
  BY <1>4, <1>5 DEF IdentityInv
<1>8. DirectoriesOK'
  BY <1>5, <1>6 DEF DirectoriesOK, IsJson
<1>9. written' # r /\ written' = written
  BY <1>1, NotWritten
<1> QED
  BY <1>1, <1>7, <1>8, <1>9, EndIInv, Bounds

LEMMA InsertStepIInv ==
  ASSUME IInv, NEW r \in Requests, Insert(r)
  PROVE  IInv'
<1>1. deploy[r].pc = "sent" /\ ~ IsUpdate(r) /\ UNCHANGED <<json, row, serenity, gone, deletion>>
  BY DEF Insert
<1>2. CASE row.worker # 0
  <2>1. End(r) /\ UNCHANGED <<written, nextWorker>>
    BY <1>2 DEF Insert
  <2>2. Release(r)
    BY <1>1, <2>1, NotWritten
  <2> QED
    BY <1>1, <2>1, <2>2, QuietEnd, Bounds
<1>3. CASE row.worker = 0
  <2>1. written = NoRequest /\ nextWorker <= MaxWorkers /\ nextWorker' = nextWorker + 1
    BY <1>3 DEF Insert
  <2>2. CASE IsParsed(r)
    BY <1>1, <1>3, <2>1, <2>2, InsertIInv DEF Insert
  <2>3. CASE ~ IsParsed(r)
    <3>1. End(r) /\ UNCHANGED written
      BY <1>3, <2>3 DEF Insert
    <3>2. Release(r)
      BY <1>1, <3>1, NotWritten
    <3>3. nextWorker' <= MaxWorkers + 1
      BY <2>1, Numbers, MaxWorkersType DEF IInv
    <3> QED
      BY <1>1, <2>1, <3>1, <3>2, <3>3, QuietEnd, Bounds
  <2> QED
    BY <2>2, <2>3
<1> QED
  BY <1>2, <1>3

LEMMA ServeIInv ==
  ASSUME IInv, NEW r \in Requests, Serve(r)
  PROVE  IInv'
<1>1. CASE Select(r)
  <2>1. CASE row.worker = deploy[r].worker /\ row.version = deploy[r].version /\ IsParsed(r)
    BY <1>1, <2>1, SelectIInv DEF Select, jayne
  <2>2. CASE ~ (row.worker = deploy[r].worker /\ row.version = deploy[r].version /\ IsParsed(r))
    <3>1. deploy[r].pc = "sent" /\ End(r) /\ UNCHANGED <<json, row, written, nextWorker, serenity, gone, deletion>>
      BY <1>1, <2>2 DEF Select, jayne
    <3> QED
      BY <3>1, NotWritten, QuietEnd, Bounds
  <2> QED
    BY <2>1, <2>2
<1>2. CASE Insert(r)
  BY <1>2, InsertStepIInv
<1>3. CASE Save(r)
  <2>1. CASE row.worker = deploy[r].worker
    BY <1>3, <2>1, SaveIInv DEF Save
  <2>2. CASE row.worker # deploy[r].worker
    <3>1. deploy[r].pc = "selected" /\ End(r) /\ UNCHANGED <<json, row, written, nextWorker, serenity, gone, deletion>>
      BY <1>3, <2>2 DEF Save
    <3> QED
      BY <3>1, NotWritten, QuietEnd, Bounds
  <2> QED
    BY <2>1, <2>2
<1>4. CASE Setup(r)
  BY <1>4, SetupIInv
<1>5. CASE Commit(r)
  BY <1>5, CommitIInv
<1>6. CASE Fail(r)
  BY <1>6, FailIInv
<1>7. CASE UndoSetup(r)
  <2>1. /\ deploy[r].pc = "undo" /\ End(r)
        /\ UNCHANGED <<json, row, written, nextWorker, serenity, deletion>>
        /\ gone' \in {gone, gone \cup {deploy[r].worker}}
    BY <1>7 DEF UndoSetup, jayne
  <2>2. deploy[r].worker \in 1..MaxWorkers
    <3>1. deploy[r].worker # 0
      BY <2>1 DEF IInv, IdentityInv
    <3> QED
      BY <3>1, Numbers, MaxWorkersType, Positive DEF IInv
  <2>3. gone' \subseteq 1..MaxWorkers
    BY <2>1, <2>2, Bounds
  <2>4. Release(r)
    BY <2>1, NotWritten
  <2> QED
    BY <2>1, <2>3, <2>4, QuietEnd, Bounds
<1>8. CASE Receive(r)
  BY <1>8, ReceiveIInv
<1>9. CASE Lose(r)
  <2>1. deploy[r].pc = "committed" /\ End(r) /\ UNCHANGED <<json, row, written, nextWorker, serenity, gone, deletion>>
    BY <1>9 DEF Lose, jayne
  <2> QED
    BY <2>1, NotWritten, QuietEnd, Bounds
<1> QED
  BY <1>1, <1>2, <1>3, <1>4, <1>5, <1>6, <1>7, <1>8, <1>9 DEF Serve

LEMMA NextIInv ==
  ASSUME IInv, [Next]_vars
  PROVE  IInv'
<1>1. CASE UNCHANGED vars
  <2>1. UNCHANGED <<json, deploy, row, written, serenity, gone, deletion, nextWorker>>
    BY <1>1 DEF vars
  <2>2. DirectoriesOK' = DirectoriesOK /\ RequestsOK' = RequestsOK /\ \A r \in Requests : Keeps(r)
    BY <2>1, SameRequests
  <2>3. TypeOK' /\ IdentityInv'
    BY <2>1, <2>2 DEF IInv, TypeOK, JayneOK, SerenityOK, IdentityInv
  <2>4. HoldsRow' /\ IdsAreNew' /\ CreatesAlone' /\ CreatesNew'
    BY <2>1, <2>2 DEF IInv, HoldsRow, IdsAreNew, CreatesAlone, CreatesNew, Keeps
  <2>5. StartsFromRow' /\ SetUpInv' /\ RowIsLive'
    BY <2>1, <2>2 DEF IInv, StartsFromRow, SetUpInv, IsLive, RowIsLive, Keeps
  <2> QED
    BY <2>3, <2>4, <2>5 DEF IInv
<1>2. CASE \E r \in Requests : Serve(r)
  BY <1>2, ServeIInv
<1>3. CASE \E r \in Requests : \E d \in Developers : StartDeploy(d, r)
  BY <1>3, StartIInv
<1>4. CASE DeleteFromSerenity
  BY <1>4, DeleteFromSerenityIInv
<1>5. CASE DeleteRow
  BY <1>5, DeleteRowIInv
<1> QED
  BY <1>1, <1>2, <1>3, <1>4, <1>5 DEF Next

-----------------------------------------------------------------------------
(* What the tables of classes say of the ids that were given.              *)

Code == Codes \cup {<<>>}

\* Names of classes with different ids, none of them above the last.
IsTable(classes, last) ==
    /\ last \in Nat /\ IsInjective(classes)
    /\ \A n \in DOMAIN classes : classes[n] \in Nat /\ classes[n] <= last

\* If Serenity (ser) is at version v of w, the table has the ids of that version:
\* none that was ever given is above the last, and what source has under the names
\* of the table is what their ids were given to.
Agrees(ser, given, w, v, source, classes, last) ==
    /\ w \in 1..MaxWorkers /\ v \in Nat /\ v <= ser[w].version
    /\ v = ser[w].version =>
         /\ \A o \in given : o[1] = w => o[2] <= last
         /\ \A i \in DOMAIN source : source[i].name \in DOMAIN classes =>
              <<w, classes[source[i].name], source[i].kind>> \in given

\* Ids are given by setups of workers, each to one kind of class.
GivenOnce(ser, given) ==
    /\ \A o \in given : /\ o[1] \in 1..MaxWorkers /\ o[2] \in Nat
                        /\ ser[o[1]].version # 0
    /\ \A o, p \in given : o[1] = p[1] /\ o[2] = p[2] => o[3] = p[3]

\* A directory without a worker has no classes either.
JsonAgrees(ser, given, j) ==
    /\ j.checksum \in Code /\ IsTable(j.known, j.last)
    /\ j.worker = 0 => DOMAIN j.known = {}
    /\ j.worker # 0 => Agrees(ser, given, j.worker, j.version, j.checksum, j.known, j.last)

Starting == {"sent", "selected", "asked", "late"}
Ended == {"set up", "committed"}

IndexOfRequest(q) == IndexOf(q.source, q.classes, q.last)
LastOf(q) == Max(Ids(IndexOfRequest(q)) \cup {q.last})

RequestAgrees(ser, given, q) ==
    /\ q.source \in Code /\ IsTable(q.classes, q.last)
    /\ q.worker = 0 => DOMAIN q.classes = {}
    /\ q.pc \in Starting /\ q.worker # 0 =>
         Agrees(ser, given, q.worker, q.version, q.source, q.classes, q.last)
    /\ q.pc \in Ended =>
         Agrees(ser, given, q.worker, q.version + 1, q.source, IndexOfRequest(q), LastOf(q))

IdsInv ==
    /\ GivenOnce(serenity, owners)
    /\ \A d \in Developers : JsonAgrees(serenity, owners, json[d])
    /\ \A r \in Requests : RequestAgrees(serenity, owners, deploy[r])

\* The workers whose creation is under way.
BeingCreated == {deploy[r].worker : r \in {q \in Requests : Creates(q)}}

\* Of what a version that was committed is: a worker that had its id before next,
\* is not one of those being created, and whose row (rw), if it is still there, is
\* at a later version or is of that version and has its index.
IsCommitted(rw, next, created, w, v, index) ==
    /\ w \in 1..MaxWorkers /\ v \in Nat /\ w < next /\ w \notin created
    /\ rw.worker = w => v <= rw.version /\ (v = rw.version => index = rw.index)

CommitsInv ==
    /\ \A d \in Developers : json[d].worker # 0 =>
         IsCommitted(row, nextWorker, BeingCreated, json[d].worker, json[d].version, json[d].known)
    /\ \A r \in Requests : deploy[r].pc = "committed" =>
         IsCommitted(row, nextWorker, BeingCreated, deploy[r].worker, deploy[r].version + 1,
                     IndexOfRequest(deploy[r]))

-----------------------------------------------------------------------------
(* Tables of classes.                                                      *)

\* A set of numbers with a bound has a greatest one.
LEMMA MaxOfBounded ==
  ASSUME NEW S \in SUBSET Nat, S # {}, NEW n \in Nat, \A x \in S : x <= n
  PROVE  Max(S) \in S /\ \A x \in S : x <= Max(S)
<1> DEFINE B == {b \in Nat : \A x \in S : x <= b}
<1>1. PICK m \in B : \A b \in B : ~ (<<b, m>> \in OpToRel(<, Nat))
  <2>1. B # {} /\ B \subseteq Nat
    OBVIOUS
  <2> HIDE DEF B
  <2> QED
    BY <2>1, NatLessThanWellFounded, WFMin
<1>2. \A b \in B : ~ (b < m)
  BY <1>1 DEF OpToRel
<1>3. m \in S
  <2> SUFFICES ASSUME m \notin S PROVE FALSE
    OBVIOUS
  <2>1. \A x \in S : x <= m - 1
    OBVIOUS
  <2>2. m - 1 \in Nat
    <3>1. PICK y \in S : TRUE
      OBVIOUS
    <3>2. y \in Nat /\ y <= m - 1 /\ m \in Nat
      BY <2>1, <3>1
    <3> QED
      BY <3>2
  <2>3. m - 1 \in B
    BY <2>1, <2>2
  <2> QED
    BY <1>2, <2>2, <2>3
<1>4. \A x \in S : m >= x
  OBVIOUS
<1>5. Max(S) \in S /\ \A x \in S : Max(S) >= x
  BY <1>3, <1>4 DEF Max
<1> QED
  BY <1>5

\* What is known of code that is deployed.
LEMMA CodeFacts ==
  ASSUME NEW source \in Code
  PROVE  /\ Len(source) \in Nat /\ DOMAIN source = 1..Len(source)
         /\ \A i, j \in DOMAIN source : source[i].name = source[j].name => i = j
         /\ source \in Seq([name : Names, kind : Kinds])
<1>1. CASE source \in Codes
  <2>1. source \in Seq([name : Names, kind : Kinds])
    BY <1>1, CodesAssumption
  <2>2. Len(source) \in Nat /\ DOMAIN source = 1..Len(source)
    BY <2>1, LenProperties
  <2> QED
    BY <1>1, <2>1, <2>2, CodesAssumption
<1>2. CASE source = <<>>
  <2>1. Len(source) = 0 /\ DOMAIN source = 1..0 /\ 1..0 = {}
    BY <1>2
  <2> QED
    BY <1>2, <2>1, EmptySeq
<1> QED
  BY <1>1, <1>2 DEF Code

\* The classes up to a new one: at least one, and more than those up to an
\* earlier one.
LEMMA NewUpToFacts ==
  ASSUME NEW source \in Code, NEW classes, NEW i \in DOMAIN source,
         source[i].name \notin DOMAIN classes
  PROVE  /\ NewUpTo(source, classes, source[i].name) \in 1..Len(source)
         /\ \A k \in DOMAIN source :
              k < i => NewUpTo(source, classes, source[k].name)
                         < NewUpTo(source, classes, source[i].name)
<1> DEFINE New(k) == {h \in DOMAIN source :
                        /\ source[h].name \notin DOMAIN classes
                        /\ \E j \in DOMAIN source : h <= j /\ source[j].name = source[k].name}
<1>1. /\ Len(source) \in Nat /\ DOMAIN source = 1..Len(source)
      /\ \A k, j \in DOMAIN source : source[k].name = source[j].name => k = j
  BY CodeFacts
<1>2. IsFiniteSet(DOMAIN source) /\ Cardinality(DOMAIN source) = Len(source)
  <2>1. 1 \in Int /\ Len(source) \in Int
    BY <1>1
  <2>2. /\ IsFiniteSet(1..Len(source))
        /\ Cardinality(1..Len(source)) = IF 1 > Len(source) THEN 0 ELSE Len(source) - 1 + 1
    BY <2>1, FS_Interval
  <2> QED
    BY <1>1, <2>2
<1>3. \A k \in DOMAIN source : NewUpTo(source, classes, source[k].name) = Cardinality(New(k))
  BY DEF NewUpTo
<1>4. \A k \in DOMAIN source : New(k) \subseteq DOMAIN source
  OBVIOUS
<1>5. \A k \in DOMAIN source :
        /\ IsFiniteSet(New(k)) /\ Cardinality(New(k)) \in Nat
        /\ Cardinality(New(k)) <= Len(source)
  <2> HIDE DEF New
  <2> QED
    BY <1>2, <1>4, FS_Subset, FS_CardinalityType
<1>6. i \in New(i)
  BY <1>1
<1>7. Cardinality(New(i)) # 0
  <2> HIDE DEF New
  <2> QED
    BY <1>5, <1>6, FS_EmptySet
<1>8. ASSUME NEW k \in DOMAIN source, k < i
      PROVE  Cardinality(New(k)) < Cardinality(New(i))
  <2>1. i \notin New(k)
    BY <1>1, <1>8
  <2>2. New(k) \subseteq New(i)
    BY <1>1, <1>8
  <2> HIDE DEF New
  <2>3. /\ Cardinality(New(k)) <= Cardinality(New(i))
        /\ Cardinality(New(i)) = Cardinality(New(k)) => New(i) = New(k)
    BY <1>5, <2>2, FS_Subset
  <2> QED
    BY <1>5, <1>6, <2>1, <2>3
<1> HIDE DEF New
<1> QED
  BY <1>1, <1>3, <1>5, <1>7, <1>8

\* The ids of an index: those that were mapped, and above the last id as many
\* different ones as there are new classes.
LEMMA IndexFacts ==
  ASSUME NEW source \in Code, NEW classes, NEW last, IsTable(classes, last)
  PROVE  LET index == IndexOf(source, classes, last)
         IN  /\ DOMAIN index = NamesOf(source) /\ IsInjective(index)
             /\ \A n \in NamesOf(source) :
                  /\ index[n] \in Nat /\ index[n] <= last + Len(source)
                  /\ n \in DOMAIN classes => index[n] = classes[n]
                  /\ n \notin DOMAIN classes => index[n] > last
<1> DEFINE index == IndexOf(source, classes, last)
<1>1. /\ DOMAIN index = NamesOf(source)
      /\ \A n \in NamesOf(source) :
           index[n] = IF n \in DOMAIN classes THEN classes[n]
                      ELSE last + NewUpTo(source, classes, n)
  BY DEF IndexOf
<1>2. /\ Len(source) \in Nat /\ DOMAIN source = 1..Len(source)
      /\ \A i, j \in DOMAIN source : source[i].name = source[j].name => i = j
  BY CodeFacts
<1>3. last \in Nat /\ \A n \in DOMAIN classes : classes[n] \in Nat /\ classes[n] <= last
  BY DEF IsTable
<1>4. ASSUME NEW n \in NamesOf(source), n \notin DOMAIN classes
      PROVE  NewUpTo(source, classes, n) \in 1..Len(source)
  <2>1. PICK i \in DOMAIN source : source[i].name = n
    BY DEF NamesOf
  <2> QED
    BY <1>4, <2>1, NewUpToFacts
<1>5. \A n \in NamesOf(source) :
        /\ index[n] \in Nat /\ index[n] <= last + Len(source)
        /\ n \in DOMAIN classes => index[n] = classes[n]
        /\ n \notin DOMAIN classes => index[n] > last
  <2> TAKE n \in NamesOf(source)
  <2>1. CASE n \in DOMAIN classes
    BY <1>1, <1>2, <1>3, <2>1
  <2>2. CASE n \notin DOMAIN classes
    BY <1>1, <1>2, <1>3, <1>4, <2>2
  <2> QED
    BY <2>1, <2>2
<1>6. ASSUME NEW a \in NamesOf(source), NEW b \in NamesOf(source), index[a] = index[b]
      PROVE  a = b
  <2>1. CASE a \in DOMAIN classes /\ b \in DOMAIN classes
    BY <1>5, <1>6, <2>1 DEF IsTable, IsInjective
  <2>2. CASE a \notin DOMAIN classes /\ b \notin DOMAIN classes
    <3>1. PICK i \in DOMAIN source : source[i].name = a
      BY DEF NamesOf
    <3>2. PICK j \in DOMAIN source : source[j].name = b
      BY DEF NamesOf
    <3>3. /\ NewUpTo(source, classes, a) \in Nat /\ NewUpTo(source, classes, b) \in Nat
          /\ NewUpTo(source, classes, a) = NewUpTo(source, classes, b)
      BY <1>1, <1>2, <1>3, <1>4, <1>6, <2>2
    <3>4. ~ (i < j) /\ ~ (j < i)
      BY <2>2, <3>1, <3>2, <3>3, NewUpToFacts
    <3> QED
      BY <1>2, <3>1, <3>2, <3>4
  <2>3. CASE a \in DOMAIN classes <=> b \notin DOMAIN classes
    <3>1. \A n \in NamesOf(source) : index[n] \in Nat /\ (n \in DOMAIN classes <=> index[n] <= last)
      BY <1>3, <1>5
    <3> QED
      BY <1>6, <2>3, <3>1
  <2> QED
    BY <2>1, <2>2, <2>3
<1>7. IsInjective(index)
  BY <1>1, <1>6 DEF IsInjective
<1> QED
  BY <1>1, <1>5, <1>7

\* The table after a deployment: the index and the greatest id there was.
LEMMA IndexIsTable ==
  ASSUME NEW source \in Code, NEW classes, NEW last, IsTable(classes, last)
  PROVE  LET index == IndexOf(source, classes, last)
             next == Max(Ids(index) \cup {last})
         IN  IsTable(index, next) /\ last <= next
<1> DEFINE index == IndexOf(source, classes, last)
           S == Ids(index) \cup {last}
<1>1. /\ DOMAIN index = NamesOf(source) /\ IsInjective(index)
      /\ \A n \in NamesOf(source) : index[n] \in Nat /\ index[n] <= last + Len(source)
  BY IndexFacts
<1>2. last \in Nat /\ Len(source) \in Nat
  BY CodeFacts DEF IsTable
<1>3. S \in SUBSET Nat /\ S # {} /\ last + Len(source) \in Nat
  BY <1>1, <1>2 DEF Ids
<1>4. \A x \in S : x <= last + Len(source)
  BY <1>1, <1>2 DEF Ids
<1>5. Max(S) \in S /\ \A x \in S : x <= Max(S)
  <2> HIDE DEF S
  <2> QED
    BY <1>3, <1>4, MaxOfBounded
<1>6. /\ Max(S) \in Nat /\ last <= Max(S)
      /\ \A n \in DOMAIN index : index[n] <= Max(S)
  BY <1>3, <1>5 DEF Ids
<1> QED
  BY <1>1, <1>6 DEF IsTable

-----------------------------------------------------------------------------
(* The ids in directories and requests.                                    *)

LEMMA EmptyTable == Ids(Empty) = {} /\ DOMAIN Empty = {} /\ IsTable(Empty, 0)
  BY DEF Ids, Empty, IsTable, IsInjective

LEMMA IdleAgrees ==
  ASSUME NEW ser, NEW given
  PROVE  RequestAgrees(ser, given, Idle) /\ JsonAgrees(ser, given, NoJson)
<1>1. /\ Idle.pc = "idle" /\ Idle.source = <<>> /\ Idle.classes = Empty /\ Idle.last = 0
      /\ Idle.worker = 0
  BY DEF Idle
<1>2. NoJson.checksum = <<>> /\ NoJson.known = Empty /\ NoJson.last = 0 /\ NoJson.worker = 0
  BY DEF NoJson
<1>3. <<>> \in Code
  BY DEF Code
<1>4. RequestAgrees(ser, given, Idle)
  BY <1>1, <1>3, EmptyTable DEF RequestAgrees, Starting, Ended
<1>5. JsonAgrees(ser, given, NoJson)
  BY <1>2, <1>3, EmptyTable DEF JsonAgrees
<1> QED
  BY <1>4, <1>5

\* A request that goes on, or is given up, keeps what it asks for.
LEMMA SameTableAgrees ==
  ASSUME NEW ser, NEW given, NEW q, NEW p, RequestAgrees(ser, given, q),
         p.worker = q.worker, p.version = q.version, p.source = q.source,
         p.classes = q.classes, p.last = q.last,
         p.pc \in Starting => q.pc \in Starting, p.pc \in Ended => q.pc \in Ended
  PROVE  RequestAgrees(ser, given, p)
<1>1. IndexOfRequest(p) = IndexOfRequest(q) /\ LastOf(p) = LastOf(q)
  BY DEF IndexOfRequest, LastOf
<1> QED
  BY <1>1 DEF RequestAgrees

\* What a developer sends is an edit of what she has.
LEMMA RequestOfAgrees ==
  ASSUME NEW ser, NEW given, NEW j, JsonAgrees(ser, given, j), NEW d,
         NEW code \in Codes, NEW classes \in ClassKeys(j.known), IsEditOf(code, classes, j)
  PROVE  RequestAgrees(ser, given, RequestOf(d, j, code, classes))
<1> DEFINE q == RequestOf(d, j, code, classes)
<1>1. /\ q.pc = "sent" /\ q.worker = j.worker /\ q.version = j.version
      /\ q.source = code /\ q.classes = classes /\ q.last = j.last
  BY DEF RequestOf
<1>2. PICK S \in SUBSET Names : classes \in [S -> Ids(j.known)] /\ IsInjective(classes)
  BY DEF ClassKeys
<1>3. \A n \in DOMAIN classes : \E old \in DOMAIN j.known : classes[n] = j.known[old]
  BY <1>2 DEF Ids
<1>4. IsTable(classes, j.last)
  BY <1>2, <1>3 DEF JsonAgrees, IsTable
<1>5. code \in Code
  BY DEF Code
<1>6. j.worker = 0 => DOMAIN classes = {}
  BY <1>3 DEF JsonAgrees
<1>7. ASSUME j.worker # 0
      PROVE  Agrees(ser, given, j.worker, j.version, code, classes, j.last)
  <2>1. Agrees(ser, given, j.worker, j.version, j.checksum, j.known, j.last)
    BY <1>7 DEF JsonAgrees
  <2>2. ASSUME j.version = ser[j.worker].version, NEW i \in DOMAIN code,
               code[i].name \in DOMAIN classes
        PROVE  <<j.worker, classes[code[i].name], code[i].kind>> \in given
    <3>1. PICK old \in DOMAIN j.known :
            /\ j.known[old] = classes[code[i].name]
            /\ [name |-> old, kind |-> code[i].kind] \in ToSet(j.checksum)
      BY <2>2 DEF IsEditOf
    <3>2. PICK k \in DOMAIN j.checksum : j.checksum[k] = [name |-> old, kind |-> code[i].kind]
      BY <3>1 DEF ToSet
    <3> QED
      BY <2>1, <2>2, <3>1, <3>2 DEF Agrees
  <2> QED
    BY <2>1, <2>2 DEF Agrees
<1> HIDE DEF q
<1>8. RequestAgrees(ser, given, q)
  BY <1>1, <1>4, <1>5, <1>6, <1>7 DEF RequestAgrees, Starting, Ended
<1> QED
  BY <1>8 DEF q

\* A worker that was never set up has no ids.
LEMMA InsertedAgrees ==
  ASSUME NEW ser, NEW given, NEW q, NEW p, NEW w \in 1..MaxWorkers,
         GivenOnce(ser, given), RequestAgrees(ser, given, q), ser[w].version = 0,
         q.worker = 0, p.pc = "asked", p.worker = w, p.version = 0, p.source = q.source,
         p.classes = q.classes, p.last = q.last
  PROVE  RequestAgrees(ser, given, p)
<1>1. \A o \in given : o[1] # w
  BY DEF GivenOnce
<1>2. DOMAIN p.classes = {}
  BY DEF RequestAgrees
<1>3. Agrees(ser, given, p.worker, p.version, p.source, p.classes, p.last)
  BY <1>1, <1>2 DEF Agrees
<1>4. w # 0
  BY MaxWorkersType
<1> QED
  BY <1>3, <1>4 DEF RequestAgrees, Starting, Ended

\* worker.json after a deployment.
LEMMA NewJsonAgrees ==
  ASSUME NEW r, RequestAgrees(serenity, owners, deploy[r]), deploy[r].pc = "committed"
  PROVE  JsonAgrees(serenity, owners, NewJson(r))
<1> DEFINE q == deploy[r]
<1>1. /\ NewJson(r).worker = q.worker /\ NewJson(r).version = q.version + 1
      /\ NewJson(r).checksum = q.source /\ NewJson(r).known = IndexOfRequest(q)
      /\ NewJson(r).last = LastOf(q)
  BY DEF NewJson, Index, IndexOfRequest, LastOf
<1>2. IsTable(IndexOfRequest(q), LastOf(q))
  BY IndexIsTable DEF RequestAgrees, IndexOfRequest, LastOf
<1>3. Agrees(serenity, owners, q.worker, q.version + 1, q.source, IndexOfRequest(q), LastOf(q))
  BY DEF RequestAgrees, Ended
<1>4. q.worker # 0
  BY <1>3, MaxWorkersType DEF Agrees
<1> QED
  BY <1>1, <1>2, <1>3, <1>4 DEF JsonAgrees, RequestAgrees

\* Serenity sets a worker up from version v to the next one, and the ids of the
\* index are given to what the source has under its names.
Gives(ser, given, q, ser2, given2) ==
    /\ q.pc \in {"asked", "late"} /\ q.worker # 0
    /\ ser[q.worker].version = q.version /\ ser2[q.worker].version = q.version + 1
    /\ \A w \in 1..MaxWorkers : w # q.worker => ser2[w] = ser[w]
    /\ given2 = given \cup
         {<<q.worker, IndexOfRequest(q)[c.name], c.kind>> : c \in ToSet(q.source)}

\* What agreed with the versions before a setup agrees with those after it.
LEMMA GivesKeepsTables ==
  ASSUME NEW ser, NEW given, NEW q, NEW ser2, NEW given2, Gives(ser, given, q, ser2, given2),
         RequestAgrees(ser, given, q),
         NEW w, NEW v, NEW source, NEW classes, NEW last,
         Agrees(ser, given, w, v, source, classes, last)
  PROVE  Agrees(ser2, given2, w, v, source, classes, last)
<1>1. q.worker \in 1..MaxWorkers /\ q.version \in Nat
  BY DEF Gives, RequestAgrees, Starting, Agrees
<1>2. w \in 1..MaxWorkers /\ v \in Nat /\ v <= ser[w].version
  BY DEF Agrees
<1>3. CASE w = q.worker
  <2>1. v <= q.version /\ ser2[w].version = q.version + 1
    BY <1>2, <1>3 DEF Gives
  <2>2. v <= ser2[w].version /\ v # ser2[w].version
    BY <1>1, <1>2, <2>1
  <2> QED
    BY <1>2, <2>2 DEF Agrees
<1>4. CASE w # q.worker
  <2>1. ser2[w] = ser[w]
    BY <1>2, <1>4 DEF Gives
  <2>2. given \subseteq given2 /\ \A o \in given2 : o[1] = w => o \in given
    BY <1>4 DEF Gives
  <2> QED
    BY <2>1, <2>2 DEF Agrees
<1> QED
  BY <1>3, <1>4

LEMMA GivesKeeps ==
  ASSUME NEW ser, NEW given, NEW q, NEW ser2, NEW given2, Gives(ser, given, q, ser2, given2),
         RequestAgrees(ser, given, q)
  PROVE  /\ \A j : JsonAgrees(ser, given, j) => JsonAgrees(ser2, given2, j)
         /\ \A p : RequestAgrees(ser, given, p) => RequestAgrees(ser2, given2, p)
<1>1. ASSUME NEW j, JsonAgrees(ser, given, j)
      PROVE  JsonAgrees(ser2, given2, j)
  BY <1>1, GivesKeepsTables DEF JsonAgrees
<1>2. ASSUME NEW p, RequestAgrees(ser, given, p)
      PROVE  RequestAgrees(ser2, given2, p)
  BY <1>2, GivesKeepsTables DEF RequestAgrees
<1> QED
  BY <1>1, <1>2

\* The tables of a version agree with it when it has been set up.
LEMMA GivesAgrees ==
  ASSUME NEW ser, NEW given, NEW q, NEW ser2, NEW given2, Gives(ser, given, q, ser2, given2),
         GivenOnce(ser, given), RequestAgrees(ser, given, q),
         NEW p, p.pc \in Ended, p.pc \notin Starting, p.worker = q.worker, p.version = q.version,
         p.source = q.source, p.classes = q.classes, p.last = q.last
  PROVE  RequestAgrees(ser2, given2, p)
<1> DEFINE index == IndexOfRequest(q)
           next == LastOf(q)
<1>1. /\ q.source \in Code /\ IsTable(q.classes, q.last)
      /\ Agrees(ser, given, q.worker, q.version, q.source, q.classes, q.last)
  BY DEF Gives, RequestAgrees, Starting
<1>2. IsTable(index, next) /\ q.last <= next
  BY <1>1, IndexIsTable DEF IndexOfRequest, LastOf
<1>3. DOMAIN index = NamesOf(q.source)
  BY <1>1, IndexFacts DEF IndexOfRequest
<1>4. /\ q.worker \in 1..MaxWorkers /\ q.version \in Nat /\ q.last \in Nat /\ next \in Nat
      /\ \A n \in NamesOf(q.source) : index[n] \in Nat /\ index[n] <= next
  BY <1>1, <1>2, <1>3 DEF Agrees, IsTable
<1>5. ASSUME NEW o \in given2, o[1] = q.worker
      PROVE  o[2] <= next
  <2>1. CASE o \in given
    <3>1. o[2] <= q.last /\ o[2] \in Nat
      BY <1>1, <1>5, <2>1 DEF Gives, Agrees, GivenOnce
    <3> QED
      BY <1>2, <1>4, <3>1
  <2>2. CASE o \notin given
    <3>1. PICK c \in ToSet(q.source) : o = <<q.worker, index[c.name], c.kind>>
      BY <2>2 DEF Gives
    <3>2. c.name \in NamesOf(q.source)
      BY DEF ToSet, NamesOf
    <3> QED
      BY <1>4, <3>1, <3>2
  <2> QED
    BY <2>1, <2>2
<1>6. ASSUME NEW i \in DOMAIN q.source
      PROVE  <<q.worker, index[q.source[i].name], q.source[i].kind>> \in given2
  <2>1. q.source[i] \in ToSet(q.source)
    BY DEF ToSet
  <2> QED
    BY <2>1 DEF Gives
<1>7. Agrees(ser2, given2, q.worker, q.version + 1, q.source, index, next)
  <2>1. q.version + 1 \in Nat /\ ser2[q.worker].version = q.version + 1
    BY <1>4 DEF Gives
  <2>2. q.version + 1 <= ser2[q.worker].version
    BY <2>1
  <2> HIDE DEF index, next
  <2> QED
    BY <1>4, <1>5, <1>6, <2>1, <2>2 DEF Agrees
<1>8. IndexOfRequest(p) = index /\ LastOf(p) = next
  BY DEF IndexOfRequest, LastOf
<1>9. p.worker # 0
  BY DEF Gives
<1> QED
  BY <1>1, <1>7, <1>8, <1>9 DEF RequestAgrees

\* Ids are given to one kind of class also by the next setup: those that were
\* given before are mapped to what they were given to, and the others are new.
LEMMA GivesOnce ==
  ASSUME NEW ser, NEW given, NEW q, NEW ser2, NEW given2, Gives(ser, given, q, ser2, given2),
         GivenOnce(ser, given), RequestAgrees(ser, given, q)
  PROVE  GivenOnce(ser2, given2)
<1> DEFINE index == IndexOfRequest(q)
<1>1. /\ q.source \in Code /\ IsTable(q.classes, q.last)
      /\ Agrees(ser, given, q.worker, q.version, q.source, q.classes, q.last)
  BY DEF Gives, RequestAgrees, Starting
<1>2. /\ DOMAIN index = NamesOf(q.source) /\ IsInjective(index)
      /\ \A n \in NamesOf(q.source) :
           /\ index[n] \in Nat
           /\ n \in DOMAIN q.classes => index[n] = q.classes[n]
           /\ n \notin DOMAIN q.classes => index[n] > q.last
  BY <1>1, IndexFacts DEF IndexOfRequest
<1>3. q.worker \in 1..MaxWorkers /\ q.version \in Nat /\ q.last \in Nat
  BY <1>1 DEF Agrees, IsTable
<1>4. ASSUME NEW o \in given2, o \notin given
      PROVE  \E i \in DOMAIN q.source :
               o = <<q.worker, index[q.source[i].name], q.source[i].kind>>
  BY <1>4 DEF Gives, ToSet
<1>5. \A i \in DOMAIN q.source : q.source[i].name \in NamesOf(q.source)
  BY DEF NamesOf
<1>6. ASSUME NEW o \in given2
      PROVE  o[1] \in 1..MaxWorkers /\ o[2] \in Nat /\ ser2[o[1]].version # 0
  <2>1. CASE o \in given
    <3>1. o[1] \in 1..MaxWorkers /\ o[2] \in Nat /\ ser[o[1]].version # 0
      BY <2>1 DEF GivenOnce
    <3>2. q.version + 1 # 0
      BY <1>3
    <3> QED
      BY <3>1, <3>2 DEF Gives
  <2>2. CASE o \notin given
    <3>1. PICK i \in DOMAIN q.source :
            o = <<q.worker, index[q.source[i].name], q.source[i].kind>>
      BY <1>4, <2>2
    <3>2. q.version + 1 # 0
      BY <1>3
    <3>3. index[q.source[i].name] \in Nat
      BY <1>2, <1>5
    <3> QED
      BY <1>3, <3>1, <3>2, <3>3 DEF Gives
  <2> QED
    BY <2>1, <2>2
<1>7. ASSUME NEW o \in given, NEW p \in given2, p \notin given, o[1] = p[1], o[2] = p[2]
      PROVE  FALSE
  <2>1. PICK i \in DOMAIN q.source :
          p = <<q.worker, index[q.source[i].name], q.source[i].kind>>
    BY <1>4, <1>7
  <2> DEFINE n == q.source[i].name
  <2>2. o[1] = q.worker /\ o[2] = index[n] /\ n \in NamesOf(q.source)
    BY <1>5, <1>7, <2>1
  <2>3. o[2] <= q.last /\ o[2] \in Nat
    BY <1>1, <2>2 DEF Gives, Agrees, GivenOnce
  <2>4. CASE n \in DOMAIN q.classes
    <3>1. <<q.worker, q.classes[n], q.source[i].kind>> \in given
      BY <1>1, <2>4 DEF Gives, Agrees
    <3> QED
      BY <1>2, <1>7, <2>1, <2>2, <2>4, <3>1
  <2>5. CASE n \notin DOMAIN q.classes
    <3>1. index[n] \in Nat /\ index[n] > q.last
      BY <1>2, <2>2, <2>5
    <3> QED
      BY <1>3, <2>2, <2>3, <3>1
  <2> QED
    BY <2>4, <2>5
<1>8. ASSUME NEW o \in given2, NEW p \in given2, o \notin given, p \notin given, o[2] = p[2]
      PROVE  o = p
  <2>1. PICK i \in DOMAIN q.source :
          o = <<q.worker, index[q.source[i].name], q.source[i].kind>>
    BY <1>4, <1>8
  <2>2. PICK k \in DOMAIN q.source :
          p = <<q.worker, index[q.source[k].name], q.source[k].kind>>
    BY <1>4, <1>8
  <2>3. index[q.source[i].name] = index[q.source[k].name]
    BY <1>8, <2>1, <2>2
  <2>4. q.source[i].name = q.source[k].name
    BY <1>2, <1>5, <2>3 DEF IsInjective
  <2>5. i = k
    BY <1>1, <2>4, CodeFacts
  <2> QED
    BY <2>1, <2>2, <2>5
<1>9. \A o, p \in given2 : o[1] = p[1] /\ o[2] = p[2] => o[3] = p[3]
  <2> SUFFICES ASSUME NEW o \in given2, NEW p \in given2, o[1] = p[1], o[2] = p[2]
               PROVE  o[3] = p[3]
    OBVIOUS
  <2>1. CASE o \in given /\ p \in given
    BY <2>1 DEF GivenOnce
  <2>2. CASE o \notin given /\ p \notin given
    BY <1>8, <2>2
  <2>3. CASE o \in given <=> p \notin given
    BY <1>7, <2>3
  <2> QED
    BY <2>1, <2>2, <2>3
<1> QED
  BY <1>6, <1>9 DEF GivenOnce

-----------------------------------------------------------------------------
(* Every step keeps what the tables say of the ids.                        *)

\* What q is asked to deploy becomes what p is asked to deploy.
SameTable(p, q) ==
    /\ p.version = q.version /\ p.source = q.source
    /\ p.classes = q.classes /\ p.last = q.last

LEMMA ChangedRequest ==
  ASSUME TypeOK, NEW r \in Requests
  PROVE  /\ deploy[r].dev \in Developers \cup {Nobody}
         /\ \A p : deploy' = [deploy EXCEPT ![r] = p] =>
              deploy'[r] = p /\ \A q \in Requests : q # r => deploy'[q] = deploy[q]
  BY DEF TypeOK, RequestsOK, IsRequest

LEMMA StepTable ==
  ASSUME TypeOK, NEW r \in Requests, NEW pc, Step(r, pc)
  PROVE  /\ \A q \in Requests : q # r => deploy'[q] = deploy[q]
         /\ deploy'[r].pc = pc /\ deploy'[r].worker = deploy[r].worker
         /\ SameTable(deploy'[r], deploy[r])
<1>1. deploy' = [deploy EXCEPT ![r] = [deploy[r] EXCEPT !.pc = pc]]
  BY DEF Step
<1>2. DOMAIN deploy = Requests /\ DOMAIN deploy[r] = DOMAIN Idle
  BY DEF TypeOK, RequestsOK, IsRequest
<1> QED
  BY <1>1, <1>2, Fields DEF SameTable

\* A request ends or goes on, and nothing else changes.
LEMMA KeepsIds ==
  ASSUME IdsInv, UNCHANGED <<serenity, owners, json>>, NEW r \in Requests,
         \A q \in Requests : q # r => deploy'[q] = deploy[q],
         RequestAgrees(serenity, owners, deploy'[r])
  PROVE  IdsInv'
<1>1. \A q \in Requests : RequestAgrees(serenity, owners, deploy'[q])
  BY DEF IdsInv
<1> QED
  BY <1>1 DEF IdsInv

LEMMA EndIds ==
  ASSUME TypeOK, IdsInv, UNCHANGED <<serenity, owners, json>>, NEW r \in Requests, End(r)
  PROVE  IdsInv'
<1>1. deploy'[r] = Idle /\ \A q \in Requests : q # r => deploy'[q] = deploy[q]
  BY DEF End, TypeOK, RequestsOK
<1> QED
  BY <1>1, IdleAgrees, KeepsIds

LEMMA StepIds ==
  ASSUME TypeOK, IdsInv, UNCHANGED <<serenity, owners, json>>, NEW r \in Requests, NEW pc,
         Step(r, pc),
         pc \in Starting => deploy[r].pc \in Starting, pc \in Ended => deploy[r].pc \in Ended
  PROVE  IdsInv'
<1>1. /\ \A q \in Requests : q # r => deploy'[q] = deploy[q]
      /\ deploy'[r].pc = pc /\ deploy'[r].worker = deploy[r].worker
      /\ SameTable(deploy'[r], deploy[r])
  BY StepTable
<1>2. RequestAgrees(serenity, owners, deploy'[r])
  BY <1>1, SameTableAgrees DEF IdsInv, SameTable
<1> QED
  BY <1>1, <1>2, KeepsIds

LEMMA StartIds ==
  ASSUME TypeOK, IdsInv, NEW r \in Requests, NEW d \in Developers, StartDeploy(d, r)
  PROVE  IdsInv'
<1> PICK j \in Opened, code \in Codes :
       /\ json' = [json EXCEPT ![d] = j]
       /\ \E classes \in ClassKeys(j.known) :
            /\ IsEditOf(code, classes, j)
            /\ deploy' = [deploy EXCEPT ![r] = RequestOf(d, j, code, classes)]
  BY DEF StartDeploy
<1> PICK classes \in ClassKeys(j.known) :
       /\ IsEditOf(code, classes, j)
       /\ deploy' = [deploy EXCEPT ![r] = RequestOf(d, j, code, classes)]
  OBVIOUS
<1>1. serenity' = serenity /\ owners' = owners
  BY DEF StartDeploy
<1>2. JsonAgrees(serenity, owners, j)
  BY IdleAgrees DEF Opened, IdsInv
<1>3. RequestAgrees(serenity, owners, RequestOf(d, j, code, classes))
  BY <1>2, RequestOfAgrees
<1>4. /\ deploy'[r] = RequestOf(d, j, code, classes)
      /\ \A q \in Requests : q # r => deploy'[q] = deploy[q]
  BY ChangedRequest
<1>5. json'[d] = j /\ \A e \in Developers : e # d => json'[e] = json[e]
  BY DEF TypeOK, DirectoriesOK
<1>6. \A q \in Requests : RequestAgrees(serenity, owners, deploy'[q])
  BY <1>3, <1>4 DEF IdsInv
<1>7. \A e \in Developers : JsonAgrees(serenity, owners, json'[e])
  BY <1>2, <1>5 DEF IdsInv
<1> QED
  BY <1>1, <1>6, <1>7 DEF IdsInv

LEMMA InsertIds ==
  ASSUME IInv, IdsInv, NEW r \in Requests, Insert(r)
  PROVE  IdsInv'
<1> TypeOK /\ IdentityInv /\ IdsAreNew
  BY DEF IInv
<1>1. UNCHANGED <<serenity, owners, json>>
  BY DEF Insert
<1>2. CASE End(r)
  BY <1>1, <1>2, EndIds
<1>3. CASE ~ End(r)
  <2>1. /\ nextWorker <= MaxWorkers
        /\ deploy' = [deploy EXCEPT ![r].pc = "asked", ![r].worker = nextWorker]
        /\ deploy[r].pc = "sent" /\ ~ IsUpdate(r)
    BY <1>3 DEF Insert
  <2>2. deploy[r].worker = 0 /\ deploy[r].version = 0
    BY <2>1 DEF IdentityInv, IsUpdate
  <2>3. nextWorker \in 1..MaxWorkers /\ nextWorker >= nextWorker
    BY <2>1, Numbers, MaxWorkersType
  <2>4. serenity[nextWorker].version = 0
    BY <2>3 DEF IdsAreNew
  <2>5. DOMAIN deploy = Requests /\ DOMAIN deploy[r] = DOMAIN Idle
    BY DEF TypeOK, RequestsOK, IsRequest
  <2>6. /\ deploy'[r].pc = "asked" /\ deploy'[r].worker = nextWorker
        /\ SameTable(deploy'[r], deploy[r])
        /\ \A q \in Requests : q # r => deploy'[q] = deploy[q]
    BY <2>1, <2>5, Fields DEF SameTable
  <2>7. RequestAgrees(serenity, owners, deploy'[r])
    BY <2>2, <2>3, <2>4, <2>6, InsertedAgrees DEF IdsInv, SameTable
  <2> QED
    BY <1>1, <2>6, <2>7, KeepsIds
<1> QED
  BY <1>2, <1>3

\* A setup that is accepted gives the ids of the new classes.
LEMMA AcceptedIds ==
  ASSUME IInv, IdsInv, NEW r \in Requests, Setup(r), Accepts(r)
  PROVE  IdsInv'
<1> TypeOK /\ IdentityInv
  BY DEF IInv
<1> DEFINE q == deploy[r]
<1>1. /\ q.pc \in {"asked", "late"} /\ json' = json
      /\ serenity' = [serenity EXCEPT ![q.worker] =
           [version |-> q.version + 1, index |-> IndexOfRequest(q)]]
      /\ owners' = owners \cup
           {<<q.worker, IndexOfRequest(q)[c.name], c.kind>> : c \in ToSet(q.source)}
  BY DEF Setup, Index, IndexOfRequest
<1>2. q.worker # 0 /\ q.worker \in 1..MaxWorkers /\ DOMAIN serenity = 1..MaxWorkers
  <2>1. q.worker # 0
    BY <1>1 DEF IdentityInv
  <2>2. q.worker \in 1..MaxWorkers
    BY <2>1, Numbers, MaxWorkersType, Positive
  <2> QED
    BY <2>1, <2>2 DEF TypeOK, SerenityOK
<1>3. Gives(serenity, owners, q, serenity', owners')
  <2>1. serenity[q.worker].version = q.version
    BY DEF Accepts
  <2>2. /\ serenity'[q.worker].version = q.version + 1
        /\ \A w \in 1..MaxWorkers : w # q.worker => serenity'[w] = serenity[w]
    BY <1>1, <1>2
  <2> QED
    BY <1>1, <1>2, <2>1, <2>2 DEF Gives
<1> HIDE DEF q
<1>4. RequestAgrees(serenity, owners, q)
  BY DEF IdsInv, q
<1>5. /\ GivenOnce(serenity', owners')
      /\ \A j : JsonAgrees(serenity, owners, j) => JsonAgrees(serenity', owners', j)
      /\ \A p : RequestAgrees(serenity, owners, p) => RequestAgrees(serenity', owners', p)
  BY <1>3, <1>4, GivesKeeps, GivesOnce DEF IdsInv
<1>6. \A d \in Developers : JsonAgrees(serenity', owners', json'[d])
  BY <1>1, <1>5 DEF IdsInv
<1>7. RequestAgrees(serenity', owners', deploy'[r])
  <2>1. CASE deploy[r].pc = "late"
    <3>1. End(r)
      BY <2>1 DEF Setup
    <3>2. deploy'[r] = Idle
      BY <3>1 DEF End, TypeOK, RequestsOK
    <3> QED
      BY <3>2, IdleAgrees
  <2>2. CASE deploy[r].pc # "late"
    <3>1. Step(r, "set up")
      BY <2>2 DEF Setup
    <3>2. /\ deploy'[r].pc = "set up" /\ deploy'[r].worker = q.worker
          /\ SameTable(deploy'[r], q)
      BY <3>1, StepTable DEF q
    <3>3. deploy'[r].pc \in Ended /\ deploy'[r].pc \notin Starting
      BY <3>2 DEF Ended, Starting
    <3> QED
      BY <1>3, <1>4, <3>2, <3>3, GivesAgrees DEF IdsInv, SameTable
  <2> QED
    BY <2>1, <2>2
<1>8. \A p \in Requests : p # r => deploy'[p] = deploy[p]
  <2>1. End(r) \/ Step(r, "set up")
    BY DEF Setup
  <2> QED
    BY <2>1, StepTable DEF End, TypeOK, RequestsOK
<1>9. \A p \in Requests : RequestAgrees(serenity', owners', deploy'[p])
  BY <1>5, <1>7, <1>8 DEF IdsInv
<1> QED
  BY <1>5, <1>6, <1>9 DEF IdsInv

LEMMA FailIds ==
  ASSUME TypeOK, IdsInv, NEW r \in Requests, Fail(r)
  PROVE  IdsInv'
<1>1. UNCHANGED <<serenity, owners, json>>
  BY DEF Fail
<1>2. CASE End(r)
  BY <1>1, <1>2, EndIds
<1>3. CASE Step(r, "undo")
  <2>1. "undo" \notin Starting /\ "undo" \notin Ended
    BY DEF Starting, Ended
  <2> QED
    BY <1>1, <1>3, <2>1, StepIds
<1>4. CASE /\ deploy[r].pc = "asked"
           /\ deploy' = [deploy EXCEPT ![r].pc = "late", ![r].dev = Nobody]
  <2>1. DOMAIN deploy = Requests /\ DOMAIN deploy[r] = DOMAIN Idle
    BY DEF TypeOK, RequestsOK, IsRequest
  <2>2. /\ deploy'[r].pc = "late" /\ deploy'[r].worker = deploy[r].worker
        /\ SameTable(deploy'[r], deploy[r])
        /\ \A q \in Requests : q # r => deploy'[q] = deploy[q]
    BY <1>4, <2>1, Fields DEF SameTable
  <2>3. deploy[r].pc \in Starting /\ deploy'[r].pc \in Starting /\ deploy'[r].pc \notin Ended
    BY <1>4, <2>2 DEF Starting, Ended
  <2>4. RequestAgrees(serenity, owners, deploy'[r])
    BY <2>2, <2>3, SameTableAgrees DEF IdsInv, SameTable
  <2> QED
    BY <1>1, <2>2, <2>4, KeepsIds
<1> QED
  BY <1>2, <1>3, <1>4 DEF Fail

LEMMA ReceiveIds ==
  ASSUME TypeOK, IdsInv, NEW r \in Requests, Receive(r)
  PROVE  IdsInv'
<1>1. /\ UNCHANGED <<serenity, owners>> /\ End(r) /\ deploy[r].pc = "committed"
      /\ json' = [json EXCEPT ![deploy[r].dev] = NewJson(r)]
  BY DEF Receive
<1>2. JsonAgrees(serenity, owners, NewJson(r))
  BY <1>1, NewJsonAgrees DEF IdsInv
<1>3. \A d \in Developers : json'[d] = json[d] \/ json'[d] = NewJson(r)
  BY <1>1 DEF TypeOK, DirectoriesOK
<1>4. \A d \in Developers : JsonAgrees(serenity, owners, json'[d])
  BY <1>2, <1>3 DEF IdsInv
<1>5. deploy'[r] = Idle /\ \A q \in Requests : q # r => deploy'[q] = deploy[q]
  BY <1>1 DEF End, TypeOK, RequestsOK
<1>6. \A q \in Requests : RequestAgrees(serenity, owners, deploy'[q])
  BY <1>5, IdleAgrees DEF IdsInv
<1> QED
  BY <1>1, <1>4, <1>6 DEF IdsInv

LEMMA ServeIds ==
  ASSUME IInv, IdsInv, NEW r \in Requests, Serve(r)
  PROVE  IdsInv'
<1> TypeOK
  BY DEF IInv
<1>1. CASE Select(r)
  <2>1. "selected" \in Starting /\ "selected" \notin Ended /\ "sent" \in Starting
    BY DEF Starting, Ended
  <2> QED
    BY <1>1, <2>1, StepIds, EndIds DEF Select
<1>2. CASE Insert(r)
  BY <1>2, InsertIds
<1>3. CASE Save(r)
  <2>1. "asked" \in Starting /\ "asked" \notin Ended /\ "selected" \in Starting
    BY DEF Starting, Ended
  <2> QED
    BY <1>3, <2>1, StepIds, EndIds DEF Save
<1>4. CASE Setup(r)
  <2>1. CASE Accepts(r)
    BY <1>4, <2>1, AcceptedIds
  <2>2. CASE ~ Accepts(r)
    BY <1>4, <2>2, EndIds DEF Setup
  <2> QED
    BY <2>1, <2>2
<1>5. CASE Commit(r)
  <2>1. "committed" \notin Starting /\ "set up" \in Ended
    BY DEF Starting, Ended
  <2> QED
    BY <1>5, <2>1, StepIds DEF Commit
<1>6. CASE Fail(r)
  BY <1>6, FailIds
<1>7. CASE UndoSetup(r)
  BY <1>7, EndIds DEF UndoSetup
<1>8. CASE Receive(r)
  BY <1>8, ReceiveIds
<1>9. CASE Lose(r)
  BY <1>9, EndIds DEF Lose
<1> QED
  BY <1>1, <1>2, <1>3, <1>4, <1>5, <1>6, <1>7, <1>8, <1>9 DEF Serve

LEMMA NextIds ==
  ASSUME IInv, IdsInv, [Next]_vars
  PROVE  IdsInv'
<1>1. CASE UNCHANGED <<json, deploy, serenity, owners>>
  BY <1>1 DEF IdsInv
<1>2. CASE \E r \in Requests : Serve(r)
  BY <1>2, ServeIds
<1>3. CASE \E r \in Requests : \E d \in Developers : StartDeploy(d, r)
  BY <1>3, StartIds DEF IInv
<1> QED
  BY <1>1, <1>2, <1>3 DEF Next, DeleteFromSerenity, DeleteRow, vars

LEMMA InitIds == Init => IdsInv
<1> SUFFICES ASSUME Init PROVE IdsInv
  OBVIOUS
<1>1. GivenOnce(serenity, owners)
  BY DEF Init, GivenOnce
<1>2. /\ \A d \in Developers : json[d] = NoJson
      /\ \A r \in Requests : deploy[r] = Idle
  BY DEF Init
<1> QED
  BY <1>1, <1>2, IdleAgrees DEF IdsInv

-----------------------------------------------------------------------------
(* What was committed.                                                     *)

\* It stays so while ids are given in order and the row goes to later versions.
LEMMA StaysCommitted ==
  ASSUME NEW rw, NEW next \in Nat, NEW created, NEW w, NEW v, NEW index,
         IsCommitted(rw, next, created, w, v, index),
         NEW rw2, NEW next2 \in Nat, NEW created2, next <= next2,
         created2 \subseteq created \cup {next},
         \/ rw2 = rw \/ rw2.worker # w
         \/ rw.worker = w /\ rw.version \in Nat /\ rw2.version = rw.version + 1
  PROVE  IsCommitted(rw2, next2, created2, w, v, index)
<1>1. w \in 1..MaxWorkers /\ v \in Nat /\ w < next /\ w \notin created
  BY DEF IsCommitted
<1>2. w < next2 /\ w # next
  BY <1>1, MaxWorkersType
<1>3. w \notin created2
  BY <1>1, <1>2
<1>4. ASSUME rw2.worker = w
      PROVE  v <= rw2.version /\ (v = rw2.version => index = rw2.index)
  <2>1. CASE rw2 = rw
    BY <1>4, <2>1 DEF IsCommitted
  <2>2. CASE rw.worker = w /\ rw.version \in Nat /\ rw2.version = rw.version + 1
    <3>1. v <= rw.version
      BY <2>2 DEF IsCommitted
    <3> QED
      BY <1>1, <2>2, <3>1
  <2> QED
    BY <1>4, <2>1, <2>2
<1> QED
  BY <1>1, <1>2, <1>3, <1>4 DEF IsCommitted

\* Requests create only the workers they created before, and the next one.
CreatesInOrder ==
    /\ nextWorker \in Nat /\ nextWorker' \in Nat /\ nextWorker <= nextWorker'
    /\ BeingCreated' \subseteq BeingCreated \cup {nextWorker}

LEMMA InOrder ==
  ASSUME TypeOK, nextWorker' \in {nextWorker, nextWorker + 1}, NEW r \in Requests,
         \A q \in Requests : q # r => deploy'[q] = deploy[q],
         \/ deploy'[r].worker = nextWorker \/ ~ (Creates(r))'
         \/ Creates(r) /\ deploy'[r].worker = deploy[r].worker
  PROVE  CreatesInOrder
<1>1. \A q \in Requests : q # r => ((Creates(q))' <=> Creates(q))
  BY DEF Creates
<1>2. nextWorker \in Nat /\ nextWorker' \in Nat /\ nextWorker <= nextWorker'
  BY Numbers
<1>3. BeingCreated' \subseteq BeingCreated \cup {nextWorker}
  <2> SUFFICES ASSUME NEW q \in Requests, (Creates(q))'
               PROVE  deploy'[q].worker \in BeingCreated \cup {nextWorker}
    BY DEF BeingCreated
  <2>1. CASE q = r
    BY <2>1 DEF BeingCreated
  <2>2. CASE q # r
    BY <1>1, <2>2 DEF BeingCreated
  <2> QED
    BY <2>1, <2>2
<1> QED
  BY <1>2, <1>3 DEF CreatesInOrder

\* A step that commits nothing and leaves the row.
LEMMA KeepsCommits ==
  ASSUME CommitsInv, CreatesInOrder, row' = row, NEW r \in Requests,
         \A q \in Requests : q # r => deploy'[q] = deploy[q], deploy'[r].pc # "committed",
         \A d \in Developers : json'[d].worker # 0 =>
           IsCommitted(row, nextWorker, BeingCreated, json'[d].worker, json'[d].version,
                       json'[d].known)
  PROVE  CommitsInv'
<1>1. \A w, v, index : IsCommitted(row, nextWorker, BeingCreated, w, v, index)
        => IsCommitted(row', nextWorker', BeingCreated', w, v, index)
  BY StaysCommitted DEF CreatesInOrder
<1>2. \A d \in Developers : json'[d].worker # 0 =>
        IsCommitted(row', nextWorker', BeingCreated', json'[d].worker, json'[d].version,
                    json'[d].known)
  BY <1>1
<1>3. \A q \in Requests : deploy'[q].pc = "committed" => deploy'[q] = deploy[q]
  OBVIOUS
<1>4. \A q \in Requests : deploy'[q].pc = "committed" =>
        IsCommitted(row', nextWorker', BeingCreated', deploy'[q].worker, deploy'[q].version + 1,
                    IndexOfRequest(deploy'[q]))
  BY <1>1, <1>3 DEF CommitsInv
<1> QED
  BY <1>2, <1>4 DEF CommitsInv

LEMMA EndCommits ==
  ASSUME TypeOK, CommitsInv, row' = row, json' = json,
         nextWorker' \in {nextWorker, nextWorker + 1}, NEW r \in Requests, End(r)
  PROVE  CommitsInv'
<1>1. deploy'[r] = Idle /\ \A q \in Requests : q # r => deploy'[q] = deploy[q]
  BY DEF End, TypeOK, RequestsOK
<1>2. deploy'[r].pc = "idle"
  BY <1>1 DEF Idle
<1>3. deploy'[r].pc # "committed" /\ ~ (Creates(r))'
  BY <1>2 DEF Creates
<1> QED
  BY <1>1, <1>3, InOrder, KeepsCommits DEF CommitsInv

LEMMA StepCommits ==
  ASSUME TypeOK, CommitsInv, row' = row, json' = json, nextWorker' = nextWorker,
         NEW r \in Requests, NEW pc, Step(r, pc), pc # "committed",
         Creates(r) \/ ~ (Creates(r))'
  PROVE  CommitsInv'
<1>1. /\ \A q \in Requests : q # r => deploy'[q] = deploy[q]
      /\ deploy'[r].pc = pc /\ deploy'[r].worker = deploy[r].worker
  BY StepTable
<1> QED
  BY <1>1, InOrder, KeepsCommits DEF CommitsInv

LEMMA StartCommits ==
  ASSUME TypeOK, CommitsInv, NEW r \in Requests, NEW d \in Developers, StartDeploy(d, r)
  PROVE  CommitsInv'
<1> PICK j \in Opened, code \in Codes :
       /\ json' = [json EXCEPT ![d] = j]
       /\ \E classes : deploy' = [deploy EXCEPT ![r] = RequestOf(d, j, code, classes)]
  BY DEF StartDeploy
<1> PICK classes : deploy' = [deploy EXCEPT ![r] = RequestOf(d, j, code, classes)]
  OBVIOUS
<1>1. row' = row /\ nextWorker' = nextWorker
  BY DEF StartDeploy, jayne
<1>2. /\ deploy'[r] = RequestOf(d, j, code, classes)
      /\ \A q \in Requests : q # r => deploy'[q] = deploy[q]
  BY ChangedRequest
<1>3. deploy'[r].pc = "sent"
  BY <1>2 DEF RequestOf
<1>4. deploy'[r].pc # "committed" /\ ~ (Creates(r))'
  BY <1>3 DEF Creates
<1>5. NoJson.worker = 0
  BY DEF NoJson
<1>6. \A e \in Developers : json'[e] = json[e] \/ json'[e] = j
  BY DEF TypeOK, DirectoriesOK
<1>7. \A e \in Developers : json'[e].worker # 0 =>
        IsCommitted(row, nextWorker, BeingCreated, json'[e].worker, json'[e].version,
                    json'[e].known)
  BY <1>5, <1>6 DEF Opened, CommitsInv
<1> QED
  BY <1>1, <1>2, <1>4, <1>7, InOrder, KeepsCommits

LEMMA InsertCommits ==
  ASSUME TypeOK, CommitsInv, NEW r \in Requests, Insert(r)
  PROVE  CommitsInv'
<1>1. /\ row' = row /\ json' = json /\ nextWorker' \in {nextWorker, nextWorker + 1}
  BY DEF Insert
<1>2. CASE End(r)
  BY <1>1, <1>2, EndCommits
<1>3. CASE ~ End(r)
  <2>1. deploy' = [deploy EXCEPT ![r].pc = "asked", ![r].worker = nextWorker]
    BY <1>3 DEF Insert
  <2>2. DOMAIN deploy = Requests /\ DOMAIN deploy[r] = DOMAIN Idle
    BY DEF TypeOK, RequestsOK, IsRequest
  <2>3. /\ deploy'[r].pc = "asked" /\ deploy'[r].worker = nextWorker
        /\ \A q \in Requests : q # r => deploy'[q] = deploy[q]
    BY <2>1, <2>2, Fields
  <2>4. deploy'[r].pc # "committed"
    BY <2>3
  <2> QED
    BY <1>1, <2>3, <2>4, InOrder, KeepsCommits DEF CommitsInv
<1> QED
  BY <1>2, <1>3

\* The row goes to the version after the one that the update started from, or
\* is that of a worker that nobody knew.
LEMMA CommitCommits ==
  ASSUME IInv, CommitsInv, NEW r \in Requests, Commit(r)
  PROVE  CommitsInv'
<1> TypeOK /\ IdentityInv /\ IdsAreNew /\ CreatesAlone /\ CreatesNew /\ StartsFromRow /\ SetUpInv
  BY DEF IInv
<1> DEFINE w == deploy[r].worker
           v == deploy[r].version
<1>1. /\ deploy[r].pc = "set up" /\ Step(r, "committed")
      /\ row' = [worker |-> w, version |-> v + 1, index |-> Index(r)]
      /\ json' = json /\ nextWorker' = nextWorker
  BY DEF Commit
<1>2. /\ \A q \in Requests : q # r => deploy'[q] = deploy[q]
      /\ deploy'[r].pc = "committed" /\ deploy'[r].worker = w
      /\ deploy'[r].version = v /\ IndexOfRequest(deploy'[r]) = IndexOfRequest(deploy[r])
  BY <1>1, StepTable DEF SameTable, IndexOfRequest
<1>3. IndexOfRequest(deploy[r]) = Index(r)
  BY DEF IndexOfRequest, Index
<1>4. w # 0 /\ w \in 1..MaxWorkers /\ v \in Nat /\ row.version \in Nat
  <2>1. w # 0
    BY <1>1 DEF IdentityInv
  <2> QED
    BY <2>1, Numbers, MaxWorkersType, Positive
<1>5. Updates(r) \/ Creates(r)
  BY <1>1 DEF Updates, Creates
<1>6. ~ (Creates(r))'
  BY <1>2 DEF Creates
<1>7. CreatesInOrder
  BY <1>1, <1>2, <1>6, InOrder
<1>8. w \notin BeingCreated'
  <2> SUFFICES ASSUME NEW q \in Requests, (Creates(q))', deploy'[q].worker = w
               PROVE  FALSE
    BY DEF BeingCreated
  <2>1. q # r /\ deploy[q].worker = w /\ Creates(q)
    BY <1>2, <1>6 DEF Creates
  <2> QED
    BY <1>5, <2>1 DEF CreatesAlone
<1>9. w < nextWorker
  BY <1>5 DEF IdsAreNew
<1>10. row'.worker = w /\ row'.version = v + 1 /\ row'.index = Index(r)
  BY <1>1
<1>11. IsCommitted(row', nextWorker', BeingCreated', w, v + 1, Index(r))
  <2>1. v + 1 \in Nat /\ v + 1 <= row'.version
    BY <1>4, <1>10
  <2> QED
    BY <1>1, <1>4, <1>8, <1>9, <1>10, <2>1 DEF IsCommitted
<1>12. ASSUME NEW w2, NEW v2, NEW index,
              IsCommitted(row, nextWorker, BeingCreated, w2, v2, index)
       PROVE  IsCommitted(row', nextWorker', BeingCreated', w2, v2, index)
  <2>1. CASE w2 # w
    BY <1>7, <1>10, <1>12, <2>1, StaysCommitted DEF CreatesInOrder
  <2>2. CASE w2 = w
    <3>1. ~ Creates(r)
      BY <1>12, <2>2 DEF IsCommitted, BeingCreated
    <3>2. v # 0
      BY <1>1, <3>1 DEF Creates
    <3>3. row.worker = w /\ v = row.version
      BY <1>1, <1>5, <3>1, <3>2 DEF StartsFromRow, SetUpInv, IsLive
    <3> QED
      BY <1>4, <1>7, <1>10, <1>12, <2>2, <3>3, StaysCommitted DEF CreatesInOrder
  <2> QED
    BY <2>1, <2>2
<1>13. \A d \in Developers : json'[d].worker # 0 =>
         IsCommitted(row', nextWorker', BeingCreated', json'[d].worker, json'[d].version,
                     json'[d].known)
  BY <1>1, <1>12 DEF CommitsInv
<1>14. ASSUME NEW q \in Requests, deploy'[q].pc = "committed"
       PROVE  IsCommitted(row', nextWorker', BeingCreated', deploy'[q].worker,
                          deploy'[q].version + 1, IndexOfRequest(deploy'[q]))
  <2>1. CASE q = r
    BY <1>2, <1>3, <1>11, <2>1
  <2>2. CASE q # r
    BY <1>2, <1>12, <1>14, <2>2 DEF CommitsInv
  <2> QED
    BY <2>1, <2>2
<1> QED
  BY <1>13, <1>14 DEF CommitsInv

LEMMA FailCommits ==
  ASSUME TypeOK, CommitsInv, NEW r \in Requests, Fail(r)
  PROVE  CommitsInv'
<1>1. row' = row /\ json' = json /\ nextWorker' = nextWorker
  BY DEF Fail
<1>2. CASE End(r)
  BY <1>1, <1>2, EndCommits
<1>3. CASE deploy[r].pc = "set up" /\ deploy[r].version = 0 /\ Step(r, "undo")
  <2>1. Creates(r)
    BY <1>3 DEF Creates
  <2> QED
    BY <1>1, <1>3, <2>1, StepCommits
<1>4. CASE /\ deploy[r].pc = "asked"
           /\ deploy' = [deploy EXCEPT ![r].pc = "late", ![r].dev = Nobody]
  <2>1. DOMAIN deploy = Requests /\ DOMAIN deploy[r] = DOMAIN Idle
    BY DEF TypeOK, RequestsOK, IsRequest
  <2>2. /\ deploy'[r].pc = "late" /\ deploy'[r].worker = deploy[r].worker
        /\ deploy'[r].version = deploy[r].version
        /\ \A q \in Requests : q # r => deploy'[q] = deploy[q]
    BY <1>4, <2>1, Fields
  <2>3. deploy'[r].pc # "committed" /\ ((Creates(r))' => Creates(r))
    BY <1>4, <2>2 DEF Creates
  <2> QED
    BY <1>1, <2>2, <2>3, InOrder, KeepsCommits DEF CommitsInv
<1> QED
  BY <1>2, <1>3, <1>4 DEF Fail

LEMMA ReceiveCommits ==
  ASSUME TypeOK, CommitsInv, NEW r \in Requests, Receive(r)
  PROVE  CommitsInv'
<1>1. /\ row' = row /\ nextWorker' = nextWorker /\ End(r) /\ deploy[r].pc = "committed"
      /\ json' = [json EXCEPT ![deploy[r].dev] = NewJson(r)]
  BY DEF Receive, jayne
<1>2. /\ NewJson(r).worker = deploy[r].worker /\ NewJson(r).version = deploy[r].version + 1
      /\ NewJson(r).known = IndexOfRequest(deploy[r])
  BY DEF NewJson, Index, IndexOfRequest
<1>3. \A d \in Developers : json'[d] = json[d] \/ json'[d] = NewJson(r)
  BY <1>1 DEF TypeOK, DirectoriesOK
<1>4. \A d \in Developers : json'[d].worker # 0 =>
        IsCommitted(row, nextWorker, BeingCreated, json'[d].worker, json'[d].version,
                    json'[d].known)
  BY <1>1, <1>2, <1>3 DEF CommitsInv
<1>5. deploy'[r] = Idle /\ \A q \in Requests : q # r => deploy'[q] = deploy[q]
  BY <1>1 DEF End, TypeOK, RequestsOK
<1>6. deploy'[r].pc = "idle"
  BY <1>5 DEF Idle
<1>7. deploy'[r].pc # "committed" /\ ~ (Creates(r))'
  BY <1>6 DEF Creates
<1> QED
  BY <1>1, <1>4, <1>5, <1>7, InOrder, KeepsCommits

LEMMA ServeCommits ==
  ASSUME IInv, CommitsInv, NEW r \in Requests, Serve(r)
  PROVE  CommitsInv'
<1> TypeOK /\ IdentityInv
  BY DEF IInv
<1>1. CASE Select(r)
  <2>1. UNCHANGED <<row, json, nextWorker>>
    BY <1>1 DEF Select, jayne
  <2>2. CASE End(r)
    BY <2>1, <2>2, EndCommits
  <2>3. CASE Step(r, "selected")
    <3>1. deploy'[r].pc = "selected"
      BY <2>3, StepTable
    <3>2. ~ (Creates(r))'
      BY <3>1 DEF Creates
    <3> QED
      BY <2>1, <2>3, <3>2, StepCommits
  <2> QED
    BY <1>1, <2>2, <2>3 DEF Select
<1>2. CASE Insert(r)
  BY <1>2, InsertCommits
<1>3. CASE Save(r)
  <2>1. UNCHANGED <<row, json, nextWorker>> /\ deploy[r].pc = "selected"
    BY <1>3 DEF Save
  <2>2. CASE End(r)
    BY <2>1, <2>2, EndCommits
  <2>3. CASE Step(r, "asked")
    <3>1. deploy[r].version # 0
      BY <2>1 DEF IdentityInv
    <3>2. ~ (Creates(r))'
      BY <2>3, <3>1, StepTable DEF Creates, SameTable
    <3> QED
      BY <2>1, <2>3, <3>2, StepCommits
  <2> QED
    BY <1>3, <2>2, <2>3 DEF Save
<1>4. CASE Setup(r)
  <2>1. UNCHANGED <<row, json, nextWorker>> /\ deploy[r].pc \in {"asked", "late"}
    BY <1>4 DEF Setup
  <2>2. CASE End(r)
    BY <2>1, <2>2, EndCommits
  <2>3. CASE Step(r, "set up")
    <3>1. deploy'[r].version = deploy[r].version
      BY <2>3, StepTable DEF SameTable
    <3>2. Creates(r) \/ ~ (Creates(r))'
      BY <2>1, <3>1 DEF Creates
    <3> QED
      BY <2>1, <2>3, <3>2, StepCommits
  <2> QED
    BY <1>4, <2>2, <2>3 DEF Setup
<1>5. CASE Commit(r)
  BY <1>5, CommitCommits
<1>6. CASE Fail(r)
  BY <1>6, FailCommits
<1>7. CASE UndoSetup(r)
  BY <1>7, EndCommits DEF UndoSetup, jayne
<1>8. CASE Receive(r)
  BY <1>8, ReceiveCommits
<1>9. CASE Lose(r)
  BY <1>9, EndCommits DEF Lose, jayne
<1> QED
  BY <1>1, <1>2, <1>3, <1>4, <1>5, <1>6, <1>7, <1>8, <1>9 DEF Serve

\* The row of a worker that was deleted is gone.
LEMMA DeleteRowCommits ==
  ASSUME IInv, CommitsInv, DeleteRow
  PROVE  CommitsInv'
<1>1. /\ UNCHANGED <<json, deploy, nextWorker>>
      /\ row' = row \/ row' = NoRow
  BY DEF DeleteRow
<1>2. BeingCreated' = BeingCreated
  BY <1>1 DEF BeingCreated, Creates
<1>3. nextWorker \in Nat /\ nextWorker <= nextWorker
  BY Numbers DEF IInv
<1>4. NoRow.worker = 0
  BY DEF NoRow
<1>5. ASSUME NEW w, NEW v, NEW index,
             IsCommitted(row, nextWorker, BeingCreated, w, v, index)
      PROVE  IsCommitted(row', nextWorker', BeingCreated', w, v, index)
  <2>1. w # 0
    BY <1>5, MaxWorkersType DEF IsCommitted
  <2>2. row' = row \/ row'.worker # w
    BY <1>1, <1>4, <2>1
  <2> QED
    BY <1>1, <1>2, <1>3, <1>5, <2>2, StaysCommitted
<1> QED
  BY <1>1, <1>5 DEF CommitsInv

LEMMA NextCommits ==
  ASSUME IInv, CommitsInv, [Next]_vars
  PROVE  CommitsInv'
<1>1. CASE UNCHANGED <<json, deploy, row, nextWorker>>
  <2>1. BeingCreated' = BeingCreated
    BY <1>1 DEF BeingCreated, Creates
  <2> QED
    BY <1>1, <2>1 DEF CommitsInv
<1>2. CASE \E r \in Requests : Serve(r)
  BY <1>2, ServeCommits
<1>3. CASE \E r \in Requests : \E d \in Developers : StartDeploy(d, r)
  BY <1>3, StartCommits DEF IInv
<1>4. CASE DeleteRow
  BY <1>4, DeleteRowCommits
<1> QED
  BY <1>1, <1>2, <1>3, <1>4 DEF Next, DeleteFromSerenity, jayne, vars

LEMMA InitCommits == Init => CommitsInv
<1> SUFFICES ASSUME Init PROVE CommitsInv
  OBVIOUS
<1>1. /\ \A d \in Developers : json[d].worker = 0
      /\ \A r \in Requests : deploy[r].pc = "idle"
  BY DEF Init, NoJson, Idle
<1> QED
  BY <1>1 DEF CommitsInv

-----------------------------------------------------------------------------
(* The theorems.                                                           *)

\* The inductive invariant: what deployments, Jayne's row and Serenity know of
\* each other in every reachable state.
THEOREM Invariance == Spec => []IInv
<1>1. Init => IInv
  BY InitIInv
<1>2. IInv /\ [Next]_vars => IInv'
  BY NextIInv
<1> QED
  BY <1>1, <1>2, PTL DEF Spec

\* The variables keep their types, and only a request at work holds the row.
THEOREM TypeCorrect == Spec => []TypeOK
<1>1. IInv => TypeOK
  BY DEF IInv
<1> QED
  BY <1>1, Invariance, PTL

\* What "estate worker connect" is given is what Serenity runs, the latest
\* version or the one before it.
THEOREM ConnectIsLive == Spec => []ConnectInfoIsLive
<1>1. IInv => ConnectInfoIsLive
  BY DEF IInv, RowIsLive, ConnectInfoIsLive
<1> QED
  BY <1>1, Invariance, PTL

\* The row of a worker goes from version to version, though an update does not
\* look at the version again when it writes.
THEOREM SerialDeploys == Spec => DeploysAreSerial
<1>1. ASSUME IInv, [Next]_vars, row'.worker = row.worker, row' # row
      PROVE  row'.version = row.version + 1
  <2>1. ASSUME NEW r \in Requests, Commit(r)
        PROVE  row'.version = row.version + 1
    <3>1. row'.worker = deploy[r].worker /\ row'.version = deploy[r].version + 1 /\ IsLive(r)
      BY <1>1, <2>1, CommitEffect
    <3>2. deploy[r].version # 0
      BY <1>1, <2>1, <3>1, CommitEffect
    <3> QED
      BY <3>1, <3>2 DEF IsLive
  <2>2. ASSUME DeleteRow
        PROVE  FALSE
    <3>1. row' = NoRow
      BY <1>1, <2>2 DEF DeleteRow
    <3>2. row.worker = 0
      BY <1>1, <3>1 DEF NoRow
    <3> QED
      BY <1>1, <3>1, <3>2 DEF IInv, IdentityInv
  <2>3. ASSUME NEW r \in Requests, Serve(r), ~ Commit(r)
        PROVE  FALSE
    <3>1. row' = row
      BY <2>3 DEF Serve, Select, Insert, Save, Setup, Fail, UndoSetup, Receive, Lose, jayne
    <3> QED
      BY <1>1, <3>1
  <2>4. ASSUME NEW r \in Requests, NEW d \in Developers, StartDeploy(d, r)
        PROVE  FALSE
    <3>1. row' = row
      BY <2>4 DEF StartDeploy, jayne
    <3> QED
      BY <1>1, <3>1
  <2>5. ASSUME DeleteFromSerenity
        PROVE  FALSE
    <3>1. row' = row
      BY <2>5 DEF DeleteFromSerenity, jayne
    <3> QED
      BY <1>1, <3>1
  <2>6. CASE UNCHANGED vars
    BY <1>1, <2>6 DEF vars
  <2> QED
    BY <1>1, <2>1, <2>2, <2>3, <2>4, <2>5, <2>6 DEF Next
<1>2. IInv /\ [Next]_vars => [row'.worker = row.worker /\ row' # row => row'.version = row.version + 1]_vars
  BY <1>1
<1> QED
  BY <1>2, Invariance, PTL DEF Spec, DeploysAreSerial

\* The ids that a version of a worker was set up with were each given to one kind
\* of class, and the directories and the requests know those of their version.
THEOREM IdsOfVersions == Spec => []IdsInv
<1>1. Init => IdsInv
  BY InitIds
<1>2. IInv /\ IdsInv /\ [Next]_vars => IdsInv'
  BY NextIds
<1> QED
  BY <1>1, <1>2, Invariance, PTL DEF Spec

\* A class id never comes to stand for another class.
THEOREM IdsKeepTheirClass == Spec => []ClassIdsKeepTheirClass
<1>1. IdsInv => ClassIdsKeepTheirClass
  BY DEF IdsInv, GivenOnce, ClassIdsKeepTheirClass
<1> QED
  BY <1>1, IdsOfVersions, PTL

\* What directories and answers are of was committed, to a row that has since
\* gone to later versions only.
THEOREM CommittedVersions == Spec => []CommitsInv
<1>1. Init => CommitsInv
  BY InitCommits
<1>2. IInv /\ CommitsInv /\ [Next]_vars => CommitsInv'
  BY NextCommits
<1> QED
  BY <1>1, <1>2, Invariance, PTL DEF Spec

\* The worker.json of every developer is that of a version that was committed;
\* of the current version it has the classes and ids of the index.
THEOREM JsonIsTrue == Spec => []WorkerJsonIsTrue
<1>1. ASSUME CommitsInv, IdsInv
      PROVE  WorkerJsonIsTrue
  <2> SUFFICES ASSUME NEW d \in Developers, json[d].worker = row.worker, row.worker # 0
               PROVE  /\ json[d].version <= row.version
                      /\ json[d].version = row.version =>
                           json[d].known = row.index /\ \A i \in Ids(row.index) : i <= json[d].last
    BY DEF WorkerJsonIsTrue
  <2>1. /\ json[d].version <= row.version
        /\ json[d].version = row.version => json[d].known = row.index
    BY <1>1 DEF CommitsInv, IsCommitted
  <2>2. \A i \in Ids(json[d].known) : i <= json[d].last
    BY <1>1 DEF IdsInv, JsonAgrees, IsTable, Ids
  <2> QED
    BY <2>1, <2>2
<1>2. IdsInv /\ CommitsInv => WorkerJsonIsTrue
  BY <1>1
<1> QED
  BY <1>2, IdsOfVersions, CommittedVersions, PTL

=============================================================================
