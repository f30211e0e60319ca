------------------------------ MODULE WorkerObject ------------------------------
(***************************************************************************)
(* One Data or Service object of a worker: its record in the datastore and *)
(* the object that the requests which touch it build over it (server.cpp,  *)
(* namespace data: SparceCell, CellState, ScriptValue, CurrentValue,       *)
(* SavedValue, Property, CurrentObjectState, PermanentObjectState,         *)
(* ObjectFactory, Object, apply_inbound_delta, create_deltas), driven by   *)
(* the script's operations (namespace engine) and by the CallServiceMethod *)
(* and SaveData handlers (handler/user.h).                                 *)
(*                                                                         *)
(* A property that is loaded keeps three copies of its value: saved, which *)
(* is what the transaction holds; current, which is what the next save     *)
(* will write; and script, the JavaScript value. saved and current share   *)
(* one buffer when they are equal: one of them is then a View of the       *)
(* other. A checksum stands for the value it is the checksum of.           *)
(*                                                                         *)
(* The requests come one after the other: two of them that touch the same  *)
(* object conflict when they commit (Fail). A failed RocksDB read or write *)
(* fails the request.                                                      *)
(***************************************************************************)
EXTENDS Naturals

CONSTANTS
  Names,       \* the properties of the object
  Values,      \* the values they may have
  MaxVersion,  \* bounds the versions of the object
  None,        \* no cell; as a script value, undefined
  View,        \* the cell is a view of the other one
  Unknown      \* the script value has not been loaded

ASSUME CellAssumption ==
  /\ None \notin Values /\ View \notin Values /\ Unknown \notin Values
  /\ None # View /\ None # Unknown /\ View # Unknown
ASSUME VersionAssumption == MaxVersion \in Nat

VARIABLES
  type,     \* the object is a "data" or a "service" object
  disk,     \* the object's keys as committed
  txn,      \* the same as the request's transaction sees them
  request,  \* the request at work: "none", "call", "save" or "respond"
  object,   \* the Object in the request's working set
  delta,    \* the last delta created for the object in this request
  answer    \* to the last request: "none" while it is handled, "ok", "error"

vars == <<type, disk, txn, request, object, delta, answer>>

Cells == Values \cup {None}

Properties ==
  [saved : Cells \cup {View}, current : Cells \cup {View}, script : Cells \cup {Unknown}]

\* The object instance (version 0: there is none; deleted: its tombstone), the
\* object properties index, and the cells.
Records ==
  [version : 0..MaxVersion, deleted : BOOLEAN, index : SUBSET Names, cells : [Names -> Cells]]

NoRecord == [version |-> 0, deleted |-> FALSE, index |-> {}, cells |-> [n \in Names |-> None]]

-----------------------------------------------------------------------------
(* Property.                                                               *)

SavedCell(p) == IF p.saved = View THEN p.current ELSE p.saved
CurrentCell(p) == IF p.current = View THEN p.saved ELSE p.current

\* What the script reads.
ScriptCell(p) == IF p.script = Unknown THEN CurrentCell(p) ELSE p.script

LoadedProperty(c) ==
  [saved |-> c, current |-> IF c = None THEN None ELSE View, script |-> Unknown]

MutantSetCurrent(p, c) == [p EXCEPT !.current = c]

\* The saved cell is moved out of the current one before that is overwritten.
SetCurrent(p, c) == [saved |-> SavedCell(p), current |-> c, script |-> p.script]

MutantFlushed(p) ==
  IF p.script \in {Unknown, SavedCell(p)} THEN p ELSE SetCurrent(p, p.script)

Flushed(p) ==
  IF p.script \in {Unknown, CurrentCell(p)} THEN p ELSE SetCurrent(p, p.script)

IsChanged(p) == CurrentCell(p) # SavedCell(p)

MutantSavedProperty(p) ==
  IF IsChanged(p) /\ p.current # None THEN [p EXCEPT !.saved = View] ELSE p

SavedProperty(p) ==
  IF IsChanged(p) THEN [p EXCEPT !.saved = IF p.current = None THEN None ELSE View] ELSE p

RevertedProperty(p) ==
  [saved |-> p.saved,
   current |-> IF p.saved = None THEN None ELSE IF p.saved = View THEN p.current ELSE View,
   script |-> Unknown]

-----------------------------------------------------------------------------
(* Object. permanent is what has been saved: _permanent's property names;  *)
(* buried says that it is deleted there.                                   *)

NoObject ==
  [loaded |-> FALSE, version |-> 0, original |-> 0,
   option |-> "keep", buried |-> FALSE,
   permanent |-> {}, names |-> {}, changed |-> {},
   cached |-> {}, props |-> [n \in Names |-> LoadedProperty(None)]]

Objects ==
  [loaded : BOOLEAN, version : 0..MaxVersion, original : 0..MaxVersion,
   option : {"keep", "delete", "purge"}, buried : BOOLEAN,
   permanent : SUBSET Names, names : SUBSET Names, changed : SUBSET Names,
   cached : SUBSET Names, props : [Names -> Properties]]

NewObject == [NoObject EXCEPT !.loaded = TRUE]

MutantLoadedObject(t) == [NewObject EXCEPT !.permanent = t.index, !.names = t.index]

LoadedObject(t) ==
  [NewObject EXCEPT !.version = t.version, !.original = t.version,
                    !.permanent = t.index, !.names = t.index]

\* get_property: only a property that was not in the cache adds its name.
Touched(o, n) ==
  IF n \in o.cached THEN o
  ELSE [o EXCEPT !.names = @ \cup {n}, !.cached = @ \cup {n},
                 !.props[n] = LoadedProperty(txn.cells[n])]

FlushedObject(o) == [o EXCEPT !.props = [n \in Names |-> Flushed(o.props[n])]]

\* Those of the cache; the others are blank.
ChangedNames(o) == {n \in Names : IsChanged(o.props[n])}

MutantAllChanged(o) == ChangedNames(o)

\* All that changed since the request began: what earlier saves changed stays.
AllChanged(o) == o.changed \cup ChangedNames(o)

\* PermanentObjectState::apply: whether it writes, and what it leaves behind.
MustSave(o) ==
  IF o.option = "keep"
    THEN ChangedNames(o) # {} \/ o.names # o.permanent
    ELSE ~o.buried \/ o.option = "purge"

SavedObject(o) ==
  IF ~MustSave(o) THEN o
  ELSE IF o.option = "keep"
    THEN [o EXCEPT !.props = [n \in Names |-> SavedProperty(o.props[n])],
                   !.changed = AllChanged(o),
                   !.permanent = o.names,
                   !.version = @ + 1]
    ELSE [o EXCEPT !.buried = TRUE, !.version = @ + 1]

SavedRecord(o, t) ==
  IF ~MustSave(o) THEN t
  ELSE IF o.option = "keep"
    THEN [version |-> o.version + 1, deleted |-> FALSE,
          index |-> IF o.names = o.permanent THEN t.index ELSE o.names,
          cells |-> [n \in Names |-> IF IsChanged(o.props[n]) THEN CurrentCell(o.props[n])
                                                              ELSE t.cells[n]]]
    ELSE [version |-> IF o.option = "purge" THEN 0 ELSE o.version + 1,
          deleted |-> o.option = "delete",
          index |-> {},
          cells |-> [n \in Names |-> IF n \in o.names THEN None ELSE t.cells[n]]]

RevertedObject(o) ==
  [o EXCEPT !.option = IF o.buried THEN "delete" ELSE "keep",
            !.names = o.permanent,
            !.props = [n \in Names |-> RevertedProperty(o.props[n])]]

-----------------------------------------------------------------------------
(* Deltas: what the response tells clients of the object's changes.        *)

Deltas ==
  [version : 0..MaxVersion, deleted : BOOLEAN, changed : SUBSET Names, cells : [Names -> Cells]]

NoDelta == [version |-> 0, deleted |-> FALSE, changed |-> {}, cells |-> [n \in Names |-> None]]

\* The record's cells after a client has applied the delta to its own.
Applied(d, cells) == [n \in Names |-> IF n \in d.changed THEN d.cells[n] ELSE cells[n]]

NeedsDelta(o, d) == o.version # o.original /\ d.version < o.version

\* create_deltas; d is the object's last delta, whose version is _delta_version.
DeltaOf(o, d) ==
  IF ~NeedsDelta(o, d) \/ (~o.buried /\ o.changed = {}) THEN d
  ELSE [version |-> o.version,
        deleted |-> o.buried,
        changed |-> IF o.buried THEN {} ELSE o.changed,
        cells |-> [n \in Names |-> IF o.buried \/ n \notin o.changed THEN None
                                                                     ELSE SavedCell(o.props[n])]]

-----------------------------------------------------------------------------
Init ==
  /\ type \in {"data", "service"}
  /\ disk = NoRecord /\ txn = NoRecord
  /\ request = "none" /\ answer = "none"
  /\ object = NoObject /\ delta = NoDelta

\* A request begins; only CallServiceMethod touches services.
Begin(r) ==
  /\ request = "none"
  /\ r = "save" => type = "data"
  /\ request' = r
  /\ answer' = "none"
  /\ UNCHANGED <<type, disk, txn, object, delta>>

\* Ends the request with d as the object's record.
End(d, a) ==
  /\ disk' = d /\ txn' = d
  /\ request' = "none" /\ answer' = a
  /\ object' = NoObject /\ delta' = NoDelta
  /\ UNCHANGED type

\* An error at any point, of the request, of the script or of the datastore, a
\* conflict with another transaction or the end of the process: the
\* transaction is dropped.
Fail ==
  /\ request # "none"
  /\ End(disk, "error")

MutantCanLoad == ~object.loaded /\ txn.version > 0

CanLoad == ~object.loaded /\ txn.version > 0 /\ ~txn.deleted
CanCreate == ~object.loaded /\ txn.version = 0

\* The client's changes to a Data object, which the request carries: the
\* properties in updates get the values of cells, those in deletes go. Its
\* version is the object's, or 0 for a new one; any other version is an error.
\* A request has one delta of an object at the most, applied before any script.
ReceivedObject(updates, deletes, cells) ==
  LET o == IF txn.version = 0 THEN NewObject ELSE LoadedObject(txn)
      p(n) == LoadedProperty(txn.cells[n])
  IN [o EXCEPT !.names = (@ \cup updates) \ deletes,
               !.cached = updates \cup deletes,
               !.props = [n \in Names |->
                 IF n \in deletes THEN [SetCurrent(p(n), None) EXCEPT !.script = None]
                 ELSE IF n \in updates /\ txn.cells[n] # cells[n] THEN SetCurrent(p(n), cells[n])
                 ELSE IF n \in updates THEN p(n)
                 ELSE o.props[n]]]

InboundDelta(updates, deletes, cells) ==
  LET o == ReceivedObject(updates, deletes, cells)
      any_changes == txn.version = 0 \/ ChangedNames(o) # {}
      saves == request = "save" /\ any_changes
  IN /\ type = "data"
     /\ request \in {"call", "save"}
     /\ CanLoad \/ CanCreate
     /\ saves => o.version < MaxVersion
     /\ object' = IF saves THEN SavedObject(o) ELSE o
     /\ txn' = IF saves THEN SavedRecord(o, txn) ELSE txn
     /\ delta' = IF saves THEN DeltaOf(SavedObject(o), delta) ELSE delta
     /\ request' = IF request = "save" THEN "respond" ELSE request
     /\ UNCHANGED <<type, disk, answer>>

-----------------------------------------------------------------------------
(* The script's operations on the object.                                  *)

Load ==
  /\ request = "call" /\ CanLoad
  /\ object' = LoadedObject(txn)
  /\ UNCHANGED <<type, disk, txn, request, delta, answer>>

Create ==
  /\ request = "call" /\ CanCreate
  /\ object' = NewObject
  /\ UNCHANGED <<type, disk, txn, request, delta, answer>>

InScript == request = "call" /\ object.loaded

\* The script value is loaded from the current one the first time.
Read(n) ==
  /\ InScript
  /\ LET o == Touched(object, n)
     IN object' = [o EXCEPT !.props[n].script = ScriptCell(o.props[n])]
  /\ UNCHANGED <<type, disk, txn, request, delta, answer>>

\* Assigning undefined (None) erases the script value.
Write(n, c) ==
  /\ InScript
  /\ object' = [Touched(object, n) EXCEPT !.props[n].script = c]
  /\ UNCHANGED <<type, disk, txn, request, delta, answer>>

\* The delete operator of JavaScript.
DeleteProperty(n) ==
  /\ InScript
  /\ object' = [Touched(object, n) EXCEPT !.props[n].script = None, !.names = @ \ {n}]
  /\ UNCHANGED <<type, disk, txn, request, delta, answer>>

Revert ==
  /\ InScript
  /\ object' = RevertedObject(object)
  /\ UNCHANGED <<type, disk, txn, request, delta, answer>>

\* save_objects, for one object: it is flushed and saved, and there is a delta
\* if either changed anything.
SaveObjects(before) ==
  LET o == FlushedObject(before)
      changed == o # before \/ MustSave(o)
  IN /\ MustSave(o) => o.version < MaxVersion
     /\ object' = SavedObject(o)
     /\ txn' = SavedRecord(o, txn)
     /\ delta' = IF changed THEN DeltaOf(SavedObject(o), delta) ELSE delta
     /\ UNCHANGED <<type, disk, request, answer>>

\* saveData and saveDataGraphs.
SaveData ==
  /\ InScript /\ type = "data"
  /\ SaveObjects(object)

\* A Data object is deleted at once, a Service when the call ends.
Delete(option) ==
  /\ InScript
  /\ LET o == [object EXCEPT !.option = option]
     IN IF type = "data" /\ o # object
          THEN SaveObjects(o)
          ELSE /\ object' = o
               /\ UNCHANGED <<type, disk, txn, request, delta, answer>>

\* sendMessage checks that the Data objects its message refers to have been
\* saved, by flushing and saving them: what it finds to flush it leaves to be
\* saved, what it finds to save it saves. It throws if there was any; the
\* script may catch that.
SendMessage ==
  /\ InScript /\ type = "data"
  /\ LET o == FlushedObject(object)
         saves == o = object /\ MustSave(o)
     IN /\ saves => o.version < MaxVersion
        /\ object' = IF saves THEN SavedObject(o) ELSE o
        /\ txn' = IF saves THEN SavedRecord(o, txn) ELSE txn
  /\ UNCHANGED <<type, disk, request, delta, answer>>

-----------------------------------------------------------------------------
\* The service's method has returned: services are saved.
EndCall ==
  /\ request = "call"
  /\ request' = "respond"
  /\ IF type = "service" /\ object.loaded
       THEN LET o == FlushedObject(object)
            IN /\ MustSave(o) => o.version < MaxVersion
               /\ object' = SavedObject(o)
               /\ txn' = SavedRecord(o, txn)
       ELSE UNCHANGED <<object, txn>>
  /\ UNCHANGED <<type, disk, delta, answer>>

\* A Data object with changes that have not been flushed, unless it is deleted.
HasUnsaved ==
  /\ type = "data" /\ object.loaded /\ ~object.buried
  /\ FlushedObject(object) # object

\* There is something to commit if the object has a delta, if it is a service
\* that was saved, or if that holds for another object of the request.
Respond(others) ==
  /\ request = "respond"
  /\ IF HasUnsaved THEN End(disk, "error")
     ELSE IF others \/ delta.version > 0 \/ (type = "service" /\ object.version # object.original)
       THEN End(txn, "ok")
       ELSE End(disk, "ok")

Script ==
  \/ Load \/ Create \/ Revert \/ SaveData \/ SendMessage
  \/ \E n \in Names : Read(n) \/ DeleteProperty(n)
  \/ \E n \in Names, c \in Cells : Write(n, c)
  \/ \E option \in {"delete", "purge"} : Delete(option)

Next ==
  \/ \E r \in {"call", "save"} : Begin(r)
  \/ \E updates \in SUBSET Names : \E deletes \in SUBSET (Names \ updates) :
       \E cells \in [updates -> Values] : InboundDelta(updates, deletes, cells)
  \/ Script
  \/ EndCall
  \/ \E others \in BOOLEAN : Respond(others)
  \/ Fail

Spec == Init /\ [][Next]_vars

-----------------------------------------------------------------------------
(* Properties.                                                             *)

\* Every variable has its type (the fields of the C++ classes).
TypeOK ==
  /\ type \in {"data", "service"}
  /\ disk \in Records /\ txn \in Records
  /\ request \in {"none", "call", "save", "respond"}
  /\ object \in Objects
  /\ delta \in Deltas
  /\ answer \in {"none", "ok", "error"}

\* A view always has a cell to look at: the assertions of set_current and
\* erase_current hold ("should exist since saved is a view to it", server.cpp
\* 296-297 and 308-309), however saves, reverts, changes and deltas alternate.
NoDanglingView ==
  \A n \in object.cached :
    /\ object.props[n].saved = View => object.props[n].current \in Values
    /\ object.props[n].current = View => object.props[n].saved \in Values

\* The saved copies of a Data or Service object that is not deleted are what
\* the transaction holds, so that what a revert brings back, and what a delta
\* says of a property (create_deltas reads the saved cells), is what a commit
\* will write.
SavedIsPending ==
  ~object.buried =>
    \A n \in object.cached : SavedCell(object.props[n]) = txn.cells[n]

\* The marker of a deletion "prevents deleted services and objects from being
\* re-created" (runtime-index.d.ts): no request, of a script or of a client,
\* changes anything of an object whose tombstone was committed.
TombstoneIsFinal == [][disk.deleted => disk' = disk]_vars

\* What has been committed of the object changes only under a greater version,
\* by which clients and the requests of clients recognise it, unless it is
\* purged; then it has none.
ChangesHaveVersions ==
  [][disk' # disk => disk'.version > disk.version \/ disk'.version = 0]_vars

Life(t) == IF t.deleted THEN "deleted" ELSE IF t.version = 0 THEN "absent" ELSE "live"

\* A client that had the committed cells and applies the delta of the committed
\* version has the newly committed cells: the delta leaves out no change of the
\* request, however many saves it took, and tells none that was not committed.
\* A delta that says the object is deleted is never followed by another state
\* of it in the same commit.
DeltaTellsCommit ==
  [][disk' # disk /\ delta.version > 0 =>
       IF delta.deleted THEN Life(disk') # "live"
       ELSE delta.version = disk'.version => disk'.cells = Applied(delta, disk.cells)]_vars

\* The object that the script sees, saves and reverts behaves as one committed,
\* one stored and one seen value of each property (ObjectValues).
Record(t) == [life |-> Life(t), cells |-> t.cells]

\* Of a deleted object the script sees copies which are never saved.
Seen ==
  [n \in Names |-> IF n \in object.cached /\ ~object.buried
                     THEN ScriptCell(object.props[n]) ELSE txn.cells[n]]

Abstract == INSTANCE ObjectValues
  WITH committed <- Record(disk), stored <- Record(txn), seen <- Seen

Refinement == Abstract!Spec

=============================================================================
