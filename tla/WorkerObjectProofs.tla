--------------------------- MODULE WorkerObjectProofs ---------------------------
(***************************************************************************)
(* The properties of WorkerObject for any properties, values and bound.    *)
(*                                                                         *)
(* The first lemmas are about one property: flushing it makes its current  *)
(* cell the script's and leaves its saved cell, saving makes its saved     *)
(* cell the current one, reverting makes the script's the saved one. The   *)
(* next ones lift them to the object, over the record that the transaction *)
(* holds (Mirrors), since the record on disk (Follows) and with the delta  *)
(* that has been created (Tells). Each action is then one or two of those. *)
(***************************************************************************)
EXTENDS WorkerObject, TLAPS

\* A view has a cell to look at.
Sound(p) ==
  /\ p.saved = View => p.current \in Values
  /\ p.current = View => p.saved \in Values

Blank == LoadedProperty(None)

\* A loaded property holds the cell in all of its copies.
LEMMA LoadedFacts ==
  ASSUME NEW c \in Cells
  PROVE  LET p == LoadedProperty(c)
         IN /\ p \in Properties /\ Sound(p)
            /\ SavedCell(p) = c /\ CurrentCell(p) = c /\ ScriptCell(p) = c
BY CellAssumption DEF LoadedProperty, Properties, Sound, SavedCell, CurrentCell, ScriptCell, Cells

\* The copies of a property are cells.
LEMMA CellFacts ==
  ASSUME NEW p \in Properties, Sound(p)
  PROVE  SavedCell(p) \in Cells /\ CurrentCell(p) \in Cells /\ ScriptCell(p) \in Cells
BY CellAssumption DEF Properties, Sound, SavedCell, CurrentCell, ScriptCell, Cells

\* set_current and erase_current change the current cell only.
LEMMA SetCurrentFacts ==
  ASSUME NEW p \in Properties, Sound(p), NEW c \in Cells
  PROVE  LET q == SetCurrent(p, c)
         IN /\ q \in Properties /\ Sound(q)
            /\ SavedCell(q) = SavedCell(p) /\ CurrentCell(q) = c /\ q.script = p.script
<1> SavedCell(p) \in Cells
  BY CellFacts
<1> QED
  BY CellAssumption DEF SetCurrent, Properties, Sound, SavedCell, CurrentCell, Cells

\* flush makes the current cell the script's and leaves the saved one.
LEMMA FlushedFacts ==
  ASSUME NEW p \in Properties, Sound(p)
  PROVE  LET q == Flushed(p)
         IN /\ q \in Properties /\ Sound(q)
            /\ SavedCell(q) = SavedCell(p)
            /\ CurrentCell(q) = ScriptCell(p)
            /\ ScriptCell(q) = ScriptCell(p)
            /\ q.script = p.script
<1>1. CASE p.script \in {Unknown, CurrentCell(p)}
  BY <1>1, CellAssumption DEF Flushed, ScriptCell
<1>2. CASE p.script \notin {Unknown, CurrentCell(p)}
  <2> p.script \in Cells
    BY <1>2 DEF Properties
  <2> QED
    BY <1>2, SetCurrentFacts DEF Flushed, ScriptCell
<1> QED
  BY <1>1, <1>2

\* save makes the saved cell the current one and leaves what the script sees.
LEMMA SavedFacts ==
  ASSUME NEW p \in Properties, Sound(p)
  PROVE  LET q == SavedProperty(p)
         IN /\ q \in Properties /\ Sound(q)
            /\ SavedCell(q) = CurrentCell(p)
            /\ CurrentCell(q) = CurrentCell(p)
            /\ ScriptCell(q) = ScriptCell(p)
<1>1. CASE ~IsChanged(p)
  BY <1>1 DEF SavedProperty, IsChanged
<1>2. CASE IsChanged(p)
  <2> DEFINE s == IF p.current = None THEN None ELSE View
  <2> SavedProperty(p) = [saved |-> s, current |-> p.current, script |-> p.script]
    BY <1>2 DEF SavedProperty, Properties
  <2> p.current # View
    BY <1>2, CellAssumption DEF IsChanged, Sound, SavedCell, CurrentCell
  <2> QED
    BY CellAssumption DEF Properties, Sound, SavedCell, CurrentCell, ScriptCell, Cells
<1> QED
  BY <1>1, <1>2

\* revert makes the script see the saved cell.
LEMMA RevertedFacts ==
  ASSUME NEW p \in Properties, Sound(p)
  PROVE  LET q == RevertedProperty(p)
         IN /\ q \in Properties /\ Sound(q)
            /\ SavedCell(q) = SavedCell(p)
            /\ CurrentCell(q) = SavedCell(p)
            /\ ScriptCell(q) = SavedCell(p)
BY CellAssumption
DEF RevertedProperty, Properties, Sound, SavedCell, CurrentCell, ScriptCell, Cells

-----------------------------------------------------------------------------
(* The object.                                                             *)

\* Each loaded property is sound, the others are blank.
ObjectSound(o) ==
  \A n \in Names : Sound(o.props[n]) /\ (n \notin o.cached => o.props[n] = Blank)

\* t is what the object has saved; of a deleted object nothing is left but the
\* tombstone, if that.
Mirrors(o, t) ==
  IF o.buried THEN o.option # "keep" /\ (t.version = 0 \/ (t.deleted /\ t.version = o.version))
  ELSE /\ t.version = o.version /\ ~t.deleted /\ t.index = o.permanent
       /\ \A n \in o.cached : SavedCell(o.props[n]) = t.cells[n]

\* What distinguishes t from the record d that is on disk.
Follows(o, t, d) ==
  /\ ~d.deleted
  /\ o.original = d.version /\ o.original <= o.version
  /\ o.version = o.original => t = d /\ ~o.buried
  /\ o.changed \subseteq o.cached
  /\ ~o.buried => \A n \in Names : t.cells[n] # d.cells[n] => n \in o.changed

\* What the delta e says of it.
Tells(o, t, d, e) ==
  /\ e.version <= o.version
  /\ e.deleted => o.buried
  /\ (e.version = o.version /\ e.version > 0 /\ ~o.buried) => Applied(e, d.cells) = t.cells
  /\ type = "data" /\ o.buried => e.deleted
  /\ type = "service" => e = NoDelta

\* A loaded object at any time, also inside an operation.
Ready(o) ==
  /\ o \in Objects /\ o.loaded
  /\ ObjectSound(o) /\ Mirrors(o, txn) /\ Follows(o, txn, disk) /\ Tells(o, txn, disk, delta)

RecordSound(t) == t.version = 0 => ~t.deleted /\ t.index = {}

\* The invariant of the theorems.
Inv ==
  /\ TypeOK
  /\ RecordSound(disk) /\ RecordSound(txn)
  /\ request = "none" => ~object.loaded
  /\ ~object.loaded => object = NoObject /\ txn = disk /\ delta = NoDelta
  /\ object.loaded => Ready(object)
  /\ type = "data" /\ object.option # "keep" => object.buried

\* The handle and what has been saved are the same in both.
SameSaved(q, o) ==
  /\ q.loaded = o.loaded /\ q.version = o.version /\ q.original = o.original
  /\ q.buried = o.buried /\ q.permanent = o.permanent /\ q.changed = o.changed

\* An object that differs from a ready one in its names, its deletion if it is
\* not deleted already, and in properties whose saved cells are the
\* transaction's, is ready too.
LEMMA ReadyAgain ==
  ASSUME NEW o, Ready(o), NEW q \in Objects,
         SameSaved(q, o), o.cached \subseteq q.cached, ObjectSound(q),
         q.buried => q.option # "keep",
         ~q.buried => \A n \in q.cached : SavedCell(q.props[n]) = txn.cells[n]
  PROVE  Ready(q)
<1>1. Mirrors(q, txn)
  BY DEF Ready, Mirrors, SameSaved
<1>2. Follows(q, txn, disk)
  BY DEF Ready, Follows, SameSaved
<1>3. Tells(q, txn, disk, delta)
  BY DEF Ready, Tells, SameSaved
<1> QED
  BY <1>1, <1>2, <1>3 DEF Ready, SameSaved

\* get_property puts the property in the cache with the transaction's cell.
LEMMA TouchedFacts ==
  ASSUME NEW o, Ready(o), txn \in Records, NEW n \in Names
  PROVE  /\ Ready(Touched(o, n)) /\ n \in Touched(o, n).cached
         /\ Touched(o, n).option = o.option
<1>1. CASE n \in o.cached
  BY <1>1 DEF Touched
<1>2. CASE n \notin o.cached
  <2> DEFINE q == Touched(o, n)
             p == LoadedProperty(txn.cells[n])
  <2> o \in Objects
    BY DEF Ready
  <2>1. txn.cells[n] \in Cells
    BY DEF Records
  <2>2. /\ p \in Properties /\ Sound(p)
        /\ SavedCell(p) = txn.cells[n]
    BY <2>1, LoadedFacts
  <2>3. /\ q.props = [o.props EXCEPT ![n] = p]
        /\ q.cached = o.cached \cup {n} /\ q.names = o.names \cup {n}
        /\ q.option = o.option
        /\ SameSaved(q, o)
    BY <1>2 DEF Touched, SameSaved, Objects
  <2>4. q.props \in [Names -> Properties]
    BY <2>2, <2>3 DEF Objects
  <2>5. q \in Objects
    BY <1>2, <2>2, <2>4 DEF Touched, Objects
  <2>6. ObjectSound(q)
    BY <2>2, <2>3 DEF ObjectSound, Objects, Ready
  <2>7. ~q.buried => \A m \in q.cached : SavedCell(q.props[m]) = txn.cells[m]
    <3> SUFFICES ASSUME ~q.buried, NEW m \in q.cached
                 PROVE  SavedCell(q.props[m]) = txn.cells[m]
      OBVIOUS
    <3> ~o.buried /\ m \in Names
      BY <2>3 DEF SameSaved, Objects
    <3> QED
      BY <2>2, <2>3 DEF Ready, Mirrors, Objects
  <2>8. q.buried => q.option # "keep"
    BY <2>3 DEF Ready, Mirrors, SameSaved
  <2> HIDE DEF q
  <2> QED
    BY <2>3, <2>5, <2>6, <2>7, <2>8, ReadyAgain DEF q
<1> QED
  BY <1>1, <1>2

\* The script value of a loaded property may be any.
LEMMA ScriptedFacts ==
  ASSUME NEW o, Ready(o), NEW n \in o.cached, NEW c \in Cells, NEW q \in Objects,
         SameSaved(q, o), q.cached = o.cached, q.option = o.option,
         q.props = [o.props EXCEPT ![n].script = c]
  PROVE  Ready(q)
<1> /\ o \in Objects /\ n \in Names
    /\ o.props \in [Names -> Properties]
  BY DEF Ready, Objects
<1> DEFINE p == o.props[n]
<1>1. /\ q.props[n].saved = p.saved /\ q.props[n].current = p.current
      /\ \A m \in Names : m # n => q.props[m] = o.props[m]
  BY DEF Properties
<1>2. SavedCell(q.props[n]) = SavedCell(p) /\ (Sound(p) => Sound(q.props[n]))
  BY <1>1 DEF SavedCell, Sound
<1>3. ObjectSound(q)
  BY <1>1, <1>2 DEF ObjectSound, Ready
<1>4. ~q.buried => \A m \in q.cached : SavedCell(q.props[m]) = txn.cells[m]
  <2> SUFFICES ASSUME ~q.buried, NEW m \in q.cached
               PROVE  SavedCell(q.props[m]) = txn.cells[m]
    OBVIOUS
  <2> m \in Names /\ ~o.buried
    BY DEF Objects, SameSaved
  <2> SavedCell(o.props[m]) = txn.cells[m]
    BY DEF Ready, Mirrors
  <2> QED
    BY <1>1, <1>2
<1>5. q.buried => q.option # "keep"
  BY DEF Ready, Mirrors, SameSaved
<1> QED
  BY <1>3, <1>4, <1>5, ReadyAgain

\* What the script sees of o in the transaction that holds t.
SeenOf(o, t) ==
  [n \in Names |-> IF n \in o.cached /\ ~o.buried THEN ScriptCell(o.props[n]) ELSE t.cells[n]]

IsFlushed(o) == \A n \in Names : ScriptCell(o.props[n]) = CurrentCell(o.props[n])

\* Flushing changes nothing but current cells, to what the script sees.
LEMMA FlushedObjectFacts ==
  ASSUME NEW o, Ready(o)
  PROVE  LET q == FlushedObject(o)
         IN /\ Ready(q) /\ IsFlushed(q)
            /\ q.option = o.option /\ SameSaved(q, o)
            /\ SeenOf(q, txn) = SeenOf(o, txn)
<1> DEFINE q == FlushedObject(o)
<1> o \in Objects /\ o.props \in [Names -> Properties]
  BY DEF Ready, Objects
<1>1. /\ q.props = [n \in Names |-> Flushed(o.props[n])]
      /\ q.cached = o.cached /\ q.names = o.names /\ q.option = o.option
      /\ SameSaved(q, o)
  BY DEF FlushedObject, SameSaved, Objects
<1>2. \A n \in Names : /\ o.props[n] \in Properties /\ Sound(o.props[n])
                       /\ n \notin o.cached => o.props[n] = Blank
  BY DEF Ready, ObjectSound
<1>3. \A n \in Names : LET p == o.props[n]
                       IN /\ q.props[n] \in Properties /\ Sound(q.props[n])
                          /\ SavedCell(q.props[n]) = SavedCell(p)
                          /\ CurrentCell(q.props[n]) = ScriptCell(p)
                          /\ ScriptCell(q.props[n]) = ScriptCell(p)
  <2> TAKE n \in Names
  <2> q.props[n] = Flushed(o.props[n])
    BY <1>1
  <2> HIDE DEF q
  <2> QED
    BY <1>2, FlushedFacts
<1>4. q \in Objects
  <2> q.props \in [Names -> Properties]
    BY <1>1, <1>3
  <2> QED
    BY <1>1 DEF FlushedObject, Objects
<1>5. Flushed(Blank) = Blank
  BY DEF Flushed, Blank, LoadedProperty
<1>6. ObjectSound(q)
  BY <1>1, <1>2, <1>3, <1>5 DEF ObjectSound
<1>7. ~q.buried => \A n \in q.cached : SavedCell(q.props[n]) = txn.cells[n]
  <2> SUFFICES ASSUME ~q.buried, NEW n \in q.cached
               PROVE  SavedCell(q.props[n]) = txn.cells[n]
    OBVIOUS
  <2> n \in Names /\ n \in o.cached /\ ~o.buried
    BY <1>1 DEF SameSaved, Objects
  <2> QED
    BY <1>3 DEF Ready, Mirrors
<1>8. q.buried => q.option # "keep"
  BY <1>1 DEF Ready, Mirrors, SameSaved
<1>9. Ready(q)
  <2> HIDE DEF q
  <2> QED
    BY <1>1, <1>4, <1>6, <1>7, <1>8, ReadyAgain
<1>10. SeenOf(q, txn) = SeenOf(o, txn)
  BY <1>1, <1>3 DEF SeenOf, SameSaved
<1> QED
  BY <1>1, <1>3, <1>9, <1>10 DEF IsFlushed

\* Reverting shows what the transaction holds.
LEMMA RevertedObjectFacts ==
  ASSUME NEW o, Ready(o), txn \in Records
  PROVE  LET q == RevertedObject(o)
         IN /\ Ready(q)
            /\ q.option # "keep" => q.buried
            /\ SeenOf(q, txn) = txn.cells
<1> DEFINE q == RevertedObject(o)
<1> o \in Objects /\ o.props \in [Names -> Properties]
  BY DEF Ready, Objects
<1>1. /\ q.props = [n \in Names |-> RevertedProperty(o.props[n])]
      /\ q.cached = o.cached /\ q.names = o.permanent
      /\ q.option = IF o.buried THEN "delete" ELSE "keep"
      /\ SameSaved(q, o)
  BY DEF RevertedObject, SameSaved, Objects
<1>2. \A n \in Names : /\ o.props[n] \in Properties /\ Sound(o.props[n])
                       /\ n \notin o.cached => o.props[n] = Blank
  BY DEF Ready, ObjectSound
<1>3. \A n \in Names : LET p == o.props[n]
                       IN /\ q.props[n] \in Properties /\ Sound(q.props[n])
                          /\ SavedCell(q.props[n]) = SavedCell(p)
                          /\ ScriptCell(q.props[n]) = SavedCell(p)
  BY <1>1, <1>2, RevertedFacts
<1>4. q \in Objects
  <2> q.props \in [Names -> Properties]
    BY <1>1, <1>3
  <2> QED
    BY <1>1 DEF RevertedObject, Objects
<1>5. RevertedProperty(Blank) = Blank
  BY CellAssumption DEF RevertedProperty, Blank, LoadedProperty
<1>6. ObjectSound(q)
  BY <1>1, <1>2, <1>3, <1>5 DEF ObjectSound
<1>7. ~q.buried => \A n \in q.cached : SavedCell(q.props[n]) = txn.cells[n]
  <2> SUFFICES ASSUME ~q.buried, NEW n \in q.cached
               PROVE  SavedCell(q.props[n]) = txn.cells[n]
    OBVIOUS
  <2> n \in Names /\ n \in o.cached /\ ~o.buried
    BY <1>1 DEF SameSaved, Objects
  <2> QED
    BY <1>3 DEF Ready, Mirrors
<1>8. Ready(q)
  <2> q.buried => q.option # "keep"
    BY <1>1 DEF SameSaved
  <2> HIDE DEF q
  <2> QED
    BY <1>1, <1>4, <1>6, <1>7, ReadyAgain
<1>9. SeenOf(q, txn) = txn.cells
  <2> txn.cells \in [Names -> Cells]
    BY DEF Records
  <2> \A n \in Names : n \in q.cached /\ ~q.buried => ScriptCell(q.props[n]) = txn.cells[n]
    BY <1>3, <1>7
  <2> HIDE DEF q
  <2> QED
    BY DEF SeenOf
<1> QED
  BY <1>1, <1>8, <1>9 DEF SameSaved

\* Only loaded properties differ from what is saved.
LEMMA ChangedAreCached ==
  ASSUME NEW o, Ready(o)
  PROVE  ChangedNames(o) \subseteq o.cached
BY DEF Ready, ObjectSound, ChangedNames, IsChanged, Blank, LoadedProperty, SavedCell, CurrentCell

\* An object o that is ready, but for the transaction that now holds t, and
\* for the delta.
Saved(o, t) ==
  /\ o \in Objects /\ o.loaded
  /\ ObjectSound(o) /\ Mirrors(o, t) /\ Follows(o, t, disk)
  /\ t \in Records /\ RecordSound(t)

\* Saving an object that is not deleted.
LEMMA KeptFacts ==
  ASSUME NEW o, Ready(o), txn \in Records, disk \in Records,
         o.option = "keep", MustSave(o), o.version < MaxVersion
  PROVE  LET q == SavedObject(o)
             t == SavedRecord(o, txn)
         IN /\ Saved(q, t)
            /\ ~q.buried /\ ~o.buried /\ q.version = o.version + 1
            /\ t.version = o.version + 1
            /\ q.option = "keep" /\ q.original = o.original
            /\ IsFlushed(o) => t.cells = SeenOf(o, txn) /\ SeenOf(q, t) = t.cells
<1> DEFINE q == SavedObject(o)
           t == SavedRecord(o, txn)
<1> o \in Objects /\ o.props \in [Names -> Properties] /\ o.version \in Nat /\ o.original \in Nat
  BY VersionAssumption DEF Ready, Objects
<1> ~o.buried
  BY DEF Ready, Mirrors
<1> o.version + 1 \in 0..MaxVersion
  BY VersionAssumption
<1> ChangedNames(o) \subseteq o.cached /\ ChangedNames(o) \subseteq Names
  BY ChangedAreCached DEF ChangedNames
<1>1. /\ q.props = [n \in Names |-> SavedProperty(o.props[n])]
      /\ q.cached = o.cached /\ q.names = o.names /\ q.option = o.option
      /\ q.loaded = o.loaded /\ q.original = o.original /\ q.buried = o.buried
      /\ q.version = o.version + 1
      /\ q.permanent = o.names /\ q.changed = o.changed \cup ChangedNames(o)
  BY DEF SavedObject, Objects, AllChanged
<1>2. /\ t.version = o.version + 1 /\ ~t.deleted
      /\ t.index = o.names
      /\ t.cells = [n \in Names |-> IF IsChanged(o.props[n]) THEN CurrentCell(o.props[n])
                                                             ELSE txn.cells[n]]
  BY DEF SavedRecord, Ready, Mirrors
<1>3. \A n \in Names : /\ o.props[n] \in Properties /\ Sound(o.props[n])
                       /\ n \notin o.cached => o.props[n] = Blank
  BY DEF Ready, ObjectSound
<1>4. \A n \in Names : LET p == o.props[n]
                       IN /\ q.props[n] \in Properties /\ Sound(q.props[n])
                          /\ SavedCell(q.props[n]) = CurrentCell(p)
                          /\ ScriptCell(q.props[n]) = ScriptCell(p)
                          /\ CurrentCell(p) \in Cells
  <2> TAKE n \in Names
  <2> q.props[n] = SavedProperty(o.props[n])
    BY <1>1
  <2> HIDE DEF q
  <2> QED
    BY <1>3, SavedFacts, CellFacts
<1>5. q \in Objects
  <2> q.props \in [Names -> Properties]
    BY <1>1, <1>4
  <2> q.changed \in SUBSET Names
    BY <1>1 DEF Objects
  <2> QED
    BY <1>1 DEF SavedObject, Objects
<1>6. t \in Records
  <2> t.cells \in [Names -> Cells]
    BY <1>2, <1>4 DEF Records
  <2> QED
    BY <1>2 DEF SavedRecord, Records, Objects
<1>7. SavedProperty(Blank) = Blank
  BY DEF SavedProperty, IsChanged, Blank, LoadedProperty, SavedCell, CurrentCell
<1>8. ObjectSound(q)
  BY <1>1, <1>3, <1>4, <1>7 DEF ObjectSound
<1>9. \A n \in o.cached : t.cells[n] = CurrentCell(o.props[n])
  <2> TAKE n \in o.cached
  <2> n \in Names /\ SavedCell(o.props[n]) = txn.cells[n]
    BY DEF Objects, Ready, Mirrors
  <2> QED
    BY <1>2 DEF IsChanged
<1>10. Mirrors(q, t)
  <2> HIDE DEF q, t
  <2> \A n \in q.cached : SavedCell(q.props[n]) = t.cells[n]
    <3> TAKE n \in q.cached
    <3> n \in Names /\ n \in o.cached
      BY <1>1 DEF Objects
    <3> QED
      BY <1>4, <1>9
  <2> QED
    BY <1>1, <1>2 DEF Mirrors
<1>11. Follows(q, t, disk)
  <2>1. \A n \in Names : t.cells[n] # disk.cells[n] => n \in q.changed
    <3> TAKE n \in Names
    <3> txn.cells[n] # disk.cells[n] => n \in o.changed
      BY DEF Ready, Follows
    <3> IsChanged(o.props[n]) => n \in ChangedNames(o)
      BY DEF ChangedNames
    <3> QED
      BY <1>1, <1>2
  <2> HIDE DEF q, t
  <2> QED
    BY <1>1, <2>1 DEF Follows, Ready
<1>12. ASSUME IsFlushed(o)
       PROVE  t.cells = SeenOf(o, txn) /\ SeenOf(q, t) = t.cells
  <2>1. \A n \in Names : n \in o.cached => t.cells[n] = ScriptCell(o.props[n])
    BY <1>9, <1>12 DEF IsFlushed
  <2>2. \A n \in Names : n \notin o.cached => t.cells[n] = txn.cells[n]
    BY <1>2 DEF ChangedNames
  <2>3. t.cells = SeenOf(o, txn)
    BY <1>2, <2>1, <2>2 DEF SeenOf
  <2>4. SeenOf(q, t) = t.cells
    <3> \A n \in Names : n \in q.cached => ScriptCell(q.props[n]) = t.cells[n]
      BY <1>1, <1>4, <2>1
    <3> t.cells \in [Names -> Cells]
      BY <1>6 DEF Records
    <3> HIDE DEF q, t
    <3> QED
      BY DEF SeenOf
  <2> QED
    BY <2>3, <2>4
<1> HIDE DEF q, t
<1> RecordSound(t)
  BY <1>2 DEF RecordSound
<1> Saved(q, t)
  BY <1>1, <1>5, <1>6, <1>8, <1>10, <1>11 DEF Saved, Ready
<1> QED
  BY <1>1, <1>2, <1>12 DEF q, t

\* Deleting an object, or purging it again.
LEMMA BuriedFacts ==
  ASSUME NEW o, Ready(o), txn \in Records, disk \in Records,
         o.option # "keep", MustSave(o), o.version < MaxVersion
  PROVE  LET q == SavedObject(o)
             t == SavedRecord(o, txn)
         IN /\ Saved(q, t)
            /\ q.buried /\ q.version = o.version + 1
            /\ q.option = o.option /\ q.original = o.original
            /\ Life(t) # "live"
            /\ \A n \in Names : t.cells[n] \in {txn.cells[n], None}
            /\ SeenOf(q, t) = t.cells
<1> DEFINE q == SavedObject(o)
           t == SavedRecord(o, txn)
<1> o \in Objects /\ o.version \in Nat /\ o.original \in Nat /\ o.version + 1 \in 0..MaxVersion
  BY VersionAssumption DEF Ready, Objects
<1>1. /\ q.props = o.props /\ q.cached = o.cached /\ q.names = o.names
      /\ q.option = o.option /\ q.loaded = o.loaded /\ q.original = o.original
      /\ q.buried /\ q.version = o.version + 1
      /\ q.permanent = o.permanent /\ q.changed = o.changed
  BY DEF SavedObject, Objects
<1>2. /\ t.version = IF o.option = "purge" THEN 0 ELSE o.version + 1
      /\ t.deleted <=> o.option = "delete"
      /\ t.index = {}
      /\ t.cells = [n \in Names |-> IF n \in o.names THEN None ELSE txn.cells[n]]
  BY DEF SavedRecord
<1>3. o.option \in {"delete", "purge"}
  BY DEF Objects
<1>4. q \in Objects
  BY DEF SavedObject, Objects
<1>5. t.cells \in [Names -> Cells]
  BY <1>2 DEF Records, Cells
<1>6. t \in Records
  BY <1>5, VersionAssumption DEF SavedRecord, Records
<1> HIDE DEF q, t
<1>7. ObjectSound(q)
  BY <1>1 DEF ObjectSound, Ready
<1>8. Mirrors(q, t)
  BY <1>1, <1>2, <1>3 DEF Mirrors
<1>9. Follows(q, t, disk)
  BY <1>1 DEF Follows, Ready
<1>10. RecordSound(t)
  BY <1>2, <1>3 DEF RecordSound
<1>11. Saved(q, t)
  BY <1>1, <1>4, <1>6, <1>7, <1>8, <1>9, <1>10 DEF Saved, Ready
<1>12. Life(t) # "live"
  BY <1>2, <1>3 DEF Life
<1>13. SeenOf(q, t) = t.cells
  BY <1>1, <1>5 DEF SeenOf
<1> QED
  BY <1>1, <1>2, <1>11, <1>12, <1>13 DEF q, t

\* A save that finds nothing to do.
LEMMA UnsavedFacts ==
  ASSUME NEW o, Ready(o), txn \in Records, RecordSound(txn), ~MustSave(o)
  PROVE  Saved(o, txn) /\ SavedObject(o) = o /\ SavedRecord(o, txn) = txn
BY DEF Ready, Saved, SavedObject, SavedRecord

\* Whatever a save does.
LEMMA SaveFacts ==
  ASSUME NEW o, Ready(o), txn \in Records, disk \in Records, RecordSound(txn),
         MustSave(o) => o.version < MaxVersion
  PROVE  LET q == SavedObject(o)
             t == SavedRecord(o, txn)
         IN /\ Saved(q, t)
            /\ q.option = o.option /\ q.original = o.original
            /\ o.option = "keep" => ~o.buried /\ ~q.buried
            /\ o.option # "keep" => q.buried
            /\ o.buried => q.buried
            /\ q.version = IF MustSave(o) THEN o.version + 1 ELSE o.version
            /\ ~MustSave(o) => q = o /\ t = txn
<1> o.option = "keep" => ~o.buried
  BY DEF Ready, Mirrors
<1>1. CASE ~MustSave(o)
  BY <1>1, UnsavedFacts DEF MustSave
<1>2. CASE MustSave(o) /\ o.option = "keep"
  BY <1>2, KeptFacts
<1>3. CASE MustSave(o) /\ o.option # "keep"
  BY <1>3, BuriedFacts
<1> QED
  BY <1>1, <1>2, <1>3

\* The delta that is created for a Data object tells what t holds.
LEMMA DeltaFacts ==
  ASSUME NEW q, NEW t, Saved(q, t), NEW e \in Deltas, disk \in Records, type = "data",
         e.version <= q.version, e.deleted => q.buried,
         (e.version = q.version /\ e.version > 0 /\ ~q.buried) => Applied(e, disk.cells) = t.cells,
         q.buried /\ e.version = q.version => e.deleted
  PROVE  DeltaOf(q, e) \in Deltas /\ Tells(q, t, disk, DeltaOf(q, e))
<1> DEFINE d == DeltaOf(q, e)
<1> /\ q \in Objects /\ t \in Records
    /\ q.version \in Nat /\ q.original \in Nat /\ e.version \in Nat
  BY VersionAssumption DEF Saved, Objects, Deltas
<1> q.buried => q.version # q.original
  BY DEF Saved, Follows
<1>1. CASE ~NeedsDelta(q, e) \/ (~q.buried /\ q.changed = {})
  <2> d = e
    BY <1>1 DEF DeltaOf
  <2> q.buried => e.version = q.version
    BY <1>1 DEF NeedsDelta
  <2> QED
    BY DEF Tells
<1>2. CASE NeedsDelta(q, e) /\ (q.buried \/ q.changed # {})
  <2>1. /\ d.version = q.version /\ d.deleted = q.buried
        /\ d.changed = IF q.buried THEN {} ELSE q.changed
        /\ d.cells = [n \in Names |-> IF q.buried \/ n \notin q.changed THEN None
                                                                     ELSE SavedCell(q.props[n])]
    BY <1>2 DEF DeltaOf
  <2>2. \A n \in Names : SavedCell(q.props[n]) \in Cells
    <3> TAKE n \in Names
    <3> q.props[n] \in Properties /\ Sound(q.props[n])
      BY DEF Saved, ObjectSound, Objects
    <3> QED
      BY CellFacts
  <2>3. d.cells \in [Names -> Cells]
    BY <2>1, <2>2 DEF Cells
  <2>4. d \in Deltas
    <3> q.version \in 0..MaxVersion /\ q.buried \in BOOLEAN /\ q.changed \in SUBSET Names
      BY DEF Objects
    <3> d.changed \in SUBSET Names
      BY <2>1
    <3> QED
      BY <1>2, <2>1, <2>3 DEF DeltaOf, Deltas
  <2>5. ASSUME ~q.buried
        PROVE  Applied(d, disk.cells) = t.cells
    <3>1. \A n \in Names : n \in q.changed => d.cells[n] = t.cells[n]
      <4> TAKE n \in Names
      <4> HAVE n \in q.changed
      <4> n \in q.cached
        BY DEF Saved, Follows
      <4> SavedCell(q.props[n]) = t.cells[n]
        BY <2>5 DEF Saved, Mirrors
      <4> QED
        BY <2>1, <2>5
    <3>2. \A n \in Names : n \notin q.changed => disk.cells[n] = t.cells[n]
      BY <2>5 DEF Saved, Follows
    <3>3. d.changed = q.changed
      BY <2>1, <2>5
    <3> t.cells \in [Names -> Cells]
      BY DEF Records
    <3> HIDE DEF d
    <3> QED
      BY <3>1, <3>2, <3>3 DEF Applied
  <2> HIDE DEF d
  <2>6. Tells(q, t, disk, d)
    BY <2>1, <2>5 DEF Tells
  <2> QED
    BY <2>4, <2>6 DEF d
<1> QED
  BY <1>1, <1>2

\* A save of a Data object with the delta that follows it.
LEMMA SaveTells ==
  ASSUME NEW o, Ready(o), txn \in Records, disk \in Records, RecordSound(txn),
         MustSave(o) => o.version < MaxVersion, delta \in Deltas, type = "data"
  PROVE  LET q == SavedObject(o)
             t == SavedRecord(o, txn)
         IN /\ DeltaOf(q, delta) \in Deltas
            /\ Tells(q, t, disk, DeltaOf(q, delta))
<1> DEFINE q == SavedObject(o)
           t == SavedRecord(o, txn)
<1>1. /\ Saved(q, t)
      /\ o.buried => q.buried
      /\ q.version = IF MustSave(o) THEN o.version + 1 ELSE o.version
      /\ ~MustSave(o) => q = o /\ t = txn
  BY SaveFacts
<1> o.version \in Nat /\ delta.version \in Nat
  BY VersionAssumption DEF Ready, Objects, Deltas
<1> HIDE DEF q, t
<1>2. /\ delta.version <= o.version
      /\ delta.deleted => o.buried
      /\ o.buried => delta.deleted
      /\ (delta.version = o.version /\ delta.version > 0 /\ ~o.buried)
           => Applied(delta, disk.cells) = txn.cells
  BY DEF Ready, Tells
<1>3. /\ delta.version <= q.version
      /\ delta.deleted => q.buried
      /\ (delta.version = q.version /\ delta.version > 0 /\ ~q.buried)
           => Applied(delta, disk.cells) = t.cells
      /\ q.buried /\ delta.version = q.version => delta.deleted
  BY <1>1, <1>2
<1> QED
  BY <1>1, <1>3, DeltaFacts DEF q, t

\* A save without a delta: of a service, or of a Data object that is not
\* deleted just now.
LEMMA SaveUntold ==
  ASSUME NEW o, Ready(o), txn \in Records, disk \in Records, RecordSound(txn),
         MustSave(o) => o.version < MaxVersion, delta \in Deltas,
         type = "service" \/ (type = "data" /\ (o.option = "keep" \/ o.buried))
  PROVE  Tells(SavedObject(o), SavedRecord(o, txn), disk, delta)
<1> DEFINE q == SavedObject(o)
           t == SavedRecord(o, txn)
<1>1. /\ o.option = "keep" => ~o.buried /\ ~q.buried
      /\ o.buried => q.buried
      /\ q.version = IF MustSave(o) THEN o.version + 1 ELSE o.version
      /\ ~MustSave(o) => q = o /\ t = txn
  BY SaveFacts
<1> o.version \in Nat /\ delta.version \in Nat
  BY VersionAssumption DEF Ready, Objects, Deltas
<1> HIDE DEF q, t
<1> Tells(o, txn, disk, delta)
  BY DEF Ready
<1> QED
  BY <1>1 DEF Tells, NoDelta, q, t

-----------------------------------------------------------------------------
(* The actions.                                                            *)

\* Every action of a request leaves its object as the operations above do.
LEMMA StepFacts ==
  ASSUME Inv, NEW q, NEW t, Saved(q, t), NEW d \in Deltas, Tells(q, t, disk, d),
         type = "data" /\ q.option # "keep" => q.buried,
         object' = q, txn' = t, delta' = d, UNCHANGED <<type, disk, answer>>,
         request' \in {"call", "save", "respond"}
  PROVE  Inv'
<1>1. TypeOK'
  BY DEF Inv, TypeOK, Saved
<1>2. Ready(object)'
  BY DEF Saved, Ready, Tells
<1> QED
  BY <1>1, <1>2 DEF Inv, Saved, RecordSound

\* Most of them leave the transaction and the delta alone.
LEMMA ReadyStep ==
  ASSUME Inv, NEW q, Ready(q),
         type = "data" /\ q.option # "keep" => q.buried,
         object' = q, UNCHANGED <<type, disk, txn, delta, answer>>,
         request' \in {"call", "save", "respond"}
  PROVE  Inv'
<1> Saved(q, txn) /\ Tells(q, txn, disk, delta)
  BY DEF Inv, TypeOK, Ready, Saved
<1> QED
  BY StepFacts DEF Inv, TypeOK

\* The object of no request.
LEMMA NoObjectFacts ==
  /\ NoObject \in Objects /\ ~NoObject.loaded
  /\ NoObject.option = "keep" /\ NoObject.cached = {}
<1>1. LoadedProperty(None) \in Properties
  BY LoadedFacts DEF Cells
<1> QED
  BY <1>1, VersionAssumption DEF NoObject, Objects

\* The end of a request keeps what it committed and nothing else.
LEMMA EndStep ==
  ASSUME Inv, NEW d \in {disk, txn}, NEW a \in {"ok", "error"}, End(d, a)
  PROVE  Inv'
<1>1. NoDelta \in Deltas
  BY VersionAssumption DEF NoDelta, Deltas, Cells
<1>2. TypeOK'
  BY <1>1, NoObjectFacts DEF Inv, TypeOK, End
<1> QED
  BY <1>2, NoObjectFacts DEF Inv, End, RecordSound

\* A new object is ready, and one loaded from its record.
LEMMA FreshFacts ==
  ASSUME Inv, CanLoad \/ CanCreate
  PROVE  LET o == IF txn.version = 0 THEN NewObject ELSE LoadedObject(txn)
         IN /\ Ready(o) /\ ~o.buried /\ o.option = "keep" /\ o.cached = {} /\ o.changed = {}
            /\ SeenOf(o, txn) = txn.cells
<1> DEFINE o == IF txn.version = 0 THEN NewObject ELSE LoadedObject(txn)
<1>1. /\ txn = disk /\ delta = NoDelta /\ txn \in Records /\ RecordSound(txn)
      /\ ~txn.deleted
  BY DEF Inv, TypeOK, CanLoad, CanCreate, RecordSound
<1>2. /\ o = [loaded |-> TRUE, version |-> txn.version, original |-> txn.version,
              option |-> "keep", buried |-> FALSE, permanent |-> txn.index,
              names |-> txn.index, changed |-> {}, cached |-> {},
              props |-> [n \in Names |-> Blank]]
  BY <1>1 DEF NewObject, LoadedObject, NoObject, RecordSound, Blank
<1>3. Blank \in Properties /\ Sound(Blank)
  BY LoadedFacts DEF Blank, Cells
<1> HIDE DEF o
<1>4. o \in Objects
  <2> txn.version \in 0..MaxVersion /\ txn.index \in SUBSET Names
    BY <1>1 DEF Records
  <2> [n \in Names |-> Blank] \in [Names -> Properties]
    BY <1>3
  <2> QED
    BY <1>2 DEF Objects
<1>5. ObjectSound(o)
  BY <1>2, <1>3 DEF ObjectSound
<1>6. Mirrors(o, txn)
  BY <1>1, <1>2 DEF Mirrors
<1>7. Follows(o, txn, disk)
  BY <1>1, <1>2, VersionAssumption DEF Follows, Records
<1>8. Tells(o, txn, disk, delta)
  BY <1>1, <1>2, VersionAssumption DEF Tells, NoDelta, Records
<1>9. SeenOf(o, txn) = txn.cells
  BY <1>1, <1>2 DEF SeenOf, Records
<1> QED
  BY <1>2, <1>4, <1>5, <1>6, <1>7, <1>8, <1>9 DEF Ready, o

\* apply_inbound_delta: the object has the client's values and what it shows is
\* flushed.
LEMMA ReceivedFacts ==
  ASSUME Inv, CanLoad \/ CanCreate,
         NEW updates \in SUBSET Names, NEW deletes \in SUBSET (Names \ updates),
         NEW cells \in [updates -> Values]
  PROVE  LET o == ReceivedObject(updates, deletes, cells)
         IN /\ Ready(o) /\ IsFlushed(o) /\ ~o.buried /\ o.option = "keep"
            /\ SeenOf(o, txn) \in [Names -> Cells]
<1> DEFINE f == IF txn.version = 0 THEN NewObject ELSE LoadedObject(txn)
           p(n) == LoadedProperty(txn.cells[n])
           v(n) == IF n \in deletes THEN [SetCurrent(p(n), None) EXCEPT !.script = None]
                   ELSE IF n \in updates /\ txn.cells[n] # cells[n] THEN SetCurrent(p(n), cells[n])
                   ELSE IF n \in updates THEN p(n)
                   ELSE f.props[n]
           o == ReceivedObject(updates, deletes, cells)
<1> txn \in Records
  BY DEF Inv, TypeOK
<1>1. Ready(f) /\ ~f.buried /\ f.option = "keep" /\ f.cached = {} /\ f.changed = {}
  BY FreshFacts
<1>2. f \in Objects
  BY <1>1 DEF Ready
<1>3. o = [f EXCEPT !.names = (@ \cup updates) \ deletes,
                    !.cached = updates \cup deletes,
                    !.props = [n \in Names |-> v(n)]]
  BY DEF ReceivedObject
<1> HIDE DEF f, o
<1>4. ASSUME NEW n \in Names
      PROVE  /\ v(n) \in Properties /\ Sound(v(n))
             /\ n \in updates \cup deletes => SavedCell(v(n)) = txn.cells[n]
             /\ n \notin updates \cup deletes => v(n) = Blank
             /\ ScriptCell(v(n)) = CurrentCell(v(n))
             /\ ScriptCell(v(n)) \in Cells
  <2>1. txn.cells[n] \in Cells
    BY DEF Records
  <2>2. /\ p(n) \in Properties /\ Sound(p(n)) /\ SavedCell(p(n)) = txn.cells[n]
        /\ p(n).script = Unknown
    BY <2>1, LoadedFacts DEF LoadedProperty
  <2>3. f.props[n] = Blank
    BY <1>1 DEF Ready, ObjectSound
  <2>4. ASSUME NEW c \in Cells
        PROVE  LET q == SetCurrent(p(n), c)
               IN /\ q \in Properties /\ Sound(q) /\ q.script = Unknown
                  /\ SavedCell(q) = txn.cells[n] /\ CurrentCell(q) = c
    <3> HIDE DEF p
    <3> QED
      BY <2>2, SetCurrentFacts
  <2>5. CASE n \in deletes
    <3> DEFINE q == SetCurrent(p(n), None)
    <3>1. /\ q \in Properties /\ Sound(q) /\ SavedCell(q) = txn.cells[n] /\ CurrentCell(q) = None
      BY <2>4 DEF Cells
    <3>2. v(n) = [q EXCEPT !.script = None] /\ n \in updates \cup deletes
      BY <2>5
    <3> HIDE DEF q, v
    <3>3. /\ v(n) = [saved |-> q.saved, current |-> q.current, script |-> None]
      BY <3>1, <3>2 DEF Properties
    <3> QED
      BY <3>1, <3>2, <3>3, CellAssumption
      DEF Properties, Cells, Sound, SavedCell, CurrentCell, ScriptCell
  <2>6. CASE n \in updates /\ txn.cells[n] # cells[n]
    <3>1. cells[n] \in Cells
      BY <2>6 DEF Cells
    <3>2. v(n) = SetCurrent(p(n), cells[n])
      BY <2>6
    <3> HIDE DEF v, p
    <3> QED
      BY <2>4, <2>6, <3>1, <3>2, CellFacts DEF ScriptCell
  <2>7. CASE n \in updates /\ txn.cells[n] = cells[n]
    <3> v(n) = p(n)
      BY <2>7
    <3> HIDE DEF v, p
    <3> QED
      BY <2>2, <2>7, CellFacts DEF ScriptCell
  <2>8. CASE n \notin updates \cup deletes
    <3>1. v(n) = Blank
      BY <2>3, <2>8
    <3>2. None \in Cells
      BY DEF Cells
    <3>3. Blank.script = Unknown
      BY DEF Blank, LoadedProperty
    <3> HIDE DEF v
    <3> QED
      BY <2>8, <3>1, <3>2, <3>3, LoadedFacts DEF ScriptCell, Blank
  <2> QED
    BY <2>5, <2>6, <2>7, <2>8
<1>5. /\ o.props = [n \in Names |-> v(n)]
      /\ o.cached = updates \cup deletes /\ o.option = "keep" /\ ~o.buried
      /\ SameSaved(o, f)
  BY <1>1, <1>2, <1>3 DEF SameSaved, Objects
<1> HIDE DEF v
<1>6. o \in Objects
  <2> o.props \in [Names -> Properties]
    BY <1>4, <1>5
  <2> QED
    BY <1>2, <1>3, <1>5 DEF Objects
<1>7. ObjectSound(o)
  BY <1>4, <1>5 DEF ObjectSound
<1>8. \A n \in o.cached : SavedCell(o.props[n]) = txn.cells[n]
  BY <1>4, <1>5
<1>9. Ready(o)
  BY <1>1, <1>5, <1>6, <1>7, <1>8, ReadyAgain
<1>10. IsFlushed(o)
  BY <1>4, <1>5 DEF IsFlushed
<1>11. SeenOf(o, txn) \in [Names -> Cells]
  <2> \A n \in Names : ScriptCell(o.props[n]) \in Cells
    BY <1>4, <1>5
  <2> txn.cells \in [Names -> Cells]
    BY DEF Records
  <2> QED
    BY DEF SeenOf
<1> QED
  BY <1>5, <1>9, <1>10, <1>11 DEF o

\* A step of ObjectValues, or none of its values changes.
Refines == [Abstract!Next]_Abstract!vars

\* What the script sees, and what the last step makes of it.
LEMMA SeenFacts == Seen = SeenOf(object, txn) /\ Seen' = SeenOf(object', txn')
BY DEF Seen, SeenOf

\* A step that leaves the record and what the script sees of it is invisible.
LEMMA InvisibleStep ==
  ASSUME UNCHANGED <<disk, txn>>, SeenOf(object', txn) = SeenOf(object, txn)
  PROVE  Refines
BY SeenFacts DEF Refines, Abstract!vars, Record, Life

\* The record of an object that can be used.
LEMMA UsableFacts ==
  ASSUME Inv, NEW o, Ready(o)
  PROVE  /\ Record(disk).life # "deleted"
         /\ ~o.buried => Record(txn).life # "deleted"
         /\ Record(txn).cells = txn.cells
BY DEF Inv, Ready, Mirrors, Follows, Record, Life

\* Whatever is saved of o, ready and flushed, where the script saw as much of
\* the object before, is stored.
LEMMA SaveRefines ==
  ASSUME Inv, NEW o, Ready(o), IsFlushed(o), SeenOf(o, txn) = SeenOf(object, txn),
         MustSave(o) => o.version < MaxVersion,
         object' = SavedObject(o), txn' = SavedRecord(o, txn), UNCHANGED disk
  PROVE  Refines
<1> DEFINE t == SavedRecord(o, txn)
<1> txn \in Records /\ disk \in Records /\ RecordSound(txn)
  BY DEF Inv, TypeOK
<1> o.version \in Nat
  BY VersionAssumption DEF Ready, Objects
<1>1. Seen = SeenOf(o, txn) /\ Seen' = SeenOf(SavedObject(o), t)
  BY SeenFacts
<1>2. CASE ~MustSave(o)
  BY <1>2, UnsavedFacts, InvisibleStep
<1>3. CASE MustSave(o) /\ o.option = "keep"
  <2>1. /\ t.version = o.version + 1 /\ ~t.deleted /\ ~o.buried
        /\ t.cells = SeenOf(o, txn) /\ SeenOf(SavedObject(o), t) = t.cells
    BY <1>3, KeptFacts DEF SavedRecord
  <2> HIDE DEF t
  <2>2. Record(t) = [life |-> "live", cells |-> Seen]
    BY <1>1, <2>1 DEF Record, Life
  <2>3. Abstract!Usable
    BY <2>1, UsableFacts DEF Abstract!Usable
  <2>4. Abstract!Save
    BY <1>1, <2>1, <2>2, <2>3 DEF Abstract!Save, Record, Life, t
  <2> QED
    BY <2>4 DEF Refines, Abstract!Next
<1>4. CASE MustSave(o) /\ o.option # "keep"
  <2>1. /\ t \in Records /\ Life(t) # "live"
        /\ \A n \in Names : t.cells[n] \in {txn.cells[n], None}
        /\ SeenOf(SavedObject(o), t) = t.cells
    BY <1>4, BuriedFacts DEF Saved
  <2> HIDE DEF t
  <2>2. Record(t) \in Abstract!Objects
    BY <2>1 DEF Record, Life, Records, Cells, Abstract!Objects, Abstract!Cells
  <2>3. Record(disk).life # "deleted" /\ Record(txn).cells = txn.cells
    BY UsableFacts
  <2>4. Record(t).life # "live" /\ Record(t).cells = t.cells
    BY <2>1 DEF Record
  <2>5. Record(txn)' = Record(t) /\ UNCHANGED Record(disk)
    BY DEF Record, Life, t
  <2>6. Abstract!Delete
    BY <1>1, <2>1, <2>2, <2>3, <2>4, <2>5 DEF Abstract!Delete
  <2> QED
    BY <2>6 DEF Refines, Abstract!Next
<1> QED
  BY <1>2, <1>3, <1>4

\* A script's assignment to a property.
LEMMA WriteRefines ==
  ASSUME Inv, NEW o, Ready(o), NEW q, Ready(q), NEW n \in Names,
         SeenOf(o, txn) = SeenOf(object, txn),
         q.cached = o.cached, q.buried = o.buried,
         \A m \in Names \ {n} : q.props[m] = o.props[m],
         object' = q, UNCHANGED <<disk, txn>>
  PROVE  Refines
<1>1. Seen = SeenOf(o, txn) /\ Seen' = SeenOf(q, txn)
  BY SeenFacts
<1>2. CASE o.buried
  <2> SeenOf(q, txn) = SeenOf(o, txn)
    BY <1>2 DEF SeenOf
  <2> QED
    BY InvisibleStep
<1>3. CASE ~o.buried
  <2>1. Abstract!Usable
    BY <1>3, UsableFacts DEF Abstract!Usable
  <2>2. SeenOf(q, txn) \in [Names -> Cells]
    <3> \A m \in Names : ScriptCell(q.props[m]) \in Cells
      BY CellFacts DEF Ready, ObjectSound, Objects
    <3> txn.cells \in [Names -> Cells]
      BY DEF Inv, TypeOK, Records
    <3> QED
      BY DEF SeenOf
  <2>3. \A m \in Names \ {n} : SeenOf(q, txn)[m] = SeenOf(o, txn)[m]
    BY DEF SeenOf
  <2>4. Abstract!Write
    BY <1>1, <2>1, <2>2, <2>3 DEF Abstract!Write, Abstract!Cells, Cells, Record, Life
  <2> QED
    BY <2>4 DEF Refines, Abstract!Next
<1> QED
  BY <1>2, <1>3

\* What each of the actions is shown to do.
Correct == Inv' /\ Refines

\* Begin(r) changes nothing of the object.
LEMMA BeginCorrect == ASSUME Inv, NEW r \in {"call", "save"}, Begin(r) PROVE Correct
<1>1. Inv'
  BY DEF Begin, Inv, TypeOK, RecordSound, Ready, Tells
<1>2. Refines
  BY InvisibleStep DEF Begin
<1> QED
  BY <1>1, <1>2 DEF Correct

\* Fail and Respond drop or commit the transaction.
LEMMA EndCorrect ==
  ASSUME Inv, NEW d \in {disk, txn}, NEW a \in {"ok", "error"}, End(d, a)
  PROVE  Correct
<1>1. d \in Records
  BY DEF Inv, TypeOK
<1>2. SeenOf(NoObject, d) = d.cells
  BY <1>1 DEF SeenOf, NoObject, Records
<1>3. Seen' = d.cells /\ Record(disk)' = Record(d) /\ Record(txn)' = Record(d)
  BY <1>2, SeenFacts DEF End, Record, Life
<1>4. Abstract!Commit \/ Abstract!Abort
  BY <1>3 DEF Abstract!Commit, Abstract!Abort, Record
<1>5. Refines
  BY <1>4 DEF Refines, Abstract!Next
<1> QED
  BY <1>5, EndStep DEF Correct

\* The client's changes.
LEMMA InboundCorrect ==
  ASSUME Inv, NEW updates \in SUBSET Names, NEW deletes \in SUBSET (Names \ updates),
         NEW cells \in [updates -> Values], InboundDelta(updates, deletes, cells)
  PROVE  Correct
<1> DEFINE o == ReceivedObject(updates, deletes, cells)
           any_changes == txn.version = 0 \/ ChangedNames(o) # {}
           saves == request = "save" /\ any_changes
<1>1. /\ Ready(o) /\ IsFlushed(o) /\ ~o.buried /\ o.option = "keep"
      /\ SeenOf(o, txn) \in [Names -> Cells]
  BY ReceivedFacts DEF InboundDelta
<1>2. /\ txn = disk /\ object = NoObject /\ ~txn.deleted
      /\ txn \in Records /\ disk \in Records /\ delta \in Deltas /\ RecordSound(txn)
      /\ type = "data" /\ request \in {"call", "save"}
  BY DEF InboundDelta, CanLoad, CanCreate, Inv, TypeOK, RecordSound
<1>3. /\ saves => o.version < MaxVersion
      /\ object' = IF saves THEN SavedObject(o) ELSE o
      /\ txn' = IF saves THEN SavedRecord(o, txn) ELSE txn
      /\ delta' = IF saves THEN DeltaOf(SavedObject(o), delta) ELSE delta
      /\ request' \in {"call", "save", "respond"}
      /\ UNCHANGED <<type, disk, answer>>
  BY <1>2 DEF InboundDelta
<1> HIDE DEF o, saves
<1>4. Abstract!Usable
  BY <1>2 DEF Abstract!Usable, Record, Life
<1>5. Record(txn) = Record(disk) /\ Seen = Record(txn).cells
  BY <1>2, SeenFacts DEF Record, SeenOf, NoObject, Records
<1>6. CASE ~saves
  <2>1. Inv'
    BY <1>1, <1>3, <1>6, ReadyStep
  <2>2. Seen' \in Abstract!Cells
    BY <1>1, <1>3, <1>6, SeenFacts DEF Abstract!Cells, Cells
  <2>3. Abstract!Receive
    BY <1>3, <1>4, <1>5, <1>6, <2>2 DEF Abstract!Receive, Record, Life
  <2> QED
    BY <2>1, <2>3 DEF Correct, Refines, Abstract!Next
<1>7. CASE saves
  <2> DEFINE q == SavedObject(o)
             t == SavedRecord(o, txn)
  <2>1. Saved(q, t) /\ ~q.buried /\ q.option = "keep"
    BY <1>1, <1>2, <1>3, <1>7, SaveFacts
  <2>2. DeltaOf(q, delta) \in Deltas /\ Tells(q, t, disk, DeltaOf(q, delta))
    BY <1>1, <1>2, <1>3, <1>7, SaveTells
  <2>3. Inv'
    BY <1>3, <1>7, <2>1, <2>2, StepFacts
  <2>4. CASE ~MustSave(o)
    <3>1. q = o /\ t = txn
      BY <1>1, <1>2, <2>4, UnsavedFacts
    <3>2. Seen' \in Abstract!Cells
      BY <1>1, <1>3, <1>7, <3>1, SeenFacts DEF Abstract!Cells, Cells
    <3>3. Abstract!Receive
      BY <1>3, <1>4, <1>5, <1>7, <3>1, <3>2 DEF Abstract!Receive, Record, Life
    <3> QED
      BY <2>3, <3>3 DEF Correct, Refines, Abstract!Next
  <2>5. CASE MustSave(o)
    <3>1. /\ t.version = o.version + 1 /\ ~t.deleted /\ t \in Records
          /\ SeenOf(q, t) = t.cells
      BY <1>1, <1>2, <1>3, <1>7, <2>5, KeptFacts DEF SavedRecord, Saved
    <3>2. o.version \in Nat
      BY <1>1, VersionAssumption DEF Ready, Objects
    <3>3. Seen' = t.cells /\ Seen' \in Abstract!Cells
      BY <1>3, <1>7, <3>1, SeenFacts DEF Abstract!Cells, Cells, Records
    <3>4. Record(txn)' = [life |-> "live", cells |-> Seen']
      <4> HIDE DEF t
      <4> Record(t) = [life |-> "live", cells |-> t.cells]
        BY <3>1, <3>2 DEF Record, Life
      <4> QED
        BY <1>3, <1>7, <3>3 DEF Record, Life, t
    <3>5. Record(disk)' = Record(disk)
      BY <1>3 DEF Record, Life
    <3>6. Abstract!Receive
      BY <1>4, <1>5, <3>3, <3>4, <3>5 DEF Abstract!Receive
    <3> QED
      BY <2>3, <3>6 DEF Correct, Refines, Abstract!Next
  <2> QED
    BY <2>4, <2>5
<1> QED
  BY <1>6, <1>7

\* Load and Create.
LEMMA FreshCorrect == ASSUME Inv, Load \/ Create PROVE Correct
<1> DEFINE o == IF txn.version = 0 THEN NewObject ELSE LoadedObject(txn)
<1>1. /\ CanLoad \/ CanCreate
      /\ object' = o /\ request = "call"
      /\ UNCHANGED <<type, disk, txn, request, delta, answer>>
  BY DEF Load, Create, CanLoad, CanCreate, Inv, TypeOK, Records
<1>2. /\ Ready(o) /\ ~o.buried /\ o.option = "keep" /\ SeenOf(o, txn) = txn.cells
  BY <1>1, FreshFacts
<1>3. SeenOf(object, txn) = txn.cells
  BY <1>1 DEF SeenOf, Inv, TypeOK, Records, CanLoad, CanCreate, NoObject
<1> HIDE DEF o
<1> QED
  BY <1>1, <1>2, <1>3, ReadyStep, InvisibleStep DEF Correct

\* Read, Write and DeleteProperty touch the property and set its script value.
LEMMA TouchCorrect ==
  ASSUME Inv, NEW n \in Names, InScript, NEW c \in Cells,
         NEW names \in {Touched(object, n).names, Touched(object, n).names \ {n}},
         object' = [Touched(object, n) EXCEPT !.props[n].script = c, !.names = names],
         UNCHANGED <<type, disk, txn, request, delta, answer>>
  PROVE  Correct
<1> DEFINE o == Touched(object, n)
           q == [o EXCEPT !.props[n].script = c, !.names = names]
<1> txn \in Records /\ Ready(object) /\ object \in Objects
  BY DEF InScript, Inv, TypeOK
<1>1. Ready(o) /\ n \in o.cached /\ o.option = object.option
  BY TouchedFacts
<1>2. SeenOf(o, txn) = SeenOf(object, txn) /\ o.buried = object.buried
  <2>1. CASE n \in object.cached
    BY <2>1 DEF Touched
  <2>2. CASE n \notin object.cached
    <3>1. /\ o.props = [object.props EXCEPT ![n] = LoadedProperty(txn.cells[n])]
          /\ o.cached = object.cached \cup {n} /\ o.buried = object.buried
      BY <2>2 DEF Touched, Objects
    <3>2. ScriptCell(LoadedProperty(txn.cells[n])) = txn.cells[n]
      BY LoadedFacts DEF Records
    <3>3. ASSUME NEW m \in Names
          PROVE  SeenOf(o, txn)[m] = SeenOf(object, txn)[m]
      <4> HIDE DEF o
      <4>1. CASE m = n
        BY <2>2, <3>1, <3>2, <4>1 DEF SeenOf, Objects
      <4>2. CASE m # n
        BY <3>1, <4>2 DEF SeenOf, Objects
      <4> QED
        BY <4>1, <4>2
    <3> HIDE DEF o
    <3> QED
      BY <3>1, <3>3 DEF SeenOf
  <2> QED
    BY <2>1, <2>2
<1> HIDE DEF o
<1>3. o \in Objects /\ o.props[n] \in Properties /\ o.props \in [Names -> Properties]
  BY <1>1 DEF Ready, Objects
<1>4. /\ q.props = [o.props EXCEPT ![n].script = c]
      /\ q.cached = o.cached /\ q.option = o.option /\ SameSaved(q, o)
  BY <1>3 DEF SameSaved, Objects
<1>5. q \in Objects
  <2> [o.props[n] EXCEPT !.script = c] \in Properties
    BY <1>3 DEF Properties
  <2> q.props \in [Names -> Properties]
    BY <1>3, <1>4
  <2> names \in SUBSET Names
    BY <1>3 DEF Objects, o
  <2> QED
    BY <1>3 DEF Objects
<1> HIDE DEF q
<1>6. Ready(q)
  BY <1>1, <1>4, <1>5, ScriptedFacts
<1>7. object' = q
  BY DEF q, o
<1>8. Inv'
  <2> type = "data" /\ q.option # "keep" => q.buried
    BY <1>1, <1>2, <1>4 DEF Inv, SameSaved
  <2> QED
    BY <1>6, <1>7, ReadyStep DEF InScript
<1>9. \A m \in Names \ {n} : q.props[m] = o.props[m]
  BY <1>3, <1>4
<1>10. Refines
  <2> q.cached = o.cached /\ q.buried = o.buried /\ UNCHANGED <<disk, txn>>
    BY <1>4 DEF SameSaved
  <2> QED
    BY <1>1, <1>2, <1>6, <1>7, <1>9, WriteRefines
<1> QED
  BY <1>8, <1>10 DEF Correct

\* Reading is assigning what is read.
LEMMA ReadCorrect == ASSUME Inv, NEW n \in Names, Read(n) PROVE Correct
<1> DEFINE o == Touched(object, n)
<1>1. Ready(o)
  BY TouchedFacts DEF Read, InScript, Inv, TypeOK
<1>2. ScriptCell(o.props[n]) \in Cells
  BY <1>1, CellFacts DEF Ready, ObjectSound, Objects
<1>3. o \in Objects
  BY <1>1 DEF Ready
<1>4. object' = [o EXCEPT !.props[n].script = ScriptCell(o.props[n]), !.names = o.names]
  BY <1>3 DEF Read, Objects
<1> QED
  BY <1>2, <1>4, TouchCorrect DEF Read

\* Writing assigns a value, or nothing.
LEMMA WriteCorrect == ASSUME Inv, NEW n \in Names, NEW c \in Cells, Write(n, c) PROVE Correct
<1> DEFINE o == Touched(object, n)
<1>1. o \in Objects
  BY TouchedFacts DEF Write, InScript, Inv, TypeOK, Ready
<1>2. object' = [o EXCEPT !.props[n].script = c, !.names = o.names]
  BY <1>1 DEF Write, Objects
<1> QED
  BY <1>2, TouchCorrect DEF Write

\* Deleting a property assigns nothing; its name goes too.
LEMMA DeletePropertyCorrect == ASSUME Inv, NEW n \in Names, DeleteProperty(n) PROVE Correct
<1> DEFINE o == Touched(object, n)
<1>1. o \in Objects
  BY TouchedFacts DEF DeleteProperty, InScript, Inv, TypeOK, Ready
<1>2. object' = [o EXCEPT !.props[n].script = None, !.names = o.names \ {n}]
  BY <1>1 DEF DeleteProperty, Objects
<1> QED
  BY <1>2, TouchCorrect DEF DeleteProperty, Cells

\* Reverting the object reverts what the script sees.
LEMMA RevertCorrect == ASSUME Inv, Revert PROVE Correct
<1> DEFINE q == RevertedObject(object)
<1>1. /\ Ready(q) /\ (q.option # "keep" => q.buried) /\ SeenOf(q, txn) = txn.cells
  BY RevertedObjectFacts DEF Revert, InScript, Inv, TypeOK
<1>2. /\ object' = q /\ request' = "call"
      /\ UNCHANGED <<type, disk, txn, delta, answer>>
  BY DEF Revert, InScript
<1> HIDE DEF q
<1>3. Inv'
  BY <1>1, <1>2, ReadyStep
<1>4. Seen' = txn.cells
  BY <1>1, <1>2, SeenFacts
<1>5. Abstract!Revert
  BY <1>2, <1>4 DEF Abstract!Revert, Record, Life
<1> QED
  BY <1>3, <1>5 DEF Correct, Refines, Abstract!Next

\* save_objects on a Data object of which the script has seen the same.
LEMMA SaveObjectsCorrect ==
  ASSUME Inv, NEW o \in Objects, Ready(o), SeenOf(o, txn) = SeenOf(object, txn),
         type = "data", request = "call", SaveObjects(o)
  PROVE  Correct
<1> DEFINE f == FlushedObject(o)
           q == SavedObject(f)
           t == SavedRecord(f, txn)
<1>1. /\ txn \in Records /\ disk \in Records /\ delta \in Deltas /\ RecordSound(txn)
  BY DEF Inv, TypeOK
<1>2. /\ Ready(f) /\ IsFlushed(f) /\ SeenOf(f, txn) = SeenOf(object, txn)
  BY FlushedObjectFacts
<1>3. /\ MustSave(f) => f.version < MaxVersion
      /\ object' = q /\ txn' = t
      /\ delta' = IF f # o \/ MustSave(f) THEN DeltaOf(q, delta) ELSE delta
      /\ request' = "call" /\ UNCHANGED <<type, disk, answer>>
  BY DEF SaveObjects
<1> HIDE DEF f
<1>4. Saved(q, t) /\ (q.option # "keep" => q.buried)
  BY <1>1, <1>2, <1>3, SaveFacts
<1>5. DeltaOf(q, delta) \in Deltas /\ Tells(q, t, disk, DeltaOf(q, delta))
  BY <1>1, <1>2, <1>3, SaveTells
<1>6. ~MustSave(f) => Tells(q, t, disk, delta)
  BY <1>1, <1>2, UnsavedFacts DEF Ready
<1>7. delta' \in Deltas /\ Tells(q, t, disk, delta')
  BY <1>1, <1>3, <1>5, <1>6
<1> HIDE DEF q, t
<1>8. Inv'
  <2> DEFINE d == delta'
  <2> d \in Deltas /\ Tells(q, t, disk, d) /\ delta' = d
    BY <1>7
  <2> HIDE DEF d
  <2> QED
    BY <1>3, <1>4, StepFacts
<1>9. Refines
  BY <1>2, <1>3, SaveRefines DEF q, t
<1> QED
  BY <1>8, <1>9 DEF Correct

\* saveData stores what the script sees.
LEMMA SaveDataCorrect == ASSUME Inv, SaveData PROVE Correct
BY SaveObjectsCorrect DEF SaveData, InScript, Inv, Ready

\* A deletion is stored at once if it is of Data, and invisible otherwise.
LEMMA DeleteCorrect == ASSUME Inv, NEW option \in {"delete", "purge"}, Delete(option) PROVE Correct
<1> DEFINE o == [object EXCEPT !.option = option]
<1> Ready(object) /\ object \in Objects /\ request = "call" /\ type \in {"data", "service"}
  BY DEF Delete, InScript, Inv, TypeOK
<1>1. /\ o.option = option /\ o.cached = object.cached /\ o.props = object.props
      /\ SameSaved(o, object) /\ o \in Objects
  BY DEF SameSaved, Objects
<1> HIDE DEF o
<1>2. Ready(o) /\ SeenOf(o, txn) = SeenOf(object, txn)
  <2>1. ObjectSound(o)
    BY <1>1 DEF ObjectSound, Ready
  <2>2. ~o.buried => \A n \in o.cached : SavedCell(o.props[n]) = txn.cells[n]
    BY <1>1 DEF Ready, Mirrors, SameSaved
  <2>3. SeenOf(o, txn) = SeenOf(object, txn)
    BY <1>1 DEF SeenOf, SameSaved
  <2> QED
    BY <1>1, <2>1, <2>2, <2>3, ReadyAgain
<1>3. CASE type = "data" /\ o # object
  <2> SaveObjects(o)
    BY <1>3 DEF Delete, o
  <2> QED
    BY <1>1, <1>2, <1>3, SaveObjectsCorrect
<1>4. CASE type = "service" \/ o = object
  <2>1. object' = o /\ request' = "call" /\ UNCHANGED <<type, disk, txn, delta, answer>>
    BY <1>4 DEF Delete, o
  <2>2. type = "data" /\ o.option # "keep" => o.buried
    BY <1>4 DEF Inv
  <2> QED
    BY <1>2, <2>1, <2>2, ReadyStep, InvisibleStep DEF Correct
<1> QED
  BY <1>3, <1>4

\* sendMessage saves what it finds flushed, or is invisible.
LEMMA SendMessageCorrect == ASSUME Inv, SendMessage PROVE Correct
<1> DEFINE o == FlushedObject(object)
           saves == o = object /\ MustSave(o)
<1>1. /\ txn \in Records /\ disk \in Records /\ delta \in Deltas /\ RecordSound(txn)
      /\ Ready(object) /\ type = "data"
      /\ object.option # "keep" => object.buried
  BY DEF Inv, TypeOK, SendMessage, InScript
<1>2. /\ Ready(o) /\ IsFlushed(o) /\ SeenOf(o, txn) = SeenOf(object, txn)
      /\ o.option = object.option /\ o.buried = object.buried
  BY <1>1, FlushedObjectFacts DEF SameSaved
<1>3. /\ saves => o.version < MaxVersion
      /\ object' = IF saves THEN SavedObject(o) ELSE o
      /\ txn' = IF saves THEN SavedRecord(o, txn) ELSE txn
      /\ request' = "call" /\ UNCHANGED <<type, disk, delta, answer>>
  BY DEF SendMessage, InScript
<1> HIDE DEF o
<1>4. CASE saves
  <2> DEFINE q == SavedObject(o)
             t == SavedRecord(o, txn)
  <2>1. Saved(q, t) /\ (q.option # "keep" => q.buried)
    BY <1>1, <1>2, <1>3, <1>4, SaveFacts
  <2>2. Tells(q, t, disk, delta)
    BY <1>1, <1>2, <1>3, <1>4, SaveUntold
  <2>3. object' = q /\ txn' = t
    BY <1>3, <1>4
  <2>4. Inv'
    <3> HIDE DEF q, t
    <3> QED
      BY <1>1, <1>3, <2>1, <2>2, <2>3, StepFacts
  <2> QED
    BY <1>2, <1>3, <1>4, <2>3, <2>4, SaveRefines DEF Correct
<1>5. CASE ~saves
  <2> object' = o /\ UNCHANGED txn
    BY <1>3, <1>5
  <2> QED
    BY <1>1, <1>2, <1>3, ReadyStep, InvisibleStep DEF Correct
<1> QED
  BY <1>4, <1>5

\* The end of a call saves a service.
LEMMA EndCallCorrect == ASSUME Inv, EndCall PROVE Correct
<1>1. CASE type = "service" /\ object.loaded
  <2> DEFINE o == FlushedObject(object)
             q == SavedObject(o)
             t == SavedRecord(o, txn)
  <2>1. /\ txn \in Records /\ disk \in Records /\ delta \in Deltas /\ RecordSound(txn)
        /\ Ready(object)
    BY <1>1 DEF Inv, TypeOK
  <2>2. /\ Ready(o) /\ IsFlushed(o) /\ SeenOf(o, txn) = SeenOf(object, txn)
    BY <2>1, FlushedObjectFacts
  <2>3. /\ MustSave(o) => o.version < MaxVersion
        /\ object' = q /\ txn' = t /\ request' = "respond"
        /\ UNCHANGED <<type, disk, delta, answer>>
    BY <1>1 DEF EndCall
  <2> HIDE DEF o
  <2>4. Saved(q, t)
    BY <2>1, <2>2, <2>3, SaveFacts
  <2>5. Tells(q, t, disk, delta)
    BY <1>1, <2>1, <2>2, <2>3, SaveUntold
  <2>6. Inv'
    <3> HIDE DEF q, t
    <3> QED
      BY <1>1, <2>1, <2>3, <2>4, <2>5, StepFacts
  <2> QED
    BY <2>2, <2>3, <2>6, SaveRefines DEF Correct
<1>2. CASE ~(type = "service" /\ object.loaded)
  <2>1. request' = "respond" /\ UNCHANGED <<type, disk, txn, object, delta, answer>>
    BY <1>2 DEF EndCall
  <2>2. Inv'
    BY <2>1 DEF Inv, TypeOK, RecordSound, Ready, Tells
  <2> QED
    BY <2>1, <2>2, InvisibleStep DEF Correct
<1> QED
  BY <1>1, <1>2

-----------------------------------------------------------------------------
(* The theorems.                                                           *)

\* Before any request the object has no record and no delta.
LEMMA InitFacts == Init => Inv /\ Abstract!Init
<1> SUFFICES ASSUME Init PROVE Inv /\ Abstract!Init
  OBVIOUS
<1>1. NoRecord \in Records /\ NoDelta \in Deltas
  BY VersionAssumption DEF NoRecord, Records, NoDelta, Deltas, Cells
<1>2. Inv
  BY <1>1, NoObjectFacts DEF Init, Inv, TypeOK, RecordSound, NoRecord
<1>3. SeenOf(NoObject, NoRecord) = NoRecord.cells
  BY DEF SeenOf, NoObject, NoRecord
<1>4. Abstract!Init
  BY <1>3, SeenFacts DEF Init, Abstract!Init, Abstract!NoCells, Record, Life, NoRecord
<1> QED
  BY <1>2, <1>4

\* Every step keeps the invariant and is a step of ObjectValues.
LEMMA StepCorrect == Inv /\ [Next]_vars => Correct
<1> SUFFICES ASSUME Inv, [Next]_vars PROVE Correct
  OBVIOUS
<1>1. ASSUME NEW r \in {"call", "save"}, Begin(r) PROVE Correct
  BY <1>1, BeginCorrect
<1>2. ASSUME NEW updates \in SUBSET Names, NEW deletes \in SUBSET (Names \ updates),
             NEW cells \in [updates -> Values], InboundDelta(updates, deletes, cells)
      PROVE  Correct
  BY <1>2, InboundCorrect
<1>3. CASE Script
  <2>1. CASE Load \/ Create
    BY <2>1, FreshCorrect
  <2>2. CASE Revert
    BY <2>2, RevertCorrect
  <2>3. CASE SaveData
    BY <2>3, SaveDataCorrect
  <2>4. CASE SendMessage
    BY <2>4, SendMessageCorrect
  <2>5. ASSUME NEW n \in Names, Read(n) \/ DeleteProperty(n) PROVE Correct
    BY <2>5, ReadCorrect, DeletePropertyCorrect
  <2>6. ASSUME NEW n \in Names, NEW c \in Cells, Write(n, c) PROVE Correct
    BY <2>6, WriteCorrect
  <2>7. ASSUME NEW option \in {"delete", "purge"}, Delete(option) PROVE Correct
    BY <2>7, DeleteCorrect
  <2> QED
    BY <1>3, <2>1, <2>2, <2>3, <2>4, <2>5, <2>6, <2>7 DEF Script
<1>4. CASE EndCall
  BY <1>4, EndCallCorrect
<1>5. ASSUME NEW others \in BOOLEAN, Respond(others) PROVE Correct
  <2> End(disk, "error") \/ End(txn, "ok") \/ End(disk, "ok")
    BY <1>5 DEF Respond
  <2> QED
    BY EndCorrect
<1>6. CASE Fail
  BY <1>6, EndCorrect DEF Fail
<1>7. CASE UNCHANGED vars
  <2>1. Inv'
    BY <1>7 DEF vars, Inv, TypeOK, RecordSound, Ready, Tells
  <2> QED
    BY <1>7, <2>1, InvisibleStep DEF vars, Correct
<1> QED
  BY <1>1, <1>2, <1>3, <1>4, <1>5, <1>6, <1>7 DEF Next

\* The invariant holds whatever the requests do.
THEOREM Invariance == Spec => []Inv
<1>1. Init => Inv
  BY InitFacts
<1>2. Inv /\ [Next]_vars => Inv'
  BY StepCorrect DEF Correct
<1> QED
  BY <1>1, <1>2, PTL DEF Spec

\* Every variable keeps its type.
THEOREM TypeCorrect == Spec => []TypeOK
<1>1. Inv => TypeOK
  BY DEF Inv
<1> QED
  BY <1>1, Invariance, PTL

\* No copy of a property is a view of a cell that is not there.
THEOREM ViewsAreSound == Spec => []NoDanglingView
<1>1. Inv => NoDanglingView
  <2>1. object = NoObject => NoDanglingView
    BY NoObjectFacts DEF NoDanglingView
  <2>2. Ready(object) => NoDanglingView
    BY DEF Ready, ObjectSound, Sound, Objects, NoDanglingView
  <2> QED
    BY <2>1, <2>2 DEF Inv
<1> QED
  BY <1>1, Invariance, PTL

\* The saved copies are what the transaction holds.
THEOREM SavedCopiesArePending == Spec => []SavedIsPending
<1>1. Inv => SavedIsPending
  <2>1. object = NoObject => SavedIsPending
    BY NoObjectFacts DEF SavedIsPending
  <2>2. Ready(object) => SavedIsPending
    BY DEF Ready, Mirrors, SavedIsPending
  <2> QED
    BY <2>1, <2>2 DEF Inv
<1> QED
  BY <1>1, Invariance, PTL

\* Only the end of a request changes the record.
LEMMA CommitFacts ==
  ASSUME Inv, [Next]_vars, disk' # disk
  PROVE  disk' = txn /\ object.loaded /\ txn # disk
<1> txn # disk => object.loaded
  BY DEF Inv
<1> SUFFICES disk' = txn
  OBVIOUS
<1>1. CASE Next
  BY <1>1 DEF Next, Begin, InboundDelta, Script, Load, Create, Revert, SaveData, SaveObjects,
              SendMessage, Read, DeleteProperty, Write, Delete, EndCall, Respond, Fail, End
<1>2. CASE UNCHANGED vars
  BY <1>2 DEF vars
<1> QED
  BY <1>1, <1>2

\* Nothing changes the record of a deleted object.
THEOREM TombstonesAreFinal == Spec => TombstoneIsFinal
<1>1. Inv /\ [Next]_vars => [disk.deleted => disk' = disk]_vars
  BY CommitFacts DEF Inv, Ready, Follows
<1> QED
  BY <1>1, Invariance, PTL DEF Spec, TombstoneIsFinal

\* No version has two contents.
THEOREM VersionsAreFresh == Spec => ChangesHaveVersions
<1>1. Inv /\ [Next]_vars => [disk' # disk => disk'.version > disk.version \/ disk'.version = 0]_vars
  <2> SUFFICES ASSUME Inv, [Next]_vars, disk' # disk, disk'.version # 0
               PROVE  disk'.version > disk.version
    OBVIOUS
  <2>1. disk' = txn /\ object.loaded /\ txn # disk
    BY CommitFacts
  <2>2. txn.version = object.version
    BY <2>1 DEF Inv, Ready, Mirrors
  <2>3. object.version >= disk.version /\ object.version # disk.version
    BY <2>1, VersionAssumption DEF Inv, Ready, Follows, Objects
  <2>4. object.version \in Nat /\ disk.version \in Nat
    BY VersionAssumption DEF Inv, TypeOK, Objects, Records
  <2> QED
    BY <2>1, <2>2, <2>3, <2>4
<1> QED
  BY <1>1, Invariance, PTL DEF Spec, ChangesHaveVersions

\* The last delta of a request is what it commits.
THEOREM DeltasTellCommits == Spec => DeltaTellsCommit
<1>1. Inv /\ [Next]_vars =>
        [disk' # disk /\ delta.version > 0 =>
           IF delta.deleted THEN Life(disk') # "live"
           ELSE delta.version = disk'.version => disk'.cells = Applied(delta, disk.cells)]_vars
  <2> SUFFICES ASSUME Inv, [Next]_vars, disk' # disk, delta.version > 0
               PROVE  IF delta.deleted THEN Life(disk') # "live"
                      ELSE delta.version = disk'.version => disk'.cells = Applied(delta, disk.cells)
    OBVIOUS
  <2>1. disk' = txn /\ object.loaded
    BY CommitFacts
  <2>2. Mirrors(object, txn) /\ Tells(object, txn, disk, delta)
    BY <2>1 DEF Inv, Ready
  <2>3. CASE delta.deleted
    <3> txn.version = 0 \/ txn.deleted
      BY <2>2, <2>3 DEF Mirrors, Tells
    <3> QED
      BY <2>1, <2>3 DEF Life
  <2>4. CASE ~delta.deleted
    <3>1. type = "data"
      BY <2>2 DEF Tells, NoDelta, Inv, TypeOK
    <3>2. ~object.buried /\ txn.version = object.version
      BY <2>2, <2>4, <3>1 DEF Tells, Mirrors
    <3>3. delta.version = txn.version => Applied(delta, disk.cells) = txn.cells
      BY <2>2, <3>2 DEF Tells
    <3> QED
      BY <2>1, <2>4, <3>3
  <2> QED
    BY <2>3, <2>4
<1> QED
  BY <1>1, Invariance, PTL DEF Spec, DeltaTellsCommit

\* The copies behave as one value that is committed, one that is stored and one
\* that is seen.
THEOREM RefinementCorrect == Spec => Refinement
<1>1. Init => Abstract!Init
  BY InitFacts
<1>2. Inv /\ [Next]_vars => [Abstract!Next]_Abstract!vars
  BY StepCorrect DEF Correct, Refines
<1> QED
  BY <1>1, <1>2, Invariance, PTL DEF Spec, Refinement, Abstract!Spec

=============================================================================
