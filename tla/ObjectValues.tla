------------------------------ MODULE ObjectValues ------------------------------
(***************************************************************************)
(* What the datastore promises a worker's script about the properties of   *)
(* one Data or Service object (server.cpp, namespace data; the comments in *)
(* framework/tools/src/templates/runtime-index.d.ts): three values of each *)
(* property and nothing else.                                              *)
(*   committed - what the last committed request left on disk;             *)
(*   stored    - what the current transaction has saved so far;            *)
(*   seen      - what the script reads.                                    *)
(* The script changes what it sees, saving stores all that is seen,        *)
(* reverting shows what is stored, and a transaction commits or vanishes   *)
(* as a whole. WorkerObject keeps three copies of each property, partly    *)
(* shared, and implements this.                                            *)
(***************************************************************************)
CONSTANTS
  Names,   \* the properties
  Values,  \* their values
  None     \* a property that does not exist, which reads as undefined

VARIABLES committed, stored, seen

vars == <<committed, stored, seen>>

Cells == [Names -> Values \cup {None}]
NoCells == [n \in Names |-> None]

\* A deleted object has left its tombstone.
Objects == [life : {"absent", "live", "deleted"}, cells : Cells]

Init ==
  /\ committed = [life |-> "absent", cells |-> NoCells]
  /\ stored = committed
  /\ seen = NoCells

\* A tombstone is never opened again, in its own transaction or a later one.
Usable == committed.life # "deleted" /\ stored.life # "deleted"

\* The script assigns to, or deletes, one property.
Write ==
  /\ UNCHANGED <<committed, stored>>
  /\ Usable
  /\ seen' \in Cells
  /\ \E n \in Names : \A m \in Names \ {n} : seen'[m] = seen[m]

Save ==
  /\ UNCHANGED <<committed, seen>>
  /\ Usable
  /\ stored' = [life |-> "live", cells |-> seen]

\* The changes made by a client, before any of the script's; the request that
\* carries nothing else stores them at once.
Receive ==
  /\ UNCHANGED committed
  /\ Usable
  /\ stored = committed /\ seen = stored.cells
  /\ seen' \in Cells
  /\ stored' \in {stored, [life |-> "live", cells |-> seen']}

\* A property may outlive its object, but never gets another value by that.
Delete ==
  /\ UNCHANGED committed
  /\ committed.life # "deleted"
  /\ stored' \in Objects
  /\ stored'.life # "live"
  /\ \A n \in Names : stored'.cells[n] \in {stored.cells[n], None}
  /\ seen' = stored'.cells

Revert ==
  /\ UNCHANGED <<committed, stored>>
  /\ seen' = stored.cells

Commit ==
  /\ UNCHANGED stored
  /\ committed' = stored
  /\ seen' = stored.cells

Abort ==
  /\ UNCHANGED committed
  /\ stored' = committed
  /\ seen' = committed.cells

Next == Write \/ Save \/ Receive \/ Delete \/ Revert \/ Commit \/ Abort

Spec == Init /\ [][Next]_vars

=============================================================================
