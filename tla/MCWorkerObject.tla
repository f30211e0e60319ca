----------------------------- MODULE MCWorkerObject -----------------------------
(* Small instances of WorkerObject for TLC.                                *)
EXTENDS WorkerObject, TLC

\* The properties are alike, and so are the values.
MCSymmetry == Permutations(Names) \cup Permutations(Values)

=============================================================================
