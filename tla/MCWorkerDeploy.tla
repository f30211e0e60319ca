---------------------------- MODULE MCWorkerDeploy ----------------------------
(* A small instance of WorkerDeploy for TLC: one class at a time, under two  *)
(* names; three versions of a worker and one of another made after it.       *)
EXTENDS WorkerDeploy

MCCodes == {<<c>> : c \in [name : Names, kind : Kinds]}
MCMaxVersions == <<3, 1>>

MCSymmetry ==
    Permutations(Developers) \cup Permutations(Requests) \cup Permutations(Kinds)
      \cup Permutations(Names)

=============================================================================
