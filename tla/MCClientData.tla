---------------------------- MODULE MCClientData ----------------------------
(* Small instances of ClientData for TLC.                                  *)
EXTENDS ClientData, TLC

\* The instances and the tasks of a kind are alike.
MCSymmetry == Permutations(Objs) \cup Permutations(Handlers) \cup Permutations(Callers)

=============================================================================
