------------------------- MODULE MCWorkerProcessTable -------------------------
(* Small instances of WorkerProcessTable for TLC.                          *)
EXTENDS WorkerProcessTable, TLC

\* Room for the processes of two workers: that of a third finds no ports.
MCPorts == 1..6

\* Threads are alike.
MCSymmetry == Permutations(Threads)

\* The properties promise nothing once a critical section is torn, and a torn
\* section stays so: behaviours need not be followed beyond.
NotTorn == ~torn

=============================================================================
