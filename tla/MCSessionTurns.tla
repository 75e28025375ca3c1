--------------------------- MODULE MCSessionTurns ---------------------------
(* SessionTurns for TLC: processes and requests are interchangeable, and    *)
(* three tasks at most are in progress at once.                             *)
EXTENDS SessionTurns, TLC

SessionSymmetry == Permutations(Processes) \cup Permutations(Requests)

MaxBusy == 3
Busy == {ps \in Processes \X Slots : task[ps[1]][ps[2]].pc \notin {"idle", "dead"}}
FewBusy == Cardinality(Busy) <= MaxBusy
=============================================================================
