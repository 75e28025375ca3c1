---------------------------- MODULE MCEventStore ----------------------------
(* EventStore for TLC: the clients are interchangeable. *)
EXTENDS EventStore, TLC

ClientSymmetry == Permutations(Clients)
=============================================================================
