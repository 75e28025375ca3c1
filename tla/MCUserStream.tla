---------------------------- MODULE MCUserStream ----------------------------
(* UserStream for TLC: requests, users and sessions are alike, and three    *)
(* turns are taken of all sessions.                                         *)
EXTENDS UserStream, FiniteSetsExt, TLC

MCSymmetry ==
  Permutations(Requests) \cup Permutations(Users) \cup Permutations(Sessions)

AllTurns == 3
FewTurns == MapThenSumSet(LAMBDA s : turns[s], Sessions) <= AllTurns
=============================================================================
