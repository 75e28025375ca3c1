------------------------------ MODULE UserStream ------------------------------
(***************************************************************************)
(* The streams of the users of one process: who creates a user, which      *)
(* sessions are linked to it (application/user_service.py,                 *)
(* application/runtime/session_lifecycle.py), and what the turns of those  *)
(* sessions add to it: the profile of the user                             *)
(* (application/runtime/user_profile_turn_updater.py over                  *)
(* application/analyzers/user_profile.py) and the self state               *)
(* (application/runtime/self_state_writer.py).                             *)
(*                                                                         *)
(* A profile is the set of the turns that were mixed into its vector,      *)
(* whatever their weights; no vector is the empty one.  An append is in    *)
(* two steps, the transaction's read of the version and its insert, as in  *)
(* EventStore; one that names its version relies on the read of its        *)
(* caller.  Every await is the end of a step.                              *)
(***************************************************************************)
EXTENDS Integers, Sequences

CONSTANTS
  Users, Sessions,
  Requests,     \* requests to the users and sessions routes
  Nothing,      \* no owner, no session
  MaxTurns,     \* bound: turns of a session
  MaxFaults,    \* bound: calls of the store that raise
  MaxCrashes    \* bound: crashes of the process

ASSUME UserAssumption ==
  /\ {MaxTurns, MaxFaults, MaxCrashes} \subseteq Nat
  /\ Requests \cap Sessions = {}
  /\ Nothing \notin Users /\ Nothing \notin Sessions

VARIABLES
  owner,    \* the user in a session's SESSION_STARTED, once it is started
  log,      \* the stream of a user
  vectors,  \* UserProfileStore._vectors
  turns,    \* turns taken of a session
  call,     \* what a request, or the turn of a session, is about to do
  shaken,   \* users of whom two turns were mixed in at a time, or whose index
            \* or link the store failed
  faults, crashes
bounds == <<faults, crashes>>
vars == <<owner, log, vectors, turns, call, shaken, bounds>>

-----------------------------------------------------------------------------
Turns == Sessions \X (1 .. MaxTurns)
Callers == Requests \cup Sessions

Kinds == {"created", "linked", "updated", "profile", "reflected"}
Event == [kind: Kinds, session: Sessions \cup {Nothing}, turns: SUBSET Turns]
Created == [kind |-> "created", session |-> Nothing, turns |-> {}]
Linked(s) == [kind |-> "linked", session |-> s, turns |-> {}]
Updated == [kind |-> "updated", session |-> Nothing, turns |-> {}]
Profile(s, vector) == [kind |-> "profile", session |-> s, turns |-> vector]
Reflected(s) == [kind |-> "reflected", session |-> s, turns |-> {}]

Phases == {"idle", "starting", "linking", "index", "load", "begin", "insert",
           "profiled", "answered", "failed"}
Call == [at: Phases, user: Users \cup {Nothing}, session: Sessions \cup {Nothing},
         base: Nat, batch: Seq(Event), got: SUBSET Turns]
At(phase, u, s) == [at |-> phase, user |-> u, session |-> s,
                    base |-> 0, batch |-> <<>>, got |-> {}]
Idle == At("idle", Nothing, Nothing)

Init ==
  /\ owner = [s \in Sessions |-> Nothing]
  /\ log = [u \in Users |-> <<>>]
  /\ vectors = [u \in Users |-> {}]
  /\ turns = [s \in Sessions |-> 0]
  /\ call = [c \in Callers |-> Idle]
  /\ shaken = {}
  /\ faults = 0 /\ crashes = 0

-----------------------------------------------------------------------------
(* Appends to a user's stream.                                              *)

Goes(c, phase) == call' = [call EXCEPT ![c].at = phase]

(* An append without an expected version starts its transaction by reading  *)
(* the version; one that expects what its caller read inserts at once.      *)
Unversioned(u, s, batch) == [at |-> "begin", user |-> u, session |-> s,
                             base |-> 0, batch |-> batch, got |-> {}]
Versioned(u, s, base, batch) == [at |-> "insert", user |-> u, session |-> s,
                                 base |-> base, batch |-> batch, got |-> {}]

Begin(c) ==
  /\ call[c].at = "begin"
  /\ call' = [call EXCEPT ![c].at = "insert", ![c].base = Len(log[call[c].user])]
  /\ UNCHANGED <<owner, log, vectors, turns, shaken, bounds>>

Fits(c) == Len(log[call[c].user]) = call[c].base

(* After its append a turn that has mixed in its message goes on to its     *)
(* reply, and ends after the self state; both log a refusal and go on.  So  *)
(* does create_session, while the other requests raise it.                  *)
OfTurn(c) == c \in Sessions
OfLink(c) == ~ OfTurn(c) /\ call[c].session # Nothing
Continues(c) ==
  IF ~ OfTurn(c) THEN "answered"
  ELSE IF call[c].batch[1].kind = "profile" THEN "profiled" ELSE "idle"
Swallowed(c) == OfTurn(c) \/ OfLink(c)

After(c, phase) ==
  call' = [call EXCEPT ![c] =
    At(phase, IF phase \in {"profiled", "answered"} THEN @.user ELSE Nothing, Nothing)]

Insert(c) ==
  /\ call[c].at = "insert" /\ Fits(c)
  /\ log' = [log EXCEPT ![call[c].user] = @ \o call[c].batch]
  /\ After(c, Continues(c))
  /\ UNCHANGED <<owner, vectors, turns, shaken, bounds>>

Refused(c) ==
  /\ call[c].at = "insert" /\ ~ Fits(c)
  /\ After(c, IF Swallowed(c) THEN Continues(c) ELSE "failed")
  /\ UNCHANGED <<owner, log, vectors, turns, shaken, bounds>>

(* The store raises, at the read of link_session too.                       *)
AppendFails(c) ==
  /\ call[c].at \in {"linking", "begin", "insert"}
  /\ faults < MaxFaults /\ faults' = faults + 1
  /\ After(c, IF Swallowed(c) THEN Continues(c) ELSE "failed")
  /\ shaken' = IF OfLink(c) THEN shaken \cup {call[c].user} ELSE shaken
  /\ UNCHANGED <<owner, log, vectors, turns, crashes>>

-----------------------------------------------------------------------------
(* POST /users and PATCH /users/{user_id}.                                  *)

CreateUser(c, u) ==
  /\ call[c] = Idle /\ log[u] = <<>>
  /\ call' = [call EXCEPT ![c] = Versioned(u, Nothing, 0, <<Created>>)]
  /\ UNCHANGED <<owner, log, vectors, turns, shaken, bounds>>

UpdateUser(c, u) ==
  /\ call[c] = Idle /\ log[u] # <<>>
  /\ call' = [call EXCEPT ![c] = Unversioned(u, Nothing, <<Updated>>)]
  /\ UNCHANGED <<owner, log, vectors, turns, shaken, bounds>>

-----------------------------------------------------------------------------
(* create_session: the session's own stream, then the link to its user.     *)

CreateSession(c, s, u) ==
  /\ call[c] = Idle /\ owner[s] = Nothing
  /\ call' = [call EXCEPT ![c] = At("starting", u, s)]
  /\ UNCHANGED <<owner, log, vectors, turns, shaken, bounds>>

StartSessionAgain(c) ==
  /\ call[c].at = "starting"
  /\ owner' = [owner EXCEPT ![call[c].session] = call[c].user] /\ Goes(c, "linking")
  /\ UNCHANGED <<log, vectors, turns, shaken, bounds>>

StartSession(c) ==
  /\ call[c].at = "starting"
  /\ LET s == call[c].session IN
     IF owner[s] = Nothing
       THEN owner' = [owner EXCEPT ![s] = call[c].user] /\ Goes(c, "linking")
       ELSE After(c, "failed") /\ UNCHANGED owner
  /\ UNCHANGED <<log, vectors, turns, shaken, bounds>>

LinkSessionUnversioned(c) ==
  /\ call[c].at = "linking"
  /\ LET link == Linked(call[c].session) IN
     call' = [call EXCEPT ![c] = Unversioned(@.user, @.session,
               IF log[call[c].user] = <<>> THEN <<Created, link>> ELSE <<link>>)]
  /\ UNCHANGED <<owner, log, vectors, turns, shaken, bounds>>

LinkSessionFromOne(c) ==
  /\ call[c].at = "linking"
  /\ LET link == Linked(call[c].session) IN
     call' = [call EXCEPT ![c] =
               IF log[call[c].user] = <<>> THEN Versioned(@.user, @.session, 1, <<Created, link>>)
               ELSE Unversioned(@.user, @.session, <<link>>)]
  /\ UNCHANGED <<owner, log, vectors, turns, shaken, bounds>>

(* link_session reads the user's stream and creates the user it is missing. *)
LinkSession(c) ==
  /\ call[c].at = "linking"
  /\ LET link == Linked(call[c].session) IN
     call' = [call EXCEPT ![c] =
               IF log[call[c].user] = <<>> THEN Versioned(@.user, @.session, 0, <<Created, link>>)
               ELSE Unversioned(@.user, @.session, <<link>>)]
  /\ UNCHANGED <<owner, log, vectors, turns, shaken, bounds>>

-----------------------------------------------------------------------------
(* A turn of a session, under the lock of the session.                      *)

Profiles(u) == {i \in DOMAIN log[u] : log[u][i].kind = "profile"}

(* profile_ema_128 in the user's index: the metadata of the latest update   *)
(* that has it.                                                             *)
Snapshot(u) ==
  IF Profiles(u) = {} THEN {}
  ELSE log[u][CHOOSE i \in Profiles(u) : \A j \in Profiles(u) : j <= i].turns

Mixing(s) ==
  \/ call[s].at \in {"index", "load"}
  \/ call[s].at \in {"begin", "insert"} /\ call[s].batch[1].kind = "profile"
Overlaps(u) == \E s \in Sessions : call[s].user = u /\ Mixing(s)

LoadedNever(u, snapshot) == vectors

(* The vectors as they are after load and update: load replaces them all by *)
(* the one that was restored.                                               *)
Loaded(u, snapshot) ==
  IF snapshot = {} THEN vectors
  ELSE [v \in Users |-> IF v = u THEN snapshot ELSE {}]

Mix(s, u, t, restored) ==
  LET vector == restored[u] \cup {t} IN
  /\ vectors' = [restored EXCEPT ![u] = vector]
  /\ call' = [call EXCEPT ![s] = Unversioned(u, s, <<Profile(s, vector)>>)]

(* process_turn as far as the profile: nothing is awaited when the process  *)
(* has a vector of the user.                                                *)
TakeTurn(s) ==
  LET u == owner[s] IN
  /\ u # Nothing /\ call[s] = Idle /\ turns[s] < MaxTurns
  /\ turns' = [turns EXCEPT ![s] = @ + 1]
  /\ shaken' = IF Overlaps(u) THEN shaken \cup {u} ELSE shaken
  /\ IF vectors[u] # {}
       THEN Mix(s, u, <<s, turns[s] + 1>>, vectors)
       ELSE /\ call' = [call EXCEPT ![s] = At("index", u, s)]
            /\ UNCHANGED vectors
  /\ UNCHANGED <<owner, log, bounds>>

(* get_user_index of restore_snapshot: the projection of everything that    *)
(* was appended before.                                                     *)
ReadIndex(s) ==
  /\ call[s].at = "index"
  /\ call' = [call EXCEPT ![s].at = "load", ![s].got = Snapshot(call[s].user)]
  /\ UNCHANGED <<owner, log, vectors, turns, shaken, bounds>>

(* Its failure is not told from a user without a profile.                   *)
IndexFails(s) ==
  /\ call[s].at = "index"
  /\ faults < MaxFaults /\ faults' = faults + 1
  /\ Goes(s, "load")
  /\ shaken' = shaken \cup {call[s].user}
  /\ UNCHANGED <<owner, log, vectors, turns, crashes>>

RestoreAhead(s) ==
  /\ call[s].at = "load"
  /\ LET u == call[s].user IN Mix(s, u, <<s, turns[s] + 1>>, Loaded(u, call[s].got))
  /\ UNCHANGED <<owner, log, turns, shaken, bounds>>

Restore(s) ==
  /\ call[s].at = "load"
  /\ LET u == call[s].user IN Mix(s, u, <<s, turns[s]>>, Loaded(u, call[s].got))
  /\ UNCHANGED <<owner, log, turns, shaken, bounds>>

(* A full turn writes the self state, one that is light or fails does not.  *)
Reflect(s) ==
  /\ call[s].at = "profiled"
  /\ call' = [call EXCEPT ![s] = Unversioned(@.user, s, <<Reflected(s)>>)]
  /\ UNCHANGED <<owner, log, vectors, turns, shaken, bounds>>

EndTurn(s) ==
  /\ call[s].at = "profiled"
  /\ call' = [call EXCEPT ![s] = Idle]
  /\ UNCHANGED <<owner, log, vectors, turns, shaken, bounds>>

-----------------------------------------------------------------------------
(* The process is gone with its vectors and all it was doing.               *)
Crash ==
  /\ crashes < MaxCrashes /\ crashes' = crashes + 1
  /\ vectors' = [u \in Users |-> {}]
  /\ call' = [c \in Callers |->
       IF c \in Sessions THEN Idle
       ELSE IF call[c].at \in {"idle", "answered"} THEN call[c]
       ELSE At("failed", Nothing, Nothing)]
  /\ UNCHANGED <<owner, log, turns, shaken, faults>>

AppendNext(c) == Begin(c) \/ Insert(c) \/ Refused(c) \/ AppendFails(c)
RequestNext(c) ==
  \/ \E u \in Users : CreateUser(c, u) \/ UpdateUser(c, u)
  \/ \E s \in Sessions, u \in Users : CreateSession(c, s, u)
  \/ StartSession(c) \/ LinkSession(c)
TurnNext(s) ==
  \/ TakeTurn(s) \/ ReadIndex(s) \/ IndexFails(s) \/ Restore(s)
  \/ Reflect(s) \/ EndTurn(s)
Next ==
  \/ \E c \in Callers : AppendNext(c)
  \/ \E c \in Requests : RequestNext(c)
  \/ \E s \in Sessions : TurnNext(s)
  \/ Crash
Spec == Init /\ [][Next]_vars

-----------------------------------------------------------------------------
(* Every stream, vector and call is well typed.                             *)
TypeOK ==
  /\ owner \in [Sessions -> Users \cup {Nothing}]
  /\ log \in [Users -> Seq(Event)]
  /\ vectors \in [Users -> SUBSET Turns]
  /\ turns \in [Sessions -> 0 .. MaxTurns]
  /\ call \in [Callers -> Call]
  /\ shaken \subseteq Users
  /\ faults \in 0 .. MaxFaults /\ crashes \in 0 .. MaxCrashes

(* A user is created once and before anything else is recorded of it,       *)
(* however many first sessions and requests find its stream empty.          *)
CreatedFirst ==
  \A u \in Users : \A i \in DOMAIN log[u] : log[u][i].kind = "created" => i = 1

(* A session is linked once, and to the user its own stream names: of two   *)
(* create_session calls for one session only the one that started it links. *)
LinkedIsStarted ==
  \A u \in Users : \A i, j \in DOMAIN log[u] :
    log[u][i].kind = "linked" =>
      /\ owner[log[u][i].session] = u
      /\ log[u][j].kind = "linked" /\ log[u][j].session = log[u][i].session => i = j

(* Once a request about a user has been answered the user is known, though  *)
(* a refused link is only logged: what overtook it has created the stream.  *)
(* Only a store that fails the link leaves the user unknown.                *)
AnsweredUserIsKnown ==
  \A c \in Requests :
    call[c].at = "answered" /\ call[c].user \notin shaken => log[call[c].user] # <<>>

(* A profile that is persisted has every turn of those persisted before it, *)
(* over restarts, refused appends and the restores of other users, which    *)
(* empty the store: unless two turns of the user were mixed in at a time,   *)
(* or its index could not be read, both of which lose turns for good.       *)
ProfilesGrow ==
  \A u \in Users \ shaken : \A i, j \in Profiles(u) :
    i <= j => log[u][i].turns \subseteq log[u][j].turns
=============================================================================
