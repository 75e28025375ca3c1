-------------------------- MODULE UserStreamProofs --------------------------
(***************************************************************************)
(* Safety of UserStream for any number of users, sessions and requests.    *)
(*                                                                         *)
(* A step changes the call of one caller, or all of them (Crash).  The     *)
(* lemmas about calls say what that caller is about to do afterwards, and  *)
(* the invariants are proved from them one at a time.                      *)
(***************************************************************************)
EXTENDS UserStream, TLAPS

(* What each caller is about to do: the batch of an append is one that its  *)
(* kind of caller writes, a batch that creates a user relies on an empty    *)
(* stream, and no append relies on more than there is.                      *)
RequestBatch(k) ==
  \/ k.batch = <<Updated>> /\ k.session = Nothing
  \/ k.batch = <<Created>> /\ k.session = Nothing /\ k.at = "insert" /\ k.base = 0
  \/ k.batch = <<Linked(k.session)>> /\ k.session \in Sessions
  \/ k.batch = <<Created, Linked(k.session)>> /\ k.session \in Sessions
     /\ k.at = "insert" /\ k.base = 0
TurnBatch(s, k) ==
  \/ k.batch = <<Reflected(s)>>
  \/ \E v \in SUBSET Turns : k.batch = <<Profile(s, v)>>
CallOK(c, k) ==
  /\ k.at \in {"starting", "linking"} =>
       c \notin Sessions /\ k.user \in Users /\ k.session \in Sessions
  /\ k.at \in {"index", "load", "profiled"} => c \in Sessions /\ k.user \in Users
  /\ k.at \in {"begin", "insert"} =>
       /\ k.user \in Users
       /\ c \in Sessions => TurnBatch(c, k)
       /\ c \notin Sessions => RequestBatch(k)
  /\ k.at = "answered" => c \notin Sessions /\ k.user \in Users
CallsOK ==
  \A c \in Callers :
    /\ CallOK(c, call[c])
    /\ call[c].at = "insert" => call[c].base <= Len(log[call[c].user])
    /\ call[c].at \in {"index", "load"} => turns[c] >= 1

(* A stream that has profiles has a latest one, which the index shows.      *)
HasLatest ==
  \A u \in Users : Profiles(u) # {} =>
    \E i \in Profiles(u) : \A j \in Profiles(u) : j <= i

-----------------------------------------------------------------------------
LEMMA EventTypes ==
  /\ Created \in Event /\ Updated \in Event
  /\ \A s \in Sessions : Linked(s) \in Event /\ Reflected(s) \in Event
  /\ \A s \in Sessions, v \in SUBSET Turns : Profile(s, v) \in Event
BY DEF Created, Updated, Linked, Reflected, Profile, Event, Kinds

LEMMA IdleType == Idle \in Call
BY DEF Idle, At, Call, Phases

LEMMA SnapshotIsLatest ==
  ASSUME TypeOK, HasLatest, NEW u \in Users
  PROVE  \/ Profiles(u) = {} /\ Snapshot(u) = {}
         \/ \E i \in Profiles(u) :
              (\A j \in Profiles(u) : j <= i) /\ Snapshot(u) = log[u][i].turns
BY DEF HasLatest, Snapshot

LEMMA EventTurns ==
  ASSUME TypeOK, NEW u \in Users, NEW i \in DOMAIN log[u]
  PROVE  log[u][i] \in Event /\ log[u][i].turns \in SUBSET Turns
<1>1. log[u][i] \in Event
  BY DEF TypeOK
<1> QED BY <1>1 DEF Event

LEMMA InitInvariant == Init => TypeOK /\ CallsOK /\ HasLatest
<1> SUFFICES ASSUME Init PROVE TypeOK /\ CallsOK /\ HasLatest
  OBVIOUS
<1>1. TypeOK
  BY IdleType, UserAssumption DEF Init, TypeOK
<1>2. CallsOK
  BY DEF Init, CallsOK, CallOK, Idle, At, Callers
<1>3. HasLatest
  BY DEF Init, HasLatest, Profiles
<1> QED BY <1>1, <1>2, <1>3

(* One caller's call is replaced.                                           *)
Becomes(c, k) == call' = [call EXCEPT ![c] = k]

Changes(c) == Becomes(c, call'[c])

LEMMA BeginChanges ==
  ASSUME TypeOK, CallsOK, NEW c \in Callers, Begin(c)
  PROVE  /\ Changes(c) /\ call'[c] \in Call /\ CallOK(c, call'[c])
         /\ call[c].at = "begin" /\ call'[c].at = "insert"
         /\ call'[c].base = Len(log[call'[c].user])
         /\ call'[c].batch = call[c].batch /\ call'[c].user = call[c].user
         /\ call'[c].session = call[c].session
<1> DEFINE k == [call[c] EXCEPT !.at = "insert", !.base = Len(log[call[c].user])]
<1>1. call[c] \in Call /\ CallOK(c, call[c]) /\ call[c].at = "begin"
  BY DEF Begin, TypeOK, CallsOK
<1>2. call[c].user \in Users
  BY <1>1 DEF CallOK
<1>3. Len(log[call[c].user]) \in Nat
  BY <1>2 DEF TypeOK
<1>4. k \in Call
  BY <1>1, <1>3 DEF Call, Phases
<1>5. /\ k.at = "insert" /\ k.base = Len(log[k.user]) /\ k.batch = call[c].batch
      /\ k.user = call[c].user /\ k.session = call[c].session
  BY <1>1 DEF Call
<1>6. CallOK(c, k)
  BY <1>1, <1>5 DEF CallOK, TurnBatch, RequestBatch
<1>7. call' = [call EXCEPT ![c] = k]
  BY <1>1 DEF Begin, TypeOK, Call
<1>8. call'[c] = k
  BY <1>7 DEF TypeOK
<1> QED BY <1>1, <1>4, <1>5, <1>6, <1>7, <1>8 DEF Changes, Becomes

LEMMA AfterChanges ==
  ASSUME TypeOK, CallsOK, NEW c \in Callers,
         call[c].at \in {"starting", "linking", "begin", "insert"},
         NEW phase \in {"idle", "profiled", "answered", "failed"}, After(c, phase),
         phase = "profiled" => c \in Sessions,
         phase = "answered" => c \notin Sessions
  PROVE  /\ Changes(c) /\ call'[c] \in Call /\ CallOK(c, call'[c])
         /\ call'[c].at = phase
         /\ phase \in {"profiled", "answered"} => call'[c].user = call[c].user
<1> DEFINE k == At(phase, IF phase \in {"profiled", "answered"} THEN call[c].user ELSE Nothing,
                   Nothing)
<1>1. CallOK(c, call[c])
  BY DEF CallsOK
<1>2. phase \in {"profiled", "answered"} => call[c].user \in Users
  BY <1>1 DEF CallOK
<1>3. k \in Call /\ k.at = phase
  BY <1>2 DEF At, Call, Phases
<1>4. phase \in {"profiled", "answered"} => k.user = call[c].user
  BY DEF At
<1>5. call' = [call EXCEPT ![c] = k]
  BY DEF After
<1>6. call'[c] = k
  BY <1>5 DEF TypeOK
<1> QED BY <1>2, <1>3, <1>4, <1>5, <1>6 DEF Changes, Becomes, CallOK

LEMMA InsertChanges ==
  ASSUME TypeOK, CallsOK, NEW c \in Callers, Insert(c) \/ Refused(c)
  PROVE  /\ Changes(c) /\ call'[c] \in Call /\ CallOK(c, call'[c])
         /\ call[c].at = "insert" /\ call[c].user \in Users
         /\ call'[c].at \in {"idle", "profiled", "answered", "failed"}
         /\ call'[c].at = "answered" => call'[c].user = call[c].user
<1>1. call[c].at = "insert" /\ CallOK(c, call[c])
  BY DEF Insert, Refused, CallsOK
<1>2. /\ Continues(c) \in {"idle", "profiled", "answered"}
      /\ Continues(c) = "profiled" => c \in Sessions
      /\ Continues(c) = "answered" => c \notin Sessions
  BY DEF Continues, OfTurn
<1>3. \E phase \in {"idle", "profiled", "answered", "failed"} :
        /\ After(c, phase)
        /\ phase = "profiled" => c \in Sessions
        /\ phase = "answered" => c \notin Sessions
  BY <1>2 DEF Insert, Refused
<1>4. call[c].user \in Users
  BY <1>1 DEF CallOK
<1> QED BY <1>1, <1>3, <1>4, AfterChanges

LEMMA FailChanges ==
  ASSUME TypeOK, CallsOK, NEW c \in Callers, AppendFails(c)
  PROVE  /\ Changes(c) /\ call'[c] \in Call /\ CallOK(c, call'[c])
         /\ call[c].user \in Users
         /\ call'[c].at \in {"idle", "profiled", "answered", "failed"}
         /\ call'[c].at = "answered" => call'[c].user = call[c].user /\ OfLink(c)
<1>1. call[c].at \in {"linking", "begin", "insert"} /\ CallOK(c, call[c])
  BY DEF AppendFails, CallsOK
<1>2. /\ Continues(c) \in {"idle", "profiled", "answered"}
      /\ Continues(c) = "profiled" => c \in Sessions
      /\ Continues(c) = "answered" => c \notin Sessions
  BY DEF Continues, OfTurn
<1>3. \E phase \in {"idle", "profiled", "answered", "failed"} :
        /\ After(c, phase)
        /\ phase = "profiled" => c \in Sessions
        /\ phase = "answered" => c \notin Sessions /\ OfLink(c)
  BY <1>2 DEF AppendFails, Swallowed, OfTurn
<1>4. call[c].user \in Users
  BY <1>1 DEF CallOK
<1> QED BY <1>1, <1>3, <1>4, AfterChanges

LEMMA RequestChanges ==
  ASSUME TypeOK, CallsOK, NEW c \in Requests, NEW u \in Users,
         \/ CreateUser(c, u) \/ UpdateUser(c, u)
         \/ \E s \in Sessions : CreateSession(c, s, u)
  PROVE  /\ Changes(c) /\ call'[c] \in Call /\ CallOK(c, call'[c])
         /\ call'[c].at \in {"insert", "begin", "starting"}
         /\ call'[c].at = "insert" => call'[c].base = 0
         /\ call'[c].at \in {"insert", "begin"} => call'[c].session = Nothing
<1> USE DEF Changes, Becomes
<1>1. c \in Callers /\ c \notin Sessions /\ call \in [Callers -> Call]
  BY UserAssumption DEF Callers, TypeOK
<1>2. CASE CreateUser(c, u)
  <2> DEFINE k == [at |-> "insert", user |-> u, session |-> Nothing,
                   base |-> 0, batch |-> <<Created>>, got |-> {}]
  <2>1. k \in Call
    BY EventTypes DEF Call, Phases
  <2>2. call' = [call EXCEPT ![c] = k]
    BY <1>2 DEF CreateUser, Versioned
  <2>3. call'[c] = k
    BY <1>1, <2>2
  <2> QED BY <1>1, <2>1, <2>2, <2>3 DEF CallOK, RequestBatch
<1>3. CASE UpdateUser(c, u)
  <2> DEFINE k == [at |-> "begin", user |-> u, session |-> Nothing,
                   base |-> 0, batch |-> <<Updated>>, got |-> {}]
  <2>1. k \in Call
    BY EventTypes DEF Call, Phases
  <2>2. call' = [call EXCEPT ![c] = k]
    BY <1>3 DEF UpdateUser, Unversioned
  <2>3. call'[c] = k
    BY <1>1, <2>2
  <2> QED BY <1>1, <2>1, <2>2, <2>3 DEF CallOK, RequestBatch
<1>4. ASSUME NEW s \in Sessions, CreateSession(c, s, u)
      PROVE  /\ Changes(c) /\ call'[c] \in Call /\ CallOK(c, call'[c])
             /\ call'[c].at = "starting"
  <2> DEFINE k == [at |-> "starting", user |-> u, session |-> s,
                   base |-> 0, batch |-> <<>>, got |-> {}]
  <2>1. k \in Call
    BY DEF Call, Phases
  <2>2. call' = [call EXCEPT ![c] = k]
    BY <1>4 DEF CreateSession, At
  <2>3. call'[c] = k
    BY <1>1, <2>2
  <2> QED BY <1>1, <2>1, <2>2, <2>3 DEF CallOK
<1> QED BY <1>2, <1>3, <1>4

LEMMA StartChanges ==
  ASSUME TypeOK, CallsOK, NEW c \in Requests, StartSession(c)
  PROVE  /\ Changes(c) /\ call'[c] \in Call /\ CallOK(c, call'[c])
         /\ call[c].at = "starting" /\ call[c].session \in Sessions /\ call[c].user \in Users
         /\ \/ /\ call'[c].at = "linking" /\ owner[call[c].session] = Nothing
               /\ owner' = [owner EXCEPT ![call[c].session] = call[c].user]
               /\ call'[c].session = call[c].session /\ call'[c].user = call[c].user
            \/ call'[c].at = "failed" /\ owner' = owner
<1>1. c \in Callers /\ call[c].at = "starting"
  BY DEF Callers, StartSession
<1>2. CallOK(c, call[c]) /\ call[c] \in Call
  BY <1>1 DEF CallsOK, TypeOK
<1>3. call[c].session \in Sessions /\ call[c].user \in Users /\ c \notin Sessions
  BY <1>1, <1>2 DEF CallOK
<1>4. CASE owner[call[c].session] = Nothing
  <2> DEFINE k == [call[c] EXCEPT !.at = "linking"]
  <2>1. k \in Call /\ k.at = "linking" /\ k.session = call[c].session /\ k.user = call[c].user
    BY <1>2 DEF Call, Phases
  <2>2. call' = [call EXCEPT ![c] = k]
    BY <1>4 DEF StartSession, Goes
  <2>3. call'[c] = k
    BY <1>1, <2>2 DEF TypeOK
  <2>4. CallOK(c, k)
    BY <1>3, <2>1 DEF CallOK
  <2>5. owner' = [owner EXCEPT ![call[c].session] = call[c].user]
    BY <1>4 DEF StartSession
  <2> QED BY <1>1, <1>3, <1>4, <2>1, <2>2, <2>3, <2>4, <2>5 DEF Changes, Becomes
<1>5. CASE owner[call[c].session] # Nothing
  <2>1. After(c, "failed") /\ owner' = owner
    BY <1>5 DEF StartSession
  <2> QED BY <1>1, <1>3, <2>1, AfterChanges
<1> QED BY <1>4, <1>5

LEMMA LinkChanges ==
  ASSUME TypeOK, CallsOK, NEW c \in Requests, LinkSession(c)
  PROVE  /\ Changes(c) /\ call'[c] \in Call /\ CallOK(c, call'[c])
         /\ call[c].at = "linking" /\ call'[c].at \in {"begin", "insert"}
         /\ call'[c].at = "insert" => call'[c].base = 0
         /\ call'[c].session = call[c].session /\ call'[c].user = call[c].user
<1>1. c \in Callers /\ call[c].at = "linking"
  BY DEF Callers, LinkSession
<1>2. CallOK(c, call[c])
  BY <1>1 DEF CallsOK
<1> DEFINE u == call[c].user
           s == call[c].session
<1>3. s \in Sessions /\ u \in Users /\ c \notin Sessions
  BY <1>1, <1>2 DEF CallOK
<1>4. CASE log[u] = <<>>
  <2> DEFINE k == [at |-> "insert", user |-> u, session |-> s, base |-> 0,
                   batch |-> <<Created, Linked(s)>>, got |-> {}]
  <2>1. <<Created, Linked(s)>> \in Seq(Event)
    BY <1>3, EventTypes
  <2>2. k \in Call
    BY <1>3, <2>1 DEF Call, Phases
  <2>3. call' = [call EXCEPT ![c] = k]
    BY <1>4 DEF LinkSession, Versioned
  <2>4. call'[c] = k
    BY <1>1, <2>3 DEF TypeOK
  <2>5. RequestBatch(k)
    BY <1>3 DEF RequestBatch
  <2>6. /\ k.at \in {"begin", "insert"} /\ k.user = u /\ k.session = s
        /\ k.at = "insert" => k.base = 0
    OBVIOUS
  <2>7. Changes(c)
    BY <2>3, <2>4 DEF Changes, Becomes
  <2> HIDE DEF k
  <2>8. CallOK(c, k)
    BY <1>3, <2>5, <2>6 DEF CallOK
  <2> QED BY <1>1, <2>2, <2>4, <2>6, <2>7, <2>8
<1>5. CASE log[u] # <<>>
  <2> DEFINE k == [at |-> "begin", user |-> u, session |-> s, base |-> 0,
                   batch |-> <<Linked(s)>>, got |-> {}]
  <2>1. <<Linked(s)>> \in Seq(Event)
    BY <1>3, EventTypes
  <2>2. k \in Call
    BY <1>3, <2>1 DEF Call, Phases
  <2>3. call' = [call EXCEPT ![c] = k]
    BY <1>5 DEF LinkSession, Unversioned
  <2>4. call'[c] = k
    BY <1>1, <2>3 DEF TypeOK
  <2>5. RequestBatch(k)
    BY <1>3 DEF RequestBatch
  <2>6. /\ k.at \in {"begin", "insert"} /\ k.user = u /\ k.session = s
        /\ k.at = "insert" => k.base = 0
    OBVIOUS
  <2>7. Changes(c)
    BY <2>3, <2>4 DEF Changes, Becomes
  <2> HIDE DEF k
  <2>8. CallOK(c, k)
    BY <1>3, <2>5, <2>6 DEF CallOK
  <2> QED BY <1>1, <2>2, <2>4, <2>6, <2>7, <2>8
<1> QED BY <1>4, <1>5

(* Mixing a turn into what the process has, or has restored.                *)
LEMMA MixChanges ==
  ASSUME TypeOK, NEW s \in Sessions, NEW u \in Users, NEW t \in Turns,
         NEW restored \in [Users -> SUBSET Turns], Mix(s, u, t, restored)
  PROVE  /\ Changes(s) /\ call'[s] \in Call /\ CallOK(s, call'[s])
         /\ call'[s].at = "begin" /\ call'[s].user = u
         /\ call'[s].batch = <<Profile(s, restored[u] \cup {t})>>
         /\ vectors' = [restored EXCEPT ![u] = restored[u] \cup {t}]
         /\ vectors' \in [Users -> SUBSET Turns]
<1> DEFINE v == restored[u] \cup {t}
           k == [at |-> "begin", user |-> u, session |-> s, base |-> 0,
                 batch |-> <<Profile(s, v)>>, got |-> {}]
<1>1. v \in SUBSET Turns
  OBVIOUS
<1>2. <<Profile(s, v)>> \in Seq(Event)
  BY <1>1, EventTypes
<1>3. k \in Call
  BY <1>2 DEF Call, Phases
<1>4. call' = [call EXCEPT ![s] = k]
  BY DEF Mix, Unversioned
<1>5. call'[s] = k
  BY <1>4 DEF TypeOK, Callers
<1>6. CallOK(s, k)
  BY <1>1 DEF CallOK, TurnBatch
<1>7. vectors' = [restored EXCEPT ![u] = v]
  BY DEF Mix
<1>8. vectors' \in [Users -> SUBSET Turns]
  BY <1>1, <1>7
<1>9. k.at = "begin" /\ k.user = u /\ k.batch = <<Profile(s, v)>>
  OBVIOUS
<1>10. Changes(s)
  BY <1>4, <1>5 DEF Changes, Becomes
<1> HIDE DEF k
<1> QED BY <1>3, <1>5, <1>6, <1>7, <1>8, <1>9, <1>10

LEMMA LoadedType ==
  ASSUME TypeOK, NEW u \in Users, NEW snapshot \in SUBSET Turns
  PROVE  Loaded(u, snapshot) \in [Users -> SUBSET Turns]
BY DEF TypeOK, Loaded

LEMMA TakeTurnChanges ==
  ASSUME TypeOK, CallsOK, NEW s \in Sessions, TakeTurn(s)
  PROVE  /\ Changes(s) /\ call'[s] \in Call /\ CallOK(s, call'[s])
         /\ call[s].at = "idle" /\ call'[s].user = owner[s] /\ owner[s] \in Users
         /\ turns' \in [Sessions -> 0 .. MaxTurns] /\ turns'[s] >= 1
         /\ \A r \in Sessions : turns'[r] >= turns[r]
         /\ vectors' \in [Users -> SUBSET Turns]
         /\ \/ /\ vectors[owner[s]] # {} /\ call'[s].at = "begin"
               /\ \E v \in SUBSET Turns :
                    /\ vectors[owner[s]] \subseteq v
                    /\ call'[s].batch = <<Profile(s, v)>>
                    /\ vectors' = [vectors EXCEPT ![owner[s]] = v]
            \/ call'[s].at = "index" /\ vectors' = vectors
<1> DEFINE u == owner[s]
           n == turns[s] + 1
<1>1. u \in Users /\ call[s].at = "idle" /\ turns[s] < MaxTurns /\ s \in Callers
  BY DEF TakeTurn, TypeOK, Idle, At, Callers
<1>2. turns[s] \in 0 .. MaxTurns /\ MaxTurns \in Nat
  BY UserAssumption DEF TypeOK
<1>3. n \in 1 .. MaxTurns
  BY <1>1, <1>2
<1>4. <<s, n>> \in Turns
  BY <1>3 DEF Turns
<1>5. turns' = [turns EXCEPT ![s] = n]
  BY DEF TakeTurn
<1>6. /\ turns' \in [Sessions -> 0 .. MaxTurns] /\ turns'[s] >= 1
      /\ \A r \in Sessions : turns'[r] >= turns[r]
  BY <1>2, <1>3, <1>5 DEF TypeOK
<1>7. vectors \in [Users -> SUBSET Turns]
  BY DEF TypeOK
<1>8. CASE vectors[u] # {}
  <2>1. Mix(s, u, <<s, n>>, vectors)
    BY <1>8 DEF TakeTurn
  <2>2. /\ Changes(s) /\ call'[s] \in Call /\ CallOK(s, call'[s])
        /\ call'[s].at = "begin" /\ call'[s].user = u
        /\ call'[s].batch = <<Profile(s, vectors[u] \cup {<<s, n>>})>>
        /\ vectors' = [vectors EXCEPT ![u] = vectors[u] \cup {<<s, n>>}]
        /\ vectors' \in [Users -> SUBSET Turns]
    BY <1>1, <1>4, <1>7, <2>1, MixChanges
  <2>3. vectors[u] \cup {<<s, n>>} \in SUBSET Turns
    BY <1>1, <1>4, <1>7
  <2> QED BY <1>1, <1>6, <1>8, <2>2, <2>3
<1>9. CASE vectors[u] = {}
  <2> DEFINE k == At("index", u, s)
  <2>1. k \in Call /\ k.at = "index" /\ k.user = u
    BY <1>1 DEF At, Call, Phases
  <2>2. call' = [call EXCEPT ![s] = k] /\ vectors' = vectors
    BY <1>9 DEF TakeTurn
  <2>3. call'[s] = k
    BY <1>1, <2>2 DEF TypeOK
  <2>4. CallOK(s, k)
    BY <1>1, <2>1 DEF CallOK
  <2> QED BY <1>1, <1>6, <1>7, <2>1, <2>2, <2>3, <2>4 DEF Changes, Becomes
<1> QED BY <1>8, <1>9

LEMMA ReadChanges ==
  ASSUME TypeOK, CallsOK, HasLatest, NEW s \in Sessions, ReadIndex(s) \/ IndexFails(s)
  PROVE  /\ Changes(s) /\ call'[s] \in Call /\ CallOK(s, call'[s])
         /\ call[s].at = "index" /\ call'[s].at = "load"
         /\ call[s].user \in Users /\ call'[s].user = call[s].user
         /\ ReadIndex(s) => call'[s].got = Snapshot(call[s].user)
<1>1. s \in Callers /\ call[s].at = "index"
  BY DEF Callers, ReadIndex, IndexFails
<1>2. call[s] \in Call /\ call[s].user \in Users
  BY <1>1 DEF CallsOK, CallOK, TypeOK
<1>3. Snapshot(call[s].user) \in SUBSET Turns
  BY <1>2, SnapshotIsLatest, EventTurns DEF Profiles
<1>4. CASE ReadIndex(s)
  <2> DEFINE k == [call[s] EXCEPT !.at = "load", !.got = Snapshot(call[s].user)]
  <2>1. /\ k \in Call /\ k.at = "load" /\ k.user = call[s].user
        /\ k.got = Snapshot(call[s].user)
    BY <1>2, <1>3 DEF Call, Phases
  <2>2. call' = [call EXCEPT ![s] = k]
    BY <1>1, <1>4 DEF ReadIndex, TypeOK, Call
  <2>3. call'[s] = k
    BY <1>1, <2>2 DEF TypeOK
  <2>4. CallOK(s, k)
    BY <1>2, <2>1 DEF CallOK
  <2> QED BY <1>1, <1>2, <2>1, <2>2, <2>3, <2>4 DEF Changes, Becomes
<1>5. CASE IndexFails(s) /\ ~ ReadIndex(s)
  <2> DEFINE k == [call[s] EXCEPT !.at = "load"]
  <2>1. k \in Call /\ k.at = "load" /\ k.user = call[s].user
    BY <1>2 DEF Call, Phases
  <2>2. call' = [call EXCEPT ![s] = k]
    BY <1>5 DEF IndexFails, Goes
  <2>3. call'[s] = k
    BY <1>1, <2>2 DEF TypeOK
  <2>4. CallOK(s, k)
    BY <1>2, <2>1 DEF CallOK
  <2> QED BY <1>1, <1>2, <1>5, <2>1, <2>2, <2>3, <2>4 DEF Changes, Becomes
<1> QED BY <1>4, <1>5

LEMMA RestoreChanges ==
  ASSUME TypeOK, CallsOK, NEW s \in Sessions, Restore(s)
  PROVE  /\ Changes(s) /\ call'[s] \in Call /\ CallOK(s, call'[s])
         /\ call[s].at = "load" /\ call'[s].at = "begin"
         /\ call[s].user \in Users /\ call'[s].user = call[s].user
         /\ vectors' \in [Users -> SUBSET Turns]
         /\ \E v \in SUBSET Turns :
              /\ call[s].got \subseteq v
              /\ call[s].got = {} => vectors[call[s].user] \subseteq v
              /\ call'[s].batch = <<Profile(s, v)>>
              /\ vectors'[call[s].user] = v
              /\ \A u \in Users : u # call[s].user => vectors'[u] \in {vectors[u], {}}
<1> DEFINE u == call[s].user
           g == call[s].got
           t == <<s, turns[s]>>
           w == Loaded(u, g)
           v == w[u] \cup {t}
<1>1. s \in Callers /\ call[s].at = "load" /\ Mix(s, u, t, w)
  BY DEF Callers, Restore
<1>2. u \in Users /\ g \in SUBSET Turns /\ turns[s] >= 1
  BY <1>1 DEF CallsOK, CallOK, TypeOK, Call
<1>3. t \in Turns
  BY <1>2, UserAssumption DEF TypeOK, Turns
<1>4. w \in [Users -> SUBSET Turns]
  BY <1>2, LoadedType
<1>5. /\ g \subseteq w[u]
      /\ g = {} => w[u] = vectors[u]
      /\ \A x \in Users : x # u => w[x] \in {vectors[x], {}}
  BY <1>2 DEF Loaded, TypeOK
<1>6. /\ Changes(s) /\ call'[s] \in Call /\ CallOK(s, call'[s])
      /\ call'[s].at = "begin" /\ call'[s].user = u
      /\ call'[s].batch = <<Profile(s, v)>>
      /\ vectors' = [w EXCEPT ![u] = v]
      /\ vectors' \in [Users -> SUBSET Turns]
  BY <1>1, <1>2, <1>3, <1>4, MixChanges
<1>7. v \in SUBSET Turns
  BY <1>2, <1>3, <1>4
<1>8. vectors'[u] = v /\ \A x \in Users : x # u => vectors'[x] = w[x]
  BY <1>2, <1>4, <1>6
<1>9. g \subseteq v /\ (g = {} => vectors[u] \subseteq v)
  BY <1>5
<1> HIDE DEF v, w, g
<1>10. \A x \in Users : x # u => vectors'[x] \in {vectors[x], {}}
  BY <1>5, <1>8
<1>11. g = call[s].got
  BY DEF g
<1> QED BY <1>1, <1>2, <1>6, <1>7, <1>8, <1>9, <1>10, <1>11

LEMMA EndChanges ==
  ASSUME TypeOK, CallsOK, NEW s \in Sessions, Reflect(s) \/ EndTurn(s)
  PROVE  /\ Changes(s) /\ call'[s] \in Call /\ CallOK(s, call'[s])
         /\ \/ call'[s].at = "idle"
            \/ call'[s].at = "begin" /\ call'[s].batch = <<Reflected(s)>>
<1>1. s \in Callers /\ call[s].at = "profiled"
  BY DEF Callers, Reflect, EndTurn
<1>2. call[s].user \in Users
  BY <1>1 DEF CallsOK, CallOK
<1>3. CASE Reflect(s)
  <2> DEFINE k == [at |-> "begin", user |-> call[s].user, session |-> s, base |-> 0,
                   batch |-> <<Reflected(s)>>, got |-> {}]
  <2>1. <<Reflected(s)>> \in Seq(Event)
    BY EventTypes
  <2>2. k \in Call
    BY <1>2, <2>1 DEF Call, Phases
  <2>3. call' = [call EXCEPT ![s] = k]
    BY <1>3 DEF Reflect, Unversioned
  <2>4. call'[s] = k
    BY <1>1, <2>3 DEF TypeOK
  <2>5. CallOK(s, k)
    BY <1>2 DEF CallOK, TurnBatch
  <2>6. Changes(s)
    BY <2>3, <2>4 DEF Changes, Becomes
  <2>7. k.at = "begin" /\ k.batch = <<Reflected(s)>>
    OBVIOUS
  <2> HIDE DEF k
  <2> QED BY <2>2, <2>4, <2>5, <2>6, <2>7
<1>4. CASE EndTurn(s)
  <2>1. call' = [call EXCEPT ![s] = Idle]
    BY <1>4 DEF EndTurn
  <2>2. call'[s] = Idle
    BY <1>1, <2>1 DEF TypeOK
  <2>3. CallOK(s, Idle) /\ Idle.at = "idle"
    BY DEF CallOK, Idle, At
  <2> QED BY <2>1, <2>2, <2>3, IdleType DEF Changes, Becomes
<1> QED BY <1>3, <1>4

-----------------------------------------------------------------------------
LEMMA Appended ==
  ASSUME NEW S, NEW a \in Seq(S), NEW b \in Seq(S)
  PROVE  /\ a \o b \in Seq(S) /\ Len(a \o b) = Len(a) + Len(b)
         /\ Len(a) \in Nat /\ Len(b) \in Nat /\ Len(a \o b) >= Len(a)
         /\ DOMAIN (a \o b) = 1 .. Len(a \o b)
         /\ DOMAIN a = 1 .. Len(a)
         /\ \A i \in DOMAIN (a \o b) :
              IF i \in DOMAIN a THEN (a \o b)[i] = a[i]
              ELSE i - Len(a) \in DOMAIN b /\ (a \o b)[i] = b[i - Len(a)]
OBVIOUS

(* The batches of all callers have one event or two.                        *)
LEMMA Batches ==
  ASSUME NEW c \in Callers, NEW k \in Call, CallOK(c, k), k.at \in {"begin", "insert"}
  PROVE  k.batch # <<>> /\ k.batch \in Seq(Event)
<1>1. k.batch \in Seq(Event)
  BY DEF Call
<1>0. \A x, y : <<x>> # <<>> /\ <<x, y>> # <<>>
  OBVIOUS
<1>2. CASE c \in Sessions
  <2>1. TurnBatch(c, k)
    BY <1>2 DEF CallOK
  <2> QED BY <1>0, <1>1, <2>1, Zenon DEF TurnBatch
<1>3. CASE c \notin Sessions
  <2>1. RequestBatch(k)
    BY <1>3 DEF CallOK
  <2> QED BY <1>0, <1>1, <2>1, Zenon DEF RequestBatch
<1> QED BY <1>1, <1>2, <1>3

(* What an insert leaves of the streams.                                    *)
LEMMA InsertLogs ==
  ASSUME TypeOK, CallsOK, NEW c \in Callers, Insert(c)
  PROVE  /\ call[c].user \in Users /\ call[c].batch \in Seq(Event)
         /\ call[c].base = Len(log[call[c].user]) /\ call[c].batch # <<>>
         /\ log' \in [Users -> Seq(Event)]
         /\ log'[call[c].user] = log[call[c].user] \o call[c].batch
         /\ \A u \in Users : u # call[c].user => log'[u] = log[u]
         /\ \A u \in Users : Len(log'[u]) >= Len(log[u])
<1>1. call[c].at = "insert" /\ CallOK(c, call[c]) /\ call[c] \in Call /\ Fits(c)
  BY DEF Insert, CallsOK, TypeOK
<1>2. call[c].user \in Users /\ call[c].batch \in Seq(Event)
  BY <1>1 DEF CallOK, Call
<1>3. call[c].batch # <<>>
  BY <1>1, Batches
<1>4. log' = [log EXCEPT ![call[c].user] = log[call[c].user] \o call[c].batch]
  BY DEF Insert
<1>5. log \in [Users -> Seq(Event)]
  BY DEF TypeOK
<1>6. log[call[c].user] \o call[c].batch \in Seq(Event)
  BY <1>2, <1>5
<1>a. log[call[c].user] \in Seq(Event)
  BY <1>2, <1>5
<1>7. Len(log[call[c].user] \o call[c].batch) >= Len(log[call[c].user])
  <2>1. \A a, b \in Seq(Event) : Len(a \o b) >= Len(a)
    BY Appended
  <2> QED BY <1>2, <1>a, <2>1
<1>8. \A u \in Users : Len(log[u]) \in Nat
  BY <1>5
<1>9. /\ log' \in [Users -> Seq(Event)]
      /\ log'[call[c].user] = log[call[c].user] \o call[c].batch
      /\ \A u \in Users : u # call[c].user => log'[u] = log[u]
  BY <1>2, <1>4, <1>5, <1>6
<1>10. ASSUME NEW u \in Users PROVE Len(log'[u]) >= Len(log[u])
  <2>1. CASE u = call[c].user
    BY <1>7, <1>9, <2>1
  <2>2. CASE u # call[c].user
    BY <1>8, <1>9, <2>2
  <2> QED BY <2>1, <2>2
<1>11. call[c].base = Len(log[call[c].user])
  BY <1>1 DEF Fits
<1> QED BY <1>2, <1>3, <1>9, <1>10, <1>11

LEMMA BecomesType ==
  ASSUME TypeOK, NEW c \in Callers, Changes(c), call'[c] \in Call
  PROVE  call' \in [Callers -> Call]
BY DEF TypeOK, Changes, Becomes

LEMMA TypeStep == TypeOK /\ CallsOK /\ HasLatest /\ [Next]_vars => TypeOK'
<1> SUFFICES ASSUME TypeOK, CallsOK, HasLatest, [Next]_vars PROVE TypeOK'
  OBVIOUS
<1>1. ASSUME NEW c \in Callers, AppendNext(c) PROVE TypeOK'
  <2>1. CASE Begin(c)
    <3>1. call' \in [Callers -> Call]
      BY <2>1, BeginChanges, BecomesType
    <3> QED BY <2>1, <3>1 DEF Begin, TypeOK, bounds
  <2>2. CASE Insert(c)
    <3>1. call' \in [Callers -> Call]
      BY <2>2, InsertChanges, BecomesType
    <3>2. log' \in [Users -> Seq(Event)]
      BY <2>2, InsertLogs
    <3> QED BY <2>2, <3>1, <3>2 DEF Insert, TypeOK, bounds
  <2>3. CASE Refused(c)
    <3>1. call' \in [Callers -> Call]
      BY <2>3, InsertChanges, BecomesType
    <3> QED BY <2>3, <3>1 DEF Refused, TypeOK, bounds
  <2>4. CASE AppendFails(c)
    <3>1. call' \in [Callers -> Call] /\ call[c].user \in Users
      BY <2>4, FailChanges, BecomesType
    <3>2. shaken' \subseteq Users
      BY <2>4, <3>1 DEF AppendFails, TypeOK
    <3> QED BY <2>4, <3>1, <3>2, UserAssumption DEF AppendFails, TypeOK
  <2> QED BY <1>1, <2>1, <2>2, <2>3, <2>4 DEF AppendNext
<1>2. ASSUME NEW c \in Requests, RequestNext(c) PROVE TypeOK'
  <2>0. c \in Callers
    BY DEF Callers
  <2>1. ASSUME NEW u \in Users,
               CreateUser(c, u) \/ UpdateUser(c, u) \/ \E s \in Sessions : CreateSession(c, s, u)
        PROVE  TypeOK'
    <3>1. call' \in [Callers -> Call]
      BY <2>0, <2>1, RequestChanges, BecomesType
    <3> QED BY <2>1, <3>1 DEF CreateUser, UpdateUser, CreateSession, TypeOK, bounds
  <2>2. CASE StartSession(c)
    <3>1. call' \in [Callers -> Call]
      BY <2>0, <2>2, StartChanges, BecomesType
    <3>2. owner' \in [Sessions -> Users \cup {Nothing}]
      <4>1. \/ /\ call[c].user \in Users
               /\ owner' = [owner EXCEPT ![call[c].session] = call[c].user]
            \/ owner' = owner
        BY <2>2, StartChanges
      <4> QED BY <4>1 DEF TypeOK
    <3> QED BY <2>2, <3>1, <3>2 DEF StartSession, TypeOK, bounds
  <2>3. CASE LinkSession(c)
    <3>1. call' \in [Callers -> Call]
      BY <2>0, <2>3, LinkChanges, BecomesType
    <3> QED BY <2>3, <3>1 DEF LinkSession, TypeOK, bounds
  <2> QED BY <1>2, <2>1, <2>2, <2>3 DEF RequestNext
<1>3. ASSUME NEW s \in Sessions, TurnNext(s) PROVE TypeOK'
  <2>0. s \in Callers
    BY DEF Callers
  <2>1. CASE TakeTurn(s)
    <3>1. call' \in [Callers -> Call]
      BY <2>0, <2>1, TakeTurnChanges, BecomesType
    <3>2. vectors' \in [Users -> SUBSET Turns] /\ turns' \in [Sessions -> 0 .. MaxTurns]
      BY <2>1, TakeTurnChanges
    <3>3. shaken' \subseteq Users
      BY <2>1 DEF TakeTurn, TypeOK
    <3> QED BY <2>1, <3>1, <3>2, <3>3 DEF TakeTurn, TypeOK, bounds
  <2>2. CASE ReadIndex(s)
    <3>1. call' \in [Callers -> Call]
      BY <2>0, <2>2, ReadChanges, BecomesType
    <3> QED BY <2>2, <3>1 DEF ReadIndex, TypeOK, bounds
  <2>3. CASE IndexFails(s)
    <3>1. call' \in [Callers -> Call] /\ call[s].user \in Users
      BY <2>0, <2>3, ReadChanges, BecomesType
    <3> QED BY <2>3, <3>1, UserAssumption DEF IndexFails, TypeOK
  <2>4. CASE Restore(s)
    <3>1. call' \in [Callers -> Call] /\ vectors' \in [Users -> SUBSET Turns]
      BY <2>0, <2>4, RestoreChanges, BecomesType
    <3> QED BY <2>4, <3>1 DEF Restore, TypeOK, bounds
  <2>5. CASE Reflect(s) \/ EndTurn(s)
    <3>1. call' \in [Callers -> Call]
      BY <2>0, <2>5, EndChanges, BecomesType
    <3> QED BY <2>5, <3>1 DEF Reflect, EndTurn, TypeOK, bounds
  <2> QED BY <1>3, <2>1, <2>2, <2>3, <2>4, <2>5 DEF TurnNext
<1>4. CASE Crash
  <2>1. At("failed", Nothing, Nothing) \in Call
    BY DEF At, Call, Phases
  <2>2. call' \in [Callers -> Call]
    BY <1>4, <2>1, IdleType DEF Crash, TypeOK
  <2>3. vectors' \in [Users -> SUBSET Turns]
    BY <1>4 DEF Crash
  <2> QED BY <1>4, <2>2, <2>3, UserAssumption DEF Crash, TypeOK
<1>5. CASE UNCHANGED vars
  BY <1>5 DEF vars, bounds, TypeOK
<1> QED BY <1>1, <1>2, <1>3, <1>4, <1>5 DEF Next

-----------------------------------------------------------------------------
(* The invariant about calls.                                               *)
LEMMA CallsKept ==
  ASSUME TypeOK, CallsOK, NEW c \in Callers, Changes(c), CallOK(c, call'[c]),
         call'[c].at = "insert" => call'[c].base <= Len(log'[call'[c].user]),
         call'[c].at \in {"index", "load"} => turns'[c] >= 1,
         \A u \in Users : Len(log[u]) <= Len(log'[u]),
         \A u \in Users : Len(log[u]) \in Nat /\ Len(log'[u]) \in Nat,
         \A s \in Sessions : turns[s] <= turns'[s],
         \A s \in Sessions : turns[s] \in Nat /\ turns'[s] \in Nat
  PROVE  CallsOK'
<1> SUFFICES ASSUME NEW d \in Callers
             PROVE  /\ CallOK(d, call'[d])
                    /\ call'[d].at = "insert" => call'[d].base <= Len(log'[call'[d].user])
                    /\ call'[d].at \in {"index", "load"} => turns'[d] >= 1
  BY DEF CallsOK
<1>1. CASE d = c
  BY <1>1
<1>2. CASE d # c
  <2>1. call'[d] = call[d]
    BY <1>2 DEF Changes, Becomes, TypeOK
  <2>2. /\ CallOK(d, call[d])
        /\ call[d].at = "insert" => call[d].base <= Len(log[call[d].user])
        /\ call[d].at \in {"index", "load"} => turns[d] >= 1
    BY DEF CallsOK
  <2>3. call[d].at = "insert" => call[d].user \in Users /\ call[d].base \in Nat
    BY <2>2 DEF CallOK, TypeOK, Call
  <2>4. call[d].at \in {"index", "load"} => d \in Sessions
    BY <2>2 DEF CallOK
  <2> QED BY <2>1, <2>2, <2>3, <2>4
<1> QED BY <1>1, <1>2

LEMMA Lengths ==
  ASSUME TypeOK
  PROVE  /\ \A u \in Users : Len(log[u]) \in Nat /\ Len(log[u]) <= Len(log[u])
         /\ \A s \in Sessions : turns[s] \in Nat /\ turns[s] <= turns[s]
<1>1. ASSUME NEW u \in Users PROVE Len(log[u]) \in Nat
  BY DEF TypeOK
<1>2. ASSUME NEW s \in Sessions PROVE turns[s] \in Nat
  BY UserAssumption DEF TypeOK
<1> QED BY <1>1, <1>2

LEMMA CallsStep == TypeOK /\ CallsOK /\ HasLatest /\ [Next]_vars => CallsOK'
<1> SUFFICES ASSUME TypeOK, CallsOK, HasLatest, [Next]_vars PROVE CallsOK'
  OBVIOUS
<1> USE Lengths
<1>0. Requests \subseteq Callers /\ Sessions \subseteq Callers
  BY DEF Callers
<1>1. ASSUME NEW c \in Callers, AppendNext(c) PROVE CallsOK'
  <2>1. CASE Begin(c)
    <3>1. log' = log /\ turns' = turns
      BY <2>1 DEF Begin
    <3>2. call[c].user \in Users
      BY <2>1 DEF Begin, CallsOK, CallOK
    <3> QED BY <2>1, <3>1, <3>2, BeginChanges, CallsKept
  <2>2. CASE Insert(c)
    <3>1. turns' = turns
      BY <2>2 DEF Insert
    <3>2. log' \in [Users -> Seq(Event)]
      BY <2>2, InsertLogs
    <3>3. ASSUME NEW u \in Users PROVE Len(log'[u]) \in Nat /\ Len(log[u]) <= Len(log'[u])
      <4>1. Len(log'[u]) >= Len(log[u]) /\ Len(log[u]) \in Nat
        BY <2>2, InsertLogs
      <4>2. Len(log'[u]) \in Nat
        BY <3>2
      <4> QED BY <4>1, <4>2
    <3> QED BY <2>2, <3>1, <3>3, InsertChanges, CallsKept
  <2>3. CASE Refused(c)
    <3>1. log' = log /\ turns' = turns
      BY <2>3 DEF Refused
    <3> QED BY <2>3, <3>1, InsertChanges, CallsKept
  <2>4. CASE AppendFails(c)
    <3>1. log' = log /\ turns' = turns
      BY <2>4 DEF AppendFails
    <3> QED BY <2>4, <3>1, FailChanges, CallsKept
  <2> QED BY <1>1, <2>1, <2>2, <2>3, <2>4 DEF AppendNext
<1>2. ASSUME NEW c \in Requests, RequestNext(c) PROVE CallsOK'
  <2>1. ASSUME NEW u \in Users,
               CreateUser(c, u) \/ UpdateUser(c, u) \/ \E s \in Sessions : CreateSession(c, s, u)
        PROVE  CallsOK'
    <3>1. log' = log /\ turns' = turns
      BY <2>1 DEF CreateUser, UpdateUser, CreateSession
    <3>2. /\ Changes(c) /\ CallOK(c, call'[c])
          /\ call'[c].at \in {"insert", "begin", "starting"}
          /\ call'[c].at = "insert" => call'[c].base = 0
      BY <2>1, RequestChanges
    <3>3. call'[c].at = "insert" => call'[c].user \in Users
      BY <3>2 DEF CallOK
    <3> QED BY <1>0, <3>1, <3>2, <3>3, CallsKept
  <2>2. CASE StartSession(c)
    <3>1. log' = log /\ turns' = turns
      BY <2>2 DEF StartSession
    <3> QED BY <1>0, <2>2, <3>1, StartChanges, CallsKept
  <2>3. CASE LinkSession(c)
    <3>1. log' = log /\ turns' = turns
      BY <2>3 DEF LinkSession
    <3>2. /\ Changes(c) /\ CallOK(c, call'[c])
          /\ call'[c].at \in {"insert", "begin"}
          /\ call'[c].at = "insert" => call'[c].base = 0
      BY <2>3, LinkChanges
    <3>3. call'[c].at = "insert" => call'[c].user \in Users
      BY <3>2 DEF CallOK
    <3> QED BY <1>0, <3>1, <3>2, <3>3, CallsKept
  <2> QED BY <1>2, <2>1, <2>2, <2>3 DEF RequestNext
<1>3. ASSUME NEW s \in Sessions, TurnNext(s) PROVE CallsOK'
  <2>1. CASE TakeTurn(s)
    <3>1. log' = log
      BY <2>1 DEF TakeTurn
    <3>2. /\ Changes(s) /\ CallOK(s, call'[s]) /\ turns'[s] >= 1
          /\ call'[s].at \in {"begin", "index"}
          /\ turns' \in [Sessions -> 0 .. MaxTurns]
          /\ \A r \in Sessions : turns'[r] >= turns[r]
      BY <2>1, TakeTurnChanges
    <3>3. ASSUME NEW r \in Sessions PROVE turns'[r] \in Nat /\ turns[r] <= turns'[r]
      BY <3>2, UserAssumption
    <3> QED BY <1>0, <3>1, <3>2, <3>3, CallsKept
  <2>2. CASE ReadIndex(s) \/ IndexFails(s)
    <3>1. log' = log /\ turns' = turns
      BY <2>2 DEF ReadIndex, IndexFails
    <3>2. call[s].at = "index"
      BY <2>2, ReadChanges
    <3>3. turns[s] >= 1
      BY <1>0, <3>2 DEF CallsOK
    <3> QED BY <1>0, <2>2, <3>1, <3>3, ReadChanges, CallsKept
  <2>3. CASE Restore(s)
    <3>1. log' = log /\ turns' = turns
      BY <2>3 DEF Restore
    <3> QED BY <1>0, <2>3, <3>1, RestoreChanges, CallsKept
  <2>4. CASE Reflect(s) \/ EndTurn(s)
    <3>1. log' = log /\ turns' = turns
      BY <2>4 DEF Reflect, EndTurn
    <3> QED BY <1>0, <2>4, <3>1, EndChanges, CallsKept
  <2> QED BY <1>3, <2>1, <2>2, <2>3, <2>4 DEF TurnNext
<1>4. CASE Crash
  <2>1. log' = log /\ turns' = turns
    BY <1>4 DEF Crash
  <2>2. ASSUME NEW c \in Callers
        PROVE  \/ call'[c] = Idle \/ call'[c] = At("failed", Nothing, Nothing)
               \/ call'[c] = call[c] /\ call[c].at \in {"idle", "answered"}
    BY <1>4 DEF Crash
  <2>3. ASSUME NEW c \in Callers
        PROVE  CallOK(c, call'[c]) /\ call'[c].at \notin {"insert", "index", "load"}
    <3>1. CASE call'[c] = Idle \/ call'[c] = At("failed", Nothing, Nothing)
      BY <3>1 DEF CallOK, Idle, At
    <3>2. CASE call'[c] = call[c] /\ call[c].at \in {"idle", "answered"}
      BY <3>2 DEF CallsOK
    <3> QED BY <2>2, <3>1, <3>2
  <2> QED BY <2>3 DEF CallsOK
<1>5. CASE UNCHANGED vars
  BY <1>5 DEF vars, CallsOK
<1> QED BY <1>1, <1>2, <1>3, <1>4, <1>5 DEF Next

-----------------------------------------------------------------------------
(* The profiles among the events of a sequence.                             *)
ProfilesOf(l) == {i \in DOMAIN l : l[i].kind = "profile"}

LEMMA ProfilesAppended ==
  ASSUME NEW l \in Seq(Event), NEW b \in Seq(Event)
  PROVE  /\ \A i \in DOMAIN l : i \in DOMAIN (l \o b) /\ (l \o b)[i] = l[i]
         /\ (\A i \in DOMAIN b : b[i].kind # "profile") => ProfilesOf(l \o b) = ProfilesOf(l)
         /\ Len(b) = 1 /\ b[1].kind = "profile" =>
              /\ ProfilesOf(l \o b) = ProfilesOf(l) \cup {Len(l) + 1}
              /\ (l \o b)[Len(l) + 1] = b[1]
<1> DEFINE n == Len(l)
           m == Len(b)
           w == l \o b
<1>1. n \in Nat /\ m \in Nat /\ DOMAIN l = 1 .. n /\ DOMAIN b = 1 .. m /\ DOMAIN w = 1 .. n + m
  OBVIOUS
<1>2. \A i \in 1 .. n : w[i] = l[i]
  OBVIOUS
<1>3. \A i \in 1 .. m : w[n + i] = b[i]
  OBVIOUS
<1> HIDE DEF n, m, w
<1>4. \A i \in DOMAIN l : i \in DOMAIN w /\ w[i] = l[i]
  BY <1>1, <1>2
<1>5. ASSUME NEW i \in DOMAIN w, i \notin DOMAIN l
      PROVE  i - n \in 1 .. m /\ w[i] = b[i - n]
  <2>1. i - n \in 1 .. m /\ n + (i - n) = i
    BY <1>1, <1>5
  <2> QED BY <1>3, <2>1
<1>6. ASSUME \A i \in DOMAIN b : b[i].kind # "profile"
      PROVE  ProfilesOf(w) = ProfilesOf(l)
  BY <1>1, <1>4, <1>5, <1>6 DEF ProfilesOf
<1>7. ASSUME m = 1, b[1].kind = "profile"
      PROVE  ProfilesOf(w) = ProfilesOf(l) \cup {n + 1} /\ w[n + 1] = b[1]
  <2>1. w[n + 1] = b[1] /\ n + 1 \in DOMAIN w
    BY <1>1, <1>3, <1>7
  <2>2. \A i \in DOMAIN w : i \notin DOMAIN l => i = n + 1
    BY <1>1, <1>7
  <2> QED BY <1>4, <1>7, <2>1, <2>2 DEF ProfilesOf
<1> QED BY <1>4, <1>6, <1>7 DEF n, m, w

(* What an insert makes of the profiles of a stream.                        *)
LEMMA InsertProfiles ==
  ASSUME TypeOK, CallsOK, NEW c \in Callers, Insert(c), NEW u \in Users
  PROVE  /\ \A i \in DOMAIN log[u] : i \in DOMAIN log'[u] /\ log'[u][i] = log[u][i]
         /\ \/ Profiles(u)' = Profiles(u)
            \/ /\ c \in Sessions /\ u = call[c].user /\ call[c].batch[1].kind = "profile"
               /\ Profiles(u)' = Profiles(u) \cup {Len(log[u]) + 1}
               /\ log'[u][Len(log[u]) + 1] = call[c].batch[1]
<1> DEFINE b == call[c].batch
<1>0. log[u] \in Seq(Event)
  BY DEF TypeOK
<1>1. CASE u # call[c].user
  <2>1. log'[u] = log[u]
    BY <1>1, InsertLogs
  <2> QED BY <2>1 DEF Profiles
<1>2. CASE u = call[c].user
  <2>1. b \in Seq(Event) /\ log'[u] = log[u] \o b /\ CallOK(c, call[c]) /\ call[c].at = "insert"
    BY <1>2, InsertLogs DEF Insert, CallsOK
  <2>2. \A l, e \in Seq(Event) :
          /\ \A i \in DOMAIN l : i \in DOMAIN (l \o e) /\ (l \o e)[i] = l[i]
          /\ (\A i \in DOMAIN e : e[i].kind # "profile") => ProfilesOf(l \o e) = ProfilesOf(l)
          /\ Len(e) = 1 /\ e[1].kind = "profile" =>
               /\ ProfilesOf(l \o e) = ProfilesOf(l) \cup {Len(l) + 1}
               /\ (l \o e)[Len(l) + 1] = e[1]
    BY ProfilesAppended
  <2>3. Profiles(u) = ProfilesOf(log[u]) /\ Profiles(u)' = ProfilesOf(log'[u])
    BY DEF Profiles, ProfilesOf
  <2>4. \A i \in DOMAIN log[u] : i \in DOMAIN log'[u] /\ log'[u][i] = log[u][i]
    BY <1>0, <2>1, <2>2
  <2>5. CASE \A i \in DOMAIN b : b[i].kind # "profile"
    <3>1. Profiles(u)' = Profiles(u)
      BY <1>0, <2>1, <2>2, <2>3, <2>5
    <3> QED BY <2>4, <3>1
  <2>6. CASE \E i \in DOMAIN b : b[i].kind = "profile"
    <3>1. c \in Sessions /\ \E v \in SUBSET Turns : b = <<Profile(c, v)>>
      <4>1. CASE c \in Sessions
        <5>1. TurnBatch(c, call[c])
          BY <2>1, <4>1 DEF CallOK
        <5>2. b # <<Reflected(c)>>
          BY <2>6 DEF Reflected
        <5> QED BY <4>1, <5>1, <5>2 DEF TurnBatch
      <4>2. CASE c \notin Sessions
        <5>1. RequestBatch(call[c])
          BY <2>1, <4>2 DEF CallOK
        <5> QED BY <2>6, <5>1 DEF RequestBatch, Created, Updated, Linked
      <4> QED BY <4>1, <4>2
    <3>2. Len(b) = 1 /\ b[1].kind = "profile"
      BY <3>1 DEF Profile
    <3>3. /\ ProfilesOf(log'[u]) = ProfilesOf(log[u]) \cup {Len(log[u]) + 1}
          /\ log'[u][Len(log[u]) + 1] = b[1]
      BY <1>0, <2>1, <2>2, <3>2
    <3> QED BY <1>2, <2>3, <2>4, <3>1, <3>2, <3>3
  <2> QED BY <2>5, <2>6
<1> QED BY <1>1, <1>2

LEMMA QuietLog == [Next]_vars => (log' = log \/ \E c \in Callers : Insert(c))
<1> SUFFICES ASSUME [Next]_vars PROVE log' = log \/ \E c \in Callers : Insert(c)
  OBVIOUS
<1>1. ASSUME NEW c \in Callers, AppendNext(c) PROVE log' = log \/ Insert(c)
  BY <1>1 DEF AppendNext, Begin, Refused, AppendFails
<1>2. ASSUME NEW c \in Requests, RequestNext(c) PROVE log' = log
  BY <1>2 DEF RequestNext, CreateUser, UpdateUser, CreateSession, StartSession, LinkSession
<1>3. ASSUME NEW s \in Sessions, TurnNext(s) PROVE log' = log
  BY <1>3 DEF TurnNext, TakeTurn, ReadIndex, IndexFails, Restore, Reflect, EndTurn
<1>4. CASE Crash
  BY <1>4 DEF Crash
<1>5. CASE UNCHANGED vars
  BY <1>5 DEF vars
<1> QED BY <1>1, <1>2, <1>3, <1>4, <1>5 DEF Next

LEMMA LatestStep == TypeOK /\ CallsOK /\ HasLatest /\ [Next]_vars => HasLatest'
<1> SUFFICES ASSUME TypeOK, CallsOK, HasLatest, [Next]_vars PROVE HasLatest'
  OBVIOUS
<1>1. CASE log' = log
  BY <1>1 DEF HasLatest, Profiles
<1>2. ASSUME NEW c \in Callers, Insert(c) PROVE HasLatest'
  <2> SUFFICES ASSUME NEW u \in Users, Profiles(u)' # {}
               PROVE  \E i \in Profiles(u)' : \A j \in Profiles(u)' : j <= i
    BY DEF HasLatest
  <2>1. CASE Profiles(u)' = Profiles(u)
    BY <2>1 DEF HasLatest
  <2>2. CASE Profiles(u)' = Profiles(u) \cup {Len(log[u]) + 1}
    <3>1. log[u] \in Seq(Event)
      BY DEF TypeOK
    <3>2. \A j \in Profiles(u) : j \in 1 .. Len(log[u])
      BY <3>1 DEF Profiles
    <3>3. Len(log[u]) \in Nat
      BY <3>1
    <3> QED BY <2>2, <3>2, <3>3
  <2> QED BY <1>2, <2>1, <2>2, InsertProfiles
<1> QED BY <1>1, <1>2, QuietLog

(* The events of a stream after an insert.                                  *)
LEMMA InsertEvents ==
  ASSUME TypeOK, CallsOK, NEW c \in Callers, Insert(c), NEW u \in Users,
         NEW i \in DOMAIN log'[u]
  PROVE  \/ i \in DOMAIN log[u] /\ log'[u][i] = log[u][i]
         \/ /\ u = call[c].user /\ i \in Nat /\ Len(log[u]) \in Nat /\ i > Len(log[u])
            /\ i - Len(log[u]) \in DOMAIN call[c].batch
            /\ log'[u][i] = call[c].batch[i - Len(log[u])]
<1>0. log[u] \in Seq(Event)
  BY DEF TypeOK
<1>1. CASE u # call[c].user
  BY <1>1, InsertLogs
<1>2. CASE u = call[c].user
  <2>1. call[c].batch \in Seq(Event) /\ log'[u] = log[u] \o call[c].batch
    BY <1>2, InsertLogs
  <2>2. \A l, e \in Seq(Event) : \A k \in DOMAIN (l \o e) :
          /\ k \in Nat /\ Len(l) \in Nat
          /\ IF k \in DOMAIN l THEN (l \o e)[k] = l[k]
             ELSE k > Len(l) /\ k - Len(l) \in DOMAIN e /\ (l \o e)[k] = e[k - Len(l)]
    OBVIOUS
  <2>3. \A k \in DOMAIN (log[u] \o call[c].batch) :
          /\ k \in Nat /\ Len(log[u]) \in Nat
          /\ IF k \in DOMAIN log[u] THEN (log[u] \o call[c].batch)[k] = log[u][k]
             ELSE /\ k > Len(log[u]) /\ k - Len(log[u]) \in DOMAIN call[c].batch
                  /\ (log[u] \o call[c].batch)[k] = call[c].batch[k - Len(log[u])]
    BY <1>0, <2>1, <2>2
  <2> QED BY <1>2, <2>1, <2>3
<1> QED BY <1>1, <1>2

(* The events a caller is about to insert.                                  *)
LEMMA BatchEvents ==
  ASSUME TypeOK, CallsOK, NEW c \in Callers, call[c].at = "insert",
         NEW i \in DOMAIN call[c].batch
  PROVE  /\ call[c].batch[i].kind = "created" => i = 1 /\ call[c].base = 0
         /\ call[c].batch[i].kind = "linked" =>
              /\ c \in Requests /\ call[c].session \in Sessions
              /\ call[c].batch[i].session = call[c].session
              /\ \A j \in DOMAIN call[c].batch : call[c].batch[j].kind = "linked" => j = i
<1>1. CallOK(c, call[c])
  BY DEF CallsOK
<1>2. CASE c \in Sessions
  <2>1. TurnBatch(c, call[c])
    BY <1>1, <1>2 DEF CallOK
  <2>2. CASE call[c].batch = <<Reflected(c)>>
    BY <2>2 DEF Reflected
  <2>3. ASSUME NEW v \in SUBSET Turns, call[c].batch = <<Profile(c, v)>>
        PROVE  call[c].batch[i].kind = "profile"
    BY <2>3 DEF Profile
  <2> QED BY <2>1, <2>2, <2>3 DEF TurnBatch
<1>3. CASE c \notin Sessions
  <2>1. RequestBatch(call[c]) /\ c \in Requests
    BY <1>1, <1>3 DEF CallOK, Callers
  <2>2. CASE call[c].batch = <<Updated>>
    BY <2>2 DEF Updated
  <2>3. CASE call[c].batch = <<Created>> /\ call[c].base = 0
    BY <2>3 DEF Created
  <2>4. CASE call[c].batch = <<Linked(call[c].session)>> /\ call[c].session \in Sessions
    BY <2>1, <2>4 DEF Linked
  <2>5. CASE /\ call[c].batch = <<Created, Linked(call[c].session)>>
             /\ call[c].session \in Sessions /\ call[c].base = 0
    <3> DEFINE b == call[c].batch
    <3>1. DOMAIN b = 1 .. 2 /\ b[1] = Created /\ b[2] = Linked(call[c].session)
      BY <2>5
    <3> HIDE DEF b
    <3>2. /\ b[1].kind = "created" /\ b[2].kind = "linked"
          /\ b[2].session = call[c].session
      BY <3>1 DEF Created, Linked
    <3>3. \A j \in DOMAIN b : j = 1 \/ j = 2
      BY <3>1
    <3>4. b[i].kind = "created" => i = 1
      BY <3>2, <3>3 DEF b
    <3>5. b[i].kind = "linked" => i = 2 /\ \A j \in DOMAIN b : b[j].kind = "linked" => j = i
      BY <3>2, <3>3 DEF b
    <3> QED BY <2>1, <2>5, <3>2, <3>4, <3>5 DEF b
  <2> QED BY <2>1, <2>2, <2>3, <2>4, <2>5 DEF RequestBatch
<1> QED BY <1>2, <1>3

LEMMA CreatedStep == TypeOK /\ CallsOK /\ CreatedFirst /\ [Next]_vars => CreatedFirst'
<1> SUFFICES ASSUME TypeOK, CallsOK, CreatedFirst, [Next]_vars PROVE CreatedFirst'
  OBVIOUS
<1>1. CASE log' = log
  BY <1>1 DEF CreatedFirst
<1>2. ASSUME NEW c \in Callers, Insert(c) PROVE CreatedFirst'
  <2> SUFFICES ASSUME NEW u \in Users, NEW i \in DOMAIN log'[u], log'[u][i].kind = "created"
               PROVE  i = 1
    BY DEF CreatedFirst
  <2>1. CASE i \in DOMAIN log[u] /\ log'[u][i] = log[u][i]
    BY <2>1 DEF CreatedFirst
  <2>2. CASE /\ u = call[c].user /\ i \in Nat /\ Len(log[u]) \in Nat
             /\ i - Len(log[u]) \in DOMAIN call[c].batch
             /\ log'[u][i] = call[c].batch[i - Len(log[u])]
    <3>1. i - Len(log[u]) = 1 /\ call[c].base = 0
      BY <1>2, <2>2, BatchEvents DEF Insert
    <3>2. Len(log[u]) = 0
      BY <1>2, <2>2, <3>1, InsertLogs
    <3> QED BY <2>2, <3>1, <3>2
  <2> QED BY <1>2, <2>1, <2>2, InsertEvents
<1> QED BY <1>1, <1>2, QuietLog

-----------------------------------------------------------------------------
LEMMA ShakenStays == [Next]_vars => shaken \subseteq shaken'
<1> SUFFICES ASSUME [Next]_vars PROVE shaken \subseteq shaken'
  OBVIOUS
<1>1. ASSUME NEW c \in Callers, AppendNext(c) PROVE shaken \subseteq shaken'
  BY <1>1 DEF AppendNext, Begin, Insert, Refused, AppendFails
<1>2. ASSUME NEW c \in Requests, RequestNext(c) PROVE shaken \subseteq shaken'
  BY <1>2 DEF RequestNext, CreateUser, UpdateUser, CreateSession, StartSession, LinkSession
<1>3. ASSUME NEW s \in Sessions, TurnNext(s) PROVE shaken \subseteq shaken'
  BY <1>3 DEF TurnNext, TakeTurn, ReadIndex, IndexFails, Restore, Reflect, EndTurn
<1>4. CASE Crash
  BY <1>4 DEF Crash
<1>5. CASE UNCHANGED vars
  BY <1>5 DEF vars
<1> QED BY <1>1, <1>2, <1>3, <1>4, <1>5 DEF Next

(* A refused link relied on fewer events than there are, so there are some. *)
LEMMA KnownStep ==
  TypeOK /\ CallsOK /\ HasLatest /\ AnsweredUserIsKnown /\ [Next]_vars => AnsweredUserIsKnown'
<1> SUFFICES ASSUME TypeOK, CallsOK, HasLatest, AnsweredUserIsKnown, [Next]_vars,
                    NEW d \in Requests, call'[d].at = "answered", call'[d].user \notin shaken'
             PROVE  log'[call'[d].user] # <<>>
  BY DEF AnsweredUserIsKnown
<1>0. d \in Callers /\ d \notin Sessions /\ call'[d].user \notin shaken
  BY UserAssumption, ShakenStays DEF Callers
<1>1. ASSUME NEW c \in Callers, Insert(c) PROVE log'[call'[d].user] # <<>>
  <2>1. /\ call[c].user \in Users /\ call[c].batch \in Seq(Event) /\ call[c].batch # <<>>
        /\ log'[call[c].user] = log[call[c].user] \o call[c].batch
        /\ \A u \in Users : u # call[c].user => log'[u] = log[u]
    BY <1>1, InsertLogs
  <2>2. log[call[c].user] \in Seq(Event)
    BY <2>1 DEF TypeOK
  <2>3. \A l, e \in Seq(Event) : e # <<>> => l \o e # <<>>
    OBVIOUS
  <2>4. log'[call[c].user] # <<>>
    BY <2>1, <2>2, <2>3
  <2>5. Changes(c) /\ (call'[c].at = "answered" => call'[c].user = call[c].user)
    BY <1>1, InsertChanges
  <2>6. CASE d = c
    BY <2>4, <2>5, <2>6
  <2>7. CASE d # c
    <3>1. call'[d] = call[d]
      BY <1>0, <2>5, <2>7 DEF Changes, Becomes, TypeOK
    <3>2. call[d].user \in Users
      BY <1>0, <3>1 DEF CallsOK, CallOK
    <3>3. log[call[d].user] # <<>>
      BY <1>0, <3>1 DEF AnsweredUserIsKnown
    <3> QED BY <2>1, <2>4, <3>1, <3>2, <3>3
  <2> QED BY <2>6, <2>7
<1>2. ASSUME NEW c \in Callers, Refused(c) PROVE log'[call'[d].user] # <<>>
  <2>1. /\ Changes(c) /\ call[c].at = "insert" /\ call[c].user \in Users
        /\ call'[c].at = "answered" => call'[c].user = call[c].user
    BY <1>2, InsertChanges
  <2>2. log' = log /\ ~ Fits(c)
    BY <1>2 DEF Refused
  <2>3. call[c].base <= Len(log[call[c].user]) /\ call[c].base \in Nat
    BY <2>1 DEF CallsOK, TypeOK, Call
  <2>4. log[call[c].user] # <<>>
    <3>1. log[call[c].user] \in Seq(Event)
      BY <2>1 DEF TypeOK
    <3>2. Len(log[call[c].user]) # call[c].base /\ Len(log[call[c].user]) \in Nat
      BY <2>2, <3>1 DEF Fits
    <3>3. Len(log[call[c].user]) # 0
      BY <2>3, <3>2
    <3> QED BY <3>3
  <2>5. CASE d = c
    BY <2>1, <2>2, <2>4, <2>5
  <2>6. CASE d # c
    <3>1. call'[d] = call[d]
      BY <1>0, <2>1, <2>6 DEF Changes, Becomes, TypeOK
    <3> QED BY <1>0, <2>2, <3>1 DEF AnsweredUserIsKnown
  <2> QED BY <2>5, <2>6
<1>3. ASSUME NEW c \in Callers, Changes(c), log' = log,
             call'[c].at = "answered" => call'[c].user \in shaken'
      PROVE  log'[call'[d].user] # <<>>
  <2>1. call'[d] = call[d]
    BY <1>0, <1>3 DEF Changes, Becomes, TypeOK
  <2> QED BY <1>0, <1>3, <2>1 DEF AnsweredUserIsKnown
<1>4. ASSUME NEW c \in Callers, AppendNext(c) PROVE log'[call'[d].user] # <<>>
  <2>1. CASE Begin(c)
    <3>1. log' = log
      BY <2>1 DEF Begin
    <3> QED BY <1>3, <2>1, <3>1, BeginChanges
  <2>2. CASE AppendFails(c)
    <3>1. /\ Changes(c)
          /\ call'[c].at = "answered" => call'[c].user = call[c].user /\ OfLink(c)
      BY <2>2, FailChanges
    <3>2. log' = log /\ (OfLink(c) => call[c].user \in shaken')
      BY <2>2 DEF AppendFails
    <3> QED BY <1>3, <3>1, <3>2
  <2> QED BY <1>1, <1>2, <1>4, <2>1, <2>2 DEF AppendNext
<1>5. ASSUME NEW c \in Requests, RequestNext(c) PROVE log'[call'[d].user] # <<>>
  <2>0. c \in Callers
    BY DEF Callers
  <2>1. log' = log
    BY <1>5 DEF RequestNext, CreateUser, UpdateUser, CreateSession, StartSession, LinkSession
  <2>2. Changes(c) /\ call'[c].at # "answered"
    BY <1>5, RequestChanges, StartChanges, LinkChanges DEF RequestNext
  <2> QED BY <1>3, <2>0, <2>1, <2>2
<1>6. ASSUME NEW s \in Sessions, TurnNext(s) PROVE log'[call'[d].user] # <<>>
  <2>0. s \in Callers
    BY DEF Callers
  <2>1. log' = log
    BY <1>6 DEF TurnNext, TakeTurn, ReadIndex, IndexFails, Restore, Reflect, EndTurn
  <2>2. Changes(s) /\ call'[s].at # "answered"
    BY <1>6, TakeTurnChanges, ReadChanges, RestoreChanges, EndChanges DEF TurnNext
  <2> QED BY <1>3, <2>0, <2>1, <2>2
<1>7. CASE Crash
  <2>1. call'[d] = call[d] \/ call'[d] = At("failed", Nothing, Nothing)
    BY <1>0, <1>7 DEF Crash
  <2>2. call'[d] = call[d] /\ log' = log
    BY <1>7, <2>1 DEF Crash, At
  <2> QED BY <1>0, <2>2 DEF AnsweredUserIsKnown
<1>8. CASE UNCHANGED vars
  BY <1>0, <1>8 DEF vars, AnsweredUserIsKnown
<1> QED BY <1>4, <1>5, <1>6, <1>7, <1>8 DEF Next

-----------------------------------------------------------------------------
(* Whoever holds the right to link a session has started it for its user,   *)
(* is alone in this, and has not used it.                                   *)
HasRight(k) == k.at \in {"linking", "begin", "insert"} /\ k.session # Nothing
RightsOK ==
  \A c \in Requests : HasRight(call[c]) =>
    /\ call[c].session \in Sessions /\ owner[call[c].session] = call[c].user
    /\ \A u \in Users : \A i \in DOMAIN log[u] :
         log[u][i].kind = "linked" => log[u][i].session # call[c].session
    /\ \A d \in Requests : HasRight(call[d]) /\ call[d].session = call[c].session => d = c
LinksHaveSessions ==
  \A u \in Users : \A i \in DOMAIN log[u] :
    log[u][i].kind = "linked" => log[u][i].session \in Sessions
LinksOK == RightsOK /\ LinksHaveSessions /\ LinkedIsStarted

LEMMA LinksKept ==
  ASSUME TypeOK, LinksOK, NEW c \in Callers, Changes(c), log' = log, owner' = owner,
         c \in Requests /\ HasRight(call'[c]) =>
           HasRight(call[c]) /\ call'[c].session = call[c].session
                             /\ call'[c].user = call[c].user
  PROVE  LinksOK'
<1>1. ASSUME NEW d \in Requests
      PROVE  HasRight(call'[d]) => /\ HasRight(call[d])
                                   /\ call'[d].session = call[d].session
                                   /\ call'[d].user = call[d].user
  BY DEF Changes, Becomes, TypeOK, Callers
<1>2. RightsOK'
  BY <1>1 DEF LinksOK, RightsOK
<1>3. LinksHaveSessions' /\ LinkedIsStarted'
  BY DEF LinksOK, LinksHaveSessions, LinkedIsStarted
<1> QED BY <1>2, <1>3 DEF LinksOK

LEMMA LinksStarted ==
  ASSUME TypeOK, CallsOK, LinksOK, NEW c \in Requests, StartSession(c)
  PROVE  LinksOK'
<1> DEFINE s == call[c].session
<1>0. c \in Callers /\ log' = log
  BY DEF Callers, StartSession
<1>1. CASE call'[c].at = "failed" /\ owner' = owner
  BY <1>0, <1>1, LinksKept, StartChanges DEF HasRight
<1>2. CASE /\ owner[s] = Nothing /\ owner' = [owner EXCEPT ![s] = call[c].user]
           /\ call'[c].session = s /\ call'[c].user = call[c].user
  <2>1. Changes(c) /\ s \in Sessions /\ call[c].user \in Users
    BY StartChanges
  <2>2. owner'[s] = call[c].user /\ \A r \in Sessions : r # s => owner'[r] = owner[r]
    BY <1>2, <2>1 DEF TypeOK
  <2>3. ASSUME NEW u \in Users, NEW i \in DOMAIN log[u], log[u][i].kind = "linked"
        PROVE  log[u][i].session # s /\ log[u][i].session \in Sessions
    <3>1. owner[log[u][i].session] = u /\ log[u][i].session \in Sessions
      BY <2>3 DEF LinksOK, LinkedIsStarted, LinksHaveSessions
    <3> QED BY <1>2, <3>1, UserAssumption
  <2>4. ASSUME NEW d \in Requests, d # c
        PROVE  /\ call'[d] = call[d]
               /\ HasRight(call[d]) => call[d].session # s
    <3>1. call'[d] = call[d] /\ CallOK(d, call[d])
      BY <2>1, <2>4 DEF Changes, Becomes, TypeOK, Callers, CallsOK
    <3>2. ASSUME HasRight(call[d]) PROVE call[d].session # s
      <4>1. owner[call[d].session] = call[d].user
        BY <3>2 DEF LinksOK, RightsOK
      <4>2. call[d].user \in Users
        BY <3>1, <3>2 DEF HasRight, CallOK
      <4> QED BY <1>2, <4>1, <4>2, UserAssumption
    <3> QED BY <3>1, <3>2
  <2>5. LinkedIsStarted'
    BY <1>0, <2>2, <2>3 DEF LinksOK, LinkedIsStarted
  <2>6. LinksHaveSessions'
    BY <1>0 DEF LinksOK, LinksHaveSessions
  <2>7. ASSUME NEW d \in Requests, HasRight(call'[d])
        PROVE  /\ call'[d].session \in Sessions /\ owner'[call'[d].session] = call'[d].user
               /\ \A u \in Users : \A i \in DOMAIN log'[u] :
                    log'[u][i].kind = "linked" => log'[u][i].session # call'[d].session
               /\ \A e \in Requests :
                    HasRight(call'[e]) /\ call'[e].session = call'[d].session => e = d
    <3>1. CASE d = c
      BY <1>0, <1>2, <2>1, <2>2, <2>3, <2>4, <3>1
    <3>2. CASE d # c
      BY <1>0, <1>2, <2>1, <2>2, <2>4, <2>7, <3>2 DEF LinksOK, RightsOK
    <3> QED BY <3>1, <3>2
  <2> QED BY <2>5, <2>6, <2>7 DEF LinksOK, RightsOK
<1> QED BY <1>1, <1>2, StartChanges

LEMMA LinksInserted ==
  ASSUME TypeOK, CallsOK, LinksOK, NEW c \in Callers, Insert(c)
  PROVE  LinksOK'
<1>1. /\ Changes(c) /\ call[c].at = "insert" /\ ~ HasRight(call'[c])
  BY InsertChanges DEF HasRight
<1>2. owner' = owner
  BY DEF Insert
<1>3. ASSUME NEW d \in Requests, HasRight(call'[d])
      PROVE  d # c /\ call'[d] = call[d]
  BY <1>1, <1>3 DEF Changes, Becomes, TypeOK, Callers
<1>4. ASSUME NEW u \in Users, NEW i \in DOMAIN log'[u], log'[u][i].kind = "linked"
      PROVE  \/ i \in DOMAIN log[u] /\ log'[u][i] = log[u][i]
             \/ /\ i \notin DOMAIN log[u] /\ i - Len(log[u]) \in DOMAIN call[c].batch
                /\ call[c].batch[i - Len(log[u])].kind = "linked" /\ i \in Nat
                /\ u = call[c].user /\ c \in Requests /\ HasRight(call[c])
                /\ log'[u][i].session = call[c].session /\ call[c].session \in Sessions
  <2>1. log[u] \in Seq(Event)
    BY DEF TypeOK
  <2>2. CASE /\ u = call[c].user /\ i \in Nat /\ Len(log[u]) \in Nat /\ i > Len(log[u])
             /\ i - Len(log[u]) \in DOMAIN call[c].batch
             /\ log'[u][i] = call[c].batch[i - Len(log[u])]
    <3>1. /\ c \in Requests /\ call[c].session \in Sessions
          /\ log'[u][i].session = call[c].session
      BY <1>1, <1>4, <2>2, BatchEvents
    <3>2. HasRight(call[c])
      BY <1>1, <3>1, UserAssumption DEF HasRight
    <3>3. i \notin DOMAIN log[u]
      BY <2>1, <2>2
    <3> QED BY <1>4, <2>2, <3>1, <3>2, <3>3
  <2> QED BY <2>2, InsertEvents
<1>5. LinksHaveSessions'
  BY <1>4 DEF LinksOK, LinksHaveSessions
<1>6. ASSUME NEW u \in Users, NEW i \in DOMAIN log'[u], NEW j \in DOMAIN log'[u],
             log'[u][i].kind = "linked"
      PROVE  /\ owner'[log'[u][i].session] = u
             /\ log'[u][j].kind = "linked" /\ log'[u][j].session = log'[u][i].session => i = j
  <2>1. owner'[log'[u][i].session] = u
    BY <1>2, <1>4, <1>6 DEF LinksOK, LinkedIsStarted, RightsOK
  <2>2. ASSUME log'[u][j].kind = "linked", log'[u][j].session = log'[u][i].session
        PROVE  i = j
    <3>1. CASE i \in DOMAIN log[u] /\ j \in DOMAIN log[u]
      <4>1. log'[u][i] = log[u][i] /\ log'[u][j] = log[u][j]
        BY <1>4, <1>6, <2>2, <3>1
      <4> QED BY <1>6, <2>2, <3>1, <4>1 DEF LinksOK, LinkedIsStarted
    <3>2. CASE i \in DOMAIN log[u] /\ j \notin DOMAIN log[u]
      <4>1. log'[u][i] = log[u][i]
        BY <1>4, <1>6, <3>2
      <4>2. c \in Requests /\ HasRight(call[c]) /\ log'[u][j].session = call[c].session
        BY <1>4, <2>2, <3>2
      <4> QED BY <1>6, <2>2, <3>2, <4>1, <4>2 DEF LinksOK, RightsOK
    <3>3. CASE i \notin DOMAIN log[u] /\ j \in DOMAIN log[u]
      <4>1. log'[u][j] = log[u][j]
        BY <1>4, <2>2, <3>3
      <4>2. c \in Requests /\ HasRight(call[c]) /\ log'[u][i].session = call[c].session
        BY <1>4, <1>6, <3>3
      <4> QED BY <2>2, <3>3, <4>1, <4>2 DEF LinksOK, RightsOK
    <3>4. CASE i \notin DOMAIN log[u] /\ j \notin DOMAIN log[u]
      <4>1. /\ i - Len(log[u]) \in DOMAIN call[c].batch
            /\ j - Len(log[u]) \in DOMAIN call[c].batch
            /\ call[c].batch[i - Len(log[u])].kind = "linked"
            /\ call[c].batch[j - Len(log[u])].kind = "linked"
            /\ i \in Nat /\ j \in Nat
        BY <1>4, <1>6, <2>2, <3>4
      <4>2. i - Len(log[u]) = j - Len(log[u])
        BY <1>1, <4>1, BatchEvents
      <4>3. Len(log[u]) \in Nat
        BY DEF TypeOK
      <4> QED BY <4>1, <4>2, <4>3
    <3> QED BY <3>1, <3>2, <3>3, <3>4
  <2> QED BY <2>1, <2>2
<1>7. LinkedIsStarted'
  BY <1>6 DEF LinkedIsStarted
<1>8. ASSUME NEW d \in Requests, HasRight(call'[d])
      PROVE  /\ call'[d].session \in Sessions /\ owner'[call'[d].session] = call'[d].user
             /\ \A u \in Users : \A i \in DOMAIN log'[u] :
                  log'[u][i].kind = "linked" => log'[u][i].session # call'[d].session
             /\ \A e \in Requests :
                  HasRight(call'[e]) /\ call'[e].session = call'[d].session => e = d
  <2>1. d # c /\ call'[d] = call[d] /\ HasRight(call[d])
    BY <1>3, <1>8
  <2>2. call'[d].session \in Sessions /\ owner'[call'[d].session] = call'[d].user
    BY <1>2, <2>1 DEF LinksOK, RightsOK
  <2>3. ASSUME NEW u \in Users, NEW i \in DOMAIN log'[u], log'[u][i].kind = "linked"
        PROVE  log'[u][i].session # call'[d].session
    <3>1. CASE i \in DOMAIN log[u] /\ log'[u][i] = log[u][i]
      BY <2>1, <2>3, <3>1 DEF LinksOK, RightsOK
    <3>2. CASE c \in Requests /\ HasRight(call[c]) /\ log'[u][i].session = call[c].session
      BY <2>1, <3>2 DEF LinksOK, RightsOK
    <3> QED BY <1>4, <2>3, <3>1, <3>2
  <2>4. ASSUME NEW e \in Requests, HasRight(call'[e]), call'[e].session = call'[d].session
        PROVE  e = d
    BY <1>3, <2>1, <2>4 DEF LinksOK, RightsOK
  <2> QED BY <2>2, <2>3, <2>4
<1>9. RightsOK'
  BY <1>8 DEF RightsOK
<1> QED BY <1>5, <1>7, <1>9 DEF LinksOK

LEMMA LinksStep == TypeOK /\ CallsOK /\ HasLatest /\ LinksOK /\ [Next]_vars => LinksOK'
<1> SUFFICES ASSUME TypeOK, CallsOK, HasLatest, LinksOK, [Next]_vars PROVE LinksOK'
  OBVIOUS
<1>0. Requests \subseteq Callers /\ Sessions \subseteq Callers /\ Requests \cap Sessions = {}
  BY UserAssumption DEF Callers
<1>1. ASSUME NEW c \in Callers, AppendNext(c) PROVE LinksOK'
  <2>1. CASE Begin(c)
    <3>1. log' = log /\ owner' = owner
      BY <2>1 DEF Begin
    <3> QED BY <2>1, <3>1, BeginChanges, LinksKept DEF HasRight
  <2>2. CASE Refused(c)
    <3>1. log' = log /\ owner' = owner
      BY <2>2 DEF Refused
    <3> QED BY <2>2, <3>1, InsertChanges, LinksKept DEF HasRight
  <2>3. CASE AppendFails(c)
    <3>1. log' = log /\ owner' = owner
      BY <2>3 DEF AppendFails
    <3> QED BY <2>3, <3>1, FailChanges, LinksKept DEF HasRight
  <2> QED BY <1>1, <2>1, <2>2, <2>3, LinksInserted DEF AppendNext
<1>2. ASSUME NEW c \in Requests, RequestNext(c) PROVE LinksOK'
  <2>1. ASSUME NEW u \in Users,
               CreateUser(c, u) \/ UpdateUser(c, u) \/ \E s \in Sessions : CreateSession(c, s, u)
        PROVE  LinksOK'
    <3>1. log' = log /\ owner' = owner
      BY <2>1 DEF CreateUser, UpdateUser, CreateSession
    <3> QED BY <1>0, <2>1, <3>1, RequestChanges, LinksKept DEF HasRight
  <2>2. CASE LinkSession(c)
    <3>1. log' = log /\ owner' = owner
      BY <2>2 DEF LinkSession
    <3> QED BY <1>0, <2>2, <3>1, LinkChanges, LinksKept DEF HasRight
  <2> QED BY <1>2, <2>1, <2>2, LinksStarted DEF RequestNext
<1>3. ASSUME NEW s \in Sessions, TurnNext(s) PROVE LinksOK'
  <2>1. log' = log /\ owner' = owner
    BY <1>3 DEF TurnNext, TakeTurn, ReadIndex, IndexFails, Restore, Reflect, EndTurn
  <2>2. Changes(s)
    BY <1>3, TakeTurnChanges, ReadChanges, RestoreChanges, EndChanges DEF TurnNext
  <2> QED BY <1>0, <2>1, <2>2, LinksKept
<1>4. CASE Crash
  <2>1. log' = log /\ owner' = owner
    BY <1>4 DEF Crash
  <2>2. ASSUME NEW c \in Requests PROVE ~ HasRight(call'[c])
    <3>1. \/ call'[c] = At("failed", Nothing, Nothing)
          \/ call'[c] = call[c] /\ call[c].at \in {"idle", "answered"}
      BY <1>0, <1>4 DEF Crash
    <3> QED BY <3>1 DEF At, HasRight
  <2> QED BY <2>1, <2>2 DEF LinksOK, RightsOK, LinksHaveSessions, LinkedIsStarted
<1>5. CASE UNCHANGED vars
  BY <1>5 DEF vars, LinksOK, RightsOK, LinksHaveSessions, LinkedIsStarted
<1> QED BY <1>1, <1>2, <1>3, <1>4, <1>5 DEF Next

-----------------------------------------------------------------------------
(* Of a user whose turns were mixed in one at a time: the vector of the     *)
(* process, a snapshot that was read and a profile that is about to be      *)
(* written have every turn that is persisted, and the vector of the process *)
(* has every turn of the profile that is about to be written.               *)
Has(u, v) == \A i \in Profiles(u) : log[u][i].turns \subseteq v
Writes(s) == call[s].at \in {"begin", "insert"} /\ call[s].batch[1].kind = "profile"

Growing(u) ==
  \A i, j \in Profiles(u) : i <= j => log[u][i].turns \subseteq log[u][j].turns
VectorOK(u) == vectors[u] # {} => Has(u, vectors[u])
SnapshotsOK(u) ==
  \A s \in Sessions : call[s].user = u /\ call[s].at = "load" => Has(u, call[s].got)
WritesOK(u) ==
  \A s \in Sessions : call[s].user = u /\ Writes(s) =>
    /\ Has(u, call[s].batch[1].turns)
    /\ vectors[u] # {} => call[s].batch[1].turns \subseteq vectors[u]
OneMixes(u) ==
  \A r, s \in Sessions :
    call[r].user = u /\ call[s].user = u /\ Mixing(r) /\ Mixing(s) => r = s
MixOK ==
  \A u \in Users \ shaken :
    Growing(u) /\ VectorOK(u) /\ SnapshotsOK(u) /\ WritesOK(u) /\ OneMixes(u)

(* Steps that are not about a profile.                                      *)
LEMMA MixKept ==
  ASSUME TypeOK, MixOK, NEW c \in Callers, Changes(c), log' = log, vectors' = vectors,
         shaken \subseteq shaken',
         c \in Sessions => \/ ~ Mixing(c)'
                           \/ /\ Writes(c) /\ Writes(c)' /\ call'[c].user = call[c].user
                              /\ call'[c].batch = call[c].batch
  PROVE  MixOK'
<1>1. ASSUME NEW s \in Sessions, Mixing(s)'
      PROVE  /\ Mixing(s) /\ call'[s].user = call[s].user
             /\ Writes(s)' => Writes(s) /\ call'[s].batch = call[s].batch
             /\ call'[s].at = "load" => call[s].at = "load" /\ call'[s].got = call[s].got
  <2>1. CASE s = c
    BY <1>1, <2>1 DEF Mixing, Writes
  <2>2. CASE s # c
    <3>1. call'[s] = call[s]
      BY <2>2 DEF Changes, Becomes, TypeOK, Callers
    <3> QED BY <1>1, <3>1 DEF Mixing, Writes
  <2> QED BY <2>1, <2>2
<1> SUFFICES ASSUME NEW u \in Users \ shaken'
             PROVE  /\ Growing(u)' /\ VectorOK(u)' /\ SnapshotsOK(u)'
                    /\ WritesOK(u)' /\ OneMixes(u)'
  BY DEF MixOK
<1>2. Growing(u) /\ VectorOK(u) /\ SnapshotsOK(u) /\ WritesOK(u) /\ OneMixes(u)
  BY DEF MixOK
<1>3. Profiles(u)' = Profiles(u)
  BY DEF Profiles
<1>4. Growing(u)'
  BY <1>2, <1>3 DEF Growing
<1>5. VectorOK(u)'
  BY <1>2, <1>3 DEF VectorOK, Has
<1>6. SnapshotsOK(u)'
  <2>1. ASSUME NEW s \in Sessions, call'[s].user = u, call'[s].at = "load"
        PROVE  Has(u, call[s].got)'
    <3>1. Mixing(s)'
      BY <2>1 DEF Mixing
    <3>2. Has(u, call[s].got) /\ call'[s].got = call[s].got
      BY <1>1, <1>2, <2>1, <3>1 DEF SnapshotsOK
    <3> QED BY <1>3, <3>2 DEF Has
  <2> QED BY <2>1 DEF SnapshotsOK
<1>7. WritesOK(u)'
  <2>1. ASSUME NEW s \in Sessions, call'[s].user = u, Writes(s)'
        PROVE  /\ Has(u, call[s].batch[1].turns)'
               /\ vectors'[u] # {} => call'[s].batch[1].turns \subseteq vectors'[u]
    <3>1. Mixing(s)'
      BY <2>1 DEF Mixing, Writes
    <3>2. call[s].user = u /\ Writes(s) /\ call'[s].batch = call[s].batch
      BY <1>1, <2>1, <3>1
    <3> QED BY <1>2, <1>3, <3>2 DEF WritesOK, Has
  <2> QED BY <2>1 DEF WritesOK
<1>8. OneMixes(u)'
  BY <1>1, <1>2 DEF OneMixes
<1> QED BY <1>4, <1>5, <1>6, <1>7, <1>8

LEMMA MixInserted ==
  ASSUME TypeOK, CallsOK, MixOK, NEW c \in Callers, Insert(c)
  PROVE  MixOK'
<1>1. Changes(c) /\ call[c].at = "insert" /\ call'[c].at \notin {"index", "load", "begin", "insert"}
  BY InsertChanges
<1>2. vectors' = vectors /\ shaken' = shaken
  BY DEF Insert
<1>3. ASSUME NEW s \in Sessions, Mixing(s)' PROVE s # c /\ call'[s] = call[s] /\ Mixing(s)
  <2>1. s # c
    BY <1>1, <1>3 DEF Mixing
  <2>2. call'[s] = call[s]
    BY <1>1, <2>1 DEF Changes, Becomes, TypeOK, Callers
  <2> QED BY <1>3, <2>1, <2>2 DEF Mixing
<1> SUFFICES ASSUME NEW u \in Users \ shaken
             PROVE  /\ Growing(u)' /\ VectorOK(u)' /\ SnapshotsOK(u)'
                    /\ WritesOK(u)' /\ OneMixes(u)'
  BY <1>2 DEF MixOK
<1>4. Growing(u) /\ VectorOK(u) /\ SnapshotsOK(u) /\ WritesOK(u) /\ OneMixes(u)
  BY DEF MixOK
<1>5. OneMixes(u)'
  BY <1>3, <1>4 DEF OneMixes
<1>6. \A i \in Profiles(u) : log'[u][i] = log[u][i]
  BY InsertProfiles DEF Profiles
<1>7. CASE Profiles(u)' = Profiles(u)
  <2>2. Growing(u)'
    BY <1>4, <1>6, <1>7 DEF Growing
  <2>3. VectorOK(u)'
    BY <1>2, <1>4, <1>6, <1>7 DEF VectorOK, Has
  <2>4. SnapshotsOK(u)'
    <3>1. ASSUME NEW s \in Sessions, call'[s].user = u, call'[s].at = "load"
          PROVE  Has(u, call[s].got)'
      <4>1. call'[s] = call[s]
        BY <1>3, <3>1 DEF Mixing
      <4> QED BY <1>4, <1>6, <1>7, <3>1, <4>1 DEF SnapshotsOK, Has
    <3> QED BY <3>1 DEF SnapshotsOK
  <2>5. WritesOK(u)'
    <3>1. ASSUME NEW s \in Sessions, call'[s].user = u, Writes(s)'
          PROVE  /\ Has(u, call[s].batch[1].turns)'
                 /\ vectors'[u] # {} => call'[s].batch[1].turns \subseteq vectors'[u]
      <4>1. call'[s] = call[s] /\ Writes(s)
        BY <1>3, <3>1 DEF Mixing, Writes
      <4> QED BY <1>2, <1>4, <1>6, <1>7, <3>1, <4>1 DEF WritesOK, Has
    <3> QED BY <3>1 DEF WritesOK
  <2> QED BY <1>5, <2>2, <2>3, <2>4, <2>5
<1>8. CASE /\ c \in Sessions /\ u = call[c].user /\ call[c].batch[1].kind = "profile"
           /\ Profiles(u)' = Profiles(u) \cup {Len(log[u]) + 1}
           /\ log'[u][Len(log[u]) + 1] = call[c].batch[1]
  <2> DEFINE v == call[c].batch[1].turns
             n == Len(log[u]) + 1
  <2>1. Writes(c) /\ Mixing(c)
    BY <1>1, <1>8 DEF Writes, Mixing
  <2>2. Has(u, v) /\ (vectors[u] # {} => v \subseteq vectors[u])
    BY <1>4, <1>8, <2>1 DEF WritesOK
  <2>3. \A i \in Profiles(u) : i < n /\ i # n
    <3>1. log[u] \in Seq(Event)
      BY DEF TypeOK
    <3>2. Len(log[u]) \in Nat /\ DOMAIN log[u] = 1 .. Len(log[u])
      BY <3>1
    <3> QED BY <3>2 DEF Profiles
  <2>4. ASSUME NEW s \in Sessions, call'[s].user = u PROVE ~ Mixing(s)'
    <3>1. ASSUME Mixing(s)' PROVE FALSE
      <4>1. s # c /\ call'[s] = call[s] /\ Mixing(s)
        BY <1>3, <3>1
      <4> QED BY <1>4, <1>8, <2>1, <2>4, <4>1 DEF OneMixes
    <3> QED BY <3>1
  <2> HIDE DEF n, v
  <2>5. log'[u][n].turns = v /\ Profiles(u)' = Profiles(u) \cup {n}
    BY <1>8 DEF n, v
  <2>6. Growing(u)'
    <3>1. ASSUME NEW i \in Profiles(u)', NEW j \in Profiles(u)', i <= j
          PROVE  log'[u][i].turns \subseteq log'[u][j].turns
      <4>1. CASE i \in Profiles(u) /\ j \in Profiles(u)
        BY <1>4, <1>6, <3>1, <4>1 DEF Growing
      <4>2. CASE i \in Profiles(u) /\ j = n
        BY <1>6, <2>2, <2>5, <4>2 DEF Has
      <4>3. CASE i = n /\ j \in Profiles(u)
        <5>1. j < n /\ n <= j
          BY <2>3, <3>1, <4>3
        <5>2. j \in Nat /\ n \in Nat
          BY <4>3 DEF TypeOK, Profiles, n
        <5> QED BY <5>1, <5>2
      <4>4. CASE i = n /\ j = n
        BY <4>4
      <4> QED BY <2>5, <4>1, <4>2, <4>3, <4>4
    <3> QED BY <3>1 DEF Growing
  <2>7. VectorOK(u)'
    <3>1. ASSUME vectors'[u] # {}, NEW i \in Profiles(u)'
          PROVE  log'[u][i].turns \subseteq vectors'[u]
      BY <1>2, <1>4, <1>6, <2>2, <2>5, <3>1 DEF VectorOK, Has
    <3> QED BY <3>1 DEF VectorOK, Has
  <2>8. SnapshotsOK(u)' /\ WritesOK(u)'
    BY <2>4 DEF SnapshotsOK, WritesOK, Mixing, Writes
  <2> QED BY <1>5, <2>6, <2>7, <2>8
<1> QED BY <1>7, <1>8, InsertProfiles

(* Of the user of the turn that makes the step.                             *)
MixingOK(u) == Growing(u) /\ VectorOK(u) /\ SnapshotsOK(u) /\ WritesOK(u) /\ OneMixes(u)

LEMMA MixOwn ==
  ASSUME TypeOK, NEW s \in Sessions, Changes(s), log' = log, NEW u \in Users, Growing(u),
         call'[s].user = u,
         \A r \in Sessions : r # s /\ call[r].user = u => ~ Mixing(r),
         vectors'[u] # {} => Has(u, vectors'[u]),
         call'[s].at = "load" => Has(u, call'[s].got),
         call'[s].at = "begin" => /\ Has(u, call'[s].batch[1].turns)
                                  /\ call'[s].batch[1].turns \subseteq vectors'[u],
         call'[s].at \in {"index", "load", "begin"}
  PROVE  MixingOK(u)'
<1>1. ASSUME NEW r \in Sessions, Mixing(r)', call'[r].user = u PROVE r = s
  <2>1. ASSUME r # s PROVE FALSE
    <3>1. call'[r] = call[r]
      BY <2>1 DEF Changes, Becomes, TypeOK, Callers
    <3> QED BY <1>1, <2>1, <3>1 DEF Mixing
  <2> QED BY <2>1
<1>2. Profiles(u)' = Profiles(u)
  BY DEF Profiles
<1>3. Growing(u)'
  BY <1>2 DEF Growing
<1>4. VectorOK(u)'
  BY <1>2 DEF VectorOK, Has
<1>5. SnapshotsOK(u)'
  <2>1. ASSUME NEW r \in Sessions, call'[r].user = u, call'[r].at = "load"
        PROVE  Has(u, call[r].got)'
    <3>1. r = s
      BY <1>1, <2>1 DEF Mixing
    <3> QED BY <1>2, <2>1, <3>1 DEF Has
  <2> QED BY <2>1 DEF SnapshotsOK
<1>6. WritesOK(u)'
  <2>1. ASSUME NEW r \in Sessions, call'[r].user = u, Writes(r)'
        PROVE  /\ Has(u, call[r].batch[1].turns)'
               /\ vectors'[u] # {} => call'[r].batch[1].turns \subseteq vectors'[u]
    <3>1. r = s
      BY <1>1, <2>1 DEF Mixing, Writes
    <3>2. call'[s].at = "begin"
      BY <2>1, <3>1 DEF Writes
    <3> QED BY <1>2, <3>1, <3>2 DEF Has
  <2> QED BY <2>1 DEF WritesOK
<1>7. OneMixes(u)'
  BY <1>1 DEF OneMixes
<1> QED BY <1>3, <1>4, <1>5, <1>6, <1>7 DEF MixingOK

(* Of the others, whose vectors are kept or dropped.                        *)
LEMMA MixOthers ==
  ASSUME TypeOK, NEW s \in Sessions, Changes(s), log' = log, NEW u \in Users, MixingOK(u),
         call'[s].user # u, vectors'[u] \in {vectors[u], {}}
  PROVE  MixingOK(u)'
<1>1. ASSUME NEW r \in Sessions, call'[r].user = u PROVE call'[r] = call[r]
  BY <1>1 DEF Changes, Becomes, TypeOK, Callers
<1>2. Profiles(u)' = Profiles(u)
  BY DEF Profiles
<1>3. Growing(u)'
  BY <1>2 DEF MixingOK, Growing
<1>4. VectorOK(u)'
  BY <1>2 DEF MixingOK, VectorOK, Has
<1>5. SnapshotsOK(u)'
  <2>1. ASSUME NEW r \in Sessions, call'[r].user = u, call'[r].at = "load"
        PROVE  Has(u, call[r].got)'
    BY <1>1, <1>2, <2>1 DEF MixingOK, SnapshotsOK, Has
  <2> QED BY <2>1 DEF SnapshotsOK
<1>6. WritesOK(u)'
  <2>1. ASSUME NEW r \in Sessions, call'[r].user = u, Writes(r)'
        PROVE  /\ Has(u, call[r].batch[1].turns)'
               /\ vectors'[u] # {} => call'[r].batch[1].turns \subseteq vectors'[u]
    <3>1. call'[r] = call[r] /\ Writes(r)
      BY <1>1, <2>1 DEF Writes
    <3> QED BY <1>2, <2>1, <3>1 DEF MixingOK, WritesOK, Has
  <2> QED BY <2>1 DEF WritesOK
<1>7. OneMixes(u)'
  BY <1>1 DEF MixingOK, OneMixes, Mixing
<1> QED BY <1>3, <1>4, <1>5, <1>6, <1>7 DEF MixingOK

LEMMA MixTaken ==
  ASSUME TypeOK, CallsOK, HasLatest, MixOK, NEW s \in Sessions, TakeTurn(s)
  PROVE  MixOK'
<1> DEFINE o == owner[s]
<1>1. /\ Changes(s) /\ call[s].at = "idle" /\ call'[s].user = o /\ o \in Users
      /\ log' = log /\ shaken \subseteq shaken' /\ (Overlaps(o) => o \in shaken')
  BY TakeTurnChanges DEF TakeTurn
<1>2. \/ /\ vectors[o] # {} /\ call'[s].at = "begin"
         /\ \E v \in SUBSET Turns :
              /\ vectors[o] \subseteq v /\ call'[s].batch = <<Profile(s, v)>>
              /\ vectors' = [vectors EXCEPT ![o] = v]
      \/ call'[s].at = "index" /\ vectors' = vectors
  BY TakeTurnChanges
<1> HIDE DEF o
<1> SUFFICES ASSUME NEW u \in Users \ shaken' PROVE MixingOK(u)'
  BY DEF MixOK, MixingOK
<1>3. MixingOK(u)
  BY <1>1 DEF MixOK, MixingOK
<1>4. CASE u # o
  <2>1. vectors'[u] = vectors[u]
    BY <1>2, <1>4 DEF TypeOK
  <2> QED BY <1>1, <1>3, <1>4, <2>1, MixOthers
<1>5. CASE u = o
  <2>1. \A r \in Sessions : call[r].user = u => ~ Mixing(r)
    BY <1>1, <1>5 DEF Overlaps
  <2>2. CASE call'[s].at = "index" /\ vectors' = vectors
    BY <1>1, <1>3, <1>5, <2>1, <2>2, MixOwn DEF MixingOK, VectorOK
  <2>3. CASE /\ vectors[o] # {} /\ call'[s].at = "begin"
             /\ \E v \in SUBSET Turns :
                  /\ vectors[o] \subseteq v /\ call'[s].batch = <<Profile(s, v)>>
                  /\ vectors' = [vectors EXCEPT ![o] = v]
    <3>1. PICK v \in SUBSET Turns : /\ vectors[o] \subseteq v
                                    /\ call'[s].batch = <<Profile(s, v)>>
                                    /\ vectors' = [vectors EXCEPT ![o] = v]
      BY <2>3
    <3>2. vectors'[u] = v /\ call'[s].batch[1].turns = v
      BY <1>5, <3>1 DEF TypeOK, Profile
    <3>3. Has(u, v)
      BY <1>3, <1>5, <2>3, <3>1 DEF MixingOK, VectorOK, Has
    <3>4. Growing(u) /\ call'[s].user = u /\ call'[s].at = "begin"
      BY <1>1, <1>3, <1>5, <2>3 DEF MixingOK
    <3> QED BY <1>1, <2>1, <3>2, <3>3, <3>4, MixOwn
  <2> QED BY <1>2, <2>2, <2>3
<1> QED BY <1>4, <1>5

LEMMA MixRead ==
  ASSUME TypeOK, CallsOK, HasLatest, MixOK, NEW s \in Sessions, ReadIndex(s) \/ IndexFails(s)
  PROVE  MixOK'
<1> DEFINE o == call[s].user
<1>1. /\ Changes(s) /\ call[s].at = "index" /\ call'[s].at = "load"
      /\ call'[s].user = o /\ o \in Users /\ log' = log /\ vectors' = vectors
      /\ shaken \subseteq shaken' /\ (o \in shaken' \/ call'[s].got = Snapshot(o))
  BY ReadChanges DEF ReadIndex, IndexFails
<1> HIDE DEF o
<1> SUFFICES ASSUME NEW u \in Users \ shaken' PROVE MixingOK(u)'
  BY DEF MixOK, MixingOK
<1>2. MixingOK(u)
  BY <1>1 DEF MixOK, MixingOK
<1>3. CASE u # o
  BY <1>1, <1>2, <1>3, MixOthers
<1>4. CASE u = o
  <2>1. ASSUME NEW r \in Sessions, r # s, call[r].user = u PROVE ~ Mixing(r)
    <3>1. Mixing(s) /\ call[s].user = u
      BY <1>1, <1>4 DEF Mixing, o
    <3> QED BY <1>2, <2>1, <3>1 DEF MixingOK, OneMixes
  <2>2. Has(u, Snapshot(u))
    <3>1. CASE Profiles(u) = {}
      BY <3>1 DEF Has
    <3>2. ASSUME NEW i \in Profiles(u), \A j \in Profiles(u) : j <= i,
                 Snapshot(u) = log[u][i].turns
          PROVE  Has(u, Snapshot(u))
      BY <1>2, <3>2 DEF MixingOK, Growing, Has
    <3> QED BY <3>1, <3>2, SnapshotIsLatest
  <2>3. Has(u, call'[s].got)
    BY <1>1, <1>4, <2>2
  <2>4. vectors'[u] # {} => Has(u, vectors'[u])
    BY <1>1, <1>2 DEF MixingOK, VectorOK
  <2>5. Growing(u) /\ call'[s].user = u
    BY <1>1, <1>2, <1>4 DEF MixingOK
  <2> QED BY <1>1, <2>1, <2>3, <2>4, <2>5, MixOwn
<1> QED BY <1>3, <1>4

LEMMA MixRestored ==
  ASSUME TypeOK, CallsOK, HasLatest, MixOK, NEW s \in Sessions, Restore(s)
  PROVE  MixOK'
<1> DEFINE o == call[s].user
<1>1. /\ Changes(s) /\ call[s].at = "load" /\ call'[s].at = "begin"
      /\ call'[s].user = o /\ o \in Users /\ log' = log /\ shaken' = shaken
  BY RestoreChanges DEF Restore
<1>2. PICK v \in SUBSET Turns :
        /\ call[s].got \subseteq v /\ call'[s].batch = <<Profile(s, v)>>
        /\ vectors'[o] = v
        /\ \A u \in Users : u # o => vectors'[u] \in {vectors[u], {}}
  BY RestoreChanges
<1> SUFFICES ASSUME NEW u \in Users \ shaken PROVE MixingOK(u)'
  BY <1>1 DEF MixOK, MixingOK
<1>3. MixingOK(u)
  BY DEF MixOK, MixingOK
<1>4. CASE u # o
  BY <1>1, <1>2, <1>3, <1>4, MixOthers
<1>5. CASE u = o
  <2>1. ASSUME NEW r \in Sessions, r # s, call[r].user = u PROVE ~ Mixing(r)
    <3>1. Mixing(s) /\ call[s].user = u
      BY <1>1, <1>5 DEF Mixing
    <3> QED BY <1>3, <2>1, <3>1 DEF MixingOK, OneMixes
  <2>2. Has(u, call[s].got)
    BY <1>1, <1>3, <1>5 DEF MixingOK, SnapshotsOK
  <2>3. Has(u, v)
    BY <1>2, <2>2 DEF Has
  <2>4. call'[s].batch[1].turns = v /\ vectors'[u] = v
    BY <1>2, <1>5 DEF Profile
  <2>5. Growing(u) /\ call'[s].user = u
    BY <1>1, <1>3, <1>5 DEF MixingOK
  <2> QED BY <1>1, <2>1, <2>3, <2>4, <2>5, MixOwn
<1> QED BY <1>4, <1>5

LEMMA MixStep == TypeOK /\ CallsOK /\ HasLatest /\ MixOK /\ [Next]_vars => MixOK'
<1> SUFFICES ASSUME TypeOK, CallsOK, HasLatest, MixOK, [Next]_vars PROVE MixOK'
  OBVIOUS
<1>0. Requests \subseteq Callers /\ Sessions \subseteq Callers /\ Requests \cap Sessions = {}
  BY UserAssumption DEF Callers
<1>1. ASSUME NEW c \in Callers, AppendNext(c) PROVE MixOK'
  <2>1. CASE Begin(c)
    <3>1. /\ Changes(c) /\ call[c].at = "begin" /\ call'[c].at = "insert"
          /\ call'[c].batch = call[c].batch /\ call'[c].user = call[c].user
      BY <2>1, BeginChanges DEF Begin
    <3>2. log' = log /\ vectors' = vectors /\ shaken' = shaken
      BY <2>1 DEF Begin
    <3>3. Mixing(c)' => Writes(c) /\ Writes(c)'
      BY <3>1 DEF Mixing, Writes
    <3> QED BY <3>1, <3>2, <3>3, MixKept
  <2>2. CASE Refused(c)
    <3>1. Changes(c) /\ call'[c].at \in {"idle", "profiled", "answered", "failed"}
      BY <2>2, InsertChanges
    <3>2. log' = log /\ vectors' = vectors /\ shaken' = shaken
      BY <2>2 DEF Refused
    <3>3. ~ Mixing(c)'
      BY <3>1 DEF Mixing
    <3> QED BY <3>1, <3>2, <3>3, MixKept
  <2>3. CASE AppendFails(c)
    <3>1. Changes(c) /\ call'[c].at \in {"idle", "profiled", "answered", "failed"}
      BY <2>3, FailChanges
    <3>2. log' = log /\ vectors' = vectors /\ shaken \subseteq shaken'
      BY <2>3 DEF AppendFails
    <3>3. ~ Mixing(c)'
      BY <3>1 DEF Mixing
    <3> QED BY <3>1, <3>2, <3>3, MixKept
  <2> QED BY <1>1, <2>1, <2>2, <2>3, MixInserted DEF AppendNext
<1>2. ASSUME NEW c \in Requests, RequestNext(c) PROVE MixOK'
  <2>1. log' = log /\ vectors' = vectors /\ shaken' = shaken
    BY <1>2 DEF RequestNext, CreateUser, UpdateUser, CreateSession, StartSession, LinkSession
  <2>2. Changes(c)
    BY <1>2, RequestChanges, StartChanges, LinkChanges DEF RequestNext
  <2> QED BY <1>0, <2>1, <2>2, MixKept
<1>3. ASSUME NEW s \in Sessions, Reflect(s) \/ EndTurn(s) PROVE MixOK'
  <2>1. log' = log /\ vectors' = vectors /\ shaken' = shaken
    BY <1>3 DEF Reflect, EndTurn
  <2>2. /\ Changes(s)
        /\ \/ call'[s].at = "idle"
           \/ call'[s].at = "begin" /\ call'[s].batch = <<Reflected(s)>>
    BY <1>3, EndChanges
  <2>3. ~ Mixing(s)'
    BY <2>2 DEF Mixing, Reflected
  <2> QED BY <1>0, <2>1, <2>2, <2>3, MixKept
<1>4. CASE Crash
  <2>1. log' = log /\ shaken' = shaken /\ \A u \in Users : vectors'[u] = {}
    BY <1>4 DEF Crash
  <2>2. \A s \in Sessions : call'[s].at = "idle"
    BY <1>0, <1>4 DEF Crash, Idle, At
  <2> QED BY <2>1, <2>2
          DEF MixOK, Growing, VectorOK, SnapshotsOK, WritesOK, OneMixes, Mixing, Writes, Profiles
<1>5. CASE UNCHANGED vars
  BY <1>5 DEF vars, MixOK, Growing, VectorOK, SnapshotsOK, WritesOK, OneMixes, Mixing, Writes,
              Profiles, Has
<1> QED BY <1>1, <1>2, <1>3, <1>4, <1>5, MixTaken, MixRead, MixRestored DEF Next, TurnNext

-----------------------------------------------------------------------------
(* The inductive invariant: what the calls are about to do, and what of it  *)
(* keeps each of the properties.                                            *)
IInv ==
  /\ TypeOK /\ CallsOK /\ HasLatest
  /\ CreatedFirst /\ AnsweredUserIsKnown /\ LinksOK /\ MixOK

LEMMA Invariance == Spec => []IInv
<1>1. Init => IInv
  <2> SUFFICES ASSUME Init PROVE IInv
    OBVIOUS
  <2>1. TypeOK /\ CallsOK /\ HasLatest
    BY InitInvariant
  <2>2. /\ \A u \in Users : log[u] = <<>> /\ vectors[u] = {} /\ Profiles(u) = {}
        /\ \A c \in Callers : call[c].at = "idle"
    BY DEF Init, Profiles, Idle, At
  <2>3. CreatedFirst /\ LinksHaveSessions /\ LinkedIsStarted
    BY <2>2 DEF CreatedFirst, LinksHaveSessions, LinkedIsStarted
  <2>4. AnsweredUserIsKnown /\ RightsOK
    BY <2>2 DEF AnsweredUserIsKnown, RightsOK, HasRight, Callers
  <2>5. MixOK
    BY <2>2
       DEF MixOK, Growing, VectorOK, SnapshotsOK, WritesOK, OneMixes, Mixing, Writes, Callers
  <2> QED BY <2>1, <2>3, <2>4, <2>5 DEF IInv, LinksOK
<1>2. IInv /\ [Next]_vars => IInv'
  BY TypeStep, CallsStep, LatestStep, CreatedStep, KnownStep, LinksStep, MixStep DEF IInv
<1> QED BY <1>1, <1>2, PTL DEF Spec

(* Every step keeps streams, vectors and calls well typed.                  *)
THEOREM UserTypeCorrectness == Spec => []TypeOK
<1>1. IInv => TypeOK
  BY DEF IInv
<1> QED BY <1>1, Invariance, PTL

(* However the first sessions and requests of a user race, it is created    *)
(* once, and before anything else is recorded of it.                        *)
THEOREM UsersAreCreatedFirst == Spec => []CreatedFirst
<1>1. IInv => CreatedFirst
  BY DEF IInv
<1> QED BY <1>1, Invariance, PTL

(* A session is linked at most once, to the user it was started for.        *)
THEOREM SessionsLinkOnce == Spec => []LinkedIsStarted
<1>1. IInv => LinkedIsStarted
  BY DEF IInv, LinksOK
<1> QED BY <1>1, Invariance, PTL

(* Whoever was answered finds a stream of its user, although create_session *)
(* answers after a link that was refused, unless the store failed the link. *)
THEOREM AnsweredUsersAreKnown == Spec => []AnsweredUserIsKnown
<1>1. IInv => AnsweredUserIsKnown
  BY DEF IInv
<1> QED BY <1>1, Invariance, PTL

(* A user's persisted profile loses no turn over crashes, restores and      *)
(* refused appends, as long as its turns were mixed in one at a time and    *)
(* its index could be read.                                                 *)
THEOREM ProfilesOnlyGrow == Spec => []ProfilesGrow
<1>1. IInv => ProfilesGrow
  BY DEF IInv, MixOK, Growing, ProfilesGrow
<1> QED BY <1>1, Invariance, PTL
=============================================================================
