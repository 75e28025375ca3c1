--------------------------- MODULE FollowupLineProofs ---------------------------
(***************************************************************************)
(* Proofs about the line of touches of a session, for any cadence, any     *)
(* spacing and any bounds.                                                 *)
(***************************************************************************)
EXTENDS FollowupLine, LifecycleProofs

-----------------------------------------------------------------------------
(* The greatest of some numbers. *)

LEMMA MaxIsThere ==
  ASSUME NEW S, \E x \in S : \A y \in S : x >= y
  PROVE  Max(S) \in S /\ \A y \in S : Max(S) >= y
  BY DEF Max

LEMMA MaxOfThree ==
  ASSUME NEW a \in Int, NEW b \in Int, NEW c \in Int
  PROVE  LET m == Max({a, b, c}) IN m \in Int /\ m >= a /\ m >= b /\ m >= c
<1> DEFINE S == {a, b, c}
<1>1. \E x \in S : \A y \in S : x >= y
  <2>1. CASE a >= b /\ a >= c
    BY <2>1
  <2>2. CASE b >= a /\ b >= c
    BY <2>2
  <2>3. CASE c >= a /\ c >= b
    BY <2>3
  <2> QED
    BY <2>1, <2>2, <2>3
<1>2. Max(S) \in S /\ \A y \in S : Max(S) >= y
  <2> HIDE DEF S
  <2> QED
    BY <1>1, MaxIsThere
<1> QED
  BY <1>2

(* Numbers up to a bound have a greatest one. *)
LEMMA MaxOfBounded ==
  ASSUME NEW N \in Nat, NEW S, S # {}, S \subseteq 0 .. N
  PROVE  Max(S) \in S /\ \A y \in S : Max(S) >= y
<1> DEFINE T == {n \in Nat : N - n \in S}
<1>1. T # {}
  <2>1. PICK x \in S : TRUE
    OBVIOUS
  <2>2. x \in 0 .. N /\ N - x \in Nat /\ N - (N - x) = x
    BY <2>1
  <2> QED
    BY <2>1, <2>2
<1>2. PICK n \in T : \A m \in T : ~(<<m, n>> \in OpToRel(<, Nat))
  BY <1>1, NatLessThanWellFounded, WFMin
<1>3. \A y \in S : N - n >= y
  <2> TAKE y \in S
  <2>1. y \in 0 .. N /\ N - y \in Nat /\ N - (N - y) = y
    OBVIOUS
  <2>2. N - y \in T
    BY <2>1
  <2>3. ~(N - y < n)
    BY <1>2, <2>1, <2>2 DEF OpToRel
  <2> QED
    BY <2>1, <2>3
<1> QED
  BY <1>3, MaxIsThere

-----------------------------------------------------------------------------
(* The cadence. *)

LEMMA CadenceIs ==
  /\ StageCount \in Nat \ {0}
  /\ \A i \in Stages : Label[i] \in StageLabels
  BY CadenceAssumption DEF StageCount, Stages

LEMMA SpacingIs ==
  /\ \A i \in Stages : /\ Interval[i] \in Nat /\ Learning[i] \in Nat
                       /\ UserSpace[i] \in Nat /\ DispatchSpace[i] \in Nat
                       /\ MaxOverdue[i] \in Nat
  /\ Window \in Nat /\ Cooldown \in Nat /\ MaxTime \in Nat
  /\ RetryAfter \in Nat /\ SlowBy \in Nat /\ LineBy \in Nat
  /\ MaxTurns \in Nat \ {0}
  BY LineAssumption

(* A time, or none. *)
Entered == Int \cup {Nothing}

(* Whatever was put off, a stage is due no earlier than its space allows.   *)
LEMMA DueKeepsSpace ==
  ASSUME TypeOK, NEW i \in Stages, NEW entry \in Entered
  PROVE  /\ DueAt(i, entry) \in Int
         /\ DueAt(i, entry) >= directive.at + UserSpace[i]
         /\ sent = <<>> \/ DueAt(i, entry) >= LastSent.at + DispatchSpace[i]
<1>1. /\ directive.at \in Int
      /\ sent # <<>> => LastSent.at \in Int
      /\ gate # Nothing => gate.at \in Int
  <2>1. 0 .. MaxTime \subseteq Int
    BY SpacingIs
  <2>2. directive.at \in 0 .. MaxTime /\ (gate # Nothing => gate.at \in 0 .. MaxTime)
    BY DEF TypeOK, Touch
  <2>3. sent # <<>> => LastSent \in Touch
    BY DEF TypeOK, LastSent
  <2>4. \A touch \in Touch : touch.at \in 0 .. MaxTime
    BY DEF Touch
  <2> QED
    BY <2>1, <2>2, <2>3, <2>4
<1>2. SentAt \in Int
  BY <1>1 DEF SentAt
<1>3. CooledAt(i, entry) \in Int
  <2>1. CASE entry = Nothing
    <3>1. BaseDueAt(i, entry) \in Int /\ SentAt + Cooldown \in Int
      BY <1>2, <2>1, SpacingIs DEF BaseDueAt
    <3>2. {BaseDueAt(i, entry), SentAt + Cooldown}
            = {BaseDueAt(i, entry), SentAt + Cooldown, SentAt + Cooldown}
      OBVIOUS
    <3>3. Max({BaseDueAt(i, entry), SentAt + Cooldown}) \in Int
      BY <3>1, <3>2, MaxOfThree
    <3> QED
      BY <2>1, <3>3 DEF CooledAt
  <2>2. CASE entry # Nothing
    BY <2>2 DEF CooledAt, Entered
  <2> QED
    BY <2>1, <2>2
<1> DEFINE learned == CooledAt(i, entry) + (IF entry = Nothing THEN Learning[i] ELSE 0)
           user == directive.at + UserSpace[i]
           touch == LastSent.at + DispatchSpace[i]
           guarded == GuardedAt(i, entry)
<1>4. learned \in Int /\ user \in Int /\ (sent # <<>> => touch \in Int)
  BY <1>1, <1>3, SpacingIs
<1>5. guarded \in Int /\ guarded >= user /\ (sent = <<>> \/ guarded >= touch)
  <2>1. guarded = Max({learned, user} \cup (IF sent = <<>> THEN {} ELSE {touch}))
    BY DEF GuardedAt
  <2> HIDE DEF learned, user, touch, guarded
  <2>2. CASE sent = <<>>
    <3>1. {learned, user} \cup (IF sent = <<>> THEN {} ELSE {touch}) = {learned, user, user}
      BY <2>2
    <3> QED
      BY <1>4, <2>1, <2>2, <3>1, MaxOfThree
  <2>3. CASE sent # <<>>
    <3>1. {learned, user} \cup (IF sent = <<>> THEN {} ELSE {touch}) = {learned, user, touch}
      BY <2>3
    <3> QED
      BY <1>4, <2>1, <2>3, <3>1, MaxOfThree
  <2> QED
    BY <2>2, <2>3
<1> HIDE DEF learned, user, touch, guarded
<1> DEFINE controlled == ControlledAt(i, entry)
<1>6. controlled \in Int /\ controlled >= guarded
  BY <1>5, SpacingIs DEF ControlledAt, guarded
<1> HIDE DEF controlled
<1>7. DueAt(i, entry) \in Int /\ DueAt(i, entry) >= controlled
  <2>1. CASE gate # Nothing /\ gate.stage = i
    <3>1. {gate.at, controlled} = {gate.at, controlled, controlled}
      OBVIOUS
    <3>2. Max({gate.at, controlled}) \in Int /\ Max({gate.at, controlled}) >= controlled
      BY <1>1, <1>6, <2>1, <3>1, MaxOfThree
    <3>3. DueAt(i, entry) = Max({gate.at, controlled}) + RetryAfter
      BY <2>1 DEF DueAt, controlled
    <3> QED
      BY <1>6, <3>2, <3>3, SpacingIs
  <2>2. CASE ~(gate # Nothing /\ gate.stage = i)
    BY <1>6, <2>2 DEF DueAt, controlled
  <2> QED
    BY <2>1, <2>2
<1> QED
  BY <1>4, <1>5, <1>6, <1>7 DEF user, touch

-----------------------------------------------------------------------------
(* The walk over the stages. *)

(* When a stage is entered depends on the stages before it. *)
LEMMA EntryLooksBack ==
  ASSUME NEW i \in Stages, NEW s, NEW t, \A j \in 1 .. (i - 1) : s[j] = t[j]
  PROVE  Entry(i, s) = Entry(i, t)
<1> DEFINE left(e) == {j \in 1 .. (i - 1) : /\ e[j] # NotReached
                                            /\ GivenUp(j, e[j])
                                            /\ Successor(j) = i}
<1>1. left(s) = left(t)
  OBVIOUS
<1>2. ASSUME NEW L, L # {}, L \subseteq 1 .. (i - 1)
      PROVE  (LET j == CHOOSE j \in L : TRUE IN GivenUpAt(j, s[j]))
               = (LET j == CHOOSE j \in L : TRUE IN GivenUpAt(j, t[j]))
  BY <1>2
<1>3. left(s) \subseteq 1 .. (i - 1)
  OBVIOUS
<1> QED
  BY <1>1, <1>2, <1>3 DEF Entry

LEMMA EntriesByStage ==
  /\ DOMAIN Entries = Stages
  /\ \A i \in Stages : Entries[i] = Entry(i, Entries)
<1> DEFINE Walked(s, n) == s = [i \in 1 .. n |-> Entry(i, s)]
           S == {n \in Nat : \E s : Walked(s, n)}
           N == StageCount - 1
<1>1. N \in Nat /\ N + 1 = StageCount
  BY CadenceIs
<1>2. ASSUME NEW n \in 0 .. N, \E s : Walked(s, n)
      PROVE  \E s : Walked(s, n + 1)
  <2>1. PICK s : Walked(s, n)
    BY <1>2
  <2>2. \A i \in 1 .. n : s[i] = Entry(i, s)
    BY <2>1
  <2> DEFINE t == [i \in 1 .. n + 1 |-> Entry(i, s)]
  <2>3. \A j \in 1 .. n : j \in 1 .. n + 1
    BY <1>1
  <2>4. \A j \in 1 .. n : t[j] = s[j]
    BY <2>2, <2>3
  <2> HIDE DEF t
  <2>5. ASSUME NEW i \in 1 .. n + 1
        PROVE  Entry(i, s) = Entry(i, t)
    <3>1. i \in Stages /\ \A j \in 1 .. (i - 1) : j \in 1 .. n
      BY <1>1 DEF Stages
    <3> QED
      BY <2>4, <3>1, EntryLooksBack
  <2>6. t = [i \in 1 .. n + 1 |-> Entry(i, t)]
    BY <2>5 DEF t
  <2> QED
    BY <2>6
<1>3. 1 \in S
  <2> DEFINE s == [i \in 1 .. 0 |-> 0]
  <2>1. s = [i \in 1 .. 0 |-> Entry(i, s)]
    OBVIOUS
  <2>2. \E u : Walked(u, 0)
    BY <2>1
  <2>3. 0 \in 0 .. N /\ 0 + 1 = 1
    BY <1>1
  <2> HIDE DEF Walked
  <2>4. \E u : Walked(u, 0 + 1)
    BY <1>2, <2>2, <2>3
  <2> QED
    BY <2>3, <2>4
<1>4. ASSUME NEW n \in 1 .. N, n \in S
      PROVE  n + 1 \in S
  <2> HIDE DEF Walked
  <2>1. n \in 0 .. N /\ n + 1 \in Nat
    BY <1>1
  <2> QED
    BY <1>2, <1>4, <2>1
<1>5. 1 .. N + 1 \subseteq S
  <2> HIDE DEF S, N
  <2> QED
    BY <1>1, <1>3, <1>4, PhaseInduction
<1>6. \E s : s = [i \in Stages |-> Entry(i, s)]
  BY <1>1, <1>5 DEF Stages
<1>7. Entries = [i \in Stages |-> Entry(i, Entries)]
  BY <1>6 DEF Entries
<1> QED
  BY <1>7

LEMMA EntriesAreTimes ==
  ASSUME TypeOK
  PROVE  \A i \in Stages : Entries[i] \in Entered
<1> DEFINE S == {n \in Stages : \A j \in 1 .. n : Entries[j] \in Entered}
           N == StageCount - 1
<1>1. N \in Nat /\ N + 1 = StageCount
  BY CadenceIs
<1>2. ASSUME NEW i \in Stages, \A j \in 1 .. (i - 1) : Entries[j] \in Entered
      PROVE  Entries[i] \in Entered
  <2> DEFINE left == {j \in 1 .. (i - 1) : /\ Entries[j] # NotReached
                                           /\ GivenUp(j, Entries[j])
                                           /\ Successor(j) = i}
             j == CHOOSE j \in left : TRUE
  <2>1. Entries[i] = IF i = Len(sent) + 1 THEN Nothing
                     ELSE IF left = {} \/ i <= Len(sent) THEN NotReached
                     ELSE GivenUpAt(j, Entries[j])
    BY EntriesByStage DEF Entry
  <2>2. CASE left = {}
    BY <2>1, <2>2 DEF Entered, NotReached
  <2>3. CASE left # {}
    <3>1. j \in left
      BY <2>3
    <3> HIDE DEF j
    <3>2. j \in Stages /\ Entries[j] \in Entered
      BY <1>1, <1>2, <3>1 DEF Stages
    <3>3. DueAt(j, Entries[j]) \in Int
      BY <3>2, DueKeepsSpace
    <3>4. GivenUpAt(j, Entries[j]) \in Int
      BY <3>2, <3>3, SpacingIs DEF GivenUpAt, ExpiresAt
    <3> HIDE DEF left
    <3> QED
      BY <2>1, <3>4 DEF Entered, NotReached
  <2> QED
    BY <2>2, <2>3
<1>3. 1 \in S
  <2>1. 1 \in Stages /\ \A j \in 1 .. (1 - 1) : Entries[j] \in Entered
    BY CadenceIs DEF Stages
  <2> QED
    BY <1>2, <2>1
<1>4. ASSUME NEW n \in 1 .. N, n \in S
      PROVE  n + 1 \in S
  <2>1. n + 1 \in Stages /\ n + 1 - 1 = n
    BY <1>1 DEF Stages
  <2>2. Entries[n + 1] \in Entered
    BY <1>2, <1>4, <2>1
  <2>3. \A j \in 1 .. n + 1 : j \in 1 .. n \/ j = n + 1
    BY <1>1
  <2> QED
    BY <1>4, <2>1, <2>2, <2>3
<1>5. 1 .. N + 1 \subseteq S
  <2> HIDE DEF S, N
  <2> QED
    BY <1>1, <1>3, <1>4, PhaseInduction
<1> QED
  BY <1>1, <1>5 DEF Stages

-----------------------------------------------------------------------------
(* What the listing reads. *)

(* What the listing has made of the tables up to the n-th. *)
Unread == [matched |-> {}, makes |-> "none"]
ReadTo(read, N, chain, label) ==
  read = [n \in 0 .. N |-> IF n = 0 THEN Unread
                           ELSE ReadOn(n, chain[PhaseCount + 2 - n], label, read[n - 1])]

LEMMA ReadingByTable ==
  ASSUME NEW chain, NEW label
  PROVE  \E read : /\ ReadTo(read, PhaseCount + 1, chain, label)
                   /\ Reading(chain, label) = read[PhaseCount + 1].makes
<1> DEFINE S == {n \in Nat : \E read : ReadTo(read, n - 1, chain, label)}
<1>1. 1 \in S
  <2> DEFINE t == [n \in 0 .. 0 |-> Unread]
  <2>1. ReadTo(t, 0, chain, label)
    BY DEF ReadTo
  <2> QED
    BY <2>1
<1>2. ASSUME NEW m \in 1 .. 53, m \in S
      PROVE  m + 1 \in S
  <2>1. PICK s : ReadTo(s, m - 1, chain, label)
    BY <1>2
  <2> DEFINE t == [n \in 0 .. m |-> IF n = 0 THEN Unread
                           ELSE ReadOn(n, chain[PhaseCount + 2 - n], label, s[n - 1])]
  <2>2. \A n \in 0 .. m - 1 : t[n] = s[n]
    BY <2>1 DEF ReadTo
  <2> HIDE DEF t
  <2>3. \A n \in 0 .. m : n # 0 => n - 1 \in 0 .. m - 1
    OBVIOUS
  <2>4. \A n \in 0 .. m : n # 0 => t[n - 1] = s[n - 1]
    BY <2>2, <2>3
  <2>5. ReadTo(t, m, chain, label)
    BY <2>4 DEF ReadTo, t
  <2>6. m + 1 \in Nat /\ m + 1 - 1 = m
    OBVIOUS
  <2> QED
    BY <2>5, <2>6
<1>3. 1 .. 53 + 1 \subseteq S
  <2> HIDE DEF S
  <2> QED
    BY <1>1, <1>2, PhaseInduction
<1>4. \E read : ReadTo(read, PhaseCount + 1, chain, label)
  <2>1. 54 \in S
    BY <1>3
  <2>2. 54 - 1 = PhaseCount + 1
    BY ThereAre52Phases
  <2> QED
    BY <2>1, <2>2
<1> QED
  BY <1>4 DEF Reading, ReadTo, Unread

(* What a line retired says ends the item, whatever the stage. *)
LEMMA RetiredIsRead ==
  ASSUME NEW r, Resolves("retire", r), NEW label
  PROVE  Reading(Chain(r), label) = "ended"
<1> DEFINE chain == Chain(r)
<1>1. chain[53].decision \in PhaseOverrides[1].terminates
  <2>1. PICK kind \in Kinds : DecidesIn(52, kind, r) /\ kind \in {"close", "retire"}
    BY EachPhaseDecides
  <2>2. Says(52, kind, chain[53])
    BY <2>1 DEF DecidesIn
  <2>3. chain[53].status = "terminal"
    BY <2>1, <2>2 DEF Says, StatusForCase
  <2>4. Follows(PhaseOverrides[1], 52)
    BY TheListingFollowsTheTable
  <2> HIDE DEF chain
  <2>5. Read(PhaseOverrides[1], chain[53])
    BY <2>2, <2>4, DecisionsAreRead
  <2> QED
    BY <2>3, <2>5 DEF Read
<1>2. PhaseOverrides[1].matchBlockers = {} /\ PhaseOverrides[1].actionBlockers = {}
  <2>1. PhaseOverrides[1] = FoundationOverrides[1]
    BY DEF PhaseOverrides, FoundationOverrides, HeritageOverrides,
           CertificationOverrides, StewardshipOverrides, ActivationOverrides
  <2> QED
    BY <2>1 DEF FoundationOverrides, Reads
<1> HIDE DEF chain
<1>3. PICK read : /\ ReadTo(read, PhaseCount + 1, chain, label)
                  /\ Reading(chain, label) = read[PhaseCount + 1].makes
  BY ReadingByTable
<1>4. /\ read[0] = Unread
      /\ \A n \in 1 .. 53 : read[n] = ReadOn(n, chain[54 - n], label, read[n - 1])
  <2>1. read = [n \in 0 .. 53 |-> IF n = 0 THEN Unread
                           ELSE ReadOn(n, chain[54 - n], label, read[n - 1])]
    BY <1>3, ThereAre52Phases DEF ReadTo
  <2> QED
    BY <2>1
<1> DEFINE S == {n \in 1 .. 53 : read[n].makes = "ended"}
<1>5. 1 \in S
  <2>1. read[1] = ReadOn(1, chain[53], label, Unread)
    BY <1>4
  <2>2. read[1].makes = "ended"
    BY <1>1, <1>2, <2>1 DEF ReadOn, Matches, Unread
  <2> QED
    BY <2>2
<1>6. ASSUME NEW n \in 1 .. 52, n \in S
      PROVE  n + 1 \in S
  <2>1. read[n + 1] = ReadOn(n + 1, chain[54 - (n + 1)], label, read[n])
    BY <1>4
  <2>2. read[n + 1] = read[n]
    BY <1>6, <2>1 DEF ReadOn
  <2> QED
    BY <1>6, <2>2
<1>7. 1 .. 52 + 1 \subseteq S
  <2> HIDE DEF S
  <2> QED
    BY <1>5, <1>6, PhaseInduction
<1>8. read[53].makes = "ended"
  BY <1>7
<1> QED
  BY <1>3, <1>8, ThereAre52Phases DEF chain

(* Once a line was retired nothing of the session is listed. *)
Retired == posture # Nothing /\ posture.actionability = "retire"
LEMMA RetiredListsNothing ==
  ASSUME TypeOK, Retired
  PROVE  Items = {}
<1>1. posture \in Postures
  BY DEF TypeOK, Retired
<1>2. PICK d \in Dispatch : posture = Posture(d)
  BY <1>1 DEF Postures
<1>3. PICK verb \in Verbs : Resolves(verb, posture)
  BY <1>2, PosturesResolve
<1>4. posture.actionability = verb
  BY <1>3 DEF Resolves, Resolution
<1>5. Resolves("retire", posture)
  BY <1>3, <1>4 DEF Retired
<1>6. Chain(posture) \in Chains /\ Chain(posture)[1] = posture
  BY <1>1, ChainSteps DEF Chains
<1>7. ASSUME NEW i \in Stages
      PROVE  Makes(i, "ended")
  <2>1. Label[i] \in StageLabels /\ Reading(Chain(posture), Label[i]) = "ended"
    BY <1>5, CadenceIs, RetiredIsRead
  <2>2. <<posture, Label[i], "ended">> \in Readings
    BY <1>6, <2>1 DEF Readings
  <2> QED
    BY <2>2 DEF Makes, Retired
<1>8. ListedStages \subseteq Stages
  BY CadenceIs DEF ListedStages, Stages, TypeOK
<1> QED
  BY <1>7, <1>8 DEF Items

-----------------------------------------------------------------------------
(* What is waited for: between the listing of an item and its dispatch the   *)
(* clock and the user may move.                                              *)
Spaced ==
  /\ now >= directive.at + UserSpace[pending.stage]
  /\ sent = <<>> \/ now >= LastSent.at + DispatchSpace[pending.stage]
PendingFits ==
  pending # Nothing =>
    /\ Len(sent) < directive.max
    /\ pending.turn <= turns
    /\ pending.turn = turns => Spaced
    /\ ~Retired
IInv == TypeOK /\ TouchesInOrder /\ PendingFits

(* What the poll takes. *)
LEMMA DueItemsFit ==
  ASSUME TypeOK, NEW item \in DueItems
  PROVE  /\ item \in Item
         /\ item.turn = turns
         /\ Len(sent) < directive.max
         /\ now >= directive.at + UserSpace[item.stage]
         /\ sent = <<>> \/ now >= LastSent.at + DispatchSpace[item.stage]
         /\ ~Retired
<1>1. PICK i \in ListedStages :
        /\ item = [stage |-> i, status |-> QueueStatusOf(i),
                   advanced |-> Entries[i] # Nothing,
                   deferred |-> gate # Nothing /\ gate.stage = i, turn |-> turns]
        /\ QueueStatusOf(i) \in {"due", "overdue"}
  BY DEF DueItems, Items
<1>2. i \in Stages /\ Len(sent) < directive.max
  <2>1. directive.max \in Stages /\ Len(sent) \in Nat
    BY DEF TypeOK
  <2>2. ~LineOver /\ i \in 1 .. directive.max
    BY <1>1 DEF ListedStages
  <2> QED
    BY <2>1, <2>2, CadenceIs DEF LineOver, Stages
<1>3. Entries[i] \in Entered
  BY <1>2, EntriesAreTimes
<1>4. TimedStatus(i, Entries[i]) \in {"due", "overdue"}
  BY <1>1 DEF QueueStatusOf
<1>5. now >= DueAt(i, Entries[i])
  <2>1. DueAt(i, Entries[i]) \in Int /\ now \in Int
    BY <1>2, <1>3, DueKeepsSpace, SpacingIs DEF TypeOK
  <2>2. ~(now < DueAt(i, Entries[i]))
    BY <1>4 DEF TimedStatus
  <2> QED
    BY <2>1, <2>2
<1>6. /\ now >= directive.at + UserSpace[i]
      /\ sent = <<>> \/ now >= LastSent.at + DispatchSpace[i]
  <2>1. now \in Int /\ directive.at \in Int /\ UserSpace[i] \in Int /\ DispatchSpace[i] \in Int
    BY <1>2, SpacingIs DEF TypeOK
  <2>2. sent # <<>> => LastSent.at \in Int
    <3>1. sent # <<>> => LastSent \in Touch
      BY DEF TypeOK, LastSent
    <3> QED
      BY <3>1, SpacingIs DEF Touch
  <2>3. /\ DueAt(i, Entries[i]) \in Int
        /\ DueAt(i, Entries[i]) >= directive.at + UserSpace[i]
        /\ sent = <<>> \/ DueAt(i, Entries[i]) >= LastSent.at + DispatchSpace[i]
    BY <1>2, <1>3, DueKeepsSpace
  <2> QED
    BY <1>5, <2>1, <2>2, <2>3
<1>7. item \in Item
  <2>1. turns \in 1 .. MaxTurns
    BY DEF TypeOK
  <2> QED
    BY <1>1, <1>2, <2>1 DEF Item
<1>8. ~Retired
  BY RetiredListsNothing DEF DueItems
<1> QED
  BY <1>1, <1>2, <1>6, <1>7, <1>8

-----------------------------------------------------------------------------
(* The invariant. *)

LEMMA PlansAreTyped ==
  ASSUME now \in 0 .. MaxTime, NEW plan \in Plan
  PROVE  /\ plan \in [at: 0 .. MaxTime, ready: BOOLEAN, max: Stages, mood: Moods]
         /\ plan.max \in Nat \ {0}
  BY CadenceIs DEF Plan, Stages

LEMMA InitFits == Init => IInv
<1> SUFFICES ASSUME Init
             PROVE  IInv
  OBVIOUS
<1>1. now \in 0 .. MaxTime /\ turns \in 1 .. MaxTurns
  BY SpacingIs DEF Init
<1>2. directive \in [at: 0 .. MaxTime, ready: BOOLEAN, max: Stages, mood: Moods]
      /\ directive.max \in Nat \ {0}
  BY <1>1, PlansAreTyped DEF Init
<1>3. TypeOK
  BY <1>1, <1>2 DEF Init, TypeOK
<1>4. TouchesInOrder
  BY <1>2 DEF Init, TouchesInOrder
<1>5. PendingFits
  BY DEF Init, PendingFits
<1> QED
  BY <1>3, <1>4, <1>5 DEF IInv

LEMMA TickFits == IInv /\ Tick => IInv'
<1> SUFFICES ASSUME IInv, Tick
             PROVE  IInv'
  OBVIOUS
<1>1. /\ now' = now + 1 /\ now < MaxTime /\ now \in 0 .. MaxTime /\ MaxTime \in Nat
      /\ UNCHANGED <<turns, directive, sent, gate, slowed, delayed, posture, pending>>
  BY SpacingIs DEF IInv, TypeOK, Tick, dispatched
<1>2. now' \in 0 .. MaxTime
  BY <1>1
<1>3. TypeOK'
  BY <1>1, <1>2 DEF IInv, TypeOK
<1>4. TouchesInOrder'
  BY <1>1 DEF IInv, TouchesInOrder
<1>5. PendingFits'
  <2> SUFFICES ASSUME pending # Nothing
               PROVE  /\ Len(sent) < directive.max
                      /\ pending.turn <= turns
                      /\ pending.turn = turns => Spaced'
                      /\ ~Retired'
    BY <1>1 DEF PendingFits
  <2>1. /\ Len(sent) < directive.max
        /\ pending.turn <= turns
        /\ pending.turn = turns => Spaced
        /\ ~Retired
    BY DEF IInv, PendingFits
  <2>2. ~Retired'
    BY <1>1, <2>1 DEF Retired
  <2>3. Spaced => Spaced'
    <3>1. pending.stage \in Stages
      BY DEF IInv, TypeOK, Item
    <3>2. /\ directive.at + UserSpace[pending.stage] \in Int
          /\ sent # <<>> => LastSent.at + DispatchSpace[pending.stage] \in Int
      <4>1. directive.at \in Int
        BY SpacingIs DEF IInv, TypeOK
      <4>2. sent # <<>> => LastSent \in Touch
        BY DEF IInv, TypeOK, LastSent
      <4>3. sent # <<>> => LastSent.at \in Int
        BY <4>2, SpacingIs DEF Touch
      <4> QED
        BY <3>1, <4>1, <4>3, SpacingIs
    <3> DEFINE user == directive.at + UserSpace[pending.stage]
               touch == LastSent.at + DispatchSpace[pending.stage]
    <3>3. user' = user /\ touch' = touch /\ sent' = sent
      BY <1>1 DEF LastSent
    <3>4. Spaced <=> now >= user /\ (sent = <<>> \/ now >= touch)
      BY DEF Spaced
    <3>5. Spaced' <=> now' >= user' /\ (sent' = <<>> \/ now' >= touch')
      BY DEF Spaced
    <3>6. now \in Int /\ now' = now + 1
      BY <1>1
    <3>7. user \in Int /\ (sent # <<>> => touch \in Int)
      BY <3>2
    <3> HIDE DEF user, touch
    <3>8. now >= user => now' >= user'
      BY <3>3, <3>6, <3>7
    <3>9. sent # <<>> /\ now >= touch => now' >= touch'
      BY <3>3, <3>6, <3>7
    <3> QED
      BY <3>3, <3>4, <3>5, <3>8, <3>9
  <2> QED
    BY <2>1, <2>2, <2>3
<1> QED
  BY <1>3, <1>4, <1>5 DEF IInv

LEMMA TurnFits == IInv /\ Turn => IInv'
<1> SUFFICES ASSUME IInv, Turn
             PROVE  IInv'
  OBVIOUS
<1>1. /\ turns < MaxTurns /\ turns' = turns + 1 /\ directive' \in Plan /\ sent' = <<>>
      /\ UNCHANGED <<now, gate, slowed, delayed, posture, pending>>
      /\ now \in 0 .. MaxTime /\ turns \in 1 .. MaxTurns /\ MaxTurns \in Nat
  BY SpacingIs DEF IInv, TypeOK, Turn, dispatched
<1>2. /\ directive' \in [at: 0 .. MaxTime, ready: BOOLEAN, max: Stages, mood: Moods]
      /\ directive'.max \in Nat \ {0}
  BY <1>1, PlansAreTyped
<1>3. turns' \in 1 .. MaxTurns
  BY <1>1
<1>4. TypeOK'
  BY <1>1, <1>2, <1>3 DEF IInv, TypeOK
<1>5. TouchesInOrder'
  BY <1>1, <1>2 DEF TouchesInOrder
<1>6. PendingFits'
  <2> SUFFICES ASSUME pending # Nothing
               PROVE  /\ Len(sent') < directive'.max
                      /\ pending.turn <= turns'
                      /\ pending.turn # turns'
                      /\ ~Retired'
    BY <1>1 DEF PendingFits
  <2>1. pending.turn <= turns /\ ~Retired /\ pending.turn \in 1 .. MaxTurns
    BY DEF IInv, PendingFits, TypeOK, Item
  <2>2. pending.turn <= turns' /\ pending.turn # turns'
    BY <1>1, <2>1
  <2>3. ~Retired'
    BY <1>1, <2>1 DEF Retired
  <2>4. Len(sent') = 0
    BY <1>1
  <2> QED
    BY <1>2, <2>2, <2>3, <2>4
<1> QED
  BY <1>4, <1>5, <1>6 DEF IInv

LEMMA ListDueFits == IInv /\ ListDue => IInv'
<1> SUFFICES ASSUME IInv, ListDue
             PROVE  IInv'
  OBVIOUS
<1>1. /\ pending' \in DueItems
      /\ UNCHANGED <<now, turns, directive, sent, gate, slowed, delayed, posture>>
  BY DEF ListDue, dispatched
<1> DEFINE item == pending'
<1>2. /\ item \in Item
      /\ item.turn = turns
      /\ Len(sent) < directive.max
      /\ now >= directive.at + UserSpace[item.stage]
      /\ sent = <<>> \/ now >= LastSent.at + DispatchSpace[item.stage]
      /\ ~Retired
  BY <1>1, DueItemsFit DEF IInv
<1>3. TypeOK'
  BY <1>1, <1>2 DEF IInv, TypeOK
<1>4. TouchesInOrder'
  BY <1>1 DEF IInv, TouchesInOrder
<1>5. Spaced' /\ ~Retired'
  BY <1>1, <1>2 DEF Spaced, LastSent, Retired
<1>6. PendingFits'
  <2>1. turns \in Nat
    BY DEF IInv, TypeOK
  <2> QED
    BY <1>1, <1>2, <1>5, <2>1 DEF PendingFits
<1> QED
  BY <1>3, <1>4, <1>6 DEF IInv

(* A dispatch that is not refused sends a later stage than any before it.   *)
LEMMA TouchesGoOn ==
  ASSUME TypeOK, pending # Nothing, ~Refused, NEW n \in DOMAIN sent
  PROVE  sent[n].stage < pending.stage
<1> DEFINE S == {0} \cup {sent[m].stage : m \in DOMAIN sent}
<1>1. \A m \in DOMAIN sent : sent[m].stage \in Stages
  <2>1. sent \in Seq(Touch)
    BY DEF TypeOK
  <2>2. \A m \in DOMAIN sent : sent[m] \in Touch
    BY <2>1
  <2> QED
    BY <2>2 DEF Touch
<1>2. S # {} /\ S \subseteq 0 .. StageCount /\ sent[n].stage \in S
  BY <1>1, CadenceIs DEF Stages
<1>3. DispatchedStage = Max(S)
  BY DEF DispatchedStage
<1> HIDE DEF S
<1>4. Max(S) \in S /\ Max(S) >= sent[n].stage
  BY <1>2, CadenceIs, MaxOfBounded
<1>5. pending.stage \in Stages /\ ~(Max(S) >= pending.stage)
  BY <1>3 DEF TypeOK, Item, Refused
<1>6. Max(S) \in Int /\ sent[n].stage \in Int /\ pending.stage \in Int
  <2>1. \A i \in 0 .. StageCount : i \in Int
    BY CadenceIs
  <2>2. \A i \in Stages : i \in Int
    BY CadenceIs DEF Stages
  <2>3. Max(S) \in 0 .. StageCount
    BY <1>2, <1>4
  <2> QED
    BY <1>1, <1>5, <2>1, <2>2, <2>3
<1> DEFINE latest == Max(S)
           last == sent[n].stage
           next == pending.stage
<1>7. latest >= last /\ ~(latest >= next) /\ latest \in Int /\ last \in Int /\ next \in Int
  BY <1>4, <1>5, <1>6
<1> HIDE DEF latest, last, next
<1>8. last < next
  BY <1>7
<1> QED
  BY <1>8 DEF last, next

(* What a dispatch of the pending item does. *)
LEMMA DispatchSends ==
  ASSUME TypeOK, DispatchPending
  PROVE  /\ pending # Nothing /\ pending' = Nothing /\ UNCHANGED <<now, turns, directive>>
         /\ \/ UNCHANGED <<sent, gate, slowed, delayed, posture>>
            \/ /\ ~Refused
               /\ sent' \in {sent, Append(sent, [stage |-> pending.stage, at |-> now])}
               /\ gate' \in Touch \cup {Nothing}
               /\ slowed' \in Stages \cup {Nothing}
               /\ delayed' \in Stages \cup {Nothing}
               /\ posture' \in Postures
<1>1. pending # Nothing /\ pending' = Nothing /\ UNCHANGED <<now, turns, directive>>
  BY DEF DispatchPending
<1>2. CASE Refused
  BY <1>1, <1>2 DEF DispatchPending, dispatched
<1>3. CASE ~Refused
  <2>0. PICK slows \in {b \in BOOLEAN : b => pending.stage < StageCount} :
          \E d \in DispatchesOf(slows) :
            /\ sent' = IF Sends(d) THEN Append(sent, [stage |-> d.index, at |-> now])
                       ELSE sent
            /\ gate' = IF d.gate = "defer" THEN [stage |-> d.index, at |-> now]
                       ELSE Nothing
            /\ slowed' = IF slows THEN d.index + 1 ELSE Nothing
            /\ delayed' = IF d.line # "steady" THEN d.index ELSE Nothing
            /\ posture' = Posture(d)
    BY <1>3 DEF DispatchPending
  <2>1. PICK d \in DispatchesOf(slows) :
            /\ sent' = IF Sends(d) THEN Append(sent, [stage |-> d.index, at |-> now])
                       ELSE sent
            /\ gate' = IF d.gate = "defer" THEN [stage |-> d.index, at |-> now]
                       ELSE Nothing
            /\ slowed' = IF slows THEN d.index + 1 ELSE Nothing
            /\ delayed' = IF d.line # "steady" THEN d.index ELSE Nothing
            /\ posture' = Posture(d)
    BY <2>0
  <2>2. d \in Dispatch /\ d.index = pending.stage
    BY DEF DispatchesOf
  <2>3. pending.stage \in Stages /\ now \in 0 .. MaxTime
    BY <1>1 DEF TypeOK, Item
  <2>4. [stage |-> pending.stage, at |-> now] \in Touch
    BY <2>3 DEF Touch
  <2>5. slows => pending.stage + 1 \in Stages
    BY <2>3, CadenceIs DEF Stages
  <2>6. posture' \in Postures
    BY <2>1, <2>2 DEF Postures
  <2> HIDE DEF DispatchesOf
  <2> QED
    BY <1>1, <1>3, <2>1, <2>2, <2>3, <2>4, <2>5, <2>6
<1> QED
  BY <1>2, <1>3

LEMMA DispatchFits == IInv /\ DispatchPending => IInv'
<1> SUFFICES ASSUME IInv, DispatchPending
             PROVE  IInv'
  OBVIOUS
<1>1. TypeOK /\ TouchesInOrder /\ PendingFits
  BY DEF IInv
<1>2. pending # Nothing /\ pending' = Nothing /\ UNCHANGED <<now, turns, directive>>
  BY <1>1, DispatchSends
<1>3. PendingFits'
  BY <1>2 DEF PendingFits
<1> DEFINE touch == [stage |-> pending.stage, at |-> now]
<1>4. touch \in Touch
  BY <1>1, <1>2 DEF TypeOK, Item, Touch
<1>5. TypeOK'
  <2>1. sent \in Seq(Touch)
    BY <1>1 DEF TypeOK
  <2>2. sent' \in Seq(Touch)
    BY <1>1, <1>4, <2>1, DispatchSends
  <2>3. /\ gate' \in Touch \cup {Nothing}
        /\ slowed' \in Stages \cup {Nothing} /\ delayed' \in Stages \cup {Nothing}
        /\ posture' \in Postures \cup {Nothing}
    BY <1>1, DispatchSends DEF TypeOK
  <2> QED
    BY <1>1, <1>2, <2>2, <2>3 DEF TypeOK
<1>6. TouchesInOrder'
  <2>1. CASE sent' = sent
    BY <1>1, <1>2, <2>1 DEF TouchesInOrder
  <2>2. CASE sent' # sent
    <3>1. ~Refused /\ sent' = Append(sent, touch)
      BY <1>1, <2>2, DispatchSends
    <3>2. sent \in Seq(Touch) /\ Len(sent) < directive.max /\ directive.max \in Nat
      BY <1>1, <1>2, CadenceIs DEF TypeOK, PendingFits, Stages
    <3> HIDE DEF touch
    <3>3. /\ Len(sent') = Len(sent) + 1 /\ Len(sent) \in Nat
          /\ \A n \in 1 .. Len(sent) : sent'[n] = sent[n]
          /\ sent'[Len(sent) + 1] = touch
      BY <1>4, <3>1, <3>2
    <3>4. Len(sent') <= directive'.max
      BY <1>2, <3>2, <3>3
    <3>5. ASSUME NEW n \in 2 .. Len(sent')
          PROVE  sent'[n - 1].stage < sent'[n].stage
      <4>1. CASE n <= Len(sent)
        BY <1>1, <3>3, <4>1 DEF TouchesInOrder
      <4>2. CASE n = Len(sent) + 1
        <5>1. n - 1 \in DOMAIN sent /\ sent'[n - 1] = sent[n - 1] /\ sent'[n] = touch
          BY <3>2, <3>3, <4>2
        <5> QED
          BY <1>1, <1>2, <3>1, <5>1, TouchesGoOn DEF touch
      <4> QED
        BY <3>3, <4>1, <4>2
    <3> QED
      BY <3>4, <3>5 DEF TouchesInOrder
  <2> QED
    BY <2>1, <2>2
<1> QED
  BY <1>3, <1>5, <1>6 DEF IInv

LEMMA NextFits == IInv /\ [Next]_vars => IInv'
<1>1. IInv /\ UNCHANGED vars => IInv'
  BY DEF IInv, vars, dispatched, TypeOK, TouchesInOrder, PendingFits, Retired, Spaced, LastSent
<1> QED
  BY <1>1, TickFits, TurnFits, ListDueFits, DispatchFits DEF Next

LEMMA Invariance == Spec => []IInv
  BY InitFits, NextFits, PTL DEF Spec

-----------------------------------------------------------------------------
(* The line keeps its types: the listing gives the poll only stages of the  *)
(* cadence, and the dispatch leaves only their words behind.                *)
THEOREM LineTypeCorrectness == Spec => []TypeOK
<1>1. IInv => TypeOK
  BY DEF IInv
<1> QED
  BY <1>1, Invariance, PTL

(* The touches of a line go down the cadence, none twice, and never more    *)
(* than the guardrail plan allows: proactive_dispatch_handler.py refuses a  *)
(* stage that is not beyond the last one sent, and a line that has sent all *)
(* it may gives the poll nothing to dispatch.                               *)
THEOREM TouchesGoDownTheCadence == Spec => []TouchesInOrder
<1>1. IInv => TouchesInOrder
  BY DEF IInv
<1> QED
  BY <1>1, Invariance, PTL

(* What a dispatch of any stage resolves is in order for every phase.       *)
LEMMA PosturesAreInOrder ==
  ASSUME NEW i \in Stages
  PROVE  PosturesOf[i] \subseteq Agreed \cap Kept \cap Understood
<1> SUFFICES ASSUME NEW r \in PosturesOf[i]
             PROVE  r \in Agreed /\ r \in Kept /\ r \in Understood
  OBVIOUS
<1>1. PICK d \in Dispatch : r = Posture(d)
  BY DEF PosturesOf
<1>2. r \in Postures
  BY <1>1 DEF Postures
<1>3. AgreesOn(r) /\ KeepsAlong(r) /\ IsUnderstood(r)
  BY <1>1, PosturesGoDown
<1> QED
  BY <1>2, <1>3 DEF Agreed, Kept, Understood

LEMMA PendingIsInOrder ==
  ASSUME IInv, pending # Nothing
  PROVE  PosturesOf[pending.stage] \subseteq Agreed \cap Kept \cap Understood
<1>1. pending.stage \in Stages
  BY DEF IInv, TypeOK, Item
<1> QED
  BY <1>1, PosturesAreInOrder

(* The builders, which the tests call, and the machine, which the handler   *)
(* runs, decide the same in every phase for whatever is dispatched.         *)
THEOREM BuildersAlwaysAgree == Spec => []BuildersAgree
<1>1. IInv => BuildersAgree
  BY PendingIsInOrder DEF BuildersAgree
<1> QED
  BY <1>1, Invariance, PTL

(* The posture of the resolution reaches every one of the 52 phases.        *)
THEOREM PostureIsAlwaysKept == Spec => []PostureKept
<1>1. IInv => PostureKept
  BY PendingIsInOrder DEF PostureKept
<1> QED
  BY <1>1, Invariance, PTL

(* What a phase decides the listing of follow-ups understands.              *)
THEOREM ListingAlwaysUnderstands == Spec => []ListingUnderstands
<1>1. IInv => ListingUnderstands
  BY PendingIsInOrder DEF ListingUnderstands
<1> QED
  BY <1>1, Invariance, PTL

(* A touch is sent by a dispatch, and by nothing else.                      *)
LEMMA DispatchesTouch ==
  ASSUME TypeOK, [Next]_vars, Touches
  PROVE  DispatchPending
<1>1. Len(sent) \in Nat
  BY DEF TypeOK
<1>2. sent' # sent /\ sent' # <<>>
  BY <1>1 DEF Touches
<1> QED
  BY <1>2 DEF Next, Tick, Turn, ListDue, vars

(* A touch keeps the space of its stage, from the user's last message and   *)
(* from the touch before it, unless the user wrote after it was listed: the *)
(* guardrail is looked at by the listing, and the poll dispatches with no   *)
(* other look at the time.                                                  *)
THEOREM TouchesKeepTheirSpace == Spec => SpaceIsKept
<1>1. ASSUME IInv, [Next]_vars, Touches, pending.turn = turns
      PROVE  /\ now >= directive.at + UserSpace[pending.stage]
             /\ sent = <<>> \/ now >= LastSent.at + DispatchSpace[pending.stage]
  <2>1. TypeOK
    BY <1>1 DEF IInv
  <2>2. pending # Nothing
    BY <1>1, <2>1, DispatchesTouch DEF DispatchPending
  <2> QED
    BY <1>1, <2>2 DEF IInv, PendingFits, Spaced
<1>2. IInv /\ [Next]_vars =>
        [Touches /\ pending.turn = turns =>
           /\ now >= directive.at + UserSpace[pending.stage]
           /\ sent = <<>> \/ now >= LastSent.at + DispatchSpace[pending.stage]]_vars
  BY <1>1
<1> QED
  BY <1>2, Invariance, PTL DEF Spec, SpaceIsKept

(* Once a dispatch has retired the line nothing is sent to the session      *)
(* again, whatever later turns plan: the first table the listing reads,     *)
(* that of the last phase, ends the item of every stage, whichever stage    *)
(* was retired.                                                             *)
THEOREM RetirementIsFinal == Spec => RetiredStaysRetired
<1>1. ASSUME IInv, [Next]_vars, posture # Nothing, posture.actionability = "retire"
      PROVE  ~Touches /\ posture' = posture
  <2>1. TypeOK
    BY <1>1 DEF IInv
  <2>2. pending = Nothing
    BY <1>1 DEF IInv, PendingFits, Retired
  <2>3. ~DispatchPending
    BY <2>2 DEF DispatchPending
  <2>4. ~Touches
    BY <1>1, <2>1, <2>3, DispatchesTouch
  <2>5. posture' = posture
    BY <1>1, <2>3 DEF Next, Tick, Turn, ListDue, vars, dispatched
  <2> QED
    BY <2>4, <2>5
<1>2. IInv /\ [Next]_vars =>
        [posture # Nothing /\ posture.actionability = "retire" =>
           ~Touches /\ posture' = posture]_vars
  BY <1>1
<1> QED
  BY <1>2, Invariance, PTL DEF Spec, RetiredStaysRetired
=============================================================================
