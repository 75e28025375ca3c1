------------------------- MODULE SessionTurnsProofs -------------------------
(***************************************************************************)
(* Proofs about SessionTurns, for any number of processes and requests and *)
(* any bounds.  An append leaves what was read before it as it was, so     *)
(* what a task knows of a prefix of the log stays true, and an append at   *)
(* the version it has seen puts its entry right after that prefix.         *)
(***************************************************************************)
EXTENDS SessionTurns, FiniteSetTheorems, WellFoundedInduction, TLAPS

-----------------------------------------------------------------------------
(* Sets of positions. *)

(* A non-empty set of positions up to n has a last one. *)
LEMMA LastPosition ==
  ASSUME NEW n \in Nat, NEW S \in SUBSET (1 .. n), S # {}
  PROVE  \E i \in S : \A j \in S : j <= i
<1> DEFINE T == {n - i : i \in S}
<1>1. T \subseteq Nat /\ T # {}
  <2>1. PICK i \in S : TRUE
    OBVIOUS
  <2>2. n - i \in T
    BY <2>1
  <2> QED
    BY <2>2
<1>2. PICK m \in T : \A k \in T : ~(<<k, m>> \in OpToRel(<, Nat))
  BY <1>1, NatLessThanWellFounded, WFMin
<1>3. \A k \in T : ~(k < m)
  BY <1>1, <1>2 DEF OpToRel
<1>4. PICK i \in S : m = n - i
  OBVIOUS
<1>5. \A j \in S : ~(n - j < n - i)
  BY <1>3, <1>4
<1> QED
  BY <1>5

(* LastOf is the last position of its kinds, or 0 when there is none. *)
LEMMA LastOfIsLast ==
  ASSUME NEW K, NEW n \in Nat
  PROVE  /\ LastOf(K, n) \in Positions(K, n) \cup {0}
         /\ \A i \in Positions(K, n) : i <= LastOf(K, n)
<1> DEFINE S == Positions(K, n)
<1>1. S \in SUBSET (1 .. n)
  BY DEF Positions
<1>2. CASE S = {}
  BY <1>2 DEF LastOf
<1>3. CASE S # {}
  <2>1. \E i \in S : \A j \in S : j <= i
    BY <1>1, <1>3, LastPosition
  <2> QED
    BY <1>3, <2>1 DEF LastOf
<1> QED
  BY <1>2, <1>3

(* The stages that may be offered are stages. *)
LEMMA DueStagesAreStages ==
  ASSUME NEW n \in Nat
  PROVE  DueStages(n) \subseteq 0 .. Stages
<1>1. IsFiniteSet(1 .. n)
  BY FS_Interval
<1>2. Dispatched(n) \subseteq 1 .. n
  BY DEF Dispatched, Positions
<1>3. Cardinality(Dispatched(n)) \in Nat
  BY <1>1, <1>2, FS_Subset, FS_CardinalityType
<1> QED
  BY <1>3, SessionAssumption DEF DueStages

-----------------------------------------------------------------------------
(* The log grows at its end. *)

(* What was read before an append is read after it. *)
LEMMA PrefixKept ==
  ASSUME log \in Seq(Entry), NEW e \in Entry, Write(e)
  PROVE  /\ log' \in Seq(Entry) /\ Len(log') = Len(log) + 1
         /\ log'[Len(log) + 1] = e
         /\ \A i \in 1 .. Len(log) : log'[i] = log[i]
         /\ \A K : \A n \in 0 .. Len(log) :
              /\ Positions(K, n)' = Positions(K, n)
              /\ LastOf(K, n)' = LastOf(K, n)
         /\ \A K : \A n \in {Len(log) + 1} :
              e.kind \notin K => /\ Positions(K, n)' = Positions(K, n - 1)
                                 /\ LastOf(K, n)' = LastOf(K, n - 1)
<1>1. /\ log' \in Seq(Entry) /\ Len(log') = Len(log) + 1
      /\ log'[Len(log) + 1] = e
      /\ \A i \in 1 .. Len(log) : log'[i] = log[i]
  BY DEF Write
<1>2. ASSUME NEW K, NEW n \in 0 .. Len(log)
      PROVE  Positions(K, n)' = Positions(K, n) /\ LastOf(K, n)' = LastOf(K, n)
  <2>1. \A i \in 1 .. n : log'[i] = log[i]
    BY <1>1
  <2>2. Positions(K, n)' = Positions(K, n)
    BY <2>1 DEF Positions
  <2> QED
    BY <2>2 DEF LastOf
<1>3. ASSUME NEW K, NEW n \in {Len(log) + 1}, e.kind \notin K
      PROVE  /\ Positions(K, n)' = Positions(K, n - 1)
             /\ LastOf(K, n)' = LastOf(K, n - 1)
  <2>1. Len(log) \in Nat
    OBVIOUS
  <2>2. Positions(K, n)' = Positions(K, n - 1)
    BY <1>1, <1>3, <2>1 DEF Positions
  <2> QED
    BY <2>2 DEF LastOf
<1> QED
  BY <1>1, <1>2, <1>3

(* What a task knows stays true whether or not the log grows. *)
LogMoves == log' = log \/ \E e \in Entry : Write(e)

LEMMA FactsKept ==
  ASSUME log \in Seq(Entry), LogMoves
  PROVE  /\ Len(log) \in Nat /\ Len(log') \in Nat /\ Len(log) <= Len(log')
         /\ \A n \in 0 .. Len(log) :
              /\ Ready(n)' <=> Ready(n)
              /\ Archived(n)' <=> Archived(n)
              /\ Pending(n)' <=> Pending(n)
<1>1. Len(log) \in Nat
  OBVIOUS
<1>2. CASE log' = log
  BY <1>1, <1>2 DEF Ready, Archived, Pending, Since, LastOf, Positions
<1>3. CASE \E e \in Entry : Write(e)
  <2>1. PICK e \in Entry : Write(e)
    BY <1>3
  <2>2. /\ Len(log') = Len(log) + 1
        /\ \A K : \A n \in 0 .. Len(log) :
              /\ Positions(K, n)' = Positions(K, n)
              /\ LastOf(K, n)' = LastOf(K, n)
    BY <2>1, PrefixKept
  <2> QED
    BY <1>1, <2>2 DEF Ready, Archived, Pending, Since
<1> QED
  BY <1>2, <1>3 DEF LogMoves

LEMMA TaskKept ==
  ASSUME log \in Seq(Entry), LogMoves
  PROVE  \A s \in Slots, t \in Task : TaskOK(s, t) => TaskOK(s, t)'
<1> SUFFICES ASSUME NEW s \in Slots, NEW t \in Task, TaskOK(s, t)
             PROVE  TaskOK(s, t)'
  OBVIOUS
<1>1. /\ t.seen \in 0 .. Len(log) /\ t.read \in 0 .. Len(log)
  BY FactsKept DEF TaskOK, Task
<1> QED
  BY <1>1, FactsKept DEF TaskOK

-----------------------------------------------------------------------------
(* The log stays in order. *)

LogOK == StartedOnce /\ StagesAdvance /\ FollowupIsWanted /\ OneOutcomeEach

LEMMA LogKept ==
  ASSUME LogOK, log' = log
  PROVE  LogOK'
<1>1. \A K, m : Positions(K, m)' = Positions(K, m)
  BY DEF Positions
<1>2. ASSUME NEW K, NEW m
      PROVE  LastOf(K, m)' = LastOf(K, m)
  <2>1. Positions(K, m)' = Positions(K, m)
    BY <1>1
  <2> QED
    BY <2>1 DEF LastOf
<1>3. Len(log)' = Len(log)
  OBVIOUS
<1>4. \A m : /\ Ready(m)' <=> Ready(m)
             /\ Archived(m)' <=> Archived(m)
             /\ Pending(m)' <=> Pending(m)
  BY <1>1, <1>2 DEF Ready, Archived, Pending, Since
<1>5. StartedOnce'
  BY DEF LogOK, StartedOnce
<1>6. StagesAdvance'
  BY <1>1, <1>2, <1>3 DEF LogOK, StagesAdvance
<1>7. FollowupIsWanted'
  BY <1>1, <1>3, <1>4 DEF LogOK, FollowupIsWanted
<1>8. OneOutcomeEach'
  BY <1>1, <1>3, <1>4 DEF LogOK, OneOutcomeEach
<1> QED
  BY <1>5, <1>6, <1>7, <1>8 DEF LogOK

(* An entry that starts an empty log, is a follow-up that is wanted and whose *)
(* stage is open, or an outcome of one that has none, keeps the log in order. *)
LEMMA LogAppended ==
  ASSUME log \in Seq(Entry), LogOK, NEW e \in Entry, Write(e),
         e.starts <=> Len(log) = 0,
         e.kind = "sent" =>
           /\ Ready(Len(log)) /\ ~Archived(Len(log))
           /\ ~AlreadyDispatched(Len(log), e.stage),
         e.kind \in Outcomes => Pending(Len(log))
  PROVE  LogOK'
<1> DEFINE n == Len(log)
<1>1. n \in Nat
  OBVIOUS
<1>2. /\ log' \in Seq(Entry) /\ Len(log') = n + 1 /\ log'[n + 1] = e
      /\ \A i \in 1 .. n : log'[i] = log[i]
      /\ \A K : \A m \in 0 .. n : /\ Positions(K, m)' = Positions(K, m)
                                 /\ LastOf(K, m)' = LastOf(K, m)
      /\ \A K : \A m \in {n + 1} :
           e.kind \notin K => /\ Positions(K, m)' = Positions(K, m - 1)
                              /\ LastOf(K, m)' = LastOf(K, m - 1)
  BY PrefixKept
<1>3. /\ \A m \in 0 .. n : /\ Ready(m)' <=> Ready(m)
                           /\ Archived(m)' <=> Archived(m)
                           /\ Pending(m)' <=> Pending(m)
  BY FactsKept DEF LogMoves
<1>4. \A K : \A i \in Positions(K, Len(log))' :
         \/ i \in Positions(K, n)
         \/ i = n + 1 /\ e.kind \in K
  BY <1>1, <1>2 DEF Positions
<1>5. StartedOnce'
  BY <1>1, <1>2 DEF LogOK, StartedOnce
<1>6. StagesAdvance'
  <2> SUFFICES ASSUME NEW i \in Positions({"sent"}, Len(log))',
                      NEW j \in Positions({"sent"}, Len(log))', i < j
               PROVE  log'[i].stage < log'[j].stage \/ LastOf(Directives, j)' > i
    BY DEF StagesAdvance
  <2>1. i \in Positions({"sent"}, n) /\ i \in 1 .. n /\ log'[i] = log[i]
    BY <1>1, <1>2, <1>4 DEF Positions
  <2>2. CASE j \in Positions({"sent"}, n)
    <3>1. j \in 1 .. n /\ log'[j] = log[j] /\ LastOf(Directives, j)' = LastOf(Directives, j)
      BY <1>1, <1>2, <2>2 DEF Positions
    <3> QED
      BY <2>1, <2>2, <3>1 DEF LogOK, StagesAdvance
  <2>3. CASE j = n + 1 /\ e.kind = "sent"
    <3>1. LastOf(Directives, j)' = LastOf(Directives, n)
      BY <1>1, <1>2, <2>3 DEF Directives
    <3>2. CASE i > LastOf(Directives, n)
      <4>1. log[i].stage \in DispatchedStages(n)
        BY <2>1, <3>2 DEF DispatchedStages, Dispatched
      <4>2. log[i].stage \in Nat /\ e.stage \in Nat
        <5>1. log[i] \in Entry
          BY <2>1
        <5> QED
          BY <5>1, SessionAssumption DEF Entry
      <4> QED
        BY <1>2, <2>1, <2>3, <4>1, <4>2 DEF AlreadyDispatched
    <3>3. CASE ~(i > LastOf(Directives, n))
      <4>1. LastOf(Directives, n) \in Positions(Directives, n) \cup {0}
        BY <1>1, LastOfIsLast
      <4>2. i # LastOf(Directives, n)
        BY <2>1, <4>1 DEF Positions, Directives
      <4>3. LastOf(Directives, n) \in Nat
        BY <4>1 DEF Positions
      <4> QED
        BY <2>1, <3>1, <3>3, <4>2, <4>3
    <3> QED
      BY <3>2, <3>3
  <2> QED
    BY <1>4, <2>2, <2>3
<1>7. FollowupIsWanted'
  <2> SUFFICES ASSUME NEW i \in Positions({"sent"}, Len(log))'
               PROVE  Ready(i)' /\ ~Archived(i)'
    BY DEF FollowupIsWanted
  <2>1. CASE i \in Positions({"sent"}, n)
    <3>1. i \in 0 .. n
      BY <1>1, <2>1 DEF Positions
    <3> QED
      BY <1>3, <2>1, <3>1 DEF LogOK, FollowupIsWanted
  <2>2. CASE i = n + 1 /\ e.kind = "sent"
    <3>1. /\ LastOf({"ready"}, i)' = LastOf({"ready"}, n)
          /\ LastOf({"hold"}, i)' = LastOf({"hold"}, n)
          /\ Positions({"archived"}, i)' = Positions({"archived"}, n)
      BY <1>1, <1>2, <2>2
    <3> QED
      BY <2>2, <3>1 DEF Ready, Since, Archived
  <2> QED
    BY <1>4, <2>1, <2>2
<1>8. OneOutcomeEach'
  <2> SUFFICES ASSUME NEW i \in Positions(Outcomes, Len(log))'
               PROVE  Pending(i - 1)'
    BY DEF OneOutcomeEach
  <2>1. i - 1 \in 0 .. n /\ Pending(i - 1)
    BY <1>1, <1>4 DEF LogOK, OneOutcomeEach, Positions
  <2> QED
    BY <1>3, <2>1
<1> QED
  BY <1>5, <1>6, <1>7, <1>8 DEF LogOK

-----------------------------------------------------------------------------
(* The tasks. *)

TaskPart == task \in [Processes -> [Slots -> Task]] /\ TasksOK

(* A step that gives one task a new state leaves the tasks in order when the *)
(* new state is.                                                             *)
LEMMA TaskSet ==
  ASSUME log \in Seq(Entry), TaskPart, LogMoves,
         NEW p \in Processes, NEW s \in Slots, NEW t \in Task,
         SetTask(p, s, t), TaskOK(s, t)'
  PROVE  TaskPart'
<1>1. task' \in [Processes -> [Slots -> Task]]
  BY DEF TaskPart, SetTask
<1>2. TasksOK'
  <2> SUFFICES ASSUME NEW q \in Processes, NEW o \in Slots
               PROVE  TaskOK(o, task[q][o])'
    BY DEF TasksOK
  <2>1. CASE q = p /\ o = s
    <3>1. task'[q][o] = t
      BY <2>1 DEF TaskPart, SetTask
    <3> QED
      BY <2>1, <3>1 DEF TaskOK
  <2>2. CASE ~(q = p /\ o = s)
    <3>1. task'[q][o] = task[q][o] /\ task[q][o] \in Task
      BY <2>2 DEF TaskPart, SetTask
    <3>2. TaskOK(o, task[q][o])
      BY DEF TaskPart, TasksOK
    <3> DEFINE u == task[q][o]
    <3>3. \A v \in Task : TaskOK(o, v) => TaskOK(o, v)'
      BY TaskKept
    <3> QED
      BY <3>1, <3>2, <3>3 DEF TaskOK
  <2> QED
    BY <2>1, <2>2
<1> QED
  BY <1>1, <1>2 DEF TaskPart

(* So does a step that leaves the tasks alone. *)
LEMMA TasksSame ==
  ASSUME log \in Seq(Entry), TaskPart, LogMoves, task' = task
  PROVE  TaskPart'
<1>1. \A p \in Processes, s \in Slots : task[p][s] \in Task /\ TaskOK(s, task[p][s])
  BY DEF TaskPart, TasksOK
<1>2. \A s \in Slots, t \in Task : TaskOK(s, t) => TaskOK(s, t)'
  BY TaskKept
<1>3. ASSUME NEW p \in Processes, NEW s \in Slots
      PROVE  TaskOK(s, task[p][s])'
  BY <1>1, <1>2 DEF TaskOK
<1> QED
  BY <1>3 DEF TaskPart, TasksOK

(* A task that knows nothing is in order, whatever the log. *)
LEMMA IdleIsOK ==
  ASSUME log' \in Seq(Entry), NEW s \in Slots
  PROVE  Idle \in Task /\ TaskOK(s, Idle)'
<1>1. Idle \in Task
  BY SessionAssumption DEF Idle, Task, Pc
<1>2. Len(log)' \in Nat
  OBVIOUS
<1>3. Idle.seen = 0 /\ Idle.read = 0 /\ Idle.pc = "idle"
  BY DEF Idle
<1> QED
  BY <1>1, <1>2, <1>3 DEF TaskOK

LEMMA FreshIsOK ==
  ASSUME log' \in Seq(Entry), NEW s \in Slots,
         NEW c \in {"idle", "create", "list", "dead"}
  PROVE  /\ [Idle EXCEPT !.pc = c] \in Task
         /\ TaskOK(s, [Idle EXCEPT !.pc = c])'
<1> DEFINE t == [Idle EXCEPT !.pc = c]
<1>1. t \in Task
  <2>1. Idle \in Task
    BY IdleIsOK
  <2>2. c \in Pc
    BY DEF Pc
  <2> QED
    BY <2>1, <2>2 DEF Task
<1>2. t.seen = 0 /\ t.read = 0 /\ t.pc = c
  BY DEF Idle
<1>3. Len(log)' \in Nat
  OBVIOUS
<1> HIDE DEF t
<1>4. TaskOK(s, t)'
  BY <1>2, <1>3 DEF TaskOK
<1> QED
  BY <1>1, <1>4 DEF t

LEMMA DieStep ==
  ASSUME log \in Seq(Entry), TaskPart, LogMoves, log' \in Seq(Entry),
         phase \in [Processes -> {"down", "boot", "up"}],
         NEW p \in Processes, Die(p)
  PROVE  TaskPart' /\ phase' \in [Processes -> {"down", "boot", "up"}]
<1>1. phase' \in [Processes -> {"down", "boot", "up"}]
  BY DEF Die
<1>2. \A s \in Slots : Idle \in Task /\ TaskOK(s, Idle)'
  BY IdleIsOK
<1>3. task' \in [Processes -> [Slots -> Task]]
  BY <1>2 DEF Die, TaskPart
<1>4. ASSUME NEW q \in Processes, NEW s \in Slots
      PROVE  TaskOK(s, task[q][s])'
  <2>1. CASE q = p
    <3>1. task'[q][s] = Idle
      BY <2>1 DEF Die, TaskPart
    <3>2. TaskOK(s, Idle)'
      BY <1>2
    <3> QED
      BY <3>1, <3>2 DEF TaskOK
  <2>2. CASE q # p
    <3>1. task'[q][s] = task[q][s] /\ task[q][s] \in Task /\ TaskOK(s, task[q][s])
      BY <2>2 DEF Die, TaskPart, TasksOK
    <3>2. \A t \in Task : TaskOK(s, t) => TaskOK(s, t)'
      BY TaskKept
    <3> QED
      BY <3>1, <3>2 DEF TaskOK
  <2> QED
    BY <2>1, <2>2
<1> QED
  BY <1>1, <1>3, <1>4 DEF TaskPart, TasksOK

LEMMA CycleEndsStep ==
  ASSUME log \in Seq(Entry), TaskPart, LogMoves, log' \in Seq(Entry),
         phase \in [Processes -> {"down", "boot", "up"}],
         NEW p \in Processes, NEW d \in Dispatchers, CycleEnds(p, d)
  PROVE  TaskPart' /\ phase' \in [Processes -> {"down", "boot", "up"}]
<1>1. d \in Slots
  BY DEF Slots
<1>2. Idle \in Task /\ TaskOK(d, Idle)'
  BY <1>1, IdleIsOK
<1>3. TaskPart'
  BY <1>1, <1>2, TaskSet DEF CycleEnds
<1> QED
  BY <1>3 DEF CycleEnds

LEMMA CycleRaisesStep ==
  ASSUME log \in Seq(Entry), TaskPart, LogMoves, log' \in Seq(Entry),
         phase \in [Processes -> {"down", "boot", "up"}],
         NEW p \in Processes, NEW d \in Dispatchers, CycleRaises(p, d)
  PROVE  TaskPart' /\ phase' \in [Processes -> {"down", "boot", "up"}]
<1>1. CASE d = Poller /\ phase[p] = "boot"
  <2>1. Die(p)
    BY <1>1 DEF CycleRaises
  <2> QED
    BY <2>1, DieStep
<1>2. CASE ~(d = Poller /\ phase[p] = "boot")
  <2> DEFINE t == [Idle EXCEPT !.pc = IF d = Poller THEN "dead" ELSE "idle"]
  <2>1. SetTask(p, d, t) /\ phase' = phase /\ d \in Slots
    BY <1>2 DEF CycleRaises, Slots
  <2>2. t \in Task /\ TaskOK(d, t)'
    BY <2>1, FreshIsOK
  <2>3. TaskPart'
    BY <2>1, <2>2, TaskSet
  <2> QED
    BY <2>1, <2>3
<1> QED
  BY <1>1, <1>2

-----------------------------------------------------------------------------
(* The steps that append nothing. *)

ClocksPart == due \in BOOLEAN /\ old \in BOOLEAN /\ crashes \in 0 .. MaxCrashes
PhasePart == phase \in [Processes -> {"down", "boot", "up"}]

LEMMA Parts ==
  IInv <=> log \in Seq(Entry) /\ ClocksPart /\ PhasePart /\ TaskPart /\ LogOK
BY DEF IInv, TypeOK, ClocksPart, PhasePart, TaskPart, LogOK

LEMMA PartsNext ==
  IInv' <=> log' \in Seq(Entry) /\ ClocksPart' /\ PhasePart' /\ TaskPart' /\ LogOK'
BY DEF IInv, TypeOK, ClocksPart, PhasePart, TaskPart, LogOK

LEMMA TaskFacts ==
  ASSUME IInv, NEW p \in Processes, NEW s \in Slots
  PROVE  task[p][s] \in Task /\ TaskOK(s, task[p][s])
BY DEF IInv, TypeOK, TasksOK

(* A step of one task that is in order after it. *)
LEMMA TaskStep ==
  ASSUME IInv, NEW p \in Processes, NEW s \in Slots, NEW t \in Task,
         SetTask(p, s, t), TaskOK(s, t), UNCHANGED <<log, due, old, phase, crashes>>
  PROVE  IInv'
<1>1. log \in Seq(Entry) /\ ClocksPart /\ PhasePart /\ TaskPart /\ LogOK
  BY Parts
<1>2. LogMoves /\ log' \in Seq(Entry) /\ ClocksPart' /\ PhasePart'
  BY <1>1 DEF LogMoves, ClocksPart, PhasePart
<1>3. TaskOK(s, t)'
  <2>1. \A o \in Slots, u \in Task : TaskOK(o, u) => TaskOK(o, u)'
    BY <1>1, <1>2, TaskKept
  <2> QED
    BY <2>1
<1>4. TaskPart'
  BY <1>1, <1>2, <1>3, TaskSet
<1>5. LogOK'
  BY <1>1, LogKept
<1> QED
  BY <1>2, <1>4, <1>5, PartsNext

(* The end of a dispatch cycle. *)
LEMMA CycleStep ==
  ASSUME IInv, NEW p \in Processes, NEW d \in Dispatchers,
         CycleEnds(p, d) \/ CycleRaises(p, d), UNCHANGED <<log, due, old, crashes>>
  PROVE  IInv'
<1>1. log \in Seq(Entry) /\ ClocksPart /\ PhasePart /\ TaskPart /\ LogOK
  BY Parts
<1>2. LogMoves /\ log' \in Seq(Entry) /\ ClocksPart'
  BY <1>1 DEF LogMoves, ClocksPart
<1>3. TaskPart' /\ PhasePart'
  BY <1>1, <1>2, CycleEndsStep, CycleRaisesStep DEF PhasePart
<1>4. LogOK'
  BY <1>1, LogKept
<1> QED
  BY <1>2, <1>3, <1>4, PartsNext

(* The clocks, and the life of a process. *)
LEMMA ProcessSteps ==
  ASSUME IInv, NEW p \in Processes, Boot(p) \/ Crash(p)
  PROVE  IInv'
<1>1. log \in Seq(Entry) /\ ClocksPart /\ PhasePart /\ TaskPart /\ LogOK
  BY Parts
<1>2. log' = log
  BY DEF Boot, Crash
<1>3. LogMoves /\ log' \in Seq(Entry)
  BY <1>1, <1>2 DEF LogMoves
<1>4. ClocksPart'
  BY <1>1, SessionAssumption DEF ClocksPart, Boot, Crash
<1>5. TaskPart' /\ PhasePart'
  <2>1. CASE Boot(p)
    <3> DEFINE t == [Idle EXCEPT !.pc = "list"]
    <3>1. SetTask(p, Poller, t) /\ Poller \in Slots
      BY <2>1 DEF Boot, Slots, Dispatchers
    <3>2. t \in Task /\ TaskOK(Poller, t)'
      BY <1>3, <3>1, FreshIsOK
    <3>3. TaskPart'
      BY <1>1, <1>3, <3>1, <3>2, TaskSet
    <3> QED
      BY <1>1, <2>1, <3>3 DEF Boot, PhasePart
  <2>2. CASE Crash(p)
    BY <1>1, <1>3, <2>2, DieStep DEF Crash, PhasePart
  <2> QED
    BY <2>1, <2>2
<1>6. LogOK'
  BY <1>1, <1>2, LogKept
<1> QED
  BY <1>3, <1>4, <1>5, <1>6, PartsNext

LEMMA ClockSteps ==
  ASSUME IInv, StageBecomesDue \/ TwoDaysPass
  PROVE  IInv'
<1>1. log \in Seq(Entry) /\ ClocksPart /\ PhasePart /\ TaskPart /\ LogOK
  BY Parts
<1>2. /\ log' = log /\ task' = task /\ phase' = phase
      /\ ClocksPart'
  BY <1>1 DEF StageBecomesDue, TwoDaysPass, ClocksPart
<1>3. LogMoves
  BY <1>2 DEF LogMoves
<1>4. TaskPart'
  BY <1>1, <1>2, <1>3, TasksSame
<1>5. LogOK'
  BY <1>1, <1>2, LogKept
<1> QED
  BY <1>1, <1>2, <1>4, <1>5, PartsNext DEF PhasePart

(* What a task may know of the log it has just read. *)
LEMMA NowIsOK ==
  ASSUME IInv
  PROVE  /\ Now \in Nat /\ Now = Len(log)
         /\ \A s \in Slots, t \in Task :
              /\ t.seen = Now /\ t.read = 0 /\ t.pc # "record"
              /\ s \in Dispatchers /\ t.pc \in {"outcome", "finalize"} =>
                   Ready(Now) /\ ~Archived(Now)
              => TaskOK(s, t)
<1>1. Now \in Nat /\ Now = Len(log)
  BY DEF IInv, TypeOK, Now
<1> QED
  BY <1>1 DEF TaskOK

LEMMA SlotKinds ==
  /\ Requests \subseteq Slots /\ Dispatchers \subseteq Slots
  /\ \A s \in Slots : s \in Dispatchers <=> s \notin Requests
BY SessionAssumption DEF Slots, Dispatchers

(* The task fields a step changes keep it a task. *)
LEMMA TaskFields ==
  ASSUME NEW t \in Task, NEW c \in Pc, NEW n \in Nat
  PROVE  /\ [t EXCEPT !.pc = c] \in Task
         /\ [t EXCEPT !.seen = n, !.pc = c] \in Task
         /\ [t EXCEPT !.pc = c, !.read = n] \in Task
         /\ [t EXCEPT !.wrote = TRUE] \in Task
BY DEF Task

(* A task that goes on with what it knew. *)
LEMMA GoesOn ==
  ASSUME IInv, NEW s \in Slots, NEW t \in Task, TaskOK(s, t), NEW c \in Pc,
         c # "record",
         s \in Requests \/ c \notin {"outcome", "finalize"}
           \/ t.pc \in {"outcome", "record", "finalize"}
  PROVE  [t EXCEPT !.pc = c] \in Task /\ TaskOK(s, [t EXCEPT !.pc = c])
<1> DEFINE u == [t EXCEPT !.pc = c]
<1>1. u \in Task
  BY TaskFields
<1>2. u.seen = t.seen /\ u.read = t.read /\ u.pc = c
  BY DEF Task
<1> HIDE DEF u
<1>3. TaskOK(s, u)
  BY <1>2, SlotKinds DEF TaskOK
<1> QED
  BY <1>1, <1>3 DEF u

LEMMA TurnSteps ==
  ASSUME IInv, NEW p \in Processes, NEW r \in Requests,
         CreateRead(p, r) \/ TurnLoad(p, r) \/ TurnRefused(p, r) \/ TurnAnswered(p, r)
  PROVE  IInv'
<1>1. r \in Slots /\ task[p][r] \in Task /\ TaskOK(r, task[p][r])
  BY TaskFacts, SlotKinds
<1>2. Idle \in Task /\ Now \in Nat /\ 0 \in Nat
  BY SessionAssumption, NowIsOK DEF Idle, Task, Pc
<1>3. ASSUME NEW c \in Pc \ {"record"}
      PROVE  LET t == [Idle EXCEPT !.seen = Now, !.pc = c]
             IN  t \in Task /\ TaskOK(r, t)
  <2> DEFINE t == [Idle EXCEPT !.seen = Now, !.pc = c]
  <2>1. t \in Task
    BY <1>2, TaskFields
  <2>2. t.seen = Now /\ t.read = 0 /\ t.pc = c
    BY DEF Idle
  <2> HIDE DEF t
  <2>3. TaskOK(r, t)
    BY <1>1, <2>1, <2>2, NowIsOK, SlotKinds
  <2> QED
    BY <2>1, <2>3 DEF t
<1>4. ASSUME NEW c \in Pc \ {"record"}
      PROVE  [Idle EXCEPT !.pc = c] \in Task /\ TaskOK(r, [Idle EXCEPT !.pc = c])
  <2>1. TaskOK(r, Idle)
    BY <1>1, <1>2, NowIsOK DEF TaskOK, Idle
  <2> QED
    BY <1>1, <1>2, <2>1, GoesOn
<1>5. CASE CreateRead(p, r)
  <2>1. "create" \in Pc
    BY DEF Pc
  <2> QED
    BY <1>1, <1>4, <1>5, <2>1, TaskStep DEF CreateRead
<1>6. CASE TurnLoad(p, r)
  <2> DEFINE c == IF Pending(Now) /\ Replied(Now) THEN "outcome" ELSE "reply"
  <2>1. c \in Pc \ {"record"}
    BY DEF Pc
  <2> QED
    BY <1>1, <1>3, <1>6, <2>1, TaskStep DEF TurnLoad
<1>7. CASE TurnRefused(p, r)
  <2>1. "refused" \in Pc
    BY DEF Pc
  <2> QED
    BY <1>1, <1>7, <2>1, GoesOn, TaskStep DEF TurnRefused
<1>8. CASE TurnAnswered(p, r)
  <2>1. TaskOK(r, Idle)
    BY <1>1, <1>2, NowIsOK DEF TaskOK, Idle
  <2> QED
    BY <1>1, <1>2, <1>8, <2>1, TaskStep DEF TurnAnswered
<1> QED
  BY <1>5, <1>6, <1>7, <1>8

LEMMA DispatchSteps ==
  ASSUME IInv, NEW p \in Processes, NEW d \in Dispatchers,
         \/ List(p, d) \/ ListNone(p, d) \/ Begin(p, d) \/ BeginSkipped(p, d)
         \/ Load(p, d) \/ StageRefused(p, d) \/ FinalizeConflict(p, d)
  PROVE  IInv'
<1>1. d \in Slots /\ task[p][d] \in Task /\ TaskOK(d, task[p][d])
  BY TaskFacts, SlotKinds
<1>2. Idle \in Task /\ Now \in Nat /\ Now = Len(log)
  BY SessionAssumption, NowIsOK DEF Idle, Task, Pc
<1>3. CASE List(p, d)
  <2>1. PICK stage \in DueStages(Now) :
          SetTask(p, d, [Idle EXCEPT !.pc = "queued", !.stage = stage])
    BY <1>3 DEF List
  <2> DEFINE t == [Idle EXCEPT !.pc = "queued", !.stage = stage]
  <2>2. stage \in 0 .. Stages
    BY <1>2, DueStagesAreStages
  <2>3. t \in Task
    BY <1>2, <2>2 DEF Task, Pc
  <2>4. t.seen = 0 /\ t.read = 0 /\ t.pc = "queued"
    BY DEF Idle
  <2>5. TaskOK(d, t)
    BY <1>2, <2>4 DEF TaskOK
  <2>6. SetTask(p, d, t) /\ UNCHANGED <<log, due, old, phase, crashes>>
    BY <1>3, <2>1 DEF List
  <2> HIDE DEF t
  <2> QED
    BY <1>1, <2>3, <2>5, <2>6, TaskStep
<1>4. CASE ListNone(p, d)
  BY <1>4, CycleStep DEF ListNone
<1>5. CASE Begin(p, d)
  <2>1. "load" \in Pc
    BY DEF Pc
  <2> QED
    BY <1>1, <1>5, <2>1, GoesOn, TaskStep DEF Begin
<1>6. CASE BeginSkipped(p, d)
  BY <1>6, CycleStep DEF BeginSkipped
<1>7. CASE Load(p, d)
  <2>1. CASE Archived(Now) \/ ~Ready(Now)
    BY <1>7, <2>1, CycleStep DEF Load
  <2>2. CASE ~(Archived(Now) \/ ~Ready(Now))
    <3> DEFINE c == IF Pending(Now) /\ ~Replied(Now) /\ old THEN "outcome" ELSE "finalize"
               t == [task[p][d] EXCEPT !.seen = Now, !.pc = c]
    <3>1. c \in Pc /\ c \in {"outcome", "finalize"}
      BY DEF Pc
    <3> HIDE DEF c
    <3>2. t \in Task
      BY <1>1, <1>2, <3>1, TaskFields
    <3>3. t.seen = Now /\ t.read = task[p][d].read /\ t.pc = c
      BY <1>1 DEF Task
    <3>4. SetTask(p, d, t) /\ UNCHANGED <<log, due, old, phase, crashes>>
      BY <1>7, <2>2 DEF Load, c
    <3> HIDE DEF t
    <3>5. TaskOK(d, t)
      BY <1>1, <1>2, <2>2, <3>1, <3>3 DEF TaskOK
    <3> QED
      BY <1>1, <3>2, <3>4, <3>5, TaskStep
  <2> QED
    BY <2>1, <2>2
<1>8. CASE StageRefused(p, d)
  BY <1>8, CycleStep DEF StageRefused
<1>9. CASE FinalizeConflict(p, d)
  BY <1>9, CycleStep DEF FinalizeConflict
<1> QED
  BY <1>3, <1>4, <1>5, <1>6, <1>7, <1>8, <1>9

LEMMA OutcomeSteps ==
  ASSUME IInv, NEW p \in Processes, NEW s \in Slots,
         OutcomeRead(p, s) \/ OutcomeConflict(p, s)
  PROVE  IInv'
<1> DEFINE t == task[p][s]
<1>1. t \in Task /\ TaskOK(s, t)
  BY TaskFacts
<1>2. Now \in Nat /\ Now = Len(log)
  BY NowIsOK
<1>3. CASE OutcomeRead(p, s) /\ Pending(Now)
  <2> DEFINE u == [t EXCEPT !.pc = "record", !.read = Now]
  <2>1. u \in Task
    BY <1>1, <1>2, TaskFields DEF Pc
  <2>2. u.seen = t.seen /\ u.read = Now /\ u.pc = "record"
    BY <1>1 DEF Task
  <2>3. SetTask(p, s, u) /\ UNCHANGED <<log, due, old, phase, crashes>> /\ t.pc = "outcome"
    BY <1>3 DEF OutcomeRead
  <2> HIDE DEF u
  <2>4. TaskOK(s, u)
    BY <1>1, <1>2, <1>3, <2>2, <2>3 DEF TaskOK
  <2> QED
    BY <2>1, <2>3, <2>4, TaskStep
<1>4. CASE OutcomeRead(p, s) /\ ~Pending(Now)
  <2> DEFINE c == IF s \in Requests THEN "reply" ELSE "finalize"
             u == [t EXCEPT !.pc = c]
  <2>1. c \in Pc /\ c # "record" /\ (s \in Requests \/ c = "finalize")
          /\ (s \in Requests => c = "reply")
    BY DEF Pc
  <2>2. SetTask(p, s, u) /\ UNCHANGED <<log, due, old, phase, crashes>> /\ t.pc = "outcome"
    BY <1>4 DEF OutcomeRead, GoOn
  <2> HIDE DEF c, t
  <2>3. u \in Task /\ TaskOK(s, u)
    BY <1>1, <2>1, <2>2, GoesOn
  <2> HIDE DEF u
  <2> QED
    BY <2>2, <2>3, TaskStep
<1>5. CASE OutcomeConflict(p, s) /\ s \in Requests
  <2> DEFINE u == [t EXCEPT !.pc = "refused"]
  <2>1. "refused" \in Pc
    BY DEF Pc
  <2>2. SetTask(p, s, u) /\ UNCHANGED <<log, due, old, phase, crashes>>
    BY <1>5 DEF OutcomeConflict
  <2> HIDE DEF t
  <2>3. u \in Task /\ TaskOK(s, u)
    BY <1>1, <1>5, <2>1, GoesOn
  <2> HIDE DEF u
  <2> QED
    BY <2>2, <2>3, TaskStep
<1>6. CASE OutcomeConflict(p, s) /\ s \notin Requests
  <2>1. s \in Dispatchers
    BY <1>6, SlotKinds
  <2> QED
    BY <1>6, <2>1, CycleStep DEF OutcomeConflict
<1> QED
  BY <1>3, <1>4, <1>5, <1>6

-----------------------------------------------------------------------------
(* The steps that append. *)

(* An empty stream has no directive and no follow-up. *)
LEMMA NothingAtFirst == ~Ready(0) /\ ~Pending(0)
<1>1. \A K : Positions(K, 0) = {}
  BY DEF Positions
<1>2. \A K : LastOf(K, 0) = 0
  BY <1>1 DEF LastOf
<1> QED
  BY <1>2 DEF Ready, Pending, Since

LEMMA BatchIsEntry ==
  ASSUME NEW k \in Kinds
  PROVE  /\ Batch(k) \in Entry
         /\ Batch(k).kind = k /\ Batch(k).starts = FALSE
         /\ \A b \in BOOLEAN : /\ [Batch(k) EXCEPT !.starts = b] \in Entry
                               /\ [Batch(k) EXCEPT !.starts = b].kind = k
                               /\ [Batch(k) EXCEPT !.starts = b].starts = b
         /\ \A n \in 0 .. Stages : /\ [Batch(k) EXCEPT !.stage = n] \in Entry
                                  /\ [Batch(k) EXCEPT !.stage = n].kind = k
                                  /\ [Batch(k) EXCEPT !.stage = n].stage = n
                                  /\ [Batch(k) EXCEPT !.stage = n].starts = FALSE
<1>1. Batch(k) \in Entry /\ Batch(k).kind = k /\ Batch(k).starts = FALSE
  <2>1. 0 \in 0 .. Stages
    BY SessionAssumption
  <2> QED
    BY <2>1 DEF Batch, Entry
<1>2. \A x \in Entry :
        /\ \A b \in BOOLEAN : /\ [x EXCEPT !.starts = b] \in Entry
                             /\ [x EXCEPT !.starts = b].kind = x.kind
                             /\ [x EXCEPT !.starts = b].starts = b
        /\ \A n \in 0 .. Stages : /\ [x EXCEPT !.stage = n] \in Entry
                                 /\ [x EXCEPT !.stage = n].kind = x.kind
                                 /\ [x EXCEPT !.stage = n].stage = n
                                 /\ [x EXCEPT !.stage = n].starts = x.starts
  BY DEF Entry
<1> QED
  BY <1>1, <1>2

(* A step that appends an entry that fits the log, and moves one task or none. *)
LEMMA AppendStep ==
  ASSUME IInv, NEW e \in Entry, Write(e),
         e.starts <=> Len(log) = 0,
         e.kind = "sent" =>
           /\ Ready(Len(log)) /\ ~Archived(Len(log))
           /\ ~AlreadyDispatched(Len(log), e.stage),
         e.kind \in Outcomes => Pending(Len(log)),
         due' \in BOOLEAN, old' \in BOOLEAN, UNCHANGED crashes,
         \/ UNCHANGED <<task, phase>>
         \/ \E p \in Processes, s \in Slots : \E t \in Task :
              SetTask(p, s, t) /\ TaskOK(s, t) /\ UNCHANGED phase
         \/ \E p \in Processes, d \in Dispatchers : CycleEnds(p, d)
  PROVE  IInv'
<1>1. log \in Seq(Entry) /\ ClocksPart /\ PhasePart /\ TaskPart /\ LogOK
  BY Parts
<1>2. LogMoves /\ log' \in Seq(Entry)
  BY <1>1, PrefixKept DEF LogMoves
<1>3. LogOK'
  BY <1>1, LogAppended
<1>4. ClocksPart'
  BY <1>1 DEF ClocksPart
<1>5. TaskPart' /\ PhasePart'
  <2>1. CASE UNCHANGED <<task, phase>>
    BY <1>1, <1>2, <2>1, TasksSame DEF PhasePart
  <2>2. CASE \E p \in Processes, s \in Slots : \E t \in Task :
               SetTask(p, s, t) /\ TaskOK(s, t) /\ UNCHANGED phase
    <3>1. PICK p \in Processes, s \in Slots : \E t \in Task :
               SetTask(p, s, t) /\ TaskOK(s, t) /\ UNCHANGED phase
      BY <2>2
    <3>2. PICK t \in Task : SetTask(p, s, t) /\ TaskOK(s, t) /\ UNCHANGED phase
      BY <3>1
    <3>3. \A o \in Slots, u \in Task : TaskOK(o, u) => TaskOK(o, u)'
      BY <1>1, <1>2, TaskKept
    <3>4. TaskOK(s, t)'
      BY <3>2, <3>3
    <3>5. TaskPart'
      BY <1>1, <1>2, <3>2, <3>4, TaskSet
    <3> QED
      BY <1>1, <3>2, <3>5 DEF PhasePart
  <2>3. CASE \E p \in Processes, d \in Dispatchers : CycleEnds(p, d)
    BY <1>1, <1>2, <2>3, CycleEndsStep DEF PhasePart
  <2> QED
    BY <2>1, <2>2, <2>3
<1> QED
  BY <1>2, <1>3, <1>4, <1>5, PartsNext

LEMMA TurnAppends ==
  ASSUME IInv, NEW p \in Processes, NEW r \in Requests,
         CreateAppend(p, r) \/ TurnAppend(p, r)
  PROVE  IInv'
<1>1. r \in Slots /\ task[p][r] \in Task /\ TaskOK(r, task[p][r])
  BY TaskFacts, SlotKinds
<1>2. due \in BOOLEAN /\ old \in BOOLEAN /\ Len(log) \in Nat
  BY DEF IInv, TypeOK
<1>3. Idle \in Task /\ TaskOK(r, Idle)
  <2>1. Idle \in Task
    BY SessionAssumption DEF Idle, Task, Pc
  <2>2. Idle.seen = 0 /\ Idle.read = 0 /\ Idle.pc = "idle"
    BY DEF Idle
  <2> QED
    BY <1>2, <2>1, <2>2 DEF TaskOK
<1>4. CASE CreateAppend(p, r) /\ Fits(0)
  <2> DEFINE e == [Batch("created") EXCEPT !.starts = TRUE]
  <2>1. e \in Entry /\ e.kind = "created" /\ e.starts = TRUE
    BY BatchIsEntry DEF Kinds
  <2>2. Write(e) /\ SetTask(p, r, Idle) /\ UNCHANGED <<due, old, phase, crashes>>
    BY <1>4 DEF CreateAppend
  <2>3. Len(log) = 0
    BY <1>4 DEF Fits
  <2> HIDE DEF e
  <2> QED
    BY <1>1, <1>2, <1>3, <2>1, <2>2, <2>3, AppendStep DEF Outcomes
<1>5. CASE CreateAppend(p, r) /\ ~Fits(0)
  BY <1>1, <1>3, <1>5, TaskStep DEF CreateAppend
<1>6. CASE TurnAppend(p, r)
  <2>1. PICK kind \in Turns :
          /\ Write([Batch(kind) EXCEPT !.starts = task[p][r].seen = 0])
          /\ due' \in IF kind = "turn" THEN {due, FALSE} ELSE {FALSE}
    BY <1>6 DEF TurnAppend
  <2> DEFINE e == [Batch(kind) EXCEPT !.starts = task[p][r].seen = 0]
  <2>2. kind \in Kinds /\ kind \notin Outcomes /\ kind # "sent"
    BY DEF Turns, Kinds, Outcomes
  <2>3. e \in Entry /\ e.kind = kind /\ e.starts = (task[p][r].seen = 0)
    BY <2>2, BatchIsEntry
  <2>4. task[p][r].seen = Len(log) /\ SetTask(p, r, Idle) /\ UNCHANGED <<old, phase, crashes>>
    BY <1>6 DEF TurnAppend, Fits
  <2>5. Write(e) /\ due' \in BOOLEAN
    BY <1>2, <2>1
  <2> HIDE DEF e
  <2> QED
    BY <1>1, <1>2, <1>3, <2>2, <2>3, <2>4, <2>5, AppendStep
<1> QED
  BY <1>4, <1>5, <1>6

LEMMA FinalizeStep ==
  ASSUME IInv, NEW p \in Processes, NEW d \in Dispatchers, Finalize(p, d)
  PROVE  IInv'
<1> DEFINE t == task[p][d]
           e == [Batch("sent") EXCEPT !.stage = t.stage]
           f == Batch("delayed")
<1>1. d \in Slots /\ t \in Task /\ TaskOK(d, t)
  BY TaskFacts, SlotKinds
<1>2. due \in BOOLEAN /\ old \in BOOLEAN /\ Len(log) \in Nat
  BY DEF IInv, TypeOK
<1>3. /\ t.seen = Len(log) /\ ~AlreadyDispatched(Len(log), t.stage)
      /\ Ready(Len(log)) /\ ~Archived(Len(log))
  BY <1>1 DEF Finalize, Fits, StageIsOpen, TaskOK
<1>4. Len(log) # 0
  BY <1>3, NothingAtFirst
<1>5. /\ e \in Entry /\ e.kind = "sent" /\ e.stage = t.stage /\ e.starts = FALSE
      /\ f \in Entry /\ f.kind = "delayed" /\ f.starts = FALSE
  <2>1. t.stage \in 0 .. Stages
    BY <1>1 DEF Task
  <2>2. "sent" \in Kinds /\ "delayed" \in Kinds
    BY DEF Kinds
  <2> HIDE DEF t
  <2> QED
    BY <2>1, <2>2, BatchIsEntry
<1>6. (Write(e) /\ old' = FALSE) \/ (Write(f) /\ old' = old)
  BY DEF Finalize
<1>7. due' = FALSE /\ crashes' = crashes /\ CycleEnds(p, d)
  BY DEF Finalize
<1> HIDE DEF e, f, t
<1> QED
  BY <1>2, <1>3, <1>4, <1>5, <1>6, <1>7, AppendStep DEF Outcomes

LEMMA OutcomeAppends ==
  ASSUME IInv, NEW p \in Processes, NEW s \in Slots, OutcomeAppend(p, s)
  PROVE  IInv'
<1> DEFINE t == task[p][s]
           k == IF s \in Requests THEN "responded" ELSE "ignored"
           e == Batch(k)
           v == [t EXCEPT !.wrote = TRUE]
           c == IF s \in Requests THEN "reply" ELSE "finalize"
           u == [v EXCEPT !.pc = c]
<1>1. t \in Task /\ TaskOK(s, t)
  BY TaskFacts
<1>2. due \in BOOLEAN /\ old \in BOOLEAN /\ Len(log) \in Nat
  BY DEF IInv, TypeOK
<1>3. t.read = Len(log) /\ t.pc = "record" /\ Pending(Len(log))
  BY <1>1 DEF OutcomeAppend, Fits, TaskOK
<1>4. Len(log) # 0
  BY <1>3, NothingAtFirst
<1>5. e \in Entry /\ e.kind = k /\ e.starts = FALSE /\ k # "sent"
  BY BatchIsEntry DEF Kinds, Outcomes
<1>6. /\ v \in Task /\ v.seen = t.seen /\ v.read = t.read /\ v.pc = "record"
  BY <1>1, <1>3 DEF Task
<1>7. TaskOK(s, v)
  BY <1>1, <1>3, <1>6 DEF TaskOK
<1>8. c \in Pc /\ c # "record"
  BY DEF Pc
<1>9. Write(e) /\ SetTask(p, s, u) /\ UNCHANGED <<due, old, phase, crashes>>
  BY DEF OutcomeAppend, GoOn
<1> HIDE DEF v, e, k, t
<1>10. (s \in Requests => c = "reply") /\ v.pc \in {"outcome", "record", "finalize"}
  BY <1>6
<1> HIDE DEF c
<1>11. u \in Task /\ TaskOK(s, u)
  BY <1>6, <1>7, <1>8, <1>10, GoesOn
<1> HIDE DEF u
<1> QED
  BY <1>2, <1>3, <1>4, <1>5, <1>9, <1>11, AppendStep

LEMMA JobAppends ==
  ASSUME IInv, JobAppend
  PROVE  IInv'
<1>1. due \in BOOLEAN /\ old \in BOOLEAN /\ Len(log) # 0
  BY DEF IInv, TypeOK, JobAppend
<1>2. PICK k \in {"other", "archived"} : Write(Batch(k))
  BY DEF JobAppend
<1> DEFINE e == Batch(k)
<1>3. k \in Kinds /\ k \notin Outcomes /\ k # "sent"
  BY DEF Kinds, Outcomes
<1>4. e \in Entry /\ e.kind = k /\ e.starts = FALSE
  BY <1>3, BatchIsEntry
<1>5. Write(e) /\ UNCHANGED <<due, old, phase, task, crashes>>
  BY <1>2 DEF JobAppend
<1> HIDE DEF e
<1> QED
  BY <1>1, <1>3, <1>4, <1>5, AppendStep

-----------------------------------------------------------------------------
(* The invariant. *)

LEMMA InitHolds == Init => IInv
<1> SUFFICES ASSUME Init PROVE IInv
  OBVIOUS
<1>1. Len(log) = 0 /\ log \in Seq(Entry)
  BY DEF Init
<1>2. Idle \in Task /\ Idle.seen = 0 /\ Idle.read = 0 /\ Idle.pc = "idle"
  BY SessionAssumption DEF Idle, Task, Pc
<1>3. TypeOK
  <2>1. phase \in [Processes -> {"down", "boot", "up"}]
    BY DEF Init
  <2>2. task \in [Processes -> [Slots -> Task]]
    BY <1>2 DEF Init
  <2>3. due \in BOOLEAN /\ old \in BOOLEAN
    BY Zenon DEF Init
  <2>4. crashes \in 0 .. MaxCrashes
    BY SessionAssumption DEF Init
  <2> QED
    BY <1>1, <2>1, <2>2, <2>3, <2>4 DEF TypeOK
<1>4. TasksOK
  BY <1>1, <1>2 DEF Init, TasksOK, TaskOK
<1>5. \A K : Positions(K, Len(log)) = {}
  BY <1>1 DEF Positions
<1>6. StartedOnce /\ StagesAdvance /\ FollowupIsWanted /\ OneOutcomeEach
  BY <1>1, <1>5 DEF StartedOnce, StagesAdvance, FollowupIsWanted, OneOutcomeEach
<1> QED
  BY <1>3, <1>4, <1>6 DEF IInv

LEMMA NextKeeps == IInv /\ [Next]_vars => IInv'
<1> SUFFICES ASSUME IInv, [Next]_vars PROVE IInv'
  OBVIOUS
<1>1. ASSUME NEW p \in Processes, Boot(p) \/ Crash(p) PROVE IInv'
  BY <1>1, ProcessSteps
<1>2. ASSUME NEW p \in Processes, NEW r \in Requests, RequestStep(p, r) PROVE IInv'
  BY <1>2, TurnSteps, TurnAppends DEF RequestStep
<1>3. ASSUME NEW p \in Processes, NEW d \in Dispatchers, DispatchStep(p, d) PROVE IInv'
  BY <1>3, DispatchSteps, FinalizeStep DEF DispatchStep
<1>4. ASSUME NEW p \in Processes, NEW s \in Slots, OutcomeStep(p, s) PROVE IInv'
  BY <1>4, OutcomeSteps, OutcomeAppends DEF OutcomeStep
<1>5. ASSUME JobAppend \/ StageBecomesDue \/ TwoDaysPass PROVE IInv'
  BY <1>5, JobAppends, ClockSteps
<1>6. CASE UNCHANGED vars
  <2>1. log \in Seq(Entry) /\ ClocksPart /\ PhasePart /\ TaskPart /\ LogOK
    BY Parts
  <2>2. LogMoves
    BY <1>6 DEF vars, LogMoves
  <2>3. TaskPart' /\ LogOK'
    BY <1>6, <2>1, <2>2, TasksSame, LogKept DEF vars
  <2> QED
    BY <1>6, <2>1, <2>3, PartsNext DEF vars, ClocksPart, PhasePart
<1> QED
  BY <1>1, <1>2, <1>3, <1>4, <1>5, <1>6 DEF Next

LEMMA Invariance == Spec => []IInv
BY InitHolds, NextKeeps, PTL DEF Spec

(* Every reachable state is one the program's types allow. *)
THEOREM SessionTypeCorrectness == Spec => []TypeOK
<1>1. IInv => TypeOK
  BY DEF IInv
<1> QED
  BY <1>1, Invariance, PTL

(* Whichever of create_session and the first turns of the processes is first *)
(* starts the session, and no other does.                                    *)
THEOREM SessionsStartOnce == Spec => []StartedOnce
<1>1. IInv => StartedOnce
  BY DEF IInv
<1> QED
  BY <1>1, Invariance, PTL

(* No stage is sent again or sent late for one directive, by any number of    *)
(* pollers and manual dispatches, whichever crash, are put off or are refused. *)
THEOREM StagesOnlyAdvance == Spec => []StagesAdvance
<1>1. IInv => StagesAdvance
  BY DEF IInv
<1> QED
  BY <1>1, Invariance, PTL

(* A follow-up lands only in a session that is not archived and whose latest *)
(* directive is ready, although both were read before the LLM has answered.  *)
THEOREM FollowupsAreWanted == Spec => []FollowupIsWanted
<1>1. IInv => FollowupIsWanted
  BY DEF IInv
<1> QED
  BY <1>1, Invariance, PTL

(* The turns and the dispatchers of all processes record at most one outcome *)
(* of a follow-up, and none of a follow-up that was not sent.                *)
THEOREM OutcomesAreSingle == Spec => []OneOutcomeEach
<1>1. IInv => OneOutcomeEach
  BY DEF IInv
<1> QED
  BY <1>1, Invariance, PTL
=============================================================================
