---------------------------- MODULE SessionTurns ----------------------------
(***************************************************************************)
(* One session stream and its writers: the turns of application/           *)
(* runtime_service.py, the follow-ups sent by application/                 *)
(* proactive_followup_dispatcher.py and proactive_dispatch_handler.py, the *)
(* outcomes both record of an earlier follow-up, and background jobs.      *)
(*                                                                         *)
(* A writer reads the stream, works (router, analyzers, the LLM), and      *)
(* appends with the length it has read as the expected version, which      *)
(* holds exactly when the stream still has that length (EventStore).  Each *)
(* await on the store is a step.                                           *)
(*                                                                         *)
(*  - The log has one entry for the batch of one append, with what the     *)
(*    readers look for in it.  What was read is a prefix of the log: its   *)
(*    length is enough.                                                    *)
(*  - Timestamps order entries as the log does (EventStore).  Clocks are   *)
(*    two flags: due, a stage of the current directive has become due,     *)
(*    and old, 48 hours have passed since the last follow-up.              *)
(*  - What the analyzers decide (a directive, the dispatch or its delay)   *)
(*    is a choice.                                                         *)
(***************************************************************************)
EXTENDS Naturals, Sequences, FiniteSets

CONSTANTS
  Processes,    \* API processes, one runtime service and dispatcher each
  Requests,     \* API requests a process serves at a time
  Poller,       \* the dispatcher's start and poll loop
  Manual,       \* POST /runtime/proactive-followups/dispatch
  Stages,       \* close_after_stage_index of the cadence plans
  MaxDispatch,  \* max_dispatch_count of the guardrail plans
  MaxLog,       \* bound: no new work once the log has this length
  MaxCrashes    \* bound: crashes of a process

ASSUME SessionAssumption ==
  /\ Poller \notin Requests \cup Manual /\ Requests \cap Manual = {}
  /\ Stages \in Nat \ {0} /\ MaxDispatch \in 1 .. Stages
  /\ MaxLog \in Nat /\ MaxCrashes \in Nat

VARIABLES
  log,      \* the session stream
  due,      \* a stage of the current directive is due
  old,      \* the last follow-up is at least 48 hours old
  phase,    \* process -> its life
  task,     \* process -> slot -> the request or dispatch cycle in progress
  crashes   \* processes that have crashed
vars == <<log, due, old, phase, task, crashes>>

-----------------------------------------------------------------------------
Dispatchers == Manual \cup {Poller}
Slots == Requests \cup Dispatchers

(* Batches: SESSION_STARTED alone, a turn (with the directive of its full   *)
(* analysis, if it had one), a follow-up, a follow-up put off, an outcome,  *)
(* an archiving job, and anything else.                                     *)
Turns == {"turn", "hold", "ready"}
Directives == {"hold", "ready"}
Outcomes == {"responded", "ignored"}
Kinds == Turns \cup Outcomes \cup {"created", "sent", "delayed", "archived", "other"}
Entry == [kind: Kinds, stage: 0 .. Stages, starts: BOOLEAN]
Batch(kind) == [kind |-> kind, stage |-> 0, starts |-> FALSE]

Pc == {"idle", "create", "reply", "refused", "outcome", "record",
       "list", "queued", "load", "finalize", "dead"}
Task == [pc: Pc, seen: Nat, read: Nat, stage: 0 .. Stages, wrote: BOOLEAN]
Idle == [pc |-> "idle", seen |-> 0, read |-> 0, stage |-> 0, wrote |-> FALSE]

(* What a reader finds in the first n entries. *)
Positions(kinds, n) == {i \in 1 .. n : log[i].kind \in kinds}
LastOf(kinds, n) ==
  IF Positions(kinds, n) = {} THEN 0
  ELSE CHOOSE i \in Positions(kinds, n) : \A j \in Positions(kinds, n) : j <= i
Since(kinds, mark, n) == LastOf(kinds, n) > LastOf(mark, n)

Pending(n) == LastOf({"sent"}, n) > 0 /\ ~Since(Outcomes, {"sent"}, n)
Replied(n) == Since(Turns, {"sent"}, n)
Archived(n) == Positions({"archived"}, n) # {}
Ready(n) == Since({"ready"}, {"hold"}, n)
Dispatched(n) == {i \in Positions({"sent"}, n) : i > LastOf(Directives, n)}
DispatchedStages(n) == {log[i].stage : i \in Dispatched(n)}

(* Mutant: a stage after the last one is offered. *)
DueStagesBeyond(n) ==
  IF due /\ Ready(n) /\ ~Archived(n)
  THEN Cardinality(Dispatched(n)) + 1 .. MaxDispatch + 1
  ELSE {}

(* _resolve_followup_stage: the stage after the number of follow-ups sent   *)
(* for the directive, or a later one when stages have expired; none when    *)
(* the last one closed the line or enough were sent.                        *)
DueStages(n) ==
  IF due /\ Ready(n) /\ ~Archived(n)
       /\ (Dispatched(n) = {} \/ log[LastOf({"sent"}, n)].stage < Stages)
  THEN Cardinality(Dispatched(n)) + 1 .. MaxDispatch
  ELSE {}

(* Mutant: only a later stage counts as dispatched. *)
AlreadyDispatchedLater(n, stage) == \E s \in DispatchedStages(n) : s > stage

(* already_dispatched_for_requested_stage. *)
AlreadyDispatched(n, stage) == \E s \in DispatchedStages(n) : s >= stage
BeyondCadence(stage) == stage > Stages
StageIsOpen(n, stage) == ~AlreadyDispatched(n, stage) /\ ~BeyondCadence(stage)

(* Mutant: the expected version is not compared. *)
FitsAlways(version) == TRUE

Room == Len(log) < MaxLog
Now == Len(log)
Fits(version) == version = Len(log)
Write(e) == log' = Append(log, e)
SetTask(p, s, t) == task' = [task EXCEPT ![p][s] = t]

-----------------------------------------------------------------------------
Init ==
  /\ log = <<>>
  /\ due = FALSE /\ old = FALSE
  /\ phase = [p \in Processes |-> "down"]
  /\ task = [p \in Processes |-> [s \in Slots |-> Idle]]
  /\ crashes = 0

(* create_session: the stream is read and found empty ... *)
CreateRead(p, r) ==
  /\ phase[p] = "up" /\ task[p][r].pc = "idle" /\ log = <<>>
  /\ SetTask(p, r, [Idle EXCEPT !.pc = "create"])
  /\ UNCHANGED <<log, due, old, phase, crashes>>

(* ... and SESSION_STARTED is appended at version 0, or the request fails. *)
CreateAppend(p, r) ==
  /\ task[p][r].pc = "create"
  /\ IF Fits(0) THEN Write([Batch("created") EXCEPT !.starts = TRUE])
                ELSE UNCHANGED log
  /\ SetTask(p, r, Idle)
  /\ UNCHANGED <<due, old, phase, crashes>>

-----------------------------------------------------------------------------
(* process_turn. *)

(* The steps of a turn that holds the process's lock of the session. *)
InTurn(p, r) == task[p][r].pc \in {"outcome", "record", "reply"}

(* The lock is taken, the stream is read, and maybe_record looks for a      *)
(* follow-up that an earlier turn has answered.                             *)
TurnLoad(p, r) ==
  /\ phase[p] = "up" /\ task[p][r].pc = "idle" /\ Room
  /\ \A o \in Requests : ~InTurn(p, o)
  /\ SetTask(p, r, [Idle EXCEPT !.seen = Now,
                      !.pc = IF Pending(Now) /\ Replied(Now) THEN "outcome" ELSE "reply"])
  /\ UNCHANGED <<log, due, old, phase, crashes>>

(* The turn's batch goes at the version the turn has loaded: the message of *)
(* the user, the reply and, after the full analysis, a directive, whose     *)
(* first stage is due later.                                                *)
TurnAppend(p, r) ==
  LET t == task[p][r] IN
  /\ t.pc = "reply" /\ Fits(t.seen)
  /\ \E kind \in Turns :
       /\ Write([Batch(kind) EXCEPT !.starts = t.seen = 0])
       /\ due' \in IF kind = "turn" THEN {due, FALSE} ELSE {FALSE}
  /\ SetTask(p, r, Idle)
  /\ UNCHANGED <<old, phase, crashes>>

(* OptimisticConcurrencyError: the request is answered with an error, and   *)
(* the message of the user is in no event.                                  *)
TurnRefused(p, r) ==
  LET t == task[p][r] IN
  /\ t.pc = "reply" /\ ~Fits(t.seen)
  /\ SetTask(p, r, [t EXCEPT !.pc = "refused"])
  /\ UNCHANGED <<log, due, old, phase, crashes>>

TurnAnswered(p, r) ==
  /\ task[p][r].pc = "refused"
  /\ SetTask(p, r, Idle)
  /\ UNCHANGED <<log, due, old, phase, crashes>>

-----------------------------------------------------------------------------
(* A process and its dispatcher. *)

Die(p) ==
  /\ phase' = [phase EXCEPT ![p] = "down"]
  /\ task' = [task EXCEPT ![p] = [s \in Slots |-> Idle]]

Boot(p) ==
  /\ phase[p] = "down"
  /\ phase' = [phase EXCEPT ![p] = "boot"]
  /\ SetTask(p, Poller, [Idle EXCEPT !.pc = "list"])
  /\ UNCHANGED <<log, due, old, crashes>>

Crash(p) ==
  /\ crashes < MaxCrashes /\ crashes' = crashes + 1
  /\ phase[p] # "down"
  /\ Die(p)
  /\ UNCHANGED <<log, due, old>>

(* A dispatch cycle ends; the start of the process goes on after its own. *)
CycleEnds(p, d) ==
  /\ SetTask(p, d, Idle)
  /\ phase' = IF d = Poller THEN [phase EXCEPT ![p] = "up"] ELSE phase

(* What is raised in a cycle ends the poll loop, which catches only its     *)
(* cancellation, or the start, or the request.                              *)
CycleRaises(p, d) ==
  IF d = Poller /\ phase[p] = "boot" THEN Die(p)
  ELSE /\ SetTask(p, d, [Idle EXCEPT !.pc = IF d = Poller THEN "dead" ELSE "idle"])
       /\ UNCHANGED phase

(* dispatch_due_followups, at the start, after a sleep of _poll_loop or on   *)
(* request, lists the follow-ups: the session is a candidate with a stage    *)
(* that is due ...                                                           *)
Listing(p, d) ==
  \/ task[p][d].pc = "list"
  \/ phase[p] = "up" /\ task[p][d].pc = "idle" /\ Room
List(p, d) ==
  /\ Listing(p, d)
  /\ \E stage \in DueStages(Now) :
       SetTask(p, d, [Idle EXCEPT !.pc = "queued", !.stage = stage])
  /\ UNCHANGED <<log, due, old, phase, crashes>>

(* ... or it is not, and the cycle ends. *)
ListNone(p, d) ==
  /\ Listing(p, d) /\ DueStages(Now) = {}
  /\ CycleEnds(p, d)
  /\ UNCHANGED <<log, due, old, crashes>>

(* _begin_dispatch: one dispatch of the session at a time in a process. *)
ActiveDispatch(p, d) == task[p][d].pc \in {"load", "outcome", "record", "finalize"}
Begin(p, d) ==
  /\ task[p][d].pc = "queued" /\ \A o \in Dispatchers : ~ActiveDispatch(p, o)
  /\ SetTask(p, d, [task[p][d] EXCEPT !.pc = "load"])
  /\ UNCHANGED <<log, due, old, phase, crashes>>
BeginSkipped(p, d) ==
  /\ task[p][d].pc = "queued" /\ \E o \in Dispatchers : ActiveDispatch(p, o)
  /\ CycleEnds(p, d)
  /\ UNCHANGED <<log, due, old, crashes>>

(* Mutant: the archived status is not looked at. *)
LoadArchived(p, d) ==
  /\ task[p][d].pc = "load"
  /\ IF ~Ready(Now)
     THEN CycleEnds(p, d)
     ELSE /\ SetTask(p, d, [task[p][d] EXCEPT !.seen = Now, !.pc = "finalize"])
          /\ UNCHANGED phase
  /\ UNCHANGED <<log, due, old, crashes>>

(* _load_dispatch_context and the decision of _maybe_record_ignored_outcome, *)
(* on one read of the stream.                                                *)
Load(p, d) ==
  /\ task[p][d].pc = "load"
  /\ IF Archived(Now) \/ ~Ready(Now)
     THEN CycleEnds(p, d)
     ELSE /\ SetTask(p, d, [task[p][d] EXCEPT !.seen = Now,
                !.pc = IF Pending(Now) /\ ~Replied(Now) /\ old THEN "outcome" ELSE "finalize"])
          /\ UNCHANGED phase
  /\ UNCHANGED <<log, due, old, crashes>>

(* The stage was dispatched, or is beyond the cadence: nothing is appended. *)
StageRefused(p, d) ==
  LET t == task[p][d] IN
  /\ t.pc = "finalize" /\ ~StageIsOpen(t.seen, t.stage)
  /\ CycleEnds(p, d)
  /\ UNCHANGED <<log, due, old, crashes>>

(* The decision chain, and _finalize_dispatch_result at the version loaded:  *)
(* the follow-up is sent, or put off.                                        *)
Finalize(p, d) ==
  LET t == task[p][d] IN
  /\ t.pc = "finalize" /\ StageIsOpen(t.seen, t.stage) /\ Fits(t.seen)
  /\ \/ Write([Batch("sent") EXCEPT !.stage = t.stage]) /\ old' = FALSE
     \/ Write(Batch("delayed")) /\ UNCHANGED old
  /\ due' = FALSE
  /\ CycleEnds(p, d)
  /\ UNCHANGED crashes

FinalizeConflict(p, d) ==
  LET t == task[p][d] IN
  /\ t.pc = "finalize" /\ StageIsOpen(t.seen, t.stage) /\ ~Fits(t.seen)
  /\ CycleRaises(p, d)
  /\ UNCHANGED <<log, due, old, crashes>>

-----------------------------------------------------------------------------
(* record_dispatch_outcome, of a turn or of a dispatch. *)

GoOn(p, s, t) ==
  SetTask(p, s, [t EXCEPT !.pc = IF s \in Requests THEN "reply" ELSE "finalize"])

(* Mutant: it is not looked at again. *)
OutcomeReadBlind(p, s) ==
  /\ task[p][s].pc = "outcome"
  /\ SetTask(p, s, [task[p][s] EXCEPT !.pc = "record", !.read = Now])
  /\ UNCHANGED <<log, due, old, phase, crashes>>

(* The stream is read again; only the last follow-up is looked at again. *)
OutcomeRead(p, s) ==
  LET t == task[p][s] IN
  /\ t.pc = "outcome"
  /\ IF Pending(Now) THEN SetTask(p, s, [t EXCEPT !.pc = "record", !.read = Now])
                     ELSE GoOn(p, s, t)
  /\ UNCHANGED <<log, due, old, phase, crashes>>

OutcomeAppend(p, s) ==
  LET t == task[p][s] IN
  /\ t.pc = "record" /\ Fits(t.read)
  /\ Write(Batch(IF s \in Requests THEN "responded" ELSE "ignored"))
  /\ GoOn(p, s, [t EXCEPT !.wrote = TRUE])
  /\ UNCHANGED <<due, old, phase, crashes>>

OutcomeConflict(p, s) ==
  LET t == task[p][s] IN
  /\ t.pc = "record" /\ ~Fits(t.read)
  /\ IF s \in Requests
     THEN SetTask(p, s, [t EXCEPT !.pc = "refused"]) /\ UNCHANGED phase
     ELSE CycleRaises(p, s)
  /\ UNCHANGED <<log, due, old, crashes>>

-----------------------------------------------------------------------------
(* A background job appends events of its own, and what it completes may    *)
(* archive the session.  Turns and follow-ups are the other writers of a    *)
(* session stream: memory, entities, actions and self-state have their own. *)
JobAppend ==
  /\ log # <<>> /\ Room
  /\ Write(Batch("other")) \/ Write(Batch("archived"))
  /\ UNCHANGED <<due, old, phase, task, crashes>>

StageBecomesDue ==
  /\ ~due /\ Ready(Now)
  /\ due' = TRUE
  /\ UNCHANGED <<log, old, phase, task, crashes>>
TwoDaysPass ==
  /\ ~old /\ LastOf({"sent"}, Now) > 0
  /\ \A p \in Processes, s \in Slots : task[p][s].pc \in {"idle", "dead"}
  /\ old' = TRUE
  /\ UNCHANGED <<log, due, phase, task, crashes>>

-----------------------------------------------------------------------------
RequestStep(p, r) ==
  \/ CreateRead(p, r) \/ CreateAppend(p, r) \/ TurnLoad(p, r)
  \/ TurnAppend(p, r) \/ TurnRefused(p, r) \/ TurnAnswered(p, r)
DispatchStep(p, d) ==
  \/ List(p, d) \/ ListNone(p, d) \/ Begin(p, d)
  \/ BeginSkipped(p, d) \/ Load(p, d) \/ StageRefused(p, d)
  \/ Finalize(p, d) \/ FinalizeConflict(p, d)
OutcomeStep(p, s) ==
  OutcomeRead(p, s) \/ OutcomeAppend(p, s) \/ OutcomeConflict(p, s)

Next ==
  \/ \E p \in Processes :
       \/ Boot(p) \/ Crash(p)
       \/ \E r \in Requests : RequestStep(p, r)
       \/ \E d \in Dispatchers : DispatchStep(p, d)
       \/ \E s \in Slots : OutcomeStep(p, s)
  \/ JobAppend \/ StageBecomesDue \/ TwoDaysPass

Spec == Init /\ [][Next]_vars

-----------------------------------------------------------------------------
TypeOK ==
  /\ log \in Seq(Entry)
  /\ due \in BOOLEAN /\ old \in BOOLEAN
  /\ phase \in [Processes -> {"down", "boot", "up"}]
  /\ task \in [Processes -> [Slots -> Task]]
  /\ crashes \in 0 .. MaxCrashes

(* The session is started by its first batch and by no other, although      *)
(* create_session and the first turns of several processes all start it     *)
(* when they have read an empty stream.                                     *)
StartedOnce == \A i \in 1 .. Len(log) : log[i].starts <=> i = 1

(* The stages sent for one directive only advance, to MaxDispatch at most:  *)
(* pollers, manual dispatches and restarts of several processes never send  *)
(* the user the same follow-up again.                                       *)
StagesAdvance ==
  \A i, j \in Positions({"sent"}, Len(log)) :
    i < j => log[i].stage < log[j].stage \/ LastOf(Directives, j) > i

(* A follow-up goes only to a session that is not archived and whose latest *)
(* directive is ready, at the moment it lands in the log.                   *)
FollowupIsWanted ==
  \A i \in Positions({"sent"}, Len(log)) : Ready(i) /\ ~Archived(i)

(* A follow-up has one outcome at most, and no outcome is without one: the  *)
(* turns and the dispatchers of all processes record them.                  *)
OneOutcomeEach ==
  \A i \in Positions(Outcomes, Len(log)) : Pending(i - 1)

(* What a task knows of the session, still true of the part it has read:   *)
(* the follow-up it records an outcome of had none, and what it dispatches *)
(* was wanted.  With it the properties above are inductive, but for the    *)
(* two that the code breaks.                                               *)
TaskOK(s, t) ==
  /\ t.seen <= Len(log) /\ t.read <= Len(log)
  /\ t.pc = "record" => Pending(t.read)
  /\ s \in Dispatchers /\ t.pc \in {"outcome", "record", "finalize"} =>
       Ready(t.seen) /\ ~Archived(t.seen)
TasksOK == \A p \in Processes, s \in Slots : TaskOK(s, task[p][s])
IInv ==
  /\ TypeOK /\ TasksOK
  /\ StartedOnce /\ StagesAdvance /\ FollowupIsWanted /\ OneOutcomeEach

(* An outcome says of its follow-up whether the user has answered it. *)
OutcomeIsTrue ==
  \A i \in Positions(Outcomes, Len(log)) :
    log[i].kind = "responded" <=> Replied(i)

(* A turn is refused only when another writer appended to the session       *)
(* while it ran: a turn that meets nobody keeps the message of the user.    *)
RefusedOnlyWhenOvertaken ==
  \A p \in Processes, r \in Requests :
    LET t == task[p][r] IN
    t.pc = "refused" => Len(log) > t.seen + (IF t.wrote THEN 1 ELSE 0)
=============================================================================
