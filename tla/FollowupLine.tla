----------------------------- MODULE FollowupLine -----------------------------
(***************************************************************************)
(* The line of proactive touches of one session: the listing, which works  *)
(* out from the latest turn's plans and from what was dispatched since     *)
(* which stage is due (proactive_followup_service/followup_builder.py),    *)
(* the dispatcher's poll, which takes what is due and dispatches it        *)
(* (proactive_followup_dispatcher.py), and what a dispatch leaves behind   *)
(* for the next listing (proactive_dispatch_handler.py): the touch itself, *)
(* the word of its dispatch gate, the controllers' delays and the posture  *)
(* of the lifecycle.  Only the plans are the turn's; what dispatches left  *)
(* behind outlives it.                                                     *)
(***************************************************************************)
EXTENDS LineDecisions, LifecycleBuilders, Integers, FiniteSetsExt

CONSTANTS
  Nothing,        \* the null record
  Interval,       \* stage_intervals_seconds, by stage, like those below
  Learning,       \* spacing while the matrix has little to go by
  UserSpace,      \* min_seconds_since_last_user
  DispatchSpace,  \* min_seconds_since_last_dispatch
  MaxOverdue,     \* max_overdue_seconds
  Window,         \* window_seconds
  Cooldown,       \* min_seconds_since_last_outbound
  RetryAfter,     \* retry_after_seconds of a gate that defers
  SlowBy,         \* additional delay of the stage controller
  LineBy,         \* additional delay of the line controller
  MaxTime,        \* bound: the last time modelled
  MaxTurns,       \* bound: turns
  LastMove        \* bound: the time after which only the clock moves

Stages == 1 .. StageCount
ASSUME LineAssumption ==
  /\ \A spacing \in {Interval, Learning, UserSpace, DispatchSpace, MaxOverdue} :
       spacing \in [Stages -> Nat]
  /\ Learning[1] = 0
  /\ {Window, Cooldown, MaxTime, LastMove} \subseteq Nat
  /\ {RetryAfter, SlowBy, LineBy, MaxTurns} \subseteq Nat \ {0}

VARIABLES
  now,        \* the clock
  turns,      \* turns so far
  directive,  \* what the latest turn planned
  sent,       \* the touches sent since, in order
  gate,       \* the latest dispatch gate, when it deferred
  slowed,     \* the stage the latest stage controller slows
  delayed,    \* the stage after which the latest line controller delays
  posture,    \* the resolution of the latest dispatch
  pending     \* what the poll listed as due and is about to dispatch
dispatched == <<gate, slowed, delayed, posture>>
vars == <<now, turns, directive, sent, dispatched, pending>>

-----------------------------------------------------------------------------
(* The schedule of stage i.  A stage is entered at the time the one before  *)
(* it was given up, or with Nothing when it is simply the next.             *)
LastSent == sent[Len(sent)]
SentAt == IF sent = <<>> THEN directive.at ELSE LastSent.at

(* _compute_stage_schedule. *)
BaseDueAt(i, entry) == IF entry = Nothing THEN SentAt + Interval[i] ELSE entry
CooledAt(i, entry) ==
  IF entry = Nothing THEN Max({BaseDueAt(i, entry), SentAt + Cooldown}) ELSE entry

(* Mutant: the guardrail forgets the space the user was promised. *)
GuardedAtUnspaced(i, entry) ==
  CooledAt(i, entry) + (IF entry = Nothing THEN Learning[i] ELSE 0)

(* _apply_matrix_learning_spacing, _apply_stage_guardrail. *)
GuardedAt(i, entry) ==
  Max({CooledAt(i, entry) + (IF entry = Nothing THEN Learning[i] ELSE 0),
       directive.at + UserSpace[i]}
      \cup (IF sent = <<>> THEN {} ELSE {LastSent.at + DispatchSpace[i]}))

(* _apply_stage_controller, _apply_line_controller. *)
ControlledAt(i, entry) ==
  GuardedAt(i, entry)
    + (IF slowed = i THEN SlowBy ELSE 0)
    + (IF delayed # Nothing /\ delayed < i /\ ~(i = StageCount /\ entry # Nothing)
       THEN LineBy ELSE 0)

(* _apply_dispatch_gate. *)
DueAt(i, entry) ==
  IF gate # Nothing /\ gate.stage = i
  THEN Max({gate.at, ControlledAt(i, entry)}) + RetryAfter
  ELSE ControlledAt(i, entry)
ExpiresAt(i, entry) == DueAt(i, entry) + Window

(* _resolve_queue_status. *)
TimedStatus(i, entry) ==
  IF now < BaseDueAt(i, entry) THEN "waiting"
  ELSE IF now < DueAt(i, entry) THEN "scheduled"
  ELSE IF Window = 0 \/ now <= ExpiresAt(i, entry) THEN "due"
  ELSE "overdue"

-----------------------------------------------------------------------------
(* _resolve_followup_stage: the walk over the stages whose time is over. *)
GivenUpAt(i, entry) == ExpiresAt(i, entry) + MaxOverdue[i]

(* Mutant: the last stage stays overdue. *)
GivenUpButLast(i, entry) ==
  i < StageCount /\ TimedStatus(i, entry) = "overdue" /\ now > GivenUpAt(i, entry)

GivenUp(i, entry) ==
  TimedStatus(i, entry) = "overdue" /\ now > GivenUpAt(i, entry)

(* _resolve_followup_stage_progression_advance; there is none when the line *)
(* closes.                                                                  *)
Successor(i) ==
  CASE OnExpired(i) = "advance_to_next_stage" -> i + 1
    [] OnExpired(i) = "jump_to_close_loop"    -> StageCount
    [] OnExpired(i) = "close_line"            -> 0

NotReached == -1
Entry(i, entered) ==
  LET left == {j \in 1 .. (i - 1) : /\ entered[j] # NotReached
                                   /\ GivenUp(j, entered[j])
                                   /\ Successor(j) = i} IN
  IF i = Len(sent) + 1 THEN Nothing
  ELSE IF left = {} \/ i <= Len(sent) THEN NotReached
  ELSE LET j == CHOOSE j \in left : TRUE IN GivenUpAt(j, entered[j])
Entries == LET entered[i \in Stages] == Entry(i, entered) IN entered

(* _resolve_followup_stage_metadata: whether there is a stage left. *)
LineOver ==
  \/ Len(sent) >= directive.max
  \/ sent # <<>> /\ LastSent.stage >= StageCount

(* The stage the walk stops at, if it does. *)
ListedStages ==
  IF ~directive.ready \/ LineOver THEN {}
  ELSE {i \in 1 .. directive.max :
          Entries[i] # NotReached /\ ~GivenUp(i, Entries[i])}

-----------------------------------------------------------------------------
(* Mutant: a phase that ends the line has to speak of the stage as well. *)
MatchesByStage(reads, decision, stage, label, matched) ==
  reads.matchesLabel /\ stage = label /\ matched \cap reads.matchBlockers = {}

Matches(reads, decision, stage, label, matched) ==
  /\ decision \in reads.terminates \/ (reads.matchesLabel /\ stage = label)
  /\ matched \cap reads.matchBlockers = {}

(* _resolve_followup_lifecycle_queue_override: what the phases recorded     *)
(* with the latest dispatch make of the item.  The first table that ends it *)
(* does; a buffered item is put off again, so that it is not due whatever   *)
(* the time: the delay itself, added by every matching phase, makes no      *)
(* difference.  The decisions that only skip the next override are left     *)
(* out: that one reads the dispatch decision of the same dispatch, and      *)
(* never has a word left to say.                                            *)
ReadOn(n, said, label, was) ==
  LET reads == PhaseOverrides[n]
      stage == IF n = PhaseCount + 1 THEN said.current ELSE said.active
      matches == Matches(reads, said.decision, stage, label, was.matched)
      acts == matches /\ was.matched \cap reads.actionBlockers = {}
  IN IF was.makes = "ended" THEN was
     ELSE [matched |-> was.matched \cup (IF matches THEN {reads.phase} ELSE {}),
           makes |-> IF ~acts THEN was.makes
                     ELSE IF said.decision \in reads.terminates THEN "ended"
                     ELSE IF said.decision \in reads.holds THEN "hold"
                     ELSE IF said.decision \in reads.buffers THEN "scheduled"
                     ELSE was.makes]

Reading(chain, label) ==
  LET read[n \in 0 .. PhaseCount + 1] ==
        IF n = 0 THEN [matched |-> {}, makes |-> "none"]
        ELSE ReadOn(n, chain[PhaseCount + 2 - n], label, read[n - 1])
  IN read[PhaseCount + 1].makes

Postures == {Posture(d) : d \in Dispatch}
Chains == {Chain(r) : r \in Postures}
Readings ==
  {<<chain[1], label, Reading(chain, label)>> : chain \in Chains, label \in StageLabels}
Makes(i, what) == posture # Nothing /\ <<posture, Label[i], what>> \in Readings

QueueStatusOf(i) ==
  LET timed == TimedStatus(i, Entries[i]) IN
  IF Makes(i, "hold") THEN "hold"
  ELSE IF Makes(i, "scheduled") /\ timed # "waiting" THEN "scheduled"
  ELSE timed

(* build_followup_item: at most one item for the session. *)
Items ==
  {[stage |-> i, status |-> QueueStatusOf(i), advanced |-> Entries[i] # Nothing,
    deferred |-> gate # Nothing /\ gate.stage = i, turn |-> turns] :
     i \in {j \in ListedStages : ~Makes(j, "ended")}}

(* Mutant: the poll takes whatever is listed. *)
ListedItems == Items

DueItems == {item \in Items : item.status \in {"due", "overdue"}}

-----------------------------------------------------------------------------
Moods == {"calm", "governed", "redirect"}
Plan ==
  {plan \in [at: {now}, ready: BOOLEAN, max: Stages, mood: Moods] :
     ~plan.ready => plan.max = StageCount /\ plan.mood = "calm"}

Init ==
  /\ now = 0 /\ turns = 1
  /\ directive \in Plan
  /\ sent = <<>>
  /\ gate = Nothing /\ slowed = Nothing /\ delayed = Nothing /\ posture = Nothing
  /\ pending = Nothing

Tick ==
  /\ now < MaxTime
  /\ now' = now + 1
  /\ UNCHANGED <<turns, directive, sent, dispatched, pending>>

(* A turn plans a new line; what was dispatched before is no part of it,    *)
(* what those dispatches decided stays in the session's state.  The mood    *)
(* stands for what the turn's system3 snapshot says of governance.          *)
Turn ==
  /\ turns < MaxTurns /\ now <= LastMove
  /\ turns' = turns + 1
  /\ directive' \in Plan
  /\ sent' = <<>>
  /\ UNCHANGED <<now, dispatched, pending>>

(* The poll lists what is due; it dispatches one item after the other,      *)
(* without another look at the time.                                        *)
ListDue ==
  /\ pending = Nothing /\ now <= LastMove
  /\ pending' \in DueItems
  /\ UNCHANGED <<now, turns, directive, sent, dispatched>>

(* _load_dispatch_context, _resolve_dispatch_stage_context. *)
DispatchedStage == Max({0} \cup {sent[n].stage : n \in DOMAIN sent})

(* Mutant: what was already dispatched is not looked at. *)
RefusedTwice == ~directive.ready

Refused == ~directive.ready \/ DispatchedStage >= pending.stage

(* build_proactive_dispatch_gate_decision: governance may put a stage off   *)
(* once, the growth redirect every stage but the first, whatever was put    *)
(* off before.  The gate could also hold everything while the model is      *)
(* rebuilt, but version_migration_status never says so.                     *)
RedirectDefers == directive.mood = "redirect" /\ pending.stage # 1
MayDefer == RedirectDefers \/ (directive.mood # "calm" /\ ~pending.deferred)
GateDecisions ==
  {decision \in {"dispatch", "defer"} :
     IF decision = "defer" THEN MayDefer ELSE ~RedirectDefers}

(* The line states the line controller reaches at stage i. *)
LineStates(i) ==
  IF i = StageCount THEN {"close_ready"}
  ELSE IF i = 1 THEN {"steady", "softened"} ELSE {"steady", "softened", "close_ready"}

(* The dispatches of the pending item; slows says whether the stage         *)
(* controller slows the next stage.                                         *)
DispatchesOf(slows) ==
  {d \in Dispatch :
     /\ d.index = pending.stage
     /\ d.listed = pending.status /\ d.advanced = pending.advanced
     /\ d.gate \in GateDecisions /\ d.line \in LineStates(pending.stage)
     /\ d.content
     /\ slows \/ d.line # "steady" => d.shaped}

(* A dispatch records the word of its gate, its controllers and its         *)
(* posture; only some append the touch.                                     *)
DispatchPending ==
  /\ pending # Nothing /\ now <= LastMove
  /\ pending' = Nothing
  /\ IF Refused THEN UNCHANGED <<sent, dispatched>>
     ELSE \E slows \in {b \in BOOLEAN : b => pending.stage < StageCount} :
          \E d \in DispatchesOf(slows) :
            /\ sent' = IF Sends(d) THEN Append(sent, [stage |-> d.index, at |-> now])
                       ELSE sent
            /\ gate' = IF d.gate = "defer" THEN [stage |-> d.index, at |-> now]
                       ELSE Nothing
            /\ slowed' = IF slows THEN d.index + 1 ELSE Nothing
            /\ delayed' = IF d.line # "steady" THEN d.index ELSE Nothing
            /\ posture' = Posture(d)
  /\ UNCHANGED <<now, turns, directive>>

Next == Tick \/ Turn \/ ListDue \/ DispatchPending
Spec == Init /\ [][Next]_vars
FairSpec == Spec /\ WF_vars(Tick)

-----------------------------------------------------------------------------
Touch == [stage: Stages, at: 0 .. MaxTime]
Item ==
  [stage: Stages, status: {"due", "overdue"}, advanced: BOOLEAN,
   deferred: BOOLEAN, turn: 1 .. MaxTurns]
TypeOK ==
  /\ now \in 0 .. MaxTime /\ turns \in 1 .. MaxTurns
  /\ directive \in [at: 0 .. MaxTime, ready: BOOLEAN, max: Stages, mood: Moods]
  /\ sent \in Seq(Touch)
  /\ gate \in Touch \cup {Nothing}
  /\ slowed \in Stages \cup {Nothing} /\ delayed \in Stages \cup {Nothing}
  /\ posture \in Postures \cup {Nothing}
  /\ pending \in Item \cup {Nothing}

(* The touches of a line go down the cadence, none twice, and never more    *)
(* than the guardrail plan allows: also when one listed for an earlier      *)
(* line goes out on this one, or when stages in between were given up.      *)
TouchesInOrder ==
  /\ Len(sent) <= directive.max
  /\ \A n \in 2 .. Len(sent) : sent[n - 1].stage < sent[n].stage

(* A touch keeps the space of its stage, from the user's last message and   *)
(* from the touch before it, unless the user wrote after it was listed.     *)
Touches == Len(sent') = Len(sent) + 1
SpaceIsKept ==
  [][Touches /\ pending.turn = turns =>
       /\ now >= directive.at + UserSpace[pending.stage]
       /\ sent = <<>> \/ now >= LastSent.at + DispatchSpace[pending.stage]]_vars

(* Once a dispatch has retired the line nothing is sent to the session      *)
(* again, whatever later turns plan.                                        *)
RetiredStaysRetired ==
  [][posture # Nothing /\ posture.actionability = "retire" =>
       ~Touches /\ posture' = posture]_vars

(* Evaluated once for all states; a dispatch of a stage with any word of    *)
(* the gate, also the hold that this one never gives.                       *)
PosturesOf ==
  [i \in Stages |-> {Posture(d) : d \in {d \in Dispatch : d.index = i}}]
Agreed == {r \in Postures : AgreesOn(r)}
Kept == {r \in Postures : KeepsAlong(r)}
Understood == {r \in Postures : IsUnderstood(r)}

(* The builders, which the tests call, and the machine, which the handler   *)
(* runs, decide the same in every phase from whatever a dispatch resolves:  *)
(* two hand-written sets of tables for 52 phases.                           *)
BuildersAgree == pending # Nothing => PosturesOf[pending.stage] \subseteq Agreed

(* The posture of the resolution reaches every phase, with its delay: a     *)
(* line that was put off, held or ended is so in all of them, and an ended  *)
(* line has no stage left to speak of.                                      *)
PostureKept == pending # Nothing => PosturesOf[pending.stage] \subseteq Kept

(* What a phase decides the listing of follow-ups understands: its table    *)
(* for the phase ends the item where the line is over, holds it where it    *)
(* is held, and puts it off where it is put off.                            *)
ListingUnderstands == pending # Nothing => PosturesOf[pending.stage] \subseteq Understood

(* Every line comes to its end as time passes, also when nothing is         *)
(* dispatched and whatever earlier lines left behind: in the end no stage   *)
(* is left to list.                                                         *)
LinesEnd == <>[](ListedStages = {})

(* "Retire only once the last touch is out": a dispatch of the last stage   *)
(* which the gate lets through sends it.                                    *)
FinalTouchIsSent ==
  [][pending # Nothing /\ pending' = Nothing /\ ~Refused
       /\ pending.stage = StageCount /\ gate' = Nothing => Touches]_vars
=============================================================================
