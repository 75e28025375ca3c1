---------------------------- MODULE LineDecisions ----------------------------
(***************************************************************************)
(* The decisions of one proactive dispatch, in the order in which          *)
(* application/proactive_dispatch_handler.py takes them: stage and line    *)
(* (application/analyzers/proactive/state.py), then the lifecycle of the   *)
(* line down to what is sent (application/analyzers/proactive/             *)
(* lifecycle.py).  Each operator is one builder; it is given the decisions *)
(* of earlier ones and results in what later ones look at.                 *)
(*                                                                         *)
(* They are given a dispatch d, a record of                                *)
(*   index     the stage, which is also its label: the last is             *)
(*             final_soft_close                                            *)
(*   listed    the queue status with which the stage was listed            *)
(*   gate      the decision of the dispatch gate                           *)
(*   shaped    whether anything shapes the envelope                        *)
(*   line      the line state of the line controller                       *)
(*   advanced  whether expired stages were left out                        *)
(*   content   whether there is anything to send                           *)
(***************************************************************************)
EXTENDS LifecycleChain

CONSTANT Label  \* the stage labels of every cadence plan, in order

StageCount == Len(Label)
FinalStage(d) == d.index = StageCount
ASSUME CadenceAssumption ==
  /\ Label \in Seq(StageLabels) /\ StageCount > 0
  /\ StageLabels = {Label[i] : i \in 1 .. StageCount}

Statuses == {"waiting", "scheduled", "due", "overdue", "hold"}
Dispatch ==
  [index: 1 .. StageCount, listed: Statuses, gate: {"dispatch", "defer", "hold"},
   shaped: BOOLEAN, line: {"steady", "softened", "close_ready"},
   advanced: BOOLEAN, content: BOOLEAN]

-----------------------------------------------------------------------------
(* What the handler gives to the builders. *)
QueueStatus(d) ==
  CASE d.gate = "defer" -> "scheduled" [] d.gate = "hold" -> "hold" [] OTHER -> d.listed
Envelope(d) ==
  CASE d.gate = "hold"  -> "hold_dispatch"
    [] d.gate = "defer" -> "defer_dispatch"
    [] OTHER -> IF d.shaped THEN "dispatch_shaped" ELSE "dispatch_as_planned"
NextLabel(d) == IF FinalStage(d) THEN NoLabel ELSE Label[d.index + 1]

(* on_expired of the stage's progression entry. *)
OnExpired(i) ==
  IF i = StageCount THEN "close_line"
  ELSE IF i = 1 THEN "advance_to_next_stage" ELSE "jump_to_close_loop"

-----------------------------------------------------------------------------
(* The stage: state.py. *)
Closing(d) == d.line = "close_ready" \/ OnExpired(d.index) = "close_line"

StageTransition(d) ==
  LET queue == QueueStatus(d)
      ends == FinalStage(d) \/ OnExpired(d.index) = "close_line"
      closes == Closing(d) \/ FinalStage(d)
      goes(mode, exit, next) == [mode |-> mode, exit |-> exit, next |-> next] IN
  IF queue = "hold" \/ d.gate = "hold" THEN goes("hold_stage", "stay", NextLabel(d))
  ELSE IF queue = "scheduled" \/ d.gate = "defer"
  THEN IF closes THEN goes("reschedule_close_loop", "close_loop", NextLabel(d))
                 ELSE goes("reschedule_stage", "stay", NextLabel(d))
  ELSE IF queue = "waiting" THEN goes("wait_stage", "stay", NextLabel(d))
  ELSE IF ends THEN goes("dispatch_close_loop", "retire_line", NoLabel)
  ELSE IF closes THEN goes("dispatch_close_loop", "close_loop", NextLabel(d))
  ELSE IF Envelope(d) = "dispatch_shaped" \/ d.line = "softened"
  THEN goes("dispatch_softened_stage", "advance_line", NextLabel(d))
  ELSE goes("dispatch_stage", "advance_line", NextLabel(d))

StageMachine(t) ==
  LET is(mode, lifecycle, does) ==
        [mode |-> mode, lifecycle |-> lifecycle, does |-> does] IN
  CASE t.exit = "retire_line" -> is("retiring_line", "terminal", "retire")
    [] t.mode = "reschedule_close_loop" ->
         is("scheduled_close_loop", "buffered_close_loop", "reschedule")
    [] t.mode = "reschedule_stage" -> is("scheduled_stage", "buffered", "reschedule")
    [] t.mode = "wait_stage"       -> is("waiting_stage", "waiting", "wait")
    [] t.mode = "dispatch_close_loop" /\ t.exit = "close_loop" ->
         is("dispatching_close_loop", "winding_down", "dispatch")
    [] t.mode = "dispatch_softened_stage" ->
         is("dispatching_softened_stage", "dispatching", "dispatch")
    [] t.mode = "dispatch_stage" -> is("dispatching_stage", "dispatching", "dispatch")
    [] t.mode = "hold_stage"     -> is("held", "dormant", "hold")

-----------------------------------------------------------------------------
(* The line. *)
LineState(d, m, next) ==
  LET left == StageCount - d.index + 1
      waits == m.does \in {"reschedule", "wait"}
      is(lifecycle, does) ==
        [lifecycle |-> lifecycle, does |-> does, remaining |-> left, next |-> next] IN
  IF m.lifecycle = "terminal"
  THEN [is("terminal", "retire_line") EXCEPT !.remaining = 0, !.next = NoLabel]
  ELSE IF d.line = "close_ready" \/ m.lifecycle = "winding_down"
  THEN is("winding_down", "close_loop")
  ELSE IF d.line = "softened"
  THEN is(IF waits THEN "buffered" ELSE "active_softened", "soften")
  ELSE IF m.does = "hold" THEN is("dormant", "hold")
  ELSE IF waits THEN is("buffered", "buffer") ELSE is("active", "continue")

LineTransition(l, t) ==
  LET next == IF l.next # NoLabel THEN l.next ELSE t.next
      goes(lifecycle, exit, label) ==
        [lifecycle |-> lifecycle, exit |-> exit, next |-> label,
         held |-> l.does = "hold"] IN
  IF l.does = "retire_line" \/ t.exit = "retire_line"
  THEN goes("terminal", "retire", NoLabel)
  ELSE IF l.does = "close_loop" \/ t.exit = "close_loop"
  THEN goes("winding_down", "close_loop", next)
  ELSE IF l.does = "hold" THEN goes("dormant", "stay", next)
  ELSE IF l.does = "buffer" \/ l.lifecycle = "buffered"
         \/ t.mode \in {"reschedule_stage", "wait_stage"}
  THEN goes("buffered", "buffer", next)
  ELSE IF l.does = "soften" THEN goes("active_softened", "soften", next)
  ELSE IF next # NoLabel THEN goes("active", "advance", next)
  ELSE goes(l.lifecycle, "stay", next)

LineMachine(t) ==
  CASE t.exit = "retire"     -> "terminal"
    [] t.exit = "close_loop" -> "winding_down"
    [] t.exit = "buffer"     -> "buffered"
    [] t.exit = "soften"     -> "active_softened"
    [] t.exit = "advance"    -> "active"
    [] t.exit = "stay"       -> t.lifecycle

-----------------------------------------------------------------------------
(* The lifecycle: lifecycle.py. *)

(* _resolve_lifecycle_state_shape. *)
LifecycleState(stage, line) ==
  LET is(mode, does) == [mode |-> mode, does |-> does] IN
  IF "terminal" \in {line, stage.lifecycle} THEN is("terminal", "retire")
  ELSE IF "winding_down" \in {line, stage.lifecycle} THEN is("winding_down", "close_loop")
  ELSE IF line = "buffered" \/ stage.lifecycle \in {"buffered", "waiting"}
  THEN is("buffered", "buffer")
  ELSE IF line = "active_softened" \/ stage.mode = "dispatching_softened_stage"
  THEN is("active_softened", "soften")
  ELSE IF "dormant" \in {line, stage.lifecycle} THEN is("dormant", "hold")
  ELSE IF stage.lifecycle = "dispatching" THEN is("active", "dispatch")
  ELSE is("active", "advance")

(* The order in which the next builders look at mode and actionability. *)
Verb(s) ==
  IF s.does = "retire" \/ s.mode = "terminal" THEN "retire"
  ELSE IF s.does = "close_loop" \/ s.mode = "winding_down" THEN "close_loop"
  ELSE IF s.does = "buffer" \/ s.mode = "buffered" THEN "buffer"
  ELSE IF s.does = "soften" \/ s.mode = "active_softened" THEN "soften"
  ELSE IF s.does = "hold" \/ s.mode = "dormant" THEN "hold"
  ELSE s.does
LifecycleTransition(s) == [mode |-> s.mode, does |-> Verb(s)]
LifecycleMachine(t) == [mode |-> t.mode, does |-> Verb(t)]
StateAfter(verb, otherwise) ==
  CASE verb = "retire" -> "terminal" [] verb = "close_loop" -> "winding_down"
    [] verb = "buffer" -> "buffered" [] verb = "soften"     -> "softened"
    [] verb = "hold"   -> "dormant"  [] verb = "dispatch"   -> "dispatching"
    [] OTHER           -> otherwise
LifecycleController(m) ==
  [decision |-> IF Verb(m) = "advance" THEN "continue" ELSE Verb(m),
   state |-> StateAfter(Verb(m), m.mode)]
LifecycleEnvelope(c) ==
  [decision |-> c.decision, state |-> StateAfter(c.decision, c.state)]

(* Softened lines are put off, like buffered ones; the gate has the last    *)
(* word on the decision, not on the state.                                  *)
LifecycleScheduler(d, e) ==
  LET decision ==
        IF e.decision = "retire" \/ e.state = "terminal" THEN "retire"
        ELSE IF e.decision = "close_loop" \/ e.state = "winding_down" THEN "close_loop"
        ELSE IF e.decision \in {"buffer", "soften"} \/ e.state \in {"buffered", "softened"}
        THEN "buffer"
        ELSE IF e.decision = "hold" \/ e.state = "dormant" THEN "hold"
        ELSE IF e.decision = "dispatch" \/ e.state = "dispatching" THEN "dispatch"
        ELSE "continue" IN
  [state |-> e.state, decision |-> IF d.gate = "dispatch" THEN decision ELSE d.gate]

LifecycleWindow(d, s) ==
  IF s.decision = "retire" \/ s.state = "terminal" THEN "retire"
  ELSE IF s.decision = "close_loop" \/ s.state = "winding_down" THEN "close_loop"
  ELSE IF d.advanced /\ FinalStage(d) THEN "close_loop"
  ELSE IF s.decision = "defer" THEN "defer"
  ELSE IF s.decision = "buffer" \/ s.state \in {"buffered", "softened"} THEN "buffer"
  ELSE IF s.decision = "hold" \/ s.state = "dormant" THEN "hold"
  ELSE IF s.decision = "dispatch" \/ s.state = "dispatching" THEN "dispatch"
  ELSE "continue"

LifecycleQueue(d, window, state) ==
  IF window = "retire" \/ state = "terminal" THEN "retire"
  ELSE IF window = "hold" \/ d.listed = "hold" THEN "hold"
  ELSE IF d.listed = "waiting" THEN "wait"
  ELSE IF window = "defer" THEN "defer"
  ELSE IF window = "buffer" \/ d.listed = "scheduled" THEN "buffer"
  ELSE IF window = "close_loop" \/ (d.listed # "overdue" /\ state = "winding_down")
  THEN "close_loop"
  ELSE IF window = "dispatch" \/ d.listed \in {"due", "overdue"} THEN "dispatch"
  ELSE "continue"

(* _resolve_lifecycle_dispatch_shape: what happens to the follow-up, with   *)
(* the queue status it was listed with.                                     *)
LifecycleDispatch(d, queue, state) ==
  IF ~d.content THEN "hold"
  ELSE IF queue = "retire" \/ state = "terminal" THEN "retire"
  ELSE IF d.gate = "hold" THEN "hold"
  ELSE IF d.gate = "defer" \/ queue \in {"buffer", "defer"}
         \/ d.listed \in {"waiting", "scheduled"}
  THEN "reschedule"
  ELSE IF queue = "close_loop" \/ state = "winding_down" THEN "close_loop"
  ELSE IF queue = "dispatch" \/ d.listed \in {"due", "overdue"} THEN "dispatch"
  ELSE "hold"

(* What each makes of the dispatch. *)
MachineOf(d) == StageMachine(StageTransition(d))
LineOf(d) == LineState(d, MachineOf(d), StageTransition(d).next)
ExitOf(d) == LineTransition(LineOf(d), StageTransition(d))
ControlOf(d) ==
  LET lifecycle == LifecycleState(MachineOf(d), LineMachine(ExitOf(d))) IN
  LifecycleController(LifecycleMachine(LifecycleTransition(lifecycle)))
ScheduleOf(d) == LifecycleScheduler(d, LifecycleEnvelope(ControlOf(d)))
DispatchOf(d) ==
  LET state == ScheduleOf(d).state
      queue == LifecycleQueue(d, LifecycleWindow(d, ScheduleOf(d)), state) IN
  LifecycleDispatch(d, queue, state)

-----------------------------------------------------------------------------
(* After the dispatch. *)

(* Only these two append messages. *)
Sends(d) == DispatchOf(d) \in {"dispatch", "close_loop"}

LifecycleOutcome(dispatch) ==
  CASE dispatch = "dispatch"   -> "sent"
    [] dispatch = "close_loop" -> "close_loop_sent"
    [] dispatch = "reschedule" -> "rescheduled"
    [] dispatch = "retire"     -> "retired"
    [] OTHER                   -> "held"

(* The posture of the line from now on, given the stages that remain; delay *)
(* is the additional delay of the controllers, the scheduling plan and the  *)
(* gate.                                                                    *)
LifecycleResolution(d, outcome, line, left, delay) ==
  LET remains(verb) ==
        Resolution(verb, Label[d.index], line.next, left, line.exit, delay)
      over == [remains("retire") EXCEPT !.next = NoLabel, !.remaining = 0] IN
  IF outcome \in {"retired", "close_loop_sent"} \/ line.exit = "retire" THEN over
  ELSE IF outcome = "rescheduled" THEN remains("buffer")
  ELSE IF outcome = "held" THEN remains("hold")
  ELSE IF left = 0 /\ line.next = NoLabel THEN over ELSE remains("continue")
Posture(d) ==
  LifecycleResolution(d, LifecycleOutcome(DispatchOf(d)), ExitOf(d),
                      LineOf(d).remaining - (IF Sends(d) THEN 1 ELSE 0), 0)
=============================================================================
