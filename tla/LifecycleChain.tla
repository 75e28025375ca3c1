--------------------------- MODULE LifecycleChain ----------------------------
(***************************************************************************)
(* build_proactive_lifecycle_post_dispatch_chain of application/           *)
(* analyzers/proactive/lifecycle_machine.py: from the resolution of a      *)
(* dispatch each phase takes its decision from the one before it.  The     *)
(* whole chain is recorded in one lifecycle snapshot, and the next listing *)
(* of the session's follow-up reads every phase of it.                     *)
(***************************************************************************)
EXTENDS LifecyclePhases

CONSTANTS
  StageLabels,  \* stage labels of the cadence plans
  NoLabel       \* no stage

ASSUME LabelAssumption == NoLabel \notin StageLabels

-----------------------------------------------------------------------------
(* What a phase hands to the next one, here as                              *)
(* build_proactive_lifecycle_resolution_decision decides it, by verb: exit  *)
(* is the exit mode of the line transition, delay the additional delay in   *)
(* seconds.                                                                 *)
Resolution(verb, current, next, remaining, exit, delay) ==
  [status |-> CASE verb = "continue" -> "active" [] verb = "buffer" -> "scheduled"
                [] verb = "hold" -> "hold" [] verb = "retire" -> "terminal",
   decision |-> ResolutionDecision(verb), actionability |-> verb,
   override |-> CASE verb = "continue" -> "none" [] verb = "buffer" -> "scheduled"
                  [] verb = "hold" -> "hold" [] verb = "retire" -> "terminal",
   current |-> current, active |-> NoLabel, next |-> next,
   remaining |-> remaining, exit |-> exit, delay |-> delay]

(* Mutant: a line that ended is taken to be closed. *)
CaseNameCloses(k, prev) ==
  IF prev.override = "terminal" THEN "close"
  ELSE IF prev.status = "scheduled" THEN "buffer"
  ELSE IF prev.status = "hold" THEN "pause" ELSE "active"

(* _resolve_case_name.  The first two phases look at the decision before    *)
(* them, the others at its status, override and actionability.              *)
CaseName(k, prev) ==
  IF k = 1
  THEN CASE prev.decision = ResolutionDecision("continue") -> "active"
         [] prev.decision = ResolutionDecision("buffer")   -> "buffer"
         [] prev.decision = ResolutionDecision("hold")     -> "pause"
         [] OTHER                                          -> "retire"
  ELSE IF k = 2
  THEN CASE prev.decision = <<"activate_next", "stage">>  -> "active"
         [] prev.decision = <<"buffer_current", "stage">> -> "buffer"
         [] prev.decision = <<"hold_current", "stage">>   -> "pause"
         [] OTHER -> IF prev.exit = "close_loop" THEN "close" ELSE "retire"
  ELSE IF prev.status = "scheduled" \/ prev.override = "scheduled" THEN "buffer"
  ELSE IF prev.status = "hold" \/ prev.override = "hold" THEN "pause"
  ELSE IF prev.override # "terminal" THEN "active"
  ELSE IF prev.actionability = "retire" THEN "retire" ELSE "close"

(* The activation retires a line that has no next stage. *)
PhaseKind(k, prev) ==
  IF k = 1 /\ CaseName(k, prev) = "active" /\ prev.next = NoLabel
  THEN "retire" ELSE CaseName(k, prev)

(* Mutant: an ended phase keeps the stage it speaks of. *)
StageOfEnded(k, kind, prev) ==
  IF k = 1 THEN IF kind = "active" THEN prev.next ELSE prev.current
  ELSE IF prev.active = NoLabel THEN prev.current ELSE prev.active

(* The stage a phase speaks of: the next one once it is activated. *)
StageOf(k, kind, prev) ==
  IF kind \in {"close", "retire"} THEN NoLabel
  ELSE IF k = 1 THEN IF kind = "active" THEN prev.next ELSE prev.current
  ELSE IF prev.active = NoLabel THEN prev.current ELSE prev.active

(* _build_post_dispatch_decision. *)
PhaseDecision(k, prev) ==
  LET kind == PhaseKind(k, prev)
      case == PhaseCase(k, kind)
      ends == kind \in {"close", "retire"} IN
  [prev EXCEPT !.status = StatusForCase(kind), !.decision = case.decision,
               !.actionability = case.actionability, !.override = case.override,
               !.active = StageOf(k, kind, prev),
               !.next = IF ends THEN NoLabel ELSE @,
               !.remaining = IF ends THEN 0 ELSE @]

(* The chain of a resolution: said[1] is the resolution, said[k + 1] what   *)
(* phase k decides.                                                         *)
Chain(resolution) ==
  LET said[k \in 1 .. PhaseCount + 1] ==
        IF k = 1 THEN resolution ELSE PhaseDecision(k - 1, said[k - 1])
  IN said
=============================================================================
