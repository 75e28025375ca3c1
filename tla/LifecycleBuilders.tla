-------------------------- MODULE LifecycleBuilders --------------------------
(***************************************************************************)
(* The post-dispatch phases once more: application/analyzers/proactive/    *)
(* lifecycle.py has a builder of its own for each, which the tests of the  *)
(* proactive controllers call, while the dispatch handler runs the chain   *)
(* of lifecycle_machine.py.  Here both walk down the phases from the same  *)
(* resolution, and what the listing of follow-ups reads of them is         *)
(* compared with what they decide.                                         *)
(***************************************************************************)
EXTENDS LifecycleChain

-----------------------------------------------------------------------------
(* A builder's answer in each case. *)
Becomes(prev, status, decision, actionability, override) ==
  [prev EXCEPT !.status = status, !.decision = decision,
               !.actionability = actionability, !.override = override]
Goes(prev, decision, actionability) ==
  Becomes(prev, "active", decision, actionability, "none")
Waits(prev, decision) == Becomes(prev, "scheduled", decision, "buffer", "scheduled")
Stops(prev, decision, actionability) ==
  Becomes(prev, "hold", decision, actionability, "hold")
Ends(prev, decision, actionability) ==
  [Becomes(prev, "terminal", decision, actionability, "terminal") EXCEPT
     !.active = NoLabel, !.next = NoLabel, !.remaining = 0]
(* None of the decisions it knows: the phase pauses, the status stays. *)
FallsBack(prev, decision, actionability) ==
  Becomes(prev, prev.status, decision, actionability, "hold")

ActivationBuilder(given) ==
  LET prev == [given EXCEPT !.active = given.current] IN
  CASE prev.decision = ResolutionDecision("retire") ->
         Ends(prev, <<"retire", "line">>, "retire")
    [] prev.decision = ResolutionDecision("buffer") ->
         Waits(prev, <<"buffer_current", "stage">>)
    [] prev.decision = ResolutionDecision("hold") ->
         Stops(prev, <<"hold_current", "stage">>, "hold")
    [] prev.decision = ResolutionDecision("continue") ->
         IF prev.next = NoLabel THEN Ends(prev, <<"retire", "line">>, "retire")
         ELSE [Goes(prev, <<"activate_next", "stage">>, "activate") EXCEPT
                 !.active = prev.next]
    [] OTHER -> FallsBack(prev, <<"hold_current", "stage">>, "hold")

SettlementBuilder(prev) ==
  CASE prev.decision = <<"activate_next", "stage">> ->
         Goes(prev, <<"keep", "active">>, "activate")
    [] prev.decision = <<"buffer_current", "stage">> ->
         Waits(prev, <<"buffer", "settlement">>)
    [] prev.decision = <<"hold_current", "stage">> ->
         Stops(prev, <<"hold", "settlement">>, "hold")
    [] prev.decision = <<"retire", "line">> ->
         IF prev.exit = "close_loop" THEN Ends(prev, <<"close", "settlement">>, "close_loop")
         ELSE Ends(prev, <<"retire", "settlement">>, "retire")
    [] OTHER -> FallsBack(prev, <<"hold", "settlement">>, "hold")

ClosureBuilder(prev) ==
  CASE prev.decision = <<"keep", "active">> ->
         Goes(prev, <<"keep_open", "closure">>, "continue")
    [] prev.decision = <<"buffer", "settlement">> ->
         Waits(prev, <<"buffer", "closure">>)
    [] prev.decision = <<"hold", "settlement">> ->
         Stops(prev, <<"pause", "closure">>, "pause")
    [] prev.decision = <<"close", "settlement">> ->
         Ends(prev, <<"close_loop", "closure">>, "close_loop")
    [] prev.decision = <<"retire", "settlement">> ->
         Ends(prev, <<"retire", "closure">>, "retire")
    [] OTHER -> FallsBack(prev, <<"pause", "closure">>, "pause")

AvailabilityBuilder(prev) ==
  CASE prev.decision = <<"keep_open", "closure">> ->
         Goes(prev, <<"keep", "available">>, "continue")
    [] prev.decision = <<"buffer", "closure">> ->
         Waits(prev, <<"buffer", "availability">>)
    [] prev.decision = <<"pause", "closure">> ->
         Stops(prev, <<"pause", "availability">>, "pause")
    [] prev.decision = <<"close_loop", "closure">> ->
         Ends(prev, <<"close_loop", "availability">>, "close_loop")
    [] prev.decision = <<"retire", "closure">> ->
         Ends(prev, <<"retire", "availability">>, "retire")
    [] OTHER -> FallsBack(prev, <<"pause", "availability">>, "pause")

(* The phases from the retention on share one builder, and each has a table *)
(* of the decisions it answers and of its answers.                          *)
ChainSpec(phase, previous, activePrevious, active, actionability) ==
  [phase |-> phase, activePrevious |-> activePrevious, active |-> active,
   actionability |-> actionability, bufferedPrevious |-> <<"buffer", previous>>,
   pausedPrevious |-> <<"pause", previous>>,
   archivedPrevious |-> <<"archive", previous>>,
   retiredPrevious |-> <<"retire", previous>>]

ChainBuilder(spec, prev) ==
  CASE prev.decision = spec.activePrevious ->
         Goes(prev, spec.active, spec.actionability)
    [] prev.decision = spec.bufferedPrevious -> Waits(prev, <<"buffer", spec.phase>>)
    [] prev.decision = spec.pausedPrevious ->
         Stops(prev, <<"pause", spec.phase>>, "pause")
    [] prev.decision = spec.archivedPrevious ->
         Ends(prev, <<"archive", spec.phase>>, "archive")
    [] prev.decision = spec.retiredPrevious ->
         Ends(prev, <<"retire", spec.phase>>, "retire")
    [] OTHER -> FallsBack(prev, <<"pause", spec.phase>>, "pause")

RetentionSpec ==
  [ChainSpec("retention", "availability",
     <<"keep", "available">>, <<"retain", "retention">>, "continue")
     EXCEPT !.archivedPrevious = <<"close_loop", "availability">>]
EligibilitySpec == ChainSpec("eligibility", "retention",
  <<"retain", "retention">>, <<"keep", "eligible">>, "continue")
CandidateSpec == ChainSpec("candidate", "eligibility",
  <<"keep", "eligible">>, <<"keep", "candidate">>, "continue")
SelectabilitySpec == ChainSpec("selectability", "candidate",
  <<"keep", "candidate">>, <<"keep", "selectable">>, "continue")
ReentrySpec == ChainSpec("reentry", "selectability",
  <<"keep", "selectable">>, <<"keep", "reentry">>, "continue")
ReactivationSpec == ChainSpec("reactivation", "reentry",
  <<"keep", "reentry">>, <<"keep", "reactivation">>, "continue")
ResumptionSpec == ChainSpec("resumption", "reactivation",
  <<"keep", "reactivation">>, <<"keep", "resumption">>, "continue")
ReadinessSpec == ChainSpec("readiness", "resumption",
  <<"keep", "resumption">>, <<"keep", "readiness">>, "continue")
ArmingSpec == ChainSpec("arming", "readiness",
  <<"keep", "readiness">>, <<"keep", "arming">>, "continue")
TriggerSpec == ChainSpec("trigger", "arming",
  <<"keep", "arming">>, <<"keep", "trigger">>, "continue")
LaunchSpec == ChainSpec("launch", "trigger",
  <<"keep", "trigger">>, <<"keep", "launch">>, "continue")
HandoffSpec == ChainSpec("handoff", "launch",
  <<"keep", "launch">>, <<"keep", "handoff">>, "continue")
ContinuationSpec == ChainSpec("continuation", "handoff",
  <<"keep", "handoff">>, <<"keep", "continuation">>, "continue")
SustainmentSpec == ChainSpec("sustainment", "continuation",
  <<"keep", "continuation">>, <<"sustain", "sustainment">>, "sustain")
StewardshipSpec == ChainSpec("stewardship", "sustainment",
  <<"sustain", "sustainment">>, <<"steward", "stewardship">>, "steward")
GuardianshipSpec == ChainSpec("guardianship", "stewardship",
  <<"steward", "stewardship">>, <<"guard", "guardianship">>, "guard")
OversightSpec == ChainSpec("oversight", "guardianship",
  <<"guard", "guardianship">>, <<"oversee", "oversight">>, "oversee")
AssuranceSpec == ChainSpec("assurance", "oversight",
  <<"oversee", "oversight">>, <<"assure", "assurance">>, "assure")
AttestationSpec == ChainSpec("attestation", "assurance",
  <<"assure", "assurance">>, <<"attest", "attestation">>, "attest")
VerificationSpec == ChainSpec("verification", "attestation",
  <<"attest", "attestation">>, <<"verify", "verification">>, "verify")
CertificationSpec == ChainSpec("certification", "verification",
  <<"verify", "verification">>, <<"certify", "certification">>, "certify")
ConfirmationSpec == ChainSpec("confirmation", "certification",
  <<"certify", "certification">>, <<"confirm", "confirmation">>, "confirm")
RatificationSpec == ChainSpec("ratification", "confirmation",
  <<"confirm", "confirmation">>, <<"ratify", "ratification">>, "ratify")
EndorsementSpec == ChainSpec("endorsement", "ratification",
  <<"ratify", "ratification">>, <<"endorse", "endorsement">>, "endorse")
AuthorizationSpec == ChainSpec("authorization", "endorsement",
  <<"endorse", "endorsement">>, <<"authorize", "authorization">>, "authorize")
EnactmentSpec == ChainSpec("enactment", "authorization",
  <<"authorize", "authorization">>, <<"enact", "enactment">>, "enact")
FinalitySpec == ChainSpec("finality", "enactment",
  <<"enact", "enactment">>, <<"finalize", "finality">>, "finalize")
CompletionSpec == ChainSpec("completion", "finality",
  <<"finalize", "finality">>, <<"complete", "completion">>, "complete")
ConclusionSpec == ChainSpec("conclusion", "completion",
  <<"complete", "completion">>, <<"complete", "conclusion">>, "complete")
DispositionSpec == ChainSpec("disposition", "conclusion",
  <<"complete", "conclusion">>, <<"complete", "disposition">>, "complete")
StandingSpec == ChainSpec("standing", "disposition",
  <<"complete", "disposition">>, <<"keep", "standing">>, "keep")
ResidencySpec == ChainSpec("residency", "standing",
  <<"keep", "standing">>, <<"keep", "residency">>, "keep")
TenureSpec == ChainSpec("tenure", "residency",
  <<"keep", "residency">>, <<"keep", "tenure">>, "keep")
PersistenceSpec == ChainSpec("persistence", "tenure",
  <<"keep", "tenure">>, <<"keep", "persistence">>, "keep")
DurabilitySpec == ChainSpec("durability", "persistence",
  <<"keep", "persistence">>, <<"keep", "durability">>, "keep")
LongevitySpec == ChainSpec("longevity", "durability",
  <<"keep", "durability">>, <<"keep", "longevity">>, "keep")
LegacySpec == ChainSpec("legacy", "longevity",
  <<"keep", "longevity">>, <<"keep", "legacy">>, "keep")
HeritageSpec == ChainSpec("heritage", "legacy",
  <<"keep", "legacy">>, <<"keep", "heritage">>, "keep")
LineageSpec == ChainSpec("lineage", "heritage",
  <<"keep", "heritage">>, <<"keep", "lineage">>, "keep")
AncestrySpec == ChainSpec("ancestry", "lineage",
  <<"keep", "lineage">>, <<"keep", "ancestry">>, "keep")
ProvenanceSpec == ChainSpec("provenance", "ancestry",
  <<"keep", "ancestry">>, <<"keep", "provenance">>, "keep")
OriginSpec == ChainSpec("origin", "provenance",
  <<"keep", "provenance">>, <<"keep", "origin">>, "keep")
RootSpec == ChainSpec("root", "origin",
  <<"keep", "origin">>, <<"keep", "root">>, "keep")
FoundationSpec == ChainSpec("foundation", "root",
  <<"keep", "root">>, <<"keep", "foundation">>, "keep")
BedrockSpec == ChainSpec("bedrock", "foundation",
  <<"keep", "foundation">>, <<"keep", "bedrock">>, "keep")
SubstrateSpec == ChainSpec("substrate", "bedrock",
  <<"keep", "bedrock">>, <<"keep", "substrate">>, "keep")
StratumSpec == ChainSpec("stratum", "substrate",
  <<"keep", "substrate">>, <<"keep", "stratum">>, "keep")
LayerSpec == ChainSpec("layer", "stratum",
  <<"keep", "stratum">>, <<"keep", "layer">>, "keep")
LifecycleChainSpecs == <<
  RetentionSpec, EligibilitySpec, CandidateSpec, SelectabilitySpec,
  ReentrySpec, ReactivationSpec, ResumptionSpec, ReadinessSpec, ArmingSpec,
  TriggerSpec, LaunchSpec, HandoffSpec, ContinuationSpec, SustainmentSpec,
  StewardshipSpec, GuardianshipSpec, OversightSpec, AssuranceSpec,
  AttestationSpec, VerificationSpec, CertificationSpec, ConfirmationSpec,
  RatificationSpec, EndorsementSpec, AuthorizationSpec, EnactmentSpec,
  FinalitySpec, CompletionSpec, ConclusionSpec, DispositionSpec,
  StandingSpec, ResidencySpec, TenureSpec, PersistenceSpec, DurabilitySpec,
  LongevitySpec, LegacySpec, HeritageSpec, LineageSpec, AncestrySpec,
  ProvenanceSpec, OriginSpec, RootSpec, FoundationSpec, BedrockSpec,
  SubstrateSpec, StratumSpec, LayerSpec>>

(* build_proactive_lifecycle_<phase>_decision of phase n. *)
BuilderDecision(n, prev) ==
  CASE n = 1 -> ActivationBuilder(prev)
    [] n = 2 -> SettlementBuilder(prev)
    [] n = 3 -> ClosureBuilder(prev)
    [] n = 4 -> AvailabilityBuilder(prev)
    [] OTHER -> ChainBuilder(LifecycleChainSpecs[n - 4], prev)

-----------------------------------------------------------------------------
(* The chain of a resolution as the builders make it. *)
BuiltChain(resolution) ==
  LET said[k \in 1 .. PhaseCount + 1] ==
        IF k = 1 THEN resolution ELSE BuilderDecision(k - 1, said[k - 1])
  IN said

-----------------------------------------------------------------------------
(* What is said of the chain of a resolution. *)
AgreesOn(resolution) == BuiltChain(resolution) = Chain(resolution)

Ended(said) == said.status = "terminal"
Keeps(said, next) ==
  /\ next.delay = said.delay /\ next.current = said.current
  /\ Ended(said) => Ended(next) /\ next.active = NoLabel
  /\ Ended(next) => Ended(said) \/ said.next = NoLabel
  /\ ~Ended(next) => next.status = said.status
KeepsAlong(resolution) ==
  LET chain == Chain(resolution) IN
  \A k \in 1 .. PhaseCount : Keeps(chain[k], chain[k + 1])

IsUnderstood(resolution) ==
  LET chain == Chain(resolution) IN
  \A k \in 1 .. (PhaseCount + 1) :
    LET reads == PhaseOverrides[PhaseCount + 2 - k] IN
    /\ chain[k].status = "terminal" <=> chain[k].decision \in reads.terminates
    /\ chain[k].status = "hold" <=> chain[k].decision \in reads.holds
    /\ chain[k].status = "scheduled" <=> chain[k].decision \in reads.buffers
=============================================================================
