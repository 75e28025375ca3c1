--------------------------- MODULE LifecyclePhases ---------------------------
(***************************************************************************)
(* The phases that follow a proactive dispatch: their order                *)
(* (lifecycle_phase_specs.py), what each decides in the five cases of      *)
(* application/analyzers/proactive/lifecycle_machine.py, and how the       *)
(* listing of follow-ups reads each (proactive_followup_service/           *)
(* followup_builder.py).                                                   *)
(*                                                                         *)
(* The decision "verb_lifecycle_noun" is the pair <<verb, noun>>.  Modes,  *)
(* keys, notes, sources and rationales are left out.                       *)
(***************************************************************************)
EXTENDS Naturals, Sequences

PostDispatchPhases == <<
  "activation", "settlement", "closure", "availability", "retention",
  "eligibility", "candidate", "selectability", "reentry", "reactivation",
  "resumption", "readiness", "arming", "trigger", "launch", "handoff",
  "continuation", "sustainment", "stewardship", "guardianship", "oversight",
  "assurance", "attestation", "verification", "certification",
  "confirmation", "ratification", "endorsement", "authorization",
  "enactment", "finality", "completion", "conclusion", "disposition",
  "standing", "residency", "tenure", "persistence", "durability",
  "longevity", "legacy", "heritage", "lineage", "ancestry", "provenance",
  "origin", "root", "foundation", "bedrock", "substrate", "stratum", "layer">>

ActiveCaseRows == <<
  <<"activation", "activate_next", "stage", "activate">>,
  <<"settlement", "keep", "active", "activate">>,
  <<"closure", "keep_open", "closure", "continue">>,
  <<"availability", "keep", "available", "continue">>,
  <<"retention", "retain", "retention", "continue">>,
  <<"eligibility", "keep", "eligible", "continue">>,
  <<"candidate", "keep", "candidate", "continue">>,
  <<"selectability", "keep", "selectable", "continue">>,
  <<"reentry", "keep", "reentry", "continue">>,
  <<"reactivation", "keep", "reactivation", "continue">>,
  <<"resumption", "keep", "resumption", "continue">>,
  <<"readiness", "keep", "readiness", "continue">>,
  <<"arming", "keep", "arming", "continue">>,
  <<"trigger", "keep", "trigger", "continue">>,
  <<"launch", "keep", "launch", "continue">>,
  <<"handoff", "keep", "handoff", "continue">>,
  <<"continuation", "keep", "continuation", "continue">>,
  <<"sustainment", "sustain", "sustainment", "sustain">>,
  <<"stewardship", "steward", "stewardship", "steward">>,
  <<"guardianship", "guard", "guardianship", "guard">>,
  <<"oversight", "oversee", "oversight", "oversee">>,
  <<"assurance", "assure", "assurance", "assure">>,
  <<"attestation", "attest", "attestation", "attest">>,
  <<"verification", "verify", "verification", "verify">>,
  <<"certification", "certify", "certification", "certify">>,
  <<"confirmation", "confirm", "confirmation", "confirm">>,
  <<"ratification", "ratify", "ratification", "ratify">>,
  <<"endorsement", "endorse", "endorsement", "endorse">>,
  <<"authorization", "authorize", "authorization", "authorize">>,
  <<"enactment", "enact", "enactment", "enact">>,
  <<"finality", "finalize", "finality", "finalize">>,
  <<"completion", "complete", "completion", "complete">>,
  <<"conclusion", "complete", "conclusion", "complete">>,
  <<"disposition", "complete", "disposition", "complete">>,
  <<"standing", "keep", "standing", "keep">>,
  <<"residency", "keep", "residency", "keep">>,
  <<"tenure", "keep", "tenure", "keep">>,
  <<"persistence", "keep", "persistence", "keep">>,
  <<"durability", "keep", "durability", "keep">>,
  <<"longevity", "keep", "longevity", "keep">>,
  <<"legacy", "keep", "legacy", "keep">>,
  <<"heritage", "keep", "heritage", "keep">>,
  <<"lineage", "keep", "lineage", "keep">>,
  <<"ancestry", "keep", "ancestry", "keep">>,
  <<"provenance", "keep", "provenance", "keep">>,
  <<"origin", "keep", "origin", "keep">>,
  <<"root", "keep", "root", "keep">>,
  <<"foundation", "keep", "foundation", "keep">>,
  <<"bedrock", "keep", "bedrock", "keep">>,
  <<"substrate", "keep", "substrate", "keep">>,
  <<"stratum", "keep", "stratum", "keep">>,
  <<"layer", "keep", "layer", "keep">>>>

PhaseCount == Len(PostDispatchPhases)
ResolutionDecision(verb) == <<verb, "resolution">>

(* The five cases of a phase: its decision, its actionability and the queue *)
(* status it asks for.                                                      *)
Kinds == {"active", "buffer", "pause", "close", "retire"}
Case(decision, actionability, override) ==
  [decision |-> decision, actionability |-> actionability, override |-> override]

ActiveCase(k) ==
  LET row == ActiveCaseRows[k] IN Case(<<row[2], row[3]>>, row[4], "none")
BufferCase(p) ==
  Case(IF p = "activation" THEN <<"buffer_current", "stage">> ELSE <<"buffer", p>>,
       "buffer", "scheduled")
PauseCase(p) ==
  IF p = "activation" THEN Case(<<"hold_current", "stage">>, "hold", "hold")
  ELSE IF p = "settlement" THEN Case(<<"hold", p>>, "hold", "hold")
  ELSE Case(<<"pause", p>>, "pause", "hold")
(* Mutant: every phase closes as the later ones do. *)
CloseCasePlain(p) == Case(<<"archive", p>>, "archive", "terminal")

CloseCase(p) ==
  IF p = "settlement" THEN Case(<<"close", p>>, "close_loop", "terminal")
  ELSE IF p \in {"closure", "availability"}
  THEN Case(<<"close_loop", p>>, "close_loop", "terminal")
  ELSE Case(<<"archive", p>>, "archive", "terminal")
RetireCase(p) ==
  Case(IF p = "activation" THEN <<"retire", "line">> ELSE <<"retire", p>>,
       "retire", "terminal")

PhaseCase(k, kind) ==
  LET p == PostDispatchPhases[k] IN
  CASE kind = "active" -> ActiveCase(k)
    [] kind = "buffer" -> BufferCase(p)
    [] kind = "pause"  -> PauseCase(p)
    [] kind = "close"  -> CloseCase(p)
    [] kind = "retire" -> RetireCase(p)
StatusForCase(kind) ==
  CASE kind = "active" -> "active"
    [] kind = "buffer" -> "scheduled"
    [] kind = "pause"  -> "hold"
    [] OTHER           -> "terminal"

-----------------------------------------------------------------------------
(* What the listing looks for in a phase: the decisions that end it, hold   *)
(* the item or put it off, whether the phase speaks of the current stage,   *)
(* the phases whose match keeps it from matching, or from acting.           *)
Reads(p, matchBlockers, actionBlockers) ==
  [phase |-> p, matchBlockers |-> matchBlockers, actionBlockers |-> actionBlockers,
   terminates |-> {<<"archive", p>>, <<"retire", p>>},
   holds |-> {<<"pause", p>>}, buffers |-> {<<"buffer", p>>},
   matchesLabel |-> TRUE]

Ground == {"layer", "stratum", "substrate", "bedrock", "foundation"}
FoundationOverrides == <<
  Reads("layer", {}, {}),
  Reads("stratum", {"layer"}, {}),
  Reads("substrate", {"layer", "stratum"}, {}),
  Reads("bedrock", {"layer", "stratum", "substrate"}, {}),
  Reads("foundation", Ground \ {"foundation"}, {})>>

(* Lineage is not kept back by ancestry. *)
HeritageOverrides ==
  LET Descent == Ground \cup {"root", "origin", "provenance"}
      Family == Descent \cup {"ancestry", "lineage"}
      Lasting == Family \cup {"heritage", "legacy", "longevity", "durability"}
      Residing == Lasting \cup {"persistence", "tenure", "residency"} IN
  << Reads("root", Ground, {}),
     Reads("origin", Ground \cup {"root"}, {}),
     Reads("provenance", Ground \cup {"root", "origin"}, {}),
     Reads("ancestry", Descent, {}),
     Reads("lineage", Descent, {}),
     Reads("heritage", Family, {}),
     Reads("legacy", Family \cup {"heritage"}, {}),
     Reads("longevity", Family \cup {"heritage", "legacy"}, {}),
     Reads("durability", Lasting \ {"durability"}, {}),
     Reads("persistence", Lasting, {}),
     Reads("tenure", Lasting \cup {"persistence"}, {}),
     Reads("residency", Lasting \cup {"persistence", "tenure"}, {}),
     Reads("standing", Residing, {}),
     Reads("disposition", Residing \cup {"standing"}, {}) >>

(* From here on a phase is kept back by the one before it only, and what    *)
(* authorization says of a stage is not looked at.                          *)
CertificationOverrides == <<
  Reads("conclusion", {"disposition"}, {}),
  Reads("completion", {"conclusion"}, {}),
  Reads("finality", {"completion"}, {}),
  Reads("enactment", {"finality"}, {}),
  [Reads("authorization", {"enactment"}, {}) EXCEPT !.matchesLabel = FALSE],
  Reads("endorsement", {"authorization"}, {}),
  Reads("ratification", {"endorsement"}, {}),
  Reads("confirmation", {"ratification"}, {}),
  Reads("certification", {"confirmation"}, {}),
  Reads("verification", {"certification"}, {})>>

(* These match in any case, and are kept from acting. *)
StewardshipOverrides == <<
  Reads("attestation", {}, {"verification"}),
  Reads("assurance", {}, {"attestation"}),
  Reads("oversight", {}, {"attestation", "assurance"}),
  Reads("guardianship", {}, {"assurance", "oversight"}),
  Reads("stewardship", {}, {"assurance", "oversight", "guardianship"}),
  Reads("sustainment", {}, {"guardianship", "stewardship"}),
  Reads("continuation", {}, {"sustainment"})>>

ActivationOverrides == <<
  Reads("handoff", {"continuation"}, {}),
  Reads("launch", {"handoff"}, {}),
  Reads("trigger", {"launch"}, {}),
  Reads("arming", {"trigger"}, {}),
  Reads("readiness", {"arming"}, {}),
  Reads("resumption", {"readiness"}, {}),
  Reads("reactivation", {"resumption"}, {}),
  Reads("reentry", {"reactivation"}, {}),
  Reads("selectability", {"reentry"}, {}),
  Reads("candidate", {"selectability"}, {}),
  Reads("eligibility", {"candidate"}, {}),
  Reads("retention", {"eligibility"}, {}),
  [Reads("availability", {"retention"}, {}) EXCEPT
     !.terminates = {<<"close_loop", "availability">>, <<"retire", "availability">>}],
  [Reads("closure", {"availability"}, {}) EXCEPT
     !.terminates = {<<"close_loop", "closure">>, <<"retire", "closure">>}],
  [Reads("settlement", {"closure"}, {}) EXCEPT
     !.terminates = {<<"close", "settlement">>, <<"retire", "settlement">>},
     !.holds = {<<"hold", "settlement">>}],
  [Reads("activation", {"settlement"}, {}) EXCEPT
     !.terminates = {<<"retire", "line">>}, !.holds = {<<"hold_current", "stage">>},
     !.buffers = {<<"buffer_current", "stage">>}],
  [Reads("resolution", {"settlement"}, {"activation"}) EXCEPT
     !.terminates = {<<"retire", "resolution">>}, !.holds = {<<"hold", "resolution">>}]>>

(* In the order of the loop: the last phase first, the resolution last. *)
PhaseOverrides ==
  FoundationOverrides \o HeritageOverrides \o CertificationOverrides
    \o StewardshipOverrides \o ActivationOverrides

(* The tables agree on the phases and on their order. *)
ASSUME TablesAssumption ==
  /\ PhaseCount = 52
  /\ Len(ActiveCaseRows) = PhaseCount /\ Len(PhaseOverrides) = PhaseCount + 1
  /\ \A k \in 1 .. PhaseCount :
       /\ ActiveCaseRows[k][1] = PostDispatchPhases[k]
       /\ PhaseOverrides[PhaseCount + 1 - k].phase = PostDispatchPhases[k]
=============================================================================
