---------------------------- MODULE LifecycleProofs ----------------------------
(***************************************************************************)
(* Proofs about the decisions of a dispatch and the phases that follow it, *)
(* for any stage labels.  The chains are recursive functions of the phase; *)
(* what is said of all phases is shown for the first one, and from each    *)
(* for the next.                                                           *)
(***************************************************************************)
EXTENDS LineDecisions, LifecycleBuilders, WellFoundedInduction, TLAPS

-----------------------------------------------------------------------------
(* Induction over a set of numbers. *)

(* A set that has 1 and with each phase the next has all of them. *)
LEMMA PhaseInduction ==
  ASSUME NEW N \in Nat, NEW S, 1 \in S,
         \A k \in 1 .. N : k \in S => k + 1 \in S
  PROVE  1 .. N + 1 \subseteq S
<1> DEFINE T == {k \in 1 .. N + 1 : k \notin S}
<1> SUFFICES ASSUME T # {}
             PROVE  FALSE
  OBVIOUS
<1>1. T \subseteq Nat
  OBVIOUS
<1>2. PICK k \in T : \A j \in T : ~(<<j, k>> \in OpToRel(<, Nat))
  BY <1>1, NatLessThanWellFounded, WFMin
<1>3. \A j \in T : ~(j < k)
  BY <1>1, <1>2 DEF OpToRel
<1>4. k # 1
  OBVIOUS
<1>5. k - 1 \in S
  BY <1>3, <1>4
<1> QED
  BY <1>4, <1>5

LEMMA ThereAre52Phases == PhaseCount = 52
  BY DEF PhaseCount, PostDispatchPhases

-----------------------------------------------------------------------------
(* The two chains are what their recursion says. *)

LEMMA ChainByPhase ==
  ASSUME NEW r
  PROVE  Chain(r) = [k \in 1 .. PhaseCount + 1 |->
                       IF k = 1 THEN r ELSE PhaseDecision(k - 1, Chain(r)[k - 1])]
<1> DEFINE Said(s, n) ==
      s = [k \in 1 .. n |-> IF k = 1 THEN r ELSE PhaseDecision(k - 1, s[k - 1])]
           S == {n \in Nat : \E s : Said(s, n)}
<1>1. 1 \in S
  <2> DEFINE t == [k \in 1 .. 1 |-> r]
  <2>1. t = [k \in 1 .. 1 |-> IF k = 1 THEN r ELSE PhaseDecision(k - 1, t[k - 1])]
    OBVIOUS
  <2>2. Said(t, 1)
    BY <2>1
  <2> QED
    BY <2>2
<1>2. ASSUME NEW n \in 1 .. PhaseCount, n \in S
      PROVE  n + 1 \in S
  <2>1. n \in Nat
    BY ThereAre52Phases
  <2>2. PICK s : Said(s, n)
    BY <1>2
  <2> DEFINE t == [k \in 1 .. n + 1 |-> IF k = 1 THEN r ELSE PhaseDecision(k - 1, s[k - 1])]
  <2>3. \A k \in 1 .. n : t[k] = s[k]
    BY <2>1, <2>2
  <2> HIDE DEF t
  <2>4. \A k \in 1 .. n + 1 : k # 1 => k - 1 \in 1 .. n
    BY <2>1
  <2>5. \A k \in 1 .. n + 1 : k # 1 => t[k - 1] = s[k - 1]
    BY <2>3, <2>4
  <2>6. t = [k \in 1 .. n + 1 |-> IF k = 1 THEN r ELSE PhaseDecision(k - 1, t[k - 1])]
    BY <2>5 DEF t
  <2>7. \E u : Said(u, n + 1)
    BY <2>6
  <2> HIDE DEF Said
  <2> QED
    BY <2>1, <2>7
<1>3. PhaseCount + 1 \in S
  BY <1>1, <1>2, ThereAre52Phases, PhaseInduction
<1>4. \E s : Said(s, PhaseCount + 1)
  BY <1>3
<1> QED
  BY <1>4 DEF Chain

-----------------------------------------------------------------------------
(* The tables. *)

(* Four phases are named by the cases. *)
LEMMA NamedPhases ==
  \A k \in 1 .. 52 :
    LET p == PostDispatchPhases[k] IN
    /\ p = "activation" <=> k = 1
    /\ p = "settlement" <=> k = 2
    /\ p = "closure" <=> k = 3
    /\ p = "availability" <=> k = 4
  BY DEF PostDispatchPhases

(* No phase that goes on uses the words of one that does not. *)
Stopping == {"buffer", "buffer_current", "hold", "hold_current", "pause",
             "archive", "close", "close_loop", "retire"}
LEMMA ActiveRowsGoOn == \A k \in 1 .. 52 : ActiveCaseRows[k][2] \notin Stopping
  BY DEF ActiveCaseRows, Stopping

(* The builder of phase k answers the decisions of the phase before it, with *)
(* those of the machine's table.                                            *)
ChainOf(k) ==
  ChainSpec(PostDispatchPhases[k], PostDispatchPhases[k - 1],
            <<ActiveCaseRows[k - 1][2], ActiveCaseRows[k - 1][3]>>,
            <<ActiveCaseRows[k][2], ActiveCaseRows[k][3]>>, ActiveCaseRows[k][4])
LEMMA BuildersFollowTheTable ==
  /\ LifecycleChainSpecs[1] =
       [ChainOf(5) EXCEPT !.archivedPrevious = <<"close_loop", "availability">>]
  /\ \A k \in 6 .. 52 : LifecycleChainSpecs[k - 4] = ChainOf(k)
<1>1. /\ EligibilitySpec = ChainOf(6)
     /\ CandidateSpec = ChainOf(7)
     /\ SelectabilitySpec = ChainOf(8)
     /\ ReentrySpec = ChainOf(9)
     /\ ReactivationSpec = ChainOf(10)
     /\ ResumptionSpec = ChainOf(11)
     /\ ReadinessSpec = ChainOf(12)
     /\ ArmingSpec = ChainOf(13)
     /\ TriggerSpec = ChainOf(14)
     /\ LaunchSpec = ChainOf(15)
     /\ HandoffSpec = ChainOf(16)
     /\ ContinuationSpec = ChainOf(17)
  BY DEF ChainOf, PostDispatchPhases, ActiveCaseRows, EligibilitySpec,
    CandidateSpec, SelectabilitySpec, ReentrySpec, ReactivationSpec,
    ResumptionSpec, ReadinessSpec, ArmingSpec, TriggerSpec, LaunchSpec,
    HandoffSpec, ContinuationSpec
<1>2. /\ SustainmentSpec = ChainOf(18)
     /\ StewardshipSpec = ChainOf(19)
     /\ GuardianshipSpec = ChainOf(20)
     /\ OversightSpec = ChainOf(21)
     /\ AssuranceSpec = ChainOf(22)
     /\ AttestationSpec = ChainOf(23)
     /\ VerificationSpec = ChainOf(24)
     /\ CertificationSpec = ChainOf(25)
     /\ ConfirmationSpec = ChainOf(26)
     /\ RatificationSpec = ChainOf(27)
     /\ EndorsementSpec = ChainOf(28)
     /\ AuthorizationSpec = ChainOf(29)
  BY DEF ChainOf, PostDispatchPhases, ActiveCaseRows, SustainmentSpec,
    StewardshipSpec, GuardianshipSpec, OversightSpec, AssuranceSpec,
    AttestationSpec, VerificationSpec, CertificationSpec,
    ConfirmationSpec, RatificationSpec, EndorsementSpec, AuthorizationSpec
<1>3. /\ EnactmentSpec = ChainOf(30)
     /\ FinalitySpec = ChainOf(31)
     /\ CompletionSpec = ChainOf(32)
     /\ ConclusionSpec = ChainOf(33)
     /\ DispositionSpec = ChainOf(34)
     /\ StandingSpec = ChainOf(35)
     /\ ResidencySpec = ChainOf(36)
     /\ TenureSpec = ChainOf(37)
     /\ PersistenceSpec = ChainOf(38)
     /\ DurabilitySpec = ChainOf(39)
     /\ LongevitySpec = ChainOf(40)
     /\ LegacySpec = ChainOf(41)
  BY DEF ChainOf, PostDispatchPhases, ActiveCaseRows, EnactmentSpec,
    FinalitySpec, CompletionSpec, ConclusionSpec, DispositionSpec,
    StandingSpec, ResidencySpec, TenureSpec, PersistenceSpec,
    DurabilitySpec, LongevitySpec, LegacySpec
<1>4. /\ HeritageSpec = ChainOf(42)
     /\ LineageSpec = ChainOf(43)
     /\ AncestrySpec = ChainOf(44)
     /\ ProvenanceSpec = ChainOf(45)
     /\ OriginSpec = ChainOf(46)
     /\ RootSpec = ChainOf(47)
     /\ FoundationSpec = ChainOf(48)
     /\ BedrockSpec = ChainOf(49)
     /\ SubstrateSpec = ChainOf(50)
     /\ StratumSpec = ChainOf(51)
     /\ LayerSpec = ChainOf(52)
  BY DEF ChainOf, PostDispatchPhases, ActiveCaseRows, HeritageSpec,
    LineageSpec, AncestrySpec, ProvenanceSpec, OriginSpec, RootSpec,
    FoundationSpec, BedrockSpec, SubstrateSpec, StratumSpec, LayerSpec
<1>5. LifecycleChainSpecs[1] =
       [ChainOf(5) EXCEPT !.archivedPrevious = <<"close_loop", "availability">>]
  BY DEF LifecycleChainSpecs, RetentionSpec, ChainOf, PostDispatchPhases, ActiveCaseRows
<1> QED
  BY <1>1, <1>2, <1>3, <1>4, <1>5 DEF LifecycleChainSpecs

(* The listing's table for phase k names what its cases decide. *)
Follows(reads, k) ==
  LET p == PostDispatchPhases[k] IN
  /\ reads.terminates = (IF k = 1 THEN {} ELSE {CloseCase(p).decision})
                           \cup {RetireCase(p).decision}
  /\ reads.holds = {PauseCase(p).decision}
  /\ reads.buffers = {BufferCase(p).decision}
LEMMA TheListingFollowsTheTable ==
  \A k \in 1 .. 52 : Follows(PhaseOverrides[53 - k], k)
<1> DEFINE Plain(reads, p) == /\ reads.terminates = {<<"archive", p>>, <<"retire", p>>}
                              /\ reads.holds = {<<"pause", p>>}
                              /\ reads.buffers = {<<"buffer", p>>}
<1>1. \A n \in 1 .. 5 : Plain(FoundationOverrides[n], PostDispatchPhases[53 - n])
  BY DEF FoundationOverrides, PostDispatchPhases, Reads
<1>2. \A n \in 1 .. 14 : Plain(HeritageOverrides[n], PostDispatchPhases[48 - n])
  <2>1. \A n \in 1 .. 14 :
          LET p == PostDispatchPhases[48 - n] IN
          HeritageOverrides[n].terminates = {<<"archive", p>>, <<"retire", p>>}
    BY DEF HeritageOverrides, PostDispatchPhases, Reads
  <2>2. \A n \in 1 .. 14 :
          LET p == PostDispatchPhases[48 - n] IN
          /\ HeritageOverrides[n].holds = {<<"pause", p>>}
          /\ HeritageOverrides[n].buffers = {<<"buffer", p>>}
    BY DEF HeritageOverrides, PostDispatchPhases, Reads
  <2> QED
    BY <2>1, <2>2
<1>3. \A n \in 1 .. 10 : Plain(CertificationOverrides[n], PostDispatchPhases[34 - n])
  BY DEF CertificationOverrides, PostDispatchPhases, Reads
<1>4. \A n \in 1 .. 7 : Plain(StewardshipOverrides[n], PostDispatchPhases[24 - n])
  BY DEF StewardshipOverrides, PostDispatchPhases, Reads
<1>5. \A n \in 1 .. 12 : Plain(ActivationOverrides[n], PostDispatchPhases[17 - n])
  BY DEF ActivationOverrides, PostDispatchPhases, Reads
<1>6. /\ \A n \in 1 .. 5 : PhaseOverrides[n] = FoundationOverrides[n]
      /\ \A n \in 6 .. 19 : PhaseOverrides[n] = HeritageOverrides[n - 5]
      /\ \A n \in 20 .. 29 : PhaseOverrides[n] = CertificationOverrides[n - 19]
      /\ \A n \in 30 .. 36 : PhaseOverrides[n] = StewardshipOverrides[n - 29]
      /\ \A n \in 37 .. 53 : PhaseOverrides[n] = ActivationOverrides[n - 36]
  <2> USE DEF PhaseOverrides, FoundationOverrides, HeritageOverrides,
              CertificationOverrides, StewardshipOverrides, ActivationOverrides
  <2>1. \A n \in 1 .. 5 : PhaseOverrides[n] = FoundationOverrides[n]
    OBVIOUS
  <2>2. \A n \in 6 .. 19 : PhaseOverrides[n] = HeritageOverrides[n - 5]
    OBVIOUS
  <2>3. \A n \in 20 .. 29 : PhaseOverrides[n] = CertificationOverrides[n - 19]
    OBVIOUS
  <2>4. \A n \in 30 .. 36 : PhaseOverrides[n] = StewardshipOverrides[n - 29]
    OBVIOUS
  <2>5. \A n \in 37 .. 53 : PhaseOverrides[n] = ActivationOverrides[n - 36]
    OBVIOUS
  <2> HIDE DEF PhaseOverrides, FoundationOverrides, HeritageOverrides,
              CertificationOverrides, StewardshipOverrides, ActivationOverrides
  <2> QED
    BY <2>1, <2>2, <2>3, <2>4, <2>5
<1>7. \A k \in 5 .. 52 : Plain(PhaseOverrides[53 - k], PostDispatchPhases[k])
  <2> HIDE DEF Plain
  <2> TAKE k \in 5 .. 52
  <2> DEFINE n == 53 - k
  <2>1. k = 53 - n /\ n \in 1 .. 48
    OBVIOUS
  <2> HIDE DEF n
  <2>2. CASE n \in 1 .. 5
    BY <1>1, <1>6, <2>1, <2>2
  <2>3. CASE n \in 6 .. 19
    BY <1>2, <1>6, <2>1, <2>3
  <2>4. CASE n \in 20 .. 29
    BY <1>3, <1>6, <2>1, <2>4
  <2>5. CASE n \in 30 .. 36
    BY <1>4, <1>6, <2>1, <2>5
  <2>6. CASE n \in 37 .. 48
    BY <1>5, <1>6, <2>1, <2>6
  <2> QED
    BY <2>1, <2>2, <2>3, <2>4, <2>5, <2>6 DEF n
<1>8. \A k \in 5 .. 52 : Follows(PhaseOverrides[53 - k], k)
  <2> TAKE k \in 5 .. 52
  <2> DEFINE p == PostDispatchPhases[k]
  <2>1. p \notin {"activation", "settlement", "closure", "availability"}
    BY NamedPhases
  <2>2. Plain(PhaseOverrides[53 - k], p)
    BY <1>7
  <2> HIDE DEF p
  <2>3. /\ CloseCase(p).decision = <<"archive", p>>
        /\ RetireCase(p).decision = <<"retire", p>>
        /\ PauseCase(p).decision = <<"pause", p>>
        /\ BufferCase(p).decision = <<"buffer", p>>
    BY <2>1 DEF CloseCase, RetireCase, PauseCase, BufferCase, Case
  <2> QED
    BY <2>2, <2>3 DEF Follows, p
<1>9. \A k \in 1 .. 4 : Follows(PhaseOverrides[53 - k], k)
  <2>1. \A k \in 1 .. 4 : PhaseOverrides[53 - k] = ActivationOverrides[17 - k]
    BY <1>6
  <2>2. /\ ActivationOverrides[16].terminates = {<<"retire", "line">>}
        /\ ActivationOverrides[16].holds = {<<"hold_current", "stage">>}
        /\ ActivationOverrides[16].buffers = {<<"buffer_current", "stage">>}
    BY DEF ActivationOverrides, Reads
  <2>3. /\ ActivationOverrides[15].terminates =
             {<<"close", "settlement">>, <<"retire", "settlement">>}
        /\ ActivationOverrides[15].holds = {<<"hold", "settlement">>}
        /\ ActivationOverrides[15].buffers = {<<"buffer", "settlement">>}
    BY DEF ActivationOverrides, Reads
  <2>4. /\ ActivationOverrides[14].terminates =
             {<<"close_loop", "closure">>, <<"retire", "closure">>}
        /\ ActivationOverrides[14].holds = {<<"pause", "closure">>}
        /\ ActivationOverrides[14].buffers = {<<"buffer", "closure">>}
    BY DEF ActivationOverrides, Reads
  <2>5. /\ ActivationOverrides[13].terminates
              = {<<"close_loop", "availability">>, <<"retire", "availability">>}
        /\ ActivationOverrides[13].holds = {<<"pause", "availability">>}
        /\ ActivationOverrides[13].buffers = {<<"buffer", "availability">>}
    BY DEF ActivationOverrides, Reads
  <2> USE DEF Follows, CloseCase, RetireCase, PauseCase, BufferCase, Case
  <2>6. Follows(ActivationOverrides[16], 1)
    BY <2>2, NamedPhases
  <2>7. Follows(ActivationOverrides[15], 2)
    BY <2>3, NamedPhases
  <2>8. Follows(ActivationOverrides[14], 3)
    BY <2>4, NamedPhases
  <2>9. Follows(ActivationOverrides[13], 4)
    BY <2>5, NamedPhases
  <2> HIDE DEF Follows
  <2> QED
    BY <2>1, <2>6, <2>7, <2>8, <2>9
<1> QED
  BY <1>8, <1>9

-----------------------------------------------------------------------------
(* What a phase has decided. *)

Shaped(said) ==
  said = [status |-> said.status, decision |-> said.decision,
          actionability |-> said.actionability, override |-> said.override,
          current |-> said.current, active |-> said.active, next |-> said.next,
          remaining |-> said.remaining, exit |-> said.exit, delay |-> said.delay]

(* Phase k has decided in one of its cases, for a stage of the cadence. *)
Says(k, kind, said) ==
  /\ Shaped(said)
  /\ kind \in Kinds
  /\ said.status = StatusForCase(kind)
  /\ said.decision = PhaseCase(k, kind).decision
  /\ said.actionability = PhaseCase(k, kind).actionability
  /\ said.override = PhaseCase(k, kind).override
  /\ said.current # NoLabel
  /\ said.active = NoLabel <=> kind \in {"close", "retire"}

(* What a phase says in each of its cases. *)
LEMMA SaysActive ==
  ASSUME NEW k \in 1 .. 52, NEW said, Says(k, "active", said)
  PROVE  /\ said.status = "active" /\ said.override = "none"
         /\ said.decision = <<ActiveCaseRows[k][2], ActiveCaseRows[k][3]>>
         /\ said.actionability = ActiveCaseRows[k][4]
  BY DEF Says, StatusForCase, Case, PhaseCase, ActiveCase
LEMMA SaysBuffer ==
  ASSUME NEW k \in 1 .. 52, NEW said, Says(k, "buffer", said)
  PROVE  /\ said.status = "scheduled" /\ said.override = "scheduled"
         /\ said.decision = (IF k = 1 THEN <<"buffer_current", "stage">>
                             ELSE <<"buffer", PostDispatchPhases[k]>>)
         /\ said.actionability = "buffer"
  BY NamedPhases DEF Says, StatusForCase, Case, PhaseCase, BufferCase
LEMMA SaysPause ==
  ASSUME NEW k \in 1 .. 52, NEW said, Says(k, "pause", said)
  PROVE  /\ said.status = "hold" /\ said.override = "hold"
         /\ said.decision = (IF k = 1 THEN <<"hold_current", "stage">>
                             ELSE IF k = 2 THEN <<"hold", PostDispatchPhases[k]>>
                             ELSE <<"pause", PostDispatchPhases[k]>>)
         /\ said.actionability = (IF k <= 2 THEN "hold" ELSE "pause")
  BY NamedPhases DEF Says, StatusForCase, Case, PhaseCase, PauseCase
LEMMA SaysClose ==
  ASSUME NEW k \in 2 .. 52, NEW said, Says(k, "close", said)
  PROVE  /\ said.status = "terminal" /\ said.override = "terminal"
         /\ said.decision = (IF k = 2 THEN <<"close", PostDispatchPhases[k]>>
                             ELSE IF k \in {3, 4} THEN <<"close_loop", PostDispatchPhases[k]>>
                             ELSE <<"archive", PostDispatchPhases[k]>>)
         /\ said.actionability = (IF k <= 4 THEN "close_loop" ELSE "archive")
  BY NamedPhases DEF Says, StatusForCase, Case, PhaseCase, CloseCase
LEMMA SaysRetire ==
  ASSUME NEW k \in 1 .. 52, NEW said, Says(k, "retire", said)
  PROVE  /\ said.status = "terminal" /\ said.override = "terminal"
         /\ said.decision = (IF k = 1 THEN <<"retire", "line">>
                             ELSE <<"retire", PostDispatchPhases[k]>>)
         /\ said.actionability = "retire"
  BY NamedPhases DEF Says, StatusForCase, Case, PhaseCase, RetireCase

-----------------------------------------------------------------------------
(* From one phase to the next. *)

(* What the phase after one in case kind makes of it. *)
After(k, kind, prev) ==
  IF k = 2 /\ kind = "retire" /\ prev.exit = "close_loop" THEN "close" ELSE kind

LEMMA CaseAfter ==
  ASSUME NEW k \in 2 .. 52, NEW kind, NEW prev, Says(k - 1, kind, prev),
         k = 2 => kind # "close"
  PROVE  CaseName(k, prev) = After(k, kind, prev)
<1> DEFINE j == k - 1
<1>1. j \in 1 .. 51 /\ (k = 2 <=> j = 1) /\ k # 1
  OBVIOUS
<1> HIDE DEF j
<1>2. CASE kind = "active"
  <2>1. Says(j, "active", prev)
    BY <1>2 DEF j
  <2>2. /\ prev.status = "active" /\ prev.override = "none"
        /\ k = 2 => prev.decision = <<"activate_next", "stage">>
    BY <1>1, <2>1, SaysActive DEF ActiveCaseRows
  <2> QED
    BY <1>1, <1>2, <2>2 DEF CaseName, After
<1>3. CASE kind = "buffer"
  <2>1. Says(j, "buffer", prev)
    BY <1>3 DEF j
  <2>2. /\ prev.status = "scheduled"
        /\ k = 2 => prev.decision = <<"buffer_current", "stage">>
    BY <1>1, <2>1, SaysBuffer
  <2> QED
    BY <1>1, <1>3, <2>2 DEF CaseName, After
<1>4. CASE kind = "pause"
  <2>1. Says(j, "pause", prev)
    BY <1>4 DEF j
  <2>2. /\ prev.status = "hold" /\ prev.override = "hold"
        /\ k = 2 => prev.decision = <<"hold_current", "stage">>
    BY <1>1, <2>1, SaysPause
  <2> QED
    BY <1>1, <1>4, <2>2 DEF CaseName, After
<1>5. CASE kind = "close"
  <2>1. j \in 2 .. 52 /\ k # 2 /\ Says(j, "close", prev)
    BY <1>1, <1>5 DEF j
  <2>2. /\ prev.status = "terminal" /\ prev.override = "terminal"
        /\ prev.actionability # "retire"
    BY <2>1, SaysClose
  <2> QED
    BY <1>1, <1>5, <2>1, <2>2 DEF CaseName, After
<1>6. CASE kind = "retire"
  <2>1. Says(j, "retire", prev)
    BY <1>6 DEF j
  <2>2. /\ prev.status = "terminal" /\ prev.override = "terminal"
        /\ prev.actionability = "retire"
        /\ k = 2 => prev.decision = <<"retire", "line">>
    BY <1>1, <2>1, SaysRetire
  <2> QED
    BY <1>1, <1>6, <2>2 DEF CaseName, After
<1> QED
  BY <1>2, <1>3, <1>4, <1>5, <1>6 DEF Says, Kinds

(* A phase's decision in case goes, spelled out. *)
InCase(k, goes, prev) ==
  [prev EXCEPT !.status = StatusForCase(goes),
     !.decision = PhaseCase(k, goes).decision,
     !.actionability = PhaseCase(k, goes).actionability,
     !.override = PhaseCase(k, goes).override,
     !.active = IF goes \in {"close", "retire"} THEN NoLabel ELSE @,
     !.next = IF goes \in {"close", "retire"} THEN NoLabel ELSE @,
     !.remaining = IF goes \in {"close", "retire"} THEN 0 ELSE @]

LEMMA DecisionAfter ==
  ASSUME NEW k \in 2 .. 52, NEW kind, NEW prev, Says(k - 1, kind, prev),
         k = 2 => kind # "close"
  PROVE  PhaseDecision(k, prev) = InCase(k, After(k, kind, prev), prev)
<1> DEFINE goes == After(k, kind, prev)
<1>1. PhaseKind(k, prev) = goes
  BY CaseAfter DEF PhaseKind
<1>2. goes \notin {"close", "retire"} => prev.active # NoLabel
  BY DEF Says, After
<1>4. Shaped(prev)
  BY DEF Says
<1> HIDE DEF goes
<1>3. StageOf(k, goes, prev) = IF goes \in {"close", "retire"} THEN NoLabel ELSE prev.active
  BY <1>2 DEF StageOf
<1>5. PhaseDecision(k, prev) = InCase(k, goes, prev)
  BY <1>1, <1>3, <1>4 DEF PhaseDecision, Shaped, InCase
<1> QED
  BY <1>5 DEF goes

LEMMA SaysAfter ==
  ASSUME NEW k \in 2 .. 52, NEW kind, NEW prev, Says(k - 1, kind, prev),
         k = 2 => kind # "close"
  PROVE  /\ Says(k, After(k, kind, prev), PhaseDecision(k, prev))
         /\ Keeps(prev, PhaseDecision(k, prev))
<1> DEFINE goes == After(k, kind, prev)
           said == InCase(k, goes, prev)
<1>0. PhaseDecision(k, prev) = said
  BY DecisionAfter
<1>1. goes \in Kinds /\ (goes \in {"close", "retire"} <=> kind \in {"close", "retire"})
      /\ StatusForCase(goes) = StatusForCase(kind)
      /\ (StatusForCase(goes) = "terminal" <=> goes \in {"close", "retire"})
  BY DEF After, Says, Kinds, StatusForCase
<1>3. /\ Shaped(prev) /\ prev.current # NoLabel
      /\ prev.active = NoLabel <=> kind \in {"close", "retire"}
      /\ prev.status = StatusForCase(kind)
  BY DEF Says
<1> HIDE DEF goes
<1>4. /\ said.status = StatusForCase(goes)
      /\ said.decision = PhaseCase(k, goes).decision
      /\ said.actionability = PhaseCase(k, goes).actionability
      /\ said.override = PhaseCase(k, goes).override
      /\ said.active = IF goes \in {"close", "retire"} THEN NoLabel ELSE prev.active
      /\ said.current = prev.current
      /\ said.delay = prev.delay
  BY <1>3 DEF Shaped, InCase
<1>5. Shaped(said)
  <2> DEFINE ends == goes \in {"close", "retire"}
             case == PhaseCase(k, goes)
  <2>1. said = [status |-> StatusForCase(goes), decision |-> case.decision,
          actionability |-> case.actionability, override |-> case.override,
          current |-> prev.current, active |-> IF ends THEN NoLabel ELSE prev.active,
          next |-> IF ends THEN NoLabel ELSE prev.next,
          remaining |-> IF ends THEN 0 ELSE prev.remaining,
          exit |-> prev.exit, delay |-> prev.delay]
    <3> HIDE DEF ends, case
    <3>1. said = [prev EXCEPT !.status = StatusForCase(goes),
     !.decision = case.decision,
     !.actionability = case.actionability,
     !.override = case.override,
     !.active = IF ends THEN NoLabel ELSE @,
     !.next = IF ends THEN NoLabel ELSE @,
     !.remaining = IF ends THEN 0 ELSE @]
      BY DEF InCase, ends, case
    <3> HIDE DEF said
    <3> QED
      BY <1>3, <3>1 DEF Shaped
  <2> HIDE DEF said, ends, case
  <2> QED
    BY <2>1 DEF Shaped
<1> HIDE DEF said
<1>6. Says(k, goes, said)
  BY <1>1, <1>3, <1>4, <1>5 DEF Says
<1>7. Keeps(prev, said)
  BY <1>1, <1>3, <1>4 DEF Keeps, Ended
<1> QED
  BY <1>0, <1>6, <1>7 DEF goes

-----------------------------------------------------------------------------
(* The builders. *)

(* The record of a decision, field by field. *)
Written(prev, status, decision, actionability, override, active, next, remaining) ==
  [status |-> status, decision |-> decision, actionability |-> actionability,
   override |-> override, current |-> prev.current, active |-> active,
   next |-> next, remaining |-> remaining, exit |-> prev.exit, delay |-> prev.delay]

LEMMA BecomesWritten ==
  ASSUME NEW prev, Shaped(prev), NEW status, NEW decision, NEW actionability, NEW override
  PROVE  Becomes(prev, status, decision, actionability, override)
           = Written(prev, status, decision, actionability, override,
                     prev.active, prev.next, prev.remaining)
<1> DEFINE said == Becomes(prev, status, decision, actionability, override)
<1>1. said = [prev EXCEPT !.status = status, !.decision = decision,
                !.actionability = actionability, !.override = override]
  BY DEF Becomes
<1> HIDE DEF said
<1>2. said = Written(prev, status, decision, actionability, override,
                     prev.active, prev.next, prev.remaining)
  BY <1>1 DEF Shaped, Written
<1> QED
  BY <1>2 DEF said
LEMMA EndsWritten ==
  ASSUME NEW prev, Shaped(prev), NEW decision, NEW actionability
  PROVE  Ends(prev, decision, actionability)
           = Written(prev, "terminal", decision, actionability, "terminal", NoLabel, NoLabel, 0)
<1> DEFINE ended == Becomes(prev, "terminal", decision, actionability, "terminal")
<1>1. ended = Written(prev, "terminal", decision, actionability, "terminal",
                     prev.active, prev.next, prev.remaining)
  BY BecomesWritten
<1> HIDE DEF ended
<1> DEFINE said == Ends(prev, decision, actionability)
<1>2. said = [ended EXCEPT !.active = NoLabel, !.next = NoLabel, !.remaining = 0]
  BY DEF Ends, ended
<1> HIDE DEF said
<1>3. said = Written(prev, "terminal", decision, actionability, "terminal", NoLabel, NoLabel, 0)
  BY <1>1, <1>2 DEF Written
<1> QED
  BY <1>3 DEF said
LEMMA InCaseWritten ==
  ASSUME NEW k, NEW goes, NEW prev, Shaped(prev)
  PROVE  LET ends == goes \in {"close", "retire"}
             case == PhaseCase(k, goes) IN
         InCase(k, goes, prev)
           = Written(prev, StatusForCase(goes), case.decision, case.actionability,
               case.override, IF ends THEN NoLabel ELSE prev.active,
               IF ends THEN NoLabel ELSE prev.next, IF ends THEN 0 ELSE prev.remaining)
<1> DEFINE ends == goes \in {"close", "retire"}
           case == PhaseCase(k, goes)
<1>1. InCase(k, goes, prev) = [prev EXCEPT !.status = StatusForCase(goes),
     !.decision = case.decision,
     !.actionability = case.actionability,
     !.override = case.override,
     !.active = IF ends THEN NoLabel ELSE @,
     !.next = IF ends THEN NoLabel ELSE @,
     !.remaining = IF ends THEN 0 ELSE @]
   BY DEF InCase
<1> HIDE DEF ends, case
<1>2. InCase(k, goes, prev)
           = Written(prev, StatusForCase(goes), case.decision, case.actionability,
               case.override, IF ends THEN NoLabel ELSE prev.active,
               IF ends THEN NoLabel ELSE prev.next, IF ends THEN 0 ELSE prev.remaining)
  BY <1>1 DEF Shaped, Written
<1> QED
  BY <1>2 DEF ends, case

(* The builders' words for the five cases. *)
LEMMA CaseInWords ==
  ASSUME NEW k \in 1 .. 52, NEW prev, Shaped(prev), NEW goes, NEW decision, NEW actionability,
         NEW override, PhaseCase(k, goes) = Case(decision, actionability, override)
  PROVE  /\ goes = "active" /\ override = "none" =>
              InCase(k, goes, prev) = Goes(prev, decision, actionability)
         /\ goes = "buffer" /\ actionability = "buffer" /\ override = "scheduled" =>
              InCase(k, goes, prev) = Waits(prev, decision)
         /\ goes = "pause" /\ override = "hold" =>
              InCase(k, goes, prev) = Stops(prev, decision, actionability)
         /\ goes \in {"close", "retire"} /\ override = "terminal" =>
              InCase(k, goes, prev) = Ends(prev, decision, actionability)
<1> DEFINE ends == goes \in {"close", "retire"}
<1>1. InCase(k, goes, prev)
        = Written(prev, StatusForCase(goes), decision, actionability,
            override, IF ends THEN NoLabel ELSE prev.active,
            IF ends THEN NoLabel ELSE prev.next, IF ends THEN 0 ELSE prev.remaining)
  <2>1. /\ PhaseCase(k, goes).decision = decision
        /\ PhaseCase(k, goes).actionability = actionability
        /\ PhaseCase(k, goes).override = override
    BY DEF Case
  <2> QED
    BY <2>1, InCaseWritten
<1>2. ASSUME goes \notin {"close", "retire"}
      PROVE  InCase(k, goes, prev)
               = Becomes(prev, StatusForCase(goes), decision, actionability, override)
  BY <1>1, <1>2, BecomesWritten
<1>3. ASSUME goes \in {"close", "retire"}, override = "terminal"
      PROVE  InCase(k, goes, prev) = Ends(prev, decision, actionability)
  <2>1. StatusForCase(goes) = "terminal"
    BY <1>3 DEF StatusForCase
  <2> QED
    BY <1>1, <1>3, <2>1, EndsWritten
<1>4. /\ StatusForCase("active") = "active"
      /\ StatusForCase("buffer") = "scheduled"
      /\ StatusForCase("pause") = "hold"
  BY DEF StatusForCase
<1> QED
  BY <1>2, <1>3, <1>4, Zenon DEF Goes, Waits, Stops

LEMMA SettlementAnswers ==
  ASSUME NEW kind, kind # "close", NEW prev, Says(1, kind, prev)
  PROVE  SettlementBuilder(prev) = InCase(2, After(2, kind, prev), prev)
<1> DEFINE goes == After(2, kind, prev)
<1>1. Shaped(prev)
  BY DEF Says
<1>2. CASE kind = "active"
  <2>1. PhaseCase(2, "active") = Case(<<"keep", "active">>, "activate", "none")
    BY DEF PhaseCase, ActiveCase, ActiveCaseRows
  <2>2. goes = "active" /\ Says(1, "active", prev)
    BY <1>2 DEF After
  <2>3. prev.decision = <<"activate_next", "stage">>
    BY <2>2, SaysActive DEF ActiveCaseRows
  <2>4. SettlementBuilder(prev) = Goes(prev, <<"keep", "active">>, "activate")
    BY <2>3 DEF SettlementBuilder
  <2> QED
    BY <1>1, <2>1, <2>2, <2>4, CaseInWords
<1>3. CASE kind = "buffer"
  <2>1. PhaseCase(2, "buffer") = Case(<<"buffer", "settlement">>, "buffer", "scheduled")
    BY NamedPhases DEF PhaseCase, BufferCase
  <2>2. goes = "buffer" /\ Says(1, "buffer", prev)
    BY <1>3 DEF After
  <2>3. prev.decision = <<"buffer_current", "stage">>
    BY <2>2, SaysBuffer
  <2>4. SettlementBuilder(prev) = Waits(prev, <<"buffer", "settlement">>)
    BY <2>3 DEF SettlementBuilder
  <2> QED
    BY <1>1, <2>1, <2>2, <2>4, CaseInWords
<1>4. CASE kind = "pause"
  <2>1. PhaseCase(2, "pause") = Case(<<"hold", "settlement">>, "hold", "hold")
    BY NamedPhases DEF PhaseCase, PauseCase
  <2>2. goes = "pause" /\ Says(1, "pause", prev)
    BY <1>4 DEF After
  <2>3. prev.decision = <<"hold_current", "stage">>
    BY <2>2, SaysPause
  <2>4. SettlementBuilder(prev) = Stops(prev, <<"hold", "settlement">>, "hold")
    BY <2>3 DEF SettlementBuilder
  <2> QED
    BY <1>1, <2>1, <2>2, <2>4, CaseInWords
<1>5. CASE kind = "retire"
  <2>1. /\ PhaseCase(2, "close") = Case(<<"close", "settlement">>, "close_loop", "terminal")
        /\ PhaseCase(2, "retire") = Case(<<"retire", "settlement">>, "retire", "terminal")
    BY NamedPhases DEF PhaseCase, CloseCase, RetireCase
  <2>2. /\ goes = IF prev.exit = "close_loop" THEN "close" ELSE "retire"
        /\ Says(1, "retire", prev)
    BY <1>5 DEF After
  <2>3. prev.decision = <<"retire", "line">>
    BY <2>2, SaysRetire
  <2>4. SettlementBuilder(prev) =
          IF prev.exit = "close_loop" THEN Ends(prev, <<"close", "settlement">>, "close_loop")
          ELSE Ends(prev, <<"retire", "settlement">>, "retire")
    BY <2>3 DEF SettlementBuilder
  <2>5. CASE prev.exit = "close_loop"
    BY <1>1, <2>1, <2>2, <2>4, <2>5, CaseInWords
  <2>6. CASE prev.exit # "close_loop"
    BY <1>1, <2>1, <2>2, <2>4, <2>6, CaseInWords
  <2> QED
    BY <2>5, <2>6
<1> QED
  BY <1>2, <1>3, <1>4, <1>5 DEF Says, Kinds

LEMMA ClosureAnswers ==
  ASSUME NEW kind, NEW prev, Says(2, kind, prev)
  PROVE  ClosureBuilder(prev) = InCase(3, kind, prev)
<1>1. Shaped(prev)
  BY DEF Says
<1>2. CASE kind = "active"
  <2>1. PhaseCase(3, "active") = Case(<<"keep_open", "closure">>, "continue", "none")
    BY DEF PhaseCase, ActiveCase, ActiveCaseRows
  <2>2. Says(2, "active", prev)
    BY <1>2
  <2>3. prev.decision = <<"keep", "active">>
    BY <2>2, SaysActive DEF ActiveCaseRows
  <2>4. ClosureBuilder(prev) = Goes(prev, <<"keep_open", "closure">>, "continue")
    BY <2>3 DEF ClosureBuilder
  <2> QED
    BY <1>1, <1>2, <2>1, <2>4, CaseInWords
<1>3. CASE kind = "buffer"
  <2>1. PhaseCase(3, "buffer") = Case(<<"buffer", "closure">>, "buffer", "scheduled")
    BY NamedPhases DEF PhaseCase, BufferCase
  <2>2. Says(2, "buffer", prev)
    BY <1>3
  <2>3. prev.decision = <<"buffer", "settlement">>
    BY <2>2, SaysBuffer, NamedPhases
  <2>4. ClosureBuilder(prev) = Waits(prev, <<"buffer", "closure">>)
    BY <2>3 DEF ClosureBuilder
  <2> QED
    BY <1>1, <1>3, <2>1, <2>4, CaseInWords
<1>4. CASE kind = "pause"
  <2>1. PhaseCase(3, "pause") = Case(<<"pause", "closure">>, "pause", "hold")
    BY NamedPhases DEF PhaseCase, PauseCase
  <2>2. Says(2, "pause", prev)
    BY <1>4
  <2>3. prev.decision = <<"hold", "settlement">>
    BY <2>2, SaysPause, NamedPhases
  <2>4. ClosureBuilder(prev) = Stops(prev, <<"pause", "closure">>, "pause")
    BY <2>3 DEF ClosureBuilder
  <2> QED
    BY <1>1, <1>4, <2>1, <2>4, CaseInWords
<1>5. CASE kind = "close"
  <2>1. PhaseCase(3, "close") = Case(<<"close_loop", "closure">>, "close_loop", "terminal")
    BY NamedPhases DEF PhaseCase, CloseCase
  <2>2. Says(2, "close", prev)
    BY <1>5
  <2>3. prev.decision = <<"close", "settlement">>
    BY <2>2, SaysClose, NamedPhases
  <2>4. ClosureBuilder(prev) = Ends(prev, <<"close_loop", "closure">>, "close_loop")
    BY <2>3 DEF ClosureBuilder
  <2> QED
    BY <1>1, <1>5, <2>1, <2>4, CaseInWords
<1>6. CASE kind = "retire"
  <2>1. PhaseCase(3, "retire") = Case(<<"retire", "closure">>, "retire", "terminal")
    BY NamedPhases DEF PhaseCase, RetireCase
  <2>2. Says(2, "retire", prev)
    BY <1>6
  <2>3. prev.decision = <<"retire", "settlement">>
    BY <2>2, SaysRetire, NamedPhases
  <2>4. ClosureBuilder(prev) = Ends(prev, <<"retire", "closure">>, "retire")
    BY <2>3 DEF ClosureBuilder
  <2> QED
    BY <1>1, <1>6, <2>1, <2>4, CaseInWords
<1> QED
  BY <1>2, <1>3, <1>4, <1>5, <1>6 DEF Says, Kinds

LEMMA AvailabilityAnswers ==
  ASSUME NEW kind, NEW prev, Says(3, kind, prev)
  PROVE  AvailabilityBuilder(prev) = InCase(4, kind, prev)
<1>1. Shaped(prev)
  BY DEF Says
<1>2. CASE kind = "active"
  <2>1. PhaseCase(4, "active") = Case(<<"keep", "available">>, "continue", "none")
    BY DEF PhaseCase, ActiveCase, ActiveCaseRows
  <2>2. Says(3, "active", prev)
    BY <1>2
  <2>3. prev.decision = <<"keep_open", "closure">>
    BY <2>2, SaysActive DEF ActiveCaseRows
  <2>4. AvailabilityBuilder(prev) = Goes(prev, <<"keep", "available">>, "continue")
    BY <2>3 DEF AvailabilityBuilder
  <2> QED
    BY <1>1, <1>2, <2>1, <2>4, CaseInWords
<1>3. CASE kind = "buffer"
  <2>1. PhaseCase(4, "buffer") = Case(<<"buffer", "availability">>, "buffer", "scheduled")
    BY NamedPhases DEF PhaseCase, BufferCase
  <2>2. Says(3, "buffer", prev)
    BY <1>3
  <2>3. prev.decision = <<"buffer", "closure">>
    BY <2>2, SaysBuffer, NamedPhases
  <2>4. AvailabilityBuilder(prev) = Waits(prev, <<"buffer", "availability">>)
    BY <2>3 DEF AvailabilityBuilder
  <2> QED
    BY <1>1, <1>3, <2>1, <2>4, CaseInWords
<1>4. CASE kind = "pause"
  <2>1. PhaseCase(4, "pause") = Case(<<"pause", "availability">>, "pause", "hold")
    BY NamedPhases DEF PhaseCase, PauseCase
  <2>2. Says(3, "pause", prev)
    BY <1>4
  <2>3. prev.decision = <<"pause", "closure">>
    BY <2>2, SaysPause, NamedPhases
  <2>4. AvailabilityBuilder(prev) = Stops(prev, <<"pause", "availability">>, "pause")
    BY <2>3 DEF AvailabilityBuilder
  <2> QED
    BY <1>1, <1>4, <2>1, <2>4, CaseInWords
<1>5. CASE kind = "close"
  <2>1. PhaseCase(4, "close") = Case(<<"close_loop", "availability">>, "close_loop", "terminal")
    BY NamedPhases DEF PhaseCase, CloseCase
  <2>2. Says(3, "close", prev)
    BY <1>5
  <2>3. prev.decision = <<"close_loop", "closure">>
    BY <2>2, SaysClose, NamedPhases
  <2>4. AvailabilityBuilder(prev) = Ends(prev, <<"close_loop", "availability">>, "close_loop")
    BY <2>3 DEF AvailabilityBuilder
  <2> QED
    BY <1>1, <1>5, <2>1, <2>4, CaseInWords
<1>6. CASE kind = "retire"
  <2>1. PhaseCase(4, "retire") = Case(<<"retire", "availability">>, "retire", "terminal")
    BY NamedPhases DEF PhaseCase, RetireCase
  <2>2. Says(3, "retire", prev)
    BY <1>6
  <2>3. prev.decision = <<"retire", "closure">>
    BY <2>2, SaysRetire, NamedPhases
  <2>4. AvailabilityBuilder(prev) = Ends(prev, <<"retire", "availability">>, "retire")
    BY <2>3 DEF AvailabilityBuilder
  <2> QED
    BY <1>1, <1>6, <2>1, <2>4, CaseInWords
<1> QED
  BY <1>2, <1>3, <1>4, <1>5, <1>6 DEF Says, Kinds

(* The shared builder, by its table. *)
LEMMA ChainAnswers ==
  ASSUME NEW k \in 5 .. 52, NEW kind, NEW prev, Says(k - 1, kind, prev)
  PROVE  ChainBuilder(LifecycleChainSpecs[k - 4], prev) = InCase(k, kind, prev)
<1> DEFINE j == k - 1
           p == PostDispatchPhases[k]
           q == PostDispatchPhases[j]
           active == <<ActiveCaseRows[k][2], ActiveCaseRows[k][3]>>
           going == <<ActiveCaseRows[j][2], ActiveCaseRows[j][3]>>
           closed == <<IF k = 5 THEN "close_loop" ELSE "archive", q>>
           spec == LifecycleChainSpecs[k - 4]
<1>1. Shaped(prev) /\ Says(j, kind, prev) /\ kind \in Kinds
  BY DEF Says
<1>2. j \in 4 .. 51 /\ (j = 4 <=> k = 5) /\ k > 4
  OBVIOUS
<1>3. /\ PhaseCase(k, "active") = Case(active, ActiveCaseRows[k][4], "none")
      /\ PhaseCase(k, "buffer") = Case(<<"buffer", p>>, "buffer", "scheduled")
      /\ PhaseCase(k, "pause") = Case(<<"pause", p>>, "pause", "hold")
      /\ PhaseCase(k, "close") = Case(<<"archive", p>>, "archive", "terminal")
      /\ PhaseCase(k, "retire") = Case(<<"retire", p>>, "retire", "terminal")
  BY NamedPhases DEF PhaseCase, ActiveCase, BufferCase, PauseCase, CloseCase, RetireCase
<1>4. /\ spec.phase = p
      /\ spec.activePrevious = going
      /\ spec.active = active /\ spec.actionability = ActiveCaseRows[k][4]
      /\ spec.bufferedPrevious = <<"buffer", q>>
      /\ spec.pausedPrevious = <<"pause", q>>
      /\ spec.archivedPrevious = closed
      /\ spec.retiredPrevious = <<"retire", q>>
  <2>1. CASE k = 5
    <3>1. spec = [ChainOf(k) EXCEPT !.archivedPrevious = closed]
      BY <2>1, BuildersFollowTheTable, NamedPhases
    <3> QED
      BY <3>1 DEF ChainOf, ChainSpec
  <2>2. CASE k # 5
    <3>1. spec = ChainOf(k)
      BY <2>2, BuildersFollowTheTable
    <3> QED
      BY <2>2, <3>1 DEF ChainOf, ChainSpec
  <2> QED
    BY <2>1, <2>2
<1>5. ActiveCaseRows[j][2] \notin Stopping
  BY ActiveRowsGoOn
<1> HIDE DEF j, p, q, active, spec
<1>6. CASE kind = "active"
  <2>1. prev.decision = going
    BY <1>1, <1>2, <1>6, SaysActive
  <2>2. ChainBuilder(spec, prev) = Goes(prev, active, ActiveCaseRows[k][4])
    BY <1>4, <1>5, <2>1 DEF ChainBuilder, Stopping
  <2> QED
    BY <1>1, <1>3, <1>6, <2>2, CaseInWords DEF spec
<1> HIDE DEF going
<1>7. CASE kind = "buffer"
  <2>1. prev.decision = <<"buffer", q>>
    BY <1>1, <1>2, <1>7, SaysBuffer DEF q
  <2>2. ChainBuilder(spec, prev) = Waits(prev, <<"buffer", p>>)
    BY <1>4, <1>5, <2>1 DEF ChainBuilder, Stopping, going
  <2> QED
    BY <1>1, <1>3, <1>7, <2>2, CaseInWords DEF spec
<1>8. CASE kind = "pause"
  <2>1. prev.decision = <<"pause", q>>
    BY <1>1, <1>2, <1>8, SaysPause DEF q
  <2>2. ChainBuilder(spec, prev) = Stops(prev, <<"pause", p>>, "pause")
    BY <1>4, <1>5, <2>1 DEF ChainBuilder, Stopping, going
  <2> QED
    BY <1>1, <1>3, <1>8, <2>2, CaseInWords DEF spec
<1>9. CASE kind = "close"
  <2>1. prev.decision = closed
    BY <1>1, <1>2, <1>9, SaysClose DEF q
  <2>2. ChainBuilder(spec, prev) = Ends(prev, <<"archive", p>>, "archive")
    BY <1>4, <1>5, <2>1 DEF ChainBuilder, Stopping, going
  <2> QED
    BY <1>1, <1>3, <1>9, <2>2, CaseInWords DEF spec
<1>10. CASE kind = "retire"
  <2>1. prev.decision = <<"retire", q>>
    BY <1>1, <1>2, <1>10, SaysRetire DEF q
  <2>2. ChainBuilder(spec, prev) = Ends(prev, <<"retire", p>>, "retire")
    BY <1>4, <1>5, <2>1 DEF ChainBuilder, Stopping, going
  <2> QED
    BY <1>1, <1>3, <1>10, <2>2, CaseInWords DEF spec
<1> QED
  BY <1>1, <1>6, <1>7, <1>8, <1>9, <1>10 DEF Kinds, spec

(* Each phase's builder and the machine decide the same. *)
LEMMA BuilderAfter ==
  ASSUME NEW k \in 2 .. 52, NEW kind, NEW prev, Says(k - 1, kind, prev),
         k = 2 => kind # "close"
  PROVE  BuilderDecision(k, prev) = PhaseDecision(k, prev)
<1>1. PhaseDecision(k, prev) = InCase(k, After(k, kind, prev), prev)
  BY DecisionAfter
<1>2. CASE k = 2
  BY <1>1, <1>2, SettlementAnswers DEF BuilderDecision
<1>3. CASE k = 3
  BY <1>1, <1>3, ClosureAnswers DEF BuilderDecision, After
<1>4. CASE k = 4
  BY <1>1, <1>4, AvailabilityAnswers DEF BuilderDecision, After
<1>5. CASE k > 4
  BY <1>1, <1>5, ChainAnswers DEF BuilderDecision, After
<1> QED
  BY <1>2, <1>3, <1>4, <1>5

-----------------------------------------------------------------------------
(* The first phase. *)

(* A resolution, of a stage of the cadence. *)
Verbs == {"continue", "buffer", "hold", "retire"}
Resolves(verb, r) ==
  /\ verb \in Verbs
  /\ r = Resolution(verb, r.current, r.next, r.remaining, r.exit, r.delay)
  /\ r.current \in StageLabels

LEMMA ResolutionResolves ==
  ASSUME NEW verb \in Verbs, NEW current \in StageLabels, NEW next, NEW remaining,
         NEW exit, NEW delay
  PROVE  Resolves(verb, Resolution(verb, current, next, remaining, exit, delay))
<1> DEFINE r == Resolution(verb, current, next, remaining, exit, delay)
<1>1. /\ r.current = current /\ r.next = next /\ r.remaining = remaining
      /\ r.exit = exit /\ r.delay = delay
  BY DEF Resolution
<1> HIDE DEF r
<1>2. r = Resolution(verb, r.current, r.next, r.remaining, r.exit, r.delay)
  BY <1>1 DEF r
<1> QED
  BY <1>1, <1>2 DEF Resolves, r

(* Whatever a dispatch decides, it resolves one of them. *)
LEMMA PosturesResolve ==
  ASSUME NEW d \in Dispatch
  PROVE  \E verb \in Verbs : Resolves(verb, Posture(d))
<1> DEFINE label == Label[d.index]
           line == ExitOf(d)
           left == LineOf(d).remaining - (IF Sends(d) THEN 1 ELSE 0)
           remains(verb) == Resolution(verb, label, line.next, left, line.exit, 0)
           over == Resolution("retire", label, NoLabel, 0, line.exit, 0)
           ended == [remains("retire") EXCEPT !.next = NoLabel, !.remaining = 0]
<1>2. label \in StageLabels
  BY CadenceAssumption DEF Dispatch
<1>3. Posture(d) = ended \/ \E verb \in Verbs : Posture(d) = remains(verb)
  BY DEF Posture, LifecycleResolution, Verbs
<1>4. ended = over
  <2> HIDE DEF line, left, label
  <2>1. ended = [remains("retire") EXCEPT !.next = NoLabel, !.remaining = 0]
    OBVIOUS
  <2> HIDE DEF ended
  <2> QED
    BY <2>1 DEF Resolution
<1> HIDE DEF line, left, label
<1>5. Resolves("retire", over) /\ \A verb \in Verbs : Resolves(verb, remains(verb))
  BY <1>2, ResolutionResolves DEF Verbs
<1> HIDE DEF ended, over, remains
<1> QED
  BY <1>3, <1>4, <1>5 DEF Verbs

(* The first phase takes up what was resolved. *)
LEMMA FirstPhase ==
  ASSUME NEW r, NEW verb, Resolves(verb, r)
  PROVE  /\ Shaped(r)
         /\ BuilderDecision(1, r) = PhaseDecision(1, r)
         /\ Keeps(r, PhaseDecision(1, r))
         /\ \E kind \in Kinds : kind # "close" /\ Says(1, kind, PhaseDecision(1, r))
         /\ verb = "retire" => Says(1, "retire", PhaseDecision(1, r))
<1> DEFINE ending == verb = "retire" \/ (verb = "continue" /\ r.next = NoLabel)
           kind == CASE verb = "continue" -> (IF r.next = NoLabel THEN "retire" ELSE "active")
                     [] verb = "buffer" -> "buffer"
                     [] verb = "hold" -> "pause"
                     [] verb = "retire" -> "retire"
           stage == IF kind = "retire" THEN NoLabel
                    ELSE IF kind = "active" THEN r.next ELSE r.current
           given == [r EXCEPT !.active = r.current]
           case == PhaseCase(1, kind)
<1>1. /\ r.decision = <<verb, "resolution">>
      /\ verb \in Verbs
      /\ r.current # NoLabel
  BY LabelAssumption DEF Resolves, Resolution, ResolutionDecision
<1>2. Shaped(r)
  BY DEF Resolves, Resolution, Shaped
<1>3. /\ verb = "continue" => r.status = "active"
      /\ verb = "buffer" => r.status = "scheduled"
      /\ verb = "hold" => r.status = "hold"
      /\ verb = "retire" => r.status = "terminal"
  BY DEF Resolves, Resolution
<1>4. kind \in {"active", "buffer", "pause", "retire"} /\ kind # "close"
  BY <1>1 DEF Verbs
<1>5. PhaseKind(1, r) = kind
  BY <1>1 DEF PhaseKind, CaseName, ResolutionDecision, Verbs
<1>6. StageOf(1, kind, r) = stage
  <2> HIDE DEF kind
  <2> QED
    BY <1>4 DEF StageOf
<1> DEFINE said == PhaseDecision(1, r)
<1>7. said = Written(r, StatusForCase(kind), case.decision, case.actionability, case.override,
               stage, IF kind = "retire" THEN NoLabel ELSE r.next,
               IF kind = "retire" THEN 0 ELSE r.remaining)
  <2> HIDE DEF kind, stage, case
  <2>1. said = [r EXCEPT !.status = StatusForCase(kind), !.decision = case.decision,
               !.actionability = case.actionability, !.override = case.override,
               !.active = stage,
               !.next = IF kind = "retire" THEN NoLabel ELSE r.next,
               !.remaining = IF kind = "retire" THEN 0 ELSE r.remaining]
    BY <1>4, <1>5, <1>6 DEF PhaseDecision, case
  <2> HIDE DEF said
  <2> QED
    BY <1>2, <2>1 DEF Shaped, Written
<1>8. /\ kind = "active" => /\ StatusForCase(kind) = "active"
                            /\ case = Case(<<"activate_next", "stage">>, "activate", "none")
      /\ kind = "buffer" => /\ StatusForCase(kind) = "scheduled"
                            /\ case = Case(<<"buffer_current", "stage">>, "buffer", "scheduled")
      /\ kind = "pause" => /\ StatusForCase(kind) = "hold"
                           /\ case = Case(<<"hold_current", "stage">>, "hold", "hold")
      /\ kind = "retire" => /\ StatusForCase(kind) = "terminal"
                            /\ case = Case(<<"retire", "line">>, "retire", "terminal")
  <2> HIDE DEF kind
  <2> QED
    BY NamedPhases
       DEF PhaseCase, ActiveCase, ActiveCaseRows, BufferCase, PauseCase, RetireCase, StatusForCase
<1>9. /\ said.status = StatusForCase(kind) /\ said.decision = case.decision
      /\ said.actionability = case.actionability /\ said.override = case.override
      /\ said.current = r.current /\ said.active = stage /\ said.delay = r.delay
  <2> HIDE DEF kind, stage, case, said
  <2> QED
    BY <1>7 DEF Written
<1>10. Shaped(said)
  <2> HIDE DEF kind, stage, case
  <2>1. PICK status, decision, actionability, override, next, remaining :
          said = Written(r, status, decision, actionability, override, stage, next, remaining)
    BY <1>7
  <2> HIDE DEF said
  <2> QED
    BY <2>1 DEF Written, Shaped
<1>11. Says(1, kind, said)
  <2>1. stage = NoLabel <=> kind \in {"close", "retire"}
    BY <1>1 DEF Verbs
  <2>2. kind \in Kinds
    BY <1>4 DEF Kinds
  <2> HIDE DEF kind, stage, said
  <2> QED
    BY <1>1, <1>9, <1>10, <2>1, <2>2 DEF Says
<1>12. Keeps(r, said)
  <2>1. StatusForCase(kind) = "terminal" <=> kind = "retire"
    <3> HIDE DEF kind
    <3> QED
      BY <1>4, <1>8
  <2>2. kind # "retire" => StatusForCase(kind) = r.status
    <3>1. /\ StatusForCase("active") = "active"
          /\ StatusForCase("buffer") = "scheduled"
          /\ StatusForCase("pause") = "hold"
      BY DEF StatusForCase
    <3> QED
      BY <1>1, <1>3, <3>1 DEF Verbs
  <2>3. /\ r.status = "terminal" => kind = "retire"
        /\ kind = "retire" => r.status = "terminal" \/ r.next = NoLabel
        /\ kind = "retire" => stage = NoLabel
    BY <1>1, <1>3 DEF Verbs
  <2> HIDE DEF kind, stage, said
  <2> QED
    BY <1>9, <2>1, <2>2, <2>3 DEF Keeps, Ended
<1>13. BuilderDecision(1, r) = said
  <2>1. /\ given = Written(r, r.status, r.decision, r.actionability, r.override,
                          r.current, r.next, r.remaining)
        /\ Shaped(given)
    <3>1. given = [r EXCEPT !.active = r.current]
      OBVIOUS
    <3> HIDE DEF given
    <3> QED
      BY <1>2, <3>1 DEF Written, Shaped
  <2>2. /\ given.current = r.current /\ given.active = r.current /\ given.next = r.next
        /\ given.remaining = r.remaining /\ given.exit = r.exit /\ given.delay = r.delay
        /\ given.decision = r.decision
    <3> HIDE DEF given
    <3> QED
      BY <2>1 DEF Written
  <2>3. BuilderDecision(1, r) = ActivationBuilder(r)
    BY DEF BuilderDecision
  <2> DEFINE goes == Goes(given, <<"activate_next", "stage">>, "activate")
  <2>4. ActivationBuilder(r) =
          IF kind = "retire" THEN Ends(given, <<"retire", "line">>, "retire")
          ELSE IF kind = "buffer" THEN Waits(given, <<"buffer_current", "stage">>)
          ELSE IF kind = "pause" THEN Stops(given, <<"hold_current", "stage">>, "hold")
          ELSE [goes EXCEPT !.active = given.next]
    <3>1. ActivationBuilder(r) = CASE given.decision = ResolutionDecision("retire") ->
         Ends(given, <<"retire", "line">>, "retire")
    [] given.decision = ResolutionDecision("buffer") ->
         Waits(given, <<"buffer_current", "stage">>)
    [] given.decision = ResolutionDecision("hold") ->
         Stops(given, <<"hold_current", "stage">>, "hold")
    [] given.decision = ResolutionDecision("continue") ->
         IF given.next = NoLabel THEN Ends(given, <<"retire", "line">>, "retire")
         ELSE [goes EXCEPT !.active = given.next]
    [] OTHER -> FallsBack(given, <<"hold_current", "stage">>, "hold")
      BY DEF ActivationBuilder
    <3> HIDE DEF given, goes
    <3> QED
      BY <1>1, <2>2, <3>1 DEF ResolutionDecision, Verbs
  <2>5. CASE kind = "retire"
    <3>1. ActivationBuilder(r)
            = Written(given, "terminal", <<"retire", "line">>, "retire", "terminal",
                      NoLabel, NoLabel, 0)
      BY <2>1, <2>4, <2>5, EndsWritten
    <3>2. stage = NoLabel
      BY <2>5
    <3> HIDE DEF kind, stage, case, said, given
    <3> QED
      BY <1>7, <1>8, <2>2, <2>3, <2>5, <3>1, <3>2 DEF Written, Case
  <2>6. CASE kind = "buffer"
    <3>1. ActivationBuilder(r)
            = Written(given, "scheduled", <<"buffer_current", "stage">>, "buffer", "scheduled",
                      given.active, given.next, given.remaining)
      <4> HIDE DEF kind, given
      <4> QED
        BY <2>1, <2>4, <2>6, BecomesWritten DEF Waits
    <3>2. stage = r.current
      BY <2>6
    <3> HIDE DEF kind, stage, case, said, given
    <3> QED
      BY <1>7, <1>8, <2>2, <2>3, <2>6, <3>1, <3>2 DEF Written, Case
  <2>7. CASE kind = "pause"
    <3>1. ActivationBuilder(r)
            = Written(given, "hold", <<"hold_current", "stage">>, "hold", "hold",
                      given.active, given.next, given.remaining)
      <4> HIDE DEF kind, given
      <4> QED
        BY <2>1, <2>4, <2>7, BecomesWritten DEF Stops
    <3>2. stage = r.current
      BY <2>7
    <3> HIDE DEF kind, stage, case, said, given
    <3> QED
      BY <1>7, <1>8, <2>2, <2>3, <2>7, <3>1, <3>2 DEF Written, Case
  <2>8. CASE kind = "active"
    <3>1. goes = Written(given, "active", <<"activate_next", "stage">>, "activate", "none",
                         given.active, given.next, given.remaining)
      <4> HIDE DEF given
      <4> QED
        BY <2>1, BecomesWritten DEF Goes
    <3>2. stage = r.next
      BY <2>8
    <3>3. ActivationBuilder(r) = [goes EXCEPT !.active = given.next]
      <4> HIDE DEF kind, given, goes
      <4> QED
        BY <2>4, <2>8
    <3> HIDE DEF kind, stage, case, said, given, goes
    <3>4. ActivationBuilder(r)
            = Written(given, "active", <<"activate_next", "stage">>, "activate", "none",
                      given.next, given.next, given.remaining)
      BY <3>1, <3>3 DEF Written
    <3> QED
      BY <1>7, <1>8, <2>2, <2>3, <2>8, <3>2, <3>4 DEF Written, Case
  <2> HIDE DEF kind
  <2> QED
    BY <1>4, <2>5, <2>6, <2>7, <2>8
<1>14. verb = "retire" => kind = "retire"
  BY <1>1 DEF Verbs
<1> HIDE DEF kind, said
<1>15. \E kind_ \in Kinds : kind_ # "close" /\ Says(1, kind_, said)
  BY <1>4, <1>11 DEF Kinds
<1>16. verb = "retire" => Says(1, "retire", said)
  BY <1>11, <1>14
<1> QED
  BY <1>2, <1>12, <1>13, <1>15, <1>16 DEF said

-----------------------------------------------------------------------------
(* Along the chain. *)

LEMMA ChainSteps ==
  ASSUME NEW r
  PROVE  /\ DOMAIN Chain(r) = 1 .. 53 /\ Chain(r)[1] = r
         /\ \A k \in 1 .. 52 : Chain(r)[k + 1] = PhaseDecision(k, Chain(r)[k])
<1> DEFINE chain == Chain(r)
<1>1. chain = [k \in 1 .. 53 |-> IF k = 1 THEN r ELSE PhaseDecision(k - 1, chain[k - 1])]
  BY ChainByPhase, ThereAre52Phases
<1> HIDE DEF chain
<1>2. ASSUME NEW k \in 1 .. 52
      PROVE  chain[k + 1] = PhaseDecision(k, chain[k])
  <2>1. chain[k + 1] = IF k + 1 = 1 THEN r ELSE PhaseDecision(k + 1 - 1, chain[k + 1 - 1])
    BY <1>1
  <2>2. k + 1 # 1 /\ k + 1 - 1 = k
    OBVIOUS
  <2> QED
    BY <2>1, <2>2
<1>3. DOMAIN chain = 1 .. 53 /\ chain[1] = r
  BY <1>1
<1> QED
  BY <1>2, <1>3 DEF chain

(* The case in which phase k decides. *)
DecidesIn(k, kind, r) == (k = 1 => kind # "close") /\ Says(k, kind, Chain(r)[k + 1])

LEMMA EachPhaseDecides ==
  ASSUME NEW r, NEW verb, Resolves(verb, r)
  PROVE  \A k \in 1 .. 52 : \E kind \in Kinds :
           DecidesIn(k, kind, r) /\ (verb = "retire" => kind \in {"close", "retire"})
<1> DEFINE Decides(k, kind) ==
             DecidesIn(k, kind, r) /\ (verb = "retire" => kind \in {"close", "retire"})
           S == {k \in 1 .. 52 : \E kind \in Kinds : Decides(k, kind)}
<1>1. 1 \in S
  <2>1. Chain(r)[1 + 1] = PhaseDecision(1, r)
    BY ChainSteps
  <2>2. PICK kind \in Kinds : kind # "close" /\ Says(1, kind, Chain(r)[1 + 1])
    BY <2>1, FirstPhase
  <2>3. verb = "retire" => Says(1, "retire", Chain(r)[1 + 1])
    BY <2>1, FirstPhase
  <2> HIDE DEF Says
  <2>4. CASE verb = "retire"
    BY <2>3, <2>4 DEF DecidesIn, Kinds
  <2>5. CASE verb # "retire"
    BY <2>2, <2>5 DEF DecidesIn
  <2> QED
    BY <2>4, <2>5
<1>2. ASSUME NEW k \in 1 .. 51, k \in S
      PROVE  k + 1 \in S
  <2>1. PICK kind \in Kinds : Decides(k, kind)
    BY <1>2
  <2> DEFINE n == k + 1
             prev == Chain(r)[n]
             goes == After(n, kind, prev)
  <2>2. n \in 2 .. 52 /\ n - 1 = k /\ (n = 2 => k = 1)
    OBVIOUS
  <2>3. Chain(r)[n + 1] = PhaseDecision(n, prev)
    BY <2>2, ChainSteps
  <2> HIDE DEF n
  <2>4. Says(n - 1, kind, prev) /\ (n = 2 => kind # "close")
    BY <2>1, <2>2 DEF DecidesIn, n
  <2>5. Says(n, goes, Chain(r)[n + 1])
    BY <2>2, <2>3, <2>4, SaysAfter
  <2>6. goes \in Kinds /\ (verb = "retire" => goes \in {"close", "retire"})
    BY <2>1 DEF After, Kinds
  <2> HIDE DEF goes, prev
  <2>7. Decides(n, goes)
    BY <2>2, <2>5, <2>6 DEF DecidesIn
  <2>8. n \in S
    BY <2>2, <2>6, <2>7
  <2> QED
    BY <2>8 DEF n
<1>3. 1 .. 51 + 1 \subseteq S
  <2> HIDE DEF S
  <2> QED
    BY <1>1, <1>2, PhaseInduction
<1>4. 1 .. 52 \subseteq S
  BY <1>3
<1> QED
  BY <1>4

(* From phase to phase. *)
LEMMA EachPhaseFollows ==
  ASSUME NEW r, NEW verb, Resolves(verb, r), NEW k \in 1 .. 52
  PROVE  /\ BuilderDecision(k, Chain(r)[k]) = Chain(r)[k + 1]
         /\ Keeps(Chain(r)[k], Chain(r)[k + 1])
<1> DEFINE prev == Chain(r)[k]
<1>1. Chain(r)[k + 1] = PhaseDecision(k, prev) /\ Chain(r)[1] = r
  BY ChainSteps
<1>2. CASE k = 1
  BY <1>1, <1>2, FirstPhase
<1>3. CASE k # 1
  <2> DEFINE j == k - 1
  <2>1. k \in 2 .. 52 /\ j \in 1 .. 52 /\ j + 1 = k /\ (k = 2 => j = 1)
    BY <1>3
  <2> HIDE DEF j
  <2>2. PICK kind \in Kinds : DecidesIn(j, kind, r)
    BY <2>1, EachPhaseDecides
  <2>3. Says(k - 1, kind, prev) /\ (k = 2 => kind # "close")
    BY <2>1, <2>2 DEF DecidesIn, j
  <2> HIDE DEF prev
  <2> QED
    BY <1>1, <2>1, <2>3, SaysAfter, BuilderAfter DEF prev
<1> QED
  BY <1>2, <1>3

(* The builders, one after the other, come to the machine's chain. *)
LEMMA BuildersAgreeOnResolutions ==
  ASSUME NEW r, NEW verb, Resolves(verb, r)
  PROVE  AgreesOn(r)
<1> DEFINE Built(s) ==
             s = [k \in 1 .. 53 |-> IF k = 1 THEN r ELSE BuilderDecision(k - 1, s[k - 1])]
           chain == Chain(r)
           built == BuiltChain(r)
<1>1. Built(chain)
  <2>1. chain = [k \in 1 .. 53 |-> IF k = 1 THEN r ELSE PhaseDecision(k - 1, chain[k - 1])]
    BY ChainByPhase, ThereAre52Phases
  <2>2. \A k \in 1 .. 53 : k # 1 => BuilderDecision(k - 1, chain[k - 1]) = chain[k]
    <3> TAKE k \in 1 .. 53
    <3> HAVE k # 1
    <3> DEFINE j == k - 1
    <3>1. j \in 1 .. 52 /\ j + 1 = k
      OBVIOUS
    <3> HIDE DEF j
    <3>2. BuilderDecision(j, chain[j]) = chain[j + 1]
      BY <3>1, EachPhaseFollows
    <3> QED
      BY <3>1, <3>2 DEF j
  <2> HIDE DEF chain
  <2>3. chain = [k \in 1 .. 53 |-> chain[k]] /\ chain[1] = r
    BY <2>1
  <2> QED
    BY <2>2, <2>3
<1>2. Built(built)
  <2>1. built = CHOOSE s : s = [k \in 1 .. PhaseCount + 1 |->
                   IF k = 1 THEN r ELSE BuilderDecision(k - 1, s[k - 1])]
    BY DEF BuiltChain
  <2> HIDE DEF built, chain
  <2>2. \E s : s = [k \in 1 .. PhaseCount + 1 |->
                   IF k = 1 THEN r ELSE BuilderDecision(k - 1, s[k - 1])]
    BY <1>1, ThereAre52Phases
  <2>3. built = [k \in 1 .. PhaseCount + 1 |->
                   IF k = 1 THEN r ELSE BuilderDecision(k - 1, built[k - 1])]
    BY <2>1, <2>2
  <2> QED
    BY <2>3, ThereAre52Phases
<1> DEFINE S == {k \in 1 .. 53 : built[k] = chain[k]}
<1> HIDE DEF built, chain
<1>3. 1 \in S
  BY <1>1, <1>2
<1>4. ASSUME NEW k \in 1 .. 52, k \in S
      PROVE  k + 1 \in S
  <2>1. /\ chain[k + 1] = BuilderDecision(k + 1 - 1, chain[k + 1 - 1])
        /\ built[k + 1] = BuilderDecision(k + 1 - 1, built[k + 1 - 1])
    BY <1>1, <1>2
  <2>2. k + 1 - 1 = k /\ built[k] = chain[k]
    BY <1>4
  <2> QED
    BY <2>1, <2>2
<1>5. 1 .. 52 + 1 \subseteq S
  <2> HIDE DEF S
  <2> QED
    BY <1>3, <1>4, PhaseInduction
<1>6. \A k \in 1 .. 53 : built[k] = chain[k]
  BY <1>5
<1>7. built = chain
  BY <1>1, <1>2, <1>6
<1> QED
  BY <1>7 DEF AgreesOn, built, chain

LEMMA PostureKeptByResolutions ==
  ASSUME NEW r, NEW verb, Resolves(verb, r)
  PROVE  KeepsAlong(r)
  BY EachPhaseFollows, ThereAre52Phases DEF KeepsAlong

(* The same for the resolution. *)
LEMMA TheListingReadsTheResolution ==
  /\ PhaseOverrides[53].terminates = {<<"retire", "resolution">>}
  /\ PhaseOverrides[53].holds = {<<"hold", "resolution">>}
  /\ PhaseOverrides[53].buffers = {<<"buffer", "resolution">>}
<1>1. PhaseOverrides[53] = ActivationOverrides[17]
  BY DEF PhaseOverrides, FoundationOverrides, HeritageOverrides,
         CertificationOverrides, StewardshipOverrides, ActivationOverrides
<1>2. /\ ActivationOverrides[17].terminates = {<<"retire", "resolution">>}
      /\ ActivationOverrides[17].holds = {<<"hold", "resolution">>}
      /\ ActivationOverrides[17].buffers = {<<"buffer", "resolution">>}
  BY DEF ActivationOverrides, Reads
<1> QED
  BY <1>1, <1>2

Read(reads, said) ==
  /\ said.status = "terminal" <=> said.decision \in reads.terminates
  /\ said.status = "hold" <=> said.decision \in reads.holds
  /\ said.status = "scheduled" <=> said.decision \in reads.buffers

LEMMA DecisionsAreRead ==
  ASSUME NEW k \in 1 .. 52, NEW kind, NEW said, Says(k, kind, said), k = 1 => kind # "close",
         NEW reads, Follows(reads, k)
  PROVE  Read(reads, said)
<1> DEFINE p == PostDispatchPhases[k]
<1>1. /\ reads.terminates = IF k = 1 THEN {<<"retire", "line">>}
                            ELSE {<<"retire", p>>, IF k = 2 THEN <<"close", p>>
                                  ELSE IF k \in {3, 4} THEN <<"close_loop", p>>
                                  ELSE <<"archive", p>>}
      /\ reads.holds = {IF k = 1 THEN <<"hold_current", "stage">>
                        ELSE IF k = 2 THEN <<"hold", p>> ELSE <<"pause", p>>}
      /\ reads.buffers = {IF k = 1 THEN <<"buffer_current", "stage">> ELSE <<"buffer", p>>}
  BY NamedPhases DEF Follows, CloseCase, RetireCase, PauseCase, BufferCase, Case
<1>2. ActiveCaseRows[k][2] \notin Stopping
  BY ActiveRowsGoOn
<1>3. kind \in Kinds
  BY DEF Says
<1> HIDE DEF p
<1> USE DEF Read
<1>4. CASE kind = "active"
  <2>1. /\ said.status = "active"
        /\ said.decision = <<ActiveCaseRows[k][2], ActiveCaseRows[k][3]>>
    BY <1>4, SaysActive
  <2>2. \A words \in {reads.terminates, reads.holds, reads.buffers} :
          \A word \in words : word[1] \in Stopping
    BY <1>1 DEF Stopping
  <2>3. said.decision[1] \notin Stopping
    BY <1>2, <2>1
  <2>4. said.decision \notin reads.terminates \cup reads.holds \cup reads.buffers
    BY <2>2, <2>3
  <2> QED
    BY <2>1, <2>4
<1>5. CASE kind = "buffer"
  <2>1. Says(k, "buffer", said)
    BY <1>5
  <2>2. CASE k = 1
    <3>1. said.status = "scheduled" /\ said.decision = <<"buffer_current", "stage">>
      BY <2>1, <2>2, SaysBuffer DEF p
    <3> QED
      BY <1>1, <2>2, <3>1
  <2>3. CASE k = 2
    <3>1. said.status = "scheduled" /\ said.decision = <<"buffer", p>>
      BY <2>1, <2>3, SaysBuffer DEF p
    <3> QED
      BY <1>1, <2>3, <3>1
  <2>4. CASE k \in {3, 4}
    <3>1. said.status = "scheduled" /\ said.decision = <<"buffer", p>>
      BY <2>1, <2>4, SaysBuffer DEF p
    <3> QED
      BY <1>1, <2>4, <3>1
  <2>5. CASE k \in 5 .. 52
    <3>1. said.status = "scheduled" /\ said.decision = <<"buffer", p>>
      BY <2>1, <2>5, SaysBuffer DEF p
    <3> QED
      BY <1>1, <2>5, <3>1
  <2> QED
    BY <2>2, <2>3, <2>4, <2>5
<1>6. CASE kind = "pause"
  <2>1. Says(k, "pause", said)
    BY <1>6
  <2>2. CASE k = 1
    <3>1. said.status = "hold" /\ said.decision = <<"hold_current", "stage">>
      BY <2>1, <2>2, SaysPause DEF p
    <3> QED
      BY <1>1, <2>2, <3>1
  <2>3. CASE k = 2
    <3>1. said.status = "hold" /\ said.decision = <<"hold", p>>
      BY <2>1, <2>3, SaysPause DEF p
    <3> QED
      BY <1>1, <2>3, <3>1
  <2>4. CASE k \in {3, 4}
    <3>1. said.status = "hold" /\ said.decision = <<"pause", p>>
      BY <2>1, <2>4, SaysPause DEF p
    <3> QED
      BY <1>1, <2>4, <3>1
  <2>5. CASE k \in 5 .. 52
    <3>1. said.status = "hold" /\ said.decision = <<"pause", p>>
      BY <2>1, <2>5, SaysPause DEF p
    <3> QED
      BY <1>1, <2>5, <3>1
  <2> QED
    BY <2>2, <2>3, <2>4, <2>5
<1>7. CASE kind = "close"
  <2>1. Says(k, "close", said)
    BY <1>7
  <2>2. k # 1
    BY <1>7
  <2>3. CASE k = 2
    <3>1. said.status = "terminal" /\ said.decision = <<"close", p>>
      BY <2>1, <2>3, SaysClose DEF p
    <3> QED
      BY <1>1, <2>3, <3>1
  <2>4. CASE k \in {3, 4}
    <3>1. said.status = "terminal" /\ said.decision = <<"close_loop", p>>
      BY <2>1, <2>4, SaysClose DEF p
    <3> QED
      BY <1>1, <2>4, <3>1
  <2>5. CASE k \in 5 .. 52
    <3>1. said.status = "terminal" /\ said.decision = <<"archive", p>>
      BY <2>1, <2>5, SaysClose DEF p
    <3> QED
      BY <1>1, <2>5, <3>1
  <2> QED
    BY <2>2, <2>3, <2>4, <2>5
<1>8. CASE kind = "retire"
  <2>1. Says(k, "retire", said)
    BY <1>8
  <2>2. CASE k = 1
    <3>1. said.status = "terminal" /\ said.decision = <<"retire", "line">>
      BY <2>1, <2>2, SaysRetire DEF p
    <3> QED
      BY <1>1, <2>2, <3>1
  <2>3. CASE k = 2
    <3>1. said.status = "terminal" /\ said.decision = <<"retire", p>>
      BY <2>1, <2>3, SaysRetire DEF p
    <3> QED
      BY <1>1, <2>3, <3>1
  <2>4. CASE k \in {3, 4}
    <3>1. said.status = "terminal" /\ said.decision = <<"retire", p>>
      BY <2>1, <2>4, SaysRetire DEF p
    <3> QED
      BY <1>1, <2>4, <3>1
  <2>5. CASE k \in 5 .. 52
    <3>1. said.status = "terminal" /\ said.decision = <<"retire", p>>
      BY <2>1, <2>5, SaysRetire DEF p
    <3> QED
      BY <1>1, <2>5, <3>1
  <2> QED
    BY <2>2, <2>3, <2>4, <2>5
<1> QED
  BY <1>3, <1>4, <1>5, <1>6, <1>7, <1>8 DEF Kinds

LEMMA ResolutionsAreUnderstood ==
  ASSUME NEW r, NEW verb, Resolves(verb, r)
  PROVE  IsUnderstood(r)
<1> DEFINE chain == Chain(r)
<1>1. Read(PhaseOverrides[53], chain[1])
  <2>1. chain[1] = r
    BY ChainSteps
  <2>2. r.decision = <<verb, "resolution">> /\ verb \in Verbs
    BY DEF Resolves, Resolution, ResolutionDecision
  <2>3. /\ verb = "continue" => r.status = "active"
        /\ verb = "buffer" => r.status = "scheduled"
        /\ verb = "hold" => r.status = "hold"
        /\ verb = "retire" => r.status = "terminal"
    BY DEF Resolves, Resolution
  <2> HIDE DEF chain
  <2> QED
    BY <2>1, <2>2, <2>3, TheListingReadsTheResolution DEF Read, Verbs
<1>2. ASSUME NEW k \in 1 .. 52
      PROVE  Read(PhaseOverrides[53 - k], chain[k + 1])
  BY EachPhaseDecides, TheListingFollowsTheTable, DecisionsAreRead DEF DecidesIn
<1>3. ASSUME NEW k \in 1 .. 53
      PROVE  Read(PhaseOverrides[54 - k], chain[k])
  <2>1. CASE k = 1
    BY <1>1, <2>1
  <2>2. CASE k # 1
    <3> DEFINE j == k - 1
    <3>1. j \in 1 .. 52 /\ j + 1 = k /\ 53 - j = 54 - k
      BY <2>2
    <3> HIDE DEF j, chain
    <3> QED
      BY <1>2, <3>1
  <2> QED
    BY <2>1, <2>2
<1> HIDE DEF chain
<1>5. \A k \in 1 .. (PhaseCount + 1) : Read(PhaseOverrides[PhaseCount + 2 - k], chain[k])
  <2> TAKE k \in 1 .. (PhaseCount + 1)
  <2>1. k \in 1 .. 53 /\ PhaseCount + 2 - k = 54 - k
    BY ThereAre52Phases
  <2> QED
    BY <1>3, <2>1
<1> QED
  BY <1>5, Zenon DEF IsUnderstood, Read, chain

(* Whatever a dispatch resolves, the builders and the machine decide the     *)
(* same in all 52 phases, its posture reaches each of them, and the listing  *)
(* reads it there.                                                           *)
THEOREM PosturesGoDown ==
  ASSUME NEW d \in Dispatch
  PROVE  /\ AgreesOn(Posture(d))
         /\ KeepsAlong(Posture(d))
         /\ IsUnderstood(Posture(d))
  BY PosturesResolve, BuildersAgreeOnResolutions, PostureKeptByResolutions,
     ResolutionsAreUnderstood
=============================================================================
