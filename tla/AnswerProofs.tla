---------------------------- MODULE AnswerProofs ----------------------------
(***************************************************************************)
(* What is true of the answer a diagnosis ends in.  Of the Correlator, for *)
(* every set of finding lists and of any length: type correctness, the two *)
(* rules about combining findings, and that the folding loop keeps the     *)
(* promise of VerdictSpec.  Of the verification against AWS, for any VPCs, *)
(* regions, snapshots and requests: its report is earned, what is billed   *)
(* bears on the flow that was asked about, and the path made for it is     *)
(* asked to be deleted.                                                    *)
(***************************************************************************)
EXTENDS Correlate, Verify, VerdictFacts, FiniteSetTheorems, WellFoundedInduction, TLAPS

-----------------------------------------------------------------------------
(* A nonempty set of natural numbers has a least member: what "the first    *)
(* position at which ..." needs in order to exist.                          *)
LEMMA LeastExists ==
    ASSUME NEW S, S \subseteq Nat, S # {}
    PROVE  \E x \in S : \A y \in S : x <= y
<1> DEFINE Less == { p \in Nat \X Nat : p[1] < p[2] }
<1>1. IsWellFoundedOn(Less, Nat)
  BY NatLessThanWellFounded DEF OpToRel
<1>2. PICK x \in S : \A y \in S : ~(<< y, x >> \in Less)
  BY <1>1, WFMin, Zenon
<1>3. ASSUME NEW y \in S
      PROVE  x <= y
  <2>1. ~(<< y, x >> \in Less)
    BY <1>2
  <2>2. << y, x >> \in Less <=> y < x
    OBVIOUS
  <2>3. x \in Nat /\ y \in Nat
    OBVIOUS
  <2> HIDE DEF Less
  <2>4. QED
    BY <2>1, <2>2, <2>3
<1>4. QED
  BY <1>3

-----------------------------------------------------------------------------
(* The inductive invariant: the fold keeps, for every Layer, exactly what   *)
(* the findings merged so far say of it.                                    *)

Heard(l, v) == \E i \in 1 .. merged : input[i].layer = l /\ input[i].verdict = v

StrongestHeard(l) == IF Heard(l, "blocked") THEN "blocked"
                     ELSE IF Heard(l, "abstain") THEN "abstain"
                     ELSE IF Heard(l, "pass") THEN "pass" ELSE "none"

CitedFor(l)    == { i \in 1 .. merged : input[i].layer = l /\ input[i].cited }
ReasonedFor(l) == { i \in 1 .. merged : input[i].layer = l /\ input[i].reasoned }

Tally == \A l \in Layer : byLayer[l] = [verdict |-> StrongestHeard(l),
                                        cites   |-> CitedFor(l),
                                        reasons |-> ReasonedFor(l)]

PhaseInv ==
    /\ phase \in {"validate", "refused"} => merged = 0
    /\ phase \in {"aggregate", "done"} => Usable
    /\ phase = "refused" => ~Usable
    /\ phase = "done" => merged = Len(input) /\ verdict = Conclusion
    /\ phase # "done" => verdict = NoVerdict

IInv ==
    /\ input \in Inputs /\ observations \in ObservationLists
    /\ TypeOK
    /\ Tally
    /\ PhaseInv

-----------------------------------------------------------------------------
(* What PrimaryBlocker, ProbableCause, Conclusion and Valid come to.        *)

LEMMA PrimaryBlockerFirst ==
    /\ PrimaryBlocker = NoLayer <=> With("blocked") = {}
    /\ With("blocked") # {} =>
         /\ PrimaryBlocker \in With("blocked")
         /\ \A m \in With("blocked") : FlowIndex(PrimaryBlocker) <= FlowIndex(m)
<1>1. With("blocked") \subseteq Layer
  BY DEF With
<1>2. QED
  BY <1>1, EarliestIsFirst, NoLayerIsNoLayer DEF PrimaryBlocker

(* A probable cause is a position in the observations, and there is one     *)
(* only when nothing blocked.                                               *)
LEMMA ProbableCauseType ==
    ASSUME observations \in Seq(Observation), NEW primary
    PROVE  /\ ProbableCause(primary) \in 0 .. Len(observations)
           /\ ProbableCause(primary) # NoCause => primary = NoLayer
<1> DEFINE explaining == { i \in DOMAIN observations : Explains(observations[i]) }
<1>1. CASE symptom = None \/ primary # NoLayer \/ explaining = {}
  <2>1. ProbableCause(primary) = NoCause
    BY <1>1 DEF ProbableCause
  <2>2. QED
    BY <2>1 DEF NoCause
<1>2. CASE ~(symptom = None \/ primary # NoLayer \/ explaining = {})
  <2>1. explaining \subseteq 1 .. Len(observations)
    OBVIOUS
  <2>2. PICK first \in explaining : \A j \in explaining : first <= j
    <3>1. explaining \subseteq Nat /\ explaining # {}
      BY <1>2, <2>1
    <3> HIDE DEF explaining
    <3>2. QED
      BY <3>1, LeastExists
  <2>3. ProbableCause(primary) \in explaining
    BY <1>2, <2>2 DEF ProbableCause
  <2>4. QED
    BY <1>2, <2>1, <2>3
<1>3. QED
  BY <1>1, <1>2

(* The last check on the verdict never refuses one that was built from      *)
(* usable findings: its branch is unreachable.                              *)
LEMMA ConclusionValid ==
    ASSUME TypeOK, Tally, Usable
    PROVE  Valid(Conclusion)
<1>1. ASSUME NEW l \in Layer, l \notin With("none")
      PROVE  IF l \in With("abstain") THEN byLayer[l].reasons # {} ELSE byLayer[l].cites # {}
  <2>1. /\ byLayer[l].verdict = StrongestHeard(l)
        /\ byLayer[l].cites = CitedFor(l) /\ byLayer[l].reasons = ReasonedFor(l)
    <3>1. byLayer[l] = [verdict |-> StrongestHeard(l), cites |-> CitedFor(l),
                        reasons |-> ReasonedFor(l)]
      BY DEF Tally
    <3>2. QED
      BY <3>1
  <2>2. PICK i \in 1 .. merged : input[i].layer = l /\ input[i].verdict = StrongestHeard(l)
    BY <1>1, <2>1 DEF With, StrongestHeard, Heard
  <2>3. i \in DOMAIN input
    BY DEF TypeOK
  <2>4. IF StrongestHeard(l) = "abstain" THEN input[i].reasoned ELSE input[i].cited
    BY <2>2, <2>3 DEF Usable, Emittable
  <2>5. QED
    BY <2>1, <2>2, <2>4 DEF With, CitedFor, ReasonedFor
<1>2. ProbableCause(PrimaryBlocker) # NoCause => PrimaryBlocker = NoLayer
  BY ProbableCauseType DEF TypeOK
<1>3. CASE PrimaryBlocker = NoLayer
  BY <1>1, <1>2, <1>3, PrimaryBlockerFirst DEF Valid, Conclusion, AdditionalBlocked
<1>4. CASE PrimaryBlocker # NoLayer
  <2>1. \A l \in With("blocked") : FlowIndex(l) >= FlowIndex(PrimaryBlocker)
    <3>1. With("blocked") \subseteq Layer
      BY DEF With
    <3>2. QED
      BY <1>4, <3>1, PrimaryBlockerFirst, FlowIndexInjective
  <2>2. QED
    BY <1>1, <1>2, <1>4, <2>1, PrimaryBlockerFirst DEF Valid, Conclusion, AdditionalBlocked
<1>5. QED
  BY <1>3, <1>4

-----------------------------------------------------------------------------
(* IInv is inductive.                                                       *)

LEMMA InitIInv == Init => IInv
<1> SUFFICES ASSUME Init
             PROVE  IInv
  OBVIOUS
<1>1. input \in Seq(Finding) /\ observations \in Seq(Observation)
  BY InputsAssumption, ObservationsAssumption DEF Init
<1>2. 1 .. merged = {}
  BY DEF Init
<1>3. Unreported \in LayerResult
  BY DEF Unreported, LayerResult
<1>4. TypeOK
  BY <1>1, <1>3 DEF Init, TypeOK, NoVerdict, NoCause
<1>5. Tally
  <2> SUFFICES ASSUME NEW l \in Layer
               PROVE  byLayer[l] = [verdict |-> StrongestHeard(l), cites |-> CitedFor(l),
                                    reasons |-> ReasonedFor(l)]
    BY DEF Tally
  <2>1. CitedFor(l) = {} /\ ReasonedFor(l) = {}
    BY <1>2 DEF CitedFor, ReasonedFor
  <2>2. StrongestHeard(l) = "none"
    BY <1>2 DEF StrongestHeard, Heard
  <2>3. byLayer[l] = Unreported
    BY DEF Init
  <2>4. QED
    BY <2>1, <2>2, <2>3 DEF Unreported
<1>6. PhaseInv
  BY DEF Init, PhaseInv
<1>7. QED
  BY <1>4, <1>5, <1>6 DEF IInv, Init

LEMMA ValidateIInv ==
    ASSUME IInv, Validate
    PROVE  IInv'
<1>1. UNCHANGED << input, observations, symptom, merged, byLayer, verdict >>
  BY DEF Validate
<1>2. TypeOK'
  BY <1>1 DEF IInv, TypeOK, Validate
<1>3. Tally'
  BY <1>1 DEF IInv, Tally, StrongestHeard, Heard, CitedFor, ReasonedFor
<1>4. Usable' = Usable
  BY <1>1 DEF Usable
<1>5. PhaseInv'
  BY <1>1, <1>4 DEF IInv, PhaseInv, Validate
<1>6. QED
  BY <1>1, <1>2, <1>3, <1>5 DEF IInv

(* Folding one finding in keeps the tally: for its own Layer by the cases   *)
(* of Absorb, for every other because nothing about it changed.             *)
LEMMA AggregateTally ==
    ASSUME IInv, Aggregate
    PROVE  Tally' /\ byLayer' \in [Layer -> LayerResult]
<1> DEFINE n == merged + 1
           f == input[n]
           mine == { k \in {n} : f.cited }
           why  == { k \in {n} : f.reasoned }
<1>1. /\ TypeOK /\ Tally /\ Usable
      /\ input' = input /\ merged' = n /\ merged \in Nat /\ n \in DOMAIN input
      /\ byLayer' = [byLayer EXCEPT ![f.layer] = Absorb(@, f, n)]
  BY DEF IInv, PhaseInv, Aggregate, TypeOK
<1>2. f.layer \in Layer /\ f.verdict \in LayerVerdict
      /\ f.cited \in BOOLEAN /\ f.reasoned \in BOOLEAN
  <2>1. f \in Finding
    BY <1>1 DEF TypeOK
  <2>2. f.layer \in Layer
    BY <1>1 DEF Usable, Emittable
  <2>3. QED
    BY <2>1, <2>2 DEF Finding
<1>3. 1 .. merged' = (1 .. merged) \cup {n} /\ n \notin 1 .. merged
  BY <1>1
<1>4. \A l \in Layer : \A v : Heard(l, v)' <=> Heard(l, v) \/ (f.layer = l /\ f.verdict = v)
  BY <1>1, <1>3 DEF Heard
<1>5. \A l \in Layer : /\ l = f.layer => CitedFor(l)' = CitedFor(l) \cup mine
                       /\ l # f.layer => CitedFor(l)' = CitedFor(l)
  BY <1>1, <1>3 DEF CitedFor
<1>6. \A l \in Layer : /\ l = f.layer => ReasonedFor(l)' = ReasonedFor(l) \cup why
                       /\ l # f.layer => ReasonedFor(l)' = ReasonedFor(l)
  BY <1>1, <1>3 DEF ReasonedFor
<1>7. Alone(f, n) = [verdict |-> f.verdict, cites |-> mine, reasons |-> why]
  BY DEF Alone
<1> HIDE DEF n, f, mine, why
<1>8. ASSUME NEW l \in Layer
      PROVE  byLayer'[l] = [verdict |-> StrongestHeard(l)', cites |-> CitedFor(l)',
                            reasons |-> ReasonedFor(l)']
  <2>0. /\ byLayer[l] = [verdict |-> StrongestHeard(l), cites |-> CitedFor(l),
                         reasons |-> ReasonedFor(l)]
    BY <1>1 DEF Tally
  <2>1. CASE l # f.layer
    <3>1. byLayer'[l] = byLayer[l]
      BY <1>1, <2>1 DEF TypeOK
    <3>2. StrongestHeard(l)' = StrongestHeard(l)
      BY <1>4, <2>1 DEF StrongestHeard
    <3>3. QED
      BY <2>0, <2>1, <3>1, <3>2, <1>5, <1>6
  <2>2. CASE l = f.layer
    <3>1. byLayer'[l] = Absorb(byLayer[l], f, n)
      BY <1>1, <2>2 DEF TypeOK
    <3>2. CASE byLayer[l] = Unreported
      <4>1. StrongestHeard(l) = "none" /\ CitedFor(l) = {} /\ ReasonedFor(l) = {}
        BY <2>0, <3>2 DEF Unreported
      <4>2. ~Heard(l, "blocked") /\ ~Heard(l, "abstain") /\ ~Heard(l, "pass")
        BY <4>1 DEF StrongestHeard
      <4>3. StrongestHeard(l)' = f.verdict
        BY <4>2, <1>4, <1>2, <2>2 DEF StrongestHeard, LayerVerdict
      <4>4. QED
        BY <3>1, <3>2, <4>1, <4>3, <1>5, <1>6, <1>7, <2>2 DEF Absorb
    <3>3. CASE byLayer[l] # Unreported
      <4>1. /\ byLayer[l].verdict = StrongestHeard(l)
            /\ byLayer[l].cites = CitedFor(l) /\ byLayer[l].reasons = ReasonedFor(l)
        BY <2>0
      <4>2. StrongestHeard(l) # "none"
        <5>1. ASSUME ~Heard(l, "blocked"), ~Heard(l, "abstain"), ~Heard(l, "pass")
              PROVE  FALSE
          <6>1. \A i \in 1 .. merged : input[i].layer # l
            <7>1. \A i \in 1 .. merged : input[i].verdict \in LayerVerdict
              <8>1. ASSUME NEW i \in 1 .. merged
                    PROVE  input[i] \in Finding
                BY <1>1 DEF TypeOK
              <8>2. QED
                BY <8>1 DEF Finding
            <7>2. QED
              BY <5>1, <7>1 DEF Heard, LayerVerdict
          <6>2. CitedFor(l) = {} /\ ReasonedFor(l) = {}
            BY <6>1 DEF CitedFor, ReasonedFor
          <6>3. StrongestHeard(l) = "none"
            BY <5>1 DEF StrongestHeard
          <6>4. QED
            BY <2>0, <3>3, <6>2, <6>3 DEF Unreported
        <5>2. QED
          BY <5>1 DEF StrongestHeard
      <4>3. StrongestHeard(l)' = Strongest(StrongestHeard(l), f.verdict)
        BY <4>2, <1>4, <1>2, <2>2 DEF StrongestHeard, Strongest, VerdictRank, LayerVerdict
      <4>4. Absorb(byLayer[l], f, n) = Merge(byLayer[l], Alone(f, n))
        BY <3>3 DEF Absorb
      <4>5. Merge(byLayer[l], Alone(f, n)) =
              [verdict |-> Strongest(StrongestHeard(l), f.verdict),
               cites   |-> CitedFor(l) \cup mine,
               reasons |-> ReasonedFor(l) \cup why]
        BY <4>1, <1>7 DEF Merge
      <4>6. QED
        BY <3>1, <4>3, <4>4, <4>5, <1>5, <1>6, <2>2
    <3>4. QED
      BY <3>2, <3>3
  <2>3. QED
    BY <2>1, <2>2
<1>9. Tally'
  BY <1>8 DEF Tally
<1>10. byLayer' \in [Layer -> LayerResult]
  <2>1. byLayer' = [l \in Layer |-> byLayer'[l]]
    BY <1>1 DEF TypeOK
  <2>2. ASSUME NEW l \in Layer
        PROVE  byLayer'[l] \in LayerResult
    <3>1. StrongestHeard(l)' \in LayerVerdict \cup {"none"}
      BY DEF StrongestHeard, LayerVerdict
    <3>2. CitedFor(l)' \subseteq Nat /\ ReasonedFor(l)' \subseteq Nat
      BY <1>1 DEF CitedFor, ReasonedFor
    <3>3. \A v \in LayerVerdict \cup {"none"}, c, r \in SUBSET Nat :
              [verdict |-> v, cites |-> c, reasons |-> r] \in LayerResult
      BY DEF LayerResult
    <3>4. QED
      BY <1>8, <3>1, <3>2, <3>3
  <2>3. QED
    BY <2>1, <2>2
<1>11. QED
  BY <1>9, <1>10

LEMMA AggregateIInv ==
    ASSUME IInv, Aggregate
    PROVE  IInv'
<1>1. UNCHANGED << input, observations, symptom, phase, verdict >>
  BY DEF Aggregate
<1>2. phase = "aggregate" /\ merged' = merged + 1 /\ merged < Len(input)
  BY DEF Aggregate
<1>3. Tally' /\ byLayer' \in [Layer -> LayerResult]
  BY AggregateTally
<1>4. TypeOK'
  BY <1>1, <1>2, <1>3 DEF IInv, TypeOK
<1>5. Usable' = Usable
  BY <1>1 DEF Usable
<1>6. PhaseInv'
  BY <1>1, <1>2, <1>5 DEF IInv, PhaseInv
<1>7. QED
  BY <1>1, <1>3, <1>4, <1>6 DEF IInv

(* What Conclude does in a reachable state: it never refuses.               *)
LEMMA ConcludeAnswers ==
    ASSUME IInv, Conclude
    PROVE  /\ phase = "aggregate" /\ phase' = "done" /\ verdict' = Conclusion
           /\ merged = Len(input) /\ Usable
           /\ UNCHANGED << input, observations, symptom, merged, byLayer >>
<1>1. TypeOK /\ Tally /\ Usable
  BY DEF IInv, PhaseInv, Conclude
<1>2. Valid(Conclusion)
  BY <1>1, ConclusionValid
<1>3. QED
  BY <1>1, <1>2 DEF Conclude

LEMMA ConcludeIInv ==
    ASSUME IInv, Conclude
    PROVE  IInv'
<1>1. /\ phase' = "done" /\ verdict' = Conclusion /\ merged = Len(input) /\ Usable
      /\ UNCHANGED << input, observations, symptom, merged, byLayer >>
  BY ConcludeAnswers
<1>2. Tally'
  BY <1>1 DEF IInv, Tally, StrongestHeard, Heard, CitedFor, ReasonedFor
<1>3. Conclusion' = Conclusion
  BY <1>1 DEF Conclusion, PrimaryBlocker, AdditionalBlocked, With, ProbableCause,
              Explains, Contradictions, AllPermitted, ConclusionAffecting
<1>4. Usable' = Usable
  BY <1>1 DEF Usable
<1>5. PhaseInv'
  BY <1>1, <1>3, <1>4 DEF PhaseInv
<1>6. TypeOK'
  <2>1. With("blocked") \subseteq Layer
    BY DEF With
  <2>2. PrimaryBlocker \in Layer \cup {NoLayer}
    BY <2>1, PrimaryBlockerFirst
  <2>3. AdditionalBlocked \subseteq Layer
    BY <2>1 DEF AdditionalBlocked
  <2>4. ProbableCause(PrimaryBlocker) \in 0 .. Len(observations)
    BY ProbableCauseType DEF IInv, TypeOK
  <2>5. /\ Conclusion.primary = PrimaryBlocker
        /\ Conclusion.additional = AdditionalBlocked
        /\ Conclusion.cause = ProbableCause(PrimaryBlocker)
        /\ Conclusion.authoritative \in BOOLEAN
    BY DEF Conclusion
  <2>6. QED
    BY <1>1, <2>2, <2>3, <2>4, <2>5 DEF IInv, TypeOK
<1>7. QED
  BY <1>1, <1>2, <1>5, <1>6 DEF IInv

LEMMA StutterIInv ==
    ASSUME IInv, UNCHANGED vars
    PROVE  IInv'
<1>1. UNCHANGED << input, observations, symptom, phase, merged, byLayer, verdict >>
  BY DEF vars
<1>2. TypeOK'
  BY <1>1 DEF IInv, TypeOK
<1>3. Tally'
  BY <1>1 DEF IInv, Tally, StrongestHeard, Heard, CitedFor, ReasonedFor
<1>4. Conclusion' = Conclusion
  BY <1>1 DEF Conclusion, PrimaryBlocker, AdditionalBlocked, With, ProbableCause,
              Explains, Contradictions, AllPermitted, ConclusionAffecting
<1>5. Usable' = Usable
  BY <1>1 DEF Usable
<1>6. PhaseInv'
  BY <1>1, <1>4, <1>5 DEF IInv, PhaseInv
<1>7. QED
  BY <1>1, <1>2, <1>3, <1>6 DEF IInv

LEMMA Inductive == Spec => []IInv
<1>1. ASSUME IInv, [Next]_vars
      PROVE  IInv'
  <2>1. CASE Validate
    BY <1>1, <2>1, ValidateIInv
  <2>2. CASE Aggregate
    BY <1>1, <2>2, AggregateIInv
  <2>3. CASE Conclude
    BY <1>1, <2>3, ConcludeIInv
  <2>4. CASE UNCHANGED vars
    BY <1>1, <2>4, StutterIInv
  <2>5. QED
    BY <1>1, <2>1, <2>2, <2>3, <2>4 DEF Next
<1>2. QED
  BY <1>1, InitIInv, PTL DEF Spec

-----------------------------------------------------------------------------
(* The theorems.                                                            *)

(* Type correctness: for finding lists of any length, every variable of the *)
(* Correlator keeps to its type (Correlate, aggregate, probableCause).      *)
THEOREM TypeCorrect == Spec => []TypeOK
<1>1. IInv => TypeOK
  BY DEF IInv
<1>2. QED
  BY <1>1, Inductive, PTL

(* An abstention is never combined into a pass (aggregate, strongest),      *)
(* however many findings about its Layer arrive and in whatever order.      *)
THEOREM NeverCleared == Spec => []AbstentionNeverCleared
<1>1. ASSUME IInv
      PROVE  AbstentionNeverCleared
  <2> SUFFICES ASSUME NEW i \in 1 .. merged, input[i].verdict = "abstain"
               PROVE  /\ byLayer[input[i].layer].verdict \in {"abstain", "blocked"}
                      /\ i \in byLayer[input[i].layer].reasons
    BY DEF AbstentionNeverCleared
  <2> DEFINE l == input[i].layer
  <2>1. i \in DOMAIN input /\ Usable
    BY <1>1 DEF IInv, TypeOK, PhaseInv
  <2>2. l \in Layer /\ input[i].reasoned
    BY <2>1 DEF Usable, Emittable
  <2>3. byLayer[l] = [verdict |-> StrongestHeard(l), cites |-> CitedFor(l),
                      reasons |-> ReasonedFor(l)]
    BY <1>1, <2>2 DEF IInv, Tally
  <2>4. Heard(l, "abstain")
    BY DEF Heard
  <2>5. StrongestHeard(l) \in {"abstain", "blocked"}
    BY <2>4 DEF StrongestHeard
  <2>6. i \in ReasonedFor(l)
    BY <2>2 DEF ReasonedFor
  <2>7. QED
    BY <2>3, <2>5, <2>6
<1>2. QED
  BY <1>1, Inductive, PTL

(* Combining findings loses no citation and misfiles none (merge).          *)
THEOREM EvidenceKept == Spec => []EvidenceSurvives
<1>1. ASSUME IInv
      PROVE  EvidenceSurvives
  <2> SUFFICES ASSUME NEW l \in Layer
               PROVE  byLayer[l].cites = { i \in 1 .. merged :
                                             input[i].layer = l /\ input[i].cited }
    BY DEF EvidenceSurvives
  <2>1. byLayer[l] = [verdict |-> StrongestHeard(l), cites |-> CitedFor(l),
                      reasons |-> ReasonedFor(l)]
    BY <1>1 DEF IInv, Tally
  <2>2. QED
    BY <2>1 DEF CitedFor
<1>2. QED
  BY <1>1, Inductive, PTL

(* A failure the operator saw is accounted for: once answered, the verdict  *)
(* contradicts the Symptom exactly when every finding was a pass and no     *)
(* observation explains it (contradictions, correlate.go), whatever the     *)
(* number and the order of the findings.                                    *)
THEOREM SymptomsAccounted == Spec => []SymptomAccountedFor
<1>1. ASSUME IInv
      PROVE  SymptomAccountedFor
  <2> SUFFICES ASSUME phase = "done", symptom # None
               PROVE  "all_permitted" \in verdict.contradictions
                        <=> /\ \A i \in DOMAIN input : input[i].verdict = "pass"
                            /\ verdict.cause = NoCause
    BY DEF SymptomAccountedFor
  <2> DEFINE primary == PrimaryBlocker
             cause   == ProbableCause(primary)
  <2>1. merged = Len(input) /\ verdict = Conclusion /\ Usable
    BY <1>1 DEF IInv, PhaseInv
  <2>2. verdict.contradictions = Contradictions(primary, cause) /\ verdict.cause = cause
    BY <2>1 DEF Conclusion
  <2>3. 1 .. merged = DOMAIN input
    BY <1>1, <2>1 DEF IInv, TypeOK
  <2>4. \A i \in DOMAIN input : input[i].layer \in Layer /\ input[i].verdict \in LayerVerdict
    <3> SUFFICES ASSUME NEW i \in DOMAIN input
                 PROVE  input[i].layer \in Layer /\ input[i].verdict \in LayerVerdict
      OBVIOUS
    <3>1. input[i] \in Finding
      BY <1>1 DEF IInv, TypeOK
    <3>2. QED
      BY <2>1, <3>1 DEF Finding, Usable, Emittable
  <2>5. \A l \in Layer : byLayer[l].verdict = StrongestHeard(l)
    <3> SUFFICES ASSUME NEW l \in Layer
                 PROVE  byLayer[l].verdict = StrongestHeard(l)
      OBVIOUS
    <3>1. byLayer[l] = [verdict |-> StrongestHeard(l), cites |-> CitedFor(l),
                        reasons |-> ReasonedFor(l)]
      BY <1>1 DEF IInv, Tally
    <3>2. QED
      BY <3>1
  <2>6. "all_permitted" \in Contradictions(primary, cause) <=> AllPermitted(primary, cause)
    <3>1. "all_permitted" \notin Layer
      BY DEF Layer, FlowOrder
    <3>2. QED
      BY <3>1 DEF Contradictions, With
  <2>7. (With("blocked") = {} /\ With("abstain") = {})
           <=> \A i \in DOMAIN input : input[i].verdict = "pass"
    <3>1. ASSUME With("blocked") = {}, With("abstain") = {}, NEW i \in DOMAIN input
          PROVE  input[i].verdict = "pass"
      <4> DEFINE l == input[i].layer
      <4>1. l \in Layer /\ StrongestHeard(l) # "blocked" /\ StrongestHeard(l) # "abstain"
        BY <2>4, <2>5, <3>1 DEF With
      <4>2. Heard(l, input[i].verdict)
        BY <2>3 DEF Heard
      <4>3. input[i].verdict # "blocked" /\ input[i].verdict # "abstain"
        BY <4>1, <4>2 DEF StrongestHeard
      <4>4. QED
        BY <2>4, <4>3 DEF LayerVerdict
    <3>2. ASSUME \A i \in DOMAIN input : input[i].verdict = "pass", NEW l \in Layer
          PROVE  StrongestHeard(l) \in {"pass", "none"}
      <4>1. ~Heard(l, "blocked") /\ ~Heard(l, "abstain")
        BY <2>3, <3>2 DEF Heard
      <4>2. QED
        BY <4>1 DEF StrongestHeard
    <3>3. QED
      BY <2>5, <3>1, <3>2 DEF With
  <2>8. primary = NoLayer <=> With("blocked") = {}
    BY PrimaryBlockerFirst
  <2> HIDE DEF primary, cause
  <2>9. AllPermitted(primary, cause)
           <=> (\A i \in DOMAIN input : input[i].verdict = "pass") /\ cause = NoCause
    BY <2>7, <2>8 DEF AllPermitted
  <2>10. QED
    BY <2>2, <2>6, <2>9
<1>2. QED
  BY <1>1, Inductive, PTL

-----------------------------------------------------------------------------
(* The fold implements the promise.                                         *)

LEMMA PromiseInit == Init => Promise!Init
BY DEF Init, Promise!Init, Promise!NoAnswer, Promise!NoLayer, NoLayer

(* Once everything is folded in, the sets Conclude reads off byLayer are    *)
(* the ones the promise defines on the findings.                            *)
LEMMA FoldedSets ==
    ASSUME IInv, merged = Len(input)
    PROVE  /\ With("blocked") = Promise!ShownBlocked
           /\ With("abstain") = Promise!Unverified
           /\ With("pass")    = Promise!Cleared
<1>1. 1 .. merged = DOMAIN input
  BY DEF IInv, TypeOK
<1>2. \A l \in Layer : \A v : Heard(l, v) <=> Promise!Reported(l, v)
  BY <1>1 DEF Heard, Promise!Reported
<1>3. \A l \in Layer : byLayer[l].verdict = StrongestHeard(l)
  <2> SUFFICES ASSUME NEW l \in Layer
               PROVE  byLayer[l].verdict = StrongestHeard(l)
    OBVIOUS
  <2>1. byLayer[l] = [verdict |-> StrongestHeard(l), cites |-> CitedFor(l),
                      reasons |-> ReasonedFor(l)]
    BY DEF IInv, Tally
  <2>2. QED
    BY <2>1
<1>4. Promise!Layer = Layer
  BY DEF Promise!Layer, Layer, Promise!FlowOrder, FlowOrder
<1>5. With("blocked") = Promise!ShownBlocked
  BY <1>2, <1>3, <1>4 DEF With, StrongestHeard, Promise!ShownBlocked
<1>6. With("abstain") = Promise!Unverified
  BY <1>2, <1>3, <1>4 DEF With, StrongestHeard, Promise!Unverified
<1>7. With("pass") = Promise!Cleared
  BY <1>2, <1>3, <1>4, <1>5, <1>6
     DEF With, StrongestHeard, Promise!Cleared, Promise!ShownBlocked, Promise!Unverified
<1>8. QED
  BY <1>5, <1>6, <1>7

(* The instance's own copies of the vocabulary are the vocabulary.          *)
LEMMA PromiseEarliest == \A S : Promise!Earliest(S) = Earliest(S)
BY DEF Promise!Earliest, Earliest, Promise!NoLayer, NoLayer,
       Promise!FlowIndex, FlowIndex, Promise!FlowOrder, FlowOrder

LEMMA PromiseUsable == Promise!Usable <=> Usable
BY DEF Promise!Usable, Usable, Promise!Emittable, Emittable,
       Promise!ObservationEmittable, ObservationEmittable,
       Promise!Layer, Layer, Promise!FlowOrder, FlowOrder

(* The last step is the promised answer; authoritative means settled.       *)
LEMMA ConcludeReplies ==
    ASSUME IInv, Conclude
    PROVE  Promise!Reply
<1> DEFINE B == With("blocked")
           U == With("abstain")
<1>1. /\ phase = "aggregate" /\ phase' = "done" /\ verdict' = Conclusion
      /\ merged = Len(input) /\ Usable
      /\ UNCHANGED << input, observations, symptom, merged, byLayer >>
  BY ConcludeAnswers
<1>2. B = Promise!ShownBlocked /\ U = Promise!Unverified /\ With("pass") = Promise!Cleared
  BY <1>1, FoldedSets
<1>3. B \subseteq Layer /\ U \subseteq Layer /\ B \cap U = {}
  BY DEF With
<1>4. Promise!Settled <=> ConclusionAffecting(PrimaryBlocker) = {}
  <2>1. Promise!Settled <=> \A hidden \in SUBSET U : Earliest(B \cup hidden) = Earliest(B)
    BY <1>2, PromiseEarliest DEF Promise!Settled
  <2>2. ConclusionAffecting(PrimaryBlocker)
          = { l \in U : Earliest(B) = NoLayer \/ FlowIndex(l) < FlowIndex(Earliest(B)) }
    BY DEF ConclusionAffecting, PrimaryBlocker
  <2> HIDE DEF B, U
  <2>3. QED
    BY <1>3, <2>1, <2>2, SettledWhenNoneBefore
<1>5. Promise!Settled \in BOOLEAN
  BY DEF Promise!Settled
<1>6. With("blocked")' = With("blocked") /\ With("pass")' = With("pass")
  BY <1>1 DEF With
<1>7. /\ verdict'.primary = PrimaryBlocker
      /\ verdict'.authoritative = (ConclusionAffecting(PrimaryBlocker) = {})
  BY <1>1 DEF Conclusion
<1>8. [ primary       |-> verdict'.primary,
        blocked       |-> With("blocked")',
        cleared       |-> With("pass")',
        authoritative |-> verdict'.authoritative ] = Promise!Answer
  BY <1>2, <1>4, <1>5, <1>6, <1>7, PromiseEarliest DEF Promise!Answer, PrimaryBlocker
<1>9. QED
  BY <1>1, <1>8, PromiseUsable DEF Promise!Reply

(* Every step of the fold is the promised reply or no step at all.          *)
LEMMA PromiseStep ==
    ASSUME IInv, [Next]_vars
    PROVE  [Promise!Next]_Promise!vars
<1>1. CASE Validate
  <2>1. /\ phase = "validate" /\ phase' = IF Usable THEN "aggregate" ELSE "refused"
        /\ UNCHANGED << input, observations, symptom, merged, byLayer, verdict >>
    BY <1>1 DEF Validate
  <2>2. CASE Usable
    BY <2>1, <2>2 DEF Promise!vars
  <2>3. CASE ~Usable
    BY <2>1, <2>3, PromiseUsable DEF Promise!Next, Promise!Reply
  <2>4. QED
    BY <2>2, <2>3
<1>2. CASE Aggregate
  <2>1. phase = "aggregate" /\ UNCHANGED << input, observations, phase >>
    BY <1>2 DEF Aggregate
  <2>2. QED
    BY <2>1 DEF Promise!vars
<1>3. CASE Conclude
  BY <1>3, ConcludeReplies DEF Promise!Next
<1>4. CASE UNCHANGED vars
  BY <1>4 DEF vars, Promise!vars, With
<1>5. QED
  BY <1>1, <1>2, <1>3, <1>4 DEF Next

(* The Correlator keeps its promise (VerdictSpec): it answers once, refuses *)
(* exactly the unusable input, and calls a verdict authoritative exactly    *)
(* when no way the unevaluated Layers could turn out would move the         *)
(* primary blocker.                                                         *)
THEOREM KeepsPromise == Spec => ImplementsPromise
<1>1. Init => Promise!Init
  BY PromiseInit
<1>2. IInv /\ [Next]_vars => [Promise!Next]_Promise!vars
  BY PromiseStep
<1>3. QED
  BY <1>1, <1>2, Inductive, PTL DEF Spec, ImplementsPromise, Promise!Spec

-----------------------------------------------------------------------------
(* A client is opened before anything is evaluated.                         *)
Opened == stage \notin {"open", "refused"} /\ ~request.skip => scope = client /\ scope # Nowhere

(* An analysis was asked for, or has left its path behind.                  *)
Committed == stage \in {"create", "start", "poll", "sleep", "delete"} \/ path # "none"

(* The one way to look a flow up that nobody else claims is covered.        *)
Covers ==
    Unambiguous =>
        /\ \A e \in End : resources[e] \in snapshot.at[e] /\ RegionOf[resources[e]] = client
        /\ \A l \in Lookups : ~Crosses(l)

(* What becomes of the path.                                                *)
PathKept ==
    /\ stage \in {"open", "evaluate", "create", "refused"} => path = "none"
    /\ stage \in {"report", "reported"} /\ path = "there" =>
           \/ "unanswered" \in lost /\ answer = "error"
           \/ "refused" \in lost

(* An answer is what a finished analysis found.                             *)
Answered ==
    /\ stage \in {"open", "evaluate", "create", "start", "poll", "sleep"} => answer = "none"
    /\ answer \in {"found", "not_found", "unsaid"} => analysis = "succeeded" /\ found = answer

VerifyInv ==
    /\ VerifyTypeOK
    /\ Opened
    /\ Committed => Covers
    /\ PathKept
    /\ Answered
    /\ ReportIsEarned

-----------------------------------------------------------------------------
(* Looking up.                                                              *)

(* Of a set that has one member at most, two members are the same.          *)
LEMMA OnlyOne ==
    ASSUME NEW S, IsFiniteSet(S), ~(Cardinality(S) > 1), NEW x \in S, NEW y \in S
    PROVE  x = y
<1>1. Cardinality(S) \in Nat
  BY FS_CardinalityType
<1>2. Cardinality(S) # 0
  BY FS_EmptySet
<1>3. Cardinality(S) = 1
  BY <1>1, <1>2
<1>4. PICK z : S = {z}
  BY <1>3, FS_Singleton
<1> QED
  BY <1>4

(* A place, where there is one, is one of those that claim the address; and *)
(* without a second claim it is always the same.                            *)
LEMMA LookupsAgree ==
    ASSUME VerifyTypeOK, Unambiguous, NEW l \in Lookups, NEW m \in Lookups, NEW e \in End
    PROVE  /\ l[e] = m[e]
           /\ l[e] # Nowhere => l[e] \in snapshot.at[e]
<1>1. snapshot.at[e] \subseteq VPCs
  BY DEF VerifyTypeOK, Snapshot
<1>2. IsFiniteSet(snapshot.at[e])
  BY <1>1, FS_Subset, VerifyAssumption
<1>3. ~(Cardinality(snapshot.at[e]) > 1)
  BY <1>2, FS_CardinalityType DEF Unambiguous
<1>4. \A k \in Lookups : IF snapshot.at[e] = {} THEN k[e] = Nowhere ELSE k[e] \in snapshot.at[e]
  BY DEF Lookups
<1>5. CASE snapshot.at[e] = {}
  BY <1>4, <1>5
<1>6. CASE snapshot.at[e] # {}
  BY <1>2, <1>3, <1>4, <1>6, OnlyOne
<1> QED
  BY <1>5, <1>6

LEMMA SameLookup ==
    ASSUME VerifyTypeOK, Unambiguous, NEW l \in Lookups, NEW m \in Lookups
    PROVE  l = m
<1>1. l \in [End -> VPCs \cup {Nowhere}] /\ m \in [End -> VPCs \cup {Nowhere}]
  BY DEF Lookups
<1>2. \A e \in End : l[e] = m[e]
  BY LookupsAgree
<1> QED
  BY <1>1, <1>2

(* An analysis that is asked for covers the flow: both ends are in the      *)
(* region of the client.                                                    *)
LEMMA AskedWhereItCovers ==
    ASSUME VerifyTypeOK, Opened, stage = "evaluate", AskForAnalysis
    PROVE  Covers'
<1>1. PICK placed \in Lookups, span \in Lookups, ends \in Lookups :
          /\ WhyNot(placed, span, ends) = "none"
          /\ resources' = [e \in End |-> Resource(ends, e)]
  BY DEF AskForAnalysis
<1>2. UNCHANGED << snapshot, scope, client >>
  BY DEF AskForAnalysis, asked
<1>3. /\ ~request.skip /\ ScopeOf(span) # Nowhere /\ ~Crosses(span)
      /\ \A e \in End : placed[e] # Nowhere
  BY <1>1 DEF WhyNot
<1>4. scope = client /\ ScopeOf(span) = client
  BY <1>3 DEF Opened, ScopeOf
<1>5. ASSUME Unambiguous
      PROVE  /\ \A e \in End : /\ resources'[e] \in snapshot.at[e]
                               /\ RegionOf[resources'[e]] = client
             /\ \A l \in Lookups : ~Crosses(l)
  <2>1. \A l \in Lookups : l = span
    BY <1>5, SameLookup
  <2>2. \A l \in Lookups : ~Crosses(l)
    BY <2>1, <1>3
  <2>3. ASSUME NEW e \in End
        PROVE  resources'[e] \in snapshot.at[e] /\ RegionOf[resources'[e]] = client
    <3>1. span[e] \in snapshot.at[e] /\ span[e] \in VPCs
      <4>1. span[e] = placed[e]
        BY <2>1
      <4>2. span[e] \in snapshot.at[e]
        BY <4>1, <1>3, <1>5, LookupsAgree
      <4> QED
        BY <4>2 DEF VerifyTypeOK, Snapshot
    <3>2. resources'[e] \in snapshot.at[e]
      <4>1. resources'[e] = Resource(span, e)
        BY <1>1, <2>1
      <4> QED
        BY <4>1, <3>1, <1>5 DEF Resource, Unambiguous
    <3>3. resources'[e] = span[e]
      <4>1. snapshot.at[e] \subseteq VPCs
        BY DEF VerifyTypeOK, Snapshot
      <4>2. IsFiniteSet(snapshot.at[e])
        BY <4>1, FS_Subset, VerifyAssumption
      <4>3. ~(Cardinality(snapshot.at[e]) > 1)
        BY <4>2, <1>5, FS_CardinalityType DEF Unambiguous
      <4> QED
        BY <4>2, <4>3, <3>1, <3>2, OnlyOne
    <3>4. RegionAt(span[e]) = RegionOf[span[e]] /\ RegionOf[span[e]] # Nowhere
      BY <3>1, VerifyAssumption DEF RegionAt
    <3>5. RegionAt(span[e]) \in PathRegions(span)
      BY <3>4 DEF PathRegions
    <3>6. PathRegions(span) \ {client} = {}
      BY <1>3, <1>4 DEF Crosses
    <3> QED
      BY <3>2, <3>3, <3>4, <3>5, <3>6
  <2> QED
    BY <2>2, <2>3
<1>6. Unambiguous' = Unambiguous /\ Lookups' = Lookups
  BY <1>2 DEF Unambiguous, Lookups
<1>7. \A l \in Lookups : Crosses(l)' = Crosses(l)
  BY <1>2 DEF Crosses, PathRegions, ScopeOf
<1> QED
  BY <1>2, <1>5, <1>6, <1>7 DEF Covers

LEMMA CoversStays ==
    ASSUME Covers, UNCHANGED << snapshot, scope, client, resources >>
    PROVE  Covers'
BY DEF Covers, Unambiguous, Lookups, Crosses, PathRegions, ScopeOf

-----------------------------------------------------------------------------
(* Kinds.                                                                   *)

LEMMA VerifyInvInit == VerifyInit => VerifyInv
<1> SUFFICES ASSUME VerifyInit PROVE VerifyInv
  OBVIOUS
<1>1. VerifyTypeOK
  <2>1. request \in Request /\ snapshot \in Snapshot
    BY VerifyInputsAssumption DEF VerifyInit
  <2>2. scope \in Regions \cup {Nowhere}
    BY <2>1 DEF VerifyInit, Request
  <2> QED
    BY <2>1, <2>2 DEF VerifyInit, VerifyTypeOK, NoReport
<1> QED
  BY <1>1 DEF VerifyInit, VerifyInv, Opened, Committed, PathKept, Answered, ReportIsEarned

LEMMA LookupsFound ==
    ASSUME VerifyTypeOK, NEW l \in Lookups
    PROVE  /\ l \in [End -> VPCs \cup {Nowhere}]
           /\ \A e \in End : RegionAt(l[e]) \in Regions \cup {Nowhere}
BY DEF Lookups, RegionAt, Regions

LEMMA VerifyTypeStep == VerifyTypeOK /\ [VerifyNext]_verifyVars => VerifyTypeOK'
<1> SUFFICES ASSUME VerifyTypeOK, [VerifyNext]_verifyVars PROVE VerifyTypeOK'
  OBVIOUS
<1>1. CASE Open
  <2>1. PICK l \in Lookups : client' = LoginRegion(l) /\ scope' = LoginRegion(l)
    BY <1>1 DEF Open
  <2>2. LoginRegion(l) \in Regions \cup {Nowhere}
    BY LookupsFound DEF LoginRegion, VerifyTypeOK, Request, End
  <2>3. scope' \in Regions \cup {Nowhere} /\ client' \in Regions \cup {Nowhere}
    BY <2>1, <2>2
  <2> QED
    BY <2>3, <1>1 DEF Open, VerifyTypeOK, asked, aws, ctx
<1>2. CASE AskForAnalysis
  <2>1. PICK ends \in Lookups : resources' = [e \in End |-> Resource(ends, e)]
    BY <1>2 DEF AskForAnalysis
  <2>2. \A e \in End : Resource(ends, e) \in VPCs \cup {Nowhere}
    BY LookupsFound DEF Resource, VerifyTypeOK, Snapshot
  <2>3. resources' \in [End -> VPCs \cup {Nowhere}]
    BY <2>1, <2>2
  <2> QED
    BY <2>3, <1>2 DEF AskForAnalysis, VerifyTypeOK, asked, aws, ctx
<1>3. CASE SkipAnalysis
  <2>1. answer' \in {"by_request", "no_region", "crossing", "outside", "no_resource"}
    BY <1>3 DEF SkipAnalysis, WhyNot
  <2> QED
    BY <2>1, <1>3 DEF SkipAnalysis, VerifyTypeOK, asked, aws, ctx
<1>4. CASE Report
  <2>1. PICK l \in Lookups : report' = [agreement |-> Agreement, caveats |-> Caveats(l)]
    BY <1>4 DEF Report
  <2>2. report'.agreement \in {"none", "match", "mismatch", "inconclusive"}
    BY <2>1 DEF Agreement
  <2>3. report'.caveats \subseteq {"billing", "forward_only", "crossing", "not_run"}
    BY <2>1 DEF Caveats
  <2> QED
    BY <2>2, <2>3, <1>4 DEF Report, VerifyTypeOK, asked, aws, ctx, Over
<1>5. CASE OpenNothing \/ OpenFails \/ RefuseICMP \/ Kill
  <2>1. UNCHANGED << request, snapshot, scope, client, resources, path, analysis, found, lost,
                     done, late, answer, report >>
    BY <1>5 DEF OpenNothing, OpenFails, RefuseICMP, Kill, asked, aws, ctx
  <2>2. stage' \in {"evaluate", "refused", "killed"}
    BY <1>5 DEF OpenNothing, OpenFails, RefuseICMP, Kill
  <2> QED
    BY <2>1, <2>2 DEF VerifyTypeOK, Over
<1>6. CASE Create \/ CreateFails
  <2>1. CASE Create
    BY <2>1 DEF Create, VerifyTypeOK, asked, ctx, Over
  <2>2. CASE CreateFails
    <3>1. path' \in {"none", "there", "gone"} /\ lost' \subseteq {"unanswered", "refused"}
          /\ (analysis # "none" => path' # "none")
      BY <2>2 DEF CreateFails, VerifyTypeOK
    <3> QED
      BY <2>2, <3>1 DEF CreateFails, VerifyTypeOK, asked, ctx, Over
  <2> QED
    BY <1>6, <2>1, <2>2
<1>7. CASE Start \/ StartFails
  BY <1>7 DEF Start, StartFails, VerifyTypeOK, asked, aws, ctx, Over
<1>8. CASE PollEnded
  <2>1. answer' \in {"error", "found", "not_found", "unsaid"}
    BY <1>8 DEF PollEnded, Reachable, VerifyTypeOK
  <2> QED
    BY <2>1, <1>8 DEF PollEnded, VerifyTypeOK, asked, aws, ctx, Over
<1>9. CASE PollRunning \/ DescribeFails \/ GiveUp \/ Wake \/ WakeDone
  BY <1>9 DEF PollRunning, DescribeFails, GiveUp, Wake, WakeDone, VerifyTypeOK, asked, aws, ctx, Over
<1>10. CASE Delete
  <2>1. path' \in {"there", "gone"} /\ lost' \subseteq {"unanswered", "refused"}
    BY <1>10 DEF Delete, VerifyTypeOK
  <2> QED
    BY <2>1, <1>10 DEF Delete, VerifyTypeOK, asked, ctx, Over
<1>11. CASE Finish
  BY <1>11 DEF Finish, VerifyTypeOK, asked, ctx
<1>12. CASE DeadlinePasses \/ Cancel
  <2>1. UNCHANGED << request, snapshot, stage, scope, client, resources, path, analysis, found,
                     lost, answer, report >>
    BY <1>12 DEF DeadlinePasses, Cancel, asked, aws
  <2>2. done' \in BOOLEAN /\ late' \in BOOLEAN
    <3>1. (done' = done \/ done' = TRUE) /\ (late' = late \/ late' = TRUE)
      BY <1>12 DEF DeadlinePasses, Cancel
    <3>2. done \in BOOLEAN /\ late \in BOOLEAN
      BY DEF VerifyTypeOK
    <3> QED
      BY <3>1, <3>2
  <2> QED
    BY <2>1, <2>2 DEF VerifyTypeOK
<1>13. CASE UNCHANGED verifyVars
  BY <1>13 DEF verifyVars, VerifyTypeOK, asked, aws, ctx
<1> QED
  BY <1>1, <1>2, <1>3, <1>4, <1>5, <1>6, <1>7, <1>8, <1>9, <1>10, <1>11, <1>12, <1>13
  DEF VerifyNext, Step, Environment

-----------------------------------------------------------------------------
(* The rest of the invariant.                                               *)

LEMMA OpenedStep == VerifyTypeOK /\ Opened /\ [VerifyNext]_verifyVars => Opened'
<1> SUFFICES ASSUME VerifyTypeOK, Opened, [VerifyNext]_verifyVars PROVE Opened'
  OBVIOUS
<1>1. CASE Open
  BY <1>1 DEF Open, Opened, asked
<1>2. CASE ~Open
  <2>1. UNCHANGED << request, scope, client >>
    BY <1>2 DEF VerifyNext, Step, Environment, OpenNothing, OpenFails, RefuseICMP, SkipAnalysis,
         AskForAnalysis, Create, CreateFails, Start, StartFails, PollEnded, PollRunning,
         DescribeFails, GiveUp, Wake, WakeDone, Delete, Report, Finish, DeadlinePasses, Cancel,
         Kill, verifyVars, asked
  <2>2. \/ stage' \in {"open", "refused"} \/ stage \notin {"open", "refused"}
        \/ request.skip
    BY <1>2 DEF VerifyNext, Step, Environment, OpenNothing, OpenFails, RefuseICMP, SkipAnalysis,
         AskForAnalysis, Create, CreateFails, Start, StartFails, PollEnded, PollRunning,
         DescribeFails, GiveUp, Wake, WakeDone, Delete, Report, Finish, DeadlinePasses, Cancel,
         Kill, verifyVars
  <2> QED
    BY <2>1, <2>2 DEF Opened
<1> QED
  BY <1>1, <1>2

LEMMA CoversStep ==
    VerifyTypeOK /\ Opened /\ PathKept /\ (Committed => Covers) /\ [VerifyNext]_verifyVars
        => (Committed' => Covers')
<1> SUFFICES ASSUME VerifyTypeOK, Opened, PathKept, Committed => Covers, [VerifyNext]_verifyVars, Committed'
             PROVE  Covers'
  OBVIOUS
<1>1. CASE AskForAnalysis
  BY <1>1, AskedWhereItCovers DEF AskForAnalysis
<1>2. CASE ~AskForAnalysis
  <2>1. Committed
    BY <1>2 DEF Committed, PathKept, VerifyNext, Step, Environment, OpenNothing, Open, OpenFails,
         RefuseICMP, SkipAnalysis, Create, CreateFails, Start, StartFails, PollEnded,
         PollRunning, DescribeFails, GiveUp, Wake, WakeDone, Delete, Report, Finish,
         DeadlinePasses, Cancel, Kill, verifyVars, aws
  <2>2. UNCHANGED << snapshot, scope, client, resources >>
    BY <1>2, <2>1 DEF Committed, PathKept, VerifyNext, Step, Environment, OpenNothing, Open, OpenFails,
         RefuseICMP, SkipAnalysis, Create, CreateFails, Start, StartFails, PollEnded,
         PollRunning, DescribeFails, GiveUp, Wake, WakeDone, Delete, Report, Finish,
         DeadlinePasses, Cancel, Kill, verifyVars, asked
  <2> QED
    BY <2>1, <2>2, CoversStays
<1> QED
  BY <1>1, <1>2

LEMMA PathStep == VerifyTypeOK /\ PathKept /\ [VerifyNext]_verifyVars => PathKept'
BY DEF VerifyTypeOK, PathKept, VerifyNext, Step, Environment, OpenNothing, Open, OpenFails, RefuseICMP,
       SkipAnalysis, AskForAnalysis, Create, CreateFails, Start, StartFails, PollEnded,
       PollRunning, DescribeFails, GiveUp, Wake, WakeDone, Delete, Report, Finish,
       DeadlinePasses, Cancel, Kill, verifyVars, aws, Over

LEMMA AnsweredStep == VerifyTypeOK /\ Answered /\ [VerifyNext]_verifyVars => Answered'
<1> SUFFICES ASSUME VerifyTypeOK, Answered, [VerifyNext]_verifyVars PROVE Answered'
  OBVIOUS
<1>1. CASE PollEnded
  BY <1>1 DEF PollEnded, Reachable, Answered, aws
<1>2. CASE Finish
  BY <1>2 DEF Finish, Answered
<1>3. CASE Start \/ StartFails
  BY <1>3 DEF Start, StartFails, Answered
<1>4. CASE SkipAnalysis
  BY <1>4 DEF SkipAnalysis, WhyNot, Answered
<1>5. CASE CreateFails \/ DescribeFails \/ GiveUp \/ WakeDone
  BY <1>5 DEF CreateFails, DescribeFails, GiveUp, WakeDone, Answered
<1>6. CASE OpenNothing \/ Open \/ OpenFails \/ RefuseICMP \/ AskForAnalysis
  BY <1>6 DEF OpenNothing, Open, OpenFails, RefuseICMP, AskForAnalysis, Answered, aws
<1>7. CASE Create \/ PollRunning \/ Wake \/ Delete \/ Report
  BY <1>7 DEF Create, PollRunning, Wake, Delete, Report, Answered, aws
<1>8. CASE DeadlinePasses \/ Cancel \/ Kill \/ UNCHANGED verifyVars
  BY <1>8 DEF DeadlinePasses, Cancel, Kill, verifyVars, Answered, aws
<1> QED
  BY <1>1, <1>2, <1>3, <1>4, <1>5, <1>6, <1>7, <1>8 DEF VerifyNext, Step, Environment

(* A report is written once, of what is known by then.                      *)
LEMMA ReportStep == VerifyInv /\ [VerifyNext]_verifyVars => ReportIsEarned'
<1> SUFFICES ASSUME VerifyInv, [VerifyNext]_verifyVars, stage' = "reported" PROVE ReportIsEarned'
  BY DEF ReportIsEarned
<1>1. CASE Report
  <2>1. PICK l \in Lookups : report' = [agreement |-> Agreement, caveats |-> Caveats(l)]
    BY <1>1 DEF Report
  <2>2. /\ report'.agreement = Agreement /\ report'.caveats = Caveats(l)
        /\ UNCHANGED << request, snapshot, path, analysis, found, answer >>
    BY <2>1, <1>1 DEF Report, asked, aws
  <2>3. report'.agreement \in {"match", "mismatch"} =>
           /\ analysis = "succeeded" /\ found # "unsaid"
           /\ report'.agreement = "match" <=> (found = "found" <=> snapshot.verdict = "permitted")
    BY <2>2 DEF VerifyInv, Agreement, Answered
  <2>4. report'.caveats = {"billing"} =>
           /\ analysis = "succeeded"
           /\ report'.agreement = "inconclusive" => found = "unsaid"
           /\ ~(request.proto = "tcp" /\ snapshot.transit)
    <3>1. SUFFICES ASSUME Caveats(l) = {"billing"}
                   PROVE  ~Skipped /\ ~ForwardOnly
      BY <2>2 DEF Agreement, ForwardOnly, Skipped, VerifyInv, Answered
    <3>2. /\ "forward_only" \notin Caveats(l) /\ "crossing" \notin Caveats(l)
          /\ "not_run" \notin Caveats(l)
      BY <3>1
    <3>3. ~Crosses(l)
      BY <3>2 DEF Caveats
    <3> QED
      BY <3>2, <3>3 DEF Caveats
  <2>5. Unambiguous /\ "crossing" \in report'.caveats => path = "none"
    <3>1. SUFFICES ASSUME Unambiguous, path # "none", "crossing" \in Caveats(l) PROVE FALSE
      BY <2>2
    <3>2. ~Crosses(l)
      BY <3>1 DEF VerifyInv, Committed, Covers
    <3> QED
      BY <3>1, <3>2 DEF Caveats
  <2>6. Unambiguous' = Unambiguous
    BY <2>2 DEF Unambiguous
  <2> QED
    BY <2>2, <2>3, <2>4, <2>5, <2>6 DEF ReportIsEarned
<1>2. CASE ~Report
  <2>1. UNCHANGED verifyVars
    BY <1>2 DEF VerifyInv, VerifyTypeOK, Over, VerifyNext, Step, Environment, OpenNothing, Open, OpenFails,
       RefuseICMP, SkipAnalysis, AskForAnalysis, Create, CreateFails, Start, StartFails,
       PollEnded, PollRunning, DescribeFails, GiveUp, Wake, WakeDone, Delete, Finish,
       DeadlinePasses, Cancel, Kill, verifyVars
  <2> QED
    BY <2>1 DEF VerifyInv, ReportIsEarned, Unambiguous, verifyVars, asked, aws
<1> QED
  BY <1>1, <1>2

-----------------------------------------------------------------------------
(* The theorems.                                                            *)

LEMMA VerifyInvHolds == VerifySpec => []VerifyInv
<1>1. VerifyInit => VerifyInv
  BY VerifyInvInit
<1>2. VerifyInv /\ [VerifyNext]_verifyVars => VerifyInv'
  BY VerifyTypeStep, OpenedStep, CoversStep, PathStep, AnsweredStep, ReportStep DEF VerifyInv
<1> QED
  BY <1>1, <1>2, PTL DEF VerifySpec

(* verify.run and EC2Analyzer.Analyze: every variable of a verification     *)
(* holds a value of its kind, and a path is there while it is worked on.    *)
THEOREM VerifyTypeCorrect == VerifySpec => []VerifyTypeOK
<1>1. VerifyInv => VerifyTypeOK
  BY DEF VerifyInv
<1> QED
  BY <1>1, VerifyInvHolds, PTL

(* verify.Report: an agreement or a disagreement says how the verdict       *)
(* compares with an analysis that succeeded, a report without a caveat is   *)
(* of such an analysis and of a flow it looks at in both directions, and    *)
(* nothing that was analysed is called uncoverable.                         *)
THEOREM EarnedReports == VerifySpec => []ReportIsEarned
<1>1. VerifyInv => ReportIsEarned
  BY DEF VerifyInv
<1> QED
  BY <1>1, VerifyInvHolds, PTL

(* verify.Run: an analysis is asked for only where it covers the flow, and  *)
(* the path made for it is asked to be deleted whichever way Analyze is     *)
(* left, if AWS told of it.                                                 *)
THEOREM SpentWell == VerifySpec => []BilledAndGivenUp
<1>1. VerifyInv => BilledAndGivenUp
  BY DEF VerifyInv, BilledAndGivenUp, BilledWhereItCovers, DeletionAskedFor, Committed, Covers,
         PathKept
<1> QED
  BY <1>1, VerifyInvHolds, PTL

=============================================================================
