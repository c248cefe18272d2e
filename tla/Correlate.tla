------------------------------ MODULE Correlate ------------------------------
(***************************************************************************)
(* The Correlator (internal/correlate/correlate.go): it checks every       *)
(* finding, folds the findings into one result per Layer, one at a time    *)
(* and in the order they arrived, and concludes.                           *)
(*                                                                         *)
(* Citations and reasons are represented by the positions, in the input,   *)
(* of the findings they come from.                                         *)
(***************************************************************************)
EXTENDS Symptoms

CONSTANTS Inputs,          (* the finding lists a caller may hand over      *)
          ObservationLists (* the observations it may hand over with them   *)

ASSUME InputsAssumption == Inputs \subseteq Seq(Finding)
ASSUME ObservationsAssumption == ObservationLists \subseteq Seq(Observation)

VARIABLES
  input,         (* Input.Results                                            *)
  observations,  (* Input.Observations                                       *)
  symptom,       (* Input.Symptom                                            *)
  phase,         (* where the call is: validate, aggregate, done, refused    *)
  merged,        (* how many findings have been folded in                    *)
  byLayer,       (* the combined result of each Layer                        *)
  verdict        (* the model.Verdict returned                               *)

vars == << input, observations, symptom, phase, merged, byLayer, verdict >>

-----------------------------------------------------------------------------
(* Combining two findings of one Layer.                                     *)

Unreported == [verdict |-> "none", cites |-> {}, reasons |-> {}]

VerdictRank(v) == CASE v = "blocked" -> 2 [] v = "abstain" -> 1 [] OTHER -> 0

(* Slip: the later finding replaces the earlier one.                        *)
StrongestLast(a, b) == b

Strongest(a, b) == IF VerdictRank(b) > VerdictRank(a) THEN b ELSE a

(* The result a finding starts its Layer with.                              *)
Alone(f, n) == [verdict |-> f.verdict,
                cites   |-> IF f.cited THEN {n} ELSE {},
                reasons |-> IF f.reasoned THEN {n} ELSE {}]

(* Slip: the citations of the losing finding are dropped.                   *)
MergeWinner(a, b) == [verdict |-> Strongest(a.verdict, b.verdict),
                      cites   |-> IF VerdictRank(b.verdict) > VerdictRank(a.verdict)
                                  THEN b.cites ELSE a.cites,
                      reasons |-> a.reasons \cup b.reasons]

Merge(a, b) == [verdict |-> Strongest(a.verdict, b.verdict),
                cites   |-> a.cites \cup b.cites,
                reasons |-> a.reasons \cup b.reasons]

Absorb(r, f, n) == IF r = Unreported THEN Alone(f, n) ELSE Merge(r, Alone(f, n))

-----------------------------------------------------------------------------
(* What the combined results amount to.                                     *)

With(v) == { l \in Layer : byLayer[l].verdict = v }

(* precedence: the earliest blocking Layer, and the others.                 *)
PrimaryBlocker == Earliest(With("blocked"))

AdditionalBlocked == With("blocked") \ {PrimaryBlocker}

(* Slip: with a blocker found, no abstention is thought to matter.          *)
AffectingIfPermitted(primary) ==
    IF primary = NoLayer THEN With("abstain") ELSE {}

(* ConclusionAffectingAbstentions: all of them when nothing blocked, else   *)
(* the ones that come before the primary blocker.                           *)
ConclusionAffecting(primary) ==
    { l \in With("abstain") : \/ primary = NoLayer
                              \/ FlowIndex(l) < FlowIndex(primary) }

Explains(o) ==
    /\ o.kind = "asymmetric-stateful"
    /\ Response(symptom) = "established"
    /\ o.layer \in Candidates(symptom)

NoCause == 0

(* Slip: the position is taken after the loop has moved past it.            *)
ProbableCausePast(primary) ==
    IF symptom = None \/ primary # NoLayer \/ observations = << >> THEN NoCause
    ELSE Len(observations) + 1

(* The first observation that explains the Symptom, when nothing blocked.   *)
ProbableCause(primary) ==
    LET explaining == { i \in DOMAIN observations : Explains(observations[i]) }
    IN  IF symptom = None \/ primary # NoLayer \/ explaining = {} THEN NoCause
        ELSE CHOOSE i \in explaining : \A j \in explaining : i <= j

(* What the far side does when a Layer blocks.                              *)
LayerResponse(l) ==
    CASE l \in {"route", "nacl", "security_group", "return_path"} -> "silent"
      [] l = "host_listener" -> "active"
      [] OTHER               -> "mixed"

(* Slip: an abstaining Layer is counted among those that permitted.         *)
AllPermittedLoose(primary, cause) == primary = NoLayer /\ cause = NoCause

AllPermitted(primary, cause) ==
    /\ primary = NoLayer
    /\ With("abstain") = {}
    /\ cause = NoCause

(* Where the findings and the Symptom disagree; a Layer in the set is one   *)
(* that blocked although the Symptom says the connection was made.          *)
Contradictions(primary, cause) ==
    IF symptom = None THEN {}
    ELSE { k \in {"all_permitted"} : AllPermitted(primary, cause) }
         \cup { k \in {"blocker_is_silent"} : /\ primary # NoLayer
                                              /\ Response(symptom) = "active"
                                              /\ LayerResponse(primary) = "silent" }
         \cup { k \in {"blocker_replies"} : /\ primary # NoLayer
                                            /\ Response(symptom) = "silent"
                                            /\ LayerResponse(primary) = "active" }
         \cup { l \in With("blocked") \ Candidates(symptom) :
                    Response(symptom) = "established" }

Conclusion ==
    LET primary == PrimaryBlocker
        cause   == ProbableCause(primary)
    IN  [ primary        |-> primary,
          additional     |-> AdditionalBlocked,
          cause          |-> cause,
          contradictions |-> Contradictions(primary, cause),
          authoritative  |-> ConclusionAffecting(primary) = {} ]

(* Verdict.Validate, on the verdict about to be returned.                   *)
Valid(v) ==
    /\ \A l \in Layer \ With("none") :
           IF l \in With("abstain") THEN byLayer[l].reasons # {} ELSE byLayer[l].cites # {}
    /\ v.cause # NoCause => v.primary = NoLayer
    /\ IF v.primary = NoLayer
       THEN With("blocked") = {} /\ v.additional = {}
       ELSE /\ v.primary \in With("blocked")
            /\ \A l \in With("blocked") : FlowIndex(l) >= FlowIndex(v.primary)
            /\ v.additional = With("blocked") \ {v.primary}

-----------------------------------------------------------------------------
(* The call.                                                                *)

NoVerdict == [ primary |-> NoLayer, additional |-> {}, cause |-> NoCause,
               contradictions |-> {}, authoritative |-> FALSE ]

Init ==
    /\ input \in Inputs
    /\ observations \in ObservationLists
    /\ symptom \in Symptoms \cup {None}
    /\ phase = "validate"
    /\ merged = 0
    /\ byLayer = [l \in Layer |-> Unreported]
    /\ verdict = NoVerdict

Usable ==
    /\ \A i \in DOMAIN input : Emittable(input[i])
    /\ \A i \in DOMAIN observations : ObservationEmittable(observations[i])

(* Every finding and observation is checked before any is folded in.        *)
Validate ==
    /\ phase = "validate"
    /\ phase' = IF Usable THEN "aggregate" ELSE "refused"
    /\ UNCHANGED << input, observations, symptom, merged, byLayer, verdict >>

(* One turn of the aggregation loop.                                        *)
Aggregate ==
    /\ phase = "aggregate"
    /\ merged < Len(input)
    /\ LET n == merged + 1
           f == input[n]
       IN  /\ byLayer' = [byLayer EXCEPT ![f.layer] = Absorb(@, f, n)]
           /\ merged' = n
    /\ UNCHANGED << input, observations, symptom, phase, verdict >>

Conclude ==
    /\ phase = "aggregate"
    /\ merged = Len(input)
    /\ IF Valid(Conclusion)
       THEN phase' = "done" /\ verdict' = Conclusion
       ELSE phase' = "refused" /\ UNCHANGED verdict
    /\ UNCHANGED << input, observations, symptom, merged, byLayer >>

Next == Validate \/ Aggregate \/ Conclude

Spec == Init /\ [][Next]_vars

-----------------------------------------------------------------------------
(* Properties.                                                              *)

LayerResult == [verdict : LayerVerdict \cup {"none"}, cites : SUBSET Nat,
                reasons : SUBSET Nat]

(* Every variable holds a value of the kind the code gives it.              *)
TypeOK ==
    /\ input \in Seq(Finding)
    /\ observations \in Seq(Observation)
    /\ symptom \in Symptoms \cup {None}
    /\ phase \in {"validate", "aggregate", "done", "refused"}
    /\ merged \in 0 .. Len(input)
    /\ byLayer \in [Layer -> LayerResult]
    /\ verdict.primary \in Layer \cup {NoLayer}
    /\ verdict.additional \subseteq Layer
    /\ verdict.cause \in 0 .. Len(observations)
    /\ verdict.authoritative \in BOOLEAN

(* An abstention never collapses into a pass: whichever findings arrive     *)
(* before and after it, a Layer that abstained once is reported as          *)
(* abstaining, with that reason kept, or as blocked.  Cross-cutting rule 1, *)
(* and the comment on aggregate.                                            *)
AbstentionNeverCleared ==
    \A i \in 1 .. merged :
        input[i].verdict = "abstain" =>
            /\ byLayer[input[i].layer].verdict \in {"abstain", "blocked"}
            /\ i \in byLayer[input[i].layer].reasons

(* Nothing is lost in combining: the evidence under a Layer is the evidence *)
(* of every finding about it, and of no finding about another Layer.        *)
EvidenceSurvives ==
    \A l \in Layer :
        byLayer[l].cites = { i \in 1 .. merged : input[i].layer = l /\ input[i].cited }

(* A failure the operator saw is accounted for: when nothing blocked and    *)
(* nothing was left unread, the verdict either names a probable cause or    *)
(* says that the findings contradict the Symptom, and never both.  It says  *)
(* so only when every finding really was a pass.                            *)
SymptomAccountedFor ==
    phase = "done" /\ symptom # None =>
        LET contradicted == "all_permitted" \in verdict.contradictions
            allPassed    == \A i \in DOMAIN input : input[i].verdict = "pass"
        IN  contradicted <=> allPassed /\ verdict.cause = NoCause

(* The call keeps the Correlator's promise: VerdictSpec.                    *)
Promise == INSTANCE VerdictSpec WITH
    status <- CASE phase = "done"    -> "answered"
                [] phase = "refused" -> "refused"
                [] OTHER             -> "pending",
    answer <- IF phase = "done"
              THEN [ primary       |-> verdict.primary,
                     blocked       |-> With("blocked"),
                     cleared       |-> With("pass"),
                     authoritative |-> verdict.authoritative ]
              ELSE [ primary |-> NoLayer, blocked |-> {}, cleared |-> {},
                     authoritative |-> FALSE ]

ImplementsPromise == Promise!Spec

=============================================================================
