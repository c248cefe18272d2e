------------------------------ MODULE Verdicts ------------------------------
(***************************************************************************)
(* The vocabulary every part of aws-netpath reports in: Layers in flow     *)
(* order, the three verdicts a Layer can come to, and the one finding a    *)
(* component hands to the Correlator (internal/model/verdict.go).          *)
(*                                                                         *)
(* A finding keeps the two facts about its text that the code tests: does  *)
(* it cite evidence, and does it state a reason.  What the text says is    *)
(* left out.                                                               *)
(***************************************************************************)
EXTENDS Integers, Sequences

(* The three verdicts; "none" stands for a Layer that has reported nothing. *)
LayerVerdict == {"pass", "blocked", "abstain"}

(* The order a packet meets the Layers in.                                  *)
FlowOrder == << "resolution", "route", "nacl", "security_group", "firewall",
                "return_path", "host_firewall", "host_listener" >>

Layer == { FlowOrder[i] : i \in DOMAIN FlowOrder }

FlowIndex(l) == CHOOSE i \in DOMAIN FlowOrder : FlowOrder[i] = l

(* Layers evaluated on the host rather than from cloud configuration.       *)
Host(l) == l \in {"host_firewall", "host_listener"}

(* A name that is no Layer: what a finding built from a bad name carries.   *)
UnknownLayer == "unknown"

Finding == [layer : Layer \cup {UnknownLayer}, verdict : LayerVerdict,
            cited : BOOLEAN, reasoned : BOOLEAN]

(* LayerResult.Validate: an unknown Layer, an abstention without a reason,  *)
(* and a decision without a citation are refused.                           *)
Emittable(f) ==
    /\ f.layer \in Layer
    /\ IF f.verdict = "abstain" THEN f.reasoned ELSE f.cited

(* Something true about the path that blocks nothing: its two directions    *)
(* use different next hops, across a stateful component or not.             *)
Observation == [kind : {"asymmetric", "asymmetric-stateful"},
                layer : Layer \cup {UnknownLayer}, cited : BOOLEAN]

ObservationEmittable(o) == o.layer \in Layer /\ o.cited

-----------------------------------------------------------------------------
(* Operators on a set of Layers.                                            *)

NoLayer == "no_layer"

(* The member of S that comes first in flow order, NoLayer when S is empty. *)
Earliest(S) ==
    IF S = {} THEN NoLayer
    ELSE CHOOSE l \in S : \A m \in S : FlowIndex(l) <= FlowIndex(m)

=============================================================================
