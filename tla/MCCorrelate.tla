----------------------------- MODULE MCCorrelate -----------------------------
(* Finding lists of up to MaxFindings entries over a few Layers of the      *)
(* cloud and the host side, so that several findings can meet in one Layer  *)
(* and a blocker can have abstentions before and after it.                  *)
EXTENDS Correlate

CONSTANTS MaxFindings, MCLayers

MCFinding(l, v, cited, reasoned) ==
    [layer |-> l, verdict |-> v, cited |-> cited, reasoned |-> reasoned]

(* What the walk and the prober emit, and one abstention without a reason.  *)
MCFindings ==
    { MCFinding(l, v, TRUE, FALSE) : l \in MCLayers, v \in {"pass", "blocked"} }
    \cup { MCFinding(l, "abstain", ~Host(l), TRUE) : l \in MCLayers }
    \cup { MCFinding("firewall", "abstain", TRUE, FALSE),
           MCFinding("firewall", "pass", FALSE, FALSE),
           MCFinding(UnknownLayer, "pass", TRUE, FALSE) }

MCInputs == UNION { [1 .. n -> MCFindings] : n \in 0 .. MaxFindings }

MCObservation(k, l, c) == [kind |-> k, layer |-> l, cited |-> c]

MCObservationLists ==
    { << >>,
      << MCObservation("asymmetric", "return_path", TRUE) >>,
      << MCObservation("asymmetric", "return_path", TRUE),
         MCObservation("asymmetric-stateful", "return_path", TRUE) >>,
      << MCObservation("asymmetric-stateful", "route", TRUE) >>,
      << MCObservation("asymmetric-stateful", "return_path", FALSE) >> }

=============================================================================
