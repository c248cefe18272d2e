------------------------------ MODULE HostSpec ------------------------------
(***************************************************************************)
(* What the host stage promises, with none of how it asks the host: one    *)
(* finding on each host Layer, once, and each of them the truth or an      *)
(* abstention.  A Layer the host's answers do not settle can only abstain. *)
(***************************************************************************)
VARIABLES truth,   (* what the host does: pass, blocked, or undetermined    *)
          results, (* the finding on each host Layer                        *)
          reported (* the stage is over                                     *)

vars == << truth, results, reported >>

HostLayer == {"host_firewall", "host_listener"}

Init ==
    /\ truth \in [HostLayer -> {"pass", "blocked", "undetermined"}]
    /\ results = [l \in HostLayer |-> "none"]
    /\ reported = FALSE

Report ==
    /\ ~reported
    /\ reported' = TRUE
    /\ results' \in [HostLayer -> {"pass", "blocked", "abstain"}]
    /\ \A l \in HostLayer : results'[l] \in {truth[l], "abstain"}
    /\ UNCHANGED truth

Next == Report

Spec == Init /\ [][Next]_vars

=============================================================================
