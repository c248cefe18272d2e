------------------------------ MODULE Symptoms ------------------------------
(***************************************************************************)
(* The Symptom_Classifier (internal/symptom/symptom.go): a table from the  *)
(* failure an operator saw to what the far side did with the packet and    *)
(* to the Layers that implicates.  The order it lists them in only shapes  *)
(* a report, so the candidates are a set here.                             *)
(***************************************************************************)
EXTENDS Verdicts

None == "none"

Symptoms == {"connection-refused", "no-route-to-host", "timeout",
             "connect-then-stall", "icmp-ok-tcp-fails"}

(* What the far side did with the packet.  With no Symptom the              *)
(* classification is the zero value, whose response is empty.               *)
Response(s) ==
    CASE s \in {"connection-refused", "no-route-to-host"} -> "active"
      [] s = "timeout"            -> "silent"
      [] s = "connect-then-stall" -> "established"
      [] s = "icmp-ok-tcp-fails"  -> "mixed"
      [] OTHER                    -> "unset"

(* The Layers a Symptom implicates.                                         *)
Candidates(s) ==
    CASE s = "connection-refused" -> {"host_listener", "host_firewall"}
      [] s = "no-route-to-host"   -> {"host_firewall", "firewall"}
      [] s = "timeout"            -> {"security_group", "nacl", "route"}
      [] s = "connect-then-stall" -> {"return_path"}
      [] s = "icmp-ok-tcp-fails"  -> {"security_group", "host_firewall"}
      [] OTHER                    -> {}

=============================================================================
