--------------------------- MODULE MCHostFirewall ---------------------------
(* Zones of up to MaxRules rules, before, among and after the services,     *)
(* exact or not, with every set of services and whatever they open, and     *)
(* with and without lists of their own and a target that accepts.           *)
EXTENDS HostFirewall

CONSTANT MaxRules

MCRules == { r \in [priority : {-1, 0, 1}, action : {"accept", "deny", "none"},
                    matches : {"yes", "no", "unknown"}, governs : BOOLEAN, exact : BOOLEAN] :
                /\ Truthful(r)
                /\ ~r.exact => r.matches # "unknown"
                /\ r.matches = "no" => r.action # "deny"
                /\ r.action = "none" => r.matches # "no" /\ r.exact }

MCZones == { z \in [ rules : UNION { [1 .. n -> MCRules] : n \in 0 .. MaxRules },
                     services : SUBSET {"covering", "other", "unknown"},
                     opening : SUBSET {"covering", "other", "unknown"},
                     lists : BOOLEAN, target : {"accept", "refuse"} ] :
                z.opening \subseteq z.services }

=============================================================================
