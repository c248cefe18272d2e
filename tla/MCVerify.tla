------------------------------ MODULE MCVerify ------------------------------
(***************************************************************************)
(* Verify with two VPCs in one region and one in another, every way of     *)
(* asking that differs to the code, and flows between any two places, some *)
(* of them unknown and some of them claimed twice.                         *)
(***************************************************************************)
EXTENDS Verify, TLC

CONSTANTS e1, e2, w1

MCVPCs == {e1, e2, w1}
MCRegionOf == (e1 :> "east") @@ (e2 :> "east") @@ (w1 :> "west")

MCRequests ==
    { r \in Request :
        /\ r.login # "config" => r.targets = {}
        /\ r.skip \/ r.proto = "icmp" => r.timeout /\ r.login = "profile" }

(* The flow starts in e1, in both e1 and w1, or nowhere; an interface, if   *)
(* there is one, is in a VPC that claims its address.                       *)
MCSnapshots ==
    { s \in Snapshot :
        /\ s.at["src"] \in {{}, {e1}, {e1, w1}}
        /\ s.at["dst"] \in {{}, {e1}, {e2}, {w1}}
        /\ \A e \in End : s.iface[e] \in s.at[e] \cup {Nowhere}
        /\ s.attached \in {{}, {e1, e2}, MCVPCs}
        /\ s.verdict = "unknown" <=> s.at["src"] = {} }

=============================================================================
