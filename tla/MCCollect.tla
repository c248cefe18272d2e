----------------------------- MODULE MCCollect -----------------------------
(* Three targets and two slots.  Two of the targets are in one account, and *)
(* both see its transit gateway's route table; one of them has a firewall   *)
(* with a policy of one group.                                              *)
EXTENDS Collect

MCTargets == << "t1", "t2", "t3" >>

MCResources == << "tgw_route_tables", "firewalls" >>

Table    == << "tgw_route_tables", "shared" >>
Firewall == << "firewalls", "firewall" >>
Group    == << "firewalls", "group" >>
Policy   == << "firewalls", "policy" >>
Other    == << "firewalls", "other" >>

MCObjects == {Table, Firewall, Group, Policy, Other}

MCSees == [t \in {"t1", "t2", "t3"} |->
              CASE t = "t1" -> {Table, Firewall, Group, Policy}
                [] t = "t2" -> {Table}
                [] t = "t3" -> {Other}]

MCNeeds == [o \in MCObjects |-> CASE o = Policy -> {Firewall, Group}
                                  [] o = Group  -> {Firewall}
                                  [] OTHER      -> {}]

=============================================================================
