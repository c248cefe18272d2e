----------------------------- MODULE MCOperations -----------------------------
(* Snapshots of two VPCs whose address space may overlap: addresses 1 and 2 *)
(* are in both of them, 3 in the second only, 4 in a declared network.      *)
EXTENDS Operations

web   == [vpc |-> "A", names |-> {"web"}, private |-> << 1 >>, public |-> {}, inUse |-> TRUE]
twin  == [web EXCEPT !.vpc = "B", !.names = {"twin"}]
left  == [twin EXCEPT !.inUse = FALSE]
other == [twin EXCEPT !.vpc = "A"]
bare  == [web EXCEPT !.vpc = "B", !.private = << >>, !.public = {3}]

SubnetA == [vpc |-> "A", cidr |-> {1, 2}, table |-> FALSE]
SubnetB == [vpc |-> "B", cidr |-> {1, 2}, table |-> TRUE]
NarrowB == [vpc |-> "B", cidr |-> {3}, table |-> TRUE]

TwoVPCs(cidrs) == {[vpc |-> "A", cidrs |-> {{1, 2}}], [vpc |-> "B", cidrs |-> cidrs]}
Network4    == {[cidrs |-> {{4}}]}

Snap(interfaces, subnets, vpcs) ==
    [interfaces |-> interfaces, subnets |-> subnets, vpcs |-> vpcs, externals |-> Network4]

MCSnapshots ==
    { Snap({web, left}, {SubnetA, SubnetB}, TwoVPCs({{1, 2}})),
      Snap({other, bare}, {SubnetA, NarrowB}, TwoVPCs({{3}})),
      Snap({web, twin}, {}, {[vpc |-> "A", cidrs |-> {{1, 2}}]}) }

MCInputs == {ByAddress(1), ByAddress(2), ByAddress(4), ByPrefix({1, 2}), ByName("web")}

=============================================================================
