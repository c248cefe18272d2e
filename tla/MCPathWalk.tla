----------------------------- MODULE MCPathWalk -----------------------------
(* Two regions, a gateway in each with a peering between them, a source and *)
(* a destination VPC and one for inspection; what each table says of either *)
(* endpoint is varied.                                                      *)
EXTENDS PathWalk

CONSTANT Kind   (* which of the networks below                               *)

R(to, bits, kind, target, out) ==
    [to |-> to, bits |-> bits, ipv4 |-> TRUE, kind |-> kind, target |-> target,
     out |-> out, dead |-> FALSE]

Dead(to, bits) == [R(to, bits, "attachment", "", "") EXCEPT !.dead = TRUE]

Both == {"src", "dst"}
Up(tgw) == R(Both, 0, "gateway", tgw, "")
ToA == R({"src"}, 16, "attachment", "vpc-a", "att-a")
ToB == R({"dst"}, 16, "attachment", "vpc-b", "att-b")
ToI(to) == R(to, 8, "attachment", "vpc-i", "att-i")
Peer(to, tgw) == R(to, 8, "attachment", tgw, "att-p")
Vpn(to) == R(to, 8, "attachment", "vgw", "att-v")
Odd(to, out) == R(to, 24, "other", "lgw", out)

Table(id, vpc, main, routes) == [id |-> id, vpc |-> vpc, main |-> main, routes |-> routes]

TGWTable(id, tgw, assoc, near, routes) ==
    [id |-> id, tgw |-> tgw, assoc |-> assoc, near |-> near, routes |-> routes]

Att(id, tgw, kind, resource) ==
    [id |-> id, tgw |-> tgw, kind |-> kind, resource |-> resource, available |-> TRUE]

Attached == << Att("att-a", "tgw-1", "vpc", "vpc-a"), Att("att-b", "tgw-2", "vpc", "vpc-b"),
               Att("att-i", "tgw-1", "vpc", "vpc-i"), Att("att-p", "tgw-1", "peering", "tgw-2"),
               Att("att-v", "tgw-1", "vpn", "vgw") >>

Firewall(v) ==
    [id |-> "fw", vpc |-> "vpc-i", endpoint |-> "vpce-i", verdict |-> v]

(* The source's table, the tables of the first gateway for what comes from  *)
(* the source, from inspection and over the peering, and the second's.      *)
Net(home, a, in, post, peer, far, policy, collected) ==
    [home      |-> [src |-> "vpc-a", dst |-> home],
     subnet    |-> [src |-> "rt-a", dst |-> "rt-b"],
     tables    |-> { Table("rt-a", "vpc-a", FALSE, a), Table("rt-a2", "vpc-a", TRUE, << >>),
                     Table("rt-b", "vpc-b", TRUE, << Up("tgw-2") >>),
                     Table("rt-i", "vpc-i", TRUE, << Up("tgw-1") >>) },
     collected |-> collected,
     attached  |-> Attached,
     gateways  |-> { TGWTable("g-in", "tgw-1", {"att-a"}, {"src"}, in),
                     TGWTable("g-post", "tgw-1", {"att-i"}, {"src"}, post),
                     TGWTable("g-peer", "tgw-1", {"att-p"}, {"src"}, peer),
                     TGWTable("g-far", "tgw-2", {"att-b", "att-p"}, {"dst"}, far) },
     firewalls |-> {Firewall(policy)},
     skipFirewall |-> FALSE]

Nets(home, a, in, post, peer, far, policy, collected) ==
    { Net(home, a1, in1, post1, peer1, far1, v, c) :
          a1 \in a, in1 \in in, post1 \in post, peer1 \in peer, far1 \in far,
          v \in policy, c \in collected }

ByPeering == R({"dst"}, 16, "other", "pcx", Direct)

FirstTables == { << Up("tgw-1") >>, << >>, << Up("tgw-1"), ByPeering >>,
                 << Dead({"dst"}, 8), R({"dst"}, 16, "gateway", "tgw-1", "") >>,
                 << Up("tgw-1"), Dead({"dst"}, 16) >> }

Ins == { << ToI({"dst"}), ToA >>, << Peer({"dst"}, "tgw-2") >>, << >>,
         << Peer({"dst"}, "tgw-2"), Dead({"dst"}, 16) >>, << Odd({"dst"}, "att-v") >>,
         << R({"dst"}, 8, "attachment", "vpc-x", "att-x") >>,
         << R({"dst"}, 8, "attachment", "vpc-a", "att-a") >>, << Vpn({"dst"}) >> }

Posts == { << ToA, Peer({"dst"}, "tgw-2") >>, << ToA >>, << ToA, Dead({"dst"}, 8) >> }

Peers == { << ToA >>, << ToI({"src"}) >>, << >> }

Fars == { << ToB, Peer({"src"}, "tgw-1") >>, << ToB >>,
          << Odd({"dst"}, "att-b"), Peer({"src"}, "tgw-1") >>, << Dead({"src", "dst"}, 4) >> }

Policies == {"pass", "drop", "no_policy"}

AllCollected == {Gateway}

Ordinary == Nets("vpc-b", FirstTables, Ins, Posts, Peers, Fars, Policies, AllCollected \cup {{"tgw-1"}})

Default1 == { << Up("tgw-1") >> }
PlainPost == { << ToA, Peer({"dst"}, "tgw-2") >> }
PlainFar == { << ToB, Peer({"src"}, "tgw-1") >> }

Plain == Nets("vpc-b", Default1, {<< ToI({"dst"}), ToA >>}, PlainPost, {<< ToI({"src"}) >>},
              PlainFar, {"pass"}, AllCollected)

(* The destination in no collected subnet, or declared external.            *)
Away == Nets("", FirstTables, Ins, Posts, {<< >>}, PlainFar, Policies, AllCollected)
        \cup Nets("external", FirstTables, {<< >>, << Vpn({"dst"}) >>}, Posts, {<< >>},
                  PlainFar, {"pass"}, AllCollected)

(* Both endpoints in one VPC.                                               *)
LocalRoute == R(Both, 16, "local", "local", "")
Near == { [n EXCEPT !.home["dst"] = "vpc-a", !.subnet["dst"] = "rt-a"] :
              n \in Nets("vpc-b", {<< LocalRoute >>, << LocalRoute, Dead({"dst"}, 24) >>,
                                   << Dead({"dst"}, 24), LocalRoute >>, << >>},
                         {<< >>}, {<< >>}, {<< >>}, {<< >>}, {"pass"}, AllCollected) }

(* Parts that are missing: tables, attachments, a gateway's tables.         *)
Bare == UNION { { [n EXCEPT !.tables = {}, !.subnet["src"] = ""],
                  [n EXCEPT !.attached = Tail(@)],
                  [n EXCEPT !.gateways = { g \in @ : g.tgw = "tgw-1" }],
                  [n EXCEPT !.gateways = { g \in @ : g.tgw = "tgw-2" }],
                  [n EXCEPT !.gateways = { g \in @ : g.id # "g-post" }] } : n \in Plain }
        \cup { [n EXCEPT !.tables = {}, !.subnet["src"] = ""] : n \in Near }

(* A source whose subnet relies on its VPC's main table, which has no route *)
(* to the gateway.                                                          *)
MainTables == { [n EXCEPT !.subnet["src"] = ""] : n \in Plain }

(* The way back from a subnet with another route than the gateway's.        *)
OtherBack == { [n EXCEPT !.tables = { IF t.id = "rt-b" THEN [t EXCEPT !.routes =
                   << Up("tgw-2"), R({"src"}, 16, "other", "pcx", out) >>] ELSE t : t \in @ }] :
                   n \in Plain, out \in {"", Direct} }

(* No firewall is asked.                                                    *)
Skipped == { [n EXCEPT !.skipFirewall = TRUE] :
                 n \in Nets("vpc-b", Default1, Ins, Posts, Peers, PlainFar, Policies, AllCollected) }

(* The destination's VPC is on the source's own gateway too: a packet may   *)
(* go by either gateway and come back by either, inspected or not.          *)
ToNear == R({"dst"}, 16, "attachment", "vpc-b", "att-c")
NearLink == << Att("att-c", "tgw-1", "vpc", "vpc-b") >>
TwoWays == { [n EXCEPT !.attached = SubSeq(@, 1, 2) \o NearLink \o SubSeq(@, 3, 5),
                       !.tables = { IF t.id = "rt-b" THEN [t EXCEPT !.routes = << Up(tgw) >>]
                                    ELSE t : t \in @ },
                       !.gateways = { g \in @ : g.id \notin {"g-in", "g-post"} }
                           \cup { TGWTable("g-in", "tgw-1", {"att-a"}, Both, in),
                                  TGWTable("g-post", "tgw-1", {"att-i"}, Both, post),
                                  TGWTable("g-back", "tgw-1", {"att-c"}, Both, back) },
                       !.skipFirewall = skip] :
                 n \in Nets("vpc-b", Default1, {<< >>}, {<< >>}, {<< ToA >>, << ToI({"src"}) >>},
                            PlainFar, {"pass", "drop"}, AllCollected),
                 tgw \in Gateway, in \in {<< ToNear >>, << ToI({"dst"}) >>, << Peer({"dst"}, "tgw-2") >>},
                 post \in {<< ToA, ToNear >>, << ToA, Peer({"dst"}, "tgw-2") >>},
                 back \in {<< ToA >>, << ToI({"src"}) >>}, skip \in BOOLEAN }

(* The same as Ordinary, of gateways' routes that name attachments, which   *)
(* is how a snapshot written by hand has them.                              *)
Named(n) ==
    [n EXCEPT !.gateways = { [g EXCEPT !.routes =
        [i \in DOMAIN @ |-> [@[i] EXCEPT !.target = IF @ \in {"vpc-a", "vpc-b", "vpc-i"}
                                                    THEN g.routes[i].out ELSE @]]] : g \in @ }]

ByHand == { Named(n) : n \in TwoWays \cup Skipped \cup
                Nets("vpc-b", FirstTables, Ins, Posts, Peers, PlainFar, {"pass"}, AllCollected) }

(* Past inspection the route leads back into it.                            *)
Loops == Nets("vpc-b", Default1, {<< ToI({"dst"}), ToA >>}, {<< ToA, ToI({"dst"}) >>},
              {<< ToA >>}, PlainFar, {"pass"}, AllCollected)

(* A declared network, behind inspection.                                   *)
External == Nets("external", Default1, {<< ToI({"dst"}) >>}, {<< Vpn({"dst"}) >>},
                 {<< >>}, {<< >>}, Policies, AllCollected)

(* Within a VPC, by a firewall's endpoint.                                  *)
Endpoint == { [n EXCEPT !.tables = { Table("rt-a", "vpc-a", TRUE,
                            << R({"dst"}, 24, "endpoint", "vpce-a", ""), LocalRoute >>) },
                        !.firewalls = { [Firewall(v) EXCEPT !.vpc = "vpc-a", !.endpoint = "vpce-a"] }] :
                  n \in Near, v \in Policies }

(* A route for IPv6 beside the default for IPv4.                            *)
IPv6 == { [n EXCEPT !.tables = { Table(t.id, t.vpc, t.main,
                         << [R({}, 0, "other", "igw", "") EXCEPT !.ipv4 = FALSE] >> \o t.routes) : t \in @ }] :
              n \in Plain }

MCNetworks ==
    CASE Kind = "recorded"    -> Ordinary \cup Away \cup Near \cup Bare \cup ByHand
                                 \cup TwoWays \cup Skipped \cup OtherBack
                                 \cup External \cup Endpoint \cup IPv6 \cup Loops
      [] Kind = "main_tables" -> MainTables

=============================================================================
