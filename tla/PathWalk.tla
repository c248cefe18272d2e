------------------------------ MODULE PathWalk ------------------------------
(***************************************************************************)
(* The route walk (internal/query: route.go, graph.go, inspection.go,      *)
(* return_path.go, asymmetry.go): from the source's subnet through transit *)
(* gateways, peerings and inspection VPCs to the destination's VPC, then   *)
(* the way back, then the comparison of the components either passed.      *)
(* The NACLs and security groups on the way are in Diagnosis and Nacl.     *)
(*                                                                         *)
(* The walk reads a snapshot.  Where the code takes the first of a map's   *)
(* entries that fits, and Go ranges over a map in random order, the model  *)
(* takes any.  The forward direction is therefore walked twice, the second *)
(* time as another run of the program on the same snapshot would.          *)
(***************************************************************************)
EXTENDS Naturals, Sequences

CONSTANT Networks   (* the snapshots there may be                            *)

Gateway == {"tgw-1", "tgw-2"}

(* The identifier of nothing.                                               *)
None == ""

Walks == {"forward", "return", "again"}

(* Where a subnet's route goes by a peering of VPCs, a NAT or an internet   *)
(* gateway or an interface and the destination is behind it.                *)
Direct == "direct"

(* Where a route leads, to which of the two endpoints, with which prefix    *)
(* length; ipv4 unless its destination is an IPv6 block or a prefix list,   *)
(* which the snapshot holds as no prefix at all.  A gateway's table names   *)
(* the resource behind an attachment, as collected, and out is the          *)
(* attachment the gateway itself would use; in a subnet's table it is       *)
(* Direct or nothing, which no snapshot tells.                              *)
Route == [to : SUBSET {"src", "dst"}, bits : Nat, ipv4 : BOOLEAN,
          kind : {"local", "gateway", "endpoint", "attachment", "other"},
          target : STRING, out : STRING, dead : BOOLEAN]

Attachment == [id : STRING, tgw : Gateway, kind : {"vpc", "peering", "vpn"},
               resource : STRING, available : BOOLEAN]

(* Attachments are listed in the order of their identifiers.  A subnet's    *)
(* table is "" where it is associated with the VPC's main table, which the  *)
(* collector leaves out.  A gateway's table is near an endpoint in the same *)
(* region.  Beside it all, whether --skip-firewall was given.               *)
Network == [home      : [{"src", "dst"} -> STRING],
            subnet    : [{"src", "dst"} -> STRING],
            tables    : SUBSET [id : STRING, vpc : STRING, main : BOOLEAN, routes : Seq(Route)],
            collected : SUBSET Gateway,
            attached  : Seq(Attachment),
            gateways  : SUBSET [id : STRING, tgw : Gateway, assoc : SUBSET STRING,
                                near : SUBSET {"src", "dst"}, routes : Seq(Route)],
            firewalls : SUBSET [id : STRING, vpc : STRING, endpoint : STRING,
                                verdict : {"pass", "drop", "no_policy"}],
            skipFirewall : BOOLEAN]

(* The snapshot keeps each kind of resource by its identifier.              *)
Keyed(S) == \A x, y \in S : x.id = y.id => x = y

ASSUME NetworksAssumption ==
    \A n \in Networks :
        /\ n \in Network
        /\ Keyed(n.tables) /\ Keyed(n.gateways) /\ Keyed(n.firewalls)
        /\ Keyed({ n.attached[i] : i \in DOMAIN n.attached })

VARIABLES
  net,        (* the snapshot, the network it was taken of, and the flag     *)
  walk,       (* the walk under way, done after the last                     *)
  pos,        (* where it is: a subnet, a gateway's table, a peering, a VPC  *)
  passed,     (* the components each walk forwarded through (Hop.NextHop)    *)
  inspected,  (* the firewalls whose policy each walk evaluated or skipped   *)
  verdict     (* what each walk found                                        *)

vars == << net, walk, pos, passed, inspected, verdict >>

At(place, id, attach) == [at |-> place, id |-> id, attach |-> attach]
Subnet == At("subnet", None, None)
AtGateway(g) == At("gateway", g.id, None)

Source(w) == IF w = "return" THEN "dst" ELSE "src"
Dest(w)   == IF w = "return" THEN "src" ELSE "dst"

(* The destination's VPC; "" if it lies in no collected subnet, "external"  *)
(* in a network the configuration declares.                                 *)
DestVPC == net.home[Dest(walk)]
SourceVPC == net.home[Source(walk)]
DestKnown == DestVPC \notin {None, "external"}

-----------------------------------------------------------------------------
(* Lookups in the snapshot (graph.go).                                      *)

RouteCovers(r, dest) == r.ipv4 => dest \in r.to
Bits(r) == IF r.ipv4 THEN r.bits ELSE 0

(* matchRoute: the longest prefix, the first of equals; no route or one.    *)
MatchRoute(routes, dest) ==
    { routes[i] : i \in { i \in DOMAIN routes :
        /\ RouteCovers(routes[i], dest)
        /\ \A j \in DOMAIN routes : RouteCovers(routes[j], dest) =>
               \/ Bits(routes[j]) < Bits(routes[i])
               \/ Bits(routes[j]) = Bits(routes[i]) /\ i <= j } }

(* Slip: any table of the VPC, association or none.                         *)
SubnetTablesOfVPC(end) == { t \in net.tables : t.vpc = net.home[end] }

(* routeTableForSubnet: without an association, any table of the VPC.       *)
SubnetTables(end) ==
    { t \in net.tables : IF net.subnet[end] # None THEN t.id = net.subnet[end]
                         ELSE t.vpc = net.home[end] }

Attachments == { net.attached[i] : i \in DOMAIN net.attached }

(* vpcAttachment: of the available ones the lowest identifier.              *)
VPCAttachment(vpc, tgw) ==
    LET fits(a) == a.kind = "vpc" /\ a.resource = vpc /\ a.tgw = tgw /\ a.available
        them == { i \in DOMAIN net.attached : fits(net.attached[i]) }
    IN  { net.attached[i] : i \in { i \in them : \A j \in them : i <= j } }

(* Slip: any of the gateway's tables will do.                               *)
TablesOfGateway(attach, tgw) == { t \in net.gateways : t.tgw = tgw }

(* tgwRouteTableForAttachment on the way in, tgwRouteTableForPeering: the   *)
(* associated table, else any of the gateway's in its region.               *)
TablesFor(attach, tgw) ==
    LET associated == { t \in net.gateways : attach \in t.assoc /\ t.tgw = tgw }
    IN  IF associated # {} THEN associated ELSE { t \in net.gateways : t.tgw = tgw }

(* peeringBetween: from this gateway, else one recorded from the other.     *)
PeeringBetween(from, to) ==
    LET joins(a, x, y) == a.kind = "peering" /\ a.available /\ a.tgw = x /\ a.resource = y
        straight == { a \in Attachments : joins(a, from, to) }
    IN  IF straight # {} THEN straight ELSE { a \in Attachments : joins(a, to, from) }

(* attachmentForTGWRoute: the target is an attachment, or a VPC's resource  *)
(* identifier - on whichever gateway - or a gateway.                        *)
AttachmentFor(from, target) ==
    LET byId  == { a \in Attachments : a.id = target }
        byVPC == { a \in Attachments : a.kind = "vpc" /\ a.resource = target }
    IN  IF byId # {} THEN byId
        ELSE IF byVPC # {} THEN byVPC
        ELSE IF target \in Gateway THEN PeeringBetween(from, target) ELSE {}

FirewallsIn(vpc) == { f \in net.firewalls : f.vpc = vpc }

-----------------------------------------------------------------------------
Init ==
    /\ net \in Networks
    /\ walk = "forward"
    /\ pos = Subnet
    /\ passed = [w \in Walks |-> {}]
    /\ inspected = [w \in Walks |-> {}]
    /\ verdict = [w \in Walks |-> "none"]

Pass(ids) == passed' = [passed EXCEPT ![walk] = @ \cup ids]

Continue(next, ids) ==
    /\ pos' = next
    /\ Pass(ids)
    /\ UNCHANGED << net, walk, verdict >>

(* Slip: a way back that is blocked is the last walk.                       *)
NextWalkHasty(v) ==
    CASE walk = "forward" /\ v = "pass" /\ DestKnown -> "return"
      [] walk = "again" \/ v = "blocked" -> "done"
      [] OTHER -> "again"

(* The way back is walked where the forward walk was not blocked and the    *)
(* destination is in a collected subnet.                                    *)
NextWalk(v) ==
    CASE walk = "forward" /\ v = "pass" /\ DestKnown -> "return"
      [] walk = "again" -> "done"
      [] OTHER -> "again"

End(v, ids) ==
    /\ verdict' = [verdict EXCEPT ![walk] = v]
    /\ Pass(ids)
    /\ pos' = Subnet
    /\ walk' = NextWalk(v)
    /\ UNCHANGED net

(* evalReturnPath: a way back through a firewall that was not evaluated     *)
(* abstains.                                                                *)
Cleared(skipped) == IF walk = "return" /\ skipped # {} THEN "abstain" ELSE "pass"

Arrive(ids) == End(Cleared(inspected[walk]), ids) /\ UNCHANGED inspected
Block(ids) == End("blocked", ids) /\ UNCHANGED inspected

(* routeNextHop: a local route names no component.                          *)
NextHop(r) == IF r.kind = "local" THEN {} ELSE {r.target}

(* walkRoutes, both endpoints in one VPC: any live route will do.           *)
StayInVPC ==
    /\ walk # "done" /\ pos.at = "subnet"
    /\ DestKnown /\ DestVPC = SourceVPC
    /\ \/ SubnetTables(Source(walk)) = {} /\ Block({})
       \/ \E t \in SubnetTables(Source(walk)) :
             LET route == MatchRoute(t.routes, Dest(walk))
             IN  \/ (\A r \in route : r.dead) /\ Block({})
                 \/ \E r \in route : ~r.dead /\ Arrive(NextHop(r))

(* Slip: the route table that decides is a component too.                   *)
EnteredByTable(t, r, a) == {t.id, r.target, a.id}

Entered(t, r, a) == {r.target, a.id}

(* walkRoutes otherwise: up to the gateway's route table.                   *)
EnterGateway ==
    /\ walk # "done" /\ pos.at = "subnet"
    /\ ~(DestKnown /\ DestVPC = SourceVPC)
    /\ \/ SubnetTables(Source(walk)) = {} /\ Block({})
       \/ \E t \in SubnetTables(Source(walk)) :
             LET up == { r \in MatchRoute(t.routes, Dest(walk)) : ~r.dead /\ r.kind = "gateway" }
             IN  \/ up = {} /\ Block({})
                 \/ \E r \in up :
                       LET attach == VPCAttachment(SourceVPC, r.target)
                       IN  \/ attach = {} /\ Block({r.target})
                           \/ \E a \in attach :
                                 \/ /\ TablesFor(a.id, a.tgw) = {}
                                    /\ Block(Entered(t, r, a))
                                 \/ \E g \in TablesFor(a.id, a.tgw) :
                                       /\ Continue(AtGateway(g), Entered(t, r, a))
                                       /\ UNCHANGED inspected

(* Slip: the gateway named by the peering's record.                         *)
FarAsRecorded(r, a) == a.resource

(* The gateway on the far side of a peering.                                *)
Far(r, a) == IF r.target \in Gateway THEN r.target ELSE a.resource

(* Into an inspection VPC, unless the destination is there.                 *)
Diverts(a) == FirewallsIn(a.resource) # {} /\ DestVPC # a.resource

(* walkTGW, the route names an attachment: over a peering, into an          *)
(* inspection VPC, to the destination, or nowhere.                          *)
TakeAttachment(r, a) ==
    \/ /\ a.kind = "peering"
       /\ Continue(At("peering", Far(r, a), a.id), {r.target, Far(r, a)})
       /\ UNCHANGED inspected
    \/ /\ a.kind = "vpc" /\ Diverts(a)
       /\ Continue(At("inspection", a.resource, a.id), {r.target})
       /\ UNCHANGED inspected
    \/ /\ a.kind = "vpc" /\ ~Diverts(a)
       /\ IF DestKnown /\ DestVPC # a.resource THEN Block({r.target})
                                               ELSE Arrive({r.target, a.id})
    \/ a.kind = "vpn" /\ Block({r.target})

(* walkTGW.                                                                 *)
ThroughGateway ==
    /\ pos.at = "gateway"
    /\ \E g \in net.gateways :
        /\ g.id = pos.id
        /\ LET route == MatchRoute(g.routes, Dest(walk))
           IN  \/ (\A r \in route : r.dead) /\ Block({})
               \/ \E r \in route :
                     /\ ~r.dead
                     /\ \/ DestVPC = "external" /\ Arrive({r.target})
                        \/ /\ DestVPC # "external" /\ r.kind = "attachment"
                           /\ \/ AttachmentFor(g.tgw, r.target) = {} /\ Block({r.target})
                              \/ \E a \in AttachmentFor(g.tgw, r.target) : TakeAttachment(r, a)
                        \/ /\ DestVPC # "external" /\ r.kind # "attachment"
                           /\ IF DestKnown /\ Dest(walk) \in g.near THEN Arrive({r.target}) ELSE Block({r.target})

(* walkTGW over a peering: the far gateway and its table, if collected.     *)
CrossPeering ==
    /\ pos.at = "peering"
    /\ \/ pos.id \notin net.collected /\ Block({})
       \/ /\ pos.id \in net.collected
          /\ \/ TablesFor(pos.attach, pos.id) = {} /\ Block({})
             \/ \E g \in TablesFor(pos.attach, pos.id) :
                   Continue(AtGateway(g), {}) /\ UNCHANGED inspected

(* walkThroughInspectionVPC: into the VPC, and out to the gateway where the *)
(* VPC has a route table to leave by.                                       *)
ThroughVPC(vpc, a) ==
    {vpc} \cup { gw \in {a.tgw} : \E t \in net.tables : t.vpc = vpc }

(* evalFirewall: what its policy drops, and what has no policy.  On the way *)
(* back, and with --skip-firewall on the way there, it is not called.       *)
Stops(f) == walk # "return" /\ ~net.skipFirewall /\ f.verdict # "pass"

(* walkThroughInspectionVPC: past the firewall, evaluated or skipped, and   *)
(* on by the table of the attachment it came by, and no other.              *)
Inspect ==
    /\ pos.at = "inspection"
    /\ \E f \in FirewallsIn(pos.id), a \in Attachments :
        /\ a.id = pos.attach
        /\ inspected' = [inspected EXCEPT ![walk] = @ \cup {f.id}]
        /\ \/ Stops(f) /\ End("blocked", {pos.id})
           \/ /\ ~Stops(f)
              /\ LET after == { g \in net.gateways : a.id \in g.assoc }
                 IN  \/ after = {} /\ End("blocked", ThroughVPC(pos.id, a))
                     \/ \E g \in after :
                           Continue(AtGateway(g), ThroughVPC(pos.id, a) \cup {a.id})

Next == StayInVPC \/ EnterGateway \/ ThroughGateway \/ CrossPeering \/ Inspect

(* A walk is one computation and takes its next step.                       *)
Spec == Init /\ [][Next]_vars

FairSpec == Spec /\ WF_vars(Next)

(* evalAsymmetry: the components of either direction, and nothing where the *)
(* way back was blocked or never walked.                                    *)
Asymmetric ==
    /\ verdict["return"] \in {"pass", "abstain"}
    /\ passed["forward"] # passed["return"]

-----------------------------------------------------------------------------
(* The network itself.                                                      *)

(* The route a packet takes: the longest prefix that holds its destination. *)
RealRoute(routes, dest) ==
    LET holds == { r \in { routes[i] : i \in DOMAIN routes } : r.ipv4 /\ dest \in r.to }
    IN  { r \in holds : \A q \in holds : q.bits <= r.bits }

(* A packet leaving a subnet: by its own table, or its VPC's main one.      *)
Leaves(from, to) ==
    UNION { RealRoute(t.routes, to) :
                t \in { t \in net.tables : IF net.subnet[from] # None THEN t.id = net.subnet[from]
                                           ELSE t.vpc = net.home[from] /\ t.main } }

Lost    == At("lost", None, None)
Arrived == At("arrived", None, None)

(* A packet for dest in gateway tgw, having come in by an attachment.  One  *)
(* for no collected subnet has arrived where the snapshot ends.             *)
Onward(tgw, attach, dest) ==
    LET routes == UNION { RealRoute(g.routes, dest) :
                              g \in { g \in net.gateways : g.tgw = tgw /\ attach \in g.assoc } }
        leaves == { a \in Attachments : \E r \in routes : ~r.dead /\ a.id = r.out }
    IN  IF leaves = {} THEN Lost
        ELSE LET a == CHOOSE a \in leaves : TRUE
             IN  IF a.kind = "peering"
                 THEN At("gateway", IF a.tgw = tgw THEN a.resource ELSE a.tgw, a.id)
                 ELSE IF a.kind = "vpn"
                 THEN IF net.home[dest] = "external" THEN Arrived ELSE Lost
                 ELSE IF a.resource # net.home[dest] /\ FirewallsIn(a.resource) # {}
                 THEN At("gateway", a.tgw, a.id)
                 ELSE IF net.home[dest] \in {a.resource, None} THEN Arrived ELSE Lost

(* A route that delivers without a transit gateway or the VPC's own.        *)
IsDirect(r) == r.kind = "other" /\ r.out = Direct

(* Where a packet is when it has left its subnet.                           *)
Start(from, to) ==
    LET route == Leaves(from, to)
        entry(r) == VPCAttachment(net.home[from], r.target)
    IN  IF \A r \in route : r.dead THEN Lost
        ELSE IF \E r \in route : r.kind \in {"local", "endpoint"} \/ IsDirect(r) THEN Arrived
        ELSE IF \E r \in route : r.kind = "gateway" /\ entry(r) # {}
        THEN LET a == CHOOSE a \in Attachments : \E r \in route : a \in entry(r)
             IN  At("gateway", a.tgw, a.id)
        ELSE Lost

(* Where it is n steps later.                                               *)
Trail(from, to) ==
    LET place[n \in Nat] ==
            IF n = 0 THEN Start(from, to)
            ELSE LET p == place[n - 1]
                 IN  IF p.at = "gateway" THEN Onward(p.id, p.attach, to) ELSE p
    IN  place

(* All the places it comes to: it comes into a gateway by each attachment   *)
(* once, or goes in a circle.                                               *)
Journey(from, to) == { Trail(from, to)[n] : n \in 0 .. 2 * Len(net.attached) }

Delivered(from, to) == Arrived \in Journey(from, to)

(* Its way has an end: routes may also lead in a circle.                    *)
Settles(from, to) == {Lost, Arrived} \cap Journey(from, to) # {}

(* The firewalls it meets: those of the VPCs it is diverted into, and one   *)
(* behind an endpoint its own subnet routes to.                             *)
Meets(from, to) ==
    { f \in net.firewalls :
        \/ \E p \in Journey(from, to), a \in Attachments :
              p.attach = a.id /\ a.kind = "vpc" /\ a.resource = f.vpc /\ f.vpc # net.home[from]
        \/ \E r \in Leaves(from, to) : r.kind = "endpoint" /\ r.target = f.endpoint }

VPCLinks(vpc, tgw) == { a \in Attachments : a.kind = "vpc" /\ a.resource = vpc /\ a.tgw = tgw }

(* From the gateway at p it goes to its destination.                        *)
Delivers(p, to) == p.at = "gateway" /\ Onward(p.id, p.attach, to) = Arrived

(* The gateways, attachments and firewalls it passes, whichever way round.  *)
Components(from, to) ==
    (UNION { {p.id, p.attach} : p \in { p \in Journey(from, to) : p.at = "gateway" } })
    \cup { a.id : a \in UNION { VPCLinks(net.home[to], p.id) :
                                p \in { p \in Journey(from, to) : Delivers(p, to) } } }
    \cup { f.id : f \in Meets(from, to) }

-----------------------------------------------------------------------------
(* Properties.                                                              *)

(* Every variable holds a value of its kind.                                *)
TypeOK ==
    /\ walk \in Walks \cup {"done"}
    /\ pos.at \in {"subnet", "gateway", "peering", "inspection"}
    /\ pos.at \in {"peering", "inspection"} => \E a \in Attachments : a.id = pos.attach
    /\ \A w \in Walks : inspected[w] \subseteq { f.id : f \in net.firewalls }
    /\ verdict \in [Walks -> {"none", "pass", "blocked", "abstain"}]
    /\ walk = "done" => verdict["forward"] # "none" /\ verdict["again"] # "none"

(* Every route has a destination in IPv4; one that has none is taken to     *)
(* match every address.                                                     *)
OnlyIPv4 ==
    /\ \A t \in net.tables   : \A i \in DOMAIN t.routes : t.routes[i].ipv4
    /\ \A g \in net.gateways : \A i \in DOMAIN g.routes : g.routes[i].ipv4

(* Of endpoints in two VPCs the walk knows transit gateways only, and calls *)
(* every other route a block (README.md, "where the abstention stance is    *)
(* not yet carried through").                                               *)
OtherWay(from, to) == \E r \in Leaves(from, to) : ~r.dead /\ IsDirect(r)

(* A walk's verdict is true of the network.  One that passes, or abstains   *)
(* for want of a policy and nothing else, went where the packet goes: it is *)
(* delivered.  A block is real where everything on the way was collected    *)
(* and the subnet's route is not one of those the walk does not know: the   *)
(* packet is not delivered, or a firewall on the way drops it.              *)
VerdictIsTrue ==
    \A w \in Walks :
        /\ verdict[w] \in {"pass", "abstain"} => Delivered(Source(w), Dest(w))
        /\ /\ verdict[w] = "blocked"
           /\ net.collected = Gateway /\ net.home["dst"] \notin {None, "external"} /\ OnlyIPv4
           => \/ ~Delivered(Source(w), Dest(w)) \/ OtherWay(Source(w), Dest(w))
              \/ w # "return" /\ \E f \in Meets(Source(w), Dest(w)) : f.verdict # "pass"

(* No inspection point is passed over: a forward walk that passes evaluated *)
(* every firewall the packet meets and each let it through, or the flag had *)
(* it skip them; a way back that passes meets none, flag or no flag         *)
(* (requirements 4.4 and 7.1).  It does not hold of the way to a declared   *)
(* external network, which is walked to the first gateway, nor of firewalls *)
(* whose endpoints the source's own VPC routes to.                          *)
EveryPolicyMet ==
    \A w \in Walks :
        verdict[w] = "pass" /\ net.home["dst"] # "external" =>
            \A f \in Meets(Source(w), Dest(w)) :
                f.vpc # net.home[Source(w)] =>
                    /\ w # "return" /\ f.id \in inspected[w]
                    /\ net.skipFirewall \/ f.verdict = "pass"

(* What a walk says of the network is so.                                   *)
WalkIsTrue == VerdictIsTrue /\ EveryPolicyMet

(* Two runs over one snapshot give the same verdict, "which is what rules   *)
(* out map iteration order" (internal/cli/json_test.go).                    *)
SameAnswer == walk = "done" => verdict["forward"] = verdict["again"]

Single(S) == \A x, y \in S : x = y

(* No lookup on the way there finds more than one entry of a map: a table   *)
(* of the source's subnet, a gateway's table for what the source sends or   *)
(* what comes over a peering, an attachment for a route's target, a         *)
(* firewall in a VPC and a table behind it.                                 *)
Unambiguous ==
    /\ Single(SubnetTables("src"))
    /\ \A a \in Attachments :
          /\ a.kind = "peering" => \A tgw \in Gateway : Single(TablesFor(a.id, tgw))
          /\ a.kind = "vpc" =>
                /\ a.resource = net.home["src"] => Single(TablesFor(a.id, a.tgw))
                /\ Single(FirewallsIn(a.resource))
                /\ Single({ g \in net.gateways : a.id \in g.assoc })
    /\ \A g \in net.gateways : \A i \in DOMAIN g.routes :
          Single(AttachmentFor(g.tgw, g.routes[i].target))

(* The gateways a packet may come into by an attachment.                    *)
EnteredBy(a) ==
    CASE a.kind = "vpc"     -> {a.tgw}
      [] a.kind = "peering" -> {a.tgw, a.resource}
      [] OTHER              -> {}

Associated(a) == { g \in net.gateways : a.id \in g.assoc }

(* The endpoints are collected, or the destination is nowhere, and neither  *)
(* is where inspection is.  Of each one's subnet the table is recorded, or  *)
(* its VPC has the main one only; it has one route to a destination, local  *)
(* within the VPC and nowhere else, and none to a firewall's endpoint.      *)
FaithfulSubnets ==
    /\ net.home["src"] \notin {None, "external"} /\ net.home["dst"] # "external"
    /\ \A e \in {"src", "dst"} :
          /\ FirewallsIn(net.home[e]) = {}
          /\ Single(SubnetTables(e))
          /\ net.subnet[e] = None => \A t \in SubnetTables(e) : t.main
          /\ \A t \in SubnetTables(e), d \in {"src", "dst"} \ {e} :
                /\ Single(RealRoute(t.routes, d))
                /\ \A r \in RealRoute(t.routes, d) : ~r.dead =>
                      /\ r.kind # "endpoint"
                      /\ r.kind = "local" <=> net.home[e] = net.home[d]

(* An attachment is associated with one table of each gateway it leads into *)
(* (a gateway none of whose tables were collected aside), and with none of  *)
(* another; an inspection VPC has one firewall.                             *)
FaithfulAttachments ==
    \A a \in Attachments :
        /\ a.id # None
        /\ \A tgw \in EnteredBy(a) :
              Single(TablesFor(a.id, tgw)) /\ TablesFor(a.id, tgw) \subseteq Associated(a)
        /\ a.kind = "vpc" => /\ Single(FirewallsIn(a.resource))
                             /\ \A g \in Associated(a) : g.tgw = a.tgw

(* A gateway's table has one route to a destination.  What is looked up for *)
(* its target is the attachment it leaves by, a peering's far end is the    *)
(* other gateway's, and what it leads to besides attachments is near.       *)
FaithfulGateways ==
    \A g \in net.gateways, d \in {"src", "dst"} :
        /\ Single(RealRoute(g.routes, d))
        /\ \A r \in RealRoute(g.routes, d) :
              LET out == { a \in Attachments : a.id = r.out }
              IN  /\ ~r.dead /\ r.kind = "attachment" =>
                        /\ AttachmentFor(g.tgw, r.target) = out
                        /\ \A a \in out : a.kind = "peering" =>
                              Far(r, a) = IF a.tgw = g.tgw THEN a.resource ELSE a.tgw
                  /\ ~r.dead /\ r.kind # "attachment" =>
                        IF net.home[d] # None /\ d \in g.near
                        THEN \E a \in out : a.kind = "vpc" /\ a.resource = net.home[d]
                        ELSE \A a \in out : a.kind = "vpn"

(* The snapshot says of the packet's way, or does not say, what the network *)
(* does: every lookup of the walk finds what AWS would.                     *)
Faithful == OnlyIPv4 /\ FaithfulSubnets /\ FaithfulAttachments /\ FaithfulGateways

Compared == walk \notin {"forward", "return"} /\ verdict["return"] \in {"pass", "abstain"}

(* Gateways' routes name attachments, as those of the test fixtures do.     *)
(* Collected ones name the VPC behind an attachment (ec2.go), where the     *)
(* entry into a gateway names the attachment.                               *)
RoutesNameAttachments ==
    \A g \in net.gateways : \A i \in DOMAIN g.routes :
        \A a \in Attachments : a.kind = "vpc" => g.routes[i].target # a.resource

PeeringsBetweenGateways ==
    { a \in Attachments : a.kind = "peering" /\ a.resource \in Gateway }

(* The two directions have the same names for what they pass: a route to a  *)
(* VPC or over a peering is kept as one to an attachment, of the table's    *)
(* own gateway or to the far one by name.  A gateway has one link to a VPC  *)
(* and one peering with the other, which is not itself; and what is of      *)
(* different kinds, the endpoints' VPCs too, has different identifiers.     *)
NamedAlike ==
    /\ \A g \in net.gateways, d \in {"src", "dst"} : \A r \in RealRoute(g.routes, d) :
          ~r.dead => \A a \in Attachments : a.id = r.out /\ a.kind # "vpn" =>
                /\ r.kind = "attachment"
                /\ a.kind = "vpc" => a.tgw = g.tgw
                /\ a.kind = "peering" => r.target \in Gateway /\ a \in PeeringsBetweenGateways
    /\ \A d \in {"src", "dst"}, tgw \in Gateway : Single(VPCLinks(net.home[d], tgw))
    /\ Single(PeeringsBetweenGateways) /\ \A a \in PeeringsBetweenGateways : a.resource # a.tgw
    /\ \A a \in Attachments : a.id \notin Gateway
    /\ {net.home["src"], net.home["dst"]} \cap (Gateway \cup { a.id : a \in Attachments }) = {}
    /\ \A f \in net.firewalls :
          {f.id, f.vpc} \cap (Gateway \cup { a.id : a \in Attachments }) = {}

(* A packet that comes back by other gateways, attachments or firewalls     *)
(* than it went by is reported as asymmetric (requirement 7.2), and no      *)
(* other is, where routes name attachments: from a collected snapshot the   *)
(* names of the VPCs tell even two ways apart that are the same.            *)
AsymmetryIsTrue ==
    Compared =>
        /\ Components("src", "dst") # Components("dst", "src") => Asymmetric
        /\ Asymmetric => \/ Components("src", "dst") # Components("dst", "src")
                         \/ ~RoutesNameAttachments

(* A question gets its answer: the walks end wherever the packet's own way  *)
(* does.  Where routes lead in a circle nothing bounds the walk either.     *)
Answers ==
    (\A w \in Walks : Settles(Source(w), Dest(w))) => <>(walk = "done")

=============================================================================
