-------------------------------- MODULE Resolve --------------------------------
(***************************************************************************)
(* What an operator's word for an endpoint means (internal/ops/resolve.go),*)
(* and where the walk looks for the address it is given                    *)
(* (internal/query/graph.go): two lookups over one snapshot, each with     *)
(* rules of its own.                                                       *)
(*                                                                         *)
(* A CIDR is the set of its addresses, its network address the lowest of   *)
(* them; the longer prefix is the smaller set.                             *)
(***************************************************************************)
EXTENDS Integers, Sequences, FiniteSets

CONSTANTS
  VPCNames, (* the VPCs there are                                           *)
  Names     (* instance ids, interface ids and Name tags                    *)

Address == Nat

(* A collected interface: the names it goes by, its private addresses with  *)
(* the primary one first, its public ones, and whether it is in use.        *)
Interface == [vpc : VPCNames, names : SUBSET Names, private : Seq(Address),
              public : SUBSET Address, inUse : BOOLEAN]

(* A subnet, with or without a route table of its own, a VPC, and a         *)
(* declared external network.                                               *)
Subnet  == [vpc : VPCNames, cidr : SUBSET Address, table : BOOLEAN]
VPC     == [vpc : VPCNames, cidrs : SUBSET (SUBSET Address)]
Network == [cidrs : SUBSET (SUBSET Address)]

(* A snapshot as far as addresses go.                                       *)
IsSnapshot(snap) ==
    /\ DOMAIN snap = {"interfaces", "subnets", "vpcs", "externals"}
    /\ snap.interfaces \subseteq Interface /\ snap.subnets \subseteq Subnet
    /\ snap.vpcs \subseteq VPC /\ snap.externals \subseteq Network
    /\ IsFiniteSet(snap.interfaces) /\ IsFiniteSet(snap.subnets) /\ IsFiniteSet(snap.vpcs)
    /\ \A s \in snap.subnets : IsFiniteSet(s.cidr)
    /\ \A v \in snap.vpcs : \A cidr \in v.cidrs : IsFiniteSet(cidr)

(* What the operator typed: an address, a CIDR, or anything else.           *)
ByAddress(a) == [form |-> "address", addr |-> a, cidr |-> {a}, name |-> ""]
ByPrefix(s)  == [form |-> "prefix", cidr |-> s, name |-> "",
                 addr |-> CHOOSE a \in s : \A b \in s : a <= b]
ByName(n)    == [form |-> "name", addr |-> 0, cidr |-> {}, name |-> n]

IsInput(w) ==
    /\ w.form \in {"address", "prefix", "name"}
    /\ w.form = "address" => w = ByAddress(w.addr)
    /\ w.form = "prefix"  => w = ByPrefix(w.cidr)
    /\ w.form = "name"    => w = ByName(w.name)

Nowhere == "nowhere"

(* A resolved endpoint, or the reason there is none.                        *)
Endpoint(kind, vpc, addr) == [kind |-> kind, vpc |-> vpc, addr |-> addr]

Ambiguous  == Endpoint("ambiguous", Nowhere, 0)
Unresolved == Endpoint("unresolved", Nowhere, 0)

(* Slip: only the endpoint that was not found at all is an error.           *)
ResolvesLoose(e) == e.kind # "unresolved"

Resolves(e) == e.kind \notin {"ambiguous", "unresolved"}

-----------------------------------------------------------------------------
(* ResolveEndpoint.                                                         *)

Addresses(i) == { i.private[k] : k \in DOMAIN i.private } \cup i.public

InUse(snap) == { i \in snap.interfaces : i.inUse }

(* interfacesHoldingAddr.                                                   *)
Holding(snap, a) == { i \in InUse(snap) : a \in Addresses(i) }

(* Is a in the CIDR, and the CIDR no narrower than the one that was named.  *)
Covers(cidr, a, named) == a \in cidr /\ Cardinality(named) <= Cardinality(cidr)

SubnetsContaining(snap, a, named) == { s \in snap.subnets : Covers(s.cidr, a, named) }

VPCsContaining(snap, a, named) ==
    { v \in snap.vpcs : \E cidr \in v.cidrs : Covers(cidr, a, named) }

(* Slip: the first of several subnets will do.                              *)
TheOneFirst(kind, found, a) ==
    IF kind = "interface" /\ Cardinality(found) > 1 THEN Ambiguous
    ELSE Endpoint(kind, (CHOOSE x \in found : TRUE).vpc, a)

(* More than one resource of a kind is refused, never chosen from.          *)
TheOne(kind, found, a) ==
    IF Cardinality(found) > 1 THEN Ambiguous
    ELSE Endpoint(kind, (CHOOSE x \in found : TRUE).vpc, a)

(* resolveAddr and resolvePrefix: the most particular kind of resource that *)
(* there is one of decides; what no collected VPC owns is external.         *)
ResolveAddr(snap, a, named) ==
    LET subnets == SubnetsContaining(snap, a, named)
        vpcs    == VPCsContaining(snap, a, named)
    IN  IF Holding(snap, a) # {} THEN TheOne("interface", Holding(snap, a), a)
        ELSE IF subnets # {} THEN TheOne("subnet", subnets, a)
        ELSE IF vpcs # {} THEN TheOne("vpc", vpcs, a)
        ELSE Endpoint("external", Nowhere, a)

(* resolveName: one interface, at its primary private address.              *)
ResolveName(snap, name) ==
    LET found == { i \in InUse(snap) : name \in i.names }
        one   == CHOOSE i \in found : TRUE
    IN  IF found = {} THEN Unresolved
        ELSE IF Cardinality(found) > 1 THEN Ambiguous
        ELSE IF one.private = << >> THEN Unresolved
        ELSE Endpoint("interface", one.vpc, Head(one.private))

ResolveEndpoint(snap, input) ==
    IF input.form = "name" THEN ResolveName(snap, input.name)
    ELSE ResolveAddr(snap, input.addr, input.cidr)

-----------------------------------------------------------------------------
(* Where query.Run looks: it is handed the address and nothing else.        *)

(* subnetForAddr: a subnet of the longest prefix, of those one with a route *)
(* table of its own, of those any, in map order.                            *)
SubnetForAddr(snap, a) ==
    LET holding == { s \in snap.subnets : a \in s.cidr }
        longest == { s \in holding : \A t \in holding : Cardinality(s.cidr) <= Cardinality(t.cidr) }
        routed  == { s \in longest : s.table }
    IN  IF routed # {} THEN routed ELSE longest

(* The VPCs in which the walk may place the address.                        *)
Places(snap, a) ==
    IF SubnetForAddr(snap, a) = {} THEN {Nowhere} ELSE { s.vpc : s \in SubnetForAddr(snap, a) }

(* eniForAddr: the VPCs of the interface whose security groups are read;    *)
(* of several the lowest identifier, which may be any of them.              *)
GroupPlaces(snap, a) ==
    IF Holding(snap, a) = {} THEN {Nowhere} ELSE { i.vpc : i \in Holding(snap, a) }

=============================================================================
