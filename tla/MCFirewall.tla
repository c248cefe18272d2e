----------------------------- MODULE MCFirewall -----------------------------
(* Policies of two groups with two rules between them and one more, over    *)
(* four addresses and four ports, with lists that are written in pieces;    *)
(* and every set of addresses and of ports there is, for the algebra.       *)
EXTENDS Firewall

(* The algebra, on all there is to compute.                                 *)
ASSUME PortsComputed == PortsAreExact

ASSUME AddressesComputed == PrefixesAreExact

-----------------------------------------------------------------------------
P(addr, bits) == [addr |-> addr, bits |-> bits]

Host(addr) == P(addr, 2)

R(lo, hi) == [lo |-> lo, hi |-> hi]

(* One address; three, one of them named twice; all, in four ways.          *)
One == { Host(1) }
Three == { P(1, 1), Host(0), Host(2) }
Hosts == { Host(0), Host(1), Host(2), Host(3) }

(* The ports 0, 1 and 3, as a list.                                         *)
Some == { R(3, 3), R(0, 0), R(1, 1) }

MCRule(src, dst, dports, action, proto, both, parses) ==
    [src |-> src, dst |-> dst, proto |-> proto, sports |-> AllPorts, dports |-> dports,
     action |-> action, both |-> both, parses |-> parses]

OneWay == { MCRule(src, dst, dports, action, "any", FALSE, TRUE) :
                src \in {One, Three}, dst \in {{Host(2)}, Hosts}, dports \in {Some, {R(1, 3), R(2, 2)}},
                action \in {"pass", "drop"} }

Odd == { MCRule(One, {Host(2)}, Some, "alert", "any", FALSE, TRUE),
         MCRule(One, AllIPv4, Some, "drop", "tcp", FALSE, TRUE),
         MCRule(One, {Host(2)}, AllPorts, "drop", "any", FALSE, FALSE) }

BothWays == { MCRule(One, {P(2, 1)}, dports, action, "any", TRUE, TRUE) :
                  dports \in {Some, AllPorts}, action \in {"pass", "drop"} }

MCGroup(priority, readable, rules) ==
    [priority |-> priority, readable |-> readable, rules |-> rules]

MCPolicy(strict, drops, groups) ==
    [strict |-> strict, drops |-> drops, groups |-> groups]

Everything == [src |-> AllIPv4, dst |-> AllIPv4, proto |-> "any", ports |-> AllPorts]

Stretch == [Everything EXCEPT !.proto = "tcp"]

Nowhere == [Everything EXCEPT !.dst = {}]

Pair == [src |-> {Host(2)}, dst |-> One, proto |-> "udp", ports |-> { R(1, 1) }]

(* The second group listed comes first, or they are equals.                 *)
TwoGroups(first, second, readable) ==
    { << MCGroup(p, readable, << r, s >>), MCGroup(2, TRUE, << t >>) >> :
          p \in {2, 3}, r \in first, s \in first, t \in second }

MCPolicies(first, second, readable, strict) ==
    { MCPolicy(strict, drops, g) : drops \in BOOLEAN, g \in TwoGroups(first, second, readable) }

Case(p, f) == [policy |-> p, flow |-> f]

(* Rules of the second group, for any destination.                          *)
Later == { r \in OneWay : r.dst = Hosts }

(* Rules that match in either direction meet a flow of one host, and ranges.*)
MCCases ==
    { Case(p, Stretch) : p \in MCPolicies(OneWay, Later, TRUE, TRUE) }
    \cup { Case(p, Everything) : p \in MCPolicies(Odd, Later, TRUE, TRUE) }
    \cup { Case(p, Stretch) : p \in MCPolicies(Odd, Later, FALSE, TRUE) }
    \cup { Case(p, Stretch) : p \in MCPolicies(Odd, Odd, TRUE, FALSE) }
    \cup { Case(p, f) : p \in MCPolicies(BothWays, Later, TRUE, TRUE), f \in {Pair, Stretch, Nowhere} }

=============================================================================
