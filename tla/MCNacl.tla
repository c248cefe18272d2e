------------------------------- MODULE MCNacl -------------------------------
(* Up to three rules over four ports: 0, two services and a client's.       *)
EXTENDS Nacl

MCRule(n, proto, block, range, allow) ==
    [number |-> n, proto |-> proto, block |-> block, lo |-> range[1], hi |-> range[2],
     allow |-> allow]

Blocks == { S \in SUBSET Remotes : S # {} }
Ranges == { << 0, 0 >>, << 1, 1 >>, << 2, 3 >>, << 0, 3 >> }

Numbered(n) ==
    { MCRule(n, proto, block, range, allow) :
          proto \in {"tcp", "any", "other"}, block \in Blocks, range \in Ranges, allow \in BOOLEAN }

Last == { MCRule(300, "any", Remotes, << 0, 0 >>, allow) : allow \in BOOLEAN }

MCRules ==
    {{}} \cup { {r} : r \in Numbered(100) }
    \cup { {r, s} : r \in Numbered(100), s \in Numbered(200) }
    \cup { {r, s, t} : r \in Numbered(100), s \in Numbered(200), t \in Last }

MCFlow(proto, ports, used) ==
    [remote |-> "near", proto |-> proto, ports |-> ports, used |-> used]

(* To one port, and back, to a client's.                                    *)
MCFlows == { MCFlow(proto, {p}, {p}) : proto \in {"tcp", "icmp"}, p \in Ports }
           \cup { MCFlow("tcp", Ports, {2, 3}) }

=============================================================================
