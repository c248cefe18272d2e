------------------------------ MODULE Firewall ------------------------------
(***************************************************************************)
(* The Network Firewall evaluator (internal/nfw/evaluate.go, rule.go,      *)
(* verdict.go) over the slices of internal/flow/flow.go: a flow is a box   *)
(* of sources, destinations and ports, each kept as PrefixSets and         *)
(* PortSets keep them.  The rule groups of a policy are taken in priority  *)
(* order, and each rule in turn takes the part of the remaining traffic it *)
(* matches.  Beside it stands what the engine does with each packet, also  *)
(* where a group could not be read.                                        *)
(*                                                                         *)
(* Only destination ports are tracked, as in the code: a rule's source     *)
(* ports matter where it is read the other way round.                      *)
(***************************************************************************)
EXTENDS Sequences, PortSets, PrefixSets

CONSTANT Cases   (* the policies there may be, each with a flow to evaluate  *)

Protocols == {"tcp", "udp", "icmp"}

HasPorts(proto) == proto \in {"tcp", "udp"}

(* A flow.Slice holds both kinds of set in their one form, and all ports    *)
(* where the protocol has none.                                             *)
IsBox(b) ==
    /\ b.src \in PrefixSet /\ b.dst \in PrefixSet
    /\ b.proto \in Protocols
    /\ b.ports \in PortSet
    /\ HasPorts(b.proto) \/ b.ports = AllPorts

(* A rule's lists are as they were written, in any order and overlapping.   *)
Rule == [src : SUBSET Written, dst : SUBSET Written,
         proto : Protocols \cup {"any"},
         sports : SUBSET PortRange, dports : SUBSET PortRange,
         action : {"pass", "drop", "alert"}, both : BOOLEAN, parses : BOOLEAN]

(* A rule group as the policy refers to it: can it be evaluated - it is in  *)
(* the snapshot, and holds nothing beyond 5-tuple rules - and what its      *)
(* rules are.                                                               *)
Group == [priority : Nat, readable : BOOLEAN, rules : Seq(Rule)]

Policy == [strict : BOOLEAN, drops : BOOLEAN, groups : Seq(Group)]

ASSUME CasesAssumption ==
    \A c \in Cases : c.policy \in Policy
                     /\ c.flow \in [src : SUBSET Written, dst : SUBSET Written,
                                    proto : Protocols \cup {"any"}, ports : SUBSET PortRange]

VARIABLES
  policy, flow,
  protocols,   (* the protocols of the flow still to be evaluated            *)
  visited,     (* the groups gone through for this protocol                  *)
  group,       (* the group being applied, 0 between groups                  *)
  rule,        (* the rule of it that is next                                *)
  remaining,   (* the traffic nothing has decided                            *)
  decisions,   (* Result.Decisions                                           *)
  abstentions, (* Result.Abstentions: groups, 0 for the policy itself        *)
  phase

firewallVars == << policy, flow, protocols, visited, group, rule, remaining,
                   decisions, abstentions, phase >>

-----------------------------------------------------------------------------
(* Boxes.                                                                   *)

IsEmpty(b) == b.src = {} \/ b.dst = {} \/ b.ports = {}

NonEmpty(S) == { b \in S : ~IsEmpty(b) }

(* Slip: whatever ports are given are kept.                                 *)
NewSliceAsGiven(src, dst, proto, ports) ==
    [src |-> src, dst |-> dst, proto |-> proto, ports |-> ports]

(* NewSlice: a protocol without ports has all of them.                      *)
NewSlice(src, dst, proto, ports) ==
    [src |-> src, dst |-> dst, proto |-> proto,
     ports |-> IF HasPorts(proto) THEN ports ELSE AllPorts]

(* Slice.Intersect, for a slice of one protocol.                            *)
Intersect(b, src, dst, ports) ==
    NewSlice(IntersectPrefixes(b.src, src), IntersectPrefixes(b.dst, dst), b.proto,
             IntersectPorts(b.ports, ports))

(* What the match leaves of its own sources and destinations.               *)
OtherPorts(b, m) ==
    IF HasPorts(b.proto)
    THEN { NewSlice(m.src, m.dst, b.proto, SubtractPorts(b.ports, m.ports)) } ELSE {}

(* Slip: the second box keeps the sources of the first.                     *)
SubtractOverlapping(b, m) ==
    NonEmpty({ NewSlice(SubtractPrefixes(b.src, m.src), b.dst, b.proto, b.ports),
               NewSlice(b.src, SubtractPrefixes(b.dst, m.dst), b.proto, b.ports) }
             \cup OtherPorts(b, m))

(* subtract: the sources outside the match, then the destinations outside   *)
(* it, then the ports.                                                      *)
Subtract(b, m) ==
    NonEmpty({ NewSlice(SubtractPrefixes(b.src, m.src), b.dst, b.proto, b.ports),
               NewSlice(m.src, SubtractPrefixes(b.dst, m.dst), b.proto, b.ports) }
             \cup OtherPorts(b, m))

(* compile: the lists of a rule as sets.                                    *)
Compile(r) ==
    [r EXCEPT !.src = NormalizePrefixes(@), !.dst = NormalizePrefixes(@),
              !.sports = NormalizePorts(@), !.dports = NormalizePorts(@)]

(* matcher.match: the rule as written, else the other way round.            *)
Match(m, b) ==
    LET forward == Intersect(b, m.src, m.dst, m.dports)
        reverse == Intersect(b, m.dst, m.src, m.sports)
    IN  IF m.proto \notin {"any", b.proto} THEN {}
        ELSE IF ~IsEmpty(forward) THEN {forward}
        ELSE { k \in {reverse} : m.both /\ ~IsEmpty(reverse) }

(* What a rule leaves of a box.                                             *)
Leftover(m, b) ==
    IF Match(m, b) = {} THEN {b} ELSE UNION { Subtract(b, k) : k \in Match(m, b) }

Decision(b, verdict) == [box |-> b, verdict |-> verdict]

-----------------------------------------------------------------------------
(* Evaluate.                                                                *)

(* A flow without traffic has no verdict.                                   *)
FirewallInit ==
    /\ \E c \in Cases :
        /\ policy = c.policy
        /\ flow = NewSlice(NormalizePrefixes(c.flow.src), NormalizePrefixes(c.flow.dst),
                           c.flow.proto, NormalizePorts(c.flow.ports))
        /\ protocols = IF c.flow.proto = "any" THEN << "tcp", "udp", "icmp" >>
                       ELSE << c.flow.proto >>
    /\ visited = {} /\ group = 0 /\ rule = 1
    /\ remaining = {} /\ decisions = {} /\ abstentions = {}
    /\ phase = IF IsEmpty(flow) THEN "done" ELSE "protocol"

(* One protocol of the flow; a policy in DEFAULT_ACTION_ORDER is declared   *)
(* not modelled, and evaluated all the same.                                *)
Begin ==
    /\ phase = "protocol"
    /\ protocols # << >>
    /\ remaining' = { NewSlice(flow.src, flow.dst, Head(protocols), flow.ports) }
    /\ abstentions' = IF policy.strict THEN abstentions ELSE abstentions \cup {0}
    /\ visited' = {}
    /\ phase' = "groups"
    /\ UNCHANGED << policy, flow, protocols, group, rule, decisions >>

Unvisited == DOMAIN policy.groups \ visited

(* By priority, and as listed among equals.                                 *)
ComesFirst(i, j) ==
    LET p == policy.groups[i].priority  q == policy.groups[j].priority
    IN  p < q \/ (p = q /\ i <= j)

TakeGroup ==
    /\ phase = "groups"
    /\ group = 0
    /\ remaining # {}
    /\ \E i \in Unvisited :
        /\ \A j \in Unvisited : ComesFirst(i, j)
        /\ visited' = visited \cup {i}
        /\ IF policy.groups[i].readable
           THEN group' = i /\ rule' = 1 /\ UNCHANGED abstentions
           ELSE abstentions' = abstentions \cup {i} /\ UNCHANGED << group, rule >>
    /\ UNCHANGED << policy, flow, protocols, remaining, decisions, phase >>

(* applyGroup, one rule: it decides what it matches and leaves the rest; a  *)
(* rule that only alerts leaves everything, one that cannot be parsed is    *)
(* declared and passed over.                                                *)
ApplyRule ==
    /\ phase = "groups"
    /\ group # 0
    /\ remaining # {}
    /\ rule <= Len(policy.groups[group].rules)
    /\ rule' = rule + 1
    /\ LET r == policy.groups[group].rules[rule]
           m == Compile(r)
       IN  IF ~r.parses
           THEN abstentions' = abstentions \cup {group} /\ UNCHANGED << remaining, decisions >>
           ELSE /\ IF r.action = "alert"
                   THEN UNCHANGED << remaining, decisions >>
                   ELSE /\ remaining' = UNION { Leftover(m, b) : b \in remaining }
                        /\ decisions' = decisions \cup
                               { Decision(k, r.action) : k \in UNION { Match(m, b) : b \in remaining } }
                /\ UNCHANGED abstentions
    /\ UNCHANGED << policy, flow, protocols, visited, group, phase >>

LeaveGroup ==
    /\ phase = "groups"
    /\ group # 0
    /\ remaining = {} \/ rule > Len(policy.groups[group].rules)
    /\ group' = 0
    /\ UNCHANGED << policy, flow, protocols, visited, rule, remaining, decisions,
                    abstentions, phase >>

DefaultAction == IF policy.drops THEN "drop" ELSE "pass"

(* What no rule matched is decided by the policy's default.                 *)
Default ==
    /\ phase = "groups"
    /\ group = 0
    /\ remaining = {} \/ Unvisited = {}
    /\ decisions' = decisions \cup { Decision(b, DefaultAction) : b \in remaining }
    /\ remaining' = {}
    /\ protocols' = Tail(protocols)
    /\ phase' = IF Len(protocols) = 1 THEN "done" ELSE "protocol"
    /\ UNCHANGED << policy, flow, visited, group, rule, abstentions >>

FirewallNext == Begin \/ TakeGroup \/ ApplyRule \/ LeaveGroup \/ Default

FirewallSpec == FirewallInit /\ [][FirewallNext]_firewallVars

(* Slip: what could not be read is no reason to doubt a verdict.            *)
LayerResultHeedless ==
    IF \E d \in decisions : d.verdict = "drop" THEN "blocked" ELSE "pass"

(* Result.LayerResult: any abstention makes the whole verdict uncertain,    *)
(* and so does having decided nothing.                                      *)
LayerResult ==
    IF abstentions # {} \/ decisions = {} THEN "abstain"
    ELSE IF \E d \in decisions : d.verdict = "drop" THEN "blocked" ELSE "pass"

-----------------------------------------------------------------------------
(* The engine, packet by packet.                                            *)

Packets(b) == [src : AddressesIn(b.src), dst : AddressesIn(b.dst),
               proto : {b.proto}, port : PortsIn(b.ports)]

(* A rule whose direction is ANY matches its header either way round.       *)
Catches(r, k) ==
    /\ r.action # "alert"
    /\ r.proto \in {"any", k.proto}
    /\ \/ /\ k.src \in AddressesIn(r.src) /\ k.dst \in AddressesIn(r.dst)
          /\ HasPorts(k.proto) => k.port \in PortsIn(r.dports)
       \/ /\ r.both /\ k.src \in AddressesIn(r.dst) /\ k.dst \in AddressesIn(r.src)
          /\ HasPorts(k.proto) => k.port \in PortsIn(r.sports)

(* The rules that catch a packet, among those of the groups gs, as pairs of *)
(* a group and a position in it.                                            *)
Catching(k, gs) == UNION { { << i, n >> : n \in { n \in DOMAIN policy.groups[i].rules :
                                     Catches(policy.groups[i].rules[n], k) } } : i \in gs }

(* Is rule a gone through before rule b: lower priorities first, equals as  *)
(* the policy lists them, and within a group as it is written.              *)
Earlier(a, b) ==
    LET p == policy.groups[a[1]].priority  q == policy.groups[b[1]].priority
    IN  \/ p < q
        \/ p = q /\ a[1] < b[1]
        \/ a[1] = b[1] /\ a[2] <= b[2]

(* The verdict of the first rule that catches the packet, else the default. *)
FirstMatch(k, gs) ==
    LET rules == Catching(k, gs)
    IN  IF rules = {} THEN DefaultAction
        ELSE LET first == CHOOSE a \in rules : \A b \in rules : Earlier(a, b)
             IN  policy.groups[first[1]].rules[first[2]].action

-----------------------------------------------------------------------------
(* Properties.                                                              *)

(* Every variable holds a value of its kind, no box is empty, and its sets  *)
(* are in their one form, however the rules' lists were written.            *)
FirewallTypeOK ==
    /\ protocols \in Seq(Protocols)
    /\ visited \subseteq DOMAIN policy.groups
    /\ group \in {0} \cup DOMAIN policy.groups
    /\ rule \in Nat \ {0}
    /\ \A d \in decisions : d.verdict \in {"pass", "drop"}
    /\ abstentions \subseteq {0} \cup DOMAIN policy.groups
    /\ phase \in {"protocol", "groups", "done"}
    /\ \A b \in remaining \cup { d.box : d \in decisions } : IsBox(b) /\ ~IsEmpty(b)

(* No packet is decided twice or decided and still open: however the rules  *)
(* cut the flow, the pieces are disjoint.                                   *)
DecidedOnce ==
    /\ \A d, e \in decisions : d # e => Packets(d.box) \cap Packets(e.box) = {}
    /\ \A d \in decisions, b \in remaining : Packets(d.box) \cap Packets(b) = {}
    /\ \A b, c \in remaining : b # c => Packets(b) \cap Packets(c) = {}

FlowPackets ==
    UNION { Packets(NewSlice(flow.src, flow.dst, p, flow.ports)) :
                p \in IF flow.proto = "any" THEN Protocols ELSE {flow.proto} }

(* Some rule of direction ANY matches one part of the flow as written and   *)
(* another the other way round, and decides the first only.                 *)
TurnsAround ==
    \E i \in DOMAIN policy.groups : \E n \in DOMAIN policy.groups[i].rules :
        LET r == policy.groups[i].rules[n]
        IN  /\ r.both
            /\ AddressesIn(flow.src) \cap AddressesIn(r.src) # {}
            /\ AddressesIn(flow.dst) \cap AddressesIn(r.dst) # {}
            /\ AddressesIn(flow.src) \cap AddressesIn(r.dst) # {}
            /\ AddressesIn(flow.dst) \cap AddressesIn(r.src) # {}

(* With every group and rule readable, each packet of the flow is decided,  *)
(* and as the first rule that catches it says, however the flow was cut up, *)
(* unless a rule of it turns around; and none is decided twice.             *)
FirstMatchWins ==
    /\ DecidedOnce
    /\ phase = "done" /\ abstentions \subseteq {0} /\ ~TurnsAround =>
        \A k \in FlowPackets :
            /\ \E d \in decisions : k \in Packets(d.box)
            /\ \A d \in decisions :
                   k \in Packets(d.box) => d.verdict = FirstMatch(k, DOMAIN policy.groups)

(* The verdict on the Layer is the engine's: blocked means that the engine  *)
(* drops part of the flow, pass that it drops none of it, whatever the      *)
(* groups that could not be read hold (requirements 5.4 and 5.5).           *)
LayerResultIsTrue ==
    phase = "done" /\ ~TurnsAround =>
        LET dropped == \E k \in FlowPackets : FirstMatch(k, DOMAIN policy.groups) = "drop"
        IN  /\ LayerResult = "blocked" => dropped
            /\ LayerResult = "pass"    => ~dropped

=============================================================================
