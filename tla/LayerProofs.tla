---------------------------- MODULE LayerProofs ----------------------------
(***************************************************************************)
(* What is true of the readings a path's Layers get, for every value of    *)
(* the constants: the network ACL scan, the host firewall check, the       *)
(* Network Firewall evaluator, the route walk and the host stage.  They do *)
(* not interact; a name two of them had in common carries the component's. *)
(***************************************************************************)
EXTENDS Nacl, HostFirewall, Firewall, PathWalk, HostProbe, FlowProofs, SequenceTheorems, TLAPS

(* The network ACL scan, for any ports, remotes, rules and flows.           *)

(* TypeOK, and no rule passed over matches.  The second part is what makes  *)
(* the verdicts inductive: they speak of all rules, a step of one.          *)
NaclInv ==
    /\ NaclTypeOK
    /\ rules \in Rules
    /\ naclFlow \in Flows
    /\ naclVerdict = "none" => \A r \in rules \ left : ~Matches(r)

(* The port looked at, where there is one.                                  *)
LEMMA LowestOfOne == \A p \in Nat : Lowest({p}) = p
BY DEF Lowest

(* Where the flow has one port and the rule a known protocol, the program   *)
(* and the network read the rule alike.                                     *)
LEMMA ReadAlike ==
    ASSUME Exact, naclFlow \in Flows, NEW r \in rules, rules \in Rules,
           NEW p \in naclFlow.used
    PROVE  Matches(r) <=> NaclCatches(r, p)
<1>1. naclFlow.ports = {p} /\ p \in Ports
  BY NaclAssumption DEF Exact
<1>2. p \in Nat
  BY <1>1, NaclAssumption
<1>3. Lowest(naclFlow.ports) = p
  BY <1>1, <1>2, LowestOfOne
<1>4. r.proto # "other"
  BY DEF Exact
<1>5. r \in NaclRule
  BY NaclAssumption
<1>6. PortMatches(r, p) <=> (AnyPort(r) \/ p \in r.lo .. r.hi)
  BY <1>2, <1>5 DEF PortMatches, NaclRule
<1> QED
  BY <1>3, <1>4, <1>6 DEF Matches, NaclCatches, ProtoMatches

(* The invariant holds whatever the flows and the rules.                    *)
LEMMA NaclInvHolds == NaclSpec => []NaclInv
<1>1. NaclInit => NaclInv
  <2> SUFFICES ASSUME NaclInit PROVE NaclInv
    OBVIOUS
  <2>1. rules \subseteq NaclRule /\ naclFlow \in Flow
    BY NaclAssumption DEF NaclInit
  <2> QED
    BY <2>1 DEF NaclInit, NaclInv, NaclTypeOK
<1>2. NaclInv /\ [NaclNext]_naclVars => NaclInv'
  <2> SUFFICES ASSUME NaclInv, [NaclNext]_naclVars PROVE NaclInv'
    OBVIOUS
  <2> USE DEF NaclInv, NaclTypeOK
  <2>1. CASE Look
    <3>1. PICK r \in left : /\ NextRule(r)
                            /\ left' = left \ {r}
                            /\ IF Matches(r) THEN Decide(r) ELSE UNCHANGED naclVerdict
      BY <2>1 DEF Look
    <3>2. naclVerdict = "none" /\ rules' = rules /\ naclFlow' = naclFlow
      BY <2>1 DEF Look
    <3>3. \A s \in left' : r.number < s.number
      <4> SUFFICES ASSUME NEW s \in left' PROVE r.number < s.number
        OBVIOUS
      <4>1. s \in left /\ s # r
        BY <3>1
      <4>2. r.number <= s.number
        BY <3>1, <4>1 DEF NextRule
      <4>3. r.number # s.number
        BY <4>1, NaclAssumption
      <4>4. r.number \in Nat /\ s.number \in Nat
        BY <4>1 DEF NaclRule
      <4> QED
        BY <4>2, <4>3, <4>4
    <3>4. \A q \in rules' \ left', s \in left' : q.number < s.number
      BY <3>1, <3>2, <3>3
    <3>5. naclVerdict' \in {"none", "allow", "deny"}
      BY <3>1, <3>2 DEF Decide
    <3>6. naclVerdict' = "none" => ~Matches(r)
      BY <3>1 DEF Decide
    <3>7. \A q : Matches(q)' <=> Matches(q)
      BY <3>2 DEF Matches, ProtoMatches
    <3>8. naclVerdict' = "none" => \A q \in rules' \ left' : ~Matches(q)'
      BY <3>1, <3>2, <3>6, <3>7
    <3> QED
      BY <3>1, <3>2, <3>4, <3>5, <3>8
  <2>2. CASE Exhausted
    BY <2>2 DEF Exhausted, Implicit
  <2>3. CASE UNCHANGED naclVars
    BY <2>3 DEF naclVars, Matches, ProtoMatches
  <2> QED
    BY <2>1, <2>2, <2>3 DEF NaclNext
<1> QED
  BY <1>1, <1>2, PTL DEF NaclSpec

(* Every variable of the scan keeps its kind, and the rules are passed over *)
(* in the order of their numbers (evalNACL's sort), for any Rules.          *)
THEOREM NaclTypeCorrect == NaclSpec => []NaclTypeOK
<1>1. NaclInv => NaclTypeOK
  BY DEF NaclInv
<1> QED
  BY <1>1, NaclInvHolds, PTL

(* For a flow of one port and rules whose protocol the program knows, what  *)
(* evalNACL says is what the network does, by the implicit rule too: the    *)
(* rule that decides is the first that catches the packet.                  *)
THEOREM NaclVerdictsAreTrue == NaclSpec => []NaclVerdictIsTrue
<1>1. NaclInit => NaclVerdictIsTrue
  BY DEF NaclInit, NaclVerdictIsTrue
<1>2. NaclInv /\ NaclInv' /\ NaclVerdictIsTrue /\ [NaclNext]_naclVars => NaclVerdictIsTrue'
  <2> SUFFICES ASSUME NaclInv, NaclInv', NaclVerdictIsTrue, [NaclNext]_naclVars PROVE NaclVerdictIsTrue'
    OBVIOUS
  <2>1. CASE ~Exact
    <3>1. rules' = rules /\ naclFlow' = naclFlow
      BY DEF NaclNext, Look, Exhausted, naclVars
    <3> QED
      BY <2>1, <3>1 DEF NaclVerdictIsTrue, Exact
  <2>2. CASE Exact
    <3>1. PICK p \in Ports : naclFlow.ports = {p}
      BY <2>2 DEF Exact
    <3>2. naclFlow.used = {p}
      BY <3>1, NaclAssumption DEF NaclInv, Flow
    <3>3. \A r \in rules : Matches(r) <=> NaclCatches(r, p)
      BY <2>2, <3>2, ReadAlike DEF NaclInv
    <3>4. CASE Look
      <4>1. PICK r \in left : /\ NextRule(r)
                              /\ left' = left \ {r}
                              /\ IF Matches(r) THEN Decide(r) ELSE UNCHANGED naclVerdict
        BY <3>4 DEF Look
      <4>2. naclVerdict = "none" /\ rules' = rules /\ naclFlow' = naclFlow
        BY <3>4 DEF Look
      <4>3. NaclAdmits(p)' <=> NaclAdmits(p)
        BY <4>2 DEF NaclAdmits, NaclCatches
      <4>4. r \in rules
        BY DEF NaclInv, NaclTypeOK
      <4>5. \A s \in rules : s.number < r.number => ~NaclCatches(s, p)
        <5> SUFFICES ASSUME NEW s \in rules, s.number < r.number PROVE ~NaclCatches(s, p)
          OBVIOUS
        <5>1. s \notin left
          <6> SUFFICES ASSUME s \in left PROVE FALSE
            OBVIOUS
          <6>1. r.number <= s.number
            BY <4>1 DEF NextRule
          <6>2. r.number \in Nat /\ s.number \in Nat
            BY <4>4 DEF NaclInv, NaclTypeOK, NaclRule
          <6> QED
            BY <6>1, <6>2
        <5> QED
          BY <3>3, <4>2, <5>1 DEF NaclInv
      <4>6. CASE ~Matches(r)
        BY <4>1, <4>2, <4>6 DEF NaclVerdictIsTrue
      <4>7. CASE Matches(r) /\ r.allow
        <5>1. NaclAdmits(p)
          BY <3>3, <4>4, <4>5, <4>7 DEF NaclAdmits
        <5>2. naclVerdict' = "allow"
          BY <4>1, <4>7 DEF Decide
        <5> QED
          BY <3>2, <4>2, <4>3, <5>1, <5>2 DEF NaclVerdictIsTrue
      <4>8. CASE Matches(r) /\ ~r.allow
        <5>1. ~NaclAdmits(p)
          <6> SUFFICES ASSUME NEW q \in rules, q.allow, NaclCatches(q, p),
                              \A s \in rules : s.number < q.number => ~NaclCatches(s, p)
                       PROVE  FALSE
            BY DEF NaclAdmits
          <6>1. NaclCatches(r, p)
            BY <3>3, <4>4, <4>8
          <6>2. ~(r.number < q.number) /\ ~(q.number < r.number)
            BY <4>4, <4>5, <6>1
          <6>3. r.number \in Nat /\ q.number \in Nat
            BY <4>4 DEF NaclInv, NaclTypeOK, NaclRule
          <6>4. r.number = q.number
            BY <6>2, <6>3
          <6>5. r = q
            BY <4>4, <6>4, NaclAssumption DEF NaclInv
          <6> QED
            BY <4>8, <6>5
        <5>2. naclVerdict' = "deny"
          BY <4>1, <4>8 DEF Decide
        <5> QED
          BY <3>2, <4>2, <4>3, <5>1, <5>2 DEF NaclVerdictIsTrue
      <4> QED
        BY <4>6, <4>7, <4>8
    <3>5. CASE Exhausted
      <4>1. left = {} /\ naclVerdict = "none" /\ naclVerdict' = "deny" /\ rules' = rules /\ naclFlow' = naclFlow
        BY <3>5 DEF Exhausted, Implicit
      <4>2. \A r \in rules : ~NaclCatches(r, p)
        BY <3>3, <4>1 DEF NaclInv
      <4>3. ~NaclAdmits(p)'
        BY <4>1, <4>2 DEF NaclAdmits, NaclCatches
      <4> QED
        BY <3>2, <4>1, <4>3 DEF NaclVerdictIsTrue
    <3>6. CASE UNCHANGED naclVars
      BY <3>6 DEF naclVars, Exact, NaclVerdictIsTrue, NaclAdmits, NaclCatches
    <3> QED
      BY <3>4, <3>5, <3>6 DEF NaclNext
  <2> QED
    BY <2>1, <2>2
<1> QED
  BY <1>1, <1>2, NaclInvHolds, PTL DEF NaclSpec

-----------------------------------------------------------------------------
(* The host firewall check, for any zone.                                   *)

(* Beside the types: no rule examined so far decided, so what governs the   *)
(* connection is still pending, if they are exact; and the services are     *)
(* read last.                                                               *)
ZoneInv ==
    /\ ZoneTypeOK
    /\ zone \in Zones
    /\ zonePhase # "done" => \A i \in examined : ~Decides(zone.rules[i])
    /\ zonePhase = "services" => examined = DOMAIN zone.rules
    /\ ZoneVerdictIsTrue

(* An exact rule that does not decide does not govern.                      *)
LEMMA SilentRulesDoNotGovern ==
    ASSUME zone \in Zones, NEW i \in DOMAIN zone.rules, zone.rules[i].exact,
           ~Decides(zone.rules[i])
    PROVE  i \notin Governing
<1>1. zone.rules[i] \in RichRule /\ Truthful(zone.rules[i])
  BY ZonesAssumption DEF Zone
<1> QED
  BY <1>1 DEF Decides, Governing, Truthful, RichRule

(* Where every rule governing the connection stands behind i in the check's *)
(* order, and i accepts, the connection is admitted.                        *)
LEMMA FirstAcceptAdmits ==
    ASSUME zone \in Zones, NEW i \in Governing, zone.rules[i].action = "accept",
           \A j \in Governing : Precedes(zone.rules, i, j)
    PROVE  ZoneAdmits
<1> DEFINE early == { j \in Governing : \/ zone.rules[j].priority < 0
                                        \/ zone.rules[j].priority = 0
                                           /\ zone.rules[j].action = "deny" }
           after == { j \in Governing : zone.rules[j].priority > 0 }
<1>1. \A j \in Governing : zone.rules[j] \in RichRule
  BY ZonesAssumption DEF Governing, Zone
<1>2. ASSUME NEW j \in early PROVE i \in early
  <2>1. Precedes(zone.rules, i, j) /\ j \in Governing
    OBVIOUS
  <2> QED
    BY <2>1, <1>1 DEF Precedes, ActionRank, RichRule
<1>3. early # {} => FirstAccepts(early)
  BY <1>2 DEF FirstAccepts
<1>4. early = {} /\ Governing = after => after # {} /\ FirstAccepts(after)
  BY DEF FirstAccepts
<1> QED
  BY <1>3, <1>4 DEF ZoneAdmits

(* Where i denies instead, and not after the services, it is not.           *)
LEMMA FirstDenyRefuses ==
    ASSUME zone \in Zones, NEW i \in Governing, zone.rules[i].action = "deny",
           ~(zone.rules[i].priority > 0),
           \A j \in Governing : Precedes(zone.rules, i, j)
    PROVE  ~ZoneAdmits
<1> DEFINE early == { j \in Governing : \/ zone.rules[j].priority < 0
                                        \/ zone.rules[j].priority = 0
                                           /\ zone.rules[j].action = "deny" }
<1>1. \A j \in Governing : zone.rules[j] \in RichRule
  BY ZonesAssumption DEF Governing, Zone
<1>2. i \in early
  BY <1>1 DEF RichRule
<1>3. ASSUME NEW k \in early, zone.rules[k].action = "accept",
             \A j \in early : Precedes(zone.rules, k, j)
      PROVE  FALSE
  <2>1. Precedes(zone.rules, k, i) /\ Precedes(zone.rules, i, k) /\ k \in Governing
    BY <1>2, <1>3
  <2> QED
    BY <2>1, <1>1, <1>3 DEF Precedes, ActionRank, RichRule
<1> QED
  BY <1>2, <1>3 DEF ZoneAdmits, FirstAccepts

LEMMA ZoneInvInit == ZoneInit => ZoneInv
BY ZonesAssumption DEF ZoneInit, ZoneInv, ZoneTypeOK, ZoneVerdictIsTrue

(* What firewalld does with a zone does not change.                         *)
LEMMA ZoneStays ==
    ASSUME zone' = zone
    PROVE  ZoneAdmits' = ZoneAdmits /\ Unconsulted' = Unconsulted
BY DEF ZoneAdmits, Governing, FirstAccepts, ZoneOpens, Unconsulted

(* The scan: the rule that decides is the first of those that govern.       *)
LEMMA ExamineKeepsInv == ZoneInv /\ Examine => ZoneInv'
<1> SUFFICES ASSUME ZoneInv, Examine PROVE ZoneInv'
  OBVIOUS
<1>1. PICK i \in Pending :
        /\ \A j \in Pending : Precedes(zone.rules, i, j)
        /\ examined' = examined \cup {i}
        /\ IF Decides(zone.rules[i])
           THEN Conclude(RuleVerdict(zone.rules[i]))
           ELSE UNCHANGED << zonePhase, zoneVerdict >>
  BY DEF Examine
<1>2. zone' = zone /\ zonePhase = "rich_rules" /\ zoneVerdict = "none"
  BY DEF Examine, ZoneInv, ZoneTypeOK
<1>3. zone \in Zones /\ i \in DOMAIN zone.rules /\ examined \subseteq DOMAIN zone.rules
  BY DEF ZoneInv, ZoneTypeOK, Pending
<1>4. zone.rules[i] \in RichRule /\ Truthful(zone.rules[i])
  BY <1>3, ZonesAssumption DEF Zone
<1>5. CASE ~Decides(zone.rules[i])
  BY <1>1, <1>2, <1>3, <1>5 DEF ZoneInv, ZoneTypeOK, ZoneVerdictIsTrue
<1>6. CASE Decides(zone.rules[i])
  <2>1. zonePhase' = "done" /\ zoneVerdict' = RuleVerdict(zone.rules[i])
    BY <1>1, <1>6 DEF Conclude
  <2>2. ASSUME ~Misread' PROVE /\ zoneVerdict' = "pass" => ZoneAdmits
                               /\ zoneVerdict' = "blocked" => ~ZoneAdmits \/ LateDenial'
    <3>1. \A j \in examined \cup {i} : zone.rules[j].exact
      BY <1>1, <1>2, <2>2 DEF Misread
    <3>2. \A j \in Governing : j \in DOMAIN zone.rules /\ Precedes(zone.rules, i, j)
      <4> SUFFICES ASSUME NEW j \in Governing
                   PROVE  j \in DOMAIN zone.rules /\ Precedes(zone.rules, i, j)
        OBVIOUS
      <4>1. j \in DOMAIN zone.rules
        BY DEF Governing
      <4>2. j \notin examined
        BY <1>2, <1>3, <3>1, <4>1, SilentRulesDoNotGovern DEF ZoneInv
      <4> QED
        BY <1>1, <4>1, <4>2 DEF Pending
    <3>3. zone.rules[i].matches = "yes" => i \in Governing
      BY <1>3, <1>4, <1>6, <3>1 DEF Truthful, Decides, Governing
    <3>4. zoneVerdict' = "pass" => zone.rules[i].matches # "unknown" /\ zone.rules[i].action = "accept"
      BY <2>1 DEF RuleVerdict
    <3>5. zoneVerdict' = "blocked" => zone.rules[i].matches # "unknown" /\ zone.rules[i].action # "accept"
      BY <2>1 DEF RuleVerdict
    <3>6. zoneVerdict' = "pass" => ZoneAdmits
      BY <3>2, <3>3, <3>4, <1>3, <1>4, <1>6, FirstAcceptAdmits DEF Decides, RichRule
    <3>7. zoneVerdict' = "blocked" =>
             ~ZoneAdmits \/ (zone.rules[i].action = "deny" /\ zone.rules[i].priority > 0)
      BY <3>2, <3>3, <3>5, <1>3, <1>4, <1>6, FirstDenyRefuses DEF Decides, RichRule
    <3>8. zone.rules[i].action = "deny" /\ zone.rules[i].priority > 0 => LateDenial'
      BY <1>1, <1>2 DEF LateDenial
    <3> QED
      BY <3>6, <3>7, <3>8
  <2>3. ZoneVerdictIsTrue'
    BY <2>2, <1>2, ZoneStays DEF ZoneVerdictIsTrue
  <2> QED
    BY <2>1, <2>3, <1>1, <1>2, <1>3 DEF ZoneInv, ZoneTypeOK, RuleVerdict
<1> QED
  BY <1>5, <1>6

(* With every rule examined and none that governs, the services decide.     *)
LEMMA ServicesKeepsInv == ZoneInv /\ Services => ZoneInv'
<1> SUFFICES ASSUME ZoneInv, Services PROVE ZoneInv'
  OBVIOUS
<1>1. zone' = zone /\ examined' = examined /\ zonePhase' = "done"
      /\ zoneVerdict' = ServicesVerdict(zone.services) /\ zone \in Zones
      /\ examined = DOMAIN zone.rules /\ \A i \in examined : ~Decides(zone.rules[i])
  BY DEF Services, Conclude, ZoneInv
<1>2. ASSUME ~Misread'
      PROVE  /\ zoneVerdict' = "pass" => ZoneAdmits
             /\ zoneVerdict' = "blocked" => ~ZoneAdmits \/ Unconsulted
  <2>1. \A i \in DOMAIN zone.rules : zone.rules[i].exact
    BY <1>1, <1>2 DEF Misread
  <2>2. Governing = {}
    BY <1>1, <2>1, SilentRulesDoNotGovern DEF Governing
  <2>3. ZoneAdmits <=> ZoneOpens \/ zone.target = "accept"
    BY <2>2 DEF ZoneAdmits, FirstAccepts
  <2>4. /\ zone.opening \subseteq zone.services /\ "other" \notin zone.opening
        /\ "covering" \in zone.services => "covering" \in zone.opening
        /\ zone.opening \subseteq {"covering", "other", "unknown"}
    BY <1>1, <1>2, ZonesAssumption DEF Misread, Zone
  <2>5. zoneVerdict' = "pass" => "covering" \in zone.services
    BY <1>1 DEF ServicesVerdict
  <2>6. zoneVerdict' = "blocked" => "covering" \notin zone.services /\ "unknown" \notin zone.services
    BY <1>1 DEF ServicesVerdict
  <2>7. zoneVerdict' = "blocked" => zone.opening = {}
    BY <2>4, <2>6
  <2> QED
    BY <2>3, <2>4, <2>5, <2>7 DEF ZoneOpens, Unconsulted
<1>3. ZoneVerdictIsTrue'
  BY <1>1, <1>2, ZoneStays DEF ZoneVerdictIsTrue
<1> QED
  BY <1>1, <1>3 DEF ZoneInv, ZoneTypeOK, ServicesVerdict

LEMMA ZoneInvHolds == ZoneSpec => []ZoneInv
<1>1. ZoneInv /\ [ZoneNext]_zoneVars => ZoneInv'
  <2> SUFFICES ASSUME ZoneInv, [ZoneNext]_zoneVars PROVE ZoneInv'
    OBVIOUS
  <2>1. CASE Unreadable
    BY <2>1 DEF Unreadable, Conclude, ZoneInv, ZoneTypeOK, ZoneVerdictIsTrue
  <2>2. CASE RulesDone
    BY <2>2 DEF RulesDone, Pending, ZoneInv, ZoneTypeOK, ZoneVerdictIsTrue
  <2>3. CASE UNCHANGED zoneVars
    <3>1. ZoneVerdictIsTrue'
      BY <2>3, ZoneStays DEF zoneVars, ZoneInv, ZoneVerdictIsTrue, Misread, LateDenial
    <3> QED
      BY <2>3, <3>1 DEF zoneVars, ZoneInv, ZoneTypeOK
  <2> QED
    BY <2>1, <2>2, <2>3, ExamineKeepsInv, ServicesKeepsInv DEF ZoneNext
<1> QED
  BY <1>1, ZoneInvInit, PTL DEF ZoneSpec

(* The check's state keeps its type, and it ends with a finding             *)
(* (FirewallCheck), whatever the zone.                                      *)
THEOREM ZoneTypeCorrect == ZoneSpec => []ZoneTypeOK
BY ZoneInvHolds, PTL DEF ZoneInv

(* FirewallCheck is right where it decides, if the rules it went by are     *)
(* exact and services are what its table has them be: a pass is of a port   *)
(* firewalld has open, a block of a closed one but for the zone's lists,    *)
(* its target and late denying rules, for rich rules of any number and      *)
(* priority.                                                                *)
THEOREM ZoneVerdictsAreTrue == ZoneSpec => []ZoneVerdictIsTrue
BY ZoneInvHolds, PTL DEF ZoneInv

-----------------------------------------------------------------------------

(* The Network Firewall evaluator, for any policies and flows, any number   *)
(* of ports and any number of bits.  What the loops of the flow algebra     *)
(* compute is taken from FlowProofs.                                        *)

(* One box holds no packet that another does not.                           *)
Within(b, c) ==
    /\ b.proto = c.proto
    /\ AddressesIn(b.src) \subseteq AddressesIn(c.src)
    /\ AddressesIn(b.dst) \subseteq AddressesIn(c.dst)
    /\ PortsIn(b.ports) \subseteq PortsIn(c.ports)

Disjoint(b, c) == Packets(b) \cap Packets(c) = {}

FlowProtocols == IF flow.proto = "any" THEN Protocols ELSE {flow.proto}

(* The flow's traffic of one protocol.                                      *)
Whole(p) == NewSlice(flow.src, flow.dst, p, flow.ports)

(* The rules gone through for this protocol.                                *)
Passed(i, n) ==
    /\ i \in visited /\ n \in DOMAIN policy.groups[i].rules
    /\ i # group \/ n < rule

(* Everything could be read, and no rule turns around.                      *)
Readable == abstentions \subseteq {0} /\ ~TurnsAround

Policies ==
    /\ policy \in Policy
    /\ flow.src \in PrefixSet /\ flow.dst \in PrefixSet
    /\ flow.proto \in Protocols \cup {"any"}
    /\ flow.ports \in PortSet
    /\ HasPorts(flow.proto) \/ flow.ports = AllPorts

(* The protocols to do are distinct, and which of the flow's are done.      *)
Turns ==
    /\ protocols \in Seq(FlowProtocols)
    /\ \A i, j \in DOMAIN protocols : i # j => protocols[i] # protocols[j]
    /\ phase \in {"protocol", "groups"} => protocols # << >> /\ ~IsEmpty(flow)
    /\ phase = "done" => protocols = << >> \/ IsEmpty(flow)
    /\ phase # "groups" => remaining = {} /\ group = 0
    /\ \A b \in remaining : b.proto = Head(protocols)
    /\ \A d \in decisions, i \in DOMAIN protocols :
           d.box.proto = protocols[i] => i = 1 /\ phase = "groups"

(* The boxes are parts of the flow.                                         *)
Boxes ==
    \A b \in remaining \cup { d.box : d \in decisions } :
        IsBox(b) /\ ~IsEmpty(b) /\ b.proto \in FlowProtocols /\ Within(b, Whole(b.proto))

(* Groups are gone through in the order of their priorities.                *)
Visits ==
    /\ \A i \in visited, j \in Unvisited : ComesFirst(i, j)
    /\ group # 0 => group \in visited /\ \A i \in visited : ComesFirst(i, group)

(* What is open no rule has caught; what is decided is as the engine does.  *)
Sound ==
    Readable =>
        /\ \A b \in remaining : \A k \in Packets(b), i \in visited :
              \A n \in DOMAIN policy.groups[i].rules :
                  Passed(i, n) => ~Catches(policy.groups[i].rules[n], k)
        /\ \A d \in decisions : \A k \in Packets(d.box) :
              d.verdict = FirstMatch(k, DOMAIN policy.groups)

(* Nothing is lost: a packet is decided, still open or of a later protocol. *)
Covered ==
    \A p \in FlowProtocols : \A k \in Packets(Whole(p)) :
        \/ \E d \in decisions : k \in Packets(d.box)
        \/ \E b \in remaining : k \in Packets(b)
        \/ \E i \in DOMAIN protocols : protocols[i] = p /\ (phase = "groups" => i # 1)

FirewallInv ==
    /\ FirewallTypeOK
    /\ Policies /\ Turns /\ Boxes /\ DecidedOnce /\ Visits /\ Sound /\ Covered


-----------------------------------------------------------------------------
(* Boxes and packets.                                                       *)

LEMMA InPackets ==
    ASSUME NEW b, NEW k
    PROVE  k \in Packets(b) <=>
              /\ k = [src |-> k.src, dst |-> k.dst, proto |-> k.proto, port |-> k.port]
              /\ k.src \in AddressesIn(b.src) /\ k.dst \in AddressesIn(b.dst)
              /\ k.proto = b.proto /\ k.port \in PortsIn(b.ports)
BY DEF Packets

LEMMA AllPortsIsPorts == AllPorts \in PortSet /\ PortsIn(AllPorts) = Port
<1>1. [lo |-> 0, hi |-> MaxPort] \in PortRange
  BY MaxPortAssumption DEF PortRange, Port
<1>2. AllPorts \in PortSet
  BY <1>1 DEF AllPorts, PortSet
<1>3. PortsIn(AllPorts) = Port
  BY MaxPortAssumption DEF PortsIn, AllPorts, Port
<1> QED
  BY <1>2, <1>3

LEMMA NoMembers == AddressesIn({}) = {} /\ PortsIn({}) = {}
BY DEF AddressesIn, PortsIn

(* The empty set is the one form of no addresses, and of no ports.          *)
LEMMA EmptyForms ==
    /\ \A s \in PrefixSet : AddressesIn(s) = {} => s = {}
    /\ \A s \in PortSet : PortsIn(s) = {} => s = {}
<1>1. {} \in PrefixSet /\ {} \in PortSet
  BY DEF PrefixSet, PortSet
<1>2. \A s, t \in PrefixSet : AddressesIn(s) = AddressesIn(t) => s = t
  BY PrefixesExact DEF PrefixesAreExact
<1>3. \A s, t \in PortSet : PortsIn(s) = PortsIn(t) => s = t
  BY PortsExact DEF PortsAreExact
<1> QED
  BY <1>1, <1>2, <1>3, NoMembers

LEMMA PacketsOfEmpty ==
    ASSUME NEW b, IsEmpty(b)
    PROVE  Packets(b) = {}
BY NoMembers, InPackets DEF IsEmpty

LEMMA BoxesHoldPackets ==
    ASSUME NEW b, IsBox(b), ~IsEmpty(b)
    PROVE  \E k : k \in Packets(b)
<1>1. AddressesIn(b.src) # {} /\ AddressesIn(b.dst) # {} /\ PortsIn(b.ports) # {}
  BY EmptyForms DEF IsBox, IsEmpty
<1>2. PICK s \in AddressesIn(b.src), d \in AddressesIn(b.dst), p \in PortsIn(b.ports) : TRUE
  BY <1>1
<1>3. [src |-> s, dst |-> d, proto |-> b.proto, port |-> p] \in Packets(b)
  BY <1>2 DEF Packets
<1> QED
  BY <1>3

LEMMA WithinPackets ==
    ASSUME NEW b, NEW c, Within(b, c)
    PROVE  Packets(b) \subseteq Packets(c)
BY InPackets DEF Within

LEMMA WithinTransitive ==
    ASSUME NEW a, NEW b, NEW c, Within(a, b), Within(b, c)
    PROVE  Within(a, c)
BY DEF Within

LEMMA NewSliceFields ==
    ASSUME NEW src, NEW dst, NEW proto, NEW ports
    PROVE  LET s == NewSlice(src, dst, proto, ports)
           IN  /\ s.src = src /\ s.dst = dst /\ s.proto = proto
               /\ s.ports = IF HasPorts(proto) THEN ports ELSE AllPorts
BY DEF NewSlice

LEMMA NewSliceIsBox ==
    ASSUME NEW src \in PrefixSet, NEW dst \in PrefixSet, NEW proto \in Protocols,
           NEW ports \in PortSet
    PROVE  IsBox(NewSlice(src, dst, proto, ports))
BY AllPortsIsPorts DEF NewSlice, IsBox

(* What Slice.Intersect leaves: the packets of the box that are also in the *)
(* rule's sets; where the protocol has no ports, whatever theirs.           *)
LEMMA IntersectIsExact ==
    ASSUME NEW b, IsBox(b),
           NEW src \in PrefixSet, NEW dst \in PrefixSet, NEW ports \in PortSet
    PROVE  LET m == Intersect(b, src, dst, ports)
           IN  /\ IsBox(m) /\ Within(m, b)
               /\ AddressesIn(m.src) = AddressesIn(b.src) \cap AddressesIn(src)
               /\ AddressesIn(m.dst) = AddressesIn(b.dst) \cap AddressesIn(dst)
               /\ HasPorts(b.proto) => PortsIn(m.ports) = PortsIn(b.ports) \cap PortsIn(ports)
               /\ ~HasPorts(b.proto) => m.ports = b.ports
<1> DEFINE m == Intersect(b, src, dst, ports)
<1>1. /\ m.src = IntersectPrefixes(b.src, src)
      /\ m.dst = IntersectPrefixes(b.dst, dst)
      /\ m.proto = b.proto
      /\ m.ports = IF HasPorts(b.proto) THEN IntersectPorts(b.ports, ports) ELSE AllPorts
  BY NewSliceFields DEF Intersect
<1>2. /\ m.src \in PrefixSet /\ AddressesIn(m.src) = AddressesIn(b.src) \cap AddressesIn(src)
      /\ m.dst \in PrefixSet /\ AddressesIn(m.dst) = AddressesIn(b.dst) \cap AddressesIn(dst)
  BY <1>1, PrefixesExact DEF PrefixesAreExact, IsBox
<1>3. IntersectPorts(b.ports, ports) \in PortSet
      /\ PortsIn(IntersectPorts(b.ports, ports)) = PortsIn(b.ports) \cap PortsIn(ports)
  BY PortsExact DEF PortsAreExact, IsBox
<1>4. IsBox(m)
  BY <1>1, <1>2, <1>3, AllPortsIsPorts DEF IsBox
<1>5. ~HasPorts(b.proto) => m.ports = b.ports
  BY <1>1 DEF IsBox
<1>6. PortsIn(m.ports) \subseteq PortsIn(b.ports)
  BY <1>1, <1>3, <1>5
<1> HIDE DEF m
<1>7. Within(m, b)
  BY <1>1, <1>2, <1>6 DEF Within
<1>8. HasPorts(b.proto) => PortsIn(m.ports) = PortsIn(b.ports) \cap PortsIn(ports)
  BY <1>1, <1>3
<1>9. /\ IsBox(m) /\ Within(m, b)
      /\ AddressesIn(m.src) = AddressesIn(b.src) \cap AddressesIn(src)
      /\ AddressesIn(m.dst) = AddressesIn(b.dst) \cap AddressesIn(dst)
      /\ HasPorts(b.proto) => PortsIn(m.ports) = PortsIn(b.ports) \cap PortsIn(ports)
      /\ ~HasPorts(b.proto) => m.ports = b.ports
  BY <1>2, <1>4, <1>5, <1>7, <1>8
<1> QED
  BY <1>9 DEF m

-----------------------------------------------------------------------------
(* What subtract leaves.                                                    *)

(* A piece differs from the match in its sources, else in its destinations, *)
(* else in its ports.                                                       *)
OtherSources(p, b, m) ==
    /\ AddressesIn(p.src) = AddressesIn(b.src) \ AddressesIn(m.src)
    /\ p.dst = b.dst /\ p.ports = b.ports

OtherDestinations(p, b, m) ==
    /\ p.src = m.src
    /\ AddressesIn(p.dst) = AddressesIn(b.dst) \ AddressesIn(m.dst)
    /\ p.ports = b.ports

SamePrefixes(p, b, m) ==
    /\ p.src = m.src /\ p.dst = m.dst
    /\ PortsIn(p.ports) = PortsIn(b.ports) \ PortsIn(m.ports)

LEMMA Pieces ==
    ASSUME NEW b, NEW m, IsBox(b), IsBox(m), Within(m, b)
    PROVE  LET p1 == NewSlice(SubtractPrefixes(b.src, m.src), b.dst, b.proto, b.ports)
               p2 == NewSlice(m.src, SubtractPrefixes(b.dst, m.dst), b.proto, b.ports)
               p3 == NewSlice(m.src, m.dst, b.proto, SubtractPorts(b.ports, m.ports))
           IN  /\ IsBox(p1) /\ p1.proto = b.proto /\ OtherSources(p1, b, m)
               /\ IsBox(p2) /\ p2.proto = b.proto /\ OtherDestinations(p2, b, m)
               /\ HasPorts(b.proto) => IsBox(p3) /\ p3.proto = b.proto /\ SamePrefixes(p3, b, m)
<1>1. /\ b.src \in PrefixSet /\ b.dst \in PrefixSet /\ b.proto \in Protocols /\ b.ports \in PortSet
      /\ m.src \in PrefixSet /\ m.dst \in PrefixSet /\ m.ports \in PortSet
      /\ ~HasPorts(b.proto) => b.ports = AllPorts
  BY DEF IsBox
<1>2. /\ SubtractPrefixes(b.src, m.src) \in PrefixSet
      /\ AddressesIn(SubtractPrefixes(b.src, m.src)) = AddressesIn(b.src) \ AddressesIn(m.src)
      /\ SubtractPrefixes(b.dst, m.dst) \in PrefixSet
      /\ AddressesIn(SubtractPrefixes(b.dst, m.dst)) = AddressesIn(b.dst) \ AddressesIn(m.dst)
  BY <1>1, PrefixesExact DEF PrefixesAreExact
<1>3. /\ SubtractPorts(b.ports, m.ports) \in PortSet
      /\ PortsIn(SubtractPorts(b.ports, m.ports)) = PortsIn(b.ports) \ PortsIn(m.ports)
  BY <1>1, PortsExact DEF PortsAreExact
<1> DEFINE p1 == NewSlice(SubtractPrefixes(b.src, m.src), b.dst, b.proto, b.ports)
           p2 == NewSlice(m.src, SubtractPrefixes(b.dst, m.dst), b.proto, b.ports)
           p3 == NewSlice(m.src, m.dst, b.proto, SubtractPorts(b.ports, m.ports))
<1>4. IsBox(p1) /\ IsBox(p2) /\ IsBox(p3)
  BY <1>1, <1>2, <1>3, NewSliceIsBox
<1>5. p1.proto = b.proto /\ OtherSources(p1, b, m)
  BY <1>1, <1>2, NewSliceFields DEF OtherSources
<1>6. p2.proto = b.proto /\ OtherDestinations(p2, b, m)
  BY <1>1, <1>2, NewSliceFields DEF OtherDestinations
<1>7. HasPorts(b.proto) => p3.proto = b.proto /\ SamePrefixes(p3, b, m)
  BY <1>3, NewSliceFields DEF SamePrefixes
<1> QED
  BY <1>4, <1>5, <1>6, <1>7

LEMMA PieceIs ==
    ASSUME NEW b, NEW m, IsBox(b), IsBox(m), Within(m, b),
           NEW p \in Subtract(b, m)
    PROVE  /\ IsBox(p) /\ ~IsEmpty(p) /\ p.proto = b.proto
           /\ \/ OtherSources(p, b, m)
              \/ OtherDestinations(p, b, m)
              \/ SamePrefixes(p, b, m)
BY Pieces DEF Subtract, NonEmpty, OtherPorts

LEMMA PieceIsOutside ==
    ASSUME NEW b, NEW m, IsBox(b), IsBox(m), Within(m, b),
           NEW p \in Subtract(b, m)
    PROVE  IsBox(p) /\ ~IsEmpty(p) /\ Within(p, b) /\ Disjoint(p, m)
<1>1. IsBox(p) /\ ~IsEmpty(p) /\ p.proto = b.proto
  BY PieceIs
<1>2. Within(p, b) /\ Disjoint(p, m)
  <2>1. CASE OtherSources(p, b, m)
    BY <1>1, <2>1, InPackets DEF OtherSources, Within, Disjoint
  <2>2. CASE OtherDestinations(p, b, m)
    BY <1>1, <2>2, InPackets DEF OtherDestinations, Within, Disjoint
  <2>3. CASE SamePrefixes(p, b, m)
    BY <1>1, <2>3, InPackets DEF SamePrefixes, Within, Disjoint
  <2> QED
    BY <2>1, <2>2, <2>3, PieceIs
<1> QED
  BY <1>1, <1>2

LEMMA PiecesAreDisjoint ==
    ASSUME NEW b, NEW m, IsBox(b), IsBox(m), Within(m, b),
           NEW p \in Subtract(b, m), NEW q \in Subtract(b, m), p # q
    PROVE  Disjoint(p, q)
<1> DEFINE p1 == NewSlice(SubtractPrefixes(b.src, m.src), b.dst, b.proto, b.ports)
           p2 == NewSlice(m.src, SubtractPrefixes(b.dst, m.dst), b.proto, b.ports)
           p3 == NewSlice(m.src, m.dst, b.proto, SubtractPorts(b.ports, m.ports))
<1>1. /\ OtherSources(p1, b, m) /\ OtherDestinations(p2, b, m)
      /\ HasPorts(b.proto) => SamePrefixes(p3, b, m)
  BY Pieces
<1>2. ASSUME NEW x, NEW y, OtherSources(x, b, m), y.src = m.src
      PROVE  Disjoint(x, y) /\ Disjoint(y, x)
  BY <1>2, InPackets DEF OtherSources, Disjoint
<1>3. ASSUME NEW x, NEW y, OtherDestinations(x, b, m), SamePrefixes(y, b, m)
      PROVE  Disjoint(x, y) /\ Disjoint(y, x)
  BY <1>3, InPackets DEF OtherDestinations, SamePrefixes, Disjoint
<1>4. /\ p = p1 \/ p = p2 \/ (p = p3 /\ HasPorts(b.proto))
      /\ q = p1 \/ q = p2 \/ (q = p3 /\ HasPorts(b.proto))
  BY DEF Subtract, NonEmpty, OtherPorts
<1>5. p2.src = m.src /\ (HasPorts(b.proto) => p3.src = m.src)
  BY <1>1 DEF OtherDestinations, SamePrefixes
<1> HIDE DEF p1, p2, p3
<1> QED
  BY <1>1, <1>2, <1>3, <1>4, <1>5

LEMMA PiecesCover ==
    ASSUME NEW b, NEW m, IsBox(b), IsBox(m), Within(m, b),
           ~HasPorts(b.proto) => m.ports = b.ports,
           NEW k \in Packets(b), k \notin Packets(m)
    PROVE  \E p \in Subtract(b, m) : k \in Packets(p)
<1> DEFINE p1 == NewSlice(SubtractPrefixes(b.src, m.src), b.dst, b.proto, b.ports)
           p2 == NewSlice(m.src, SubtractPrefixes(b.dst, m.dst), b.proto, b.ports)
           p3 == NewSlice(m.src, m.dst, b.proto, SubtractPorts(b.ports, m.ports))
<1>1. /\ p1.proto = b.proto /\ OtherSources(p1, b, m)
      /\ p2.proto = b.proto /\ OtherDestinations(p2, b, m)
      /\ HasPorts(b.proto) => p3.proto = b.proto /\ SamePrefixes(p3, b, m)
  BY Pieces
<1>2. {p1, p2} \cup (IF HasPorts(b.proto) THEN {p3} ELSE {}) = {p1, p2} \cup OtherPorts(b, m)
  BY DEF OtherPorts
<1>3. \A p \in {p1, p2} \cup OtherPorts(b, m) : k \in Packets(p) => p \in Subtract(b, m)
  BY PacketsOfEmpty DEF Subtract, NonEmpty
<1> HIDE DEF p1, p2, p3
<1>4. CASE k.src \notin AddressesIn(m.src)
  <2>1. k \in Packets(p1)
    BY <1>1, <1>4, InPackets DEF OtherSources
  <2> QED
    BY <2>1, <1>3
<1>5. CASE k.src \in AddressesIn(m.src) /\ k.dst \notin AddressesIn(m.dst)
  <2>1. k \in Packets(p2)
    BY <1>1, <1>5, InPackets DEF OtherDestinations
  <2> QED
    BY <2>1, <1>3
<1>6. CASE k.src \in AddressesIn(m.src) /\ k.dst \in AddressesIn(m.dst)
  <2>1. k.port \notin PortsIn(m.ports)
    BY <1>6, InPackets DEF Within
  <2>2. HasPorts(b.proto)
    BY <2>1, InPackets
  <2>3. k \in Packets(p3)
    BY <1>1, <1>6, <2>1, <2>2, InPackets DEF SamePrefixes
  <2>4. p3 \in {p1, p2} \cup OtherPorts(b, m)
    BY <1>2, <2>2
  <2> QED
    BY <2>3, <2>4, <1>3
<1> QED
  BY <1>4, <1>5, <1>6

-----------------------------------------------------------------------------
(* What a rule takes of a box.                                              *)

(* Parts of b match the rule as written and parts the other way round.      *)
TurnsOn(r, b) ==
    /\ r.both
    /\ AddressesIn(b.src) \cap AddressesIn(r.src) # {}
    /\ AddressesIn(b.dst) \cap AddressesIn(r.dst) # {}
    /\ AddressesIn(b.src) \cap AddressesIn(r.dst) # {}
    /\ AddressesIn(b.dst) \cap AddressesIn(r.src) # {}

LEMMA Compiled ==
    ASSUME NEW r \in Rule
    PROVE  LET c == Compile(r)
           IN  /\ c.proto = r.proto /\ c.both = r.both
               /\ c.src \in PrefixSet /\ AddressesIn(c.src) = AddressesIn(r.src)
               /\ c.dst \in PrefixSet /\ AddressesIn(c.dst) = AddressesIn(r.dst)
               /\ c.sports \in PortSet /\ PortsIn(c.sports) = PortsIn(r.sports)
               /\ c.dports \in PortSet /\ PortsIn(c.dports) = PortsIn(r.dports)
<1>1. /\ r.src \in SUBSET Written /\ r.dst \in SUBSET Written
      /\ r.sports \in SUBSET PortRange /\ r.dports \in SUBSET PortRange
  BY DEF Rule
<1>2. \A ps \in SUBSET Written :
         NormalizePrefixes(ps) \in PrefixSet /\ AddressesIn(NormalizePrefixes(ps)) = AddressesIn(ps)
  BY PrefixesExact DEF PrefixesAreExact
<1>3. \A rs \in SUBSET PortRange :
         NormalizePorts(rs) \in PortSet /\ PortsIn(NormalizePorts(rs)) = PortsIn(rs)
  BY PortsExact DEF PortsAreExact
<1>4. /\ Compile(r).src = NormalizePrefixes(r.src) /\ Compile(r).dst = NormalizePrefixes(r.dst)
      /\ Compile(r).sports = NormalizePorts(r.sports) /\ Compile(r).dports = NormalizePorts(r.dports)
      /\ Compile(r).proto = r.proto /\ Compile(r).both = r.both
  BY DEF Compile, Rule
<1> QED
  BY <1>1, <1>2, <1>3, <1>4

(* The two ways round, as a rule's sets cut them out of a box.              *)
Forward(r, b) == Intersect(b, Compile(r).src, Compile(r).dst, Compile(r).dports)
Reverse(r, b) == Intersect(b, Compile(r).dst, Compile(r).src, Compile(r).sports)

LEMMA MatchIs ==
    ASSUME NEW r \in Rule, NEW b, NEW m
    PROVE  m \in Match(Compile(r), b) <=>
              /\ Compile(r).proto \in {"any", b.proto}
              /\ \/ m = Forward(r, b) /\ ~IsEmpty(Forward(r, b))
                 \/ /\ m = Reverse(r, b) /\ ~IsEmpty(Reverse(r, b))
                    /\ Compile(r).both /\ IsEmpty(Forward(r, b))
BY DEF Match, Forward, Reverse

LEMMA OneMatch ==
    ASSUME NEW r \in Rule, NEW b, NEW m \in Match(Compile(r), b), NEW n \in Match(Compile(r), b)
    PROVE  m = n
BY MatchIs

LEMMA ForwardIs ==
    ASSUME NEW r \in Rule, NEW b, IsBox(b)
    PROVE  LET m == Forward(r, b)
           IN  /\ IsBox(m) /\ Within(m, b)
               /\ AddressesIn(m.src) = AddressesIn(b.src) \cap AddressesIn(r.src)
               /\ AddressesIn(m.dst) = AddressesIn(b.dst) \cap AddressesIn(r.dst)
               /\ HasPorts(b.proto) => PortsIn(m.ports) = PortsIn(b.ports) \cap PortsIn(r.dports)
               /\ ~HasPorts(b.proto) => m.ports = b.ports
<1> DEFINE c == Compile(r)
           m == Intersect(b, c.src, c.dst, c.dports)
<1>1. /\ c.src \in PrefixSet /\ AddressesIn(c.src) = AddressesIn(r.src)
      /\ c.dst \in PrefixSet /\ AddressesIn(c.dst) = AddressesIn(r.dst)
      /\ c.dports \in PortSet /\ PortsIn(c.dports) = PortsIn(r.dports)
  BY Compiled
<1>2. /\ IsBox(m) /\ Within(m, b)
      /\ AddressesIn(m.src) = AddressesIn(b.src) \cap AddressesIn(c.src)
      /\ AddressesIn(m.dst) = AddressesIn(b.dst) \cap AddressesIn(c.dst)
      /\ HasPorts(b.proto) => PortsIn(m.ports) = PortsIn(b.ports) \cap PortsIn(c.dports)
      /\ ~HasPorts(b.proto) => m.ports = b.ports
  BY <1>1, IntersectIsExact
<1>3. m = Forward(r, b)
  BY DEF Forward
<1> HIDE DEF c, m
<1> QED
  BY <1>1, <1>2, <1>3

LEMMA ReverseIs ==
    ASSUME NEW r \in Rule, NEW b, IsBox(b)
    PROVE  LET m == Reverse(r, b)
           IN  /\ IsBox(m) /\ Within(m, b)
               /\ AddressesIn(m.src) = AddressesIn(b.src) \cap AddressesIn(r.dst)
               /\ AddressesIn(m.dst) = AddressesIn(b.dst) \cap AddressesIn(r.src)
               /\ HasPorts(b.proto) => PortsIn(m.ports) = PortsIn(b.ports) \cap PortsIn(r.sports)
               /\ ~HasPorts(b.proto) => m.ports = b.ports
<1> DEFINE c == Compile(r)
           m == Intersect(b, c.dst, c.src, c.sports)
<1>1. /\ c.src \in PrefixSet /\ AddressesIn(c.src) = AddressesIn(r.src)
      /\ c.dst \in PrefixSet /\ AddressesIn(c.dst) = AddressesIn(r.dst)
      /\ c.sports \in PortSet /\ PortsIn(c.sports) = PortsIn(r.sports)
  BY Compiled
<1>2. /\ IsBox(m) /\ Within(m, b)
      /\ AddressesIn(m.src) = AddressesIn(b.src) \cap AddressesIn(c.dst)
      /\ AddressesIn(m.dst) = AddressesIn(b.dst) \cap AddressesIn(c.src)
      /\ HasPorts(b.proto) => PortsIn(m.ports) = PortsIn(b.ports) \cap PortsIn(c.sports)
      /\ ~HasPorts(b.proto) => m.ports = b.ports
  BY <1>1, IntersectIsExact
<1>3. m = Reverse(r, b)
  BY DEF Reverse
<1> HIDE DEF c, m
<1> QED
  BY <1>1, <1>2, <1>3

(* What is matched is a part of the box, and the rule catches all of it.    *)
LEMMA MatchIsPart ==
    ASSUME NEW r \in Rule, NEW b, IsBox(b), NEW m \in Match(Compile(r), b)
    PROVE  /\ IsBox(m) /\ ~IsEmpty(m) /\ Within(m, b)
           /\ ~HasPorts(b.proto) => m.ports = b.ports
BY MatchIs, ForwardIs, ReverseIs

LEMMA MatchIsCaught ==
    ASSUME NEW r \in Rule, r.action # "alert", NEW b, IsBox(b),
           NEW m \in Match(Compile(r), b), NEW k \in Packets(m)
    PROVE  Catches(r, k)
<1>1. r.proto \in {"any", b.proto}
  BY MatchIs, Compiled
<1>2. m.proto = b.proto
  BY MatchIsPart DEF Within
<1>3. k.src \in AddressesIn(m.src) /\ k.dst \in AddressesIn(m.dst)
      /\ k.proto = b.proto /\ k.port \in PortsIn(m.ports)
  BY <1>2, InPackets
<1>4. CASE m = Forward(r, b)
  <2>1. /\ k.src \in AddressesIn(r.src) /\ k.dst \in AddressesIn(r.dst)
        /\ HasPorts(k.proto) => k.port \in PortsIn(r.dports)
    BY <1>3, <1>4, ForwardIs
  <2> QED
    BY <1>1, <1>3, <2>1 DEF Catches
<1>5. CASE m = Reverse(r, b) /\ r.both
  <2>1. /\ k.src \in AddressesIn(r.dst) /\ k.dst \in AddressesIn(r.src)
        /\ HasPorts(k.proto) => k.port \in PortsIn(r.sports)
    BY <1>3, <1>5, ReverseIs
  <2> QED
    BY <1>1, <1>3, <1>5, <2>1 DEF Catches
<1>6. m = Forward(r, b) \/ (m = Reverse(r, b) /\ r.both)
  BY MatchIs, Compiled
<1> QED
  BY <1>4, <1>5, <1>6

(* And all that the rule catches of the box is matched, unless it turns     *)
(* around on it.                                                            *)
LEMMA CaughtIsMatched ==
    ASSUME NEW r \in Rule, NEW b, IsBox(b), ~TurnsOn(r, b),
           NEW k \in Packets(b), Catches(r, k)
    PROVE  \E m \in Match(Compile(r), b) : k \in Packets(m)
<1>1. Compile(r).proto \in {"any", b.proto} /\ Compile(r).both = r.both
  BY Compiled, InPackets DEF Catches
<1>2. /\ k = [src |-> k.src, dst |-> k.dst, proto |-> k.proto, port |-> k.port]
      /\ k.src \in AddressesIn(b.src) /\ k.dst \in AddressesIn(b.dst)
      /\ k.proto = b.proto /\ k.port \in PortsIn(b.ports)
  BY InPackets
<1> DEFINE f == Forward(r, b)
           v == Reverse(r, b)
<1>3. /\ f.proto = b.proto
      /\ AddressesIn(f.src) = AddressesIn(b.src) \cap AddressesIn(r.src)
      /\ AddressesIn(f.dst) = AddressesIn(b.dst) \cap AddressesIn(r.dst)
      /\ HasPorts(b.proto) => PortsIn(f.ports) = PortsIn(b.ports) \cap PortsIn(r.dports)
      /\ ~HasPorts(b.proto) => f.ports = b.ports
  BY ForwardIs DEF Within
<1>4. /\ v.proto = b.proto
      /\ AddressesIn(v.src) = AddressesIn(b.src) \cap AddressesIn(r.dst)
      /\ AddressesIn(v.dst) = AddressesIn(b.dst) \cap AddressesIn(r.src)
      /\ HasPorts(b.proto) => PortsIn(v.ports) = PortsIn(b.ports) \cap PortsIn(r.sports)
      /\ ~HasPorts(b.proto) => v.ports = b.ports
  BY ReverseIs DEF Within
<1>5. IsBox(f)
  BY ForwardIs
<1> HIDE DEF f, v
<1>6. CASE /\ k.src \in AddressesIn(r.src) /\ k.dst \in AddressesIn(r.dst)
           /\ HasPorts(k.proto) => k.port \in PortsIn(r.dports)
  <2>1. k \in Packets(f)
    BY <1>2, <1>3, <1>6, InPackets
  <2>2. ~IsEmpty(f)
    BY <2>1, PacketsOfEmpty
  <2> QED
    BY <1>1, <2>1, <2>2, MatchIs DEF f
<1>7. CASE /\ r.both /\ k.src \in AddressesIn(r.dst) /\ k.dst \in AddressesIn(r.src)
           /\ HasPorts(k.proto) => k.port \in PortsIn(r.sports)
  <2>1. k \in Packets(v)
    BY <1>2, <1>4, <1>7, InPackets
  <2>2. ~IsEmpty(v)
    BY <2>1, PacketsOfEmpty
  <2>3. IsEmpty(f)
    <3> SUFFICES ASSUME ~IsEmpty(f) PROVE FALSE
      OBVIOUS
    <3>1. AddressesIn(f.src) # {} /\ AddressesIn(f.dst) # {}
      BY <1>5, EmptyForms DEF IsBox, IsEmpty
    <3> QED
      BY <1>2, <1>3, <1>7, <3>1 DEF TurnsOn
  <2> QED
    BY <1>1, <1>7, <2>1, <2>2, <2>3, MatchIs DEF f, v
<1> QED
  BY <1>6, <1>7 DEF Catches

(* The match and what is left of a box are disjoint parts of it, and all of *)
(* it.                                                                      *)
LEMMA LeftoverIsPart ==
    ASSUME NEW r \in Rule, NEW b, IsBox(b), ~IsEmpty(b),
           NEW p \in Leftover(Compile(r), b)
    PROVE  /\ IsBox(p) /\ ~IsEmpty(p) /\ Within(p, b)
           /\ \A m \in Match(Compile(r), b) : Disjoint(p, m)
<1>1. CASE Match(Compile(r), b) = {}
  BY <1>1 DEF Leftover, Within
<1>2. ASSUME NEW m \in Match(Compile(r), b), p \in Subtract(b, m)
      PROVE  IsBox(p) /\ ~IsEmpty(p) /\ Within(p, b) /\ Disjoint(p, m)
  BY <1>2, MatchIsPart, PieceIsOutside
<1>3. CASE Match(Compile(r), b) # {}
  <2>1. PICK m \in Match(Compile(r), b) : p \in Subtract(b, m)
    BY <1>3 DEF Leftover
  <2>2. \A n \in Match(Compile(r), b) : n = m
    BY OneMatch
  <2> QED
    BY <1>2, <2>1, <2>2
<1> QED
  BY <1>1, <1>3

LEMMA LeftoversAreDisjoint ==
    ASSUME NEW r \in Rule, NEW b, IsBox(b),
           NEW p \in Leftover(Compile(r), b), NEW q \in Leftover(Compile(r), b), p # q
    PROVE  Disjoint(p, q)
<1>1. Match(Compile(r), b) # {}
  BY DEF Leftover
<1>2. PICK m \in Match(Compile(r), b) : p \in Subtract(b, m)
  BY <1>1 DEF Leftover
<1>3. PICK n \in Match(Compile(r), b) : q \in Subtract(b, n)
  BY <1>1 DEF Leftover
<1>4. m = n
  BY OneMatch
<1>5. IsBox(m) /\ Within(m, b)
  BY MatchIsPart
<1> QED
  BY <1>2, <1>3, <1>4, <1>5, PiecesAreDisjoint

LEMMA MatchedOrLeft ==
    ASSUME NEW r \in Rule, NEW b, IsBox(b), NEW k \in Packets(b)
    PROVE  \/ \E m \in Match(Compile(r), b) : k \in Packets(m)
           \/ \E p \in Leftover(Compile(r), b) : k \in Packets(p)
<1>1. CASE Match(Compile(r), b) = {}
  BY <1>1 DEF Leftover
<1>2. ASSUME NEW m \in Match(Compile(r), b), k \notin Packets(m)
      PROVE  \E p \in Leftover(Compile(r), b) : k \in Packets(p)
  <2>1. IsBox(m) /\ Within(m, b) /\ (~HasPorts(b.proto) => m.ports = b.ports)
    BY MatchIsPart
  <2>2. \E p \in Subtract(b, m) : k \in Packets(p)
    BY <1>2, <2>1, PiecesCover
  <2>3. Subtract(b, m) \subseteq Leftover(Compile(r), b)
    BY DEF Leftover
  <2> QED
    BY <2>2, <2>3
<1> QED
  BY <1>1, <1>2

-----------------------------------------------------------------------------
(* The engine's first match.                                                *)

LEMMA InCatching ==
    ASSUME NEW k, NEW a
    PROVE  a \in Catching(k, DOMAIN policy.groups) <=>
              \E i \in DOMAIN policy.groups : \E n \in DOMAIN policy.groups[i].rules :
                  a = << i, n >> /\ Catches(policy.groups[i].rules[n], k)
BY DEF Catching

LEMMA NumbersOfRules ==
    ASSUME policy \in Policy, NEW i \in DOMAIN policy.groups
    PROVE  /\ i \in Nat \ {0}
           /\ policy.groups[i] \in Group
           /\ policy.groups[i].priority \in Nat
           /\ \A n \in DOMAIN policy.groups[i].rules :
                 n \in Nat \ {0} /\ policy.groups[i].rules[n] \in Rule
<1>1. policy.groups \in Seq(Group)
  BY DEF Policy
<1>2. i \in Nat \ {0} /\ policy.groups[i] \in Group
  BY <1>1
<1>3. policy.groups[i].priority \in Nat /\ policy.groups[i].rules \in Seq(Rule)
  BY <1>2 DEF Group
<1> QED
  BY <1>2, <1>3

LEMMA NoMatch ==
    ASSUME NEW k,
           \A i \in DOMAIN policy.groups : \A n \in DOMAIN policy.groups[i].rules :
               ~Catches(policy.groups[i].rules[n], k)
    PROVE  FirstMatch(k, DOMAIN policy.groups) = DefaultAction
<1>1. Catching(k, DOMAIN policy.groups) = {}
  BY InCatching
<1> QED
  BY <1>1 DEF FirstMatch

(* The rule that comes before all others that catch the packet is the one   *)
(* the engine goes by: no two come before each other.                       *)
LEMMA TheFirst ==
    ASSUME policy \in Policy, NEW k,
           NEW i \in DOMAIN policy.groups, NEW n \in DOMAIN policy.groups[i].rules,
           Catches(policy.groups[i].rules[n], k),
           \A j \in DOMAIN policy.groups : \A l \in DOMAIN policy.groups[j].rules :
               Catches(policy.groups[j].rules[l], k) => Earlier(<< i, n >>, << j, l >>)
    PROVE  FirstMatch(k, DOMAIN policy.groups) = policy.groups[i].rules[n].action
<1> DEFINE them == Catching(k, DOMAIN policy.groups)
           first == CHOOSE a \in them : \A b \in them : Earlier(a, b)
<1>1. << i, n >> \in them
  BY InCatching
<1>2. \A b \in them : Earlier(<< i, n >>, b)
  BY InCatching
<1>3. first \in them /\ \A b \in them : Earlier(first, b)
  BY <1>1, <1>2
<1>4. PICK j \in DOMAIN policy.groups :
         \E l \in DOMAIN policy.groups[j].rules : first = << j, l >>
  BY <1>3, InCatching
<1>5. PICK l \in DOMAIN policy.groups[j].rules : first = << j, l >>
  BY <1>4
<1>6. Earlier(<< i, n >>, << j, l >>) /\ Earlier(<< j, l >>, << i, n >>)
  BY <1>1, <1>2, <1>3, <1>5
<1>7. i = j /\ n = l
  <2>1. /\ i \in Nat /\ j \in Nat /\ n \in Nat /\ l \in Nat
        /\ policy.groups[i].priority \in Nat /\ policy.groups[j].priority \in Nat
    BY NumbersOfRules
  <2> QED
    BY <1>6, <2>1 DEF Earlier
<1>8. FirstMatch(k, DOMAIN policy.groups) =
         IF them = {} THEN DefaultAction ELSE policy.groups[first[1]].rules[first[2]].action
  BY DEF FirstMatch
<1> HIDE DEF them, first
<1>9. them # {} /\ first = << i, n >>
  BY <1>1, <1>5, <1>7
<1> QED
  BY <1>8, <1>9

LEMMA SameReading ==
    ASSUME policy' = policy, flow' = flow
    PROVE  /\ FlowProtocols' = FlowProtocols
           /\ \A p : Whole(p)' = Whole(p)
           /\ TurnsAround' <=> TurnsAround
           /\ \A i, j : ComesFirst(i, j)' <=> ComesFirst(i, j)
           /\ \A k : FirstMatch(k, DOMAIN policy.groups)' = FirstMatch(k, DOMAIN policy.groups)
<1>1. FlowProtocols' = FlowProtocols
  BY DEF FlowProtocols
<1>2. \A p : Whole(p)' = Whole(p)
  BY DEF Whole
<1>3. TurnsAround' <=> TurnsAround
  BY DEF TurnsAround
<1>4. \A i, j : ComesFirst(i, j)' <=> ComesFirst(i, j)
  BY DEF ComesFirst
<1>5. \A k : FirstMatch(k, DOMAIN policy.groups)' = FirstMatch(k, DOMAIN policy.groups)
  BY DEF FirstMatch, Catching, Earlier, DefaultAction
<1> QED
  BY <1>1, <1>2, <1>3, <1>4, <1>5

(* A rule of the policy turns around on no part of the flow, where none     *)
(* turns around on the flow.                                                *)
LEMMA NoTurns ==
    ASSUME ~TurnsAround, NEW i \in DOMAIN policy.groups, NEW n \in DOMAIN policy.groups[i].rules,
           NEW b, Within(b, Whole(b.proto))
    PROVE  ~TurnsOn(policy.groups[i].rules[n], b)
<1>1. Whole(b.proto).src = flow.src /\ Whole(b.proto).dst = flow.dst
  BY NewSliceFields DEF Whole
<1>2. AddressesIn(b.src) \subseteq AddressesIn(flow.src) /\ AddressesIn(b.dst) \subseteq AddressesIn(flow.dst)
  BY <1>1 DEF Within
<1> QED
  BY <1>2 DEF TurnsAround, TurnsOn

LEMMA WholeIsBox ==
    ASSUME Policies, NEW p \in FlowProtocols
    PROVE  /\ p \in Protocols /\ IsBox(Whole(p)) /\ Whole(p).proto = p
           /\ Within(Whole(p), Whole(p))
           /\ ~IsEmpty(flow) => ~IsEmpty(Whole(p))
<1>1. p \in Protocols
  BY DEF FlowProtocols, Policies
<1>2. IsBox(Whole(p))
  BY <1>1, NewSliceIsBox DEF Whole, Policies
<1>3. /\ Whole(p).src = flow.src /\ Whole(p).dst = flow.dst /\ Whole(p).proto = p
      /\ Whole(p).ports = IF HasPorts(p) THEN flow.ports ELSE AllPorts
  BY NewSliceFields DEF Whole
<1>4. ~IsEmpty(flow) => ~IsEmpty(Whole(p))
  BY <1>3 DEF IsEmpty, AllPorts
<1> QED
  BY <1>1, <1>2, <1>3, <1>4 DEF Within

-----------------------------------------------------------------------------
(* The invariant holds at first and is kept by every action.                *)

LEMMA FirewallInvInit ==
    ASSUME FirewallInit
    PROVE  FirewallInv
<1>1. PICK c \in Cases :
        /\ policy = c.policy
        /\ flow = NewSlice(NormalizePrefixes(c.flow.src), NormalizePrefixes(c.flow.dst),
                           c.flow.proto, NormalizePorts(c.flow.ports))
        /\ protocols = IF c.flow.proto = "any" THEN << "tcp", "udp", "icmp" >>
                       ELSE << c.flow.proto >>
  BY DEF FirewallInit
<1>2. /\ visited = {} /\ group = 0 /\ rule = 1
      /\ remaining = {} /\ decisions = {} /\ abstentions = {}
      /\ phase = IF IsEmpty(flow) THEN "done" ELSE "protocol"
  BY DEF FirewallInit
<1>3. /\ c.policy \in Policy
      /\ c.flow.src \in SUBSET Written /\ c.flow.dst \in SUBSET Written
      /\ c.flow.proto \in Protocols \cup {"any"} /\ c.flow.ports \in SUBSET PortRange
  BY CasesAssumption
<1>4. /\ flow.src = NormalizePrefixes(c.flow.src) /\ flow.dst = NormalizePrefixes(c.flow.dst)
      /\ flow.proto = c.flow.proto
      /\ flow.ports = IF HasPorts(c.flow.proto) THEN NormalizePorts(c.flow.ports) ELSE AllPorts
  BY <1>1, NewSliceFields
<1>5. /\ NormalizePrefixes(c.flow.src) \in PrefixSet /\ NormalizePrefixes(c.flow.dst) \in PrefixSet
      /\ NormalizePorts(c.flow.ports) \in PortSet
  BY <1>3, PrefixesExact, PortsExact DEF PrefixesAreExact, PortsAreExact
<1>6. Policies
  BY <1>1, <1>3, <1>4, <1>5, AllPortsIsPorts DEF Policies
<1>7. /\ protocols \in Seq(FlowProtocols) /\ protocols \in Seq(Protocols)
      /\ \A i, j \in DOMAIN protocols : i # j => protocols[i] # protocols[j]
      /\ protocols # << >>
      /\ \A p \in FlowProtocols : \E i \in DOMAIN protocols : protocols[i] = p
  <2>1. CASE c.flow.proto = "any"
    <3>1. FlowProtocols = {"tcp", "udp", "icmp"} /\ protocols = << "tcp", "udp", "icmp" >>
      BY <1>1, <1>4, <2>1 DEF FlowProtocols, Protocols
    <3>2. DOMAIN protocols = 1 .. 3 /\ protocols[1] = "tcp" /\ protocols[2] = "udp"
          /\ protocols[3] = "icmp"
      BY <3>1
    <3>3. protocols \in Seq({"tcp", "udp", "icmp"}) /\ protocols # << >>
      BY <3>1
    <3>4. \A p \in {"tcp", "udp", "icmp"} : \E i \in DOMAIN protocols : protocols[i] = p
      BY <3>2
    <3>5. \A i, j \in DOMAIN protocols : i # j => protocols[i] # protocols[j]
      BY <3>2
    <3> QED
      BY <3>1, <3>3, <3>4, <3>5 DEF Protocols
  <2>2. CASE c.flow.proto # "any"
    <3>1. FlowProtocols = {c.flow.proto} /\ protocols = << c.flow.proto >>
          /\ c.flow.proto \in Protocols
      BY <1>1, <1>3, <1>4, <2>2 DEF FlowProtocols
    <3> QED
      BY <3>1
  <2> QED
    BY <2>1, <2>2
<1>8. Turns
  BY <1>2, <1>7 DEF Turns
<1>9. FirewallTypeOK
  BY <1>2, <1>7 DEF FirewallTypeOK
<1>10. Boxes /\ DecidedOnce /\ Visits /\ Sound
  BY <1>2 DEF Boxes, DecidedOnce, Visits, Sound
<1>11. Covered
  BY <1>2, <1>7 DEF Covered
<1> QED
  BY <1>6, <1>8, <1>9, <1>10, <1>11 DEF FirewallInv

LEMMA PoliciesStay ==
    ASSUME Policies, policy' = policy, flow' = flow
    PROVE  Policies'
BY DEF Policies

(* A packet of the box has the box's protocol: boxes of different protocols *)
(* have none in common.                                                     *)
LEMMA ProtocolsDiffer ==
    ASSUME NEW b, NEW c, b.proto # c.proto
    PROVE  Disjoint(b, c) /\ Disjoint(c, b)
BY InPackets DEF Disjoint

LEMMA FirstOfProtocols ==
    ASSUME Turns, protocols # << >>
    PROVE  /\ 1 \in DOMAIN protocols /\ Head(protocols) = protocols[1]
           /\ Head(protocols) \in FlowProtocols
           /\ Tail(protocols) \in Seq(FlowProtocols)
           /\ \A i \in DOMAIN Tail(protocols) :
                 i + 1 \in DOMAIN protocols /\ i + 1 # 1 /\ Tail(protocols)[i] = protocols[i + 1]
           /\ \A i \in DOMAIN protocols :
                 i # 1 => i - 1 \in DOMAIN Tail(protocols) /\ Tail(protocols)[i - 1] = protocols[i]
<1>1. protocols \in Seq(FlowProtocols)
  BY DEF Turns
<1> QED
  BY <1>1

LEMMA BeginKeepsInv ==
    ASSUME FirewallInv, Begin
    PROVE  FirewallInv'
<1> DEFINE p == Head(protocols)
           w == Whole(p)
<1>1. /\ phase = "protocol" /\ phase' = "groups" /\ protocols # << >>
      /\ remaining' = {w} /\ visited' = {}
      /\ abstentions \subseteq abstentions' /\ abstentions' \subseteq abstentions \cup {0}
      /\ policy' = policy /\ flow' = flow /\ protocols' = protocols /\ group' = group
      /\ rule' = rule /\ decisions' = decisions
  BY DEF Begin, Whole
<1>2. group = 0 /\ ~IsEmpty(flow) /\ \A d \in decisions : d.box.proto # p
  BY <1>1, FirstOfProtocols DEF FirewallInv, Turns
<1>3. p \in FlowProtocols
  BY <1>1, FirstOfProtocols DEF FirewallInv
<1>4. IsBox(w) /\ ~IsEmpty(w) /\ w.proto = p /\ Within(w, w)
  BY <1>2, <1>3, WholeIsBox DEF FirewallInv
<1>5. FirewallTypeOK'
  BY <1>1, <1>4 DEF FirewallInv, FirewallTypeOK
<1>6. Policies'
  BY <1>1, PoliciesStay DEF FirewallInv
<1>7. Turns'
  <2>1. FlowProtocols' = FlowProtocols
    BY <1>1, SameReading
  <2> QED
    BY <1>1, <1>2, <1>4, <2>1 DEF FirewallInv, Turns, IsEmpty
<1>8. Boxes'
  <2>1. \A q : Whole(q)' = Whole(q)
    BY <1>1, SameReading
  <2>2. FlowProtocols' = FlowProtocols
    BY <1>1, SameReading
  <2> QED
    BY <1>1, <1>3, <1>4, <2>1, <2>2 DEF FirewallInv, Boxes
<1>9. DecidedOnce'
  <2>1. \A d \in decisions : Disjoint(d.box, w)
    BY <1>2, <1>4, ProtocolsDiffer
  <2> QED
    BY <1>1, <2>1 DEF FirewallInv, DecidedOnce, Disjoint
<1>10. Visits'
  BY <1>1, <1>2 DEF FirewallInv, Visits
<1>11. Sound'
  <2>1. Readable' => Readable
    BY <1>1, SameReading DEF Readable
  <2>2. \A k : FirstMatch(k, DOMAIN policy.groups)' = FirstMatch(k, DOMAIN policy.groups)
    BY <1>1, SameReading
  <2> QED
    BY <1>1, <2>1, <2>2 DEF FirewallInv, Sound
<1>12. Covered'
  <2>1. FlowProtocols' = FlowProtocols /\ \A q : Whole(q)' = Whole(q)
    BY <1>1, SameReading
  <2> SUFFICES ASSUME NEW q \in FlowProtocols, NEW k \in Packets(Whole(q)),
                      ~\E d \in decisions : k \in Packets(d.box),
                      k \notin Packets(w)
               PROVE  \E i \in DOMAIN protocols : protocols[i] = q /\ i # 1
    BY <1>1, <2>1 DEF Covered
  <2>2. PICK i \in DOMAIN protocols : protocols[i] = q
    BY <1>1 DEF FirewallInv, Covered, Turns
  <2>3. i # 1
    BY <1>1, <2>2, FirstOfProtocols DEF FirewallInv
  <2> QED
    BY <2>2, <2>3
<1> QED
  BY <1>5, <1>6, <1>7, <1>8, <1>9, <1>10, <1>11, <1>12 DEF FirewallInv

LEMMA TakeGroupKeepsInv ==
    ASSUME FirewallInv, TakeGroup
    PROVE  FirewallInv'
<1>1. /\ phase = "groups" /\ group = 0 /\ phase' = phase /\ remaining' = remaining
      /\ policy' = policy /\ flow' = flow /\ protocols' = protocols /\ decisions' = decisions
  BY DEF TakeGroup
<1>2. PICK i \in Unvisited :
        /\ \A j \in Unvisited : ComesFirst(i, j)
        /\ visited' = visited \cup {i}
        /\ \/ group' = i /\ rule' = 1 /\ abstentions' = abstentions
           \/ abstentions' = abstentions \cup {i} /\ group' = group /\ rule' = rule
  BY DEF TakeGroup
<1>3. /\ i \in DOMAIN policy.groups /\ i \notin visited /\ i \in Nat \ {0}
      /\ policy.groups[i].priority \in Nat
  BY NumbersOfRules DEF Unvisited, FirewallInv, Policies
<1>4. FirewallTypeOK'
  <2>1. /\ visited' \subseteq DOMAIN policy.groups
        /\ group' \in {0} \cup DOMAIN policy.groups
        /\ abstentions' \subseteq {0} \cup DOMAIN policy.groups
    BY <1>2, <1>3 DEF FirewallInv, FirewallTypeOK
  <2>3. rule' \in Nat \ {0}
    BY <1>2 DEF FirewallInv, FirewallTypeOK
  <2>2. \A b \in remaining' \cup { d.box : d \in decisions' } : IsBox(b) /\ ~IsEmpty(b)
    BY <1>1 DEF FirewallInv, FirewallTypeOK
  <2> QED
    BY <1>1, <2>1, <2>2, <2>3 DEF FirewallInv, FirewallTypeOK
<1>5. Policies'
  BY <1>1, PoliciesStay DEF FirewallInv
<1>6. Turns'
  <2>1. FlowProtocols' = FlowProtocols
    BY <1>1, SameReading
  <2> QED
    BY <1>1, <2>1 DEF FirewallInv, Turns, IsEmpty
<1>7. Boxes' /\ DecidedOnce'
  <2>1. FlowProtocols' = FlowProtocols /\ \A q : Whole(q)' = Whole(q)
    BY <1>1, SameReading
  <2>2. Boxes'
    BY <1>1, <2>1 DEF FirewallInv, Boxes
  <2>3. DecidedOnce'
    BY <1>1 DEF FirewallInv, DecidedOnce
  <2> QED
    BY <2>2, <2>3
<1>8. Visits'
  <2>1. \A x, y : ComesFirst(x, y)' <=> ComesFirst(x, y)
    BY <1>1, SameReading
  <2>2. Unvisited' = Unvisited \ {i}
    BY <1>1, <1>2 DEF Unvisited
  <2>3. ComesFirst(i, i)
    BY <1>3 DEF ComesFirst
  <2>4. \A x \in visited : ComesFirst(x, i)
    BY DEF FirewallInv, Visits
  <2>5. \A x \in visited \cup {i}, y \in Unvisited \ {i} : ComesFirst(x, y)
    BY <1>2 DEF FirewallInv, Visits
  <2> QED
    BY <1>1, <1>2, <2>1, <2>2, <2>3, <2>4, <2>5 DEF Visits
<1>9. Sound'
  <2> SUFFICES ASSUME Readable' PROVE Sound'
    BY DEF Sound
  <2>1. Readable /\ group' = i /\ rule' = 1
    <3>1. abstentions' \subseteq {0} /\ ~TurnsAround
      BY <1>1, SameReading DEF Readable
    <3>2. group' = i /\ rule' = 1 /\ abstentions' = abstentions
      BY <1>2, <1>3, <3>1
    <3> QED
      BY <3>1, <3>2 DEF Readable
  <2>2. \A x : \A n \in DOMAIN policy.groups[x].rules : Passed(x, n)' => Passed(x, n)
    <3> SUFFICES ASSUME NEW x, NEW n \in DOMAIN policy.groups[x].rules, Passed(x, n)'
                 PROVE  Passed(x, n)
      OBVIOUS
    <3>1. x \in visited \cup {i} /\ (x # i \/ n < 1)
      BY <1>1, <1>2, <2>1 DEF Passed
    <3>2. x = i => n \in Nat \ {0}
      BY <1>3, NumbersOfRules DEF FirewallInv, Policies
    <3>3. x \in visited
      BY <3>1, <3>2
    <3>4. x # 0
      BY <3>3, NumbersOfRules DEF FirewallInv, FirewallTypeOK, Policies
    <3> QED
      BY <1>1, <3>3, <3>4 DEF Passed
  <2>3. \A k : FirstMatch(k, DOMAIN policy.groups)' = FirstMatch(k, DOMAIN policy.groups)
    BY <1>1, SameReading
  <2>4. \A x, n : Passed(x, n)' => x \in visited'
    BY DEF Passed
  <2>5. \A b \in remaining : \A k \in Packets(b) : \A x : \A n \in DOMAIN policy.groups[x].rules :
           Passed(x, n) => ~Catches(policy.groups[x].rules[n], k)
    BY <2>1 DEF FirewallInv, Sound, Passed
  <2>6. \A d \in decisions : \A k \in Packets(d.box) :
           d.verdict = FirstMatch(k, DOMAIN policy.groups)
    BY <2>1 DEF FirewallInv, Sound
  <2> QED
    BY <1>1, <2>2, <2>3, <2>5, <2>6 DEF Sound
<1>10. Covered'
  <2>1. FlowProtocols' = FlowProtocols /\ \A q : Whole(q)' = Whole(q)
    BY <1>1, SameReading
  <2> QED
    BY <1>1, <2>1 DEF FirewallInv, Covered
<1> QED
  BY <1>4, <1>5, <1>6, <1>7, <1>8, <1>9, <1>10 DEF FirewallInv

(* Between groups every rule of the groups visited has been gone through.   *)
LEMMA LeaveGroupKeepsInv ==
    ASSUME FirewallInv, LeaveGroup
    PROVE  FirewallInv'
<1>1. /\ group' = 0 /\ phase = "groups" /\ phase' = phase /\ rule' = rule
      /\ policy' = policy /\ flow' = flow /\ protocols' = protocols /\ visited' = visited
      /\ remaining' = remaining /\ decisions' = decisions /\ abstentions' = abstentions
      /\ remaining = {} \/ rule > Len(policy.groups[group].rules)
  BY DEF LeaveGroup
<1>2. /\ FlowProtocols' = FlowProtocols /\ \A q : Whole(q)' = Whole(q)
      /\ (TurnsAround' <=> TurnsAround)
      /\ \A x, y : ComesFirst(x, y)' <=> ComesFirst(x, y)
      /\ \A k : FirstMatch(k, DOMAIN policy.groups)' = FirstMatch(k, DOMAIN policy.groups)
  BY <1>1, SameReading
<1>3. FirewallTypeOK'
  BY <1>1 DEF FirewallInv, FirewallTypeOK
<1>4. Policies'
  BY <1>1, PoliciesStay DEF FirewallInv
<1>5. Turns'
  BY <1>1, <1>2 DEF FirewallInv, Turns, IsEmpty
<1>6. Boxes'
  BY <1>1, <1>2 DEF FirewallInv, Boxes
<1>7. DecidedOnce'
  BY <1>1 DEF FirewallInv, DecidedOnce
<1>8. Visits'
  BY <1>1, <1>2 DEF FirewallInv, Visits, Unvisited
<1>9. Sound'
  <2> SUFFICES ASSUME Readable' PROVE Sound'
    BY DEF Sound
  <2>1. Readable
    BY <1>1, <1>2 DEF Readable
  <2>2. ASSUME remaining # {}, NEW x \in visited, NEW n \in DOMAIN policy.groups[x].rules
        PROVE  Passed(x, n)
    <3>1. policy.groups[x].rules \in Seq(Rule)
      BY NumbersOfRules DEF FirewallInv, FirewallTypeOK, Policies, Group
    <3>2. n \in 1 .. Len(policy.groups[x].rules)
      BY <3>1
    <3>3. rule \in Nat /\ Len(policy.groups[x].rules) \in Nat
      BY <3>1 DEF FirewallInv, FirewallTypeOK
    <3>4. x = group => n < rule
      BY <1>1, <2>2, <3>2, <3>3
    <3> QED
      BY <3>4 DEF Passed
  <2>3. \A b \in remaining : \A k \in Packets(b), x \in visited :
           \A n \in DOMAIN policy.groups[x].rules : ~Catches(policy.groups[x].rules[n], k)
    BY <2>1, <2>2 DEF FirewallInv, Sound
  <2>4. \A d \in decisions : \A k \in Packets(d.box) :
           d.verdict = FirstMatch(k, DOMAIN policy.groups)
    BY <2>1 DEF FirewallInv, Sound
  <2> QED
    BY <1>1, <1>2, <2>3, <2>4 DEF Sound
<1>10. Covered'
  BY <1>1, <1>2 DEF FirewallInv, Covered
<1> QED
  BY <1>3, <1>4, <1>5, <1>6, <1>7, <1>8, <1>9, <1>10 DEF FirewallInv

(* What no rule has caught by the end, none of the policy catches.          *)
LEMMA DefaultKeepsInv ==
    ASSUME FirewallInv, Default
    PROVE  FirewallInv'
<1>1. /\ phase = "groups" /\ group = 0 /\ (remaining = {} \/ Unvisited = {})
      /\ decisions' = decisions \cup { Decision(b, DefaultAction) : b \in remaining }
      /\ remaining' = {} /\ protocols' = Tail(protocols)
      /\ phase' = IF Len(protocols) = 1 THEN "done" ELSE "protocol"
      /\ policy' = policy /\ flow' = flow /\ visited' = visited /\ group' = group
      /\ rule' = rule /\ abstentions' = abstentions
  BY DEF Default
<1>2. /\ FlowProtocols' = FlowProtocols /\ \A q : Whole(q)' = Whole(q)
      /\ (TurnsAround' <=> TurnsAround)
      /\ \A x, y : ComesFirst(x, y)' <=> ComesFirst(x, y)
      /\ \A k : FirstMatch(k, DOMAIN policy.groups)' = FirstMatch(k, DOMAIN policy.groups)
  BY <1>1, SameReading
<1>3. \A d \in decisions' : d \in decisions \/ (d.box \in remaining /\ d.verdict = DefaultAction)
  BY <1>1 DEF Decision
<1>4. \A b \in remaining : \E d \in decisions' : d.box = b
  <2> SUFFICES ASSUME NEW b \in remaining PROVE \E d \in decisions' : d.box = b
    OBVIOUS
  <2>1. Decision(b, DefaultAction) \in decisions'
    BY <1>1
  <2>2. Decision(b, DefaultAction).box = b
    BY DEF Decision
  <2> QED
    BY <2>1, <2>2
<1>5. protocols # << >> /\ \A b \in remaining : b.proto = protocols[1]
  BY <1>1, FirstOfProtocols DEF FirewallInv, Turns
<1>6. FirewallTypeOK'
  <2>1. Tail(protocols) \in Seq(Protocols)
    BY <1>5 DEF FirewallInv, FirewallTypeOK
  <2>2. \A d \in decisions' : d.verdict \in {"pass", "drop"} /\ IsBox(d.box) /\ ~IsEmpty(d.box)
    BY <1>3 DEF FirewallInv, FirewallTypeOK, DefaultAction
  <2> QED
    BY <1>1, <2>1, <2>2 DEF FirewallInv, FirewallTypeOK
<1>7. Policies'
  BY <1>1, PoliciesStay DEF FirewallInv
<1>8. Turns'
  <2>1. /\ 1 \in DOMAIN protocols /\ Tail(protocols) \in Seq(FlowProtocols)
        /\ \A i \in DOMAIN Tail(protocols) :
              i + 1 \in DOMAIN protocols /\ i + 1 # 1 /\ Tail(protocols)[i] = protocols[i + 1]
    BY <1>5, FirstOfProtocols DEF FirewallInv
  <2>2. protocols \in Seq(FlowProtocols) /\ ~IsEmpty(flow)
        /\ \A i, j \in DOMAIN protocols : i # j => protocols[i] # protocols[j]
    BY <1>1 DEF FirewallInv, Turns
  <2>3. \A i, j \in DOMAIN Tail(protocols) : i # j => Tail(protocols)[i] # Tail(protocols)[j]
    <3> SUFFICES ASSUME NEW i \in DOMAIN Tail(protocols), NEW j \in DOMAIN Tail(protocols), i # j
                 PROVE  Tail(protocols)[i] # Tail(protocols)[j]
      OBVIOUS
    <3>1. i \in Nat /\ j \in Nat
      BY <2>1
    <3> QED
      BY <2>1, <2>2, <3>1
  <2>4. Len(protocols) = 1 <=> Tail(protocols) = << >>
    <3>1. Len(protocols) \in Nat /\ 1 <= Len(protocols)
          /\ Len(Tail(protocols)) = Len(protocols) - 1
      BY <1>5, <2>1, <2>2
    <3>2. Len(Tail(protocols)) = 0 <=> Tail(protocols) = << >>
      BY <2>1, EmptySeq
    <3> QED
      BY <3>1, <3>2
  <2>5. \A d \in decisions', i \in DOMAIN Tail(protocols) : d.box.proto # Tail(protocols)[i]
    <3> SUFFICES ASSUME NEW d \in decisions', NEW i \in DOMAIN Tail(protocols)
                 PROVE  d.box.proto # protocols[i + 1]
      BY <2>1
    <3>1. i + 1 \in DOMAIN protocols /\ i + 1 # 1
      BY <2>1
    <3>2. CASE d \in decisions
      BY <3>1, <3>2 DEF FirewallInv, Turns
    <3>3. CASE d.box \in remaining
      BY <1>5, <2>1, <2>2, <3>1, <3>3
    <3> QED
      BY <1>3, <3>2, <3>3
  <2> QED
    BY <1>1, <1>2, <2>1, <2>2, <2>3, <2>4, <2>5 DEF Turns, IsEmpty
<1>9. Boxes'
  BY <1>1, <1>2, <1>3 DEF FirewallInv, Boxes
<1>10. DecidedOnce'
  <2> SUFFICES ASSUME NEW d \in decisions', NEW e \in decisions', d # e
               PROVE  Packets(d.box) \cap Packets(e.box) = {}
    BY <1>1 DEF DecidedOnce
  <2>1. CASE d \in decisions /\ e \in decisions
    BY <2>1 DEF FirewallInv, DecidedOnce
  <2>2. CASE d \in decisions /\ e.box \in remaining
    BY <2>2 DEF FirewallInv, DecidedOnce
  <2>3. CASE d.box \in remaining /\ e \in decisions
    BY <2>3 DEF FirewallInv, DecidedOnce
  <2>4. CASE d \notin decisions /\ e \notin decisions
    <3>1. d.box \in remaining /\ e.box \in remaining /\ d.box # e.box
      BY <1>1, <1>3, <2>4 DEF Decision
    <3> QED
      BY <3>1 DEF FirewallInv, DecidedOnce
  <2> QED
    BY <1>3, <2>1, <2>2, <2>3, <2>4
<1>11. Visits'
  BY <1>1, <1>2 DEF FirewallInv, Visits, Unvisited
<1>12. Sound'
  <2> SUFFICES ASSUME Readable' PROVE Sound'
    BY DEF Sound
  <2>1. Readable
    BY <1>1, <1>2 DEF Readable
  <2>2. ASSUME NEW b \in remaining, NEW k \in Packets(b)
        PROVE  FirstMatch(k, DOMAIN policy.groups) = DefaultAction
    <3>1. \A x \in DOMAIN policy.groups : x \in visited /\ x # group
      BY <1>1, <2>2, NumbersOfRules DEF Unvisited, FirewallInv, Policies
    <3>2. \A x \in DOMAIN policy.groups : \A n \in DOMAIN policy.groups[x].rules :
             ~Catches(policy.groups[x].rules[n], k)
      BY <2>1, <2>2, <3>1 DEF FirewallInv, Sound, Passed
    <3> QED
      BY <3>2, NoMatch
  <2>3. \A d \in decisions' : \A k \in Packets(d.box) :
           d.verdict = FirstMatch(k, DOMAIN policy.groups)
    BY <1>3, <2>1, <2>2 DEF FirewallInv, Sound
  <2> QED
    BY <1>1, <1>2, <2>3 DEF Sound
<1>13. Covered'
  <2> SUFFICES ASSUME NEW q \in FlowProtocols, NEW k \in Packets(Whole(q)),
                      ~\E d \in decisions' : k \in Packets(d.box)
               PROVE  \E i \in DOMAIN Tail(protocols) : Tail(protocols)[i] = q
    BY <1>1, <1>2 DEF Covered
  <2>1. ~\E d \in decisions : k \in Packets(d.box)
    BY <1>1
  <2>2. ~\E b \in remaining : k \in Packets(b)
    BY <1>4
  <2>3. PICK i \in DOMAIN protocols : protocols[i] = q /\ i # 1
    BY <1>1, <2>1, <2>2 DEF FirewallInv, Covered
  <2> QED
    BY <1>5, <2>3, FirstOfProtocols DEF FirewallInv
<1> QED
  BY <1>6, <1>7, <1>8, <1>9, <1>10, <1>11, <1>12, <1>13 DEF FirewallInv

(* A rule decides what it catches of what no earlier rule has caught.       *)
LEMMA ApplyRuleKeepsInv ==
    ASSUME FirewallInv, ApplyRule
    PROVE  FirewallInv'
<1> DEFINE r == policy.groups[group].rules[rule]
           c == Compile(r)
<1>1. /\ phase = "groups" /\ group # 0 /\ rule' = rule + 1
      /\ rule <= Len(policy.groups[group].rules)
      /\ policy' = policy /\ flow' = flow /\ protocols' = protocols /\ visited' = visited
      /\ group' = group /\ phase' = phase
  BY DEF ApplyRule
<1>2. \/ /\ ~r.parses /\ abstentions' = abstentions \cup {group}
         /\ remaining' = remaining /\ decisions' = decisions
      \/ /\ r.parses /\ r.action = "alert" /\ abstentions' = abstentions
         /\ remaining' = remaining /\ decisions' = decisions
      \/ /\ r.parses /\ r.action # "alert" /\ abstentions' = abstentions
         /\ remaining' = UNION { Leftover(c, b) : b \in remaining }
         /\ decisions' = decisions \cup
               { Decision(k, r.action) : k \in UNION { Match(c, b) : b \in remaining } }
  BY DEF ApplyRule
<1>3. /\ group \in DOMAIN policy.groups /\ group \in visited /\ rule \in Nat \ {0}
      /\ \A i \in visited : ComesFirst(i, group)
  BY <1>1 DEF FirewallInv, FirewallTypeOK, Visits
<1>4. rule \in DOMAIN policy.groups[group].rules /\ r \in Rule
  <2>1. policy.groups[group].rules \in Seq(Rule)
    BY <1>3, NumbersOfRules DEF FirewallInv, Policies, Group
  <2>2. rule \in 1 .. Len(policy.groups[group].rules)
    BY <1>1, <1>3, <2>1
  <2> QED
    BY <2>1, <2>2
<1>5. /\ FlowProtocols' = FlowProtocols /\ \A q : Whole(q)' = Whole(q)
      /\ (TurnsAround' <=> TurnsAround)
      /\ \A x, y : ComesFirst(x, y)' <=> ComesFirst(x, y)
      /\ \A k : FirstMatch(k, DOMAIN policy.groups)' = FirstMatch(k, DOMAIN policy.groups)
  BY <1>1, SameReading
<1>6. Policies'
  BY <1>1, PoliciesStay DEF FirewallInv
<1>7. Visits'
  BY <1>1, <1>5 DEF FirewallInv, Visits, Unvisited
<1>8. \A b \in remaining : IsBox(b) /\ ~IsEmpty(b) /\ Within(b, Whole(b.proto))
  BY DEF FirewallInv, Boxes
<1>9. Readable' => Readable
  BY <1>2, <1>5 DEF Readable
<1>10. \A i, n : Passed(i, n)' =>
          /\ i \in visited /\ n \in DOMAIN policy.groups[i].rules
          /\ Passed(i, n) \/ (i = group /\ n = rule)
  <2> SUFFICES ASSUME NEW i, NEW n, Passed(i, n)'
               PROVE  /\ i \in visited /\ n \in DOMAIN policy.groups[i].rules
                      /\ Passed(i, n) \/ (i = group /\ n = rule)
    OBVIOUS
  <2>1. i \in visited /\ n \in DOMAIN policy.groups[i].rules /\ (i # group \/ n < rule + 1)
    BY <1>1 DEF Passed
  <2>2. n \in Nat
    BY <2>1, NumbersOfRules DEF FirewallInv, FirewallTypeOK, Policies
  <2> QED
    BY <1>3, <2>1, <2>2 DEF Passed
<1>11. CASE ~(r.parses /\ r.action # "alert")
  <2>0. remaining' = remaining /\ decisions' = decisions
    BY <1>2, <1>11
  <2>1. FirewallTypeOK'
    <3>1. abstentions' \subseteq {0} \cup DOMAIN policy.groups
      BY <1>2, <1>3 DEF FirewallInv, FirewallTypeOK
    <3> QED
      BY <1>1, <1>3, <2>0, <3>1 DEF FirewallInv, FirewallTypeOK
  <2>2. Turns'
    BY <1>1, <1>5, <2>0 DEF FirewallInv, Turns, IsEmpty
  <2>3. Boxes'
    BY <1>5, <2>0 DEF FirewallInv, Boxes
  <2>4. DecidedOnce'
    BY <2>0 DEF FirewallInv, DecidedOnce
  <2>5. Covered'
    BY <1>1, <1>5, <2>0 DEF FirewallInv, Covered
  <2>6. Sound'
    <3> SUFFICES ASSUME Readable' PROVE Sound'
      BY DEF Sound
    <3>1. \A k : ~Catches(r, k)
      <4>1. group \notin abstentions'
        BY <1>1 DEF Readable
      <4>2. r.action = "alert"
        BY <1>2, <1>11, <4>1
      <4> QED
        BY <4>2 DEF Catches
    <3>2. \A b \in remaining : \A k \in Packets(b), i \in visited :
             \A n \in DOMAIN policy.groups[i].rules :
                 Passed(i, n)' => ~Catches(policy.groups[i].rules[n], k)
      BY <1>9, <1>10, <3>1 DEF FirewallInv, Sound
    <3>3. \A d \in decisions : \A k \in Packets(d.box) :
             d.verdict = FirstMatch(k, DOMAIN policy.groups)
      BY <1>9 DEF FirewallInv, Sound
    <3> QED
      BY <1>1, <1>5, <2>0, <3>2, <3>3 DEF Sound
  <2> QED
    BY <1>6, <1>7, <2>1, <2>2, <2>3, <2>4, <2>5, <2>6 DEF FirewallInv
<1>12. CASE r.parses /\ r.action # "alert"
  <2>1. /\ abstentions' = abstentions
        /\ remaining' = UNION { Leftover(c, b) : b \in remaining }
        /\ decisions' = decisions \cup
              { Decision(k, r.action) : k \in UNION { Match(c, b) : b \in remaining } }
    BY <1>2, <1>12
  <2>2. \A p \in remaining' : \E b \in remaining : p \in Leftover(c, b)
    BY <2>1
  <2>3. \A b \in remaining : Leftover(c, b) \subseteq remaining'
    BY <2>1
  <2>4. \A d \in decisions' : \/ d \in decisions
                             \/ /\ d = Decision(d.box, r.action) /\ d.verdict = r.action
                                /\ \E b \in remaining : d.box \in Match(c, b)
    BY <2>1 DEF Decision
  <2>5. \A b \in remaining : \A k \in Match(c, b) : \E d \in decisions' : d.box = k
    <3> SUFFICES ASSUME NEW b \in remaining, NEW k \in Match(c, b)
                 PROVE  \E d \in decisions' : d.box = k
      OBVIOUS
    <3>1. Decision(k, r.action) \in decisions'
      BY <2>1
    <3>2. Decision(k, r.action).box = k
      BY DEF Decision
    <3> QED
      BY <3>1, <3>2
  <2>6. ASSUME NEW b \in remaining, NEW p \in Leftover(c, b)
        PROVE  /\ IsBox(p) /\ ~IsEmpty(p) /\ Within(p, b)
               /\ Packets(p) \subseteq Packets(b)
               /\ \A k \in Match(c, b) : Disjoint(p, k)
    <3>1. /\ IsBox(p) /\ ~IsEmpty(p) /\ Within(p, b)
          /\ \A k \in Match(c, b) : Disjoint(p, k)
      BY <1>4, <1>8, LeftoverIsPart
    <3> QED
      BY <3>1, WithinPackets
  <2>7. ASSUME NEW b \in remaining, NEW k \in Match(c, b)
        PROVE  IsBox(k) /\ ~IsEmpty(k) /\ Within(k, b) /\ Packets(k) \subseteq Packets(b)
    <3>1. IsBox(k) /\ ~IsEmpty(k) /\ Within(k, b)
      BY <1>4, <1>8, MatchIsPart
    <3> QED
      BY <3>1, WithinPackets
  <2>8. /\ \A p \in remaining' : \E b \in remaining : IsBox(p) /\ ~IsEmpty(p) /\ Within(p, b)
        /\ \A d \in decisions' :
              d \in decisions \/ \E b \in remaining :
                                    IsBox(d.box) /\ ~IsEmpty(d.box) /\ Within(d.box, b)
    BY <2>2, <2>4, <2>6, <2>7
  <2>9. FirewallTypeOK'
    <3>1. r.action \in {"pass", "drop"}
      BY <1>4, <1>12 DEF Rule
    <3>2. \A d \in decisions' : d.verdict \in {"pass", "drop"} /\ IsBox(d.box) /\ ~IsEmpty(d.box)
      BY <2>4, <2>8, <3>1 DEF FirewallInv, FirewallTypeOK
    <3> QED
      BY <1>1, <1>3, <2>1, <2>8, <3>2 DEF FirewallInv, FirewallTypeOK
  <2>10. Turns'
    <3>1. \A p \in remaining' : p.proto = Head(protocols)
      BY <2>8 DEF Within, FirewallInv, Turns
    <3>2. ASSUME NEW d \in decisions', NEW i \in DOMAIN protocols, d.box.proto = protocols[i]
          PROVE  i = 1
      <4>1. CASE d \in decisions
        BY <3>2, <4>1 DEF FirewallInv, Turns
      <4>2. CASE d \notin decisions
        <5>1. d.box.proto = Head(protocols)
          BY <2>8, <4>2 DEF Within, FirewallInv, Turns
        <5>2. Head(protocols) = protocols[1] /\ 1 \in DOMAIN protocols
          BY <1>1, FirstOfProtocols DEF FirewallInv, Turns
        <5> QED
          BY <3>2, <5>1, <5>2 DEF FirewallInv, Turns
      <4> QED
        BY <4>1, <4>2
    <3>3. /\ protocols \in Seq(FlowProtocols) /\ protocols # << >> /\ ~IsEmpty(flow)
          /\ \A i, j \in DOMAIN protocols : i # j => protocols[i] # protocols[j]
      BY <1>1 DEF FirewallInv, Turns
    <3> QED
      BY <1>1, <1>5, <3>1, <3>2, <3>3 DEF Turns, IsEmpty
  <2>11. Boxes'
    <3>1. ASSUME NEW p, NEW b \in remaining, Within(p, b)
          PROVE  p.proto \in FlowProtocols /\ Within(p, Whole(p.proto))
      <4>1. b.proto \in FlowProtocols /\ Within(b, Whole(b.proto)) /\ p.proto = b.proto
        BY <3>1 DEF FirewallInv, Boxes, Within
      <4> QED
        BY <3>1, <4>1, WithinTransitive
    <3>2. \A d \in decisions : /\ IsBox(d.box) /\ ~IsEmpty(d.box)
                               /\ d.box.proto \in FlowProtocols /\ Within(d.box, Whole(d.box.proto))
      BY DEF FirewallInv, Boxes
    <3> QED
      BY <1>5, <2>8, <3>1, <3>2 DEF Boxes
  <2>12. DecidedOnce'
    <3>1. /\ \A d, e \in decisions : d # e => Packets(d.box) \cap Packets(e.box) = {}
          /\ \A d \in decisions, b \in remaining : Packets(d.box) \cap Packets(b) = {}
          /\ \A a, b \in remaining : a # b => Packets(a) \cap Packets(b) = {}
      BY DEF FirewallInv, DecidedOnce
    <3>2. ASSUME NEW d \in decisions', NEW e \in decisions', d # e
          PROVE  Packets(d.box) \cap Packets(e.box) = {}
      <4>1. CASE d \in decisions /\ e \in decisions
        BY <3>1, <3>2, <4>1
      <4>2. CASE d \in decisions /\ e \notin decisions
        BY <2>4, <2>7, <3>1, <4>2
      <4>3. CASE d \notin decisions /\ e \in decisions
        BY <2>4, <2>7, <3>1, <4>3
      <4>4. CASE d \notin decisions /\ e \notin decisions
        <5>1. PICK a \in remaining : d.box \in Match(c, a)
          BY <2>4, <4>4
        <5>2. PICK b \in remaining : e.box \in Match(c, b)
          BY <2>4, <4>4
        <5>3. d.box # e.box
          BY <2>4, <3>2, <4>4
        <5>4. a # b
          BY <1>4, <5>1, <5>2, <5>3, OneMatch
        <5> QED
          BY <2>7, <3>1, <5>1, <5>2, <5>4
      <4> QED
        BY <4>1, <4>2, <4>3, <4>4
    <3>3. ASSUME NEW d \in decisions', NEW p \in remaining'
          PROVE  Packets(d.box) \cap Packets(p) = {}
      <4>1. PICK b \in remaining : p \in Leftover(c, b)
        BY <2>2
      <4>2. CASE d \in decisions
        BY <2>6, <3>1, <4>1, <4>2
      <4>3. CASE d \notin decisions
        <5>1. PICK a \in remaining : d.box \in Match(c, a)
          BY <2>4, <4>3
        <5>2. CASE a = b
          BY <2>6, <4>1, <5>1, <5>2 DEF Disjoint
        <5>3. CASE a # b
          BY <2>6, <2>7, <3>1, <4>1, <5>1, <5>3
        <5> QED
          BY <5>2, <5>3
      <4> QED
        BY <4>2, <4>3
    <3>4. ASSUME NEW p \in remaining', NEW q \in remaining', p # q
          PROVE  Packets(p) \cap Packets(q) = {}
      <4>1. PICK a \in remaining : p \in Leftover(c, a)
        BY <2>2
      <4>2. PICK b \in remaining : q \in Leftover(c, b)
        BY <2>2
      <4>3. CASE a = b
        <5>1. Disjoint(p, q)
          BY <1>4, <1>8, <3>4, <4>1, <4>2, <4>3, LeftoversAreDisjoint
        <5> QED
          BY <5>1 DEF Disjoint
      <4>4. CASE a # b
        BY <2>6, <3>1, <4>1, <4>2, <4>4
      <4> QED
        BY <4>3, <4>4
    <3> QED
      BY <3>2, <3>3, <3>4 DEF DecidedOnce
  <2>13. Sound'
    <3> SUFFICES ASSUME Readable' PROVE Sound'
      BY DEF Sound
    <3>1. Readable /\ ~TurnsAround
      BY <1>9 DEF Readable
    <3>2. \A b \in remaining : \A k \in Packets(b), i \in visited :
             \A n \in DOMAIN policy.groups[i].rules :
                 Passed(i, n) => ~Catches(policy.groups[i].rules[n], k)
      BY <3>1 DEF FirewallInv, Sound
    <3>3. \A d \in decisions : \A k \in Packets(d.box) :
             d.verdict = FirstMatch(k, DOMAIN policy.groups)
      BY <3>1 DEF FirewallInv, Sound
    <3>4. ASSUME NEW p \in remaining', NEW k \in Packets(p)
          PROVE  ~Catches(r, k)
      <4>1. PICK b \in remaining : p \in Leftover(c, b)
        BY <2>2
      <4>2. k \in Packets(b) /\ \A m \in Match(c, b) : k \notin Packets(m)
        BY <2>6, <4>1 DEF Disjoint
      <4>3. ~TurnsOn(r, b)
        BY <1>3, <1>4, <1>8, <3>1, NoTurns
      <4> QED
        BY <1>4, <1>8, <4>2, <4>3, CaughtIsMatched
    <3>5. ASSUME NEW p \in remaining', NEW k \in Packets(p), NEW i \in visited,
                 NEW n \in DOMAIN policy.groups[i].rules, Passed(i, n)'
          PROVE  ~Catches(policy.groups[i].rules[n], k)
      <4>1. PICK b \in remaining : p \in Leftover(c, b)
        BY <2>2
      <4>2. k \in Packets(b)
        BY <2>6, <4>1
      <4> QED
        BY <1>10, <3>2, <3>4, <3>5, <4>2
    <3>6. ASSUME NEW d \in decisions', d \notin decisions, NEW k \in Packets(d.box)
          PROVE  d.verdict = FirstMatch(k, DOMAIN policy.groups)
      <4>1. PICK b \in remaining : d.box \in Match(c, b)
        BY <2>4, <3>6
      <4>2. k \in Packets(b) /\ Catches(r, k)
        BY <1>4, <1>8, <1>12, <2>7, <4>1, MatchIsCaught
      <4>3. ASSUME NEW j \in DOMAIN policy.groups, NEW l \in DOMAIN policy.groups[j].rules,
                   Catches(policy.groups[j].rules[l], k)
            PROVE  Earlier(<< group, rule >>, << j, l >>)
        <5>1. ~Passed(j, l) \/ j \notin visited
          BY <3>2, <4>2, <4>3
        <5>2. /\ j \in Nat /\ group \in Nat /\ l \in Nat /\ rule \in Nat
              /\ policy.groups[j].priority \in Nat /\ policy.groups[group].priority \in Nat
          BY <1>3, <1>4, NumbersOfRules DEF FirewallInv, Policies
        <5>3. CASE j = group
          BY <1>3, <5>1, <5>2, <5>3 DEF Passed, Earlier
        <5>4. CASE j # group
          <6>1. j \in Unvisited
            BY <5>1, <5>4 DEF Passed, Unvisited
          <6>2. ComesFirst(group, j)
            BY <1>3, <6>1 DEF FirewallInv, Visits
          <6> QED
            BY <5>2, <5>4, <6>2 DEF ComesFirst, Earlier
        <5> QED
          BY <5>3, <5>4
      <4>4. FirstMatch(k, DOMAIN policy.groups) = r.action
        BY <1>3, <1>4, <4>2, <4>3, TheFirst DEF FirewallInv, Policies
      <4> QED
        BY <2>4, <3>6, <4>4
    <3> QED
      BY <1>1, <1>5, <3>3, <3>5, <3>6 DEF Sound
  <2>14. Covered'
    <3> SUFFICES ASSUME NEW q \in FlowProtocols, NEW k \in Packets(Whole(q)),
                        ~\E d \in decisions' : k \in Packets(d.box),
                        ~\E p \in remaining' : k \in Packets(p)
                 PROVE  \E i \in DOMAIN protocols : protocols[i] = q /\ i # 1
      BY <1>1, <1>5 DEF Covered
    <3>1. ~\E d \in decisions : k \in Packets(d.box)
      BY <2>1
    <3>2. ~\E b \in remaining : k \in Packets(b)
      BY <1>4, <1>8, <2>3, <2>5, MatchedOrLeft
    <3> QED
      BY <1>1, <3>1, <3>2 DEF FirewallInv, Covered
  <2> QED
    BY <1>6, <1>7, <2>9, <2>10, <2>11, <2>12, <2>13, <2>14 DEF FirewallInv
<1> QED
  BY <1>11, <1>12

LEMMA FirewallStutters ==
    ASSUME FirewallInv, UNCHANGED firewallVars
    PROVE  FirewallInv'
<1>1. /\ policy' = policy /\ flow' = flow /\ protocols' = protocols /\ visited' = visited
      /\ group' = group /\ rule' = rule /\ remaining' = remaining /\ decisions' = decisions
      /\ abstentions' = abstentions /\ phase' = phase
  BY DEF firewallVars
<1>2. /\ FlowProtocols' = FlowProtocols /\ \A q : Whole(q)' = Whole(q)
      /\ (TurnsAround' <=> TurnsAround)
      /\ \A x, y : ComesFirst(x, y)' <=> ComesFirst(x, y)
      /\ \A k : FirstMatch(k, DOMAIN policy.groups)' = FirstMatch(k, DOMAIN policy.groups)
  BY <1>1, SameReading
<1>3. FirewallTypeOK'
  BY <1>1 DEF FirewallInv, FirewallTypeOK
<1>4. Policies'
  BY <1>1, PoliciesStay DEF FirewallInv
<1>5. Turns'
  BY <1>1, <1>2 DEF FirewallInv, Turns, IsEmpty
<1>6. Boxes'
  BY <1>1, <1>2 DEF FirewallInv, Boxes
<1>7. DecidedOnce'
  BY <1>1 DEF FirewallInv, DecidedOnce
<1>8. Visits'
  BY <1>1, <1>2 DEF FirewallInv, Visits, Unvisited
<1>9. Sound'
  <2>1. Readable' <=> Readable
    BY <1>1, <1>2 DEF Readable
  <2>2. \A i, n : Passed(i, n)' <=> Passed(i, n)
    BY <1>1 DEF Passed
  <2> QED
    BY <1>1, <1>2, <2>1, <2>2 DEF FirewallInv, Sound
<1>10. Covered'
  BY <1>1, <1>2 DEF FirewallInv, Covered
<1> QED
  BY <1>3, <1>4, <1>5, <1>6, <1>7, <1>8, <1>9, <1>10 DEF FirewallInv

LEMMA FirewallInvHolds == FirewallSpec => []FirewallInv
<1>1. FirewallInit => FirewallInv
  BY FirewallInvInit
<1>2. FirewallInv /\ [FirewallNext]_firewallVars => FirewallInv'
  <2> SUFFICES ASSUME FirewallInv, [FirewallNext]_firewallVars PROVE FirewallInv'
    OBVIOUS
  <2>1. CASE Begin
    BY <2>1, BeginKeepsInv
  <2>2. CASE TakeGroup
    BY <2>2, TakeGroupKeepsInv
  <2>3. CASE ApplyRule
    BY <2>3, ApplyRuleKeepsInv
  <2>4. CASE LeaveGroup
    BY <2>4, LeaveGroupKeepsInv
  <2>5. CASE Default
    BY <2>5, DefaultKeepsInv
  <2>6. CASE UNCHANGED firewallVars
    BY <2>6, FirewallStutters
  <2> QED
    BY <2>1, <2>2, <2>3, <2>4, <2>5, <2>6 DEF FirewallNext
<1> QED
  BY <1>1, <1>2, PTL DEF FirewallSpec

(* At the end every packet of the flow has been decided, by the first rule  *)
(* that catches it.                                                         *)
LEMMA AllDecided ==
    ASSUME FirewallInv, phase = "done"
    PROVE  \A k \in FlowPackets : \E d \in decisions : k \in Packets(d.box)
<1> SUFFICES ASSUME NEW k \in FlowPackets PROVE \E d \in decisions : k \in Packets(d.box)
  OBVIOUS
<1>1. PICK p \in FlowProtocols : k \in Packets(Whole(p))
  BY DEF FlowPackets, FlowProtocols, Whole
<1>2. remaining = {}
  BY DEF FirewallInv, Turns
<1>3. protocols = << >>
  <2>1. /\ Whole(p).src = flow.src /\ Whole(p).dst = flow.dst
        /\ Whole(p).ports = IF HasPorts(p) THEN flow.ports ELSE AllPorts
    BY NewSliceFields DEF Whole
  <2>2. ~IsEmpty(Whole(p))
    BY <1>1, PacketsOfEmpty
  <2>3. HasPorts(p) \/ flow.ports = AllPorts
    BY DEF FirewallInv, Policies, FlowProtocols, HasPorts
  <2>4. ~IsEmpty(flow)
    BY <2>1, <2>2, <2>3 DEF IsEmpty
  <2> QED
    BY <2>4 DEF FirewallInv, Turns
<1> QED
  BY <1>1, <1>2, <1>3 DEF FirewallInv, Covered

LEMMA DecidedAsFirstMatch ==
    ASSUME FirewallInv, Readable
    PROVE  \A d \in decisions : \A k \in Packets(d.box) :
              d.verdict = FirstMatch(k, DOMAIN policy.groups)
BY DEF FirewallInv, Sound

(* Every variable of an evaluation keeps its kind, and every slice of it is *)
(* of sets in their one form and holds traffic, however the rules' lists    *)
(* are written (Evaluate, applyGroup, subtract).                            *)
THEOREM FirewallTypeCorrect == FirewallSpec => []FirewallTypeOK
<1>1. FirewallInv => FirewallTypeOK
  BY DEF FirewallInv
<1> QED
  BY <1>1, FirewallInvHolds, PTL

(* For any policy, rule groups and flow, the slices an evaluation ends with *)
(* are disjoint and cover the flow, and each carries the action of the      *)
(* first rule that catches its packets, by the priorities of the groups and *)
(* the order within them, or the policy's default where none does.          *)
THEOREM FirstMatchesWin == FirewallSpec => []FirstMatchWins
<1>1. FirewallInv => FirstMatchWins
  <2> SUFFICES ASSUME FirewallInv PROVE FirstMatchWins
    OBVIOUS
  <2>1. DecidedOnce
    BY DEF FirewallInv
  <2> QED
    BY <2>1, AllDecided, DecidedAsFirstMatch DEF FirstMatchWins, Readable
<1> QED
  BY <1>1, FirewallInvHolds, PTL

(* For any policy, rule groups and flow, LayerResult says blocked only of a *)
(* flow the engine drops part of, and pass only of one it drops nothing of. *)
THEOREM LayerResultsAreTrue == FirewallSpec => []LayerResultIsTrue
<1>1. FirewallInv => LayerResultIsTrue
  <2> SUFFICES ASSUME FirewallInv, phase = "done", ~TurnsAround,
                      LayerResult \in {"blocked", "pass"}
               PROVE  (LayerResult = "blocked") <=>
                         \E k \in FlowPackets : FirstMatch(k, DOMAIN policy.groups) = "drop"
    BY DEF LayerResultIsTrue
  <2>1. abstentions = {} /\ (LayerResult = "blocked" <=> \E d \in decisions : d.verdict = "drop")
    BY DEF LayerResult
  <2>2. Readable
    BY <2>1 DEF Readable
  <2>3. ASSUME NEW d \in decisions, d.verdict = "drop"
        PROVE  \E k \in FlowPackets : FirstMatch(k, DOMAIN policy.groups) = "drop"
    <3>1. IsBox(d.box) /\ ~IsEmpty(d.box) /\ d.box.proto \in FlowProtocols
          /\ Within(d.box, Whole(d.box.proto))
      BY DEF FirewallInv, Boxes
    <3>2. PICK k : k \in Packets(d.box)
      BY <3>1, BoxesHoldPackets
    <3>3. k \in Packets(Whole(d.box.proto))
      BY <3>1, <3>2, WithinPackets
    <3>4. k \in FlowPackets
      BY <3>1, <3>3 DEF FlowPackets, FlowProtocols, Whole
    <3> QED
      BY <2>2, <2>3, <3>2, <3>4, DecidedAsFirstMatch
  <2>4. ASSUME NEW k \in FlowPackets, FirstMatch(k, DOMAIN policy.groups) = "drop"
        PROVE  \E d \in decisions : d.verdict = "drop"
    BY <2>2, <2>4, AllDecided, DecidedAsFirstMatch
  <2> QED
    BY <2>1, <2>3, <2>4
<1> QED
  BY <1>1, FirewallInvHolds, PTL

-----------------------------------------------------------------------------
(* The route walk, for any snapshots that are keyed by identifier.          *)

Ended(v) == At(v, None, None)

(* The steps of the way there, which depend on nothing but the snapshot: a  *)
(* walk's place and the next, or the verdict it ends with.                  *)
Home == net.home["dst"]
Known == Home \notin {None, "external"}

ToGateways(tables, q) ==
    \/ tables = {} /\ q = Ended("blocked")
    \/ \E g \in tables : q = AtGateway(g)

LeavesSubnet(q) ==
    \/ SubnetTables("src") = {} /\ q = Ended("blocked")
    \/ \E t \in SubnetTables("src") :
          \/ /\ Known /\ Home = net.home["src"]
             /\ \/ (\A r \in MatchRoute(t.routes, "dst") : r.dead) /\ q = Ended("blocked")
                \/ \E r \in MatchRoute(t.routes, "dst") : ~r.dead /\ q = Ended("pass")
          \/ /\ ~(Known /\ Home = net.home["src"])
             /\ LET up == { r \in MatchRoute(t.routes, "dst") : ~r.dead /\ r.kind = "gateway" }
                IN  \/ up = {} /\ q = Ended("blocked")
                    \/ \E r \in up :
                          LET attach == VPCAttachment(net.home["src"], r.target)
                          IN  \/ attach = {} /\ q = Ended("blocked")
                              \/ \E a \in attach : ToGateways(TablesFor(a.id, a.tgw), q)

Taken(r, a, q) ==
    \/ a.kind = "peering" /\ q = At("peering", Far(r, a), a.id)
    \/ /\ a.kind = "vpc" /\ FirewallsIn(a.resource) # {} /\ Home # a.resource
       /\ q = At("inspection", a.resource, a.id)
    \/ /\ a.kind = "vpc" /\ ~(FirewallsIn(a.resource) # {} /\ Home # a.resource)
       /\ q = IF Known /\ Home # a.resource THEN Ended("blocked") ELSE Ended("pass")
    \/ a.kind = "vpn" /\ q = Ended("blocked")

LeavesGateway(g, q) ==
    LET route == MatchRoute(g.routes, "dst")
    IN  \/ (\A r \in route : r.dead) /\ q = Ended("blocked")
        \/ \E r \in route :
              /\ ~r.dead
              /\ \/ Home = "external" /\ q = Ended("pass")
                 \/ /\ Home # "external" /\ r.kind = "attachment"
                    /\ \/ AttachmentFor(g.tgw, r.target) = {} /\ q = Ended("blocked")
                       \/ \E a \in AttachmentFor(g.tgw, r.target) : Taken(r, a, q)
                 \/ /\ Home # "external" /\ r.kind # "attachment"
                    /\ q = IF Known /\ "dst" \in g.near THEN Ended("pass") ELSE Ended("blocked")

LeavesInspection(a, q) ==
    \E f \in FirewallsIn(a.resource) :
        \/ ~net.skipFirewall /\ f.verdict # "pass" /\ q = Ended("blocked")
        \/ /\ net.skipFirewall \/ f.verdict = "pass"
           /\ ToGateways({ g \in net.gateways : a.id \in g.assoc }, q)

LeavesPeering(p, a, q) ==
    \/ p.id \notin net.collected /\ q = Ended("blocked")
    \/ p.id \in net.collected /\ ToGateways(TablesFor(a.id, p.id), q)

Leads(p, q) ==
    \/ p.at = "subnet" /\ LeavesSubnet(q)
    \/ p.at = "gateway" /\ \E g \in net.gateways : g.id = p.id /\ LeavesGateway(g, q)
    \/ p.at = "peering" /\ \E a \in Attachments :
          a.id = p.attach /\ a.kind = "peering" /\ LeavesPeering(p, a, q)
    \/ p.at = "inspection" /\ \E a \in Attachments :
          /\ a.id = p.attach /\ a.resource = p.id /\ a.kind = "vpc"
          /\ LeavesInspection(a, q)

Closed(S) == \A p, q : p \in S /\ Leads(p, q) => q \in S

(* The places on the way there from p.                                      *)
OnTheWay(p, q) == \A S : p \in S /\ Closed(S) => q \in S

Places == [at : {"subnet", "gateway", "peering", "inspection", "pass", "blocked"},
           id : STRING \cup {None}, attach : STRING \cup {None}]

(* Where a walk of the way there is.                                        *)
Place(w) == IF walk = w THEN pos ELSE Ended(verdict[w])

(* Where a walk is is where the snapshot leads.                             *)
Positions ==
    /\ pos \in Places
    /\ pos.at \in {"subnet", "gateway", "peering", "inspection"}
    /\ pos.at = "peering" => \E a \in Attachments : a.id = pos.attach /\ a.kind = "peering"
    /\ pos.at = "inspection" => \E a \in Attachments :
          a.id = pos.attach /\ a.resource = pos.id /\ a.kind = "vpc"

Found(w) == verdict[w] \in {"pass", "blocked"}

WalkInv ==
    /\ net \in Networks
    /\ walk \in Walks \cup {"done"}
    /\ walk = "done" => pos = Subnet
    /\ inspected \in [Walks -> SUBSET { f.id : f \in net.firewalls }]
    /\ verdict \in [Walks -> {"none", "pass", "blocked", "abstain"}]
    /\ Positions
    /\ OnTheWay(Subnet, Place("forward")) /\ (walk # "forward" => Found("forward"))
    /\ walk \in {"again", "done"} => OnTheWay(Subnet, Place("again"))
    /\ walk = "done" => Found("again")

-----------------------------------------------------------------------------
(* What is in a snapshot.                                                   *)

LEMMA Snapshots ==
    ASSUME net \in Networks
    PROVE  /\ net \in Network
           /\ Attachments \subseteq Attachment
           /\ \A g \in net.gateways : g.id \in STRING /\ g.tgw \in Gateway /\ g.routes \in Seq(Route)
           /\ \A t \in net.tables : t.routes \in Seq(Route)
           /\ Keyed(net.gateways) /\ Keyed(Attachments)
  BY NetworksAssumption DEF Network, Attachments, Keyed

(* A lookup of a route finds one route of the table at most.                *)
LEMMA OneRoute ==
    ASSUME NEW routes \in Seq(Route), NEW dest
    PROVE  /\ MatchRoute(routes, dest) \subseteq Route
           /\ Single(MatchRoute(routes, dest))
  <1>0. \A r \in Route : Bits(r) \in Nat
    BY DEF Bits, Route
  <1>1. \A i \in DOMAIN routes : i \in Nat /\ routes[i] \in Route /\ Bits(routes[i]) \in Nat
    BY <1>0
  <1>2. MatchRoute(routes, dest) \subseteq Route
    BY <1>1 DEF MatchRoute
  <1>3. SUFFICES ASSUME NEW i \in DOMAIN routes, NEW j \in DOMAIN routes,
                        RouteCovers(routes[i], dest), RouteCovers(routes[j], dest),
                        \/ Bits(routes[j]) < Bits(routes[i])
                        \/ Bits(routes[j]) = Bits(routes[i]) /\ i <= j,
                        \/ Bits(routes[i]) < Bits(routes[j])
                        \/ Bits(routes[i]) = Bits(routes[j]) /\ j <= i
                 PROVE  i = j
    BY <1>2 DEF MatchRoute, Single
  <1> QED
    BY <1>1, <1>3

(* Of a VPC's attachments to a gateway, one at most.                        *)
LEMMA OneAttachment ==
    ASSUME net \in Networks, NEW vpc, NEW tgw
    PROVE  /\ \A a \in VPCAttachment(vpc, tgw) :
                 a \in Attachments /\ a.kind = "vpc" /\ a.resource = vpc /\ a.tgw = tgw
           /\ Single(VPCAttachment(vpc, tgw))
  <1>1. net.attached \in Seq(Attachment)
    BY Snapshots DEF Network
  <1>2. \A i, j \in DOMAIN net.attached : i <= j /\ j <= i => i = j
    BY <1>1
  <1> QED
    BY <1>2 DEF VPCAttachment, Attachments, Single

(* What is looked up among a gateway's route targets is an attachment.      *)
LEMMA LookedUp ==
    ASSUME NEW from, NEW target
    PROVE  AttachmentFor(from, target) \subseteq Attachments
  BY DEF AttachmentFor, PeeringBetween

LEMMA TablesAreGateways ==
    ASSUME NEW attach, NEW tgw
    PROVE  TablesFor(attach, tgw) \subseteq net.gateways
  BY DEF TablesFor

(* A choice among one table at most is no choice.                           *)
LEMMA OneGateway ==
    ASSUME NEW tables, Single(tables), NEW p, NEW q, ToGateways(tables, p), ToGateways(tables, q)
    PROVE  p = q
  BY DEF Single, ToGateways

-----------------------------------------------------------------------------
(* Where no lookup is ambiguous a place leads to one other at most.         *)

LEMMA OneWayFromSubnet ==
    ASSUME net \in Networks, Unambiguous, NEW p, NEW q, LeavesSubnet(p), LeavesSubnet(q)
    PROVE  p = q
  <1>1. CASE SubnetTables("src") = {}
    BY <1>1 DEF LeavesSubnet
  <1>2. CASE SubnetTables("src") # {}
    <2>1. PICK t \in SubnetTables("src") : SubnetTables("src") = {t}
      BY <1>2 DEF Unambiguous, Single
    <2>2. t.routes \in Seq(Route)
      BY <2>1, Snapshots DEF SubnetTables
    <2> DEFINE route == MatchRoute(t.routes, "dst")
    <2>3. Single(route)
      BY <2>2, OneRoute
    <2>4. CASE Known /\ Home = net.home["src"]
      BY <2>1, <2>3, <2>4 DEF LeavesSubnet, Single
    <2>5. CASE ~(Known /\ Home = net.home["src"])
      <3> DEFINE up == { r \in route : ~r.dead /\ r.kind = "gateway" }
                 Entry(x, r) ==
                    LET attach == VPCAttachment(net.home["src"], r.target)
                    IN  \/ attach = {} /\ x = Ended("blocked")
                        \/ \E a \in attach : ToGateways(TablesFor(a.id, a.tgw), x)
      <3>1. \A x \in {p, q} : \/ up = {} /\ x = Ended("blocked")
                             \/ \E r \in up : Entry(x, r)
        BY <2>1, <2>5 DEF LeavesSubnet
      <3>2. Single(up)
        BY <2>3 DEF Single
      <3>3. ASSUME NEW r \in up, Entry(p, r), Entry(q, r)
            PROVE  p = q
        <4>1. Single(VPCAttachment(net.home["src"], r.target))
          BY OneAttachment
        <4>2. CASE VPCAttachment(net.home["src"], r.target) = {}
          BY <3>3, <4>2
        <4>3. CASE VPCAttachment(net.home["src"], r.target) # {}
          <5>1. PICK a \in VPCAttachment(net.home["src"], r.target) :
                    ToGateways(TablesFor(a.id, a.tgw), p) /\ ToGateways(TablesFor(a.id, a.tgw), q)
            BY <3>3, <4>1, <4>3 DEF Single
          <5>2. a \in Attachments /\ a.kind = "vpc" /\ a.resource = net.home["src"]
            BY OneAttachment
          <5>3. Single(TablesFor(a.id, a.tgw))
            BY <5>2 DEF Unambiguous
          <5> QED
            BY <5>1, <5>3, OneGateway
        <4> QED
          BY <4>2, <4>3
      <3> HIDE DEF up, Entry
      <3> QED
        BY <3>1, <3>2, <3>3 DEF Single
    <2> QED
      BY <2>4, <2>5
  <1> QED
    BY <1>1, <1>2

LEMMA OneWayFromGateway ==
    ASSUME net \in Networks, Unambiguous, NEW g \in net.gateways,
           NEW p, NEW q, LeavesGateway(g, p), LeavesGateway(g, q)
    PROVE  p = q
  <1> DEFINE route == MatchRoute(g.routes, "dst")
             From(r, x) ==
                \/ Home = "external" /\ x = Ended("pass")
                \/ /\ Home # "external" /\ r.kind = "attachment"
                   /\ \/ AttachmentFor(g.tgw, r.target) = {} /\ x = Ended("blocked")
                      \/ \E a \in AttachmentFor(g.tgw, r.target) : Taken(r, a, x)
                \/ /\ Home # "external" /\ r.kind # "attachment"
                   /\ x = IF Known /\ "dst" \in g.near THEN Ended("pass") ELSE Ended("blocked")
  <1>1. Single(route)
    BY Snapshots, OneRoute
  <1>2. \A x \in {p, q} : \/ (\A r \in route : r.dead) /\ x = Ended("blocked")
                         \/ \E r \in route : ~r.dead /\ From(r, x)
    BY DEF LeavesGateway
  <1>3. ASSUME NEW r \in route, From(r, p), From(r, q)
        PROVE  p = q
    <2>1. CASE Home # "external" /\ r.kind = "attachment"
      <3>1. Single(AttachmentFor(g.tgw, r.target))
        BY DEF Unambiguous, MatchRoute
      <3>2. ASSUME NEW a, Taken(r, a, p), Taken(r, a, q)
            PROVE  p = q
        BY <3>2 DEF Taken
      <3> QED
        BY <1>3, <2>1, <3>1, <3>2 DEF Single
    <2>2. CASE ~(Home # "external" /\ r.kind = "attachment")
      BY <1>3, <2>2
    <2> QED
      BY <2>1, <2>2
  <1> HIDE DEF route, From
  <1> QED
    BY <1>1, <1>2, <1>3 DEF Single

LEMMA OneWay ==
    ASSUME net \in Networks, Unambiguous, NEW p, NEW x, NEW y, Leads(p, x), Leads(p, y)
    PROVE  x = y
  <1>1. CASE p.at = "subnet"
    BY <1>1, OneWayFromSubnet DEF Leads
  <1>2. CASE p.at = "gateway"
    <2>1. PICK g \in net.gateways : g.id = p.id /\ LeavesGateway(g, x) /\ LeavesGateway(g, y)
      BY <1>2, Snapshots DEF Leads, Keyed
    <2> QED
      BY <2>1, OneWayFromGateway
  <1>3. CASE p.at = "peering"
    <2>1. PICK a \in Attachments :
              a.id = p.attach /\ a.kind = "peering" /\ LeavesPeering(p, a, x) /\ LeavesPeering(p, a, y)
      BY <1>3, Snapshots DEF Leads, Keyed
    <2>2. p.id \in net.collected => Single(TablesFor(a.id, p.id))
      BY <2>1, Snapshots DEF Unambiguous, Network
    <2> QED
      BY <2>1, <2>2, OneGateway DEF LeavesPeering
  <1>4. CASE p.at = "inspection"
    <2>1. PICK a \in Attachments :
              /\ a.id = p.attach /\ a.kind = "vpc"
              /\ LeavesInspection(a, x) /\ LeavesInspection(a, y)
      BY <1>4, Snapshots DEF Leads, Keyed
    <2>2. Single(FirewallsIn(a.resource)) /\ Single({ g \in net.gateways : a.id \in g.assoc })
      BY <2>1 DEF Unambiguous
    <2> QED
      BY <2>1, <2>2, OneGateway DEF LeavesInspection, Single
  <1> QED
    BY <1>1, <1>2, <1>3, <1>4 DEF Leads

(* A place leads to a place.                                                *)
LEMMA LeadsToPlaces ==
    ASSUME net \in Networks, NEW p, NEW q, Leads(p, q)
    PROVE  q \in Places
  <1>1. /\ Ended("pass") \in Places /\ Ended("blocked") \in Places
        /\ \A g \in net.gateways : AtGateway(g) \in Places
    BY Snapshots DEF Ended, AtGateway, At, Places
  <1>2. ASSUME NEW tables \in SUBSET net.gateways, ToGateways(tables, q)
        PROVE  q \in Places
    BY <1>1, <1>2 DEF ToGateways
  <1>3. ASSUME LeavesSubnet(q)
        PROVE  q \in Places
    <2>1. \A a : TablesFor(a.id, a.tgw) \in SUBSET net.gateways
      BY TablesAreGateways
    <2> QED
      BY <1>1, <1>2, <1>3, <2>1 DEF LeavesSubnet
  <1>4. ASSUME NEW g \in net.gateways, LeavesGateway(g, q)
        PROVE  q \in Places
    <2>1. CASE q \in {Ended("pass"), Ended("blocked")}
      BY <1>1, <2>1
    <2>2. CASE q \notin {Ended("pass"), Ended("blocked")}
      <3>1. PICK r \in MatchRoute(g.routes, "dst") :
                \E a \in AttachmentFor(g.tgw, r.target) : Taken(r, a, q)
        BY <1>4, <2>2 DEF LeavesGateway
      <3>2. PICK a \in AttachmentFor(g.tgw, r.target) : Taken(r, a, q)
        BY <3>1
      <3>3. r \in Route /\ a \in Attachment
        BY <3>2, Snapshots, OneRoute, LookedUp
      <3>4. Far(r, a) \in STRING /\ a.id \in STRING /\ a.resource \in STRING
        BY <3>3 DEF Far, Route, Attachment
      <3>5. \/ q = At("peering", Far(r, a), a.id)
            \/ q = At("inspection", a.resource, a.id)
        BY <2>2, <3>2 DEF Taken
      <3> QED
        BY <3>4, <3>5 DEF At, Places
    <2> QED
      BY <2>1, <2>2
  <1>5. ASSUME NEW a, LeavesPeering(p, a, q)
        PROVE  q \in Places
    BY <1>1, <1>2, <1>5, TablesAreGateways DEF LeavesPeering
  <1>6. ASSUME NEW a, LeavesInspection(a, q)
        PROVE  q \in Places
    <2>1. { g \in net.gateways : a.id \in g.assoc } \in SUBSET net.gateways
      OBVIOUS
    <2> QED
      BY <1>1, <1>2, <1>6, <2>1 DEF LeavesInspection
  <1> QED
    BY <1>3, <1>4, <1>5, <1>6 DEF Leads

(* A verdict leads no further.                                              *)
LEMMA VerdictsEnd ==
    ASSUME NEW v \in {"pass", "blocked"}, NEW q
    PROVE  ~Leads(Ended(v), q)
  BY DEF Leads, Ended, At

(* From one place, one verdict: where every place leads to one other, the   *)
(* places the first verdict can be reached from are all those on the way.   *)
LEMMA OneVerdict ==
    ASSUME net \in Networks, Unambiguous,
           NEW v \in {"pass", "blocked"}, NEW u \in {"pass", "blocked"},
           OnTheWay(Subnet, Ended(v)), OnTheWay(Subnet, Ended(u))
    PROVE  u = v
  <1> DEFINE S == { p \in Places : OnTheWay(p, Ended(v)) }
  <1>1. Subnet \in S
    BY DEF Subnet, At, Places
  <1>2. ASSUME NEW p \in S, NEW q, Leads(p, q)
        PROVE  q \in S
    <2>1. q \in Places
      BY <1>2, LeadsToPlaces
    <2>2. ASSUME NEW T, q \in T, Closed(T)
          PROVE  Ended(v) \in T
      <3>1. \A x : Leads(p, x) => x = q
        BY <1>2, OneWay
      <3>2. Closed(T \cup {p})
        BY <2>2, <3>1 DEF Closed
      <3>3. Ended(v) \in T \cup {p}
        BY <1>2, <3>2 DEF OnTheWay
      <3> QED
        BY <1>2, <3>3, VerdictsEnd
    <2> QED
      BY <2>1, <2>2 DEF OnTheWay
  <1>3. Closed(S)
    BY <1>2 DEF Closed
  <1>4. OnTheWay(Ended(u), Ended(v))
    BY <1>1, <1>3 DEF OnTheWay
  <1>5. Closed({Ended(u)})
    BY VerdictsEnd DEF Closed
  <1>6. Ended(v) = Ended(u)
    BY <1>4, <1>5 DEF OnTheWay
  <1> QED
    BY <1>6 DEF Ended, At

-----------------------------------------------------------------------------
(* The steps of a walk.                                                     *)

(* The snapshot does not change under a walk.                               *)
LEMMA SameWay ==
    ASSUME UNCHANGED net
    PROVE  \A p, q : OnTheWay(p, q)' <=> OnTheWay(p, q)
  <1>1. \A p, q : Leads(p, q)' <=> Leads(p, q)
    BY DEF Leads, LeavesSubnet, LeavesGateway, LeavesPeering, LeavesInspection, Taken, ToGateways,
           Home, Known, SubnetTables, VPCAttachment, TablesFor, AttachmentFor, PeeringBetween,
           FirewallsIn, Attachments
  <1>2. \A S : Closed(S)' <=> Closed(S)
    BY <1>1 DEF Closed
  <1> QED
    BY <1>2 DEF OnTheWay

(* A walk goes on, or ends; on the way there, as the snapshot leads.        *)
Advances ==
    /\ Positions'
    /\ UNCHANGED << walk, verdict >>
    /\ walk # "return" => Leads(pos, pos')

EndsWith(v) ==
    /\ pos' = Subnet
    /\ walk' = NextWalk(v)
    /\ verdict' = [verdict EXCEPT ![walk] = v]
    /\ walk # "return" => v # "abstain" /\ Leads(pos, Ended(v))

Steps ==
    /\ UNCHANGED net
    /\ walk # "done"
    /\ inspected' \in [Walks -> SUBSET { f.id : f \in net.firewalls }]
    /\ Advances \/ \E v \in {"pass", "blocked", "abstain"} : EndsWith(v)

(* The way there is walked twice, and the same way.                         *)
LEMMA ThereAgain ==
    ASSUME walk \in Walks, walk # "return"
    PROVE  /\ Source(walk) = "src" /\ Dest(walk) = "dst"
           /\ DestVPC = Home /\ SourceVPC = net.home["src"] /\ (DestKnown <=> Known)
           /\ \A ids : Arrive(ids) => End("pass", ids)
  BY DEF Source, Dest, Walks, DestVPC, SourceVPC, Home, DestKnown, Known, Arrive, Cleared

LEMMA EndsWalk ==
    ASSUME WalkInv, walk # "done", NEW v \in {"pass", "blocked", "abstain"}, NEW ids,
           End(v, ids), UNCHANGED inspected,
           walk # "return" => v # "abstain" /\ Leads(pos, Ended(v))
    PROVE  Steps
  BY DEF WalkInv, Steps, EndsWith, End

LEMMA Blocks ==
    ASSUME WalkInv, walk # "done", NEW ids, Block(ids),
           walk # "return" => Leads(pos, Ended("blocked"))
    PROVE  Steps
  BY EndsWalk DEF Block

LEMMA Arrives ==
    ASSUME WalkInv, walk # "done", NEW ids, Arrive(ids),
           walk # "return" => Leads(pos, Ended("pass"))
    PROVE  Steps
  <1>1. Cleared(inspected[walk]) \in {"pass", "abstain"} /\ (walk # "return" => Cleared(inspected[walk]) = "pass")
    BY DEF Cleared
  <1> QED
    BY <1>1, EndsWalk DEF Arrive

LEMMA GoesOn ==
    ASSUME WalkInv, walk # "done", NEW next, NEW ids, Continue(next, ids), UNCHANGED inspected,
           Positions',
           walk # "return" => Leads(pos, next)
    PROVE  Steps
  BY DEF WalkInv, Steps, Advances, Continue

LEMMA IntoGateway ==
    ASSUME net \in Networks, UNCHANGED net, NEW g \in net.gateways, pos' = AtGateway(g)
    PROVE  Positions'
  BY Snapshots DEF Positions, Places, AtGateway, At

LEMMA StaysInVPC ==
    ASSUME WalkInv, StayInVPC
    PROVE  Steps
  <1>1. walk \in Walks /\ walk # "done" /\ pos.at = "subnet"
    BY DEF WalkInv, StayInVPC
  <1>2. CASE SubnetTables(Source(walk)) = {} /\ Block({})
    BY <1>1, <1>2, ThereAgain, Blocks DEF Leads, LeavesSubnet
  <1>3. ASSUME NEW t \in SubnetTables(Source(walk)),
               \A r \in MatchRoute(t.routes, Dest(walk)) : r.dead, Block({})
        PROVE  Steps
    <2>1. walk # "return" => LeavesSubnet(Ended("blocked"))
      BY <1>1, <1>3, ThereAgain DEF StayInVPC, LeavesSubnet
    <2> QED
      BY <1>1, <1>3, <2>1, Blocks DEF Leads
  <1>4. ASSUME NEW t \in SubnetTables(Source(walk)),
               NEW r \in MatchRoute(t.routes, Dest(walk)), ~r.dead, Arrive(NextHop(r))
        PROVE  Steps
    <2>1. walk # "return" => LeavesSubnet(Ended("pass"))
      BY <1>1, <1>4, ThereAgain DEF StayInVPC, LeavesSubnet
    <2> QED
      BY <1>1, <1>4, <2>1, Arrives DEF Leads
  <1> QED
    BY <1>2, <1>3, <1>4 DEF StayInVPC

LEMMA EntersGateway ==
    ASSUME WalkInv, EnterGateway
    PROVE  Steps
  <1>1. walk \in Walks /\ walk # "done" /\ pos.at = "subnet" /\ net \in Networks
    BY DEF WalkInv, EnterGateway
  <1>2. CASE SubnetTables(Source(walk)) = {} /\ Block({})
    BY <1>1, <1>2, ThereAgain, Blocks DEF Leads, LeavesSubnet
  <1>3. CASE \E t \in SubnetTables(Source(walk)) :
               LET up == { r \in MatchRoute(t.routes, Dest(walk)) : ~r.dead /\ r.kind = "gateway" }
               IN  \/ up = {} /\ Block({})
                   \/ \E r \in up :
                         LET attach == VPCAttachment(SourceVPC, r.target)
                         IN  \/ attach = {} /\ Block({r.target})
                             \/ \E a \in attach :
                                   \/ /\ TablesFor(a.id, a.tgw) = {}
                                      /\ Block(Entered(t, r, a))
                                   \/ \E g \in TablesFor(a.id, a.tgw) :
                                         /\ Continue(AtGateway(g), Entered(t, r, a))
                                         /\ UNCHANGED inspected
    <2>1. PICK t \in SubnetTables(Source(walk)) :
               LET up == { r \in MatchRoute(t.routes, Dest(walk)) : ~r.dead /\ r.kind = "gateway" }
               IN  \/ up = {} /\ Block({})
                   \/ \E r \in up :
                         LET attach == VPCAttachment(SourceVPC, r.target)
                         IN  \/ attach = {} /\ Block({r.target})
                             \/ \E a \in attach :
                                   \/ /\ TablesFor(a.id, a.tgw) = {}
                                      /\ Block(Entered(t, r, a))
                                   \/ \E g \in TablesFor(a.id, a.tgw) :
                                         /\ Continue(AtGateway(g), Entered(t, r, a))
                                         /\ UNCHANGED inspected
      BY <1>3
    <2> DEFINE up == { r \in MatchRoute(t.routes, Dest(walk)) : ~r.dead /\ r.kind = "gateway" }
               Entry(q) ==
                   \/ up = {} /\ q = Ended("blocked")
                   \/ \E r \in up :
                         LET attach == VPCAttachment(SourceVPC, r.target)
                         IN  \/ attach = {} /\ q = Ended("blocked")
                             \/ \E a \in attach : ToGateways(TablesFor(a.id, a.tgw), q)
    <2>2. ASSUME NEW q, walk # "return", Entry(q)
          PROVE  Leads(pos, q)
      <3>1. LeavesSubnet(q)
        BY <1>1, <2>2, ThereAgain DEF EnterGateway, LeavesSubnet
      <3> QED
        BY <1>1, <3>1 DEF Leads
    <2>3. CASE up = {} /\ Block({})
      <3>1. Entry(Ended("blocked"))
        BY <2>3
      <3> HIDE DEF Entry, up
      <3> QED
        BY <1>1, <2>2, <2>3, <3>1, Blocks
    <2>4. ASSUME NEW r \in up, VPCAttachment(SourceVPC, r.target) = {}, Block({r.target})
          PROVE  Steps
      <3>1. Entry(Ended("blocked"))
        BY <2>4
      <3> HIDE DEF Entry, up
      <3> QED
        BY <1>1, <2>2, <2>4, <3>1, Blocks
    <2>5. ASSUME NEW r \in up, NEW a \in VPCAttachment(SourceVPC, r.target),
                 TablesFor(a.id, a.tgw) = {}, Block(Entered(t, r, a))
          PROVE  Steps
      <3>1. Entry(Ended("blocked"))
        BY <2>5 DEF ToGateways
      <3> HIDE DEF Entry, up
      <3> QED
        BY <1>1, <2>2, <2>5, <3>1, Blocks
    <2>6. ASSUME NEW r \in up, NEW a \in VPCAttachment(SourceVPC, r.target),
                 NEW g \in TablesFor(a.id, a.tgw),
                 Continue(AtGateway(g), Entered(t, r, a)), UNCHANGED inspected
          PROVE  Steps
      <3>1. Entry(AtGateway(g))
        BY <2>6 DEF ToGateways
      <3>2. g \in net.gateways
        BY TablesAreGateways
      <3>3. pos' = AtGateway(g) /\ net' = net
        BY <2>6 DEF Continue
      <3>4. Positions'
        BY <1>1, <3>2, <3>3, IntoGateway
      <3> HIDE DEF Entry, up
      <3> QED
        BY <1>1, <2>2, <2>6, <3>1, <3>4, GoesOn
    <2> QED
      BY <2>1, <2>3, <2>4, <2>5, <2>6
  <1> QED
    BY <1>2, <1>3 DEF EnterGateway

LEMMA TakesAttachment ==
    ASSUME WalkInv, walk # "done", NEW r \in Route, NEW a \in Attachments, TakeAttachment(r, a),
           \A q : walk # "return" /\ Taken(r, a, q) => Leads(pos, q)
    PROVE  Steps
  <1>1. walk \in Walks /\ net \in Networks
    BY DEF WalkInv
  <1>2. a \in Attachment
    BY <1>1, Snapshots
  <1>3. CASE a.kind = "peering" /\ Continue(At("peering", Far(r, a), a.id), {r.target, Far(r, a)})
             /\ UNCHANGED inspected
    <2>1. Far(r, a) \in STRING /\ a.id \in STRING
      BY <1>2 DEF Far, Route, Attachment
    <2>2. pos' = At("peering", Far(r, a), a.id) /\ Attachments' = Attachments
      BY <1>3 DEF Continue, Attachments
    <2>3. Positions'
      BY <1>3, <2>1, <2>2 DEF Positions, Places, At
    <2>4. Taken(r, a, At("peering", Far(r, a), a.id))
      BY <1>3 DEF Taken
    <2> QED
      BY <1>3, <2>3, <2>4, GoesOn
  <1>4. CASE a.kind = "vpc" /\ Diverts(a) /\ Continue(At("inspection", a.resource, a.id), {r.target})
             /\ UNCHANGED inspected
    <2>1. a.resource \in STRING /\ a.id \in STRING
      BY <1>2 DEF Attachment
    <2>2. pos' = At("inspection", a.resource, a.id) /\ Attachments' = Attachments
      BY <1>4 DEF Continue, Attachments
    <2>3. Positions'
      BY <1>4, <2>1, <2>2 DEF Positions, Places, At
    <2>4. walk # "return" => Taken(r, a, At("inspection", a.resource, a.id))
      BY <1>1, <1>4, ThereAgain DEF Taken, Diverts
    <2> QED
      BY <1>4, <2>3, <2>4, GoesOn
  <1>5. CASE a.kind = "vpc" /\ ~Diverts(a)
    <2>1. CASE DestKnown /\ DestVPC # a.resource
      <3>1. walk # "return" => Taken(r, a, Ended("blocked"))
        BY <1>1, <1>5, <2>1, ThereAgain DEF Taken, Diverts
      <3>2. Block({r.target})
        BY <1>5, <2>1 DEF TakeAttachment
      <3> QED
        BY <3>1, <3>2, Blocks
    <2>2. CASE ~(DestKnown /\ DestVPC # a.resource)
      <3>1. walk # "return" => Taken(r, a, Ended("pass"))
        BY <1>1, <1>5, <2>2, ThereAgain DEF Taken, Diverts
      <3>2. Arrive({r.target, a.id})
        BY <1>5, <2>2 DEF TakeAttachment
      <3> QED
        BY <3>1, <3>2, Arrives
    <2> QED
      BY <2>1, <2>2
  <1>6. CASE a.kind = "vpn" /\ Block({r.target})
    BY <1>6, Blocks DEF Taken
  <1> QED
    BY <1>3, <1>4, <1>5, <1>6 DEF TakeAttachment

LEMMA GoesThroughGateway ==
    ASSUME WalkInv, ThroughGateway
    PROVE  Steps
  <1>1. net \in Networks /\ walk \in Walks /\ walk # "done" /\ pos.at = "gateway"
    BY DEF WalkInv, ThroughGateway, Walks, Subnet, At
  <1>2. PICK g \in net.gateways :
          /\ g.id = pos.id
          /\ \/ (\A r \in MatchRoute(g.routes, Dest(walk)) : r.dead) /\ Block({})
             \/ \E r \in MatchRoute(g.routes, Dest(walk)) :
                  /\ ~r.dead
                  /\ \/ DestVPC = "external" /\ Arrive({r.target})
                     \/ /\ DestVPC # "external" /\ r.kind = "attachment"
                        /\ \/ AttachmentFor(g.tgw, r.target) = {} /\ Block({r.target})
                           \/ \E a \in AttachmentFor(g.tgw, r.target) : TakeAttachment(r, a)
                     \/ /\ DestVPC # "external" /\ r.kind # "attachment"
                        /\ IF DestKnown /\ Dest(walk) \in g.near THEN Arrive({r.target})
                                                              ELSE Block({r.target})
    BY DEF ThroughGateway
  <1>3. \A q : walk # "return" /\ LeavesGateway(g, q) => Leads(pos, q)
    BY <1>1, <1>2 DEF Leads
  <1>4. CASE (\A r \in MatchRoute(g.routes, Dest(walk)) : r.dead) /\ Block({})
    <2>1. walk # "return" => LeavesGateway(g, Ended("blocked"))
      BY <1>1, <1>4, ThereAgain DEF LeavesGateway
    <2> QED
      BY <1>1, <1>3, <1>4, <2>1, Blocks
  <1>5. ASSUME NEW r \in MatchRoute(g.routes, Dest(walk)), ~r.dead
        PROVE  /\ DestVPC = "external" /\ Arrive({r.target}) => Steps
               /\ DestVPC # "external" /\ r.kind = "attachment"
                  /\ AttachmentFor(g.tgw, r.target) = {} /\ Block({r.target}) => Steps
               /\ \A a \in AttachmentFor(g.tgw, r.target) :
                     DestVPC # "external" /\ r.kind = "attachment" /\ TakeAttachment(r, a) => Steps
               /\ DestVPC # "external" /\ r.kind # "attachment"
                  /\ (IF DestKnown /\ Dest(walk) \in g.near THEN Arrive({r.target})
                                                         ELSE Block({r.target})) => Steps
    <2>1. CASE DestVPC = "external" /\ Arrive({r.target})
      <3>1. walk # "return" => LeavesGateway(g, Ended("pass"))
        BY <1>1, <1>5, <2>1, ThereAgain DEF LeavesGateway
      <3> QED
        BY <1>1, <1>3, <2>1, <3>1, Arrives
    <2>2. CASE /\ DestVPC # "external" /\ r.kind = "attachment"
               /\ AttachmentFor(g.tgw, r.target) = {} /\ Block({r.target})
      <3>1. walk # "return" => LeavesGateway(g, Ended("blocked"))
        BY <1>1, <1>5, <2>2, ThereAgain DEF LeavesGateway
      <3> QED
        BY <1>1, <1>3, <2>2, <3>1, Blocks
    <2>3. ASSUME NEW a \in AttachmentFor(g.tgw, r.target),
                 DestVPC # "external", r.kind = "attachment", TakeAttachment(r, a)
          PROVE  Steps
      <3>1. \A q : walk # "return" /\ Taken(r, a, q) => LeavesGateway(g, q)
        BY <1>1, <1>5, <2>3, ThereAgain DEF LeavesGateway
      <3>2. r \in Route /\ a \in Attachments
        BY <1>1, Snapshots, OneRoute, LookedUp
      <3> QED
        BY <1>1, <1>3, <2>3, <3>1, <3>2, TakesAttachment
    <2>4. CASE /\ DestVPC # "external" /\ r.kind # "attachment"
               /\ IF DestKnown /\ Dest(walk) \in g.near THEN Arrive({r.target}) ELSE Block({r.target})
      <3>1. CASE DestKnown /\ Dest(walk) \in g.near
        <4>1. walk # "return" => LeavesGateway(g, Ended("pass"))
          BY <1>1, <1>5, <2>4, <3>1, ThereAgain DEF LeavesGateway
        <4> QED
          BY <1>1, <1>3, <2>4, <3>1, <4>1, Arrives
      <3>2. CASE ~(DestKnown /\ Dest(walk) \in g.near)
        <4>1. walk # "return" => LeavesGateway(g, Ended("blocked"))
          BY <1>1, <1>5, <2>4, <3>2, ThereAgain DEF LeavesGateway
        <4> QED
          BY <1>1, <1>3, <2>4, <3>2, <4>1, Blocks
      <3> QED
        BY <3>1, <3>2
    <2> QED
      BY <2>1, <2>2, <2>3, <2>4
  <1> QED
    BY <1>2, <1>4, <1>5

LEMMA CrossesPeering ==
    ASSUME WalkInv, CrossPeering
    PROVE  Steps
  <1>1. net \in Networks /\ walk # "done" /\ pos.at = "peering"
    BY DEF WalkInv, CrossPeering, Subnet, At
  <1>2. PICK a \in Attachments : a.id = pos.attach /\ a.kind = "peering"
    BY <1>1 DEF WalkInv, Positions
  <1>3. \A q : LeavesPeering(pos, a, q) => Leads(pos, q)
    BY <1>1, <1>2 DEF Leads
  <1>4. CASE Block({}) /\ (pos.id \notin net.collected \/ TablesFor(pos.attach, pos.id) = {})
    <2>1. LeavesPeering(pos, a, Ended("blocked"))
      BY <1>2, <1>4 DEF LeavesPeering, ToGateways
    <2> QED
      BY <1>1, <1>3, <1>4, <2>1, Blocks
  <1>5. ASSUME pos.id \in net.collected, NEW g \in TablesFor(pos.attach, pos.id),
               Continue(AtGateway(g), {}), UNCHANGED inspected
        PROVE  Steps
    <2>1. LeavesPeering(pos, a, AtGateway(g))
      BY <1>2, <1>5 DEF LeavesPeering, ToGateways
    <2>2. g \in net.gateways
      BY TablesAreGateways
    <2>3. pos' = AtGateway(g) /\ net' = net
      BY <1>5 DEF Continue
    <2>4. Positions'
      BY <1>1, <2>2, <2>3, IntoGateway
    <2> QED
      BY <1>1, <1>3, <1>5, <2>1, <2>4, GoesOn
  <1> QED
    BY <1>1, <1>4, <1>5 DEF CrossPeering

LEMMA Inspects ==
    ASSUME WalkInv, Inspect
    PROVE  Steps
  <1>1. net \in Networks /\ walk \in Walks /\ walk # "done" /\ pos.at = "inspection"
    BY DEF WalkInv, Inspect, Walks, Subnet, At
  <1> DEFINE after(a) == { g \in net.gateways : a.id \in g.assoc }
  <1>2. PICK f \in FirewallsIn(pos.id), a \in Attachments :
          /\ a.id = pos.attach
          /\ inspected' = [inspected EXCEPT ![walk] = @ \cup {f.id}]
          /\ \/ Stops(f) /\ End("blocked", {pos.id})
             \/ /\ ~Stops(f)
                /\ \/ after(a) = {} /\ End("blocked", ThroughVPC(pos.id, a))
                   \/ \E g \in after(a) :
                         Continue(AtGateway(g), ThroughVPC(pos.id, a) \cup {a.id})
    BY DEF Inspect
  <1>3. a.resource = pos.id /\ a.kind = "vpc"
    BY <1>1, <1>2, Snapshots DEF WalkInv, Positions, Keyed
  <1>4. \A q : LeavesInspection(a, q) => Leads(pos, q)
    BY <1>1, <1>2, <1>3 DEF Leads
  <1>5. f \in net.firewalls
    BY DEF FirewallsIn
  <1>6. inspected' \in [Walks -> SUBSET { x.id : x \in net.firewalls }]
    BY <1>1, <1>2, <1>5 DEF WalkInv
  <1>7. CASE Stops(f) /\ End("blocked", {pos.id})
    <2>1. walk # "return" => LeavesInspection(a, Ended("blocked"))
      BY <1>3, <1>7 DEF LeavesInspection, Stops
    <2> QED
      BY <1>1, <1>4, <1>6, <1>7, <2>1 DEF Steps, EndsWith, End
  <1>8. CASE ~Stops(f) /\ after(a) = {} /\ End("blocked", ThroughVPC(pos.id, a))
    <2>1. walk # "return" => LeavesInspection(a, Ended("blocked"))
      BY <1>3, <1>8 DEF LeavesInspection, Stops, ToGateways
    <2> QED
      BY <1>1, <1>4, <1>6, <1>8, <2>1 DEF Steps, EndsWith, End
  <1>9. ASSUME ~Stops(f), NEW g \in after(a),
               Continue(AtGateway(g), ThroughVPC(pos.id, a) \cup {a.id})
        PROVE  Steps
    <2>1. walk # "return" => LeavesInspection(a, AtGateway(g))
      BY <1>3, <1>9 DEF LeavesInspection, Stops, ToGateways
    <2>2. pos' = AtGateway(g) /\ net' = net
      BY <1>9 DEF Continue
    <2>3. Positions'
      BY <1>1, <2>2, IntoGateway
    <2> QED
      BY <1>1, <1>4, <1>6, <1>9, <2>1, <2>2, <2>3 DEF Steps, Advances, Continue
  <1> QED
    BY <1>2, <1>7, <1>8, <1>9

LEMMA EveryStep ==
    ASSUME WalkInv, Next
    PROVE  Steps
  BY StaysInVPC, EntersGateway, GoesThroughGateway, CrossesPeering, Inspects DEF Next

LEMMA WalkInvInit ==
    ASSUME Init
    PROVE  WalkInv
  <1>1. Positions
    BY DEF Init, Positions, Places, Subnet, At
  <1>2. OnTheWay(Subnet, Place("forward"))
    BY DEF Init, OnTheWay, Place
  <1> QED
    BY <1>1, <1>2 DEF Init, WalkInv, Walks

LEMMA WalkInvStep ==
    ASSUME WalkInv, [Next]_vars
    PROVE  WalkInv'
  <1>1. CASE UNCHANGED vars
    <2>1. \A p, q : OnTheWay(p, q)' <=> OnTheWay(p, q)
      BY <1>1, SameWay DEF vars
    <2>2. \A w : Place(w)' = Place(w)
      BY <1>1 DEF vars, Place, Ended
    <2>3. Positions'
      BY <1>1 DEF WalkInv, Positions, vars, Attachments
    <2> QED
      BY <1>1, <2>1, <2>2, <2>3 DEF WalkInv, vars, Found
  <1>2. CASE Next
    <2>1. Steps
      BY <1>2, EveryStep
    <2>2. \A p, q : OnTheWay(p, q)' <=> OnTheWay(p, q)
      BY <2>1, SameWay DEF Steps
    <2>3. \A q : walk # "return" /\ Leads(pos, q) => OnTheWay(Subnet, q)
      BY <2>1 DEF WalkInv, Place, OnTheWay, Closed, Walks, Steps
    <2>4. CASE Advances
      <3>1. walk \in {"forward", "again"} => OnTheWay(Subnet, pos')
        BY <2>3, <2>4 DEF Advances
      <3>2. \A w \in Walks : w # walk => Place(w)' = Place(w)
        BY <2>4 DEF Advances, Place, Ended
      <3>3. \A w \in Walks : w = walk => Place(w)' = pos'
        BY <2>4 DEF Advances, Place
      <3>4. OnTheWay(Subnet, Place("forward")') /\ (walk' # "forward" => Found("forward")')
        BY <2>4, <3>1, <3>2, <3>3 DEF WalkInv, Advances, Found, Walks
      <3>5. walk' \in {"again", "done"} => OnTheWay(Subnet, Place("again")')
        BY <2>1, <2>4, <3>1, <3>3 DEF WalkInv, Advances, Walks, Steps
      <3> QED
        BY <2>1, <2>2, <2>4, <3>4, <3>5 DEF WalkInv, Advances, Steps, Walks, Subnet
    <2>5. ASSUME NEW v \in {"pass", "blocked", "abstain"}, EndsWith(v)
          PROVE  WalkInv'
      <3>1. walk \in Walks
        BY <2>1 DEF WalkInv, Steps
      <3>2. /\ walk = "forward" => walk' \in {"return", "again"}
            /\ walk = "return" => walk' = "again"
            /\ walk = "again" => walk' = "done"
        BY <2>5, <3>1 DEF EndsWith, NextWalk, Walks
      <3>3. Positions'
        BY <2>5 DEF EndsWith, Positions, Places, Subnet, At
      <3>4. verdict' \in [Walks -> {"none", "pass", "blocked", "abstain"}] /\ verdict'[walk] = v
            /\ \A w \in Walks : w # walk => verdict'[w] = verdict[w]
        BY <2>5, <3>1 DEF WalkInv, EndsWith
      <3>5. walk # "return" => OnTheWay(Subnet, Ended(v)) /\ v # "abstain"
        BY <2>3, <2>5 DEF EndsWith
      <3>6. OnTheWay(Subnet, Place("forward")') /\ (walk' # "forward" => Found("forward")')
        <4>1. CASE walk = "forward"
          BY <3>2, <3>4, <3>5, <4>1 DEF Place, Ended, Found
        <4>2. CASE walk # "forward"
          BY <3>1, <3>2, <3>4, <4>2 DEF WalkInv, Place, Ended, Found, Walks
        <4> QED
          BY <4>1, <4>2
      <3>7. walk' \in {"again", "done"} => OnTheWay(Subnet, Place("again")')
        <4>1. CASE walk = "again"
          BY <3>2, <3>4, <3>5, <4>1 DEF Place, Ended
        <4>2. CASE walk # "again"
          <5>1. walk' # "done"
            BY <3>1, <3>2, <4>2 DEF Walks
          <5>2. walk' = "again" => Place("again")' = Subnet
            BY <2>5 DEF Place, EndsWith
          <5> QED
            BY <5>1, <5>2 DEF OnTheWay
        <4> QED
          BY <4>1, <4>2
      <3>8. walk' = "done" => Found("again")'
        BY <3>1, <3>2, <3>4, <3>5 DEF Found, Walks
      <3> QED
        BY <2>1, <2>2, <2>5, <3>1, <3>2, <3>3, <3>4, <3>6, <3>7, <3>8
           DEF WalkInv, Steps, EndsWith, Walks, Subnet
    <2> QED
      BY <2>1, <2>4, <2>5 DEF Steps
  <1> QED
    BY <1>1, <1>2

LEMMA WalkInvHolds == Spec => []WalkInv
  BY WalkInvInit, WalkInvStep, PTL DEF Spec

(* On any set of networks, a walk stands at a place that exists for it, and *)
(* the variables of both directions keep their kinds (walkRoutes, walkTGW,  *)
(* walkThroughInspectionVPC, evalReturnPath).                               *)
THEOREM WalkTypeCorrect == Spec => []TypeOK
  <1>1. WalkInv => TypeOK
    BY DEF WalkInv, TypeOK, Positions, Found, Walks
  <1> QED
    BY <1>1, WalkInvHolds, PTL

(* SameAnswer wherever no lookup is ambiguous: two runs over one snapshot   *)
(* can differ only through a lookup of graph.go, named in Unambiguous, that *)
(* finds more than one entry of a map.                                      *)
THEOREM SameAnswers == Spec => [](Unambiguous => SameAnswer)
  <1>1. ASSUME WalkInv, Unambiguous, walk = "done"
        PROVE  verdict["forward"] = verdict["again"]
    <2>1. /\ OnTheWay(Subnet, Ended(verdict["forward"])) /\ verdict["forward"] \in {"pass", "blocked"}
          /\ OnTheWay(Subnet, Ended(verdict["again"])) /\ verdict["again"] \in {"pass", "blocked"}
      BY <1>1 DEF WalkInv, Place, Found
    <2> QED
      BY <1>1, <2>1, OneVerdict DEF WalkInv
  <1>2. WalkInv => (Unambiguous => SameAnswer)
    BY <1>1 DEF SameAnswer
  <1> QED
    BY <1>2, WalkInvHolds, PTL

-----------------------------------------------------------------------------
(* The packet's own way.                                                    *)

(* Where a packet may be.                                                   *)
EntryPoints ==
    UNION { {At("gateway", a.tgw, a.id), At("gateway", a.resource, a.id)} : a \in Attachments }
Points == {Lost, Arrived} \cup EntryPoints

LEMMA OpensOnto ==
    ASSUME NEW a \in Attachments
    PROVE  /\ At("gateway", a.tgw, a.id) \in EntryPoints
           /\ At("gateway", a.resource, a.id) \in EntryPoints
  BY DEF EntryPoints

LEMMA OnwardIsPoint ==
    ASSUME NEW tgw, NEW attach, NEW dest
    PROVE  Onward(tgw, attach, dest) \in Points
  <1> DEFINE routes == UNION { RealRoute(g.routes, dest) :
                              g \in { g \in net.gateways : g.tgw = tgw /\ attach \in g.assoc } }
             leaves == { a \in Attachments : \E r \in routes : ~r.dead /\ a.id = r.out }
             a == CHOOSE a \in leaves : TRUE
  <1>1. leaves # {} => a \in Attachments
    OBVIOUS
  <1>2. leaves # {} => /\ At("gateway", a.tgw, a.id) \in EntryPoints
                       /\ At("gateway", a.resource, a.id) \in EntryPoints
    <2> HIDE DEF a, leaves
    <2> QED
      BY <1>1, OpensOnto
  <1>3. leaves # {} =>
           At("gateway", IF a.tgw = tgw THEN a.resource ELSE a.tgw, a.id) \in EntryPoints
    BY <1>2
  <1>4. \/ Onward(tgw, attach, dest) \in {Lost, Arrived}
        \/ /\ leaves # {}
           /\ Onward(tgw, attach, dest)
                 = At("gateway", IF a.tgw = tgw THEN a.resource ELSE a.tgw, a.id)
        \/ leaves # {} /\ Onward(tgw, attach, dest) = At("gateway", a.tgw, a.id)
    <2>1. Onward(tgw, attach, dest) =
             IF leaves = {} THEN Lost
             ELSE IF a.kind = "peering"
             THEN At("gateway", IF a.tgw = tgw THEN a.resource ELSE a.tgw, a.id)
             ELSE IF a.kind = "vpn"
             THEN IF net.home[dest] = "external" THEN Arrived ELSE Lost
             ELSE IF a.resource # net.home[dest] /\ FirewallsIn(a.resource) # {}
             THEN At("gateway", a.tgw, a.id)
             ELSE IF net.home[dest] \in {a.resource, None} THEN Arrived ELSE Lost
      BY DEF Onward
    <2> HIDE DEF a, leaves, routes
    <2> QED
      BY <2>1
  <1> HIDE DEF a, leaves, routes
  <1> QED
    BY <1>2, <1>3, <1>4 DEF Points

LEMMA StartIsPoint ==
    ASSUME NEW from, NEW to
    PROVE  Start(from, to) \in Points
  <1> DEFINE route == Leaves(from, to)
             entry(r) == VPCAttachment(net.home[from], r.target)
             a == CHOOSE a \in Attachments : \E r \in route : a \in entry(r)
  <1>1. \A r : entry(r) \subseteq Attachments
    BY DEF VPCAttachment, Attachments
  <1>2. (\E r \in route : entry(r) # {}) => a \in Attachments
    BY <1>1
  <1>3. (\E r \in route : entry(r) # {}) => At("gateway", a.tgw, a.id) \in EntryPoints
    <2> HIDE DEF a, entry
    <2> QED
      BY <1>2, OpensOnto
  <1>4. \/ Start(from, to) \in {Lost, Arrived}
        \/ (\E r \in route : entry(r) # {}) /\ Start(from, to) = At("gateway", a.tgw, a.id)
    <2>1. Start(from, to) =
             IF \A r \in route : r.dead THEN Lost
             ELSE IF \E r \in route : r.kind \in {"local", "endpoint"} \/ IsDirect(r) THEN Arrived
             ELSE IF \E r \in route : r.kind = "gateway" /\ entry(r) # {}
             THEN At("gateway", a.tgw, a.id)
             ELSE Lost
      BY DEF Start
    <2> HIDE DEF a, entry, route
    <2> QED
      BY <2>1
  <1> HIDE DEF a, entry, route
  <1> QED
    BY <1>3, <1>4 DEF Points

(* Where the packet is n steps later.                                       *)
Move(p, to) == IF p.at = "gateway" THEN Onward(p.id, p.attach, to) ELSE p

LEMMA TrailIs ==
    ASSUME NEW from, NEW to
    PROVE  /\ Trail(from, to) \in [Nat -> Points]
           /\ Trail(from, to)[0] = Start(from, to)
           /\ \A n \in Nat : Trail(from, to)[n + 1] = Move(Trail(from, to)[n], to)
  <1> DEFINE Step(n, f) == IF n = 0 THEN Start(from, to) ELSE Move(f[n - 1], to)
             Def == [n \in Nat |-> [f \in [Nat -> Points] |-> Step(n, f)]]
             measure == [n \in Nat |-> n]
  <1>1. \A p \in Points : Move(p, to) \in Points
    BY OnwardIsPoint DEF Move
  <1>2. RestsOnLess(Nat, Points, measure, Def)
    <2>1. measure \in [Nat -> Nat]
      OBVIOUS
    <2>2. \A n \in Nat, f \in [Nat -> Points] : Step(n, f) \in Points
      BY <1>1, StartIsPoint
    <2>3. Def \in [Nat -> [[Nat -> Points] -> Points]]
      <3> HIDE DEF Step
      <3> QED
        BY <2>2
    <2>4. [Nat -> Points] # {}
      <3>1. [n \in Nat |-> Lost] \in [Nat -> Points]
        BY DEF Points
      <3> QED
        BY <3>1
    <2>5. ASSUME NEW n \in Nat, NEW f \in [Nat -> Points], NEW g \in [Nat -> Points],
                 \A m \in Nat : measure[m] < measure[n] => f[m] = g[m]
          PROVE  Def[n][f] = Def[n][g]
      <3>1. n # 0 => f[n - 1] = g[n - 1]
        BY <2>5
      <3> QED
        BY <3>1
    <2> HIDE DEF Def, measure
    <2> QED
      BY <2>1, <2>3, <2>4, <2>5 DEF RestsOnLess
  <1>3. PICK f \in [Nat -> Points] : \A n \in Nat : f[n] = Def[n][f]
    <2> HIDE DEF Def, measure
    <2> QED
      BY <1>2, RecursionDefines
  <1>4. \A n \in Nat : f[n] = Step(n, f)
    BY <1>3
  <1>5. f = [n \in Nat |-> Step(n, f)]
    <2> HIDE DEF Step
    <2> QED
      BY <1>4
  <1> DEFINE IsTrail(t) == t = [n \in Nat |-> IF n = 0 THEN Start(from, to)
                                             ELSE LET p == t[n - 1]
                                                  IN  IF p.at = "gateway" THEN Onward(p.id, p.attach, to) ELSE p]
             T == CHOOSE t : IsTrail(t)
  <1>6. IsTrail(f)
    BY <1>5 DEF Move
  <1>7. Trail(from, to) = T
    BY DEF Trail
  <1>8. IsTrail(T)
    <2> HIDE DEF IsTrail
    <2> QED
      BY <1>6
  <1>9. T = [n \in Nat |-> Step(n, T)]
    BY <1>8 DEF Move
  <1> HIDE DEF T
  <1>10. \A n \in Nat : T[n] = Step(n, T)
    BY <1>9
  <1>11. T[0] = Start(from, to) /\ \A n \in Nat : T[n + 1] = Move(T[n], to)
    BY <1>10
  <1>12. \A n \in Nat : T[n] \in Points
    <2> DEFINE S == { n \in Nat : T[n] \in Points }
    <2>1. 0 \in S
      BY <1>11, StartIsPoint
    <2>2. \A n \in Nat : n \in S => n + 1 \in S
      BY <1>1, <1>11
    <2>3. Nat \subseteq S
      <3> HIDE DEF S
      <3> QED
        BY <2>1, <2>2, NumberInduction
    <2> QED
      BY <2>3
  <1>13. T \in [Nat -> Points]
    BY <1>9, <1>12
  <1> QED
    BY <1>7, <1>11, <1>13

(* Who has arrived or is lost stays there.                                  *)
LEMMA Stays ==
    ASSUME NEW from, NEW to, NEW k \in Nat, Trail(from, to)[k].at # "gateway"
    PROVE  \A n \in Nat : n >= k => Trail(from, to)[n] = Trail(from, to)[k]
  <1> DEFINE t == Trail(from, to)
             S == { d \in Nat : t[k + d] = t[k] }
  <1>1. 0 \in S
    OBVIOUS
  <1>2. \A d \in Nat : d \in S => d + 1 \in S
    <2>1. \A d \in Nat : t[(k + d) + 1] = Move(t[k + d], to)
      BY TrailIs
    <2>2. \A d \in Nat : k + (d + 1) = (k + d) + 1
      OBVIOUS
    <2> HIDE DEF t
    <2>3. t[k].at # "gateway"
      BY DEF t
    <2> QED
      BY <2>1, <2>2, <2>3 DEF Move
  <1>3. Nat \subseteq S
    <2> HIDE DEF S
    <2> QED
      BY <1>1, <1>2, NumberInduction
  <1>4. \A n \in Nat : n >= k => n - k \in Nat /\ k + (n - k) = n
    OBVIOUS
  <1> QED
    BY <1>3, <1>4

(* The same place twice is the same way from there on.                      *)
LEMMA Repeats ==
    ASSUME NEW from, NEW to, NEW i \in Nat, NEW j \in Nat, Trail(from, to)[i] = Trail(from, to)[j]
    PROVE  \A d \in Nat : Trail(from, to)[i + d] = Trail(from, to)[j + d]
  <1> DEFINE t == Trail(from, to)
             S == { d \in Nat : t[i + d] = t[j + d] }
  <1>1. 0 \in S
    OBVIOUS
  <1>2. \A d \in Nat : d \in S => d + 1 \in S
    <2>1. \A d \in Nat : t[(i + d) + 1] = Move(t[i + d], to) /\ t[(j + d) + 1] = Move(t[j + d], to)
      BY TrailIs
    <2>2. \A d \in Nat : i + (d + 1) = (i + d) + 1 /\ j + (d + 1) = (j + d) + 1
      OBVIOUS
    <2> HIDE DEF t
    <2> QED
      BY <2>1, <2>2
  <1>3. Nat \subseteq S
    <2> HIDE DEF S
    <2> QED
      BY <1>1, <1>2, NumberInduction
  <1> QED
    BY <1>3

(* There are two ways into gateways by each attachment at most.             *)
LEMMA FewEntryPoints ==
    ASSUME net \in Networks
    PROVE  /\ IsFiniteSet(EntryPoints)
           /\ Cardinality(EntryPoints) \in Nat
           /\ Len(net.attached) \in Nat
           /\ Cardinality(EntryPoints) <= 2 * Len(net.attached)
  <1> DEFINE L == Len(net.attached)
             near == [i \in 1 .. L |-> At("gateway", net.attached[i].tgw, net.attached[i].id)]
             far == [i \in 1 .. L |-> At("gateway", net.attached[i].resource, net.attached[i].id)]
             A == { near[i] : i \in 1 .. L }
             B == { far[i] : i \in 1 .. L }
  <1>1. net.attached \in Seq(Attachment) /\ L \in Nat /\ DOMAIN net.attached = 1 .. L
    BY Snapshots DEF Network
  <1>2. EntryPoints = A \cup B
    <2>1. \A x : x \in EntryPoints <=>
             \E a \in Attachments : x \in {At("gateway", a.tgw, a.id), At("gateway", a.resource, a.id)}
      BY DEF EntryPoints
    <2>2. \A a : a \in Attachments <=> \E i \in 1 .. L : a = net.attached[i]
      BY <1>1 DEF Attachments
    <2>3. \A x : x \in A \cup B <=>
             \E i \in 1 .. L : x \in {At("gateway", net.attached[i].tgw, net.attached[i].id),
                                      At("gateway", net.attached[i].resource, net.attached[i].id)}
      OBVIOUS
    <2> HIDE DEF A, B, L
    <2>4. \A x : x \in EntryPoints <=> x \in A \cup B
      BY <2>1, <2>2, <2>3
    <2> QED
      BY <2>4
  <1>3. IsFiniteSet(1 .. L) /\ Cardinality(1 .. L) = L
    <2> HIDE DEF L
    <2>1. 1 \in Int /\ L \in Int /\ (1 > L => L = 0)
      BY <1>1
    <2>2. Cardinality(1 .. L) = IF 1 > L THEN 0 ELSE L - 1 + 1
      BY <2>1, FS_Interval
    <2>3. IsFiniteSet(1 .. L)
      BY <2>1, FS_Interval
    <2> QED
      BY <1>1, <2>1, <2>2, <2>3
  <1>4. near \in [1 .. L -> A] /\ far \in [1 .. L -> B]
    OBVIOUS
  <1>5. near \in Surjection(1 .. L, A) /\ far \in Surjection(1 .. L, B)
    BY <1>4 DEF Surjection
  <1> HIDE DEF near, far, A, B, L
  <1>6. /\ IsFiniteSet(A) /\ Cardinality(A) <= L
        /\ IsFiniteSet(B) /\ Cardinality(B) <= L
    BY <1>3, <1>5, FS_Surjection
  <1>7. Cardinality(A) \in Nat /\ Cardinality(B) \in Nat /\ Cardinality(A \cap B) \in Nat
    BY <1>6, FS_CardinalityType, FS_Intersection
  <1>8. /\ IsFiniteSet(A \cup B)
        /\ Cardinality(A \cup B) = Cardinality(A) + Cardinality(B) - Cardinality(A \cap B)
    BY <1>6, FS_Union
  <1>9. Cardinality(A \cup B) \in Nat
    BY <1>8, FS_CardinalityType
  <1> QED
    BY <1>1, <1>2, <1>6, <1>7, <1>8, <1>9 DEF L

(* A packet that ever arrives does so within the steps of its Journey: else *)
(* it would come into one gateway twice by the same attachment, and go in a *)
(* circle.                                                                  *)
LEMMA ArrivesInTime ==
    ASSUME net \in Networks, NEW from, NEW to, NEW n \in Nat, Trail(from, to)[n] = Arrived
    PROVE  Delivered(from, to)
  <1> DEFINE t == Trail(from, to)
             L == 2 * Len(net.attached)
             S == { k \in Nat : t[k] = Arrived }
  <1>1. PICK k \in S : \A m \in S : k <= m
    <2>1. S \subseteq Nat /\ n \in S
      OBVIOUS
    <2> HIDE DEF S
    <2> QED
      BY <2>1, LeastNumber
  <1>2. k \in Nat /\ t[k] = Arrived /\ t \in [Nat -> Points]
    BY TrailIs
  <1>3. ASSUME NEW m \in Nat, m < k
        PROVE  t[m] \in EntryPoints
    <2>1. t[m] # Arrived
      BY <1>1, <1>2, <1>3
    <2>2. t[m].at = "gateway"
      <3>1. SUFFICES ASSUME t[m].at # "gateway"
                     PROVE  FALSE
        OBVIOUS
      <3>2. t[k] = t[m]
        BY <1>2, <1>3, <3>1, Stays
      <3> QED
        BY <1>2, <2>1, <3>2
    <2>3. t[m] \in Points
      BY <1>2
    <2> HIDE DEF t
    <2> QED
      BY <2>2, <2>3 DEF Points, Lost, Arrived, At
  <1>4. L \in Nat
    BY FewEntryPoints
  <1>5. CASE k <= L
    BY <1>2, <1>4, <1>5 DEF Delivered, Journey
  <1>6. CASE k > L
    <2> DEFINE f == [m \in 0 .. k - 1 |-> t[m]]
    <2>1. f \in [0 .. k - 1 -> EntryPoints]
      BY <1>2, <1>3
    <2>2. IsFiniteSet(0 .. k - 1) /\ Cardinality(0 .. k - 1) = k
      <3>1. k - 1 \in Int /\ 0 <= k - 1
        BY <1>2, <1>4, <1>6
      <3>2. IsFiniteSet(0 .. k - 1) /\ Cardinality(0 .. k - 1) = (k - 1) - 0 + 1
        BY <3>1, FS_Interval
      <3> QED
        BY <1>2, <3>2
    <2>3. Cardinality(EntryPoints) < Cardinality(0 .. k - 1) /\ IsFiniteSet(EntryPoints)
      BY <1>2, <1>6, <2>2, FewEntryPoints
    <2> HIDE DEF f
    <2>4. PICK x \in 0 .. k - 1, y \in 0 .. k - 1 : x # y /\ f[x] = f[y]
      BY <2>1, <2>2, <2>3, FS_PigeonHole
    <2>5. PICK i \in Nat, j \in Nat : i < j /\ j < k /\ t[i] = t[j]
      BY <1>2, <2>4 DEF f
    <2>6. k - j \in Nat /\ j + (k - j) = k /\ i + (k - j) \in Nat /\ i + (k - j) < k
      BY <1>2, <2>5
    <2>7. t[i + (k - j)] = t[k]
      <3>1. \A d \in Nat : t[i + d] = t[j + d]
        BY <2>5, Repeats
      <3> HIDE DEF t
      <3>2. t[i + (k - j)] = t[j + (k - j)]
        BY <2>6, <3>1
      <3> QED
        BY <2>6, <3>2
    <2>8. i + (k - j) \in S
      BY <1>2, <2>6, <2>7
    <2> QED
      BY <1>1, <1>2, <2>6, <2>8
  <1> QED
    BY <1>2, <1>4, <1>5, <1>6

(* Who is lost was not delivered, and who is in a gateway has not been.     *)
LEMMA LostIsLost ==
    ASSUME NEW from, NEW to, NEW k \in Nat, Trail(from, to)[k] = Lost,
           \A m \in Nat : m < k => Trail(from, to)[m].at = "gateway"
    PROVE  ~Delivered(from, to)
  <1>1. Lost.at # "gateway" /\ Arrived.at # "gateway" /\ Lost # Arrived
    BY DEF Lost, Arrived, At
  <1>2. \A n \in Nat : n >= k => Trail(from, to)[n] = Lost
    BY <1>1, Stays
  <1>3. \A n \in Nat : Trail(from, to)[n] # Arrived
    BY <1>1, <1>2
  <1> QED
    BY <1>3 DEF Delivered, Journey

(* Where every route is IPv4 and one is the best, the lookup finds it.      *)
LEMMA MatchIsReal ==
    ASSUME NEW routes \in Seq(Route), NEW dest, \A i \in DOMAIN routes : routes[i].ipv4,
           Single(RealRoute(routes, dest))
    PROVE  MatchRoute(routes, dest) = RealRoute(routes, dest)
  <1>1. \A i \in DOMAIN routes : /\ i \in Nat /\ routes[i] \in Route /\ routes[i].bits \in Nat
                                 /\ Bits(routes[i]) = routes[i].bits
                                 /\ RouteCovers(routes[i], dest) <=> dest \in routes[i].to
    <2> SUFFICES ASSUME NEW i \in DOMAIN routes
                 PROVE  /\ i \in Nat /\ routes[i] \in Route /\ routes[i].bits \in Nat
                        /\ Bits(routes[i]) = routes[i].bits
                        /\ RouteCovers(routes[i], dest) <=> dest \in routes[i].to
      OBVIOUS
    <2>1. i \in Nat /\ routes[i] \in Route /\ routes[i].ipv4
      OBVIOUS
    <2>2. routes[i].bits \in Nat
      BY <2>1 DEF Route
    <2>3. Bits(routes[i]) = routes[i].bits
      BY <2>1 DEF Bits
    <2>4. RouteCovers(routes[i], dest) <=> dest \in routes[i].to
      BY <2>1 DEF RouteCovers
    <2> QED
      BY <2>1, <2>2, <2>3, <2>4
  <1>2. ASSUME NEW r \in MatchRoute(routes, dest)
        PROVE  r \in RealRoute(routes, dest)
    <2>1. PICK i \in DOMAIN routes :
             /\ r = routes[i] /\ RouteCovers(routes[i], dest)
             /\ \A j \in DOMAIN routes : RouteCovers(routes[j], dest) =>
                    \/ Bits(routes[j]) < Bits(routes[i])
                    \/ Bits(routes[j]) = Bits(routes[i]) /\ i <= j
      BY <1>2 DEF MatchRoute
    <2>2. \A j \in DOMAIN routes : dest \in routes[j].to => routes[j].bits <= routes[i].bits
      BY <1>1, <2>1
    <2>3. r \in { q \in { routes[j] : j \in DOMAIN routes } : q.ipv4 /\ dest \in q.to }
      BY <1>1, <2>1
    <2>4. \A q \in { q \in { routes[j] : j \in DOMAIN routes } : q.ipv4 /\ dest \in q.to } :
             q.bits <= r.bits
      BY <2>1, <2>2
    <2> QED
      BY <2>3, <2>4 DEF RealRoute
  <1>3. ASSUME NEW r \in RealRoute(routes, dest)
        PROVE  r \in MatchRoute(routes, dest)
    <2> DEFINE I == { i \in DOMAIN routes : routes[i] = r }
    <2>1. /\ I # {} /\ I \subseteq Nat
          /\ dest \in r.to /\ \A j \in DOMAIN routes : dest \in routes[j].to => routes[j].bits <= r.bits
      BY <1>1, <1>3 DEF RealRoute
    <2>2. PICK i \in I : \A m \in I : i <= m
      <3> HIDE DEF I
      <3> QED
        BY <2>1, LeastNumber
    <2>3. ASSUME NEW j \in DOMAIN routes, dest \in routes[j].to, ~ routes[j].bits < r.bits
          PROVE  j \in I
      <3>1. routes[j].bits = r.bits
        BY <1>1, <2>1, <2>2, <2>3
      <3>2. routes[j] \in RealRoute(routes, dest)
        BY <1>1, <2>1, <2>3, <3>1 DEF RealRoute
      <3> QED
        BY <1>3, <3>2 DEF Single
    <2>4. \A j \in DOMAIN routes : RouteCovers(routes[j], dest) =>
             \/ Bits(routes[j]) < Bits(routes[i])
             \/ Bits(routes[j]) = Bits(routes[i]) /\ i <= j
      <3> SUFFICES ASSUME NEW j \in DOMAIN routes, dest \in routes[j].to, ~ routes[j].bits < r.bits
                   PROVE  routes[j].bits = r.bits /\ i <= j
        BY <1>1, <2>2
      <3> QED
        BY <2>2, <2>3
    <2> QED
      BY <1>1, <2>1, <2>2, <2>4 DEF MatchRoute
  <1> QED
    BY <1>2, <1>3

TwoEndpoints == {"src", "dst"}

(* What a subnet's table says, where the snapshot is faithful.              *)
LEMMA FromSubnet ==
    ASSUME net \in Networks, Faithful,
           NEW from \in TwoEndpoints, NEW to \in TwoEndpoints, from # to
    PROVE  /\ Single(Leaves(from, to))
           /\ \A t \in SubnetTables(from) : MatchRoute(t.routes, to) = Leaves(from, to)
           /\ SubnetTables(from) = {} => Leaves(from, to) = {}
           /\ \A r \in Leaves(from, to) : ~r.dead =>
                 r.kind # "endpoint" /\ (r.kind = "local" <=> net.home[from] = net.home[to])
  <1>1. /\ Single(SubnetTables(from))
        /\ net.subnet[from] = None => \A t \in SubnetTables(from) : t.main
        /\ \A t \in SubnetTables(from) :
              /\ Single(RealRoute(t.routes, to))
              /\ \A r \in RealRoute(t.routes, to) : ~r.dead =>
                    r.kind # "endpoint" /\ (r.kind = "local" <=> net.home[from] = net.home[to])
    BY DEF Faithful, FaithfulSubnets, TwoEndpoints
  <1>2. { t \in net.tables : IF net.subnet[from] # None THEN t.id = net.subnet[from]
                             ELSE t.vpc = net.home[from] /\ t.main } = SubnetTables(from)
    BY <1>1 DEF SubnetTables
  <1>3. Leaves(from, to) = UNION { RealRoute(t.routes, to) : t \in SubnetTables(from) }
    BY <1>2 DEF Leaves
  <1>4. \A t \in SubnetTables(from) : /\ t.routes \in Seq(Route)
                                      /\ \A i \in DOMAIN t.routes : t.routes[i].ipv4
    BY Snapshots DEF SubnetTables, Faithful, OnlyIPv4
  <1>5. \A t \in SubnetTables(from) : MatchRoute(t.routes, to) = RealRoute(t.routes, to)
    BY <1>1, <1>4, MatchIsReal
  <1>6. \A t \in SubnetTables(from) : Leaves(from, to) = RealRoute(t.routes, to)
    BY <1>1, <1>3 DEF Single
  <1>7. SubnetTables(from) = {} => Leaves(from, to) = {}
    BY <1>3
  <1>8. \A r \in Leaves(from, to) : \E t \in SubnetTables(from) : r \in RealRoute(t.routes, to)
    BY <1>3
  <1> QED
    BY <1>1, <1>5, <1>6, <1>7, <1>8 DEF Single

(* ... and where a packet is that leaves by it.                             *)
LEMMA Starts ==
    ASSUME net \in Networks, Faithful,
           NEW from \in TwoEndpoints, NEW to \in TwoEndpoints, from # to
    PROVE  /\ (\A r \in Leaves(from, to) : r.dead) => Start(from, to) = Lost
           /\ \A r \in Leaves(from, to) : ~r.dead =>
                 /\ r.kind = "local" => Start(from, to) = Arrived
                 /\ r.kind \notin {"local", "gateway"} => Start(from, to) = Lost \/ IsDirect(r)
                 /\ r.kind = "gateway" =>
                       /\ VPCAttachment(net.home[from], r.target) = {} => Start(from, to) = Lost
                       /\ \A a \in VPCAttachment(net.home[from], r.target) :
                             Start(from, to) = At("gateway", a.tgw, a.id)
  <1> DEFINE route == Leaves(from, to)
             entry(r) == VPCAttachment(net.home[from], r.target)
             c == CHOOSE a \in Attachments : \E r \in route : a \in entry(r)
  <1>1. Start(from, to) =
             IF \A r \in route : r.dead THEN Lost
             ELSE IF \E r \in route : r.kind \in {"local", "endpoint"} \/ IsDirect(r) THEN Arrived
             ELSE IF \E r \in route : r.kind = "gateway" /\ entry(r) # {}
             THEN At("gateway", c.tgw, c.id)
             ELSE Lost
    BY DEF Start
  <1>2. Single(route) /\ \A r \in route : ~r.dead => r.kind # "endpoint"
    BY FromSubnet
  <1>3. ASSUME NEW r \in route, NEW a \in entry(r)
        PROVE  c = a
    <2>1. a \in Attachments /\ Single(entry(r))
      BY OneAttachment
    <2>2. \A q \in route : q = r
      BY <1>2 DEF Single
    <2>3. \A b : b \in Attachments /\ (\E q \in route : b \in entry(q)) => b = a
      BY <2>1, <2>2 DEF Single
    <2>4. a \in Attachments /\ \E q \in route : a \in entry(q)
      BY <2>1
    <2> HIDE DEF entry, route
    <2> QED
      BY <2>3, <2>4
  <1> HIDE DEF c, entry, route
  <1>4. ASSUME NEW r \in route, ~r.dead
        PROVE  /\ r.kind = "local" => Start(from, to) = Arrived
               /\ r.kind \notin {"local", "gateway"} => Start(from, to) = Lost \/ IsDirect(r)
               /\ r.kind = "gateway" =>
                       /\ entry(r) = {} => Start(from, to) = Lost
                       /\ \A a \in entry(r) : Start(from, to) = At("gateway", a.tgw, a.id)
    <2>1. \A q \in route : q = r
      BY <1>2 DEF Single
    <2>2. Start(from, to) =
             IF r.kind \in {"local", "endpoint"} \/ IsDirect(r) THEN Arrived
             ELSE IF r.kind = "gateway" /\ entry(r) # {}
             THEN At("gateway", c.tgw, c.id)
             ELSE Lost
      BY <1>1, <1>4, <2>1
    <2>3. IsDirect(r) => r.kind = "other"
      BY DEF IsDirect
    <2> QED
      BY <1>2, <1>3, <1>4, <2>2, <2>3
  <1> QED
    BY <1>1, <1>4 DEF entry, route

(* The tables that forward what is at x.                                    *)
Held(x) == { h \in net.gateways : h.tgw = x.id /\ x.attach \in h.assoc }

(* Nothing forwards it.                                                     *)
LEMMA Stuck ==
    ASSUME NEW x, Held(x) = {}, NEW to
    PROVE  Onward(x.id, x.attach, to) = Lost
  <1>1. { g \in net.gateways : g.tgw = x.id /\ x.attach \in g.assoc } = {}
    BY DEF Held
  <1> QED
    BY <1>1 DEF Onward

(* A gateway's table says where the packet goes.                            *)
LEMMA FromGateway ==
    ASSUME net \in Networks, Faithful, NEW to \in TwoEndpoints, NEW x, NEW g, Held(x) = {g}
    PROVE  /\ MatchRoute(g.routes, to) = RealRoute(g.routes, to)
           /\ (\A r \in RealRoute(g.routes, to) : r.dead) => Onward(x.id, x.attach, to) = Lost
           /\ \A r \in RealRoute(g.routes, to) : ~r.dead =>
                 /\ (\A a \in Attachments : a.id # r.out) => Onward(x.id, x.attach, to) = Lost
                 /\ \A a \in Attachments : a.id = r.out =>
                       Onward(x.id, x.attach, to) =
                          IF a.kind = "peering"
                          THEN At("gateway", IF a.tgw = g.tgw THEN a.resource ELSE a.tgw, a.id)
                          ELSE IF a.kind = "vpn" THEN Lost
                          ELSE IF a.resource # net.home[to] /\ FirewallsIn(a.resource) # {}
                          THEN At("gateway", a.tgw, a.id)
                          ELSE IF net.home[to] \in {a.resource, None} THEN Arrived ELSE Lost
  <1>1. g \in net.gateways /\ g.tgw = x.id /\ g.routes \in Seq(Route)
    BY Snapshots DEF Held
  <1>2. Single(RealRoute(g.routes, to)) /\ \A i \in DOMAIN g.routes : g.routes[i].ipv4
    BY <1>1 DEF Faithful, FaithfulGateways, OnlyIPv4, TwoEndpoints
  <1>3. MatchRoute(g.routes, to) = RealRoute(g.routes, to)
    BY <1>1, <1>2, MatchIsReal
  <1>4. net.home[to] # "external"
    BY DEF Faithful, FaithfulSubnets, TwoEndpoints
  <1> DEFINE routes == UNION { RealRoute(h.routes, to) :
                              h \in { h \in net.gateways : h.tgw = x.id /\ x.attach \in h.assoc } }
             leaves == { a \in Attachments : \E r \in routes : ~r.dead /\ a.id = r.out }
             c == CHOOSE a \in leaves : TRUE
  <1>5. routes = RealRoute(g.routes, to)
    <2>1. { h \in net.gateways : h.tgw = x.id /\ x.attach \in h.assoc } = {g}
      BY DEF Held
    <2> QED
      BY <2>1
  <1>6. Onward(x.id, x.attach, to) =
             IF leaves = {} THEN Lost
             ELSE IF c.kind = "peering"
             THEN At("gateway", IF c.tgw = x.id THEN c.resource ELSE c.tgw, c.id)
             ELSE IF c.kind = "vpn"
             THEN IF net.home[to] = "external" THEN Arrived ELSE Lost
             ELSE IF c.resource # net.home[to] /\ FirewallsIn(c.resource) # {}
             THEN At("gateway", c.tgw, c.id)
             ELSE IF net.home[to] \in {c.resource, None} THEN Arrived ELSE Lost
    BY DEF Onward
  <1> HIDE DEF routes
  <1>7. (\A r \in routes : r.dead) => leaves = {}
    OBVIOUS
  <1>8. ASSUME NEW r \in routes, \A a \in Attachments : a.id # r.out
        PROVE  leaves = {}
    BY <1>2, <1>5, <1>8 DEF Single
  <1>9. ASSUME NEW r \in routes, ~r.dead, NEW a \in Attachments, a.id = r.out
        PROVE  leaves # {} /\ c = a
    <2>1. \A q \in routes : q = r
      BY <1>2, <1>5 DEF Single
    <2>2. \A b \in Attachments : b.id = a.id => b = a
      BY Snapshots DEF Keyed
    <2>3. leaves = {a}
      BY <1>9, <2>1, <2>2
    <2> HIDE DEF leaves
    <2> QED
      BY <2>3
  <1> HIDE DEF c, leaves
  <1>10. (\A r \in routes : r.dead) => Onward(x.id, x.attach, to) = Lost
    BY <1>6, <1>7
  <1>11. \A r \in routes : (\A a \in Attachments : a.id # r.out) => Onward(x.id, x.attach, to) = Lost
    BY <1>6, <1>8
  <1>12. \A r \in routes : ~r.dead => \A a \in Attachments : a.id = r.out =>
            Onward(x.id, x.attach, to) =
                          IF a.kind = "peering"
                          THEN At("gateway", IF a.tgw = g.tgw THEN a.resource ELSE a.tgw, a.id)
                          ELSE IF a.kind = "vpn" THEN Lost
                          ELSE IF a.resource # net.home[to] /\ FirewallsIn(a.resource) # {}
                          THEN At("gateway", a.tgw, a.id)
                          ELSE IF net.home[to] \in {a.resource, None} THEN Arrived ELSE Lost
    BY <1>1, <1>4, <1>6, <1>9
  <1> QED
    BY <1>3, <1>5, <1>10, <1>11, <1>12

(* A packet that has come into a gateway is forwarded by the one table that *)
(* is looked up.                                                            *)
LEMMA OneTable ==
    ASSUME Faithful, NEW a \in Attachments, NEW tgw \in EnteredBy(a)
    PROVE  /\ TablesFor(a.id, tgw) = Held(At("gateway", tgw, a.id))
           /\ Single(TablesFor(a.id, tgw))
  <1>1. Single(TablesFor(a.id, tgw)) /\ TablesFor(a.id, tgw) \subseteq Associated(a)
    BY DEF Faithful, FaithfulAttachments
  <1>2. Held(At("gateway", tgw, a.id)) = { h \in net.gateways : h.tgw = tgw /\ a.id \in h.assoc }
    BY DEF Held, At
  <1>3. TablesFor(a.id, tgw) =
           IF { h \in net.gateways : h.tgw = tgw /\ a.id \in h.assoc } # {}
           THEN { h \in net.gateways : h.tgw = tgw /\ a.id \in h.assoc }
           ELSE { h \in net.gateways : h.tgw = tgw }
    <2>1. { h \in net.gateways : a.id \in h.assoc /\ h.tgw = tgw }
             = { h \in net.gateways : h.tgw = tgw /\ a.id \in h.assoc }
      OBVIOUS
    <2> QED
      BY <2>1 DEF TablesFor
  <1> QED
    BY <1>1, <1>2, <1>3 DEF Associated

-----------------------------------------------------------------------------
(* A walk goes the way of the packet, where the snapshot is faithful.       *)

Way(w) == Trail(Source(w), Dest(w))

(* A walk w that has inspected I let the packet at x through: every         *)
(* firewall it meets there, and on the way there by its policy, unless it   *)
(* was told to skip it.                                                     *)
Allowed(w, f) == w # "return" => net.skipFirewall \/ f.verdict = "pass"

Met(w, I, x) ==
    \A a \in Attachments : a.id = x.attach /\ a.kind = "vpc" =>
        \A f \in FirewallsIn(a.resource) : f.id \in I /\ Allowed(w, f)

Behind(w, I, n) ==
    \A m \in Nat : m < n => Way(w)[m].at = "gateway" /\ Met(w, I, Way(w)[m])

(* A walk at p follows a packet that is in the gateway at x.                *)
Stands(w, I, p, x) ==
    /\ x.at = "gateway"
    /\ \/ p.at = "gateway" /\ Met(w, I, x) /\ \E g \in net.gateways : Held(x) = {g} /\ g.id = p.id
       \/ /\ p.at = "peering" /\ x = At("gateway", p.id, p.attach)
          /\ \E a \in Attachments :
                a.id = p.attach /\ a.kind = "peering" /\ p.id \in {a.tgw, a.resource}
       \/ /\ p.at = "inspection"
          /\ \E a \in Attachments :
                /\ a.id = p.attach /\ a.kind = "vpc" /\ a.resource = p.id
                /\ x = At("gateway", a.tgw, a.id)

(* What passing x is noted by: the gateway, and the VPC it came from.       *)
Marks(x) ==
    {x.id} \cup UNION { {a.id} \cup { f.vpc : f \in FirewallsIn(a.resource) } :
                            a \in { a \in Attachments : a.id = x.attach /\ a.kind = "vpc" } }

(* ... and the packet's way up to its n-th place, and out of the gateway    *)
(* before that.                                                             *)
Log(w, n) == UNION { Marks(Way(w)[m]) : m \in { m \in Nat : m < n } }

LastLink(w, n) ==
    UNION { { a.id : a \in VPCLinks(net.home[Dest(w)], Way(w)[m].id) } :
                m \in { m \in Nat : m + 1 = n } }

(* The two directions are compared, and what they pass has its own names.   *)
Comparable == NamedAlike /\ net.home["dst"] # None

(* The names a gateway's routes may have for the attachments of the two     *)
(* ends, and what is the same but for these.                                *)
Homes == IF RoutesNameAttachments THEN {} ELSE { net.home[e] : e \in TwoEndpoints }

Alike(P, Q) == P \ Homes = Q \ Homes

(* What a walk has passed, at p on its way into the n-th place: an          *)
(* inspection VPC and its attachment are noted when the packet has been     *)
(* through, if not before.                                                  *)
Noted(w, P, p, n) ==
    IF p.at = "inspection"
    THEN Alike(P \cup {p.attach, p.id}, Log(w, n) \cup {p.attach, p.id}) /\ Way(w)[n].id \in P
    ELSE Alike(P, Log(w, n + 1))

Underway(w, I, P, p) ==
    \/ p.at = "subnet" /\ P = {}
    \/ \E n \in Nat : /\ Behind(w, I, n) /\ Stands(w, I, p, Way(w)[n])
                      /\ Comparable => Noted(w, P, p, n)

(* A firewall that the packet meets at x does not let it through.           *)
Dropped(w, x) ==
    /\ w # "return" /\ x.at = "gateway"
    /\ \E a \in Attachments : /\ a.id = x.attach /\ a.kind = "vpc"
                              /\ \E f \in FirewallsIn(a.resource) : f.verdict # "pass"

Comes(w, I, x) == \E n \in Nat : Behind(w, I, n) /\ Way(w)[n] = x

(* A walk that has arrived notes the whole way.                             *)
Reports(w, I, P) ==
    \E n \in Nat : /\ Behind(w, I, n) /\ Way(w)[n] = Arrived
                   /\ Comparable => Alike(P, Log(w, n) \cup LastLink(w, n))

(* What a verdict v says of the way.                                        *)
Went(w, I, P, v) ==
    /\ v \in {"pass", "abstain"} => Reports(w, I, P)
    /\ v = "pass" /\ w = "return" => I = {}
    /\ v = "blocked" /\ net.collected = Gateway =>
          \/ Comes(w, I, Lost) \/ OtherWay(Source(w), Dest(w))
          \/ \E n \in Nat : Behind(w, I, n) /\ Dropped(w, Way(w)[n])

(* The walks that have no verdict yet.                                      *)
ToWalk ==
    CASE walk = "forward" -> Walks
      [] walk = "return"  -> {"return", "again"}
      [] walk = "again"   -> {"again"}
      [] OTHER            -> {}

WayInv ==
    /\ DOMAIN passed = Walks
    /\ walk # "done" => Underway(walk, inspected[walk], passed[walk], pos)
    /\ \A w \in ToWalk : verdict[w] = "none" /\ (w # walk => passed[w] = {})
    /\ \A w \in Walks : Went(w, inspected[w], passed[w], verdict[w])
    /\ walk = "return" \/ verdict["return"] # "none" =>
          verdict["forward"] = "pass" /\ net.home["dst"] # None

(* What a step does to them.                                                *)
Followed ==
    /\ UNCHANGED net
    /\ walk # "done"
    /\ DOMAIN passed' = Walks
    /\ \A w \in Walks : w # walk => inspected'[w] = inspected[w] /\ passed'[w] = passed[w]
    /\ \/ /\ UNCHANGED << walk, verdict >>
          /\ Underway(walk, inspected'[walk], passed'[walk], pos')
       \/ \E v \in {"pass", "blocked", "abstain"} :
             /\ pos' = Subnet
             /\ walk' = NextWalk(v)
             /\ verdict' = [verdict EXCEPT ![walk] = v]
             /\ Went(walk, inspected'[walk], passed'[walk], v)

LEMMA SameNetwork ==
    ASSUME UNCHANGED net
    PROVE  /\ \A w, I, P, p : Underway(w, I, P, p)' <=> Underway(w, I, P, p)
           /\ \A w, I, P, v : Went(w, I, P, v)' <=> Went(w, I, P, v)
           /\ Faithful' <=> Faithful
           /\ NamedAlike' <=> NamedAlike
  <1>1. Attachments' = Attachments /\ \A vpc : FirewallsIn(vpc)' = FirewallsIn(vpc)
    BY DEF Attachments, FirewallsIn
  <1>2. \A w : Way(w)' = Way(w)
    <2>1. \A from, to : Start(from, to)' = Start(from, to)
      BY DEF Start, Leaves, VPCAttachment, RealRoute, Attachments
    <2>2. \A tgw, attach, to : Onward(tgw, attach, to)' = Onward(tgw, attach, to)
      BY DEF Onward, RealRoute, Attachments, FirewallsIn
    <2>3. \A from, to : Trail(from, to)' = Trail(from, to)
      BY <2>1, <2>2 DEF Trail
    <2> QED
      BY <2>3 DEF Way, Source, Dest
  <1>3. \A w, I, x : Met(w, I, x)' <=> Met(w, I, x)
    BY <1>1 DEF Met, Allowed
  <1>4. \A w, I, n : Behind(w, I, n)' <=> Behind(w, I, n)
    BY <1>2, <1>3 DEF Behind
  <1>5. \A x : Held(x)' = Held(x)
    BY DEF Held
  <1>6. \A w, I, p, x : Stands(w, I, p, x)' <=> Stands(w, I, p, x)
    <2> SUFFICES ASSUME NEW w, NEW I, NEW p, NEW x
                 PROVE  Stands(w, I, p, x)' <=> Stands(w, I, p, x)
      OBVIOUS
    <2>2. (p.at = "gateway" /\ Met(w, I, x) /\ \E g \in net.gateways : Held(x) = {g} /\ g.id = p.id)'
             <=> (p.at = "gateway" /\ Met(w, I, x) /\ \E g \in net.gateways : Held(x) = {g} /\ g.id = p.id)
      BY <1>3, <1>5
    <2>3. (\E a \in Attachments :
              a.id = p.attach /\ a.kind = "peering" /\ p.id \in {a.tgw, a.resource})'
          <=> (\E a \in Attachments :
                  a.id = p.attach /\ a.kind = "peering" /\ p.id \in {a.tgw, a.resource})
      BY <1>1
    <2>4. (\E a \in Attachments : /\ a.id = p.attach /\ a.kind = "vpc" /\ a.resource = p.id
                                  /\ x = At("gateway", a.tgw, a.id))'
          <=> (\E a \in Attachments : /\ a.id = p.attach /\ a.kind = "vpc" /\ a.resource = p.id
                                      /\ x = At("gateway", a.tgw, a.id))
      BY <1>1
    <2> QED
      BY <2>2, <2>3, <2>4 DEF Stands
  <1>7. \A w, x : Dropped(w, x)' <=> Dropped(w, x)
    BY <1>1 DEF Dropped
  <1>8. \A w, I, x : Comes(w, I, x)' <=> Comes(w, I, x)
    BY <1>2, <1>4 DEF Comes
  <1>9. NamedAlike' <=> NamedAlike
    BY DEF NamedAlike, RealRoute, Attachments, Single, VPCLinks, PeeringsBetweenGateways
  <1>10. Comparable' <=> Comparable
    BY <1>9 DEF Comparable
  <1>17. \A P, Q : Alike(P, Q)' <=> Alike(P, Q)
    <2>1. RoutesNameAttachments' <=> RoutesNameAttachments
      BY DEF RoutesNameAttachments, Attachments
    <2>2. Homes' = Homes
      BY <2>1 DEF Homes
    <2> QED
      BY <2>2 DEF Alike
  <1>11. \A w, n : Log(w, n)' = Log(w, n) /\ LastLink(w, n)' = LastLink(w, n)
    <2>1. \A x : Marks(x)' = Marks(x)
      BY DEF Marks, Attachments, FirewallsIn
    <2>2. \A vpc, tgw : VPCLinks(vpc, tgw)' = VPCLinks(vpc, tgw)
      BY DEF VPCLinks, Attachments
    <2>3. \A w, n : Log(w, n)' = Log(w, n)
      BY <1>2, <2>1 DEF Log
    <2>4. \A w, n : LastLink(w, n)' = LastLink(w, n)
      BY <1>2, <2>2 DEF LastLink
    <2> QED
      BY <2>3, <2>4
  <1>12. \A w, P, p, n : Noted(w, P, p, n)' <=> Noted(w, P, p, n)
    BY <1>2, <1>11, <1>17 DEF Noted
  <1>13. \A w, I, P, p : Underway(w, I, P, p)' <=> Underway(w, I, P, p)
    BY <1>2, <1>4, <1>6, <1>10, <1>12 DEF Underway
  <1>14. \A w, I, P : Reports(w, I, P)' <=> Reports(w, I, P)
    BY <1>2, <1>4, <1>10, <1>11, <1>17 DEF Reports
  <1>15. \A w, I, P, v : Went(w, I, P, v)' <=> Went(w, I, P, v)
    <2>1. \A w : OtherWay(Source(w), Dest(w))' <=> OtherWay(Source(w), Dest(w))
      BY DEF OtherWay, IsDirect, Leaves, RealRoute, Source, Dest
    <2> QED
      BY <1>2, <1>4, <1>7, <1>8, <1>14, <2>1 DEF Went
  <1>16. Faithful' <=> Faithful
    BY DEF Faithful, OnlyIPv4, FaithfulSubnets, FaithfulAttachments, FaithfulGateways, Single,
           SubnetTables, RealRoute, TablesFor, EnteredBy, Associated, AttachmentFor,
           PeeringBetween, FirewallsIn, Attachments, Far
  <1> QED
    BY <1>9, <1>13, <1>15, <1>16

(* Where a walk begins, and the next place of the packet.                   *)
LEMMA AtFirst ==
    ASSUME NEW w, NEW I
    PROVE  Behind(w, I, 0) /\ Way(w)[0] = Start(Source(w), Dest(w))
  BY TrailIs DEF Behind, Way

LEMMA OneFurther ==
    ASSUME NEW w, NEW I, NEW n \in Nat, Behind(w, I, n),
           Way(w)[n].at = "gateway", Met(w, I, Way(w)[n])
    PROVE  /\ n + 1 \in Nat /\ Behind(w, I, n + 1)
           /\ Way(w)[n + 1] = Onward(Way(w)[n].id, Way(w)[n].attach, Dest(w))
  <1>1. Way(w)[n + 1] = Onward(Way(w)[n].id, Way(w)[n].attach, Dest(w))
    BY TrailIs DEF Way, Move
  <1>2. \A m \in Nat : m < n + 1 => m < n \/ m = n
    OBVIOUS
  <1>3. Behind(w, I, n + 1)
    BY <1>2 DEF Behind
  <1> QED
    BY <1>1, <1>3

(* What is noted of a place, and of the way to the next.                    *)
LEMMA MarksOf ==
    ASSUME net \in Networks, NEW x, NEW a \in Attachments, x.attach = a.id
    PROVE  /\ a.kind # "vpc" => Marks(x) = {x.id}
           /\ a.kind = "vpc" => Marks(x) = {x.id, a.id} \cup { f.vpc : f \in FirewallsIn(a.resource) }
  <1>1. \A b \in Attachments : b.id = x.attach => b = a
    BY Snapshots DEF Keyed
  <1>2. { b \in Attachments : b.id = x.attach /\ b.kind = "vpc" } = IF a.kind = "vpc" THEN {a} ELSE {}
    BY <1>1
  <1> QED
    BY <1>2 DEF Marks

LEMMA LogGrows ==
    ASSUME NEW w
    PROVE  /\ Log(w, 0) = {} /\ LastLink(w, 0) = {}
           /\ \A n \in Nat : /\ Log(w, n + 1) = Log(w, n) \cup Marks(Way(w)[n])
                             /\ LastLink(w, n + 1) =
                                   { a.id : a \in VPCLinks(net.home[Dest(w)], Way(w)[n].id) }
  <1>1. /\ { m \in Nat : m < 0 } = {} /\ { m \in Nat : m + 1 = 0 } = {}
        /\ \A n \in Nat : /\ { m \in Nat : m < n + 1 } = { m \in Nat : m < n } \cup {n}
                          /\ { m \in Nat : m + 1 = n + 1 } = {n}
    OBVIOUS
  <1>2. Log(w, 0) = {} /\ LastLink(w, 0) = {}
    BY <1>1 DEF Log, LastLink
  <1>3. \A n \in Nat : Log(w, n + 1) = Log(w, n) \cup Marks(Way(w)[n])
    BY <1>1 DEF Log
  <1>4. \A n \in Nat : LastLink(w, n + 1) = { a.id : a \in VPCLinks(net.home[Dest(w)], Way(w)[n].id) }
    BY <1>1 DEF LastLink
  <1> QED
    BY <1>2, <1>3, <1>4

LEMMA Passes ==
    ASSUME DOMAIN passed = Walks, walk \in Walks, NEW ids, Pass(ids)
    PROVE  /\ DOMAIN passed' = Walks /\ passed'[walk] = passed[walk] \cup ids
           /\ \A w \in Walks : w # walk => passed'[w] = passed[w]
  BY DEF Pass

LEMMA MoreInspected ==
    ASSUME NEW w, NEW I, NEW J, I \subseteq J
    PROVE  /\ \A x : Met(w, I, x) => Met(w, J, x)
           /\ \A n : Behind(w, I, n) => Behind(w, J, n)
  <1>1. \A x : Met(w, I, x) => Met(w, J, x)
    BY DEF Met
  <1> QED
    BY <1>1 DEF Behind

LEMMA MetAt ==
    ASSUME net \in Networks, NEW w, NEW I, NEW x, NEW a \in Attachments, x.attach = a.id,
           a.kind = "vpc" => \A f \in FirewallsIn(a.resource) :
                                f.id \in I /\ Allowed(w, f)
    PROVE  Met(w, I, x)
  <1>1. \A b \in Attachments : b.id = x.attach => b = a
    BY Snapshots DEF Keyed
  <1> QED
    BY <1>1 DEF Met

(* The two ends of a walk.                                                  *)
LEMMA TwoEnds ==
    ASSUME walk \in Walks, Faithful
    PROVE  /\ Source(walk) \in TwoEndpoints /\ Dest(walk) \in TwoEndpoints
           /\ Source(walk) # Dest(walk)
           /\ DestVPC # "external" /\ (DestKnown <=> DestVPC # None)
           /\ DestVPC = SourceVPC => DestKnown
           /\ FirewallsIn(SourceVPC) = {}
  <1>1. /\ net.home["src"] \notin {None, "external"} /\ net.home["dst"] # "external"
        /\ FirewallsIn(net.home["src"]) = {} /\ FirewallsIn(net.home["dst"]) = {}
    BY DEF Faithful, FaithfulSubnets
  <1>2. \/ Source(walk) = "src" /\ Dest(walk) = "dst"
        \/ Source(walk) = "dst" /\ Dest(walk) = "src"
    BY DEF Source, Dest
  <1> QED
    BY <1>1, <1>2 DEF TwoEndpoints, DestVPC, SourceVPC, DestKnown

(* A step's three kinds.                                                    *)
LEMMA GetsLost ==
    ASSUME WalkInv, WayInv, walk # "done", NEW ids, Block(ids),
           net.collected = Gateway =>
              Comes(walk, inspected[walk], Lost) \/ OtherWay(Source(walk), Dest(walk))
    PROVE  Followed
  <1>1. Went(walk, inspected[walk], passed'[walk], "blocked")
    BY DEF Went
  <1>2. /\ DOMAIN passed' = Walks
        /\ \A w \in Walks : w # walk => passed'[w] = passed[w]
    BY Passes DEF WalkInv, WayInv, Block, End
  <1> QED
    BY <1>1, <1>2 DEF Followed, Block, End

LEMMA GetsThere ==
    ASSUME WalkInv, WayInv, walk # "done", NEW ids, Arrive(ids),
           Reports(walk, inspected[walk], passed[walk] \cup ids)
    PROVE  Followed
  <1> DEFINE v == Cleared(inspected[walk])
  <1>1. v \in {"pass", "abstain"} /\ (v = "pass" /\ walk = "return" => inspected[walk] = {})
    BY DEF Cleared
  <1>2. End(v, ids) /\ UNCHANGED inspected
    BY DEF Arrive
  <1> HIDE DEF v
  <1>3. /\ DOMAIN passed' = Walks /\ passed'[walk] = passed[walk] \cup ids
        /\ \A w \in Walks : w # walk => passed'[w] = passed[w]
    BY <1>2, Passes DEF WalkInv, WayInv, End
  <1>4. Went(walk, inspected[walk], passed'[walk], v)
    BY <1>1, <1>3 DEF Went
  <1> QED
    BY <1>1, <1>2, <1>3, <1>4 DEF Followed, End

LEMMA Proceeds ==
    ASSUME WalkInv, WayInv, walk # "done", NEW next, NEW ids, Continue(next, ids), UNCHANGED inspected,
           Underway(walk, inspected[walk], passed[walk] \cup ids, next)
    PROVE  Followed
  <1>1. /\ DOMAIN passed' = Walks /\ passed'[walk] = passed[walk] \cup ids
        /\ \A w \in Walks : w # walk => passed'[w] = passed[w]
    BY Passes DEF WalkInv, WayInv, Continue
  <1> QED
    BY <1>1 DEF Followed, Continue

LEMMA StandsThere ==
    ASSUME NEW w, NEW I, NEW x, NEW g, x.at = "gateway", Met(w, I, x), Held(x) = {g}
    PROVE  Stands(w, I, AtGateway(g), x)
  <1>1. g \in net.gateways
    BY DEF Held
  <1>2. AtGateway(g).at = "gateway" /\ AtGateway(g).id = g.id
    BY DEF AtGateway, At
  <1> QED
    BY <1>1, <1>2 DEF Stands

LEMMA Nothing ==
    ASSUME WayInv, walk # "done", pos.at = "subnet"
    PROVE  passed[walk] = {}
  <1>1. \A n \in Nat : ~Stands(walk, inspected[walk], pos, Way(walk)[n])
    BY DEF Stands
  <1> QED
    BY <1>1 DEF WayInv, Underway

(* Within the VPC.                                                          *)
LEMMA FollowsInVPC ==
    ASSUME WalkInv, WayInv, Faithful, StayInVPC
    PROVE  Followed
  <1>1. walk \in Walks /\ walk # "done" /\ net \in Networks
    BY DEF WalkInv, StayInVPC
  <1> DEFINE from == Source(walk)
             to == Dest(walk)
  <1>2. from \in TwoEndpoints /\ to \in TwoEndpoints /\ from # to /\ net.home[from] = net.home[to]
    BY <1>1, TwoEnds DEF StayInVPC, SourceVPC, DestVPC
  <1>3. Behind(walk, inspected[walk], 0) /\ Way(walk)[0] = Start(from, to)
    BY AtFirst
  <1> HIDE DEF from, to
  <1>4. \A x : Start(from, to) = x => Comes(walk, inspected[walk], x)
    BY <1>3 DEF Comes
  <1>5. (\A r \in Leaves(from, to) : r.dead) => Start(from, to) = Lost
    BY <1>1, <1>2, Starts
  <1>6. CASE SubnetTables(from) = {} /\ Block({})
    <2>1. Leaves(from, to) = {}
      BY <1>1, <1>2, <1>6, FromSubnet
    <2> QED
      BY <1>1, <1>4, <1>5, <1>6, <2>1, GetsLost
  <1>7. ASSUME NEW t \in SubnetTables(from), \A r \in MatchRoute(t.routes, to) : r.dead, Block({})
        PROVE  Followed
    <2>1. MatchRoute(t.routes, to) = Leaves(from, to)
      BY <1>1, <1>2, FromSubnet
    <2> QED
      BY <1>1, <1>4, <1>5, <1>7, <2>1, GetsLost
  <1>8. ASSUME NEW t \in SubnetTables(from), NEW r \in MatchRoute(t.routes, to), ~r.dead,
               Arrive(NextHop(r))
        PROVE  Followed
    <2>1. r \in Leaves(from, to) /\ r.kind = "local"
      BY <1>1, <1>2, <1>8, FromSubnet
    <2>2. Start(from, to) = Arrived
      BY <1>1, <1>2, <1>8, <2>1, Starts
    <2>3. passed[walk] = {} /\ NextHop(r) = {} /\ Log(walk, 0) \cup LastLink(walk, 0) = {}
      BY <1>1, <2>1, Nothing, LogGrows DEF NextHop, StayInVPC
    <2>4. Reports(walk, inspected[walk], passed[walk] \cup NextHop(r))
      BY <1>3, <2>2, <2>3 DEF Reports, Alike
    <2> QED
      BY <1>1, <1>8, <2>4, GetsThere
  <1> QED
    BY <1>6, <1>7, <1>8 DEF StayInVPC, from, to

(* Up to the gateway.                                                       *)
LEMMA FollowsToGateway ==
    ASSUME WalkInv, WayInv, Faithful, EnterGateway
    PROVE  Followed
  <1>1. walk \in Walks /\ walk # "done" /\ net \in Networks
    BY DEF WalkInv, EnterGateway
  <1> DEFINE from == Source(walk)
             to == Dest(walk)
             I == inspected[walk]
  <1>2. from \in TwoEndpoints /\ to \in TwoEndpoints /\ from # to /\ net.home[from] # net.home[to]
    BY <1>1, TwoEnds DEF EnterGateway, SourceVPC, DestVPC
  <1>3. Behind(walk, I, 0) /\ Way(walk)[0] = Start(from, to)
    BY AtFirst
  <1>4. SourceVPC = net.home[from]
    BY DEF SourceVPC
  <1>5. FirewallsIn(net.home[from]) = {}
    BY <1>1, <1>4, TwoEnds
  <1> HIDE DEF from, to, I
  <1>6. \A x : Start(from, to) = x => Comes(walk, I, x)
    BY <1>3 DEF Comes
  <1>7. (\A r \in Leaves(from, to) : r.dead) => Start(from, to) = Lost
    BY <1>1, <1>2, Starts
  <1>8. CASE SubnetTables(from) = {} /\ Block({})
    <2>1. Leaves(from, to) = {}
      BY <1>1, <1>2, <1>8, FromSubnet
    <2> QED
      BY <1>1, <1>6, <1>7, <1>8, <2>1, GetsLost DEF I
  <1>9. ASSUME NEW t \in SubnetTables(from),
               { r \in MatchRoute(t.routes, to) : ~r.dead /\ r.kind = "gateway" } = {}, Block({})
        PROVE  Followed
    <2>1. MatchRoute(t.routes, to) = Leaves(from, to)
      BY <1>1, <1>2, FromSubnet
    <2>2. \A r \in Leaves(from, to) : ~r.dead => r.kind \notin {"local", "gateway"}
      BY <1>1, <1>2, <1>9, <2>1, FromSubnet
    <2>3. Start(from, to) = Lost \/ OtherWay(from, to)
      BY <1>1, <1>2, <1>7, <2>2, Starts DEF OtherWay
    <2> QED
      BY <1>1, <1>6, <1>9, <2>3, GetsLost DEF I, from, to
  <1>10. ASSUME NEW t \in SubnetTables(from), NEW r \in MatchRoute(t.routes, to),
                ~r.dead, r.kind = "gateway",
                VPCAttachment(net.home[from], r.target) = {}, Block({r.target})
         PROVE  Followed
    <2>1. r \in Leaves(from, to)
      BY <1>1, <1>2, FromSubnet
    <2>2. Start(from, to) = Lost
      BY <1>1, <1>2, <1>10, <2>1, Starts
    <2> QED
      BY <1>1, <1>6, <1>10, <2>2, GetsLost DEF I
  <1>11. ASSUME NEW t \in SubnetTables(from), NEW r \in MatchRoute(t.routes, to),
                ~r.dead, r.kind = "gateway", NEW a \in VPCAttachment(net.home[from], r.target)
         PROVE  /\ TablesFor(a.id, a.tgw) = {} /\ Block(Entered(t, r, a)) => Followed
                /\ \A g \in TablesFor(a.id, a.tgw) :
                      Continue(AtGateway(g), Entered(t, r, a)) /\ UNCHANGED inspected => Followed
    <2>1. r \in Leaves(from, to)
      BY <1>1, <1>2, FromSubnet
    <2> DEFINE x == At("gateway", a.tgw, a.id)
    <2>2. Way(walk)[0] = x
      BY <1>1, <1>2, <1>3, <1>11, <2>1, Starts
    <2>3. x.at = "gateway" /\ x.id = a.tgw /\ x.attach = a.id
      BY DEF At
    <2>4. a \in Attachments /\ a.kind = "vpc" /\ a.resource = net.home[from]
      BY <1>1, OneAttachment
    <2> HIDE DEF x
    <2>5. Met(walk, I, x)
      BY <1>1, <1>5, <2>3, <2>4, MetAt
    <2>6. TablesFor(a.id, a.tgw) = Held(x) /\ Single(Held(x))
      BY <2>4, OneTable DEF EnteredBy, x
    <2>7. Entered(t, r, a) = Marks(x)
      <3>1. Marks(x) = {x.id, a.id} \cup { f.vpc : f \in {} }
        BY <1>1, <1>5, <2>3, <2>4, MarksOf
      <3>2. r.target = a.tgw
        BY <1>1, <1>11, OneAttachment
      <3> QED
        BY <2>3, <3>1, <3>2 DEF Entered
    <2>8. ASSUME TablesFor(a.id, a.tgw) = {}, Block(Entered(t, r, a))
          PROVE  Followed
      <3>1. Onward(x.id, x.attach, to) = Lost
        BY <2>6, <2>8, Stuck
      <3>2. Comes(walk, I, Lost)
        BY <1>3, <2>2, <2>3, <2>5, <3>1, OneFurther DEF Comes, to
      <3> QED
        BY <1>1, <2>8, <3>2, GetsLost DEF I
    <2>9. ASSUME NEW g \in TablesFor(a.id, a.tgw), Continue(AtGateway(g), Entered(t, r, a)),
                 UNCHANGED inspected
          PROVE  Followed
      <3>1. Held(x) = {g}
        BY <2>6 DEF Single
      <3>2. Stands(walk, I, AtGateway(g), Way(walk)[0])
        BY <2>2, <2>3, <2>5, <3>1, StandsThere
      <3>3. passed[walk] \cup Entered(t, r, a) = Log(walk, 0 + 1)
        BY <1>1, <2>2, <2>7, LogGrows, Nothing DEF EnterGateway
      <3>4. Underway(walk, I, passed[walk] \cup Entered(t, r, a), AtGateway(g))
        BY <1>3, <3>2, <3>3 DEF Underway, Noted, Alike, AtGateway, At
      <3> QED
        BY <1>1, <2>9, <3>4, Proceeds DEF I
    <2> QED
      BY <2>8, <2>9
  <1>12. CASE \E t \in SubnetTables(from) :
                LET up == { r \in MatchRoute(t.routes, to) : ~r.dead /\ r.kind = "gateway" }
                IN  \/ up = {} /\ Block({})
                    \/ \E r \in up :
                          LET attach == VPCAttachment(net.home[from], r.target)
                          IN  \/ attach = {} /\ Block({r.target})
                              \/ \E a \in attach :
                                    \/ TablesFor(a.id, a.tgw) = {} /\ Block(Entered(t, r, a))
                                    \/ \E g \in TablesFor(a.id, a.tgw) :
                                          /\ Continue(AtGateway(g), Entered(t, r, a))
                                          /\ UNCHANGED inspected
    <2>1. PICK t \in SubnetTables(from) :
                \/ { r \in MatchRoute(t.routes, to) : ~r.dead /\ r.kind = "gateway" } = {} /\ Block({})
                \/ \E r \in MatchRoute(t.routes, to) :
                      /\ ~r.dead /\ r.kind = "gateway"
                      /\ \/ VPCAttachment(net.home[from], r.target) = {} /\ Block({r.target})
                         \/ \E a \in VPCAttachment(net.home[from], r.target) :
                                    \/ TablesFor(a.id, a.tgw) = {} /\ Block(Entered(t, r, a))
                                    \/ \E g \in TablesFor(a.id, a.tgw) :
                                          /\ Continue(AtGateway(g), Entered(t, r, a))
                                          /\ UNCHANGED inspected
      BY <1>12
    <2> QED
      BY <1>9, <1>10, <1>11, <2>1
  <1> QED
    BY <1>4, <1>8, <1>12 DEF EnterGateway, from, to

(* Directions that are compared lie between two collected subnets.          *)
LEMMA HomesKnown ==
    ASSUME Faithful, Comparable
    PROVE  \A e \in TwoEndpoints : net.home[e] \notin {None, "external"}
  BY DEF Faithful, FaithfulSubnets, Comparable, TwoEndpoints

(* Out of a gateway by an attachment, the packet being in gateway g.        *)
LEMMA FollowsAttachment ==
    ASSUME WalkInv, WayInv, Faithful, walk # "done", NEW n \in Nat,
           Behind(walk, inspected[walk], n + 1),
           Comparable => Alike(passed[walk], Log(walk, n + 1)),
           NEW g, Way(walk)[n].id = g.tgw, NEW r, NEW a \in Attachments, TakeAttachment(r, a),
           /\ Comparable /\ a.kind = "vpc" =>
                 /\ r.target = a.id \/ (r.target = a.resource /\ ~RoutesNameAttachments)
                 /\ a.tgw = g.tgw
           /\ Comparable /\ a.kind = "peering" => r.target \in Gateway,
           a.kind = "peering" => Far(r, a) = IF a.tgw = g.tgw THEN a.resource ELSE a.tgw,
           Way(walk)[n + 1] =
              IF a.kind = "peering"
              THEN At("gateway", IF a.tgw = g.tgw THEN a.resource ELSE a.tgw, a.id)
              ELSE IF a.kind = "vpn" THEN Lost
              ELSE IF a.resource # DestVPC /\ FirewallsIn(a.resource) # {}
              THEN At("gateway", a.tgw, a.id)
              ELSE IF DestVPC \in {a.resource, None} THEN Arrived ELSE Lost
    PROVE  Followed
  <1>1. walk \in Walks /\ net \in Networks
    BY DEF WalkInv
  <1>2. DestVPC # "external" /\ (DestKnown <=> DestVPC # None)
    BY <1>1, TwoEnds
  <1>3. \A x : Way(walk)[n + 1] = x => Comes(walk, inspected[walk], x)
    BY DEF Comes
  <1>4. n + 1 \in Nat /\ Log(walk, (n + 1) + 1) = Log(walk, n + 1) \cup Marks(Way(walk)[n + 1])
    BY LogGrows
  <1>5. g.tgw \in Log(walk, n + 1)
    <2>1. Way(walk)[n].id \in Marks(Way(walk)[n])
      BY DEF Marks
    <2> QED
      BY <2>1, LogGrows
  <1>6. CASE /\ a.kind = "peering" /\ UNCHANGED inspected
             /\ Continue(At("peering", Far(r, a), a.id), {r.target, Far(r, a)})
    <2> DEFINE p == At("peering", Far(r, a), a.id)
    <2>1. p.at = "peering" /\ p.id = Far(r, a) /\ p.attach = a.id
      BY DEF At
    <2>2. Way(walk)[n + 1] = At("gateway", p.id, p.attach) /\ p.id \in {a.tgw, a.resource}
      BY <1>6, <2>1
    <2> HIDE DEF p
    <2>3. Stands(walk, inspected[walk], p, Way(walk)[n + 1])
      <3>1. Way(walk)[n + 1].at = "gateway"
        BY <2>2 DEF At
      <3> QED
        BY <1>6, <2>1, <2>2, <3>1 DEF Stands
    <2>4. Comparable => Noted(walk, passed[walk] \cup {r.target, Far(r, a)}, p, n + 1)
      <3> SUFFICES ASSUME Comparable
                   PROVE  Alike(passed[walk] \cup {r.target, Far(r, a)}, Log(walk, (n + 1) + 1))
        BY <2>1 DEF Noted
      <3>1. Way(walk)[n + 1].id = p.id /\ Way(walk)[n + 1].attach = a.id
        BY <2>1, <2>2 DEF At
      <3>2. Marks(Way(walk)[n + 1]) = {p.id}
        BY <1>1, <1>6, <3>1, MarksOf
      <3>3. {r.target, Far(r, a)} = {p.id}
        BY <1>6, <2>1 DEF Far
      <3> QED
        BY <1>4, <3>2, <3>3 DEF Alike
    <2>5. Underway(walk, inspected[walk], passed[walk] \cup {r.target, Far(r, a)}, p)
      BY <1>4, <2>3, <2>4 DEF Underway
    <2> QED
      BY <1>6, <2>5, Proceeds DEF p
  <1>7. CASE /\ a.kind = "vpc" /\ Diverts(a) /\ UNCHANGED inspected
             /\ Continue(At("inspection", a.resource, a.id), {r.target})
    <2> DEFINE p == At("inspection", a.resource, a.id)
    <2>1. p.at = "inspection" /\ p.id = a.resource /\ p.attach = a.id
      BY DEF At
    <2>2. Way(walk)[n + 1] = At("gateway", a.tgw, a.id)
      BY <1>7 DEF Diverts
    <2> HIDE DEF p
    <2>3. Stands(walk, inspected[walk], p, Way(walk)[n + 1])
      <3>1. Way(walk)[n + 1].at = "gateway"
        BY <2>2 DEF At
      <3> QED
        BY <1>7, <2>1, <2>2, <3>1 DEF Stands
    <2>4. Comparable => Noted(walk, passed[walk] \cup {r.target}, p, n + 1)
      <3> SUFFICES ASSUME Comparable
                   PROVE  /\ Alike((passed[walk] \cup {r.target}) \cup {p.attach, p.id},
                                   Log(walk, n + 1) \cup {p.attach, p.id})
                          /\ Way(walk)[n + 1].id \in passed[walk] \cup {r.target}
        BY <2>1 DEF Noted
      <3>1. Way(walk)[n + 1].id = g.tgw
        BY <1>7, <2>2 DEF At
      <3>2. g.tgw \in passed[walk]
        <4>1. g.tgw \in Gateway
          BY <1>1, <1>7, Snapshots DEF Attachment
        <4>2. g.tgw \notin Homes
          BY <4>1 DEF Homes, Comparable, NamedAlike, TwoEndpoints
        <4> QED
          BY <1>5, <4>2 DEF Alike
      <3>3. r.target \in {p.attach, p.id}
        BY <1>7, <2>1
      <3> QED
        BY <3>1, <3>2, <3>3 DEF Alike
    <2>5. Underway(walk, inspected[walk], passed[walk] \cup {r.target}, p)
      BY <1>4, <2>3, <2>4 DEF Underway
    <2> QED
      BY <1>7, <2>5, Proceeds DEF p
  <1>8. CASE a.kind = "vpc" /\ ~Diverts(a)
    <2>1. CASE DestKnown /\ DestVPC # a.resource
      <3>1. Way(walk)[n + 1] = Lost
        BY <1>2, <1>8, <2>1 DEF Diverts
      <3>2. Block({r.target})
        BY <1>8, <2>1 DEF TakeAttachment
      <3> QED
        BY <1>3, <3>1, <3>2, GetsLost
    <2>2. CASE ~(DestKnown /\ DestVPC # a.resource)
      <3>1. Way(walk)[n + 1] = Arrived
        BY <1>2, <1>8, <2>2 DEF Diverts
      <3>2. Arrive({r.target, a.id})
        BY <1>8, <2>2 DEF TakeAttachment
      <3>3. ASSUME Comparable
            PROVE  Alike(passed[walk] \cup {r.target, a.id}, Log(walk, n + 1) \cup LastLink(walk, n + 1))
        <4>1. a.resource = net.home[Dest(walk)] /\ Dest(walk) \in TwoEndpoints
          BY <1>1, <1>2, <2>2, <3>3, TwoEnds, HomesKnown DEF DestVPC
        <4>2. a.tgw = g.tgw /\ a.tgw \in Gateway
          BY <1>1, <1>8, <3>3, Snapshots DEF Attachment
        <4>3. a \in VPCLinks(net.home[Dest(walk)], g.tgw)
          BY <1>8, <4>1, <4>2 DEF VPCLinks
        <4>4. VPCLinks(net.home[Dest(walk)], g.tgw) = {a}
          BY <3>3, <4>1, <4>2, <4>3 DEF Comparable, NamedAlike, Single, TwoEndpoints
        <4>5. LastLink(walk, n + 1) = {a.id}
          BY <4>4, LogGrows
        <4>6. r.target = a.id \/ r.target \in Homes
          BY <1>8, <3>3, <4>1 DEF Homes
        <4> QED
          BY <3>3, <4>5, <4>6 DEF Alike
      <3>4. Reports(walk, inspected[walk], passed[walk] \cup {r.target, a.id})
        BY <1>4, <3>1, <3>3 DEF Reports
      <3> QED
        BY <3>2, <3>4, GetsThere
    <2> QED
      BY <2>1, <2>2
  <1>9. CASE a.kind = "vpn" /\ Block({r.target})
    <2>1. Way(walk)[n + 1] = Lost
      BY <1>9
    <2> QED
      BY <1>3, <1>9, <2>1, GetsLost
  <1> QED
    BY <1>6, <1>7, <1>8, <1>9 DEF TakeAttachment

LEMMA FollowsThroughGateway ==
    ASSUME WalkInv, WayInv, Faithful, ThroughGateway
    PROVE  Followed
  <1>1. /\ net \in Networks /\ walk \in Walks /\ walk # "done"
        /\ pos.at = "gateway" /\ pos.at # "subnet" /\ pos.at # "peering" /\ pos.at # "inspection"
    BY DEF WalkInv, ThroughGateway, Walks, Subnet, At
  <1> DEFINE I == inspected[walk]
             to == Dest(walk)
  <1>2. PICK n \in Nat : /\ Behind(walk, I, n) /\ Stands(walk, I, pos, Way(walk)[n])
                         /\ Comparable => Alike(passed[walk], Log(walk, n + 1))
    BY <1>1 DEF WayInv, Underway, Noted
  <1> DEFINE x == Way(walk)[n]
  <1>3. PICK g : Held(x) = {g} /\ g.id = pos.id /\ x.at = "gateway" /\ Met(walk, I, x)
    BY <1>1, <1>2 DEF Stands
  <1>4. g \in net.gateways
    BY <1>3 DEF Held
  <1>5. PICK h \in net.gateways :
          /\ h.id = pos.id
          /\ \/ (\A r \in MatchRoute(h.routes, Dest(walk)) : r.dead) /\ Block({})
             \/ \E r \in MatchRoute(h.routes, Dest(walk)) :
                  /\ ~r.dead
                  /\ \/ DestVPC = "external" /\ Arrive({r.target})
                     \/ /\ DestVPC # "external" /\ r.kind = "attachment"
                        /\ \/ AttachmentFor(h.tgw, r.target) = {} /\ Block({r.target})
                           \/ \E a \in AttachmentFor(h.tgw, r.target) : TakeAttachment(r, a)
                     \/ /\ DestVPC # "external" /\ r.kind # "attachment"
                        /\ IF DestKnown /\ Dest(walk) \in h.near THEN Arrive({r.target})
                                                              ELSE Block({r.target})
    BY DEF ThroughGateway
  <1>6. h = g
    BY <1>1, <1>3, <1>4, <1>5, Snapshots DEF Keyed
  <1>7. /\ to \in TwoEndpoints /\ DestVPC = net.home[to]
        /\ DestVPC # "external" /\ (DestKnown <=> DestVPC # None)
    BY <1>1, TwoEnds DEF DestVPC
  <1> DEFINE y == Way(walk)[n + 1]
  <1>8. Behind(walk, I, n + 1) /\ n + 1 \in Nat /\ y = Onward(x.id, x.attach, to)
    BY <1>2, <1>3, OneFurther
  <1> HIDE DEF x, y, to, I
  <1>9. MatchRoute(g.routes, to) = RealRoute(g.routes, to)
    BY <1>1, <1>3, <1>7, FromGateway
  <1>10. \A z : y = z => Comes(walk, I, z)
    BY <1>8 DEF Comes, y
  <1>11. CASE (\A r \in MatchRoute(g.routes, to) : r.dead) /\ Block({})
    <2>1. y = Lost
      BY <1>1, <1>3, <1>7, <1>8, <1>9, <1>11, FromGateway
    <2> QED
      BY <1>1, <1>10, <1>11, <2>1, GetsLost DEF I
  <1>12. ASSUME NEW r \in MatchRoute(g.routes, to), ~r.dead,
                \/ /\ r.kind = "attachment"
                   /\ \/ AttachmentFor(g.tgw, r.target) = {} /\ Block({r.target})
                      \/ \E a \in AttachmentFor(g.tgw, r.target) : TakeAttachment(r, a)
                \/ /\ r.kind # "attachment"
                   /\ IF DestKnown /\ to \in g.near THEN Arrive({r.target}) ELSE Block({r.target})
         PROVE  Followed
    <2> DEFINE out == { a \in Attachments : a.id = r.out }
    <2>1. /\ r.kind = "attachment" =>
                /\ AttachmentFor(g.tgw, r.target) = out
                /\ \A a \in out : a.kind = "peering" =>
                      Far(r, a) = IF a.tgw = g.tgw THEN a.resource ELSE a.tgw
          /\ r.kind # "attachment" =>
                IF net.home[to] # None /\ to \in g.near
                THEN \E a \in out : a.kind = "vpc" /\ a.resource = net.home[to]
                ELSE \A a \in out : a.kind = "vpn"
      BY <1>4, <1>7, <1>9, <1>12 DEF Faithful, FaithfulGateways, TwoEndpoints
    <2>2. out = {} => y = Lost
      <3>1. out = {} => \A a \in Attachments : a.id # r.out
        OBVIOUS
      <3> QED
        BY <1>1, <1>3, <1>7, <1>8, <1>9, <1>12, <3>1, FromGateway
    <2>3. \A a \in out :
             /\ a \in Attachments
             /\ y = IF a.kind = "peering"
                    THEN At("gateway", IF a.tgw = g.tgw THEN a.resource ELSE a.tgw, a.id)
                    ELSE IF a.kind = "vpn" THEN Lost
                    ELSE IF a.resource # net.home[to] /\ FirewallsIn(a.resource) # {}
                    THEN At("gateway", a.tgw, a.id)
                    ELSE IF net.home[to] \in {a.resource, None} THEN Arrived ELSE Lost
      BY <1>1, <1>3, <1>7, <1>8, <1>9, <1>12, FromGateway
    <2>8. \A a \in out : a \in Attachments /\ a.id = r.out
      OBVIOUS
    <2> HIDE DEF out
    <2>4. CASE r.kind = "attachment" /\ out = {} /\ Block({r.target})
      BY <1>1, <1>10, <2>2, <2>4, GetsLost DEF I
    <2>5. ASSUME r.kind = "attachment", NEW a \in out, TakeAttachment(r, a)
          PROVE  Followed
      <3>1. Behind(walk, inspected[walk], n + 1) /\ n + 1 \in Nat
        BY <1>8 DEF I
      <3>2. a.kind = "peering" => Far(r, a) = IF a.tgw = g.tgw THEN a.resource ELSE a.tgw
        BY <2>1, <2>5
      <3>3. Way(walk)[n + 1] =
              IF a.kind = "peering"
              THEN At("gateway", IF a.tgw = g.tgw THEN a.resource ELSE a.tgw, a.id)
              ELSE IF a.kind = "vpn" THEN Lost
              ELSE IF a.resource # DestVPC /\ FirewallsIn(a.resource) # {}
              THEN At("gateway", a.tgw, a.id)
              ELSE IF DestVPC \in {a.resource, None} THEN Arrived ELSE Lost
        BY <1>7, <2>3 DEF y
      <3>4. a \in Attachments
        BY <2>3
      <3>5. Way(walk)[n].id = g.tgw
        BY <1>3 DEF Held, x
      <3>6. ASSUME Comparable, a.kind # "vpn"
            PROVE  /\ a.kind = "vpc" => a.tgw = g.tgw
                   /\ a.kind = "peering" => r.target \in Gateway
        BY <1>4, <1>7, <1>9, <1>12, <2>5, <2>8, <3>6 DEF Comparable, NamedAlike, TwoEndpoints
      <3>7. ASSUME Comparable, a.kind = "vpc"
            PROVE  r.target = a.id \/ (r.target = a.resource /\ ~RoutesNameAttachments)
        <4>1. AttachmentFor(g.tgw, r.target) = {a}
          <5>1. \A c \in out : c = a
            BY <1>1, <2>5, <2>8, Snapshots DEF Keyed
          <5> QED
            BY <2>1, <2>5, <5>1
        <4>2. PICK k \in DOMAIN g.routes : r = g.routes[k]
          BY <1>12 DEF MatchRoute
        <4>3. r.target = a.resource => ~RoutesNameAttachments
          BY <1>4, <3>4, <3>7, <4>2 DEF RoutesNameAttachments
        <4> QED
          BY <3>7, <4>1, <4>3 DEF AttachmentFor, PeeringBetween
      <3> QED
        BY <1>1, <1>2, <2>5, <3>1, <3>2, <3>3, <3>4, <3>5, <3>6, <3>7, FollowsAttachment
    <2>6. CASE r.kind # "attachment" /\ DestKnown /\ to \in g.near /\ Arrive({r.target})
      <3>1. PICK a \in out : a.kind = "vpc" /\ a.resource = net.home[to]
        BY <1>7, <2>1, <2>6
      <3>2. y = Arrived
        BY <2>3, <3>1
      <3>3. ~Comparable
        BY <1>4, <1>7, <1>9, <1>12, <2>6, <3>1, <2>8 DEF Comparable, NamedAlike, TwoEndpoints
      <3>4. Reports(walk, inspected[walk], passed[walk] \cup {r.target})
        BY <1>8, <3>2, <3>3 DEF Reports, y, I
      <3> QED
        BY <1>1, <2>6, <3>4, GetsThere
    <2>7. CASE r.kind # "attachment" /\ ~(DestKnown /\ to \in g.near) /\ Block({r.target})
      <3>1. \A a \in out : a.kind = "vpn"
        BY <1>7, <2>1, <2>7
      <3>2. y = Lost
        BY <2>2, <2>3, <3>1
      <3> QED
        BY <1>1, <1>10, <2>7, <3>2, GetsLost DEF I
    <2> QED
      BY <1>12, <2>1, <2>4, <2>5, <2>6, <2>7
  <1> QED
    BY <1>5, <1>6, <1>7, <1>11, <1>12 DEF to

(* Over a peering.  A gateway that was not collected is why a block over    *)
(* one says nothing.                                                        *)
LEMMA FollowsPeering ==
    ASSUME WalkInv, WayInv, Faithful, CrossPeering
    PROVE  Followed
  <1>1. /\ net \in Networks /\ walk \in Walks /\ walk # "done"
        /\ pos.at = "peering" /\ pos.at # "subnet" /\ pos.at # "gateway" /\ pos.at # "inspection"
    BY DEF WalkInv, CrossPeering, Walks, Subnet, At
  <1> DEFINE I == inspected[walk]
  <1>2. PICK n \in Nat : /\ Behind(walk, I, n) /\ Stands(walk, I, pos, Way(walk)[n])
                         /\ Comparable => Alike(passed[walk], Log(walk, n + 1))
    BY <1>1 DEF WayInv, Underway, Noted
  <1> DEFINE x == Way(walk)[n]
  <1>3. x = At("gateway", pos.id, pos.attach)
    BY <1>1, <1>2 DEF Stands
  <1>4. PICK a \in Attachments : a.id = pos.attach /\ a.kind = "peering" /\ pos.id \in {a.tgw, a.resource}
    BY <1>1, <1>2 DEF Stands
  <1>5. x.at = "gateway" /\ x.id = pos.id /\ x.attach = a.id
    BY <1>3, <1>4 DEF At
  <1>6. Met(walk, I, x)
    BY <1>1, <1>4, <1>5, MetAt
  <1>7. TablesFor(pos.attach, pos.id) = Held(x) /\ Single(Held(x))
    <2>1. pos.id \in EnteredBy(a)
      BY <1>4 DEF EnteredBy
    <2> QED
      BY <1>3, <1>4, <2>1, OneTable
  <1>8. /\ Behind(walk, I, n + 1) /\ n + 1 \in Nat
        /\ Way(walk)[n + 1] = Onward(x.id, x.attach, Dest(walk))
    BY <1>2, <1>5, <1>6, OneFurther
  <1>9. Held(x) = {} => Comes(walk, I, Lost)
    BY <1>8, Stuck DEF Comes
  <1>10. pos.id \notin Gateway => Held(x) = {}
    BY <1>1, <1>5, Snapshots DEF Held
  <1> HIDE DEF x, I
  <1>11. CASE pos.id \notin net.collected /\ Block({})
    BY <1>1, <1>9, <1>10, <1>11, GetsLost DEF I
  <1>12. CASE TablesFor(pos.attach, pos.id) = {} /\ Block({})
    BY <1>1, <1>7, <1>9, <1>12, GetsLost DEF I
  <1>13. ASSUME NEW g \in TablesFor(pos.attach, pos.id), Continue(AtGateway(g), {}), UNCHANGED inspected
         PROVE  Followed
    <2>1. Held(x) = {g}
      BY <1>7 DEF Single
    <2>2. Stands(walk, I, AtGateway(g), x)
      BY <1>5, <1>6, <2>1, StandsThere
    <2>3. Underway(walk, I, passed[walk] \cup {}, AtGateway(g))
      BY <1>2, <2>2 DEF Underway, Noted, Alike, AtGateway, At, x
    <2> QED
      BY <1>1, <1>13, <2>3, Proceeds DEF I
  <1> QED
    BY <1>11, <1>12, <1>13 DEF CrossPeering

(* Through an inspection VPC.                                               *)
LEMMA FollowsInspection ==
    ASSUME WalkInv, WayInv, Faithful, Inspect
    PROVE  Followed
  <1>1. /\ net \in Networks /\ walk \in Walks /\ walk # "done"
        /\ pos.at = "inspection" /\ pos.at # "subnet" /\ pos.at # "gateway" /\ pos.at # "peering"
    BY DEF WalkInv, Inspect, Walks, Subnet, At
  <1> DEFINE I == inspected[walk]
             J == inspected'[walk]
             after(b) == { g \in net.gateways : b.id \in g.assoc }
  <1>2. PICK n \in Nat :
           /\ Behind(walk, I, n) /\ Stands(walk, I, pos, Way(walk)[n])
           /\ Comparable => /\ Alike(passed[walk] \cup {pos.attach, pos.id},
                                     Log(walk, n) \cup {pos.attach, pos.id})
                            /\ Way(walk)[n].id \in passed[walk]
    BY <1>1 DEF WayInv, Underway, Noted
  <1> DEFINE x == Way(walk)[n]
  <1>3. PICK a \in Attachments :
           /\ a.id = pos.attach /\ a.kind = "vpc" /\ a.resource = pos.id
           /\ x = At("gateway", a.tgw, a.id)
    BY <1>1, <1>2 DEF Stands
  <1>4. PICK f \in FirewallsIn(pos.id), b \in Attachments :
          /\ b.id = pos.attach
          /\ inspected' = [inspected EXCEPT ![walk] = @ \cup {f.id}]
          /\ \/ Stops(f) /\ End("blocked", {pos.id})
             \/ /\ ~Stops(f)
                /\ \/ after(b) = {} /\ End("blocked", ThroughVPC(pos.id, b))
                   \/ \E g \in after(b) :
                         Continue(AtGateway(g), ThroughVPC(pos.id, b) \cup {b.id})
    BY DEF Inspect
  <1>5. b = a
    BY <1>1, <1>3, <1>4, Snapshots DEF Keyed
  <1>6. x.at = "gateway" /\ x.id = a.tgw /\ x.attach = a.id
    BY <1>3 DEF At
  <1>7. J = I \cup {f.id} /\ (\A w \in Walks : w # walk => inspected'[w] = inspected[w])
    BY <1>1, <1>4 DEF WalkInv
  <1>8. Behind(walk, J, n)
    BY <1>2, <1>7, MoreInspected
  <1>9. /\ Single(FirewallsIn(a.resource)) /\ \A g \in after(a) : g.tgw = a.tgw
    BY <1>3 DEF Faithful, FaithfulAttachments, Associated
  <1>10. after(a) = Held(x) /\ Single(Held(x))
    <2>1. Held(x) = { g \in net.gateways : g.tgw = a.tgw /\ a.id \in g.assoc }
      BY <1>6 DEF Held
    <2>2. Single(Held(x))
      BY <1>3, OneTable DEF EnteredBy
    <2> QED
      BY <1>9, <2>1, <2>2
  <1> HIDE DEF x, I, J, after
  <1>11. CASE Stops(f) /\ End("blocked", {pos.id})
    <2>1. Dropped(walk, x)
      BY <1>3, <1>4, <1>6, <1>11 DEF Dropped, Stops
    <2>2. Went(walk, J, passed'[walk], "blocked")
      BY <1>8, <2>1 DEF Went, x
    <2>3. DOMAIN passed' = Walks /\ \A w \in Walks : w # walk => passed'[w] = passed[w]
      BY <1>1, <1>11, Passes DEF WayInv, End
    <2> QED
      BY <1>1, <1>7, <1>11, <2>2, <2>3 DEF Followed, End, J
  <1>12. CASE ~Stops(f)
    <2>1. Met(walk, J, x)
      <3>1. \A e \in FirewallsIn(a.resource) : e = f
        BY <1>3, <1>4, <1>9 DEF Single
      <3>2. \A e \in FirewallsIn(a.resource) : e.id \in J /\ Allowed(walk, e)
        BY <1>7, <1>12, <3>1 DEF Stops, Allowed
      <3> QED
        BY <1>1, <1>6, <3>2, MetAt
    <2>2. CASE after(a) = {} /\ End("blocked", ThroughVPC(pos.id, a))
      <3>1. Onward(x.id, x.attach, Dest(walk)) = Lost
        BY <1>10, <2>2, Stuck
      <3>2. Comes(walk, J, Lost)
        BY <1>6, <1>8, <2>1, <3>1, OneFurther DEF Comes, x
      <3>3. Went(walk, J, passed'[walk], "blocked")
        BY <3>2 DEF Went
      <3>4. DOMAIN passed' = Walks /\ \A w \in Walks : w # walk => passed'[w] = passed[w]
        BY <1>1, <2>2, Passes DEF WayInv, End
      <3> QED
        BY <1>1, <1>7, <2>2, <3>3, <3>4 DEF Followed, End, J
    <2>3. ASSUME NEW g \in after(a), Continue(AtGateway(g), ThroughVPC(pos.id, a) \cup {a.id})
          PROVE  Followed
      <3>1. Held(x) = {g}
        BY <1>10 DEF Single
      <3>2. Stands(walk, J, AtGateway(g), x)
        BY <1>6, <2>1, <3>1, StandsThere
      <3>3. pos' = AtGateway(g) /\ UNCHANGED << net, walk, verdict >>
        BY <2>3 DEF Continue
      <3>4. /\ DOMAIN passed' = Walks /\ \A w \in Walks : w # walk => passed'[w] = passed[w]
            /\ passed'[walk] = passed[walk] \cup (ThroughVPC(pos.id, a) \cup {a.id})
        BY <1>1, <2>3, Passes DEF WayInv, Continue
      <3>5. ASSUME Comparable
            PROVE  Alike(passed'[walk], Log(walk, n + 1))
        <4>1. Marks(x) = {a.tgw, a.id} \cup { e.vpc : e \in FirewallsIn(a.resource) }
          BY <1>1, <1>3, <1>6, MarksOf
        <4>2. { e.vpc : e \in FirewallsIn(a.resource) } = {pos.id}
          BY <1>3, <1>4 DEF FirewallsIn
        <4>3. Log(walk, n + 1) = Log(walk, n) \cup Marks(x)
          BY LogGrows DEF x
        <4>4. /\ Alike(passed[walk] \cup {a.id, pos.id}, Log(walk, n) \cup {a.id, pos.id})
              /\ a.tgw \in passed[walk]
          BY <1>2, <1>3, <1>6, <3>5 DEF x
        <4>5. ThroughVPC(pos.id, a) \subseteq {pos.id, a.tgw} /\ pos.id \in ThroughVPC(pos.id, a)
          BY DEF ThroughVPC
        <4>6. passed'[walk] = (passed[walk] \cup {a.id, pos.id}) \cup {a.tgw}
          BY <3>4, <4>4, <4>5
        <4>7. Log(walk, n + 1) = (Log(walk, n) \cup {a.id, pos.id}) \cup {a.tgw}
          BY <4>1, <4>2, <4>3
        <4> QED
          BY <4>4, <4>6, <4>7 DEF Alike
      <3>6. Underway(walk, J, passed'[walk], AtGateway(g))
        BY <1>8, <3>2, <3>5 DEF Underway, Noted, AtGateway, At, x
      <3> QED
        BY <1>1, <1>7, <3>3, <3>4, <3>6 DEF Followed, J
    <2> QED
      BY <1>4, <1>5, <1>12, <2>2, <2>3
  <1> QED
    BY <1>4, <1>11, <1>12

LEMMA EveryStepFollows ==
    ASSUME WalkInv, WayInv, Faithful, Next
    PROVE  Followed
  BY FollowsInVPC, FollowsToGateway, FollowsThroughGateway, FollowsPeering, FollowsInspection
     DEF Next

LEMMA WayInvInit ==
    ASSUME Init
    PROVE  WayInv
  <1>1. /\ pos.at = "subnet" /\ walk = "forward" /\ DOMAIN passed = Walks
        /\ \A w \in Walks : verdict[w] = "none" /\ inspected[w] = {} /\ passed[w] = {}
    BY DEF Init, Subnet, At
  <1>2. ToWalk \subseteq Walks
    BY DEF ToWalk, Walks
  <1> QED
    BY <1>1, <1>2 DEF WayInv, Underway, Went, Walks

LEMMA WayInvStep ==
    ASSUME WalkInv, WayInv, Faithful, [Next]_vars
    PROVE  WayInv'
  <1>1. CASE UNCHANGED vars
    <2>1. UNCHANGED << net, walk, pos, passed, inspected, verdict >>
      BY <1>1 DEF vars
    <2>2. /\ \A w, I, P, p : Underway(w, I, P, p)' <=> Underway(w, I, P, p)
          /\ \A w, I, P, v : Went(w, I, P, v)' <=> Went(w, I, P, v)
      BY <2>1, SameNetwork
    <2> QED
      BY <2>1, <2>2 DEF WayInv, ToWalk
  <1>2. CASE Next
    <2>1. Followed
      BY <1>2, EveryStepFollows
    <2>2. /\ \A w, I, P, p : Underway(w, I, P, p)' <=> Underway(w, I, P, p)
          /\ \A w, I, P, v : Went(w, I, P, v)' <=> Went(w, I, P, v)
      BY <2>1, SameNetwork DEF Followed
    <2>3. /\ walk \in Walks /\ verdict \in [Walks -> {"none", "pass", "blocked", "abstain"}]
          /\ walk \in ToWalk /\ ToWalk \subseteq Walks
          /\ DOMAIN passed' = Walks
          /\ \A w \in Walks : w # walk => inspected'[w] = inspected[w] /\ passed'[w] = passed[w]
      BY <2>1 DEF WalkInv, Followed, ToWalk, Walks
    <2>4. CASE UNCHANGED << walk, verdict >> /\ Underway(walk, inspected'[walk], passed'[walk], pos')
      <3>1. Went(walk, inspected'[walk], passed'[walk], "none")
        BY DEF Went
      <3>2. verdict[walk] = "none"
        BY <2>3 DEF WayInv
      <3>3. \A w \in Walks : Went(w, inspected'[w], passed'[w], verdict[w])
        BY <2>3, <3>1, <3>2 DEF WayInv
      <3>4. ToWalk' = ToWalk
        BY <2>4 DEF ToWalk
      <3>5. net' = net
        BY <2>1 DEF Followed
      <3>6. \A w \in ToWalk' : verdict'[w] = "none" /\ (w # walk' => passed'[w] = {})
        BY <2>3, <2>4, <3>4 DEF WayInv
      <3>7. walk' = "return" \/ verdict'["return"] # "none" =>
               verdict'["forward"] = "pass" /\ net'.home["dst"] # None
        BY <2>4, <3>5 DEF WayInv
      <3> QED
        BY <2>2, <2>3, <2>4, <3>3, <3>6, <3>7 DEF WayInv
    <2>5. ASSUME NEW v \in {"pass", "blocked", "abstain"},
                 pos' = Subnet, walk' = NextWalk(v), verdict' = [verdict EXCEPT ![walk] = v],
                 Went(walk, inspected'[walk], passed'[walk], v)
          PROVE  WayInv'
      <3>1. verdict'[walk] = v /\ \A w \in Walks : w # walk => verdict'[w] = verdict[w]
        BY <2>3, <2>5
      <3>2. \A w \in Walks : Went(w, inspected'[w], passed'[w], verdict'[w])
        BY <2>3, <2>5, <3>1 DEF WayInv
      <3>3. ToWalk' \subseteq ToWalk \ {walk}
        <4>1. /\ walk = "forward" => walk' \in {"return", "again"}
              /\ walk = "return" => walk' = "again"
              /\ walk = "again" => walk' = "done"
          BY <2>3, <2>5 DEF NextWalk, Walks
        <4> QED
          BY <2>3, <4>1 DEF ToWalk, Walks
      <3>4. \A w \in ToWalk' : verdict'[w] = "none" /\ passed'[w] = {}
        BY <2>3, <3>1, <3>3 DEF WayInv
      <3>5. pos'.at = "subnet" /\ (walk' # "done" => walk' \in ToWalk')
        BY <2>3, <2>5 DEF Subnet, At, NextWalk, ToWalk, Walks
      <3>6. walk' # "done" => Underway(walk', inspected'[walk'], passed'[walk'], pos')
        BY <3>4, <3>5 DEF Underway
      <3>7. walk' = "return" \/ verdict'["return"] # "none" =>
               verdict'["forward"] = "pass" /\ net'.home["dst"] # None
        <4>1. net' = net
          BY <2>1 DEF Followed
        <4>2. CASE walk = "forward"
          <5>1. verdict'["forward"] = v /\ verdict'["return"] = "none"
            BY <2>3, <3>1, <4>2 DEF WayInv, ToWalk, Walks
          <5>2. walk' = "return" => v = "pass" /\ net.home["dst"] # None
            BY <2>5, <4>2 DEF NextWalk, DestKnown, DestVPC, Dest
          <5> QED
            BY <4>1, <5>1, <5>2
        <4>3. CASE walk = "return"
          BY <2>3, <3>1, <4>1, <4>3 DEF WayInv, Walks
        <4>4. CASE walk = "again"
          <5>1. /\ walk' = "done" /\ verdict'["return"] = verdict["return"]
                /\ verdict'["forward"] = verdict["forward"]
            BY <2>5, <3>1, <4>4 DEF NextWalk, Walks
          <5> QED
            BY <4>1, <5>1 DEF WayInv
        <4> QED
          BY <2>3, <4>2, <4>3, <4>4 DEF Walks
      <3> QED
        BY <2>2, <2>3, <3>2, <3>4, <3>6, <3>7 DEF WayInv
    <2> QED
      BY <2>1, <2>4, <2>5 DEF Followed
  <1> QED
    BY <1>1, <1>2

(* The verdicts of such a walk, and the policies on its way.                *)
LEMMA VerdictIsOfTheWay ==
    ASSUME net \in Networks, Faithful, NEW w \in Walks, WayInv
    PROVE  /\ verdict[w] \in {"pass", "abstain"} => Delivered(Source(w), Dest(w))
           /\ verdict[w] = "blocked" /\ net.collected = Gateway =>
                 \/ ~Delivered(Source(w), Dest(w)) \/ OtherWay(Source(w), Dest(w))
                 \/ w # "return" /\ \E f \in Meets(Source(w), Dest(w)) : f.verdict # "pass"
  <1> DEFINE from == Source(w)
             to == Dest(w)
             I == inspected[w]
  <1>1. Went(w, I, passed[w], verdict[w])
    BY DEF WayInv
  <1>2. Way(w) = Trail(from, to)
    BY DEF Way
  <1>3. from \in TwoEndpoints
    BY DEF Source, TwoEndpoints
  <1> HIDE DEF from, to, I
  <1>4. ASSUME verdict[w] \in {"pass", "abstain"}
        PROVE  Delivered(from, to)
    BY <1>1, <1>2, <1>4, ArrivesInTime DEF Went, Reports
  <1>5. ASSUME verdict[w] = "blocked", net.collected = Gateway
        PROVE  \/ ~Delivered(from, to) \/ OtherWay(from, to)
               \/ w # "return" /\ \E f \in Meets(from, to) : f.verdict # "pass"
    <2>1. CASE Comes(w, I, Lost)
      <3>1. PICK n \in Nat : Behind(w, I, n) /\ Trail(from, to)[n] = Lost
        BY <1>2, <2>1 DEF Comes
      <3>2. \A m \in Nat : m < n => Trail(from, to)[m].at = "gateway"
        BY <1>2, <3>1 DEF Behind
      <3> QED
        BY <3>1, <3>2, LostIsLost
    <2>2. CASE \E n \in Nat : Behind(w, I, n) /\ Dropped(w, Way(w)[n])
      <3>1. PICK n \in Nat : Behind(w, I, n) /\ Dropped(w, Trail(from, to)[n])
        BY <1>2, <2>2
      <3>2. w # "return"
        BY <3>1 DEF Dropped
      <3>3. PICK a \in Attachments :
               /\ a.id = Trail(from, to)[n].attach /\ a.kind = "vpc"
               /\ \E f \in FirewallsIn(a.resource) : f.verdict # "pass"
        BY <3>1 DEF Dropped
      <3>4. PICK f \in FirewallsIn(a.resource) : f.verdict # "pass"
        BY <3>3
      <3>5. Len(net.attached) \in Nat
        BY FewEntryPoints
      <3>6. CASE n <= 2 * Len(net.attached)
        <4>1. Trail(from, to)[n] \in Journey(from, to)
          BY <3>5, <3>6 DEF Journey
        <4>2. f \in net.firewalls /\ f.vpc = a.resource
          BY DEF FirewallsIn
        <4>3. f.vpc # net.home[from]
          BY <1>3, <3>4, <4>2 DEF Faithful, FaithfulSubnets, TwoEndpoints
        <4>4. f \in Meets(from, to)
          BY <3>3, <4>1, <4>2, <4>3 DEF Meets
        <4> QED
          BY <3>2, <3>4, <4>4
      <3>7. CASE n > 2 * Len(net.attached)
        <4>1. \A m \in 0 .. 2 * Len(net.attached) : m \in Nat /\ m < n
          BY <3>5, <3>7
        <4>2. \A m \in Nat : m < n => Trail(from, to)[m].at = "gateway"
          BY <1>2, <3>1 DEF Behind
        <4>3. \A m \in 0 .. 2 * Len(net.attached) : Trail(from, to)[m] # Arrived
          BY <4>1, <4>2 DEF Arrived, At
        <4> QED
          BY <4>3 DEF Delivered, Journey
      <3> QED
        BY <3>5, <3>6, <3>7
    <2> QED
      BY <1>1, <1>5, <2>1, <2>2 DEF Went, from, to
  <1> QED
    BY <1>4, <1>5 DEF from, to

(* A packet that arrives did not leave by a firewall's endpoint.            *)
LEMMA NoEndpoints ==
    ASSUME net \in Networks, Faithful, NEW from \in TwoEndpoints, NEW to \in TwoEndpoints, from # to,
           NEW n \in Nat, Trail(from, to)[n] = Arrived
    PROVE  \A r \in Leaves(from, to) : r.kind # "endpoint"
  <1>1. Lost.at # "gateway" /\ Arrived # Lost
    BY DEF Arrived, Lost, At
  <1>2. Start(from, to) # Lost
    <2>1. SUFFICES ASSUME Trail(from, to)[0] = Lost
                   PROVE  FALSE
      BY TrailIs
    <2>2. Trail(from, to)[n] = Lost
      BY <1>1, <2>1, Stays
    <2> QED
      BY <1>1, <2>2
  <1>3. ~ \A q \in Leaves(from, to) : q.dead
    BY <1>2, Starts
  <1>4. \A r \in Leaves(from, to) : ~r.dead
    BY <1>3, FromSubnet DEF Single
  <1> QED
    BY <1>4, FromSubnet

LEMMA PoliciesWereMet ==
    ASSUME net \in Networks, Faithful, NEW w \in Walks, WayInv, verdict[w] = "pass",
           NEW f \in Meets(Source(w), Dest(w))
    PROVE  w # "return" /\ f.id \in inspected[w] /\ (net.skipFirewall \/ f.verdict = "pass")
  <1> DEFINE from == Source(w)
             to == Dest(w)
             I == inspected[w]
  <1>1. Went(w, I, passed[w], "pass")
    BY DEF WayInv
  <1>2. Way(w) = Trail(from, to)
    BY DEF Way
  <1>3. from \in TwoEndpoints /\ to \in TwoEndpoints /\ from # to
    BY DEF Source, Dest, TwoEndpoints
  <1> HIDE DEF from, to, I
  <1>4. PICK n \in Nat : Behind(w, I, n) /\ Trail(from, to)[n] = Arrived
    BY <1>1, <1>2 DEF Went, Reports
  <1>5. Arrived.at # "gateway" /\ Arrived.attach = None /\ Lost.at # "gateway" /\ Arrived # Lost
    BY DEF Arrived, Lost, At
  <1>6. \A r \in Leaves(from, to) : r.kind # "endpoint"
    BY <1>3, <1>4, NoEndpoints
  <1>7. PICK p \in Journey(from, to), a \in Attachments :
           p.attach = a.id /\ a.kind = "vpc" /\ a.resource = f.vpc /\ f \in net.firewalls
    BY <1>6 DEF Meets, from, to
  <1>8. a.id # None
    BY DEF Faithful, FaithfulAttachments
  <1>9. PICK m \in Nat : p = Trail(from, to)[m]
    <2>1. \A m \in 0 .. 2 * Len(net.attached) : m \in Nat
      BY FewEntryPoints
    <2> QED
      BY <1>7, <2>1 DEF Journey
  <1>10. m < n
    <2>1. SUFFICES ASSUME m >= n
                   PROVE  FALSE
      OBVIOUS
    <2>2. p = Arrived
      BY <1>4, <1>5, <1>9, <2>1, Stays
    <2> QED
      BY <1>5, <1>7, <1>8, <2>2
  <1>11. Met(w, I, p)
    BY <1>2, <1>4, <1>9, <1>10 DEF Behind
  <1>12. f \in FirewallsIn(a.resource)
    BY <1>7 DEF FirewallsIn
  <1>13. f.id \in I /\ (w # "return" => net.skipFirewall \/ f.verdict = "pass")
    BY <1>7, <1>11, <1>12 DEF Met, Allowed
  <1>14. w # "return"
    BY <1>1, <1>13 DEF Went
  <1> QED
    BY <1>13, <1>14 DEF I

-----------------------------------------------------------------------------
(* What two directions pass, by the names the walk gives and by what it is. *)

LEMMA StartEnters ==
    ASSUME net \in Networks, NEW from, NEW to, Start(from, to).at = "gateway"
    PROVE  \E a \in Attachments : /\ a.kind = "vpc" /\ Start(from, to).attach = a.id
                                  /\ Start(from, to).id = a.tgw
  <1> DEFINE route == Leaves(from, to)
             entry(r) == VPCAttachment(net.home[from], r.target)
             c == CHOOSE a \in Attachments : \E r \in route : a \in entry(r)
  <1>1. Start(from, to) =
             IF \A r \in route : r.dead THEN Lost
             ELSE IF \E r \in route : r.kind \in {"local", "endpoint"} \/ IsDirect(r) THEN Arrived
             ELSE IF \E r \in route : r.kind = "gateway" /\ entry(r) # {}
             THEN At("gateway", c.tgw, c.id)
             ELSE Lost
    BY DEF Start
  <1>2. \A r \in route : \A a \in entry(r) : a \in Attachments /\ a.kind = "vpc"
    BY OneAttachment
  <1> HIDE DEF route, entry
  <1>3. (\E r \in route : entry(r) # {}) => c \in Attachments /\ c.kind = "vpc"
    <2>1. SUFFICES ASSUME \E r \in route : entry(r) # {}
                   PROVE  c \in Attachments /\ \E r \in route : c \in entry(r)
      BY <1>2
    <2>2. \E a \in Attachments : \E r \in route : a \in entry(r)
      BY <1>2, <2>1
    <2> QED
      BY <2>2
  <1> HIDE DEF c
  <1> QED
    BY <1>1, <1>3 DEF At, Lost, Arrived

LEMMA OnwardEnters ==
    ASSUME net \in Networks, NEW tgw, NEW attach, NEW to \in TwoEndpoints, Onward(tgw, attach, to).at = "gateway"
    PROVE  \E a \in Attachments : /\ Onward(tgw, attach, to).attach = a.id
                                  /\ Onward(tgw, attach, to).id \in EnteredBy(a)
  <1> DEFINE routes == UNION { RealRoute(g.routes, to) :
                              g \in { g \in net.gateways : g.tgw = tgw /\ attach \in g.assoc } }
             leaves == { a \in Attachments : \E r \in routes : ~r.dead /\ a.id = r.out }
             c == CHOOSE a \in leaves : TRUE
  <1>1. Onward(tgw, attach, to) =
             IF leaves = {} THEN Lost
             ELSE IF c.kind = "peering"
             THEN At("gateway", IF c.tgw = tgw THEN c.resource ELSE c.tgw, c.id)
             ELSE IF c.kind = "vpn"
             THEN IF net.home[to] = "external" THEN Arrived ELSE Lost
             ELSE IF c.resource # net.home[to] /\ FirewallsIn(c.resource) # {}
             THEN At("gateway", c.tgw, c.id)
             ELSE IF net.home[to] \in {c.resource, None} THEN Arrived ELSE Lost
    BY DEF Onward
  <1>2. leaves # {} => c \in Attachments
    OBVIOUS
  <1> HIDE DEF c, leaves, routes
  <1>3. Lost.at # "gateway" /\ Arrived.at # "gateway"
    BY DEF Lost, Arrived, At
  <1>4. c \in Attachments /\ c.kind \in {"vpc", "peering", "vpn"}
    BY <1>1, <1>2, <1>3, Snapshots DEF Attachment
  <1>5. CASE c.kind = "peering"
    <2>1. Onward(tgw, attach, to) = At("gateway", IF c.tgw = tgw THEN c.resource ELSE c.tgw, c.id)
      BY <1>1, <1>3, <1>5
    <2> QED
      BY <1>4, <1>5, <2>1 DEF At, EnteredBy
  <1>6. CASE c.kind = "vpc"
    <2>1. Onward(tgw, attach, to) = At("gateway", c.tgw, c.id)
      BY <1>1, <1>3, <1>6
    <2> QED
      BY <1>4, <1>6, <2>1 DEF At, EnteredBy
  <1>7. c.kind # "vpn"
    BY <1>1, <1>3
  <1> QED
    BY <1>4, <1>5, <1>6, <1>7

(* The attachment a packet comes into a gateway by opens onto it.           *)
LEMMA Enters ==
    ASSUME net \in Networks, Faithful, NEW from, NEW to \in TwoEndpoints,
           NEW n \in Nat, Trail(from, to)[n].at = "gateway"
    PROVE  \E a \in Attachments : /\ Trail(from, to)[n].attach = a.id
                                  /\ Trail(from, to)[n].id \in EnteredBy(a)
                                  /\ n = 0 => a.kind = "vpc"
  <1> DEFINE x == Trail(from, to)[n]
  <1>1. CASE n = 0
    <2>1. x = Start(from, to)
      BY <1>1, TrailIs
    <2>2. PICK a \in Attachments : a.kind = "vpc" /\ x.attach = a.id /\ x.id = a.tgw
      BY <2>1, StartEnters
    <2> QED
      BY <2>2 DEF EnteredBy
  <1>2. CASE n # 0
    <2>1. n - 1 \in Nat /\ (n - 1) + 1 = n
      BY <1>2
    <2> DEFINE y == Trail(from, to)[n - 1]
    <2>2. y.at = "gateway"
      BY <2>1, Stays
    <2>3. x = Onward(y.id, y.attach, to)
      <3>1. Trail(from, to)[(n - 1) + 1] = Move(y, to)
        BY <2>1, TrailIs
      <3> QED
        BY <2>1, <2>2, <3>1 DEF Move
    <2> HIDE DEF x, y
    <2>4. x.at = "gateway"
      BY DEF x
    <2> QED
      BY <1>2, <2>3, <2>4, OnwardEnters DEF x
  <1> QED
    BY <1>1, <1>2

(* From one gateway to the next the packet goes by way of a VPC, and comes  *)
(* back, or over the peering.                                               *)
LEMMA Continues ==
    ASSUME net \in Networks, Faithful, NamedAlike, NEW from, NEW to \in TwoEndpoints,
           NEW n \in Nat, Trail(from, to)[n].at = "gateway", Trail(from, to)[n + 1] # Lost
    PROVE  /\ Trail(from, to)[n].id \in Gateway
           /\ Trail(from, to)[n + 1].at = "gateway" =>
                 \E a \in Attachments :
                    /\ Trail(from, to)[n + 1].attach = a.id
                    /\ \/ a.kind = "vpc" /\ Trail(from, to)[n + 1].id = Trail(from, to)[n].id
                       \/ /\ a \in PeeringsBetweenGateways
                          /\ Trail(from, to)[n + 1].id # Trail(from, to)[n].id
  <1> DEFINE x == Trail(from, to)[n]
             y == Trail(from, to)[n + 1]
  <1>1. PICK c \in Attachments : x.attach = c.id /\ x.id \in EnteredBy(c)
    BY Enters
  <1>2. y = Onward(x.id, x.attach, to)
    BY TrailIs DEF Move
  <1>3. Single(Held(x))
    <2>1. Held(At("gateway", x.id, c.id)) = Held(x)
      BY <1>1 DEF Held, At
    <2> QED
      BY <1>1, <2>1, OneTable
  <1> HIDE DEF x, y
  <1>4. Held(x) # {}
    <2>1. Held(x) = {} => y = Lost
      BY <1>2, Stuck
    <2> QED
      BY <2>1 DEF y
  <1>5. PICK g : Held(x) = {g}
    BY <1>3, <1>4 DEF Single
  <1>6. g \in net.gateways /\ g.tgw = x.id /\ x.id \in Gateway
    BY <1>5, Snapshots DEF Held
  <1>7. ASSUME y.at = "gateway"
        PROVE  \E a \in Attachments :
                    /\ y.attach = a.id
                    /\ \/ a.kind = "vpc" /\ y.id = x.id
                       \/ a \in PeeringsBetweenGateways /\ y.id # x.id
    <2>1. y # Lost /\ y # Arrived
      BY <1>7 DEF Lost, Arrived, At
    <2>2. PICK r \in RealRoute(g.routes, to) : ~r.dead
      BY <1>2, <1>5, <2>1, FromGateway
    <2>3. PICK a \in Attachments : a.id = r.out
      BY <1>2, <1>5, <2>1, <2>2, FromGateway
    <2>4. y = IF a.kind = "peering"
              THEN At("gateway", IF a.tgw = g.tgw THEN a.resource ELSE a.tgw, a.id)
              ELSE IF a.kind = "vpn" THEN Lost
              ELSE IF a.resource # net.home[to] /\ FirewallsIn(a.resource) # {}
              THEN At("gateway", a.tgw, a.id)
              ELSE IF net.home[to] \in {a.resource, None} THEN Arrived ELSE Lost
      <3>1. \A q \in RealRoute(g.routes, to) : ~q.dead => \A b \in Attachments : b.id = q.out =>
               Onward(x.id, x.attach, to) =
                  IF b.kind = "peering"
                  THEN At("gateway", IF b.tgw = g.tgw THEN b.resource ELSE b.tgw, b.id)
                  ELSE IF b.kind = "vpn" THEN Lost
                  ELSE IF b.resource # net.home[to] /\ FirewallsIn(b.resource) # {}
                  THEN At("gateway", b.tgw, b.id)
                  ELSE IF net.home[to] \in {b.resource, None} THEN Arrived ELSE Lost
        BY <1>5, FromGateway
      <3> QED
        BY <1>2, <2>2, <2>3, <3>1
    <2>5. a.kind # "vpn" /\ a.kind \in {"vpc", "peering", "vpn"}
      BY <2>1, <2>3, <2>4, Snapshots DEF Attachment
    <2>6. /\ a.kind = "vpc" => a.tgw = g.tgw
          /\ a.kind = "peering" => a \in PeeringsBetweenGateways
      BY <1>6, <2>2, <2>3, <2>5 DEF NamedAlike, TwoEndpoints
    <2>7. CASE a.kind = "vpc"
      <3>1. y = At("gateway", a.tgw, a.id)
        BY <2>1, <2>4, <2>7
      <3> QED
        BY <1>6, <2>6, <2>7, <3>1 DEF At
    <2>8. CASE a.kind = "peering"
      <3>1. y.attach = a.id /\ y.id = IF a.tgw = g.tgw THEN a.resource ELSE a.tgw
        BY <2>4, <2>8 DEF At
      <3>2. a.resource # a.tgw
        BY <2>6, <2>8 DEF NamedAlike
      <3> QED
        BY <1>6, <2>6, <2>8, <3>1, <3>2
    <2> QED
      BY <2>5, <2>7, <2>8
  <1> QED
    BY <1>6, <1>7 DEF x, y

(* A packet that arrives has been at the places before, and no others.      *)
LEMMA Itinerary ==
    ASSUME net \in Networks, NEW from, NEW to, NEW n \in Nat, Trail(from, to)[n] = Arrived,
           \A m \in Nat : m < n => Trail(from, to)[m].at = "gateway"
    PROVE  Journey(from, to) = { Trail(from, to)[m] : m \in { m \in Nat : m < n } } \cup {Arrived}
  <1>1. Arrived.at # "gateway" /\ Len(net.attached) \in Nat
    BY FewEntryPoints DEF Arrived, At
  <1>2. PICK k \in 0 .. 2 * Len(net.attached) : Trail(from, to)[k] = Arrived
    BY ArrivesInTime DEF Delivered, Journey
  <1>3. k \in Nat /\ k >= n
    BY <1>1, <1>2
  <1>4. n \in 0 .. 2 * Len(net.attached) /\ \A m \in Nat : m < n => m \in 0 .. 2 * Len(net.attached)
    BY <1>1, <1>2, <1>3
  <1>5. \A m \in Nat : m >= n => Trail(from, to)[m] = Arrived
    BY <1>1, Stays
  <1>6. \A m \in 0 .. 2 * Len(net.attached) : m \in Nat /\ (m < n \/ m >= n)
    BY <1>1
  <1> QED
    BY <1>4, <1>5, <1>6 DEF Journey

(* The places on a way that has n of them, and what it passed there.        *)
Stations(w, n) == { Way(w)[m] : m \in { m \in Nat : m < n } }

Gates(w, n) == { x.id : x \in Stations(w, n) }

Via(w, n, kind) == { a \in Attachments : a.kind = kind /\ \E x \in Stations(w, n) : x.attach = a.id }

Guards(w, n) == { f \in net.firewalls : \E a \in Via(w, n, "vpc") : a.resource = f.vpc }

Links(w, n) == { a.id : a \in Via(w, n, "vpc") } \cup LastLink(w, n)

Crossed(w, n) == { a.id : a \in Via(w, n, "peering") }

(* All of a packet's way that arrives.                                      *)
Completes(w, n) == /\ Way(w)[n] = Arrived
                   /\ \A m \in Nat : m < n => Way(w)[m].at = "gateway"

LEMMA WalkNotes ==
    ASSUME NEW w, NEW n
    PROVE  Log(w, n) \cup LastLink(w, n) = Gates(w, n) \cup Links(w, n) \cup { f.vpc : f \in Guards(w, n) }
  <1>1. Log(w, n) = UNION { Marks(x) : x \in Stations(w, n) }
    BY DEF Log, Stations
  <1>2. \A x : Marks(x) = {x.id} \cup { a.id : a \in { a \in Attachments : a.id = x.attach /\ a.kind = "vpc" } }
                          \cup { f.vpc : f \in { f \in net.firewalls :
                                   \E a \in Attachments : a.id = x.attach /\ a.kind = "vpc" /\ a.resource = f.vpc } }
    BY DEF Marks, FirewallsIn
  <1>3. ASSUME NEW k
        PROVE  k \in Log(w, n) <=>
                  \/ k \in Gates(w, n)
                  \/ k \in { a.id : a \in Via(w, n, "vpc") }
                  \/ k \in { f.vpc : f \in Guards(w, n) }
    <2>1. k \in Log(w, n) <=> \E x \in Stations(w, n) : k \in Marks(x)
      BY <1>1
    <2>2. \A x : k \in Marks(x) <=>
             \/ k = x.id
             \/ \E a \in Attachments : a.id = x.attach /\ a.kind = "vpc" /\ k = a.id
             \/ \E f \in net.firewalls : /\ k = f.vpc
                                         /\ \E a \in Attachments :
                                              a.id = x.attach /\ a.kind = "vpc" /\ a.resource = f.vpc
      BY <1>2
    <2>3. k \in Gates(w, n) <=> \E x \in Stations(w, n) : k = x.id
      BY DEF Gates
    <2>4. k \in { a.id : a \in Via(w, n, "vpc") } <=>
             \E x \in Stations(w, n), a \in Attachments : a.id = x.attach /\ a.kind = "vpc" /\ k = a.id
      BY DEF Via
    <2>5. k \in { f.vpc : f \in Guards(w, n) } <=>
             \E x \in Stations(w, n), f \in net.firewalls :
                /\ k = f.vpc
                /\ \E a \in Attachments : a.id = x.attach /\ a.kind = "vpc" /\ a.resource = f.vpc
      BY DEF Guards, Via
    <2> QED
      BY <2>1, <2>2, <2>3, <2>4, <2>5
  <1> QED
    BY <1>3 DEF Links

LEMMA PlacesOnTheWay ==
    ASSUME net \in Networks, Faithful, NEW w \in Walks, NEW n \in Nat, Completes(w, n)
    PROVE  /\ Journey(Source(w), Dest(w)) = Stations(w, n) \cup {Arrived}
           /\ \A x \in Stations(w, n) :
                 /\ x.at = "gateway"
                 /\ \E a \in Via(w, n, "vpc") \cup Via(w, n, "peering") : a.id = x.attach
           /\ { a.id : a \in UNION { VPCLinks(net.home[Dest(w)], p.id) :
                          p \in { p \in Stations(w, n) : Delivers(p, Dest(w)) } } } = LastLink(w, n)
           /\ \A r \in Leaves(Source(w), Dest(w)) : r.kind # "endpoint"
  <1> DEFINE from == Source(w)
             to == Dest(w)
  <1>1. from \in TwoEndpoints /\ to \in TwoEndpoints /\ from # to
    BY DEF Source, Dest, TwoEndpoints
  <1>2. Way(w) = Trail(from, to)
    BY DEF Way
  <1> HIDE DEF from, to
  <1>3. Journey(from, to) = Stations(w, n) \cup {Arrived}
    BY <1>2, Itinerary DEF Completes, Stations
  <1>4. ASSUME NEW x \in Stations(w, n)
        PROVE  /\ x.at = "gateway"
               /\ \E a \in Via(w, n, "vpc") \cup Via(w, n, "peering") : a.id = x.attach
    <2>1. PICK m \in Nat : m < n /\ x = Way(w)[m]
      BY DEF Stations
    <2>2. x.at = "gateway"
      BY <2>1 DEF Completes
    <2>3. PICK a \in Attachments : x.attach = a.id /\ x.id \in EnteredBy(a)
      BY <1>1, <1>2, <2>1, <2>2, Enters
    <2>4. a.kind \in {"vpc", "peering"}
      BY <2>3 DEF EnteredBy
    <2> QED
      BY <2>2, <2>3, <2>4 DEF Via
  <1>5. { p \in Stations(w, n) : Delivers(p, to) } = { Way(w)[m] : m \in { m \in Nat : m + 1 = n } }
    <2>1. Arrived.at # "gateway"
      BY DEF Arrived, At
    <2>2. ASSUME NEW m \in Nat, m < n
          PROVE  Delivers(Way(w)[m], to) <=> m + 1 = n
      <3>1. Way(w)[m].at = "gateway"
        BY <2>2 DEF Completes
      <3>2. Way(w)[m + 1] = Onward(Way(w)[m].id, Way(w)[m].attach, to)
        BY <1>2, <3>1, TrailIs DEF Move
      <3>3. m + 1 \in Nat /\ (m + 1 # n => m + 1 < n)
        BY <2>2
      <3>4. m + 1 # n => Way(w)[m + 1] # Arrived
        BY <2>1, <3>3 DEF Completes
      <3> QED
        BY <3>1, <3>2, <3>4 DEF Completes, Delivers
    <2>3. \A m \in Nat : m + 1 = n => m < n
      OBVIOUS
    <2> QED
      BY <2>2, <2>3 DEF Stations
  <1>6. { a.id : a \in UNION { VPCLinks(net.home[to], p.id) :
                          p \in { p \in Stations(w, n) : Delivers(p, to) } } } = LastLink(w, n)
    <2> DEFINE last(m) == VPCLinks(net.home[to], Way(w)[m].id)
               ends == { m \in Nat : m + 1 = n }
    <2>1. UNION { VPCLinks(net.home[to], p.id) : p \in { p \in Stations(w, n) : Delivers(p, to) } }
             = UNION { last(m) : m \in ends }
      BY <1>5
    <2>2. LastLink(w, n) = UNION { { a.id : a \in last(m) } : m \in ends }
      BY DEF LastLink, to
    <2> HIDE DEF last, ends
    <2> QED
      BY <2>1, <2>2
  <1>7. \A r \in Leaves(from, to) : r.kind # "endpoint"
    BY <1>1, <1>2, NoEndpoints DEF Completes
  <1> QED
    BY <1>3, <1>4, <1>6, <1>7 DEF from, to

LEMMA PacketPasses ==
    ASSUME net \in Networks, Faithful, NEW w \in Walks, NEW n \in Nat, Completes(w, n)
    PROVE  Components(Source(w), Dest(w)) =
              Gates(w, n) \cup Links(w, n) \cup Crossed(w, n) \cup { f.id : f \in Guards(w, n) }
  <1> DEFINE from == Source(w)
             to == Dest(w)
  <1>1. Journey(from, to) = Stations(w, n) \cup {Arrived}
    BY PlacesOnTheWay
  <1>2. Arrived.at # "gateway" /\ Arrived.attach = None
    BY DEF Arrived, At
  <1>3. { p \in Journey(from, to) : p.at = "gateway" } = Stations(w, n)
    BY <1>1, <1>2, PlacesOnTheWay
  <1>4. UNION { {p.id, p.attach} : p \in Stations(w, n) }
           = Gates(w, n) \cup { a.id : a \in Via(w, n, "vpc") } \cup Crossed(w, n)
    <2>1. \A x \in Stations(w, n) :
             \E a \in Via(w, n, "vpc") \cup Via(w, n, "peering") : a.id = x.attach
      BY PlacesOnTheWay
    <2>2. \A a \in Via(w, n, "vpc") \cup Via(w, n, "peering") :
             \E x \in Stations(w, n) : x.attach = a.id
      BY DEF Via
    <2> QED
      BY <2>1, <2>2 DEF Gates, Crossed
  <1>5. { p \in Journey(from, to) : Delivers(p, to) } = { p \in Stations(w, n) : Delivers(p, to) }
    BY <1>1, <1>2 DEF Delivers
  <1>6. Meets(from, to) = Guards(w, n)
    <2>1. \A a \in Attachments : a.id # None
      BY DEF Faithful, FaithfulAttachments
    <2>2. FirewallsIn(net.home[from]) = {}
      <3>1. from \in TwoEndpoints
        BY DEF Source, TwoEndpoints
      <3> QED
        BY <3>1 DEF Faithful, FaithfulSubnets, TwoEndpoints
    <2>3. \A f \in net.firewalls : f.vpc # net.home[from]
      BY <2>2 DEF FirewallsIn
    <2>4. \A r \in Leaves(from, to) : r.kind # "endpoint"
      BY PlacesOnTheWay
    <2>5. Meets(from, to) =
             { f \in net.firewalls : \E p \in Journey(from, to), a \in Attachments :
                                        p.attach = a.id /\ a.kind = "vpc" /\ a.resource = f.vpc }
      BY <2>3, <2>4 DEF Meets
    <2> HIDE DEF from, to
    <2>6. Meets(from, to) =
             { f \in net.firewalls : \E p \in Stations(w, n), a \in Attachments :
                                        p.attach = a.id /\ a.kind = "vpc" /\ a.resource = f.vpc }
      BY <1>1, <1>2, <2>1, <2>5
    <2> QED
      BY <2>6 DEF Guards, Via
  <1>7. { a.id : a \in UNION { VPCLinks(net.home[to], p.id) :
                          p \in { p \in Journey(from, to) : Delivers(p, to) } } } = LastLink(w, n)
    BY <1>5, PlacesOnTheWay
  <1>8. Components(from, to) =
           (UNION { {p.id, p.attach} : p \in { p \in Journey(from, to) : p.at = "gateway" } })
           \cup { a.id : a \in UNION { VPCLinks(net.home[to], p.id) :
                                p \in { p \in Journey(from, to) : Delivers(p, to) } } }
           \cup { f.id : f \in Meets(from, to) }
    BY DEF Components
  <1> HIDE DEF from, to
  <1>9. Components(from, to) =
           (Gates(w, n) \cup { a.id : a \in Via(w, n, "vpc") } \cup Crossed(w, n))
           \cup LastLink(w, n) \cup { f.id : f \in Guards(w, n) }
    <2>1. UNION { {p.id, p.attach} : p \in { p \in Journey(from, to) : p.at = "gateway" } }
             = Gates(w, n) \cup { a.id : a \in Via(w, n, "vpc") } \cup Crossed(w, n)
      BY <1>3, <1>4
    <2>2. { f.id : f \in Meets(from, to) } = { f.id : f \in Guards(w, n) }
      BY <1>6
    <2> QED
      BY <1>7, <1>8, <2>1, <2>2
  <1> QED
    BY <1>9 DEF Links, from, to

(* Gateways, links, peerings and firewalls as a way passes them: it crosses *)
(* the peering if it comes into more than one gateway, and meets all the    *)
(* firewalls of a VPC or none.                                              *)
PassedTogether(G, L, X, F) ==
    /\ G \subseteq Gateway
    /\ L \subseteq { a.id : a \in { a \in Attachments : a.kind = "vpc" } }
    /\ X \subseteq { a.id : a \in PeeringsBetweenGateways }
    /\ X = {} <=> Single(G)
    /\ F \subseteq net.firewalls
    /\ \A f \in F, h \in net.firewalls : h.vpc = f.vpc => h \in F

LEMMA WayPasses ==
    ASSUME net \in Networks, Faithful, NamedAlike, NEW w \in Walks, NEW n \in Nat, Completes(w, n)
    PROVE  PassedTogether(Gates(w, n), Links(w, n), Crossed(w, n), Guards(w, n))
  <1> DEFINE t == Way(w)
  <1>1. Keyed(Attachments)
    BY Snapshots
  <1>2. /\ \A m \in Nat : m < n => t[m].at = "gateway"
        /\ t[n] = Arrived /\ Arrived # Lost /\ Lost.at # "gateway" /\ Arrived.at # "gateway"
    BY DEF Completes, Arrived, Lost, At
  <1>3. Dest(w) \in TwoEndpoints /\ t = Trail(Source(w), Dest(w))
    BY DEF Dest, TwoEndpoints, Way
  <1> HIDE DEF t
  <1>4. ASSUME NEW m \in Nat, m < n
        PROVE  /\ t[m].id \in Gateway
               /\ m + 1 < n =>
                     \E a \in Attachments :
                        /\ t[m + 1].attach = a.id
                        /\ \/ a.kind = "vpc" /\ t[m + 1].id = t[m].id
                           \/ a \in PeeringsBetweenGateways /\ t[m + 1].id # t[m].id
    <2>1. m + 1 \in Nat /\ (m + 1 < n \/ m + 1 = n)
      BY <1>4
    <2>2. t[m + 1] # Lost
      BY <1>2, <2>1
    <2> QED
      BY <1>2, <1>3, <1>4, <2>1, <2>2, Continues
  <1>5. Gates(w, n) \subseteq Gateway
    BY <1>4 DEF Gates, Stations, t
  <1>6. ASSUME NEW a \in Via(w, n, "peering")
        PROVE  a \in PeeringsBetweenGateways /\ ~Single(Gates(w, n))
    <2>1. PICK m \in Nat : m < n /\ t[m].attach = a.id
      BY DEF Via, Stations, t
    <2>2. a \in Attachments /\ a.kind = "peering"
      BY DEF Via
    <2>3. m # 0
      <3>1. PICK b \in Attachments : t[m].attach = b.id /\ (m = 0 => b.kind = "vpc")
        BY <1>2, <1>3, <2>1, Enters
      <3> QED
        BY <1>1, <2>1, <2>2, <3>1 DEF Keyed
    <2>4. m - 1 \in Nat /\ m - 1 < n /\ (m - 1) + 1 = m
      BY <2>1, <2>3
    <2>5. PICK b \in Attachments :
             /\ t[m].attach = b.id
             /\ \/ b.kind = "vpc" /\ t[m].id = t[m - 1].id
                \/ b \in PeeringsBetweenGateways /\ t[m].id # t[m - 1].id
      BY <1>4, <2>1, <2>4
    <2>6. b = a
      BY <1>1, <2>1, <2>2, <2>5 DEF Keyed
    <2>7. a \in PeeringsBetweenGateways /\ t[m].id # t[m - 1].id
      BY <2>2, <2>5, <2>6
    <2>8. t[m].id \in Gates(w, n) /\ t[m - 1].id \in Gates(w, n)
      BY <2>1, <2>4 DEF Gates, Stations, t
    <2> QED
      BY <2>7, <2>8 DEF Single
  <1>7. ASSUME Crossed(w, n) = {}
        PROVE  Single(Gates(w, n))
    <2> DEFINE S == { m \in Nat : m < n => t[m].id = t[0].id }
    <2>1. 0 \in S
      OBVIOUS
    <2>2. ASSUME NEW m \in Nat, m \in S
          PROVE  m + 1 \in S
      <3> SUFFICES ASSUME m + 1 < n
                   PROVE  t[m + 1].id = t[m].id
        BY <2>2
      <3>1. m < n
        OBVIOUS
      <3>2. PICK a \in Attachments :
               /\ t[m + 1].attach = a.id
               /\ \/ a.kind = "vpc" /\ t[m + 1].id = t[m].id
                  \/ a \in PeeringsBetweenGateways /\ t[m + 1].id # t[m].id
        BY <1>4, <3>1
      <3>3. a \notin PeeringsBetweenGateways
        <4>1. t[m + 1] \in Stations(w, n)
          BY DEF Stations, t
        <4>2. a.kind = "peering" => a.id \in Crossed(w, n)
          BY <3>2, <4>1 DEF Crossed, Via
        <4> QED
          BY <1>7, <4>2 DEF PeeringsBetweenGateways
      <3> QED
        BY <3>2, <3>3
    <2>3. Nat \subseteq S
      <3> HIDE DEF S
      <3> QED
        BY <2>1, <2>2, NumberInduction
    <2>4. \A x \in Gates(w, n) : x = t[0].id
      BY <2>3 DEF Gates, Stations, t
    <2> QED
      BY <2>4 DEF Single
  <1>8. Links(w, n) \subseteq { a.id : a \in { a \in Attachments : a.kind = "vpc" } }
    BY DEF Links, LastLink, Via, VPCLinks
  <1>9. Crossed(w, n) \subseteq { a.id : a \in PeeringsBetweenGateways }
    BY <1>6 DEF Crossed
  <1>10. Crossed(w, n) = {} <=> Single(Gates(w, n))
    BY <1>6, <1>7 DEF Crossed
  <1>11. /\ Guards(w, n) \subseteq net.firewalls
         /\ \A f \in Guards(w, n), h \in net.firewalls : h.vpc = f.vpc => h \in Guards(w, n)
    BY DEF Guards
  <1> QED
    BY <1>5, <1>8, <1>9, <1>10, <1>11 DEF PassedTogether

(* ... as the walk names them, and as components.                           *)
Names(G, L, F) == G \cup L \cup { f.vpc : f \in F }

Passing(G, L, X, F) == G \cup L \cup X \cup { f.id : f \in F }

(* Whether two ways pass the same does not depend on what they go by: the   *)
(* gateways, links and firewalls they pass tell the peering too, and a      *)
(* firewall is told by its VPC as by its own identifier.  Names H that none *)
(* of them have do not count.                                               *)
LEMMA SameByName ==
    ASSUME net \in Networks, NamedAlike, NEW H,
           H \cap (Gateway \cup { a.id : a \in Attachments } \cup { f.vpc : f \in net.firewalls }) = {},
           NEW G1, NEW G2, NEW L1, NEW L2, NEW X1, NEW X2, NEW F1, NEW F2,
           PassedTogether(G1, L1, X1, F1), PassedTogether(G2, L2, X2, F2)
    PROVE  Names(G1, L1, F1) \ H = Names(G2, L2, F2) \ H
              <=> Passing(G1, L1, X1, F1) = Passing(G2, L2, X2, F2)
  <1> DEFINE VL == { a.id : a \in { a \in Attachments : a.kind = "vpc" } }
             PL == { a.id : a \in PeeringsBetweenGateways }
             Named(G, L, F) == Names(G, L, F) \ H
             Composed(G, L, X, F) == Passing(G, L, X, F)
  <1>1. /\ VL \cap Gateway = {} /\ PL \cap Gateway = {}
        /\ \A f \in net.firewalls : {f.id, f.vpc} \cap (Gateway \cup VL \cup PL) = {}
        /\ H \cap (Gateway \cup VL) = {} /\ \A f \in net.firewalls : f.vpc \notin H
    <2>1. \A a \in PeeringsBetweenGateways : a \in Attachments
      BY DEF PeeringsBetweenGateways
    <2>2. VL \cup PL \subseteq { a.id : a \in Attachments }
      BY <2>1
    <2>3. \A k \in { a.id : a \in Attachments } : k \notin Gateway
      BY DEF NamedAlike
    <2>4. \A f \in net.firewalls : {f.id, f.vpc} \cap (Gateway \cup { a.id : a \in Attachments }) = {}
      BY DEF NamedAlike
    <2> HIDE DEF VL, PL
    <2> QED
      BY <2>2, <2>3, <2>4
  <1>2. VL \cap PL = {}
    <2>1. Keyed(Attachments)
      BY Snapshots
    <2> QED
      BY <2>1 DEF Keyed, PeeringsBetweenGateways
  <1>3. Single(PL)
    BY DEF NamedAlike, Single
  <1>4. Keyed(net.firewalls)
    BY NetworksAssumption
  <1> HIDE DEF VL, PL
  <1> DEFINE Kinds(G, L, X, F) ==
                /\ G \subseteq Gateway /\ L \subseteq VL /\ X \subseteq PL /\ F \subseteq net.firewalls
                /\ \A f \in F, h \in net.firewalls : h.vpc = f.vpc => h \in F
             Told(G, L, F, N, C) ==
                /\ G = N \cap Gateway /\ L = N \cap VL /\ F = { f \in net.firewalls : f.vpc \in N }
                /\ G = C \cap Gateway /\ L = C \cap VL /\ F = { f \in net.firewalls : f.id \in C }
  <1>5. ASSUME NEW G, NEW L, NEW X, NEW F, Kinds(G, L, X, F)
        PROVE  Told(G, L, F, Named(G, L, F), Composed(G, L, X, F))
    <2>1. G = Named(G, L, F) \cap Gateway /\ L = Named(G, L, F) \cap VL
      BY <1>1, <1>5 DEF Names
    <2>2. G = Composed(G, L, X, F) \cap Gateway /\ L = Composed(G, L, X, F) \cap VL
      BY <1>1, <1>2, <1>5 DEF Passing
    <2>3. F = { f \in net.firewalls : f.vpc \in Named(G, L, F) }
      BY <1>1, <1>5 DEF Names
    <2>4. F = { f \in net.firewalls : f.id \in Composed(G, L, X, F) }
      BY <1>1, <1>4, <1>5 DEF Keyed, Passing
    <2> QED
      BY <2>1, <2>2, <2>3, <2>4
  <1>6. Kinds(G1, L1, X1, F1) /\ Kinds(G2, L2, X2, F2)
    BY DEF PassedTogether, VL, PL
  <1>7. X1 \subseteq PL /\ X2 \subseteq PL /\ (X1 = {} <=> Single(G1)) /\ (X2 = {} <=> Single(G2))
    BY DEF PassedTogether, PL
  <1> DEFINE N1 == Named(G1, L1, F1)   C1 == Composed(G1, L1, X1, F1)
             N2 == Named(G2, L2, F2)   C2 == Composed(G2, L2, X2, F2)
  <1> HIDE DEF Kinds, Told, Named, Composed
  <1>8. Told(G1, L1, F1, N1, C1) /\ Told(G2, L2, F2, N2, C2)
    BY <1>5, <1>6
  <1>9. N1 = N2 \/ C1 = C2 => G1 = G2 /\ L1 = L2 /\ F1 = F2
    <2> HIDE DEF N1, N2, C1, C2
    <2> QED
      BY <1>8 DEF Told
  <1>10. G1 = G2 => X1 = X2
    BY <1>3, <1>7 DEF Single
  <1>11. N1 = N2 => C1 = C2
    BY <1>9, <1>10
  <1>12. C1 = C2 => N1 = N2
    BY <1>9
  <1> QED
    BY <1>11, <1>12 DEF Named, Composed

(* So the comparison says what the packets' ways say.                       *)
LEMMA ComparisonIsOfTheWays ==
    ASSUME net \in Networks, Faithful, NamedAlike, WayInv, Compared
    PROVE  /\ Components("src", "dst") # Components("dst", "src") => Asymmetric
           /\ Asymmetric => \/ Components("src", "dst") # Components("dst", "src")
                            \/ ~RoutesNameAttachments
  <1>1. verdict["return"] \in {"pass", "abstain"} /\ verdict["forward"] = "pass" /\ Comparable
    BY DEF WayInv, Compared, Comparable
  <1>2. ASSUME NEW w \in {"forward", "return"}
        PROVE  \E n \in Nat : Completes(w, n) /\ Alike(passed[w], Log(w, n) \cup LastLink(w, n))
    <2>1. w \in Walks /\ verdict[w] \in {"pass", "abstain"}
      BY <1>1 DEF Walks
    <2>2. Reports(w, inspected[w], passed[w])
      BY <2>1 DEF WayInv, Went
    <2> QED
      BY <1>1, <2>2 DEF Reports, Behind, Completes
  <1>3. PICK m \in Nat :
             /\ Completes("forward", m)
             /\ Alike(passed["forward"], Log("forward", m) \cup LastLink("forward", m))
    BY <1>2
  <1>4. PICK n \in Nat :
             /\ Completes("return", n)
             /\ Alike(passed["return"], Log("return", n) \cup LastLink("return", n))
    BY <1>2
  <1> DEFINE G1 == Gates("forward", m)     G2 == Gates("return", n)
             L1 == Links("forward", m)     L2 == Links("return", n)
             X1 == Crossed("forward", m)   X2 == Crossed("return", n)
             F1 == Guards("forward", m)    F2 == Guards("return", n)
  <1>5. "forward" \in Walks /\ "return" \in Walks
    BY DEF Walks
  <1>6. /\ Alike(passed["forward"], Names(G1, L1, F1))
        /\ Alike(passed["return"], Names(G2, L2, F2))
    BY <1>3, <1>4, WalkNotes DEF Names
  <1>7. /\ Components("src", "dst") = Passing(G1, L1, X1, F1)
        /\ Components("dst", "src") = Passing(G2, L2, X2, F2)
    <2>1. Source("forward") = "src" /\ Dest("forward") = "dst"
      BY DEF Source, Dest
    <2>2. Source("return") = "dst" /\ Dest("return") = "src"
      BY DEF Source, Dest
    <2>3. Components(Source("forward"), Dest("forward")) = Passing(G1, L1, X1, F1)
      BY <1>3, <1>5, PacketPasses DEF Passing
    <2>4. Components(Source("return"), Dest("return")) = Passing(G2, L2, X2, F2)
      BY <1>4, <1>5, PacketPasses DEF Passing
    <2> QED
      BY <2>1, <2>2, <2>3, <2>4
  <1>8. PassedTogether(G1, L1, X1, F1) /\ PassedTogether(G2, L2, X2, F2)
    BY <1>3, <1>4, <1>5, WayPasses
  <1> HIDE DEF G1, G2, L1, L2, X1, X2, F1, F2
  <1>9. Homes \cap (Gateway \cup { a.id : a \in Attachments } \cup { f.vpc : f \in net.firewalls }) = {}
    <2>1. Homes \subseteq {net.home["src"], net.home["dst"]}
      BY DEF Homes, TwoEndpoints
    <2>2. {net.home["src"], net.home["dst"]} \cap (Gateway \cup { a.id : a \in Attachments }) = {}
      BY DEF NamedAlike
    <2>3. \A f \in net.firewalls : f.vpc # net.home["src"] /\ f.vpc # net.home["dst"]
      BY DEF Faithful, FaithfulSubnets, FirewallsIn
    <2> QED
      BY <2>1, <2>2, <2>3
  <1> DEFINE N1 == Names(G1, L1, F1)
             N2 == Names(G2, L2, F2)
  <1>10. N1 \ Homes = N2 \ Homes
            <=> Passing(G1, L1, X1, F1) = Passing(G2, L2, X2, F2)
    BY <1>8, <1>9, SameByName
  <1> HIDE DEF N1, N2
  <1>11. Asymmetric <=> passed["forward"] # passed["return"]
    BY <1>1 DEF Asymmetric
  <1>12. passed["forward"] = passed["return"] => N1 \ Homes = N2 \ Homes
    BY <1>6 DEF Alike, N1, N2
  <1>13. RoutesNameAttachments /\ N1 \ Homes = N2 \ Homes => passed["forward"] = passed["return"]
    <2>1. RoutesNameAttachments => Homes = {}
      BY DEF Homes
    <2> QED
      BY <1>6, <2>1 DEF Alike, N1, N2
  <1> QED
    BY <1>7, <1>10, <1>11, <1>12, <1>13

(* What the walks have found follows the packets' ways, step by step.       *)
LEMMA WayInvHolds == Spec => [](WalkInv /\ (Faithful => WayInv))
  <1> DEFINE TrueSoFar == WalkInv /\ (Faithful => WayInv)
  <1>1. Init => TrueSoFar
    BY WalkInvInit, WayInvInit
  <1>2. TrueSoFar /\ [Next]_vars => TrueSoFar'
    <2> SUFFICES ASSUME TrueSoFar, [Next]_vars
                 PROVE  TrueSoFar'
      OBVIOUS
    <2>1. WalkInv'
      BY WalkInvStep
    <2>2. net' = net
      <3>1. CASE UNCHANGED vars
        BY <3>1 DEF vars
      <3>2. CASE Next
        BY <3>2, EveryStep DEF Steps
      <3> QED
        BY <3>1, <3>2
    <2>3. Faithful' <=> Faithful
      BY <2>2, SameNetwork
    <2>4. Faithful => WayInv'
      BY WayInvStep
    <2> QED
      BY <2>1, <2>3, <2>4
  <1> QED
    BY <1>1, <1>2, PTL DEF Spec

(* WalkIsTrue wherever the snapshot is faithful: the walk's own steps, for  *)
(* networks of any size and circles among their routes, add nothing that is *)
(* not so of the packet's way, but for the block of a subnet whose route    *)
(* delivers by other than a gateway.  What the snapshot leaves out or the   *)
(* lookups of graph.go mistake is all else that could make a verdict false  *)
(* (walkRoutes, walkTGW, walkThroughInspectionVPC, evalReturnPath).         *)
THEOREM WalksAreTrue == Spec => [](Faithful => WalkIsTrue)
  <1>1. WalkInv /\ (Faithful => WayInv) => (Faithful => WalkIsTrue)
    <2> SUFFICES ASSUME WalkInv, WayInv, Faithful
                 PROVE  VerdictIsTrue /\ EveryPolicyMet
      BY DEF WalkIsTrue
    <2>1. net \in Networks
      BY DEF WalkInv
    <2>2. VerdictIsTrue
      BY <2>1, VerdictIsOfTheWay DEF VerdictIsTrue
    <2>3. EveryPolicyMet
      BY <2>1, PoliciesWereMet DEF EveryPolicyMet
    <2> QED
      BY <2>2, <2>3
  <1> QED
    BY <1>1, WayInvHolds, PTL

(* AsymmetryIsTrue wherever the snapshot is faithful and what the two       *)
(* directions pass has its own names: evalAsymmetry reports the components  *)
(* of two directions as different (requirement 7.2) if the packets pass     *)
(* different gateways, links, peerings or firewalls, from a collected       *)
(* snapshot too, though a walk never notes a peering, notes an inspection   *)
(* VPC for its firewall, and on the way back evaluates no policy; and it    *)
(* reports no others where the gateways' routes name attachments.           *)
THEOREM AsymmetriesAreTrue == Spec => [](Faithful /\ NamedAlike => AsymmetryIsTrue)
  <1>1. WalkInv /\ (Faithful => WayInv) => (Faithful /\ NamedAlike => AsymmetryIsTrue)
    <2> SUFFICES ASSUME WalkInv, WayInv, Faithful, NamedAlike
                 PROVE  AsymmetryIsTrue
      OBVIOUS
    <2>1. net \in Networks
      BY DEF WalkInv
    <2> QED
      BY <2>1, ComparisonIsOfTheWays DEF AsymmetryIsTrue
  <1> QED
    BY <1>1, WayInvHolds, PTL

-----------------------------------------------------------------------------
(* The host stage, whatever it is asked and whatever the host would show.   *)

(* The checks not begun.                                                    *)
Ahead ==
    CASE at = "start"      -> Check
      [] at = "listener"   -> Check \ {"listener"}
      [] at = "rich_rules" -> {"services", "route", "path_mtu"}
      [] at = "services"   -> {"route", "path_mtu"}
      [] at = "route"      -> {"path_mtu"}
      [] OTHER             -> {}

(* A command is outstanding between its sending and its end.                *)
Commands ==
    /\ at \in Check \cup {"start", "done"}
    /\ step \in {"send", "poll", "judge", "sleep"}
    /\ remote \in Terminal \cup {"unsent", "accepted", "running"}
    /\ late \in BOOLEAN /\ cancelled \in BOOLEAN
    /\ step = "send" <=> remote = "unsent"
    /\ step # "send" => at \in Check
    /\ remote = "success" => at \in ran

(* What has been sent, has run and has been answered.                       *)
Record ==
    /\ sent \in [Check -> {0, 1}]
    /\ ran \subseteq Check
    /\ outcome \in [Check -> Outcome]
    /\ \A c \in Ahead : sent[c] = 0 /\ outcome[c] = "none"
    /\ at \in Check /\ step = "send" => sent[at] = 0
    /\ \A c \in Check : outcome[c] = "output" => c \in ran

ListenerSays ==
    IF outcome["listener"] # "output" \/ host.listener = "unreadable" THEN "abstain"
    ELSE IF host.listener = "listening" THEN "pass" ELSE "blocked"

ServicesSay ==
    IF outcome["services"] # "output" \/ host.services = "unknown" THEN "abstain"
    ELSE IF host.services = "covers" THEN "pass" ELSE "blocked"

RichRulesSay ==
    IF outcome["rich_rules"] # "output" \/ host.rich_rules = "unresolved" THEN "abstain"
    ELSE IF host.rich_rules = "accept" THEN "pass"
    ELSE IF host.rich_rules = "deny" THEN "blocked" ELSE ServicesSay

(* Each finding is what the answers so far say of the host.                 *)
Findings ==
    /\ results \in [HostLayer -> {"none", "pass", "blocked", "abstain"}]
    /\ results["host_listener"] = IF at \in {"start", "listener"} THEN "none" ELSE ListenerSays
    /\ at = "services" => outcome["rich_rules"] = "output" /\ host.rich_rules = "silent"
    /\ results["host_firewall"] = IF at \in {"start", "listener", "rich_rules", "services"}
                                  THEN "none" ELSE RichRulesSay

ProbeInv ==
    /\ request \in Request /\ host \in Host
    /\ Commands /\ Record /\ Findings

LEMMA ProbeInvInit == ProbeInit => ProbeInv
  BY DEF ProbeInit, ProbeInv, Commands, Record, Findings, Ahead, Check, Terminal, Outcome, HostLayer

(* The answer of a command that ran is what the host shows.                 *)
LEMMA OutputIsShown ==
    ASSUME ProbeInv, NEW c \in {"listener", "rich_rules", "services"}, c \in ran
    PROVE  Shown(c) = host[c]
  BY DEF Shown

(* The runner gets through with a check.                                    *)
LEMMA Finishes ==
    ASSUME ProbeInv, at \in Check, NEW got \in Outcome \ {"none"}, Finish(got),
           got = "output" => at \in ran,
           UNCHANGED << request, host, cancelled, ran >>,
           sent' \in [Check -> {0, 1}], \A c \in Check \ {at} : sent'[c] = sent[c]
    PROVE  ProbeInv'
  <1>1. request' \in Request /\ host' \in Host
    BY DEF ProbeInv
  <1>2. /\ outcome' \in [Check -> Outcome] /\ outcome'[at] = got
        /\ \A c \in Check \ {at} : outcome'[c] = outcome[c]
    BY DEF ProbeInv, Record, Finish
  <1>3. /\ at = "listener" => at' = "rich_rules"
        /\ at = "rich_rules" => at' \in {"services", "route"}
        /\ at = "services" => at' = "route"
        /\ at = "route" => at' \in {"path_mtu", "done"}
        /\ at = "path_mtu" => at' = "done"
    BY DEF Finish, NextCheck
  <1>4. Commands'
    BY <1>3 DEF ProbeInv, Commands, Finish, Check, Terminal
  <1>5. Ahead' \subseteq Ahead \ {at} /\ (at' \in Check => at' \in Ahead \ {at}) /\ Ahead \subseteq Check
    BY <1>3 DEF Ahead, Check
  <1>6. Record'
    BY <1>2, <1>5 DEF ProbeInv, Record
  <1>7. Findings'
    <2>1. CASE at = "listener"
      <3>1. /\ results' = [results EXCEPT !["host_listener"] = ListenerFinding(got)]
            /\ at' = "rich_rules"
        BY <1>3, <2>1 DEF Finish, Judged
      <3>2. ListenerFinding(got) = ListenerSays'
        BY <1>2, <2>1, OutputIsShown DEF ListenerFinding, ListenerSays
      <3>3. ListenerSays' \in {"pass", "blocked", "abstain"}
        BY DEF ListenerSays
      <3> QED
        BY <2>1, <3>1, <3>2, <3>3 DEF ProbeInv, Findings, HostLayer
    <2>2. CASE at = "rich_rules"
      <3>1. results' = [results EXCEPT !["host_firewall"] = RichFinding(got)]
        BY <2>2 DEF Finish, Judged
      <3>2. at' = IF RichFinding(got) = "none" THEN "services" ELSE "route"
        BY <2>2 DEF Finish, NextCheck
      <3>3. got = "output" => Shown("rich_rules") = host.rich_rules
        BY <2>2, OutputIsShown
      <3>4. host.rich_rules \in {"accept", "deny", "silent", "unresolved"}
        BY DEF ProbeInv, Host
      <3>5. \/ /\ RichFinding(got) = "none"
               /\ outcome'["rich_rules"] = "output" /\ host.rich_rules = "silent"
            \/ RichFinding(got) = RichRulesSay' /\ RichFinding(got) \in {"pass", "blocked", "abstain"}
        BY <1>2, <2>2, <3>3, <3>4 DEF RichFinding, RichRulesSay
      <3>6. ListenerSays' = ListenerSays
        BY <1>2, <2>2 DEF ListenerSays, Check
      <3> QED
        BY <2>2, <3>1, <3>2, <3>5, <3>6 DEF ProbeInv, Findings, HostLayer
    <2>3. CASE at = "services"
      <3>1. results' = [results EXCEPT !["host_firewall"] = ServicesFinding(got)]
        BY <2>3 DEF Finish, Judged
      <3>2. at' = "route"
        BY <1>3, <2>3
      <3>3. ServicesFinding(got) = ServicesSay'
        BY <1>2, <2>3, OutputIsShown DEF ServicesFinding, ServicesSay
      <3>4. outcome'["rich_rules"] = "output" /\ host'.rich_rules = "silent"
        BY <1>2, <2>3 DEF ProbeInv, Findings, Check
      <3>5. RichRulesSay' = ServicesSay'
        BY <3>4 DEF RichRulesSay
      <3>6. ServicesSay' \in {"pass", "blocked", "abstain"}
        BY DEF ServicesSay
      <3>7. ListenerSays' = ListenerSays
        BY <1>2, <2>3 DEF ListenerSays, Check
      <3> QED
        BY <2>3, <3>1, <3>2, <3>3, <3>5, <3>6, <3>7 DEF ProbeInv, Findings, HostLayer
    <2>4. CASE at \in {"route", "path_mtu"}
      <3>1. results' = results /\ at' \in {"path_mtu", "done"}
        BY <1>3, <2>4 DEF Finish, Judged
      <3>2. ListenerSays' = ListenerSays /\ RichRulesSay' = RichRulesSay
        BY <1>2, <2>4 DEF ListenerSays, RichRulesSay, ServicesSay, Check
      <3> QED
        BY <2>4, <3>1, <3>2 DEF ProbeInv, Findings
    <2> QED
      BY <2>1, <2>2, <2>3, <2>4 DEF Check
  <1> QED
    BY <1>1, <1>4, <1>6, <1>7 DEF ProbeInv

LEMMA ProbeInvStep ==
    ASSUME ProbeInv, [ProbeNext]_probeVars
    PROVE  ProbeInv'
  <1>1. ASSUME UNCHANGED << request, host, at, outcome, results >>, ran \subseteq ran',
               Commands', UNCHANGED sent, ran' \subseteq Check,
               at \in Check /\ step' = "send" => step = "send"
        PROVE  ProbeInv'
    <2>1. /\ ListenerSays' = ListenerSays /\ RichRulesSay' = RichRulesSay
          /\ Ahead' = Ahead
      BY <1>1 DEF ListenerSays, RichRulesSay, ServicesSay, Ahead
    <2>2. Record'
      BY <1>1, <2>1 DEF ProbeInv, Record
    <2>3. Findings'
      BY <1>1, <2>1 DEF ProbeInv, Findings
    <2> QED
      BY <1>1, <2>2, <2>3 DEF ProbeInv
  <1>2. CASE Unprobeable
    <2>1. Commands' /\ Record'
      BY <1>2 DEF ProbeInv, Unprobeable, Commands, Record, Ahead, Check
    <2>2. outcome'["listener"] = "none" /\ outcome'["rich_rules"] = "none"
      BY <1>2 DEF ProbeInv, Unprobeable, Record, Ahead, Check
    <2>3. Findings'
      BY <1>2, <2>2 DEF Unprobeable, AbstainAll, Findings, ListenerSays, RichRulesSay, HostLayer
    <2> QED
      BY <1>2, <2>1, <2>3 DEF ProbeInv, Unprobeable
  <1>3. CASE Managed
    <2>1. Commands' /\ Record'
      BY <1>3 DEF ProbeInv, Managed, Commands, Record, Ahead, Check
    <2>2. Findings'
      BY <1>3 DEF ProbeInv, Managed, Findings
    <2> QED
      BY <1>3, <2>1, <2>2 DEF ProbeInv, Managed
  <1>4. CASE Refuse
    <2>1. /\ Finish("refused") /\ at \in Check /\ "refused" \in Outcome \ {"none"}
          /\ UNCHANGED << request, host, cancelled, sent, ran >>
      BY <1>4 DEF Refuse, Outcome
    <2> QED
      BY <2>1, Finishes DEF ProbeInv, Record
  <1>5. CASE Send
    <2>1. /\ at \in Check /\ step = "send" /\ sent' = [sent EXCEPT ![at] = @ + 1]
          /\ UNCHANGED << request, host, cancelled, ran >>
      BY <1>5 DEF Send
    <2>2. sent' \in [Check -> {0, 1}] /\ \A c \in Check \ {at} : sent'[c] = sent[c]
      BY <2>1 DEF ProbeInv, Record
    <2>3. CASE Finish("undeliverable")
      BY <2>1, <2>2, <2>3, Finishes DEF Outcome
    <2>4. CASE /\ ~cancelled /\ step' = "poll" /\ remote' = "accepted"
               /\ UNCHANGED << at, late, outcome, results >>
      <3>1. Commands'
        BY <2>1, <2>4 DEF ProbeInv, Commands
      <3>2. Ahead' = Ahead /\ at \notin Ahead /\ Ahead \subseteq Check
        BY <2>1, <2>4 DEF Ahead, Check
      <3>3. Record'
        BY <2>1, <2>2, <2>4, <3>2 DEF ProbeInv, Record
      <3>4. Findings'
        BY <2>1, <2>4 DEF ProbeInv, Findings, ListenerSays, RichRulesSay, ServicesSay
      <3> QED
        BY <2>1, <3>1, <3>3, <3>4 DEF ProbeInv
    <2> QED
      BY <1>5, <2>3, <2>4 DEF Send
  <1>6. CASE Poll
    <2>1. /\ at \in Check /\ step = "poll" /\ UNCHANGED << request, host, cancelled, sent, ran >>
      BY <1>6 DEF ProbeInv, Commands, Poll
    <2>2. CASE remote \in Terminal /\ Finish(Interpret(remote))
      <3>1. /\ Interpret(remote) \in Outcome \ {"none"}
            /\ Interpret(remote) = "output" => at \in ran
        BY <2>2 DEF ProbeInv, Commands, Interpret, Terminal, Outcome
      <3> QED
        BY <2>1, <2>2, <3>1, Finishes DEF ProbeInv, Record
    <2>3. CASE Finish("undeliverable")
      BY <2>1, <2>3, Finishes DEF ProbeInv, Record, Outcome
    <2>4. CASE /\ remote \notin Terminal
               /\ step' = IF remote = "accepted" THEN Unrecorded ELSE "judge"
               /\ UNCHANGED << at, remote, late, outcome, results >>
      <3>1. step' = "judge" /\ Commands'
        BY <2>1, <2>4 DEF ProbeInv, Commands, Unrecorded
      <3> QED
        BY <1>1, <2>1, <2>4, <3>1 DEF ProbeInv, Record
    <2> QED
      BY <1>6, <2>2, <2>3, <2>4 DEF Poll
  <1>7. ASSUME Judge \/ Wake
        PROVE  ProbeInv'
    <2>1. at \in Check /\ step # "send" /\ UNCHANGED << request, host, cancelled, sent, ran >>
      BY <1>7 DEF ProbeInv, Commands, Judge, Wake
    <2>2. CASE Finish("timeout")
      BY <2>1, <2>2, Finishes DEF ProbeInv, Record, Outcome
    <2>3. CASE step' \in {"sleep", "poll"} /\ UNCHANGED << at, remote, late, outcome, results >>
      <3>1. Commands'
        BY <2>1, <2>3 DEF ProbeInv, Commands
      <3> QED
        BY <1>1, <2>1, <2>3, <3>1 DEF ProbeInv, Record
    <2> QED
      BY <1>7, <2>2, <2>3 DEF Judge, Wake
  <1>8. CASE Progress
    <2>1. at \in Check /\ step # "send"
      BY <1>8 DEF ProbeInv, Commands, Progress
    <2>2. ran \subseteq ran' /\ ran' \subseteq Check /\ (remote' = "success" => at \in ran')
      BY <1>8, <2>1 DEF ProbeInv, Record, Progress
    <2>3. Commands'
      BY <1>8, <2>1, <2>2 DEF ProbeInv, Commands, Progress, Terminal
    <2> QED
      BY <1>1, <1>8, <2>2, <2>3 DEF Progress
  <1>9. ASSUME DeadlinePasses \/ Cancel \/ UNCHANGED probeVars
        PROVE  ProbeInv'
    <2>1. Commands'
      BY <1>9 DEF ProbeInv, Commands, DeadlinePasses, Cancel, probeVars
    <2> QED
      BY <1>1, <1>9, <2>1 DEF ProbeInv, Record, DeadlinePasses, Cancel, probeVars
  <1> QED
    BY <1>2, <1>3, <1>4, <1>5, <1>6, <1>7, <1>8, <1>9 DEF ProbeNext, Stage

LEMMA ProbeInvHolds == ProbeSpec => []ProbeInv
  BY ProbeInvInit, ProbeInvStep, PTL DEF ProbeSpec

(* Every variable of the host stage keeps its kind, no command is sent      *)
(* twice (Runner.Run), and the stage that has ended has filed a finding for *)
(* each host Layer (stageHost), whatever AWS, the clock and the caller do.  *)
THEOREM ProbeTypeCorrect == ProbeSpec => []ProbeTypeOK
  <1>1. ProbeInv => ProbeTypeOK
    BY DEF ProbeInv, Commands, Record, Findings, ProbeTypeOK, HostLayer, Check,
           ListenerSays, RichRulesSay, ServicesSay
  <1> QED
    BY <1>1, ProbeInvHolds, PTL

(* A host Layer is decided on the output of a command that ran to its end   *)
(* on the host, and never on the empty output of one that was not delivered *)
(* or was cut short (interpret, ListenerCheck, FirewallCheck).              *)
THEOREM DecidesOnOutput == ProbeSpec => []DecidedOnOutput
  <1>1. ASSUME ProbeInv, at = "done"
        PROVE  \A l \in HostLayer :
                  /\ results[l] \in {"pass", "blocked"} => Evidence(l) \subseteq ran
                  /\ Truth[l] # "undetermined" /\ (\A c \in Evidence(l) : outcome[c] = "output")
                        => results[l] # "abstain"
    <2>1. \A c \in Check : outcome[c] = "output" => c \in ran
      BY <1>1 DEF ProbeInv, Record
    <2>2. results["host_listener"] = ListenerSays /\ results["host_firewall"] = RichRulesSay
      BY <1>1 DEF ProbeInv, Findings
    <2>3. /\ ListenerSays \in {"pass", "blocked"} => Evidence("host_listener") \subseteq ran
          /\ Truth["host_listener"] # "undetermined"
             /\ (\A c \in Evidence("host_listener") : outcome[c] = "output") => ListenerSays # "abstain"
      BY <2>1 DEF ListenerSays, Evidence, Truth, HostLayer, Check
    <2>4. host.rich_rules \in {"accept", "deny", "silent", "unresolved"}
          /\ host.services \in {"covers", "unknown", "closed"}
      BY <1>1 DEF ProbeInv, Host
    <2>5. ASSUME RichRulesSay \in {"pass", "blocked"}
          PROVE  Evidence("host_firewall") \subseteq ran
      <3>1. "rich_rules" \in ran
        BY <2>1, <2>5 DEF RichRulesSay, Check
      <3>2. host.rich_rules = "silent" => "services" \in ran
        BY <2>1, <2>5 DEF RichRulesSay, ServicesSay, Check
      <3> QED
        BY <3>1, <3>2 DEF Evidence
    <2>6. Truth["host_firewall"] # "undetermined"
          /\ (\A c \in Evidence("host_firewall") : outcome[c] = "output") => RichRulesSay # "abstain"
      BY <2>4 DEF RichRulesSay, ServicesSay, Evidence, Truth, HostLayer
    <2>7. SUFFICES ASSUME NEW l \in HostLayer
                   PROVE  /\ results[l] \in {"pass", "blocked"} => Evidence(l) \subseteq ran
                          /\ Truth[l] # "undetermined" /\ (\A c \in Evidence(l) : outcome[c] = "output")
                                => results[l] # "abstain"
      OBVIOUS
    <2>8. CASE l = "host_listener"
      BY <2>2, <2>3, <2>8
    <2>9. CASE l = "host_firewall"
      BY <2>2, <2>5, <2>6, <2>9
    <2> QED
      BY <2>8, <2>9 DEF HostLayer
  <1>2. ProbeInv => DecidedOnOutput
    BY <1>1 DEF DecidedOnOutput
  <1> QED
    BY <1>2, ProbeInvHolds, PTL

(* A finding that is not an abstention is the truth.                        *)
TellsTruth ==
    at = "done" => \A l \in HostLayer : /\ results[l] \in {"pass", "blocked", "abstain"}
                                        /\ results[l] \in {Truth[l], "abstain"}

LEMMA FindingsAreTrue == ProbeInv => TellsTruth
  <1>1. SUFFICES ASSUME ProbeInv, at = "done", NEW l \in HostLayer
                 PROVE  /\ results[l] \in {"pass", "blocked", "abstain"}
                        /\ results[l] \in {Truth[l], "abstain"}
    BY DEF TellsTruth
  <1>2. /\ host.listener \in {"listening", "absent", "unreadable"}
        /\ host.rich_rules \in {"accept", "deny", "silent", "unresolved"}
        /\ host.services \in {"covers", "unknown", "closed"}
    BY <1>1 DEF ProbeInv, Host
  <1>3. CASE l = "host_listener"
    <2>1. Truth["host_listener"] = CASE host.listener = "listening" -> "pass"
                                     [] host.listener = "absent"    -> "blocked"
                                     [] OTHER                       -> "undetermined"
      BY DEF Truth, HostLayer
    <2>2. ListenerSays \in {"pass", "blocked", "abstain"}
          /\ ListenerSays \in {Truth["host_listener"], "abstain"}
      BY <1>2, <2>1 DEF ListenerSays
    <2> QED
      BY <1>1, <1>3, <2>2 DEF ProbeInv, Findings
  <1>4. CASE l = "host_firewall"
    <2>1. Truth["host_firewall"] =
             IF host.rich_rules = "silent"
             THEN CASE host.services = "covers" -> "pass"
                    [] host.services = "closed" -> "blocked"
                    [] OTHER                    -> "undetermined"
             ELSE CASE host.rich_rules = "accept" -> "pass"
                    [] host.rich_rules = "deny"   -> "blocked"
                    [] OTHER                      -> "undetermined"
      BY DEF Truth, HostLayer
    <2>2. RichRulesSay \in {"pass", "blocked", "abstain"}
          /\ RichRulesSay \in {Truth["host_firewall"], "abstain"}
      BY <1>2, <2>1 DEF RichRulesSay, ServicesSay
    <2> QED
      BY <1>1, <1>4, <2>2 DEF ProbeInv, Findings
  <1> QED
    BY <1>3, <1>4 DEF HostLayer

(* Once over, the stage says nothing new.                                   *)
LEMMA OnceReported ==
    ASSUME ProbeInv, [ProbeNext]_probeVars
    PROVE  /\ UNCHANGED host
           /\ at = "done" => UNCHANGED << at, results >>
  BY DEF ProbeInv, Commands, ProbeNext, Stage, Unprobeable, Managed, Refuse, Send, Poll, Judge, Wake,
         Progress, DeadlinePasses, Cancel, probeVars, Check

(* The host stage implements HostSpec: it reports once, after any number of *)
(* steps a caller does not see, and each of its findings is the truth about *)
(* the host or an abstention (stageHost, over its checks and the runner).   *)
THEOREM StageKeepsPromise == ProbeSpec => ImplementsPromise
  <1>1. ProbeInit => Promise!Init
    <2>1. ASSUME ProbeInit
          PROVE  Truth \in [HostLayer -> {"pass", "blocked", "undetermined"}]
      BY <2>1 DEF Truth
    <2> QED
      BY <2>1 DEF ProbeInit, Promise!Init, Promise!HostLayer, HostLayer
  <1>2. ASSUME ProbeInv, TellsTruth', [ProbeNext]_probeVars
        PROVE  [Promise!Next]_(Promise!vars)
    <2>1. Truth' = Truth
      BY <1>2, OnceReported DEF Truth
    <2>2. CASE at = "done" \/ at' # "done"
      <3>1. (at' = "done") <=> (at = "done")
        BY <1>2, <2>2, OnceReported
      <3>2. [l \in HostLayer |-> IF at' = "done" THEN results'[l] ELSE "none"]
            = [l \in HostLayer |-> IF at = "done" THEN results[l] ELSE "none"]
        BY <1>2, <2>2, OnceReported
      <3> QED
        BY <2>1, <3>1, <3>2 DEF Promise!vars
    <2>3. CASE at # "done" /\ at' = "done"
      <3>1. \A l \in HostLayer : /\ results'[l] \in {"pass", "blocked", "abstain"}
                                 /\ results'[l] \in {Truth[l], "abstain"}
        BY <1>2, <2>1, <2>3 DEF TellsTruth
      <3> QED
        BY <2>1, <2>3, <3>1 DEF Promise!Next, Promise!Report, Promise!HostLayer, HostLayer
    <2> QED
      BY <2>2, <2>3
  <1> QED
    BY <1>1, <1>2, ProbeInvHolds, FindingsAreTrue, PTL DEF ProbeSpec, ImplementsPromise, Promise!Spec

=============================================================================
