---------------------------- MODULE HostFirewall ----------------------------
(***************************************************************************)
(* The host firewall check (internal/host/firewalld.go): read the zone's   *)
(* rich rules, examine them in order until one decides, and only then read *)
(* the zone's services.  Beside it stands what firewalld does with the     *)
(* same zone, which the check never sees.                                  *)
(*                                                                         *)
(* A rule keeps its priority, its action and whether it governs the probed *)
(* connection: as the check takes it, and in truth.  The two are the same  *)
(* for a rule that is exact, that is, with no element the check passes     *)
(* over, an ICMP type, a destination or a limit, and no service the host   *)
(* defines otherwise than the check's own table.                           *)
(***************************************************************************)
EXTENDS Integers, Sequences

CONSTANT Zones   (* the zones a host may have                               *)

RichRule == [priority : Int, action : {"accept", "deny", "none"},
             matches  : {"yes", "no", "unknown"}, governs : BOOLEAN, exact : BOOLEAN]

(* The services the zone allows: those in the table that cover the port,    *)
(* those that do not, and those it does not know; and which of them really  *)
(* open it.  Of the rest of the zone the check reads nothing: its lists of  *)
(* ports, protocols and source ports, and its target.                       *)
Zone == [rules    : Seq(RichRule),
         services : SUBSET {"covering", "other", "unknown"},
         opening  : SUBSET {"covering", "other", "unknown"},
         lists    : BOOLEAN,
         target   : {"accept", "refuse"}]

Truthful(r) == r.exact => /\ r.matches = "yes" => r.governs
                          /\ r.matches = "no"  => ~r.governs

ASSUME ZonesAssumption ==
    /\ Zones \subseteq Zone
    /\ \A z \in Zones : /\ z.opening \subseteq z.services
                         /\ \A i \in DOMAIN z.rules : Truthful(z.rules[i])

VARIABLES zone,       (* the zone probed                                    *)
          zonePhase,  (* rich_rules, services, done                         *)
          examined,   (* the rules examined so far                          *)
          zoneVerdict (* the finding on the Layer                           *)

zoneVars == << zone, zonePhase, examined, zoneVerdict >>

-----------------------------------------------------------------------------
(* The order of rules (sortRichRules): by priority, then denying before     *)
(* accepting, then as listed.                                               *)

ActionRank(a) == IF a = "deny" THEN 0 ELSE 1

(* Slip: as listed.                                                         *)
PrecedesAsListed(rules, i, j) == i <= j

Precedes(rules, i, j) ==
    LET p == rules[i].priority  q == rules[j].priority
        a == ActionRank(rules[i].action)  b == ActionRank(rules[j].action)
    IN  \/ p < q
        \/ p = q /\ a < b
        \/ p = q /\ a = b /\ i <= j

-----------------------------------------------------------------------------
(* The check.                                                               *)

ZoneInit ==
    /\ zone \in Zones
    /\ zonePhase = "rich_rules"
    /\ examined = {}
    /\ zoneVerdict = "none"

Conclude(v) == zonePhase' = "done" /\ zoneVerdict' = v

(* The command failed, or its output could not be read.                     *)
Unreadable ==
    /\ zonePhase \in {"rich_rules", "services"}
    /\ examined = {} \/ zonePhase = "services"
    /\ Conclude("abstain")
    /\ UNCHANGED << zone, examined >>

Pending == DOMAIN zone.rules \ examined

(* A rule ends the scan if it governs the connection, or if it might; one   *)
(* that only logs and cannot be read ends it all the same.                  *)
Decides(r) == r.matches = "unknown" \/ (r.action # "none" /\ r.matches = "yes")

(* What the check concludes from a rule that does.                          *)
RuleVerdict(r) ==
    IF r.matches = "unknown" THEN "abstain"
    ELSE IF r.action = "accept" THEN "pass" ELSE "blocked"

(* evaluateRichRules, one rule.                                             *)
Examine ==
    /\ zonePhase = "rich_rules"
    /\ \E i \in Pending :
        /\ \A j \in Pending : Precedes(zone.rules, i, j)
        /\ examined' = examined \cup {i}
        /\ LET r == zone.rules[i]
           IN  IF Decides(r) THEN Conclude(RuleVerdict(r))
               ELSE UNCHANGED << zonePhase, zoneVerdict >>
    /\ UNCHANGED zone

RulesDone ==
    /\ zonePhase = "rich_rules"
    /\ Pending = {}
    /\ zonePhase' = "services"
    /\ UNCHANGED << zone, examined, zoneVerdict >>

(* Slip: a service nobody knows the ports of leaves the check without one.  *)
ServicesVerdictNone(services) ==
    IF "covering" \in services THEN "pass"
    ELSE IF "unknown" \in services THEN "none" ELSE "blocked"

(* servicesAllow, then unknownServices.                                     *)
ServicesVerdict(services) ==
    IF "covering" \in services THEN "pass"
    ELSE IF "unknown" \in services THEN "abstain" ELSE "blocked"

Services ==
    /\ zonePhase = "services"
    /\ Conclude(ServicesVerdict(zone.services))
    /\ UNCHANGED << zone, examined >>

ZoneNext == Unreadable \/ Examine \/ RulesDone \/ Services

ZoneSpec == ZoneInit /\ [][ZoneNext]_zoneVars

-----------------------------------------------------------------------------
(* What firewalld does (firewalld.richlanguage(5), firewalld.zone(5)):      *)
(* rules of a negative priority come before everything else and rules of a  *)
(* positive one after it; in between, the denying rules come before the     *)
(* accepting ones, which stand beside the zone's services, ports, protocols *)
(* and source ports; the target has the last word.  Its order among rules   *)
(* of one priority is not defined, and is taken to be the check's.          *)

Governing == { i \in DOMAIN zone.rules : zone.rules[i].governs /\ zone.rules[i].action # "none" }

FirstAccepts(S) ==
    \E i \in S : zone.rules[i].action = "accept" /\ \A j \in S : Precedes(zone.rules, i, j)

ZoneOpens == zone.lists \/ zone.opening # {}

ZoneAdmits ==
    LET early == { i \in Governing : \/ zone.rules[i].priority < 0
                                     \/ zone.rules[i].priority = 0
                                        /\ zone.rules[i].action = "deny" }
        late  == { i \in Governing : zone.rules[i].priority > 0 }
    IN  IF early # {} THEN FirstAccepts(early)
        ELSE IF ZoneOpens \/ Governing # late THEN TRUE
        ELSE IF late # {} THEN FirstAccepts(late)
        ELSE zone.target = "accept"

-----------------------------------------------------------------------------
(* Properties.                                                              *)

(* Every variable holds a value of its kind, and the check ends with a      *)
(* finding and not without.                                                 *)
ZoneTypeOK ==
    /\ zone \in Zone
    /\ zonePhase \in {"rich_rules", "services", "done"}
    /\ examined \subseteq DOMAIN zone.rules
    /\ zoneVerdict \in {"none", "pass", "blocked", "abstain"}
    /\ zonePhase = "done" <=> zoneVerdict # "none"

(* What the check cannot see: a rule it went by is not exact, or a service  *)
(* is not what the table has it be.                                         *)
Misread ==
    \/ \E i \in examined : ~zone.rules[i].exact
    \/ "covering" \in zone.services \ zone.opening
    \/ "other" \in zone.opening

(* What it does not look at, and what may open the port all the same: the   *)
(* zone's lists and its target.                                             *)
Unconsulted == zone.lists \/ zone.target = "accept"

(* A denying rule behind the services, which the check takes to come first. *)
LateDenial ==
    \E i \in examined : zone.rules[i].action = "deny" /\ zone.rules[i].priority > 0

(* With nothing misread, a closed port is never reported as open, whatever  *)
(* the order of the rules and whatever could not be read; and an open one   *)
(* is reported as closed only for what the check does not consult, and for  *)
(* a denying rule it consults too early.                                    *)
ZoneVerdictIsTrue ==
    ~Misread => /\ zoneVerdict = "pass" => ZoneAdmits
                /\ zoneVerdict = "blocked" => ~ZoneAdmits \/ Unconsulted \/ LateDenial

=============================================================================
