------------------------------ MODULE Diagnosis ------------------------------
(***************************************************************************)
(* One diagnosis (internal/ops/diagnose.go): the walk over the snapshot    *)
(* (internal/query), which meets the gates on the path one after another   *)
(* and stops at the first that blocks, then the host stage, then the       *)
(* Correlator, taken here by its contract, VerdictSpec.                    *)
(*                                                                         *)
(* A snapshot is a partial record of a network.  Each gate has what the    *)
(* network really does, which the code never sees, and what the snapshot   *)
(* holds about it.  The snapshot does not change during a call and every   *)
(* part of it is read at one place, so its contents are chosen when they   *)
(* are read; whether a NACL was collected is asked twice and chosen once.  *)
(*                                                                         *)
(* On the way the code meets conditions under which what it reads is not   *)
(* what the network does, and no finding says so.  They are kept by name,  *)
(* with the Layers each may hide a drop of or invent one of; under none of *)
(* them a gate says what it does.                                          *)
(***************************************************************************)
EXTENDS Verdicts, FiniteSets

CONSTANTS
  Endpoints,      (* what a snapshot may hold on an endpoint's groups        *)
  MaxInspections, (* bound on the inspection points a path crosses           *)
  MaxConditions   (* bound on the conditions one diagnosis meets             *)

(* A security group: is it in the snapshot, what do its rules say of the    *)
(* flow as the code reads them, is that what they mean, and does the group  *)
(* really permit the flow.                                                  *)
SecurityGroup == [collected : BOOLEAN, rules : {"permit", "silent", "undecidable"},
                  exact : BOOLEAN, permits : BOOLEAN]

(* Rules that are read as they mean say what the group does.                *)
Truthful(g) == g.collected /\ g.exact => /\ g.rules = "permit" => g.permits
                                         /\ g.rules = "silent" => ~g.permits

ASSUME EndpointsAssumption ==
    /\ Endpoints \subseteq [interface : BOOLEAN, groups : SUBSET SecurityGroup]
    /\ \A e \in Endpoints : \A g \in e.groups : Truthful(g)

ASSUME BoundAssumption == MaxInspections \in Nat /\ MaxConditions \in Nat

VARIABLES
  stage,         (* the step the call takes next                             *)
  destination,   (* is the destination collected, declared external, unknown *)
  skipFirewall,  (* Options.SkipFirewall                                     *)
  nacl,          (* which ends' NACLs are in the snapshot                    *)
  inspected,     (* inspection points the forward walk has met               *)
  hops,          (* Result.Hops                                              *)
  blockedAt,     (* Result.BlockedAt                                         *)
  abstentions,   (* Result.Abstentions                                       *)
  walkVerdict,   (* Result.Verdict                                           *)
  returnPath,    (* Result.ReturnPath.Result                                 *)
  observations,  (* what the two directions' next hops differ in             *)
  hostResults,   (* HostStage.Results                                        *)
  answer,        (* the Correlator's verdict                                 *)
  drops,         (* history: the Layers that really drop the flow            *)
  unread,        (* history: the Layers met, that the snapshot cannot decide *)
  overlooked     (* history: the conditions met, of those that follow        *)

vars == << stage, destination, skipFirewall, nacl, inspected, hops, blockedAt,
           abstentions, walkVerdict, returnPath, observations, hostResults, answer,
           drops, unread, overlooked >>

walk  == << hops, blockedAt, abstentions, walkVerdict >>
back  == << returnPath, observations >>
setup == << destination, skipFirewall, nacl >>

Ends == {"source", "destination"}

HostLayers == << "host_firewall", "host_listener" >>

-----------------------------------------------------------------------------
(* The conditions.  A NACL may be missing, or be that of a subnet outside   *)
(* the snapshot; a NACL's rule is of a protocol the code does not know, or  *)
(* on the way back is limited to ports, and is read as of port 0; a group's *)
(* rule covers more or less than it says; a hop is not the packet's own, on *)
(* the way there or back; a firewall's policy is missing, or a rule group   *)
(* of it was not evaluated as the engine would.  On the host, a zone says   *)
(* more than is read of it, a socket on :: need not take IPv4, and another  *)
(* instance than the destination's may be the one that is asked.            *)
Conditions == {"missing nacl", "outside nacl", "nacl rule", "return rule", "group rule",
               "next hop", "return hop", "policy", "rule group", "zone", "socket", "instance"}

(* The Layers that may drop the flow, and no finding say so.                *)
Hides(c) ==
    CASE c = "missing nacl"                  -> {"nacl", "return_path"}
      [] c \in {"outside nacl", "nacl rule"} -> {"nacl"}
      [] c \in {"return rule", "return hop"} -> {"return_path"}
      [] c = "group rule"                    -> {"security_group"}
      [] c = "next hop"                      -> {"route", "firewall"}
      [] c = "policy"                        -> {}
      [] c = "rule group"                    -> {"firewall"}
      [] c = "zone"                          -> {"host_firewall"}
      [] c = "socket"                        -> {"host_listener"}
      [] c = "instance"                      -> {"host_firewall", "host_listener"}

(* The Layers that may be reported as blocking, and let the flow pass.      *)
Invents(c) ==
    CASE c \in {"missing nacl", "outside nacl", "socket"} -> {}
      [] c = "policy"                                    -> {"firewall"}
      [] OTHER                                           -> Hides(c)

Overlooked == UNION { Hides(c) : c \in overlooked }
Invented   == UNION { Invents(c) : c \in overlooked }

-----------------------------------------------------------------------------
(* Security groups of one endpoint (evalEndpointSG).                        *)

(* Slip: groups absent from the snapshot are not counted as unread.         *)
SGReadingMissed(e) ==
    LET groups == { g \in e.groups : g.collected }
    IN  IF ~e.interface \/ groups = {} THEN "abstain"
        ELSE IF \E g \in groups : g.rules = "permit" THEN "pass"
        ELSE IF \E g \in groups : g.rules = "undecidable" THEN "abstain"
        ELSE "blocked"

(* One permitting rule in any group is enough; a block needs every group    *)
(* to be there and every rule to be decidable.                              *)
SGReading(e) ==
    LET groups == { g \in e.groups : g.collected }
    IN  IF ~e.interface \/ groups = {} THEN "abstain"
        ELSE IF \E g \in groups : g.rules = "permit" THEN "pass"
        ELSE IF groups # e.groups \/ \E g \in groups : g.rules = "undecidable"
             THEN "abstain"
        ELSE "blocked"

SGPermits(e) == \E g \in e.groups : g.permits

-----------------------------------------------------------------------------
(* Findings.                                                                *)

Hop(layer, allowed) == [layer |-> layer, allowed |-> allowed]
NoHop == Hop("none", TRUE)

Abstain(l, cited)   == [layer |-> l, verdict |-> "abstain", cited |-> cited, reasoned |-> TRUE]
Decided(l, verdict) == [layer |-> l, verdict |-> verdict, cited |-> TRUE, reasoned |-> FALSE]

NoReturn == [layer |-> UnknownLayer, verdict |-> "pass", cited |-> FALSE, reasoned |-> FALSE]

(* Slip: a hop keeps the name the walk gave it.                             *)
HopLayerRaw(name) == name

(* hopLayer: every forwarding hop is a route decision, the reverse NACL is  *)
(* the return path and not a NACL.                                          *)
HopLayer(name) ==
    CASE name \in {"route", "inspection-vpc"} -> "route"
      [] name = "nacl"                        -> "nacl"
      [] name = "nacl-return"                 -> "return_path"
      [] name = "sg"                          -> "security_group"
      [] name = "firewall"                    -> "firewall"
      [] name = "destination"                 -> "resolution"

(* Slip: a hop is cited on what it cites itself.                            *)
HopCitesOwn(h) == { c \in {"rule"} : h.layer = "sg" }

(* hopCitations: a hop's own citations, which only a security group's has;  *)
(* any other is cited on the resource that decided, or its hop's name.      *)
HopCitations(h) == IF h.layer = "sg" THEN {"rule"} ELSE {"resource"}

(* hopLayerResult: an address outside the snapshot is no network decision.  *)
HopFinding(h) ==
    IF h.layer = "snapshot" THEN Abstain("resolution", FALSE)
    ELSE [layer    |-> HopLayer(h.layer),
          verdict  |-> IF h.allowed THEN "pass" ELSE "blocked",
          cited    |-> HopCitations(h) # {},
          reasoned |-> FALSE]

(* Slip: only what the walk recorded.                                       *)
PathRecorded == hops

(* Result.Path: the blocking hop is not always among the recorded ones.     *)
Path == IF blockedAt = NoHop \/ \E i \in DOMAIN hops : hops[i] = blockedAt
        THEN hops ELSE Append(hops, blockedAt)

(* The return direction's abstention is also in the list; it is reported    *)
(* once, as the return path's own result.                                   *)
ForwardAbstentions ==
    { a \in { abstentions[i] : i \in DOMAIN abstentions } : a.layer # "return_path" }

ReturnFinding == {returnPath} \ {NoReturn}

LayerResults ==
    { HopFinding(Path[i]) : i \in DOMAIN Path } \cup ForwardAbstentions \cup ReturnFinding

Findings ==
    LayerResults \cup { hostResults[i] : i \in DOMAIN hostResults }
                 \cup {Decided("resolution", "pass")}

(* What the Correlator promises rests on which findings are in its list,    *)
(* not on their order or number: here each finding is its own index.        *)
Correlator == INSTANCE VerdictSpec WITH
    Inputs <- Seq(Finding), ObservationLists <- Seq(Observation),
    input <- [f \in Findings |-> f], status <- stage

-----------------------------------------------------------------------------
(* Steps of the walk (query.Run).                                           *)

Init ==
    /\ stage = "locate"
    /\ destination \in {"collected", "external", "outside"}
    /\ skipFirewall \in BOOLEAN
    /\ nacl \in [Ends -> BOOLEAN]
    /\ inspected = 0
    /\ hops = << >> /\ blockedAt = NoHop /\ abstentions = << >>
    /\ walkVerdict = "PERMITTED"
    /\ returnPath = NoReturn /\ observations = << >>
    /\ hostResults = << >>
    /\ answer = Correlator!NoAnswer
    /\ drops = {} /\ unread = {} /\ overlooked = {}

(* A gate decided the flow: its hop is recorded, and a denying hop ends the *)
(* walk with the host stage next.                                           *)
Decide(name, allowed, next) ==
    /\ hops' = Append(hops, Hop(name, allowed))
    /\ IF allowed
       THEN stage' = next /\ UNCHANGED << blockedAt, walkVerdict >>
       ELSE /\ stage' = "host"
            /\ blockedAt' = Hop(name, allowed)
            /\ walkVerdict' = "BLOCKED"
    /\ UNCHANGED abstentions

(* The layers in ls drop the flow, those in us could not be read, and the   *)
(* conditions in cs were met.                                               *)
Overlook(ls, us, cs) ==
    /\ drops' = drops \cup ls
    /\ unread' = unread \cup us
    /\ overlooked' = overlooked \cup cs
    /\ Cardinality(overlooked') <= MaxConditions

Really(ls, us) == Overlook(ls, us, {})

(* The source is in no collected subnet: nothing is evaluated.              *)
SourceUnknown ==
    /\ stage = "locate"
    /\ hops' = << Hop("snapshot", FALSE) >>
    /\ blockedAt' = Hop("snapshot", FALSE)
    /\ walkVerdict' = "UNKNOWN"
    /\ stage' = "host"
    /\ \E ls \in SUBSET {"route", "nacl", "security_group", "firewall", "return_path"} :
           Really(ls, {"resolution"})
    /\ UNCHANGED << setup, inspected, abstentions, back, hostResults, answer >>

SourceKnown ==
    /\ stage = "locate"
    /\ stage' = "source_sg"
    /\ hops' = IF destination = "external" THEN << Hop("destination", TRUE) >> ELSE hops
    /\ UNCHANGED << setup, inspected, blockedAt, abstentions, walkVerdict, back,
                    hostResults, answer, drops, unread, overlooked >>

(* The groups of the endpoint at one end.                                   *)
EndpointSG(here, next) ==
    /\ stage = here
    /\ \E e \in Endpoints :
        /\ IF SGReading(e) = "abstain"
           THEN /\ abstentions' = Append(abstentions,
                       Abstain("security_group", e.interface))
                /\ stage' = next
                /\ UNCHANGED << hops, blockedAt, walkVerdict >>
           ELSE Decide("sg", SGReading(e) = "pass", next)
        /\ Overlook({ l \in {"security_group"} : ~SGPermits(e) },
                    { l \in {"security_group"} : SGReading(e) = "abstain" },
                    { c \in {"group rule"} : \E g \in e.groups : g.collected /\ ~g.exact })
    /\ UNCHANGED << setup, inspected, back, hostResults, answer >>

SourceSG == EndpointSG("source_sg", "source_nacl")

(* evalNACL: a NACL that is not in the snapshot decides nothing and leaves  *)
(* no trace.                                                                *)
SubnetNACL(end, here, next) ==
    /\ stage = here
    /\ \E allows, says, exact \in BOOLEAN :
        /\ exact => says = allows
        /\ IF nacl[end] THEN Decide("nacl", says, next)
                        ELSE stage' = next /\ UNCHANGED walk
        /\ Overlook({ l \in {"nacl"} : ~allows }, { l \in {"nacl"} : ~nacl[end] },
                    IF nacl[end] THEN { c \in {"nacl rule"} : ~exact } ELSE {"missing nacl"})
    /\ UNCHANGED << setup, inspected, back, hostResults, answer >>

SourceNACL == SubnetNACL("source", "source_nacl", "forward")

(* The route walk is diverted through an inspection VPC (evalFirewall).  A  *)
(* policy with a group that could not be evaluated still yields a hop, from *)
(* the groups that could.                                                   *)
Inspect ==
    /\ stage = "forward"
    /\ destination # "external"
    /\ inspected < MaxInspections
    /\ inspected' = inspected + 1
    /\ \E allows \in BOOLEAN :
        \/ /\ skipFirewall
           /\ hops' = Append(hops, Hop("inspection-vpc", TRUE))
           /\ Really({ l \in {"firewall"} : ~allows }, {"firewall"})
           /\ UNCHANGED << stage, blockedAt, abstentions, walkVerdict >>
        \/ \* the policy is in the snapshot
           /\ ~skipFirewall
           /\ \E says \in BOOLEAN, met \in SUBSET {"rule group", "next hop"} :
               /\ met = {} => says = allows
               /\ Decide("firewall", says, "forward")
               /\ Overlook({ l \in {"firewall"} : ~allows },
                           { l \in {"firewall"} : "rule group" \in met }, met)
        \/ \* the policy is not
           /\ ~skipFirewall
           /\ Decide("firewall", FALSE, "forward")
           /\ Overlook({ l \in {"firewall"} : ~allows }, {"firewall"}, {"policy"})
    /\ UNCHANGED << setup, back, hostResults, answer >>

(* Routing reaches the destination, or a VPC attachment towards an address  *)
(* outside the snapshot; towards a declared external network the walk ends  *)
(* at the first transit gateway table and whatever lies behind is unread.   *)
Arrive ==
    /\ stage = "forward"
    /\ hops' = Append(hops, Hop("route", TRUE))
    /\ stage' = IF destination = "collected" THEN "dest_nacl" ELSE "dest_outside"
    /\ LET behind == { l \in {"firewall"} : destination = "external" }
       IN  \E astray \in BOOLEAN, ls \in SUBSET {"route", "firewall"} :
              /\ ~astray => ls \subseteq behind
              /\ Overlook(ls, behind, { c \in {"next hop"} : astray })
    /\ UNCHANGED << setup, inspected, blockedAt, abstentions, walkVerdict, back,
                    hostResults, answer >>

(* Routing ends the walk; the hop that did it is not always recorded.  A    *)
(* next hop that is not in the snapshot, or of a kind the walk does not     *)
(* model, ends it as well.                                                  *)
RouteBlocked ==
    /\ stage = "forward"
    /\ \E recorded \in BOOLEAN :
           hops' = IF recorded THEN Append(hops, Hop("route", FALSE)) ELSE hops
    /\ blockedAt' = Hop("route", FALSE)
    /\ walkVerdict' = "BLOCKED"
    /\ stage' = "host"
    /\ \E astray \in BOOLEAN, ls \in SUBSET {"route", "firewall"} :
           /\ ~astray => ls = {"route"}
           /\ Overlook(ls, {}, { c \in {"next hop"} : astray })
    /\ UNCHANGED << setup, inspected, abstentions, back, hostResults, answer >>

DestinationNACL == SubnetNACL("destination", "dest_nacl", "dest_sg")

DestinationSG == EndpointSG("dest_sg", "return_route")

(* The destination's own policy is not in the snapshot at all; only its     *)
(* groups are said to be unread.                                            *)
DestinationOutside ==
    /\ stage = "dest_outside"
    /\ abstentions' = Append(abstentions, Abstain("security_group", FALSE))
    /\ stage' = "return_route"
    /\ \E ls \in SUBSET {"nacl", "security_group"} :
           Overlook(ls, {"nacl", "security_group"}, {"outside nacl"})
    /\ UNCHANGED << setup, inspected, hops, blockedAt, walkVerdict, back, hostResults, answer >>

(* What the reverse walk came to; an abstention joins the list as well, a   *)
(* block is left out of the forward verdict (recordReturn).                 *)
FileReturn(result) ==
    /\ returnPath' = result
    /\ abstentions' = IF result.verdict = "abstain" THEN Append(abstentions, result)
                      ELSE abstentions
    /\ stage' = "return_nacl"

(* returnCitations: every hop of the way back, or the subnet it starts in.  *)
ReturnCitations(cites) == IF cites = {} THEN {"subnet"} ELSE cites

(* A block stands whatever was skipped.                                     *)
ReturnResult(blocked, skipped, cites) ==
    [layer    |-> "return_path",
     verdict  |-> IF blocked THEN "blocked" ELSE IF skipped THEN "abstain" ELSE "pass",
     cited    |-> ReturnCitations(cites) # {},
     reasoned |-> skipped /\ ~blocked]

ReturnUnwalkable == Abstain("return_path", FALSE)

(* Asymmetry.Observation: cited on the components only one direction has.   *)
Observed(differences, stateful) ==
    IF differences = {} THEN << >>
    ELSE << [kind  |-> IF stateful THEN "asymmetric-stateful" ELSE "asymmetric",
             layer |-> "return_path", cited |-> differences # {}] >>

(* evalReturnPath: the reverse direction is walked as a flow of its own,    *)
(* with every firewall on it skipped; from an address outside the snapshot  *)
(* it cannot be walked.  evalAsymmetry: where it has hops and none of them  *)
(* blocks, they are compared with the forward ones.                         *)
ReturnRoute ==
    /\ stage = "return_route"
    /\ \/ /\ destination # "collected"
          /\ FileReturn(ReturnUnwalkable)
          /\ observations' = << >>
          /\ \E ls \in SUBSET {"return_path"} : Really(ls, {"return_path"})
       \/ /\ destination = "collected"
          /\ \E blocked, skipped, carries, astray \in BOOLEAN,
                cites \in SUBSET {"route"}, differences \in SUBSET {"hop"}, stateful \in BOOLEAN :
              /\ ~astray => /\ blocked => ~carries
                            /\ ~blocked /\ ~skipped => carries
              /\ FileReturn(ReturnResult(blocked, skipped, cites))
              /\ observations' = IF blocked \/ cites = {} THEN << >>
                                 ELSE Observed(differences, stateful)
              /\ Overlook({ l \in {"return_path"} : ~carries },
                          { l \in {"return_path"} : skipped /\ ~blocked },
                          { c \in {"return hop"} : astray })
    /\ UNCHANGED << setup, inspected, hops, blockedAt, walkVerdict, hostResults, answer >>

(* evalReturnNACL: out of the destination's subnet, then into the source's; *)
(* only a denial is recorded.  The return flow has every port, of which the *)
(* rules are asked for the first, 0.                                        *)
ReturnNACL ==
    /\ stage = "return_nacl"
    /\ \E denying, denial \in SUBSET Ends, exact \in BOOLEAN :
        LET met    == IF destination = "collected" THEN Ends ELSE {"source"}
            denied == \E end \in met \cap denial : nacl[end]
        IN  /\ exact => denial = denying
            /\ IF denied THEN Decide("nacl-return", FALSE, "host")
                         ELSE stage' = "host" /\ UNCHANGED walk
            /\ Overlook({ l \in {"return_path"} : denying # {} },
                        { l \in {"return_path"} : ~denied /\ \E end \in met : ~nacl[end] },
                        { c \in {"return rule"} : ~exact })
    /\ UNCHANGED << setup, inspected, back, hostResults, answer >>

-----------------------------------------------------------------------------
(* The stages after the walk (ops.Diagnose).                                *)

AbstainAll == [i \in 1 .. 2 |-> Abstain(HostLayers[i], FALSE)]

(* stageHost runs whatever the walk concluded.  Without a prober, an        *)
(* instance or a managed one both Layers abstain; else each check decides   *)
(* or abstains on its own (HostProbe, HostFirewall), of the instance the    *)
(* request names where it names one.                                        *)
HostStage ==
    /\ stage = "host"
    /\ stage' = "correlate"
    /\ \E ls \in SUBSET {"host_firewall", "host_listener"} :
        \/ /\ hostResults' = AbstainAll
           /\ Really(ls, {"host_firewall", "host_listener"})
        \/ \E silent, bs \in SUBSET {"host_firewall", "host_listener"},
              met \in SUBSET {"zone", "socket", "instance"} :
            /\ ls \ bs \subseteq UNION { Hides(c) : c \in met }
            /\ bs \ ls \subseteq UNION { Invents(c) : c \in met }
            /\ hostResults' = [i \in 1 .. 2 |->
                   IF HostLayers[i] \in silent THEN Abstain(HostLayers[i], TRUE)
                   ELSE Decided(HostLayers[i],
                                IF HostLayers[i] \in bs THEN "blocked" ELSE "pass")]
            /\ Overlook(ls, silent, met)
    /\ UNCHANGED << setup, inspected, walk, back, answer >>

Correlate ==
    /\ stage = "correlate"
    /\ IF Correlator!Usable
       THEN stage' = "done" /\ answer' = Correlator!Answer
       ELSE stage' = "refused" /\ UNCHANGED answer
    /\ UNCHANGED << setup, inspected, walk, back, hostResults, drops, unread, overlooked >>

Next ==
    \/ SourceUnknown \/ SourceKnown \/ SourceSG \/ SourceNACL
    \/ Inspect \/ Arrive \/ RouteBlocked
    \/ DestinationNACL \/ DestinationSG \/ DestinationOutside
    \/ ReturnRoute \/ ReturnNACL
    \/ HostStage \/ Correlate

Spec == Init /\ [][Next]_vars

-----------------------------------------------------------------------------
(* Properties.                                                              *)

Stages == {"locate", "source_sg", "source_nacl", "forward", "dest_nacl", "dest_sg",
           "dest_outside", "return_route", "return_nacl", "host", "correlate",
           "done", "refused"}

(* Every variable holds a value of its kind, and every finding handed to    *)
(* the Correlator names a Layer the Correlator knows.                       *)
TypeOK ==
    /\ stage \in Stages
    /\ inspected \in 0 .. MaxInspections
    /\ blockedAt \in { hops[i] : i \in DOMAIN hops } \cup {NoHop, Hop("route", FALSE)}
    /\ walkVerdict \in {"PERMITTED", "BLOCKED", "UNKNOWN"}
    /\ Findings \subseteq Finding
    /\ answer.primary \in Layer \cup {NoLayer}
    /\ drops \subseteq Layer
    /\ unread \subseteq Layer
    /\ overlooked \subseteq Conditions

(* An authoritative permit is true: with nothing blocked and the verdict    *)
(* authoritative, no gate on the path really drops the flow, unless it is   *)
(* one a condition hid.  A run with --skip-firewall claims less (README.md, *)
(* Known limitations).                                                      *)
PermitSound ==
    stage = "done" /\ ~skipFirewall /\ answer.authoritative /\ answer.primary = NoLayer
        => drops \subseteq Overlooked

(* A Layer reported as blocking really drops the flow: what the snapshot is *)
(* missing is never turned into a network finding (the comment on           *)
(* hopLayerResult, and design.md, "Abstain rather than assume"), but where  *)
(* a condition invented it.                                                 *)
BlockSound == stage = "done" => answer.blocked \subseteq drops \cup Invented

(* A Layer that drops the flow where it was met, or that the snapshot could *)
(* not decide, is never reported as cleared: "an unverified Layer is never  *)
(* converted into an implied pass" (design.md, Error handling), but where a *)
(* condition hid it.                                                        *)
UnreadNeverCleared ==
    stage = "done" => answer.cleared \cap (drops \cup unread) \subseteq Overlooked

(* What a diagnosis decides is what the network does: an authoritative      *)
(* permit, a blocking Layer and a cleared one alike, whatever is missing    *)
(* from the snapshot, but for the Layers that the conditions met on the way *)
(* hide or invent.                                                          *)
AnswerIsTrue == PermitSound /\ BlockSound /\ UnreadNeverCleared

(* The verdict is about the gate the walk stopped at: blocked at a hop, the *)
(* primary blocker is that hop's Layer, recorded or not; otherwise it is a  *)
(* blocked way back, which the walk leaves out of its own verdict           *)
(* (requirement 7.4), and only then what the host stage found.              *)
VerdictFollowsWalk ==
    stage = "done" =>
        IF walkVerdict = "BLOCKED" THEN answer.primary = HopLayer(blockedAt.layer)
        ELSE IF returnPath.verdict = "blocked" THEN answer.primary = "return_path"
        ELSE answer.primary \in {NoLayer, "host_firewall", "host_listener"}

(* No Layer goes unreported where it matters: the host Layers and the       *)
(* resolution always have a finding, and a verdict that found no blocker    *)
(* names every Layer a walk meets on any path.  Nor does the Correlator     *)
(* refuse what the stages hand it: whichever of them abstained or decided,  *)
(* each finding carries the reason or the citation, and each observation    *)
(* the citation, without which the whole diagnosis would be an error.       *)
NothingLeftOut ==
    /\ stage # "refused"
    /\ stage = "done" =>
        LET reported == answer.blocked \cup answer.cleared \cup Correlator!Unverified
        IN  /\ {"resolution", "host_firewall", "host_listener"} \subseteq reported
            /\ answer.primary = NoLayer /\ walkVerdict # "UNKNOWN" =>
                   {"route", "security_group", "return_path"} \subseteq reported

=============================================================================
