--------------------------- MODULE DiagnosisProofs ---------------------------
(***************************************************************************)
(* What is true of a diagnosis for every snapshot, whatever it holds of    *)
(* the endpoints' groups and however many inspection points a path has:    *)
(* each decision it reports is the network's, but for the conditions met   *)
(* on the way, the verdict is about the gate the walk stopped at, and no   *)
(* Layer is left out.                                                      *)
(***************************************************************************)
EXTENDS Diagnosis, VerdictFacts, TLAPS

(* What has been said so far, as sets: the hops of the walk with the one    *)
(* that blocked it, its abstentions, and what was heard of the host.        *)
Elements(s) == { s[i] : i \in DOMAIN s }

Met      == Elements(hops) \cup ({blockedAt} \ {NoHop})
Missed   == Elements(abstentions)
HostSaid == Elements(hostResults)

(* The gates that can stop a walk, and the hops there are.                  *)
Gates == {"sg", "nacl", "firewall", "route", "nacl-return"}

Hops ==
    { h \in [layer : Gates \cup {"snapshot", "destination", "inspection-vpc"},
             allowed : BOOLEAN] :
        /\ h.layer \in {"destination", "inspection-vpc"} => h.allowed
        /\ h.layer \in {"snapshot", "nacl-return"} => ~h.allowed }

(* Findings on the two ends' groups that abstain, and on the way back.      *)
GroupAbstentions == { Abstain("security_group", cited) : cited \in BOOLEAN }

Returns ==
    {NoReturn} \cup { f \in Finding : f.layer = "return_path" /\ Emittable(f) }

ReturnAbstentions == { f \in Returns \ {NoReturn} : f.verdict = "abstain" }

HostFindings ==
    { Abstain(l, cited) : l \in {"host_firewall", "host_listener"}, cited \in BOOLEAN }
    \cup { Decided(l, v) : l \in {"host_firewall", "host_listener"}, v \in {"pass", "blocked"} }

CitedObservations == { o \in Observation : ObservationEmittable(o) }

(* How far the call has come.                                               *)
PastSourceSG   == stage \notin {"locate", "source_sg"}
PastSourceNACL == stage \notin {"locate", "source_sg", "source_nacl"}
PastRoutes     == PastSourceNACL /\ stage # "forward"
PastDestination == stage \in {"return_route", "return_nacl", "host", "correlate", "done"}
PastReturn     == stage \in {"return_nacl", "host", "correlate", "done"}
Stopped        == stage \in {"host", "correlate", "done"}

-----------------------------------------------------------------------------
(* The inductive invariant, in parts.                                       *)

Kinds ==
    /\ stage \in Stages \ {"refused"}
    /\ destination \in {"collected", "external", "outside"}
    /\ skipFirewall \in BOOLEAN
    /\ nacl \in [Ends -> BOOLEAN]
    /\ inspected \in 0 .. MaxInspections
    /\ hops \in Seq(Hops)
    /\ blockedAt \in { hops[i] : i \in DOMAIN hops } \cup {NoHop, Hop("route", FALSE)}
    /\ walkVerdict \in {"PERMITTED", "BLOCKED", "UNKNOWN"}
    /\ abstentions \in Seq(GroupAbstentions \cup ReturnAbstentions)
    /\ returnPath \in Returns
    /\ observations \in Seq(CitedObservations)
    /\ hostResults \in Seq(HostFindings)
    /\ drops \subseteq Layer
    /\ unread \subseteq Layer
    /\ overlooked \subseteq Conditions

(* Where the walk stands: it goes on while nothing has blocked, and only a  *)
(* NACL on the way back can stop it once that way has been walked.          *)
Position ==
    /\ \A h \in Met : h.allowed \/ h = blockedAt
    /\ blockedAt = NoHop <=> walkVerdict = "PERMITTED"
    /\ walkVerdict = "BLOCKED" => blockedAt.layer \in Gates /\ ~blockedAt.allowed
    /\ walkVerdict = "UNKNOWN" => /\ blockedAt = Hop("snapshot", FALSE)
                                  /\ Met = {blockedAt}
    /\ ~Stopped => blockedAt = NoHop
    /\ ~PastReturn => returnPath = NoReturn
    /\ returnPath # NoReturn => blockedAt \in {NoHop, Hop("nacl-return", FALSE)}
    /\ stage \in {"dest_nacl", "dest_sg"} => destination = "collected"
    /\ stage = "dest_outside" => destination # "collected"
    /\ skipFirewall \/ destination = "external" => Hop("firewall", TRUE) \notin Met

(* A block is of a Layer that drops the flow, or one a condition invented.  *)
Blockable == drops \cup Invented

BlocksAreReal ==
    /\ walkVerdict = "BLOCKED" => HopLayer(blockedAt.layer) \in Blockable
    /\ returnPath.verdict = "blocked" => "return_path" \in Blockable
    /\ \A f \in HostSaid : f.verdict = "blocked" => f.layer \in Blockable

(* Something keeps the Layer from being cleared: the walk came to nothing   *)
(* or stopped at it, a finding on it that is no pass, or, for the firewall, *)
(* that no policy was asked.                                                *)
Said(l) ==
    \/ walkVerdict = "UNKNOWN" /\ ~Host(l)
    \/ walkVerdict = "BLOCKED" /\ l = HopLayer(blockedAt.layer)
    \/ l = "security_group" /\ Missed \cap GroupAbstentions # {}
    \/ l = "return_path" /\ returnPath.verdict # "pass"
    \/ l = "firewall" /\ (skipFirewall \/ destination = "external")
    \/ \E f \in HostSaid : f.layer = l /\ f.verdict # "pass"

(* A Layer that drops the flow, or was not read, is kept from being cleared *)
(* unless a condition hid it.                                               *)
UnreadIsSaid == \A l \in (drops \cup unread) \ Overlooked : Said(l)

(* A NACL that is missing was overlooked once it has been come past.        *)
NaclsAsked ==
    ~Stopped =>
        /\ PastSourceNACL /\ ~nacl["source"] => "missing nacl" \in overlooked
        /\ PastRoutes /\ stage # "dest_nacl" /\ destination = "collected" /\ ~nacl["destination"]
               => "missing nacl" \in overlooked

(* A walk nothing has stopped has something to say of every Layer it has    *)
(* come past, and nothing but abstentions of a destination outside.         *)
Covered ==
    walkVerdict = "PERMITTED" =>
        /\ PastSourceSG => Hop("sg", TRUE) \in Met \/ Missed \cap GroupAbstentions # {}
        /\ PastRoutes => Hop("route", TRUE) \in Met
        /\ PastReturn => returnPath # NoReturn
        /\ destination # "collected" /\ PastDestination => Missed \cap GroupAbstentions # {}
        /\ destination # "collected" /\ PastReturn => returnPath.verdict = "abstain"

HostHeard ==
    /\ stage \notin {"correlate", "done"} => hostResults = << >>
    /\ stage \in {"correlate", "done"} =>
           { f.layer : f \in HostSaid } = {"host_firewall", "host_listener"}

Concluded ==
    answer = IF stage = "done" THEN Correlator!Answer ELSE Correlator!NoAnswer

Inv == /\ Kinds /\ Position /\ BlocksAreReal /\ UnreadIsSaid
       /\ NaclsAsked /\ Covered /\ HostHeard /\ Concluded

-----------------------------------------------------------------------------
LEMMA ElementsOfAppend ==
    ASSUME NEW S, NEW s \in Seq(S), NEW e
    PROVE  Elements(Append(s, e)) = Elements(s) \cup {e}
<1>1. DOMAIN s = 1 .. Len(s) /\ DOMAIN Append(s, e) = 1 .. Len(s) + 1 /\ Len(s) \in Nat
  OBVIOUS
<1>2. /\ \A i \in DOMAIN s : Append(s, e)[i] = s[i]
      /\ Append(s, e)[Len(s) + 1] = e
  OBVIOUS
<1> QED
  BY <1>1, <1>2 DEF Elements

(* The vocabulary.                                                          *)

LEMMA ConditionValues ==
    /\ Hides("missing nacl") = {"nacl", "return_path"}
    /\ Hides("outside nacl") = {"nacl"}
    /\ Hides("nacl rule") = {"nacl"}              /\ Invents("nacl rule") = {"nacl"}
    /\ Hides("return rule") = {"return_path"}     /\ Invents("return rule") = {"return_path"}
    /\ Hides("return hop") = {"return_path"}      /\ Invents("return hop") = {"return_path"}
    /\ Hides("group rule") = {"security_group"}   /\ Invents("group rule") = {"security_group"}
    /\ Hides("next hop") = {"route", "firewall"}  /\ Invents("next hop") = {"route", "firewall"}
    /\ Hides("rule group") = {"firewall"}         /\ Invents("rule group") = {"firewall"}
    /\ Invents("policy") = {"firewall"}
BY DEF Hides, Invents

LEMMA HopLayerValues ==
    /\ HopLayer("route") = "route"              /\ HopLayer("inspection-vpc") = "route"
    /\ HopLayer("nacl") = "nacl"                /\ HopLayer("nacl-return") = "return_path"
    /\ HopLayer("sg") = "security_group"        /\ HopLayer("firewall") = "firewall"
    /\ HopLayer("destination") = "resolution"
BY DEF HopLayer

(* The Layer of each gate comes before the host's.                          *)
LEMMA GateLayers ==
    \A g \in Gates : /\ HopLayer(g) \in Layer \ {"resolution", "host_firewall", "host_listener"}
                     /\ FlowIndex(HopLayer(g)) < 7
BY HopLayerValues, FlowIndexValues DEF Gates

(* The two ways to make a finding make one the Correlator takes.            *)
LEMMA AbstainFacts ==
    ASSUME NEW l \in Layer, NEW cited \in BOOLEAN
    PROVE  /\ Abstain(l, cited) \in Finding
           /\ Emittable(Abstain(l, cited))
           /\ Abstain(l, cited).layer = l
           /\ Abstain(l, cited).verdict = "abstain"
BY DEF Abstain, Finding, LayerVerdict, Emittable

LEMMA DecidedFacts ==
    ASSUME NEW l \in Layer, NEW v \in {"pass", "blocked"}
    PROVE  /\ Decided(l, v) \in Finding
           /\ Emittable(Decided(l, v))
           /\ Decided(l, v).layer = l
           /\ Decided(l, v).verdict = v
BY DEF Decided, Finding, LayerVerdict, Emittable

(* What the Correlator makes of each kind of finding.                       *)
LEMMA HopFindings ==
    ASSUME NEW h \in Hops
    PROVE  /\ HopFinding(h) \in Finding
           /\ Emittable(HopFinding(h))
           /\ h.layer # "snapshot" =>
                  /\ HopFinding(h).layer = HopLayer(h.layer)
                  /\ HopFinding(h).verdict = IF h.allowed THEN "pass" ELSE "blocked"
           /\ h.layer = "snapshot" =>
                  HopFinding(h).layer = "resolution" /\ HopFinding(h).verdict = "abstain"
           /\ HopFinding(h).layer \in Layer \ {"host_firewall", "host_listener"}
<1>1. /\ h.layer \in {"sg", "nacl", "firewall", "route", "snapshot", "destination",
                      "inspection-vpc", "nacl-return"}
      /\ h.allowed \in BOOLEAN
  BY DEF Hops, Gates
<1>2. CASE h.layer = "snapshot"
  <2>1. HopFinding(h) = Abstain("resolution", FALSE)
    BY <1>2 DEF HopFinding
  <2>2. "resolution" \in Layer \ {"host_firewall", "host_listener"}
    BY FlowIndexValues
  <2> QED
    BY <1>2, <2>1, <2>2, AbstainFacts
<1>3. CASE h.layer # "snapshot"
  <2>1. HopLayer(h.layer) \in Layer \ {"host_firewall", "host_listener"}
    BY <1>1, <1>3, HopLayerValues, FlowIndexValues
  <2>2. HopFinding(h) = Decided(HopLayer(h.layer), IF h.allowed THEN "pass" ELSE "blocked")
    <3>1. HopCitations(h) # {}
      BY DEF HopCitations
    <3> QED
      BY <1>3, <3>1 DEF HopFinding, Decided
  <2> QED
    BY <1>1, <1>3, <2>1, <2>2, DecidedFacts
<1> QED
  BY <1>2, <1>3

LEMMA OtherFindings ==
    /\ \A f \in GroupAbstentions : /\ f \in Finding /\ Emittable(f)
                                   /\ f.layer = "security_group" /\ f.verdict = "abstain"
    /\ \A f \in Returns \ {NoReturn} : /\ f \in Finding /\ Emittable(f)
                                       /\ f.layer = "return_path"
    /\ \A f \in ReturnAbstentions : /\ f \in Finding /\ Emittable(f)
                                    /\ f.layer = "return_path" /\ f.verdict = "abstain"
    /\ NoReturn.verdict = "pass"
    /\ \A f \in HostFindings : /\ f \in Finding /\ Emittable(f)
                               /\ f.layer \in {"host_firewall", "host_listener"}
    /\ LET f == Decided("resolution", "pass")
       IN  f \in Finding /\ Emittable(f) /\ f.layer = "resolution" /\ f.verdict = "pass"
<1>0. {"resolution", "security_group", "return_path", "host_firewall", "host_listener"}
          \subseteq Layer
  BY FlowIndexValues
<1>1. \A f \in GroupAbstentions : /\ f \in Finding /\ Emittable(f)
                                  /\ f.layer = "security_group" /\ f.verdict = "abstain"
  BY <1>0, AbstainFacts DEF GroupAbstentions
<1>2. \A f \in Returns \ {NoReturn} : /\ f \in Finding /\ Emittable(f)
                                      /\ f.layer = "return_path"
  BY DEF Returns
<1>3. \A f \in HostFindings : /\ f \in Finding /\ Emittable(f)
                              /\ f.layer \in {"host_firewall", "host_listener"}
  BY <1>0, AbstainFacts, DecidedFacts DEF HostFindings
<1>4. NoReturn.verdict = "pass"
  BY DEF NoReturn
<1>5. \A f \in ReturnAbstentions : /\ f \in Finding /\ Emittable(f)
                                   /\ f.layer = "return_path" /\ f.verdict = "abstain"
  BY DEF Returns, ReturnAbstentions
<1> QED
  BY <1>0, <1>1, <1>2, <1>3, <1>4, <1>5, DecidedFacts

-----------------------------------------------------------------------------
(* What is reported.                                                        *)

LEMMA PathIsMet == Kinds => Elements(Path) = Met
<1> SUFFICES ASSUME Kinds PROVE Elements(Path) = Met
  OBVIOUS
<1>1. hops \in Seq(Hops)
  BY DEF Kinds
<1>2. CASE blockedAt = NoHop \/ \E i \in DOMAIN hops : hops[i] = blockedAt
  <2>1. Path = hops
    BY <1>2 DEF Path
  <2>2. blockedAt = NoHop \/ blockedAt \in Elements(hops)
    BY <1>2 DEF Elements
  <2> QED
    BY <2>1, <2>2 DEF Met
<1>3. CASE ~(blockedAt = NoHop \/ \E i \in DOMAIN hops : hops[i] = blockedAt)
  <2>1. Path = Append(hops, blockedAt)
    BY <1>3 DEF Path
  <2>2. Elements(Append(hops, blockedAt)) = Elements(hops) \cup {blockedAt}
    BY <1>1, ElementsOfAppend
  <2> QED
    BY <1>3, <2>1, <2>2 DEF Met
<1> QED
  BY <1>2, <1>3

LEMMA FindingsAre ==
    ASSUME Kinds, NEW f
    PROVE  f \in Findings <=> \/ \E h \in Met : f = HopFinding(h)
                              \/ f \in Missed /\ f.layer # "return_path"
                              \/ f = returnPath /\ f # NoReturn
                              \/ f \in HostSaid
                              \/ f = Decided("resolution", "pass")
<1>1. { HopFinding(Path[i]) : i \in DOMAIN Path } = { HopFinding(h) : h \in Met }
  BY PathIsMet DEF Elements
<1>2. ForwardAbstentions = { a \in Missed : a.layer # "return_path" }
  BY DEF ForwardAbstentions, Missed, Elements
<1>3. { hostResults[i] : i \in DOMAIN hostResults } = HostSaid
  BY DEF HostSaid, Elements
<1> QED
  BY <1>1, <1>2, <1>3 DEF Findings, LayerResults, ReturnFinding

LEMMA ReportedIs ==
    \A l, v : Correlator!Reported(l, v) <=> \E f \in Findings : f.layer = l /\ f.verdict = v
BY DEF Correlator!Reported

(* The contract's vocabulary is that of Verdicts.                           *)
LEMMA SameVocabulary ==
    /\ Correlator!Layer = Layer
    /\ Correlator!NoLayer = NoLayer
    /\ \A S : Correlator!Earliest(S) = Earliest(S)
    /\ \A f : Correlator!Emittable(f) <=> Emittable(f)
    /\ \A o : Correlator!ObservationEmittable(o) <=> ObservationEmittable(o)
<1>2. Correlator!Layer = Layer
  BY DEF Correlator!Layer, Layer, Correlator!FlowOrder, FlowOrder
<1>3. \A S : Correlator!Earliest(S) = Earliest(S)
  BY DEF Correlator!Earliest, Earliest, Correlator!NoLayer, NoLayer, Correlator!FlowIndex,
         FlowIndex, Correlator!FlowOrder, FlowOrder
<1>4. \A f : Correlator!Emittable(f) <=> Emittable(f)
  BY <1>2, Zenon DEF Correlator!Emittable, Emittable
<1>5. \A o : Correlator!ObservationEmittable(o) <=> ObservationEmittable(o)
  BY <1>2, Zenon DEF Correlator!ObservationEmittable, ObservationEmittable
<1> QED
  BY <1>2, <1>3, <1>4, <1>5 DEF Correlator!NoLayer, NoLayer

(* The kinds of the parts of what is reported.                              *)
LEMMA PartsAre ==
    ASSUME Kinds
    PROVE  /\ Met \subseteq Hops
           /\ Missed \subseteq GroupAbstentions \cup ReturnAbstentions
           /\ HostSaid \subseteq HostFindings
<1>1. \A i \in DOMAIN hops : hops[i] \in Hops
  BY DEF Kinds
<1>2. Hop("route", FALSE) \in Hops
  BY DEF Hops, Hop, Gates
<1>3. Met \subseteq Hops
  BY <1>1, <1>2 DEF Kinds, Met, Elements
<1>4. Missed \subseteq GroupAbstentions \cup ReturnAbstentions
  BY DEF Kinds, Missed, Elements
<1>5. HostSaid \subseteq HostFindings
  BY DEF Kinds, HostSaid, Elements
<1> QED
  BY <1>3, <1>4, <1>5

(* Every finding handed over is one the Correlator takes.                   *)
LEMMA FindingsAreUsable ==
    ASSUME Kinds
    PROVE  /\ Findings \subseteq Finding
           /\ \A f \in Findings : Emittable(f)
           /\ Correlator!Usable
<1>1. ASSUME NEW f \in Findings
      PROVE  f \in Finding /\ Emittable(f)
  <2>1. CASE \E h \in Met : f = HopFinding(h)
    BY <2>1, PartsAre, HopFindings
  <2>2. CASE f \in Missed /\ f.layer # "return_path"
    BY <2>2, PartsAre, OtherFindings
  <2>3. CASE f = returnPath /\ f # NoReturn
    BY <2>3, OtherFindings DEF Kinds
  <2>4. CASE f \in HostSaid
    BY <2>4, PartsAre, OtherFindings
  <2>5. CASE f = Decided("resolution", "pass")
    BY <2>5, OtherFindings
  <2> QED
    BY <2>1, <2>2, <2>3, <2>4, <2>5, FindingsAre
<1>2. \A i \in DOMAIN observations : ObservationEmittable(observations[i])
  BY DEF Kinds, CitedObservations
<1>3. Correlator!Usable
  BY <1>1, <1>2, SameVocabulary DEF Correlator!Usable
<1> QED
  BY <1>1, <1>3

(* Everything that was said is reported as it was said.                     *)
LEMMA SaidIsReported ==
    ASSUME Kinds
    PROVE  /\ \A h \in Met : h.layer # "snapshot" =>
                  Correlator!Reported(HopLayer(h.layer), IF h.allowed THEN "pass" ELSE "blocked")
           /\ \A h \in Met : h.layer = "snapshot" => Correlator!Reported("resolution", "abstain")
           /\ Missed \cap GroupAbstentions # {} => Correlator!Reported("security_group", "abstain")
           /\ returnPath # NoReturn => Correlator!Reported("return_path", returnPath.verdict)
           /\ \A f \in HostSaid : Correlator!Reported(f.layer, f.verdict)
           /\ Correlator!Reported("resolution", "pass")
<1>1. ASSUME NEW h \in Met
      PROVE  /\ h.layer # "snapshot" =>
                    Correlator!Reported(HopLayer(h.layer), IF h.allowed THEN "pass" ELSE "blocked")
             /\ h.layer = "snapshot" => Correlator!Reported("resolution", "abstain")
  <2>1. HopFinding(h) \in Findings
    BY FindingsAre
  <2>2. h \in Hops
    BY PartsAre
  <2> QED
    BY <2>1, <2>2, HopFindings, ReportedIs
<1>2. ASSUME NEW m \in Missed \cap GroupAbstentions
      PROVE  Correlator!Reported("security_group", "abstain")
  <2>1. m.layer = "security_group" /\ m.verdict = "abstain"
    BY OtherFindings
  <2>2. m \in Findings
    BY <2>1, FindingsAre
  <2> QED
    BY <2>1, <2>2, ReportedIs
<1>3. ASSUME returnPath # NoReturn
      PROVE  Correlator!Reported("return_path", returnPath.verdict)
  <2>1. returnPath \in Findings
    BY <1>3, FindingsAre
  <2>2. returnPath.layer = "return_path"
    BY <1>3, OtherFindings DEF Kinds
  <2> QED
    BY <2>1, <2>2, ReportedIs
<1>4. ASSUME NEW f \in HostSaid
      PROVE  Correlator!Reported(f.layer, f.verdict)
  <2>1. f \in Findings
    BY FindingsAre
  <2> QED
    BY <2>1, ReportedIs
<1>5. Correlator!Reported("resolution", "pass")
  <2>1. Decided("resolution", "pass") \in Findings
    BY FindingsAre
  <2> QED
    BY <2>1, OtherFindings, ReportedIs
<1> QED
  BY <1>1, <1>2, <1>3, <1>4, <1>5

(* The Layers reported as blocking: the gate the walk stopped at, a blocked *)
(* way back, and what the host stage found.                                 *)
LEMMA BlockersAre ==
    ASSUME Kinds, Position, NEW l
    PROVE  Correlator!Reported(l, "blocked") <=>
               \/ walkVerdict = "BLOCKED" /\ l = HopLayer(blockedAt.layer)
               \/ returnPath.verdict = "blocked" /\ l = "return_path"
               \/ \E f \in HostSaid : f.layer = l /\ f.verdict = "blocked"
<1>1. ASSUME walkVerdict = "BLOCKED"
      PROVE  Correlator!Reported(HopLayer(blockedAt.layer), "blocked")
  <2>1. blockedAt # NoHop /\ blockedAt.layer # "snapshot" /\ ~blockedAt.allowed
    BY <1>1 DEF Position, Gates
  <2>2. blockedAt \in Met
    BY <2>1 DEF Met
  <2> QED
    BY <2>1, <2>2, SaidIsReported
<1>2. ASSUME returnPath.verdict = "blocked"
      PROVE  Correlator!Reported("return_path", "blocked")
  <2>1. returnPath # NoReturn
    BY <1>2, OtherFindings
  <2> QED
    BY <1>2, <2>1, SaidIsReported
<1>3. ASSUME NEW f \in Findings, f.layer = l, f.verdict = "blocked"
      PROVE  \/ walkVerdict = "BLOCKED" /\ l = HopLayer(blockedAt.layer)
             \/ returnPath.verdict = "blocked" /\ l = "return_path"
             \/ \E g \in HostSaid : g.layer = l /\ g.verdict = "blocked"
  <2>1. CASE \E h \in Met : f = HopFinding(h)
    <3>1. PICK h \in Met : f = HopFinding(h)
      BY <2>1
    <3>2. h \in Hops
      BY PartsAre
    <3>3. h.layer # "snapshot" /\ ~h.allowed /\ l = HopLayer(h.layer)
      BY <1>3, <3>1, <3>2, HopFindings
    <3>4. h = blockedAt /\ walkVerdict \notin {"UNKNOWN"}
      BY <3>3 DEF Position, Hop
    <3>5. blockedAt # NoHop
      BY <3>3, <3>4 DEF NoHop, Hop
    <3> QED
      BY <3>3, <3>4, <3>5 DEF Position, Kinds
  <2>2. CASE f \in Missed /\ f.layer # "return_path"
    BY <1>3, <2>2, PartsAre, OtherFindings
  <2>3. CASE f = returnPath /\ f # NoReturn
    BY <1>3, <2>3, OtherFindings DEF Kinds
  <2>4. CASE f \in HostSaid
    BY <1>3, <2>4
  <2>5. CASE f = Decided("resolution", "pass")
    BY <1>3, <2>5, OtherFindings
  <2> QED
    BY <2>1, <2>2, <2>3, <2>4, <2>5, FindingsAre
<1>4. \A f \in HostSaid : Correlator!Reported(f.layer, f.verdict)
  BY SaidIsReported
<1> QED
  BY <1>1, <1>2, <1>3, <1>4, ReportedIs

(* A firewall is reported as passed only where a policy let the flow pass.  *)
LEMMA FirewallPasses ==
    ASSUME Kinds, Correlator!Reported("firewall", "pass")
    PROVE  Hop("firewall", TRUE) \in Met
<1>1. PICK f \in Findings : f.layer = "firewall" /\ f.verdict = "pass"
  BY ReportedIs
<1>2. PICK h \in Met : f = HopFinding(h)
  BY <1>1, PartsAre, FindingsAre, OtherFindings DEF Kinds
<1>3. h \in Hops
  BY PartsAre
<1>4. h.layer # "snapshot" /\ h.allowed /\ HopLayer(h.layer) = "firewall"
  BY <1>1, <1>2, <1>3, HopFindings
<1>5. h.layer = "firewall"
  BY <1>3, <1>4, HopLayerValues DEF Hops, Gates
<1>6. h = Hop("firewall", TRUE)
  BY <1>3, <1>4, <1>5 DEF Hops, Hop
<1> QED
  BY <1>2, <1>6

-----------------------------------------------------------------------------
(* What the invariant says of the answer.                                   *)

(* The answer, in the vocabulary of Verdicts; with no blocker it is         *)
(* authoritative only where nothing abstained.                              *)
LEMMA AnswerIs ==
    ASSUME Concluded, stage = "done"
    PROVE  /\ answer.blocked = { l \in Layer : Correlator!Reported(l, "blocked") }
           /\ answer.cleared = { l \in Layer : /\ Correlator!Reported(l, "pass")
                                               /\ ~Correlator!Reported(l, "blocked")
                                               /\ ~Correlator!Reported(l, "abstain") }
           /\ answer.primary = Earliest(answer.blocked)
           /\ Correlator!Unverified = { l \in Layer : /\ Correlator!Reported(l, "abstain")
                                                      /\ ~Correlator!Reported(l, "blocked") }
           /\ answer.authoritative /\ answer.blocked = {} => Correlator!Unverified = {}
<1> DEFINE B == Correlator!ShownBlocked
           U == Correlator!Unverified
<1>1. B = { l \in Layer : Correlator!Reported(l, "blocked") }
  BY SameVocabulary DEF Correlator!ShownBlocked
<1>2. U = { l \in Layer : /\ Correlator!Reported(l, "abstain")
                          /\ ~Correlator!Reported(l, "blocked") }
  BY SameVocabulary DEF Correlator!Unverified
<1>3. Correlator!Cleared = { l \in Layer : /\ Correlator!Reported(l, "pass")
                                           /\ ~Correlator!Reported(l, "blocked")
                                           /\ ~Correlator!Reported(l, "abstain") }
  BY <1>1, <1>2, SameVocabulary DEF Correlator!Cleared
<1>4. /\ answer.blocked = B
      /\ answer.cleared = Correlator!Cleared
      /\ answer.primary = Correlator!Earliest(B)
      /\ answer.authoritative = Correlator!Settled
  BY DEF Concluded, Correlator!Answer
<1>5. answer.primary = Earliest(B)
  BY <1>4, SameVocabulary
<1>6. ASSUME Correlator!Settled, B = {}
      PROVE  U = {}
  <2> SUFFICES ASSUME NEW l \in U PROVE FALSE
    OBVIOUS
  <2>1. Correlator!Earliest({} \cup {l}) = Correlator!Earliest({})
    BY <1>6 DEF Correlator!Settled
  <2>2. l \in Layer
    BY <1>2
  <2>3. Earliest({l}) = Earliest({})
    BY <2>1, SameVocabulary
  <2>4. Earliest({l}) = l /\ Earliest({}) = NoLayer
    BY <2>2, EarliestIsFirst
  <2> QED
    BY <2>2, <2>3, <2>4, NoLayerIsNoLayer
<1> HIDE DEF B, U
<1> QED
  BY <1>1, <1>2, <1>3, <1>4, <1>5, <1>6 DEF B, U

(* The Layers shown to block, as the stages found them.                     *)
LEMMA ShownToBlock ==
    ASSUME Inv, stage = "done", NEW l \in answer.blocked
    PROVE  \/ walkVerdict = "BLOCKED" /\ l = HopLayer(blockedAt.layer)
           \/ returnPath.verdict = "blocked" /\ l = "return_path"
           \/ \E f \in HostSaid : f.layer = l /\ f.verdict = "blocked"
BY AnswerIs, BlockersAre DEF Inv

LEMMA BlocksSoundly == Inv => BlockSound
<1> SUFFICES ASSUME Inv, stage = "done", NEW l \in answer.blocked
             PROVE  l \in Blockable
  BY DEF BlockSound, Blockable
<1> QED
  BY ShownToBlock DEF Inv, BlocksAreReal

(* A Layer with something said of it is not cleared.                        *)
LEMMA SaidIsNotCleared ==
    ASSUME Inv, stage = "done", NEW l \in answer.cleared
    PROVE  ~Said(l)
<1> USE DEF Inv
<1>1. /\ l \in Layer
      /\ Correlator!Reported(l, "pass")
      /\ ~Correlator!Reported(l, "blocked")
      /\ ~Correlator!Reported(l, "abstain")
  BY AnswerIs
<1>2. ~(walkVerdict = "UNKNOWN" /\ ~Host(l))
  <2> SUFFICES ASSUME walkVerdict = "UNKNOWN", ~Host(l) PROVE FALSE
    OBVIOUS
  <2>0. /\ Hop("snapshot", FALSE) # Hop("nacl-return", FALSE) /\ Hop("snapshot", FALSE) # NoHop
    BY DEF NoHop, Hop
  <2>1. Met = {Hop("snapshot", FALSE)} /\ returnPath = NoReturn
    BY <2>0 DEF Position
  <2>2. PICK f \in Findings : f.layer = l /\ f.verdict = "pass"
    BY <1>1, ReportedIs
  <2>3. f = Decided("resolution", "pass")
    <3>1. f \notin HostSaid
      BY <2>2, PartsAre, OtherFindings DEF Host
    <3>2. f \notin Missed
      BY <2>2, PartsAre, OtherFindings
    <3>3. f # HopFinding(Hop("snapshot", FALSE))
      <4>1. Hop("snapshot", FALSE) \in Hops /\ Hop("snapshot", FALSE).layer = "snapshot"
        BY DEF Hops, Hop
      <4> QED
        BY <2>2, <4>1, HopFindings
    <3> QED
      BY <2>1, <3>1, <3>2, <3>3, FindingsAre
  <2>4. l = "resolution"
    BY <2>2, <2>3, OtherFindings
  <2>5. Hop("snapshot", FALSE) \in Met /\ Hop("snapshot", FALSE).layer = "snapshot"
    BY <2>1 DEF Hop
  <2> QED
    BY <1>1, <2>4, <2>5, SaidIsReported
<1>3. ~(walkVerdict = "BLOCKED" /\ l = HopLayer(blockedAt.layer))
  BY <1>1, BlockersAre
<1>4. ~(l = "security_group" /\ Missed \cap GroupAbstentions # {})
  BY <1>1, SaidIsReported
<1>5. ~(l = "return_path" /\ returnPath.verdict # "pass")
  <2> SUFFICES ASSUME l = "return_path", returnPath.verdict # "pass" PROVE FALSE
    OBVIOUS
  <2>1. returnPath # NoReturn
    BY OtherFindings
  <2>2. returnPath \in Finding
    BY <2>1, OtherFindings DEF Kinds
  <2>3. returnPath.verdict \in {"blocked", "abstain"}
    BY <2>2 DEF Finding, LayerVerdict
  <2> QED
    BY <1>1, <2>1, <2>3, SaidIsReported
<1>6. ~(l = "firewall" /\ (skipFirewall \/ destination = "external"))
  BY <1>1, FirewallPasses DEF Position
<1>7. ~\E f \in HostSaid : f.layer = l /\ f.verdict # "pass"
  <2> SUFFICES ASSUME NEW f \in HostSaid, f.layer = l, f.verdict # "pass" PROVE FALSE
    OBVIOUS
  <2>1. f \in Finding
    BY PartsAre, OtherFindings
  <2>2. f.verdict \in {"blocked", "abstain"}
    BY <2>1 DEF Finding, LayerVerdict
  <2> QED
    BY <1>1, <2>2, SaidIsReported
<1> QED
  BY <1>2, <1>3, <1>4, <1>5, <1>6, <1>7 DEF Said

LEMMA UnreadIsNotCleared == Inv => UnreadNeverCleared
<1> SUFFICES ASSUME Inv, stage = "done", NEW l \in answer.cleared \cap (drops \cup unread)
             PROVE  l \in Overlooked
  BY DEF UnreadNeverCleared
<1> QED
  BY SaidIsNotCleared DEF Inv, UnreadIsSaid

(* With nothing blocked and nothing unverified, nothing is said of a Layer  *)
(* that would keep it from being cleared.                                   *)
LEMMA PermitsSoundly == Inv => PermitSound
<1> SUFFICES ASSUME Inv, stage = "done", ~skipFirewall, answer.authoritative,
                    answer.primary = NoLayer, NEW l \in drops \ Overlooked
             PROVE  FALSE
  BY DEF PermitSound
<1> USE DEF Inv
<1>1. answer.blocked = {}
  <2>1. answer.blocked \subseteq Layer
    BY AnswerIs
  <2> QED
    BY <2>1, AnswerIs, EarliestIsFirst, NoLayerIsNoLayer
<1>2. \A m \in Layer : ~Correlator!Reported(m, "blocked") /\ ~Correlator!Reported(m, "abstain")
  BY <1>1, AnswerIs
<1>3. {"resolution", "security_group", "return_path"} \subseteq Layer
  BY FlowIndexValues
<1>4. walkVerdict # "BLOCKED"
  <2> SUFFICES ASSUME walkVerdict = "BLOCKED" PROVE FALSE
    OBVIOUS
  <2>1. HopLayer(blockedAt.layer) \in Layer
    BY GateLayers DEF Position
  <2> QED
    BY <1>2, <2>1, BlockersAre
<1>5. walkVerdict # "UNKNOWN"
  <2> SUFFICES ASSUME walkVerdict = "UNKNOWN" PROVE FALSE
    OBVIOUS
  <2>1. blockedAt \in Met /\ blockedAt.layer = "snapshot"
    BY DEF Position, Met, NoHop, Hop
  <2> QED
    BY <1>2, <1>3, <2>1, SaidIsReported
<1>6. Missed \cap GroupAbstentions = {}
  BY <1>2, <1>3, SaidIsReported
<1>7. destination = "collected"
  BY <1>4, <1>5, <1>6 DEF Kinds, Covered, PastDestination
<1>8. returnPath.verdict = "pass"
  <2>1. CASE returnPath = NoReturn
    BY <2>1, OtherFindings
  <2>2. CASE returnPath # NoReturn
    <3>1. returnPath.verdict \in {"pass", "blocked", "abstain"}
      BY <2>2, OtherFindings DEF Kinds, Finding, LayerVerdict
    <3> QED
      BY <1>2, <1>3, <2>2, <3>1, SaidIsReported
  <2> QED
    BY <2>1, <2>2
<1>9. ASSUME NEW f \in HostSaid
      PROVE  f.verdict = "pass"
  <2>1. f \in Finding /\ f.layer \in Layer
    BY PartsAre, OtherFindings DEF Emittable
  <2>2. f.verdict \in {"pass", "blocked", "abstain"}
    BY <2>1 DEF Finding, LayerVerdict
  <2>3. Correlator!Reported(f.layer, f.verdict)
    BY SaidIsReported
  <2> QED
    BY <1>2, <2>1, <2>2, <2>3
<1>10. Said(l)
  BY DEF UnreadIsSaid
<1> QED
  BY <1>4, <1>5, <1>6, <1>7, <1>8, <1>9, <1>10 DEF Said

LEMMA FollowsWalk == Inv => VerdictFollowsWalk
<1> SUFFICES ASSUME Inv, stage = "done"
             PROVE  IF walkVerdict = "BLOCKED" THEN answer.primary = HopLayer(blockedAt.layer)
                    ELSE IF returnPath.verdict = "blocked" THEN answer.primary = "return_path"
                    ELSE answer.primary \in {NoLayer, "host_firewall", "host_listener"}
  BY DEF VerdictFollowsWalk
<1> USE DEF Inv
<1> DEFINE B == answer.blocked
<1>1. B \subseteq Layer /\ answer.primary = Earliest(B)
  BY AnswerIs
<1>2. \A f \in HostSaid : f.layer \in {"host_firewall", "host_listener"}
  BY PartsAre, OtherFindings
<1>3. FlowIndex("host_firewall") = 7 /\ FlowIndex("host_listener") = 8
  BY FlowIndexValues
<1>4. \A l \in Layer : l \in B <=> Correlator!Reported(l, "blocked")
  BY AnswerIs
<1> HIDE DEF B
<1>5. CASE walkVerdict = "BLOCKED"
  <2> DEFINE g == HopLayer(blockedAt.layer)
  <2>1. g \in Layer /\ FlowIndex(g) < 7 /\ FlowIndex(g) \in Int
    BY <1>5, GateLayers, FlowIndexInjective DEF Position
  <2>2. g \in B
    BY <1>4, <1>5, <2>1, BlockersAre
  <2>3. returnPath.verdict = "blocked" => g = "return_path"
    <3> SUFFICES ASSUME returnPath.verdict = "blocked" PROVE g = "return_path"
      OBVIOUS
    <3>1. blockedAt = Hop("nacl-return", FALSE)
      BY <1>5, OtherFindings DEF Position
    <3> QED
      BY <3>1, HopLayerValues DEF Hop
  <2>4. \A m \in B : m = g \/ m \in {"host_firewall", "host_listener"}
    BY <1>2, <2>3, ShownToBlock DEF B
  <2> HIDE DEF g
  <2>5. \A m \in B : FlowIndex(g) <= FlowIndex(m)
    BY <1>3, <2>1, <2>4
  <2>6. g = Earliest(B)
    BY <1>1, <2>2, <2>5, EarliestIsFirst
  <2> QED
    BY <1>1, <1>5, <2>6 DEF g
<1>6. CASE walkVerdict # "BLOCKED" /\ returnPath.verdict = "blocked"
  <2>1. "return_path" \in Layer /\ FlowIndex("return_path") = 6
    BY FlowIndexValues
  <2>2. "return_path" \in B
    BY <1>4, <1>6, <2>1, BlockersAre
  <2>3. \A m \in B : m = "return_path" \/ m \in {"host_firewall", "host_listener"}
    BY <1>2, <1>6, ShownToBlock DEF B
  <2>4. \A m \in B : FlowIndex("return_path") <= FlowIndex(m)
    BY <1>3, <2>1, <2>3
  <2>5. "return_path" = Earliest(B)
    BY <1>1, <2>2, <2>4, EarliestIsFirst
  <2> QED
    BY <1>1, <1>6, <2>5
<1>7. CASE walkVerdict # "BLOCKED" /\ returnPath.verdict # "blocked"
  <2>1. B \subseteq {"host_firewall", "host_listener"}
    BY <1>2, <1>7, ShownToBlock DEF B
  <2> QED
    BY <1>1, <1>7, <2>1, EarliestIsFirst
<1> QED
  BY <1>5, <1>6, <1>7

LEMMA LeavesNothingOut == Inv => NothingLeftOut
<1> SUFFICES ASSUME Inv PROVE NothingLeftOut
  OBVIOUS
<1> USE DEF Inv
<1> DEFINE reported == answer.blocked \cup answer.cleared \cup Correlator!Unverified
<1>1. stage # "refused"
  BY DEF Kinds
<1>2. ASSUME stage = "done", NEW l \in Layer,
             \E v \in {"pass", "blocked", "abstain"} : Correlator!Reported(l, v)
      PROVE  l \in reported
  BY <1>2, AnswerIs
<1> HIDE DEF reported
<1>3. ASSUME stage = "done"
      PROVE  {"resolution", "host_firewall", "host_listener"} \subseteq reported
  <2>1. "resolution" \in reported
    BY <1>2, <1>3, SaidIsReported, FlowIndexValues
  <2>2. ASSUME NEW l \in {"host_firewall", "host_listener"} PROVE l \in reported
    <3>1. PICK f \in HostSaid : f.layer = l
      BY <1>3 DEF HostHeard
    <3>2. f \in Finding
      BY <3>1, PartsAre, OtherFindings
    <3>3. f.verdict \in {"pass", "blocked", "abstain"} /\ Correlator!Reported(l, f.verdict)
      BY <3>1, <3>2, SaidIsReported DEF Finding, LayerVerdict
    <3> QED
      BY <1>2, <1>3, <3>3, FlowIndexValues
  <2> QED
    BY <2>1, <2>2
<1>4. ASSUME stage = "done", answer.primary = NoLayer, walkVerdict # "UNKNOWN"
      PROVE  {"route", "security_group", "return_path"} \subseteq reported
  <2>1. walkVerdict = "PERMITTED"
    <3> SUFFICES ASSUME walkVerdict = "BLOCKED" PROVE FALSE
      BY <1>4 DEF Kinds
    <3>1. HopLayer(blockedAt.layer) \in Layer
      BY GateLayers DEF Position
    <3>2. HopLayer(blockedAt.layer) = NoLayer
      BY <1>4, FollowsWalk DEF VerdictFollowsWalk
    <3> QED
      BY <3>1, <3>2, NoLayerIsNoLayer
  <2>2. /\ Hop("sg", TRUE) \in Met \/ Missed \cap GroupAbstentions # {}
        /\ Hop("route", TRUE) \in Met
        /\ returnPath # NoReturn
    BY <1>4, <2>1 DEF Covered, PastSourceSG, PastRoutes, PastReturn, PastSourceNACL
  <2>3. "route" \in reported
    BY <1>2, <1>4, <2>2, SaidIsReported, HopLayerValues, FlowIndexValues DEF Hop
  <2>4. "security_group" \in reported
    BY <1>2, <1>4, <2>2, SaidIsReported, HopLayerValues, FlowIndexValues DEF Hop
  <2>5. "return_path" \in reported
    <3>1. returnPath.verdict \in {"pass", "blocked", "abstain"}
      BY <2>2, OtherFindings DEF Kinds, Finding, LayerVerdict
    <3> QED
      BY <1>2, <1>4, <2>2, <3>1, SaidIsReported, FlowIndexValues
  <2> QED
    BY <2>3, <2>4, <2>5
<1> QED
  BY <1>1, <1>3, <1>4 DEF NothingLeftOut, reported

LEMMA IsTyped == Inv => TypeOK
<1> SUFFICES ASSUME Inv PROVE TypeOK
  OBVIOUS
<1> USE DEF Inv
<1>1. Findings \subseteq Finding
  BY FindingsAreUsable
<1>2. answer.primary \in Layer \cup {NoLayer}
  <2>1. CASE stage = "done"
    <3>1. answer.primary = Earliest(answer.blocked) /\ answer.blocked \subseteq Layer
      BY <2>1, AnswerIs
    <3> QED
      BY <3>1, EarliestIsFirst
  <2>2. CASE stage # "done"
    BY <2>2, SameVocabulary DEF Concluded, Correlator!NoAnswer
  <2> QED
    BY <2>1, <2>2
<1> QED
  BY <1>1, <1>2 DEF Kinds, TypeOK

-----------------------------------------------------------------------------
(* The invariant holds at first and is kept, step by step.                  *)

LEMMA InvInit == Init => Inv
<1> SUFFICES ASSUME Init PROVE Inv
  OBVIOUS
<1>1. Met = {} /\ Missed = {} /\ HostSaid = {}
  BY DEF Init, Met, Missed, HostSaid, Elements
<1>2. Kinds
  BY BoundAssumption DEF Init, Kinds, Stages, Returns
<1>3. Position
  BY <1>1, OtherFindings DEF Init, Position, Stopped, PastReturn
<1>4. BlocksAreReal
  BY <1>1, OtherFindings DEF Init, BlocksAreReal
<1>5. UnreadIsSaid
  BY <1>1 DEF Init, UnreadIsSaid
<1>6. NaclsAsked /\ Covered /\ HostHeard
  BY DEF Init, NaclsAsked, Covered, HostHeard, PastSourceSG, PastSourceNACL, PastRoutes,
         PastReturn, PastDestination
<1>7. Concluded
  BY DEF Init, Concluded
<1> QED
  BY <1>2, <1>3, <1>4, <1>5, <1>6, <1>7 DEF Inv

(* While the walk is going on: nothing has blocked, nobody has asked the    *)
(* host, and the Correlator has not answered.                               *)
LEMMA Walking ==
    ASSUME Inv, ~Stopped
    PROVE  /\ blockedAt = NoHop /\ walkVerdict = "PERMITTED"
           /\ blockedAt # Hop("firewall", FALSE)
           /\ hostResults = << >> /\ HostSaid = {}
           /\ answer = Correlator!NoAnswer
           /\ \A h \in Met : h.allowed
           /\ Met = Elements(hops)
<1>1. HostSaid = {}
  BY DEF Inv, HostHeard, Stopped, HostSaid, Elements
<1>2. /\ blockedAt = NoHop /\ walkVerdict = "PERMITTED" /\ \A h \in Met : h.allowed
      /\ blockedAt # Hop("firewall", FALSE)
  BY DEF Inv, Position, NoHop, Hop
<1>3. Met = Elements(hops)
  BY <1>2 DEF Met
<1> QED
  BY <1>1, <1>2, <1>3 DEF Inv, HostHeard, Concluded, Stopped

(* What a hop adds to the walk.                                             *)
LEMMA OneMoreHop ==
    ASSUME Kinds, NEW h \in Hops, hops' = Append(hops, h),
           blockedAt' = blockedAt \/ (blockedAt = NoHop /\ blockedAt' = h)
    PROVE  /\ hops' \in Seq(Hops)
           /\ h \in Elements(hops)'
           /\ Met' = Met \cup {h}
<1>1. hops \in Seq(Hops) /\ hops' \in Seq(Hops)
  BY DEF Kinds
<1>2. Elements(hops)' = Elements(hops) \cup {h}
  BY <1>1, ElementsOfAppend DEF Elements
<1>3. h # NoHop
  BY DEF Hops, Gates, NoHop, Hop
<1> QED
  BY <1>1, <1>2, <1>3 DEF Met

(* A gate's decision, and no other part of the walk.                        *)
LEMMA Decision ==
    ASSUME Inv, ~Stopped, NEW name \in Gates, NEW allowed \in BOOLEAN, NEW next,
           Hop(name, allowed) \in Hops, Decide(name, allowed, next)
    PROVE  /\ hops' \in Seq(Hops)
           /\ blockedAt' \in Elements(hops)' \cup {NoHop}
           /\ Met' = Met \cup {Hop(name, allowed)}
           /\ Missed' = Missed /\ abstentions' = abstentions
           /\ allowed => /\ stage' = next
                         /\ blockedAt' = NoHop
                         /\ walkVerdict' = "PERMITTED"
           /\ ~allowed => /\ stage' = "host"
                          /\ blockedAt' = Hop(name, FALSE)
                          /\ walkVerdict' = "BLOCKED"
<1> DEFINE h == Hop(name, allowed)
<1>1. blockedAt = NoHop /\ walkVerdict = "PERMITTED" /\ Kinds
  BY Walking DEF Inv
<1>2. hops' = Append(hops, h) /\ abstentions' = abstentions
  BY DEF Decide
<1>3. allowed => stage' = next /\ blockedAt' = NoHop /\ walkVerdict' = "PERMITTED"
  BY <1>1 DEF Decide
<1>4. ~allowed => stage' = "host" /\ blockedAt' = h /\ walkVerdict' = "BLOCKED"
  BY DEF Decide
<1>5. allowed = FALSE \/ allowed = TRUE
  OBVIOUS
<1>6. hops' \in Seq(Hops) /\ h \in Elements(hops)' /\ Met' = Met \cup {h}
  <2>1. blockedAt' = blockedAt \/ (blockedAt = NoHop /\ blockedAt' = h)
    BY <1>1, <1>3, <1>4, <1>5
  <2>2. h \in Hops
    OBVIOUS
  <2> HIDE DEF h
  <2> QED
    BY <1>1, <1>2, <2>1, <2>2, OneMoreHop
<1>7. Missed' = Missed
  BY <1>2 DEF Missed, Elements
<1>8. ~allowed => h = Hop(name, FALSE)
  BY <1>5
<1>9. blockedAt' \in Elements(hops)' \cup {NoHop}
  BY <1>3, <1>4, <1>5, <1>6
<1> HIDE DEF h
<1> QED
  BY <1>2, <1>3, <1>4, <1>6, <1>7, <1>8, <1>9 DEF h

LEMMA OneMoreAbstention ==
    ASSUME Kinds, NEW a \in GroupAbstentions \cup ReturnAbstentions,
           abstentions' = Append(abstentions, a)
    PROVE  /\ abstentions' \in Seq(GroupAbstentions \cup ReturnAbstentions)
           /\ Missed' = Missed \cup {a}
<1> DEFINE S == GroupAbstentions \cup ReturnAbstentions
<1>1. abstentions \in Seq(S) /\ a \in S
  BY DEF Kinds
<1> HIDE DEF S
<1>2. abstentions' \in Seq(S)
  BY <1>1
<1>3. Elements(Append(abstentions, a)) = Elements(abstentions) \cup {a}
  BY <1>1, ElementsOfAppend
<1> QED
  BY <1>2, <1>3 DEF Missed, Elements, S

(* A step of the walk asks nothing of the host nor of the Correlator.       *)
LEMMA StillWalking ==
    ASSUME Inv, ~Stopped, UNCHANGED << hostResults, answer >>, stage' \notin {"correlate", "done"}
    PROVE  HostSaid' = {} /\ HostHeard' /\ Concluded'
<1>1. hostResults' = << >> /\ HostSaid' = HostSaid /\ HostSaid = {}
  BY Walking DEF HostSaid, Elements
<1>2. HostHeard'
  BY <1>1 DEF HostHeard
<1>3. Concluded'
  BY Walking DEF Concluded, Correlator!NoAnswer
<1> QED
  BY <1>1, <1>2, <1>3

(* The histories only grow, and with them what the conditions explain.      *)
LEMMA HistoriesGrow ==
    ASSUME NEW ls, NEW us, NEW cs, Overlook(ls, us, cs)
    PROVE  /\ drops' = drops \cup ls /\ unread' = unread \cup us
           /\ overlooked' = overlooked \cup cs
           /\ Overlooked \subseteq Overlooked'
           /\ Blockable \cup ls \subseteq Blockable'
           /\ \A c \in cs : Hides(c) \subseteq Overlooked' /\ Invents(c) \subseteq Blockable'
<1>1. /\ drops' = drops \cup ls /\ unread' = unread \cup us
      /\ overlooked' = overlooked \cup cs
  BY DEF Overlook
<1>2. \A c \in overlooked' : Hides(c) \subseteq Overlooked'
  BY DEF Overlooked
<1>3. \A c \in overlooked' : Invents(c) \subseteq Invented'
  BY DEF Invented
<1>4. Overlooked \subseteq Overlooked'
  BY <1>1, <1>2 DEF Overlooked
<1>5. Invented \subseteq Invented'
  BY <1>1, <1>3 DEF Invented
<1> QED
  BY <1>1, <1>2, <1>3, <1>4, <1>5 DEF Blockable

(* What a step must answer for: the Layers that drop the flow or were not   *)
(* read in it are said, or hidden by a condition it met.                    *)
LEMMA SaidOrHidden ==
    ASSUME Inv, NEW ls \in SUBSET Layer, NEW us \in SUBSET Layer, NEW cs \in SUBSET Conditions,
           Overlook(ls, us, cs),
           \A l : Said(l) => Said(l)',
           \A l \in ls \cup us : Said(l)' \/ \E c \in cs : l \in Hides(c)
    PROVE  /\ UnreadIsSaid'
           /\ drops' \subseteq Layer /\ unread' \subseteq Layer /\ overlooked' \subseteq Conditions
<1>1. /\ drops' = drops \cup ls /\ unread' = unread \cup us
      /\ overlooked' = overlooked \cup cs
      /\ Overlooked \subseteq Overlooked'
      /\ \A c \in cs : Hides(c) \subseteq Overlooked'
  BY HistoriesGrow
<1>2. UnreadIsSaid'
  BY <1>1 DEF Inv, UnreadIsSaid
<1> QED
  BY <1>1, <1>2 DEF Inv, Kinds

(* Nothing said in the walk is taken back.                                  *)
LEMMA SaidStays ==
    ASSUME Inv, ~Stopped, UNCHANGED << destination, skipFirewall >>,
           Missed \subseteq Missed', returnPath' = returnPath \/ returnPath = NoReturn
    PROVE  \A l : Said(l) => Said(l)'
BY Walking, OtherFindings DEF Said

(* A step of the walk that meets nothing new of a kind leaves what blocked  *)
(* and what was said alone.                                                 *)
LEMMA BlocksStay ==
    ASSUME Inv, ~Stopped, HostSaid' = {}, Blockable \subseteq Blockable',
           returnPath' = returnPath,
           walkVerdict' = "BLOCKED" => HopLayer(blockedAt'.layer) \in Blockable'
    PROVE  BlocksAreReal'
BY DEF Inv, BlocksAreReal

(* Groups that could be read say what they do, but for a rule of theirs     *)
(* that is not read as it means.                                            *)
LEMMA ReadingIsTrue ==
    ASSUME NEW e \in Endpoints
    PROVE  /\ SGReading(e) \in {"abstain", "pass", "blocked"}
           /\ \/ /\ SGReading(e) = "pass" => SGPermits(e)
                 /\ SGReading(e) = "blocked" => ~SGPermits(e)
              \/ \E g \in e.groups : g.collected /\ ~g.exact
           /\ e.interface \in BOOLEAN
<1> DEFINE groups == { g \in e.groups : g.collected }
<1>1. e.groups \subseteq SecurityGroup /\ e.interface \in BOOLEAN
  BY EndpointsAssumption
<1>2. \A g \in groups : /\ g.exact /\ g.rules = "permit" => g.permits
                        /\ g.exact /\ g.rules = "silent" => ~g.permits
                        /\ g.rules \in {"permit", "silent", "undecidable"}
  BY <1>1, EndpointsAssumption DEF Truthful, SecurityGroup
<1>3. groups \subseteq e.groups /\ \A g \in groups : g.collected
  OBVIOUS
<1>4. SGReading(e) = IF ~e.interface \/ groups = {} THEN "abstain"
                     ELSE IF \E g \in groups : g.rules = "permit" THEN "pass"
                     ELSE IF groups # e.groups \/ \E g \in groups : g.rules = "undecidable"
                          THEN "abstain"
                     ELSE "blocked"
  BY Zenon DEF SGReading
<1> HIDE DEF groups
<1>5. SGReading(e) \in {"abstain", "pass", "blocked"}
  BY <1>4
<1>6. SGReading(e) = "pass" => \E g \in groups : g.rules = "permit"
  BY <1>4
<1>7. SGReading(e) = "blocked" => groups = e.groups /\ \A g \in groups : g.rules = "silent"
  BY <1>2, <1>4
<1> QED
  BY <1>1, <1>2, <1>3, <1>5, <1>6, <1>7 DEF SGPermits

(* The groups of the endpoint at either end.                                *)
LEMMA KeptBySG ==
    ASSUME Inv, NEW here, NEW next, EndpointSG(here, next),
           \/ here = "source_sg" /\ next = "source_nacl"
           \/ here = "dest_sg" /\ next = "return_route"
    PROVE  Inv'
<1>1. PICK e \in Endpoints :
        /\ IF SGReading(e) = "abstain"
           THEN /\ abstentions' = Append(abstentions, Abstain("security_group", e.interface))
                /\ stage' = next
                /\ UNCHANGED << hops, blockedAt, walkVerdict >>
           ELSE Decide("sg", SGReading(e) = "pass", next)
        /\ Overlook({ l \in {"security_group"} : ~SGPermits(e) },
                    { l \in {"security_group"} : SGReading(e) = "abstain" },
                    { c \in {"group rule"} : \E g \in e.groups : g.collected /\ ~g.exact })
  BY Zenon DEF EndpointSG
<1> DEFINE ls == { l \in {"security_group"} : ~SGPermits(e) }
           us == { l \in {"security_group"} : SGReading(e) = "abstain" }
           cs == { c \in {"group rule"} : \E g \in e.groups : g.collected /\ ~g.exact }
<1>2. /\ stage = here /\ ~Stopped /\ ~PastReturn
      /\ UNCHANGED << destination, skipFirewall, nacl, inspected, returnPath, observations,
                      hostResults, answer >>
  BY DEF EndpointSG, setup, back, Stopped, PastReturn
<1>3. /\ Kinds /\ returnPath = NoReturn /\ destination' = destination
      /\ here = "dest_sg" => destination = "collected"
  BY <1>2 DEF Inv, Position
<1>4. /\ "security_group" \in Layer /\ "group rule" \in Conditions
      /\ Hides("group rule") = {"security_group"} /\ Invents("group rule") = {"security_group"}
  BY FlowIndexValues, ConditionValues DEF Conditions
<1>5. /\ Overlook(ls, us, cs)
      /\ ls \in SUBSET Layer /\ us \in SUBSET Layer /\ cs \in SUBSET Conditions
  BY <1>1, <1>4
<1>6. /\ SGReading(e) \in {"abstain", "pass", "blocked"}
      /\ SGReading(e) = "pass" => SGPermits(e) \/ "group rule" \in cs
      /\ SGReading(e) = "blocked" => ~SGPermits(e) \/ "group rule" \in cs
  BY ReadingIsTrue
<1>7. /\ ls \cup us \subseteq {"security_group"}
      /\ ls \cup us # {} => SGReading(e) = "abstain" \/ SGReading(e) = "blocked"
                            \/ "group rule" \in cs
      /\ SGReading(e) = "blocked" => "security_group" \in ls \/ "group rule" \in cs
  BY <1>6
<1> HIDE DEF ls, us, cs
<1>8. /\ overlooked \subseteq overlooked' /\ Blockable \cup ls \subseteq Blockable'
      /\ \A c \in cs : Invents(c) \subseteq Blockable'
  BY <1>5, HistoriesGrow
<1>9. CASE SGReading(e) = "abstain"
  <2> DEFINE a == Abstain("security_group", e.interface)
  <2>1. a \in GroupAbstentions
    BY ReadingIsTrue DEF GroupAbstentions
  <2>2. /\ abstentions' = Append(abstentions, a)
        /\ stage' = next /\ UNCHANGED << hops, blockedAt, walkVerdict >>
    BY <1>1, <1>9
  <2>3. Met' = Met
    BY <2>2 DEF Met, Elements
  <2> HIDE DEF a
  <2>4. /\ abstentions' \in Seq(GroupAbstentions \cup ReturnAbstentions)
        /\ Missed' = Missed \cup {a}
    BY <1>3, <2>1, <2>2, OneMoreAbstention
  <2>5. stage' \notin {"correlate", "done"} /\ HostSaid' = {} /\ HostHeard' /\ Concluded'
    BY <1>2, <2>2, StillWalking
  <2>6. /\ UnreadIsSaid'
        /\ drops' \subseteq Layer /\ unread' \subseteq Layer /\ overlooked' \subseteq Conditions
    <3>1. \A l : Said(l) => Said(l)'
      BY <1>2, <2>4, SaidStays
    <3>2. Said("security_group")'
      BY <2>1, <2>4 DEF Said
    <3> QED
      BY <1>5, <1>7, <3>1, <3>2, SaidOrHidden
  <2>7. Kinds'
    BY <1>2, <1>3, <2>2, <2>4, <2>6 DEF Kinds, Stages
  <2>8. Position'
    BY <1>2, <1>3, <2>2, <2>3, <2>4, Walking, OtherFindings DEF Inv, Position, Stopped, PastReturn
  <2>9. BlocksAreReal'
    BY <1>2, <1>8, <2>2, <2>5, Walking, BlocksStay
  <2>10. NaclsAsked'
    BY <1>2, <1>8, <2>2 DEF Inv, NaclsAsked, Stopped, PastRoutes, PastSourceNACL
  <2>11. Covered'
    BY <1>2, <1>3, <2>1, <2>2, <2>3, <2>4, Walking
    DEF Inv, Covered, Stopped, PastRoutes, PastSourceNACL, PastSourceSG, PastReturn, PastDestination
  <2> QED
    BY <2>5, <2>6, <2>7, <2>8, <2>9, <2>10, <2>11 DEF Inv
<1>10. CASE SGReading(e) # "abstain"
  <2> DEFINE allowed == SGReading(e) = "pass"
  <2>1. allowed \in BOOLEAN /\ "sg" \in Gates /\ Decide("sg", allowed, next)
    BY <1>1, <1>10 DEF Gates
  <2>2. /\ ~allowed => "security_group" \in ls \/ "group rule" \in cs
        /\ ls \cup us # {} /\ allowed => "group rule" \in cs
    BY <1>6, <1>7, <1>10
  <2> HIDE DEF allowed
  <2>3. Hop("sg", allowed) \in Hops
    BY <2>1 DEF Hops, Hop
  <2>4. /\ hops' \in Seq(Hops)
        /\ blockedAt' \in Elements(hops)' \cup {NoHop}
        /\ Met' = Met \cup {Hop("sg", allowed)}
        /\ Missed' = Missed /\ abstentions' = abstentions
        /\ allowed => /\ stage' = next
                      /\ blockedAt' = NoHop
                      /\ walkVerdict' = "PERMITTED"
        /\ ~allowed => /\ stage' = "host"
                       /\ blockedAt' = Hop("sg", FALSE)
                       /\ walkVerdict' = "BLOCKED"
    BY <1>2, <2>1, <2>3, Decision
  <2>5. stage' \notin {"correlate", "done"} /\ HostSaid' = {} /\ HostHeard' /\ Concluded'
    BY <1>2, <2>1, <2>4, StillWalking
  <2>6. Hop("sg", FALSE).layer = "sg" /\ ~Hop("sg", FALSE).allowed /\ Hop("sg", FALSE) # NoHop
        /\ Hop("sg", TRUE).layer = "sg" /\ Hop("sg", TRUE).allowed
        /\ Hop("sg", allowed) # Hop("firewall", TRUE)
    BY DEF Hop, NoHop
  <2>7. /\ UnreadIsSaid'
        /\ drops' \subseteq Layer /\ unread' \subseteq Layer /\ overlooked' \subseteq Conditions
    <3>1. \A l : Said(l) => Said(l)'
      BY <1>2, <2>4, SaidStays
    <3>2. ~allowed => Said("security_group")'
      BY <2>4, <2>6, HopLayerValues DEF Said
    <3>3. \A l \in ls \cup us : Said(l)' \/ \E c \in cs : l \in Hides(c)
      BY <1>4, <1>7, <2>1, <2>2, <3>2
    <3> QED
      BY <1>5, <3>1, <3>3, SaidOrHidden
  <2>8. Kinds'
    BY <1>2, <1>3, <2>1, <2>4, <2>7 DEF Kinds, Stages, Elements
  <2>9. Position'
    BY <1>2, <1>3, <2>1, <2>4, <2>6, Walking, OtherFindings
    DEF Inv, Position, Stopped, PastReturn, Gates
  <2>10. BlocksAreReal'
    <3>1. ~allowed => "security_group" \in Blockable'
      BY <1>4, <1>8, <2>2
    <3> QED
      BY <1>2, <1>8, <2>1, <2>4, <2>5, <2>6, <3>1, HopLayerValues, BlocksStay
  <2>11. NaclsAsked'
    BY <1>2, <1>8, <2>1, <2>4 DEF Inv, NaclsAsked, Stopped, PastRoutes, PastSourceNACL
  <2>12. Covered'
    BY <1>2, <1>3, <2>1, <2>4, Walking
    DEF Inv, Covered, Stopped, PastRoutes, PastSourceNACL, PastSourceSG, PastReturn, PastDestination
  <2> QED
    BY <2>5, <2>7, <2>8, <2>9, <2>10, <2>11, <2>12 DEF Inv
<1> QED
  BY <1>9, <1>10

(* The NACL of the subnet at either end.                                    *)
LEMMA KeptByNACL ==
    ASSUME Inv, NEW end, NEW here, NEW next, SubnetNACL(end, here, next),
           \/ end = "source" /\ here = "source_nacl" /\ next = "forward"
           \/ end = "destination" /\ here = "dest_nacl" /\ next = "dest_sg"
    PROVE  Inv'
<1>1. PICK allows, says, exact \in BOOLEAN :
        /\ exact => says = allows
        /\ IF nacl[end] THEN Decide("nacl", says, next)
                        ELSE stage' = next /\ UNCHANGED walk
        /\ Overlook({ l \in {"nacl"} : ~allows }, { l \in {"nacl"} : ~nacl[end] },
                    IF nacl[end] THEN { c \in {"nacl rule"} : ~exact } ELSE {"missing nacl"})
  BY Zenon DEF SubnetNACL
<1> DEFINE ls == { l \in {"nacl"} : ~allows }
           us == { l \in {"nacl"} : ~nacl[end] }
           cs == IF nacl[end] THEN { c \in {"nacl rule"} : ~exact } ELSE {"missing nacl"}
<1>2. /\ stage = here /\ ~Stopped /\ ~PastReturn
      /\ UNCHANGED << destination, skipFirewall, nacl, inspected, returnPath, observations,
                      hostResults, answer >>
  BY DEF SubnetNACL, setup, back, Stopped, PastReturn
<1>3. /\ Kinds /\ returnPath = NoReturn
      /\ here = "dest_nacl" => destination = "collected"
      /\ nacl[end] \in BOOLEAN
  BY <1>2 DEF Inv, Position, Kinds, Ends
<1>4. /\ "nacl" \in Layer /\ {"nacl rule", "missing nacl"} \subseteq Conditions
      /\ "nacl" \in Hides("missing nacl")
      /\ Hides("nacl rule") = {"nacl"} /\ Invents("nacl rule") = {"nacl"}
  BY FlowIndexValues, ConditionValues DEF Conditions
<1>5. /\ Overlook(ls, us, cs)
      /\ ls \in SUBSET Layer /\ us \in SUBSET Layer /\ cs \in SUBSET Conditions
  BY <1>1, <1>4
<1>6. /\ ls \cup us \subseteq {"nacl"}
      /\ ~nacl[end] => "missing nacl" \in cs
      /\ nacl[end] /\ ls \cup us # {} => ~says \/ "nacl rule" \in cs
      /\ nacl[end] /\ ~says => "nacl" \in ls \/ "nacl rule" \in cs
  <2>1. ls \cup us \subseteq {"nacl"}
    OBVIOUS
  <2>2. ~nacl[end] => "missing nacl" \in cs
    OBVIOUS
  <2>3. nacl[end] => /\ us = {}
                     /\ "nacl rule" \in cs <=> ~exact
    OBVIOUS
  <2>4. "nacl" \in ls <=> ~allows
    OBVIOUS
  <2>5. allows => ls = {}
    OBVIOUS
  <2>6. exact => says = allows
    BY <1>1
  <2> HIDE DEF ls, us, cs
  <2>7. ASSUME nacl[end]
        PROVE  /\ ls \cup us # {} => ~says \/ "nacl rule" \in cs
               /\ ~says => "nacl" \in ls \/ "nacl rule" \in cs
    <3>1. exact \/ "nacl rule" \in cs
      BY <2>3, <2>7
    <3>2. ls \cup us # {} => ~allows
      BY <2>3, <2>5, <2>7
    <3> QED
      BY <2>4, <2>6, <3>1, <3>2
  <2> QED
    BY <2>1, <2>2, <2>7
<1> HIDE DEF ls, us, cs
<1>7. /\ overlooked' = overlooked \cup cs /\ Blockable \cup ls \subseteq Blockable'
      /\ \A c \in cs : Invents(c) \subseteq Blockable'
  BY <1>5, HistoriesGrow
<1>8. CASE ~nacl[end]
  <2>1. stage' = next /\ UNCHANGED << hops, blockedAt, abstentions, walkVerdict >>
    BY <1>1, <1>8 DEF walk
  <2>2. Met' = Met /\ Missed' = Missed
    BY <2>1 DEF Met, Missed, Elements
  <2>3. stage' \notin {"correlate", "done"} /\ HostSaid' = {} /\ HostHeard' /\ Concluded'
    BY <1>2, <2>1, StillWalking
  <2>4. /\ UnreadIsSaid'
        /\ drops' \subseteq Layer /\ unread' \subseteq Layer /\ overlooked' \subseteq Conditions
    <3>1. \A l : Said(l) => Said(l)'
      BY <1>2, <2>2, SaidStays
    <3>2. \A l \in ls \cup us : Said(l)' \/ \E c \in cs : l \in Hides(c)
      BY <1>4, <1>6, <1>8
    <3> QED
      BY <1>5, <3>1, <3>2, SaidOrHidden
  <2>5. Kinds'
    BY <1>2, <1>3, <2>1, <2>4 DEF Kinds, Stages
  <2>6. Position'
    BY <1>2, <1>3, <2>1, <2>2, Walking, OtherFindings DEF Inv, Position, Stopped, PastReturn
  <2>7. BlocksAreReal'
    BY <1>2, <1>7, <2>1, <2>3, Walking, BlocksStay
  <2>8. NaclsAsked'
    BY <1>2, <1>6, <1>7, <1>8, <2>1 DEF Inv, NaclsAsked, Stopped, PastRoutes, PastSourceNACL
  <2>9. Covered'
    BY <1>2, <2>1, <2>2, Walking
    DEF Inv, Covered, Stopped, PastRoutes, PastSourceNACL, PastSourceSG, PastReturn, PastDestination
  <2> QED
    BY <2>3, <2>4, <2>5, <2>6, <2>7, <2>8, <2>9 DEF Inv
<1>9. CASE nacl[end]
  <2>1. "nacl" \in Gates /\ Decide("nacl", says, next)
    BY <1>1, <1>9 DEF Gates
  <2>2. Hop("nacl", says) \in Hops
    BY DEF Hops, Hop, Gates
  <2>3. /\ hops' \in Seq(Hops)
        /\ blockedAt' \in Elements(hops)' \cup {NoHop}
        /\ Met' = Met \cup {Hop("nacl", says)}
        /\ Missed' = Missed /\ abstentions' = abstentions
        /\ says  => /\ stage' = next
                    /\ blockedAt' = NoHop
                    /\ walkVerdict' = "PERMITTED"
        /\ ~says => /\ stage' = "host"
                    /\ blockedAt' = Hop("nacl", FALSE)
                    /\ walkVerdict' = "BLOCKED"
    BY <1>2, <2>1, <2>2, Decision
  <2>4. stage' \notin {"correlate", "done"} /\ HostSaid' = {} /\ HostHeard' /\ Concluded'
    BY <1>2, <2>3, StillWalking
  <2>5. /\ Hop("nacl", FALSE).layer = "nacl" /\ ~Hop("nacl", FALSE).allowed
        /\ Hop("nacl", FALSE) # NoHop
        /\ Hop("nacl", TRUE).layer = "nacl" /\ Hop("nacl", TRUE).allowed
        /\ Hop("nacl", says) # Hop("firewall", TRUE)
    BY DEF Hop, NoHop
  <2>6. /\ UnreadIsSaid'
        /\ drops' \subseteq Layer /\ unread' \subseteq Layer /\ overlooked' \subseteq Conditions
    <3>1. \A l : Said(l) => Said(l)'
      BY <1>2, <2>3, SaidStays
    <3>2. ~says => Said("nacl")'
      BY <2>3, <2>5, HopLayerValues DEF Said
    <3>3. \A l \in ls \cup us : Said(l)' \/ \E c \in cs : l \in Hides(c)
      BY <1>4, <1>6, <1>9, <3>2
    <3> QED
      BY <1>5, <3>1, <3>3, SaidOrHidden
  <2>7. Kinds'
    BY <1>2, <1>3, <2>3, <2>6 DEF Kinds, Stages, Elements
  <2>8. Position'
    BY <1>2, <1>3, <2>3, <2>5, Walking, OtherFindings
    DEF Inv, Position, Stopped, PastReturn, Gates
  <2>9. BlocksAreReal'
    <3>1. ~says => "nacl" \in Blockable'
      BY <1>4, <1>6, <1>7, <1>9
    <3> QED
      BY <1>2, <1>7, <2>3, <2>4, <2>5, <3>1, HopLayerValues, BlocksStay
  <2>10. NaclsAsked'
    BY <1>2, <1>7, <1>9, <2>3 DEF Inv, NaclsAsked, Stopped, PastRoutes, PastSourceNACL
  <2>11. Covered'
    BY <1>2, <2>3, Walking
    DEF Inv, Covered, Stopped, PastRoutes, PastSourceNACL, PastSourceSG, PastReturn, PastDestination
  <2> QED
    BY <2>4, <2>6, <2>7, <2>8, <2>9, <2>10, <2>11 DEF Inv
<1> QED
  BY <1>3, <1>8, <1>9

LEMMA Inspecting ==
    ASSUME Inv, Inspect
    PROVE  /\ stage = "forward" /\ ~Stopped /\ ~PastReturn /\ inspected' \in 0 .. MaxInspections
           /\ destination # "external"
           /\ UNCHANGED << destination, skipFirewall, nacl, returnPath, observations, hostResults,
                           answer >>
           /\ Kinds /\ returnPath = NoReturn
<1>1. /\ stage = "forward" /\ destination # "external"
      /\ UNCHANGED << setup, back, hostResults, answer >>
  BY Zenon DEF Inspect
<1>2. inspected' \in 0 .. MaxInspections
  <2>1. inspected < MaxInspections /\ inspected' = inspected + 1
    BY Zenon DEF Inspect
  <2>2. inspected \in 0 .. MaxInspections
    BY Zenon DEF Inv, Kinds
  <2>3. MaxInspections \in Nat
    BY BoundAssumption
  <2> QED
    BY <2>1, <2>2, <2>3
<1>3. ~Stopped /\ ~PastReturn /\ Kinds /\ returnPath = NoReturn
  BY <1>1 DEF Stopped, PastReturn, Inv, Position
<1> QED
  BY <1>1, <1>2, <1>3 DEF setup, back

(* An inspection point that is skipped.                                     *)
LEMMA KeptBySkipping ==
    ASSUME Inv, Inspect, skipFirewall, NEW allows \in BOOLEAN,
           hops' = Append(hops, Hop("inspection-vpc", TRUE)),
           Really({ l \in {"firewall"} : ~allows }, {"firewall"}),
           UNCHANGED << stage, blockedAt, abstentions, walkVerdict >>
    PROVE  Inv'
<1> DEFINE h == Hop("inspection-vpc", TRUE)
           ls == { l \in {"firewall"} : ~allows }
<1>1. /\ stage = "forward" /\ ~Stopped /\ ~PastReturn /\ inspected' \in 0 .. MaxInspections
      /\ UNCHANGED << destination, skipFirewall, nacl, returnPath, observations, hostResults,
                      answer >>
      /\ Kinds /\ returnPath = NoReturn
  BY Inspecting
<1>2. /\ Overlook(ls, {"firewall"}, {}) /\ ls \subseteq {"firewall"}
      /\ ls \in SUBSET Layer /\ {"firewall"} \in SUBSET Layer
  BY FlowIndexValues DEF Really
<1>3. h \in Hops /\ h.allowed /\ h # Hop("firewall", TRUE)
  BY DEF Hops, Hop, Gates
<1>4. hops' = Append(hops, h) /\ UNCHANGED << stage, blockedAt, abstentions, walkVerdict >>
  OBVIOUS
<1> HIDE DEF h, ls
<1>5. overlooked \subseteq overlooked' /\ Blockable \subseteq Blockable'
  BY <1>2, HistoriesGrow
<1>6. hops' \in Seq(Hops) /\ Met' = Met \cup {h}
  BY <1>1, <1>3, <1>4, OneMoreHop
<1>7. Missed' = Missed
  BY <1>4 DEF Missed, Elements
<1>8. HostSaid' = {} /\ HostHeard' /\ Concluded'
  BY <1>1, <1>4, StillWalking
<1>9. /\ UnreadIsSaid'
      /\ drops' \subseteq Layer /\ unread' \subseteq Layer /\ overlooked' \subseteq Conditions
  <2>1. \A l : Said(l) => Said(l)'
    BY <1>1, <1>7, SaidStays
  <2>2. Said("firewall")'
    BY <1>1 DEF Said
  <2> QED
    BY <1>2, <2>1, <2>2, SaidOrHidden
<1>10. Kinds'
  BY <1>1, <1>4, <1>6, <1>9, Walking DEF Kinds, Stages
<1>11. Position'
  BY <1>1, <1>3, <1>4, <1>6, <1>7, Walking DEF Inv, Position, Stopped, PastReturn
<1>12. BlocksAreReal'
  BY <1>1, <1>4, <1>5, <1>8, Walking, BlocksStay
<1>13. NaclsAsked'
  BY <1>1, <1>4, <1>5 DEF Inv, NaclsAsked, Stopped, PastRoutes, PastSourceNACL
<1>14. Covered'
  BY <1>1, <1>4, <1>6, <1>7
  DEF Inv, Covered, PastRoutes, PastSourceNACL, PastSourceSG, PastReturn, PastDestination
<1> QED
  BY <1>8, <1>9, <1>10, <1>11, <1>12, <1>13, <1>14 DEF Inv

(* An inspection point whose firewall decided, from what the snapshot holds *)
(* of its policy: where that is not what the firewall does, there is a      *)
(* condition to explain it.                                                 *)
LEMMA KeptByFirewall ==
    ASSUME Inv, Inspect, ~skipFirewall, NEW says \in BOOLEAN,
           Decide("firewall", says, "forward"),
           NEW ls \in SUBSET {"firewall"}, NEW us \in SUBSET {"firewall"},
           NEW cs \in SUBSET {"policy", "rule group", "next hop"}, Overlook(ls, us, cs),
           says /\ ls \cup us # {} => \E c \in cs : "firewall" \in Hides(c),
           ~says => ls # {} \/ cs # {}
    PROVE  Inv'
<1>1. /\ stage = "forward" /\ ~Stopped /\ ~PastReturn /\ inspected' \in 0 .. MaxInspections
      /\ destination # "external"
      /\ UNCHANGED << destination, skipFirewall, nacl, returnPath, observations, hostResults,
                      answer >>
      /\ Kinds /\ returnPath = NoReturn
  BY Inspecting
<1>2. /\ "firewall" \in Layer /\ {"policy", "rule group", "next hop"} \subseteq Conditions
      /\ \A c \in cs : "firewall" \in Invents(c)
  <2>1. "firewall" \in Layer /\ {"policy", "rule group", "next hop"} \subseteq Conditions
    BY FlowIndexValues DEF Conditions
  <2>2. ASSUME NEW c \in cs PROVE "firewall" \in Invents(c)
    <3>1. c = "policy" \/ c = "rule group" \/ c = "next hop"
      OBVIOUS
    <3> QED
      BY <3>1, ConditionValues
  <2> QED
    BY <2>1, <2>2
<1>3. ls \in SUBSET Layer /\ us \in SUBSET Layer /\ cs \in SUBSET Conditions
  BY <1>2
<1>4. /\ overlooked' = overlooked \cup cs
      /\ Blockable \cup ls \subseteq Blockable'
      /\ \A c \in cs : Invents(c) \subseteq Blockable'
  BY HistoriesGrow
<1>5. "firewall" \in Gates /\ Hop("firewall", says) \in Hops
  BY DEF Hops, Hop, Gates
<1>6. /\ hops' \in Seq(Hops)
      /\ blockedAt' \in Elements(hops)' \cup {NoHop}
      /\ Met' = Met \cup {Hop("firewall", says)}
      /\ Missed' = Missed /\ abstentions' = abstentions
      /\ says  => /\ stage' = "forward"
                  /\ blockedAt' = NoHop
                  /\ walkVerdict' = "PERMITTED"
      /\ ~says => /\ stage' = "host"
                  /\ blockedAt' = Hop("firewall", FALSE)
                  /\ walkVerdict' = "BLOCKED"
  BY <1>1, <1>5, Decision
<1>7. stage' \notin {"correlate", "done"} /\ HostSaid' = {} /\ HostHeard' /\ Concluded'
  BY <1>1, <1>6, StillWalking
<1>8. /\ Hop("firewall", FALSE).layer = "firewall" /\ ~Hop("firewall", FALSE).allowed
      /\ Hop("firewall", FALSE) # NoHop
      /\ Hop("firewall", TRUE).layer = "firewall" /\ Hop("firewall", TRUE).allowed
  BY DEF Hop, NoHop
<1>9. /\ UnreadIsSaid'
      /\ drops' \subseteq Layer /\ unread' \subseteq Layer /\ overlooked' \subseteq Conditions
  <2>1. \A l : Said(l) => Said(l)'
    BY <1>1, <1>6, SaidStays
  <2>2. ~says => Said("firewall")'
    BY <1>6, <1>8, HopLayerValues DEF Said
  <2>3. \A l \in ls \cup us : Said(l)' \/ \E c \in cs : l \in Hides(c)
    BY <2>2
  <2> QED
    BY <1>3, <2>1, <2>3, SaidOrHidden
<1>10. Kinds'
  BY <1>1, <1>6, <1>9 DEF Kinds, Stages, Elements
<1>11. Position'
  BY <1>1, <1>6, <1>8, Walking, OtherFindings
  DEF Inv, Position, Stopped, PastReturn, Gates
<1>12. BlocksAreReal'
  <2>1. ~says => "firewall" \in Blockable'
    BY <1>2, <1>4
  <2> QED
    BY <1>1, <1>4, <1>6, <1>7, <1>8, <2>1, HopLayerValues, BlocksStay
<1>13. NaclsAsked'
  BY <1>1, <1>4, <1>6 DEF Inv, NaclsAsked, Stopped, PastRoutes, PastSourceNACL
<1>14. Covered'
  BY <1>1, <1>6, Walking
  DEF Inv, Covered, Stopped, PastRoutes, PastSourceNACL, PastSourceSG, PastReturn, PastDestination
<1> QED
  BY <1>7, <1>9, <1>10, <1>11, <1>12, <1>13, <1>14 DEF Inv

LEMMA KeptByInspect == Inv /\ Inspect => Inv'
<1> SUFFICES ASSUME Inv, Inspect PROVE Inv'
  OBVIOUS
<1>1. PICK allows \in BOOLEAN :
        \/ /\ skipFirewall
           /\ hops' = Append(hops, Hop("inspection-vpc", TRUE))
           /\ Really({ l \in {"firewall"} : ~allows }, {"firewall"})
           /\ UNCHANGED << stage, blockedAt, abstentions, walkVerdict >>
        \/ /\ ~skipFirewall
           /\ \E says \in BOOLEAN, met \in SUBSET {"rule group", "next hop"} :
               /\ met = {} => says = allows
               /\ Decide("firewall", says, "forward")
               /\ Overlook({ l \in {"firewall"} : ~allows },
                           { l \in {"firewall"} : "rule group" \in met }, met)
        \/ /\ ~skipFirewall
           /\ Decide("firewall", FALSE, "forward")
           /\ Overlook({ l \in {"firewall"} : ~allows }, {"firewall"}, {"policy"})
  BY Zenon DEF Inspect
<1> DEFINE ls == { l \in {"firewall"} : ~allows }
<1>2. ls \in SUBSET {"firewall"} /\ (allows => ls = {}) /\ (~allows => ls # {})
  OBVIOUS
<1>3. CASE skipFirewall
  BY <1>1, <1>3, KeptBySkipping
<1>4. ASSUME ~skipFirewall, NEW says \in BOOLEAN, NEW met \in SUBSET {"rule group", "next hop"},
             met = {} => says = allows,
             Decide("firewall", says, "forward"),
             Overlook(ls, { l \in {"firewall"} : "rule group" \in met }, met)
      PROVE  Inv'
  <2> DEFINE us == { l \in {"firewall"} : "rule group" \in met }
  <2>1. us \in SUBSET {"firewall"} /\ (us # {} => met # {})
    OBVIOUS
  <2>2. \A c \in met : "firewall" \in Hides(c)
    BY ConditionValues
  <2>3. Overlook(ls, us, met)
    BY <1>4
  <2> HIDE DEF ls, us
  <2>4. says /\ ls \cup us # {} => \E c \in met : "firewall" \in Hides(c)
    <3> SUFFICES ASSUME says, ls \cup us # {} PROVE met # {}
      BY <2>2
    <3>1. CASE ls # {}
      BY <1>2, <1>4, <3>1
    <3>2. CASE ls = {}
      BY <2>1, <3>2
    <3> QED
      BY <3>1, <3>2
  <2>5. ~says => ls # {} \/ met # {}
    <3> SUFFICES ASSUME ~says, met = {} PROVE ~allows
      BY <1>2
    <3>1. says = allows
      BY <1>4
    <3> QED
      BY <3>1, Zenon
  <2> QED
    BY <1>2, <1>4, <2>1, <2>3, <2>4, <2>5, KeptByFirewall
<1>5. ASSUME ~skipFirewall, Decide("firewall", FALSE, "forward"),
             Overlook(ls, {"firewall"}, {"policy"})
      PROVE  Inv'
  BY <1>2, <1>5, KeptByFirewall
<1> QED
  BY <1>1, <1>3, <1>4, <1>5

(* The source cannot be located, or it can.                                 *)
LEMMA KeptBySourceUnknown == Inv /\ SourceUnknown => Inv'
<1> SUFFICES ASSUME Inv, SourceUnknown PROVE Inv'
  OBVIOUS
<1> DEFINE h == Hop("snapshot", FALSE)
<1>1. PICK ls \in SUBSET {"route", "nacl", "security_group", "firewall", "return_path"} :
          Really(ls, {"resolution"})
  BY DEF SourceUnknown
<1>2. /\ stage = "locate" /\ ~Stopped /\ ~PastReturn
      /\ hops' = << h >> /\ blockedAt' = h /\ walkVerdict' = "UNKNOWN" /\ stage' = "host"
      /\ UNCHANGED << destination, skipFirewall, nacl, inspected, abstentions, returnPath,
                      observations, hostResults, answer >>
      /\ Kinds /\ returnPath = NoReturn
  BY DEF SourceUnknown, setup, back, Stopped, PastReturn, Inv, Position
<1>3. /\ h \in Hops /\ ~h.allowed /\ h # NoHop /\ h # Hop("firewall", TRUE) /\ h.layer = "snapshot"
  BY DEF Hops, Hop, Gates, NoHop
<1>4. /\ Overlook(ls, {"resolution"}, {})
      /\ ls \in SUBSET Layer /\ {"resolution"} \in SUBSET Layer
      /\ \A l \in ls \cup {"resolution"} : ~Host(l)
  BY <1>1, FlowIndexValues DEF Really, Host
<1>5. h = Hop("snapshot", FALSE)
  OBVIOUS
<1> HIDE DEF h
<1>6. /\ hops' \in Seq(Hops) /\ Met' = {h} /\ Missed' = Missed
      /\ blockedAt' \in { hops'[i] : i \in DOMAIN hops' }
  <2>1. DOMAIN << h >> = {1} /\ << h >>[1] = h /\ << h >> \in Seq(Hops)
    BY <1>3
  <2> QED
    BY <1>2, <1>3, <2>1 DEF Met, Missed, Elements
<1>7. HostSaid' = {} /\ HostHeard' /\ Concluded'
  BY <1>2, StillWalking
<1>8. /\ UnreadIsSaid'
      /\ drops' \subseteq Layer /\ unread' \subseteq Layer /\ overlooked' \subseteq Conditions
  <2>1. \A l : Said(l) => Said(l)'
    BY <1>2, <1>6, SaidStays
  <2>2. \A l \in ls \cup {"resolution"} : Said(l)'
    BY <1>2, <1>4 DEF Said
  <2> QED
    BY <1>4, <2>1, <2>2, SaidOrHidden
<1>9. Kinds'
  BY <1>2, <1>6, <1>8 DEF Kinds, Stages
<1>10. Position'
  BY <1>2, <1>3, <1>5, <1>6 DEF Inv, Position, Stopped, PastReturn
<1>11. BlocksAreReal'
  BY <1>2, <1>7, OtherFindings DEF BlocksAreReal
<1>12. NaclsAsked' /\ Covered'
  BY <1>2 DEF NaclsAsked, Covered, Stopped
<1> QED
  BY <1>7, <1>8, <1>9, <1>10, <1>11, <1>12 DEF Inv

LEMMA KeptBySourceKnown == Inv /\ SourceKnown => Inv'
<1> SUFFICES ASSUME Inv, SourceKnown PROVE Inv'
  OBVIOUS
<1> DEFINE h == Hop("destination", TRUE)
<1>1. /\ stage = "locate" /\ ~Stopped /\ ~PastReturn /\ stage' = "source_sg"
      /\ hops' = << h >> \/ hops' = hops
      /\ UNCHANGED << destination, skipFirewall, nacl, inspected, blockedAt, abstentions,
                      walkVerdict, returnPath, observations, hostResults, answer, drops,
                      unread, overlooked >>
      /\ Kinds /\ returnPath = NoReturn
  BY DEF SourceKnown, setup, back, Stopped, PastReturn, Inv, Position
<1>2. h \in Hops /\ h.allowed /\ h # Hop("firewall", TRUE)
  BY DEF Hops, Hop, Gates
<1> HIDE DEF h
<1>3. /\ hops' \in Seq(Hops) /\ Met' \subseteq Met \cup {h} /\ Missed' = Missed
  <2>1. DOMAIN << h >> = {1} /\ << h >>[1] = h /\ << h >> \in Seq(Hops)
    BY <1>2
  <2>2. Elements(<< h >>) = {h}
    BY <2>1 DEF Elements
  <2>3. Elements(hops)' = {h} \/ Elements(hops)' = Elements(hops)
    BY <1>1, <2>2 DEF Elements
  <2>4. Missed' = Missed
    BY <1>1 DEF Missed, Elements
  <2> QED
    BY <1>1, <2>1, <2>3, <2>4 DEF Met, Kinds
<1>4. HostSaid' = {} /\ HostHeard' /\ Concluded'
  BY <1>1, StillWalking
<1>5. Kinds'
  BY <1>1, <1>3, Walking DEF Kinds, Stages
<1>6. Position'
  BY <1>1, <1>2, <1>3, Walking DEF Inv, Position, Stopped, PastReturn
<1>7. BlocksAreReal'
  BY <1>1, <1>4, Walking, BlocksStay DEF Blockable, Invented
<1>8. UnreadIsSaid'
  <2>1. \A l : Said(l) => Said(l)'
    BY <1>1, <1>3, SaidStays
  <2> QED
    BY <1>1, <2>1 DEF Inv, UnreadIsSaid, Overlooked
<1>9. NaclsAsked' /\ Covered'
  BY <1>1
  DEF NaclsAsked, Covered, Stopped, PastSourceSG, PastSourceNACL, PastRoutes, PastReturn,
      PastDestination
<1> QED
  BY <1>4, <1>5, <1>6, <1>7, <1>8, <1>9 DEF Inv

(* Routing arrives, or ends the walk.                                       *)
LEMMA KeptByArrive == Inv /\ Arrive => Inv'
<1> SUFFICES ASSUME Inv, Arrive PROVE Inv'
  OBVIOUS
<1> DEFINE h == Hop("route", TRUE)
           us == { l \in {"firewall"} : destination = "external" }
<1>1. PICK astray \in BOOLEAN, ls \in SUBSET {"route", "firewall"} :
          /\ ~astray => ls \subseteq us
          /\ Overlook(ls, us, { c \in {"next hop"} : astray })
  BY Zenon DEF Arrive
<1> DEFINE cs == { c \in {"next hop"} : astray }
<1>2. /\ stage = "forward" /\ ~Stopped /\ ~PastReturn
      /\ hops' = Append(hops, h)
      /\ stage' = IF destination = "collected" THEN "dest_nacl" ELSE "dest_outside"
      /\ UNCHANGED << destination, skipFirewall, nacl, inspected, blockedAt, abstentions,
                      walkVerdict, returnPath, observations, hostResults, answer >>
      /\ Kinds /\ returnPath = NoReturn
  BY DEF Arrive, setup, back, Stopped, PastReturn, Inv, Position
<1>3. /\ {"route", "firewall"} \subseteq Layer /\ "next hop" \in Conditions
      /\ Hides("next hop") = {"route", "firewall"}
  BY FlowIndexValues, ConditionValues DEF Conditions
<1>4. /\ Overlook(ls, us, cs)
      /\ ls \in SUBSET Layer /\ us \in SUBSET Layer /\ cs \in SUBSET Conditions
  BY <1>1, <1>3
<1>5. /\ ls \cup us \subseteq {"route", "firewall"}
      /\ "next hop" \in cs \/ (ls \cup us \subseteq {"firewall"})
      /\ \A l \in us : destination = "external"
      /\ "next hop" \in cs \/ ls \subseteq us
  BY <1>1
<1>6. h \in Hops /\ h.allowed /\ h # Hop("firewall", TRUE) /\ h = Hop("route", TRUE)
  BY DEF Hops, Hop, Gates
<1> HIDE DEF h, us, cs
<1>7. overlooked \subseteq overlooked' /\ Blockable \subseteq Blockable'
  BY <1>4, HistoriesGrow
<1>8. hops' \in Seq(Hops) /\ Met' = Met \cup {h} /\ Missed' = Missed
  <2>1. hops' \in Seq(Hops) /\ Met' = Met \cup {h}
    BY <1>2, <1>6, OneMoreHop
  <2> QED
    BY <1>2, <2>1 DEF Missed, Elements
<1>9. stage' \notin {"correlate", "done"} /\ HostSaid' = {} /\ HostHeard' /\ Concluded'
  BY <1>2, StillWalking
<1>10. /\ UnreadIsSaid'
       /\ drops' \subseteq Layer /\ unread' \subseteq Layer /\ overlooked' \subseteq Conditions
  <2>1. \A l : Said(l) => Said(l)'
    BY <1>2, <1>8, SaidStays
  <2>2. destination = "external" => Said("firewall")'
    BY <1>2 DEF Said
  <2>3. \A l \in ls \cup us : Said(l)' \/ \E c \in cs : l \in Hides(c)
    BY <1>3, <1>5, <2>2
  <2> QED
    BY <1>4, <2>1, <2>3, SaidOrHidden
<1>11. Kinds'
  BY <1>2, <1>8, <1>10, Walking DEF Kinds, Stages
<1>12. Position'
  BY <1>2, <1>6, <1>8, Walking DEF Inv, Position, Stopped, PastReturn
<1>13. BlocksAreReal'
  BY <1>2, <1>7, <1>9, Walking, BlocksStay
<1>14. NaclsAsked'
  BY <1>2, <1>7 DEF Inv, NaclsAsked, Stopped, PastRoutes, PastSourceNACL
<1>15. Covered'
  BY <1>2, <1>6, <1>8
  DEF Inv, Covered, PastRoutes, PastSourceNACL, PastSourceSG, PastReturn, PastDestination
<1> QED
  BY <1>9, <1>10, <1>11, <1>12, <1>13, <1>14, <1>15 DEF Inv

LEMMA KeptByRouteBlocked == Inv /\ RouteBlocked => Inv'
<1> SUFFICES ASSUME Inv, RouteBlocked PROVE Inv'
  OBVIOUS
<1> DEFINE h == Hop("route", FALSE)
<1>1. PICK astray \in BOOLEAN, ls \in SUBSET {"route", "firewall"} :
          /\ ~astray => ls = {"route"}
          /\ Overlook(ls, {}, { c \in {"next hop"} : astray })
  BY Zenon DEF RouteBlocked
<1> DEFINE cs == { c \in {"next hop"} : astray }
<1>2. /\ stage = "forward" /\ ~Stopped /\ ~PastReturn
      /\ hops' = Append(hops, h) \/ hops' = hops
      /\ blockedAt' = h /\ walkVerdict' = "BLOCKED" /\ stage' = "host"
      /\ UNCHANGED << destination, skipFirewall, nacl, inspected, abstentions, returnPath,
                      observations, hostResults, answer >>
      /\ Kinds /\ returnPath = NoReturn
  BY DEF RouteBlocked, setup, back, Stopped, PastReturn, Inv, Position
<1>3. /\ {"route", "firewall"} \subseteq Layer /\ "next hop" \in Conditions
      /\ Hides("next hop") = {"route", "firewall"} /\ Invents("next hop") = {"route", "firewall"}
  BY FlowIndexValues, ConditionValues DEF Conditions
<1>4. Overlook(ls, {}, cs) /\ ls \in SUBSET Layer /\ cs \in SUBSET Conditions
  BY <1>1, <1>3
<1>5. "next hop" \in cs \/ ls = {"route"}
  BY <1>1
<1>6. /\ h \in Hops /\ ~h.allowed /\ h # Hop("firewall", TRUE) /\ h # NoHop
      /\ h.layer = "route" /\ h.layer \in Gates /\ h = Hop("route", FALSE)
  BY DEF Hops, Hop, Gates, NoHop
<1> HIDE DEF h, cs
<1>7. /\ Blockable \cup ls \subseteq Blockable'
      /\ \A c \in cs : Invents(c) \subseteq Blockable'
  BY <1>4, HistoriesGrow
<1>8. hops' \in Seq(Hops) /\ Met' = Met \cup {h} /\ Missed' = Missed
  <2>1. hops' = Append(hops, h) => hops' \in Seq(Hops) /\ Met' = Met \cup {h}
    BY <1>2, <1>6, Walking, OneMoreHop
  <2>2. hops' = hops => hops' \in Seq(Hops) /\ Met' = Met \cup {h}
    BY <1>2, <1>6, Walking DEF Kinds, Met, Elements
  <2> QED
    BY <1>2, <2>1, <2>2 DEF Missed, Elements
<1>9. HostSaid' = {} /\ HostHeard' /\ Concluded'
  BY <1>2, StillWalking
<1>10. /\ UnreadIsSaid'
       /\ drops' \subseteq Layer /\ unread' \subseteq Layer /\ overlooked' \subseteq Conditions
  <2>1. \A l : Said(l) => Said(l)'
    BY <1>2, <1>8, SaidStays
  <2>2. Said("route")'
    BY <1>2, <1>6, HopLayerValues DEF Said
  <2>3. \A l \in ls : Said(l)' \/ \E c \in cs : l \in Hides(c)
    BY <1>1, <1>3, <1>5, <2>2
  <2> QED
    BY <1>4, <2>1, <2>3, SaidOrHidden
<1>11. Kinds'
  BY <1>2, <1>6, <1>8, <1>10 DEF Kinds, Stages
<1>12. Position'
  BY <1>2, <1>6, <1>8, Walking DEF Inv, Position, Stopped, PastReturn
<1>13. BlocksAreReal'
  <2>1. "route" \in Blockable'
    BY <1>3, <1>5, <1>7
  <2> QED
    BY <1>2, <1>6, <1>7, <1>9, <2>1, HopLayerValues, BlocksStay
<1>14. NaclsAsked' /\ Covered'
  BY <1>2 DEF NaclsAsked, Covered, Stopped
<1> QED
  BY <1>9, <1>10, <1>11, <1>12, <1>13, <1>14 DEF Inv

(* The destination's own policy is not in the snapshot.                     *)
LEMMA KeptByDestinationOutside == Inv /\ DestinationOutside => Inv'
<1> SUFFICES ASSUME Inv, DestinationOutside PROVE Inv'
  OBVIOUS
<1> DEFINE a == Abstain("security_group", FALSE)
           us == {"nacl", "security_group"}
           cs == {"outside nacl"}
<1>1. PICK ls \in SUBSET {"nacl", "security_group"} : Overlook(ls, us, cs)
  BY DEF DestinationOutside
<1>2. /\ stage = "dest_outside" /\ ~Stopped /\ ~PastReturn /\ stage' = "return_route"
      /\ abstentions' = Append(abstentions, a)
      /\ UNCHANGED << destination, skipFirewall, nacl, inspected, hops, blockedAt,
                      walkVerdict, returnPath, observations, hostResults, answer >>
      /\ Kinds /\ returnPath = NoReturn /\ destination # "collected"
  BY DEF DestinationOutside, setup, back, Stopped, PastReturn, Inv, Position
<1>3. /\ ls \in SUBSET Layer /\ us \in SUBSET Layer /\ cs \in SUBSET Conditions
      /\ "nacl" \in Hides("outside nacl")
  BY FlowIndexValues, ConditionValues DEF Conditions
<1>4. a \in GroupAbstentions
  BY DEF GroupAbstentions
<1>5. ls \cup us \subseteq {"nacl", "security_group"} /\ "outside nacl" \in cs
  OBVIOUS
<1> HIDE DEF a, us, cs
<1>6. overlooked \subseteq overlooked' /\ Blockable \subseteq Blockable'
  BY <1>1, HistoriesGrow
<1>7. /\ abstentions' \in Seq(GroupAbstentions \cup ReturnAbstentions)
      /\ Missed' = Missed \cup {a} /\ Met' = Met
  <2>1. Met' = Met
    BY <1>2 DEF Met, Elements
  <2> QED
    BY <1>2, <1>4, <2>1, OneMoreAbstention
<1>8. HostSaid' = {} /\ HostHeard' /\ Concluded'
  BY <1>2, StillWalking
<1>9. /\ UnreadIsSaid'
      /\ drops' \subseteq Layer /\ unread' \subseteq Layer /\ overlooked' \subseteq Conditions
  <2>1. \A l : Said(l) => Said(l)'
    BY <1>2, <1>7, SaidStays
  <2>2. Said("security_group")'
    BY <1>4, <1>7 DEF Said
  <2>3. \A l \in ls \cup us : Said(l)' \/ \E c \in cs : l \in Hides(c)
    BY <1>3, <1>5, <2>2
  <2> QED
    BY <1>1, <1>3, <2>1, <2>3, SaidOrHidden
<1>10. Kinds'
  BY <1>2, <1>7, <1>9 DEF Kinds, Stages
<1>11. Position'
  BY <1>2, <1>4, <1>7, Walking, OtherFindings DEF Inv, Position, Stopped, PastReturn
<1>12. BlocksAreReal'
  BY <1>2, <1>6, <1>8, Walking, BlocksStay
<1>13. NaclsAsked'
  BY <1>2, <1>6 DEF Inv, NaclsAsked, Stopped, PastRoutes, PastSourceNACL
<1>14. Covered'
  BY <1>2, <1>4, <1>7
  DEF Inv, Covered, PastRoutes, PastSourceNACL, PastSourceSG, PastReturn, PastDestination
<1> QED
  BY <1>8, <1>9, <1>10, <1>11, <1>12, <1>13, <1>14 DEF Inv

(* Whatever the reverse walk came to, it is filed, and its abstention heard.*)
LEMMA KeptByFiling ==
    ASSUME Inv, ReturnRoute, NEW result \in Returns \ {NoReturn}, FileReturn(result),
           observations' \in Seq(CitedObservations),
           NEW ls \in SUBSET {"return_path"}, NEW us \in SUBSET {"return_path"},
           NEW cs \in SUBSET {"return hop"}, Overlook(ls, us, cs),
           result.verdict = "blocked" => ls # {} \/ cs # {},
           result.verdict = "pass" => ls \cup us = {} \/ cs # {},
           destination # "collected" => result.verdict = "abstain"
    PROVE  Inv'
<1>1. /\ stage = "return_route" /\ ~Stopped /\ ~PastReturn /\ stage' = "return_nacl"
      /\ UNCHANGED << destination, skipFirewall, nacl, inspected, hops, blockedAt,
                      walkVerdict, hostResults, answer >>
      /\ Kinds /\ returnPath = NoReturn
  <2>1. /\ stage = "return_route" /\ stage' = "return_nacl"
        /\ UNCHANGED << setup, inspected, hops, blockedAt, walkVerdict, hostResults, answer >>
    BY Zenon DEF ReturnRoute, FileReturn
  <2>2. ~Stopped /\ ~PastReturn /\ Kinds /\ returnPath = NoReturn
    BY <2>1 DEF Stopped, PastReturn, Inv, Position
  <2> QED
    BY <2>1, <2>2 DEF setup
<1>2. /\ returnPath' = result
      /\ abstentions' = IF result.verdict = "abstain" THEN Append(abstentions, result)
                        ELSE abstentions
  BY DEF FileReturn
<1>3. /\ result \in Finding
      /\ result.verdict = "abstain" => result \in ReturnAbstentions
  BY OtherFindings DEF Returns, ReturnAbstentions
<1>4. result.verdict \in {"pass", "blocked", "abstain"}
  BY <1>3 DEF Finding, LayerVerdict
<1>5. /\ "return_path" \in Layer /\ "return hop" \in Conditions
      /\ Hides("return hop") = {"return_path"} /\ Invents("return hop") = {"return_path"}
  BY FlowIndexValues, ConditionValues DEF Conditions
<1>6. ls \in SUBSET Layer /\ us \in SUBSET Layer /\ cs \in SUBSET Conditions
  BY <1>5
<1>7. /\ overlooked \subseteq overlooked' /\ Blockable \cup ls \subseteq Blockable'
      /\ \A c \in cs : Invents(c) \subseteq Blockable'
  BY HistoriesGrow
<1>8. /\ abstentions' \in Seq(GroupAbstentions \cup ReturnAbstentions)
      /\ Missed \subseteq Missed' /\ Missed' \subseteq Missed \cup ReturnAbstentions
  <2>1. CASE result.verdict = "abstain"
    <3>1. Missed' = Missed \cup {result} /\ abstentions' \in Seq(GroupAbstentions \cup ReturnAbstentions)
      BY <1>1, <1>2, <1>3, <2>1, OneMoreAbstention
    <3> QED
      BY <1>3, <2>1, <3>1
  <2>2. CASE result.verdict # "abstain"
    <3>1. Missed' = Missed /\ abstentions' = abstentions
      BY <1>2, <2>2 DEF Missed, Elements
    <3> QED
      BY <1>1, <3>1 DEF Kinds
  <2> QED
    BY <2>1, <2>2
<1>9. Met' = Met
  BY <1>1 DEF Met, Elements
<1>10. HostSaid' = {} /\ HostHeard' /\ Concluded'
  BY <1>1, StillWalking
<1>11. /\ UnreadIsSaid'
       /\ drops' \subseteq Layer /\ unread' \subseteq Layer /\ overlooked' \subseteq Conditions
  <2>1. \A l : Said(l) => Said(l)'
    BY <1>1, <1>8, SaidStays
  <2>2. result.verdict # "pass" => Said("return_path")'
    BY <1>2 DEF Said
  <2>3. cs # {} => \E c \in cs : "return_path" \in Hides(c)
    BY <1>5
  <2>4. \A l \in ls \cup us : Said(l)' \/ \E c \in cs : l \in Hides(c)
    BY <2>2, <2>3
  <2> QED
    BY <1>6, <2>1, <2>4, SaidOrHidden
<1>12. Kinds'
  BY <1>1, <1>2, <1>8, <1>11 DEF Kinds, Stages
<1>13. Position'
  BY <1>1, <1>2, <1>9, Walking DEF Inv, Position, Stopped, PastReturn
<1>14. BlocksAreReal'
  <2>1. result.verdict = "blocked" => "return_path" \in Blockable'
    BY <1>5, <1>7
  <2> QED
    BY <1>1, <1>2, <1>10, <2>1, Walking DEF BlocksAreReal
<1>15. NaclsAsked'
  BY <1>1, <1>7 DEF Inv, NaclsAsked, Stopped, PastRoutes, PastSourceNACL
<1>16. Covered'
  BY <1>1, <1>2, <1>8, <1>9
  DEF Inv, Covered, PastRoutes, PastSourceNACL, PastSourceSG, PastReturn, PastDestination
<1> QED
  BY <1>10, <1>11, <1>12, <1>13, <1>14, <1>15, <1>16 DEF Inv

LEMMA ReturnFindings ==
    /\ ReturnUnwalkable \in Returns \ {NoReturn} /\ ReturnUnwalkable.verdict = "abstain"
    /\ \A blocked, skipped \in BOOLEAN : \A cites :
          /\ ReturnResult(blocked, skipped, cites) \in Returns \ {NoReturn}
          /\ ReturnResult(blocked, skipped, cites).verdict =
                 IF blocked THEN "blocked" ELSE IF skipped THEN "abstain" ELSE "pass"
    /\ \A differences, stateful :
          Observed(differences, stateful) \in Seq(CitedObservations)
<1>0. "return_path" \in Layer /\ UnknownLayer # "return_path"
  BY FlowIndexValues DEF UnknownLayer
<1>1. ReturnUnwalkable \in Returns \ {NoReturn} /\ ReturnUnwalkable.verdict = "abstain"
  <2>1. /\ ReturnUnwalkable \in Finding /\ Emittable(ReturnUnwalkable)
        /\ ReturnUnwalkable.layer = "return_path" /\ ReturnUnwalkable.verdict = "abstain"
    BY <1>0, AbstainFacts DEF ReturnUnwalkable
  <2>2. NoReturn.layer = UnknownLayer
    BY DEF NoReturn
  <2> QED
    BY <1>0, <2>1, <2>2 DEF Returns
<1>2. ASSUME NEW blocked \in BOOLEAN, NEW skipped \in BOOLEAN, NEW cites
      PROVE  /\ ReturnResult(blocked, skipped, cites) \in Returns \ {NoReturn}
             /\ ReturnResult(blocked, skipped, cites).verdict =
                    IF blocked THEN "blocked" ELSE IF skipped THEN "abstain" ELSE "pass"
  <2> DEFINE verdict  == IF blocked THEN "blocked" ELSE IF skipped THEN "abstain" ELSE "pass"
             reasoned == skipped /\ ~blocked
             result   == [layer |-> "return_path", verdict |-> verdict, cited |-> TRUE,
                          reasoned |-> reasoned]
  <2>1. ReturnCitations(cites) # {}
    BY DEF ReturnCitations
  <2>2. ReturnResult(blocked, skipped, cites) = result
    BY <2>1, Zenon DEF ReturnResult
  <2>3. verdict \in LayerVerdict /\ reasoned \in BOOLEAN
    BY DEF LayerVerdict
  <2>4. verdict = "abstain" => reasoned
    OBVIOUS
  <2> HIDE DEF verdict, reasoned
  <2>5. /\ result \in Finding /\ result.layer = "return_path" /\ result.verdict = verdict
        /\ Emittable(result)
    BY <1>0, <2>3, <2>4 DEF Finding, Emittable
  <2>6. result # NoReturn
    BY <1>0, <2>5 DEF NoReturn
  <2> HIDE DEF result
  <2> QED
    BY <2>2, <2>5, <2>6 DEF Returns, verdict
<1>3. ASSUME NEW differences, NEW stateful
      PROVE  Observed(differences, stateful) \in Seq(CitedObservations)
  <2>1. CASE differences = {}
    BY <2>1 DEF Observed
  <2>2. CASE differences # {}
    <3> DEFINE o == [kind  |-> IF stateful THEN "asymmetric-stateful" ELSE "asymmetric",
                     layer |-> "return_path", cited |-> differences # {}]
    <3>1. o \in CitedObservations
      BY <2>2, FlowIndexValues DEF CitedObservations, Observation, ObservationEmittable
    <3>2. Observed(differences, stateful) = << o >>
      BY <2>2 DEF Observed
    <3> HIDE DEF o
    <3> QED
      BY <3>1, <3>2
  <2> QED
    BY <2>1, <2>2
<1> QED
  BY <1>1, <1>2, <1>3

LEMMA KeptByReturnRoute == Inv /\ ReturnRoute => Inv'
<1> SUFFICES ASSUME Inv, ReturnRoute PROVE Inv'
  OBVIOUS
<1>1. CASE destination # "collected"
  <2>1. PICK ls \in SUBSET {"return_path"} :
            /\ FileReturn(ReturnUnwalkable) /\ observations' = << >>
            /\ Overlook(ls, {"return_path"}, {})
    BY <1>1 DEF ReturnRoute, Really
  <2>2. observations' \in Seq(CitedObservations)
    BY <2>1
  <2> QED
    BY <2>1, <2>2, ReturnFindings, KeptByFiling
<1>2. CASE destination = "collected"
  <2>1. PICK blocked, skipped, carries, astray \in BOOLEAN,
             cites \in SUBSET {"route"}, differences \in SUBSET {"hop"}, stateful \in BOOLEAN :
            /\ ~astray => /\ blocked => ~carries
                          /\ ~blocked /\ ~skipped => carries
            /\ FileReturn(ReturnResult(blocked, skipped, cites))
            /\ observations' = IF blocked \/ cites = {} THEN << >>
                               ELSE Observed(differences, stateful)
            /\ Overlook({ l \in {"return_path"} : ~carries },
                        { l \in {"return_path"} : skipped /\ ~blocked },
                        { c \in {"return hop"} : astray })
    BY <1>2, Zenon DEF ReturnRoute
  <2> DEFINE result == ReturnResult(blocked, skipped, cites)
             ls == { l \in {"return_path"} : ~carries }
             us == { l \in {"return_path"} : skipped /\ ~blocked }
             cs == { c \in {"return hop"} : astray }
  <2>2. /\ result \in Returns \ {NoReturn}
        /\ result.verdict = IF blocked THEN "blocked" ELSE IF skipped THEN "abstain" ELSE "pass"
    BY ReturnFindings
  <2>3. FileReturn(result) /\ Overlook(ls, us, cs)
    BY <2>1
  <2>4. observations' \in Seq(CitedObservations)
    <3>1. << >> \in Seq(CitedObservations)
      OBVIOUS
    <3> QED
      BY <2>1, <3>1, ReturnFindings
  <2>5. /\ ls \in SUBSET {"return_path"} /\ us \in SUBSET {"return_path"} /\ cs \in SUBSET {"return hop"}
        /\ astray => cs # {}
        /\ ~carries => ls # {}
        /\ carries => ls = {}
        /\ ~skipped => us = {}
    OBVIOUS
  <2> HIDE DEF result, ls, us, cs
  <2>6. result.verdict = "blocked" => ls # {} \/ cs # {}
    BY <2>1, <2>2, <2>5
  <2>7. result.verdict = "pass" => ls \cup us = {} \/ cs # {}
    <3>1. ls = {} /\ us = {} => ls \cup us = {}
      OBVIOUS
    <3> QED
      BY <2>1, <2>2, <2>5, <3>1
  <2> QED
    BY <1>2, <2>2, <2>3, <2>4, <2>5, <2>6, <2>7, KeptByFiling
<1> QED
  BY <1>1, <1>2

(* The NACLs on the way back.  One that is missing was overlooked when the  *)
(* walk came past it, or the destination is an address outside.             *)
LEMMA KeptByReturnNACL == Inv /\ ReturnNACL => Inv'
<1> SUFFICES ASSUME Inv, ReturnNACL PROVE Inv'
  OBVIOUS
<1> DEFINE met == IF destination = "collected" THEN Ends ELSE {"source"}
<1>1. PICK denying \in SUBSET Ends, denial \in SUBSET Ends, exact \in BOOLEAN :
        LET denied == \E end \in met \cap denial : nacl[end]
        IN  /\ exact => denial = denying
            /\ IF denied THEN Decide("nacl-return", FALSE, "host")
                         ELSE stage' = "host" /\ UNCHANGED walk
            /\ Overlook({ l \in {"return_path"} : denying # {} },
                        { l \in {"return_path"} : ~denied /\ \E end \in met : ~nacl[end] },
                        { c \in {"return rule"} : ~exact })
  BY Zenon DEF ReturnNACL
<1> DEFINE denied == \E end \in met \cap denial : nacl[end]
           absent == \E end \in met : ~nacl[end]
           ls == { l \in {"return_path"} : denying # {} }
           us == { l \in {"return_path"} : ~denied /\ absent }
           cs == { c \in {"return rule"} : ~exact }
<1>2. /\ stage = "return_nacl" /\ ~Stopped
      /\ UNCHANGED << destination, skipFirewall, nacl, inspected, returnPath, observations,
                      hostResults, answer >>
      /\ Kinds
      /\ destination # "collected" => returnPath.verdict = "abstain"
  <2>1. /\ stage = "return_nacl"
        /\ UNCHANGED << setup, inspected, back, hostResults, answer >>
    BY Zenon DEF ReturnNACL
  <2>2. ~Stopped
    BY <2>1 DEF Stopped
  <2> QED
    BY <2>1, <2>2, Walking DEF setup, back, Inv, Covered, PastReturn
<1>3. /\ exact => denial = denying
      /\ IF denied THEN Decide("nacl-return", FALSE, "host")
                   ELSE stage' = "host" /\ UNCHANGED << hops, blockedAt, abstentions, walkVerdict >>
      /\ Overlook(ls, us, cs)
  BY <1>1, Zenon DEF walk
<1>4. absent => "missing nacl" \in overlooked
  <2> SUFFICES ASSUME NEW end \in met, ~nacl[end] PROVE "missing nacl" \in overlooked
    OBVIOUS
  <2> QED
    BY <1>2 DEF Inv, NaclsAsked, PastSourceNACL, PastRoutes, Stopped, Ends
<1>5. \A end \in Ends \ met : destination # "collected"
  OBVIOUS
<1>6. denying # {} /\ ~denied => absent \/ ~exact \/ destination # "collected"
  <2> SUFFICES ASSUME NEW end \in denying, ~denied, exact, ~absent
               PROVE  destination # "collected"
    OBVIOUS
  <2>1. denial = denying
    BY <1>3
  <2>2. end \in Ends
    OBVIOUS
  <2>3. CASE end \in met
    BY <2>1, <2>3
  <2>4. CASE end \notin met
    BY <1>5, <2>2, <2>4
  <2> QED
    BY <2>3, <2>4
<1>7. denied => denying # {} \/ ~exact
  BY <1>3
<1>8. /\ ls \subseteq {"return_path"} /\ us \subseteq {"return_path"} /\ cs \subseteq {"return rule"}
      /\ ls # {} => denying # {}
      /\ denying # {} => "return_path" \in ls
      /\ us # {} => ~denied /\ absent
      /\ ~exact => "return rule" \in cs
  OBVIOUS
<1> HIDE DEF denied, absent, met, ls, us, cs
<1>9. /\ "return_path" \in Layer /\ "return rule" \in Conditions
      /\ Hides("return rule") = {"return_path"} /\ Invents("return rule") = {"return_path"}
      /\ "return_path" \in Hides("missing nacl")
  BY FlowIndexValues, ConditionValues DEF Conditions
<1>10. ls \in SUBSET Layer /\ us \in SUBSET Layer /\ cs \in SUBSET Conditions
  BY <1>8, <1>9
<1>11. /\ overlooked' = overlooked \cup cs /\ Blockable \cup ls \subseteq Blockable'
       /\ \A c \in cs : Invents(c) \subseteq Blockable'
       /\ drops' = drops \cup ls /\ unread' = unread \cup us
       /\ Overlooked \subseteq Overlooked'
       /\ \A c \in cs : Hides(c) \subseteq Overlooked'
  BY <1>3, HistoriesGrow
<1>12. absent => "return_path" \in Overlooked'
  BY <1>4, <1>9, <1>11 DEF Overlooked
<1>13. ~exact => "return_path" \in Overlooked' /\ "return_path" \in Blockable'
  BY <1>8, <1>9, <1>11
<1>14. /\ drops' \subseteq Layer /\ unread' \subseteq Layer /\ overlooked' \subseteq Conditions
  BY <1>2, <1>10, <1>11 DEF Kinds
<1>15. ASSUME \A l : Said(l) => Said(l)', denied => Said("return_path")'
       PROVE  UnreadIsSaid'
  <2> SUFFICES ASSUME NEW l \in drops' \cup unread', l \notin Overlooked' PROVE Said(l)'
    BY DEF UnreadIsSaid
  <2>1. CASE l \in drops \cup unread
    BY <1>11, <1>15, <2>1 DEF Inv, UnreadIsSaid
  <2>2. CASE l \in ls \cup us
    <3>1. l = "return_path"
      BY <1>8, <2>2
    <3>2. denied \/ destination # "collected"
      BY <1>6, <1>8, <1>12, <1>13, <2>2, <3>1
    <3>3. destination # "collected" => Said("return_path")
      BY <1>2 DEF Said
    <3> QED
      BY <1>15, <3>1, <3>2, <3>3
  <2> QED
    BY <1>11, <2>1, <2>2
<1>16. CASE denied
  <2> DEFINE h == Hop("nacl-return", FALSE)
  <2>1. h \in Hops /\ h.layer = "nacl-return" /\ ~h.allowed /\ h # NoHop /\ h # Hop("firewall", TRUE)
    BY DEF Hops, Hop, Gates, NoHop
  <2>2. /\ hops' \in Seq(Hops)
        /\ blockedAt' \in Elements(hops)' \cup {NoHop}
        /\ Met' = Met \cup {h}
        /\ Missed' = Missed /\ abstentions' = abstentions
        /\ stage' = "host" /\ blockedAt' = h /\ walkVerdict' = "BLOCKED"
    <3>1. "nacl-return" \in Gates
      BY DEF Gates
    <3>2. Decide("nacl-return", FALSE, "host")
      BY <1>3, <1>16
    <3> QED
      BY <1>2, <2>1, <3>1, <3>2, Decision
  <2>3. h = Hop("nacl-return", FALSE)
    OBVIOUS
  <2> HIDE DEF h
  <2>4. HostSaid' = {} /\ HostHeard' /\ Concluded'
    BY <1>2, <2>2, StillWalking
  <2>5. UnreadIsSaid'
    <3>1. \A l : Said(l) => Said(l)'
      BY <1>2, <2>2, SaidStays
    <3>2. Said("return_path")'
      BY <2>1, <2>2, HopLayerValues DEF Said
    <3> QED
      BY <1>15, <3>1, <3>2
  <2>6. Kinds'
    BY <1>2, <1>14, <2>2 DEF Kinds, Stages, Elements
  <2>7. Position'
    BY <1>2, <2>1, <2>2, <2>3, Walking DEF Inv, Position, Stopped, PastReturn, Gates
  <2>8. BlocksAreReal'
    <3>1. "return_path" \in Blockable'
      BY <1>7, <1>8, <1>11, <1>13, <1>16
    <3> QED
      BY <1>2, <1>11, <2>1, <2>2, <2>4, <3>1, HopLayerValues, BlocksStay
  <2>9. NaclsAsked' /\ Covered'
    BY <2>2 DEF NaclsAsked, Covered, Stopped
  <2> QED
    BY <2>4, <2>5, <2>6, <2>7, <2>8, <2>9 DEF Inv
<1>17. CASE ~denied
  <2>1. stage' = "host" /\ UNCHANGED << hops, blockedAt, abstentions, walkVerdict >>
    BY <1>3, <1>17
  <2>2. Met' = Met /\ Missed' = Missed
    BY <2>1 DEF Met, Missed, Elements
  <2>3. HostSaid' = {} /\ HostHeard' /\ Concluded'
    BY <1>2, <2>1, StillWalking
  <2>4. UnreadIsSaid'
    <3>1. \A l : Said(l) => Said(l)'
      BY <1>2, <2>2, SaidStays
    <3> QED
      BY <1>15, <1>17, <3>1
  <2>5. Kinds'
    BY <1>2, <1>14, <2>1 DEF Kinds, Stages
  <2>6. Position'
    BY <1>2, <2>1, <2>2, Walking DEF Inv, Position, Stopped, PastReturn
  <2>7. BlocksAreReal'
    BY <1>2, <1>11, <2>1, <2>3, Walking, BlocksStay
  <2>8. NaclsAsked'
    BY <2>1 DEF NaclsAsked, Stopped
  <2>9. Covered'
    BY <1>2, <2>1, <2>2
    DEF Inv, Covered, PastRoutes, PastSourceNACL, PastSourceSG, PastReturn, PastDestination
  <2> QED
    BY <2>3, <2>4, <2>5, <2>6, <2>7, <2>8, <2>9 DEF Inv
<1> QED
  BY <1>16, <1>17

-----------------------------------------------------------------------------
(* The stages after the walk.                                               *)

LEMMA TwoHostLayers ==
    /\ HostLayers[1] = "host_firewall" /\ HostLayers[2] = "host_listener"
    /\ \A i \in 1 .. 2 : HostLayers[i] \in {"host_firewall", "host_listener"}
<1>1. HostLayers[1] = "host_firewall"
  BY Zenon DEF HostLayers
<1>2. HostLayers[2] = "host_listener"
  BY Zenon DEF HostLayers
<1> QED
  BY <1>1, <1>2

(* Each of the two checks decides or abstains, and what it decides is true, *)
(* but for the conditions met.                                              *)
LEMMA HostSays ==
    ASSUME Inv, HostStage
    PROVE  /\ hostResults' \in Seq(HostFindings)
           /\ { f.layer : f \in HostSaid' } = {"host_firewall", "host_listener"}
           /\ drops' \subseteq Layer /\ unread' \subseteq Layer /\ overlooked' \subseteq Conditions
           /\ drops \cup unread \subseteq drops' \cup unread'
           /\ Overlooked \subseteq Overlooked' /\ Blockable \subseteq Blockable'
           /\ \A f \in HostSaid' : f.verdict = "blocked" => f.layer \in Blockable'
           /\ \A l \in (drops' \cup unread') \ (drops \cup unread) :
                  l \in Overlooked' \/ \E f \in HostSaid' : f.layer = l /\ f.verdict # "pass"
<1> DEFINE HL == {"host_firewall", "host_listener"}
           HC == {"zone", "socket", "instance"}
<1>1. PICK ls \in SUBSET HL :
        \/ /\ hostResults' = AbstainAll
           /\ Really(ls, HL)
        \/ \E silent, bs \in SUBSET HL, met \in SUBSET HC :
            /\ ls \ bs \subseteq UNION { Hides(c) : c \in met }
            /\ bs \ ls \subseteq UNION { Invents(c) : c \in met }
            /\ hostResults' = [i \in 1 .. 2 |->
                   IF HostLayers[i] \in silent THEN Abstain(HostLayers[i], TRUE)
                   ELSE Decided(HostLayers[i],
                                IF HostLayers[i] \in bs THEN "blocked" ELSE "pass")]
            /\ Overlook(ls, silent, met)
  BY Zenon DEF HostStage
<1> DEFINE says(f, l, silent, bs, cited) ==
        f = IF l \in silent THEN Abstain(l, cited)
            ELSE Decided(l, IF l \in bs THEN "blocked" ELSE "pass")
<1>2. PICK silent \in SUBSET HL, bs \in SUBSET HL, met \in SUBSET HC, cited \in BOOLEAN :
        /\ \A l \in ls \ bs : l \in silent \/ \E c \in met : l \in Hides(c)
        /\ \A l \in bs \ ls : l \in silent \/ \E c \in met : l \in Invents(c)
        /\ hostResults' = [i \in 1 .. 2 |->
               IF HostLayers[i] \in silent THEN Abstain(HostLayers[i], cited)
               ELSE Decided(HostLayers[i], IF HostLayers[i] \in bs THEN "blocked" ELSE "pass")]
        /\ Overlook(ls, silent, met)
  <2>1. CASE hostResults' = AbstainAll /\ Really(ls, HL)
    <3>1. hostResults' = [i \in 1 .. 2 |->
               IF HostLayers[i] \in HL THEN Abstain(HostLayers[i], FALSE)
               ELSE Decided(HostLayers[i], IF HostLayers[i] \in {} THEN "blocked" ELSE "pass")]
      BY <2>1, TwoHostLayers DEF AbstainAll
    <3>2. Overlook(ls, HL, {})
      BY <2>1 DEF Really
    <3>3. WITNESS HL \in SUBSET HL, {} \in SUBSET HL, {} \in SUBSET HC, FALSE \in BOOLEAN
    <3> QED
      BY <3>1, <3>2
  <2>2. ASSUME NEW silent \in SUBSET HL, NEW bs \in SUBSET HL, NEW met \in SUBSET HC,
               ls \ bs \subseteq UNION { Hides(c) : c \in met },
               bs \ ls \subseteq UNION { Invents(c) : c \in met },
               hostResults' = [i \in 1 .. 2 |->
                   IF HostLayers[i] \in silent THEN Abstain(HostLayers[i], TRUE)
                   ELSE Decided(HostLayers[i],
                                IF HostLayers[i] \in bs THEN "blocked" ELSE "pass")],
               Overlook(ls, silent, met)
        PROVE  \E si \in SUBSET HL, b \in SUBSET HL, me \in SUBSET HC, ci \in BOOLEAN :
                 /\ \A l \in ls \ b : l \in si \/ \E c \in me : l \in Hides(c)
                 /\ \A l \in b \ ls : l \in si \/ \E c \in me : l \in Invents(c)
                 /\ hostResults' = [i \in 1 .. 2 |->
                        IF HostLayers[i] \in si THEN Abstain(HostLayers[i], ci)
                        ELSE Decided(HostLayers[i], IF HostLayers[i] \in b THEN "blocked" ELSE "pass")]
                 /\ Overlook(ls, si, me)
    <3>1. /\ \A l \in ls \ bs : \E c \in met : l \in Hides(c)
          /\ \A l \in bs \ ls : \E c \in met : l \in Invents(c)
      BY <2>2
    <3>2. WITNESS silent \in SUBSET HL, bs \in SUBSET HL, met \in SUBSET HC, TRUE \in BOOLEAN
    <3> QED
      BY <2>2, <3>1
  <2> QED
    BY <1>1, <2>1, <2>2
<1>3. DOMAIN hostResults' = {1, 2} /\ \A i \in {1, 2} : hostResults'[i] =
          IF HostLayers[i] \in silent THEN Abstain(HostLayers[i], cited)
          ELSE Decided(HostLayers[i], IF HostLayers[i] \in bs THEN "blocked" ELSE "pass")
  BY <1>2
<1>4. HostSaid' = { hostResults'[1], hostResults'[2] }
  BY <1>3 DEF HostSaid, Elements
<1>5. /\ says(hostResults'[1], "host_firewall", silent, bs, cited)
      /\ says(hostResults'[2], "host_listener", silent, bs, cited)
  BY <1>3, TwoHostLayers
<1>6. ASSUME NEW l \in HL, NEW f, says(f, l, silent, bs, cited)
      PROVE  /\ f \in HostFindings /\ f.layer = l
             /\ f.verdict = IF l \in silent THEN "abstain"
                            ELSE IF l \in bs THEN "blocked" ELSE "pass"
  <2>1. l \in Layer
    BY FlowIndexValues
  <2>2. CASE l \in silent
    BY <1>6, <2>1, <2>2, AbstainFacts DEF HostFindings
  <2>3. CASE l \notin silent
    BY <1>6, <2>1, <2>3, DecidedFacts DEF HostFindings
  <2> QED
    BY <2>2, <2>3
<1> HIDE DEF says
<1>7. ASSUME NEW l \in HL
      PROVE  \E f \in HostSaid' : /\ f.layer = l
                                  /\ f.verdict = IF l \in silent THEN "abstain"
                                                 ELSE IF l \in bs THEN "blocked" ELSE "pass"
  BY <1>4, <1>5, <1>6
<1>8. ASSUME NEW f \in HostSaid'
      PROVE  /\ f \in HostFindings /\ f.layer \in HL
             /\ f.verdict = IF f.layer \in silent THEN "abstain"
                            ELSE IF f.layer \in bs THEN "blocked" ELSE "pass"
  BY <1>4, <1>5, <1>6
<1>9. /\ drops' = drops \cup ls /\ unread' = unread \cup silent
      /\ overlooked' = overlooked \cup met
      /\ Overlooked \subseteq Overlooked' /\ Blockable \cup ls \subseteq Blockable'
      /\ \A c \in met : Hides(c) \subseteq Overlooked' /\ Invents(c) \subseteq Blockable'
  BY <1>2, HistoriesGrow
<1>10. hostResults' \in Seq(HostFindings)
  BY <1>2, <1>3, <1>4, <1>8
<1>11. { f.layer : f \in HostSaid' } = {"host_firewall", "host_listener"}
  BY <1>7, <1>8
<1>12. \A f \in HostSaid' : f.verdict = "blocked" => f.layer \in Blockable'
  <2> SUFFICES ASSUME NEW f \in HostSaid', f.verdict = "blocked" PROVE f.layer \in Blockable'
    OBVIOUS
  <2>1. f.layer \in bs /\ f.layer \notin silent
    BY <1>8
  <2>2. CASE f.layer \in ls
    BY <1>9, <2>2
  <2>3. CASE f.layer \notin ls
    BY <1>2, <1>9, <2>1, <2>3
  <2> QED
    BY <2>2, <2>3
<1>13. ASSUME NEW l \in ls \cup silent, l \notin Overlooked'
       PROVE  \E f \in HostSaid' : f.layer = l /\ f.verdict # "pass"
  <2>1. l \in HL
    OBVIOUS
  <2>2. l \in silent \/ l \in bs
    BY <1>2, <1>9, <1>13
  <2>3. (IF l \in silent THEN "abstain" ELSE IF l \in bs THEN "blocked" ELSE "pass") # "pass"
    BY <2>2
  <2> QED
    BY <1>7, <2>1, <2>3
<1>14. HL \subseteq Layer /\ HC \subseteq Conditions
  BY FlowIndexValues DEF Conditions
<1>15. drops' \subseteq Layer /\ unread' \subseteq Layer /\ overlooked' \subseteq Conditions
  BY <1>9, <1>14 DEF Inv, Kinds
<1>16. /\ drops \cup unread \subseteq drops' \cup unread' /\ Blockable \subseteq Blockable'
       /\ (drops' \cup unread') \ (drops \cup unread) \subseteq ls \cup silent
  BY <1>9
<1> QED
  BY <1>9, <1>10, <1>11, <1>12, <1>13, <1>15, <1>16

LEMMA KeptByHostStage == Inv /\ HostStage => Inv'
<1> SUFFICES ASSUME Inv, HostStage PROVE Inv'
  OBVIOUS
<1>1. /\ stage = "host" /\ stage' = "correlate"
      /\ UNCHANGED << destination, skipFirewall, nacl, inspected, hops, blockedAt, abstentions,
                      walkVerdict, returnPath, observations, answer >>
  BY DEF HostStage, setup, back, walk
<1>2. Met' = Met /\ Missed' = Missed /\ HostSaid = {}
  BY <1>1 DEF Met, Missed, HostSaid, Elements, Inv, HostHeard
<1>3. Kinds'
  BY <1>1, HostSays DEF Inv, Kinds, Stages
<1>4. Position'
  BY <1>1, <1>2 DEF Inv, Position, Stopped, PastReturn
<1>5. BlocksAreReal'
  BY <1>1, HostSays DEF Inv, BlocksAreReal
<1>6. UnreadIsSaid'
  <2> SUFFICES ASSUME NEW l \in drops' \cup unread', l \notin Overlooked' PROVE Said(l)'
    BY DEF UnreadIsSaid
  <2>1. CASE l \in drops \cup unread
    <3>1. Said(l)
      BY <2>1, HostSays DEF Inv, UnreadIsSaid
    <3> QED
      BY <1>1, <1>2, <3>1 DEF Said
  <2>2. CASE l \notin drops \cup unread
    <3>1. \E f \in HostSaid' : f.layer = l /\ f.verdict # "pass"
      BY <2>2, HostSays
    <3> QED
      BY <3>1 DEF Said
  <2> QED
    BY <2>1, <2>2
<1>7. NaclsAsked'
  BY <1>1 DEF NaclsAsked, Stopped
<1>8. Covered'
  BY <1>1, <1>2
  DEF Inv, Covered, PastRoutes, PastSourceNACL, PastSourceSG, PastReturn, PastDestination
<1>9. HostHeard'
  BY <1>1, HostSays DEF HostHeard
<1>10. Concluded'
  BY <1>1 DEF Inv, Concluded, Correlator!NoAnswer
<1> QED
  BY <1>3, <1>4, <1>5, <1>6, <1>7, <1>8, <1>9, <1>10 DEF Inv

(* The Correlator answers on the findings it was given.                     *)
LEMMA SameFindings ==
    ASSUME UNCHANGED << hops, blockedAt, abstentions, returnPath, hostResults >>
    PROVE  /\ Met' = Met /\ Missed' = Missed /\ HostSaid' = HostSaid
           /\ Findings' = Findings
           /\ Correlator!Answer' = Correlator!Answer
<1>1. Met' = Met /\ Missed' = Missed /\ HostSaid' = HostSaid
  BY DEF Met, Missed, HostSaid, Elements
<1>2. Findings' = Findings
  BY DEF Findings, LayerResults, Path, ForwardAbstentions, ReturnFinding
<1>3. Correlator!Answer' = Correlator!Answer
  BY <1>2
  DEF Correlator!Answer, Correlator!ShownBlocked, Correlator!Cleared, Correlator!Settled,
      Correlator!Unverified, Correlator!Reported
<1> QED
  BY <1>1, <1>2, <1>3

LEMMA KeptByCorrelate == Inv /\ Correlate => Inv'
<1> SUFFICES ASSUME Inv, Correlate PROVE Inv'
  OBVIOUS
<1>1. /\ stage = "correlate" /\ stage' = "done" /\ answer' = Correlator!Answer
      /\ UNCHANGED << destination, skipFirewall, nacl, inspected, hops, blockedAt, abstentions,
                      walkVerdict, returnPath, observations, hostResults, drops, unread,
                      overlooked >>
  BY FindingsAreUsable DEF Inv, Correlate, setup, back, walk
<1>2. /\ Met' = Met /\ Missed' = Missed /\ HostSaid' = HostSaid
      /\ Correlator!Answer' = Correlator!Answer
  BY <1>1, SameFindings
<1>3. Kinds'
  BY <1>1 DEF Inv, Kinds, Stages
<1>4. Position'
  BY <1>1, <1>2 DEF Inv, Position, Stopped, PastReturn
<1>5. BlocksAreReal'
  BY <1>1, <1>2 DEF Inv, BlocksAreReal, Blockable, Invented
<1>6. UnreadIsSaid'
  BY <1>1, <1>2 DEF Inv, UnreadIsSaid, Said, Overlooked
<1>7. NaclsAsked'
  BY <1>1 DEF NaclsAsked, Stopped
<1>8. Covered'
  BY <1>1, <1>2
  DEF Inv, Covered, PastRoutes, PastSourceNACL, PastSourceSG, PastReturn, PastDestination
<1>9. HostHeard'
  BY <1>1, <1>2 DEF Inv, HostHeard
<1>10. Concluded'
  BY <1>1, <1>2 DEF Concluded
<1> QED
  BY <1>3, <1>4, <1>5, <1>6, <1>7, <1>8, <1>9, <1>10 DEF Inv

LEMMA KeptByStutter == Inv /\ UNCHANGED vars => Inv'
<1> SUFFICES ASSUME Inv, UNCHANGED vars PROVE Inv'
  OBVIOUS
<1>1. UNCHANGED << stage, destination, skipFirewall, nacl, inspected, hops, blockedAt, abstentions,
                   walkVerdict, returnPath, observations, hostResults, answer, drops, unread,
                   overlooked >>
  BY DEF vars
<1>2. /\ Met' = Met /\ Missed' = Missed /\ HostSaid' = HostSaid
      /\ Correlator!Answer' = Correlator!Answer
  BY <1>1, SameFindings
<1>3. Kinds' /\ NaclsAsked'
  BY <1>1 DEF Inv, Kinds, NaclsAsked, PastRoutes, PastSourceNACL, Stopped
<1>4. Position' /\ BlocksAreReal' /\ HostHeard'
  BY <1>1, <1>2
  DEF Inv, Position, BlocksAreReal, HostHeard, Stopped, PastReturn, Blockable, Invented
<1>5. UnreadIsSaid'
  BY <1>1, <1>2 DEF Inv, UnreadIsSaid, Said, Overlooked
<1>6. Covered'
  BY <1>1, <1>2
  DEF Inv, Covered, PastRoutes, PastSourceNACL, PastSourceSG, PastReturn, PastDestination
<1>7. Concluded'
  BY <1>1, <1>2 DEF Inv, Concluded, Correlator!NoAnswer
<1> QED
  BY <1>3, <1>4, <1>5, <1>6, <1>7 DEF Inv

LEMMA InvHolds == Spec => []Inv
<1>1. Inv /\ [Next]_vars => Inv'
  <2> SUFFICES ASSUME Inv, [Next]_vars PROVE Inv'
    OBVIOUS
  <2>1. CASE SourceUnknown
    BY <2>1, KeptBySourceUnknown
  <2>2. CASE SourceKnown
    BY <2>2, KeptBySourceKnown
  <2>3. CASE SourceSG
    BY <2>3, KeptBySG DEF SourceSG
  <2>4. CASE SourceNACL
    BY <2>4, KeptByNACL DEF SourceNACL
  <2>5. CASE Inspect
    BY <2>5, KeptByInspect
  <2>6. CASE Arrive
    BY <2>6, KeptByArrive
  <2>7. CASE RouteBlocked
    BY <2>7, KeptByRouteBlocked
  <2>8. CASE DestinationNACL
    BY <2>8, KeptByNACL DEF DestinationNACL
  <2>9. CASE DestinationSG
    BY <2>9, KeptBySG DEF DestinationSG
  <2>10. CASE DestinationOutside
    BY <2>10, KeptByDestinationOutside
  <2>11. CASE ReturnRoute
    BY <2>11, KeptByReturnRoute
  <2>12. CASE ReturnNACL
    BY <2>12, KeptByReturnNACL
  <2>13. CASE HostStage
    BY <2>13, KeptByHostStage
  <2>14. CASE Correlate
    BY <2>14, KeptByCorrelate
  <2>15. CASE UNCHANGED vars
    BY <2>15, KeptByStutter
  <2> QED
    BY <2>1, <2>2, <2>3, <2>4, <2>5, <2>6, <2>7, <2>8, <2>9, <2>10, <2>11, <2>12, <2>13,
       <2>14, <2>15 DEF Next
<1> QED
  BY <1>1, InvInit, PTL DEF Spec

-----------------------------------------------------------------------------
(* The theorems.                                                            *)

(* Whatever the stages found or did not find, every finding the Correlator  *)
(* is handed is of a known Layer, and the answer names a known one.         *)
THEOREM TypeCorrect == Spec => []TypeOK
BY InvHolds, IsTyped, PTL

(* What a diagnosis decides is what the network does, however little the    *)
(* snapshot holds of it: an authoritative permit, a Layer that blocks and a *)
(* Layer that is cleared are all true, but for the Layers that the          *)
(* conditions met on the way hide or invent (Hides, Invents).               *)
THEOREM AnswersAreTrue == Spec => []AnswerIsTrue
<1>1. Inv => AnswerIsTrue
  BY BlocksSoundly, UnreadIsNotCleared, PermitsSoundly DEF AnswerIsTrue
<1> QED
  BY <1>1, InvHolds, PTL

(* The primary blocker is the gate the walk stopped at, then a blocked way  *)
(* back, then a host Layer: the Correlator's ranking of the findings agrees *)
(* with the order in which the walk met the gates.                          *)
THEOREM VerdictsFollowWalk == Spec => []VerdictFollowsWalk
BY InvHolds, FollowsWalk, PTL

(* The Correlator never refuses what the stages hand it, and every Layer a  *)
(* reader is owed is reported as blocked, cleared or unverified.            *)
THEOREM NothingIsLeftOut == Spec => []NothingLeftOut
BY InvHolds, LeavesNothingOut, PTL

=============================================================================
