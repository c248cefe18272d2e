-------------------------------- MODULE Nacl --------------------------------
(***************************************************************************)
(* A network ACL for one direction of a flow (internal/query/nacl.go,      *)
(* nacl_return.go): its rules by number, the first that matches decides,   *)
(* and none is a deny.  The flow has one remote address and one protocol;  *)
(* its ports are one, asked for, or all of them, on the way back, which is *)
(* to a client's port nobody knows.                                        *)
(***************************************************************************)
EXTENDS Naturals, FiniteSets

CONSTANTS Ports,   (* the ports there are, 0 among them                      *)
          Remotes, (* remote addresses                                       *)
          Rules,   (* the rule sets there may be                             *)
          Flows    (* the flows that may be asked about                      *)

Carries == {"tcp", "udp"}   (* protocols with ports                          *)

(* A flow's packets are to the ports used; its ports are what the program   *)
(* takes them for.                                                          *)
(* The blocks are sets of addresses; lo and hi both 0 for any port.  Some   *)
(* protocols the program knows, of any other it knows the number.           *)
NaclRule == [number : Nat, proto : {"tcp", "udp", "icmp", "any", "other"},
             block : SUBSET Remotes, lo : Nat, hi : Nat, allow : BOOLEAN]

Flow == [remote : Remotes, proto : {"tcp", "udp", "icmp"},
         ports : (SUBSET Ports) \ {{}}, used : (SUBSET Ports) \ {{}}]

ASSUME NaclAssumption ==
    /\ Ports \subseteq Nat
    /\ \A S \in Rules : /\ S \subseteq NaclRule
                        /\ \A r, s \in S : r.number = s.number => r = s
    /\ Flows \subseteq Flow
    /\ \A f \in Flows : f.used \subseteq f.ports

VARIABLES rules, naclFlow,
          left,   (* the rules not yet looked at                             *)
          naclVerdict

naclVars == << rules, naclFlow, left, naclVerdict >>

NaclInit ==
    /\ rules \in Rules
    /\ naclFlow \in Flows
    /\ left = rules
    /\ naclVerdict = "none"

(* The one port looked at: the lowest of the flow's.                        *)
Lowest(ports) == CHOOSE p \in ports : \A q \in ports : p <= q

AnyPort(r) == r.lo = 0 /\ r.hi = 0

(* Slip: a port is within a range only past its start.                      *)
PortMatchesPast(r, port) == AnyPort(r) \/ (r.lo < port /\ port <= r.hi)

PortMatches(r, port) == AnyPort(r) \/ (r.lo <= port /\ port <= r.hi)

(* A protocol that is not known does not keep a rule from matching.         *)
ProtoMatches(r) == r.proto \in {"any", "other", naclFlow.proto}

(* naclRuleMatches.                                                         *)
Matches(r) ==
    /\ naclFlow.remote \in r.block
    /\ ProtoMatches(r)
    /\ naclFlow.proto \in Carries => PortMatches(r, Lowest(naclFlow.ports))

(* Slip: a rule is taken as listed.                                         *)
NextRuleListed(r) == TRUE

(* sort.Slice: the lowest number first.                                     *)
NextRule(r) == \A s \in left : r.number <= s.number

Decide(r) == naclVerdict' = IF r.allow THEN "allow" ELSE "deny"

Look ==
    /\ naclVerdict = "none"
    /\ \E r \in left :
        /\ NextRule(r)
        /\ left' = left \ {r}
        /\ IF Matches(r) THEN Decide(r) ELSE UNCHANGED naclVerdict
    /\ UNCHANGED << rules, naclFlow >>

Implicit == "deny"

(* No rule, or none that matched: the implicit deny.                        *)
Exhausted ==
    /\ naclVerdict = "none"
    /\ left = {}
    /\ naclVerdict' = Implicit
    /\ UNCHANGED << rules, naclFlow, left >>

NaclNext == Look \/ Exhausted

NaclSpec == NaclInit /\ [][NaclNext]_naclVars

-----------------------------------------------------------------------------
(* The network's own reading, packet by packet.                             *)

NaclCatches(r, port) ==
    /\ naclFlow.remote \in r.block
    /\ r.proto \in {"any", naclFlow.proto}
    /\ naclFlow.proto \in Carries => AnyPort(r) \/ port \in r.lo .. r.hi

(* Some rule lets the packet through, and no earlier one has caught it.     *)
NaclAdmits(port) ==
    \E r \in rules :
        /\ r.allow
        /\ NaclCatches(r, port)
        /\ \A s \in rules : s.number < r.number => ~NaclCatches(s, port)

-----------------------------------------------------------------------------
(* Properties.                                                              *)

(* Every variable holds a value of its kind, and a scan without a verdict   *)
(* has passed over the lowest numbers only.                                 *)
NaclTypeOK ==
    /\ rules \subseteq NaclRule
    /\ naclFlow \in Flow
    /\ left \subseteq rules
    /\ naclVerdict \in {"none", "allow", "deny"}
    /\ \A r \in rules \ left, s \in left : r.number < s.number

(* The flow asks about one port, and every rule is of a protocol that is    *)
(* known.  Of the flow back, to any port, only port 0 is looked at, and a   *)
(* rule of another protocol is taken to match.                              *)
Exact == /\ \E p \in Ports : naclFlow.ports = {p}
         /\ \A r \in rules : r.proto # "other"

(* An allow is true of every packet the flow may be, and a deny of some: a  *)
(* network ACL that admits them all does not block it.                      *)
NaclVerdictIsTrue ==
    /\ naclVerdict = "allow" /\ Exact => \A p \in naclFlow.used : NaclAdmits(p)
    /\ naclVerdict = "deny"  /\ Exact => \E p \in naclFlow.used : ~NaclAdmits(p)

=============================================================================
