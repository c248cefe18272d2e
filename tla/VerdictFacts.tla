---------------------------- MODULE VerdictFacts ----------------------------
(***************************************************************************)
(* Facts about flow order that the proof modules share.                    *)
(***************************************************************************)
EXTENDS Verdicts, TLAPS

(* The eight Layers and the position of each: what FlowOrder says, in a     *)
(* form the later proofs can cite.                                          *)
LEMMA FlowIndexValues ==
    /\ Layer = {"resolution", "route", "nacl", "security_group", "firewall",
                "return_path", "host_firewall", "host_listener"}
    /\ FlowIndex("resolution") = 1     /\ FlowIndex("route") = 2
    /\ FlowIndex("nacl") = 3           /\ FlowIndex("security_group") = 4
    /\ FlowIndex("firewall") = 5       /\ FlowIndex("return_path") = 6
    /\ FlowIndex("host_firewall") = 7  /\ FlowIndex("host_listener") = 8
<1>1. DOMAIN FlowOrder = 1 .. 8
  BY DEF FlowOrder
<1>2. 1 .. 8 = {1, 2, 3, 4, 5, 6, 7, 8}
  OBVIOUS
<1>3. /\ FlowOrder[1] = "resolution" /\ FlowOrder[2] = "route" /\ FlowOrder[3] = "nacl"
      /\ FlowOrder[4] = "security_group" /\ FlowOrder[5] = "firewall"
      /\ FlowOrder[6] = "return_path" /\ FlowOrder[7] = "host_firewall"
      /\ FlowOrder[8] = "host_listener"
  BY DEF FlowOrder
<1>4. Layer = {"resolution", "route", "nacl", "security_group", "firewall",
               "return_path", "host_firewall", "host_listener"}
  BY <1>1, <1>2, <1>3 DEF Layer
<1>5. ASSUME NEW k \in 1 .. 8
      PROVE  FlowIndex(FlowOrder[k]) = k
  <2>1. \A i \in 1 .. 8 : FlowOrder[i] = FlowOrder[k] => i = k
    BY <1>2, <1>3
  <2>2. QED
    BY <2>1, <1>1 DEF FlowIndex
<1>6. QED
  BY <1>3, <1>4, <1>5

(* Flow order is a total order on the Layers: no two share a position.      *)
LEMMA FlowIndexInjective ==
    \A l, m \in Layer : /\ FlowIndex(l) \in 1 .. 8
                        /\ FlowIndex(l) = FlowIndex(m) => l = m
BY FlowIndexValues

LEMMA NoLayerIsNoLayer == NoLayer \notin Layer /\ UnknownLayer \notin Layer
BY FlowIndexValues DEF NoLayer, UnknownLayer

(* A nonempty set of Layers has one that comes before all its others.       *)
LEMMA EarliestExists ==
    ASSUME NEW S, S \subseteq Layer, S # {}
    PROVE  \E l \in S : \A m \in S : FlowIndex(l) <= FlowIndex(m)
<1> DEFINE First(l) == \A m \in S : FlowIndex(l) <= FlowIndex(m)
<1>1. CASE "resolution" \in S
  <2>1. First("resolution")
    BY FlowIndexValues
  <2> QED
    BY <1>1, <2>1
<1>2. CASE "resolution" \notin S /\ "route" \in S
  <2>1. First("route")
    BY <1>2, FlowIndexValues
  <2> QED
    BY <1>2, <2>1
<1>3. CASE {"resolution", "route"} \cap S = {} /\ "nacl" \in S
  <2>1. First("nacl")
    BY <1>3, FlowIndexValues
  <2> QED
    BY <1>3, <2>1
<1>4. CASE {"resolution", "route", "nacl"} \cap S = {} /\ "security_group" \in S
  <2>1. First("security_group")
    BY <1>4, FlowIndexValues
  <2> QED
    BY <1>4, <2>1
<1>5. CASE {"resolution", "route", "nacl", "security_group"} \cap S = {}
           /\ "firewall" \in S
  <2>1. First("firewall")
    BY <1>5, FlowIndexValues
  <2> QED
    BY <1>5, <2>1
<1>6. CASE {"resolution", "route", "nacl", "security_group", "firewall"} \cap S = {}
           /\ "return_path" \in S
  <2>1. First("return_path")
    BY <1>6, FlowIndexValues
  <2> QED
    BY <1>6, <2>1
<1>7. CASE {"resolution", "route", "nacl", "security_group", "firewall",
            "return_path"} \cap S = {} /\ "host_firewall" \in S
  <2>1. First("host_firewall")
    BY <1>7, FlowIndexValues
  <2> QED
    BY <1>7, <2>1
<1>8. CASE {"resolution", "route", "nacl", "security_group", "firewall",
            "return_path", "host_firewall"} \cap S = {}
  <2>1. S = {"host_listener"}
    BY <1>8, FlowIndexValues
  <2> QED
    BY <2>1, FlowIndexValues
<1>9. QED
  BY <1>1, <1>2, <1>3, <1>4, <1>5, <1>6, <1>7, <1>8

(* What Earliest returns: a member that comes before every other, and it is *)
(* the only Layer that does.                                                *)
LEMMA EarliestIsFirst ==
    ASSUME NEW S, S \subseteq Layer
    PROVE  /\ S = {} => Earliest(S) = NoLayer
           /\ S # {} => /\ Earliest(S) \in S
                        /\ \A m \in S : FlowIndex(Earliest(S)) <= FlowIndex(m)
           /\ \A l \in S : (\A m \in S : FlowIndex(l) <= FlowIndex(m)) => l = Earliest(S)
<1>1. S # {} => /\ Earliest(S) \in S
                /\ \A m \in S : FlowIndex(Earliest(S)) <= FlowIndex(m)
  BY EarliestExists DEF Earliest
<1>2. ASSUME NEW l \in S, \A m \in S : FlowIndex(l) <= FlowIndex(m)
      PROVE  l = Earliest(S)
  BY <1>1, <1>2, FlowIndexInjective
<1>3. QED
  BY <1>1, <1>2 DEF Earliest

(* Authoritative means settled.  "No abstaining Layer comes before the      *)
(* primary blocker" and "whichever abstaining Layers block in truth, the    *)
(* primary blocker stays where it is" are the same condition.               *)
LEMMA SettledWhenNoneBefore ==
    ASSUME NEW B, NEW U, B \subseteq Layer, U \subseteq Layer, B \cap U = {}
    PROVE  (\A hidden \in SUBSET U : Earliest(B \cup hidden) = Earliest(B))
           <=> { l \in U : \/ Earliest(B) = NoLayer
                           \/ FlowIndex(l) < FlowIndex(Earliest(B)) } = {}
<1> DEFINE Before == { l \in U : \/ Earliest(B) = NoLayer
                                 \/ FlowIndex(l) < FlowIndex(Earliest(B)) }
<1>1. ASSUME Before # {}
      PROVE  \E hidden \in SUBSET U : Earliest(B \cup hidden) # Earliest(B)
  <2>1. PICK l \in U : Earliest(B) = NoLayer \/ FlowIndex(l) < FlowIndex(Earliest(B))
    BY <1>1
  <2>2. \A m \in B \cup {l} : FlowIndex(l) <= FlowIndex(m)
    <3>1. CASE B = {}
      BY <3>1, FlowIndexInjective
    <3>2. CASE B # {}
      <4>1. Earliest(B) \in B /\ \A m \in B : FlowIndex(Earliest(B)) <= FlowIndex(m)
        BY <3>2, EarliestIsFirst
      <4>2. FlowIndex(l) < FlowIndex(Earliest(B))
        BY <2>1, <4>1, NoLayerIsNoLayer
      <4>3. QED
        BY <4>1, <4>2, FlowIndexInjective
    <3>3. QED
      BY <3>1, <3>2
  <2>3. Earliest(B \cup {l}) = l
    BY <2>2, EarliestIsFirst
  <2>4. Earliest(B) # l
    BY EarliestIsFirst, NoLayerIsNoLayer
  <2>5. QED
    BY <2>3, <2>4
<1>2. ASSUME Before = {}, NEW hidden \in SUBSET U
      PROVE  Earliest(B \cup hidden) = Earliest(B)
  <2>1. CASE B = {}
    <3>1. U = {}
      BY <1>2, <2>1, EarliestIsFirst
    <3>2. QED
      BY <3>1
  <2>2. CASE B # {}
    <3>1. Earliest(B) \in B /\ \A m \in B : FlowIndex(Earliest(B)) <= FlowIndex(m)
      BY <2>2, EarliestIsFirst
    <3>2. \A m \in hidden : ~(FlowIndex(m) < FlowIndex(Earliest(B)))
      BY <1>2
    <3>3. \A m \in B \cup hidden : FlowIndex(Earliest(B)) <= FlowIndex(m)
      BY <3>1, <3>2, FlowIndexInjective
    <3>4. B \cup hidden \subseteq Layer
      OBVIOUS
    <3>5. QED
      BY <3>1, <3>3, <3>4, EarliestIsFirst
  <2>3. QED
    BY <2>1, <2>2
<1>3. QED
  BY <1>1, <1>2

=============================================================================
