-------------------------- MODULE OperationsProofs --------------------------
(***************************************************************************)
(* Proofs about test and compare, for any snapshots, inputs, Layers and    *)
(* number of flows: type correctness, that a path is walked where it was   *)
(* named, and that a judged flow and a comparison say what is so, but for  *)
(* the Layers whose own finding is wrong.                                  *)
(***************************************************************************)
EXTENDS Operations, VerdictFacts, FiniteSetTheorems, SequenceTheorems, TLAPS

-----------------------------------------------------------------------------
(* What the Correlator makes of a path's findings.                          *)

Verdict == [primary : Layer \cup {NoLayer}, blocked : SUBSET Layer,
            cleared : SUBSET Layer, authoritative : BOOLEAN]

BlockedIn(r) == { l \in Reporting : r[l] = "blocked" }
UnreadIn(r)  == { l \in Reporting : r[l] = "abstain" }

(* The primary blocker is the earliest Layer that blocks, and the verdict   *)
(* is authoritative when nothing unread comes before it.                    *)
Concluded(r, v) ==
    /\ v.primary = Earliest(BlockedIn(r))
    /\ v.authoritative <=>
           \A l \in UnreadIn(r) : /\ BlockedIn(r) # {}
                                  /\ FlowIndex(Earliest(BlockedIn(r))) <= FlowIndex(l)

LEMMA ReportingIsLayers ==
    /\ Reporting \subseteq Layer
    /\ \A l \in Gates : ~Host(l) /\ l # "resolution"
    /\ \A l \in HostGates : Host(l)
    /\ "resolution" \in Reporting /\ ~Host("resolution")
    /\ \A l, m \in Layer : ~Host(l) /\ Host(m) => FlowIndex(l) < FlowIndex(m)
<1>1. Reporting \subseteq Layer
  BY GatesAssumption, FlowIndexValues DEF Reporting
<1>2. \A l, m \in Layer : ~Host(l) /\ Host(m) => FlowIndex(l) < FlowIndex(m)
  BY FlowIndexValues DEF Host
<1> QED
  BY <1>1, <1>2, GatesAssumption DEF Reporting, Host

LEMMA PathConcludes ==
    ASSUME NEW r \in Report
    PROVE  /\ Path(r).found = r /\ Path(r).verdict \in Verdict
           /\ Concluded(r, Path(r).verdict)
<1> DEFINE B == BlockedIn(r)
           U == UnreadIn(r)
<1>1. \A l, v : Correlator(r)!Reported(l, v) <=> l \in Reporting /\ r[l] = v /\ v # "silent"
  BY DEF Correlator!Reported, FindingsOf, Report
<1>2. B \subseteq Layer /\ U \subseteq Layer /\ B \cap U = {}
  BY ReportingIsLayers DEF BlockedIn, UnreadIn
<1>3. \A S : Correlator(r)!Earliest(S) = Earliest(S)
  BY DEF Correlator!Earliest, Earliest, Correlator!NoLayer, NoLayer, Correlator!FlowIndex,
         FlowIndex, Correlator!FlowOrder, FlowOrder
<1>4. Correlator(r)!ShownBlocked = B /\ Correlator(r)!Unverified = U
  <2>1. Correlator(r)!Layer = Layer
    BY DEF Correlator!Layer, Layer, Correlator!FlowOrder, FlowOrder
  <2> QED
    BY <1>1, <1>2, <2>1, ReportingIsLayers
       DEF Correlator!ShownBlocked, Correlator!Unverified, BlockedIn, UnreadIn
<1>5. Correlator(r)!Settled <=> \A hidden \in SUBSET U : Earliest(B \cup hidden) = Earliest(B)
  BY <1>3, <1>4 DEF Correlator!Settled
<1>6. Correlator(r)!Settled <=> \A l \in U : B # {} /\ FlowIndex(Earliest(B)) <= FlowIndex(l)
  <2>1. Earliest(B) = NoLayer <=> B = {}
    BY <1>2, EarliestIsFirst, NoLayerIsNoLayer
  <2>2. B # {} => Earliest(B) \in Layer
    BY <1>2, EarliestIsFirst
  <2>3. ASSUME NEW l \in U
        PROVE  ~(Earliest(B) = NoLayer \/ FlowIndex(l) < FlowIndex(Earliest(B)))
               <=> B # {} /\ FlowIndex(Earliest(B)) <= FlowIndex(l)
    <3>1. CASE B = {}
      BY <3>1, <2>1
    <3>2. CASE B # {}
      BY <3>2, <2>1, <2>2, <1>2, FlowIndexInjective
    <3> QED
      BY <3>1, <3>2
  <2> HIDE DEF B, U
  <2>4. Correlator(r)!Settled
        <=> { l \in U : Earliest(B) = NoLayer \/ FlowIndex(l) < FlowIndex(Earliest(B)) } = {}
    BY <1>2, <1>5, SettledWhenNoneBefore
  <2> QED
    BY <2>3, <2>4
<1>7. Correlator(r)!Cleared \subseteq Layer
  <2>1. Correlator(r)!Layer = Layer
    BY DEF Correlator!Layer, Layer, Correlator!FlowOrder, FlowOrder
  <2> QED
    BY <2>1 DEF Correlator!Cleared
<1>8. Earliest(B) \in Layer \cup {NoLayer}
  BY <1>2, EarliestIsFirst
<1>9. /\ Path(r).found = r
      /\ Path(r).verdict = [primary |-> Earliest(B), blocked |-> B,
             cleared |-> Correlator(r)!Cleared, authoritative |-> Correlator(r)!Settled]
  BY <1>3, <1>4 DEF Path, Correlator!Answer
<1>10. Correlator(r)!Settled \in BOOLEAN
  BY DEF Correlator!Settled
<1> QED
  <2> HIDE DEF B, U
  <2>1. Path(r).verdict \in Verdict
    BY <1>2, <1>7, <1>8, <1>9, <1>10 DEF Verdict
  <2>2. Path(r).verdict.primary = Earliest(B)
    BY <1>9
  <2>3. Path(r).verdict.authoritative = Correlator(r)!Settled
    BY <1>9
  <2>4. Concluded(r, Path(r).verdict)
    BY <1>6, <2>2, <2>3 DEF Concluded, B, U
  <2> QED
    BY <1>9, <2>1, <2>4

-----------------------------------------------------------------------------
(* One declared flow.                                                       *)

JudgedRight(e, c, r, real) ==
    (c = "pass" => Fares(e, r, real)) /\ (c = "fail" => Fares(Otherwise(e), r, real))

(* What is established of a flow is so, but for the findings that are wrong.*)
LEMMA JudgementsAreRight ==
    ASSUME operation = "test", NEW r \in Report, MaySay(r), NEW real \in SUBSET Droppers,
           NEW e \in {"permitted", "blocked"}
    PROVE  JudgedRight(e, Judge(e, Path(r).verdict), r, real)
<1> DEFINE B == BlockedIn(r)
           v == Path(r).verdict
<1>1. Concluded(r, v)
  BY PathConcludes
<1>2. B \subseteq Layer
  BY ReportingIsLayers DEF BlockedIn
<1>3. real \subseteq Gates /\ \A l \in HostGates : r[l] = "silent"
  BY DEF Droppers, MaySay
<1>4. v.primary = NoLayer <=> B = {}
  BY <1>1, <1>2, EarliestIsFirst, NoLayerIsNoLayer DEF Concluded
<1>5. CASE B # {}
  <2>1. PICK l \in Reporting : r[l] = "blocked"
    BY <1>5 DEF BlockedIn
  <2>2. l \in Gates
    BY <2>1, <1>3 DEF Reporting, MaySay
  <2>3. l \in real \cup Wrong(r, real)
    BY <2>1, <2>2 DEF Wrong
  <2>4. Judge(e, v) = IF e = "blocked" THEN "pass" ELSE "fail"
    BY <1>4, <1>5 DEF Judge, Established, Reachability
  <2> QED
    BY <2>3, <2>4 DEF JudgedRight, Fares, Otherwise
<1>6. CASE B = {} /\ UnreadIn(r) # {}
  <2>1. Judge(e, v) = "inconclusive"
    BY <1>1, <1>4, <1>6 DEF Judge, Established, Concluded
  <2> QED
    BY <2>1 DEF JudgedRight
<1>7. CASE B = {} /\ UnreadIn(r) = {}
  <2>1. \A l \in Reporting : r[l] # "blocked" /\ r[l] # "abstain"
    BY <1>7 DEF BlockedIn, UnreadIn
  <2>2. r["resolution"] = "pass" /\ \A l \in Gates : r[l] \in {"pass", "silent"}
    BY <2>1 DEF MaySay, Report, Reporting, LayerVerdict
  <2>3. real \subseteq Wrong(r, real)
    BY <2>2, <1>3 DEF Wrong
  <2>4. Judge(e, v) = IF e = "permitted" THEN "pass" ELSE "fail"
    BY <1>1, <1>4, <1>7 DEF Judge, Established, Reachability, Concluded
  <2> QED
    BY <2>3, <2>4 DEF JudgedRight, Fares, Otherwise
<1> QED
  BY <1>5, <1>6, <1>7

-----------------------------------------------------------------------------
(* Two paths compared.                                                      *)

(* What is found of a compared path, right or wrong: its host Layers have   *)
(* been looked at, and its resolution blocks nothing.                       *)
Telling(r, real) ==
    /\ \A l \in HostGates : r[l] # "silent"
    /\ r["resolution"] \in {"pass", "abstain"}
    /\ real \subseteq Gates \cup HostGates

LEMMA CorrelatedTells ==
    ASSUME operation = "compare", NEW r \in Report, MaySay(r), NEW real \in SUBSET Droppers
    PROVE  Telling(r, real)
BY DEF Telling, MaySay, Droppers

(* What the two paths are, once both have been diagnosed.                   *)
Comparable ==
    \A i \in {1, 2} : /\ paths[i].found \in Report
                      /\ Concluded(paths[i].found, paths[i].verdict)
                      /\ Telling(paths[i].found, drops[i])

(* Where no cloud Layer is incomplete or different, and yet the behaviour   *)
(* differs, no cloud Layer drops either path but those misread.             *)
LEMMA CloudIsClear ==
    ASSUME Comparable, NEW entries, BehaviourDiffers,
           \A m \in Incomplete \cup Differences(entries) : Host(m)
    PROVE  \A i \in {1, 2} : drops[i] \cap Gates \subseteq Misread(i)
<1> DEFINE r1 == paths[1].found
           r2 == paths[2].found
           Cloud == Gates \cup {"resolution"}
           Blocks == { l \in Gates : r1[l] = "blocked" }
<1>1. \A l \in Cloud : l \in Reporting /\ ~Host(l)
  BY ReportingIsLayers DEF Reporting
<1>2. \A l \in Cloud : r1[l] = r2[l] /\ r1[l] # "abstain"
  <2>1. ASSUME NEW l \in Cloud PROVE l \notin Incomplete /\ l \notin Differences(entries)
    BY <1>1
  <2> QED
    BY <1>1, <2>1 DEF Incomplete, Differences, Both, Reported, Found
<1>3. r1["resolution"] = "pass" /\ r2["resolution"] = "pass"
  BY <1>2 DEF Comparable, Telling
<1>4. Blocks = {}
  <2>1. SUFFICES ASSUME Blocks # {} PROVE FALSE
    OBVIOUS
  <2>2. Blocks \subseteq Layer
    BY <1>1, ReportingIsLayers
  <2>3. PICK f \in Blocks : \A m \in Blocks : FlowIndex(f) <= FlowIndex(m)
    BY <2>1, <2>2, EarliestExists
  <2>4. ASSUME NEW i \in {1, 2}
        PROVE  paths[i].verdict.primary = f
    <3> DEFINE B == BlockedIn(paths[i].found)
    <3>1. B \subseteq Layer /\ f \in B
      BY <1>1, <1>2, <2>3, ReportingIsLayers DEF BlockedIn
    <3>2. ASSUME NEW m \in B PROVE FlowIndex(f) <= FlowIndex(m)
      <4>1. CASE m \in Gates
        BY <4>1, <1>2, <2>3 DEF BlockedIn
      <4>2. CASE m = "resolution"
        BY <4>2, <1>3 DEF BlockedIn
      <4>3. CASE m \in HostGates
        BY <4>3, <1>1, <2>3, <3>1, ReportingIsLayers, FlowIndexInjective
      <4> QED
        BY <4>1, <4>2, <4>3 DEF BlockedIn, Reporting
    <3>3. f = Earliest(B)
      BY <3>1, <3>2, EarliestIsFirst
    <3> QED
      BY <3>3 DEF Comparable, Concluded
  <2>5. paths[1].verdict.primary = paths[2].verdict.primary /\ paths[1].verdict.primary # NoLayer
    BY <2>4, <2>2, <2>3, NoLayerIsNoLayer
  <2> QED
    BY <2>5 DEF BehaviourDiffers
<1>5. \A i \in {1, 2} : \A l \in Gates : paths[i].found[l] \in {"pass", "silent"}
  <2>1. \A l \in Gates : r1[l] # "blocked" /\ r1[l] # "abstain"
    BY <1>2, <1>4
  <2>2. \A l \in Gates : r1[l] \in {"pass", "blocked", "abstain", "silent"}
    BY <1>1 DEF Comparable, Report, LayerVerdict
  <2>3. \A l \in Gates : r1[l] \in {"pass", "silent"} /\ r2[l] = r1[l]
    BY <1>2, <2>1, <2>2
  <2> QED
    BY <2>3
<1> QED
  BY <1>3, <1>5 DEF Misread, Wrong

(* Two paths without a difference and without anything unread are dropped   *)
(* by no Layer, or by the same one.                                         *)
LEMMA SameFate ==
    ASSUME Comparable, NEW entries, Differences(entries) = {}, Incomplete = {}
    PROVE  \/ \A i \in {1, 2} : drops[i] \subseteq Misread(i)
           \/ \E l \in Layer : \A i \in {1, 2} : l \in drops[i] \cup Misread(i)
<1> DEFINE r1 == paths[1].found
           B == BlockedIn(r1)
<1>1. \A l \in Reporting : r1[l] = paths[2].found[l] /\ r1[l] # "abstain"
  BY DEF Incomplete, Differences, Both, Reported, Found
<1>2. r1["resolution"] = "pass"
  BY <1>1, ReportingIsLayers DEF Comparable, Telling
<1>3. \A i \in {1, 2} : /\ paths[i].found \in Report /\ Telling(paths[i].found, drops[i])
                       /\ \A l \in Reporting : paths[i].found[l] = r1[l]
  BY <1>1 DEF Comparable
<1>4. CASE B = {}
  <2>1. ASSUME NEW i \in {1, 2}, NEW l \in drops[i]
        PROVE  l \in Misread(i)
    <3> DEFINE r == paths[i].found
    <3>1. l \in Reporting /\ l \in Gates \cup HostGates
      BY <1>3, <2>1 DEF Telling, Reporting
    <3>2. r[l] \in {"pass", "silent"} /\ (l \in HostGates => r[l] = "pass")
      BY <1>1, <1>3, <1>4, <3>1 DEF BlockedIn, Report, LayerVerdict, Telling
    <3>3. r["resolution"] = "pass" /\ \A m \in Gates : r[m] # "blocked"
      BY <1>2, <1>3, <1>4, ReportingIsLayers DEF BlockedIn, Reporting
    <3> QED
      BY <2>1, <3>1, <3>2, <3>3 DEF Misread, Wrong
  <2> QED
    BY <2>1
<1>5. CASE B # {}
  <2>1. PICK l \in B : l \in Reporting /\ r1[l] = "blocked"
    BY <1>5 DEF BlockedIn
  <2>2. l \in Layer /\ l \in Gates \cup HostGates
    BY <1>2, <2>1, ReportingIsLayers DEF Reporting
  <2>3. \A i \in {1, 2} : l \in drops[i] \cup Misread(i)
    BY <1>3, <2>1, <2>2 DEF Misread, Wrong
  <2> QED
    BY <2>2, <2>3
<1> QED
  BY <1>4, <1>5

LEMMA SubtractionIsTrue ==
    ASSUME Comparable, NEW entries
    PROVE  /\ Direction(entries) # {} =>
                  /\ \A i \in {1, 2} : drops[i] \cap Gates \subseteq Misread(i)
                  /\ (drops[1] \ drops[2]) \cup (drops[2] \ drops[1])
                         \subseteq Direction(entries) \cup Misread(1) \cup Misread(2)
           /\ CompareExit(entries) = 0 =>
                  \/ \A i \in {1, 2} : drops[i] \subseteq Misread(i)
                  \/ \E l \in Layer : \A i \in {1, 2} : l \in drops[i] \cup Misread(i)
<1>1. ASSUME Direction(entries) # {}
      PROVE  /\ \A i \in {1, 2} : drops[i] \cap Gates \subseteq Misread(i)
             /\ (drops[1] \ drops[2]) \cup (drops[2] \ drops[1])
                    \subseteq Direction(entries) \cup Misread(1) \cup Misread(2)
  <2>1. /\ BehaviourDiffers
        /\ \E m \in Matched(entries) : ~Host(m) /\ m # "resolution"
        /\ \A m \in Incomplete \cup Differences(entries) : Host(m)
    BY <1>1 DEF Direction
  <2>2. \A i \in {1, 2} : drops[i] \cap Gates \subseteq Misread(i)
    BY <2>1, CloudIsClear
  <2>3. \A i \in {1, 2} : drops[i] \subseteq Gates \cup HostGates
    BY DEF Comparable, Telling
  <2>4. HostGates \subseteq Reported(1)
    BY DEF Comparable, Telling, Reported, Reporting, Found
  <2>5. HostGates \subseteq Direction(entries)
    BY <2>1, <2>4 DEF Direction
  <2> QED
    BY <2>2, <2>3, <2>5
<1>2. ASSUME CompareExit(entries) = 0
      PROVE  \/ \A i \in {1, 2} : drops[i] \subseteq Misread(i)
             \/ \E l \in Layer : \A i \in {1, 2} : l \in drops[i] \cup Misread(i)
  <2>1. Differences(entries) = {} /\ Incomplete = {}
    BY <1>2 DEF CompareExit, Authoritative
  <2> QED
    BY <2>1, SameFate
<1> QED
  BY <1>1, <1>2

-----------------------------------------------------------------------------
(* The two lookups of one address.                                          *)

LEMMA ResolvedKinds ==
    ASSUME NEW sn, NEW w, Resolves(ResolveEndpoint(sn, w))
    PROVE  ResolveEndpoint(sn, w).kind \in {"interface", "subnet", "vpc", "external"}
BY DEF Resolves, ResolveEndpoint, ResolveName, ResolveAddr, TheOne, Endpoint, Ambiguous,
       Unresolved

LEMMA PlacesAreVPCs ==
    ASSUME NEW sn \in Snapshots, NEW a
    PROVE  /\ Places(sn, a) \subseteq VPCNames \cup {Nowhere}
           /\ GroupPlaces(sn, a) \subseteq VPCNames \cup {Nowhere}
           /\ Places(sn, a) \subseteq { s.vpc : s \in { t \in sn.subnets : a \in t.cidr } } \cup {Nowhere}
<1>1. /\ \A s \in sn.subnets : s.vpc \in VPCNames
      /\ \A i \in sn.interfaces : i.vpc \in VPCNames
  BY SnapshotsAssumption DEF IsSnapshot, Subnet, Interface
<1>2. SubnetForAddr(sn, a) \subseteq { s \in sn.subnets : a \in s.cidr }
  BY DEF SubnetForAddr
<1> QED
  BY <1>1, <1>2 DEF Places, GroupPlaces, Holding, InUse

(* A finite set that a is in has at least the one member of {a}.            *)
LEMMA CoversOne ==
    ASSUME NEW S, NEW a \in S, IsFiniteSet(S)
    PROVE  Cardinality({a}) <= Cardinality(S)
<1>1. IsFiniteSet({a}) /\ Cardinality({a}) = 1
  BY FS_Singleton
<1>2. Cardinality(S) \in Nat /\ Cardinality(S) # 0
  BY FS_CardinalityType, FS_EmptySet
<1> QED
  BY <1>1, <1>2

(* Of a finite set with no more than one member, the chosen one is the only.*)
LEMMA OnlyOne ==
    ASSUME NEW S, IsFiniteSet(S), ~(Cardinality(S) > 1), NEW x \in S
    PROVE  (CHOOSE y \in S : TRUE) = x
<1>1. Cardinality(S) \in Nat /\ Cardinality(S) # 0
  BY FS_CardinalityType, FS_EmptySet
<1>2. Cardinality(S) = 1
  BY <1>1
<1>3. PICK z : S = {z}
  BY <1>2, FS_Singleton
<1> QED
  BY <1>3

(* Where an endpoint was named by an address or a name, and no interface    *)
(* decided it against another claim, the walk finds it in its VPC or not at *)
(* all.                                                                     *)
LEMMA LookupsAgree ==
    ASSUME NEW sn \in Snapshots, NEW w \in Inputs, w.form # "prefix",
           NEW e, e = ResolveEndpoint(sn, w), Resolves(e),
           e.kind = "interface" =>
               /\ \A s \in sn.subnets : e.addr \in s.cidr => s.vpc = e.vpc
               /\ \A i \in Holding(sn, e.addr) : i.vpc = e.vpc
    PROVE  Places(sn, e.addr) \cup GroupPlaces(sn, e.addr) \subseteq {e.vpc, Nowhere}
<1> DEFINE a == e.addr
           Near == SubnetsContaining(sn, a, {a})
<1>1. CASE e.kind = "interface"
  <2>1. Places(sn, a) \subseteq {e.vpc, Nowhere}
    BY <1>1, PlacesAreVPCs
  <2>2. GroupPlaces(sn, a) \subseteq {e.vpc, Nowhere}
    BY <1>1 DEF GroupPlaces
  <2> QED
    BY <2>1, <2>2
<1>2. CASE e.kind # "interface"
  <2>1. w.form = "address" /\ w.cidr = {w.addr}
    <3>1. w.form # "name"
      BY <1>2 DEF ResolveEndpoint, ResolveName, Endpoint, Resolves, Ambiguous, Unresolved
    <3>2. w.form = "address" /\ w = ByAddress(w.addr)
      BY <3>1, InputsAssumption DEF IsInput
    <3>3. PICK x : w = ByAddress(x)
      BY <3>2
    <3>4. w.addr = x /\ w.cidr = {x}
      BY <3>3 DEF ByAddress
    <3> QED
      BY <3>2, <3>4
  <2>2. e = ResolveAddr(sn, w.addr, {w.addr})
    BY <2>1 DEF ResolveEndpoint
  <2>3. a = w.addr /\ e = ResolveAddr(sn, a, {a})
    <3>1. e = Ambiguous \/ \E k, v : e = Endpoint(k, v, w.addr)
      BY <2>2 DEF ResolveAddr, TheOne
    <3>2. e # Ambiguous
      BY DEF Resolves, Ambiguous, Endpoint
    <3>3. PICK k, v : e = Endpoint(k, v, w.addr)
      BY <3>1, <3>2
    <3>4. a = w.addr
      BY <3>3 DEF Endpoint
    <3> QED
      BY <2>2, <3>4
  <2>4. Holding(sn, a) = {}
    BY <1>2, <2>3 DEF ResolveAddr, TheOne, Endpoint, Resolves, Ambiguous
  <2>5. GroupPlaces(sn, a) = {Nowhere}
    BY <2>4 DEF GroupPlaces
  <2>6. \A s \in sn.subnets : a \in s.cidr => s \in Near
    <3>1. \A s \in sn.subnets : IsFiniteSet(s.cidr)
      BY SnapshotsAssumption DEF IsSnapshot
    <3> QED
      BY <3>1, CoversOne DEF SubnetsContaining, Covers
  <2>7. CASE Near = {}
    <3>1. Places(sn, a) \subseteq {Nowhere}
      BY <2>6, <2>7, PlacesAreVPCs
    <3> QED
      BY <3>1, <2>5
  <2>8. CASE Near # {}
    <3>1. e = TheOne("subnet", Near, a)
      BY <2>3, <2>4, <2>8 DEF ResolveAddr
    <3>2. ~(Cardinality(Near) > 1) /\ e.vpc = (CHOOSE s \in Near : TRUE).vpc
      BY <3>1 DEF TheOne, Endpoint, Resolves, Ambiguous
    <3>3. IsFiniteSet(Near)
      <4>1. Near \subseteq sn.subnets /\ IsFiniteSet(sn.subnets)
        BY SnapshotsAssumption DEF SubnetsContaining, IsSnapshot
      <4> QED
        BY <4>1, FS_Subset
    <3>4. \A s \in Near : s.vpc = e.vpc
      BY <3>2, <3>3, OnlyOne
    <3>5. ASSUME NEW v \in Places(sn, a), v # Nowhere
          PROVE  v = e.vpc
      <4>1. PICK s \in sn.subnets : a \in s.cidr /\ v = s.vpc
        BY <3>5, PlacesAreVPCs
      <4> QED
        BY <4>1, <2>6, <3>4
    <3> QED
      BY <3>5, <2>5
  <2> QED
    BY <2>7, <2>8
<1> QED
  BY <1>1, <1>2

-----------------------------------------------------------------------------
(* The inductive invariant.                                                 *)

Expectation == {"permitted", "blocked"}
Outcome     == {"pass", "fail", "inconclusive"}
PathRecord  == [found : Report, verdict : Verdict]

(* What is kept of the paths is one entry for each.                         *)
Kept ==
    /\ paths \in Seq(PathRecord) /\ drops \in Seq(SUBSET (Gates \cup HostGates))
    /\ expected \in Seq(Expectation) /\ cases \in Seq(Outcome)

Counted ==
    /\ Len(drops) = Len(paths) /\ Len(paths) <= flows
    /\ stage \in {"walk", "correlate"} => Len(paths) < flows
    /\ operation = "test" => Len(cases) = Len(paths) /\ Len(expected) = Len(paths) /\ exit # 2
    /\ operation = "compare" => cases = << >> /\ expected = << >> /\ flows = 2
    /\ stage = "done" /\ exit # 2 => Len(paths) = flows

(* The path at hand is the one that was named, and was looked up again.     *)
Looked ==
    /\ stage \in {"walk", "correlate"} =>
           \A d \in End : ends[d] = ResolveEndpoint(snap, asked[d]) /\ Resolves(ends[d])
    /\ stage = "correlate" =>
           \A d \in End : /\ walked[d].subnet \in Places(snap, ends[d].addr)
                          /\ walked[d].groups \in GroupPlaces(snap, ends[d].addr)

(* What is known of the flows judged and of the paths to compare.           *)
Judged ==
    operation = "test" =>
        /\ \A i \in DOMAIN cases : JudgedRight(expected[i], cases[i], paths[i].found, drops[i])
        /\ exit = 0 => \A i \in DOMAIN cases : cases[i] = "pass"

Told ==
    operation = "compare" =>
        \A i \in DOMAIN paths : /\ Concluded(paths[i].found, paths[i].verdict)
                                /\ Telling(paths[i].found, drops[i])

Inv == TypeOK /\ Kept /\ Counted /\ Looked /\ Judged /\ Told /\ ComparisonIsTrue

LEMMA InvInit == Init => Inv
<1> SUFFICES ASSUME Init PROVE Inv
  OBVIOUS
<1> USE DEF Init
<1>1. TypeOK
  <2>1. flows \in 1 .. (MaxFlows + 2)
    BY FlowsAssumption
  <2>2. \A d \in End : ends[d].kind = "unresolved"
    BY DEF NoEnds, Unresolved, Endpoint
  <2> QED
    BY <2>1, <2>2 DEF TypeOK, NoWalk, NoResult
<1>2. Kept /\ Counted
  BY FlowsAssumption DEF Kept, Counted
<1>3. Looked /\ Judged /\ Told /\ ComparisonIsTrue
  BY DEF Looked, Judged, Told, ComparisonIsTrue, Misread
<1> QED
  BY <1>1, <1>2, <1>3 DEF Inv

(* One more path, and what is said of those before it.                      *)
LEMMA OneMore ==
    ASSUME NEW S, NEW s \in Seq(S), NEW x \in S
    PROVE  /\ Append(s, x) \in Seq(S) /\ Len(Append(s, x)) = Len(s) + 1
           /\ DOMAIN Append(s, x) = DOMAIN s \cup {Len(s) + 1}
           /\ \A i \in DOMAIN s : Append(s, x)[i] = s[i]
           /\ Append(s, x)[Len(s) + 1] = x
<1>1. /\ Append(s, x) \in Seq(S) /\ Len(Append(s, x)) = Len(s) + 1
      /\ \A i \in 1 .. Len(s) : Append(s, x)[i] = s[i]
      /\ Append(s, x)[Len(s) + 1] = x
  BY AppendProperties
<1>2. DOMAIN s = 1 .. Len(s) /\ DOMAIN Append(s, x) = 1 .. (Len(s) + 1) /\ Len(s) \in Nat
  BY <1>1, LenProperties
<1> QED
  BY <1>1, <1>2

LEMMA NamedStep ==
    ASSUME Inv, ResolveEnds, stage' = "walk"
    PROVE  Inv'
<1>1. PICK words \in [End -> Inputs] :
          /\ asked' = words /\ ends' = [d \in End |-> ResolveEndpoint(snap, words[d])]
          /\ \A d \in End : Resolves(ResolveEndpoint(snap, words[d]))
  BY DEF ResolveEnds
<1>2. /\ stage = "resolve" /\ Len(paths) < flows
      /\ UNCHANGED << call, walked, paths, expected, cases, result, drops, exit >>
  BY DEF ResolveEnds
<1> USE DEF call
<1>3. TypeOK'
  <2>1. \A d \in End : ends'[d].kind \in {"interface", "subnet", "vpc", "external"}
    BY <1>1, ResolvedKinds
  <2> QED
    BY <1>1, <1>2, <2>1 DEF Inv, TypeOK
<1>4. (Kept /\ Counted)'
  BY <1>2 DEF Inv, Kept, Counted
<1>5. Looked'
  BY <1>1, <1>2 DEF Looked
<1>6. (Judged /\ Told /\ ComparisonIsTrue)'
  BY <1>2 DEF Inv, Judged, Told, ComparisonIsTrue, Misread
<1> QED
  BY <1>3, <1>4, <1>5, <1>6 DEF Inv

(* A flow that was not evaluated is judged neither way, and a comparison    *)
(* that cannot be made is an error.                                         *)
LEMMA UnnamedStep ==
    ASSUME Inv, ResolveEnds, stage' # "walk"
    PROVE  Inv'
<1>0. /\ stage = "resolve" /\ Len(paths) < flows
      /\ UNCHANGED << call, walked, result, asked, ends >>
  BY DEF ResolveEnds
<1> USE DEF call
<1>1. CASE operation = "test"
  <2>1. PICK e \in Expectation :
            /\ expected' = Append(expected, e) /\ cases' = Append(cases, "inconclusive")
            /\ paths' = Append(paths, Path(NoReport)) /\ drops' = Append(drops, {})
            /\ UNCHANGED << stage, exit >>
    BY <1>1 DEF ResolveEnds, GoesOn, Expectation
  <2>2. NoReport \in Report
    BY DEF NoReport, Report
  <2>3. Path(NoReport) \in PathRecord /\ Path(NoReport).found = NoReport
    BY <2>2, PathConcludes DEF PathRecord, Path
  <2> DEFINE n == Len(paths) + 1
  <2>4. /\ Kept'
        /\ Len(paths') = n /\ Len(drops') = n /\ Len(cases') = n /\ Len(expected') = n
        /\ DOMAIN cases' = DOMAIN cases \cup {n} /\ DOMAIN paths' = DOMAIN paths \cup {n}
        /\ DOMAIN drops' = DOMAIN drops \cup {n}
        /\ \A i \in DOMAIN cases : /\ cases'[i] = cases[i] /\ expected'[i] = expected[i]
                                  /\ drops'[i] = drops[i] /\ paths'[i] = paths[i]
        /\ cases'[n] = "inconclusive" /\ paths'[n] = Path(NoReport) /\ drops'[n] = {}
    <3>1. /\ paths \in Seq(PathRecord) /\ drops \in Seq(SUBSET (Gates \cup HostGates))
          /\ expected \in Seq(Expectation) /\ cases \in Seq(Outcome)
          /\ Len(drops) = Len(paths) /\ Len(cases) = Len(paths) /\ Len(expected) = Len(paths)
      BY <1>1 DEF Inv, Kept, Counted
    <3>2. /\ DOMAIN cases = DOMAIN paths /\ DOMAIN expected = DOMAIN paths
          /\ DOMAIN drops = DOMAIN paths
      BY <3>1, LenProperties
    <3>3. "inconclusive" \in Outcome
      BY DEF Outcome
    <3> QED
      BY <2>1, <2>3, <3>1, <3>2, <3>3, OneMore DEF Kept
  <2>5. TypeOK'
    BY <1>0, <1>1, <2>1, <2>2, <2>3, <2>4 DEF Inv, TypeOK, Kept, Outcome
  <2>6. Counted'
    BY <1>0, <1>1, <2>1, <2>4 DEF Inv, Counted, TypeOK
  <2>7. Looked'
    BY <1>0, <2>1 DEF Looked
  <2>8. (Judged /\ Told /\ ComparisonIsTrue)'
    BY <1>0, <1>1, <2>1, <2>4 DEF Inv, Judged, JudgedRight, Told, ComparisonIsTrue, Misread, TypeOK
  <2> QED
    BY <2>4, <2>5, <2>6, <2>7, <2>8 DEF Inv
<1>2. CASE operation # "test"
  <2>1. stage' = "done" /\ exit' = 2 /\ UNCHANGED << paths, expected, cases, drops >>
    BY <1>2 DEF ResolveEnds, GoesOn
  <2>2. TypeOK' /\ Kept'
    BY <1>0, <2>1 DEF Inv, TypeOK, Kept
  <2>3. (Counted /\ Looked /\ Judged /\ Told /\ ComparisonIsTrue)'
    BY <1>0, <1>2, <2>1 DEF Inv, Counted, Looked, Judged, Told, ComparisonIsTrue, Misread, TypeOK
  <2> QED
    BY <2>2, <2>3 DEF Inv
<1> QED
  BY <1>1, <1>2

LEMMA WalkStep ==
    ASSUME Inv, Walk
    PROVE  Inv'
<1>1. /\ stage = "walk" /\ stage' = "correlate"
      /\ UNCHANGED << call, asked, ends, paths, expected, cases, result, drops, exit >>
  BY DEF Walk
<1>2. PICK sub, grp \in [End -> VPCNames \cup {Nowhere}] :
          /\ \A d \in End : /\ sub[d] \in Places(snap, ends[d].addr)
                            /\ grp[d] \in GroupPlaces(snap, ends[d].addr)
          /\ walked' = [d \in End |-> [subnet |-> sub[d], groups |-> grp[d]]]
  BY DEF Walk
<1> USE DEF call
<1>3. TypeOK'
  <2>1. walked' \in [End -> [subnet : VPCNames \cup {Nowhere}, groups : VPCNames \cup {Nowhere}]]
    BY <1>2
  <2> QED
    BY <1>1, <2>1 DEF Inv, TypeOK
<1>4. Looked'
  BY <1>1, <1>2 DEF Inv, Looked
<1>5. (Kept /\ Counted)'
  BY <1>1 DEF Inv, Kept, Counted
<1>6. (Judged /\ Told /\ ComparisonIsTrue)'
  BY <1>1 DEF Inv, Judged, Told, ComparisonIsTrue, Misread
<1> QED
  BY <1>3, <1>4, <1>5, <1>6 DEF Inv

(* A path more, and what its findings come to.                              *)
LEMMA CorrelateStep ==
    ASSUME Inv, Correlate
    PROVE  Inv'
<1> DEFINE n == Len(paths) + 1
<1>1. /\ stage = "correlate" /\ stage' = "resolve"
      /\ asked' = << >> /\ ends' = NoEnds /\ walked' = NoWalk
      /\ UNCHANGED << call, result, exit >>
  BY DEF Correlate
<1>2. PICK report \in Report, real \in SUBSET Droppers :
          /\ MaySay(report)
          /\ drops' = Append(drops, real) /\ paths' = Append(paths, Path(report))
          /\ IF operation = "test"
             THEN \E e \in Expectation :
                     /\ expected' = Append(expected, e)
                     /\ cases' = Append(cases, Judge(e, Path(report).verdict))
             ELSE UNCHANGED << expected, cases >>
  <2>1. PICK path \in Diagnosed, real \in SUBSET Droppers :
            /\ MaySay(path.found)
            /\ paths' = Append(paths, path) /\ drops' = Append(drops, real)
            /\ IF operation = "test"
               THEN \E e \in Expectation :
                       /\ expected' = Append(expected, e)
                       /\ cases' = Append(cases, Judge(e, path.verdict))
               ELSE UNCHANGED << expected, cases >>
    BY DEF Correlate, Expectation
  <2>2. PICK report \in Report : path = Path(report)
    BY DEF Diagnosed
  <2>3. path.found = report
    BY <2>2, PathConcludes
  <2> QED
    BY <2>1, <2>2, <2>3
<1> USE DEF call
<1>3. /\ operation \in {"test", "compare"} /\ flows \in Nat
      /\ Len(paths) < flows /\ Len(drops) = Len(paths) /\ Len(paths) \in Nat
      /\ paths \in Seq(PathRecord) /\ drops \in Seq(SUBSET (Gates \cup HostGates))
      /\ expected \in Seq(Expectation) /\ cases \in Seq(Outcome)
      /\ DOMAIN drops = DOMAIN paths /\ DOMAIN paths = 1 .. Len(paths)
  BY <1>1, LenProperties DEF Inv, TypeOK, Kept, Counted
<1>4. /\ Path(report) \in PathRecord /\ Path(report).found = report
      /\ Concluded(report, Path(report).verdict)
  BY PathConcludes DEF PathRecord, Path
<1>5. real \in SUBSET (Gates \cup HostGates)
  BY DEF Droppers
<1>6. /\ paths' \in Seq(PathRecord) /\ drops' \in Seq(SUBSET (Gates \cup HostGates))
      /\ Len(paths') = n /\ Len(drops') = n
      /\ DOMAIN paths' = DOMAIN paths \cup {n} /\ DOMAIN drops' = DOMAIN paths \cup {n}
      /\ \A i \in DOMAIN paths : paths'[i] = paths[i] /\ drops'[i] = drops[i]
      /\ paths'[n] = Path(report) /\ drops'[n] = real
  BY <1>2, <1>3, <1>4, <1>5, OneMore
<1>7. n \notin DOMAIN paths
  BY <1>3
<1>8. \A d \in End : ends'[d].kind = "unresolved"
  BY <1>1 DEF NoEnds, Unresolved, Endpoint
<1>9. walked' \in [End -> [subnet : VPCNames \cup {Nowhere}, groups : VPCNames \cup {Nowhere}]]
  BY <1>1 DEF NoWalk
<1>10. \A i \in DOMAIN paths' : paths'[i].found \in Report
  <2>1. \A i \in DOMAIN paths' : paths'[i] \in PathRecord
    BY <1>6, ElementOfSeq, LenProperties
  <2> QED
    BY <2>1 DEF PathRecord
<1>11. \A i \in DOMAIN drops' : drops'[i] \subseteq Gates \cup HostGates
  BY <1>5, <1>6, <1>3
<1>12. /\ exit' \in {-1, 0, 1, 2} /\ (exit' = -1 \equiv stage' # "done")
       /\ operation' \in {"test", "compare"} /\ symptom' \in BOOLEAN /\ snap' \in Snapshots
       /\ flows' \in 1 .. (MaxFlows + 2)
       /\ result'.differences \subseteq Reporting /\ result'.direction \subseteq HostGates
       /\ Len(paths') <= flows' /\ Len(drops') = Len(paths')
  BY <1>1, <1>3, <1>6 DEF Inv, TypeOK
<1>13. Looked' /\ ComparisonIsTrue'
  BY <1>1 DEF Looked, ComparisonIsTrue
<1>14. CASE operation = "test"
  <2>1. PICK e \in Expectation : /\ expected' = Append(expected, e)
                                 /\ cases' = Append(cases, Judge(e, Path(report).verdict))
    BY <1>2, <1>14
  <2>2. Judge(e, Path(report).verdict) \in Outcome
    BY DEF Judge, Outcome
  <2>3. Len(cases) = Len(paths) /\ Len(expected) = Len(paths)
        /\ DOMAIN cases = DOMAIN paths /\ DOMAIN expected = DOMAIN paths
    BY <1>3, <1>14, LenProperties DEF Inv, Counted
  <2>4. /\ cases' \in Seq(Outcome) /\ expected' \in Seq(Expectation)
        /\ Len(cases') = n /\ Len(expected') = n
        /\ DOMAIN cases' = DOMAIN paths \cup {n}
        /\ \A i \in DOMAIN paths : cases'[i] = cases[i] /\ expected'[i] = expected[i]
        /\ expected'[n] = e /\ cases'[n] = Judge(e, Path(report).verdict)
    BY <1>3, <2>1, <2>2, <2>3, OneMore
  <2>5. \A i \in DOMAIN cases' : cases'[i] \in Outcome
    BY <2>4, ElementOfSeq, LenProperties
  <2>6. TypeOK'
    <3>1. Len(expected') = Len(cases') /\ Len(cases') \in {0, Len(paths')}
      BY <2>4, <1>6
    <3>2. \A i \in DOMAIN cases' : cases'[i] \in {"pass", "fail", "inconclusive"}
      BY <2>5 DEF Outcome
    <3> QED
      BY <1>1, <1>7, <1>8, <1>9, <1>10, <1>11, <1>12, <3>1, <3>2 DEF TypeOK
  <2>7. (Kept /\ Counted)'
    BY <1>1, <1>3, <1>6, <1>14, <2>4 DEF Inv, Kept, Counted, TypeOK
  <2>8. JudgedRight(e, Judge(e, Path(report).verdict), report, real)
    BY <1>2, <1>14, JudgementsAreRight DEF Expectation
  <2>9. \A i \in DOMAIN cases' :
            JudgedRight(expected'[i], cases'[i], paths'[i].found, drops'[i])
    <3>1. \A i \in DOMAIN paths :
              JudgedRight(expected[i], cases[i], paths[i].found, drops[i])
      BY <1>14, <2>3 DEF Inv, Judged
    <3>2. ASSUME NEW i \in DOMAIN cases'
          PROVE  JudgedRight(expected'[i], cases'[i], paths'[i].found, drops'[i])
      <4>1. CASE i \in DOMAIN paths
        <5>1. JudgedRight(expected[i], cases[i], paths[i].found, drops[i])
          BY <4>1, <3>1
        <5> QED
          BY <5>1, <4>1, <1>6, <2>4
      <4>2. CASE i = n
        BY <4>2, <1>4, <1>6, <2>4, <2>8
      <4> QED
        BY <4>1, <4>2, <2>4
    <3> QED
      BY <3>2
  <2>10. exit' # 0
    BY <1>1, <1>12
  <2>11. Judged' /\ Told'
    BY <1>1, <1>14, <2>9, <2>10 DEF Judged, Told
  <2> QED
    BY <1>13, <2>6, <2>7, <2>11 DEF Inv
<1>15. CASE operation = "compare"
  <2>1. UNCHANGED << expected, cases >> /\ cases = << >> /\ expected = << >>
    BY <1>2, <1>15 DEF Inv, Counted
  <2>2. TypeOK'
    <3>1. Len(expected') = Len(cases') /\ Len(cases') \in {0, Len(paths')}
          /\ \A i \in DOMAIN cases' : cases'[i] \in {"pass", "fail", "inconclusive"}
      BY <2>1 DEF Inv, TypeOK
    <3> QED
      BY <1>1, <1>7, <1>8, <1>9, <1>10, <1>11, <1>12, <3>1 DEF TypeOK
  <2>3. (Kept /\ Counted)'
    BY <1>1, <1>3, <1>6, <1>15, <2>1 DEF Inv, Kept, Counted, TypeOK
  <2>4. Telling(report, real)
    BY <1>2, <1>15, CorrelatedTells
  <2>5. ASSUME NEW i \in DOMAIN paths'
        PROVE  /\ Concluded(paths'[i].found, paths'[i].verdict)
               /\ Telling(paths'[i].found, drops'[i])
    <3>1. CASE i \in DOMAIN paths
      <4>1. /\ Concluded(paths[i].found, paths[i].verdict)
            /\ Telling(paths[i].found, drops[i])
        BY <3>1, <1>15 DEF Inv, Told
      <4> QED
        BY <4>1, <3>1, <1>6
    <3>2. CASE i = n
      BY <3>2, <1>4, <1>6, <2>4
    <3> QED
      BY <3>1, <3>2, <1>6
  <2>6. Told' /\ Judged'
    BY <1>1, <1>15, <2>5 DEF Told, Judged
  <2> QED
    BY <1>13, <2>2, <2>3, <2>6 DEF Inv
<1> QED
  BY <1>3, <1>14, <1>15

LEMMA SummariseStep ==
    ASSUME Inv, Summarise
    PROVE  Inv'
<1>1. /\ stage = "resolve" /\ operation = "test" /\ Len(paths) = flows
      /\ stage' = "done" /\ exit' = TestExit(cases)
      /\ UNCHANGED << call, asked, ends, walked, paths, expected, cases, result, drops >>
  BY DEF Summarise
<1> USE DEF call
<1>2. exit' \in {0, 1} /\ (exit' = 0 => \A i \in DOMAIN cases : cases[i] = "pass")
  BY <1>1 DEF TestExit
<1>3. TypeOK'
  BY <1>1, <1>2 DEF Inv, TypeOK
<1>4. (Kept /\ Counted /\ Looked)'
  BY <1>1, <1>2 DEF Inv, Kept, Counted, Looked
<1>5. (Judged /\ Told /\ ComparisonIsTrue)'
  BY <1>1, <1>2 DEF Inv, Judged, Told, ComparisonIsTrue, Misread
<1> QED
  BY <1>3, <1>4, <1>5 DEF Inv

LEMMA SubtractStep ==
    ASSUME Inv, Subtract
    PROVE  Inv'
<1>1. /\ stage = "resolve" /\ operation = "compare" /\ Len(paths) = flows
      /\ stage' = "done"
      /\ UNCHANGED << call, asked, ends, walked, paths, expected, cases, drops >>
  BY DEF Subtract
<1>2. PICK entries \in SUBSET Both :
          /\ result' = [differences |-> Differences(entries), direction |-> Direction(entries)]
          /\ exit' = CompareExit(entries)
  BY DEF Subtract
<1> USE DEF call
<1>3. exit' \in {0, 1}
  BY <1>2 DEF CompareExit
<1>4. result'.differences \subseteq Reporting /\ result'.direction \subseteq HostGates
  BY <1>2 DEF Differences, Direction, Both, Reported
<1>5. TypeOK'
  BY <1>1, <1>3, <1>4 DEF Inv, TypeOK
<1>6. (Kept /\ Counted /\ Looked)'
  BY <1>1, <1>3 DEF Inv, Kept, Counted, Looked
<1>7. Judged' /\ Told'
  BY <1>1 DEF Inv, Judged, Told
<1>8. ComparisonIsTrue'
  <2>1. paths \in Seq(PathRecord) /\ DOMAIN paths = 1 .. 2
    BY <1>1, LenProperties DEF Inv, Kept, Counted
  <2>2. \A i \in {1, 2} : i \in DOMAIN paths
    BY <2>1
  <2>3. Comparable
    BY <1>1, <2>2 DEF Comparable, Inv, Told, TypeOK
  <2>4. /\ result'.direction # {} =>
               /\ \A i \in {1, 2} : drops[i] \cap Gates \subseteq Misread(i)
               /\ (drops[1] \ drops[2]) \cup (drops[2] \ drops[1])
                      \subseteq result'.direction \cup Misread(1) \cup Misread(2)
        /\ exit' = 0 =>
               \/ \A i \in {1, 2} : drops[i] \subseteq Misread(i)
               \/ \E l \in Layer : \A i \in {1, 2} : l \in drops[i] \cup Misread(i)
    BY <1>2, <2>3, SubtractionIsTrue
  <2> QED
    BY <1>1, <2>4 DEF ComparisonIsTrue, Misread
<1> QED
  BY <1>5, <1>6, <1>7, <1>8 DEF Inv

LEMMA InvHolds == Spec => []Inv
<1>1. Inv /\ [Next]_vars => Inv'
  <2> SUFFICES ASSUME Inv, [Next]_vars PROVE Inv'
    OBVIOUS
  <2>1. CASE ResolveEnds
    BY <2>1, NamedStep, UnnamedStep
  <2>2. CASE Walk
    BY <2>2, WalkStep
  <2>3. CASE Correlate
    BY <2>3, CorrelateStep
  <2>4. CASE Summarise
    BY <2>4, SummariseStep
  <2>5. CASE Subtract
    BY <2>5, SubtractStep
  <2>6. CASE UNCHANGED vars
    <3>1. (TypeOK /\ Kept /\ Counted)'
      BY <2>6 DEF vars, call, Inv, TypeOK, Kept, Counted
    <3>2. (Looked /\ Judged /\ Told /\ ComparisonIsTrue)'
      BY <2>6 DEF vars, call, Inv, Looked, Judged, Told, ComparisonIsTrue, Misread
    <3> QED
      BY <3>1, <3>2 DEF Inv
  <2> QED
    BY <2>1, <2>2, <2>3, <2>4, <2>5, <2>6 DEF Next
<1> QED
  BY <1>1, InvInit, PTL DEF Spec

-----------------------------------------------------------------------------
(* ops.TestFlows and ops.Compare: every variable holds a value of its kind, *)
(* and a run has an exit code exactly when it has ended.                    *)
THEOREM TypeCorrect == Spec => []TypeOK
<1>1. Inv => TypeOK
  BY DEF Inv
<1> QED
  BY <1>1, InvHolds, PTL

(* ops.ResolveEndpoint and the second lookup of query.Run: for any snapshot,*)
(* a path is walked in the VPCs it was resolved to or in none, but for CIDRs*)
(* and interfaces whose address is claimed twice.                           *)
THEOREM WalkedAsNamed == Spec => []WalksWhatWasNamed
<1>1. ASSUME Inv PROVE WalksWhatWasNamed
  <2>1. SUFFICES ASSUME stage = "correlate", NEW d \in End, asked[d].form # "prefix",
                        ends[d].kind = "interface" => ~ClaimedTwice(ends[d])
                 PROVE  Agrees(d)
    BY DEF WalksWhatWasNamed
  <2>2. /\ snap \in Snapshots /\ asked[d] \in Inputs
        /\ ends[d] = ResolveEndpoint(snap, asked[d]) /\ Resolves(ends[d])
        /\ walked[d].subnet \in Places(snap, ends[d].addr)
        /\ walked[d].groups \in GroupPlaces(snap, ends[d].addr)
    BY <1>1, <2>1 DEF Inv, TypeOK, Looked
  <2>3. ends[d].kind = "interface" =>
            /\ \A s \in snap.subnets : ends[d].addr \in s.cidr => s.vpc = ends[d].vpc
            /\ \A i \in Holding(snap, ends[d].addr) : i.vpc = ends[d].vpc
    BY <2>1 DEF ClaimedTwice
  <2>4. Places(snap, ends[d].addr) \cup GroupPlaces(snap, ends[d].addr)
            \subseteq {ends[d].vpc, Nowhere}
    BY <2>1, <2>2, <2>3, LookupsAgree
  <2> QED
    BY <2>2, <2>4 DEF Agrees
<1> QED
  BY <1>1, InvHolds, PTL

(* flowtest.Judge and Summarise: for any file of declared flows and any     *)
(* Layers, a pass or a failure is true of the cloud, and exit 0 says that   *)
(* every declaration holds, but for Layers whose own finding is wrong; and  *)
(* none goes unjudged.                                                      *)
THEOREM JudgementsAreTrue == Spec => []JudgementIsTrue
<1>1. ASSUME Inv, operation = "test"
      PROVE  JudgementIsTrue
  <2>1. \A i \in DOMAIN cases : JudgedRight(expected[i], cases[i], paths[i].found, drops[i])
    BY <1>1 DEF Inv, Judged
  <2>2. stage = "done" => Len(cases) = flows
    BY <1>1 DEF Inv, Counted
  <2>3. ASSUME exit = 0, NEW i \in 1 .. flows
        PROVE  Fares(expected[i], paths[i].found, drops[i])
    <3>1. cases \in Seq(Outcome) /\ Len(cases) = flows
      BY <1>1, <2>2, <2>3 DEF Inv, Kept, TypeOK
    <3>2. i \in DOMAIN cases
      BY <3>1, LenProperties
    <3>3. cases[i] = "pass"
      BY <1>1, <2>3, <3>2 DEF Inv, Judged
    <3> QED
      BY <2>1, <3>2, <3>3 DEF JudgedRight
  <2> QED
    BY <2>1, <2>2, <2>3 DEF JudgementIsTrue, JudgedRight
<1>2. ASSUME Inv, operation # "test"
      PROVE  JudgementIsTrue
  BY <1>2 DEF JudgementIsTrue
<1>3. Inv => JudgementIsTrue
  BY <1>1, <1>2
<1> QED
  BY <1>3, InvHolds, PTL

(* compare.Paths: for any Layers, where the host is named as what remains   *)
(* no cloud Layer drops either path, and exit 0 says that neither is        *)
(* dropped or that one Layer drops both, but for Layers whose own finding   *)
(* is wrong.                                                                *)
THEOREM ComparisonsAreTrue == Spec => []ComparisonIsTrue
<1>1. Inv => ComparisonIsTrue
  BY DEF Inv
<1> QED
  BY <1>1, InvHolds, PTL

=============================================================================
