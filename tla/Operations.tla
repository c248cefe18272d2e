------------------------------ MODULE Operations ------------------------------
(***************************************************************************)
(* The operations that put one or more diagnoses to a use: test            *)
(* (ops.TestFlows, internal/flowtest), which judges declared flows, and    *)
(* compare (ops.Compare, internal/compare), which subtracts a reference    *)
(* path from a failing one.                                                *)
(*                                                                         *)
(* Each path is resolved, walked and correlated before the next.  Of the   *)
(* findings nothing is assumed: any Layer may pass, block, abstain or be   *)
(* silent, whatever it does to the path.  Diagnosis says when a finding is *)
(* right; here it is asked whether what is made of the findings can be     *)
(* wrong though they are right.  The Correlator is taken by VerdictSpec.   *)
(***************************************************************************)
EXTENDS Resolve, Verdicts

CONSTANTS
  Snapshots, (* what may have been collected                                *)
  Inputs,    (* what an operator may type for an endpoint                   *)
  Gates,     (* the Layers decided from the snapshot                        *)
  HostGates, (* those decided on the host                                   *)
  MaxFlows,  (* bound on the declared flows of a file                       *)
  MaxWrong   (* bound on the Layers a path's findings are wrong of          *)

ASSUME SnapshotsAssumption == \A snap \in Snapshots : IsSnapshot(snap)
ASSUME InputsAssumption == \A w \in Inputs : IsInput(w)
ASSUME GatesAssumption ==
    /\ Gates \subseteq { l \in Layer : ~Host(l) } \ {"resolution"}
    /\ HostGates \subseteq { l \in Layer : Host(l) }
ASSUME FlowsAssumption == MaxFlows \in Nat \ {0} /\ MaxWrong \in Nat

VARIABLES
  operation, (* test or compare                                             *)
  symptom,   (* compare: was a Symptom reported of the failing path         *)
  snap,      (* the snapshot, loaded once                                   *)
  flows,     (* how many paths there are                                    *)
  stage,     (* the step the call takes next                                *)
  asked,     (* the words for the two ends of the path at hand              *)
  ends,      (* its endpoints, as resolved                                  *)
  walked,    (* where the walk found them: subnet and groups of either end  *)
  paths,     (* the paths diagnosed so far                                  *)
  expected,  (* test: what each path was declared to be                     *)
  cases,     (* test: what became of each declared flow                     *)
  result,    (* compare: the differences and the direction                  *)
  drops,     (* history: the Layers that really drop each path              *)
  exit       (* the exit code                                               *)

call == << operation, symptom, snap, flows >>
vars == << call, stage, asked, ends, walked, paths, expected, cases, result, drops, exit >>

End == {"from", "to"}

NoEnds   == [d \in End |-> Unresolved]
NoWalk   == [d \in End |-> [subnet |-> Nowhere, groups |-> Nowhere]]
NoResult == [differences |-> {}, direction |-> {}]

(* What one path's findings are, by Layer; silent stands for no finding.    *)
Reporting == {"resolution"} \cup Gates \cup HostGates
Report == [Reporting -> LayerVerdict \cup {"silent"}]

(* A path that has no findings: an end did not resolve.                     *)
NoReport == [l \in Reporting |-> "silent"]

-----------------------------------------------------------------------------
(* A diagnosis.                                                             *)

(* In no order: the Correlator answers alike for all of them.               *)
FindingsOf(report) ==
    [l \in { m \in DOMAIN report : report[m] # "silent" } |->
        [layer |-> l, verdict |-> report[l], cited |-> TRUE, reasoned |-> TRUE]]

Correlator(report) == INSTANCE VerdictSpec WITH
    Inputs <- {}, ObservationLists <- {}, input <- FindingsOf(report),
    observations <- << >>, status <- stage, answer <- report

(* A diagnosed path: its findings and what the Correlator makes of them.    *)
Path(report) == [found |-> report, verdict |-> Correlator(report)!Answer]

Diagnosed == { Path(report) : report \in Report }

(* From a source in no collected subnet only the resolution has something   *)
(* to say, and abstains; otherwise it passes.  A Layer that the walk did    *)
(* not come to, that was skipped, or that leaves no trace is silent.  A     *)
(* test has no host stage; the host stage looks at the instance that was    *)
(* resolved or that the request names, whatever was walked.                 *)
MaySay(report) ==
    /\ \A l \in HostGates : (report[l] = "silent") \equiv (operation = "test")
    /\ IF walked["from"].subnet = Nowhere
       THEN report["resolution"] = "abstain" /\ \A l \in Gates : report[l] = "silent"
       ELSE report["resolution"] = "pass"

(* The Layers that a path's findings are wrong of: reported otherwise than  *)
(* they do, or dropping it without a word on a path that was walked to its  *)
(* end.  Diagnosis says what may make them so; on a path that was walked    *)
(* elsewhere than it was named any of them may be.                          *)
Wrong(report, real) ==
    { l \in Gates \cup HostGates :
        \/ report[l] = "pass" /\ l \in real
        \/ report[l] = "blocked" /\ l \notin real
        \/ /\ report[l] = "silent" /\ l \in real
           /\ report["resolution"] = "pass"
           /\ \A m \in Gates : report[m] # "blocked" }

-----------------------------------------------------------------------------
(* Judging a declared flow (flowtest.Judge, Summarise).                     *)

(* Slip: what no Layer was shown to block is taken for permitted.           *)
EstablishedLoose(v) == v.primary = v.primary

(* A block was demonstrated; a permit only if no Layer that could have      *)
(* blocked went unread.                                                     *)
Established(v) == v.primary # NoLayer \/ v.authoritative

Reachability(v) == IF v.primary # NoLayer THEN "blocked" ELSE "permitted"

Judge(expect, v) ==
    IF ~Established(v) THEN "inconclusive"
    ELSE IF Reachability(v) = expect THEN "pass" ELSE "fail"

(* A failed flow is the finding, an inconclusive one leaves the run         *)
(* unestablished (exitFinding).                                             *)
TestExit(outcomes) == IF \A i \in DOMAIN outcomes : outcomes[i] = "pass" THEN 0 ELSE 1

-----------------------------------------------------------------------------
(* Comparing two paths (compare.Paths); entries are the Layers at which     *)
(* their citations differ.                                                  *)

Found(i, l) == paths[i].found[l]

Reported(i) == { l \in Reporting : Found(i, l) # "silent" }

Both == Reported(1) \cap Reported(2)

(* Slip: two abstentions are the same answer.                               *)
IncompleteUnlessBoth ==
    ((Reported(1) \cup Reported(2)) \ Both)
    \cup { l \in Both : (Found(1, l) = "abstain") # (Found(2, l) = "abstain") }

(* Reported of one path only, or abstained on at one or both.               *)
Incomplete ==
    ((Reported(1) \cup Reported(2)) \ Both)
    \cup { l \in Both : "abstain" \in {Found(1, l), Found(2, l)} }

Differences(entries) ==
    { l \in Both \ Incomplete : Found(1, l) # Found(2, l) \/ l \in entries }

Matched(entries) == Both \ (Incomplete \cup Differences(entries))

(* The engine reached different verdicts, or a Symptom was observed on a    *)
(* path that no Layer is known to block.                                    *)
BehaviourDiffers ==
    \/ paths[1].verdict.primary # paths[2].verdict.primary
    \/ symptom /\ paths[1].verdict.primary = NoLayer

(* The host Layers, once the behaviour differs and every cloud Layer that   *)
(* was compared is the same, at least one of them entry by entry.           *)
Direction(entries) ==
    { l \in HostGates \cap (Reported(1) \cup Reported(2)) :
        /\ BehaviourDiffers
        /\ \E m \in Matched(entries) : ~Host(m) /\ m # "resolution"
        /\ \A m \in Incomplete \cup Differences(entries) : Host(m) }

Authoritative ==
    /\ Incomplete = {}
    /\ paths[1].verdict.authoritative /\ paths[2].verdict.authoritative

CompareExit(entries) == IF Differences(entries) # {} \/ ~Authoritative THEN 1 ELSE 0

-----------------------------------------------------------------------------

Init ==
    /\ operation \in {"test", "compare"}
    /\ symptom \in BOOLEAN /\ (symptom => operation = "compare")
    /\ snap \in Snapshots
    /\ flows \in IF operation = "test" THEN 1 .. MaxFlows ELSE {2}
    /\ stage = "resolve"
    /\ asked = << >> /\ ends = NoEnds /\ walked = NoWalk
    /\ paths = << >> /\ expected = << >> /\ cases = << >> /\ result = NoResult
    /\ drops = << >>
    /\ exit = -1

(* One bad flow does not stop a test; a comparison needs both paths.        *)
GoesOn == operation = "test"

(* stageResolve: both ends, or the error of the first that fails.           *)
ResolveEnds ==
    /\ stage = "resolve" /\ Len(paths) < flows
    /\ \E words \in [End -> Inputs] :
        LET found == [d \in End |-> ResolveEndpoint(snap, words[d])]
        IN  IF \A d \in End : Resolves(found[d])
            THEN /\ stage' = "walk"
                 /\ asked' = words /\ ends' = found
                 /\ UNCHANGED << paths, expected, cases, drops, exit >>
            ELSE /\ IF GoesOn
                    THEN /\ \E e \in {"permitted", "blocked"} : expected' = Append(expected, e)
                         /\ cases' = Append(cases, "inconclusive")
                         /\ paths' = Append(paths, Path(NoReport))
                         /\ drops' = Append(drops, {})
                         /\ UNCHANGED << stage, exit >>
                    ELSE /\ stage' = "done" /\ exit' = 2
                         /\ UNCHANGED << paths, expected, cases, drops >>
                 /\ UNCHANGED << asked, ends >>
    /\ UNCHANGED << call, walked, result >>

(* query.Run looks the addresses up again.                                  *)
Walk ==
    /\ stage = "walk"
    /\ stage' = "correlate"
    /\ \E sub, grp \in [End -> VPCNames \cup {Nowhere}] :
        /\ \A d \in End : /\ sub[d] \in Places(snap, ends[d].addr)
                          /\ grp[d] \in GroupPlaces(snap, ends[d].addr)
        /\ walked' = [d \in End |-> [subnet |-> sub[d], groups |-> grp[d]]]
    /\ UNCHANGED << call, asked, ends, paths, expected, cases, result, drops, exit >>

(* The Layers that may drop a path: a declared flow is about the cloud.     *)
Droppers == Gates \cup IF operation = "test" THEN {} ELSE HostGates

(* The findings of one path; a declared flow is judged at once.             *)
Correlate ==
    /\ stage = "correlate"
    /\ \E path \in Diagnosed, real \in SUBSET Droppers :
        /\ MaySay(path.found)
        /\ Cardinality(Wrong(path.found, real)) <= MaxWrong
        /\ paths' = Append(paths, path)
        /\ drops' = Append(drops, real)
        /\ IF operation = "test"
           THEN \E e \in {"permitted", "blocked"} :
                   /\ expected' = Append(expected, e)
                   /\ cases' = Append(cases, Judge(e, path.verdict))
           ELSE UNCHANGED << expected, cases >>
    /\ stage' = "resolve"
    /\ asked' = << >> /\ ends' = NoEnds /\ walked' = NoWalk
    /\ UNCHANGED << call, result, exit >>

Summarise ==
    /\ stage = "resolve" /\ operation = "test" /\ Len(paths) = flows
    /\ stage' = "done"
    /\ exit' = TestExit(cases)
    /\ UNCHANGED << call, asked, ends, walked, paths, expected, cases, result, drops >>

(* Which entries differ is known only now.  The endpoints differ by         *)
(* construction, so the resolution is compared by its verdict only.         *)
Subtract ==
    /\ stage = "resolve" /\ operation = "compare" /\ Len(paths) = flows
    /\ stage' = "done"
    /\ \E entries \in SUBSET (Both \ {"resolution"}) :
        /\ result' = [differences |-> Differences(entries), direction |-> Direction(entries)]
        /\ exit' = CompareExit(entries)
    /\ UNCHANGED << call, asked, ends, walked, paths, expected, cases, drops >>

Next == ResolveEnds \/ Walk \/ Correlate \/ Summarise \/ Subtract

Spec == Init /\ [][Next]_vars

-----------------------------------------------------------------------------
(* Properties.                                                              *)

(* Every variable holds a value of its kind, and a run that ended says so   *)
(* by its exit code.                                                        *)
TypeOK ==
    /\ operation \in {"test", "compare"} /\ symptom \in BOOLEAN /\ snap \in Snapshots
    /\ flows \in 1 .. (MaxFlows + 2)
    /\ stage \in {"resolve", "walk", "correlate", "done"}
    /\ stage \in {"walk", "correlate"} => asked \in [End -> Inputs]
    /\ \A d \in End : ends[d].kind \in IF stage \in {"walk", "correlate"}
                                     THEN {"interface", "subnet", "vpc", "external"}
                                     ELSE {"unresolved"}
    /\ walked \in [End -> [subnet : VPCNames \cup {Nowhere}, groups : VPCNames \cup {Nowhere}]]
    /\ \A i \in DOMAIN paths : paths[i].found \in Report
    /\ Len(paths) <= flows /\ Len(drops) = Len(paths)
    /\ \A i \in DOMAIN drops : drops[i] \subseteq Gates \cup HostGates
    /\ Len(expected) = Len(cases) /\ Len(cases) \in {0, Len(paths)}
    /\ \A i \in DOMAIN cases : cases[i] \in {"pass", "fail", "inconclusive"}
    /\ result.differences \subseteq Reporting /\ result.direction \subseteq HostGates
    /\ exit \in {-1, 0, 1, 2} /\ (exit = -1 \equiv stage # "done")

(* Another VPC has a subnet with the address, or an interface that holds it.*)
ClaimedTwice(e) ==
    \/ \E s \in snap.subnets : e.addr \in s.cidr /\ s.vpc # e.vpc
    \/ \E i \in Holding(snap, e.addr) : i.vpc # e.vpc

(* Found where it was named, or nowhere.                                    *)
Agrees(d) == {walked[d].subnet, walked[d].groups} \subseteq {ends[d].vpc, Nowhere}

(* The walk is about the endpoint that was resolved: what one lookup found  *)
(* unambiguous the other finds in the same VPC, if it finds it at all       *)
(* ("answering for the wrong one would be a confident wrong answer", the    *)
(* comment on AmbiguousEndpointError); except for a CIDR, and where an      *)
(* interface decided and another VPC has the address as well.               *)
WalksWhatWasNamed ==
    stage = "correlate" => \A d \in End :
        \/ Agrees(d)
        \/ asked[d].form = "prefix"
        \/ ends[d].kind = "interface" /\ ClaimedTwice(ends[d])

(* A path fares as it is said to, but for the Layers that the findings are  *)
(* wrong of.                                                                *)
Fares(fate, report, real) ==
    IF fate = "permitted" THEN real \subseteq Wrong(report, real)
                          ELSE real \cup Wrong(report, real) # {}

Otherwise(fate) == IF fate = "permitted" THEN "blocked" ELSE "permitted"

(* A judged flow is what the cloud does to it, but for the Layers whose own *)
(* finding is wrong: whatever was not read, a pass or a failure is true of  *)
(* it, exit 0 says every declaration holds, and none goes unjudged because  *)
(* of another (flowtest.Judge: a permit is only as good as the Layers that  *)
(* were evaluated).                                                         *)
JudgementIsTrue ==
    operation = "test" =>
        LET is(i, fate) == Fares(fate, paths[i].found, drops[i])
        IN  /\ \A i \in DOMAIN cases : /\ cases[i] = "pass" => is(i, expected[i])
                                      /\ cases[i] = "fail" => is(i, Otherwise(expected[i]))
            /\ stage = "done" => Len(cases) = flows
            /\ exit = 0 => \A i \in 1 .. flows : is(i, expected[i])

(* What the findings of one of the paths are wrong of.                      *)
Misread(i) == Wrong(paths[i].found, drops[i])

(* A comparison is true of both paths, but for the Layers whose own finding *)
(* is wrong: where the host Layers are named as what remains, no cloud      *)
(* Layer drops either path and they name whatever else tells them apart;    *)
(* exit 0 says that neither is dropped or that one Layer drops both         *)
(* (compare.go, direction: an incomplete cloud comparison has not been      *)
(* shown to match).                                                         *)
ComparisonIsTrue ==
    operation = "compare" /\ stage = "done" /\ exit # 2 =>
        /\ result.direction # {} =>
               /\ \A i \in {1, 2} : drops[i] \cap Gates \subseteq Misread(i)
               /\ (drops[1] \ drops[2]) \cup (drops[2] \ drops[1])
                      \subseteq result.direction \cup Misread(1) \cup Misread(2)
        /\ exit = 0 =>
               \/ \A i \in {1, 2} : drops[i] \subseteq Misread(i)
               \/ \E l \in Layer : \A i \in {1, 2} : l \in drops[i] \cup Misread(i)

=============================================================================
