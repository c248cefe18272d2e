------------------------------- MODULE Verify -------------------------------
(***************************************************************************)
(* Verification against Reachability Analyzer: ops.Verify picks the        *)
(* credentials and the region, verify.Run decides whether one analysis can *)
(* cover the flow, EC2Analyzer.Analyze creates a path in AWS, analyses it, *)
(* polls for the end and asks for the path's deletion, and the two answers *)
(* are compared under the caveats the comparison earns.                    *)
(*                                                                         *)
(* AWS is an environment: a call may fail, its effect may outlive a reply  *)
(* that never came, an analysis ends when it likes and may succeed without *)
(* saying what it found, and a path that has an analysis cannot be         *)
(* deleted.  The caller may cancel (the MCP server) or be killed (the      *)
(* command line installs no handler).                                      *)
(***************************************************************************)
EXTENDS Naturals, FiniteSets

CONSTANTS VPCs,      (* the collected VPCs                                  *)
          RegionOf,  (* the region of each                                  *)
          Nowhere,   (* no VPC, no region                                   *)
          Requests,  (* what may be asked: a set of Request                 *)
          Snapshots  (* what may have been collected: a set of Snapshot     *)

ASSUME VerifyAssumption ==
    /\ IsFiniteSet(VPCs)
    /\ Nowhere \notin VPCs
    /\ DOMAIN RegionOf = VPCs
    /\ \A v \in VPCs : RegionOf[v] # Nowhere

End == {"src", "dst"}

Regions == { RegionOf[v] : v \in VPCs }

(* A request.  Without --profile, the config file's targets decide.         *)
Request == [proto   : {"tcp", "udp", "icmp"},
            skip    : BOOLEAN,
            region  : Regions \cup {Nowhere},
            login   : {"profile", "config", "none"},
            targets : SUBSET Regions,
            timeout : BOOLEAN]

(* A snapshot, as far as it bears on one flow: the VPCs whose subnets hold  *)
(* an address under the longest prefix, the VPC of the interface that has   *)
(* it, the VPCs with an attachment, and what the engine made of the flow.   *)
Snapshot == [at       : [End -> SUBSET VPCs],
             iface    : [End -> VPCs \cup {Nowhere}],
             attached : SUBSET VPCs,
             verdict  : {"permitted", "blocked", "unknown"},
             transit  : BOOLEAN]

ASSUME VerifyInputsAssumption == Requests \subseteq Request /\ Snapshots \subseteq Snapshot

VARIABLES request, snapshot,
          stage,     (* where the call is                                   *)
          scope,     (* Options.Region                                      *)
          client,    (* the region the EC2 client was opened in             *)
          resources, (* the VPCs the analysed resources are in              *)
          path,      (* the path in AWS                                     *)
          analysis,  (* the analysis in AWS                                 *)
          found,     (* what it says it found, if it says so                *)
          done,      (* the context is done                                 *)
          late,      (* the deadline of the polling has passed              *)
          answer,    (* what Analyze returned, or why it was not called     *)
          lost,      (* history: an effect nobody heard of, or a refusal    *)
          report     (* the agreement and the caveats                       *)

asked      == << request, snapshot >>
aws        == << path, analysis, found, lost >>
ctx        == << done, late >>
verifyVars == << asked, stage, scope, client, resources, aws, ctx, answer, report >>

NoReport == [agreement |-> "none", caveats |-> {}]

VerifyInit ==
    /\ request \in Requests
    /\ snapshot \in Snapshots
    /\ stage = "open"
    /\ scope = request.region
    /\ client = Nowhere
    /\ resources = [e \in End |-> Nowhere]
    /\ path = "none" /\ analysis = "none" /\ found = "unsaid"
    /\ done = FALSE /\ late = FALSE
    /\ answer = "none"
    /\ lost = {}
    /\ report = NoReport

-----------------------------------------------------------------------------
(* SubnetForAddr ranges over a map and keeps the first of the longest       *)
(* prefixes, so each of its calls may settle a tie in its own way.          *)
Lookups ==
    { l \in [End -> VPCs \cup {Nowhere}] :
        \A e \in End : IF snapshot.at[e] = {} THEN l[e] = Nowhere ELSE l[e] \in snapshot.at[e] }

RegionAt(v) == IF v = Nowhere THEN Nowhere ELSE RegionOf[v]

(* resolveAWSScope and the region the client is opened in: Nowhere refuses.    *)
LoginRegion(l) ==
    LET want == IF request.region # Nowhere THEN request.region ELSE RegionAt(l["src"])
    IN  IF request.login = "profile" THEN request.region
        ELSE IF request.login = "config" /\ want \in request.targets THEN want ELSE Nowhere

(* regionSpan.Scope.                                                        *)
ScopeOf(l) == IF scope # Nowhere THEN scope ELSE RegionAt(l["src"])

(* regionSpan.pathRegions.                                                  *)
PathRegions(l) == { RegionAt(l[e]) : e \in End } \ {Nowhere}

(* Slip: only the two endpoints are compared.                               *)
CrossesEndpoints(l) == Cardinality(PathRegions(l)) > 1

(* regionSpan.Crosses.                                                      *)
Crosses(l) ==
    \/ Cardinality(PathRegions(l)) > 1
    \/ ScopeOf(l) # Nowhere /\ PathRegions(l) \ {ScopeOf(l)} # {}

(* ResolveRAEndpoints: an interface each inside one VPC, else an interface  *)
(* or an attachment at either end.                                          *)
Resolves(l) ==
    \A e \in End :
        \/ snapshot.iface[e] # Nowhere
        \/ l["src"] # l["dst"] /\ l[e] \in snapshot.attached

Resource(l, e) == IF snapshot.iface[e] # Nowhere THEN snapshot.iface[e] ELSE l[e]

(* Why no analysis is asked for, in the order verify.run looks.             *)
WhyNot(placed, span, ends) ==
    IF      request.skip                    THEN "by_request"
    ELSE IF ScopeOf(span) = Nowhere            THEN "no_region"
    ELSE IF Crosses(span)                   THEN "crossing"
    ELSE IF \E e \in End : placed[e] = Nowhere THEN "outside"
    ELSE IF ~Resolves(ends)                 THEN "no_resource"
    ELSE "none"

-----------------------------------------------------------------------------
(* ops.Verify: a client is opened unless the analysis is to be skipped.     *)
OpenNothing ==
    /\ stage = "open"
    /\ request.skip
    /\ stage' = "evaluate"
    /\ UNCHANGED << asked, scope, client, resources, aws, ctx, answer, report >>

Open ==
    /\ stage = "open"
    /\ ~request.skip
    /\ \E l \in Lookups :
        /\ LoginRegion(l) # Nowhere
        /\ client' = LoginRegion(l)
        /\ scope' = LoginRegion(l)
    /\ stage' = "evaluate"
    /\ UNCHANGED << asked, resources, aws, ctx, answer, report >>

(* No region, no target for it, or AWS refuses the credentials.             *)
OpenFails ==
    /\ stage = "open"
    /\ ~request.skip
    /\ stage' = "refused"
    /\ UNCHANGED << asked, scope, client, resources, aws, ctx, answer, report >>

(* verify.run refuses ICMP.                                                 *)
RefuseICMP ==
    /\ stage = "evaluate"
    /\ request.proto = "icmp"
    /\ stage' = "refused"
    /\ UNCHANGED << asked, scope, client, resources, aws, ctx, answer, report >>

SkipAnalysis ==
    /\ stage = "evaluate"
    /\ request.proto # "icmp"
    /\ \E placed, span, ends \in Lookups :
        /\ WhyNot(placed, span, ends) # "none"
        /\ answer' = WhyNot(placed, span, ends)
    /\ stage' = "report"
    /\ UNCHANGED << asked, scope, client, resources, aws, ctx, report >>

AskForAnalysis ==
    /\ stage = "evaluate"
    /\ request.proto # "icmp"
    /\ \E placed, span, ends \in Lookups :
        /\ WhyNot(placed, span, ends) = "none"
        /\ resources' = [e \in End |-> Resource(ends, e)]
    /\ stage' = "create"
    /\ UNCHANGED << asked, scope, client, aws, ctx, answer, report >>

-----------------------------------------------------------------------------
(* EC2Analyzer.Analyze.                                                     *)
Create ==
    /\ stage = "create"
    /\ ~done
    /\ path' = "there"
    /\ stage' = "start"
    /\ UNCHANGED << asked, scope, client, resources, analysis, found, lost, ctx, answer, report >>

(* Slip: the deletion is deferred before the error is looked at.            *)
CreateFailsDeferred ==
    /\ stage = "create"
    /\ stage' = "delete"
    /\ answer' = "error"
    /\ UNCHANGED << asked, scope, client, resources, aws, ctx, report >>

(* The call fails, in AWS or on its way back.                               *)
CreateFails ==
    /\ stage = "create"
    /\ \/ UNCHANGED << path, lost >>
       \/ path' = "there" /\ lost' = lost \cup {"unanswered"}
    /\ stage' = "report"
    /\ answer' = "error"
    /\ UNCHANGED << asked, scope, client, resources, analysis, found, ctx, report >>

Start ==
    /\ stage = "start"
    /\ ~done
    /\ analysis' = "running"
    /\ stage' = "poll"
    /\ UNCHANGED << asked, scope, client, resources, path, found, lost, ctx, answer, report >>

StartFails ==
    /\ stage = "start"
    /\ \/ UNCHANGED analysis
       \/ analysis' = "running"
    /\ stage' = "delete"
    /\ answer' = "error"
    /\ UNCHANGED << asked, scope, client, resources, path, found, lost, ctx, report >>

(* Slip: an analysis that failed is one that found no path.                 *)
ReachableIfFound(status) ==
    IF status = "succeeded" /\ found = "found" THEN "found" ELSE "not_found"

(* What a finished analysis comes to: a failed one is an error, and one     *)
(* that succeeded is reported as it is, with NetworkPathFound or without.   *)
Reachable(status) == IF status # "succeeded" THEN "error" ELSE found

(* Describe, and an analysis that has ended.                                *)
PollEnded ==
    /\ stage = "poll"
    /\ ~late /\ ~done
    /\ analysis \in {"succeeded", "failed"}
    /\ answer' = Reachable(analysis)
    /\ stage' = "delete"
    /\ UNCHANGED << asked, scope, client, resources, aws, ctx, report >>

(* Slip: the deadline is the context's affair alone.                        *)
PollRunningOn ==
    /\ stage = "poll"
    /\ ~done
    /\ analysis = "running"
    /\ stage' = "sleep"
    /\ UNCHANGED << asked, scope, client, resources, aws, ctx, answer, report >>

(* Describe, and an analysis that is pending, running or unheard of.        *)
PollRunning ==
    /\ stage = "poll"
    /\ ~late /\ ~done
    /\ analysis = "running"
    /\ stage' = "sleep"
    /\ UNCHANGED << asked, scope, client, resources, aws, ctx, answer, report >>

(* Describe fails or lists no analysis.                                     *)
DescribeFails ==
    /\ stage = "poll"
    /\ ~late
    /\ answer' = "error"
    /\ stage' = "delete"
    /\ UNCHANGED << asked, scope, client, resources, aws, ctx, report >>

GiveUp ==
    /\ stage = "poll"
    /\ late
    /\ answer' = "error"
    /\ stage' = "delete"
    /\ UNCHANGED << asked, scope, client, resources, aws, ctx, report >>

(* The select of the two: the timer, or the context.                        *)
Wake ==
    /\ stage = "sleep"
    /\ stage' = "poll"
    /\ UNCHANGED << asked, scope, client, resources, aws, ctx, answer, report >>

WakeDone ==
    /\ stage = "sleep"
    /\ done
    /\ answer' = "error"
    /\ stage' = "delete"
    /\ UNCHANGED << asked, scope, client, resources, aws, ctx, report >>

(* The deferred deletion, on a context of its own, its error dropped.  AWS  *)
(* deletes no path that has an analysis, and the code deletes no analysis.  *)
Delete ==
    /\ stage = "delete"
    /\ \/ analysis = "none" /\ path' = "gone" /\ UNCHANGED lost
       \/ lost' = lost \cup {"refused"} /\ UNCHANGED path
    /\ stage' = "report"
    /\ UNCHANGED << asked, scope, client, resources, analysis, found, ctx, answer, report >>

-----------------------------------------------------------------------------
(* CompareVerdict, or inconclusive where the analysis gave no answer.       *)
Agreement ==
    IF answer \notin {"found", "not_found"} THEN "inconclusive"
    ELSE IF (answer = "found") \equiv (snapshot.verdict = "permitted") THEN "match"
    ELSE "mismatch"

ForwardOnly == request.proto = "tcp" /\ snapshot.transit

(* AWSOutcome.Skipped: no analysis, or none that ended well.                *)
Skipped == answer \notin {"found", "not_found", "unsaid"}

(* caveats: the span is looked up anew.                                     *)
Caveats(l) ==
    {"billing"}
        \cup { c \in {"forward_only"} : ForwardOnly }
        \cup (IF Crosses(l) THEN {"crossing"} ELSE { c \in {"not_run"} : Skipped })

Report ==
    /\ stage = "report"
    /\ \E l \in Lookups : report' = [agreement |-> Agreement, caveats |-> Caveats(l)]
    /\ stage' = "reported"
    /\ UNCHANGED << asked, scope, client, resources, aws, ctx, answer >>

-----------------------------------------------------------------------------
(* The environment.                                                         *)
Over == {"reported", "refused", "killed"}

(* AWS ends an analysis.                                                    *)
Finish ==
    /\ analysis = "running"
    /\ stage \notin Over
    /\ \/ analysis' = "succeeded" /\ found' \in {"found", "not_found", "unsaid"}
       \/ analysis' = "failed" /\ UNCHANGED found
    /\ UNCHANGED << asked, stage, scope, client, resources, path, lost, ctx, answer, report >>

(* The timeout of the context, or two minutes of polling.                   *)
DeadlinePasses ==
    /\ ~late
    /\ \/ request.timeout /\ stage \in {"create", "start", "poll", "sleep"} /\ done' = TRUE
       \/ ~request.timeout /\ stage \in {"poll", "sleep"} /\ UNCHANGED done
    /\ late' = TRUE
    /\ UNCHANGED << asked, stage, scope, client, resources, aws, answer, report >>

Cancel ==
    /\ ~done
    /\ stage \in {"create", "start", "poll", "sleep"}
    /\ done' = TRUE
    /\ UNCHANGED << asked, stage, scope, client, resources, aws, late, answer, report >>

Kill ==
    /\ stage \in {"create", "start", "poll", "sleep", "delete"}
    /\ stage' = "killed"
    /\ UNCHANGED << asked, scope, client, resources, aws, ctx, answer, report >>

Step ==
    \/ OpenNothing \/ Open \/ OpenFails \/ RefuseICMP
    \/ SkipAnalysis \/ AskForAnalysis
    \/ Create \/ CreateFails \/ Start \/ StartFails
    \/ PollEnded \/ PollRunning \/ DescribeFails \/ GiveUp \/ Wake \/ WakeDone
    \/ Delete \/ Report

Environment == Finish \/ DeadlinePasses \/ Cancel \/ Kill

VerifyNext == Step \/ Environment

VerifySpec == VerifyInit /\ [][VerifyNext]_verifyVars

(* Calls return and the clock moves; an analysis need not end.              *)
FairSpec == VerifySpec /\ WF_verifyVars(Step) /\ WF_verifyVars(DeadlinePasses)

-----------------------------------------------------------------------------
(* No address is claimed by two VPCs: one subnet has the longest prefix,    *)
(* and the interface with the address is in it.                             *)
Unambiguous ==
    \A e \in End :
        /\ Cardinality(snapshot.at[e]) <= 1
        /\ snapshot.iface[e] \in snapshot.at[e] \cup {Nowhere}

(* Every variable holds a value of its kind, a path is there while Analyze  *)
(* works on it, and nothing is analysed without one.                        *)
VerifyTypeOK ==
    /\ request \in Request
    /\ snapshot \in Snapshot
    /\ scope \in Regions \cup {Nowhere} /\ client \in Regions \cup {Nowhere}
    /\ resources \in [End -> VPCs \cup {Nowhere}]
    /\ stage \in Over \cup {"open", "evaluate", "create", "start", "poll", "sleep", "delete", "report"}
    /\ path \in {"none", "there", "gone"}
    /\ analysis \in {"none", "running", "succeeded", "failed"}
    /\ found \in {"found", "not_found", "unsaid"}
    /\ done \in BOOLEAN /\ late \in BOOLEAN
    /\ answer \in {"none", "error", "found", "not_found", "unsaid",
                   "by_request", "no_region", "crossing", "outside", "no_resource"}
    /\ lost \subseteq {"unanswered", "refused"}
    /\ report.agreement \in {"none", "match", "mismatch", "inconclusive"}
    /\ report.caveats \subseteq {"billing", "forward_only", "crossing", "not_run"}
    /\ stage \in {"start", "poll", "sleep", "delete"} => path = "there"
    /\ analysis # "none" => path # "none"

(* Agreement and disagreement are earned: they say how the engine's verdict *)
(* compares with what an analysis that succeeded says it found.  A report   *)
(* without a caveat on its coverage is of an analysis that ended well and   *)
(* of a flow whose both directions it looks at; if it is inconclusive all   *)
(* the same, that analysis said nothing.  Nothing is called uncoverable     *)
(* that was analysed ("the reason no analysis ran and the reason the result *)
(* is narrower than asked for cannot drift apart").                         *)
ReportIsEarned ==
    stage = "reported" =>
        /\ report.agreement \in {"match", "mismatch"} =>
               /\ analysis = "succeeded" /\ found # "unsaid"
               /\ report.agreement = "match" <=> (found = "found" <=> snapshot.verdict = "permitted")
        /\ report.caveats = {"billing"} =>
               /\ analysis = "succeeded"
               /\ report.agreement = "inconclusive" => found = "unsaid"
               /\ ~(request.proto = "tcp" /\ snapshot.transit)
        /\ Unambiguous /\ "crossing" \in report.caveats => path = "none"

(* A billable analysis is asked for only where it covers the flow: in the   *)
(* region both its ends are in, and between the VPCs they are in            *)
(* (requirement 13.5).                                                      *)
BilledWhereItCovers ==
    Unambiguous /\ path # "none" =>
        \A e \in End :
            /\ resources[e] \in snapshot.at[e]
            /\ RegionOf[resources[e]] = client

(* Whichever way Analyze is left, a path AWS has told of is asked to be     *)
(* deleted: one that is still there is one it never told of, or would not   *)
(* delete, as it will not where an analysis of it was begun.                *)
DeletionAskedFor ==
    stage = "reported" /\ path = "there" =>
        \/ "unanswered" \in lost /\ answer = "error"
        \/ "refused" \in lost

(* What a verification is billed for bears on the flow that was asked       *)
(* about, and the path it needs for that is given up in the end.  The       *)
(* analysis itself stays in the account.                                    *)
BilledAndGivenUp == BilledWhereItCovers /\ DeletionAskedFor

(* A verification ends, though the analysis never does.                     *)
Ends == <>(stage \in Over)

=============================================================================
