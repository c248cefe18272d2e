----------------------------- MODULE HostProbe -----------------------------
(***************************************************************************)
(* The host stage of a diagnosis (stageHost in internal/ops/diagnose.go,   *)
(* internal/host): is the destination managed, then one command after      *)
(* another through Systems Manager, each sent once and polled until it     *)
(* ends, fails or runs out of time.  The stage goes on whatever becomes of *)
(* a command.                                                              *)
(*                                                                         *)
(* A command's output is what the host would say if the command ran there, *)
(* and empty if it did not.  Only that an amount of time is over matters,  *)
(* so the clock is the step at which the deadline passes.                  *)
(***************************************************************************)
EXTENDS Naturals, FiniteSets

HostLayer == {"host_firewall", "host_listener"}

(* The commands; the last two are supporting checks and decide no Layer.    *)
Check == {"listener", "rich_rules", "services", "route", "path_mtu"}

VARIABLES
  request,   (* what the stage was asked, and with what                      *)
  host,      (* what each command would show on the host                     *)
  at,        (* the check under way: start, a check, done                    *)
  step,      (* where the runner is in it: send, poll, judge, sleep          *)
  remote,    (* what became of the command at Systems Manager                *)
  late,      (* the command's deadline has passed                            *)
  cancelled, (* the caller's context has ended                               *)
  sent,      (* history: how often each command was sent                     *)
  ran,       (* history: the commands that ran to their end on the host      *)
  outcome,   (* what the runner made of each command                         *)
  results    (* the finding on each host Layer                               *)

probeVars == << request, host, at, step, remote, late, cancelled, sent, ran, outcome, results >>

Terminal == {"success", "failed", "undelivered", "cut_short", "withdrawn"}

(* Is there a Systems Manager client and an instance to ask about; which    *)
(* protocol; is the zone's name one a command may carry; does the Symptom   *)
(* ask for the path MTU.                                                    *)
Request == [target   : {"no_prober", "no_instance", "instance"},
            protocol : {"tcp", "udp", "icmp"},
            zone_ok  : BOOLEAN,
            mtu      : BOOLEAN]

Host == [listener   : {"listening", "absent", "unreadable"},
         rich_rules : {"accept", "deny", "silent", "unresolved"},
         services   : {"covers", "unknown", "closed"}]

-----------------------------------------------------------------------------
(* What the checks make of the runner's answer.                             *)

(* The output of a command that did not run is empty: no socket, no rule,   *)
(* no service.                                                              *)
Shown(check) ==
    IF check \in ran THEN host[check]
    ELSE CASE check = "listener"   -> "absent"
           [] check = "rich_rules" -> "silent"
           [] check = "services"   -> "closed"

ListenerFinding(got) ==
    IF got # "output" \/ Shown("listener") = "unreadable" THEN "abstain"
    ELSE IF Shown("listener") = "listening" THEN "pass" ELSE "blocked"

(* Slip: a zone whose rich rules are silent is closed.                      *)
RichFindingHasty(got) ==
    IF got # "output" \/ Shown("rich_rules") = "unresolved" THEN "abstain"
    ELSE IF Shown("rich_rules") = "accept" THEN "pass" ELSE "blocked"

(* FirewallCheck, first command: "none" leaves it to the zone's services.   *)
RichFinding(got) ==
    IF got # "output" \/ Shown("rich_rules") = "unresolved" THEN "abstain"
    ELSE CASE Shown("rich_rules") = "accept" -> "pass"
           [] Shown("rich_rules") = "deny"   -> "blocked"
           [] OTHER                          -> "none"

(* FirewallCheck, second command.                                           *)
ServicesFinding(got) ==
    IF got # "output" \/ Shown("services") = "unknown" THEN "abstain"
    ELSE IF Shown("services") = "covers" THEN "pass" ELSE "blocked"

(* The findings once the runner has answered got for a check.               *)
Judged(check, got) ==
    CASE check = "listener"   -> [results EXCEPT !["host_listener"] = ListenerFinding(got)]
      [] check = "rich_rules" -> [results EXCEPT !["host_firewall"] = RichFinding(got)]
      [] check = "services"   -> [results EXCEPT !["host_firewall"] = ServicesFinding(got)]
      [] OTHER                -> results

(* Can the command be built: ss lists TCP sockets only, a zone opens ports, *)
(* and its name must be representable.                                      *)
Buildable(check) ==
    CASE check = "listener" -> request.protocol = "tcp"
      [] check \in {"rich_rules", "services"} ->
             request.protocol # "icmp" /\ request.zone_ok
      [] OTHER -> TRUE

NextCheck(check, got) ==
    CASE check = "listener"   -> "rich_rules"
      [] check = "rich_rules" -> IF RichFinding(got) = "none" THEN "services" ELSE "route"
      [] check = "services"   -> "route"
      [] check = "route"      -> IF request.mtu THEN "path_mtu" ELSE "done"
      [] check = "path_mtu"   -> "done"

(* The runner is through with the check: got is what it answered.           *)
Finish(got) ==
    /\ outcome' = [outcome EXCEPT ![at] = got]
    /\ results' = Judged(at, got)
    /\ at' = NextCheck(at, got)
    /\ step' = "send"
    /\ remote' = "unsent"
    /\ late' = FALSE

-----------------------------------------------------------------------------
ProbeInit ==
    /\ request \in Request
    /\ host \in Host
    /\ at = "start"
    /\ step = "send"
    /\ remote = "unsent"
    /\ late = FALSE
    /\ cancelled = FALSE
    /\ sent = [c \in Check |-> 0]
    /\ ran = {}
    /\ outcome = [c \in Check |-> "none"]
    /\ results = [l \in HostLayer |-> "none"]

AbstainAll == [l \in HostLayer |-> "abstain"]

(* stageHost, up to Runner.Managed: no client, no instance, an instance     *)
(* Systems Manager does not manage, or one it could not be asked about.     *)
Unprobeable ==
    /\ at = "start"
    /\ at' = "done"
    /\ results' = AbstainAll
    /\ UNCHANGED << request, host, step, remote, late, cancelled, sent, ran, outcome >>

Managed ==
    /\ at = "start"
    /\ request.target = "instance"
    /\ ~cancelled
    /\ at' = "listener"
    /\ UNCHANGED << request, host, step, remote, late, cancelled, sent, ran, outcome, results >>

(* The command cannot be built, and nothing is sent.                        *)
Refuse ==
    /\ at \in Check
    /\ step = "send"
    /\ ~Buildable(at)
    /\ Finish("refused")
    /\ UNCHANGED << request, host, cancelled, sent, ran >>

(* Runner.Run, SendCommand.                                                 *)
Send ==
    /\ at \in Check
    /\ step = "send"
    /\ Buildable(at)
    /\ sent' = [sent EXCEPT ![at] = @ + 1]
    /\ \/ /\ ~cancelled
          /\ step' = "poll"
          /\ remote' = "accepted"
          /\ UNCHANGED << at, late, outcome, results >>
       \/ Finish("undeliverable")
    /\ UNCHANGED << request, host, cancelled, ran >>

(* Slip: the status alone says whether there is output.                     *)
InterpretStatus(state) ==
    CASE state \in {"success", "undelivered"} -> "output"
      [] state = "failed"      -> "exited_non_zero"
      [] state = "cut_short"   -> "timeout"
      [] state = "withdrawn"   -> "undeliverable"

(* interpret: a command that ran, whatever it exited with, has output; one  *)
(* that was never delivered has the same status as one that failed.         *)
Interpret(state) ==
    CASE state = "success"     -> "output"
      [] state = "failed"      -> "exited_non_zero"
      [] state = "cut_short"   -> "timeout"
      [] state \in {"undelivered", "withdrawn"} -> "undeliverable"

(* Slip: with no invocation on record the command is sent again.            *)
UnrecordedResent == "send"

(* An invocation Systems Manager has not recorded yet is no failure.        *)
Unrecorded == "judge"

(* await, GetCommandInvocation.                                             *)
Poll ==
    /\ step = "poll"
    /\ \/ /\ ~cancelled
          /\ remote \in Terminal
          /\ Finish(Interpret(remote))
       \/ /\ ~cancelled
          /\ remote \notin Terminal
          /\ step' = IF remote = "accepted" THEN Unrecorded ELSE "judge"
          /\ UNCHANGED << at, remote, late, outcome, results >>
       \/ Finish("undeliverable")
    /\ UNCHANGED << request, host, cancelled, sent, ran >>

(* Slip: the deadline is not looked at while the invocation is missing.     *)
JudgeRecorded ==
    /\ step = "judge"
    /\ IF late /\ remote # "accepted" THEN Finish("timeout")
       ELSE step' = "sleep" /\ UNCHANGED << at, remote, late, outcome, results >>
    /\ UNCHANGED << request, host, cancelled, sent, ran >>

(* The deadline is looked at after each read that brought no end.           *)
Judge ==
    /\ step = "judge"
    /\ IF late THEN Finish("timeout")
       ELSE step' = "sleep" /\ UNCHANGED << at, remote, late, outcome, results >>
    /\ UNCHANGED << request, host, cancelled, sent, ran >>

(* sleepCtx: the timer, or the caller's cancellation, whichever is first.   *)
Wake ==
    /\ step = "sleep"
    /\ \/ /\ step' = "poll"
          /\ UNCHANGED << at, remote, late, outcome, results >>
       \/ cancelled /\ Finish("timeout")
    /\ UNCHANGED << request, host, cancelled, sent, ran >>

(* Systems Manager and the host: the command is picked up, and ends one way *)
(* or another, or never.                                                    *)
Progress ==
    /\ remote \in {"accepted", "running"}
    /\ remote' \in {"running"} \cup Terminal
    /\ remote' # remote
    /\ ran' = IF remote' = "success" THEN ran \cup {at} ELSE ran
    /\ UNCHANGED << request, host, at, step, late, cancelled, sent, outcome, results >>

DeadlinePasses ==
    /\ step # "send"
    /\ late' = TRUE
    /\ UNCHANGED << request, host, at, step, remote, cancelled, sent, ran, outcome, results >>

(* The caller's context ends (aws-netpath mcp).                             *)
Cancel ==
    /\ at # "done"
    /\ cancelled' = TRUE
    /\ UNCHANGED << request, host, at, step, remote, late, sent, ran, outcome, results >>

Stage == Unprobeable \/ Managed \/ Refuse \/ Send \/ Poll \/ Judge \/ Wake

ProbeNext == Stage \/ Progress \/ DeadlinePasses \/ Cancel

(* API calls and timers return and the clock moves; the host and Systems    *)
(* Manager need not get anywhere.                                           *)
Fairness == WF_probeVars(Stage) /\ WF_probeVars(DeadlinePasses)

ProbeSpec == ProbeInit /\ [][ProbeNext]_probeVars

ProbeFairSpec == ProbeSpec /\ Fairness

-----------------------------------------------------------------------------
(* Properties.                                                              *)

Outcome == {"none", "output", "exited_non_zero", "timeout", "undeliverable", "refused"}

(* Every variable holds a value of its kind; a command is outstanding       *)
(* exactly between its sending and its end, none is sent twice, however     *)
(* long Systems Manager takes to record it and however often it is polled,  *)
(* and the stage leaves no Layer without a finding.                         *)
ProbeTypeOK ==
    /\ at \in Check \cup {"start", "done"}
    /\ step \in {"send", "poll", "judge", "sleep"}
    /\ remote \in Terminal \cup {"unsent", "accepted", "running"}
    /\ {late, cancelled} \subseteq BOOLEAN
    /\ sent \in [Check -> {0, 1}]
    /\ ran \subseteq Check
    /\ outcome \in [Check -> Outcome]
    /\ results \in [HostLayer -> {"none", "pass", "blocked", "abstain"}]
    /\ step = "send" <=> remote = "unsent"
    /\ at = "done" => \A l \in HostLayer : results[l] # "none"

(* The commands a Layer's verdict rests on.                                 *)
Evidence(l) ==
    IF l = "host_listener" THEN {"listener"}
    ELSE {"rich_rules"} \cup { c \in {"services"} : outcome["rich_rules"] = "output"
                                                 /\ host.rich_rules = "silent" }

(* What the host's answers say of each Layer, if they could all be had.     *)
Truth ==
    [l \in HostLayer |->
        IF l = "host_listener"
        THEN CASE host.listener = "listening" -> "pass"
               [] host.listener = "absent"    -> "blocked"
               [] OTHER                       -> "undetermined"
        ELSE IF host.rich_rules = "silent"
        THEN CASE host.services = "covers" -> "pass"
               [] host.services = "closed" -> "blocked"
               [] OTHER                    -> "undetermined"
        ELSE CASE host.rich_rules = "accept" -> "pass"
               [] host.rich_rules = "deny"   -> "blocked"
               [] OTHER                      -> "undetermined"]

(* A Layer is decided exactly on output the host really produced: a command *)
(* that was refused, lost, cut short or never delivered leaves its Layer    *)
(* abstaining (requirement 8.6), and with all of a Layer's commands         *)
(* answered and readable it is decided, whatever became of the other        *)
(* Layer's ("the remaining checks carry on").                               *)
DecidedOnOutput ==
    at = "done" =>
        \A l \in HostLayer :
            /\ results[l] \in {"pass", "blocked"} => Evidence(l) \subseteq ran
            /\ Truth[l] # "undetermined" /\ (\A c \in Evidence(l) : outcome[c] = "output")
                   => results[l] # "abstain"

(* The stage ends, though the host never answers.                           *)
Ends == <>(at = "done")

(* The stage keeps the promise the diagnosis rests on: HostSpec.            *)
Promise == INSTANCE HostSpec WITH
    truth    <- Truth,
    results  <- [l \in HostLayer |-> IF at = "done" THEN results[l] ELSE "none"],
    reported <- (at = "done")

ImplementsPromise == Promise!Spec

=============================================================================
