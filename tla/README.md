# A TLA+ model of aws-netpath

`aws-netpath` answers one question about an AWS network: can this source reach
that destination, and if not, what blocks it? It collects configuration from
many accounts into one snapshot file, walks the snapshot from the source to the
destination, gathers a finding per Layer (source, security group, NACL, routing,
gateway, firewall, host, ...), and correlates the findings into a verdict. The
verdict may be *authoritative* (nothing that was not read could change it) or
not, and the tool's main promise is `design.md`'s: "an unverified Layer is never
converted into an implied pass."

The modules in this directory state that promise, and what the parts owe each
other for it to hold, and check it with TLC. What is checked on small instances is
proved with TLAPS for every value of the constants, of every component that is modelled:
each invariant and each step property of the runs is a theorem, some under premises it
names. Liveness is only model-checked ("Only model-checked", below).

    tlc -workers 2 -config MCCorrelate.cfg MCCorrelate     # model-check one run
    tlapm AnswerProofs.tla                                 # check the proofs of a module

`PROJECT.json` lists the components, the runs, what each definition translates
(`map`, with line numbers), the hazards the properties are for, a mutant per
property (a plausible bug that makes TLC find the property violated), the
findings and the theorems.

## Inventory

Everything of interest is in `src/internal`. Control passes top to bottom; there
is no shared mutable state except where noted.

| Part | Code | State it keeps | Operations | Interacts with |
|---|---|---|---|---|
| Collection | `ops/collect.go`, `collect/` | one snapshot under a mutex, an error counter, a semaphore of eight | start a target, read each type, record a failure, merge | AWS; writes the snapshot file |
| Snapshot file | `snapshot/` | the file, which two commands may have open at once | save, load, check the schema version | collection writes, all else reads |
| Endpoint resolution | `ops/resolve.go` | none | address, name or CIDR to an endpoint; refuse the ambiguous | the snapshot |
| Diagnosis pipeline | `ops/diagnose.go`, `query/query.go`, `query/layers.go` | the findings so far | source, groups, NACLs, walk, return walk, host | every evaluator; hands findings to the Correlator |
| Route walk | `query/route.go`, `graph.go`, `inspection.go`, `return_path.go`, `asymmetry.go` | hops so far, the recursion's position | match a route, follow it through gateways, peerings and inspection; compare directions | firewall evaluator at inspection points |
| NACL evaluation | `query/nacl.go` | none | scan rules by number | the pipeline |
| Security groups | `query/sg.go` | none | union of the groups' rules | the pipeline |
| Network Firewall | `nfw/`, `query/firewall_eval.go` | pieces of the flow still undecided | apply groups by priority, split the flow at each rule | the route walk |
| Flow algebra | `flow/` | none | normalise, intersect and subtract port ranges, prefixes, slices | every evaluator |
| Host probing | `host/runner.go`, `host/check.go`, `host/listener.go`, `ops/diagnose.go` | the invocation in flight, a deadline | send, poll, sleep, give up | Systems Manager; the pipeline |
| Host firewall | `host/firewalld.go` | none | order rich rules, read services | the runner |
| Correlator | `correlate/`, `symptom/`, `model/verdict.go` | Layers' folded findings | validate, fold, settle the verdict, judge the Symptom, check itself | the pipeline's last step |
| Verification | `verify/`, `ops/verify.go` | a path and an analysis in AWS | create, start, poll, delete; compare two answers | AWS |
| Flow tests | `flowtest/`, `ops/testflows.go` | what became of each declared flow so far | resolve, diagnose and judge each, whatever became of the one before | resolution, the pipeline |
| Comparison, diff | `compare/`, `diffsnap/` | none | subtract one path's Layers from another's, one snapshot's objects from another's | resolution, the pipeline; the snapshot file |
| Guardrail | `guardrail/` | none | two allowlists | collection and the host runner |
| CLI, configuration, MCP server, reports | `cli/`, `config/`, `mcpserver/`, `format/` | none | parse, dispatch, print | `ops` |

What is hard in them, and what makes each correct:

* **Correlator.** Findings of one Layer come from several stages in any order.
  An abstention must outlive a pass folded in after it; authority is computed
  from *positions* in flow order but must mean that no outcome of the unverified
  Layers moves the primary blocker; a Symptom must never go unaccounted for.
* **Pipeline.** Anything may be missing from the snapshot at any stage. What was
  not read must appear as an abstention, not as nothing.
* **Collection.** Goroutines with timeouts, pages that fail halfway, shared
  objects seen from two accounts. Whatever is missing must have a recorded
  failure, one account must not cost another its objects, the call must return.
* **Host probing.** Systems Manager accepts a command long before it has an
  invocation on record; a command that was not delivered and one that failed
  look alike; deadlines and cancellation race answers.
* **Host firewall.** firewalld's verdict depends on the order of chains.
* **Route walk.** Dead routes, main route tables, peerings crossed both ways,
  inspection in the middle, circles, lookups that range over Go maps.
* **Verification.** Billable work in AWS whose path must be deleted whichever way
  the call is left; calls whose effect outlives a lost reply; an analysis that may
  never end; an agreement that must be earned by an analysis covering the flow.
* **NACL, firewall evaluator, flow algebra.** One port stands for a set, first match
  wins, a flow is cut into pieces that must neither overlap nor leave gaps, a rule
  that cannot be read may be the one that decides. Lists are written in any order,
  overlap and touch, and are scanned as if they did not.
* **Snapshot file.** Saving truncates and then writes, without a lock, beside other
  commands that save and read; what is read must be what one command saved, or an
  error. A diff must not take what could not be read, or what a newer version adds,
  for a change.
* **Resolution, tests, comparison.** Two lookups of one address with different rules
  must not mean different places; a judgement rests on a verdict that may not be
  authoritative; what is left after a subtraction must not be blamed on the host
  because nothing else was read.

## Modules

Each operation or step of the code is one action; the header comment of each
module names the functions it stands for.

| Module | Models | State and how it corresponds |
|---|---|---|
| `Verdicts`, `Symptoms` | `model/verdict.go`, `symptom/` | operators only: flow order of Layers, outcomes, the Symptom table |
| `VerdictSpec` | what a verdict promises | the abstract specification: from the findings, in one step, to a verdict whose authority is defined by what the unverified Layers *could* turn out to be |
| `Correlate` | `correlate/correlate.go` | `input`, `observations`, `symptom` are the arguments, `phase` where the call is, `merged` the loop's index, `byLayer` the map of Layers, `verdict` the value returned; actions `Validate`, `Aggregate` (one finding), `Conclude` |
| `Diagnosis` | `ops/diagnose.go`, `query/query.go`, `query/layers.go` and the builders of the Layers' findings | `stage` is the step the call takes next, one action each; `hops`, `blockedAt`, `abstentions`, `walkVerdict`, `returnPath` the fields of `query.Result` (findings of one Layer that differ in nothing the model keeps are one), `hostResults` the host stage's, `answer` the Correlator's; `observations` what the two directions differ in; `drops`, `unread` and `overlooked` are history: what the network really drops, what the snapshot could not decide, and by name the conditions met under which what is read is not what the network does and no finding says so |
| `CollectSpec`, `Collect` | `ops/collect.go`, `collect/` | per target `pc`, the type it is `reading`, what it has read (`partial`) and failed to read (`errs`), whether its context has `expired`; shared, `mutex` and `snap`. The critical section is two steps, `Lock` reads the shared snapshot and `Merge` writes it, so a lost mutex loses updates. The semaphore is the guard of `Start`; the constant `Needs` says which objects name which others, a policy its rule groups |
| `HostSpec`, `HostProbe` | `ops/diagnose.go`, `host/runner.go`, `host/check.go`, `host/listener.go` | the stage's checks in order, the runner's request with its command, deadline and poll, and Systems Manager with the host behind it as an environment (`Progress`) |
| `HostFirewall` | `host/firewalld.go` | `zone`, the rules `examined` so far, `zonePhase` and `zoneVerdict`; a zone has what the check reads of it and what firewalld makes of it |
| `Firewall` | `nfw/evaluate.go`, `nfw/rule.go`, `query/firewall_eval.go` | `protocols` and groups left, the `group` and `rule` being applied, `remaining` boxes of traffic, `decisions`, `abstentions` |
| `PathWalk` | `query/route.go`, `graph.go`, `inspection.go`, `return_path.go`, `asymmetry.go` | `walk` is the walk under way (forward, return, and each again as a second run of the program over the same snapshot), `pos` its place in the recursion, `passed` and `inspected` what it went through, `verdict` what each found. One action per call: a subnet's route, entering a gateway, a peering, a VPC behind an attachment, an inspection |
| `Nacl` | `query/nacl.go` | `rules`, `flow`, the rules `left` to look at, `verdict` |
| `Verify` | `ops/verify.go`, `verify/` | `stage` is where the call is, `scope` and `client` the region asked for and the region the client was opened in, `resources` the VPCs of the analysed resources, `answer` and `report` what is returned; `path`, `analysis` and `found` are AWS's, `done` and `late` the context's and the deadline's, `lost` history: an effect nobody was told of, or a refused deletion. An analysis, once started, stays: no code deletes it. AWS, the clock, the caller and the killing of the process are the environment |
| `SnapshotFile` | `snapshot/`, `diffsnap/`, `ops/diff.go` | a file is a sequence of parts, each naming the collector that wrote it, so that a cut or a blend shows; per command its `step`, and per collector what it `record`s and has written (`offset`), per reader what it has `loaded`; `history` holds the networks there have been. Opening, writing a part, reading a part, a crash and a full disk are steps |
| `Resolve` | `ops/resolve.go`, `query/graph.go` | operators only: what a word for an endpoint resolves to, with the ambiguities, and where the walk looks its address up again |
| `Operations` | `ops/testflows.go`, `flowtest/`, `ops/compare.go`, `compare/`, `cli/exit.go` | `stage` is resolving, walking or correlating the path at hand; `ends` and `walked` are what the two lookups found; `paths` the diagnoses so far, `cases` the judgements, `result` the comparison, `exit` the exit code. `drops`, what each path really meets, is history |
| `PortSets`, `PrefixSets` | `flow/port.go`, `flow/prefix.go` | operators only: the normal forms, intersection and subtraction as the code computes them; `Firewall` keeps its boxes in them |

`MC*` modules give the constants values for TLC. The proofs are in eight modules:
`FlowProofs` (`PortSets` and `PrefixSets`), `LayerProofs` (`Nacl`, `HostFirewall`,
`Firewall`, `PathWalk`, `HostProbe`), `DiagnosisProofs`, `AnswerProofs` (`Correlate` and
`Verify`), `CollectProofs`, `SnapshotFileProofs`, `OperationsProofs`, and `VerdictFacts`,
what several of them need to know of the flow order. A module whose proofs share a
module with others' carries its component in the names they had in common (`NaclInit`,
`ZoneSpec`, `FirewallTypeOK`, `ProbeSpec`, `VerifyNext`).

`Diagnosis` composes the parts at the level of their *verdicts*: a gate is
something that passes, blocks or cannot be decided. `Nacl`, `Firewall`, `PathWalk` and
`HostFirewall` show, each for itself and up to the departures it names, that what is
decided is what the network does; `Diagnosis` has those departures as its `Conditions`,
each with the Layers it may hide a drop of or invent one of, and is right up to them.
The last step of `Diagnosis` takes the Correlator by its contract, `VerdictSpec`, which
`Correlate` is proved to implement. `Operations` assumes nothing of a diagnosis's
findings: any Layer may be right, wrong or silent, and what is asked is whether what is
made of the findings can be wrong of a Layer whose own finding is right. It takes the
Correlator by `VerdictSpec` again and extends `Resolve` with the two lookups. `Firewall` is built on `PortSets` and `PrefixSets`.

Evaluators are checked against a *reference* that says what AWS or firewalld does
with one packet: `NaclAdmits` in `Nacl`, `FirstMatch` in `Firewall`, `ZoneAdmits` in
`HostFirewall`, `Delivered`, `Settles`, `Meets` and `Components` in `PathWalk`. The code has no
such definitions: they are the networks' documented semantics, and part of the
properties.

An operator whose comment begins with "Slip" is a plausible wrong form of the one
after it and is used by no specification: it is what the mutant of a property puts in
that operator's place, to show that the property would notice.

## Runs

| Run | What it shows | Bounds and why they are enough |
|---|---|---|
| `correlate` | no abstention is lost, evidence survives, a Symptom is accounted for, `VerdictSpec` is implemented | 3 findings over 3 Layers, 189,372 states: two findings meet in one Layer while a third stands before or after it, which is all the fold distinguishes; the proof lifts the bound |
| `diagnosis` | what is decided is true and nothing unread is cleared, but for the Layers of the conditions met (`AnswerIsTrue`); the verdict follows the walk; no Layer goes unreported, and every finding and observation of the stages has the citation or the reason without which the Correlator refuses the whole diagnosis (`NothingLeftOut`) | every subset of the snapshot's parts missing, up to 2 inspections, so that one that decides meets one that does not; at most one of the twelve conditions in one diagnosis, which shows what each does by itself, the proof having any number of them; 2,444,732 states |
| `collect` | nothing missing silently, `CollectSpec` implemented, the call returns | 3 targets, 2 at a time: one waits while two run; gateway tables, read a second time, and firewalls, whose groups a policy needs; 708,765 states |
| `host_probe` | host Layers are decided on real output and real output is used, nothing is sent twice, `HostSpec` implemented, the stage ends | every check the stage makes, all races of answers, deadline and cancellation; the module has no constants, so nothing is left out by a bound; 1,704,078 states |
| `host_firewall` | where what the check went by is read as it means, a pass is true, and a block but for the exceptions below | zones of up to 2 rich rules, exact or not: the order of two is what sorting decides; 864,984 states |
| `firewall` | the algebra computes what set theory does, in one form; pieces are disjoint, cover the flow, carry the first match's verdict; the Layer's verdict is the engine's | 4 addresses (2 bits) by 4 ports: prefixes of three lengths, lists that overlap, touch or merge twice over, and ranges that end at the first and the last value; a rule cuts a flow in each dimension. The algebra itself on every set of ranges, prefixes and members (`PortsAreExact`, `PrefixesAreExact`, assumptions TLC evaluates); 102,168 states |
| `path_walk` | passes are delivered, blocks real but where a subnet's route of another kind delivers, no policy passed over unless asked to (`WalkIsTrue`); two runs agree; directions that differ are called asymmetric, and those called so differ where routes name attachments (`AsymmetryIsTrue`); walks end | 10,226 snapshots: two regions with a peering, an inspection VPC, `--skip-firewall`, routes written by hand and as collection writes them, routes of other kinds that deliver or do not, parts missing, circles, IPv6, destinations outside. 1,028 of the finished walks have both directions and are compared, of snapshots of either writing and of paths that are symmetric and that are not; 48,804 states |
| `nacl` | a verdict is the network's | 3 rules, 4 ports, 2 remotes: two rules disagree about a flow and a third decides neither; 404,926 states |
| `verify` | an agreement or a disagreement is with an analysis that said what it found (`ReportIsEarned`); no analysis is billed that cannot cover the flow, and its path is asked to be deleted (`BilledAndGivenUp`); the call ends | 2 VPCs in one region and 1 in another, addresses in none, one or two of them; every call may fail, in AWS or on its way back; an analysis succeeds with a path, without one, or without a word on it; 938,874 states |
| `snapshot` | what is read is what was saved, or an error; a diff that calls itself complete, made by a build no older than the files', reports what changed and nothing else, and exit 0 means nothing did, but for objects recorded in part or in two forms | 2 collectors and 1 reader over 2 paths, files of 2 parts (a first and a last suffice for a cut and a blend), 1 change of the network, collectors and reader of either version; 8,900,784 states under symmetry of paths and of configurations |
| `operations` | a path is walked where it was named; what a judged flow, a comparison and exit 0 say is so, but of Layers whose own finding is wrong | 2 VPCs that share addresses, interfaces without addresses or not in use, declared networks; 2 cloud Layers and 1 on the host, so that one stands before the other; test files of up to 2 flows; every combination of findings that is wrong of at most one Layer of each path (`MaxWrong`), so that one Layer's error could be seen to spread to another, the proof having any number; 1,016,286 states |

One run is a *violation*: it checks a property that a test of the repository states,
and the code does otherwise.

| Run | The disagreement |
|---|---|
| `path_walk_main` | a subnet that relies on its VPC's main route table takes any table of the VPC, in map order, so two runs over one snapshot differ |

### Known departures, as premises of the properties

Where the code is known to depart from the network, and the departure is a
documented limitation or was found while modelling, a passing property names it as
a premise or an exception and holds of everything else. Each stands beside its
property in the module. Unless the row says otherwise the behaviour is in the model and
occurs in the run: the property, not the state space, leaves it out.

| Premise | In | What it leaves out |
|---|---|---|
| `Overlooked`, `Invented` | `Diagnosis` | the twelve conditions below, for the Layers each may touch |
| `Nested` | `Collect` | the failure to read a gateway table's routes is swallowed, and of two copies of a shared object the one merged last stays, though it may be the poorer (`merge.go:51`) |
| `Misread` | `HostFirewall` | a rule for an ICMP type, or with a destination or a limit, is read without it (`firewalld.go:445-451`, `516-521`) and may be taken for one of every port; a service the host defines otherwise than the check's table. Of these nothing is claimed, so a closed port may be reported as open |
| `Unconsulted`, `LateDenial` | `HostFirewall` | the zone's ports, protocols, source ports and target are never read; a denying rule of positive priority is taken to decide before the services. A block for these reasons may be false |
| `TurnsAround` | `Firewall` | a rule of direction ANY that matches part of a flow as written is not tried the other way on the rest (`rule.go:67`). A flow's own source port is any, and a rule's source port is tried in the reversed orientation only (`rule.go:63`); the reference does likewise, so that a forward rule limited to a source port catches more than AWS's is not seen here |
| `OnlyIPv4` | `PathWalk` | a route without an IPv4 destination matches every address |
| `OtherWay` | `PathWalk` | a subnet's route to anything but a gateway the walk knows (a VPC peering, a NAT or internet gateway, an interface) is reported as a block though the network may deliver by it (`route.go:93-96`, `src/README.md:979-985`) |
| `RoutesNameAttachments` | `PathWalk` | collected gateway routes name the VPC behind an attachment (`collect/aws/ec2.go:383`), where entering a gateway names the attachment, so that a symmetric path is reported as asymmetric, against `asymmetry.go:12-17` and `171-172`. The premise is on that half only: an asymmetric path is reported as one in either writing |
| `skipFirewall`, in `EveryPolicyMet` | `PathWalk` | with `--skip-firewall` a firewall on the way there is noted and not evaluated; `PermitSound` of `Diagnosis` claims nothing of such a run |
| in `EveryPolicyMet`, a part of `WalkIsTrue` | `PathWalk` | the walk to a declared external network ends at the first gateway, before an inspection VPC; a route to a firewall endpoint within one VPC passes without an evaluation |
| `Settles` | `PathWalk` | routes that lead in a circle: nothing bounds the recursion |
| `Unambiguous`, in the proof of `SameAnswer` | `PathWalk` | six lookups that range over a map may find several entries, and then two runs over one snapshot may differ |
| `Faithful`, in the proofs of `WalkIsTrue` and `AsymmetryIsTrue` | `PathWalk` | lookups of the snapshot that do not find what AWS would: the main route table beside others, attachments without a table of their own, several firewalls in a VPC, endpoints of firewalls as routes' targets |
| `NamedAlike`, in the proof of `AsymmetryIsTrue` | `PathWalk` | a gateway's route to a VPC or a peering that the snapshot holds as no route to an attachment, or as one of another gateway: the walk arrives all the same and notes no link. Two links of one gateway to an endpoint's VPC, two peerings, and one identifier for resources of two kinds |
| `Exact` | `Nacl` | a return flow's port range is read as port 0; a rule of an unknown protocol matches every flow |
| `Unambiguous` | `Verify` | an address in two VPCs: the subnet is looked up more than once over a map, so the reason no analysis ran and the caveat may be about different VPCs |
| `found = "unsaid"`, in `ReportIsEarned` | `Verify` | an analysis that succeeded without saying whether it found a path (`aws.go:115`) is compared as inconclusive, and the report has no coverage caveat that would say so (`caveat.go:88`) |
| `lost`, and no claim once `killed` | `Verify` | a reply that never came, a refused deletion and a killed process leave the path in AWS. The analysis is never deleted, and AWS refuses to delete a path that has one, so after every analysis that was started the path stays, the error dropped (`aws.go:77`), against `src/README.md:697`. What is claimed is that the deletion is asked for |
| `overlapped`, `contested` | `SnapshotFile` | two saves to one path at once, or a read during a save, may leave a blend of two snapshots that parses: nothing locks the file, against the comment at `snapshot.go:66-68` that an error is the only safe outcome |
| `build`, in `DiffIsEarned` | `SnapshotFile` | a build older than both files drops the fields it does not know (`snapshot.go:104-106`) and compares the files' versions with each other only (`diffsnap.go:606`): it may call a diff complete and miss a change |
| `Alike`, `both`, in `DiffIsEarned` | `SnapshotFile` | a diff of collections with different scopes, and of objects recorded without a part of them, may call itself complete all the same; an object whose copies differ by account and are merged in either order (`merge.go:49-52`), or that AWS lists in another order, may be called modified though it stayed |
| in `WalksWhatWasNamed` | `Operations` | `query.Run` is handed an address and looks it up again by longest prefix, ignoring the resolved endpoint: for a CIDR, and for an interface whose address another VPC has too, it may walk elsewhere than was named, against `resolve.go:14-16` |
| `Wrong`, `Misread` | `Operations` | Layers whose own finding is wrong: on a path walked elsewhere than it was named, or under `--skip-firewall`, or for another instance, any may be |

The conditions of `Diagnosis`, each of which leaves no trace in the findings, or a wrong
one:

| Condition | What it is | May hide a drop of | May invent one of |
|---|---|---|---|
| missing nacl | a subnet's NACL is not in the snapshot, and no finding says so (`nacl.go:15`, `src/README.md:977`) | NACL, way back | |
| outside nacl | the destination is outside the snapshot, and its NACL is not said to be unread (`query.go:191-198`) | NACL | |
| nacl rule | a rule of a protocol the code does not know matches every flow | NACL | NACL |
| return rule | a rule limited to ports, read for port 0 of a way back that has every port (`nacl.go:74`, `return_path.go:91`), or one of an unknown protocol | way back | way back |
| group rule | a security group's rule covers more or less than it says (`sg.go:211-213`, `221-223`, `247-255`) | security group | security group |
| next hop | the walk's hop is not the packet's: the departures of `PathWalk` | route, firewall | route, firewall |
| return hop | the same of the way back | way back | way back |
| policy | a firewall's policy is not in the snapshot, and is reported as a block | | firewall |
| rule group | a group that could not be evaluated is left out, and the verdict of the others stands (`firewall_eval.go:27`), against `src/README.md:854-874` and `design.md`; a policy in default order is declared unmodelled and evaluated all the same (`nfw/evaluate.go:141`) | firewall | firewall |
| zone | the departures of `HostFirewall` | host firewall | host firewall |
| socket | a listener on `::` is taken to cover IPv4, which a host may have turned off (`listener.go:74`) | listener | |
| instance | the request names an instance, which need not be the destination's | both of the host | both of the host |

`Operations` leaves out declared flows about host Layers.

Two smaller differences met in `Verify` are modelled as the code has them: ICMP is
refused with an error, where the command's usage text speaks of an inconclusive
result, and `--profile` without `--region` is refused, where the repository's
README names the source's region as the default.

## Fairness

* `Collect`: goroutines run, the mutex is handed on and timers fire, so each
  target's own steps are weakly fair; an AWS call that hangs is weakly fair only
  once its context has expired, which is all the SDK gives. Without a timeout
  nothing is promised, and nothing is checked.
* `HostProbe`: the stage's steps and the passing of the deadline are fair: API calls
  return and the clock moves. Systems Manager and the host are *not*: they may never
  answer, and the stage ends. The caller may cancel at any moment or never.
* `PathWalk`: weak fairness of `Next`, because a walk is one computation in one
  goroutine that nothing preempts for ever.
* `SnapshotFile`, `Operations`, `Correlate`, `Diagnosis`, `Nacl`, `Firewall` and
  `HostFirewall` state no fairness, and no liveness is claimed of them: each is a loop
  over a list, or has nobody to wait for.
* `Verify`: its own steps, that is, each call to AWS returns, and the passing of the
  deadline. An analysis need not end and the caller need not cancel. The deletion
  runs on a background context that no deadline ends; that it returns, as any call
  to AWS does, is assumed and not owed to the code.

## Proofs

Each proof is of an inductive invariant that TLC checked first: what a property says is
seldom enough to carry it over a step. What follows says what each invariant adds.

**Correlator** (`AnswerProofs`), for lists of any length, any observations and any
Symptom: `TypeCorrect`; `NeverCleared` and `EvidenceKept` (no abstention becomes a pass,
no citation is lost); `SymptomsAccounted` (a verdict contradicts the Symptom exactly when
every finding was a pass and no observation explains it); and `KeepsPromise`, that the
Correlator implements `VerdictSpec`. The invariant, `IInv`, is the type invariant, `Tally`
(what is folded for a Layer is exactly the fold of the findings read so far, whatever
their order) and `PhaseInv` (what each phase of the call may rely on). For the
refinement, `EarliestIsFirst` and `SettledWhenNoneBefore` show that "no abstention stands
before the primary blocker" is the same as "no outcome of the unverified Layers moves
it", and `ConclusionValid` that the Correlator's check of its own result always succeeds.

**Diagnosis pipeline** (`DiagnosisProofs`), for endpoints with any security groups and any
number of inspections and of conditions met: `TypeCorrect`, `AnswersAreTrue`, `VerdictsFollowWalk`,
`NothingIsLeftOut`. The properties speak of the answer, which the last step makes of
everything before; the invariant is what each step owes to it. `Kinds` says that every
finding and observation is one the Correlator accepts, `Position` where the walk stands
and what may have stopped it, `BlocksAreReal` that a block is of a gate that drops the flow
or of one that a condition invented, `UnreadIsSaid` that what drops the flow or was not
read has left a block or an abstention behind, unless a condition hid it, `NaclsAsked` and
`Covered` that every Layer come past has been heard of, `HostHeard` the same of the host,
`Concluded` that the answer is the Correlator's. The number of conditions plays no part:
a Layer is answered for by itself, whatever conditions others have met. One
lemma per action (`KeptBySG`, `KeptByInspect`, ...) shows it is kept; `BlocksSoundly`,
`UnreadIsNotCleared`, `PermitsSoundly`, `FollowsWalk` and `LeavesNothingOut` draw the
properties from it and from the Correlator's contract.

**Flow algebra** (`FlowProofs`), for every highest port and every number of bits of an
address: `PortsExact` and `PrefixesExact`, that normalising, intersecting and subtracting
compute what set theory says and end in the one form a set has. The code's loops are
recursive functions here. That such a definition defines anything has to be shown:
`RecursionDefines` does it for a recursion whose calls are all on arguments of a smaller
measure, and every loop is then shown to be one (`CoalesceDefined`, `CommonDefined`,
`SettleDefined`, `SubtractPrefixDefined`, ...). What it computes follows by
`MeasureInduction`, an induction on a measure stated of sets rather than of operators,
because the provers cannot instantiate an operator parameter. For ports, the measures are
the numbers of ranges left, and `CoalesceTwo` and `CommonStep` are the bodies of the
loops. For prefixes: sizes divide one another (`SizesDivide`), so prefixes that overlap
nest (`Nest`); two halves fill their parent and nothing else does (`SiblingsFill`); a
pass that merges comes closer to covering everything (`PassMeasures`), so the passes end;
and where they end no two are siblings and none covers another, which leaves one form
only (`CoveredByOne`, `OneFormOfAddresses`).

**Network Firewall evaluator** (`LayerProofs`), for any policy and flow:
`FirewallTypeCorrect`, `FirstMatchesWin`, `LayerResultsAreTrue`. The invariant says that
the boxes still open and those decided are disjoint parts of the flow that lose none of
it (`Boxes`, `DecidedOnce`, `Covered`), that groups are visited in order (`Visits`), and
that no rule gone through catches what is still open, while what is decided is as the
engine decides it (`Sound`). `Pieces`, `PiecesAreDisjoint` and `PiecesCover` show that
cutting a box at a rule neither loses a packet nor has one twice. It rests on
`PortsExact` and `PrefixesExact`, and on nothing that is only assumed.

**NACL evaluation** (`LayerProofs`), for any rules, ports and remotes: `NaclTypeCorrect`,
which says that what was passed over are the lowest numbers, and `NaclVerdictsAreTrue`.
`Exact` (one port per flow, known protocols) is a premise inside the property. The
invariant says that no rule passed over matches the flow; `LowestOfOne` and `ReadAlike`
carry the step from the code's reading of a rule to the network's.

**Host firewall** (`LayerProofs`), for zones with rich rules of any number, order and
priority: `ZoneTypeCorrect` and `ZoneVerdictsAreTrue`. The invariant adds that no rule
examined so far decided; `SilentRulesDoNotGovern` then says that what governs the
connection is still to come, and `FirstAcceptAdmits` that the first of it in the check's
order is firewalld's. That the rules examined are exact and the services what the table
has them be (`Misread`) is a premise inside the property; no rule that was not examined
need be read as it means.

**Host probing** (`LayerProofs`): `ProbeTypeCorrect`, `DecidesOnOutput`, and
`StageKeepsPromise`, that the stage over the runner implements `HostSpec`. The invariant
follows one command from its sending to its end (`Commands`), what has been sent, has run
and has been answered (`Record`), and says each finding from the answers alone
(`Findings`).

**Route walk** (`LayerProofs`), for any set of snapshots keyed by identifier:
`WalkTypeCorrect` and `SameAnswers`. A step of the way there depends on nothing but the
snapshot; `Leads` is that step as a relation of places, and the invariant says that each
of the two walks is at a place the snapshot leads to from the source (`OnTheWay`). Where
no lookup finds more than one entry of a map (`Unambiguous`) a place leads to one other
(`OneWay`), so the two walks cannot end in different verdicts (`OneVerdict`).
`Unambiguous` is six lookups of `graph.go`, and they are the only ones through which the
order of a map can show.

`WalksAreTrue` is `WalkIsTrue` wherever the snapshot is `Faithful`, and it holds of
networks of any size, with circles among their routes. `Faithful` is a condition on the
snapshot alone: every lookup finds what AWS would. The departures the code has are what
it leaves out: routes without an IPv4 destination, a subnet that relies on the main
table beside others, routes to a firewall's endpoint, attachments without a table of
their own, VPCs with several firewalls, endpoints in an inspection VPC, destinations in a
declared external network. One more it keeps: a subnet whose
route is of a kind the walk does not follow may be reported as blocked though the route
delivers (`OtherWay`), which the property says of a block. What the theorem says is that
nothing else can make a verdict false: the walk's own steps add no mistake to those of
its lookups. The packet's way is `Trail`, a recursive function (`TrailIs`); `Journey` is
its first steps, and `ArrivesInTime` shows by counting that a packet that arrives at all
does so within them. The invariant `WayInv` says that where the walk is the packet is
(`Stands`), that every firewall on the way so far let it through (`Behind`, `Met`), and
what a verdict says of the way (`Went`). `FromSubnet`, `FromGateway` and `OneTable`
compare the lookups with the network, and one lemma per action (`FollowsInVPC`,
`FollowsThroughGateway`, ...) shows that the walk keeps up with the packet.

`AsymmetriesAreTrue` is `AsymmetryIsTrue` wherever the snapshot is also `NamedAlike`. That
directions that differ are reported is shown for collected snapshots and written ones
alike; that what is reported differs, only where routes name attachments
(`RoutesNameAttachments`), because where they name VPCs it is not so. The
comparison is of names, and a walk's names are not the packet's: it notes a firewall by
the VPC it inspects for, a link where it is entered or left by, and a peering not at all.
So `WayInv` also says what the walk has noted by each place of the packet's way (`Noted`:
`Log`, which is a sum of `Marks`, one per place), and on its arrival the last link too
(`Reports`, `LastLink`). Of a way that arrives, `WalkNotes` says what that comes to in
gateways, links and firewalls, and `PacketPasses` what the packet's own components are.
`SameByName` closes the gap: the four kinds cannot be taken for one another, a firewall is
told by its VPC, and the peering was crossed exactly if the way comes into both gateways
(`WayPasses`, by `Continues` along the way), so either set of names tells the other.

**Collection** (`CollectProofs`), for any targets, resource types, objects and limit:
`TypeCorrect` (the mutex is with the one goroutine that merges), `NothingIsMissed` and
`KeepsPromise`, the refinement of `CollectSpec`. The invariant follows each target's
progress (`Progress`: what it has come past, it has or has recorded as failed), what is
stored, whose failures are whose, and `Sharing`: the snapshot is what the targets that
are done have added, and whoever is about to add to it has read it as it is. The last is
what the mutex is for.

**Snapshot file** (`SnapshotFileProofs`), for any collectors, readers, paths, parts,
networks and changes of them: `TypeCorrect`, `ReadsWhatWasSaved` and `DiffsAreEarned`. The
invariant says that a path no two saves contest holds the first parts of its creator's
snapshot and nobody else is writing there (`Saved`), and that a reader no save overlaps
has read the first parts of that file (`Undisturbed`). For the diff a second one,
`Telling`, is added to it: what a collector recorded of an object it saw while it
collected, and it has come to every object once it saves (`Honest`); and whoever's parts
are in a file, or were read or decoded, has begun to save (`Owned`), so that a diff never
compares a collection that was still going on. `FieldsTell` then says that to a build
no older than the files two records differ exactly when they were recorded differently.
Nothing is assumed of the order in which copies of a shared object are merged or in which
AWS lists: an object may be recorded in part, or in either of two forms.

**Verification** (`AnswerProofs`), for any regions, VPCs, snapshots and requests:
`VerifyTypeCorrect`, `EarnedReports` and `SpentWell`. The invariant carries from the
lookups before the analysis that it covers the flow (`Covers`), what becomes of the path
(`PathKept`), and that an answer is what a finished analysis said it found (`Answered`),
if it said anything. What `BilledAndGivenUp` promises of the path is that its deletion was
asked for: AWS refuses it while the path has an analysis, and the code leaves the analysis.

**Operations** (`OperationsProofs`), for any Layers, inputs and number of flows:
`TypeCorrect`, `WalkedAsNamed`, `JudgementsAreTrue` and `ComparisonsAreTrue`.
Of the findings nothing is assumed; each result is up to the Layers whose own finding is
wrong (`Wrong`), and says that no other Layer can make it false.
`LookupsAgree` compares the two lookups of an address; `JudgementsAreRight` and
`CloudIsClear` draw from the contract of the Correlator what a verdict says of one flow,
`SameFate` what two say together. The invariant keeps one entry for each path (`Kept`,
`Counted`), that the path at hand was looked up again (`Looked`), and what is known of
each flow judged (`Judged`) or path to compare (`Told`).

What is assumed of the constants is the `ASSUME`s of the modules, which TLC evaluates on
every run: that inputs have their types, that bounds are natural numbers, and little
else. Beyond that, `Verify` assumes finitely many VPCs, `Operations` finite snapshots
(finitely many interfaces, subnets and addresses in a CIDR), `PathWalk` that a snapshot
has one resource of an identifier, and `Collect` that the targets are a sequence without
repetition, as in the code. Liveness, and with it fairness, plays no part in any proof.

The proofs changed the model where they failed for a good reason. A route walk that had
ended could begin again as its own second run; it has a guard against it now, as the
call has. Two CASEs, of an attachment's kind and of what a host really shows, had
conditions that could both hold, which TLC settles by their order and a proof does not.
The algebra's loops were folds over sets, whose value depends on a choice; they are
recursions on what is left to do, as in the code. The components on a packet's way counted
a gateway's link to the destination's VPC wherever that gateway was on the way; it is
the last gateway that delivers.

Only model-checked: liveness (`Returns`, `Answers`, `Ends` of `HostProbe` and of
`Verify`), which the prover's logic does not reach. Besides, where a theorem has a premise
that the property of the run has not (`Unambiguous` for `SameAnswer`, `Faithful` for
`WalkIsTrue`, `Faithful` and `NamedAlike` for `AsymmetryIsTrue`), the run says of its
networks what the theorem says only under the premise.

## What is abstracted

Names, citations, reasons and layout are left out or are model values. Parsing
(Suricata text, rich rules, `ss` and `ip` output) is a choice between matching, not
matching and unreadable. Security group rules are what their groups decide. Addresses in
`Nacl` are members of a small set, and a prefix is the set of its addresses; so it is in
`Resolve`, where the longer prefix is the smaller set. `PrefixSets` has prefixes as the
code has them, of one address family: the code keeps IPv4 and IPv6 apart at every
comparison. Lists that are sorted before they are scanned are sets with their order
beside them. A VPC in `PathWalk` has one attachment per gateway. `Verify` leaves out the
SDK's own retries: a call is what its retries come to. `Operations` does not walk again:
a path may have any findings at all, right or wrong, and the wrong ones are counted. In `SnapshotFile` the
encoder's writes come in parts, of which the first holds the schema version and the last
the collection errors; that the code makes one call to `Encode` does not make the write
one step.

## Not modelled

* The guardrail: two allowlists without state. `HostProbe` takes a command it refuses as
  one that cannot be built.
* The command line and configuration: parsing of flags and files. The exit codes of
  test, compare and diff are in `Operations` and `SnapshotFile`.
* The MCP server: it forwards each request to the operations and keeps nothing between
  them; that a caller may cancel is in `HostProbe` and `Verify`.
* Reports: wording, layout and redaction of results, covered by golden files.
* Of collection, the translation of each AWS type into the program's: field by field,
  without state. Two of its effects, routes without a prefix and routes that name VPCs,
  are inputs of `PathWalk`.

## What is left

1. `SecurityGroups`: rules, references and uncollected groups, refining the gate of
   `Diagnosis`.
2. `VerifySpec`: what a verification promises, implemented by `Verify`.
3. Both address families in `PrefixSets`, with flows that are IPv6 under rules that say
   "any".
