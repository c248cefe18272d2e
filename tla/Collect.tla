------------------------------ MODULE Collect ------------------------------
(***************************************************************************)
(* Collection (internal/collect/collect.go, internal/collect/aws/aws.go):  *)
(* one goroutine per account and region, at most Limit at a time, each     *)
(* under a timeout of its own.  Each opens clients, reads every resource   *)
(* type into a partial snapshot, and adds its part to the shared snapshot  *)
(* under a mutex.                                                          *)
(*                                                                         *)
(* The critical section is a read of the shared snapshot and a write of    *)
(* the updated one: what a goroutine adds rests on what it read.           *)
(***************************************************************************)
EXTENDS Integers, FiniteSets, Sequences

CONSTANTS
  Targets,    (* the account and region pairs, in configuration order        *)
  Limit,      (* how many of them may run at once (errgroup.SetLimit)        *)
  Resources,  (* the resource types, in the order they are read              *)
  Objects,    (* what there is to collect, a resource type and a name        *)
  Sees,       (* the objects each target can see; two may see the same one   *)
  Nested,     (* types whose objects need a second read that may fail        *)
  Needs,      (* the objects read before another is stored: a firewall       *)
              (* before its policy, and the policy's groups                  *)
  Timed       (* the timeout is set                                          *)

Target == { Targets[i] : i \in DOMAIN Targets }
Resource == { Resources[i] : i \in DOMAIN Resources }

ASSUME CollectAssumption ==
    /\ Limit \in Nat \ {0}
    /\ Timed \in BOOLEAN
    /\ Nested \subseteq Resource
    /\ Objects \subseteq Resource \X STRING
    /\ Sees \in [Target -> SUBSET Objects]
    /\ Needs \in [Objects -> SUBSET Objects]
    /\ Targets \in Seq(Target) /\ Resources \in Seq(Resource)
    /\ Cardinality(Target) = Len(Targets)
    /\ "nobody" \notin Target

VARIABLES
  pc,       (* what each target's goroutine does next                        *)
  reading,  (* the resource type it reads next                               *)
  expired,  (* its context has ended                                         *)
  partial,  (* the objects it has read so far                                *)
  errs,     (* what it could not read                                        *)
  seen,     (* the shared snapshot, as it read it in the critical section    *)
  mutex,    (* the goroutine inside the critical section                     *)
  snap,     (* the shared snapshot                                           *)
  result    (* what Run returned                                             *)

vars == << pc, reading, expired, partial, errs, seen, mutex, snap, result >>

Nobody == "nobody"
NoResult == [objects |-> << >>, failures |-> {}, count |-> -1]
Profile == "profile"   (* the resource an unopened target is filed under     *)

Quality == {"part", "whole"}

NoObjects == [o \in Objects |-> "absent"]

EmptySnapshot == [objects |-> NoObjects, failures |-> {}, count |-> 0]

Seen(t, r) == { o \in Sees[t] : o[1] = r }

Running == { t \in Target : pc[t] \notin {"queued", "done"} }

-----------------------------------------------------------------------------
Init ==
    /\ pc = [t \in Target |-> "queued"]
    /\ reading = [t \in Target |-> 1]
    /\ expired = [t \in Target |-> FALSE]
    /\ partial = [t \in Target |-> NoObjects]
    /\ errs = [t \in Target |-> {}]
    /\ seen = [t \in Target |-> EmptySnapshot]
    /\ mutex = Nobody
    /\ snap = EmptySnapshot
    /\ result = NoResult

Goto(t, step) == pc' = [pc EXCEPT ![t] = step]

(* g.Go: the caller starts the targets in order, and waits for a slot.      *)
Start(i) ==
    /\ pc[Targets[i]] = "queued"
    /\ \A j \in 1 .. i - 1 : pc[Targets[j]] # "queued"
    /\ Cardinality(Running) < Limit
    /\ Goto(Targets[i], "open")
    /\ UNCHANGED << reading, expired, partial, errs, seen, mutex, snap, result >>

(* Slip: the timeout covers opening the clients and nothing after it.       *)
ExpireOpening(t) ==
    /\ Timed
    /\ pc[t] = "open"
    /\ expired' = [expired EXCEPT ![t] = TRUE]
    /\ UNCHANGED << pc, reading, partial, errs, seen, mutex, snap, result >>

(* The timer of a running target fires.                                     *)
Expire(t) ==
    /\ Timed
    /\ pc[t] \in {"open", "read"}
    /\ expired' = [expired EXCEPT ![t] = TRUE]
    /\ UNCHANGED << pc, reading, partial, errs, seen, mutex, snap, result >>

(* awsx.Open, and the account it finds behind the profile.                  *)
Open(t) ==
    /\ pc[t] = "open"
    /\ \/ /\ ~expired[t]
          /\ Goto(t, "read")
          /\ UNCHANGED errs
       \/ \* no clients, or another account than the configured one
          /\ Goto(t, "lock")
          /\ errs' = [errs EXCEPT ![t] = { << t, Profile >> }]
    /\ UNCHANGED << reading, expired, partial, seen, mutex, snap, result >>

(* Add the objects of got to what target t has read, those of poor in part. *)
Store(t, got, poor) ==
    partial' = [partial EXCEPT ![t] =
        [o \in Objects |-> IF o \in poor THEN "part" ELSE IF o \in got THEN "whole"
                           ELSE partial[t][o]]]

(* Slip: a page that cannot be read ends the resource type quietly.         *)
FailedQuietly(t, r) == errs[t]

Failed(t, r) == errs[t] \cup { << t, r >> }

(* What has been stored when the reading of a type ends: nothing without    *)
(* what is read before it (collectFirewalls, its policy, the policy's       *)
(* groups).                                                                 *)
StoredInOrder(got) == \A o \in got : Needs[o] \subseteq got

(* One resource type, page by page: read to the end, or up to the page that *)
(* fails.  Within a nested type the second read of an object may fail with  *)
(* nothing said of it, and the object is stored without what it would have  *)
(* held.                                                                    *)
Read(t) ==
    /\ pc[t] = "read"
    /\ reading[t] <= Len(Resources)
    /\ LET r == Resources[reading[t]]
       IN  \E got \in SUBSET Seen(t, r) :
             /\ StoredInOrder(got)
             /\ \E poor \in IF r \in Nested THEN SUBSET got ELSE {{}} : Store(t, got, poor)
             /\ \/ ~expired[t] /\ got = Seen(t, r) /\ UNCHANGED errs
                \/ errs' = [errs EXCEPT ![t] = Failed(t, r)]
    /\ reading' = [reading EXCEPT ![t] = @ + 1]
    /\ UNCHANGED << pc, expired, seen, mutex, snap, result >>

ReadAll(t) ==
    /\ pc[t] = "read"
    /\ reading[t] > Len(Resources)
    /\ Goto(t, "lock")
    /\ UNCHANGED << reading, expired, partial, errs, seen, mutex, snap, result >>

(* Slip: the mutex is not taken.                                            *)
LockNot(t) ==
    /\ pc[t] = "lock"
    /\ UNCHANGED mutex
    /\ seen' = [seen EXCEPT ![t] = snap]
    /\ Goto(t, "merge")
    /\ UNCHANGED << reading, expired, partial, errs, snap, result >>

Lock(t) ==
    /\ pc[t] = "lock"
    /\ mutex = Nobody
    /\ mutex' = t
    /\ seen' = [seen EXCEPT ![t] = snap]
    /\ Goto(t, "merge")
    /\ UNCHANGED << reading, expired, partial, errs, snap, result >>

(* Slip: the part is left as it is, and becomes the shared snapshot.        *)
MergeInto(shared, part) == part

(* mergeSnapshot: objects already there are overwritten.                    *)
MergeSnapshot(shared, part) ==
    [o \in Objects |-> IF part[o] # "absent" THEN part[o] ELSE shared[o]]

(* Everything a target adds, and the end of its goroutine.                  *)
Merge(t) ==
    /\ pc[t] = "merge"
    /\ snap' = [ objects  |-> MergeSnapshot(seen[t].objects, partial[t]),
                 failures |-> seen[t].failures \cup errs[t],
                 count    |-> seen[t].count + Cardinality(errs[t]) ]
    /\ mutex' = Nobody
    /\ Goto(t, "done")
    /\ UNCHANGED << reading, expired, partial, errs, seen, result >>

(* g.Wait returns once every goroutine has; none of them returns an error.  *)
Wait ==
    /\ result = NoResult
    /\ \A t \in Target : pc[t] = "done"
    /\ result' = snap
    /\ UNCHANGED << pc, reading, expired, partial, errs, seen, mutex, snap >>

Goroutine(t) == Open(t) \/ Read(t) \/ ReadAll(t) \/ Lock(t) \/ Merge(t)

Next ==
    \/ \E i \in DOMAIN Targets : Start(i)
    \/ \E t \in Target : Goroutine(t) \/ Expire(t)
    \/ Wait

(* A call to AWS may never return until its context ends; then it does.     *)
(* The timer fires, and the scheduler runs what can run.                    *)
Fairness ==
    /\ \A i \in DOMAIN Targets : WF_vars(Start(i))
    /\ \A t \in Target :
        /\ WF_vars(Expire(t))
        /\ WF_vars(expired[t] /\ (Open(t) \/ Read(t)))
        /\ WF_vars(ReadAll(t) \/ Lock(t) \/ Merge(t))
    /\ WF_vars(Wait)

Spec == Init /\ [][Next]_vars

FairSpec == Spec /\ Fairness

-----------------------------------------------------------------------------
(* Properties.                                                              *)

Failure == Target \X (Resource \cup {Profile})

Snapshot == [objects : [Objects -> Quality \cup {"absent"}],
             failures : SUBSET Failure, count : Nat]

(* Every variable holds a value of its kind, a target has read nothing that *)
(* it does not see, and the mutex is with the one goroutine that merges.    *)
TypeOK ==
    /\ pc \in [Target -> {"queued", "open", "read", "lock", "merge", "done"}]
    /\ reading \in [Target -> 1 .. Len(Resources) + 1]
    /\ expired \in [Target -> BOOLEAN]
    /\ partial \in [Target -> [Objects -> Quality \cup {"absent"}]]
    /\ \A t \in Target : \A o \in Objects \ Sees[t] : partial[t][o] = "absent"
    /\ errs \in [Target -> SUBSET Failure]
    /\ seen \in [Target -> Snapshot]
    /\ mutex \in Target \cup {Nobody}
    /\ \A t \in Target : pc[t] = "merge" <=> mutex = t
    /\ snap \in Snapshot
    /\ result \in Snapshot \cup {NoResult}

(* Nothing goes missing without a word (requirement 2.4): what a target can *)
(* see is whole in the snapshot, or the failure to read it is recorded.     *)
(* Only of a nested type may an object silently lack what a second read     *)
(* would have given it.  And a policy in the snapshot comes with every      *)
(* group it names, whatever failed around it: the evaluator takes a group   *)
(* it does not find for one that cannot be evaluated.                       *)
NothingMissesSilently ==
    result # NoResult =>
        /\ \A t \in Target : \A o \in Sees[t] :
               \/ result.objects[o] = "whole"
               \/ o[1] \in Nested /\ result.objects[o] = "part"
               \/ result.failures \cap { << t, o[1] >>, << t, Profile >> } # {}
        /\ \A o \in Objects : result.objects[o] # "absent" =>
               \A n \in Needs[o] : result.objects[n] # "absent"

(* A collection ends, though calls hang: under a timeout every goroutine    *)
(* comes to the merge and Run returns.                                      *)
Returns == <>(result # NoResult)

(* The collection keeps its promise: CollectSpec.                           *)
Promise == INSTANCE CollectSpec WITH
    Targets   <- Target,
    Resources <- Resource,
    Unopened  <- Profile,
    reported <- { t \in Target : pc[t] = "done" },
    report   <- [t \in Target |->
                    IF pc[t] = "done" THEN [objects |-> partial[t], failures |-> errs[t]]
                    ELSE [objects |-> NoObjects, failures |-> {}]],
    snapshot <- result

ImplementsPromise == Promise!Spec

=============================================================================
