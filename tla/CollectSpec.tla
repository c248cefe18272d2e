---------------------------- MODULE CollectSpec ----------------------------
(***************************************************************************)
(* What a collection promises: each account and region reports exactly     *)
(* once, on its own, what it could read and what it could not; the         *)
(* snapshot is what all of the reports come to, whatever order they        *)
(* arrive in.  Where two of them hold the same object, either copy may be  *)
(* the one kept.                                                           *)
(***************************************************************************)
EXTENDS Integers, FiniteSets

CONSTANTS Targets,  (* account and region pairs                             *)
          Resources, (* the resource types                                  *)
          Objects,  (* what there is to collect, a resource type and a name *)
          Sees,     (* the objects each target can see                      *)
          Nested,   (* types whose objects may come without a part of them  *)
          Unopened  (* what a target that could not be opened reports       *)

VARIABLES reported, report, snapshot

vars == << reported, report, snapshot >>

NoReport == [objects |-> [o \in Objects |-> "absent"], failures |-> {}]
NoSnapshot == [objects |-> << >>, failures |-> {}, count |-> -1]

Copies(o) == { report[t].objects[o] : t \in Targets } \ {"absent"}

Failures == UNION { report[t].failures : t \in Targets }

(* A target speaks for itself only, and of everything it can see.           *)
Honest(t, r) ==
    /\ r.failures \subseteq {t} \X (Resources \cup {Unopened})
    /\ \A o \in Sees[t] : \/ r.objects[o] = "whole"
                          \/ r.objects[o] = "part" /\ o[1] \in Nested
                          \/ r.failures \cap { << t, o[1] >>, << t, Unopened >> } # {}
    /\ \A o \in Objects \ Sees[t] : r.objects[o] = "absent"

Init ==
    /\ reported = {}
    /\ report = [t \in Targets |-> NoReport]
    /\ snapshot = NoSnapshot

Deliver(t) ==
    /\ t \notin reported
    /\ reported' = reported \cup {t}
    /\ Honest(t, report'[t])
    /\ report' = [report EXCEPT ![t] = report'[t]]
    /\ UNCHANGED snapshot

Assemble ==
    /\ snapshot = NoSnapshot
    /\ reported = Targets
    /\ snapshot' \in [ objects  : [Objects -> {"absent", "part", "whole"}],
                       failures : {Failures},
                       count    : {Cardinality(Failures)} ]
    /\ \A o \in Objects : IF Copies(o) = {} THEN snapshot'.objects[o] = "absent"
                          ELSE snapshot'.objects[o] \in Copies(o)
    /\ UNCHANGED << reported, report >>

Next == (\E t \in Targets : Deliver(t)) \/ Assemble

Spec == Init /\ [][Next]_vars

=============================================================================
