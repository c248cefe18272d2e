----------------------------- MODULE VerdictSpec -----------------------------
(***************************************************************************)
(* What the Correlator promises, with none of how it works it out.         *)
(*                                                                         *)
(* It is given the findings and answers once.  Unusable input is refused   *)
(* as a whole.  Otherwise the answer says which Layers were shown to block *)
(* (the earliest is primary), which were cleared, and whether it is        *)
(* authoritative.  Authoritative is defined by what the word is for: every *)
(* Layer that could not be evaluated may in truth pass or block, and the   *)
(* primary blocker is the same whichever it is.                            *)
(***************************************************************************)
EXTENDS Verdicts

CONSTANTS Inputs,          (* the findings a caller may hand over           *)
          ObservationLists (* the observations it may hand over with them   *)

VARIABLES input, observations, status, answer

vars == << input, observations, status, answer >>

Reported(l, v) == \E i \in DOMAIN input : input[i].layer = l /\ input[i].verdict = v

(* One block is enough, whatever else was said of the Layer.                *)
ShownBlocked == { l \in Layer : Reported(l, "blocked") }

(* Not shown to block, and not fully evaluated either.                      *)
Unverified == { l \in Layer : Reported(l, "abstain") /\ ~Reported(l, "blocked") }

Cleared == { l \in Layer : Reported(l, "pass") } \ (ShownBlocked \cup Unverified)

(* Whichever of the unverified Layers block in truth, the primary blocker   *)
(* stays where it is.                                                       *)
Settled == \A hidden \in SUBSET Unverified :
               Earliest(ShownBlocked \cup hidden) = Earliest(ShownBlocked)

Answer == [primary |-> Earliest(ShownBlocked), blocked |-> ShownBlocked,
           cleared |-> Cleared, authoritative |-> Settled]

NoAnswer == [primary |-> NoLayer, blocked |-> {}, cleared |-> {}, authoritative |-> FALSE]

Usable ==
    /\ \A i \in DOMAIN input : Emittable(input[i])
    /\ \A i \in DOMAIN observations : ObservationEmittable(observations[i])

Init ==
    /\ input \in Inputs
    /\ observations \in ObservationLists
    /\ status = "pending"
    /\ answer = NoAnswer

Reply ==
    /\ status = "pending"
    /\ IF Usable
       THEN status' = "answered" /\ answer' = Answer
       ELSE status' = "refused" /\ UNCHANGED answer
    /\ UNCHANGED << input, observations >>

Next == Reply

Spec == Init /\ [][Next]_vars

=============================================================================
