------------------------------ MODULE PortSets ------------------------------
(***************************************************************************)
(* Sets of ports (internal/flow/port.go): ranges that neither overlap nor  *)
(* touch.  The code keeps them in a sorted list; here they are a set whose *)
(* First is the head of that list, and the loops over it are recursions.   *)
(* MaxPort stands for 65535.                                               *)
(***************************************************************************)
EXTENDS Integers, FiniteSetsExt

CONSTANT MaxPort

ASSUME MaxPortAssumption == MaxPort \in Nat \ {0}

Port == 0 .. MaxPort

PortRange == { r \in [lo : Port, hi : Port] : r.lo <= r.hi }

AllPorts == { [lo |-> 0, hi |-> MaxPort] }

(* The ports p for which PortSet.Contains(p).                               *)
PortsIn(s) == { p \in Port : \E r \in s : r.lo <= p /\ p <= r.hi }

(* The order of sort.Slice.                                                 *)
RangeBefore(r, q) == r.lo < q.lo \/ (r.lo = q.lo /\ r.hi <= q.hi)

First(s) == CHOOSE r \in s : \A q \in s : RangeBefore(r, q)

(* Do the next range and the last one overlap or touch?                     *)
Joins(last, r) == r.lo <= last.hi \/ (last.hi < MaxPort /\ r.lo = last.hi + 1)

(* In one pass: the last range written and the next become one, or the last *)
(* is finished with.                                                        *)
Coalesce[s \in SUBSET PortRange] ==
    IF s = {} THEN {}
    ELSE LET last == First(s)
             rest == s \ {last}
             r    == First(rest)
         IN  IF rest # {} /\ Joins(last, r)
             THEN Coalesce[{[last EXCEPT !.hi = Max({@, r.hi})]} \cup (rest \ {r})]
             ELSE {last} \cup Coalesce[rest]

NormalizePorts(in) == Coalesce[in]

(* Two pointers: what the heads have in common, then past the one that ends *)
(* first.                                                                   *)
Common[lists \in (SUBSET PortRange) \X (SUBSET PortRange)] ==
    LET a == lists[1]
        b == lists[2]
        p == First(a)
        q == First(b)
    IN  IF a = {} \/ b = {} THEN {}
        ELSE ({[lo |-> Max({p.lo, q.lo}), hi |-> Min({p.hi, q.hi})]} \cap PortRange)
             \cup Common[IF p.hi < q.hi THEN << a \ {p}, b >> ELSE << a, b \ {q} >>]

IntersectPorts(s, t) == NormalizePorts(Common[<< s, t >>])

SubtractRange(a, b) ==
    IF b.hi < a.lo \/ b.lo > a.hi THEN {a}
    ELSE (IF b.lo > a.lo THEN { [a EXCEPT !.hi = b.lo - 1] } ELSE {})
         \cup (IF b.hi < a.hi THEN { [a EXCEPT !.lo = b.hi + 1] } ELSE {})

(* Each range of the second list is taken out of what those before it left. *)
TakeOut[lists \in (SUBSET PortRange) \X (SUBSET PortRange)] ==
    LET left == lists[1]
        b    == lists[2]
    IN  IF b = {} THEN left
        ELSE TakeOut[<< UNION { SubtractRange(a, First(b)) : a \in left }, b \ {First(b)} >>]

SubtractPorts(s, t) == NormalizePorts(TakeOut[<< s, t >>])

(* One form for each set of ports: no two ranges could be written as one.   *)
PortSet ==
    { s \in SUBSET PortRange : \A r, q \in s : r = q \/ r.hi + 1 < q.lo \/ q.hi + 1 < r.lo }

(* What the loops compute, against the sets the ranges stand for: whatever  *)
(* is written, normalising keeps its members and gives the one form; of two *)
(* such sets, intersection and subtraction leave what set theory does.      *)
PortsAreExact ==
    /\ \A rs \in SUBSET PortRange :
          NormalizePorts(rs) \in PortSet /\ PortsIn(NormalizePorts(rs)) = PortsIn(rs)
    /\ \A s, t \in PortSet :
          /\ IntersectPorts(s, t) \in PortSet
          /\ PortsIn(IntersectPorts(s, t)) = PortsIn(s) \cap PortsIn(t)
          /\ SubtractPorts(s, t) \in PortSet
          /\ PortsIn(SubtractPorts(s, t)) = PortsIn(s) \ PortsIn(t)
          /\ PortsIn(s) = PortsIn(t) => s = t

=============================================================================
