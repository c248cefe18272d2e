----------------------------- MODULE FlowProofs -----------------------------
(***************************************************************************)
(* What the loops of the flow algebra compute, for every number of ports   *)
(* and every number of bits an address may have: that PortsAreExact and    *)
(* PrefixesAreExact, which TLC evaluates for small ones, are true.         *)
(*                                                                         *)
(* The loops are recursive functions, so each is shown first to be one (by *)
(* RecursionDefines: every call is on less) and then, by induction on what *)
(* is left to do, to compute what set theory says.                         *)
(***************************************************************************)
EXTENDS PortSets, PrefixSets, FiniteSetTheorems, WellFoundedInduction, TLAPS

(* Induction and recursion, stated of sets and functions.                   *)

(* Every set of natural numbers that is not empty has a least one.          *)
LEMMA LeastNumber ==
    ASSUME NEW S, S \subseteq Nat, S # {}
    PROVE  \E x \in S : \A y \in S : x <= y
<1> DEFINE Less == { p \in Nat \X Nat : p[1] < p[2] }
<1>1. IsWellFoundedOn(Less, Nat)
BY NatLessThanWellFounded DEF OpToRel
<1>2. PICK x \in S : \A y \in S : ~(<< y, x >> \in Less)
BY <1>1, WFMin, Zenon
<1>3. ASSUME NEW y \in S
    PROVE  x <= y
<2>1. ~(<< y, x >> \in Less)
  BY <1>2
<2>2. << y, x >> \in Less <=> y < x
  OBVIOUS
<2>3. x \in Nat /\ y \in Nat
  OBVIOUS
<2> HIDE DEF Less
<2>4. QED
  BY <2>1, <2>2, <2>3
<1>4. QED
BY <1>3

(* Induction on a measure, for a set.                                       *)
LEMMA MeasureInduction ==
    ASSUME NEW S, NEW measure \in [S -> Nat], NEW T,
           \A x \in S : (\A y \in S : measure[y] < measure[x] => y \in T) => x \in T
    PROVE  S \subseteq T
<1>1. SUFFICES ASSUME S \ T # {}
               PROVE  FALSE
  OBVIOUS
<1> DEFINE N == { measure[x] : x \in S \ T }
<1>2. N \in SUBSET Nat /\ N # {}
  BY <1>1
<1>3. \E n \in N : \A m \in N : n <= m
  <2> HIDE DEF N
  <2> QED
    BY <1>2, LeastNumber
<1>4. PICK x \in S \ T : \A y \in S \ T : measure[x] <= measure[y]
  BY <1>3
<1> QED
  BY <1>4

(* Induction on the natural numbers, for a set.                             *)
LEMMA NumberInduction ==
    ASSUME NEW T, 0 \in T, \A n \in Nat : n \in T => n + 1 \in T
    PROVE  Nat \subseteq T
<1> DEFINE measure == [n \in Nat |-> n]
<1>1. \A n \in Nat : (\A m \in Nat : measure[m] < measure[n] => m \in T) => n \in T
  <2> SUFFICES ASSUME NEW n \in Nat, \A m \in Nat : measure[m] < measure[n] => m \in T
               PROVE  n \in T
    OBVIOUS
  <2>1. CASE n = 0
    BY <2>1
  <2>2. CASE n # 0
    <3>1. n - 1 \in Nat /\ n - 1 < n
      BY <2>2
    <3> QED
      BY <3>1
  <2> QED
    BY <2>1, <2>2
<1>2. measure \in [Nat -> Nat]
  OBVIOUS
<1> HIDE DEF measure
<1> QED
  BY <1>1, <1>2, MeasureInduction

(* A definition by recursion defines a function, where each value rests on  *)
(* those of a smaller measure only.                                         *)
RestsOnLess(S, Y, measure, Def) ==
    /\ measure \in [S -> Nat]
    /\ Def \in [S -> [[S -> Y] -> Y]]
    /\ [S -> Y] # {}
    /\ \A x \in S : \A f, g \in [S -> Y] :
          (\A y \in S : measure[y] < measure[x] => f[y] = g[y]) => Def[x][f] = Def[x][g]

LEMMA RecursionDefines ==
    ASSUME NEW S, NEW Y, NEW measure, NEW Def, RestsOnLess(S, Y, measure, Def)
    PROVE  \E f \in [S -> Y] : \A x \in S : f[x] = Def[x][f]
<1> USE DEF RestsOnLess
<1> DEFINE Good(n) == { f \in [S -> Y] : \A x \in S : measure[x] < n => f[x] = Def[x][f] }
           Alike(n) == \A f, g \in Good(n) : \A x \in S : measure[x] < n => f[x] = g[x]
           T == { n \in Nat : Alike(n) /\ Good(n) # {} }
<1>1. 0 \in T
  OBVIOUS
<1>2. ASSUME NEW n \in Nat, n \in T
      PROVE  n + 1 \in T
  <2>1. \A f \in Good(n + 1) : f \in Good(n)
    OBVIOUS
  <2>2. Alike(n + 1)
    <3> SUFFICES ASSUME NEW f \in Good(n + 1), NEW g \in Good(n + 1), NEW x \in S,
                        measure[x] < n + 1
                 PROVE  f[x] = g[x]
      OBVIOUS
    <3>1. \A y \in S : measure[y] < measure[x] => f[y] = g[y]
      <4>1. f \in Good(n) /\ g \in Good(n) /\ Alike(n)
        BY <1>2, <2>1
      <4>2. \A y \in S : measure[y] < measure[x] => measure[y] < n
        OBVIOUS
      <4> HIDE DEF Good
      <4> QED
        BY <4>1, <4>2
    <3>2. Def[x][f] = Def[x][g]
      BY <3>1
    <3> QED
      BY <3>2
  <2>3. Good(n + 1) # {}
    <3>1. PICK f \in [S -> Y] : \A x \in S : measure[x] < n => f[x] = Def[x][f]
      BY <1>2
    <3> DEFINE g == [x \in S |-> IF measure[x] < n THEN f[x] ELSE Def[x][f]]
    <3>2. g \in [S -> Y]
      OBVIOUS
    <3>3. \A x \in S : measure[x] < n => g[x] = f[x]
      OBVIOUS
    <3>4. \A x \in S : measure[x] < n + 1 => g[x] = Def[x][f]
      BY <3>1
    <3>5. ASSUME NEW x \in S, measure[x] < n + 1
          PROVE  Def[x][f] = Def[x][g]
      <4>1. \A y \in S : measure[y] < measure[x] => f[y] = g[y]
        BY <3>3, <3>5
      <4> HIDE DEF g
      <4> QED
        BY <4>1, <3>2
    <3>6. g \in Good(n + 1)
      <4> HIDE DEF g
      <4> QED
        BY <3>2, <3>4, <3>5
    <3> QED
      BY <3>6
  <2> QED
    BY <2>2, <2>3
<1>3. Nat \subseteq T
  <2> HIDE DEF T
  <2> QED
    BY <1>1, <1>2, NumberInduction
<1> DEFINE h == [x \in S |-> (CHOOSE f \in Good(measure[x] + 1) : TRUE)[x]]
<1>4. ASSUME NEW n \in Nat, NEW f \in Good(n), NEW x \in S, measure[x] < n
      PROVE  h[x] = f[x]
  <2> DEFINE g == CHOOSE k \in Good(measure[x] + 1) : TRUE
  <2>1. measure[x] + 1 \in Nat
    OBVIOUS
  <2>2. g \in Good(measure[x] + 1)
    BY <1>3, <2>1
  <2>3. f \in Good(measure[x] + 1)
    BY <1>4
  <2>4. g[x] = f[x]
    <3>1. Alike(measure[x] + 1)
      BY <1>3, <2>1
    <3>2. measure[x] < measure[x] + 1
      OBVIOUS
    <3> HIDE DEF g, Good
    <3> QED
      BY <3>1, <3>2, <2>1, <2>2, <2>3
  <2> QED
    BY <2>4
<1>5. \A n \in Nat : Good(n) # {}
  BY <1>3
<1>6. h \in [S -> Y]
  <2> SUFFICES ASSUME NEW x \in S
               PROVE  h[x] \in Y
    OBVIOUS
  <2>0. measure[x] + 1 \in Nat
    OBVIOUS
  <2>1. PICK f \in Good(measure[x] + 1) : TRUE
    <3> HIDE DEF Good
    <3> QED
      BY <1>5, <2>0
  <2>2. h[x] = f[x]
    <3>1. measure[x] + 1 \in Nat /\ measure[x] < measure[x] + 1
      OBVIOUS
    <3> HIDE DEF h
    <3> QED
      BY <3>1, <2>1, <1>4
  <2> QED
    BY <2>1, <2>2
<1>7. ASSUME NEW x \in S
      PROVE  h[x] = Def[x][h]
  <2>0. measure[x] + 1 \in Nat /\ measure[x] < measure[x] + 1
    OBVIOUS
  <2>1. PICK f \in Good(measure[x] + 1) : TRUE
    <3> HIDE DEF Good
    <3> QED
      BY <1>5, <2>0
  <2>2. \A y \in S : measure[y] < measure[x] + 1 => h[y] = f[y]
    <3> HIDE DEF h
    <3> QED
      BY <2>0, <2>1, <1>4
  <2>3. f[x] = Def[x][f]
    BY <2>0, <2>1
  <2>4. \A y \in S : measure[y] < measure[x] => h[y] = f[y]
    <3>1. \A y \in S : measure[y] < measure[x] => measure[y] < measure[x] + 1
      OBVIOUS
    <3> HIDE DEF h
    <3> QED
      BY <2>2, <3>1
  <2>5. Def[x][h] = Def[x][f]
    <3>1. f \in [S -> Y]
      BY <2>1
    <3> HIDE DEF h, Good
    <3> QED
      BY <2>4, <1>6, <3>1
  <2> HIDE DEF h, Good
  <2> QED
    BY <2>0, <2>2, <2>3, <2>5
<1> HIDE DEF h
<1> QED
  BY <1>6, <1>7

-----------------------------------------------------------------------------
(* The port sets.                                                           *)

(* The greater and the lesser of two numbers.                               *)
LEMMA MaxOfTwo ==
    ASSUME NEW a \in Int, NEW b \in Int
    PROVE  /\ Max({a, b}) = IF a >= b THEN a ELSE b
           /\ Min({a, b}) = IF a <= b THEN a ELSE b
<1>1. Max({a, b}) = CHOOSE x \in {a, b} : \A y \in {a, b} : x >= y
  BY DEF Max
<1>2. Min({a, b}) = CHOOSE x \in {a, b} : \A y \in {a, b} : x <= y
  BY DEF Min
<1>3. CASE a >= b
  BY <1>1, <1>2, <1>3
<1>4. CASE a < b
  BY <1>1, <1>2, <1>4
<1> QED
  BY <1>3, <1>4

LEMMA MaxPortIsNumber == MaxPort \in Nat /\ MaxPort > 0
BY MaxPortAssumption

(* A range of ports, field by field.                                        *)
LEMMA Ranges ==
    ASSUME NEW r
    PROVE  r \in PortRange <=>
               /\ r = [lo |-> r.lo, hi |-> r.hi]
               /\ r.lo \in Nat /\ r.hi \in Nat /\ r.lo <= r.hi /\ r.hi <= MaxPort
BY MaxPortIsNumber DEF PortRange, Port

(* There are finitely many ranges.                                          *)
LEMMA FiniteRanges ==
    /\ IsFiniteSet(PortRange)
    /\ \A s \in SUBSET PortRange : IsFiniteSet(s) /\ Cardinality(s) \in Nat
<1> DEFINE P == Port \X Port
           R == [lo : Port, hi : Port]
           f == [p \in P |-> [lo |-> p[1], hi |-> p[2]]]
<1>1. IsFiniteSet(Port)
  BY FS_Interval, MaxPortIsNumber DEF Port
<1>2. IsFiniteSet(P)
  BY <1>1, FS_Product
<1>3. f \in Surjection(P, R)
  <2>1. f \in [P -> R]
    OBVIOUS
  <2>2. ASSUME NEW r \in R
        PROVE  \E p \in P : f[p] = r
    <3>1. << r.lo, r.hi >> \in P
      OBVIOUS
    <3>2. f[<< r.lo, r.hi >>] = r
      OBVIOUS
    <3> QED
      BY <3>1, <3>2
  <2> QED
    BY <2>1, <2>2 DEF Surjection
<1>4. IsFiniteSet(R)
  <2> HIDE DEF P, R, f
  <2> QED
    BY <1>2, <1>3, FS_Surjection
<1>5. IsFiniteSet(PortRange)
  BY <1>4, FS_Subset DEF PortRange
<1> QED
  BY <1>5, FS_Subset, FS_CardinalityType

(* A list that is not empty has a first range.                              *)
LEMMA FirstRange ==
    ASSUME NEW s \in SUBSET PortRange, s # {}
    PROVE  First(s) \in s /\ \A q \in s : RangeBefore(First(s), q)
<1> DEFINE L == { r.lo : r \in s }
<1>1. L \in SUBSET Nat /\ L # {}
  BY Ranges
<1>2. PICK lo \in L : \A m \in L : lo <= m
  <2> HIDE DEF L
  <2> QED
    BY <1>1, LeastNumber
<1> DEFINE H == { r.hi : r \in { r \in s : r.lo = lo } }
<1>3. H \in SUBSET Nat /\ H # {}
  BY Ranges
<1>4. PICK hi \in H : \A m \in H : hi <= m
  <2> HIDE DEF H
  <2> QED
    BY <1>3, LeastNumber
<1>5. PICK r \in s : r.lo = lo /\ r.hi = hi
  OBVIOUS
<1>6. \A q \in s : RangeBefore(r, q)
  <2> SUFFICES ASSUME NEW q \in s
               PROVE  RangeBefore(r, q)
    OBVIOUS
  <2>1. lo <= q.lo
    BY <1>2
  <2>2. q.lo = lo => hi <= q.hi
    BY <1>4
  <2>3. lo \in Nat /\ q.lo \in Nat
    BY <1>5, Ranges
  <2> QED
    BY <1>5, <2>1, <2>2, <2>3 DEF RangeBefore
<1> QED
  BY <1>6 DEF First

(* Coalesce, of any two ranges that meet the one that holds both.           *)
Joined(last, r) == [last EXCEPT !.hi = Max({@, r.hi})]

LEMMA JoinedRange ==
    ASSUME NEW last \in PortRange, NEW r \in PortRange, RangeBefore(last, r), Joins(last, r)
    PROVE  /\ Joined(last, r) \in PortRange
           /\ Joined(last, r).lo = last.lo
           /\ PortsIn({Joined(last, r)}) = PortsIn({last, r})
<1> DEFINE j == Joined(last, r)
<1>1. Max({last.hi, r.hi}) = IF last.hi >= r.hi THEN last.hi ELSE r.hi
  BY MaxOfTwo, Ranges
<1>2. j = [lo |-> last.lo, hi |-> IF last.hi >= r.hi THEN last.hi ELSE r.hi]
  BY <1>1, Ranges DEF Joined
<1>3. j \in PortRange /\ j.lo = last.lo
  BY <1>2, Ranges
<1>4. ASSUME NEW p \in Port
      PROVE  (j.lo <= p /\ p <= j.hi) <=> (\E q \in {last, r} : q.lo <= p /\ p <= q.hi)
  <2>1. p \in Nat
    BY MaxPortIsNumber, <1>4 DEF Port
  <2>2. /\ last.lo \in Nat /\ last.hi \in Nat /\ r.lo \in Nat /\ r.hi \in Nat
        /\ last.lo <= last.hi /\ r.lo <= r.hi
    BY Ranges
  <2>3. r.lo <= last.hi + 1 /\ last.lo <= r.lo
    BY <2>2 DEF Joins, RangeBefore
  <2> HIDE DEF j
  <2> QED
    BY <1>2, <2>1, <2>2, <2>3
<1> QED
  BY <1>3, <1>4 DEF PortsIn

(* Either way the list gets shorter.                                        *)
LEMMA CoalesceMeasures ==
    ASSUME NEW s \in SUBSET PortRange, s # {}
    PROVE  LET last == First(s)
               rest == s \ {last}
               r    == First(rest)
               next == {Joined(last, r)} \cup (rest \ {r})
           IN  /\ rest \in SUBSET PortRange /\ Cardinality(rest) < Cardinality(s)
               /\ rest # {} /\ Joins(last, r) =>
                      next \in SUBSET PortRange /\ Cardinality(next) < Cardinality(s)
<1> DEFINE last == First(s)
           rest == s \ {last}
           r    == First(rest)
           next == {Joined(last, r)} \cup (rest \ {r})
<1>1. last \in s /\ \A q \in s : RangeBefore(last, q)
  BY FirstRange
<1>2. Cardinality(rest) = Cardinality(s) - 1 /\ IsFiniteSet(rest) /\ Cardinality(s) \in Nat
  BY <1>1, FS_RemoveElement, FiniteRanges
<1>3. ASSUME rest # {}, Joins(last, r)
      PROVE  next \in SUBSET PortRange /\ Cardinality(next) < Cardinality(s)
  <2>1. r \in rest
    BY <1>3, FirstRange
  <2>2. Joined(last, r) \in PortRange
    BY <1>1, <1>3, <2>1, JoinedRange
  <2>3. Cardinality(rest \ {r}) = Cardinality(rest) - 1 /\ IsFiniteSet(rest \ {r})
    <3> HIDE DEF rest, r, last
    <3> QED
      BY <1>2, <2>1, FS_RemoveElement
  <2>4. Cardinality((rest \ {r}) \cup {Joined(last, r)}) <= Cardinality(rest)
    <3>1. Cardinality(rest) \in Nat
      BY FiniteRanges
    <3> HIDE DEF rest, r, last
    <3> QED
      BY <2>3, FS_AddElement, <3>1
  <2>5. next = (rest \ {r}) \cup {Joined(last, r)}
    OBVIOUS
  <2>6. Cardinality(next) <= Cardinality(rest)
    BY <2>4, <2>5
  <2>7. next \in SUBSET PortRange
    BY <2>1, <2>2
  <2> HIDE DEF rest, r, last, next
  <2> QED
    <3>1. Cardinality(next) \in Nat
      BY <2>7, FiniteRanges
    <3> QED
      BY <1>2, <2>6, <2>7, <3>1
<1> HIDE DEF next
<1> QED
  BY <1>2, <1>3 DEF next

(* So the recursion defines Coalesce.                                       *)
LEMMA CoalesceDefined ==
    \A s \in SUBSET PortRange :
        Coalesce[s] =
            IF s = {} THEN {}
            ELSE LET last == First(s)
                     rest == s \ {last}
                     r    == First(rest)
                 IN  IF rest # {} /\ Joins(last, r)
                     THEN Coalesce[{Joined(last, r)} \cup (rest \ {r})]
                     ELSE {last} \cup Coalesce[rest]
<1> DEFINE S == SUBSET PortRange
           measure == [s \in S |-> Cardinality(s)]
           last(s) == First(s)
           rest(s) == s \ {last(s)}
           next(s) == First(rest(s))
           joins(s) == rest(s) # {} /\ Joins(last(s), next(s))
           joined(s) == {Joined(last(s), next(s))} \cup (rest(s) \ {next(s)})
           Def == [s \in S |-> [f \in [S -> S] |->
                      IF s = {} THEN {}
                      ELSE IF joins(s) THEN f[joined(s)] ELSE {last(s)} \cup f[rest(s)]]]
<1>1. measure \in [S -> Nat]
  BY FiniteRanges
<1>2. ASSUME NEW s \in S, s # {}
      PROVE  /\ last(s) \in PortRange
             /\ rest(s) \in S /\ Cardinality(rest(s)) < Cardinality(s)
             /\ joins(s) => joined(s) \in S /\ Cardinality(joined(s)) < Cardinality(s)
  BY <1>2, CoalesceMeasures, FirstRange
<1>3. Def \in [S -> [[S -> S] -> S]]
  <2> HIDE DEF last, rest, joins, joined, S
  <2>1. \A s \in S, f \in [S -> S] :
           (IF s = {} THEN {} ELSE IF joins(s) THEN f[joined(s)] ELSE {last(s)} \cup f[rest(s)]) \in S
    BY <1>2 DEF S
  <2> QED
    BY <2>1
<1>4. [S -> S] # {}
  <2>1. [s \in S |-> s] \in [S -> S]
    OBVIOUS
  <2> QED
    BY <2>1
<1>5. \A s \in S : \A f, g \in [S -> S] :
          (\A y \in S : measure[y] < measure[s] => f[y] = g[y]) => Def[s][f] = Def[s][g]
  <2> SUFFICES ASSUME NEW s \in S, NEW f \in [S -> S], NEW g \in [S -> S],
                      \A y \in S : measure[y] < measure[s] => f[y] = g[y]
               PROVE  Def[s][f] = Def[s][g]
    OBVIOUS
  <2>1. \A y \in S : Cardinality(y) < Cardinality(s) => f[y] = g[y]
    OBVIOUS
  <2> HIDE DEF last, rest, joins, joined, S, measure
  <2> QED
    BY <2>1, <1>2
<1>6. PICK f \in [S -> S] : \A s \in S : f[s] = Def[s][f]
  <2> HIDE DEF S, measure, Def
  <2>1. RestsOnLess(S, S, measure, Def)
    BY <1>1, <1>3, <1>4, <1>5 DEF RestsOnLess
  <2> QED
    BY <2>1, RecursionDefines
<1>7. f = [s \in S |-> IF s = {} THEN {}
                       ELSE IF joins(s) THEN f[joined(s)] ELSE {last(s)} \cup f[rest(s)]]
  <2>1. \A s \in S : f[s] = IF s = {} THEN {}
                            ELSE IF joins(s) THEN f[joined(s)] ELSE {last(s)} \cup f[rest(s)]
    <3> HIDE DEF last, rest, joins, joined, S
    <3> QED
      BY <1>6
  <2> HIDE DEF last, rest, joins, joined, S, Def
  <2> QED
    BY <2>1, <1>6
<1>8. Coalesce = [s \in S |-> IF s = {} THEN {}
                       ELSE IF joins(s) THEN Coalesce[joined(s)] ELSE {last(s)} \cup Coalesce[rest(s)]]
  <2> DEFINE Is(g) == g = [s \in S |-> IF s = {} THEN {}
                       ELSE IF joins(s) THEN g[joined(s)] ELSE {last(s)} \cup g[rest(s)]]
  <2>1. Coalesce = CHOOSE g : Is(g)
    BY DEF Coalesce, Joined
  <2>2. Is(f)
    BY <1>7
  <2> HIDE DEF Is
  <2>3. Is(Coalesce)
    BY <2>1, <2>2
  <2> QED
    BY <2>3 DEF Is
<1>9. ASSUME NEW s \in S
      PROVE  Coalesce[s] = IF s = {} THEN {}
                       ELSE IF joins(s) THEN Coalesce[joined(s)] ELSE {last(s)} \cup Coalesce[rest(s)]
  <2> HIDE DEF last, rest, joins, joined, S
  <2> QED
    BY <1>8
<1> QED
  BY <1>9

(* A list of ranges normalised: separate ranges, of the same ports, none of *)
(* them before the first of the list.                                       *)
Apart(s) == \A r, q \in s : r = q \/ r.hi + 1 < q.lo \/ q.hi + 1 < r.lo

LEMMA SetsOfPorts == \A s : s \in PortSet <=> s \in SUBSET PortRange /\ Apart(s)
BY DEF PortSet, Apart

(* The ports of two lists, of none and of fewer ranges.                     *)
LEMMA PortsOfUnion ==
    /\ \A s, t : PortsIn(s \cup t) = PortsIn(s) \cup PortsIn(t)
    /\ PortsIn({}) = {}
    /\ \A s, t : s \subseteq t => PortsIn(s) \subseteq PortsIn(t)
BY DEF PortsIn

Coalesced(s, t) ==
    /\ t \in PortSet
    /\ PortsIn(t) = PortsIn(s)
    /\ s # {} => \A r \in t : First(s).lo <= r.lo

(* The first range stands apart from the next: it is finished with.         *)
LEMMA CoalesceOne ==
    ASSUME NEW s \in SUBSET PortRange, s # {}, s \ {First(s)} = {} \/ ~Joins(First(s), First(s \ {First(s)})),
           Coalesced(s \ {First(s)}, Coalesce[s \ {First(s)}])
    PROVE  Coalesced(s, {First(s)} \cup Coalesce[s \ {First(s)}])
<1> DEFINE last == First(s)
           rest == s \ {last}
           t == Coalesce[rest]
<1>1. last \in s /\ last \in PortRange /\ \A q \in s : RangeBefore(last, q)
  BY FirstRange
<1>2. /\ t \in SUBSET PortRange /\ Apart(t) /\ PortsIn(t) = PortsIn(rest)
      /\ rest # {} => \A r \in t : First(rest).lo <= r.lo
  BY SetsOfPorts DEF Coalesced
<1>3. ASSUME NEW r \in t
      PROVE  last.hi + 1 < r.lo
  <2>1. r \in PortRange
    BY <1>2, <1>3
  <2>2. r.lo \in PortsIn(rest)
    <3>1. r.lo \in Port /\ r.lo <= r.lo /\ r.lo <= r.hi
      BY <2>1 DEF PortRange, Port
    <3>2. r.lo \in PortsIn(t)
      BY <1>3, <3>1 DEF PortsIn
    <3> QED
      BY <3>2, <1>2
  <2>3. rest # {}
    BY <2>2 DEF PortsIn
  <2>4. First(rest) \in PortRange /\ First(rest) \in s /\ First(rest).lo <= r.lo /\ ~Joins(last, First(rest))
    BY <1>2, <1>3, <2>3, FirstRange
  <2> HIDE DEF rest, last, t
  <2> QED
    BY <1>1, <2>1, <2>4, Ranges, MaxPortIsNumber DEF Joins
<1>4. Apart({last} \cup t)
  <2> HIDE DEF last, rest, t
  <2> QED
    BY <1>2, <1>3 DEF Apart
<1>5. PortsIn({last} \cup t) = PortsIn(s)
  <2>1. s = {last} \cup rest
    BY <1>1
  <2> HIDE DEF last, rest, t
  <2>2. PortsIn({last} \cup t) = PortsIn({last}) \cup PortsIn(t)
    BY PortsOfUnion
  <2>3. PortsIn({last} \cup rest) = PortsIn({last}) \cup PortsIn(rest)
    BY PortsOfUnion
  <2> QED
    BY <2>1, <2>2, <2>3, <1>2
<1>6. \A r \in {last} \cup t : last.lo <= r.lo
  <2> SUFFICES ASSUME NEW r \in {last} \cup t
               PROVE  last.lo <= r.lo
    OBVIOUS
  <2>1. CASE r = last
    BY <1>1, <2>1, Ranges
  <2>2. CASE r \in t
    <3>1. r \in PortRange /\ last.hi + 1 < r.lo
      BY <1>2, <1>3, <2>2
    <3> HIDE DEF last, rest, t
    <3> QED
      BY <1>1, <3>1, Ranges
  <2> QED
    BY <2>1, <2>2
<1>7. {last} \cup t \in SUBSET PortRange
  BY <1>1, <1>2
<1> HIDE DEF last, rest, t
<1>8. Coalesced(s, {last} \cup t)
  BY <1>4, <1>5, <1>6, <1>7, SetsOfPorts DEF Coalesced, last
<1> QED
  BY <1>8 DEF last, rest, t

(* The first range meets the next: the one that holds both comes first.     *)
LEMMA CoalesceTwo ==
    ASSUME NEW s \in SUBSET PortRange, s # {}, NEW last, last = First(s), NEW rest, rest = s \ {last},
           NEW r, r = First(rest), rest # {}, Joins(last, r),
           NEW next, next = {Joined(last, r)} \cup (rest \ {r}),
           NEW t, Coalesced(next, t)
    PROVE  Coalesced(s, t)
<1>1. last \in s /\ last \in PortRange /\ \A q \in s : RangeBefore(last, q)
  BY FirstRange
<1>2. r \in rest /\ r \in s /\ r \in PortRange /\ RangeBefore(last, r)
  BY FirstRange, <1>1
<1>3. /\ Joined(last, r) \in PortRange
      /\ Joined(last, r).lo = last.lo
      /\ PortsIn({Joined(last, r)}) = PortsIn({last, r})
  BY <1>1, <1>2, JoinedRange
<1>4. PortsIn(next) = PortsIn(s)
  <2>1. s = {last, r} \cup (rest \ {r})
    BY <1>1, <1>2
  <2>2. PortsIn({last, r} \cup (rest \ {r})) = PortsIn({last, r}) \cup PortsIn(rest \ {r})
    BY ONLY PortsOfUnion, Zenon
  <2>3. PortsIn({Joined(last, r)} \cup (rest \ {r})) = PortsIn({Joined(last, r)}) \cup PortsIn(rest \ {r})
    BY ONLY PortsOfUnion, Zenon
  <2>4. PortsIn(next) = PortsIn({Joined(last, r)}) \cup PortsIn(rest \ {r})
    BY <2>3
  <2>5. PortsIn(s) = PortsIn({last, r}) \cup PortsIn(rest \ {r})
    BY ONLY <2>1, <2>2, Zenon
  <2> QED
    BY <2>4, <2>5, <1>3
<1>5. First(next) \in next
  <2>1. next \in SUBSET PortRange /\ next # {}
    BY <1>3
  <2> QED
    BY <2>1, FirstRange
<1>6. last.lo <= First(next).lo
  <2>1. CASE First(next) = Joined(last, r)
    BY <2>1, <1>1, <1>3, Ranges
  <2>2. CASE First(next) \in s
    <3>1. RangeBefore(last, First(next)) /\ First(next) \in PortRange
      BY <2>2, <1>1
    <3> QED
      BY <3>1, <1>1, Ranges DEF RangeBefore
  <2> QED
    BY <2>1, <2>2, <1>5
<1>7. ASSUME NEW q \in t
      PROVE  last.lo <= q.lo
  <2>1. First(next).lo <= q.lo /\ q \in PortRange /\ First(next) \in PortRange
    BY <1>7, <1>5, <1>3, SetsOfPorts DEF Coalesced
  <2> QED
    BY <2>1, <1>6, <1>1, Ranges
<1> QED
  BY <1>4, <1>7 DEF Coalesced

(* By induction on the length of the list.                                  *)
LEMMA CoalesceExact == \A s \in SUBSET PortRange : Coalesced(s, Coalesce[s])
<1> DEFINE S == SUBSET PortRange
           measure == [s \in S |-> Cardinality(s)]
           T == { s \in S : Coalesced(s, Coalesce[s]) }
<1>1. measure \in [S -> Nat]
  BY FiniteRanges
<1>2. ASSUME NEW s \in S, \A u \in S : Cardinality(u) < Cardinality(s) => u \in T
      PROVE  Coalesced(s, Coalesce[s])
  <2>1. CASE s = {}
    <3>1. Coalesce[s] = {}
      BY <2>1, CoalesceDefined
    <3>2. {} \in PortSet
      BY SetsOfPorts DEF Apart
    <3> QED
      BY <2>1, <3>1, <3>2 DEF Coalesced
  <2>2. CASE s # {}
    <3> DEFINE last == First(s)
               rest == s \ {last}
               r    == First(rest)
               next == {Joined(last, r)} \cup (rest \ {r})
    <3>1. /\ rest \in S /\ Cardinality(rest) < Cardinality(s)
          /\ rest # {} /\ Joins(last, r) => next \in S /\ Cardinality(next) < Cardinality(s)
      BY <2>2, CoalesceMeasures
    <3>2. Coalesce[s] = IF rest # {} /\ Joins(last, r) THEN Coalesce[next] ELSE {last} \cup Coalesce[rest]
      BY <2>2, CoalesceDefined
    <3>3. CASE rest # {} /\ Joins(last, r)
      <4>1. Coalesced(next, Coalesce[next])
        <5>1. next \in T
          BY <1>2, <3>1, <3>3
        <5> QED
          BY <5>1
      <4> HIDE DEF S, T
      <4>2. Coalesced(s, Coalesce[next])
        <5>0. s \in SUBSET PortRange
          BY DEF S
        <5> HIDE DEF next, rest, r, last
        <5> QED
          BY <2>2, <3>3, <4>1, <5>0, CoalesceTwo DEF next, rest, r, last
      <4> HIDE DEF next
      <4> QED
        BY <4>2, <3>2, <3>3
    <3>4. CASE ~(rest # {} /\ Joins(last, r))
      <4>1. Coalesced(rest, Coalesce[rest])
        <5>1. rest \in T
          BY <1>2, <3>1
        <5> QED
          BY <5>1
      <4>2. Coalesced(s, {last} \cup Coalesce[rest])
        BY <2>2, <3>4, <4>1, CoalesceOne
      <4> QED
        BY <4>2, <3>2, <3>4
    <3> QED
      BY <3>3, <3>4
  <2> QED
    BY <2>1, <2>2
<1>3. S \subseteq T
  <2>1. \A s \in S : (\A u \in S : measure[u] < measure[s] => u \in T) => s \in T
    BY <1>2
  <2> HIDE DEF S, T, measure
  <2> QED
    BY <1>1, <2>1, MeasureInduction
<1> QED
  BY <1>3

(* What normalizePorts returns.                                             *)
LEMMA PortsNormalised ==
    \A s \in SUBSET PortRange :
        NormalizePorts(s) \in PortSet /\ PortsIn(NormalizePorts(s)) = PortsIn(s)
BY CoalesceExact DEF NormalizePorts, Coalesced

(* Two lists of separate ranges with the same ports are the same.           *)
LEMMA OneFormOfPorts ==
    ASSUME NEW s \in PortSet, NEW t \in PortSet, PortsIn(s) = PortsIn(t)
    PROVE  s \subseteq t
<1>1. s \in SUBSET PortRange /\ t \in SUBSET PortRange /\ Apart(s) /\ Apart(t)
  BY SetsOfPorts
<1> SUFFICES ASSUME NEW r \in s
             PROVE  r \in t
  OBVIOUS
<1>2. r = [lo |-> r.lo, hi |-> r.hi] /\ r.lo \in Nat /\ r.hi \in Nat /\ r.lo <= r.hi /\ r.hi <= MaxPort
  BY <1>1, Ranges
<1>3. \A p \in Nat : p <= MaxPort => ((\E q \in s : q.lo <= p /\ p <= q.hi) <=> (\E q \in t : q.lo <= p /\ p <= q.hi))
  BY MaxPortIsNumber DEF PortsIn, Port
<1>4. PICK q \in t : q.lo <= r.lo /\ r.lo <= q.hi
  BY <1>2, <1>3, MaxPortIsNumber
<1>5. q = [lo |-> q.lo, hi |-> q.hi] /\ q.lo \in Nat /\ q.hi \in Nat /\ q.lo <= q.hi /\ q.hi <= MaxPort
  BY <1>1, Ranges
<1>6. q.lo = r.lo
  <2> SUFFICES ASSUME q.lo < r.lo
               PROVE  FALSE
    BY <1>2, <1>4, <1>5
  <2>1. PICK x \in s : x.lo <= r.lo - 1 /\ r.lo - 1 <= x.hi
    <3>1. r.lo - 1 \in Nat /\ r.lo - 1 <= MaxPort /\ q.lo <= r.lo - 1 /\ r.lo - 1 <= q.hi
      BY <1>2, <1>4, <1>5, MaxPortIsNumber
    <3> QED
      BY <3>1, <1>3
  <2>2. x.lo \in Nat /\ x.hi \in Nat /\ x.lo <= x.hi
    BY <1>1, Ranges
  <2>3. x = r \/ x.hi + 1 < r.lo \/ r.hi + 1 < x.lo
    BY <1>1 DEF Apart
  <2> QED
    BY <1>2, <2>1, <2>2, <2>3
<1>7. ~(q.hi < r.hi)
  <2> SUFFICES ASSUME q.hi < r.hi
               PROVE  FALSE
    OBVIOUS
  <2>1. PICK x \in t : x.lo <= q.hi + 1 /\ q.hi + 1 <= x.hi
    <3>1. q.hi + 1 \in Nat /\ q.hi + 1 <= MaxPort /\ r.lo <= q.hi + 1 /\ q.hi + 1 <= r.hi
      BY <1>2, <1>4, <1>5, MaxPortIsNumber
    <3> QED
      BY <3>1, <1>3
  <2>2. x.lo \in Nat /\ x.hi \in Nat /\ x.lo <= x.hi
    BY <1>1, Ranges
  <2>3. x = q \/ x.hi + 1 < q.lo \/ q.hi + 1 < x.lo
    BY <1>1 DEF Apart
  <2> QED
    BY <1>5, <2>1, <2>2, <2>3
<1>8. ~(r.hi < q.hi)
  <2> SUFFICES ASSUME r.hi < q.hi
               PROVE  FALSE
    OBVIOUS
  <2>1. PICK x \in s : x.lo <= r.hi + 1 /\ r.hi + 1 <= x.hi
    <3>1. r.hi + 1 \in Nat /\ r.hi + 1 <= MaxPort /\ q.lo <= r.hi + 1 /\ r.hi + 1 <= q.hi
      BY <1>2, <1>4, <1>5, MaxPortIsNumber
    <3> QED
      BY <3>1, <1>3
  <2>2. x.lo \in Nat /\ x.hi \in Nat /\ x.lo <= x.hi
    BY <1>1, Ranges
  <2>3. x = r \/ x.hi + 1 < r.lo \/ r.hi + 1 < x.lo
    BY <1>1 DEF Apart
  <2> QED
    BY <1>2, <2>1, <2>2, <2>3
<1>9. q.hi = r.hi
  BY <1>2, <1>5, <1>7, <1>8
<1> QED
  BY <1>2, <1>5, <1>6, <1>9

(* The loops over two lists.                                                *)
Lists == (SUBSET PortRange) \X (SUBSET PortRange)

LEMMA TwoLists ==
    /\ \A x \in Lists : x[1] \in SUBSET PortRange /\ x[2] \in SUBSET PortRange /\ x = << x[1], x[2] >>
    /\ \A a, b \in SUBSET PortRange : << a, b >> \in Lists /\ << a, b >>[1] = a /\ << a, b >>[2] = b
BY DEF Lists

(* A list without one of its ranges.                                        *)
LEMMA OneLess ==
    ASSUME NEW s \in SUBSET PortRange, NEW r \in s
    PROVE  s \ {r} \in SUBSET PortRange /\ Cardinality(s \ {r}) = Cardinality(s) - 1
BY FiniteRanges, FS_RemoveElement

(* The ports of both heads, and the loop past the one that ends first.      *)
Meeting(p, q) == {[lo |-> Max({p.lo, q.lo}), hi |-> Min({p.hi, q.hi})]} \cap PortRange

Onto(a, b) ==
    IF First(a).hi < First(b).hi THEN << a \ {First(a)}, b >> ELSE << a, b \ {First(b)} >>

(* Past one of the heads, less is left.                                     *)
LEMMA OntoMeasures ==
    ASSUME NEW a \in SUBSET PortRange, NEW b \in SUBSET PortRange, a # {}, b # {}
    PROVE  /\ Onto(a, b) \in Lists
           /\ Cardinality(Onto(a, b)[1]) + Cardinality(Onto(a, b)[2]) < Cardinality(a) + Cardinality(b)
<1>1. First(a) \in a /\ First(b) \in b
  BY FirstRange
<1>2. /\ a \ {First(a)} \in SUBSET PortRange /\ Cardinality(a \ {First(a)}) = Cardinality(a) - 1
      /\ b \ {First(b)} \in SUBSET PortRange /\ Cardinality(b \ {First(b)}) = Cardinality(b) - 1
  BY <1>1, OneLess
<1>3. Cardinality(a) \in Nat /\ Cardinality(b) \in Nat
  BY FiniteRanges
<1>4. CASE First(a).hi < First(b).hi
  <2>1. Onto(a, b) = << a \ {First(a)}, b >>
    BY <1>4 DEF Onto
  <2> QED
    BY <2>1, <1>2, <1>3, TwoLists
<1>5. CASE ~(First(a).hi < First(b).hi)
  <2>1. Onto(a, b) = << a, b \ {First(b)} >>
    BY <1>5 DEF Onto
  <2> QED
    BY <2>1, <1>2, <1>3, TwoLists
<1> QED
  BY <1>4, <1>5

(* A loop that adds to its result what each step finds.                     *)
IsLoop(S, U, measure, over, last, more, next) ==
    /\ measure \in [S -> Nat]
    /\ over \in SUBSET S
    /\ last \in [S -> SUBSET U] /\ more \in [S -> SUBSET U]
    /\ next \in [S -> S]
    /\ \A x \in S \ over : measure[next[x]] < measure[x]

LoopsTo(f, S, over, last, more, next) ==
    f = [x \in S |-> IF x \in over THEN last[x] ELSE more[x] \cup f[next[x]]]

(* Such a loop ends, so the recursion defines a function.                   *)
LEMMA LoopDefines ==
    ASSUME NEW S, NEW U, NEW measure, NEW over, NEW last, NEW more, NEW next,
           IsLoop(S, U, measure, over, last, more, next)
    PROVE  \E f : LoopsTo(f, S, over, last, more, next)
<1> USE DEF IsLoop
<1> DEFINE Y == SUBSET U
           Def == [x \in S |-> [f \in [S -> Y] |-> IF x \in over THEN last[x] ELSE more[x] \cup f[next[x]]]]
<1>1. Def \in [S -> [[S -> Y] -> Y]]
  <2>1. \A x \in S, f \in [S -> Y] : (IF x \in over THEN last[x] ELSE more[x] \cup f[next[x]]) \in Y
    OBVIOUS
  <2> HIDE DEF Y
  <2> QED
    BY <2>1
<1>2. [S -> Y] # {}
  BY last \in [S -> Y]
<1>3. \A x \in S : \A f, g \in [S -> Y] :
          (\A y \in S : measure[y] < measure[x] => f[y] = g[y]) => Def[x][f] = Def[x][g]
  <2> SUFFICES ASSUME NEW x \in S, NEW f \in [S -> Y], NEW g \in [S -> Y],
                      \A y \in S : measure[y] < measure[x] => f[y] = g[y]
               PROVE  Def[x][f] = Def[x][g]
    OBVIOUS
  <2> HIDE DEF Y
  <2>1. x \notin over => f[next[x]] = g[next[x]]
    OBVIOUS
  <2> QED
    BY <2>1
<1>4. RestsOnLess(S, Y, measure, Def)
  <2> HIDE DEF Y, Def
  <2> QED
    BY <1>1, <1>2, <1>3 DEF RestsOnLess
<1>5. PICK f \in [S -> Y] : \A x \in S : f[x] = Def[x][f]
  <2> HIDE DEF Y, Def
  <2> QED
    BY <1>4, RecursionDefines
<1>6. \A x \in S : f[x] = IF x \in over THEN last[x] ELSE more[x] \cup f[next[x]]
  <2> HIDE DEF Y
  <2> QED
    BY <1>5
<1> HIDE DEF Def, Y
<1>7. f = [x \in S |-> IF x \in over THEN last[x] ELSE more[x] \cup f[next[x]]]
  BY <1>6
<1> QED
  BY <1>7 DEF LoopsTo

(* So it does for Common.                                                   *)
LEMMA CommonDefined ==
    \A a, b \in SUBSET PortRange :
        Common[<< a, b >>] =
            IF a = {} \/ b = {} THEN {}
            ELSE Meeting(First(a), First(b)) \cup Common[Onto(a, b)]
<1> DEFINE S == Lists
           over == { x \in S : x[1] = {} \/ x[2] = {} }
           measure == [x \in S |-> Cardinality(x[1]) + Cardinality(x[2])]
           last == [x \in S |-> {}]
           more == [x \in S |-> Meeting(First(x[1]), First(x[2]))]
           next == [x \in S |-> IF x \in over THEN x ELSE Onto(x[1], x[2])]
           Is(g) == g = [x \in S |-> IF x[1] = {} \/ x[2] = {} THEN {}
                                     ELSE Meeting(First(x[1]), First(x[2])) \cup g[Onto(x[1], x[2])]]
<1>1. measure \in [S -> Nat]
  <2>1. \A x \in S : Cardinality(x[1]) + Cardinality(x[2]) \in Nat
    BY TwoLists, FiniteRanges
  <2> QED
    BY <2>1
<1>2. more \in [S -> SUBSET PortRange]
  <2>1. \A p, q : Meeting(p, q) \in SUBSET PortRange
    BY DEF Meeting
  <2> QED
    BY <2>1
<1>3. \A x \in S \ over : Onto(x[1], x[2]) \in S /\ measure[Onto(x[1], x[2])] < measure[x]
  <2> SUFFICES ASSUME NEW x \in S \ over
               PROVE  Onto(x[1], x[2]) \in S /\ measure[Onto(x[1], x[2])] < measure[x]
    OBVIOUS
  <2>1. x[1] \in SUBSET PortRange /\ x[2] \in SUBSET PortRange /\ x[1] # {} /\ x[2] # {}
    BY TwoLists
  <2> QED
    BY <2>1, OntoMeasures
<1>4. next \in [S -> S]
  BY <1>3
<1>5. \A x \in S \ over : measure[next[x]] < measure[x]
  BY <1>3
<1>6. PICK f : LoopsTo(f, S, over, last, more, next)
  <2>1. last \in [S -> SUBSET PortRange] /\ over \in SUBSET S
    OBVIOUS
  <2> HIDE DEF S, over, measure, last, more, next
  <2>2. IsLoop(S, PortRange, measure, over, last, more, next)
    BY <1>1, <1>2, <1>4, <1>5, <2>1 DEF IsLoop
  <2> QED
    BY <2>2, LoopDefines
<1>7. Is(f)
  <2>1. \A x \in S : f[x] = IF x[1] = {} \/ x[2] = {} THEN {}
                            ELSE Meeting(First(x[1]), First(x[2])) \cup f[Onto(x[1], x[2])]
    <3>1. \A x \in S : f[x] = IF x \in over THEN last[x] ELSE more[x] \cup f[next[x]]
      <4> HIDE DEF S, over, last, more, next
      <4> QED
        BY <1>6 DEF LoopsTo
    <3> HIDE DEF S
    <3> QED
      BY <3>1
  <2>2. f = [x \in S |-> f[x]]
    <3> HIDE DEF S, over, last, more, next
    <3> QED
      BY <1>6 DEF LoopsTo
  <2> HIDE DEF S
  <2> QED
    BY <2>1, <2>2
<1>8. Common = CHOOSE g : Is(g)
  BY DEF Common, Meeting, Onto, Lists
<1> HIDE DEF Is
<1>9. Is(Common)
  BY <1>7, <1>8
<1>10. ASSUME NEW a \in SUBSET PortRange, NEW b \in SUBSET PortRange
       PROVE  Common[<< a, b >>] = IF a = {} \/ b = {} THEN {}
                                   ELSE Meeting(First(a), First(b)) \cup Common[Onto(a, b)]
  <2>1. << a, b >> \in S /\ << a, b >>[1] = a /\ << a, b >>[2] = b
    BY TwoLists
  <2>2. \A x \in S : Common[x] = IF x[1] = {} \/ x[2] = {} THEN {}
                            ELSE Meeting(First(x[1]), First(x[2])) \cup Common[Onto(x[1], x[2])]
    <3> HIDE DEF S
    <3> QED
      BY <1>9 DEF Is
  <2> HIDE DEF S
  <2> QED
    BY <2>1, <2>2
<1> QED
  BY <1>10

LEMMA PortsMember ==
    \A s, p : p \in PortsIn(s) <=> p \in Port /\ \E r \in s : r.lo <= p /\ p <= r.hi
BY DEF PortsIn

(* The ports in both of two ranges.                                         *)
LEMMA MeetingPorts ==
    ASSUME NEW p \in PortRange, NEW q \in PortRange
    PROVE  /\ Meeting(p, q) \in SUBSET PortRange
           /\ \A x : x \in PortsIn(Meeting(p, q)) <=> x \in PortsIn({p}) /\ x \in PortsIn({q})
<1> DEFINE lo == IF p.lo >= q.lo THEN p.lo ELSE q.lo
           hi == IF p.hi <= q.hi THEN p.hi ELSE q.hi
           m  == [lo |-> lo, hi |-> hi]
<1>1. /\ p.lo \in Nat /\ p.hi \in Nat /\ p.lo <= p.hi /\ p.hi <= MaxPort
      /\ q.lo \in Nat /\ q.hi \in Nat /\ q.lo <= q.hi /\ q.hi <= MaxPort
  BY Ranges
<1>2. Meeting(p, q) = {m} \cap PortRange
  <2>1. Max({p.lo, q.lo}) = lo
    BY <1>1, MaxOfTwo
  <2>2. Min({p.hi, q.hi}) = hi
    <3> DEFINE x == p.hi
               y == q.hi
    <3>1. x \in Int /\ y \in Int
      BY <1>1
    <3> HIDE DEF x, y
    <3>2. Min({x, y}) = IF x <= y THEN x ELSE y
      BY <3>1, MaxOfTwo
    <3> QED
      BY <3>2 DEF x, y
  <2> HIDE DEF lo, hi
  <2> QED
    BY <2>1, <2>2 DEF Meeting
<1>3. m \in PortRange <=> lo <= hi
  BY <1>1, Ranges
<1>4. ASSUME NEW x \in Port
      PROVE  x \in PortsIn(Meeting(p, q)) <=> x \in PortsIn({p}) /\ x \in PortsIn({q})
  <2>1. x \in Nat
    BY MaxPortIsNumber, <1>4 DEF Port
  <2>2. x \in PortsIn({p}) <=> p.lo <= x /\ x <= p.hi
    BY DEF PortsIn
  <2>3. x \in PortsIn({q}) <=> q.lo <= x /\ x <= q.hi
    BY DEF PortsIn
  <2>4. x \in PortsIn(Meeting(p, q)) <=> m \in PortRange /\ lo <= x /\ x <= hi
    BY <1>2 DEF PortsIn
  <2> QED
    BY <1>1, <1>3, <2>1, <2>2, <2>3, <2>4
<1>5. \A s, x : x \in PortsIn(s) => x \in Port
  BY DEF PortsIn
<1> QED
  BY <1>4, <1>5 DEF Meeting

(* In a list of separate ranges the first has all ports up to its end.      *)
LEMMA HeadHolds ==
    ASSUME NEW s \in PortSet, s # {}, NEW x \in PortsIn(s), x <= First(s).hi
    PROVE  x \in PortsIn({First(s)})
<1>1. s \in SUBSET PortRange /\ Apart(s) /\ x \in Port
  BY SetsOfPorts DEF PortsIn
<1>2. First(s) \in s /\ \A q \in s : RangeBefore(First(s), q)
  BY <1>1, FirstRange
<1>3. PICK r \in s : r.lo <= x /\ x <= r.hi
  BY DEF PortsIn
<1>4. /\ r.lo \in Nat /\ r.hi \in Nat /\ r.lo <= r.hi
      /\ First(s).lo \in Nat /\ First(s).hi \in Nat /\ First(s).lo <= First(s).hi
      /\ x \in Nat
  BY <1>1, <1>2, Ranges, MaxPortIsNumber DEF Port
<1>5. RangeBefore(First(s), r)
  BY <1>2
<1>6. First(s) = r \/ First(s).hi + 1 < r.lo \/ r.hi + 1 < First(s).lo
  BY <1>1, <1>2 DEF Apart
<1>7. r = First(s)
  BY <1>3, <1>4, <1>5, <1>6 DEF RangeBefore
<1> QED
  BY <1>1, <1>3, <1>7, PortsMember

(* Fewer ranges are still separate.                                         *)
LEMMA FewerApart ==
    ASSUME NEW s \in PortSet, NEW t \in SUBSET s
    PROVE  t \in PortSet
BY SetsOfPorts DEF Apart

(* What two lists of ranges have in common.                                 *)
IsCommon(a, b) ==
    /\ Common[<< a, b >>] \in SUBSET PortRange
    /\ \A x : x \in PortsIn(Common[<< a, b >>]) <=> x \in PortsIn(a) /\ x \in PortsIn(b)

(* The ports of one range and of the others.                                *)
LEMMA PortsSplit ==
    ASSUME NEW s, NEW r \in s
    PROVE  \A x : x \in PortsIn(s) <=> x \in PortsIn({r}) \/ x \in PortsIn(s \ {r})
BY DEF PortsIn

(* The head that ends first has met all it can: what it has in common with  *)
(* the other list is what it has in common with that list's head.           *)
LEMMA CommonStep ==
    ASSUME NEW a \in PortSet, NEW b \in PortSet, a # {}, b # {},
           IsCommon(Onto(a, b)[1], Onto(a, b)[2])
    PROVE  IsCommon(a, b)
<1> DEFINE p == First(a)
           q == First(b)
           m == Meeting(p, q)
<1>1. a \in SUBSET PortRange /\ b \in SUBSET PortRange
  BY SetsOfPorts
<1>2. p \in a /\ q \in b /\ p \in PortRange /\ q \in PortRange
  BY <1>1, FirstRange
<1>3. /\ m \in SUBSET PortRange
      /\ \A x : x \in PortsIn(m) <=> x \in PortsIn({p}) /\ x \in PortsIn({q})
  BY <1>2, MeetingPorts
<1>4. Common[<< a, b >>] = m \cup Common[Onto(a, b)]
  BY <1>1, CommonDefined
<1>5. p.hi \in Nat /\ q.hi \in Nat
  BY <1>2, Ranges
<1>6. \A x : /\ x \in PortsIn({p}) => x \in Nat /\ x <= p.hi
             /\ x \in PortsIn({q}) => x \in Nat /\ x <= q.hi
  BY MaxPortIsNumber DEF PortsIn, Port
<1>7. /\ \A x : x \in PortsIn(a) <=> x \in PortsIn({p}) \/ x \in PortsIn(a \ {p})
      /\ \A x : x \in PortsIn(b) <=> x \in PortsIn({q}) \/ x \in PortsIn(b \ {q})
  BY <1>2, PortsSplit
<1>8. /\ \A x \in PortsIn(a) : x <= p.hi => x \in PortsIn({p})
      /\ \A x \in PortsIn(b) : x <= q.hi => x \in PortsIn({q})
  BY HeadHolds
<1>9. \A s, t, x : x \in PortsIn(s \cup t) <=> x \in PortsIn(s) \/ x \in PortsIn(t)
  BY DEF PortsIn
<1>10. CASE p.hi < q.hi
  <2>1. Onto(a, b) = << a \ {p}, b >> /\ Onto(a, b)[1] = a \ {p} /\ Onto(a, b)[2] = b
    BY <1>10 DEF Onto
  <2>2. /\ Common[Onto(a, b)] \in SUBSET PortRange
        /\ \A x : x \in PortsIn(Common[Onto(a, b)]) <=> x \in PortsIn(a \ {p}) /\ x \in PortsIn(b)
    BY <2>1 DEF IsCommon
  <2>3. \A x : x \in PortsIn({p}) /\ x \in PortsIn(b) => x \in PortsIn({q})
    <3> SUFFICES ASSUME NEW x, x \in PortsIn({p}), x \in PortsIn(b)
                 PROVE  x \in PortsIn({q})
      OBVIOUS
    <3>1. x \in Nat /\ x <= p.hi
      BY <1>6
    <3>2. x <= q.hi
      BY <3>1, <1>5, <1>10
    <3> QED
      BY <1>8, <3>2
  <2>4. \A x : x \in PortsIn(a) /\ x \in PortsIn(b) <=>
               x \in PortsIn(m) \/ x \in PortsIn(Common[Onto(a, b)])
    <3> HIDE DEF p, q, m
    <3> QED
      BY <1>3, <1>7, <2>2, <2>3
  <2> HIDE DEF m
  <2> QED
    BY <1>3, <1>4, <1>9, <2>2, <2>4 DEF IsCommon
<1>11. CASE ~(p.hi < q.hi)
  <2>1. Onto(a, b) = << a, b \ {q} >> /\ Onto(a, b)[1] = a /\ Onto(a, b)[2] = b \ {q}
    BY <1>11 DEF Onto
  <2>2. /\ Common[Onto(a, b)] \in SUBSET PortRange
        /\ \A x : x \in PortsIn(Common[Onto(a, b)]) <=> x \in PortsIn(a) /\ x \in PortsIn(b \ {q})
    BY <2>1 DEF IsCommon
  <2>3. \A x : x \in PortsIn(a) /\ x \in PortsIn({q}) => x \in PortsIn({p})
    <3> HIDE DEF p, q
    <3> QED
      BY <1>5, <1>6, <1>8, <1>11
  <2>4. \A x : x \in PortsIn(a) /\ x \in PortsIn(b) <=>
               x \in PortsIn(m) \/ x \in PortsIn(Common[Onto(a, b)])
    <3> HIDE DEF p, q, m
    <3> QED
      BY <1>3, <1>7, <2>2, <2>3
  <2> HIDE DEF m
  <2> QED
    BY <1>3, <1>4, <1>9, <2>2, <2>4 DEF IsCommon
<1> QED
  BY <1>10, <1>11

(* By induction on what is left of the two lists.                           *)
LEMMA CommonExact == \A a, b \in PortSet : IsCommon(a, b)
<1> DEFINE measure == [x \in Lists |-> Cardinality(x[1]) + Cardinality(x[2])]
           T == { x \in Lists : x[1] \in PortSet /\ x[2] \in PortSet => IsCommon(x[1], x[2]) }
<1>1. measure \in [Lists -> Nat]
  <2>1. \A x \in Lists : Cardinality(x[1]) + Cardinality(x[2]) \in Nat
    BY TwoLists, FiniteRanges
  <2> QED
    BY <2>1
<1>2. ASSUME NEW x \in Lists, \A y \in Lists : measure[y] < measure[x] => y \in T,
             x[1] \in PortSet, x[2] \in PortSet
      PROVE  IsCommon(x[1], x[2])
  <2> DEFINE a == x[1]
             b == x[2]
  <2>1. a \in SUBSET PortRange /\ b \in SUBSET PortRange
    BY TwoLists
  <2>2. CASE a = {} \/ b = {}
    <3>1. Common[<< a, b >>] = {}
      BY <2>1, <2>2, CommonDefined
    <3>2. PortsIn({}) = {}
      BY PortsOfUnion
    <3>3. IsCommon(a, b)
      <4> HIDE DEF a, b
      <4> QED
        BY <2>2, <3>1, <3>2 DEF IsCommon
    <3> QED
      BY <3>3
  <2>3. CASE a # {} /\ b # {}
    <3> DEFINE y == Onto(a, b)
    <3>1. y \in Lists /\ measure[y] < measure[x]
      BY <2>1, <2>3, OntoMeasures
    <3>2. y[1] \in PortSet /\ y[2] \in PortSet
      <4>1. y[1] \in SUBSET a /\ y[2] \in SUBSET b
        BY DEF Onto
      <4> HIDE DEF y
      <4> QED
        BY <1>2, <4>1, FewerApart
    <3>3. y \in T
      <4> HIDE DEF y, measure, T
      <4> QED
        BY <1>2, <3>1
    <3>4. IsCommon(y[1], y[2])
      <4> HIDE DEF y
      <4> QED
        BY <3>2, <3>3
    <3>5. IsCommon(a, b)
      <4>1. a \in PortSet /\ b \in PortSet
        BY <1>2
      <4> HIDE DEF a, b
      <4> QED
        BY <2>3, <3>4, <4>1, CommonStep DEF y
    <3> QED
      BY <3>5
  <2> QED
    BY <2>2, <2>3
<1>3. Lists \subseteq T
  <2>1. \A x \in Lists : (\A y \in Lists : measure[y] < measure[x] => y \in T) => x \in T
    <3> SUFFICES ASSUME NEW x \in Lists, \A y \in Lists : measure[y] < measure[x] => y \in T
                 PROVE  x[1] \in PortSet /\ x[2] \in PortSet => IsCommon(x[1], x[2])
      OBVIOUS
    <3> HIDE DEF measure, T
    <3> QED
      BY <1>2
  <2> HIDE DEF T, measure
  <2> QED
    BY <1>1, <2>1, MeasureInduction
<1>4. ASSUME NEW a \in PortSet, NEW b \in PortSet
      PROVE  IsCommon(a, b)
  <2>1. << a, b >> \in T /\ << a, b >>[1] = a /\ << a, b >>[2] = b
    BY <1>3, SetsOfPorts, TwoLists
  <2> QED
    BY <1>4, <2>1
<1> QED
  BY <1>4

(* A range less another is nothing, a range or two.                         *)
LEMMA RangeTakenOut ==
    ASSUME NEW a \in PortRange, NEW b \in PortRange
    PROVE  /\ SubtractRange(a, b) \in SUBSET PortRange
           /\ \A x : x \in PortsIn(SubtractRange(a, b)) <=> x \in PortsIn({a}) /\ x \notin PortsIn({b})
<1> DEFINE below == [lo |-> a.lo, hi |-> b.lo - 1]
           above == [lo |-> b.hi + 1, hi |-> a.hi]
           parts == (IF b.lo > a.lo THEN {below} ELSE {}) \cup (IF b.hi < a.hi THEN {above} ELSE {})
<1>1. /\ a = [lo |-> a.lo, hi |-> a.hi]
      /\ a.lo \in Nat /\ a.hi \in Nat /\ a.lo <= a.hi /\ a.hi <= MaxPort
      /\ b.lo \in Nat /\ b.hi \in Nat /\ b.lo <= b.hi /\ b.hi <= MaxPort
  BY Ranges
<1>2. SubtractRange(a, b) = IF b.hi < a.lo \/ b.lo > a.hi THEN {a} ELSE parts
  <2>1. [a EXCEPT !.hi = b.lo - 1] = below /\ [a EXCEPT !.lo = b.hi + 1] = above
    BY <1>1
  <2> HIDE DEF below, above
  <2> QED
    BY <2>1 DEF SubtractRange
<1>3. ~(b.hi < a.lo \/ b.lo > a.hi) =>
          (b.lo > a.lo => below \in PortRange) /\ (b.hi < a.hi => above \in PortRange)
  BY <1>1, Ranges, MaxPortIsNumber
<1>4. SubtractRange(a, b) \in SUBSET PortRange
  <2> HIDE DEF below, above
  <2> QED
    BY <1>2, <1>3
<1>5. ASSUME NEW x \in Port
      PROVE  x \in PortsIn(SubtractRange(a, b)) <=> x \in PortsIn({a}) /\ x \notin PortsIn({b})
  <2>1. x \in Nat
    BY MaxPortIsNumber, <1>5 DEF Port
  <2>2. x \in PortsIn({a}) <=> a.lo <= x /\ x <= a.hi
    BY DEF PortsIn
  <2>3. x \in PortsIn({b}) <=> b.lo <= x /\ x <= b.hi
    BY DEF PortsIn
  <2>4. CASE b.hi < a.lo \/ b.lo > a.hi
    <3>1. SubtractRange(a, b) = {a}
      BY <1>2, <2>4
    <3>2. x \in PortsIn(SubtractRange(a, b)) <=> a.lo <= x /\ x <= a.hi
      BY <3>1, <2>2
    <3> QED
      BY <3>2, <1>1, <2>1, <2>2, <2>3, <2>4
  <2>5. CASE ~(b.hi < a.lo \/ b.lo > a.hi)
    <3>1. SubtractRange(a, b) = parts
      BY <1>2, <2>5
    <3>2. below.lo = a.lo /\ below.hi = b.lo - 1 /\ above.lo = b.hi + 1 /\ above.hi = a.hi
      OBVIOUS
    <3>3. x \in PortsIn(parts) <=> \/ b.lo > a.lo /\ below.lo <= x /\ x <= below.hi
                                   \/ b.hi < a.hi /\ above.lo <= x /\ x <= above.hi
      <4> HIDE DEF below, above
      <4> QED
        BY DEF PortsIn
    <3> HIDE DEF below, above, parts
    <3> QED
      BY <3>1, <3>2, <3>3, <1>1, <2>1, <2>2, <2>3, <2>5
  <2> QED
    BY <2>4, <2>5
<1>6. \A s, x : x \in PortsIn(s) => x \in Port
  BY DEF PortsIn
<1> QED
  BY <1>4, <1>5, <1>6

(* A list of ranges less one range.                                         *)
TakenFrom(left, r) == UNION { SubtractRange(a, r) : a \in left }

LEMMA ListTakenOut ==
    ASSUME NEW left \in SUBSET PortRange, NEW r \in PortRange
    PROVE  /\ TakenFrom(left, r) \in SUBSET PortRange
           /\ \A x : x \in PortsIn(TakenFrom(left, r)) <=> x \in PortsIn(left) /\ x \notin PortsIn({r})
<1>1. \A q : q \in TakenFrom(left, r) <=> \E a \in left : q \in SubtractRange(a, r)
  BY DEF TakenFrom
<1>2. \A a \in left : SubtractRange(a, r) \in SUBSET PortRange
  BY RangeTakenOut
<1>3. \A a \in left : \A x : x \in PortsIn(SubtractRange(a, r)) <=> x \in PortsIn({a}) /\ x \notin PortsIn({r})
  BY RangeTakenOut
<1>4. \A x : x \in PortsIn(TakenFrom(left, r)) <=> \E a \in left : x \in PortsIn(SubtractRange(a, r))
  <2>1. \A x : x \in PortsIn(TakenFrom(left, r)) <=> x \in Port /\ \E q \in TakenFrom(left, r) : q.lo <= x /\ x <= q.hi
    BY PortsMember
  <2>2. \A a, x : x \in PortsIn(SubtractRange(a, r)) <=> x \in Port /\ \E q \in SubtractRange(a, r) : q.lo <= x /\ x <= q.hi
    BY PortsMember
  <2> QED
    BY <1>1, <2>1, <2>2
<1>5. \A x : x \in PortsIn(left) <=> \E a \in left : x \in PortsIn({a})
  BY DEF PortsIn
<1> QED
  BY <1>1, <1>2, <1>3, <1>4, <1>5

(* The recursion defines TakeOut: the second list gets shorter.             *)
LEMMA TakeOutDefined ==
    \A left, b \in SUBSET PortRange :
        TakeOut[<< left, b >>] =
            IF b = {} THEN left ELSE TakeOut[<< TakenFrom(left, First(b)), b \ {First(b)} >>]
<1> DEFINE S == Lists
           over == { x \in S : x[2] = {} }
           step(x) == << TakenFrom(x[1], First(x[2])), x[2] \ {First(x[2])} >>
           measure == [x \in S |-> Cardinality(x[2])]
           last == [x \in S |-> x[1]]
           more == [x \in S |-> {}]
           next == [x \in S |-> IF x \in over THEN x ELSE step(x)]
           Is(g) == g = [x \in S |-> IF x[2] = {} THEN x[1] ELSE g[step(x)]]
<1>1. measure \in [S -> Nat]
  <2>1. \A x \in S : Cardinality(x[2]) \in Nat
    BY TwoLists, FiniteRanges
  <2> QED
    BY <2>1
<1>2. last \in [S -> SUBSET PortRange] /\ more \in [S -> SUBSET PortRange] /\ over \in SUBSET S
  <2>1. \A x \in S : x[1] \in SUBSET PortRange
    BY TwoLists
  <2> QED
    BY <2>1
<1>3. \A x \in S \ over : step(x) \in S /\ measure[step(x)] < measure[x]
  <2> SUFFICES ASSUME NEW x \in S \ over
               PROVE  step(x) \in S /\ measure[step(x)] < measure[x]
    OBVIOUS
  <2>1. x[1] \in SUBSET PortRange /\ x[2] \in SUBSET PortRange /\ x[2] # {}
    BY TwoLists
  <2>2. First(x[2]) \in x[2] /\ First(x[2]) \in PortRange
    BY <2>1, FirstRange
  <2>3. TakenFrom(x[1], First(x[2])) \in SUBSET PortRange
    BY <2>1, <2>2, ListTakenOut
  <2>4. /\ x[2] \ {First(x[2])} \in SUBSET PortRange
        /\ Cardinality(x[2] \ {First(x[2])}) = Cardinality(x[2]) - 1
    BY <2>1, <2>2, OneLess
  <2>5. Cardinality(x[2]) \in Nat
    BY <2>1, FiniteRanges
  <2>6. step(x) \in S /\ step(x)[2] = x[2] \ {First(x[2])}
    BY <2>3, <2>4, TwoLists
  <2> HIDE DEF step
  <2> QED
    BY <2>4, <2>5, <2>6
<1>4. next \in [S -> S]
  <2> HIDE DEF S, step
  <2> QED
    BY <1>3
<1>5. \A x \in S \ over : measure[next[x]] < measure[x]
  <2> HIDE DEF S, step, measure
  <2> QED
    BY <1>3
<1>6. PICK f : LoopsTo(f, S, over, last, more, next)
  <2> HIDE DEF S, over, measure, last, more, next
  <2>1. IsLoop(S, PortRange, measure, over, last, more, next)
    BY <1>1, <1>2, <1>4, <1>5 DEF IsLoop
  <2> QED
    BY <2>1, LoopDefines
<1>7. Is(f)
  <2>1. \A x \in S : f[x] = IF x \in over THEN last[x] ELSE more[x] \cup f[next[x]]
    <3> HIDE DEF S, over, last, more, next
    <3> QED
      BY <1>6 DEF LoopsTo
  <2>2. f = [x \in S |-> f[x]]
    <3> HIDE DEF S, over, last, more, next
    <3> QED
      BY <1>6 DEF LoopsTo
  <2>3. \A x \in S : f[x] = IF x[2] = {} THEN x[1] ELSE f[step(x)]
    <3> HIDE DEF S, step
    <3> QED
      BY <2>1
  <2> HIDE DEF S, step
  <2> QED
    BY <2>2, <2>3
<1>8. TakeOut = CHOOSE g : Is(g)
  BY DEF TakeOut, TakenFrom, Lists
<1> HIDE DEF Is
<1>9. Is(TakeOut)
  BY <1>7, <1>8
<1>10. \A x \in S : TakeOut[x] = IF x[2] = {} THEN x[1] ELSE TakeOut[step(x)]
  <2> HIDE DEF S, step
  <2> QED
    BY <1>9 DEF Is
<1>11. ASSUME NEW left \in SUBSET PortRange, NEW b \in SUBSET PortRange
       PROVE  TakeOut[<< left, b >>] =
                  IF b = {} THEN left ELSE TakeOut[<< TakenFrom(left, First(b)), b \ {First(b)} >>]
  <2> DEFINE x == << left, b >>
  <2>1. x \in S /\ x[1] = left /\ x[2] = b
    BY TwoLists
  <2>2. TakeOut[x] = IF x[2] = {} THEN x[1] ELSE TakeOut[step(x)]
    <3> HIDE DEF S, step, x
    <3> QED
      BY <2>1, <1>10
  <2> QED
    BY <2>2
<1> QED
  BY <1>11

(* What is left of the ports when others are taken out.                     *)
IsDifference(left, b) ==
    /\ TakeOut[<< left, b >>] \in SUBSET PortRange
    /\ \A x : x \in PortsIn(TakeOut[<< left, b >>]) <=> x \in PortsIn(left) /\ x \notin PortsIn(b)

(* By induction on the second list.                                         *)
LEMMA TakeOutExact == \A left, b \in SUBSET PortRange : IsDifference(left, b)
<1> DEFINE S == SUBSET PortRange
           measure == [b \in S |-> Cardinality(b)]
           T == { b \in S : \A left \in S : IsDifference(left, b) }
<1>1. measure \in [S -> Nat]
  BY FiniteRanges
<1>2. ASSUME NEW b \in S, \A u \in S : Cardinality(u) < Cardinality(b) => u \in T, NEW left \in S
      PROVE  IsDifference(left, b)
  <2>1. CASE b = {}
    <3>1. TakeOut[<< left, b >>] = left
      BY <2>1, TakeOutDefined
    <3>2. PortsIn(b) = {}
      BY <2>1, PortsOfUnion
    <3> QED
      BY <3>1, <3>2 DEF IsDifference
  <2>2. CASE b # {}
    <3> DEFINE r == First(b)
               rest == b \ {r}
               now == TakenFrom(left, r)
    <3>1. r \in b /\ r \in PortRange
      BY <2>2, FirstRange
    <3>2. rest \in S /\ Cardinality(rest) < Cardinality(b)
      <4>1. Cardinality(rest) = Cardinality(b) - 1 /\ Cardinality(b) \in Nat
        BY <3>1, OneLess, FiniteRanges
      <4> QED
        BY <4>1
    <3>3. /\ now \in S
          /\ \A x : x \in PortsIn(now) <=> x \in PortsIn(left) /\ x \notin PortsIn({r})
      BY <3>1, ListTakenOut
    <3>4. IsDifference(now, rest)
      <4>1. rest \in T
        <5> HIDE DEF T, rest
        <5> QED
          BY <1>2, <3>2
      <4> HIDE DEF now, rest
      <4> QED
        BY <4>1, <3>3
    <3>5. TakeOut[<< left, b >>] = TakeOut[<< now, rest >>]
      BY <2>2, TakeOutDefined
    <3>6. \A x : x \in PortsIn(b) <=> x \in PortsIn({r}) \/ x \in PortsIn(rest)
      BY <3>1, PortsSplit
    <3> HIDE DEF r, rest, now
    <3> QED
      BY <3>3, <3>4, <3>5, <3>6 DEF IsDifference
  <2> QED
    BY <2>1, <2>2
<1>3. S \subseteq T
  <2>1. \A b \in S : (\A u \in S : measure[u] < measure[b] => u \in T) => b \in T
    <3> SUFFICES ASSUME NEW b \in S, \A u \in S : measure[u] < measure[b] => u \in T
                 PROVE  \A left \in S : IsDifference(left, b)
      OBVIOUS
    <3>1. \A u \in S : Cardinality(u) < Cardinality(b) => u \in T
      <4> HIDE DEF T
      <4> QED
        OBVIOUS
    <3> HIDE DEF T, measure
    <3> QED
      BY <1>2, <3>1
  <2> HIDE DEF S, T, measure
  <2> QED
    BY <1>1, <2>1, MeasureInduction
<1> QED
  BY <1>3

(* The loops over lists of ports compute what set theory does, whatever     *)
(* the highest port is.                                                     *)
THEOREM PortsExact == PortsAreExact
<1>1. ASSUME NEW s \in PortSet, NEW t \in PortSet
      PROVE  /\ IntersectPorts(s, t) \in PortSet
             /\ PortsIn(IntersectPorts(s, t)) = PortsIn(s) \cap PortsIn(t)
             /\ SubtractPorts(s, t) \in PortSet
             /\ PortsIn(SubtractPorts(s, t)) = PortsIn(s) \ PortsIn(t)
             /\ PortsIn(s) = PortsIn(t) => s = t
  <2>1. s \in SUBSET PortRange /\ t \in SUBSET PortRange
    BY SetsOfPorts
  <2>2. IsCommon(s, t) /\ IsDifference(s, t)
    BY <2>1, CommonExact, TakeOutExact
  <2>3. /\ IntersectPorts(s, t) \in PortSet
        /\ PortsIn(IntersectPorts(s, t)) = PortsIn(Common[<< s, t >>])
    BY <2>2, PortsNormalised DEF IntersectPorts, IsCommon
  <2>4. /\ SubtractPorts(s, t) \in PortSet
        /\ PortsIn(SubtractPorts(s, t)) = PortsIn(TakeOut[<< s, t >>])
    BY <2>2, PortsNormalised DEF SubtractPorts, IsDifference
  <2>5. /\ \A x : x \in PortsIn(Common[<< s, t >>]) <=> x \in PortsIn(s) /\ x \in PortsIn(t)
        /\ \A x : x \in PortsIn(TakeOut[<< s, t >>]) <=> x \in PortsIn(s) /\ x \notin PortsIn(t)
    BY <2>2 DEF IsCommon, IsDifference
  <2>6. PortsIn(s) = PortsIn(t) => s = t
    BY OneFormOfPorts
  <2> QED
    BY <2>3, <2>4, <2>5, <2>6
<1> QED
  BY <1>1, PortsNormalised DEF PortsAreExact

-----------------------------------------------------------------------------
(* The address sets.                                                        *)

LEMMA WidthIsNumber == Width \in Nat /\ Width > 0
BY WidthAssumption

(* The recursion defines SizeOf.                                            *)
LEMMA SizeDefined ==
    \A bits \in 0 .. Width : SizeOf[bits] = IF bits = Width THEN 1 ELSE 2 * SizeOf[bits + 1]
<1> DEFINE S == 0 .. Width
           measure == [b \in S |-> Width - b]
           Def == [b \in S |-> [f \in [S -> Nat] |-> IF b = Width THEN 1 ELSE 2 * f[b + 1]]]
           Is(g) == g = [b \in S |-> IF b = Width THEN 1 ELSE 2 * g[b + 1]]
<1> USE WidthIsNumber
<1>1. measure \in [S -> Nat]
  OBVIOUS
<1>2. \A b \in S : b # Width => b + 1 \in S /\ measure[b + 1] < measure[b]
  OBVIOUS
<1>3. Def \in [S -> [[S -> Nat] -> Nat]]
  <2>1. \A b \in S, f \in [S -> Nat] : (IF b = Width THEN 1 ELSE 2 * f[b + 1]) \in Nat
    <3> SUFFICES ASSUME NEW b \in S, NEW f \in [S -> Nat]
                 PROVE  (IF b = Width THEN 1 ELSE 2 * f[b + 1]) \in Nat
      OBVIOUS
    <3>1. b # Width => f[b + 1] \in Nat
      BY <1>2
    <3> HIDE DEF S
    <3> QED
      BY <3>1
  <2> HIDE DEF S
  <2> QED
    BY <2>1
<1>4. [S -> Nat] # {}
  <2>1. [b \in S |-> 0] \in [S -> Nat]
    OBVIOUS
  <2> QED
    BY <2>1
<1>5. \A b \in S : \A f, g \in [S -> Nat] :
          (\A y \in S : measure[y] < measure[b] => f[y] = g[y]) => Def[b][f] = Def[b][g]
  <2> SUFFICES ASSUME NEW b \in S, NEW f \in [S -> Nat], NEW g \in [S -> Nat],
                      \A y \in S : measure[y] < measure[b] => f[y] = g[y]
               PROVE  Def[b][f] = Def[b][g]
    OBVIOUS
  <2>1. b # Width => f[b + 1] = g[b + 1]
    <3> HIDE DEF S, measure
    <3> QED
      BY <1>2
  <2> HIDE DEF S, measure
  <2> QED
    BY <2>1
<1>6. PICK f \in [S -> Nat] : \A b \in S : f[b] = Def[b][f]
  <2> HIDE DEF S, measure, Def
  <2>1. RestsOnLess(S, Nat, measure, Def)
    BY <1>1, <1>3, <1>4, <1>5 DEF RestsOnLess
  <2> QED
    BY <2>1, RecursionDefines
<1>7. Is(f)
  <2>1. \A b \in S : f[b] = IF b = Width THEN 1 ELSE 2 * f[b + 1]
    <3> HIDE DEF S
    <3> QED
      BY <1>6
  <2> HIDE DEF S, Def
  <2> QED
    BY <2>1, <1>6
<1>8. SizeOf = CHOOSE g : Is(g)
  BY DEF SizeOf
<1> HIDE DEF Is
<1>9. Is(SizeOf)
  BY <1>7, <1>8
<1> HIDE DEF S
<1>10. \A b \in S : SizeOf[b] = IF b = Width THEN 1 ELSE 2 * SizeOf[b + 1]
  BY <1>9 DEF Is
<1> QED
  BY <1>10 DEF S

(* Downwards through the lengths of prefixes.                               *)
LEMMA BitsInduction ==
    ASSUME NEW T, Width \in T, \A bits \in 0 .. Width : bits # Width /\ bits + 1 \in T => bits \in T
    PROVE  0 .. Width \subseteq T
<1> DEFINE S == 0 .. Width
           measure == [b \in S |-> Width - b]
<1> USE WidthIsNumber
<1>1. measure \in [S -> Nat]
  OBVIOUS
<1>2. \A b \in S : (\A y \in S : measure[y] < measure[b] => y \in T) => b \in T
  <2> SUFFICES ASSUME NEW b \in S, \A y \in S : measure[y] < measure[b] => y \in T, b # Width
               PROVE  b \in T
    OBVIOUS
  <2>1. b + 1 \in S /\ measure[b + 1] < measure[b]
    OBVIOUS
  <2>2. b + 1 \in T
    <3> HIDE DEF S, measure
    <3> QED
      BY <2>1
  <2> QED
    BY <2>2
<1> HIDE DEF measure, S
<1>3. S \subseteq T
  BY <1>1, <1>2, MeasureInduction
<1> QED
  BY <1>3 DEF S

(* Multiples of a size.                                                     *)
Multiple(x, m) == x \in Nat /\ \E k \in Nat : x = k * m

(* From one multiple to a greater one it is a whole size at least.          *)
LEMMA MultipleSteps ==
    ASSUME NEW m \in Nat, NEW x, NEW y, Multiple(x, m), Multiple(y, m), x < y
    PROVE  x + m <= y
<1>1. PICK i \in Nat : x = i * m
  BY DEF Multiple
<1>2. PICK j \in Nat : y = j * m
  BY DEF Multiple
<1>3. ~(j <= i)
  <2> SUFFICES ASSUME j <= i
               PROVE  FALSE
    OBVIOUS
  <2>1. PICK d \in Nat : i = j + d
    <3>1. i - j \in Nat /\ i = j + (i - j)
      OBVIOUS
    <3> QED
      BY <3>1
  <2>2. (j + d) * m = j * m + d * m
    OBVIOUS
  <2>3. d * m \in Nat /\ j * m \in Nat
    OBVIOUS
  <2> QED
    BY <1>1, <1>2, <2>1, <2>2, <2>3
<1>4. PICK d \in Nat : j = i + 1 + d
  <2>1. j - (i + 1) \in Nat /\ j = i + 1 + (j - (i + 1))
    BY <1>3
  <2> QED
    BY <2>1
<1>5. (i + 1 + d) * m = i * m + m + d * m
  <2>1. \A a, b, c \in Nat : (a + 1 + b) * c = a * c + c + b * c
    OBVIOUS
  <2> QED
    BY <2>1
<1>6. d * m \in Nat /\ i * m \in Nat
  OBVIOUS
<1> QED
  BY <1>1, <1>2, <1>4, <1>5, <1>6

LEMMA MultipleOfMultiple ==
    ASSUME NEW m \in Nat, NEW n, NEW x, Multiple(n, m), Multiple(x, n)
    PROVE  Multiple(x, m)
<1>1. PICK i \in Nat : n = i * m
  BY DEF Multiple
<1>2. PICK j \in Nat : x = j * n
  BY DEF Multiple
<1>3. (j * i) * m = j * (i * m) /\ j * i \in Nat
  OBVIOUS
<1>4. x = (j * i) * m
  <2>1. x = j * (i * m)
    BY ONLY <1>1, <1>2, Zenon
  <2> QED
    BY <2>1, <1>3
<1> QED
  BY <1>3, <1>4 DEF Multiple

LEMMA MultiplesAdd ==
    ASSUME NEW m \in Nat, NEW x, NEW y, Multiple(x, m), Multiple(y, m)
    PROVE  Multiple(x + y, m)
<1>1. PICK i \in Nat : x = i * m
  BY DEF Multiple
<1>2. PICK j \in Nat : y = j * m
  BY DEF Multiple
<1>3. (i + j) * m = i * m + j * m /\ i + j \in Nat
  OBVIOUS
<1>4. x + y = (i + j) * m
  <2>1. x + y = i * m + j * m
    BY ONLY <1>1, <1>2, Zenon
  <2> QED
    BY ONLY <2>1, <1>3, Zenon
<1>5. x + y \in Nat
  BY DEF Multiple
<1> QED
  BY ONLY <1>3, <1>4, <1>5, Zenon DEF Multiple

(* What is left when the remainder is taken off.                            *)
LEMMA Truncates ==
    ASSUME NEW m \in Nat, m > 0, NEW x \in Nat
    PROVE  /\ Multiple(x - (x % m), m)
           /\ x - (x % m) <= x /\ x < x - (x % m) + m
           /\ x % m = 0 <=> Multiple(x, m)
<1>1. x = m * (x \div m) + (x % m) /\ x % m \in 0 .. m - 1 /\ x \div m \in Nat
  OBVIOUS
<1>2. x - (x % m) = (x \div m) * m
  BY <1>1
<1>3. (x \div m) * m \in Nat
  BY <1>1
<1>4. Multiple(x - (x % m), m)
  BY <1>1, <1>2, <1>3 DEF Multiple
<1>5. ASSUME Multiple(x, m)
      PROVE  x % m = 0
  <2> SUFFICES ASSUME x % m # 0
               PROVE  FALSE
    OBVIOUS
  <2>1. x - (x % m) < x
    BY <1>1
  <2>2. x - (x % m) + m <= x
    BY <1>4, <1>5, <2>1, MultipleSteps
  <2> QED
    BY <1>1, <2>2
<1> QED
  BY <1>1, <1>4, <1>5

(* The size of a prefix is a number, and halves with each bit.              *)
LEMMA Sizes ==
    /\ SizeOf[Width] = 1
    /\ \A b \in 0 .. Width : SizeOf[b] \in Nat /\ SizeOf[b] > 0
    /\ \A b \in 0 .. Width : b # Width => b + 1 \in 0 .. Width /\ SizeOf[b] = 2 * SizeOf[b + 1]
<1>1. SizeOf[Width] = 1 /\ \A b \in 0 .. Width : b # Width => b + 1 \in 0 .. Width /\ SizeOf[b] = 2 * SizeOf[b + 1]
  BY WidthIsNumber, SizeDefined
<1> DEFINE T == { b \in 0 .. Width : SizeOf[b] \in Nat /\ SizeOf[b] > 0 }
<1>2. Width \in T
  BY <1>1, WidthIsNumber
<1>3. \A b \in 0 .. Width : b # Width /\ b + 1 \in T => b \in T
  <2> SUFFICES ASSUME NEW b \in 0 .. Width, b # Width, b + 1 \in T
               PROVE  SizeOf[b] \in Nat /\ SizeOf[b] > 0
    OBVIOUS
  <2>1. SizeOf[b + 1] \in Nat /\ SizeOf[b + 1] > 0 /\ SizeOf[b] = 2 * SizeOf[b + 1]
    BY <1>1
  <2> QED
    BY <2>1
<1>4. 0 .. Width \subseteq T
  <2> HIDE DEF T
  <2> QED
    BY <1>2, <1>3, BitsInduction
<1> QED
  BY <1>1, <1>4

(* So the size of a longer prefix divides that of a shorter one.            *)
LEMMA SizesDivide ==
    \A b, c \in 0 .. Width : b <= c => Multiple(SizeOf[b], SizeOf[c])
<1> SUFFICES ASSUME NEW c \in 0 .. Width
             PROVE  \A b \in 0 .. Width : b <= c => Multiple(SizeOf[b], SizeOf[c])
  OBVIOUS
<1> DEFINE m == SizeOf[c]
           T == { b \in 0 .. Width : b <= c => Multiple(SizeOf[b], m) }
<1>1. m \in Nat /\ m > 0
  BY Sizes
<1>2. Multiple(m, m)
  <2>1. m = 1 * m
    BY <1>1
  <2> QED
    BY <1>1, <2>1 DEF Multiple
<1>3. Width \in T
  BY <1>2, WidthIsNumber
<1>4. \A b \in 0 .. Width : b # Width /\ b + 1 \in T => b \in T
  <2> SUFFICES ASSUME NEW b \in 0 .. Width, b # Width, b + 1 \in T, b <= c
               PROVE  Multiple(SizeOf[b], m)
    OBVIOUS
  <2>1. CASE b = c
    BY <1>2, <2>1
  <2>2. CASE b # c
    <3>1. b + 1 <= c
      BY <2>2, WidthIsNumber
    <3>2. Multiple(SizeOf[b + 1], m)
      BY <3>1
    <3>3. SizeOf[b] = SizeOf[b + 1] + SizeOf[b + 1]
      <4>1. SizeOf[b] = 2 * SizeOf[b + 1] /\ SizeOf[b + 1] \in Nat
        BY Sizes
      <4> QED
        BY <4>1
    <3> HIDE DEF m
    <3> QED
      BY <1>1, <3>2, <3>3, MultiplesAdd
  <2> QED
    BY <2>1, <2>2
<1>5. 0 .. Width \subseteq T
  <2> HIDE DEF T
  <2> QED
    BY <1>3, <1>4, BitsInduction
<1> QED
  BY <1>5

(* A prefix, field by field: its address is a multiple of its size.         *)
LEMMA Prefixes ==
    ASSUME NEW p
    PROVE  p \in Prefix <=>
               /\ p = [addr |-> p.addr, bits |-> p.bits]
               /\ p.bits \in 0 .. Width
               /\ p.addr \in Nat /\ p.addr < SizeOf[0]
               /\ Multiple(p.addr, SizeOf[p.bits])
<1>1. SizeOf[0] \in Nat /\ SizeOf[0] > 0
  BY Sizes, WidthIsNumber
<1>2. p \in Written <=>
          /\ p = [addr |-> p.addr, bits |-> p.bits]
          /\ p.bits \in 0 .. Width /\ p.addr \in Nat /\ p.addr < SizeOf[0]
  BY <1>1 DEF Written, Address
<1>3. ASSUME p \in Written
      PROVE  p = Masked(p) <=> Multiple(p.addr, SizeOf[p.bits])
  <2> DEFINE m == SizeOf[p.bits]
             x == p.addr
  <2>1. m \in Nat /\ m > 0 /\ x \in Nat
    BY <1>2, <1>3, Sizes
  <2>2. Masked(p) = [addr |-> x - (x % m), bits |-> p.bits]
    BY <1>2, <1>3 DEF Masked
  <2> HIDE DEF m, x
  <2>3. x % m = 0 <=> Multiple(x, m)
    BY <2>1, Truncates
  <2>4. x = x - (x % m) <=> x % m = 0
    BY <2>1
  <2>5. p = [addr |-> x, bits |-> p.bits]
    BY <1>2, <1>3 DEF x
  <2>6. p = Masked(p) <=> x = x - (x % m)
    BY <2>2, <2>5
  <2> QED
    BY <2>3, <2>4, <2>6 DEF m, x
<1> QED
  BY <1>2, <1>3 DEF Prefix

(* Masking gives the prefix the address is in.                              *)
LEMMA MaskedIsPrefix ==
    ASSUME NEW w \in Written
    PROVE  /\ Masked(w) \in Prefix /\ Masked(w).bits = w.bits
           /\ Contains(Masked(w), w.addr)
           /\ Masked(w).addr <= w.addr
<1> DEFINE m == SizeOf[w.bits]
           x == w.addr
           y == x - (x % m)
<1>1. m \in Nat /\ m > 0 /\ x \in Nat /\ w.bits \in 0 .. Width /\ x < SizeOf[0]
  BY Sizes, WidthIsNumber DEF Written, Address
<1>2. Masked(w) = [addr |-> y, bits |-> w.bits]
  BY DEF Masked, Written
<1>3. Multiple(y, m) /\ y <= x /\ x < y + m /\ y \in Nat
  <2> HIDE DEF m, x
  <2>1. Multiple(x - (x % m), m) /\ x - (x % m) <= x /\ x < x - (x % m) + m
    BY <1>1, Truncates
  <2> QED
    BY <2>1 DEF Multiple
<1>4. SizeOf[0] \in Nat
  BY Sizes, WidthIsNumber
<1>5. Masked(w).addr = y /\ Masked(w).bits = w.bits
  BY <1>2
<1>6. y < SizeOf[0]
  <2> HIDE DEF y, x
  <2> QED
    BY <1>1, <1>3, <1>4
<1> HIDE DEF y, x
<1>7. Masked(w) \in Prefix
  BY <1>1, <1>2, <1>3, <1>5, <1>6, Prefixes DEF m
<1> QED
  BY <1>3, <1>5, <1>7 DEF Contains, m, x

LEMMA MaskedStays == \A p \in Prefix : Masked(p) = p
BY DEF Prefix

(* A prefix ends where the addresses do, or before.                         *)
LEMMA PrefixFits ==
    ASSUME NEW p \in Prefix
    PROVE  /\ p.addr \in Nat /\ p.bits \in 0 .. Width
           /\ SizeOf[p.bits] \in Nat /\ SizeOf[p.bits] > 0
           /\ p.addr + SizeOf[p.bits] <= SizeOf[0]
           /\ Contains(p, p.addr)
<1> DEFINE m == SizeOf[p.bits]
           top == SizeOf[0]
           x == p.addr
<1>1. /\ p.bits \in 0 .. Width /\ x \in Nat /\ x < top /\ Multiple(x, m)
      /\ m \in Nat /\ m > 0 /\ top \in Nat /\ 0 \in 0 .. Width /\ 0 <= p.bits
  BY Prefixes, Sizes, WidthIsNumber
<1>2. Multiple(top, m)
  BY <1>1, SizesDivide
<1>3. x + m <= top
  <2> HIDE DEF m, top, x
  <2> QED
    BY <1>1, <1>2, MultipleSteps
<1>4. Contains(p, p.addr)
  <2> HIDE DEF m
  <2>1. x < x + m
    BY <1>1
  <2> QED
    BY <1>1, <2>1 DEF Contains, m
<1> QED
  BY <1>1, <1>3, <1>4

(* Two prefixes with an address in common nest.                             *)
LEMMA Nest ==
    ASSUME NEW p \in Prefix, NEW q \in Prefix, p.bits <= q.bits
    PROVE  /\ \A a \in Nat : Contains(p, a) /\ Contains(q, a) => Covers(p, q)
           /\ Covers(p, q) => \A a \in Nat : Contains(q, a) => Contains(p, a)
<1> DEFINE m == SizeOf[p.bits]
           n == SizeOf[q.bits]
           x == p.addr
           y == q.addr
<1>1. /\ m \in Nat /\ m > 0 /\ n \in Nat /\ n > 0 /\ x \in Nat /\ y \in Nat
      /\ p.bits \in 0 .. Width /\ q.bits \in 0 .. Width
  BY PrefixFits
<1>2. Multiple(m, n) /\ Multiple(x, m) /\ Multiple(y, n)
  BY <1>1, SizesDivide, Prefixes
<1>3. Multiple(x, n) /\ Multiple(x + m, n)
  <2> HIDE DEF m, n, x, y
  <2> QED
    BY <1>1, <1>2, MultipleOfMultiple, MultiplesAdd
<1>4. (y < x => y + n <= x) /\ (y < x + m => y + n <= x + m)
  <2> HIDE DEF m, n, x, y
  <2> QED
    BY <1>1, <1>2, <1>3, MultipleSteps
<1>5. /\ \A a : Contains(p, a) <=> x <= a /\ a < x + m
      /\ \A a : Contains(q, a) <=> y <= a /\ a < y + n
      /\ Covers(p, q) <=> x <= y /\ y < x + m
  BY DEF Contains, Covers
<1> HIDE DEF m, n, x, y
<1> QED
  BY <1>1, <1>4, <1>5

LEMMA CoversItself == \A p \in Prefix : Covers(p, p)
BY PrefixFits DEF Covers

(* Covering is an order: it is transitive and antisymmetric.                *)
LEMMA CoversTransitive ==
    ASSUME NEW p \in Prefix, NEW q \in Prefix, NEW r \in Prefix, Covers(p, q), Covers(q, r)
    PROVE  Covers(p, r)
<1>1. p.bits <= q.bits /\ q.bits <= r.bits /\ p.bits <= r.bits
  BY PrefixFits DEF Covers
<1>2. Contains(q, r.addr) /\ r.addr \in Nat
  BY PrefixFits DEF Covers
<1>3. Contains(p, r.addr)
  BY <1>1, <1>2, Nest
<1> QED
  BY <1>1, <1>3 DEF Covers

(* Of two prefixes of one length neither covers the other.                  *)
LEMMA SameBits ==
    ASSUME NEW p \in Prefix, NEW q \in Prefix, p.bits = q.bits, Covers(p, q)
    PROVE  p = q
<1>1. Covers(q, p)
  <2>1. Contains(p, q.addr) /\ Contains(q, q.addr) /\ q.addr \in Nat
    BY PrefixFits DEF Covers
  <2>2. q.bits <= p.bits
    BY PrefixFits
  <2> QED
    BY <2>1, <2>2, Nest
<1>2. p.addr = q.addr
  BY <1>1, PrefixFits DEF Covers, Contains
<1> QED
  BY <1>2, Prefixes

LEMMA CoversAntisymmetric ==
    ASSUME NEW p \in Prefix, NEW q \in Prefix, Covers(p, q), Covers(q, p)
    PROVE  p = q
<1>1. p.bits = q.bits
  BY PrefixFits DEF Covers
<1> QED
  BY <1>1, SameBits

(* Two prefixes overlap if an address is in both.                           *)
LEMMA OverlapMeans ==
    ASSUME NEW p \in Prefix, NEW q \in Prefix
    PROVE  Overlaps(p, q) <=> \E a \in Nat : Contains(p, a) /\ Contains(q, a)
<1>1. ASSUME Covers(p, q)
      PROVE  \E a \in Nat : Contains(p, a) /\ Contains(q, a)
  BY <1>1, PrefixFits DEF Covers
<1>2. ASSUME Covers(q, p)
      PROVE  \E a \in Nat : Contains(p, a) /\ Contains(q, a)
  BY <1>2, PrefixFits DEF Covers
<1>3. ASSUME NEW a \in Nat, Contains(p, a), Contains(q, a)
      PROVE  Covers(p, q) \/ Covers(q, p)
  <2>1. p.bits <= q.bits \/ q.bits <= p.bits
    BY PrefixFits
  <2> QED
    BY <1>3, <2>1, Nest
<1> QED
  BY <1>1, <1>2, <1>3 DEF Overlaps

(* The addresses of a set of prefixes.                                      *)
LEMMA AddressesMember ==
    ASSUME NEW s \in SUBSET Prefix, NEW a
    PROVE  a \in AddressesIn(s) <=> a \in Nat /\ \E p \in s : Contains(p, a)
<1>1. \A p \in s : Masked(p) = p
  BY MaskedStays
<1>2. \A p \in s : Contains(p, a) /\ a \in Nat => a < SizeOf[0]
  <2> SUFFICES ASSUME NEW p \in s, Contains(p, a), a \in Nat
               PROVE  a < SizeOf[0]
    OBVIOUS
  <2>1. p.addr + SizeOf[p.bits] <= SizeOf[0] /\ p.addr \in Nat /\ SizeOf[p.bits] \in Nat
    BY PrefixFits
  <2>2. a < p.addr + SizeOf[p.bits] /\ SizeOf[0] \in Nat
    BY Sizes, WidthIsNumber DEF Contains
  <2> QED
    BY <2>1, <2>2
<1>3. a \in Address <=> a \in Nat /\ a < SizeOf[0]
  BY Sizes, WidthIsNumber DEF Address
<1>4. a \in AddressesIn(s) <=> a \in Address /\ \E p \in s : Contains(Masked(p), a)
  BY DEF AddressesIn
<1> QED
  BY <1>1, <1>2, <1>3, <1>4

(* Halves and parents.                                                      *)
LEMMA HalvesAre ==
    ASSUME NEW p \in Prefix, p.bits # Width
    PROVE  \E left, right \in Prefix :
               /\ Halves(p) = {left, right} /\ left # right
               /\ left.bits = p.bits + 1 /\ right.bits = p.bits + 1
               /\ left.addr = p.addr /\ right.addr = p.addr + SizeOf[p.bits + 1]
               /\ \A a \in Nat : Contains(p, a) <=> Contains(left, a) \/ Contains(right, a)
               /\ Covers(p, left) /\ Covers(p, right)
<1> DEFINE x == p.addr
           c == p.bits + 1
           m == SizeOf[c]
           left  == [addr |-> x, bits |-> c]
           right == [addr |-> x + m, bits |-> c]
<1>1. /\ x \in Nat /\ c \in 0 .. Width /\ p.bits \in 0 .. Width
      /\ m \in Nat /\ m > 0 /\ SizeOf[p.bits] = m + m /\ x + (m + m) <= SizeOf[0]
      /\ SizeOf[0] \in Nat
  <2>1. p.bits \in 0 .. Width /\ x \in Nat /\ x + SizeOf[p.bits] <= SizeOf[0]
    BY PrefixFits
  <2>2. c \in 0 .. Width /\ SizeOf[p.bits] = 2 * m
    BY <2>1, Sizes
  <2>3. m \in Nat /\ m > 0
    BY <2>2, Sizes
  <2>4. 2 * m = m + m
    BY <2>3
  <2> QED
    BY <2>1, <2>2, <2>3, <2>4, Sizes, WidthIsNumber
<1>2. Multiple(x, m) /\ Multiple(x + m, m)
  <2>1. Multiple(x, SizeOf[p.bits]) /\ Multiple(SizeOf[p.bits], m) /\ Multiple(m, m)
    BY <1>1, Prefixes, SizesDivide
  <2> HIDE DEF x, m
  <2> QED
    BY <1>1, <2>1, MultipleOfMultiple, MultiplesAdd
<1>3. left \in Prefix /\ right \in Prefix
  <2>1. left.addr = x /\ left.bits = c /\ right.addr = x + m /\ right.bits = c
    OBVIOUS
  <2>2. x < SizeOf[0] /\ x + m < SizeOf[0] /\ x + m \in Nat
    <3> HIDE DEF x, m
    <3> QED
      BY <1>1
  <2> HIDE DEF x
  <2> QED
    BY <1>1, <1>2, <2>1, <2>2, Prefixes
<1>4. Halves(p) = {left, right}
  <2>1. [p EXCEPT !.bits = @ + 1] = left
    BY Prefixes
  <2>2. [left EXCEPT !.addr = @ + SizeOf[left.bits]] = right
    OBVIOUS
  <2> HIDE DEF left, right
  <2> QED
    BY <2>1, <2>2 DEF Halves
<1>5. left # right
  <2> HIDE DEF x, m
  <2> QED
    BY <1>1
<1>6. /\ \A a : Contains(left, a) <=> x <= a /\ a < x + m
      /\ \A a : Contains(right, a) <=> x + m <= a /\ a < (x + m) + m
      /\ \A a : Contains(p, a) <=> x <= a /\ a < x + SizeOf[p.bits]
  BY DEF Contains
<1>7. \A a \in Nat : Contains(p, a) <=> Contains(left, a) \/ Contains(right, a)
  <2> HIDE DEF x, m, left, right
  <2> QED
    BY <1>1, <1>6
<1>8. Covers(p, left) /\ Covers(p, right)
  <2>1. p.bits <= left.bits /\ p.bits <= right.bits
    BY <1>1
  <2>2. Contains(left, left.addr) /\ left.addr \in Nat /\ Contains(right, right.addr) /\ right.addr \in Nat
    BY <1>3, PrefixFits
  <2> HIDE DEF left, right
  <2> QED
    BY <1>7, <2>1, <2>2 DEF Covers
<1>9. left.bits = c /\ right.bits = c /\ left.addr = x /\ right.addr = x + m
  OBVIOUS
<1> HIDE DEF left, right
<1> QED
  BY <1>3, <1>4, <1>5, <1>7, <1>8, <1>9

(* A prefix is one of the halves of its parent.                             *)
LEMMA ParentIs ==
    ASSUME NEW p \in Prefix, p.bits # 0
    PROVE  /\ ParentOf(p) \in Prefix /\ ParentOf(p).bits = p.bits - 1
           /\ Covers(ParentOf(p), p)
           /\ p \in Halves(ParentOf(p))
<1> DEFINE w == [addr |-> p.addr, bits |-> p.bits - 1]
           q == ParentOf(p)
<1>1. p.bits \in 0 .. Width /\ p.addr \in Address
  BY PrefixFits DEF Prefix, Written
<1>2. w \in Written
  BY <1>1, WidthIsNumber DEF Written
<1>3. q = Masked(w)
  BY Prefixes DEF ParentOf
<1>4. q \in Prefix /\ q.bits = p.bits - 1 /\ Contains(q, p.addr)
  <2>1. Masked(w) \in Prefix /\ Masked(w).bits = w.bits /\ Contains(Masked(w), w.addr)
    <3> HIDE DEF w
    <3> QED
      BY <1>2, MaskedIsPrefix
  <2> HIDE DEF q
  <2> QED
    BY <1>3, <2>1
<1>5. Covers(q, p)
  BY <1>1, <1>4, WidthIsNumber DEF Covers
<1>6. p \in Halves(q)
  <2>1. q.bits # Width
    BY <1>1, <1>4, WidthIsNumber
  <2> HIDE DEF q
  <2>2. PICK left \in Prefix, right \in Prefix :
             /\ Halves(q) = {left, right}
             /\ left.bits = q.bits + 1 /\ right.bits = q.bits + 1
             /\ \A a \in Nat : Contains(q, a) <=> Contains(left, a) \/ Contains(right, a)
    BY <1>4, <2>1, HalvesAre
  <2>3. Contains(left, p.addr) \/ Contains(right, p.addr)
    BY <1>4, <2>2, PrefixFits
  <2>4. left.bits = p.bits /\ right.bits = p.bits
    BY <1>1, <1>4, <2>2, WidthIsNumber
  <2>5. Covers(left, p) \/ Covers(right, p)
    BY <1>1, <2>3, <2>4, WidthIsNumber DEF Covers
  <2>6. left = p \/ right = p
    BY <2>4, <2>5, SameBits
  <2> QED
    BY <2>2, <2>6
<1> QED
  BY <1>4, <1>5, <1>6

(* There are finitely many prefixes.                                        *)
LEMMA FinitePrefixes ==
    /\ IsFiniteSet(Prefix)
    /\ \A s \in SUBSET Prefix : IsFiniteSet(s) /\ Cardinality(s) \in Nat
<1> DEFINE W == 0 .. Width
           P == Address \X W
           R == [addr : Address, bits : W]
           f == [p \in P |-> [addr |-> p[1], bits |-> p[2]]]
<1>1. IsFiniteSet(Address) /\ IsFiniteSet(W)
  <2>1. SizeOf[0] - 1 \in Int /\ Width \in Int
    BY Sizes, WidthIsNumber
  <2> QED
    BY <2>1, FS_Interval DEF Address
<1>2. IsFiniteSet(P)
  <2> HIDE DEF W
  <2> QED
    BY <1>1, FS_Product
<1>3. f \in Surjection(P, R)
  <2> HIDE DEF W
  <2>1. f \in [P -> R]
    OBVIOUS
  <2>2. ASSUME NEW r \in R
        PROVE  \E p \in P : f[p] = r
    <3>1. << r.addr, r.bits >> \in P
      OBVIOUS
    <3>2. f[<< r.addr, r.bits >>] = r
      OBVIOUS
    <3> QED
      BY <3>1, <3>2
  <2> QED
    BY <2>1, <2>2 DEF Surjection
<1>4. IsFiniteSet(R)
  <2> HIDE DEF P, R, f
  <2> QED
    BY <1>2, <1>3, FS_Surjection
<1>5. IsFiniteSet(Prefix)
  BY <1>4, FS_Subset DEF Prefix, Written
<1> QED
  BY <1>5, FS_Subset, FS_CardinalityType

(* A set none of whose prefixes covers another.                             *)
Antichain(s) == \A p, q \in s : Covers(p, q) => p = q

(* What dropCovered keeps: no prefix that another covers, and one that      *)
(* covers each it drops, the shortest of those that do.                     *)
LEMMA Kept ==
    ASSUME NEW s \in SUBSET Prefix
    PROVE  /\ DropCovered(s) \in SUBSET s /\ Antichain(DropCovered(s))
           /\ \A p \in s : \E q \in DropCovered(s) : Covers(q, p)
<1>1. DropCovered(s) \in SUBSET s /\ Antichain(DropCovered(s))
  BY DEF DropCovered, Antichain
<1>2. ASSUME NEW p \in s
      PROVE  \E q \in DropCovered(s) : Covers(q, p)
  <2> DEFINE N == { q.bits : q \in { q \in s : Covers(q, p) } }
  <2>1. N \in SUBSET Nat /\ N # {}
    <3>1. Covers(p, p)
      BY CoversItself
    <3>2. \A q \in s : q.bits \in Nat
      BY PrefixFits
    <3> QED
      BY <3>1, <3>2
  <2>2. PICK b \in N : \A c \in N : b <= c
    <3> HIDE DEF N
    <3> QED
      BY <2>1, LeastNumber
  <2>3. PICK q \in s : Covers(q, p) /\ q.bits = b
    OBVIOUS
  <2>4. \A r \in s : Covers(r, p) => q.bits <= r.bits
    BY <2>2, <2>3
  <2>5. ASSUME NEW r \in s \ {q}, Covers(r, q)
        PROVE  FALSE
    <3>1. Covers(r, p)
      BY <2>3, <2>5, CoversTransitive
    <3>2. r.bits = q.bits
      <4>1. q.bits <= r.bits /\ r.bits <= q.bits
        BY <2>4, <2>5, <3>1 DEF Covers
      <4> QED
        BY <4>1, PrefixFits
    <3> QED
      BY <2>5, <3>2, SameBits
  <2>6. q \in DropCovered(s)
    BY <2>5 DEF DropCovered
  <2> QED
    BY <2>3, <2>6
<1> QED
  BY <1>1, <1>2

LEMMA KeptAddresses ==
    ASSUME NEW s \in SUBSET Prefix
    PROVE  AddressesIn(DropCovered(s)) = AddressesIn(s)
<1>1. DropCovered(s) \in SUBSET s /\ \A p \in s : \E q \in DropCovered(s) : Covers(q, p)
  BY Kept
<1>2. \A a : a \in AddressesIn(s) <=> a \in Nat /\ \E p \in s : Contains(p, a)
  BY AddressesMember
<1>3. \A a : a \in AddressesIn(DropCovered(s)) <=> a \in Nat /\ \E p \in DropCovered(s) : Contains(p, a)
  BY <1>1, AddressesMember
<1>4. ASSUME NEW a \in Nat, NEW p \in s, Contains(p, a)
      PROVE  \E q \in DropCovered(s) : Contains(q, a)
  <2>1. PICK q \in DropCovered(s) : Covers(q, p)
    BY <1>1
  <2>2. q \in Prefix /\ q.bits <= p.bits
    BY <1>1, <2>1 DEF Covers
  <2>3. Contains(q, a)
    BY <1>4, <2>1, <2>2, Nest
  <2> QED
    BY <2>3
<1> QED
  BY <1>1, <1>2, <1>3, <1>4

(* Two siblings are the halves of their parent.                             *)
LEMMA SiblingsFill ==
    ASSUME NEW p \in Prefix, NEW q \in Prefix, AreSiblings(p, q)
    PROVE  LET r == ParentOf(p)
           IN  /\ r \in Prefix /\ r.bits = p.bits - 1
               /\ Covers(r, p) /\ Covers(r, q) /\ r = ParentOf(q)
               /\ \A a \in Nat : Contains(r, a) <=> Contains(p, a) \/ Contains(q, a)
               /\ p.addr = q.addr + SizeOf[p.bits] \/ q.addr = p.addr + SizeOf[p.bits]
<1> DEFINE r == ParentOf(p)
<1>1. p # q /\ p.bits = q.bits /\ p.bits # 0 /\ r = ParentOf(q)
  BY DEF AreSiblings
<1>2. r \in Prefix /\ r.bits = p.bits - 1 /\ Covers(r, p) /\ p \in Halves(r)
  BY <1>1, ParentIs
<1>3. Covers(r, q) /\ q \in Halves(r)
  BY <1>1, ParentIs
<1>4. r.bits # Width /\ r.bits + 1 = p.bits
  BY <1>2, PrefixFits, WidthIsNumber
<1> HIDE DEF r
<1>5. PICK left \in Prefix, right \in Prefix :
          /\ Halves(r) = {left, right}
          /\ left.addr = r.addr /\ right.addr = r.addr + SizeOf[r.bits + 1]
          /\ \A a \in Nat : Contains(r, a) <=> Contains(left, a) \/ Contains(right, a)
  BY <1>2, <1>4, HalvesAre
<1>6. (p = left /\ q = right) \/ (p = right /\ q = left)
  BY <1>1, <1>2, <1>3, <1>5
<1>7. \A a \in Nat : Contains(r, a) <=> Contains(p, a) \/ Contains(q, a)
  BY <1>5, <1>6
<1>8. p.addr = q.addr + SizeOf[p.bits] \/ q.addr = p.addr + SizeOf[p.bits]
  BY <1>4, <1>5, <1>6
<1> QED
  BY <1>1, <1>2, <1>3, <1>7, <1>8 DEF r

(* In an antichain nothing comes between two siblings.                      *)
LEMMA SiblingsMeet ==
    ASSUME NEW s \in SUBSET Prefix, Antichain(s), NEW p \in s, NEW q \in s, AreSiblings(p, q),
           q.addr = p.addr + SizeOf[p.bits]
    PROVE  Merge(s, p, q)
<1>1. /\ p.addr \in Nat /\ q.addr \in Nat /\ SizeOf[p.bits] \in Nat /\ SizeOf[p.bits] > 0
  BY PrefixFits
<1>2. PrefixBefore(p, q)
  BY <1>1 DEF PrefixBefore
<1>3. ASSUME NEW r \in s, PrefixBefore(p, r), PrefixBefore(r, q)
      PROVE  FALSE
  <2>1. /\ r \in Prefix /\ r.addr \in Nat /\ r.bits \in Nat /\ p.bits \in Nat /\ q.bits \in Nat
        /\ Contains(r, r.addr) /\ Contains(p, p.addr) /\ Contains(q, q.addr)
    BY PrefixFits
  <2>2. p.addr <= r.addr /\ r.addr <= q.addr
    BY <1>1, <1>3, <2>1 DEF PrefixBefore
  <2>3. CASE r.addr = q.addr
    <3>1. Overlaps(r, q)
      BY <1>1, <2>1, <2>3, OverlapMeans
    <3>2. r = q
      BY <3>1 DEF Overlaps, Antichain
    <3> QED
      BY <1>1, <1>3, <2>1, <3>2 DEF PrefixBefore
  <2>4. CASE r.addr # q.addr
    <3>1. Contains(p, r.addr)
      BY <1>1, <2>1, <2>2, <2>4 DEF Contains
    <3>2. Overlaps(p, r)
      BY <2>1, <3>1, OverlapMeans
    <3>3. r = p
      BY <3>2 DEF Overlaps, Antichain
    <3> QED
      BY <1>1, <1>3, <2>1, <3>3 DEF PrefixBefore
  <2> QED
    BY <2>3, <2>4
<1> QED
  BY <1>2, <1>3 DEF Merge, Adjacent

(* So one pass finds them, as the comment on mergeSiblings says.            *)
LEMMA SiblingsAreFound ==
    ASSUME NEW s \in SUBSET Prefix, Antichain(s), NEW p \in s, NEW q \in s, AreSiblings(p, q)
    PROVE  Merge(s, p, q) \/ Merge(s, q, p)
<1>1. AreSiblings(q, p) /\ p.bits = q.bits
  BY DEF AreSiblings
<1>2. p.addr = q.addr + SizeOf[p.bits] \/ q.addr = p.addr + SizeOf[p.bits]
  BY SiblingsFill
<1> QED
  BY <1>1, <1>2, SiblingsMeet

(* The prefixes a set covers.                                               *)
Down(s) == { q \in Prefix : \E p \in s : Covers(p, q) }

(* A pass over what dropCovered left keeps the addresses, covers more       *)
(* prefixes if it merges anything, and otherwise leaves no siblings.        *)
LEMMA Merged ==
    ASSUME NEW s \in SUBSET Prefix, Antichain(s)
    PROVE  LET next == MergeSiblings(s)
           IN  /\ next \in SUBSET Prefix
               /\ AddressesIn(next) = AddressesIn(s)
               /\ next # s => Down(s) \subseteq Down(next) /\ Down(s) # Down(next)
               /\ next = s => \A p, q \in s : ~AreSiblings(p, q)
<1> DEFINE next == MergeSiblings(s)
<1>1. \A x : x \in next <=>
          \/ x \in s /\ \A q \in s : ~Merge(s, x, q) /\ ~Merge(s, q, x)
          \/ \E p, q \in s : Merge(s, p, q) /\ x = ParentOf(p)
  BY DEF MergeSiblings
<1>2. ASSUME NEW p \in s, NEW q \in s, Merge(s, p, q)
      PROVE  /\ ParentOf(p) \in Prefix /\ ParentOf(p) \in next
             /\ Covers(ParentOf(p), p) /\ Covers(ParentOf(p), q)
             /\ \A a \in Nat : Contains(ParentOf(p), a) <=> Contains(p, a) \/ Contains(q, a)
             /\ \A r \in s : ~Covers(r, ParentOf(p))
  <2>1. AreSiblings(p, q)
    BY <1>2 DEF Merge
  <2>2. /\ ParentOf(p) \in Prefix /\ ParentOf(p).bits = p.bits - 1
        /\ Covers(ParentOf(p), p) /\ Covers(ParentOf(p), q)
        /\ \A a \in Nat : Contains(ParentOf(p), a) <=> Contains(p, a) \/ Contains(q, a)
    BY <2>1, SiblingsFill
  <2>3. ASSUME NEW r \in s, Covers(r, ParentOf(p))
        PROVE  FALSE
    <3>1. Covers(r, p)
      BY <2>2, <2>3, CoversTransitive
    <3>2. r = p
      BY <3>1 DEF Antichain
    <3>3. p.bits \in Nat /\ p.bits <= p.bits - 1
      BY <2>2, <2>3, <3>2, PrefixFits DEF Covers
    <3> QED
      BY <3>3
  <2> HIDE DEF next
  <2> QED
    BY <1>1, <1>2, <2>2, <2>3
<1>3. next \in SUBSET Prefix
  <2> HIDE DEF next
  <2> QED
    BY <1>1, <1>2
<1>4. \A p \in s : \E r \in next : Covers(r, p)
  <2> SUFFICES ASSUME NEW p \in s
               PROVE  \E r \in next : Covers(r, p)
    OBVIOUS
  <2>1. Covers(p, p)
    BY CoversItself
  <2>2. \A q \in s : Merge(s, q, p) => ParentOf(q) \in next /\ Covers(ParentOf(q), p)
    BY <1>2
  <2>3. \A q \in s : Merge(s, p, q) => ParentOf(p) \in next /\ Covers(ParentOf(p), p)
    BY <1>2
  <2> HIDE DEF next
  <2> QED
    BY <1>1, <2>1, <2>2, <2>3
<1>5. AddressesIn(next) = AddressesIn(s)
  <2>1. \A a : a \in AddressesIn(s) <=> a \in Nat /\ \E p \in s : Contains(p, a)
    BY AddressesMember
  <2>2. \A a : a \in AddressesIn(next) <=> a \in Nat /\ \E p \in next : Contains(p, a)
    <3> HIDE DEF next
    <3> QED
      BY <1>3, AddressesMember
  <2>3. ASSUME NEW a \in Nat, NEW p \in s, Contains(p, a)
        PROVE  \E r \in next : Contains(r, a)
    <3> HIDE DEF next
    <3>1. PICK r \in next : Covers(r, p)
      BY <1>4
    <3>2. Contains(r, a)
      BY <1>3, <2>3, <3>1, Nest DEF Covers
    <3> QED
      BY <3>2
  <2>4. ASSUME NEW a \in Nat, NEW r \in next, Contains(r, a)
        PROVE  \E p \in s : Contains(p, a)
    <3> HIDE DEF next
    <3>1. CASE r \in s
      BY <3>1, <2>4
    <3>2. ASSUME NEW p \in s, NEW q \in s, Merge(s, p, q), r = ParentOf(p)
          PROVE  \E x \in s : Contains(x, a)
      <4>1. Contains(p, a) \/ Contains(q, a)
        BY <1>2, <2>4, <3>2
      <4> QED
        BY <4>1
    <3> QED
      BY <1>1, <3>1, <3>2
  <2> HIDE DEF next
  <2> QED
    BY <2>1, <2>2, <2>3, <2>4
<1>6. ASSUME next # s
      PROVE  Down(s) \subseteq Down(next) /\ Down(s) # Down(next)
  <2> HIDE DEF next
  <2>1. PICK p \in s, q \in s : Merge(s, p, q)
    BY <1>1, <1>6
  <2>2. ParentOf(p) \in Prefix /\ ParentOf(p) \in next /\ \A r \in s : ~Covers(r, ParentOf(p))
    BY <1>2, <2>1
  <2>3. ParentOf(p) \in Down(next) /\ ParentOf(p) \notin Down(s)
    BY <2>2, CoversItself DEF Down
  <2>4. ASSUME NEW x \in Down(s)
        PROVE  x \in Down(next)
    <3>1. PICK y \in s : Covers(y, x) /\ x \in Prefix
      BY <2>4 DEF Down
    <3>2. PICK r \in next : Covers(r, y)
      BY <1>4
    <3>3. Covers(r, x)
      BY <1>3, <3>1, <3>2, CoversTransitive
    <3> QED
      BY <3>1, <3>3 DEF Down
  <2> QED
    BY <2>3, <2>4
<1>7. ASSUME next = s, NEW p \in s, NEW q \in s, AreSiblings(p, q)
      PROVE  FALSE
  <2>1. Merge(s, p, q) \/ Merge(s, q, p)
    BY <1>7, SiblingsAreFound
  <2>2. ASSUME NEW x \in s, NEW y \in s, Merge(s, x, y)
        PROVE  FALSE
    <3>1. ParentOf(x) \in Prefix /\ ParentOf(x) \in next /\ \A r \in s : ~Covers(r, ParentOf(x))
      BY <1>2, <2>2
    <3> HIDE DEF next
    <3> QED
      BY <1>7, <3>1, CoversItself
  <2> QED
    BY <2>1, <2>2
<1> HIDE DEF next
<1> QED
  BY <1>3, <1>5, <1>6, <1>7 DEF next

(* One turn of the loop of normalizePrefixes.                               *)
OnePass(s) == MergeSiblings(DropCovered(s))

(* What a pass that merges does not cover gets less.                        *)
LEMMA PassMeasures ==
    ASSUME NEW s \in SUBSET Prefix
    PROVE  /\ OnePass(s) \in SUBSET Prefix
           /\ OnePass(s) # DropCovered(s) =>
                  Cardinality(Prefix \ Down(OnePass(s))) < Cardinality(Prefix \ Down(s))
<1> DEFINE kept == DropCovered(s)
           next == OnePass(s)
<1>1. /\ kept \in SUBSET s /\ Antichain(kept) /\ kept \in SUBSET Prefix
      /\ \A p \in s : \E q \in kept : Covers(q, p)
  BY Kept
<1>2. Down(s) \subseteq Down(kept)
  <2> SUFFICES ASSUME NEW x \in Down(s)
               PROVE  x \in Down(kept)
    OBVIOUS
  <2>1. PICK y \in s : Covers(y, x) /\ x \in Prefix
    BY DEF Down
  <2>2. PICK r \in kept : Covers(r, y)
    BY <1>1
  <2>3. Covers(r, x)
    BY <1>1, <2>1, <2>2, CoversTransitive
  <2> HIDE DEF kept
  <2> QED
    BY <2>1, <2>3 DEF Down
<1>3. /\ next \in SUBSET Prefix
      /\ next # kept => Down(kept) \subseteq Down(next) /\ Down(kept) # Down(next)
  <2> HIDE DEF kept
  <2>1. next = MergeSiblings(kept)
    BY DEF OnePass, kept
  <2> HIDE DEF next
  <2> QED
    BY <1>1, <2>1, Merged
<1> HIDE DEF kept, next
<1>4. ASSUME next # kept
      PROVE  Cardinality(Prefix \ Down(next)) < Cardinality(Prefix \ Down(s))
  <2> DEFINE A == Prefix \ Down(s)
             B == Prefix \ Down(next)
  <2>1. B \subseteq A /\ B # A
    <3>1. Down(next) \subseteq Prefix /\ Down(s) \subseteq Prefix /\ Down(kept) \subseteq Prefix
      BY DEF Down
    <3> QED
      BY <1>2, <1>3, <1>4, <3>1
  <2>2. IsFiniteSet(A) /\ Cardinality(A) \in Nat /\ Cardinality(B) \in Nat
    BY FinitePrefixes
  <2> HIDE DEF A, B
  <2>3. Cardinality(B) <= Cardinality(A) /\ (Cardinality(A) = Cardinality(B) => A = B)
    BY <2>1, <2>2, FS_Subset
  <2> QED
    BY <2>1, <2>2, <2>3 DEF A, B
<1> QED
  BY <1>3, <1>4 DEF kept, next

(* So the loop ends, and the recursion defines Settle.                      *)
LEMMA SettleDefined ==
    \A s \in SUBSET Prefix :
        Settle[s] = IF OnePass(s) = DropCovered(s) THEN OnePass(s) ELSE Settle[OnePass(s)]
<1> DEFINE S == SUBSET Prefix
           over == { s \in S : OnePass(s) = DropCovered(s) }
           measure == [s \in S |-> Cardinality(Prefix \ Down(s))]
           last == [s \in S |-> OnePass(s)]
           more == [s \in S |-> {}]
           next == [s \in S |-> OnePass(s)]
           Is(g) == g = [s \in S |-> IF OnePass(s) = DropCovered(s) THEN OnePass(s) ELSE g[OnePass(s)]]
<1>1. measure \in [S -> Nat]
  BY FinitePrefixes
<1>2. last \in [S -> SUBSET Prefix] /\ next \in [S -> S] /\ more \in [S -> SUBSET Prefix]
  BY PassMeasures
<1>3. \A s \in S \ over : measure[next[s]] < measure[s]
  BY PassMeasures
<1>4. over \in SUBSET S
  OBVIOUS
<1>5. PICK f : LoopsTo(f, S, over, last, more, next)
  <2> HIDE DEF S, over, measure, last, more, next
  <2>1. IsLoop(S, Prefix, measure, over, last, more, next)
    BY <1>1, <1>2, <1>3, <1>4 DEF IsLoop
  <2> QED
    BY <2>1, LoopDefines
<1>6. Is(f)
  <2>1. \A s \in S : f[s] = IF s \in over THEN last[s] ELSE more[s] \cup f[next[s]]
    <3> HIDE DEF S, over, last, more, next
    <3> QED
      BY <1>5 DEF LoopsTo
  <2>2. f = [s \in S |-> f[s]]
    <3> HIDE DEF S, over, last, more, next
    <3> QED
      BY <1>5 DEF LoopsTo
  <2>3. \A s \in S : f[s] = IF OnePass(s) = DropCovered(s) THEN OnePass(s) ELSE f[OnePass(s)]
    <3> HIDE DEF S
    <3> QED
      BY <2>1
  <2> HIDE DEF S
  <2> QED
    BY <2>2, <2>3
<1>7. Settle = CHOOSE g : Is(g)
  BY DEF Settle, OnePass
<1> HIDE DEF Is
<1>8. Is(Settle)
  BY <1>6, <1>7
<1> QED
  BY <1>8 DEF Is

(* The one form, in the words of the lemmas.                                *)
LEMMA SetsOfAddresses ==
    \A s : s \in PrefixSet <=>
               s \in SUBSET Prefix /\ Antichain(s) /\ \A p, q \in s : ~AreSiblings(p, q)
<1>1. \A p \in Prefix : ~AreSiblings(p, p)
  BY DEF AreSiblings
<1> QED
  BY <1>1 DEF PrefixSet, Antichain, Overlaps

Settled(s, t) == t \in PrefixSet /\ AddressesIn(t) = AddressesIn(s)

(* By induction on what the set does not cover.                             *)
LEMMA SettleExact == \A s \in SUBSET Prefix : Settled(s, Settle[s])
<1> DEFINE S == SUBSET Prefix
           measure == [s \in S |-> Cardinality(Prefix \ Down(s))]
           T == { s \in S : Settled(s, Settle[s]) }
<1>1. measure \in [S -> Nat]
  BY FinitePrefixes
<1>2. \A s \in S : (\A u \in S : measure[u] < measure[s] => u \in T) => s \in T
  <2> SUFFICES ASSUME NEW s \in S, \A u \in S : measure[u] < measure[s] => u \in T
               PROVE  Settled(s, Settle[s])
    OBVIOUS
  <2> DEFINE kept == DropCovered(s)
             next == OnePass(s)
  <2>1. kept \in SUBSET Prefix /\ Antichain(kept) /\ AddressesIn(kept) = AddressesIn(s)
    BY Kept, KeptAddresses
  <2>2. /\ next \in SUBSET Prefix
        /\ AddressesIn(next) = AddressesIn(kept)
        /\ next = kept => \A p, q \in kept : ~AreSiblings(p, q)
    <3> HIDE DEF kept
    <3>1. next = MergeSiblings(kept)
      BY DEF OnePass, kept
    <3> HIDE DEF next
    <3> QED
      BY <2>1, <3>1, Merged
  <2>3. Settle[s] = IF next = kept THEN next ELSE Settle[next]
    BY SettleDefined
  <2>4. CASE next = kept
    <3> HIDE DEF next, kept, S, T
    <3> QED
      BY <2>1, <2>2, <2>3, <2>4, SetsOfAddresses DEF Settled
  <2>5. CASE next # kept
    <3>1. measure[next] < measure[s]
      BY <2>2, <2>5, PassMeasures
    <3>2. next \in T
      <4> HIDE DEF next, measure, T
      <4> QED
        BY <2>2, <3>1
    <3>3. Settled(next, Settle[next])
      BY <3>2
    <3> HIDE DEF next, kept, S, T
    <3> QED
      BY <2>1, <2>2, <2>3, <2>5, <3>3 DEF Settled
  <2> QED
    BY <2>4, <2>5
<1>3. S \subseteq T
  <2> HIDE DEF S, T, measure
  <2> QED
    BY <1>1, <1>2, MeasureInduction
<1> QED
  BY <1>3

(* What normalizePrefixes returns.                                          *)
LEMMA PrefixesNormalised ==
    \A ps \in SUBSET Written :
        NormalizePrefixes(ps) \in PrefixSet /\ AddressesIn(NormalizePrefixes(ps)) = AddressesIn(ps)
<1> SUFFICES ASSUME NEW ps \in SUBSET Written
             PROVE  NormalizePrefixes(ps) \in PrefixSet /\ AddressesIn(NormalizePrefixes(ps)) = AddressesIn(ps)
  OBVIOUS
<1> DEFINE s == { Masked(p) : p \in ps }
<1>1. s \in SUBSET Prefix
  BY MaskedIsPrefix
<1>2. AddressesIn(s) = AddressesIn(ps)
  <2>1. \A p \in ps : Masked(Masked(p)) = Masked(p)
    BY MaskedIsPrefix, MaskedStays
  <2> QED
    BY <2>1 DEF AddressesIn
<1>3. Settled(s, Settle[s])
  <2> HIDE DEF s
  <2> QED
    BY <1>1, SettleExact
<1> QED
  BY <1>2, <1>3 DEF NormalizePrefixes, Settled

(* What a list of prefixes comes to.                                        *)
LEMMA PrefixesComeTo ==
    ASSUME NEW s \in SUBSET Prefix
    PROVE  NormalizePrefixes(s) \in PrefixSet /\ AddressesIn(NormalizePrefixes(s)) = AddressesIn(s)
BY PrefixesNormalised DEF Prefix

(* Of two prefixes with an address in common, the longer has it.            *)
LEMMA IntersectionIsExact ==
    ASSUME NEW s \in SUBSET Prefix, NEW t \in SUBSET Prefix
    PROVE  /\ IntersectPrefixes(s, t) \in PrefixSet
           /\ AddressesIn(IntersectPrefixes(s, t)) = AddressesIn(s) \cap AddressesIn(t)
<1> DEFINE u == { q \in t : \E p \in s : Covers(p, q) } \cup { p \in s : \E q \in t : Covers(q, p) }
<1>1. u \in SUBSET Prefix
  OBVIOUS
<1>2. \A x : x \in u <=> \/ x \in t /\ \E p \in s : Covers(p, x)
                         \/ x \in s /\ \E q \in t : Covers(q, x)
  OBVIOUS
<1>3. IntersectPrefixes(s, t) = NormalizePrefixes(u)
  BY DEF IntersectPrefixes
<1> HIDE DEF u
<1>4. /\ \A a : a \in AddressesIn(s) <=> a \in Nat /\ \E p \in s : Contains(p, a)
      /\ \A a : a \in AddressesIn(t) <=> a \in Nat /\ \E p \in t : Contains(p, a)
      /\ \A a : a \in AddressesIn(u) <=> a \in Nat /\ \E p \in u : Contains(p, a)
  BY <1>1, AddressesMember
<1>5. ASSUME NEW a \in Nat, NEW p \in s, NEW q \in t, Contains(p, a), Contains(q, a)
      PROVE  \E x \in u : Contains(x, a)
  <2>1. Covers(p, q) \/ Covers(q, p)
    BY <1>5, OverlapMeans DEF Overlaps
  <2> QED
    BY <1>2, <1>5, <2>1
<1>6. ASSUME NEW a \in Nat, NEW p \in Prefix, NEW q \in Prefix, Covers(p, q), Contains(q, a)
      PROVE  Contains(p, a)
  BY <1>6, Nest DEF Covers
<1>7. AddressesIn(u) = AddressesIn(s) \cap AddressesIn(t)
  <2>1. ASSUME NEW a \in Nat, NEW x \in u, Contains(x, a)
        PROVE  (\E p \in s : Contains(p, a)) /\ (\E q \in t : Contains(q, a))
    BY <1>2, <1>6, <2>1
  <2> QED
    BY <1>4, <1>5, <2>1
<1> QED
  BY <1>1, <1>3, <1>7, PrefixesComeTo

(* The recursion defines SubtractPrefix: the halves are longer.             *)
LEMMA SubtractPrefixDefined ==
    \A a, b \in Prefix :
        SubtractPrefix[<< a, b >>] =
            IF ~Overlaps(a, b) THEN {a}
            ELSE IF Covers(b, a) \/ a.bits = Width THEN {}
            ELSE UNION { SubtractPrefix[<< half, b >>] : half \in Halves(a) }
<1> DEFINE S == Prefix \X Prefix
           Y == SUBSET Prefix
           Of(f, x) == IF ~Overlaps(x[1], x[2]) THEN {x[1]}
                       ELSE IF Covers(x[2], x[1]) \/ x[1].bits = Width THEN {}
                       ELSE UNION { f[<< half, x[2] >>] : half \in Halves(x[1]) }
           measure == [x \in S |-> Width - x[1].bits]
           Def == [x \in S |-> [f \in [S -> Y] |-> Of(f, x)]]
           Is(g) == g = [x \in S |-> Of(g, x)]
<1>1. measure \in [S -> Nat]
  <2>1. \A x \in S : Width - x[1].bits \in Nat
    BY PrefixFits, WidthIsNumber
  <2> QED
    BY <2>1
<1>2. ASSUME NEW x \in S, x[1].bits # Width, NEW half \in Halves(x[1])
      PROVE  << half, x[2] >> \in S /\ measure[<< half, x[2] >>] < measure[x]
  <2>1. x[1] \in Prefix /\ x[2] \in Prefix
    OBVIOUS
  <2>2. half \in Prefix /\ half.bits = x[1].bits + 1
    BY <1>2, <2>1, HalvesAre
  <2>3. << half, x[2] >> \in S /\ << half, x[2] >>[1] = half
    BY <2>1, <2>2
  <2>4. Width - half.bits < Width - x[1].bits
    BY <2>1, <2>2, PrefixFits, WidthIsNumber
  <2> HIDE DEF S
  <2> QED
    BY <2>3, <2>4
<1>3. Def \in [S -> [[S -> Y] -> Y]]
  <2>1. ASSUME NEW x \in S, NEW f \in [S -> Y]
        PROVE  Of(f, x) \in Y
    <3>1. \A half \in Halves(x[1]) : x[1].bits # Width => f[<< half, x[2] >>] \in Y
      <4> HIDE DEF S, Y, measure
      <4> QED
        BY <1>2
    <3>2. x[1] \in Prefix
      OBVIOUS
    <3>3. CASE ~Overlaps(x[1], x[2])
      BY <3>2, <3>3
    <3>4. CASE Overlaps(x[1], x[2]) /\ (Covers(x[2], x[1]) \/ x[1].bits = Width)
      BY <3>4
    <3>5. CASE Overlaps(x[1], x[2]) /\ ~(Covers(x[2], x[1]) \/ x[1].bits = Width)
      <4>1. Of(f, x) = UNION { f[<< half, x[2] >>] : half \in Halves(x[1]) }
        BY <3>5
      <4> HIDE DEF Of, S
      <4> QED
        BY <3>1, <3>5, <4>1
    <3> QED
      BY <3>3, <3>4, <3>5
  <2> HIDE DEF S, Y, Of
  <2> QED
    BY <2>1
<1>4. [S -> Y] # {}
  <2>1. [x \in S |-> {}] \in [S -> Y]
    OBVIOUS
  <2> QED
    BY <2>1
<1>5. \A x \in S : \A f, g \in [S -> Y] :
          (\A y \in S : measure[y] < measure[x] => f[y] = g[y]) => Def[x][f] = Def[x][g]
  <2> SUFFICES ASSUME NEW x \in S, NEW f \in [S -> Y], NEW g \in [S -> Y],
                      \A y \in S : measure[y] < measure[x] => f[y] = g[y]
               PROVE  Of(f, x) = Of(g, x)
    <3> HIDE DEF S, Y, Of, measure
    <3> QED
      OBVIOUS
  <2>1. x[1].bits # Width => \A half \in Halves(x[1]) : f[<< half, x[2] >>] = g[<< half, x[2] >>]
    <3> HIDE DEF S, Y, measure
    <3> QED
      BY <1>2
  <2>2. x[1].bits # Width => { f[<< half, x[2] >>] : half \in Halves(x[1]) }
                             = { g[<< half, x[2] >>] : half \in Halves(x[1]) }
    <3> HIDE DEF S, Y, measure
    <3> QED
      BY <2>1
  <2> HIDE DEF S, Y, measure
  <2> QED
    BY <2>2
<1>6. PICK f \in [S -> Y] : \A x \in S : f[x] = Def[x][f]
  <2> HIDE DEF S, Y, measure, Def
  <2>1. RestsOnLess(S, Y, measure, Def)
    BY <1>1, <1>3, <1>4, <1>5 DEF RestsOnLess
  <2> QED
    BY <2>1, RecursionDefines
<1>7. Is(f)
  <2>1. \A x \in S : f[x] = Of(f, x)
    <3> HIDE DEF S, Y, Of
    <3> QED
      BY <1>6
  <2> HIDE DEF S, Y, Of, Def
  <2> QED
    BY <2>1, <1>6
<1>8. SubtractPrefix = CHOOSE g : Is(g)
  BY DEF SubtractPrefix
<1> HIDE DEF Is
<1>9. Is(SubtractPrefix)
  BY <1>7, <1>8
<1>10. \A x \in S : SubtractPrefix[x] = Of(SubtractPrefix, x)
  <2> HIDE DEF S, Of
  <2> QED
    BY <1>9 DEF Is
<1>11. ASSUME NEW a \in Prefix, NEW b \in Prefix
       PROVE  SubtractPrefix[<< a, b >>] =
                  IF ~Overlaps(a, b) THEN {a}
                  ELSE IF Covers(b, a) \/ a.bits = Width THEN {}
                  ELSE UNION { SubtractPrefix[<< half, b >>] : half \in Halves(a) }
  <2> DEFINE x == << a, b >>
  <2>1. x \in S /\ x[1] = a /\ x[2] = b
    OBVIOUS
  <2>2. SubtractPrefix[x] = Of(SubtractPrefix, x)
    <3> HIDE DEF S, Of, x
    <3> QED
      BY <2>1, <1>10
  <2> HIDE DEF x
  <2>3. SubtractPrefix[x] =
            IF ~Overlaps(a, b) THEN {a}
            ELSE IF Covers(b, a) \/ a.bits = Width THEN {}
            ELSE UNION { SubtractPrefix[<< half, b >>] : half \in Halves(a) }
    BY <2>1, <2>2
  <2> QED
    BY <2>3 DEF x
<1> QED
  BY <1>11

(* What is left of one prefix when another is taken out.                    *)
LeavesOut(a, b) ==
    /\ SubtractPrefix[<< a, b >>] \in SUBSET Prefix
    /\ \A x \in Nat : (\E p \in SubtractPrefix[<< a, b >>] : Contains(p, x)) <=> Contains(a, x) /\ ~Contains(b, x)

(* By induction on the bits that are left.                                  *)
LEMMA SubtractPrefixExact == \A a, b \in Prefix : LeavesOut(a, b)
<1> SUFFICES ASSUME NEW b \in Prefix
             PROVE  \A a \in Prefix : LeavesOut(a, b)
  OBVIOUS
<1> DEFINE measure == [a \in Prefix |-> Width - a.bits]
           T == { a \in Prefix : LeavesOut(a, b) }
<1>1. measure \in [Prefix -> Nat]
  <2>1. \A a \in Prefix : Width - a.bits \in Nat
    BY PrefixFits, WidthIsNumber
  <2> QED
    BY <2>1
<1>2. ASSUME NEW a \in Prefix, \A h \in Prefix : measure[h] < measure[a] => h \in T
      PROVE  LeavesOut(a, b)
  <2>1. CASE ~Overlaps(a, b)
    <3>1. SubtractPrefix[<< a, b >>] = {a}
      BY <2>1, SubtractPrefixDefined
    <3>2. \A x \in Nat : ~(Contains(a, x) /\ Contains(b, x))
      BY <2>1, OverlapMeans
    <3> QED
      BY <3>1, <3>2 DEF LeavesOut
  <2>2. CASE Overlaps(a, b) /\ Covers(b, a)
    <3>1. SubtractPrefix[<< a, b >>] = {}
      BY <2>2, SubtractPrefixDefined
    <3>2. \A x \in Nat : Contains(a, x) => Contains(b, x)
      BY <2>2, Nest DEF Covers
    <3> QED
      BY <3>1, <3>2 DEF LeavesOut
  <2>3. CASE Overlaps(a, b) /\ ~Covers(b, a)
    <3>1. a.bits # Width
      <4> SUFFICES ASSUME a.bits = Width
                   PROVE  FALSE
        OBVIOUS
      <4>1. Covers(a, b)
        BY <2>3 DEF Overlaps
      <4>2. a.bits = b.bits
        BY <4>1, PrefixFits DEF Covers
      <4>3. a = b
        BY <4>1, <4>2, SameBits
      <4> QED
        BY <2>3, <4>3, CoversItself
    <3>2. PICK left \in Prefix, right \in Prefix :
             /\ Halves(a) = {left, right}
             /\ left.bits = a.bits + 1 /\ right.bits = a.bits + 1
             /\ \A x \in Nat : Contains(a, x) <=> Contains(left, x) \/ Contains(right, x)
      BY <3>1, HalvesAre
    <3>3. measure[left] < measure[a] /\ measure[right] < measure[a]
      BY <3>2, PrefixFits, WidthIsNumber
    <3>4. LeavesOut(left, b) /\ LeavesOut(right, b)
      <4>1. left \in T /\ right \in T
        <5> HIDE DEF T, measure
        <5> QED
          BY <1>2, <3>3
      <4> QED
        BY <4>1
    <3>5. SubtractPrefix[<< a, b >>] = SubtractPrefix[<< left, b >>] \cup SubtractPrefix[<< right, b >>]
      <4>1. SubtractPrefix[<< a, b >>] = UNION { SubtractPrefix[<< half, b >>] : half \in Halves(a) }
        BY <2>3, <3>1, SubtractPrefixDefined
      <4> QED
        BY <4>1, <3>2
    <3> QED
      BY <3>2, <3>4, <3>5 DEF LeavesOut
  <2> QED
    BY <2>1, <2>2, <2>3
<1>3. Prefix \subseteq T
  <2>1. \A a \in Prefix : (\A h \in Prefix : measure[h] < measure[a] => h \in T) => a \in T
    <3> SUFFICES ASSUME NEW a \in Prefix, \A h \in Prefix : measure[h] < measure[a] => h \in T
                 PROVE  LeavesOut(a, b)
      OBVIOUS
    <3> HIDE DEF T, measure
    <3> QED
      BY <1>2
  <2> HIDE DEF T, measure
  <2> QED
    BY <1>1, <2>1, MeasureInduction
<1> QED
  BY <1>3

(* A list of prefixes less one prefix.                                      *)
LeftOf(left, b) == UNION { SubtractPrefix[<< a, b >>] : a \in left }

LEMMA LeftOfIs ==
    ASSUME NEW left \in SUBSET Prefix, NEW b \in Prefix
    PROVE  /\ LeftOf(left, b) \in SUBSET Prefix
           /\ \A x \in Nat : (\E p \in LeftOf(left, b) : Contains(p, x)) <=>
                             (\E p \in left : Contains(p, x)) /\ ~Contains(b, x)
<1>1. \A q : q \in LeftOf(left, b) <=> \E a \in left : q \in SubtractPrefix[<< a, b >>]
  BY DEF LeftOf
<1>2. \A a \in left :
          /\ SubtractPrefix[<< a, b >>] \in SUBSET Prefix
          /\ \A x \in Nat : (\E p \in SubtractPrefix[<< a, b >>] : Contains(p, x)) <=> Contains(a, x) /\ ~Contains(b, x)
  BY SubtractPrefixExact DEF LeavesOut
<1> QED
  BY <1>1, <1>2

PrefixLists == (SUBSET Prefix) \X (SUBSET Prefix)

Some(s) == CHOOSE p \in s : TRUE

(* The recursion defines TakeOutPrefixes: the second list gets shorter.     *)
LEMMA TakeOutPrefixesDefined ==
    \A left, t \in SUBSET Prefix :
        TakeOutPrefixes[<< left, t >>] =
            IF t = {} THEN left ELSE TakeOutPrefixes[<< LeftOf(left, Some(t)), t \ {Some(t)} >>]
<1> DEFINE S == PrefixLists
           over == { x \in S : x[2] = {} }
           step(x) == << LeftOf(x[1], Some(x[2])), x[2] \ {Some(x[2])} >>
           measure == [x \in S |-> Cardinality(x[2])]
           last == [x \in S |-> x[1]]
           more == [x \in S |-> {}]
           next == [x \in S |-> IF x \in over THEN x ELSE step(x)]
           Is(g) == g = [x \in S |-> IF x[2] = {} THEN x[1] ELSE g[step(x)]]
<1>0. /\ \A x \in S : x[1] \in SUBSET Prefix /\ x[2] \in SUBSET Prefix
      /\ \A a, b \in SUBSET Prefix : << a, b >> \in S /\ << a, b >>[1] = a /\ << a, b >>[2] = b
  BY DEF PrefixLists
<1>1. measure \in [S -> Nat]
  <2>1. \A x \in S : Cardinality(x[2]) \in Nat
    BY <1>0, FinitePrefixes
  <2> QED
    BY <2>1
<1>2. last \in [S -> SUBSET Prefix] /\ more \in [S -> SUBSET Prefix] /\ over \in SUBSET S
  BY <1>0
<1>3. \A x \in S \ over : step(x) \in S /\ measure[step(x)] < measure[x]
  <2> SUFFICES ASSUME NEW x \in S \ over
               PROVE  step(x) \in S /\ measure[step(x)] < measure[x]
    OBVIOUS
  <2>1. x[1] \in SUBSET Prefix /\ x[2] \in SUBSET Prefix /\ x[2] # {}
    BY <1>0
  <2>2. Some(x[2]) \in x[2] /\ Some(x[2]) \in Prefix
    BY <2>1 DEF Some
  <2>3. LeftOf(x[1], Some(x[2])) \in SUBSET Prefix
    BY <2>1, <2>2, LeftOfIs
  <2>4. /\ x[2] \ {Some(x[2])} \in SUBSET Prefix
        /\ Cardinality(x[2] \ {Some(x[2])}) = Cardinality(x[2]) - 1
    BY <2>1, <2>2, FinitePrefixes, FS_RemoveElement
  <2>5. Cardinality(x[2]) \in Nat
    BY <2>1, FinitePrefixes
  <2>6. step(x) \in S /\ step(x)[2] = x[2] \ {Some(x[2])}
    BY <2>3, <2>4, <1>0
  <2> HIDE DEF step
  <2> QED
    BY <2>4, <2>5, <2>6
<1>4. next \in [S -> S]
  <2> HIDE DEF S, step
  <2> QED
    BY <1>3
<1>5. \A x \in S \ over : measure[next[x]] < measure[x]
  <2> HIDE DEF S, step, measure
  <2> QED
    BY <1>3
<1>6. PICK f : LoopsTo(f, S, over, last, more, next)
  <2> HIDE DEF S, over, measure, last, more, next
  <2>1. IsLoop(S, Prefix, measure, over, last, more, next)
    BY <1>1, <1>2, <1>4, <1>5 DEF IsLoop
  <2> QED
    BY <2>1, LoopDefines
<1>7. Is(f)
  <2>1. \A x \in S : f[x] = IF x \in over THEN last[x] ELSE more[x] \cup f[next[x]]
    <3> HIDE DEF S, over, last, more, next
    <3> QED
      BY <1>6 DEF LoopsTo
  <2>2. f = [x \in S |-> f[x]]
    <3> HIDE DEF S, over, last, more, next
    <3> QED
      BY <1>6 DEF LoopsTo
  <2>3. \A x \in S : f[x] = IF x[2] = {} THEN x[1] ELSE f[step(x)]
    <3> HIDE DEF S, step
    <3> QED
      BY <2>1
  <2> HIDE DEF S, step
  <2> QED
    BY <2>2, <2>3
<1>8. TakeOutPrefixes = CHOOSE g : Is(g)
  BY DEF TakeOutPrefixes, LeftOf, Some, PrefixLists
<1> HIDE DEF Is
<1>9. Is(TakeOutPrefixes)
  BY <1>7, <1>8
<1>10. \A x \in S : TakeOutPrefixes[x] = IF x[2] = {} THEN x[1] ELSE TakeOutPrefixes[step(x)]
  <2> HIDE DEF S, step
  <2> QED
    BY <1>9 DEF Is
<1>11. ASSUME NEW left \in SUBSET Prefix, NEW t \in SUBSET Prefix
       PROVE  TakeOutPrefixes[<< left, t >>] =
                  IF t = {} THEN left ELSE TakeOutPrefixes[<< LeftOf(left, Some(t)), t \ {Some(t)} >>]
  <2> DEFINE x == << left, t >>
  <2>1. x \in S /\ x[1] = left /\ x[2] = t
    BY <1>0
  <2>2. TakeOutPrefixes[x] = IF x[2] = {} THEN x[1] ELSE TakeOutPrefixes[step(x)]
    <3> HIDE DEF S, step, x
    <3> QED
      BY <2>1, <1>10
  <2> QED
    BY <2>2
<1> QED
  BY <1>11

(* What is left of the addresses when others are taken out.                 *)
LeavesOutAll(left, t) ==
    /\ TakeOutPrefixes[<< left, t >>] \in SUBSET Prefix
    /\ \A x \in Nat : (\E p \in TakeOutPrefixes[<< left, t >>] : Contains(p, x)) <=>
                      (\E p \in left : Contains(p, x)) /\ ~(\E p \in t : Contains(p, x))

(* By induction on the second list.                                         *)
LEMMA TakeOutPrefixesExact == \A left, t \in SUBSET Prefix : LeavesOutAll(left, t)
<1> DEFINE S == SUBSET Prefix
           measure == [t \in S |-> Cardinality(t)]
           T == { t \in S : \A left \in S : LeavesOutAll(left, t) }
<1>1. measure \in [S -> Nat]
  BY FinitePrefixes
<1>2. ASSUME NEW t \in S, \A u \in S : Cardinality(u) < Cardinality(t) => u \in T, NEW left \in S
      PROVE  LeavesOutAll(left, t)
  <2>1. CASE t = {}
    <3>1. TakeOutPrefixes[<< left, t >>] = left
      BY <2>1, TakeOutPrefixesDefined
    <3> QED
      BY <2>1, <3>1 DEF LeavesOutAll
  <2>2. CASE t # {}
    <3> DEFINE b == Some(t)
               rest == t \ {b}
               now == LeftOf(left, b)
    <3>1. b \in t /\ b \in Prefix
      BY <2>2 DEF Some
    <3>2. rest \in S /\ Cardinality(rest) < Cardinality(t)
      <4>1. Cardinality(rest) = Cardinality(t) - 1 /\ Cardinality(t) \in Nat
        BY <3>1, FinitePrefixes, FS_RemoveElement
      <4> QED
        BY <4>1
    <3>3. /\ now \in S
          /\ \A x \in Nat : (\E p \in now : Contains(p, x)) <=>
                            (\E p \in left : Contains(p, x)) /\ ~Contains(b, x)
      BY <3>1, LeftOfIs
    <3>4. LeavesOutAll(now, rest)
      <4>1. rest \in T
        <5> HIDE DEF T, rest
        <5> QED
          BY <1>2, <3>2
      <4> HIDE DEF now, rest
      <4> QED
        BY <4>1, <3>3
    <3>5. TakeOutPrefixes[<< left, t >>] = TakeOutPrefixes[<< now, rest >>]
      BY <2>2, TakeOutPrefixesDefined
    <3>6. \A x : (\E p \in t : Contains(p, x)) <=> Contains(b, x) \/ \E p \in rest : Contains(p, x)
      BY <3>1
    <3> HIDE DEF b, rest, now
    <3> QED
      BY <3>3, <3>4, <3>5, <3>6 DEF LeavesOutAll
  <2> QED
    BY <2>1, <2>2
<1>3. S \subseteq T
  <2>1. \A t \in S : (\A u \in S : measure[u] < measure[t] => u \in T) => t \in T
    <3> SUFFICES ASSUME NEW t \in S, \A u \in S : measure[u] < measure[t] => u \in T
                 PROVE  \A left \in S : LeavesOutAll(left, t)
      OBVIOUS
    <3>1. \A u \in S : Cardinality(u) < Cardinality(t) => u \in T
      <4> HIDE DEF T
      <4> QED
        OBVIOUS
    <3> HIDE DEF T, measure
    <3> QED
      BY <1>2, <3>1
  <2> HIDE DEF S, T, measure
  <2> QED
    BY <1>1, <2>1, MeasureInduction
<1> QED
  BY <1>3

LEMMA SubtractionIsExact ==
    ASSUME NEW s \in SUBSET Prefix, NEW t \in SUBSET Prefix
    PROVE  /\ SubtractPrefixes(s, t) \in PrefixSet
           /\ AddressesIn(SubtractPrefixes(s, t)) = AddressesIn(s) \ AddressesIn(t)
<1> DEFINE u == TakeOutPrefixes[<< s, t >>]
<1>1. /\ u \in SUBSET Prefix
      /\ \A x \in Nat : (\E p \in u : Contains(p, x)) <=>
                        (\E p \in s : Contains(p, x)) /\ ~(\E p \in t : Contains(p, x))
  BY TakeOutPrefixesExact DEF LeavesOutAll
<1>2. SubtractPrefixes(s, t) = NormalizePrefixes(u)
  BY DEF SubtractPrefixes
<1> HIDE DEF u
<1>3. /\ \A a : a \in AddressesIn(s) <=> a \in Nat /\ \E p \in s : Contains(p, a)
      /\ \A a : a \in AddressesIn(t) <=> a \in Nat /\ \E p \in t : Contains(p, a)
      /\ \A a : a \in AddressesIn(u) <=> a \in Nat /\ \E p \in u : Contains(p, a)
  BY <1>1, AddressesMember
<1>4. AddressesIn(u) = AddressesIn(s) \ AddressesIn(t)
  BY <1>1, <1>3
<1> QED
  BY <1>1, <1>2, <1>4, PrefixesComeTo

(* A prefix all of whose addresses are in a set is covered by one of its    *)
(* prefixes: were its halves covered by two, they would have been merged.   *)
LEMMA CoveredByOne ==
    ASSUME NEW s \in PrefixSet
    PROVE  \A q \in Prefix :
               (\A a \in Nat : Contains(q, a) => \E p \in s : Contains(p, a)) => \E p \in s : Covers(p, q)
<1> DEFINE Filled(q) == \A a \in Nat : Contains(q, a) => \E p \in s : Contains(p, a)
           measure == [q \in Prefix |-> Width - q.bits]
           T == { q \in Prefix : Filled(q) => \E p \in s : Covers(p, q) }
<1>1. measure \in [Prefix -> Nat]
  <2>1. \A a \in Prefix : Width - a.bits \in Nat
    BY PrefixFits, WidthIsNumber
  <2> QED
    BY <2>1
<1>2. s \in SUBSET Prefix /\ Antichain(s) /\ \A p, q \in s : ~AreSiblings(p, q)
  BY SetsOfAddresses
<1>3. ASSUME NEW q \in Prefix, \A h \in Prefix : measure[h] < measure[q] => h \in T, Filled(q)
      PROVE  \E p \in s : Covers(p, q)
  <2>1. CASE q.bits = Width
    <3>1. PICK p \in s : Contains(p, q.addr)
      BY <1>3, PrefixFits
    <3>2. p.bits <= q.bits
      BY <1>2, <2>1, PrefixFits, WidthIsNumber
    <3> QED
      BY <3>1, <3>2 DEF Covers
  <2>2. CASE q.bits # Width
    <3>1. PICK left \in Prefix, right \in Prefix :
             /\ Halves(q) = {left, right} /\ left # right
             /\ left.bits = q.bits + 1 /\ right.bits = q.bits + 1
             /\ \A a \in Nat : Contains(q, a) <=> Contains(left, a) \/ Contains(right, a)
             /\ Covers(q, left) /\ Covers(q, right)
      BY <2>2, HalvesAre
    <3>2. measure[left] < measure[q] /\ measure[right] < measure[q]
      BY <3>1, PrefixFits, WidthIsNumber
    <3>3. left \in T /\ right \in T
      <4> HIDE DEF T, measure
      <4> QED
        BY <1>3, <3>2
    <3>4. Filled(left) /\ Filled(right)
      BY <1>3, <3>1
    <3>5. PICK x \in s : Covers(x, left)
      BY <3>3, <3>4
    <3>6. PICK y \in s : Covers(y, right)
      BY <3>3, <3>4
    <3>7. ASSUME NEW z \in s, NEW h \in Prefix, Covers(q, h), Covers(z, h), z.bits <= q.bits
          PROVE  Covers(z, q)
      <4>1. Contains(q, h.addr) /\ Contains(z, h.addr) /\ h.addr \in Nat
        BY <3>7, PrefixFits DEF Covers
      <4> QED
        BY <1>2, <3>7, <4>1, Nest
    <3>8. CASE x.bits <= q.bits \/ y.bits <= q.bits
      BY <3>1, <3>5, <3>6, <3>7, <3>8
    <3>9. CASE ~(x.bits <= q.bits \/ y.bits <= q.bits)
      <4>1. x.bits = left.bits /\ y.bits = right.bits
        BY <1>2, <3>1, <3>5, <3>6, <3>9, PrefixFits DEF Covers
      <4>2. x = left /\ y = right
        BY <1>2, <3>5, <3>6, <4>1, SameBits
      <4>3. left.bits # 0 /\ right.bits # 0 /\ left.bits - 1 = q.bits /\ right.bits - 1 = q.bits
        BY <3>1, PrefixFits
      <4>4. ASSUME NEW h \in Prefix, h.bits # 0, h.bits - 1 = q.bits, Covers(q, h)
            PROVE  ParentOf(h) = q
        <5>1. ParentOf(h) \in Prefix /\ ParentOf(h).bits = q.bits /\ Covers(ParentOf(h), h)
          BY <4>4, ParentIs
        <5>2. Contains(ParentOf(h), h.addr) /\ Contains(q, h.addr) /\ h.addr \in Nat /\ q.bits <= q.bits
          BY <4>4, <5>1, PrefixFits DEF Covers
        <5> HIDE DEF ParentOf
        <5>3. Covers(q, ParentOf(h))
          BY <5>1, <5>2, Nest
        <5> QED
          BY <5>1, <5>3, SameBits
      <4>5. AreSiblings(left, right)
        BY <3>1, <4>3, <4>4 DEF AreSiblings
      <4> QED
        BY <1>2, <4>2, <4>5
    <3> QED
      BY <3>8, <3>9
  <2> QED
    BY <2>1, <2>2
<1>4. Prefix \subseteq T
  <2>1. \A q \in Prefix : (\A h \in Prefix : measure[h] < measure[q] => h \in T) => q \in T
    <3> SUFFICES ASSUME NEW q \in Prefix, \A h \in Prefix : measure[h] < measure[q] => h \in T
                 PROVE  Filled(q) => \E p \in s : Covers(p, q)
      OBVIOUS
    <3> HIDE DEF T, measure, Filled
    <3> QED
      BY <1>3
  <2> HIDE DEF T, measure
  <2> QED
    BY <1>1, <2>1, MeasureInduction
<1> QED
  BY <1>4

(* Two such sets with the same addresses are the same.                      *)
LEMMA OneFormOfAddresses ==
    ASSUME NEW s \in PrefixSet, NEW t \in PrefixSet, AddressesIn(s) = AddressesIn(t)
    PROVE  s \subseteq t
<1>1. s \in SUBSET Prefix /\ t \in SUBSET Prefix /\ Antichain(s)
  BY SetsOfAddresses
<1>2. \A a \in Nat : (\E p \in s : Contains(p, a)) <=> (\E p \in t : Contains(p, a))
  BY <1>1, AddressesMember
<1> SUFFICES ASSUME NEW p \in s
             PROVE  p \in t
  OBVIOUS
<1>3. PICK q \in t : Covers(q, p)
  <2>1. \A a \in Nat : Contains(p, a) => \E r \in t : Contains(r, a)
    BY <1>2
  <2> QED
    BY <1>1, <2>1, CoveredByOne
<1>4. PICK r \in s : Covers(r, q)
  <2>1. \A a \in Nat : Contains(q, a) => \E x \in s : Contains(x, a)
    BY <1>2
  <2> QED
    BY <1>1, <2>1, CoveredByOne
<1>5. r = p
  <2>1. Covers(r, p)
    BY <1>1, <1>3, <1>4, CoversTransitive
  <2> QED
    BY <1>1, <2>1 DEF Antichain
<1>6. p = q
  BY <1>1, <1>3, <1>4, <1>5, CoversAntisymmetric
<1> QED
  BY <1>6

(* The passes over lists of prefixes compute what set theory does, however  *)
(* many bits an address has.                                                *)
THEOREM PrefixesExact == PrefixesAreExact
<1>1. ASSUME NEW s \in PrefixSet, NEW t \in PrefixSet
      PROVE  /\ IntersectPrefixes(s, t) \in PrefixSet
             /\ AddressesIn(IntersectPrefixes(s, t)) = AddressesIn(s) \cap AddressesIn(t)
             /\ SubtractPrefixes(s, t) \in PrefixSet
             /\ AddressesIn(SubtractPrefixes(s, t)) = AddressesIn(s) \ AddressesIn(t)
             /\ AddressesIn(s) = AddressesIn(t) => s = t
  <2>1. s \in SUBSET Prefix /\ t \in SUBSET Prefix
    BY SetsOfAddresses
  <2> QED
    BY <2>1, IntersectionIsExact, SubtractionIsExact, OneFormOfAddresses
<1> QED
  BY <1>1, PrefixesNormalised DEF PrefixesAreExact

=============================================================================
