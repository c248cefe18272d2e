----------------------------- MODULE PrefixSets -----------------------------
(***************************************************************************)
(* Sets of addresses (internal/flow/prefix.go): prefixes none of which     *)
(* covers another and no two of which are the halves of a third.  Width    *)
(* stands for the 32 bits of an IPv4 address; the code's lists are sets    *)
(* here, with the order they are sorted in beside them.                    *)
(***************************************************************************)
EXTENDS Integers

CONSTANT Width

ASSUME WidthAssumption == Width \in Nat \ {0}

(* How many addresses a prefix of so many bits has: 2^(Width - bits).       *)
SizeOf[bits \in 0 .. Width] == IF bits = Width THEN 1 ELSE 2 * SizeOf[bits + 1]

Address == 0 .. SizeOf[0] - 1

(* As written: an address that need not be the first of its prefix.         *)
Written == [addr : Address, bits : 0 .. Width]

(* Prefix.Masked                                                            *)
Masked(p) == [p EXCEPT !.addr = @ - (@ % SizeOf[p.bits])]

Prefix == { p \in Written : p = Masked(p) }

AllIPv4 == { [addr |-> 0, bits |-> 0] }

(* Prefix.Contains                                                          *)
Contains(p, a) == p.addr <= a /\ a < p.addr + SizeOf[p.bits]

(* The addresses a for which PrefixSet.ContainsAddr(a).                     *)
AddressesIn(s) == { a \in Address : \E p \in s : Contains(Masked(p), a) }

Covers(outer, inner) == outer.bits <= inner.bits /\ Contains(outer, inner.addr)

(* Prefix.Overlaps                                                          *)
Overlaps(p, q) == Covers(p, q) \/ Covers(q, p)

(* sortPrefixes                                                             *)
PrefixBefore(p, q) == p.addr < q.addr \/ (p.addr = q.addr /\ p.bits < q.bits)

DropCovered(s) == { p \in s : \A q \in s \ {p} : ~Covers(q, p) }

ParentOf(p) == Masked([p EXCEPT !.bits = @ - 1])

AreSiblings(p, q) ==
    /\ p # q
    /\ p.bits = q.bits /\ p.bits # 0
    /\ ParentOf(p) = ParentOf(q)

(* Neighbours in the sorted list: one pass looks at no others.              *)
Adjacent(s, p, q) ==
    /\ PrefixBefore(p, q)
    /\ ~\E r \in s : PrefixBefore(p, r) /\ PrefixBefore(r, q)

Merge(s, p, q) == Adjacent(s, p, q) /\ AreSiblings(p, q)

(* Two halves side by side become the prefix they fill.                     *)
MergeSiblings(s) ==
    { p \in s : \A q \in s : ~Merge(s, p, q) /\ ~Merge(s, q, p) }
    \cup { ParentOf(p) : p \in { p \in s : \E q \in s : Merge(s, p, q) } }

(* normalizePrefixes: until a pass merges nothing.                          *)
Settle[s \in SUBSET Prefix] ==
    LET kept == DropCovered(s)
        next == MergeSiblings(kept)
    IN  IF next = kept THEN next ELSE Settle[next]

NormalizePrefixes(in) == Settle[{ Masked(p) : p \in in }]

(* Of two prefixes that overlap, the longer one.                            *)
IntersectPrefixes(s, t) ==
    NormalizePrefixes({ q \in t : \E p \in s : Covers(p, q) }
                      \cup { p \in s : \E q \in t : Covers(q, p) })

(* splitPrefix                                                              *)
Halves(p) ==
    LET left == [p EXCEPT !.bits = @ + 1]
    IN  { left, [left EXCEPT !.addr = @ + SizeOf[left.bits]] }

(* subtractPrefix, of the second prefix from the first: halves that do not  *)
(* touch it stay, the one that holds it is halved again; a single address   *)
(* cannot be.                                                               *)
SubtractPrefix[ab \in Prefix \X Prefix] ==
    LET a == ab[1]
        b == ab[2]
    IN  IF ~Overlaps(a, b) THEN {a}
        ELSE IF Covers(b, a) \/ a.bits = Width THEN {}
        ELSE UNION { SubtractPrefix[<< half, b >>] : half \in Halves(a) }

(* Each prefix of the second list is taken out of what those before left.   *)
TakeOutPrefixes[lists \in (SUBSET Prefix) \X (SUBSET Prefix)] ==
    LET left == lists[1]
        b    == CHOOSE p \in lists[2] : TRUE
    IN  IF lists[2] = {} THEN left
        ELSE TakeOutPrefixes[<< UNION { SubtractPrefix[<< a, b >>] : a \in left }, lists[2] \ {b} >>]

SubtractPrefixes(s, t) == NormalizePrefixes(TakeOutPrefixes[<< s, t >>])

(* One form for each set of addresses, which is what Equal relies on.       *)
PrefixSet ==
    { s \in SUBSET Prefix : \A p, q \in s : p # q => ~Overlaps(p, q) /\ ~AreSiblings(p, q) }

(* What the passes compute, against the sets the prefixes stand for.        *)
PrefixesAreExact ==
    /\ \A ps \in SUBSET Written :
          NormalizePrefixes(ps) \in PrefixSet /\ AddressesIn(NormalizePrefixes(ps)) = AddressesIn(ps)
    /\ \A s, t \in PrefixSet :
          /\ IntersectPrefixes(s, t) \in PrefixSet
          /\ AddressesIn(IntersectPrefixes(s, t)) = AddressesIn(s) \cap AddressesIn(t)
          /\ SubtractPrefixes(s, t) \in PrefixSet
          /\ AddressesIn(SubtractPrefixes(s, t)) = AddressesIn(s) \ AddressesIn(t)
          /\ AddressesIn(s) = AddressesIn(t) => s = t

=============================================================================
