-------------------------- MODULE SnapshotFileProofs --------------------------
(***************************************************************************)
(* What is true of the snapshot file for any number of collectors, readers *)
(* and paths, and files of any length: where no save overlaps, nothing but *)
(* what was saved is ever read back, and a diff is of what was collected.  *)
(***************************************************************************)
EXTENDS SnapshotFile, SequenceTheorems, TLAPS

(* The first n parts of what c saves.                                       *)
Prefix(c, n) == [i \in 1 .. n |-> << c, i >>]

Path(r) == asks[r][Len(loaded[r]) + 1]

(* Who does what: a reader has a path to open or open while it goes on.     *)
Roles ==
    /\ \A c \in Collectors : /\ step[c] \in {"start", "write", "done"}
                             /\ step[c] = "start" => offset[c] = 0
    /\ \A r \in Readers :
        /\ step[r] \in {"start", "read", "done"}
        /\ step[r] # "done" => Len(loaded[r]) < Len(asks[r])
        /\ Len(loaded[r]) <= Len(asks[r])
        /\ step[r] = "read"  => Len(source[r]) = Len(loaded[r]) + 1
        /\ step[r] # "read" => Len(source[r]) = Len(loaded[r])

(* A path nobody has contested holds the first parts of its creator's       *)
(* snapshot, and nobody else is writing there.                              *)
Saved(p) ==
    IF creator[p] = Nobody THEN file[p] = NoFile /\ Saving(p) = {}
    ELSE Saving(p) \subseteq {creator[p]} /\ file[p] = Prefix(creator[p], offset[creator[p]])

Files ==
    /\ \A c \in Collectors : step[c] = "write" => file[output[c]] \in Seq(Cell)
    /\ \A r \in Readers : step[r] = "read" => file[Path(r)] \in Seq(Cell)
    /\ \A p \in Paths : creator[p] # Nobody => output[creator[p]] = p
    /\ \A p \in Paths \ contested : Saved(p)

(* A reader that no save overlaps has read the first parts of that file.    *)
Untouched(r) == step[r] = "read" /\ r \notin overlapped /\ Path(r) \notin contested

Undisturbed ==
    \A r \in Readers : Untouched(r) =>
        /\ Saving(Path(r)) = {}
        /\ creator[Path(r)] \in Collectors
        /\ source[r][Len(loaded[r]) + 1] = creator[Path(r)]
        /\ got[r] = Prefix(creator[Path(r)], Len(got[r]))
        /\ Len(got[r]) <= offset[creator[Path(r)]]

Inv == TypeOK /\ Roles /\ Files /\ Undisturbed /\ LoadsWhatWasSaved

-----------------------------------------------------------------------------
(* Parts and prefixes.                                                      *)

LEMMA NobodyCollects == Nobody \notin Collectors /\ Error \notin Collectors
BY NamesAssumption

LEMMA PrefixIsSeq ==
    ASSUME NEW c \in Collectors, NEW n \in 0 .. Parts
    PROVE  /\ Prefix(c, n) \in Seq(Cell) /\ Len(Prefix(c, n)) = n
           /\ \A i \in 1 .. n : Prefix(c, n)[i] = << c, i >>
<1>1. n \in Nat /\ 1 .. n \subseteq 1 .. Parts
  BY BoundsAssumption
<1>2. Prefix(c, n) \in [1 .. n -> Cell]
  BY <1>1 DEF Prefix, Cell
<1> QED
  BY <1>1, <1>2, SeqDef DEF Prefix

(* Put grows a file of cells by one of them.                                *)
LEMMA PutIsSeq ==
    ASSUME NEW cells \in Seq(Cell), NEW c \in Collectors, NEW n \in 0 .. Parts, n < Parts
    PROVE  Put(cells, c, n) \in Seq(Cell)
<1> DEFINE m == IF Len(cells) > n THEN Len(cells) ELSE n + 1
<1>1. m \in Nat /\ n + 1 \in 1 .. Parts
  BY BoundsAssumption
<1>2. \A i \in 1 .. m : (IF i = n + 1 THEN << c, i >>
                         ELSE IF i <= Len(cells) THEN cells[i] ELSE Hole) \in Cell
  BY <1>1 DEF Cell
<1>3. Put(cells, c, n) \in [1 .. m -> Cell]
  BY <1>2 DEF Put
<1> QED
  BY <1>1, <1>3, SeqDef

(* Where the file is what c has written, it is so with one part more.       *)
LEMMA PutExtends ==
    ASSUME NEW c \in Collectors, NEW n \in 0 .. Parts, n < Parts
    PROVE  Put(Prefix(c, n), c, n) = Prefix(c, n + 1)
<1>1. n \in Nat /\ Len(Prefix(c, n)) = n /\ \A i \in 1 .. n : Prefix(c, n)[i] = << c, i >>
  BY PrefixIsSeq, BoundsAssumption
<1>2. Put(Prefix(c, n), c, n) =
        [i \in 1 .. n + 1 |-> IF i = n + 1 THEN << c, i >>
                              ELSE IF i <= n THEN Prefix(c, n)[i] ELSE Hole]
  BY <1>1 DEF Put
<1>3. \A i \in 1 .. n + 1 : (IF i = n + 1 THEN << c, i >>
                             ELSE IF i <= n THEN Prefix(c, n)[i] ELSE Hole) = << c, i >>
  BY <1>1
<1> QED
  BY <1>2, <1>3 DEF Prefix

(* Reading the next part of it, too.                                        *)
LEMMA AppendExtends ==
    ASSUME NEW c \in Collectors, NEW n \in 0 .. Parts, n < Parts
    PROVE  Append(Prefix(c, n), << c, n + 1 >>) = Prefix(c, n + 1)
<1>1. n \in Nat /\ n + 1 \in 0 .. Parts /\ << c, n + 1 >> \in Cell
  BY BoundsAssumption DEF Cell
<1>2. /\ Prefix(c, n) \in Seq(Cell) /\ Len(Prefix(c, n)) = n
      /\ \A i \in 1 .. n : Prefix(c, n)[i] = << c, i >>
  BY PrefixIsSeq
<1>3. /\ Prefix(c, n + 1) \in Seq(Cell) /\ Len(Prefix(c, n + 1)) = n + 1
      /\ \A i \in 1 .. n + 1 : Prefix(c, n + 1)[i] = << c, i >>
  BY <1>1, PrefixIsSeq
<1>4. /\ Append(Prefix(c, n), << c, n + 1 >>) \in Seq(Cell)
      /\ Len(Append(Prefix(c, n), << c, n + 1 >>)) = n + 1
      /\ \A i \in 1 .. n + 1 : Append(Prefix(c, n), << c, n + 1 >>)[i] = << c, i >>
  BY <1>1, <1>2
<1> QED
  BY <1>3, <1>4, SeqEqual

(* A file that was written to the end decodes to its snapshot, one that was *)
(* not to an error.                                                         *)
LEMMA PrefixDecodes ==
    ASSUME NEW c \in Collectors, NEW n \in 0 .. Parts, NEW s \in Decoded(Prefix(c, n))
    PROVE  IF n = Parts THEN s = c ELSE s = Error
<1>1. Parts \in Nat \ {0} /\ n \in Nat /\ Parts \in 0 .. Parts
  BY BoundsAssumption
<1>2. \A d \in Collectors : Whole(d) = Prefix(d, Parts)
  BY DEF Whole, Prefix
<1>3. \A d \in Collectors : Len(Whole(d)) = Parts /\ Whole(d)[1] = << d, 1 >>
  BY <1>1, <1>2, PrefixIsSeq
<1>4. Len(Prefix(c, n)) = n
  BY PrefixIsSeq
<1>5. CASE n = Parts
  <2>1. Prefix(c, n) = Whole(c)
    BY <1>2, <1>5
  <2>2. ASSUME NEW d \in Collectors, Prefix(c, n) = Whole(d)
        PROVE  d = c
    <3>1. << c, 1 >> = << d, 1 >>
      BY <2>1, <2>2, <1>3, Zenon
    <3> QED
      BY <3>1
  <2> QED
    BY <2>1, <2>2, <1>5 DEF Decoded
<1>6. CASE n # Parts
  <2>1. \A d \in Collectors : Prefix(c, n) # Whole(d)
    BY <1>3, <1>4, <1>6
  <2> QED
    BY <2>1, <1>4, <1>6 DEF Decoded
<1> QED
  BY <1>5, <1>6

LEMMA DecodedKind ==
    \A cells : \A s \in Decoded(cells) : s \in Collectors \cup {Torn, Error}
BY DEF Decoded

-----------------------------------------------------------------------------
(* Kinds.                                                                   *)

LEMMA InvInit == Init => Inv
<1> SUFFICES ASSUME Init PROVE Inv
  OBVIOUS
<1> USE NamesAssumption, BoundsAssumption
<1>1. history \in Seq(Network) /\ history # << >>
  <2>1. PICK n \in Network : history = << n >>
    BY DEF Init
  <2> QED
    BY <2>1
<1>2. ASSUME NEW r \in Readers PROVE asks[r] \in Seq(Paths) /\ Len(asks[r]) \in {1, 2}
  <2>1. \/ \E p \in Paths : asks[r] = << p >>
        \/ \E p, q \in Paths : asks[r] = << p, q >>
    BY DEF Init
  <2>2. ASSUME NEW p \in Paths, asks[r] = << p >>
        PROVE  asks[r] \in Seq(Paths) /\ Len(asks[r]) \in {1, 2}
    BY <2>2
  <2>3. ASSUME NEW p \in Paths, NEW q \in Paths, asks[r] = << p, q >>
        PROVE  asks[r] \in Seq(Paths) /\ Len(asks[r]) \in {1, 2}
    BY <2>3
  <2> QED
    BY <2>1, <2>2, <2>3
<1>3. TypeOK
  <2>1. step \in [Collectors \cup Readers -> Steps]
    BY DEF Init, Steps
  <2>2. record \in [Collectors -> [Objects -> Recorded]] /\ failed \in [Collectors -> SUBSET Objects]
    BY DEF Init, Recorded
  <2>3. /\ begun \in [Collectors -> Nat] /\ ended \in [Collectors -> Nat]
        /\ offset \in [Collectors -> 0 .. Parts]
        /\ output \in [Collectors -> Paths] /\ build \in Builds
    BY DEF Init
  <2>4. /\ file \in [Paths -> Seq(Cell) \cup {NoFile}]
        /\ creator \in [Paths -> Collectors \cup {Nobody}] /\ contested \subseteq Paths
    BY DEF Init
  <2>5. /\ got \in [Readers -> Seq(Cell)]
        /\ loaded \in [Readers -> Seq(Collectors \cup {Torn, Error})]
        /\ source \in [Readers -> Seq(Collectors \cup {Nobody})]
        /\ overlapped \subseteq Readers
    BY DEF Init
  <2> QED
    BY <1>1, <1>2, <2>1, <2>2, <2>3, <2>4, <2>5 DEF TypeOK
<1>4. Roles
  <2>1. \A c \in Collectors : step[c] = "start" /\ offset[c] = 0
    BY DEF Init
  <2>2. \A r \in Readers : /\ step[r] = "start" /\ Len(loaded[r]) = 0
                            /\ Len(source[r]) = 0
    BY DEF Init
  <2>3. \A r \in Readers : Len(asks[r]) > 0
    BY <1>2
  <2> QED
    BY <2>1, <2>2, <2>3 DEF Roles
<1>5. Files
  BY DEF Init, Files, Saved, Saving
<1>6. Undisturbed
  BY DEF Init, Undisturbed, Untouched
<1>7. LoadsWhatWasSaved
  BY DEF Init, LoadsWhatWasSaved
<1> QED
  BY <1>3, <1>4, <1>5, <1>6, <1>7 DEF Inv

(* A network that has been is a network.                                    *)
LEMMA NowIsNetwork == TypeOK => Len(history) \in Nat \ {0} /\ Now \in Network
<1> SUFFICES ASSUME history \in Seq(Network), history # << >>
             PROVE  Len(history) \in Nat \ {0} /\ history[Len(history)] \in Network
  BY DEF TypeOK, Now
<1>1. Len(history) # 0
  BY EmptySeq
<1> QED
  BY <1>1

(* A reader that goes on has a path to go on with.                          *)
LEMMA PathIsPath ==
    ASSUME TypeOK, Roles, NEW r \in Readers, step[r] # "done"
    PROVE  /\ Path(r) \in Paths
           /\ Len(loaded[r]) + 1 \in 1 .. Len(asks[r]) /\ Len(loaded[r]) \in Nat
<1>1. /\ asks[r] \in Seq(Paths) /\ Len(loaded[r]) \in Nat /\ Len(asks[r]) \in Nat
      /\ Len(loaded[r]) < Len(asks[r])
  BY LenProperties DEF TypeOK, Roles
<1>2. Len(loaded[r]) + 1 \in 1 .. Len(asks[r])
  BY <1>1
<1> QED
  BY <1>1, <1>2, ElementOfSeq DEF Path

(* Put and Created are of cells, whatever was in the file.                  *)
LEMMA TypeStep == TypeOK /\ Roles /\ Files /\ [Next]_vars => TypeOK'
<1> SUFFICES ASSUME TypeOK, Roles, Files, [Next]_vars PROVE TypeOK'
  OBVIOUS
<1> USE NamesAssumption, BoundsAssumption
<1>1. Now \in Network /\ Len(history) \in Nat \ {0}
  BY NowIsNetwork
<1>2. CASE Change
  <2>1. PICK o \in Objects, v \in Configs \cup {Absent} :
            history' = Append(history, [Now EXCEPT ![o] = v])
    BY <1>2 DEF Change
  <2>2. [Now EXCEPT ![o] = v] \in Network
    BY <1>1 DEF Network
  <2>3. history' \in Seq(Network) /\ history' # << >>
    <3>1. history \in Seq(Network)
      BY DEF TypeOK
    <3> HIDE DEF Network
    <3> QED
      BY <2>1, <2>2, <3>1, AppendProperties
  <2> QED
    BY <2>3, <1>2 DEF TypeOK, Change, setup, collected, disk, reads
<1>3. ASSUME NEW c \in Collectors, Gather(c) PROVE TypeOK'
  <2>1. PICK o \in Scope[c] :
            /\ begun' = [begun EXCEPT ![c] = IF @ = 0 THEN Len(history) ELSE @]
            /\ ended' = [ended EXCEPT ![c] = Len(history)]
            /\ \/ /\ \E x \in Forms(o, Now[o]) \cup {Partial} :
                        record' = [record EXCEPT ![c][o] = x]
                  /\ UNCHANGED failed
               \/ /\ failed' = [failed EXCEPT ![c] = @ \cup {o}]
                  /\ UNCHANGED record
    BY <1>3 DEF Gather
  <2>2. o \in Objects /\ Forms(o, Now[o]) \cup {Partial} \subseteq Recorded
    <3>1. o \in Objects
      OBVIOUS
    <3>2. Now[o] \in Configs \cup {Absent}
      BY <3>1, <1>1 DEF Network
    <3> QED
      BY <3>1, <3>2 DEF Recorded, Content, Forms
  <2>3. record' \in [Collectors -> [Objects -> Recorded]]
    <3>1. record \in [Collectors -> [Objects -> Recorded]]
      BY DEF TypeOK
    <3>2. \A v \in Recorded : [record EXCEPT ![c][o] = v] \in [Collectors -> [Objects -> Recorded]]
      BY <3>1, <2>2
    <3>3. CASE record' = record
      BY <3>1, <3>3
    <3>4. ASSUME NEW x \in Forms(o, Now[o]) \cup {Partial}, record' = [record EXCEPT ![c][o] = x]
          PROVE  record' \in [Collectors -> [Objects -> Recorded]]
      <4>1. x \in Recorded
        BY <2>2
      <4> QED
        BY <3>2, <3>4, <4>1
    <3> QED
      BY <3>3, <3>4, <2>1
  <2>4. failed' \in [Collectors -> SUBSET Objects]
    <3>1. CASE failed' = failed
      BY <3>1 DEF TypeOK
    <3>2. CASE failed' = [failed EXCEPT ![c] = @ \cup {o}]
      BY <3>2, <2>2 DEF TypeOK
    <3> QED
      BY <3>1, <3>2, <2>1
  <2>5. begun' \in [Collectors -> Nat] /\ ended' \in [Collectors -> Nat]
    BY <2>1, <1>1 DEF TypeOK
  <2> QED
    BY <2>3, <2>4, <2>5, <1>3 DEF TypeOK, Gather, setup, disk, reads
<1>4. ASSUME NEW c \in Collectors, Create(c) PROVE TypeOK'
  <2>1. step' \in [Collectors \cup Readers -> Steps]
    BY <1>4 DEF Create, TypeOK, Steps
  <2>2. /\ file' \in [Paths -> Seq(Cell) \cup {NoFile}]
        /\ creator' \in [Paths -> Collectors \cup {Nobody}]
        /\ contested' \subseteq Paths /\ overlapped' \subseteq Readers
    <3>1. output[c] \in Paths /\ << >> \in Seq(Cell) /\ Reading(output[c]) \subseteq Readers
      BY DEF TypeOK, Reading
    <3>2. CASE UNCHANGED << disk, overlapped >>
      BY <3>2 DEF TypeOK, disk
    <3>3. ASSUME file' = [file EXCEPT ![output[c]] = Created(output[c])],
                 creator' = [creator EXCEPT ![output[c]] = c],
                 contested' = contested \cup { p \in {output[c]} : Saving(p) # {} },
                 overlapped' = overlapped \cup Reading(output[c])
          PROVE  /\ file' \in [Paths -> Seq(Cell) \cup {NoFile}]
                 /\ creator' \in [Paths -> Collectors \cup {Nobody}]
                 /\ contested' \subseteq Paths /\ overlapped' \subseteq Readers
      <4>1. file' \in [Paths -> Seq(Cell) \cup {NoFile}]
        BY <3>1, <3>3 DEF TypeOK, Created
      <4>2. creator' \in [Paths -> Collectors \cup {Nobody}]
        BY <3>3 DEF TypeOK
      <4>3. contested' \subseteq Paths /\ overlapped' \subseteq Readers
        BY <3>1, <3>3 DEF TypeOK
      <4> QED
        BY <4>1, <4>2, <4>3
    <3> QED
      BY <3>2, <3>3, <1>4 DEF Create
  <2> QED
    BY <2>1, <2>2, <1>4 DEF TypeOK, Create, setup, collected
<1>5. ASSUME NEW c \in Collectors, WritePart(c) PROVE TypeOK'
  <2>1. offset[c] \in 0 .. Parts /\ offset[c] < Parts /\ output[c] \in Paths
        /\ file[output[c]] \in Seq(Cell)
    BY <1>5 DEF WritePart, TypeOK, Files
  <2>2. Put(file[output[c]], c, offset[c]) \in Seq(Cell)
    BY <2>1, PutIsSeq
  <2>3. file' \in [Paths -> Seq(Cell) \cup {NoFile}]
    BY <2>2, <1>5 DEF WritePart, TypeOK
  <2>4. offset' \in [Collectors -> 0 .. Parts]
    BY <2>1, <1>5 DEF WritePart, TypeOK
  <2> QED
    BY <2>3, <2>4, <1>5 DEF TypeOK, WritePart, setup, collected, reads
<1>6. ASSUME NEW c \in Collectors, Close(c) PROVE TypeOK'
  BY <1>6 DEF Close, TypeOK, Steps, setup, collected, disk, reads
<1>7. ASSUME NEW r \in Readers, Open(r) PROVE TypeOK'
  <2>0. \/ /\ step' = [step EXCEPT ![r] = "done"]
           /\ loaded' = [loaded EXCEPT ![r] = Append(@, Error)]
           /\ UNCHANGED << got, overlapped >>
        \/ /\ step' = [step EXCEPT ![r] = "read"]
           /\ got' = [got EXCEPT ![r] = << >>]
           /\ overlapped' = overlapped \cup { x \in {r} : Saving(Path(r)) # {} }
           /\ UNCHANGED loaded
    BY <1>7 DEF Open, Path
  <2>1. step' \in [Collectors \cup Readers -> Steps]
    BY <2>0 DEF TypeOK, Steps
  <2>2. source' \in [Readers -> Seq(Collectors \cup {Nobody})]
    <3>1. Path(r) \in Paths
      BY <1>7, PathIsPath DEF Open
    <3> QED
      BY <3>1, <1>7 DEF Open, TypeOK, Path
  <2>3. /\ loaded' \in [Readers -> Seq(Collectors \cup {Torn, Error})]
        /\ got' \in [Readers -> Seq(Cell)] /\ overlapped' \subseteq Readers
    <3>1. Append(loaded[r], Error) \in Seq(Collectors \cup {Torn, Error}) /\ << >> \in Seq(Cell)
      BY DEF TypeOK
    <3>0. /\ loaded \in [Readers -> Seq(Collectors \cup {Torn, Error})]
          /\ got \in [Readers -> Seq(Cell)]
      BY DEF TypeOK
    <3>2. got[r] \in Seq(Cell) /\ { x \in {r} : Saving(Path(r)) # {} } \subseteq Readers
      BY DEF TypeOK
    <3>3. /\ \/ loaded' = loaded
             \/ loaded' = [loaded EXCEPT ![r] = Append(loaded[r], Error)]
          /\ got' = got \/ got' = [got EXCEPT ![r] = << >>]
          /\ \/ overlapped' = overlapped
             \/ overlapped' = overlapped \cup { x \in {r} : Saving(Path(r)) # {} }
      BY <2>0
    <3>4. loaded' \in [Readers -> Seq(Collectors \cup {Torn, Error})]
      BY <3>0, <3>1, <3>3
    <3>5. got' \in [Readers -> Seq(Cell)]
      <4>1. CASE got' = got
        BY <4>1, <3>0
      <4>2. CASE got' = [got EXCEPT ![r] = << >>]
        BY <4>2, <3>0, <3>1
      <4> QED
        BY <4>1, <4>2, <3>3
    <3>6. overlapped' \subseteq Readers
      BY <3>2, <3>3 DEF TypeOK
    <3> QED
      BY <3>4, <3>5, <3>6
  <2> QED
    BY <2>1, <2>2, <2>3, <1>7 DEF TypeOK, Open, setup, collected, disk
<1>8. ASSUME NEW r \in Readers, ReadPart(r) PROVE TypeOK'
  <2>1. file[Path(r)] \in Seq(Cell) /\ got[r] \in Seq(Cell)
    BY <1>8 DEF ReadPart, TypeOK, Files
  <2>2. got' = [got EXCEPT ![r] = Append(@, file[Path(r)][Len(got[r]) + 1])]
        /\ Len(got[r]) < Len(file[Path(r)])
    BY <1>8 DEF ReadPart, Path
  <2>3. got' \in [Readers -> Seq(Cell)]
    BY <2>1, <2>2 DEF TypeOK
  <2> QED
    BY <2>3, <1>8 DEF TypeOK, ReadPart, setup, collected, disk
<1>9. ASSUME NEW r \in Readers, Decode(r) PROVE TypeOK'
  <2>1. PICK s \in Decoded(got[r]) :
            /\ loaded' = [loaded EXCEPT ![r] = Append(@, Accepted(r, s))]
            /\ step' = [step EXCEPT ![r] =
                  IF Accepted(r, s) # Error /\ Len(loaded[r]) + 1 < Len(asks[r])
                  THEN "start" ELSE "done"]
    BY <1>9 DEF Decode
  <2>2. Accepted(r, s) \in Collectors \cup {Torn, Error}
    BY DecodedKind DEF Accepted
  <2>3. loaded' \in [Readers -> Seq(Collectors \cup {Torn, Error})]
    BY <2>1, <2>2 DEF TypeOK
  <2>4. step' \in [Collectors \cup Readers -> Steps]
    BY <2>1 DEF TypeOK, Steps
  <2> QED
    BY <2>3, <2>4, <1>9 DEF TypeOK, Decode, setup, collected, disk
<1>10. CASE UNCHANGED vars
  BY <1>10 DEF vars, TypeOK, setup, collected, disk, reads
<1> QED
  BY <1>2, <1>3, <1>4, <1>5, <1>6, <1>7, <1>8, <1>9, <1>10 DEF Next, Collector, Reader

-----------------------------------------------------------------------------
(* Who does what.                                                           *)

LEMMA OpenDoes ==
    ASSUME NEW r \in Readers, Open(r)
    PROVE  /\ step[r] = "start"
           /\ source' = [source EXCEPT ![r] = Append(@, creator[Path(r)])]
           /\ \/ /\ step' = [step EXCEPT ![r] = "done"]
                 /\ loaded' = [loaded EXCEPT ![r] = Append(@, Error)]
                 /\ UNCHANGED << got, overlapped >>
              \/ /\ file[Path(r)] # NoFile
                 /\ step' = [step EXCEPT ![r] = "read"]
                 /\ got' = [got EXCEPT ![r] = << >>]
                 /\ overlapped' = overlapped \cup { x \in {r} : Saving(Path(r)) # {} }
                 /\ UNCHANGED loaded
BY DEF Open, Path

LEMMA RolesStep == TypeOK /\ Roles /\ [Next]_vars => Roles'
<1> SUFFICES ASSUME TypeOK, Roles, [Next]_vars PROVE Roles'
  OBVIOUS
<1> USE NamesAssumption, BoundsAssumption
<1> DEFINE IsReader(r) ==
        /\ step[r] \in {"start", "read", "done"}
        /\ step[r] # "done" => Len(loaded[r]) < Len(asks[r])
        /\ Len(loaded[r]) <= Len(asks[r])
        /\ step[r] = "read"  => Len(source[r]) = Len(loaded[r]) + 1
        /\ step[r] # "read" => Len(source[r]) = Len(loaded[r])
<1> DEFINE IsCollector(c) ==
        /\ step[c] \in {"start", "write", "done"}
        /\ step[c] = "start" => offset[c] = 0
<1>1. /\ \A c \in Collectors : IsCollector(c)
      /\ \A r \in Readers : IsReader(r)
  BY DEF Roles
<1>2. SUFFICES /\ \A c \in Collectors : IsCollector(c)'
               /\ \A r \in Readers : IsReader(r)'
  BY DEF Roles
<1>k. /\ step \in [Collectors \cup Readers -> Steps] /\ offset \in [Collectors -> 0 .. Parts]
      /\ loaded \in [Readers -> Seq(Collectors \cup {Torn, Error})]
      /\ source \in [Readers -> Seq(Collectors \cup {Nobody})]
      /\ \A r \in Readers : asks[r] \in Seq(Paths)
  BY DEF TypeOK
<1>3. CASE UNCHANGED << step, offset, loaded, source, asks >>
  BY <1>1, <1>3
<1>4. ASSUME NEW c \in Collectors, Create(c) \/ WritePart(c) \/ Close(c)
      PROVE  /\ \A d \in Collectors : IsCollector(d)'
             /\ \A r \in Readers : IsReader(r)'
  <2>1. UNCHANGED << loaded, source, asks >>
    BY <1>4 DEF Create, WritePart, Close, setup, reads
  <2>2. \A r \in Readers : step'[r] = step[r]
    BY <1>4, <1>k DEF Create, WritePart, Close
  <2>3. \A r \in Readers : IsReader(r)'
    BY <2>1, <2>2, <1>1
  <2>4. CASE Create(c)
    BY <2>4, <2>3, <1>1, <1>k DEF Create
  <2>5. CASE WritePart(c)
    BY <2>5, <2>3, <1>1, <1>k DEF WritePart
  <2>6. CASE Close(c)
    BY <2>6, <2>3, <1>1, <1>k DEF Close
  <2> QED
    BY <1>4, <2>4, <2>5, <2>6
<1>5. ASSUME NEW r \in Readers, Open(r) \/ Decode(r)
      PROVE  /\ \A d \in Collectors : IsCollector(d)'
             /\ \A q \in Readers : IsReader(q)'
  <2>1. offset' = offset /\ asks' = asks
    BY <1>5 DEF Open, Decode, setup
  <2>2. \A x \in Collectors \cup Readers : x # r => step'[x] = step[x]
    BY <1>5, <1>k DEF Open, Decode
  <2>3. \A q \in Readers : q # r => loaded'[q] = loaded[q] /\ source'[q] = source[q]
    BY <1>5, <1>k DEF Open, Decode
  <2>4. IsReader(r)'
    <3>1. CASE Open(r)
      <4>a. creator[Path(r)] \in Collectors \cup {Nobody}
        <5>1. Path(r) \in Paths
          BY <3>1, OpenDoes, PathIsPath
        <5> QED
          BY <5>1 DEF TypeOK
      <4>b. /\ step[r] = "start"
            /\ source' = [source EXCEPT ![r] = Append(@, creator[Path(r)])]
            /\ \/ /\ step' = [step EXCEPT ![r] = "done"]
                  /\ loaded' = [loaded EXCEPT ![r] = Append(@, Error)]
               \/ /\ step' = [step EXCEPT ![r] = "read"] /\ loaded' = loaded
        BY <3>1, OpenDoes
      <4>1. /\ step[r] = "start"
            /\ source'[r] = Append(source[r], creator[Path(r)])
            /\ \/ step'[r] = "done" /\ loaded'[r] = Append(loaded[r], Error)
               \/ step'[r] = "read" /\ loaded'[r] = loaded[r]
        BY <4>b, <1>k
      <4>2. /\ Len(Append(loaded[r], Error)) = Len(loaded[r]) + 1
            /\ Len(source'[r]) = Len(source[r]) + 1
        <5>1. loaded[r] \in Seq(Collectors \cup {Torn, Error})
              /\ source[r] \in Seq(Collectors \cup {Nobody})
          BY <1>k
        <5>2. Len(Append(loaded[r], Error)) = Len(loaded[r]) + 1
          BY <5>1
        <5>3. Len(Append(source[r], creator[Path(r)])) = Len(source[r]) + 1
          BY <5>1, <4>a, AppendProperties
        <5> QED
          BY <4>1, <5>2, <5>3
      <4>3. Len(loaded[r]) \in Nat /\ Len(source[r]) \in Nat /\ Len(asks[r]) \in Nat
        BY <1>k, LenProperties
      <4>4. /\ Len(source[r]) = Len(loaded[r]) /\ Len(loaded[r]) < Len(asks[r])
            /\ asks'[r] = asks[r]
        BY <4>1, <1>1, <2>1
      <4> QED
        BY <4>1, <4>2, <4>3, <4>4
    <3>2. CASE Decode(r)
      <4>1. PICK s \in Decoded(got[r]) :
                /\ step[r] = "read" /\ source' = source
                /\ loaded'[r] = Append(loaded[r], Accepted(r, s))
                /\ step'[r] = IF Accepted(r, s) # Error /\ Len(loaded[r]) + 1 < Len(asks[r])
                              THEN "start" ELSE "done"
        BY <3>2, <1>k DEF Decode
      <4>2. Accepted(r, s) \in Collectors \cup {Torn, Error}
        BY DecodedKind DEF Accepted
      <4>3. Len(loaded'[r]) = Len(loaded[r]) + 1
        BY <4>1, <4>2, <1>k, AppendProperties
      <4>4. Len(loaded[r]) \in Nat /\ Len(source[r]) \in Nat /\ Len(asks[r]) \in Nat
        BY <1>k, LenProperties
      <4>5. /\ Len(source[r]) = Len(loaded[r]) + 1 /\ Len(loaded[r]) < Len(asks[r])
            /\ asks'[r] = asks[r] /\ source'[r] = source[r]
        BY <4>1, <1>1, <2>1
      <4> QED
        BY <4>1, <4>3, <4>4, <4>5
    <3> QED
      BY <1>5, <3>1, <3>2
  <2> QED
    BY <2>1, <2>2, <2>3, <2>4, <1>1
<1>6. ASSUME NEW c \in Collectors, Gather(c) PROVE UNCHANGED << step, offset, loaded, source, asks >>
  BY <1>6 DEF Gather, setup, reads
<1>7. ASSUME NEW r \in Readers, ReadPart(r) PROVE UNCHANGED << step, offset, loaded, source, asks >>
  BY <1>7 DEF ReadPart, setup
<1>8. CASE Change
  BY <1>8, <1>3 DEF Change, setup, reads
<1>9. CASE UNCHANGED vars
  BY <1>9, <1>3 DEF vars, setup, reads
<1> QED
  BY <1>3, <1>4, <1>5, <1>6, <1>7, <1>8, <1>9 DEF Next, Collector, Reader

-----------------------------------------------------------------------------
(* What is in the files.                                                    *)

LEMMA WriteDoes ==
    ASSUME NEW c \in Collectors, TypeOK, WritePart(c)
    PROVE  /\ step' = step /\ creator' = creator /\ contested' = contested
           /\ output' = output /\ output[c] \in Paths
           /\ file' = [file EXCEPT ![output[c]] = Put(file[output[c]], c, offset[c])]
           /\ offset' = [offset EXCEPT ![c] = offset[c] + 1]
           /\ step[c] = "write" /\ offset[c] \in 0 .. Parts /\ offset[c] < Parts
BY DEF WritePart, setup, TypeOK

LEMMA CreateDoes ==
    ASSUME NEW c \in Collectors, TypeOK, Create(c)
    PROVE  /\ step[c] = "start" /\ output' = output /\ offset' = offset
           /\ output[c] \in Paths
           /\ \/ /\ step' = [step EXCEPT ![c] = "write"]
                 /\ file' = [file EXCEPT ![output[c]] = << >>]
                 /\ creator' = [creator EXCEPT ![output[c]] = c]
                 /\ contested' = contested \cup { p \in {output[c]} : Saving(p) # {} }
                 /\ overlapped' = overlapped \cup Reading(output[c])
              \/ /\ step' = [step EXCEPT ![c] = "done"]
                 /\ UNCHANGED << file, creator, contested, overlapped >>
BY DEF Create, setup, Created, disk, TypeOK

(* A file, once created, stays one.                                         *)
LEMMA CellsStep ==
    ASSUME TypeOK, Roles, Files, [Next]_vars
    PROVE  /\ \A c \in Collectors : step'[c] = "write" => file'[output'[c]] \in Seq(Cell)
           /\ \A r \in Readers : step'[r] = "read" => file'[Path(r)'] \in Seq(Cell)
<1> USE NamesAssumption
<1>1. TypeOK'
  BY TypeStep
<1>2. /\ step \in [Collectors \cup Readers -> Steps]
      /\ file \in [Paths -> Seq(Cell) \cup {NoFile}]
      /\ \A c \in Collectors : output[c] \in Paths
      /\ << >> \in Seq(Cell)
  BY DEF TypeOK
<1>3. ASSUME NEW p \in Paths, file[p] \in Seq(Cell) PROVE file'[p] \in Seq(Cell)
  <2>1. CASE file' = file
    BY <1>3, <2>1
  <2>2. ASSUME NEW c \in Collectors, Create(c) PROVE file'[p] \in Seq(Cell)
    BY <2>2, <1>2, <1>3, CreateDoes
  <2>3. ASSUME NEW c \in Collectors, WritePart(c) PROVE file'[p] \in Seq(Cell)
    <3>1. file[output[c]] \in Seq(Cell)
      BY <2>3, WriteDoes DEF Files
    <3>2. Put(file[output[c]], c, offset[c]) \in Seq(Cell)
      BY <3>1, <2>3, WriteDoes, PutIsSeq
    <3> QED
      BY <3>2, <2>3, <1>2, <1>3, WriteDoes
  <2> QED
    BY <2>1, <2>2, <2>3
    DEF Next, Collector, Reader, Change, Gather, Close, Open, ReadPart, Decode, vars, disk
<1>4. ASSUME NEW c \in Collectors, step'[c] = "write" PROVE file'[output'[c]] \in Seq(Cell)
  <2>1. output' = output
    BY DEF Next, Collector, Reader, Change, Gather, Create, WritePart, Close, Open, ReadPart,
           Decode, vars, setup
  <2>2. CASE step[c] = "write"
    BY <2>1, <2>2, <1>2, <1>3 DEF Files
  <2>3. CASE step[c] # "write"
    <3>1. Create(c)
      <4>1. step' # step
        BY <2>3, <1>4
      <4>2. ASSUME NEW d \in Collectors, Create(d), d # c PROVE FALSE
        BY <4>2, <2>3, <1>4, <1>2, CreateDoes
      <4>3. ASSUME NEW d \in Collectors, Close(d) PROVE FALSE
        BY <4>3, <2>3, <1>4, <1>2 DEF Close
      <4>4. ASSUME NEW r \in Readers, Open(r) PROVE FALSE
        BY <4>4, <2>3, <1>4, <1>2, OpenDoes
      <4>5. ASSUME NEW r \in Readers, Decode(r) PROVE FALSE
        BY <4>5, <2>3, <1>4, <1>2 DEF Decode
      <4> QED
        BY <4>1, <4>2, <4>3, <4>4, <4>5
        DEF Next, Collector, Reader, Change, Gather, WritePart, ReadPart, vars
    <3> QED
      BY <3>1, <2>1, <1>2, <1>4, CreateDoes
  <2> QED
    BY <2>2, <2>3
<1>5. ASSUME NEW r \in Readers, step'[r] = "read" PROVE file'[Path(r)'] \in Seq(Cell)
  <2>1. asks' = asks
    BY DEF Next, Collector, Reader, Change, Gather, Create, WritePart, Close, Open, ReadPart,
           Decode, vars, setup
  <2>2. \/ step[r] = "read" \/ Open(r)
    <3>1. ASSUME NEW d \in Collectors, Create(d) \/ Close(d) PROVE step'[r] = step[r]
      BY <3>1, <1>2 DEF Create, Close
    <3>2. ASSUME NEW q \in Readers, q # r, Open(q) \/ Decode(q) PROVE step'[r] = step[r]
      BY <3>2, <1>2 DEF Open, Decode
    <3>3. CASE Decode(r)
      BY <3>3 DEF Decode
    <3> QED
      BY <3>1, <3>2, <3>3, <1>5
      DEF Next, Collector, Reader, Change, Gather, WritePart, ReadPart, vars
  <2>3. loaded'[r] = loaded[r]
    <3>1. CASE Open(r)
      BY <3>1, <1>2, <1>5, OpenDoes
    <3>2. ASSUME NEW q \in Readers, q # r, Open(q) \/ Decode(q) PROVE loaded'[r] = loaded[r]
      BY <3>2 DEF Open, Decode, TypeOK
    <3>3. CASE Decode(r)
      BY <3>3, <1>2, <1>5 DEF Decode
    <3> QED
      BY <3>1, <3>2, <3>3
      DEF Next, Collector, Reader, Change, Gather, Create, WritePart, Close, ReadPart, vars, reads
  <2>4. Path(r)' = Path(r)
    BY <2>1, <2>3 DEF Path
  <2>5. CASE step[r] = "read"
    <3>1. Path(r) \in Paths /\ file[Path(r)] \in Seq(Cell)
      BY <2>5, PathIsPath DEF Files
    <3> QED
      BY <3>1, <2>4, <1>3
  <2>6. CASE Open(r)
    <3>1. step[r] # "done" /\ file[Path(r)] # NoFile
      BY <2>6, <1>2, <1>5, OpenDoes
    <3>2. Path(r) \in Paths
      BY <3>1, PathIsPath
    <3> QED
      BY <3>1, <3>2, <2>4, <1>2, <1>3
  <2> QED
    BY <2>2, <2>5, <2>6
<1> QED
  BY <1>4, <1>5

(* Reading and collecting leave the files and their writers alone.          *)
LEMMA OthersLeaveFiles ==
    ASSUME TypeOK,
           \/ Change \/ UNCHANGED vars
           \/ \E c \in Collectors : Gather(c)
           \/ \E r \in Readers : Open(r) \/ ReadPart(r) \/ Decode(r)
    PROVE  /\ UNCHANGED << file, creator, contested, output, offset >>
           /\ \A c \in Collectors : step'[c] = step[c]
           /\ \A p \in Paths : Saving(p)' = Saving(p)
<1>1. UNCHANGED << file, creator, contested, output, offset >>
  BY DEF Change, vars, Gather, Open, ReadPart, Decode, setup, disk
<1>2. \A c \in Collectors : step'[c] = step[c]
  BY NamesAssumption DEF TypeOK, Change, vars, Gather, Open, ReadPart, Decode
<1> QED
  BY <1>1, <1>2 DEF Saving

LEMMA FilesStep == TypeOK /\ Roles /\ Files /\ [Next]_vars => Files'
<1> SUFFICES ASSUME TypeOK, Roles, Files, [Next]_vars PROVE Files'
  OBVIOUS
<1> USE NamesAssumption
<1> DEFINE Fine == /\ \A p \in Paths : creator[p] # Nobody => output[creator[p]] = p
                   /\ \A p \in Paths \ contested : Saved(p)
<1>1. Fine
  BY DEF Files
<1>2. SUFFICES Fine'
  BY CellsStep DEF Files
<1>3. /\ step \in [Collectors \cup Readers -> Steps]
      /\ file \in [Paths -> Seq(Cell) \cup {NoFile}]
      /\ creator \in [Paths -> Collectors \cup {Nobody}]
      /\ offset \in [Collectors -> 0 .. Parts]
      /\ \A c \in Collectors : output[c] \in Paths
  BY DEF TypeOK
<1>4. ASSUME UNCHANGED << file, creator, contested, output, offset >>,
             \A p \in Paths : Saving(p)' \subseteq Saving(p)
      PROVE  Fine'
  BY <1>1, <1>4 DEF Saved, Prefix
<1>5. ASSUME NEW c \in Collectors, Create(c) PROVE Fine'
  <2>1. CASE step' = [step EXCEPT ![c] = "done"] /\ UNCHANGED << file, creator, contested >>
    <3>1. \A p \in Paths : Saving(p)' \subseteq Saving(p)
      BY <2>1, <1>3, <1>5, CreateDoes DEF Saving
    <3> QED
      BY <2>1, <3>1, <1>4, <1>5, CreateDoes
  <2>2. ASSUME step' = [step EXCEPT ![c] = "write"],
               file' = [file EXCEPT ![output[c]] = << >>],
               creator' = [creator EXCEPT ![output[c]] = c],
               contested' = contested \cup { p \in {output[c]} : Saving(p) # {} }
        PROVE  Fine'
    <3>1. UNCHANGED << output, offset >> /\ offset[c] = 0 /\ output[c] \in Paths
      BY <1>5, CreateDoes DEF Roles
    <3>2. \A p \in Paths : creator'[p] # Nobody => output'[creator'[p]] = p
      BY <2>2, <3>1, <1>1, <1>3
    <3>3. ASSUME NEW p \in Paths \ contested' PROVE Saved(p)'
      <4>1. CASE p = output[c]
        <5>1. Saving(p) = {}
          BY <4>1, <3>3, <2>2
        <5>2. Saving(p)' \subseteq {c}
          BY <5>1, <2>2, <3>1, <1>3 DEF Saving
        <5>3. creator'[p] = c /\ file'[p] = << >> /\ offset'[c] = 0
          BY <4>1, <2>2, <3>1, <1>3
        <5>4. Prefix(c, 0) = << >>
          BY PrefixIsSeq, EmptySeq, BoundsAssumption
        <5> QED
          BY <5>2, <5>3, <5>4 DEF Saved, Prefix
      <4>2. CASE p # output[c]
        <5>1. Saving(p)' \subseteq Saving(p)
          BY <4>2, <2>2, <3>1, <1>3 DEF Saving
        <5>2. creator'[p] = creator[p] /\ file'[p] = file[p]
          BY <4>2, <2>2, <1>3
        <5>3. Saved(p)
          BY <1>1, <2>2, <3>3
        <5> QED
          BY <5>1, <5>2, <5>3, <3>1 DEF Saved, Prefix
      <4> QED
        BY <4>1, <4>2
    <3> QED
      BY <3>2, <3>3
  <2> QED
    BY <2>1, <2>2, <1>5, CreateDoes
<1>6. ASSUME NEW c \in Collectors, WritePart(c) PROVE Fine'
  <2>1. \A p \in Paths : Saving(p)' = Saving(p)
    BY <1>6, WriteDoes DEF Saving
  <2>2. \A p \in Paths : creator'[p] # Nobody => output'[creator'[p]] = p
    BY <1>1, <1>6, WriteDoes
  <2>3. ASSUME NEW p \in Paths \ contested' PROVE Saved(p)'
    <3>1. Saved(p)
      BY <2>3, <1>1, <1>6, WriteDoes
    <3>2. CASE p = output[c]
      <4>1. c \in Saving(p)
        BY <3>2, <1>6, WriteDoes DEF Saving
      <4>2. creator[p] = c /\ file[p] = Prefix(c, offset[c]) /\ Saving(p) \subseteq {c}
        BY <3>1, <4>1 DEF Saved
      <4>3. file'[p] = Prefix(c, offset[c] + 1)
        BY <3>2, <4>2, <1>3, <1>6, WriteDoes, PutExtends
      <4> QED
        BY <4>2, <4>3, <2>1, <1>3, <1>6, WriteDoes DEF Saved, Prefix
    <3>3. CASE p # output[c]
      <4>1. file'[p] = file[p] /\ creator'[p] = creator[p] /\ Saving(p)' = Saving(p)
        BY <3>3, <2>1, <1>3, <1>6, WriteDoes
      <4>2. creator[p] # Nobody => creator[p] # c /\ creator[p] \in Collectors
        BY <3>3, <1>1, <1>3
      <4>3. creator[p] # Nobody => offset'[creator[p]] = offset[creator[p]]
        BY <4>2, <1>3, <1>6, WriteDoes
      <4> QED
        BY <4>1, <4>3, <3>1 DEF Saved, Prefix
    <3> QED
      BY <3>2, <3>3
  <2> QED
    BY <2>2, <2>3
<1>7. ASSUME NEW c \in Collectors, Close(c) PROVE Fine'
  <2>1. UNCHANGED << file, creator, contested, output, offset >>
    BY <1>7 DEF Close, setup, disk
  <2>2. \A p \in Paths : Saving(p)' \subseteq Saving(p)
    BY <1>7, <2>1, <1>3 DEF Close, Saving
  <2> QED
    BY <2>1, <2>2, <1>4
<1>8. ASSUME \/ Change \/ UNCHANGED vars
             \/ \E c \in Collectors : Gather(c)
             \/ \E r \in Readers : Open(r) \/ ReadPart(r) \/ Decode(r)
      PROVE  Fine'
  BY <1>8, <1>4, OthersLeaveFiles
<1> QED
  BY <1>5, <1>6, <1>7, <1>8 DEF Next, Collector, Reader

-----------------------------------------------------------------------------
(* What has been read.                                                      *)

LEMMA UndisturbedStep ==
    TypeOK /\ Roles /\ Files /\ Undisturbed /\ [Next]_vars => Undisturbed'
<1> SUFFICES ASSUME TypeOK, Roles, Files, Undisturbed, [Next]_vars,
                    NEW r \in Readers, Untouched(r)'
             PROVE  /\ Saving(Path(r))' = {}
                    /\ creator'[Path(r)'] \in Collectors
                    /\ source'[r][Len(loaded'[r]) + 1] = creator'[Path(r)']
                    /\ got'[r] = Prefix(creator'[Path(r)'], Len(got'[r]))
                    /\ Len(got'[r]) <= offset'[creator'[Path(r)']]
  BY DEF Undisturbed, Prefix
<1> USE NamesAssumption
<1>1. /\ step \in [Collectors \cup Readers -> Steps]
      /\ file \in [Paths -> Seq(Cell) \cup {NoFile}]
      /\ creator \in [Paths -> Collectors \cup {Nobody}]
      /\ offset \in [Collectors -> 0 .. Parts]
      /\ got \in [Readers -> Seq(Cell)]
      /\ loaded \in [Readers -> Seq(Collectors \cup {Torn, Error})]
      /\ source \in [Readers -> Seq(Collectors \cup {Nobody})]
      /\ \A c \in Collectors : output[c] \in Paths
  BY DEF TypeOK
<1>2. asks' = asks /\ contested \subseteq contested' /\ overlapped \subseteq overlapped'
  BY DEF Next, Collector, Reader, Change, Gather, Create, WritePart, Close, Open, ReadPart,
         Decode, vars, setup, disk, reads
<1>3. step'[r] = "read" /\ r \notin overlapped' /\ Path(r)' \notin contested'
  BY DEF Untouched
<1>4. ASSUME step[r] = "read", loaded'[r] = loaded[r]
      PROVE  /\ Path(r)' = Path(r) /\ Path(r) \in Paths /\ Saving(Path(r)) = {}
             /\ creator[Path(r)] \in Collectors
             /\ output[creator[Path(r)]] = Path(r)
             /\ source[r][Len(loaded[r]) + 1] = creator[Path(r)]
             /\ got[r] = Prefix(creator[Path(r)], Len(got[r]))
             /\ Len(got[r]) <= offset[creator[Path(r)]]
  <2>1. Path(r)' = Path(r) /\ Path(r) \in Paths
    BY <1>2, <1>4, PathIsPath DEF Path
  <2>2. Untouched(r)
    BY <2>1, <1>2, <1>3, <1>4 DEF Untouched
  <2> QED
    BY <2>1, <2>2, NobodyCollects DEF Undisturbed, Files
<1>5. ASSUME step'[r] = step[r], UNCHANGED << loaded, source, got >>,
             \A p \in Paths : creator'[p] = creator[p] \/ p # Path(r),
             Path(r) \in Paths => Saving(Path(r))' \subseteq Saving(Path(r)),
             \A c \in Collectors : output[c] = Path(r) => offset'[c] = offset[c]
      PROVE  /\ Saving(Path(r))' = {}
             /\ creator'[Path(r)'] \in Collectors
             /\ source'[r][Len(loaded'[r]) + 1] = creator'[Path(r)']
             /\ got'[r] = Prefix(creator'[Path(r)'], Len(got'[r]))
             /\ Len(got'[r]) <= offset'[creator'[Path(r)']]
  <2>1. step[r] = "read" /\ loaded'[r] = loaded[r]
    BY <1>3, <1>5
  <2>2. creator'[Path(r)] = creator[Path(r)]
    BY <2>1, <1>4, <1>5
  <2>3. offset'[creator[Path(r)]] = offset[creator[Path(r)]]
    BY <2>1, <1>4, <1>5
  <2> QED
    BY <2>1, <2>2, <2>3, <1>4, <1>5 DEF Saving
<1> DEFINE Done == /\ Saving(Path(r))' = {}
                   /\ creator'[Path(r)'] \in Collectors
                   /\ source'[r][Len(loaded'[r]) + 1] = creator'[Path(r)']
                   /\ got'[r] = Prefix(creator'[Path(r)'], Len(got'[r]))
                   /\ Len(got'[r]) <= offset'[creator'[Path(r)']]
<1>6. ASSUME NEW c \in Collectors, Create(c) PROVE Done
  <2>1. UNCHANGED << loaded, source, got, offset >> /\ step'[r] = step[r] /\ step[r] = "read"
    BY <1>6, <1>1, <1>3 DEF Create
  <2>2. Path(r) \in Paths /\ Saving(Path(r)) = {}
    BY <2>1, <1>4
  <2>3. CASE step' = [step EXCEPT ![c] = "done"] /\ UNCHANGED << file, creator, contested >>
    <3>1. Saving(Path(r))' \subseteq Saving(Path(r))
      BY <2>3, <1>1, <1>6, CreateDoes DEF Saving, Path, Create, setup
    <3> QED
      BY <2>1, <2>3, <3>1, <1>5
  <2>4. ASSUME step' = [step EXCEPT ![c] = "write"],
               creator' = [creator EXCEPT ![output[c]] = c],
               overlapped' = overlapped \cup Reading(output[c])
        PROVE  Done
    <3>1. Path(r) # output[c]
      BY <2>1, <2>4, <1>3 DEF Reading, Path
    <3>2. Saving(Path(r))' \subseteq Saving(Path(r))
      BY <2>1, <2>4, <3>1, <1>1, <1>2, <1>6, CreateDoes DEF Saving, Path
    <3>3. \A p \in Paths : creator'[p] = creator[p] \/ p # Path(r)
      BY <2>4, <3>1, <1>1
    <3> QED
      BY <2>1, <3>2, <3>3, <1>5
  <2> QED
    BY <2>3, <2>4, <1>6, CreateDoes
<1>7. ASSUME NEW c \in Collectors, WritePart(c) PROVE Done
  <2>1. /\ UNCHANGED << loaded, source, got, creator, step, output >> /\ step[c] = "write"
        /\ step[r] = "read" /\ offset' = [offset EXCEPT ![c] = offset[c] + 1]
    BY <1>7, <1>3 DEF WritePart, reads, setup
  <2>2. Path(r) \in Paths /\ Saving(Path(r)) = {}
    BY <2>1, <1>4
  <2>3. output[c] # Path(r)
    BY <2>1, <2>2 DEF Saving
  <2>4. \A d \in Collectors : output[d] = Path(r) => offset'[d] = offset[d]
    BY <2>1, <2>3, <1>1
  <2>5. Saving(Path(r))' \subseteq Saving(Path(r))
    BY <2>1, <1>2 DEF Saving, Path
  <2> QED
    BY <2>1, <2>4, <2>5, <1>5
<1>8. ASSUME NEW c \in Collectors, Close(c) PROVE Done
  <2>1. /\ UNCHANGED << loaded, source, got, creator, output, offset >>
        /\ step' = [step EXCEPT ![c] = "done"] /\ step'[r] = step[r]
    BY <1>8, <1>1 DEF Close, reads, setup, disk
  <2>2. Saving(Path(r))' \subseteq Saving(Path(r))
    BY <2>1, <1>1, <1>2 DEF Saving, Path
  <2> QED
    BY <2>1, <2>2, <1>5
<1>9. ASSUME UNCHANGED << file, creator, contested, output, offset >>,
             \A c \in Collectors : step'[c] = step[c],
             \A p \in Paths : Saving(p)' = Saving(p),
             step'[r] = step[r], loaded'[r] = loaded[r], source'[r] = source[r], got'[r] = got[r]
      PROVE  Done
  <2>1. step[r] = "read"
    BY <1>3, <1>9
  <2>2. Path(r)' = Path(r) /\ Path(r) \in Paths /\ Saving(Path(r)) = {}
    BY <2>1, <1>4, <1>9
  <2>3. Saving(Path(r))' = {}
    BY <2>2, <1>9 DEF Saving
  <2> QED
    BY <2>1, <2>2, <2>3, <1>4, <1>9
<1>10. ASSUME \/ Change \/ UNCHANGED vars
              \/ \E c \in Collectors : Gather(c)
              \/ \E q \in Readers \ {r} : Open(q) \/ ReadPart(q) \/ Decode(q)
       PROVE  Done
  <2>1. /\ step'[r] = step[r] /\ loaded'[r] = loaded[r] /\ source'[r] = source[r]
        /\ got'[r] = got[r]
    <3>1. CASE Change \/ UNCHANGED vars \/ \E c \in Collectors : Gather(c)
      BY <3>1 DEF Change, vars, Gather, reads
    <3>2. ASSUME NEW q \in Readers \ {r}, Open(q)
          PROVE  /\ step'[r] = step[r] /\ loaded'[r] = loaded[r] /\ source'[r] = source[r]
                 /\ got'[r] = got[r]
      <4>1. q \in Readers /\ q # r
        OBVIOUS
      <4>2. /\ source' = [source EXCEPT ![q] = Append(@, creator[Path(q)])]
            /\ \/ /\ step' = [step EXCEPT ![q] = "done"]
                  /\ loaded' = [loaded EXCEPT ![q] = Append(@, Error)]
                  /\ got' = got
               \/ /\ step' = [step EXCEPT ![q] = "read"]
                  /\ got' = [got EXCEPT ![q] = << >>]
                  /\ loaded' = loaded
        BY <3>2, <4>1, OpenDoes
      <4> QED
        BY <4>1, <4>2, <1>1
    <3>3. ASSUME NEW q \in Readers \ {r}, ReadPart(q) \/ Decode(q)
          PROVE  /\ step'[r] = step[r] /\ loaded'[r] = loaded[r] /\ source'[r] = source[r]
                 /\ got'[r] = got[r]
      BY <3>3, <1>1 DEF ReadPart, Decode
    <3> QED
      BY <3>1, <3>2, <3>3, <1>10
  <2>2. /\ UNCHANGED << file, creator, contested, output, offset >>
        /\ \A c \in Collectors : step'[c] = step[c]
        /\ \A p \in Paths : Saving(p)' = Saving(p)
    BY <1>10, OthersLeaveFiles
  <2> QED
    BY <2>1, <2>2, <1>9
<1>11. CASE Open(r)
  <2>1. /\ UNCHANGED << file, creator, contested, output, offset >>
        /\ \A p \in Paths : Saving(p)' = Saving(p)
        /\ \A c \in Collectors : step'[c] = step[c]
    BY <1>11, OthersLeaveFiles
  <2>2. /\ step[r] = "start" /\ file[Path(r)] # NoFile
        /\ source' = [source EXCEPT ![r] = Append(source[r], creator[Path(r)])]
        /\ got' = [got EXCEPT ![r] = << >>] /\ loaded' = loaded
        /\ overlapped' = overlapped \cup { x \in {r} : Saving(Path(r)) # {} }
    BY <1>11, <1>1, <1>3, OpenDoes
  <2>3. Path(r) \in Paths /\ Path(r)' = Path(r)
    BY <2>2, <1>2, PathIsPath DEF Path
  <2>4. Saving(Path(r)) = {} /\ Saving(Path(r))' = {}
    <3>1. Saving(Path(r)) = {}
      BY <2>2, <1>3
    <3> QED
      BY <3>1, <2>1, <2>3 DEF Saving
  <2>5. creator[Path(r)] \in Collectors
    BY <2>1, <2>2, <2>3, <1>1, <1>3 DEF Files, Saved
  <2>6. source'[r][Len(loaded[r]) + 1] = creator[Path(r)]
    <3>1. Len(source[r]) = Len(loaded[r]) /\ source[r] \in Seq(Collectors \cup {Nobody})
      BY <2>2, <1>1 DEF Roles
    <3>2. source'[r] = Append(source[r], creator[Path(r)])
      BY <2>2, <1>1
    <3> QED
      BY <3>1, <3>2, <2>5, AppendProperties
  <2>7. got'[r] = << >> /\ Prefix(creator[Path(r)], 0) = << >> /\ Len(<< >>) = 0
    BY <2>2, <2>5, <1>1, PrefixIsSeq, EmptySeq, BoundsAssumption
  <2>8. 0 <= offset[creator[Path(r)]]
    BY <2>5, <1>1, BoundsAssumption
  <2> QED
    BY <2>1, <2>2, <2>3, <2>4, <2>5, <2>6, <2>7, <2>8
<1>12. CASE ReadPart(r)
  <2>1. /\ step[r] = "read" /\ Len(got[r]) < Parts /\ Len(got[r]) < Len(file[Path(r)])
        /\ got' = [got EXCEPT ![r] = Append(got[r], file[Path(r)][Len(got[r]) + 1])]
        /\ UNCHANGED << step, loaded, source >>
    BY <1>12 DEF ReadPart, Path
  <2>2. /\ UNCHANGED << file, creator, contested, output, offset >>
        /\ \A p \in Paths : Saving(p)' = Saving(p)
    BY <1>12, OthersLeaveFiles
  <2> DEFINE c == creator[Path(r)]
             n == Len(got[r])
  <2>3. /\ Path(r)' = Path(r) /\ Path(r) \in Paths /\ Saving(Path(r)) = {} /\ c \in Collectors
        /\ source[r][Len(loaded[r]) + 1] = c /\ got[r] = Prefix(c, n)
    BY <2>1, <1>4
  <2>4. file[Path(r)] = Prefix(c, offset[c])
    BY <2>2, <2>3, <1>3, NobodyCollects DEF Files, Saved
  <2>5. n \in Nat /\ offset[c] \in 0 .. Parts
    BY <2>3, <1>1, LenProperties
  <2>6. n < offset[c] /\ file[Path(r)][n + 1] = << c, n + 1 >>
    <3>1. /\ Len(Prefix(c, offset[c])) = offset[c]
          /\ \A i \in 1 .. offset[c] : Prefix(c, offset[c])[i] = << c, i >>
      BY <2>3, <2>5, PrefixIsSeq
    <3>2. n < offset[c]
      BY <3>1, <2>1, <2>4
    <3>3. n + 1 \in 1 .. offset[c]
      BY <3>2, <2>5, BoundsAssumption
    <3> QED
      BY <3>1, <3>2, <3>3, <2>4
  <2>7. got'[r] = Prefix(c, n + 1) /\ Len(got'[r]) = n + 1
    <3>1. n \in 0 .. Parts /\ n + 1 \in 0 .. Parts
      BY <2>1, <2>5, BoundsAssumption
    <3>2. got'[r] = Append(Prefix(c, n), << c, n + 1 >>)
      BY <2>1, <2>3, <2>6, <1>1
    <3> QED
      BY <3>1, <3>2, <2>1, <2>3, AppendExtends, PrefixIsSeq
  <2>8. Path(r)' = Path(r) /\ Saving(Path(r))' = {}
    BY <2>2, <2>3 DEF Saving
  <2>9. n + 1 <= offset[c]
    BY <2>5, <2>6
  <2> QED
    BY <2>1, <2>2, <2>3, <2>7, <2>8, <2>9
<1>13. CASE Decode(r)
  BY <1>13, <1>1, <1>3 DEF Decode
<1> QED
  BY <1>6, <1>7, <1>8, <1>10, <1>11, <1>12, <1>13 DEF Next, Collector, Reader
-----------------------------------------------------------------------------
(* What it decoded to.                                                      *)

LEMMA LoadsStep ==
    TypeOK /\ Roles /\ Files /\ Undisturbed /\ LoadsWhatWasSaved /\ [Next]_vars
        => LoadsWhatWasSaved'
<1> SUFFICES ASSUME TypeOK, Roles, Files, Undisturbed, LoadsWhatWasSaved, [Next]_vars,
                    NEW r \in Readers \ overlapped', NEW i \in DOMAIN (loaded'[r]),
                    asks'[r][i] \notin contested', loaded'[r][i] # Error
             PROVE  /\ loaded'[r][i] = source'[r][i]
                    /\ offset'[loaded'[r][i]] = Parts
                    /\ Len(asks'[r]) = 1 => build'[loaded'[r][i]] = build'[r]
  BY DEF LoadsWhatWasSaved
<1> USE NamesAssumption, BoundsAssumption
<1>1. /\ step \in [Collectors \cup Readers -> Steps]
      /\ creator \in [Paths -> Collectors \cup {Nobody}]
      /\ offset \in [Collectors -> 0 .. Parts]
      /\ got \in [Readers -> Seq(Cell)]
      /\ loaded \in [Readers -> Seq(Collectors \cup {Torn, Error})]
      /\ source \in [Readers -> Seq(Collectors \cup {Nobody})]
  BY DEF TypeOK
<1>2. /\ asks' = asks /\ build' = build
      /\ contested \subseteq contested' /\ overlapped \subseteq overlapped'
  BY DEF Next, Collector, Reader, Change, Gather, Create, WritePart, Close, Open, ReadPart,
         Decode, vars, setup, disk, reads
<1>3. ASSUME i \in DOMAIN loaded[r], loaded'[r][i] = loaded[r][i], source'[r][i] = source[r][i]
      PROVE  /\ loaded'[r][i] = source'[r][i]
             /\ offset'[loaded'[r][i]] = Parts
             /\ Len(asks'[r]) = 1 => build'[loaded'[r][i]] = build'[r]
  <2>1. /\ loaded[r][i] = source[r][i] /\ offset[loaded[r][i]] = Parts
        /\ Len(asks[r]) = 1 => build[loaded[r][i]] = build[r]
    BY <1>2, <1>3 DEF LoadsWhatWasSaved
  <2>c. loaded[r][i] \in Collectors
    <3>1. /\ loaded[r] \in Seq(Collectors \cup {Torn, Error})
          /\ source[r] \in Seq(Collectors \cup {Nobody})
          /\ Len(loaded[r]) <= Len(source[r])
      BY <1>1, LenProperties DEF Roles, Steps
    <3>2. i \in 1 .. Len(loaded[r]) /\ i \in 1 .. Len(source[r])
      BY <3>1, <1>3, LenProperties
    <3>3. /\ loaded[r][i] \in Collectors \cup {Torn, Error}
          /\ source[r][i] \in Collectors \cup {Nobody}
      BY <3>1, <3>2, ElementOfSeq
    <3>4. Torn # Nobody /\ Error # Nobody
      BY DEF Torn, Nobody, Error
    <3> QED
      BY <2>1, <3>3, <3>4
  <2>2. offset'[loaded[r][i]] = Parts
    <3>1. ASSUME NEW c \in Collectors, WritePart(c) PROVE offset'[loaded[r][i]] = Parts
      <4>1. loaded[r][i] # c
        BY <2>1, <3>1, WriteDoes
      <4> QED
        BY <2>1, <2>c, <3>1, <4>1, <1>1, WriteDoes
    <3> QED
      BY <2>1, <3>1 DEF Next, Collector, Reader, Change, Gather, Create, Close, Open, ReadPart,
                        Decode, vars
  <2> QED
    BY <2>1, <2>2, <1>2, <1>3
<1>4. CASE loaded'[r] = loaded[r] /\ source'[r] = source[r]
  BY <1>3, <1>4
<1>5. CASE Open(r)
  <2>1. /\ step[r] = "start"
        /\ source' = [source EXCEPT ![r] = Append(source[r], creator[Path(r)])]
        /\ loaded' = loaded \/ loaded' = [loaded EXCEPT ![r] = Append(loaded[r], Error)]
    BY <1>5, OpenDoes
  <2>2. /\ Len(source[r]) = Len(loaded[r]) /\ creator[Path(r)] \in Collectors \cup {Nobody}
        /\ Path(r) \in Paths
    BY <2>1, <1>1, PathIsPath DEF Roles
  <2>3. /\ \A k \in 1 .. Len(loaded[r]) : source'[r][k] = source[r][k]
        /\ source[r] \in Seq(Collectors \cup {Nobody})
        /\ loaded[r] \in Seq(Collectors \cup {Torn, Error})
        /\ DOMAIN loaded[r] = 1 .. Len(loaded[r]) /\ Len(loaded[r]) \in Nat
    <3>1. /\ source[r] \in Seq(Collectors \cup {Nobody})
          /\ loaded[r] \in Seq(Collectors \cup {Torn, Error})
      BY <1>1
    <3>2. source'[r] = Append(source[r], creator[Path(r)])
      BY <2>1, <1>1
    <3> QED
      BY <3>1, <3>2, <2>2, AppendProperties, LenProperties
  <2>4. i \in DOMAIN loaded[r] /\ loaded'[r][i] = loaded[r][i]
    <3>1. CASE loaded' = loaded
      BY <3>1
    <3>2. CASE loaded' = [loaded EXCEPT ![r] = Append(loaded[r], Error)]
      <4>1. loaded'[r] = Append(loaded[r], Error)
        BY <3>2, <1>1
      <4>2. /\ Append(loaded[r], Error) \in Seq(Collectors \cup {Torn, Error})
            /\ Len(Append(loaded[r], Error)) = Len(loaded[r]) + 1
            /\ \A k \in 1 .. Len(loaded[r]) : Append(loaded[r], Error)[k] = loaded[r][k]
            /\ Append(loaded[r], Error)[Len(loaded[r]) + 1] = Error
        BY <2>3, AppendProperties
      <4>3. i \in 1 .. Len(loaded[r]) + 1
        <5>1. DOMAIN Append(loaded[r], Error) = 1 .. Len(loaded[r]) + 1
          BY <4>2, LenProperties
        <5> QED
          BY <4>1, <5>1
      <4>4. i # Len(loaded[r]) + 1
        BY <4>1, <4>2
      <4> QED
        BY <4>1, <4>2, <4>3, <4>4, <2>3
    <3> QED
      BY <2>1, <3>1, <3>2
  <2> QED
    BY <2>3, <2>4, <1>3
<1>6. CASE Decode(r)
  <2>1. PICK s \in Decoded(got[r]) : loaded' = [loaded EXCEPT ![r] = Append(@, Accepted(r, s))]
    BY <1>6 DEF Decode
  <2>2. /\ step[r] = "read" /\ UNCHANGED << source, offset, contested, overlapped >>
        /\ Len(got[r]) = Parts \/ Len(got[r]) >= Len(file[Path(r)])
    BY <1>6 DEF Decode, disk, Path
  <2> DEFINE n == Len(loaded[r])
             a == Accepted(r, s)
  <2>3. a \in Collectors \cup {Torn, Error} /\ (s = Error => a = Error) /\ (a # Error => a = s)
    BY DecodedKind DEF Accepted
  <2>4. /\ loaded[r] \in Seq(Collectors \cup {Torn, Error}) /\ n \in Nat
        /\ DOMAIN loaded[r] = 1 .. n /\ loaded'[r] = Append(loaded[r], a)
    <3>1. loaded[r] \in Seq(Collectors \cup {Torn, Error}) /\ loaded'[r] = Append(loaded[r], a)
      BY <2>1, <1>1
    <3> QED
      BY <3>1, LenProperties
  <2>5. /\ DOMAIN loaded'[r] = 1 .. n + 1
        /\ \A k \in 1 .. n : loaded'[r][k] = loaded[r][k]
        /\ loaded'[r][n + 1] = a
    <3>1. /\ Append(loaded[r], a) \in Seq(Collectors \cup {Torn, Error})
          /\ Len(Append(loaded[r], a)) = n + 1
          /\ \A k \in 1 .. n : Append(loaded[r], a)[k] = loaded[r][k]
          /\ Append(loaded[r], a)[n + 1] = a
      BY <2>3, <2>4, AppendProperties
    <3> QED
      BY <3>1, <2>4, LenProperties
  <2>6. CASE i \in 1 .. n
    BY <2>2, <2>4, <2>5, <2>6, <1>3
  <2>7. CASE i = n + 1
    <3>1. a # Error /\ s = a /\ loaded'[r][i] = s
      BY <2>3, <2>5, <2>7
    <3>2. Untouched(r)
      BY <2>2, <2>7, <1>2 DEF Untouched, Path
    <3>3. /\ creator[Path(r)] \in Collectors /\ source[r][n + 1] = creator[Path(r)]
          /\ got[r] = Prefix(creator[Path(r)], Len(got[r]))
          /\ Len(got[r]) <= offset[creator[Path(r)]]
      BY <3>2 DEF Undisturbed
    <3>4. Len(got[r]) \in 0 .. Parts /\ offset[creator[Path(r)]] \in 0 .. Parts
      <4>1. Len(got[r]) \in Nat
        BY <1>1, LenProperties
      <4>2. offset[creator[Path(r)]] \in 0 .. Parts
        BY <3>3, <1>1
      <4> QED
        BY <4>1, <4>2, <3>3
    <3>5. s = creator[Path(r)] /\ Len(got[r]) = Parts
      <4>1. s \in Decoded(Prefix(creator[Path(r)], Len(got[r])))
        BY <3>3
      <4> QED
        BY <4>1, <3>1, <3>3, <3>4, PrefixDecodes
    <3>6. Len(asks[r]) = 1 => build[s] = build[r]
      BY <3>1, <3>3, <3>5 DEF Accepted
    <3> QED
      BY <3>1, <3>3, <3>4, <3>5, <3>6, <2>2, <2>7, <1>2
  <2> QED
    BY <2>4, <2>5, <2>6, <2>7
<1>7. CASE ~Open(r) /\ ~Decode(r)
  <2>1. ASSUME NEW q \in Readers, q # r, Open(q) \/ Decode(q)
        PROVE  loaded'[r] = loaded[r] /\ source'[r] = source[r]
    BY <2>1, <1>1, OpenDoes DEF Decode
  <2> QED
    BY <2>1, <1>4, <1>7 DEF Next, Collector, Reader, Change, Gather, Create, WritePart, Close,
                            ReadPart, vars, reads
<1> QED
  BY <1>5, <1>6, <1>7

-----------------------------------------------------------------------------
(* The theorems.                                                            *)

LEMMA InvHolds == Spec => []Inv
<1>1. Init => Inv
  BY InvInit
<1>2. Inv /\ [Next]_vars => Inv'
  BY TypeStep, RolesStep, FilesStep, UndisturbedStep, LoadsStep DEF Inv
<1> QED
  BY <1>1, <1>2, PTL DEF Spec

(* Every variable of the file's model holds a value of its kind, whatever   *)
(* the numbers of commands, paths and parts.                                *)
THEOREM TypeCorrect == Spec => []TypeOK
<1>1. Inv => TypeOK
  BY DEF Inv
<1> QED
  BY <1>1, InvHolds, PTL

(* snapshot.Save and snapshot.Load: where no save overlaps the read or      *)
(* another save, a file decodes to the snapshot of the command that last    *)
(* created it, all of it written, or to an error.                           *)
THEOREM ReadsWhatWasSaved == Spec => []LoadsWhatWasSaved
<1>1. Inv => LoadsWhatWasSaved
  BY DEF Inv
<1> QED
  BY <1>1, InvHolds, PTL

-----------------------------------------------------------------------------
(* What a diff compares: what two collectors recorded, that had come to     *)
(* everything they were told to collect before they saved any of it.        *)

(* What may be recorded of o while it is v.                                 *)
Taken(o, v) == Forms(o, v) \cup { x \in {Partial} : v # Absent }

(* What a collector recorded of an object, it saw.                          *)
Honest(c) ==
    /\ begun[c] <= Len(history) /\ ended[c] <= Len(history)
    /\ \A o \in Scope[c] :
        \/ record[c][o] = Unread
        \/ /\ begun[c] # 0
           /\ \E k \in begun[c] .. ended[c] : record[c][o] \in Taken(o, history[k][o])
    /\ step[c] # "start" => \A o \in Scope[c] : record[c][o] # Unread \/ o \in failed[c]

(* The parts that were written at all are from saves that began.            *)
From(cells, st) ==
    \A i \in 1 .. Len(cells) : cells[i][1] \in Collectors => st[cells[i][1]] # "start"

Owned ==
    /\ \A p \in Paths :
        IF creator[p] = Nobody THEN file[p] = NoFile
        ELSE file[p] \in Seq(Cell) /\ From(file[p], step)
    /\ \A c \in Collectors : step[c] = "write" => creator[output[c]] # Nobody
    /\ \A r \in Readers :
        /\ step[r] = "read" => creator[Path(r)] # Nobody
        /\ From(got[r], step)
        /\ \A i \in 1 .. Len(loaded[r]) :
               loaded[r][i] \in Collectors => step[loaded[r][i]] # "start"

Telling == Owned /\ \A c \in Collectors : Honest(c)

LEMMA TellingInit == Init => Telling
<1> SUFFICES ASSUME Init PROVE Telling
  OBVIOUS
<1> USE NamesAssumption
<1>1. Len(history) = 1
  BY DEF Init
<1>2. Owned
  BY DEF Init, Owned, From
<1>3. ASSUME NEW c \in Collectors PROVE Honest(c)
  <2>1. \A o \in Scope[c] : record[c][o] = Unread
    BY DEF Init
  <2>2. begun[c] = 0 /\ ended[c] = 0 /\ step[c] = "start"
    BY DEF Init
  <2> QED
    BY <2>1, <2>2, <1>1 DEF Honest
<1> QED
  BY <1>2, <1>3 DEF Telling

(* A history only grows, and what is in it stays.                           *)
LEMMA HistoryStays ==
    ASSUME TypeOK, [Next]_vars
    PROVE  /\ Len(history) \in Nat \ {0} /\ Len(history') \in Nat
           /\ Len(history) <= Len(history')
           /\ \A k \in 1 .. Len(history) : history'[k] = history[k]
<1>1. history \in Seq(Network) /\ Len(history) \in Nat \ {0} /\ Now \in Network
  BY NowIsNetwork DEF TypeOK
<1>2. CASE Change
  <2>1. PICK o \in Objects, v \in Configs \cup {Absent} :
            history' = Append(history, [Now EXCEPT ![o] = v])
    BY <1>2 DEF Change
  <2>2. [Now EXCEPT ![o] = v] \in Network
    BY <1>1 DEF Network
  <2> HIDE DEF Network
  <2> QED
    BY <1>1, <2>1, <2>2, AppendProperties
<1>3. CASE ~Change
  <2>1. history' = history
    BY <1>3 DEF Next, Collector, Reader, Gather, Create, WritePart, Close, Open, ReadPart,
                Decode, vars
  <2> QED
    BY <1>1, <2>1
<1> QED
  BY <1>2, <1>3

(* A collector that has begun to save does not begin again.                 *)
LEMMA BegunStays ==
    ASSUME TypeOK, [Next]_vars, NEW c \in Collectors, step[c] # "start"
    PROVE  step'[c] # "start"
<1> USE NamesAssumption
<1>1. step \in [Collectors \cup Readers -> Steps]
  BY DEF TypeOK
<1>2. ASSUME NEW d \in Collectors, Create(d) \/ Close(d) PROVE step'[c] # "start"
  BY <1>1, <1>2 DEF Create, Close
<1>3. ASSUME NEW r \in Readers, Open(r) \/ Decode(r) PROVE step'[c] # "start"
  <2>1. c # r
    OBVIOUS
  <2> QED
    BY <1>1, <1>3, <2>1 DEF Open, Decode
<1>4. CASE step' = step
  BY <1>4
<1> QED
  BY <1>2, <1>3, <1>4 DEF Next, Collector, Reader, Change, Gather, WritePart, ReadPart, vars

LEMMA HonestStep ==
    ASSUME TypeOK, [Next]_vars, NEW c \in Collectors, Honest(c)
    PROVE  Honest(c)'
<1> USE NamesAssumption
<1>1. /\ step \in [Collectors \cup Readers -> Steps]
      /\ record \in [Collectors -> [Objects -> Recorded]]
      /\ failed \in [Collectors -> SUBSET Objects]
      /\ begun \in [Collectors -> Nat] /\ ended \in [Collectors -> Nat]
      /\ Scope[c] \subseteq Objects
  BY DEF TypeOK
<1>2. /\ Len(history) \in Nat \ {0} /\ Len(history') \in Nat
      /\ Len(history) <= Len(history')
      /\ \A k \in 1 .. Len(history) : history'[k] = history[k]
  BY HistoryStays
<1>3. begun[c] \in Nat /\ ended[c] \in Nat
      /\ begun[c] <= Len(history) /\ ended[c] <= Len(history)
  BY <1>1 DEF Honest
<1>4. \A o \in Scope[c] :
          \/ record[c][o] = Unread
          \/ /\ begun[c] # 0
             /\ \E k \in begun[c] .. ended[c] : record[c][o] \in Taken(o, history'[k][o])
  BY <1>2, <1>3 DEF Honest
<1>5. ASSUME begun'[c] = begun[c], ended'[c] = ended[c], record'[c] = record[c],
             failed'[c] = failed[c],
             \/ step'[c] # "start" => step[c] # "start"
             \/ \A o \in Scope[c] : record[c][o] # Unread \/ o \in failed[c]
      PROVE  Honest(c)'
  <2>1. begun'[c] <= Len(history') /\ ended'[c] <= Len(history')
    BY <1>2, <1>3, <1>5
  <2>2. step'[c] # "start" => \A o \in Scope[c] : record[c][o] # Unread \/ o \in failed[c]
    BY <1>5 DEF Honest
  <2> QED
    BY <1>4, <1>5, <2>1, <2>2 DEF Honest
<1>6. CASE Gather(c)
  <2>1. PICK o \in Scope[c] :
            /\ step[c] = "start" /\ step' = step /\ history' = history
            /\ begun' = [begun EXCEPT ![c] = IF @ = 0 THEN Len(history) ELSE @]
            /\ ended' = [ended EXCEPT ![c] = Len(history)]
            /\ \/ \E x \in Taken(o, Now[o]) : record' = [record EXCEPT ![c][o] = x]
               \/ record' = record
    BY <1>6 DEF Gather, Taken
  <2>2. /\ begun'[c] = IF begun[c] = 0 THEN Len(history) ELSE begun[c]
        /\ ended'[c] = Len(history) /\ step'[c] = "start"
    BY <2>1, <1>1
  <2>3. begun'[c] \in 1 .. Len(history) /\ Len(history) \in begun'[c] .. ended'[c]
    BY <2>2, <1>2, <1>3
  <2>4. /\ \A u \in Scope[c] \ {o} : record'[c][u] = record[c][u]
        /\ record'[c][o] \in Taken(o, Now[o]) \cup {record[c][o]}
    BY <2>1, <1>1
  <2>5. \A u \in Scope[c] :
            \/ record[c][u] = Unread
            \/ \E k \in begun'[c] .. ended'[c] : record[c][u] \in Taken(u, history'[k][u])
    BY <1>4, <2>2, <1>2, <1>3
  <2>6. \E k \in begun'[c] .. ended'[c] : Now[o] = history'[k][o]
    BY <2>1, <2>3 DEF Now
  <2>7. \A u \in Scope[c] :
            \/ record'[c][u] = Unread
            \/ \E k \in begun'[c] .. ended'[c] : record'[c][u] \in Taken(u, history'[k][u])
    BY <2>4, <2>5, <2>6
  <2> QED
    BY <2>1, <2>2, <2>3, <2>7, <1>2 DEF Honest
<1>7. ASSUME NEW d \in Collectors, d # c, Gather(d) PROVE Honest(c)'
  <2>1. /\ begun'[c] = begun[c] /\ ended'[c] = ended[c] /\ record'[c] = record[c]
        /\ failed'[c] = failed[c] /\ step' = step
    BY <1>1, <1>7 DEF Gather
  <2> QED
    BY <2>1, <1>5
<1>8. ASSUME NEW d \in Collectors, Create(d) PROVE Honest(c)'
  <2>1. UNCHANGED << begun, ended, record, failed >>
    BY <1>8 DEF Create, collected
  <2>2. CASE d = c
    BY <1>5, <1>8, <2>1, <2>2 DEF Create
  <2>3. CASE d # c
    <3>1. step'[c] = step[c]
      BY <1>1, <1>8, <2>3 DEF Create
    <3> QED
      BY <1>5, <2>1, <3>1
  <2> QED
    BY <2>2, <2>3
<1>9. ASSUME NEW d \in Collectors, WritePart(d) \/ Close(d) PROVE Honest(c)'
  <2>1. UNCHANGED << begun, ended, record, failed >>
    BY <1>9 DEF WritePart, Close, collected
  <2>2. step'[c] # "start" => step[c] # "start"
    BY <1>1, <1>9 DEF WritePart, Close
  <2> QED
    BY <1>5, <2>1, <2>2
<1>10. ASSUME Change \/ UNCHANGED vars \/ \E r \in Readers : Reader(r) PROVE Honest(c)'
  <2>1. UNCHANGED << begun, ended, record, failed >>
    BY <1>10 DEF Change, vars, Reader, Open, ReadPart, Decode, collected
  <2>2. step'[c] = step[c]
    BY <1>1, <1>10 DEF Change, vars, Reader, Open, ReadPart, Decode
  <2> QED
    BY <1>5, <2>1, <2>2
<1> QED
  BY <1>6, <1>7, <1>8, <1>9, <1>10 DEF Next, Collector

(* Writing and reading one part more keeps that so.                         *)
LEMMA FromPut ==
    ASSUME NEW cells \in Seq(Cell), NEW c \in Collectors, NEW n \in 0 .. Parts, n < Parts,
           NEW st, From(cells, st), st[c] # "start"
    PROVE  From(Put(cells, c, n), st)
<1> DEFINE m == IF Len(cells) > n THEN Len(cells) ELSE n + 1
<1>1. Len(cells) \in Nat /\ n \in Nat /\ m \in Nat
  BY BoundsAssumption, LenProperties
<1>2. /\ Len(Put(cells, c, n)) = m
      /\ \A i \in 1 .. m :
            Put(cells, c, n)[i] = IF i = n + 1 THEN << c, i >>
                                  ELSE IF i <= Len(cells) THEN cells[i] ELSE Hole
  <2>1. Put(cells, c, n) = [i \in 1 .. m |->
            IF i = n + 1 THEN << c, i >> ELSE IF i <= Len(cells) THEN cells[i] ELSE Hole]
    BY DEF Put
  <2>2. Put(cells, c, n) \in Seq(Cell)
    BY PutIsSeq
  <2> HIDE DEF m
  <2> QED
    BY <2>1, <2>2, <1>1
<1> HIDE DEF m
<1>3. ASSUME NEW i \in 1 .. m, Put(cells, c, n)[i][1] \in Collectors
      PROVE  st[Put(cells, c, n)[i][1]] # "start"
  <2>1. CASE i = n + 1
    <3>1. Put(cells, c, n)[i] = << c, i >>
      BY <2>1, <1>2
    <3> QED
      BY <3>1
  <2>2. CASE i # n + 1 /\ i <= Len(cells)
    <3>1. i \in 1 .. Len(cells) /\ Put(cells, c, n)[i] = cells[i]
      BY <2>2, <1>1, <1>2
    <3> QED
      BY <3>1, <1>3 DEF From
  <2>3. CASE i # n + 1 /\ ~(i <= Len(cells))
    <3>1. Put(cells, c, n)[i] = Hole
      BY <2>3, <1>2
    <3> QED
      BY <3>1, <1>3, NobodyCollects DEF Hole
  <2> QED
    BY <2>1, <2>2, <2>3
<1> QED
  BY <1>2, <1>3 DEF From

LEMMA FromAppend ==
    ASSUME NEW cells \in Seq(Cell), NEW whole \in Seq(Cell), NEW k \in 1 .. Len(whole),
           NEW st, From(cells, st), From(whole, st)
    PROVE  From(Append(cells, whole[k]), st)
<1> DEFINE x == whole[k]
<1>1. x \in Cell /\ (x[1] \in Collectors => st[x[1]] # "start")
  BY ElementOfSeq DEF From
<1> HIDE DEF x
<1>2. /\ Len(cells) \in Nat /\ Len(Append(cells, x)) = Len(cells) + 1
      /\ \A i \in 1 .. Len(cells) : Append(cells, x)[i] = cells[i]
      /\ Append(cells, x)[Len(cells) + 1] = x
  BY <1>1, AppendProperties, LenProperties
<1>3. From(Append(cells, x), st)
  BY <1>1, <1>2 DEF From
<1> QED
  BY <1>3 DEF x

(* Whoever's parts are in a file, were read, or were decoded from them, has *)
(* begun to save.                                                           *)
LEMMA OwnedStep ==
    TypeOK /\ Roles /\ Files /\ Owned /\ [Next]_vars => Owned'
<1> SUFFICES ASSUME TypeOK, Roles, Files, Owned, [Next]_vars PROVE Owned'
  OBVIOUS
<1> USE NamesAssumption, NobodyCollects
<1>1. /\ step \in [Collectors \cup Readers -> Steps]
      /\ file \in [Paths -> Seq(Cell) \cup {NoFile}]
      /\ creator \in [Paths -> Collectors \cup {Nobody}]
      /\ got \in [Readers -> Seq(Cell)]
      /\ loaded \in [Readers -> Seq(Collectors \cup {Torn, Error})]
      /\ \A c \in Collectors : output[c] \in Paths
  BY DEF TypeOK
<1>2. asks' = asks /\ output' = output
  BY DEF Next, Collector, Reader, Change, Gather, Create, WritePart, Close, Open, ReadPart,
         Decode, vars, setup
<1>3. \A c \in Collectors : step[c] # "start" => step'[c] # "start"
  BY BegunStays
<1>4. \A cells : From(cells, step) => From(cells, step')
  BY <1>3 DEF From
<1>5. ASSUME NEW p \in Paths
      PROVE  /\ IF creator'[p] = Nobody THEN file'[p] = NoFile
                ELSE file'[p] \in Seq(Cell) /\ From(file'[p], step')
             /\ creator[p] # Nobody => creator'[p] # Nobody
  <2>1. CASE file'[p] = file[p] /\ creator'[p] = creator[p]
    BY <2>1, <1>4 DEF Owned
  <2>2. ASSUME NEW c \in Collectors, Create(c), p = output[c],
               file' = [file EXCEPT ![output[c]] = << >>],
               creator' = [creator EXCEPT ![output[c]] = c]
        PROVE  /\ creator'[p] # Nobody /\ file'[p] \in Seq(Cell)
               /\ From(file'[p], step')
    <3>1. file'[p] = << >> /\ creator'[p] = c
      BY <2>2, <1>1
    <3>2. << >> \in Seq(Cell) /\ From(<< >>, step')
      BY DEF From
    <3> QED
      BY <3>1, <3>2
  <2>3. ASSUME NEW c \in Collectors, WritePart(c), p = output[c]
        PROVE  /\ creator'[p] # Nobody /\ creator[p] # Nobody /\ file'[p] \in Seq(Cell)
               /\ From(file'[p], step')
    <3>1. /\ step[c] = "write" /\ creator' = creator /\ offset[c] \in 0 .. Parts
          /\ offset[c] < Parts /\ file'[p] = Put(file[p], c, offset[c])
      BY <2>3, <1>1, WriteDoes
    <3>2. creator[p] # Nobody /\ file[p] \in Seq(Cell) /\ From(file[p], step)
      BY <2>3, <3>1 DEF Owned
    <3>3. file'[p] \in Seq(Cell)
      BY <3>1, <3>2, PutIsSeq
    <3>4. From(file'[p], step')
      <4>1. step'[c] # "start" /\ From(file[p], step')
        BY <3>1, <3>2, <1>3, <1>4
      <4> QED
        BY <4>1, <3>1, <3>2, FromPut
    <3> QED
      BY <3>1, <3>2, <3>3, <3>4
  <2>4. ASSUME NEW c \in Collectors, Create(c) \/ WritePart(c), p # output[c]
        PROVE  file'[p] = file[p] /\ creator'[p] = creator[p]
    BY <2>4, <1>1, CreateDoes, WriteDoes
  <2>5. ASSUME NEW c \in Collectors, Create(c) \/ Close(c), UNCHANGED << file, creator >>
        PROVE  file'[p] = file[p] /\ creator'[p] = creator[p]
    BY <2>5
  <2>6. ASSUME \/ Change \/ UNCHANGED vars
               \/ \E c \in Collectors : Gather(c) \/ Close(c)
               \/ \E r \in Readers : Reader(r)
        PROVE  file'[p] = file[p] /\ creator'[p] = creator[p]
    BY <2>6 DEF Change, vars, Gather, Close, Reader, Open, ReadPart, Decode, disk
  <2>7. ASSUME NEW c \in Collectors, Create(c)
        PROVE  \/ file'[p] = file[p] /\ creator'[p] = creator[p]
               \/ /\ creator'[p] # Nobody /\ file'[p] \in Seq(Cell)
                  /\ From(file'[p], step')
    BY <2>7, <2>2, <2>4, <2>5, CreateDoes
  <2>8. ASSUME NEW c \in Collectors, WritePart(c)
        PROVE  \/ file'[p] = file[p] /\ creator'[p] = creator[p]
               \/ /\ creator'[p] # Nobody /\ file'[p] \in Seq(Cell)
                  /\ From(file'[p], step')
    BY <2>8, <2>3, <2>4
  <2>9. \/ file'[p] = file[p] /\ creator'[p] = creator[p]
        \/ /\ creator'[p] # Nobody /\ file'[p] \in Seq(Cell)
           /\ From(file'[p], step')
    BY <2>6, <2>7, <2>8 DEF Next, Collector
  <2> QED
    BY <2>1, <2>9
<1>6. ASSUME NEW c \in Collectors, step'[c] = "write" PROVE creator'[output'[c]] # Nobody
  <2>1. CASE step[c] = "write"
    BY <2>1, <1>1, <1>2, <1>5 DEF Owned
  <2>2. CASE step[c] # "write"
    <3>1. Create(c)
      <4>1. step' # step
        BY <2>2, <1>6
      <4>2. ASSUME NEW d \in Collectors, Create(d), d # c PROVE FALSE
        BY <4>2, <2>2, <1>6, <1>1, CreateDoes
      <4>3. ASSUME NEW d \in Collectors, Close(d) PROVE FALSE
        BY <4>3, <2>2, <1>6, <1>1 DEF Close
      <4>4. ASSUME NEW r \in Readers, Open(r) PROVE FALSE
        BY <4>4, <2>2, <1>6, <1>1, OpenDoes
      <4>5. ASSUME NEW r \in Readers, Decode(r) PROVE FALSE
        BY <4>5, <2>2, <1>6, <1>1 DEF Decode
      <4> QED
        BY <4>1, <4>2, <4>3, <4>4, <4>5
        DEF Next, Collector, Reader, Change, Gather, WritePart, ReadPart, vars
    <3> QED
      BY <3>1, <1>1, <1>2, <1>6, CreateDoes
  <2> QED
    BY <2>1, <2>2
<1>7. ASSUME NEW r \in Readers
      PROVE  /\ step'[r] = "read" => creator'[Path(r)'] # Nobody
             /\ From(got'[r], step')
             /\ \A i \in 1 .. Len(loaded'[r]) :
                    loaded'[r][i] \in Collectors => step'[loaded'[r][i]] # "start"
  <2>1. /\ step[r] = "read" => creator[Path(r)] # Nobody
        /\ From(got[r], step)
        /\ \A i \in 1 .. Len(loaded[r]) :
               loaded[r][i] \in Collectors => step[loaded[r][i]] # "start"
    BY DEF Owned
  <2>2. got'[r] = got[r] => From(got'[r], step')
    BY <2>1, <1>4
  <2>3. loaded'[r] = loaded[r] =>
            \A i \in 1 .. Len(loaded'[r]) :
                loaded'[r][i] \in Collectors => step'[loaded'[r][i]] # "start"
    BY <2>1, <1>3
  <2>4. step[r] = "read" /\ loaded'[r] = loaded[r] => creator'[Path(r)'] # Nobody
    <3> SUFFICES ASSUME step[r] = "read", loaded'[r] = loaded[r]
                 PROVE  creator'[Path(r)'] # Nobody
      OBVIOUS
    <3>1. Path(r) \in Paths /\ Path(r)' = Path(r)
      BY <1>2, PathIsPath DEF Path
    <3> QED
      BY <3>1, <2>1, <1>5
  <2>5. CASE step'[r] = step[r] /\ loaded'[r] = loaded[r] /\ got'[r] = got[r]
    BY <2>2, <2>3, <2>4, <2>5
  <2>6. CASE Open(r)
    <3>1. /\ step[r] = "start"
          /\ \/ /\ step' = [step EXCEPT ![r] = "done"]
                /\ loaded' = [loaded EXCEPT ![r] = Append(@, Error)]
                /\ got' = got
             \/ /\ file[Path(r)] # NoFile
                /\ step' = [step EXCEPT ![r] = "read"]
                /\ got' = [got EXCEPT ![r] = << >>]
                /\ loaded' = loaded
      BY <2>6, OpenDoes
    <3>2. CASE /\ file[Path(r)] # NoFile
               /\ step' = [step EXCEPT ![r] = "read"]
               /\ got' = [got EXCEPT ![r] = << >>]
               /\ loaded' = loaded
      <4>1. Path(r) \in Paths /\ Path(r)' = Path(r)
        BY <3>1, <3>2, <1>2, PathIsPath DEF Path
      <4>2. creator[Path(r)] # Nobody
        BY <4>1, <3>2 DEF Owned
      <4>3. creator'[Path(r)'] # Nobody
        BY <4>1, <4>2, <1>5
      <4>4. got'[r] = << >> /\ loaded'[r] = loaded[r] /\ From(<< >>, step')
        BY <3>2, <1>1 DEF From
      <4> QED
        BY <4>3, <4>4, <2>3
    <3>3. CASE /\ step' = [step EXCEPT ![r] = "done"]
               /\ loaded' = [loaded EXCEPT ![r] = Append(@, Error)]
               /\ got' = got
      <4>1. step'[r] = "done" /\ got'[r] = got[r] /\ loaded'[r] = Append(loaded[r], Error)
        BY <3>3, <1>1
      <4>2. loaded[r] \in Seq(Collectors \cup {Torn, Error}) /\ Len(loaded[r]) \in Nat
        BY <1>1, LenProperties
      <4>3. /\ Len(loaded'[r]) = Len(loaded[r]) + 1
            /\ \A i \in 1 .. Len(loaded[r]) : loaded'[r][i] = loaded[r][i]
            /\ loaded'[r][Len(loaded[r]) + 1] = Error
        BY <4>1, <4>2, AppendProperties
      <4>4. \A i \in 1 .. Len(loaded'[r]) :
                loaded'[r][i] \in Collectors => step'[loaded'[r][i]] # "start"
        BY <4>2, <4>3, <2>1, <1>3
      <4> QED
        BY <4>1, <4>4, <2>2
    <3> QED
      BY <3>1, <3>2, <3>3
  <2>7. CASE ReadPart(r)
    <3>1. /\ step[r] = "read" /\ Len(got[r]) < Len(file[Path(r)])
          /\ got' = [got EXCEPT ![r] = Append(got[r], file[Path(r)][Len(got[r]) + 1])]
          /\ UNCHANGED << step, loaded >>
      BY <2>7 DEF ReadPart, Path
    <3>2. Path(r) \in Paths
      BY <3>1, PathIsPath
    <3>3. file[Path(r)] \in Seq(Cell) /\ From(file[Path(r)], step)
      BY <3>1, <3>2, <2>1 DEF Owned
    <3>4. got[r] \in Seq(Cell) /\ Len(got[r]) + 1 \in 1 .. Len(file[Path(r)])
      BY <1>1, <3>1, <3>3, LenProperties
    <3>5. got'[r] = Append(got[r], file[Path(r)][Len(got[r]) + 1])
      BY <3>1, <1>1
    <3>6. From(got'[r], step)
      BY <2>1, <3>3, <3>4, <3>5, FromAppend
    <3> QED
      BY <3>1, <3>6, <1>4, <2>3, <2>4
  <2>8. CASE Decode(r)
    <3>1. PICK s \in Decoded(got[r]) :
              /\ step[r] = "read" /\ got' = got
              /\ loaded'[r] = Append(loaded[r], Accepted(r, s))
              /\ step'[r] \in {"start", "done"}
      BY <2>8, <1>1 DEF Decode
    <3> DEFINE a == Accepted(r, s)
    <3>2. a \in Collectors \cup {Torn, Error} /\ a \in {s, Error}
      BY DecodedKind DEF Accepted
    <3>3. a \in Collectors => step[a] # "start"
      <4> SUFFICES ASSUME a \in Collectors PROVE step[a] # "start"
        OBVIOUS
      <4>1. s = a /\ s # Torn /\ s # Error
        BY <3>2
      <4>2. got[r] = Whole(s)
        BY <4>1 DEF Decoded
      <4>3. 1 \in 1 .. Len(got[r]) /\ got[r][1] = << s, 1 >>
        <5>1. 1 \in 1 .. Parts /\ Parts \in 0 .. Parts /\ Whole(s) = Prefix(s, Parts)
          BY BoundsAssumption DEF Whole, Prefix
        <5> QED
          BY <5>1, <4>1, <4>2, PrefixIsSeq
      <4> QED
        BY <4>1, <4>3, <2>1 DEF From
    <3>4. loaded[r] \in Seq(Collectors \cup {Torn, Error}) /\ Len(loaded[r]) \in Nat
      BY <1>1, LenProperties
    <3>5. loaded'[r] = Append(loaded[r], a)
      BY <3>1
    <3> HIDE DEF a
    <3>6. /\ Len(loaded'[r]) = Len(loaded[r]) + 1
          /\ \A i \in 1 .. Len(loaded[r]) : loaded'[r][i] = loaded[r][i]
          /\ loaded'[r][Len(loaded[r]) + 1] = a
      BY <3>2, <3>4, <3>5, AppendProperties
    <3>7. ASSUME NEW i \in 1 .. Len(loaded'[r]), loaded'[r][i] \in Collectors
          PROVE  step'[loaded'[r][i]] # "start"
      <4>1. step[loaded'[r][i]] # "start"
        BY <3>3, <3>4, <3>6, <3>7, <2>1
      <4> QED
        BY <4>1, <3>7, <1>3
    <3> QED
      BY <3>1, <3>7, <2>2
  <2>9. ASSUME \/ Change \/ UNCHANGED vars \/ \E c \in Collectors : Collector(c)
               \/ \E q \in Readers \ {r} : Reader(q)
        PROVE  step'[r] = step[r] /\ loaded'[r] = loaded[r] /\ got'[r] = got[r]
    <3>1. CASE Change \/ UNCHANGED vars \/ \E c \in Collectors : Collector(c)
      BY <3>1, <1>1
      DEF Change, vars, Collector, Gather, Create, WritePart, Close, reads
    <3>2. ASSUME NEW q \in Readers \ {r}, Open(q)
          PROVE  step'[r] = step[r] /\ loaded'[r] = loaded[r] /\ got'[r] = got[r]
      <4>1. q \in Readers /\ q # r
        OBVIOUS
      <4>2. \/ /\ step' = [step EXCEPT ![q] = "done"]
               /\ loaded' = [loaded EXCEPT ![q] = Append(@, Error)]
               /\ got' = got
            \/ /\ step' = [step EXCEPT ![q] = "read"]
               /\ got' = [got EXCEPT ![q] = << >>]
               /\ loaded' = loaded
        BY <3>2, <4>1, OpenDoes
      <4> QED
        BY <4>1, <4>2, <1>1
    <3>3. ASSUME NEW q \in Readers \ {r}, ReadPart(q) \/ Decode(q)
          PROVE  step'[r] = step[r] /\ loaded'[r] = loaded[r] /\ got'[r] = got[r]
      BY <3>3, <1>1 DEF ReadPart, Decode
    <3> QED
      BY <3>1, <3>2, <3>3, <2>9 DEF Reader
  <2> QED
    BY <2>5, <2>6, <2>7, <2>8, <2>9 DEF Next, Reader
<1> QED
  BY <1>5, <1>6, <1>7 DEF Owned

(* Whose fields a diff finds, and which, where it drops none of them.       *)
LEMMA FieldsTell ==
    ASSUME TypeOK, NEW r \in Readers, NEW c \in Collectors, NEW o \in Objects
    PROVE  /\ Fields(r, c, o) = {} <=> record[c][o] \in {Absent, Unread}
           /\ build[c] <= build[r] /\ Fields(r, c, o) # {} =>
                  Fields(r, c, o) = {Kept(build[c], o, record[c][o])}
<1> DEFINE b == IF build[c] < build[r] THEN build[c] ELSE build[r]
<1>1. build[c] <= build[r] => b = build[c]
  <2>1. build \in [Collectors \cup Readers -> Nat]
    BY NamesAssumption DEF TypeOK
  <2> QED
    BY <2>1
<1>2. Fields(r, c, o) = IF record[c][o] \in {Absent, Unread} THEN {}
                        ELSE {Kept(b, o, record[c][o])}
  BY DEF Fields
<1> HIDE DEF b
<1> QED
  BY <1>1, <1>2

(* What stayed was recorded as it was, in part or in one of two forms.      *)
LEMMA StayedIsTaken ==
    ASSUME NEW c \in Collectors, NEW o \in Scope[c], Honest(c), record[c][o] # Unread,
           NEW v \in Configs \cup {Absent}, Seen(c, o) = {v}
    PROVE  /\ record[c][o] = Absent <=> v = Absent
           /\ record[c][o] \notin {Absent, Partial} =>
                  record[c][o] = IF record[c][o] \in Configs THEN v ELSE Otherwise(v)
<1>1. PICK k \in begun[c] .. ended[c] : record[c][o] \in Taken(o, history[k][o])
  BY DEF Honest
<1>2. history[k][o] \in Seen(c, o)
  BY DEF Seen
<1>3. record[c][o] \in Taken(o, v)
  BY <1>1, <1>2
<1>4. Absent \notin Content /\ Absent # Partial /\ Configs \subseteq Content
  BY NamesAssumption DEF Content
<1>5. CASE record[c][o] = v
  BY <1>4, <1>5 DEF Content
<1>6. CASE record[c][o] = Partial /\ v # Absent
  BY <1>4, <1>6
<1>7. CASE v \in Configs /\ record[c][o] = Otherwise(v)
  <2>1. Otherwise(v) \in Content /\ Otherwise(v) \notin Configs
    BY <1>7, NamesAssumption DEF Content
  <2> QED
    BY <1>4, <1>7, <2>1
<1> QED
  BY <1>3, <1>5, <1>6, <1>7 DEF Taken, Forms

(* What was recorded in full is what the collector may have written.        *)
LEMMA RecordIsSaid ==
    ASSUME NEW c \in Collectors, NEW o \in Scope[c], Honest(c),
           record[c][o] \notin {Unread, Partial}
    PROVE  Kept(build[c], o, record[c][o]) \in Says(c, o)
<1>1. PICK k \in begun[c] .. ended[c] : record[c][o] \in Taken(o, history[k][o])
  BY DEF Honest
<1>2. record[c][o] \in Forms(o, history[k][o]) /\ history[k][o] \in Seen(c, o)
  BY <1>1 DEF Taken, Seen
<1> QED
  BY <1>2 DEF Says

(* What a diff of two collections finds of what an honest collector wrote.  *)
LEMMA DiffsTell == Inv /\ Telling => DiffIsEarned
<1> SUFFICES ASSUME Inv, Telling, NEW r \in Compared
             PROVE  LET f == loaded[r][1]
                        t == loaded[r][2]
                        Stayed(o) == \E v \in Configs \cup {Absent} :
                                         Seen(f, o) = {v} /\ Seen(t, o) = {v}
                        Moved(o) == Says(f, o) \cap Says(t, o) = {}
                        Alike(o) == record[f][o] \in Configs <=> record[t][o] \in Configs
                        both == { o \in Scope[f] \cap Scope[t] :
                                     Partial \notin {record[f][o], record[t][o]} }
                    IN  /\ Scope[f] = Scope[t] /\ Complete(f, t) =>
                               \A o \in Added(r, f, t) \cup Removed(r, f, t) :
                                   o \in Scope[f] => ~Stayed(o)
                        /\ Complete(f, t) /\ build[f] <= build[r] =>
                               \A o \in both : Moved(o) => o \in Changed(r, f, t)
                        /\ DiffExit(r, f, t) = 0 /\ build[f] <= build[r] =>
                               \A o \in both : ~Moved(o)
                        /\ build[f] = build[t] =>
                               \A o \in Modified(r, f, t) \cap both : Alike(o) => ~Stayed(o)
  BY Zenon DEF DiffIsEarned
<1> DEFINE f == loaded[r][1]
           t == loaded[r][2]
           Stayed(o) == \E v \in Configs \cup {Absent} : Seen(f, o) = {v} /\ Seen(t, o) = {v}
           Moved(o) == Says(f, o) \cap Says(t, o) = {}
           Alike(o) == record[f][o] \in Configs <=> record[t][o] \in Configs
           both == { o \in Scope[f] \cap Scope[t] :
                        Partial \notin {record[f][o], record[t][o]} }
<1>1. /\ r \in Readers /\ f \in Collectors /\ t \in Collectors /\ TypeOK
      /\ step[f] # "start" /\ step[t] # "start" /\ Honest(f) /\ Honest(t)
      /\ Scope[f] \subseteq Objects /\ Scope[t] \subseteq Objects
  <2>1. r \in Readers /\ Len(loaded[r]) = 2 /\ f \in Collectors /\ t \in Collectors
    BY DEF Compared
  <2>2. 1 \in 1 .. Len(loaded[r]) /\ 2 \in 1 .. Len(loaded[r])
    BY <2>1
  <2> QED
    BY <2>1, <2>2, NamesAssumption DEF Telling, Owned, Inv
<1> HIDE DEF f, t
<1>2. ASSUME Complete(f, t), NEW o \in Scope[f] \cap Scope[t]
      PROVE  /\ build[f] = build[t]
             /\ record[f][o] # Unread /\ record[t][o] # Unread
  <2>1. build[f] = build[t] /\ failed[f] = {} /\ failed[t] = {}
    BY <1>2 DEF Complete
  <2> QED
    BY <1>1, <2>1 DEF Honest
<1>3. ASSUME Scope[f] = Scope[t], Complete(f, t),
             NEW o \in Added(r, f, t) \cup Removed(r, f, t), o \in Scope[f], Stayed(o)
      PROVE  FALSE
  <2>1. PICK v \in Configs \cup {Absent} : Seen(f, o) = {v} /\ Seen(t, o) = {v}
    BY <1>3
  <2>2. record[f][o] # Unread /\ record[t][o] # Unread /\ o \in Objects
    BY <1>1, <1>2, <1>3
  <2>3. (record[f][o] = Absent <=> v = Absent) /\ (record[t][o] = Absent <=> v = Absent)
    BY <1>1, <1>3, <2>1, <2>2, StayedIsTaken
  <2>4. /\ Fields(r, f, o) = {} <=> record[f][o] = Absent
        /\ Fields(r, t, o) = {} <=> record[t][o] = Absent
    BY <1>1, <2>2, FieldsTell
  <2> QED
    BY <2>3, <2>4, <1>3 DEF Added, Removed
<1>4. ASSUME Complete(f, t), build[f] <= build[r], NEW o \in both, Moved(o)
      PROVE  o \in Changed(r, f, t)
  <2>1. /\ o \in Scope[f] /\ o \in Scope[t] /\ o \in Objects
        /\ record[f][o] # Partial /\ record[t][o] # Partial
    BY <1>1
  <2>2. build[f] = build[t] /\ record[f][o] # Unread /\ record[t][o] # Unread
    BY <1>2, <1>4, <2>1
  <2>3. /\ Kept(build[f], o, record[f][o]) \in Says(f, o)
        /\ Kept(build[t], o, record[t][o]) \in Says(t, o)
    BY <1>1, <2>1, <2>2, RecordIsSaid
  <2>4. Kept(build[f], o, record[f][o]) # Kept(build[t], o, record[t][o])
    BY <1>4, <2>3
  <2>5. /\ Fields(r, f, o) = {} <=> record[f][o] = Absent
        /\ Fields(r, f, o) # {} => Fields(r, f, o) = {Kept(build[f], o, record[f][o])}
        /\ Fields(r, t, o) = {} <=> record[t][o] = Absent
        /\ Fields(r, t, o) # {} => Fields(r, t, o) = {Kept(build[t], o, record[t][o])}
    BY <1>1, <1>4, <2>1, <2>2, FieldsTell
  <2>6. ~(record[f][o] = Absent /\ record[t][o] = Absent)
    BY <2>2, <2>4
  <2>7. Fields(r, f, o) # Fields(r, t, o)
    BY <2>4, <2>5, <2>6
  <2> QED
    BY <2>1, <2>7 DEF Changed, Added, Removed, Modified
<1>5. ASSUME DiffExit(r, f, t) = 0, build[f] <= build[r], NEW o \in both, Moved(o)
      PROVE  FALSE
  <2>1. Complete(f, t) /\ Changed(r, f, t) = {}
    BY <1>5 DEF DiffExit
  <2> QED
    BY <2>1, <1>4, <1>5
<1>6. ASSUME build[f] = build[t], NEW o \in Modified(r, f, t) \cap both, Alike(o), Stayed(o)
      PROVE  FALSE
  <2>1. /\ o \in Scope[f] /\ o \in Scope[t] /\ o \in Objects
        /\ record[f][o] # Partial /\ record[t][o] # Partial
    BY <1>1
  <2>2. /\ Fields(r, f, o) # {} /\ Fields(r, t, o) # {}
        /\ Fields(r, f, o) # Fields(r, t, o)
    BY DEF Modified
  <2>3. record[f][o] \notin {Absent, Unread} /\ record[t][o] \notin {Absent, Unread}
    BY <1>1, <2>1, <2>2, FieldsTell
  <2>4. PICK v \in Configs \cup {Absent} : Seen(f, o) = {v} /\ Seen(t, o) = {v}
    BY <1>6
  <2>5. /\ record[f][o] = IF record[f][o] \in Configs THEN v ELSE Otherwise(v)
        /\ record[t][o] = IF record[t][o] \in Configs THEN v ELSE Otherwise(v)
    BY <1>1, <2>1, <2>3, <2>4, StayedIsTaken
  <2>6. record[f][o] = record[t][o]
    BY <1>6, <2>5
  <2> QED
    BY <1>6, <2>2, <2>6 DEF Fields
<1> HIDE DEF Stayed, Moved, both, Alike
<1>7. /\ Scope[f] = Scope[t] /\ Complete(f, t) =>
             \A o \in Added(r, f, t) \cup Removed(r, f, t) : o \in Scope[f] => ~Stayed(o)
      /\ Complete(f, t) /\ build[f] <= build[r] =>
             \A o \in both : Moved(o) => o \in Changed(r, f, t)
      /\ DiffExit(r, f, t) = 0 /\ build[f] <= build[r] => \A o \in both : ~Moved(o)
      /\ build[f] = build[t] => \A o \in Modified(r, f, t) \cap both : Alike(o) => ~Stayed(o)
  BY <1>3, <1>4, <1>5, <1>6
<1> QED
  BY <1>7 DEF f, t, Stayed, Moved, both, Alike

LEMMA TellingHolds == Spec => []Telling
<1>1. Init => Telling
  BY TellingInit
<1>2. Inv /\ Telling /\ [Next]_vars => Telling'
  <2> SUFFICES ASSUME Inv, Telling, [Next]_vars PROVE Telling'
    OBVIOUS
  <2>1. Owned'
    BY OwnedStep DEF Inv, Telling
  <2>2. ASSUME NEW c \in Collectors PROVE Honest(c)'
    BY HonestStep DEF Inv, Telling
  <2> QED
    BY <2>1, <2>2 DEF Telling
<1> QED
  BY <1>1, <1>2, InvHolds, PTL DEF Spec

(* diffsnap.Snapshots and its caveats: whatever is collected while the      *)
(* network changes, fails half way or is saved over, a diff that says it is *)
(* complete adds and removes nothing that stayed and, unless its build is   *)
(* older than the files, reports what moved of what both have in full, exit *)
(* 0 means nothing did, and an object both collections read in full and in  *)
(* one form is never called modified when it stayed as it was.              *)
THEOREM DiffsAreEarned == Spec => []DiffIsEarned
<1>1. Inv /\ Telling => DiffIsEarned
  BY DiffsTell
<1> QED
  BY <1>1, InvHolds, TellingHolds, PTL

=============================================================================
