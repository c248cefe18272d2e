----------------------------- MODULE CollectProofs -----------------------------
(***************************************************************************)
(* What is true of a collection for any targets, resource types and        *)
(* objects, and any limit on the goroutines: nothing goes missing without  *)
(* a word, and the promise of CollectSpec is kept.                         *)
(***************************************************************************)
EXTENDS Collect, FiniteSetTheorems, SequenceTheorems, TLAPS

Done == { t \in Target : pc[t] = "done" }

(* t has o, or has recorded that it could not read it.                      *)
Told(t, o) ==
    \/ partial[t][o] = "whole"
    \/ partial[t][o] = "part" /\ o[1] \in Nested
    \/ errs[t] \cap { << t, o[1] >>, << t, Profile >> } # {}

(* The resource types t has come past.                                      *)
Past(t) == { Resources[i] : i \in 1 .. reading[t] - 1 }

(* What it has come past it has told of, and of all that it sees once it is *)
(* about to add its part.                                                   *)
Progress ==
    \A t \in Target :
        /\ pc[t] \in {"queued", "open"} => reading[t] = 1
        /\ \A o \in Sees[t] : o[1] \in Past(t) => Told(t, o)
        /\ pc[t] \in {"lock", "merge", "done"} => \A o \in Sees[t] : Told(t, o)

(* An object in part is of a nested type, and none is without those read    *)
(* before it.                                                               *)
Stored ==
    \A t \in Target, o \in Objects : partial[t][o] # "absent" =>
        /\ partial[t][o] = "part" => o[1] \in Nested
        /\ \A n \in Needs[o] : partial[t][n] # "absent"

(* A target records its own failures.                                       *)
OwnFailures ==
    \A t \in Target : /\ errs[t] \subseteq {t} \X (Resource \cup {Profile})
                      /\ IsFiniteSet(errs[t])

(* The shared snapshot is what the targets that are done have added, and    *)
(* whoever is about to add to it has read it as it is.                      *)
Sharing ==
    /\ snap.failures = UNION { errs[t] : t \in Done }
    /\ IsFiniteSet(snap.failures) /\ snap.count = Cardinality(snap.failures)
    /\ \A o \in Objects :
           IF \A t \in Done : partial[t][o] = "absent" THEN snap.objects[o] = "absent"
           ELSE \E t \in Done : partial[t][o] # "absent" /\ snap.objects[o] = partial[t][o]
    /\ \A t \in Target : pc[t] = "merge" => seen[t] = snap
    /\ result # NoResult => result = snap /\ Done = Target

Inv == TypeOK /\ Progress /\ Stored /\ OwnFailures /\ Sharing

-----------------------------------------------------------------------------

LEMMA InvInit == Init => Inv
<1> SUFFICES ASSUME Init PROVE Inv
  OBVIOUS
<1> USE CollectAssumption
<1>1. TypeOK
  <2>1. EmptySnapshot \in Snapshot
    BY DEF EmptySnapshot, NoObjects, Snapshot, Quality
  <2>2. NoObjects \in [Objects -> Quality \cup {"absent"}]
    BY DEF NoObjects
  <2>3. \A t \in Target : Nobody # t
    BY DEF Nobody
  <2>4. Len(Resources) \in Nat
    BY LenProperties
  <2>5. reading \in [Target -> 1 .. Len(Resources) + 1]
    BY <2>4 DEF Init
  <2> QED
    BY <2>1, <2>2, <2>3, <2>5 DEF Init, TypeOK, NoObjects
<1>2. Progress
  <2>1. \A t \in Target : pc[t] = "queued" /\ reading[t] = 1 /\ Past(t) = {}
    BY DEF Init, Past
  <2> QED
    BY <2>1 DEF Progress
<1>3. Stored
  BY DEF Init, Stored, NoObjects
<1>4. OwnFailures
  BY FS_EmptySet DEF Init, OwnFailures
<1>5. Sharing
  <2>1. Done = {} /\ snap = EmptySnapshot /\ result = NoResult
        /\ \A t \in Target : pc[t] # "merge"
    BY DEF Init, Done
  <2>2. /\ EmptySnapshot.failures = {} /\ EmptySnapshot.count = 0
        /\ \A o \in Objects : EmptySnapshot.objects[o] = "absent"
    BY DEF EmptySnapshot, NoObjects
  <2> QED
    BY <2>1, <2>2, FS_EmptySet DEF Sharing
<1> QED
  BY <1>1, <1>2, <1>3, <1>4, <1>5 DEF Inv

(* A read of a resource type, whatever came of it.                          *)
LEMMA ReadDoes ==
    ASSUME TypeOK, NEW t \in Target, Read(t)
    PROVE  /\ pc[t] = "read" /\ reading[t] \in 1 .. Len(Resources)
           /\ Resources[reading[t]] \in Resource
           /\ reading' = [reading EXCEPT ![t] = reading[t] + 1]
           /\ UNCHANGED << pc, expired, seen, mutex, snap, result >>
           /\ \E got \in SUBSET Seen(t, Resources[reading[t]]) : \E poor \in SUBSET got :
                /\ poor # {} => Resources[reading[t]] \in Nested
                /\ StoredInOrder(got)
                /\ Store(t, got, poor)
                /\ \/ errs' = errs /\ got = Seen(t, Resources[reading[t]])
                   \/ errs' = [errs EXCEPT ![t] = errs[t] \cup {<< t, Resources[reading[t]] >>}]
<1>1. reading[t] \in 1 .. Len(Resources) + 1 /\ Len(Resources) \in Nat
  BY CollectAssumption, LenProperties DEF TypeOK
<1>2. pc[t] = "read" /\ reading[t] \in 1 .. Len(Resources)
  BY <1>1 DEF Read
<1>3. Resources[reading[t]] \in Resource
  BY <1>2, CollectAssumption, ElementOfSeq
<1>4. \E got \in SUBSET Seen(t, Resources[reading[t]]) : \E poor \in SUBSET got :
                /\ poor # {} => Resources[reading[t]] \in Nested
                /\ StoredInOrder(got)
                /\ Store(t, got, poor)
                /\ \/ errs' = errs /\ got = Seen(t, Resources[reading[t]])
                   \/ errs' = [errs EXCEPT ![t] = errs[t] \cup {<< t, Resources[reading[t]] >>}]
  BY DEF Read, Failed
<1> QED
  BY <1>2, <1>3, <1>4 DEF Read

LEMMA StoreIsRecord ==
    ASSUME TypeOK, NEW t \in Target, NEW got, NEW poor, Store(t, got, poor)
    PROVE  /\ partial' \in [Target -> [Objects -> Quality \cup {"absent"}]]
           /\ \A u \in Target \ {t} : partial'[u] = partial[u]
           /\ \A o \in Objects :
                partial'[t][o] = IF o \in poor THEN "part" ELSE IF o \in got THEN "whole"
                                 ELSE partial[t][o]
<1> DEFINE new == [o \in Objects |-> IF o \in poor THEN "part" ELSE IF o \in got THEN "whole"
                                    ELSE partial[t][o]]
<1>1. partial \in [Target -> [Objects -> Quality \cup {"absent"}]]
  BY DEF TypeOK
<1>2. new \in [Objects -> Quality \cup {"absent"}]
  BY <1>1 DEF Quality
<1>3. partial' = [partial EXCEPT ![t] = new]
  BY DEF Store
<1> HIDE DEF new
<1>4. partial' \in [Target -> [Objects -> Quality \cup {"absent"}]] /\ partial'[t] = new
      /\ \A u \in Target \ {t} : partial'[u] = partial[u]
  BY <1>1, <1>2, <1>3
<1> QED
  BY <1>4 DEF new

(* The union of the parts.                                                  *)
LEMMA MergeDoes ==
    ASSUME TypeOK, OwnFailures, Sharing, NEW t \in Target, Merge(t)
    PROVE  /\ pc[t] = "merge" /\ mutex = t /\ pc' = [pc EXCEPT ![t] = "done"] /\ mutex' = Nobody
           /\ UNCHANGED << reading, expired, partial, errs, seen, result >>
           /\ snap' = [objects  |-> MergeSnapshot(snap.objects, partial[t]),
                       failures |-> snap.failures \cup errs[t],
                       count    |-> snap.count + Cardinality(errs[t])]
BY DEF Merge, Goto, TypeOK, Sharing

LEMMA TypeStep == TypeOK /\ OwnFailures /\ Sharing /\ [Next]_vars => TypeOK'
<1> SUFFICES ASSUME TypeOK, OwnFailures, Sharing, [Next]_vars PROVE TypeOK'
  OBVIOUS
<1> USE CollectAssumption
<1>0. /\ pc \in [Target -> {"queued", "open", "read", "lock", "merge", "done"}]
      /\ \A t \in Target : (pc[t] = "merge") <=> (mutex = t)
      /\ errs \in [Target -> SUBSET Failure]
      /\ \A t \in Target : t # Nobody
  BY DEF TypeOK, Nobody
<1>1. ASSUME NEW i \in DOMAIN Targets, Start(i) PROVE TypeOK'
  <2>1. Targets[i] \in Target /\ pc[Targets[i]] = "queued"
        /\ pc' = [pc EXCEPT ![Targets[i]] = "open"]
    BY <1>1 DEF Start, Target, Goto
  <2>2. /\ pc' \in [Target -> {"queued", "open", "read", "lock", "merge", "done"}]
        /\ \A t \in Target : (pc'[t] = "merge") <=> (pc[t] = "merge")
    BY <2>1, <1>0
  <2> QED
    BY <2>2, <1>1 DEF TypeOK, Start
<1>2. ASSUME NEW t \in Target, Expire(t) PROVE TypeOK'
  <2>1. expired' \in [Target -> BOOLEAN]
    BY <1>2 DEF Expire, TypeOK
  <2> QED
    BY <2>1, <1>2 DEF TypeOK, Expire
<1>3. ASSUME NEW t \in Target, Open(t) PROVE TypeOK'
  <2>1. /\ pc' \in [Target -> {"queued", "open", "read", "lock", "merge", "done"}]
        /\ \A u \in Target : (pc'[u] = "merge") <=> (pc[u] = "merge")
    BY <1>3, <1>0 DEF Open, Goto
  <2>2. errs' \in [Target -> SUBSET Failure]
    <3>1. { << t, Profile >> } \in SUBSET Failure
      BY DEF Failure
    <3> QED
      BY <3>1, <1>3, <1>0 DEF Open
  <2> QED
    BY <2>1, <2>2, <1>3 DEF TypeOK, Open
<1>4. ASSUME NEW t \in Target, Read(t) PROVE TypeOK'
  <2>0. PICK got \in SUBSET Seen(t, Resources[reading[t]]) : \E poor \in SUBSET got :
            /\ Store(t, got, poor)
            /\ \/ errs' = errs
               \/ errs' = [errs EXCEPT ![t] = errs[t] \cup {<< t, Resources[reading[t]] >>}]
    BY <1>4, ReadDoes
  <2>1. PICK poor \in SUBSET got :
            /\ Store(t, got, poor)
            /\ \/ errs' = errs
               \/ errs' = [errs EXCEPT ![t] = errs[t] \cup {<< t, Resources[reading[t]] >>}]
    BY <2>0
  <2>2. /\ reading[t] \in 1 .. Len(Resources) /\ Resources[reading[t]] \in Resource
        /\ reading' = [reading EXCEPT ![t] = reading[t] + 1]
        /\ UNCHANGED << pc, expired, seen, mutex, snap, result >>
    BY <1>4, ReadDoes
  <2>3. reading' \in [Target -> 1 .. Len(Resources) + 1]
    BY <2>2, LenProperties DEF TypeOK
  <2>4. errs' \in [Target -> SUBSET Failure]
    <3>1. errs[t] \cup {<< t, Resources[reading[t]] >>} \in SUBSET Failure
      BY <2>2, <1>0 DEF Failure
    <3> QED
      BY <3>1, <2>1, <1>0
  <2>5. partial' \in [Target -> [Objects -> Quality \cup {"absent"}]]
    BY <2>1, StoreIsRecord
  <2>6. \A u \in Target : \A o \in Objects \ Sees[u] : partial'[u][o] = "absent"
    <3>1. got \subseteq Sees[t] /\ poor \subseteq got
      BY DEF Seen
    <3>2. \A u \in Target : \A o \in Objects \ Sees[u] : partial[u][o] = "absent"
      BY DEF TypeOK
    <3>3. \A o \in Objects \ Sees[t] : partial'[t][o] = "absent"
      BY <3>1, <3>2, <2>1, StoreIsRecord
    <3>4. \A u \in Target \ {t} : partial'[u] = partial[u]
      BY <2>1, StoreIsRecord
    <3> QED
      BY <3>2, <3>3, <3>4
  <2> QED
    BY <2>2, <2>3, <2>4, <2>5, <2>6 DEF TypeOK
<1>5. ASSUME NEW t \in Target, ReadAll(t) PROVE TypeOK'
  <2>1. /\ pc' \in [Target -> {"queued", "open", "read", "lock", "merge", "done"}]
        /\ \A u \in Target : (pc'[u] = "merge") <=> (pc[u] = "merge")
    BY <1>5, <1>0 DEF ReadAll, Goto
  <2> QED
    BY <2>1, <1>5 DEF TypeOK, ReadAll
<1>6. ASSUME NEW t \in Target, Lock(t) PROVE TypeOK'
  <2>1. /\ pc' \in [Target -> {"queued", "open", "read", "lock", "merge", "done"}]
        /\ \A u \in Target : (pc'[u] = "merge") <=> (mutex' = u)
    BY <1>6, <1>0 DEF Lock, Goto
  <2>2. seen' \in [Target -> Snapshot]
    BY <1>6 DEF Lock, TypeOK
  <2> QED
    BY <2>1, <2>2, <1>6 DEF TypeOK, Lock
<1>7. ASSUME NEW t \in Target, Merge(t) PROVE TypeOK'
  <2>1. /\ pc' \in [Target -> {"queued", "open", "read", "lock", "merge", "done"}]
        /\ \A u \in Target : (pc'[u] = "merge") <=> (mutex' = u)
    BY <1>7, <1>0, MergeDoes
  <2>2. MergeSnapshot(snap.objects, partial[t]) \in [Objects -> Quality \cup {"absent"}]
    BY DEF TypeOK, MergeSnapshot, Snapshot
  <2>3. snap.failures \cup errs[t] \in SUBSET Failure
    BY <1>0 DEF TypeOK, Snapshot
  <2>4. snap.count + Cardinality(errs[t]) \in Nat
    BY FS_CardinalityType DEF TypeOK, Snapshot, OwnFailures
  <2>5. snap' \in Snapshot
    BY <2>2, <2>3, <2>4, <1>7, MergeDoes DEF Snapshot
  <2> QED
    BY <2>1, <2>5, <1>7, MergeDoes DEF TypeOK
<1>8. CASE Wait
  BY <1>8 DEF TypeOK, Wait
<1>9. CASE UNCHANGED vars
  BY <1>9 DEF TypeOK, vars
<1> QED
  BY <1>1, <1>2, <1>3, <1>4, <1>5, <1>6, <1>7, <1>8, <1>9 DEF Next, Goroutine

(* Of a type that has been read, all that t sees is told of; what was told  *)
(* of before still is.                                                      *)
LEMMA ReadTells ==
    ASSUME TypeOK, NEW t \in Target, Read(t)
    PROVE  /\ \A u \in Target, o \in Objects : Told(u, o) => Told(u, o)'
           /\ \A o \in Sees[t] : o[1] = Resources[reading[t]] => Told(t, o)'
<1>0. PICK got \in SUBSET Seen(t, Resources[reading[t]]) : \E poor \in SUBSET got :
          /\ poor # {} => Resources[reading[t]] \in Nested
          /\ Store(t, got, poor)
          /\ \/ errs' = errs /\ got = Seen(t, Resources[reading[t]])
             \/ errs' = [errs EXCEPT ![t] = errs[t] \cup {<< t, Resources[reading[t]] >>}]
  BY ReadDoes
<1>1. PICK poor \in SUBSET got :
          /\ poor # {} => Resources[reading[t]] \in Nested
          /\ Store(t, got, poor)
          /\ \/ errs' = errs /\ got = Seen(t, Resources[reading[t]])
             \/ errs' = [errs EXCEPT ![t] = errs[t] \cup {<< t, Resources[reading[t]] >>}]
  BY <1>0
<1>2. \A u \in Target : errs[u] \subseteq errs'[u]
  BY <1>1 DEF TypeOK
<1>3. /\ \A u \in Target \ {t} : partial'[u] = partial[u]
      /\ \A o \in Objects :
            partial'[t][o] = IF o \in poor THEN "part" ELSE IF o \in got THEN "whole"
                             ELSE partial[t][o]
  BY <1>1, StoreIsRecord
<1>4. \A o \in got : o[1] = Resources[reading[t]]
  BY DEF Seen
<1>5. ASSUME NEW o \in Objects, o \in got PROVE Told(t, o)'
  BY <1>1, <1>3, <1>4, <1>5 DEF Told
<1>6. ASSUME NEW u \in Target, NEW o \in Objects, Told(u, o) PROVE Told(u, o)'
  <2>1. CASE u = t /\ o \in got
    BY <2>1, <1>5
  <2>2. CASE u = t /\ o \notin got
    <3>1. partial'[u][o] = partial[u][o]
      BY <2>2, <1>3
    <3> QED
      BY <3>1, <1>2, <1>6 DEF Told
  <2>3. CASE u # t
    <3>1. partial'[u][o] = partial[u][o]
      BY <2>3, <1>3
    <3> QED
      BY <3>1, <1>2, <1>6 DEF Told
  <2> QED
    BY <2>1, <2>2, <2>3
<1>7. ASSUME NEW o \in Sees[t], o[1] = Resources[reading[t]] PROVE Told(t, o)'
  <2>1. o \in Objects
    BY CollectAssumption
  <2>2. CASE errs' = errs /\ got = Seen(t, Resources[reading[t]])
    BY <2>1, <2>2, <1>5, <1>7 DEF Seen
  <2>3. CASE errs' = [errs EXCEPT ![t] = errs[t] \cup {<< t, Resources[reading[t]] >>}]
    <3>1. << t, o[1] >> \in errs'[t]
      BY <2>3, <1>7 DEF TypeOK
    <3> QED
      BY <3>1 DEF Told
  <2> QED
    BY <2>2, <2>3, <1>1
<1> QED
  BY <1>6, <1>7

LEMMA ProgressStep == TypeOK /\ Progress /\ [Next]_vars => Progress'
<1> SUFFICES ASSUME TypeOK, Progress, [Next]_vars PROVE Progress'
  OBVIOUS
<1> DEFINE Along(t) ==
        /\ pc[t] \in {"queued", "open"} => reading[t] = 1
        /\ \A o \in Sees[t] : o[1] \in Past(t) => Told(t, o)
        /\ pc[t] \in {"lock", "merge", "done"} => \A o \in Sees[t] : Told(t, o)
<1>0. /\ pc \in [Target -> {"queued", "open", "read", "lock", "merge", "done"}]
      /\ \A t \in Target : Along(t)
      /\ \A t \in Target : Sees[t] \subseteq Objects
      /\ \A t \in Target : reading[t] \in 1 .. Len(Resources) + 1
      /\ Len(Resources) \in Nat
  BY CollectAssumption, LenProperties DEF TypeOK, Progress
<1>1. SUFFICES \A t \in Target : Along(t)'
  BY DEF Progress
<1>2. ASSUME UNCHANGED << reading, partial >>,
             \A u \in Target : errs[u] \subseteq errs'[u],
             \A u \in Target : /\ pc'[u] \in {"queued", "open"} => pc[u] \in {"queued", "open"}
                               /\ pc'[u] \in {"lock", "merge", "done"} =>
                                      \/ pc[u] \in {"lock", "merge", "done"}
                                      \/ \A o \in Sees[u] : Told(u, o)'
      PROVE  \A t \in Target : Along(t)'
  <2>1. ASSUME NEW u \in Target, NEW o, Told(u, o) PROVE Told(u, o)'
    BY <2>1, <1>2 DEF Told
  <2> QED
    BY <2>1, <1>0, <1>2 DEF Past
<1>3. ASSUME NEW i \in DOMAIN Targets, Start(i) PROVE \A t \in Target : Along(t)'
  <2>1. Targets[i] \in Target /\ pc[Targets[i]] = "queued"
        /\ pc' = [pc EXCEPT ![Targets[i]] = "open"] /\ UNCHANGED << reading, partial, errs >>
    BY <1>3 DEF Start, Target, Goto
  <2> QED
    BY <2>1, <1>0, <1>2
<1>4. ASSUME NEW t \in Target, Open(t) PROVE \A u \in Target : Along(u)'
  <2>1. UNCHANGED << reading, partial >> /\ pc[t] = "open"
    BY <1>4 DEF Open
  <2>2. CASE pc' = [pc EXCEPT ![t] = "read"] /\ UNCHANGED errs
    BY <2>1, <2>2, <1>0, <1>2
  <2>3. CASE /\ pc' = [pc EXCEPT ![t] = "lock"]
             /\ errs' = [errs EXCEPT ![t] = { << t, Profile >> }]
    <3>1. << t, Profile >> \in errs'[t]
      BY <2>3 DEF TypeOK
    <3>2. \A o \in Sees[t] : Told(t, o)'
      BY <3>1 DEF Told
    <3>3. \A u \in Target \ {t} : /\ errs'[u] = errs[u] /\ pc'[u] = pc[u]
                                  /\ \A o : Told(u, o) => Told(u, o)'
      BY <2>1, <2>3 DEF TypeOK, Told
    <3>4. pc'[t] = "lock"
      BY <2>3, <1>0
    <3>5. Along(t)'
      BY <3>2, <3>4
    <3>6. ASSUME NEW u \in Target \ {t} PROVE Along(u)'
      BY <3>3, <2>1, <1>0 DEF Past
    <3> QED
      BY <3>5, <3>6
  <2> QED
    BY <2>2, <2>3, <1>4 DEF Open, Goto
<1>5. ASSUME NEW t \in Target, Read(t) PROVE \A u \in Target : Along(u)'
  <2>1. /\ pc[t] = "read" /\ pc' = pc /\ reading[t] \in Nat
        /\ reading' = [reading EXCEPT ![t] = reading[t] + 1]
    BY <1>5, <1>0, ReadDoes
  <2>2. Past(t)' \subseteq Past(t) \cup {Resources[reading[t]]}
    BY <2>1 DEF Past, TypeOK
  <2>3. ASSUME NEW o \in Sees[t], o[1] \in Past(t)' PROVE Told(t, o)'
    <3>1. CASE o[1] = Resources[reading[t]]
      BY <3>1, <1>5, ReadTells
    <3>2. CASE o[1] \in Past(t)
      BY <3>2, <1>0, <1>5, ReadTells
    <3> QED
      BY <2>2, <2>3, <3>1, <3>2
  <2>4. ASSUME NEW u \in Target \ {t} PROVE Along(u)'
    <3>1. reading'[u] = reading[u] /\ pc'[u] = pc[u] /\ Past(u)' = Past(u)
      BY <2>1 DEF Past, TypeOK
    <3>2. \A o \in Sees[u] : Told(u, o) => Told(u, o)'
      BY <1>0, <1>5, ReadTells
    <3> QED
      BY <3>1, <3>2, <1>0
  <2> QED
    BY <2>1, <2>3, <2>4
<1>6. ASSUME NEW t \in Target, ReadAll(t) PROVE \A u \in Target : Along(u)'
  <2>1. /\ UNCHANGED << reading, partial, errs >> /\ pc' = [pc EXCEPT ![t] = "lock"]
        /\ reading[t] > Len(Resources)
    BY <1>6 DEF ReadAll, Goto
  <2>2. Past(t) = Resource
    <3>1. reading[t] - 1 = Len(Resources)
      BY <2>1, <1>0
    <3>2. DOMAIN Resources = 1 .. Len(Resources)
      BY CollectAssumption, LenProperties
    <3> QED
      BY <3>1, <3>2 DEF Past, Resource
  <2>3. \A o \in Sees[t] : Told(t, o)'
    <3>1. \A o \in Sees[t] : o[1] \in Resource
      BY CollectAssumption
    <3> QED
      BY <3>1, <2>1, <2>2, <1>0 DEF Told
  <2> QED
    BY <2>1, <2>3, <1>0, <1>2
<1>7. ASSUME NEW t \in Target, Lock(t) PROVE \A u \in Target : Along(u)'
  <2>1. /\ UNCHANGED << reading, partial, errs >> /\ pc' = [pc EXCEPT ![t] = "merge"]
        /\ pc[t] = "lock"
    BY <1>7 DEF Lock, Goto
  <2> QED
    BY <2>1, <1>0, <1>2
<1>8. ASSUME NEW t \in Target, Merge(t) PROVE \A u \in Target : Along(u)'
  <2>1. /\ UNCHANGED << reading, partial, errs >> /\ pc' = [pc EXCEPT ![t] = "done"]
        /\ pc[t] = "merge"
    BY <1>8 DEF Merge, Goto
  <2> QED
    BY <2>1, <1>0, <1>2
<1>9. CASE Wait \/ UNCHANGED vars \/ \E t \in Target : Expire(t)
  <2>1. UNCHANGED << pc, reading, partial, errs >>
    BY <1>9 DEF Wait, vars, Expire
  <2> QED
    BY <2>1, <1>2
<1> QED
  BY <1>3, <1>4, <1>5, <1>6, <1>7, <1>8, <1>9 DEF Next, Goroutine

LEMMA StoredStep == TypeOK /\ Stored /\ [Next]_vars => Stored'
<1> SUFFICES ASSUME TypeOK, Stored, [Next]_vars PROVE Stored'
  OBVIOUS
<1>1. ASSUME NEW t \in Target, Read(t) PROVE Stored'
  <2>0. PICK got \in SUBSET Seen(t, Resources[reading[t]]) : \E poor \in SUBSET got :
            /\ poor # {} => Resources[reading[t]] \in Nested
            /\ StoredInOrder(got) /\ Store(t, got, poor)
    BY <1>1, ReadDoes
  <2>1. PICK poor \in SUBSET got :
            /\ poor # {} => Resources[reading[t]] \in Nested
            /\ StoredInOrder(got) /\ Store(t, got, poor)
    BY <2>0
  <2>2. /\ \A u \in Target \ {t} : partial'[u] = partial[u]
        /\ \A o \in Objects :
              partial'[t][o] = IF o \in poor THEN "part" ELSE IF o \in got THEN "whole"
                               ELSE partial[t][o]
    BY <2>1, StoreIsRecord
  <2>3. \A o \in got : o[1] = Resources[reading[t]] /\ Needs[o] \subseteq got
    BY <2>1 DEF Seen, StoredInOrder
  <2>4. \A o \in Objects : Needs[o] \subseteq Objects
    BY CollectAssumption
  <2>5. ASSUME NEW o \in Objects, partial'[t][o] # "absent"
        PROVE  /\ partial'[t][o] = "part" => o[1] \in Nested
               /\ \A n \in Needs[o] : partial'[t][n] # "absent"
    <3>1. CASE o \in got
      BY <3>1, <2>1, <2>2, <2>3, <2>4
    <3>2. CASE o \notin got
      <4>1. partial'[t][o] = partial[t][o]
        BY <3>2, <2>2
      <4>2. /\ partial[t][o] = "part" => o[1] \in Nested
            /\ \A n \in Needs[o] : partial[t][n] # "absent"
        BY <4>1, <2>5 DEF Stored
      <4> QED
        BY <4>1, <4>2, <2>2, <2>4
    <3> QED
      BY <3>1, <3>2
  <2>6. ASSUME NEW u \in Target \ {t}, NEW o \in Objects, partial'[u][o] # "absent"
        PROVE  /\ partial'[u][o] = "part" => o[1] \in Nested
               /\ \A n \in Needs[o] : partial'[u][n] # "absent"
    BY <2>2, <2>6 DEF Stored
  <2> QED
    BY <2>5, <2>6 DEF Stored
<1>2. CASE UNCHANGED partial
  BY <1>2 DEF Stored
<1> QED
  BY <1>1, <1>2 DEF Next, Goroutine, Start, Expire, Open, ReadAll, Lock, Merge, Wait, vars

LEMMA OwnStep == TypeOK /\ OwnFailures /\ [Next]_vars => OwnFailures'
<1> SUFFICES ASSUME TypeOK, OwnFailures, [Next]_vars PROVE OwnFailures'
  OBVIOUS
<1>0. errs \in [Target -> SUBSET Failure]
  BY DEF TypeOK
<1>1. ASSUME NEW t \in Target, NEW e \in {t} \X (Resource \cup {Profile}),
             \/ errs' = [errs EXCEPT ![t] = {e}]
             \/ errs' = [errs EXCEPT ![t] = errs[t] \cup {e}]
      PROVE  OwnFailures'
  <2>1. IsFiniteSet({e}) /\ IsFiniteSet(errs[t] \cup {e})
    BY FS_Singleton, FS_AddElement DEF OwnFailures
  <2>2. \/ errs'[t] = {e} \/ errs'[t] = errs[t] \cup {e}
    BY <1>0, <1>1
  <2>3. \A u \in Target \ {t} : errs'[u] = errs[u]
    BY <1>0, <1>1
  <2>4. errs'[t] \subseteq {t} \X (Resource \cup {Profile}) /\ IsFiniteSet(errs'[t])
    BY <2>1, <2>2 DEF OwnFailures
  <2> QED
    BY <2>3, <2>4 DEF OwnFailures
<1>2. ASSUME NEW t \in Target, Open(t) PROVE OwnFailures'
  <2>1. << t, Profile >> \in {t} \X (Resource \cup {Profile})
    OBVIOUS
  <2>2. CASE UNCHANGED errs
    BY <2>2 DEF OwnFailures
  <2> QED
    BY <2>1, <2>2, <1>1, <1>2 DEF Open
<1>3. ASSUME NEW t \in Target, Read(t) PROVE OwnFailures'
  <2>1. << t, Resources[reading[t]] >> \in {t} \X (Resource \cup {Profile})
    BY <1>3, ReadDoes
  <2>2. CASE UNCHANGED errs
    BY <2>2 DEF OwnFailures
  <2>3. \/ UNCHANGED errs
        \/ errs' = [errs EXCEPT ![t] = errs[t] \cup {<< t, Resources[reading[t]] >>}]
    BY <1>3, ReadDoes
  <2> QED
    BY <2>1, <2>2, <2>3, <1>1
<1>4. CASE UNCHANGED errs
  BY <1>4 DEF OwnFailures
<1> QED
  BY <1>2, <1>3, <1>4 DEF Next, Goroutine, Start, Expire, ReadAll, Lock, Merge, Wait, vars

(* Only a merge changes what the shared snapshot and its makers are.        *)
LEMMA SharingStays ==
    ASSUME Sharing, UNCHANGED << snap, result >>, Done' = Done,
           \A t \in Done : partial'[t] = partial[t] /\ errs'[t] = errs[t],
           \A t \in Target : pc'[t] = "merge" => pc[t] = "merge" /\ seen'[t] = seen[t]
    PROVE  Sharing'
<1>1. UNION { errs'[t] : t \in Done } = UNION { errs[t] : t \in Done }
  OBVIOUS
<1>2. snap'.failures = UNION { errs'[t] : t \in Done' }
  BY <1>1 DEF Sharing
<1>3. \A o \in Objects :
        IF \A t \in Done' : partial'[t][o] = "absent" THEN snap'.objects[o] = "absent"
        ELSE \E t \in Done' : partial'[t][o] # "absent" /\ snap'.objects[o] = partial'[t][o]
  BY DEF Sharing
<1>4. /\ IsFiniteSet(snap'.failures) /\ snap'.count = Cardinality(snap'.failures)
      /\ \A t \in Target : pc'[t] = "merge" => seen'[t] = snap'
      /\ result' # NoResult => result' = snap' /\ Done' = Target
  BY DEF Sharing
<1> QED
  BY <1>2, <1>3, <1>4 DEF Sharing

LEMMA SharingStep ==
    TypeOK /\ OwnFailures /\ Sharing /\ [Next]_vars => Sharing'
<1> SUFFICES ASSUME TypeOK, OwnFailures, Sharing, [Next]_vars PROVE Sharing'
  OBVIOUS
<1>0. /\ pc \in [Target -> {"queued", "open", "read", "lock", "merge", "done"}]
      /\ errs \in [Target -> SUBSET Failure]
      /\ \A t \in Target : (pc[t] = "merge") <=> (mutex = t)
      /\ seen \in [Target -> Snapshot]
  BY DEF TypeOK
<1>1. ASSUME NEW i \in DOMAIN Targets, Start(i) PROVE Sharing'
  <2>1. Targets[i] \in Target /\ pc[Targets[i]] = "queued"
        /\ pc' = [pc EXCEPT ![Targets[i]] = "open"]
        /\ UNCHANGED << snap, result, partial, errs, seen >>
    BY <1>1 DEF Start, Target, Goto
  <2>2. Done' = Done
    BY <2>1, <1>0 DEF Done
  <2> QED
    BY <2>1, <2>2, <1>0, SharingStays
<1>2. ASSUME NEW t \in Target, Open(t) PROVE Sharing'
  <2>1. /\ pc[t] = "open" /\ UNCHANGED << snap, result, partial, seen >>
        /\ pc' = [pc EXCEPT ![t] = "read"] \/ pc' = [pc EXCEPT ![t] = "lock"]
        /\ \A u \in Target \ {t} : errs'[u] = errs[u]
    BY <1>2, <1>0 DEF Open, Goto
  <2>2. Done' = Done /\ t \notin Done
    BY <2>1, <1>0 DEF Done
  <2> QED
    BY <2>1, <2>2, <1>0, SharingStays DEF Done
<1>3. ASSUME NEW t \in Target, Read(t) PROVE Sharing'
  <2>1. /\ pc[t] = "read" /\ UNCHANGED << pc, snap, result, seen >>
        /\ \A u \in Target \ {t} : errs'[u] = errs[u]
    BY <1>3, <1>0, ReadDoes
  <2>2. \A u \in Target \ {t} : partial'[u] = partial[u]
    BY <1>3, ReadDoes, StoreIsRecord
  <2>3. Done' = Done /\ t \notin Done
    BY <2>1 DEF Done
  <2> QED
    BY <2>1, <2>2, <2>3, SharingStays DEF Done
<1>4. ASSUME NEW t \in Target, ReadAll(t) PROVE Sharing'
  <2>1. /\ pc[t] = "read" /\ UNCHANGED << snap, result, partial, errs, seen >>
        /\ pc' = [pc EXCEPT ![t] = "lock"]
    BY <1>4 DEF ReadAll, Goto
  <2>2. Done' = Done
    BY <2>1, <1>0 DEF Done
  <2> QED
    BY <2>1, <2>2, <1>0, SharingStays
<1>5. ASSUME NEW t \in Target, Lock(t) PROVE Sharing'
  <2>1. /\ pc[t] = "lock" /\ UNCHANGED << snap, result, partial, errs >>
        /\ pc' = [pc EXCEPT ![t] = "merge"] /\ seen' = [seen EXCEPT ![t] = snap]
    BY <1>5 DEF Lock, Goto
  <2>2. Done' = Done
    BY <2>1, <1>0 DEF Done
  <2>3. \A u \in Target : pc'[u] = "merge" => seen'[u] = snap'
    BY <2>1, <1>0 DEF Sharing
  <2> QED
    BY <2>1, <2>2, <2>3 DEF Sharing
<1>6. ASSUME NEW t \in Target, Merge(t) PROVE Sharing'
  <2>1. /\ pc[t] = "merge" /\ mutex = t /\ pc' = [pc EXCEPT ![t] = "done"]
        /\ UNCHANGED << partial, errs, seen, result >>
        /\ snap' = [objects  |-> MergeSnapshot(snap.objects, partial[t]),
                    failures |-> snap.failures \cup errs[t],
                    count    |-> snap.count + Cardinality(errs[t])]
    BY <1>6, MergeDoes
  <2>2. Done' = Done \cup {t} /\ t \notin Done
    BY <2>1, <1>0 DEF Done
  <2>3. snap'.failures = UNION { errs'[u] : u \in Done' }
    BY <2>1, <2>2 DEF Sharing
  <2>4. IsFiniteSet(snap'.failures) /\ snap'.count = Cardinality(snap'.failures)
    <3>1. snap.failures \cap errs[t] = {}
      <4>1. \A u \in Done : errs[u] \cap errs[t] = {}
        BY <2>2 DEF OwnFailures, Done
      <4> QED
        BY <4>1 DEF Sharing
    <3>2. IsFiniteSet(snap.failures) /\ IsFiniteSet(errs[t])
      BY DEF Sharing, OwnFailures
    <3>3. /\ IsFiniteSet(snap.failures \cup errs[t])
          /\ Cardinality(snap.failures \cup errs[t])
                = Cardinality(snap.failures) + Cardinality(errs[t])
      <4>1. Cardinality(snap.failures) \in Nat /\ Cardinality(errs[t]) \in Nat
        BY <3>2, FS_CardinalityType
      <4>2. Cardinality(snap.failures \cap errs[t]) = 0
        BY <3>1, FS_EmptySet
      <4>3. /\ IsFiniteSet(snap.failures \cup errs[t])
            /\ Cardinality(snap.failures \cup errs[t])
                  = Cardinality(snap.failures) + Cardinality(errs[t])
                    - Cardinality(snap.failures \cap errs[t])
        BY <3>2, FS_Union
      <4> QED
        BY <4>1, <4>2, <4>3
    <3> QED
      BY <3>3, <2>1 DEF Sharing
  <2>5. ASSUME NEW o \in Objects
        PROVE  IF \A u \in Done' : partial'[u][o] = "absent" THEN snap'.objects[o] = "absent"
               ELSE \E u \in Done' : partial'[u][o] # "absent" /\ snap'.objects[o] = partial'[u][o]
    <3>1. snap'.objects[o] = IF partial[t][o] # "absent" THEN partial[t][o] ELSE snap.objects[o]
      BY <2>1 DEF MergeSnapshot
    <3>2. IF \A u \in Done : partial[u][o] = "absent" THEN snap.objects[o] = "absent"
          ELSE \E u \in Done : partial[u][o] # "absent" /\ snap.objects[o] = partial[u][o]
      BY DEF Sharing
    <3> QED
      BY <3>1, <3>2, <2>1, <2>2
  <2>6. \A u \in Target : pc'[u] # "merge"
    BY <2>1, <1>0
  <2>7. result' = NoResult
    <3>1. Done # Target
      BY <2>2
    <3> QED
      BY <3>1, <2>1 DEF Sharing
  <2> QED
    BY <2>3, <2>4, <2>5, <2>6, <2>7 DEF Sharing
<1>7. CASE Wait
  <2>1. Done = Target /\ UNCHANGED << pc, partial, errs, seen, snap >> /\ result' = snap
    BY <1>7 DEF Wait, Done
  <2>2. Done' = Done
    BY <2>1 DEF Done
  <2>3. UNION { errs'[t] : t \in Done } = UNION { errs[t] : t \in Done }
    BY <2>1
  <2>4. /\ snap'.failures = UNION { errs'[t] : t \in Done' }
        /\ IsFiniteSet(snap'.failures) /\ snap'.count = Cardinality(snap'.failures)
    BY <2>1, <2>2, <2>3 DEF Sharing
  <2>5. \A o \in Objects :
          IF \A t \in Done' : partial'[t][o] = "absent" THEN snap'.objects[o] = "absent"
          ELSE \E t \in Done' : partial'[t][o] # "absent" /\ snap'.objects[o] = partial'[t][o]
    BY <2>1, <2>2 DEF Sharing
  <2>6. \A t \in Target : pc'[t] = "merge" => seen'[t] = snap'
    BY <2>1 DEF Sharing
  <2> QED
    BY <2>1, <2>2, <2>4, <2>5, <2>6 DEF Sharing
<1>8. CASE UNCHANGED vars \/ \E t \in Target : Expire(t)
  <2>1. UNCHANGED << pc, partial, errs, seen, snap, result >>
    BY <1>8 DEF vars, Expire
  <2> QED
    BY <2>1, SharingStays DEF Done
<1> QED
  BY <1>1, <1>2, <1>3, <1>4, <1>5, <1>6, <1>7, <1>8 DEF Next, Goroutine

-----------------------------------------------------------------------------
(* The theorems.                                                            *)

LEMMA InvHolds == Spec => []Inv
<1>1. Init => Inv
  BY InvInit
<1>2. Inv /\ [Next]_vars => Inv'
  BY TypeStep, ProgressStep, StoredStep, OwnStep, SharingStep DEF Inv
<1> QED
  BY <1>1, <1>2, PTL DEF Spec

(* collect.Run: every variable holds a value of its kind, and the mutex     *)
(* excludes, for any number of targets.                                     *)
THEOREM TypeCorrect == Spec => []TypeOK
<1>1. Inv => TypeOK
  BY DEF Inv
<1> QED
  BY <1>1, InvHolds, PTL

(* collect.Run and mergeSnapshot: what a target can see is whole in the     *)
(* snapshot or its failure is recorded, but for the parts of nested types,  *)
(* and no object is there without those read before it.                     *)
THEOREM NothingIsMissed == Spec => []NothingMissesSilently
<1>1. ASSUME Inv, result # NoResult
      PROVE  /\ \A t \in Target : \A o \in Sees[t] :
                    \/ result.objects[o] = "whole"
                    \/ o[1] \in Nested /\ result.objects[o] = "part"
                    \/ result.failures \cap { << t, o[1] >>, << t, Profile >> } # {}
             /\ \A o \in Objects : result.objects[o] # "absent" =>
                    \A n \in Needs[o] : result.objects[n] # "absent"
  <2>1. /\ result = snap /\ Done = Target
        /\ snap.failures = UNION { errs[t] : t \in Target }
        /\ \A o \in Objects :
              IF \A t \in Target : partial[t][o] = "absent" THEN snap.objects[o] = "absent"
              ELSE \E t \in Target : partial[t][o] # "absent" /\ snap.objects[o] = partial[t][o]
    BY <1>1 DEF Inv, Sharing
  <2>2. \A t \in Target : \A o \in Sees[t] : Told(t, o) /\ o \in Objects
    BY <2>1, <1>1, CollectAssumption DEF Inv, Progress, Done
  <2>3. \A t \in Target, o \in Objects : partial[t][o] # "absent" =>
            /\ partial[t][o] = "whole" \/ (o[1] \in Nested /\ partial[t][o] = "part")
            /\ \A n \in Needs[o] : partial[t][n] # "absent"
    <3>1. \A t \in Target, o \in Objects : partial[t][o] \in {"part", "whole", "absent"}
      BY <1>1 DEF Inv, TypeOK, Quality
    <3>2. Stored
      BY <1>1 DEF Inv
    <3>3. ASSUME NEW t \in Target, NEW o \in Objects, partial[t][o] # "absent"
          PROVE  /\ partial[t][o] = "whole" \/ (o[1] \in Nested /\ partial[t][o] = "part")
                 /\ \A n \in Needs[o] : partial[t][n] # "absent"
      <4>1. partial[t][o] = "part" => o[1] \in Nested
        BY <3>2, <3>3 DEF Stored
      <4>2. \A n \in Needs[o] : partial[t][n] # "absent"
        <5>1. \A v \in Target, p \in Objects : partial[v][p] # "absent" =>
                  \A n \in Needs[p] : partial[v][n] # "absent"
          BY <3>2 DEF Stored
        <5> QED
          BY <5>1, <3>3
      <4>3. partial[t][o] = "whole" \/ partial[t][o] = "part"
        BY <3>1, <3>3
      <4> QED
        BY <4>1, <4>2, <4>3
    <3> QED
      BY <3>3
  <2>4. ASSUME NEW t \in Target, NEW o \in Sees[t]
        PROVE  \/ result.objects[o] = "whole"
               \/ o[1] \in Nested /\ result.objects[o] = "part"
               \/ result.failures \cap { << t, o[1] >>, << t, Profile >> } # {}
    <3>1. CASE partial[t][o] # "absent"
      <4>1. \E u \in Target : partial[u][o] # "absent" /\ snap.objects[o] = partial[u][o]
        BY <3>1, <2>1, <2>2
      <4> QED
        BY <4>1, <2>1, <2>2, <2>3
    <3>2. CASE partial[t][o] = "absent"
      <4>1. errs[t] \cap { << t, o[1] >>, << t, Profile >> } # {}
        BY <3>2, <2>2 DEF Told
      <4> QED
        BY <4>1, <2>1
    <3> QED
      BY <3>1, <3>2
  <2>5. ASSUME NEW o \in Objects, result.objects[o] # "absent", NEW n \in Needs[o]
        PROVE  result.objects[n] # "absent"
    <3>1. PICK t \in Target : partial[t][o] # "absent"
      BY <2>1, <2>5
    <3>2. partial[t][n] # "absent" /\ n \in Objects
      BY <3>1, <2>3, CollectAssumption
    <3>3. \E u \in Target : partial[u][n] # "absent" /\ snap.objects[n] = partial[u][n]
      BY <3>2, <2>1
    <3> QED
      BY <3>3, <2>1
  <2> QED
    BY <2>4, <2>5
<1>2. Inv => NothingMissesSilently
  BY <1>1 DEF NothingMissesSilently
<1> QED
  BY <1>2, InvHolds, PTL

-----------------------------------------------------------------------------
(* The promise.                                                             *)

LEMMA PromiseInit == Init => Promise!Init
<1> SUFFICES ASSUME Init PROVE Promise!Init
  OBVIOUS
<1>1. \A t \in Target : pc[t] = "queued"
  BY DEF Init
<1> QED
  BY <1>1 DEF Init, Promise!Init, Promise!NoReport, Promise!NoSnapshot, NoObjects, NoResult

(* What a target reports while it is not done, and once it is.              *)
Reports(t) == IF pc[t] = "done" THEN [objects |-> partial[t], failures |-> errs[t]]
              ELSE [objects |-> NoObjects, failures |-> {}]

LEMMA MergeDelivers ==
    ASSUME Inv, NEW t \in Target, Merge(t)
    PROVE  Promise!Next
<1>1. /\ pc[t] = "merge" /\ pc' = [pc EXCEPT ![t] = "done"]
      /\ UNCHANGED << partial, errs, result >>
  BY MergeDoes DEF Inv
<1>2. pc \in [Target -> {"queued", "open", "read", "lock", "merge", "done"}]
  BY DEF Inv, TypeOK
<1>3. t \notin Done /\ Done' = Done \cup {t}
  BY <1>1, <1>2 DEF Done
<1>4. Reports(t)' = [objects |-> partial[t], failures |-> errs[t]]
  BY <1>1, <1>2 DEF Reports
<1>5. \A u \in Target \ {t} : Reports(u)' = Reports(u)
  BY <1>1, <1>2 DEF Reports
<1>6. [u \in Target |-> Reports(u)'] = [[u \in Target |-> Reports(u)] EXCEPT ![t] = Reports(t)']
  BY <1>5
<1>7. Promise!Honest(t, Reports(t)')
  <2>1. errs[t] \subseteq {t} \X (Resource \cup {Profile})
    BY DEF Inv, OwnFailures
  <2>2. \A o \in Sees[t] : \/ partial[t][o] = "whole"
                           \/ partial[t][o] = "part" /\ o[1] \in Nested
                           \/ errs[t] \cap { << t, o[1] >>, << t, Profile >> } # {}
    BY <1>1 DEF Inv, Progress, Told
  <2>3. \A o \in Objects \ Sees[t] : partial[t][o] = "absent"
    BY DEF Inv, TypeOK
  <2> QED
    BY <2>1, <2>2, <2>3, <1>4 DEF Promise!Honest
<1>8. Promise!Deliver(t)
  BY <1>1, <1>3, <1>6, <1>7 DEF Promise!Deliver, Reports, Done
<1> QED
  BY <1>8 DEF Promise!Next

LEMMA WaitAssembles ==
    ASSUME Inv, Wait
    PROVE  Promise!Next
<1>1. /\ result = NoResult /\ \A t \in Target : pc[t] = "done"
      /\ result' = snap /\ UNCHANGED << pc, partial, errs >>
  BY DEF Wait
<1>2. Done = Target /\ \A t \in Target : Reports(t) = [objects |-> partial[t], failures |-> errs[t]]
  BY <1>1 DEF Done, Reports
<1>3. snap \in Snapshot /\ snap.failures = UNION { errs[t] : t \in Target }
      /\ snap.count = Cardinality(snap.failures)
  BY <1>2 DEF Inv, TypeOK, Sharing
<1>4. Promise!Failures = snap.failures
  <2>1. \A t \in Target : Reports(t).failures = errs[t]
    BY <1>2
  <2>2. { Reports(t).failures : t \in Target } = { errs[t] : t \in Target }
    BY <2>1
  <2>3. Promise!Failures = UNION { Reports(t).failures : t \in Target }
    BY DEF Promise!Failures, Reports
  <2> QED
    BY <2>2, <2>3, <1>3
<1>5. \A o \in Objects : Promise!Copies(o) = { partial[t][o] : t \in Target } \ {"absent"}
  BY <1>1 DEF Promise!Copies
<1>6. ASSUME NEW o \in Objects
      PROVE  IF Promise!Copies(o) = {} THEN snap.objects[o] = "absent"
             ELSE snap.objects[o] \in Promise!Copies(o)
  <2>1. IF \A t \in Target : partial[t][o] = "absent" THEN snap.objects[o] = "absent"
        ELSE \E t \in Target : partial[t][o] # "absent" /\ snap.objects[o] = partial[t][o]
    BY <1>2 DEF Inv, Sharing
  <2> QED
    BY <2>1, <1>5
<1>7. snap \in [ objects  : [Objects -> {"absent", "part", "whole"}],
                 failures : {Promise!Failures},
                 count    : {Cardinality(Promise!Failures)} ]
  BY <1>3, <1>4 DEF Snapshot, Quality
<1>8. Promise!Assemble
  <2>1. Promise!Cardinality(Promise!Failures) = Cardinality(Promise!Failures)
    BY DEF Cardinality, Promise!Cardinality
  <2>2. result' \in [ objects  : [Objects -> {"absent", "part", "whole"}],
                      failures : {Promise!Failures},
                      count    : {Promise!Cardinality(Promise!Failures)} ]
    BY <1>1, <1>7, <2>1
  <2> QED
    BY <1>1, <1>2, <1>6, <2>2 DEF Promise!Assemble, Promise!NoSnapshot, NoResult, Done
<1> QED
  BY <1>8 DEF Promise!Next

(* Every other step is of one target, and of its own affairs.               *)
LEMMA OthersStutter ==
    ASSUME Inv, [Next]_vars, ~Wait, \A t \in Target : ~Merge(t)
    PROVE  UNCHANGED Promise!vars
<1>0. /\ pc \in [Target -> {"queued", "open", "read", "lock", "merge", "done"}]
      /\ errs \in [Target -> SUBSET Failure]
  BY DEF Inv, TypeOK
<1>1. ASSUME result' = result,
             \A t \in Target : (pc'[t] = "done") <=> (pc[t] = "done"),
             \A t \in Done : partial'[t] = partial[t] /\ errs'[t] = errs[t]
      PROVE  UNCHANGED Promise!vars
  BY <1>1 DEF Promise!vars, Done
<1>2. ASSUME NEW i \in DOMAIN Targets, Start(i) PROVE UNCHANGED Promise!vars
  <2>1. Targets[i] \in Target /\ pc[Targets[i]] = "queued"
        /\ pc' = [pc EXCEPT ![Targets[i]] = "open"] /\ UNCHANGED << result, partial, errs >>
    BY <1>2 DEF Start, Target, Goto
  <2> QED
    BY <2>1, <1>0, <1>1
<1>3. ASSUME NEW t \in Target, Open(t) PROVE UNCHANGED Promise!vars
  <2>1. /\ pc[t] = "open" /\ UNCHANGED << result, partial >>
        /\ pc' = [pc EXCEPT ![t] = "read"] \/ pc' = [pc EXCEPT ![t] = "lock"]
        /\ \A u \in Target \ {t} : errs'[u] = errs[u]
    BY <1>3, <1>0 DEF Open, Goto
  <2> QED
    BY <2>1, <1>0, <1>1 DEF Done
<1>4. ASSUME NEW t \in Target, Read(t) PROVE UNCHANGED Promise!vars
  <2>1. /\ pc[t] = "read" /\ UNCHANGED << pc, result >>
        /\ \A u \in Target \ {t} : errs'[u] = errs[u]
    BY <1>4, <1>0, ReadDoes DEF Inv
  <2>2. \A u \in Target \ {t} : partial'[u] = partial[u]
    BY <1>4, ReadDoes, StoreIsRecord DEF Inv
  <2> QED
    BY <2>1, <2>2, <1>1 DEF Done
<1>5. ASSUME NEW t \in Target, ReadAll(t) \/ Lock(t) PROVE UNCHANGED Promise!vars
  <2>1. /\ pc[t] \in {"read", "lock"} /\ UNCHANGED << result, partial, errs >>
        /\ pc' = [pc EXCEPT ![t] = "lock"] \/ pc' = [pc EXCEPT ![t] = "merge"]
    BY <1>5 DEF ReadAll, Lock, Goto
  <2> QED
    BY <2>1, <1>0, <1>1
<1>6. CASE UNCHANGED vars \/ \E t \in Target : Expire(t)
  <2>1. UNCHANGED << pc, partial, errs, result >>
    BY <1>6 DEF vars, Expire
  <2> QED
    BY <2>1, <1>1
<1> QED
  BY <1>2, <1>3, <1>4, <1>5, <1>6 DEF Next, Goroutine

(* collect.Run implements CollectSpec: the snapshot it returns is what the  *)
(* targets' own reports come to, whatever the order and the overlap.        *)
THEOREM KeepsPromise == Spec => ImplementsPromise
<1>1. Init => Promise!Init
  BY PromiseInit
<1>2. Inv /\ [Next]_vars => [Promise!Next]_(Promise!vars)
  BY MergeDelivers, WaitAssembles, OthersStutter
<1>3. Spec => Promise!Spec
  BY <1>1, <1>2, InvHolds, PTL DEF Spec, Promise!Spec
<1> QED
  BY <1>3 DEF ImplementsPromise

===============================================================================
