----------------------------- MODULE SnapshotFile -----------------------------
(***************************************************************************)
(* The snapshot file (internal/snapshot) between the commands that write   *)
(* it and those that read it: aws-netpath collect, the operations that     *)
(* load one file (ops.Diagnose and the rest, and ops.TestFlows), and diff, *)
(* which loads two (ops.DiffSnapshot, internal/diffsnap).                  *)
(*                                                                         *)
(* They are processes without a lock between them, over a network that     *)
(* changes meanwhile.  A file is a sequence of parts, the pieces in which  *)
(* a write or a read may be cut; every snapshot has the same number, the   *)
(* first with its schema version and the last with its collection errors.  *)
(* What a file decodes to depends on whose parts it has.                   *)
(***************************************************************************)
EXTENDS Integers, Sequences, FiniteSets

CONSTANTS
  Paths,       (* names of files                                            *)
  Collectors,  (* runs of collect, each of them once                        *)
  Readers,     (* runs of an operation that reads, each of them once        *)
  Objects,     (* resources                                                 *)
  Configs,     (* how an object may be configured                           *)
  Absent,      (* no such object; not a configuration                       *)
  NoFile,      (* no such file; not a sequence of parts                     *)
  Scope,       (* the objects a collector was told to collect               *)
  Nested,      (* objects that may come without a part of them: it is read  *)
               (* after them, or another account they are shared with, which*)
               (* sees less of them, was merged last                        *)
  Varying,     (* objects one configuration of which may be recorded in two *)
               (* forms: AWS lists as it likes, and the copies of a shared  *)
               (* object that two accounts see may differ                   *)
  Growing,     (* objects with fields that schema version 2 adds            *)
  Older,       (* what version 1 has of each configuration in each form     *)
  Builds,      (* the schema versions the processes may have been built with*)
  Parts,       (* parts of a file                                           *)
  MaxChanges   (* bound on the changes of the network                       *)

Partial == << "part" >>
Unread  == << "unread" >>
Torn    == << "torn" >>
Error   == << "error" >>
Nobody  == << "nobody" >>

Otherwise(v) == << "otherwise", v >>

(* A configuration, in its usual form or in another.                        *)
Content  == Configs \cup { Otherwise(v) : v \in Configs }
Recorded == Content \cup {Absent, Partial, Unread}

Forms(o, v) == {v} \cup { Otherwise(w) : w \in { x \in Configs : x = v /\ o \in Varying } }

ASSUME BoundsAssumption == Parts \in Nat \ {0} /\ MaxChanges \in Nat

ASSUME NamesAssumption ==
    /\ Scope \in [Collectors -> SUBSET Objects]
    /\ Nested \subseteq Objects /\ Varying \subseteq Objects /\ Growing \subseteq Objects
    /\ DOMAIN Older = Content
    /\ Builds \subseteq [Collectors \cup Readers -> Nat]
    /\ {Torn, Error, Nobody} \cap Collectors = {}
    /\ Collectors \cap Readers = {}
    /\ Content \cap {Absent, Partial, Unread} = {}
    /\ \A v \in Configs : Otherwise(v) \notin Configs
    /\ Absent \notin {Partial, Unread}

VARIABLES
  history,    (* the networks there have been, the present one last         *)
  output,     (* collect's --output                                         *)
  asks,       (* the paths a reader opens, one after another                *)
  build,      (* the schema version each process knows                      *)
  step,       (* what each process does next                                *)
  record,     (* the snapshot a collector has in memory                     *)
  failed,     (* its collection errors                                      *)
  begun,      (* history: when it read its first object                     *)
  ended,      (* history: when it read its last                             *)
  offset,     (* parts it has written                                       *)
  file,       (* the parts of a file                                        *)
  got,        (* the parts a reader has read of the file it has open        *)
  loaded,     (* what its files decoded to                                  *)
  creator,    (* history: whose os.Create on the path was last              *)
  contested,  (* history: paths with two saves in progress at one time      *)
  source,     (* history: the creator of each file when the reader opened it*)
  overlapped  (* history: readers one of whose reads overlapped a save      *)

disk      == << file, creator, contested >>
collected == << record, failed, begun, ended >>
reads     == << got, loaded, source, overlapped >>
setup     == << output, asks, build >>
vars == << history, setup, step, collected, offset, disk, reads >>

Network == [Objects -> Configs \cup {Absent}]
Now == history[Len(history)]

Hole == << Nobody, 0 >>
Cell == (Collectors \X (1 .. Parts)) \cup {Hole}

-----------------------------------------------------------------------------
(* Reading (snapshot.ReadAny, a json.Decoder).                              *)

Whole(c) == [i \in 1 .. Parts |-> << c, i >>]

(* Slip: the first part says whose snapshot it is.                          *)
DecodedByHead(cells) == IF Len(cells) = Parts THEN {cells[1][1]} ELSE {Error}

(* A decoder stops at the end of the value, wants all of it, and takes no   *)
(* bytes that were never written.  The parts of two snapshots may fit.      *)
Decoded(cells) ==
    IF \E c \in Collectors : cells = Whole(c)
    THEN { c \in Collectors : cells = Whole(c) }
    ELSE IF Len(cells) = Parts /\ \A i \in 1 .. Parts : cells[i] # Hole
         THEN {Torn, Error}
         ELSE {Error}

(* Load refuses a version that is not this build's; LoadAny, which only a   *)
(* diff uses, does not.                                                     *)
Accepted(r, s) ==
    IF s \in Collectors /\ Len(asks[r]) = 1 /\ build[s] # build[r] THEN Error ELSE s

-----------------------------------------------------------------------------
(* Comparing two snapshots (diffsnap.Snapshots).                            *)

(* A build of version 1 neither writes nor reads back the later fields.     *)
Kept(b, o, x) == IF o \in Growing /\ b <= 1 /\ x \in Content THEN Older[x] ELSE x

(* encode: the fields of o as the reader's build reads back what the        *)
(* collector's wrote, in the form it wrote it in, as a set of one; an       *)
(* object that is not there has none.                                       *)
Fields(r, c, o) ==
    IF record[c][o] \in {Absent, Unread} THEN {}
    ELSE { Kept(IF build[c] < build[r] THEN build[c] ELSE build[r], o, record[c][o]) }

Added(r, f, t)    == { o \in Objects : Fields(r, f, o) = {} /\ Fields(r, t, o) # {} }
Removed(r, f, t)  == { o \in Objects : Fields(r, f, o) # {} /\ Fields(r, t, o) = {} }
Modified(r, f, t) == { o \in Objects : /\ Fields(r, f, o) # {} /\ Fields(r, t, o) # {}
                                       /\ Fields(r, f, o) # Fields(r, t, o) }

Changed(r, f, t) == Added(r, f, t) \cup Removed(r, f, t) \cup Modified(r, f, t)

(* Slip: errors on the later side only.                                     *)
CompleteLater(f, t) == build[f] = build[t] /\ failed[t] = {}

(* Without a caveat: one schema version, and no collection errors.          *)
Complete(f, t) == build[f] = build[t] /\ failed[f] = {} /\ failed[t] = {}

(* exitFinding: success is neither a finding nor something not established. *)
DiffExit(r, f, t) == IF Changed(r, f, t) # {} \/ ~Complete(f, t) THEN 1 ELSE 0

-----------------------------------------------------------------------------
(* Slip: os.OpenFile without O_TRUNC.                                       *)
CreatedOver(p) == IF file[p] = NoFile THEN << >> ELSE file[p]

(* os.Create keeps the file and throws away what is in it.                  *)
Created(p) == << >>

(* A file that grows by the part at offset n + 1; before the end of it,     *)
(* what is there already, or nothing.                                       *)
Put(cells, c, n) ==
    [i \in 1 .. (IF Len(cells) > n THEN Len(cells) ELSE n + 1) |->
        IF i = n + 1 THEN << c, i >> ELSE IF i <= Len(cells) THEN cells[i] ELSE Hole]

(* Collectors with a save to p in progress, readers with p open.            *)
Saving(p)  == { c \in Collectors : step[c] = "write" /\ output[c] = p }
Reading(p) == { r \in Readers : step[r] = "read" /\ asks[r][Len(loaded[r]) + 1] = p }

Init ==
    /\ history \in { << n >> : n \in Network }
    /\ output \in [Collectors -> Paths]
    /\ asks \in [Readers -> { << p >> : p \in Paths } \cup { << p, q >> : p, q \in Paths }]
    /\ build \in Builds
    /\ step = [x \in Collectors \cup Readers |-> "start"]
    /\ record = [c \in Collectors |-> [o \in Objects |-> Unread]]
    /\ failed = [c \in Collectors |-> {}]
    /\ begun = [c \in Collectors |-> 0] /\ ended = [c \in Collectors |-> 0]
    /\ offset = [c \in Collectors |-> 0]
    /\ file = [p \in Paths |-> NoFile]
    /\ creator = [p \in Paths |-> Nobody]
    /\ contested = {}
    /\ got = [r \in Readers |-> << >>]
    /\ loaded = [r \in Readers |-> << >>] /\ source = [r \in Readers |-> << >>]
    /\ overlapped = {}

(* The network changes, one object at a time.                               *)
Change ==
    /\ Len(history) <= MaxChanges
    /\ \E o \in Objects, v \in Configs \cup {Absent} :
        /\ v # Now[o]
        /\ history' = Append(history, [Now EXCEPT ![o] = v])
    /\ UNCHANGED << setup, step, collected, offset, disk, reads >>

(* One object of those collect.Run has not come to: read, in one form or    *)
(* the other, read in part, or not read and recorded as failed.             *)
Gather(c) ==
    /\ step[c] = "start"
    /\ \E o \in Scope[c] :
        /\ record[c][o] = Unread /\ o \notin failed[c]
        /\ begun' = [begun EXCEPT ![c] = IF @ = 0 THEN Len(history) ELSE @]
        /\ ended' = [ended EXCEPT ![c] = Len(history)]
        /\ \/ /\ \E x \in Forms(o, Now[o]) : record' = [record EXCEPT ![c][o] = x]
              /\ UNCHANGED failed
           \/ /\ o \in Nested /\ Now[o] # Absent
              /\ record' = [record EXCEPT ![c][o] = Partial]
              /\ UNCHANGED failed
           \/ /\ failed' = [failed EXCEPT ![c] = @ \cup {o}]
              /\ UNCHANGED record
    /\ UNCHANGED << history, setup, step, offset, disk, reads >>

(* snapshot.Save, once all is read: the directory is there and the file is  *)
(* created, or the command ends with the error.                             *)
Create(c) ==
    /\ step[c] = "start"
    /\ \A o \in Scope[c] : record[c][o] # Unread \/ o \in failed[c]
    /\ \/ /\ step' = [step EXCEPT ![c] = "write"]
          /\ file' = [file EXCEPT ![output[c]] = Created(output[c])]
          /\ creator' = [creator EXCEPT ![output[c]] = c]
          /\ contested' = contested \cup { p \in {output[c]} : Saving(p) # {} }
          /\ overlapped' = overlapped \cup Reading(output[c])
       \/ /\ step' = [step EXCEPT ![c] = "done"]
          /\ UNCHANGED << disk, overlapped >>
    /\ UNCHANGED << history, setup, collected, offset, got, loaded, source >>

(* The next part reaches the file.                                          *)
WritePart(c) ==
    /\ step[c] = "write"
    /\ offset[c] < Parts
    /\ file' = [file EXCEPT ![output[c]] = Put(@, c, offset[c])]
    /\ offset' = [offset EXCEPT ![c] = @ + 1]
    /\ UNCHANGED << history, setup, step, collected, creator, contested, reads >>

(* The file is closed; or the disk is full or the process killed, before    *)
(* that, and what is in the file stays.                                     *)
Close(c) ==
    /\ step[c] = "write"
    /\ step' = [step EXCEPT ![c] = "done"]
    /\ UNCHANGED << history, setup, collected, offset, disk, reads >>

(* os.Open of the next path a reader was asked for.                         *)
Open(r) ==
    /\ step[r] = "start"
    /\ LET p == asks[r][Len(loaded[r]) + 1]
       IN  /\ source' = [source EXCEPT ![r] = Append(@, creator[p])]
           /\ IF file[p] = NoFile
              THEN /\ step' = [step EXCEPT ![r] = "done"]
                   /\ loaded' = [loaded EXCEPT ![r] = Append(@, Error)]
                   /\ UNCHANGED << got, overlapped >>
              ELSE /\ step' = [step EXCEPT ![r] = "read"]
                   /\ got' = [got EXCEPT ![r] = << >>]
                   /\ overlapped' = overlapped \cup { x \in {r} : Saving(p) # {} }
                   /\ UNCHANGED loaded
    /\ UNCHANGED << history, setup, collected, offset, disk >>

ReadPart(r) ==
    /\ step[r] = "read"
    /\ LET p == asks[r][Len(loaded[r]) + 1]
       IN  /\ Len(got[r]) < Parts /\ Len(got[r]) < Len(file[p])
           /\ got' = [got EXCEPT ![r] = Append(@, file[p][Len(got[r]) + 1])]
    /\ UNCHANGED << history, setup, step, collected, offset, disk, loaded, source, overlapped >>

(* The value is complete or the file has no more.  An error ends the        *)
(* operation; a diff goes on to its second file.                            *)
Decode(r) ==
    /\ step[r] = "read"
    /\ \/ Len(got[r]) = Parts
       \/ Len(got[r]) >= Len(file[asks[r][Len(loaded[r]) + 1]])
    /\ \E s \in Decoded(got[r]) :
        LET a == Accepted(r, s)
        IN  /\ loaded' = [loaded EXCEPT ![r] = Append(@, a)]
            /\ step' = [step EXCEPT ![r] =
                   IF a # Error /\ Len(loaded[r]) + 1 < Len(asks[r]) THEN "start" ELSE "done"]
    /\ UNCHANGED << history, setup, collected, offset, disk, got, source, overlapped >>

Collector(c) == Gather(c) \/ Create(c) \/ WritePart(c) \/ Close(c)

Reader(r) == Open(r) \/ ReadPart(r) \/ Decode(r)

Next ==
    \/ Change
    \/ \E c \in Collectors : Collector(c)
    \/ \E r \in Readers : Reader(r)

Spec == Init /\ [][Next]_vars

-----------------------------------------------------------------------------
(* Properties.                                                              *)

Steps == {"start", "write", "read", "done"}

(* Every variable holds a value of its kind.                                *)
TypeOK ==
    /\ history \in Seq(Network) /\ history # << >>
    /\ output \in [Collectors -> Paths]
    /\ \A r \in Readers : asks[r] \in Seq(Paths) /\ Len(asks[r]) \in {1, 2}
    /\ build \in Builds
    /\ step \in [Collectors \cup Readers -> Steps]
    /\ record \in [Collectors -> [Objects -> Recorded]]
    /\ failed \in [Collectors -> SUBSET Objects]
    /\ begun \in [Collectors -> Nat] /\ ended \in [Collectors -> Nat]
    /\ offset \in [Collectors -> 0 .. Parts]
    /\ file \in [Paths -> Seq(Cell) \cup {NoFile}]
    /\ creator \in [Paths -> Collectors \cup {Nobody}]
    /\ contested \subseteq Paths
    /\ got \in [Readers -> Seq(Cell)]
    /\ loaded \in [Readers -> Seq(Collectors \cup {Torn, Error})]
    /\ source \in [Readers -> Seq(Collectors \cup {Nobody})]
    /\ overlapped \subseteq Readers

(* Nothing but the snapshot that was saved is ever read back: where no save *)
(* overlapped the read or another save, a file decodes to the snapshot of   *)
(* the command that last created it, which had written all of it, or to an  *)
(* error.  In particular a save that was cut short leaves an error behind   *)
(* it, neither the snapshot before it nor a blend of both (the comment on   *)
(* snapshot.Read: the error is the only safe outcome).                      *)
LoadsWhatWasSaved ==
    \A r \in Readers \ overlapped : \A i \in DOMAIN loaded[r] :
        asks[r][i] \notin contested /\ loaded[r][i] # Error =>
            /\ loaded[r][i] = source[r][i]
            /\ offset[loaded[r][i]] = Parts
            /\ Len(asks[r]) = 1 => build[loaded[r][i]] = build[r]

(* What o was while c was collecting.                                       *)
Seen(c, o) == { history[k][o] : k \in begun[c] .. ended[c] }

(* The readers that compared two snapshots.                                 *)
Compared == { r \in Readers : /\ step[r] = "done" /\ Len(loaded[r]) = 2
                              /\ loaded[r][1] \in Collectors /\ loaded[r][2] \in Collectors }

(* All that c might have written of o.                                      *)
Says(c, o) ==
    { Kept(build[c], o, x) : x \in UNION { Forms(o, v) : v \in Seen(c, o) } }

(* A diff is earned.  One that says it is complete adds and removes nothing *)
(* that stayed, for two collections of one scope; it reports what moved, as *)
(* far as the files' version records it, if both have it in full, and exit  *)
(* 0 means that nothing did, unless the reader's build is older than the    *)
(* files, whose later fields it drops and does not miss.  Collection errors *)
(* may invent additions and removals, never a modification (diffsnap.go,    *)
(* caveats): of what stayed, only an object recorded in part or in two      *)
(* forms is called modified.                                                *)
DiffIsEarned ==
    \A r \in Compared :
        LET f == loaded[r][1]
            t == loaded[r][2]
            Stayed(o) == \E v \in Configs \cup {Absent} : Seen(f, o) = {v} /\ Seen(t, o) = {v}
            Moved(o) == Says(f, o) \cap Says(t, o) = {}
            Alike(o) == record[f][o] \in Configs <=> record[t][o] \in Configs
            both == { o \in Scope[f] \cap Scope[t] :
                         Partial \notin {record[f][o], record[t][o]} }
        IN  /\ Scope[f] = Scope[t] /\ Complete(f, t) =>
                   \A o \in Added(r, f, t) \cup Removed(r, f, t) : o \in Scope[f] => ~Stayed(o)
            /\ Complete(f, t) /\ build[f] <= build[r] =>
                   \A o \in both : Moved(o) => o \in Changed(r, f, t)
            /\ DiffExit(r, f, t) = 0 /\ build[f] <= build[r] => \A o \in both : ~Moved(o)
            /\ build[f] = build[t] =>
                   \A o \in Modified(r, f, t) \cap both : Alike(o) => ~Stayed(o)

=============================================================================
