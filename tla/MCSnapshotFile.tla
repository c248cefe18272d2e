---------------------------- MODULE MCSnapshotFile ----------------------------
(* Two collections and one reader, which loads one file or compares two,    *)
(* over two paths; one object, of a type that may come without a part of    *)
(* it, in two forms, and with the field in which its two configurations     *)
(* differ unknown to version 1.                                             *)
EXTENDS SnapshotFile, TLC

CONSTANTS here, there, c1, c2, reader, table, old, new

MCScope == [c \in {c1, c2} |-> {table}]

MCOlder == [x \in Content |-> << "older", x \in Configs >>]

(* All of one version, or one collector or the reader behind.               *)
MCBuilds == { [b \in {c1, c2, reader} |-> IF b \in behind THEN 1 ELSE 2] :
                  behind \in {{}, {c1}, {reader}} }

Symmetry == Permutations({here, there}) \cup Permutations({old, new})

=============================================================================
