----------------------------- MODULE MCDiagnosis -----------------------------
(* Endpoints with up to two security groups: every mix of permitting,       *)
(* silent, undecidable and uncollected groups the readings tell apart, and  *)
(* groups that are read as saying what they do not.                         *)
EXTENDS Diagnosis

MCGroup(c, r, x, p) == [collected |-> c, rules |-> r, exact |-> x, permits |-> p]

MCGroups == { MCGroup(TRUE, "permit", TRUE, TRUE), MCGroup(TRUE, "silent", TRUE, FALSE) }
            \cup { MCGroup(TRUE, "permit", FALSE, FALSE), MCGroup(TRUE, "silent", FALSE, TRUE) }
            \cup { MCGroup(TRUE, "undecidable", TRUE, p) : p \in BOOLEAN }
            \cup { MCGroup(FALSE, "silent", TRUE, p) : p \in BOOLEAN }

MCEndpoints == { [interface |-> i, groups |-> gs] :
                    i \in BOOLEAN, gs \in {{}} \cup { {g, h} : g, h \in MCGroups } }

=============================================================================
