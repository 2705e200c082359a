--------------------------- MODULE MCPolicyReview ---------------------------
(***************************************************************************)
(* Small instances of PolicyReview for TLC.                                *)
(***************************************************************************)
EXTENDS PolicyReview, TLC

CONSTANTS a, b, x, y, r1

\* A notice that needs both fields, one that needs one of them, and one
\* whose conditions make no rule, so that no package is built.
\* The evidence of each cites all documents.
MCDraft == {[keys |-> {a, b}, rule |-> {a, b}, cites |-> Document],
            [keys |-> {a}, rule |-> {a}, cites |-> Document],
            [keys |-> {b}, rule |-> {}, cites |-> Document]}

\* Only the notice that needs both fields.
MCTwoFieldDraft == {d \in MCDraft : d.rule = {a, b}}

\* Only the notice that needs one field.
MCOneFieldDraft == {d \in MCDraft : d.rule = {a}}

\* Every run finds the same files.
SameFiles == [r \in Run |-> Document]

\* One run finds two files, of which the others find only one: they cite the
\* other as the notice's page, or find it renamed.
FewerFiles == [r \in Run |-> IF r = r1 THEN {x, y} ELSE {y}]

\* Requests are interchangeable, and runs that find the same files.
RequestSymmetry == Permutations(Worker)
Symmetry == Permutations(Worker) \cup Permutations(Run)
=============================================================================
