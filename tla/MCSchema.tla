------------------------------ MODULE MCSchema ------------------------------
(* Databases for TLC: the releases an upgrade starts from.                 *)
EXTENDS SchemaUpgrade

\* No database; before versioning; before the durations were enforced; before
\* loops; before stop reasons; before token records; before the loop's cwd.
Releases == {Fresh, 0, 3, 5, 8, 10, 11}

\* A database whose old jobs have to be marked.
BeforeTokens == {10}
=============================================================================
