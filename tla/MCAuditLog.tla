----------------------------- MODULE MCAuditLog -----------------------------
(***************************************************************************)
(* AuditLog for two writers, two kinds of record and three records, enough *)
(* for a fork, a loss in the middle and a cut line that is continued.      *)
(***************************************************************************)
EXTENDS AuditLog

\* Nothing depends on which writer or which kind of record it is.
Interchangeable == Permutations(Writers) \cup Permutations(Fields)
=============================================================================
