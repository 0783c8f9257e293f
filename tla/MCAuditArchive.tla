----------------------------- MODULE MCAuditArchive -----------------------------
(* Instances of AuditArchive for TLC. *)
EXTENDS AuditArchive, TLC

CONSTANTS j1, r1, r2, a1, a2, a3, b1, b2

MCJob       == {j1}
MCRev       == {r1, r2}
MCArchiver  == {a1, a2, a3}
MCPublisher == {b1, b2}

\* No constant of a set is treated differently from another.
Symmetry == Permutations(MCArchiver) \cup Permutations(MCPublisher) \cup Permutations(MCRev)
================================================================================
