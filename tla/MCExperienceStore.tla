---------------------------- MODULE MCExperienceStore ----------------------------
(* Values for checking ExperienceStore: experiences of one kind, so that they are merged *)
EXTENDS ExperienceStore, TLC

CONSTANTS k1, k2, k3, kindA, w1, w2, r1, c1

OneKind == [k \in Key |-> kindA]

\* The writers, and the keys of one kind.
Interchangeable == Permutations({w1, w2}) \cup Permutations({k1, k2})
=============================================================================
