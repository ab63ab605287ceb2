------------------------------- MODULE MCFiles -------------------------------
(* Instances of Files for TLC. *)
EXTENDS FilesProps, TLC

CONSTANTS p1, p2, p3, f1, f2, e1, e2, s1, s2, k1, k2, k3

MCProcs == {p1, p2, p3}
MCNames == {f1, f2}
MCEntries == {e1, e2}
MCSectors == {s1, s2}
MCInodes == {k1, k2, k3}

Symmetry ==
  Permutations(MCProcs) \cup Permutations(MCNames) \cup Permutations(MCEntries)
    \cup Permutations(MCSectors) \cup Permutations(MCInodes)
=============================================================================
