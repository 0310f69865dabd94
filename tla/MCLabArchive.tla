---------------------------- MODULE MCLabArchive ----------------------------
(***************************************************************************)
(* Instances of LabArchive: floating targets of one family, so that they   *)
(* meet in the archive, and three hellos.                                  *)
(***************************************************************************)
EXTENDS LabArchive, TLC

CONSTANTS t1, t2, h1, h2, h3, x, fam

MCFamily == [t \in Targets |-> fam]

\* Every JA4 has a prefix of its own, for which the hello stands.
DistinctPrefix == [h \in Hellos |-> h]

\* JA4s that differ in their hashes only: the first 12 characters are
\* t13d1516h2_8 for many releases of one browser.
SharedPrefix == [h \in Hellos |-> x]

\* Nothing tells two targets, or two hellos of distinct prefixes, apart.
Symmetry == Permutations(Targets) \cup Permutations(Hellos)

\* No property says anything of what follows these faults, and what was seen
\* stays seen: what comes after them is looked at for two runs only.
Explored == seen \cap {"ignored", "server", "late", "overlap"} = {} \/ runs <= 2
=============================================================================
