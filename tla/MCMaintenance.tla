---------------------------- MODULE MCMaintenance ----------------------------
(* Instances of Maintenance for TLC. *)
EXTENDS Maintenance, TLC

CONSTANTS h1, h2, d1, n1

NoLegacy == <<>>
OneLegacy == <<h1>>
FirstPath == <<d1, n1>>

Symmetry == Permutations(Requests) \cup Permutations(Profiles)
SymmetryAll == Symmetry \cup Permutations(Names)
=============================================================================
