------------------------------- MODULE MCNuage -------------------------------
(* Instances of Nuage for TLC. *)
EXTENDS Nuage, TLC

CONSTANTS h1, d1, n1

NoLegacy == <<>>
OneLegacy == <<h1>>
FirstPath == <<d1, n1>>

Symmetry == Permutations(Profiles)
=============================================================================
