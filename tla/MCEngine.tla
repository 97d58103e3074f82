------------------------------- MODULE MCEngine -------------------------------
(* Instances of Engine for TLC: the values are in the .cfg files. *)
EXTENDS EngineStore, EngineInvariant, TLC

Symmetry == Permutations(Requests) \cup Permutations(Profiles)
              \cup Permutations(Hashes) \cup Permutations(Names)
=============================================================================
