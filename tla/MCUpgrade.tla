------------------------------ MODULE MCUpgrade ------------------------------
(* Instances of Upgrade for TLC. *)
EXTENDS Upgrade, TLC

CONSTANTS alice, h1, h2

TwoUnowned == {<<NoOwner, h1>>, <<NoOwner, h2>>}
OneRecovered == TwoUnowned \cup {<<alice, h1>>}

Symmetry == Permutations(Admins)
=============================================================================
