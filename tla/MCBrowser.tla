------------------------------ MODULE MCBrowser ------------------------------
(* Instances of Browser for TLC. *)
EXTENDS Browser, TLC

CONSTANTS h1, h2, n1, n2, d1

\* Folders that files can be in, those with ".." resolved.
FolderPaths == {<<>>, <<d1>>, <<d1, d1>>}

TwoUploads == {[hash |-> h1, name |-> n1], [hash |-> h2, name |-> n2]}

\* The profiles are alike, and so are the two files, each with its name.
OtherFile == h1 :> h2 @@ h2 :> h1 @@ n1 :> n2 @@ n2 :> n1
SameFile  == [v \in {h1, h2, n1, n2} |-> v]

Symmetry == {p @@ f : p \in Permutations(Profiles), f \in {SameFile, OtherFile}}
=============================================================================
