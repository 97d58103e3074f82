------------------------------ MODULE MCChannels ------------------------------
(* Instances of Channels for TLC. *)
EXTENDS Channels, TLC

Symmetry == Permutations(Profiles) \cup Permutations(ChannelIds)
=============================================================================
