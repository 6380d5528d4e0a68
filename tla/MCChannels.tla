------------------------------- MODULE MCChannels -------------------------------
(* Channels with the symmetry of what is typed.                                *)
EXTENDS Channels, TLC

Symmetry == Permutations(Secrets) \cup Permutations(Editors)
================================================================================
