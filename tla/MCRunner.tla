------------------------------- MODULE MCRunner -------------------------------
(* Runner with what its configurations need beside the constants' values.      *)
EXTENDS Runner, TLC

\* Channels differ in nothing but their names. No liveness property is checked
\* under this symmetry.
ChannelSymmetry == Permutations(Channels)
===============================================================================
