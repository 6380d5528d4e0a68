-------------------------------- MODULE MCLogin --------------------------------
(* Login as it is checked. The callers and the attempts are alike.            *)
EXTENDS Login, TLC

Symmetry == Permutations(Clients) \cup Permutations(Attempts)
================================================================================
