------------------------------ MODULE MCRegistry ------------------------------
(* Registry with what its configurations need beside the constants' values.    *)
EXTENDS Registry, TLC

\* Handlers differ in nothing but their names.
HandlerSymmetry == Permutations(Handlers)
===============================================================================
