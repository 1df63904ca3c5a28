---------------------------- MODULE MCBookEngine ----------------------------
(* Model-checking instance of BookEngine. *)
EXTENDS BookEngine, TLC

\* Order ids are interchangeable: no definition names one.
IdSymmetry == Permutations(OrderIds)
=============================================================================
