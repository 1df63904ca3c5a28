---------------------------- MODULE MCRawArchive ----------------------------
(* Model-checking instance of RawArchive. *)
EXTENDS RawArchive, TLC

HourSymmetry == Permutations(Hours)
=============================================================================
