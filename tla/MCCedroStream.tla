--------------------------- MODULE MCCedroStream ---------------------------
(* Model-checking instance of CedroStream. *)
EXTENDS CedroStream

\* handshake.rs:8-18, and the user name asked for before the greeting.
InOrder == << 1, 2, 3, 4 >>
UsernameFirst == << 2, 1, 3, 4 >>
=============================================================================
