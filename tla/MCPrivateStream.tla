--------------------------- MODULE MCPrivateStream ---------------------------
(* Instances of PrivateStream for TLC. *)
EXTENDS PrivateStream

CONSTANTS e1, s1

=============================================================================
