------------------------------ MODULE MCTimer ------------------------------
(* Small instances of Timer.tla for TLC. *)
EXTENDS Timer

=============================================================================
