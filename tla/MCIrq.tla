------------------------------- MODULE MCIrq -------------------------------
(* A small instance of Irq.tla for TLC: the last line of each controller,     *)
(* where spurious requests appear, and one more of the slave's.              *)
EXTENDS Irq

=============================================================================
