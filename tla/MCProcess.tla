----------------------------- MODULE MCProcess -----------------------------
(* Small instances of Process.tla for TLC: three table entries or two besides *)
(* the idle process's, so that queues of two and a reused entry occur.        *)
EXTENDS Process

=============================================================================
