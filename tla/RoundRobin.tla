----------------------------- MODULE RoundRobin -----------------------------
(***************************************************************************)
(* What the scheduler promises: tasks wait in one first-in first-out line, *)
(* whoever gives up the CPU goes to its end, the first in line runs next,  *)
(* and a task that blocks or is killed leaves without disturbing the order *)
(* of the others.  Process.tla is shown to implement this module.          *)
(***************************************************************************)
EXTENDS Sequences, Integers

CONSTANTS Tasks, Idle      \* the idle task never blocks and is never killed

VARIABLES ready, blocked, running

vars == <<ready, blocked, running>>

Waiting == {ready[i] : i \in DOMAIN ready}

\* The line after p left it, if it was there.
Without(p) ==
  LET i == CHOOSE k \in DOMAIN ready : ready[k] = p
  IN  IF p \in Waiting
        THEN [k \in 1 .. (Len(ready) - 1) |-> IF k < i THEN ready[k] ELSE ready[k + 1]]
        ELSE ready

Init ==
  /\ ready = <<>>
  /\ blocked = {}
  /\ running = Idle

Admit(p) ==
  /\ p \notin Waiting \cup blocked \cup {running}
  /\ ready' = Append(ready, p)
  /\ UNCHANGED <<blocked, running>>

\* The first in line runs.
Dispatch(line) ==
  /\ line # <<>>
  /\ running' = Head(line)
  /\ ready' = Tail(line)

Yield ==
  /\ Dispatch(Append(ready, running))
  /\ UNCHANGED blocked

Block ==
  /\ running # Idle
  /\ Dispatch(ready)
  /\ blocked' = blocked \cup {running}

Unblock(p) ==
  /\ p \in blocked
  /\ blocked' = blocked \ {p}
  /\ ready' = Append(ready, p)
  /\ UNCHANGED running

Kill(p) ==
  /\ p # Idle
  /\ IF p = running
       THEN Dispatch(ready) /\ UNCHANGED blocked
       ELSE /\ ready' = Without(p)
            /\ blocked' = blocked \ {p}
            /\ UNCHANGED running

Next ==
  \/ Yield
  \/ Block
  \/ \E p \in Tasks : Admit(p) \/ Unblock(p) \/ Kill(p)

Spec == Init /\ [][Next]_vars

=============================================================================
