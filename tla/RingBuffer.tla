----------------------------- MODULE RingBuffer -----------------------------
(***************************************************************************)
(* The ring buffer that syncos/keyboard.c and syncos/mouse.c both use: an  *)
(* array with a read and a write index, written by the interrupt handler   *)
(* and read by a thread.  One element stays unused, so that equal indices  *)
(* mean empty.                                                             *)
(***************************************************************************)
EXTENDS Naturals, Sequences

CONSTANT Size    \* KEYBOARD_BUFFER_SIZE, MOUSE_BUFFER_SIZE

EmptyRing(zero) == [buffer |-> [k \in 0 .. (Size - 1) |-> zero], read |-> 0, write |-> 0]

IsEmpty(r) == r.read = r.write

\* Mutant: no element is kept unused.
InsertAlways(r, v) ==
  [r EXCEPT !.buffer[r.write] = v, !.write = (r.write + 1) % Size]

\* The ring after the handler added `v'; a full ring stays as it is.
Insert(r, v) ==
  LET next_write == (r.write + 1) % Size
  IN  IF next_write = r.read
        THEN r
        ELSE [r EXCEPT !.buffer[r.write] = v, !.write = next_write]

\* The ring after the reader moved on.
Advance(r) == [r EXCEPT !.read = (r.read + 1) % Size]

\* The values between the read and the write index.
Contents(r) ==
  [k \in 1 .. ((r.write + Size - r.read) % Size) |-> r.buffer[(r.read + k - 1) % Size]]

=============================================================================
