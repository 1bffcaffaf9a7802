------------------------------ MODULE Keyboard ------------------------------
(***************************************************************************)
(* The keyboard driver, syncos/keyboard.c: the interrupt handler with the  *)
(* modifier state, the ring buffer of characters, the reader, and the      *)
(* table of event callbacks.                                               *)
(*                                                                         *)
(* The interrupt handler runs to its end; it can run between any two reads *)
(* or writes of shared state by keyboard_read_key.  A scancode is a key    *)
(* and whether it is pressed; the character a key stands for is the key    *)
(* with the shift state (the tables have distinct rows).                   *)
(***************************************************************************)
EXTENDS RingBuffer

CONSTANTS
  Printable,     \* keys with a character
  Silent,        \* keys without one (beyond the tables, or 0 in them)
  Callbacks,     \* the callback functions
  MaxCallbacks   \* the length of callbacks[]

VARIABLES
  ring,          \* buffer, read_index, write_index
  modifiers,     \* keyboard_state.modifiers
  callbacks,     \* callbacks[i], NULL where empty
  callback_count,
  pc,            \* where keyboard_read_key is
  key            \* what it read, 0 initially; returned when pc is "idle"

vars == <<ring, modifiers, callbacks, callback_count, pc, key>>

Zero == <<"0", FALSE>>

NULL == "NULL"

Modifiers == {"shift", "ctrl", "alt"}

Keys == Printable \cup Silent \cup Modifiers

Chars == Printable \X BOOLEAN

Slots == 0 .. (MaxCallbacks - 1)

-----------------------------------------------------------------------------
(* The interrupt handler *)

\* The callbacks the handler calls: it looks at the first callback_count slots.
Called == {callbacks[i] : i \in {j \in Slots : j < callback_count}} \ {NULL}

\* Mutant: the shift state is looked up the wrong way round.
AsciiUnshifted(k) == <<k, "shift" \notin modifiers>>

\* keyboard_scancode_to_ascii of a printable key.
Ascii(k) == <<k, "shift" \in modifiers>>

\* Only the press of a printable key changes the buffer; only modifier keys
\* change the modifiers.  Whatever the event, the callbacks are called.
keyboard_irq_handler(k, press) ==
  /\ modifiers' = IF k \notin Modifiers THEN modifiers
                  ELSE IF press THEN modifiers \cup {k} ELSE modifiers \ {k}
  /\ ring' = IF press /\ k \in Printable THEN Insert(ring, Ascii(k)) ELSE ring
  /\ UNCHANGED <<callbacks, callback_count, pc, key>>

-----------------------------------------------------------------------------
(* keyboard_read_key, a shared access at a time *)

\* keyboard_has_key reads the indices.
ReadNothing ==
  /\ pc = "idle"
  /\ IsEmpty(ring)
  /\ key' = Zero
  /\ UNCHANGED <<ring, modifiers, callbacks, callback_count, pc>>

ReadStart ==
  /\ pc = "idle"
  /\ ~IsEmpty(ring)
  /\ pc' = "fetch"
  /\ UNCHANGED <<ring, modifiers, callbacks, callback_count, key>>

ReadFetch ==
  /\ pc = "fetch"
  /\ key' = ring.buffer[ring.read]
  /\ pc' = "advance"
  /\ UNCHANGED <<ring, modifiers, callbacks, callback_count>>

ReadAdvance ==
  /\ pc = "advance"
  /\ ring' = Advance(ring)
  /\ pc' = "idle"
  /\ UNCHANGED <<modifiers, callbacks, callback_count, key>>

-----------------------------------------------------------------------------
(* Callbacks *)

keyboard_register_callback(c) ==
  LET empty == {i \in Slots : callbacks[i] = NULL}
  IN  /\ pc = "idle"
      /\ empty # {}
      /\ callbacks' = [callbacks EXCEPT ![CHOOSE i \in empty : \A j \in empty : i <= j] = c]
      /\ callback_count' = callback_count + 1
      /\ UNCHANGED <<ring, modifiers, pc, key>>

\* Mutant: the count goes down although nothing was found.
UnregisterCounts(c) ==
  LET found == {i \in Slots : callbacks[i] = c}
  IN  /\ pc = "idle"
      /\ callback_count > 0
      /\ callbacks' = [i \in Slots |->
           IF i \in found /\ \A j \in found : i <= j THEN NULL ELSE callbacks[i]]
      /\ callback_count' = callback_count - 1
      /\ UNCHANGED <<ring, modifiers, pc, key>>

\* The slots behind the freed one stay where they are.
keyboard_unregister_callback(c) ==
  LET found == {i \in Slots : callbacks[i] = c}
  IN  /\ pc = "idle"
      /\ found # {}
      /\ callbacks' = [callbacks EXCEPT ![CHOOSE i \in found : \A j \in found : i <= j] = NULL]
      /\ callback_count' = callback_count - 1
      /\ UNCHANGED <<ring, modifiers, pc, key>>

-----------------------------------------------------------------------------

\* The state after keyboard_init.
Init ==
  /\ ring = EmptyRing(Zero)
  /\ modifiers = {}
  /\ callbacks = [i \in Slots |-> NULL]
  /\ callback_count = 0
  /\ pc = "idle"
  /\ key = Zero

Next ==
  \/ \E k \in Keys, press \in BOOLEAN : keyboard_irq_handler(k, press)
  \/ ReadNothing \/ ReadStart \/ ReadFetch \/ ReadAdvance
  \/ \E c \in Callbacks : keyboard_register_callback(c) \/ keyboard_unregister_callback(c)

Spec == Init /\ [][Next]_vars

-----------------------------------------------------------------------------
(* Properties *)

\* With the interrupt handler running between any two steps of the reader, keys
\* come out of keyboard_read_key in the order stored, each once, and none is
\* overwritten before it is read.  The key is taken from the queue when the reader
\* copies it, although its place in the buffer is only free one step later.
Fifo == INSTANCE BoundedFifo WITH
  Values   <- Chars,
  Capacity <- Size - 1,
  NoValue  <- Zero,
  queue    <- IF pc = "advance" THEN Tail(Contents(ring)) ELSE Contents(ring),
  taken    <- key

ImplementsFifo == Fifo!Spec

\* A key enters the buffer exactly when it is pressed, printable and there is
\* room, with the shift state of that moment.
PressesAreStored ==
  [][\A k \in Keys, press \in BOOLEAN :
       keyboard_irq_handler(k, press) /\ Len(Contents(ring)) < Size - 1 =>
         Contents(ring)' = Contents(ring) \o
           (IF press /\ k \in Printable THEN <<<<k, "shift" \in modifiers>>>> ELSE <<>>)]_vars

\* Every registered callback is called for an event, unless one in an earlier slot
\* was unregistered: the slots are not closed up then.
CallbacksReached ==
  \A i \in Slots :
    (\A j \in 0 .. i : callbacks[j] # NULL) => callbacks[i] \in Called

=============================================================================
