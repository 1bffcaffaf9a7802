------------------------------- MODULE Input -------------------------------
(***************************************************************************)
(* The two PS/2 drivers, syncos/keyboard.c and syncos/mouse.c, side by     *)
(* side.  They share the ring buffer's algorithm but no state and no step  *)
(* (each has its own IRQ, buffer and reader), so their interleavings add   *)
(* nothing: a behaviour is one of the keyboard's or one of the mouse's.    *)
(***************************************************************************)
EXTENDS Integers, Sequences

CONSTANTS
  KeyboardSize,  \* KEYBOARD_BUFFER_SIZE
  MouseSize,     \* MOUSE_BUFFER_SIZE
  Printable,     \* keys with a character
  Silent,        \* keys without one
  FirstBytes,    \* first bytes of the mouse's packets
  Moves,         \* second and third bytes
  Callbacks,     \* the callback functions
  KeyboardCallbacks, MouseCallbacks   \* the lengths of the two callbacks[]

VARIABLES
  device,        \* which driver this behaviour is about
  kring, modifiers, kcallbacks, kcount, kpc, key,
  packet_bytes, packet_stage, mring, mcallbacks, mcount, mpc, event, position, lost

kvars == <<kring, modifiers, kcallbacks, kcount, kpc, key>>

mvars == <<packet_bytes, packet_stage, mring, mcallbacks, mcount, mpc, event, position, lost>>

vars == <<device, kvars, mvars>>

K == INSTANCE Keyboard WITH
  Size <- KeyboardSize, MaxCallbacks <- KeyboardCallbacks, ring <- kring,
  callbacks <- kcallbacks, callback_count <- kcount, pc <- kpc

M == INSTANCE Mouse WITH
  Size <- MouseSize, MaxCallbacks <- MouseCallbacks, Lossy <- TRUE, ring <- mring,
  callbacks <- mcallbacks, callback_count <- mcount, pc <- mpc

\* NULL is no callback function: registering it is refused, and nobody
\* unregisters it.
ASSUME InputAssumption ==
  /\ {KeyboardSize, MouseSize} \subseteq Nat \ {0, 1}
  /\ {KeyboardCallbacks, MouseCallbacks} \subseteq Nat \ {0}
  /\ K!NULL \notin Callbacks
  /\ Printable \cap Silent = {}
  /\ FirstBytes \cup Moves \subseteq 0 .. 255
  /\ \A b \in FirstBytes : M!Bit(b, 3)

Init == device \in {"keyboard", "mouse"} /\ K!Init /\ M!Init

Next ==
  \/ device = "keyboard" /\ K!Next /\ UNCHANGED <<device, mvars>>
  \/ device = "mouse" /\ M!Next /\ UNCHANGED <<device, kvars>>

Spec == Init /\ [][Next]_vars

-----------------------------------------------------------------------------
(* Properties *)

\* With the interrupt handler running between any two steps of the reader, keys
\* come out of keyboard_read_key and packets out of mouse_read_event in the order
\* stored, each once, and none is overwritten before it is read.
Fifo == K!ImplementsFifo /\ M!ImplementsFifo

\* A key enters the buffer exactly when it is pressed, printable and there is
\* room, with the shift state of that moment, whatever modifier events and reads
\* come between.
PressesAreStored == K!PressesAreStored

\* Without a lost byte the mouse driver and the device agree on where a packet
\* starts, and a movement that fits the 8-bit fields of mouse_packet_t is reported
\* exactly, the vertical one inverted.
MovementExact == M!InStep /\ M!MovementExact

\* Every registered callback of either driver is called for an event, unless a
\* callback in an earlier slot was unregistered.
CallbacksReached == K!CallbacksReached /\ M!CallbacksReached

=============================================================================
