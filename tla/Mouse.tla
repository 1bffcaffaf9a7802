------------------------------- MODULE Mouse -------------------------------
(***************************************************************************)
(* The PS/2 mouse driver, syncos/mouse.c: the interrupt handler assembles  *)
(* three bytes into a packet, decodes the movements into 8-bit fields,     *)
(* stores the packet in a ring buffer and calls the callbacks.             *)
(*                                                                         *)
(* The device (external) sends packets a byte at a time; a byte can be     *)
(* lost when the next one arrives before it is read.  As in Keyboard.tla,  *)
(* the handler can run between any two shared accesses of the reader.      *)
(***************************************************************************)
EXTENDS RingBuffer, Integers

CONSTANTS
  FirstBytes,    \* first bytes the device sends: bit 3 is set in each
  Moves,         \* second and third bytes
  Lossy,         \* bytes can be lost
  Callbacks,     \* the callback functions
  MaxCallbacks   \* the length of callbacks[]

Bytes == FirstBytes \cup Moves

Bit(b, n) == (b \div 2^n) % 2 = 1

VARIABLES
  packet_bytes,  \* the first three of packet_bytes[]
  packet_stage,
  ring,          \* buffer, read_index, write_index
  callbacks,     \* callbacks[i], NULL where empty
  callback_count,
  pc,            \* where mouse_read_event is
  event,         \* what it read; returned when pc is "idle"
  position,      \* the byte of a packet the device sends next
  lost           \* a byte was lost

vars == <<packet_bytes, packet_stage, ring, callbacks, callback_count, pc, event,
          position, lost>>

NULL == "NULL"

Slots == 0 .. (MaxCallbacks - 1)

NoPacket == [buttons |-> 0, x |-> 0, y |-> 0]

-----------------------------------------------------------------------------
(* Decoding *)

\* Conversion to int8_t.
Int8(v) == ((v + 128) % 256) - 128

\* v |= 0xFFFFFF00, before the result is stored in 8 bits again.
OrHigh(v) == (v % 256) - 256

XMovement(first, b) == IF Bit(first, 4) THEN Int8(OrHigh(Int8(b))) ELSE Int8(b)

YMovement(first, b) ==
  LET y == Int8(-Int8(b))
  IN  IF Bit(first, 5) THEN Int8(OrHigh(y)) ELSE y

Decode(bytes) ==
  [buttons |-> bytes[1] % 8,
   x       |-> XMovement(bytes[1], bytes[2]),
   y       |-> YMovement(bytes[1], bytes[3])]

-----------------------------------------------------------------------------
(* The interrupt handler, one byte at a time *)

\* The callbacks the handler calls for a packet: it looks at the first
\* callback_count slots.
Called == {callbacks[i] : i \in {j \in Slots : j < callback_count}} \ {NULL}

\* Mutant: the stage is not reset after a packet.
KeepsStage(b) ==
  IF packet_stage = 0 /\ ~Bit(b, 3)
    THEN UNCHANGED <<packet_bytes, packet_stage, ring>>
    ELSE /\ packet_bytes' = [packet_bytes EXCEPT ![packet_stage + 1] = b]
         /\ packet_stage' = IF packet_stage = 2 THEN 1 ELSE packet_stage + 1
         /\ ring' = IF packet_stage = 2 THEN Insert(ring, Decode(packet_bytes')) ELSE ring

\* A first byte without bit 3 is skipped; the third byte completes the packet.
mouse_irq_handler(b) ==
  IF packet_stage = 0 /\ ~Bit(b, 3)
    THEN UNCHANGED <<packet_bytes, packet_stage, ring>>
    ELSE /\ packet_bytes' = [packet_bytes EXCEPT ![packet_stage + 1] = b]
         /\ packet_stage' = (packet_stage + 1) % 3
         /\ ring' = IF packet_stage = 2 THEN Insert(ring, Decode(packet_bytes')) ELSE ring

\* The device sends a byte, and the handler reads it.
Interrupt ==
  /\ \E b \in IF position = 0 THEN FirstBytes ELSE Moves : mouse_irq_handler(b)
  /\ position' = (position + 1) % 3
  /\ UNCHANGED <<callbacks, callback_count, pc, event, lost>>

LoseByte ==
  /\ Lossy
  /\ position' = (position + 1) % 3
  /\ lost' = TRUE
  /\ UNCHANGED <<packet_bytes, packet_stage, ring, callbacks, callback_count, pc, event>>

-----------------------------------------------------------------------------
(* mouse_read_event, a shared access at a time *)

ReadNothing ==
  /\ pc = "idle"
  /\ IsEmpty(ring)
  /\ event' = NoPacket
  /\ UNCHANGED <<packet_bytes, packet_stage, ring, callbacks, callback_count, pc,
                 position, lost>>

ReadStart ==
  /\ pc = "idle"
  /\ ~IsEmpty(ring)
  /\ pc' = "fetch"
  /\ UNCHANGED <<packet_bytes, packet_stage, ring, callbacks, callback_count, event,
                 position, lost>>

ReadFetch ==
  /\ pc = "fetch"
  /\ event' = ring.buffer[ring.read]
  /\ pc' = "advance"
  /\ UNCHANGED <<packet_bytes, packet_stage, ring, callbacks, callback_count,
                 position, lost>>

ReadAdvance ==
  /\ pc = "advance"
  /\ ring' = Advance(ring)
  /\ pc' = "idle"
  /\ UNCHANGED <<packet_bytes, packet_stage, callbacks, callback_count, event,
                 position, lost>>

-----------------------------------------------------------------------------
(* Callbacks *)

mouse_register_callback(c) ==
  LET empty == {i \in Slots : callbacks[i] = NULL}
  IN  /\ pc = "idle"
      /\ empty # {}
      /\ callbacks' = [callbacks EXCEPT ![CHOOSE i \in empty : \A j \in empty : i <= j] = c]
      /\ callback_count' = callback_count + 1
      /\ UNCHANGED <<packet_bytes, packet_stage, ring, pc, event, position, lost>>

mouse_unregister_callback(c) ==
  LET found == {i \in Slots : callbacks[i] = c}
  IN  /\ pc = "idle"
      /\ found # {}
      /\ callbacks' = [callbacks EXCEPT ![CHOOSE i \in found : \A j \in found : i <= j] = NULL]
      /\ callback_count' = callback_count - 1
      /\ UNCHANGED <<packet_bytes, packet_stage, ring, pc, event, position, lost>>

-----------------------------------------------------------------------------

\* The state after mouse_init, which enables the device last.
Init ==
  /\ packet_bytes = <<0, 0, 0>>
  /\ packet_stage = 0
  /\ ring = EmptyRing(NoPacket)
  /\ callbacks = [i \in Slots |-> NULL]
  /\ callback_count = 0
  /\ pc = "idle"
  /\ event = NoPacket
  /\ position = 0
  /\ lost = FALSE

Next ==
  \/ Interrupt \/ LoseByte
  \/ ReadNothing \/ ReadStart \/ ReadFetch \/ ReadAdvance
  \/ \E c \in Callbacks : mouse_register_callback(c) \/ mouse_unregister_callback(c)

Spec == Init /\ [][Next]_vars

-----------------------------------------------------------------------------
(* Properties *)

\* Without a lost byte the driver and the device agree on where a packet starts.
InStep == ~lost => packet_stage = position

\* The movements of the last complete packet: nine bits, the sign in the first byte.
XSent == packet_bytes[2] - (IF Bit(packet_bytes[1], 4) THEN 256 ELSE 0)

YSent == packet_bytes[3] - (IF Bit(packet_bytes[1], 5) THEN 256 ELSE 0)

FitsInt8(v) == v \in -128 .. 127

\* A movement that fits the 8-bit fields of mouse_packet_t is reported exactly,
\* the vertical one inverted.
MovementExact ==
  packet_stage = 0 =>
    /\ FitsInt8(XSent) => Decode(packet_bytes).x = XSent
    /\ FitsInt8(-YSent) => Decode(packet_bytes).y = -YSent

\* With the handler running between any two steps of the reader, packets come out
\* of mouse_read_event in the order stored, each once.
Fifo == INSTANCE BoundedFifo WITH
  Values   <- {Decode(bytes) : bytes \in Bytes \X Bytes \X Bytes},
  Capacity <- Size - 1,
  NoValue  <- NoPacket,
  queue    <- IF pc = "advance" THEN Tail(Contents(ring)) ELSE Contents(ring),
  taken    <- event

ImplementsFifo == Fifo!Spec

\* As for the keyboard: a registered callback with no hole before it is called.
CallbacksReached ==
  \A i \in Slots :
    (\A j \in 0 .. i : callbacks[j] # NULL) => callbacks[i] \in Called

=============================================================================
