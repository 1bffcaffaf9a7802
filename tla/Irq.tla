-------------------------------- MODULE Irq --------------------------------
(***************************************************************************)
(* Interrupt requests: the handler table and enable mask of syncos/irq.c,  *)
(* the shadow masks of syncos/pic.c, and the two cascaded 8259 controllers *)
(* they program (external: modelled from how the code drives them).        *)
(*                                                                         *)
(* A mask is the set of IRQs whose bit is set, i.e. that are masked.  The  *)
(* code runs on one CPU.  A kernel call here is one step: an interrupt in  *)
(* the middle of one only reads the handler table, whose entries become    *)
(* active last and inactive first.  irq_dispatch runs with interrupts off, *)
(* so no dispatch interrupts another.  The counters that are only printed  *)
(* are left out.                                                           *)
(***************************************************************************)
EXTENDS Integers, FiniteSets

CONSTANTS
  Irqs,          \* the IRQs in use
  Handlers,      \* the handler functions
  NoHandler,     \* NULL
  MaxHandlers,   \* MAX_IRQ_HANDLERS
  Managed,       \* IRQs whose drivers call irq_enable and irq_disable
  MaxRaises      \* bound: how often devices raise their lines

ASSUME IrqAssumption ==
  /\ Irqs \subseteq 0 .. 15
  /\ {7, 15} \subseteq Irqs
  /\ 2 \notin Irqs      \* the cascade is no device's line
  /\ Managed \subseteq Irqs
  /\ NoHandler \notin Handlers
  /\ MaxHandlers \in Nat \ {0}
  /\ MaxRaises \in Nat

VARIABLES
  initialized,   \* irq_system_initialized
  irq_handlers,  \* the handler of each slot of each IRQ; active iff not NULL
  enabled,       \* irq_enabled_mask
  shadow,        \* pic_master_mask and pic_slave_mask
  imr, irr, isr, \* the controllers' mask, request and in-service registers
  dispatching,   \* the IRQ number passed to irq_dispatch, Nothing in a thread
  raises,        \* how often a line was raised, up to MaxRaises
  bypassed       \* history: the shadow masks or irq_enabled_mask were bypassed

vars == <<initialized, irq_handlers, enabled, shadow, imr, irr, isr, dispatching, raises,
          bypassed>>

hardware == <<irr, isr, dispatching, raises>>

Nothing == -1

Cascade == 2

Lines == Irqs \cup {Cascade}

Master == {i \in Lines : i < 8}

Slave == {i \in Lines : i >= 8}

Slots == 1 .. MaxHandlers

-----------------------------------------------------------------------------
(* The 8259 controllers (external) *)

\* Where the IRQ arrives at the master.
MasterLine(i) == IF i < 8 THEN i ELSE Cascade

\* The IRQ can get through the masks.
Unmasked(i) == i \notin imr /\ MasterLine(i) \notin imr

\* A request that is masked, or not of higher priority than all that are in
\* service, waits.
CanDeliver(i) ==
  /\ i \in irr
  /\ Unmasked(i)
  /\ \A j \in isr \cap Master : MasterLine(i) < j
  /\ i >= 8 => \A j \in isr \cap Slave : i < j

Deliverable == {i \in Irqs : CanDeliver(i)}

\* Priority: 0, 1, 8 to 15, 3 to 7.
Before(i, j) == MasterLine(i) < MasterLine(j) \/ (MasterLine(i) = MasterLine(j) /\ i <= j)

\* What a controller has in service after a non-specific end of interrupt.
Eoi(s) == {i \in s : \E j \in s : j < i}

Raise(i) ==
  /\ initialized
  /\ raises < MaxRaises
  /\ i \notin irr
  /\ irr' = irr \cup {i}
  /\ raises' = raises + 1
  /\ UNCHANGED <<initialized, irq_handlers, enabled, shadow, imr, isr, dispatching, bypassed>>

\* The CPU takes the most urgent request.
Acknowledge(i) ==
  /\ dispatching = Nothing
  /\ i \in Deliverable
  /\ \A j \in Deliverable : Before(i, j)
  /\ irr' = irr \ {i}
  /\ isr' = isr \cup {i, MasterLine(i)}
  /\ dispatching' = i
  /\ UNCHANGED <<initialized, irq_handlers, enabled, shadow, imr, raises, bypassed>>

\* The only request goes away while the CPU takes it: the controller answers with
\* its last line, and has nothing in service (but the master serves the slave).
AcknowledgeSpurious(i) ==
  /\ dispatching = Nothing
  /\ Deliverable = {i}
  /\ irr' = irr \ {i}
  /\ isr' = IF i < 8 THEN isr ELSE isr \cup {Cascade}
  /\ dispatching' = IF i < 8 THEN 7 ELSE 15
  /\ UNCHANGED <<initialized, irq_handlers, enabled, shadow, imr, raises, bypassed>>

-----------------------------------------------------------------------------
(* pic.c: the mask registers.  Each operator returns the shadow masks and the *)
(* registers after the call; a register is only written when its shadow       *)
(* changes, and then receives the whole shadow byte.                          *)

\* Mutant: the cascade line stays masked.
EnableWithoutCascade(i) ==
  LET sh   == shadow \ {i}
      chip == IF i < 8 THEN Master ELSE Slave
  IN  [shadow |-> sh,
       imr    |-> IF i \in shadow THEN (imr \ chip) \cup (sh \cap chip) ELSE imr]

pic_enable_irq(i) ==
  LET sh     == IF i < 8 THEN shadow \ {i} ELSE shadow \ {i, Cascade}
      chips  == IF i < 8 THEN Master
                ELSE IF Cascade \in shadow THEN Lines ELSE Slave
  IN  IF i \notin shadow
        THEN [shadow |-> shadow, imr |-> imr]
        ELSE [shadow |-> sh, imr |-> (imr \ chips) \cup (sh \cap chips)]

pic_disable_irq(i) ==
  LET sh   == shadow \cup {i}
      chip == IF i < 8 THEN Master ELSE Slave
  IN  IF i \in shadow
        THEN [shadow |-> shadow, imr |-> imr]
        ELSE [shadow |-> sh, imr |-> (imr \ chip) \cup (sh \cap chip)]

SetMasks(masks) == shadow' = masks.shadow /\ imr' = masks.imr

-----------------------------------------------------------------------------
(* irq.c.  Drivers call it from threads, after irq_init. *)

InThread == initialized /\ dispatching = Nothing

Active(i) == {s \in Slots : irq_handlers[i][s] # NoHandler}

\* pic_init (only the first call has an effect), the IDT gates and
\* irq_set_all_masked.
irq_init ==
  /\ ~initialized
  /\ initialized' = TRUE
  /\ imr' = Lines
  /\ enabled' = {}
  /\ UNCHANGED <<irq_handlers, shadow, hardware, bypassed>>

irq_enable(i) ==
  /\ InThread
  /\ i \in Managed
  /\ SetMasks(pic_enable_irq(i))
  /\ enabled' = enabled \cup {i}
  /\ UNCHANGED <<initialized, irq_handlers, hardware, bypassed>>

irq_disable(i) ==
  /\ InThread
  /\ i \in Managed
  /\ SetMasks(pic_disable_irq(i))
  /\ enabled' = enabled \ {i}
  /\ UNCHANGED <<initialized, irq_handlers, hardware, bypassed>>

\* The first free slot; the IRQ is enabled when that is slot 0.
irq_register_handler(i, h) ==
  LET free == Slots \ Active(i)
      s    == CHOOSE x \in free : \A y \in free : x <= y
  IN  /\ InThread
      /\ free # {}
      /\ irq_handlers' = [irq_handlers EXCEPT ![i][s] = h]
      /\ IF s = 1
           THEN SetMasks(pic_enable_irq(i)) /\ enabled' = enabled \cup {i}
           ELSE UNCHANGED <<shadow, imr, enabled>>
      /\ UNCHANGED <<initialized, hardware, bypassed>>

\* Mutant: the IRQ is masked whenever a handler leaves.
UnregisterAlwaysDisables(i, h) ==
  LET found == {s \in Active(i) : irq_handlers[i][s] = h}
      gone  == IF found = {} THEN {} ELSE {CHOOSE x \in found : \A y \in found : x <= y}
  IN  /\ InThread
      /\ irq_handlers' = [irq_handlers EXCEPT ![i] =
                            [s \in Slots |-> IF s \in gone THEN NoHandler ELSE @[s]]]
      /\ SetMasks(pic_disable_irq(i))
      /\ enabled' = enabled \ {i}
      /\ UNCHANGED <<initialized, hardware, bypassed>>

\* The first slot with this handler, if there is one, becomes free; if no handler
\* is left, found or not, the IRQ is disabled.
irq_unregister_handler(i, h) ==
  LET found == {s \in Active(i) : irq_handlers[i][s] = h}
      gone  == IF found = {} THEN {} ELSE {CHOOSE x \in found : \A y \in found : x <= y}
  IN  /\ InThread
      /\ irq_handlers' = [irq_handlers EXCEPT ![i] =
                            [s \in Slots |-> IF s \in gone THEN NoHandler ELSE @[s]]]
      /\ IF Active(i) = gone
           THEN SetMasks(pic_disable_irq(i)) /\ enabled' = enabled \ {i}
           ELSE UNCHANGED <<shadow, imr, enabled>>
      /\ UNCHANGED <<initialized, hardware, bypassed>>

\* Both write the registers and not the shadow masks; pic_disable, below, writes
\* the shadow masks and not irq_enabled_mask.
irq_set_all_masked ==
  /\ InThread
  /\ imr' = Lines
  /\ enabled' = {}
  /\ bypassed' = TRUE
  /\ UNCHANGED <<initialized, irq_handlers, shadow, hardware>>

irq_clear_all_masked ==
  /\ InThread
  /\ imr' = {}
  /\ enabled' = Irqs
  /\ bypassed' = TRUE
  /\ UNCHANGED <<initialized, irq_handlers, shadow, hardware>>

pic_disable ==
  /\ InThread
  /\ imr' = Lines
  /\ shadow' = Lines
  /\ bypassed' = TRUE
  /\ UNCHANGED <<initialized, irq_handlers, enabled, hardware>>

-----------------------------------------------------------------------------
(* Dispatch *)

irq_is_spurious(i) == i \in {7, 15} /\ i \notin isr

\* Mutant: a spurious IRQ 15 is not acknowledged at all.
SpuriousWithoutEoi(i) == isr

\* What is in service after a spurious interrupt: only the master hears of IRQ 15.
irq_handle_spurious(i) ==
  IF i = 15 THEN Eoi(isr \cap Master) \cup (isr \cap Slave) ELSE isr

\* Mutant: an interrupt of the slave is not acknowledged at the master.
EoiOneController(i) ==
  IF i >= 8 THEN (isr \cap Master) \cup Eoi(isr \cap Slave)
            ELSE Eoi(isr \cap Master) \cup (isr \cap Slave)

\* What is in service after the end of interrupt of i.
pic_send_eoi(i) ==
  Eoi(isr \cap Master) \cup (IF i >= 8 THEN Eoi(isr \cap Slave) ELSE isr \cap Slave)

\* The handlers run, then the interrupt is acknowledged.  An IRQ 7 or 15 that no
\* handler claimed is looked up in the in-service register again, with the same
\* answer: the handlers in the tree do not acknowledge interrupts themselves.
irq_dispatch ==
  /\ dispatching # Nothing
  /\ isr' = IF irq_is_spurious(dispatching) THEN irq_handle_spurious(dispatching)
                                            ELSE pic_send_eoi(dispatching)
  /\ dispatching' = Nothing
  /\ UNCHANGED <<initialized, irq_handlers, enabled, shadow, imr, irr, raises, bypassed>>

-----------------------------------------------------------------------------

\* Firmware may leave any IRQ unmasked; interrupts are off until after irq_init.
Init ==
  /\ initialized = FALSE
  /\ irq_handlers = [i \in Irqs |-> [s \in Slots |-> NoHandler]]
  /\ enabled = {}
  /\ shadow = Lines
  /\ imr \in {{}, Lines}
  /\ irr = {}
  /\ isr = {}
  /\ dispatching = Nothing
  /\ raises = 0
  /\ bypassed = FALSE

Device ==
  \E i \in Irqs : Raise(i) \/ Acknowledge(i) \/ AcknowledgeSpurious(i)

Driver ==
  \E i \in Irqs :
    \/ irq_enable(i)
    \/ irq_disable(i)
    \/ \E h \in Handlers : irq_register_handler(i, h) \/ irq_unregister_handler(i, h)

\* The calls that write masks past the bookkeeping of the others.
Bulk == irq_set_all_masked \/ irq_clear_all_masked \/ pic_disable

Next == irq_init \/ Device \/ Driver \/ Bulk \/ irq_dispatch

\* The CPU runs with interrupts on (the kernel ends in a loop of hlt), so that a
\* request is taken, and a handler returns.
Spec ==
  /\ Init /\ [][Next]_vars
  /\ WF_vars(\E i \in Irqs : Acknowledge(i))
  /\ WF_vars(irq_dispatch)

-----------------------------------------------------------------------------
(* Properties *)

\* The IRQs whose bit in irq_enabled_mask differs from what the controllers let
\* through, the cascade line of the slave included.
Mistracked == {i \in Irqs : (i \in enabled) # Unmasked(i)}

\* Registering, unregistering, enabling and disabling, in any order and on both
\* controllers, keep irq_enabled_mask true to the registers; only the calls that
\* write whole masks get them out of step.
TrackingExact == initialized /\ ~bypassed => Mistracked = {}

\* Handlers come and go in any order and any slot; an IRQ that drivers do not
\* mask themselves gets through exactly as long as some handler is registered.
RegisteredIsUnmasked ==
  initialized /\ ~bypassed => \A i \in Irqs \ Managed : Active(i) # {} <=> Unmasked(i)

\* Between interrupts nothing is in service on either controller, whatever was
\* dispatched, spurious requests included.  A bit left behind would block every
\* request of the same or a lower priority for good.
NothingLeftInService == dispatching = Nothing => isr = {}

\* A request that gets through the masks is taken by the CPU, or masked again.
RequestsAreServed ==
  \A i \in Irqs : (i \in irr /\ Unmasked(i)) ~> (i \notin irr \/ ~Unmasked(i))

=============================================================================
