----------------------------- MODULE IrqProofs -----------------------------
(***************************************************************************)
(* Proofs about Irq.tla for every set of IRQs with the last lines of both  *)
(* controllers, every set of handlers and every size of the handler table; *)
(* and, in the last part, about Spinlock.tla, whose lock a handler and the *)
(* thread it interrupts compete for, for every set of CPUs.                *)
(***************************************************************************)
EXTENDS Irq, Spinlock, TLAPS

\* The three copies of the masks while no call has bypassed one: shadow and
\* registers are equal, irq_enabled_mask is their complement, and the cascade
\* is only masked while the slave's lines all are.
MasksAgree ==
  /\ shadow = imr
  /\ imr \subseteq Lines
  /\ enabled = Irqs \ imr
  /\ Cascade \in imr => Slave \subseteq imr

\* irq_init takes the registers to where the shadow masks have been since boot.
MaskInv ==
  /\ initialized \in BOOLEAN
  /\ ~initialized => shadow = Lines /\ ~bypassed
  /\ initialized /\ ~bypassed => MasksAgree

\* The handler table, and what it says of lines that only it enables.
TableInv ==
  /\ irq_handlers \in [Irqs -> [Slots -> Handlers \cup {NoHandler}]]
  /\ ~initialized => \A i \in Irqs : Active(i) = {}
  /\ initialized /\ ~bypassed =>
       \A i \in Irqs \ Managed : Active(i) # {} <=> i \in enabled

\* What is in service is what the interrupt that is dispatched put there:
\* nothing for a spurious IRQ 7, the cascade alone for a spurious IRQ 15.
ServiceInv ==
  /\ dispatching = Nothing => isr = {}
  /\ dispatching # Nothing =>
       /\ dispatching \in Irqs
       /\ \/ isr = {dispatching, MasterLine(dispatching)}
          \/ dispatching = 7 /\ isr = {}
          \/ dispatching = 15 /\ isr = {Cascade}

-----------------------------------------------------------------------------
(* pic.c on masks that agree. *)

\* pic_enable_irq clears one bit of both copies, and the cascade's if need be.
LEMMA EnableAgrees ==
  ASSUME MasksAgree, NEW i \in Irqs, SetMasks(pic_enable_irq(i)),
         enabled' = enabled \cup {i}
  PROVE  MasksAgree'
<1> USE IrqAssumption
<1>1. i \in Lines /\ Cascade \in Lines /\ Cascade < 8 /\ i # Cascade
  BY DEF Lines, Cascade
<1>2. \A j \in Lines : j \in Int /\ (j \in Master <=> j < 8) /\ (j \in Slave <=> j >= 8)
  BY DEF Lines, Cascade, Master, Slave
<1>3. CASE i \notin shadow
  BY <1>1, <1>3 DEF MasksAgree, SetMasks, pic_enable_irq
<1>4. CASE i \in shadow /\ i < 8
  <2>1. shadow' = shadow \ {i} /\ imr' = (imr \ Master) \cup ((shadow \ {i}) \cap Master)
    BY <1>4 DEF SetMasks, pic_enable_irq
  <2>2. imr' = imr \ {i}
    BY <2>1, <1>1, <1>2, <1>4 DEF MasksAgree
  <2>3. i \notin Slave
    BY <1>1, <1>2, <1>4
  <2> QED BY <2>1, <2>2, <2>3, <1>1 DEF MasksAgree
<1>5. CASE i \in shadow /\ ~(i < 8) /\ Cascade \in shadow
  <2>1. shadow' = shadow \ {i, Cascade} /\ imr' = (imr \ Lines) \cup ((shadow \ {i, Cascade}) \cap Lines)
    BY <1>5 DEF SetMasks, pic_enable_irq
  <2>2. imr' = imr \ {i, Cascade}
    BY <2>1 DEF MasksAgree
  <2> QED BY <2>1, <2>2, <1>1 DEF MasksAgree, Cascade
<1>6. CASE i \in shadow /\ ~(i < 8) /\ Cascade \notin shadow
  <2>1. shadow' = shadow \ {i, Cascade} /\ imr' = (imr \ Slave) \cup ((shadow \ {i, Cascade}) \cap Slave)
    BY <1>6 DEF SetMasks, pic_enable_irq
  <2>2. imr' = imr \ {i}
    BY <2>1, <1>1, <1>2, <1>6 DEF MasksAgree
  <2>3. shadow' = shadow \ {i}
    BY <2>1, <1>6
  <2> QED BY <2>2, <2>3, <1>1, <1>6 DEF MasksAgree
<1> QED BY <1>3, <1>4, <1>5, <1>6

\* pic_disable_irq sets one bit of both copies; the cascade stays.
LEMMA DisableAgrees ==
  ASSUME MasksAgree, NEW i \in Irqs, SetMasks(pic_disable_irq(i)),
         enabled' = enabled \ {i}
  PROVE  MasksAgree'
<1> USE IrqAssumption
<1>1. i \in Lines /\ i # Cascade
  BY DEF Lines, Cascade
<1>2. \A j \in Lines : j \in Int /\ (j \in Master <=> j < 8) /\ (j \in Slave <=> j >= 8)
  BY DEF Lines, Cascade, Master, Slave
<1>3. CASE i \in shadow
  BY <1>1, <1>3 DEF MasksAgree, SetMasks, pic_disable_irq
<1>4. CASE i \notin shadow
  <2> DEFINE chip == IF i < 8 THEN Master ELSE Slave
  <2>1. shadow' = shadow \cup {i} /\ imr' = (imr \ chip) \cup ((shadow \cup {i}) \cap chip)
    BY <1>4 DEF SetMasks, pic_disable_irq
  <2>2. i \in chip /\ chip \subseteq Lines
    BY <1>1, <1>2 DEF Master, Slave
  <2>3. imr' = imr \cup {i}
    BY <2>1, <2>2 DEF MasksAgree
  <2> QED BY <2>1, <2>3, <1>1 DEF MasksAgree
<1> QED BY <1>3, <1>4

-----------------------------------------------------------------------------
(* The masks. *)

\* pic_init has masked everything in the shadow masks.
LEMMA MaskInit == Init => MaskInv
BY DEF Init, MaskInv

\* Every call either keeps the copies together or is recorded as a bypass.
LEMMA MaskNext == MaskInv /\ [Next]_vars => MaskInv'
<1> SUFFICES ASSUME MaskInv, [Next]_vars PROVE MaskInv'
  OBVIOUS
<1> USE DEF MaskInv
<1>1. CASE irq_init
  <2>1. initialized' = TRUE /\ bypassed' = bypassed /\ ~bypassed
    BY <1>1 DEF irq_init
  <2>2. shadow' = Lines /\ imr' = Lines /\ enabled' = {}
    BY <1>1 DEF irq_init
  <2> QED BY <2>1, <2>2 DEF MasksAgree, Lines, Slave
<1>2. ASSUME NEW i \in Irqs, Raise(i) \/ Acknowledge(i) \/ AcknowledgeSpurious(i)
      PROVE  MaskInv'
  BY <1>2 DEF Raise, Acknowledge, AcknowledgeSpurious, MasksAgree
<1>3. ASSUME NEW i \in Irqs, irq_enable(i) PROVE MaskInv'
  BY <1>3, EnableAgrees DEF irq_enable, InThread
<1>4. ASSUME NEW i \in Irqs, irq_disable(i) PROVE MaskInv'
  BY <1>4, DisableAgrees DEF irq_disable, InThread
<1>5. ASSUME NEW i \in Irqs, NEW h \in Handlers, irq_register_handler(i, h)
      PROVE  MaskInv'
  <2>1. initialized /\ initialized' = initialized /\ bypassed' = bypassed
    BY <1>5 DEF irq_register_handler, InThread
  <2>2. \/ SetMasks(pic_enable_irq(i)) /\ enabled' = enabled \cup {i}
        \/ UNCHANGED <<shadow, imr, enabled>>
    BY <1>5 DEF irq_register_handler
  <2> QED BY <2>1, <2>2, EnableAgrees DEF MasksAgree
<1>6. ASSUME NEW i \in Irqs, NEW h \in Handlers, irq_unregister_handler(i, h)
      PROVE  MaskInv'
  <2>1. initialized /\ initialized' = initialized /\ bypassed' = bypassed
    BY <1>6 DEF irq_unregister_handler, InThread
  <2>2. \/ SetMasks(pic_disable_irq(i)) /\ enabled' = enabled \ {i}
        \/ UNCHANGED <<shadow, imr, enabled>>
    BY <1>6 DEF irq_unregister_handler
  <2> QED BY <2>1, <2>2, DisableAgrees DEF MasksAgree
<1>7. CASE Bulk
  BY <1>7 DEF Bulk, irq_set_all_masked, irq_clear_all_masked, pic_disable, InThread
<1>8. CASE irq_dispatch
  BY <1>8 DEF irq_dispatch, MasksAgree
<1>9. CASE UNCHANGED vars
  BY <1>9 DEF vars, MasksAgree
<1> QED BY <1>1, <1>2, <1>3, <1>4, <1>5, <1>6, <1>7, <1>8, <1>9 DEF Next, Device, Driver

\* On masks that agree, what gets through is what is enabled.
LEMMA AgreeUnmasked ==
  ASSUME MasksAgree, NEW i \in Irqs
  PROVE  i \in enabled <=> Unmasked(i)
<1>1. i \in Lines /\ i \in Int /\ (~(i < 8) => i \in Slave)
  BY IrqAssumption DEF Lines, Slave
<1> QED BY <1>1 DEF MasksAgree, Unmasked, MasterLine

\* irq_enabled_mask stays true to what the controllers let through.
THEOREM IrqTrackingExact == Spec => []TrackingExact
<1>1. MaskInv => TrackingExact
  <2> SUFFICES ASSUME MaskInv, initialized, ~bypassed, NEW i \in Irqs
               PROVE  (i \in enabled) = Unmasked(i)
    BY DEF TrackingExact, Mistracked
  <2>1. i \in enabled <=> Unmasked(i)
    BY AgreeUnmasked DEF MaskInv
  <2> QED BY <2>1 DEF Unmasked
<1> QED BY <1>1, MaskInit, MaskNext, PTL DEF Spec

-----------------------------------------------------------------------------
(* The handler table. *)

\* Before irq_init no handler is registered.
LEMMA TableInit == Init => TableInv
BY DEF Init, TableInv, Active

\* The first handler of a line enables it and the last one to leave disables
\* it, in whatever slots they are.
LEMMA TableNext == TableInv /\ [Next]_vars => TableInv'
<1> SUFFICES ASSUME TableInv, [Next]_vars PROVE TableInv'
  OBVIOUS
<1> USE DEF TableInv
<1>1. CASE irq_init
  BY <1>1 DEF irq_init, Active
<1>2. ASSUME NEW i \in Irqs, Raise(i) \/ Acknowledge(i) \/ AcknowledgeSpurious(i)
      PROVE  TableInv'
  <2>1. UNCHANGED <<initialized, irq_handlers, enabled, bypassed>>
    BY <1>2 DEF Raise, Acknowledge, AcknowledgeSpurious
  <2> QED BY <2>1 DEF Active
<1>3. ASSUME NEW i \in Irqs, irq_enable(i) PROVE TableInv'
  BY <1>3 DEF irq_enable, Active, InThread
<1>4. ASSUME NEW i \in Irqs, irq_disable(i) PROVE TableInv'
  BY <1>4 DEF irq_disable, Active, InThread
<1>5. ASSUME NEW i \in Irqs, NEW h \in Handlers, irq_register_handler(i, h)
      PROVE  TableInv'
  <2> DEFINE free == Slots \ Active(i)
             s == CHOOSE x \in free : \A y \in free : x <= y
  <2>1. /\ initialized /\ initialized' = initialized /\ bypassed' = bypassed
        /\ free # {}
        /\ irq_handlers' = [irq_handlers EXCEPT ![i][s] = h]
        /\ s = 1 => enabled' = enabled \cup {i}
        /\ s # 1 => enabled' = enabled
    BY <1>5 DEF irq_register_handler, InThread
  <2> HIDE DEF s
  <2>2. h # NoHandler /\ 1 \in Slots
    BY IrqAssumption DEF Slots
  <2>3. \A j \in Irqs : j # i => Active(j)' = Active(j)
    BY <2>1 DEF Active
  <2>4. s # 1 => 1 \in Active(i)
    <3> SUFFICES ASSUME 1 \in free PROVE s = 1
      BY <2>2
    <3>1. \A y \in free : 1 <= y
      BY DEF Slots
    <3>2. s \in free /\ \A y \in free : s <= y
      BY <3>1 DEF s
    <3> QED BY <3>2 DEF Slots
  <2>5. Active(i)' # {}
    <3>1. \A t \in Slots : irq_handlers'[i][t] = IF t = s THEN h ELSE irq_handlers[i][t]
      BY <2>1
    <3>2. CASE s = 1
      BY <3>1, <3>2, <2>2 DEF Active
    <3>3. CASE s # 1
      BY <3>1, <3>3, <2>2, <2>4 DEF Active
    <3> QED BY <3>2, <3>3
  <2>6. \/ i \in enabled'
        \/ (i \in enabled' <=> i \in enabled) /\ Active(i) # {}
    BY <2>1, <2>4
  <2>7. \A j \in Irqs : j # i => (j \in enabled' <=> j \in enabled)
    BY <2>1
  <2>8. irq_handlers' \in [Irqs -> [Slots -> Handlers \cup {NoHandler}]]
    BY <2>1
  <2> QED BY <2>1, <2>3, <2>5, <2>6, <2>7, <2>8
<1>6. ASSUME NEW i \in Irqs, NEW h \in Handlers, irq_unregister_handler(i, h)
      PROVE  TableInv'
  <2> DEFINE found == {s \in Active(i) : irq_handlers[i][s] = h}
             first == CHOOSE x \in found : \A y \in found : x <= y
             gone  == IF found = {} THEN {} ELSE {first}
  <2>1. /\ initialized /\ initialized' = initialized /\ bypassed' = bypassed
        /\ irq_handlers' = [irq_handlers EXCEPT ![i] =
                              [s \in Slots |-> IF s \in gone THEN NoHandler ELSE irq_handlers[i][s]]]
        /\ Active(i) = gone => enabled' = enabled \ {i}
        /\ Active(i) # gone => enabled' = enabled
    BY <1>6 DEF irq_unregister_handler, InThread
  <2> HIDE DEF first
  <2>2. \A j \in Irqs : j # i => Active(j)' = Active(j)
    BY <2>1 DEF Active
  <2>3. \A t \in Slots : irq_handlers'[i][t] = IF t \in gone THEN NoHandler ELSE irq_handlers[i][t]
    BY <2>1
  <2>4. Active(i)' = Active(i) \ gone
    BY <2>3 DEF Active
  <2>5. Active(i) # gone => (Active(i)' # {} <=> Active(i) # {})
    BY <2>4
  <2>6. \A j \in Irqs : j # i => (j \in enabled' <=> j \in enabled)
    BY <2>1
  <2>7. irq_handlers' \in [Irqs -> [Slots -> Handlers \cup {NoHandler}]]
    BY <2>1
  <2>8. CASE Active(i) = gone
    <3>1. Active(i)' = {} /\ i \notin enabled'
      BY <2>1, <2>4, <2>8
    <3> QED BY <2>1, <2>2, <2>6, <2>7, <3>1
  <2>9. CASE Active(i) # gone
    <3>1. enabled' = enabled
      BY <2>1, <2>9
    <3> QED BY <2>1, <2>2, <2>5, <2>7, <2>9, <3>1
  <2> QED BY <2>8, <2>9
<1>7. CASE Bulk
  BY <1>7 DEF Bulk, irq_set_all_masked, irq_clear_all_masked, pic_disable, InThread, Active
<1>8. CASE irq_dispatch
  BY <1>8 DEF irq_dispatch, Active
<1>9. CASE UNCHANGED vars
  BY <1>9 DEF vars, Active
<1> QED BY <1>1, <1>2, <1>3, <1>4, <1>5, <1>6, <1>7, <1>8, <1>9 DEF Next, Device, Driver

\* A line that drivers do not mask themselves gets through exactly as long as a
\* handler is registered for it.
THEOREM IrqRegisteredIsUnmasked == Spec => []RegisteredIsUnmasked
<1>1. MaskInv /\ TableInv => RegisteredIsUnmasked
  BY AgreeUnmasked DEF MaskInv, TableInv, RegisteredIsUnmasked
<1> QED BY <1>1, MaskInit, MaskNext, TableInit, TableNext, PTL DEF Spec

-----------------------------------------------------------------------------
(* Interrupts in service. *)

\* Nothing is in service at boot.
LEMMA ServiceInit == Init => ServiceInv
BY DEF Init, ServiceInv

\* A dispatch ends exactly what its interrupt put in service.
LEMMA ServiceNext == ServiceInv /\ [Next]_vars => ServiceInv'
<1> SUFFICES ASSUME ServiceInv, [Next]_vars PROVE ServiceInv'
  OBVIOUS
<1> USE DEF ServiceInv
<1>0. \A i \in Irqs : i \in Int /\ i # Nothing
  BY IrqAssumption DEF Nothing
<1>1. ASSUME NEW i \in Irqs, Acknowledge(i) PROVE ServiceInv'
  <2>1. isr = {} /\ isr' = isr \cup {i, MasterLine(i)} /\ dispatching' = i
    BY <1>1 DEF Acknowledge
  <2> QED BY <2>1, <1>0 DEF MasterLine
<1>2. ASSUME NEW i \in Irqs, AcknowledgeSpurious(i) PROVE ServiceInv'
  <2>1. isr = {}
    BY <1>2 DEF AcknowledgeSpurious
  <2>2. CASE i < 8
    BY <1>2, <2>1, <2>2, <1>0, IrqAssumption DEF AcknowledgeSpurious
  <2>3. CASE ~(i < 8)
    BY <1>2, <2>1, <2>3, <1>0, IrqAssumption DEF AcknowledgeSpurious
  <2> QED BY <2>2, <2>3
<1>3. CASE irq_dispatch
  <2> DEFINE d == dispatching
  <2>1. /\ d \in Irqs /\ d \in Int
        /\ dispatching' = Nothing
        /\ isr' = IF irq_is_spurious(d) THEN irq_handle_spurious(d) ELSE pic_send_eoi(d)
    BY <1>3, <1>0 DEF irq_dispatch
  <2>2. Cascade \in Master /\ Cascade \notin Slave /\ Cascade # 15 /\ Cascade # 7
    BY DEF Cascade, Master, Slave, Lines
  <2>3. /\ d < 8 => d \in Master /\ d \notin Slave
        /\ ~(d < 8) => d \in Slave /\ d \notin Master
    BY <2>1 DEF Master, Slave, Lines
  <2>4. \A x \in Int : Eoi({x}) = {}
    BY DEF Eoi
  <2>5. Eoi({}) = {} /\ Eoi({d}) = {} /\ Eoi({Cascade}) = {}
    BY <2>1, <2>4 DEF Eoi, Cascade
  <2>6. CASE isr = {d, MasterLine(d)}
    <3>1. isr' = pic_send_eoi(d)
      BY <2>1, <2>6 DEF irq_is_spurious
    <3>2. CASE d < 8
      <4>1. isr \cap Master = {d} /\ isr \cap Slave = {}
        BY <2>3, <2>6, <3>2 DEF MasterLine
      <4> QED BY <2>1, <2>5, <3>1, <3>2, <4>1 DEF pic_send_eoi
    <3>3. CASE ~(d < 8)
      <4>1. isr \cap Master = {Cascade} /\ isr \cap Slave = {d}
        BY <2>2, <2>3, <2>6, <3>3 DEF MasterLine
      <4> QED BY <2>1, <2>5, <3>1, <3>3, <4>1 DEF pic_send_eoi
    <3> QED BY <2>1, <3>2, <3>3
  <2>7. CASE d = 7 /\ isr = {}
    BY <2>1, <2>7 DEF irq_is_spurious, irq_handle_spurious
  <2>8. CASE d = 15 /\ isr = {Cascade}
    <3>1. isr' = Eoi(isr \cap Master) \cup (isr \cap Slave)
      BY <2>1, <2>2, <2>8 DEF irq_is_spurious, irq_handle_spurious
    <3>2. isr \cap Master = {Cascade} /\ isr \cap Slave = {}
      BY <2>2, <2>8
    <3> QED BY <2>1, <2>5, <3>1, <3>2
  <2> QED BY <1>3, <2>6, <2>7, <2>8 DEF irq_dispatch
<1>4. ASSUME UNCHANGED <<isr, dispatching>> PROVE ServiceInv'
  BY <1>4 DEF MasterLine
<1>5. ASSUME NEW i \in Irqs, Raise(i) \/ irq_enable(i) \/ irq_disable(i)
      PROVE  ServiceInv'
  BY <1>4, <1>5 DEF Raise, irq_enable, irq_disable, hardware
<1>6. ASSUME NEW i \in Irqs, NEW h \in Handlers,
             irq_register_handler(i, h) \/ irq_unregister_handler(i, h)
      PROVE  ServiceInv'
  BY <1>4, <1>6 DEF irq_register_handler, irq_unregister_handler, hardware
<1>7. CASE irq_init \/ Bulk
  BY <1>4, <1>7 DEF irq_init, Bulk, irq_set_all_masked, irq_clear_all_masked, pic_disable, hardware
<1>8. CASE UNCHANGED vars
  BY <1>4, <1>8 DEF vars
<1> QED BY <1>1, <1>2, <1>3, <1>5, <1>6, <1>7, <1>8 DEF Next, Device, Driver

\* Between interrupts nothing is left in service, spurious requests included.
THEOREM IrqNothingLeftInService == Spec => []NothingLeftInService
<1>1. ServiceInv => NothingLeftInService
  BY DEF ServiceInv, NothingLeftInService
<1> QED BY <1>1, ServiceInit, ServiceNext, PTL DEF Spec

-----------------------------------------------------------------------------
(* The spinlock. *)

\* A context that holds the lock has the lock bit set: what makes the
\* test-and-set of another context fail.
HeldIsSet == \A x \in Contexts : Holds(x) => value = 1

\* The inductive invariant: mutual exclusion needs the lock bit, the owner
\* field needs mutual exclusion.
LockInv == LockTypeOK /\ MutualExclusion /\ HeldIsSet /\ OwnerIsHolder

\* spinlock_init_flags leaves a free lock nobody holds.
LEMMA LockInitInd == LockInit => LockInv
<1> SUFFICES ASSUME LockInit PROVE LockInv
  OBVIOUS
<1>1. LockTypeOK
  BY DEF LockInit, LockTypeOK
<1>2. \A x \in Contexts : pc[x] = "idle"
  BY DEF LockInit
<1> QED BY <1>1, <1>2 DEF LockInv, MutualExclusion, HeldIsSet, OwnerIsHolder, Holds

\* A context that moves from one label to another moves nobody else.
LEMMA OthersStay ==
  ASSUME LockTypeOK, NEW x \in Contexts, NEW label, Goto(x, label)
  PROVE  /\ pc'[x] = label
         /\ \A y \in Contexts : y # x => pc'[y] = pc[y]
BY DEF LockTypeOK, Goto

\* No step of spinlock_acquire, spinlock_try_acquire or spinlock_release breaks
\* the invariant.
LEMMA LockNextInd == LockInv /\ [LockNext]_lock_vars => LockInv'
<1> SUFFICES ASSUME LockInv, [LockNext]_lock_vars PROVE LockInv'
  OBVIOUS
<1> USE DEF LockInv
<1>1. ASSUME NEW x \in Contexts, AcquireStart(x)
      PROVE  LockInv'
  <2>1. pc[x] = "idle" /\ pc'[x] = "spin" /\ \A y \in Contexts : y # x => pc'[y] = pc[y]
    BY <1>1, OthersStay DEF AcquireStart, At
  <2>2. LockTypeOK'
    BY <1>1 DEF LockTypeOK, AcquireStart, Goto
  <2>3. value' = value /\ owner' = owner
    BY <1>1 DEF AcquireStart
  <2> QED BY <2>1, <2>2, <2>3 DEF MutualExclusion, HeldIsSet, OwnerIsHolder, Holds
<1>2. ASSUME NEW x \in Contexts, TestAndSet(x) \/ spinlock_try_acquire(x)
      PROVE  LockInv'
  <2>1. pc'[x] = "owned" /\ \A y \in Contexts : y # x => pc'[y] = pc[y]
    BY <1>2, OthersStay DEF TestAndSet, spinlock_try_acquire
  <2>2. LockTypeOK'
    BY <1>2 DEF LockTypeOK, TestAndSet, spinlock_try_acquire, Goto
  <2>3. value = 0 /\ value' = 1 /\ owner' = owner
    BY <1>2 DEF TestAndSet, spinlock_try_acquire
  <2>4. \A y \in Contexts : ~Holds(y)
    BY <2>3 DEF HeldIsSet
  <2>5. MutualExclusion'
    BY <2>1, <2>4 DEF MutualExclusion, Holds
  <2> QED BY <2>1, <2>2, <2>3, <2>5 DEF HeldIsSet, OwnerIsHolder
<1>3. ASSUME NEW x \in Contexts, SetOwner(x)
      PROVE  LockInv'
  <2>1. pc[x] = "owned" /\ pc'[x] = "held" /\ \A y \in Contexts : y # x => pc'[y] = pc[y]
    BY <1>3, OthersStay DEF SetOwner, At
  <2>2. value' = value /\ interrupts' = interrupts
    BY <1>3 DEF SetOwner
  <2>3. PICK bit \in BOOLEAN : owner' = [by |-> x, bit |-> bit]
    BY <1>3 DEF SetOwner
  <2>4. LockTypeOK'
    BY <1>3, <2>2, <2>3 DEF LockTypeOK, SetOwner, Goto
  <2>5. \A y \in Contexts : y # x => ~Holds(y)
    BY <2>1 DEF MutualExclusion, Holds
  <2>6. OwnerIsHolder'
    BY <2>1, <2>3, <2>5 DEF OwnerIsHolder, Holds
  <2> QED BY <2>1, <2>2, <2>4, <2>6 DEF MutualExclusion, HeldIsSet, Holds
<1>4. ASSUME NEW x \in Contexts, ClearOwner(x)
      PROVE  LockInv'
  <2>1. pc[x] = "held" /\ pc'[x] = "clear" /\ \A y \in Contexts : y # x => pc'[y] = pc[y]
    BY <1>4, OthersStay DEF ClearOwner, At
  <2>2. LockTypeOK'
    BY <1>4 DEF LockTypeOK, ClearOwner, Goto
  <2>3. value' = value
    BY <1>4 DEF ClearOwner
  <2>4. \A y \in Contexts : y # x => ~Holds(y)
    BY <2>1 DEF MutualExclusion, Holds
  <2>5. OwnerIsHolder'
    BY <2>1, <2>4 DEF OwnerIsHolder, Holds
  <2> QED BY <2>1, <2>2, <2>3, <2>5 DEF MutualExclusion, HeldIsSet, Holds
<1>5. ASSUME NEW x \in Contexts, ClearValue(x)
      PROVE  LockInv'
  <2>1. pc[x] = "clear" /\ pc'[x] = "test" /\ \A y \in Contexts : y # x => pc'[y] = pc[y]
    BY <1>5, OthersStay DEF ClearValue, At
  <2>2. LockTypeOK'
    BY <1>5 DEF LockTypeOK, ClearValue, Goto
  <2>3. \A y \in Contexts : y # x => ~Holds(y)
    BY <2>1 DEF MutualExclusion, Holds
  <2>4. \A y \in Contexts : ~Holds(y)'
    BY <2>1, <2>3 DEF Holds
  <2> QED BY <2>2, <2>4 DEF MutualExclusion, HeldIsSet, OwnerIsHolder, Holds
<1>6. ASSUME NEW x \in Contexts, TestFlag(x)
      PROVE  LockInv'
  <2>1. pc[x] = "test" /\ pc'[x] = "idle" /\ \A y \in Contexts : y # x => pc'[y] = pc[y]
    BY <1>6, OthersStay DEF TestFlag, At
  <2>2. LockTypeOK'
    BY <1>6 DEF LockTypeOK, TestFlag, Goto
  <2>3. value' = value /\ owner' = owner
    BY <1>6 DEF TestFlag
  <2> QED BY <2>1, <2>2, <2>3 DEF MutualExclusion, HeldIsSet, OwnerIsHolder, Holds
<1>7. CASE UNCHANGED lock_vars
  BY <1>7 DEF lock_vars, LockTypeOK, MutualExclusion, HeldIsSet, OwnerIsHolder, Holds
<1> QED BY <1>1, <1>2, <1>3, <1>4, <1>5, <1>6, <1>7 DEF LockNext

\* At most one thread or handler of any CPU is between the test-and-set and the
\* release of the lock, however many CPUs there are.
THEOREM SpinlockMutualExclusion == LockSpec => []MutualExclusion
<1>1. LockInv => MutualExclusion
  BY DEF LockInv
<1> QED BY <1>1, LockInitInd, LockNextInd, PTL DEF LockSpec

\* The owner field names the context inside the critical section: the release
\* of the previous holder clears it before the lock bit, never after.
THEOREM SpinlockOwnerIsHolder == LockSpec => []OwnerIsHolder
<1>1. LockInv => OwnerIsHolder
  BY DEF LockInv
<1> QED BY <1>1, LockInitInd, LockNextInd, PTL DEF LockSpec

=============================================================================
