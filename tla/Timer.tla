------------------------------- MODULE Timer -------------------------------
(***************************************************************************)
(* The timer, syncos/timer.c: the callback table, filled and emptied by    *)
(* threads under timer_callbacks_lock, and read without the lock by the    *)
(* interrupt handler, which can run between any two of their stores.       *)
(*                                                                         *)
(* There is one CPU: while the handler runs, the thread it interrupted     *)
(* does not.  Stores take effect in program order.  Time is relative: what *)
(* is kept of next_tick is `due', the number of ticks left, 0 once         *)
(* timer_tick_count has reached it.  The model starts after timer_init.    *)
(* Nothing in the tree preempts a thread, so there is one caller at a time *)
(* and the interrupt; a call that finds the lock taken spins for it.  No   *)
(* callback in the tree registers or unregisters callbacks itself; one     *)
(* that did would spin forever on a lock held by the interrupted thread.   *)
(***************************************************************************)
EXTENDS Integers

CONSTANTS
  MaxCallbacks,  \* MAX_TIMER_CALLBACKS
  Callbacks,     \* the callback functions
  Contexts,      \* the context arguments
  Intervals,     \* intervals and sleeping times, in milliseconds
  FrequencyArgs  \* arguments of timer_set_frequency

NULL == "NULL"

ASSUME TimerAssumption ==
  /\ NULL \notin Callbacks
  /\ MaxCallbacks \in Nat \ {0}
  /\ Intervals \subseteq Nat \ {0}
  /\ FrequencyArgs \subseteq Nat

VARIABLES
  timer_frequency,
  slots,         \* timer_callbacks[]: callback, context, interval, due, active
  lock,          \* timer_callbacks_lock
  pc,            \* where the thread is
  args,          \* the arguments of its call, and the slot it found
  irq,           \* where the handler is: phase, slot i and its copy of the interval
  call,          \* history: the callback and context called last
  registered,    \* history: how often a callback and context are registered
  wait           \* history: per slot, the ticks since it was activated or called
                 \*   last, whether it was called since it was activated, and
                 \*   timer_frequency when its next_tick was stored

vars == <<timer_frequency, slots, lock, pc, args, irq, call, registered, wait>>

Slots == 0 .. (MaxCallbacks - 1)

Off == [phase |-> "off", i |-> 0, interval |-> 0]

NoCall == <<NULL, NULL>>

NoArgs == [callback |-> NULL, context |-> NULL, interval |-> 0, slot |-> 0]

NoWait == [ticks |-> 0, called |-> FALSE, hz |-> 0]

-----------------------------------------------------------------------------
(* Frequency *)

PIT_BASE_FREQUENCY == 1193182

\* An invalid frequency is replaced by 1000 Hz.
timer_set_frequency(hz) ==
  /\ pc = "idle" /\ irq = Off
  /\ timer_frequency' = IF hz < 19 \/ hz > PIT_BASE_FREQUENCY THEN 1000 ELSE hz
  /\ UNCHANGED <<slots, lock, pc, args, irq, call, registered, wait>>

\* The ticks of an interval, at least one.
TickIncrement(ms) ==
  LET ticks == (ms * timer_frequency) \div 1000
  IN  IF ticks = 0 THEN 1 ELSE ticks

-----------------------------------------------------------------------------
(* Threads.  A step is a store that the interrupt handler can see. *)

InThread == irq = Off

thread == <<timer_frequency, irq, call>>

\* A call begins; it is at the spin on timer_callbacks_lock.
Called(at, a) ==
  /\ InThread
  /\ pc = "idle"
  /\ pc' = at
  /\ args' = a
  /\ UNCHANGED <<thread, slots, lock, registered, wait>>

timer_register_callback(c, x, ms) ==
  Called("register", [callback |-> c, context |-> x, interval |-> ms, slot |-> 0])

timer_unregister_callback(c) == Called("unregister", [NoArgs EXCEPT !.callback = c])

\* The exchange finds the lock free; until it does, the thread spins.
Acquire ==
  /\ InThread
  /\ pc \in {"register", "unregister"}
  /\ ~lock
  /\ lock' = TRUE
  /\ pc' = IF pc = "register" THEN "fill" ELSE "find"
  /\ UNCHANGED <<thread, slots, args, registered, wait>>

Inactive == {i \in Slots : ~slots[i].active}

FirstOf(set) == CHOOSE i \in set : \A j \in set : i <= j

\* Mutant: the slot is active before its other fields are written.
ActivateFirst ==
  /\ InThread
  /\ pc = "fill"
  /\ IF Inactive = {}
       THEN pc' = "release" /\ UNCHANGED <<slots, args, registered>>
       ELSE /\ slots' = [slots EXCEPT ![FirstOf(Inactive)] =
                 [@ EXCEPT !.callback = args.callback, !.active = TRUE]]
            /\ args' = [args EXCEPT !.slot = FirstOf(Inactive)]
            /\ registered' = [registered EXCEPT ![<<args.callback, args.context>>] = @ + 1]
            /\ pc' = "fill_rest"
  /\ UNCHANGED <<thread, lock, wait>>

\* Mutant: a call that finds the table full returns with the lock held.
FullReturnsLocked ==
  /\ InThread
  /\ pc = "fill"
  /\ IF Inactive = {}
       THEN pc' = "idle" /\ args' = NoArgs /\ UNCHANGED slots
       ELSE /\ slots' = [slots EXCEPT ![FirstOf(Inactive)].callback = args.callback]
            /\ args' = [args EXCEPT !.slot = FirstOf(Inactive)]
            /\ pc' = "fill_rest"
  /\ UNCHANGED <<thread, lock, registered, wait>>

\* The first slot that is not active; without one the call fails.
RegisterFill ==
  /\ InThread
  /\ pc = "fill"
  /\ IF Inactive = {}
       THEN pc' = "release" /\ UNCHANGED <<slots, args>>
       ELSE /\ slots' = [slots EXCEPT ![FirstOf(Inactive)].callback = args.callback]
            /\ args' = [args EXCEPT !.slot = FirstOf(Inactive)]
            /\ pc' = "fill_rest"
  /\ UNCHANGED <<thread, lock, registered, wait>>

RegisterFillRest ==
  /\ InThread
  /\ pc = "fill_rest"
  /\ slots' = [slots EXCEPT ![args.slot] =
       [@ EXCEPT !.context = args.context, !.interval = args.interval,
                 !.due = TickIncrement(args.interval)]]
  /\ wait' = [wait EXCEPT ![args.slot].hz = timer_frequency]
  /\ pc' = "activate"
  /\ UNCHANGED <<thread, lock, args, registered>>

RegisterActivate ==
  /\ InThread
  /\ pc = "activate"
  /\ slots' = [slots EXCEPT ![args.slot].active = TRUE]
  /\ registered' = [registered EXCEPT ![<<args.callback, args.context>>] = @ + 1]
  /\ pc' = "release"
  /\ UNCHANGED <<thread, lock, args, wait>>

Matching(c) == {i \in Slots : slots[i].active /\ slots[i].callback = c}

\* The first active slot with the callback becomes inactive.
UnregisterDeactivate ==
  /\ InThread
  /\ pc = "find"
  /\ IF Matching(args.callback) = {}
       THEN pc' = "release" /\ UNCHANGED <<slots, args, registered, wait>>
       ELSE LET i == FirstOf(Matching(args.callback))
            IN  /\ slots' = [slots EXCEPT ![i].active = FALSE]
                /\ args' = [args EXCEPT !.slot = i]
                /\ registered' = [registered EXCEPT ![<<args.callback, slots[i].context>>] = @ - 1]
                /\ wait' = [wait EXCEPT ![i] = NoWait]
                /\ pc' = "clear"
  /\ UNCHANGED <<thread, lock>>

UnregisterClear ==
  /\ InThread
  /\ pc = "clear"
  /\ slots' = [slots EXCEPT ![args.slot] =
       [@ EXCEPT !.callback = NULL, !.context = NULL]]
  /\ pc' = "release"
  /\ UNCHANGED <<thread, lock, args, registered, wait>>

Release ==
  /\ InThread
  /\ pc = "release"
  /\ lock' = FALSE
  /\ pc' = "idle"
  /\ args' = NoArgs
  /\ UNCHANGED <<thread, slots, registered, wait>>

\* timer_sleep_ms: the target is computed once; an interval below a tick ends
\* at once.  The ticks left are kept in args.interval.
SleepStart(ms) ==
  /\ InThread
  /\ pc = "idle"
  /\ pc' = "sleep"
  /\ args' = [args EXCEPT !.interval = (ms * timer_frequency) \div 1000]
  /\ UNCHANGED <<thread, slots, lock, registered, wait>>

SleepEnd ==
  /\ InThread
  /\ pc = "sleep"
  /\ args.interval = 0
  /\ pc' = "idle"
  /\ UNCHANGED <<thread, slots, lock, args, registered, wait>>

-----------------------------------------------------------------------------
(* The interrupt handler.  It runs with interrupts off: no thread steps. *)

Minus1(n) == IF n = 0 THEN 0 ELSE n - 1

\* A tick has passed for the active slots.
Waited == [i \in Slots |-> [wait[i] EXCEPT !.ticks = IF slots[i].active THEN @ + 1 ELSE @]]

\* timer_tick_count is incremented: everything is due one tick earlier.
TimerInterrupt ==
  /\ irq = Off
  /\ irq' = [phase |-> "scan", i |-> 0, interval |-> 0]
  /\ slots' = [i \in Slots |-> [slots[i] EXCEPT !.due = Minus1(@)]]
  /\ args' = IF pc = "sleep" THEN [args EXCEPT !.interval = Minus1(@)] ELSE args
  /\ wait' = Waited
  /\ UNCHANGED <<timer_frequency, lock, pc, call, registered>>

Due(i) == slots[i].active /\ slots[i].due = 0 /\ slots[i].callback # NULL

\* Mutant: a slot is passed over before the loop counter moves.
SkipWithoutStep ==
  /\ irq.phase = "scan"
  /\ irq.i < MaxCallbacks
  /\ ~Due(irq.i)
  /\ UNCHANGED vars

\* The slot is passed over.
ScanSkip ==
  /\ irq.phase = "scan"
  /\ irq.i < MaxCallbacks
  /\ ~Due(irq.i)
  /\ irq' = [irq EXCEPT !.i = @ + 1]
  /\ UNCHANGED <<timer_frequency, slots, lock, pc, args, call, registered, wait>>

\* The callback is called, with the interval copied before.
ScanCall ==
  /\ irq.phase = "scan"
  /\ irq.i < MaxCallbacks
  /\ Due(irq.i)
  /\ call' = <<slots[irq.i].callback, slots[irq.i].context>>
  /\ irq' = [irq EXCEPT !.phase = "callback", !.interval = slots[irq.i].interval]
  /\ UNCHANGED <<timer_frequency, slots, lock, pc, args, registered, wait>>

\* Mutant: the interval counts from the tick after this one.
RescheduleLate ==
  /\ irq.phase = "callback"
  /\ slots' = IF slots[irq.i].active
                THEN [slots EXCEPT ![irq.i].due = TickIncrement(irq.interval) + 1]
                ELSE slots
  /\ wait' = [wait EXCEPT ![irq.i] =
       IF slots[irq.i].active THEN [ticks |-> 0, called |-> TRUE, hz |-> timer_frequency] ELSE @]
  /\ irq' = [phase |-> "scan", i |-> irq.i + 1, interval |-> 0]
  /\ call' = NoCall
  /\ UNCHANGED <<timer_frequency, lock, pc, args, registered>>

\* The callback returned: a slot that is still active is due an interval from now.
Reschedule ==
  /\ irq.phase = "callback"
  /\ slots' = IF slots[irq.i].active
                THEN [slots EXCEPT ![irq.i].due = TickIncrement(irq.interval)]
                ELSE slots
  /\ wait' = [wait EXCEPT ![irq.i] =
       IF slots[irq.i].active THEN [ticks |-> 0, called |-> TRUE, hz |-> timer_frequency] ELSE @]
  /\ irq' = [phase |-> "scan", i |-> irq.i + 1, interval |-> 0]
  /\ call' = NoCall
  /\ UNCHANGED <<timer_frequency, lock, pc, args, registered>>

InterruptEnds ==
  /\ irq.phase = "scan"
  /\ irq.i >= MaxCallbacks
  /\ irq' = Off
  /\ UNCHANGED <<timer_frequency, slots, lock, pc, args, call, registered, wait>>

-----------------------------------------------------------------------------

Init ==
  /\ timer_frequency = 1000
  /\ slots = [i \in Slots |-> [callback |-> NULL, context |-> NULL, interval |-> 0,
                               due |-> 0, active |-> FALSE]]
  /\ lock = FALSE
  /\ pc = "idle"
  /\ args = NoArgs
  /\ irq = Off
  /\ call = NoCall
  /\ registered = [p \in Callbacks \X Contexts |-> 0]
  /\ wait = [i \in Slots |-> NoWait]

Request ==
  \/ \E hz \in FrequencyArgs : timer_set_frequency(hz)
  \/ \E c \in Callbacks, x \in Contexts, ms \in Intervals : timer_register_callback(c, x, ms)
  \/ \E c \in Callbacks : timer_unregister_callback(c)
  \/ \E ms \in Intervals : SleepStart(ms)

ThreadStep ==
  \/ Acquire
  \/ RegisterFill \/ RegisterFillRest \/ RegisterActivate
  \/ UnregisterDeactivate \/ UnregisterClear
  \/ Release \/ SleepEnd

HandlerStep == ScanSkip \/ ScanCall \/ Reschedule \/ InterruptEnds

Next == Request \/ ThreadStep \/ TimerInterrupt \/ HandlerStep

\* The timer keeps interrupting, the handler returns and the thread goes on:
\* each comes back to the CPU again and again.
Fairness ==
  /\ WF_vars(TimerInterrupt)
  /\ WF_vars(HandlerStep)
  /\ SF_vars(ThreadStep)

Spec == Init /\ [][Next]_vars /\ Fairness

-----------------------------------------------------------------------------
(* Properties *)

\* The interrupt handler never calls a callback with a context it was not
\* registered with, nor one that was unregistered as often as registered, wherever it interrupts
\* timer_register_callback or timer_unregister_callback.
CallsAreRegistered ==
  irq.phase = "callback" => call \in DOMAIN registered /\ registered[call] > 0

\* An active callback never waits longer than its interval, measured in ticks of
\* the frequency in force when its next_tick was stored, nor longer than one tick
\* when the interval is below a tick; and after its first call it is never called
\* before the interval is over.  This is so wherever registrations and removals
\* of other slots come between.  (After timer_set_frequency the interval under
\* way keeps its old number of ticks, timer.c:79; the next one is converted.)
CallsOnTime ==
  \A i \in Slots :
    LET w == wait[i]
        span == slots[i].interval * w.hz  \* the interval in thousandths of a tick
    IN  slots[i].active =>
          /\ 1000 * w.ticks <= span \/ w.ticks <= 1
          /\ irq.phase = "callback" /\ irq.i = i /\ w.called =>
               w.ticks >= 1 /\ span < 1000 * (w.ticks + 1)

\* A registered callback keeps being called.
ActiveIsCalled ==
  \A i \in Slots :
    slots[i].active ~> (~slots[i].active \/ (irq.phase = "callback" /\ irq.i = i))

\* A call of a thread ends: one that spins for timer_callbacks_lock gets it, as no
\* earlier call returned without releasing it, and a sleep is over in time.
ThreadReturns == (pc # "idle") ~> (pc = "idle")

=============================================================================
