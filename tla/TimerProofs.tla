---------------------------- MODULE TimerProofs ----------------------------
(***************************************************************************)
(* Proofs about Timer.tla, for every number of slots, every set of         *)
(* callbacks and contexts, and any intervals and frequencies.              *)
(***************************************************************************)
EXTENDS Timer, FiniteSetTheorems, WellFoundedInduction, TLAPS

Entry ==
  [callback : Callbacks \cup {NULL}, context : Contexts \cup {NULL},
   interval : Nat, due : Nat, active : BOOLEAN]

Pairs == Callbacks \X Contexts

TypeOK ==
  /\ timer_frequency \in Nat
  /\ slots \in [Slots -> Entry]
  /\ args \in [callback : Callbacks \cup {NULL}, context : Contexts \cup {NULL},
               interval : Nat, slot : Slots]
  /\ registered \in [Pairs -> Int]
  /\ wait \in [Slots -> [ticks : Nat, called : BOOLEAN, hz : Nat]]

\* Where the thread is between its stores: the slot it fills or clears is not
\* active, and keeps what was stored into it.
InCall ==
  /\ pc \in {"register", "fill", "fill_rest", "activate"} =>
       <<args.callback, args.context>> \in Pairs
  /\ pc \in {"fill_rest", "activate", "clear"} => ~slots[args.slot].active
  /\ pc \in {"fill_rest", "activate"} => slots[args.slot].callback = args.callback
  /\ pc = "activate" => slots[args.slot].context = args.context

\* The handler has seen an active slot; no thread runs until it is done.
InHandler ==
  /\ irq \in [phase : {"off", "scan", "callback"}, i : Nat, interval : Nat]
  /\ irq.phase = "callback" =>
       /\ irq.i \in Slots
       /\ slots[irq.i].active
       /\ irq.interval = slots[irq.i].interval
       /\ slots[irq.i].due = 0
       /\ call = <<slots[irq.i].callback, slots[irq.i].context>>

\* The slots in which a callback is active with a context.
Uses(pair) == {i \in Slots : slots[i].active /\ <<slots[i].callback, slots[i].context>> = pair}

\* Active slots are complete, and every pair of callback and context is active in
\* as many slots as it is registered.
Counted ==
  /\ \A i \in Slots : slots[i].active => <<slots[i].callback, slots[i].context>> \in Pairs
  /\ \A pair \in Pairs : registered[pair] = Cardinality(Uses(pair))

\* The ticks of an interval at a frequency, at least one.
TicksAt(ms, hz) == IF (ms * hz) \div 1000 = 0 THEN 1 ELSE (ms * hz) \div 1000

\* The handler runs and has not passed the slot.
Ahead(i) == irq.phase # "off" /\ irq.i <= i

\* What a slot has waited and has left makes up its interval; less was left of the
\* first one when the tick interrupted the registration.
Making(i) ==
  LET all == TicksAt(slots[i].interval, wait[i].hz)
  IN  /\ slots[i].due + wait[i].ticks <= all
      /\ wait[i].called => slots[i].due + wait[i].ticks = all

\* A slot that is due is called before the handler returns, or was activated since.
Scheduled ==
  /\ \A i \in Slots :
       /\ slots[i].active =>
            Making(i) /\ (slots[i].due = 0 => wait[i].ticks = 0 \/ Ahead(i))
       /\ ~slots[i].active => wait[i].ticks = 0 /\ ~wait[i].called
  /\ pc = "activate" => Making(args.slot)

Inv == TypeOK /\ InCall /\ InHandler /\ Counted /\ Scheduled

-----------------------------------------------------------------------------

\* There are finitely many slots, so a set of slots can be counted.
LEMMA SlotsFinite == IsFiniteSet(Slots) /\ 0 \in Slots
<1>1. MaxCallbacks - 1 \in Int /\ 0 \in Int
  BY TimerAssumption
<1> QED BY <1>1, FS_Interval, TimerAssumption DEF Slots

\* The ticks of an interval are a number, and the interval rounded down.
LEMMA TicksRoundDown ==
  ASSUME NEW ms \in Nat, NEW hz \in Nat
  PROVE  /\ (ms * hz) \div 1000 \in Nat
         /\ TicksAt(ms, hz) \in Nat \ {0}
         /\ 1000 * TicksAt(ms, hz) <= ms * hz \/ TicksAt(ms, hz) = 1
         /\ ms * hz < 1000 * (TicksAt(ms, hz) + 1)
<1>1. PICK x : x = ms * hz
  OBVIOUS
<1>2. x \in Nat
  BY <1>1
<1>3. PICK q : q = x \div 1000
  OBVIOUS
<1>4. q \in Nat /\ 1000 * q <= x /\ x < 1000 * (q + 1)
  BY <1>2, <1>3
<1>5. TicksAt(ms, hz) = IF q = 0 THEN 1 ELSE q
  BY <1>1, <1>3 DEF TicksAt
<1> QED BY <1>1, <1>2, <1>3, <1>4, <1>5

\* There is at least one tick in an interval.
LEMMA TicksPositive ==
  ASSUME NEW ms \in Nat, NEW hz \in Nat
  PROVE  TicksAt(ms, hz) \in Nat /\ TicksAt(ms, hz) # 0
BY TicksRoundDown

\* At the frequency in force these are the ticks the code computes.
LEMMA TicksNat ==
  ASSUME timer_frequency \in Nat, NEW ms \in Nat
  PROVE  /\ TickIncrement(ms) \in Nat /\ (ms * timer_frequency) \div 1000 \in Nat
         /\ TickIncrement(ms) = TicksAt(ms, timer_frequency)
<1>1. TickIncrement(ms) = TicksAt(ms, timer_frequency)
  BY DEF TickIncrement, TicksAt
<1> QED BY <1>1, TicksRoundDown

\* The first slot of a set of slots is in it.
LEMMA FirstIsIn ==
  ASSUME NEW T \in SUBSET Slots, T # {}
  PROVE  FirstOf(T) \in T
<1> DEFINE Less == {pair \in Nat \X Nat : pair[1] < pair[2]}
<1>1. IsWellFoundedOn(Less, Nat) /\ T \subseteq Nat
  BY NatLessThanWellFounded, TimerAssumption DEF OpToRel, Slots
<1>2. PICK x \in T : \A y \in T : ~(<<y, x>> \in Less)
  <2> HIDE DEF Less
  <2> QED BY <1>1, WFMin
<1>3. ASSUME NEW y \in T PROVE x <= y
  <2>1. x \in Nat /\ y \in Nat /\ ~(<<y, x>> \in Less)
    BY <1>1, <1>2, <1>3
  <2> QED BY <2>1
<1> QED BY <1>3 DEF FirstOf

\* Uses does not change where every active slot keeps its callback and context.
LEMMA SameUses ==
  ASSUME \A i \in Slots :
           /\ slots'[i].active <=> slots[i].active
           /\ slots[i].active => slots'[i].callback = slots[i].callback
                                 /\ slots'[i].context = slots[i].context,
         registered' = registered, Counted
  PROVE  Counted'
<1>1. ASSUME NEW pair PROVE Uses(pair)' = Uses(pair)
  BY DEF Uses
<1> QED BY <1>1 DEF Counted

\* One slot becomes active, or stops being active, with a pair.
LEMMA OneMore ==
  ASSUME Counted, TypeOK, NEW s \in Slots, NEW pr \in Pairs,
         ~slots[s].active, slots'[s].active, <<slots'[s].callback, slots'[s].context>> = pr,
         \A i \in Slots \ {s} : slots'[i] = slots[i],
         registered' = [registered EXCEPT ![pr] = @ + 1]
  PROVE  Counted'
<1>1. Uses(pr)' = Uses(pr) \cup {s} /\ s \notin Uses(pr)
  BY DEF Uses
<1>2. \A pair \in Pairs : pair # pr => Uses(pair)' = Uses(pair)
  BY DEF Uses
<1>3. IsFiniteSet(Uses(pr))
  <2>1. Uses(pr) \in SUBSET Slots
    BY DEF Uses
  <2> QED BY <2>1, SlotsFinite, FS_Subset
<1>4. Cardinality(Uses(pr)') = Cardinality(Uses(pr)) + 1
  BY <1>1, <1>3, FS_AddElement
<1>5. \A pair \in Pairs : registered'[pair] = Cardinality(Uses(pair)')
  BY <1>2, <1>4 DEF Counted, TypeOK
<1>6. \A i \in Slots : slots'[i].active => <<slots'[i].callback, slots'[i].context>> \in Pairs
  BY DEF Counted
<1> QED BY <1>5, <1>6 DEF Counted

\* The same when a slot stops being active.
LEMMA OneLess ==
  ASSUME Counted, TypeOK, NEW s \in Slots, NEW pr \in Pairs,
         slots[s].active, ~slots'[s].active, <<slots[s].callback, slots[s].context>> = pr,
         \A i \in Slots \ {s} : slots'[i] = slots[i],
         registered' = [registered EXCEPT ![pr] = @ - 1]
  PROVE  Counted'
<1>1. Uses(pr)' = Uses(pr) \ {s} /\ s \in Uses(pr)
  BY DEF Uses
<1>2. \A pair \in Pairs : pair # pr => Uses(pair)' = Uses(pair)
  BY DEF Uses
<1>3. IsFiniteSet(Uses(pr))
  <2>1. Uses(pr) \in SUBSET Slots
    BY DEF Uses
  <2> QED BY <2>1, SlotsFinite, FS_Subset
<1>4. Cardinality(Uses(pr)') = Cardinality(Uses(pr)) - 1
  BY <1>1, <1>3, FS_RemoveElement
<1>5. \A pair \in Pairs : registered'[pair] = Cardinality(Uses(pair)')
  BY <1>2, <1>4 DEF Counted, TypeOK
<1>6. \A i \in Slots : slots'[i].active => <<slots'[i].callback, slots'[i].context>> \in Pairs
  BY DEF Counted
<1> QED BY <1>5, <1>6 DEF Counted

-----------------------------------------------------------------------------
(* Every step keeps the invariant *)

\* The timer starts with an empty table.
LEMMA TimerInit == Init => Inv
<1> SUFFICES ASSUME Init PROVE Inv
  OBVIOUS
<1>1. TypeOK
  BY SlotsFinite DEF Init, TypeOK, Entry, Pairs, NoArgs, NoWait
<1>2. InCall /\ InHandler
  BY DEF Init, InCall, InHandler, Off
<1>3. \A pair : Uses(pair) = {}
  BY DEF Init, Uses
<1>4. Counted
  BY <1>3, FS_EmptySet DEF Init, Counted, Pairs
<1>5. Scheduled
  BY DEF Init, Scheduled, NoWait
<1> QED BY <1>1, <1>2, <1>4, <1>5 DEF Inv

\* Calls start and end without touching the table.
LEMMA CallStep ==
  ASSUME Inv, \/ \E hz \in FrequencyArgs : timer_set_frequency(hz)
              \/ \E c \in Callbacks, x \in Contexts, ms \in Intervals :
                   timer_register_callback(c, x, ms)
              \/ \E c \in Callbacks : timer_unregister_callback(c)
              \/ \E ms \in Intervals : SleepStart(ms)
              \/ Acquire \/ Release \/ SleepEnd
  PROVE  Inv'
<1>1. /\ slots' = slots /\ registered' = registered /\ irq' = irq /\ call' = call
      /\ wait' = wait /\ pc' # "activate"
  BY DEF timer_set_frequency, timer_register_callback, timer_unregister_callback,
         SleepStart, Release, SleepEnd, Acquire, Called, thread
<1>2. Counted' /\ InHandler'
  BY <1>1, SameUses DEF Inv, InHandler
<1>3. TypeOK' /\ InCall'
  <2>1. ASSUME NEW hz \in FrequencyArgs, timer_set_frequency(hz) PROVE TypeOK' /\ InCall'
    BY <1>1, <2>1, TimerAssumption DEF Inv, TypeOK, InCall, timer_set_frequency
  <2>2. ASSUME NEW c \in Callbacks, NEW x \in Contexts, NEW ms \in Intervals,
               timer_register_callback(c, x, ms)
        PROVE  TypeOK' /\ InCall'
    BY <1>1, <2>2, TimerAssumption, SlotsFinite
       DEF Inv, TypeOK, InCall, timer_register_callback, Called, thread, Pairs
  <2>3. ASSUME NEW c \in Callbacks, timer_unregister_callback(c) PROVE TypeOK' /\ InCall'
    BY <1>1, <2>3, SlotsFinite DEF Inv, TypeOK, InCall, timer_unregister_callback, Called, thread, NoArgs
  <2>4. ASSUME NEW ms \in Intervals, SleepStart(ms) PROVE TypeOK' /\ InCall'
    <3>1. (ms * timer_frequency) \div 1000 \in Nat
      BY TicksNat, TimerAssumption DEF Inv, TypeOK
    <3>2. /\ args' = [args EXCEPT !.interval = (ms * timer_frequency) \div 1000]
          /\ pc' = "sleep" /\ timer_frequency' = timer_frequency
      BY <2>4 DEF SleepStart, thread
    <3> QED BY <1>1, <3>1, <3>2 DEF Inv, TypeOK, InCall
  <2>5. CASE Acquire \/ Release \/ SleepEnd
    BY <1>1, <2>5, SlotsFinite
       DEF Inv, TypeOK, InCall, Acquire, Release, SleepEnd, thread, NoArgs
  <2> QED BY <2>1, <2>2, <2>3, <2>4, <2>5
<1>4. Scheduled'
  BY <1>1 DEF Inv, Scheduled, Making, Ahead
<1> QED BY <1>1, <1>2, <1>3, <1>4 DEF Inv

\* A slot keeps its schedule where nothing of it changes.
LEMMA SameSchedule ==
  ASSUME Scheduled, NEW i \in Slots, slots'[i] = slots[i], wait'[i] = wait[i],
         irq' = irq
  PROVE  /\ slots'[i].active =>
              Making(i)' /\ (slots'[i].due = 0 => wait'[i].ticks = 0 \/ Ahead(i)')
         /\ ~slots'[i].active => wait'[i].ticks = 0 /\ ~wait'[i].called
BY DEF Scheduled, Making, Ahead

\* timer_register_callback fills an inactive slot and activates it last.
LEMMA RegisterStep ==
  ASSUME Inv, RegisterFill \/ RegisterFillRest \/ RegisterActivate
  PROVE  Inv'
<1> USE DEF Inv
<1>0. irq = Off /\ irq' = irq /\ call' = call /\ timer_frequency' = timer_frequency /\ InHandler'
  BY DEF RegisterFill, RegisterFillRest, RegisterActivate, InThread, thread, InHandler, Off
<1>1. CASE RegisterFill
  <2>1. CASE Inactive = {}
    <3>1. slots' = slots /\ args' = args /\ registered' = registered /\ pc' = "release"
      BY <1>1, <2>1 DEF RegisterFill
    <3>2. Counted'
      BY <3>1, SameUses
    <3>3. wait' = wait
      BY <1>1 DEF RegisterFill
    <3>4. Scheduled'
      BY <1>0, <3>1, <3>3 DEF Scheduled, Making, Ahead
    <3> QED BY <1>0, <3>1, <3>2, <3>3, <3>4 DEF TypeOK, InCall
  <2>2. CASE Inactive # {}
    <3>1. PICK s \in Slots : s = FirstOf(Inactive) /\ ~slots[s].active
      BY <2>2, FirstIsIn DEF Inactive
    <3>2. /\ pc = "fill" /\ slots' = [slots EXCEPT ![s].callback = args.callback]
          /\ args' = [args EXCEPT !.slot = s] /\ pc' = "fill_rest" /\ registered' = registered
          /\ wait' = wait
      BY <1>1, <2>2, <3>1 DEF RegisterFill
    <3>3. TypeOK' /\ InCall' /\ args'.slot = s
      <4>1. slots' \in [Slots -> Entry] /\ wait' = wait
        BY <3>2 DEF TypeOK, Entry
      <4>2. /\ args' \in [callback : Callbacks \cup {NULL}, context : Contexts \cup {NULL},
                          interval : Nat, slot : Slots]
            /\ args'.slot = s /\ args'.callback = args.callback /\ args'.context = args.context
        BY <3>2 DEF TypeOK
      <4>3. ~slots'[s].active /\ slots'[s].callback = args.callback
        BY <3>1, <3>2 DEF TypeOK, Entry
      <4> QED BY <1>0, <3>2, <4>1, <4>2, <4>3 DEF TypeOK, InCall
    <3>4. \A i \in Slots \ {s} : slots'[i] = slots[i]
      BY <3>2 DEF TypeOK
    <3>5. ~slots'[s].active
      BY <3>1, <3>2 DEF TypeOK, Entry
    <3>6. Counted'
      BY <3>1, <3>2, <3>4, <3>5, SameUses
    <3>7. Scheduled'
      <4>1. wait'[s].ticks = 0 /\ ~wait'[s].called
        BY <3>1, <3>2 DEF Scheduled
      <4> QED BY <1>0, <3>2, <3>4, <3>5, <4>1, SameSchedule DEF Scheduled
    <3> QED BY <1>0, <3>1, <3>3, <3>4, <3>6, <3>7
  <2> QED BY <2>1, <2>2
<1>2. CASE RegisterFillRest
  <2> DEFINE s == args.slot
  <2>1. /\ pc = "fill_rest" /\ pc' = "activate" /\ args' = args /\ registered' = registered
        /\ slots' = [slots EXCEPT ![s] =
             [@ EXCEPT !.context = args.context, !.interval = args.interval,
                       !.due = TickIncrement(args.interval)]]
        /\ wait' = [wait EXCEPT ![s].hz = timer_frequency]
    BY <1>2 DEF RegisterFillRest
  <2>2. TickIncrement(args.interval) \in Nat
    BY TicksNat DEF TypeOK
  <2>3. s \in Slots /\ ~slots[s].active
    BY <2>1 DEF TypeOK, InCall
  <2>4. TypeOK' /\ InCall'
    BY <1>0, <2>1, <2>2, <2>3 DEF TypeOK, InCall, Entry
  <2>5. (\A i \in Slots \ {s} : slots'[i] = slots[i]) /\ ~slots'[s].active
    BY <2>1, <2>3 DEF TypeOK, Entry
  <2>7. Scheduled'
    <3>1. wait[s].ticks = 0 /\ ~wait[s].called
      BY <2>3 DEF Scheduled
    <3>2. /\ wait'[s].ticks = 0 /\ ~wait'[s].called /\ wait'[s].hz = timer_frequency
          /\ \A i \in Slots \ {s} : wait'[i] = wait[i]
      BY <2>1, <2>3, <3>1 DEF TypeOK
    <3>3. slots'[s].interval = args.interval /\ slots'[s].due = TickIncrement(args.interval)
      BY <2>1, <2>3 DEF TypeOK, Entry
    <3>4. TickIncrement(args.interval) = TicksAt(args.interval, timer_frequency)
      BY TicksNat DEF TypeOK
    <3>5. Making(s)'
      <4>1. TicksAt(slots'[s].interval, wait'[s].hz) = slots'[s].due
        BY <3>2, <3>3, <3>4
      <4>2. slots'[s].due + wait'[s].ticks = slots'[s].due /\ slots'[s].due <= slots'[s].due
        BY <2>2, <3>2, <3>3
      <4> QED BY <2>1, <3>2, <4>1, <4>2 DEF Making
    <3>6. Making(args.slot)'
      BY <2>1, <3>5 DEF Making
    <3> HIDE DEF s
    <3> QED BY <1>0, <2>5, <3>2, <3>6, SameSchedule DEF Scheduled
  <2> HIDE DEF s
  <2>6. Counted'
    BY <2>1, <2>3, <2>5, SameUses
  <2> QED BY <1>0, <2>3, <2>4, <2>5, <2>6, <2>7
<1>3. CASE RegisterActivate
  <2> DEFINE s == args.slot
             pr == <<args.callback, args.context>>
  <2>1. /\ pc = "activate" /\ pc' = "release" /\ args' = args
        /\ slots' = [slots EXCEPT ![s].active = TRUE]
        /\ registered' = [registered EXCEPT ![pr] = @ + 1]
        /\ wait' = wait
    BY <1>3 DEF RegisterActivate
  <2>2. /\ s \in Slots /\ ~slots[s].active /\ pr \in Pairs
        /\ slots[s].callback = args.callback /\ slots[s].context = args.context
    BY <2>1 DEF TypeOK, InCall
  <2>3. TypeOK' /\ InCall'
    <3>1. registered' \in [Pairs -> Int]
      <4> HIDE DEF pr
      <4> QED BY <2>1, <2>2 DEF TypeOK
    <3>2. slots' \in [Slots -> Entry]
      BY <2>1, <2>2 DEF TypeOK, Entry
    <3> QED BY <1>0, <2>1, <3>1, <3>2 DEF TypeOK, InCall
  <2>4. /\ \A i \in Slots \ {s} : slots'[i] = slots[i]
        /\ slots'[s].active /\ <<slots'[s].callback, slots'[s].context>> = pr
    BY <2>1, <2>2 DEF TypeOK, Entry
  <2>6. Scheduled'
    <3>1. Making(s) /\ wait[s].ticks = 0
      BY <2>1, <2>2 DEF Scheduled
    <3>2. slots'[s].due = slots[s].due /\ slots'[s].interval = slots[s].interval
      BY <2>1, <2>2 DEF TypeOK, Entry
    <3>3. Making(s)' /\ wait'[s].ticks = 0
      BY <2>1, <3>1, <3>2 DEF Making
    <3>4. pc' # "activate" /\ s' = s
      BY <2>1
    <3> HIDE DEF s
    <3> QED BY <1>0, <2>1, <2>4, <3>3, <3>4, SameSchedule DEF Scheduled
  <2> HIDE DEF s, pr
  <2>5. Counted'
    BY <2>1, <2>2, <2>4, OneMore
  <2> QED BY <1>0, <2>2, <2>3, <2>4, <2>5, <2>6
<1> QED BY <1>1, <1>2, <1>3

\* timer_unregister_callback deactivates the slot before it clears it.
LEMMA UnregisterStep ==
  ASSUME Inv, UnregisterDeactivate \/ UnregisterClear
  PROVE  Inv'
<1> USE DEF Inv
<1>0. irq = Off /\ irq' = irq /\ call' = call /\ timer_frequency' = timer_frequency /\ InHandler'
  BY DEF UnregisterDeactivate, UnregisterClear, InThread, thread, InHandler, Off
<1>1. CASE UnregisterDeactivate
  <2>1. CASE Matching(args.callback) = {}
    <3>1. slots' = slots /\ args' = args /\ registered' = registered /\ pc' = "release"
      BY <1>1, <2>1 DEF UnregisterDeactivate
    <3>2. Counted'
      BY <3>1, SameUses
    <3>3. wait' = wait
      BY <1>1, <2>1 DEF UnregisterDeactivate
    <3>4. Scheduled'
      BY <1>0, <3>1, <3>3 DEF Scheduled, Making, Ahead
    <3> QED BY <1>0, <3>1, <3>2, <3>3, <3>4 DEF TypeOK, InCall
  <2>2. CASE Matching(args.callback) # {}
    <3>1. PICK s \in Slots : /\ s = FirstOf(Matching(args.callback))
                             /\ slots[s].active /\ slots[s].callback = args.callback
      <4>1. Matching(args.callback) \in SUBSET Slots
        BY DEF Matching
      <4>2. FirstOf(Matching(args.callback)) \in Matching(args.callback)
        BY <2>2, <4>1, FirstIsIn
      <4> QED BY <4>2 DEF Matching
    <3>2. PICK pr : pr = <<slots[s].callback, slots[s].context>>
      OBVIOUS
    <3>3. /\ pc = "find" /\ slots' = [slots EXCEPT ![s].active = FALSE]
          /\ args' = [args EXCEPT !.slot = s] /\ pc' = "clear"
          /\ registered' = [registered EXCEPT ![pr] = @ - 1]
          /\ wait' = [wait EXCEPT ![s] = NoWait]
      BY <1>1, <2>2, <3>1, <3>2 DEF UnregisterDeactivate
    <3>4. pr \in Pairs
      BY <3>1, <3>2 DEF Counted
    <3>5. /\ \A i \in Slots \ {s} : slots'[i] = slots[i]
          /\ ~slots'[s].active /\ slots'[s].due = slots[s].due
      BY <3>3 DEF TypeOK, Entry
    <3>8. /\ wait'[s] = NoWait /\ \A i \in Slots \ {s} : wait'[i] = wait[i]
          /\ wait' \in [Slots -> [ticks : Nat, called : BOOLEAN, hz : Nat]]
      BY <3>3 DEF TypeOK, NoWait
    <3>6. TypeOK' /\ InCall'
      <4>1. registered' \in [Pairs -> Int]
        BY <3>3, <3>4 DEF TypeOK
      <4>2. slots' \in [Slots -> Entry]
        <5>1. slots[s] \in Entry /\ slots' = [slots EXCEPT ![s] = [slots[s] EXCEPT !.active = FALSE]]
          BY <3>3 DEF TypeOK
        <5>2. [slots[s] EXCEPT !.active = FALSE] \in Entry
          BY <5>1 DEF Entry
        <5> QED BY <5>1, <5>2 DEF TypeOK
      <4>3. args' \in [callback : Callbacks \cup {NULL}, context : Contexts \cup {NULL},
                       interval : Nat, slot : Slots] /\ args'.slot = s
        BY <3>3 DEF TypeOK
      <4> QED BY <1>0, <3>3, <3>5, <3>8, <4>1, <4>2, <4>3 DEF TypeOK, InCall
    <3>7. Counted'
      BY <3>1, <3>2, <3>3, <3>4, <3>5, OneLess
    <3>9. Scheduled'
      <4>1. wait'[s].ticks = 0 /\ ~wait'[s].called
        BY <3>8 DEF NoWait
      <4> QED BY <1>0, <3>3, <3>5, <3>8, <4>1, SameSchedule DEF Scheduled
    <3> QED BY <1>0, <3>5, <3>6, <3>7, <3>9
  <2> QED BY <2>1, <2>2
<1>2. CASE UnregisterClear
  <2> DEFINE s == args.slot
  <2>1. /\ pc = "clear" /\ pc' = "release" /\ args' = args /\ registered' = registered
        /\ slots' = [slots EXCEPT ![s] = [@ EXCEPT !.callback = NULL, !.context = NULL]]
        /\ wait' = wait
    BY <1>2 DEF UnregisterClear
  <2>2. s \in Slots /\ ~slots[s].active
    BY <2>1 DEF TypeOK, InCall
  <2>3. TypeOK' /\ InCall'
    BY <1>0, <2>1, <2>2 DEF TypeOK, InCall, Entry
  <2>4. (\A i \in Slots \ {s} : slots'[i] = slots[i]) /\ ~slots'[s].active
    BY <2>1, <2>2 DEF TypeOK, Entry
  <2> HIDE DEF s
  <2>5. Counted'
    BY <2>1, <2>2, <2>4, SameUses
  <2>6. Scheduled'
    <3>1. wait'[s].ticks = 0 /\ ~wait'[s].called
      BY <2>1, <2>2 DEF Scheduled
    <3> QED BY <1>0, <2>1, <2>4, <3>1, SameSchedule DEF Scheduled
  <2> QED BY <1>0, <2>2, <2>3, <2>4, <2>5, <2>6
<1> QED BY <1>1, <1>2

\* The handler only counts down and sets the times at which slots are due: what
\* it called is active until it is done.
LEMMA HandlerKeeps ==
  ASSUME Inv, TimerInterrupt \/ HandlerStep
  PROVE  Inv'
<1> USE DEF Inv
<1>1. CASE TimerInterrupt
  <2>1. /\ slots' = [i \in Slots |-> [slots[i] EXCEPT !.due = Minus1(@)]]
        /\ irq' = [phase |-> "scan", i |-> 0, interval |-> 0]
        /\ args' = IF pc = "sleep" THEN [args EXCEPT !.interval = Minus1(@)] ELSE args
        /\ UNCHANGED <<timer_frequency, pc, registered>>
    BY <1>1 DEF TimerInterrupt
  <2>2. \A i \in Slots :
          /\ slots'[i] \in Entry
          /\ slots'[i].active = slots[i].active /\ slots'[i].callback = slots[i].callback
          /\ slots'[i].context = slots[i].context /\ slots'[i].due = Minus1(slots[i].due)
          /\ slots[i].due \in Nat
    BY <2>1 DEF TypeOK, Entry, Minus1
  <2>3. Counted'
    BY <2>1, <2>2, SameUses
  <2>4. TypeOK'
    <3>1. slots' \in [Slots -> Entry]
      BY <2>1, <2>2
    <3>2. args.interval \in Nat /\ Minus1(args.interval) \in Nat
      BY DEF TypeOK, Minus1
    <3>3. args' \in [callback : Callbacks \cup {NULL}, context : Contexts \cup {NULL},
                     interval : Nat, slot : Slots]
      BY <2>1, <3>2 DEF TypeOK
    <3>4. wait' \in [Slots -> [ticks : Nat, called : BOOLEAN, hz : Nat]]
      BY <1>1 DEF TimerInterrupt, Waited, TypeOK
    <3> QED BY <2>1, <3>1, <3>3, <3>4 DEF TypeOK
  <2>5. InCall'
    <3>1. args'.slot = args.slot /\ args'.callback = args.callback /\ args'.context = args.context
          /\ args.slot \in Slots
      BY <2>1 DEF TypeOK
    <3> QED BY <2>1, <2>2, <3>1 DEF InCall
  <2>6. InHandler'
    BY <2>1 DEF InHandler
  <2>7. Scheduled'
    <3>1. \A i \in Slots :
            /\ wait'[i].hz = wait[i].hz /\ wait'[i].called = wait[i].called
            /\ wait'[i].ticks = IF slots[i].active THEN wait[i].ticks + 1 ELSE wait[i].ticks
            /\ wait[i].ticks \in Nat /\ wait[i].hz \in Nat
      BY <1>1 DEF TimerInterrupt, Waited, TypeOK
    <3>2. \A i \in Slots : slots'[i].interval = slots[i].interval /\ slots[i].interval \in Nat
      BY <2>1 DEF TypeOK, Entry
    <3>3. ASSUME NEW i \in Slots, slots[i].active PROVE Making(i)' /\ Ahead(i)'
      <4>1. PICK all \in Nat \ {0} : all = TicksAt(slots[i].interval, wait[i].hz)
        <5>1. slots[i].interval \in Nat /\ wait[i].hz \in Nat
          BY <3>1, <3>2
        <5> QED BY <5>1, TicksPositive
      <4>2. /\ slots[i].due + wait[i].ticks <= all
            /\ wait[i].called => slots[i].due + wait[i].ticks = all
            /\ slots[i].due = 0 => wait[i].ticks = 0
        BY <1>1, <3>3, <4>1 DEF Scheduled, Making, Ahead, TimerInterrupt, Off
      <4>3. /\ slots'[i].due + wait'[i].ticks <= all
            /\ wait'[i].called => slots'[i].due + wait'[i].ticks = all
        BY <2>2, <3>1, <3>3, <4>2 DEF Minus1
      <4>4. Ahead(i)'
        BY <2>1, TimerAssumption DEF Ahead, Slots
      <4> QED BY <3>1, <3>2, <4>1, <4>3, <4>4 DEF Making
    <3>4. pc' = "activate" => Making(args.slot)'
      <4> SUFFICES ASSUME pc' = "activate" PROVE Making(args.slot)'
        OBVIOUS
      <4> DEFINE s == args.slot
      <4>1. s \in Slots /\ args' = args /\ Making(s) /\ ~slots[s].active
        BY <2>1 DEF TypeOK, InCall, Scheduled
      <4>2. PICK all \in Nat \ {0} : all = TicksAt(slots[s].interval, wait[s].hz)
        <5>1. slots[s].interval \in Nat /\ wait[s].hz \in Nat
          BY <3>1, <3>2, <4>1
        <5> HIDE DEF s
        <5> QED BY <5>1, TicksPositive
      <4>3. slots[s].due + wait[s].ticks <= all /\ ~wait[s].called
        BY <4>1, <4>2 DEF Making, Scheduled
      <4>4. slots'[s].due + wait'[s].ticks <= all /\ ~wait'[s].called
        BY <2>2, <3>1, <4>1, <4>3 DEF Minus1
      <4> QED BY <3>1, <3>2, <4>1, <4>2, <4>4 DEF Making
    <3> QED BY <2>2, <3>1, <3>3, <3>4 DEF Scheduled
  <2> QED BY <2>3, <2>4, <2>5, <2>6, <2>7
<1>2. CASE ScanSkip \/ ScanCall \/ InterruptEnds
  <2>1. UNCHANGED <<timer_frequency, slots, pc, args, registered, wait>>
    BY <1>2 DEF ScanSkip, ScanCall, InterruptEnds
  <2>2. Counted' /\ TypeOK' /\ InCall'
    BY <2>1, SameUses DEF TypeOK, InCall
  <2>3. InHandler'
    <3>1. CASE ScanSkip
      BY <2>1, <3>1 DEF ScanSkip, InHandler
    <3>2. CASE ScanCall
      <4>1. irq.i \in Slots
        BY <3>2, TimerAssumption DEF ScanCall, InHandler, Slots
      <4>2. /\ slots[irq.i].active /\ call' = <<slots[irq.i].callback, slots[irq.i].context>>
            /\ irq' = [irq EXCEPT !.phase = "callback", !.interval = slots[irq.i].interval]
        BY <3>2 DEF ScanCall, Due
      <4>3. slots[irq.i].interval \in Nat
        BY <4>1 DEF TypeOK, Entry
      <4>4. slots[irq.i].due = 0
        BY <3>2 DEF ScanCall, Due
      <4> QED BY <2>1, <4>1, <4>2, <4>3, <4>4 DEF InHandler
    <3>3. CASE InterruptEnds
      BY <2>1, <3>3 DEF InterruptEnds, InHandler, Off
    <3> QED BY <1>2, <3>1, <3>2, <3>3
  <2>4. Scheduled'
    <3>1. \A i \in Slots : Making(i)' = Making(i)
      BY <2>1 DEF Making
    <3>2. pc = "activate" => Making(args.slot)'
      BY <2>1 DEF Scheduled, Making
    <3>3. ASSUME NEW i \in Slots, slots[i].active, slots[i].due = 0, wait[i].ticks # 0
          PROVE  Ahead(i)'
      <4>1. Ahead(i) /\ irq.i \in Nat /\ i \in Nat /\ i < MaxCallbacks
        BY <3>3, TimerAssumption DEF Scheduled, InHandler, Slots
      <4>2. slots[i].callback # NULL
        BY <3>3, TimerAssumption DEF Counted, Pairs
      <4>3. CASE ScanSkip
        <5>1. irq.i # i
          BY <3>3, <4>2, <4>3 DEF ScanSkip, Due
        <5> QED BY <4>1, <4>3, <5>1 DEF ScanSkip, Ahead, InHandler
      <4>4. CASE ScanCall
        BY <4>1, <4>4 DEF ScanCall, Ahead, InHandler
      <4>5. CASE InterruptEnds
        BY <4>1, <4>5, TimerAssumption DEF InterruptEnds, Ahead
      <4> QED BY <1>2, <4>3, <4>4, <4>5
    <3> QED BY <2>1, <3>1, <3>2, <3>3 DEF Scheduled
  <2> QED BY <2>2, <2>3, <2>4
<1>3. CASE Reschedule
  <2>0. PICK n : n = irq.i
    OBVIOUS
  <2>1. /\ n \in Slots /\ slots[n].active /\ irq.interval = slots[n].interval /\ irq.i \in Nat
        /\ slots[n].interval \in Nat
    BY <1>3, <2>0 DEF Reschedule, InHandler, TypeOK, Entry
  <2>2. /\ slots' = [slots EXCEPT ![n].due = TickIncrement(irq.interval)]
        /\ irq' = [phase |-> "scan", i |-> irq.i + 1, interval |-> 0]
        /\ wait' = [wait EXCEPT ![n] = [ticks |-> 0, called |-> TRUE, hz |-> timer_frequency]]
        /\ UNCHANGED <<timer_frequency, pc, args, registered>>
    BY <1>3, <2>0, <2>1 DEF Reschedule
  <2>3. TickIncrement(irq.interval) \in Nat
    BY <2>1, TicksNat DEF TypeOK
  <2>4. /\ TypeOK'
        /\ \A i \in Slots : /\ slots'[i].active = slots[i].active
                            /\ slots'[i].callback = slots[i].callback
                            /\ slots'[i].context = slots[i].context
                            /\ slots'[i].interval = slots[i].interval
                            /\ slots'[i].due = IF i = n THEN TickIncrement(irq.interval)
                                               ELSE slots[i].due
                            /\ slots[i].due \in Nat
    BY <2>1, <2>2, <2>3 DEF TypeOK, Entry
  <2>5. Counted'
    BY <2>2, <2>4, SameUses
  <2>6. InCall' /\ InHandler'
    <3>1. args.slot \in Slots
      BY DEF TypeOK
    <3> QED BY <2>1, <2>2, <2>4, <3>1 DEF InCall, InHandler
  <2>7. Scheduled'
    <3>1. /\ wait'[n] = [ticks |-> 0, called |-> TRUE, hz |-> timer_frequency]
          /\ \A i \in Slots \ {n} : wait'[i] = wait[i] /\ slots'[i] = slots[i]
      BY <2>1, <2>2 DEF TypeOK
    <3>2. TickIncrement(irq.interval) = TicksAt(irq.interval, timer_frequency)
      BY <2>1, TicksNat DEF TypeOK
    <3>3. TickIncrement(irq.interval) # 0
      <4>1. irq.interval \in Nat /\ timer_frequency \in Nat
        BY <2>1 DEF TypeOK
      <4>2. TicksAt(irq.interval, timer_frequency) # 0
        BY <4>1, TicksPositive
      <4> QED BY <3>2, <4>2
    <3>4. slots'[n].active /\ slots'[n].due # 0
      BY <2>1, <2>4, <3>3
    <3>5. Making(n)'
      <4>1. /\ slots'[n].interval = irq.interval /\ wait'[n].hz = timer_frequency
            /\ slots'[n].due = TickIncrement(irq.interval) /\ wait'[n].ticks = 0
        BY <2>1, <2>4, <3>1
      <4>2. TicksAt(slots'[n].interval, wait'[n].hz) = slots'[n].due
        BY <3>2, <4>1
      <4>3. slots'[n].due + wait'[n].ticks = slots'[n].due /\ slots'[n].due <= slots'[n].due
        BY <2>3, <4>1
      <4> QED BY <4>2, <4>3 DEF Making
    <3>6. ASSUME NEW i \in Slots \ {n}
          PROVE  /\ slots'[i].active =>
                      Making(i)' /\ (slots'[i].due = 0 => wait'[i].ticks = 0 \/ Ahead(i)')
                 /\ ~slots'[i].active => wait'[i].ticks = 0 /\ ~wait'[i].called
      <4>1. Making(i)' = Making(i)
        BY <3>1 DEF Making
      <4>2. ASSUME Ahead(i) PROVE Ahead(i)'
        <5>1. irq.i \in Nat /\ i \in Nat /\ irq.i # i /\ irq.i <= i
          BY <2>0, <2>1, <4>2, TimerAssumption DEF Ahead, Slots
        <5> QED BY <2>2, <5>1 DEF Ahead
      <4> QED BY <3>1, <4>1, <4>2 DEF Scheduled
    <3>7. pc' = "activate" => Making(args.slot)'
      <4> SUFFICES ASSUME pc = "activate" PROVE Making(args.slot)'
        BY <2>2
      <4>1. args.slot \in Slots \ {n} /\ args' = args /\ Making(args.slot)
        BY <2>1, <2>2 DEF TypeOK, InCall, Scheduled
      <4> QED BY <3>1, <4>1 DEF Making
    <3> QED BY <2>1, <3>4, <3>5, <3>6, <3>7 DEF Scheduled
  <2> QED BY <2>4, <2>5, <2>6, <2>7
<1> QED BY <1>1, <1>2, <1>3 DEF HandlerStep

\* Every step keeps the invariant.
LEMMA TimerStep == Inv /\ [Next]_vars => Inv'
<1> SUFFICES ASSUME Inv, [Next]_vars PROVE Inv'
  OBVIOUS
<1>1. CASE Request \/ Acquire \/ Release \/ SleepEnd
  BY <1>1, CallStep DEF Request
<1>2. CASE RegisterFill \/ RegisterFillRest \/ RegisterActivate
  BY <1>2, RegisterStep
<1>3. CASE UnregisterDeactivate \/ UnregisterClear
  BY <1>3, UnregisterStep
<1>4. CASE TimerInterrupt \/ HandlerStep
  BY <1>4, HandlerKeeps
<1>5. CASE UNCHANGED vars
  <2>1. Counted'
    BY <1>5, SameUses DEF Inv, vars
  <2>2. Scheduled'
    BY <1>5 DEF Inv, vars, Scheduled, Making, Ahead
  <2> QED BY <1>5, <2>1, <2>2 DEF vars, Inv, TypeOK, InCall, InHandler
<1> QED BY <1>1, <1>2, <1>3, <1>4, <1>5 DEF Next, ThreadStep

-----------------------------------------------------------------------------
(* The theorems *)

\* The slot a thread is writing is inactive at every store, active slots are
\* complete, counted and on schedule, and the handler's copy is current, wherever
\* the interrupt comes.
LEMMA TimerInvariant == Spec => []Inv
<1>1. Inv /\ [Next]_vars => Inv'
  BY TimerStep
<1> QED BY <1>1, TimerInit, PTL DEF Spec

\* However the interrupt falls between the stores of timer_register_callback and
\* timer_unregister_callback, timer_handler calls only a callback with a context
\* it is registered with at that moment.
THEOREM OnlyRegisteredCalls == Spec => []CallsAreRegistered
<1>1. Inv => CallsAreRegistered
  <2> SUFFICES ASSUME Inv, irq.phase = "callback"
               PROVE  call \in DOMAIN registered /\ registered[call] > 0
    BY DEF CallsAreRegistered
  <2>1. irq.i \in Slots /\ slots[irq.i].active
        /\ call = <<slots[irq.i].callback, slots[irq.i].context>>
    BY DEF Inv, InHandler
  <2>2. call \in Pairs /\ registered[call] = Cardinality(Uses(call))
    BY <2>1 DEF Inv, Counted
  <2>3. irq.i \in Uses(call)
    BY <2>1 DEF Uses
  <2>4. IsFiniteSet(Uses(call))
    <3>1. Uses(call) \in SUBSET Slots
      BY DEF Uses
    <3> QED BY <3>1, SlotsFinite, FS_Subset
  <2>5. Cardinality(Uses(call)) \in Nat /\ Cardinality(Uses(call)) # 0
    BY <2>3, <2>4, FS_EmptySet, FS_CardinalityType
  <2>6. DOMAIN registered = Pairs
    BY DEF Inv, TypeOK
  <2> QED BY <2>2, <2>5, <2>6
<1> QED BY <1>1, TimerInvariant, PTL

\* The handler calls an active callback no later than its interval after the
\* activation or the last call, and never again before the interval is over, in
\* ticks of the frequency in force when it stored next_tick.
THEOREM CallsAreOnTime == Spec => []CallsOnTime
<1>1. Inv => CallsOnTime
  <2> SUFFICES ASSUME Inv, NEW i \in Slots, slots[i].active
               PROVE  LET w == wait[i]
                          span == slots[i].interval * w.hz
                      IN  /\ 1000 * w.ticks <= span \/ w.ticks <= 1
                          /\ irq.phase = "callback" /\ irq.i = i /\ w.called =>
                               w.ticks >= 1 /\ span < 1000 * (w.ticks + 1)
    BY DEF CallsOnTime
  <2>1. /\ slots[i].interval \in Nat /\ slots[i].due \in Nat
        /\ wait[i].ticks \in Nat /\ wait[i].hz \in Nat
    BY DEF Inv, TypeOK, Entry
  <2>2. PICK all : all = TicksAt(slots[i].interval, wait[i].hz)
    OBVIOUS
  <2>3. PICK span : span = slots[i].interval * wait[i].hz
    OBVIOUS
  <2>4. /\ span \in Nat /\ all \in Nat \ {0}
        /\ 1000 * all <= span \/ all = 1
        /\ span < 1000 * (all + 1)
    <3>1. PICK ms \in Nat, hz \in Nat : ms = slots[i].interval /\ hz = wait[i].hz
      BY <2>1
    <3>2. span = ms * hz /\ all = TicksAt(ms, hz)
      BY <2>2, <2>3, <3>1
    <3>3. ms * hz \in Nat
      OBVIOUS
    <3> QED BY <3>2, <3>3, TicksRoundDown
  <2>5. /\ slots[i].due + wait[i].ticks <= all
        /\ wait[i].called => slots[i].due + wait[i].ticks = all
    BY <2>2 DEF Inv, Scheduled, Making
  <2>6. irq.phase = "callback" /\ irq.i = i => slots[i].due = 0
    BY DEF Inv, InHandler
  <2> QED BY <2>1, <2>3, <2>4, <2>5, <2>6
<1> QED BY <1>1, TimerInvariant, PTL

=====
