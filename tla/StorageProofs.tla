--------------------------- MODULE StorageProofs ---------------------------
(***************************************************************************)
(* Proofs about the two drivers of Storage.tla, for every bus, every set   *)
(* of controllers, ports and drives, any number of slots and any requests. *)
(*                                                                         *)
(* The inductive invariants are SlotInv and RequestInv for the commands    *)
(* and the requests of sata.c, PortInv for its ports and their memory, and *)
(* DmaInv with WriteInv for nvme.c.                                        *)
(***************************************************************************)
EXTENDS Storage, FiniteSetTheorems, SequenceTheorems, WellFoundedInduction, TLAPS

\* The command list of every port has an entry for each of its slots.
CommandLists == \E C : ci \in [S!Ports -> [S!Slots -> C]]

\* The slot a request has chosen: find_command_slot found it free, and until
\* the request issues its next command in it nobody else does.  What is issued
\* in its port was seen to be.
SlotFree ==
  /\ at \in {"send", "issue", "wait"} => call.slot \in S!Slots /\ "seen" \in DOMAIN call
  /\ at \in {"send", "issue"} => ci[call.port][call.slot] = S!None
  /\ at = "issue" /\ call.port \in S!Ports =>
       /\ \E C : call.seen \in [S!Slots -> C]
       /\ \A s \in S!Slots : ci[call.port][s] \in {S!None, call.seen[s]}

SlotInv == CommandLists /\ SlotFree

\* What SlotsOwned says of a step.
OwnedKept ==
  \A p \in S!Ports, s \in S!Slots :
    ci[p][s] # S!None => ci'[p][s] \in {ci[p][s], S!None}

-----------------------------------------------------------------------------

\* A set of slot numbers that is not empty has a least element.
LEMMA LeastSlot ==
  ASSUME NEW T \in SUBSET Nat, T # {}
  PROVE  \E x \in T : \A y \in T : x <= y
<1> DEFINE Less == {pair \in Nat \X Nat : pair[1] < pair[2]}
<1>1. IsWellFoundedOn(Less, Nat)
  BY NatLessThanWellFounded DEF OpToRel
<1>2. PICK x \in T : \A y \in T : ~(<<y, x>> \in Less)
  <2> HIDE DEF Less
  <2> QED BY <1>1, WFMin
<1>3. ASSUME NEW y \in T PROVE x <= y
  <2>1. x \in Nat /\ y \in Nat /\ ~(<<y, x>> \in Less)
    BY <1>2, <1>3
  <2> QED BY <2>1
<1> QED BY <1>3

\* find_command_slot returns a slot in which nothing is issued, or -1.
LEMMA FoundSlotIsFree ==
  ASSUME NEW p, S!find_command_slot(p) # -1
  PROVE  /\ S!find_command_slot(p) \in S!Slots
         /\ ci[p][S!find_command_slot(p)] = S!None
<1> DEFINE free == {s \in S!Slots : ci[p][s] = S!None}
<1>1. free # {} /\ S!find_command_slot(p) = S!Min(free)
  BY DEF S!find_command_slot
<1>2. free \in SUBSET Nat
  BY DEF S!Slots
<1>3. \E x \in free : \A y \in free : x <= y
  <2> HIDE DEF free
  <2> QED BY <1>1, <1>2, LeastSlot
<1>4. S!Min(free) \in free
  <2> HIDE DEF free
  <2> QED BY <1>3 DEF S!Min
<1> QED BY <1>1, <1>4

\* The driver starts with empty command lists.
LEMMA SlotInit == Init => SlotInv
<1> SUFFICES ASSUME Init PROVE SlotInv
  OBVIOUS
<1>1. ci = [p \in S!Ports |-> [s \in S!Slots |-> S!None]] /\ at = "idle"
  BY DEF Init, S!Init, S!NoCommands
<1>2. ci \in [S!Ports -> [S!Slots -> {S!None}]]
  BY <1>1
<1> QED BY <1>1, <1>2 DEF SlotInv, CommandLists, SlotFree

-----------------------------------------------------------------------------
(* Steps that touch the command lists. *)

\* stop_port empties the lists of some ports and leaves the others.
LEMMA StopPort ==
  ASSUME CommandLists, NEW P, S!stop_port(P)
  PROVE  /\ CommandLists'
         /\ OwnedKept
<1>1. PICK C : ci \in [S!Ports -> [S!Slots -> C]]
  BY DEF CommandLists
<1>2. PICK Q : ci' = [p \in S!Ports |-> IF p \in Q THEN S!NoCommands ELSE ci[p]]
  BY DEF S!stop_port
<1>3. ci' \in [S!Ports -> [S!Slots -> C \cup {S!None}]]
  BY <1>1, <1>2 DEF S!NoCommands
<1>4. OwnedKept
  BY <1>2 DEF OwnedKept, S!NoCommands
<1> QED BY <1>3, <1>4 DEF CommandLists

\* One entry is replaced, by nothing or where nothing was.
LEMMA OneEntry ==
  ASSUME CommandLists, NEW p, NEW s, NEW c, ci' = [ci EXCEPT ![p][s] = c],
         c \in {ci[p][s], S!None} \/ ci[p][s] = S!None
  PROVE  CommandLists' /\ OwnedKept
<1>1. PICK C : ci \in [S!Ports -> [S!Slots -> C]]
  BY DEF CommandLists
<1>2. ci' \in [S!Ports -> [S!Slots -> C \cup {c}]]
  BY <1>1
<1>3. OwnedKept
  BY <1>1 DEF OwnedKept
<1> QED BY <1>2, <1>3 DEF CommandLists

\* No step of the SATA driver, or of a controller, breaks the invariant or
\* rewrites a command that is issued.
LEMMA SataStep == SlotInv /\ S!Next => SlotInv' /\ OwnedKept
<1> SUFFICES ASSUME SlotInv, S!Next PROVE SlotInv' /\ OwnedKept
  OBVIOUS
<1> USE DEF SlotInv
<1>0. ASSUME UNCHANGED ci PROVE CommandLists' /\ OwnedKept
  BY <1>0 DEF CommandLists, OwnedKept
<1>1. CASE S!sata_init \/ S!find_and_init_controllers \/ S!ControllerFails
           \/ S!ControllerMapped \/ S!PortSkipped \/ S!PortIdentified \/ S!PortFails
           \/ S!init_controller
  <2>1. UNCHANGED ci /\ at' \notin {"send", "issue", "wait"}
    BY <1>1 DEF S!sata_init, S!find_and_init_controllers, S!ControllerFails,
         S!ControllerMapped, S!PortSkipped, S!PortIdentified, S!PortFails,
         S!init_controller, S!io
  <2> QED BY <1>0, <2>1 DEF SlotFree
<1>2. CASE S!init_port
  <2>1. at' \notin {"send", "issue", "wait"} /\ S!stop_port({S!ThisPort})
    BY <1>2 DEF S!init_port
  <2> QED BY <2>1, StopPort DEF SlotFree
<1>3. CASE S!sata_shutdown
  <2>1. at' \notin {"send", "issue", "wait"} /\ \E P : S!stop_port(P)
    BY <1>3 DEF S!sata_shutdown, S!Idle
  <2> QED BY <2>1, StopPort DEF SlotFree
<1>4. ASSUME NEW op, NEW id, NEW lba, NEW data, S!Request(op, id, lba, data)
      PROVE  SlotInv' /\ OwnedKept
  <2>1. UNCHANGED ci
    BY <1>4 DEF S!Request, S!io
  <2>2. SlotFree'
    <3>1. CASE S!Accepted(id, lba, Len(data))
      <4> DEFINE p == S!PortById(driver, id)
      <4>1. call'.port = p /\ call'.slot = S!find_command_slot(p) /\ at' = "send"
            /\ "seen" \in DOMAIN call'
        BY <1>4, <3>1 DEF S!Request
      <4>2. S!find_command_slot(p) # -1
        BY <3>1 DEF S!Accepted
      <4> HIDE DEF p
      <4> QED BY <2>1, <4>1, <4>2, FoundSlotIsFree DEF SlotFree
    <3>2. CASE ~S!Accepted(id, lba, Len(data))
      BY <1>4, <3>2 DEF S!Request, S!Idle, SlotFree
    <3> QED BY <3>1, <3>2
  <2> QED BY <1>0, <2>1, <2>2
<1>5. CASE S!sata_read \/ S!sata_write \/ S!sata_flush
  BY <1>4, <1>5 DEF S!sata_read, S!sata_write, S!sata_flush
<1>6. CASE S!port_send_command
  <2>1. /\ at = "send" /\ at' = "issue" /\ call' = [call EXCEPT !.seen = ci[call.port]]
        /\ UNCHANGED ci
    BY <1>6 DEF S!port_send_command
  <2>2. call'.port = call.port /\ call'.slot = call.slot /\ DOMAIN call' = DOMAIN call
    BY <2>1
  <2>3. ASSUME call.port \in S!Ports
        PROVE  /\ \E C : call'.seen \in [S!Slots -> C]
               /\ \A s \in S!Slots : ci[call.port][s] \in {S!None, call'.seen[s]}
    <3>1. PICK C : ci \in [S!Ports -> [S!Slots -> C]]
      BY DEF CommandLists
    <3>2. call'.seen = ci[call.port]
      BY <2>1 DEF SlotFree
    <3> QED BY <2>3, <3>1, <3>2
  <2> QED BY <1>0, <2>1, <2>2, <2>3 DEF SlotFree
<1>10. CASE S!IssueCommand
  <2>1. /\ at = "issue" /\ at' = "wait" /\ call' = [call EXCEPT !.seen = S!NoCommands]
        /\ \E c : ci' = [ci EXCEPT ![call.port] = [call.seen EXCEPT ![call.slot] = c]]
    BY <1>10 DEF S!IssueCommand
  <2>2. PICK c : ci' = [ci EXCEPT ![call.port] = [call.seen EXCEPT ![call.slot] = c]]
    BY <2>1
  <2>3. SlotFree'
    <3>1. call'.slot = call.slot /\ DOMAIN call' = DOMAIN call
      BY <2>1
    <3> QED BY <2>1, <3>1 DEF SlotFree
  <2>4. PICK C : ci \in [S!Ports -> [S!Slots -> C]]
    BY DEF CommandLists
  <2>5. CASE call.port \in S!Ports
    <3>1. PICK D : call.seen \in [S!Slots -> D]
      BY <2>1, <2>5 DEF SlotFree
    <3>2. ci' \in [S!Ports -> [S!Slots -> C \cup D \cup {c}]]
      BY <2>2, <2>4, <3>1
    <3>3. OwnedKept
      BY <2>1, <2>2, <2>4, <2>5, <3>1 DEF SlotFree, OwnedKept
    <3> QED BY <2>3, <3>2, <3>3 DEF CommandLists
  <2>6. CASE call.port \notin S!Ports
    <3>1. ci' = ci
      BY <2>2, <2>4, <2>6
    <3> QED BY <1>0, <2>3, <3>1
  <2> QED BY <2>5, <2>6
<1>7. CASE S!AllSent \/ S!WaitTimesOut
  <2>1. UNCHANGED ci /\ at' = "idle"
    BY <1>7 DEF S!AllSent, S!WaitTimesOut, S!Return, S!io
  <2> QED BY <1>0, <2>1 DEF SlotFree
<1>8. CASE S!SlotCleared
  <2>1. UNCHANGED ci /\ ci[call.port][call.slot] = S!None /\ call.slot \in S!Slots
        /\ "seen" \in DOMAIN call
    BY <1>8 DEF S!SlotCleared, SlotFree
  <2>2. at' = "idle" \/ (at' = "send" /\ call' = S!Advanced)
    BY <1>8 DEF S!SlotCleared, S!Return
  <2>3. call' = S!Advanced => call'.port = call.port /\ call'.slot = call.slot
                              /\ DOMAIN call' = DOMAIN call
    BY DEF S!Advanced
  <2> QED BY <1>0, <2>1, <2>2, <2>3 DEF SlotFree
<1>9. ASSUME NEW p \in S!Ports,
             S!EngineStops(p) \/ \E s \in S!Slots : S!HbaExecutes(p, s) \/ S!HbaFails(p, s)
      PROVE  SlotInv' /\ OwnedKept
  <2>1. PICK C : ci \in [S!Ports -> [S!Slots -> C]]
    BY DEF CommandLists
  <2>2. CASE S!EngineStops(p)
    <3>1. ci' = [ci EXCEPT ![p] = [s \in S!Slots |-> S!None]] /\ UNCHANGED <<at, call>>
      BY <2>2 DEF S!EngineStops, S!NoCommands
    <3>2. ci' \in [S!Ports -> [S!Slots -> C \cup {S!None}]]
      BY <2>1, <3>1
    <3>3. OwnedKept
      BY <2>1, <3>1 DEF OwnedKept
    <3>4. at \in {"send", "issue"} => ci'[call.port][call.slot] = S!None
      BY <2>1, <3>1 DEF SlotFree
    <3>5. ASSUME call.port \in S!Ports, NEW s \in S!Slots
          PROVE  ci'[call.port][s] \in {ci[call.port][s], S!None}
      BY <2>1, <3>1, <3>5
    <3>6. SlotFree'
      BY <3>1, <3>4, <3>5 DEF SlotFree
    <3> QED BY <3>2, <3>3, <3>6 DEF CommandLists
  <2>3. ASSUME NEW s \in S!Slots, S!HbaExecutes(p, s) \/ S!HbaFails(p, s)
        PROVE  SlotInv' /\ OwnedKept
    <3>1. /\ UNCHANGED <<at, call>>
          /\ \E c \in {ci[p][s], S!None} : ci' = [ci EXCEPT ![p][s] = c]
      BY <2>3 DEF S!HbaExecutes, S!HbaFails
    <3>2. CommandLists' /\ OwnedKept
      BY <3>1, OneEntry
    <3>3. SlotFree'
      BY <2>1, <3>1 DEF SlotFree
    <3> QED BY <3>2, <3>3
  <2> QED BY <1>9, <2>2, <2>3
<1> QED BY <1>1, <1>2, <1>3, <1>5, <1>6, <1>7, <1>8, <1>9, <1>10
        DEF S!Next, S!DriverStep, S!wait_for_command_completion

\* Nor does a step of the whole: while NVMe is in use SATA stands still.
LEMMA SlotNext == SlotInv /\ [Next]_vars => SlotInv' /\ OwnedKept
<1> SUFFICES ASSUME SlotInv, [Next]_vars PROVE SlotInv' /\ OwnedKept
  OBVIOUS
<1>1. CASE S!Next
  BY <1>1, SataStep
<1>2. CASE UNCHANGED sata
  <2>1. UNCHANGED <<ci, at, call>>
    BY <1>2 DEF sata
  <2> QED BY <2>1 DEF SlotInv, CommandLists, SlotFree, OwnedKept
<1> QED BY <1>1, <1>2 DEF Next, vars

\* The command in a slot is never rewritten while the controller owns the slot,
\* also not after the call that issued it gave up.
THEOREM SataSlotsOwned == Spec => SlotsOwned
<1>1. SlotInv /\ [Next]_vars => [OwnedKept]_S!vars
  BY SlotNext
<1>2. Spec => [][OwnedKept]_S!vars
  BY <1>1, SlotInit, SlotNext, PTL DEF Spec
<1> QED BY <1>2 DEF SlotsOwned, S!SlotsOwned, OwnedKept

-----------------------------------------------------------------------------
(* The memory of the NVMe driver. *)

\* What the driver holds for controller i, whose set-up ended in this way, while
\* k requests to it are under way.
Holds(i, h, ended, k) ==
  /\ h \in [N!Things -> Int]
  /\ \A b \in 0..6 : h[b] = IF b \in N!LeftBy(ended) THEN 1 ELSE 0
  /\ h[7] = k
  /\ h[8] = IF i \in LargeBars /\ ended # "unmapped" THEN 1 ELSE 0

Bits == {0, 1}
Endings == {"unmapped", "identify", "admin", "io", "up", "down"}
ControllerType ==
  [ended : Endings, initialized : BOOLEAN, ns : BOOLEAN, sq_tail : Bits, phase : Bits,
   held : [N!Things -> Int]]
ControllerOk(i, c, k) ==
  /\ c \in ControllerType
  /\ c.initialized <=> c.ended = "up"
  /\ Holds(i, c.held, c.ended, k)

\* The request under way, if any, is made to one of the controllers.
UnderWay(i) == IF pc = "poll" /\ req.i = i THEN 1 ELSE 0

DmaInv ==
  /\ pc \in {"boot", "idle", "poll"}
  /\ controllers = [i \in DOMAIN controllers |-> controllers[i]]
  /\ \A i \in DOMAIN controllers : ControllerOk(i, controllers[i], UnderWay(i))

\* A buffer that is freed after it was allocated leaves no trace.
LEMMA AllocFree ==
  ASSUME NEW h \in [N!Things -> Int], NEW B
  PROVE  /\ N!nvme_alloc_dma(h, B) \in [N!Things -> Int]
         /\ N!nvme_free_dma(h, B) \in [N!Things -> Int]
         /\ N!nvme_free_dma(N!nvme_alloc_dma(h, B), B) = h
BY DEF N!nvme_alloc_dma, N!nvme_free_dma

\* nvme_simple_identify gives back all it took, whichever of its exits it takes.
LEMMA IdentifyNeutral ==
  ASSUME NEW h \in [N!Things -> Int], NEW x \in N!nvme_simple_identify(h)
  PROVE  x.held = h
<1>1. PICK y \in N!IdentifyExits :
        x.held = N!nvme_free_dma(N!nvme_alloc_dma(h, N!IdentifyAllocates(y[1], y[2])),
                                 N!IdentifyFrees(y[1], y[2]))
  BY DEF N!nvme_simple_identify
<1>2. PICK exit, got : y[1] = exit /\ y[2] = got
  OBVIOUS
<1>3. /\ exit \in {"queues", "ready", "data", "timeout", "status", "done"}
      /\ (exit = "queues") <=> (got # {5, 6})
  BY <1>2 DEF N!IdentifyExits
<1>4. N!IdentifyAllocates(exit, got) = N!IdentifyFrees(exit, got)
  <2>1. CASE exit = "queues"
    BY <2>1 DEF N!IdentifyAllocates, N!IdentifyFrees
  <2>2. CASE exit \in {"ready", "data"}
    BY <1>3, <2>2 DEF N!IdentifyAllocates, N!IdentifyFrees
  <2>3. CASE exit \in {"timeout", "status", "done"}
    BY <1>3, <2>3 DEF N!IdentifyAllocates, N!IdentifyFrees
  <2> QED BY <1>3, <2>1, <2>2, <2>3
<1> QED BY <1>1, <1>2, <1>4, AllocFree

\* Two queues are both there or neither is.
LEMMA QueuePairs ==
  ASSUME NEW h \in [N!Things -> Int], NEW first \in 1..3
  PROVE  /\ N!TwoQueues(h, first, 0) = h
         /\ N!TwoQueues(h, first, 1) = h
         /\ N!TwoQueues(h, first, 2) =
              [b \in N!Things |-> IF b \in {first, first + 1} THEN h[b] + 1 ELSE h[b]]
<1>1. first..first + 0 - 1 = {} /\ first..first + 1 - 1 = {first}
      /\ first..first + 2 - 1 = {first, first + 1}
  OBVIOUS
<1>2. N!TwoQueues(h, first, 0) = h
  BY <1>1 DEF N!TwoQueues, N!nvme_alloc_dma
<1>3. N!TwoQueues(h, first, 1) = h
  BY <1>1, AllocFree DEF N!TwoQueues
<1>4. N!TwoQueues(h, first, 2) =
        [b \in N!Things |-> IF b \in {first, first + 1} THEN h[b] + 1 ELSE h[b]]
  BY <1>1 DEF N!TwoQueues, N!nvme_alloc_dma
<1> QED BY <1>2, <1>3, <1>4

\* What each way to end leaves.
LEMMA Left ==
  /\ N!LeftBy("unmapped") = {} /\ N!LeftBy("down") = {}
  /\ N!LeftBy("identify") = {0} /\ N!LeftBy("admin") = {0}
  /\ N!LeftBy("io") = {0, 1, 2} /\ N!LeftBy("up") = {0, 1, 2, 3, 4}
BY DEF N!LeftBy, N!Queues

\* However the set-up of a controller ends, it holds what it should.
LEMMA SetupExact ==
  ASSUME NEW i, NEW o \in N!Outcomes(i)
  PROVE  ControllerOk(i, o.c, 0)
<1> DEFINE zero == [b \in N!Things |-> 0]
           h0 == N!Registers(i)
           h2 == N!nvme_setup_admin_queues(h0, 2)
           h4 == N!nvme_create_io_queues(h2, 2)
           up == [N!NewController EXCEPT !.initialized = TRUE, !.held = h4, !.ended = "up"]
<1>1. N!NewController \in ControllerType /\ N!NewController.held = zero
      /\ N!NewController.initialized = FALSE /\ N!NewController.ended = "unmapped"
  BY DEF N!NewController, ControllerType, Bits, Endings
<1>2. /\ h0 \in [N!Things -> Int]
      /\ h0[0] = 1 /\ \A b \in 1..7 : h0[b] = 0
      /\ h0[8] = IF i \in LargeBars THEN 1 ELSE 0
  BY DEF N!Registers, N!Things
<1> HIDE DEF h0
<1>3. h2 = [b \in N!Things |-> IF b \in {1, 2} THEN h0[b] + 1 ELSE h0[b]]
  BY <1>2, QueuePairs DEF N!nvme_setup_admin_queues
<1>4. h2 \in [N!Things -> Int] /\ h2[0] = 1 /\ h2[1] = 1 /\ h2[2] = 1
      /\ (\A b \in 3..7 : h2[b] = 0) /\ h2[8] = h0[8]
  BY <1>2, <1>3 DEF N!Things
<1> HIDE DEF h2
<1>5. h4 = [b \in N!Things |-> IF b \in {3, 4} THEN h2[b] + 1 ELSE h2[b]]
  BY <1>4, QueuePairs DEF N!nvme_create_io_queues
<1>6. h4 \in [N!Things -> Int] /\ h4[0] = 1 /\ (\A b \in 1..4 : h4[b] = 1)
      /\ (\A b \in 5..7 : h4[b] = 0) /\ h4[8] = h0[8]
  BY <1>4, <1>5 DEF N!Things
<1> HIDE DEF h4
<1>7. /\ Holds(i, zero, "unmapped", 0)
      /\ Holds(i, h0, "identify", 0) /\ Holds(i, h0, "admin", 0)
      /\ Holds(i, h2, "io", 0) /\ Holds(i, h4, "up", 0)
  <2>1. Holds(i, zero, "unmapped", 0)
    BY Left DEF Holds, N!Things
  <2>2. Holds(i, h0, "identify", 0) /\ Holds(i, h0, "admin", 0)
    BY Left, <1>2 DEF Holds
  <2>3. Holds(i, h2, "io", 0)
    BY Left, <1>2, <1>4 DEF Holds
  <2>4. Holds(i, h4, "up", 0)
    BY Left, <1>2, <1>6 DEF Holds
  <2> QED BY <2>1, <2>2, <2>3, <2>4
<1>8. \A h : \A step \in {"identify", "admin", "io"} :
        Holds(i, h, step, 0) => ControllerOk(i, N!Failed(h, step).c, 0)
  <2> SUFFICES ASSUME NEW h, NEW step \in {"identify", "admin", "io"}, Holds(i, h, step, 0)
               PROVE  ControllerOk(i, N!Failed(h, step).c, 0)
    OBVIOUS
  <2>1. h \in [N!Things -> Int]
    BY DEF Holds
  <2> QED BY <1>1, <2>1 DEF N!Failed, ControllerOk, ControllerType, Endings
<1>9. ControllerOk(i, up, 0)
  BY <1>1, <1>6, <1>7 DEF ControllerOk, ControllerType, Endings
<1> HIDE DEF up
<1>10. \A d, a : ControllerOk(i, N!nvme_identify_namespace(up, d, a).c, 0)
  <2> SUFFICES ASSUME NEW d, NEW a
               PROVE  ControllerOk(i, N!nvme_identify_namespace(up, d, a).c, 0)
    OBVIOUS
  <2>1. N!nvme_identify_namespace(up, d, a).c =
          [up EXCEPT !.ns = TRUE, !.phase = IF a = "good" THEN 0 ELSE 1,
                     !.held = N!nvme_free_dma(N!nvme_alloc_dma(up.held, {7}), {7})]
    BY DEF N!nvme_identify_namespace
  <2>2. N!nvme_free_dma(N!nvme_alloc_dma(up.held, {7}), {7}) = up.held
    BY <1>9, AllocFree DEF ControllerOk, Holds
  <2>3. up.held \in [N!Things -> Int]
    BY <1>9 DEF ControllerOk, Holds
  <2> QED BY <1>9, <2>1, <2>2, <2>3 DEF ControllerOk, ControllerType, Bits
<1>11. \A n \in 0..1 : N!nvme_setup_admin_queues(h0, n) = h0 /\ N!nvme_create_io_queues(h2, n) = h2
  <2>1. \A n \in 0..1 : n = 0 \/ n = 1
    OBVIOUS
  <2> QED BY <2>1, <1>2, <1>4, QueuePairs
          DEF N!nvme_setup_admin_queues, N!nvme_create_io_queues
<1>12. CASE o = N!NoRegisters
  BY <1>1, <1>7, <1>12 DEF N!NoRegisters, ControllerOk
<1>13. CASE o \in N!nvme_init_controller(i)
  <2>1. PICK x \in N!nvme_simple_identify(h0) :
          o \in IF x.ok THEN N!AfterIdentify(x.held) ELSE {N!Failed(x.held, "identify")}
    BY <1>13 DEF N!nvme_init_controller, h0
  <2>2. x.held = h0
    BY <1>2, IdentifyNeutral
  <2>3. CASE o = N!Failed(h0, "identify")
    BY <1>7, <1>8, <2>3
  <2>4. CASE o \in N!AfterIdentify(h0)
    <3>1. CASE o \in {N!Failed(N!nvme_setup_admin_queues(h0, n), "admin") : n \in 0..1}
      BY <1>7, <1>8, <1>11, <3>1
    <3>2. CASE o \in {N!Failed(N!nvme_create_io_queues(h2, n), "io") : n \in 0..1}
      BY <1>7, <1>8, <1>11, <3>2
    <3>3. CASE o = [c |-> up, d |-> N!NewDevice]
      BY <1>9, <3>3
    <3>4. CASE o \in {N!nvme_identify_namespace(up, N!NewDevice, a) : a \in {"good", "bad", "late"}}
      BY <1>10, <3>4
    <3> QED BY <2>4, <3>1, <3>2, <3>3, <3>4 DEF N!AfterIdentify, up, h4, h2
  <2> QED BY <2>1, <2>2, <2>3, <2>4
<1> QED BY <1>12, <1>13 DEF N!Outcomes

\* Before nvme_init there are no controllers.
LEMMA DmaInit == Init => DmaInv
BY DEF Init, N!Init, DmaInv

\* Requests take one data buffer and give it back, on every way out; a shutdown
\* frees what is held, once.
LEMMA NvmeStep == DmaInv /\ N!Next => DmaInv'
<1> SUFFICES ASSUME DmaInv, N!Next PROVE DmaInv'
  OBVIOUS
<1> USE DEF DmaInv
<1>1. CASE N!nvme_init
  <2> DEFINE found == N!pci_find_devices(bus, "nvme")
             count == IF Len(found) > NVME_MAX_DEVICES THEN NVME_MAX_DEVICES ELSE Len(found)
  <2>1. PICK outcome \in [1..count -> UNION {N!Outcomes(i) : i \in 1..count}] :
          /\ \A i \in 1..count : outcome[i] \in N!Outcomes(i)
          /\ controllers' = [i \in 1..count |-> outcome[i].c]
    BY <1>1 DEF N!nvme_init
  <2> HIDE DEF count
  <2>2. pc' = "idle"
    BY <1>1 DEF N!nvme_init
  <2> QED BY <2>1, <2>2, SetupExact DEF UnderWay
<1>2. CASE N!nvme_shutdown
  <2>1. /\ pc = "idle" /\ pc' = pc
        /\ DOMAIN controllers' = DOMAIN controllers
        /\ controllers' = [i \in DOMAIN controllers |->
             IF i <= device_count /\ controllers[i].initialized
               THEN [controllers[i] EXCEPT !.initialized = FALSE, !.ended = "down",
                       !.held = N!nvme_free_dma(controllers[i].held, {0} \cup N!Queues)]
               ELSE controllers[i]]
    BY <1>2 DEF N!nvme_shutdown, N!Idle
  <2>2. ASSUME NEW i, NEW c, ControllerOk(i, c, 0), c.initialized
        PROVE  ControllerOk(i, [c EXCEPT !.initialized = FALSE, !.ended = "down",
                                  !.held = N!nvme_free_dma(c.held, {0} \cup N!Queues)], 0)
    <3>1. c \in ControllerType /\ c.held \in [N!Things -> Int] /\ Holds(i, c.held, "up", 0)
      BY <2>2 DEF ControllerOk, Holds
    <3>2. PICK h : h = N!nvme_free_dma(c.held, {0, 1, 2, 3, 4})
      OBVIOUS
    <3>3. h \in [N!Things -> Int] /\ Holds(i, h, "down", 0)
      BY <3>1, <3>2, Left, AllocFree DEF Holds, N!nvme_free_dma, N!Things
    <3>4. h = N!nvme_free_dma(c.held, {0} \cup N!Queues)
      <4>1. {0} \cup N!Queues = {0, 1, 2, 3, 4}
        BY DEF N!Queues
      <4> QED BY <3>2, <4>1
    <3> QED BY <3>1, <3>3, <3>4 DEF ControllerOk, ControllerType, Endings
  <2> QED BY <2>1, <2>2 DEF UnderWay
<1>3. ASSUME UNCHANGED <<controllers, pc, req>> PROVE DmaInv'
  BY <1>3 DEF UnderWay
<1>4. ASSUME NEW i, N!RequestFails \/ N!nvme_flush(i) PROVE DmaInv'
  BY <1>3, <1>4 DEF N!RequestFails, N!nvme_flush
<1>5. ASSUME NEW i, NEW c, NEW ok, N!Completes(i, c, ok) PROVE DmaInv'
  BY <1>3, <1>5 DEF N!Completes
<1>6. ASSUME NEW i, NEW c, NEW ended, NEW k \in Int, Holds(i, c, ended, k)
      PROVE  /\ Holds(i, N!nvme_alloc_dma(c, {7}), ended, k + 1)
             /\ Holds(i, N!nvme_free_dma(c, {7}), ended, k - 1)
  <2>1. c \in [N!Things -> Int]
    BY <1>6 DEF Holds
  <2>2. \A b \in 0..6 : b \in N!Things /\ b # 7
    BY DEF N!Things
  <2>3. 7 \in N!Things /\ 8 \in N!Things
    BY DEF N!Things
  <2>4. Holds(i, N!nvme_alloc_dma(c, {7}), ended, k + 1)
    BY <1>6, <2>1, <2>2, <2>3, AllocFree DEF Holds, N!nvme_alloc_dma
  <2>5. Holds(i, N!nvme_free_dma(c, {7}), ended, k - 1)
    BY <1>6, <2>1, <2>2, <2>3, AllocFree DEF Holds, N!nvme_free_dma
  <2> QED BY <2>4, <2>5
<1>7. ASSUME NEW i \in DOMAIN controllers, NEW tail \in Bits, NEW phase \in Bits,
             pc = "idle", pc' = "poll", req'.i = i,
             controllers' = [controllers EXCEPT ![i] =
               [controllers[i] EXCEPT !.sq_tail = tail, !.phase = phase,
                                      !.held = N!nvme_alloc_dma(controllers[i].held, {7})]]
      PROVE  DmaInv'
  <2>1. ControllerOk(i, controllers[i], 0) /\ UnderWay(i)' = 1
    BY <1>7 DEF UnderWay
  <2>2. /\ controllers[i] \in ControllerType
        /\ Holds(i, N!nvme_alloc_dma(controllers[i].held, {7}), controllers[i].ended, 1)
    <3>1. Holds(i, controllers[i].held, controllers[i].ended, 0)
      BY <2>1 DEF ControllerOk
    <3>2. Holds(i, N!nvme_alloc_dma(controllers[i].held, {7}), controllers[i].ended, 0 + 1)
      BY <3>1, <1>6
    <3> QED BY <2>1, <3>2 DEF ControllerOk
  <2>3. ControllerOk(i, controllers'[i], 1)
    BY <1>7, <2>2 DEF ControllerOk, ControllerType, Holds
  <2>4. \A j \in DOMAIN controllers : j # i =>
          controllers'[j] = controllers[j] /\ UnderWay(j)' = 0 /\ UnderWay(j) = 0
    BY <1>7 DEF UnderWay
  <2>5. DOMAIN controllers' = DOMAIN controllers
        /\ controllers' = [j \in DOMAIN controllers |-> controllers'[j]]
    BY <1>7
  <2> QED BY <1>7, <2>1, <2>3, <2>4, <2>5
<1>8. ASSUME NEW i \in DOMAIN controllers, NEW lba, N!nvme_read(i, lba) PROVE DmaInv'
  <2>1. pc = "idle" /\ pc' = "poll" /\ req'.i = i
    BY <1>8 DEF N!nvme_read, N!Idle
  <2>2. controllers' = [controllers EXCEPT ![i] =
          [controllers[i] EXCEPT !.sq_tail = 1, !.phase = 1,
                                 !.held = N!nvme_alloc_dma(controllers[i].held, {7})]]
    BY <1>8 DEF N!nvme_read
  <2> QED BY <1>7, <2>1, <2>2 DEF Bits
<1>9. ASSUME NEW i \in DOMAIN controllers, NEW lba, NEW v, N!nvme_write(i, lba, v)
      PROVE  DmaInv'
  <2>1. pc = "idle" /\ pc' = "poll" /\ req'.i = i
    BY <1>9 DEF N!nvme_write, N!Idle
  <2>2. controllers[i] \in ControllerType
    BY DEF ControllerOk
  <2>3. controllers' = [controllers EXCEPT ![i] =
          [controllers[i] EXCEPT !.sq_tail = 0, !.phase = controllers[i].phase,
                                 !.held = N!nvme_alloc_dma(controllers[i].held, {7})]]
    BY <1>9, <2>2 DEF N!nvme_write, ControllerType
  <2>4. controllers[i].phase \in Bits
    BY <2>2 DEF ControllerType
  <2> QED BY <1>7, <2>1, <2>3, <2>4 DEF Bits
<1>10. CASE N!DriverStep
  <2> DEFINE i == req.i
             freed == N!nvme_free_dma(controllers[i].held, {7})
  <2>1. pc = "poll" /\ pc' = "idle"
    BY <1>10 DEF N!DriverStep, N!ReadEnds, N!WriteDone, N!WriteTimesOut, N!Returns
  <2>2. \/ controllers' = [controllers EXCEPT ![i] = [controllers[i] EXCEPT !.held = freed]]
        \/ controllers' = [controllers EXCEPT ![i] =
             [[controllers[i] EXCEPT !.held = freed] EXCEPT !.phase = 1 - controllers[i].phase]]
    BY <1>10 DEF N!DriverStep, N!ReadEnds, N!WriteDone, N!WriteTimesOut, N!FreeData
  <2> HIDE DEF i
  <2>3. ASSUME i \in DOMAIN controllers PROVE ControllerOk(i, controllers'[i], 0)
    <3>1. ControllerOk(i, controllers[i], 1)
      BY <2>1, <2>3 DEF UnderWay, i
    <3>2. controllers[i] \in ControllerType /\ Holds(i, freed, controllers[i].ended, 0)
      <4>1. controllers[i] \in ControllerType
            /\ Holds(i, controllers[i].held, controllers[i].ended, 1)
        BY <3>1 DEF ControllerOk
      <4>2. Holds(i, freed, controllers[i].ended, 1 - 1)
        BY <4>1, <1>6
      <4> QED BY <4>1, <4>2
    <3>3. freed \in [N!Things -> Int]
      BY <3>2 DEF Holds
    <3>4. 1 - controllers[i].phase \in Bits
      BY <3>2 DEF ControllerType, Bits
    <3> HIDE DEF freed
    <3>5. /\ controllers'[i] \in ControllerType /\ controllers'[i].held = freed
          /\ controllers'[i].initialized = controllers[i].initialized
          /\ controllers'[i].ended = controllers[i].ended
      <4>1. PICK c : c = controllers[i] /\ c \in ControllerType
        BY <3>2
      <4>2. PICK phase \in Bits :
              controllers'[i] = [[c EXCEPT !.held = freed] EXCEPT !.phase = phase]
        <5>1. CASE controllers' = [controllers EXCEPT ![i] = [controllers[i] EXCEPT !.held = freed]]
          <6>1. controllers'[i] = [c EXCEPT !.held = freed] /\ c.phase \in Bits
            BY <2>3, <4>1, <5>1 DEF ControllerType
          <6>2. controllers'[i] = [[c EXCEPT !.held = freed] EXCEPT !.phase = c.phase]
            BY <4>1, <6>1 DEF ControllerType
          <6> QED BY <6>1, <6>2
        <5>2. CASE controllers' = [controllers EXCEPT ![i] =
             [[controllers[i] EXCEPT !.held = freed] EXCEPT !.phase = 1 - controllers[i].phase]]
          BY <2>3, <3>4, <4>1, <5>2
        <5> QED BY <2>2, <5>1, <5>2
      <4> QED BY <3>3, <4>1, <4>2 DEF ControllerType
    <3> QED BY <3>1, <3>2, <3>5 DEF ControllerOk
  <2>4. \A j \in DOMAIN controllers :
          UnderWay(j)' = 0 /\ (j # i => controllers'[j] = controllers[j] /\ UnderWay(j) = 0)
    BY <2>1, <2>2 DEF UnderWay, i
  <2>5. DOMAIN controllers' = DOMAIN controllers
        /\ controllers' = [j \in DOMAIN controllers |-> controllers'[j]]
    BY <2>2
  <2> QED BY <2>1, <2>3, <2>4, <2>5
<1> QED BY <1>1, <1>2, <1>4, <1>5, <1>8, <1>9, <1>10 DEF N!Next

\* Nor does a step of the whole: while SATA is in use NVMe stands still.
LEMMA DmaNext == DmaInv /\ [Next]_vars => DmaInv'
<1> SUFFICES ASSUME DmaInv, [Next]_vars PROVE DmaInv'
  OBVIOUS
<1>1. CASE N!Next
  BY <1>1, NvmeStep
<1>2. CASE UNCHANGED nvme
  <2>1. UNCHANGED <<controllers, pc, req>>
    BY <1>2 DEF nvme
  <2> QED BY <2>1 DEF DmaInv, UnderWay
<1> QED BY <1>1, <1>2 DEF Next, vars

\* Between calls the driver holds for each controller exactly what the way its
\* set-up ended leaves, each thing once, on every path of nvme_init, of the
\* requests and of nvme_shutdown: what a failed set-up keeps is never given back,
\* no data buffer is lost or freed twice, and only controllers that are up are used.
THEOREM NvmeMemoryExact == Spec => []NvmeDmaExact
<1>1. DmaInv => NvmeDmaExact
  <2> SUFFICES ASSUME DmaInv, pc = "idle", NEW i \in DOMAIN controllers, NEW c, c = controllers[i]
               PROVE  /\ c.initialized <=> c.ended = "up"
                      /\ \A b \in 0..7 : c.held[b] = IF b \in N!LeftBy(c.ended) THEN 1 ELSE 0
                      /\ c.held[8] = IF i \in LargeBars /\ c.ended # "unmapped" THEN 1 ELSE 0
    BY DEF NvmeDmaExact, N!DmaExact, N!Idle
  <2>1. ControllerOk(i, c, 0)
    BY DEF DmaInv, UnderWay
  <2>2. c.ended \in Endings
    BY <2>1 DEF ControllerOk, ControllerType
  <2>3. 7 \notin N!LeftBy(c.ended)
    BY <2>2, Left DEF Endings
  <2> QED BY <2>1, <2>3 DEF ControllerOk, Holds
<1> QED BY <1>1, DmaInit, DmaNext, PTL DEF Spec

-----------------------------------------------------------------------------
(* Which completion the poll of a write takes for its own. *)

Numbers == Values \cup {0}
Cmd == [op : {"read", "write", "identify"}, lba : 0..Blocks - 1, v : Numbers, id : Nat, req : Nat]
Answer == [id : Nat, phase : Bits, ok : BOOLEAN]
DeviceType ==
  [sq : [0..1 -> Cmd \cup {N!Nothing}], cq : Answer \cup {N!Nothing}, phase : Bits,
   taken : SUBSET Cmd, disk : [0..Blocks - 1 -> Numbers]]

\* The identifiers that reads and the set-up of a namespace use.
Shared == {1, IdentifyId}

\* The commands that a controller has taken or may find in its queue.
Known(d) == (d.taken \cup {d.sq[0], d.sq[1]}) \ {N!Nothing}

\* Identifiers of writes are below the counter, until the last request is made.
OldIds(d) ==
  /\ \A c \in Known(d) : c.id \in Shared \/ c.id < cmd_id
  /\ d.cq # N!Nothing => d.cq.id \in Shared \/ d.cq.id < cmd_id

\* The write under way: nobody else's command has its identifier, and once the
\* answer with it is there the data is stored.
OwnWrite(d) ==
  /\ \A c \in Known(d) : c.id = req.id =>
       c.op = "write" /\ c.lba = req.lba /\ c.v = req.v /\ c.req = requests - 1
  /\ d.cq # N!Nothing /\ d.cq.id = req.id /\ d.cq.ok => d.disk[req.lba] = req.v

Writing == pc = "poll" /\ req.op = "write" /\ req.id \notin Shared

WriteInv ==
  /\ cmd_id \in Nat \ {0} /\ requests \in Nat
  /\ requests < MaxRequests => cmd_id <= requests + 1
  /\ dev = [i \in DOMAIN controllers |-> dev[i]]
  /\ DOMAIN dev = DOMAIN controllers
  /\ \A i \in DOMAIN dev : dev[i] \in DeviceType
  /\ requests < MaxRequests => \A i \in DOMAIN dev : OldIds(dev[i])
  /\ pc = "poll" => req # N!Nothing
  /\ Writing => /\ req.i \in DOMAIN dev
                /\ req.lba \in 0..Blocks - 1
                /\ OwnWrite(dev[req.i])

\* A command is not the empty entry.
LEMMA CommandIsThere == \A c \in Cmd : c # N!Nothing
<1> SUFFICES ASSUME NEW c \in Cmd, c = <<>> PROVE FALSE
  BY DEF N!Nothing
<1>1. "op" \in DOMAIN c /\ DOMAIN c = {}
  BY DEF Cmd
<1> QED BY <1>1

\* The doorbell makes the controller take an entry of its queue.
LEMMA SubmitEntry ==
  ASSUME NEW d \in DeviceType, NEW c \in Cmd, NEW k \in 0..1,
         NEW sq, sq = [d.sq EXCEPT ![k] = c], NEW e, e = N!Doorbell(d, sq)
  PROVE  /\ e \in DeviceType /\ e.cq = d.cq /\ e.disk = d.disk
         /\ Known(e) \subseteq Known(d) \cup {c}
<1>1. d.sq \in [0..1 -> Cmd \cup {N!Nothing}] /\ d.taken \in SUBSET Cmd
  BY DEF DeviceType
<1>3. sq \in [0..1 -> Cmd \cup {N!Nothing}] /\ \A j \in 0..1 : sq[j] = d.sq[j] \/ sq[j] = c
  BY <1>1
<1>4. sq[0] \in {d.sq[0], c} /\ sq[1] \in {d.sq[1], c}
  BY <1>3
<1>5. e = [d EXCEPT !.sq = sq, !.taken = d.taken \cup ({sq[0]} \ {N!Nothing})]
  BY DEF N!Doorbell
<1>6. d.taken \cup ({sq[0]} \ {N!Nothing}) \in SUBSET Cmd
  BY <1>1, <1>3
<1>7. /\ e.sq = sq /\ e.taken = d.taken \cup ({sq[0]} \ {N!Nothing})
      /\ e.cq = d.cq /\ e.disk = d.disk
  BY <1>5 DEF DeviceType
<1>8. e \in DeviceType
  BY <1>3, <1>5, <1>6 DEF DeviceType
<1> QED BY <1>4, <1>7, <1>8 DEF Known

\* A completion is posted and the command is no longer known as taken.
LEMMA CompleteEntry ==
  ASSUME NEW d \in DeviceType, NEW c \in d.taken, NEW ok \in BOOLEAN, NEW v \in Numbers,
         NEW e, e = N!Completed(d, c, ok, v)
  PROVE  /\ e \in DeviceType /\ Known(e) \subseteq Known(d) /\ c \in Known(d) /\ c \in Cmd
         /\ e.cq = [id |-> c.id, phase |-> d.phase, ok |-> ok]
         /\ ok /\ c.op = "write" => e.disk = [d.disk EXCEPT ![c.lba] = v]
<1>1. /\ d.sq \in [0..1 -> Cmd \cup {N!Nothing}] /\ d.taken \in SUBSET Cmd
      /\ d.phase \in Bits /\ d.disk \in [0..Blocks - 1 -> Numbers]
  BY DEF DeviceType
<1>2. c \in Cmd /\ c \in Known(d)
  BY <1>1, CommandIsThere DEF Known
<1>3. PICK disk2 : disk2 = IF ok /\ c.op = "write" THEN [d.disk EXCEPT ![c.lba] = v] ELSE d.disk
  OBVIOUS
<1>4. disk2 \in [0..Blocks - 1 -> Numbers]
  BY <1>1, <1>3
<1>5. PICK a : a = [id |-> c.id, phase |-> d.phase, ok |-> ok]
  OBVIOUS
<1>6. a \in Answer
  BY <1>1, <1>2, <1>5 DEF Cmd, Answer
<1>7. 1 - d.phase \in Bits
  BY <1>1 DEF Bits
<1>8. e = [d EXCEPT !.taken = d.taken \ {c}, !.disk = disk2, !.cq = a, !.phase = 1 - d.phase]
  BY <1>3, <1>5 DEF N!Completed
<1>9. e.taken = d.taken \ {c} /\ e.disk = disk2 /\ e.cq = a /\ e.sq = d.sq
  BY <1>8 DEF DeviceType
<1>10. e \in DeviceType
  BY <1>1, <1>4, <1>6, <1>7, <1>8 DEF DeviceType
<1>11. Known(e) \subseteq Known(d)
  BY <1>9 DEF Known
<1> QED BY <1>2, <1>3, <1>5, <1>9, <1>10, <1>11

\* After the set-up the only identifier about is the one of its command.
LEMMA SetupDevices ==
  ASSUME NEW i, NEW o \in N!Outcomes(i)
  PROVE  /\ o.d \in DeviceType
         /\ \A c \in Known(o.d) : c.id = IdentifyId
         /\ o.d.cq # N!Nothing => o.d.cq.id = IdentifyId
<1>1. 0 \in 0..Blocks - 1 /\ IdentifyId \in Nat /\ 0 \in Numbers
  BY StorageAssumption DEF Numbers
<1>2. /\ N!NewDevice \in DeviceType
      /\ N!NewDevice.sq = [j \in 0..1 |-> N!Nothing] /\ N!NewDevice.taken = {}
      /\ N!NewDevice.cq = N!Nothing
  BY <1>1 DEF N!NewDevice, DeviceType, Bits
<1>3. Known(N!NewDevice) = {}
  BY <1>2 DEF Known
<1>4. CASE o.d = N!NewDevice
  BY <1>2, <1>3, <1>4
<1>5. CASE \E up, a : o.d = N!nvme_identify_namespace(up, N!NewDevice, a).d
  <2>1. PICK up, a : o.d = N!nvme_identify_namespace(up, N!NewDevice, a).d
    BY <1>5
  <2>2. PICK cmd : cmd = [id |-> IdentifyId, op |-> "identify", lba |-> 0, v |-> 0, req |-> 0]
    OBVIOUS
  <2>3. cmd \in Cmd /\ cmd.id = IdentifyId
    BY <1>1, <2>2 DEF Cmd
  <2>4. PICK sq : sq = [N!NewDevice.sq EXCEPT ![0] = cmd]
    OBVIOUS
  <2>5. sq \in [0..1 -> Cmd \cup {N!Nothing}] /\ sq[0] = cmd /\ sq[1] = N!Nothing
    BY <1>2, <2>3, <2>4
  <2>6. PICK ans : ans = [id |-> IdentifyId, phase |-> 1, ok |-> a = "good"]
    OBVIOUS
  <2>7. ans \in Answer /\ ans.id = IdentifyId
    BY <1>1, <2>6 DEF Answer, Bits
  <2>8. o.d = IF a = "late" THEN [N!NewDevice EXCEPT !.sq = sq, !.taken = {cmd}]
                            ELSE [N!NewDevice EXCEPT !.sq = sq, !.phase = 0, !.cq = ans]
    BY <2>1, <2>2, <2>4, <2>6 DEF N!nvme_identify_namespace
  <2>9. CASE a = "late"
    <3>1. o.d \in DeviceType /\ o.d.sq = sq /\ o.d.taken = {cmd} /\ o.d.cq = N!Nothing
      <4>1. PICK t : t = {cmd} /\ t \in SUBSET Cmd
        BY <2>3
      <4>2. o.d = [N!NewDevice EXCEPT !.sq = sq, !.taken = t]
        BY <2>8, <2>9, <4>1
      <4> QED BY <1>2, <2>5, <4>1, <4>2 DEF DeviceType
    <3> QED BY <2>3, <2>5, <3>1 DEF Known
  <2>10. CASE a # "late"
    <3>1. o.d \in DeviceType /\ o.d.sq = sq /\ o.d.taken = {} /\ o.d.cq = ans
      BY <1>2, <2>5, <2>7, <2>8, <2>10 DEF DeviceType, Bits
    <3> QED BY <2>3, <2>5, <2>7, <3>1 DEF Known
  <2> QED BY <2>9, <2>10
<1>6. o.d = N!NewDevice \/ \E up, a : o.d = N!nvme_identify_namespace(up, N!NewDevice, a).d
  <2>1. CASE o = N!NoRegisters
    BY <2>1 DEF N!NoRegisters
  <2>2. CASE o \in N!nvme_init_controller(i)
    <3>1. PICK h : o \in N!AfterIdentify(h) \/ o = N!Failed(h, "identify")
      BY <2>2 DEF N!nvme_init_controller
    <3>2. CASE o = N!Failed(h, "identify")
      BY <3>2 DEF N!Failed
    <3>3. CASE o \in N!AfterIdentify(h)
      BY <3>3 DEF N!AfterIdentify, N!Failed
    <3> QED BY <3>1, <3>2, <3>3
  <2> QED BY <2>1, <2>2 DEF N!Outcomes
<1> QED BY <1>4, <1>5, <1>6

\* Before nvme_init there are no commands.
LEMMA WriteInit == Init => WriteInv
BY DEF Init, N!Init, WriteInv, Writing

\* Every step of the driver and of its controllers keeps the identifiers apart.
LEMMA WriteStep == DmaInv /\ WriteInv /\ N!Next => WriteInv'
<1> SUFFICES ASSUME DmaInv, WriteInv, N!Next PROVE WriteInv'
  OBVIOUS
<1>1. /\ cmd_id \in Nat \ {0} /\ requests \in Nat /\ MaxRequests \in Nat /\ MaxId \in Nat
      /\ MaxRequests <= MaxId
      /\ requests < MaxRequests => cmd_id <= requests + 1
  BY StorageAssumption DEF WriteInv
<1>2. /\ dev = [i \in DOMAIN controllers |-> dev[i]] /\ DOMAIN dev = DOMAIN controllers
      /\ \A i \in DOMAIN dev : dev[i] \in DeviceType
      /\ requests < MaxRequests => \A i \in DOMAIN dev : OldIds(dev[i])
  BY DEF WriteInv
<1>3. CASE N!nvme_init
  <2> DEFINE found == N!pci_find_devices(bus, "nvme")
             count == IF Len(found) > NVME_MAX_DEVICES THEN NVME_MAX_DEVICES ELSE Len(found)
  <2>1. PICK outcome \in [1..count -> UNION {N!Outcomes(i) : i \in 1..count}] :
          /\ \A i \in 1..count : outcome[i] \in N!Outcomes(i)
          /\ controllers' = [i \in 1..count |-> outcome[i].c]
          /\ dev' = [i \in 1..count |-> outcome[i].d]
    BY <1>3 DEF N!nvme_init
  <2> HIDE DEF count
  <2>2. pc' = "idle" /\ UNCHANGED <<cmd_id, req, requests>>
    BY <1>3 DEF N!nvme_init
  <2>3. DOMAIN dev' = 1..count /\ DOMAIN controllers' = 1..count
    BY <2>1
  <2>4. dev' = [i \in DOMAIN controllers' |-> dev'[i]]
    BY <2>1, <2>3
  <2>5. ASSUME NEW i \in 1..count PROVE dev'[i] \in DeviceType /\ OldIds(dev[i])'
    <3>1. PICK o \in N!Outcomes(i) : dev'[i] = o.d
      BY <2>1
    <3>2. /\ o.d \in DeviceType
          /\ \A c \in Known(o.d) : c.id = IdentifyId
          /\ o.d.cq # N!Nothing => o.d.cq.id = IdentifyId
      BY SetupDevices
    <3> QED BY <3>1, <3>2 DEF OldIds, Known, Shared
  <2> QED BY <1>1, <2>2, <2>3, <2>4, <2>5 DEF WriteInv, Writing
<1>4. ASSUME pc' = "idle", DOMAIN controllers' = DOMAIN controllers,
             requests' \in {requests, requests + 1}, UNCHANGED <<dev, cmd_id>>
      PROVE  WriteInv'
  BY <1>1, <1>2, <1>4 DEF WriteInv, Writing, OldIds
<1>5. CASE N!nvme_shutdown
  BY <1>4, <1>5 DEF N!nvme_shutdown, N!Idle
<1>6. ASSUME NEW i, N!RequestFails \/ N!nvme_flush(i) PROVE WriteInv'
  BY <1>4, <1>6 DEF N!RequestFails, N!nvme_flush, N!Idle
<1>7. CASE N!DriverStep
  BY <1>4, <1>7 DEF N!DriverStep, N!ReadEnds, N!WriteDone, N!WriteTimesOut, N!Returns
<1>8. ASSUME NEW i \in DOMAIN controllers, NEW lba \in 0..Blocks - 1, N!nvme_read(i, lba)
      PROVE  WriteInv'
  <2>1. PICK c : c = [op |-> "read", lba |-> lba, v |-> 0, id |-> 1, req |-> requests]
    OBVIOUS
  <2>2. PICK d : d = [dev[i] EXCEPT !.cq = N!Nothing]
    OBVIOUS
  <2>3. d \in DeviceType /\ d.cq = N!Nothing /\ d.sq = dev[i].sq /\ d.taken = dev[i].taken
    BY <1>2, <2>2 DEF DeviceType
  <2>4. PICK e : e = N!Doorbell(d, [d.sq EXCEPT ![0] = c])
    OBVIOUS
  <2>5. /\ dev' = [dev EXCEPT ![i] = e] /\ DOMAIN controllers' = DOMAIN controllers
        /\ requests < MaxRequests /\ requests' = requests + 1 /\ cmd_id' = cmd_id
        /\ pc' = "poll" /\ req' = [op |-> "read", i |-> i, lba |-> lba, v |-> 0, id |-> 1]
    BY <1>8, <2>1, <2>2, <2>3, <2>4 DEF N!nvme_read
  <2>6. c \in Cmd /\ c.id = 1
    BY <1>1, <2>1 DEF Cmd, Numbers
  <2>7. e \in DeviceType /\ e.cq = N!Nothing /\ Known(e) \subseteq Known(d) \cup {c}
    <3>1. PICK sq : sq = [d.sq EXCEPT ![0] = c] /\ e = N!Doorbell(d, sq)
      BY <2>4
    <3>2. 0 \in 0..1
      OBVIOUS
    <3> QED BY <2>3, <2>6, <3>1, <3>2, SubmitEntry
  <2>8. Known(d) = Known(dev[i]) /\ OldIds(dev[i])
    BY <1>2, <2>3, <2>5 DEF Known
  <2>9. ASSUME NEW j \in DOMAIN dev' PROVE dev'[j] \in DeviceType /\ OldIds(dev[j])'
    <3>1. CASE j = i
      <4>1. dev'[j] = e
        BY <1>2, <2>5, <3>1
      <4>2. \A x \in Known(e) : x.id \in Shared \/ x.id < cmd_id
        BY <2>6, <2>7, <2>8 DEF OldIds, Shared
      <4>3. OldIds(dev[j])'
        BY <2>5, <2>7, <4>1, <4>2 DEF OldIds, Known
      <4> QED BY <2>7, <4>1, <4>3
    <3>2. CASE j # i
      <4>1. dev'[j] = dev[j] /\ j \in DOMAIN dev
        BY <1>2, <2>5, <3>2
      <4> QED BY <1>2, <2>5, <4>1 DEF OldIds, Known
    <3> QED BY <3>1, <3>2
  <2>10. DOMAIN dev' = DOMAIN controllers' /\ dev' = [j \in DOMAIN controllers' |-> dev'[j]]
    BY <1>2, <2>5
  <2>11. req' # N!Nothing /\ ~Writing'
    <3>1. "op" \in DOMAIN req' /\ req'.op = "read"
      BY <2>5
    <3>2. DOMAIN N!Nothing = {}
      BY DEF N!Nothing
    <3> QED BY <3>1, <3>2 DEF Writing
  <2>12. cmd_id <= requests' + 1 /\ requests' \in Nat
    BY <1>1, <2>5
  <2> QED BY <1>1, <2>5, <2>9, <2>10, <2>11, <2>12 DEF WriteInv
<1>9. ASSUME NEW i \in DOMAIN controllers, NEW lba \in 0..Blocks - 1, NEW v \in Values,
             N!nvme_write(i, lba, v)
      PROVE  WriteInv'
  <2>1. PICK c : c = [op |-> "write", lba |-> lba, v |-> v, id |-> cmd_id, req |-> requests]
    OBVIOUS
  <2>2. PICK k \in 0..1 : k = controllers[i].sq_tail
    BY DEF DmaInv, ControllerOk, ControllerType, Bits
  <2>3. PICK d : d = dev[i] /\ d \in DeviceType
    BY <1>2
  <2>4. PICK e : e = N!Doorbell(d, [d.sq EXCEPT ![k] = c])
    OBVIOUS
  <2>5. /\ dev' = [dev EXCEPT ![i] = e] /\ DOMAIN controllers' = DOMAIN controllers
        /\ requests < MaxRequests /\ requests' = requests + 1
        /\ cmd_id' = IF cmd_id = MaxId THEN 1 ELSE cmd_id + 1
        /\ pc' = "poll" /\ req' = [op |-> "write", i |-> i, lba |-> lba, v |-> v, id |-> cmd_id]
    BY <1>9, <2>1, <2>2, <2>3, <2>4 DEF N!nvme_write
  <2>6. c \in Cmd /\ c.id = cmd_id
    BY <1>1, <2>1 DEF Cmd, Numbers
  <2>7. e \in DeviceType /\ e.cq = d.cq /\ Known(e) \subseteq Known(d) \cup {c}
    <3>1. PICK sq : sq = [d.sq EXCEPT ![k] = c] /\ e = N!Doorbell(d, sq)
      BY <2>4
    <3> QED BY <2>3, <2>6, <3>1, SubmitEntry
  <2>8. OldIds(d)
    BY <1>2, <2>3, <2>5
  <2>9. /\ requests' \in Nat /\ cmd_id' \in Nat \ {0}
        /\ requests' < MaxRequests => cmd_id' = cmd_id + 1 /\ cmd_id' <= requests' + 1
    BY <1>1, <2>5
  <2>10. ASSUME NEW j \in DOMAIN dev'
         PROVE  dev'[j] \in DeviceType /\ (requests' < MaxRequests => OldIds(dev[j])')
    <3>1. CASE j = i
      <4>1. dev'[j] = e
        BY <1>2, <2>5, <3>1
      <4>2. ASSUME requests' < MaxRequests PROVE OldIds(dev[j])'
        <5>1. \A x \in Nat : x < cmd_id \/ x = cmd_id => x < cmd_id'
          BY <1>1, <2>9, <4>2
        <5>2. \A x \in Known(e) : x.id \in Shared \/ x.id < cmd_id'
          <6> SUFFICES ASSUME NEW x \in Known(e) PROVE x.id \in Shared \/ x.id < cmd_id'
            OBVIOUS
          <6>1. x \in Cmd
            BY <2>7 DEF DeviceType, Known
          <6>2. x.id \in Nat
            BY <6>1 DEF Cmd
          <6>3. x.id \in Shared \/ x.id < cmd_id \/ x.id = cmd_id
            BY <2>6, <2>7, <2>8 DEF OldIds
          <6> QED BY <5>1, <6>2, <6>3
        <5>3. e.cq # N!Nothing => e.cq.id \in Shared \/ e.cq.id < cmd_id'
          <6> SUFFICES ASSUME e.cq # N!Nothing PROVE e.cq.id \in Shared \/ e.cq.id < cmd_id'
            OBVIOUS
          <6>1. e.cq \in Answer
            BY <2>7 DEF DeviceType
          <6>2. e.cq.id \in Nat
            BY <6>1 DEF Answer
          <6>3. e.cq.id \in Shared \/ e.cq.id < cmd_id
            BY <2>7, <2>8 DEF OldIds
          <6> QED BY <5>1, <6>2, <6>3
        <5> QED BY <4>1, <5>2, <5>3 DEF OldIds, Known
      <4> QED BY <2>7, <4>1, <4>2
    <3>2. CASE j # i
      <4>1. dev'[j] = dev[j] /\ j \in DOMAIN dev /\ dev[j] \in DeviceType
        BY <1>2, <2>5, <3>2
      <4>2. ASSUME requests' < MaxRequests PROVE OldIds(dev[j])'
        <5>1. OldIds(dev[j])
          BY <1>2, <2>5, <4>1
        <5>2. \A x \in Nat : x < cmd_id => x < cmd_id'
          BY <1>1, <2>9, <4>2
        <5>3. \A x \in Known(dev[j]) : x.id \in Nat
          BY <4>1 DEF DeviceType, Known, Cmd
        <5>4. dev[j].cq # N!Nothing => dev[j].cq.id \in Nat
          BY <4>1 DEF DeviceType, Answer
        <5> QED BY <4>1, <5>1, <5>2, <5>3, <5>4 DEF OldIds, Known
      <4> QED BY <4>1, <4>2
    <3> QED BY <3>1, <3>2
  <2>11. DOMAIN dev' = DOMAIN controllers' /\ dev' = [j \in DOMAIN controllers' |-> dev'[j]]
    BY <1>2, <2>5
  <2>12. req' # N!Nothing
    <3>1. "op" \in DOMAIN req'
      BY <2>5
    <3>2. DOMAIN N!Nothing = {}
      BY DEF N!Nothing
    <3> QED BY <3>1, <3>2
  <2>13. ASSUME Writing'
         PROVE  req'.i \in DOMAIN dev' /\ req'.lba \in 0..Blocks - 1 /\ OwnWrite(dev[req.i])'
    <3>1. req'.i = i /\ req'.lba = lba /\ req'.v = v /\ req'.id = cmd_id /\ cmd_id \notin Shared
      BY <2>5, <2>13 DEF Writing
    <3>2. dev'[req'.i] = e /\ i \in DOMAIN dev'
      BY <1>2, <2>5, <3>1
    <3>3. ~(cmd_id < cmd_id)
      BY <1>1
    <3>4. \A x \in Known(e) : x.id = cmd_id => x = c
      BY <2>7, <2>8, <3>1, <3>3 DEF OldIds
    <3>5. requests' - 1 = requests
      BY <1>1, <2>5
    <3>6. c.op = "write" /\ c.lba = lba /\ c.v = v /\ c.req = requests
      BY <2>1
    <3>7. ~(e.cq # N!Nothing /\ e.cq.id = cmd_id)
      BY <2>7, <2>8, <3>1, <3>3 DEF OldIds
    <3> QED BY <3>1, <3>2, <3>4, <3>5, <3>6, <3>7 DEF OwnWrite, Known
  <2> QED BY <2>9, <2>10, <2>11, <2>12, <2>13 DEF WriteInv
<1>10. ASSUME NEW i \in DOMAIN controllers, NEW c \in dev[i].taken, NEW ok \in BOOLEAN,
              N!Completes(i, c, ok)
       PROVE  WriteInv'
  <2>1. PICK v \in IF req # N!Nothing /\ c.req = requests - 1 THEN {c.v} ELSE Values \cup {0} :
          dev' = [dev EXCEPT ![i] = N!Completed(dev[i], c, ok, v)]
    BY <1>10 DEF N!Completes
  <2>2. UNCHANGED <<controllers, cmd_id, pc, req, requests>>
    BY <1>10 DEF N!Completes
  <2>3. PICK d : d = dev[i] /\ d \in DeviceType
    BY <1>2
  <2>4. v \in Numbers
    <3>1. c \in Cmd
      BY <2>3 DEF DeviceType
    <3> QED BY <2>1, <3>1 DEF Cmd, Numbers
  <2>5. PICK e : e = N!Completed(d, c, ok, v)
    OBVIOUS
  <2>6. /\ e \in DeviceType /\ Known(e) \subseteq Known(d) /\ c \in Known(d) /\ c \in Cmd
        /\ e.cq = [id |-> c.id, phase |-> d.phase, ok |-> ok]
        /\ ok /\ c.op = "write" => e.disk = [d.disk EXCEPT ![c.lba] = v]
    BY <2>3, <2>4, <2>5, CompleteEntry
  <2>7. dev' = [dev EXCEPT ![i] = e]
    BY <2>1, <2>3, <2>5
  <2>8. DOMAIN dev' = DOMAIN controllers' /\ dev' = [j \in DOMAIN controllers' |-> dev'[j]]
    BY <1>2, <2>2, <2>7
  <2>9. e.cq.id = c.id /\ e.cq.ok = ok
    BY <2>6
  <2>10. ASSUME NEW j \in DOMAIN dev'
         PROVE  dev'[j] \in DeviceType /\ (requests' < MaxRequests => OldIds(dev[j])')
    <3>1. CASE j = i
      <4>1. dev'[j] = e
        BY <1>2, <2>7, <3>1
      <4>2. ASSUME requests < MaxRequests PROVE OldIds(e)
        <5>1. OldIds(d)
          BY <1>2, <2>3, <4>2
        <5> QED BY <2>6, <2>9, <5>1 DEF OldIds
      <4> QED BY <2>2, <2>6, <4>1, <4>2 DEF OldIds, Known
    <3>2. CASE j # i
      <4>1. dev'[j] = dev[j] /\ j \in DOMAIN dev
        BY <1>2, <2>7, <3>2
      <4> QED BY <1>2, <2>2, <4>1 DEF OldIds, Known
    <3> QED BY <3>1, <3>2
  <2>11. ASSUME Writing'
         PROVE  req'.i \in DOMAIN dev' /\ req'.lba \in 0..Blocks - 1 /\ OwnWrite(dev[req.i])'
    <3>1. Writing /\ req' = req /\ requests' = requests
      BY <2>2, <2>11 DEF Writing
    <3>2. /\ req.i \in DOMAIN dev /\ req.lba \in 0..Blocks - 1 /\ OwnWrite(dev[req.i])
          /\ req # N!Nothing
      BY <3>1 DEF WriteInv, Writing
    <3>3. req.i \in DOMAIN dev'
      BY <2>7, <3>2
    <3>4. CASE req.i = i
      <4>1. dev'[req.i] = e /\ OwnWrite(d)
        BY <1>2, <2>3, <2>7, <3>2, <3>4
      <4>2. ASSUME c.id = req.id, ok PROVE e.disk[req.lba] = req.v
        <5>1. c.op = "write" /\ c.lba = req.lba /\ c.v = req.v /\ c.req = requests - 1
          BY <2>6, <4>1, <4>2 DEF OwnWrite
        <5>2. v = req.v
          BY <2>1, <3>2, <5>1
        <5>3. d.disk \in [0..Blocks - 1 -> Numbers]
          BY <2>3 DEF DeviceType
        <5>4. e.disk = [d.disk EXCEPT ![req.lba] = req.v]
          BY <2>6, <4>2, <5>1, <5>2
        <5> QED BY <3>2, <5>3, <5>4
      <4>3. OwnWrite(e)
        BY <2>6, <2>9, <4>1, <4>2 DEF OwnWrite
      <4> QED BY <3>1, <3>2, <3>3, <4>1, <4>3 DEF OwnWrite, Known
    <3>5. CASE req.i # i
      <4>1. dev'[req.i] = dev[req.i]
        BY <1>2, <2>7, <3>2, <3>5
      <4> QED BY <3>1, <3>2, <3>3, <4>1 DEF OwnWrite, Known
    <3> QED BY <3>4, <3>5
  <2>12. pc' = "poll" => req' # N!Nothing
    BY <2>2 DEF WriteInv
  <2> QED BY <1>1, <2>2, <2>8, <2>10, <2>11, <2>12 DEF WriteInv
<1> QED BY <1>3, <1>5, <1>6, <1>7, <1>8, <1>9, <1>10 DEF N!Next

\* Nor does a step of the whole.
LEMMA WriteNext == DmaInv /\ WriteInv /\ [Next]_vars => WriteInv'
<1> SUFFICES ASSUME DmaInv, WriteInv, [Next]_vars PROVE WriteInv'
  OBVIOUS
<1>1. CASE N!Next
  BY <1>1, WriteStep
<1>2. CASE UNCHANGED nvme
  <2>1. UNCHANGED <<controllers, cmd_id, dev, pc, req, requests>>
    BY <1>2 DEF nvme
  <2> QED BY <2>1 DEF WriteInv, Writing, OldIds, OwnWrite, Known
<1> QED BY <1>1, <1>2 DEF Next, vars

\* nvme_write only reports a write as done that the controller has done, whatever
\* completions of earlier commands arrive during its poll.
THEOREM NvmeWritesAreDone == Spec => NvmeWritesDone
<1> DEFINE Done == N!WriteDone /\ req.id \notin {1, IdentifyId} => dev[req.i].disk[req.lba] = req.v
<1>1. WriteInv => Done
  <2> SUFFICES ASSUME WriteInv, N!WriteDone, req.id \notin {1, IdentifyId}
               PROVE  dev[req.i].disk[req.lba] = req.v
    OBVIOUS
  <2>1. /\ pc = "poll" /\ req.op = "write" /\ dev[req.i].cq # N!Nothing
        /\ dev[req.i].cq.id = req.id /\ dev[req.i].cq.ok
    BY DEF N!WriteDone, N!Matches
  <2>2. OwnWrite(dev[req.i])
    BY <2>1 DEF WriteInv, Writing, Shared
  <2> QED BY <2>1, <2>2 DEF OwnWrite
<1>2. Spec => []WriteInv
  BY DmaInit, DmaNext, WriteInit, WriteNext, PTL DEF Spec
<1>3. Done => [Done]_(N!nvmeVars)
  OBVIOUS
<1>4. NvmeWritesDone <=> [][Done]_(N!nvmeVars)
  BY DEF NvmeWritesDone, N!WritesDone
<1> QED BY <1>1, <1>2, <1>3, <1>4, PTL

-----------------------------------------------------------------------------
(* The ports of the SATA driver. *)

Device == [class : {"ahci"}, hba : Hbas]
ControllerRecord == [hba : Hbas, ports_active : SUBSET PortNums]
DriverType ==
  [initialized : BOOLEAN, controllers : Seq(ControllerRecord), total_ports : Nat]

\* A controller is being set up; these are the ports of it that work so far, and
\* the one whose memory is allocated and whose drive is not identified yet.
SettingUp == at \in {"port", "start"}
Current == IF SettingUp THEN {<<Head(call.devs).hba, n>> : n \in call.active} ELSE {}
Pending == IF at = "start" THEN {S!ThisPort} ELSE {}
Working == S!ActivePorts(driver) \cup Current

\* The places of the working ports: the controller that is being set up will be
\* the next one.
AllPlaces ==
  S!Places(driver) \cup
    (IF SettingUp THEN {Len(driver.controllers) + 1} \X call.active ELSE {})

\* Each controller is visited once.
Distinct(seq) == \A i, j \in DOMAIN seq : seq[i].hba = seq[j].hba => i = j
Apart(devs, cs) == \A i \in DOMAIN devs, j \in DOMAIN cs : devs[i].hba # cs[j].hba
Visits ==
  /\ Distinct(driver.controllers)
  /\ at \in {"controller", "port", "start"} =>
       /\ call.devs \in Seq(Device) /\ Distinct(call.devs)
       /\ Apart(call.devs, driver.controllers)

PortTypes ==
  /\ bus \in Buses
  /\ at \in {"idle", "controller", "port", "start", "send", "issue", "wait"}
  /\ driver \in DriverType
  /\ mem \in [S!Ports -> [S!Buffers -> Int]]
  /\ engine \in [S!Ports -> {"on", "off", "stopping"}]
  /\ SettingUp =>
       /\ call \in [devs : Seq(Device), left : SUBSET PortNums, active : SUBSET PortNums]
       /\ call.devs # <<>> /\ call.active \cap call.left = {}
  /\ at = "start" => call.left # {}

\* What is held and what runs, for a set of working ports and a pending one.
MemoryExact(W, P) ==
  \A p \in S!Ports, b \in S!Buffers : mem[p][b] = IF b # 0 /\ p \in W \cup P THEN 1 ELSE 0
Running(W) == \A p \in W : engine[p] = "on"

PortInv ==
  /\ PortTypes
  /\ Visits
  /\ at \in {"idle", "send", "issue", "wait"} => driver.initialized \/ driver.controllers = <<>>
  /\ IsFiniteSet(AllPlaces) /\ driver.total_ports = Cardinality(AllPlaces)
  /\ MemoryExact(Working, Pending)
  /\ Running(Working)

\* The lowest port of those left is one of them.
LEMMA LowestPort ==
  ASSUME NEW T \in SUBSET PortNums, T # {}
  PROVE  S!Min(T) \in T
<1>1. T \in SUBSET Nat
  BY StorageAssumption
<1>2. \E x \in T : \A y \in T : x <= y
  BY <1>1, LeastSlot
<1> QED BY <1>2 DEF S!Min

\* Active ports are ports of the machine.
LEMMA ActiveArePorts ==
  ASSUME driver \in DriverType
  PROVE  /\ S!ActivePorts(driver) \subseteq S!Ports
         /\ \A p \in S!ActivePorts(driver) : \E i \in DOMAIN driver.controllers :
              p = <<driver.controllers[i].hba, p[2]>> /\ p[2] \in driver.controllers[i].ports_active
         /\ \A i \in DOMAIN driver.controllers : \A n \in driver.controllers[i].ports_active :
              <<driver.controllers[i].hba, n>> \in S!ActivePorts(driver)
<1>1. \A i \in DOMAIN driver.controllers :
        driver.controllers[i].hba \in Hbas /\ driver.controllers[i].ports_active \in SUBSET PortNums
  <2>1. driver.controllers \in Seq(ControllerRecord)
    BY DEF DriverType
  <2>2. \A i \in DOMAIN driver.controllers : driver.controllers[i] \in ControllerRecord
    BY <2>1
  <2> QED BY <2>2 DEF ControllerRecord
<1>2. ASSUME NEW p \in S!ActivePorts(driver)
      PROVE  /\ p \in S!Ports
             /\ \E i \in DOMAIN driver.controllers :
                  /\ p = <<driver.controllers[i].hba, p[2]>>
                  /\ p[2] \in driver.controllers[i].ports_active
  <2>1. PICK a \in S!Places(driver) : p = <<driver.controllers[a[1]].hba, a[2]>>
    BY DEF S!ActivePorts, S!PortAt
  <2>2. PICK i \in DOMAIN driver.controllers : a \in {i} \X driver.controllers[i].ports_active
    BY DEF S!Places
  <2>3. a[1] = i /\ a[2] \in driver.controllers[i].ports_active
    BY <2>2
  <2> QED BY <1>1, <2>1, <2>3 DEF S!Ports
<1>3. ASSUME NEW i \in DOMAIN driver.controllers, NEW n \in driver.controllers[i].ports_active
      PROVE  <<driver.controllers[i].hba, n>> \in S!ActivePorts(driver)
  <2>1. <<i, n>> \in S!Places(driver)
    BY DEF S!Places
  <2>2. S!PortAt(driver, <<i, n>>) = <<driver.controllers[i].hba, n>>
    BY DEF S!PortAt
  <2> QED BY <2>1, <2>2 DEF S!ActivePorts
<1> QED BY <1>2, <1>3

\* The port that is being set up is a port of the machine that does not work yet.
LEMMA ThisPortIsNew ==
  ASSUME PortInv, SettingUp, call.left # {}
  PROVE  /\ S!ThisPort \in S!Ports /\ S!ThisPort \notin Working
         /\ S!ThisPort = <<Head(call.devs).hba, S!Min(call.left)>>
         /\ S!Min(call.left) \in call.left /\ S!Min(call.left) \in PortNums
         /\ Head(call.devs) = call.devs[1] /\ 1 \in DOMAIN call.devs /\ Head(call.devs).hba \in Hbas
<1>1. /\ call.devs \in Seq(Device) /\ call.left \in SUBSET PortNums /\ call.devs # <<>>
      /\ call.active \cap call.left = {} /\ driver \in DriverType
  BY DEF PortInv, PortTypes
<1>2. S!Min(call.left) \in call.left
  BY <1>1, LowestPort
<1>3. Head(call.devs) = call.devs[1] /\ 1 \in DOMAIN call.devs /\ Head(call.devs) \in Device
  BY <1>1
<1>4. Head(call.devs).hba \in Hbas
  BY <1>3 DEF Device
<1>5. S!ThisPort = <<Head(call.devs).hba, S!Min(call.left)>>
  BY DEF S!ThisPort
<1>6. S!ThisPort \in S!Ports
  BY <1>1, <1>2, <1>4, <1>5 DEF S!Ports
<1>7. S!ThisPort \notin Current
  BY <1>1, <1>2, <1>5 DEF Current
<1>8. S!ThisPort \notin S!ActivePorts(driver)
  <2> SUFFICES ASSUME S!ThisPort \in S!ActivePorts(driver) PROVE FALSE
    OBVIOUS
  <2>1. PICK i \in DOMAIN driver.controllers :
          S!ThisPort = <<driver.controllers[i].hba, S!ThisPort[2]>>
    BY <1>1, ActiveArePorts
  <2>2. call.devs[1].hba = driver.controllers[i].hba
    BY <1>3, <1>5, <2>1
  <2> QED BY <1>3, <2>2 DEF PortInv, Visits, SettingUp, Apart
<1> QED BY <1>1, <1>2, <1>3, <1>4, <1>5, <1>6, <1>7, <1>8 DEF Working

\* So are the working ones.
LEMMA WorkingArePorts ==
  ASSUME PortInv
  PROVE  Working \subseteq S!Ports
<1>1. S!ActivePorts(driver) \subseteq S!Ports
  BY ActiveArePorts DEF PortInv, PortTypes
<1>2. CASE SettingUp
  <2>1. /\ call \in [devs : Seq(Device), left : SUBSET PortNums, active : SUBSET PortNums]
        /\ call.devs # <<>>
    BY <1>2 DEF PortInv, PortTypes
  <2>2. Head(call.devs) \in Device
    BY <2>1
  <2>3. Head(call.devs).hba \in Hbas
    BY <2>2 DEF Device
  <2> QED BY <1>1, <1>2, <2>1, <2>3 DEF Working, Current, S!Ports
<1>3. CASE ~SettingUp
  BY <1>1, <1>3 DEF Working, Current
<1> QED BY <1>2, <1>3

\* Without controllers there are no ports.
LEMMA NoControllers ==
  ASSUME NEW d, d.controllers = <<>>
  PROVE  S!Places(d) = {} /\ S!ActivePorts(d) = {}
<1>1. S!Places(d) = {}
  BY DEF S!Places
<1> QED BY <1>1 DEF S!ActivePorts

\* The controllers after the first are still different ones.
LEMMA TailVisits ==
  ASSUME NEW devs \in Seq(Device), devs # <<>>, Distinct(devs), NEW cs, Apart(devs, cs)
  PROVE  Tail(devs) \in Seq(Device) /\ Distinct(Tail(devs)) /\ Apart(Tail(devs), cs)
<1>1. /\ Tail(devs) \in Seq(Device) /\ Len(Tail(devs)) = Len(devs) - 1 /\ Len(devs) \in Nat
      /\ DOMAIN Tail(devs) = 1..Len(devs) - 1 /\ DOMAIN devs = 1..Len(devs)
  OBVIOUS
<1>2. \A i \in DOMAIN Tail(devs) : i + 1 \in DOMAIN devs /\ Tail(devs)[i] = devs[i + 1] /\ i \in Nat
  BY <1>1
<1>3. Distinct(Tail(devs))
  <2> SUFFICES ASSUME NEW i \in DOMAIN Tail(devs), NEW j \in DOMAIN Tail(devs),
                      Tail(devs)[i].hba = Tail(devs)[j].hba
               PROVE  i = j
    BY DEF Distinct
  <2>1. i + 1 = j + 1
    BY <1>2 DEF Distinct
  <2> QED BY <1>2, <2>1
<1>4. Apart(Tail(devs), cs)
  BY <1>2 DEF Apart
<1> QED BY <1>1, <1>3, <1>4

\* The controller that was set up joins the others.
LEMMA AppendVisits ==
  ASSUME NEW devs \in Seq(Device), devs # <<>>, Distinct(devs),
         NEW cs \in Seq(ControllerRecord), Distinct(cs), Apart(devs, cs),
         NEW c \in ControllerRecord, c.hba = Head(devs).hba
  PROVE  /\ Distinct(Append(cs, c)) /\ Apart(Tail(devs), Append(cs, c))
         /\ Append(cs, c) \in Seq(ControllerRecord)
<1>1. /\ Append(cs, c) \in Seq(ControllerRecord) /\ Len(cs) \in Nat
      /\ DOMAIN cs = 1..Len(cs) /\ DOMAIN Append(cs, c) = 1..Len(cs) + 1
      /\ Append(cs, c)[Len(cs) + 1] = c
      /\ \A i \in 1..Len(cs) : Append(cs, c)[i] = cs[i]
  OBVIOUS
<1>2. /\ Head(devs) = devs[1] /\ Len(devs) \in Nat /\ DOMAIN devs = 1..Len(devs) /\ 1 \in DOMAIN devs
      /\ DOMAIN Tail(devs) = 1..Len(devs) - 1
      /\ \A i \in 1..Len(devs) - 1 : Tail(devs)[i] = devs[i + 1] /\ i + 1 \in DOMAIN devs /\ i + 1 # 1
  OBVIOUS
<1>3. PICK new : new = Append(cs, c)
  OBVIOUS
<1>4. \A i \in DOMAIN new : i = Len(cs) + 1 \/ (i \in DOMAIN cs /\ new[i] = cs[i])
  BY <1>1, <1>3
<1>5. \A i \in DOMAIN cs : cs[i].hba # c.hba
  BY <1>2 DEF Apart
<1>6. Distinct(new)
  BY <1>1, <1>3, <1>4, <1>5 DEF Distinct
<1>7. \A i \in DOMAIN Tail(devs) : Tail(devs)[i].hba # c.hba
  BY <1>2 DEF Distinct
<1>8. \A i \in DOMAIN Tail(devs), j \in DOMAIN cs : Tail(devs)[i].hba # cs[j].hba
  BY <1>2 DEF Apart
<1>9. Apart(Tail(devs), new)
  BY <1>1, <1>3, <1>4, <1>7, <1>8 DEF Apart
<1> QED BY <1>1, <1>3, <1>6, <1>9

\* Its active ports join theirs.
LEMMA AppendPlaces ==
  ASSUME NEW d, d.controllers \in Seq(ControllerRecord), NEW c, NEW e,
         e.controllers = Append(d.controllers, c)
  PROVE  /\ S!Places(e) = S!Places(d) \cup ({Len(d.controllers) + 1} \X c.ports_active)
         /\ S!ActivePorts(e) = S!ActivePorts(d) \cup {<<c.hba, n>> : n \in c.ports_active}
<1> DEFINE m == Len(d.controllers) + 1
<1>1. /\ m \in Nat /\ DOMAIN d.controllers = 1..m - 1 /\ DOMAIN e.controllers = 1..m
      /\ e.controllers[m] = c /\ \A i \in 1..m - 1 : e.controllers[i] = d.controllers[i]
  OBVIOUS
<1> HIDE DEF m
<1>2. \A i : i \in 1..m <=> (i \in 1..m - 1 \/ i = m)
  BY <1>1
<1>3. S!Places(e) = S!Places(d) \cup ({m} \X c.ports_active)
  <2>1. ASSUME NEW a \in S!Places(e) PROVE a \in S!Places(d) \cup ({m} \X c.ports_active)
    <3>1. PICK i \in DOMAIN e.controllers : a \in {i} \X e.controllers[i].ports_active
      BY <2>1 DEF S!Places
    <3> QED BY <1>1, <1>2, <3>1 DEF S!Places
  <2>2. ASSUME NEW a \in S!Places(d) PROVE a \in S!Places(e)
    <3>1. PICK i \in DOMAIN d.controllers : a \in {i} \X d.controllers[i].ports_active
      BY <2>2 DEF S!Places
    <3>2. i \in DOMAIN e.controllers /\ a \in {i} \X e.controllers[i].ports_active
      BY <1>1, <1>2, <3>1
    <3> QED BY <3>2 DEF S!Places
  <2>3. ASSUME NEW a \in {m} \X c.ports_active PROVE a \in S!Places(e)
    <3>1. m \in DOMAIN e.controllers /\ a \in {m} \X e.controllers[m].ports_active
      BY <1>1, <1>2, <2>3
    <3> QED BY <3>1 DEF S!Places
  <2> QED BY <2>1, <2>2, <2>3
<1>4. \A a \in S!Places(d) : S!PortAt(e, a) = S!PortAt(d, a)
  <2> SUFFICES ASSUME NEW a \in S!Places(d) PROVE S!PortAt(e, a) = S!PortAt(d, a)
    OBVIOUS
  <2>1. PICK i \in DOMAIN d.controllers : a \in {i} \X d.controllers[i].ports_active
    BY DEF S!Places
  <2>2. a[1] = i
    BY <2>1
  <2> QED BY <1>1, <2>1, <2>2 DEF S!PortAt
<1>5. \A n \in c.ports_active : S!PortAt(e, <<m, n>>) = <<c.hba, n>>
  BY <1>1 DEF S!PortAt
<1>6. S!ActivePorts(e) = S!ActivePorts(d) \cup {<<c.hba, n>> : n \in c.ports_active}
  <2>1. ASSUME NEW p \in S!ActivePorts(e)
        PROVE  p \in S!ActivePorts(d) \cup {<<c.hba, n>> : n \in c.ports_active}
    <3>1. PICK a \in S!Places(e) : p = S!PortAt(e, a)
      BY DEF S!ActivePorts
    <3>2. CASE a \in S!Places(d)
      BY <1>4, <3>1, <3>2 DEF S!ActivePorts
    <3>3. CASE a \in {m} \X c.ports_active
      <4>1. a = <<m, a[2]>> /\ a[2] \in c.ports_active
        BY <3>3
      <4> QED BY <1>5, <3>1, <4>1
    <3> QED BY <1>3, <3>2, <3>3
  <2>2. ASSUME NEW p \in S!ActivePorts(d) PROVE p \in S!ActivePorts(e)
    <3>1. PICK a \in S!Places(d) : p = S!PortAt(d, a)
      BY DEF S!ActivePorts
    <3>2. a \in S!Places(e) /\ p = S!PortAt(e, a)
      BY <1>3, <1>4, <3>1
    <3> QED BY <3>2 DEF S!ActivePorts
  <2>3. ASSUME NEW n \in c.ports_active PROVE <<c.hba, n>> \in S!ActivePorts(e)
    <3>1. <<m, n>> \in S!Places(e)
      BY <1>3
    <3> QED BY <1>5, <3>1 DEF S!ActivePorts
  <2> QED BY <2>1, <2>2, <2>3
<1> QED BY <1>3, <1>6 DEF m

\* Nothing is set up and nothing is held at boot.
LEMMA PortInit == Init => PortInv
<1> SUFFICES ASSUME Init PROVE PortInv
  OBVIOUS
<1>1. /\ bus \in Buses /\ at = "idle" /\ driver = S!Reset
      /\ mem = [p \in S!Ports |-> [b \in S!Buffers |-> 0]] /\ engine = [p \in S!Ports |-> "on"]
  BY DEF Init, S!Init
<1>2. /\ driver.controllers = <<>> /\ driver.total_ports = 0 /\ driver.initialized = FALSE
      /\ driver \in DriverType
  BY <1>1 DEF S!Reset, DriverType
<1>3. Pending = {} /\ AllPlaces = {} /\ Working = {}
  BY <1>1, <1>2, NoControllers DEF Pending, AllPlaces, Working, Current, SettingUp
<1>4. PortTypes
  BY <1>1, <1>2 DEF PortTypes, SettingUp
<1>5. Visits
  BY <1>1, <1>2 DEF Visits, Distinct
<1>6. MemoryExact({}, {}) /\ Running({})
  BY <1>1 DEF MemoryExact, Running
<1> QED BY <1>2, <1>3, <1>4, <1>5, <1>6, FS_EmptySet DEF PortInv

\* A request, and what a controller does with its commands, concern no port.
LEMMA PortsUntouched ==
  ASSUME PortInv, UNCHANGED <<bus, driver, mem, engine>>,
         at \in {"idle", "send", "issue", "wait"}, at' \in {"idle", "send", "issue", "wait"}
  PROVE  PortInv'
<1>1. Pending = {} /\ Pending' = {} /\ Working = S!ActivePorts(driver)
      /\ Working' = S!ActivePorts(driver) /\ AllPlaces = S!Places(driver) /\ AllPlaces' = S!Places(driver)
  BY DEF Pending, Working, Current, SettingUp, AllPlaces
<1>2. PortTypes'
  BY DEF PortInv, PortTypes, SettingUp
<1>3. Visits'
  BY DEF PortInv, Visits
<1>4. MemoryExact(Working, Pending)' /\ Running(Working)'
  BY <1>1 DEF PortInv, MemoryExact, Running
<1> QED BY <1>1, <1>2, <1>3, <1>4 DEF PortInv

\* While a controller is set up, neither does one that works on its own.
LEMMA PortsKept ==
  ASSUME PortInv, UNCHANGED <<bus, driver, mem, engine, at, call>>
  PROVE  PortInv'
<1>1. Pending' = Pending /\ Working' = Working /\ AllPlaces' = AllPlaces
  BY DEF Pending, Working, Current, SettingUp, AllPlaces, S!ThisPort
<1>2. PortTypes'
  BY DEF PortInv, PortTypes, SettingUp
<1>3. Visits'
  BY DEF PortInv, Visits
<1>4. MemoryExact(Working, Pending)' /\ Running(Working)'
  BY <1>1 DEF PortInv, MemoryExact, Running
<1> QED BY <1>1, <1>2, <1>3, <1>4 DEF PortInv

\* The places and the ports depend on the list of the controllers only.
LEMMA SameControllers ==
  ASSUME NEW d, NEW e, d.controllers = e.controllers
  PROVE  S!Places(d) = S!Places(e) /\ S!ActivePorts(d) = S!ActivePorts(e)
<1>1. S!Places(d) = S!Places(e)
  BY DEF S!Places
<1> QED BY <1>1 DEF S!ActivePorts, S!PortAt

\* sata_init begins where no port is active.
LEMMA PortsSataInit == PortInv /\ S!sata_init => PortInv'
<1> SUFFICES ASSUME PortInv, S!sata_init PROVE PortInv'
  OBVIOUS
<1> DEFINE devices == S!pci_find_devices(bus, "ahci")
           count == IF Len(devices) > SATA_MAX_CONTROLLERS THEN SATA_MAX_CONTROLLERS
                                                           ELSE Len(devices)
<1>1. /\ at = "idle" /\ at' = "controller" /\ ~driver.initialized /\ driver' = S!Reset
      /\ call' = [devs |-> SubSeq(devices, 1, count)] /\ UNCHANGED <<bus, mem, engine>>
  BY DEF S!sata_init, S!Idle, S!hardware
<1>2. driver.controllers = <<>> /\ bus \in Buses
  BY <1>1 DEF PortInv, PortTypes
<1>3. /\ driver'.controllers = <<>> /\ driver'.total_ports = 0 /\ driver' \in DriverType
  BY <1>1 DEF S!Reset, DriverType
<1>4. devices \in Seq(Device) /\ Distinct(devices)
  BY <1>2, BusAssumption DEF Device, Distinct
<1>5. count \in Nat /\ count <= Len(devices)
  <2>1. Len(devices) \in Nat
    BY <1>4
  <2> HIDE DEF devices
  <2> QED BY <2>1, StorageAssumption
<1>6. /\ SubSeq(devices, 1, count) \in Seq(Device)
      /\ DOMAIN SubSeq(devices, 1, count) = 1..count
      /\ \A i \in 1..count : i \in DOMAIN devices /\ SubSeq(devices, 1, count)[i] = devices[i]
  <2> HIDE DEF devices, count
  <2> QED BY <1>4, <1>5
<1>7. Distinct(SubSeq(devices, 1, count)) /\ Apart(SubSeq(devices, 1, count), <<>>)
  <2> HIDE DEF devices, count
  <2> QED BY <1>4, <1>6 DEF Distinct, Apart
<1> HIDE DEF devices, count
<1>8. /\ Working = {} /\ Working' = {} /\ Pending = {} /\ Pending' = {} /\ AllPlaces' = {}
  BY <1>1, <1>2, <1>3, NoControllers DEF Pending, AllPlaces, Working, Current, SettingUp
<1>9. PortTypes'
  BY <1>1, <1>2, <1>3 DEF PortInv, PortTypes, SettingUp
<1>10. Visits'
  <2>1. Distinct(driver'.controllers)
    BY <1>3 DEF Distinct
  <2> QED BY <1>1, <1>3, <1>6, <1>7, <2>1 DEF Visits
<1>11. MemoryExact(Working, Pending)' /\ Running(Working)'
  BY <1>1, <1>8 DEF PortInv, MemoryExact, Running
<1> QED BY <1>1, <1>3, <1>8, <1>9, <1>10, <1>11, FS_EmptySet DEF PortInv

\* The last controller was visited.
LEMMA PortsFound == PortInv /\ S!find_and_init_controllers => PortInv'
<1> SUFFICES ASSUME PortInv, S!find_and_init_controllers PROVE PortInv'
  OBVIOUS
<1>1. /\ at = "controller" /\ at' = "idle" /\ UNCHANGED <<bus, mem, engine>>
      /\ driver' = [driver EXCEPT !.initialized = driver.controllers # <<>>]
  BY DEF S!find_and_init_controllers, S!hardware
<1>2. driver \in DriverType
  BY DEF PortInv, PortTypes
<1>3. /\ driver' \in DriverType /\ driver'.controllers = driver.controllers
      /\ driver'.total_ports = driver.total_ports
      /\ driver'.initialized \/ driver'.controllers = <<>>
  BY <1>1, <1>2 DEF DriverType
<1>4. /\ Pending = {} /\ Pending' = {} /\ Working = S!ActivePorts(driver)
      /\ Working' = S!ActivePorts(driver') /\ AllPlaces = S!Places(driver)
      /\ AllPlaces' = S!Places(driver')
  BY <1>1 DEF Pending, Working, Current, SettingUp, AllPlaces
<1>5. Working' = Working /\ AllPlaces' = AllPlaces
  BY <1>3, <1>4, SameControllers
<1>6. PortTypes'
  BY <1>1, <1>3 DEF PortInv, PortTypes, SettingUp
<1>7. Visits'
  BY <1>1, <1>3 DEF PortInv, Visits
<1>8. MemoryExact(Working, Pending)' /\ Running(Working)'
  BY <1>1, <1>4, <1>5 DEF PortInv, MemoryExact, Running
<1> QED BY <1>3, <1>5, <1>6, <1>7, <1>8 DEF PortInv

\* A controller that fails is left out of the list.
LEMMA PortsControllerFails == PortInv /\ S!ControllerFails => PortInv'
<1> SUFFICES ASSUME PortInv, S!ControllerFails PROVE PortInv'
  OBVIOUS
<1>1. /\ at = "controller" /\ at' = "controller" /\ UNCHANGED <<bus, driver, mem, engine>>
      /\ call.devs # <<>> /\ call' = [devs |-> Tail(call.devs)]
  BY DEF S!ControllerFails, S!hardware
<1>2. /\ Pending = {} /\ Pending' = {} /\ Working' = Working /\ AllPlaces' = AllPlaces
  BY <1>1 DEF Pending, Working, Current, SettingUp, AllPlaces
<1>3. PortTypes'
  BY <1>1 DEF PortInv, PortTypes, SettingUp
<1>4. Visits'
  <2>1. call.devs \in Seq(Device) /\ Distinct(call.devs) /\ Apart(call.devs, driver.controllers)
    BY <1>1 DEF PortInv, Visits
  <2>2. call'.devs = Tail(call.devs)
    BY <1>1
  <2>3. /\ call'.devs \in Seq(Device) /\ Distinct(call'.devs)
        /\ Apart(call'.devs, driver.controllers)
    BY <1>1, <2>1, <2>2, TailVisits
  <2> QED BY <1>1, <2>3 DEF PortInv, Visits
<1>5. MemoryExact(Working, Pending)' /\ Running(Working)'
  BY <1>1, <1>2 DEF PortInv, MemoryExact, Running
<1> QED BY <1>1, <1>2, <1>3, <1>4, <1>5 DEF PortInv

\* A controller was reset, its ports come next.
LEMMA PortsMapped == PortInv /\ S!ControllerMapped => PortInv'
<1> SUFFICES ASSUME PortInv, S!ControllerMapped PROVE PortInv'
  OBVIOUS
<1>1. /\ at = "controller" /\ at' = "port" /\ UNCHANGED <<bus, driver, mem, engine>>
      /\ call.devs # <<>> /\ call' = [devs |-> call.devs, left |-> PortNums, active |-> {}]
  BY DEF S!ControllerMapped, S!hardware
<1>2. call.devs \in Seq(Device) /\ Distinct(call.devs) /\ Apart(call.devs, driver.controllers)
  BY <1>1 DEF PortInv, Visits
<1>3. /\ Pending = {} /\ Pending' = {} /\ Working' = Working /\ AllPlaces' = AllPlaces
  BY <1>1 DEF Pending, Working, Current, SettingUp, AllPlaces
<1>4. PortTypes'
  BY <1>1, <1>2 DEF PortInv, PortTypes, SettingUp
<1>5. Visits'
  BY <1>1, <1>2 DEF PortInv, Visits
<1>6. MemoryExact(Working, Pending)' /\ Running(Working)'
  BY <1>1, <1>3 DEF PortInv, MemoryExact, Running
<1> QED BY <1>1, <1>3, <1>4, <1>5, <1>6 DEF PortInv

\* The ports that are left when one is done with.
LEMMA PortDone ==
  ASSUME PortInv, SettingUp, call.left # {}
  PROVE  /\ S!NextPort \in [devs : Seq(Device), left : SUBSET PortNums, active : SUBSET PortNums]
         /\ S!NextPort.devs = call.devs /\ S!NextPort.active = call.active
         /\ S!NextPort.left = call.left \ {S!Min(call.left)}
<1>1. call \in [devs : Seq(Device), left : SUBSET PortNums, active : SUBSET PortNums]
  BY DEF PortInv, PortTypes
<1> QED BY <1>1 DEF S!NextPort

\* A port is passed over, or failed and holds nothing: the next one.
LEMMA PortsNextPort ==
  ASSUME PortInv, SettingUp, call.left # {}, call' = S!NextPort, at' = "port",
         UNCHANGED <<bus, driver>>, MemoryExact(Working, {})', Running(Working)',
         mem' \in [S!Ports -> [S!Buffers -> Int]],
         engine' \in [S!Ports -> {"on", "off", "stopping"}]
  PROVE  PortInv'
<1>1. /\ call' \in [devs : Seq(Device), left : SUBSET PortNums, active : SUBSET PortNums]
      /\ call'.devs = call.devs /\ call'.active = call.active
      /\ call'.left = call.left \ {S!Min(call.left)}
  BY PortDone
<1>2. Pending' = {} /\ AllPlaces' = AllPlaces
  BY <1>1 DEF Pending, SettingUp, AllPlaces
<1>3. PortTypes'
  BY <1>1 DEF PortInv, PortTypes, SettingUp
<1>4. Visits'
  BY <1>1 DEF PortInv, Visits, SettingUp
<1>5. MemoryExact(Working, Pending)'
  BY <1>2 DEF MemoryExact
<1> QED BY <1>2, <1>3, <1>4, <1>5 DEF PortInv

\* The set of working ports in terms of the call's variables.
LEMMA WorkingKept ==
  ASSUME SettingUp, SettingUp', UNCHANGED driver, call'.devs = call.devs,
         call'.active = call.active
  PROVE  Working' = Working
  BY DEF Working, Current

\* A port without a drive, or beyond the limit, is passed over.
LEMMA PortsSkipped == PortInv /\ S!PortSkipped => PortInv'
<1> SUFFICES ASSUME PortInv, S!PortSkipped PROVE PortInv'
  OBVIOUS
<1>1. /\ at = "port" /\ at' = "port" /\ UNCHANGED <<bus, driver, mem, engine>>
      /\ call.left # {} /\ call' = S!NextPort
  BY DEF S!PortSkipped, S!hardware
<1>2. Working' = Working
  BY <1>1, PortDone, WorkingKept DEF SettingUp
<1>3. MemoryExact(Working, {})' /\ Running(Working)'
  <2>1. Pending = {}
    BY <1>1 DEF Pending
  <2> QED BY <1>1, <1>2, <2>1 DEF PortInv, MemoryExact, Running
<1>4. /\ mem' \in [S!Ports -> [S!Buffers -> Int]]
      /\ engine' \in [S!Ports -> {"on", "off", "stopping"}]
  BY <1>1 DEF PortInv, PortTypes
<1> QED BY <1>1, <1>3, <1>4, PortsNextPort DEF SettingUp

\* Allocating the first k buffers and giving them back changes nothing.
LEMMA BuffersGivenBack ==
  ASSUME NEW m \in [S!Buffers -> Int], NEW B
  PROVE  S!free_dma_buffer(S!alloc_dma_buffer(m, B), B) = m
<1> DEFINE a == S!alloc_dma_buffer(m, B)
<1>1. a = [b \in S!Buffers |-> IF b \in B THEN m[b] + 1 ELSE m[b]]
  BY DEF S!alloc_dma_buffer
<1>2. S!free_dma_buffer(a, B) = [b \in S!Buffers |-> IF b \in B THEN a[b] - 1 ELSE a[b]]
  BY DEF S!free_dma_buffer
<1> HIDE DEF a
<1>3. \A b \in S!Buffers : (IF b \in B THEN a[b] - 1 ELSE a[b]) = m[b]
  BY <1>1
<1>4. S!free_dma_buffer(a, B) = [b \in S!Buffers |-> m[b]]
  BY <1>2, <1>3
<1> QED BY <1>4 DEF a

\* The buffers of a port are those that are not the one for the identification.
LEMMA PortBuffers ==
  /\ \A b \in S!Buffers : b # 0 <=> b \in 1..S!LastBuffer
  /\ \A m \in [S!Buffers -> Int] :
       /\ S!alloc_dma_buffer(m, 1..S!LastBuffer) \in [S!Buffers -> Int]
       /\ S!free_port_memory(m) \in [S!Buffers -> Int]
       /\ \A b \in S!Buffers :
            /\ S!alloc_dma_buffer(m, 1..S!LastBuffer)[b] = IF b # 0 THEN m[b] + 1 ELSE m[b]
            /\ S!free_port_memory(m)[b] = IF b # 0 THEN m[b] - 1 ELSE m[b]
<1>1. S!LastBuffer \in Nat
  BY StorageAssumption DEF S!LastBuffer
<1>2. \A b \in S!Buffers : b # 0 <=> b \in 1..S!LastBuffer
  BY <1>1 DEF S!Buffers
<1> HIDE DEF S!Buffers
<1> QED BY <1>2 DEF S!alloc_dma_buffer, S!free_port_memory, S!free_dma_buffer

\* The memory of the port that is being set up is allocated, or none of it is.
LEMMA PortsInitPort == PortInv /\ S!init_port => PortInv'
<1> SUFFICES ASSUME PortInv, S!init_port PROVE PortInv'
  OBVIOUS
<1> DEFINE p == S!ThisPort
<1>1. /\ at = "port" /\ call.left # {} /\ UNCHANGED <<bus, driver>> /\ S!stop_port({p})
  BY DEF S!init_port, S!hardware
<1>2. PICK k \in 0..S!LastBuffer :
        /\ S!allocate_port_memory(k)
        /\ k < S!LastBuffer => call' = S!NextPort /\ UNCHANGED at
        /\ ~(k < S!LastBuffer) => UNCHANGED call /\ at' = "start"
  BY DEF S!init_port
<1>3. p \in S!Ports /\ p \notin Working
  BY <1>1, ThisPortIsNew DEF SettingUp
<1>4. /\ mem \in [S!Ports -> [S!Buffers -> Int]]
      /\ engine \in [S!Ports -> {"on", "off", "stopping"}]
  BY DEF PortInv, PortTypes
<1>5. PICK now : now \in {"on", "off", "stopping"} /\ engine' = [engine EXCEPT ![p] = now]
  <2>1. PICK stuck \in SUBSET {p} :
          engine' = [q \in S!Ports |-> IF q \in stuck THEN "stopping"
                                       ELSE IF q \in {p} THEN "off" ELSE engine[q]]
    BY <1>1 DEF S!stop_port
  <2> HIDE DEF p
  <2>2. CASE p \in stuck
    <3>1. engine' = [engine EXCEPT ![p] = "stopping"]
      BY <1>4, <2>1, <2>2
    <3> QED BY <3>1
  <2>3. CASE p \notin stuck
    <3>1. engine' = [engine EXCEPT ![p] = "off"]
      BY <1>4, <2>1, <2>3
    <3> QED BY <3>1
  <2> QED BY <2>2, <2>3
<1>6. engine' \in [S!Ports -> {"on", "off", "stopping"}]
  BY <1>4, <1>5
<1>7. \A q \in Working : engine'[q] = "on"
  <2> HIDE DEF p
  <2>1. Working \subseteq S!Ports
    BY WorkingArePorts
  <2>2. \A q \in Working : q \in S!Ports /\ q # p /\ engine[q] = "on"
    BY <1>3, <2>1 DEF PortInv, Running
  <2> QED BY <1>4, <1>5, <2>2
<1>8. MemoryExact(Working, {})
  <2>1. Pending = {}
    BY <1>1 DEF Pending
  <2> QED BY <2>1 DEF PortInv
<1>9. CASE k < S!LastBuffer
  <2>1. mem' = [mem EXCEPT ![p] = S!free_dma_buffer(S!alloc_dma_buffer(mem[p], 1..k), 1..k)]
    BY <1>2, <1>9 DEF S!allocate_port_memory, S!FreedAfter
  <2>2. S!free_dma_buffer(S!alloc_dma_buffer(mem[p], 1..k), 1..k) = mem[p]
    BY <1>3, <1>4, BuffersGivenBack
  <2>3. mem' = mem
    BY <1>3, <1>4, <2>1, <2>2
  <2>4. Working' = Working
    BY <1>1, <1>2, <1>9, PortDone, WorkingKept DEF SettingUp
  <2>5. MemoryExact(Working, {})' /\ Running(Working)'
    BY <1>7, <1>8, <2>3, <2>4 DEF MemoryExact, Running
  <2> QED BY <1>1, <1>2, <1>4, <1>6, <1>9, <2>3, <2>5, PortsNextPort DEF SettingUp
<1>10. CASE ~(k < S!LastBuffer)
  <2>1. k = S!LastBuffer
    BY <1>10, StorageAssumption DEF S!LastBuffer
  <2>2. mem' = [mem EXCEPT ![p] = S!alloc_dma_buffer(mem[p], 1..S!LastBuffer)]
    BY <1>2, <1>10, <2>1 DEF S!allocate_port_memory
  <2>3. at' = "start" /\ call' = call /\ SettingUp /\ SettingUp'
    BY <1>1, <1>2, <1>10 DEF SettingUp
  <2>4. Working' = Working /\ Pending' = {p} /\ AllPlaces' = AllPlaces
    BY <1>1, <2>3, WorkingKept DEF Pending, AllPlaces, S!ThisPort
  <2> HIDE DEF p
  <2>5. mem' \in [S!Ports -> [S!Buffers -> Int]]
    BY <1>3, <1>4, <2>2, PortBuffers
  <2>6. \A q \in S!Ports, b \in S!Buffers :
          mem'[q][b] = IF b # 0 /\ q \in Working \cup {p} THEN 1 ELSE 0
    <3> SUFFICES ASSUME NEW q \in S!Ports, NEW b \in S!Buffers
                 PROVE  mem'[q][b] = IF b # 0 /\ q \in Working \cup {p} THEN 1 ELSE 0
      OBVIOUS
    <3>1. mem[q][b] = IF b # 0 /\ q \in Working THEN 1 ELSE 0
      BY <1>8 DEF MemoryExact
    <3>2. CASE q = p
      <4>1. mem'[q][b] = IF b # 0 THEN mem[q][b] + 1 ELSE mem[q][b]
        BY <1>3, <1>4, <2>2, <3>2, PortBuffers
      <4> QED BY <1>3, <3>1, <3>2, <4>1
    <3>3. CASE q # p
      BY <1>4, <2>2, <3>1, <3>3
    <3> QED BY <3>2, <3>3
  <2>7. PortTypes'
    BY <1>1, <1>6, <2>3, <2>5 DEF PortInv, PortTypes, SettingUp
  <2>8. Visits'
    BY <1>1, <2>3 DEF PortInv, Visits, SettingUp
  <2>9. MemoryExact(Working, Pending)' /\ Running(Working)'
    BY <1>7, <2>4, <2>6 DEF MemoryExact, Running
  <2> QED BY <1>1, <2>3, <2>4, <2>7, <2>8, <2>9 DEF PortInv
<1> QED BY <1>9, <1>10

\* The drive of the port answered: the port works and is the next place.
LEMMA PortsIdentified == PortInv /\ S!PortIdentified => PortInv'
<1> SUFFICES ASSUME PortInv, S!PortIdentified PROVE PortInv'
  OBVIOUS
<1> DEFINE p == S!ThisPort
           n == S!Min(call.left)
           m == Len(driver.controllers) + 1
<1>1. /\ at = "start" /\ at' = "port" /\ bus' = bus
      /\ engine' = [engine EXCEPT ![p] = "on"]
      /\ mem' = [mem EXCEPT ![p] = S!free_dma_buffer(S!alloc_dma_buffer(mem[p], {0}), {0})]
      /\ driver' = [driver EXCEPT !.total_ports = @ + 1]
      /\ call' = [S!NextPort EXCEPT !.active = @ \cup {n}]
  BY DEF S!PortIdentified, S!hardware
<1>2. call.left # {} /\ SettingUp /\ SettingUp'
  BY <1>1 DEF PortInv, PortTypes, SettingUp
<1>3. /\ p \in S!Ports /\ p \notin Working /\ p = <<Head(call.devs).hba, n>>
      /\ n \in call.left /\ n \in PortNums
  BY <1>2, ThisPortIsNew
<1>4. /\ call' \in [devs : Seq(Device), left : SUBSET PortNums, active : SUBSET PortNums]
      /\ call'.devs = call.devs /\ call'.active = call.active \cup {n}
      /\ call'.left = call.left \ {n}
  BY <1>1, <1>2, <1>3, PortDone
<1>5. /\ mem \in [S!Ports -> [S!Buffers -> Int]] /\ driver \in DriverType
      /\ engine \in [S!Ports -> {"on", "off", "stopping"}]
      /\ call.devs # <<>> /\ call.active \cap call.left = {}
  BY <1>2 DEF PortInv, PortTypes
<1>6. /\ driver' \in DriverType /\ driver'.controllers = driver.controllers
      /\ driver'.total_ports = driver.total_ports + 1
  BY <1>1, <1>5 DEF DriverType
<1>7. mem' = mem
  <2>1. S!free_dma_buffer(S!alloc_dma_buffer(mem[p], {0}), {0}) = mem[p]
    BY <1>3, <1>5, BuffersGivenBack
  <2> QED BY <1>1, <1>3, <1>5, <2>1
<1>8. Working' = Working \cup {p} /\ Pending = {p} /\ Pending' = {}
  <2>1. S!ActivePorts(driver') = S!ActivePorts(driver)
    BY <1>6, SameControllers
  <2>2. {<<Head(call'.devs).hba, i>> : i \in call'.active}
          = {<<Head(call.devs).hba, i>> : i \in call.active} \cup {p}
    BY <1>3, <1>4
  <2>3. Working' = S!ActivePorts(driver') \cup {<<Head(call'.devs).hba, i>> : i \in call'.active}
    BY <1>2 DEF Working, Current
  <2>4. Working = S!ActivePorts(driver) \cup {<<Head(call.devs).hba, i>> : i \in call.active}
    BY <1>2 DEF Working, Current
  <2>5. Pending = {p} /\ Pending' = {}
    BY <1>1 DEF Pending
  <2> QED BY <2>1, <2>2, <2>3, <2>4, <2>5
<1>9. AllPlaces' = AllPlaces \cup {<<m, n>>} /\ <<m, n>> \notin AllPlaces
  <2>1. S!Places(driver') = S!Places(driver)
    BY <1>6, SameControllers
  <2>2. AllPlaces' = S!Places(driver') \cup ({Len(driver'.controllers) + 1} \X call'.active)
    BY <1>2 DEF AllPlaces
  <2>3. AllPlaces = S!Places(driver) \cup ({m} \X call.active)
    BY <1>2 DEF AllPlaces
  <2>4. <<m, n>> \notin S!Places(driver)
    <3>1. \A a \in S!Places(driver) : a[1] \in DOMAIN driver.controllers
      BY DEF S!Places
    <3>2. m \notin DOMAIN driver.controllers
      BY <1>5 DEF DriverType
    <3> HIDE DEF m, n
    <3> QED BY <3>1, <3>2
  <2> HIDE DEF m, n
  <2>5. <<m, n>> \notin {m} \X call.active
    BY <1>3, <1>5
  <2>6. {m} \X call'.active = ({m} \X call.active) \cup {<<m, n>>}
    BY <1>4
  <2>7. Len(driver'.controllers) + 1 = m
    BY <1>6 DEF m
  <2> QED BY <2>1, <2>2, <2>3, <2>4, <2>5, <2>6, <2>7
<1>10. IsFiniteSet(AllPlaces') /\ driver'.total_ports = Cardinality(AllPlaces')
  <2>1. IsFiniteSet(AllPlaces) /\ driver.total_ports = Cardinality(AllPlaces)
    BY DEF PortInv
  <2>2. PICK new : new = <<m, n>>
    OBVIOUS
  <2>3. IsFiniteSet(AllPlaces \cup {new}) /\ Cardinality(AllPlaces \cup {new}) = Cardinality(AllPlaces) + 1
    BY <1>9, <2>1, <2>2, FS_AddElement, Zenon
  <2> HIDE DEF m, n
  <2> QED BY <1>6, <1>9, <2>1, <2>2, <2>3
<1>11. PortTypes'
  <2>1. engine' \in [S!Ports -> {"on", "off", "stopping"}]
    BY <1>1, <1>5
  <2>2. call'.devs # <<>> /\ call'.active \cap call'.left = {}
    BY <1>4, <1>5
  <2> QED BY <1>1, <1>4, <1>5, <1>6, <1>7, <2>1, <2>2 DEF PortInv, PortTypes, SettingUp
<1>12. Visits'
  BY <1>1, <1>2, <1>4, <1>6 DEF PortInv, Visits, SettingUp
<1>13. MemoryExact(Working, Pending)'
  <2>1. Working' \cup Pending' = Working \cup Pending
    BY <1>8
  <2> QED BY <1>7, <2>1 DEF PortInv, MemoryExact
<1>14. Running(Working)'
  <2>1. \A q \in Working : q \in S!Ports /\ engine[q] = "on"
    BY WorkingArePorts DEF PortInv, Running
  <2>2. \A q \in Working \cup {p} : engine'[q] = "on"
    BY <1>1, <1>3, <1>5, <2>1
  <2> QED BY <1>8, <2>2 DEF Running
<1> QED BY <1>1, <1>10, <1>11, <1>12, <1>13, <1>14 DEF PortInv

\* The drive of the port did not: its memory is given back.
LEMMA PortsPortFails == PortInv /\ S!PortFails => PortInv'
<1> SUFFICES ASSUME PortInv, S!PortFails PROVE PortInv'
  OBVIOUS
<1> DEFINE p == S!ThisPort
<1>1. /\ at = "start" /\ at' = "port" /\ UNCHANGED <<bus, driver>>
      /\ mem' = [mem EXCEPT ![p] = S!free_port_memory(mem[p])]
      /\ call' = S!NextPort
  BY DEF S!PortFails, S!hardware
<1>2. PICK now \in {"off", "stopping"} : engine' = [engine EXCEPT ![p] = now]
  BY DEF S!PortFails
<1>3. call.left # {} /\ SettingUp /\ SettingUp'
  BY <1>1 DEF PortInv, PortTypes, SettingUp
<1>4. p \in S!Ports /\ p \notin Working
  BY <1>3, ThisPortIsNew
<1>5. /\ mem \in [S!Ports -> [S!Buffers -> Int]]
      /\ engine \in [S!Ports -> {"on", "off", "stopping"}]
  BY DEF PortInv, PortTypes
<1>6. Working' = Working
  BY <1>1, <1>3, PortDone, WorkingKept
<1>7. Running(Working)'
  <2>1. \A q \in Working : q \in S!Ports /\ engine[q] = "on"
    BY WorkingArePorts DEF PortInv, Running
  <2> HIDE DEF p
  <2>2. \A q \in Working : engine'[q] = "on"
    BY <1>2, <1>4, <1>5, <2>1
  <2> QED BY <1>6, <2>2 DEF Running
<1>8. MemoryExact(Working, {})'
  <2> SUFFICES ASSUME NEW q \in S!Ports, NEW b \in S!Buffers
               PROVE  mem'[q][b] = IF b # 0 /\ q \in Working THEN 1 ELSE 0
    BY <1>6 DEF MemoryExact
  <2>1. Pending = {p}
    BY <1>1 DEF Pending
  <2>2. mem[q][b] = IF b # 0 /\ q \in Working \cup {p} THEN 1 ELSE 0
    BY <2>1 DEF PortInv, MemoryExact
  <2> HIDE DEF p
  <2>3. CASE q = p
    <3>1. mem'[q][b] = IF b # 0 THEN mem[q][b] - 1 ELSE mem[q][b]
      BY <1>1, <1>4, <1>5, <2>3, PortBuffers
    <3> QED BY <1>4, <2>2, <2>3, <3>1
  <2>4. CASE q # p
    BY <1>1, <1>5, <2>2, <2>4
  <2> QED BY <2>3, <2>4
<1>9. /\ mem' \in [S!Ports -> [S!Buffers -> Int]]
      /\ engine' \in [S!Ports -> {"on", "off", "stopping"}]
  <2> HIDE DEF p
  <2> QED BY <1>1, <1>2, <1>4, <1>5, PortBuffers
<1> QED BY <1>1, <1>3, <1>7, <1>8, <1>9, PortsNextPort

\* The ports of the controller are done: it joins the list if one of them works.
LEMMA PortsInitController == PortInv /\ S!init_controller => PortInv'
<1> SUFFICES ASSUME PortInv, S!init_controller PROVE PortInv'
  OBVIOUS
<1> DEFINE h == Head(call.devs).hba
           c == [hba |-> h, ports_active |-> call.active]
<1>1. /\ at = "port" /\ at' = "controller" /\ UNCHANGED <<bus, mem, engine>>
      /\ call' = [devs |-> Tail(call.devs)]
      /\ \/ call.active = {} /\ driver' = driver
         \/ driver' = [driver EXCEPT !.controllers = Append(@, c)]
  BY DEF S!init_controller, S!hardware
<1>2. /\ call \in [devs : Seq(Device), left : SUBSET PortNums, active : SUBSET PortNums]
      /\ call.devs # <<>> /\ driver \in DriverType
  BY <1>1 DEF PortInv, PortTypes, SettingUp
<1>3. Distinct(call.devs) /\ Distinct(driver.controllers) /\ Apart(call.devs, driver.controllers)
  BY <1>1 DEF PortInv, Visits
<1>4. h \in Hbas
  <2>1. Head(call.devs) \in Device
    BY <1>2
  <2> QED BY <2>1 DEF Device
<1>5. /\ Pending = {} /\ Pending' = {}
      /\ Working = S!ActivePorts(driver) \cup {<<h, n>> : n \in call.active}
      /\ Working' = S!ActivePorts(driver')
      /\ AllPlaces = S!Places(driver) \cup ({Len(driver.controllers) + 1} \X call.active)
      /\ AllPlaces' = S!Places(driver')
  BY <1>1 DEF Pending, Working, Current, SettingUp, AllPlaces
<1>6. call'.devs = Tail(call.devs)
  BY <1>1
<1>7. Tail(call.devs) \in Seq(Device) /\ Distinct(Tail(call.devs))
      /\ Apart(Tail(call.devs), driver.controllers)
  BY <1>2, <1>3, TailVisits
<1>8. SUFFICES /\ Working' = Working /\ AllPlaces' = AllPlaces /\ driver' \in DriverType
               /\ driver'.total_ports = driver.total_ports
               /\ Distinct(driver'.controllers) /\ Apart(Tail(call.devs), driver'.controllers)
  <2>1. PortTypes'
    BY <1>1, <1>8 DEF PortInv, PortTypes, SettingUp
  <2>2. Visits'
    BY <1>1, <1>6, <1>7, <1>8 DEF Visits
  <2>3. MemoryExact(Working, Pending)' /\ Running(Working)'
    BY <1>1, <1>5, <1>8 DEF PortInv, MemoryExact, Running
  <2> QED BY <1>1, <1>8, <2>1, <2>2, <2>3 DEF PortInv
<1>9. CASE call.active = {} /\ driver' = driver
  BY <1>2, <1>3, <1>5, <1>7, <1>9
<1>10. CASE driver' = [driver EXCEPT !.controllers = Append(@, c)]
  <2>1. c \in ControllerRecord /\ c.hba = h /\ c.ports_active = call.active
    BY <1>2, <1>4 DEF ControllerRecord
  <2>2. driver.controllers \in Seq(ControllerRecord)
    BY <1>2 DEF DriverType
  <2>3. driver'.controllers = Append(driver.controllers, c) /\ driver'.total_ports = driver.total_ports
    BY <1>2, <1>10 DEF DriverType
  <2> HIDE DEF c, h
  <2>4. /\ Distinct(driver'.controllers) /\ Apart(Tail(call.devs), driver'.controllers)
        /\ driver'.controllers \in Seq(ControllerRecord)
    BY <1>2, <1>3, <2>1, <2>2, <2>3, AppendVisits DEF h
  <2>5. /\ S!Places(driver') = S!Places(driver) \cup ({Len(driver.controllers) + 1} \X call.active)
        /\ S!ActivePorts(driver') = S!ActivePorts(driver) \cup {<<h, n>> : n \in call.active}
    <3>1. PICK d, e : d = driver /\ e = driver'
      OBVIOUS
    <3>2. d.controllers \in Seq(ControllerRecord) /\ e.controllers = Append(d.controllers, c)
      BY <2>2, <2>3, <3>1
    <3>3. /\ S!Places(e) = S!Places(d) \cup ({Len(d.controllers) + 1} \X c.ports_active)
          /\ S!ActivePorts(e) = S!ActivePorts(d) \cup {<<c.hba, n>> : n \in c.ports_active}
      BY <3>2, AppendPlaces
    <3> QED BY <2>1, <3>1, <3>3
  <2>6. driver' \in DriverType
    BY <1>2, <1>10, <2>3, <2>4 DEF DriverType
  <2> QED BY <1>5, <2>3, <2>4, <2>5, <2>6
<1> QED BY <1>1, <1>9, <1>10

\* sata_shutdown gives back what the active ports hold.
LEMMA PortsShutdown == PortInv /\ S!sata_shutdown => PortInv'
<1> SUFFICES ASSUME PortInv, S!sata_shutdown PROVE PortInv'
  OBVIOUS
<1> DEFINE active == S!ActivePorts(driver)
<1>1. /\ at = "idle" /\ at' = "idle" /\ bus' = bus /\ driver' = S!Reset /\ S!stop_port(active)
      /\ mem' = [p \in S!Ports |-> IF p \in active THEN S!free_port_memory(mem[p]) ELSE mem[p]]
  BY DEF S!sata_shutdown, S!Idle, S!hardware
<1>2. /\ driver'.controllers = <<>> /\ driver'.total_ports = 0 /\ driver' \in DriverType
  BY <1>1 DEF S!Reset, DriverType
<1>3. /\ Working = active /\ Pending = {} /\ Working' = {} /\ Pending' = {} /\ AllPlaces' = {}
  BY <1>1, <1>2, NoControllers DEF Pending, AllPlaces, Working, Current, SettingUp
<1> HIDE DEF active
<1>4. /\ mem \in [S!Ports -> [S!Buffers -> Int]]
      /\ engine \in [S!Ports -> {"on", "off", "stopping"}]
  BY DEF PortInv, PortTypes
<1>5. engine' \in [S!Ports -> {"on", "off", "stopping"}]
  BY <1>1, <1>4 DEF S!stop_port
<1>6. \A p \in S!Ports : mem'[p] \in [S!Buffers -> Int] /\ \A b \in S!Buffers : mem'[p][b] = 0
  <2> SUFFICES ASSUME NEW p \in S!Ports
               PROVE  mem'[p] \in [S!Buffers -> Int] /\ \A b \in S!Buffers : mem'[p][b] = 0
    OBVIOUS
  <2>1. mem[p] \in [S!Buffers -> Int]
        /\ \A b \in S!Buffers : mem[p][b] = IF b # 0 /\ p \in active THEN 1 ELSE 0
    BY <1>3, <1>4 DEF PortInv, MemoryExact
  <2>2. CASE p \in active
    <3>1. mem'[p] = S!free_port_memory(mem[p])
      BY <1>1, <2>2
    <3>2. /\ S!free_port_memory(mem[p]) \in [S!Buffers -> Int]
          /\ \A b \in S!Buffers :
               S!free_port_memory(mem[p])[b] = IF b # 0 THEN mem[p][b] - 1 ELSE mem[p][b]
      BY <2>1, PortBuffers
    <3> QED BY <2>1, <2>2, <3>1, <3>2
  <2>3. CASE p \notin active
    BY <1>1, <2>1, <2>3
  <2> QED BY <2>2, <2>3
<1>7. PortTypes'
  <2>1. mem' \in [S!Ports -> [S!Buffers -> Int]]
    BY <1>1, <1>6
  <2> QED BY <1>1, <1>2, <1>5, <2>1 DEF PortInv, PortTypes, SettingUp
<1>8. Visits'
  BY <1>1, <1>2 DEF Visits, Distinct
<1>9. MemoryExact(Working, Pending)' /\ Running(Working)'
  BY <1>3, <1>6 DEF MemoryExact, Running
<1> QED BY <1>2, <1>3, <1>7, <1>8, <1>9, FS_EmptySet DEF PortInv

\* An engine that stops late is not the one of a working port.
LEMMA PortsEngineStops ==
  ASSUME PortInv, NEW p \in S!Ports, S!EngineStops(p)
  PROVE  PortInv'
<1>1. /\ engine[p] = "stopping" /\ engine' = [engine EXCEPT ![p] = "off"]
      /\ UNCHANGED <<bus, driver, mem, at, call>>
  BY DEF S!EngineStops, S!hardware
<1>2. Pending' = Pending /\ Working' = Working /\ AllPlaces' = AllPlaces
  BY <1>1 DEF Pending, Working, Current, SettingUp, AllPlaces, S!ThisPort
<1>3. engine \in [S!Ports -> {"on", "off", "stopping"}]
  BY DEF PortInv, PortTypes
<1>4. PortTypes'
  BY <1>1, <1>3 DEF PortInv, PortTypes, SettingUp
<1>5. Visits'
  BY <1>1 DEF PortInv, Visits
<1>6. Running(Working)'
  <2>1. \A q \in Working : q \in S!Ports /\ engine[q] = "on"
    BY WorkingArePorts DEF PortInv, Running
  <2>2. \A q \in Working : engine'[q] = "on"
    BY <1>1, <1>3, <2>1
  <2> QED BY <1>2, <2>2 DEF Running
<1>7. MemoryExact(Working, Pending)'
  BY <1>1, <1>2 DEF PortInv, MemoryExact
<1> QED BY <1>1, <1>2, <1>4, <1>5, <1>6, <1>7 DEF PortInv

\* No step of the SATA driver, or of a controller, breaks the invariant.
LEMMA PortStep == PortInv /\ S!Next => PortInv'
<1> SUFFICES ASSUME PortInv, S!Next PROVE PortInv'
  OBVIOUS
<1>1. CASE S!sata_read \/ S!sata_write \/ S!sata_flush
  <2>1. PICK op, id, lba, data : S!Request(op, id, lba, data)
    BY <1>1 DEF S!sata_read, S!sata_write, S!sata_flush
  <2>2. UNCHANGED <<bus, driver, mem, engine>> /\ at = "idle" /\ at' \in {"idle", "send"}
    BY <2>1 DEF S!Request, S!Idle, S!hardware
  <2> QED BY <2>2, PortsUntouched
<1>2. CASE \/ S!port_send_command \/ S!IssueCommand \/ S!AllSent
           \/ S!wait_for_command_completion
  <2>1. /\ UNCHANGED <<bus, driver, mem, engine>> /\ at \in {"send", "issue", "wait"}
        /\ at' \in {"idle", "send", "issue", "wait"}
    BY <1>2 DEF S!port_send_command, S!IssueCommand, S!AllSent, S!wait_for_command_completion, S!SlotCleared,
                S!WaitTimesOut, S!Return, S!hardware
  <2> QED BY <2>1, PortsUntouched
<1>3. ASSUME NEW p \in S!Ports, NEW s \in S!Slots, S!HbaExecutes(p, s) \/ S!HbaFails(p, s)
      PROVE  PortInv'
  <2>1. UNCHANGED <<bus, driver, mem, engine, at, call>>
    BY <1>3 DEF S!HbaExecutes, S!HbaFails, S!hardware
  <2> QED BY <2>1, PortsKept
<1> QED BY <1>1, <1>2, <1>3, PortsSataInit, PortsShutdown, PortsFound, PortsControllerFails,
           PortsMapped, PortsSkipped, PortsInitPort, PortsIdentified, PortsPortFails,
           PortsInitController, PortsEngineStops DEF S!Next, S!DriverStep

\* The NVMe driver shares only the bus with it, and leaves it alone.
LEMMA PortNext == PortInv /\ [Next]_vars => PortInv'
<1> SUFFICES ASSUME PortInv, [Next]_vars PROVE PortInv'
  OBVIOUS
<1>1. CASE inUse = "sata" /\ S!Next
  BY <1>1, PortStep
<1>2. CASE N!Next /\ UNCHANGED sata
  <2>1. UNCHANGED bus
    BY <1>2 DEF N!Next, N!nvme_init, N!nvme_shutdown, N!RequestFails, N!nvme_read, N!nvme_write,
                N!nvme_flush, N!DriverStep, N!ReadEnds, N!WriteDone, N!WriteTimesOut, N!Completes
  <2> QED BY <1>2, <2>1, PortsKept DEF sata
<1>3. CASE UNCHANGED vars
  BY <1>3, PortsKept DEF vars, sata
<1> QED BY <1>1, <1>2, <1>3 DEF Next

-----------------------------------------------------------------------------
(* The identifiers of the ports. *)

\* The instance of the driver counts as everybody does.
LEMMA SameCount == \A T : S!Cardinality(T) = Cardinality(T)
  BY DEF S!Cardinality, Cardinality

\* The order in which the search visits the places.
Before(a, b) == a[1] < b[1] \/ (a[1] = b[1] /\ a[2] < b[2])

\* The places are pairs of numbers, so they are ordered.
LEMMA PlacesOrdered ==
  ASSUME NEW d \in DriverType
  PROVE  /\ S!Places(d) \subseteq Nat \X Nat
         /\ \A a \in S!Places(d) : S!Earlier(d, a) = {b \in S!Places(d) : Before(b, a)}
         /\ \A a, b \in S!Places(d) : a # b => Before(a, b) \/ Before(b, a)
         /\ \A a \in S!Places(d) : ~Before(a, a)
         /\ \A a, b, c \in S!Places(d) : Before(a, b) /\ Before(b, c) => Before(a, c)
<1>1. S!Places(d) \subseteq Nat \X Nat
  <2> SUFFICES ASSUME NEW a \in S!Places(d) PROVE a \in Nat \X Nat
    OBVIOUS
  <2>1. PICK i \in DOMAIN d.controllers : a \in {i} \X d.controllers[i].ports_active
    BY DEF S!Places
  <2>2. d.controllers \in Seq(ControllerRecord)
    BY DEF DriverType
  <2>3. i \in Nat /\ d.controllers[i] \in ControllerRecord
    BY <2>1, <2>2
  <2>4. PortNums \in SUBSET Nat
    BY StorageAssumption
  <2>5. d.controllers[i].ports_active \in SUBSET Nat
    BY <2>3, <2>4 DEF ControllerRecord
  <2> QED BY <2>1, <2>3, <2>5
<1>2. \A a \in S!Places(d) : a[1] \in Nat /\ a[2] \in Nat /\ a = <<a[1], a[2]>>
  BY <1>1
<1>3. \A a \in S!Places(d) : S!Earlier(d, a) = {b \in S!Places(d) : Before(b, a)}
  BY DEF S!Earlier, Before
<1>4. \A a, b \in S!Places(d) : a # b => Before(a, b) \/ Before(b, a)
  <2> SUFFICES ASSUME NEW a \in S!Places(d), NEW b \in S!Places(d), ~Before(a, b), ~Before(b, a)
               PROVE  a = b
    OBVIOUS
  <2>1. a[1] = b[1] /\ a[2] = b[2]
    BY <1>2 DEF Before
  <2> QED BY <1>2, <2>1
<1>5. \A a \in S!Places(d) : ~Before(a, a)
  BY <1>2 DEF Before
<1>6. \A a, b, c \in S!Places(d) : Before(a, b) /\ Before(b, c) => Before(a, c)
  BY <1>2 DEF Before
<1> QED BY <1>1, <1>3, <1>4, <1>5, <1>6

\* The number of places before a place tells it from the others and is less
\* than the number of places.
LEMMA RanksDiffer ==
  ASSUME NEW d \in DriverType, IsFiniteSet(S!Places(d))
  PROVE  /\ \A a \in S!Places(d) :
              Cardinality(S!Earlier(d, a)) \in 0..Cardinality(S!Places(d)) - 1
         /\ \A a, b \in S!Places(d) :
              Cardinality(S!Earlier(d, a)) = Cardinality(S!Earlier(d, b)) => a = b
<1> DEFINE P == S!Places(d)
           E(a) == S!Earlier(d, a)
<1>0. Cardinality(P) \in Nat
  BY FS_CardinalityType
<1>1. \A a \in P : E(a) = {b \in P : Before(b, a)}
  BY PlacesOrdered
<1>2. ASSUME NEW a \in P
      PROVE  /\ IsFiniteSet(E(a)) /\ Cardinality(E(a)) \in Nat /\ a \notin E(a)
             /\ IsFiniteSet(E(a) \cup {a}) /\ Cardinality(E(a) \cup {a}) = Cardinality(E(a)) + 1
             /\ E(a) \cup {a} \subseteq P
  <2>1. E(a) \in SUBSET P /\ a \notin E(a)
    BY <1>1, PlacesOrdered
  <2> HIDE DEF P, E
  <2>2. IsFiniteSet(E(a))
    BY <2>1, FS_Subset DEF P
  <2> QED BY <2>1, <2>2, FS_AddElement, FS_CardinalityType
<1>3. ASSUME NEW a \in P PROVE Cardinality(E(a)) \in 0..Cardinality(P) - 1
  <2> HIDE DEF P, E
  <2>1. Cardinality(E(a) \cup {a}) <= Cardinality(P)
    BY <1>2, FS_Subset DEF P
  <2>2. PICK r, n : r = Cardinality(E(a)) /\ n = Cardinality(P)
    OBVIOUS
  <2>3. r \in Nat /\ n \in Nat /\ r + 1 <= n
    BY <1>0, <1>2, <2>1, <2>2
  <2>4. r \in 0..n - 1
    BY <2>3
  <2> QED BY <2>2, <2>4
<1>4. ASSUME NEW a \in P, NEW b \in P, Before(a, b)
      PROVE  Cardinality(E(a)) < Cardinality(E(b))
  <2>1. E(a) \cup {a} \subseteq E(b)
    BY <1>1, <1>4, PlacesOrdered
  <2> HIDE DEF P, E
  <2>2. Cardinality(E(a) \cup {a}) <= Cardinality(E(b))
    BY <1>2, <2>1, FS_Subset
  <2>3. PICK q, r : q = Cardinality(E(a)) /\ r = Cardinality(E(b))
    OBVIOUS
  <2>4. q \in Nat /\ r \in Nat /\ q + 1 <= r
    BY <1>2, <2>2, <2>3
  <2>5. q < r
    BY <2>4
  <2> QED BY <2>3, <2>5
<1>5. ASSUME NEW a \in P, NEW b \in P, Cardinality(E(a)) = Cardinality(E(b)) PROVE a = b
  <2>1. ~Before(a, b) /\ ~Before(b, a)
    <3> HIDE DEF P, E
    <3>1. PICK q, r : q = Cardinality(E(a)) /\ r = Cardinality(E(b))
      OBVIOUS
    <3>2. q \in Nat /\ ~(q < r) /\ ~(r < q)
      <4>1. q \in Nat /\ r = q
        BY <1>2, <1>5, <3>1
      <4> QED BY <4>1
    <3> QED BY <1>4, <3>1, <3>2
  <2> QED BY <2>1, PlacesOrdered
<1> QED BY <1>3, <1>5

\* The search finds one place for each identifier below the number of places, and
\* these are all places.
LEMMA SearchFindsAll ==
  ASSUME NEW d \in DriverType, IsFiniteSet(S!Places(d))
  PROVE  \A id \in 0..Cardinality(S!Places(d)) - 1 : \E a \in S!Places(d) : S!Found(d, id) = {a}
<1> DEFINE P == S!Places(d)
           n == Cardinality(P)
           rank == [a \in P |-> Cardinality(S!Earlier(d, a))]
<1>1. n \in Nat
  BY FS_CardinalityType
<1>2. rank \in [P -> 0..n - 1] /\ \A a, b \in P : rank[a] = rank[b] => a = b
  BY RanksDiffer
<1>3. \A id : S!Found(d, id) = {a \in P : rank[a] = id}
  <2> SUFFICES ASSUME NEW id PROVE S!Found(d, id) = {a \in P : rank[a] = id}
    OBVIOUS
  <2>1. S!Found(d, id) = {a \in P : Cardinality(S!Earlier(d, a)) = id}
    BY SameCount DEF S!Found
  <2>2. \A a \in P : rank[a] = Cardinality(S!Earlier(d, a))
    <3> HIDE DEF P
    <3> QED OBVIOUS
  <2> HIDE DEF P, rank
  <2> QED BY <2>1, <2>2
<1> HIDE DEF P, n, rank
<1>4. rank \in Injection(P, 0..n - 1)
  BY <1>2 DEF Injection, IsInjective
<1>5. IsFiniteSet(0..n - 1) /\ Cardinality(0..n - 1) = n
  BY <1>1, FS_Interval
<1>6. rank \in Surjection(P, 0..n - 1)
  BY <1>4, <1>5, FS_Injection DEF n
<1>7. \A id \in 0..n - 1 : \E a \in P : rank[a] = id
  BY <1>6 DEF Surjection
<1>8. ASSUME NEW id \in 0..n - 1 PROVE \E a \in P : S!Found(d, id) = {a}
  <2>1. PICK a \in P : rank[a] = id
    BY <1>7
  <2>2. S!Found(d, id) = {a}
    BY <1>2, <1>3, <2>1
  <2> QED BY <2>2
<1> QED BY <1>8 DEF P, n

\* Each controller is in the list once, so different places are different ports.
LEMMA PlacesArePorts ==
  ASSUME NEW d \in DriverType, IsFiniteSet(S!Places(d)), Distinct(d.controllers)
  PROVE  Cardinality(S!ActivePorts(d)) = Cardinality(S!Places(d))
<1> DEFINE P == S!Places(d)
           A == S!ActivePorts(d)
           port == [a \in P |-> S!PortAt(d, a)]
<1>1. \A a, b \in P : S!PortAt(d, a) = S!PortAt(d, b) => a = b
  <2> SUFFICES ASSUME NEW a \in P, NEW b \in P, S!PortAt(d, a) = S!PortAt(d, b)
               PROVE  a = b
    OBVIOUS
  <2>1. a[1] \in DOMAIN d.controllers /\ b[1] \in DOMAIN d.controllers
    BY DEF S!Places
  <2>2. d.controllers[a[1]].hba = d.controllers[b[1]].hba /\ a[2] = b[2]
    BY DEF S!PortAt
  <2>3. a[1] = b[1]
    BY <2>1, <2>2 DEF Distinct
  <2>4. a = <<a[1], a[2]>> /\ b = <<b[1], b[2]>>
    BY PlacesOrdered
  <2> QED BY <2>2, <2>3, <2>4
<1>2. A = {S!PortAt(d, a) : a \in P}
  BY DEF S!ActivePorts
<1> HIDE DEF P, A
<1>3. port \in Bijection(P, A)
  BY <1>1, <1>2 DEF Bijection, Injection, Surjection, IsInjective
<1>4. ExistsBijection(P, A)
  BY <1>3 DEF ExistsBijection
<1> QED BY <1>4, FS_Bijection DEF P, A

\* Between calls the identifiers below the count that sata_get_port_count reports
\* are those the search finds, each names one port, they name all active ports, and
\* these hold their DMA memory exactly once (sata_init, sata_shutdown and the failure
\* paths of init_controller, init_port and allocate_port_memory).
THEOREM SataPortsExact == Spec => []PortsExact
<1>1. PortInv => PortsExact
  <2> SUFFICES ASSUME PortInv, at = "idle"
               PROVE  /\ Cardinality(S!ActivePorts(driver)) = driver.total_ports
                      /\ \A id \in 0..driver.total_ports - 1 : S!Found(driver, id) # {}
                      /\ S!ActivePorts(driver)
                           = {S!PortById(driver, id) : id \in 0..driver.total_ports - 1}
                      /\ \A p \in S!Ports, b \in S!Buffers :
                           mem[p][b] = IF p \in S!ActivePorts(driver) /\ b # 0 THEN 1 ELSE 0
    BY SameCount, Zenon DEF PortsExact, S!PortsExact, S!Idle
  <2>1. AllPlaces = S!Places(driver) /\ Working = S!ActivePorts(driver) /\ Pending = {}
    BY DEF AllPlaces, Working, Current, Pending, SettingUp
  <2>2. /\ driver \in DriverType /\ IsFiniteSet(S!Places(driver)) /\ Distinct(driver.controllers)
        /\ driver.total_ports = Cardinality(S!Places(driver))
    BY <2>1 DEF PortInv, PortTypes, Visits
  <2>3. Cardinality(S!ActivePorts(driver)) = driver.total_ports
    BY <2>2, PlacesArePorts
  <2>4. \A id \in 0..driver.total_ports - 1 :
          \E a \in S!Places(driver) : S!Found(driver, id) = {a} /\ S!PortById(driver, id) = S!PortAt(driver, a)
    <3> SUFFICES ASSUME NEW id \in 0..driver.total_ports - 1
                 PROVE  \E a \in S!Places(driver) :
                          S!Found(driver, id) = {a} /\ S!PortById(driver, id) = S!PortAt(driver, a)
      OBVIOUS
    <3>1. PICK a \in S!Places(driver) : S!Found(driver, id) = {a}
      BY <2>2, SearchFindsAll
    <3>2. (CHOOSE x \in S!Found(driver, id) : TRUE) = a
      BY <3>1
    <3>3. S!PortById(driver, id) = S!PortAt(driver, a)
      BY <3>2 DEF S!PortById
    <3> QED BY <3>1, <3>3
  <2>5. \A a \in S!Places(driver) : \E id \in 0..driver.total_ports - 1 : a \in S!Found(driver, id)
    <3> SUFFICES ASSUME NEW a \in S!Places(driver)
                 PROVE  \E id \in 0..driver.total_ports - 1 : a \in S!Found(driver, id)
      OBVIOUS
    <3>1. PICK id : id = Cardinality(S!Earlier(driver, a))
      OBVIOUS
    <3>2. id \in 0..driver.total_ports - 1
      BY <2>2, <3>1, RanksDiffer
    <3>3. a \in S!Found(driver, id)
      BY <3>1, SameCount, Zenon DEF S!Found
    <3> QED BY <3>2, <3>3
  <2>6. S!ActivePorts(driver) = {S!PortById(driver, id) : id \in 0..driver.total_ports - 1}
    <3>1. ASSUME NEW p \in S!ActivePorts(driver)
          PROVE  \E id \in 0..driver.total_ports - 1 : p = S!PortById(driver, id)
      <4>1. PICK a \in S!Places(driver) : p = S!PortAt(driver, a)
        BY <3>1 DEF S!ActivePorts
      <4>2. PICK id \in 0..driver.total_ports - 1 : a \in S!Found(driver, id)
        BY <2>5
      <4>3. p = S!PortById(driver, id)
        BY <2>4, <4>1, <4>2
      <4> QED BY <4>3
    <3>2. ASSUME NEW id \in 0..driver.total_ports - 1
          PROVE  S!PortById(driver, id) \in S!ActivePorts(driver)
      BY <2>4 DEF S!ActivePorts
    <3> QED BY <3>1, <3>2
  <2>7. \A p \in S!Ports, b \in S!Buffers :
          mem[p][b] = IF p \in S!ActivePorts(driver) /\ b # 0 THEN 1 ELSE 0
    BY <2>1 DEF PortInv, MemoryExact
  <2> QED BY <2>3, <2>4, <2>6, <2>7
<1> QED BY <1>1, PortInit, PortNext, PTL DEF Spec

-----------------------------------------------------------------------------
(* The requests of the SATA driver. *)

Ops == {"read", "write", "flush"}
Datum == Nat \cup Values
Issued == [op : Ops, lba : Nat, n : 0..MaxChunk]
RequestRecord ==
  [op : Ops, port : S!Ports, slot : S!Slots, lba : Nat, left : Seq(Datum), got : Seq(Datum),
   start : Nat, data : Seq(Datum), alone : BOOLEAN, seen : [S!Slots -> Issued \cup {S!None}]]

Transferring == at \in {"send", "issue", "wait"}

RequestTypes ==
  /\ ci \in [S!Ports -> [S!Slots -> Issued \cup {S!None}]]
  /\ tfes \in [S!Ports -> BOOLEAN]
  /\ dma \in [S!Ports -> [1..MaxChunk -> Datum]]
  /\ disk \in [S!Ports -> [0..Sectors - 1 -> Datum]]
  /\ at # "idle" => ret = S!None
  /\ Transferring => call \in RequestRecord /\ call.port \in S!ActivePorts(driver)

\* The first k sectors of the request c are done, the others are left: the next
\* address, and what was read so far.
Progress(c, k) ==
  /\ k + Len(c.left) = Len(c.data) /\ \A i \in 1..Len(c.left) : c.left[i] = c.data[k + i]
  /\ c.lba = c.start + k /\ (k > 0 => c.start + k <= Sectors)
  /\ c.op = "read" => Len(c.got) = k
  /\ c.op = "flush" => c.data = <<>>

\* What the drive holds of the first k sectors.
Stored(c, k, content) ==
  \A i \in 1..k : content[c.start + i - 1] = IF c.op = "read" THEN c.got[i] ELSE c.data[i]

\* The chunk that is sent now, and what it means that it was executed.
Size(c) == IF Len(c.left) > MaxChunk THEN MaxChunk ELSE Len(c.left)
Command(c) == [op |-> c.op, lba |-> c.lba, n |-> Size(c)]
Executed(c, content, buffer) ==
  /\ c.lba + Size(c) <= Sectors
  /\ \A i \in 1..Size(c) : content[c.lba + i - 1] = IF c.op = "read" THEN buffer[i] ELSE c.left[i]

\* The buffer of the port holds the data of the chunk until it is executed.
Buffered(c, buffer) == c.op = "write" => \A i \in 1..Size(c) : buffer[i] = c.left[i]

\* A request that began without other commands in its port: its command is the only
\* one, and a slot that was cleared without an error was executed.
OwnRequest(stage, c, list, error, content, buffer) ==
  /\ \A s \in S!Slots : s # c.slot => list[s] = S!None
  /\ \E k \in Nat : Progress(c, k) /\ Stored(c, k, content)
  /\ stage \in {"send", "issue"} => list[c.slot] = S!None
  /\ stage = "issue" => Buffered(c, buffer) /\ \A s \in S!Slots : c.seen[s] = S!None
  /\ stage = "wait" =>
       /\ list[c.slot] \in {S!None, Command(c)}
       /\ list[c.slot] # S!None => Buffered(c, buffer)
       /\ list[c.slot] = S!None /\ ~error => Executed(c, content, buffer)

\* What RequestsExact says of the result r, and that nothing is issued that could
\* change it.
Exact(r, list, content) ==
  /\ \A s \in S!Slots : list[s] = S!None
  /\ r.data # <<>> => r.start + Len(r.data) <= Sectors
  /\ \A i \in DOMAIN r.data :
       content[r.start + i - 1] = IF r.op = "read" THEN r.got[i] ELSE r.data[i]

ReportedDone == at = "idle" /\ ret # S!None /\ ret.ok /\ ret.alone

RequestInv ==
  /\ RequestTypes
  /\ Transferring /\ call.alone =>
       OwnRequest(at, call, ci[call.port], tfes[call.port], disk[call.port], dma[call.port])
  /\ ReportedDone => ret.port \in S!Ports /\ Exact(ret, ci[ret.port], disk[ret.port])

\* A command is something, and a chunk fits the buffer of the port.
LEMMA ChunkCommand ==
  ASSUME NEW c \in RequestRecord
  PROVE  /\ Size(c) \in 0..MaxChunk /\ Size(c) <= Len(c.left) /\ Len(c.left) \in Nat
         /\ Command(c) \in Issued /\ Command(c) # S!None
<1>1. Len(c.left) \in Nat
  BY DEF RequestRecord
<1>2. Size(c) \in 0..MaxChunk /\ Size(c) <= Len(c.left)
  BY <1>1, StorageAssumption DEF Size
<1>3. Command(c) \in Issued
  BY <1>2 DEF Command, Issued, RequestRecord
<1>4. Command(c) # S!None
  <2>1. DOMAIN Command(c) = {"op", "lba", "n"} /\ DOMAIN S!None = {}
    BY DEF Command, S!None
  <2> QED BY <2>1
<1> QED BY <1>1, <1>2, <1>3, <1>4

\* What the code does after a chunk.
After(c, buffer) ==
  [c EXCEPT !.left = SubSeq(c.left, Size(c) + 1, Len(c.left)),
            !.lba  = (c.lba + Size(c)) % Word,
            !.got  = IF c.op = "read" THEN c.got \o SubSeq(buffer, 1, Size(c)) ELSE c.got]

\* The fields of the request then.
LEMMA AfterFields ==
  ASSUME NEW c \in RequestRecord, NEW buffer \in [1..MaxChunk -> Datum]
  PROVE  /\ After(c, buffer) \in RequestRecord
         /\ After(c, buffer).op = c.op /\ After(c, buffer).port = c.port
         /\ After(c, buffer).slot = c.slot /\ After(c, buffer).start = c.start
         /\ After(c, buffer).data = c.data /\ After(c, buffer).alone = c.alone
         /\ After(c, buffer).lba = (c.lba + Size(c)) % Word
         /\ Len(After(c, buffer).left) = Len(c.left) - Size(c)
         /\ \A i \in 1..Len(c.left) - Size(c) : After(c, buffer).left[i] = c.left[Size(c) + i]
         /\ c.op = "read" =>
              /\ Len(After(c, buffer).got) = Len(c.got) + Size(c)
              /\ \A i \in 1..Len(c.got) : After(c, buffer).got[i] = c.got[i]
              /\ \A i \in 1..Size(c) : After(c, buffer).got[Len(c.got) + i] = buffer[i]
<1> DEFINE n == Size(c)
           left == SubSeq(c.left, n + 1, Len(c.left))
           lba == (c.lba + n) % Word
           got == IF c.op = "read" THEN c.got \o SubSeq(buffer, 1, n) ELSE c.got
<1>1. /\ n \in 0..MaxChunk /\ n \in Nat /\ n <= Len(c.left) /\ Len(c.left) \in Nat
      /\ c.left \in Seq(Datum) /\ c.got \in Seq(Datum) /\ c.lba \in Nat /\ MaxChunk \in Nat
  BY ChunkCommand, StorageAssumption DEF RequestRecord
<1>2. lba \in Nat
  <2>1. Word \in Nat /\ Word > 0
    BY StorageAssumption
  <2> HIDE DEF n
  <2> QED BY <1>1, <2>1
<1> HIDE DEF n
<1>3. left \in Seq(Datum) /\ Len(left) = Len(c.left) - n
      /\ \A i \in 1..Len(c.left) - n : left[i] = c.left[n + i]
  BY <1>1
<1>4. buffer \in Seq(Datum) /\ Len(buffer) = MaxChunk
  BY <1>1
<1>5. /\ SubSeq(buffer, 1, n) \in Seq(Datum) /\ Len(SubSeq(buffer, 1, n)) = n
      /\ \A i \in 1..n : SubSeq(buffer, 1, n)[i] = buffer[i]
  BY <1>1, <1>4
<1>6. /\ got \in Seq(Datum)
      /\ c.op = "read" => /\ Len(got) = Len(c.got) + n
                          /\ \A i \in 1..Len(c.got) : got[i] = c.got[i]
                          /\ \A i \in 1..n : got[Len(c.got) + i] = buffer[i]
  <2>1. PICK more : more = SubSeq(buffer, 1, n)
    OBVIOUS
  <2>2. /\ c.got \o more \in Seq(Datum) /\ Len(c.got \o more) = Len(c.got) + n
        /\ \A i \in 1..Len(c.got) : (c.got \o more)[i] = c.got[i]
        /\ \A i \in 1..n : (c.got \o more)[Len(c.got) + i] = more[i]
    <3>1. more \in Seq(Datum) /\ Len(more) = n /\ c.got \in Seq(Datum) /\ Len(c.got) \in Nat
      BY <1>1, <1>5, <2>1
    <3>2. /\ c.got \o more \in Seq(Datum) /\ Len(c.got \o more) = Len(c.got) + Len(more)
          /\ \A i \in 1..Len(c.got) + Len(more) :
               (c.got \o more)[i] = IF i <= Len(c.got) THEN c.got[i] ELSE more[i - Len(c.got)]
      BY <3>1, ConcatProperties
    <3>3. \A i \in 1..Len(c.got) : i \in 1..Len(c.got) + Len(more) /\ i <= Len(c.got)
      BY <1>1, <3>1
    <3>4. \A i \in 1..n : /\ Len(c.got) + i \in 1..Len(c.got) + Len(more) /\ ~(Len(c.got) + i <= Len(c.got))
                          /\ (Len(c.got) + i) - Len(c.got) = i
      BY <1>1, <3>1
    <3> QED BY <3>1, <3>2, <3>3, <3>4
  <2>3. got = IF c.op = "read" THEN c.got \o more ELSE c.got
    BY <2>1
  <2> HIDE DEF got
  <2> QED BY <1>1, <1>5, <2>1, <2>2, <2>3
<1> HIDE DEF left, lba, got
<1>7. After(c, buffer) = [c EXCEPT !.left = left, !.lba = lba, !.got = got]
  BY DEF After, n, left, lba, got
<1>8. /\ After(c, buffer) \in RequestRecord
      /\ After(c, buffer).op = c.op /\ After(c, buffer).port = c.port
      /\ After(c, buffer).slot = c.slot /\ After(c, buffer).start = c.start
      /\ After(c, buffer).data = c.data /\ After(c, buffer).alone = c.alone
      /\ After(c, buffer).left = left /\ After(c, buffer).lba = lba /\ After(c, buffer).got = got
  BY <1>2, <1>3, <1>6, <1>7 DEF RequestRecord
<1> QED BY <1>3, <1>6, <1>8 DEF n, lba

\* An executed chunk adds its sectors to those that are done.
LEMMA ChunkAdvances ==
  ASSUME NEW c \in RequestRecord, NEW buffer \in [1..MaxChunk -> Datum], NEW content,
         NEW k \in Nat, Progress(c, k), Stored(c, k, content), Executed(c, content, buffer),
         c.op # "flush"
  PROVE  /\ k + Size(c) \in Nat
         /\ Progress(After(c, buffer), k + Size(c))
         /\ Stored(After(c, buffer), k + Size(c), content)
<1> DEFINE e == After(c, buffer)
           n == Size(c)
<1>1. /\ n \in Nat /\ n <= Len(c.left) /\ Len(c.left) \in Nat /\ c.lba \in Nat /\ c.start \in Nat
      /\ Len(c.data) \in Nat
  BY ChunkCommand, StorageAssumption DEF RequestRecord
<1>2. /\ e.op = c.op /\ e.start = c.start /\ e.data = c.data /\ e.lba = (c.lba + n) % Word
      /\ Len(e.left) = Len(c.left) - n
      /\ \A i \in 1..Len(c.left) - n : e.left[i] = c.left[n + i]
      /\ c.op = "read" => /\ Len(e.got) = Len(c.got) + n
                          /\ \A i \in 1..Len(c.got) : e.got[i] = c.got[i]
                          /\ \A i \in 1..n : e.got[Len(c.got) + i] = buffer[i]
  BY AfterFields
<1>3. /\ k + Len(c.left) = Len(c.data) /\ \A i \in 1..Len(c.left) : c.left[i] = c.data[k + i]
      /\ c.lba = c.start + k /\ (c.op = "read" => Len(c.got) = k)
  BY DEF Progress
<1>4. /\ c.lba + n <= Sectors
      /\ \A i \in 1..n : content[c.lba + i - 1] = IF c.op = "read" THEN buffer[i] ELSE c.left[i]
  BY DEF Executed
<1> HIDE DEF e, n
<1>5. (c.lba + n) % Word = c.lba + n
  <2>1. c.lba + n \in Nat /\ c.lba + n < Word /\ Word \in Nat
    <3>1. Sectors \in Nat /\ Word \in Nat /\ Sectors < Word
      BY StorageAssumption
    <3> QED BY <1>1, <1>4, <3>1
  <2> QED BY <2>1
<1>6. Progress(e, k + n)
  <2>1. (k + n) + Len(e.left) = Len(e.data)
    BY <1>1, <1>2, <1>3
  <2>2. \A i \in 1..Len(e.left) : e.left[i] = e.data[(k + n) + i]
    <3> SUFFICES ASSUME NEW i \in 1..Len(e.left) PROVE e.left[i] = e.data[(k + n) + i]
      OBVIOUS
    <3>1. i \in 1..Len(c.left) - n /\ n + i \in 1..Len(c.left) /\ k + (n + i) = (k + n) + i
      BY <1>1, <1>2
    <3> QED BY <1>2, <1>3, <3>1
  <2>3. e.lba = e.start + (k + n) /\ e.start + (k + n) <= Sectors
    BY <1>1, <1>2, <1>3, <1>4, <1>5
  <2>4. (e.op = "read" => Len(e.got) = k + n) /\ e.op # "flush"
    BY <1>2, <1>3
  <2> QED BY <2>1, <2>2, <2>3, <2>4 DEF Progress
<1>7. Stored(e, k + n, content)
  <2> SUFFICES ASSUME NEW i \in 1..k + n
               PROVE  content[e.start + i - 1] = IF e.op = "read" THEN e.got[i] ELSE e.data[i]
    BY DEF Stored
  <2>1. CASE i <= k
    <3>1. i \in 1..k
      BY <2>1
    <3>2. content[c.start + i - 1] = IF c.op = "read" THEN c.got[i] ELSE c.data[i]
      BY <3>1 DEF Stored
    <3> QED BY <1>2, <1>3, <3>1, <3>2
  <2>2. CASE i > k
    <3>1. PICK j \in 1..n : i = k + j
      <4>1. i - k \in 1..n /\ i = k + (i - k)
        BY <1>1, <2>2
      <4> QED BY <4>1
    <3>2. content[c.lba + j - 1] = IF c.op = "read" THEN buffer[j] ELSE c.left[j]
      BY <1>4
    <3>3. c.lba + j - 1 = e.start + i - 1 /\ j \in 1..Len(c.left)
      BY <1>1, <1>2, <1>3, <3>1
    <3> QED BY <1>2, <1>3, <3>1, <3>2, <3>3
  <2> QED BY <1>1, <2>1, <2>2
<1> QED BY <1>1, <1>6, <1>7 DEF e, n

\* What the controller does with a command: the sectors and the buffer afterwards.
NewContent(c, content, buffer) ==
  [l \in 0..Sectors - 1 |-> IF c.op = "write" /\ l >= c.lba /\ l < c.lba + c.n
                              THEN buffer[l - c.lba + 1] ELSE content[l]]
NewBuffer(c, content, buffer) ==
  [i \in 1..MaxChunk |-> IF c.op = "read" /\ i <= c.n THEN content[c.lba + i - 1] ELSE buffer[i]]

\* They hold data, whichever command it is.
LEMMA TransferTypes ==
  ASSUME NEW c \in Issued, c.lba + c.n <= Sectors,
         NEW content \in [0..Sectors - 1 -> Datum], NEW buffer \in [1..MaxChunk -> Datum]
  PROVE  /\ NewContent(c, content, buffer) \in [0..Sectors - 1 -> Datum]
         /\ NewBuffer(c, content, buffer) \in [1..MaxChunk -> Datum]
<1>1. c.lba \in Nat /\ c.n \in Nat /\ c.n <= MaxChunk /\ MaxChunk \in Nat /\ Sectors \in Nat
  BY StorageAssumption DEF Issued
<1>2. ASSUME NEW l \in 0..Sectors - 1, l >= c.lba, l < c.lba + c.n
      PROVE  buffer[l - c.lba + 1] \in Datum
  <2>1. l - c.lba + 1 \in 1..MaxChunk
    BY <1>1, <1>2
  <2> QED BY <2>1
<1>3. ASSUME NEW i \in 1..MaxChunk, i <= c.n
      PROVE  content[c.lba + i - 1] \in Datum
  <2>1. c.lba + i - 1 \in 0..Sectors - 1
    BY <1>1, <1>3
  <2> QED BY <2>1
<1>4. \A l \in 0..Sectors - 1 : content[l] \in Datum
  OBVIOUS
<1>5. \A i \in 1..MaxChunk : buffer[i] \in Datum
  OBVIOUS
<1>6. NewContent(c, content, buffer) \in [0..Sectors - 1 -> Datum]
  BY <1>2, <1>4 DEF NewContent
<1>7. NewBuffer(c, content, buffer) \in [1..MaxChunk -> Datum]
  BY <1>3, <1>5 DEF NewBuffer
<1> QED BY <1>6, <1>7

\* The command of the request under way: its chunk is done then, and what was done
\* before is not touched.
LEMMA OwnChunkExecuted ==
  ASSUME NEW c \in RequestRecord, NEW content, NEW buffer, NEW k \in Nat,
         Progress(c, k), Stored(c, k, content), Buffered(c, buffer),
         c.lba + Size(c) <= Sectors
  PROVE  /\ Stored(c, k, NewContent(Command(c), content, buffer))
         /\ Executed(c, NewContent(Command(c), content, buffer),
                        NewBuffer(Command(c), content, buffer))
<1> DEFINE n == Size(c)
           disk2 == NewContent(Command(c), content, buffer)
           dma2 == NewBuffer(Command(c), content, buffer)
<1>1. /\ n \in Nat /\ n <= MaxChunk /\ n <= Len(c.left) /\ Len(c.left) \in Nat
      /\ MaxChunk \in Nat /\ Sectors \in Nat
  BY ChunkCommand, StorageAssumption
<1>2. c.lba \in Nat /\ c.start \in Nat
  BY DEF RequestRecord
<1>3. c.lba = c.start + k /\ (c.op = "flush" => Len(c.left) = 0)
  <2>1. c.lba = c.start + k /\ k + Len(c.left) = Len(c.data) /\ (c.op = "flush" => c.data = <<>>)
    BY DEF Progress
  <2>2. c.op = "flush" => Len(c.data) = 0
    BY <2>1
  <2> QED BY <1>1, <2>1, <2>2
<1>4. Command(c).op = c.op /\ Command(c).lba = c.lba /\ Command(c).n = n
  BY DEF Command
<1>5. disk2 = [l \in 0..Sectors - 1 |-> IF c.op = "write" /\ l >= c.lba /\ l < c.lba + n
                                          THEN buffer[l - c.lba + 1] ELSE content[l]]
  BY <1>4 DEF NewContent
<1>6. dma2 = [i \in 1..MaxChunk |->
                IF c.op = "read" /\ i <= n THEN content[c.lba + i - 1] ELSE buffer[i]]
  BY <1>4 DEF NewBuffer
<1> HIDE DEF n, disk2, dma2
<1>7. Stored(c, k, disk2)
  <2> SUFFICES ASSUME NEW i \in 1..k PROVE disk2[c.start + i - 1] = content[c.start + i - 1]
    BY DEF Stored
  <2>1. c.start + k <= Sectors
    BY DEF Progress
  <2>2. c.start + i - 1 \in 0..Sectors - 1 /\ ~(c.start + i - 1 >= c.lba)
    BY <1>1, <1>2, <1>3, <2>1
  <2> QED BY <1>5, <2>2
<1>8. Executed(c, disk2, dma2)
  <2> SUFFICES ASSUME NEW i \in 1..n
               PROVE  disk2[c.lba + i - 1] = IF c.op = "read" THEN dma2[i] ELSE c.left[i]
    BY DEF Executed, n
  <2>1. /\ c.lba + i - 1 \in 0..Sectors - 1 /\ c.lba + i - 1 >= c.lba /\ c.lba + i - 1 < c.lba + n
        /\ (c.lba + i - 1) - c.lba + 1 = i /\ i \in 1..MaxChunk /\ i <= n
    BY <1>1, <1>2 DEF n
  <2>2. CASE c.op = "read"
    BY <1>5, <1>6, <2>1, <2>2
  <2>3. CASE c.op = "write"
    <3>1. buffer[i] = c.left[i]
      BY <2>3 DEF Buffered, n
    <3> QED BY <1>5, <2>1, <2>3, <3>1
  <2>4. CASE c.op = "flush"
    BY <1>1, <1>3, <2>4
  <2> QED BY <2>2, <2>3, <2>4 DEF RequestRecord, Ops
<1> QED BY <1>7, <1>8 DEF disk2, dma2

\* Nothing is issued, nothing was returned.
LEMMA RequestInit == Init => RequestInv
<1> SUFFICES ASSUME Init PROVE RequestInv
  OBVIOUS
<1>1. /\ ci = [p \in S!Ports |-> S!NoCommands] /\ tfes = [p \in S!Ports |-> FALSE]
      /\ dma = [p \in S!Ports |-> [i \in 1..MaxChunk |-> 0]]
      /\ disk = [p \in S!Ports |-> [l \in 0..Sectors - 1 |-> l + 1]]
      /\ at = "idle" /\ ret = S!None
  BY DEF Init, S!Init
<1>2. RequestTypes
  <2>1. \A l \in 0..Sectors - 1 : l + 1 \in Datum
    BY StorageAssumption DEF Datum
  <2>2. 0 \in Datum
    BY DEF Datum
  <2>3. disk \in [S!Ports -> [0..Sectors - 1 -> Datum]]
    BY <1>1, <2>1
  <2>4. dma \in [S!Ports -> [1..MaxChunk -> Datum]]
    BY <1>1, <2>2
  <2>5. ci \in [S!Ports -> [S!Slots -> Issued \cup {S!None}]]
    BY <1>1 DEF S!NoCommands
  <2>6. tfes \in [S!Ports -> BOOLEAN]
    BY <1>1
  <2> QED BY <1>1, <2>3, <2>4, <2>5, <2>6 DEF RequestTypes, Transferring
<1> QED BY <1>1, <1>2 DEF RequestInv, Transferring, ReportedDone

\* Outside requests only the types matter, as long as no result is kept.
LEMMA NoRequest ==
  ASSUME RequestTypes', ~Transferring', ret' = S!None
  PROVE  RequestInv'
  BY DEF RequestInv, ReportedDone

\* stop_port only empties command lists.
LEMMA StopTypes ==
  ASSUME RequestTypes, NEW P, S!stop_port(P)
  PROVE  ci' \in [S!Ports -> [S!Slots -> Issued \cup {S!None}]]
<1>1. PICK Q : ci' = [p \in S!Ports |-> IF p \in Q THEN S!NoCommands ELSE ci[p]]
  BY DEF S!stop_port
<1> QED BY <1>1 DEF RequestTypes, S!NoCommands

\* Initialisation and shutdown.
LEMMA RequestsSetup ==
  ASSUME PortInv, RequestInv,
         \/ S!sata_init \/ S!sata_shutdown \/ S!find_and_init_controllers \/ S!ControllerFails
         \/ S!ControllerMapped \/ S!PortSkipped \/ S!init_port \/ S!PortIdentified
         \/ S!PortFails \/ S!init_controller
  PROVE  RequestInv'
<1>1. ~Transferring' /\ ret' = S!None
  <2>1. at \notin {"send", "issue", "wait"} /\ at' \notin {"send", "issue", "wait"}
    BY DEF S!sata_init, S!sata_shutdown, S!find_and_init_controllers, S!ControllerFails,
           S!ControllerMapped, S!PortSkipped, S!init_port, S!PortIdentified, S!PortFails,
           S!init_controller, S!Idle
  <2>2. CASE S!sata_init \/ S!sata_shutdown
    BY <2>1, <2>2 DEF S!sata_init, S!sata_shutdown, Transferring
  <2>3. CASE ~(S!sata_init \/ S!sata_shutdown)
    <3>1. at # "idle" /\ ret' = ret
      BY <2>3 DEF S!find_and_init_controllers, S!ControllerFails,
           S!ControllerMapped, S!PortSkipped, S!init_port, S!PortIdentified, S!PortFails,
           S!init_controller
    <3> QED BY <2>1, <3>1 DEF RequestInv, RequestTypes, Transferring
  <2> QED BY <2>2, <2>3
<1>2. CASE S!sata_init \/ S!find_and_init_controllers \/ S!ControllerFails
           \/ S!ControllerMapped \/ S!PortSkipped
           \/ S!PortFails \/ S!init_controller
  <2>1. UNCHANGED <<ci, tfes, dma, disk>>
    BY <1>2 DEF S!sata_init, S!find_and_init_controllers, S!ControllerFails,
           S!ControllerMapped, S!PortSkipped, S!PortFails,
           S!init_controller, S!io
  <2> QED BY <1>1, <2>1, NoRequest DEF RequestInv, RequestTypes
<1>3. CASE S!sata_shutdown
  <2>1. UNCHANGED <<tfes, dma, disk>> /\ ci' \in [S!Ports -> [S!Slots -> Issued \cup {S!None}]]
    BY <1>3, StopTypes DEF S!sata_shutdown, RequestInv
  <2> QED BY <1>1, <2>1, NoRequest DEF RequestInv, RequestTypes
<1>5. CASE S!PortIdentified
  <2>1. /\ UNCHANGED <<ci, dma, disk>>
        /\ \E error \in BOOLEAN : tfes' = [tfes EXCEPT ![S!ThisPort] = error]
    BY <1>5 DEF S!PortIdentified
  <2>2. tfes' \in [S!Ports -> BOOLEAN]
    BY <2>1 DEF RequestInv, RequestTypes
  <2> QED BY <1>1, <2>1, <2>2, NoRequest DEF RequestInv, RequestTypes
<1>4. CASE S!init_port
  <2>1. /\ tfes' = [tfes EXCEPT ![S!ThisPort] = FALSE]
        /\ dma' = [dma EXCEPT ![S!ThisPort] = [i \in 1..MaxChunk |-> 0]]
        /\ disk' = disk /\ ci' \in [S!Ports -> [S!Slots -> Issued \cup {S!None}]]
    BY <1>4, StopTypes DEF S!init_port, RequestInv
  <2>2. 0 \in Datum
    BY DEF Datum
  <2>3. dma' \in [S!Ports -> [1..MaxChunk -> Datum]]
    BY <2>1, <2>2 DEF RequestInv, RequestTypes
  <2>4. tfes' \in [S!Ports -> BOOLEAN]
    BY <2>1 DEF RequestInv, RequestTypes
  <2> QED BY <1>1, <2>1, <2>3, <2>4, NoRequest DEF RequestInv, RequestTypes
<1> QED BY <1>2, <1>3, <1>4, <1>5

\* The port a request uses is an active one.
LEMMA FoundIsActive ==
  ASSUME NEW d, NEW id, S!Found(d, id) # {}
  PROVE  S!PortById(d, id) \in S!ActivePorts(d)
<1>1. PICK a : a = CHOOSE x \in S!Found(d, id) : TRUE
  OBVIOUS
<1>2. a \in S!Found(d, id)
  BY <1>1
<1>3. a \in S!Places(d)
  BY <1>2 DEF S!Found
<1>4. S!PortById(d, id) = S!PortAt(d, a)
  BY <1>1 DEF S!PortById
<1> QED BY <1>3, <1>4 DEF S!ActivePorts

\* A request that is accepted has everything left.
LEMMA RequestBegins ==
  ASSUME PortInv, RequestInv, NEW op \in Ops, NEW id, NEW lba \in Nat, NEW data \in Seq(Datum),
         op = "flush" => data = <<>>, S!Request(op, id, lba, data)
  PROVE  RequestInv'
<1>1. at = "idle" /\ UNCHANGED <<driver, ci, tfes, dma, disk>>
  BY DEF S!Request, S!Idle, S!io
<1>2. CASE S!Accepted(id, lba, Len(data))
  <2> DEFINE p == S!PortById(driver, id)
             c == [op |-> op, port |-> p, slot |-> S!find_command_slot(p), lba |-> lba,
                   left |-> data, got |-> <<>>, start |-> lba, data |-> data,
                   alone |-> ci[p] = S!NoCommands, seen |-> S!NoCommands]
  <2>1. call' = c /\ at' = "send" /\ ret' = S!None
    BY <1>2 DEF S!Request
  <2>2. p \in S!ActivePorts(driver) /\ p \in S!Ports
    BY <1>2, FoundIsActive, ActiveArePorts DEF S!Accepted, PortInv, PortTypes
  <2>3. S!find_command_slot(p) \in S!Slots
    BY <1>2, FoundSlotIsFree DEF S!Accepted
  <2> HIDE DEF p
  <2>4. PICK alone \in BOOLEAN : alone = (ci[p] = S!NoCommands)
    OBVIOUS
  <2>5. PICK slot \in S!Slots : slot = S!find_command_slot(p)
    BY <2>3
  <2>6. c = [op |-> op, port |-> p, slot |-> slot, lba |-> lba, left |-> data, got |-> <<>>,
             start |-> lba, data |-> data, alone |-> alone, seen |-> S!NoCommands]
    BY <2>4, <2>5
  <2>11. S!NoCommands \in [S!Slots -> Issued \cup {S!None}]
    BY DEF S!NoCommands
  <2> HIDE DEF c
  <2>7. /\ c \in RequestRecord /\ c.port = p /\ c.op = op /\ c.slot = slot /\ c.lba = lba
        /\ c.left = data /\ c.got = <<>> /\ c.start = lba /\ c.data = data /\ c.alone = alone
    BY <2>2, <2>6, <2>11 DEF RequestRecord
  <2>8. RequestTypes'
    BY <1>1, <2>1, <2>2, <2>7 DEF RequestInv, RequestTypes, Transferring
  <2>9. ASSUME c.alone
        PROVE  OwnRequest("send", c, ci[p], tfes[p], disk[p], dma[p])
    <3>1. \A s \in S!Slots : ci[p][s] = S!None
      BY <2>4, <2>7, <2>9 DEF S!NoCommands
    <3>2. Progress(c, 0)
      <4>1. Len(data) \in Nat /\ \A i \in 1..Len(data) : 0 + i = i
        OBVIOUS
      <4>2. Len(<<>>) = 0
        OBVIOUS
      <4> QED BY <2>7, <4>1, <4>2 DEF Progress
    <3>3. Stored(c, 0, disk[p])
      BY DEF Stored
    <3> QED BY <2>5, <2>7, <3>1, <3>2, <3>3 DEF OwnRequest
  <2>10. ~ReportedDone'
    BY <2>1 DEF ReportedDone
  <2> QED BY <1>1, <2>1, <2>7, <2>8, <2>9, <2>10 DEF RequestInv
<1>3. CASE ~S!Accepted(id, lba, Len(data))
  <2>1. ret' = [ok |-> FALSE] /\ at' = at
    BY <1>3 DEF S!Request
  <2>2. ~ReportedDone' /\ ~Transferring'
    BY <1>1, <2>1 DEF ReportedDone, Transferring
  <2>3. RequestTypes'
    BY <1>1, <2>1, <2>2 DEF RequestInv, RequestTypes
  <2> QED BY <2>2, <2>3 DEF RequestInv
<1> QED BY <1>2, <1>3

\* The three requests.
LEMMA RequestsBegin ==
  ASSUME PortInv, RequestInv, S!sata_read \/ S!sata_write \/ S!sata_flush
  PROVE  RequestInv'
<1>0. Lbas \subseteq Nat /\ Counts \subseteq Nat
  BY StorageAssumption
<1>1. CASE S!sata_read
  <2>1. PICK id \in Ids, lba \in Lbas, n \in Counts : S!Request("read", id, lba, [i \in 1..n |-> 0])
    BY <1>1 DEF S!sata_read
  <2>2. n \in Nat /\ lba \in Nat /\ 0 \in Datum
    BY <1>0 DEF Datum
  <2>3. [i \in 1..n |-> 0] \in Seq(Datum)
    BY <2>2
  <2> QED BY <2>1, <2>2, <2>3, RequestBegins DEF Ops
<1>2. CASE S!sata_write
  <2>1. PICK id \in Ids, lba \in Lbas, n \in Counts, v \in Values :
          S!Request("write", id, lba, [i \in 1..n |-> v])
    BY <1>2 DEF S!sata_write
  <2>2. n \in Nat /\ lba \in Nat /\ v \in Datum
    BY <1>0 DEF Datum
  <2>3. [i \in 1..n |-> v] \in Seq(Datum)
    BY <2>2
  <2> QED BY <2>1, <2>2, <2>3, RequestBegins DEF Ops
<1>3. CASE S!sata_flush
  <2>1. PICK id \in Ids : S!Request("flush", id, 0, <<>>)
    BY <1>3 DEF S!sata_flush
  <2>2. <<>> \in Seq(Datum)
    OBVIOUS
  <2> QED BY <2>1, <2>2, RequestBegins DEF Ops
<1> QED BY <1>1, <1>2, <1>3

\* A request under way and its port.
LEMMA TransferPort ==
  ASSUME PortInv, RequestInv, Transferring
  PROVE  /\ call \in RequestRecord /\ call.port \in S!ActivePorts(driver)
         /\ call.port \in S!Ports /\ call.slot \in S!Slots /\ engine[call.port] = "on"
<1>1. call \in RequestRecord /\ call.port \in S!ActivePorts(driver)
  BY DEF RequestInv, RequestTypes
<1>2. call.port \in Working
  BY <1>1 DEF Working
<1> QED BY <1>1, <1>2 DEF RequestRecord, PortInv, Running

\* What was seen in the register says nothing of the request itself.
LEMMA SeenApart ==
  ASSUME NEW c \in RequestRecord, NEW list \in [S!Slots -> Issued \cup {S!None}],
         NEW e, e = [c EXCEPT !.seen = list]
  PROVE  /\ e \in RequestRecord /\ e.seen = list
         /\ e.op = c.op /\ e.port = c.port /\ e.slot = c.slot /\ e.alone = c.alone
         /\ e.lba = c.lba /\ e.left = c.left /\ e.got = c.got /\ e.start = c.start
         /\ e.data = c.data
         /\ Size(e) = Size(c) /\ Command(e) = Command(c)
         /\ \A k : Progress(e, k) <=> Progress(c, k)
         /\ \A k, content : Stored(e, k, content) <=> Stored(c, k, content)
         /\ \A buffer : Buffered(e, buffer) <=> Buffered(c, buffer)
<1>1. /\ e \in RequestRecord /\ e.seen = list
      /\ e.op = c.op /\ e.port = c.port /\ e.slot = c.slot /\ e.alone = c.alone
      /\ e.lba = c.lba /\ e.left = c.left /\ e.got = c.got /\ e.start = c.start
      /\ e.data = c.data
  BY DEF RequestRecord
<1>2. Size(e) = Size(c)
  BY <1>1 DEF Size
<1>3. Command(e) = Command(c)
  BY <1>1, <1>2 DEF Command
<1>4. \A k : Progress(e, k) <=> Progress(c, k)
  BY <1>1 DEF Progress
<1>5. \A k, content : Stored(e, k, content) <=> Stored(c, k, content)
  BY <1>1 DEF Stored
<1>6. \A buffer : Buffered(e, buffer) <=> Buffered(c, buffer)
  BY <1>1, <1>2 DEF Buffered
<1> QED BY <1>1, <1>2, <1>3, <1>4, <1>5, <1>6

\* The next command is prepared.
LEMMA RequestSends ==
  ASSUME PortInv, RequestInv, S!port_send_command
  PROVE  RequestInv'
<1>0. PICK p : p = call.port
  OBVIOUS
<1>1. /\ at = "send" /\ at' = "issue" /\ UNCHANGED <<driver, ci, tfes, disk, ret>>
      /\ call' = [call EXCEPT !.seen = ci[p]]
      /\ dma' = [dma EXCEPT ![p] = [i \in 1..MaxChunk |->
                   IF call.op = "write" /\ i <= Size(call) THEN call.left[i] ELSE dma[p][i]]]
  BY <1>0 DEF S!port_send_command, S!Chunk, Size
<1>2. /\ call \in RequestRecord /\ p \in S!ActivePorts(driver) /\ p \in S!Ports
      /\ call.slot \in S!Slots
  BY <1>0, <1>1, TransferPort DEF Transferring
<1>3. /\ Size(call) \in 0..MaxChunk /\ Size(call) <= Len(call.left) /\ Len(call.left) \in Nat
      /\ MaxChunk \in Nat
  BY <1>2, ChunkCommand, StorageAssumption
<1>4. /\ ci \in [S!Ports -> [S!Slots -> Issued \cup {S!None}]]
      /\ dma \in [S!Ports -> [1..MaxChunk -> Datum]]
  BY DEF RequestInv, RequestTypes
<1>5. PICK e : e = call'
  OBVIOUS
<1>6. /\ e \in RequestRecord /\ e.seen = ci[p] /\ e.port = p /\ e.slot = call.slot
      /\ e.alone = call.alone
      /\ \A k : Progress(e, k) <=> Progress(call, k)
      /\ \A k, content : Stored(e, k, content) <=> Stored(call, k, content)
      /\ \A buffer : Buffered(e, buffer) <=> Buffered(call, buffer)
  <2>1. ci[p] \in [S!Slots -> Issued \cup {S!None}] /\ e = [call EXCEPT !.seen = ci[p]]
    BY <1>1, <1>2, <1>4, <1>5
  <2> QED BY <1>0, <1>2, <2>1, SeenApart
<1>7. PICK buffer : buffer = [i \in 1..MaxChunk |->
                   IF call.op = "write" /\ i <= Size(call) THEN call.left[i] ELSE dma[p][i]]
  OBVIOUS
<1>8. buffer \in [1..MaxChunk -> Datum] /\ Buffered(call, buffer)
  <2>1. call.left \in Seq(Datum)
    BY <1>2 DEF RequestRecord
  <2>2. \A i \in 1..MaxChunk : i <= Size(call) => call.left[i] \in Datum
    BY <1>3, <2>1
  <2>3. \A i \in 1..MaxChunk : dma[p][i] \in Datum
    BY <1>2, <1>4
  <2>4. buffer \in [1..MaxChunk -> Datum]
    BY <1>7, <2>2, <2>3
  <2>5. \A i \in 1..Size(call) : i \in 1..MaxChunk /\ i <= Size(call)
    BY <1>3
  <2>6. Buffered(call, buffer)
    BY <1>7, <2>5 DEF Buffered
  <2> QED BY <2>4, <2>6
<1>9. dma' \in [S!Ports -> [1..MaxChunk -> Datum]] /\ dma'[p] = buffer
  BY <1>1, <1>2, <1>4, <1>7, <1>8
<1>10. RequestTypes'
  BY <1>1, <1>2, <1>5, <1>6, <1>9 DEF RequestInv, RequestTypes, Transferring
<1>11. ASSUME e.alone
       PROVE  OwnRequest("issue", e, ci[p], tfes[p], disk[p], dma'[p])
  <2>1. OwnRequest("send", call, ci[p], tfes[p], disk[p], dma[p])
    BY <1>0, <1>1, <1>6, <1>11 DEF RequestInv, Transferring
  <2>2. \A s \in S!Slots : ci[p][s] = S!None
    BY <2>1 DEF OwnRequest
  <2>3. Buffered(e, buffer)
    BY <1>6, <1>8
  <2>4. \E k \in Nat : Progress(e, k) /\ Stored(e, k, disk[p])
    BY <1>6, <2>1 DEF OwnRequest
  <2>5. OwnRequest("issue", e, ci[p], tfes[p], disk[p], buffer)
    BY <1>2, <1>6, <2>2, <2>3, <2>4 DEF OwnRequest
  <2> QED BY <1>9, <2>5
<1>12. ~ReportedDone'
  BY <1>1 DEF ReportedDone
<1> QED BY <1>1, <1>5, <1>6, <1>10, <1>11, <1>12 DEF RequestInv

\* It is issued; what was issued before is issued again.
LEMMA RequestIssues ==
  ASSUME PortInv, RequestInv, S!IssueCommand
  PROVE  RequestInv'
<1>0. PICK p : p = call.port
  OBVIOUS
<1>1. /\ at = "issue" /\ at' = "wait" /\ UNCHANGED <<driver, tfes, dma, disk, ret>>
      /\ call' = [call EXCEPT !.seen = S!NoCommands]
      /\ ci' = [ci EXCEPT ![p] = [call.seen EXCEPT ![call.slot] = Command(call)]]
  BY <1>0 DEF S!IssueCommand, S!Chunk, Size, Command
<1>2. /\ call \in RequestRecord /\ p \in S!ActivePorts(driver) /\ p \in S!Ports
      /\ call.slot \in S!Slots /\ call.seen \in [S!Slots -> Issued \cup {S!None}]
  BY <1>0, <1>1, TransferPort DEF Transferring, RequestRecord
<1>3. Command(call) \in Issued /\ Command(call) # S!None
  BY <1>2, ChunkCommand
<1>4. ci \in [S!Ports -> [S!Slots -> Issued \cup {S!None}]]
  BY DEF RequestInv, RequestTypes
<1>5. PICK e : e = call'
  OBVIOUS
<1>6. /\ e \in RequestRecord /\ e.port = p /\ e.slot = call.slot /\ e.alone = call.alone
      /\ Command(e) = Command(call)
      /\ \A k : Progress(e, k) <=> Progress(call, k)
      /\ \A k, content : Stored(e, k, content) <=> Stored(call, k, content)
      /\ \A buffer : Buffered(e, buffer) <=> Buffered(call, buffer)
  <2>1. S!NoCommands \in [S!Slots -> Issued \cup {S!None}] /\ e = [call EXCEPT !.seen = S!NoCommands]
    BY <1>1, <1>5 DEF S!NoCommands
  <2> QED BY <1>0, <1>2, <2>1, SeenApart
<1>7. PICK list : list = [call.seen EXCEPT ![call.slot] = Command(call)]
  OBVIOUS
<1>8. /\ list \in [S!Slots -> Issued \cup {S!None}] /\ list[call.slot] = Command(call)
      /\ \A s \in S!Slots : s # call.slot => list[s] = call.seen[s]
  BY <1>2, <1>3, <1>7
<1>9. ci' \in [S!Ports -> [S!Slots -> Issued \cup {S!None}]] /\ ci'[p] = list
  BY <1>1, <1>2, <1>4, <1>7, <1>8
<1>10. RequestTypes'
  BY <1>1, <1>2, <1>5, <1>6, <1>9 DEF RequestInv, RequestTypes, Transferring
<1>11. ASSUME e.alone
       PROVE  OwnRequest("wait", e, list, tfes[p], disk[p], dma[p])
  <2>1. OwnRequest("issue", call, ci[p], tfes[p], disk[p], dma[p])
    BY <1>0, <1>1, <1>6, <1>11 DEF RequestInv, Transferring
  <2>2. \A s \in S!Slots : s # e.slot => list[s] = S!None
    BY <1>6, <1>8, <2>1 DEF OwnRequest
  <2>3. Buffered(e, dma[p])
    BY <1>6, <2>1 DEF OwnRequest
  <2>4. \E k \in Nat : Progress(e, k) /\ Stored(e, k, disk[p])
    BY <1>6, <2>1 DEF OwnRequest
  <2> QED BY <1>3, <1>6, <1>8, <2>2, <2>3, <2>4 DEF OwnRequest
<1>12. ~ReportedDone'
  BY <1>1 DEF ReportedDone
<1> QED BY <1>1, <1>5, <1>6, <1>9, <1>10, <1>11, <1>12 DEF RequestInv

\* A request comes back: what it reports as done is done if it was alone.
LEMMA RequestReturns ==
  ASSUME RequestInv, Transferring, call \in RequestRecord, NEW ok \in BOOLEAN,
         S!Return(call, ok), UNCHANGED <<driver, ci, dma, disk>>,
         tfes' \in [S!Ports -> BOOLEAN],
         ok /\ call.alone => Exact(call, ci[call.port], disk[call.port])
  PROVE  RequestInv'
<1>1. /\ at' = "idle"
      /\ ret' = [ok |-> ok, op |-> call.op, port |-> call.port, start |-> call.start,
                 data |-> call.data, got |-> call.got, alone |-> call.alone]
  BY DEF S!Return
<1>2. RequestTypes'
  BY <1>1 DEF RequestInv, RequestTypes, Transferring
<1>3. PICK r : r = ret'
  OBVIOUS
<1>4. /\ r.ok = ok /\ r.alone = call.alone /\ r.op = call.op /\ r.port = call.port
      /\ r.start = call.start /\ r.data = call.data /\ r.got = call.got
  BY <1>1, <1>3
<1>5. ASSUME r.ok, r.alone PROVE r.port \in S!Ports /\ Exact(r, ci[r.port], disk[r.port])
  <2>1. Exact(call, ci[call.port], disk[call.port])
    BY <1>4, <1>5
  <2>2. Exact(r, ci[r.port], disk[r.port])
    BY <1>4, <2>1 DEF Exact
  <2> QED BY <1>4, <2>2 DEF RequestRecord
<1>6. ReportedDone' => r.ok /\ r.alone
  BY <1>3 DEF ReportedDone
<1>7. ~Transferring'
  BY <1>1 DEF Transferring
<1> QED BY <1>2, <1>3, <1>5, <1>6, <1>7 DEF RequestInv

\* Everything was sent and done.
LEMMA RequestDone ==
  ASSUME PortInv, RequestInv, S!AllSent
  PROVE  RequestInv'
<1>1. /\ at = "send" /\ call.left = <<>> /\ S!Return(call, TRUE)
      /\ UNCHANGED <<driver, ci, tfes, dma, disk>>
  BY DEF S!AllSent, S!io
<1>2. call \in RequestRecord /\ Transferring
  BY <1>1, TransferPort DEF Transferring
<1>3. ASSUME call.alone PROVE Exact(call, ci[call.port], disk[call.port])
  <2>1. OwnRequest("send", call, ci[call.port], tfes[call.port], disk[call.port], dma[call.port])
    BY <1>1, <1>2, <1>3 DEF RequestInv
  <2>2. PICK k \in Nat : Progress(call, k) /\ Stored(call, k, disk[call.port])
    BY <2>1 DEF OwnRequest
  <2>3. k = Len(call.data) /\ DOMAIN call.data = 1..k
    <3>1. Len(call.left) = 0 /\ call.data \in Seq(Datum)
      BY <1>1, <1>2 DEF RequestRecord
    <3>2. k + Len(call.left) = Len(call.data)
      BY <2>2 DEF Progress
    <3> QED BY <3>1, <3>2
  <2>4. \A s \in S!Slots : ci[call.port][s] = S!None
    BY <2>1 DEF OwnRequest
  <2>5. call.data # <<>> => call.start + Len(call.data) <= Sectors
    <3>1. call.data # <<>> => k > 0
      BY <1>2, <2>3 DEF RequestRecord
    <3> QED BY <2>2, <2>3, <3>1 DEF Progress
  <2> QED BY <2>2, <2>3, <2>4, <2>5 DEF Exact, Stored
<1>4. tfes' \in [S!Ports -> BOOLEAN]
  BY <1>1 DEF RequestInv, RequestTypes
<1> QED BY <1>1, <1>2, <1>3, <1>4, RequestReturns

\* The slot of the command was cleared: the next chunk, or the end.
LEMMA RequestAdvances ==
  ASSUME PortInv, RequestInv, S!SlotCleared
  PROVE  RequestInv'
<1> DEFINE p == call.port
<1>1. /\ at = "wait" /\ ci[p][call.slot] = S!None /\ tfes' = [tfes EXCEPT ![p] = FALSE]
      /\ UNCHANGED <<driver, ci, dma, disk>>
      /\ \/ tfes[p] /\ S!Return(call, FALSE)
         \/ ~tfes[p] /\ call.op = "flush" /\ S!Return(call, TRUE)
         \/ ~tfes[p] /\ call.op # "flush" /\ call' = S!Advanced /\ at' = "send" /\ ret' = ret
  BY DEF S!SlotCleared
<1>2. /\ call \in RequestRecord /\ Transferring /\ p \in S!Ports /\ p \in S!ActivePorts(driver)
      /\ call.slot \in S!Slots
  BY <1>1, TransferPort DEF Transferring
<1>3. tfes' \in [S!Ports -> BOOLEAN]
  BY <1>1 DEF RequestInv, RequestTypes
<1>4. ASSUME call.alone
      PROVE  OwnRequest("wait", call, ci[p], tfes[p], disk[p], dma[p])
  BY <1>1, <1>2, <1>4 DEF RequestInv
<1>5. CASE tfes[p] /\ S!Return(call, FALSE)
  BY <1>1, <1>2, <1>3, <1>5, RequestReturns
<1>6. CASE ~tfes[p] /\ call.op = "flush" /\ S!Return(call, TRUE)
  <2>1. ASSUME call.alone PROVE Exact(call, ci[p], disk[p])
    <3>1. PICK k \in Nat : Progress(call, k)
      BY <1>4, <2>1 DEF OwnRequest
    <3>2. call.data = <<>>
      BY <1>6, <3>1 DEF Progress
    <3>3. \A s \in S!Slots : ci[p][s] = S!None
      BY <1>1, <1>4, <2>1 DEF OwnRequest
    <3> QED BY <3>2, <3>3 DEF Exact
  <2> QED BY <1>1, <1>2, <1>3, <1>6, <2>1, RequestReturns
<1>7. CASE ~tfes[p] /\ call.op # "flush" /\ call' = S!Advanced /\ at' = "send" /\ ret' = ret
  <2>1. dma[p] \in [1..MaxChunk -> Datum]
    BY <1>2 DEF RequestInv, RequestTypes
  <2>2. S!Advanced = After(call, dma[p])
    BY DEF S!Advanced, S!Chunk, After, Size
  <2>3. PICK e : e = After(call, dma[p])
    OBVIOUS
  <2>4. /\ e \in RequestRecord /\ e.port = p /\ e.slot = call.slot /\ e.alone = call.alone
    BY <1>2, <2>1, <2>3, AfterFields
  <2>5. RequestTypes'
    BY <1>1, <1>2, <1>3, <1>7, <2>2, <2>3, <2>4 DEF RequestInv, RequestTypes, Transferring
  <2>6. ASSUME call.alone
        PROVE  OwnRequest("send", e, ci[p], FALSE, disk[p], dma[p])
    <3>1. PICK k \in Nat : Progress(call, k) /\ Stored(call, k, disk[p])
      BY <1>4, <2>6 DEF OwnRequest
    <3>2. Executed(call, disk[p], dma[p])
      BY <1>1, <1>4, <1>7, <2>6 DEF OwnRequest
    <3>3. /\ k + Size(call) \in Nat /\ Progress(e, k + Size(call))
          /\ Stored(e, k + Size(call), disk[p])
      BY <1>2, <1>7, <2>1, <2>3, <3>1, <3>2, ChunkAdvances
    <3>4. \A s \in S!Slots : ci[p][s] = S!None
      BY <1>1, <1>4, <2>6 DEF OwnRequest
    <3>5. \E m \in Nat : Progress(e, m) /\ Stored(e, m, disk[p])
      BY <3>3
    <3> QED BY <1>2, <2>4, <3>4, <3>5 DEF OwnRequest
  <2>7. tfes'[p] = FALSE
    BY <1>1, <1>2 DEF RequestInv, RequestTypes
  <2>8. call' = e /\ at' = "send"
    BY <1>7, <2>2, <2>3
  <2>9. ~ReportedDone'
    BY <2>8 DEF ReportedDone
  <2> QED BY <1>1, <2>4, <2>5, <2>6, <2>7, <2>8, <2>9 DEF RequestInv
<1> QED BY <1>1, <1>5, <1>6, <1>7

\* A request that waited too long reports nothing as done.
LEMMA RequestTimesOut ==
  ASSUME PortInv, RequestInv, S!WaitTimesOut
  PROVE  RequestInv'
<1>1. at = "wait" /\ S!Return(call, FALSE) /\ UNCHANGED <<driver, ci, tfes, dma, disk>>
  BY DEF S!WaitTimesOut, S!io
<1>2. call \in RequestRecord /\ Transferring
  BY <1>1, TransferPort DEF Transferring
<1>3. tfes' \in [S!Ports -> BOOLEAN]
  BY <1>1 DEF RequestInv, RequestTypes
<1> QED BY <1>1, <1>2, <1>3, RequestReturns

\* A step of a controller in the port p: only a request, or a result, of that port
\* is concerned.
LEMMA ControllerWorks ==
  ASSUME PortInv, RequestInv, NEW p \in S!Ports, UNCHANGED <<driver, at, call, ret>>,
         /\ ci' \in [S!Ports -> [S!Slots -> Issued \cup {S!None}]]
         /\ tfes' \in [S!Ports -> BOOLEAN]
         /\ dma' \in [S!Ports -> [1..MaxChunk -> Datum]]
         /\ disk' \in [S!Ports -> [0..Sectors - 1 -> Datum]],
         \A q \in S!Ports : q # p => /\ ci'[q] = ci[q] /\ tfes'[q] = tfes[q]
                                     /\ dma'[q] = dma[q] /\ disk'[q] = disk[q],
         Transferring /\ call.alone /\ call.port = p =>
           OwnRequest(at, call, ci'[p], tfes'[p], disk'[p], dma'[p]),
         ReportedDone /\ ret.port = p => Exact(ret, ci'[p], disk'[p])
  PROVE  RequestInv'
<1>1. RequestTypes'
  BY DEF RequestInv, RequestTypes, Transferring
<1>2. ASSUME Transferring, call.alone
      PROVE  OwnRequest(at, call, ci'[call.port], tfes'[call.port], disk'[call.port], dma'[call.port])
  <2>1. call.port \in S!Ports
    BY <1>2, TransferPort
  <2>2. OwnRequest(at, call, ci[call.port], tfes[call.port], disk[call.port], dma[call.port])
    BY <1>2 DEF RequestInv
  <2> QED BY <1>2, <2>1, <2>2
<1>3. ASSUME ReportedDone
      PROVE  ret.port \in S!Ports /\ Exact(ret, ci'[ret.port], disk'[ret.port])
  <2>1. ret.port \in S!Ports /\ Exact(ret, ci[ret.port], disk[ret.port])
    BY <1>3 DEF RequestInv
  <2> QED BY <1>3, <2>1
<1> QED BY <1>1, <1>2, <1>3 DEF RequestInv, Transferring, ReportedDone

\* The controller executes a command.
LEMMA RequestExecuted ==
  ASSUME PortInv, RequestInv, NEW p \in S!Ports, NEW s \in S!Slots, S!HbaExecutes(p, s)
  PROVE  RequestInv'
<1> DEFINE c == ci[p][s]
<1>1. /\ c # S!None /\ c.lba + c.n <= Sectors
      /\ ci' = [ci EXCEPT ![p][s] = S!None]
      /\ dma' = [dma EXCEPT ![p] = NewBuffer(c, disk[p], dma[p])]
      /\ disk' = [disk EXCEPT ![p] = NewContent(c, disk[p], dma[p])]
      /\ UNCHANGED <<driver, tfes, at, call, ret>>
  BY DEF S!HbaExecutes, NewBuffer, NewContent
<1>2. /\ ci \in [S!Ports -> [S!Slots -> Issued \cup {S!None}]]
      /\ tfes \in [S!Ports -> BOOLEAN]
      /\ dma \in [S!Ports -> [1..MaxChunk -> Datum]]
      /\ disk \in [S!Ports -> [0..Sectors - 1 -> Datum]]
  BY DEF RequestInv, RequestTypes
<1>3. /\ c \in Issued /\ disk[p] \in [0..Sectors - 1 -> Datum] /\ dma[p] \in [1..MaxChunk -> Datum]
  BY <1>1, <1>2
<1> HIDE DEF c
<1>4. PICK content, buffer : content = NewContent(c, disk[p], dma[p]) /\ buffer = NewBuffer(c, disk[p], dma[p])
  OBVIOUS
<1>5. content \in [0..Sectors - 1 -> Datum] /\ buffer \in [1..MaxChunk -> Datum]
  BY <1>1, <1>3, <1>4, TransferTypes
<1>6. /\ ci' \in [S!Ports -> [S!Slots -> Issued \cup {S!None}]]
      /\ dma' \in [S!Ports -> [1..MaxChunk -> Datum]] /\ dma'[p] = buffer
      /\ disk' \in [S!Ports -> [0..Sectors - 1 -> Datum]] /\ disk'[p] = content
  BY <1>1, <1>2, <1>4, <1>5
<1>7. \A q \in S!Ports : q # p => ci'[q] = ci[q] /\ dma'[q] = dma[q] /\ disk'[q] = disk[q]
  BY <1>1, <1>2
<1>8. ci'[p][s] = S!None /\ \A t \in S!Slots : t # s => ci'[p][t] = ci[p][t]
  BY <1>1, <1>2
<1>9. ASSUME Transferring, call.alone, call.port = p
      PROVE  OwnRequest(at, call, ci'[p], tfes'[p], disk'[p], dma'[p])
  <2>1. OwnRequest(at, call, ci[p], tfes[p], disk[p], dma[p]) /\ call \in RequestRecord
    BY <1>9, TransferPort DEF RequestInv
  <2>2. s = call.slot
    BY <1>1, <2>1 DEF OwnRequest, c
  <2>3. at = "wait"
    BY <1>1, <1>9, <2>1, <2>2 DEF OwnRequest, Transferring, c
  <2>4. c = Command(call) /\ Buffered(call, dma[p])
    BY <1>1, <2>1, <2>2, <2>3 DEF OwnRequest, c
  <2>5. PICK k \in Nat : Progress(call, k) /\ Stored(call, k, disk[p])
    BY <2>1 DEF OwnRequest
  <2>6. call.lba + Size(call) <= Sectors
    BY <1>1, <2>4 DEF Command
  <2>7. Stored(call, k, content) /\ Executed(call, content, buffer)
    BY <1>4, <2>1, <2>4, <2>5, <2>6, OwnChunkExecuted
  <2>8. PICK list : list = ci'[p]
    OBVIOUS
  <2>9. \A t \in S!Slots : t # call.slot => list[t] = S!None
    BY <1>8, <2>1, <2>2, <2>8 DEF OwnRequest
  <2>10. list[call.slot] = S!None
    BY <1>8, <2>2, <2>8
  <2>11. \E m \in Nat : Progress(call, m) /\ Stored(call, m, content)
    BY <2>5, <2>7
  <2>12. OwnRequest("wait", call, list, tfes[p], content, buffer)
    BY <2>7, <2>9, <2>10, <2>11 DEF OwnRequest
  <2> QED BY <1>1, <1>6, <2>3, <2>8, <2>12
<1>10. ~(ReportedDone /\ ret.port = p)
  BY <1>1 DEF RequestInv, Exact, c
<1> QED BY <1>1, <1>2, <1>6, <1>7, <1>9, <1>10, ControllerWorks

\* The controller reports an error: the request will not be reported as done.
LEMMA RequestFailed ==
  ASSUME PortInv, RequestInv, NEW p \in S!Ports, NEW s \in S!Slots, S!HbaFails(p, s)
  PROVE  RequestInv'
<1>1. /\ ci[p][s] # S!None /\ tfes' = [tfes EXCEPT ![p] = TRUE]
      /\ UNCHANGED <<driver, dma, disk, at, call, ret>>
  BY DEF S!HbaFails
<1>2. PICK after \in {S!None, ci[p][s]} : ci' = [ci EXCEPT ![p][s] = after]
  BY DEF S!HbaFails
<1>3. /\ ci \in [S!Ports -> [S!Slots -> Issued \cup {S!None}]]
      /\ tfes \in [S!Ports -> BOOLEAN]
      /\ dma \in [S!Ports -> [1..MaxChunk -> Datum]]
      /\ disk \in [S!Ports -> [0..Sectors - 1 -> Datum]]
  BY DEF RequestInv, RequestTypes
<1>4. ci' \in [S!Ports -> [S!Slots -> Issued \cup {S!None}]]
  BY <1>2, <1>3
<1>5. tfes' \in [S!Ports -> BOOLEAN] /\ tfes'[p] = TRUE
  BY <1>1, <1>3
<1>6. \A q \in S!Ports : q # p => ci'[q] = ci[q] /\ tfes'[q] = tfes[q]
  BY <1>1, <1>2, <1>3
<1>7. /\ ci'[p][s] \in {S!None, ci[p][s]}
      /\ \A t \in S!Slots : t # s => ci'[p][t] = ci[p][t]
  BY <1>2, <1>3
<1>8. ASSUME Transferring, call.alone, call.port = p
      PROVE  OwnRequest(at, call, ci'[p], tfes'[p], disk'[p], dma'[p])
  <2>1. OwnRequest(at, call, ci[p], tfes[p], disk[p], dma[p])
    BY <1>8 DEF RequestInv
  <2>2. s = call.slot
    BY <1>1, <2>1 DEF OwnRequest
  <2>3. at = "wait"
    BY <1>1, <1>8, <2>1, <2>2 DEF OwnRequest, Transferring
  <2>4. PICK list : list = ci'[p]
    OBVIOUS
  <2>5. OwnRequest("wait", call, list, TRUE, disk[p], dma[p])
    BY <1>1, <1>7, <2>1, <2>2, <2>3, <2>4 DEF OwnRequest
  <2> QED BY <1>1, <1>5, <2>3, <2>4, <2>5
<1>9. ~(ReportedDone /\ ret.port = p)
  BY <1>1 DEF RequestInv, Exact
<1> QED BY <1>1, <1>3, <1>4, <1>5, <1>6, <1>8, <1>9, ControllerWorks

\* An engine that stops late drops commands, but not those of the request under way.
LEMMA RequestDropped ==
  ASSUME PortInv, RequestInv, NEW p \in S!Ports, S!EngineStops(p)
  PROVE  RequestInv'
<1>1. /\ engine[p] = "stopping" /\ ci' = [ci EXCEPT ![p] = S!NoCommands]
      /\ UNCHANGED <<driver, tfes, dma, disk, at, call, ret>>
  BY DEF S!EngineStops
<1>2. /\ ci \in [S!Ports -> [S!Slots -> Issued \cup {S!None}]]
      /\ tfes \in [S!Ports -> BOOLEAN]
      /\ dma \in [S!Ports -> [1..MaxChunk -> Datum]]
      /\ disk \in [S!Ports -> [0..Sectors - 1 -> Datum]]
  BY DEF RequestInv, RequestTypes
<1>3. /\ ci' \in [S!Ports -> [S!Slots -> Issued \cup {S!None}]]
      /\ \A q \in S!Ports : q # p => ci'[q] = ci[q]
      /\ \A s \in S!Slots : ci'[p][s] = S!None
  BY <1>1, <1>2 DEF S!NoCommands
<1>4. ~(Transferring /\ call.port = p)
  BY <1>1, TransferPort
<1>5. ReportedDone /\ ret.port = p => Exact(ret, ci'[p], disk'[p])
  <2> SUFFICES ASSUME ReportedDone, ret.port = p PROVE Exact(ret, ci'[p], disk'[p])
    OBVIOUS
  <2>1. Exact(ret, ci[p], disk[p])
    BY DEF RequestInv
  <2> QED BY <1>1, <1>3, <2>1 DEF Exact
<1> QED BY <1>1, <1>2, <1>3, <1>4, <1>5, ControllerWorks

\* No step of the SATA driver, or of a controller, breaks the invariant.
LEMMA RequestStep == PortInv /\ RequestInv /\ S!Next => RequestInv'
<1> SUFFICES ASSUME PortInv, RequestInv, S!Next PROVE RequestInv'
  OBVIOUS
<1>1. CASE \/ S!sata_init \/ S!sata_shutdown \/ S!find_and_init_controllers \/ S!ControllerFails
           \/ S!ControllerMapped \/ S!PortSkipped \/ S!init_port \/ S!PortIdentified
           \/ S!PortFails \/ S!init_controller
  BY <1>1, RequestsSetup
<1>2. CASE S!sata_read \/ S!sata_write \/ S!sata_flush
  BY <1>2, RequestsBegin
<1>3. CASE \/ S!port_send_command \/ S!IssueCommand \/ S!AllSent
           \/ S!wait_for_command_completion
  BY <1>3, RequestSends, RequestIssues, RequestDone, RequestAdvances, RequestTimesOut
     DEF S!wait_for_command_completion
<1>4. CASE \E p \in S!Ports : \/ S!EngineStops(p)
                              \/ \E s \in S!Slots : S!HbaExecutes(p, s) \/ S!HbaFails(p, s)
  BY <1>4, RequestExecuted, RequestFailed, RequestDropped
<1> QED BY <1>1, <1>2, <1>3, <1>4 DEF S!Next, S!DriverStep

\* The NVMe driver touches none of this state.
LEMMA RequestNext == PortInv /\ RequestInv /\ [Next]_vars => RequestInv'
<1> SUFFICES ASSUME PortInv, RequestInv, [Next]_vars PROVE RequestInv'
  OBVIOUS
<1>1. CASE S!Next
  BY <1>1, RequestStep
<1>2. CASE UNCHANGED sata
  BY <1>2 DEF sata, RequestInv, RequestTypes, Transferring, ReportedDone
<1> QED BY <1>1, <1>2 DEF Next, vars

\* A request that sata_read or sata_write reports as done was done, chunk by chunk,
\* for any number of sectors and any size of the buffer, whatever the controllers did
\* before, unless an earlier command of the port was still issued when it began.
THEOREM SataRequestsExact == Spec => []RequestsExact
<1>1. RequestInv => RequestsExact
  <2> SUFFICES ASSUME RequestInv, at = "idle", ret # S!None, ret.ok, ret.alone
               PROVE  /\ ret.data # <<>> => ret.start + Len(ret.data) <= Sectors
                      /\ \A i \in DOMAIN ret.data :
                           disk[ret.port][ret.start + i - 1] =
                             IF ret.op = "read" THEN ret.got[i] ELSE ret.data[i]
    BY DEF RequestsExact, S!RequestsExact, S!Idle
  <2> QED BY DEF RequestInv, ReportedDone, Exact
<1> QED BY <1>1, PortInit, PortNext, RequestInit, RequestNext, PTL DEF Spec

=============================================================================
