-------------------------------- MODULE Nvme --------------------------------
(***************************************************************************)
(* The NVMe driver (core/drivers/nvme.c) and controllers that complete     *)
(* commands late, in any order, with an error, or never.                   *)
(*                                                                         *)
(* All requests go through the admin queue.  Its size is 1 << asq_size,    *)
(* and asq_size is only set in nvme_reset_controller, which nothing calls: *)
(* the queue has one entry.  Requests are of one block; reading the clock  *)
(* is a choice, so that a wait may end with its time-out at any moment.    *)
(***************************************************************************)
EXTENDS Integers, FiniteSets, Pci

CONSTANTS
  NVME_MAX_DEVICES,
  LargeBars,     \* the controllers whose BAR exceeds NVME_REG_MAP_SIZE
  Blocks,        \* number of blocks of a namespace
  Values,        \* what is written
  MaxId,         \* command identifiers of nvme_write are 1..MaxId (2^16 - 1)
  IdentifyId,    \* the one of the command to identify the namespace (10)
  MaxRequests    \* bound on the number of requests

VARIABLES
  bus,           \* the PCI bus, fixed at boot
  controllers,   \* nvme_driver.controllers, those that pci_find_devices gave
  device_count,
  cmd_id,        \* the static counter of nvme_write
  dev,           \* the controllers' side: what was submitted, what is stored
  pc, req,       \* where the call in progress is, and its local variables
  result,        \* what the last request returned
  requests

nvmeVars == <<bus, controllers, device_count, cmd_id, dev, pc, req, result, requests>>

Nothing == <<>>

(* What a controller's driver side holds: its mapped registers (0 for the  *)
(* first NVME_REG_MAP_SIZE bytes, 8 for the rest of a larger BAR), admin   *)
(* queues (1, 2), I/O queues (3, 4), and, for the length of a call, the    *)
(* queues (5, 6) and the data (7) of nvme_simple_identify; the data of any *)
(* other command is 7 as well.                                             *)
Things == 0..8
Queues == 1..4
nvme_alloc_dma(h, B) == [b \in Things |-> IF b \in B THEN h[b] + 1 ELSE h[b]]
nvme_free_dma(h, B)  == [b \in Things |-> IF b \in B THEN h[b] - 1 ELSE h[b]]

(* `ended' is history: the step at which the set-up failed, "up", or "down" *)
(* after the shutdown.                                                     *)
NewController ==
  [ended |-> "unmapped", initialized |-> FALSE, ns |-> FALSE, sq_tail |-> 0, phase |-> 1,
   held |-> [b \in Things |-> 0]]

(* sq[1] is the memory behind the queue of one entry.                      *)
NewDevice ==
  [sq |-> [i \in 0..1 |-> Nothing], cq |-> Nothing, phase |-> 1, taken |-> {},
   disk |-> [l \in 0..Blocks - 1 |-> 0]]

Init ==
  /\ controllers = <<>> /\ dev = <<>>
  /\ device_count = 0 /\ cmd_id = 1
  /\ pc = "boot" /\ req = Nothing /\ result = Nothing /\ requests = 0

Idle == pc = "idle"
-----------------------------------------------------------------------------
(* Initialisation.                                                         *)

(* The ways out of nvme_simple_identify: a queue is missing (both are      *)
(* tried), the controller does not get ready, there is no memory for the   *)
(* data, no answer, an error, or success.  `got' are the queues there are. *)
IdentifyExits ==
  {x \in {"queues", "ready", "data", "timeout", "status", "done"} \X SUBSET {5, 6} :
     (x[1] = "queues") <=> (x[2] # {5, 6})}

IdentifyAllocates(exit, got) ==
  IF exit \in {"queues", "ready", "data"} THEN got ELSE got \cup {7}

\* Mutant: the exit after an error status forgets the data.
KeepsIdentifyData(exit, got) ==
  CASE exit = "queues"              -> got
    [] exit \in {"ready", "data"}   -> {5, 6}
    [] exit = "status"              -> {5, 6}
    [] exit \in {"timeout", "done"} -> {7, 5, 6}

(* What each exit frees; the first tests the two pointers.                 *)
IdentifyFrees(exit, got) ==
  CASE exit = "queues"                        -> got
    [] exit \in {"ready", "data"}             -> {5, 6}
    [] exit \in {"timeout", "status", "done"} -> {7, 5, 6}

nvme_simple_identify(h) ==
  {[ok   |-> x[1] = "done",
    held |-> nvme_free_dma(nvme_alloc_dma(h, IdentifyAllocates(x[1], x[2])),
                           IdentifyFrees(x[1], x[2]))] : x \in IdentifyExits}

(* n is the number of queues there is memory for; the second is not tried  *)
(* without the first.                                                      *)
TwoQueues(h, first, n) ==
  LET got == nvme_alloc_dma(h, first..first + n - 1)
  IN  IF n = 1 THEN nvme_free_dma(got, {first}) ELSE got

nvme_setup_admin_queues(h, n) == TwoQueues(h, 1, n)
nvme_create_io_queues(h, n)   == TwoQueues(h, 3, n)

(* The command to identify the namespace is answered, refused              *)
(* or not answered in time; in each case there is a namespace afterwards,  *)
(* a made-up one if need be.  Only a good answer moves the driver's phase. *)
nvme_identify_namespace(c, d, answer) ==
  LET cmd == [id |-> IdentifyId, op |-> "identify", lba |-> 0, v |-> 0, req |-> 0]
      sq  == [d.sq EXCEPT ![0] = cmd]
  IN  [c |-> [c EXCEPT !.ns = TRUE,
                       !.phase = IF answer = "good" THEN 0 ELSE 1,
                       !.held = nvme_free_dma(nvme_alloc_dma(@, {7}), {7})],
       d |-> IF answer = "late"
               THEN [d EXCEPT !.sq = sq, !.taken = {cmd}]
               ELSE [d EXCEPT !.sq = sq, !.phase = 0,
                              !.cq = [id |-> IdentifyId, phase |-> 1, ok |-> answer = "good"]]]

(* The outcomes of setting up controller i, from its PCI device on.  What  *)
(* a failed step leaves behind stays: registers and, when the I/O queues   *)
(* fail, the admin queues.                                                 *)
NoRegisters == [c |-> NewController, d |-> NewDevice]
Registers(i) ==
  [b \in Things |-> IF b = 0 \/ (b = 8 /\ i \in LargeBars) THEN 1 ELSE 0]

Failed(h, step) == [c |-> [NewController EXCEPT !.held = h, !.ended = step], d |-> NewDevice]

AfterIdentify(h) ==
  LET h2 == nvme_setup_admin_queues(h, 2)
      h4 == nvme_create_io_queues(h2, 2)
      up == [NewController EXCEPT !.initialized = TRUE, !.held = h4, !.ended = "up"]
  IN  {Failed(nvme_setup_admin_queues(h, n), "admin") : n \in 0..1}
      \cup {Failed(nvme_create_io_queues(h2, n), "io") : n \in 0..1}
      \cup {[c |-> up, d |-> NewDevice]}   \* no memory for the namespace data
      \cup {nvme_identify_namespace(up, NewDevice, a) : a \in {"good", "bad", "late"}}

nvme_init_controller(i) ==
  UNION {IF x.ok THEN AfterIdentify(x.held) ELSE {Failed(x.held, "identify")} :
           x \in nvme_simple_identify(Registers(i))}

Outcomes(i) == nvme_init_controller(i) \cup {NoRegisters}

nvme_init ==
  /\ pc = "boot"
  /\ LET found == pci_find_devices(bus, "nvme")
         count == IF Len(found) > NVME_MAX_DEVICES THEN NVME_MAX_DEVICES ELSE Len(found)
     IN  \E outcome \in [1..count -> UNION {Outcomes(i) : i \in 1..count}] :
           /\ \A i \in 1..count : outcome[i] \in Outcomes(i)
           /\ controllers' = [i \in 1..count |-> outcome[i].c]
           /\ dev' = [i \in 1..count |-> outcome[i].d]
           /\ device_count' = Cardinality({i \in 1..count : outcome[i].c.initialized})
  /\ pc' = "idle"
  /\ UNCHANGED <<bus, cmd_id, req, result, requests>>

(* Only the first device_count controllers are visited.  NVME_REG_MAP_SIZE *)
(* bytes of the registers are unmapped: the rest of a larger BAR stays.    *)
nvme_shutdown ==
  /\ Idle /\ device_count > 0
  /\ controllers' = [i \in DOMAIN controllers |->
       IF i <= device_count /\ controllers[i].initialized
         THEN [controllers[i] EXCEPT !.initialized = FALSE, !.ended = "down",
                                     !.held = nvme_free_dma(@, {0} \cup Queues)]
         ELSE controllers[i]]
  /\ device_count' = 0
  /\ UNCHANGED <<bus, cmd_id, dev, pc, req, result, requests>>
-----------------------------------------------------------------------------
(* Requests.  A doorbell makes the controller take the one entry of its    *)
(* queue, which is not where the driver put the command once sq_tail is 1. *)

Refused(i) == i > device_count \/ ~controllers[i].initialized \/ ~controllers[i].ns

Returns(ok) ==
  /\ pc' = "idle" /\ req' = Nothing
  /\ result' = [ok |-> ok, op |-> req.op, i |-> req.i, lba |-> req.lba, v |-> req.v]

(* The checks fail or there is no memory for the data.                     *)
RequestFails ==
  /\ Idle /\ requests < MaxRequests
  /\ requests' = requests + 1
  /\ result' = [ok |-> FALSE]
  /\ UNCHANGED <<bus, controllers, device_count, cmd_id, dev, pc, req>>

Doorbell(d, sq) == [d EXCEPT !.sq = sq, !.taken = @ \cup ({sq[0]} \ {Nothing})]

nvme_read(i, lba) ==
  LET c == [op |-> "read", lba |-> lba, v |-> 0, id |-> 1, req |-> requests]
  IN  /\ Idle /\ requests < MaxRequests /\ ~Refused(i)
      /\ req' = [op |-> "read", i |-> i, lba |-> lba, v |-> 0, id |-> 1]
      /\ controllers' = [controllers EXCEPT ![i].sq_tail = 1, ![i].phase = 1,
                                            ![i].held = nvme_alloc_dma(@, {7})]
      /\ dev' = [dev EXCEPT ![i] = Doorbell([dev[i] EXCEPT !.cq = Nothing],
                                            [dev[i].sq EXCEPT ![0] = c])]
      /\ pc' = "poll" /\ requests' = requests + 1 /\ result' = Nothing
      /\ UNCHANGED <<bus, device_count, cmd_id>>

nvme_write(i, lba, v) ==
  LET c == [op |-> "write", lba |-> lba, v |-> v, id |-> cmd_id, req |-> requests]
      tail == controllers[i].sq_tail
  IN  /\ Idle /\ requests < MaxRequests /\ ~Refused(i)
      /\ req' = [op |-> "write", i |-> i, lba |-> lba, v |-> v, id |-> cmd_id]
      /\ cmd_id' = IF cmd_id = MaxId THEN 1 ELSE cmd_id + 1
      /\ controllers' = [controllers EXCEPT ![i].sq_tail = 0,   \* (tail + 1) % 1
                                            ![i].held = nvme_alloc_dma(@, {7})]
      /\ dev' = [dev EXCEPT ![i] = Doorbell(dev[i], [dev[i].sq EXCEPT ![tail] = c])]
      /\ pc' = "poll" /\ requests' = requests + 1 /\ result' = Nothing
      /\ UNCHANGED <<bus, device_count>>

(* nvme_flush submits to an I/O queue that the controller was never told   *)
(* of, looks once for an answer and reports a time-out.                    *)
nvme_flush(i) == ~Refused(i) /\ RequestFails

\* Mutant: the poll looks at the phase only.
AnyOfPhase ==
  LET e == dev[req.i].cq
  IN  e # Nothing /\ e.phase = controllers[req.i].phase

(* The entry of the completion queue that the poll takes for its own.      *)
Matches ==
  LET e == dev[req.i].cq
  IN  e # Nothing /\ e.phase = controllers[req.i].phase /\ e.id = req.id

FreeData(c) == [c EXCEPT !.held = nvme_free_dma(@, {7})]

(* nvme_read: a good answer's data goes to the caller; else the data is    *)
(* made up.  Either way the read is reported as done.                      *)
ReadEnds ==
  /\ pc = "poll" /\ req.op = "read"
  /\ controllers' = [controllers EXCEPT ![req.i] = FreeData(@)]
  /\ Returns(TRUE)
  /\ UNCHANGED <<bus, device_count, cmd_id, dev, requests>>

(* nvme_write: only a good answer ends the poll before its time-out.  The  *)
(* head goes to (0 + 1) % 1 = 0, so that the phase turns every time.       *)
WriteDone ==
  /\ pc = "poll" /\ req.op = "write" /\ Matches /\ dev[req.i].cq.ok
  /\ controllers' = [controllers EXCEPT
       ![req.i] = [FreeData(@) EXCEPT !.phase = 1 - controllers[req.i].phase]]
  /\ Returns(TRUE)
  /\ UNCHANGED <<bus, device_count, cmd_id, dev, requests>>

WriteTimesOut ==
  /\ pc = "poll" /\ req.op = "write"
  /\ controllers' = [controllers EXCEPT ![req.i] = FreeData(@)]
  /\ Returns(FALSE)
  /\ UNCHANGED <<bus, device_count, cmd_id, dev, requests>>

(* A controller completes a command it has taken, well or not, and posts   *)
(* it in the one entry of the completion queue with its own phase.         *)
Completed(d, c, ok, v) ==
  [d EXCEPT !.taken = d.taken \ {c},
            !.disk = IF ok /\ c.op = "write" THEN [d.disk EXCEPT ![c.lba] = v] ELSE d.disk,
            !.cq = [id |-> c.id, phase |-> d.phase, ok |-> ok],
            !.phase = 1 - d.phase]

(* The data of a request that gave up is somebody else's memory by now:    *)
(* such a write stores any value.                                          *)
Completes(i, c, ok) ==
  /\ c \in dev[i].taken
  /\ \E v \in IF req # Nothing /\ c.req = requests - 1 THEN {c.v} ELSE Values \cup {0} :
       dev' = [dev EXCEPT ![i] = Completed(dev[i], c, ok, v)]
  /\ UNCHANGED <<bus, controllers, device_count, cmd_id, pc, req, result, requests>>

DriverStep == ReadEnds \/ WriteDone \/ WriteTimesOut

Next ==
  \/ nvme_init \/ nvme_shutdown \/ RequestFails
  \/ \E i \in DOMAIN controllers :
       \/ nvme_flush(i)
       \/ \E lba \in 0..Blocks - 1 :
            nvme_read(i, lba) \/ \E v \in Values : nvme_write(i, lba, v)
       \/ \E c \in dev[i].taken, ok \in BOOLEAN : Completes(i, c, ok)
  \/ DriverStep

(* The code of a request keeps running.                                    *)
Fairness == WF_nvmeVars(DriverStep)
-----------------------------------------------------------------------------
(* What is left held by the way a set-up ended: a failure to identify or   *)
(* to set up the admin queues leaves the registers mapped, a failure of    *)
(* the I/O queues the admin queues too, for good; a controller that works  *)
(* has its registers and four queues; a shutdown leaves none of these.     *)
LeftBy(ended) ==
  CASE ended \in {"unmapped", "down"}  -> {}
    [] ended \in {"identify", "admin"} -> {0}
    [] ended = "io"                    -> {0, 1, 2}
    [] ended = "up"                    -> {0} \cup Queues

(* Between calls a controller holds exactly that, each thing once, and no  *)
(* data; only the rest of a large BAR stays mapped once it was mapped.     *)
(* The driver uses those that are up and no other.                         *)
DmaExact ==
  Idle => \A i \in DOMAIN controllers :
    LET c == controllers[i]
    IN  /\ c.initialized <=> c.ended = "up"
        /\ \A b \in 0..7 : c.held[b] = IF b \in LeftBy(c.ended) THEN 1 ELSE 0
        /\ c.held[8] = IF i \in LargeBars /\ c.ended # "unmapped" THEN 1 ELSE 0

(* When nvme_write reports a write as done, the controller has done it,    *)
(* although completions of commands that were given up arrive late and     *)
(* those of reads stay in the queue.  Two identifiers are left out: 1,     *)
(* which every read uses too, and the one of the command that identifies   *)
(* the namespace.  The write that has one of them takes the completion of  *)
(* the other command for its own.                                          *)
WritesDone ==
  [][WriteDone /\ req.id \notin {1, IdentifyId} =>
       dev[req.i].disk[req.lba] = req.v]_nvmeVars
=============================================================================
