-------------------------------- MODULE Sata --------------------------------
(***************************************************************************)
(* The SATA driver (core/drivers/sata.c) on top of AHCI controllers that   *)
(* work on their own: they execute the commands issued in a port's slots   *)
(* late, in any order, with an error, or never.                            *)
(*                                                                         *)
(* One call of the driver is in progress at a time: a port is locked by    *)
(* the call that uses it and the kernel runs on one CPU.  Reading the      *)
(* clock is a choice: a wait may end with its time-out at any moment.      *)
(* sata_init is called once, by kmain, or again after sata_shutdown: the   *)
(* code does not check, and a call while the driver is up would clear its  *)
(* tables and lose the memory of the ports; such a call is left out.       *)
(***************************************************************************)
EXTENDS Integers, FiniteSets, Pci

CONSTANTS
  Hbas,                   \* the AHCI controllers there may be
  PortNums,               \* the ports a controller implements
  SlotCount,              \* command slots of a port (32)
  SATA_MAX_CONTROLLERS, SATA_MAX_PORTS,
  Drives,                 \* what may be attached: port -> kind of drive
  Sectors,                \* sectors of a drive
  SectorCount,            \* what the driver takes for it (2M, the default)
  Word,                   \* 2^64, the range of the block addresses
  Ids, Lbas, Counts, Values,  \* the requests that are made
  MaxChunk,               \* sectors that fit the DMA buffer of a port
  MaxCalls                \* bound on the number of calls of the driver

VARIABLES
  bus, drive,   \* the hardware, fixed at boot
  driver,       \* sata_driver: controllers, total_ports, initialized
  mem,          \* DMA buffers of a port: allocated minus freed
  abar,         \* pages of a controller's registers that are mapped (0..2)
  engine,       \* "off", "on", or "stopping": ST cleared and CR still set
  ci,           \* the commands issued to the controller, by slot, or None
  tfes,         \* error bit of a port
  dma,          \* contents of a port's DMA buffer
  disk,         \* contents of a drive
  at, call,     \* where the call in progress is, and its local variables
  ret,          \* what the last request returned
  calls         \* calls made so far

hardware == <<bus, drive>>
io       == <<ci, tfes, dma, disk>>
vars     == <<hardware, driver, mem, abar, engine, io, at, call, ret, calls>>

Ports   == Hbas \X PortNums
Slots   == 0..SlotCount - 1
None    == <<>>
NoCommands == [s \in Slots |-> None]

(* The buffers of a port in the order of allocation: command list (1),     *)
(* received FIS (2), a table per slot, the data buffer; 0 is the one that  *)
(* identify_device takes and gives back.  `mem' counts calls: that the     *)
(* frames behind a freed buffer do not come back is ProcessMemory's part.  *)
LastBuffer == SlotCount + 3
Buffers    == 0..LastBuffer

alloc_dma_buffer(m, B) == [b \in Buffers |-> IF b \in B THEN m[b] + 1 ELSE m[b]]
free_dma_buffer(m, B)  == [b \in Buffers |-> IF b \in B THEN m[b] - 1 ELSE m[b]]

Idle    == at = "idle"
Counted == calls < MaxCalls /\ calls' = calls + 1
Reset == [initialized |-> FALSE, controllers |-> <<>>, total_ports |-> 0]

Init ==
  /\ drive \in Drives
  /\ driver = Reset
  /\ mem = [p \in Ports |-> [b \in Buffers |-> 0]]
  /\ abar = [h \in Hbas |-> 0]
  /\ engine = [p \in Ports |-> "on"]   \* left running by the firmware
  /\ ci = [p \in Ports |-> NoCommands]
  /\ tfes = [p \in Ports |-> FALSE]
  /\ dma = [p \in Ports |-> [i \in 1..MaxChunk |-> 0]]
  /\ disk = [p \in Ports |-> [l \in 0..Sectors - 1 |-> l + 1]]
  /\ at = "idle"
  /\ call = None
  /\ ret = None
  /\ calls = 0
-----------------------------------------------------------------------------
(* Starting and stopping the command engine of a port.                     *)

(* ST is cleared, then the code waits for CR; after 500 ms it goes on with *)
(* a warning.  Stopping drops the commands that were issued.               *)
stop_port(P) ==
  \E stuck \in SUBSET {p \in P : engine[p] # "off"} :
    /\ engine' = [p \in Ports |-> IF p \in stuck THEN "stopping"
                                  ELSE IF p \in P THEN "off" ELSE engine[p]]
    /\ ci' = [p \in Ports |-> IF p \in P \ stuck THEN NoCommands ELSE ci[p]]

(* The engine stops after all (the controller).                            *)
EngineStops(p) ==
  /\ engine[p] = "stopping"
  /\ engine' = [engine EXCEPT ![p] = "off"]
  /\ ci' = [ci EXCEPT ![p] = NoCommands]
  /\ UNCHANGED <<hardware, driver, mem, abar, tfes, dma, disk, at, call, ret, calls>>
-----------------------------------------------------------------------------
(* Initialisation.  call.devs are the controllers still to be visited,     *)
(* call.left the ports of the first one, call.active those that work.      *)

sata_init ==
  /\ Idle /\ ~driver.initialized /\ Counted
  /\ driver' = Reset
  /\ LET devices == pci_find_devices(bus, "ahci")
         count == IF Len(devices) > SATA_MAX_CONTROLLERS THEN SATA_MAX_CONTROLLERS
                                                         ELSE Len(devices)
     IN  /\ devices # <<>>
         /\ call' = [devs |-> SubSeq(devices, 1, count)]
         /\ at' = "controller"
  /\ ret' = None
  /\ UNCHANGED <<hardware, mem, abar, engine, io>>

(* After the last controller: the driver works if one of them does.        *)
find_and_init_controllers ==
  /\ at = "controller" /\ call.devs = <<>>
  /\ driver' = [driver EXCEPT !.initialized = driver.controllers # <<>>]
  /\ at' = "idle" /\ call' = None
  /\ UNCHANGED <<hardware, mem, abar, engine, io, ret, calls>>

(* No address or no mapping, or the reset times out and both pages are     *)
(* unmapped.                                                               *)
ControllerFails ==
  /\ at = "controller" /\ call.devs # <<>>
  /\ LET h == Head(call.devs).hba
     IN  \E left \in {abar[h], 0} : abar' = [abar EXCEPT ![h] = left]
  /\ call' = [devs |-> Tail(call.devs)]
  /\ UNCHANGED <<hardware, driver, mem, engine, io, at, ret, calls>>

(* The registers are two pages, the controller was reset.                  *)
ControllerMapped ==
  /\ at = "controller" /\ call.devs # <<>>
  /\ abar' = [abar EXCEPT ![Head(call.devs).hba] = 2]
  /\ call' = [devs |-> call.devs, left |-> PortNums, active |-> {}]
  /\ at' = "port"
  /\ UNCHANGED <<hardware, driver, mem, engine, io, ret, calls>>

ThisPort == <<Head(call.devs).hba, Min(call.left)>>
NextPort == [call EXCEPT !.left = @ \ {Min(@)}]

PortSkipped ==
  /\ at = "port" /\ call.left # {}
  /\ driver.total_ports >= SATA_MAX_PORTS \/ drive[ThisPort] = "none"
  /\ call' = NextPort
  /\ UNCHANGED <<hardware, driver, mem, abar, engine, io, at, ret, calls>>

\* Mutant: the received FIS stays allocated after a failure.
ForgetsFis(k) == (1..k) \ {2}

(* What is given back when only the first k buffers could be allocated.    *)
FreedAfter(k) == 1..k

(* reset_port stops the engine, allocate_port_memory takes the buffers up  *)
(* to the one that fails, or all of them.                                  *)
allocate_port_memory(k) ==
  LET m == alloc_dma_buffer(mem[ThisPort], 1..k)
  IN  mem' = [mem EXCEPT ![ThisPort] =
                IF k < LastBuffer THEN free_dma_buffer(m, FreedAfter(k)) ELSE m]

init_port ==
  /\ at = "port" /\ call.left # {}
  /\ driver.total_ports < SATA_MAX_PORTS /\ drive[ThisPort] # "none"
  /\ stop_port({ThisPort})
  /\ \E k \in 0..LastBuffer :
       /\ allocate_port_memory(k)
       /\ IF k < LastBuffer THEN call' = NextPort /\ UNCHANGED at
                            ELSE UNCHANGED call /\ at' = "start"
  /\ tfes' = [tfes EXCEPT ![ThisPort] = FALSE]
  /\ dma' = [dma EXCEPT ![ThisPort] = [i \in 1..MaxChunk |-> 0]]
  /\ UNCHANGED <<hardware, driver, abar, disk, ret, calls>>

free_port_memory(m) == free_dma_buffer(m, 1..LastBuffer)

(* start_port waits for CR without a time-out; then an ATA drive answers.  *)
(* The buffer for its answer is taken and given back; the controller was   *)
(* told its virtual address, so that the answer never arrives there and    *)
(* the default sector count is used.  An answer with an error that clears  *)
(* the slot counts as well, and leaves the error bit set.  No command is   *)
(* issued before IDENTIFY, and none left after it.                         *)
PortIdentified ==
  /\ at = "start" /\ engine[ThisPort] = "off" /\ drive[ThisPort] = "ata"
  /\ engine' = [engine EXCEPT ![ThisPort] = "on"]
  /\ mem' = [mem EXCEPT ![ThisPort] = free_dma_buffer(alloc_dma_buffer(@, {0}), {0})]
  /\ driver' = [driver EXCEPT !.total_ports = @ + 1]
  /\ call' = [NextPort EXCEPT !.active = @ \cup {Min(call.left)}]
  /\ at' = "port"
  /\ \E error \in BOOLEAN : tfes' = [tfes EXCEPT ![ThisPort] = error]
  /\ UNCHANGED <<hardware, abar, ci, dma, disk, ret, calls>>

(* The drive is of another kind, busy, answers with an error or not at     *)
(* all, or there is no memory for the answer.                              *)
PortFails ==
  /\ at = "start" /\ engine[ThisPort] = "off"
  /\ \E stuck \in {"off", "stopping"} : engine' = [engine EXCEPT ![ThisPort] = stuck]
  /\ mem' = [mem EXCEPT ![ThisPort] = free_port_memory(@)]
  /\ call' = NextPort
  /\ at' = "port"
  /\ UNCHANGED <<hardware, driver, abar, io, ret, calls>>

(* A controller without a working port is given up.                        *)
init_controller ==
  /\ at = "port" /\ call.left = {}
  /\ LET h == Head(call.devs).hba
     IN  IF call.active = {}
           THEN abar' = [abar EXCEPT ![h] = 0] /\ UNCHANGED driver
           ELSE /\ driver' = [driver EXCEPT !.controllers =
                                Append(@, [hba |-> h, ports_active |-> call.active])]
                /\ UNCHANGED abar
  /\ call' = [devs |-> Tail(call.devs)]
  /\ at' = "controller"
  /\ UNCHANGED <<hardware, mem, engine, io, ret, calls>>
-----------------------------------------------------------------------------
(* The places of the active ports: the index of the controller and the bit *)
(* of the port in ports_active.                                            *)
Places(d) == UNION {{i} \X d.controllers[i].ports_active : i \in DOMAIN d.controllers}

PortAt(d, a)   == <<d.controllers[a[1]].hba, a[2]>>
ActivePorts(d) == {PortAt(d, a) : a \in Places(d)}

(* The search for an identifier visits the places in order and ends at the *)
(* one that has as many active ports before it.                            *)
Earlier(d, a) == {b \in Places(d) : b[1] < a[1] \/ (b[1] = a[1] /\ b[2] < a[2])}
Found(d, id)  == {a \in Places(d) : Cardinality(Earlier(d, a)) = id}
PortById(d, id) == PortAt(d, CHOOSE a \in Found(d, id) : TRUE)

(* Each port is stopped and gives its memory back; of the two pages of     *)
(* registers one is unmapped.                                              *)
sata_shutdown ==
  /\ Idle /\ driver.initialized /\ Counted
  /\ LET active == ActivePorts(driver)
         used == {driver.controllers[i].hba : i \in DOMAIN driver.controllers}
     IN  /\ stop_port(active)
         /\ mem' = [p \in Ports |-> IF p \in active THEN free_port_memory(mem[p]) ELSE mem[p]]
         /\ abar' = [h \in Hbas |-> IF h \in used THEN 1 ELSE abar[h]]
  /\ driver' = Reset
  /\ ret' = None
  /\ UNCHANGED <<hardware, tfes, dma, disk, at, call>>
-----------------------------------------------------------------------------
(* Requests.                                                               *)

\* Mutant: slot 0 is used without a look at the issued commands.
IgnoresIssued(p) == 0

find_command_slot(p) ==
  LET free == {s \in Slots : ci[p][s] = None}
  IN  IF free = {} THEN -1 ELSE Min(free)

(* The checks shared by the three requests; the sum has 64 bits.           *)
Accepted(id, lba, n) ==
  /\ driver.initialized
  /\ id < driver.total_ports
  /\ Found(driver, id) # {}
  /\ (lba + n) % Word <= SectorCount
  /\ find_command_slot(PortById(driver, id)) # -1

Request(op, id, lba, data) ==
  /\ Idle /\ Counted
  /\ IF Accepted(id, lba, Len(data))
       THEN LET p == PortById(driver, id)
            IN  /\ call' = [op |-> op, port |-> p, slot |-> find_command_slot(p),
                            lba |-> lba, left |-> data, got |-> <<>>,
                            start |-> lba, data |-> data, alone |-> ci[p] = NoCommands,
                            seen |-> NoCommands]
                /\ at' = "send"
                /\ ret' = None
       ELSE ret' = [ok |-> FALSE] /\ UNCHANGED <<at, call>>
  /\ UNCHANGED <<hardware, driver, mem, abar, engine, io>>

sata_read  == \E id \in Ids, lba \in Lbas, n \in Counts :
                Request("read", id, lba, [i \in 1..n |-> 0])
sata_write == \E id \in Ids, lba \in Lbas, n \in Counts, v \in Values :
                Request("write", id, lba, [i \in 1..n |-> v])
sata_flush == \E id \in Ids : Request("flush", id, 0, <<>>)

Return(c, ok) ==
  /\ at' = "idle"
  /\ call' = None
  /\ ret' = [ok |-> ok, op |-> c.op, port |-> c.port, start |-> c.start,
             data |-> c.data, got |-> c.got, alone |-> c.alone]

Chunk == IF Len(call.left) > MaxChunk THEN MaxChunk ELSE Len(call.left)

(* The command and, for a write, its data are put in place; then the       *)
(* register of issued commands is read, to be written back with the new    *)
(* slot (ci |= 1 << slot).                                                 *)
port_send_command ==
  LET p == call.port
  IN  /\ at = "send"
      /\ call.left # <<>> \/ call.op = "flush"
      /\ call' = [call EXCEPT !.seen = ci[p]]
      /\ dma' = [dma EXCEPT ![p] = [i \in 1..MaxChunk |->
                   IF call.op = "write" /\ i <= Chunk THEN call.left[i] ELSE @[i]]]
      /\ at' = "issue"
      /\ UNCHANGED <<hardware, driver, mem, abar, engine, ci, tfes, disk, ret, calls>>

(* What was issued when the register was read is issued again, also if the *)
(* controller has finished it since.                                       *)
IssueCommand ==
  /\ at = "issue"
  /\ ci' = [ci EXCEPT ![call.port] =
       [call.seen EXCEPT ![call.slot] = [op |-> call.op, lba |-> call.lba, n |-> Chunk]]]
  /\ call' = [call EXCEPT !.seen = NoCommands]
  /\ at' = "wait"
  /\ UNCHANGED <<hardware, driver, mem, abar, engine, tfes, dma, disk, ret, calls>>

(* Nothing is left to be sent.                                             *)
AllSent ==
  /\ at = "send" /\ call.left = <<>> /\ call.op # "flush"
  /\ Return(call, TRUE)
  /\ UNCHANGED <<hardware, driver, mem, abar, engine, io, calls>>

\* Mutant: every chunk is sent to the first address.
KeepsLba ==
  [call EXCEPT !.left = SubSeq(@, Chunk + 1, Len(@)),
               !.got  = IF call.op = "read" THEN @ \o SubSeq(dma[call.port], 1, Chunk) ELSE @]

(* After a chunk: what was read is copied to the caller.                   *)
Advanced ==
  [call EXCEPT !.left = SubSeq(@, Chunk + 1, Len(@)),
               !.lba  = (@ + Chunk) % Word,
               !.got  = IF call.op = "read" THEN @ \o SubSeq(dma[call.port], 1, Chunk) ELSE @]

SlotCleared ==
  LET p == call.port
  IN  /\ at = "wait" /\ ci[p][call.slot] = None
      /\ tfes' = [tfes EXCEPT ![p] = FALSE]
      /\ IF tfes[p] THEN Return(call, FALSE)
         ELSE IF call.op = "flush" THEN Return(call, TRUE)
         ELSE call' = Advanced /\ at' = "send" /\ UNCHANGED ret
      /\ UNCHANGED <<hardware, driver, mem, abar, engine, ci, dma, disk, calls>>

(* The command stays issued; its buffer will be used again.                *)
WaitTimesOut ==
  /\ at = "wait"
  /\ Return(call, FALSE)
  /\ UNCHANGED <<hardware, driver, mem, abar, engine, io, calls>>

\* Mutant: the wait has no time-out.
NeverTimesOut == SlotCleared

wait_for_command_completion == SlotCleared \/ WaitTimesOut
-----------------------------------------------------------------------------
(* The controller executes a command: it moves data between the buffer of  *)
(* the port and the drive, and clears the slot.                            *)
HbaExecutes(p, s) ==
  LET c == ci[p][s]
  IN  /\ engine[p] # "off" /\ ci[p][s] # None
      /\ c.lba + c.n <= Sectors
      /\ ci' = [ci EXCEPT ![p][s] = None]
      /\ dma' = [dma EXCEPT ![p] = [i \in 1..MaxChunk |->
                   IF c.op = "read" /\ i <= c.n THEN disk[p][c.lba + i - 1] ELSE @[i]]]
      /\ disk' = [disk EXCEPT ![p] = [l \in 0..Sectors - 1 |->
                   IF c.op = "write" /\ l >= c.lba /\ l < c.lba + c.n
                     THEN dma[p][l - c.lba + 1] ELSE @[l]]]
      /\ UNCHANGED <<hardware, driver, mem, abar, engine, tfes, at, call, ret, calls>>

(* It reports an error instead, with or without clearing the slot.         *)
HbaFails(p, s) ==
  /\ engine[p] # "off" /\ ci[p][s] # None
  /\ tfes' = [tfes EXCEPT ![p] = TRUE]
  /\ \E after \in {None, ci[p][s]} : ci' = [ci EXCEPT ![p][s] = after]
  /\ UNCHANGED <<hardware, driver, mem, abar, engine, dma, disk, at, call, ret, calls>>

DriverStep ==
  \/ find_and_init_controllers \/ ControllerFails \/ ControllerMapped
  \/ PortSkipped \/ init_port \/ PortIdentified \/ PortFails \/ init_controller
  \/ port_send_command \/ IssueCommand \/ AllSent \/ wait_for_command_completion

Next ==
  \/ sata_init \/ sata_shutdown \/ sata_read \/ sata_write \/ sata_flush
  \/ DriverStep
  \/ \E p \in Ports : \/ EngineStops(p)
                      \/ \E s \in Slots : HbaExecutes(p, s) \/ HbaFails(p, s)

(* The code of a call keeps running; a controller told to stop does.       *)
Fairness == WF_vars(DriverStep) /\ \A p \in Ports : WF_vars(EngineStops(p))
-----------------------------------------------------------------------------
(* Between calls, the identifiers below sata_get_port_count are those that *)
(* the search finds, each names one port, and together they name all that  *)
(* are active; these ports hold each of their DMA buffers once and no      *)
(* other port holds any, whatever allocation, drive or controller failed.  *)
PortsExact ==
  Idle =>
    /\ Cardinality(ActivePorts(driver)) = driver.total_ports
    /\ \A id \in 0..driver.total_ports - 1 : Found(driver, id) # {}
    /\ ActivePorts(driver) = {PortById(driver, id) : id \in 0..driver.total_ports - 1}
    /\ \A p \in Ports, b \in Buffers :
         mem[p][b] = IF p \in ActivePorts(driver) /\ b # 0 THEN 1 ELSE 0

(* A request that sata_read or sata_write reports as done was done: its    *)
(* sectors exist, although the driver's count of them is only a default,   *)
(* and all its chunks are on the drive, or in the caller's buffer, also    *)
(* when the address wraps around.  It holds when                           *)
(* no earlier command of the port was still issued as the request began;   *)
(* such a command shares the DMA buffer of the port.                       *)
RequestsExact ==
  (Idle /\ ret # None /\ ret.ok /\ ret.alone) =>
    /\ ret.data # <<>> => ret.start + Len(ret.data) <= Sectors
    /\ \A i \in DOMAIN ret.data :
         disk[ret.port][ret.start + i - 1] = IF ret.op = "read" THEN ret.got[i] ELSE ret.data[i]

(* The command of a slot is never rewritten while the controller owns the  *)
(* slot, also not after the call that issued it gave up.                   *)
SlotsOwned ==
  [][\A p \in Ports, s \in Slots :
       ci[p][s] # None => ci'[p][s] \in {ci[p][s], None}]_vars
=============================================================================
