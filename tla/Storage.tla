------------------------------ MODULE Storage ------------------------------
(***************************************************************************)
(* The two drivers of block devices on one machine (core/main.c calls      *)
(* nvme_init and then sata_init).  They share the PCI bus and no other     *)
(* state, so each is explored on its own: a behaviour uses one of them and *)
(* leaves the other as it was at boot.                                     *)
(***************************************************************************)
EXTENDS Integers, Sequences

CONSTANTS
  MAX_PCI_DEVICES, NoDevice, Buses,
  Hbas, PortNums, SlotCount, SATA_MAX_CONTROLLERS, SATA_MAX_PORTS, Drives,
  Sectors, SectorCount, Word, Ids, Lbas, Counts, Values, MaxChunk, MaxCalls,
  NVME_MAX_DEVICES, LargeBars, Blocks, MaxId, IdentifyId, MaxRequests

VARIABLES
  inUse, bus,
  drive, driver, mem, abar, engine, ci, tfes, dma, disk, at, call, ret, calls,
  controllers, device_count, cmd_id, dev, pc, req, result, requests

S == INSTANCE Sata
N == INSTANCE Nvme

(* A drive has fewer sectors than block addresses, ports_active has 32     *)
(* bits.  The requests to the NVMe driver end before the 16-bit counter of *)
(* nvme_write comes round: no identifier of a write is used again.         *)
ASSUME StorageAssumption ==
  /\ {SlotCount, MaxChunk, Sectors, Blocks, MaxId} \subseteq Nat \ {0}
  /\ {Word, SATA_MAX_CONTROLLERS, SATA_MAX_PORTS} \subseteq Nat
  /\ Sectors < Word
  /\ PortNums \subseteq 0..31
  /\ Lbas \subseteq 0..Word - 1
  /\ Counts \subseteq Nat
  /\ MaxRequests \in 0..MaxId /\ IdentifyId \in Nat

(* A controller is one function of one device: the bus lists it once.      *)
ASSUME BusAssumption ==
  \A b \in Buses :
    LET found == S!pci_find_devices(b, "ahci")
    IN  /\ found \in Seq([class : {"ahci"}, hba : Hbas])
        /\ \A i, j \in DOMAIN found : found[i].hba = found[j].hba => i = j

sata == <<drive, driver, mem, abar, engine, ci, tfes, dma, disk, at, call, ret, calls>>
nvme == <<controllers, device_count, cmd_id, dev, pc, req, result, requests>>
vars == <<inUse, bus, sata, nvme>>

Init == inUse \in {"sata", "nvme"} /\ bus \in Buses /\ S!Init /\ N!Init

Next == /\ UNCHANGED inUse
        /\ \/ inUse = "sata" /\ S!Next /\ UNCHANGED nvme
           \/ inUse = "nvme" /\ N!Next /\ UNCHANGED sata

Spec == Init /\ [][Next]_vars /\ S!Fairness /\ N!Fairness
-----------------------------------------------------------------------------
(* sata.c: between calls the identifiers, the active ports and the DMA     *)
(* memory held agree, whatever allocation, drive or controller failed.     *)
PortsExact == S!PortsExact

(* sata_read, sata_write: a request reported as done was done, chunk by    *)
(* chunk, unless an earlier command of the port was still issued.          *)
RequestsExact == S!RequestsExact

(* sata.c: the command in a slot is never rewritten while the controller   *)
(* owns the slot, also not after the call that issued it gave up.          *)
SlotsOwned == S!SlotsOwned

(* nvme.c: between calls a controller holds exactly what the way its       *)
(* set-up ended, or the shutdown, leaves: each buffer once, none freed     *)
(* twice, none left over but the registers and admin queues that a failed  *)
(* set-up does not give back and the part of a large BAR that the shutdown *)
(* leaves mapped.                                                          *)
NvmeDmaExact == N!DmaExact

(* Every call of either driver comes back, although a controller may never *)
(* answer, or stop the engine of a port late.                              *)
EveryCallReturns ==
  (at # "idle" \/ pc = "poll") ~> (at = "idle" /\ pc # "poll")

(* nvme_write: a write reported as done was done by the controller, unless *)
(* it carries the identifier that reads or the set-up use.                 *)
NvmeWritesDone == N!WritesDone
=============================================================================
