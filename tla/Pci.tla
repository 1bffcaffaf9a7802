-------------------------------- MODULE Pci --------------------------------
(***************************************************************************)
(* The discovery of devices on the PCI bus (core/drivers/pci.c).  A bus is *)
(* the sequence of its device positions in the order in which they are     *)
(* scanned; a position has the devices of its functions, function 0 first, *)
(* and the byte of its configuration space at 0x0C.                        *)
(***************************************************************************)
EXTENDS Naturals, Sequences, SequencesExt

CONSTANTS
  MAX_PCI_DEVICES,   \* room in the table of detected devices
  NoDevice           \* what a function without a device answers

(* The code asks for the header type at 0x0E, but the address keeps only   *)
(* offset & 0xFC and the byte is read at PCI_CONFIG_DATA itself: it is the *)
(* cache line size at 0x0C whose top bit decides.                          *)
pci_is_multifunction(pos) == pos.byte0C >= 128

(* The functions of one position that are asked, those that answer.        *)
Detected(pos) ==
  SelectSeq(IF pci_is_multifunction(pos) THEN pos.functions
                                         ELSE SubSeq(pos.functions, 1, 1),
            LAMBDA d : d # NoDevice)

(* The table of detected devices: what does not fit is passed over.        *)
pci_enumerate_devices(bus) ==
  LET found == FlattenSeq([i \in DOMAIN bus |-> Detected(bus[i])])
  IN  SubSeq(found, 1, IF Len(found) < MAX_PCI_DEVICES
                         THEN Len(found) ELSE MAX_PCI_DEVICES)

(* The detected devices of one class, in the order of the table.           *)
pci_find_devices(bus, class) ==
  SelectSeq(pci_enumerate_devices(bus), LAMBDA d : d.class = class)
============================================================================
