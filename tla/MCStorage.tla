----------------------------- MODULE MCStorage -----------------------------
(* Two AHCI controllers with two ports each, one port without a drive and  *)
(* one whose drive is of the wrong kind; two NVMe controllers.  On the     *)
(* second bus the second functions are not found.                          *)
EXTENDS Storage

Ahci(h) == [class |-> "ahci", hba |-> h]
Other   == [class |-> "nvme"]

MCBuses ==
  { << [functions |-> <<Other, Ahci("h1")>>, byte0C |-> 128],
       [functions |-> <<Ahci("h2"), Other>>, byte0C |-> 128] >>,
    << [functions |-> <<Ahci("h1"), Ahci("h2")>>, byte0C |-> 16],
       [functions |-> <<NoDevice, Other>>, byte0C |-> 16] >> }

MCDrives ==
  { [p \in Hbas \X PortNums |-> CASE p = <<"h1", 0>> -> "atapi"
                                  [] p = <<"h2", 1>> -> "none"
                                  [] OTHER           -> "ata"] }
=============================================================================
