------------------------------- MODULE MCPmm -------------------------------
(* Small instances of Pmm.tla for TLC. *)
EXTENDS Pmm, TLC

Usable(base, length) == [base |-> base, length |-> length, usable |-> TRUE]
Reserved(base, length) == [base |-> base, length |-> length, usable |-> FALSE]

\* Pages of two bytes, nothing below address 4 managed.
\*  1: a larger region below the limit, then two regions of the same size
\*  2: a region longer than the bitmap, a reserved entry ending inside it
\*  3: a reserved hole in the middle of the region, unaligned reserved entries
\*     outside of it, an empty entry
\*  4: no region above the limit
MCMemMaps ==
  { << Usable(0, 16), Usable(16, 10), Reserved(26, 3), Usable(30, 10) >>,
    << Reserved(2, 6), Usable(4, 14) >>,
    << Reserved(1, 2), Usable(4, 10), Reserved(8, 2), Reserved(17, 3), Usable(30, 0) >>,
    << Usable(0, 16), Reserved(16, 4) >> }

MCClients == {"vmm", "elf"}

=============================================================================
