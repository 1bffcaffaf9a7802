--------------------------- MODULE PageAllocator ---------------------------
(***************************************************************************)
(* What the physical memory manager promises its callers, with no bitmap,  *)
(* addresses or search order: a pool of pages that becomes available once, *)
(* runs of consecutive pages that move from the pool to one caller, and    *)
(* pages that move back.  Pmm.tla is shown to implement this module.       *)
(***************************************************************************)
EXTENDS Integers

CONSTANT Clients   \* the kernel subsystems that allocate pages

VARIABLES
  pool,            \* pages nobody holds
  holding,         \* the pages each client holds
  started          \* the pool has been handed over by the boot memory map

vars == <<pool, holding, started>>

Init ==
  /\ pool = {}
  /\ holding = [c \in Clients |-> {}]
  /\ started = FALSE

\* The boot memory map decides which pages there are.
Start ==
  /\ ~started
  /\ started' = TRUE
  /\ pool' \in SUBSET Nat
  /\ UNCHANGED holding

\* A caller receives a run of consecutive pages.
Take(c, pages) ==
  /\ started
  /\ pages \subseteq pool
  /\ \E first, last \in pages : pages = first .. last
  /\ pool' = pool \ pages
  /\ holding' = [holding EXCEPT ![c] = @ \cup pages]
  /\ UNCHANGED started

\* A caller gives back any of its pages.
Give(c, pages) ==
  /\ started
  /\ pages \subseteq holding[c]
  /\ pool' = pool \cup pages
  /\ holding' = [holding EXCEPT ![c] = @ \ pages]
  /\ UNCHANGED started

Next ==
  \/ Start
  \/ \E c \in Clients : \E pages \in SUBSET pool : Take(c, pages)
  \/ \E c \in Clients : \E pages \in SUBSET holding[c] : Give(c, pages)

Spec == Init /\ [][Next]_vars

=============================================================================
