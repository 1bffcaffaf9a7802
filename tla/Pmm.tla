-------------------------------- MODULE Pmm --------------------------------
(***************************************************************************)
(* The physical memory manager, syncos/pmm.c: a bitmap over the largest    *)
(* usable region of the boot memory map, first-fit allocation of one page  *)
(* or of a run of pages, and release by address.                           *)
(*                                                                         *)
(* The bitmap is the set `used' of page indices whose bit is set.  Every   *)
(* call runs to completion before the next one starts: the kernel runs on  *)
(* one CPU, nothing in an interrupt handler allocates, and the scheduler   *)
(* only switches inside its own calls.  The statistics counters, which     *)
(* only pmm_dump_bitmap prints, are left out.                              *)
(*                                                                         *)
(* `held' is a history variable: the pages each caller obtained and has    *)
(* not yet given back.                                                     *)
(***************************************************************************)
EXTENDS Integers, Sequences

CONSTANTS
  PageSize,      \* bytes per page (4096)
  BitmapPages,   \* STATIC_BITMAP_SIZE * 8
  LowPages,      \* pages marked used at the start of the region (256)
  LowLimit,      \* no region starting below it is managed (0x100000)
  MemMaps,       \* the boot memory maps considered
  Clients,       \* the subsystems that call the allocator
  MaxCount,      \* bound: the longest run asked for or given back
  MaxAddr        \* the highest physical address

Entry == [base : 0 .. MaxAddr, length : 0 .. MaxAddr, usable : BOOLEAN]

Overlap(e, f) ==
  /\ e.base < f.base + f.length
  /\ f.base < e.base + e.length

Aligned(e) == e.base % PageSize = 0 /\ e.length % PageSize = 0

ASSUME SizesAssumption ==
  /\ PageSize \in Nat \ {0}
  /\ BitmapPages \in Nat \ {0}
  /\ LowPages \in Nat
  /\ LowLimit \in Nat \ {0}
  /\ MaxCount \in Nat
  /\ MaxAddr \in Nat

\* The boot protocol: usable entries are page aligned and overlap no other
\* usable entry.  It also keeps reserved entries apart from usable ones; the
\* code does not rely on that, so only the alignment of such an entry is assumed.
ASSUME MemMapAssumption ==
  \A m \in MemMaps :
    /\ m \in Seq(Entry)
    /\ \A i \in DOMAIN m : m[i].usable => Aligned(m[i])
    /\ \A i, j \in DOMAIN m :
         i # j /\ m[i].usable /\ Overlap(m[i], m[j]) => ~m[j].usable /\ Aligned(m[j])

VARIABLES
  memmap,        \* the boot memory map
  ready,         \* page_bitmap # NULL
  kernel_start,  \* pmm_config.kernel_start
  max_pages,     \* pmm_config.max_pages
  used,          \* the set bits of page_bitmap
  held           \* history: the pages each client obtained and did not give back

vars == <<memmap, ready, kernel_start, max_pages, used, held>>

Pages == 0 .. (max_pages - 1)

kernel_end == kernel_start + max_pages * PageSize

-----------------------------------------------------------------------------
(* pmm_init *)

\* Entries that can become the managed region.
Candidates(m) ==
  {i \in DOMAIN m : m[i].usable /\ m[i].base >= LowLimit /\ m[i].length > 0}

\* The comparison in the loop is strict: the first of the largest wins.
Largest(m) ==
  CHOOSE i \in Candidates(m) :
    \A j \in Candidates(m) :
      m[j].length < m[i].length \/ (m[j].length = m[i].length /\ i <= j)

RegionStart(m) == IF Candidates(m) = {} THEN LowLimit ELSE m[Largest(m)].base

RegionLength(m) == IF Candidates(m) = {} THEN 0 ELSE m[Largest(m)].length

RegionPages(m) ==
  IF BitmapPages * PageSize > RegionLength(m)
    THEN RegionLength(m) \div PageSize
    ELSE BitmapPages

\* Mutant: the loop stops one page before the end of the entry.
MarkedByShort(e, start, end) ==
  LET lo == IF e.base < start THEN start ELSE e.base
      hi == IF e.base + e.length > end THEN end ELSE e.base + e.length
      first == (lo - start) \div PageSize
  IN  IF e.base >= end \/ e.base + e.length <= start
        THEN {}
        ELSE first .. (first + ((hi - lo - 1) \div PageSize) - 1)

\* The pages the loop over one reserved entry marks: from the entry's start,
\* clipped to the region, one page size at a time while below its clipped end.
MarkedBy(e, start, end) ==
  LET lo == IF e.base < start THEN start ELSE e.base
      hi == IF e.base + e.length > end THEN end ELSE e.base + e.length
      first == (lo - start) \div PageSize
  IN  IF e.base >= end \/ e.base + e.length <= start \/ lo >= hi
        THEN {}
        ELSE first .. (first + ((hi - lo - 1) \div PageSize))

Marked(m, start, end) ==
  UNION {MarkedBy(m[i], start, end) : i \in {j \in DOMAIN m : ~m[j].usable}}

Low(pages) == {i \in 0 .. (pages - 1) : i < LowPages}

\* The bits set when pmm_init returns.
BootUsed(m) ==
  Marked(m, RegionStart(m), RegionStart(m) + RegionPages(m) * PageSize)
    \cup Low(RegionPages(m))

pmm_init ==
  /\ ~ready
  /\ ready' = TRUE
  /\ kernel_start' = RegionStart(memmap)
  /\ max_pages' = RegionPages(memmap)
  /\ used' = BootUsed(memmap)
  /\ UNCHANGED <<memmap, held>>

-----------------------------------------------------------------------------
(* Allocation.  The scan of the bitmap finds the first run of `count' clear *)
(* bits; PmmScan.tla checks the loop against this definition.               *)

Extent(first, count) == first .. (first + count - 1)

\* Mutant: the run counter is not reset at a used page, so only the first
\* page of the result is known to be free.
RunsWithHoles(count) ==
  {first \in Pages \ used : Extent(first, count) \subseteq Pages}

\* Mutant: the scan may run past max_pages.
RunsPastEnd(count) ==
  {first \in Pages : Extent(first, count) \cap used = {}}

FreeRuns(count) ==
  {first \in Pages : Extent(first, count) \subseteq Pages \ used}

FirstFit(count) ==
  CHOOSE first \in FreeRuns(count) : \A other \in FreeRuns(count) : first <= other

PageAddr(i) == kernel_start + i * PageSize

\* Mutant: the marking loop of pmm_alloc_pages leaves the last page clear.
AllocMarksOneLess(c, count) ==
  /\ ready
  /\ count > 0
  /\ FreeRuns(count) # {}
  /\ used' = used \cup Extent(FirstFit(count), count - 1)
  /\ held' = [held EXCEPT ![c] = @ \cup Extent(FirstFit(count), count)]
  /\ UNCHANGED <<memmap, ready, kernel_start, max_pages>>

\* One page is the run of length one: pmm_alloc_pages(1) calls pmm_alloc_page.
pmm_alloc_pages(c, count) ==
  /\ ready
  /\ count > 0
  /\ FreeRuns(count) # {}
  /\ used' = used \cup Extent(FirstFit(count), count)
  /\ held' = [held EXCEPT ![c] = @ \cup Extent(FirstFit(count), count)]
  /\ UNCHANGED <<memmap, ready, kernel_start, max_pages>>

\* No bitmap yet, nothing asked for, or no run long enough: 0 is returned.
pmm_alloc_fails(count) ==
  /\ ~ready \/ count = 0 \/ FreeRuns(count) = {}
  /\ UNCHANGED vars

-----------------------------------------------------------------------------
(* Release *)

\* The address checks of pmm_free_page and pmm_is_page_free.
InRange(addr) ==
  /\ ready
  /\ addr >= kernel_start
  /\ addr < kernel_end
  /\ addr % PageSize = 0

PageIndex(addr) == (addr - kernel_start) \div PageSize

\* The pages pmm_free_pages(addr, count) clears, one pmm_free_page per page.
Released(addr, count) ==
  {PageIndex(addr + i * PageSize) :
     i \in {j \in 0 .. (count - 1) : InRange(addr + j * PageSize)}}

\* Mutant: the loop of pmm_free_pages frees the first page only.
FreeOnlyFirst(c, addr, count) ==
  /\ Released(addr, count) \subseteq held[c]
  /\ used' = used \ Released(addr, 1)
  /\ held' = [held EXCEPT ![c] = @ \ Released(addr, count)]
  /\ UNCHANGED <<memmap, ready, kernel_start, max_pages>>

\* A caller gives back pages it holds; addresses that name no managed page
\* (memory-mapped devices, unaligned pointers) may be among them.
pmm_free_pages(c, addr, count) ==
  /\ Released(addr, count) \subseteq held[c]
  /\ used' = used \ Released(addr, count)
  /\ held' = [held EXCEPT ![c] = @ \ Released(addr, count)]
  /\ UNCHANGED <<memmap, ready, kernel_start, max_pages>>

-----------------------------------------------------------------------------

Init ==
  /\ memmap \in MemMaps
  /\ ready = FALSE
  /\ kernel_start = 0
  /\ max_pages = 0
  /\ used = {}
  /\ held = [c \in Clients |-> {}]

Next ==
  \/ pmm_init
  \/ \E c \in Clients, count \in 0 .. MaxCount : pmm_alloc_pages(c, count)
  \/ \E count \in 0 .. MaxCount : pmm_alloc_fails(count)
  \/ \E c \in Clients, addr \in 0 .. MaxAddr, count \in 0 .. MaxCount :
       pmm_free_pages(c, addr, count)

Spec == Init /\ [][Next]_vars

-----------------------------------------------------------------------------
(* Properties *)

AllHeld == UNION {held[c] : c \in Clients}

BootReserved == IF ready THEN BootUsed(memmap) ELSE {}

\* The variables have their types; the bitmap has no bit beyond max_pages.
TypeOK ==
  /\ memmap \in MemMaps
  /\ ready \in BOOLEAN
  /\ kernel_start \in Nat
  /\ max_pages \in 0 .. BitmapPages
  /\ used \subseteq Pages
  /\ held \in [Clients -> SUBSET Pages]

\* The bitmap is exact: after any sequence of allocations and releases the
\* set bits are the pages reserved at boot and the pages callers hold, and no
\* page reserved at boot is ever handed out.  A lost bit would hand a live page
\* out twice, a stale one would leak it.
BitmapExact ==
  /\ used = BootReserved \cup AllHeld
  /\ BootReserved \cap AllHeld = {}

\* No page is in the hands of two callers of pmm_alloc_page / pmm_alloc_pages.
NoSharing ==
  \A c, d \in Clients : c # d => held[c] \cap held[d] = {}

\* Every byte of a page pmm_alloc_pages handed out belongs to a usable entry of
\* the boot memory map and to no reserved one.
HeldMemoryIsUsable ==
  \A p \in AllHeld : \A b \in PageAddr(p) .. (PageAddr(p) + PageSize - 1) :
    /\ \E i \in DOMAIN memmap :
         memmap[i].usable /\ b \in memmap[i].base .. (memmap[i].base + memmap[i].length - 1)
    /\ \A i \in DOMAIN memmap :
         ~memmap[i].usable => b \notin memmap[i].base .. (memmap[i].base + memmap[i].length - 1)

\* The managed region never moves: it is the one pmm_init chose, and before
\* pmm_init nothing is managed and nothing is held.
RegionFixed ==
  IF ready
    THEN kernel_start = RegionStart(memmap) /\ max_pages = RegionPages(memmap)
    ELSE max_pages = 0

\* The bitmap allocator implements the abstract page allocator.
Abstract == INSTANCE PageAllocator WITH
  pool    <- Pages \ used,
  holding <- held,
  started <- ready

ImplementsPageAllocator == Abstract!Spec

=============================================================================
