-------------------------------- MODULE Vmm --------------------------------
(***************************************************************************)
(* The page tables (syncos/vmm.c) as functions on the memory of the        *)
(* machine.  Addresses are counted in pages.  A memory m is a record:      *)
(*   ram     the frames the page allocator manages                         *)
(*   owner   the allocated frames, and what each was allocated for         *)
(*   tables  the entries present in each frame that is read as a table     *)
(*   current current_pml4_phys                                             *)
(*   area    is_used of the only area that vmm_init registers for the      *)
(*           kernel; the one for user memory has no caller                 *)
(* No caller asks for huge pages.  Those of the boot loader's direct map   *)
(* are there, and the code meets them.                                     *)
(***************************************************************************)
EXTENDS Integers, FiniteSets, Sequences, SequencesExt, TLC

CONSTANTS
  PT, PD,           \* entries of a page table, of a page directory (512)
  AreaFrame         \* 256 MB, where the kernel's area starts

(* A PDPT has four entries here and a PML4 two, one for each half.         *)
PDPT == 4
Half == PDPT * PD * PT                             \* first page of the upper half
VirtSize == 2 * Half                               \* 2^64
hhdm_offset == Half
HighBase == Half + 2 * PD * PT                     \* 2^64 - 12 GB
KERNEL_VIRTUAL_BASE == Half + 3 * PD * PT          \* 2^64 - 2 GB
FourG == 2 * PD * PT                               \* 4 GB
AreaBase == hhdm_offset + AreaFrame
AreaSize == AreaFrame                              \* the area's length is 256 MB too

Index(level, v) ==
  CASE level = 4 -> v \div Half
    [] level = 3 -> (v \div (PD * PT)) % PDPT
    [] level = 2 -> (v \div PT) % PD
    [] level = 1 -> v % PT

Entry(f) == [to |-> f, huge |-> FALSE]
Huge(f)  == [to |-> f, huge |-> TRUE]
Put(entries, i, e) == [j \in DOMAIN entries \cup {i} |-> IF j = i THEN e ELSE entries[j]]
Drop(entries, i) == [j \in DOMAIN entries \ {i} |-> entries[j]]
Set(m, t, i, e) == [m EXCEPT !.tables[t] = Put(@, i, e)]
Clear(m, t, i)  == [m EXCEPT !.tables[t] = Drop(@, i)]
-----------------------------------------------------------------------------
(* The page allocator as its callers see it (see Pmm.tla): the lowest run  *)
(* of n free frames, or 0.  What is still stored in a freed frame is       *)
(* forgotten: whoever allocates it next clears or overwrites it.           *)

Runs(m, n) == {f \in m.ram : n > 0 /\ f..(f + n - 1) \subseteq m.ram \ DOMAIN m.owner}

pmm_alloc_pages(m, n) ==
  LET Lowest(R) == IF R = {} THEN 0 ELSE CHOOSE f \in R : \A g \in R : f <= g
  IN  Lowest(Runs(m, n))

Run(f, n) == f..(f + n - 1)

Taken(m, f, n, who) ==
  [m EXCEPT !.owner = [g \in DOMAIN @ \cup Run(f, n) |-> IF g \in Run(f, n) THEN who ELSE @[g]]]

Freed(m, frames) ==
  [m EXCEPT !.owner = [g \in DOMAIN @ \ frames |-> @[g]],
            !.tables = [g \in DOMAIN @ |-> IF g \in frames THEN <<>> ELSE @[g]]]

pmm_free_pages(m, f, n) == Freed(m, Run(f, n) \cap m.ram)
-----------------------------------------------------------------------------
(* Walking the tables.                                                     *)

(* One level of the walk, which stops at a huge page.                      *)
Down(m, v, s, level) ==
  LET i == Index(level, v) IN
  IF s.stop THEN s
  ELSE IF s.to = 0 \/ i \notin DOMAIN m.tables[s.to]
    THEN [table |-> 0, index |-> 0, to |-> 0, stop |-> TRUE]
    ELSE [table |-> s.to, index |-> i, to |-> m.tables[s.to][i].to,
          stop |-> m.tables[s.to][i].huge]

(* The entry that translates v in a space: its table and index, and what   *)
(* it points to.                                                           *)
Walk(m, space, v) ==
  LET Root == [table |-> 0, index |-> 0, to |-> space, stop |-> FALSE]
  IN  Down(m, v, Down(m, v, Down(m, v, Down(m, v, Root, 4), 3), 2), 1)

vmm_is_mapped(m, v) == v >= hhdm_offset \/ Walk(m, m.current, v).table # 0

(* Addresses from the direct map on are not looked up: the offset is       *)
(* subtracted, wherever the page is really mapped.                         *)
virt_to_phys(m, v) ==
  IF v >= hhdm_offset THEN v - hhdm_offset ELSE Walk(m, m.current, v).to

create_page_table(m) ==
  LET New(f) == [frame |-> f,
                 m |-> IF f = 0 THEN m
                       ELSE [Taken(m, f, 1, "table") EXCEPT !.tables[f] = <<>>]]
  IN  New(pmm_alloc_pages(m, 1))

(* One level of a mapping: the table at s.at has its entry followed, a     *)
(* huge page too, or made to point to a new table.                         *)
MapDown(v, s, level) ==
  LET i == Index(level, v)
      New(c) == IF c.frame = 0 THEN [s EXCEPT !.at = 0]
                ELSE [m |-> Set(c.m, s.at, i, Entry(c.frame)), at |-> c.frame]
  IN  IF s.at = 0 THEN s
      ELSE IF i \in DOMAIN s.m.tables[s.at] THEN [s EXCEPT !.at = s.m.tables[s.at][i].to]
      ELSE New(create_page_table(s.m))

(* Nothing is mapped below an entry that leads to 0.  Tables created       *)
(* before a failure stay.                                                  *)
map_page_internal(m, space, v, f) ==
  LET Leaf(s) == IF s.at = 0 THEN [ok |-> FALSE, m |-> s.m]
                 ELSE [ok |-> TRUE, m |-> Set(s.m, s.at, Index(1, v), Entry(f))]
  IN  Leaf(MapDown(v, MapDown(v, MapDown(v, [m |-> m, at |-> space], 4), 3), 2))

vmm_map_page(m, v, f) ==
  IF v = 0 \/ f = 0 THEN [ok |-> FALSE, m |-> m]
  ELSE map_page_internal(m, m.current, v, f)

(* Only the entry goes; a huge page goes as a whole.                       *)
vmm_unmap_page(m, v) ==
  LET Cleared(w) == IF v = 0 \/ w.table = 0 THEN m ELSE Clear(m, w.table, w.index)
  IN  Cleared(Walk(m, m.current, v))

(* A loop is a function: Upto[i] is the state after i rounds.              *)
vmm_unmap_pages(m, v, n) ==
  LET Upto[i \in 0..n] ==
        IF i = 0 THEN m ELSE vmm_unmap_page(Upto[i - 1], (v + i - 1) % VirtSize)
  IN  Upto[n]

\* Mutant: the clean-up loop stops one page short.
UndoShort(m, v, n) == IF n = 0 THEN m ELSE vmm_unmap_pages(m, v, n - 1)

(* The clean-up of vmm_map_pages, vmm_map_physical and                     *)
(* create_process_stack: the pages before the one that failed.             *)
Undo(m, v, n) == vmm_unmap_pages(m, v, n)

(* Page i, if those before it were mapped.                                 *)
MapNext(s, v, f, i) ==
  LET Checked(p) == IF p.ok THEN p ELSE [ok |-> FALSE, m |-> Undo(p.m, v, i)]
  IN  IF s.ok THEN Checked(vmm_map_page(s.m, (v + i) % VirtSize, f + i)) ELSE s

vmm_map_pages(m, v, f, n) ==
  LET Upto[i \in 0..n] ==
        IF i = 0 THEN [ok |-> TRUE, m |-> m] ELSE MapNext(Upto[i - 1], v, f, i - 1)
  IN  Upto[n]
-----------------------------------------------------------------------------
(* Device memory.  phys + KERNEL_VIRTUAL_BASE wraps around from 2 GB on:   *)
(* such registers appear in the lower half of the current space.           *)

PhysicalAt(f) == IF f >= FourG THEN HighBase + (f % FourG)
                               ELSE (f + KERNEL_VIRTUAL_BASE) % VirtSize

vmm_map_physical(m, f, n) == vmm_map_pages(m, PhysicalAt(f), f, n)

vmm_unmap_physical(m, v, n) == vmm_unmap_pages(m, v, n)
-----------------------------------------------------------------------------
(* The kernel's allocations.                                               *)

FreePage(m, v) == pmm_free_pages(vmm_unmap_page(m, v), virt_to_phys(m, v), 1)

(* The loop of vmm_free, and of the clean-up in vmm_allocate.              *)
FreePages(m, v, n) ==
  LET Upto[i \in 0..n] == IF i = 0 THEN m ELSE FreePage(Upto[i - 1], v + i - 1)
  IN  Upto[n]

(* Page i, if those before it could be allocated.                          *)
AllocateNext(s, i) ==
  LET Fails(mem) == [ok |-> FALSE, m |-> FreePages(mem, AreaBase, i)]
      Checked(p, f) == IF p.ok THEN p ELSE Fails(pmm_free_pages(p.m, f, 1))
      With(f) == IF f = 0 THEN Fails(s.m)
                 ELSE Checked(vmm_map_page(Taken(s.m, f, 1, "kernel"), AreaBase + i, f), f)
  IN  IF s.ok THEN With(pmm_alloc_pages(s.m, 1)) ELSE s

AllocatePages(m, n) ==
  LET Upto[i \in 0..n] ==
        IF i = 0 THEN [ok |-> TRUE, m |-> m] ELSE AllocateNext(Upto[i - 1], i - 1)
  IN  Upto[n]

vmm_allocate(m, n) ==
  LET Used(r) == [ok |-> r.ok, m |-> [r.m EXCEPT !.area = r.ok]]
  IN  IF n = 0 \/ n > AreaSize \/ m.area THEN [ok |-> FALSE, m |-> m]
      ELSE Used(AllocatePages(m, n))

vmm_free(m, v, n) ==
  [FreePages(m, v, n) EXCEPT !.area = IF v = AreaBase THEN FALSE ELSE @]
-----------------------------------------------------------------------------
(* Address spaces.                                                         *)

vmm_create_address_space(m) ==
  LET Shared(c) ==
        IF c.frame = 0 THEN c
        ELSE [c EXCEPT !.m.tables[c.frame] =
                [i \in DOMAIN m.tables[m.current] \cap {1} |-> m.tables[m.current][i]]]
  IN  Shared(create_page_table(m))

(* The tables a table points to, a huge page not being one.                *)
Below(m, t) == {e.to : e \in {x \in {m.tables[t][i] : i \in DOMAIN m.tables[t]} : ~x.huge}}

(* The tables of the lower half, level by level.                           *)
LowerPdpts(m, space) ==
  {m.tables[space][i].to : i \in DOMAIN m.tables[space] \cap {0}}
LowerPds(m, space) == UNION {Below(m, t) : t \in LowerPdpts(m, space)}
LowerPts(m, space) == UNION {Below(m, t) : t \in LowerPds(m, space)}

\* Mutant: the page tables of the last level are forgotten.
DeletesUpperLevels(m, space) == LowerPdpts(m, space) \cup LowerPds(m, space) \cup {space}

(* What vmm_delete_address_space frees: not the memory that is mapped.     *)
DeletedTables(m, space) ==
  LowerPdpts(m, space) \cup LowerPds(m, space) \cup LowerPts(m, space) \cup {space}

vmm_delete_address_space(m, space) ==
  IF space \in {0, m.current} THEN m ELSE Freed(m, DeletedTables(m, space) \cap m.ram)

vmm_switch_address_space(m, space) ==
  IF space = 0 THEN m ELSE [m EXCEPT !.current = space]
=============================================================================
