--------------------------- MODULE ProcessMemory ---------------------------
(***************************************************************************)
(* The memory of the machine under everything that maps it: processes that *)
(* are created from images and terminated (syncos/process.c), registers    *)
(* and DMA buffers of drivers (core/drivers), and the kernel's own         *)
(* allocations (syncos/fs/ext4.c).  The memory is small, so every          *)
(* allocation and every page table on the way fails in some behaviour.     *)
(*                                                                         *)
(* Every operation is one action: process_create and process_terminate     *)
(* hold process_lock, and the kernel runs on one CPU.                      *)
(***************************************************************************)
EXTENDS Elf

CONSTANTS
  RamSizes,        \* frames the page allocator may manage: 1..n
  Images,          \* executables
  Slots,           \* entries of the process table
  StackTop,        \* last page of a stack
  StackPages,
  Registers,       \* [f, n]: the device registers that drivers map
  DmaSizes,        \* pages of a DMA buffer
  KernelSizes,     \* pages of an allocation of the kernel
  MaxOps           \* bound on the number of operations

ASSUME MemoryAssumption ==
  /\ {PT, PD, AreaFrame, StackPages, MaxSegments} \subseteq Nat \ {0}
  /\ AreaFrame % PT = 0 /\ AreaFrame + AreaSize <= PD * PT
  /\ RamSizes \cup Slots \subseteq Nat
  /\ StackTop \in StackPages..Half - 1

VARIABLES
  m,        \* the memory
  procs,    \* entry of the process table -> process, or None
  spaces,   \* address spaces created and not deleted
  dma,      \* DMA buffers in use
  regs,     \* registers that are mapped
  kmem,     \* pages of the kernel's allocation, 0 if there is none
  oversized, \* an image was loaded whose context cannot record all it took
  ops       \* operations so far

vars == <<m, procs, spaces, dma, regs, kmem, oversized, ops>>

None == <<>>

(* The boot loader's tables are not in memory the allocator manages: their *)
(* numbers are not those of its frames, nor of the direct map's.           *)
BootPml4 == -1
BootPdpt == -2
DirectPd == -3
KernelPd == -4
KernelPt == -5
KernelImage == -6

(* What the boot loader left in each.  The direct map uses pages of 2 MB,  *)
(* or of 1 GB if the CPU has them.  The kernel is linked at                *)
(* KERNEL_VIRTUAL_BASE, where vmm_map_physical also puts frame 0 and the   *)
(* frames after it; it is taken to be smaller than the memory below the    *)
(* first managed frame, and has one page here.                             *)
BootTables(pages, t) ==
  CASE t = BootPml4 -> [i \in {1} |-> Entry(BootPdpt)]
    [] t = BootPdpt -> [i \in {0, 3} |-> IF i = 3 THEN Entry(KernelPd)
                                        ELSE IF pages = "1G" THEN Huge(0) ELSE Entry(DirectPd)]
    [] t = DirectPd -> [i \in 0..PD - 1 |-> Huge(i * PT)]
    [] t = KernelPd -> [i \in {0} |-> Entry(KernelPt)]
    [] t = KernelPt -> [i \in {0} |-> Entry(KernelImage)]
    [] OTHER -> <<>>

Init ==
  /\ \E n \in RamSizes, pages \in {"2M", "1G"} :
       m = [ram |-> 1..n, owner |-> <<>>, current |-> BootPml4, area |-> FALSE,
            tables |-> [f \in 1..n \cup {i * PT : i \in 0..PD - 1}
                                  \cup {BootPml4, BootPdpt, DirectPd, KernelPd, KernelPt}
                          |-> BootTables(pages, f)]]
  /\ procs = [s \in Slots |-> None]
  /\ spaces = {BootPml4}
  /\ dma = {}
  /\ regs = {}
  /\ kmem = 0
  /\ oversized = FALSE
  /\ ops = 0
-----------------------------------------------------------------------------
(* Processes.                                                              *)

(* Mapping the guard page, to physical address 0, is always refused.       *)
create_process_stack(mem, space) ==
  LET Mapped(ok, back, f) ==
        IF ok THEN [f |-> f, m |-> back]
              ELSE [f |-> 0, m |-> pmm_free_pages(back, f, StackPages)]
      Checked(p, f) == Mapped(p.ok, vmm_switch_address_space(p.m, mem.current), f)
      With(f) ==
        IF f = 0 THEN [f |-> 0, m |-> mem]
        ELSE Checked(vmm_map_pages(
               vmm_switch_address_space(Taken(mem, f, StackPages, "stack"), space),
               StackTop - StackPages + 1, f, StackPages), f)
  IN  With(pmm_alloc_pages(mem, StackPages))

Oversized(image) ==
  image.ph > 1 \/ image.sh > 1 \/ Len(image.segments) > MaxSegments

(* What process_create leaves behind: the memory, and the process or None. *)
(* A stack is not given back when a later step fails.                      *)
Created(image) ==
  LET Fails(space, mem) == [m |-> vmm_delete_address_space(mem, space), p |-> None]
      Ends(space, stack, ctx, ok, mem) ==
        IF ok THEN [m |-> mem, p |-> [space |-> space, stack |-> stack, ctx |-> ctx]]
              ELSE Fails(space, elf_cleanup(mem, ctx))
      Loaded(space, stack, l) ==
        Ends(space, stack, l.ctx, l.ok, vmm_switch_address_space(l.m, m.current))
      Accepted(space, stack, e) ==
        IF ~e.ok THEN Fails(space, e.m)
        ELSE Loaded(space, stack,
                    elf_load(vmm_switch_address_space(e.m, space), e.ctx, image))
      Stacked(space, k) ==
        IF k.f = 0 THEN Fails(space, k.m) ELSE Accepted(space, k.f, elf_init(k.m, image))
      Spaced(a) ==
        IF a.frame = 0 THEN [m |-> m, p |-> None]
        ELSE Stacked(a.frame, create_process_stack(a.m, a.frame))
  IN  Spaced(vmm_create_address_space(m))

process_create(s, image) ==
  /\ procs[s] = None
  /\ \A t \in Slots : t < s => procs[t] # None
  /\ \E r \in {Created(image)} :
       /\ m' = r.m
       /\ procs' = [procs EXCEPT ![s] = r.p]
       /\ spaces' = IF r.p = None THEN spaces ELSE spaces \cup {r.p.space}
  /\ oversized' = (oversized \/ Oversized(image))
  /\ UNCHANGED <<dma, regs, kmem>>

(* free_process_resources.  The space stays if it is the current one.      *)
process_terminate(s) ==
  /\ procs[s] # None
  /\ m' = vmm_delete_address_space(elf_cleanup(m, procs[s].ctx), procs[s].space)
  /\ spaces' = IF procs[s].space = m.current THEN spaces ELSE spaces \ {procs[s].space}
  /\ procs' = [procs EXCEPT ![s] = None]
  /\ UNCHANGED <<dma, regs, kmem, oversized>>

(* The kernel's own process has no page table and runs in the space of the *)
(* process before it.                                                      *)
context_switch(s) ==
  /\ procs[s] # None
  /\ m' = vmm_switch_address_space(m, procs[s].space)
  /\ UNCHANGED <<procs, spaces, dma, regs, kmem, oversized>>
-----------------------------------------------------------------------------
(* Drivers and the kernel.  Registers are mapped while the kernel boots.   *)

MapRegisters(r) ==
  /\ m.current = BootPml4
  /\ r \notin regs
  /\ \E p \in {vmm_map_physical(m, r.f, r.n)} :
       /\ m' = p.m
       /\ regs' = IF p.ok THEN regs \cup {r} ELSE regs
  /\ UNCHANGED <<procs, spaces, dma, kmem, oversized>>

UnmapRegisters(r) ==
  /\ m.current = BootPml4
  /\ r \in regs
  /\ m' = vmm_unmap_physical(m, PhysicalAt(r.f), r.n)
  /\ regs' = regs \ {r}
  /\ UNCHANGED <<procs, spaces, dma, kmem, oversized>>

alloc_dma_buffer(n) ==
  /\ \E f \in {pmm_alloc_pages(m, n)} :
       IF f = 0 THEN UNCHANGED <<m, dma>>
       ELSE \E p \in {vmm_map_physical(Taken(m, f, n, "dma"), f, n)} :
              /\ m' = IF p.ok THEN p.m ELSE pmm_free_pages(p.m, f, n)
              /\ dma' = IF p.ok THEN dma \cup {[f |-> f, n |-> n]} ELSE dma
  /\ UNCHANGED <<procs, spaces, regs, kmem, oversized>>

(* The physical address is computed with the offset of the direct map,     *)
(* where the buffer is not mapped: the result is above all memory, and the *)
(* allocator refuses it.                                                   *)
free_dma_buffer(b) ==
  LET v == PhysicalAt(b.f)
  IN  /\ m' = pmm_free_pages(vmm_unmap_physical(m, v, b.n), virt_to_phys(m, v), b.n)
      /\ dma' = dma \ {b}
      /\ UNCHANGED <<procs, spaces, regs, kmem, oversized>>

KernelAllocates(n) ==
  /\ \E r \in {vmm_allocate(m, n)} : m' = r.m /\ kmem' = IF r.ok THEN n ELSE kmem
  /\ UNCHANGED <<procs, spaces, dma, regs, oversized>>

KernelFrees ==
  /\ kmem # 0
  /\ m' = vmm_free(m, AreaBase, kmem)
  /\ kmem' = 0
  /\ UNCHANGED <<procs, spaces, dma, regs, oversized>>

Next ==
  /\ ops < MaxOps
  /\ ops' = ops + 1
  /\ \/ \E s \in Slots : \/ \E image \in Images : process_create(s, image)
                         \/ process_terminate(s)
                         \/ context_switch(s)
     \/ \E r \in Registers : MapRegisters(r) \/ UnmapRegisters(r)
     \/ \E n \in DmaSizes : alloc_dma_buffer(n)
     \/ \E b \in dma : free_dma_buffer(b)
     \/ \E n \in KernelSizes : KernelAllocates(n)
     \/ KernelFrees

Spec == Init /\ [][Next]_vars
-----------------------------------------------------------------------------
(* Properties.                                                             *)

Live == {s \in Slots : procs[s] # None}

(* The tables of the upper half, which all spaces share, but for the boot  *)
(* loader's.                                                               *)
UpperTables ==
  LET pds == Below(m, BootPdpt)
  IN  (pds \cup UNION {Below(m, t) : t \in pds}) \ {DirectPd, KernelPd, KernelPt}

(* The tables of a space's lower half, and its PML4.                       *)
Lower(s) ==
  (LowerPdpts(m, s) \cup LowerPds(m, s) \cup LowerPts(m, s) \cup {s}) \ {BootPml4}

(* vmm.c: the frames allocated for page tables are exactly those of the    *)
(* spaces that exist: none is lost when mapping fails half way or a space  *)
(* is deleted, none is freed while a space uses it, no two spaces share    *)
(* one of their lower halves, and all share the upper half.                *)
PageTablesExact ==
  /\ {f \in DOMAIN m.owner : m.owner[f] = "table"} = UpperTables \cup UNION {Lower(s) : s \in spaces}
  /\ \A s, t \in spaces : s # t => Lower(s) \cap Lower(t) = {}
  /\ \A s \in spaces : /\ Lower(s) \cap UpperTables = {}
                       /\ m.tables[s][1] = Entry(BootPdpt)
  /\ m.current \in spaces

(* Where a process must find its pages: its stack, then its segments in    *)
(* order, a later one over an earlier one.                                 *)
Image(p) ==
  FoldLeft(LAMBDA a, g : [v \in g.v..(g.v + g.n - 1) |-> g.f + (v - g.v)] @@ a,
           [v \in (StackTop - StackPages + 1)..StackTop |-> p.stack + (v - StackTop + StackPages - 1)],
           p.ctx.segments)

(* What drivers must find: registers and buffers in use.                   *)
Devices ==
  UNION {{<<(PhysicalAt(b.f) + i) % VirtSize, b.f + i>> : i \in 0..b.n - 1} : b \in dma \cup regs}

(* The pages of one half that the processor finds mapped in a space, with  *)
(* their frames; those of the direct map, which are huge, are left out.    *)
Translations(space, half) ==
  LET Next4 == {m.tables[space][i].to : i \in DOMAIN m.tables[space] \cap {half}}
      Tables(t) == {i \in DOMAIN m.tables[t] : ~m.tables[t][i].huge}
      To(t, i) == m.tables[t][i].to
  IN  UNION {UNION {UNION {
        {<<half * Half + (i3 * PD + i2) * PT + i1, To(To(To(t, i3), i2), i1)>>
           : i1 \in Tables(To(To(t, i3), i2))}
           : i2 \in Tables(To(t, i3))} : i3 \in Tables(t)} : t \in Next4}

(* vmm_map_pages, vmm_map_physical, process_create: whatever was created,  *)
(* failed half way, switched or deleted in between, the lower half of a    *)
(* process's space is its stack and image and nothing else, and the        *)
(* windows of the drivers show the registers and buffers in use, and       *)
(* nothing else beside the kernel itself, whose own page stays mapped.     *)
MappingsExact ==
  /\ ~oversized => \A s \in Live :
       Translations(procs[s].space, 0) =
         {<<v, Image(procs[s])[v]>> : v \in DOMAIN Image(procs[s])}
  /\ {x \in Translations(BootPml4, 0) \cup Translations(BootPml4, 1)
        : x[1] < Half \/ x[1] >= HighBase} = Devices \cup {<<KERNEL_VIRTUAL_BASE, KernelImage>>}

(* elf.c: the frames the loader took are those in the contexts of the      *)
(* processes that exist, on every path of process_create and               *)
(* process_terminate, also for a segment that is freed twice; and no frame *)
(* of a process is freed or taken by another.                              *)
LoaderExact ==
  LET Stack(p) == Run(p.stack, StackPages)
      taken == {f \in DOMAIN m.owner : m.owner[f] = "elf"}
  IN  /\ UNION {Recorded(procs[s].ctx) : s \in Live} \subseteq taken
      /\ ~oversized => taken = UNION {Recorded(procs[s].ctx) : s \in Live}
      /\ \A s \in Live : \A f \in Stack(procs[s]) : f \in DOMAIN m.owner /\ m.owner[f] = "stack"
      /\ \A s, t \in Live : s # t =>
           /\ Recorded(procs[s].ctx) \cap Recorded(procs[t].ctx) = {}
           /\ Stack(procs[s]) \cap Stack(procs[t]) = {}

(* vmm_free, "Free allocated memory": what an allocation's free gives back *)
(* to the page allocator is memory that vmm_allocate had taken.            *)
FreesAllocatedMemory ==
  [][kmem # 0 /\ kmem' = 0 =>
       \A f \in DOMAIN m.owner \ DOMAIN m'.owner : m.owner[f] = "kernel"]_vars
=============================================================================
