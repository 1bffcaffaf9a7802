# A TLA+ verification of SyncOS

SyncOS is a small x86-64 kernel in C. This directory holds TLA+ modules that
model its core, the TLC configurations that check them, and proofs that TLAPS
checks. Paths below are relative to `src/src/src/` of the repository.

The kernel runs on one CPU. What makes it hard is that interrupt handlers run
between any two stores of a thread, that the same fact is often kept in several
places (three copies of the interrupt masks, a state field and a queue, a bitmap
and its callers), and that operations of several steps can fail in the middle.

## 1. Inventory

| Component | State | Operations | What must hold |
|---|---|---|---|
| Physical memory manager, `syncos/pmm.c` | bitmap of the largest usable region, its start and length | init from the boot memory map, allocate a page or a run, free by address, test | nobody shares a page; only usable memory is given out; the bitmap is what callers hold plus what boot reserved |
| Process manager, `syncos/process.c` | process table, ready queue (doubly linked), blocked queue (singly linked, same fields), current process, next pid | create, terminate, yield, block, unblock, execute, timer callback | queues well-formed, no process lost, first in first out, the loaded address space stays allocated |
| Context switch, `syncos/process_switch.S` | registers, saved contexts | save, load, return | the CPU continues where the next process was left |
| Interrupt dispatch, `syncos/irq.c`, and 8259 pair, `syncos/pic.c` | handler table, `irq_enabled_mask`, `pic_master_mask`/`pic_slave_mask`, the chips' registers | init, register, unregister, enable, disable, mask all, unmask all, dispatch, end of interrupt | the copies of the masks agree; every request that gets through is served; nothing stays in service |
| Timer, `syncos/timer.c` | callback table with its lock, tick count, frequency | register, unregister, set frequency, sleep, tick handler | only registered callbacks are called, with their own context, and in time; calls return |
| Keyboard, `syncos/keyboard.c`, mouse, `syncos/mouse.c` | ring buffer, modifiers or packet assembly, callback table | interrupt handler, read, register and unregister a callback | first in first out with the handler between any two steps of a reader; packets in step with the device |
| Spinlock, `syncos/spinlock.c` | value, owner | acquire, try, release | mutual exclusion; the owner field names the holder; no handler waits for the thread it interrupted |
| Virtual memory manager, `syncos/vmm.c` | four-level page tables, kernel area list, current page table | map, unmap, allocate, free, create, switch and delete address spaces | a failed mapping undoes what it did; frames are neither lost nor freed twice |
| ELF loader, `syncos/elf.c` | segments of a program being loaded | init, load, cleanup | each frame is freed once, whichever step fails |
| ext4, `syncos/fs/ext4.c` | device table, one-block buffer with a dirty bit, group descriptors, open files | detect, mount, unmount, read, write and flush blocks, look up a path, open, close | a block read is the last one written; nothing allocated is lost on any path; a path opens the file it leads to |
| NVMe, `core/drivers/nvme.c`; SATA, `core/drivers/sata.c` | controllers and ports, queues with phase bits, command slots, DMA buffers | init, read, write, flush, shutdown; waits with a time-out | what is reported as done was done; a slot is not reused while the controller owns it; buffers are held and freed once on every failure; calls return |
| Network, `syncos/net/net.c`; e1000, `core/drivers/net/e1000.c` | connections, rings | connect, send, receive, close, timeout checker | connections follow the protocol's states and end |
| PCI, `core/drivers/pci.c` | device table | enumeration, search | the table's bound is respected |
| Boot, `core/main.c`; IDT and exceptions, `syncos/idt*.c`, `syncos/isr.c` | initialisation order, exception handlers | start-up, registration | parts are ready before they are used |
| GDT, serial port, C library | static tables, none | encodings, port I/O, formatting | nothing a model would explore |

How they interact: `process_create` takes an address space from the virtual
memory manager, frames from the page allocator and segments from the ELF loader.
The scheduler registers a callback with the timer; the timer, the keyboard and the
mouse register handlers with `irq.c`, which drives `pic.c`. `irq_dispatch` calls
handlers with interrupts off; the timer's handler calls the callbacks without the
table's lock. `core/main.c` enumerates the PCI bus and starts NVMe and SATA, which map
registers and DMA buffers through the virtual memory manager. The file system finds
its devices in both drivers, reads blocks through them and takes its memory from
`vmm_allocate`. The network stack sends through e1000 and registers its time-out
checker with the timer.

What is hard to test: a handler between any two stores of a thread (input, timer,
spinlock); a controller that answers late, wrongly or never (storage, interrupts); an
allocation or a device access that fails in the middle of an operation (processes,
page tables, loader, file system, drivers); stale copies of a fact (masks, buffers,
page tables). The hazards, each at its line, are listed in `PROJECT.json`.

## 2. Modules

| Module | Models | Kind |
|---|---|---|
| `PageAllocator` | what callers may rely on: a set of free pages, taken and given back whole | abstract specification |
| `Pmm` | `pmm.c`: init, allocation, release | component |
| `PmmScan` | the search loop of `pmm_alloc_pages`, one iteration per step | algorithm |
| `RoundRobin` | a first-in first-out scheduler over a sequence and a set | abstract specification |
| `ProcessQueues` | the linked lists of `process.c` | data structure |
| `Process` | `process.c`, with the address-space calls of `vmm.c` it makes | component |
| `ContextSwitch` | `process_switch.S` | component |
| `Irq` | `irq.c`, `pic.c` and the two 8259 chips (external) | composition |
| `BoundedFifo` | a bounded queue with a reader | abstract specification |
| `RingBuffer` | the index arithmetic both input drivers use | data structure |
| `Keyboard`, `Mouse` | the two drivers | components |
| `Input` | both drivers, each in behaviours of its own | composition |
| `Timer` | `timer.c` | component |
| `Spinlock` | `spinlock.c` on several CPUs, a thread and a handler each | component |
| `Vmm` | `vmm.c`: page tables, mappings, kernel allocations, address spaces, as functions on the memory | operators |
| `Elf` | `elf.c` on top of `Vmm` | operators |
| `ProcessMemory` | the memory of the machine under `process.c`, drivers and kernel allocations, using `Vmm` and `Elf` | composition |
| `Pci` | `pci.c`: enumeration and search | operators |
| `Sata`, `Nvme` | `sata.c`, `nvme.c`, with their controllers (external) | components |
| `Storage` | both drivers on one bus | composition |
| `Ext4` | `ext4.c` over a device and an allocator that fail | component |
| `ProcessProofs`, `ProcessMemoryProofs`, `TimerProofs`, `InputProofs`, `StorageProofs`, `Ext4Proofs` | | theorems about the module of the name |
| `PmmProofs` | | theorems about `Pmm` and `PmmScan` |
| `IrqProofs` | | theorems about `Irq` and `Spinlock`, the two modules about interrupts being masked and waited for |
| `MCPmm`, `MCProcess`, `MCIrq`, `MCTimer`, `MCProcessMemory`, `MCStorage`, `MCExt4` | | instances for TLC |

Definitions keep the names of the C functions; definitions with a name of their
own are steps of a function, or helpers, and `PROJECT.json` gives the lines of each.
A definition introduced by "Mutant:" is a plausible mistake in the definition that
follows it; it is used by no specification, and shows which property notices it.

How state corresponds to the code:

- **Pmm.** `used` is the set of bits set in `page_bitmap`; `kernel_start` and
  `max_pages` are the fields of `pmm_config`. `held` is history: what each caller
  obtained and has not given back. `pmm_init` computes the region and the initial
  bitmap from any of `MemMaps`, rounding as the code does. A call is one step,
  because no interrupt handler allocates and switches happen only inside the
  scheduler. Callers give back what they hold (that is the contract the code
  assumes), or free an address outside the region, which the code rejects.
- **PmmScan.** One variable per C variable of the loop, any initial bitmap.
- **Process.** `pid`, `state` and `page_table` are fields of `process_table`, `q`
  holds the heads, the tail and the links. `process_create` is one action for each
  way it can end. `cr3` and `spaces` are the virtual memory manager's. `saved_if`
  and `interrupts` follow the interrupt flag through switches. The frames behind a
  process are the part of `ProcessMemory`; priorities and time accounting are left
  out.
- **ContextSwitch.** The registers that decide where a switch ends: the base
  register through which a context is read, the stack pointer, the flags.
- **Irq.** A mask is the set of IRQs whose bit is 1. `shadow` is the pair of masks
  `pic.c` keeps, `imr` what the chips hold. Requests, priorities, in-service bits,
  the cascade and spurious requests are the chips' and external. `bypassed` is
  history: a call wrote masks without the other copies.
- **Timer.** The thread and the handler take one shared access per step. Only the
  difference between `next_tick` and `timer_tick_count` is kept (`due`), so that
  the state space is finite without bounding time. A caller that spins for the lock
  is at a program point of its own; there is one caller at a time, because nothing
  preempts a thread and the handler never takes the lock. `registered`, `call` and
  `wait` are history: what `wait` keeps of a slot is the ticks since it was activated or
  called last, whether it was called at all, and the frequency when `next_tick` was
  stored.
- **Keyboard, Mouse.** The handler is one step (it is not interrupted by its own
  line); a read is three: the test of the indices, the fetch, the advance. The mouse
  device sends packets a byte at a time, and bytes can be lost.
- **Spinlock.** One shared access per step. The owner is the return address of the
  caller, of which the identity of the context and the bit that doubles as
  `SPINLOCK_FLAG_IRQSAFE` are kept; the bit of an address can be either.
- **Vmm, Elf, ProcessMemory.** The memory `m` is a record: the frames the page
  allocator manages, the owner of each allocated one, the entries of each frame that
  is read as a table, `current_pml4_phys` and the flag of the kernel's only area.
  Addresses are counted in pages and split into indices as `PML4_INDEX` and its like
  do, with fewer entries per table; the boot loader's own tables, which lie outside the
  memory the allocator manages, have negative numbers. Every function of `vmm.c` is an
  operator from a memory to a memory and a result, failures included; the actions of
  `ProcessMemory` are the calls that processes, drivers and the kernel make. `Pmm` shows that the
  page allocator is the first fit that `Vmm` takes it for. An image is what the loader
  asks for: pages of header arrays, pages of segments. The kernel's own image is mapped at
  `KERNEL_VIRTUAL_BASE` from the start, as one page. It is taken to be smaller than the
  memory below the first managed frame: `vmm_map_physical`, which maps physical address
  `f` at that base plus `f`, does not check, and would overwrite a longer image's pages.
- **Sata.** A call is a sequence of steps (`at` is its program point, `call` its local
  variables), because the controller works between them. `ci` is the command list with
  the issue register, `tfes` the error bit, `dma` the port's data buffer. A command is
  issued by a read and then a write of the register (`IssueCommand`; `sata.c:1259`,
  `:460`), so a command that ends in between is issued again. `mem` counts,
  for each buffer of a port, allocations minus frees. The clock is a choice: a wait may
  time out at any moment. `SectorCount`, against which the driver checks a request, is not
  the drive's: the PRDT of the IDENTIFY command holds a virtual address (`sata.c:446`), its
  data never arrives, and the driver takes the default count (`sata.c:557`). An error of
  IDENTIFY may leave the error bit set for the next command. `sata_init` is called once,
  by `kmain`, and the model makes that a guard: the code has no test of its own
  (`sata.c:69`), and a second call would clear the live state and lose the ports' memory.
- **Nvme.** The set-up of each controller is a choice among all the ways in which it
  can end, each exit of `nvme_simple_identify` with what it frees; `ended` is history, the
  step where the set-up ended. The registers are two things, the part that
  `nvme_shutdown` unmaps and the rest of a larger BAR (`LargeBars`), which the set-up
  mapped too (`nvme.c:127`) and nothing unmaps (`nvme.c:211`). All
  requests go through the admin queue, of one entry; `dev` is the
  controller's side: what was put in the queue, what it has taken, its completion entry
  with its phase, what is stored.
- **Ext4.** A call is one action with a parameter that says what fails during it: which
  blocks cannot be read or written, whether a failed write reached the device all the
  same, how many allocations succeed. `held` counts the memory by purpose; `last` is
  history, the values each block may have by the writes reported. A loop of the code
  (over the components of a path, over the blocks of a directory) is a function on the
  number of rounds. A block is written whole or not at all: `write_blocks` (`ext4.c:50`)
  hands its sectors to the driver in one request, and a failed one that left some of them
  new would be a third value of the block. One file system is mounted at a time; the code
  (`ext4.c:246`) allows several, which share nothing but the device table. Devices may be
  detected again at any time. `ext4_unmount` does not look for open files
  (`ext4.c:342`); one that stays open keeps its memory, can be closed, and has a `fs`
  that is no longer valid, which the model does not follow, as no operation on an open
  file but the closing exists.

## 3. What the runs show

| Run | Properties | Instance, and why it is enough |
|---|---|---|
| `pmm` | `TypeOK`, `BitmapExact`, `NoSharing`, `HeldMemoryIsUsable`, `ImplementsPageAllocator` | Four memory maps: a larger region below the limit and a tie, a region longer than the bitmap, a reserved hole with unaligned reserved entries and an empty one, no region. Six pages, runs of up to three, two callers: holes of every size appear |
| `pmm_scan` | `ReturnsFirstFit`, `FailsOnlyWhenFull`, `Terminates` | All bitmaps of seven pages, requests from one page to more than the region |
| `process` | `QueuesWellFormed`, `NoLostProcess`, `CurrentSpaceAlive`, `ImplementsRoundRobin`, `EveryReadyProcessRuns` | Three entries besides idle, three pids, three page tables: removal from the head, middle and end of a queue, a full table, reuse of an entry |
| `irq` | `TrackingExact`, `RegisteredIsUnmasked`, `NothingLeftInService`, `RequestsAreServed` | IRQs 7 and 15, where spurious requests appear, and 12; two slots; two requests, so that one can wait for the other; drivers mask 12 themselves |
| `input` | `Fifo`, `PressesAreStored`, `MovementExact`, `CallbacksReached` | Rings of three and two elements, which wrap and fill; movements at -128, -127 and +127; two callbacks; lost bytes |
| `timer` | `CallsAreRegistered`, `CallsOnTime`, `ActiveIsCalled`, `ThreadReturns` | Two slots, two callbacks (the same one can be in both), two contexts, intervals of one and two milliseconds, an invalid frequency and one with ticks longer than an interval; a full table, the tick between any two stores of a call |
| `spinlock` | `MutualExclusion`, `OwnerIsHolder` | Two CPUs with a thread and a handler each |
| `storage` | `PortsExact`, `RequestsExact`, `SlotsOwned`, `EveryCallReturns`, `NvmeDmaExact`, `NvmeWritesDone` | Two buses, on one of which second functions are not found; two AHCI controllers of two ports with a drive of the wrong kind and a port without one, two slots, requests of two chunks to the second port, at addresses within the drive, across its end (the driver believes it longer than it is) and such that the end wraps around; two NVMe controllers, one with a large BAR, and three requests: a late completion meets the next command, that of the identification too (its identifier is 2 here and 10 in the code) |
| `process_memory` | `PageTablesExact`, `MappingsExact`, `LoaderExact` | From 3 to 23 frames, so that memory ends at each step of each operation; images across two page tables, overlapping, refused, without section headers, with more segments than a context records; registers across 2 GB, above it and above 4 GB; direct maps of 2 MB and of 1 GB pages; any five operations |
| `ext4` | `ReadsSeeWrites`, `CleanIsOnDevice`, `MemoryExact`, `LookupExact` | Two groups of inodes, a root directory with a hole and two blocks, in which a name may stand twice, once in each block or twice in one, and a subdirectory whose extents turn bad or deep, a file that looks like a directory; unreadable and unwritable blocks, allocation failures after zero to five successes, more devices than room in the table |
| `context_switch` | `SwitchReachesNext`, violated | see section 6 |
| `vmm_free` | `FreesAllocatedMemory`, violated | see section 6 |

Bounds that are not the code's own: `MaxCount` (longest run) and the memory maps of
`Pmm`; `MaxPid` of `Process`; `MaxRaises` of `Irq`; the sets of callbacks, contexts,
intervals and frequencies of `Timer`; keys and bytes of the input drivers;
`MaxCalls` and `MaxRequests` of the storage drivers and the sectors, blocks and
addresses of their requests; `MaxOps`, the memory sizes and the table sizes of
`ProcessMemory`; `MaxFiles`, blocks, paths and faults of `Ext4`. `Ext4` is finite
without a bound on its calls.

Types. `Pmm` has a type invariant that is checked and proved, `PmmScan` and `Spinlock`
(`LockTypeOK`) one that is proved. In the other modules a value outside its type is an error of
evaluation in the run (a function applied outside its domain), or violates one of the
properties above, which determine the state between calls exactly.

Deadlock is not checked where the system may really stop: `PmmScan` ends;
`process_execute` leaves the kernel for good, with interrupts on or off; the lock of
`Spinlock` can be waited for by a handler that interrupted its holder; the storage and
memory runs end at the bound on their calls.

## 4. Fairness

- `PmmScan`: the loop goes on (weak fairness of its step).
- `Irq`: the CPU takes interrupts again and again, because the kernel ends in a loop
  of `hlt` with interrupts on, and `irq_dispatch` returns. Devices and drivers owe
  nothing.
- `Timer`: the timer keeps interrupting and the handler, which runs with
  interrupts off, goes on (weak fairness of each). The thread is interrupted again
  and again, but gets the CPU back each time (strong fairness of its steps). The lock
  is an exchange in a loop, for which strong fairness would be too much to ask if there
  were rivals; there is one caller at a time and the handler takes no lock, so whoever
  spins waits for an earlier call that did not release. Nobody has to start a call.
- `Process`: none is assumed. `EveryReadyProcessRuns` is conditional: if the CPU is
  yielded infinitely often, nobody waits in the ready queue for ever.
- `Sata`, `Nvme`: the code of a call keeps running (weak fairness of its steps); a
  controller owes no answer. The one thing asked of it is that the command engine of
  a port stops some time after ST was cleared, because `start_port` (`sata.c:366`)
  waits for that without a time-out; without this assumption `EveryCallReturns` fails.
- Input drivers, memory, file system and spinlock: safety only. A spinlock that tests and sets does not
  promise that a waiter gets it.

## 5. What is proved

TLAPS proves the following for every value of the constants that satisfies the
named assumptions of the modules.

`PmmProofs` (assumptions: positive sizes; the boot protocol's rules on memory maps):

- `PmmTypeOK`, `PmmBitmapExact`, `PmmNoSharing`: `Spec => []...` for each. The
  inductive invariant is `TypeOK /\ BitmapExact /\ NoSharing /\ RegionFixed`.
  `NoSharing` is not inductive by itself: that a new run is disjoint from what
  others hold needs `BitmapExact` (what is held is marked), and a release
  keeps `BitmapExact` only because of `NoSharing` (nobody else holds the pages it
  clears). `RegionFixed` says that region and initial reservation do not change.
- `PmmImplementsPageAllocator`: the bitmap allocator implements `PageAllocator`
  with the free pages of the region and the pages held as mapping; init, allocation
  and release map to the abstract steps, a failed call to a stuttering step.

Also in `PmmProofs` (a region of any length, any positive requests):
`ScanReturnsFirstFit` and `ScanFailsOnlyWhenFull`. The inductive invariant adds
`LoopInvariant`: the pages from `start_page` to `i` are a run of clear bits of
length `found_pages`, shorter than the request, and no run that starts earlier is
long enough. This is what lets `Pmm` treat the loop as "the first fit".

`IrqProofs` (any set of lines that holds 7 and 15 and not the cascade, any drivers
that mask lines themselves, any handlers and table size):

- `IrqTrackingExact`. `TrackingExact` is not inductive: `pic_enable_irq` writes the
  register of one controller from the shadow masks, so the proof needs `MasksAgree`
  (all three copies agree, and the cascade is masked only while every slave line is),
  and `MaskInv` carries it from before `irq_init`, when only the shadow masks are known.
- `IrqRegisteredIsUnmasked`. `TableInv` adds what ties the table to the enable mask; a
  line is disabled only when its last handler goes.
- `IrqNothingLeftInService`. `ServiceInv` says what is in service during a dispatch: the
  line and its way through the cascade, nothing for a spurious IRQ 7, the cascade alone
  for a spurious IRQ 15. It is what the end-of-interrupt commands then clear.

Also in `IrqProofs` (any set of CPUs): `SpinlockMutualExclusion` and
`SpinlockOwnerIsHolder`. The inductive invariant adds that the value is 1 while
somebody holds the lock, which makes a second test-and-set fail. That the owner is
the holder's depends on the order of the stores in `spinlock_release`: the owner is
cleared before the value.

`ProcessProofs` (any table size, page tables and number of processes):
`QueuesAreWellFormed`, `NoProcessIsLost`, `LoadedSpaceIsAlive` and `RefinesRoundRobin`.
None of these properties is inductive. The invariant `Inv` says that there are two
sequences `R` and `B`, each without repetition and with no common entry, such that the
forward links thread both, the back links and the tail thread `R`, and states, pids, page
tables, the current process and CR3 agree with them. One lemma per function of `process.c`
says which sequences its links thread afterwards: a removal from the head, the middle and
the end are one `Cut`. `RefinesRoundRobin` then maps each call to its step of the abstract
scheduler: what `RoundRobin` is given as its queue, computed by following the links, is
shown to be `R`.

`TimerProofs` (any number of slots; any callbacks, contexts, intervals and frequencies):
`OnlyRegisteredCalls` and `CallsAreOnTime`. `Inv` says, for each
program point of the thread, which stores of a registration have happened, that the slot
being written is inactive until the last of them, that the handler's position and the
callback it is about to call are those of an active slot, and that every pair of callback
and context is registered as often as it is active in a slot, which is what makes a callback
registered twice survive one removal. For the second theorem it adds `Scheduled`: the ticks
an active slot has waited and those it has left make up its interval, in ticks of the
frequency at which they were computed (less for the first call, if ticks came between the
stores of the registration), and a slot with none left is still ahead of the handler or was
activated after it passed. Without that last part a slot could be due and wait for ever.

`InputProofs` (rings and callback tables of any size, any keys, any bytes):

- `DriversAreQueues`: both drivers implement `BoundedFifo`. The invariant says that the
  indices are in range and that a reader past its test has something to read. The contents
  of a ring are a sequence computed modulo its size; lemmas say that `Insert` appends to it
  and `Advance` takes its head, with and without wrapping.
- `PressesStored`, an action property, from the same lemmas.
- `MovementsAreExact`. `Assembling` relates the stage of the packet assembly to the bytes
  the device sent, as long as none was lost; `DecodeExact` is the sign arithmetic.
- `CallbacksAreReached`: the count equals the number of filled slots, so a prefix without
  a hole lies below it.

`StorageProofs` (any bus, controllers, ports, drives, slots and requests):

- `SataSlotsOwned`, an action property. `SlotInv` says that between the choice of a slot
  by `find_command_slot` and the next command issued in it the slot is empty, also between
  the read of the issue register and its write, which gives back to the controller what it
  saw there. It is kept
  across chunks because a request sends the next one only after its slot was cleared.
- `SataPortsExact`. `PortInv` extends the property into the set-up: which ports work so
  far, counted by place (controller, bit), which one holds memory without working yet, and
  that the controllers visited, the one at hand and those to come are different. Then the
  number of places before a place is an injection into the numbers below the count, so
  it is onto (a finite set): the search finds one port for every identifier.
- `SataRequestsExact`. `RequestInv` says, for a request that began alone in its port, that
  its command is the only one, that `k` sectors are done and the rest are left, that the
  buffer holds the data of a write until it is executed, and that a slot cleared without an
  error was executed. That last part needs `PortInv`: the command engine of a working
  port
  runs, so nothing drops the command. Being alone, the request saw no other
  command in the register it wrote back. The address of a chunk never wraps, because a chunk
  that was executed ended below the number of sectors; so a request reported as done lies
  on the drive, although the driver does not know its size.
- `NvmeMemoryExact`. `NvmeDmaExact` says what a controller holds between calls by how its
  set-up ended: nothing without registers; the registers alone after a failure of the
  identification or of the admin queues; registers and admin queues after one of the I/O
  queues (`nvme.c:257` leaks them); registers and four queues of one that is up; after the
  shutdown the rest of a large BAR. Each of these once, and nothing else. `DmaInv` adds the
  one data buffer while a request is under way. `IdentifyNeutral` shows that each exit of
  `nvme_simple_identify` frees what it allocated, `SetupExact` each way the set-up can end.
- `NvmeWritesAreDone`. `WriteInv` says that every command the controller ever took, and
  every completion, carries an identifier below the next one or one of the two shared
  ones, so that a completion with the identifier of the write under way is the write's.
  The first attempt failed for a reason: the identification uses the fixed identifier 10,
  and the tenth write takes its late completion for its own (section 6).

`Ext4Proofs` (any disk, block contents, paths, devices and faults):

- `WritesAreSeen`, `CleanBufferIsOnDevice` and `MemoryIsExact` rest on one invariant `Inv`.
  `ReadsSeeWrites` is not inductive: a buffer that replaces another must leave the
  device with a value the replaced block may have. `Coherent` says that the device holds
  such a value for every block, that the buffer does for its own, and that a buffer
  which is not dirty is what the device holds; so a late write of a dirty buffer, a
  failed one that reached the device or one that is dropped at unmount gives the block
  another of its allowed values, and never an older one. `Readable` adds that whatever
  a block may read as is of the kind the lookup takes it for (inodes or entries).
- `LookupIsExact`, an action property: a file that is opened is one its path leads to by
  what the blocks read as before the call, and without a fault exactly the one the first
  matching entries lead to, being refused only if they lead nowhere. The call itself moves
  the buffer from block to block and may write a dirty one. `ReadKeeps` shows that no read
  changes what any block reads as, and every lemma above it carries this along
  (`SameView`). `SearchFinds` is the loop over the blocks of a directory (the first hit, and
  after a read error still some hit), `PathFollows` the loop over the components,
  `ChainsAreFollowed` ties the chain of inodes of the property to the one the loop went.

`ProcessMemoryProofs` (tables of any size, any images, registers and allocations, any
number of operations; the hypothesis `SmallMachine`):

- `PageTablesTheorem`: `PageTablesExact` always holds. It is a statement about the whole
  graph of tables, and the operations change single entries of it, some of them found by
  a walk. The invariant `Good` gives every table a level and a home (the space whose
  lower half it belongs to, or the half that all share) such that an entry leads one
  level down within one home, and every table below a root has a parent of its own home
  (`Tree`). From this follows what `vmm_delete_address_space` frees: exactly the tables
  of one home (`LowerIsHome`), so nobody else's and all of them. One lemma per function
  says that it keeps `Good` and whose frames it may add or free (`Grown`, `Only`,
  `Shrunk`); each covers every way in which the function can fail.
  The invariant must also know the huge pages of the boot loader. `map_page_internal`
  follows them as if they were tables (section 6), and `DirectIndex` shows that a mapping
  can only arrive at the frames from 256 MB on through them, which are never tables.
- `LoaderTheorem`: `LoaderExact` always holds. `Loading` says, between two segments,
  that what the context recorded is the loader's own, no table, no stack, and still
  allocated unless the load has failed; so the second release of a segment that could not
  be mapped, and the clean-up after it, free nothing of others. `Whole` adds that an
  image which is not `oversized` has everything recorded.

`SmallMachine` is a hypothesis of these two theorems, not an assumption of the module,
because the run `vmm_free` takes an instance without it. It says that the frames the page
allocator manages lie below 256 MB, that no segment of an image is mapped into their direct
map, and that no window of registers is longer than 1 GB (no device here comes near). The
first is what the code needs: beyond 256 MB the addresses of the kernel's area, with the
offset of the direct map subtracted, denote managed frames, and `vmm_free` gives back tables
and images of others, which is the violation that run finds. The repository's default
machine is outside the hypothesis: with `-m 2G` (`Makefile:9` at the root of the repository)
the allocator manages its full 64K pages, 256 MB, from 1 MB or more on (`pmm.c:10`, `:34`,
`:79`), so they end above 256 MB, and neither theorem speaks of it. `free_dma_buffer` computes a wrong
address in the same way, but about 128 TB up, where nothing is managed: its memory only
leaks. The second part is not checked by
`elf.c`; a segment there would write entries into the frames of others. The instance of
`process_memory` satisfies `SmallMachine`.

The loops of `Ext4` and `Vmm` are functions on the number of rounds, of which a lemma each
(`SearchUnrolls`, `PathUnrolls`; `UnmapUnrolls`, `MapUnrolls`, `FreeUnrolls`,
`AllocateUnrolls`, `LoadUnrolls`) shows that they satisfy their recursive equation. The
library's induction theorems take an operator as a parameter, which the provers here
cannot instantiate; `Induction` states the same for a set of numbers and is proved from the
well-foundedness of the order on numbers. `ProcessProofs` and `StorageProofs` argue by a
least counterexample in the same way.

`PmmProofs` also has `PmmHeldMemoryIsUsable`: the region is page-aligned inward from the
chosen entry, and the pages that a reserved entry touches are marked at boot, so by
`BitmapExact` nobody holds them.

Assumptions. Besides positive sizes: the boot protocol's rules on memory maps (`Pmm`); the
cascade is masked by no driver (`Irq`); no callback is the null pointer (`Input`); a drive
has fewer sectors than there are block addresses, `ports_active` has 32 bits, the bus lists
each AHCI controller once (`BusAssumption`), and the NVMe requests end before the 16-bit
counter of `nvme_write` comes round (`MaxRequests <= MaxId` of `StorageAssumption`): past
that identifiers repeat, and a completion that is 65535 writes late could be mistaken. For
`Ext4`: positive geometry, group descriptors that name blocks of the device
(`Ext4Assumption`), and `DiskAssumption`: what is or gets written to a block of an inode
table is inodes, to another block directory entries, and no inode names a block of a table
as one of its directory's. The code checks neither; a disk that breaks it makes it
read an inode as entries, which has no meaning the model could give.

Only model-checked: every liveness property, because the prover has neither fairness nor
`ENABLED`, and `MappingsExact` of `ProcessMemory`. That one says what every address
translates to. Its proof would need, besides the tree of tables, that the four indices of
an address determine it (quotients and remainders by products of constants, which the SMT
solver does not decide), and an induction over the fold that lays segments over
one another.

## 6. Where the code and its comments disagree

Two disagreements are kept as runs that must find a violation.

- **`context_switch`.** `syncos/process_switch.S:42`: "Now safe to overwrite %rsi".
  The loads that follow still go through `%rsi`.
- **`vmm_free`.** `syncos/vmm.c:676`: "Free allocated memory". From `hhdm_offset` on,
  `virt_to_phys` (line 110) subtracts the offset instead of walking the tables, so
  `vmm_free` gives back the frame at 256 MB plus the offset in the area. If the page
  allocator manages that frame it may be anybody's; the run finds a process's frame
  freed. If it does not, the memory is simply never returned, which is the case the
  run `process_memory` takes. `free_dma_buffer` (`sata.c:742`) subtracts the same offset
  from an address at `KERNEL_VIRTUAL_BASE`: the result is far above all memory, and the
  buffer is never returned.

Others were met while modelling; the models reproduce the behaviour, and properties
are stated so that they hold in spite of it.

Scheduling and interrupts:

- `process.c:126`: "Register timer callback for preemptive scheduling". The callback
  runs inside an interrupt gate, so the test of the interrupt flag at line 171 makes it
  return at once, always.
- `irq.c:291`: "Update our tracking". Masking or unmasking everything
  (`irq_set_all_masked`, `irq_clear_all_masked`, `pic_disable`) leaves one of the copies
  of the masks as it was, and the next enable or disable writes that one back.
  `TrackingExact` speaks of the other calls.
- `timer.c:198`: "it's safe to do this without holding lock". A callback that itself
  registered a callback would spin on the lock of the thread it interrupted. No
  callback in the tree does so, and those of `Timer` leave the table alone.
- `spinlock.c:63`: "Disable interrupts during critical section on IRQ-safe locks". The
  flag is looked for in `lock->owner`, which is 0 while the lock is free, so a handler
  can spin on the lock of the thread it interrupted.
- `process_get_by_id` (`process.c:730`) takes a pid as an index, but pids grow while
  entries are reused: a live process may not be found by its pid. The properties of
  `Process` are stated over entries.
- `process.c:748`: "Interrupts will be re-enabled by the context switch". They are
  not when the next process is the current one, nor for a process whose flags were
  saved after they were cleared.
- The idle process that blocks itself goes on running in state BLOCKED
  (`process.c:762`); `process_block` is restricted to other processes here.
- `process_execute` (`process.c:458`) enters user mode without making the process
  current, and with the lock held.
- When no address space can be created (`process.c:358`) the entry keeps its pid and
  state NEW, and is never free again; the other failures clear the pid.
- `pic_enable_irq` (`pic.c:119`) unmasks the cascade only if the slave's mask changes.
  With IRQ 2 masked by a driver a slave line could be enabled and not delivered; no
  driver uses IRQ 2, and `IrqAssumption` excludes it.
- `keyboard_unregister_callback` (`keyboard.c:201`) decrements the count that bounds
  the loop over the callbacks without closing the hole, so that a later one is no
  longer called; likewise in the mouse driver. `CallbacksReached` speaks of callbacks
  with no hole before them.
- A byte of the mouse that is lost leaves the assembly out of step for good
  (`mouse.c:127`: only bit 3 of a first byte is tested, which a movement byte may have set
  too). `MovementExact` speaks of behaviours in which none was lost.
- A mouse movement of more than 127 counts changes its sign in the 8-bit field
  (`mouse.c:156`). `MovementExact` speaks of movements that fit.
- The scheduler's callback is registered twice at boot, and one
  removal leaves it registered once (`CallsAreRegistered` counts); deadlines are not
  converted when the frequency changes (`timer.c:79`), and the uptime in milliseconds
  (`timer.c:232`) jumps when it does.
- `spinlock_release` tests the flag after clearing the field that holds it
  (`spinlock.c:119`), so interrupts that were disabled stay disabled.

Memory:

- `free_process_resources` (`process.c:605`) does not return the frames of the stack;
  nor does `process_create` when a later step fails. Mapping the guard page with
  physical address 0 is always refused.
- `vmm_init` registers one area for the kernel and `vmm_allocate` marks it used as a
  whole (`vmm.c:632`): while one allocation lives, every other fails. `ext4_mount` needs
  three at a time, so it cannot succeed on top of this allocator. With a direct map of
  1 GB pages every kernel allocation fails; with 2 MB pages the code takes the frame
  of a huge page for a page table (`vmm.c:167`) and `vmm_free` unmaps the huge page.
- A mapping over a page that is present overwrites it without a word. Physical
  addresses from 2 GB on wrap around when `KERNEL_VIRTUAL_BASE` is added
  (`vmm.c:738`): such registers are mapped in the lower half of the boot space and
  not in that of a process. Two regions above 4 GB with the same low 32 bits collide.
- Deleting the current address space is refused and the space is lost; the memory mapped
  in a deleted space is not freed by `vmm_delete_address_space`, only tables.
- `elf.c` frees the header arrays as one page each whatever they took, and records at
  most 16 segments; the properties except such images (`oversized`). A segment that
  cannot be mapped is freed twice, harmlessly, because nothing allocates in between. A
  file without section headers is refused. The loader writes through physical
  addresses as pointers; the model takes them to be reachable.

Storage:

- `pci_is_multifunction` (`pci.c:115`) reads the byte at 0x0C, not the header type.
- SATA: `sata_shutdown` unmaps one of the two pages of registers; a command that was
  given up shares the DMA buffer of the port with the next request (`RequestsExact`
  excepts it); `ci |= 1 << slot` (`sata.c:1259`) issues again a given-up command that ended
  between the read and the write, where writing the one bit would do; the IDENTIFY data is
  asked for at a virtual address (`sata.c:446`), so the sector count is always the default; `lba + count` can wrap; `slot_count` is not used.
- NVMe: `asq_size` is never set, so the queue has one entry. After a read `sq_tail` is 1
  and the next write is put behind the queue. Every read uses identifier 1 and leaves
  its completion, which the first write, with identifier 1 too, takes for its own
  (`nvme.c:1414`: "the command ID needs to be unique"); likewise write number 10 and the
  identification, if that timed out (`nvme.c:703`: "Arbitrary unique ID").
  `NvmeWritesDone` speaks of the other identifiers. A read reports success whatever happens, with made-up data if
  need be. A flush always fails. The data buffer of a write that timed out is freed
  while the controller still has the command. If the I/O queues fail, the admin queues
  are lost (`nvme.c:257`); the registers of a controller whose set-up failed stay mapped,
  and so does the part of a large BAR behind `NVME_REG_MAP_SIZE` after the shutdown;
  controllers behind one that failed are not reached.
- ext4: on devices with sectors above 1024 bytes the superblock is looked for in the
  wrong place; `fs->lock` is never taken; deep extent trees and indirect blocks are not
  searched, so that of a directory with block pointers only the 12 direct ones are; a
  file that is open across an unmount is not noticed; a failed write stays in the buffer and may reach the device later
  (`ReadsSeeWrites` allows either value).

## 7. Plan

Done: the page allocator with its search loop, page tables, loader and process memory,
processes and their switch, interrupts, timer, input, spinlock, PCI with both storage
drivers, the file system; the theorems of section 5.

Left, in this order:

1. `MappingsExact` of `ProcessMemory` as a theorem, on the tree that `ProcessMemoryProofs` has.
2. `Ext4` on top of `Storage`, so that the faults of the file system are those the
   drivers produce.
3. A composition of `Irq`, `Timer` and `Process` for the path from a tick to the
   scheduler, with the boot order of `core/main.c`.
4. The network stack, once the driver below it allocates its rings.

## 8. Not modelled

- **Network stack and e1000.** `e1000_init` never allocates the transmit buffers and the
  receive descriptors (`e1000.c:34`, `:40`): the first frame sent or polled for
  dereferences NULL. In `net.c:303` the flags of a received segment are set to 0
  instead of read, so no connection leaves SYN_SENT. There is no behaviour after the
  first call to explore.
- **GDT and TSS, IDT and exceptions** are tables of hardware encodings written once at
  boot; the default handlers print and halt, and so does the page-fault handler.
- **The serial port** is port I/O, a byte at a time; **the C library** is sequential
  code without state. **The boot sequence** is a straight line of calls; each module
  starts from what its call leaves.
- Code without a caller: `VMM_FLAG_HUGE` and the user area of `vmm.c`,
  `nvme_reset_controller`, `nvme_identify_controller`, `nvme_process_completions`,
  `write_inode`, `storage_device_destroy`, `pic_set_mask`, `pic_get_irr`.
- Printing, statistics and dumps everywhere. The Limine boot loader is outside the
  repository: its memory map is an input of `Pmm`, its page tables one of
  `ProcessMemory`. The instructions that enter user mode are an external step that does
  not return.

## 9. Running

    tlc -config MCPmm.cfg MCPmm                  # likewise the other configurations
    tlc -config VmmFree.cfg MCProcessMemory      # the second instance of this module
    tlapm PmmProofs.tla                          # likewise the other proof modules
