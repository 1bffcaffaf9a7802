-------------------------------- MODULE Ext4 --------------------------------
(***************************************************************************)
(* The ext4 reader (syncos/fs/ext4.c) over block devices that fail.        *)
(*                                                                         *)
(* Every call is one action: no lock of the file system is ever taken and  *)
(* the kernel runs on one CPU without preemption.  What fails during a     *)
(* call is its parameter x: the blocks that cannot be read or written,     *)
(* whether a failed write reached the device all the same, the superblock  *)
(* and the group descriptors, the device's flush, and how many allocations *)
(* succeed before one fails.                                               *)
(*                                                                         *)
(* A block holds a table of inodes or a list of directory entries.  Names  *)
(* are short enough for the component buffer of the lookup.  A block is    *)
(* written as a whole or not at all: a device that stops between two       *)
(* sectors of a block, and leaves a mixture, is left out.  So are several  *)
(* file systems mounted at a time, each of which has a buffer of its own,  *)
(* and the use of a file after its file system was unmounted, but for      *)
(* closing it.                                                             *)
(***************************************************************************)
EXTENDS Integers, Sequences, SequencesExt, FiniteSets

CONSTANTS
  MaxDevices,       \* room in detected_devices (16)
  Machines,         \* [nvme, sata]: the devices that the drivers found
  NoDevice,
  block_count, inodes_per_group, groups_count, InodesPerBlock,
  InodeTable,       \* bg_inode_table of each group
  Disks,            \* contents of the device that holds the file system
  Contents,         \* what may be written to each block
  Paths,            \* paths that are looked up, as sequences of components
  Faults,           \* the values of x
  MaxFiles          \* bound on the open files

ASSUME Ext4Assumption ==
  /\ {MaxDevices, block_count, inodes_per_group, groups_count, InodesPerBlock} \subseteq Nat \ {0}
  /\ InodeTable \in [0..groups_count - 1 -> 0..block_count - 1]
  /\ \A x \in Faults : x.mem \in Nat

VARIABLES
  machine, devices,   \* detected_devices
  fs,                 \* device of the mounted file system, or NoDevice
  s,                  \* the device's blocks, the block buffer, memory held, and
                      \* the allocations that succeed before the call ends
  files,              \* handles that are open: a sequence of inode numbers
  ret,                \* what the last call returned
  last                \* what each block may read as, by the writes made to it

vars == <<machine, devices, fs, s, files, ret, last>>

Blocks == 0..block_count - 1
NoBlock == -1
Root == 2
Objects == {"superblock", "fs", "group_desc", "block_buffer", "block_data", "dir_data", "file"}

(* How a call starts, and how it leaves s behind.                          *)
With(x) == [s EXCEPT !.mem = x.mem]
Without(a) == [a EXCEPT !.mem = 0]

vmm_allocate(a, o) ==
  IF a.mem = 0 THEN [ok |-> FALSE, s |-> a]
  ELSE [ok |-> TRUE, s |-> [a EXCEPT !.mem = @ - 1, !.held[o] = @ + 1]]

vmm_free(a, o) == [a EXCEPT !.held[o] = @ - 1]
-----------------------------------------------------------------------------
(* Devices.                                                                *)

(* The first free slot, if the driver gives the device's parameters.       *)
storage_device_create(table, d) ==
  LET free == {i \in DOMAIN table : table[i] = NoDevice}
      slot == CHOOSE i \in free : \A j \in free : i <= j
  IN  IF free = {} \/ ~d.info THEN table ELSE [table EXCEPT ![slot] = d]

storage_detect_all_devices ==
  /\ devices' = FoldLeft(storage_device_create, [i \in 1..MaxDevices |-> NoDevice],
                         machine.nvme \o machine.sata)
  /\ ret' = [op |-> "none", ok |-> TRUE]
  /\ UNCHANGED <<machine, fs, s, files, last>>

(* The superblock is at byte 1024: with sectors larger than that the code  *)
(* reads sector 0 and takes its start for the superblock.                  *)
Magic(d) == d.ext4 /\ d.sector_size <= 1024

ext4_detect(d, x) ==
  /\ \E a \in {vmm_allocate(With(x), "superblock")} :
       /\ s' = Without(IF a.ok THEN vmm_free(a.s, "superblock") ELSE a.s)
       /\ ret' = [op |-> "detect", ok |-> a.ok /\ x.superblock /\ Magic(d)]
  /\ UNCHANGED <<machine, devices, fs, files, last>>
-----------------------------------------------------------------------------
(* The block buffer: one block, written through.                           *)

write_blocks(a, b, v, x) ==
  [ok |-> b \notin x.unwritable,
   s  |-> IF b \in x.unwritable /\ ~x.reached THEN a ELSE [a EXCEPT !.disk[b] = v]]

(* A dirty buffer is written to the device, and stays dirty if that fails. *)
Flushed(a, x) ==
  LET Written(w) == [w EXCEPT !.s.dirty = ~w.ok]
  IN  IF a.dirty THEN Written(write_blocks(a, a.buffer_block, a.buffer, x))
      ELSE [ok |-> TRUE, s |-> a]

\* Mutant: the number of the buffered block is not updated.
CachedUnderOldNumber(a, b) == [a EXCEPT !.buffer = a.disk[b]]

(* The block read from the device replaces the buffered one.               *)
Cached(a, b) == [a EXCEPT !.buffer = a.disk[b], !.buffer_block = b]

ext4_read_block(a, b, x) ==
  LET Fetched(w) ==
        IF ~w.ok \/ b \in x.unreadable THEN [ok |-> FALSE, s |-> w.s]
        ELSE [ok |-> TRUE, s |-> Cached(w.s, b), v |-> w.s.disk[b]]
  IN  CASE b \notin Blocks -> [ok |-> FALSE, s |-> a]
        [] b \in Blocks /\ b = a.buffer_block -> [ok |-> TRUE, s |-> a, v |-> a.buffer]
        [] b \in Blocks /\ b # a.buffer_block -> Fetched(Flushed(a, x))

\* Mutant: the buffer is not marked dirty, as it is written through.
Clean(a, b, v) == [a EXCEPT !.buffer = v, !.buffer_block = b]

(* The buffer is replaced, dirty or not, before the device is written.     *)
Buffered(a, b, v) == [a EXCEPT !.buffer = v, !.buffer_block = b, !.dirty = TRUE]

ext4_write_block(a, b, v, x) == write_blocks(Buffered(a, b, v), b, v, x)

ReadBlock(b, x) ==
  /\ fs # NoDevice
  /\ \E r \in {ext4_read_block(With(x), b, x)} :
       s' = Without(r.s) /\ ret' = [op |-> "read", ok |-> r.ok]
  /\ UNCHANGED <<machine, devices, fs, files, last>>

WriteBlock(b, v, x) ==
  /\ fs # NoDevice
  /\ \E w \in {ext4_write_block(With(x), b, v, x)} :
       /\ s' = Without(w.s)
       /\ ret' = [op |-> "write", ok |-> w.ok]
       /\ last' = [last EXCEPT ![b] = IF w.ok THEN {v} ELSE @ \cup {v}]
  /\ UNCHANGED <<machine, devices, fs, files>>

ext4_flush_blocks(x) ==
  /\ fs # NoDevice
  /\ \E f \in {Flushed(With(x), x)} :
       s' = Without(f.s) /\ ret' = [op |-> "flush", ok |-> f.ok /\ x.flush]
  /\ UNCHANGED <<machine, devices, fs, files, last>>
-----------------------------------------------------------------------------
(* Mounting.                                                               *)

NoFs(a) == vmm_free(a, "fs")

Mounted(a, d, x) ==
  LET Fails(c) == [ok |-> FALSE, s |-> NoFs(c)]
      Buffer(b) ==
        IF ~b.ok THEN Fails(vmm_free(b.s, "group_desc"))
        ELSE [ok |-> TRUE, s |-> [b.s EXCEPT !.buffer_block = NoBlock, !.dirty = FALSE]]
      Groups(g) ==
        IF ~g.ok THEN Fails(g.s)
        ELSE IF ~x.gdt THEN Fails(vmm_free(g.s, "group_desc"))
        ELSE Buffer(vmm_allocate(g.s, "block_buffer"))
      Super(f) ==
        IF ~f.ok THEN f
        ELSE IF ~(x.superblock /\ Magic(d)) THEN Fails(f.s)
        ELSE Groups(vmm_allocate(f.s, "group_desc"))
  IN  Super(vmm_allocate(a, "fs"))

(* One file system at a time; the code would mount another one beside it.  *)
ext4_mount(d, x) ==
  /\ fs = NoDevice
  /\ \E r \in {Mounted(With(x), d, x)} :
       /\ s' = Without(r.s)
       /\ fs' = IF r.ok THEN d ELSE NoDevice
       /\ ret' = [op |-> "mount", ok |-> r.ok]
  /\ UNCHANGED <<machine, devices, files, last>>

(* A dirty buffer is written, with or without success.  Open files are not *)
(* looked for: they stay open, and can still be closed.                    *)
ext4_unmount(x) ==
  /\ fs # NoDevice
  /\ s' = Without(NoFs(vmm_free(vmm_free(
       [Flushed(With(x), x).s EXCEPT !.buffer_block = NoBlock, !.dirty = FALSE],
       "block_buffer"), "group_desc")))
  /\ fs' = NoDevice
  /\ ret' = [op |-> "unmount", ok |-> TRUE]
  /\ UNCHANGED <<machine, devices, files, last>>
-----------------------------------------------------------------------------
(* Inodes and paths.                                                       *)

InodeExists(n) == n # 0 /\ (n - 1) \div inodes_per_group < groups_count
InodeBlock(n) ==
  InodeTable[(n - 1) \div inodes_per_group] + ((n - 1) % inodes_per_group) \div InodesPerBlock
InodeIndex(n) == (((n - 1) % inodes_per_group) % InodesPerBlock) + 1

read_inode(a, n, x) ==
  LET Inode(r) ==
        IF ~r.ok THEN [ok |-> FALSE, s |-> vmm_free(r.s, "block_data")]
        ELSE [ok |-> TRUE, s |-> vmm_free(r.s, "block_data"), inode |-> r.v[InodeIndex(n)]]
      Data(m) == IF m.ok THEN Inode(ext4_read_block(m.s, InodeBlock(n), x)) ELSE m
  IN  IF InodeExists(n) THEN Data(vmm_allocate(a, "block_data")) ELSE [ok |-> FALSE, s |-> a]

(* The blocks that are searched, by their place in the inode: none if the  *)
(* tree of extents has a depth; of the others the direct ones, where block *)
(* 0 is a hole.                                                            *)
DirectBlocks == 12
Searched(inode) ==
  {k \in DOMAIN inode.blocks :
     /\ inode.map # "deep"
     /\ inode.map = "direct" => k <= DirectBlocks /\ inode.blocks[k] # 0}

(* The entries of a block with the name, and the inode of the first, or 0. *)
Hits(entries, name) == {j \in DOMAIN entries : entries[j].inode # 0 /\ entries[j].name = name}
Scan(entries, name) ==
  IF Hits(entries, name) = {} THEN 0 ELSE entries[Min(Hits(entries, name))].inode

(* The k-th block, unless the name is found; one that cannot be read is    *)
(* passed over.                                                            *)
SearchBlock(d, inode, k, name, x) ==
  LET Scanned(r) == [s |-> r.s, found |-> IF r.ok THEN Scan(r.v, name) ELSE 0]
  IN  IF d.found # 0 \/ k \notin Searched(inode) THEN d
      ELSE Scanned(ext4_read_block(d.s, inode.blocks[k], x))

SearchDirectory(a, inode, name, x) ==
  LET Upto[k \in 0..Len(inode.blocks)] ==
        IF k = 0 THEN [s |-> a, found |-> 0]
        ELSE SearchBlock(Upto[k - 1], inode, k, name, x)
  IN  Upto[Len(inode.blocks)]

\* Mutant: the buffer is lost when the extent header is wrong.
KeepsDirData(a, bad) == IF bad THEN a ELSE vmm_free(a, "dir_data")

(* Every way out of the search frees the directory's buffer.               *)
DirDataFreed(a, bad) == vmm_free(a, "dir_data")

\* Mutant: whatever the inode is, its blocks are searched.
AnyInode(inode) == TRUE

IsDirectory(inode) == inode.dir

LookupComponent(p, name, x) ==
  LET Fails(a) == [p EXCEPT !.ok = FALSE, !.s = a]
      Found(d) == [ok |-> d.found # 0, cur |-> d.found, s |-> DirDataFreed(d.s, FALSE)]
      Data(m, inode) ==
        IF ~m.ok THEN Fails(m.s)
        ELSE IF inode.map = "bad" THEN Fails(DirDataFreed(m.s, TRUE))
        ELSE Found(SearchDirectory(m.s, inode, name, x))
      In(i) == IF ~i.ok \/ ~IsDirectory(i.inode) THEN Fails(i.s)
               ELSE Data(vmm_allocate(i.s, "dir_data"), i.inode)
  IN  IF p.ok THEN In(read_inode(p.s, p.cur, x)) ELSE p

find_inode_by_path(a, path, x) ==
  LET Upto[k \in 0..Len(path)] ==
        IF k = 0 THEN [ok |-> TRUE, cur |-> Root, s |-> a]
        ELSE LookupComponent(Upto[k - 1], path[k], x)
  IN  Upto[Len(path)]

Opened(a, path, x) ==
  LET Read(i, p) == IF i.ok THEN [p EXCEPT !.s = i.s]
                    ELSE [p EXCEPT !.ok = FALSE, !.s = vmm_free(i.s, "file")]
      File(f, p) == IF f.ok THEN Read(read_inode(f.s, p.cur, x), p)
                    ELSE [p EXCEPT !.ok = FALSE, !.s = f.s]
      Path(p) == IF p.ok THEN File(vmm_allocate(p.s, "file"), p) ELSE p
  IN  Path(find_inode_by_path(a, path, x))

(* Nothing can fail: at most two allocations for each component, and two   *)
(* for the file.                                                           *)
Faultless(x, path) ==
  x.unreadable = {} /\ x.unwritable = {} /\ x.mem >= 2 * Len(path) + 2

ext4_open(path, x) ==
  /\ fs # NoDevice
  /\ Len(files) < MaxFiles
  /\ \E r \in {Opened(With(x), path, x)} :
       /\ s' = Without(r.s)
       /\ files' = IF r.ok THEN Append(files, r.cur) ELSE files
       /\ ret' = [op |-> "open", ok |-> r.ok, path |-> path, faultless |-> Faultless(x, path)]
  /\ UNCHANGED <<machine, devices, fs, last>>

ext4_close(k) ==
  /\ s' = vmm_free(s, "file")
  /\ files' = RemoveAt(files, k)
  /\ ret' = [op |-> "close", ok |-> TRUE]
  /\ UNCHANGED <<machine, devices, fs, last>>
-----------------------------------------------------------------------------
(* What the blocks hold: those of the inode tables inodes, the others      *)
(* directory entries.  No inode names a block of a table as a directory's. *)

TableBlocks == {InodeBlock(n) : n \in 1..inodes_per_group * groups_count}
Inodes ==
  {i \in [dir : BOOLEAN, map : {"direct", "extents", "deep", "bad"}, blocks : Seq(Nat)] :
     \A k \in Searched(i) : i.blocks[k] \notin TableBlocks}
DirEntries == [name : STRING, inode : Nat]
InodeTables == [1..InodesPerBlock -> Inodes]
Holds(b) == IF b \in TableBlocks THEN InodeTables ELSE Seq(DirEntries)

ASSUME DiskAssumption ==
  /\ Disks \subseteq [Blocks -> InodeTables \cup Seq(DirEntries)]
  /\ \A b \in Blocks : Contents[b] \cup {disk[b] : disk \in Disks} \subseteq Holds(b)
  /\ Paths \subseteq Seq(STRING)

Init ==
  /\ machine \in Machines
  /\ devices = [i \in 1..MaxDevices |-> NoDevice]
  /\ fs = NoDevice
  /\ \E disk \in Disks :
       /\ s = [disk |-> disk, buffer |-> <<>>, buffer_block |-> NoBlock, dirty |-> FALSE,
               held |-> [o \in Objects |-> 0], mem |-> 0]
       /\ last = [b \in Blocks |-> {disk[b]}]
  /\ files = <<>>
  /\ ret = [op |-> "none", ok |-> TRUE]

Next ==
  \/ storage_detect_all_devices
  \/ \E x \in Faults :
       \/ \E i \in DOMAIN devices :
            devices[i] # NoDevice /\ (ext4_detect(devices[i], x) \/ ext4_mount(devices[i], x))
       \/ \E b \in Blocks \cup {block_count} : ReadBlock(b, x)
       \/ \E b \in Blocks : \E v \in Contents[b] : WriteBlock(b, v, x)
       \/ ext4_flush_blocks(x)
       \/ ext4_unmount(x)
       \/ \E path \in Paths : ext4_open(path, x)
  \/ \E k \in DOMAIN files : ext4_close(k)

Spec == Init /\ [][Next]_vars
-----------------------------------------------------------------------------
(* Properties.                                                             *)

(* What a block reads as.                                                  *)
View(b) == IF b = s.buffer_block THEN s.buffer ELSE s.disk[b]

(* ext4_read_block, ext4_write_block: a block reads as the value last      *)
(* written to it with success, or as one of those whose writing failed     *)
(* since, and so does the device; neither the replacement of a dirty       *)
(* buffer nor its late writing undoes a write that was reported as done.   *)
ReadsSeeWrites == \A b \in Blocks : View(b) \in last[b] /\ s.disk[b] \in last[b]

(* A buffer that is not dirty is on the device, so that a flush or an      *)
(* unmount that does not write it loses nothing.                           *)
CleanIsOnDevice ==
  fs # NoDevice /\ ~s.dirty /\ s.buffer_block # NoBlock => s.disk[s.buffer_block] = s.buffer

(* ext4.c: whatever fails, between calls the memory held is that of the    *)
(* mounted file system and of the open files.                              *)
MemoryExact ==
  \A o \in Objects :
    s.held[o] = CASE o \in {"fs", "group_desc", "block_buffer"} -> IF fs # NoDevice THEN 1 ELSE 0
                  [] o = "file" -> Len(files)
                  [] OTHER -> 0

(* The inode with a number, and the entries with a name that one of its    *)
(* blocks lists.                                                           *)
InodeAt(n) == View(InodeBlock(n))[InodeIndex(n)]
HitsIn(n, k, name) ==
  IF InodeAt(n).blocks[k] \in Blocks THEN Hits(View(InodeAt(n).blocks[k]), name) ELSE {}

(* Directory n lists the name for the inode next.                          *)
Lists(n, name, next) ==
  \E k \in Searched(InodeAt(n)) :
    \E j \in HitsIn(n, k, name) : View(InodeAt(n).blocks[k])[j].inode = next

(* The same, no entry before that one having the name.                     *)
ListsFirst(n, name, next) ==
  \E k \in Searched(InodeAt(n)) :
    /\ \A i \in Searched(InodeAt(n)) : i < k => HitsIn(n, i, name) = {}
    /\ \E j \in HitsIn(n, k, name) :
         /\ \A i \in HitsIn(n, k, name) : j <= i
         /\ View(InodeAt(n).blocks[k])[j].inode = next

(* A path leads from the root through the chain of inodes c.               *)
InodeFound(n) == InodeExists(n) /\ InodeBlock(n) \in Blocks
Through(path, c, Step(_, _, _)) ==
  /\ c[1] = Root
  /\ \A k \in DOMAIN path :
       /\ InodeFound(c[k])
       /\ InodeAt(c[k]).dir /\ InodeAt(c[k]).map # "bad"
       /\ Step(c[k], path[k], c[k + 1])
  /\ InodeFound(c[Len(path) + 1])

Chains(path) == [1..Len(path) + 1 -> 1..inodes_per_group * groups_count]
Ends(path) == {c[Len(path) + 1] : c \in {d \in Chains(path) : Through(path, d, Lists)}}
FirstEnds(path) == {c[Len(path) + 1] : c \in {d \in Chains(path) : Through(path, d, ListsFirst)}}

(* find_inode_by_path, ext4_open: a file that is opened is one its path    *)
(* leads to, by what the blocks read as at that moment, although the       *)
(* lookup itself moves the buffer from block to block; and without a fault *)
(* it is the one the first entries lead to, and is refused only if they    *)
(* lead nowhere.                                                           *)
LookupExact ==
  [][fs # NoDevice /\ ret'.op = "open" =>
       /\ ret'.ok => Last(files') \in Ends(ret'.path)
       /\ ret'.faultless =>
            IF ret'.ok THEN Last(files') \in FirstEnds(ret'.path)
                       ELSE FirstEnds(ret'.path) = {}]_vars
=============================================================================
