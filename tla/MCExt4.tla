------------------------------- MODULE MCExt4 -------------------------------
(* Five blocks: the inodes of group 0 and of group 1, then the blocks of   *)
(* the root directory and of its subdirectory.                             *)
EXTENDS Ext4, TLC

Dev(info, ext4, size) == [info |-> info, ext4 |-> ext4, sector_size |-> size]
MCMachines == { [nvme |-> <<Dev(FALSE, TRUE, 512), Dev(TRUE, TRUE, 4096)>>,
                 sata |-> <<Dev(TRUE, TRUE, 512), Dev(TRUE, FALSE, 512)>>] }

Inode(dir, map, blocks) == [dir |-> dir, map |-> map, blocks |-> blocks]
Unused == Inode(FALSE, "direct", <<>>)
E(name, inode) == [name |-> name, inode |-> inode]

(* Inode 2 is the root, 3 a subdirectory, 4 a file whose block looks like  *)
(* a directory's.                                                          *)
Group0 == <<Unused, Inode(TRUE, "direct", <<0, 2, 3>>)>>
Group1(map) == <<Inode(TRUE, map, <<4>>), Inode(FALSE, "direct", <<4>>)>>
MCDisks == { [b \in 0..4 |->
    CASE b = 0 -> Group0
      [] b = 1 -> Group1("extents")
      [] b = 2 -> <<E("a", 0), E("d", 3)>>
      [] b = 3 -> <<E("f", 4)>>
      [] b = 4 -> <<E("f", 4), E("x", 9)>>] }
MCContents == [b \in 0..4 |->
    CASE b = 1 -> {Group1("extents"), Group1("bad"), Group1("deep")}
      [] b = 3 -> {<<E("f", 4)>>, <<E("f", 0), E("d", 4), E("d", 3)>>}
      [] OTHER -> {}]
MCInodeTable == (0 :> 0) @@ (1 :> 1)
MCPaths == { <<>>, <<"f">>, <<"d", "f">>, <<"f", "f">>, <<"d", "x">> }

None == [unreadable |-> {}, unwritable |-> {}, reached |-> FALSE, superblock |-> TRUE,
         gdt |-> TRUE, flush |-> TRUE, mem |-> 9]
MCFaults == {None}
  \cup {[None EXCEPT !.mem = k] : k \in 0..5}
  \cup {[None EXCEPT !.unreadable = {b}] : b \in {0, 2, 3, 4}}
  \cup {[None EXCEPT !.unwritable = 0..4, !.reached = r] : r \in BOOLEAN}
  \cup {[None EXCEPT !.superblock = FALSE], [None EXCEPT !.gdt = FALSE], [None EXCEPT !.flush = FALSE]}
=============================================================================
