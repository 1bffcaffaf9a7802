-------------------------- MODULE MCProcessMemory --------------------------
(* Tables of 32 and 2 entries: 2 GB is 64 pages, 256 MB page 32.           *)
EXTENDS ProcessMemory

Seg(v, n) == [v |-> v, n |-> n]
File(valid, ph, sh, segments) == [valid |-> valid, ph |-> ph, sh |-> sh, segments |-> segments]

(* Across two page tables; an overlap; no section headers; refused; more   *)
(* than the context records.                                               *)
MCImages == { File(TRUE, 1, 1, <<Seg(30, 3)>>),
              File(TRUE, 1, 1, <<Seg(5, 2), Seg(6, 1)>>),
              File(TRUE, 1, 0, <<Seg(5, 1)>>),
              File(FALSE, 1, 1, <<Seg(5, 1)>>),
              File(TRUE, 2, 1, <<Seg(5, 1), Seg(6, 1), Seg(7, 1)>>) }

(* Across 2 GB, wrapped into the lower half, above 4 GB.       *)
MCRegisters == { [f |-> 63, n |-> 2], [f |-> 70, n |-> 1],
                 [f |-> 159, n |-> 2] }
MCRamSizes == {3, 6, 9, 11, 23}
=============================================================================
