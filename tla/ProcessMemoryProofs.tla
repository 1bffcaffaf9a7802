------------------------ MODULE ProcessMemoryProofs ------------------------
(***************************************************************************)
(* Proofs about ProcessMemory.tla for every size of the tables, every set  *)
(* of images, registers and allocations, and any number of operations.     *)
(***************************************************************************)
EXTENDS ProcessMemory, WellFoundedInduction, TLAPS

(* Memory that may be mapped at v without going through the part of the    *)
(* direct map that shows the frames of the page allocator.                 *)
Safe(v) == v \in 0..VirtSize - 1 /\ (v < Half \/ v >= AreaBase)

(* The frames the allocator manages lie below 256 MB; images and registers *)
(* are mapped outside of their direct map.                                 *)
SmallMachine ==
  /\ \A n \in RamSizes : n < AreaFrame
  /\ \A image \in Images :
       /\ image.ph \in Nat /\ image.sh \in Nat
       /\ image.segments \in Seq([v : Nat, n : Nat])
       /\ \A k \in DOMAIN image.segments : \A i \in 0..image.segments[k].n - 1 :
            Safe((image.segments[k].v + i) % VirtSize)
  /\ \A r \in Registers : r.f \in Nat /\ r.n \in 0..PD * PT
  /\ DmaSizes \cup KernelSizes \subseteq Nat
-----------------------------------------------------------------------------
(* The shape of the tables.                                                *)

Boot == {BootPml4, BootPdpt, DirectPd, KernelPd, KernelPt}
Owned(a, who) == {f \in DOMAIN a.owner : a.owner[f] = who}
Tables(a) == Owned(a, "table") \cup Boot

Memory(a) ==
  /\ a = [ram |-> a.ram, owner |-> a.owner, current |-> a.current, area |-> a.area,
          tables |-> a.tables]
  /\ a.ram \subseteq 1..AreaFrame - 1
  /\ DOMAIN a.owner \subseteq a.ram
  /\ a.ram \cup Boot \subseteq DOMAIN a.tables
  /\ a.tables = [f \in DOMAIN a.tables |-> a.tables[f]]

(* Every table has a level, and a home: the space whose lower half it      *)
(* belongs to, or BootPdpt for the tables that all spaces share.           *)
Levels(a, S, lev, home) ==
  /\ S \subseteq Tables(a) /\ BootPml4 \in S
  /\ \A t \in Tables(a) : lev[t] \in 1..4 /\ home[t] \in S \cup {BootPdpt}
  /\ \A t \in Tables(a) : lev[t] = 4 <=> t \in S
  /\ \A t \in S : home[t] = t
  /\ lev[BootPdpt] = 3 /\ lev[DirectPd] = 2 /\ lev[KernelPd] = 2 /\ lev[KernelPt] = 1
  /\ \A t \in Boot \ {BootPml4} : home[t] = BootPdpt

(* An entry leads one level down.                                          *)
Edges(a, lev, home) ==
  \A p \in Tables(a) : \A i \in DOMAIN a.tables[p] :
    lev[p] > 1 /\ ~a.tables[p][i].huge =>
      /\ a.tables[p][i].to \in Tables(a)
      /\ lev[a.tables[p][i].to] = lev[p] - 1
      /\ (lev[p] = 4 /\ i = 1) \/ home[a.tables[p][i].to] = home[p]
      /\ a.tables[p][i].to = DirectPd => p = BootPdpt /\ i = 0

(* All spaces share the upper half.                                        *)
Roots(a, S) ==
  \A s \in S : /\ DOMAIN a.tables[s] \subseteq {0, 1}
               /\ 1 \in DOMAIN a.tables[s]
               /\ a.tables[s][1] = Entry(BootPdpt)

(* Only the boot loader made huge pages.                                   *)
HugePages(a) ==
  \A t \in Tables(a) : \A i \in DOMAIN a.tables[t] :
    a.tables[t][i].huge =>
      \/ t = BootPdpt /\ i = 0 /\ a.tables[t][i].to = 0
      \/ t = DirectPd /\ a.tables[t][i].to = i * PT

(* A table below a root is reached from a table of the same home.          *)
Leads(a, lev, home, p, i, t) ==
  /\ i \in DOMAIN a.tables[p]
  /\ ~a.tables[p][i].huge
  /\ a.tables[p][i].to = t
  /\ lev[p] = lev[t] + 1
  /\ home[p] = home[t]
  /\ lev[p] = 4 => i = 0

HasParent(a, lev, home, t) == \E p \in Tables(a) : \E i : Leads(a, lev, home, p, i, t)

Anchored(a, lev, home, t) == lev[t] = 4 \/ t = BootPdpt \/ HasParent(a, lev, home, t)

(* With a direct map of 1 GB pages DirectPd is not used.                   *)
Parents(a, lev, home) ==
  \A t \in Tables(a) :
    (t = DirectPd => \E i \in DOMAIN a.tables[t] : ~a.tables[t][i].huge) => Anchored(a, lev, home, t)

Tree(a, S, lev, home) ==
  /\ Levels(a, S, lev, home)
  /\ Edges(a, lev, home)
  /\ Roots(a, S)
  /\ HugePages(a)
  /\ Parents(a, lev, home)

Good(a, S) == Memory(a) /\ a.current \in S /\ \E lev, home : Tree(a, S, lev, home)
-----------------------------------------------------------------------------
(* The operations on the memory.                                           *)

LEMMA BootFrames ==
  /\ BootPml4 \notin {0, BootPdpt, DirectPd, KernelPd, KernelPt}
  /\ BootPdpt \notin {0, DirectPd, KernelPd, KernelPt}
  /\ DirectPd \notin {0, KernelPd, KernelPt}
  /\ KernelPd \notin {0, KernelPt} /\ KernelPt # 0
  /\ \A f \in Boot : f \in Int /\ f < 0
  BY DEF BootPml4, BootPdpt, DirectPd, KernelPd, KernelPt, Boot

\* The boot loader's tables are not frames of the page allocator, and 0 is neither.
LEMMA FramesApart ==
  ASSUME NEW a, Memory(a)
  PROVE  a.ram \cap Boot = {} /\ 0 \notin a.ram /\ 0 \notin Tables(a) /\ Owned(a, "table") \subseteq a.ram
<1>1. \A f \in a.ram : f \in Int /\ f > 0
  BY MemoryAssumption DEF Memory
<1> QED BY <1>1, BootFrames DEF Memory, Tables, Owned

\* The tables are what a tree depends on.
LEMMA SameTree ==
  ASSUME NEW a, NEW c, NEW S, NEW lev, NEW home, Tree(a, S, lev, home),
         Tables(c) = Tables(a), \A t \in Tables(a) : c.tables[t] = a.tables[t]
  PROVE  Tree(c, S, lev, home)
<1>1. S \subseteq Tables(a) /\ Boot \subseteq Tables(a)
  BY DEF Tree, Levels, Tables
<1>2. Levels(c, S, lev, home) /\ Roots(c, S)
  BY <1>1 DEF Tree, Levels, Roots
<1>3. Edges(c, lev, home) /\ HugePages(c)
  BY DEF Tree, Edges, HugePages
<1>4. \A t : HasParent(a, lev, home, t) => HasParent(c, lev, home, t)
  BY DEF HasParent, Leads
<1>5. Parents(c, lev, home)
  BY <1>1, <1>4, BootFrames DEF Tree, Parents, Anchored
<1> QED BY <1>2, <1>3, <1>5 DEF Tree

\* Allocation of frames that are free.
LEMMA Takes ==
  ASSUME NEW a, Memory(a), NEW f, NEW n, Run(f, n) \subseteq a.ram \ DOMAIN a.owner, NEW who,
         NEW c, c = Taken(a, f, n, who)
  PROVE  /\ Memory(c) /\ c.ram = a.ram /\ c.current = a.current /\ c.area = a.area
         /\ c.tables = a.tables
         /\ DOMAIN c.owner = DOMAIN a.owner \cup Run(f, n)
         /\ \A g \in Run(f, n) : c.owner[g] = who
         /\ \A g \in DOMAIN a.owner : c.owner[g] = a.owner[g]
  BY DEF Memory, Taken

\* Release of frames.
LEMMA Frees ==
  ASSUME NEW a, Memory(a), NEW F, NEW c, c = Freed(a, F), F \cap Boot = {}
  PROVE  /\ Memory(c) /\ c.ram = a.ram /\ c.current = a.current /\ c.area = a.area
         /\ DOMAIN c.owner = DOMAIN a.owner \ F
         /\ \A g \in DOMAIN c.owner : c.owner[g] = a.owner[g]
         /\ \A t \in DOMAIN a.tables : t \notin F => c.tables[t] = a.tables[t]
  BY DEF Memory, Freed

\* An entry is written or removed.
LEMMA Sets ==
  ASSUME NEW a, Memory(a), NEW t, NEW i, NEW e, NEW c, c = Set(a, t, i, e)
  PROVE  /\ Memory(c) /\ c.ram = a.ram /\ c.current = a.current /\ c.area = a.area
         /\ c.owner = a.owner
         /\ \A u \in DOMAIN a.tables : u # t => c.tables[u] = a.tables[u]
         /\ t \in DOMAIN a.tables =>
              /\ DOMAIN c.tables[t] = DOMAIN a.tables[t] \cup {i}
              /\ c.tables[t][i] = e
              /\ \A j \in DOMAIN a.tables[t] : j # i => c.tables[t][j] = a.tables[t][j]
  BY DEF Memory, Set, Put

LEMMA Clears ==
  ASSUME NEW a, Memory(a), NEW t, NEW i, NEW c, c = Clear(a, t, i)
  PROVE  /\ Memory(c) /\ c.ram = a.ram /\ c.current = a.current /\ c.area = a.area
         /\ c.owner = a.owner
         /\ \A u \in DOMAIN a.tables : u # t => c.tables[u] = a.tables[u]
         /\ t \in DOMAIN a.tables =>
              /\ DOMAIN c.tables[t] = DOMAIN a.tables[t] \ {i}
              /\ \A j \in DOMAIN a.tables[t] : j # i => c.tables[t][j] = a.tables[t][j]
  BY DEF Memory, Clear, Drop
-----------------------------------------------------------------------------
(* What keeps the shape.                                                   *)

\* An entry of the last level, or of a frame that is no table.
LEMMA LeafKeeps ==
  ASSUME NEW a, Memory(a), NEW S, NEW lev, NEW home, Tree(a, S, lev, home),
         NEW t, t \in Tables(a) => lev[t] = 1, NEW i, NEW f, NEW c, c = Set(a, t, i, Entry(f))
  PROVE  Tree(c, S, lev, home)
<1>1. Tables(c) = Tables(a)
  BY Sets DEF Tables, Owned
<1>2. Tables(a) \subseteq DOMAIN a.tables
  BY DEF Memory, Tables, Owned
<1>3. \A u \in Tables(a) : lev[u] > 1 => c.tables[u] = a.tables[u]
  BY <1>2, Sets
<1>4. ASSUME NEW u \in Tables(a), NEW j \in DOMAIN c.tables[u], c.tables[u][j].huge
      PROVE  j \in DOMAIN a.tables[u] /\ c.tables[u][j] = a.tables[u][j]
  BY <1>2, <1>4, Sets DEF Entry
<1>5. Levels(c, S, lev, home)
  BY <1>1 DEF Tree, Levels
<1>6. Edges(c, lev, home)
  BY <1>1, <1>3 DEF Tree, Edges
<1>7. Roots(c, S)
  BY <1>3 DEF Tree, Roots, Levels
<1>8. HugePages(c)
  BY <1>1, <1>4 DEF Tree, HugePages
<1>9. ASSUME NEW u \in Tables(a), HasParent(a, lev, home, u) PROVE HasParent(c, lev, home, u)
  <2>1. lev[u] \in 1..4
    BY DEF Tree, Levels
  <2>2. PICK p, j : p \in Tables(a) /\ Leads(a, lev, home, p, j, u)
    BY <1>9 DEF HasParent
  <2>3. c.tables[p] = a.tables[p]
    BY <1>3, <2>1, <2>2 DEF Leads
  <2> QED BY <1>1, <2>2, <2>3 DEF HasParent, Leads
<1>10. Parents(c, lev, home)
  <2>1. lev[DirectPd] = 2 /\ DirectPd \in Tables(a)
    BY DEF Tree, Levels, Tables, Boot
  <2> QED BY <1>1, <1>3, <1>9, <2>1 DEF Tree, Parents, Anchored
<1> QED BY <1>5, <1>6, <1>7, <1>8, <1>10 DEF Tree

\* An entry that leads to no table is removed.
LEMMA ClearKeeps ==
  ASSUME NEW a, Memory(a), NEW S, NEW lev, NEW home, Tree(a, S, lev, home),
         NEW t \in Tables(a), NEW i \in DOMAIN a.tables[t], lev[t] = 1 \/ a.tables[t][i].huge,
         NEW c, c = Clear(a, t, i)
  PROVE  Tree(c, S, lev, home)
<1>1. Tables(c) = Tables(a)
  BY Clears DEF Tables, Owned
<1>2. Tables(a) \subseteq DOMAIN a.tables
  BY DEF Memory, Tables, Owned
<1>3. \A u \in Tables(a) : \A j \in DOMAIN c.tables[u] :
        j \in DOMAIN a.tables[u] /\ c.tables[u][j] = a.tables[u][j]
  BY <1>2, Clears
<1>4. \A u \in Tables(a) : \A j \in DOMAIN a.tables[u] :
        lev[u] > 1 /\ ~a.tables[u][j].huge => j \in DOMAIN c.tables[u] /\ c.tables[u][j] = a.tables[u][j]
  BY <1>2, Clears
<1>5. Levels(c, S, lev, home)
  BY <1>1 DEF Tree, Levels
<1>6. Edges(c, lev, home) /\ HugePages(c)
  BY <1>1, <1>3 DEF Tree, Edges, HugePages
<1>7. Roots(c, S)
  <2>1. \A s \in S : s \in Tables(a) /\ lev[s] = 4
    BY DEF Tree, Levels
  <2>2. ~Entry(BootPdpt).huge
    BY DEF Entry
  <2>3. \A s \in S : 1 \in DOMAIN a.tables[s] /\ ~a.tables[s][1].huge
    BY <2>2 DEF Tree, Roots
  <2> QED BY <1>3, <1>4, <2>1, <2>3 DEF Tree, Roots
<1>9. ASSUME NEW u \in Tables(a), HasParent(a, lev, home, u) PROVE HasParent(c, lev, home, u)
  <2>1. lev[u] \in 1..4
    BY DEF Tree, Levels
  <2>2. PICK p, j : p \in Tables(a) /\ Leads(a, lev, home, p, j, u)
    BY <1>9 DEF HasParent
  <2>3. j \in DOMAIN c.tables[p] /\ c.tables[p][j] = a.tables[p][j]
    BY <1>4, <2>1, <2>2 DEF Leads
  <2> QED BY <1>1, <2>2, <2>3 DEF HasParent, Leads
<1>10. Parents(c, lev, home)
  BY <1>1, <1>3, <1>9 DEF Tree, Parents, Anchored
<1> QED BY <1>5, <1>6, <1>7, <1>10 DEF Tree
-----------------------------------------------------------------------------
(* Induction.                                                              *)

\* What holds of 0 and of the successor of each number it holds of holds of all.
LEMMA Induction ==
  ASSUME NEW S, 0 \in S, \A n \in Nat : n \in S => n + 1 \in S
  PROVE  \A n \in Nat : n \in S
<1> DEFINE R == {p \in Nat \X Nat : p[1] < p[2]}
           T == Nat \ S
<1>1. IsWellFoundedOn(R, Nat)
  BY NatLessThanWellFounded DEF OpToRel
<1>2. SUFFICES ASSUME T # {} PROVE FALSE
  OBVIOUS
<1> HIDE DEF R
<1>3. PICK n \in T : \A y \in T : ~(<<y, n>> \in R)
  BY <1>1, <1>2, WFMin
<1>4. n # 0 /\ n - 1 \in Nat /\ n - 1 \in T
  BY <1>3
<1>5. <<n - 1, n>> \in R
  BY <1>3, <1>4 DEF R
<1> QED BY <1>3, <1>4, <1>5

LEMMA LeastExists ==
  ASSUME NEW S, S \subseteq Nat, S # {}
  PROVE  \E n \in S : \A k \in S : n <= k
<1> DEFINE R == {p \in Nat \X Nat : p[1] < p[2]}
<1>1. IsWellFoundedOn(R, Nat)
  BY NatLessThanWellFounded DEF OpToRel
<1> HIDE DEF R
<1>2. PICK n \in S : \A y \in S : ~(<<y, n>> \in R)
  BY <1>1, WFMin
<1>3. ASSUME NEW y \in S PROVE n <= y
  <2>1. y \in Nat /\ n \in Nat /\ (y < n => <<y, n>> \in R)
    BY DEF R
  <2> QED BY <2>1, <1>2
<1> QED BY <1>2, <1>3

(* Frames are only added, and as tables.                                   *)
Grown(a, c) ==
  /\ c.ram = a.ram /\ c.current = a.current /\ c.area = a.area
  /\ DOMAIN a.owner \subseteq DOMAIN c.owner
  /\ \A f \in DOMAIN a.owner : c.owner[f] = a.owner[f]
  /\ \A f \in DOMAIN c.owner : f \notin DOMAIN a.owner => c.owner[f] = "table"

LEMMA GrownItself == \A a : Grown(a, a)
  BY DEF Grown

LEMMA GrownTransitive ==
  ASSUME NEW a, NEW b, NEW c, Grown(a, b), Grown(b, c) PROVE Grown(a, c)
  BY DEF Grown

\* The first frame of a run of free ones.
LEMMA Allocates ==
  ASSUME NEW a, Memory(a), NEW n, NEW f, f = pmm_alloc_pages(a, n), f # 0
  PROVE  f \in a.ram /\ f \in Nat /\ n > 0 /\ Run(f, n) \subseteq a.ram \ DOMAIN a.owner
<1>1. Runs(a, n) # {}
  BY DEF pmm_alloc_pages
<1>2. f = CHOOSE g \in Runs(a, n) : \A h \in Runs(a, n) : g <= h
  BY <1>1 DEF pmm_alloc_pages
<1>3. Runs(a, n) \subseteq Nat
  BY MemoryAssumption DEF Runs, Memory
<1>4. \E g \in Runs(a, n) : \A h \in Runs(a, n) : g <= h
  BY <1>1, <1>3, LeastExists
<1>5. f \in Runs(a, n)
  BY <1>2, <1>4
<1> QED BY <1>3, <1>5 DEF Runs, Run

(* In b a frame f was added to a, and in c the entry i of t, which was not *)
(* present, leads to it.                                                   *)
Extends(a, S, lev, home, f, b, t, i, c, lv, hm) ==
  /\ Memory(a) /\ Tree(a, S, lev, home) /\ Memory(b) /\ Grown(a, b)
  /\ f \in a.ram \ DOMAIN a.owner
  /\ DOMAIN b.owner = DOMAIN a.owner \cup {f} /\ b.tables[f] = <<>>
  /\ \A u \in Tables(a) : b.tables[u] = a.tables[u]
  /\ t \in Tables(a) /\ lev[t] > 1 /\ Anchored(a, lev, home, t)
  /\ i \notin DOMAIN a.tables[t] /\ (lev[t] = 4 => i \in {0, 1})
  /\ c = Set(b, t, i, Entry(f))
  /\ lv = [u \in Tables(a) \cup {f} |-> IF u = f THEN lev[t] - 1 ELSE lev[u]]
  /\ hm = [u \in Tables(a) \cup {f} |-> IF u = f THEN home[t] ELSE home[u]]

\* A new table in the place of an entry that was not present.
LEMMA ExtendKeeps ==
  ASSUME NEW a, NEW S, NEW lev, NEW home, NEW f, NEW b, NEW t, NEW i, NEW c, NEW lv, NEW hm,
         Extends(a, S, lev, home, f, b, t, i, c, lv, hm)
  PROVE  /\ Tree(c, S, lv, hm) /\ Memory(c) /\ Grown(a, c)
         /\ f \in Tables(c) /\ lv[f] = lev[t] - 1 /\ Anchored(c, lv, hm, f)
         /\ f \notin Boot
<1> USE DEF Extends
<1>0. f \notin Tables(a) /\ f \notin Boot
  BY FramesApart DEF Tables, Owned
<1>1. Tables(c) = Tables(a) \cup {f} /\ Memory(c) /\ Grown(a, c)
  <2>1. c.owner = b.owner /\ Memory(c) /\ c.ram = b.ram /\ c.current = b.current /\ c.area = b.area
    BY Sets
  <2>2. b.owner[f] = "table"
    BY DEF Grown
  <2>3. Tables(c) = Tables(a) \cup {f}
    BY <2>1, <2>2 DEF Tables, Owned, Grown
  <2> QED BY <2>1, <2>3 DEF Grown
<1>2. Tables(a) \cup {f} \subseteq DOMAIN b.tables
  BY <1>1 DEF Memory, Tables, Owned, Grown
<1>3. /\ \A u \in Tables(a) : u # t => c.tables[u] = a.tables[u]
      /\ DOMAIN c.tables[t] = DOMAIN a.tables[t] \cup {i} /\ c.tables[t][i] = Entry(f)
      /\ \A j \in DOMAIN a.tables[t] : c.tables[t][j] = a.tables[t][j]
      /\ c.tables[f] = <<>>
  BY <1>0, <1>2, Sets
<1>4. DOMAIN c.tables[f] = {}
  BY <1>3
<1>5. \A u \in Tables(a) : \A j \in DOMAIN c.tables[u] :
        \/ j \in DOMAIN a.tables[u] /\ c.tables[u][j] = a.tables[u][j]
        \/ u = t /\ j = i /\ c.tables[u][j] = Entry(f)
  BY <1>3
<1>6. \A u \in Tables(a) : \A j \in DOMAIN a.tables[u] :
        j \in DOMAIN c.tables[u] /\ c.tables[u][j] = a.tables[u][j]
  BY <1>3
<1>7. /\ \A u \in Tables(a) : lv[u] = lev[u] /\ hm[u] = home[u]
      /\ lv[f] = lev[t] - 1 /\ hm[f] = home[t]
  BY <1>0
<1>8. ~Entry(f).huge /\ Entry(f).to = f
  BY DEF Entry
<1>9. S \subseteq Tables(a) /\ Boot \subseteq Tables(a) /\ lev[t] \in 1..4 /\ home[t] \in S \cup {BootPdpt}
  BY DEF Tree, Levels, Tables
<1>10. lev[t] = 4 => i = 0
  BY <1>9 DEF Tree, Roots, Levels
<1>11. Levels(c, S, lv, hm)
  <2>1. \A u \in Tables(c) : lv[u] \in 1..4 /\ hm[u] \in S \cup {BootPdpt}
    BY <1>1, <1>7, <1>9 DEF Tree, Levels
  <2>2. \A u \in Tables(c) : lv[u] = 4 <=> u \in S
    BY <1>0, <1>1, <1>7, <1>9 DEF Tree, Levels
  <2>3. \A u \in S : hm[u] = u
    BY <1>7, <1>9 DEF Tree, Levels
  <2>4. \A u \in Boot : lv[u] = lev[u] /\ hm[u] = home[u]
    BY <1>7, <1>9
  <2>5. /\ lv[BootPdpt] = 3 /\ lv[DirectPd] = 2 /\ lv[KernelPd] = 2 /\ lv[KernelPt] = 1
    BY <2>4 DEF Tree, Levels, Boot
  <2>6. \A u \in Boot \ {BootPml4} : hm[u] = BootPdpt
    BY <2>4 DEF Tree, Levels
  <2>7. S \subseteq Tables(c) /\ BootPml4 \in S
    BY <1>1, <1>9 DEF Tree, Levels
  <2> QED BY <2>1, <2>2, <2>3, <2>5, <2>6, <2>7 DEF Levels
<1>12. Edges(c, lv, hm)
  <2> SUFFICES ASSUME NEW p \in Tables(c), NEW j \in DOMAIN c.tables[p], lv[p] > 1, ~c.tables[p][j].huge
               PROVE  /\ c.tables[p][j].to \in Tables(c)
                      /\ lv[c.tables[p][j].to] = lv[p] - 1
                      /\ (lv[p] = 4 /\ j = 1) \/ hm[c.tables[p][j].to] = hm[p]
                      /\ c.tables[p][j].to = DirectPd => p = BootPdpt /\ j = 0
    BY DEF Edges
  <2>1. p \in Tables(a)
    BY <1>1, <1>4
  <2>2. CASE j \in DOMAIN a.tables[p] /\ c.tables[p][j] = a.tables[p][j]
    BY <1>1, <1>7, <2>1, <2>2 DEF Tree, Edges
  <2>3. CASE p = t /\ j = i /\ c.tables[p][j] = Entry(f)
    <3>1. f # DirectPd
      BY <1>0 DEF Boot
    <3> QED BY <1>1, <1>7, <1>8, <2>3, <3>1
  <2> QED BY <1>5, <2>1, <2>2, <2>3
<1>13. Roots(c, S)
  <2> SUFFICES ASSUME NEW s \in S
               PROVE  /\ DOMAIN c.tables[s] \subseteq {0, 1} /\ 1 \in DOMAIN c.tables[s]
                      /\ c.tables[s][1] = Entry(BootPdpt)
    BY DEF Roots
  <2>1. s \in Tables(a) /\ lev[s] = 4 /\ DOMAIN a.tables[s] \subseteq {0, 1}
        /\ 1 \in DOMAIN a.tables[s] /\ a.tables[s][1] = Entry(BootPdpt)
    BY <1>9 DEF Tree, Roots, Levels
  <2> QED BY <1>3, <1>6, <1>10, <2>1
<1>14. HugePages(c)
  BY <1>1, <1>4, <1>5, <1>8 DEF Tree, HugePages
<1>15. \A p, u \in Tables(a) : \A j : Leads(a, lev, home, p, j, u) => Leads(c, lv, hm, p, j, u)
  BY <1>6, <1>7 DEF Leads
<1>16. Leads(c, lv, hm, t, i, f)
  BY <1>3, <1>7, <1>8, <1>9, <1>10 DEF Leads
<1>17. Anchored(c, lv, hm, f)
  BY <1>1, <1>16 DEF Anchored, HasParent
<1>18. ASSUME NEW u \in Tables(a), Anchored(a, lev, home, u) PROVE Anchored(c, lv, hm, u)
  <2>1. CASE HasParent(a, lev, home, u)
    <3>1. PICK p, j : p \in Tables(a) /\ Leads(a, lev, home, p, j, u)
      BY <2>1 DEF HasParent
    <3> QED BY <1>1, <1>15, <3>1 DEF Anchored, HasParent
  <2> QED BY <1>7, <1>18, <2>1 DEF Anchored
<1>19. Parents(c, lv, hm)
  <2> SUFFICES ASSUME NEW u \in Tables(c),
                      u = DirectPd => \E j \in DOMAIN c.tables[u] : ~c.tables[u][j].huge
               PROVE  Anchored(c, lv, hm, u)
    BY DEF Parents
  <2>1. CASE u = f
    BY <1>17, <2>1
  <2>2. CASE u = t
    BY <1>18, <2>2
  <2>3. CASE u # f /\ u # t
    <3>1. u \in Tables(a) /\ c.tables[u] = a.tables[u]
      BY <1>1, <1>3, <2>3
    <3>2. Anchored(a, lev, home, u)
      BY <3>1 DEF Tree, Parents
    <3> QED BY <1>18, <3>1, <3>2
  <2> QED BY <2>1, <2>2, <2>3
<1> QED BY <1>0, <1>1, <1>7, <1>11, <1>12, <1>13, <1>14, <1>17, <1>19 DEF Tree
-----------------------------------------------------------------------------
(* Indices.                                                                *)

LEMMA Quotient ==
  ASSUME NEW b \in Nat \ {0}, NEW q \in Nat, NEW r \in 0..b - 1
  PROVE  (q * b + r) \div b = q /\ (q * b + r) % b = r
<1>1. q * b + r \in Nat /\ q * b \in Nat
  OBVIOUS
<1> QED BY <1>1

LEMMA Divides ==
  ASSUME NEW a \in Nat, NEW b \in Nat \ {0}
  PROVE  /\ a \div b \in Nat
         /\ (a \div b) * b <= a
         /\ a < (a \div b) * b + b
         /\ a % b = 0 => a = (a \div b) * b
<1>1. a \div b \in Nat
  OBVIOUS
<1>2. (a \div b) * b <= a
  OBVIOUS
<1>3. a < (a \div b) * b + b
  OBVIOUS
<1>4. a % b = 0 => a = (a \div b) * b
  OBVIOUS
<1> QED BY <1>1, <1>2, <1>3, <1>4

LEMMA Bounds ==
  /\ Half \in Nat /\ VirtSize = 2 * Half /\ Half = 4 * (PD * PT) /\ PD * PT \in Nat \ {0}
  /\ PT \in Nat \ {0} /\ PD \in Nat \ {0} /\ AreaFrame \in Nat \ {0}
  /\ AreaBase = Half + AreaFrame /\ 2 * AreaFrame <= PD * PT /\ AreaFrame % PT = 0
  BY MemoryAssumption DEF Half, VirtSize, PDPT, AreaBase, hhdm_offset, AreaSize

\* Which half an address is in.
LEMMA TopIndex ==
  ASSUME NEW v \in 0..VirtSize - 1
  PROVE  IF v < Half THEN Index(4, v) = 0 ELSE Index(4, v) = 1
<1>1. Half \in Nat \ {0} /\ VirtSize = 2 * Half
  BY Bounds
<1>2. Index(4, v) = v \div Half
  BY DEF Index
<1>3. CASE v < Half
  <2>1. (0 * Half + v) \div Half = 0 /\ 0 * Half + v = v
    BY <1>1, <1>3, Quotient
  <2> QED BY <1>2, <1>3, <2>1
<1>4. CASE ~(v < Half)
  <2>1. (1 * Half + (v - Half)) \div Half = 1 /\ 1 * Half + (v - Half) = v
    BY <1>1, <1>4, Quotient
  <2> QED BY <1>2, <1>4, <2>1
<1> QED BY <1>3, <1>4

\* Where a mapping goes through the direct map, the huge page it meets is not of
\* memory that the page allocator manages.
LEMMA DirectIndex ==
  ASSUME NEW v, Safe(v), Index(4, v) = 1, Index(3, v) = 0
  PROVE  Index(2, v) * PT \in Nat /\ Index(2, v) * PT >= AreaFrame
<1>1. /\ v \in Nat /\ v >= Half + AreaFrame /\ v < 2 * Half
  BY TopIndex, Bounds DEF Safe
<1> DEFINE u == v - Half
           N == PD * PT
           q == u \div N
           w == u \div PT
           k == AreaFrame \div PT
<1>2. u \in Nat /\ u >= AreaFrame /\ u < 4 * N /\ v = 4 * N + u /\ N \in Nat \ {0}
  BY <1>1, Bounds
<1>3. q = 0
  <2>1. q \in Nat /\ q * N <= u /\ u < q * N + N
    BY <1>2, Divides
  <2>2. q < 4
    <3> HIDE DEF q, u, N
    <3>1. q >= 4 => q * N >= 4 * N
      BY <1>2, <2>1
    <3> QED BY <1>2, <2>1, <3>1
  <2>3. v \div N = 4 + q
    <3> HIDE DEF q, N
    <3>1. u - q * N \in 0..N - 1 /\ (4 + q) * N + (u - q * N) = v
      BY <1>2, <2>1
    <3>2. ((4 + q) * N + (u - q * N)) \div N = 4 + q
      BY <1>2, <2>1, <3>1, Quotient
    <3> QED BY <3>1, <3>2
  <2>4. (4 + q) % 4 = q
    <3> HIDE DEF q
    <3> QED BY <2>1, <2>2
  <2> QED BY <2>3, <2>4 DEF Index, PDPT
<1>4. u < N
  <2>1. u < q * N + N
    BY <1>2, Divides
  <2> QED BY <1>2, <1>3, <2>1
<1>5. w \in Nat /\ w * PT <= u /\ u < w * PT + PT
  BY <1>2, Bounds, Divides
<1>6. w < PD
  <2> HIDE DEF w
  <2>1. w >= PD => w * PT >= PD * PT
    BY <1>5, Bounds
  <2> QED BY <1>2, <1>4, <1>5, <2>1, Bounds
<1>7. v \div PT = 4 * PD + w
  <2> HIDE DEF w
  <2>1. u - w * PT \in 0..PT - 1 /\ (4 * PD + w) * PT + (u - w * PT) = v
    BY <1>2, <1>5, Bounds
  <2>2. ((4 * PD + w) * PT + (u - w * PT)) \div PT = 4 * PD + w
    <3>1. \A c \in Nat : \A r \in 0..PT - 1 : (c * PT + r) \div PT = c
      BY Bounds, Quotient
    <3>2. 4 * PD + w \in Nat
      BY <1>5, Bounds
    <3> QED BY <2>1, <3>1, <3>2
  <2> QED BY <2>1, <2>2
<1>8. Index(2, v) = w
  <2> HIDE DEF w
  <2>0. w \in 0..PD - 1 /\ PD \in Nat \ {0}
    BY <1>5, <1>6, Bounds
  <2>1. (4 * PD + w) % PD = w
    <3> HIDE DEF w
    <3>1. \A r \in 0..PD - 1 : (4 * PD + r) % PD = r
      BY <2>0, Quotient
    <3> QED BY <2>0, <3>1
  <2> QED BY <1>7, <2>1 DEF Index
<1>9. k \in Nat /\ AreaFrame = k * PT
  BY Bounds, Divides
<1>10. w >= k
  <2> HIDE DEF w, k, u
  <2>1. w + 1 <= k => (w + 1) * PT <= k * PT
    BY <1>5, <1>9, Bounds
  <2>2. (w + 1) * PT = w * PT + PT
    BY <1>5, Bounds
  <2> QED BY <1>2, <1>5, <1>9, <2>1, <2>2, Bounds
<1>11. w * PT >= k * PT
  <2> HIDE DEF w, k
  <2> QED BY <1>5, <1>9, <1>10, Bounds
<1> QED BY <1>5, <1>8, <1>9, <1>11, Bounds
-----------------------------------------------------------------------------
(* Mapping and unmapping a page.                                           *)

\* A new page table is a frame that was free.
LEMMA CreatesTable ==
  ASSUME NEW a, Memory(a), NEW r, r = create_page_table(a), r.frame # 0
  PROVE  /\ r.frame \in a.ram \ DOMAIN a.owner
         /\ Memory(r.m) /\ Grown(a, r.m)
         /\ DOMAIN r.m.owner = DOMAIN a.owner \cup {r.frame}
         /\ r.m.tables[r.frame] = <<>>
         /\ \A u \in DOMAIN a.tables : u # r.frame => r.m.tables[u] = a.tables[u]
<1> DEFINE f == pmm_alloc_pages(a, 1)
           b == Taken(a, f, 1, "table")
<1>1. r.frame = f /\ f # 0 /\ r.m = [b EXCEPT !.tables[f] = <<>>]
  BY DEF create_page_table
<1> HIDE DEF f
<1>2. f \in a.ram /\ f \in Nat /\ Run(f, 1) \subseteq a.ram \ DOMAIN a.owner
  BY <1>1, Allocates DEF f
<1>3. Run(f, 1) = {f}
  BY <1>2 DEF Run
<1>4. /\ Memory(b) /\ b.ram = a.ram /\ b.current = a.current /\ b.area = a.area
      /\ b.tables = a.tables
      /\ DOMAIN b.owner = DOMAIN a.owner \cup {f}
      /\ b.owner[f] = "table"
      /\ \A g \in DOMAIN a.owner : b.owner[g] = a.owner[g]
  BY <1>2, <1>3, Takes
<1> HIDE DEF b
<1>5. /\ Memory(r.m) /\ r.m.ram = b.ram /\ r.m.current = b.current /\ r.m.area = b.area
      /\ r.m.owner = b.owner
      /\ \A u \in DOMAIN b.tables : u # f => r.m.tables[u] = b.tables[u]
      /\ f \in DOMAIN b.tables => r.m.tables[f] = <<>>
  BY <1>1, <1>4 DEF Memory
<1>6. f \in DOMAIN b.tables
  BY <1>2, <1>4 DEF Memory
<1> QED BY <1>1, <1>2, <1>3, <1>4, <1>5, <1>6 DEF Grown

(* A mapping of v that began with memory a has come down to a level: it    *)
(* has failed, or is at a table of that level, or at the frame of a huge   *)
(* page that the page allocator does not manage.                           *)
Reached(a, S, v, s, level) ==
  /\ Memory(s.m) /\ Grown(a, s.m)
  /\ \E lev, home :
       /\ Tree(s.m, S, lev, home)
       /\ \/ s.at = 0
          \/ level = 1 /\ s.at \notin Tables(s.m)
          \/ /\ s.at \in Tables(s.m) /\ lev[s.at] = level /\ Anchored(s.m, lev, home, s.at)
             /\ s.at = BootPdpt => Index(4, v) = 1
             /\ s.at = DirectPd => Index(4, v) = 1 /\ Index(3, v) = 0

\* One level further.
LEMMA MapDownReaches ==
  ASSUME NEW a, NEW S, NEW v, Safe(v), NEW s, NEW level \in {2, 3, 4},
         s = [m |-> s.m, at |-> s.at],
         Reached(a, S, v, s, level), NEW d, d = MapDown(v, s, level)
  PROVE  Reached(a, S, v, d, level - 1) /\ d = [m |-> d.m, at |-> d.at]
<1> DEFINE i == Index(level, v)
           r == create_page_table(s.m)
<1>0. level \in Nat /\ level - 1 \in Nat /\ level > 1 /\ (level - 1 = 1 => level = 2)
  OBVIOUS
<1>1. CASE s.at = 0
  <2>1. d = s
    BY <1>1 DEF MapDown
  <2> QED BY <1>1, <2>1 DEF Reached
<1>2. CASE s.at # 0
  <2>1. PICK lev, home :
          /\ Tree(s.m, S, lev, home)
          /\ s.at \in Tables(s.m) /\ lev[s.at] = level /\ Anchored(s.m, lev, home, s.at)
          /\ s.at = BootPdpt => Index(4, v) = 1
          /\ s.at = DirectPd => Index(4, v) = 1 /\ Index(3, v) = 0
    BY <1>0, <1>2 DEF Reached
  <2>2. Memory(s.m) /\ Grown(a, s.m)
    BY DEF Reached
  <2>3. CASE i \in DOMAIN s.m.tables[s.at]
    <3> DEFINE e == s.m.tables[s.at][i]
    <3>1. d.m = s.m /\ d.at = e.to /\ d = [m |-> d.m, at |-> d.at]
      BY <1>2, <2>3 DEF MapDown
    <3>2. CASE e.huge
      <4>1. \/ s.at = BootPdpt /\ e.to = 0
            \/ s.at = DirectPd /\ e.to = i * PT
        BY <2>1, <2>3, <3>2 DEF Tree, HugePages
      <4>2. CASE s.at = BootPdpt /\ e.to = 0
        BY <2>1, <2>2, <3>1, <4>2 DEF Reached
      <4>3. CASE s.at = DirectPd /\ e.to = i * PT
        <5>1. level = 2
          BY <2>1, <4>3 DEF Tree, Levels
        <5>2. i * PT \in Nat /\ i * PT >= AreaFrame
          BY <2>1, <4>3, <5>1, DirectIndex
        <5>3. i * PT \notin Tables(s.m)
          <6>1. \A f \in Tables(s.m) : f \in Int /\ f < AreaFrame
            BY <2>2, BootFrames, MemoryAssumption DEF Tables, Owned, Memory
          <6> HIDE DEF i
          <6> QED BY <5>2, <6>1, MemoryAssumption
        <5> QED BY <2>1, <2>2, <3>1, <4>3, <5>1, <5>3 DEF Reached
      <4> QED BY <4>1, <4>2, <4>3
    <3>3. CASE ~e.huge
      <4>1. /\ e.to \in Tables(s.m) /\ lev[e.to] = level - 1
            /\ (level = 4 /\ i = 1) \/ home[e.to] = home[s.at]
            /\ e.to = DirectPd => s.at = BootPdpt /\ i = 0
        BY <1>0, <2>1, <2>3, <3>3 DEF Tree, Edges
      <4>2. e.to = BootPdpt => level = 4 /\ i = 1
        <5> SUFFICES ASSUME e.to = BootPdpt, ~(level = 4 /\ i = 1) PROVE FALSE
          OBVIOUS
        <5>1. lev[BootPdpt] = 3 /\ home[BootPdpt] = BootPdpt
          BY <2>1, BootFrames DEF Tree, Levels, Boot
        <5>2. level = 4 /\ home[s.at] = s.at /\ s.at = BootPdpt
          BY <2>1, <4>1, <5>1 DEF Tree, Levels
        <5> QED BY <2>1, <5>1, <5>2
      <4>3. e.to = BootPdpt => Index(4, v) = 1
        BY <4>2
      <4>4. e.to = DirectPd => Index(4, v) = 1 /\ Index(3, v) = 0
        <5>1. lev[BootPdpt] = 3
          BY <2>1 DEF Tree, Levels
        <5> QED BY <2>1, <4>1, <5>1
      <4>5. Anchored(s.m, lev, home, e.to)
        <5>1. CASE e.to = BootPdpt
          BY <5>1 DEF Anchored
        <5>2. CASE e.to # BootPdpt
          <6>1. (level = 4 /\ i = 1) => e.to = BootPdpt
            BY <2>1, <2>3 DEF Tree, Roots, Levels, Entry
          <6>2. home[e.to] = home[s.at]
            BY <4>1, <5>2, <6>1
          <6>3. level = 4 => i = 0
            BY <2>1, <2>3, <5>2, <6>1 DEF Tree, Roots, Levels
          <6>4. lev[s.at] = lev[e.to] + 1
            BY <1>0, <2>1, <4>1
          <6>5. Leads(s.m, lev, home, s.at, i, e.to)
            BY <2>1, <2>3, <3>3, <6>2, <6>3, <6>4 DEF Leads
          <6> QED BY <2>1, <6>5 DEF Anchored, HasParent
        <5> QED BY <5>1, <5>2
      <4> QED BY <2>1, <2>2, <3>1, <4>1, <4>3, <4>4, <4>5 DEF Reached
    <3> QED BY <3>2, <3>3
  <2>4. CASE i \notin DOMAIN s.m.tables[s.at]
    <3>1. CASE r.frame = 0
      <4>1. d.m = s.m /\ d.at = 0 /\ d = [m |-> d.m, at |-> d.at]
        BY <1>2, <2>4, <3>1 DEF MapDown
      <4> QED BY <2>1, <2>2, <4>1 DEF Reached
    <3>2. CASE r.frame # 0
      <4>1. d = [m |-> Set(r.m, s.at, i, Entry(r.frame)), at |-> r.frame]
        BY <1>2, <2>4, <3>2 DEF MapDown
      <4> HIDE DEF r
      <4>2. /\ r.frame \in s.m.ram \ DOMAIN s.m.owner
            /\ Memory(r.m) /\ Grown(s.m, r.m)
            /\ DOMAIN r.m.owner = DOMAIN s.m.owner \cup {r.frame}
            /\ r.m.tables[r.frame] = <<>>
            /\ \A u \in DOMAIN s.m.tables : u # r.frame => r.m.tables[u] = s.m.tables[u]
        BY <2>2, <3>2, CreatesTable DEF r
      <4>3. \A u \in Tables(s.m) : r.m.tables[u] = s.m.tables[u]
        <5>1. r.frame \notin Tables(s.m)
          BY <2>2, <4>2, FramesApart DEF Tables, Owned
        <5>2. Tables(s.m) \subseteq DOMAIN s.m.tables
          BY <2>2 DEF Memory, Tables, Owned
        <5> QED BY <4>2, <5>1, <5>2
      <4>4. level = 4 => i \in {0, 1}
        BY TopIndex DEF Safe
      <4> DEFINE lv == [u \in Tables(s.m) \cup {r.frame} |-> IF u = r.frame THEN lev[s.at] - 1 ELSE lev[u]]
                 hm == [u \in Tables(s.m) \cup {r.frame} |-> IF u = r.frame THEN home[s.at] ELSE home[u]]
      <4> HIDE DEF i
      <4>5. /\ Tree(d.m, S, lv, hm) /\ Memory(d.m) /\ Grown(s.m, d.m)
            /\ r.frame \in Tables(d.m) /\ lv[r.frame] = lev[s.at] - 1
            /\ Anchored(d.m, lv, hm, r.frame) /\ r.frame \notin Boot
        <5>1. d.m = Set(r.m, s.at, i, Entry(r.frame)) /\ lev[s.at] > 1
          BY <1>0, <2>1, <4>1
        <5>2. lev[s.at] = 4 => i \in {0, 1}
          BY <2>1, <4>4
        <5>3. /\ lv = [u \in Tables(s.m) \cup {r.frame} |-> IF u = r.frame THEN lev[s.at] - 1 ELSE lev[u]]
              /\ hm = [u \in Tables(s.m) \cup {r.frame} |-> IF u = r.frame THEN home[s.at] ELSE home[u]]
          OBVIOUS
        <5> HIDE DEF lv, hm
        <5>4. i \notin DOMAIN s.m.tables[s.at]
          BY <2>4
        <5>5. Extends(s.m, S, lev, home, r.frame, r.m, s.at, i, d.m, lv, hm)
          BY <2>1, <2>2, <4>2, <4>3, <5>1, <5>2, <5>3, <5>4 DEF Extends
        <5> QED BY <5>5, ExtendKeeps
      <4>6. Grown(a, d.m)
        BY <2>2, <4>5, GrownTransitive
      <4>7. d.at = r.frame /\ d = [m |-> d.m, at |-> d.at]
        BY <4>1
      <4>8. r.frame # BootPdpt /\ r.frame # DirectPd
        BY <4>5 DEF Boot
      <4> HIDE DEF lv, hm
      <4> QED BY <2>1, <4>5, <4>6, <4>7, <4>8 DEF Reached
    <3> QED BY <3>1, <3>2
  <2> QED BY <2>3, <2>4
<1> QED BY <1>1, <1>2

\* map_page_internal and vmm_map_page, whether they succeed or not.
LEMMA MapPageKeeps ==
  ASSUME NEW a, NEW S, Good(a, S), NEW v, Safe(v), NEW f, NEW r, r = vmm_map_page(a, v, f)
  PROVE  r.ok \in BOOLEAN /\ Good(r.m, S) /\ Grown(a, r.m)
<1>1. CASE v = 0 \/ f = 0
  <2>1. r.ok = FALSE /\ r.m = a
    BY <1>1 DEF vmm_map_page
  <2> QED BY <2>1, GrownItself
<1>2. CASE ~(v = 0 \/ f = 0)
  <2> DEFINE s4 == [m |-> a, at |-> a.current]
             s3 == MapDown(v, s4, 4)
             s2 == MapDown(v, s3, 3)
             s1 == MapDown(v, s2, 2)
  <2>1. Reached(a, S, v, s4, 4)
    <3>1. PICK lev, home : Tree(a, S, lev, home)
      BY DEF Good
    <3>2. a.current \in Tables(a) /\ lev[a.current] = 4 /\ a.current \notin {BootPdpt, DirectPd}
      BY <3>1 DEF Good, Tree, Levels
    <3>3. s4.m = a /\ s4.at = a.current
      OBVIOUS
    <3> HIDE DEF s4
    <3> QED BY <3>1, <3>2, <3>3, GrownItself DEF Reached, Anchored, Good
  <2>2. s4 = [m |-> s4.m, at |-> s4.at]
    OBVIOUS
  <2> HIDE DEF s4
  <2>3. Reached(a, S, v, s3, 3) /\ s3 = [m |-> s3.m, at |-> s3.at]
    BY <2>1, <2>2, MapDownReaches
  <2> HIDE DEF s3
  <2>4. Reached(a, S, v, s2, 2) /\ s2 = [m |-> s2.m, at |-> s2.at]
    BY <2>3, MapDownReaches
  <2> HIDE DEF s2
  <2>5. Reached(a, S, v, s1, 1) /\ s1 = [m |-> s1.m, at |-> s1.at]
    BY <2>4, MapDownReaches
  <2>6. r = IF s1.at = 0 THEN [ok |-> FALSE, m |-> s1.m]
            ELSE [ok |-> TRUE, m |-> Set(s1.m, s1.at, Index(1, v), Entry(f))]
    BY <1>2 DEF vmm_map_page, map_page_internal, s1, s2, s3, s4
  <2> HIDE DEF s1
  <2>7. PICK lev, home :
          /\ Tree(s1.m, S, lev, home)
          /\ s1.at = 0 \/ s1.at \notin Tables(s1.m) \/ lev[s1.at] = 1
    BY <2>5 DEF Reached
  <2>8. Memory(s1.m) /\ Grown(a, s1.m)
    BY <2>5 DEF Reached
  <2>9. CASE s1.at = 0
    <3>1. r.ok = FALSE /\ r.m = s1.m
      BY <2>6, <2>9
    <3> QED BY <2>7, <2>8, <3>1 DEF Good, Grown
  <2>10. CASE s1.at # 0
    <3>1. r.ok = TRUE /\ r.m = Set(s1.m, s1.at, Index(1, v), Entry(f))
      BY <2>6, <2>10
    <3>2. Tree(r.m, S, lev, home)
      BY <2>7, <2>8, <2>10, <3>1, LeafKeeps
    <3>3. /\ Memory(r.m) /\ r.m.ram = s1.m.ram /\ r.m.current = s1.m.current
          /\ r.m.area = s1.m.area /\ r.m.owner = s1.m.owner
      BY <2>8, <3>1, Sets
    <3> QED BY <2>8, <3>1, <3>2, <3>3 DEF Good, Grown
  <2> QED BY <2>9, <2>10
<1> QED BY <1>1, <1>2

(* A walk has come down to a level: it is at a table of the level, or has  *)
(* stopped, at nothing or at a huge page.                                  *)
Walked(a, lev, s, level) ==
  \/ s.stop /\ s.table = 0
  \/ /\ s.stop /\ s.table \in Tables(a)
     /\ s.index \in DOMAIN a.tables[s.table] /\ a.tables[s.table][s.index].huge
  \/ ~s.stop /\ level > 0 /\ s.to \in Tables(a) /\ lev[s.to] = level
  \/ /\ ~s.stop /\ level = 0 /\ s.table \in Tables(a) /\ lev[s.table] = 1
     /\ s.index \in DOMAIN a.tables[s.table]

LEMMA DownWalks ==
  ASSUME NEW a, NEW S, NEW lev, NEW home, Tree(a, S, lev, home), NEW v, NEW level \in 1..4,
         NEW s, Walked(a, lev, s, level), NEW d, d = Down(a, v, s, level)
  PROVE  Walked(a, lev, d, level - 1)
<1> DEFINE i == Index(level, v)
<1>0. level > 0 /\ level \in Int
  OBVIOUS
<1>1. CASE s.stop
  BY <1>0, <1>1 DEF Walked, Down
<1>2. CASE ~s.stop
  <2>1. s.to \in Tables(a) /\ lev[s.to] = level
    BY <1>0, <1>2 DEF Walked
  <2>2. CASE s.to = 0 \/ i \notin DOMAIN a.tables[s.to]
    <3>1. d = [table |-> 0, index |-> 0, to |-> 0, stop |-> TRUE]
      BY <1>2, <2>2 DEF Down
    <3> QED BY <3>1 DEF Walked
  <2>3. CASE ~(s.to = 0 \/ i \notin DOMAIN a.tables[s.to])
    <3> DEFINE e == a.tables[s.to][i]
    <3>1. d = [table |-> s.to, index |-> i, to |-> e.to, stop |-> e.huge]
      BY <1>2, <2>3 DEF Down
    <3>2. d.table = s.to /\ d.index = i /\ d.to = e.to /\ d.stop = e.huge
      BY <3>1
    <3>3. CASE e.huge
      BY <2>1, <2>3, <3>2, <3>3 DEF Walked
    <3>4. CASE ~e.huge
      <4>1. level > 1 => e.to \in Tables(a) /\ lev[e.to] = level - 1
        BY <2>1, <2>3, <3>4 DEF Tree, Edges
      <4> HIDE DEF e, i
      <4>2. ~d.stop
        BY <3>2, <3>4
      <4>3. CASE level > 1
        BY <1>0, <3>2, <4>1, <4>2, <4>3 DEF Walked
      <4>4. CASE level = 1
        BY <2>1, <2>3, <3>2, <4>2, <4>4 DEF Walked
      <4> QED BY <1>0, <4>3, <4>4
    <3> QED BY <3>3, <3>4
  <2> QED BY <2>2, <2>3
<1> QED BY <1>1, <1>2

\* vmm_unmap_page.
LEMMA UnmapPageKeeps ==
  ASSUME NEW a, NEW S, Good(a, S), NEW v, NEW c, c = vmm_unmap_page(a, v)
  PROVE  Good(c, S) /\ Grown(a, c)
<1>1. PICK lev, home : Tree(a, S, lev, home)
  BY DEF Good
<1> DEFINE w4 == [table |-> 0, index |-> 0, to |-> a.current, stop |-> FALSE]
           w3 == Down(a, v, w4, 4)
           w2 == Down(a, v, w3, 3)
           w1 == Down(a, v, w2, 2)
           w == Down(a, v, w1, 1)
<1>2. Walked(a, lev, w4, 4)
  BY <1>1 DEF Walked, Good, Tree, Levels
<1> HIDE DEF w4
<1>3. Walked(a, lev, w3, 3)
  BY <1>1, <1>2, DownWalks
<1> HIDE DEF w3
<1>4. Walked(a, lev, w2, 2)
  BY <1>1, <1>3, DownWalks
<1> HIDE DEF w2
<1>5. Walked(a, lev, w1, 1)
  BY <1>1, <1>4, DownWalks
<1> HIDE DEF w1
<1>6. Walked(a, lev, w, 0)
  BY <1>1, <1>5, DownWalks
<1>7. c = IF v = 0 \/ w.table = 0 THEN a ELSE Clear(a, w.table, w.index)
  BY DEF vmm_unmap_page, Walk, w, w1, w2, w3, w4
<1> HIDE DEF w
<1>8. CASE v = 0 \/ w.table = 0
  BY <1>7, <1>8, GrownItself
<1>9. CASE ~(v = 0 \/ w.table = 0)
  <2>1. c = Clear(a, w.table, w.index)
    BY <1>7, <1>9
  <2>2. /\ w.table \in Tables(a) /\ w.index \in DOMAIN a.tables[w.table]
        /\ lev[w.table] = 1 \/ a.tables[w.table][w.index].huge
    BY <1>6, <1>9 DEF Walked
  <2>3. Memory(a)
    BY DEF Good
  <2>4. Tree(c, S, lev, home)
    BY <1>1, <2>1, <2>2, <2>3, ClearKeeps
  <2>5. /\ Memory(c) /\ c.ram = a.ram /\ c.current = a.current /\ c.area = a.area
        /\ c.owner = a.owner
    BY <2>1, <2>3, Clears
  <2> QED BY <2>4, <2>5 DEF Good, Grown
<1> QED BY <1>8, <1>9
-----------------------------------------------------------------------------
(* Frames taken and given back.                                            *)

LEMMA TakeKeeps ==
  ASSUME NEW a, NEW S, Good(a, S), NEW f, NEW n, Run(f, n) \subseteq a.ram \ DOMAIN a.owner,
         NEW who, who # "table", NEW c, c = Taken(a, f, n, who)
  PROVE  /\ Good(c, S) /\ c.ram = a.ram /\ c.current = a.current /\ c.area = a.area
         /\ DOMAIN c.owner = DOMAIN a.owner \cup Run(f, n)
         /\ \A g \in Run(f, n) : c.owner[g] = who
         /\ \A g \in DOMAIN a.owner : c.owner[g] = a.owner[g]
<1>1. PICK lev, home : Tree(a, S, lev, home)
  BY DEF Good
<1>2. Memory(a)
  BY DEF Good
<1>3. /\ Memory(c) /\ c.ram = a.ram /\ c.current = a.current /\ c.area = a.area
      /\ c.tables = a.tables
      /\ DOMAIN c.owner = DOMAIN a.owner \cup Run(f, n)
      /\ \A g \in Run(f, n) : c.owner[g] = who
      /\ \A g \in DOMAIN a.owner : c.owner[g] = a.owner[g]
  BY <1>2, Takes
<1>4. Tables(c) = Tables(a)
  BY <1>3 DEF Tables, Owned
<1>5. Tree(c, S, lev, home)
  BY <1>1, <1>3, <1>4, SameTree
<1> QED BY <1>3, <1>5 DEF Good

LEMMA ReleaseKeeps ==
  ASSUME NEW a, NEW S, Good(a, S), NEW F, F \subseteq a.ram, F \cap Owned(a, "table") = {},
         NEW c, c = Freed(a, F)
  PROVE  /\ Good(c, S) /\ c.ram = a.ram /\ c.current = a.current /\ c.area = a.area
         /\ DOMAIN c.owner = DOMAIN a.owner \ F
         /\ \A g \in DOMAIN c.owner : c.owner[g] = a.owner[g]
<1>1. PICK lev, home : Tree(a, S, lev, home)
  BY DEF Good
<1>2. Memory(a) /\ F \cap Boot = {}
  BY FramesApart DEF Good
<1>3. /\ Memory(c) /\ c.ram = a.ram /\ c.current = a.current /\ c.area = a.area
      /\ DOMAIN c.owner = DOMAIN a.owner \ F
      /\ \A g \in DOMAIN c.owner : c.owner[g] = a.owner[g]
      /\ \A t \in DOMAIN a.tables : t \notin F => c.tables[t] = a.tables[t]
  BY <1>2, Frees
<1>4. Tables(c) = Tables(a)
  BY <1>3 DEF Tables, Owned
<1>5. \A t \in Tables(a) : c.tables[t] = a.tables[t]
  BY <1>2, <1>3 DEF Tables, Owned, Memory
<1>6. Tree(c, S, lev, home)
  BY <1>1, <1>4, <1>5, SameTree
<1> QED BY <1>3, <1>6 DEF Good

(* Only frames allocated for who, and new tables, make the difference.     *)
Only(a, c, who) ==
  /\ c.ram = a.ram /\ c.current = a.current
  /\ \A f \in DOMAIN a.owner : a.owner[f] # who => f \in DOMAIN c.owner /\ c.owner[f] = a.owner[f]
  /\ \A f \in DOMAIN c.owner :
       c.owner[f] \notin {who, "table"} => f \in DOMAIN a.owner /\ a.owner[f] = c.owner[f]

LEMMA GrownIsOnly == \A a, c, who : Grown(a, c) => Only(a, c, who)
  BY DEF Grown, Only

LEMMA OnlyTransitive ==
  ASSUME NEW a, NEW b, NEW c, NEW who, who # "table", Only(a, b, who), Only(b, c, who)
  PROVE  Only(a, c, who)
  BY DEF Only
-----------------------------------------------------------------------------
(* Mapping and unmapping several pages.                                    *)

\* The loop of vmm_unmap_pages is well defined: g is its state after each round.
LEMMA UnmapUnrolls ==
  ASSUME NEW a, NEW v, NEW n \in Nat
  PROVE  \E g : /\ g[0] = a
                /\ \A k \in 1..n : g[k] = vmm_unmap_page(g[k - 1], (v + k - 1) % VirtSize)
                /\ vmm_unmap_pages(a, v, n) = g[n]
<1> DEFINE base == a
           Loop(g, j) == g = [k \in 0..j |-> IF k = 0 THEN base ELSE vmm_unmap_page(g[k - 1], (v + k - 1) % VirtSize)]
           T == {j \in Nat : \E g : Loop(g, j)}
<1>1. 0 \in T
  <2>1. Loop([k \in 0..0 |-> base], 0)
    OBVIOUS
  <2> QED BY <2>1
<1>2. ASSUME NEW j \in Nat, j \in T PROVE j + 1 \in T
  <2>1. PICK g : Loop(g, j)
    BY <1>2
  <2> DEFINE e == vmm_unmap_page(g[j], (v + (j + 1) - 1) % VirtSize)
             h == [k \in 0..(j + 1) |-> IF k = j + 1 THEN e ELSE g[k]]
  <2>2. \A k \in 0..j : g[k] = IF k = 0 THEN base ELSE vmm_unmap_page(g[k - 1], (v + k - 1) % VirtSize)
    <3> HIDE DEF base
    <3> QED BY <2>1
  <2> HIDE DEF e, base
  <2>3. ASSUME NEW k \in 0..(j + 1)
        PROVE  h[k] = IF k = 0 THEN base ELSE vmm_unmap_page(h[k - 1], (v + k - 1) % VirtSize)
    <3>1. CASE k = j + 1
      <4>1. h[k] = e /\ k # 0 /\ h[k - 1] = g[j]
        BY <3>1
      <4> QED BY <3>1, <4>1 DEF e
    <3>2. CASE k = 0
      BY <2>2, <3>2
    <3>3. CASE k # 0 /\ k # j + 1
      <4>1. h[k] = g[k] /\ h[k - 1] = g[k - 1] /\ k \in 0..j
        BY <3>3
      <4> QED BY <2>2, <3>3, <4>1
    <3> QED BY <3>1, <3>2, <3>3
  <2>4. Loop(h, j + 1)
    <3>1. h = [k \in 0..(j + 1) |-> h[k]]
      OBVIOUS
    <3> HIDE DEF h
    <3> QED BY <2>3, <3>1
  <2>5. \E f : Loop(f, j + 1)
    <3> HIDE DEF Loop, h
    <3> QED BY <2>4
  <2> QED BY <2>5
<1>3. \A j \in Nat : j \in T
  <2> HIDE DEF T
  <2> QED BY <1>1, <1>2, Induction
<1>4. PICK z \in Nat : z = n
  OBVIOUS
<1> DEFINE u == CHOOSE g : Loop(g, n)
<1>5. Loop(u, n)
  <2>1. \E g : Loop(g, n)
    BY <1>3, <1>4
  <2> HIDE DEF Loop
  <2> QED BY <2>1
<1>6. vmm_unmap_pages(a, v, n) = u[n]
  BY DEF vmm_unmap_pages
<1> HIDE DEF u
<1>7. \A k \in 0..z : u[k] = IF k = 0 THEN base ELSE vmm_unmap_page(u[k - 1], (v + k - 1) % VirtSize)
  <2> HIDE DEF base
  <2> QED BY <1>4, <1>5
<1>8. u[0] = base /\ \A k \in 1..z : u[k] = vmm_unmap_page(u[k - 1], (v + k - 1) % VirtSize)
  <2> HIDE DEF base
  <2> QED BY <1>7
<1> QED BY <1>4, <1>6, <1>8

LEMMA UnmapPagesKeeps ==
  ASSUME NEW a, NEW S, Good(a, S), NEW v, NEW n \in Nat, NEW c, c = vmm_unmap_pages(a, v, n)
  PROVE  Good(c, S) /\ Grown(a, c)
<1>1. PICK g : /\ g[0] = a
               /\ \A k \in 1..n : g[k] = vmm_unmap_page(g[k - 1], (v + k - 1) % VirtSize)
               /\ c = g[n]
  BY UnmapUnrolls
<1> DEFINE T == {k \in Nat : k <= n => Good(g[k], S) /\ Grown(a, g[k])}
<1>2. 0 \in T
  BY <1>1, GrownItself
<1>3. ASSUME NEW k \in Nat, k \in T PROVE k + 1 \in T
  <2> SUFFICES ASSUME k + 1 <= n PROVE Good(g[k + 1], S) /\ Grown(a, g[k + 1])
    OBVIOUS
  <2>1. Good(g[k], S) /\ Grown(a, g[k])
    BY <1>3
  <2>2. \E w : g[k + 1] = vmm_unmap_page(g[k], w)
    <3>1. k + 1 \in 1..n /\ (k + 1) - 1 = k
      OBVIOUS
    <3> QED BY <1>1, <3>1
  <2>3. Good(g[k + 1], S) /\ Grown(g[k], g[k + 1])
    BY <2>1, <2>2, UnmapPageKeeps
  <2> QED BY <2>1, <2>3, GrownTransitive
<1>4. n \in T
  <2> HIDE DEF T
  <2> QED BY <1>2, <1>3, Induction
<1> QED BY <1>1, <1>4

\* The same for vmm_map_pages.
LEMMA MapUnrolls ==
  ASSUME NEW a, NEW v, NEW f, NEW n \in Nat
  PROVE  \E g : /\ g[0] = [ok |-> TRUE, m |-> a]
                /\ \A k \in 1..n : g[k] = MapNext(g[k - 1], v, f, k - 1)
                /\ vmm_map_pages(a, v, f, n) = g[n]
<1> DEFINE base == [ok |-> TRUE, m |-> a]
           Loop(g, j) == g = [k \in 0..j |-> IF k = 0 THEN base ELSE MapNext(g[k - 1], v, f, k - 1)]
           T == {j \in Nat : \E g : Loop(g, j)}
<1>1. 0 \in T
  <2>1. Loop([k \in 0..0 |-> base], 0)
    OBVIOUS
  <2> QED BY <2>1
<1>2. ASSUME NEW j \in Nat, j \in T PROVE j + 1 \in T
  <2>1. PICK g : Loop(g, j)
    BY <1>2
  <2> DEFINE e == MapNext(g[j], v, f, (j + 1) - 1)
             h == [k \in 0..(j + 1) |-> IF k = j + 1 THEN e ELSE g[k]]
  <2>2. \A k \in 0..j : g[k] = IF k = 0 THEN base ELSE MapNext(g[k - 1], v, f, k - 1)
    <3> HIDE DEF base
    <3> QED BY <2>1
  <2> HIDE DEF e, base
  <2>3. ASSUME NEW k \in 0..(j + 1)
        PROVE  h[k] = IF k = 0 THEN base ELSE MapNext(h[k - 1], v, f, k - 1)
    <3>1. CASE k = j + 1
      <4>1. h[k] = e /\ k # 0 /\ h[k - 1] = g[j]
        BY <3>1
      <4> QED BY <3>1, <4>1 DEF e
    <3>2. CASE k = 0
      BY <2>2, <3>2
    <3>3. CASE k # 0 /\ k # j + 1
      <4>1. h[k] = g[k] /\ h[k - 1] = g[k - 1] /\ k \in 0..j
        BY <3>3
      <4> QED BY <2>2, <3>3, <4>1
    <3> QED BY <3>1, <3>2, <3>3
  <2>4. Loop(h, j + 1)
    <3>1. h = [k \in 0..(j + 1) |-> h[k]]
      OBVIOUS
    <3> HIDE DEF h
    <3> QED BY <2>3, <3>1
  <2>5. \E w : Loop(w, j + 1)
    <3> HIDE DEF Loop, h
    <3> QED BY <2>4
  <2> QED BY <2>5
<1>3. \A j \in Nat : j \in T
  <2> HIDE DEF T
  <2> QED BY <1>1, <1>2, Induction
<1>4. PICK z \in Nat : z = n
  OBVIOUS
<1> DEFINE u == CHOOSE g : Loop(g, n)
<1>5. Loop(u, n)
  <2>1. \E g : Loop(g, n)
    BY <1>3, <1>4
  <2> HIDE DEF Loop
  <2> QED BY <2>1
<1>6. vmm_map_pages(a, v, f, n) = u[n]
  BY DEF vmm_map_pages
<1> HIDE DEF u
<1>7. \A k \in 0..z : u[k] = IF k = 0 THEN base ELSE MapNext(u[k - 1], v, f, k - 1)
  <2> HIDE DEF base
  <2> QED BY <1>4, <1>5
<1>8. u[0] = base /\ \A k \in 1..z : u[k] = MapNext(u[k - 1], v, f, k - 1)
  <2> HIDE DEF base
  <2> QED BY <1>7
<1> QED BY <1>4, <1>6, <1>8

(* What is left when a page was mapped, or the mapping failed.             *)
Mapping(a, S, r) == r.ok \in BOOLEAN /\ Good(r.m, S) /\ Grown(a, r.m)

\* One more page, or the clean-up after a failure.
LEMMA MapNextKeeps ==
  ASSUME NEW a, NEW S, NEW s, Mapping(a, S, s), NEW v, NEW f, NEW i \in Nat,
         Safe((v + i) % VirtSize), NEW r, r = MapNext(s, v, f, i)
  PROVE  Mapping(a, S, r)
<1> USE DEF Mapping
<1> DEFINE p == vmm_map_page(s.m, (v + i) % VirtSize, f + i)
<1>1. p.ok \in BOOLEAN /\ Good(p.m, S) /\ Grown(s.m, p.m)
  BY MapPageKeeps
<1>2. r = IF s.ok THEN (IF p.ok THEN p ELSE [ok |-> FALSE, m |-> Undo(p.m, v, i)]) ELSE s
  BY DEF MapNext
<1> HIDE DEF p
<1>3. CASE s.ok /\ ~p.ok
  <2>1. r.ok = FALSE /\ r.m = vmm_unmap_pages(p.m, v, i)
    BY <1>2, <1>3 DEF Undo
  <2>2. Good(r.m, S) /\ Grown(p.m, r.m)
    BY <1>1, <2>1, UnmapPagesKeeps
  <2>3. Grown(a, p.m)
    BY <1>1, GrownTransitive
  <2> QED BY <2>1, <2>2, <2>3, GrownTransitive
<1>4. CASE s.ok /\ p.ok
  <2>1. r = p
    BY <1>2, <1>4
  <2> QED BY <1>1, <2>1, GrownTransitive
<1>5. CASE ~s.ok
  <2>1. r = s
    BY <1>2, <1>5
  <2> QED BY <2>1
<1> QED BY <1>1, <1>3, <1>4, <1>5

LEMMA MapPagesKeeps ==
  ASSUME NEW a, NEW S, Good(a, S), NEW v, NEW f, NEW n \in Nat,
         \A i \in 0..n - 1 : Safe((v + i) % VirtSize), NEW r, r = vmm_map_pages(a, v, f, n)
  PROVE  Mapping(a, S, r)
<1>1. PICK g : /\ g[0] = [ok |-> TRUE, m |-> a]
               /\ \A k \in 1..n : g[k] = MapNext(g[k - 1], v, f, k - 1)
               /\ r = g[n]
  BY MapUnrolls
<1> DEFINE T == {k \in Nat : k <= n => Mapping(a, S, g[k])}
<1>2. 0 \in T
  <2>1. g[0].ok = TRUE /\ g[0].m = a
    BY <1>1
  <2> QED BY <2>1, GrownItself DEF Mapping
<1>3. ASSUME NEW k \in Nat, k \in T PROVE k + 1 \in T
  <2> SUFFICES ASSUME k + 1 <= n PROVE Mapping(a, S, g[k + 1])
    OBVIOUS
  <2>1. Mapping(a, S, g[k])
    BY <1>3
  <2>2. g[k + 1] = MapNext(g[k], v, f, k) /\ k \in 0..n - 1
    <3>1. k + 1 \in 1..n /\ (k + 1) - 1 = k
      OBVIOUS
    <3> QED BY <1>1, <3>1
  <2>3. Safe((v + k) % VirtSize)
    BY <2>2
  <2> QED BY <2>1, <2>2, <2>3, MapNextKeeps
<1>4. n \in T
  <2> HIDE DEF T
  <2> QED BY <1>2, <1>3, Induction
<1> QED BY <1>1, <1>4
-----------------------------------------------------------------------------
(* The kernel's allocations.                                               *)

\* What vmm_free takes for the frame of a page of the area is none that the page
\* allocator manages: nothing is freed.
LEMMA FreePageKeeps ==
  ASSUME NEW a, NEW S, Good(a, S), NEW v \in Nat, v >= AreaBase, NEW c, c = FreePage(a, v)
  PROVE  Good(c, S) /\ Grown(a, c)
<1> DEFINE b == vmm_unmap_page(a, v)
           f == v - hhdm_offset
<1>1. Good(b, S) /\ Grown(a, b)
  BY UnmapPageKeeps
<1>2. v >= hhdm_offset /\ f \in Nat /\ f >= AreaFrame
  BY Bounds DEF hhdm_offset
<1>3. c = Freed(b, Run(f, 1) \cap b.ram)
  BY <1>2 DEF FreePage, pmm_free_pages, virt_to_phys
<1> HIDE DEF b, f
<1> DEFINE F == Run(f, 1) \cap b.ram
<1>4. F \subseteq b.ram /\ F = {}
  BY <1>1, <1>2, Bounds DEF Run, Good, Memory
<1> HIDE DEF F
<1>5. /\ Good(c, S) /\ c.ram = b.ram /\ c.current = b.current /\ c.area = b.area
      /\ DOMAIN c.owner = DOMAIN b.owner \ F
      /\ \A g \in DOMAIN c.owner : c.owner[g] = b.owner[g]
  <2>1. c = Freed(b, F) /\ F \cap Owned(b, "table") = {} /\ F \subseteq b.ram
    BY <1>3, <1>4 DEF F
  <2>2. Good(b, S)
    BY <1>1
  <2> QED BY <2>1, <2>2, ReleaseKeeps
<1>6. Grown(b, c)
  BY <1>4, <1>5 DEF Grown
<1> QED BY <1>1, <1>5, <1>6, GrownTransitive

\* The loop of vmm_free.
LEMMA FreeUnrolls ==
  ASSUME NEW a, NEW v, NEW n \in Nat
  PROVE  \E g : /\ g[0] = a
                /\ \A k \in 1..n : g[k] = FreePage(g[k - 1], v + k - 1)
                /\ FreePages(a, v, n) = g[n]
<1> DEFINE base == a
           Loop(g, j) == g = [k \in 0..j |-> IF k = 0 THEN base ELSE FreePage(g[k - 1], v + k - 1)]
           T == {j \in Nat : \E g : Loop(g, j)}
<1>1. 0 \in T
  <2>1. Loop([k \in 0..0 |-> base], 0)
    OBVIOUS
  <2> QED BY <2>1
<1>2. ASSUME NEW j \in Nat, j \in T PROVE j + 1 \in T
  <2>1. PICK g : Loop(g, j)
    BY <1>2
  <2> DEFINE e == FreePage(g[j], v + (j + 1) - 1)
             h == [k \in 0..(j + 1) |-> IF k = j + 1 THEN e ELSE g[k]]
  <2>2. \A k \in 0..j : g[k] = IF k = 0 THEN base ELSE FreePage(g[k - 1], v + k - 1)
    <3> HIDE DEF base
    <3> QED BY <2>1
  <2> HIDE DEF e, base
  <2>3. ASSUME NEW k \in 0..(j + 1)
        PROVE  h[k] = IF k = 0 THEN base ELSE FreePage(h[k - 1], v + k - 1)
    <3>1. CASE k = j + 1
      <4>1. h[k] = e /\ k # 0 /\ h[k - 1] = g[j]
        BY <3>1
      <4> QED BY <3>1, <4>1 DEF e
    <3>2. CASE k = 0
      BY <2>2, <3>2
    <3>3. CASE k # 0 /\ k # j + 1
      <4>1. h[k] = g[k] /\ h[k - 1] = g[k - 1] /\ k \in 0..j
        BY <3>3
      <4> QED BY <2>2, <3>3, <4>1
    <3> QED BY <3>1, <3>2, <3>3
  <2>4. Loop(h, j + 1)
    <3>1. h = [k \in 0..(j + 1) |-> h[k]]
      OBVIOUS
    <3> HIDE DEF h
    <3> QED BY <2>3, <3>1
  <2>5. \E f : Loop(f, j + 1)
    <3> HIDE DEF Loop, h
    <3> QED BY <2>4
  <2> QED BY <2>5
<1>3. \A j \in Nat : j \in T
  <2> HIDE DEF T
  <2> QED BY <1>1, <1>2, Induction
<1>4. PICK z \in Nat : z = n
  OBVIOUS
<1> DEFINE u == CHOOSE g : Loop(g, n)
<1>5. Loop(u, n)
  <2>1. \E g : Loop(g, n)
    BY <1>3, <1>4
  <2> HIDE DEF Loop
  <2> QED BY <2>1
<1>6. FreePages(a, v, n) = u[n]
  BY DEF FreePages
<1> HIDE DEF u
<1>7. \A k \in 0..z : u[k] = IF k = 0 THEN base ELSE FreePage(u[k - 1], v + k - 1)
  <2> HIDE DEF base
  <2> QED BY <1>4, <1>5
<1>8. u[0] = base /\ \A k \in 1..z : u[k] = FreePage(u[k - 1], v + k - 1)
  <2> HIDE DEF base
  <2> QED BY <1>7
<1> QED BY <1>4, <1>6, <1>8

LEMMA FreePagesKeeps ==
  ASSUME NEW a, NEW S, Good(a, S), NEW n \in Nat, NEW c, c = FreePages(a, AreaBase, n)
  PROVE  Good(c, S) /\ Grown(a, c)
<1>1. PICK g : /\ g[0] = a
               /\ \A k \in 1..n : g[k] = FreePage(g[k - 1], AreaBase + k - 1)
               /\ c = g[n]
  BY FreeUnrolls
<1> DEFINE T == {k \in Nat : k <= n => Good(g[k], S) /\ Grown(a, g[k])}
<1>2. 0 \in T
  BY <1>1, GrownItself
<1>3. ASSUME NEW k \in Nat, k \in T PROVE k + 1 \in T
  <2> SUFFICES ASSUME k + 1 <= n PROVE Good(g[k + 1], S) /\ Grown(a, g[k + 1])
    OBVIOUS
  <2>1. Good(g[k], S) /\ Grown(a, g[k])
    BY <1>3
  <2>2. g[k + 1] = FreePage(g[k], AreaBase + (k + 1) - 1)
    <3>1. k + 1 \in 1..n /\ (k + 1) - 1 = k
      OBVIOUS
    <3> QED BY <1>1, <3>1
  <2>3. AreaBase + (k + 1) - 1 \in Nat /\ AreaBase + (k + 1) - 1 >= AreaBase
    BY Bounds
  <2>4. Good(g[k + 1], S) /\ Grown(g[k], g[k + 1])
    BY <2>1, <2>2, <2>3, FreePageKeeps
  <2> QED BY <2>1, <2>4, GrownTransitive
<1>4. n \in T
  <2> HIDE DEF T
  <2> QED BY <1>2, <1>3, Induction
<1> QED BY <1>1, <1>4

\* One page more, or the clean-up after a failure.
LEMMA AllocateNextKeeps ==
  ASSUME NEW a, NEW S, NEW s, s.ok \in BOOLEAN, Good(s.m, S), Only(a, s.m, "kernel"),
         NEW i \in Nat, i < AreaSize, NEW r, r = AllocateNext(s, i)
  PROVE  r.ok \in BOOLEAN /\ Good(r.m, S) /\ Only(a, r.m, "kernel")
<1> DEFINE f == pmm_alloc_pages(s.m, 1)
           b == Taken(s.m, f, 1, "kernel")
           p == vmm_map_page(b, AreaBase + i, f)
           c == pmm_free_pages(p.m, f, 1)
<1>0. Safe(AreaBase + i)
  BY Bounds DEF Safe, AreaSize
<1>1. r = IF ~s.ok THEN s
          ELSE IF f = 0 THEN [ok |-> FALSE, m |-> FreePages(s.m, AreaBase, i)]
          ELSE IF p.ok THEN p ELSE [ok |-> FALSE, m |-> FreePages(c, AreaBase, i)]
  BY DEF AllocateNext
<1>2. ASSUME NEW x, Good(x, S), Only(a, x, "kernel"), NEW y, y = FreePages(x, AreaBase, i)
      PROVE  Good(y, S) /\ Only(a, y, "kernel")
  <2>1. Good(y, S) /\ Grown(x, y)
    BY <1>2, FreePagesKeeps
  <2> QED BY <1>2, <2>1, GrownIsOnly, OnlyTransitive
<1>3. CASE ~s.ok
  <2>1. r = s
    BY <1>1, <1>3
  <2> QED BY <2>1
<1>4. CASE s.ok /\ f = 0
  <2>1. r.ok = FALSE /\ r.m = FreePages(s.m, AreaBase, i)
    BY <1>1, <1>4
  <2> QED BY <1>2, <2>1
<1>5. CASE s.ok /\ f # 0
  <2>0. r = IF p.ok THEN p ELSE [ok |-> FALSE, m |-> FreePages(c, AreaBase, i)]
    BY <1>1, <1>5
  <2>1. Memory(s.m)
    BY DEF Good
  <2>2. f \in Nat /\ Run(f, 1) \subseteq s.m.ram \ DOMAIN s.m.owner
    BY <1>5, <2>1, Allocates
  <2> HIDE DEF f
  <2>3. /\ Good(b, S) /\ b.ram = s.m.ram /\ b.current = s.m.current
        /\ DOMAIN b.owner = DOMAIN s.m.owner \cup Run(f, 1)
        /\ \A g \in Run(f, 1) : b.owner[g] = "kernel"
        /\ \A g \in DOMAIN s.m.owner : b.owner[g] = s.m.owner[g]
    BY <2>2, TakeKeeps
  <2> HIDE DEF b
  <2>4. Only(s.m, b, "kernel")
    BY <2>2, <2>3 DEF Only
  <2>5. p.ok \in BOOLEAN /\ Good(p.m, S) /\ Grown(b, p.m)
    BY <1>0, <2>3, MapPageKeeps
  <2> HIDE DEF p
  <2>6. Only(a, p.m, "kernel")
    BY <2>4, <2>5, GrownIsOnly, OnlyTransitive
  <2>7. CASE p.ok
    <3>1. r = p
      BY <2>0, <2>7
    <3> QED BY <2>5, <2>6, <3>1
  <2>8. CASE ~p.ok
    <3>1. r.ok = FALSE /\ r.m = FreePages(c, AreaBase, i)
      BY <2>0, <2>8
    <3> DEFINE F == Run(f, 1) \cap p.m.ram
    <3>2. c = Freed(p.m, F)
      BY DEF pmm_free_pages
    <3>3. \A g \in F : g \in DOMAIN p.m.owner /\ p.m.owner[g] = "kernel"
      BY <2>3, <2>5 DEF Grown
    <3>4. F \subseteq p.m.ram /\ F \cap Owned(p.m, "table") = {}
      BY <3>3 DEF Owned
    <3> HIDE DEF F, c
    <3>5. /\ Good(c, S) /\ c.ram = p.m.ram /\ c.current = p.m.current
          /\ DOMAIN c.owner = DOMAIN p.m.owner \ F
          /\ \A g \in DOMAIN c.owner : c.owner[g] = p.m.owner[g]
      BY <2>5, <3>2, <3>4, ReleaseKeeps
    <3>6. Only(p.m, c, "kernel")
      BY <3>3, <3>5 DEF Only
    <3>7. Only(a, c, "kernel")
      BY <2>6, <3>6, OnlyTransitive
    <3> QED BY <1>2, <3>1, <3>5, <3>7
  <2> QED BY <2>5, <2>7, <2>8
<1> QED BY <1>3, <1>4, <1>5

\* The loop of vmm_allocate.
LEMMA AllocateUnrolls ==
  ASSUME NEW a, NEW n \in Nat
  PROVE  \E g : /\ g[0] = [ok |-> TRUE, m |-> a]
                /\ \A k \in 1..n : g[k] = AllocateNext(g[k - 1], k - 1)
                /\ AllocatePages(a, n) = g[n]
<1> DEFINE base == [ok |-> TRUE, m |-> a]
           Loop(g, j) == g = [k \in 0..j |-> IF k = 0 THEN base ELSE AllocateNext(g[k - 1], k - 1)]
           T == {j \in Nat : \E g : Loop(g, j)}
<1>1. 0 \in T
  <2>1. Loop([k \in 0..0 |-> base], 0)
    OBVIOUS
  <2> QED BY <2>1
<1>2. ASSUME NEW j \in Nat, j \in T PROVE j + 1 \in T
  <2>1. PICK g : Loop(g, j)
    BY <1>2
  <2> DEFINE e == AllocateNext(g[j], (j + 1) - 1)
             h == [k \in 0..(j + 1) |-> IF k = j + 1 THEN e ELSE g[k]]
  <2>2. \A k \in 0..j : g[k] = IF k = 0 THEN base ELSE AllocateNext(g[k - 1], k - 1)
    <3> HIDE DEF base
    <3> QED BY <2>1
  <2> HIDE DEF e, base
  <2>3. ASSUME NEW k \in 0..(j + 1)
        PROVE  h[k] = IF k = 0 THEN base ELSE AllocateNext(h[k - 1], k - 1)
    <3>1. CASE k = j + 1
      <4>1. h[k] = e /\ k # 0 /\ h[k - 1] = g[j]
        BY <3>1
      <4> QED BY <3>1, <4>1 DEF e
    <3>2. CASE k = 0
      BY <2>2, <3>2
    <3>3. CASE k # 0 /\ k # j + 1
      <4>1. h[k] = g[k] /\ h[k - 1] = g[k - 1] /\ k \in 0..j
        BY <3>3
      <4> QED BY <2>2, <3>3, <4>1
    <3> QED BY <3>1, <3>2, <3>3
  <2>4. Loop(h, j + 1)
    <3>1. h = [k \in 0..(j + 1) |-> h[k]]
      OBVIOUS
    <3> HIDE DEF h
    <3> QED BY <2>3, <3>1
  <2>5. \E f : Loop(f, j + 1)
    <3> HIDE DEF Loop, h
    <3> QED BY <2>4
  <2> QED BY <2>5
<1>3. \A j \in Nat : j \in T
  <2> HIDE DEF T
  <2> QED BY <1>1, <1>2, Induction
<1>4. PICK z \in Nat : z = n
  OBVIOUS
<1> DEFINE u == CHOOSE g : Loop(g, n)
<1>5. Loop(u, n)
  <2>1. \E g : Loop(g, n)
    BY <1>3, <1>4
  <2> HIDE DEF Loop
  <2> QED BY <2>1
<1>6. AllocatePages(a, n) = u[n]
  BY DEF AllocatePages
<1> HIDE DEF u
<1>7. \A k \in 0..z : u[k] = IF k = 0 THEN base ELSE AllocateNext(u[k - 1], k - 1)
  <2> HIDE DEF base
  <2> QED BY <1>4, <1>5
<1>8. u[0] = base /\ \A k \in 1..z : u[k] = AllocateNext(u[k - 1], k - 1)
  <2> HIDE DEF base
  <2> QED BY <1>7
<1> QED BY <1>4, <1>6, <1>8

\* The flag of the area does not matter to the tables.
LEMMA AreaKeeps ==
  ASSUME NEW a, NEW S, Good(a, S), NEW x, NEW c, c = [a EXCEPT !.area = x]
  PROVE  Good(c, S) /\ \A who : Only(a, c, who)
<1>1. PICK lev, home : Tree(a, S, lev, home)
  BY DEF Good
<1>2. Memory(c) /\ c.ram = a.ram /\ c.owner = a.owner /\ c.tables = a.tables /\ c.current = a.current
  BY DEF Good, Memory
<1>3. Tables(c) = Tables(a)
  BY <1>2 DEF Tables, Owned
<1>4. Tree(c, S, lev, home)
  BY <1>1, <1>2, <1>3, SameTree
<1> QED BY <1>2, <1>4 DEF Good, Only

LEMMA AllocateKeeps ==
  ASSUME NEW a, NEW S, Good(a, S), NEW n \in Nat, NEW r, r = vmm_allocate(a, n)
  PROVE  r.ok \in BOOLEAN /\ Good(r.m, S) /\ Only(a, r.m, "kernel")
<1>1. CASE n = 0 \/ n > AreaSize \/ a.area
  <2>1. r.ok = FALSE /\ r.m = a
    BY <1>1 DEF vmm_allocate
  <2> QED BY <2>1, GrownItself, GrownIsOnly
<1>2. CASE ~(n = 0 \/ n > AreaSize \/ a.area)
  <2> DEFINE p == AllocatePages(a, n)
  <2>1. PICK g : /\ g[0] = [ok |-> TRUE, m |-> a]
                 /\ \A k \in 1..n : g[k] = AllocateNext(g[k - 1], k - 1)
                 /\ p = g[n]
    BY AllocateUnrolls
  <2> DEFINE P(s) == s.ok \in BOOLEAN /\ Good(s.m, S) /\ Only(a, s.m, "kernel")
             T == {k \in Nat : k <= n => P(g[k])}
  <2>2. 0 \in T
    <3>1. g[0].ok = TRUE /\ g[0].m = a
      BY <2>1
    <3> QED BY <3>1, GrownItself, GrownIsOnly
  <2>3. ASSUME NEW k \in Nat, k \in T PROVE k + 1 \in T
    <3> SUFFICES ASSUME k + 1 <= n PROVE P(g[k + 1])
      OBVIOUS
    <3>1. P(g[k])
      BY <2>3
    <3>2. g[k + 1] = AllocateNext(g[k], k) /\ k < AreaSize
      <4>1. k + 1 \in 1..n /\ (k + 1) - 1 = k
        OBVIOUS
      <4>2. AreaSize \in Nat
        BY Bounds DEF AreaSize
      <4> QED BY <1>2, <2>1, <4>1, <4>2
    <3> QED BY <3>1, <3>2, AllocateNextKeeps
  <2>4. P(p)
    <3>1. n \in T
      <4> HIDE DEF T
      <4> QED BY <2>2, <2>3, Induction
    <3> QED BY <2>1, <3>1
  <2>5. r = [ok |-> p.ok, m |-> [p.m EXCEPT !.area = p.ok]]
    BY <1>2 DEF vmm_allocate
  <2> HIDE DEF p
  <2>6. r.ok = p.ok /\ r.m = [p.m EXCEPT !.area = p.ok]
    BY <2>5
  <2>7. Good(r.m, S) /\ Only(p.m, r.m, "kernel")
    BY <2>4, <2>6, AreaKeeps
  <2> QED BY <2>4, <2>6, <2>7, OnlyTransitive
<1> QED BY <1>1, <1>2

\* vmm_free of what vmm_allocate returned.
LEMMA FreeKeeps ==
  ASSUME NEW a, NEW S, Good(a, S), NEW n \in Nat, NEW c, c = vmm_free(a, AreaBase, n)
  PROVE  Good(c, S) /\ Only(a, c, "kernel")
<1> DEFINE b == FreePages(a, AreaBase, n)
<1>1. Good(b, S) /\ Grown(a, b)
  BY FreePagesKeeps
<1>2. c = [b EXCEPT !.area = FALSE]
  BY DEF vmm_free
<1> HIDE DEF b
<1> QED BY <1>1, <1>2, AreaKeeps, GrownIsOnly, OnlyTransitive
-----------------------------------------------------------------------------
(* Address spaces.                                                         *)

LEMMA BelowIs ==
  ASSUME NEW a, NEW t, NEW x
  PROVE  x \in Below(a, t) <=> \E i \in DOMAIN a.tables[t] : ~a.tables[t][i].huge /\ a.tables[t][i].to = x
  BY DEF Below

\* The tables one level below those of a space's lower half.
LEMMA NextLevel ==
  ASSUME NEW a, NEW S, NEW lev, NEW home, Tree(a, S, lev, home), NEW s \in S, NEW l \in {1, 2},
         NEW U, U = {t \in Tables(a) : home[t] = s /\ lev[t] = l + 1}
  PROVE  UNION {Below(a, t) : t \in U} = {t \in Tables(a) : home[t] = s /\ lev[t] = l}
<1>0. s # BootPdpt /\ home[DirectPd] = BootPdpt /\ home[BootPdpt] = BootPdpt
  BY BootFrames DEF Tree, Levels, Boot, Tables
<1>1. ASSUME NEW t \in U, NEW x \in Below(a, t) PROVE x \in Tables(a) /\ home[x] = s /\ lev[x] = l
  <2>1. PICK i \in DOMAIN a.tables[t] : ~a.tables[t][i].huge /\ a.tables[t][i].to = x
    BY BelowIs
  <2>2. t \in Tables(a) /\ home[t] = s /\ lev[t] = l + 1 /\ lev[t] > 1 /\ lev[t] # 4
    OBVIOUS
  <2> QED BY <2>1, <2>2 DEF Tree, Edges
<1>2. ASSUME NEW x \in Tables(a), home[x] = s, lev[x] = l PROVE \E t \in U : x \in Below(a, t)
  <2>1. HasParent(a, lev, home, x)
    BY <1>0, <1>2 DEF Tree, Parents, Anchored
  <2>2. PICK p, i : p \in Tables(a) /\ Leads(a, lev, home, p, i, x)
    BY <2>1 DEF HasParent
  <2>3. p \in U /\ i \in DOMAIN a.tables[p] /\ ~a.tables[p][i].huge /\ a.tables[p][i].to = x
    BY <1>2, <2>2 DEF Leads
  <2> QED BY <2>3, BelowIs
<1> QED BY <1>1, <1>2

\* The lower half of a space and its PML4 are the tables whose home it is.
LEMMA LowerIsHome ==
  ASSUME NEW a, NEW S, NEW lev, NEW home, Tree(a, S, lev, home), NEW s \in S
  PROVE  DeletedTables(a, s) = {t \in Tables(a) : home[t] = s}
<1> DEFINE U(l) == {t \in Tables(a) : home[t] = s /\ lev[t] = l}
<1>0. /\ s # BootPdpt /\ s # DirectPd /\ home[BootPdpt] = BootPdpt /\ home[s] = s /\ lev[s] = 4
      /\ s \in Tables(a) /\ lev[DirectPd] = 2
  BY BootFrames DEF Tree, Levels, Boot, Tables
<1>1. LowerPdpts(a, s) = U(3)
  <2>1. ASSUME NEW x \in LowerPdpts(a, s) PROVE x \in U(3)
    <3>1. 0 \in DOMAIN a.tables[s] /\ x = a.tables[s][0].to
      BY DEF LowerPdpts
    <3>2. ~a.tables[s][0].huge
      BY <1>0, <3>1 DEF Tree, HugePages
    <3> QED BY <1>0, <3>1, <3>2 DEF Tree, Edges
  <2>2. ASSUME NEW x \in U(3) PROVE x \in LowerPdpts(a, s)
    <3>1. HasParent(a, lev, home, x)
      BY <1>0 DEF Tree, Parents, Anchored
    <3>2. PICK p, i : p \in Tables(a) /\ Leads(a, lev, home, p, i, x)
      BY <3>1 DEF HasParent
    <3>3. lev[p] = 4 /\ home[p] = s /\ i = 0 /\ 0 \in DOMAIN a.tables[p] /\ a.tables[p][0].to = x
      BY <3>2 DEF Leads
    <3>4. p = s
      BY <3>2, <3>3 DEF Tree, Levels
    <3> QED BY <3>3, <3>4 DEF LowerPdpts
  <2> QED BY <2>1, <2>2
<1>2. LowerPds(a, s) = U(2)
  <2>1. U(3) = {t \in Tables(a) : home[t] = s /\ lev[t] = 2 + 1}
    OBVIOUS
  <2> QED BY <1>1, <2>1, NextLevel DEF LowerPds
<1>3. LowerPts(a, s) = U(1)
  <2>1. U(2) = {t \in Tables(a) : home[t] = s /\ lev[t] = 1 + 1}
    OBVIOUS
  <2> QED BY <1>2, <2>1, NextLevel DEF LowerPts
<1>4. \A t \in Tables(a) : home[t] = s => lev[t] \in {1, 2, 3} \/ t = s
  BY <1>0 DEF Tree, Levels
<1> QED BY <1>0, <1>1, <1>2, <1>3, <1>4 DEF DeletedTables

(* Frames are only freed, and only tables.                                 *)
Shrunk(a, c) ==
  /\ c.ram = a.ram /\ c.current = a.current
  /\ \A f \in DOMAIN a.owner : a.owner[f] # "table" => f \in DOMAIN c.owner
  /\ DOMAIN c.owner \subseteq DOMAIN a.owner
  /\ \A f \in DOMAIN c.owner : c.owner[f] = a.owner[f]

\* vmm_delete_address_space frees the tables of the space, all of them and no others.
LEMMA DeleteKeeps ==
  ASSUME NEW a, NEW S, Good(a, S), NEW s \in S \ Boot, NEW c, c = vmm_delete_address_space(a, s)
  PROVE  /\ Good(c, IF s = a.current THEN S ELSE S \ {s})
         /\ Shrunk(a, c)
<1>1. PICK lev, home : Tree(a, S, lev, home)
  BY DEF Good
<1>2. Memory(a) /\ s \in Tables(a) /\ s # 0
  BY <1>1, FramesApart DEF Good, Tree, Levels
<1>3. CASE s = a.current
  <2>1. c = a
    BY <1>3 DEF vmm_delete_address_space
  <2> QED BY <1>3, <2>1 DEF Shrunk
<1>4. CASE s # a.current
  <2> DEFINE F == {t \in Tables(a) : home[t] = s}
             R == S \ {s}
  <2>1. F \cap Boot = {}
    <3>1. \A t \in Boot \ {BootPml4} : home[t] = BootPdpt
      BY <1>1 DEF Tree, Levels
    <3>2. BootPml4 \in S /\ home[BootPml4] = BootPml4
      BY <1>1 DEF Tree, Levels
    <3>3. s # BootPdpt /\ s # BootPml4
      BY DEF Boot
    <3> QED BY <3>1, <3>2, <3>3
  <2>2. F \subseteq Owned(a, "table") /\ F \subseteq a.ram
    BY <1>2, <2>1, FramesApart DEF Tables
  <2>3. c = Freed(a, F)
    <3>1. DeletedTables(a, s) = F
      BY <1>1, LowerIsHome
    <3> HIDE DEF F
    <3>2. F \cap a.ram = F
      BY <2>2
    <3> QED BY <1>2, <1>4, <3>1, <3>2 DEF vmm_delete_address_space
  <2>4. /\ Memory(c) /\ c.ram = a.ram /\ c.current = a.current /\ c.area = a.area
        /\ DOMAIN c.owner = DOMAIN a.owner \ F
        /\ \A g \in DOMAIN c.owner : c.owner[g] = a.owner[g]
        /\ \A t \in DOMAIN a.tables : t \notin F => c.tables[t] = a.tables[t]
    <3> HIDE DEF F
    <3> QED BY <1>2, <2>1, <2>3, Frees
  <2>5. Shrunk(a, c)
    BY <2>2, <2>4 DEF Shrunk, Owned
  <2>6. Tables(c) = Tables(a) \ F
    <3> HIDE DEF F
    <3> QED BY <2>1, <2>4 DEF Tables, Owned
  <2>7. \A t \in Tables(c) : t \in Tables(a) /\ home[t] # s /\ c.tables[t] = a.tables[t]
    <3>1. Tables(a) \subseteq DOMAIN a.tables
      BY <1>2 DEF Memory, Tables, Owned
    <3> QED BY <2>4, <2>6, <3>1
  <2>8. \A t \in Tables(a) : home[t] # s => t \in Tables(c)
    BY <2>6
  <2> HIDE DEF F
  <2>9. Levels(c, R, lev, home)
    <3>0. s # BootPdpt /\ s # BootPml4
      BY DEF Boot
    <3>1. R \subseteq Tables(c) /\ BootPml4 \in R
      BY <1>1, <2>8, <3>0 DEF Tree, Levels
    <3>2. \A t \in Tables(c) : lev[t] \in 1..4 /\ home[t] \in R \cup {BootPdpt}
      BY <1>1, <2>7 DEF Tree, Levels
    <3>3. \A t \in Tables(c) : lev[t] = 4 <=> t \in R
      BY <1>1, <2>7 DEF Tree, Levels
    <3> QED BY <1>1, <3>1, <3>2, <3>3 DEF Tree, Levels
  <2>10. Edges(c, lev, home)
    <3> SUFFICES ASSUME NEW p \in Tables(c), NEW j \in DOMAIN c.tables[p], lev[p] > 1, ~c.tables[p][j].huge
                 PROVE  /\ c.tables[p][j].to \in Tables(c)
                        /\ lev[c.tables[p][j].to] = lev[p] - 1
                        /\ (lev[p] = 4 /\ j = 1) \/ home[c.tables[p][j].to] = home[p]
                        /\ c.tables[p][j].to = DirectPd => p = BootPdpt /\ j = 0
      BY DEF Edges
    <3> DEFINE x == a.tables[p][j].to
    <3>1. c.tables[p] = a.tables[p] /\ p \in Tables(a) /\ home[p] # s
      BY <2>7
    <3>2. /\ x \in Tables(a) /\ lev[x] = lev[p] - 1
          /\ (lev[p] = 4 /\ j = 1) \/ home[x] = home[p]
          /\ x = DirectPd => p = BootPdpt /\ j = 0
      BY <1>1, <3>1 DEF Tree, Edges
    <3>3. lev[p] = 4 /\ j = 1 => home[x] # s
      <4> SUFFICES ASSUME lev[p] = 4, j = 1 PROVE home[x] # s
        OBVIOUS
      <4>1. x = BootPdpt
        BY <1>1, <3>1 DEF Tree, Roots, Levels, Entry
      <4>2. home[BootPdpt] = BootPdpt /\ s # BootPdpt
        BY <1>1, BootFrames DEF Tree, Levels, Boot
      <4> QED BY <4>1, <4>2
    <3>4. x \in Tables(c)
      BY <2>8, <3>1, <3>2, <3>3
    <3> QED BY <3>1, <3>2, <3>4
  <2>11. Roots(c, R)
    BY <1>1, <2>7, <2>9 DEF Tree, Roots, Levels
  <2>12. HugePages(c)
    BY <1>1, <2>7 DEF Tree, HugePages
  <2>13. Parents(c, lev, home)
    <3> SUFFICES ASSUME NEW t \in Tables(c),
                        t = DirectPd => \E i \in DOMAIN c.tables[t] : ~c.tables[t][i].huge
                 PROVE  Anchored(c, lev, home, t)
      BY DEF Parents
    <3>1. t \in Tables(a) /\ home[t] # s /\ c.tables[t] = a.tables[t]
      BY <2>7
    <3>2. Anchored(a, lev, home, t)
      BY <1>1, <3>1 DEF Tree, Parents
    <3>3. CASE HasParent(a, lev, home, t)
      <4>1. PICK p, i : p \in Tables(a) /\ Leads(a, lev, home, p, i, t)
        BY <3>3 DEF HasParent
      <4>2. p \in Tables(c) /\ c.tables[p] = a.tables[p]
        BY <2>7, <2>8, <3>1, <4>1 DEF Leads
      <4>3. Leads(c, lev, home, p, i, t)
        BY <4>1, <4>2 DEF Leads
      <4> QED BY <4>2, <4>3 DEF Anchored, HasParent
    <3> QED BY <3>2, <3>3 DEF Anchored
  <2>14. c.current \in R
    BY <1>4, <2>4 DEF Good
  <2>15. Good(c, R)
    BY <2>4, <2>9, <2>10, <2>11, <2>12, <2>13, <2>14 DEF Good, Tree
  <2> QED BY <1>4, <2>5, <2>15
<1> QED BY <1>3, <1>4

\* vmm_create_address_space: a root whose upper half is the shared one.
LEMMA CreateSpaceKeeps ==
  ASSUME NEW a, NEW S, Good(a, S), NEW r, r = vmm_create_address_space(a), r.frame # 0
  PROVE  /\ r.frame \in a.ram \ DOMAIN a.owner
         /\ Good(r.m, S \cup {r.frame}) /\ Grown(a, r.m)
         /\ r.frame \notin S \cup Boot
<1>1. PICK lev, home : Tree(a, S, lev, home)
  BY DEF Good
<1>2. Memory(a) /\ a.current \in S
  BY DEF Good
<1> DEFINE b == create_page_table(a)
           e == [i \in DOMAIN a.tables[a.current] \cap {1} |-> a.tables[a.current][i]]
<1>3. r = IF b.frame = 0 THEN b ELSE [b EXCEPT !.m.tables[b.frame] = e]
  BY DEF vmm_create_address_space
<1>4. DOMAIN e = {1} /\ e[1] = Entry(BootPdpt)
  BY <1>1, <1>2 DEF Tree, Roots
<1>5. b = [frame |-> b.frame, m |-> b.m]
  BY DEF create_page_table
<1> HIDE DEF e, b
<1>6. b.frame # 0 /\ r.frame = b.frame /\ r.m = [b.m EXCEPT !.tables[b.frame] = e]
  <2>1. b.frame # 0
    BY <1>3
  <2>2. r = [b EXCEPT !.m.tables[b.frame] = e]
    BY <1>3, <2>1
  <2> QED BY <1>5, <2>1, <2>2
<1> DEFINE f == b.frame
<1>7. /\ f \in a.ram \ DOMAIN a.owner
      /\ Memory(b.m) /\ Grown(a, b.m)
      /\ DOMAIN b.m.owner = DOMAIN a.owner \cup {f}
      /\ \A u \in DOMAIN a.tables : u # f => b.m.tables[u] = a.tables[u]
  BY <1>2, <1>6, CreatesTable DEF b
<1> HIDE DEF f
<1>8. f \notin Tables(a) /\ f \notin Boot /\ f \notin S
  <2>1. f \notin Tables(a) /\ f \notin Boot
    BY <1>2, <1>7, FramesApart DEF Tables, Owned
  <2> QED BY <1>1, <2>1 DEF Tree, Levels
<1>9. f \in DOMAIN b.m.tables
  BY <1>7 DEF Memory, Grown
<1>10. /\ Memory(r.m) /\ r.m.ram = a.ram /\ r.m.current = a.current /\ r.m.area = a.area
       /\ r.m.owner = b.m.owner
       /\ \A u \in DOMAIN b.m.tables : u # f => r.m.tables[u] = b.m.tables[u]
       /\ r.m.tables[f] = e
  BY <1>6, <1>7, <1>9 DEF Memory, Grown, f
<1>11. Grown(a, r.m)
  BY <1>7, <1>10 DEF Grown
<1>12. Tables(r.m) = Tables(a) \cup {f}
  <2>1. b.m.owner[f] = "table"
    BY <1>7 DEF Grown
  <2> QED BY <1>7, <1>10, <2>1 DEF Tables, Owned, Grown
<1>13. \A u \in Tables(a) : r.m.tables[u] = a.tables[u]
  <2>1. \A u \in Tables(a) : u \in DOMAIN a.tables /\ u \in DOMAIN b.m.tables /\ u # f
    BY <1>2, <1>7, <1>8 DEF Memory, Tables, Owned, Grown
  <2> QED BY <1>7, <1>10, <2>1
<1> DEFINE lv == [u \in Tables(a) \cup {f} |-> IF u = f THEN 4 ELSE lev[u]]
           hm == [u \in Tables(a) \cup {f} |-> IF u = f THEN f ELSE home[u]]
           c == r.m
           R == S \cup {f}
<1>14. /\ \A u \in Tables(a) : lv[u] = lev[u] /\ hm[u] = home[u]
       /\ lv[f] = 4 /\ hm[f] = f
  BY <1>8
<1>15. S \subseteq Tables(a) /\ Boot \subseteq Tables(a)
  BY <1>1 DEF Tree, Levels, Tables
<1> HIDE DEF lv, hm, c
<1>16. Levels(c, R, lv, hm)
  <2>1. \A u \in Tables(c) : lv[u] \in 1..4 /\ hm[u] \in R \cup {BootPdpt}
    BY <1>1, <1>12, <1>14 DEF Tree, Levels, c
  <2>2. \A u \in Tables(c) : lv[u] = 4 <=> u \in R
    BY <1>1, <1>12, <1>14, <1>15 DEF Tree, Levels, c
  <2>3. \A u \in R : hm[u] = u
    BY <1>1, <1>14, <1>15 DEF Tree, Levels
  <2>4. \A u \in Boot : lv[u] = lev[u] /\ hm[u] = home[u]
    BY <1>14, <1>15
  <2>5. /\ lv[BootPdpt] = 3 /\ lv[DirectPd] = 2 /\ lv[KernelPd] = 2 /\ lv[KernelPt] = 1
    BY <1>1, <2>4 DEF Tree, Levels, Boot
  <2>6. \A u \in Boot \ {BootPml4} : hm[u] = BootPdpt
    BY <1>1, <2>4 DEF Tree, Levels
  <2>7. R \subseteq Tables(c) /\ BootPml4 \in R
    BY <1>1, <1>12, <1>15 DEF Tree, Levels, c
  <2> QED BY <2>1, <2>2, <2>3, <2>5, <2>6, <2>7 DEF Levels
<1>17. Edges(c, lv, hm)
  <2> SUFFICES ASSUME NEW p \in Tables(c), NEW j \in DOMAIN c.tables[p], lv[p] > 1, ~c.tables[p][j].huge
               PROVE  /\ c.tables[p][j].to \in Tables(c)
                      /\ lv[c.tables[p][j].to] = lv[p] - 1
                      /\ (lv[p] = 4 /\ j = 1) \/ hm[c.tables[p][j].to] = hm[p]
                      /\ c.tables[p][j].to = DirectPd => p = BootPdpt /\ j = 0
    BY DEF Edges
  <2>1. CASE p \in Tables(a)
    <3>1. c.tables[p] = a.tables[p]
      BY <1>13, <2>1 DEF c
    <3> QED BY <1>1, <1>12, <1>14, <2>1, <3>1 DEF Tree, Edges, c
  <2>2. CASE p = f
    <3>1. j = 1 /\ c.tables[p][j] = Entry(BootPdpt)
      BY <1>4, <1>10, <2>2 DEF c
    <3>2. c.tables[p][j].to = BootPdpt /\ BootPdpt # DirectPd /\ BootPdpt \in Tables(a)
      BY <1>15, <3>1, BootFrames DEF Entry, Boot
    <3>3. lv[BootPdpt] = 3
      BY <1>16 DEF Levels
    <3> QED BY <1>12, <1>14, <2>2, <3>1, <3>2, <3>3 DEF c
  <2> QED BY <1>12, <2>1, <2>2 DEF c
<1>18. Roots(c, R)
  <2>1. c.tables[f] = e
    BY <1>10 DEF c
  <2>2. \A s \in S : c.tables[s] = a.tables[s]
    BY <1>13, <1>15 DEF c
  <2> QED BY <1>1, <1>4, <2>1, <2>2 DEF Tree, Roots
<1>19. HugePages(c)
  <2>1. ~Entry(BootPdpt).huge
    BY DEF Entry
  <2>2. \A i \in DOMAIN c.tables[f] : ~c.tables[f][i].huge
    BY <1>4, <1>10, <2>1 DEF c
  <2> QED BY <1>1, <1>12, <1>13, <2>2 DEF Tree, HugePages, c
<1>20. Parents(c, lv, hm)
  <2> SUFFICES ASSUME NEW t \in Tables(c),
                      t = DirectPd => \E i \in DOMAIN c.tables[t] : ~c.tables[t][i].huge
               PROVE  Anchored(c, lv, hm, t)
    BY DEF Parents
  <2>1. CASE t = f
    BY <1>14, <2>1 DEF Anchored
  <2>2. CASE t \in Tables(a)
    <3>1. c.tables[t] = a.tables[t]
      BY <1>13, <2>2 DEF c
    <3>2. Anchored(a, lev, home, t)
      BY <1>1, <2>2, <3>1 DEF Tree, Parents
    <3>3. CASE HasParent(a, lev, home, t)
      <4>1. PICK p, i : p \in Tables(a) /\ Leads(a, lev, home, p, i, t)
        BY <3>3 DEF HasParent
      <4>2. p \in Tables(c) /\ c.tables[p] = a.tables[p]
        BY <4>1, <1>12, <1>13 DEF c
      <4>3. Leads(c, lv, hm, p, i, t)
        BY <1>14, <2>2, <4>1, <4>2 DEF Leads
      <4> QED BY <4>2, <4>3 DEF Anchored, HasParent
    <3> QED BY <1>14, <2>2, <3>2, <3>3 DEF Anchored
  <2> QED BY <1>12, <2>1, <2>2 DEF c
<1>21. Good(c, R)
  BY <1>2, <1>10, <1>16, <1>17, <1>18, <1>19, <1>20 DEF Good, Tree, c
<1> QED BY <1>6, <1>7, <1>8, <1>11, <1>21 DEF f, c

-----------------------------------------------------------------------------
(* What the shape says of a state.                                         *)

\* The tables of the upper half are those whose home is BootPdpt.
LEMMA UpperIsShared ==
  ASSUME NEW lev, NEW home, Memory(m), Tree(m, spaces, lev, home)
  PROVE  UpperTables = {t \in Owned(m, "table") : home[t] = BootPdpt}
<1> DEFINE pds == Below(m, BootPdpt)
           Shared == {t \in Tables(m) : home[t] = BootPdpt}
<1>0. /\ BootPdpt \in Shared /\ lev[BootPdpt] = 3 /\ BootPml4 \notin Shared
      /\ home[DirectPd] = BootPdpt /\ lev[DirectPd] = 2
  BY BootFrames DEF Tree, Levels, Boot, Tables
<1>1. ASSUME NEW t \in Shared, lev[t] > 1, lev[t] < 4, NEW x \in Below(m, t)
      PROVE  x \in Shared /\ lev[x] = lev[t] - 1
  <2>1. PICK i \in DOMAIN m.tables[t] : ~m.tables[t][i].huge /\ m.tables[t][i].to = x
    BY BelowIs
  <2> QED BY <1>1, <2>1 DEF Tree, Edges
<1>2. \A x \in pds : x \in Shared /\ lev[x] = 2
  BY <1>0, <1>1
<1>3. \A t \in pds : \A x \in Below(m, t) : x \in Shared /\ lev[x] = 1
  BY <1>1, <1>2
<1>4. \A t \in Shared : lev[t] = 3 => t = BootPdpt
  <2> SUFFICES ASSUME NEW t \in Shared, lev[t] = 3, t # BootPdpt PROVE FALSE
    OBVIOUS
  <2>1. HasParent(m, lev, home, t)
    BY <1>0 DEF Tree, Parents, Anchored
  <2>2. PICK p, i : p \in Tables(m) /\ Leads(m, lev, home, p, i, t)
    BY <2>1 DEF HasParent
  <2>3. lev[p] = 4 /\ home[p] = BootPdpt
    BY <2>2 DEF Leads
  <2>4. p \in spaces /\ home[p] = p
    BY <2>2, <2>3 DEF Tree, Levels
  <2> QED BY <1>0, <2>3, <2>4 DEF Tree, Levels
<1>5. ASSUME NEW t \in Shared, lev[t] = 2, HasParent(m, lev, home, t) PROVE t \in pds
  <2>1. PICK p, i : p \in Tables(m) /\ Leads(m, lev, home, p, i, t)
    BY <1>5 DEF HasParent
  <2>2. p \in Shared /\ lev[p] = 3
    BY <1>5, <2>1 DEF Leads
  <2>3. p = BootPdpt
    BY <1>4, <2>2
  <2> QED BY <2>1, <2>3, BelowIs DEF Leads
<1>6. ASSUME NEW t \in Shared, lev[t] = 1 PROVE \E p \in pds : t \in Below(m, p)
  <2>1. HasParent(m, lev, home, t)
    BY <1>0, <1>6 DEF Tree, Parents, Anchored
  <2>2. PICK p, i : p \in Tables(m) /\ Leads(m, lev, home, p, i, t)
    BY <2>1 DEF HasParent
  <2>3. p \in Shared /\ lev[p] = 2 /\ t \in Below(m, p)
    BY <1>6, <2>2, BelowIs DEF Leads
  <2>4. \E j \in DOMAIN m.tables[p] : ~m.tables[p][j].huge
    BY <2>2 DEF Leads
  <2>5. HasParent(m, lev, home, p)
    BY <1>0, <2>3, <2>4 DEF Tree, Parents, Anchored
  <2> QED BY <1>5, <2>3, <2>5
<1>7. ASSUME NEW t \in Owned(m, "table"), home[t] = BootPdpt PROVE t \in UpperTables
  <2>1. t \notin Boot /\ t \in Shared
    BY <1>7, FramesApart DEF Tables
  <2>2. lev[t] \in {1, 2}
    <3>1. lev[t] \in 1..4 /\ (lev[t] = 4 => home[t] = t)
      BY <2>1 DEF Tree, Levels
    <3> QED BY <1>4, <1>7, <2>1, <3>1 DEF Boot
  <2>3. CASE lev[t] = 2
    <3>1. HasParent(m, lev, home, t)
      BY <1>0, <2>1, <2>3 DEF Tree, Parents, Anchored, Boot
    <3> QED BY <1>5, <2>1, <2>3, <3>1 DEF UpperTables, Boot
  <2>4. CASE lev[t] = 1
    BY <1>6, <2>1, <2>4 DEF UpperTables, Boot
  <2> QED BY <2>2, <2>3, <2>4
<1>8. ASSUME NEW t \in UpperTables PROVE t \in Owned(m, "table") /\ home[t] = BootPdpt
  <2>1. t \in Shared /\ lev[t] \in {1, 2}
    BY <1>2, <1>3 DEF UpperTables
  <2>2. t \notin Boot
    <3>1. t \notin {DirectPd, KernelPd, KernelPt}
      BY DEF UpperTables
    <3> QED BY <1>0, <2>1, <3>1 DEF Boot
  <2> QED BY <2>1, <2>2 DEF Tables
<1> QED BY <1>7, <1>8

\* Memory of that shape has exactly the page tables of its spaces.
LEMMA GoodIsExact ==
  ASSUME Good(m, spaces) PROVE PageTablesExact
<1>1. PICK lev, home : Tree(m, spaces, lev, home)
  BY DEF Good
<1> DEFINE O == Owned(m, "table")
<1>2. Memory(m) /\ m.current \in spaces
  BY DEF Good
<1>3. UpperTables = {t \in O : home[t] = BootPdpt}
  BY <1>1, <1>2, UpperIsShared
<1>4. ASSUME NEW s \in spaces PROVE Lower(s) = {t \in O : home[t] = s}
  <2>1. Lower(s) = {t \in Tables(m) : home[t] = s} \ {BootPml4}
    BY <1>1, LowerIsHome DEF Lower, DeletedTables
  <2>2. \A t \in Boot \ {BootPml4} : home[t] # s
    BY <1>1, BootFrames DEF Tree, Levels, Boot, Tables
  <2>3. O \cap Boot = {} /\ Tables(m) = O \cup Boot /\ BootPml4 \in Boot
    BY <1>2, FramesApart DEF Tables, Boot
  <2> HIDE DEF O
  <2> QED BY <2>1, <2>2, <2>3
<1>5. \A t \in O : home[t] \in spaces \cup {BootPdpt}
  BY <1>1 DEF Tree, Levels, Tables
<1>6. BootPdpt \notin spaces
  BY <1>1 DEF Tree, Levels, Tables, Boot
<1>7. \A s \in spaces : m.tables[s][1] = Entry(BootPdpt)
  BY <1>1 DEF Tree, Roots
<1>8. O = UpperTables \cup UNION {Lower(s) : s \in spaces}
  <2> HIDE DEF O
  <2> QED BY <1>3, <1>4, <1>5
<1>9. O = {f \in DOMAIN m.owner : m.owner[f] = "table"}
  BY DEF Owned
<1>10. /\ \A s, t \in spaces : s # t => Lower(s) \cap Lower(t) = {}
       /\ \A s \in spaces : Lower(s) \cap UpperTables = {}
  <2> HIDE DEF O
  <2> QED BY <1>3, <1>4, <1>6
<1> QED BY <1>2, <1>7, <1>8, <1>9, <1>10 DEF PageTablesExact
-----------------------------------------------------------------------------
(* What an operation means for the frames of one owner.                    *)

LEMMA SwitchKeeps ==
  ASSUME NEW a, NEW S, Good(a, S), NEW s \in S, NEW c, c = vmm_switch_address_space(a, s)
  PROVE  /\ s # 0 /\ Good(c, S) /\ c.current = s /\ c.ram = a.ram /\ c.owner = a.owner
<1>1. PICK lev, home : Tree(a, S, lev, home)
  BY DEF Good
<1>2. Memory(a) /\ s # 0
  BY <1>1, FramesApart DEF Good, Tree, Levels
<1>3. c = [a EXCEPT !.current = s]
  BY <1>2 DEF vmm_switch_address_space
<1>4. Memory(c) /\ c.ram = a.ram /\ c.owner = a.owner /\ c.tables = a.tables /\ c.current = s
  BY <1>2, <1>3 DEF Memory
<1>5. Tables(c) = Tables(a)
  BY <1>4 DEF Tables, Owned
<1>6. Tree(c, S, lev, home)
  BY <1>1, <1>4, <1>5, SameTree
<1> QED BY <1>2, <1>4, <1>6 DEF Good

LEMMA GrownOwns ==
  ASSUME NEW a, NEW c, Grown(a, c), NEW who, who # "table"
  PROVE  Owned(c, who) = Owned(a, who)
  BY DEF Grown, Owned

LEMMA OnlyOwns ==
  ASSUME NEW a, NEW c, NEW w, Only(a, c, w), NEW who, who \notin {"table", w}
  PROVE  Owned(c, who) = Owned(a, who)
  BY DEF Only, Owned

LEMMA ShrunkOwns ==
  ASSUME NEW a, NEW c, Shrunk(a, c), NEW who, who # "table"
  PROVE  Owned(c, who) = Owned(a, who)
  BY DEF Shrunk, Owned

LEMMA TakeOwns ==
  ASSUME NEW a, NEW S, Good(a, S), NEW n, NEW f, f = pmm_alloc_pages(a, n), f # 0,
         NEW who, who # "table", NEW c, c = Taken(a, f, n, who)
  PROVE  /\ Good(c, S) /\ c.current = a.current /\ c.ram = a.ram /\ f \in Nat /\ n > 0
         /\ Owned(c, who) = Owned(a, who) \cup Run(f, n)
         /\ \A w : w # who => Owned(c, w) = Owned(a, w)
         /\ \A w : Run(f, n) \cap Owned(a, w) = {}
         /\ Run(f, n) \subseteq a.ram
<1>1. Memory(a)
  BY DEF Good
<1>2. f \in Nat /\ n > 0 /\ Run(f, n) \subseteq a.ram \ DOMAIN a.owner
  BY <1>1, Allocates
<1>3. /\ Good(c, S) /\ c.ram = a.ram /\ c.current = a.current
      /\ DOMAIN c.owner = DOMAIN a.owner \cup Run(f, n)
      /\ \A g \in Run(f, n) : c.owner[g] = who
      /\ \A g \in DOMAIN a.owner : c.owner[g] = a.owner[g]
  BY <1>2, TakeKeeps
<1>4. Owned(c, who) = Owned(a, who) \cup Run(f, n)
  BY <1>3 DEF Owned
<1>5. \A w : w # who => Owned(c, w) = Owned(a, w)
  BY <1>3 DEF Owned
<1> QED BY <1>2, <1>3, <1>4, <1>5 DEF Owned

(* The frames of F are freed, and no table is among them.                  *)
Releases(a, S, F, c) ==
  Good(a, S) /\ F \cap Owned(a, "table") = {} /\ c = Freed(a, F \cap a.ram)

LEMMA ReleaseOwns ==
  ASSUME NEW a, NEW S, NEW F, NEW c, Releases(a, S, F, c)
  PROVE  /\ Good(c, S) /\ c.current = a.current /\ c.ram = a.ram
         /\ \A who : Owned(c, who) = Owned(a, who) \ F
<1>0. PICK G : G = F \cap a.ram
  OBVIOUS
<1>1. Good(a, S) /\ c = Freed(a, G) /\ G \subseteq a.ram /\ G \cap Owned(a, "table") = {}
  BY <1>0 DEF Releases
<1>2. /\ Good(c, S) /\ c.ram = a.ram /\ c.current = a.current
      /\ DOMAIN c.owner = DOMAIN a.owner \ G
      /\ \A g \in DOMAIN c.owner : c.owner[g] = a.owner[g]
  BY <1>1, ReleaseKeeps
<1>3. DOMAIN c.owner = DOMAIN a.owner \ F
  BY <1>0, <1>1, <1>2 DEF Good, Memory
<1> QED BY <1>2, <1>3 DEF Owned
-----------------------------------------------------------------------------
(* The stack of a process.                                                 *)

\* The window of a stack lies in the lower half.
LEMMA StackIsSafe ==
  \A i \in 0..StackPages - 1 : Safe((StackTop - StackPages + 1 + i) % VirtSize)
<1> SUFFICES ASSUME NEW i \in 0..StackPages - 1
             PROVE  Safe((StackTop - StackPages + 1 + i) % VirtSize)
  OBVIOUS
<1> DEFINE v == StackTop - StackPages + 1 + i
<1>1. v \in Nat /\ v < Half /\ Half \in Nat /\ VirtSize = 2 * Half
  BY MemoryAssumption, Bounds
<1> HIDE DEF v
<1>2. v % VirtSize = v
  BY <1>1
<1> QED BY <1>1, <1>2 DEF Safe, v

LEMMA StackKeeps ==
  ASSUME NEW a, NEW S, Good(a, S), NEW s \in S, NEW r, r = create_process_stack(a, s)
  PROVE  /\ Good(r.m, S) /\ r.m.current = a.current
         /\ Owned(r.m, "elf") = Owned(a, "elf")
         /\ r.f = 0 => Owned(r.m, "stack") = Owned(a, "stack")
         /\ r.f # 0 => /\ Owned(r.m, "stack") = Owned(a, "stack") \cup Run(r.f, StackPages)
                       /\ Run(r.f, StackPages) \cap Owned(a, "stack") = {}
<1> DEFINE f == pmm_alloc_pages(a, StackPages)
           b == Taken(a, f, StackPages, "stack")
           c == vmm_switch_address_space(b, s)
           p == vmm_map_pages(c, StackTop - StackPages + 1, f, StackPages)
           d == vmm_switch_address_space(p.m, a.current)
           e == pmm_free_pages(d, f, StackPages)
<1>1. r = IF f = 0 THEN [f |-> 0, m |-> a]
          ELSE IF p.ok THEN [f |-> f, m |-> d] ELSE [f |-> 0, m |-> e]
  BY DEF create_process_stack
<1>2. CASE f = 0
  <2>1. r.f = 0 /\ r.m = a
    BY <1>1, <1>2
  <2> QED BY <2>1
<1>3. CASE f # 0
  <2> DEFINE F == Run(f, StackPages)
  <2>1. /\ Good(b, S) /\ b.current = a.current
        /\ Owned(b, "stack") = Owned(a, "stack") \cup F
        /\ \A w : w # "stack" => Owned(b, w) = Owned(a, w)
        /\ \A w : F \cap Owned(a, w) = {}
    BY <1>3, TakeOwns
  <2>2. r = IF p.ok THEN [f |-> f, m |-> d] ELSE [f |-> 0, m |-> e]
    BY <1>1, <1>3
  <2> HIDE DEF b, f, F
  <2>3. Good(c, S) /\ c.owner = b.owner
    BY <2>1, SwitchKeeps
  <2> HIDE DEF c
  <2>4. Mapping(c, S, p)
    <3>1. StackPages \in Nat
      BY MemoryAssumption
    <3> QED BY <2>3, <3>1, StackIsSafe, MapPagesKeeps
  <2> HIDE DEF p
  <2>5. p.ok \in BOOLEAN /\ Good(p.m, S) /\ Grown(c, p.m)
    BY <2>4 DEF Mapping
  <2>6. a.current \in S
    BY DEF Good
  <2>7. Good(d, S) /\ d.current = a.current /\ d.owner = p.m.owner
    BY <2>5, <2>6, SwitchKeeps
  <2> HIDE DEF d
  <2>8. \A w : w # "table" => Owned(d, w) = Owned(b, w)
    <3>1. \A w : Owned(d, w) = Owned(p.m, w) /\ Owned(c, w) = Owned(b, w)
      BY <2>3, <2>7 DEF Owned
    <3> QED BY <2>5, <3>1, GrownOwns
  <2>9. CASE p.ok
    <3>1. r.f = f /\ r.m = d
      BY <2>2, <2>9
    <3> QED BY <1>3, <2>1, <2>7, <2>8, <3>1 DEF F
  <2>10. CASE ~p.ok
    <3>1. r.f = 0 /\ r.m = e
      BY <2>2, <2>10
    <3>2. e = Freed(d, F \cap d.ram)
      BY DEF pmm_free_pages, F
    <3> HIDE DEF e
    <3>3. F \cap Owned(d, "table") = {}
      <4>1. F \subseteq Owned(d, "stack")
        BY <2>1, <2>8
      <4> QED BY <4>1 DEF Owned
    <3>4. /\ Good(e, S) /\ e.current = d.current
          /\ \A w : Owned(e, w) = Owned(d, w) \ F
      <4>1. Releases(d, S, F, e)
        BY <2>7, <3>2, <3>3 DEF Releases
      <4> QED BY <4>1, ReleaseOwns
    <3>5. Owned(e, "elf") = Owned(a, "elf")
      <4>1. Owned(d, "elf") = Owned(a, "elf") /\ F \cap Owned(a, "elf") = {}
        BY <2>1, <2>8
      <4> QED BY <3>4, <4>1
    <3>6. Owned(e, "stack") = Owned(a, "stack")
      <4>1. Owned(d, "stack") = Owned(a, "stack") \cup F /\ F \cap Owned(a, "stack") = {}
        BY <2>1, <2>8
      <4> QED BY <3>4, <4>1
    <3> QED BY <2>7, <3>1, <3>4, <3>5, <3>6
  <2> QED BY <2>5, <2>9, <2>10
<1> QED BY <1>2, <1>3
-----------------------------------------------------------------------------
(* The loader.                                                             *)

Context(ctx) ==
  /\ ctx = [program_headers |-> ctx.program_headers, section_headers |-> ctx.section_headers,
            segments |-> ctx.segments]
  /\ ctx.segments \in Seq([f : Nat, n : Nat, v : Nat])

\* A segment's frames are added to the record.
LEMMA RecordsSegment ==
  ASSUME NEW ctx, Context(ctx), NEW g \in [f : Nat, n : Nat, v : Nat],
         NEW c, c = [ctx EXCEPT !.segments = Append(@, g)]
  PROVE  /\ Context(c) /\ Len(c.segments) = Len(ctx.segments) + 1
         /\ Recorded(c) = Recorded(ctx) \cup Run(g.f, g.n)
<1> DEFINE q == ctx.segments
           p == Append(q, g)
<1>1. /\ c.segments = p /\ c.program_headers = ctx.program_headers
      /\ c.section_headers = ctx.section_headers
      /\ c = [program_headers |-> c.program_headers, section_headers |-> c.section_headers,
              segments |-> c.segments]
  BY DEF Context
<1>2. q \in Seq([f : Nat, n : Nat, v : Nat])
  BY DEF Context
<1>3. /\ p \in Seq([f : Nat, n : Nat, v : Nat]) /\ Len(p) = Len(q) + 1 /\ Len(q) \in Nat
      /\ DOMAIN p = 1..Len(q) + 1 /\ DOMAIN q = 1..Len(q)
      /\ p[Len(q) + 1] = g /\ \A k \in 1..Len(q) : p[k] = q[k]
  BY <1>2
<1> HIDE DEF q, p
<1> DEFINE R(s) == UNION {Run(s[k].f, s[k].n) : k \in DOMAIN s}
<1>4. R(p) = R(q) \cup Run(g.f, g.n)
  <2>1. ASSUME NEW x \in R(p) PROVE x \in R(q) \cup Run(g.f, g.n)
    <3>1. PICK k \in DOMAIN p : x \in Run(p[k].f, p[k].n)
      OBVIOUS
    <3>2. CASE k = Len(q) + 1
      BY <1>3, <3>1, <3>2
    <3>3. CASE k \in 1..Len(q)
      BY <1>3, <3>1, <3>3
    <3>4. k = Len(q) + 1 \/ k \in 1..Len(q)
      BY <1>3
    <3> QED BY <3>2, <3>3, <3>4
  <2>2. ASSUME NEW x \in R(q) PROVE x \in R(p)
    <3>1. PICK k \in DOMAIN q : x \in Run(q[k].f, q[k].n)
      BY <2>2
    <3>2. k \in DOMAIN p /\ p[k] = q[k]
      BY <1>3
    <3>3. x \in Run(p[k].f, p[k].n)
      BY <3>1, <3>2
    <3> QED BY <3>2, <3>3
  <2>3. ASSUME NEW x \in Run(g.f, g.n) PROVE x \in R(p)
    <3>1. Len(q) + 1 \in DOMAIN p /\ p[Len(q) + 1] = g
      BY <1>3
    <3> QED BY <2>3, <3>1
  <2> QED BY <2>1, <2>2, <2>3
<1>5. Recorded(c) = {c.program_headers, c.section_headers} \cup R(c.segments)
  BY DEF Recorded
<1>6. Recorded(ctx) = {ctx.program_headers, ctx.section_headers} \cup R(q)
  BY DEF Recorded, q
<1> HIDE DEF R
<1>7. Recorded(c) = Recorded(ctx) \cup Run(g.f, g.n)
  BY <1>1, <1>4, <1>5, <1>6
<1>8. Context(c)
  <2>1. c.segments \in Seq([f : Nat, n : Nat, v : Nat])
    BY <1>1, <1>3
  <2> QED BY <1>1, <2>1 DEF Context
<1> QED BY <1>1, <1>3, <1>7, <1>8 DEF q

(* The loader at work since memory b, in a space of S: what it recorded is *)
(* its own, and if it has not failed is still allocated.                   *)
Loading(b, S, s) ==
  /\ s = [ok |-> s.ok, m |-> s.m, ctx |-> s.ctx] /\ s.ok \in BOOLEAN
  /\ Good(s.m, S)
  /\ Context(s.ctx)
  /\ Owned(s.m, "stack") = Owned(b, "stack")
  /\ Owned(b, "elf") \subseteq Owned(s.m, "elf")
  /\ Recorded(s.ctx) \cap Owned(b, "elf") = {}
  /\ Recorded(s.ctx) \cap Owned(s.m, "table") = {}
  /\ Recorded(s.ctx) \cap Owned(s.m, "stack") = {}
  /\ s.ok => Recorded(s.ctx) \subseteq Owned(s.m, "elf")

(* After j segments all it took is recorded.                               *)
Whole(b, s, j) ==
  /\ Len(s.ctx.segments) <= j
  /\ Owned(s.m, "elf") \subseteq Owned(b, "elf") \cup Recorded(s.ctx)

\* process_alloc_pages.
LEMMA LoaderTakes ==
  ASSUME NEW a, NEW S, Good(a, S), NEW n \in Nat, NEW r, r = process_alloc_pages(a, n)
  PROVE  /\ r.f = 0 => r.m = a
         /\ r.f # 0 => /\ Good(r.m, S) /\ r.m.current = a.current /\ r.f \in Nat
                       /\ n > 0 /\ r.f \in Run(r.f, n)
                       /\ Owned(r.m, "elf") = Owned(a, "elf") \cup Run(r.f, n)
                       /\ \A w : w # "elf" => Owned(r.m, w) = Owned(a, w)
                       /\ \A w : Run(r.f, n) \cap Owned(a, w) = {}
<1> DEFINE f == pmm_alloc_pages(a, n)
           c == Taken(a, f, n, "elf")
<1>1. r.f = f /\ r.m = IF f = 0 THEN a ELSE c
  BY DEF process_alloc_pages
<1>2. CASE f = 0
  BY <1>1, <1>2
<1>3. CASE f # 0
  <2>1. /\ Good(c, S) /\ c.current = a.current /\ f \in Nat /\ n > 0
        /\ Owned(c, "elf") = Owned(a, "elf") \cup Run(f, n)
        /\ \A w : w # "elf" => Owned(c, w) = Owned(a, w)
        /\ \A w : Run(f, n) \cap Owned(a, w) = {}
    BY <1>3, TakeOwns
  <2> HIDE DEF f, c
  <2>2. f \in Run(f, n)
    BY <2>1 DEF Run
  <2> QED BY <1>1, <1>3, <2>1, <2>2
<1> QED BY <1>2, <1>3

\* One segment.
LEMMA SegmentKeeps ==
  ASSUME NEW b, NEW S, NEW s, Loading(b, S, s), NEW seg \in [v : Nat, n : Nat],
         \A i \in 0..seg.n - 1 : Safe((seg.v + i) % VirtSize),
         NEW r, r = LoadSegment(s, seg), NEW j \in Nat
  PROVE  /\ Loading(b, S, r)
         /\ j < MaxSegments /\ Whole(b, s, j) => Whole(b, r, j + 1)
<1> DEFINE t == process_alloc_pages(s.m, seg.n)
           p == vmm_map_pages(t.m, seg.v, t.f, seg.n)
           g == [f |-> t.f, n |-> seg.n, v |-> seg.v]
           Full == ~(Len(s.ctx.segments) < MaxSegments)
           x == IF ~Full THEN [s.ctx EXCEPT !.segments = Append(@, g)] ELSE s.ctx
           e == pmm_free_pages(p.m, t.f, seg.n)
<1>0. /\ s = [ok |-> s.ok, m |-> s.m, ctx |-> s.ctx] /\ s.ok \in BOOLEAN
      /\ Good(s.m, S) /\ Context(s.ctx) /\ Len(s.ctx.segments) \in Nat
  BY DEF Loading, Context
<1>1. r = IF ~s.ok THEN s ELSE IF t.f = 0 THEN [s EXCEPT !.ok = FALSE]
          ELSE [ok |-> p.ok, ctx |-> x, m |-> IF p.ok THEN p.m ELSE e]
  BY DEF LoadSegment
<1>2. CASE ~s.ok
  <2>1. r = s
    BY <1>1, <1>2
  <2>2. Whole(b, s, j) => Whole(b, s, j + 1)
    BY <1>0 DEF Whole
  <2> QED BY <2>1, <2>2
<1>3. CASE s.ok /\ t.f = 0
  <2>1. r = [s EXCEPT !.ok = FALSE]
    BY <1>1, <1>3
  <2>2. r = [ok |-> r.ok, m |-> r.m, ctx |-> r.ctx] /\ r.ok = FALSE /\ r.m = s.m /\ r.ctx = s.ctx
    BY <1>0, <2>1
  <2>3. Loading(b, S, r)
    BY <2>2 DEF Loading
  <2>4. Whole(b, s, j) => Whole(b, r, j + 1)
    BY <1>0, <2>2 DEF Whole
  <2> QED BY <2>3, <2>4
<1>4. CASE s.ok /\ t.f # 0
  <2>1. r = [ok |-> p.ok, ctx |-> x, m |-> IF p.ok THEN p.m ELSE e]
    BY <1>1, <1>4
  <2> DEFINE F == Run(t.f, seg.n)
  <2>2. /\ Good(t.m, S) /\ t.f \in Nat
        /\ Owned(t.m, "elf") = Owned(s.m, "elf") \cup F
        /\ \A w : w # "elf" => Owned(t.m, w) = Owned(s.m, w)
        /\ \A w : F \cap Owned(s.m, w) = {}
    BY <1>0, <1>4, LoaderTakes
  <2> HIDE DEF t
  <2>3. Mapping(t.m, S, p)
    BY <2>2, MapPagesKeeps
  <2> HIDE DEF p
  <2>4. p.ok \in BOOLEAN /\ Good(p.m, S) /\ Grown(t.m, p.m)
    BY <2>3 DEF Mapping
  <2>5. /\ Owned(p.m, "elf") = Owned(s.m, "elf") \cup F
        /\ Owned(p.m, "stack") = Owned(s.m, "stack")
    BY <2>2, <2>4, GrownOwns
  <2>6. /\ Context(x) /\ Recorded(x) \subseteq Recorded(s.ctx) \cup F
        /\ Recorded(s.ctx) \subseteq Recorded(x)
        /\ ~Full => Recorded(x) = Recorded(s.ctx) \cup F /\ Len(x.segments) = Len(s.ctx.segments) + 1
        /\ Full => x = s.ctx
    <3>1. g \in [f : Nat, n : Nat, v : Nat] /\ g.f = t.f /\ g.n = seg.n
      BY <2>2
    <3> HIDE DEF g, Full
    <3>2. CASE Full
      BY <1>0, <3>2
    <3>3. CASE ~Full
      <4>1. x = [s.ctx EXCEPT !.segments = Append(@, g)]
        BY <3>3
      <4> HIDE DEF x
      <4>2. /\ Context(x) /\ Len(x.segments) = Len(s.ctx.segments) + 1
            /\ Recorded(x) = Recorded(s.ctx) \cup Run(g.f, g.n)
        BY <1>0, <3>1, <4>1, RecordsSegment
      <4> QED BY <3>1, <3>3, <4>2
    <3> QED BY <3>2, <3>3
  <2> HIDE DEF x, F
  <2>7. /\ Owned(s.m, "stack") = Owned(b, "stack") /\ Owned(b, "elf") \subseteq Owned(s.m, "elf")
        /\ Recorded(s.ctx) \cap Owned(b, "elf") = {}
        /\ Recorded(s.ctx) \subseteq Owned(s.m, "elf")
    BY <1>4 DEF Loading
  <2>8. \A q : Owned(q, "elf") \cap Owned(q, "table") = {} /\ Owned(q, "elf") \cap Owned(q, "stack") = {}
    BY DEF Owned
  <2>9. Recorded(x) \subseteq Owned(p.m, "elf") /\ Recorded(x) \cap Owned(b, "elf") = {}
    <3>1. F \cap Owned(b, "elf") = {}
      BY <2>2, <2>7
    <3> QED BY <2>5, <2>6, <2>7, <3>1
  <2>10. ASSUME j < MaxSegments, Whole(b, s, j)
         PROVE  ~Full /\ Len(x.segments) <= j + 1 /\ Owned(s.m, "elf") \cup F \subseteq Owned(b, "elf") \cup Recorded(x)
    <3>1. Len(s.ctx.segments) <= j /\ Owned(s.m, "elf") \subseteq Owned(b, "elf") \cup Recorded(s.ctx)
      BY <2>10 DEF Whole
    <3>2. ~Full
      <4>1. MaxSegments \in Nat
        BY MemoryAssumption
      <4> QED BY <1>0, <2>10, <3>1, <4>1
    <3>3. Len(x.segments) <= j + 1
      BY <1>0, <2>6, <3>1, <3>2
    <3> QED BY <2>6, <3>1, <3>2, <3>3
  <2>11. CASE p.ok
    <3>1. r = [ok |-> r.ok, m |-> r.m, ctx |-> r.ctx] /\ r.ok = p.ok /\ r.m = p.m /\ r.ctx = x
      BY <2>1, <2>11
    <3>2. Loading(b, S, r)
      BY <2>4, <2>5, <2>6, <2>7, <2>8, <2>9, <3>1 DEF Loading
    <3>3. j < MaxSegments /\ Whole(b, s, j) => Whole(b, r, j + 1)
      <4> HIDE DEF Full
      <4> QED BY <2>5, <2>10, <3>1 DEF Whole
    <3> QED BY <3>2, <3>3
  <2>12. CASE ~p.ok
    <3>1. r = [ok |-> r.ok, m |-> r.m, ctx |-> r.ctx] /\ r.ok = FALSE /\ r.m = e /\ r.ctx = x
      BY <2>1, <2>4, <2>12
    <3>2. Releases(p.m, S, F, e)
      <4>1. F \cap Owned(p.m, "table") = {}
        BY <2>5, <2>8
      <4> QED BY <2>4, <4>1 DEF Releases, pmm_free_pages, F
    <3> HIDE DEF e
    <3>3. Good(e, S) /\ \A w : Owned(e, w) = Owned(p.m, w) \ F
      BY <3>2, ReleaseOwns
    <3>4. Owned(e, "elf") = Owned(s.m, "elf")
      <4>1. F \cap Owned(s.m, "elf") = {}
        BY <2>2
      <4> QED BY <2>5, <3>3, <4>1
    <3>5. Owned(e, "stack") = Owned(b, "stack")
      <4>1. F \cap Owned(s.m, "stack") = {}
        BY <2>2
      <4> QED BY <2>5, <2>7, <3>3, <4>1
    <3>6. Recorded(x) \cap Owned(e, "table") = {} /\ Recorded(x) \cap Owned(e, "stack") = {}
      BY <2>8, <2>9, <3>3
    <3>7. Loading(b, S, r)
      BY <2>6, <2>7, <2>9, <3>1, <3>3, <3>4, <3>5, <3>6 DEF Loading
    <3>8. j < MaxSegments /\ Whole(b, s, j) => Whole(b, r, j + 1)
      <4> HIDE DEF Full
      <4> QED BY <2>10, <3>1, <3>4 DEF Whole
    <3> QED BY <3>7, <3>8
  <2> QED BY <2>4, <2>11, <2>12
<1> QED BY <1>0, <1>2, <1>3, <1>4

\* The loop of elf_load.
LEMMA LoadUnrolls ==
  ASSUME NEW a, NEW ctx, NEW image, Len(image.segments) \in Nat
  PROVE  \E g : /\ g[0] = [ok |-> TRUE, m |-> a, ctx |-> ctx]
                /\ \A k \in 1..Len(image.segments) : g[k] = LoadSegment(g[k - 1], image.segments[k])
                /\ elf_load(a, ctx, image) = g[Len(image.segments)]
<1> DEFINE base == [ok |-> TRUE, m |-> a, ctx |-> ctx]
           Loop(g, j) == g = [k \in 0..j |-> IF k = 0 THEN base ELSE LoadSegment(g[k - 1], image.segments[k])]
           T == {j \in Nat : \E g : Loop(g, j)}
<1>1. 0 \in T
  <2>1. Loop([k \in 0..0 |-> base], 0)
    OBVIOUS
  <2> QED BY <2>1
<1>2. ASSUME NEW j \in Nat, j \in T PROVE j + 1 \in T
  <2>1. PICK g : Loop(g, j)
    BY <1>2
  <2> DEFINE e == LoadSegment(g[j], image.segments[(j + 1)])
             h == [k \in 0..(j + 1) |-> IF k = j + 1 THEN e ELSE g[k]]
  <2>2. \A k \in 0..j : g[k] = IF k = 0 THEN base ELSE LoadSegment(g[k - 1], image.segments[k])
    <3> HIDE DEF base
    <3> QED BY <2>1
  <2> HIDE DEF e, base
  <2>3. ASSUME NEW k \in 0..(j + 1)
        PROVE  h[k] = IF k = 0 THEN base ELSE LoadSegment(h[k - 1], image.segments[k])
    <3>1. CASE k = j + 1
      <4>1. h[k] = e /\ k # 0 /\ h[k - 1] = g[j]
        BY <3>1
      <4> QED BY <3>1, <4>1 DEF e
    <3>2. CASE k = 0
      BY <2>2, <3>2
    <3>3. CASE k # 0 /\ k # j + 1
      <4>1. h[k] = g[k] /\ h[k - 1] = g[k - 1] /\ k \in 0..j
        BY <3>3
      <4> QED BY <2>2, <3>3, <4>1
    <3> QED BY <3>1, <3>2, <3>3
  <2>4. Loop(h, j + 1)
    <3>1. h = [k \in 0..(j + 1) |-> h[k]]
      OBVIOUS
    <3> HIDE DEF h
    <3> QED BY <2>3, <3>1
  <2>5. \E f : Loop(f, j + 1)
    <3> HIDE DEF Loop, h
    <3> QED BY <2>4
  <2> QED BY <2>5
<1>3. \A j \in Nat : j \in T
  <2> HIDE DEF T
  <2> QED BY <1>1, <1>2, Induction
<1>4. PICK z \in Nat : z = Len(image.segments)
  OBVIOUS
<1> DEFINE u == CHOOSE g : Loop(g, Len(image.segments))
<1>5. Loop(u, Len(image.segments))
  <2>1. \E g : Loop(g, Len(image.segments))
    BY <1>3, <1>4
  <2> HIDE DEF Loop
  <2> QED BY <2>1
<1>6. elf_load(a, ctx, image) = u[Len(image.segments)]
  BY DEF elf_load
<1> HIDE DEF u
<1>7. \A k \in 0..z : u[k] = IF k = 0 THEN base ELSE LoadSegment(u[k - 1], image.segments[k])
  <2> HIDE DEF base
  <2> QED BY <1>4, <1>5
<1>8. u[0] = base /\ \A k \in 1..z : u[k] = LoadSegment(u[k - 1], image.segments[k])
  <2> HIDE DEF base
  <2> QED BY <1>7
<1> QED BY <1>4, <1>6, <1>8

\* All segments of an image.
LEMMA LoadKeeps ==
  ASSUME SmallMachine, NEW b, NEW S, NEW a, NEW ctx, Loading(b, S, [ok |-> TRUE, m |-> a, ctx |-> ctx]),
         NEW image \in Images, NEW r, r = elf_load(a, ctx, image)
  PROVE  /\ Loading(b, S, r)
         /\ ~Oversized(image) /\ Whole(b, [ok |-> TRUE, m |-> a, ctx |-> ctx], 0) =>
              Owned(r.m, "elf") \subseteq Owned(b, "elf") \cup Recorded(r.ctx)
<1> DEFINE n == Len(image.segments)
           s0 == [ok |-> TRUE, m |-> a, ctx |-> ctx]
           W == ~Oversized(image) /\ Whole(b, s0, 0)
<1>1. /\ n \in Nat
      /\ \A k \in 1..n : /\ image.segments[k] \in [v : Nat, n : Nat]
                         /\ \A i \in 0..image.segments[k].n - 1 : Safe((image.segments[k].v + i) % VirtSize)
  <2>1. /\ image.segments \in Seq([v : Nat, n : Nat])
        /\ \A k \in DOMAIN image.segments : \A i \in 0..image.segments[k].n - 1 :
             Safe((image.segments[k].v + i) % VirtSize)
    BY DEF SmallMachine
  <2>2. n \in Nat /\ DOMAIN image.segments = 1..n /\ \A k \in 1..n : image.segments[k] \in [v : Nat, n : Nat]
    <3> DEFINE R == [v : Nat, n : Nat]
    <3>1. PICK q : q = image.segments
      OBVIOUS
    <3>2. q \in Seq(R)
      BY <2>1, <3>1
    <3> HIDE DEF R
    <3>3. Len(q) \in Nat /\ DOMAIN q = 1..Len(q) /\ \A k \in 1..Len(q) : q[k] \in R
      BY <3>2
    <3> QED BY <3>1, <3>3 DEF R
  <2> QED BY <2>1, <2>2
<1>2. PICK g : /\ g[0] = s0
               /\ \A k \in 1..n : g[k] = LoadSegment(g[k - 1], image.segments[k])
               /\ r = g[n]
  <2>1. Len(image.segments) \in Nat
    BY <1>1
  <2>2. \E g : /\ g[0] = [ok |-> TRUE, m |-> a, ctx |-> ctx]
               /\ \A k \in 1..Len(image.segments) : g[k] = LoadSegment(g[k - 1], image.segments[k])
               /\ elf_load(a, ctx, image) = g[Len(image.segments)]
    BY ONLY <2>1, LoadUnrolls
  <2> QED BY ONLY <2>2, r = elf_load(a, ctx, image)
<1>3. W => n <= MaxSegments
  <2>1. MaxSegments \in Nat
    BY MemoryAssumption
  <2> QED BY <1>1, <2>1 DEF Oversized
<1>4. W => Whole(b, g[0], 0)
  BY <1>2
<1>5. Loading(b, S, g[0])
  BY <1>2
<1> HIDE DEF W, n, s0
<1> DEFINE T == {k \in Nat : k <= n => Loading(b, S, g[k]) /\ (W => Whole(b, g[k], k))}
<1>6. 0 \in T
  BY <1>4, <1>5
<1>7. ASSUME NEW k \in Nat, k \in T PROVE k + 1 \in T
  <2> SUFFICES ASSUME k + 1 <= n PROVE Loading(b, S, g[k + 1]) /\ (W => Whole(b, g[k + 1], k + 1))
    OBVIOUS
  <2>1. Loading(b, S, g[k]) /\ (W => Whole(b, g[k], k))
    BY <1>1, <1>7
  <2>2. k + 1 \in 1..n /\ (k + 1) - 1 = k
    BY <1>1
  <2> DEFINE seg == image.segments[k + 1]
  <2>3. g[k + 1] = LoadSegment(g[k], seg)
    BY <1>2, <2>2
  <2>4. seg \in [v : Nat, n : Nat] /\ \A i \in 0..seg.n - 1 : Safe((seg.v + i) % VirtSize)
    BY <1>1, <2>2
  <2> HIDE DEF seg
  <2>5. /\ Loading(b, S, g[k + 1])
        /\ k < MaxSegments /\ Whole(b, g[k], k) => Whole(b, g[k + 1], k + 1)
    BY <2>1, <2>3, <2>4, SegmentKeeps
  <2>6. W => k < MaxSegments
    <3>1. MaxSegments \in Nat
      BY MemoryAssumption
    <3> QED BY <1>1, <1>3, <3>1
  <2> QED BY <2>1, <2>5, <2>6
<1>8. n \in T
  <2> HIDE DEF T
  <2> QED BY <1>1, <1>6, <1>7, Induction
<1>9. Loading(b, S, r) /\ (W => Whole(b, r, n))
  BY <1>1, <1>2, <1>8
<1> QED BY <1>9 DEF W, s0, Whole

\* elf_init.
LEMMA InitKeeps ==
  ASSUME SmallMachine, NEW b, NEW S, Good(b, S), NEW image \in Images, NEW r, r = elf_init(b, image)
  PROVE  /\ r.ok \in BOOLEAN /\ Good(r.m, S) /\ r.m.current = b.current
         /\ Owned(r.m, "stack") = Owned(b, "stack")
         /\ Owned(b, "elf") \subseteq Owned(r.m, "elf")
         /\ ~r.ok /\ ~Oversized(image) => Owned(r.m, "elf") = Owned(b, "elf")
         /\ r.ok => Loading(b, S, r) /\ (~Oversized(image) => Whole(b, r, 0))
<1> DEFINE p == process_alloc_pages(b, image.ph)
           q == process_alloc_pages(p.m, image.sh)
           c == [NoContext EXCEPT !.program_headers = p.f]
           d == [c EXCEPT !.section_headers = q.f]
           e == elf_cleanup(p.m, c)
<1>1. r = IF ~image.valid \/ p.f = 0 THEN [ok |-> FALSE, m |-> b, ctx |-> NoContext]
          ELSE IF q.f = 0 THEN [ok |-> FALSE, m |-> e, ctx |-> NoContext]
          ELSE [ok |-> TRUE, m |-> q.m, ctx |-> d]
  BY DEF elf_init
<1>2. image.ph \in Nat /\ image.sh \in Nat
  BY DEF SmallMachine
<1>3. CASE ~image.valid \/ p.f = 0
  <2>1. r.ok = FALSE /\ r.m = b
    BY <1>1, <1>3
  <2> QED BY <2>1
<1>4. CASE ~(~image.valid \/ p.f = 0)
  <2> DEFINE F == Run(p.f, image.ph)
             G == Run(q.f, image.sh)
  <2>1. /\ Good(p.m, S) /\ p.m.current = b.current /\ p.f \in F
        /\ Owned(p.m, "elf") = Owned(b, "elf") \cup F
        /\ \A w : w # "elf" => Owned(p.m, w) = Owned(b, w)
        /\ \A w : F \cap Owned(b, w) = {}
    BY <1>2, <1>4, LoaderTakes
  <2>2. ~Oversized(image) => F = {p.f}
    <3>1. p.f \in Nat /\ image.ph > 0
      BY <1>2, <1>4, LoaderTakes
    <3> QED BY <1>2, <3>1 DEF Oversized, Run
  <2>3. r = IF q.f = 0 THEN [ok |-> FALSE, m |-> e, ctx |-> NoContext]
            ELSE [ok |-> TRUE, m |-> q.m, ctx |-> d]
    BY <1>1, <1>4
  <2>4. /\ c.program_headers = p.f /\ c.section_headers = 0 /\ c.segments = <<>>
        /\ c = [program_headers |-> p.f, section_headers |-> 0, segments |-> <<>>]
    BY DEF NoContext
  <2> HIDE DEF p, F
  <2>5. CASE q.f = 0
    <3>1. r.ok = FALSE /\ r.m = e
      BY <2>3, <2>5
    <3>2. Recorded(c) = {p.f, 0}
      BY <2>4 DEF Recorded
    <3>3. Recorded(c) \cap Owned(p.m, "table") = {} /\ \A w : 0 \notin Owned(p.m, w)
      <4>1. \A w : 0 \notin Owned(p.m, w)
        BY <2>1, FramesApart DEF Good, Owned, Memory
      <4>2. p.f \in Owned(p.m, "elf")
        BY <2>1
      <4> QED BY <3>2, <4>1, <4>2 DEF Owned
    <3>4. Releases(p.m, S, Recorded(c), e)
      BY <2>1, <3>3 DEF Releases, elf_cleanup
    <3> HIDE DEF e, c
    <3>5. Good(e, S) /\ e.current = p.m.current /\ \A w : Owned(e, w) = Owned(p.m, w) \ Recorded(c)
      BY <3>4, ReleaseOwns
    <3>6. Owned(e, "elf") = (Owned(b, "elf") \cup F) \ {p.f}
      BY <2>1, <3>2, <3>3, <3>5
    <3>7. p.f \notin Owned(b, "elf") /\ p.f \notin Owned(b, "stack")
      BY <2>1
    <3>8. Owned(e, "stack") = Owned(b, "stack")
      BY <2>1, <3>2, <3>3, <3>5, <3>7
    <3>9. Owned(b, "elf") \subseteq Owned(e, "elf") /\ (~Oversized(image) => Owned(e, "elf") = Owned(b, "elf"))
      BY <2>2, <3>6, <3>7
    <3> QED BY <2>1, <3>1, <3>5, <3>8, <3>9
  <2>6. CASE q.f # 0
    <3>1. /\ Good(q.m, S) /\ q.m.current = p.m.current /\ q.f \in G
          /\ Owned(q.m, "elf") = Owned(p.m, "elf") \cup G
          /\ \A w : w # "elf" => Owned(q.m, w) = Owned(p.m, w)
          /\ \A w : G \cap Owned(p.m, w) = {}
      BY <1>2, <2>1, <2>6, LoaderTakes
    <3>2. ~Oversized(image) => G = {q.f}
      <4>1. q.f \in Nat /\ image.sh > 0
        BY <1>2, <2>1, <2>6, LoaderTakes
      <4> QED BY <1>2, <4>1 DEF Oversized, Run
    <3>3. d = [program_headers |-> p.f, section_headers |-> q.f, segments |-> <<>>]
      <4> HIDE DEF c, q
      <4> QED BY <2>4
    <3>4. r = [ok |-> TRUE, m |-> q.m, ctx |-> d]
      BY <2>3, <2>6
    <3> HIDE DEF q, G, c, d
    <3>5. /\ r.ok = TRUE /\ r.m = q.m /\ r.ctx = d /\ r = [ok |-> r.ok, m |-> r.m, ctx |-> r.ctx]
      BY <3>4
    <3>6. Context(d) /\ Len(d.segments) = 0 /\ Recorded(d) = {p.f, q.f}
      <4>1. d.program_headers = p.f /\ d.section_headers = q.f /\ d.segments = <<>>
        BY <3>3
      <4>2. Recorded(d) = {p.f, q.f}
        BY <4>1 DEF Recorded
      <4>3. Context(d)
        <5>1. <<>> \in Seq([f : Nat, n : Nat, v : Nat])
          OBVIOUS
        <5> QED BY <3>3, <4>1, <5>1 DEF Context
      <4> QED BY <4>1, <4>2, <4>3
    <3>7. Owned(q.m, "stack") = Owned(b, "stack")
      BY <2>1, <3>1
    <3>8. Owned(q.m, "elf") = Owned(b, "elf") \cup F \cup G
      BY <2>1, <3>1
    <3>9. Recorded(d) \subseteq Owned(q.m, "elf") /\ Recorded(d) \cap Owned(b, "elf") = {}
      <4>1. p.f \notin Owned(b, "elf")
        BY <2>1
      <4>2. q.f \notin Owned(b, "elf")
        BY <2>1, <3>1
      <4> QED BY <2>1, <3>1, <3>6, <3>8, <4>1, <4>2
    <3>10. Recorded(d) \cap Owned(q.m, "table") = {} /\ Recorded(d) \cap Owned(q.m, "stack") = {}
      BY <3>9 DEF Owned
    <3>11. Loading(b, S, r)
      BY <3>1, <3>5, <3>6, <3>7, <3>8, <3>9, <3>10 DEF Loading
    <3>12. ~Oversized(image) => Whole(b, r, 0)
      BY <2>2, <3>2, <3>5, <3>6, <3>8 DEF Whole
    <3> QED BY <2>1, <3>1, <3>5, <3>7, <3>8, <3>11, <3>12
  <2> QED BY <2>5, <2>6
<1> QED BY <1>3, <1>4
-----------------------------------------------------------------------------
(* process_create.                                                         *)

LEMMA ProcessIsSome ==
  ASSUME NEW x, NEW y, NEW z, NEW p, p = [space |-> x, stack |-> y, ctx |-> z]
  PROVE  p # None
<1>1. DOMAIN p = {"space", "stack", "ctx"}
  OBVIOUS
<1>2. DOMAIN None = {}
  BY DEF None
<1> QED BY <1>1, <1>2

\* A space that was created is deleted again.
LEMMA UndoneSpace ==
  ASSUME NEW S, NEW s, s \notin S \cup Boot, NEW a, Good(a, S \cup {s}), a.current \in S,
         NEW c, c = vmm_delete_address_space(a, s)
  PROVE  /\ Good(c, S)
         /\ Owned(c, "elf") = Owned(a, "elf") /\ Owned(c, "stack") = Owned(a, "stack")
<1>1. PICK T : T = S \cup {s}
  OBVIOUS
<1>2. Good(a, T) /\ s \in T \ Boot /\ s # a.current
  BY <1>1
<1>3. Good(c, IF s = a.current THEN T ELSE T \ {s}) /\ Shrunk(a, c)
  BY <1>2, DeleteKeeps
<1>4. T \ {s} = S
  BY <1>1
<1> QED BY <1>2, <1>3, <1>4, ShrunkOwns

(* What process_create may leave: nothing but a stack, if it fails; a      *)
(* space, a stack and the frames in the context, if it succeeds.           *)
Failed(image, r) ==
  /\ r.p = None /\ Good(r.m, spaces)
  /\ Owned(m, "stack") \subseteq Owned(r.m, "stack")
  /\ Owned(m, "elf") \subseteq Owned(r.m, "elf")
  /\ ~Oversized(image) => Owned(r.m, "elf") = Owned(m, "elf")

Succeeded(image, r) ==
  /\ r.p # None
  /\ r.p.space \notin spaces \cup Boot
  /\ Good(r.m, spaces \cup {r.p.space})
  /\ Owned(m, "stack") \subseteq Owned(r.m, "stack")
  /\ Run(r.p.stack, StackPages) \subseteq Owned(r.m, "stack") \ Owned(m, "stack")
  /\ Owned(m, "elf") \subseteq Owned(r.m, "elf")
  /\ Recorded(r.p.ctx) \subseteq Owned(r.m, "elf") \ Owned(m, "elf")
  /\ ~Oversized(image) => Owned(r.m, "elf") \subseteq Owned(m, "elf") \cup Recorded(r.p.ctx)

\* process_create, on every path.
LEMMA CreatedKeeps ==
  ASSUME SmallMachine, Good(m, spaces), NEW image \in Images, NEW r, r = Created(image)
  PROVE  Failed(image, r) \/ Succeeded(image, r)
<1> DEFINE a == vmm_create_address_space(m)
           s == a.frame
           S == spaces \cup {s}
           k == create_process_stack(a.m, s)
           e == elf_init(k.m, image)
           b == vmm_switch_address_space(e.m, s)
           l == elf_load(b, e.ctx, image)
           c == vmm_switch_address_space(l.m, m.current)
           d == elf_cleanup(c, l.ctx)
           Fails(x) == [m |-> vmm_delete_address_space(x, s), p |-> None]
           p == [space |-> s, stack |-> k.f, ctx |-> l.ctx]
<1>1. r = IF s = 0 THEN [m |-> m, p |-> None]
          ELSE IF k.f = 0 THEN Fails(k.m)
          ELSE IF ~e.ok THEN Fails(e.m)
          ELSE IF l.ok THEN [m |-> c, p |-> p] ELSE Fails(d)
  BY DEF Created
<1>2. CASE s = 0
  <2>1. r.m = m /\ r.p = None
    BY <1>1, <1>2
  <2> QED BY <2>1 DEF Failed
<1>3. CASE s # 0
  <2>0. m.current \in spaces
    BY DEF Good
  <2>1. s \notin spaces \cup Boot /\ Good(a.m, S) /\ Grown(m, a.m)
    BY <1>3, CreateSpaceKeeps
  <2>2. Owned(a.m, "elf") = Owned(m, "elf") /\ Owned(a.m, "stack") = Owned(m, "stack") /\ a.m.current = m.current
    BY <2>1, GrownOwns DEF Grown
  <2>3. s \in S /\ m.current \in S
    BY <2>0
  <2> HIDE DEF a, s
  <2>4. ASSUME NEW x, Good(x, S), x.current = m.current, r = Fails(x),
               Owned(m, "stack") \subseteq Owned(x, "stack"),
               Owned(m, "elf") \subseteq Owned(x, "elf"),
               ~Oversized(image) => Owned(x, "elf") = Owned(m, "elf")
        PROVE  Failed(image, r)
    <3>1. PICK y : y = vmm_delete_address_space(x, s)
      OBVIOUS
    <3>2. r.m = y /\ r.p = None
      BY <2>4, <3>1
    <3>3. Good(y, spaces) /\ Owned(y, "elf") = Owned(x, "elf") /\ Owned(y, "stack") = Owned(x, "stack")
      BY <2>0, <2>1, <2>4, <3>1, UndoneSpace
    <3> QED BY <2>4, <3>2, <3>3 DEF Failed
  <2>5. r = IF k.f = 0 THEN Fails(k.m)
            ELSE IF ~e.ok THEN Fails(e.m)
            ELSE IF l.ok THEN [m |-> c, p |-> p] ELSE Fails(d)
    BY <1>1, <1>3
  <2> HIDE DEF S, Fails
  <2>6. /\ Good(k.m, S) /\ k.m.current = m.current
        /\ Owned(k.m, "elf") = Owned(m, "elf")
        /\ k.f = 0 => Owned(k.m, "stack") = Owned(m, "stack")
        /\ k.f # 0 => /\ Owned(k.m, "stack") = Owned(m, "stack") \cup Run(k.f, StackPages)
                      /\ Run(k.f, StackPages) \cap Owned(m, "stack") = {}
    <3>1. Good(a.m, S) /\ s \in S
      BY <2>1, <2>3
    <3>2. /\ Good(k.m, S) /\ k.m.current = a.m.current
          /\ Owned(k.m, "elf") = Owned(a.m, "elf")
          /\ k.f = 0 => Owned(k.m, "stack") = Owned(a.m, "stack")
          /\ k.f # 0 => /\ Owned(k.m, "stack") = Owned(a.m, "stack") \cup Run(k.f, StackPages)
                        /\ Run(k.f, StackPages) \cap Owned(a.m, "stack") = {}
      BY <3>1, StackKeeps
    <3> QED BY <2>2, <3>2
  <2> HIDE DEF k
  <2>7. CASE k.f = 0
    <3>1. r = Fails(k.m)
      BY <2>5, <2>7
    <3> QED BY <2>4, <2>6, <2>7, <3>1
  <2>8. CASE k.f # 0
    <3>1. r = IF ~e.ok THEN Fails(e.m)
              ELSE IF l.ok THEN [m |-> c, p |-> p] ELSE Fails(d)
      BY <2>5, <2>8
    <3>2. /\ e.ok \in BOOLEAN /\ Good(e.m, S) /\ e.m.current = m.current
          /\ Owned(e.m, "stack") = Owned(k.m, "stack")
          /\ Owned(k.m, "elf") \subseteq Owned(e.m, "elf")
          /\ ~e.ok /\ ~Oversized(image) => Owned(e.m, "elf") = Owned(k.m, "elf")
          /\ e.ok => Loading(k.m, S, e) /\ (~Oversized(image) => Whole(k.m, e, 0))
      BY <2>6, InitKeeps
    <3> HIDE DEF e
    <3>3. Owned(m, "stack") \subseteq Owned(k.m, "stack")
      BY <2>6, <2>8
    <3>4. CASE ~e.ok
      <4>1. r = Fails(e.m)
        BY <3>1, <3>4
      <4>2. Owned(m, "stack") \subseteq Owned(e.m, "stack") /\ Owned(m, "elf") \subseteq Owned(e.m, "elf")
        BY <2>6, <3>2, <3>3
      <4>3. ~Oversized(image) => Owned(e.m, "elf") = Owned(m, "elf")
        BY <2>6, <3>2, <3>4
      <4> QED BY <2>4, <3>2, <4>1, <4>2, <4>3
    <3>5. CASE e.ok
      <4>1. r = IF l.ok THEN [m |-> c, p |-> p] ELSE Fails(d)
        BY <3>1, <3>5
      <4>2. Good(b, S) /\ b.owner = e.m.owner
        BY <2>3, <3>2, SwitchKeeps
      <4> HIDE DEF b
      <4> DEFINE t == [ok |-> TRUE, m |-> b, ctx |-> e.ctx]
      <4>3. \A w : Owned(b, w) = Owned(e.m, w)
        BY <4>2 DEF Owned
      <4>4. Loading(k.m, S, t) /\ (~Oversized(image) => Whole(k.m, t, 0))
        <5>1. t.ok = TRUE /\ t.m = b /\ t.ctx = e.ctx /\ t = [ok |-> t.ok, m |-> t.m, ctx |-> t.ctx]
          OBVIOUS
        <5> HIDE DEF t
        <5>2. Loading(k.m, S, t)
          BY <3>2, <3>5, <4>2, <4>3, <5>1 DEF Loading
        <5>3. ~Oversized(image) => Whole(k.m, t, 0)
          BY <3>2, <3>5, <4>3, <5>1 DEF Whole
        <5> QED BY <5>2, <5>3
      <4>5. /\ Loading(k.m, S, l)
            /\ ~Oversized(image) => Owned(l.m, "elf") \subseteq Owned(k.m, "elf") \cup Recorded(l.ctx)
        BY <4>4, LoadKeeps
      <4> HIDE DEF l
      <4>6. /\ l.ok \in BOOLEAN /\ Good(l.m, S)
            /\ Owned(l.m, "stack") = Owned(k.m, "stack")
            /\ Owned(m, "elf") \subseteq Owned(l.m, "elf")
            /\ Recorded(l.ctx) \cap Owned(m, "elf") = {}
            /\ Recorded(l.ctx) \cap Owned(l.m, "table") = {}
            /\ Recorded(l.ctx) \cap Owned(l.m, "stack") = {}
            /\ l.ok => Recorded(l.ctx) \subseteq Owned(l.m, "elf")
        BY <2>6, <4>5 DEF Loading
      <4>7. Good(c, S) /\ c.current = m.current /\ c.owner = l.m.owner
        BY <2>3, <4>6, SwitchKeeps
      <4> HIDE DEF c
      <4>8. \A w : Owned(c, w) = Owned(l.m, w)
        BY <4>7 DEF Owned
      <4>9. CASE l.ok
        <5>1. r = [m |-> c, p |-> p]
          BY <4>1, <4>9
        <5>2. r.m = c /\ r.p = p /\ r.p.space = s /\ r.p.stack = k.f /\ r.p.ctx = l.ctx /\ r.p # None
          BY <5>1, ProcessIsSome
        <5> HIDE DEF p
        <5>3. Good(r.m, spaces \cup {r.p.space})
          BY <4>7, <5>2 DEF S
        <5>4. /\ Owned(m, "stack") \subseteq Owned(r.m, "stack")
              /\ Run(r.p.stack, StackPages) \subseteq Owned(r.m, "stack") \ Owned(m, "stack")
          BY <2>6, <2>8, <4>6, <4>8, <5>2
        <5>5. /\ Owned(m, "elf") \subseteq Owned(r.m, "elf")
              /\ Recorded(r.p.ctx) \subseteq Owned(r.m, "elf") \ Owned(m, "elf")
              /\ ~Oversized(image) => Owned(r.m, "elf") \subseteq Owned(m, "elf") \cup Recorded(r.p.ctx)
          BY <2>6, <4>5, <4>6, <4>8, <4>9, <5>2
        <5> QED BY <2>1, <5>2, <5>3, <5>4, <5>5 DEF Succeeded
      <4>10. CASE ~l.ok
        <5>1. r = Fails(d)
          BY <4>1, <4>6, <4>10
        <5>2. Releases(c, S, Recorded(l.ctx), d)
          BY <4>6, <4>7, <4>8 DEF Releases, elf_cleanup
        <5> HIDE DEF d
        <5>3. Good(d, S) /\ d.current = c.current /\ \A w : Owned(d, w) = Owned(c, w) \ Recorded(l.ctx)
          BY <5>2, ReleaseOwns
        <5>4. Owned(m, "stack") \subseteq Owned(d, "stack")
          BY <3>3, <4>6, <4>8, <5>3
        <5>5. Owned(m, "elf") \subseteq Owned(d, "elf")
          BY <4>6, <4>8, <5>3
        <5>6. ~Oversized(image) => Owned(d, "elf") = Owned(m, "elf")
          BY <2>6, <4>5, <4>6, <4>8, <5>3, <5>5
        <5> QED BY <2>4, <4>7, <5>1, <5>3, <5>4, <5>5, <5>6
      <4> QED BY <4>6, <4>9, <4>10
    <3> QED BY <3>2, <3>4, <3>5
  <2> QED BY <2>7, <2>8
<1> QED BY <1>2, <1>3
-----------------------------------------------------------------------------
(* The windows of the drivers.                                             *)

LEMMA WrapIsSafe ==
  ASSUME NEW x \in Nat, x < VirtSize + 2 * PD * PT, x < Half \/ x >= AreaBase
  PROVE  Safe(x % VirtSize)
<1> DEFINE H == Half
           P == PD * PT
           W == VirtSize
<1>1. H \in Nat /\ W = 2 * H /\ H = 4 * P /\ P \in Nat \ {0} /\ 2 * PD * PT = 2 * P
  BY Bounds
<1>2. W \in Nat \ {0} /\ AreaBase \in Nat
  BY <1>1, Bounds
<1>3. CASE x < VirtSize
  <2>1. x % VirtSize = x
    BY <1>2, <1>3
  <2> QED BY <1>2, <1>3, <2>1 DEF Safe
<1>4. CASE x >= VirtSize
  <2> DEFINE y == x - W
  <2>1. y \in 0..W - 1 /\ y < H /\ x = 1 * W + y
    BY <1>1, <1>2, <1>4
  <2> HIDE DEF H, P, W, y
  <2>2. x % W = y
    BY <1>2, <2>1, Quotient
  <2> QED BY <2>1, <2>2 DEF Safe, W, H
<1> QED BY <1>2, <1>3, <1>4

\* Where vmm_map_physical maps.
LEMMA WindowAt ==
  ASSUME NEW f \in Nat
  PROVE  /\ PhysicalAt(f) \in Nat /\ PhysicalAt(f) < VirtSize
         /\ PhysicalAt(f) >= HighBase \/ PhysicalAt(f) < PD * PT
         /\ f < PD * PT => PhysicalAt(f) = Half + 3 * (PD * PT) + f
<1> DEFINE H == Half
           P == PD * PT
           G == FourG
           W == VirtSize
           v == PhysicalAt(f)
<1> SUFFICES /\ v \in Nat /\ v < W /\ (v >= HighBase \/ v < P)
             /\ f < P => v = H + 3 * P + f
  OBVIOUS
<1>1. /\ H \in Nat /\ W = 2 * H /\ H = 4 * P /\ P \in Nat \ {0} /\ G = 2 * P
      /\ HighBase = H + 2 * P /\ KERNEL_VIRTUAL_BASE = H + 3 * P
  BY Bounds DEF FourG, HighBase, KERNEL_VIRTUAL_BASE
<1>2. v = IF f >= G THEN HighBase + (f % G) ELSE (f + KERNEL_VIRTUAL_BASE) % W
  BY DEF PhysicalAt
<1>3. f % G \in Nat /\ f % G < G
  BY <1>1
<1> HIDE DEF H, P, G, W, v
<1>4. CASE f >= G
  <2>1. v = H + 2 * P + (f % G)
    BY <1>1, <1>2, <1>4
  <2> QED BY <1>1, <1>3, <1>4, <2>1
<1>5. CASE f < G
  <2>1. v = (f + H + 3 * P) % W
    BY <1>1, <1>2, <1>5
  <2>2. CASE f < P
    <3>1. f + H + 3 * P \in 0..W - 1
      BY <1>1, <2>2
    <3>2. (f + H + 3 * P) % W = f + H + 3 * P
      <4>1. f + H + 3 * P = 0 * W + (f + H + 3 * P) /\ W \in Nat \ {0}
        BY <1>1
      <4> QED BY <3>1, <4>1, Quotient
    <3> QED BY <1>1, <2>1, <2>2, <3>1, <3>2
  <2>3. CASE f >= P
    <3>1. f + H + 3 * P = 1 * W + (f - P) /\ f - P \in 0..W - 1 /\ W \in Nat \ {0} /\ f - P < P
      BY <1>1, <1>5, <2>3
    <3>2. v = f - P
      <4>1. PICK y \in 0..W - 1 : y = f - P
        BY <3>1
      <4>2. (1 * W + y) % W = y
        BY <3>1, Quotient
      <4> QED BY <2>1, <3>1, <4>1, <4>2
    <3> QED BY <1>1, <2>3, <3>1, <3>2
  <2> QED BY <1>1, <2>2, <2>3
<1> QED BY <1>1, <1>4, <1>5

\* It never maps over the direct map of the frames.
LEMMA WindowIsSafe ==
  ASSUME NEW f \in Nat, NEW n, n \in 0..PD * PT
  PROVE  \A i \in 0..n - 1 : Safe((PhysicalAt(f) + i) % VirtSize)
<1> SUFFICES ASSUME NEW i \in 0..n - 1 PROVE Safe((PhysicalAt(f) + i) % VirtSize)
  OBVIOUS
<1> DEFINE H == Half
           P == PD * PT
           v == PhysicalAt(f)
           x == v + i
<1>1. /\ H \in Nat /\ VirtSize = 2 * H /\ H = 4 * P /\ P \in Nat \ {0}
      /\ HighBase = H + 2 * P /\ AreaBase <= H + P /\ AreaBase \in Nat /\ 2 * PD * PT = 2 * P
  BY Bounds DEF HighBase
<1>2. v \in Nat /\ v < VirtSize /\ (v >= HighBase \/ v < P)
  BY WindowAt
<1> HIDE DEF v, P, H
<1>3. i \in Nat /\ i < P
  <2>1. n \in 0..P
    BY DEF P
  <2> QED BY <1>1, <2>1
<1>4. x \in Nat /\ x < VirtSize + 2 * PD * PT /\ (x < H \/ x >= AreaBase)
  BY <1>1, <1>2, <1>3
<1> HIDE DEF x
<1>5. Safe(x % VirtSize)
  BY <1>4, WrapIsSafe DEF H
<1> QED BY <1>5 DEF x, v

\* vmm_map_physical.
LEMMA MapPhysicalKeeps ==
  ASSUME NEW a, NEW S, Good(a, S), NEW f \in Nat, NEW n, n \in 0..PD * PT,
         NEW r, r = vmm_map_physical(a, f, n)
  PROVE  Mapping(a, S, r)
<1>1. n \in Nat
  BY Bounds
<1>2. r = vmm_map_pages(a, PhysicalAt(f), f, n)
  BY DEF vmm_map_physical
<1> QED BY <1>1, <1>2, WindowIsSafe, MapPagesKeeps

\* alloc_dma_buffer.
LEMMA DmaKeeps ==
  ASSUME NEW a, NEW S, Good(a, S), NEW n \in Nat, NEW f, f = pmm_alloc_pages(a, n), f # 0,
         NEW p, p = vmm_map_physical(Taken(a, f, n, "dma"), f, n),
         NEW c, c = IF p.ok THEN p.m ELSE pmm_free_pages(p.m, f, n)
  PROVE  /\ Good(c, S) /\ f \in 1..AreaFrame - 1
         /\ Owned(c, "elf") = Owned(a, "elf") /\ Owned(c, "stack") = Owned(a, "stack")
<1> DEFINE b == Taken(a, f, n, "dma")
           F == Run(f, n)
<1>1. /\ Good(b, S) /\ b.current = a.current /\ b.ram = a.ram /\ f \in Nat /\ n > 0
      /\ Owned(b, "dma") = Owned(a, "dma") \cup F
      /\ \A w : w # "dma" => Owned(b, w) = Owned(a, w)
      /\ \A w : F \cap Owned(a, w) = {}
      /\ F \subseteq a.ram
  BY TakeOwns
<1>2. a.ram \subseteq 1..AreaFrame - 1
  BY DEF Good, Memory
<1>3. f \in F /\ f + n - 1 \in F
  BY <1>1 DEF Run
<1>4. n \in 0..PD * PT
  <2>1. f + n - 1 < AreaFrame /\ f >= 1
    BY <1>1, <1>2, <1>3, Bounds
  <2>2. 2 * AreaFrame <= PD * PT /\ AreaFrame \in Nat /\ PD * PT \in Nat
    BY Bounds
  <2> QED BY <1>1, <2>1, <2>2
<1> HIDE DEF b
<1>5. Mapping(b, S, p)
  BY <1>1, <1>4, MapPhysicalKeeps DEF b
<1>6. p.ok \in BOOLEAN /\ Good(p.m, S) /\ Grown(b, p.m)
  BY <1>5 DEF Mapping
<1>7. p.m.ram = a.ram /\ \A w : w # "table" => Owned(p.m, w) = Owned(b, w)
  BY <1>1, <1>6, GrownOwns DEF Grown
<1> HIDE DEF F
<1>8. CASE p.ok
  BY <1>1, <1>2, <1>3, <1>6, <1>7, <1>8
<1>9. CASE ~p.ok
  <2>1. Releases(p.m, S, F, c)
    <3>1. F \subseteq Owned(p.m, "dma")
      BY <1>1, <1>7
    <3>2. F \cap Owned(p.m, "table") = {}
      BY <3>1 DEF Owned
    <3>3. c = Freed(p.m, F \cap p.m.ram)
      BY <1>9 DEF pmm_free_pages, F
    <3> QED BY <1>6, <3>2, <3>3 DEF Releases
  <2>2. Good(c, S) /\ c.ram = p.m.ram /\ \A w : Owned(c, w) = Owned(p.m, w) \ F
    BY <2>1, ReleaseOwns
  <2>3. Owned(p.m, "elf") = Owned(a, "elf") /\ F \cap Owned(a, "elf") = {}
    BY <1>1, <1>7
  <2>4. Owned(p.m, "stack") = Owned(a, "stack") /\ F \cap Owned(a, "stack") = {}
    BY <1>1, <1>7
  <2>5. Owned(c, "elf") = Owned(a, "elf")
    BY <2>2, <2>3
  <2>6. Owned(c, "stack") = Owned(a, "stack")
    BY <2>2, <2>4
  <2>7. f \in 1..AreaFrame - 1
    BY <1>1, <1>2, <1>3
  <2> QED BY <2>2, <2>5, <2>6, <2>7
<1> QED BY <1>6, <1>8, <1>9

\* free_dma_buffer gives no frame back: those it names are not the allocator's.
LEMMA DmaFreeKeeps ==
  ASSUME NEW a, NEW S, Good(a, S), NEW f \in 1..AreaFrame - 1, NEW n \in Nat,
         NEW c, c = pmm_free_pages(vmm_unmap_physical(a, PhysicalAt(f), n), virt_to_phys(a, PhysicalAt(f)), n)
  PROVE  /\ Good(c, S)
         /\ Owned(c, "elf") = Owned(a, "elf") /\ Owned(c, "stack") = Owned(a, "stack")
<1> DEFINE v == PhysicalAt(f)
           b == vmm_unmap_physical(a, v, n)
           x == virt_to_phys(a, v)
           F == Run(x, n)
<1>1. a.ram \subseteq 1..AreaFrame - 1
  BY DEF Good, Memory
<1>2. f \in Nat /\ f < AreaFrame /\ f < PD * PT
  BY <1>1, Bounds
<1>3. x = 3 * (PD * PT) + f /\ x \in Nat /\ x >= AreaFrame
  <2>1. v = Half + 3 * (PD * PT) + f
    BY <1>2, WindowAt
  <2> HIDE DEF v
  <2>2. v >= hhdm_offset
    BY <1>2, <2>1, Bounds DEF hhdm_offset
  <2>3. x = v - hhdm_offset
    BY <2>2 DEF virt_to_phys
  <2> HIDE DEF x
  <2> QED BY <1>2, <2>1, <2>3, Bounds DEF hhdm_offset
<1>4. Good(b, S) /\ Grown(a, b)
  <2>1. b = vmm_unmap_pages(a, v, n)
    BY DEF vmm_unmap_physical
  <2> QED BY <2>1, UnmapPagesKeeps
<1>5. c = Freed(b, F \cap b.ram)
  BY DEF pmm_free_pages
<1> HIDE DEF v, b, x
<1>6. b.ram = a.ram
  BY <1>4 DEF Grown
<1>7. F \cap a.ram = {}
  BY <1>1, <1>3, Bounds DEF Run
<1> HIDE DEF F
<1>8. \A w : F \cap Owned(b, w) = {}
  BY <1>4, <1>6, <1>7 DEF Good, Memory, Owned
<1>9. Releases(b, S, F, c)
  BY <1>4, <1>5, <1>8 DEF Releases
<1>10. Good(c, S) /\ c.ram = b.ram /\ \A w : Owned(c, w) = Owned(b, w) \ F
  BY <1>9, ReleaseOwns
<1>11. Owned(b, "elf") = Owned(a, "elf") /\ Owned(b, "stack") = Owned(a, "stack")
  BY <1>4, GrownOwns
<1> QED BY <1>6, <1>8, <1>10, <1>11
-----------------------------------------------------------------------------
(* The invariant.                                                          *)

Processes ==
  /\ procs = [s \in Slots |-> procs[s]]
  /\ oversized \in BOOLEAN
  /\ \A s \in Slots : procs[s] # None => procs[s].space \in spaces \ Boot
  /\ \A s, t \in Slots :
       s # t /\ procs[s] # None /\ procs[t] # None => procs[s].space # procs[t].space

Drivers ==
  /\ \A b \in dma : b.f \in 1..AreaFrame - 1 /\ b.n \in Nat
  /\ regs \subseteq Registers
  /\ kmem \in Nat

(* LoaderExact, of the frames of the loader and of stacks.                 *)
Fits(E, K, P, o) ==
  /\ \A s \in Slots : P[s] # None => /\ Recorded(P[s].ctx) \subseteq E
                                     /\ Run(P[s].stack, StackPages) \subseteq K
  /\ \A s, t \in Slots : s # t /\ P[s] # None /\ P[t] # None =>
       /\ Recorded(P[s].ctx) \cap Recorded(P[t].ctx) = {}
       /\ Run(P[s].stack, StackPages) \cap Run(P[t].stack, StackPages) = {}
  /\ ~o => \A f \in E : \E s \in Slots : P[s] # None /\ f \in Recorded(P[s].ctx)

LEMMA LoaderFits ==
  LoaderExact <=> Fits(Owned(m, "elf"), Owned(m, "stack"), procs, oversized)
<1> DEFINE E == {f \in DOMAIN m.owner : m.owner[f] = "elf"}
           U == UNION {Recorded(procs[s].ctx) : s \in Live}
<1>1. E = Owned(m, "elf")
  BY DEF Owned
<1>2. U \subseteq E <=> \A s \in Slots : procs[s] # None => Recorded(procs[s].ctx) \subseteq E
  BY DEF Live
<1>3. E \subseteq U <=> \A f \in E : \E s \in Slots : procs[s] # None /\ f \in Recorded(procs[s].ctx)
  BY DEF Live
<1>4. (\A s \in Live : \A f \in Run(procs[s].stack, StackPages) : f \in DOMAIN m.owner /\ m.owner[f] = "stack")
        <=> \A s \in Slots : procs[s] # None => Run(procs[s].stack, StackPages) \subseteq Owned(m, "stack")
  BY DEF Live, Owned
<1>5. LoaderExact <=>
        /\ U \subseteq E
        /\ ~oversized => E = U
        /\ \A s \in Live : \A f \in Run(procs[s].stack, StackPages) : f \in DOMAIN m.owner /\ m.owner[f] = "stack"
        /\ \A s, t \in Live : s # t =>
             /\ Recorded(procs[s].ctx) \cap Recorded(procs[t].ctx) = {}
             /\ Run(procs[s].stack, StackPages) \cap Run(procs[t].stack, StackPages) = {}
  BY DEF LoaderExact
<1>6. (\A s, t \in Live : s # t =>
        /\ Recorded(procs[s].ctx) \cap Recorded(procs[t].ctx) = {}
        /\ Run(procs[s].stack, StackPages) \cap Run(procs[t].stack, StackPages) = {})
      <=> \A s, t \in Slots : s # t /\ procs[s] # None /\ procs[t] # None =>
            /\ Recorded(procs[s].ctx) \cap Recorded(procs[t].ctx) = {}
            /\ Run(procs[s].stack, StackPages) \cap Run(procs[t].stack, StackPages) = {}
  BY DEF Live
<1> HIDE DEF E, U
<1> QED BY <1>1, <1>2, <1>3, <1>4, <1>5, <1>6 DEF Fits

Inv ==
  /\ Good(m, spaces)
  /\ Processes
  /\ Fits(Owned(m, "elf"), Owned(m, "stack"), procs, oversized)
  /\ Drivers

\* The machine the boot loader hands over.
LEMMA BootIsGood ==
  ASSUME SmallMachine, Init PROVE Good(m, spaces)
<1>1. PICK n \in RamSizes, pages \in {"2M", "1G"} :
        m = [ram |-> 1..n, owner |-> <<>>, current |-> BootPml4, area |-> FALSE,
             tables |-> [f \in 1..n \cup {i * PT : i \in 0..PD - 1}
                                   \cup {BootPml4, BootPdpt, DirectPd, KernelPd, KernelPt}
                           |-> BootTables(pages, f)]]
  BY DEF Init
<1>2. /\ m.ram = 1..n /\ m.owner = <<>> /\ m.current = BootPml4
      /\ m = [ram |-> m.ram, owner |-> m.owner, current |-> m.current, area |-> m.area,
              tables |-> m.tables]
      /\ DOMAIN m.tables = 1..n \cup {i * PT : i \in 0..PD - 1} \cup Boot
      /\ m.tables = [f \in DOMAIN m.tables |-> m.tables[f]]
      /\ \A t \in Boot : m.tables[t] = BootTables(pages, t)
  BY <1>1 DEF Boot
<1>3. n \in Nat /\ n < AreaFrame /\ AreaFrame \in Nat
  BY MemoryAssumption DEF SmallMachine
<1>4. DOMAIN m.owner = {}
  BY <1>2
<1>5. Memory(m)
  <2>1. m.ram \subseteq 1..AreaFrame - 1
    BY <1>2, <1>3
  <2> QED BY <1>2, <1>4, <2>1 DEF Memory
<1>6. Tables(m) = Boot
  BY <1>4 DEF Tables, Owned
<1>7. spaces = {BootPml4}
  BY DEF Init
<1> DEFINE lev == [t \in Boot |-> IF t = BootPml4 THEN 4 ELSE IF t = BootPdpt THEN 3
                                  ELSE IF t = KernelPt THEN 1 ELSE 2]
           home == [t \in Boot |-> IF t = BootPml4 THEN BootPml4 ELSE BootPdpt]
<1>8. /\ lev[BootPml4] = 4 /\ lev[BootPdpt] = 3 /\ lev[DirectPd] = 2 /\ lev[KernelPd] = 2 /\ lev[KernelPt] = 1
      /\ home[BootPml4] = BootPml4 /\ home[BootPdpt] = BootPdpt /\ home[DirectPd] = BootPdpt
      /\ home[KernelPd] = BootPdpt /\ home[KernelPt] = BootPdpt
  BY BootFrames DEF Boot
<1>9. /\ m.tables[BootPml4] = [i \in {1} |-> Entry(BootPdpt)]
      /\ m.tables[BootPdpt] = [i \in {0, 3} |-> IF i = 3 THEN Entry(KernelPd)
                                 ELSE IF pages = "1G" THEN Huge(0) ELSE Entry(DirectPd)]
      /\ m.tables[DirectPd] = [i \in 0..PD - 1 |-> Huge(i * PT)]
      /\ m.tables[KernelPd] = [i \in {0} |-> Entry(KernelPt)]
      /\ m.tables[KernelPt] = [i \in {0} |-> Entry(KernelImage)]
  BY <1>2, BootFrames DEF BootTables, Boot
<1> HIDE DEF lev, home
<1>10. /\ DOMAIN m.tables[BootPml4] = {1} /\ m.tables[BootPml4][1] = Entry(BootPdpt)
       /\ DOMAIN m.tables[BootPdpt] = {0, 3} /\ m.tables[BootPdpt][3] = Entry(KernelPd)
       /\ m.tables[BootPdpt][0] \in {Huge(0), Entry(DirectPd)}
       /\ DOMAIN m.tables[DirectPd] = 0..PD - 1
       /\ \A i \in 0..PD - 1 : m.tables[DirectPd][i] = Huge(i * PT)
       /\ DOMAIN m.tables[KernelPd] = {0} /\ m.tables[KernelPd][0] = Entry(KernelPt)
       /\ DOMAIN m.tables[KernelPt] = {0} /\ m.tables[KernelPt][0] = Entry(KernelImage)
  BY <1>9
<1>11. \A f : Entry(f).to = f /\ ~Entry(f).huge /\ Huge(f).to = f /\ Huge(f).huge
  BY DEF Entry, Huge
<1>12. \A i \in DOMAIN m.tables[DirectPd] : m.tables[DirectPd][i].huge
  BY <1>9 DEF Huge
<1>13. Levels(m, spaces, lev, home)
  BY <1>6, <1>7, <1>8, BootFrames DEF Levels, Boot
<1>14. Edges(m, lev, home)
  <2>1. \A t \in Boot : t \in {BootPml4, BootPdpt, DirectPd, KernelPd, KernelPt}
    BY DEF Boot
  <2>2. BootPdpt \in Boot /\ KernelPd \in Boot /\ DirectPd \in Boot /\ KernelPt \in Boot
    BY DEF Boot
  <2>3. ASSUME NEW p \in Boot, NEW i \in DOMAIN m.tables[p], lev[p] > 1, ~m.tables[p][i].huge
        PROVE  /\ m.tables[p][i].to \in Boot
               /\ lev[m.tables[p][i].to] = lev[p] - 1
               /\ (lev[p] = 4 /\ i = 1) \/ home[m.tables[p][i].to] = home[p]
               /\ m.tables[p][i].to = DirectPd => p = BootPdpt /\ i = 0
    <3>1. CASE p = BootPml4
      BY <1>8, <1>10, <1>11, <2>2, <3>1, BootFrames
    <3>2. CASE p = BootPdpt
      BY <1>8, <1>10, <1>11, <2>2, <2>3, <3>2, BootFrames
    <3>3. CASE p = DirectPd
      BY <1>12, <2>3, <3>3
    <3>4. CASE p = KernelPd
      BY <1>8, <1>10, <1>11, <2>2, <3>4, BootFrames
    <3>5. CASE p = KernelPt
      BY <1>8, <2>3, <3>5
    <3> QED BY <2>1, <3>1, <3>2, <3>3, <3>4, <3>5
  <2> QED BY <1>6, <2>3 DEF Edges
<1>15. Roots(m, spaces)
  BY <1>7, <1>10 DEF Roots
<1>16. HugePages(m)
  <2> SUFFICES ASSUME NEW t \in Boot, NEW i \in DOMAIN m.tables[t], m.tables[t][i].huge
               PROVE  \/ t = BootPdpt /\ i = 0 /\ m.tables[t][i].to = 0
                      \/ t = DirectPd /\ m.tables[t][i].to = i * PT
    BY <1>6 DEF HugePages
  <2>1. CASE t = BootPdpt
    BY <1>10, <1>11, <2>1
  <2>2. CASE t = DirectPd
    BY <1>10, <1>11, <2>2
  <2>3. CASE t \in {BootPml4, KernelPd, KernelPt}
    BY <1>10, <1>11, <2>3
  <2> QED BY <2>1, <2>2, <2>3 DEF Boot
<1>17. Parents(m, lev, home)
  <2> SUFFICES ASSUME NEW t \in Boot,
                      t = DirectPd => \E i \in DOMAIN m.tables[t] : ~m.tables[t][i].huge
               PROVE  Anchored(m, lev, home, t)
    BY <1>6 DEF Parents
  <2>1. CASE t \in {BootPml4, BootPdpt}
    BY <1>8, <2>1 DEF Anchored
  <2>2. CASE t = DirectPd
    BY <1>12, <2>2
  <2>3. CASE t = KernelPd
    <3>1. Leads(m, lev, home, BootPdpt, 3, t)
      BY <1>8, <1>10, <1>11, <2>3 DEF Leads
    <3> QED BY <1>6, <3>1 DEF Anchored, HasParent, Boot
  <2>4. CASE t = KernelPt
    <3>1. Leads(m, lev, home, KernelPd, 0, t)
      BY <1>8, <1>10, <1>11, <2>4 DEF Leads
    <3> QED BY <1>6, <3>1 DEF Anchored, HasParent, Boot
  <2> QED BY <2>1, <2>2, <2>3, <2>4 DEF Boot
<1>18. Tree(m, spaces, lev, home)
  BY <1>13, <1>14, <1>15, <1>16, <1>17 DEF Tree
<1> QED BY <1>2, <1>5, <1>7, <1>18 DEF Good

LEMMA InitHolds ==
  ASSUME SmallMachine, Init PROVE Inv
<1>1. Good(m, spaces)
  BY BootIsGood
<1>2. \A who : Owned(m, who) = {}
  BY DEF Init, Owned
<1>3. \A s \in Slots : procs[s] = None
  BY DEF Init
<1>4. Processes
  BY <1>3 DEF Init, Processes
<1>5. Fits(Owned(m, "elf"), Owned(m, "stack"), procs, oversized)
  BY <1>2, <1>3 DEF Fits
<1>6. Drivers
  BY DEF Init, Drivers
<1> QED BY <1>1, <1>4, <1>5, <1>6 DEF Inv

\* An operation that neither creates nor ends a process, and leaves the frames of
\* the loader and the stacks alone.
LEMMA Unconcerned ==
  ASSUME Inv, Good(m', spaces), Owned(m', "elf") = Owned(m, "elf"),
         Owned(m', "stack") = Owned(m, "stack"), Drivers', UNCHANGED <<procs, spaces, oversized>>
  PROVE  Inv'
<1>1. Fits(Owned(m', "elf"), Owned(m', "stack"), procs', oversized')
  BY DEF Inv
<1>2. Processes'
  BY DEF Inv, Processes
<1> QED BY <1>1, <1>2 DEF Inv

\* process_create.
LEMMA CreateStep ==
  ASSUME SmallMachine, Inv, NEW s \in Slots, NEW image \in Images, process_create(s, image)
  PROVE  Inv'
<1>1. Good(m, spaces) /\ Processes /\ Fits(Owned(m, "elf"), Owned(m, "stack"), procs, oversized) /\ Drivers
  BY DEF Inv
<1>2. PICK r : /\ r = Created(image)
               /\ m' = r.m
               /\ procs' = [procs EXCEPT ![s] = r.p]
               /\ spaces' = IF r.p = None THEN spaces ELSE spaces \cup {r.p.space}
  BY DEF process_create
<1>3. /\ procs[s] = None /\ oversized' = (oversized \/ Oversized(image)) /\ UNCHANGED <<dma, regs, kmem>>
      /\ oversized \in BOOLEAN
  BY <1>1 DEF process_create, Processes
<1>4. Failed(image, r) \/ Succeeded(image, r)
  BY <1>1, <1>2, CreatedKeeps
<1>5. /\ procs'[s] = r.p /\ \A t \in Slots \ {s} : procs'[t] = procs[t]
      /\ procs' = [t \in Slots |-> procs'[t]]
  BY <1>1, <1>2 DEF Processes
<1>6. Drivers'
  BY <1>1, <1>3 DEF Drivers
<1>7. oversized' \in BOOLEAN /\ (~oversized' => ~oversized /\ ~Oversized(image))
  BY <1>3 DEF Oversized
<1>8. CASE Failed(image, r)
  <2>1. /\ r.p = None /\ Good(m', spaces) /\ spaces' = spaces
        /\ Owned(m, "stack") \subseteq Owned(m', "stack")
        /\ Owned(m, "elf") \subseteq Owned(m', "elf")
        /\ ~Oversized(image) => Owned(m', "elf") = Owned(m, "elf")
    BY <1>2, <1>8 DEF Failed
  <2>2. \A t \in Slots : procs'[t] = procs[t]
    BY <1>3, <1>5, <2>1
  <2>3. Processes'
    BY <1>1, <1>5, <1>7, <2>1, <2>2 DEF Processes
  <2>4. Fits(Owned(m', "elf"), Owned(m', "stack"), procs', oversized')
    BY <1>1, <1>7, <2>1, <2>2 DEF Fits
  <2> QED BY <1>6, <2>1, <2>3, <2>4 DEF Inv
<1>9. CASE Succeeded(image, r)
  <2> DEFINE p == r.p
  <2>1. /\ p # None /\ p.space \notin spaces \cup Boot /\ Good(m', spaces')
        /\ spaces' = spaces \cup {p.space}
        /\ Owned(m, "stack") \subseteq Owned(m', "stack")
        /\ Run(p.stack, StackPages) \subseteq Owned(m', "stack") \ Owned(m, "stack")
        /\ Owned(m, "elf") \subseteq Owned(m', "elf")
        /\ Recorded(p.ctx) \subseteq Owned(m', "elf") \ Owned(m, "elf")
        /\ ~Oversized(image) => Owned(m', "elf") \subseteq Owned(m, "elf") \cup Recorded(p.ctx)
    BY <1>2, <1>9 DEF Succeeded
  <2>2. procs'[s] = p
    BY <1>5
  <2> HIDE DEF p
  <2>3. Processes'
    <3>1. \A t \in Slots : procs'[t] # None => procs'[t].space \in spaces' \ Boot
      BY <1>1, <1>5, <2>1, <2>2 DEF Processes
    <3>2. \A t \in Slots \ {s} : procs'[t] # None => procs'[t].space # p.space
      BY <1>1, <1>5, <2>1 DEF Processes
    <3>3. \A t, u \in Slots : t # u /\ procs'[t] # None /\ procs'[u] # None => procs'[t].space # procs'[u].space
      BY <1>1, <1>5, <2>2, <3>2 DEF Processes
    <3> QED BY <1>5, <1>7, <3>1, <3>3 DEF Processes
  <2>4. Fits(Owned(m', "elf"), Owned(m', "stack"), procs', oversized')
    <3>1. \A t \in Slots \ {s} : procs'[t] # None =>
            /\ Recorded(procs'[t].ctx) \subseteq Owned(m, "elf")
            /\ Run(procs'[t].stack, StackPages) \subseteq Owned(m, "stack")
      BY <1>1, <1>5 DEF Fits
    <3>2. \A t \in Slots : procs'[t] # None =>
            /\ Recorded(procs'[t].ctx) \subseteq Owned(m', "elf")
            /\ Run(procs'[t].stack, StackPages) \subseteq Owned(m', "stack")
      BY <2>1, <2>2, <3>1
    <3>3. \A t, u \in Slots : t # u /\ procs'[t] # None /\ procs'[u] # None =>
            /\ Recorded(procs'[t].ctx) \cap Recorded(procs'[u].ctx) = {}
            /\ Run(procs'[t].stack, StackPages) \cap Run(procs'[u].stack, StackPages) = {}
      <4>1. \A t \in Slots \ {s} : procs'[t] # None =>
              /\ Recorded(procs'[t].ctx) \cap Recorded(p.ctx) = {}
              /\ Run(procs'[t].stack, StackPages) \cap Run(p.stack, StackPages) = {}
        BY <2>1, <3>1
      <4>2. \A t, u \in Slots \ {s} : t # u /\ procs'[t] # None /\ procs'[u] # None =>
              /\ Recorded(procs'[t].ctx) \cap Recorded(procs'[u].ctx) = {}
              /\ Run(procs'[t].stack, StackPages) \cap Run(procs'[u].stack, StackPages) = {}
        BY <1>1, <1>5 DEF Fits
      <4> QED BY <2>2, <4>1, <4>2
    <3>4. ASSUME ~oversized', NEW f \in Owned(m', "elf")
          PROVE  \E t \in Slots : procs'[t] # None /\ f \in Recorded(procs'[t].ctx)
      <4>1. CASE f \in Recorded(p.ctx)
        BY <2>1, <2>2, <4>1
      <4>2. CASE f \in Owned(m, "elf")
        <5>1. PICK t \in Slots : procs[t] # None /\ f \in Recorded(procs[t].ctx)
          BY <1>1, <1>7, <3>4, <4>2 DEF Fits
        <5>2. t # s /\ procs'[t] = procs[t]
          BY <1>3, <1>5, <5>1
        <5> QED BY <5>1, <5>2
      <4> QED BY <1>7, <2>1, <3>4, <4>1, <4>2
    <3> QED BY <3>2, <3>3, <3>4 DEF Fits
  <2> QED BY <1>6, <2>1, <2>3, <2>4 DEF Inv
<1> QED BY <1>4, <1>8, <1>9

\* process_terminate.
LEMMA TerminateStep ==
  ASSUME SmallMachine, Inv, NEW s \in Slots, process_terminate(s)
  PROVE  Inv'
<1>1. Good(m, spaces) /\ Processes /\ Fits(Owned(m, "elf"), Owned(m, "stack"), procs, oversized) /\ Drivers
  BY DEF Inv
<1> DEFINE p == procs[s]
           R == Recorded(p.ctx)
           c == elf_cleanup(m, p.ctx)
<1>2. /\ p # None /\ m' = vmm_delete_address_space(c, p.space)
      /\ spaces' = (IF p.space = m.current THEN spaces ELSE spaces \ {p.space})
      /\ procs' = [procs EXCEPT ![s] = None]
      /\ UNCHANGED <<dma, regs, kmem, oversized>>
  BY DEF process_terminate
<1>3. p.space \in spaces \ Boot /\ R \subseteq Owned(m, "elf")
  BY <1>1, <1>2 DEF Processes, Fits
<1>4. Releases(m, spaces, R, c)
  <2>1. R \cap Owned(m, "table") = {}
    BY <1>3 DEF Owned
  <2> QED BY <1>1, <2>1 DEF Releases, elf_cleanup
<1> HIDE DEF c
<1>5. Good(c, spaces) /\ c.current = m.current /\ c.ram = m.ram /\ \A who : Owned(c, who) = Owned(m, who) \ R
  BY <1>4, ReleaseOwns
<1>6. Good(m', IF p.space = c.current THEN spaces ELSE spaces \ {p.space}) /\ Shrunk(c, m')
  BY <1>2, <1>3, <1>5, DeleteKeeps
<1>7. Good(m', spaces')
  BY <1>2, <1>5, <1>6
<1>8. Owned(m', "elf") = Owned(m, "elf") \ R
  BY <1>5, <1>6, ShrunkOwns
<1>9. Owned(m', "stack") = Owned(m, "stack")
  <2>1. R \cap Owned(m, "stack") = {}
    BY <1>3 DEF Owned
  <2>2. Owned(m', "stack") = Owned(m, "stack") \ R
    BY <1>5, <1>6, ShrunkOwns
  <2> QED BY <2>1, <2>2
<1>10. /\ procs'[s] = None /\ \A t \in Slots \ {s} : procs'[t] = procs[t]
       /\ procs' = [t \in Slots |-> procs'[t]]
  BY <1>1, <1>2 DEF Processes
<1>11. Drivers'
  BY <1>1, <1>2 DEF Drivers
<1>12. Processes'
  <2>1. \A t \in Slots \ {s} : procs[t] # None => procs[t].space # p.space /\ procs[t].space \in spaces \ Boot
    BY <1>1, <1>2 DEF Processes
  <2>2. \A t \in Slots : procs'[t] # None => procs'[t].space \in spaces' \ Boot
    BY <1>2, <1>10, <2>1
  <2>3. \A t, u \in Slots : t # u /\ procs'[t] # None /\ procs'[u] # None => procs'[t].space # procs'[u].space
    BY <1>1, <1>10 DEF Processes
  <2>4. oversized' \in BOOLEAN
    BY <1>1, <1>2 DEF Processes
  <2> QED BY <1>10, <2>2, <2>3, <2>4 DEF Processes
<1>13. Fits(Owned(m', "elf"), Owned(m', "stack"), procs', oversized')
  <2>1. \A t \in Slots \ {s} : procs[t] # None =>
          /\ Recorded(procs[t].ctx) \subseteq Owned(m, "elf") /\ Recorded(procs[t].ctx) \cap R = {}
          /\ Run(procs[t].stack, StackPages) \subseteq Owned(m, "stack")
    BY <1>1, <1>2 DEF Fits
  <2>2. \A t \in Slots : procs'[t] # None =>
          /\ Recorded(procs'[t].ctx) \subseteq Owned(m', "elf")
          /\ Run(procs'[t].stack, StackPages) \subseteq Owned(m', "stack")
    BY <1>8, <1>9, <1>10, <2>1
  <2>3. \A t, u \in Slots : t # u /\ procs'[t] # None /\ procs'[u] # None =>
          /\ Recorded(procs'[t].ctx) \cap Recorded(procs'[u].ctx) = {}
          /\ Run(procs'[t].stack, StackPages) \cap Run(procs'[u].stack, StackPages) = {}
    BY <1>1, <1>10 DEF Fits
  <2>4. ASSUME ~oversized', NEW f \in Owned(m', "elf")
        PROVE  \E t \in Slots : procs'[t] # None /\ f \in Recorded(procs'[t].ctx)
    <3>1. PICK t \in Slots : procs[t] # None /\ f \in Recorded(procs[t].ctx)
      BY <1>1, <1>2, <1>8, <2>4 DEF Fits
    <3>2. t # s
      BY <1>8, <3>1
    <3> QED BY <1>10, <3>1, <3>2
  <2> QED BY <2>2, <2>3, <2>4 DEF Fits
<1> QED BY <1>7, <1>11, <1>12, <1>13 DEF Inv

\* context_switch.
LEMMA SwitchStep ==
  ASSUME Inv, NEW s \in Slots, context_switch(s) PROVE Inv'
<1>1. Good(m, spaces) /\ Processes /\ Drivers
  BY DEF Inv
<1>2. /\ procs[s] # None /\ m' = vmm_switch_address_space(m, procs[s].space)
      /\ UNCHANGED <<procs, spaces, dma, regs, kmem, oversized>>
  BY DEF context_switch
<1>3. procs[s].space \in spaces
  BY <1>1, <1>2 DEF Processes
<1>4. Good(m', spaces) /\ m'.owner = m.owner
  BY <1>1, <1>2, <1>3, SwitchKeeps
<1>5. \A who : Owned(m', who) = Owned(m, who)
  BY <1>4 DEF Owned
<1>6. Drivers'
  BY <1>1, <1>2 DEF Drivers
<1> QED BY <1>2, <1>4, <1>5, <1>6, Unconcerned

\* Registers, DMA buffers and the kernel's allocations.
LEMMA RegistersStep ==
  ASSUME SmallMachine, Inv, NEW r \in Registers, MapRegisters(r) \/ UnmapRegisters(r) PROVE Inv'
<1>1. Good(m, spaces) /\ Drivers
  BY DEF Inv
<1>2. r.f \in Nat /\ r.n \in 0..PD * PT /\ r.n \in Nat
  BY Bounds DEF SmallMachine
<1>3. CASE MapRegisters(r)
  <2>1. PICK p : /\ p = vmm_map_physical(m, r.f, r.n)
                 /\ m' = p.m
                 /\ regs' = IF p.ok THEN regs \cup {r} ELSE regs
    BY <1>3 DEF MapRegisters
  <2>2. UNCHANGED <<procs, spaces, dma, kmem, oversized>>
    BY <1>3 DEF MapRegisters
  <2>3. Mapping(m, spaces, p)
    BY <1>1, <1>2, <2>1, MapPhysicalKeeps
  <2>4. Good(m', spaces) /\ Grown(m, m')
    BY <2>1, <2>3 DEF Mapping
  <2>5. Drivers'
    BY <1>1, <2>1, <2>2 DEF Drivers
  <2>6. Owned(m', "elf") = Owned(m, "elf") /\ Owned(m', "stack") = Owned(m, "stack")
    BY <2>4, GrownOwns
  <2> QED BY <2>2, <2>4, <2>5, <2>6, Unconcerned
<1>4. CASE UnmapRegisters(r)
  <2>1. /\ m' = vmm_unmap_pages(m, PhysicalAt(r.f), r.n) /\ regs' = regs \ {r}
        /\ UNCHANGED <<procs, spaces, dma, kmem, oversized>>
    BY <1>4 DEF UnmapRegisters, vmm_unmap_physical
  <2>2. Good(m', spaces) /\ Grown(m, m')
    BY <1>1, <1>2, <2>1, UnmapPagesKeeps
  <2>3. Drivers'
    BY <1>1, <2>1 DEF Drivers
  <2>4. Owned(m', "elf") = Owned(m, "elf") /\ Owned(m', "stack") = Owned(m, "stack")
    BY <2>2, GrownOwns
  <2> QED BY <2>1, <2>2, <2>3, <2>4, Unconcerned
<1> QED BY <1>3, <1>4

LEMMA DmaAllocStep ==
  ASSUME SmallMachine, Inv, NEW n \in DmaSizes, alloc_dma_buffer(n) PROVE Inv'
<1>1. Good(m, spaces) /\ Drivers
  BY DEF Inv
<1>2. n \in Nat
  BY DEF SmallMachine
<1>3. UNCHANGED <<procs, spaces, regs, kmem, oversized>>
  BY DEF alloc_dma_buffer
<1> DEFINE f == pmm_alloc_pages(m, n)
           p == vmm_map_physical(Taken(m, f, n, "dma"), f, n)
<1>4. IF f = 0 THEN UNCHANGED <<m, dma>>
      ELSE /\ m' = IF p.ok THEN p.m ELSE pmm_free_pages(p.m, f, n)
           /\ dma' = IF p.ok THEN dma \cup {[f |-> f, n |-> n]} ELSE dma
  BY DEF alloc_dma_buffer
<1>5. CASE f = 0
  <2>1. UNCHANGED <<m, dma>>
    BY <1>4, <1>5
  <2>2. Drivers'
    BY <1>1, <1>3, <2>1 DEF Drivers
  <2> QED BY <1>1, <1>3, <2>1, <2>2, Unconcerned
<1>6. CASE f # 0
  <2>1. /\ m' = IF p.ok THEN p.m ELSE pmm_free_pages(p.m, f, n)
        /\ dma' = IF p.ok THEN dma \cup {[f |-> f, n |-> n]} ELSE dma
    BY <1>4, <1>6
  <2>2. /\ Good(m', spaces) /\ f \in 1..AreaFrame - 1
        /\ Owned(m', "elf") = Owned(m, "elf") /\ Owned(m', "stack") = Owned(m, "stack")
    BY <1>1, <1>2, <1>6, <2>1, DmaKeeps
  <2> HIDE DEF f, p
  <2>3. \A b \in dma' : b \in dma \/ b = [f |-> f, n |-> n]
    BY <2>1
  <2>4. Drivers'
    BY <1>1, <1>2, <1>3, <2>2, <2>3 DEF Drivers
  <2> QED BY <1>3, <2>2, <2>4, Unconcerned
<1> QED BY <1>5, <1>6

LEMMA DmaFreeStep ==
  ASSUME Inv, NEW b \in dma, free_dma_buffer(b) PROVE Inv'
<1>1. Good(m, spaces) /\ Drivers
  BY DEF Inv
<1>2. b.f \in 1..AreaFrame - 1 /\ b.n \in Nat
  BY <1>1 DEF Drivers
<1>3. /\ m' = pmm_free_pages(vmm_unmap_physical(m, PhysicalAt(b.f), b.n), virt_to_phys(m, PhysicalAt(b.f)), b.n)
      /\ dma' = dma \ {b}
      /\ UNCHANGED <<procs, spaces, regs, kmem, oversized>>
  BY DEF free_dma_buffer
<1>4. /\ Good(m', spaces)
      /\ Owned(m', "elf") = Owned(m, "elf") /\ Owned(m', "stack") = Owned(m, "stack")
  BY <1>1, <1>2, <1>3, DmaFreeKeeps
<1>5. Drivers'
  BY <1>1, <1>3 DEF Drivers
<1> QED BY <1>3, <1>4, <1>5, Unconcerned

LEMMA KernelStep ==
  ASSUME SmallMachine, Inv, KernelFrees \/ \E n \in KernelSizes : KernelAllocates(n) PROVE Inv'
<1>1. Good(m, spaces) /\ Drivers
  BY DEF Inv
<1>2. CASE KernelFrees
  <2>1. m' = vmm_free(m, AreaBase, kmem) /\ kmem' = 0 /\ UNCHANGED <<procs, spaces, dma, regs, oversized>>
    BY <1>2 DEF KernelFrees
  <2>2. kmem \in Nat
    BY <1>1 DEF Drivers
  <2>3. Good(m', spaces) /\ Only(m, m', "kernel")
    BY <1>1, <2>1, <2>2, FreeKeeps
  <2>4. Owned(m', "elf") = Owned(m, "elf") /\ Owned(m', "stack") = Owned(m, "stack")
    BY <2>3, OnlyOwns
  <2>5. Drivers'
    BY <1>1, <2>1 DEF Drivers
  <2> QED BY <2>1, <2>3, <2>4, <2>5, Unconcerned
<1>3. ASSUME NEW n \in KernelSizes, KernelAllocates(n) PROVE Inv'
  <2>1. PICK r : r = vmm_allocate(m, n) /\ m' = r.m /\ kmem' = IF r.ok THEN n ELSE kmem
    BY <1>3 DEF KernelAllocates
  <2>2. UNCHANGED <<procs, spaces, dma, regs, oversized>>
    BY <1>3 DEF KernelAllocates
  <2>3. n \in Nat
    BY DEF SmallMachine
  <2>4. Good(m', spaces) /\ Only(m, m', "kernel")
    BY <1>1, <2>1, <2>3, AllocateKeeps
  <2>5. Owned(m', "elf") = Owned(m, "elf") /\ Owned(m', "stack") = Owned(m, "stack")
    BY <2>4, OnlyOwns
  <2>6. Drivers'
    BY <1>1, <2>1, <2>2, <2>3 DEF Drivers
  <2> QED BY <2>2, <2>4, <2>5, <2>6, Unconcerned
<1> QED BY <1>2, <1>3

LEMMA NextHolds ==
  ASSUME SmallMachine, Inv, [Next]_vars PROVE Inv'
<1>1. CASE UNCHANGED vars
  <2>1. UNCHANGED <<m, procs, spaces, dma, regs, kmem, oversized>>
    BY <1>1 DEF vars
  <2>2. Good(m', spaces) /\ Drivers'
    BY <2>1 DEF Inv, Drivers
  <2> QED BY <2>1, <2>2, Unconcerned
<1>2. CASE Next
  BY <1>2, CreateStep, TerminateStep, SwitchStep, RegistersStep, DmaAllocStep, DmaFreeStep,
     KernelStep DEF Next
<1> QED BY <1>1, <1>2

LEMMA Invariance == ASSUME SmallMachine PROVE Spec => []Inv
<1>1. Init => Inv
  BY InitHolds
<1>2. Inv /\ [Next]_vars => Inv'
  BY NextHolds
<1> QED BY <1>1, <1>2, PTL DEF Spec
-----------------------------------------------------------------------------
(* vmm.c: if the machine is small in the sense of SmallMachine, then       *)
(* whatever is created, mapped, fails half way, is switched to or deleted, *)
(* and for any sizes and any number of operations, the frames allocated    *)
(* for page tables are exactly those of the spaces that exist; none is     *)
(* lost, shared by two lower halves, or freed while in use.                *)
THEOREM PageTablesTheorem == ASSUME SmallMachine PROVE Spec => []PageTablesExact
<1>1. Inv => PageTablesExact
  BY GoodIsExact DEF Inv
<1> QED BY <1>1, Invariance, PTL

(* elf.c, process_create, process_terminate: under the same hypothesis the *)
(* frames the loader took are those recorded by the processes that exist,  *)
(* on every path, and no two processes share a frame of an image or stack. *)
THEOREM LoaderTheorem == ASSUME SmallMachine PROVE Spec => []LoaderExact
<1>1. Inv => LoaderExact
  BY LoaderFits DEF Inv
<1> QED BY <1>1, Invariance, PTL
=============================================================================
