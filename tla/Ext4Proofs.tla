----------------------------- MODULE Ext4Proofs -----------------------------
(***************************************************************************)
(* Proofs about Ext4.tla for every device, every layout of inode tables,   *)
(* every contents of the blocks, every path and every fault.               *)
(***************************************************************************)
EXTENDS Ext4, SequenceTheorems, WellFoundedInduction, TLAPS

-----------------------------------------------------------------------------
(* The state of a call, and what holds of it at every step of every call.  *)

Values == InodeTables \cup Seq(DirEntries) \cup {<<>>}

State ==
  [disk : [Blocks -> Values], buffer : Values, buffer_block : Blocks \cup {NoBlock},
   dirty : BOOLEAN, held : [Objects -> Int], mem : Nat]

(* What block b reads as.                                                  *)
ViewOf(a, b) == IF b = a.buffer_block THEN a.buffer ELSE a.disk[b]

(* The buffer and the device agree with the writes: L is `last'.           *)
Coherent(a, L) ==
  /\ a \in State
  /\ \A b \in Blocks : a.disk[b] \in L[b]
  /\ \A b \in Blocks : ViewOf(a, b) \in L[b]
  /\ a.dirty => a.buffer_block # NoBlock
  /\ ~a.dirty /\ a.buffer_block # NoBlock => a.disk[a.buffer_block] = a.buffer

(* Two states in which every block reads the same.                         *)
SameView(a, c) == \A b \in Blocks : ViewOf(c, b) = ViewOf(a, b)

\* Blocks are numbered from 0: -1 is none of them.
LEMMA NoBlockIsNone == NoBlock \notin Blocks
BY Ext4Assumption DEF NoBlock, Blocks

\* An allocation changes the account and nothing else, and fails only when the
\* memory is exhausted.
LEMMA Allocates ==
  ASSUME NEW L, NEW a, Coherent(a, L), NEW o \in Objects, NEW r, r = vmm_allocate(a, o)
  PROVE  /\ r.ok \in BOOLEAN /\ (r.ok <=> a.mem # 0)
         /\ Coherent(r.s, L) /\ SameView(a, r.s) /\ r.s.buffer_block = a.buffer_block
         /\ ~r.ok => r.s = a
         /\ r.ok => /\ r.s.held = [a.held EXCEPT ![o] = @ + 1]
                    /\ r.s.mem = a.mem - 1
<1>1. a \in State
  BY DEF Coherent
<1>2. CASE a.mem = 0
  <2>1. r = [ok |-> FALSE, s |-> a]
    BY <1>2 DEF vmm_allocate
  <2> QED BY <2>1, <1>2 DEF SameView
<1>3. CASE a.mem # 0
  <2> DEFINE c == [a EXCEPT !.mem = @ - 1, !.held[o] = @ + 1]
  <2>1. r.ok = TRUE /\ r.s = c
    BY <1>3 DEF vmm_allocate
  <2>2. /\ c.disk = a.disk /\ c.buffer = a.buffer /\ c.buffer_block = a.buffer_block
        /\ c.dirty = a.dirty /\ c.mem = a.mem - 1
        /\ c.held = [a.held EXCEPT ![o] = @ + 1]
    BY <1>1 DEF State
  <2>3. c \in State
    <3>1. a.mem - 1 \in Nat /\ a.held \in [Objects -> Int]
      BY <1>1, <1>3 DEF State
    <3>2. [a.held EXCEPT ![o] = @ + 1] \in [Objects -> Int]
      BY <3>1
    <3> QED BY <1>1, <3>1, <3>2 DEF State
  <2> HIDE DEF c
  <2> QED BY <2>1, <2>2, <2>3, <1>3 DEF Coherent, SameView, ViewOf
<1> QED BY <1>2, <1>3

\* Freeing changes the account and nothing else.
LEMMA Frees ==
  ASSUME NEW L, NEW a, Coherent(a, L), NEW o \in Objects, NEW c, c = vmm_free(a, o)
  PROVE  /\ Coherent(c, L) /\ SameView(a, c) /\ c.buffer_block = a.buffer_block
         /\ c.held = [a.held EXCEPT ![o] = @ - 1]
         /\ c.mem = a.mem
<1>1. a \in State
  BY DEF Coherent
<1>2. /\ c.disk = a.disk /\ c.buffer = a.buffer /\ c.buffer_block = a.buffer_block
      /\ c.dirty = a.dirty /\ c.mem = a.mem
      /\ c.held = [a.held EXCEPT ![o] = @ - 1]
  BY <1>1 DEF State, vmm_free
<1>3. c \in State
  BY <1>1 DEF State, vmm_free
<1> QED BY <1>2, <1>3 DEF Coherent, SameView, ViewOf

\* What is taken for the length of a call and given back leaves no trace.
LEMMA TakenAndFreed ==
  ASSUME NEW h \in [Objects -> Int], NEW o \in Objects
  PROVE  [[h EXCEPT ![o] = @ + 1] EXCEPT ![o] = @ - 1] = h
<1> DEFINE g == [h EXCEPT ![o] = @ + 1]
<1>1. g \in [Objects -> Int] /\ g[o] = h[o] + 1 /\ \A p \in Objects : p # o => g[p] = h[p]
  OBVIOUS
<1>2. (h[o] + 1) - 1 = h[o]
  OBVIOUS
<1> HIDE DEF g
<1>3. [g EXCEPT ![o] = @ - 1] = h
  BY <1>1, <1>2
<1> QED BY <1>3 DEF g
-----------------------------------------------------------------------------
(* The block buffer.                                                       *)

\* Writing a dirty buffer to the device changes no block's contents as it is
\* read, whether it succeeds or not.
LEMMA FlushKeeps ==
  ASSUME NEW L, NEW x, NEW a, Coherent(a, L), NEW f, f = Flushed(a, x)
  PROVE  /\ f.ok \in BOOLEAN
         /\ Coherent(f.s, L) /\ SameView(a, f.s)
         /\ f.s.held = a.held /\ f.s.mem = a.mem
         /\ f.s.buffer_block = a.buffer_block
         /\ f.ok => ~f.s.dirty
         /\ x.unwritable = {} => f.ok
<1>1. a \in State
  BY DEF Coherent
<1>2. CASE ~a.dirty
  <2>1. f = [ok |-> TRUE, s |-> a]
    BY <1>2 DEF Flushed
  <2> QED BY <2>1, <1>2 DEF SameView
<1>3. CASE a.dirty
  <2> DEFINE b == a.buffer_block
             ok == b \notin x.unwritable
             w == IF b \in x.unwritable /\ ~x.reached THEN a ELSE [a EXCEPT !.disk[b] = a.buffer]
             c == [w EXCEPT !.dirty = ~ok]
  <2>1. f.ok = ok /\ f.s = c
    BY <1>3 DEF Flushed, write_blocks
  <2>2. b \in Blocks
    BY <1>1, <1>3 DEF Coherent, State
  <2>3. /\ w \in State
        /\ w.buffer = a.buffer /\ w.buffer_block = b /\ w.held = a.held /\ w.mem = a.mem
        /\ w.disk = a.disk \/ w.disk = [a.disk EXCEPT ![b] = a.buffer]
        /\ ok => w.disk = [a.disk EXCEPT ![b] = a.buffer]
    BY <1>1, <2>2 DEF State
  <2> HIDE DEF w
  <2>4. /\ c \in State
        /\ c.buffer = a.buffer /\ c.buffer_block = b /\ c.held = a.held /\ c.mem = a.mem
        /\ c.disk = w.disk /\ c.dirty = ~ok
    BY <2>3 DEF State
  <2> HIDE DEF c
  <2>5. SameView(a, c)
    BY <2>3, <2>4, <1>1 DEF SameView, ViewOf, State
  <2>6. a.buffer \in L[b]
    BY <2>2 DEF Coherent, ViewOf
  <2>7. \A e \in Blocks : c.disk[e] \in L[e]
    BY <2>2, <2>3, <2>4, <2>6, <1>1 DEF Coherent, State
  <2>8. \A e \in Blocks : ViewOf(c, e) \in L[e]
    BY <2>5 DEF Coherent, SameView
  <2>9. ok => c.disk[b] = c.buffer
    BY <2>2, <2>3, <2>4, <1>1 DEF State
  <2>10. Coherent(c, L)
    BY <2>2, <2>4, <2>7, <2>8, <2>9, NoBlockIsNone DEF Coherent
  <2> QED BY <2>1, <2>4, <2>5, <2>10
<1>4. a.dirty \in BOOLEAN
  BY <1>1 DEF State
<1> QED BY <1>2, <1>3, <1>4

(* What reading block b may do, r being its outcome.                       *)
ReadOutcome(a, b, x, r, L) ==
  /\ r.ok \in BOOLEAN
  /\ Coherent(r.s, L) /\ SameView(a, r.s)
  /\ r.s.held = a.held /\ r.s.mem = a.mem
  /\ r.ok => b \in Blocks /\ r.v = ViewOf(a, b)
  /\ x.unwritable = {} /\ x.unreadable = {} /\ b \in Blocks => r.ok

\* Reading a block changes what no block reads as; it returns what the block
\* reads as, and fails only for a block that does not exist or by a fault.
LEMMA ReadKeeps ==
  ASSUME NEW L, NEW x, NEW a, Coherent(a, L), NEW b, NEW r, r = ext4_read_block(a, b, x)
  PROVE  ReadOutcome(a, b, x, r, L)
<1> USE DEF ReadOutcome
<1>1. a \in State
  BY DEF Coherent
<1>2. CASE b \notin Blocks
  <2>1. r = [ok |-> FALSE, s |-> a]
    BY <1>2 DEF ext4_read_block
  <2> QED BY <2>1, <1>2 DEF SameView
<1>3. CASE b \in Blocks /\ b = a.buffer_block
  <2>1. r = [ok |-> TRUE, s |-> a, v |-> a.buffer]
    BY <1>3 DEF ext4_read_block
  <2> QED BY <2>1, <1>3 DEF SameView, ViewOf
<1>4. CASE b \in Blocks /\ b # a.buffer_block
  <2>1. PICK f : f = Flushed(a, x)
    OBVIOUS
  <2>2. r = IF ~f.ok \/ b \in x.unreadable THEN [ok |-> FALSE, s |-> f.s]
            ELSE [ok |-> TRUE, s |-> Cached(f.s, b), v |-> f.s.disk[b]]
    BY <1>4, <2>1 DEF ext4_read_block
  <2>3. /\ f.ok \in BOOLEAN
        /\ Coherent(f.s, L) /\ SameView(a, f.s)
        /\ f.s.held = a.held /\ f.s.mem = a.mem
        /\ f.s.buffer_block = a.buffer_block
        /\ f.ok => ~f.s.dirty
        /\ x.unwritable = {} => f.ok
    BY <2>1, FlushKeeps
  <2>4. CASE ~f.ok \/ b \in x.unreadable
    <3>1. r.ok = FALSE /\ r.s = f.s
      BY <2>2, <2>4
    <3> QED BY <2>3, <2>4, <3>1
  <2>5. CASE f.ok /\ b \notin x.unreadable
    <3> DEFINE c == Cached(f.s, b)
    <3>1. r.ok = TRUE /\ r.s = c /\ r.v = f.s.disk[b]
      BY <2>2, <2>5
    <3>2. f.s \in State
      BY <2>3 DEF Coherent
    <3>3. /\ c \in State
          /\ c.disk = f.s.disk /\ c.buffer = f.s.disk[b] /\ c.buffer_block = b
          /\ c.dirty = f.s.dirty /\ c.held = f.s.held /\ c.mem = f.s.mem
      BY <3>2, <1>4 DEF State, Cached
    <3> HIDE DEF c
    <3>4. f.s.disk[b] = ViewOf(a, b)
      BY <2>3, <1>4 DEF SameView, ViewOf
    <3>5. ASSUME NEW e \in Blocks PROVE ViewOf(c, e) = ViewOf(f.s, e)
      <4>1. CASE e = b
        BY <4>1, <3>3, <2>3, <1>4 DEF ViewOf
      <4>2. CASE e # b /\ e = f.s.buffer_block
        BY <4>2, <3>3, <2>3, <2>5, NoBlockIsNone DEF ViewOf, Coherent
      <4>3. CASE e # b /\ e # f.s.buffer_block
        BY <4>3, <3>3 DEF ViewOf
      <4> QED BY <4>1, <4>2, <4>3
    <3>6. SameView(a, c)
      BY <3>5, <2>3 DEF SameView
    <3>7. Coherent(c, L)
      BY <3>3, <3>5, <2>3, <2>5, <1>4, NoBlockIsNone DEF Coherent
    <3> QED BY <3>1, <3>3, <3>4, <3>6, <3>7, <2>3, <1>4
  <2> QED BY <2>3, <2>4, <2>5
<1> QED BY <1>2, <1>3, <1>4
-----------------------------------------------------------------------------
(* Induction.                                                              *)

\* What holds of 0 and of the successor of each number it holds of holds of all.
LEMMA Induction ==
  ASSUME NEW S, 0 \in S, \A n \in Nat : n \in S => n + 1 \in S
  PROVE  \A n \in Nat : n \in S
<1> DEFINE R == {p \in Nat \X Nat : p[1] < p[2]}
           T == Nat \ S
<1>1. IsWellFoundedOn(R, Nat)
  BY NatLessThanWellFounded DEF OpToRel
<1>2. SUFFICES ASSUME T # {} PROVE FALSE
  OBVIOUS
<1> HIDE DEF R
<1>3. PICK n \in T : \A y \in T : ~(<<y, n>> \in R)
  BY <1>1, <1>2, WFMin
<1>4. n # 0 /\ n - 1 \in Nat /\ n - 1 \in T
  BY <1>3
<1>5. <<n - 1, n>> \in R
  BY <1>3, <1>4 DEF R
<1> QED BY <1>3, <1>4, <1>5

\* A set of numbers that has an element has a least one, and Min is it.
LEMMA MinIsLeast ==
  ASSUME NEW S, S \subseteq Nat, S # {}
  PROVE  Min(S) \in S /\ \A n \in S : Min(S) <= n
<1> DEFINE R == {p \in Nat \X Nat : p[1] < p[2]}
<1>1. IsWellFoundedOn(R, Nat)
  BY NatLessThanWellFounded DEF OpToRel
<1> HIDE DEF R
<1>2. PICK n \in S : \A y \in S : ~(<<y, n>> \in R)
  BY <1>1, WFMin
<1>3. ASSUME NEW y \in S PROVE n <= y
  <2>1. y \in Nat /\ n \in Nat /\ (y < n => <<y, n>> \in R)
    BY DEF R
  <2> QED BY <2>1, <1>2
<1> QED BY <1>2, <1>3 DEF Min
-----------------------------------------------------------------------------
(* Reading an inode.                                                       *)

(* What every call that only reads keeps.                                  *)
Kept(a, c, L) == Coherent(c, L) /\ SameView(a, c) /\ c.held = a.held

(* Every block reads as what a block of its kind holds.                    *)
Readable(L) == \A b \in Blocks : L[b] \subseteq Holds(b)

Faultfree(x) == x.unreadable = {} /\ x.unwritable = {}

InodeOf(a, n) == ViewOf(a, InodeBlock(n))[InodeIndex(n)]

LEMMA KeptTransitive ==
  ASSUME NEW a, NEW c, NEW e, NEW L, Kept(a, c, L), Kept(c, e, L)
  PROVE  Kept(a, e, L)
BY DEF Kept, SameView

LEMMA KeptItself ==
  ASSUME NEW a, NEW L, Coherent(a, L)
  PROVE  Kept(a, a, L)
BY DEF Kept, SameView

LEMMA QuotientBound ==
  ASSUME NEW a \in Nat, NEW d \in Nat \ {0}
  PROVE  a \div d \in Nat /\ a < (a \div d) * d + d
OBVIOUS

\* Where the inode with an existing number is: a block of a table, and a place
\* in it.
LEMMA InodePlace ==
  ASSUME NEW n \in Nat, InodeExists(n)
  PROVE  /\ n \in 1..inodes_per_group * groups_count
         /\ InodeBlock(n) \in TableBlocks
         /\ InodeIndex(n) \in 1..InodesPerBlock
<1> USE Ext4Assumption
<1>1. PICK p \in Nat \ {0} : p = inodes_per_group
  OBVIOUS
<1>2. PICK g \in Nat \ {0} : g = groups_count
  OBVIOUS
<1>3. n >= 1 /\ n - 1 \in Nat /\ (n - 1) \div p < g
  BY <1>1, <1>2 DEF InodeExists
<1>4. PICK q \in Nat : q = (n - 1) \div p /\ n - 1 < q * p + p
  BY <1>3, QuotientBound
<1>5. q + 1 <= g
  BY <1>3, <1>4
<1>6. (q + 1) * p <= g * p
  BY <1>5
<1>7. n <= p * g
  BY <1>4, <1>6
<1>8. n \in 1..inodes_per_group * groups_count
  BY <1>1, <1>2, <1>3, <1>7
<1>9. InodeIndex(n) \in 1..InodesPerBlock
  <2>1. PICK i \in Nat \ {0} : i = InodesPerBlock
    OBVIOUS
  <2>2. PICK k \in Nat : k = (n - 1) % p
    BY <1>3
  <2>3. k % i \in 0..i - 1
    OBVIOUS
  <2> QED BY <2>1, <2>2, <2>3, <1>1 DEF InodeIndex
<1> QED BY <1>8, <1>9 DEF TableBlocks

\* read_inode gives back the memory it takes and returns the inode as it reads;
\* without a fault it finds every inode there is.
LEMMA InodeRead ==
  ASSUME NEW L, Readable(L), NEW x, NEW a, Coherent(a, L), NEW n \in Nat,
         NEW r, r = read_inode(a, n, x)
  PROVE  /\ r.ok \in BOOLEAN /\ Kept(a, r.s, L)
         /\ r.ok => /\ InodeFound(n) /\ r.inode = InodeOf(a, n) /\ r.inode \in Inodes
                    /\ a.mem # 0 /\ r.s.mem = a.mem - 1
         /\ Faultfree(x) /\ InodeFound(n) /\ a.mem # 0 => r.ok
<1>1. CASE ~InodeExists(n)
  <2>1. r = [ok |-> FALSE, s |-> a]
    BY <1>1 DEF read_inode
  <2> QED BY <2>1, <1>1, KeptItself DEF InodeFound
<1>2. CASE InodeExists(n)
  <2>1. PICK t : t = vmm_allocate(a, "block_data")
    OBVIOUS
  <2>2. "block_data" \in Objects
    BY DEF Objects
  <2>3. /\ t.ok \in BOOLEAN /\ (t.ok <=> a.mem # 0)
        /\ Coherent(t.s, L) /\ SameView(a, t.s)
        /\ ~t.ok => t.s = a
        /\ t.ok => /\ t.s.held = [a.held EXCEPT !["block_data"] = @ + 1]
                   /\ t.s.mem = a.mem - 1
    BY <2>1, <2>2, Allocates
  <2>4. CASE ~t.ok
    <3>1. r = t
      BY <1>2, <2>1, <2>4 DEF read_inode
    <3> QED BY <3>1, <2>3, <2>4, KeptItself
  <2>5. CASE t.ok
    <3>1. PICK k : k = ext4_read_block(t.s, InodeBlock(n), x)
      OBVIOUS
    <3>2. PICK c : c = vmm_free(k.s, "block_data")
      OBVIOUS
    <3>3. r = IF ~k.ok THEN [ok |-> FALSE, s |-> c]
              ELSE [ok |-> TRUE, s |-> c, inode |-> k.v[InodeIndex(n)]]
      BY <1>2, <2>1, <2>5, <3>1, <3>2 DEF read_inode
    <3>4. /\ k.ok \in BOOLEAN
          /\ Coherent(k.s, L) /\ SameView(t.s, k.s)
          /\ k.s.held = t.s.held /\ k.s.mem = t.s.mem
          /\ k.ok => InodeBlock(n) \in Blocks /\ k.v = ViewOf(t.s, InodeBlock(n))
          /\ x.unwritable = {} /\ x.unreadable = {} /\ InodeBlock(n) \in Blocks => k.ok
      <4>1. Coherent(t.s, L)
        BY <2>3
      <4>2. ReadOutcome(t.s, InodeBlock(n), x, k, L)
        BY <3>1, <4>1, ReadKeeps
      <4> QED BY <4>2 DEF ReadOutcome
    <3>5. /\ Coherent(c, L) /\ SameView(k.s, c)
          /\ c.held = [k.s.held EXCEPT !["block_data"] = @ - 1]
          /\ c.mem = k.s.mem
      BY <3>2, <3>4, <2>2, Frees
    <3>6. c.held = a.held
      <4>1. a.held \in [Objects -> Int]
        BY DEF Coherent, State
      <4> QED BY <4>1, <2>2, <2>3, <2>5, <3>4, <3>5, TakenAndFreed
    <3>7. Kept(a, c, L)
      BY <3>4, <3>5, <3>6, <2>3 DEF Kept, SameView
    <3>8. /\ r.ok \in BOOLEAN /\ (r.ok <=> k.ok) /\ r.s = c
          /\ k.ok => r.inode = k.v[InodeIndex(n)]
      <4>1. CASE k.ok
        <5>1. r = [ok |-> TRUE, s |-> c, inode |-> k.v[InodeIndex(n)]]
          BY <3>3, <4>1
        <5> QED BY <4>1, <5>1
      <4>2. CASE ~k.ok
        <5>1. r = [ok |-> FALSE, s |-> c]
          BY <3>3, <4>2
        <5> QED BY <4>2, <5>1
      <4> QED BY <4>1, <4>2
    <3>9. ASSUME k.ok PROVE r.inode = InodeOf(a, n) /\ r.inode \in Inodes
      <4>1. InodeBlock(n) \in Blocks /\ k.v = ViewOf(a, InodeBlock(n))
        BY <3>9, <3>4, <2>3 DEF SameView
      <4>2. k.v \in Holds(InodeBlock(n))
        BY <4>1 DEF Coherent, Readable
      <4>3. InodeBlock(n) \in TableBlocks /\ InodeIndex(n) \in 1..InodesPerBlock
        BY <1>2, InodePlace
      <4>4. k.v \in [1..InodesPerBlock -> Inodes]
        BY <4>2, <4>3 DEF Holds, InodeTables
      <4> QED BY <4>1, <4>3, <4>4, <3>8, <3>9 DEF InodeOf
    <3> QED BY <3>4, <3>5, <3>7, <3>8, <3>9, <2>3, <2>5, <1>2 DEF InodeFound, Faultfree
  <2> QED BY <2>3, <2>4, <2>5
<1> QED BY <1>1, <1>2
-----------------------------------------------------------------------------
(* Searching a directory.                                                  *)

(* The entries with a name in the k-th block of a directory.               *)
HitsOf(a, inode, k, name) ==
  IF inode.blocks[k] \in Blocks THEN Hits(ViewOf(a, inode.blocks[k]), name) ELSE {}

(* The first of them is an entry for inode n.                              *)
FirstOf(a, inode, k, name, n) ==
  \E j \in HitsOf(a, inode, k, name) :
    /\ \A i \in HitsOf(a, inode, k, name) : j <= i
    /\ ViewOf(a, inode.blocks[k])[j].inode = n

\* The scan of one block finds its first entry with the name.
LEMMA ScanFindsFirst ==
  ASSUME NEW v \in Seq(DirEntries), NEW name
  PROVE  /\ Scan(v, name) \in Nat
         /\ Scan(v, name) = 0 => Hits(v, name) = {}
         /\ Scan(v, name) # 0 =>
              \E j \in Hits(v, name) : /\ \A i \in Hits(v, name) : j <= i
                                       /\ v[j].inode = Scan(v, name)
<1>1. CASE Hits(v, name) = {}
  BY <1>1 DEF Scan
<1>2. CASE Hits(v, name) # {}
  <2>1. Hits(v, name) \subseteq Nat
    BY DEF Hits
  <2>2. PICK j \in Hits(v, name) : j = Min(Hits(v, name)) /\ \A i \in Hits(v, name) : j <= i
    BY <1>2, <2>1, MinIsLeast
  <2>3. v[j].inode \in Nat /\ v[j].inode # 0
    <3>1. j \in DOMAIN v /\ v[j].inode # 0
      BY DEF Hits
    <3>2. v[j] \in DirEntries
      BY <3>1, ElementOfSeq
    <3> QED BY <3>1, <3>2 DEF DirEntries
  <2> QED BY <1>2, <2>2, <2>3 DEF Scan
<1> QED BY <1>1, <1>2

(* The search of a directory after its first k blocks: d is its outcome.   *)
Searching(a, d, inode, k, name, x, L) ==
  /\ Kept(a, d.s, L) /\ d.s.mem = a.mem /\ d.found \in Nat
  /\ d.found # 0 =>
       \E i \in Searched(inode) :
         /\ FirstOf(a, inode, i, name, d.found)
         /\ Faultfree(x) => \A e \in Searched(inode) : e < i => HitsOf(a, inode, e, name) = {}
  /\ d.found = 0 /\ Faultfree(x) =>
       \A i \in Searched(inode) : i <= k => HitsOf(a, inode, i, name) = {}

\* One more block.
LEMMA SearchBlockKeeps ==
  ASSUME NEW L, Readable(L), NEW x, NEW a, Coherent(a, L), NEW inode \in Inodes, NEW name,
         NEW k \in Nat, NEW d, Searching(a, d, inode, k, name, x, L),
         NEW c, c = SearchBlock(d, inode, k + 1, name, x)
  PROVE  Searching(a, c, inode, k + 1, name, x, L)
<1>0. Searched(inode) \subseteq Nat
  BY DEF Searched, Inodes
<1>1. CASE d.found # 0
  <2>1. c = d
    BY <1>1 DEF SearchBlock
  <2> QED BY <2>1, <1>1 DEF Searching
<1>2. CASE d.found = 0 /\ k + 1 \notin Searched(inode)
  <2>1. c = d
    BY <1>2 DEF SearchBlock
  <2>2. \A i \in Searched(inode) : i <= k + 1 => i <= k
    BY <1>0, <1>2
  <2> QED BY <2>1, <2>2, <1>2 DEF Searching
<1>3. CASE d.found = 0 /\ k + 1 \in Searched(inode)
  <2> DEFINE b == inode.blocks[k + 1]
  <2>1. PICK r : r = ext4_read_block(d.s, b, x)
    OBVIOUS
  <2>2. c.s = r.s /\ c.found = IF r.ok THEN Scan(r.v, name) ELSE 0
    BY <1>3, <2>1 DEF SearchBlock
  <2>3. Coherent(d.s, L) /\ SameView(a, d.s) /\ d.s.held = a.held /\ d.s.mem = a.mem
    BY DEF Searching, Kept
  <2>4. /\ r.ok \in BOOLEAN
        /\ Coherent(r.s, L) /\ SameView(d.s, r.s)
        /\ r.s.held = d.s.held /\ r.s.mem = d.s.mem
        /\ r.ok => b \in Blocks /\ r.v = ViewOf(d.s, b)
        /\ x.unwritable = {} /\ x.unreadable = {} /\ b \in Blocks => r.ok
    <3>1. Coherent(d.s, L)
      BY <2>3
    <3> HIDE DEF b
    <3>2. ReadOutcome(d.s, b, x, r, L)
      BY <2>1, <3>1, ReadKeeps
    <3> QED BY <3>2 DEF ReadOutcome
  <2>5. Kept(a, c.s, L) /\ c.s.mem = a.mem
    BY <2>2, <2>3, <2>4 DEF Kept, SameView
  <2>6. \A i \in Searched(inode) : i <= k + 1 => i <= k \/ i = k + 1
    BY <1>0
  <2>7. CASE ~r.ok
    <3>1. c.found = 0
      BY <2>2, <2>7
    <3>2. Faultfree(x) => HitsOf(a, inode, k + 1, name) = {}
      BY <2>4, <2>7 DEF Faultfree, HitsOf
    <3>3. Faultfree(x) => \A i \in Searched(inode) : i <= k => HitsOf(a, inode, i, name) = {}
      BY <1>3 DEF Searching
    <3> QED BY <3>1, <3>2, <3>3, <2>5, <2>6 DEF Searching
  <2>8. CASE r.ok
    <3>1. b \in Blocks /\ r.v = ViewOf(a, b)
      BY <2>3, <2>4, <2>8 DEF SameView
    <3>2. r.v \in Seq(DirEntries)
      <4>1. b \notin TableBlocks
        BY <1>3 DEF Inodes
      <4>2. r.v \in Holds(b)
        BY <3>1 DEF Coherent, Readable
      <4> QED BY <4>1, <4>2 DEF Holds
    <3>3. HitsOf(a, inode, k + 1, name) = Hits(r.v, name)
      BY <3>1 DEF HitsOf
    <3>4. c.found = Scan(r.v, name)
      BY <2>2, <2>8
    <3>5. /\ c.found \in Nat
          /\ c.found = 0 => Hits(r.v, name) = {}
          /\ c.found # 0 =>
               \E j \in Hits(r.v, name) : /\ \A i \in Hits(r.v, name) : j <= i
                                          /\ r.v[j].inode = c.found
      BY <3>2, <3>4, ScanFindsFirst
    <3>6. Faultfree(x) => \A i \in Searched(inode) : i <= k => HitsOf(a, inode, i, name) = {}
      BY <1>3 DEF Searching
    <3>7. CASE c.found = 0
      BY <3>3, <3>5, <3>6, <3>7, <2>5, <2>6 DEF Searching
    <3>8. CASE c.found # 0
      <4>1. FirstOf(a, inode, k + 1, name, c.found)
        BY <3>1, <3>3, <3>5, <3>8 DEF FirstOf
      <4>2. \A e \in Searched(inode) : e < k + 1 => e <= k
        BY <1>0
      <4>3. Faultfree(x) => \A e \in Searched(inode) : e < k + 1 => HitsOf(a, inode, e, name) = {}
        BY <3>6, <4>2
      <4> QED BY <4>1, <4>3, <3>5, <3>8, <2>5, <1>3 DEF Searching
    <3> QED BY <3>7, <3>8
  <2> QED BY <2>4, <2>7, <2>8
<1> QED BY <1>1, <1>2, <1>3

\* The loop over the blocks of a directory is well defined: g is its state after
\* each of the first n blocks.
LEMMA SearchUnrolls ==
  ASSUME NEW a, NEW inode \in Inodes, NEW name, NEW x
  PROVE  \E g : /\ g[0] = [s |-> a, found |-> 0]
                /\ \A k \in 1..Len(inode.blocks) : g[k] = SearchBlock(g[k - 1], inode, k, name, x)
                /\ SearchDirectory(a, inode, name, x) = g[Len(inode.blocks)]
<1> DEFINE base == [s |-> a, found |-> 0]
           Loop(g, n) ==
             g = [k \in 0..n |-> IF k = 0 THEN base ELSE SearchBlock(g[k - 1], inode, k, name, x)]
           S == {n \in Nat : \E g : Loop(g, n)}
<1>1. Len(inode.blocks) \in Nat
  BY DEF Inodes
<1>2. 0 \in S
  <2>1. Loop([k \in 0..0 |-> base], 0)
    OBVIOUS
  <2> QED BY <2>1
<1>3. ASSUME NEW n \in Nat, n \in S PROVE n + 1 \in S
  <2>1. PICK g : Loop(g, n)
    BY <1>3
  <2> DEFINE e == SearchBlock(g[n], inode, n + 1, name, x)
             h == [k \in 0..(n + 1) |-> IF k = n + 1 THEN e ELSE g[k]]
  <2>2. \A k \in 0..n : g[k] = IF k = 0 THEN base ELSE SearchBlock(g[k - 1], inode, k, name, x)
    <3> HIDE DEF base
    <3> QED BY <2>1
  <2> HIDE DEF e, base
  <2>3. ASSUME NEW k \in 0..(n + 1)
        PROVE  h[k] = IF k = 0 THEN base ELSE SearchBlock(h[k - 1], inode, k, name, x)
    <3>1. CASE k = n + 1
      <4>1. h[k] = e /\ k # 0 /\ h[k - 1] = g[n]
        BY <3>1
      <4> QED BY <3>1, <4>1 DEF e
    <3>2. CASE k = 0
      BY <2>2, <3>2
    <3>3. CASE k # 0 /\ k # n + 1
      <4>1. h[k] = g[k] /\ h[k - 1] = g[k - 1] /\ k \in 0..n
        BY <3>3
      <4> QED BY <2>2, <3>3, <4>1
    <3> QED BY <3>1, <3>2, <3>3
  <2>4. Loop(h, n + 1)
    <3>1. h = [k \in 0..(n + 1) |-> h[k]]
      OBVIOUS
    <3> HIDE DEF h
    <3> QED BY <2>3, <3>1
  <2>5. n + 1 \in Nat /\ \E f : Loop(f, n + 1)
    <3> HIDE DEF Loop, h
    <3> QED BY <2>4
  <2> QED BY <2>5
<1>4. \A n \in Nat : n \in S
  <2> HIDE DEF S
  <2> QED BY <1>2, <1>3, Induction
<1>5. \E g : Loop(g, Len(inode.blocks))
  BY <1>1, <1>4
<1> DEFINE u == CHOOSE g : Loop(g, Len(inode.blocks))
<1>6. Loop(u, Len(inode.blocks))
  <2> HIDE DEF Loop
  <2> QED BY <1>5
<1>7. SearchDirectory(a, inode, name, x) = u[Len(inode.blocks)]
  BY DEF SearchDirectory
<1> HIDE DEF u
<1>8. /\ u[0] = base
      /\ \A k \in 1..Len(inode.blocks) : u[k] = SearchBlock(u[k - 1], inode, k, name, x)
  <2>1. PICK n \in Nat : n = Len(inode.blocks)
    BY <1>1
  <2>2. \A k \in 0..n : u[k] = IF k = 0 THEN base ELSE SearchBlock(u[k - 1], inode, k, name, x)
    <3> HIDE DEF base
    <3> QED BY <1>6, <2>1
  <2> HIDE DEF base
  <2> QED BY <2>1, <2>2
<1> QED BY <1>7, <1>8

\* The search of a whole directory.
LEMMA SearchFinds ==
  ASSUME NEW L, Readable(L), NEW x, NEW a, Coherent(a, L), NEW inode \in Inodes, NEW name,
         NEW d, d = SearchDirectory(a, inode, name, x)
  PROVE  Searching(a, d, inode, Len(inode.blocks), name, x, L)
<1>1. PICK g : /\ g[0] = [s |-> a, found |-> 0]
               /\ \A k \in 1..Len(inode.blocks) : g[k] = SearchBlock(g[k - 1], inode, k, name, x)
               /\ SearchDirectory(a, inode, name, x) = g[Len(inode.blocks)]
  BY SearchUnrolls
<1>2. PICK n \in Nat : n = Len(inode.blocks)
  BY DEF Inodes
<1> DEFINE S == {k \in Nat : k <= n => Searching(a, g[k], inode, k, name, x, L)}
<1>3. 0 \in S
  <2>1. g[0].s = a /\ g[0].found = 0
    BY <1>1
  <2>2. \A i \in Searched(inode) : ~(i <= 0)
    BY DEF Searched, Inodes
  <2> QED BY <2>1, <2>2, KeptItself DEF Searching
<1>4. ASSUME NEW k \in Nat, k \in S PROVE k + 1 \in S
  <2>1. CASE k + 1 <= n
    <3>1. Searching(a, g[k], inode, k, name, x, L)
      BY <1>4, <2>1
    <3>2. g[k + 1] = SearchBlock(g[k], inode, k + 1, name, x)
      <4>1. k + 1 \in 1..Len(inode.blocks) /\ (k + 1) - 1 = k
        BY <1>2, <2>1
      <4> QED BY <1>1, <4>1
    <3>3. Searching(a, g[k + 1], inode, k + 1, name, x, L)
      BY <3>1, <3>2, SearchBlockKeeps
    <3> QED BY <3>3
  <2>2. CASE ~(k + 1 <= n)
    BY <2>2
  <2> QED BY <2>1, <2>2
<1>5. n \in S
  <2> HIDE DEF S
  <2> QED BY <1>3, <1>4, Induction
<1> QED BY <1>1, <1>2, <1>5
-----------------------------------------------------------------------------
(* Looking up a component of a path.                                       *)

(* Inode n is a directory whose blocks are searched.                       *)
Searchable(a, n) == InodeFound(n) /\ InodeOf(a, n).dir /\ InodeOf(a, n).map # "bad"

(* It lists the name for inode next; the first entry with the name does.   *)
Way(a, n, name, next) ==
  /\ Searchable(a, n)
  /\ \E k \in Searched(InodeOf(a, n)) :
       \E j \in HitsOf(a, InodeOf(a, n), k, name) :
         ViewOf(a, InodeOf(a, n).blocks[k])[j].inode = next

FirstWay(a, n, name, next) ==
  /\ Searchable(a, n)
  /\ \E k \in Searched(InodeOf(a, n)) :
       /\ \A i \in Searched(InodeOf(a, n)) : i < k => HitsOf(a, InodeOf(a, n), i, name) = {}
       /\ FirstOf(a, InodeOf(a, n), k, name, next)

\* They depend on what the blocks read as only.
LEMMA WaysAreSeen ==
  ASSUME NEW a, NEW c, SameView(a, c), NEW n, NEW name, NEW next
  PROVE  /\ Way(c, n, name, next) <=> Way(a, n, name, next)
         /\ FirstWay(c, n, name, next) <=> FirstWay(a, n, name, next)
<1>1. InodeFound(n) => InodeOf(c, n) = InodeOf(a, n)
  BY DEF SameView, InodeFound, InodeOf
<1>2. \A inode, k : HitsOf(c, inode, k, name) = HitsOf(a, inode, k, name)
  BY DEF SameView, HitsOf
<1>3. \A inode, k : \A j \in HitsOf(a, inode, k, name) :
        ViewOf(c, inode.blocks[k]) = ViewOf(a, inode.blocks[k])
  BY DEF SameView, HitsOf
<1>4. \A inode, k : FirstOf(c, inode, k, name, next) <=> FirstOf(a, inode, k, name, next)
  BY <1>2, <1>3 DEF FirstOf
<1>5. Searchable(c, n) <=> Searchable(a, n)
  BY <1>1 DEF Searchable
<1>6. Way(c, n, name, next) <=> Way(a, n, name, next)
  BY <1>1, <1>2, <1>3, <1>5 DEF Way, Searchable
<1>7. FirstWay(c, n, name, next) <=> FirstWay(a, n, name, next)
  BY <1>1, <1>2, <1>4, <1>5 DEF FirstWay, Searchable
<1> QED BY <1>6, <1>7

\* The first entry is one of the entries.
LEMMA FirstIsAWay ==
  ASSUME NEW a, NEW n, NEW name, NEW next, FirstWay(a, n, name, next)
  PROVE  Way(a, n, name, next)
BY DEF FirstWay, Way, FirstOf

\* There is one first entry.
LEMMA FirstIsUnique ==
  ASSUME NEW a, NEW n, NEW name, NEW one, NEW two, InodeOf(a, n) \in Inodes,
         \A k \in Searched(InodeOf(a, n)) : HitsOf(a, InodeOf(a, n), k, name) \subseteq Nat,
         FirstWay(a, n, name, one), FirstWay(a, n, name, two)
  PROVE  one = two
<1> DEFINE I == InodeOf(a, n)
<1>1. PICK k \in Searched(I) : /\ \A i \in Searched(I) : i < k => HitsOf(a, I, i, name) = {}
                               /\ FirstOf(a, I, k, name, one)
  BY DEF FirstWay
<1>2. PICK l \in Searched(I) : /\ \A i \in Searched(I) : i < l => HitsOf(a, I, i, name) = {}
                               /\ FirstOf(a, I, l, name, two)
  BY DEF FirstWay
<1>3. k \in Nat /\ l \in Nat
  BY DEF Searched, Inodes
<1> HIDE DEF I
<1>4. HitsOf(a, I, k, name) # {} /\ HitsOf(a, I, l, name) # {}
  BY <1>1, <1>2 DEF FirstOf
<1>5. ~(k < l) /\ ~(l < k)
  BY <1>1, <1>2, <1>4
<1>6. k = l
  BY <1>3, <1>5
<1>7. PICK i \in HitsOf(a, I, k, name) : /\ \A e \in HitsOf(a, I, k, name) : i <= e
                                         /\ ViewOf(a, I.blocks[k])[i].inode = one
  BY <1>1 DEF FirstOf
<1>8. PICK j \in HitsOf(a, I, k, name) : /\ \A e \in HitsOf(a, I, k, name) : j <= e
                                         /\ ViewOf(a, I.blocks[k])[j].inode = two
  BY <1>2, <1>6 DEF FirstOf
<1>9. i \in Nat /\ j \in Nat /\ i <= j /\ j <= i
  BY <1>7, <1>8 DEF I
<1>10. i = j
  BY <1>9
<1> QED BY <1>7, <1>8, <1>10

PathState == [ok : BOOLEAN, cur : Nat, s : State]

(* What looking up a component may do, q being its outcome.                *)
LookupOutcome(p, name, x, q, L) ==
  /\ q \in PathState /\ Kept(p.s, q.s, L)
  /\ q.ok => /\ q.cur # 0 /\ q.s.mem = p.s.mem - 2
             /\ Way(p.s, p.cur, name, q.cur)
             /\ Faultfree(x) => FirstWay(p.s, p.cur, name, q.cur)
  /\ Faultfree(x) /\ p.s.mem >= 2 /\ (\E next : FirstWay(p.s, p.cur, name, next)) => q.ok

\* A lookup that fails gives back what it took, and the inode stays as it was.
LEMMA LookupFails ==
  ASSUME NEW L, NEW p \in PathState, NEW name, NEW x, NEW a, Kept(p.s, a, L),
         NEW q, q = [p EXCEPT !.ok = FALSE, !.s = a],
         ~(Faultfree(x) /\ p.s.mem >= 2 /\ \E next : FirstWay(p.s, p.cur, name, next))
  PROVE  LookupOutcome(p, name, x, q, L)
<1>1. a \in State
  BY DEF Kept, Coherent
<1>2. q \in PathState /\ q.ok = FALSE /\ q.s = a
  BY <1>1 DEF PathState
<1> QED BY <1>2 DEF LookupOutcome

\* A component: the directory is read, its blocks are searched for the name, and
\* the buffers of both are given back.
LEMMA LookupStep ==
  ASSUME NEW L, Readable(L), NEW x, NEW p \in PathState, Coherent(p.s, L), p.ok, NEW name,
         NEW q, q = LookupComponent(p, name, x)
  PROVE  LookupOutcome(p, name, x, q, L)
<1> DEFINE Fails(a) == [p EXCEPT !.ok = FALSE, !.s = a]
           Excused == ~(Faultfree(x) /\ p.s.mem >= 2 /\ \E next : FirstWay(p.s, p.cur, name, next))
<1>1. p.cur \in Nat /\ p.s \in State /\ p.s.mem \in Nat
  BY DEF PathState, State
<1>2. PICK i : i = read_inode(p.s, p.cur, x)
  OBVIOUS
<1>3. /\ i.ok \in BOOLEAN /\ Kept(p.s, i.s, L)
      /\ i.ok => /\ InodeFound(p.cur) /\ i.inode = InodeOf(p.s, p.cur) /\ i.inode \in Inodes
                 /\ p.s.mem # 0 /\ i.s.mem = p.s.mem - 1
      /\ Faultfree(x) /\ InodeFound(p.cur) /\ p.s.mem # 0 => i.ok
  <2>1. PICK a : a = p.s
    OBVIOUS
  <2>2. PICK n \in Nat : n = p.cur
    BY <1>1
  <2>3. Coherent(a, L) /\ i = read_inode(a, n, x)
    BY <1>2, <2>1, <2>2
  <2> QED BY <2>1, <2>2, <2>3, InodeRead
<1>4. CASE ~i.ok \/ ~i.inode.dir
  <2>1. q = Fails(i.s)
    BY <1>2, <1>4 DEF LookupComponent, IsDirectory
  <2>2. Excused
    BY <1>1, <1>3, <1>4 DEF FirstWay, Searchable
  <2> QED BY <1>3, <2>1, <2>2, LookupFails
<1>5. CASE i.ok /\ i.inode.dir
  <2>1. PICK m : m = vmm_allocate(i.s, "dir_data")
    OBVIOUS
  <2>2. "dir_data" \in Objects
    BY DEF Objects
  <2>3. /\ m.ok \in BOOLEAN /\ (m.ok <=> i.s.mem # 0)
        /\ Coherent(m.s, L) /\ SameView(i.s, m.s)
        /\ ~m.ok => m.s = i.s
        /\ m.ok => /\ m.s.held = [i.s.held EXCEPT !["dir_data"] = @ + 1]
                   /\ m.s.mem = i.s.mem - 1
    <3>1. Coherent(i.s, L)
      BY <1>3 DEF Kept
    <3> QED BY <2>1, <2>2, <3>1, Allocates
  <2>4. i.s.held = p.s.held /\ p.s.held \in [Objects -> Int]
    BY <1>1, <1>3 DEF Kept, State
  <2>5. SameView(p.s, m.s)
    BY <1>3, <2>3 DEF Kept, SameView
  <2>6. CASE ~m.ok
    <3>1. q = Fails(m.s)
      BY <1>2, <1>5, <2>1, <2>6 DEF LookupComponent, IsDirectory
    <3>2. Excused
      BY <1>1, <1>3, <1>5, <2>3, <2>6
    <3>3. Kept(p.s, m.s, L)
      BY <1>3, <2>3, <2>6
    <3> QED BY <3>1, <3>2, <3>3, LookupFails
  <2>7. ASSUME m.ok, NEW c, NEW e, Kept(m.s, c, L), e = DirDataFreed(c, TRUE) \/ e = DirDataFreed(c, FALSE)
        PROVE  Kept(p.s, e, L) /\ e.mem = c.mem
    <3>1. e = vmm_free(c, "dir_data")
      BY <2>7 DEF DirDataFreed
    <3>2. Coherent(c, L) /\ SameView(m.s, c) /\ c.held = m.s.held
      BY <2>7 DEF Kept
    <3>3. /\ Coherent(e, L) /\ SameView(c, e)
          /\ e.held = [c.held EXCEPT !["dir_data"] = @ - 1] /\ e.mem = c.mem
      BY <3>1, <3>2, <2>2, Frees
    <3>4. e.held = p.s.held
      BY <3>2, <3>3, <2>2, <2>3, <2>4, <2>7, TakenAndFreed
    <3>5. SameView(p.s, e)
      BY <3>2, <3>3, <2>5 DEF SameView
    <3> QED BY <3>3, <3>4, <3>5 DEF Kept
  <2>8. CASE m.ok /\ i.inode.map = "bad"
    <3>1. PICK e : e = DirDataFreed(m.s, TRUE)
      OBVIOUS
    <3>2. q = Fails(e)
      BY <1>2, <1>5, <2>1, <2>8, <3>1 DEF LookupComponent, IsDirectory
    <3>3. Kept(p.s, e, L)
      BY <3>1, <2>3, <2>7, <2>8, KeptItself
    <3>4. Excused
      BY <1>3, <1>5, <2>8 DEF FirstWay, Searchable
    <3> QED BY <3>2, <3>3, <3>4, LookupFails
  <2>9. CASE m.ok /\ i.inode.map # "bad"
    <3>1. PICK d : d = SearchDirectory(m.s, i.inode, name, x)
      OBVIOUS
    <3>2. PICK e : e = DirDataFreed(d.s, FALSE)
      OBVIOUS
    <3>3. q = [ok |-> d.found # 0, cur |-> d.found, s |-> e]
      BY <1>2, <1>5, <2>1, <2>9, <3>1, <3>2 DEF LookupComponent, IsDirectory
    <3>4. Searching(m.s, d, i.inode, Len(i.inode.blocks), name, x, L)
      <4>1. PICK a, I : a = m.s /\ I = i.inode
        OBVIOUS
      <4>2. Coherent(a, L) /\ I \in Inodes /\ d = SearchDirectory(a, I, name, x)
        BY <4>1, <3>1, <2>3, <1>3, <1>5
      <4>3. Searching(a, d, I, Len(I.blocks), name, x, L)
        BY <4>2, SearchFinds
      <4> QED BY <4>1, <4>3
    <3>5. Kept(m.s, d.s, L) /\ d.s.mem = m.s.mem /\ d.found \in Nat
      BY <3>4 DEF Searching
    <3>6. Kept(p.s, e, L) /\ e.mem = d.s.mem
      BY <3>2, <3>5, <2>7, <2>9
    <3>7. q \in PathState /\ q.s = e /\ q.cur = d.found /\ (q.ok <=> d.found # 0)
      <4>1. e \in State
        BY <3>6 DEF Kept, Coherent
      <4>2. PICK ok \in BOOLEAN : ok = (d.found # 0)
        OBVIOUS
      <4>3. q = [ok |-> ok, cur |-> d.found, s |-> e]
        BY <3>3, <4>2
      <4>4. q.s = e /\ q.cur = d.found /\ q.ok = ok
        BY <4>3
      <4>5. q \in PathState
        BY <4>1, <4>3, <3>5 DEF PathState
      <4> QED BY <4>2, <4>4, <4>5
    <3>8. e.mem = p.s.mem - 2
      BY <1>1, <1>3, <1>5, <2>3, <2>9, <3>5, <3>6
    <3>9. i.inode = InodeOf(m.s, p.cur) /\ Searchable(m.s, p.cur)
      <4>1. InodeOf(m.s, p.cur) = InodeOf(p.s, p.cur)
        BY <1>3, <1>5, <2>5 DEF InodeFound, InodeOf, SameView
      <4> QED BY <4>1, <1>3, <1>5, <2>9 DEF Searchable
    <3>10. ASSUME d.found # 0
           PROVE  /\ Way(p.s, p.cur, name, d.found)
                  /\ Faultfree(x) => FirstWay(p.s, p.cur, name, d.found)
      <4>1. PICK k \in Searched(i.inode) :
              /\ FirstOf(m.s, i.inode, k, name, d.found)
              /\ Faultfree(x) => \A j \in Searched(i.inode) : j < k => HitsOf(m.s, i.inode, j, name) = {}
        BY <3>4, <3>10 DEF Searching
      <4>2. Way(m.s, p.cur, name, d.found)
        BY <3>9, <4>1 DEF Way, FirstOf
      <4>3. Faultfree(x) => FirstWay(m.s, p.cur, name, d.found)
        BY <3>9, <4>1 DEF FirstWay
      <4> QED BY <4>2, <4>3, <2>5, WaysAreSeen
    <3>11. ASSUME d.found = 0, Faultfree(x), NEW next, FirstWay(p.s, p.cur, name, next)
           PROVE  FALSE
      <4>1. FirstWay(m.s, p.cur, name, next)
        BY <3>11, <2>5, WaysAreSeen
      <4>2. PICK k \in Searched(i.inode) : FirstOf(m.s, i.inode, k, name, next)
        BY <3>9, <4>1 DEF FirstWay
      <4>3. k <= Len(i.inode.blocks)
        BY <1>3, <1>5 DEF Searched, Inodes
      <4>4. HitsOf(m.s, i.inode, k, name) = {}
        BY <3>4, <3>11, <4>3 DEF Searching
      <4> QED BY <4>2, <4>4 DEF FirstOf
    <3> QED BY <3>6, <3>7, <3>8, <3>10, <3>11 DEF LookupOutcome
  <2> QED BY <2>3, <2>6, <2>8, <2>9
<1>6. i.inode.dir \in BOOLEAN \/ ~i.ok
  BY <1>3 DEF Inodes
<1> QED BY <1>3, <1>4, <1>5, <1>6

\* An inode that is found reads as an inode, and its blocks as entries.
LEMMA InodesAreRead ==
  ASSUME NEW L, Readable(L), NEW a, Coherent(a, L), NEW n \in Nat, InodeFound(n), NEW name
  PROVE  /\ InodeOf(a, n) \in Inodes
         /\ \A k \in Searched(InodeOf(a, n)) : HitsOf(a, InodeOf(a, n), k, name) \subseteq Nat
<1>1. InodeOf(a, n) \in Inodes
  <2>1. InodeBlock(n) \in Blocks /\ InodeBlock(n) \in TableBlocks /\ InodeIndex(n) \in 1..InodesPerBlock
    BY InodePlace DEF InodeFound
  <2>2. ViewOf(a, InodeBlock(n)) \in [1..InodesPerBlock -> Inodes]
    BY <2>1 DEF Coherent, Readable, Holds, InodeTables
  <2> QED BY <2>1, <2>2 DEF InodeOf
<1>2. PICK I \in Inodes : I = InodeOf(a, n)
  BY <1>1
<1>3. ASSUME NEW k \in Searched(I) PROVE HitsOf(a, I, k, name) \subseteq Nat
  <2>1. CASE I.blocks[k] \notin Blocks
    BY <2>1 DEF HitsOf
  <2>2. CASE I.blocks[k] \in Blocks
    <3>1. I.blocks[k] \notin TableBlocks
      BY DEF Inodes
    <3>2. PICK v \in Seq(DirEntries) : v = ViewOf(a, I.blocks[k])
      BY <3>1, <2>2 DEF Coherent, Readable, Holds
    <3>3. Hits(v, name) \subseteq Nat
      BY DEF Hits
    <3> QED BY <3>2, <3>3, <2>2 DEF HitsOf
  <2> QED BY <2>1, <2>2
<1> QED BY <1>1, <1>2, <1>3
-----------------------------------------------------------------------------
(* Looking up a path.                                                      *)

\* The loop over the components is well defined: g is its state after each.
LEMMA PathUnrolls ==
  ASSUME NEW a, NEW path, Len(path) \in Nat, NEW x
  PROVE  \E g : /\ g[0] = [ok |-> TRUE, cur |-> Root, s |-> a]
                /\ \A k \in 1..Len(path) : g[k] = LookupComponent(g[k - 1], path[k], x)
                /\ find_inode_by_path(a, path, x) = g[Len(path)]
<1> DEFINE base == [ok |-> TRUE, cur |-> Root, s |-> a]
           Loop(g, n) ==
             g = [k \in 0..n |-> IF k = 0 THEN base ELSE LookupComponent(g[k - 1], path[k], x)]
           S == {n \in Nat : \E g : Loop(g, n)}
<1>2. 0 \in S
  <2>1. Loop([k \in 0..0 |-> base], 0)
    OBVIOUS
  <2> QED BY <2>1
<1>3. ASSUME NEW n \in Nat, n \in S PROVE n + 1 \in S
  <2>1. PICK g : Loop(g, n)
    BY <1>3
  <2> DEFINE e == LookupComponent(g[n], path[n + 1], x)
             h == [k \in 0..(n + 1) |-> IF k = n + 1 THEN e ELSE g[k]]
  <2>2. \A k \in 0..n : g[k] = IF k = 0 THEN base ELSE LookupComponent(g[k - 1], path[k], x)
    <3> HIDE DEF base
    <3> QED BY <2>1
  <2> HIDE DEF e, base
  <2>3. ASSUME NEW k \in 0..(n + 1)
        PROVE  h[k] = IF k = 0 THEN base ELSE LookupComponent(h[k - 1], path[k], x)
    <3>1. CASE k = n + 1
      <4>1. h[k] = e /\ k # 0 /\ h[k - 1] = g[n]
        BY <3>1
      <4> QED BY <3>1, <4>1 DEF e
    <3>2. CASE k = 0
      BY <2>2, <3>2
    <3>3. CASE k # 0 /\ k # n + 1
      <4>1. h[k] = g[k] /\ h[k - 1] = g[k - 1] /\ k \in 0..n
        BY <3>3
      <4> QED BY <2>2, <3>3, <4>1
    <3> QED BY <3>1, <3>2, <3>3
  <2>4. Loop(h, n + 1)
    <3>1. h = [k \in 0..(n + 1) |-> h[k]]
      OBVIOUS
    <3> HIDE DEF h
    <3> QED BY <2>3, <3>1
  <2>5. n + 1 \in Nat /\ \E f : Loop(f, n + 1)
    <3> HIDE DEF Loop, h
    <3> QED BY <2>4
  <2> QED BY <2>5
<1>4. \A n \in Nat : n \in S
  <2> HIDE DEF S
  <2> QED BY <1>2, <1>3, Induction
<1>5. \E g : Loop(g, Len(path))
  BY <1>4
<1> DEFINE u == CHOOSE g : Loop(g, Len(path))
<1>6. Loop(u, Len(path))
  <2> HIDE DEF Loop
  <2> QED BY <1>5
<1>7. find_inode_by_path(a, path, x) = u[Len(path)]
  BY DEF find_inode_by_path
<1> HIDE DEF u
<1>8. /\ u[0] = base
      /\ \A k \in 1..Len(path) : u[k] = LookupComponent(u[k - 1], path[k], x)
  <2>1. PICK n \in Nat : n = Len(path)
    OBVIOUS
  <2>2. \A k \in 0..n : u[k] = IF k = 0 THEN base ELSE LookupComponent(u[k - 1], path[k], x)
    <3> HIDE DEF base
    <3> QED BY <1>6, <2>1
  <2> HIDE DEF base
  <2> QED BY <2>1, <2>2
<1> QED BY <1>7, <1>8

(* The lookup after k components: p is its outcome, c the inodes it went   *)
(* through.                                                                *)
Following(a, p, path, k, x, L) ==
  /\ p \in PathState /\ Kept(a, p.s, L)
  /\ p.ok =>
       /\ p.s.mem + 2 * k = a.mem
       /\ \E c \in [1..k + 1 -> Nat] :
            /\ c[1] = Root /\ c[k + 1] = p.cur
            /\ \A i \in 1..k : Way(a, c[i], path[i], c[i + 1])
            /\ Faultfree(x) => \A i \in 1..k : FirstWay(a, c[i], path[i], c[i + 1])
  /\ Faultfree(x) /\ a.mem >= 2 * Len(path) + 2 =>
       \A c : c[1] = Root /\ (\A i \in 1..k : FirstWay(a, c[i], path[i], c[i + 1]))
                => p.ok /\ p.cur = c[k + 1]

\* One more component.
LEMMA FollowStep ==
  ASSUME NEW L, Readable(L), NEW x, NEW a, Coherent(a, L), NEW path \in Seq(STRING),
         NEW k \in Nat, k + 1 <= Len(path), NEW p, Following(a, p, path, k, x, L),
         NEW q, q = LookupComponent(p, path[k + 1], x)
  PROVE  Following(a, q, path, k + 1, x, L)
<1>1. p \in PathState /\ Kept(a, p.s, L) /\ p.ok \in BOOLEAN /\ p.cur \in Nat
  BY DEF Following, PathState
<1>2. a.mem \in Nat
  BY DEF Coherent, State
<1>3. CASE ~p.ok
  <2>1. q = p
    BY <1>3 DEF LookupComponent
  <2>2. ASSUME Faultfree(x), a.mem >= 2 * Len(path) + 2, NEW c, c[1] = Root,
               \A i \in 1..k + 1 : FirstWay(a, c[i], path[i], c[i + 1])
        PROVE  FALSE
    <3>1. \A i \in 1..k : FirstWay(a, c[i], path[i], c[i + 1])
      BY <2>2
    <3> QED BY <3>1, <2>2, <1>3 DEF Following
  <2> QED BY <2>1, <2>2, <1>1, <1>3 DEF Following
<1>4. CASE p.ok
  <2>1. Coherent(p.s, L) /\ SameView(a, p.s) /\ p.s.held = a.held
    BY <1>1 DEF Kept
  <2>2. LookupOutcome(p, path[k + 1], x, q, L)
    <3>1. PICK name : name = path[k + 1]
      OBVIOUS
    <3>2. q = LookupComponent(p, name, x)
      BY <3>1
    <3>3. LookupOutcome(p, name, x, q, L)
      BY <1>1, <1>4, <2>1, <3>2, LookupStep
    <3> QED BY <3>1, <3>3
  <2>3. q \in PathState /\ Kept(a, q.s, L)
    BY <2>1, <2>2 DEF LookupOutcome, Kept, SameView
  <2>4. q.cur \in Nat /\ q.ok \in BOOLEAN /\ p.s.mem \in Nat /\ p.s.mem + 2 * k = a.mem
    BY <1>1, <1>4, <2>3 DEF PathState, State, Following
  <2>5. ASSUME q.ok
        PROVE  /\ q.s.mem + 2 * (k + 1) = a.mem
               /\ Way(a, p.cur, path[k + 1], q.cur)
               /\ Faultfree(x) => FirstWay(a, p.cur, path[k + 1], q.cur)
    <3>1. q.s.mem = p.s.mem - 2
      BY <2>2, <2>5 DEF LookupOutcome
    <3>2. q.s.mem + 2 * (k + 1) = a.mem
      BY <2>4, <3>1
    <3>3. /\ Way(p.s, p.cur, path[k + 1], q.cur)
          /\ Faultfree(x) => FirstWay(p.s, p.cur, path[k + 1], q.cur)
      BY <2>2, <2>5 DEF LookupOutcome
    <3> QED BY <3>2, <3>3, <2>1, WaysAreSeen
  <2>6. ASSUME q.ok
        PROVE  \E c \in [1..(k + 1) + 1 -> Nat] :
                 /\ c[1] = Root /\ c[(k + 1) + 1] = q.cur
                 /\ \A i \in 1..k + 1 : Way(a, c[i], path[i], c[i + 1])
                 /\ Faultfree(x) => \A i \in 1..k + 1 : FirstWay(a, c[i], path[i], c[i + 1])
    <3>1. PICK c \in [1..k + 1 -> Nat] :
            /\ c[1] = Root /\ c[k + 1] = p.cur
            /\ \A i \in 1..k : Way(a, c[i], path[i], c[i + 1])
            /\ Faultfree(x) => \A i \in 1..k : FirstWay(a, c[i], path[i], c[i + 1])
      BY <1>4 DEF Following
    <3> DEFINE e == [i \in 1..(k + 1) + 1 |-> IF i = k + 2 THEN q.cur ELSE c[i]]
    <3>2. /\ e \in [1..(k + 1) + 1 -> Nat] /\ e[1] = Root /\ e[(k + 1) + 1] = q.cur
          /\ e[k + 1] = p.cur /\ \A i \in 1..k + 1 : e[i] = c[i]
      BY <2>4, <3>1
    <3> HIDE DEF e
    <3>3. \A i \in 1..k : i + 1 \in 1..k + 1 /\ i \in 1..k + 1
      OBVIOUS
    <3>4. \A i \in 1..k + 1 : i \in 1..k \/ i = k + 1
      OBVIOUS
    <3>5. \A i \in 1..k + 1 : Way(a, e[i], path[i], e[i + 1])
      BY <3>1, <3>2, <3>3, <3>4, <2>5, <2>6
    <3>6. Faultfree(x) => \A i \in 1..k + 1 : FirstWay(a, e[i], path[i], e[i + 1])
      BY <3>1, <3>2, <3>3, <3>4, <2>5, <2>6
    <3> QED BY <3>2, <3>5, <3>6
  <2>7. ASSUME Faultfree(x), a.mem >= 2 * Len(path) + 2, NEW c, c[1] = Root,
               \A i \in 1..k + 1 : FirstWay(a, c[i], path[i], c[i + 1])
        PROVE  q.ok /\ q.cur = c[(k + 1) + 1]
    <3>1. p.cur = c[k + 1]
      <4>1. \A i \in 1..k : FirstWay(a, c[i], path[i], c[i + 1])
        BY <2>7
      <4> QED BY <2>7, <4>1 DEF Following
    <3>2. FirstWay(a, p.cur, path[k + 1], c[(k + 1) + 1])
      BY <2>7, <3>1
    <3>3. p.s.mem >= 2
      <4>1. PICK l \in Nat : l = Len(path)
        OBVIOUS
      <4> QED BY <4>1, <2>4, <2>7, <1>2
    <3>4. FirstWay(p.s, p.cur, path[k + 1], c[(k + 1) + 1])
      BY <3>2, <2>1, WaysAreSeen
    <3>5. q.ok
      BY <3>3, <3>4, <2>2, <2>7 DEF LookupOutcome
    <3>6. FirstWay(a, p.cur, path[k + 1], q.cur)
      BY <3>5, <2>5, <2>7
    <3>7. InodeFound(p.cur)
      BY <3>2 DEF FirstWay, Searchable
    <3>n. PICK n \in Nat : n = p.cur
      BY <1>1
    <3>8. PICK name, one, two : name = path[k + 1] /\ one = q.cur /\ two = c[(k + 1) + 1]
      OBVIOUS
    <3>9. /\ InodeOf(a, n) \in Inodes
          /\ \A i \in Searched(InodeOf(a, n)) : HitsOf(a, InodeOf(a, n), i, name) \subseteq Nat
      BY <3>7, <3>n, InodesAreRead
    <3>10. FirstWay(a, n, name, one) /\ FirstWay(a, n, name, two)
      BY <3>2, <3>6, <3>8, <3>n
    <3>11. one = two
      BY <3>9, <3>10, FirstIsUnique
    <3> QED BY <3>5, <3>8, <3>11
  <2> QED BY <2>3, <2>5, <2>6, <2>7 DEF Following
<1> QED BY <1>1, <1>3, <1>4

\* The whole path, by induction over its components.
LEMMA PathFollows ==
  ASSUME NEW L, Readable(L), NEW x, NEW a, Coherent(a, L), NEW path \in Seq(STRING)
  PROVE  Following(a, find_inode_by_path(a, path, x), path, Len(path), x, L)
<1>1. Len(path) \in Nat
  OBVIOUS
<1>2. PICK g : /\ g[0] = [ok |-> TRUE, cur |-> Root, s |-> a]
               /\ \A k \in 1..Len(path) : g[k] = LookupComponent(g[k - 1], path[k], x)
               /\ find_inode_by_path(a, path, x) = g[Len(path)]
  BY <1>1, PathUnrolls
<1> DEFINE S == {k \in Nat : k <= Len(path) => Following(a, g[k], path, k, x, L)}
<1>3. 0 \in S
  <2> DEFINE p == g[0]
             c == [i \in 1..1 |-> Root]
  <2>1. a \in State /\ a.mem \in Nat
    BY DEF Coherent, State
  <2>2. Root \in Nat
    BY DEF Root
  <2>3. p \in PathState /\ p.ok = TRUE /\ p.cur = Root /\ p.s = a
    BY <1>2, <2>1, <2>2 DEF PathState
  <2>4. c \in [1..0 + 1 -> Nat] /\ c[1] = Root /\ 1..0 = {}
    BY <2>2
  <2> HIDE DEF p, c
  <2>5. \E e \in [1..0 + 1 -> Nat] :
          /\ e[1] = Root /\ e[0 + 1] = p.cur
          /\ \A i \in 1..0 : Way(a, e[i], path[i], e[i + 1])
          /\ Faultfree(x) => \A i \in 1..0 : FirstWay(a, e[i], path[i], e[i + 1])
    <3>1. c[0 + 1] = p.cur
      BY <2>3, <2>4
    <3> QED BY <2>4, <3>1
  <2>6. Kept(a, p.s, L)
    BY <2>3, KeptItself
  <2>7. p.s.mem + 2 * 0 = a.mem
    BY <2>1, <2>3
  <2>8. Following(a, p, path, 0, x, L)
    BY <2>3, <2>5, <2>6, <2>7 DEF Following
  <2> QED BY <2>8 DEF p
<1>4. ASSUME NEW k \in Nat, k \in S PROVE k + 1 \in S
  <2>1. SUFFICES ASSUME k + 1 <= Len(path)
                 PROVE  Following(a, g[k + 1], path, k + 1, x, L)
    OBVIOUS
  <2>2. PICK p, q : p = g[k] /\ q = g[k + 1]
    OBVIOUS
  <2>3. k <= Len(path) /\ k + 1 \in 1..Len(path) /\ (k + 1) - 1 = k
    BY <1>1, <2>1
  <2>4. Following(a, p, path, k, x, L) /\ q = LookupComponent(p, path[k + 1], x)
    BY <1>2, <1>4, <2>2, <2>3
  <2>5. Following(a, q, path, k + 1, x, L)
    BY <2>1, <2>4, FollowStep
  <2> QED BY <2>2, <2>5
<1>5. \A k \in Nat : k \in S
  <2> HIDE DEF S
  <2> QED BY <1>3, <1>4, Induction
<1>6. Following(a, g[Len(path)], path, Len(path), x, L)
  BY <1>1, <1>5
<1> QED BY <1>2, <1>6

(* What opening the path may do: r is the outcome.                         *)
OpenOutcome(a, path, x, r, L) ==
  /\ r \in PathState
  /\ Coherent(r.s, L) /\ SameView(a, r.s)
  /\ ~r.ok => r.s.held = a.held
  /\ r.ok =>
       /\ r.s.held = [a.held EXCEPT !["file"] = @ + 1]
       /\ \E c \in [1..Len(path) + 1 -> Nat] :
            /\ c[1] = Root /\ c[Len(path) + 1] = r.cur /\ InodeFound(r.cur)
            /\ \A i \in 1..Len(path) : Way(a, c[i], path[i], c[i + 1])
            /\ Faultfree(x) => \A i \in 1..Len(path) : FirstWay(a, c[i], path[i], c[i + 1])
  /\ Faultfree(x) /\ a.mem >= 2 * Len(path) + 2 =>
       \A c : /\ c[1] = Root /\ InodeFound(c[Len(path) + 1])
              /\ \A i \in 1..Len(path) : FirstWay(a, c[i], path[i], c[i + 1])
             => r.ok

\* A path is opened if and only if it leads to an inode that can be read, and
\* keeps the memory of one file.
LEMMA Opens ==
  ASSUME NEW L, Readable(L), NEW x, NEW a, Coherent(a, L), NEW path \in Seq(STRING),
         NEW r, r = Opened(a, path, x)
  PROVE  OpenOutcome(a, path, x, r, L)
<1>1. PICK p : p = find_inode_by_path(a, path, x)
  OBVIOUS
<1>2. PICK n \in Nat : n = Len(path)
  OBVIOUS
<1>3. Following(a, p, path, n, x, L)
  BY <1>1, <1>2, PathFollows
<1>4. /\ p \in PathState /\ p.ok \in BOOLEAN /\ p.cur \in Nat
      /\ Coherent(p.s, L) /\ SameView(a, p.s) /\ p.s.held = a.held
      /\ a.mem \in Nat /\ p.s.mem \in Nat /\ a.held \in [Objects -> Int]
  BY <1>3 DEF Following, PathState, Kept, Coherent, State
<1>5. ASSUME NEW e, e \in State PROVE [p EXCEPT !.ok = FALSE, !.s = e] \in PathState
  BY <1>4, <1>5 DEF PathState
<1>6. CASE ~p.ok
  <2>1. r = p
    BY <1>1, <1>6 DEF Opened
  <2> QED BY <2>1, <1>2, <1>3, <1>4, <1>6 DEF OpenOutcome, Following
<1>7. CASE p.ok
  <2>1. PICK f : f = vmm_allocate(p.s, "file")
    OBVIOUS
  <2>2. "file" \in Objects
    BY DEF Objects
  <2>3. /\ f.ok \in BOOLEAN /\ (f.ok <=> p.s.mem # 0)
        /\ Coherent(f.s, L) /\ SameView(p.s, f.s)
        /\ ~f.ok => f.s = p.s
        /\ f.ok => /\ f.s.held = [p.s.held EXCEPT !["file"] = @ + 1]
                   /\ f.s.mem = p.s.mem - 1
    BY <2>1, <2>2, <1>4, Allocates
  <2>4. /\ p.s.mem + 2 * n = a.mem
        /\ \E c \in [1..n + 1 -> Nat] :
             /\ c[1] = Root /\ c[n + 1] = p.cur
             /\ \A i \in 1..n : Way(a, c[i], path[i], c[i + 1])
             /\ Faultfree(x) => \A i \in 1..n : FirstWay(a, c[i], path[i], c[i + 1])
    BY <1>3, <1>7 DEF Following
  <2>5. CASE ~f.ok
    <3>1. r = [p EXCEPT !.ok = FALSE, !.s = f.s]
      BY <1>1, <1>7, <2>1, <2>5 DEF Opened
    <3>2. r \in PathState /\ r.ok = FALSE /\ r.s = p.s
      BY <3>1, <2>3, <2>5, <1>4, <1>5 DEF PathState, Coherent
    <3>3. ~(a.mem >= 2 * n + 2)
      BY <1>4, <2>3, <2>4, <2>5
    <3> QED BY <3>2, <3>3, <1>2, <1>4 DEF OpenOutcome
  <2>6. CASE f.ok
    <3>1. PICK i : i = read_inode(f.s, p.cur, x)
      OBVIOUS
    <3>2. /\ i.ok \in BOOLEAN /\ Kept(f.s, i.s, L)
          /\ i.ok => InodeFound(p.cur)
          /\ Faultfree(x) /\ InodeFound(p.cur) /\ f.s.mem # 0 => i.ok
      <4>1. PICK e : e = f.s
        OBVIOUS
      <4>2. PICK m \in Nat : m = p.cur
        BY <1>4
      <4>3. Coherent(e, L) /\ i = read_inode(e, m, x)
        BY <2>3, <3>1, <4>1, <4>2
      <4> QED BY <4>1, <4>2, <4>3, InodeRead
    <3>3. Coherent(i.s, L) /\ i.s \in State /\ SameView(a, i.s) /\ i.s.held = f.s.held
      BY <3>2, <2>3, <1>4 DEF Kept, SameView, Coherent
    <3>4. CASE i.ok
      <4>1. r = [p EXCEPT !.s = i.s]
        BY <1>1, <1>7, <2>1, <2>6, <3>1, <3>4 DEF Opened
      <4>2. r \in PathState /\ r.ok = p.ok /\ r.s = i.s /\ r.cur = p.cur
        BY <4>1, <3>3, <1>4 DEF PathState
      <4>3. r.s.held = [a.held EXCEPT !["file"] = @ + 1]
        BY <4>2, <3>3, <2>3, <2>6, <1>4
      <4>4. PICK c \in [1..n + 1 -> Nat] :
              /\ c[1] = Root /\ c[n + 1] = p.cur
              /\ \A j \in 1..n : Way(a, c[j], path[j], c[j + 1])
              /\ Faultfree(x) => \A j \in 1..n : FirstWay(a, c[j], path[j], c[j + 1])
        BY <2>4
      <4>5. InodeFound(r.cur) /\ c[n + 1] = r.cur /\ r.ok
        BY <4>2, <4>4, <3>2, <3>4, <1>7
      <4> QED BY <4>2, <4>3, <4>4, <4>5, <3>3, <1>2 DEF OpenOutcome
    <3>5. CASE ~i.ok
      <4>1. PICK e : e = vmm_free(i.s, "file")
        OBVIOUS
      <4>2. r = [p EXCEPT !.ok = FALSE, !.s = e]
        BY <1>1, <1>7, <2>1, <2>6, <3>1, <3>5, <4>1 DEF Opened
      <4>3. /\ Coherent(e, L) /\ SameView(i.s, e)
            /\ e.held = [i.s.held EXCEPT !["file"] = @ - 1]
        <5>1. PICK h : h = i.s
          OBVIOUS
        <5>2. Coherent(h, L) /\ e = vmm_free(h, "file")
          BY <4>1, <3>3, <5>1
        <5> QED BY <5>1, <5>2, <2>2, Frees
      <4>4. e.held = a.held
        BY <4>3, <3>3, <2>2, <2>3, <2>6, <1>4, TakenAndFreed
      <4>5. r \in PathState /\ r.ok = FALSE /\ r.s = e
        BY <4>2, <4>3, <1>4, <1>5 DEF PathState, Coherent
      <4>6. SameView(a, e)
        BY <4>3, <3>3 DEF SameView
      <4>7. ASSUME Faultfree(x), a.mem >= 2 * n + 2, NEW c, c[1] = Root, InodeFound(c[n + 1]),
                   \A j \in 1..n : FirstWay(a, c[j], path[j], c[j + 1])
            PROVE  FALSE
        <5>1. a.mem >= 2 * Len(path) + 2 /\ p.cur = c[n + 1]
          BY <4>7, <1>2, <1>3 DEF Following
        <5>2. f.s.mem # 0
          BY <4>7, <2>3, <2>4, <2>6, <1>4
        <5> QED BY <4>7, <5>1, <5>2, <3>2, <3>5
      <4> QED BY <4>3, <4>4, <4>5, <4>6, <4>7, <1>2 DEF OpenOutcome
    <3> QED BY <3>2, <3>4, <3>5
  <2> QED BY <2>3, <2>5, <2>6
<1> QED BY <1>4, <1>6, <1>7
-----------------------------------------------------------------------------
(* The calls.                                                              *)

(* The inductive invariant: the buffer and the device agree with the       *)
(* writes, whatever may be read is of its block's kind, nothing is         *)
(* buffered while nothing is mounted, and the account is exact.            *)
Inv ==
  /\ last \in [Blocks -> SUBSET Values] /\ Readable(last)
  /\ Coherent(s, last) /\ s.mem = 0
  /\ fs = NoDevice => s.buffer_block = NoBlock
  /\ files \in Seq(Nat)
  /\ MemoryExact

\* A call starts and ends with the memory there is, and changes nothing by that.
LEMMA MemorySet ==
  ASSUME NEW L, NEW a, Coherent(a, L), NEW m \in Nat, NEW c, c = [a EXCEPT !.mem = m]
  PROVE  /\ Coherent(c, L) /\ SameView(a, c) /\ c.held = a.held /\ c.mem = m
         /\ c.buffer_block = a.buffer_block
<1>1. a \in State
  BY DEF Coherent
<1>2. /\ c.disk = a.disk /\ c.buffer = a.buffer /\ c.buffer_block = a.buffer_block
      /\ c.dirty = a.dirty /\ c.held = a.held /\ c.mem = m /\ c \in State
  BY <1>1 DEF State
<1> QED BY <1>2 DEF Coherent, SameView, ViewOf

LEMMA Starts ==
  ASSUME Inv, NEW x \in Faults
  PROVE  /\ Coherent(With(x), last) /\ SameView(s, With(x)) /\ With(x).held = s.held
         /\ With(x).mem = x.mem /\ With(x).buffer_block = s.buffer_block
<1>1. x.mem \in Nat /\ Coherent(s, last)
  BY Ext4Assumption DEF Inv
<1>2. PICK m \in Nat : m = x.mem
  BY <1>1
<1>3. PICK L, a, c : L = last /\ a = s /\ c = With(x)
  OBVIOUS
<1>4. Coherent(a, L) /\ c = [a EXCEPT !.mem = m]
  BY <1>1, <1>2, <1>3 DEF With
<1> QED BY <1>2, <1>3, <1>4, MemorySet

\* A call that reads only, or writes what is buffered.
LEMMA QuietCall ==
  ASSUME Inv, NEW a, Coherent(a, last), a.held = s.held,
         fs = NoDevice => a.buffer_block = NoBlock,
         s' = Without(a), UNCHANGED <<fs, files, last>>
  PROVE  Inv'
<1>1. /\ Coherent(s', last) /\ s'.held = a.held /\ s'.mem = 0
      /\ s'.buffer_block = a.buffer_block
  <2>1. PICK L, c : L = last /\ c = s' 
    OBVIOUS
  <2>2. Coherent(a, L) /\ c = [a EXCEPT !.mem = 0] /\ 0 \in Nat
    BY <2>1 DEF Without
  <2> QED BY <2>1, <2>2, MemorySet
<1> QED BY <1>1 DEF Inv, MemoryExact

LEMMA DetectKeeps ==
  ASSUME Inv, NEW x \in Faults, NEW d, ext4_detect(d, x)
  PROVE  Inv'
<1>1. PICK a : a = With(x)
  OBVIOUS
<1>2. PICK L : L = last
  OBVIOUS
<1>3. Coherent(a, L) /\ a.held = s.held /\ a.buffer_block = s.buffer_block
  BY <1>1, <1>2, Starts
<1>4. PICK r : r = vmm_allocate(a, "superblock")
  OBVIOUS
<1>5. "superblock" \in Objects
  BY DEF Objects
<1>6. /\ r.ok \in BOOLEAN
      /\ Coherent(r.s, L) /\ r.s.buffer_block = a.buffer_block
      /\ ~r.ok => r.s = a
      /\ r.ok => r.s.held = [a.held EXCEPT !["superblock"] = @ + 1]
  BY <1>3, <1>4, <1>5, Allocates
<1>7. PICK c : c = IF r.ok THEN vmm_free(r.s, "superblock") ELSE r.s
  OBVIOUS
<1>8. s' = Without(c) /\ UNCHANGED <<fs, files, last>>
  BY <1>1, <1>4, <1>7 DEF ext4_detect
<1>9. Coherent(c, L) /\ c.held = a.held /\ c.buffer_block = a.buffer_block
  <2>1. CASE ~r.ok
    BY <2>1, <1>3, <1>6, <1>7
  <2>2. CASE r.ok
    <3>1. PICK e : e = r.s
      OBVIOUS
    <3>2. Coherent(e, L) /\ c = vmm_free(e, "superblock")
      BY <2>2, <3>1, <1>6, <1>7
    <3>3. /\ Coherent(c, L) /\ c.buffer_block = e.buffer_block
          /\ c.held = [e.held EXCEPT !["superblock"] = @ - 1]
      BY <3>2, <1>5, Frees
    <3>4. a.held \in [Objects -> Int]
      BY <1>3 DEF Coherent, State
    <3>5. c.held = a.held
      BY <2>2, <3>1, <3>3, <3>4, <1>5, <1>6, TakenAndFreed
    <3> QED BY <3>1, <3>3, <3>5, <1>6
  <2> QED BY <2>1, <2>2, <1>6
<1> QED BY <1>2, <1>3, <1>8, <1>9, QuietCall DEF Inv

LEMMA ReadBlockKeeps ==
  ASSUME Inv, NEW x \in Faults, NEW b, ReadBlock(b, x)
  PROVE  Inv'
<1>1. PICK a, L : a = With(x) /\ L = last
  OBVIOUS
<1>2. Coherent(a, L) /\ a.held = s.held
  BY <1>1, Starts
<1>3. PICK r : r = ext4_read_block(a, b, x)
  OBVIOUS
<1>4. ReadOutcome(a, b, x, r, L)
  BY <1>2, <1>3, ReadKeeps
<1>5. s' = Without(r.s) /\ UNCHANGED <<fs, files, last>> /\ fs # NoDevice
  BY <1>1, <1>3 DEF ReadBlock
<1> QED BY <1>1, <1>2, <1>4, <1>5, QuietCall DEF ReadOutcome

LEMMA FlushBlocksKeeps ==
  ASSUME Inv, NEW x \in Faults, ext4_flush_blocks(x)
  PROVE  Inv'
<1>1. PICK a, L : a = With(x) /\ L = last
  OBVIOUS
<1>2. Coherent(a, L) /\ a.held = s.held
  BY <1>1, Starts
<1>3. PICK f : f = Flushed(a, x)
  OBVIOUS
<1>4. Coherent(f.s, L) /\ f.s.held = a.held
  BY <1>2, <1>3, FlushKeeps
<1>5. s' = Without(f.s) /\ UNCHANGED <<fs, files, last>> /\ fs # NoDevice
  BY <1>1, <1>3 DEF ext4_flush_blocks
<1> QED BY <1>1, <1>2, <1>4, <1>5, QuietCall

\* A write: the buffered block is replaced although it may be dirty, as what
\* it holds was written through or reported as failed.
LEMMA WriteBlockKeeps ==
  ASSUME Inv, NEW x \in Faults, NEW b \in Blocks, NEW v \in Contents[b], WriteBlock(b, v, x)
  PROVE  Inv'
<1>1. PICK a : a = With(x)
  OBVIOUS
<1>2. Coherent(a, last) /\ a.held = s.held /\ a \in State
  BY <1>1, Starts DEF Coherent
<1>3. v \in Holds(b) /\ v \in Values
  BY DiskAssumption DEF Holds, Values
<1>4. PICK w : w = ext4_write_block(a, b, v, x)
  OBVIOUS
<1>5. /\ s' = Without(w.s)
      /\ last' = [last EXCEPT ![b] = IF w.ok THEN {v} ELSE @ \cup {v}]
      /\ UNCHANGED <<fs, files>> /\ fs # NoDevice
  BY <1>1, <1>4 DEF WriteBlock
<1> DEFINE B == Buffered(a, b, v)
<1>6. /\ B \in State
      /\ B.disk = a.disk /\ B.buffer = v /\ B.buffer_block = b /\ B.dirty = TRUE
      /\ B.held = a.held /\ B.mem = a.mem
  BY <1>2, <1>3 DEF State, Buffered
<1>7. /\ w.ok = (b \notin x.unwritable)
      /\ w.s = IF b \in x.unwritable /\ ~x.reached THEN B ELSE [B EXCEPT !.disk[b] = v]
  BY <1>4 DEF ext4_write_block, write_blocks
<1> HIDE DEF B
<1>8. PICK c : c = w.s
  OBVIOUS
<1>9. /\ c \in State
      /\ c.disk = a.disk \/ c.disk = [a.disk EXCEPT ![b] = v]
      /\ w.ok => c.disk = [a.disk EXCEPT ![b] = v]
      /\ c.buffer = v /\ c.buffer_block = b /\ c.dirty = TRUE
      /\ c.held = a.held
  <2>1. CASE b \in x.unwritable /\ ~x.reached
    <3>1. c = B /\ ~w.ok
      BY <2>1, <1>7, <1>8
    <3> QED BY <3>1, <1>6
  <2>2. CASE ~(b \in x.unwritable /\ ~x.reached)
    <3>1. c = [B EXCEPT !.disk[b] = v]
      BY <2>2, <1>7, <1>8
    <3>2. c \in State /\ c.disk = [B.disk EXCEPT ![b] = v]
      BY <3>1, <1>3, <1>6 DEF State
    <3>3. c.buffer = B.buffer /\ c.buffer_block = B.buffer_block /\ c.dirty = B.dirty /\ c.held = B.held
      BY <3>1, <1>6 DEF State
    <3> QED BY <3>2, <3>3, <1>6
  <2> QED BY <2>1, <2>2
<1>10. last \in [Blocks -> SUBSET Values] /\ a.disk \in [Blocks -> Values]
  BY <1>2 DEF Inv, State
<1>11. /\ last' \in [Blocks -> SUBSET Values]
       /\ v \in last'[b] /\ last'[b] \subseteq last[b] \cup {v}
       /\ \A e \in Blocks : e # b => last'[e] = last[e]
       /\ ~w.ok => last[b] \subseteq last'[b]
  BY <1>3, <1>5, <1>10
<1>12. Readable(last')
  BY <1>3, <1>11 DEF Inv, Readable
<1>13. \A e \in Blocks : c.disk[e] \in last'[e]
  <2>1. c.disk[b] \in last'[b]
    BY <1>2, <1>9, <1>10, <1>11 DEF Coherent
  <2>2. ASSUME NEW e \in Blocks, e # b PROVE c.disk[e] \in last'[e]
    BY <2>2, <1>2, <1>9, <1>10, <1>11 DEF Coherent
  <2> QED BY <2>1, <2>2
<1>14. \A e \in Blocks : ViewOf(c, e) \in last'[e]
  BY <1>9, <1>11, <1>13 DEF ViewOf
<1>15. Coherent(c, last')
  BY <1>9, <1>13, <1>14, NoBlockIsNone DEF Coherent
<1>16. Coherent(s', last') /\ s'.held = a.held /\ s'.mem = 0
  <2>1. PICK L, e : L = last' /\ e = s'
    OBVIOUS
  <2>2. Coherent(c, L) /\ e = [c EXCEPT !.mem = 0] /\ 0 \in Nat
    BY <2>1, <1>5, <1>8, <1>15 DEF Without
  <2> QED BY <2>1, <2>2, <1>9, MemorySet
<1> QED BY <1>2, <1>5, <1>11, <1>12, <1>16 DEF Inv, MemoryExact

(* What the allocations of a mount add to the account.                     *)
FsObjects == {"fs", "group_desc", "block_buffer"}
MountOutcome(a, r, L) ==
  /\ r.ok \in BOOLEAN
  /\ Coherent(r.s, L) /\ r.s.buffer_block = NoBlock
  /\ ~r.ok => r.s.held = a.held
  /\ r.ok => \A o \in Objects : r.s.held[o] = a.held[o] + (IF o \in FsObjects THEN 1 ELSE 0)

\* A mount that fails at any step gives back what the steps before it took.
LEMMA Mounts ==
  ASSUME NEW L, NEW a, Coherent(a, L), a.buffer_block = NoBlock, NEW d, NEW x,
         NEW r, r = Mounted(a, d, x)
  PROVE  MountOutcome(a, r, L)
<1>1. "fs" \in Objects /\ "group_desc" \in Objects /\ "block_buffer" \in Objects
  BY DEF Objects
<1>2. a.held \in [Objects -> Int]
  BY DEF Coherent, State
<1>3. PICK f : f = vmm_allocate(a, "fs")
  OBVIOUS
<1>4. /\ f.ok \in BOOLEAN
      /\ Coherent(f.s, L) /\ f.s.buffer_block = NoBlock
      /\ ~f.ok => f.s = a
      /\ f.ok => f.s.held = [a.held EXCEPT !["fs"] = @ + 1]
  BY <1>1, <1>3, Allocates
<1>5. ASSUME NEW c, Coherent(c, L), c.buffer_block = NoBlock,
             c.held = [a.held EXCEPT !["fs"] = @ + 1],
             r = [ok |-> FALSE, s |-> NoFs(c)]
      PROVE  MountOutcome(a, r, L)
  <2>1. PICK e : e = vmm_free(c, "fs")
    OBVIOUS
  <2>2. /\ Coherent(e, L) /\ e.buffer_block = NoBlock
        /\ e.held = [c.held EXCEPT !["fs"] = @ - 1]
    BY <2>1, <1>1, <1>5, Frees
  <2>3. e.held = a.held
    BY <2>2, <1>1, <1>2, <1>5, TakenAndFreed
  <2>4. r.ok = FALSE /\ r.s = e
    BY <2>1, <1>5 DEF NoFs
  <2> QED BY <2>2, <2>3, <2>4 DEF MountOutcome
<1>6. CASE ~f.ok
  <2>1. r = f
    BY <1>3, <1>6 DEF Mounted
  <2> QED BY <2>1, <1>4, <1>6 DEF MountOutcome
<1>7. CASE f.ok /\ ~(x.superblock /\ Magic(d))
  <2>1. r = [ok |-> FALSE, s |-> NoFs(f.s)]
    BY <1>3, <1>7 DEF Mounted
  <2> QED BY <2>1, <1>4, <1>5, <1>7
<1>8. CASE f.ok /\ x.superblock /\ Magic(d)
  <2>1. PICK g, F : F = f.s /\ g = vmm_allocate(F, "group_desc")
    OBVIOUS
  <2>2. Coherent(F, L) /\ F.buffer_block = NoBlock /\ F.held = [a.held EXCEPT !["fs"] = @ + 1]
    BY <2>1, <1>4, <1>8
  <2>3. F.held \in [Objects -> Int]
    BY <2>2 DEF Coherent, State
  <2>4. /\ g.ok \in BOOLEAN
        /\ Coherent(g.s, L) /\ g.s.buffer_block = NoBlock
        /\ ~g.ok => g.s = F
        /\ g.ok => g.s.held = [F.held EXCEPT !["group_desc"] = @ + 1]
    BY <2>1, <2>2, <1>1, Allocates
  <2>5. ASSUME NEW c, NEW e, Coherent(c, L), c.buffer_block = NoBlock,
               c.held = [F.held EXCEPT !["group_desc"] = @ + 1], e = vmm_free(c, "group_desc")
        PROVE  Coherent(e, L) /\ e.buffer_block = NoBlock /\ e.held = [a.held EXCEPT !["fs"] = @ + 1]
    <3>1. /\ Coherent(e, L) /\ e.buffer_block = NoBlock
          /\ e.held = [c.held EXCEPT !["group_desc"] = @ - 1]
      BY <2>5, <1>1, Frees
    <3>2. e.held = F.held
      BY <3>1, <2>3, <2>5, <1>1, TakenAndFreed
    <3> QED BY <3>1, <3>2, <2>2
  <2>6. CASE ~g.ok
    <3>1. r = [ok |-> FALSE, s |-> NoFs(g.s)]
      BY <1>3, <1>8, <2>1, <2>6 DEF Mounted
    <3> QED BY <3>1, <2>2, <2>4, <2>6, <1>5
  <2>7. CASE g.ok /\ ~x.gdt
    <3>1. PICK e : e = vmm_free(g.s, "group_desc")
      OBVIOUS
    <3>2. r = [ok |-> FALSE, s |-> NoFs(e)]
      BY <1>3, <1>8, <2>1, <2>7, <3>1 DEF Mounted
    <3>3. Coherent(e, L) /\ e.buffer_block = NoBlock /\ e.held = [a.held EXCEPT !["fs"] = @ + 1]
      BY <3>1, <2>4, <2>5, <2>7
    <3> QED BY <3>2, <3>3, <1>5
  <2>8. CASE g.ok /\ x.gdt
    <3>1. PICK b, G : G = g.s /\ b = vmm_allocate(G, "block_buffer")
      OBVIOUS
    <3>2. /\ Coherent(G, L) /\ G.buffer_block = NoBlock
          /\ G.held = [F.held EXCEPT !["group_desc"] = @ + 1]
      BY <3>1, <2>4, <2>8
    <3>3. /\ b.ok \in BOOLEAN
          /\ Coherent(b.s, L) /\ b.s.buffer_block = NoBlock
          /\ ~b.ok => b.s = G
          /\ b.ok => b.s.held = [G.held EXCEPT !["block_buffer"] = @ + 1]
      BY <3>1, <3>2, <1>1, Allocates
    <3>4. CASE ~b.ok
      <4>1. PICK e : e = vmm_free(b.s, "group_desc")
        OBVIOUS
      <4>2. r = [ok |-> FALSE, s |-> NoFs(e)]
        BY <1>3, <1>8, <2>1, <2>8, <3>1, <3>4, <4>1 DEF Mounted
      <4>3. Coherent(e, L) /\ e.buffer_block = NoBlock /\ e.held = [a.held EXCEPT !["fs"] = @ + 1]
        BY <4>1, <3>2, <3>3, <3>4, <2>5
      <4> QED BY <4>2, <4>3, <1>5
    <3>5. CASE b.ok
      <4>1. PICK B, e : B = b.s /\ e = [B EXCEPT !.buffer_block = NoBlock, !.dirty = FALSE]
        OBVIOUS
      <4>2. r = [ok |-> TRUE, s |-> e]
        BY <1>3, <1>8, <2>1, <2>8, <3>1, <3>5, <4>1 DEF Mounted
      <4>3. /\ e \in State /\ e.disk = B.disk /\ e.buffer_block = NoBlock
            /\ e.dirty = FALSE /\ e.held = B.held
        BY <4>1, <3>3 DEF Coherent, State
      <4>4. Coherent(B, L)
        BY <4>1, <3>3
      <4>5. Coherent(e, L)
        BY <4>3, <4>4, NoBlockIsNone DEF Coherent, ViewOf
      <4>6. B.held = [G.held EXCEPT !["block_buffer"] = @ + 1]
        BY <4>1, <3>3, <3>5
      <4>7. \A o \in Objects : B.held[o] = a.held[o] + (IF o \in FsObjects THEN 1 ELSE 0)
        BY <4>6, <3>2, <2>2, <1>1, <1>2 DEF FsObjects
      <4> QED BY <4>2, <4>3, <4>5, <4>7 DEF MountOutcome
    <3> QED BY <3>3, <3>4, <3>5
  <2> QED BY <2>4, <2>6, <2>7, <2>8
<1> QED BY <1>4, <1>6, <1>7, <1>8

\* The end of a call that changes the account: h is what it holds then.
LEMMA CallEnds ==
  ASSUME NEW L, NEW a, Coherent(a, L), NEW c, c = Without(a)
  PROVE  /\ Coherent(c, L) /\ SameView(a, c) /\ c.held = a.held /\ c.mem = 0
         /\ c.buffer_block = a.buffer_block
<1>1. c = [a EXCEPT !.mem = 0] /\ 0 \in Nat
  BY DEF Without
<1> QED BY <1>1, MemorySet

LEMMA MountKeeps ==
  ASSUME Inv, NEW x \in Faults, NEW d, d # NoDevice, ext4_mount(d, x)
  PROVE  Inv'
<1>1. PICK a, L : a = With(x) /\ L = last
  OBVIOUS
<1>2. Coherent(a, L) /\ a.held = s.held /\ a.buffer_block = NoBlock /\ fs = NoDevice
  BY <1>1, Starts DEF Inv, ext4_mount
<1>3. PICK r : r = Mounted(a, d, x)
  OBVIOUS
<1>4. MountOutcome(a, r, L)
  BY <1>2, <1>3, Mounts
<1>5. s' = Without(r.s) /\ fs' = (IF r.ok THEN d ELSE NoDevice) /\ UNCHANGED <<files, last>>
  BY <1>1, <1>3 DEF ext4_mount
<1>6. PICK e : e = r.s
  OBVIOUS
<1>7. Coherent(s', L) /\ s'.held = e.held /\ s'.mem = 0 /\ s'.buffer_block = NoBlock
  <2>1. PICK c : c = s'
    OBVIOUS
  <2>2. Coherent(e, L) /\ c = Without(e) /\ e.buffer_block = NoBlock
    BY <2>1, <1>4, <1>5, <1>6 DEF MountOutcome
  <2> QED BY <2>1, <2>2, CallEnds
<1>8. MemoryExact'
  <2>1. CASE ~r.ok
    <3>1. s'.held = s.held /\ fs' = fs
      BY <2>1, <1>2, <1>4, <1>5, <1>6, <1>7 DEF MountOutcome
    <3> QED BY <3>1, <1>5 DEF Inv, MemoryExact
  <2>2. CASE r.ok
    <3>1. \A o \in Objects : s'.held[o] = s.held[o] + (IF o \in FsObjects THEN 1 ELSE 0)
      BY <2>2, <1>2, <1>4, <1>6, <1>7 DEF MountOutcome
    <3>2. fs' # NoDevice /\ files' = files
      BY <2>2, <1>5
    <3> QED BY <3>1, <3>2, <1>2 DEF Inv, MemoryExact, FsObjects
  <2> QED BY <2>1, <2>2
<1> QED BY <1>1, <1>5, <1>7, <1>8 DEF Inv

LEMMA UnmountKeeps ==
  ASSUME Inv, NEW x \in Faults, ext4_unmount(x)
  PROVE  Inv'
<1>1. PICK a, L : a = With(x) /\ L = last
  OBVIOUS
<1>2. Coherent(a, L) /\ a.held = s.held
  BY <1>1, Starts
<1>3. PICK f, F : f = Flushed(a, x) /\ F = f.s
  OBVIOUS
<1>4. Coherent(F, L) /\ F.held = a.held
  BY <1>2, <1>3, FlushKeeps
<1>5. PICK b : b = [F EXCEPT !.buffer_block = NoBlock, !.dirty = FALSE]
  OBVIOUS
<1>6. /\ b \in State /\ b.disk = F.disk /\ b.buffer_block = NoBlock
      /\ b.dirty = FALSE /\ b.held = F.held
  BY <1>4, <1>5 DEF Coherent, State
<1>7. Coherent(b, L)
  BY <1>4, <1>6, NoBlockIsNone DEF Coherent, ViewOf
<1>8. "fs" \in Objects /\ "group_desc" \in Objects /\ "block_buffer" \in Objects
  BY DEF Objects
<1>9. PICK c : c = vmm_free(b, "block_buffer")
  OBVIOUS
<1>10. PICK g : g = vmm_free(c, "group_desc")
  OBVIOUS
<1>11. PICK e : e = vmm_free(g, "fs")
  OBVIOUS
<1>12. Coherent(c, L) /\ c.buffer_block = NoBlock /\ c.held = [b.held EXCEPT !["block_buffer"] = @ - 1]
  BY <1>6, <1>7, <1>8, <1>9, Frees
<1>13. Coherent(g, L) /\ g.buffer_block = NoBlock /\ g.held = [c.held EXCEPT !["group_desc"] = @ - 1]
  BY <1>8, <1>10, <1>12, Frees
<1>14. Coherent(e, L) /\ e.buffer_block = NoBlock /\ e.held = [g.held EXCEPT !["fs"] = @ - 1]
  BY <1>8, <1>11, <1>13, Frees
<1>15. s' = Without(e) /\ fs' = NoDevice /\ fs # NoDevice /\ UNCHANGED <<files, last>>
  BY <1>1, <1>3, <1>5, <1>9, <1>10, <1>11 DEF ext4_unmount, NoFs
<1>16. Coherent(s', L) /\ s'.held = e.held /\ s'.mem = 0 /\ s'.buffer_block = NoBlock
  <2>1. PICK h : h = s'
    OBVIOUS
  <2> QED BY <2>1, <1>14, <1>15, CallEnds
<1>17. s.held \in [Objects -> Int]
  BY DEF Inv, Coherent, State
<1>18. \A o \in Objects : e.held[o] = s.held[o] - (IF o \in FsObjects THEN 1 ELSE 0)
  BY <1>2, <1>4, <1>6, <1>8, <1>12, <1>13, <1>14, <1>17 DEF FsObjects
<1>19. MemoryExact'
  BY <1>15, <1>16, <1>18 DEF Inv, MemoryExact, FsObjects
<1> QED BY <1>1, <1>15, <1>16, <1>19 DEF Inv

\* What an open does, in terms of the state it starts in.
LEMMA OpenDoes ==
  ASSUME Inv, NEW x \in Faults, NEW path \in Paths, ext4_open(path, x)
  PROVE  \E a, r : /\ SameView(s, a) /\ a.held = s.held /\ a.mem = x.mem
                   /\ OpenOutcome(a, path, x, r, last)
                   /\ s' = Without(r.s)
                   /\ files' = IF r.ok THEN Append(files, r.cur) ELSE files
                   /\ ret' = [op |-> "open", ok |-> r.ok, path |-> path,
                              faultless |-> Faultless(x, path)]
<1>1. PICK a, L : a = With(x) /\ L = last
  OBVIOUS
<1>2. Coherent(a, L) /\ a.held = s.held /\ SameView(s, a) /\ a.mem = x.mem /\ Readable(L)
  BY <1>1, Starts DEF Inv
<1>3. path \in Seq(STRING)
  BY DiskAssumption
<1>4. PICK r : r = Opened(a, path, x)
  OBVIOUS
<1>5. OpenOutcome(a, path, x, r, L)
  BY <1>2, <1>3, <1>4, Opens
<1> QED BY <1>1, <1>2, <1>4, <1>5 DEF ext4_open

LEMMA OpenKeeps ==
  ASSUME Inv, NEW x \in Faults, NEW path \in Paths, ext4_open(path, x)
  PROVE  Inv'
<1>1. PICK a, r : /\ a.held = s.held
                  /\ OpenOutcome(a, path, x, r, last)
                  /\ s' = Without(r.s)
                  /\ files' = IF r.ok THEN Append(files, r.cur) ELSE files
  BY OpenDoes
<1>2. UNCHANGED <<fs, last>> /\ fs # NoDevice
  BY DEF ext4_open
<1>3. PICK e : e = r.s
  OBVIOUS
<1>4. Coherent(e, last) /\ r.cur \in Nat /\ r.ok \in BOOLEAN
  BY <1>1, <1>3 DEF OpenOutcome, PathState
<1>5. Coherent(s', last) /\ s'.held = e.held /\ s'.mem = 0
  <2>1. PICK c, L : c = s' /\ L = last
    OBVIOUS
  <2> QED BY <2>1, <1>1, <1>3, <1>4, CallEnds
<1>6. files \in Seq(Nat) /\ s.held \in [Objects -> Int]
  BY DEF Inv, Coherent, State
<1>7. files' \in Seq(Nat) /\ MemoryExact'
  <2>1. CASE ~r.ok
    BY <2>1, <1>1, <1>2, <1>3, <1>5, <1>6 DEF OpenOutcome, Inv, MemoryExact
  <2>2. CASE r.ok
    <3>1. files' \in Seq(Nat) /\ Len(files') = Len(files) + 1
      BY <2>2, <1>1, <1>4, <1>6
    <3>2. s'.held = [s.held EXCEPT !["file"] = @ + 1]
      BY <2>2, <1>1, <1>3, <1>5 DEF OpenOutcome
    <3> QED BY <3>1, <3>2, <1>2, <1>6 DEF Inv, MemoryExact, Objects
  <2> QED BY <2>1, <2>2
<1> QED BY <1>2, <1>5, <1>7 DEF Inv

LEMMA CloseKeeps ==
  ASSUME Inv, NEW k \in DOMAIN files, ext4_close(k)
  PROVE  Inv'
<1>1. files \in Seq(Nat) /\ s.held \in [Objects -> Int] /\ s.mem = 0
  BY DEF Inv, Coherent, State
<1>2. files' \in Seq(Nat) /\ Len(files') = Len(files) - 1
  <2>1. PICK n \in Nat : n = Len(files)
    BY <1>1
  <2>2. k \in 1..n
    BY <1>1, <2>1
  <2> DEFINE one == SubSeq(files, 1, k - 1)
             two == SubSeq(files, k + 1, n)
  <2>3. one \in Seq(Nat) /\ Len(one) = k - 1
    <3>1. \A i \in 1..k - 1 : files[i] \in Nat
      BY <1>1, <2>1, <2>2
    <3> QED BY <3>1, <1>1, <2>1, <2>2, SubSeqProperties
  <2>4. two \in Seq(Nat) /\ Len(two) = n - k
    <3>1. k + 1 \in 1..n + 1 /\ n \in 0..n
      BY <2>2
    <3> QED BY <3>1, <1>1, <2>1, <2>2, SubSeqProperties
  <2>5. files' = one \o two
    BY <2>1 DEF ext4_close, RemoveAt
  <2>6. files' \in Seq(Nat) /\ Len(files') = Len(one) + Len(two)
    <3>1. PICK f, g : f = one /\ g = two
      OBVIOUS
    <3>2. f \in Seq(Nat) /\ g \in Seq(Nat)
      BY <3>1, <2>3, <2>4
    <3>3. f \o g \in Seq(Nat) /\ Len(f \o g) = Len(f) + Len(g)
      BY <3>2
    <3> QED BY <3>1, <3>3, <2>5
  <2> HIDE DEF one, two
  <2> QED BY <2>1, <2>2, <2>3, <2>4, <2>6
<1>3. UNCHANGED <<fs, last>>
  BY DEF ext4_close
<1>4. /\ Coherent(s', last) /\ s'.mem = s.mem /\ s'.buffer_block = s.buffer_block
      /\ s'.held = [s.held EXCEPT !["file"] = @ - 1]
  <2>1. PICK a, c, L : a = s /\ c = s' /\ L = last
    OBVIOUS
  <2>2. Coherent(a, L) /\ c = vmm_free(a, "file") /\ "file" \in Objects
    BY <2>1 DEF Inv, ext4_close, Objects
  <2> QED BY <2>1, <2>2, Frees
<1>5. MemoryExact'
  BY <1>1, <1>2, <1>3, <1>4 DEF Inv, MemoryExact, Objects
<1> QED BY <1>1, <1>2, <1>3, <1>4, <1>5 DEF Inv
-----------------------------------------------------------------------------
(* The theorems.                                                           *)

LEMMA InvInitially ==
  Init => Inv
<1> SUFFICES ASSUME Init PROVE Inv
  OBVIOUS
<1>1. PICK disk \in Disks :
        /\ s = [disk |-> disk, buffer |-> <<>>, buffer_block |-> NoBlock, dirty |-> FALSE,
                held |-> [o \in Objects |-> 0], mem |-> 0]
        /\ last = [b \in Blocks |-> {disk[b]}]
  BY DEF Init
<1>2. /\ disk \in [Blocks -> InodeTables \cup Seq(DirEntries)]
      /\ \A b \in Blocks : disk[b] \in Holds(b)
  BY DiskAssumption
<1>3. disk \in [Blocks -> Values] /\ <<>> \in Values
  BY <1>2 DEF Values
<1>4. last \in [Blocks -> SUBSET Values] /\ Readable(last)
  BY <1>1, <1>2, <1>3 DEF Readable
<1>5. s \in State
  BY <1>1, <1>3 DEF State
<1>6. Coherent(s, last)
  BY <1>1, <1>5, NoBlockIsNone DEF Coherent, ViewOf
<1>7. MemoryExact
  BY <1>1 DEF Init, MemoryExact
<1> QED BY <1>1, <1>4, <1>6, <1>7 DEF Init, Inv

LEMMA InvStep ==
  Inv /\ [Next]_vars => Inv'
<1> SUFFICES ASSUME Inv, [Next]_vars PROVE Inv'
  OBVIOUS
<1>1. CASE UNCHANGED vars
  BY <1>1 DEF vars, Inv, MemoryExact
<1>2. CASE storage_detect_all_devices
  BY <1>2 DEF storage_detect_all_devices, Inv, MemoryExact
<1>3. ASSUME NEW x \in Faults, NEW i \in DOMAIN devices, devices[i] # NoDevice,
             ext4_detect(devices[i], x)
      PROVE  Inv'
  BY <1>3, DetectKeeps
<1>4. ASSUME NEW x \in Faults, NEW i \in DOMAIN devices, devices[i] # NoDevice,
             ext4_mount(devices[i], x)
      PROVE  Inv'
  BY <1>4, MountKeeps
<1>5. ASSUME NEW x \in Faults, NEW b \in Blocks \cup {block_count}, ReadBlock(b, x) PROVE Inv'
  BY <1>5, ReadBlockKeeps
<1>6. ASSUME NEW x \in Faults, NEW b \in Blocks, NEW v \in Contents[b], WriteBlock(b, v, x)
      PROVE  Inv'
  BY <1>6, WriteBlockKeeps
<1>7. ASSUME NEW x \in Faults, ext4_flush_blocks(x) PROVE Inv'
  BY <1>7, FlushBlocksKeeps
<1>8. ASSUME NEW x \in Faults, ext4_unmount(x) PROVE Inv'
  BY <1>8, UnmountKeeps
<1>9. ASSUME NEW x \in Faults, NEW path \in Paths, ext4_open(path, x) PROVE Inv'
  BY <1>9, OpenKeeps
<1>10. ASSUME NEW k \in DOMAIN files, ext4_close(k) PROVE Inv'
  BY <1>10, CloseKeeps
<1> QED BY <1>1, <1>2, <1>3, <1>4, <1>5, <1>6, <1>7, <1>8, <1>9, <1>10 DEF Next

LEMMA InvAlways == Spec => []Inv
BY InvInitially, InvStep, PTL DEF Spec

(* ext4_read_block, ext4_write_block: whatever the reads, writes, flushes, *)
(* lookups and remounts and whatever fails in them, a block reads as the   *)
(* value last written to it with success or as one whose writing failed    *)
(* since, and so does the device.                                          *)
THEOREM WritesAreSeen == Spec => []ReadsSeeWrites
<1>1. Inv => ReadsSeeWrites
  BY DEF Inv, Coherent, ReadsSeeWrites, View, ViewOf
<1> QED BY <1>1, InvAlways, PTL

(* A block buffer that is not dirty is on the device.                      *)
THEOREM CleanBufferIsOnDevice == Spec => []CleanIsOnDevice
<1>1. Inv => CleanIsOnDevice
  BY DEF Inv, Coherent, CleanIsOnDevice
<1> QED BY <1>1, InvAlways, PTL

(* ext4.c: whatever fails at whichever step of a call, between calls the   *)
(* memory held is that of the mounted file system and of the open files.   *)
THEOREM MemoryIsExact == Spec => []MemoryExact
<1>1. Inv => MemoryExact
  BY DEF Inv
<1> QED BY <1>1, InvAlways, PTL

\* The chains of the property are those the lookup follows.
LEMMA ChainsAreFollowed ==
  ASSUME NEW n, NEW name, NEW next
  PROVE  /\ (InodeFound(n) /\ InodeAt(n).dir /\ InodeAt(n).map # "bad" /\ Lists(n, name, next))
              <=> Way(s, n, name, next)
         /\ (InodeFound(n) /\ InodeAt(n).dir /\ InodeAt(n).map # "bad" /\ ListsFirst(n, name, next))
              <=> FirstWay(s, n, name, next)
<1>1. \A b : View(b) = ViewOf(s, b)
  BY DEF View, ViewOf
<1>2. InodeAt(n) = InodeOf(s, n)
  BY <1>1 DEF InodeAt, InodeOf
<1>3. \A k : HitsIn(n, k, name) = HitsOf(s, InodeOf(s, n), k, name)
  BY <1>1, <1>2 DEF HitsIn, HitsOf
<1>4. Lists(n, name, next) <=>
        \E k \in Searched(InodeOf(s, n)) :
          \E j \in HitsOf(s, InodeOf(s, n), k, name) :
            ViewOf(s, InodeOf(s, n).blocks[k])[j].inode = next
  BY <1>1, <1>2, <1>3 DEF Lists
<1>5. ListsFirst(n, name, next) <=>
        \E k \in Searched(InodeOf(s, n)) :
          /\ \A i \in Searched(InodeOf(s, n)) : i < k => HitsOf(s, InodeOf(s, n), i, name) = {}
          /\ FirstOf(s, InodeOf(s, n), k, name, next)
  BY <1>1, <1>2, <1>3 DEF ListsFirst, FirstOf
<1> QED BY <1>2, <1>4, <1>5 DEF Way, FirstWay, Searchable

LEMMA OpenIsExact ==
  ASSUME Inv, NEW x \in Faults, NEW path \in Paths, ext4_open(path, x)
  PROVE  /\ ret'.ok => Last(files') \in Ends(ret'.path)
         /\ ret'.faultless =>
              IF ret'.ok THEN Last(files') \in FirstEnds(ret'.path)
                         ELSE FirstEnds(ret'.path) = {}
<1>1. PICK a, r : /\ SameView(s, a) /\ a.mem = x.mem
                  /\ OpenOutcome(a, path, x, r, last)
                  /\ files' = IF r.ok THEN Append(files, r.cur) ELSE files
                  /\ ret' = [op |-> "open", ok |-> r.ok, path |-> path,
                             faultless |-> Faultless(x, path)]
  BY OpenDoes
<1>2. ret'.ok = r.ok /\ ret'.path = path /\ ret'.faultless = Faultless(x, path)
  BY <1>1
<1>3. PICK n \in Nat : n = Len(path) /\ DOMAIN path = 1..n
  <2>1. path \in Seq(STRING)
    BY DiskAssumption
  <2> QED BY <2>1
<1>4. \A m, name, next : /\ Way(a, m, name, next) <=> Way(s, m, name, next)
                         /\ FirstWay(a, m, name, next) <=> FirstWay(s, m, name, next)
  BY <1>1, WaysAreSeen
<1>5. Faultless(x, path) <=> Faultfree(x) /\ a.mem >= 2 * n + 2
  BY <1>1, <1>3 DEF Faultless, Faultfree
<1>6. ASSUME r.ok
      PROVE  /\ Last(files') = r.cur
             /\ r.cur \in Ends(path)
             /\ Faultfree(x) => r.cur \in FirstEnds(path)
  <2>1. Last(files') = r.cur
    <3>1. files \in Seq(Nat) /\ r.cur \in Nat
      BY <1>1 DEF Inv, OpenOutcome, PathState
    <3>2. files' = Append(files, r.cur)
      BY <1>1, <1>6
    <3> QED BY <3>1, <3>2 DEF Last
  <2>2. PICK c \in [1..n + 1 -> Nat] :
          /\ c[1] = Root /\ c[n + 1] = r.cur /\ InodeFound(r.cur)
          /\ \A i \in 1..n : Way(a, c[i], path[i], c[i + 1])
          /\ Faultfree(x) => \A i \in 1..n : FirstWay(a, c[i], path[i], c[i + 1])
    BY <1>1, <1>3, <1>6 DEF OpenOutcome
  <2>3. \A i \in 1..n : Way(s, c[i], path[i], c[i + 1])
    BY <1>4, <2>2
  <2>4. Faultfree(x) => \A i \in 1..n : FirstWay(s, c[i], path[i], c[i + 1])
    BY <1>4, <2>2
  <2>5. c \in Chains(path)
    <3>1. ASSUME NEW i \in 1..n + 1 PROVE c[i] \in 1..inodes_per_group * groups_count
      <4>1. InodeFound(c[i])
        <5>1. CASE i \in 1..n
          BY <5>1, <2>3 DEF Way, Searchable
        <5>2. CASE i = n + 1
          BY <5>2, <2>2
        <5> QED BY <5>1, <5>2
      <4>2. PICK m \in Nat : m = c[i]
        BY <2>2
      <4> QED BY <4>1, <4>2, InodePlace DEF InodeFound
    <3>2. c \in [1..n + 1 -> 1..inodes_per_group * groups_count]
      BY <3>1
    <3> QED BY <3>2, <1>3 DEF Chains
  <2>6. Through(path, c, Lists)
    BY <2>2, <2>3, <1>3, ChainsAreFollowed DEF Through
  <2>7. Faultfree(x) => Through(path, c, ListsFirst)
    BY <2>2, <2>4, <1>3, ChainsAreFollowed DEF Through
  <2>8. r.cur = c[Len(path) + 1]
    BY <2>2, <1>3
  <2> QED BY <2>1, <2>5, <2>6, <2>7, <2>8 DEF Ends, FirstEnds
<1>7. ASSUME ~r.ok, Faultless(x, path), NEW e \in FirstEnds(path) PROVE FALSE
  <2>1. PICK c \in Chains(path) : Through(path, c, ListsFirst)
    BY <1>7 DEF FirstEnds
  <2>2. /\ c[1] = Root /\ InodeFound(c[n + 1])
        /\ \A i \in 1..n : FirstWay(s, c[i], path[i], c[i + 1])
    BY <2>1, <1>3, ChainsAreFollowed DEF Through
  <2>3. \A i \in 1..n : FirstWay(a, c[i], path[i], c[i + 1])
    BY <2>2, <1>4
  <2> QED BY <2>2, <2>3, <1>1, <1>3, <1>5, <1>7 DEF OpenOutcome
<1>8. r.ok \in BOOLEAN
  BY <1>1 DEF OpenOutcome, PathState
<1> QED BY <1>2, <1>5, <1>6, <1>7, <1>8

\* Every other call says so.
LEMMA LookupStepExact ==
  ASSUME Inv, [Next]_vars
  PROVE  [fs # NoDevice /\ ret'.op = "open" =>
            /\ ret'.ok => Last(files') \in Ends(ret'.path)
            /\ ret'.faultless =>
                 IF ret'.ok THEN Last(files') \in FirstEnds(ret'.path)
                            ELSE FirstEnds(ret'.path) = {}]_vars
<1>1. CASE UNCHANGED vars
  BY <1>1
<1>2. CASE storage_detect_all_devices
  BY <1>2 DEF storage_detect_all_devices
<1>3. ASSUME NEW x \in Faults, NEW path \in Paths, ext4_open(path, x)
      PROVE  /\ ret'.ok => Last(files') \in Ends(ret'.path)
             /\ ret'.faultless =>
                  IF ret'.ok THEN Last(files') \in FirstEnds(ret'.path)
                             ELSE FirstEnds(ret'.path) = {}
  BY <1>3, OpenIsExact
<1>4. ASSUME NEW x \in Faults, NEW d, ext4_detect(d, x) PROVE ret'.op # "open"
  BY <1>4 DEF ext4_detect
<1>5. ASSUME NEW x \in Faults, NEW d, ext4_mount(d, x) PROVE ret'.op # "open"
  BY <1>5 DEF ext4_mount
<1>6. ASSUME NEW x \in Faults, NEW b, ReadBlock(b, x) PROVE ret'.op # "open"
  BY <1>6 DEF ReadBlock
<1>7. ASSUME NEW x \in Faults, NEW b, NEW v, WriteBlock(b, v, x) PROVE ret'.op # "open"
  BY <1>7 DEF WriteBlock
<1>8. ASSUME NEW x \in Faults, ext4_flush_blocks(x) \/ ext4_unmount(x) PROVE ret'.op # "open"
  BY <1>8 DEF ext4_flush_blocks, ext4_unmount
<1>9. ASSUME NEW k, ext4_close(k) PROVE ret'.op # "open"
  BY <1>9 DEF ext4_close
<1> QED BY <1>1, <1>2, <1>3, <1>4, <1>5, <1>6, <1>7, <1>8, <1>9 DEF Next

(* find_inode_by_path, ext4_open: a file that is opened is one its path    *)
(* leads to by what the blocks read as when the call starts; without a     *)
(* fault it is the one the first entries lead to, and is refused only if   *)
(* they lead nowhere.  The path may have any number of components, a       *)
(* directory any number of blocks and entries.                             *)
THEOREM LookupIsExact == Spec => LookupExact
<1>1. Inv /\ [Next]_vars =>
        [fs # NoDevice /\ ret'.op = "open" =>
           /\ ret'.ok => Last(files') \in Ends(ret'.path)
           /\ ret'.faultless =>
                IF ret'.ok THEN Last(files') \in FirstEnds(ret'.path)
                           ELSE FirstEnds(ret'.path) = {}]_vars
  BY LookupStepExact
<1> QED BY <1>1, InvAlways, PTL DEF Spec, LookupExact
=============================================================================
