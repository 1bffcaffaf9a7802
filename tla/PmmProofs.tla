----------------------------- MODULE PmmProofs -----------------------------
(***************************************************************************)
(* Proofs about Pmm.tla for every page size, bitmap size, boot memory map  *)
(* and set of callers; and, in the last part, about the search loop in     *)
(* PmmScan.tla, for every bitmap and every request.                        *)
(***************************************************************************)
EXTENDS Pmm, PmmScan, WellFoundedInduction, TLAPS

-----------------------------------------------------------------------------
(* Arithmetic of the boot-time marking loop *)

\* A quotient is the number of whole pages below an offset.
LEMMA QuotientBounds ==
  ASSUME NEW a \in Nat, NEW d \in Nat \ {0}
  PROVE  /\ a \div d \in Nat
         /\ (a \div d) * d <= a
         /\ a < (a \div d) * d + d
OBVIOUS

\* Whole pages before a range and inside it, added up, stay below the limit.
LEMMA QuotientSum ==
  ASSUME NEW a \in Nat, NEW b \in Nat, NEW d \in Nat \ {0}, NEW n \in Nat,
         a + b < n * d
  PROVE  (a \div d) + (b \div d) < n
<1>1. /\ a \div d \in Nat /\ (a \div d) * d <= a
      /\ b \div d \in Nat /\ (b \div d) * d <= b
  BY QuotientBounds
<1>2. ((a \div d) + (b \div d)) * d <= a + b
  BY <1>1
<1>3. ASSUME NEW q \in Nat, q * d < n * d
      PROVE  q < n
  <2> SUFFICES ASSUME q >= n PROVE FALSE
    BY <1>3
  <2>1. q * d >= n * d
    OBVIOUS
  <2> QED BY <2>1, <1>3
<1>4. ((a \div d) + (b \div d)) * d < n * d
  BY <1>1, <1>2
<1> QED BY <1>1, <1>3, <1>4

\* Page counts compare as their sizes in bytes do.
LEMMA FewerPages ==
  ASSUME NEW q \in Nat, NEW n \in Nat, NEW d \in Nat \ {0}, q * d < n * d
  PROVE  q < n
<1> SUFFICES ASSUME q >= n PROVE FALSE
  OBVIOUS
<1>1. q * d >= n * d
  OBVIOUS
<1> QED BY <1>1

\* An offset inside a page belongs to that page.
LEMMA PageOfOffset ==
  ASSUME NEW q \in Nat, NEW d \in Nat \ {0}, NEW r \in 0 .. (d - 1)
  PROVE  (q * d + r) \div d = q
<1>1. PICK a \in Nat : a = q * d + r
  OBVIOUS
<1>2. PICK k \in Nat : k = a \div d /\ k * d <= a /\ a < k * d + d
  BY QuotientBounds
<1>3. k * d < (q + 1) * d /\ q * d < (k + 1) * d
  BY <1>1, <1>2
<1>4. k < q + 1 /\ q < k + 1
  <2>1. k + 1 \in Nat /\ q + 1 \in Nat
    OBVIOUS
  <2> QED BY <1>3, <2>1, FewerPages
<1> QED BY <1>1, <1>2, <1>4

\* An aligned address is a whole number of pages.
LEMMA WholePages ==
  ASSUME NEW a \in Nat, NEW d \in Nat \ {0}, a % d = 0
  PROVE  \E q \in Nat : a = q * d
<1>1. a = (a \div d) * d + (a % d) /\ a \div d \in Nat
  OBVIOUS
<1> QED BY <1>1

-----------------------------------------------------------------------------
(* First fit *)

\* A set of page numbers that is not empty has a least element.
LEMMA LeastElement ==
  ASSUME NEW S \in SUBSET Nat, S # {}
  PROVE  \E x \in S : \A y \in S : x <= y
<1> DEFINE R == {ss \in Nat \X Nat : ss[1] < ss[2]}
<1>1. IsWellFoundedOn(R, Nat)
  BY NatLessThanWellFounded DEF OpToRel
<1>2. PICK x \in S : \A y \in S : ~(<<y, x>> \in R)
  <2> HIDE DEF R
  <2> QED BY <1>1, WFMin
<1>3. \A y \in S : x <= y
  <2> SUFFICES ASSUME NEW y \in S PROVE x <= y
    OBVIOUS
  <2>1. x \in Nat /\ y \in Nat /\ ~(<<y, x>> \in R)
    BY <1>2
  <2> QED BY <2>1
<1> QED BY <1>3

\* A bounded set of sizes that is not empty has a greatest element.
LEMMA GreatestElement ==
  ASSUME NEW n \in Nat, NEW S \in SUBSET (0 .. n), S # {}
  PROVE  \E x \in S : \A y \in S : y <= x
<1> DEFINE T == {n - y : y \in S}
<1>1. \A y \in S : y \in 0 .. n /\ n - y \in Nat
  OBVIOUS
<1>2. T \subseteq Nat /\ T # {}
  BY <1>1
<1>3. PICK t \in T : \A u \in T : t <= u
  <2> HIDE DEF T
  <2> QED BY <1>2, LeastElement
<1>4. PICK x \in S : t = n - x
  BY <1>3
<1>5. \A y \in S : n - x <= n - y
  BY <1>3, <1>4
<1> QED BY <1>1, <1>4, <1>5

\* When a long enough run of clear bits exists, the scan returns one.
LEMMA FirstFitIsFree ==
  ASSUME max_pages \in Nat, NEW size \in Nat \ {0}, FreeRuns(size) # {}
  PROVE  /\ FirstFit(size) \in Pages
         /\ Extent(FirstFit(size), size) \subseteq Pages \ used
<1>1. FreeRuns(size) \in SUBSET Nat
  BY DEF FreeRuns, Pages
<1>2. \E first \in FreeRuns(size) : \A other \in FreeRuns(size) : first <= other
  BY <1>1, LeastElement
<1>3. FirstFit(size) \in FreeRuns(size)
  BY <1>2 DEF FirstFit
<1> QED BY <1>3 DEF FreeRuns

-----------------------------------------------------------------------------
(* The managed region *)

\* The fields of a boot memory map entry.
LEMMA EntryType ==
  ASSUME NEW m \in MemMaps
  PROVE  \A idx \in DOMAIN m :
           m[idx] \in Entry /\ idx \in Nat /\ m[idx].base \in 0 .. MaxAddr /\ m[idx].length \in 0 .. MaxAddr
<1>1. m \in Seq(Entry)
  BY MemMapAssumption
<1>2. \A idx \in DOMAIN m : m[idx] \in Entry /\ idx \in Nat
  BY <1>1
<1> QED BY <1>2 DEF Entry

\* The loop over the memory map finds an entry when there is a candidate.
LEMMA LargestIsCandidate ==
  ASSUME NEW m \in MemMaps, Candidates(m) # {}
  PROVE  Largest(m) \in Candidates(m)
<1> DEFINE lengths == {m[idx].length : idx \in Candidates(m)}
<1>1. \A idx \in Candidates(m) : idx \in Nat /\ m[idx].length \in 0 .. MaxAddr
  BY EntryType DEF Candidates
<1>2. lengths \in SUBSET (0 .. MaxAddr) /\ lengths # {}
  BY <1>1
<1>3. PICK top \in lengths : \A l \in lengths : l <= top
  BY <1>2, SizesAssumption, GreatestElement
<1> DEFINE longest == {idx \in Candidates(m) : m[idx].length = top}
<1>4. longest \in SUBSET Nat /\ longest # {}
  BY <1>1, <1>3
<1>5. PICK idx \in longest : \A j \in longest : idx <= j
  BY <1>4, LeastElement
<1>6. \A j \in Candidates(m) :
        m[j].length < m[idx].length \/ (m[j].length = m[idx].length /\ idx <= j)
  <2> SUFFICES ASSUME NEW j \in Candidates(m)
               PROVE  m[j].length < m[idx].length \/ (m[j].length = m[idx].length /\ idx <= j)
    OBVIOUS
  <2>1. m[j].length \in lengths /\ m[j].length <= top /\ top \in Nat /\ m[j].length \in Nat
    BY <1>2, <1>3
  <2> QED BY <1>5, <2>1
<1> QED BY <1>5, <1>6 DEF Largest

\* The region pmm_init chooses is no longer than the bitmap.
LEMMA RegionType ==
  ASSUME NEW m \in MemMaps
  PROVE  /\ RegionStart(m) \in Nat
         /\ RegionLength(m) \in Nat
         /\ RegionPages(m) \in 0 .. BitmapPages
<1>1. ASSUME Candidates(m) # {}
      PROVE  m[Largest(m)].base \in Nat /\ m[Largest(m)].length \in Nat
  <2>1. Largest(m) \in DOMAIN m
    BY <1>1, LargestIsCandidate DEF Candidates
  <2>2. m[Largest(m)].base \in 0 .. MaxAddr /\ m[Largest(m)].length \in 0 .. MaxAddr
    BY <2>1, EntryType
  <2> QED BY <2>2, SizesAssumption
<1>2. RegionStart(m) \in Nat /\ RegionLength(m) \in Nat
  BY <1>1, SizesAssumption DEF RegionStart, RegionLength
<1> DEFINE len == RegionLength(m)
<1>3. CASE BitmapPages * PageSize > len
  <2>1. len = len + 0 /\ 0 \div PageSize = 0
    BY <1>2, SizesAssumption
  <2>2. len \div PageSize < BitmapPages
    BY <1>2, <1>3, <2>1, SizesAssumption, QuotientSum
  <2>3. len \div PageSize \in Nat
    BY <1>2, SizesAssumption, QuotientBounds
  <2> QED BY <1>2, <1>3, <2>2, <2>3, SizesAssumption DEF RegionPages
<1>4. CASE ~(BitmapPages * PageSize > len)
  BY <1>2, <1>4, SizesAssumption DEF RegionPages
<1> QED BY <1>2, <1>3, <1>4

\* The marking loop never writes a bit beyond the managed pages.
LEMMA MarkedInRange ==
  ASSUME NEW e \in Entry, NEW start \in Nat, NEW pages \in Nat
  PROVE  MarkedBy(e, start, start + pages * PageSize) \subseteq 0 .. (pages - 1)
<1> DEFINE end == start + pages * PageSize
           lo == IF e.base < start THEN start ELSE e.base
           hi == IF e.base + e.length > end THEN end ELSE e.base + e.length
           first == (lo - start) \div PageSize
<1>1. /\ e.base \in Nat /\ e.length \in Nat /\ pages * PageSize \in Nat
      /\ end \in Nat /\ lo \in Nat /\ hi \in Nat
      /\ lo >= start /\ hi <= end
  BY SizesAssumption DEF Entry
<1>2. CASE lo < hi
  <2>1. lo - start \in Nat /\ hi - lo - 1 \in Nat
        /\ (lo - start) + (hi - lo - 1) < pages * PageSize
    BY <1>1, <1>2
  <2>2. first + ((hi - lo - 1) \div PageSize) < pages
    BY <2>1, SizesAssumption, QuotientSum
  <2>3. first \in Nat /\ (hi - lo - 1) \div PageSize \in Nat
    BY <2>1, SizesAssumption, QuotientBounds
  <2>4. first .. (first + ((hi - lo - 1) \div PageSize)) \subseteq 0 .. (pages - 1)
    BY <2>2, <2>3
  <2> QED BY <2>4 DEF MarkedBy
<1>3. CASE ~(lo < hi)
  BY <1>1, <1>3 DEF MarkedBy
<1> QED BY <1>2, <1>3

\* Every bit pmm_init sets stands for a managed page.
LEMMA BootUsedInRange ==
  ASSUME NEW m \in MemMaps
  PROVE  BootUsed(m) \subseteq 0 .. (RegionPages(m) - 1)
<1>1. \A idx \in DOMAIN m : m[idx] \in Entry
  BY EntryType
<1>2. RegionStart(m) \in Nat /\ RegionPages(m) \in Nat
  BY RegionType, SizesAssumption
<1>3. \A idx \in DOMAIN m :
        MarkedBy(m[idx], RegionStart(m), RegionStart(m) + RegionPages(m) * PageSize)
          \subseteq 0 .. (RegionPages(m) - 1)
  BY <1>1, <1>2, MarkedInRange
<1> QED BY <1>3 DEF BootUsed, Marked, Low

\* The marking loop over an aligned reserved entry marks every page that has a
\* byte of the entry.
LEMMA MarkedCovers ==
  ASSUME NEW e \in Entry, Aligned(e), NEW start \in Nat, start % PageSize = 0,
         NEW pages \in Nat, NEW p \in 0 .. (pages - 1),
         NEW b \in (start + p * PageSize) .. (start + p * PageSize + PageSize - 1),
         b \in e.base .. (e.base + e.length - 1)
  PROVE  p \in MarkedBy(e, start, start + pages * PageSize)
<1> DEFINE d == PageSize
           end == start + pages * PageSize
           lo == IF e.base < start THEN start ELSE e.base
           hi == IF e.base + e.length > end THEN end ELSE e.base + e.length
<1>1. d \in Nat \ {0} /\ e.base \in Nat /\ e.length \in Nat
  BY SizesAssumption DEF Entry
<1>2. PICK s \in Nat, x \in Nat, y \in Nat : start = s * d /\ e.base = x * d /\ e.length = y * d
  <2>1. start % d = 0 /\ e.base % d = 0 /\ e.length % d = 0
    BY DEF Aligned
  <2> HIDE DEF d
  <2>2. \E s \in Nat : start = s * d
    BY <1>1, <2>1, WholePages
  <2>3. \E x \in Nat : e.base = x * d
    BY <1>1, <2>1, WholePages
  <2>4. \E y \in Nat : e.length = y * d
    BY <1>1, <2>1, WholePages
  <2> QED BY <2>2, <2>3, <2>4
<1> HIDE DEF d
<1>3. PICK u \in Nat, w \in Nat : u = (IF x < s THEN s ELSE x)
                               /\ w = (IF x + y > s + pages THEN s + pages ELSE x + y)
  OBVIOUS
<1>4. /\ e.base + e.length = (x + y) * d /\ end = (s + pages) * d
      /\ start + p * d = (s + p) * d /\ start + p * d + d = (s + p + 1) * d
  BY <1>1, <1>2 DEF d
<1>5. b \in Nat /\ (s + p) * d <= b /\ b < (s + p + 1) * d /\ x * d <= b /\ b < (x + y) * d
  <2>1. /\ b \in Int /\ start + p * d <= b /\ b < start + p * d + d
        /\ e.base <= b /\ b < e.base + e.length
    BY <1>1 DEF d
  <2> QED BY <1>1, <1>2, <1>4, <2>1
<1>6. s + p < x + y /\ x < s + p + 1
  <2>1. (s + p) * d < (x + y) * d /\ x * d < (s + p + 1) * d
    <3>1. PICK k1, k2, k3, k4 : /\ k1 = (s + p) * d /\ k2 = (x + y) * d
                                /\ k3 = x * d /\ k4 = (s + p + 1) * d
      OBVIOUS
    <3>2. k1 \in Nat /\ k2 \in Nat /\ k3 \in Nat /\ k4 \in Nat
      BY <1>1, <3>1
    <3> QED BY <1>5, <3>1, <3>2
  <2>2. s + p \in Nat /\ x + y \in Nat /\ s + p + 1 \in Nat
    OBVIOUS
  <2> QED BY <1>1, <2>1, <2>2, FewerPages
<1>7. u <= s + p /\ s + p < w /\ s <= u
  BY <1>3, <1>6
<1>8. lo = u * d /\ hi = w * d
  <2>1. e.base < start <=> x < s
    <3>1. x < s => x * d < s * d
      BY <1>1
    <3>2. x * d < s * d => x < s
      BY <1>1, FewerPages
    <3> QED BY <1>2, <3>1, <3>2
  <2>2. e.base + e.length > end <=> x + y > s + pages
    <3>1. PICK k \in Nat, l \in Nat : k = s + pages /\ l = x + y
      OBVIOUS
    <3>2. k < l => k * d < l * d
      BY <1>1
    <3>3. k * d < l * d => k < l
      BY <1>1, FewerPages
    <3>4. e.base + e.length = l * d /\ end = k * d /\ l * d \in Nat /\ k * d \in Nat
      BY <1>1, <1>4, <3>1
    <3> HIDE DEF end
    <3> QED BY <3>1, <3>2, <3>3, <3>4
  <2>3. lo = IF x < s THEN s * d ELSE x * d
    BY <1>2, <2>1
  <2>4. hi = IF x + y > s + pages THEN (s + pages) * d ELSE (x + y) * d
    <3> HIDE DEF end
    <3> QED BY <1>4, <2>2
  <2> QED BY <1>3, <2>3, <2>4
<1>9. /\ (lo - start) \div d = u - s
      /\ (hi - lo - 1) \div d = w - u - 1
      /\ lo < hi
  <2>1. PICK q \in Nat, t \in Nat : q = u - s /\ t = w - u - 1
    BY <1>7
  <2>2. /\ lo - start = q * d + 0 /\ hi - lo - 1 = t * d + (d - 1)
        /\ lo < hi
    <3>1. u = s + q /\ w = u + t + 1
      BY <2>1
    <3>2. u * d = s * d + q * d /\ w * d = u * d + t * d + d
      BY <1>1, <3>1
    <3>3. s * d \in Nat /\ q * d \in Nat /\ t * d \in Nat /\ u * d \in Nat
      BY <1>1
    <3> HIDE DEF lo, hi
    <3> QED BY <1>1, <1>2, <1>8, <3>2, <3>3
  <2>3. (q * d + 0) \div d = q /\ (t * d + (d - 1)) \div d = t
    <3>1. 0 \in 0 .. (d - 1) /\ d - 1 \in 0 .. (d - 1)
      BY <1>1
    <3> QED BY <1>1, <3>1, PageOfOffset
  <2> HIDE DEF lo, hi
  <2> QED BY <2>1, <2>2, <2>3
<1>10. p \in (u - s) .. ((u - s) + (w - u - 1))
  BY <1>7
<1>11. ~(e.base >= end \/ e.base + e.length <= start)
  <2>1. start <= b /\ b < end
    <3>1. start + p * d <= b /\ p * d \in Nat
      BY <1>1 DEF d
    <3>2. b < hi /\ hi <= end
      <4>1. (s + p + 1) * d <= w * d
        <5>1. PICK k \in Nat : w = (s + p + 1) + k
          BY <1>7, w - (s + p + 1) \in Nat
        <5>2. w * d = (s + p + 1) * d + k * d /\ k * d \in Nat /\ (s + p + 1) * d \in Nat
          BY <1>1, <5>1
        <5> QED BY <5>2
      <4>2. w * d \in Nat /\ (s + p + 1) * d \in Nat
        BY <1>1
      <4>3. hi <= end
        <5>1. end \in Int /\ e.base + e.length \in Int
          BY <1>1 DEF d
        <5> HIDE DEF end
        <5> QED BY <5>1
      <4> HIDE DEF hi, end
      <4> QED BY <1>5, <1>8, <4>1, <4>2, <4>3
    <3>3. end \in Int /\ hi \in Int
      BY <1>1 DEF d
    <3> HIDE DEF end, hi
    <3> QED BY <1>5, <3>1, <3>2, <3>3
  <2>2. end \in Int
    BY <1>1 DEF d
  <2> HIDE DEF end
  <2> QED BY <1>1, <2>1, <2>2
<1> QED
  <2>1. MarkedBy(e, start, end)
          = ((lo - start) \div d) .. (((lo - start) \div d) + ((hi - lo - 1) \div d))
    <3>1. ~(lo >= hi)
      <4>1. lo \in Int /\ hi \in Int
        BY <1>1 DEF d
      <4> HIDE DEF lo, hi
      <4> QED BY <1>9, <4>1
    <3> QED BY <1>11, <3>1 DEF MarkedBy, d
  <2> HIDE DEF lo, hi
  <2> QED BY <1>9, <1>10, <2>1

-----------------------------------------------------------------------------
(* Safety *)

\* The inductive invariant: the types, the exactness of the bitmap and the
\* separation of the callers need one another.
IndInv == TypeOK /\ BitmapExact /\ NoSharing /\ RegionFixed

\* pmm_init leaves nothing allocated and everything it marked accounted for.
LEMMA InitInd == Init => IndInv
<1> SUFFICES ASSUME Init PROVE IndInv
  OBVIOUS
<1>1. TypeOK
  <2>1. max_pages \in 0 .. BitmapPages /\ kernel_start \in Nat
    BY SizesAssumption DEF Init
  <2>2. held \in [Clients -> SUBSET Pages]
    BY DEF Init
  <2> QED BY <2>1, <2>2 DEF Init, TypeOK
<1>2. AllHeld = {} /\ BootReserved = {}
  BY DEF Init, AllHeld, BootReserved
<1>3. BitmapExact /\ NoSharing /\ RegionFixed
  BY <1>2 DEF Init, BitmapExact, NoSharing, RegionFixed
<1> QED BY <1>1, <1>3 DEF IndInv

\* pmm_init sets the bits of the reserved pages while nobody holds a page.
LEMMA InitStep ==
  ASSUME IndInv, pmm_init
  PROVE  IndInv'
<1> USE DEF IndInv
<1>1. /\ memmap \in MemMaps /\ ready' = TRUE /\ memmap' = memmap /\ held' = held
      /\ kernel_start' = RegionStart(memmap) /\ max_pages' = RegionPages(memmap)
      /\ used' = BootUsed(memmap)
  BY DEF TypeOK, pmm_init
<1>2. \A c \in Clients : held[c] = {}
  BY DEF pmm_init, RegionFixed, TypeOK, Pages
<1>3. used' \subseteq 0 .. (max_pages' - 1)
  BY <1>1, BootUsedInRange
<1>4. TypeOK'
  BY <1>1, <1>2, <1>3, RegionType DEF TypeOK, Pages
<1>5. AllHeld' = {} /\ BootReserved' = used'
  BY <1>1, <1>2 DEF AllHeld, BootReserved
<1>6. BitmapExact' /\ NoSharing' /\ RegionFixed'
  BY <1>1, <1>2, <1>5 DEF BitmapExact, NoSharing, RegionFixed
<1> QED BY <1>4, <1>6

\* An allocation moves clear bits to one caller.
LEMMA AllocStep ==
  ASSUME IndInv, NEW c \in Clients, NEW size \in 0 .. MaxCount,
         pmm_alloc_pages(c, size)
  PROVE  IndInv'
<1> USE DEF IndInv
<1> DEFINE E == Extent(FirstFit(size), size)
<1>1. /\ size \in Nat \ {0} /\ FreeRuns(size) # {} /\ max_pages \in Nat
      /\ held \in [Clients -> SUBSET Pages] /\ used \subseteq Pages
  BY SizesAssumption DEF pmm_alloc_pages, TypeOK
<1>2. E \subseteq Pages \ used
  BY <1>1, FirstFitIsFree
<1> HIDE DEF E
<1>3. /\ used' = used \cup E
      /\ held' = [held EXCEPT ![c] = held[c] \cup E]
      /\ UNCHANGED <<memmap, ready, kernel_start, max_pages>>
  BY DEF pmm_alloc_pages, E
<1>4. TypeOK'
  BY <1>1, <1>2, <1>3 DEF TypeOK, Pages
<1>5. AllHeld' = AllHeld \cup E
  BY <1>1, <1>3 DEF AllHeld
<1>6. BootReserved' = BootReserved
  BY <1>3 DEF BootReserved
<1>7. BitmapExact'
  BY <1>2, <1>3, <1>5, <1>6 DEF BitmapExact
<1>8. \A d \in Clients : held[d] \cap E = {}
  BY <1>2 DEF BitmapExact, AllHeld
<1>9. NoSharing'
  BY <1>1, <1>3, <1>8 DEF NoSharing
<1>10. RegionFixed'
  BY <1>3 DEF RegionFixed
<1> QED BY <1>4, <1>7, <1>9, <1>10

\* A release moves bits from the caller that holds them.
LEMMA FreeStep ==
  ASSUME IndInv, NEW c \in Clients, NEW addr, NEW size,
         pmm_free_pages(c, addr, size)
  PROVE  IndInv'
<1> USE DEF IndInv
<1> DEFINE R == Released(addr, size)
<1>1. held \in [Clients -> SUBSET Pages] /\ used \subseteq Pages
  BY DEF TypeOK
<1>2. /\ R \subseteq held[c]
      /\ used' = used \ R
      /\ held' = [held EXCEPT ![c] = held[c] \ R]
      /\ UNCHANGED <<memmap, ready, kernel_start, max_pages>>
  BY DEF pmm_free_pages
<1> HIDE DEF R
<1>3. TypeOK'
  BY <1>1, <1>2 DEF TypeOK, Pages
<1>4. \A d \in Clients : d # c => held[d] \cap R = {}
  BY <1>2 DEF NoSharing
<1>5. AllHeld' = AllHeld \ R
  BY <1>1, <1>2, <1>4 DEF AllHeld
<1>6. R \cap BootReserved = {}
  BY <1>2 DEF BitmapExact, AllHeld
<1>7. BootReserved' = BootReserved
  BY <1>2 DEF BootReserved
<1>8. BitmapExact'
  BY <1>2, <1>5, <1>6, <1>7 DEF BitmapExact
<1>9. NoSharing'
  BY <1>1, <1>2 DEF NoSharing
<1>10. RegionFixed'
  BY <1>2 DEF RegionFixed
<1> QED BY <1>3, <1>8, <1>9, <1>10

\* IndInv holds in every reachable state.
LEMMA Inductive == Spec => []IndInv
<1>1. IndInv /\ [Next]_vars => IndInv'
  <2> SUFFICES ASSUME IndInv, [Next]_vars PROVE IndInv'
    OBVIOUS
  <2>1. CASE UNCHANGED vars
    BY <2>1 DEF vars, IndInv, TypeOK, Pages, BitmapExact, NoSharing, RegionFixed,
                AllHeld, BootReserved
  <2>2. CASE Next
    BY <2>1, <2>2, InitStep, AllocStep, FreeStep DEF Next, pmm_alloc_fails
  <2> QED BY <2>1, <2>2
<1> QED BY InitInd, <1>1, PTL DEF Spec

\* Every variable keeps its type: in particular neither the boot-time marking
\* loop nor an allocation ever sets a bit beyond max_pages, whatever the map.
THEOREM PmmTypeOK == Spec => []TypeOK
<1>1. IndInv => TypeOK
  BY DEF IndInv
<1> QED BY Inductive, <1>1, PTL

\* The set bits are exactly the boot-reserved pages and the pages callers hold.
THEOREM PmmBitmapExact == Spec => []BitmapExact
<1>1. IndInv => BitmapExact
  BY DEF IndInv
<1> QED BY Inductive, <1>1, PTL

\* pmm_alloc_pages never hands one page to two callers.
THEOREM PmmNoSharing == Spec => []NoSharing
<1>1. IndInv => NoSharing
  BY DEF IndInv
<1> QED BY Inductive, <1>1, PTL

\* Every byte of a page of the region lies in the usable entry it was taken from.
LEMMA RegionIsUsable ==
  ASSUME NEW m \in MemMaps, NEW p \in 0 .. (RegionPages(m) - 1),
         NEW b \in (RegionStart(m) + p * PageSize) .. (RegionStart(m) + p * PageSize + PageSize - 1)
  PROVE  /\ Candidates(m) # {}
         /\ b \in m[Largest(m)].base .. (m[Largest(m)].base + m[Largest(m)].length - 1)
<1> DEFINE d == PageSize
           n == RegionPages(m)
           len == RegionLength(m)
           st == RegionStart(m)
<1>1. d \in Nat \ {0} /\ st \in Nat /\ len \in Nat /\ n \in Nat /\ BitmapPages \in Nat \ {0}
  BY RegionType, SizesAssumption
<1>2. n * d <= len
  <2>1. CASE BitmapPages * d > len
    <3>1. n = len \div d
      BY <2>1 DEF RegionPages
    <3> HIDE DEF n, len, d
    <3>2. (len \div d) * d <= len
      BY <1>1, QuotientBounds
    <3> QED BY <3>1, <3>2
  <2>2. CASE ~(BitmapPages * d > len)
    <3>1. n = BitmapPages
      BY <2>2 DEF RegionPages
    <3>2. BitmapPages * d \in Nat
      BY <1>1
    <3> HIDE DEF n, len, d
    <3> QED BY <1>1, <2>2, <3>1, <3>2
  <2> QED BY <2>1, <2>2
<1>3. /\ st + p * d <= b /\ b < st + p * d + d /\ b \in Int /\ p \in Nat /\ p + 1 <= n
  BY <1>1
<1> HIDE DEF d, n, st, len
<1>4. p * d + d <= n * d
  <2>1. PICK k \in Nat : n = p + 1 + k
    BY <1>1, <1>3, n - (p + 1) \in Nat
  <2>2. n * d = p * d + d + k * d /\ k * d \in Nat /\ p * d \in Nat
    BY <1>1, <1>3, <2>1
  <2> QED BY <1>1, <2>2
<1>5. st <= b /\ b < st + len /\ len > 0
  <2>1. p * d \in Nat /\ n * d \in Nat
    BY <1>1, <1>3
  <2> QED BY <1>1, <1>2, <1>3, <1>4, <2>1
<1>6. Candidates(m) # {}
  BY <1>5 DEF RegionLength, len
<1>7. st = m[Largest(m)].base /\ len = m[Largest(m)].length
  BY <1>6 DEF RegionStart, RegionLength, st, len
<1> QED BY <1>1, <1>3, <1>5, <1>6, <1>7

\* pmm_alloc_pages only hands out memory the boot protocol declared usable: a page
\* held by a caller has no byte outside the chosen entry, and if a reserved entry
\* reached into it pmm_init marked it.
THEOREM PmmHeldMemoryIsUsable == Spec => []HeldMemoryIsUsable
<1>1. IndInv => HeldMemoryIsUsable
  <2> SUFFICES ASSUME IndInv, NEW p \in AllHeld,
                      NEW b \in PageAddr(p) .. (PageAddr(p) + PageSize - 1)
               PROVE  /\ \E idx \in DOMAIN memmap :
                           /\ memmap[idx].usable
                           /\ b \in memmap[idx].base .. (memmap[idx].base + memmap[idx].length - 1)
                      /\ \A idx \in DOMAIN memmap : ~memmap[idx].usable =>
                           b \notin memmap[idx].base .. (memmap[idx].base + memmap[idx].length - 1)
    BY DEF HeldMemoryIsUsable
  <2> DEFINE m == memmap
             st == RegionStart(memmap)
             n == RegionPages(memmap)
             L == Largest(memmap)
  <2>1. p \in Pages /\ m \in MemMaps /\ max_pages \in Nat
    BY SizesAssumption DEF IndInv, TypeOK, AllHeld
  <2>2. ready
    BY <2>1 DEF IndInv, RegionFixed, Pages
  <2>3. kernel_start = st /\ max_pages = n /\ p \in 0 .. (n - 1)
    BY <2>1, <2>2 DEF IndInv, RegionFixed, Pages
  <2>4. p \notin BootUsed(m)
    BY <2>2 DEF IndInv, BitmapExact, BootReserved
  <2>5. b \in (st + p * PageSize) .. (st + p * PageSize + PageSize - 1)
    BY <2>3 DEF PageAddr
  <2>6. /\ Candidates(m) # {}
        /\ b \in m[L].base .. (m[L].base + m[L].length - 1)
    BY <2>1, <2>3, <2>5, RegionIsUsable
  <2>7. L \in DOMAIN m /\ m[L].usable
    BY <2>1, <2>6, LargestIsCandidate DEF Candidates
  <2>8. ASSUME NEW idx \in DOMAIN m, ~m[idx].usable,
               b \in m[idx].base .. (m[idx].base + m[idx].length - 1)
        PROVE  FALSE
    <3>1. /\ m[idx] \in Entry /\ m[L] \in Entry
          /\ m[idx].base \in Nat /\ m[idx].length \in Nat /\ m[L].base \in Nat /\ m[L].length \in Nat
      BY <2>1, <2>7, EntryType, SizesAssumption
    <3>2. Overlap(m[L], m[idx])
      BY <2>6, <2>8, <3>1 DEF Overlap
    <3>3. Aligned(m[idx]) /\ Aligned(m[L])
      BY <2>1, <2>7, <2>8, <3>2, MemMapAssumption
    <3>4. st = m[L].base
      BY <2>6 DEF RegionStart
    <3>5. st \in Nat /\ st % PageSize = 0 /\ n \in Nat
      BY <2>1, <2>3, <3>1, <3>3, <3>4 DEF Aligned
    <3> HIDE DEF m, st, n, L
    <3>6. p \in MarkedBy(m[idx], st, st + n * PageSize)
      BY <2>3, <2>5, <2>8, <3>1, <3>3, <3>5, MarkedCovers
    <3>7. MarkedBy(m[idx], st, st + n * PageSize) \subseteq Marked(m, st, st + n * PageSize)
      BY <2>8 DEF Marked
    <3>8. Marked(m, st, st + n * PageSize) \subseteq BootUsed(m)
      BY DEF BootUsed, m, st, n
    <3> QED BY <2>4, <3>6, <3>7, <3>8
  <2> QED BY <2>6, <2>7, <2>8
<1> QED BY <1>1, Inductive, PTL

-----------------------------------------------------------------------------
(* Refinement *)

\* Page numbers are natural numbers.
LEMMA PagesAreNaturals ==
  ASSUME NEW n \in Int
  PROVE  0 .. (n - 1) \subseteq Nat
OBVIOUS

\* A run the allocator hands out is a run of the abstract pool.
LEMMA ExtentIsInterval ==
  ASSUME NEW first \in Nat, NEW size \in Nat \ {0}
  PROVE  \E f, l \in Extent(first, size) : Extent(first, size) = f .. l
<1>1. /\ first \in Extent(first, size)
      /\ first + size - 1 \in Extent(first, size)
      /\ Extent(first, size) = first .. (first + size - 1)
  BY DEF Extent
<1> QED BY <1>1

\* The bitmap allocator implements PageAllocator: pmm_init fills the pool, an
\* allocation takes a run of consecutive pages out of it, a release gives pages
\* back, and a failed call changes nothing.
THEOREM PmmImplementsPageAllocator == Spec => ImplementsPageAllocator
<1>1. Init => Abstract!Init
  BY DEF Init, Abstract!Init, Pages
<1>2. IndInv /\ IndInv' /\ [Next]_vars => [Abstract!Next]_(Abstract!vars)
  <2> SUFFICES ASSUME IndInv, IndInv', [Next]_vars
               PROVE  Abstract!Next \/ UNCHANGED Abstract!vars
    OBVIOUS
  <2> USE DEF IndInv
  <2>1. CASE pmm_init
    <3>1. (Pages \ used)' \in SUBSET Nat
      <4>1. max_pages' \in Int
        BY SizesAssumption DEF TypeOK
      <4>2. 0 .. (max_pages' - 1) \subseteq Nat
        BY <4>1, PagesAreNaturals
      <4> QED BY <4>2 DEF Pages
    <3>2. Abstract!Start
      BY <2>1, <3>1 DEF pmm_init, Abstract!Start
    <3> QED BY <3>2 DEF Abstract!Next
  <2>2. ASSUME NEW c \in Clients, NEW size \in 0 .. MaxCount, pmm_alloc_pages(c, size)
        PROVE  Abstract!Next
    <3> DEFINE E == Extent(FirstFit(size), size)
    <3>1. /\ size \in Nat \ {0} /\ FreeRuns(size) # {} /\ max_pages \in Nat
          /\ held \in [Clients -> SUBSET Pages] /\ used \subseteq Pages
      BY <2>2, SizesAssumption DEF pmm_alloc_pages, TypeOK
    <3>2. E \subseteq Pages \ used /\ FirstFit(size) \in Nat
      BY <3>1, FirstFitIsFree DEF Pages
    <3>3. \E f, l \in E : E = f .. l
      BY <3>1, <3>2, ExtentIsInterval
    <3> HIDE DEF E
    <3>4. /\ ready /\ used' = used \cup E
          /\ held' = [held EXCEPT ![c] = held[c] \cup E]
          /\ UNCHANGED <<memmap, ready, kernel_start, max_pages>>
      BY <2>2 DEF pmm_alloc_pages, E
    <3>5. Pages' \ used' = (Pages \ used) \ E
      BY <3>4 DEF Pages
    <3>6. Abstract!Take(c, E)
      BY <3>2, <3>3, <3>4, <3>5 DEF Abstract!Take
    <3> QED BY <3>2, <3>6 DEF Abstract!Next
  <2>3. ASSUME NEW size \in 0 .. MaxCount, pmm_alloc_fails(size)
        PROVE  UNCHANGED Abstract!vars
    BY <2>3 DEF pmm_alloc_fails, vars, Abstract!vars, Pages
  <2>4. ASSUME NEW c \in Clients, NEW addr \in 0 .. MaxAddr, NEW size \in 0 .. MaxCount,
               pmm_free_pages(c, addr, size)
        PROVE  Abstract!Next \/ UNCHANGED Abstract!vars
    <3> DEFINE R == Released(addr, size)
    <3>1. /\ R \subseteq held[c]
          /\ used' = used \ R
          /\ held' = [held EXCEPT ![c] = held[c] \ R]
          /\ UNCHANGED <<memmap, ready, kernel_start, max_pages>>
      BY <2>4 DEF pmm_free_pages
    <3>2. held \in [Clients -> SUBSET Pages]
      BY DEF TypeOK
    <3>3. ~ready => R = {}
      BY DEF Released, InRange
    <3> HIDE DEF R
    <3>4. Pages' \ used' = (Pages \ used) \cup R
      BY <3>1, <3>2 DEF Pages
    <3>5. CASE ready
      <4>1. Abstract!Give(c, R)
        BY <3>1, <3>4, <3>5 DEF Abstract!Give
      <4> QED BY <3>1, <4>1 DEF Abstract!Next
    <3>6. CASE ~ready
      <4>1. UNCHANGED <<used, held>>
        BY <3>1, <3>2, <3>3, <3>6
      <4> QED BY <3>1, <4>1 DEF Abstract!vars, Pages
    <3> QED BY <3>5, <3>6
  <2>5. CASE UNCHANGED vars
    BY <2>5 DEF vars, Abstract!vars, Pages
  <2> QED BY <2>1, <2>2, <2>3, <2>4, <2>5 DEF Next
<1> QED BY Inductive, <1>1, <1>2, PTL DEF Spec, ImplementsPageAllocator, Abstract!Spec

-----------------------------------------------------------------------------
(* The search loop *)

\* The inductive invariant: what the loop knows while it searches yields what
\* it returns when it stops.
ScanInv == ScanTypeOK /\ LoopInvariant /\ ReturnsFirstFit /\ FailsOnlyWhenFull

\* Before the first iteration nothing has been looked at.
LEMMA ScanInitInd == ScanInit => ScanInv
<1> SUFFICES ASSUME ScanInit PROVE ScanInv
  OBVIOUS
<1> USE ScanAssumption
<1>1. ScanTypeOK
  BY DEF ScanInit, ScanTypeOK
<1>2. LoopInvariant
  <2>1. count > 0 /\ Run(i - found_pages, found_pages) = {}
    BY DEF ScanInit, Run
  <2>2. \A first \in ScanPages : ~(first < i - found_pages)
    BY DEF ScanInit, ScanPages
  <2> QED BY <2>1, <2>2 DEF ScanInit, LoopInvariant
<1>3. ReturnsFirstFit /\ FailsOnlyWhenFull
  BY DEF ScanInit, ReturnsFirstFit, FailsOnlyWhenFull
<1> QED BY <1>1, <1>2, <1>3 DEF ScanInv

\* A free page: the run that ends there is free, and when it is long enough it is
\* the first one that is.
LEMMA FreePageInd == ScanInv /\ FreePage => ScanInv'
<1> SUFFICES ASSUME ScanInv, FreePage PROVE ScanInv'
  OBVIOUS
<1> USE ScanAssumption DEF ScanInv
<1> DEFINE s == i - found_pages
<1>1. /\ scan_pages \in Nat /\ i \in Nat /\ i < scan_pages
      /\ count \in Nat /\ count > 0 /\ found_pages \in Nat
      /\ found_pages < count /\ found_pages <= i
      /\ before \subseteq ScanPages /\ page_bitmap = before /\ i \notin before
  BY DEF ScanTypeOK, FreePage, LoopInvariant
<1>2. s \in Nat /\ s + found_pages = i
  BY <1>1
<1>3. start_page' = s
  <2>1. found_pages > 0 => start_page = i - found_pages
    BY DEF FreePage, LoopInvariant
  <2>2. start_page' = RunStart
    BY DEF FreePage
  <2>3. CASE found_pages = 0
    BY <2>2, <2>3, <1>1 DEF RunStart
  <2>4. CASE found_pages # 0
    BY <2>1, <2>2, <2>4, <1>1 DEF RunStart
  <2> QED BY <2>3, <2>4
<1>4. /\ Run(s, found_pages) \cap before = {}
      /\ \A first \in ScanPages : first < s => ~Fits(first)
  BY DEF FreePage, LoopInvariant
<1>5. /\ i' = i + 1 /\ found_pages' = found_pages + 1
      /\ before' = before /\ count' = count
  BY DEF FreePage
<1>6. \A first : Fits(first)' <=> Fits(first)
  BY <1>5 DEF Fits
<1> HIDE DEF s
<1>7. Run(s, found_pages + 1) = Run(s, found_pages) \cup {i}
  BY <1>1, <1>2 DEF Run
<1>8. Run(s, found_pages + 1) \subseteq ScanPages \ before
  BY <1>1, <1>2, <1>4, <1>7 DEF Run, ScanPages
<1>9. CASE found_pages + 1 = count
  <2>1. status' = "found" /\ page_bitmap' = page_bitmap \cup Run(start_page', count)
    BY <1>9 DEF FreePage
  <2>2. ScanTypeOK'
    <3>1. page_bitmap' \in SUBSET ScanPages
      BY <2>1, <1>1, <1>3, <1>8, <1>9
    <3>2. i' \in 0 .. scan_pages /\ found_pages' \in 0 .. scan_pages /\ start_page' \in 0 .. scan_pages
      BY <1>1, <1>2, <1>3, <1>5
    <3> QED BY <2>1, <3>1, <3>2, <1>5 DEF ScanTypeOK
  <2>3. Fits(s)
    BY <1>2, <1>8, <1>9 DEF Fits
  <2>4. \A first \in ScanPages : Fits(first) => s <= first
    BY <1>2, <1>4 DEF ScanPages
  <2>5. ReturnsFirstFit'
    BY <2>1, <2>3, <2>4, <1>1, <1>3, <1>5, <1>6 DEF ReturnsFirstFit, ScanPages
  <2> QED BY <2>1, <2>2, <2>5 DEF LoopInvariant, FailsOnlyWhenFull
<1>10. CASE found_pages + 1 # count
  <2>1. status' = "searching" /\ page_bitmap' = page_bitmap
    BY <1>10 DEF FreePage
  <2>2. ScanTypeOK'
    <3>1. i' \in 0 .. scan_pages /\ found_pages' \in 0 .. scan_pages /\ start_page' \in 0 .. scan_pages
      BY <1>1, <1>2, <1>3, <1>5
    <3> QED BY <2>1, <3>1, <1>5 DEF ScanTypeOK
  <2>3. i' - found_pages' = s
    BY <1>1, <1>2, <1>5
  <2>4. found_pages' < count' /\ found_pages' <= i'
    BY <1>1, <1>5, <1>10
  <2>5. Run(i - found_pages, found_pages)' \cap before' = {}
    BY <2>3, <1>5, <1>8 DEF Run
  <2>6. \A first \in ScanPages : first < s => ~Fits(first)'
    BY <1>4, <1>6
  <2>7. LoopInvariant'
    BY <2>1, <2>3, <2>4, <2>5, <2>6, <1>1, <1>3, <1>5 DEF LoopInvariant
  <2> QED BY <2>1, <2>2, <2>7 DEF ReturnsFirstFit, FailsOnlyWhenFull
<1> QED BY <1>9, <1>10

\* A used page: no run that starts at or before it is long enough.
LEMMA UsedPageInd == ScanInv /\ UsedPage => ScanInv'
<1> SUFFICES ASSUME ScanInv, UsedPage PROVE ScanInv'
  OBVIOUS
<1> USE ScanAssumption DEF ScanInv
<1>1. /\ scan_pages \in Nat /\ i \in Nat /\ i < scan_pages
      /\ count \in Nat /\ count > 0 /\ found_pages \in Nat
      /\ found_pages < count /\ found_pages <= i
      /\ page_bitmap = before /\ i \in before
  BY DEF ScanTypeOK, UsedPage, LoopInvariant
<1>2. /\ status = "searching" /\ status' = "searching" /\ i' = i + 1 /\ found_pages' = 0
      /\ UNCHANGED <<before, page_bitmap, count, start_page>>
  BY DEF UsedPage
<1>3. ScanTypeOK'
  BY <1>1, <1>2 DEF ScanTypeOK
<1>4. ASSUME NEW first \in ScanPages, first < i + 1
      PROVE  ~Fits(first)
  <2>1. CASE first < i - found_pages
    BY <2>1, <1>2 DEF LoopInvariant
  <2>2. CASE first >= i - found_pages
    <3>1. i \in Run(first, count)
      BY <1>1, <1>4, <2>2 DEF Run, ScanPages
    <3> QED BY <3>1, <1>1 DEF Fits
  <2> QED BY <1>1, <2>1, <2>2 DEF ScanPages
<1>5. \A first : Fits(first)' <=> Fits(first)
  BY <1>2 DEF Fits
<1>6. LoopInvariant'
  <2>1. i' - found_pages' = i + 1
    BY <1>1, <1>2
  <2>2. \A first \in ScanPages : first < i + 1 => ~Fits(first)'
    BY <1>4, <1>5
  <2>3. Run(i - found_pages, found_pages)' \cap before' = {}
    BY <1>1, <1>2 DEF Run
  <2> QED BY <1>1, <1>2, <2>1, <2>2, <2>3 DEF LoopInvariant
<1> QED BY <1>2, <1>3, <1>6 DEF ReturnsFirstFit, FailsOnlyWhenFull

\* Past the last page: a run that starts in the current one would need pages the
\* bitmap does not have.
LEMMA NoMorePagesInd == ScanInv /\ NoMorePages => ScanInv'
<1> SUFFICES ASSUME ScanInv, NoMorePages PROVE ScanInv'
  OBVIOUS
<1> USE ScanAssumption DEF ScanInv
<1>1. /\ scan_pages \in Nat /\ i = scan_pages
      /\ count \in Nat /\ count > 0 /\ found_pages \in Nat
      /\ found_pages < count /\ found_pages <= i /\ page_bitmap = before
  BY DEF ScanTypeOK, NoMorePages, LoopInvariant
<1>2. status = "searching" /\ status' = "failed"
      /\ UNCHANGED <<before, page_bitmap, count, i, found_pages, start_page>>
  BY DEF NoMorePages
<1>3. ScanTypeOK'
  BY <1>2 DEF ScanTypeOK
<1>4. ASSUME NEW first \in ScanPages
      PROVE  ~Fits(first)
  <2>1. CASE first < i - found_pages
    BY <2>1, <1>2 DEF LoopInvariant
  <2>2. CASE first >= i - found_pages
    <3>1. scan_pages \in Run(first, count) /\ scan_pages \notin ScanPages
      BY <1>1, <2>2 DEF Run, ScanPages
    <3> QED BY <3>1 DEF Fits
  <2> QED BY <1>1, <2>1, <2>2 DEF ScanPages
<1>5. \A first : Fits(first)' <=> Fits(first)
  BY <1>2 DEF Fits
<1>6. FailsOnlyWhenFull'
  BY <1>1, <1>2, <1>4, <1>5 DEF FailsOnlyWhenFull
<1> QED BY <1>2, <1>3, <1>6 DEF LoopInvariant, ReturnsFirstFit

\* No iteration of the loop, and not its end, breaks the invariant.
LEMMA ScanNextInd == ScanInv /\ [ScanNext]_scan_vars => ScanInv'
<1> SUFFICES ASSUME ScanInv, [ScanNext]_scan_vars PROVE ScanInv'
  OBVIOUS
<1>1. CASE UNCHANGED scan_vars
  BY <1>1 DEF ScanInv, scan_vars, ScanTypeOK, LoopInvariant, ReturnsFirstFit, FailsOnlyWhenFull, Fits
<1> QED BY <1>1, FreePageInd, UsedPageInd, NoMorePagesInd DEF ScanNext

\* What pmm_alloc_pages returns is the lowest run of free pages of the length
\* asked for, and exactly that run becomes used.
THEOREM ScanReturnsFirstFit == ScanSpec => []ReturnsFirstFit
<1>1. ScanInv => ReturnsFirstFit
  BY DEF ScanInv
<1> QED BY <1>1, ScanInitInd, ScanNextInd, PTL DEF ScanSpec

\* pmm_alloc_pages reports exhaustion only when no run of that length is free.
THEOREM ScanFailsOnlyWhenFull == ScanSpec => []FailsOnlyWhenFull
<1>1. ScanInv => FailsOnlyWhenFull
  BY DEF ScanInv
<1> QED BY <1>1, ScanInitInd, ScanNextInd, PTL DEF ScanSpec

=============================================================================
