------------------------------ MODULE PmmScan ------------------------------
(***************************************************************************)
(* The search loop of pmm_alloc_pages (syncos/pmm.c), one iteration per    *)
(* step, from any bitmap and for any request.  Pmm.tla takes the result of *)
(* the loop to be the first run of clear bits; this module shows that the  *)
(* two counters of the loop compute exactly that.  The loop of             *)
(* pmm_alloc_page is the case count = 1: it stops at the first clear bit.  *)
(***************************************************************************)
EXTENDS Integers

CONSTANTS
  scan_pages,    \* pmm_config.max_pages
  Counts         \* the requests considered

ASSUME ScanAssumption ==
  /\ scan_pages \in Nat
  /\ Counts \subseteq Nat \ {0}

VARIABLES
  before,        \* history: the set bits when the call started
  page_bitmap,   \* the set bits
  count,         \* the argument
  i,             \* the loop variable
  found_pages,   \* length of the current run
  start_page,    \* its first page
  status         \* "searching", "found" (start_page is returned) or "failed"

scan_vars == <<before, page_bitmap, count, i, found_pages, start_page, status>>

ScanPages == 0 .. (scan_pages - 1)

Run(first, n) == first .. (first + n - 1)

ScanInit ==
  /\ page_bitmap \in SUBSET ScanPages
  /\ before = page_bitmap
  /\ count \in Counts
  /\ i = 0
  /\ found_pages = 0
  /\ start_page = 0
  /\ status = "searching"

\* Mutant: the first page of a run is only recorded once.
RunStartOnce ==
  IF found_pages = 0 /\ start_page = 0 THEN i ELSE start_page

RunStart == IF found_pages = 0 THEN i ELSE start_page

\* The page is free: the run grows, and a run that is long enough is marked.
FreePage ==
  /\ status = "searching"
  /\ i < scan_pages
  /\ i \notin page_bitmap
  /\ start_page' = RunStart
  /\ found_pages' = found_pages + 1
  /\ i' = i + 1
  /\ IF found_pages + 1 = count
       THEN /\ page_bitmap' = page_bitmap \cup Run(RunStart, count)
            /\ status' = "found"
       ELSE UNCHANGED <<page_bitmap, status>>
  /\ UNCHANGED <<before, count>>

\* Mutant: the loop variable does not advance past a used page.
UsedPageStays ==
  /\ status = "searching"
  /\ i < scan_pages
  /\ i \in page_bitmap
  /\ found_pages' = 0
  /\ UNCHANGED <<before, page_bitmap, count, i, start_page, status>>

\* The page is used: the run is over.
UsedPage ==
  /\ status = "searching"
  /\ i < scan_pages
  /\ i \in page_bitmap
  /\ found_pages' = 0
  /\ i' = i + 1
  /\ UNCHANGED <<before, page_bitmap, count, start_page, status>>

\* Mutant: the search gives up before the last page.
GivesUpEarly ==
  /\ status = "searching"
  /\ i >= scan_pages - 1
  /\ status' = "failed"
  /\ UNCHANGED <<before, page_bitmap, count, i, found_pages, start_page>>

\* The loop ran off the end: 0 is returned.
NoMorePages ==
  /\ status = "searching"
  /\ i >= scan_pages
  /\ status' = "failed"
  /\ UNCHANGED <<before, page_bitmap, count, i, found_pages, start_page>>

ScanNext == FreePage \/ UsedPage \/ NoMorePages

\* A call runs to its end: nothing inside the loop waits.
ScanSpec == ScanInit /\ [][ScanNext]_scan_vars /\ WF_scan_vars(ScanNext)

-----------------------------------------------------------------------------
(* Properties *)

ScanTypeOK ==
  /\ before \in SUBSET ScanPages
  /\ page_bitmap \in SUBSET ScanPages
  /\ count \in Counts
  /\ i \in 0 .. scan_pages
  /\ found_pages \in 0 .. scan_pages
  /\ start_page \in 0 .. scan_pages
  /\ status \in {"searching", "found", "failed"}

\* `first' starts a run of `count' pages that were free at the call.
Fits(first) == first \in Nat /\ Run(first, count) \subseteq ScanPages \ before

\* The page returned by pmm_alloc_pages starts a run that was free, it is the
\* lowest such page, and exactly that run has been marked used.
ReturnsFirstFit ==
  status = "found" =>
    /\ Fits(start_page)
    /\ \A first \in ScanPages : Fits(first) => start_page <= first
    /\ page_bitmap = before \cup Run(start_page, count)

\* 0 is returned only when no run of `count' consecutive pages was free, and
\* the bitmap is as it was.
FailsOnlyWhenFull ==
  status = "failed" =>
    /\ \A first \in ScanPages : ~Fits(first)
    /\ page_bitmap = before

\* What the loop knows while it searches: the current run is free and starts
\* after a used page or at page 0, and no earlier page starts a long enough run.
LoopInvariant ==
  status = "searching" =>
    /\ page_bitmap = before
    /\ found_pages < count
    /\ found_pages <= i
    /\ found_pages > 0 => start_page = i - found_pages
    /\ Run(i - found_pages, found_pages) \cap before = {}
    /\ \A first \in ScanPages : first < i - found_pages => ~Fits(first)

\* The search ends.
Terminates == <>(status # "searching")

=============================================================================
