-------------------------------- MODULE Elf --------------------------------
(***************************************************************************)
(* The loader of executables (syncos/elf.c).  A context holds the runs of  *)
(* frames it allocated: the two header arrays and up to MaxSegments        *)
(* segments; 0 stands for a NULL pointer.                                  *)
(*                                                                         *)
(* An image is what the file asks for: whether its headers are accepted,   *)
(* the pages of its two header arrays, and the page and length of each     *)
(* segment to load.  Contents and protection are left out.                 *)
(*                                                                         *)
(* The loader writes through the physical addresses process_alloc_pages    *)
(* returns.  They are taken to be reachable.                               *)
(***************************************************************************)
EXTENDS Vmm

CONSTANT MaxSegments    \* room for loaded segments in a context (16)

NoContext == [program_headers |-> 0, section_headers |-> 0, segments |-> <<>>]

process_alloc_pages(m, n) ==
  LET New(f) == [f |-> f, m |-> IF f = 0 THEN m ELSE Taken(m, f, n, "elf")]
  IN  New(pmm_alloc_pages(m, n))

(* The frames of a context.  The header arrays are taken for one page      *)
(* each, whatever was allocated for them.                                  *)
Recorded(ctx) ==
  {ctx.program_headers, ctx.section_headers}
    \cup UNION {Run(ctx.segments[k].f, ctx.segments[k].n) : k \in DOMAIN ctx.segments}

\* Mutant: only the header arrays are freed.
ForgetsSegments(m, ctx) == Freed(m, {ctx.program_headers, ctx.section_headers} \cap m.ram)

(* The arrays that are there and the segments are freed one by one.        *)
elf_cleanup(m, ctx) == Freed(m, Recorded(ctx) \cap m.ram)

(* An array without entries cannot be allocated, so a file without section *)
(* headers is refused.                                                     *)
elf_init(m, image) ==
  LET Fails(mem) == [ok |-> FALSE, m |-> mem, ctx |-> NoContext]
      Sections(sh, c, mem) ==
        IF sh.f = 0 THEN Fails(elf_cleanup(mem, c))
        ELSE [ok |-> TRUE, m |-> sh.m, ctx |-> [c EXCEPT !.section_headers = sh.f]]
      Programs(ph) ==
        IF ph.f = 0 THEN Fails(m)
        ELSE Sections(process_alloc_pages(ph.m, image.sh),
                      [NoContext EXCEPT !.program_headers = ph.f], ph.m)
  IN  IF image.valid THEN Programs(process_alloc_pages(m, image.ph)) ELSE Fails(m)

(* One segment: allocated, recorded if there is room, mapped.  If mapping  *)
(* fails its frames are freed here and it stays recorded.                  *)
LoadSegment(s, seg) ==
  LET Record(f) ==
        IF Len(s.ctx.segments) < MaxSegments
          THEN [s.ctx EXCEPT !.segments = Append(@, [f |-> f, n |-> seg.n, v |-> seg.v])]
          ELSE s.ctx
      Mapped(p, f) ==
        [ok |-> p.ok, ctx |-> Record(f),
         m |-> IF p.ok THEN p.m ELSE pmm_free_pages(p.m, f, seg.n)]
      With(a) == IF a.f = 0 THEN [s EXCEPT !.ok = FALSE]
                 ELSE Mapped(vmm_map_pages(a.m, seg.v, a.f, seg.n), a.f)
  IN  IF s.ok THEN With(process_alloc_pages(s.m, seg.n)) ELSE s

elf_load(m, ctx, image) ==
  LET Upto[i \in 0..Len(image.segments)] ==
        IF i = 0 THEN [ok |-> TRUE, m |-> m, ctx |-> ctx]
        ELSE LoadSegment(Upto[i - 1], image.segments[i])
  IN  Upto[Len(image.segments)]
=============================================================================
