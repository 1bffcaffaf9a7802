--------------------------- MODULE ProcessQueues ---------------------------
(***************************************************************************)
(* The process queues of syncos/process.c: the doubly linked ready queue   *)
(* and the singly linked blocked queue, threaded through the same `next'   *)
(* and `prev' fields of the process table entries.                         *)
(*                                                                         *)
(* The links are one record: next and prev of every entry, and the heads   *)
(* and tail.  Every operator returns the links after the C function ran.   *)
(***************************************************************************)
EXTENDS Integers, Sequences, FiniteSets

CONSTANT MaxCount    \* PROCESS_MAX_COUNT

ASSUME MaxCountAssumption == MaxCount \in Nat \ {0}

Slots == 0 .. (MaxCount - 1)

NULL == -1

Pointers == Slots \cup {NULL}

NoLinks ==
  [next |-> [s \in Slots |-> NULL], prev |-> [s \in Slots |-> NULL],
   ready_head |-> NULL, ready_tail |-> NULL, blocked_head |-> NULL]

-----------------------------------------------------------------------------
(* The ready queue *)

\* Set a link of an entry, if there is an entry.
SetLink(f, p, value) == IF p = NULL THEN f ELSE [f EXCEPT ![p] = value]

\* Mutant: the new tail does not point back.
AddWithoutPrev(q, p) ==
  IF q.ready_head = NULL
    THEN [q EXCEPT !.next[p] = NULL, !.prev[p] = NULL,
                   !.ready_head = p, !.ready_tail = p]
    ELSE [q EXCEPT !.next = [@ EXCEPT ![p] = NULL, ![q.ready_tail] = p],
                   !.ready_tail = p]

\* Mutant: the entry is linked in behind the head instead of behind the tail.
AddAfterHead(q, p) ==
  LET n == q.next[q.ready_head]
  IN  IF q.ready_head = NULL
        THEN [q EXCEPT !.next[p] = NULL, !.prev[p] = NULL,
                       !.ready_head = p, !.ready_tail = p]
        ELSE [q EXCEPT !.next = [@ EXCEPT ![p] = n, ![q.ready_head] = p],
                       !.prev = SetLink([@ EXCEPT ![p] = q.ready_head], n, p),
                       !.ready_tail = IF n = NULL THEN p ELSE @]

\* The entry's next is cleared before the old tail is linked to it.
add_to_ready_queue(q, p) ==
  IF q.ready_head = NULL
    THEN [q EXCEPT !.next[p] = NULL, !.prev[p] = NULL,
                   !.ready_head = p, !.ready_tail = p]
    ELSE [q EXCEPT !.next = [@ EXCEPT ![p] = NULL, ![q.ready_tail] = p],
                   !.prev[p] = q.ready_tail,
                   !.ready_tail = p]

\* Cut one entry out of the queue and clear its links.
Unlinked(q, p) == [q EXCEPT !.next[p] = NULL, !.prev[p] = NULL]

remove_from_ready_queue(q, p) ==
  LET n == q.next[p]
      b == q.prev[p]
  IN  CASE p = q.ready_head ->
             Unlinked([q EXCEPT !.ready_head = n,
                                !.prev = SetLink(@, n, NULL),
                                !.ready_tail = IF n = NULL THEN NULL ELSE @], p)
        [] p # q.ready_head /\ p = q.ready_tail ->
             Unlinked([q EXCEPT !.ready_tail = b,
                                !.next = SetLink(@, b, NULL),
                                !.ready_head = IF b = NULL THEN NULL ELSE @], p)
        [] OTHER ->
             Unlinked([q EXCEPT !.next = SetLink(@, b, n),
                                !.prev = SetLink(@, n, b)], p)

\* The head of the queue leaves it (in schedule_next).
PopReady(q) ==
  LET p == q.ready_head
      n == q.next[p]
  IN  Unlinked([q EXCEPT !.ready_head = n,
                         !.prev = SetLink(@, n, NULL),
                         !.ready_tail = IF n = NULL THEN NULL ELSE @], p)

-----------------------------------------------------------------------------
(* The blocked queue *)

add_to_blocked_queue(q, p) ==
  [q EXCEPT !.next[p] = q.blocked_head, !.blocked_head = p]

\* The k-th entry of the list that starts at `head', NULL past its end.
Nth(q, head) ==
  LET nth[k \in 0 .. MaxCount] ==
        IF k = 0 THEN head
        ELSE IF nth[k - 1] = NULL THEN NULL ELSE q.next[nth[k - 1]]
  IN  nth

\* The list is not longer than the table: it has no cycle.
Ends(q, head) == Nth(q, head)[MaxCount] = NULL

\* The entries from `head' on, in order (for a list that ends).
Walk(q, head) ==
  LET nth == Nth(q, head)
      len == Cardinality({k \in 0 .. (MaxCount - 1) : nth[k] # NULL})
  IN  [k \in 1 .. len |-> nth[k - 1]]

Elements(q, head) == {Nth(q, head)[k] : k \in 0 .. (MaxCount - 1)} \ {NULL}

\* The walk stops at the entry; an entry that is not in the queue is left alone.
remove_from_blocked_queue(q, p) ==
  LET before == {b \in Elements(q, q.blocked_head) : q.next[b] = p}
  IN  CASE p = q.blocked_head ->
             [q EXCEPT !.blocked_head = q.next[p], !.next[p] = NULL]
        [] p # q.blocked_head /\ before # {} ->
             LET b == CHOOSE x \in before : TRUE
             IN  [q EXCEPT !.next = [@ EXCEPT ![b] = q.next[p], ![p] = NULL]]
        [] OTHER -> q

=============================================================================
