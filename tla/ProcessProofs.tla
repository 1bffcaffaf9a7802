--------------------------- MODULE ProcessProofs ---------------------------
(***************************************************************************)
(* Proofs about Process.tla, for every size of the process table, every    *)
(* set of page tables and any number of processes created.                 *)
(*                                                                         *)
(* The linked lists are reasoned about through the sequences they stand    *)
(* for: Lists says that the links of a record thread two sequences, and    *)
(* one lemma per function of process.c says which sequences its result     *)
(* threads.                                                                *)
(***************************************************************************)
EXTENDS Process, FiniteSetTheorems, SequenceTheorems, WellFoundedInduction, TLAPS

Members(s) == {s[k] : k \in 1 .. Len(s)}

LinkType ==
  [next : [Slots -> Pointers], prev : [Slots -> Pointers],
   ready_head : Pointers, ready_tail : Pointers, blocked_head : Pointers]

\* A sequence of entries, each once.
Line(s) == /\ s \in Seq(Slots)
           /\ \A i, j \in 1 .. Len(s) : s[i] = s[j] => i = j

\* The forward links thread the sequence, the head first.
Forward(next, head, s) ==
  /\ head = IF Len(s) = 0 THEN NULL ELSE s[1]
  /\ \A k \in 1 .. Len(s) : next[s[k]] = IF k = Len(s) THEN NULL ELSE s[k + 1]

\* So do the back links, the tail first.
Backward(prev, tail, s) ==
  /\ tail = IF Len(s) = 0 THEN NULL ELSE s[Len(s)]
  /\ \A k \in 1 .. Len(s) : prev[s[k]] = IF k = 1 THEN NULL ELSE s[k - 1]

Apart(R, B) == \A i \in 1 .. Len(R), j \in 1 .. Len(B) : R[i] # B[j]

\* The links thread the ready queue R and the blocked queue B.
Lists(l, R, B) ==
  /\ l \in LinkType
  /\ Line(R) /\ Line(B) /\ Apart(R, B)
  /\ Forward(l.next, l.ready_head, R)
  /\ Backward(l.prev, l.ready_tail, R)
  /\ Forward(l.next, l.blocked_head, B)

\* A sequence without its i-th element.
Cut(s, i) == [k \in 1 .. (Len(s) - 1) |-> IF k < i THEN s[k] ELSE s[k + 1]]

-----------------------------------------------------------------------------
(* Sequences *)

\* NULL is no entry.
LEMMA NullIsNoSlot == NULL \notin Slots /\ Pointers = Slots \cup {NULL}
BY DEF NULL, Slots, Pointers

\* Members of a sequence of entries.
LEMMA LineFacts ==
  ASSUME NEW s \in Seq(Slots)
  PROVE  /\ Len(s) \in Nat
         /\ \A k \in 1 .. Len(s) : s[k] \in Slots
         /\ Members(s) \subseteq Slots
         /\ DOMAIN s = 1 .. Len(s)
BY DEF Members

\* An entry appended to a line that does not have it.
LEMMA AppendLine ==
  ASSUME NEW s, Line(s), NEW p \in Slots, p \notin Members(s)
  PROVE  /\ Line(Append(s, p))
         /\ Len(Append(s, p)) = Len(s) + 1
         /\ \A k \in 1 .. Len(s) : Append(s, p)[k] = s[k]
         /\ Append(s, p)[Len(s) + 1] = p
         /\ Members(Append(s, p)) = Members(s) \cup {p}
<1> DEFINE t == Append(s, p)
<1>1. s \in Seq(Slots) /\ Len(s) \in Nat
  BY DEF Line
<1>2. t \in Seq(Slots) /\ Len(t) = Len(s) + 1
      /\ (\A k \in 1 .. Len(s) : t[k] = s[k]) /\ t[Len(s) + 1] = p
  BY <1>1, AppendProperties
<1> HIDE DEF t
<1>3. \A k \in 1 .. Len(t) : k \in 1 .. Len(s) \/ k = Len(s) + 1
  BY <1>1, <1>2
<1>4. Line(t)
  BY <1>1, <1>2, <1>3 DEF Line, Members
<1>5. Members(t) = Members(s) \cup {p}
  BY <1>1, <1>2, <1>3 DEF Members
<1> QED BY <1>2, <1>4, <1>5 DEF t

\* An entry put before a line that does not have it.
LEMMA PrependLine ==
  ASSUME NEW s, Line(s), NEW p \in Slots, p \notin Members(s)
  PROVE  /\ Line(<<p>> \o s)
         /\ Len(<<p>> \o s) = Len(s) + 1
         /\ (<<p>> \o s)[1] = p
         /\ \A k \in 1 .. Len(s) : (<<p>> \o s)[k + 1] = s[k]
         /\ Members(<<p>> \o s) = Members(s) \cup {p}
<1> DEFINE t == <<p>> \o s
<1>1. s \in Seq(Slots) /\ Len(s) \in Nat
  BY DEF Line
<1>2. t \in Seq(Slots) /\ Len(t) = Len(s) + 1 /\ t[1] = p
      /\ (\A k \in 2 .. Len(s) + 1 : t[k] = s[k - 1])
  BY <1>1
<1> HIDE DEF t
<1>3. \A k \in 1 .. Len(s) : t[k + 1] = s[k]
  BY <1>1, <1>2
<1>4. \A k \in 1 .. Len(t) : k = 1 \/ (k - 1 \in 1 .. Len(s) /\ t[k] = s[k - 1])
  BY <1>1, <1>2
<1>5. Line(t)
  <2> SUFFICES ASSUME NEW a \in 1 .. Len(t), NEW b \in 1 .. Len(t), t[a] = t[b] PROVE a = b
    BY <1>2 DEF Line
  <2>1. \A k \in 1 .. Len(s) : s[k] # p
    BY DEF Members
  <2>2. a = 1 <=> b = 1
    BY <1>2, <1>4, <2>1
  <2>3. CASE a # 1
    <3>1. a - 1 = b - 1
      BY <1>4, <2>2, <2>3 DEF Line
    <3> QED BY <1>1, <1>2, <3>1
  <2> QED BY <2>2, <2>3
<1>6. Members(t) = Members(s) \cup {p}
  <2>1. \A k \in 1 .. Len(s) : k + 1 \in 1 .. Len(t)
    BY <1>1, <1>2
  <2>2. 1 \in 1 .. Len(t)
    BY <1>1, <1>2
  <2> QED BY <1>2, <1>3, <1>4, <2>1, <2>2 DEF Members
<1> QED BY <1>2, <1>3, <1>5, <1>6 DEF t

\* What is left of a line when one entry leaves it.
LEMMA CutLine ==
  ASSUME NEW s, Line(s), NEW i \in 1 .. Len(s)
  PROVE  /\ Line(Cut(s, i))
         /\ Len(Cut(s, i)) = Len(s) - 1
         /\ \A k \in 1 .. (Len(s) - 1) : Cut(s, i)[k] = IF k < i THEN s[k] ELSE s[k + 1]
         /\ Members(Cut(s, i)) = Members(s) \ {s[i]}
<1> DEFINE t == Cut(s, i)
<1>1. s \in Seq(Slots) /\ Len(s) \in Nat /\ Len(s) - 1 \in Nat /\ i \in Nat
  BY DEF Line
<1>2. \A k \in 1 .. (Len(s) - 1) : t[k] = (IF k < i THEN s[k] ELSE s[k + 1]) /\ t[k] \in Slots
  BY <1>1 DEF Cut
<1>3. t \in Seq(Slots) /\ Len(t) = Len(s) - 1
  <2>1. t \in [1 .. (Len(s) - 1) -> Slots]
    BY <1>2 DEF Cut
  <2> HIDE DEF t
  <2> QED BY <1>1, <2>1
<1> HIDE DEF t
<1>4. Line(t)
  <2> SUFFICES ASSUME NEW a \in 1 .. Len(t), NEW b \in 1 .. Len(t), t[a] = t[b] PROVE a = b
    BY <1>3 DEF Line
  <2> QED BY <1>1, <1>2, <1>3 DEF Line
<1>5. Members(t) = Members(s) \ {s[i]}
  <2>1. ASSUME NEW k \in 1 .. Len(t) PROVE t[k] \in Members(s) \ {s[i]}
    BY <1>1, <1>2, <1>3 DEF Line, Members
  <2>2. ASSUME NEW k \in 1 .. Len(s), k # i PROVE s[k] \in Members(t)
    <3>1. CASE k < i
      <4>1. k \in 1 .. Len(t) /\ t[k] = s[k]
        BY <1>1, <1>2, <1>3, <3>1
      <4> QED BY <4>1 DEF Members
    <3>2. CASE ~(k < i)
      <4>1. k - 1 \in 1 .. Len(t) /\ t[k - 1] = s[k]
        BY <1>1, <1>2, <1>3, <2>2, <3>2
      <4> QED BY <4>1 DEF Members
    <3> QED BY <3>1, <3>2
  <2> QED BY <2>1, <2>2 DEF Members
<1> QED BY <1>2, <1>3, <1>4, <1>5 DEF t

\* The first entry leaves: the same as the tail of the sequence.
LEMMA CutFirst ==
  ASSUME NEW s \in Seq(Slots), Len(s) # 0
  PROVE  Cut(s, 1) = Tail(s) /\ s[1] = Head(s) /\ s # <<>>
<1>1. Len(s) \in Nat /\ s # <<>>
  OBVIOUS
<1>2. Tail(s) \in Seq(Slots) /\ Len(Tail(s)) = Len(s) - 1
      /\ \A k \in 1 .. (Len(s) - 1) : Tail(s)[k] = s[k + 1]
  BY <1>1, HeadTailProperties
<1>3. Tail(s) = [k \in 1 .. (Len(s) - 1) |-> s[k + 1]]
  <2> DEFINE t == Tail(s)
             u == [k \in 1 .. (Len(s) - 1) |-> s[k + 1]]
  <2>1. t \in Seq(Slots) /\ Len(t) = Len(s) - 1 /\ \A k \in 1 .. (Len(s) - 1) : t[k] = s[k + 1]
    BY <1>2
  <2>2. u \in Seq(Slots) /\ Len(u) = Len(s) - 1 /\ \A k \in 1 .. (Len(s) - 1) : u[k] = s[k + 1]
    <3>1. u \in [1 .. (Len(s) - 1) -> Slots]
      BY <1>1
    <3>2. Len(s) - 1 \in Nat
      BY <1>1
    <3> QED BY <3>1, <3>2
  <2> HIDE DEF t, u
  <2>3. t = u
    BY <2>1, <2>2, SeqEqual
  <2> QED BY <2>3 DEF t, u
<1>4. Cut(s, 1) = [k \in 1 .. (Len(s) - 1) |-> s[k + 1]]
  BY <1>1 DEF Cut
<1> QED BY <1>1, <1>3, <1>4

-----------------------------------------------------------------------------
(* The functions on the queues *)

\* add_to_ready_queue appends.
LEMMA AddReady ==
  ASSUME NEW l, NEW R, NEW B, Lists(l, R, B),
         NEW p \in Slots, p \notin Members(R), p \notin Members(B)
  PROVE  Lists(add_to_ready_queue(l, p), Append(R, p), B)
<1> DEFINE m == add_to_ready_queue(l, p)
           T == Append(R, p)
<1> USE NullIsNoSlot
<1>1. /\ l.next \in [Slots -> Pointers] /\ l.prev \in [Slots -> Pointers]
      /\ l.ready_head \in Pointers /\ l.ready_tail \in Pointers /\ l.blocked_head \in Pointers
  BY DEF Lists, LinkType
<1>2. /\ R \in Seq(Slots) /\ Len(R) \in Nat /\ \A k \in 1 .. Len(R) : R[k] \in Slots /\ R[k] # p
      /\ B \in Seq(Slots) /\ Len(B) \in Nat /\ \A k \in 1 .. Len(B) : B[k] \in Slots /\ B[k] # p
  BY LineFacts DEF Lists, Line, Members
<1>3. /\ Line(T) /\ Len(T) = Len(R) + 1 /\ T[Len(R) + 1] = p
      /\ \A k \in 1 .. Len(R) : T[k] = R[k]
  BY AppendLine DEF Lists
<1>4. l.ready_head = NULL <=> Len(R) = 0
  BY <1>2 DEF Lists, Forward
<1>5. Len(R) # 0 => l.ready_tail = R[Len(R)] /\ l.ready_tail \in Slots /\ Len(R) \in 1 .. Len(R)
  BY <1>2 DEF Lists, Backward
<1>6. /\ m \in LinkType
      /\ m.next = IF Len(R) = 0 THEN [l.next EXCEPT ![p] = NULL]
                  ELSE [l.next EXCEPT ![p] = NULL, ![R[Len(R)]] = p]
      /\ m.prev = IF Len(R) = 0 THEN [l.prev EXCEPT ![p] = NULL]
                  ELSE [l.prev EXCEPT ![p] = R[Len(R)]]
      /\ m.ready_head = IF Len(R) = 0 THEN p ELSE l.ready_head
      /\ m.ready_tail = p
      /\ m.blocked_head = l.blocked_head
  <2>1. CASE Len(R) = 0
    BY <1>1, <1>4, <2>1 DEF Lists, LinkType, add_to_ready_queue
  <2>2. CASE Len(R) # 0
    BY <1>1, <1>4, <1>5, <2>2 DEF Lists, LinkType, add_to_ready_queue
  <2> QED BY <2>1, <2>2
<1> HIDE DEF m, T
<1>7. \A k \in 1 .. Len(T) : k \in 1 .. Len(R) \/ k = Len(R) + 1
  BY <1>2, <1>3
<1>8. Forward(m.next, m.ready_head, T)
  <2>1. m.ready_head = T[1]
    BY <1>2, <1>3, <1>6 DEF Lists, Forward
  <2>2. ASSUME NEW k \in 1 .. Len(T)
        PROVE  m.next[T[k]] = IF k = Len(T) THEN NULL ELSE T[k + 1]
    <3>1. CASE k = Len(R) + 1
      BY <1>1, <1>2, <1>3, <1>5, <1>6, <3>1
    <3>2. CASE k \in 1 .. Len(R) /\ k = Len(R)
      BY <1>1, <1>2, <1>3, <1>5, <1>6, <3>2
    <3>3. CASE k \in 1 .. Len(R) /\ k # Len(R)
      <4>1. R[k] # R[Len(R)] /\ k + 1 \in 1 .. Len(R) /\ k # Len(T)
        BY <1>2, <1>3, <1>5, <3>3 DEF Lists, Line
      <4>2. l.next[R[k]] = R[k + 1]
        BY <3>3 DEF Lists, Forward
      <4> QED BY <1>1, <1>2, <1>3, <1>6, <3>3, <4>1, <4>2
    <3> QED BY <1>7, <3>1, <3>2, <3>3
  <2> QED BY <1>2, <1>3, <2>1, <2>2 DEF Forward
<1>9. Backward(m.prev, m.ready_tail, T)
  <2>1. ASSUME NEW k \in 1 .. Len(T)
        PROVE  m.prev[T[k]] = IF k = 1 THEN NULL ELSE T[k - 1]
    <3>1. CASE k = Len(R) + 1
      BY <1>1, <1>2, <1>3, <1>5, <1>6, <3>1
    <3>2. CASE k \in 1 .. Len(R)
      <4>1. l.prev[R[k]] = IF k = 1 THEN NULL ELSE R[k - 1]
        BY <3>2 DEF Lists, Backward
      <4>2. k # 1 => k - 1 \in 1 .. Len(R)
        BY <1>2, <3>2
      <4> QED BY <1>1, <1>2, <1>3, <1>6, <3>2, <4>1, <4>2
    <3> QED BY <1>7, <3>1, <3>2
  <2> QED BY <1>2, <1>3, <1>6, <2>1 DEF Backward
<1>10. Forward(m.next, m.blocked_head, B)
  <2>1. \A k \in 1 .. Len(B) : m.next[B[k]] = l.next[B[k]]
    BY <1>1, <1>2, <1>5, <1>6 DEF Lists, Apart
  <2> QED BY <1>6, <2>1 DEF Lists, Forward
<1>11. Apart(T, B)
  BY <1>2, <1>3, <1>7 DEF Lists, Apart
<1> QED BY <1>3, <1>6, <1>8, <1>9, <1>10, <1>11 DEF Lists, m, T

\* Clearing the links of an entry that is in no queue changes neither.
LEMMA UnlinkOutside ==
  ASSUME NEW l, NEW R, NEW B, Lists(l, R, B),
         NEW p \in Slots, p \notin Members(R), p \notin Members(B)
  PROVE  Lists(Unlinked(l, p), R, B)
<1> DEFINE m == Unlinked(l, p)
<1> USE NullIsNoSlot
<1>1. l.next \in [Slots -> Pointers] /\ l.prev \in [Slots -> Pointers]
  BY DEF Lists, LinkType
<1>2. /\ m \in LinkType
      /\ m.next = [l.next EXCEPT ![p] = NULL] /\ m.prev = [l.prev EXCEPT ![p] = NULL]
      /\ m.ready_head = l.ready_head /\ m.ready_tail = l.ready_tail
      /\ m.blocked_head = l.blocked_head
  BY DEF Lists, LinkType, Unlinked
<1> HIDE DEF m
<1>3. /\ \A k \in 1 .. Len(R) : m.next[R[k]] = l.next[R[k]] /\ m.prev[R[k]] = l.prev[R[k]]
      /\ \A k \in 1 .. Len(B) : m.next[B[k]] = l.next[B[k]]
  BY <1>1, <1>2, LineFacts DEF Lists, Line, Members
<1> QED BY <1>2, <1>3 DEF Lists, Forward, Backward, m

\* add_to_blocked_queue puts the entry in front.
LEMMA AddBlocked ==
  ASSUME NEW l, NEW R, NEW B, Lists(l, R, B),
         NEW p \in Slots, p \notin Members(R), p \notin Members(B)
  PROVE  Lists(add_to_blocked_queue(l, p), R, <<p>> \o B)
<1> DEFINE m == add_to_blocked_queue(l, p)
           T == <<p>> \o B
<1> USE NullIsNoSlot
<1>1. l.next \in [Slots -> Pointers]
  BY DEF Lists, LinkType
<1>2. /\ R \in Seq(Slots) /\ Len(R) \in Nat /\ \A k \in 1 .. Len(R) : R[k] \in Slots /\ R[k] # p
      /\ B \in Seq(Slots) /\ Len(B) \in Nat /\ \A k \in 1 .. Len(B) : B[k] \in Slots /\ B[k] # p
  BY LineFacts DEF Lists, Line, Members
<1>3. /\ Line(T) /\ Len(T) = Len(B) + 1 /\ T[1] = p
      /\ \A k \in 1 .. Len(B) : T[k + 1] = B[k]
  BY PrependLine DEF Lists
<1>4. /\ m \in LinkType
      /\ m.next = [l.next EXCEPT ![p] = l.blocked_head] /\ m.prev = l.prev
      /\ m.ready_head = l.ready_head /\ m.ready_tail = l.ready_tail
      /\ m.blocked_head = p
  BY DEF Lists, LinkType, add_to_blocked_queue
<1> HIDE DEF m, T
<1>5. \A k \in 1 .. Len(T) : k = 1 \/ (k - 1 \in 1 .. Len(B) /\ T[k] = B[k - 1])
  <2> SUFFICES ASSUME NEW k \in 1 .. Len(T), k # 1 PROVE k - 1 \in 1 .. Len(B) /\ T[k] = B[k - 1]
    OBVIOUS
  <2>1. k - 1 \in 1 .. Len(B) /\ (k - 1) + 1 = k
    BY <1>2, <1>3
  <2> QED BY <1>3, <2>1
<1>6. Forward(m.next, m.ready_head, R)
  <2>1. \A k \in 1 .. Len(R) : m.next[R[k]] = l.next[R[k]]
    BY <1>1, <1>2, <1>4
  <2> QED BY <1>4, <2>1 DEF Lists, Forward
<1>7. Backward(m.prev, m.ready_tail, R)
  BY <1>4 DEF Lists
<1>8. Forward(m.next, m.blocked_head, T)
  <2>1. ASSUME NEW k \in 1 .. Len(T)
        PROVE  m.next[T[k]] = IF k = Len(T) THEN NULL ELSE T[k + 1]
    <3>1. CASE k = 1
      <4>1. m.next[T[k]] = IF Len(B) = 0 THEN NULL ELSE B[1]
        BY <1>1, <1>3, <1>4, <3>1 DEF Lists, Forward
      <4>2. Len(B) # 0 => T[2] = B[1]
        BY <1>2, <1>3
      <4> QED BY <1>2, <1>3, <3>1, <4>1, <4>2
    <3>2. CASE k # 1
      <4>1. k - 1 \in 1 .. Len(B) /\ T[k] = B[k - 1]
        BY <1>5, <3>2
      <4>2. m.next[T[k]] = IF k - 1 = Len(B) THEN NULL ELSE B[(k - 1) + 1]
        BY <1>1, <1>2, <1>4, <4>1 DEF Lists, Forward
      <4>3. k # Len(T) => k \in 1 .. Len(B)
        BY <1>2, <1>3
      <4>4. k # Len(T) => T[k + 1] = B[k]
        BY <1>3, <4>3
      <4> QED BY <1>2, <1>3, <4>2, <4>4
    <3> QED BY <3>1, <3>2
  <2> QED BY <1>2, <1>3, <1>4, <2>1 DEF Forward
<1>9. Apart(R, T)
  BY <1>2, <1>3, <1>5 DEF Lists, Apart
<1> QED BY <1>3, <1>4, <1>6, <1>7, <1>8, <1>9 DEF Lists, m, T

\* The ends of the ready queue and the neighbours of its i-th entry, as links.
LEMMA ReadyLinks ==
  ASSUME NEW l, NEW R, NEW B, Lists(l, R, B), NEW i \in 1 .. Len(R)
  PROVE  /\ R[i] = l.ready_head <=> i = 1
         /\ R[i] = l.ready_tail <=> i = Len(R)
         /\ l.next[R[i]] = IF i = Len(R) THEN NULL ELSE R[i + 1]
         /\ l.prev[R[i]] = IF i = 1 THEN NULL ELSE R[i - 1]
         /\ i # Len(R) => i + 1 \in 1 .. Len(R) /\ R[i + 1] \in Slots /\ R[i + 1] # R[i]
         /\ i # 1 => i - 1 \in 1 .. Len(R) /\ R[i - 1] \in Slots /\ R[i - 1] # R[i]
         /\ R[i] \in Slots
<1>1. /\ R \in Seq(Slots) /\ Len(R) \in Nat /\ \A k \in 1 .. Len(R) : R[k] \in Slots
      /\ 1 \in 1 .. Len(R) /\ Len(R) \in 1 .. Len(R)
  BY LineFacts DEF Lists, Line
<1>2. l.ready_head = R[1] /\ l.ready_tail = R[Len(R)]
  BY <1>1 DEF Lists, Forward, Backward
<1>3. (R[i] = l.ready_head <=> i = 1) /\ (R[i] = l.ready_tail <=> i = Len(R))
  BY <1>1, <1>2 DEF Lists, Line
<1>4. i # Len(R) => i + 1 \in 1 .. Len(R) /\ i + 1 # i
  BY <1>1
<1>5. i # 1 => i - 1 \in 1 .. Len(R) /\ i - 1 # i
  BY <1>1
<1> QED BY <1>1, <1>3, <1>4, <1>5 DEF Lists, Line, Forward, Backward

\* What remove_from_ready_queue does to the links, whichever of its three cases
\* it takes.
LEMMA RemoveReadyLinks ==
  ASSUME NEW l, NEW R, NEW B, Lists(l, R, B), NEW i \in 1 .. Len(R)
  PROVE  LET m == remove_from_ready_queue(l, R[i])
             n == l.next[R[i]]
             b == l.prev[R[i]]
         IN  /\ m \in LinkType
             /\ m.next = [x \in Slots |-> IF x = R[i] THEN NULL
                                          ELSE IF x = b THEN n ELSE l.next[x]]
             /\ m.prev = [x \in Slots |-> IF x = R[i] THEN NULL
                                          ELSE IF x = n THEN b ELSE l.prev[x]]
             /\ m.ready_head = IF i = 1 THEN n ELSE l.ready_head
             /\ m.ready_tail = IF i = Len(R) THEN b ELSE l.ready_tail
             /\ m.blocked_head = l.blocked_head
<1> DEFINE p == R[i]
           n == l.next[p]
           b == l.prev[p]
           m == remove_from_ready_queue(l, p)
<1> USE NullIsNoSlot
<1>1. /\ l.next \in [Slots -> Pointers] /\ l.prev \in [Slots -> Pointers]
      /\ l.ready_head \in Pointers /\ l.ready_tail \in Pointers /\ l.blocked_head \in Pointers
      /\ l \in LinkType
  BY DEF Lists, LinkType
<1>2. /\ p = l.ready_head <=> i = 1
      /\ p = l.ready_tail <=> i = Len(R)
      /\ n = NULL <=> i = Len(R)
      /\ b = NULL <=> i = 1
      /\ n \in Pointers /\ b \in Pointers /\ n # p /\ b # p /\ p \in Slots
  BY <1>1, ReadyLinks
<1> HIDE DEF p
<1>3. CASE i = 1
  <2>1. m = Unlinked([l EXCEPT !.ready_head = n,
                               !.prev = SetLink(@, n, NULL),
                               !.ready_tail = IF n = NULL THEN NULL ELSE @], p)
    BY <1>2, <1>3 DEF remove_from_ready_queue
  <2>2. m = [next |-> [l.next EXCEPT ![p] = NULL],
             prev |-> [SetLink(l.prev, n, NULL) EXCEPT ![p] = NULL],
             ready_head |-> n, ready_tail |-> IF n = NULL THEN NULL ELSE l.ready_tail,
             blocked_head |-> l.blocked_head]
    BY <1>1, <2>1 DEF Unlinked, LinkType
  <2> QED BY <1>1, <1>2, <1>3, <2>2 DEF SetLink, p, LinkType
<1>4. CASE i # 1 /\ i = Len(R)
  <2>1. m = Unlinked([l EXCEPT !.ready_tail = b,
                                !.next = SetLink(@, b, NULL),
                                !.ready_head = IF b = NULL THEN NULL ELSE @], p)
    BY <1>2, <1>4 DEF remove_from_ready_queue
  <2>2. m = [next |-> [SetLink(l.next, b, NULL) EXCEPT ![p] = NULL],
             prev |-> [l.prev EXCEPT ![p] = NULL],
             ready_head |-> IF b = NULL THEN NULL ELSE l.ready_head, ready_tail |-> b,
             blocked_head |-> l.blocked_head]
    BY <1>1, <2>1 DEF Unlinked, LinkType
  <2> QED BY <1>1, <1>2, <1>4, <2>2 DEF SetLink, p, LinkType
<1>5. CASE i # 1 /\ i # Len(R)
  <2>1. m = Unlinked([l EXCEPT !.next = SetLink(@, b, n),
                                !.prev = SetLink(@, n, b)], p)
    BY <1>2, <1>5 DEF remove_from_ready_queue
  <2>2. m = [next |-> [SetLink(l.next, b, n) EXCEPT ![p] = NULL],
             prev |-> [SetLink(l.prev, n, b) EXCEPT ![p] = NULL],
             ready_head |-> l.ready_head, ready_tail |-> l.ready_tail,
             blocked_head |-> l.blocked_head]
    BY <1>1, <2>1 DEF Unlinked, LinkType
  <2> QED BY <1>1, <1>2, <1>5, <2>2 DEF SetLink, p, LinkType
<1> QED BY <1>3, <1>4, <1>5 DEF p

\* remove_from_ready_queue cuts the entry out, wherever it stands.
LEMMA RemoveReady ==
  ASSUME NEW l, NEW R, NEW B, Lists(l, R, B), NEW i \in 1 .. Len(R)
  PROVE  Lists(remove_from_ready_queue(l, R[i]), Cut(R, i), B)
<1> DEFINE m == remove_from_ready_queue(l, R[i])
           T == Cut(R, i)
<1> USE NullIsNoSlot
<1>0. /\ m \in LinkType
      /\ m.next = [x \in Slots |-> IF x = R[i] THEN NULL
                     ELSE IF x = l.prev[R[i]] THEN l.next[R[i]] ELSE l.next[x]]
      /\ m.prev = [x \in Slots |-> IF x = R[i] THEN NULL
                     ELSE IF x = l.next[R[i]] THEN l.prev[R[i]] ELSE l.prev[x]]
      /\ m.ready_head = IF i = 1 THEN l.next[R[i]] ELSE l.ready_head
      /\ m.ready_tail = IF i = Len(R) THEN l.prev[R[i]] ELSE l.ready_tail
      /\ m.blocked_head = l.blocked_head
  BY RemoveReadyLinks
<1>1. /\ R \in Seq(Slots) /\ Len(R) \in Nat /\ \A k \in 1 .. Len(R) : R[k] \in Slots
      /\ B \in Seq(Slots) /\ Len(B) \in Nat /\ \A k \in 1 .. Len(B) : B[k] \in Slots
  BY LineFacts DEF Lists, Line
<1>2. \A j, k \in 1 .. Len(R) : R[j] = R[k] <=> j = k
  BY DEF Lists, Line
<1>3. /\ Line(T) /\ Len(T) = Len(R) - 1
      /\ \A k \in 1 .. Len(T) : T[k] = IF k < i THEN R[k] ELSE R[k + 1]
  BY CutLine DEF Lists
<1>4. /\ m \in LinkType
      /\ \A k \in 1 .. Len(R) :
           /\ k # i => m.next[R[k]] = IF k = i - 1 THEN l.next[R[i]] ELSE l.next[R[k]]
           /\ k # i => m.prev[R[k]] = IF k = i + 1 THEN l.prev[R[i]] ELSE l.prev[R[k]]
      /\ m.ready_head = IF i = 1 THEN l.next[R[i]] ELSE l.ready_head
      /\ m.ready_tail = IF i = Len(R) THEN l.prev[R[i]] ELSE l.ready_tail
      /\ m.blocked_head = l.blocked_head
  <2>1. ASSUME NEW k \in 1 .. Len(R)
        PROVE  (R[k] = l.prev[R[i]] <=> k = i - 1) /\ (R[k] = l.next[R[i]] <=> k = i + 1)
    <3>1. i = 1 => l.prev[R[i]] = NULL /\ k # i - 1
      BY <1>1, ReadyLinks
    <3>2. i # 1 => l.prev[R[i]] = R[i - 1] /\ i - 1 \in 1 .. Len(R)
      BY <1>1, ReadyLinks
    <3>3. i = Len(R) => l.next[R[i]] = NULL /\ k # i + 1
      BY <1>1, ReadyLinks
    <3>4. i # Len(R) => l.next[R[i]] = R[i + 1] /\ i + 1 \in 1 .. Len(R)
      BY <1>1, ReadyLinks
    <3> QED BY <1>1, <1>2, <3>1, <3>2, <3>3, <3>4
  <2> HIDE DEF m
  <2> QED BY <1>0, <1>1, <1>2, <2>1
<1>5. \A k \in 1 .. Len(B) : m.next[B[k]] = l.next[B[k]]
  <2>1. \A k \in 1 .. Len(B) : B[k] # R[i] /\ B[k] # l.prev[R[i]]
    <3>1. l.prev[R[i]] = NULL \/ \E j \in 1 .. Len(R) : l.prev[R[i]] = R[j]
      BY ReadyLinks
    <3> QED BY <1>1, <3>1 DEF Lists, Apart
  <2> HIDE DEF m
  <2> QED BY <1>0, <1>1, <2>1
<1> HIDE DEF m, T
<1>6. \A k \in 1 .. Len(R) : /\ l.next[R[k]] = IF k = Len(R) THEN NULL ELSE R[k + 1]
                             /\ l.prev[R[k]] = IF k = 1 THEN NULL ELSE R[k - 1]
  BY DEF Lists, Forward, Backward
<1>7. l.ready_head = R[1] /\ l.ready_tail = R[Len(R)]
  BY <1>1 DEF Lists, Forward, Backward
<1>8. Forward(m.next, m.ready_head, T)
  <2>1. m.ready_head = IF Len(T) = 0 THEN NULL ELSE T[1]
    BY <1>1, <1>3, <1>4, <1>6, <1>7
  <2>2. ASSUME NEW k \in 1 .. Len(T)
        PROVE  m.next[T[k]] = IF k = Len(T) THEN NULL ELSE T[k + 1]
    <3>1. CASE k < i - 1
      <4>1. T[k] = R[k] /\ T[k + 1] = R[k + 1] /\ k # Len(T) /\ k \in 1 .. Len(R) /\ k # Len(R)
        BY <1>1, <1>3, <3>1
      <4>2. m.next[R[k]] = l.next[R[k]]
        BY <1>1, <1>4, <3>1, <4>1
      <4> QED BY <1>6, <4>1, <4>2
    <3>2. CASE k = i - 1
      <4>1. T[k] = R[k] /\ k \in 1 .. Len(R) /\ (k # Len(T) => T[k + 1] = R[i + 1])
            /\ (k = Len(T) <=> i = Len(R))
        BY <1>1, <1>3, <3>2
      <4>2. m.next[R[k]] = l.next[R[i]]
        BY <1>1, <1>4, <3>2, <4>1
      <4> QED BY <1>6, <4>1, <4>2
    <3>3. CASE k >= i
      <4>1. T[k] = R[k + 1] /\ k + 1 \in 1 .. Len(R) /\ (k # Len(T) => T[k + 1] = R[(k + 1) + 1])
            /\ (k = Len(T) <=> k + 1 = Len(R))
        BY <1>1, <1>3, <3>3
      <4>2. m.next[R[k + 1]] = l.next[R[k + 1]]
        BY <1>1, <1>4, <3>3, <4>1
      <4> QED BY <1>6, <4>1, <4>2
    <3> QED BY <1>1, <1>3, <3>1, <3>2, <3>3
  <2> QED BY <2>1, <2>2 DEF Forward
<1>9. Backward(m.prev, m.ready_tail, T)
  <2>1. m.ready_tail = IF Len(T) = 0 THEN NULL ELSE T[Len(T)]
    BY <1>1, <1>3, <1>4, <1>6, <1>7
  <2>2. ASSUME NEW k \in 1 .. Len(T)
        PROVE  m.prev[T[k]] = IF k = 1 THEN NULL ELSE T[k - 1]
    <3>1. CASE k < i
      <4>1. T[k] = R[k] /\ k \in 1 .. Len(R) /\ (k # 1 => T[k - 1] = R[k - 1])
        BY <1>1, <1>3, <3>1
      <4>2. m.prev[R[k]] = l.prev[R[k]]
        BY <1>1, <1>4, <3>1, <4>1
      <4> QED BY <1>6, <4>1, <4>2
    <3>2. CASE k = i
      <4>1. T[k] = R[i + 1] /\ i + 1 \in 1 .. Len(R) /\ (k # 1 => T[k - 1] = R[i - 1])
        BY <1>1, <1>3, <3>2
      <4>2. m.prev[R[i + 1]] = l.prev[R[i]]
        BY <1>1, <1>4, <4>1
      <4> QED BY <1>6, <3>2, <4>1, <4>2
    <3>3. CASE k > i
      <4>1. T[k] = R[k + 1] /\ k + 1 \in 1 .. Len(R) /\ T[k - 1] = R[(k + 1) - 1]
        BY <1>1, <1>3, <3>3
      <4>2. m.prev[R[k + 1]] = l.prev[R[k + 1]]
        BY <1>1, <1>4, <3>3, <4>1
      <4>3. k + 1 # 1 /\ k # 1
        BY <1>1, <3>3
      <4> QED BY <1>6, <4>1, <4>2, <4>3
    <3> QED BY <1>1, <1>3, <3>1, <3>2, <3>3
  <2> QED BY <2>1, <2>2 DEF Backward
<1>10. Forward(m.next, m.blocked_head, B)
  BY <1>4, <1>5 DEF Lists, Forward
<1>11. Apart(T, B)
  BY <1>1, <1>3 DEF Lists, Apart
<1> QED BY <1>3, <1>4, <1>8, <1>9, <1>10, <1>11 DEF Lists, m, T

\* The head leaves the ready queue.
LEMMA PopsHead ==
  ASSUME NEW l, NEW R, NEW B, Lists(l, R, B), Len(R) # 0
  PROVE  l.ready_head = R[1] /\ l.ready_head # NULL /\ Lists(PopReady(l), Cut(R, 1), B)
<1>1. 1 \in 1 .. Len(R)
  BY LineFacts DEF Lists, Line
<1>2. l.ready_head = R[1] /\ R[1] \in Slots
  BY <1>1, ReadyLinks
<1>3. PopReady(l) = remove_from_ready_queue(l, R[1])
  BY <1>2 DEF PopReady, remove_from_ready_queue
<1> QED BY <1>1, <1>2, <1>3, RemoveReady, NullIsNoSlot

-----------------------------------------------------------------------------
(* Reading a queue back *)

\* The size of an interval.
LEMMA Counting ==
  ASSUME NEW n \in Nat
  PROVE  /\ IsFiniteSet(1 .. n) /\ Cardinality(1 .. n) = n
         /\ IsFiniteSet(0 .. (n - 1)) /\ Cardinality(0 .. (n - 1)) = n
<1>1. IsFiniteSet(1 .. n) /\ Cardinality(1 .. n) = IF 1 > n THEN 0 ELSE n - 1 + 1
  BY FS_Interval, 1 \in Int, n \in Int
<1>2. /\ IsFiniteSet(0 .. (n - 1))
      /\ Cardinality(0 .. (n - 1)) = IF 0 > n - 1 THEN 0 ELSE (n - 1) - 0 + 1
  BY FS_Interval, 0 \in Int, n - 1 \in Int
<1> QED BY <1>1, <1>2

\* A line is no longer than the table.
LEMMA LineFits ==
  ASSUME NEW s, Line(s)
  PROVE  Len(s) \in 0 .. MaxCount
<1>1. s \in [1 .. Len(s) -> Slots] /\ Len(s) \in Nat /\ MaxCount \in Nat
  BY MaxCountAssumption DEF Line
<1>2. IsFiniteSet(1 .. Len(s)) /\ Cardinality(1 .. Len(s)) = Len(s)
  BY <1>1, Counting
<1>3. IsFiniteSet(Slots) /\ Cardinality(Slots) = MaxCount
  BY <1>1, Counting DEF Slots
<1>4. ~(MaxCount < Len(s))
  BY <1>1, <1>2, <1>3, FS_PigeonHole DEF Line
<1> QED BY <1>1, <1>4

\* A set of numbers that is not empty has a least element.
LEMMA Least ==
  ASSUME NEW T \in SUBSET Nat, T # {}
  PROVE  \E x \in T : \A y \in T : x <= y
<1> DEFINE Less == {pair \in Nat \X Nat : pair[1] < pair[2]}
<1>1. IsWellFoundedOn(Less, Nat)
  BY NatLessThanWellFounded DEF OpToRel
<1>2. PICK x \in T : \A y \in T : ~(<<y, x>> \in Less)
  <2> HIDE DEF Less
  <2> QED BY <1>1, WFMin
<1>3. ASSUME NEW y \in T PROVE x <= y
  <2>1. x \in Nat /\ y \in Nat /\ ~(<<y, x>> \in Less)
    BY <1>2, <1>3
  <2> QED BY <2>1
<1> QED BY <1>3

\* Following the links from the head finds the sequence they thread, and NULL
\* behind its end.
LEMMA NthOfList ==
  ASSUME NEW l, NEW head, NEW s, Line(s), Forward(l.next, head, s)
  PROVE  Nth(l, head) = [k \in 0 .. MaxCount |-> IF k < Len(s) THEN s[k + 1] ELSE NULL]
<1> DEFINE F == [k \in 0 .. MaxCount |-> IF k < Len(s) THEN s[k + 1] ELSE NULL]
           Body(g) == [k \in 0 .. MaxCount |->
                         IF k = 0 THEN head
                         ELSE IF g[k - 1] = NULL THEN NULL ELSE l.next[g[k - 1]]]
<1> USE NullIsNoSlot
<1>1. /\ s \in Seq(Slots) /\ Len(s) \in Nat /\ \A k \in 1 .. Len(s) : s[k] \in Slots
      /\ MaxCount \in Nat
  BY LineFacts, MaxCountAssumption DEF Line
<1>2. head = IF Len(s) = 0 THEN NULL ELSE s[1]
  BY DEF Forward
<1>3. \A k \in 1 .. Len(s) : l.next[s[k]] = IF k = Len(s) THEN NULL ELSE s[k + 1]
  BY DEF Forward
<1>4. ASSUME NEW k \in 0 .. MaxCount, k # 0
      PROVE  F[k] = IF F[k - 1] = NULL THEN NULL ELSE l.next[F[k - 1]]
  <2>1. k - 1 \in 0 .. MaxCount /\ (k - 1) + 1 = k /\ k \in Nat
    BY <1>1, <1>4
  <2>2. CASE k < Len(s)
    <3>1. F[k - 1] = s[k] /\ F[k] = s[k + 1] /\ k \in 1 .. Len(s) /\ k # Len(s)
      BY <1>1, <1>4, <2>1, <2>2
    <3> QED BY <1>1, <1>3, <3>1
  <2>3. CASE k = Len(s)
    <3>1. F[k - 1] = s[k] /\ F[k] = NULL /\ k \in 1 .. Len(s) /\ k = Len(s)
      BY <1>1, <1>4, <2>1, <2>3
    <3> QED BY <1>1, <1>3, <3>1
  <2>4. CASE k > Len(s)
    BY <1>1, <1>4, <2>1, <2>4
  <2> QED BY <1>1, <2>1, <2>2, <2>3, <2>4
<1>5. F[0] = head
  BY <1>1, <1>2
<1>6. F = Body(F)
  <2> HIDE DEF F
  <2>1. F = [k \in 0 .. MaxCount |-> F[k]]
    BY DEF F
  <2> QED BY <1>4, <1>5, <2>1
<1>7. ASSUME NEW g, g = Body(g) PROVE g = F
  <2> DEFINE T == {k \in 0 .. MaxCount : g[k] # F[k]}
  <2>1. ASSUME NEW k \in 0 .. MaxCount, k # 0
        PROVE  g[k] = IF g[k - 1] = NULL THEN NULL ELSE l.next[g[k - 1]]
    BY <1>7, <2>1
  <2>2. g[0] = head
    BY <1>1, <1>7
  <2>3. ASSUME NEW x \in T, \A y \in T : x <= y PROVE FALSE
    <3> HIDE DEF F
    <3>1. x \in 0 .. MaxCount /\ g[x] # F[x] /\ x # 0
      BY <1>5, <2>2
    <3>2. x - 1 \in 0 .. MaxCount /\ ~(x <= x - 1)
      BY <1>1, <3>1
    <3>3. g[x - 1] = F[x - 1]
      BY <2>3, <3>2
    <3> QED BY <1>4, <2>1, <3>1, <3>3
  <2>4. T \in SUBSET Nat
    BY <1>1
  <2>5. T = {}
    <3> HIDE DEF T
    <3> QED BY <2>3, <2>4, Least
  <2>6. g = [k \in 0 .. MaxCount |-> g[k]] /\ F = [k \in 0 .. MaxCount |-> F[k]]
    BY <1>7
  <2>7. \A k \in 0 .. MaxCount : g[k] = F[k]
    <3> HIDE DEF F
    <3> QED BY <2>5
  <2> HIDE DEF F
  <2> QED BY <2>6, <2>7
<1>8. Nth(l, head) = CHOOSE g : g = Body(g)
  BY Zenon DEF Nth
<1> HIDE DEF F, Body
<1>9. (CHOOSE g : g = Body(g)) = F
  BY <1>6, <1>7, Zenon
<1> QED BY <1>8, <1>9 DEF F

\* So the queue ends, its elements are the members of the sequence, and the walk
\* is the sequence.
LEMMA ListRead ==
  ASSUME NEW l, NEW head, NEW s, Line(s), Forward(l.next, head, s)
  PROVE  /\ Ends(l, head)
         /\ Elements(l, head) = Members(s)
         /\ Walk(l, head) = s
<1> DEFINE F == [k \in 0 .. MaxCount |-> IF k < Len(s) THEN s[k + 1] ELSE NULL]
<1> USE NullIsNoSlot
<1>1. /\ s \in Seq(Slots) /\ Len(s) \in 0 .. MaxCount /\ \A k \in 1 .. Len(s) : s[k] \in Slots
      /\ MaxCount \in Nat /\ DOMAIN s = 1 .. Len(s) /\ Len(s) \in Nat
  BY LineFacts, LineFits, MaxCountAssumption DEF Line
<1>2. Nth(l, head) = F
  BY NthOfList
<1>3. Ends(l, head)
  BY <1>1, <1>2 DEF Ends
<1>4. Elements(l, head) = Members(s)
  <2>1. ASSUME NEW k \in 0 .. (MaxCount - 1), F[k] # NULL PROVE F[k] \in Members(s)
    <3>1. k < Len(s) /\ F[k] = s[k + 1] /\ k + 1 \in 1 .. Len(s)
      BY <1>1, <2>1
    <3> QED BY <3>1 DEF Members
  <2>2. ASSUME NEW k \in 1 .. Len(s)
        PROVE  k - 1 \in 0 .. (MaxCount - 1) /\ F[k - 1] = s[k] /\ s[k] # NULL
    BY <1>1, <2>2
  <2> HIDE DEF F
  <2> QED BY <1>2, <2>1, <2>2 DEF Elements, Members
<1>5. Walk(l, head) = s
  <2>1. {k \in 0 .. (MaxCount - 1) : F[k] # NULL} = 0 .. (Len(s) - 1)
    <3>1. ASSUME NEW k \in 0 .. (MaxCount - 1) PROVE F[k] # NULL <=> k < Len(s)
      BY <1>1, <3>1
    <3> HIDE DEF F
    <3> QED BY <1>1, <3>1
  <2>2. Cardinality(0 .. (Len(s) - 1)) = Len(s)
    BY <1>1, Counting
  <2>3. ASSUME NEW k \in 1 .. Len(s) PROVE F[k - 1] = s[k]
    BY <1>1, <2>3
  <2> HIDE DEF F
  <2>4. Walk(l, head) = [k \in 1 .. Len(s) |-> F[k - 1]]
    BY <1>2, <2>1, <2>2, Zenon DEF Walk
  <2>5. s = [k \in 1 .. Len(s) |-> s[k]]
    BY <1>1
  <2> QED BY <2>3, <2>4, <2>5
<1> QED BY <1>3, <1>4, <1>5

\* remove_from_blocked_queue cuts the entry out, wherever it stands.
LEMMA RemoveBlocked ==
  ASSUME NEW l, NEW R, NEW B, Lists(l, R, B), NEW i \in 1 .. Len(B)
  PROVE  Lists(remove_from_blocked_queue(l, B[i]), R, Cut(B, i))
<1> DEFINE p == B[i]
           m == remove_from_blocked_queue(l, p)
           T == Cut(B, i)
           before == {b \in Elements(l, l.blocked_head) : l.next[b] = p}
<1> USE NullIsNoSlot
<1>1. /\ R \in Seq(Slots) /\ Len(R) \in Nat /\ \A k \in 1 .. Len(R) : R[k] \in Slots
      /\ B \in Seq(Slots) /\ Len(B) \in Nat /\ \A k \in 1 .. Len(B) : B[k] \in Slots
      /\ p \in Slots
  BY LineFacts DEF Lists, Line
<1>2. /\ l.next \in [Slots -> Pointers] /\ l \in LinkType /\ l.prev \in [Slots -> Pointers]
      /\ l.ready_head \in Pointers /\ l.ready_tail \in Pointers /\ l.blocked_head \in Pointers
  BY DEF Lists, LinkType
<1>3. \A j, k \in 1 .. Len(B) : B[j] = B[k] <=> j = k
  BY DEF Lists, Line
<1>4. \A k \in 1 .. Len(B) : l.next[B[k]] = IF k = Len(B) THEN NULL ELSE B[k + 1]
  BY DEF Lists, Forward
<1>5. l.blocked_head = B[1] /\ 1 \in 1 .. Len(B)
  BY <1>1 DEF Lists, Forward
<1>6. Elements(l, l.blocked_head) = Members(B)
  BY ListRead DEF Lists
<1>7. ASSUME NEW k \in 1 .. Len(B) PROVE l.next[B[k]] = p <=> k = i - 1
  <2>1. CASE k = Len(B)
    BY <1>1, <1>4, <2>1
  <2>2. CASE k # Len(B)
    <3>1. k + 1 \in 1 .. Len(B) /\ l.next[B[k]] = B[k + 1]
      BY <1>1, <1>4, <2>2
    <3>2. B[k + 1] = p <=> k + 1 = i
      BY <1>3, <3>1
    <3> QED BY <1>1, <3>1, <3>2
  <2> QED BY <2>1, <2>2
<1>8. /\ m \in LinkType
      /\ m.next = IF i = 1 THEN [l.next EXCEPT ![p] = NULL]
                  ELSE [l.next EXCEPT ![B[i - 1]] = l.next[p], ![p] = NULL]
      /\ m.prev = l.prev
      /\ m.ready_head = l.ready_head /\ m.ready_tail = l.ready_tail
      /\ m.blocked_head = IF i = 1 THEN l.next[p] ELSE l.blocked_head
  <2>1. CASE i = 1
    <3>1. m = [l EXCEPT !.blocked_head = l.next[p], !.next[p] = NULL]
      BY <1>5, <2>1 DEF remove_from_blocked_queue
    <3>2. l.next[p] \in Pointers
      BY <1>1, <1>2
    <3> HIDE DEF p, m
    <3> QED BY <1>1, <1>2, <2>1, <3>1, <3>2 DEF LinkType
  <2>2. CASE i # 1
    <3>1. i - 1 \in 1 .. Len(B) /\ B[i - 1] \in Slots
      BY <1>1, <2>2
    <3>2. before = {B[i - 1]}
      <4>1. B[i - 1] \in before
        BY <1>6, <1>7, <3>1 DEF Members
      <4>2. ASSUME NEW b \in before PROVE b = B[i - 1]
        <5>1. PICK k \in 1 .. Len(B) : b = B[k]
          BY <1>6, <4>2 DEF Members
        <5> QED BY <1>7, <4>2, <5>1
      <4> HIDE DEF before
      <4> QED BY <4>1, <4>2
    <3>3. p # l.blocked_head
      BY <1>3, <1>5, <2>2
    <3>4. m = [l EXCEPT !.next = [@ EXCEPT ![CHOOSE x \in before : TRUE] = l.next[p], ![p] = NULL]]
      <4>1. before # {}
        BY <3>2
      <4> QED BY <3>3, <4>1, Zenon DEF remove_from_blocked_queue
    <3>5. (CHOOSE x \in before : TRUE) = B[i - 1]
      <4> HIDE DEF before
      <4> QED BY <3>2
    <3>6. l.next[p] \in Pointers
      BY <1>1, <1>2
    <3>7. m = [l EXCEPT !.next = [@ EXCEPT ![B[i - 1]] = l.next[p], ![p] = NULL]]
      <4> HIDE DEF before, m, p
      <4> QED BY <3>4, <3>5
    <3> HIDE DEF p, m, before
    <3> QED BY <1>1, <1>2, <2>2, <3>1, <3>6, <3>7 DEF LinkType
  <2> QED BY <2>1, <2>2
<1>9. /\ Line(T) /\ Len(T) = Len(B) - 1
      /\ \A k \in 1 .. Len(T) : T[k] = IF k < i THEN B[k] ELSE B[k + 1]
  BY CutLine DEF Lists
<1> HIDE DEF m, T, before
<1>10. \A k \in 1 .. Len(B) : k # i => m.next[B[k]] = IF k = i - 1 THEN l.next[p] ELSE l.next[B[k]]
  <2> SUFFICES ASSUME NEW k \in 1 .. Len(B), k # i
               PROVE  m.next[B[k]] = IF k = i - 1 THEN l.next[p] ELSE l.next[B[k]]
    OBVIOUS
  <2>1. B[k] # p /\ B[k] \in Slots
    BY <1>1, <1>3
  <2>2. i # 1 => i - 1 \in 1 .. Len(B) /\ (B[k] = B[i - 1] <=> k = i - 1) /\ B[i - 1] \in Slots
    BY <1>1, <1>3
  <2>3. i = 1 => k # i - 1
    BY <1>1
  <2> HIDE DEF p
  <2> QED BY <1>2, <1>8, <2>1, <2>2, <2>3
<1>11. \A k \in 1 .. Len(R) : m.next[R[k]] = l.next[R[k]]
  <2> SUFFICES ASSUME NEW k \in 1 .. Len(R) PROVE m.next[R[k]] = l.next[R[k]]
    OBVIOUS
  <2>1. R[k] # p /\ (i # 1 => R[k] # B[i - 1]) /\ R[k] \in Slots
    <3>1. i # 1 => i - 1 \in 1 .. Len(B)
      BY <1>1
    <3> QED BY <1>1, <3>1 DEF Lists, Apart
  <2> HIDE DEF p
  <2> QED BY <1>1, <1>2, <1>8, <2>1
<1>12. Forward(m.next, m.blocked_head, T)
  <2>1. m.blocked_head = IF Len(T) = 0 THEN NULL ELSE T[1]
    BY <1>1, <1>4, <1>5, <1>8, <1>9
  <2>2. ASSUME NEW k \in 1 .. Len(T)
        PROVE  m.next[T[k]] = IF k = Len(T) THEN NULL ELSE T[k + 1]
    <3>1. CASE k < i - 1
      <4>1. T[k] = B[k] /\ T[k + 1] = B[k + 1] /\ k # Len(T) /\ k \in 1 .. Len(B) /\ k # Len(B)
        BY <1>1, <1>9, <3>1
      <4>2. m.next[B[k]] = l.next[B[k]]
        BY <1>1, <1>10, <3>1, <4>1
      <4> QED BY <1>4, <4>1, <4>2
    <3>2. CASE k = i - 1
      <4>1. T[k] = B[k] /\ k \in 1 .. Len(B) /\ (k # Len(T) => T[k + 1] = B[i + 1])
            /\ (k = Len(T) <=> i = Len(B))
        BY <1>1, <1>9, <3>2
      <4>2. m.next[B[k]] = l.next[B[i]]
        BY <1>1, <1>10, <3>2, <4>1
      <4> QED BY <1>4, <4>1, <4>2
    <3>3. CASE k >= i
      <4>1. T[k] = B[k + 1] /\ k + 1 \in 1 .. Len(B) /\ (k # Len(T) => T[k + 1] = B[(k + 1) + 1])
            /\ (k = Len(T) <=> k + 1 = Len(B))
        BY <1>1, <1>9, <3>3
      <4>2. m.next[B[k + 1]] = l.next[B[k + 1]]
        BY <1>1, <1>10, <3>3, <4>1
      <4> QED BY <1>4, <4>1, <4>2
    <3> QED BY <1>1, <1>9, <3>1, <3>2, <3>3
  <2> QED BY <2>1, <2>2 DEF Forward
<1>13. Forward(m.next, m.ready_head, R) /\ Backward(m.prev, m.ready_tail, R)
  BY <1>8, <1>11 DEF Lists, Forward
<1>14. Apart(R, T)
  BY <1>1, <1>9 DEF Lists, Apart
<1> QED BY <1>8, <1>9, <1>12, <1>13, <1>14 DEF Lists, m, T, p

-----------------------------------------------------------------------------
(* The inductive invariant *)

States == {"NEW", "READY", "RUNNING", "BLOCKED", "TERMINATED"}

TypeOK ==
  /\ pid \in [Slots -> Nat]
  /\ state \in [Slots -> States]
  /\ page_table \in [Slots -> Spaces \cup {NoSpace}]
  /\ next_pid \in Nat \ {0}

\* What the table says of the entries, the current process and the members of the
\* queues.  The idle entry carries process ID 0, like a free entry, and is never
\* blocked; while another process runs it waits in the ready queue, which is why
\* that queue is never empty when the running process blocks or ends.
Table(R, B) ==
  /\ TypeOK
  /\ current \in Slots /\ current \notin Members(R) \cup Members(B)
  /\ pid[idle] = 0 /\ state[idle] \in {"READY", "RUNNING"} /\ idle \notin Members(B)
  /\ current # idle => /\ state[current] = "RUNNING"
                       /\ pid[current] # 0
                       /\ idle \in Members(R)
  /\ \A s \in Slots \ {idle, current} :
       /\ s \in Members(R) <=> state[s] = "READY"
       /\ s \in Members(B) <=> state[s] = "BLOCKED"
       /\ state[s] # "RUNNING"
       /\ pid[s] = 0 => state[s] = "NEW"

\* The page tables of the entries that carry an ID are allocated and nobody
\* else's; an entry whose creation failed may still name page tables given back.
Memory ==
  /\ spaces \subseteq Spaces
  /\ cr3 \in spaces \cup {KernelSpace}
  /\ page_table[idle] = NoSpace
  /\ \A s \in Slots : pid[s] # 0 => page_table[s] \in spaces \cup {NoSpace}
  /\ \A s, t \in Slots :
       (pid[s] # 0 /\ pid[t] # 0 /\ s # t /\ page_table[s] = page_table[t])
         => page_table[s] = NoSpace

Good(R, B) == Lists(q, R, B) /\ Table(R, B) /\ Memory

Inv == \E R, B : Good(R, B)

\* The table when the process that ran has been put where it belongs and nobody
\* runs: the states `st' and the queues R and B agree on every entry.
Waits(st, R, B) ==
  /\ st \in [Slots -> States]
  /\ idle \in Members(R) /\ idle \notin Members(B) /\ st[idle] \in {"READY", "RUNNING"}
  /\ \A s \in Slots \ {idle} :
       /\ s \in Members(R) <=> st[s] = "READY"
       /\ s \in Members(B) <=> st[s] = "BLOCKED"
       /\ st[s] # "RUNNING"
       /\ pid[s] = 0 => st[s] = "NEW"

-----------------------------------------------------------------------------
(* Every step keeps the invariant *)

\* The idle entry is a slot, for any size of the table.
LEMMA IdleIsSlot == idle \in Slots
BY MaxCountAssumption DEF idle, Slots

\* The queues can be read back from the links.
LEMMA GoodRead ==
  ASSUME NEW R, NEW B, Good(R, B)
  PROVE  Ready = R /\ ReadySet = Members(R) /\ BlockedSet = Members(B)
BY ListRead DEF Good, Lists, Ready, ReadySet, BlockedSet

\* The same after a step.
LEMMA GoodReadNext ==
  ASSUME NEW R, NEW B, Good(R, B)'
  PROVE  Ready' = R /\ ReadySet' = Members(R) /\ BlockedSet' = Members(B)
<1>1. Lists(q', R, B)
  BY DEF Good
<1> QED BY <1>1, ListRead DEF Lists, Ready, ReadySet, BlockedSet

\* schedule_next takes the first process of the ready queue, if it is not empty.
LEMMA Scheduled ==
  ASSUME NEW l, NEW R, NEW B, Lists(l, R, B), Members(R) # {},
         NEW st, NEW cur, NEW pt, schedule_next(l, st, cur, pt)
  PROVE  /\ R # <<>> /\ Head(R) \in Members(R) /\ Head(R) \in Slots
         /\ Lists(q', Tail(R), B) /\ Members(Tail(R)) = Members(R) \ {Head(R)}
         /\ current' = Head(R)
         /\ state' = IF Head(R) = cur THEN st ELSE SwitchStates(st, cur, Head(R))
         /\ cr3' = IF Head(R) = cur THEN cr3 ELSE Switched(pt[Head(R)])
<1>1. Line(R) /\ R \in Seq(Slots) /\ Len(R) \in Nat /\ Len(R) # 0
  BY LineFacts DEF Lists, Line, Members
<1>2. 1 \in 1 .. Len(R)
  BY <1>1
<1>3. R # <<>> /\ Cut(R, 1) = Tail(R) /\ R[1] = Head(R)
  BY <1>1, CutFirst
<1>4. Head(R) \in Members(R) /\ Members(R) \subseteq Slots
  BY <1>1, <1>2, <1>3, LineFacts DEF Members
<1>5. Members(Tail(R)) = Members(R) \ {Head(R)}
  <2>1. Members(Cut(R, 1)) = Members(R) \ {R[1]}
    BY <1>1, <1>2, CutLine
  <2> QED BY <1>3, <2>1
<1>6. l.ready_head = Head(R) /\ l.ready_head # NULL /\ Lists(PopReady(l), Tail(R), B)
  BY <1>1, <1>3, PopsHead
<1>7. /\ q' = PopReady(l) /\ current' = Head(R)
      /\ state' = IF Head(R) = cur THEN st ELSE SwitchStates(st, cur, Head(R))
      /\ cr3' = IF Head(R) = cur THEN cr3 ELSE Switched(pt[Head(R)])
  BY <1>6 DEF schedule_next
<1> QED BY <1>3, <1>4, <1>5, <1>6, <1>7

\* Then the table agrees with the queues again.
LEMMA Dispatched ==
  ASSUME NEW l, NEW R, NEW B, Lists(l, R, B), TypeOK,
         NEW st, NEW cur, NEW pt, Waits(st, R, B), pid[idle] = 0,
         schedule_next(l, st, cur, pt), Head(R) = cur => cur = idle,
         pid' = pid, next_pid' = next_pid,
         page_table' \in [Slots -> Spaces \cup {NoSpace}]
  PROVE  Lists(q', Tail(R), B) /\ Table(Tail(R), B)'
<1> DEFINE h == Head(R)
           T == Tail(R)
<1>1. /\ h \in Members(R) /\ h \in Slots
      /\ Lists(q', T, B) /\ Members(T) = Members(R) \ {h}
      /\ current' = h
      /\ state' = IF h = cur THEN st ELSE SwitchStates(st, cur, h)
  BY Scheduled DEF Waits
<1>2. \A s \in Members(R) : s \notin Members(B)
  BY DEF Lists, Apart, Members
<1> HIDE DEF h, T
<1>3. /\ state' \in [Slots -> States]
      /\ \A s \in Slots \ {h} : s # idle => state'[s] = st[s]
      /\ h # idle => state'[h] = "RUNNING"
      /\ state'[idle] \in {"READY", "RUNNING"}
  <2>1. CASE h = cur
    BY <1>1, <2>1 DEF Waits, h
  <2>2. CASE h # cur
    <3>1. state' = SwitchStates(st, cur, h)
      BY <1>1, <2>2
    <3>2. /\ st \in [Slots -> States] /\ st[idle] \in {"READY", "RUNNING"}
          /\ \A s \in Slots \ {idle} : st[s] # "RUNNING"
      BY DEF Waits
    <3> QED BY <1>1, <3>1, <3>2, IdleIsSlot DEF SwitchStates, States
  <2> QED BY <2>1, <2>2
<1>4. TypeOK'
  BY <1>3 DEF TypeOK
<1>5. current' \in Slots /\ current' \notin Members(T) \cup Members(B)
  BY <1>1, <1>2
<1>6. current' # idle => state'[current'] = "RUNNING" /\ pid'[current'] # 0 /\ idle \in Members(T)
  <2> SUFFICES ASSUME h # idle PROVE state'[h] = "RUNNING" /\ pid'[h] # 0 /\ idle \in Members(T)
    BY <1>1
  <2> QED BY <1>1, <1>3 DEF Waits
<1>7. \A s \in Slots \ {idle, current'} :
        /\ s \in Members(T) <=> state'[s] = "READY"
        /\ s \in Members(B) <=> state'[s] = "BLOCKED"
        /\ state'[s] # "RUNNING"
        /\ pid'[s] = 0 => state'[s] = "NEW"
  BY <1>1, <1>3 DEF Waits
<1>8. Table(T, B)'
  BY <1>3, <1>4, <1>5, <1>6, <1>7 DEF Waits, Table
<1> QED BY <1>1, <1>8 DEF T

\* A process switched to has page tables that are allocated, or none of its own.
LEMMA SwitchedAlive ==
  ASSUME Memory, NEW h \in Slots, pid[h] # 0 \/ h = idle
  PROVE  Switched(page_table[h]) \in spaces \cup {KernelSpace}
BY DEF Memory, Switched

\* process_yield sends the current process to the end of the line.
LEMMA YieldStep ==
  ASSUME NEW R, NEW B, Good(R, B), process_yield
  PROVE  Inv' /\ Scheduler!Yield
<1>0. PICK A : A = Append(R, current)
  OBVIOUS
<1> DEFINE st == [state EXCEPT ![current] = "READY"]
           l == add_to_ready_queue(q, current)
<1>1. Lists(q, R, B) /\ Table(R, B) /\ Memory /\ TypeOK
  BY DEF Good, Table
<1>2. /\ Line(A) /\ Len(A) = Len(R) + 1 /\ Members(A) = Members(R) \cup {current}
      /\ \A k \in 1 .. Len(R) : A[k] = R[k]
  BY <1>0, <1>1, AppendLine DEF Lists, Table
<1>3. Lists(l, A, B)
  BY <1>0, <1>1, AddReady DEF Table
<1>4. schedule_next(l, st, current, page_table)
      /\ UNCHANGED <<pid, page_table, next_pid, spaces>>
  BY DEF process_yield
<1>5. Waits(st, A, B)
  BY <1>1, <1>2, IdleIsSlot DEF Table, Waits, TypeOK, States
<1> HIDE DEF l, st
<1>6. Head(A) = current => current = idle
  <2> SUFFICES ASSUME current # idle PROVE Head(A) # current
    OBVIOUS
  <2>1. R \in Seq(Slots) /\ Len(R) \in Nat /\ A \in Seq(Slots)
    BY <1>1, <1>2 DEF Lists, Line
  <2>2. idle \in Members(R) /\ current \notin Members(R)
    BY <1>1 DEF Table
  <2>3. Len(R) # 0 /\ 1 \in 1 .. Len(R) /\ Len(A) # 0
    BY <1>2, <2>1, <2>2 DEF Members
  <2>4. Head(A) = A[1] /\ A[1] = R[1]
    BY <1>2, <2>1, <2>3, CutFirst
  <2> QED BY <2>2, <2>3, <2>4 DEF Members
<1>7. Lists(q', Tail(A), B) /\ Table(Tail(A), B)'
  <2>1. page_table' \in [Slots -> Spaces \cup {NoSpace}]
    BY <1>1, <1>4 DEF TypeOK
  <2>2. pid[idle] = 0
    BY <1>1 DEF Table
  <2> QED BY <1>1, <1>3, <1>4, <1>5, <1>6, <2>1, <2>2, Dispatched
<1>8. /\ A # <<>> /\ Head(A) \in Members(A) /\ Head(A) \in Slots /\ current' = Head(A)
      /\ cr3' = IF Head(A) = current THEN cr3 ELSE Switched(page_table[Head(A)])
  BY <1>2, <1>3, <1>4, Scheduled
<1>9. Memory'
  <2>1. cr3' \in spaces \cup {KernelSpace}
    <3>1. CASE Head(A) = current
      BY <1>1, <1>8, <3>1 DEF Memory
    <3>2. CASE Head(A) # current
      <4>1. Head(A) # idle => pid[Head(A)] # 0
        BY <1>1, <1>2, <1>8, <3>2 DEF Table
      <4> QED BY <1>1, <1>8, <3>2, <4>1, SwitchedAlive
    <3> QED BY <3>1, <3>2
  <2> QED BY <1>1, <1>4, <2>1 DEF Memory
<1>10. Good(Tail(A), B)'
  BY <1>7, <1>9 DEF Good
<1>11. Ready = R /\ BlockedSet = Members(B) /\ Ready' = Tail(A) /\ BlockedSet' = Members(B)
  BY <1>10, GoodRead, GoodReadNext
<1>12. Scheduler!Yield
  BY <1>0, <1>8, <1>11 DEF Scheduler!Yield, Scheduler!Dispatch
<1> QED BY <1>10, <1>12 DEF Inv

\* process_block puts the current process into the blocked queue.
LEMMA BlockStep ==
  ASSUME NEW R, NEW B, Good(R, B), process_block
  PROVE  Inv' /\ Scheduler!Block
<1>0. PICK C : C = <<current>> \o B
  OBVIOUS
<1> DEFINE st == [state EXCEPT ![current] = "BLOCKED"]
           l == add_to_blocked_queue(q, current)
<1>1. Lists(q, R, B) /\ Table(R, B) /\ Memory /\ TypeOK
  BY DEF Good, Table
<1>2. Line(C) /\ Members(C) = Members(B) \cup {current}
  BY <1>0, <1>1, PrependLine DEF Lists, Table
<1>3. Lists(l, R, C)
  BY <1>0, <1>1, AddBlocked DEF Table
<1>4. schedule_next(l, st, current, page_table) /\ current # idle
      /\ UNCHANGED <<pid, page_table, next_pid, spaces>>
  BY DEF process_block
<1>5. Waits(st, R, C)
  BY <1>1, <1>2, <1>4, IdleIsSlot DEF Table, Waits, TypeOK, States
<1> HIDE DEF l, st
<1>6. /\ R # <<>> /\ Head(R) \in Members(R) /\ Head(R) \in Slots /\ current' = Head(R)
      /\ cr3' = IF Head(R) = current THEN cr3 ELSE Switched(page_table[Head(R)])
  BY <1>3, <1>4, <1>5, Scheduled DEF Waits
<1>7. Head(R) # current
  BY <1>1, <1>6 DEF Table
<1>8. Lists(q', Tail(R), C) /\ Table(Tail(R), C)'
  <2>1. page_table' \in [Slots -> Spaces \cup {NoSpace}]
    BY <1>1, <1>4 DEF TypeOK
  <2>2. pid[idle] = 0
    BY <1>1 DEF Table
  <2> QED BY <1>1, <1>3, <1>4, <1>5, <1>7, <2>1, <2>2, Dispatched
<1>9. Memory'
  <2>1. cr3' \in spaces \cup {KernelSpace}
    <3>1. Head(R) # idle => pid[Head(R)] # 0
      BY <1>1, <1>6, <1>7 DEF Table
    <3> QED BY <1>1, <1>6, <1>7, <3>1, SwitchedAlive
  <2> QED BY <1>1, <1>4, <2>1 DEF Memory
<1>10. Good(Tail(R), C)'
  BY <1>8, <1>9 DEF Good
<1>11. Ready = R /\ BlockedSet = Members(B) /\ Ready' = Tail(R) /\ BlockedSet' = Members(C)
  BY <1>10, GoodRead, GoodReadNext
<1>12. Scheduler!Block
  BY <1>2, <1>4, <1>6, <1>11 DEF Scheduler!Block, Scheduler!Dispatch
<1> QED BY <1>10, <1>12 DEF Inv

\* The entry process_get_by_id returns carries its index as its ID.
LEMMA GetById ==
  ASSUME NEW p \in 0 .. MaxPid, process_get_by_id(p) # NULL
  PROVE  process_get_by_id(p) = p /\ p \in Slots /\ pid[p] = p
BY BoundsAssumption, MaxCountAssumption DEF process_get_by_id, Slots

\* An entry is in the queue its state names.
LEMMA InQueue ==
  ASSUME NEW R, NEW B, Table(R, B), NEW s \in Slots, s # idle, s # current
  PROVE  /\ state[s] = "READY" => \E i \in 1 .. Len(R) : s = R[i]
         /\ state[s] = "BLOCKED" => \E i \in 1 .. Len(B) : s = B[i]
         /\ state[s] \notin {"READY", "BLOCKED"} => s \notin Members(R) \cup Members(B)
BY DEF Table, Members

\* process_unblock moves a process from one queue to the other.
LEMMA UnblockStep ==
  ASSUME NEW R, NEW B, Good(R, B), NEW p \in 0 .. MaxPid, process_unblock(p)
  PROVE  Inv' /\ \E s \in Slots : Scheduler!Unblock(s)
<1>1. Lists(q, R, B) /\ Table(R, B) /\ Memory /\ TypeOK
  BY DEF Good, Table
<1>2. /\ p \in Slots /\ state[p] = "BLOCKED"
      /\ q' = add_to_ready_queue(remove_from_blocked_queue(q, p), p)
      /\ state' = [state EXCEPT ![p] = "READY"]
      /\ UNCHANGED <<pid, page_table, current, next_pid, spaces, cr3>>
  BY GetById DEF process_unblock
<1>3. p # idle /\ p # current
  BY <1>1, <1>2 DEF Table
<1>4. PICK i \in 1 .. Len(B) : p = B[i]
  BY <1>1, <1>2, <1>3, InQueue
<1> DEFINE C == Cut(B, i)
           A == Append(R, p)
<1>5. Members(C) = Members(B) \ {p} /\ p \in Members(B)
  BY <1>1, <1>4, CutLine DEF Lists, Members
<1>6. p \notin Members(R)
  BY <1>1, <1>2, <1>3 DEF Table
<1>7. Lists(remove_from_blocked_queue(q, p), R, C)
  BY <1>1, <1>4, RemoveBlocked
<1>8. Members(A) = Members(R) \cup {p}
  BY <1>1, <1>2, <1>6, AppendLine DEF Lists
<1> HIDE DEF C, A
<1>9. Lists(q', A, C)
  BY <1>2, <1>5, <1>6, <1>7, AddReady DEF A
<1>10. Table(A, C)'
  <2>1. TypeOK'
    BY <1>1, <1>2 DEF TypeOK, States
  <2> QED BY <1>1, <1>2, <1>3, <1>5, <1>8, <2>1, IdleIsSlot DEF Table, TypeOK
<1>11. Memory'
  BY <1>1, <1>2 DEF Memory
<1>12. Good(A, C)'
  BY <1>9, <1>10, <1>11 DEF Good
<1>13. /\ Ready = R /\ BlockedSet = Members(B)
       /\ Ready' = Append(R, p) /\ BlockedSet' = Members(B) \ {p}
  BY <1>5, <1>12, GoodRead, GoodReadNext DEF A
<1>14. Scheduler!Unblock(p)
  BY <1>2, <1>5, <1>13 DEF Scheduler!Unblock
<1> QED BY <1>2, <1>12, <1>14 DEF Inv

\* process_execute leaves the table and the queues alone and loads page tables
\* that are allocated.
LEMMA ExecuteStep ==
  ASSUME NEW R, NEW B, Good(R, B), NEW p \in 0 .. MaxPid, process_execute(p)
  PROVE  Inv' /\ UNCHANGED <<q, current>>
<1>1. Lists(q, R, B) /\ Table(R, B) /\ Memory /\ TypeOK
  BY DEF Good, Table
<1>2. /\ p \in Slots /\ state[p] = "READY" /\ pid[p] = p /\ cr3' = Switched(page_table[p])
      /\ UNCHANGED <<pid, state, page_table, q, current, next_pid, spaces>>
  BY GetById DEF process_execute
<1>3. cr3' \in spaces \cup {KernelSpace}
  BY <1>1, <1>2, SwitchedAlive DEF idle
<1>4. Memory'
  BY <1>1, <1>2, <1>3 DEF Memory
<1>5. Table(R, B)'
  BY <1>1, <1>2 DEF Table, TypeOK
<1> QED BY <1>1, <1>2, <1>4, <1>5 DEF Good, Inv

\* Neither does the timer interrupt, whose callback sees interrupts disabled.
LEMMA QuietStep ==
  ASSUME NEW R, NEW B, Good(R, B), TimerInterrupt \/ UNCHANGED vars
  PROVE  Inv' /\ UNCHANGED <<q, current>>
<1>1. Lists(q, R, B) /\ Table(R, B) /\ Memory /\ TypeOK
  BY DEF Good, Table
<1>2. UNCHANGED <<pid, state, page_table, q, current, next_pid, spaces, cr3>>
  BY DEF TimerInterrupt, timer_callback, vars
<1>3. Memory'
  BY <1>1, <1>2 DEF Memory
<1>4. Table(R, B)'
  BY <1>1, <1>2 DEF Table, TypeOK
<1> QED BY <1>1, <1>2, <1>3, <1>4 DEF Good, Inv

\* The entry process_create takes is free: it is not the idle or the current
\* entry and stands in no queue.
LEMMA FreeIsFree ==
  ASSUME NEW R, NEW B, Table(R, B), FreeEntries # {}
  PROVE  /\ FreeEntry \in Slots /\ FreeEntry # idle /\ FreeEntry # current
         /\ FreeEntry \notin Members(R) /\ FreeEntry \notin Members(B)
<1>1. FreeEntries \in SUBSET Nat
  BY MaxCountAssumption DEF FreeEntries, Slots
<1>2. \E x \in FreeEntries : \A y \in FreeEntries : x <= y
  BY <1>1, Least
<1>3. FreeEntry \in FreeEntries
  BY <1>2 DEF FreeEntry
<1>4. /\ FreeEntry \in Slots /\ FreeEntry # idle
      /\ state[FreeEntry] = "TERMINATED" \/ pid[FreeEntry] = 0
  BY <1>3 DEF FreeEntries
<1> QED BY <1>4 DEF Table

\* The part process_create changes whichever way it ends: the entry gets an ID and
\* a state of its own, and the queues what the caller of CreateEntry passes.
LEMMA Created ==
  ASSUME NEW R, NEW B, Good(R, B), NEW newpid, NEW newstate, NEW space, NEW left, NEW links,
         CreateEntry(newpid, newstate, space, left, links), NEW A, Lists(links, A, B),
         newpid \in {0, next_pid}, newpid = 0 => newstate = "NEW",
         newstate \in {"NEW", "READY"}, space \in Spaces \cup {NoSpace},
         Members(A) = IF newstate = "READY" THEN Members(R) \cup {FreeEntry} ELSE Members(R),
         left \subseteq Spaces, spaces \subseteq left,
         newpid # 0 => space \in (left \ spaces) \cup {NoSpace}
  PROVE  Good(A, B)' /\ current' = current
<1>1. Lists(q, R, B) /\ Table(R, B) /\ Memory /\ TypeOK
  BY DEF Good, Table
<1>2. PICK f : f = FreeEntry
  OBVIOUS
<1>3. /\ f \in Slots /\ f # idle /\ f # current
      /\ f \notin Members(R) /\ f \notin Members(B)
  BY <1>1, <1>2, FreeIsFree DEF CreateEntry
<1>4. /\ next_pid' = next_pid + 1
      /\ pid' = [pid EXCEPT ![f] = newpid]
      /\ state' = [state EXCEPT ![f] = newstate]
      /\ page_table' = [page_table EXCEPT ![f] = space]
      /\ spaces' = left /\ q' = links
      /\ UNCHANGED <<current, cr3>>
  BY <1>2 DEF CreateEntry
<1>5. TypeOK'
  BY <1>1, <1>3, <1>4 DEF TypeOK, States
<1>6. Table(A, B)'
  <2>1. /\ pid'[f] = newpid /\ state'[f] = newstate
        /\ \A s \in Slots \ {f} : pid'[s] = pid[s] /\ state'[s] = state[s]
    BY <1>1, <1>3, <1>4 DEF TypeOK
  <2>2. f \in Members(A) <=> newstate = "READY"
    BY <1>2, <1>3
  <2>3. \A s \in Slots \ {f} : s \in Members(A) <=> s \in Members(R)
    BY <1>2
  <2>4. newpid = 0 => newstate = "NEW"
    OBVIOUS
  <2> QED BY <1>1, <1>3, <1>4, <1>5, <2>1, <2>2, <2>3, <2>4, IdleIsSlot DEF Table
<1>7. Memory'
  <2>1. /\ page_table'[f] = space /\ pid'[f] = newpid
        /\ \A s \in Slots \ {f} : pid'[s] = pid[s] /\ page_table'[s] = page_table[s]
    BY <1>1, <1>3, <1>4 DEF TypeOK
  <2>2. \A s \in Slots \ {f} : pid[s] # 0 => page_table[s] \in spaces \cup {NoSpace}
    BY <1>1 DEF Memory
  <2>3. ASSUME NEW s \in Slots, NEW t \in Slots, pid'[s] # 0, pid'[t] # 0, s # t,
               page_table'[s] = page_table'[t]
        PROVE  page_table'[s] = NoSpace
    BY <1>1, <2>1, <2>2, <2>3 DEF Memory
  <2>4. \A s \in Slots : pid'[s] # 0 => page_table'[s] \in left \cup {NoSpace}
    BY <2>1, <2>2
  <2>5. page_table'[idle] = NoSpace /\ cr3' \in left \cup {KernelSpace}
    BY <1>1, <1>3, <1>4, <2>1, IdleIsSlot DEF Memory
  <2> QED BY <1>4, <2>3, <2>4, <2>5 DEF Memory
<1> QED BY <1>4, <1>6, <1>7 DEF Good

\* process_create either fails and leaves the queues alone, or admits a process.
LEMMA CreateStep ==
  ASSUME NEW R, NEW B, Good(R, B), process_create
  PROVE  Inv' /\ ( \/ Ready' = Ready /\ BlockedSet' = BlockedSet /\ current' = current
                   \/ \E s \in Slots : Scheduler!Admit(s) )
<1>1. Lists(q, R, B) /\ Table(R, B) /\ Memory /\ TypeOK
  BY DEF Good, Table
<1>2. PICK f : f = FreeEntry
  OBVIOUS
<1>3. /\ f \in Slots /\ f # current
      /\ f \notin Members(R) /\ f \notin Members(B)
  BY <1>1, <1>2, FreeIsFree DEF process_create, CreateNoSpace, CreateFails, CreateSucceeds,
       CreateEntry
<1>4. Lists(Cleared(q), R, B)
  BY <1>1, <1>2, <1>3, UnlinkOutside DEF Cleared
<1>5. next_pid # 0 /\ spaces \subseteq Spaces
  BY <1>1 DEF Memory, TypeOK
<1>6. ASSUME Good(R, B)', current' = current
      PROVE  Inv' /\ Ready' = Ready /\ BlockedSet' = BlockedSet /\ current' = current
  BY <1>6, GoodRead, GoodReadNext DEF Inv
<1>7. CASE CreateNoSpace
  <2>1. CreateEntry(next_pid, "NEW", NoSpace, spaces, Cleared(q))
    BY <1>7 DEF CreateNoSpace
  <2>2. Good(R, B)' /\ current' = current
    BY <1>4, <1>5, <2>1, Created
  <2> QED BY <1>6, <2>2
<1>8. CASE CreateFails
  <2>1. PICK space \in Spaces \ spaces :
          CreateEntry(0, "NEW", space, Deleted(space, spaces \cup {space}), Cleared(q))
    BY <1>8 DEF CreateFails
  <2>2. Deleted(space, spaces \cup {space}) = spaces
    BY <1>1, <2>1, SpacesAssumption DEF Deleted, Memory
  <2>3. Good(R, B)' /\ current' = current
    BY <1>4, <1>5, <2>1, <2>2, Created
  <2> QED BY <1>6, <2>3
<1>9. CASE CreateSucceeds
  <2>1. PICK space \in Spaces \ spaces :
          CreateEntry(next_pid, "READY", space, spaces \cup {space},
                      add_to_ready_queue(Cleared(q), FreeEntry))
    BY <1>9 DEF CreateSucceeds
  <2> DEFINE A == Append(R, f)
  <2>2. Members(A) = Members(R) \cup {f}
    BY <1>1, <1>3, AppendLine DEF Lists
  <2>3. Lists(add_to_ready_queue(Cleared(q), FreeEntry), A, B)
    BY <1>2, <1>3, <1>4, AddReady
  <2> HIDE DEF A
  <2>4. /\ spaces \cup {space} \subseteq Spaces /\ spaces \subseteq spaces \cup {space}
        /\ space \in ((spaces \cup {space}) \ spaces) \cup {NoSpace}
        /\ next_pid \in {0, next_pid} /\ space \in Spaces \cup {NoSpace}
        /\ (next_pid = 0 => "READY" = "NEW") /\ "READY" \in {"NEW", "READY"}
    BY <1>5, <2>1
  <2>5. Members(A) = IF "READY" = "READY" THEN Members(R) \cup {FreeEntry} ELSE Members(R)
    BY <1>2, <2>2
  <2>6. Good(A, B)' /\ current' = current
    BY <2>1, <2>3, <2>4, <2>5, Created
  <2>7. /\ Ready = R /\ BlockedSet = Members(B)
        /\ Ready' = Append(R, f) /\ BlockedSet' = Members(B)
    BY <2>6, GoodRead, GoodReadNext DEF A
  <2>8. Scheduler!Waiting = Members(R)
    <3>1. DOMAIN R = 1 .. Len(R)
      BY <1>1 DEF Lists, Line
    <3> QED BY <2>7, <3>1 DEF Scheduler!Waiting, Members
  <2>9. Scheduler!Admit(f)
    BY <1>3, <2>6, <2>7, <2>8 DEF Scheduler!Admit
  <2> QED BY <1>3, <2>6, <2>9 DEF Inv
<1> QED BY <1>7, <1>8, <1>9 DEF process_create

\* The page tables after a process was terminated: the others keep theirs, and the
\* loaded ones stay allocated.
LEMMA TerminatedMemory ==
  ASSUME Memory, TypeOK, NEW s \in Slots, pid[s] # 0,
         NEW left, left = Deleted(page_table[s], spaces)
  PROVE  /\ left \subseteq Spaces
         /\ cr3 \in left \cup {KernelSpace}
         /\ \A t \in Slots \ {s} : pid[t] # 0 => page_table[t] \in left \cup {NoSpace}
<1>1. left \subseteq Spaces /\ cr3 \in left \cup {KernelSpace}
  BY DEF Memory, Deleted
<1>2. ASSUME NEW t \in Slots \ {s}, pid[t] # 0 PROVE page_table[t] \in left \cup {NoSpace}
  <2>1. page_table[t] \in spaces \cup {NoSpace}
    BY <1>2 DEF Memory
  <2>2. page_table[t] = page_table[s] => page_table[t] = NoSpace
    BY <1>2 DEF Memory
  <2> QED BY <2>1, <2>2 DEF Deleted
<1> QED BY <1>1, <1>2

\* The line without an entry, as the abstract scheduler sees it.
LEMMA WithoutEntry ==
  ASSUME NEW R, Line(R), Ready = R, NEW s
  PROVE  /\ Scheduler!Waiting = Members(R)
         /\ s \notin Members(R) => Scheduler!Without(s) = R
         /\ \A i \in 1 .. Len(R) : s = R[i] => Scheduler!Without(s) = Cut(R, i)
<1>1. DOMAIN R = 1 .. Len(R)
  BY DEF Line
<1>2. Scheduler!Waiting = Members(R)
  BY <1>1 DEF Scheduler!Waiting, Members
<1>3. s \notin Members(R) => Scheduler!Without(s) = R
  BY <1>2, Zenon DEF Scheduler!Without
<1>4. ASSUME NEW i \in 1 .. Len(R), s = R[i] PROVE Scheduler!Without(s) = Cut(R, i)
  <2>1. s \in Members(R)
    BY <1>4 DEF Members
  <2>2. (CHOOSE k \in DOMAIN R : R[k] = s) = i
    BY <1>1, <1>4 DEF Line
  <2> QED BY <1>2, <2>1, <2>2, Zenon DEF Scheduler!Without, Cut
<1> QED BY <1>2, <1>3, <1>4

\* process_terminate takes the process out of wherever it is; if it was running,
\* the first in line runs.
LEMMA TerminateStep ==
  ASSUME NEW R, NEW B, Good(R, B), NEW p \in 0 .. MaxPid, process_terminate(p)
  PROVE  Inv' /\ \E s \in Slots : Scheduler!Kill(s)
<1> DEFINE st == [state EXCEPT ![p] = "TERMINATED"]
           pt == [page_table EXCEPT ![p] = NoSpace]
<1>1. Lists(q, R, B) /\ Table(R, B) /\ Memory /\ TypeOK
  BY DEF Good, Table
<1>2. /\ p \in Slots /\ pid[p] = p /\ p # 0
      /\ page_table' = pt
      /\ spaces' = Deleted(page_table[p], spaces)
      /\ IF current = p
           THEN schedule_next(Dequeued(p), st, NULL, pt)
           ELSE q' = Dequeued(p) /\ state' = st /\ UNCHANGED <<current, cr3>>
      /\ UNCHANGED <<pid, next_pid>>
  BY GetById DEF process_terminate
<1>3. p # idle /\ pid[p] # 0
  BY <1>2 DEF idle
<1>4. /\ pt \in [Slots -> Spaces \cup {NoSpace}] /\ pt[p] = NoSpace
      /\ \A s \in Slots \ {p} : pt[s] = page_table[s]
      /\ st \in [Slots -> States] /\ st[p] = "TERMINATED"
      /\ \A s \in Slots \ {p} : st[s] = state[s]
  BY <1>1, <1>2 DEF TypeOK, States
<1>5. /\ spaces' \subseteq Spaces
      /\ cr3 \in spaces' \cup {KernelSpace}
      /\ \A t \in Slots \ {p} : pid[t] # 0 => page_table[t] \in spaces' \cup {NoSpace}
  BY <1>1, <1>2, <1>3, TerminatedMemory
<1>6. Ready = R /\ BlockedSet = Members(B)
  BY GoodRead
<1>7. Line(R) /\ Line(B)
  BY <1>1 DEF Lists
<1> HIDE DEF st, pt
<1>8. ASSUME cr3' \in spaces' \cup {KernelSpace} PROVE Memory'
  <2>1. \A s \in Slots : pid'[s] # 0 => page_table'[s] \in spaces' \cup {NoSpace}
    BY <1>2, <1>4, <1>5
  <2>2. page_table'[idle] = NoSpace
    BY <1>1, <1>2, <1>3, <1>4, IdleIsSlot DEF Memory
  <2>3. ASSUME NEW s \in Slots, NEW t \in Slots, pid'[s] # 0, pid'[t] # 0, s # t,
               page_table'[s] = page_table'[t]
        PROVE  page_table'[s] = NoSpace
    BY <1>1, <1>2, <1>4, <2>3 DEF Memory
  <2> QED BY <1>5, <1>8, <2>1, <2>2, <2>3 DEF Memory
<1>9. CASE current = p
  <2>1. Dequeued(p) = q
    BY <1>1, <1>3, <1>9 DEF Dequeued, Table
  <2>2. schedule_next(q, st, NULL, pt)
    BY <1>2, <1>9, <2>1
  <2>3. Waits(st, R, B)
    <3>1. p \notin Members(R) /\ p \notin Members(B) /\ idle \in Members(R)
          /\ idle \notin Members(B)
      BY <1>1, <1>3, <1>9 DEF Table
    <3>2. st[idle] \in {"READY", "RUNNING"}
      BY <1>1, <1>3, <1>4, IdleIsSlot DEF Table
    <3>3. ASSUME NEW s \in Slots \ {idle}
          PROVE  /\ s \in Members(R) <=> st[s] = "READY"
                 /\ s \in Members(B) <=> st[s] = "BLOCKED"
                 /\ st[s] # "RUNNING"
                 /\ pid[s] = 0 => st[s] = "NEW"
      <4>1. CASE s = p
        BY <1>3, <1>4, <3>1, <4>1
      <4>2. CASE s # p
        BY <1>1, <1>4, <1>9, <4>2 DEF Table
      <4> QED BY <4>1, <4>2
    <3> QED BY <1>4, <3>1, <3>2, <3>3 DEF Waits
  <2>4. /\ R # <<>> /\ Head(R) \in Members(R) /\ Head(R) \in Slots /\ current' = Head(R)
        /\ cr3' = IF Head(R) = NULL THEN cr3 ELSE Switched(pt[Head(R)])
    BY <1>1, <2>2, <2>3, Scheduled DEF Waits
  <2>5. Head(R) # NULL /\ Head(R) # p
    BY <1>1, <1>9, <2>4, NullIsNoSlot DEF Table
  <2>6. Lists(q', Tail(R), B) /\ Table(Tail(R), B)'
    <3>1. pid[idle] = 0
      BY <1>1 DEF Table
    <3> QED BY <1>1, <1>2, <1>4, <2>2, <2>3, <2>5, <3>1, Dispatched
  <2>7. cr3' \in spaces' \cup {KernelSpace}
    <3>1. Head(R) # idle => pid[Head(R)] # 0
      BY <1>1, <1>9, <2>4, <2>5 DEF Table
    <3>2. pt[Head(R)] \in spaces' \cup {NoSpace}
      <4>1. CASE Head(R) = idle
        BY <1>1, <1>3, <1>4, <2>4, <4>1 DEF Memory
      <4>2. CASE Head(R) # idle
        BY <1>4, <1>5, <2>4, <2>5, <3>1, <4>2
      <4> QED BY <4>1, <4>2
    <3> QED BY <1>5, <2>4, <2>5, <3>2 DEF Switched
  <2>8. Good(Tail(R), B)'
    BY <1>8, <2>6, <2>7 DEF Good
  <2>9. Ready' = Tail(R) /\ BlockedSet' = Members(B)
    BY <2>8, GoodReadNext
  <2>10. Scheduler!Kill(p)
    BY <1>3, <1>6, <1>9, <2>4, <2>9 DEF Scheduler!Kill, Scheduler!Dispatch
  <2> QED BY <1>2, <2>8, <2>10 DEF Inv
<1>10. ASSUME current # p, NEW A, NEW C, Lists(Dequeued(p), A, C),
              Members(A) = Members(R) \ {p}, Members(C) = Members(B) \ {p},
              A = Scheduler!Without(p)
       PROVE  Inv' /\ Scheduler!Kill(p)
  <2>1. q' = Dequeued(p) /\ state' = st /\ UNCHANGED <<current, cr3>>
    BY <1>2, <1>10
  <2>2. TypeOK'
    BY <1>1, <1>2, <1>4, <2>1 DEF TypeOK
  <2>3. Table(A, C)'
    <3>1. ASSUME NEW s \in Slots \ {idle, current'}
          PROVE  /\ s \in Members(A) <=> state'[s] = "READY"
                 /\ s \in Members(C) <=> state'[s] = "BLOCKED"
                 /\ state'[s] # "RUNNING"
                 /\ pid'[s] = 0 => state'[s] = "NEW"
      <4>1. CASE s = p
        BY <1>2, <1>3, <1>4, <1>10, <2>1, <4>1
      <4>2. CASE s # p
        BY <1>1, <1>2, <1>4, <1>10, <2>1, <4>2 DEF Table
      <4> QED BY <4>1, <4>2
    <3>2. /\ current' \in Slots /\ current' \notin Members(A) \cup Members(C)
          /\ pid'[idle] = 0 /\ state'[idle] \in {"READY", "RUNNING"} /\ idle \notin Members(C)
      BY <1>1, <1>2, <1>3, <1>4, <1>10, <2>1, IdleIsSlot DEF Table
    <3>3. current' # idle => /\ state'[current'] = "RUNNING" /\ pid'[current'] # 0
                             /\ idle \in Members(A)
      BY <1>1, <1>2, <1>3, <1>4, <1>10, <2>1 DEF Table
    <3> QED BY <2>2, <3>1, <3>2, <3>3 DEF Table
  <2>4. Good(A, C)'
    BY <1>5, <1>8, <1>10, <2>1, <2>3 DEF Good
  <2>5. Ready' = A /\ BlockedSet' = Members(C)
    BY <2>4, GoodReadNext
  <2>6. Scheduler!Kill(p)
    BY <1>3, <1>6, <1>10, <2>1, <2>5 DEF Scheduler!Kill
  <2> QED BY <2>4, <2>6 DEF Inv
<1>11. CASE current # p /\ state[p] = "READY"
  <2>1. PICK i \in 1 .. Len(R) : p = R[i]
    BY <1>1, <1>2, <1>3, <1>11, InQueue
  <2>2. Dequeued(p) = remove_from_ready_queue(q, R[i])
    BY <1>11, <2>1 DEF Dequeued
  <2>3. Lists(Dequeued(p), Cut(R, i), B)
    BY <1>1, <2>2, RemoveReady
  <2>4. Members(Cut(R, i)) = Members(R) \ {p} /\ Cut(R, i) = Scheduler!Without(p)
    BY <1>6, <1>7, <2>1, CutLine, WithoutEntry
  <2>5. Members(B) = Members(B) \ {p}
    BY <1>1, <1>2, <1>3, <1>11 DEF Table
  <2> QED BY <1>2, <1>10, <1>11, <2>3, <2>4, <2>5
<1>12. CASE current # p /\ state[p] = "BLOCKED"
  <2>1. PICK i \in 1 .. Len(B) : p = B[i]
    BY <1>1, <1>2, <1>3, <1>12, InQueue
  <2>2. Dequeued(p) = remove_from_blocked_queue(q, B[i])
    BY <1>12, <2>1 DEF Dequeued
  <2>3. Lists(Dequeued(p), R, Cut(B, i))
    BY <1>1, <2>2, RemoveBlocked
  <2>4. Members(Cut(B, i)) = Members(B) \ {p}
    BY <1>7, <2>1, CutLine
  <2>5. p \notin Members(R)
    BY <1>1, <1>2, <1>3, <1>12 DEF Table
  <2>6. Members(R) = Members(R) \ {p} /\ R = Scheduler!Without(p)
    BY <1>6, <1>7, <2>5, WithoutEntry
  <2> QED BY <1>2, <1>10, <1>12, <2>3, <2>4, <2>6
<1>13. CASE current # p /\ state[p] \notin {"READY", "BLOCKED"}
  <2>1. Dequeued(p) = q
    BY <1>13 DEF Dequeued
  <2>2. p \notin Members(R) /\ p \notin Members(B)
    BY <1>1, <1>2, <1>3, <1>13, InQueue
  <2>3. /\ Members(R) = Members(R) \ {p} /\ Members(B) = Members(B) \ {p}
        /\ R = Scheduler!Without(p)
    BY <1>6, <1>7, <2>2, WithoutEntry
  <2> QED BY <1>1, <1>2, <1>10, <1>13, <2>1, <2>3
<1> QED BY <1>9, <1>11, <1>12, <1>13

-----------------------------------------------------------------------------
(* The theorems *)

\* After process_init both queues are empty and the idle entry is current.
LEMMA InitGood == Init => Good(<<>>, <<>>)
<1> SUFFICES ASSUME Init PROVE Good(<<>>, <<>>)
  OBVIOUS
<1>1. Len(<<>>) = 0 /\ <<>> \in Seq(Slots) /\ Members(<<>>) = {} /\ 1 .. 0 = {}
  BY DEF Members
<1>2. Line(<<>>) /\ Apart(<<>>, <<>>)
  BY <1>1 DEF Line, Apart
<1>3. q \in LinkType
  BY DEF Init, NoLinks, LinkType, Pointers
<1>4. Lists(q, <<>>, <<>>)
  BY <1>1, <1>2, <1>3 DEF Lists, Forward, Backward, Init, NoLinks
<1>5. Table(<<>>, <<>>)
  BY <1>1, IdleIsSlot DEF Init, Table, TypeOK, States
<1>6. Memory
  BY IdleIsSlot DEF Init, Memory
<1> QED BY <1>4, <1>5, <1>6 DEF Good

\* Every step keeps the invariant and is a step of the abstract scheduler.
LEMMA ProcessStep == Inv /\ [Next]_vars => Inv' /\ [Scheduler!Next]_(Scheduler!vars)
<1> SUFFICES ASSUME Inv, [Next]_vars PROVE Inv' /\ [Scheduler!Next]_(Scheduler!vars)
  OBVIOUS
<1>1. PICK R, B : Good(R, B)
  BY DEF Inv
<1>2. ASSUME UNCHANGED <<q, current>> PROVE UNCHANGED (Scheduler!vars)
  BY <1>2 DEF Scheduler!vars, Ready, BlockedSet
<1>3. CASE process_yield
  BY <1>1, <1>3, YieldStep DEF Scheduler!Next
<1>4. CASE process_block
  BY <1>1, <1>4, BlockStep DEF Scheduler!Next
<1>5. CASE process_create
  BY <1>1, <1>5, CreateStep DEF Scheduler!Next, Scheduler!vars
<1>6. ASSUME NEW p \in 0 .. MaxPid, process_unblock(p)
      PROVE  Inv' /\ [Scheduler!Next]_(Scheduler!vars)
  BY <1>1, <1>6, UnblockStep DEF Scheduler!Next
<1>7. ASSUME NEW p \in 0 .. MaxPid, process_terminate(p)
      PROVE  Inv' /\ [Scheduler!Next]_(Scheduler!vars)
  BY <1>1, <1>7, TerminateStep DEF Scheduler!Next
<1>8. ASSUME NEW p \in 0 .. MaxPid, process_execute(p)
      PROVE  Inv' /\ [Scheduler!Next]_(Scheduler!vars)
  BY <1>1, <1>2, <1>8, ExecuteStep
<1>9. CASE TimerInterrupt \/ UNCHANGED vars
  BY <1>1, <1>2, <1>9, QuietStep
<1> QED BY <1>3, <1>4, <1>5, <1>6, <1>7, <1>8, <1>9 DEF Next

\* The links of the process table thread two disjoint lists in every reachable
\* state, and the table agrees with them.
LEMMA ProcessInvariant == Spec => []Inv
<1>1. Init => Inv
  BY InitGood DEF Inv
<1>2. Inv /\ [Next]_vars => Inv'
  BY ProcessStep
<1> QED BY <1>1, <1>2, PTL DEF Spec

\* add_to_ready_queue, remove_from_ready_queue, add_to_blocked_queue,
\* remove_from_blocked_queue and schedule_next keep both queues well formed in
\* every sequence of calls, for any table size: they end, share no entry, and
\* the back links and the tail of the ready queue match its forward links.
THEOREM QueuesAreWellFormed == Spec => []QueuesWellFormed
<1>1. Inv => QueuesWellFormed
  <2> SUFFICES ASSUME Inv PROVE QueuesWellFormed
    OBVIOUS
  <2>1. PICK R, B : Good(R, B)
    BY DEF Inv
  <2>2. Lists(q, R, B)
    BY <2>1 DEF Good
  <2>3. Ends(q, q.ready_head) /\ Ends(q, q.blocked_head)
    BY <2>2, ListRead DEF Lists
  <2>4. Ready = R /\ ReadySet = Members(R) /\ BlockedSet = Members(B)
    BY <2>1, GoodRead
  <2>5. Members(R) \cap Members(B) = {}
    BY <2>2 DEF Lists, Apart, Members
  <2>6. R \in Seq(Slots) /\ DOMAIN R = 1 .. Len(R) /\ Len(R) \in Nat
    BY <2>2, LineFacts DEF Lists, Line
  <2>7. q.ready_tail = IF R = <<>> THEN NULL ELSE R[Len(R)]
    <3>1. R = <<>> <=> Len(R) = 0
      BY <2>6
    <3> QED BY <2>2, <3>1 DEF Lists, Backward
  <2>8. \A k \in DOMAIN R : q.prev[R[k]] = IF k = 1 THEN NULL ELSE R[k - 1]
    BY <2>2, <2>6 DEF Lists, Backward
  <2> QED BY <2>3, <2>4, <2>5, <2>7, <2>8 DEF QueuesWellFormed
<1> QED BY <1>1, ProcessInvariant, PTL

\* No sequence of yields, blocks, wake-ups, creations (failing or not) and
\* terminations loses a process: every live process but the current one stands in
\* the queue that its state in the table names.
THEOREM NoProcessIsLost == Spec => []NoLostProcess
<1>1. Inv => NoLostProcess
  <2> SUFFICES ASSUME Inv PROVE NoLostProcess
    OBVIOUS
  <2>1. PICK R, B : Good(R, B)
    BY DEF Inv
  <2>2. ReadySet = Members(R) /\ BlockedSet = Members(B)
    BY <2>1, GoodRead
  <2>3. Table(R, B) /\ Members(R) \subseteq Slots /\ Members(B) \subseteq Slots
    BY <2>1, LineFacts DEF Good, Lists, Line
  <2>4. Members(R) \cup Members(B) \subseteq Live \cup {idle}
    <3> SUFFICES ASSUME NEW s \in Members(R) \cup Members(B), s # idle PROVE s \in Live
      OBVIOUS
    <3>1. s # current /\ s \in Slots
      BY <2>3 DEF Table
    <3> QED BY <2>3, <3>1 DEF Table, Live
  <2>5. ASSUME NEW s \in Live \ {current}
        PROVE  /\ state[s] = "READY" <=> s \in Members(R)
               /\ state[s] = "BLOCKED" <=> s \in Members(B)
               /\ state[s] # "RUNNING"
    BY <2>3 DEF Table, Live
  <2> QED BY <2>2, <2>3, <2>4, <2>5 DEF NoLostProcess, Table
<1> QED BY <1>1, ProcessInvariant, PTL

\* Whichever process is terminated, executed or switched to, the page tables in
\* CR3 are the kernel's or still allocated.
THEOREM LoadedSpaceIsAlive == Spec => []CurrentSpaceAlive
<1>1. Inv => CurrentSpaceAlive
  BY DEF Inv, Good, Memory, CurrentSpaceAlive
<1> QED BY <1>1, ProcessInvariant, PTL

\* The linked lists, the states and schedule_next implement a first-in first-out
\* scheduler: every call is one step of RoundRobin, or none.
THEOREM RefinesRoundRobin == Spec => ImplementsRoundRobin
<1>1. Init => Scheduler!Init
  <2> SUFFICES ASSUME Init PROVE Scheduler!Init
    OBVIOUS
  <2>1. Ready = <<>> /\ BlockedSet = Members(<<>>)
    BY InitGood, GoodRead
  <2>2. Members(<<>>) = {} /\ current = idle
    BY DEF Members, Init
  <2> QED BY <2>1, <2>2 DEF Scheduler!Init
<1>2. Inv /\ [Next]_vars => [Scheduler!Next]_(Scheduler!vars)
  BY ProcessStep
<1> QED BY <1>1, <1>2, ProcessInvariant, PTL DEF Spec, ImplementsRoundRobin, Scheduler!Spec

=============================================================================
