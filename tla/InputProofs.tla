---------------------------- MODULE InputProofs ----------------------------
(***************************************************************************)
(* Proofs about Input.tla, the keyboard and the mouse driver, for every    *)
(* buffer size of at least two, every set of keys, bytes and callbacks and *)
(* any length of the callback tables.                                      *)
(*                                                                         *)
(* The two drivers use the ring buffer with different sizes, so the facts  *)
(* about it are proved once, for a size N given as a parameter.            *)
(***************************************************************************)
EXTENDS Input, FiniteSetTheorems, SequenceTheorems, WellFoundedInduction, TLAPS

-----------------------------------------------------------------------------
(* The ring buffer, for any size *)

\* The place of an index in the buffer.
At(N, a) == a % N

Ring(N, V) == [buffer : [0 .. (N - 1) -> V], read : 0 .. (N - 1), write : 0 .. (N - 1)]

InsertN(N, r, v) ==
  LET next_write == At(N, r.write + 1)
  IN  IF next_write = r.read
        THEN r
        ELSE [r EXCEPT !.buffer[r.write] = v, !.write = next_write]

AdvanceN(N, r) == [r EXCEPT !.read = At(N, r.read + 1)]

Count(N, r) == At(N, r.write + N - r.read)

ContentsN(N, r) == [k \in 1 .. Count(N, r) |-> r.buffer[At(N, r.read + k - 1)]]

\* An index that runs past the end of the buffer starts again at its beginning.
LEMMA Wrap ==
  ASSUME NEW N \in Nat \ {0}, NEW a \in 0 .. (2 * N - 1)
  PROVE  At(N, a) = IF a < N THEN a ELSE a - N
BY DEF At

\* The number of values that wait, and where each of them is.
LEMMA RingIndices ==
  ASSUME NEW N \in Nat \ {0, 1}, NEW V, NEW r \in Ring(N, V)
  PROVE  /\ r.read \in 0 .. (N - 1) /\ r.write \in 0 .. (N - 1)
         /\ r.buffer \in [0 .. (N - 1) -> V]
         /\ Count(N, r) = IF r.read <= r.write THEN r.write - r.read
                          ELSE (r.write + N) - r.read
         /\ Count(N, r) \in 0 .. (N - 1)
         /\ At(N, r.read + 1) = IF r.read + 1 < N THEN r.read + 1 ELSE 0
         /\ At(N, r.write + 1) = IF r.write + 1 < N THEN r.write + 1 ELSE 0
         /\ \A k \in 1 .. N : At(N, r.read + k - 1) = IF r.read + k - 1 < N THEN r.read + k - 1
                                                     ELSE (r.read + k - 1) - N
<1>1. /\ r.read \in 0 .. (N - 1) /\ r.write \in 0 .. (N - 1)
      /\ r.buffer \in [0 .. (N - 1) -> V]
  BY DEF Ring
<1>2. PICK rd, wr : rd = r.read /\ wr = r.write
  OBVIOUS
<1>3. rd \in 0 .. (N - 1) /\ wr \in 0 .. (N - 1) /\ N \in Nat \ {0}
  BY <1>1, <1>2
<1>4. At(N, wr + N - rd) = IF rd <= wr THEN wr - rd ELSE (wr + N) - rd
  <2>1. wr + N - rd \in 0 .. (2 * N - 1)
    BY <1>3
  <2>2. At(N, wr + N - rd) = IF wr + N - rd < N THEN wr + N - rd ELSE wr + N - rd - N
    BY <1>3, <2>1, Wrap
  <2> QED BY <1>3, <2>2
<1>5. /\ At(N, rd + 1) = IF rd + 1 < N THEN rd + 1 ELSE 0
      /\ At(N, wr + 1) = IF wr + 1 < N THEN wr + 1 ELSE 0
  <2>1. rd + 1 \in 0 .. (2 * N - 1) /\ wr + 1 \in 0 .. (2 * N - 1)
    BY <1>3
  <2>2. /\ At(N, rd + 1) = IF rd + 1 < N THEN rd + 1 ELSE rd + 1 - N
        /\ At(N, wr + 1) = IF wr + 1 < N THEN wr + 1 ELSE wr + 1 - N
    BY <1>3, <2>1, Wrap
  <2> QED BY <1>3, <2>2
<1>6. ASSUME NEW k \in 1 .. N
      PROVE  At(N, rd + k - 1) = IF rd + k - 1 < N THEN rd + k - 1 ELSE (rd + k - 1) - N
  <2>1. rd + k - 1 \in 0 .. (2 * N - 1)
    BY <1>3
  <2> QED BY <1>3, <2>1, Wrap
<1>7. Count(N, r) = IF rd <= wr THEN wr - rd ELSE (wr + N) - rd
  BY <1>2, <1>4 DEF Count
<1>8. Count(N, r) \in 0 .. (N - 1)
  BY <1>3, <1>7
<1> QED BY <1>1, <1>2, <1>5, <1>6, <1>7, <1>8

\* The contents as a sequence.
LEMMA RingContents ==
  ASSUME NEW N \in Nat \ {0, 1}, NEW V, NEW r \in Ring(N, V)
  PROVE  /\ ContentsN(N, r) \in Seq(V)
         /\ Len(ContentsN(N, r)) = Count(N, r)
         /\ Count(N, r) \in Nat
         /\ \A k \in 1 .. Count(N, r) : ContentsN(N, r)[k] = r.buffer[At(N, r.read + k - 1)]
         /\ ContentsN(N, r) = <<>> <=> r.read = r.write
<1>1. /\ Count(N, r) \in 0 .. (N - 1) /\ Count(N, r) \in Nat
      /\ Count(N, r) = 0 <=> r.read = r.write
  BY RingIndices
<1>2. ASSUME NEW k \in 1 .. Count(N, r) PROVE r.buffer[At(N, r.read + k - 1)] \in V
  <2>1. k \in 1 .. N
    BY <1>1
  <2>2. At(N, r.read + k - 1) \in 0 .. (N - 1)
    BY <2>1, RingIndices
  <2> QED BY <2>2, RingIndices
<1> DEFINE c == ContentsN(N, r)
<1>3. c \in [1 .. Count(N, r) -> V]
  BY <1>2 DEF ContentsN
<1>4. \A k \in 1 .. Count(N, r) : c[k] = r.buffer[At(N, r.read + k - 1)]
  BY DEF ContentsN
<1> HIDE DEF c
<1>5. c \in Seq(V) /\ Len(c) = Count(N, r)
  BY <1>1, <1>3
<1>6. c = <<>> <=> Len(c) = 0
  BY <1>5
<1> QED BY <1>1, <1>4, <1>5, <1>6 DEF c

\* A value inserted into a ring that is not full goes behind the others, and a
\* full ring stays as it is.
LEMMA RingInsert ==
  ASSUME NEW N \in Nat \ {0, 1}, NEW V, NEW r \in Ring(N, V), NEW v \in V
  PROVE  /\ InsertN(N, r, v) \in Ring(N, V)
         /\ Count(N, r) = N - 1 => InsertN(N, r, v) = r
         /\ Count(N, r) # N - 1 =>
              /\ Count(N, r) < N - 1
              /\ ContentsN(N, InsertN(N, r, v)) = Append(ContentsN(N, r), v)
<1> DEFINE s == InsertN(N, r, v)
           w == At(N, r.write + 1)
<1>1. /\ r.read \in 0 .. (N - 1) /\ r.write \in 0 .. (N - 1) /\ r.buffer \in [0 .. (N - 1) -> V]
      /\ w \in 0 .. (N - 1)
      /\ w = r.read <=> Count(N, r) = N - 1
      /\ Count(N, r) # N - 1 => Count(N, r) < N - 1
  BY RingIndices
<1>2. CASE Count(N, r) = N - 1
  BY <1>1, <1>2 DEF InsertN
<1>3. CASE Count(N, r) # N - 1
  <2>1. s = [r EXCEPT !.buffer[r.write] = v, !.write = w]
    BY <1>1, <1>3 DEF InsertN
  <2>2. /\ s \in Ring(N, V) /\ s.read = r.read /\ s.write = w
        /\ s.buffer = [r.buffer EXCEPT ![r.write] = v]
    BY <1>1, <2>1 DEF Ring
  <2> HIDE DEF s
  <2>3. Count(N, s) = Count(N, r) + 1
    <3>1. Count(N, r) = IF r.read <= r.write THEN r.write - r.read ELSE (r.write + N) - r.read
      BY RingIndices
    <3>2. w = IF r.write + 1 < N THEN r.write + 1 ELSE 0
      BY RingIndices
    <3> HIDE DEF w
    <3>3. Count(N, s) = IF s.read <= s.write THEN s.write - s.read ELSE (s.write + N) - s.read
      <4>1. s \in Ring(N, V)
        BY <2>2
      <4> QED BY <4>1, RingIndices
    <3>4. PICK rd \in 0 .. (N - 1), wr \in 0 .. (N - 1) : rd = r.read /\ wr = r.write
      BY <1>1
    <3>5. Count(N, s) = IF rd <= w THEN w - rd ELSE (w + N) - rd
      BY <2>2, <3>3, <3>4
    <3>6. /\ Count(N, r) = IF rd <= wr THEN wr - rd ELSE (wr + N) - rd
          /\ w = IF wr + 1 < N THEN wr + 1 ELSE 0
          /\ w # rd
      BY <1>1, <1>3, <3>1, <3>2, <3>4
    <3>7. CASE wr + 1 < N
      <4>1. w = wr + 1
        BY <3>6, <3>7
      <4> QED BY <3>5, <3>6, <4>1
    <3>8. CASE ~(wr + 1 < N)
      <4>1. w = 0 /\ wr = N - 1
        BY <3>6, <3>8
      <4> QED BY <3>5, <3>6, <4>1
    <3> QED BY <3>7, <3>8
  <2> DEFINE c == ContentsN(N, r)
             d == ContentsN(N, s)
  <2>4. /\ c \in Seq(V) /\ Len(c) = Count(N, r) /\ Count(N, r) \in Nat
        /\ \A k \in 1 .. Count(N, r) : c[k] = r.buffer[At(N, r.read + k - 1)]
    BY RingContents
  <2>5. /\ d \in Seq(V) /\ Len(d) = Count(N, r) + 1
        /\ \A k \in 1 .. (Count(N, r) + 1) : d[k] = s.buffer[At(N, r.read + k - 1)]
    <3>1. /\ d \in Seq(V) /\ Len(d) = Count(N, s)
          /\ \A k \in 1 .. Count(N, s) : d[k] = s.buffer[At(N, s.read + k - 1)]
      <4>1. s \in Ring(N, V)
        BY <2>2
      <4> QED BY <4>1, RingContents
    <3> HIDE DEF d
    <3> QED BY <2>2, <2>3, <3>1
  <2> HIDE DEF c, d
  <2>6. ASSUME NEW k \in 1 .. Count(N, r) PROVE d[k] = c[k]
    <3>1. k \in 1 .. N /\ k \in 1 .. (Count(N, r) + 1)
      BY <1>1, <1>3, <2>4
    <3>2. At(N, r.read + k - 1) \in 0 .. (N - 1) /\ At(N, r.read + k - 1) # r.write
      <4>1. /\ Count(N, r) = IF r.read <= r.write THEN r.write - r.read
                             ELSE (r.write + N) - r.read
            /\ At(N, r.read + k - 1) = IF r.read + k - 1 < N THEN r.read + k - 1
                                      ELSE (r.read + k - 1) - N
        BY <3>1, RingIndices
      <4>2. PICK j : j = At(N, r.read + k - 1)
        OBVIOUS
      <4>3. j \in 0 .. (N - 1) /\ j # r.write
        BY <1>1, <4>1, <4>2
      <4> QED BY <4>2, <4>3
    <3>3. s.buffer[At(N, r.read + k - 1)] = r.buffer[At(N, r.read + k - 1)]
      BY <1>1, <2>2, <3>2
    <3> QED BY <2>4, <2>5, <3>1, <3>3
  <2>7. d[Count(N, r) + 1] = v
    <3>1. Count(N, r) + 1 \in 1 .. N /\ Count(N, r) + 1 \in 1 .. (Count(N, r) + 1)
      BY <1>1, <1>3, <2>4
    <3>2. At(N, r.read + (Count(N, r) + 1) - 1) = r.write
      <4>1. /\ Count(N, r) = IF r.read <= r.write THEN r.write - r.read
                             ELSE (r.write + N) - r.read
            /\ At(N, r.read + (Count(N, r) + 1) - 1)
                 = IF r.read + (Count(N, r) + 1) - 1 < N THEN r.read + (Count(N, r) + 1) - 1
                   ELSE (r.read + (Count(N, r) + 1) - 1) - N
        BY <3>1, RingIndices
      <4> QED BY <1>1, <4>1
    <3> QED BY <1>1, <2>2, <2>5, <3>1, <3>2
  <2>8. d = Append(c, v)
    <3> DEFINE e == Append(c, v)
    <3>1. /\ e \in Seq(V) /\ Len(e) = Len(c) + 1 /\ e[Len(c) + 1] = v
          /\ \A k \in 1 .. Len(c) : e[k] = c[k]
      <4>1. c \in Seq(V) /\ v \in V
        BY <2>4
      <4> QED BY <4>1, AppendProperties
    <3> HIDE DEF e
    <3>2. \A k \in 1 .. Len(d) : k \in 1 .. Count(N, r) \/ k = Count(N, r) + 1
      BY <2>4, <2>5
    <3>3. Len(d) = Len(e) /\ \A k \in 1 .. Len(d) : d[k] = e[k]
      BY <2>4, <2>5, <2>6, <2>7, <3>1, <3>2
    <3>4. d = e
      BY <2>5, <3>1, <3>3, SeqEqual
    <3> QED BY <3>4 DEF e
  <2> QED BY <1>1, <1>3, <2>2, <2>8 DEF c, d, s
<1> QED BY <1>2, <1>3

\* The reader moves on: the first value leaves.
LEMMA RingAdvance ==
  ASSUME NEW N \in Nat \ {0, 1}, NEW V, NEW r \in Ring(N, V), r.read # r.write
  PROVE  /\ AdvanceN(N, r) \in Ring(N, V)
         /\ ContentsN(N, r) # <<>>
         /\ Head(ContentsN(N, r)) = r.buffer[r.read]
         /\ ContentsN(N, AdvanceN(N, r)) = Tail(ContentsN(N, r))
<1> DEFINE s == AdvanceN(N, r)
           u == At(N, r.read + 1)
           c == ContentsN(N, r)
           d == ContentsN(N, s)
<1>1. /\ r.read \in 0 .. (N - 1) /\ r.write \in 0 .. (N - 1) /\ r.buffer \in [0 .. (N - 1) -> V]
      /\ u = IF r.read + 1 < N THEN r.read + 1 ELSE 0
      /\ u \in 0 .. (N - 1)
      /\ Count(N, r) = IF r.read <= r.write THEN r.write - r.read ELSE (r.write + N) - r.read
      /\ Count(N, r) \in 1 .. (N - 1)
  BY RingIndices
<1>2. /\ s \in Ring(N, V) /\ s.read = u /\ s.write = r.write /\ s.buffer = r.buffer
  BY <1>1 DEF AdvanceN, Ring
<1> HIDE DEF s
<1>3. Count(N, s) = Count(N, r) - 1
  <2>1. Count(N, s) = IF u <= r.write THEN r.write - u ELSE (r.write + N) - u
    BY <1>2, RingIndices
  <2>2. PICK rd, wr, up : rd = r.read /\ wr = r.write /\ up = u
    OBVIOUS
  <2>3. /\ rd \in 0 .. (N - 1) /\ wr \in 0 .. (N - 1) /\ rd # wr
        /\ up = IF rd + 1 < N THEN rd + 1 ELSE 0
        /\ Count(N, r) = IF rd <= wr THEN wr - rd ELSE (wr + N) - rd
        /\ Count(N, s) = IF up <= wr THEN wr - up ELSE (wr + N) - up
    BY <1>1, <2>1, <2>2
  <2> QED BY <2>3
<1>4. /\ c \in Seq(V) /\ Len(c) = Count(N, r) /\ c # <<>>
      /\ \A k \in 1 .. Count(N, r) : c[k] = r.buffer[At(N, r.read + k - 1)]
  BY RingContents
<1>5. /\ d \in Seq(V) /\ Len(d) = Count(N, r) - 1
      /\ \A k \in 1 .. (Count(N, r) - 1) : d[k] = r.buffer[At(N, u + k - 1)]
  BY <1>2, <1>3, RingContents
<1> HIDE DEF c, d
<1>6. Head(c) = r.buffer[r.read]
  <2>1. Head(c) = c[1]
    BY <1>4
  <2>2. At(N, r.read + 1 - 1) = r.read
    <3>1. 1 \in 1 .. N
      OBVIOUS
    <3>2. At(N, r.read + 1 - 1) = IF r.read + 1 - 1 < N THEN r.read + 1 - 1
                                 ELSE (r.read + 1 - 1) - N
      BY <3>1, RingIndices
    <3> QED BY <1>1, <3>2
  <2> QED BY <1>1, <1>4, <2>1, <2>2
<1>7. /\ Tail(c) \in Seq(V) /\ Len(Tail(c)) = Len(c) - 1
      /\ \A k \in 1 .. (Len(c) - 1) : Tail(c)[k] = c[k + 1]
  BY <1>4, HeadTailProperties
<1>8. ASSUME NEW k \in 1 .. (Count(N, r) - 1) PROVE d[k] = c[k + 1]
  <2>1. k \in 1 .. N /\ k + 1 \in 1 .. N /\ k + 1 \in 1 .. Count(N, r)
    BY <1>1
  <2>2. At(N, r.read + (k + 1) - 1) = IF r.read + (k + 1) - 1 < N THEN r.read + (k + 1) - 1
                                     ELSE (r.read + (k + 1) - 1) - N
    BY <2>1, RingIndices
  <2>3. At(N, u + k - 1) = IF u + k - 1 < N THEN u + k - 1 ELSE (u + k - 1) - N
    BY <1>2, <2>1, RingIndices
  <2>4. At(N, u + k - 1) = At(N, r.read + (k + 1) - 1)
    <3>1. PICK rd, up, a, b : /\ rd = r.read /\ up = u
                              /\ a = At(N, u + k - 1) /\ b = At(N, r.read + (k + 1) - 1)
      OBVIOUS
    <3>2. /\ rd \in 0 .. (N - 1) /\ up = IF rd + 1 < N THEN rd + 1 ELSE 0
          /\ a = IF up + k - 1 < N THEN up + k - 1 ELSE (up + k - 1) - N
          /\ b = IF rd + (k + 1) - 1 < N THEN rd + (k + 1) - 1 ELSE (rd + (k + 1) - 1) - N
      BY <1>1, <2>2, <2>3, <3>1
    <3>3. a = b
      BY <2>1, <3>2
    <3> QED BY <3>1, <3>3
  <2> QED BY <1>4, <1>5, <2>1, <2>4
<1>9. d = Tail(c)
  <2> DEFINE e == Tail(c)
  <2>1. e \in Seq(V) /\ Len(e) = Len(d) /\ \A k \in 1 .. Len(d) : d[k] = e[k]
    BY <1>4, <1>5, <1>7, <1>8
  <2> HIDE DEF e
  <2>2. d = e
    BY <1>5, <2>1, SeqEqual
  <2> QED BY <2>2 DEF e
<1> QED BY <1>2, <1>4, <1>6, <1>9 DEF s, c, d

\* What waits for the reader: between copying a value and moving on it has taken
\* the first one already.
Queue(N, at, r) == IF at = "advance" THEN Tail(ContentsN(N, r)) ELSE ContentsN(N, r)

\* An insertion, as the reader sees it: a value behind the others, or none.
LEMMA QueueInsert ==
  ASSUME NEW N \in Nat \ {0, 1}, NEW V, NEW r \in Ring(N, V), NEW v \in V, NEW s,
         s = InsertN(N, r, v), NEW at, at = "advance" => r.read # r.write
  PROVE  /\ s \in Ring(N, V)
         /\ r.read # r.write => s.read # s.write
         /\ \/ Queue(N, at, s) = Queue(N, at, r)
            \/ /\ Len(Queue(N, at, r)) < N - 1
               /\ Queue(N, at, s) = Append(Queue(N, at, r), v)
<1>1. s \in Ring(N, V)
  BY RingInsert
<1> DEFINE c == ContentsN(N, r)
           d == ContentsN(N, s)
<1>2. /\ c \in Seq(V) /\ Len(c) = Count(N, r) /\ Count(N, r) \in Nat
      /\ c = <<>> <=> r.read = r.write
  BY RingContents
<1>3. d = <<>> <=> s.read = s.write
  BY <1>1, RingContents
<1>4. CASE Count(N, r) = N - 1
  BY <1>1, <1>4, RingInsert
<1>5. CASE Count(N, r) # N - 1
  <2>1. Count(N, r) < N - 1 /\ d = Append(c, v)
    BY <1>5, RingInsert
  <2> HIDE DEF c, d
  <2>2. d # <<>>
    BY <1>2, <2>1
  <2>3. at = "advance" => c # <<>>
    BY <1>2
  <2>4. c # <<>> => Tail(d) = Append(Tail(c), v) /\ Len(Tail(c)) = Len(c) - 1
    BY <1>2, <2>1
  <2>5. Queue(N, at, r) = (IF at = "advance" THEN Tail(c) ELSE c)
        /\ Queue(N, at, s) = (IF at = "advance" THEN Tail(d) ELSE d)
    BY DEF Queue, c, d
  <2>6. Len(Queue(N, at, r)) < N - 1
    <3>1. Len(c) < N - 1 /\ Len(c) \in Nat /\ Len(c) - 1 < N - 1
      BY <1>2, <2>1
    <3> QED BY <2>3, <2>4, <2>5, <3>1
  <2>7. Queue(N, at, s) = Append(Queue(N, at, r), v)
    BY <2>1, <2>3, <2>4, <2>5
  <2> QED BY <1>1, <1>3, <2>2, <2>6, <2>7 DEF d
<1> QED BY <1>4, <1>5

-----------------------------------------------------------------------------
(* The callback tables, for any length *)

Null == "NULL"

Filled(cb, n) == {i \in 0 .. (n - 1) : cb[i] # Null}

\* The first element of a set of indices is in it.
LEMMA FirstOfSet ==
  ASSUME NEW n \in Nat, NEW T \in SUBSET (0 .. (n - 1)), T # {}
  PROVE  (CHOOSE i \in T : \A j \in T : i <= j) \in T
<1> DEFINE Less == {pair \in Nat \X Nat : pair[1] < pair[2]}
<1>1. IsWellFoundedOn(Less, Nat)
  BY NatLessThanWellFounded DEF OpToRel
<1>2. T \subseteq Nat
  OBVIOUS
<1>3. PICK x \in T : \A y \in T : ~(<<y, x>> \in Less)
  <2> HIDE DEF Less
  <2> QED BY <1>1, <1>2, WFMin
<1>4. ASSUME NEW y \in T PROVE x <= y
  <2>1. x \in Nat /\ y \in Nat /\ ~(<<y, x>> \in Less)
    BY <1>2, <1>3, <1>4
  <2> QED BY <2>1
<1> QED BY <1>4

\* A set of indices can be counted.
LEMMA FilledFinite ==
  ASSUME NEW n \in Nat, NEW cb
  PROVE  IsFiniteSet(Filled(cb, n)) /\ Filled(cb, n) \subseteq 0 .. (n - 1)
<1>1. IsFiniteSet(0 .. (n - 1))
  BY FS_Interval, 0 \in Int, n - 1 \in Int
<1>2. Filled(cb, n) \in SUBSET (0 .. (n - 1))
  BY DEF Filled
<1> QED BY <1>1, <1>2, FS_Subset

\* Registering fills an empty slot and counts one more.
LEMMA FilledMore ==
  ASSUME NEW n \in Nat, NEW cb \in [0 .. (n - 1) -> Callbacks \cup {Null}],
         NEW c \in Callbacks, c # Null, NEW k \in 0 .. (n - 1), cb[k] = Null,
         NEW new, new = [cb EXCEPT ![k] = c]
  PROVE  /\ new \in [0 .. (n - 1) -> Callbacks \cup {Null}]
         /\ Cardinality(Filled(new, n)) = Cardinality(Filled(cb, n)) + 1
<1>1. Filled(new, n) = Filled(cb, n) \cup {k} /\ k \notin Filled(cb, n)
  BY DEF Filled
<1>2. Cardinality(Filled(new, n)) = Cardinality(Filled(cb, n)) + 1
  <2>1. IsFiniteSet(Filled(cb, n))
    BY FilledFinite
  <2> QED BY <1>1, <2>1, FS_AddElement
<1> QED BY <1>2

\* Unregistering empties a slot and counts one less.
LEMMA FilledLess ==
  ASSUME NEW n \in Nat, NEW cb \in [0 .. (n - 1) -> Callbacks \cup {Null}],
         NEW k \in 0 .. (n - 1), cb[k] # Null,
         NEW new, new = [cb EXCEPT ![k] = Null]
  PROVE  /\ new \in [0 .. (n - 1) -> Callbacks \cup {Null}]
         /\ Cardinality(Filled(new, n)) = Cardinality(Filled(cb, n)) - 1
<1>1. Filled(new, n) = Filled(cb, n) \ {k} /\ k \in Filled(cb, n)
  BY DEF Filled
<1>2. Cardinality(Filled(new, n)) = Cardinality(Filled(cb, n)) - 1
  BY <1>1, FilledFinite, FS_RemoveElement
<1> QED BY <1>2

\* Without a hole before it, a filled slot is below the count.
LEMMA FilledPrefix ==
  ASSUME NEW n \in Nat, NEW cb, NEW i \in 0 .. (n - 1), \A j \in 0 .. i : cb[j] # Null
  PROVE  i < Cardinality(Filled(cb, n))
<1>1. 0 .. i \in SUBSET Filled(cb, n)
  BY DEF Filled
<1>2. Cardinality(0 .. i) = i + 1
  <2>1. Cardinality(0 .. i) = IF 0 > i THEN 0 ELSE i - 0 + 1
    BY FS_Interval, 0 \in Int, i \in Int
  <2> QED BY <2>1
<1>3. Cardinality(0 .. i) <= Cardinality(Filled(cb, n)) /\ Cardinality(Filled(cb, n)) \in Nat
  BY <1>1, FilledFinite, FS_Subset, FS_CardinalityType
<1> QED BY <1>2, <1>3

-----------------------------------------------------------------------------
(* The keyboard *)

KeyInv ==
  /\ kring \in Ring(KeyboardSize, K!Chars \cup {K!Zero})
  /\ kpc # "idle" => kring.read # kring.write
  /\ kcallbacks \in [0 .. (KeyboardCallbacks - 1) -> Callbacks \cup {Null}]
  /\ kcount = Cardinality(Filled(kcallbacks, KeyboardCallbacks))

KeyQueue == Queue(KeyboardSize, kpc, kring)

\* The operations of RingBuffer.tla with the keyboard's size.
LEMMA KeyboardRing ==
  /\ \A r, v : K!Insert(r, v) = InsertN(KeyboardSize, r, v)
  /\ \A r : K!Advance(r) = AdvanceN(KeyboardSize, r)
  /\ \A r : K!Contents(r) = ContentsN(KeyboardSize, r)
BY DEF K!Insert, K!Advance, K!Contents, InsertN, AdvanceN, ContentsN, Count, At

\* What the keyboard's reader waits for, as the abstract queue names it.
LEMMA KeyboardQueue ==
  (IF kpc = "advance" THEN Tail(K!Contents(kring)) ELSE K!Contents(kring)) = KeyQueue
BY KeyboardRing DEF KeyQueue, Queue

\* keyboard_init empties the buffer.
LEMMA KeyInit == K!Init => KeyInv /\ K!Fifo!Init
<1> SUFFICES ASSUME K!Init PROVE KeyInv /\ K!Fifo!Init
  OBVIOUS
<1> DEFINE N == KeyboardSize
<1>1. N \in Nat \ {0, 1} /\ KeyboardCallbacks \in Nat
  BY InputAssumption
<1>2. kring = [buffer |-> [k \in 0 .. (N - 1) |-> K!Zero], read |-> 0, write |-> 0]
      /\ kcallbacks = [i \in 0 .. (KeyboardCallbacks - 1) |-> Null] /\ kcount = 0
      /\ kpc = "idle" /\ key = K!Zero
  BY DEF K!Init, K!EmptyRing, K!Slots, K!NULL, Null
<1>3. kring \in Ring(N, K!Chars \cup {K!Zero}) /\ kring.read = kring.write
  BY <1>1, <1>2 DEF Ring
<1>4. Filled(kcallbacks, KeyboardCallbacks) = {}
  BY <1>2 DEF Filled
<1>5. KeyInv
  BY <1>2, <1>3, <1>4, FS_EmptySet DEF KeyInv
<1>6. ContentsN(N, kring) = <<>>
  BY <1>1, <1>3, RingContents
<1>7. KeyQueue = <<>>
  BY <1>2, <1>6 DEF KeyQueue, Queue
<1> QED BY <1>2, <1>5, <1>7, KeyboardQueue DEF K!Fifo!Init

\* Every step of the keyboard driver keeps the invariant and is a step of the
\* abstract queue, or none.
LEMMA KeyStep ==
  KeyInv /\ K!Next => KeyInv' /\ (K!Fifo!Next \/ (KeyQueue' = KeyQueue /\ key' = key))
<1> SUFFICES ASSUME KeyInv, K!Next
             PROVE  KeyInv' /\ (K!Fifo!Next \/ (KeyQueue' = KeyQueue /\ key' = key))
  OBVIOUS
<1> DEFINE N == KeyboardSize
           V == K!Chars \cup {K!Zero}
<1>1. N \in Nat \ {0, 1} /\ KeyboardCallbacks \in Nat /\ Null \notin Callbacks
  BY InputAssumption DEF K!NULL, Null
<1>2. /\ kring \in Ring(N, V) /\ (kpc # "idle" => kring.read # kring.write)
      /\ kcallbacks \in [0 .. (KeyboardCallbacks - 1) -> Callbacks \cup {Null}]
      /\ kcount = Cardinality(Filled(kcallbacks, KeyboardCallbacks))
  BY DEF KeyInv
<1>3. ASSUME NEW k \in K!Keys, NEW press \in BOOLEAN, K!keyboard_irq_handler(k, press)
      PROVE  KeyInv' /\ (K!Fifo!Next \/ (KeyQueue' = KeyQueue /\ key' = key))
  <2>1. UNCHANGED <<kcallbacks, kcount, kpc, key>>
    BY <1>3 DEF K!keyboard_irq_handler
  <2>2. CASE ~(press /\ k \in Printable)
    <3>1. kring' = kring
      BY <1>3, <2>2 DEF K!keyboard_irq_handler
    <3> QED BY <2>1, <3>1 DEF KeyInv, KeyQueue
  <2>3. CASE press /\ k \in Printable
    <3>1. PICK v : v = K!Ascii(k)
      OBVIOUS
    <3>2. v \in K!Chars /\ v \in V
      <4>1. ("shift" \in modifiers) \in BOOLEAN
        OBVIOUS
      <4>2. v = <<k, "shift" \in modifiers>>
        BY <3>1 DEF K!Ascii
      <4>3. v \in Printable \X BOOLEAN
        BY <2>3, <4>1, <4>2, Zenon
      <4> QED BY <4>3 DEF K!Chars
    <3>3. kring' = InsertN(N, kring, v)
      BY <1>3, <2>3, <3>1, KeyboardRing DEF K!keyboard_irq_handler
    <3>4. /\ kring' \in Ring(N, V) /\ (kring.read # kring.write => kring'.read # kring'.write)
          /\ \/ Queue(N, kpc, kring') = Queue(N, kpc, kring)
             \/ /\ Len(Queue(N, kpc, kring)) < N - 1
                /\ Queue(N, kpc, kring') = Append(Queue(N, kpc, kring), v)
      <4>1. kpc = "advance" => kring.read # kring.write
        BY <1>2
      <4>2. kring \in Ring(N, V) /\ v \in V /\ N \in Nat \ {0, 1}
        BY <1>1, <1>2, <3>2
      <4> HIDE DEF N, V
      <4>3. PICK s : s = kring' /\ s = InsertN(N, kring, v)
        BY <3>3
      <4>4. /\ s \in Ring(N, V)
            /\ kring.read # kring.write => s.read # s.write
            /\ \/ Queue(N, kpc, s) = Queue(N, kpc, kring)
               \/ /\ Len(Queue(N, kpc, kring)) < N - 1
                  /\ Queue(N, kpc, s) = Append(Queue(N, kpc, kring), v)
        BY <4>1, <4>2, <4>3, QueueInsert
      <4> QED BY <4>3, <4>4
    <3>5. KeyInv'
      BY <1>2, <2>1, <3>4 DEF KeyInv
    <3>6. KeyQueue' = KeyQueue \/ (Len(KeyQueue) < N - 1 /\ KeyQueue' = Append(KeyQueue, v))
      BY <2>1, <3>4 DEF KeyQueue
    <3>7. Len(KeyQueue) < N - 1 /\ KeyQueue' = Append(KeyQueue, v) => K!Fifo!Put
      BY <2>1, <3>2, KeyboardQueue, KeyboardRing DEF K!Fifo!Put, KeyQueue, Queue
    <3> QED BY <2>1, <3>5, <3>6, <3>7 DEF K!Fifo!Next
  <2> QED BY <2>2, <2>3
<1>4. CASE K!ReadNothing
  <2>1. /\ kpc = "idle" /\ kring.read = kring.write /\ key' = K!Zero
        /\ UNCHANGED <<kring, kcallbacks, kcount, kpc>>
    BY <1>4 DEF K!ReadNothing, K!IsEmpty
  <2>2. KeyInv'
    BY <1>2, <2>1 DEF KeyInv
  <2>3. KeyQueue = <<>> /\ KeyQueue' = KeyQueue
    BY <1>1, <1>2, <2>1, RingContents DEF KeyQueue, Queue
  <2>4. K!Fifo!TakeNothing
    BY <2>1, <2>3, KeyboardQueue, KeyboardRing DEF K!Fifo!TakeNothing, KeyQueue, Queue
  <2> QED BY <2>2, <2>4 DEF K!Fifo!Next
<1>5. CASE K!ReadStart
  <2>1. /\ kpc = "idle" /\ kring.read # kring.write /\ kpc' = "fetch"
        /\ UNCHANGED <<kring, kcallbacks, kcount, key>>
    BY <1>5 DEF K!ReadStart, K!IsEmpty
  <2> QED BY <1>2, <2>1 DEF KeyInv, KeyQueue, Queue
<1>6. CASE K!ReadFetch
  <2>1. /\ kpc = "fetch" /\ key' = kring.buffer[kring.read] /\ kpc' = "advance"
        /\ UNCHANGED <<kring, kcallbacks, kcount>>
    BY <1>6 DEF K!ReadFetch
  <2>2. KeyInv'
    BY <1>2, <2>1 DEF KeyInv
  <2>3. /\ ContentsN(N, kring) # <<>> /\ Head(ContentsN(N, kring)) = kring.buffer[kring.read]
    BY <1>1, <1>2, <2>1, RingAdvance
  <2>4. KeyQueue = ContentsN(N, kring) /\ KeyQueue' = Tail(ContentsN(N, kring))
    BY <2>1 DEF KeyQueue, Queue
  <2>5. K!Fifo!Take
    BY <2>1, <2>3, <2>4, KeyboardQueue, KeyboardRing DEF K!Fifo!Take, KeyQueue, Queue
  <2> QED BY <2>2, <2>5 DEF K!Fifo!Next
<1>7. CASE K!ReadAdvance
  <2>1. /\ kpc = "advance" /\ kring' = AdvanceN(N, kring) /\ kpc' = "idle"
        /\ UNCHANGED <<kcallbacks, kcount, key>>
    BY <1>7, KeyboardRing DEF K!ReadAdvance
  <2>2. AdvanceN(N, kring) \in Ring(N, V)
        /\ ContentsN(N, AdvanceN(N, kring)) = Tail(ContentsN(N, kring))
    BY <1>1, <1>2, <2>1, RingAdvance
  <2>3. KeyInv'
    BY <1>2, <2>1, <2>2 DEF KeyInv
  <2>4. KeyQueue' = KeyQueue
    BY <2>1, <2>2 DEF KeyQueue, Queue
  <2> QED BY <2>1, <2>3, <2>4
<1>8. ASSUME NEW c \in Callbacks, K!keyboard_register_callback(c) PROVE KeyInv' /\ KeyQueue' = KeyQueue /\ key' = key
  <2>1. UNCHANGED <<kring, kpc, key>> /\ kcount' = kcount + 1
    BY <1>8 DEF K!keyboard_register_callback
  <2>2. PICK empty : empty = {i \in 0 .. (KeyboardCallbacks - 1) : kcallbacks[i] = Null}
    OBVIOUS
  <2>3. /\ empty # {}
        /\ kcallbacks' = [kcallbacks EXCEPT ![CHOOSE i \in empty : \A j \in empty : i <= j] = c]
    BY <1>8, <2>2 DEF K!keyboard_register_callback, K!Slots, K!NULL, Null
  <2>4. /\ kcallbacks' \in [0 .. (KeyboardCallbacks - 1) -> Callbacks \cup {Null}]
        /\ Cardinality(Filled(kcallbacks', KeyboardCallbacks))
             = Cardinality(Filled(kcallbacks, KeyboardCallbacks)) + 1
    <3>1. PICK k : k = CHOOSE i \in empty : \A j \in empty : i <= j
      OBVIOUS
    <3>2. k \in empty
      <4>1. empty \in SUBSET (0 .. (KeyboardCallbacks - 1))
        BY <2>2
      <4>2. (CHOOSE i \in empty : \A j \in empty : i <= j) \in empty
        BY <1>1, <2>3, <4>1, FirstOfSet, Zenon
      <4> QED BY <3>1, <4>2, Zenon
    <3>3. kcallbacks' = [kcallbacks EXCEPT ![k] = c]
      BY <2>3, <3>1, Zenon
    <3>4. k \in 0 .. (KeyboardCallbacks - 1) /\ kcallbacks[k] = Null
      BY <1>1, <2>2, <3>2
    <3> QED BY <1>1, <1>2, <3>3, <3>4, FilledMore
  <2> QED BY <1>2, <2>1, <2>4 DEF KeyInv, KeyQueue
<1>9. ASSUME NEW c \in Callbacks, K!keyboard_unregister_callback(c) PROVE KeyInv' /\ KeyQueue' = KeyQueue /\ key' = key
  <2>1. UNCHANGED <<kring, kpc, key>> /\ kcount' = kcount - 1
    BY <1>9 DEF K!keyboard_unregister_callback
  <2>2. PICK found : found = {i \in 0 .. (KeyboardCallbacks - 1) : kcallbacks[i] = c}
    OBVIOUS
  <2>3. /\ found # {}
        /\ kcallbacks' = [kcallbacks EXCEPT ![CHOOSE i \in found : \A j \in found : i <= j] = Null]
    BY <1>9, <2>2 DEF K!keyboard_unregister_callback, K!Slots, K!NULL, Null
  <2>4. /\ kcallbacks' \in [0 .. (KeyboardCallbacks - 1) -> Callbacks \cup {Null}]
        /\ Cardinality(Filled(kcallbacks', KeyboardCallbacks))
             = Cardinality(Filled(kcallbacks, KeyboardCallbacks)) - 1
    <3>1. PICK k : k = CHOOSE i \in found : \A j \in found : i <= j
      OBVIOUS
    <3>2. k \in found
      <4>1. found \in SUBSET (0 .. (KeyboardCallbacks - 1))
        BY <2>2
      <4>2. (CHOOSE i \in found : \A j \in found : i <= j) \in found
        BY <1>1, <2>3, <4>1, FirstOfSet, Zenon
      <4> QED BY <3>1, <4>2, Zenon
    <3>3. kcallbacks' = [kcallbacks EXCEPT ![k] = Null]
      BY <2>3, <3>1, Zenon
    <3>4. k \in 0 .. (KeyboardCallbacks - 1) /\ kcallbacks[k] # Null
      BY <1>1, <2>2, <3>2
    <3> QED BY <1>1, <1>2, <3>3, <3>4, FilledLess
  <2> QED BY <1>2, <2>1, <2>4 DEF KeyInv, KeyQueue
<1> QED BY <1>3, <1>4, <1>5, <1>6, <1>7, <1>8, <1>9 DEF K!Next

\* What PressesAreStored says of a step.
Stored ==
  \A k \in K!Keys, press \in BOOLEAN :
    K!keyboard_irq_handler(k, press) /\ Len(K!Contents(kring)) < KeyboardSize - 1 =>
      K!Contents(kring)' = K!Contents(kring) \o
        (IF press /\ k \in Printable THEN <<<<k, "shift" \in modifiers>>>> ELSE <<>>)

\* The handler appends the character of a press to the contents, if there is room.
LEMMA PressStored == KeyInv => Stored
<1> SUFFICES ASSUME KeyInv, NEW k \in K!Keys, NEW press \in BOOLEAN,
                    K!keyboard_irq_handler(k, press),
                    Len(K!Contents(kring)) < KeyboardSize - 1
             PROVE  K!Contents(kring)' = K!Contents(kring) \o
                      (IF press /\ k \in Printable THEN <<<<k, "shift" \in modifiers>>>>
                       ELSE <<>>)
  BY DEF Stored
<1> DEFINE N == KeyboardSize
           V == K!Chars \cup {K!Zero}
           c == ContentsN(N, kring)
<1>1. N \in Nat \ {0, 1} /\ kring \in Ring(N, V)
  BY InputAssumption DEF KeyInv
<1>2. c \in Seq(V) /\ Len(c) = Count(N, kring) /\ Len(c) < N - 1 /\ Len(c) # N - 1
  <2>1. c \in Seq(V) /\ Len(c) = Count(N, kring) /\ Count(N, kring) \in Nat
    BY <1>1, RingContents
  <2>2. Len(c) < N - 1
    BY KeyboardRing
  <2> QED BY <1>1, <2>1, <2>2
<1>3. K!Contents(kring) = c /\ K!Contents(kring)' = ContentsN(N, kring')
  BY KeyboardRing
<1>4. CASE ~(press /\ k \in Printable)
  <2>1. kring' = kring
    BY <1>4 DEF K!keyboard_irq_handler
  <2>2. c \o <<>> = c
    <3> HIDE DEF c
    <3> QED BY <1>2
  <2> QED BY <1>3, <1>4, <2>1, <2>2
<1>5. CASE press /\ k \in Printable
  <2>1. PICK v : v = K!Ascii(k)
    OBVIOUS
  <2>2. v \in V /\ v = <<k, "shift" \in modifiers>>
    <3>1. ("shift" \in modifiers) \in BOOLEAN
      OBVIOUS
    <3>2. v = <<k, "shift" \in modifiers>>
      BY <2>1 DEF K!Ascii
    <3>3. v \in Printable \X BOOLEAN
      BY <1>5, <3>1, <3>2, Zenon
    <3> QED BY <3>2, <3>3, Zenon DEF K!Chars
  <2>3. kring' = InsertN(N, kring, v)
    BY <1>5, <2>1, KeyboardRing DEF K!keyboard_irq_handler
  <2>4. ContentsN(N, InsertN(N, kring, v)) = Append(c, v)
    <3>1. v \in V /\ Count(N, kring) # N - 1
      BY <1>2, <2>2
    <3> QED BY <1>1, <3>1, RingInsert
  <2>5. Append(c, v) = c \o <<v>>
    <3>1. v \in V
      BY <2>2, Zenon
    <3> HIDE DEF c, V
    <3> QED BY <1>2, <3>1
  <2>6. K!Contents(kring)' = c \o <<v>>
    BY <1>3, <2>3, <2>4, <2>5
  <2> QED BY <1>3, <1>5, <2>2, <2>6, Zenon
<1> QED BY <1>4, <1>5

-----------------------------------------------------------------------------
(* The mouse *)

Packets == {M!Decode(bytes) : bytes \in M!Bytes \X M!Bytes \X M!Bytes}

\* The bytes of the packet that is being assembled are bytes the device sent, and
\* unless one was lost the driver knows which byte of a packet comes next.
Assembling ==
  /\ packet_bytes \in [1 .. 3 -> 0 .. 255]
  /\ packet_stage \in 0 .. 2 /\ position \in 0 .. 2
  /\ packet_stage # 0 => packet_bytes[1] \in M!Bytes
  /\ packet_stage = 2 => packet_bytes[2] \in M!Bytes
  /\ M!InStep

MouseInv ==
  /\ mring \in Ring(MouseSize, Packets \cup {M!NoPacket})
  /\ mpc # "idle" => mring.read # mring.write
  /\ mcallbacks \in [0 .. (MouseCallbacks - 1) -> Callbacks \cup {Null}]
  /\ mcount = Cardinality(Filled(mcallbacks, MouseCallbacks))
  /\ Assembling

MouseQueue == Queue(MouseSize, mpc, mring)

\* The operations of RingBuffer.tla with the mouse's size.
LEMMA MouseRing ==
  /\ \A r, v : M!Insert(r, v) = InsertN(MouseSize, r, v)
  /\ \A r : M!Advance(r) = AdvanceN(MouseSize, r)
  /\ \A r : M!Contents(r) = ContentsN(MouseSize, r)
BY DEF M!Insert, M!Advance, M!Contents, InsertN, AdvanceN, ContentsN, Count, At

\* What the mouse's reader waits for, as the abstract queue names it.
LEMMA MouseQueueRead ==
  (IF mpc = "advance" THEN Tail(M!Contents(mring)) ELSE M!Contents(mring)) = MouseQueue
BY MouseRing DEF MouseQueue, Queue

\* mouse_init empties the buffer and starts with the first byte of a packet.
LEMMA MouseInit == M!Init => MouseInv /\ M!Fifo!Init
<1> SUFFICES ASSUME M!Init PROVE MouseInv /\ M!Fifo!Init
  OBVIOUS
<1> DEFINE N == MouseSize
<1>1. N \in Nat \ {0, 1} /\ MouseCallbacks \in Nat
  BY InputAssumption
<1>2. mring = [buffer |-> [k \in 0 .. (N - 1) |-> M!NoPacket], read |-> 0, write |-> 0]
      /\ mcallbacks = [i \in 0 .. (MouseCallbacks - 1) |-> Null] /\ mcount = 0
      /\ mpc = "idle" /\ event = M!NoPacket
  BY DEF M!Init, M!EmptyRing, M!Slots, M!NULL, Null
<1>3. mring \in Ring(N, Packets \cup {M!NoPacket}) /\ mring.read = mring.write
  BY <1>1, <1>2 DEF Ring
<1>4. Filled(mcallbacks, MouseCallbacks) = {}
  BY <1>2 DEF Filled
<1>5. Assembling
  BY DEF M!Init, Assembling, M!InStep
<1>6. MouseInv
  BY <1>2, <1>3, <1>4, <1>5, FS_EmptySet DEF MouseInv
<1>7. ContentsN(N, mring) = <<>>
  BY <1>1, <1>3, RingContents
<1>8. MouseQueue = <<>>
  BY <1>2, <1>7 DEF MouseQueue, Queue
<1> QED BY <1>2, <1>6, <1>8, MouseQueueRead DEF M!Fifo!Init

\* mouse_irq_handler on the next byte of the device.
LEMMA ByteStep ==
  ASSUME Assembling, M!Interrupt
  PROVE  /\ Assembling'
         /\ mring' = mring \/ \E v \in Packets : mring' = M!Insert(mring, v)
<1>1. PICK b \in IF position = 0 THEN FirstBytes ELSE Moves : M!mouse_irq_handler(b)
  BY DEF M!Interrupt
<1>2. position' = (position + 1) % 3 /\ lost' = lost
  BY DEF M!Interrupt
<1>3. /\ b \in M!Bytes /\ b \in 0 .. 255
      /\ position = 0 => M!Bit(b, 3)
  BY <1>1, InputAssumption DEF M!Bytes
<1>4. /\ packet_bytes \in [1 .. 3 -> 0 .. 255] /\ packet_stage \in 0 .. 2 /\ position \in 0 .. 2
      /\ packet_stage # 0 => packet_bytes[1] \in M!Bytes
      /\ packet_stage = 2 => packet_bytes[2] \in M!Bytes
      /\ ~lost => packet_stage = position
  BY DEF Assembling, M!InStep
<1>5. position' \in 0 .. 2
  BY <1>2, <1>4
<1>6. CASE packet_stage = 0 /\ ~M!Bit(b, 3)
  <2>1. UNCHANGED <<packet_bytes, packet_stage, mring>>
    BY <1>1, <1>6 DEF M!mouse_irq_handler
  <2>2. lost'
    BY <1>2, <1>3, <1>4, <1>6
  <2> QED BY <1>4, <1>5, <2>1, <2>2 DEF Assembling, M!InStep
<1>7. CASE ~(packet_stage = 0 /\ ~M!Bit(b, 3))
  <2>1. /\ packet_bytes' = [packet_bytes EXCEPT ![packet_stage + 1] = b]
        /\ packet_stage' = (packet_stage + 1) % 3
        /\ mring' = IF packet_stage = 2 THEN M!Insert(mring, M!Decode(packet_bytes')) ELSE mring
    BY <1>1, <1>7 DEF M!mouse_irq_handler
  <2>2. /\ packet_stage + 1 \in 1 .. 3
        /\ packet_bytes' \in [1 .. 3 -> 0 .. 255]
        /\ packet_bytes'[packet_stage + 1] = b
        /\ \A k \in 1 .. 3 : k # packet_stage + 1 => packet_bytes'[k] = packet_bytes[k]
    BY <1>3, <1>4, <2>1
  <2>3. packet_stage' \in 0 .. 2
    BY <1>4, <2>1
  <2>4. /\ packet_stage' # 0 => packet_bytes'[1] \in M!Bytes
        /\ packet_stage' = 2 => packet_bytes'[2] \in M!Bytes
    <3>1. CASE packet_stage = 0
      BY <1>3, <2>1, <2>2, <3>1
    <3>2. CASE packet_stage = 1
      BY <1>3, <1>4, <2>1, <2>2, <3>2
    <3>3. CASE packet_stage = 2
      BY <2>1, <3>3
    <3> QED BY <1>4, <3>1, <3>2, <3>3
  <2>5. ~lost' => packet_stage' = position'
    BY <1>2, <1>4, <2>1
  <2>6. Assembling'
    BY <1>5, <2>2, <2>3, <2>4, <2>5 DEF Assembling, M!InStep
  <2>7. CASE packet_stage = 2
    <3>1. packet_bytes'[1] \in M!Bytes /\ packet_bytes'[2] \in M!Bytes
          /\ packet_bytes'[3] \in M!Bytes
      BY <1>3, <1>4, <2>2, <2>7
    <3>2. M!Decode(packet_bytes')
          = M!Decode(<<packet_bytes'[1], packet_bytes'[2], packet_bytes'[3]>>)
      BY DEF M!Decode
    <3>3. PICK bytes \in M!Bytes \X M!Bytes \X M!Bytes :
            M!Decode(packet_bytes') = M!Decode(bytes)
      BY <3>1, <3>2
    <3>4. M!Decode(bytes) \in Packets
      BY Zenon DEF Packets
    <3>5. M!Decode(packet_bytes') \in Packets
      BY <3>3, <3>4, Zenon
    <3> QED BY <2>1, <2>6, <2>7, <3>5
  <2> QED BY <2>1, <2>6, <2>7
<1> QED BY <1>6, <1>7

\* Every step of the mouse driver keeps the invariant and is a step of the
\* abstract queue, or none.
LEMMA MouseStep ==
  MouseInv /\ M!Next => MouseInv' /\ (M!Fifo!Next \/ (MouseQueue' = MouseQueue /\ event' = event))
<1> SUFFICES ASSUME MouseInv, M!Next
             PROVE  MouseInv' /\ (M!Fifo!Next \/ (MouseQueue' = MouseQueue /\ event' = event))
  OBVIOUS
<1> DEFINE N == MouseSize
           V == Packets \cup {M!NoPacket}
<1>1. N \in Nat \ {0, 1} /\ MouseCallbacks \in Nat /\ Null \notin Callbacks
  BY InputAssumption DEF K!NULL, Null
<1>2. /\ mring \in Ring(N, V) /\ (mpc # "idle" => mring.read # mring.write)
      /\ mcallbacks \in [0 .. (MouseCallbacks - 1) -> Callbacks \cup {Null}]
      /\ mcount = Cardinality(Filled(mcallbacks, MouseCallbacks))
      /\ Assembling
  BY DEF MouseInv
<1>0. ASSUME UNCHANGED <<packet_bytes, packet_stage, position, lost>> PROVE Assembling'
  BY <1>0, <1>2 DEF Assembling, M!InStep
<1>3. CASE M!Interrupt
  <2>1. UNCHANGED <<mcallbacks, mcount, mpc, event>>
    BY <1>3 DEF M!Interrupt
  <2>2. Assembling' /\ (mring' = mring \/ \E v \in Packets : mring' = M!Insert(mring, v))
    BY <1>2, <1>3, ByteStep
  <2>3. CASE mring' = mring
    BY <1>2, <2>1, <2>2, <2>3 DEF MouseInv, MouseQueue
  <2>4. CASE \E v \in Packets : mring' = M!Insert(mring, v)
    <3>1. PICK v \in Packets : mring' = InsertN(N, mring, v)
      BY <2>4, MouseRing
    <3>2. /\ mring' \in Ring(N, V) /\ (mring.read # mring.write => mring'.read # mring'.write)
          /\ \/ Queue(N, mpc, mring') = Queue(N, mpc, mring)
             \/ /\ Len(Queue(N, mpc, mring)) < N - 1
                /\ Queue(N, mpc, mring') = Append(Queue(N, mpc, mring), v)
      <4>1. mpc = "advance" => mring.read # mring.write
        BY <1>2
      <4>2. mring \in Ring(N, V) /\ v \in V /\ N \in Nat \ {0, 1}
        BY <1>1, <1>2, <3>1
      <4> HIDE DEF N, V
      <4>3. PICK s : s = mring' /\ s = InsertN(N, mring, v)
        BY <3>1
      <4>4. /\ s \in Ring(N, V)
            /\ mring.read # mring.write => s.read # s.write
            /\ \/ Queue(N, mpc, s) = Queue(N, mpc, mring)
               \/ /\ Len(Queue(N, mpc, mring)) < N - 1
                  /\ Queue(N, mpc, s) = Append(Queue(N, mpc, mring), v)
        BY <4>1, <4>2, <4>3, QueueInsert
      <4> QED BY <4>3, <4>4
    <3>3. MouseInv'
      BY <1>2, <2>1, <2>2, <3>2 DEF MouseInv
    <3>4. MouseQueue' = MouseQueue
          \/ (Len(MouseQueue) < N - 1 /\ MouseQueue' = Append(MouseQueue, v))
      BY <2>1, <3>2 DEF MouseQueue
    <3>5. Len(MouseQueue) < N - 1 /\ MouseQueue' = Append(MouseQueue, v) => M!Fifo!Put
      <4>1. MouseQueue' = IF mpc = "advance" THEN Tail(M!Contents(mring))' ELSE M!Contents(mring)'
        BY <2>1, MouseRing DEF MouseQueue, Queue
      <4> HIDE DEF N
      <4> QED BY <2>1, <3>1, <4>1, MouseQueueRead, Zenon DEF M!Fifo!Put, Packets, N
    <3> QED BY <2>1, <3>3, <3>4, <3>5 DEF M!Fifo!Next
  <2> QED BY <2>2, <2>3, <2>4
<1>4. CASE M!LoseByte
  <2>1. UNCHANGED <<packet_bytes, packet_stage, mring, mcallbacks, mcount, mpc, event>>
        /\ position' = (position + 1) % 3 /\ lost'
    BY <1>4 DEF M!LoseByte
  <2>2. Assembling'
    BY <1>2, <2>1 DEF Assembling, M!InStep
  <2> QED BY <1>2, <2>1, <2>2 DEF MouseInv, MouseQueue
<1>5. CASE M!ReadNothing
  <2>1. /\ mpc = "idle" /\ mring.read = mring.write /\ event' = M!NoPacket
        /\ UNCHANGED <<mring, mcallbacks, mcount, mpc>> /\ Assembling'
    BY <1>0, <1>5 DEF M!ReadNothing, M!IsEmpty
  <2>2. MouseInv'
    BY <1>2, <2>1 DEF MouseInv
  <2>3. MouseQueue = <<>> /\ MouseQueue' = MouseQueue
    BY <1>1, <1>2, <2>1, RingContents DEF MouseQueue, Queue
  <2>4. M!Fifo!TakeNothing
    BY <2>1, <2>3, MouseQueueRead, MouseRing DEF M!Fifo!TakeNothing, MouseQueue, Queue
  <2> QED BY <2>2, <2>4 DEF M!Fifo!Next
<1>6. CASE M!ReadStart
  <2>1. /\ mpc = "idle" /\ mring.read # mring.write /\ mpc' = "fetch"
        /\ UNCHANGED <<mring, mcallbacks, mcount, event>> /\ Assembling'
    BY <1>0, <1>6 DEF M!ReadStart, M!IsEmpty
  <2> QED BY <1>2, <2>1 DEF MouseInv, MouseQueue, Queue
<1>7. CASE M!ReadFetch
  <2>1. /\ mpc = "fetch" /\ event' = mring.buffer[mring.read] /\ mpc' = "advance"
        /\ UNCHANGED <<mring, mcallbacks, mcount>> /\ Assembling'
    BY <1>0, <1>7 DEF M!ReadFetch
  <2>2. MouseInv'
    BY <1>2, <2>1 DEF MouseInv
  <2>3. /\ ContentsN(N, mring) # <<>> /\ Head(ContentsN(N, mring)) = mring.buffer[mring.read]
    BY <1>1, <1>2, <2>1, RingAdvance
  <2>4. MouseQueue = ContentsN(N, mring) /\ MouseQueue' = Tail(ContentsN(N, mring))
    BY <2>1 DEF MouseQueue, Queue
  <2>5. M!Fifo!Take
    BY <2>1, <2>3, <2>4, MouseQueueRead, MouseRing DEF M!Fifo!Take, MouseQueue, Queue
  <2> QED BY <2>2, <2>5 DEF M!Fifo!Next
<1>8. CASE M!ReadAdvance
  <2>1. /\ mpc = "advance" /\ mring' = AdvanceN(N, mring) /\ mpc' = "idle"
        /\ UNCHANGED <<mcallbacks, mcount, event>> /\ Assembling'
    BY <1>0, <1>8, MouseRing DEF M!ReadAdvance
  <2>2. AdvanceN(N, mring) \in Ring(N, V)
        /\ ContentsN(N, AdvanceN(N, mring)) = Tail(ContentsN(N, mring))
    BY <1>1, <1>2, <2>1, RingAdvance
  <2>3. MouseInv'
    BY <1>2, <2>1, <2>2 DEF MouseInv
  <2>4. MouseQueue' = MouseQueue
    BY <2>1, <2>2 DEF MouseQueue, Queue
  <2> QED BY <2>1, <2>3, <2>4
<1>9. ASSUME NEW c \in Callbacks, M!mouse_register_callback(c)
      PROVE  MouseInv' /\ MouseQueue' = MouseQueue /\ event' = event
  <2>1. UNCHANGED <<mring, mpc, event>> /\ mcount' = mcount + 1 /\ Assembling'
    BY <1>0, <1>9 DEF M!mouse_register_callback
  <2>2. PICK empty : empty = {i \in 0 .. (MouseCallbacks - 1) : mcallbacks[i] = Null}
    OBVIOUS
  <2>3. /\ empty # {}
        /\ mcallbacks' = [mcallbacks EXCEPT ![CHOOSE i \in empty : \A j \in empty : i <= j] = c]
    BY <1>9, <2>2 DEF M!mouse_register_callback, M!Slots, M!NULL, Null
  <2>4. /\ mcallbacks' \in [0 .. (MouseCallbacks - 1) -> Callbacks \cup {Null}]
        /\ Cardinality(Filled(mcallbacks', MouseCallbacks))
             = Cardinality(Filled(mcallbacks, MouseCallbacks)) + 1
    <3>1. PICK k : k = CHOOSE i \in empty : \A j \in empty : i <= j
      OBVIOUS
    <3>2. k \in empty
      <4>1. empty \in SUBSET (0 .. (MouseCallbacks - 1))
        BY <2>2
      <4>2. (CHOOSE i \in empty : \A j \in empty : i <= j) \in empty
        BY <1>1, <2>3, <4>1, FirstOfSet, Zenon
      <4> QED BY <3>1, <4>2, Zenon
    <3>3. mcallbacks' = [mcallbacks EXCEPT ![k] = c]
      BY <2>3, <3>1, Zenon
    <3>4. k \in 0 .. (MouseCallbacks - 1) /\ mcallbacks[k] = Null
      BY <1>1, <2>2, <3>2
    <3> QED BY <1>1, <1>2, <3>3, <3>4, FilledMore
  <2> QED BY <1>2, <2>1, <2>4 DEF MouseInv, MouseQueue
<1>10. ASSUME NEW c \in Callbacks, M!mouse_unregister_callback(c)
       PROVE  MouseInv' /\ MouseQueue' = MouseQueue /\ event' = event
  <2>1. UNCHANGED <<mring, mpc, event>> /\ mcount' = mcount - 1 /\ Assembling'
    BY <1>0, <1>10 DEF M!mouse_unregister_callback
  <2>2. PICK found : found = {i \in 0 .. (MouseCallbacks - 1) : mcallbacks[i] = c}
    OBVIOUS
  <2>3. /\ found # {}
        /\ mcallbacks' = [mcallbacks EXCEPT ![CHOOSE i \in found : \A j \in found : i <= j] = Null]
    BY <1>10, <2>2 DEF M!mouse_unregister_callback, M!Slots, M!NULL, Null
  <2>4. /\ mcallbacks' \in [0 .. (MouseCallbacks - 1) -> Callbacks \cup {Null}]
        /\ Cardinality(Filled(mcallbacks', MouseCallbacks))
             = Cardinality(Filled(mcallbacks, MouseCallbacks)) - 1
    <3>1. PICK k : k = CHOOSE i \in found : \A j \in found : i <= j
      OBVIOUS
    <3>2. k \in found
      <4>1. found \in SUBSET (0 .. (MouseCallbacks - 1))
        BY <2>2
      <4>2. (CHOOSE i \in found : \A j \in found : i <= j) \in found
        BY <1>1, <2>3, <4>1, FirstOfSet, Zenon
      <4> QED BY <3>1, <4>2, Zenon
    <3>3. mcallbacks' = [mcallbacks EXCEPT ![k] = Null]
      BY <2>3, <3>1, Zenon
    <3>4. k \in 0 .. (MouseCallbacks - 1) /\ mcallbacks[k] # Null
      BY <1>1, <2>2, <3>2
    <3> QED BY <1>1, <1>2, <3>3, <3>4, FilledLess
  <2> QED BY <1>2, <2>1, <2>4 DEF MouseInv, MouseQueue
<1> QED BY <1>3, <1>4, <1>5, <1>6, <1>7, <1>8, <1>9, <1>10 DEF M!Next

\* int8_t keeps the values it can hold and wraps the upper half of a byte.
LEMMA Int8Values ==
  /\ \A v \in -128 .. 127 : M!Int8(v) = v
  /\ \A v \in 128 .. 255 : M!Int8(v) = v - 256
<1>1. ASSUME NEW v \in -128 .. 127 PROVE M!Int8(v) = v
  <2>1. v + 128 \in 0 .. 255
    OBVIOUS
  <2>2. (v + 128) % 256 = v + 128
    BY <2>1
  <2> QED BY <2>2 DEF M!Int8
<1>2. ASSUME NEW v \in 128 .. 255 PROVE M!Int8(v) = v - 256
  <2>1. (v + 128) % 256 = v - 128
    OBVIOUS
  <2> QED BY <2>1 DEF M!Int8
<1> QED BY <1>1, <1>2

\* Setting the high bits of a value that is not negative takes 256 off it, and a
\* negative byte already has them.
LEMMA OrHighValues ==
  /\ \A v \in 0 .. 255 : M!OrHigh(v) = v - 256
  /\ \A v \in -256 .. -1 : M!OrHigh(v) = v
<1>1. ASSUME NEW v \in 0 .. 255 PROVE M!OrHigh(v) = v - 256
  <2>1. v % 256 = v
    OBVIOUS
  <2> QED BY <2>1 DEF M!OrHigh
<1>2. ASSUME NEW v \in -256 .. -1 PROVE M!OrHigh(v) = v
  <2>1. v % 256 = v + 256
    OBVIOUS
  <2> QED BY <2>1 DEF M!OrHigh
<1> QED BY <1>1, <1>2

\* The sign extension of the horizontal movement is exact for every value that
\* fits, and the negation of the vertical one is too.
LEMMA DecodeExact == Assembling => M!MovementExact
<1> SUFFICES ASSUME Assembling
             PROVE  /\ M!FitsInt8(M!XSent) => M!Decode(packet_bytes).x = M!XSent
                    /\ M!FitsInt8(-M!YSent) => M!Decode(packet_bytes).y = -M!YSent
  BY DEF M!MovementExact
<1>1. PICK f : f = packet_bytes[1]
  OBVIOUS
<1>2. PICK b \in 0 .. 255 : b = packet_bytes[2]
  BY DEF Assembling
<1>3. PICK c \in 0 .. 255 : c = packet_bytes[3]
  BY DEF Assembling
<1>4. M!Decode(packet_bytes).x = M!XMovement(f, b) /\ M!Decode(packet_bytes).y = M!YMovement(f, c)
  BY <1>1, <1>2, <1>3 DEF M!Decode
<1>5. M!XSent = b - (IF M!Bit(f, 4) THEN 256 ELSE 0) /\ M!YSent = c - (IF M!Bit(f, 5) THEN 256 ELSE 0)
  BY <1>1, <1>2, <1>3 DEF M!XSent, M!YSent
<1>6. ASSUME M!FitsInt8(M!XSent) PROVE M!XMovement(f, b) = M!XSent
  <2>1. CASE ~M!Bit(f, 4)
    <3>1. b \in -128 .. 127 /\ M!XSent = b
      BY <1>5, <1>6, <2>1 DEF M!FitsInt8
    <3>2. M!Int8(b) = b
      BY <3>1, Int8Values
    <3> QED BY <2>1, <3>1, <3>2 DEF M!XMovement
  <2>2. CASE M!Bit(f, 4)
    <3>1. b \in 128 .. 255 /\ M!XSent = b - 256
      BY <1>5, <1>6, <2>2 DEF M!FitsInt8
    <3>2. M!Int8(b) = b - 256
      BY <3>1, Int8Values
    <3>3. b - 256 \in -256 .. -1 /\ b - 256 \in -128 .. 127
      BY <3>1
    <3>4. M!OrHigh(b - 256) = b - 256 /\ M!Int8(b - 256) = b - 256
      BY <3>3, OrHighValues, Int8Values
    <3> QED BY <2>2, <3>1, <3>2, <3>4 DEF M!XMovement
  <2> QED BY <2>1, <2>2
<1>7. ASSUME M!FitsInt8(-M!YSent) PROVE M!YMovement(f, c) = -M!YSent
  <2>1. CASE ~M!Bit(f, 5)
    <3>1. c \in 0 .. 128 /\ M!YSent = c
      BY <1>5, <1>7, <2>1 DEF M!FitsInt8
    <3>2. M!Int8(-M!Int8(c)) = -c
      <4>1. CASE c = 128
        <5>1. M!Int8(128) \in Int /\ M!Int8(128) + 256 = 128 /\ M!Int8(128) = -128
          BY Int8Values
        <5>2. \A v \in Int : v + 256 = 128 => -v = 128
          OBVIOUS
        <5>3. -M!Int8(128) = 128
          BY <5>1, <5>2
        <5> QED BY <4>1, <5>1, <5>3
      <4>2. CASE c # 128
        <5>1. c \in -128 .. 127 /\ -c \in -128 .. 127
          BY <3>1, <4>2
        <5> QED BY <5>1, Int8Values
      <4> QED BY <4>1, <4>2
    <3> QED BY <2>1, <3>1, <3>2 DEF M!YMovement
  <2>2. CASE M!Bit(f, 5)
    <3>1. c \in 129 .. 255 /\ -M!YSent = 256 - c
      BY <1>5, <1>7, <2>2 DEF M!FitsInt8
    <3>2. M!Int8(c) = c - 256
      BY <3>1, Int8Values
    <3>3. -(c - 256) = 256 - c /\ 256 - c \in 0 .. 255 /\ 256 - c \in -128 .. 127
          /\ (256 - c) - 256 = -c
      BY <3>1
    <3>4. M!Int8(-M!Int8(c)) = 256 - c
      BY <3>2, <3>3, Int8Values
    <3>5. M!OrHigh(256 - c) = -c
      BY <3>3, OrHighValues
    <3>6. M!Int8(-c) = 256 - c
      <4>1. (-c + 128) % 256 = 384 - c
        BY <3>1
      <4> QED BY <4>1 DEF M!Int8
    <3> QED BY <2>2, <3>1, <3>4, <3>5, <3>6 DEF M!YMovement
  <2> QED BY <2>1, <2>2
<1> QED BY <1>4, <1>6, <1>7

-----------------------------------------------------------------------------
(* The drivers together *)

InputInv == KeyInv /\ MouseInv

\* With the count equal to the number of filled slots, the first slots without a
\* hole are below the count, so their callbacks are called.
LEMMA AllReached == InputInv => CallbacksReached
<1> SUFFICES ASSUME InputInv PROVE CallbacksReached
  OBVIOUS
<1>1. KeyboardCallbacks \in Nat /\ MouseCallbacks \in Nat
  BY InputAssumption
<1>2. ASSUME NEW i \in 0 .. (KeyboardCallbacks - 1), \A j \in 0 .. i : kcallbacks[j] # Null
      PROVE  kcallbacks[i] \in K!Called
  <2>1. i < kcount
    BY <1>1, <1>2, FilledPrefix DEF InputInv, KeyInv
  <2>2. kcallbacks[i] # Null
    BY <1>2
  <2> QED BY <2>1, <2>2 DEF K!Called, K!Slots, K!NULL, Null
<1>3. ASSUME NEW i \in 0 .. (MouseCallbacks - 1), \A j \in 0 .. i : mcallbacks[j] # Null
      PROVE  mcallbacks[i] \in M!Called
  <2>1. i < mcount
    BY <1>1, <1>3, FilledPrefix DEF InputInv, MouseInv
  <2>2. mcallbacks[i] # Null
    BY <1>3
  <2> QED BY <2>1, <2>2 DEF M!Called, M!Slots, M!NULL, Null
<1> QED BY <1>2, <1>3 DEF CallbacksReached, K!CallbacksReached, M!CallbacksReached,
                          K!Slots, M!Slots, K!NULL, M!NULL, Null

\* What one step of either driver does to the two abstract queues.
LEMMA InputStep ==
  InputInv /\ [Next]_vars =>
    /\ InputInv'
    /\ K!Fifo!Next \/ (KeyQueue' = KeyQueue /\ key' = key)
    /\ M!Fifo!Next \/ (MouseQueue' = MouseQueue /\ event' = event)
<1> SUFFICES ASSUME InputInv, [Next]_vars
             PROVE  /\ InputInv'
                    /\ K!Fifo!Next \/ (KeyQueue' = KeyQueue /\ key' = key)
                    /\ M!Fifo!Next \/ (MouseQueue' = MouseQueue /\ event' = event)
  OBVIOUS
<1>1. ASSUME UNCHANGED kvars PROVE KeyInv' /\ KeyQueue' = KeyQueue /\ key' = key
  BY <1>1 DEF kvars, InputInv, KeyInv, KeyQueue
<1>2. ASSUME UNCHANGED mvars PROVE MouseInv' /\ MouseQueue' = MouseQueue /\ event' = event
  BY <1>2 DEF mvars, InputInv, MouseInv, MouseQueue, Assembling, M!InStep
<1>3. CASE K!Next /\ UNCHANGED mvars
  BY <1>2, <1>3, KeyStep DEF InputInv
<1>4. CASE M!Next /\ UNCHANGED kvars
  BY <1>1, <1>4, MouseStep DEF InputInv
<1>5. CASE UNCHANGED vars
  BY <1>1, <1>2, <1>5 DEF InputInv, vars
<1> QED BY <1>3, <1>4, <1>5 DEF Next

\* In every reachable state the indices of both buffers are in range, a reader
\* past its test has something to read, and the callback counts are the numbers of
\* registered callbacks.
LEMMA InputInvariant == Spec => []InputInv
<1>1. Init => InputInv
  BY KeyInit, MouseInit DEF Init, InputInv
<1>2. InputInv /\ [Next]_vars => InputInv'
  BY InputStep
<1> QED BY <1>1, <1>2, PTL DEF Spec

\* The packet assembly of mouse_irq_handler stays in step with a device that loses
\* no byte, and its decoding reports every movement that fits exactly.
THEOREM MovementsAreExact == Spec => []MovementExact
<1>1. InputInv => MovementExact
  BY DecodeExact DEF InputInv, MouseInv, Assembling, MovementExact
<1> QED BY <1>1, InputInvariant, PTL

\* Registering and unregistering in any order leaves every callback that has no
\* hole before it among those the handlers call.
THEOREM CallbacksAreReached == Spec => []CallbacksReached
BY AllReached, InputInvariant, PTL

\* The keyboard's handler stores the character of a press, and only that, at the
\* end of the buffer when there is room, at whatever step the reader is.
THEOREM PressesStored == Spec => PressesAreStored
<1>1. InputInv => Stored
  BY PressStored DEF InputInv
<1>2. Stored => [Stored]_(K!vars)
  OBVIOUS
<1>3. PressesAreStored <=> [][Stored]_(K!vars)
  BY DEF PressesAreStored, K!PressesAreStored, Stored
<1> QED BY <1>1, <1>2, <1>3, InputInvariant, PTL

\* Both drivers are bounded queues: with the handler between any two shared
\* accesses of the reader, values leave in the order they came, each once.
THEOREM DriversAreQueues == Spec => Fifo
<1>1. Init => K!Fifo!Init /\ M!Fifo!Init
  BY KeyInit, MouseInit DEF Init
<1>2. ASSUME InputInv, [Next]_vars
      PROVE  [K!Fifo!Next]_<<IF kpc = "advance" THEN Tail(K!Contents(kring))
                             ELSE K!Contents(kring), key>>
  <2>1. (IF kpc = "advance" THEN Tail(K!Contents(kring)) ELSE K!Contents(kring))' = KeyQueue'
    BY KeyboardRing DEF KeyQueue, Queue
  <2>2. K!Fifo!Next \/ (KeyQueue' = KeyQueue /\ key' = key)
    BY <1>2, InputStep
  <2> QED BY <2>1, <2>2, KeyboardQueue
<1>3. ASSUME InputInv, [Next]_vars
      PROVE  [M!Fifo!Next]_<<IF mpc = "advance" THEN Tail(M!Contents(mring))
                             ELSE M!Contents(mring), event>>
  <2>1. (IF mpc = "advance" THEN Tail(M!Contents(mring)) ELSE M!Contents(mring))' = MouseQueue'
    BY MouseRing DEF MouseQueue, Queue
  <2>2. M!Fifo!Next \/ (MouseQueue' = MouseQueue /\ event' = event)
    BY <1>3, InputStep
  <2> QED BY <2>1, <2>2, MouseQueueRead
<1>4. Spec => K!ImplementsFifo
  BY <1>1, <1>2, InputInvariant, PTL DEF Spec, K!ImplementsFifo, K!Fifo!Spec
<1>5. Spec => M!ImplementsFifo
  BY <1>1, <1>3, InputInvariant, PTL DEF Spec, M!ImplementsFifo, M!Fifo!Spec
<1> QED BY <1>4, <1>5 DEF Fifo

=============================================================================
