------------------------- MODULE RingArithmeticProofs -------------------------
(***************************************************************************)
(* What the index computations of the rings do, for every capacity: the    *)
(* facts that the proofs about the three rings cite.                       *)
(***************************************************************************)
EXTENDS RingArithmetic, WellFoundedInduction, TLAPS

\* Below twice the capacity, % is one subtraction (Session.h:111-120).
LEMMA ModOnce ==
    ASSUME NEW N \in Nat \ {0}, NEW a \in 0..2 * N - 1
    PROVE  a % N = IF a < N THEN a ELSE a - N
  OBVIOUS

\* Advancing by no more than the capacity wraps around at most once
\* (SessionBuffers' AdvanceHead and AdvanceTail, Session.h).
LEMMA AdvanceOnce ==
    ASSUME NEW N \in Nat \ {0}, NEW a \in 0..N - 1, NEW n \in 0..N
    PROVE  /\ Advance(N, a, n) = IF a + n < N THEN a + n ELSE a + n - N
           /\ Advance(N, a, n) \in 0..N - 1
  <1>1. (a + n) % N = IF a + n < N THEN a + n ELSE a + n - N
    OBVIOUS
  <1> QED
    BY <1>1 DEF Advance

\* Advancing by nothing.
LEMMA AdvanceZero ==
    ASSUME NEW N \in Nat \ {0}, NEW a \in 0..N - 1
    PROVE  Advance(N, a, 0) = a
  <1>1. Advance(N, a, 0) = IF a + 0 < N THEN a + 0 ELSE a + 0 - N
    BY AdvanceOnce
  <1> QED
    BY <1>1

\* Any advance ends at a slot.
LEMMA AdvanceType ==
    ASSUME NEW N \in Nat \ {0}, NEW a \in Nat, NEW n \in Nat
    PROVE  Advance(N, a, n) \in 0..N - 1
  BY DEF Advance

\* A ring never holds as many cells as it has slots.
LEMMA SizeType ==
    ASSUME NEW N \in Nat \ {0}, NEW h \in 0..N - 1, NEW t \in 0..N - 1
    PROVE  /\ GetRingBufferSize(N, h, t) \in 0..N - 1
           /\ Available(N, h, t) \in 0..N - 1
           /\ Available(N, h, t) = N - GetRingBufferSize(N, h, t) - 1
           /\ GetRingBufferSize(N, h, t) = 0 <=> h = t
  BY DEF GetRingBufferSize, Available

\* A reader that advances the head by what it has read takes a prefix away.
LEMMA AdvanceHeadDropsPrefix ==
    ASSUME NEW N \in Nat \ {0}, NEW h \in 0..N - 1, NEW t \in 0..N - 1,
           NEW n \in 0..GetRingBufferSize(N, h, t)
    PROVE  /\ Advance(N, h, n) \in 0..N - 1
           /\ GetRingBufferSize(N, Advance(N, h, n), t)
                = GetRingBufferSize(N, h, t) - n
           /\ \A i \in Nat : n + i =< N
                => Advance(N, Advance(N, h, n), i) = Advance(N, h, n + i)
  <1>1. n \in 0..N
    BY SizeType
  <1>2. /\ Advance(N, h, n) = IF h + n < N THEN h + n ELSE h + n - N
        /\ Advance(N, h, n) \in 0..N - 1
    BY <1>1, AdvanceOnce
  <1>3. GetRingBufferSize(N, Advance(N, h, n), t) = GetRingBufferSize(N, h, t) - n
    BY <1>2 DEF GetRingBufferSize
  <1>4. ASSUME NEW i \in Nat, n + i =< N
        PROVE  Advance(N, Advance(N, h, n), i) = Advance(N, h, n + i)
    <2>1. i \in 0..N /\ n + i \in 0..N
      BY <1>1, <1>4
    <2>2. Advance(N, h, n + i) = IF h + (n + i) < N THEN h + (n + i) ELSE h + (n + i) - N
      BY <2>1, AdvanceOnce
    <2>3. Advance(N, Advance(N, h, n), i)
            = IF Advance(N, h, n) + i < N THEN Advance(N, h, n) + i
              ELSE Advance(N, h, n) + i - N
      BY <1>2, <2>1, AdvanceOnce
    <2> QED
      BY <1>1, <1>2, <2>1, <2>2, <2>3
  <1> QED
    BY <1>2, <1>3, <1>4

\* A writer that stays within the available slots adds what it has written.
LEMMA AdvanceTailAdds ==
    ASSUME NEW N \in Nat \ {0}, NEW h \in 0..N - 1, NEW t \in 0..N - 1,
           NEW n \in 0..Available(N, h, t)
    PROVE  /\ Advance(N, t, n) \in 0..N - 1
           /\ GetRingBufferSize(N, h, Advance(N, t, n))
                = GetRingBufferSize(N, h, t) + n
  <1>1. n \in 0..N
    BY SizeType
  <1>2. /\ Advance(N, t, n) = IF t + n < N THEN t + n ELSE t + n - N
        /\ Advance(N, t, n) \in 0..N - 1
    BY <1>1, AdvanceOnce
  <1> QED
    BY <1>2 DEF GetRingBufferSize, Available

\* Different offsets below the capacity are different slots.
LEMMA AdvanceInjective ==
    ASSUME NEW N \in Nat \ {0}, NEW h \in 0..N - 1,
           NEW i \in 0..N - 1, NEW j \in 0..N - 1
    PROVE  Advance(N, h, i) = Advance(N, h, j) => i = j
  <1>. i \in 0..N /\ j \in 0..N
    OBVIOUS
  <1>1. Advance(N, h, i) = IF h + i < N THEN h + i ELSE h + i - N
    BY AdvanceOnce
  <1>2. Advance(N, h, j) = IF h + j < N THEN h + j ELSE h + j - N
    BY AdvanceOnce
  <1> QED
    BY <1>1, <1>2

\* The slots behind the unread ones begin at the tail.
LEMMA TailIsBehindContent ==
    ASSUME NEW N \in Nat \ {0}, NEW h \in 0..N - 1, NEW t \in 0..N - 1,
           NEW i \in 0..N - GetRingBufferSize(N, h, t)
    PROVE  Advance(N, h, GetRingBufferSize(N, h, t) + i) = Advance(N, t, i)
  <1> DEFINE s == GetRingBufferSize(N, h, t)
  <1>1. s \in 0..N - 1
    BY SizeType
  <1>2. s + i \in 0..N /\ i \in 0..N
    BY <1>1
  <1>3. Advance(N, h, s + i) = IF h + (s + i) < N THEN h + (s + i) ELSE h + (s + i) - N
    BY <1>2, AdvanceOnce
  <1>4. Advance(N, t, i) = IF t + i < N THEN t + i ELSE t + i - N
    BY <1>2, AdvanceOnce
  <1> QED
    BY <1>1, <1>2, <1>3, <1>4 DEF GetRingBufferSize

\* What Write leaves at a slot: the slot at offset i behind the tail gets
\* element i + 1 of the data, if there is one.
LEMMA WriteAtOffset ==
    ASSUME NEW N \in Nat \ {0}, NEW t \in 0..N - 1, NEW i \in 0..N - 1,
           NEW buffer, DOMAIN buffer = 0..N - 1,
           NEW data, Len(data) \in Nat
    PROVE  Write(buffer, N, t, data)[Advance(N, t, i)]
             = IF i < Len(data) THEN data[i + 1] ELSE buffer[Advance(N, t, i)]
  <1> DEFINE slot == Advance(N, t, i)
  <1>1. /\ slot = IF t + i < N THEN t + i ELSE t + i - N
        /\ slot \in 0..N - 1
    BY AdvanceOnce
  <1>2. slot + N - t \in 0..2 * N - 1
    BY <1>1
  <1>3. (slot + N - t) % N = IF slot + N - t < N THEN slot + N - t
                             ELSE slot + N - t - N
    <2> HIDE DEF slot
    <2> QED
      BY <1>2, <1>1
  <1>4. (slot + N - t) % N = i
    BY <1>1, <1>3
  <1> HIDE DEF slot
  <1> QED
    BY <1>1, <1>4 DEF Write, slot

\* Writing to available slots leaves the unread ones as they are ...
LEMMA WriteKeepsContent ==
    ASSUME NEW N \in Nat \ {0}, NEW h \in 0..N - 1, NEW t \in 0..N - 1,
           NEW buffer, DOMAIN buffer = 0..N - 1,
           NEW data, Len(data) \in 0..Available(N, h, t),
           NEW i \in 0..GetRingBufferSize(N, h, t) - 1
    PROVE  Write(buffer, N, t, data)[Advance(N, h, i)] = buffer[Advance(N, h, i)]
  <1> DEFINE slot == Advance(N, h, i)
  <1>1. /\ GetRingBufferSize(N, h, t) \in 0..N - 1
        /\ Available(N, h, t) = N - GetRingBufferSize(N, h, t) - 1
    BY SizeType
  <1>2. i \in 0..N
    BY <1>1
  <1>3. /\ slot = IF h + i < N THEN h + i ELSE h + i - N
        /\ slot \in 0..N - 1
    BY <1>2, AdvanceOnce
  <1>4. slot + N - t \in 0..2 * N - 1
    BY <1>3
  <1>5. (slot + N - t) % N = IF slot + N - t < N THEN slot + N - t
                             ELSE slot + N - t - N
    <2> HIDE DEF slot
    <2> QED
      BY <1>4, <1>3
  <1>6. ~((slot + N - t) % N < Len(data))
    <2> DEFINE size == GetRingBufferSize(N, h, t)
               offset == (slot + N - t) % N
    <2>1. size = IF h =< t THEN t - h ELSE N - h + t
      BY DEF GetRingBufferSize
    <2>2. i \in 0..size - 1 /\ Len(data) \in 0..N - size - 1
      BY <1>1
    <2>3. offset = IF slot + N - t < N THEN slot + N - t ELSE slot + N - t - N
      BY <1>5
    <2>4. slot = IF h + i < N THEN h + i ELSE h + i - N
      BY <1>3
    <2> HIDE DEF size, slot, offset
    <2>5. offset >= N - size
      <3>1. CASE h =< t
        BY <2>1, <2>2, <2>3, <2>4, <3>1
      <3>2. CASE ~(h =< t)
        BY <2>1, <2>2, <2>3, <2>4, <3>2
      <3> QED
        BY <3>1, <3>2
    <2>6. size \in 0..N - 1 /\ offset \in Int
      BY <1>1, <1>3, <2>3 DEF size
    <2>7. ~(offset < Len(data))
      BY <2>2, <2>5, <2>6
    <2> QED
      BY <2>7 DEF offset
  <1> HIDE DEF slot
  <1> QED
    BY <1>3, <1>6 DEF Write, slot

\* ... and puts the data behind them.
LEMMA WriteAddsData ==
    ASSUME NEW N \in Nat \ {0}, NEW h \in 0..N - 1, NEW t \in 0..N - 1,
           NEW buffer, DOMAIN buffer = 0..N - 1,
           NEW data, Len(data) \in 0..Available(N, h, t),
           NEW i \in 0..Len(data) - 1
    PROVE  Write(buffer, N, t, data)[Advance(N, h, GetRingBufferSize(N, h, t) + i)]
             = data[i + 1]
  <1>1. /\ GetRingBufferSize(N, h, t) \in 0..N - 1
        /\ Available(N, h, t) = N - GetRingBufferSize(N, h, t) - 1
    BY SizeType
  <1>2. i \in 0..N - GetRingBufferSize(N, h, t) /\ i \in 0..N - 1
    BY <1>1
  <1>3. Advance(N, h, GetRingBufferSize(N, h, t) + i) = Advance(N, t, i)
    BY <1>2, TailIsBehindContent
  <1>4. Write(buffer, N, t, data)[Advance(N, t, i)] = data[i + 1]
    BY <1>2, WriteAtOffset
  <1> QED
    BY <1>3, <1>4

\* A buffer that is written to has the slots it had, and holds what the buffer
\* and the data held.
LEMMA WriteType ==
    ASSUME NEW N \in Nat \ {0}, NEW t \in 0..N - 1, NEW V,
           NEW buffer \in [0..N - 1 -> V], NEW data \in Seq(V)
    PROVE  Write(buffer, N, t, data) \in [0..N - 1 -> V]
  <1>1. ASSUME NEW slot \in 0..N - 1, (slot + N - t) % N < Len(data)
        PROVE  data[((slot + N - t) % N) + 1] \in V
    <2>1. slot + N - t \in Nat
      OBVIOUS
    <2>2. (slot + N - t) % N \in Nat
      BY <2>1
    <2> QED
      BY <1>1, <2>2
  <1> QED
    BY <1>1 DEF Write

\* As many slots are read as asked for, one after the other.
LEMMA ReadAt ==
    ASSUME NEW N, NEW h, NEW buffer, NEW n \in Nat
    PROVE  /\ Len(Read(buffer, N, h, n)) = n
           /\ \A i \in 1..n : Read(buffer, N, h, n)[i] = buffer[Advance(N, h, i - 1)]
  BY DEF Read

\* What is read is a sequence of what the slots hold.
LEMMA ReadType ==
    ASSUME NEW N \in Nat \ {0}, NEW h \in 0..N - 1, NEW V,
           NEW buffer \in [0..N - 1 -> V], NEW n \in Nat
    PROVE  Read(buffer, N, h, n) \in Seq(V)
  <1>1. \A i \in 1..n : Advance(N, h, i - 1) \in 0..N - 1
    BY AdvanceType
  <1>2. Read(buffer, N, h, n) \in [1..n -> V]
    BY <1>1 DEF Read
  <1> QED
    BY <1>2

\* Quotient and remainder, for the stream positions that the rings keep as
\* remainders (SpscRingBuffer.h:78, 85).
LEMMA QuotientAndRemainder ==
    ASSUME NEW B \in Nat \ {0}, NEW a \in Nat
    PROVE  /\ a \div B \in Nat
           /\ a % B \in 0..B - 1
           /\ a = B * (a \div B) + (a % B)
  OBVIOUS

\* There is one remainder (SpscRingBuffer.h:78, 85).
LEMMA RemainderIsUnique ==
    ASSUME NEW B \in Nat \ {0}, NEW p \in Nat, NEW q \in Nat,
           NEW r \in 0..B - 1, NEW s \in 0..B - 1,
           B * p + r = B * q + s
    PROVE  r = s
  <1>1. CASE p = q
    BY <1>1
  <1>2. CASE p < q
    <2>1. B * (q - p) >= B
      BY <1>2
    <2>2. B * (q - p) = B * q - B * p
      OBVIOUS
    <2> QED
      BY <2>1, <2>2
  <1>3. CASE q < p
    <2>1. B * (p - q) >= B
      BY <1>3
    <2>2. B * (p - q) = B * p - B * q
      OBVIOUS
    <2> QED
      BY <2>1, <2>2
  <1> QED
    BY <1>1, <1>2, <1>3

\* Advancing twice is advancing by the sum, however often it wraps around
\* (SpscRingBuffer.h:78, 85).
LEMMA RemainderOfSum ==
    ASSUME NEW B \in Nat \ {0}, NEW a \in Nat, NEW b \in Nat
    PROVE  ((a % B) + b) % B = (a + b) % B
  <1> DEFINE sum  == a + b
             q1   == a \div B
             r1   == a % B
             q2   == (r1 + b) \div B
             r2   == (r1 + b) % B
             q3   == sum \div B
             r3   == sum % B
  <1>1. q1 \in Nat /\ r1 \in 0..B - 1 /\ a = B * q1 + r1
    BY QuotientAndRemainder
  <1>2. r1 + b \in Nat
    BY <1>1
  <1>3. q2 \in Nat /\ r2 \in 0..B - 1 /\ r1 + b = B * q2 + r2
    <2> HIDE DEF r1
    <2> QED
      BY <1>2, QuotientAndRemainder
  <1>4. sum \in Nat
    OBVIOUS
  <1>5. q3 \in Nat /\ r3 \in 0..B - 1 /\ sum = B * q3 + r3
    <2> HIDE DEF sum
    <2> QED
      BY <1>4, QuotientAndRemainder
  <1>6. a + b = B * q3 + r3
    BY <1>5
  <1> HIDE DEF q1, r1, q2, r2, q3, r3
  <1>7. B * (q1 + q2) + r2 = B * q3 + r3
    <2>1. B * (q1 + q2) = B * q1 + B * q2
      BY <1>1, <1>3
    <2> QED
      BY <1>1, <1>3, <1>5, <1>6, <2>1
  <1>8. q1 + q2 \in Nat /\ q3 \in Nat
    BY <1>1, <1>3, <1>5
  <1>9. r2 = r3
    BY <1>7, <1>8, <1>3, <1>5, RemainderIsUnique
  <1> QED
    BY <1>9 DEF r1, r2, r3, sum

\* A nonempty set of numbers has a least one: how the facts about the headers of
\* the messages (Session.cpp:280-337) and about the results of ParallelFor
\* (ParallelExecutor.h:302-325) are proved without an induction over an operator.
LEMMA LeastNumber ==
    ASSUME NEW T \in SUBSET Nat, T # {}
    PROVE  \E k \in T : \A j \in T : k =< j
  <1>1. IsWellFoundedOn(OpToRel(<, Nat), Nat)
    BY NatLessThanWellFounded
  <1>2. PICK k \in T : \A j \in T : ~(<<j, k>> \in OpToRel(<, Nat))
    BY <1>1, WFMin
  <1>3. ASSUME NEW j \in T
        PROVE  k =< j
    <2>1. j \in Nat /\ k \in Nat
      OBVIOUS
    <2>2. ~(j < k)
      BY <1>2, <2>1 DEF OpToRel
    <2> QED
      BY <2>1, <2>2
  <1> QED
    BY <1>3
=============================================================================
