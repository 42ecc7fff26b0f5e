--------------------------- MODULE SessionProofs ---------------------------
(***************************************************************************)
(* Safety of Session for every window, capacity, layer stack, chunk size,  *)
(* split count and set of requests, and whichever GPU calls fail; first    *)
(* what its stores, rings and splits are, whoever uses them.               *)
(***************************************************************************)
EXTENDS Session, TLAPS, SequenceTheorems

-----------------------------------------------------------------------------
(* Arithmetic of slots and splits.                                          *)

(* The quotient and the remainder that `pos % RING` is computed with.       *)
LEMMA DivMod ==
  ASSUME NEW p \in Nat, NEW w \in Nat \ {0}
  PROVE  /\ p \div w \in Nat
         /\ p % w \in 0 .. w - 1
         /\ p = w * (p \div w) + (p % w)
  OBVIOUS

(* Multiples of the window are at least a window apart.                     *)
LEMMA MulStep ==
  ASSUME NEW w \in Nat, NEW i \in Int, NEW j \in Int, i < j
  PROVE  w * i + w <= w * j
  OBVIOUS

(* A number has one representation as quotient and remainder.               *)
LEMMA ModUnique ==
  ASSUME NEW w \in Nat \ {0}, NEW d \in Nat, NEW r \in 0 .. w - 1,
         NEW p, p = w * d + r
  PROVE  p \in Nat /\ p % w = r
<1>1. p \in Nat
  OBVIOUS
<1>2. /\ p \div w \in Nat /\ p % w \in 0 .. w - 1
      /\ p = w * (p \div w) + (p % w)
  BY <1>1, DivMod
<1>3. p \div w = d
  BY <1>2, MulStep
<1> QED BY <1>1, <1>2, <1>3

(* kv_append never writes outside the ring.                                 *)
LEMMA RingSlotInSlots ==
  ASSUME NEW p \in Nat
  PROVE  RingSlot(p) \in Slots
  BY WindowAssumption, DivMod DEF RingSlot, Slots

(* Positions less than a window apart never share a slot.                   *)
LEMMA RingSlotDistinct ==
  ASSUME NEW p \in Nat, NEW q \in Nat, p < q, q - p < Window
  PROVE  RingSlot(p) # RingSlot(q)
<1>1. /\ p \div Window \in Nat /\ p % Window \in 0 .. Window - 1
      /\ p = Window * (p \div Window) + (p % Window)
  BY WindowAssumption, DivMod
<1>2. /\ q \div Window \in Nat /\ q % Window \in 0 .. Window - 1
      /\ q = Window * (q \div Window) + (q % Window)
  BY WindowAssumption, DivMod
<1>3. CASE p \div Window < q \div Window
  BY <1>1, <1>2, <1>3, MulStep, WindowAssumption DEF RingSlot
<1>4. CASE p \div Window > q \div Window
  BY <1>1, <1>2, <1>4, MulStep, WindowAssumption DEF RingSlot
<1>5. CASE p \div Window = q \div Window
  BY <1>1, <1>2, <1>5, WindowAssumption DEF RingSlot
<1> QED BY <1>1, <1>2, <1>3, <1>4, <1>5

(* Every slot belongs to one of the last Window positions.                  *)
LEMMA RingSlotCovered ==
  ASSUME NEW q \in Nat, q + 1 >= Window, NEW s \in Slots
  PROVE  \E t \in FirstInWindow(q) .. q : RingSlot(t) = s
<1> DEFINE d == q \div Window
           r == q % Window
<1>1. /\ d \in Nat /\ r \in 0 .. Window - 1 /\ q = Window * d + r
  BY WindowAssumption, DivMod
<1> HIDE DEF d, r
<1>2. Window \in Nat \ {0} /\ s \in 0 .. Window - 1
  BY WindowAssumption DEF Slots
<1>3. CASE s <= r
  <2>1. /\ Window * d + s \in FirstInWindow(q) .. q
    BY <1>1, <1>2, <1>3 DEF FirstInWindow, LargerOf
  <2>2. RingSlot(Window * d + s) = s
    BY <1>1, <1>2, ModUnique DEF RingSlot
  <2> QED BY <2>1, <2>2
<1>4. CASE s > r
  <2>1. d - 1 \in Nat /\ Window * (d - 1) = Window * d - Window
    BY <1>1, <1>2, <1>4
  <2>2. Window * (d - 1) + s \in FirstInWindow(q) .. q
    BY <1>1, <1>2, <1>4, <2>1 DEF FirstInWindow, LargerOf
  <2>3. RingSlot(Window * (d - 1) + s) = s
    BY <2>1, <1>2, ModUnique DEF RingSlot
  <2> QED BY <2>2, <2>3
<1> QED BY <1>1, <1>2, <1>3, <1>4

(* Before the ring wraps, slots are positions.                              *)
LEMMA RingSlotUnwrapped ==
  ASSUME NEW s \in Slots
  PROVE  s \in Nat /\ RingSlot(s) = s
<1>1. s \in Nat /\ s < Window /\ Window \in Nat \ {0}
  BY WindowAssumption DEF Slots
<1>2. s = Window * 0 + s
  BY <1>1
<1> QED BY <1>1, <1>2, ModUnique DEF RingSlot

(* The split length times the number of splits reaches every key.           *)
LEMMA CeilDivCovers ==
  ASSUME NEW a \in Nat, NEW b \in Nat \ {0}
  PROVE  CeilDiv(a, b) \in Nat /\ b * CeilDiv(a, b) >= a
<1> DEFINE p == a + b - 1
<1>1. p \in Nat
  OBVIOUS
<1> HIDE DEF p
<1>2. p \div b \in Nat /\ p % b \in 0 .. b - 1 /\ p = b * (p \div b) + (p % b)
  BY <1>1, DivMod
<1> QED BY <1>2 DEF CeilDiv, p

(* The splits of a decode dispatch partition the keys.                      *)
LEMMA SplitsPartition ==
  ASSUME NEW kvLen \in Nat, NEW n \in Nat \ {0}
  PROVE  /\ \A k \in 0 .. n - 1 : SplitRange(kvLen, n, k) \subseteq 0 .. kvLen - 1
         /\ \A s \in 0 .. kvLen - 1 :
              \E k \in 0 .. n - 1 : s \in SplitRange(kvLen, n, k)
         /\ \A j, k \in 0 .. n - 1 : \A s \in SplitRange(kvLen, n, j) :
              s \in SplitRange(kvLen, n, k) => j = k
<1> DEFINE c == CeilDiv(kvLen, n)
<1>1. c \in Nat /\ n * c >= kvLen
  BY CeilDivCovers
<1> HIDE DEF c
<1>2. \A k \in 0 .. n - 1 : k * c \in Nat
  BY <1>1
<1>3. \A k \in 0 .. n - 1 : \A s :
        s \in SplitRange(kvLen, n, k) <=>
          s \in 0 .. kvLen - 1 /\ k * c <= s /\ s < k * c + c
  BY <1>1, <1>2 DEF SplitRange, SmallerOf, c
<1>4. ASSUME NEW s \in 0 .. kvLen - 1
      PROVE  \E k \in 0 .. n - 1 : s \in SplitRange(kvLen, n, k)
  <2>1. c \in Nat \ {0} /\ s \in Nat
    BY <1>1
  <2> DEFINE k == s \div c
  <2>2. k \in Nat /\ s % c \in 0 .. c - 1 /\ s = c * k + (s % c)
    BY <2>1, DivMod
  <2> HIDE DEF k
  <2>3. k < n
    <3>1. CASE n <= k
      <4>1. c * n <= c * k
        BY <2>1, <2>2, <3>1
      <4> QED BY <4>1, <1>1, <2>1, <2>2
    <3> QED BY <3>1, <2>2
  <2>4. k * c = c * k
    BY <2>1, <2>2
  <2>5. s \in 0 .. kvLen - 1 /\ k * c <= s /\ s < k * c + c
    BY <2>1, <2>2, <2>4
  <2>6. k \in 0 .. n - 1
    BY <2>2, <2>3
  <2> QED BY <1>3, <2>5, <2>6
<1>5. ASSUME NEW j \in 0 .. n - 1, NEW k \in 0 .. n - 1,
             NEW s \in SplitRange(kvLen, n, j), s \in SplitRange(kvLen, n, k)
      PROVE  j = k
  <2>1. s \in Int /\ c * j <= s /\ s < c * j + c /\ c * k <= s /\ s < c * k + c
    BY <1>1, <1>3, <1>5
  <2>2. ~ (j < k)
    BY <1>1, <2>1, MulStep
  <2>3. ~ (k < j)
    BY <1>1, <2>1, MulStep
  <2> QED BY <2>2, <2>3
<1> QED BY <1>3, <1>4, <1>5

-----------------------------------------------------------------------------
(* Appends.                                                                 *)

(* The stored part of a global layer: the first p positions, as far as the  *)
(* store reaches.                                                           *)
HoldsStored(store, ctx, p) ==
  \A t \in LinearSlots : t < p => store[t] = RowAt(ctx, t)

(* An append of rows leaves every slot with a row or none, whatever order   *)
(* its threads ran in.                                                      *)
LEMMA RingAppendType ==
  ASSUME NEW cells \in [Slots -> RowOrNone], NEW base \in Nat,
         NEW rows \in Seq(RowOrNone), NEW r \in RingAppend(cells, base, rows)
  PROVE  /\ r \in [Slots -> RowOrNone]
         /\ \A s \in Slots : r[s] \in SlotOutcomes(s, cells, base, rows)
<1>1. \A s \in Slots : SlotOutcomes(s, cells, base, rows) \subseteq RowOrNone
  BY DEF SlotOutcomes, RowsHitting, RowOrNone
<1>2. /\ r \in [Slots -> UNION {SlotOutcomes(s, cells, base, rows) : s \in Slots}]
      /\ \A s \in Slots : r[s] \in SlotOutcomes(s, cells, base, rows)
  BY DEF RingAppend
<1>3. \A s \in Slots : r[s] \in RowOrNone
  BY <1>1, <1>2
<1> QED BY <1>2, <1>3

(* A chunk no longer than the window extends the tail a ring holds: none of *)
(* its rows race, and none overwrites a row the next query still needs.     *)
LEMMA RingAppendHolds ==
  ASSUME NEW cells \in [Slots -> RowOrNone], NEW ctx, NEW base \in Nat,
         NEW rows \in Seq(RowOrNone), Len(rows) <= Window,
         \A i \in 1 .. Len(rows) : rows[i] = RowAt(ctx, base + i - 1),
         HoldsTail(cells, ctx, base),
         NEW r \in RingAppend(cells, base, rows)
  PROVE  HoldsTail(r, ctx, base + Len(rows))
<1> DEFINE n == Len(rows)
<1>1. n \in Nat /\ n <= Window /\ Window \in Nat \ {0}
  BY WindowAssumption
<1>2. SUFFICES ASSUME NEW t \in FirstInWindow(base + n) .. base + n - 1
               PROVE  r[RingSlot(t)] = RowAt(ctx, t)
  BY DEF HoldsTail
<1>3. t \in Nat /\ t < base + n /\ base + n - t < Window + 0
  BY <1>1 DEF FirstInWindow, LargerOf
<1>4. /\ RingSlot(t) \in Slots
      /\ r[RingSlot(t)] \in SlotOutcomes(RingSlot(t), cells, base, rows)
  BY <1>3, RingSlotInSlots, RingAppendType
<1>5. CASE t >= base
  <2>1. \A j \in 1 .. n : RingSlot(base + j - 1) = RingSlot(t) <=> j = t - base + 1
    <3>1. TAKE j \in 1 .. n
    <3>2. base + j - 1 \in Nat
      BY <1>1
    <3>3. CASE base + j - 1 < t
      BY <3>2, <3>3, <1>1, <1>3, RingSlotDistinct
    <3>4. CASE base + j - 1 > t
      BY <3>2, <3>4, <1>1, <1>3, <1>5, RingSlotDistinct
    <3>5. CASE base + j - 1 = t
      <4>1. RingSlot(base + j - 1) = RingSlot(t)
        BY <3>5
      <4>2. j = t - base + 1
        BY <3>5, <1>1, <1>3
      <4> QED BY <4>1, <4>2
    <3> QED BY <3>2, <3>3, <3>4, <3>5, <1>3
  <2>2. t - base + 1 \in 1 .. n
    BY <1>1, <1>3, <1>5
  <2>3. RowsHitting(RingSlot(t), base, rows) = {t - base + 1}
    BY <2>1, <2>2 DEF RowsHitting
  <2>4. SlotOutcomes(RingSlot(t), cells, base, rows) = {rows[t - base + 1]}
    BY <2>3 DEF SlotOutcomes
  <2>5. rows[t - base + 1] = RowAt(ctx, t)
    <3>1. rows[t - base + 1] = RowAt(ctx, base + (t - base + 1) - 1)
      BY <2>2
    <3>2. base + (t - base + 1) - 1 = t
      BY <1>3
    <3> QED BY <3>1, <3>2
  <2> QED BY <1>4, <2>4, <2>5
<1>6. CASE t < base
  <2>1. \A j \in 1 .. n : RingSlot(base + j - 1) # RingSlot(t)
    BY <1>1, <1>3, <1>6, RingSlotDistinct
  <2>2. SlotOutcomes(RingSlot(t), cells, base, rows) = {cells[RingSlot(t)]}
    BY <2>1 DEF SlotOutcomes, RowsHitting
  <2>3. t \in FirstInWindow(base) .. base - 1
    BY <1>1, <1>3, <1>6 DEF FirstInWindow, LargerOf
  <2> QED BY <1>4, <2>2, <2>3 DEF HoldsTail
<1> QED BY <1>3, <1>5, <1>6

(* One decoded row.                                                         *)
LEMMA RingWriteHolds ==
  ASSUME NEW cells \in [Slots -> RowOrNone], NEW ctx, NEW p \in Nat,
         HoldsTail(cells, ctx, p)
  PROVE  LET r == [cells EXCEPT ![RingSlot(p)] = RowAt(ctx, p)]
         IN  /\ \A t \in FirstInWindow(p) .. p : r[RingSlot(t)] = RowAt(ctx, t)
             /\ HoldsTail(r, ctx, p)
             /\ HoldsTail(r, ctx, p + 1)
<1> DEFINE r == [cells EXCEPT ![RingSlot(p)] = RowAt(ctx, p)]
<1>1. RingSlot(p) \in Slots /\ r[RingSlot(p)] = RowAt(ctx, p)
  BY RingSlotInSlots
<1>2. \A t \in FirstInWindow(p) .. p - 1 : r[RingSlot(t)] = RowAt(ctx, t)
  <2>1. TAKE t \in FirstInWindow(p) .. p - 1
  <2>2. t \in Nat /\ t < p /\ p - t < Window
    BY WindowAssumption DEF FirstInWindow, LargerOf
  <2>3. RingSlot(t) \in Slots /\ RingSlot(t) # RingSlot(p)
    BY <2>2, RingSlotInSlots, RingSlotDistinct
  <2>4. cells[RingSlot(t)] = RowAt(ctx, t)
    BY DEF HoldsTail
  <2> QED BY <2>3, <2>4
<1>3. \A t \in FirstInWindow(p) .. p : t = p \/ t \in FirstInWindow(p) .. p - 1
  BY WindowAssumption DEF FirstInWindow, LargerOf
<1>4. \A t \in FirstInWindow(p + 1) .. p + 1 - 1 : t \in FirstInWindow(p) .. p
  BY WindowAssumption DEF FirstInWindow, LargerOf
<1>5. \A t \in FirstInWindow(p) .. p : r[RingSlot(t)] = RowAt(ctx, t)
  BY <1>1, <1>2, <1>3
<1> HIDE DEF r
<1>6. HoldsTail(r, ctx, p) /\ HoldsTail(r, ctx, p + 1)
  BY <1>2, <1>4, <1>5 DEF HoldsTail
<1> QED BY <1>5, <1>6 DEF r

(* So does an append to a linear store, whose out-of-range rows are         *)
(* dropped.                                                                 *)
LEMMA LinearAppendType ==
  ASSUME NEW store \in [LinearSlots -> RowOrNone], NEW base \in Nat,
         NEW rows \in Seq(RowOrNone)
  PROVE  LinearAppend(store, base, rows) \in [LinearSlots -> RowOrNone]
  BY DEF LinearAppend

(* Appending a run of rows at its position to a linear store that holds a   *)
(* context leaves one that holds the longer context.                        *)
LEMMA LinearAppendHolds ==
  ASSUME NEW store \in [LinearSlots -> RowOrNone], NEW ctx, NEW base \in Nat,
         NEW rows \in Seq(RowOrNone),
         \A i \in 1 .. Len(rows) : rows[i] = RowAt(ctx, base + i - 1),
         HoldsStored(store, ctx, base)
  PROVE  /\ HoldsStored(LinearAppend(store, base, rows), ctx, base)
         /\ HoldsStored(LinearAppend(store, base, rows), ctx, base + Len(rows))
<1>1. \A t \in LinearSlots : t \in Nat
  BY DEF LinearSlots
<1>2. \A t \in LinearSlots :
        t - base + 1 \in 1 .. Len(rows) => rows[t - base + 1] = RowAt(ctx, t)
  <2>1. TAKE t \in LinearSlots
  <2>2. HAVE t - base + 1 \in 1 .. Len(rows)
  <2>3. rows[t - base + 1] = RowAt(ctx, base + (t - base + 1) - 1)
    BY <2>2
  <2>4. base + (t - base + 1) - 1 = t
    BY <1>1
  <2> QED BY <2>3, <2>4
<1>3. \A t \in LinearSlots :
        t < base + Len(rows) => t < base \/ t - base + 1 \in 1 .. Len(rows)
  BY <1>1
<1> QED BY <1>1, <1>2, <1>3 DEF HoldsStored, LinearAppend

-----------------------------------------------------------------------------
(* Reads.                                                                   *)

(* Sliding prefill: a query of the chunk attends exactly its window when    *)
(* the ring holds the tail before the chunk and the buffers hold the chunk. *)
LEMMA PrefillSlidingExact ==
  ASSUME NEW cells, NEW ctx, NEW rows, NEW q0 \in Nat, NEW i \in Nat,
         HoldsTail(cells, ctx, q0),
         \A c \in 0 .. i : rows[c + 1] = RowAt(ctx, q0 + c)
  PROVE  Exactly(PrefillSlidingReads(cells, q0, rows, i),
                 Rows(ctx, FirstInWindow(q0 + i), q0 + i))
<1> DEFINE begin == WindowBegin(q0 + i)
           reads == PrefillSlidingReads(cells, q0, rows, i)
<1>1. /\ Window \in Nat \ {0} /\ begin \in Nat /\ begin <= q0 + i
      /\ FirstInWindow(q0 + i) = begin
  BY WindowAssumption DEF WindowBegin, FirstInWindow, LargerOf
<1>2. SmallerOf(q0, q0 + i + 1) = q0
  BY DEF SmallerOf
<1>3. \A t \in begin .. q0 - 1 : cells[RingSlot(t)] = RowAt(ctx, t)
  <2>1. \A t \in begin .. q0 - 1 : t \in FirstInWindow(q0) .. q0 - 1
    BY <1>1 DEF WindowBegin, FirstInWindow, LargerOf
  <2> QED BY <2>1 DEF HoldsTail
<1> DEFINE first == LargerOf(0, begin - q0)
<1>4. first \in Nat /\ first <= i /\ q0 + first >= begin
      /\ (first = 0 \/ q0 + first = begin)
  BY <1>1 DEF LargerOf
<1>5. reads = {<<"ring", t, RowAt(ctx, t)>> : t \in begin .. q0 - 1}
              \cup {<<"chunk", c, RowAt(ctx, q0 + c)>> : c \in first .. i}
  <2>1. \A c \in first .. i : rows[c + 1] = RowAt(ctx, q0 + c)
    BY <1>4
  <2> QED BY <1>2, <1>3, <2>1 DEF PrefillSlidingReads
<1> HIDE DEF reads, first, begin
<1>6. RowsRead(reads) = Rows(ctx, begin, q0 + i)
  <2>1. ASSUME NEW x \in RowsRead(reads)
        PROVE  x \in Rows(ctx, begin, q0 + i)
    <3>1. \/ \E t \in begin .. q0 - 1 : x = RowAt(ctx, t)
          \/ \E c \in first .. i : x = RowAt(ctx, q0 + c)
      BY <1>5 DEF RowsRead
    <3>2. \A t \in begin .. q0 - 1 : t \in begin .. q0 + i
      BY <1>1
    <3>3. \A c \in first .. i : q0 + c \in begin .. q0 + i
      BY <1>1, <1>4
    <3> QED BY <3>1, <3>2, <3>3 DEF Rows
  <2>2. ASSUME NEW t \in begin .. q0 + i
        PROVE  RowAt(ctx, t) \in RowsRead(reads)
    <3>1. CASE t < q0
      <4>1. t \in begin .. q0 - 1
        BY <1>1, <3>1
      <4>2. <<"ring", t, RowAt(ctx, t)>> \in reads
        BY <4>1, <1>5
      <4> QED BY <4>2 DEF RowsRead
    <3>2. CASE t >= q0
      <4>1. t - q0 \in first .. i /\ q0 + (t - q0) = t
        BY <1>1, <1>4, <3>2
      <4>2. <<"chunk", t - q0, RowAt(ctx, t)>> \in reads
        BY <4>1, <1>5
      <4> QED BY <4>2 DEF RowsRead
    <3> QED BY <3>1, <3>2, <1>1
  <2> QED BY <2>1, <2>2 DEF Rows
<1>7. \A r1, r2 \in reads : r1[3] = r2[3] => r1 = r2
  <2>1. \A t, u : RowAt(ctx, t) = RowAt(ctx, u) => t = u
    BY DEF RowAt
  <2>2. \A t \in begin .. q0 - 1 : \A c \in first .. i : t # q0 + c
    BY <1>1, <1>4
  <2>3. \A c, d \in first .. i : q0 + c = q0 + d => c = d
    BY <1>4
  <2> QED BY <1>5, <2>1, <2>2, <2>3
<1> QED BY <1>1, <1>6, <1>7 DEF Exactly, reads, begin

(* Global prefill, after the chunk's append.                                *)
LEMMA PrefillGlobalExact ==
  ASSUME NEW store, NEW ctx, NEW q0 \in Nat, NEW i \in Nat,
         q0 + i < GlobalCap, HoldsStored(store, ctx, q0 + i + 1)
  PROVE  Exactly(PrefillGlobalReads(store, q0, i), Rows(ctx, 0, q0 + i))
<1>1. \A t \in 0 .. q0 + i : t \in LinearSlots /\ t < q0 + i + 1
  BY CapAssumption DEF LinearSlots
<1>2. \A t \in 0 .. q0 + i : LinearRow(store, t) = RowAt(ctx, t)
  BY <1>1 DEF LinearRow, HoldsStored
<1>3. PrefillGlobalReads(store, q0, i) =
        {<<"linear", t, RowAt(ctx, t)>> : t \in 0 .. q0 + i}
  BY <1>2 DEF PrefillGlobalReads
<1>4. RowsRead(PrefillGlobalReads(store, q0, i)) = Rows(ctx, 0, q0 + i)
  <2>1. \A x \in RowsRead(PrefillGlobalReads(store, q0, i)) : x \in Rows(ctx, 0, q0 + i)
    BY <1>3 DEF RowsRead, Rows
  <2>2. ASSUME NEW t \in 0 .. q0 + i
        PROVE  RowAt(ctx, t) \in RowsRead(PrefillGlobalReads(store, q0, i))
    <3>1. <<"linear", t, RowAt(ctx, t)>> \in PrefillGlobalReads(store, q0, i)
      BY <1>3
    <3> QED BY <3>1 DEF RowsRead
  <2> QED BY <2>1, <2>2 DEF Rows
<1>5. \A t, u : RowAt(ctx, t) = RowAt(ctx, u) => t = u
  BY DEF RowAt
<1> QED BY <1>3, <1>4, <1>5 DEF Exactly

SplitReads(row, kvLen, n) ==
  UNION {{<<k, s, row[s]>> : s \in SplitRange(kvLen, n, k)} : k \in 0 .. n - 1}

(* A split-K kernel over kvLen keys reads each of them once, provided the   *)
(* keys hold distinct rows.                                                 *)
LEMMA SplitReadsExact ==
  ASSUME NEW kvLen \in Nat, NEW n \in Nat \ {0}, NEW row,
         \A s, u \in 0 .. kvLen - 1 : row[s] = row[u] => s = u
  PROVE  Exactly(SplitReads(row, kvLen, n), {row[s] : s \in 0 .. kvLen - 1})
<1> DEFINE reads == SplitReads(row, kvLen, n)
<1>1. \A x : x \in reads <=>
        \E k \in 0 .. n - 1 : \E s \in SplitRange(kvLen, n, k) : x = <<k, s, row[s]>>
  BY DEF SplitReads
<1> HIDE DEF reads
<1>2. RowsRead(reads) = {row[s] : s \in 0 .. kvLen - 1}
  <2>1. ASSUME NEW x \in RowsRead(reads)
        PROVE  x \in {row[s] : s \in 0 .. kvLen - 1}
    <3>1. \E k \in 0 .. n - 1 : \E s \in SplitRange(kvLen, n, k) : x = row[s]
      BY <1>1 DEF RowsRead
    <3> QED BY <3>1, SplitsPartition
  <2>2. ASSUME NEW s \in 0 .. kvLen - 1
        PROVE  row[s] \in RowsRead(reads)
    <3>1. PICK k \in 0 .. n - 1 : s \in SplitRange(kvLen, n, k)
      BY SplitsPartition
    <3>2. <<k, s, row[s]>> \in reads
      BY <1>1, <3>1
    <3> QED BY <3>2 DEF RowsRead
  <2> QED BY <2>1, <2>2
<1>3. \A r1, r2 \in reads : r1[3] = r2[3] => r1 = r2
  <2>1. TAKE r1, r2 \in reads
  <2>2. HAVE r1[3] = r2[3]
  <2>3. PICK j \in 0 .. n - 1 : \E s \in SplitRange(kvLen, n, j) : r1 = <<j, s, row[s]>>
    BY <1>1
  <2>4. PICK s \in SplitRange(kvLen, n, j) : r1 = <<j, s, row[s]>>
    BY <2>3
  <2>5. PICK k \in 0 .. n - 1 : \E u \in SplitRange(kvLen, n, k) : r2 = <<k, u, row[u]>>
    BY <1>1
  <2>6. PICK u \in SplitRange(kvLen, n, k) : r2 = <<k, u, row[u]>>
    BY <2>5
  <2>7. s \in 0 .. kvLen - 1 /\ u \in 0 .. kvLen - 1
    BY <2>4, <2>6, SplitsPartition
  <2>8. row[s] = row[u]
    BY <2>2, <2>4, <2>6
  <2>9. s = u
    BY <2>7, <2>8
  <2>10. j = k
    BY <2>4, <2>6, <2>9, SplitsPartition
  <2> QED BY <2>4, <2>6, <2>9, <2>10
<1> QED BY <1>2, <1>3 DEF Exactly, reads

(* Sliding decode walks physical slots; together they are the window.       *)
LEMMA DecodeSlidingExact ==
  ASSUME NEW cells, NEW ctx, NEW p \in Nat, NEW n \in Nat \ {0},
         \A t \in FirstInWindow(p) .. p : cells[RingSlot(t)] = RowAt(ctx, t)
  PROVE  Exactly(DecodeSlidingReads(cells, SmallerOf(p + 1, Window), n),
                 Rows(ctx, FirstInWindow(p), p))
<1> DEFINE kvLen == SmallerOf(p + 1, Window)
<1>1. Window \in Nat \ {0} /\ kvLen \in Nat /\ kvLen <= Window
  BY WindowAssumption DEF SmallerOf
<1>2. \A s \in 0 .. kvLen - 1 : \E t \in FirstInWindow(p) .. p : RingSlot(t) = s
  <2>1. TAKE s \in 0 .. kvLen - 1
  <2>2. s \in Slots
    BY <1>1 DEF Slots
  <2>3. CASE p + 1 >= Window
    BY <2>2, <2>3, RingSlotCovered
  <2>4. CASE p + 1 < Window
    <3>1. s \in FirstInWindow(p) .. p
      BY <1>1, <2>4 DEF FirstInWindow, LargerOf, SmallerOf
    <3>2. RingSlot(s) = s
      BY <2>2, RingSlotUnwrapped
    <3> QED BY <3>1, <3>2
  <2> QED BY <1>1, <2>3, <2>4
<1>3. \A t \in FirstInWindow(p) .. p : RingSlot(t) \in 0 .. kvLen - 1
  <2>1. TAKE t \in FirstInWindow(p) .. p
  <2>2. t \in Nat /\ t <= p
    BY <1>1 DEF FirstInWindow, LargerOf
  <2>3. RingSlot(t) \in Slots
    BY <2>2, RingSlotInSlots
  <2>4. CASE p + 1 >= Window
    BY <2>3, <2>4, <1>1 DEF Slots, SmallerOf
  <2>5. CASE p + 1 < Window
    <3>1. t \in Slots
      BY <2>2, <2>5, <1>1 DEF Slots
    <3>2. RingSlot(t) = t
      BY <3>1, RingSlotUnwrapped
    <3> QED BY <3>2, <2>2, <2>5, <1>1 DEF SmallerOf
  <2> QED BY <1>1, <2>4, <2>5
<1>4. \A t, u \in FirstInWindow(p) .. p : RowAt(ctx, t) = RowAt(ctx, u) => t = u
  BY DEF RowAt
<1>5. \A s, u \in 0 .. kvLen - 1 : cells[s] = cells[u] => s = u
  BY <1>2, <1>4
<1>6. {cells[s] : s \in 0 .. kvLen - 1} = Rows(ctx, FirstInWindow(p), p)
  BY <1>2, <1>3 DEF Rows
<1> HIDE DEF kvLen
<1>7. Exactly(SplitReads(cells, kvLen, n), {cells[s] : s \in 0 .. kvLen - 1})
  BY <1>1, <1>5, SplitReadsExact
<1>8. DecodeSlidingReads(cells, kvLen, n) = SplitReads(cells, kvLen, n)
  BY DEF DecodeSlidingReads, SplitReads
<1> QED BY <1>6, <1>7, <1>8 DEF kvLen

(* Global decode over kv_len keys attends each position of the context      *)
(* once.                                                                    *)
LEMMA DecodeGlobalExact ==
  ASSUME NEW store, NEW ctx, NEW p \in Nat, NEW n \in Nat \ {0},
         p < GlobalCap, HoldsStored(store, ctx, p + 1)
  PROVE  Exactly(DecodeGlobalReads(store, p + 1, n), Rows(ctx, 0, p))
<1> DEFINE row == [t \in 0 .. p |-> RowAt(ctx, t)]
<1>1. \A t \in 0 .. p : LinearRow(store, t) = row[t]
  BY CapAssumption DEF LinearRow, LinearSlots, HoldsStored
<1>2. \A s, u \in 0 .. p + 1 - 1 : row[s] = row[u] => s = u
  BY DEF RowAt
<1>3. {row[s] : s \in 0 .. p + 1 - 1} = Rows(ctx, 0, p)
  BY DEF Rows
<1> HIDE DEF row
<1>4. p + 1 \in Nat /\ p + 1 - 1 = p
  OBVIOUS
<1>5. \A k \in 0 .. n - 1 : \A s \in SplitRange(p + 1, n, k) : s \in 0 .. p
  BY <1>4, SplitsPartition
<1>6. DecodeGlobalReads(store, p + 1, n) = SplitReads(row, p + 1, n)
  <2>1. \A k \in 0 .. n - 1 :
          {<<k, t, LinearRow(store, t)>> : t \in SplitRange(p + 1, n, k)} =
          {<<k, s, row[s]>> : s \in SplitRange(p + 1, n, k)}
    BY <1>1, <1>5
  <2> QED BY <2>1 DEF DecodeGlobalReads, SplitReads
<1>7. Exactly(SplitReads(row, p + 1, n), {row[s] : s \in 0 .. p + 1 - 1})
  BY <1>2, <1>4, SplitReadsExact
<1> QED BY <1>3, <1>6, <1>7

(* Reads never leave the slots.                                             *)
LEMMA PrefillSlidingReadsType ==
  ASSUME NEW cells \in [Slots -> RowOrNone], NEW rows, NEW q0 \in Nat, NEW i \in Nat,
         \A c \in 0 .. i : rows[c + 1] \in RowOrNone
  PROVE  RowsRead(PrefillSlidingReads(cells, q0, rows, i)) \subseteq RowOrNone
<1>1. WindowBegin(q0 + i) \in Nat
  BY WindowAssumption DEF WindowBegin
<1>2. \A t \in WindowBegin(q0 + i) .. SmallerOf(q0, q0 + i + 1) - 1 :
        cells[RingSlot(t)] \in RowOrNone
  <2>1. TAKE t \in WindowBegin(q0 + i) .. SmallerOf(q0, q0 + i + 1) - 1
  <2>2. RingSlot(t) \in Slots
    BY <1>1, RingSlotInSlots
  <2> QED BY <2>2
<1>3. \A c \in LargerOf(0, WindowBegin(q0 + i) - q0) .. i : rows[c + 1] \in RowOrNone
  BY <1>1 DEF LargerOf
<1> QED BY <1>2, <1>3 DEF RowsRead, PrefillSlidingReads

(* The same for the causal prefix that a global prefill query reads.        *)
LEMMA PrefillGlobalReadsType ==
  ASSUME NEW store \in [LinearSlots -> RowOrNone], NEW q0 \in Nat, NEW i \in Nat
  PROVE  RowsRead(PrefillGlobalReads(store, q0, i)) \subseteq RowOrNone
  BY DEF RowsRead, PrefillGlobalReads, LinearRow, RowOrNone

(* The same for the slots that a sliding decode query walks.                *)
LEMMA DecodeSlidingReadsType ==
  ASSUME NEW cells \in [Slots -> RowOrNone], NEW kvLen \in Nat, kvLen <= Window,
         NEW n \in Nat \ {0}
  PROVE  RowsRead(DecodeSlidingReads(cells, kvLen, n)) \subseteq RowOrNone
<1>1. \A k \in 0 .. n - 1 : \A s \in SplitRange(kvLen, n, k) : s \in 0 .. kvLen - 1
  BY SplitsPartition
<1>2. \A s \in 0 .. kvLen - 1 : cells[s] \in RowOrNone
  BY WindowAssumption DEF Slots
<1> QED BY <1>1, <1>2 DEF RowsRead, DecodeSlidingReads

(* The same for the positions that a global decode query walks.             *)
LEMMA DecodeGlobalReadsType ==
  ASSUME NEW store \in [LinearSlots -> RowOrNone], NEW kvLen \in Nat, NEW n \in Nat \ {0}
  PROVE  RowsRead(DecodeGlobalReads(store, kvLen, n)) \subseteq RowOrNone
<1>1. \A t : LinearRow(store, t) \in RowOrNone
  BY DEF LinearRow, RowOrNone
<1> QED BY <1>1 DEF RowsRead, DecodeGlobalReads

-----------------------------------------------------------------------------
(* The control part of the inductive invariant.                             *)

(* Which calls go with which phase of the request, and what a call that is  *)
(* under way still has to do.                                               *)
CallOK ==
  /\ req.pc \in {"idle", "sample"} => call = NoCall
  /\ req.pc = "prefill" => call.op = "prefill"
  /\ req.pc = "decode" => call.op = "decode" /\ req.out # <<>>
                          /\ call.todo = <<req.out[Len(req.out)]>>
  /\ call.op = "prefill" =>
       /\ call.pc # "idle"
       /\ call.pc \in {"record", "stage", "layer"} => call.todo # <<>>
       /\ call.pc \in {"stage", "layer"} => ChunkKey \in DOMAIN graphs
  /\ call.op = "decode" =>
       /\ call.pc \notin {"idle", "record"}
       /\ Len(call.todo) = 1
  /\ call.op = "none" => call.pc = "idle"
  /\ call.pc = "layer" => call.layer \in 1 .. NumLayers + 1

(* The host-written buffers hold what the running call was asked to do.     *)
StagedOK ==
  /\ At("prefill", "layer") =>
       /\ step.pos = pos /\ step.q0 = pos
       /\ \A i \in 1 .. ChunkLen : prows[i] = StagedRow(i)
  /\ At("decode", "layer") =>
       /\ step.pos = pos
       /\ step.kvSliding = SmallerOf(pos + 1, Window)
       /\ step.kvGlobal = pos + 1
       /\ brow = [pos |-> pos, tok |-> call.todo[1]]

FedOK == Len(fed) = pos

ControlInv == TypeOK /\ CallOK /\ StagedOK /\ FedOK

-----------------------------------------------------------------------------
(* A chunk has room for at least one row.                                   *)
LEMMA ChunkCapPositive == ChunkCap \in Nat \ {0}
<1>1. MaxChunk \in Nat \ {0} /\ MBlock \in Nat \ {0}
  BY ChunkAssumption
<1>2. CeilDiv(MaxChunk, MBlock) \in Nat /\ MBlock * CeilDiv(MaxChunk, MBlock) >= MaxChunk
  BY <1>1, CeilDivCovers
<1> QED BY <1>1, <1>2 DEF ChunkCap, NextMultiple

(* What the next chunk is.                                                  *)
LEMMA ChunkFacts ==
  ASSUME call.todo \in Seq(Token), call.todo # <<>>
  PROVE  /\ ChunkLen \in Nat \ {0}
         /\ ChunkLen <= ChunkCap
         /\ ChunkLen <= Len(call.todo)
         /\ Chunk \in Seq(Token)
         /\ Len(Chunk) = ChunkLen
         /\ \A i \in 1 .. ChunkLen : Chunk[i] = call.todo[i]
         /\ SubSeq(call.todo, ChunkLen + 1, Len(call.todo)) \in Seq(Token)
         /\ Len(SubSeq(call.todo, ChunkLen + 1, Len(call.todo))) = Len(call.todo) - ChunkLen
<1>1. Len(call.todo) \in Nat \ {0}
  BY EmptySeq
<1>2. ChunkLen \in Nat \ {0} /\ ChunkLen <= ChunkCap /\ ChunkLen <= Len(call.todo)
  BY <1>1, ChunkCapPositive DEF ChunkLen, SmallerOf
<1> QED BY <1>1, <1>2 DEF Chunk

(* A chunk's cached graphs are the graphs of its own shape.                 *)
LEMMA ChunkGraph ==
  ASSUME TypeOK, ChunkKey \in DOMAIN graphs
  PROVE  RunningShape.real = ChunkLen
  BY DEF TypeOK, RunningShape, ChunkKey, ChunkShape

(* The updates the steps make to call.                                      *)
LEMMA CallSteps ==
  ASSUME NEW c \in CallRecord
  PROVE  /\ \A pc \in PhaseOfCall : [c EXCEPT !.pc = pc] \in CallRecord
         /\ [c EXCEPT !.pc = "layer", !.layer = 1] \in CallRecord
         /\ c.layer \in Layers => [c EXCEPT !.layer = @ + 1] \in CallRecord
         /\ \A rest \in Seq(Token), pc \in PhaseOfCall :
              [c EXCEPT !.todo = rest, !.pc = pc] \in CallRecord
         /\ NoCall \in CallRecord
         /\ \A tokens \in Seq(Token) : PrefillCall(tokens) \in CallRecord
         /\ \A tok \in Token : DecodeCall(tok) \in CallRecord
<1>1. NumLayers \in Nat \ {0} /\ 0 \in 0 .. NumLayers + 1 /\ 1 \in 0 .. NumLayers + 1
  BY LayersAssumption
<1>2. \A tok \in Token : <<tok>> \in Seq(Token)
  OBVIOUS
<1>3. <<>> \in Seq(Token)
  OBVIOUS
<1>4. \A l \in Layers : l + 1 \in 0 .. NumLayers + 1
  BY <1>1 DEF Layers
<1> QED
  BY <1>1, <1>2, <1>3, <1>4 DEF CallRecord, PhaseOfCall, NoCall, PrefillCall, DecodeCall

-----------------------------------------------------------------------------
(* Each step keeps the control invariant.                                   *)

(* The new model and session satisfy the control invariant.                 *)
LEMMA InitControl == Init => ControlInv
<1>1. ASSUME Init PROVE ControlInv
  <2> USE <1>1 DEF Init, ModelInit, NoCall, NoStep, NoRequest
  <2>1. TypeOK
    <3>1. <<>> \in Seq(Token)
      BY EmptySeq
    <3>2. 0 \in 0 .. NumLayers + 1
      BY LayersAssumption
    <3>3. \A k \in DOMAIN graphs : graphs[k] = k
      <4>1. graphs \in Seq({}) /\ Len(graphs) = 0
        BY EmptySeq
      <4> QED BY <4>1, LenProperties
    <3>4. /\ ring \in [SlidingLayers -> [Slots -> RowOrNone]]
          /\ lin \in [GlobalLayers -> [LinearSlots -> RowOrNone]]
          /\ prows \in [1 .. ChunkCap -> RowOrNone]
      BY DEF RowOrNone
    <3>5. call \in CallRecord
      BY <3>1, <3>2 DEF CallRecord, PhaseOfCall
    <3>6. req \in RequestRecord
      BY <3>1 DEF RequestRecord, PhaseOfRequest
    <3> QED BY <3>1, <3>3, <3>4, <3>5, <3>6 DEF TypeOK, RowOrNone
  <2>2. CallOK
    BY DEF CallOK
  <2>3. StagedOK
    BY DEF StagedOK, At
  <2>4. FedOK
    BY EmptySeq DEF FedOK
  <2> QED BY <2>1, <2>2, <2>3, <2>4 DEF ControlInv
<1> QED BY <1>1

(* RecordChunk: every cached graph is the one its key describes.            *)
LEMMA RecordChunkControl ==
  ASSUME ControlInv, RecordChunk, UNCHANGED sessionVars
  PROVE  ControlInv'
<1> USE DEF ControlInv, RecordChunk, At, Goto, kvVars, stageVars, sessionVars
<1>1. TypeOK'
  BY CallSteps DEF TypeOK, PhaseOfCall, ChunkKey
<1>2. CallOK'
  BY DEF CallOK, TypeOK, CallRecord, NoCall, ChunkKey, ChunkShape, ChunkLen
<1>3. StagedOK'
  BY DEF StagedOK, TypeOK, CallRecord
<1>4. FedOK'
  BY DEF FedOK
<1> QED BY <1>1, <1>2, <1>3, <1>4

(* StageChunk: the staged rows and the step buffer are those of pos.        *)
LEMMA StageChunkControl ==
  ASSUME ControlInv, StageChunk, UNCHANGED sessionVars
  PROVE  ControlInv'
<1> USE DEF ControlInv, StageChunk, At, StartLayers, kvVars, sessionVars
<1>1. call.todo \in Seq(Token) /\ call.todo # <<>> /\ call \in CallRecord
  BY DEF CallOK, TypeOK, CallRecord
<1>2. ChunkLen \in Nat \ {0} /\ ChunkLen <= ChunkCap /\ ChunkLen <= Len(call.todo)
  BY <1>1, ChunkFacts
<1>3. call'.todo = call.todo /\ ChunkLen' = ChunkLen /\ ChunkKey' = ChunkKey
  BY <1>1 DEF ChunkLen, ChunkKey, ChunkShape
<1>4. ASSUME NEW i \in 1 .. ChunkLen
      PROVE  StagedRow(i) \in RowOrNone /\ StagedRow(i)' = StagedRow(i)
  <2>1. i \in 1 .. Len(call.todo) /\ i \in Nat \ {0}
    BY <1>1, <1>2
  <2>2. call.todo[i] \in Token
    BY <1>1, <2>1, ElementOfSeq
  <2>3. pos \in Nat /\ pos' = pos /\ pos + i - 1 \in Nat
    BY <2>1 DEF TypeOK
  <2>4. StagedRow(i) \in Row
    BY <2>2, <2>3 DEF StagedRow, Row
  <2>5. StagedRow(i)' = StagedRow(i)
    BY <1>3, <2>3 DEF StagedRow
  <2> QED BY <2>4, <2>5 DEF RowOrNone
<1>5. TypeOK'
  <2>1. prows' \in [1 .. ChunkCap -> RowOrNone]
    BY <1>2, <1>4, ChunkCapPositive DEF RowOrNone
  <2>2. call' \in CallRecord
    BY <1>1, CallSteps
  <2> QED BY <2>1, <2>2 DEF TypeOK
<1>6. CallOK'
  BY <1>1, <1>3, LayersAssumption DEF CallOK, TypeOK, CallRecord, NoCall
<1>7. StagedOK'
  <2>1. \A i \in 1 .. ChunkLen : i \in 1 .. ChunkCap
    BY <1>2, ChunkCapPositive
  <2> QED BY <1>1, <1>3, <1>4, <2>1 DEF StagedOK, TypeOK
<1>8. FedOK'
  BY DEF FedOK
<1> QED BY <1>5, <1>6, <1>7, <1>8

(* The rows a chunk appends are its staged rows.                            *)
LEMMA AppendedRowsFacts ==
  ASSUME ControlInv, At("prefill", "layer")
  PROVE  /\ AppendedRows \in Seq(RowOrNone)
         /\ Len(AppendedRows) = ChunkLen
         /\ \A i \in 1 .. ChunkLen : AppendedRows[i] = prows[i]
         /\ LogitsRow = ChunkLen - 1
<1>1. call.todo \in Seq(Token) /\ call.todo # <<>> /\ ChunkKey \in DOMAIN graphs
  BY DEF ControlInv, TypeOK, CallOK, CallRecord, At
<1>2. ChunkLen \in Nat \ {0} /\ ChunkLen <= ChunkCap
  BY <1>1, ChunkFacts
<1>3. RunningShape.real = ChunkLen
  BY <1>1, ChunkGraph DEF ControlInv
<1>4. prows \in [1 .. ChunkCap -> RowOrNone]
  BY DEF ControlInv, TypeOK
<1>5. prows \in Seq(RowOrNone) /\ Len(prows) = ChunkCap
  BY <1>4, ChunkCapPositive
<1>6. SubSeq(prows, 1, ChunkLen) \in Seq(RowOrNone)
      /\ Len(SubSeq(prows, 1, ChunkLen)) = ChunkLen
      /\ \A i \in 1 .. ChunkLen : SubSeq(prows, 1, ChunkLen)[i] = prows[i]
  BY <1>2, <1>5, ChunkCapPositive
<1> QED BY <1>3, <1>6 DEF AppendedRows, LogitsRow

(* What a prefill query reads are rows or none.                             *)
LEMMA PrefillReadsType ==
  ASSUME ControlInv, At("prefill", "layer"), NEW l \in Layers
  PROVE  RowsRead(PrefillReads(l, LogitsRow)) \subseteq RowOrNone
<1>1. /\ AppendedRows \in Seq(RowOrNone) /\ LogitsRow = ChunkLen - 1
  BY AppendedRowsFacts
<1>2. call.todo \in Seq(Token) /\ call.todo # <<>>
  BY DEF ControlInv, TypeOK, CallOK, CallRecord, At
<1>3. ChunkLen \in Nat \ {0} /\ ChunkLen <= ChunkCap
  BY <1>2, ChunkFacts
<1>4. step.pos \in Nat /\ step.q0 \in Nat /\ prows \in [1 .. ChunkCap -> RowOrNone]
  BY DEF ControlInv, TypeOK
<1>5. CASE Kind[l] = "sliding"
  <2>1. l \in SlidingLayers
    BY <1>5 DEF SlidingLayers
  <2>2. ring[l] \in [Slots -> RowOrNone]
    BY <2>1 DEF ControlInv, TypeOK
  <2>3. \A c \in 0 .. LogitsRow : prows[c + 1] \in RowOrNone
    BY <1>1, <1>3, <1>4, ChunkCapPositive
  <2>4. LogitsRow \in Nat
    BY <1>1, <1>3
  <2>5. PrefillReads(l, LogitsRow) = PrefillSlidingReads(ring[l], step.q0, prows, LogitsRow)
    BY <1>5 DEF PrefillReads
  <2> QED BY <1>4, <2>2, <2>3, <2>4, <2>5, PrefillSlidingReadsType
<1>6. CASE Kind[l] # "sliding"
  <2>1. Kind[l] \in {"sliding", "global"}
    BY LayersAssumption DEF Layers
  <2>2. l \in GlobalLayers
    BY <1>6, <2>1 DEF GlobalLayers
  <2>3. lin[l] \in [LinearSlots -> RowOrNone]
    BY <2>2 DEF ControlInv, TypeOK
  <2>4. LinearAppend(lin[l], step.pos, AppendedRows) \in [LinearSlots -> RowOrNone]
    BY <1>1, <1>4, <2>3, LinearAppendType
  <2> QED BY <1>1, <1>3, <1>4, <1>6, <2>4, PrefillGlobalReadsType DEF PrefillReads
<1> QED BY <1>5, <1>6

(* PrefillLayer: layers run in order over staged buffers that stay put.     *)
LEMMA PrefillLayerControl ==
  ASSUME ControlInv, NEW l \in Layers, PrefillLayer(l), UNCHANGED sessionVars
  PROVE  ControlInv'
<1>1. /\ At("prefill", "layer") /\ l = call.layer
      /\ call' = [call EXCEPT !.layer = @ + 1]
      /\ UNCHANGED <<pos, step, prows, brow, graphs, fed, history, req, dirty>>
  BY DEF PrefillLayer, NextLayer, stageVars, sessionVars
<1>2. call \in CallRecord /\ call' \in CallRecord
  BY <1>1, CallSteps DEF ControlInv, TypeOK
<1>3. /\ call'.op = call.op /\ call'.pc = call.pc /\ call'.todo = call.todo
      /\ call'.layer = l + 1
  BY <1>1, <1>2 DEF CallRecord
<1>4. ChunkLen' = ChunkLen /\ ChunkKey' = ChunkKey
  BY <1>1, <1>3 DEF ChunkLen, ChunkKey, ChunkShape
<1>5. /\ AppendedRows \in Seq(RowOrNone) /\ step.pos \in Nat
  BY <1>1, AppendedRowsFacts DEF ControlInv, TypeOK
<1>6. seen' \subseteq RowOrNone /\ logits' \subseteq RowOrNone
  <2>1. seen' = seen \cup RowsRead(PrefillReads(l, LogitsRow))
    BY DEF PrefillLayer
  <2>2. seen \subseteq RowOrNone /\ logits \subseteq RowOrNone
    BY DEF ControlInv, TypeOK
  <2>3. seen' \subseteq RowOrNone
    BY <1>1, <2>1, <2>2, PrefillReadsType
  <2>4. logits' = seen' \/ logits' = logits
    BY DEF PrefillLayer
  <2> QED BY <2>2, <2>3, <2>4
<1>7. ring' \in [SlidingLayers -> [Slots -> RowOrNone]]
      /\ lin' \in [GlobalLayers -> [LinearSlots -> RowOrNone]]
  <2>1. ring \in [SlidingLayers -> [Slots -> RowOrNone]]
        /\ lin \in [GlobalLayers -> [LinearSlots -> RowOrNone]]
    BY DEF ControlInv, TypeOK
  <2>2. CASE /\ Kind[l] = "sliding"
             /\ \E r \in RingAppend(ring[l], step.pos, AppendedRows) :
                  ring' = [ring EXCEPT ![l] = r]
             /\ UNCHANGED lin
    <3>1. PICK r \in RingAppend(ring[l], step.pos, AppendedRows) :
            ring' = [ring EXCEPT ![l] = r]
      BY <2>2
    <3>2. ring[l] \in [Slots -> RowOrNone]
      BY <2>1, <2>2 DEF SlidingLayers
    <3>3. r \in [Slots -> RowOrNone]
      BY <1>5, <3>2, RingAppendType
    <3> QED BY <2>1, <2>2, <3>1, <3>3
  <2>3. CASE /\ Kind[l] = "global"
             /\ lin' = [lin EXCEPT ![l] = LinearAppend(@, step.pos, AppendedRows)]
             /\ UNCHANGED ring
    <3>1. lin[l] \in [LinearSlots -> RowOrNone]
      BY <2>1, <2>3 DEF GlobalLayers
    <3>2. LinearAppend(lin[l], step.pos, AppendedRows) \in [LinearSlots -> RowOrNone]
      BY <1>5, <3>1, LinearAppendType
    <3> QED BY <2>1, <2>3, <3>2
  <2> QED BY <2>2, <2>3 DEF PrefillLayer
<1>8. TypeOK'
  BY <1>1, <1>2, <1>6, <1>7 DEF ControlInv, TypeOK
<1>9. CallOK'
  <2>1. l + 1 \in 1 .. NumLayers + 1
    BY LayersAssumption DEF Layers
  <2>2. call.op = "prefill" /\ call.pc = "layer" /\ CallOK
    BY <1>1 DEF At, ControlInv
  <2> QED BY <1>1, <1>3, <1>4, <2>1, <2>2 DEF CallOK, NoCall
<1>10. StagedOK'
  <2>1. \A i : StagedRow(i)' = StagedRow(i)
    BY <1>1, <1>3 DEF StagedRow
  <2> QED BY <1>1, <1>3, <1>4, <2>1 DEF StagedOK, At, ControlInv
<1>11. FedOK'
  BY <1>1 DEF FedOK, ControlInv
<1> QED BY <1>8, <1>9, <1>10, <1>11 DEF ControlInv

(* AdvanceChunk: pos and the tokens advanced over move together.            *)
LEMMA AdvanceChunkControl ==
  ASSUME ControlInv, AdvanceChunk, UNCHANGED sessionVars
  PROVE  ControlInv'
<1>1. /\ At("prefill", "layer")
      /\ pos' = pos + ChunkLen
      /\ fed' = fed \o Chunk
      /\ UNCHANGED <<ring, lin, step, prows, brow, graphs, seen, logits, history, req, dirty>>
  BY DEF AdvanceChunk, kvVars, stageVars, sessionVars
<1> DEFINE rest == SubSeq(call.todo, ChunkLen + 1, Len(call.todo))
           pc   == IF MoreChunks THEN "record" ELSE "read"
<1>2. call' = [call EXCEPT !.todo = rest, !.pc = pc]
  BY DEF AdvanceChunk
<1>3. call \in CallRecord /\ call.todo \in Seq(Token) /\ call.todo # <<>>
  BY <1>1 DEF ControlInv, TypeOK, CallOK, CallRecord, At
<1>4. /\ ChunkLen \in Nat \ {0} /\ Chunk \in Seq(Token) /\ Len(Chunk) = ChunkLen
      /\ rest \in Seq(Token) /\ Len(rest) = Len(call.todo) - ChunkLen
  BY <1>3, ChunkFacts
<1>5. pc \in {"record", "read"} /\ (pc = "record" => rest # <<>>)
  <2>1. pc = "record" => Len(rest) # 0
    BY <1>3, <1>4 DEF MoreChunks
  <2>2. Len(<<>>) = 0
    BY EmptySeq
  <2>3. pc \in {"record", "read"}
    OBVIOUS
  <2> HIDE DEF rest, pc
  <2> QED BY <2>1, <2>2, <2>3
<1> HIDE DEF rest, pc
<1>6. /\ call'.op = "prefill" /\ call'.pc = pc /\ call'.todo = rest
      /\ call'.layer = call.layer
  BY <1>1, <1>2, <1>3 DEF CallRecord, At
<1>7. TypeOK'
  <2>1. call' \in CallRecord
    BY <1>2, <1>3, <1>4, <1>5, CallSteps DEF PhaseOfCall
  <2>2. pos' \in Nat /\ fed' \in Seq(Token)
    BY <1>1, <1>4, ConcatProperties DEF ControlInv, TypeOK
  <2> QED BY <1>1, <2>1, <2>2 DEF ControlInv, TypeOK
<1>8. CallOK'
  BY <1>1, <1>5, <1>6 DEF ControlInv, CallOK, At, NoCall
<1>9. StagedOK'
  BY <1>5, <1>6 DEF StagedOK, At
<1>10. FedOK'
  BY <1>1, <1>4, ConcatProperties DEF ControlInv, TypeOK, FedOK
<1> QED BY <1>7, <1>8, <1>9, <1>10 DEF ControlInv

(* StageToken: the step buffer counts the keys up to pos.                   *)
LEMMA StageTokenControl ==
  ASSUME ControlInv, StageToken, UNCHANGED sessionVars
  PROVE  ControlInv'
<1>1. /\ At("decode", "stage")
      /\ brow' = [pos |-> pos, tok |-> call.todo[1]]
      /\ step' = [pos |-> pos, kvSliding |-> SmallerOf(pos + 1, Window),
                  kvGlobal |-> pos + 1, q0 |-> 0]
      /\ seen' = {}
      /\ call' = [call EXCEPT !.pc = "layer", !.layer = 1]
      /\ UNCHANGED <<pos, ring, lin, prows, graphs, logits, fed, history, req, dirty>>
  BY DEF StageToken, StartLayers, kvVars, sessionVars
<1>2. call \in CallRecord /\ call' \in CallRecord
  BY <1>1, CallSteps DEF ControlInv, TypeOK
<1>3. call'.op = "decode" /\ call'.pc = "layer" /\ call'.todo = call.todo /\ call'.layer = 1
  BY <1>1, <1>2 DEF CallRecord, At
<1>4. Len(call.todo) = 1 /\ call.todo[1] \in Token
  <2>1. Len(call.todo) = 1 /\ call.todo \in Seq(Token)
    BY <1>1, <1>2 DEF ControlInv, CallOK, CallRecord, At
  <2> QED BY <2>1, ElementOfSeq
<1>5. TypeOK'
  <2>1. brow' \in RowOrNone
    BY <1>1, <1>4 DEF RowOrNone, Row, ControlInv, TypeOK
  <2>2. step' \in [pos : Nat, kvSliding : Nat, kvGlobal : Nat, q0 : Nat]
    BY <1>1, WindowAssumption DEF SmallerOf, ControlInv, TypeOK
  <2> QED BY <1>1, <1>2, <2>1, <2>2 DEF ControlInv, TypeOK
<1>6. CallOK'
  BY <1>1, <1>3, <1>4, LayersAssumption DEF ControlInv, CallOK, At, NoCall
<1>7. StagedOK'
  BY <1>1, <1>3 DEF StagedOK, At
<1>8. FedOK'
  BY <1>1 DEF ControlInv, FedOK
<1> QED BY <1>5, <1>6, <1>7, <1>8 DEF ControlInv

(* The staged decode row.                                                   *)
LEMMA DecodeRowFacts ==
  ASSUME ControlInv, At("decode", "layer")
  PROVE  /\ brow \in Row /\ <<brow>> \in Seq(RowOrNone) /\ Len(<<brow>>) = 1
         /\ step.pos = pos /\ pos \in Nat
         /\ step.kvSliding = SmallerOf(pos + 1, Window) /\ step.kvGlobal = pos + 1
<1>1. call.todo \in Seq(Token) /\ Len(call.todo) = 1
  BY DEF ControlInv, TypeOK, CallOK, CallRecord, At
<1>2. call.todo[1] \in Token
  BY <1>1, ElementOfSeq
<1>3. pos \in Nat /\ brow = [pos |-> pos, tok |-> call.todo[1]]
  BY DEF ControlInv, TypeOK, StagedOK
<1> QED BY <1>2, <1>3 DEF Row, RowOrNone, ControlInv, StagedOK

(* What decode appends are rows or none.                                    *)
LEMMA DecodeStoresType ==
  ASSUME ControlInv, At("decode", "layer"), NEW l \in Layers
  PROVE  /\ Kind[l] = "sliding" => AppendedToRing(l) \in [Slots -> RowOrNone]
         /\ Kind[l] = "global" => AppendedToLinear(l) \in [LinearSlots -> RowOrNone]
         /\ RowsRead(DecodeReads(l)) \subseteq RowOrNone
<1>1. /\ brow \in RowOrNone /\ <<brow>> \in Seq(RowOrNone) /\ pos \in Nat /\ step.pos = pos
      /\ step.kvSliding = SmallerOf(pos + 1, Window) /\ step.kvGlobal = pos + 1
  BY DecodeRowFacts DEF RowOrNone
<1>2. Kind[l] \in {"sliding", "global"}
  BY LayersAssumption DEF Layers
<1>3. CASE Kind[l] = "sliding"
  <2>1. ring[l] \in [Slots -> RowOrNone]
    BY <1>3 DEF SlidingLayers, ControlInv, TypeOK
  <2>2. AppendedToRing(l) \in [Slots -> RowOrNone]
    BY <1>1, <2>1 DEF AppendedToRing
  <2>3. SmallerOf(pos + 1, Window) \in Nat /\ SmallerOf(pos + 1, Window) <= Window
    BY <1>1, WindowAssumption DEF SmallerOf
  <2>4. DecodeReads(l) =
          DecodeSlidingReads(AppendedToRing(l), SmallerOf(pos + 1, Window), SplitsSliding)
    BY <1>1, <1>3 DEF DecodeReads
  <2>5. RowsRead(DecodeReads(l)) \subseteq RowOrNone
    BY <2>2, <2>3, <2>4, SplitsAssumption, DecodeSlidingReadsType
  <2> QED BY <1>3, <2>2, <2>5
<1>4. CASE Kind[l] = "global"
  <2>1. lin[l] \in [LinearSlots -> RowOrNone]
    BY <1>4 DEF GlobalLayers, ControlInv, TypeOK
  <2>2. AppendedToLinear(l) \in [LinearSlots -> RowOrNone]
    BY <1>1, <2>1, LinearAppendType DEF AppendedToLinear
  <2>3. DecodeReads(l) = DecodeGlobalReads(AppendedToLinear(l), pos + 1, SplitsGlobal)
    BY <1>1, <1>4 DEF DecodeReads
  <2>4. RowsRead(DecodeReads(l)) \subseteq RowOrNone
    BY <1>1, <2>2, <2>3, SplitsAssumption, DecodeGlobalReadsType
  <2> QED BY <1>4, <2>2, <2>4
<1> QED BY <1>2, <1>3, <1>4

(* DecodeLayer: the same as for a prefill layer.                            *)
LEMMA DecodeLayerControl ==
  ASSUME ControlInv, NEW l \in Layers, DecodeLayer(l), UNCHANGED sessionVars
  PROVE  ControlInv'
<1>1. /\ At("decode", "layer") /\ l = call.layer
      /\ call' = [call EXCEPT !.layer = @ + 1]
      /\ UNCHANGED <<pos, step, prows, brow, graphs, fed, history, req, dirty>>
  BY DEF DecodeLayer, NextLayer, stageVars, sessionVars
<1>2. call \in CallRecord /\ call' \in CallRecord
  BY <1>1, CallSteps DEF ControlInv, TypeOK
<1>3. /\ call'.op = "decode" /\ call'.pc = "layer" /\ call'.todo = call.todo
      /\ call'.layer = l + 1
  BY <1>1, <1>2 DEF CallRecord, At
<1>4. seen' \subseteq RowOrNone /\ logits' \subseteq RowOrNone
  <2>1. seen' = seen \cup RowsRead(DecodeReads(l))
    BY DEF DecodeLayer
  <2>2. seen \subseteq RowOrNone /\ logits \subseteq RowOrNone
    BY DEF ControlInv, TypeOK
  <2>3. seen' \subseteq RowOrNone
    BY <1>1, <2>1, <2>2, DecodeStoresType
  <2>4. logits' = seen' \/ logits' = logits
    BY DEF DecodeLayer
  <2> QED BY <2>2, <2>3, <2>4
<1>5. ring' \in [SlidingLayers -> [Slots -> RowOrNone]]
      /\ lin' \in [GlobalLayers -> [LinearSlots -> RowOrNone]]
  <2>1. ring \in [SlidingLayers -> [Slots -> RowOrNone]]
        /\ lin \in [GlobalLayers -> [LinearSlots -> RowOrNone]]
    BY DEF ControlInv, TypeOK
  <2>2. \/ /\ Kind[l] = "sliding"
           /\ ring' = [ring EXCEPT ![l] = AppendedToRing(l)]
           /\ UNCHANGED lin
        \/ /\ Kind[l] = "global"
           /\ lin' = [lin EXCEPT ![l] = AppendedToLinear(l)]
           /\ UNCHANGED ring
    BY DEF DecodeLayer
  <2> QED BY <1>1, <2>1, <2>2, DecodeStoresType
<1>6. TypeOK'
  BY <1>1, <1>2, <1>4, <1>5 DEF ControlInv, TypeOK
<1>7. CallOK'
  <2>1. l + 1 \in 1 .. NumLayers + 1
    BY LayersAssumption DEF Layers
  <2> QED BY <1>1, <1>3, <2>1 DEF ControlInv, CallOK, At, NoCall
<1>8. StagedOK'
  BY <1>1, <1>3 DEF StagedOK, At, ControlInv
<1>9. FedOK'
  BY <1>1 DEF FedOK, ControlInv
<1> QED BY <1>6, <1>7, <1>8, <1>9 DEF ControlInv

(* Advance: pos and the tokens advanced over move together.                 *)
LEMMA AdvanceControl ==
  ASSUME ControlInv, Advance, UNCHANGED sessionVars
  PROVE  ControlInv'
<1>1. /\ At("decode", "layer")
      /\ pos' = pos + 1
      /\ fed' = Append(fed, call.todo[1])
      /\ call' = [call EXCEPT !.pc = "read"]
      /\ UNCHANGED <<ring, lin, step, prows, brow, graphs, seen, logits, history, req, dirty>>
  BY DEF Advance, Goto, kvVars, stageVars, sessionVars
<1>2. call \in CallRecord /\ call' \in CallRecord
  BY <1>1, CallSteps DEF ControlInv, TypeOK, PhaseOfCall
<1>3. call'.op = "decode" /\ call'.pc = "read" /\ call'.todo = call.todo
  BY <1>1, <1>2 DEF CallRecord, At
<1>4. call.todo[1] \in Token
  <2>1. Len(call.todo) = 1 /\ call.todo \in Seq(Token)
    BY <1>1, <1>2 DEF ControlInv, CallOK, CallRecord, At
  <2> QED BY <2>1, ElementOfSeq
<1>5. fed' \in Seq(Token) /\ Len(fed') = Len(fed) + 1
  BY <1>1, <1>4, AppendProperties DEF ControlInv, TypeOK
<1>6. TypeOK'
  BY <1>1, <1>2, <1>5 DEF ControlInv, TypeOK
<1>7. CallOK'
  BY <1>1, <1>3 DEF ControlInv, CallOK, At, NoCall
<1>8. StagedOK'
  BY <1>3 DEF StagedOK, At
<1>9. FedOK'
  BY <1>1, <1>5 DEF ControlInv, FedOK
<1> QED BY <1>6, <1>7, <1>8, <1>9 DEF ControlInv

(* A step that only moves the call to another phase.                        *)
LEMMA GotoControl ==
  ASSUME ControlInv, call.pc \in {"record", "stage", "layer", "read"},
         NEW pc \in {"ok", "err"}, Goto(pc),
         UNCHANGED <<pos, kvVars, stageVars, graphs, seen, logits, fed, sessionVars>>
  PROVE  ControlInv'
<1>1. /\ call' = [call EXCEPT !.pc = pc]
      /\ UNCHANGED <<pos, ring, lin, step, prows, brow, graphs, seen, logits, fed,
                     history, req, dirty>>
  BY DEF Goto, kvVars, stageVars, sessionVars
<1>2. call \in CallRecord /\ call' \in CallRecord
  BY <1>1, CallSteps DEF ControlInv, TypeOK, PhaseOfCall
<1>3. call'.op = call.op /\ call'.pc = pc /\ call'.todo = call.todo
  BY <1>1, <1>2 DEF CallRecord
<1>4. call.op # "none"
  BY DEF ControlInv, CallOK
<1>5. TypeOK'
  BY <1>1, <1>2 DEF ControlInv, TypeOK
<1>6. CallOK'
  BY <1>1, <1>3, <1>4 DEF ControlInv, CallOK, NoCall
<1>7. StagedOK'
  BY <1>3 DEF StagedOK, At
<1>8. FedOK'
  BY <1>1 DEF ControlInv, FedOK
<1> QED BY <1>5, <1>6, <1>7, <1>8 DEF ControlInv

(* ReadLogits ends the call.                                                *)
LEMMA ReadLogitsControl ==
  ASSUME ControlInv, ReadLogits, UNCHANGED sessionVars
  PROVE  ControlInv'
  BY GotoControl DEF ReadLogits

(* GpuFault ends the call with pos and fed as they are.                     *)
LEMMA GpuFaultControl ==
  ASSUME ControlInv, NEW kind \in Faults, GpuFault(kind), UNCHANGED sessionVars
  PROVE  ControlInv'
<1>1. call.pc \in {"record", "stage", "layer", "read"}
  BY DEF GpuFault, FaultPossible
<1> QED BY <1>1, GotoControl DEF GpuFault

(* Session::reset and the start of a request.                               *)
LEMMA RequestControl ==
  ASSUME ControlInv, NEW r \in Requests, Request(r)
  PROVE  ControlInv'
<1> DEFINE suffix == SubSeq(r.prompt, Len(history') + 1, Len(r.prompt))
<1>1. /\ r.prompt \in Seq(Token) /\ r.max \in Nat /\ Len(r.prompt) \in Nat \ {0}
  <2>1. r \in [prompt : Seq(Token), max : Nat]
    BY RequestsAssumption
  <2>2. Len(r.prompt) > 0
    BY DEF Request
  <2> QED BY <2>1, <2>2
<1>2. /\ history' \in Seq(Token) /\ Len(history') < Len(r.prompt)
      /\ fed' \in Seq(Token) /\ pos' \in Nat /\ Len(fed') = pos' /\ dirty' \in BOOLEAN
  <2>1. CASE MustReset(r.prompt)
    <3>1. ClearResident
      BY <2>1 DEF Request
    <3>2. <<>> \in Seq(Token) /\ Len(<<>>) = 0
      BY EmptySeq
    <3>3. pos' = 0 /\ fed' = <<>> /\ history' = <<>> /\ dirty' = FALSE
      BY <3>1 DEF ClearResident
    <3>4. Len(history') = 0 /\ Len(fed') = 0 /\ history' \in Seq(Token) /\ fed' \in Seq(Token)
      BY <3>2, <3>3
    <3>5. dirty' \in BOOLEAN
      BY <3>3
    <3>6. Len(history') < Len(r.prompt) /\ pos' \in Nat /\ Len(fed') = pos'
      BY <1>1, <3>3, <3>4
    <3> QED BY <3>4, <3>5, <3>6
  <2>2. CASE ~MustReset(r.prompt)
    <3>1. Len(history) < Len(r.prompt)
      BY <2>2, <1>1 DEF MustReset, ControlInv, TypeOK
    <3>2. KeepResident
      BY <2>2 DEF Request
    <3> QED BY <3>1, <3>2 DEF KeepResident, ControlInv, TypeOK, FedOK
  <2> QED BY <2>1, <2>2
<1>3. suffix \in Seq(Token) /\ Len(suffix) # 0
  <2>1. Len(history') + 1 \in 1 .. Len(r.prompt)
    BY <1>1, <1>2
  <2>2. \A i \in Len(history') + 1 .. Len(r.prompt) : r.prompt[i] \in Token
    BY <1>1, <2>1
  <2> QED BY <1>1, <2>1, <2>2, SubSeqProperties
<1> HIDE DEF suffix
<1>4. /\ call' = PrefillCall(suffix)
      /\ req' = [pc |-> "prefill", prompt |-> r.prompt, out |-> <<>>,
                 max |-> r.max, stop |-> "none"]
      /\ UNCHANGED <<ring, lin, step, prows, brow, graphs, seen, logits>>
  BY DEF Request, suffix, kvVars, stageVars
<1>5. TypeOK'
  <2>1. call' \in CallRecord
    BY <1>3, <1>4, CallSteps DEF ControlInv, TypeOK
  <2>2. req' \in RequestRecord
    BY <1>1, <1>4, EmptySeq DEF RequestRecord, PhaseOfRequest
  <2> QED BY <1>2, <1>4, <2>1, <2>2 DEF ControlInv, TypeOK
<1>6. CallOK'
  BY <1>3, <1>4, EmptySeq DEF CallOK, PrefillCall
<1>7. StagedOK'
  BY <1>4 DEF StagedOK, At, PrefillCall
<1>8. FedOK'
  BY <1>2 DEF FedOK
<1> QED BY <1>5, <1>6, <1>7, <1>8 DEF ControlInv

(* Reset, between requests, rewinds pos and fed together.                   *)
LEMMA ResetControl ==
  ASSUME ControlInv, Reset
  PROVE  ControlInv'
<1>1. /\ req.pc = "idle"
      /\ pos' = 0 /\ fed' = <<>> /\ history' = <<>> /\ dirty' = FALSE
      /\ UNCHANGED <<ring, lin, step, prows, brow, graphs, seen, logits, call, req>>
  BY DEF Reset, ClearResident, kvVars, stageVars
<1>2. call = NoCall
  BY <1>1 DEF ControlInv, CallOK
<1>3. TypeOK'
  BY <1>1, EmptySeq DEF ControlInv, TypeOK
<1>4. CallOK'
  BY <1>1, <1>2 DEF ControlInv, CallOK, NoCall
<1>5. StagedOK'
  BY <1>1, <1>2 DEF StagedOK, At, NoCall
<1>6. FedOK'
  BY <1>1, EmptySeq DEF FedOK
<1> QED BY <1>3, <1>4, <1>5, <1>6 DEF ControlInv

(* The steps in which the session takes up what a call returned.            *)
LEMMA ReturnControl ==
  ASSUME ControlInv, req' \in RequestRecord, history' \in Seq(Token), dirty' \in BOOLEAN,
         req'.pc \in {"idle", "sample"}, call' = NoCall,
         UNCHANGED <<pos, kvVars, stageVars, graphs, seen, logits, fed>>
  PROVE  ControlInv'
<1>1. UNCHANGED <<pos, ring, lin, step, prows, brow, graphs, seen, logits, fed>>
  BY DEF kvVars, stageVars
<1>2. TypeOK'
  BY <1>1, CallSteps DEF ControlInv, TypeOK
<1>3. CallOK'
  BY DEF CallOK, NoCall
<1>4. StagedOK'
  BY DEF StagedOK, At, NoCall
<1>5. FedOK'
  BY <1>1 DEF ControlInv, FedOK
<1> QED BY <1>2, <1>3, <1>4, <1>5 DEF ControlInv

(* PrefillReturns: no token of the prompt is left to prefill.               *)
LEMMA PrefillReturnsControl ==
  ASSUME ControlInv, PrefillReturns
  PROVE  ControlInv'
<1>1. req \in RequestRecord /\ history \in Seq(Token) /\ req.prompt \in Seq(Token)
  BY DEF ControlInv, TypeOK, RequestRecord
<1>2. req' \in RequestRecord /\ req'.pc = "sample"
  BY <1>1 DEF PrefillReturns, RequestRecord, PhaseOfRequest
<1>3. history' \in Seq(Token)
  <2>1. \A i \in Len(history) + 1 .. Len(req.prompt) : req.prompt[i] \in Token
    BY <1>1
  <2>2. SubSeq(req.prompt, Len(history) + 1, Len(req.prompt)) \in Seq(Token)
    BY <1>1, <2>1, SubSeqProperties
  <2> QED BY <1>1, <2>2, ConcatProperties DEF PrefillReturns
<1>4. dirty' \in BOOLEAN
  BY DEF PrefillReturns, ControlInv, TypeOK
<1> QED BY <1>2, <1>3, <1>4, ReturnControl DEF PrefillReturns

(* DecodeReturns: the call that returns is the one of the last sampled      *)
(* token.                                                                   *)
LEMMA DecodeReturnsControl ==
  ASSUME ControlInv, DecodeReturns
  PROVE  ControlInv'
<1>1. /\ req \in RequestRecord /\ history \in Seq(Token) /\ req.out \in Seq(Token)
      /\ req.out # <<>>
  BY DEF DecodeReturns, ControlInv, CallOK, TypeOK, RequestRecord
<1>2. req' \in RequestRecord /\ req'.pc = "sample"
  BY <1>1 DEF DecodeReturns, RequestRecord, PhaseOfRequest
<1>3. history' \in Seq(Token)
  <2>1. Len(req.out) \in 1 .. Len(req.out)
    BY <1>1, EmptySeq
  <2>2. req.out[Len(req.out)] \in Token
    BY <1>1, <2>1, ElementOfSeq
  <2> QED BY <1>1, <2>2, AppendProperties DEF DecodeReturns
<1>4. dirty' \in BOOLEAN
  BY DEF DecodeReturns, ControlInv, TypeOK
<1> QED BY <1>2, <1>3, <1>4, ReturnControl DEF DecodeReturns

(* RequestFails leaves no call behind.                                      *)
LEMMA RequestFailsControl ==
  ASSUME ControlInv, RequestFails
  PROVE  ControlInv'
<1>1. req' \in RequestRecord /\ req'.pc = "idle"
  BY DEF RequestFails, ControlInv, TypeOK, RequestRecord, PhaseOfRequest
<1>2. history' \in Seq(Token) /\ dirty' \in BOOLEAN
  BY DEF RequestFails, ControlInv, TypeOK
<1> QED BY <1>1, <1>2, ReturnControl DEF RequestFails

(* Sample starts a decode call exactly when the request goes on.            *)
LEMMA SampleControl ==
  ASSUME ControlInv, NEW tok \in Token, NEW keepGoing \in BOOLEAN, Sample(tok, keepGoing)
  PROVE  ControlInv'
<1> DEFINE out  == Append(req.out, tok)
           stop == StopReason(out, keepGoing, req.max)
<1>1. req \in RequestRecord /\ req.out \in Seq(Token) /\ req.max \in Nat
  BY DEF ControlInv, TypeOK, RequestRecord
<1>2. /\ out \in Seq(Token) /\ out # <<>> /\ Len(out) = Len(req.out) + 1
      /\ out[Len(out)] = tok
  BY <1>1, AppendProperties
<1>3. stop \in {"none", "aborted", "eos", "max"}
  BY DEF StopReason
<1>4. /\ req' = [req EXCEPT !.out = out, !.stop = stop,
                            !.pc = IF stop = "none" THEN "decode" ELSE "idle"]
      /\ call' = IF stop = "none" THEN DecodeCall(tok) ELSE NoCall
      /\ UNCHANGED <<pos, kvVars, stageVars, graphs, seen, logits, fed, history, dirty>>
  BY DEF Sample
<1> HIDE DEF out, stop
<1>5. /\ req' \in RequestRecord /\ req'.out = out
      /\ req'.pc = IF stop = "none" THEN "decode" ELSE "idle"
  BY <1>1, <1>2, <1>3, <1>4 DEF RequestRecord, PhaseOfRequest
<1>6. history \in Seq(Token) /\ dirty \in BOOLEAN
  BY DEF ControlInv, TypeOK
<1>7. CASE stop # "none"
  BY <1>4, <1>5, <1>6, <1>7, ReturnControl
<1>8. CASE stop = "none"
  <2>1. call' = DecodeCall(tok) /\ req'.pc = "decode"
    BY <1>4, <1>5, <1>8
  <2>2. UNCHANGED <<pos, ring, lin, step, prows, brow, graphs, seen, logits, fed, history, dirty>>
    BY <1>4 DEF kvVars, stageVars
  <2>3. call' \in CallRecord
    BY <2>1, CallSteps DEF ControlInv, TypeOK
  <2>4. TypeOK'
    BY <1>5, <2>2, <2>3 DEF ControlInv, TypeOK
  <2>5. CallOK'
    BY <1>2, <1>5, <2>1 DEF CallOK, DecodeCall
  <2>6. StagedOK'
    BY <2>1 DEF StagedOK, At, DecodeCall
  <2>7. FedOK'
    BY <2>2 DEF ControlInv, FedOK
  <2> QED BY <2>4, <2>5, <2>6, <2>7 DEF ControlInv
<1> QED BY <1>7, <1>8

-----------------------------------------------------------------------------
(* Every step of session, driver and GPU preserves the control invariant.   *)
LEMMA NextControl ==
  ASSUME ControlInv, [Next]_vars
  PROVE  ControlInv'
<1>1. ASSUME NEW r \in Requests, Request(r) PROVE ControlInv'
  BY <1>1, RequestControl
<1>2. CASE Reset
  BY <1>2, ResetControl
<1>3. CASE PrefillReturns
  BY <1>3, PrefillReturnsControl
<1>4. ASSUME NEW tok \in Token, NEW keepGoing \in BOOLEAN, Sample(tok, keepGoing)
      PROVE  ControlInv'
  BY <1>4, SampleControl
<1>5. CASE DecodeReturns
  BY <1>5, DecodeReturnsControl
<1>6. CASE RequestFails
  BY <1>6, RequestFailsControl
<1>7. ASSUME ModelStep, UNCHANGED sessionVars PROVE ControlInv'
  BY <1>7, RecordChunkControl, StageChunkControl, PrefillLayerControl, AdvanceChunkControl,
     StageTokenControl, DecodeLayerControl, AdvanceControl, ReadLogitsControl
     DEF ModelStep
<1>8. ASSUME ModelFault, UNCHANGED sessionVars PROVE ControlInv'
  BY <1>8, GpuFaultControl DEF ModelFault
<1>9. CASE UNCHANGED vars
  <2>1. UNCHANGED <<pos, ring, lin, step, prows, brow, graphs, seen, logits, fed, call,
                    history, req, dirty>>
    BY <1>9 DEF vars, modelVars, kvVars, stageVars, sessionVars
  <2>2. TypeOK'
    BY <2>1 DEF ControlInv, TypeOK
  <2>3. CallOK'
    BY <2>1 DEF ControlInv, CallOK, ChunkKey, ChunkShape, ChunkLen
  <2>4. StagedOK'
    BY <2>1 DEF ControlInv, StagedOK, At, ChunkLen, StagedRow
  <2>5. FedOK'
    BY <2>1 DEF ControlInv, FedOK
  <2> QED BY <2>2, <2>3, <2>4, <2>5 DEF ControlInv
<1> QED BY <1>1, <1>2, <1>3, <1>4, <1>5, <1>6, <1>7, <1>8, <1>9 DEF Next, SessionStep

(* At every point of a call, pos counts the tokens advanced over since the  *)
(* last reset, the staged rows and step buffer belong to pos, every cached  *)
(* graph is the one its key describes, and the call is the one the request  *)
(* is waiting for: what the handlers of prefill, decode_step and request    *)
(* assume of each other.                                                    *)
THEOREM ControlInvariant == Spec => []ControlInv
<1>1. Init => ControlInv
  BY InitControl
<1>2. ControlInv /\ [Next]_vars => ControlInv'
  BY NextControl
<1> QED BY <1>1, <1>2, PTL DEF Spec

(* Every variable keeps its type, whatever the window, the capacity, the    *)
(* layer stack, the chunk size and the errors: no step of prefill, decode   *)
(* or request reads a row, a slot or a cached graph that is not there.      *)
THEOREM TypeCorrect == Spec => []TypeOK
<1>1. ControlInv => TypeOK
  BY DEF ControlInv
<1> QED BY <1>1, ControlInvariant, PTL
=============================================================================
