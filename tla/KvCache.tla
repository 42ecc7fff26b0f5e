------------------------------ MODULE KvCache ------------------------------
(***************************************************************************)
(* The per-layer KV stores and the attention kernels' view of them:        *)
(* kv_append.wgsl, kv_append_global_q8.wgsl, attn_prefill_sliding_ring,    *)
(* attn_decode_sliding, attn_prefill_global_flash_sp_iq and                *)
(* attn_decode_global_q8k.  Sliding layers keep a ring of Window slots,    *)
(* global layers a linear store of GlobalCap slots.                        *)
(*                                                                         *)
(* A K/V row is abstracted to what tells one row from another: the         *)
(* absolute position its rope angle encodes and the token it was computed  *)
(* from.  A read is a triple <<where, index, row>>, so that a row read     *)
(* twice by one query is two reads.                                        *)
(***************************************************************************)
EXTENDS Integers, Sequences

CONSTANTS
  Window,     \* slots of a sliding ring = attention window (1024)
  GlobalCap,  \* slots of a linear global store (GpuModel::new's global_cap)
  Token,      \* token ids
  NoRow       \* what a slot holds that no usable row was written to

ASSUME WindowAssumption == Window \in Nat \ {0}
ASSUME CapAssumption    == GlobalCap \in Nat \ {0}
ASSUME NoRowAssumption  == NoRow \notin [pos : Nat, tok : Token]

Row == [pos : Nat, tok : Token]
RowOrNone == Row \cup {NoRow}

Slots == 0 .. Window - 1
LinearSlots == 0 .. GlobalCap - 1

SmallerOf(a, b) == IF a <= b THEN a ELSE b
LargerOf(a, b)  == IF a >= b THEN a ELSE b
CeilDiv(a, b)   == (a + b - 1) \div b

RingSlot(p) == p % Window

-----------------------------------------------------------------------------
(* Appends.  `rows` is the sequence of appended rows, `base` the step       *)
(* buffer's pos: the position of the first of them.                         *)

RowsHitting(s, base, rows) ==
  {i \in 1 .. Len(rows) : RingSlot(base + i - 1) = s}

(* The contents slot s may be left with.  One thread copies one element and *)
(* nothing orders the threads of a dispatch: rows that share a slot race,   *)
(* and the slot ends with one of them or with a mixture of their elements.  *)
SlotOutcomes(s, ring, base, rows) ==
  LET hit == RowsHitting(s, base, rows)
  IN  IF hit = {}
        THEN {ring[s]}
        ELSE {rows[i] : i \in hit}
             \cup {x \in {NoRow} : \E i, j \in hit : i # j}

(* The rings one kv_append_sliding dispatch may leave. *)
RingAppend(ring, base, rows) ==
  {r \in [Slots -> UNION {SlotOutcomes(s, ring, base, rows) : s \in Slots}] :
     \A s \in Slots : r[s] \in SlotOutcomes(s, ring, base, rows)}

(* kv_append_global[_q8]: slot = base + token.  Rows past the end of the    *)
(* store do not reach any of its slots.                                     *)
LinearAppend(lin, base, rows) ==
  [s \in LinearSlots |-> IF s - base + 1 \in 1 .. Len(rows)
                           THEN rows[s - base + 1]
                           ELSE lin[s]]

-----------------------------------------------------------------------------
(* Reads.                                                                   *)

LinearRow(lin, t) == IF t \in LinearSlots THEN lin[t] ELSE NoRow

(* First position a query at position q may attend. *)
WindowBegin(q) == IF q + 1 > Window THEN q + 1 - Window ELSE 0

(* Query i (from 0) of a prefill chunk that starts at position q0: history  *)
(* from the ring as it stands before the chunk's append, then the chunk's   *)
(* own rows up to the query.                                                *)
PrefillSlidingReads(ring, q0, rows, i) ==
  LET begin == WindowBegin(q0 + i)
  IN  {<<"ring", t, ring[RingSlot(t)]>> :
         t \in begin .. SmallerOf(q0, q0 + i + 1) - 1}
      \cup
      {<<"chunk", c, rows[c + 1]>> : c \in LargerOf(0, begin - q0) .. i}

(* Global prefill attends the linear store after the append, keys 0..q0+i.  *)
PrefillGlobalReads(lin, q0, i) ==
  {<<"linear", t, LinearRow(lin, t)>> : t \in 0 .. q0 + i}

(* Mutant: the chunk of a split is rounded down, the last keys have no split. *)
SplitRangeFloor(kvLen, n, k) ==
  LET chunk == kvLen \div n
      begin == SmallerOf(k * chunk, kvLen)
  IN  begin .. SmallerOf(begin + chunk, kvLen) - 1

(* Split-K decode: split k of n owns a contiguous run of the kvLen keys.    *)
SplitRange(kvLen, n, k) ==
  LET chunk == CeilDiv(kvLen, n)
      begin == SmallerOf(k * chunk, kvLen)
  IN  begin .. SmallerOf(begin + chunk, kvLen) - 1

(* The sliding decode kernel walks PHYSICAL slots 0..kvLen-1 of the ring.   *)
DecodeSlidingReads(ring, kvLen, n) ==
  UNION {{<<k, s, ring[s]>> : s \in SplitRange(kvLen, n, k)} : k \in 0 .. n - 1}

DecodeGlobalReads(lin, kvLen, n) ==
  UNION {{<<k, t, LinearRow(lin, t)>> : t \in SplitRange(kvLen, n, k)} :
           k \in 0 .. n - 1}

-----------------------------------------------------------------------------
(* What attention ought to read.                                            *)

RowAt(ctx, t) == [pos |-> t, tok |-> ctx[t + 1]]

(* The rows of context ctx at positions lo..hi. *)
Rows(ctx, lo, hi) == {RowAt(ctx, t) : t \in lo .. hi}

RowsRead(reads) == {r[3] : r \in reads}

(* Every expected row is read, nothing else is, and none is read twice. *)
Exactly(reads, expected) ==
  /\ RowsRead(reads) = expected
  /\ \A r1, r2 \in reads : r1[3] = r2[3] => r1 = r2

(* Sliding-window attention: the last Window positions up to the query. *)
FirstInWindow(q) == LargerOf(0, q + 1 - Window)

(* The ring holds the rows a query at position p attends besides its own. *)
HoldsTail(ring, ctx, p) ==
  \A t \in FirstInWindow(p) .. p - 1 : ring[RingSlot(t)] = RowAt(ctx, t)

HoldsPrefix(lin, ctx, p) ==
  \A t \in 0 .. p - 1 : LinearRow(lin, t) = RowAt(ctx, t)
=============================================================================
