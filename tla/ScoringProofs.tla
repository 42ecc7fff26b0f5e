--------------------------- MODULE ScoringProofs ----------------------------
(***************************************************************************)
(* The evaluation path for every chunk size, every size of a batch of the  *)
(* LM head, every padding, and every history of calls on one model, failed *)
(* ones included: the logits returned are those of the text's positions,   *)
(* although every graph is recorded once and used for all later calls.     *)
(***************************************************************************)
EXTENDS Scoring, TLAPS, SequenceTheorems

ScoreNext ==
    \/ \E n \in Nat \ {0}, kind \in {"all", "plain"} : StartScore(n, kind)
    \/ ScoreStep

ScoreSpec == ScoreInit /\ [][ScoreNext]_scoreVars

-----------------------------------------------------------------------------
(* The inductive invariant.                                                 *)

RowSet == Nat \X {"nothing", "embedding", "residual", "norm", "logits"}

Busy == score \in {"stage", "layers", "norm", "head"}
Finished == Len(text) - Len(textLeft)

ScoreTypeOK ==
    /\ score \in {"idle", "stage", "layers", "norm", "head", "ok", "failed"}
    /\ wants \in {"all", "plain"}
    /\ text \in Seq(Nat) /\ textLeft \in Seq(Nat)
    /\ at \in Nat /\ row0 \in Nat
    /\ x \in [Rows -> RowSet] /\ xn \in [Rows -> RowSet] /\ logitsAll \in [Rows -> RowSet]
    /\ result \in Seq(RowSet)

(* A cached graph works on the rows that its key stands for.                *)
CachesOK ==
    /\ \A key \in DOMAIN chunkGraphs : chunkGraphs[key] = key[1]
    /\ \A key \in DOMAIN normGraphs : normGraphs[key] = key
    /\ \A key \in DOMAIN headGraphs : headGraphs[key] = key[1] + 1 .. key[1] + key[2]

(* What is left is the end of the text, and pos is where it begins, or,     *)
(* after the layers, a chunk further.                                       *)
TextOK ==
    /\ Len(textLeft) <= Len(text)
    /\ \A i \in 1 .. Len(textLeft) : textLeft[i] = text[Finished + i]
    /\ Busy => textLeft # <<>>
    /\ score = "ok" => textLeft = <<>> /\ text # <<>> /\ at = text[Len(text)]

PositionOK ==
    /\ score \in {"stage", "layers"} => \A i \in 1 .. Len(textLeft) : textLeft[i] = at + i
    /\ score \in {"norm", "head"} =>
         wants = "all" /\ \A i \in 1 .. Len(textLeft) : textLeft[i] = at - ChunkLen + i

(* The rows of the chunk go from one buffer to the next.                    *)
Holds(rows, n, what) == \A r \in 1 .. n : rows[r] = Row(textLeft[r], what)

RowsOK ==
    /\ score = "layers" => ShapeKey \in DOMAIN chunkGraphs /\ Holds(x, ChunkLen, "embedding")
    /\ score = "norm" => Holds(x, ChunkLen, "residual")
    /\ score = "head" =>
         row0 <= ChunkLen /\ Holds(xn, ChunkLen, "norm") /\ Holds(logitsAll, row0, "logits")

ResultOK ==
    wants = "all" =>
      /\ Len(result) = Finished
      /\ \A i \in 1 .. Len(result) : result[i] = Row(text[i], "logits")

ScoreInv == ScoreTypeOK /\ CachesOK /\ TextOK /\ PositionOK /\ RowsOK /\ ResultOK

-----------------------------------------------------------------------------
(* Arithmetic, caches and graphs.                                           *)

LEMMA PaddedCovers ==
  ASSUME NEW n \in Nat
  PROVE  Padded(n) \in Int /\ n <= Padded(n)
<1> DEFINE b == RowBlock
           y == n + b - 1
<1>1. b \in Nat \ {0} /\ y \in Int
  BY ScoringAssumption
<1>2. y \div b \in Int /\ y % b \in 0 .. b - 1 /\ y = b * (y \div b) + (y % b)
  BY ONLY <1>1
<1>3. Padded(n) = (y \div b) * b
  BY DEF Padded
<1>4. (y \div b) * b = b * (y \div b) /\ b * (y \div b) \in Int
  BY ONLY <1>1, <1>2
<1> HIDE DEF y, b
<1> QED
  <2>1. y = n + b - 1
    BY DEF y, b
  <2> QED
    BY ONLY <1>1, <1>2, <1>3, <1>4, <2>1, n \in Nat

LEMMA ChunkLenFits ==
  ASSUME textLeft \in Seq(Nat), textLeft # <<>>
  PROVE  /\ ChunkLen \in 1 .. Len(textLeft) /\ ChunkLen <= ScoreChunk
         /\ Len(textLeft) \in Nat /\ ChunkLen \in Nat
BY ScoringAssumption, EmptySeq, LenProperties DEF ChunkLen, Least

LEMMA CachedKeeps ==
  ASSUME NEW graphs, NEW key, NEW rows
  PROVE  /\ key \in DOMAIN Cached(graphs, key, rows)
         /\ \A k \in DOMAIN Cached(graphs, key, rows) :
              \/ k \in DOMAIN graphs /\ Cached(graphs, key, rows)[k] = graphs[k]
              \/ k = key /\ Cached(graphs, key, rows)[k] = rows
BY DEF Cached

LEMMA ThroughType ==
  ASSUME NEW source \in [Rows -> RowSet], NEW target \in [Rows -> RowSet],
         NEW rows, NEW from,
         NEW into \in {"nothing", "embedding", "residual", "norm", "logits"}
  PROVE  Through(source, target, rows, from, into) \in [Rows -> RowSet]
<1> SUFFICES ASSUME NEW r \in Rows
             PROVE  Through(source, target, rows, from, into)[r] \in RowSet
  BY DEF Through
<1>1. source[r] \in RowSet /\ target[r] \in RowSet
  OBVIOUS
<1>2. source[r][1] \in Nat
  BY <1>1 DEF RowSet
<1> QED
  BY <1>1, <1>2 DEF Through, RowSet, Row, Garbage

LEMMA ThroughRow ==
  ASSUME NEW source, NEW target, NEW rows, NEW from, NEW into, NEW r \in Rows
  PROVE  /\ r \in rows /\ (\E p : source[r] = Row(p, from)) =>
              Through(source, target, rows, from, into)[r] = Row(source[r][1], into)
         /\ r \notin rows => Through(source, target, rows, from, into)[r] = target[r]
BY DEF Through, Row

LEMMA RecordChunkKeeps ==
  ASSUME CachesOK, RecordChunk
  PROVE  /\ \A key \in DOMAIN chunkGraphs' : chunkGraphs'[key] = key[1]
         /\ ShapeKey \in DOMAIN chunkGraphs'
BY CachedKeeps DEF CachesOK, RecordChunk, ShapeKey

LEMMA RecordNormKeeps ==
  ASSUME CachesOK, RecordNorm
  PROVE  /\ \A key \in DOMAIN normGraphs' : normGraphs'[key] = key
         /\ Padded(ChunkLen) \in DOMAIN normGraphs'
BY CachedKeeps DEF CachesOK, RecordNorm

LEMMA RecordHeadKeeps ==
  ASSUME CachesOK, RecordHead
  PROVE  /\ \A key \in DOMAIN headGraphs' : headGraphs'[key] = key[1] + 1 .. key[1] + key[2]
         /\ BatchOf \in DOMAIN headGraphs'
<1>1. BatchOf[1] = row0 /\ BatchOf[2] = BatchLen
  BY DEF BatchOf, BatchKey
<1> QED
  BY <1>1, CachedKeeps DEF CachesOK, RecordHead

-----------------------------------------------------------------------------
(* The invariant is inductive.                                              *)

LEMMA GarbageIsRow == Garbage \in RowSet
BY DEF Garbage, Row, RowSet

LEMMA ScoreInitHolds == ScoreInit => ScoreInv
<1> SUFFICES ASSUME ScoreInit PROVE ScoreInv
  OBVIOUS
<1>1. ScoreTypeOK
  BY GarbageIsRow, EmptySeq DEF ScoreInit, ScoreTypeOK
<1>2. CachesOK
  BY DEF ScoreInit, CachesOK
<1>3. TextOK /\ PositionOK /\ RowsOK
  BY EmptySeq DEF ScoreInit, TextOK, PositionOK, RowsOK, Busy
<1>4. ResultOK
  BY EmptySeq DEF ScoreInit, ResultOK, Finished
<1> QED
  BY <1>1, <1>2, <1>3, <1>4 DEF ScoreInv

LEMMA StartHolds ==
  ASSUME ScoreInv, NEW n \in Nat \ {0}, NEW kind \in {"all", "plain"}, StartScore(n, kind)
  PROVE  ScoreInv'
<1> DEFINE t == [i \in 1 .. n |-> at + i]
<1>1. t \in Seq(Nat) /\ Len(t) = n /\ \A i \in 1 .. n : t[i] = at + i
  <2>1. at \in Nat
    BY DEF ScoreInv, ScoreTypeOK
  <2> QED
    BY <2>1
<1>2. <<>> \o t = t
  BY ONLY <1>1, ConcatEmptySeq
<1> HIDE DEF t
<1>3. /\ text' = t /\ textLeft' = t /\ result' = <<>> /\ score' = "stage" /\ wants' = kind
      /\ row0' = 0 /\ at' = at /\ x' = x /\ xn' = xn /\ logitsAll' = logitsAll
      /\ chunkGraphs' = chunkGraphs /\ normGraphs' = normGraphs /\ headGraphs' = headGraphs
  BY <1>2 DEF StartScore, t
<1>4. ScoreTypeOK'
  BY <1>1, <1>3, EmptySeq DEF ScoreInv, ScoreTypeOK
<1>5. CachesOK'
  BY <1>3 DEF ScoreInv, CachesOK
<1>6. TextOK' /\ PositionOK' /\ RowsOK'
  <2>1. Len(text') - Len(textLeft') = 0 /\ Len(textLeft') \in Nat
    BY <1>1, <1>3
  <2>2. textLeft' # <<>>
    BY <1>1, <1>3, EmptySeq
  <2> QED
    BY <1>1, <1>3, <2>1, <2>2 DEF TextOK, PositionOK, RowsOK, Finished, Busy
<1>7. ResultOK'
  BY <1>1, <1>3, EmptySeq DEF ResultOK, Finished
<1> QED
  BY <1>4, <1>5, <1>6, <1>7 DEF ScoreInv

(* What a step that stays in its chunk leaves alone.                        *)
SameChunk ==
    /\ wants' = wants /\ text' = text /\ textLeft' = textLeft /\ result' = result

LEMMA SameChunkKeeps ==
  ASSUME ScoreInv, SameChunk
  PROVE  /\ ResultOK' /\ ChunkLen' = ChunkLen /\ ShapeKey' = ShapeKey /\ Finished' = Finished
         /\ Len(textLeft') <= Len(text')
         /\ \A i \in 1 .. Len(textLeft') : textLeft'[i] = text'[Finished' + i]
BY DEF ScoreInv, SameChunk, ResultOK, TextOK, Finished, ChunkLen, ShapeKey

LEMMA BusyChunk ==
  ASSUME ScoreInv, Busy
  PROVE  /\ textLeft # <<>> /\ ChunkLen \in 1 .. Len(textLeft) /\ ChunkLen \in Nat
         /\ \A r \in 1 .. ChunkLen : r \in Rows /\ r \in 1 .. Len(textLeft)
         /\ \A r \in 1 .. Len(textLeft) : textLeft[r] \in Nat
         /\ Len(textLeft) \in Nat
<1>1. textLeft # <<>> /\ textLeft \in Seq(Nat)
  BY DEF ScoreInv, TextOK, ScoreTypeOK
<1>2. ChunkLen \in 1 .. Len(textLeft) /\ ChunkLen <= ScoreChunk /\ Len(textLeft) \in Nat
  BY <1>1, ChunkLenFits
<1> QED
  BY <1>1, <1>2, ScoringAssumption, ElementOfSeq DEF Rows

(* The rows of a chunk written: positions of the text.                      *)
LEMMA WriteRowsHolds ==
  ASSUME ScoreInv, Busy, WriteRows, textLeft' = textLeft
  PROVE  x' \in [Rows -> RowSet] /\ (\A r \in 1 .. ChunkLen : x'[r] = Row(textLeft[r], "embedding"))
<1>1. \A r \in 1 .. ChunkLen : r \in Rows /\ Row(textLeft[r], "embedding") \in RowSet
  BY BusyChunk DEF Row, RowSet
<1>2. x \in [Rows -> RowSet] /\ Rows = 1 .. ScoreChunk /\ ChunkLen \in Nat
  BY BusyChunk DEF ScoreInv, ScoreTypeOK, Rows
<1>3. \A r \in Rows : r <= ChunkLen => r \in 1 .. ChunkLen
  BY <1>2, ScoringAssumption
<1>4. x' \in [Rows -> RowSet]
  BY <1>1, <1>2, <1>3 DEF WriteRows
<1>5. ASSUME NEW r \in 1 .. ChunkLen
      PROVE  x'[r] = Row(textLeft[r], "embedding")
  <2>1. r \in Rows /\ r <= ChunkLen
    BY <1>1, <1>2
  <2> QED
    BY <2>1 DEF WriteRows
<1> QED
  BY <1>4, <1>5

LEMMA StageHolds ==
  ASSUME ScoreInv, StageScore
  PROVE  ScoreInv'
<1>1. /\ score = "stage" /\ score' = "layers" /\ SameChunk /\ RecordChunk /\ WriteRows
      /\ at' = at /\ row0' = row0 /\ xn' = xn /\ logitsAll' = logitsAll
      /\ normGraphs' = normGraphs /\ headGraphs' = headGraphs /\ textLeft' = textLeft
  BY DEF StageScore, SameChunk
<1>2. Busy /\ Busy'
  BY <1>1 DEF Busy
<1>3. x' \in [Rows -> RowSet] /\ \A r \in 1 .. ChunkLen : x'[r] = Row(textLeft[r], "embedding")
  BY <1>1, <1>2, WriteRowsHolds
<1>4. CachesOK' /\ ShapeKey \in DOMAIN chunkGraphs'
  BY <1>1, RecordChunkKeeps DEF ScoreInv, CachesOK
<1>5. ScoreTypeOK'
  BY <1>1, <1>3 DEF ScoreInv, ScoreTypeOK, SameChunk
<1>6. TextOK' /\ PositionOK'
  BY <1>1, <1>2, SameChunkKeeps DEF ScoreInv, TextOK, PositionOK, SameChunk, Busy
<1>7. RowsOK'
  BY <1>1, <1>3, <1>4, SameChunkKeeps DEF RowsOK, Holds
<1> QED
  BY <1>1, <1>4, <1>5, <1>6, <1>7, SameChunkKeeps DEF ScoreInv

(* The layers compute all the rows of the chunk: the graph covers them.     *)
LEMMA RunLayersHolds ==
  ASSUME ScoreInv, score = "layers", RunLayers
  PROVE  x' \in [Rows -> RowSet] /\ (\A r \in 1 .. ChunkLen : x'[r] = Row(textLeft[r], "residual"))
<1>1. Busy
  BY DEF Busy
<1>2. chunkGraphs[ShapeKey] = Padded(ChunkLen) /\ Holds(x, ChunkLen, "embedding")
  BY DEF ScoreInv, RowsOK, CachesOK, ShapeKey
<1>3. ChunkLen \in Nat /\ ChunkLen <= Padded(ChunkLen) /\ Padded(ChunkLen) \in Int
  BY <1>1, BusyChunk, PaddedCovers
<1> DEFINE after == Through(x, x, 1 .. Padded(ChunkLen), "embedding", "residual")
<1>4. after \in [Rows -> RowSet]
  BY ThroughType DEF ScoreInv, ScoreTypeOK
<1>5. ASSUME NEW r \in 1 .. ChunkLen
      PROVE  after[r] = Row(textLeft[r], "residual")
  <2>1. r \in Rows /\ r \in 1 .. Padded(ChunkLen) /\ x[r] = Row(textLeft[r], "embedding")
    BY <1>1, <1>2, <1>3, BusyChunk DEF Holds
  <2>2. x[r][1] = textLeft[r]
    BY <2>1 DEF Row
  <2>3. x[r][2] = "embedding"
    BY <2>1 DEF Row
  <2> QED
    BY <2>1, <2>2, <2>3 DEF Through
<1>6. x' = [r \in Rows |-> IF ChunkLen < r /\ r <= Padded(ChunkLen) THEN Garbage ELSE after[r]]
  BY <1>2 DEF RunLayers
<1> HIDE DEF after
<1>7. x' \in [Rows -> RowSet]
  BY <1>4, <1>6, GarbageIsRow
<1>8. ASSUME NEW r \in 1 .. ChunkLen
      PROVE  x'[r] = Row(textLeft[r], "residual")
  <2>1. r \in Rows /\ ~(ChunkLen < r)
    BY <1>1, <1>3, BusyChunk
  <2> QED
    BY <1>5, <1>6, <2>1
<1> QED
  BY <1>7, <1>8

(* One chunk done: what is left is the rest, the result is up to it.        *)
LEMMA NextChunkHolds ==
  ASSUME ScoreInv, Busy, NextChunk,
         wants' = wants, text' = text, at' \in Nat,
         \A i \in 1 .. Len(textLeft) : textLeft[i] = at' - ChunkLen + i
  PROVE  /\ TextOK' /\ PositionOK' /\ textLeft' \in Seq(Nat)
         /\ score' \in {"ok", "stage"}
         /\ Finished' = Finished + ChunkLen
<1>1. /\ textLeft \in Seq(Nat) /\ text \in Seq(Nat) /\ textLeft # <<>>
      /\ Len(textLeft) <= Len(text) /\ Len(textLeft) \in Nat /\ Len(text) \in Nat
      /\ ChunkLen \in 1 .. Len(textLeft) /\ ChunkLen \in Nat
      /\ \A i \in 1 .. Len(textLeft) : textLeft[i] \in Nat /\ textLeft[i] = text[Finished + i]
  BY BusyChunk, LenProperties DEF ScoreInv, ScoreTypeOK, TextOK
<1> DEFINE c == ChunkLen
           n == Len(textLeft)
           left == SubSeq(textLeft, c + 1, n)
<1>2. textLeft' = left /\ score' = IF left = <<>> THEN "ok" ELSE "stage"
  BY DEF NextChunk
<1>3. c + 1 \in Int /\ n \in Int /\ \A i \in c + 1 .. n : textLeft[i] \in Nat
  BY <1>1
<1>4. /\ left \in Seq(Nat)
      /\ Len(left) = IF c + 1 <= n THEN n - (c + 1) + 1 ELSE 0
      /\ \A i \in 1 .. n - (c + 1) + 1 : left[i] = textLeft[c + 1 + i - 1]
  BY ONLY <1>3, SubSeqProperties
<1>5. c \in 1 .. n /\ n \in Nat /\ c \in Nat
  BY <1>1
<1> HIDE DEF c, left, n
<1>6. /\ Len(left) = n - c /\ Len(left) \in Nat
      /\ \A i \in 1 .. Len(left) : left[i] = textLeft[c + i] /\ c + i \in 1 .. n
  BY <1>4, <1>5
<1>7. Finished \in Nat /\ Finished' = Finished + c /\ Finished = Len(text) - n
  <2>1. Finished = Len(text) - n
    BY DEF Finished, n
  <2>2. Finished' = Len(text) - (n - c)
    BY <1>2, <1>6 DEF Finished
  <2>3. Len(text) \in Nat /\ n <= Len(text)
    BY <1>1 DEF n
  <2> QED
    BY ONLY <1>5, <2>1, <2>2, <2>3
<1>8. Len(textLeft') <= Len(text')
  BY <1>1, <1>2, <1>5, <1>6 DEF n
<1>9. ASSUME NEW i \in 1 .. Len(left)
      PROVE  left[i] = text[Finished' + i] /\ left[i] = at' + i
  <2>1. left[i] = textLeft[c + i] /\ c + i \in 1 .. n
    BY <1>6
  <2>2. textLeft[c + i] = text[Finished + (c + i)] /\ textLeft[c + i] = at' - c + (c + i)
    BY <1>1, <2>1 DEF n, c
  <2>3. Finished + (c + i) = Finished' + i /\ at' - c + (c + i) = at' + i
    BY <1>5, <1>6, <1>7
  <2> QED
    BY <2>1, <2>2, <2>3
<1>10. ASSUME left = <<>>
       PROVE  text # <<>> /\ at' = text[Len(text)]
  <2>1. n = c
    BY <1>5, <1>6, <1>10, EmptySeq
  <2>2. textLeft[n] = text[Finished + n] /\ textLeft[n] = at' - c + n
    BY <1>1, <1>5 DEF n, c
  <2>3. Finished + n = Len(text) /\ at' - c + n = at'
    <3>1. Len(text) \in Nat
      BY <1>1
    <3>2. Finished + n = Len(text)
      BY ONLY <1>5, <1>7, <3>1
    <3>3. at' - n + n = at'
      <4>1. \A a, k \in Int : a - k + k = a
        OBVIOUS
      <4>2. at' \in Int /\ n \in Int
        BY <1>5
      <4> QED
        BY <4>1, <4>2, Zenon
    <3> QED
      BY <2>1, <3>2, <3>3
  <2>4. text # <<>>
    BY <1>1, <1>5, EmptySeq DEF n
  <2> QED
    BY <2>2, <2>3, <2>4
<1>11. TextOK'
  BY <1>2, <1>8, <1>9, <1>10 DEF TextOK, Busy
<1>12. PositionOK'
  BY <1>2, <1>9 DEF PositionOK
<1> QED
  BY <1>2, <1>4, <1>7, <1>11, <1>12 DEF c

LEMMA LayersHolds ==
  ASSUME ScoreInv, LayersScore
  PROVE  ScoreInv'
<1>1. /\ score = "layers" /\ RunLayers /\ at' = at + ChunkLen
      /\ wants' = wants /\ text' = text /\ row0' = row0 /\ xn' = xn /\ logitsAll' = logitsAll
      /\ chunkGraphs' = chunkGraphs /\ normGraphs' = normGraphs /\ headGraphs' = headGraphs
      /\ result' = result
      /\ IF wants = "all" THEN score' = "norm" /\ textLeft' = textLeft ELSE NextChunk
  BY DEF LayersScore
<1>2. Busy
  BY <1>1 DEF Busy
<1>3. /\ x' \in [Rows -> RowSet]
      /\ \A r \in 1 .. ChunkLen : x'[r] = Row(textLeft[r], "residual")
  BY <1>1, RunLayersHolds
<1>4. at \in Nat /\ ChunkLen \in Nat /\ Len(textLeft) \in Nat /\ at' \in Nat
  BY <1>1, <1>2, BusyChunk DEF ScoreInv, ScoreTypeOK
<1>5. \A i \in 1 .. Len(textLeft) : textLeft[i] = at' - ChunkLen + i
  <2>1. \A i \in 1 .. Len(textLeft) : textLeft[i] = at + i /\ i \in Int
    BY <1>1, <1>4 DEF ScoreInv, PositionOK
  <2>2. at' - ChunkLen = at
    BY <1>1, <1>4
  <2> QED
    BY <2>1, <2>2
<1>6. CachesOK'
  BY <1>1 DEF ScoreInv, CachesOK
<1>7. CASE wants = "all"
  <2>1. SameChunk /\ score' = "norm" /\ textLeft' = textLeft
    BY <1>1, <1>7 DEF SameChunk
  <2>2. ScoreTypeOK'
    BY <1>1, <1>3, <1>4, <2>1 DEF ScoreInv, ScoreTypeOK
  <2>3. TextOK'
    BY <1>2, <2>1, SameChunkKeeps, BusyChunk DEF TextOK
  <2>4. PositionOK' /\ RowsOK'
    BY <1>1, <1>3, <1>5, <1>7, <2>1, SameChunkKeeps DEF PositionOK, RowsOK, Holds
  <2> QED
    BY <1>6, <2>1, <2>2, <2>3, <2>4, SameChunkKeeps DEF ScoreInv
<1>8. CASE wants # "all"
  <2>1. /\ TextOK' /\ PositionOK' /\ textLeft' \in Seq(Nat) /\ score' \in {"ok", "stage"}
    BY <1>1, <1>2, <1>4, <1>5, <1>8, NextChunkHolds
  <2>2. ScoreTypeOK'
    BY <1>1, <1>3, <1>4, <2>1 DEF ScoreInv, ScoreTypeOK
  <2>3. RowsOK' /\ ResultOK'
    BY <1>1, <1>8, <2>1 DEF RowsOK, ResultOK
  <2> QED
    BY <1>6, <2>1, <2>2, <2>3 DEF ScoreInv
<1> QED
  BY <1>7, <1>8

LEMMA RunNormHolds ==
  ASSUME ScoreInv, score = "norm", RecordNorm, RunNorm
  PROVE  xn' \in [Rows -> RowSet] /\ (\A r \in 1 .. ChunkLen : xn'[r] = Row(textLeft[r], "norm"))
<1>1. Busy
  BY DEF Busy
<1>2. normGraphs'[Padded(ChunkLen)] = Padded(ChunkLen) /\ Holds(x, ChunkLen, "residual")
  BY RecordNormKeeps DEF ScoreInv, RowsOK
<1>3. ChunkLen \in Nat /\ ChunkLen <= Padded(ChunkLen) /\ Padded(ChunkLen) \in Int
  BY <1>1, BusyChunk, PaddedCovers
<1>4. xn' = Through(x, xn, 1 .. Padded(ChunkLen), "residual", "norm")
  BY <1>2 DEF RunNorm
<1>5. xn' \in [Rows -> RowSet]
  BY <1>4, ThroughType DEF ScoreInv, ScoreTypeOK
<1>6. ASSUME NEW r \in 1 .. ChunkLen
      PROVE  xn'[r] = Row(textLeft[r], "norm")
  <2>1. r \in Rows /\ r \in 1 .. Padded(ChunkLen) /\ x[r] = Row(textLeft[r], "residual")
    BY <1>1, <1>2, <1>3, BusyChunk DEF Holds
  <2>2. x[r][1] = textLeft[r]
    BY <2>1 DEF Row
  <2>3. x[r][2] = "residual"
    BY <2>1 DEF Row
  <2> QED
    BY <1>4, <2>1, <2>2, <2>3 DEF Through
<1> QED
  BY <1>5, <1>6

LEMMA NormHolds ==
  ASSUME ScoreInv, NormScore
  PROVE  ScoreInv'
<1>1. /\ score = "norm" /\ score' = "head" /\ SameChunk /\ RecordNorm /\ RunNorm
      /\ row0' = 0 /\ at' = at /\ x' = x /\ logitsAll' = logitsAll /\ textLeft' = textLeft
      /\ chunkGraphs' = chunkGraphs /\ headGraphs' = headGraphs
  BY DEF NormScore, SameChunk
<1>2. Busy
  BY <1>1 DEF Busy
<1>3. /\ xn' \in [Rows -> RowSet]
      /\ \A r \in 1 .. ChunkLen : xn'[r] = Row(textLeft[r], "norm")
  BY <1>1, RunNormHolds
<1>4. CachesOK'
  BY <1>1, RecordNormKeeps DEF ScoreInv, CachesOK
<1>5. ScoreTypeOK'
  BY <1>1, <1>3 DEF ScoreInv, ScoreTypeOK, SameChunk
<1>6. TextOK' /\ PositionOK'
  BY <1>1, <1>2, SameChunkKeeps, BusyChunk DEF ScoreInv, TextOK, PositionOK, SameChunk
<1>7. RowsOK'
  <2>1. 0 <= ChunkLen
    BY <1>2, BusyChunk
  <2> QED
    BY <1>1, <1>3, <2>1, SameChunkKeeps DEF RowsOK, Holds
<1> QED
  BY <1>1, <1>4, <1>5, <1>6, <1>7, SameChunkKeeps DEF ScoreInv

(* A batch of the LM head: its graph works on its rows and no others.       *)
LEMMA RunHeadHolds ==
  ASSUME ScoreInv, score = "head", row0 < ChunkLen, RecordHead, RunHead
  PROVE  /\ logitsAll' \in [Rows -> RowSet]
         /\ row0 + BatchLen \in Nat /\ row0 + BatchLen <= ChunkLen
         /\ \A r \in 1 .. row0 + BatchLen : logitsAll'[r] = Row(textLeft[r], "logits")
<1>1. Busy
  BY DEF Busy
<1>2. /\ row0 \in Nat /\ ChunkLen \in Nat
      /\ Holds(xn, ChunkLen, "norm") /\ Holds(logitsAll, row0, "logits")
  BY <1>1, BusyChunk DEF ScoreInv, ScoreTypeOK, RowsOK
<1>3. BatchLen \in Nat /\ row0 + BatchLen <= ChunkLen
  BY <1>2, ScoringAssumption DEF BatchLen, Least
<1> DEFINE batch == row0 + 1 .. row0 + BatchLen
<1>4. headGraphs'[BatchOf] = batch
  BY RecordHeadKeeps DEF ScoreInv, BatchOf, BatchKey
<1>5. logitsAll' = Through(xn, logitsAll, batch, "norm", "logits")
  BY <1>4 DEF RunHead
<1>6. logitsAll' \in [Rows -> RowSet]
  BY <1>5, ThroughType DEF ScoreInv, ScoreTypeOK
<1>7. ASSUME NEW r \in 1 .. row0 + BatchLen
      PROVE  logitsAll'[r] = Row(textLeft[r], "logits")
  <2>1. r \in 1 .. ChunkLen /\ r \in Rows
    BY <1>1, <1>2, <1>3, BusyChunk
  <2>2. CASE r \in batch
    <3>1. xn[r] = Row(textLeft[r], "norm")
      BY <1>2, <2>1 DEF Holds
    <3>2. xn[r][1] = textLeft[r] /\ xn[r][2] = "norm"
      BY <3>1 DEF Row
    <3> HIDE DEF batch
    <3> QED
      BY <1>5, <2>1, <2>2, <3>2 DEF Through
  <2>3. CASE r \notin batch
    <3>1. r \in 1 .. row0
      BY <1>2, <1>3, <2>3
    <3>2. logitsAll[r] = Row(textLeft[r], "logits")
      BY <1>2, <3>1 DEF Holds
    <3> HIDE DEF batch
    <3> QED
      BY <1>5, <2>1, <2>3, <3>2 DEF Through
  <2> QED
    BY <2>2, <2>3
<1> QED
  BY <1>2, <1>3, <1>6, <1>7

LEMMA HeadHolds ==
  ASSUME ScoreInv, HeadScore
  PROVE  ScoreInv'
<1>1. /\ score = "head" /\ score' = "head" /\ row0 < ChunkLen /\ RecordHead /\ RunHead
      /\ row0' = row0 + BatchLen /\ SameChunk /\ textLeft' = textLeft
      /\ at' = at /\ x' = x /\ xn' = xn
      /\ chunkGraphs' = chunkGraphs /\ normGraphs' = normGraphs
  BY DEF HeadScore, SameChunk
<1>2. Busy
  BY <1>1 DEF Busy
<1>3. /\ logitsAll' \in [Rows -> RowSet] /\ row0' \in Nat /\ row0' <= ChunkLen
      /\ \A r \in 1 .. row0' : logitsAll'[r] = Row(textLeft[r], "logits")
  BY <1>1, RunHeadHolds
<1>4. CachesOK'
  BY <1>1, RecordHeadKeeps DEF ScoreInv, CachesOK
<1>5. ScoreTypeOK'
  BY <1>1, <1>3 DEF ScoreInv, ScoreTypeOK, SameChunk
<1>6. TextOK' /\ PositionOK'
  BY <1>1, <1>2, SameChunkKeeps, BusyChunk DEF ScoreInv, TextOK, PositionOK, SameChunk
<1>7. RowsOK'
  BY <1>1, <1>3, SameChunkKeeps DEF ScoreInv, RowsOK, Holds
<1> QED
  BY <1>1, <1>4, <1>5, <1>6, <1>7, SameChunkKeeps DEF ScoreInv

LEMMA ReadHolds ==
  ASSUME ScoreInv, ReadScore
  PROVE  ScoreInv'
<1>1. /\ score = "head" /\ row0 = ChunkLen /\ NextChunk
      /\ result' = result \o SubSeq(logitsAll, 1, ChunkLen)
      /\ wants' = wants /\ text' = text /\ at' = at /\ row0' = row0
      /\ x' = x /\ xn' = xn /\ logitsAll' = logitsAll
      /\ chunkGraphs' = chunkGraphs /\ normGraphs' = normGraphs /\ headGraphs' = headGraphs
  BY DEF ReadScore
<1>2. Busy
  BY <1>1 DEF Busy
<1>3. /\ wants = "all" /\ at \in Nat /\ result \in Seq(RowSet)
      /\ Len(result) = Finished
      /\ \A i \in 1 .. Len(result) : result[i] = Row(text[i], "logits")
      /\ \A i \in 1 .. Len(textLeft) : textLeft[i] = at - ChunkLen + i
      /\ \A i \in 1 .. Len(textLeft) : textLeft[i] = text[Finished + i]
      /\ Holds(logitsAll, ChunkLen, "logits")
  BY <1>1 DEF ScoreInv, ScoreTypeOK, PositionOK, ResultOK, TextOK, RowsOK
<1>4. /\ TextOK' /\ PositionOK' /\ textLeft' \in Seq(Nat)
      /\ score' \in {"ok", "stage"}
      /\ Finished' = Finished + ChunkLen
  BY <1>1, <1>2, <1>3, NextChunkHolds
<1> DEFINE rows == SubSeq(logitsAll, 1, ChunkLen)
<1>5. /\ ChunkLen \in Nat /\ 1 \in Int /\ ChunkLen \in Int
      /\ \A i \in 1 .. ChunkLen : logitsAll[i] \in RowSet
  BY <1>2, BusyChunk DEF ScoreInv, ScoreTypeOK
<1>6. /\ rows \in Seq(RowSet)
      /\ Len(rows) = IF 1 <= ChunkLen THEN ChunkLen - 1 + 1 ELSE 0
      /\ \A i \in 1 .. ChunkLen - 1 + 1 : rows[i] = logitsAll[1 + i - 1]
  BY ONLY <1>5, SubSeqProperties
<1> HIDE DEF rows
<1>7. Len(rows) = ChunkLen /\ \A i \in 1 .. ChunkLen : rows[i] = logitsAll[i]
  BY <1>5, <1>6
<1>8. result' = result \o rows
  BY <1>1 DEF rows
<1>9. /\ result' \in Seq(RowSet) /\ Len(result') = Len(result) + Len(rows)
      /\ \A i \in 1 .. Len(result) + Len(rows) :
           result'[i] = IF i <= Len(result) THEN result[i] ELSE rows[i - Len(result)]
  <2>1. result \in Seq(RowSet) /\ rows \in Seq(RowSet)
    BY <1>3, <1>6, Zenon
  <2> QED BY ONLY <1>8, <2>1, ConcatProperties, Zenon
<1>10. Len(result) \in Nat
  BY <1>3, LenProperties
<1>11. ASSUME NEW i \in 1 .. Len(result')
       PROVE  result'[i] = Row(text'[i], "logits")
  <2>1. CASE i <= Len(result)
    <3>1. result'[i] = result[i] /\ i \in 1 .. Len(result)
      BY <1>9, <1>10, <2>1
    <3> QED
      BY <1>1, <1>3, <3>1
  <2>2. CASE ~(i <= Len(result))
    <3> DEFINE j == i - Len(result)
    <3>1. j \in 1 .. ChunkLen /\ Finished + j = i /\ i \in Int
      BY <1>3, <1>5, <1>7, <1>9, <1>10, <2>2
    <3>2. result'[i] = rows[j]
      BY <1>9, <2>2
    <3> HIDE DEF j
    <3>3. rows[j] = Row(textLeft[j], "logits")
      BY <1>3, <1>7, <3>1 DEF Holds
    <3>4. j \in 1 .. Len(textLeft)
      BY <1>2, <3>1, BusyChunk
    <3>5. textLeft[j] = text[i]
      BY <1>3, <3>1, <3>4
    <3> QED
      BY <1>1, <3>2, <3>3, <3>5
  <2> QED
    BY <2>1, <2>2
<1>12. ResultOK'
  <2>1. Len(result') = Finished'
    BY <1>3, <1>4, <1>7, <1>9
  <2> QED
    BY <1>11, <2>1 DEF ResultOK
<1>13. ScoreTypeOK'
  BY <1>1, <1>4, <1>9 DEF ScoreInv, ScoreTypeOK
<1>14. CachesOK'
  BY <1>1 DEF ScoreInv, CachesOK
<1>15. RowsOK'
  BY <1>4 DEF RowsOK
<1> QED
  BY <1>4, <1>12, <1>13, <1>14, <1>15 DEF ScoreInv

LEMMA FailsHolds ==
  ASSUME ScoreInv, ScoreStepFails
  PROVE  ScoreInv'
<1>1. score' = "failed" /\ SameChunk /\ at' = at /\ row0' = row0
  BY DEF ScoreStepFails, SameChunk
<1>2. TextOK' /\ PositionOK' /\ RowsOK' /\ ResultOK'
  BY <1>1, SameChunkKeeps DEF TextOK, PositionOK, RowsOK, Busy
<1>3. SUFFICES /\ x' \in [Rows -> RowSet] /\ xn' \in [Rows -> RowSet]
               /\ logitsAll' \in [Rows -> RowSet] /\ CachesOK'
  BY <1>1, <1>2 DEF ScoreInv, ScoreTypeOK, SameChunk
<1>4. /\ x \in [Rows -> RowSet] /\ xn \in [Rows -> RowSet] /\ logitsAll \in [Rows -> RowSet]
      /\ CachesOK
  BY DEF ScoreInv, ScoreTypeOK
<1>5. CASE StageFails
  <2>1. /\ score = "stage" /\ xn' = xn /\ logitsAll' = logitsAll
        /\ normGraphs' = normGraphs /\ headGraphs' = headGraphs
        /\ chunkGraphs' = chunkGraphs \/ RecordChunk
        /\ x' = x \/ WriteRows
    BY <1>5 DEF StageFails
  <2>2. x' \in [Rows -> RowSet]
    BY <1>1, <1>4, <2>1, WriteRowsHolds DEF Busy, SameChunk
  <2>3. CachesOK'
    BY <1>4, <2>1, RecordChunkKeeps DEF CachesOK
  <2> QED
    BY <1>4, <2>1, <2>2, <2>3
<1>6. CASE LayersFail
  <2>1. /\ xn' = xn /\ logitsAll' = logitsAll
        /\ normGraphs' = normGraphs /\ headGraphs' = headGraphs /\ chunkGraphs' = chunkGraphs
    BY <1>6 DEF LayersFail
  <2>2. x' \in [Rows -> RowSet]
    BY <1>4, <1>6, GarbageIsRow DEF LayersFail
  <2> QED
    BY <1>4, <2>1, <2>2 DEF CachesOK
<1>7. CASE NormFails
  <2>1. /\ score = "norm" /\ x' = x /\ logitsAll' = logitsAll
        /\ chunkGraphs' = chunkGraphs /\ headGraphs' = headGraphs
        /\ \/ normGraphs' = normGraphs /\ xn' = xn
           \/ RecordNorm /\ (RunNorm \/ xn' = xn)
    BY <1>7 DEF NormFails
  <2>2. xn' \in [Rows -> RowSet]
    BY <1>4, <2>1, RunNormHolds
  <2>3. CachesOK'
    BY <1>4, <2>1, RecordNormKeeps DEF CachesOK
  <2> QED
    BY <1>4, <2>1, <2>2, <2>3
<1>8. CASE HeadFails
  <2>1. /\ score = "head" /\ x' = x /\ xn' = xn
        /\ chunkGraphs' = chunkGraphs /\ normGraphs' = normGraphs
        /\ \/ headGraphs' = headGraphs /\ logitsAll' = logitsAll
           \/ row0 < ChunkLen /\ RecordHead /\ (RunHead \/ logitsAll' = logitsAll)
    BY <1>8 DEF HeadFails
  <2>2. logitsAll' \in [Rows -> RowSet]
    BY <1>4, <2>1, RunHeadHolds
  <2>3. CachesOK'
    BY <1>4, <2>1, RecordHeadKeeps DEF CachesOK
  <2> QED
    BY <1>4, <2>1, <2>2, <2>3
<1> QED
  BY <1>5, <1>6, <1>7, <1>8 DEF ScoreStepFails

LEMMA ScoreInvInductive == ScoreInv /\ [ScoreNext]_scoreVars => ScoreInv'
<1> SUFFICES ASSUME ScoreInv, [ScoreNext]_scoreVars PROVE ScoreInv'
  OBVIOUS
<1>1. CASE \E n \in Nat \ {0}, kind \in {"all", "plain"} : StartScore(n, kind)
  BY <1>1, StartHolds
<1>2. CASE ScoreStep
  BY <1>2, StageHolds, LayersHolds, NormHolds, HeadHolds, ReadHolds, FailsHolds DEF ScoreStep
<1>3. CASE UNCHANGED scoreVars
  BY <1>3 DEF scoreVars, ScoreInv, ScoreTypeOK, CachesOK, TextOK, PositionOK, RowsOK, ResultOK,
     Finished, Busy, Holds, ChunkLen, ShapeKey
<1> QED
  BY <1>1, <1>2, <1>3 DEF ScoreNext

-----------------------------------------------------------------------------
(* What the invariant says.                                                 *)

LEMMA InvSaysLogits == ScoreInv => LogitsOfPositions
<1> SUFFICES ASSUME ScoreInv PROVE LogitsOfPositions
  OBVIOUS
<1> DEFINE wanted == LogitsOf(text)
<1>1. /\ text \in Seq(Nat) /\ textLeft \in Seq(Nat) /\ result \in Seq(RowSet)
      /\ Len(text) \in Nat /\ Len(textLeft) \in Nat /\ Len(result) \in Nat
      /\ DOMAIN text = 1 .. Len(text)
      /\ \A i \in 1 .. Len(text) : text[i] \in Nat
  BY LenProperties, ElementOfSeq DEF ScoreInv, ScoreTypeOK
<1>2. \A i \in 1 .. Len(text) : Row(text[i], "logits") \in RowSet
  BY <1>1 DEF Row, RowSet
<1>3. /\ wanted \in Seq(RowSet) /\ Len(wanted) = Len(text)
      /\ \A i \in 1 .. Len(text) : wanted[i] = Row(text[i], "logits")
  BY <1>1, <1>2 DEF LogitsOf
<1> HIDE DEF wanted
<1>4. ASSUME wants = "all"
      PROVE  IsPrefix(result, wanted)
  <2>1. Len(result) <= Len(wanted)
    BY <1>1, <1>3, <1>4 DEF ScoreInv, ResultOK, Finished
  <2>2. \A i \in 1 .. Len(result) : result[i] = wanted[i] /\ wanted[i] \in RowSet
    BY <1>1, <1>2, <1>3, <1>4, <2>1 DEF ScoreInv, ResultOK
  <2>3. /\ SubSeq(wanted, 1, Len(result)) \in Seq(RowSet)
        /\ Len(SubSeq(wanted, 1, Len(result))) = Len(result)
        /\ \A i \in 1 .. Len(result) : SubSeq(wanted, 1, Len(result))[i] = wanted[i]
    BY <1>1, <2>2, SubSeqProperties
  <2>4. SubSeq(wanted, 1, Len(result)) = result
    BY <1>1, <2>2, <2>3, SeqEqual
  <2>5. SubSeq(result, 1, Len(result)) = result
    BY <1>1, SubSeqFull
  <2> QED
    BY <2>1, <2>4, <2>5 DEF IsPrefix
<1>5. ASSUME score = "ok", wants = "all"
      PROVE  result = wanted
  <2>1. Len(result) = Len(text)
    BY <1>1, <1>5, EmptySeq DEF ScoreInv, TextOK, ResultOK, Finished
  <2>2. \A i \in 1 .. Len(result) : result[i] = wanted[i]
    BY <1>1, <1>3, <1>5, <2>1 DEF ScoreInv, ResultOK
  <2> QED
    BY <1>1, <1>3, <2>1, <2>2, SeqEqual
<1>6. score = "ok" => at = text[Len(text)]
  BY DEF ScoreInv, TextOK
<1> QED
  BY <1>4, <1>5, <1>6 DEF LogitsOfPositions, wanted

(***************************************************************************)
(* For every chunk size, padding and batch size and every sequence of      *)
(* calls, whichever of them fail and wherever: the logits returned are, row*)
(* by row, those of the positions of the text, and a call that succeeds    *)
(* leaves pos at its end (prefill_all_logits, prefill_plain).              *)
(***************************************************************************)
THEOREM ScoringIsExact == ScoreSpec => []LogitsOfPositions
<1>1. ScoreSpec => []ScoreInv
  BY ScoreInitHolds, ScoreInvInductive, PTL DEF ScoreSpec
<1> QED
  BY <1>1, InvSaysLogits, PTL
=============================================================================
