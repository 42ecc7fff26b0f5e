------------------------------ MODULE Scoring ------------------------------
(***************************************************************************)
(* sg-model/src/graph.rs, prefill_all_logits and prefill_plain: the        *)
(* forward pass of a whole text, with the logits of every position or      *)
(* without any.  Buffers are rows; a row holds the position of the text it *)
(* was computed from, and how far the computation got.  Command graphs are *)
(* recorded once and cached: those of a chunk by its shape, the final norm *)
(* by its padded rows, the batches of the LM head by their first row and   *)
(* length.                                                                 *)
(***************************************************************************)
EXTENDS Naturals, Sequences, SequencesExt

CONSTANTS
    ScoreChunk,      \* GpuModel's max_chunk, in rows
    RowBlock,        \* rows a chunk is padded to a multiple of (64)
    LogitsBatch,     \* LOGITS_BATCH: rows of the LM head in a submission
    ScoreFails       \* which steps may fail

ASSUME ScoringAssumption ==
    /\ ScoreChunk \in Nat \ {0} /\ LogitsBatch \in Nat \ {0}
    /\ RowBlock \in Nat \ {0} /\ ScoreChunk % RowBlock = 0
    /\ ScoreFails \subseteq {"stage", "submit", "norm", "head"}

VARIABLES
    score,       \* "idle", "stage", "layers", "norm", "head" or how the call ended
    wants,       \* the call: with logits ("all") or without ("plain")
    text,        \* the positions of the text
    textLeft,    \* the positions of the text that are not done yet
    at,          \* GpuModel.pos
    row0,        \* r0: the first row of the next batch of the LM head
    x,           \* the residual stream, row by row
    xn,          \* its norm
    logitsAll,   \* the logits of each row
    chunkGraphs, \* prefill_graphs: the rows the recorded graphs work on
    normGraphs,  \* norm_all_graphs: the rows recorded
    headGraphs,  \* logits_batch_graphs: the rows recorded
    result       \* the rows of logits returned so far

scoreVars == <<score, wants, text, textLeft, at, row0, x, xn, logitsAll,
               chunkGraphs, normGraphs, headGraphs, result>>

(* A row: the position it is about and what it holds of it.                *)
Row(position, what) == <<position, what>>
Garbage == Row(0, "nothing")
Rows == 1 .. ScoreChunk

(* The rows after a graph that computes "into" from "from" on some of them.*)
Through(source, target, rows, from, into) ==
    [r \in Rows |->
       IF r \notin rows THEN target[r]
       ELSE IF source[r][2] = from THEN Row(source[r][1], into) ELSE Garbage]

Least(a, b) == IF a <= b THEN a ELSE b
Padded(n) == ((n + RowBlock - 1) \div RowBlock) * RowBlock

ChunkLen == Least(ScoreChunk, Len(textLeft))
ShapeKey == <<Padded(ChunkLen), ChunkLen>>

ScoreInit ==
    /\ score = "idle" /\ wants = "all" /\ text = <<>> /\ textLeft = <<>> /\ at = 0 /\ row0 = 0
    /\ x = [r \in Rows |-> Garbage] /\ xn = x /\ logitsAll = x
    /\ chunkGraphs = <<>> /\ normGraphs = <<>> /\ headGraphs = <<>> /\ result = <<>>

(* A cached graph stays what it was first recorded as.                     *)
Cached(graphs, key, rows) ==
    [k \in DOMAIN graphs \cup {key} |-> IF k \in DOMAIN graphs THEN graphs[k] ELSE rows]

(* A text of n > 0 tokens behind what is resident.                         *)
StartScore(n, kind) ==
    /\ score \notin {"stage", "layers", "norm", "head"}
    /\ wants' = kind /\ text' = <<>> \o [i \in 1 .. n |-> at + i] /\ textLeft' = text' /\ result' = <<>>
    /\ score' = "stage"
    /\ row0' = 0
    /\ UNCHANGED <<at, x, xn, logitsAll, chunkGraphs, normGraphs, headGraphs>>

(* Record the chunk's graphs, and write its rows: those behind it stay.    *)
RecordChunk == chunkGraphs' = Cached(chunkGraphs, ShapeKey, ShapeKey[1])
WriteRows ==
    x' = [r \in Rows |-> IF r <= ChunkLen THEN Row(textLeft[r], "embedding") ELSE x[r]]

StageScore ==
    /\ score = "stage" /\ score' = "layers"
    /\ RecordChunk /\ WriteRows
    /\ UNCHANGED <<wants, text, textLeft, at, row0, xn, logitsAll, normGraphs, headGraphs, result>>

NextChunk ==
    /\ textLeft' = SubSeq(textLeft, ChunkLen + 1, Len(textLeft))
    /\ score' = IF textLeft' = <<>> THEN "ok" ELSE "stage"

(* The layers run on the recorded rows; the padding comes out as garbage.  *)
RunLayers ==
    LET after == Through(x, x, 1 .. chunkGraphs[ShapeKey], "embedding", "residual")
    IN x' = [r \in Rows |-> IF ChunkLen < r /\ r <= chunkGraphs[ShapeKey] THEN Garbage ELSE after[r]]

LayersScore ==
    /\ score = "layers"
    /\ RunLayers
    /\ at' = at + ChunkLen
    /\ IF wants = "all" THEN score' = "norm" /\ UNCHANGED textLeft ELSE NextChunk
    /\ UNCHANGED <<wants, text, row0, xn, logitsAll, chunkGraphs, normGraphs, headGraphs, result>>

RecordNorm == normGraphs' = Cached(normGraphs, Padded(ChunkLen), Padded(ChunkLen))
RunNorm == xn' = Through(x, xn, 1 .. normGraphs'[Padded(ChunkLen)], "residual", "norm")

NormScore ==
    /\ score = "norm" /\ score' = "head"
    /\ RecordNorm /\ RunNorm
    /\ row0' = 0
    /\ UNCHANGED <<wants, text, textLeft, at, x, logitsAll, chunkGraphs, headGraphs, result>>

BatchLen == Least(LogitsBatch, ChunkLen - row0)

(* Mutant: a batch is cached by its first row only.                        *)
BatchKeyOfRow(r, n) == <<r, 0>>

BatchKey(r, n) == <<r, n>>

BatchOf == BatchKey(row0, BatchLen)
RecordHead == headGraphs' = Cached(headGraphs, BatchOf, row0 + 1 .. row0 + BatchLen)
RunHead == logitsAll' = Through(xn, logitsAll, headGraphs'[BatchOf], "norm", "logits")

(* One batch of the LM head.                                               *)
HeadScore ==
    /\ score = "head" /\ row0 < ChunkLen
    /\ RecordHead /\ RunHead
    /\ row0' = row0 + BatchLen
    /\ UNCHANGED <<score, wants, text, textLeft, at, x, xn, chunkGraphs, normGraphs, result>>

(* The rows of the chunk are read back, and the next chunk begins.         *)
ReadScore ==
    /\ score = "head" /\ row0 = ChunkLen
    /\ result' = result \o SubSeq(logitsAll, 1, ChunkLen)
    /\ NextChunk
    /\ UNCHANGED <<wants, text, at, row0, x, xn, logitsAll, chunkGraphs, normGraphs, headGraphs>>

(* An error ends the call where it is.  A graph is cached before what it   *)
(* does is submitted; a submission that fails may have run or not, and one *)
(* of several may fail, with the rows half-way through the layers.  pos is *)
(* advanced before the norm and the LM head can fail.                      *)
StageFails ==
    /\ score = "stage"
    /\ \/ UNCHANGED <<chunkGraphs, x>>
       \/ RecordChunk /\ (WriteRows \/ UNCHANGED x)
    /\ UNCHANGED <<xn, logitsAll, normGraphs, headGraphs>>

LayersFail ==
    /\ score = "layers"
    /\ x' \in {x, [r \in Rows |-> IF r <= chunkGraphs[ShapeKey] THEN Garbage ELSE x[r]]}
    /\ UNCHANGED <<xn, logitsAll, chunkGraphs, normGraphs, headGraphs>>

NormFails ==
    /\ score = "norm"
    /\ \/ UNCHANGED <<normGraphs, xn>>
       \/ RecordNorm /\ (RunNorm \/ UNCHANGED xn)
    /\ UNCHANGED <<x, logitsAll, chunkGraphs, headGraphs>>

HeadFails ==
    /\ score = "head"
    /\ \/ UNCHANGED <<headGraphs, logitsAll>>
       \/ row0 < ChunkLen /\ RecordHead /\ (RunHead \/ UNCHANGED logitsAll)
    /\ UNCHANGED <<x, xn, chunkGraphs, normGraphs>>

ScoreStepFails ==
    /\ \/ "stage" \in ScoreFails /\ StageFails
       \/ "submit" \in ScoreFails /\ LayersFail
       \/ "norm" \in ScoreFails /\ NormFails
       \/ "head" \in ScoreFails /\ HeadFails
    /\ score' = "failed"
    /\ UNCHANGED <<wants, text, textLeft, at, row0, result>>

ScoreStep ==
    \/ StageScore \/ LayersScore \/ NormScore \/ HeadScore \/ ReadScore \/ ScoreStepFails

LogitsOf(positions) == [i \in DOMAIN positions |-> Row(positions[i], "logits")]

(***************************************************************************)
(* Row by row, the logits returned are those of the positions of the text, *)
(* in order, whatever shapes and batches earlier calls left in the caches  *)
(* and in the buffers, and calls that failed half-way (prefill_all_logits).*)
(***************************************************************************)
LogitsOfPositions ==
    /\ wants = "all" => IsPrefix(result, LogitsOf(text))
    /\ score = "ok" => at = text[Len(text)] /\ (wants = "all" => result = LogitsOf(text))
=============================================================================
