------------------------------ MODULE GpuModel ------------------------------
(***************************************************************************)
(* The GPU forward driver of sg-model/src/graph.rs: chunked prefill and    *)
(* single-token decode over the per-layer KV stores of KvCache.            *)
(*                                                                         *)
(* A call of `prefill` or `decode_step` is a run of steps driven by        *)
(* `call.pc`: record the chunk's graphs (cached), stage the host-written   *)
(* buffers, execute the layers in order, advance `pos`, read the logits.   *)
(* The host thread blocks on every submission, so the steps of one call    *)
(* never overlap; what can happen between two of them is an error that     *)
(* ends the call.  A prefill chunk is submitted as several segment command *)
(* buffers and a submission can also die half-way (device loss), so a      *)
(* "submit" failure may strike before any layer and after the last one.    *)
(***************************************************************************)
EXTENDS KvCache, FiniteSets

CONSTANTS
  NumLayers,      \* transformer layers (60)
  Kind,           \* Kind[l] \in {"sliding", "global"}
  MaxChunk,       \* GpuModel::new's max_chunk argument
  MBlock,         \* rows of a gemm block (64)
  SplitsSliding,  \* SPLITS_SLIDING (16)
  SplitsGlobal,   \* SPLITS_GLOBAL (32)
  Faults          \* which GPU calls may fail, a subset of FaultKinds

FaultKinds == {"record", "stage", "submit", "read"}

ASSUME LayersAssumption ==
  /\ NumLayers \in Nat \ {0}
  /\ Kind \in [1 .. NumLayers -> {"sliding", "global"}]
ASSUME ChunkAssumption == MaxChunk \in Nat \ {0} /\ MBlock \in Nat \ {0}
ASSUME SplitsAssumption ==
  SplitsSliding \in Nat \ {0} /\ SplitsGlobal \in Nat \ {0}
ASSUME FaultsAssumption == Faults \subseteq FaultKinds

NextMultiple(n, m) == CeilDiv(n, m) * m

(* Capacity of the prefill buffers, in rows. *)
ChunkCap == NextMultiple(MaxChunk, MBlock)

Layers == 1 .. NumLayers
SlidingLayers == {l \in Layers : Kind[l] = "sliding"}
GlobalLayers  == {l \in Layers : Kind[l] = "global"}

VARIABLES
  pos,     \* GpuModel.pos: position of the next token
  ring,    \* per sliding layer, its ring
  lin,     \* per global layer, its linear store
  step,    \* the step buffer, as last written by the host
  prows,   \* PrefillBufs x and cs: the K/V row each staged row will give
  brow,    \* Bufs x and cs: the K/V row of the staged decode token
  graphs,  \* prefill_graphs: cache key -> what the cached graphs do
  seen,    \* rows the last real query has attended in the layers run so far
  logits,  \* the logits buffer: the rows its contents were computed from
  fed,     \* history variable: tokens advanced over since the last reset
  call     \* the call in progress

kvVars    == <<ring, lin>>
stageVars == <<step, prows, brow>>
modelVars == <<pos, ring, lin, step, prows, brow, graphs, seen, logits, fed, call>>

NoCall == [op |-> "none", pc |-> "idle", todo |-> <<>>, layer |-> 0]
PrefillCall(tokens) == [op |-> "prefill", pc |-> "record", todo |-> tokens, layer |-> 0]
DecodeCall(tok) == [op |-> "decode", pc |-> "stage", todo |-> <<tok>>, layer |-> 0]

NoStep == [pos |-> 0, kvSliding |-> 0, kvGlobal |-> 0, q0 |-> 0]

ModelInit ==
  /\ pos = 0
  /\ ring = [l \in SlidingLayers |-> [s \in Slots |-> NoRow]]
  /\ lin = [l \in GlobalLayers |-> [s \in LinearSlots |-> NoRow]]
  /\ step = NoStep
  /\ prows = [i \in 1 .. ChunkCap |-> NoRow]
  /\ brow = NoRow
  /\ graphs = <<>>
  /\ seen = {}
  /\ logits = {}
  /\ fed = <<>>
  /\ call = NoCall

At(op, pc) == call.op = op /\ call.pc = pc
Goto(pc) == call' = [call EXCEPT !.pc = pc]
NextLayer == call' = [call EXCEPT !.layer = @ + 1]
StartLayers == call' = [call EXCEPT !.pc = "layer", !.layer = 1]

-----------------------------------------------------------------------------
(* Prefill.                                                                 *)

ChunkLen == SmallerOf(ChunkCap, Len(call.todo))
Chunk == SubSeq(call.todo, 1, ChunkLen)

(* tokens.chunks(max_chunk): logits only for the last chunk of the prompt.  *)
ChunkShape ==
  [pad  |-> NextMultiple(ChunkLen, MBlock),
   real |-> ChunkLen,
   mode |-> IF Len(call.todo) <= ChunkCap THEN "last" ELSE "none"]

(* Mutant: the logits mode is left out of the cache key. *)
ChunkKeyNoMode == [pad |-> ChunkShape.pad, real |-> ChunkShape.real, mode |-> "any"]

ChunkKey == ChunkShape

(* Record the chunk's segment graphs unless the cache has them. *)
RecordChunk ==
  /\ At("prefill", "record")
  /\ graphs' = [k \in DOMAIN graphs \cup {ChunkKey} |->
                  IF k \in DOMAIN graphs THEN graphs[k] ELSE ChunkShape]
  /\ Goto("stage")
  /\ UNCHANGED <<pos, kvVars, stageVars, seen, logits, fed>>

(* Mutant: positions counted from the token before the chunk. *)
StagedRowEarly(i) == [pos |-> pos + i - 2, tok |-> call.todo[i]]

StagedRow(i) == [pos |-> pos + i - 1, tok |-> call.todo[i]]

(* stage_prefill_chunk writes the chunk's rows only.  The padding rows of a *)
(* shorter chunk keep what the layers of an earlier one left in x: their    *)
(* K/V rows belong to no token.                                             *)
StageChunk ==
  /\ At("prefill", "stage")
  /\ prows' = [i \in 1 .. ChunkCap |-> IF i <= ChunkLen THEN StagedRow(i) ELSE NoRow]
  /\ step' = [pos |-> pos, kvSliding |-> 0, kvGlobal |-> 0, q0 |-> pos]
  /\ seen' = {}
  /\ StartLayers
  /\ UNCHANGED <<pos, kvVars, brow, graphs, logits, fed>>

RunningShape == graphs[ChunkKey]

(* KV appends bind sources sliced to the recorded real rows. *)
AppendedRows == SubSeq(prows, 1, RunningShape.real)

(* Mutant: sliding layers append before they attend, as global ones do. *)
PrefillReadsAppendFirst(l, i) ==
  IF Kind[l] = "sliding"
    THEN PrefillSlidingReads(CHOOSE r \in RingAppend(ring[l], step.pos, AppendedRows) : TRUE,
                             step.q0, prows, i)
    ELSE PrefillGlobalReads(LinearAppend(lin[l], step.pos, AppendedRows), step.q0, i)

(* What query i of the chunk reads in layer l: sliding layers attend from   *)
(* ring + chunk and append afterwards, global layers append first.          *)
PrefillReads(l, i) ==
  IF Kind[l] = "sliding"
    THEN PrefillSlidingReads(ring[l], step.q0, prows, i)
    ELSE PrefillGlobalReads(LinearAppend(lin[l], step.pos, AppendedRows), step.q0, i)

(* Mutant: the logits of the last padded row. *)
LogitsRowPadded == RunningShape.pad - 1

(* record_prefill_logits: the last real row. *)
LogitsRow == RunningShape.real - 1

(* One layer of the submitted segments; the last layer of a "last" graph    *)
(* also computes the logits of the last real row.                           *)
PrefillLayer(l) ==
  /\ At("prefill", "layer")
  /\ l = call.layer
  /\ seen' = seen \cup RowsRead(PrefillReads(l, LogitsRow))
  /\ \/ /\ Kind[l] = "sliding"
        /\ \E r \in RingAppend(ring[l], step.pos, AppendedRows) :
             ring' = [ring EXCEPT ![l] = r]
        /\ UNCHANGED lin
     \/ /\ Kind[l] = "global"
        /\ lin' = [lin EXCEPT ![l] = LinearAppend(@, step.pos, AppendedRows)]
        /\ UNCHANGED ring
  /\ logits' = IF l = NumLayers /\ RunningShape.mode = "last" THEN seen' ELSE logits
  /\ NextLayer
  /\ UNCHANGED <<pos, stageVars, graphs, fed>>

(* Mutant: one more round of the chunk loop when nothing is left. *)
MoreChunksOffByOne == Len(call.todo) >= ChunkLen

MoreChunks == Len(call.todo) > ChunkLen

(* pos += n_real, then the next chunk or the logits. *)
AdvanceChunk ==
  /\ At("prefill", "layer")
  /\ call.layer = NumLayers + 1
  /\ pos' = pos + ChunkLen
  /\ fed' = fed \o Chunk
  /\ call' = [call EXCEPT
                !.todo = SubSeq(@, ChunkLen + 1, Len(@)),
                !.pc = IF MoreChunks THEN "record" ELSE "read"]
  /\ UNCHANGED <<kvVars, stageVars, graphs, seen, logits>>

-----------------------------------------------------------------------------
(* Decode.                                                                  *)

(* stage_token. *)
StageToken ==
  /\ At("decode", "stage")
  /\ brow' = [pos |-> pos, tok |-> call.todo[1]]
  /\ step' = [pos |-> pos,
              kvSliding |-> SmallerOf(pos + 1, Window),
              kvGlobal |-> pos + 1,
              q0 |-> 0]
  /\ seen' = {}
  /\ StartLayers
  /\ UNCHANGED <<pos, kvVars, prows, graphs, logits, fed>>

AppendedToRing(l) == [ring[l] EXCEPT ![RingSlot(step.pos)] = brow]
AppendedToLinear(l) == LinearAppend(lin[l], step.pos, <<brow>>)

(* Decode appends first on both kinds of layer, then attends the store. *)
DecodeReads(l) ==
  IF Kind[l] = "sliding"
    THEN DecodeSlidingReads(AppendedToRing(l), step.kvSliding, SplitsSliding)
    ELSE DecodeGlobalReads(AppendedToLinear(l), step.kvGlobal, SplitsGlobal)

DecodeLayer(l) ==
  /\ At("decode", "layer")
  /\ l = call.layer
  /\ seen' = seen \cup RowsRead(DecodeReads(l))
  /\ \/ /\ Kind[l] = "sliding"
        /\ ring' = [ring EXCEPT ![l] = AppendedToRing(l)]
        /\ UNCHANGED lin
     \/ /\ Kind[l] = "global"
        /\ lin' = [lin EXCEPT ![l] = AppendedToLinear(l)]
        /\ UNCHANGED ring
  /\ logits' = IF l = NumLayers THEN seen' ELSE logits
  /\ NextLayer
  /\ UNCHANGED <<pos, stageVars, graphs, fed>>

Advance ==
  /\ At("decode", "layer")
  /\ call.layer = NumLayers + 1
  /\ pos' = pos + 1
  /\ fed' = Append(fed, call.todo[1])
  /\ Goto("read")
  /\ UNCHANGED <<kvVars, stageVars, graphs, seen, logits>>

-----------------------------------------------------------------------------
ReadLogits ==
  /\ call.pc = "read"
  /\ Goto("ok")
  /\ UNCHANGED <<pos, kvVars, stageVars, graphs, seen, logits, fed>>

(* The GPU call that is due returns an error and `?` propagates it.         *)
FaultPossible(kind) ==
  \/ kind = "record" /\ call.pc = "record" /\ ChunkKey \notin DOMAIN graphs
  \/ kind = "stage"  /\ call.pc = "stage"
  \/ kind = "submit" /\ call.pc = "layer"
  \/ kind = "read"   /\ call.pc = "read"

GpuFault(kind) ==
  /\ FaultPossible(kind)
  /\ Goto("err")
  /\ UNCHANGED <<pos, kvVars, stageVars, graphs, seen, logits, fed>>

(* The host thread's own steps, and the errors. *)
ModelStep ==
  \/ RecordChunk
  \/ StageChunk
  \/ \E l \in Layers : PrefillLayer(l)
  \/ AdvanceChunk
  \/ StageToken
  \/ \E l \in Layers : DecodeLayer(l)
  \/ Advance
  \/ ReadLogits

ModelFault == \E kind \in Faults : GpuFault(kind)
=============================================================================
