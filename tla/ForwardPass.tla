---------------------------- MODULE ForwardPass ----------------------------
(***************************************************************************)
(* The dispatches that sg-model/src/graph.rs records for a decode token    *)
(* and for a prefill chunk, executed by the GPU of CommandGraph over the   *)
(* driver's reused buffers.  Values are the nodes of LayerReference; a     *)
(* kernel whose operation, weight and inputs make no node yields Torn.     *)
(* A block of rows (a chunk or a token) takes one place in a KV store:     *)
(* which rows and slots those are is the subject of KvCache.               *)
(***************************************************************************)
EXTENDS CommandGraph, LayerReference, SequencesExt

CONSTANTS
  SegmentLayers,  \* PREFILL_SEGMENT_LAYERS
  MaxBlocks,      \* bound: blocks of a behaviour
  MaxFailures,    \* bound: failed submissions of a behaviour
  MayOverrun      \* bound: may a block begin while the GPU still runs a failed submission

ASSUME SegmentAssumption == SegmentLayers \in Nat \ {0}

-----------------------------------------------------------------------------
(* Buffers: of decode ("b"), of prefill ("p"), and the KV stores.           *)

Named(set, name) == [set |-> set, name |-> name, kind |-> "both", part |-> "f16", layer |-> 0]
B(name) == {Named("b", name)}
P(name) == {Named("p", name)}

(* The buffer of that name for one kind of layer; the scales and quants of  *)
(* its Q8 copy.                                                             *)
For(operand, kind) == {[b EXCEPT !.kind = kind] : b \in operand}
Q8(operand) == {[b EXCEPT !.part = part] : b \in operand, part \in {"scales", "quants"}}

KvV(l) == {[Named("kv", "v") EXCEPT !.layer = l]}
KvK(l) ==
  LET k == {[Named("kv", "k") EXCEPT !.layer = l]}
  IN  IF Kind[l] = "sliding" THEN k ELSE Q8(k)

StepBuffer == Named("", "step")

-----------------------------------------------------------------------------
(* Kernels: the operation, how it uses the step buffer, the formats it      *)
(* reads and the one it writes.                                             *)

F16 == <<"f16">>
F32 == <<"f32">>
Int8 == <<"q8">>
Partial(width, splits) == <<"partial", width, splits>>
KFormat(kind) == IF kind = "sliding" THEN F16 ELSE Int8

Kernel(op, via, takes, gives) == [op |-> op, via |-> via, takes |-> takes, gives |-> gives]
Convert == <<"convert">>
Store == <<"store">>

RmsNorm(width, rows) == Kernel(Rms(width, rows), "none", <<F16>>, F16)
Gemv(from, to) == Kernel(Matmul(from, to), "none", <<F16>>, F16)
GemmInt8(from, to) == Kernel(Matmul(from, to), "none", <<Int8>>, F16)
QuantQ8 == Kernel(Convert, "none", <<F16>>, Int8)
Rotate(kind, heads) == Kernel(Rope(kind, heads), "none", <<F16, F32>>, F16)
Gelu == Kernel(Geglu, "none", <<F16, F16>>, F16)
Add == Kernel(AddScaled, "none", <<F16, F16>>, F16)
LmHead == Kernel(<<"lm_head">>, "none", <<F16>>, F32)
KvAppend(format) == Kernel(Store, "append", <<F16>>, format)

Splits(kind) == IF kind = "sliding" THEN 16 ELSE 32
DecodeAttention(kind) ==
  Kernel(Attention(kind), "decode", <<F16, KFormat(kind), F16>>, Partial(HeadDim(kind), Splits(kind)))
Reduce(kind) == Kernel(Convert, "none", <<Partial(HeadDim(kind), Splits(kind))>>, F16)
PrefillRing == Kernel(Attention("sliding"), "ring", <<F16, F16, F16, F16, F16>>, F16)
PrefillFlash == Kernel(Attention("global"), "linear", <<Int8, Int8, F16>>, F16)

(* One call of GraphRecorder::dispatch; operands are sets of buffers.       *)
D(kernel, weight, ins, out) ==
  [kernel |-> kernel, weight |-> weight, ins |-> ins, out |-> out,
   reads  |-> (UNION {ins[i] : i \in DOMAIN ins})
              \cup {s \in {StepBuffer} : kernel.via # "none"},
   writes |-> out,
   auto   |-> TRUE]

-----------------------------------------------------------------------------
(* Decode: record_layer and record_logits.                                  *)

WoWidth(kind) == IF kind = "sliding" THEN 8192 ELSE 16384

DecodeProjections(l) ==
  LET k == Kind[l]
      K(name) == For(B(name), k)
  IN <<D(RmsNorm(Hidden, 1), W("attn_norm", l), <<B("x")>>, B("xn")),
       D(Gemv(Hidden, QDim(k)), W("attn_q", l), <<B("xn")>>, K("q_raw")),
       D(Gemv(Hidden, KvDim(k)), W("attn_k", l), <<B("xn")>>, K("kp"))>>
     \o (IF k = "sliding"
           THEN <<D(Gemv(Hidden, KvDim(k)), W("attn_v", l), <<B("xn")>>, K("vp"))>>
           ELSE <<>>)
     \o <<D(RmsNorm(HeadDim(k), QHeads), W("attn_q_norm", l), <<K("q_raw")>>, K("q")),
          D(RmsNorm(HeadDim(k), KvHeads(k)), W("attn_k_norm", l), <<K("kp")>>, K("k")),
          D(RmsNorm(HeadDim(k), KvHeads(k)), NormOnes,
            <<IF k = "sliding" THEN K("vp") ELSE K("kp")>>, K("v")),
          D(Rotate(k, QHeads), NoWeight, <<K("q"), K("cs")>>, K("q")),
          D(Rotate(k, KvHeads(k)), NoWeight, <<K("k"), K("cs")>>, K("k"))>>

DecodeAttend(l) ==
  LET k == Kind[l]
      K(name) == For(B(name), k)
  IN <<D(KvAppend(KFormat(k)), NoWeight, <<K("k")>>, KvK(l)),
       D(KvAppend(F16), NoWeight, <<K("v")>>, KvV(l)),
       D(DecodeAttention(k), NoWeight, <<K("q"), KvK(l), KvV(l)>>, K("part")),
       D(Reduce(k), NoWeight, <<K("part")>>, K("attn")),
       D(Gemv(WoWidth(k), Hidden), W("attn_output", l), <<K("attn")>>, B("o")),
       D(RmsNorm(Hidden, 1), W("post_attention_norm", l), <<B("o")>>, B("on")),
       D(Add, NoWeight, <<B("x"), B("on")>>, B("x2"))>>

DecodeFfn(l) ==
  <<D(RmsNorm(Hidden, 1), W("ffn_norm", l), <<B("x2")>>, B("fin")),
    D(Gemv(Hidden, Ffn), W("ffn_gate", l), <<B("fin")>>, B("g")),
    D(Gemv(Hidden, Ffn), W("ffn_up", l), <<B("fin")>>, B("u")),
    D(Gelu, NoWeight, <<B("g"), B("u")>>, B("gu")),
    D(Gemv(Ffn, Hidden), W("ffn_down", l), <<B("gu")>>, B("f")),
    D(RmsNorm(Hidden, 1), W("post_ffw_norm", l), <<B("f")>>, B("fn2")),
    D(Add, W("layer_output_scale", l), <<B("x2"), B("fn2")>>, B("x"))>>

RecordLayer(l) == DecodeProjections(l) \o DecodeAttend(l) \o DecodeFfn(l)

RecordLogits ==
  <<D(RmsNorm(Hidden, 1), W("output_norm", 0), <<B("x")>>, B("xn")),
    D(LmHead, W("token_embd", 0), <<B("xn")>>, B("logits"))>>

DecodeGraph == FlattenSeq([l \in Layers |-> RecordLayer(l)]) \o RecordLogits

-----------------------------------------------------------------------------
(* Prefill: record_prefill_layer, record_prefill_logits, record_prefill.    *)

PrefillProjections(l) ==
  LET k == Kind[l]
      K(name) == For(P(name), k)
      xn8 == Q8(P("xn"))
  IN <<D(RmsNorm(Hidden, 1), W("attn_norm", l), <<P("x")>>, P("xn")),
       D(QuantQ8, NoWeight, <<P("xn")>>, xn8),
       D(GemmInt8(Hidden, QDim(k)), W("attn_q", l), <<xn8>>, K("q_raw")),
       D(GemmInt8(Hidden, KvDim(k)), W("attn_k", l), <<xn8>>, K("kp"))>>
     \o (IF k = "sliding"
           THEN <<D(GemmInt8(Hidden, KvDim(k)), W("attn_v", l), <<xn8>>, K("vp"))>>
           ELSE <<>>)
     \o <<D(RmsNorm(HeadDim(k), QHeads), W("attn_q_norm", l), <<K("q_raw")>>, K("q")),
          D(RmsNorm(HeadDim(k), KvHeads(k)), W("attn_k_norm", l), <<K("kp")>>, K("k")),
          D(RmsNorm(HeadDim(k), KvHeads(k)), NormOnes,
            <<IF k = "sliding" THEN K("vp") ELSE K("kp")>>, K("v")),
          D(Rotate(k, QHeads), NoWeight, <<K("q"), K("cs")>>, K("q")),
          D(Rotate(k, KvHeads(k)), NoWeight, <<K("k"), K("cs")>>, K("k"))>>

DoAppends(l) ==
  LET K(name) == For(P(name), Kind[l])
  IN <<D(KvAppend(KFormat(Kind[l])), NoWeight, <<K("k")>>, KvK(l)),
       D(KvAppend(F16), NoWeight, <<K("v")>>, KvV(l))>>

AttendRing(l) ==
  LET K(name) == For(P(name), "sliding")
  IN <<D(PrefillRing, NoWeight, <<K("q"), KvK(l), KvV(l), K("k"), K("v")>>, K("attn"))>>

AttendLinear(l) ==
  LET q == For(P("q"), "global")
  IN <<D(QuantQ8, NoWeight, <<q>>, Q8(q)),
       D(PrefillFlash, NoWeight, <<Q8(q), KvK(l), KvV(l)>>, For(P("attn"), "global"))>>

(* Mutant: both kinds of layer append before they attend. *)
PrefillAttendAppendFirst(l) ==
  DoAppends(l) \o (IF Kind[l] = "sliding" THEN AttendRing(l) ELSE AttendLinear(l))

PrefillAttend(l) ==
  IF Kind[l] = "sliding" THEN AttendRing(l) \o DoAppends(l)
                         ELSE DoAppends(l) \o AttendLinear(l)

PrefillOutput(l) ==
  LET k == Kind[l]
      ao == Q8(P("ao"))
  IN <<D(QuantQ8, NoWeight, <<For(P("attn"), k)>>, ao),
       D(GemmInt8(WoWidth(k), Hidden), W("attn_output", l), <<ao>>, P("o")),
       D(RmsNorm(Hidden, 1), W("post_attention_norm", l), <<P("o")>>, P("on")),
       D(Add, NoWeight, <<P("x"), P("on")>>, P("x2"))>>

PrefillFfn(l) ==
  LET fin8 == Q8(P("fin"))
      gu8 == Q8(P("gu"))
  IN <<D(RmsNorm(Hidden, 1), W("ffn_norm", l), <<P("x2")>>, P("fin")),
       D(QuantQ8, NoWeight, <<P("fin")>>, fin8),
       D(GemmInt8(Hidden, Ffn), W("ffn_gate", l), <<fin8>>, P("g")),
       D(GemmInt8(Hidden, Ffn), W("ffn_up", l), <<fin8>>, P("u")),
       D(Gelu, NoWeight, <<P("g"), P("u")>>, P("gu")),
       D(QuantQ8, NoWeight, <<P("gu")>>, gu8),
       D(GemmInt8(Ffn, Hidden), W("ffn_down", l), <<gu8>>, P("f")),
       D(RmsNorm(Hidden, 1), W("post_ffw_norm", l), <<P("f")>>, P("fn2")),
       D(Add, W("layer_output_scale", l), <<P("x2"), P("fn2")>>, P("x"))>>

RecordPrefillLayer(l) ==
  PrefillProjections(l) \o PrefillAttend(l) \o PrefillOutput(l) \o PrefillFfn(l)

(* The last real row; decode's xn and logits buffers are reused.            *)
RecordPrefillLogits ==
  <<D(RmsNorm(Hidden, 1), W("output_norm", 0), <<P("x")>>, B("xn")),
    D(LmHead, W("token_embd", 0), <<B("xn")>>, B("logits"))>>

SegmentEnd(start) ==
  IF start + SegmentLayers - 1 < NumLayers THEN start + SegmentLayers - 1 ELSE NumLayers

(* The segment that begins at layer start. *)
PrefillSegment(start, last) ==
  FlattenSeq([i \in 1 .. SegmentEnd(start) - start + 1 |-> RecordPrefillLayer(start + i - 1)])
  \o (IF last /\ SegmentEnd(start) = NumLayers THEN RecordPrefillLogits ELSE <<>>)

(* The graphs by what they are recorded for: <<kind, first layer, last>>.   *)
RecordedGraphs ==
  [n \in {<<"decode", 1, TRUE>>} \cup ({"prefill"} \X Layers \X BOOLEAN) |->
     IF n[1] = "decode" THEN DecodeGraph ELSE PrefillSegment(n[2], n[3])]

DeviceBuffers ==
  UNION {UNION {RecordedGraphs[n][i].reads \cup RecordedGraphs[n][i].writes :
                  i \in DOMAIN RecordedGraphs[n]} : n \in DOMAIN RecordedGraphs}

ASSUME RecordedAssumption == Graphs = RecordedGraphs /\ DeviceBuffers \subseteq Buffer

-----------------------------------------------------------------------------
VARIABLES
  mem,       \* contents of the device buffers
  pos,       \* GpuModel.pos, in blocks
  context,   \* the blocks of the context, the one in progress included
  blk,       \* the call in progress
  failures,  \* failed submissions so far
  disturbed  \* history variable: a call has failed since the last reset

driverVars == <<pos, context, blk, failures, disturbed>>
vars == <<queueVars, mem, driverVars>>

Torn == <<"torn">>
TornNode == <<"torn", 0, 0>>
NoBlock == [pc |-> "idle", kind |-> "none", id |-> 0, start |-> 1, last |-> FALSE]

(* Zeroed buffers, empty stores, nothing recorded yet matters. *)
Blank(b) ==
  [node |-> IF b.set = "kv" THEN <<>> ELSE <<"zero", 0, 0>>,
   form |-> IF b.part = "f16" THEN F16 ELSE Int8]

ForwardInit ==
  /\ Init
  /\ mem = [b \in Buffer |-> IF b = StepBuffer THEN [pos |-> 0, kv |-> 0, q0 |-> 0] ELSE Blank(b)]
  /\ pos = 0
  /\ context = <<>>
  /\ blk = NoBlock
  /\ failures = 0
  /\ disturbed = FALSE

-----------------------------------------------------------------------------
(* What a dispatch does to the buffers. *)

Step == mem[StepBuffer]

Holds(operand) ==
  IF \E b \in operand : \A c \in operand : mem[c] = mem[b]
    THEN mem[CHOOSE b \in operand : TRUE]
    ELSE [node |-> TornNode, form |-> Torn]

(* Keys (or values) of the first n blocks of a store. *)
FirstBlocks(stored, n) == IF Len(stored) >= n THEN SubSeq(stored, 1, n) ELSE <<TornNode>>

(* The ring before an append at q0, and the chunk's own rows: an append     *)
(* would have overwritten the oldest rows.                                  *)
RingThenOwn(stored, own) ==
  IF Step.q0 = 0 THEN <<own>>
  ELSE IF Len(stored) = Step.q0 THEN stored \o <<own>> ELSE <<TornNode>>

Inputs(d, held) ==
  CASE d.kernel.via = "none"   -> [i \in DOMAIN held |-> held[i].node]
    [] d.kernel.via = "decode" ->
         <<held[1].node, FirstBlocks(held[2].node, Step.kv), FirstBlocks(held[3].node, Step.kv)>>
    [] d.kernel.via = "linear" ->
         <<held[1].node, FirstBlocks(held[2].node, Step.q0 + 1),
           FirstBlocks(held[3].node, Step.q0 + 1)>>
    [] d.kernel.via = "ring"   ->
         <<held[1].node, RingThenOwn(held[2].node, held[4].node),
           RingThenOwn(held[3].node, held[5].node)>>

(* An append at step.pos. *)
Stored(d, row) ==
  LET old == Holds(d.out)
  IN  IF Len(old.node) >= Step.pos THEN SubSeq(old.node, 1, Step.pos) \o <<row>>
                                   ELSE old.node \o <<TornNode, row>>

(* The ring is not read before the first append.                            *)
Unread(d) == IF d.kernel.via = "ring" /\ Step.q0 = 0 THEN {2, 3} ELSE {}

Result(d) ==
  LET held == [i \in DOMAIN d.ins |-> Holds(d.ins[i])]
      fits == \A i \in DOMAIN held \ Unread(d) : held[i].form = d.kernel.takes[i]
      node == IF d.kernel.op = Convert THEN {held[1].node}
              ELSE IF d.kernel.op = Store THEN {Stored(d, held[1].node)}
              ELSE Yields(d.kernel.op, d.weight, Inputs(d, held), context)
  IN  IF fits /\ node # {}
        THEN [node |-> CHOOSE n \in node : TRUE, form |-> d.kernel.gives]
        ELSE [node |-> TornNode, form |-> Torn]

Execute(d) ==
  LET result == Result(d)
  IN  mem' = [b \in Buffer |-> IF b \in d.out THEN result ELSE mem[b]]

-----------------------------------------------------------------------------
(* The driver. *)

Value(node, form) == [node |-> node, form |-> form]

(* stage_prefill_chunk and stage_token: embedding rows, step state, rope    *)
(* tables of both kinds.                                                    *)
Staged(kind, id) ==
  LET bufs(name) == IF kind = "prefill" THEN P(name) ELSE B(name)
  IN [b \in Buffer |->
        CASE b \in bufs("x") -> Value(<<"x", 1, id>>, F16)
          [] b \in For(bufs("cs"), "sliding") -> Value(<<"sliding", 0, id>>, F32)
          [] b \in For(bufs("cs"), "global") -> Value(<<"global", 0, id>>, F32)
          [] b = StepBuffer -> IF kind = "prefill" THEN [pos |-> pos, kv |-> 0, q0 |-> pos]
                                                   ELSE [pos |-> pos, kv |-> pos + 1, q0 |-> 0]
          [] OTHER -> mem[b]]

Begin(kind, last) ==
  /\ blk.pc = "idle"
  /\ blk.id < MaxBlocks
  /\ Drained \/ MayOverrun
  /\ kind = "decode" => last
  /\ HostWrite
  /\ mem' = Staged(kind, blk.id + 1)
  /\ context' = Append(SubSeq(context, 1, pos), blk.id + 1)
  /\ blk' = [pc |-> "submit", kind |-> kind, id |-> blk.id + 1, start |-> 1, last |-> last]
  /\ UNCHANGED <<pos, failures, disturbed>>

SubmitNext ==
  /\ blk.pc = "submit"
  /\ Submit(<<blk.kind, blk.start, blk.last>>)
  /\ blk' = [blk EXCEPT !.pc = "wait"]
  /\ UNCHANGED <<mem, pos, context, failures, disturbed>>

(* Mutant: the next segment starts where this one did. *)
NextStartStuck == IF SegmentEnd(blk.start) = NumLayers THEN NumLayers + 1 ELSE blk.start

NextStart == IF blk.kind = "decode" THEN NumLayers + 1 ELSE SegmentEnd(blk.start) + 1

(* The next segment, or pos moves and the logits are read.                  *)
SubmissionReturns ==
  /\ blk.pc = "wait"
  /\ WaitReturns
  /\ LET done == NextStart > NumLayers
     IN  /\ blk' = [blk EXCEPT !.start = NextStart,
                               !.pc = IF ~done THEN "submit" ELSE IF blk.last THEN "read" ELSE "idle"]
         /\ pos' = IF done THEN pos + 1 ELSE pos
  /\ UNCHANGED <<mem, context, failures, disturbed>>

(* create_fence or queue_submit fails, or wait_for_fences does.             *)
SubmissionFails ==
  /\ failures < MaxFailures
  /\ \/ blk.pc = "submit" /\ UNCHANGED queueVars
     \/ blk.pc = "wait" /\ WaitFails
  /\ blk' = [blk EXCEPT !.pc = "idle"]
  /\ failures' = failures + 1
  /\ disturbed' = TRUE
  /\ UNCHANGED <<mem, pos, context>>

ReadLogits ==
  /\ blk.pc = "read"
  /\ blk' = [blk EXCEPT !.pc = "idle"]
  /\ UNCHANGED <<queueVars, mem, pos, context, failures, disturbed>>

Reset ==
  /\ blk.pc = "idle"
  /\ pos' = 0
  /\ disturbed' = FALSE
  /\ UNCHANGED <<queueVars, mem, context, blk, failures>>

GpuStart(i) == Start(i) /\ UNCHANGED <<mem, driverVars>>

GpuFinish(i) == Finish(i) /\ Execute(CallAt(i)) /\ UNCHANGED driverVars

HostStep == SubmitNext \/ SubmissionReturns \/ ReadLogits
GpuStep == \E i \in Indices : GpuStart(i) \/ GpuFinish(i)

ForwardNext ==
  \/ \E kind \in {"prefill", "decode"}, last \in BOOLEAN : Begin(kind, last)
  \/ HostStep
  \/ SubmissionFails
  \/ Reset
  \/ GpuStep

(* The GPU runs what it has been given; the host thread goes on as soon as  *)
(* its submission returns.                                                  *)
ForwardSpec ==
  /\ ForwardInit /\ [][ForwardNext]_vars
  /\ WF_vars(HostStep) /\ WF_vars(GpuStep)

-----------------------------------------------------------------------------
Trusted == ~overrun /\ ~disturbed

(* Through every reuse of a buffer and whatever mix of chunks, tokens and   *)
(* resets came before, each dispatch finds the operands, formats and stored *)
(* keys that the CPU oracle's forward pass gives it, and the logits the     *)
(* host reads are those of the oracle for the whole context.                *)
ForwardIsReference ==
  Trusted =>
    /\ blk.pc = "wait" =>
         \A i \in finished : \A b \in CallAt(i).out : mem[b].form # Torn
    /\ blk.pc = "read" =>
         \A b \in B("logits") : mem[b] = Value(LogitsNode(blk.id), F32)

(* Every block ends, by its logits, by the end of its last segment or by a  *)
(* failed submission.                                                       *)
BlockEnds == blk.pc # "idle" ~> blk.pc = "idle"

(* StepState::write_to: "Fails if the buffer is still in use by an          *)
(* unfinished submission".                                                  *)
StepWrittenBetweenSubmits ==
  [][mem'[StepBuffer] # mem[StepBuffer] => Drained]_vars
=============================================================================
