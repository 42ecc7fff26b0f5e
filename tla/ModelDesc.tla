----------------------------- MODULE ModelDesc -----------------------------
(***************************************************************************)
(* ModelDesc::validate of sg-gguf/src/desc.rs: the metadata and the tensor *)
(* table of a parsed file against the one model this program runs.  The    *)
(* dimensions of the model are parameters; what the checks compare and     *)
(* which tensors a layer must have is the code's.                          *)
(***************************************************************************)
EXTENDS GgufParser

CONSTANTS
    NLayers, Hidden, Ffn, Vocab, Context, NQHeads,
    SlidingKvHeads, SlidingHeadDim, SlidingWindow,
    GlobalKvHeads, GlobalHeadDim

ASSUME DimensionsAssumption ==
    {NLayers, Hidden, Ffn, Vocab, NQHeads, SlidingKvHeads, SlidingHeadDim, GlobalKvHeads, GlobalHeadDim}
      \subseteq Nat \ {0}

(* Tensor names: the layer, or Top, and the suffix.                        *)
Top == -1
TokenEmbd == <<Top, "token_embd">>
OutputNorm == <<Top, "output_norm">>
RopeFreqs == <<Top, "rope_freqs">>

(* Every sixth layer is global.                                            *)
Layer == 0 .. NLayers - 1
LayerKind(layer) == IF layer % 6 = 5 THEN "global" ELSE "sliding"
KvHeads(kind) == IF kind = "sliding" THEN SlidingKvHeads ELSE GlobalKvHeads
HeadDim(kind) == IF kind = "sliding" THEN SlidingHeadDim ELSE GlobalHeadDim

Expected(name, dims, dtype) == [name |-> name, dims |-> dims, dtype |-> dtype]

(* A global layer shares K and V: it has no attn_v.                        *)
ExpectedOfLayer(layer) ==
    LET kind == LayerKind(layer)
        qDim == NQHeads * HeadDim(kind)
        kvDim == KvHeads(kind) * HeadDim(kind)
        Norm(suffix, dim) == Expected(<<layer, suffix>>, <<dim>>, "F32")
        Weight(suffix, in, out) == Expected(<<layer, suffix>>, <<in, out>>, "Q4_0")
    IN {Weight("attn_q", Hidden, qDim), Weight("attn_k", Hidden, kvDim),
        Weight("attn_output", qDim, Hidden),
        Weight("ffn_gate", Hidden, Ffn), Weight("ffn_up", Hidden, Ffn), Weight("ffn_down", Ffn, Hidden),
        Norm("attn_q_norm", HeadDim(kind)), Norm("attn_k_norm", HeadDim(kind)),
        Norm("attn_norm", Hidden), Norm("post_attention_norm", Hidden),
        Norm("ffn_norm", Hidden), Norm("post_ffw_norm", Hidden), Norm("layer_output_scale", 1)}
       \cup (IF kind = "sliding" THEN {Weight("attn_v", Hidden, kvDim)} ELSE {})

ExpectedTensors ==
    {Expected(TokenEmbd, <<Hidden, Vocab>>, "Q6_K"), Expected(OutputNorm, <<Hidden>>, "F32"),
     Expected(RopeFreqs, <<GlobalHeadDim \div 2>>, "F32")}
    \cup UNION {ExpectedOfLayer(layer) : layer \in Layer}

(* What check_metadata expects of every scalar key.                        *)
ExpectedUint ==
    ("gemma4.block_count" :> NLayers @@ "gemma4.context_length" :> Context
     @@ "gemma4.embedding_length" :> Hidden @@ "gemma4.feed_forward_length" :> Ffn
     @@ "gemma4.attention.head_count" :> NQHeads
     @@ "gemma4.attention.sliding_window" :> SlidingWindow
     @@ "gemma4.attention.key_length" :> GlobalHeadDim
     @@ "gemma4.attention.value_length" :> GlobalHeadDim
     @@ "gemma4.attention.key_length_swa" :> SlidingHeadDim
     @@ "gemma4.attention.value_length_swa" :> SlidingHeadDim
     @@ "gemma4.attention.shared_kv_layers" :> 0
     @@ "gemma4.rope.dimension_count" :> GlobalHeadDim
     @@ "gemma4.rope.dimension_count_swa" :> SlidingHeadDim)

ExpectedF32 ==
    ("gemma4.rope.freq_base" :> "1000000.0" @@ "gemma4.rope.freq_base_swa" :> "10000.0"
     @@ "gemma4.attention.layer_norm_rms_epsilon" :> "1e-6"
     @@ "gemma4.final_logit_softcapping" :> "30.0")

-----------------------------------------------------------------------------
(* The issues of the three checks, as the keys and tensors they are about. *)

UintIssues ==
    {key \in DOMAIN ExpectedUint :
       ~Has(key) \/ ~IsUint(meta[key]) \/ meta[key].val # ExpectedUint[key]}

F32Issues ==
    {key \in DOMAIN ExpectedF32 :
       ~Has(key) \/ meta[key].raw # F32 \/ meta[key].val # ExpectedF32[key]}

ArchitectureIssues ==
    {key \in {"general.architecture"} :
       ~Has(key) \/ meta[key].raw # STRING8 \/ meta[key].val.name # "gemma4"}

(* A per-layer array has one entry for every layer, each the one of the    *)
(* kind of its layer.                                                      *)
ArrayIssues(key, elem, expected) ==
    IF Has(key) /\ meta[key].raw = ARRAY /\ meta[key].arrays[1].elem = elem
       /\ meta[key].arrays[1].items = expected
    THEN {} ELSE {key}

EveryLayer(of) == [i \in 1 .. NLayers |-> of[LayerKind(i - 1)]]

PerLayerIssues ==
    ArrayIssues("gemma4.attention.head_count_kv", I32,
                EveryLayer([sliding |-> KvHeads("sliding"), global |-> KvHeads("global")]))
    \cup ArrayIssues("gemma4.attention.sliding_window_pattern", BOOL,
                     EveryLayer([sliding |-> 1, global |-> 0]))

(* check_tensors, both directions.                                         *)
Found(e) == \E i \in DOMAIN table :
              table[i].name = e.name /\ table[i].dims = e.dims /\ table[i].dtype = e.dtype

TensorIssues ==
    {e.name : e \in {e \in ExpectedTensors : ~Found(e)}}
    \cup {table[i].name : i \in {i \in DOMAIN table :
                                   \A e \in ExpectedTensors : e.name # table[i].name}}

Valid ==
    /\ ArchitectureIssues \cup UintIssues \cup F32Issues \cup PerLayerIssues = {}
    /\ TensorIssues = {}
=============================================================================
