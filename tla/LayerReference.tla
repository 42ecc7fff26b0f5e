-------------------------- MODULE LayerReference ---------------------------
(***************************************************************************)
(* sg-model/src/reference.rs: the CPU oracle's forward pass, as a dataflow *)
(* graph.  A node <<stage, layer, block>> is the value of one intermediate *)
(* for one block of rows (a prefill chunk, or one decoded token); Computed *)
(* gives the operation, the weight and the nodes it is computed from.      *)
(* Numbers are abstracted: two values are the same when they are the same  *)
(* node.                                                                   *)
(***************************************************************************)
EXTENDS Naturals, Sequences

CONSTANTS
  NumLayers,  \* transformer layers (60)
  Kind        \* Kind[l] \in {"sliding", "global"}

ASSUME LayersAssumption ==
  /\ NumLayers \in Nat \ {0}
  /\ Kind \in [1 .. NumLayers -> {"sliding", "global"}]

Layers == 1 .. NumLayers

(* Shapes: widths of the rows an operation works on. *)
Hidden == 5376
Ffn == 21504
QHeads == 32
HeadDim(kind) == IF kind = "sliding" THEN 256 ELSE 512
KvHeads(kind) == IF kind = "sliding" THEN 16 ELSE 4
QDim(kind) == QHeads * HeadDim(kind)
KvDim(kind) == KvHeads(kind) * HeadDim(kind)

(* Operations, with the shape they work on. *)
Rms(width, rows) == <<"rms", width, rows>>
Matmul(from, to) == <<"matmul", from, to>>
Rope(kind, heads) == <<"rope", kind, heads>>
Attention(kind) == <<"attention", kind>>
Geglu == <<"geglu">>
AddScaled == <<"add_scaled">>

(* Weights. *)
W(name, l) == <<name, l>>
NormOnes == W("norm_ones", 0)
NoWeight == W("none", 0)

(* The output of a layer is the input of the next one.                      *)
Node(stage, l, b) == IF stage = "out" THEN <<"x", l + 1, b>> ELSE <<stage, l, b>>

(* What a stage of layer l is computed from for block b, the last block of  *)
(* the context: K and V of every block of the context are attended.         *)
Attending(l, context) ==
  LET b == context[Len(context)]
      Of(stage) == [i \in 1 .. Len(context) |-> Node(stage, l, context[i])]
  IN  <<Attention(Kind[l]), NoWeight, <<Node("q", l, b), Of("k"), Of("v")>>>>

Computed(l, context) ==
  LET k == Kind[l]
      b == context[Len(context)]
      hd == HeadDim(k)
      cs == <<k, 0, b>>
      N(stage) == Node(stage, l, b)
  IN [xn     |-> <<Rms(Hidden, 1), W("attn_norm", l), <<N("x")>>>>,
      q_raw  |-> <<Matmul(Hidden, QDim(k)), W("attn_q", l), <<N("xn")>>>>,
      q_norm |-> <<Rms(hd, QHeads), W("attn_q_norm", l), <<N("q_raw")>>>>,
      q      |-> <<Rope(k, QHeads), NoWeight, <<N("q_norm"), cs>>>>,
      k_raw  |-> <<Matmul(Hidden, KvDim(k)), W("attn_k", l), <<N("xn")>>>>,
      v_raw  |-> <<Matmul(Hidden, KvDim(k)), W("attn_v", l), <<N("xn")>>>>,
      k_norm |-> <<Rms(hd, KvHeads(k)), W("attn_k_norm", l), <<N("k_raw")>>>>,
      k      |-> <<Rope(k, KvHeads(k)), NoWeight, <<N("k_norm"), cs>>>>,
      v      |-> <<Rms(hd, KvHeads(k)), NormOnes,
                   <<N(IF k = "sliding" THEN "v_raw" ELSE "k_raw")>>>>,
      attn   |-> Attending(l, context),
      o      |-> <<Matmul(QDim(k), Hidden), W("attn_output", l), <<N("attn")>>>>,
      on     |-> <<Rms(Hidden, 1), W("post_attention_norm", l), <<N("o")>>>>,
      x2     |-> <<AddScaled, NoWeight, <<N("x"), N("on")>>>>,
      fin    |-> <<Rms(Hidden, 1), W("ffn_norm", l), <<N("x2")>>>>,
      gate   |-> <<Matmul(Hidden, Ffn), W("ffn_gate", l), <<N("fin")>>>>,
      up     |-> <<Matmul(Hidden, Ffn), W("ffn_up", l), <<N("fin")>>>>,
      gu     |-> <<Geglu, NoWeight, <<N("gate"), N("up")>>>>,
      f      |-> <<Matmul(Ffn, Hidden), W("ffn_down", l), <<N("gu")>>>>,
      fn2    |-> <<Rms(Hidden, 1), W("post_ffw_norm", l), <<N("f")>>>>,
      out    |-> <<AddScaled, W("layer_output_scale", l), <<N("x2"), N("fn2")>>>>]

(* The final norm and the tied LM head, for the last row of block b.        *)
FinalNode(b) == <<"final", 0, b>>
LogitsNode(b) == <<"logits", 0, b>>
ComputedFinal(b) == <<Rms(Hidden, 1), W("output_norm", 0), <<<<"x", NumLayers + 1, b>>>>>>
ComputedLogits(b) == <<<<"lm_head">>, W("token_embd", 0), <<FinalNode(b)>>>>

(* The nodes of the last block's forward pass that an operation yields when *)
(* it is given this weight and these inputs; a global layer has no V        *)
(* projection.                                                              *)
Yields(op, weight, inputs, context) ==
  LET b == context[Len(context)]
      Is(r) == r[1] = op /\ r[2] = weight /\ r[3] = inputs
      InLayer(l) ==
        LET computed == Computed(l, context)
            stages == DOMAIN computed \ {s \in {"v_raw"} : Kind[l] = "global"}
        IN  {Node(s, l, b) : s \in {t \in stages : Is(computed[t])}}
  IN  (UNION {InLayer(l) : l \in {j \in Layers : weight[2] \in {0, j}}})
      \cup {n \in {FinalNode(b)} : Is(ComputedFinal(b))}
      \cup {n \in {LogitsNode(b)} : Is(ComputedLogits(b))}
=============================================================================
