------------------------- MODULE ForwardPassProofs -------------------------
(***************************************************************************)
(* The forward pass for every stack of layers, every length of segment and *)
(* every history of chunks, tokens, failures and resets.  The recorded     *)
(* barriers order every conflict of a command graph, and the driver        *)
(* submits only what has been recorded.  Then, that it computes what the   *)
(* CPU oracle does: what each stage of a layer reads, computes and writes; *)
(* that a layer's dispatches find what they need, one after another; that  *)
(* a graph's layers follow each other; and that segments, blocks and the   *)
(* stores do, from one submission to the next.                             *)
(***************************************************************************)
EXTENDS ForwardPass, SequenceLemmas

-----------------------------------------------------------------------------
(* What the GPU holds is one recorded graph, and it finishes only what it   *)
(* has started - until the host runs ahead of it.                           *)
QueueInv ==
  ~overrun =>
    /\ queue = <<>> \/ \E n \in DOMAIN Graphs : queue = Recorded(n)
    /\ finished \subseteq started
    /\ started \subseteq Indices

(* QueueInv is what makes ConflictsOrdered inductive: the conflicts of a    *)
(* queue are those of a graph as it was recorded, to which the contract of  *)
(* dispatch_overlapping applies.                                            *)
OrderInv == QueueInv /\ ConflictsOrdered

-----------------------------------------------------------------------------
(* The queue of a recorded graph has an entry for each of its dispatches,   *)
(* with a barrier wherever the recorder puts one.                           *)
LEMMA RecordedEntries ==
  ASSUME NEW n \in DOMAIN Graphs, queue = Recorded(n), Indices = DOMAIN queue
  PROVE  /\ Indices = 1 .. Len(Graphs[n])
         /\ \A i \in Indices :
              /\ CallAt(i) = Graphs[n][i]
              /\ queue[i].barrier = BarrierBefore(Graphs[n], i)
BY DEF Recorded, CallAt

(* The indices of a sequence that is given by its domain.                   *)
LEMMA RecordedIndices ==
  ASSUME NEW n \in DOMAIN Graphs
  PROVE  1 .. Len(Recorded(n)) = 1 .. Len(Graphs[n])
<1>1. Len(Graphs[n]) \in Nat
  BY GraphsAssumption
<1> QED BY <1>1 DEF Recorded

(* In one graph, a dispatch that conflicts with an earlier one is separated *)
(* from it by a barrier.                                                    *)
LEMMA ConflictsSeparated ==
  ASSUME NEW n \in DOMAIN Graphs, queue = Recorded(n),
         NEW i \in Indices, NEW j \in 1 .. i - 1,
         Conflicting(CallAt(j), CallAt(i))
  PROVE  Ordered(j, i)
<1> DEFINE g == Graphs[n]
<1>1. Len(g) \in Nat /\ OverlapSafe(g)
  BY GraphsAssumption
<1>2. Indices = 1 .. Len(g) /\ DOMAIN queue = 1 .. Len(g)
  BY RecordedIndices DEF Indices, Recorded
<1>3. i \in 1 .. Len(g) /\ j \in 1 .. Len(g) /\ j < i /\ i \in Nat /\ j \in Nat
  BY <1>1, <1>2
<1>4. CallAt(j) = g[j] /\ CallAt(i) = g[i]
  BY <1>2, <1>3, RecordedEntries
<1>5. PICK k \in j + 1 .. i : g[k].auto
  BY <1>1, <1>3, <1>4 DEF OverlapSafe
<1>6. k \in Indices /\ k > 1
  BY <1>1, <1>2, <1>3
<1>7. queue[k].barrier = BarrierBefore(g, k)
  BY <1>2, <1>6, RecordedEntries
<1>8. queue[k].barrier
  BY <1>5, <1>6, <1>7 DEF BarrierBefore
<1> QED BY <1>8 DEF Ordered

-----------------------------------------------------------------------------
(* Nothing has been submitted at first.                                    *)
LEMMA OrderInit == Init => OrderInv
BY DEF Init, OrderInv, QueueInv, ConflictsOrdered, Indices

(* A new submission starts from nothing, or runs ahead of the GPU.          *)
LEMMA SubmitKeepsOrder ==
  ASSUME OrderInv, NEW n \in DOMAIN Graphs, Submit(n)
  PROVE  OrderInv'
<1>1. CASE Drained
  BY <1>1 DEF Submit, OrderInv, QueueInv, ConflictsOrdered, Indices, Recorded, BarrierBefore
<1>2. CASE ~Drained
  BY <1>2 DEF Submit, OrderInv, QueueInv, ConflictsOrdered
<1> QED BY <1>1, <1>2

(* The host's other steps touch nothing the GPU holds.                      *)
LEMMA HostKeepsOrder ==
  ASSUME OrderInv, WaitReturns \/ WaitFails \/ HostWrite \/ UNCHANGED queueVars
  PROVE  OrderInv'
<1>1. UNCHANGED <<queue, started, finished>>
  BY DEF WaitReturns, WaitFails, HostWrite, queueVars
<1>2. ~overrun' => ~overrun
  <2>1. CASE HostWrite
    BY <2>1, Zenon DEF HostWrite
  <2>2. CASE ~HostWrite
    BY <2>2 DEF WaitReturns, WaitFails, queueVars
  <2> QED BY <2>1, <2>2
<1> QED
  BY <1>1, <1>2 DEF OrderInv, QueueInv, ConflictsOrdered, Indices, CallAt, Recorded, BarrierBefore

(* A dispatch starts once everything a barrier separates it from is done.   *)
LEMMA StartKeepsOrder ==
  ASSUME OrderInv, NEW i \in Indices, Start(i)
  PROVE  OrderInv'
<1> SUFFICES ASSUME ~overrun
             PROVE  OrderInv'
  BY DEF Start, OrderInv, QueueInv, ConflictsOrdered
<1>1. UNCHANGED <<queue, finished, overrun>> /\ started' = started \cup {i}
  BY DEF Start
<1>2. QueueInv'
  BY <1>1 DEF OrderInv, QueueInv, Indices, Recorded, BarrierBefore
<1>3. \A e : CallAt(e)' = CallAt(e)
  BY <1>1 DEF CallAt
<1>4. ASSUME NEW j \in (1 .. i - 1) \ finished
      PROVE  ~Conflicting(CallAt(j), CallAt(i))
  <2>1. ~Ordered(j, i)
    BY <1>4 DEF Start
  <2>2. queue # <<>>
    BY DEF Indices
  <2>3. PICK n \in DOMAIN Graphs : queue = Recorded(n)
    BY <2>2 DEF OrderInv, QueueInv
  <2> QED BY <2>1, <2>3, ConflictsSeparated
<1>5. ConflictsOrdered'
  BY <1>1, <1>3, <1>4 DEF OrderInv, ConflictsOrdered
<1> QED BY <1>2, <1>5 DEF OrderInv

(* A dispatch that finishes is one obligation less for those after it.      *)
LEMMA FinishKeepsOrder ==
  ASSUME OrderInv, NEW i \in Indices, Finish(i)
  PROVE  OrderInv'
<1>1. /\ UNCHANGED <<queue, started, overrun>>
      /\ finished' = finished \cup {i} /\ i \in started
  BY DEF Finish
<1>2. QueueInv'
  BY <1>1 DEF OrderInv, QueueInv, Indices, Recorded, BarrierBefore
<1>3. \A e : CallAt(e)' = CallAt(e)
  BY <1>1 DEF CallAt
<1>4. ConflictsOrdered'
  BY <1>1, <1>3 DEF OrderInv, ConflictsOrdered
<1> QED BY <1>2, <1>4 DEF OrderInv

(* OrderInv is preserved by every step.                                     *)
LEMMA OrderStep == OrderInv /\ [Next]_queueVars => OrderInv'
BY SubmitKeepsOrder, HostKeepsOrder, StartKeepsOrder, FinishKeepsOrder DEF Next

(* record_dispatch's barriers are enough: for every set of graphs whose     *)
(* overlapping dispatches are independent of each other, two dispatches     *)
(* that touch the same data never run at the same time or out of order,     *)
(* within a graph or across submissions, unless the host runs ahead of the  *)
(* GPU.                                                                     *)
THEOREM BarriersSuffice == Spec => []ConflictsOrdered
<1>1. OrderInv => ConflictsOrdered
  BY DEF OrderInv
<1> QED BY OrderInit, OrderStep, <1>1, PTL DEF Spec

-----------------------------------------------------------------------------
(* A block in progress is a decode token, or a chunk at one of its layers.  *)
GraphName(kind, start, last) ==
  \/ kind = "decode" /\ start = 1 /\ last = TRUE
  \/ kind = "prefill" /\ start \in Layers /\ last \in BOOLEAN

BlockType ==
  [pc : {"idle", "submit", "wait", "read"}, kind : {"none", "decode", "prefill"},
   id : Nat, start : Nat, last : BOOLEAN]

BlockInv ==
  /\ blk \in BlockType
  /\ blk.pc \in {"submit", "wait"} => GraphName(blk.kind, blk.start, blk.last)

-----------------------------------------------------------------------------
(* What a block is about to submit has been recorded.                       *)
LEMMA NamesAreRecorded ==
  ASSUME NEW kind, NEW start, NEW last, GraphName(kind, start, last)
  PROVE  <<kind, start, last>> \in DOMAIN Graphs
<1>1. DOMAIN Graphs = {<<"decode", 1, TRUE>>} \cup ({"prefill"} \X Layers \X BOOLEAN)
  BY RecordedAssumption DEF RecordedGraphs
<1> QED BY <1>1 DEF GraphName

(* The segment after one that does not end the stack begins at a layer.     *)
LEMMA NextSegment ==
  ASSUME NEW start \in Layers, SegmentEnd(start) + 1 <= NumLayers
  PROVE  SegmentEnd(start) + 1 \in Layers
<1>1. SegmentLayers \in Nat \ {0} /\ NumLayers \in Nat \ {0}
  BY SegmentAssumption, LayersAssumption
<1> QED BY <1>1 DEF SegmentEnd, Layers

-----------------------------------------------------------------------------
(* No block is in progress at first.                                        *)
LEMMA BlockInit == ForwardInit => BlockInv
BY DEF ForwardInit, BlockInv, BlockType, NoBlock

(* Every step leaves a block that is idle, read, or at a recorded graph.    *)
LEMMA BlockStep == BlockInv /\ [ForwardNext]_vars => BlockInv'
<1> SUFFICES ASSUME BlockInv, [ForwardNext]_vars
             PROVE  BlockInv'
  OBVIOUS
<1>n. NumLayers \in Nat \ {0} /\ 1 \in Layers
  BY LayersAssumption DEF Layers
<1>1. ASSUME NEW kind \in {"prefill", "decode"}, NEW last \in BOOLEAN, Begin(kind, last)
      PROVE  BlockInv'
  <2>1. blk' = [pc |-> "submit", kind |-> kind, id |-> blk.id + 1, start |-> 1, last |-> last]
        /\ (kind = "decode" => last)
    BY <1>1 DEF Begin
  <2>2. blk' \in BlockType
    BY <2>1 DEF BlockInv, BlockType
  <2>3. GraphName(kind, 1, last)
    BY <1>n, <2>1, Zenon DEF GraphName
  <2> QED BY <2>1, <2>2, <2>3 DEF BlockInv
<1>2. CASE SubmitNext
  BY <1>2 DEF SubmitNext, BlockInv, BlockType
<1>3. CASE SubmissionReturns
  <2> DEFINE done == NextStart > NumLayers
  <2>1. /\ blk.pc = "wait"
        /\ blk' = [blk EXCEPT !.start = NextStart,
                              !.pc = IF ~done THEN "submit" ELSE IF blk.last THEN "read" ELSE "idle"]
    BY <1>3 DEF SubmissionReturns
  <2>2. GraphName(blk.kind, blk.start, blk.last)
    BY <2>1 DEF BlockInv
  <2>3. NextStart \in Nat
    BY <1>n, <2>2, SegmentAssumption DEF NextStart, GraphName, SegmentEnd, Layers
  <2>4. blk' \in BlockType
    BY <2>1, <2>3 DEF BlockInv, BlockType
  <2>5. ASSUME ~done
        PROVE  GraphName(blk'.kind, blk'.start, blk'.last)
    <3>1. NextStart <= NumLayers
      BY <1>n, <2>3, <2>5
    <3>2. blk.kind # "decode"
      BY <1>n, <3>1 DEF NextStart
    <3>3. blk.kind = "prefill" /\ blk.start \in Layers /\ blk.last \in BOOLEAN
      BY <2>2, <3>2 DEF GraphName
    <3>4. NextStart \in Layers
      BY <3>1, <3>3, NextSegment DEF NextStart
    <3>5. blk'.kind = blk.kind /\ blk'.start = NextStart /\ blk'.last = blk.last
      BY <2>1 DEF BlockInv, BlockType
    <3> QED BY <3>3, <3>4, <3>5 DEF GraphName
  <2>6. blk'.pc \in {"submit", "wait"} => ~done
    BY <2>1 DEF BlockInv, BlockType
  <2> QED BY <2>4, <2>5, <2>6 DEF BlockInv
<1>4. CASE ReadLogits \/ SubmissionFails
  BY <1>4 DEF ReadLogits, SubmissionFails, BlockInv, BlockType
<1>5. CASE Reset \/ GpuStep \/ UNCHANGED vars
  BY <1>5 DEF Reset, GpuStep, GpuStart, GpuFinish, driverVars, vars, BlockInv
<1> QED BY <1>1, <1>2, <1>3, <1>4, <1>5 DEF ForwardNext, HostStep

(* Every step of the forward pass is a step of CommandGraph, or none.       *)
LEMMA StepMaps ==
  ASSUME BlockInv, [ForwardNext]_vars
  PROVE  [Next]_queueVars
<1>1. ASSUME NEW kind, NEW last, Begin(kind, last)
      PROVE  Next
  BY <1>1 DEF Begin, Next
<1>2. CASE SubmitNext
  BY <1>2, NamesAreRecorded DEF SubmitNext, BlockInv, Next
<1>3. CASE SubmissionReturns
  BY <1>3 DEF SubmissionReturns, Next
<1>4. CASE SubmissionFails
  BY <1>4 DEF SubmissionFails, Next
<1>5. CASE ReadLogits \/ Reset \/ UNCHANGED vars
  BY <1>5 DEF ReadLogits, Reset, vars
<1>6. CASE GpuStep
  BY <1>6 DEF GpuStep, GpuStart, GpuFinish, Next
<1> QED BY <1>1, <1>2, <1>3, <1>4, <1>5, <1>6 DEF ForwardNext, HostStep

(* A chunk goes through its segments in order and a token through its one   *)
(* graph: what the driver submits is always something it has recorded.      *)
THEOREM BlockInvariant == ForwardSpec => []BlockInv
BY BlockInit, BlockStep, PTL DEF ForwardSpec

(* The driver uses command graphs as CommandGraph describes.                *)
THEOREM ForwardUsesGraphs == ForwardSpec => Spec
<1>1. ForwardInit => Init
  BY DEF ForwardInit
<1>2. BlockInv /\ [ForwardNext]_vars => [Next]_queueVars
  BY StepMaps
<1> QED BY <1>1, <1>2, BlockInvariant, PTL DEF ForwardSpec, Spec

(* No two dispatches of a forward pass that touch the same data overlap,    *)
(* whatever buffers the driver reuses.                                      *)
THEOREM ForwardConflictsOrdered == ForwardSpec => []ConflictsOrdered
BY ForwardUsesGraphs, BarriersSuffice, PTL

-----------------------------------------------------------------------------
(* The oracle computes no node in two ways: an operation, its weight and    *)
(* its inputs give away the stage and the layer, by the weight when there   *)
(* is one and by the first input when there is none.                        *)
Signature(computed) ==
  IF computed[2][1] = "none" THEN computed[3][1][1] ELSE computed[2][1]

StageOf ==
  [attn_norm |-> "xn", attn_q |-> "q_raw", attn_q_norm |-> "q_norm", q_norm |-> "q",
   attn_k |-> "k_raw", attn_v |-> "v_raw", attn_k_norm |-> "k_norm", k_norm |-> "k",
   norm_ones |-> "v", q |-> "attn", attn_output |-> "o", post_attention_norm |-> "on",
   x |-> "x2", ffn_norm |-> "fin", ffn_gate |-> "gate", ffn_up |-> "up", gate |-> "gu",
   ffn_down |-> "f", post_ffw_norm |-> "fn2", layer_output_scale |-> "out",
   output_norm |-> "final", token_embd |-> "logits"]

(* What the stages of a layer are computed by.                              *)
Computes(computed, s, l) ==
  /\ StageOf[Signature(computed)] = s
  /\ computed[2][2] \in {0, l}
  /\ computed[3][1][2] = l
  /\ computed[1] # Convert /\ computed[1] # Store

Stages ==
  {"xn", "q_raw", "q_norm", "q", "k_raw", "v_raw", "k_norm", "k", "v", "attn", "o", "on", "x2",
   "fin", "gate", "up", "gu", "f", "fn2", "out"}

(* Every stage has a signature of its own: what an operation and a weight,  *)
(* or an operation and a first input, are used for.                         *)
LEMMA StagesComputed ==
  ASSUME NEW l \in Layers, NEW ctx, NEW s \in Stages
  PROVE  Computes(Computed(l, ctx)[s], s, l)
<1>c. SUFFICES ASSUME NEW computed, computed = Computed(l, ctx)[s]
               PROVE  Computes(computed, s, l)
  BY Zenon
<1>l. l \in Nat /\ Kind[l] \in {"sliding", "global"}
  BY LayersAssumption DEF Layers
<1> USE <1>c DEF Computed, Computes, Signature, StageOf, W, NoWeight, NormOnes, Node, Convert, Store,
            Rms, Matmul, Rope, Attention, Geglu, AddScaled, Attending
<1>1. CASE s = "xn"
  BY <1>1, <1>l
<1>2. CASE s = "q_raw"
  BY <1>2, <1>l
<1>3. CASE s = "q_norm"
  BY <1>3, <1>l
<1>4. CASE s = "q"
  BY <1>4, <1>l
<1>5. CASE s = "k_raw"
  BY <1>5, <1>l
<1>6. CASE s = "v_raw"
  BY <1>6, <1>l
<1>7. CASE s = "k_norm"
  BY <1>7, <1>l
<1>8. CASE s = "k"
  BY <1>8, <1>l
<1>9. CASE s = "v"
  BY <1>9, <1>l
<1>10. CASE s = "attn"
  BY <1>10, <1>l
<1>11. CASE s = "o"
  BY <1>11, <1>l
<1>12. CASE s = "on"
  BY <1>12, <1>l
<1>13. CASE s = "x2"
  BY <1>13, <1>l
<1>14. CASE s = "fin"
  BY <1>14, <1>l
<1>15. CASE s = "gate"
  BY <1>15, <1>l
<1>16. CASE s = "up"
  BY <1>16, <1>l
<1>17. CASE s = "gu"
  BY <1>17, <1>l
<1>18. CASE s = "f"
  BY <1>18, <1>l
<1>19. CASE s = "fn2"
  BY <1>19, <1>l
<1>20. CASE s = "out"
  BY <1>20, <1>l
<1> HIDE DEF Computes, Computed
<1> QED
  BY <1>1, <1>2, <1>3, <1>4, <1>5, <1>6, <1>7, <1>8, <1>9, <1>10, <1>11, <1>12, <1>13, <1>14,
     <1>15, <1>16, <1>17, <1>18, <1>19, <1>20 DEF Stages

(* The stages are the keys of the oracle.                                   *)
LEMMA StageNames ==
  ASSUME NEW l, NEW ctx
  PROVE  DOMAIN Computed(l, ctx) = Stages
BY DEF Computed, Stages

(* An operation, weight and inputs that the oracle uses for a stage yield   *)
(* the node of that stage and no other.                                     *)
LEMMA StageYields ==
  ASSUME NEW l \in Layers, NEW ctx, NEW s \in Stages, s = "v_raw" => Kind[l] = "sliding",
         NEW C, C = Computed(l, ctx)[s]
  PROVE  Yields(C[1], C[2], C[3], ctx) = {Node(s, l, ctx[Len(ctx)])}
<1> DEFINE b == ctx[Len(ctx)]
           Is(r) == r[1] = C[1] /\ r[2] = C[2] /\ r[3] = C[3]
           stages(j) == DOMAIN Computed(j, ctx) \ {t \in {"v_raw"} : Kind[j] = "global"}
           In(j) == {Node(t, j, b) : t \in {u \in stages(j) : Is(Computed(j, ctx)[u])}}
           near == {j \in Layers : C[2][2] \in {0, j}}
<1>1. Computes(C, s, l)
  BY StagesComputed
<1>2. ASSUME NEW j \in Layers, NEW t \in Stages, Is(Computed(j, ctx)[t])
      PROVE  t = s /\ j = l
  <2>1. Computes(Computed(j, ctx)[t], t, j)
    BY StagesComputed
  <2>2. Signature(Computed(j, ctx)[t]) = Signature(C)
    BY <1>2 DEF Signature
  <2> QED BY <1>1, <1>2, <2>1, <2>2 DEF Computes
<1>3. l \in near /\ s \in stages(l) /\ Is(Computed(l, ctx)[s])
  BY <1>1, StageNames, Zenon DEF Computes
<1>4. (UNION {In(j) : j \in near}) = {Node(s, l, b)}
  <2>1. \A j \in near : \A t \in stages(j) : Is(Computed(j, ctx)[t]) => t = s /\ j = l
    BY <1>2, StageNames, Zenon
  <2> HIDE DEF Is, stages, near
  <2>2. In(l) = {Node(s, l, b)}
    BY <1>3, <2>1, Zenon
  <2>3. \A j \in near : In(j) \subseteq {Node(s, l, b)}
    BY <2>1
  <2> HIDE DEF In
  <2> QED BY <1>3, <2>2, <2>3
<1>5. C[2] # W("output_norm", 0) /\ C[2] # W("token_embd", 0)
  <2>1. StageOf["output_norm"] = "final" /\ StageOf["token_embd"] = "logits"
    BY DEF StageOf
  <2>2. "final" \notin Stages /\ "logits" \notin Stages
    BY DEF Stages
  <2>3. StageOf[Signature(C)] = s
    BY <1>1 DEF Computes
  <2>4. ASSUME NEW w, w \in {"output_norm", "token_embd"}, C[2] = W(w, 0)
        PROVE  FALSE
    <3>1. C[2][1] = w /\ w # "none"
      BY <2>4 DEF W
    <3>2. Signature(C) = w
      BY <3>1 DEF Signature
    <3> QED BY <2>1, <2>2, <2>3, <2>4, <3>2
  <2> QED BY <2>4
<1>6. ComputedFinal(b)[2] = W("output_norm", 0) /\ ComputedLogits(b)[2] = W("token_embd", 0)
  BY DEF ComputedFinal, ComputedLogits
<1>7. Yields(C[1], C[2], C[3], ctx) =
        (UNION {In(j) : j \in near})
        \cup {n \in {FinalNode(b)} : Is(ComputedFinal(b))}
        \cup {n \in {LogitsNode(b)} : Is(ComputedLogits(b))}
  BY Zenon DEF Yields
<1> QED BY <1>4, <1>5, <1>6, <1>7, Zenon

(* So do those of the final norm and of the LM head.                        *)
LEMMA TailYields ==
  ASSUME NEW ctx, NEW C, C \in {ComputedFinal(ctx[Len(ctx)]), ComputedLogits(ctx[Len(ctx)])}
  PROVE  Yields(C[1], C[2], C[3], ctx) =
           IF C = ComputedFinal(ctx[Len(ctx)]) THEN {FinalNode(ctx[Len(ctx)])}
                                               ELSE {LogitsNode(ctx[Len(ctx)])}
<1> DEFINE b == ctx[Len(ctx)]
           Is(r) == r[1] = C[1] /\ r[2] = C[2] /\ r[3] = C[3]
           stages(j) == DOMAIN Computed(j, ctx) \ {t \in {"v_raw"} : Kind[j] = "global"}
           In(j) == {Node(t, j, b) : t \in {s \in stages(j) : Is(Computed(j, ctx)[s])}}
           near == {j \in Layers : C[2][2] \in {0, j}}
           u == UNION {In(j) : j \in near}
           v == {n \in {FinalNode(b)} : Is(ComputedFinal(b))}
           w == {n \in {LogitsNode(b)} : Is(ComputedLogits(b))}
<1>1. Yields(C[1], C[2], C[3], ctx) = u \cup v \cup w
  <2>1. Yields(C[1], C[2], C[3], ctx) =
          (UNION {In(j) : j \in near})
          \cup {n \in {FinalNode(b)} : Is(ComputedFinal(b))}
          \cup {n \in {LogitsNode(b)} : Is(ComputedLogits(b))}
    BY Zenon DEF Yields
  <2> QED BY <2>1, Zenon DEF u, v, w
<1>2. ComputedFinal(b)[2] = W("output_norm", 0) /\ ComputedLogits(b)[2] = W("token_embd", 0)
  BY DEF ComputedFinal, ComputedLogits
<1>3. ASSUME NEW j \in Layers, NEW t \in Stages, Is(Computed(j, ctx)[t])
      PROVE  FALSE
  <2>1. StageOf[Signature(Computed(j, ctx)[t])] = t
    BY StagesComputed DEF Computes
  <2>2. Computed(j, ctx)[t][2][1] \in {"output_norm", "token_embd"}
    BY <1>2, <1>3 DEF W
  <2>3. Signature(Computed(j, ctx)[t]) \in {"output_norm", "token_embd"}
    BY <2>2 DEF Signature
  <2>4. t \in {"final", "logits"}
    BY <2>1, <2>3 DEF StageOf
  <2> QED BY <2>4 DEF Stages
<1>4. u = {}
  <2>1. \A j \in Layers : \A t \in stages(j) : ~Is(Computed(j, ctx)[t])
    BY <1>3, StageNames, Zenon
  <2> HIDE DEF Is, stages
  <2> QED BY <2>1
<1>5. ComputedFinal(b)[2] # ComputedLogits(b)[2]
  BY <1>2 DEF W
<1>6. CASE C = ComputedFinal(b)
  <2>1. v = {FinalNode(b)} /\ w = {}
    BY <1>5, <1>6
  <2> HIDE DEF u, v, w
  <2> QED BY <1>1, <1>4, <1>6, <2>1
<1>7. CASE C = ComputedLogits(b)
  <2>1. v = {} /\ w = {LogitsNode(b)} /\ C # ComputedFinal(b)
    BY <1>5, <1>7
  <2> HIDE DEF u, v, w
  <2> QED BY <1>1, <1>4, <2>1
<1> QED BY <1>6, <1>7

-----------------------------------------------------------------------------
(* Where a stage of layer l leaves its rows, and in what format: a chunk    *)
(* (bk = "prefill") and a token have buffers of their own, and those that   *)
(* depend on the number of heads are there once for each kind of layer.     *)
Slot(bk, l) ==
  LET F(name) == IF bk = "prefill" THEN P(name) ELSE B(name)
      K(name) == For(F(name), Kind[l])
  IN [x |-> F("x"), cs |-> K("cs"), xn |-> F("xn"), xn8 |-> Q8(F("xn")),
      q_raw |-> K("q_raw"), k_raw |-> K("kp"), v_raw |-> K("vp"),
      q_norm |-> K("q"), k_norm |-> K("k"), v |-> K("v"), q |-> K("q"), k |-> K("k"),
      q8 |-> Q8(K("q")), part |-> K("part"), attn |-> K("attn"), ao8 |-> Q8(F("ao")),
      o |-> F("o"), on |-> F("on"), x2 |-> F("x2"), fin |-> F("fin"), fin8 |-> Q8(F("fin")),
      gate |-> F("g"), up |-> F("u"), gu |-> F("gu"), gu8 |-> Q8(F("gu")), f |-> F("f"),
      fn2 |-> F("fn2"), out |-> F("x")]

Quants == {"xn8", "q8", "ao8", "fin8", "gu8"}

Form(k, t) ==
  IF t \in Quants THEN Int8
  ELSE IF t = "part" THEN Partial(HeadDim(k), Splits(k))
  ELSE IF t = "cs" THEN F32 ELSE F16

(* The node a stage leaves there: a quantised copy and the partial results  *)
(* of an attention stand for the same node as what they are a form of.      *)
Copied == [xn8 |-> "xn", q8 |-> "q", ao8 |-> "attn", fin8 |-> "fin", gu8 |-> "gu", part |-> "attn"]

Of(l, ctx, t) ==
  IF t = "cs" THEN <<Kind[l], 0, ctx[Len(ctx)]>>
  ELSE Node(IF t \in DOMAIN Copied THEN Copied[t] ELSE t, l, ctx[Len(ctx)])

(* The stages it is computed from.                                          *)
Feeds(bk, k) ==
  LET In(s, s8) == <<IF bk = "prefill" THEN s8 ELSE s>>
  IN [xn |-> <<"x">>, xn8 |-> <<"xn">>, q_raw |-> In("xn", "xn8"), k_raw |-> In("xn", "xn8"),
      v_raw |-> In("xn", "xn8"), q_norm |-> <<"q_raw">>, k_norm |-> <<"k_raw">>,
      v |-> <<IF k = "sliding" THEN "v_raw" ELSE "k_raw">>, q |-> <<"q_norm", "cs">>,
      k |-> <<"k_norm", "cs">>, q8 |-> <<"q">>, attn |-> <<"part">>, ao8 |-> <<"attn">>,
      o |-> In("attn", "ao8"), on |-> <<"o">>, x2 |-> <<"x", "on">>, fin |-> <<"x2">>,
      fin8 |-> <<"fin">>, gate |-> In("fin", "fin8"), up |-> In("fin", "fin8"),
      gu |-> <<"gate", "up">>, gu8 |-> <<"gu">>, f |-> In("gu", "gu8"), fn2 |-> <<"f">>,
      out |-> <<"x2", "fn2">>]

(* A dispatch with the operands of stage t.                                 *)
WiredBy(l, t, d, feeds, slots) ==
  /\ d.out = slots[t] /\ d.kernel.gives = Form(Kind[l], t) /\ d.kernel.via = "none"
  /\ Len(feeds) \in {1, 2} /\ DOMAIN d.ins = 1 .. Len(feeds)
  /\ \A j \in 1 .. Len(feeds) : /\ d.ins[j] = slots[feeds[j]]
                                /\ d.kernel.takes[j] = Form(Kind[l], feeds[j])

Wired(bk, l, t, d) == WiredBy(l, t, d, Feeds(bk, Kind[l])[t], Slot(bk, l))

(* A dispatch that computes what the oracle does at stage t, or converts.   *)
MeantBy(bk, l, ctx, t, d, feeds, computed) ==
  IF t \in Quants \/ (t = "attn" /\ bk = "decode")
    THEN d.kernel.op = Convert /\ Len(feeds) = 1 /\ Of(l, ctx, feeds[1]) = Of(l, ctx, t)
    ELSE /\ d.kernel.op = computed[1] /\ d.weight = computed[2]
         /\ computed[3] = IF Len(feeds) = 1 THEN <<Of(l, ctx, feeds[1])>>
                          ELSE <<Of(l, ctx, feeds[1]), Of(l, ctx, feeds[2])>>

Meant(bk, l, ctx, t, d) ==
  MeantBy(bk, l, ctx, t, d, Feeds(bk, Kind[l])[t], Computed(l, ctx)[t])

-----------------------------------------------------------------------------
(* The dispatches of a recorded layer by the stage they stand for, and the  *)
(* place of each in the layer: a sliding layer has one projection more, and *)
(* in a chunk it attends before it appends.                                 *)
Shift(k) == IF k = "sliding" THEN 1 ELSE 0
Never == 99
Size(bk, k) == IF bk = "decode" THEN 22 + Shift(k) ELSE 26

LayerOf(bk, l) == IF bk = "decode" THEN RecordLayer(l) ELSE RecordPrefillLayer(l)

DecodeRank(k) ==
  LET g == Shift(k)
  IN [x |-> 0, xn |-> 1, q_raw |-> 2, k_raw |-> 3, v_raw |-> IF k = "sliding" THEN 4 ELSE Never,
      q_norm |-> 4 + g, k_norm |-> 5 + g, v |-> 6 + g, q |-> 7 + g, k |-> 8 + g,
      kstore |-> 9 + g, vstore |-> 10 + g, part |-> 11 + g, attn |-> 12 + g, o |-> 13 + g,
      on |-> 14 + g, x2 |-> 15 + g, fin |-> 16 + g, gate |-> 17 + g, up |-> 18 + g,
      gu |-> 19 + g, f |-> 20 + g, fn2 |-> 21 + g, out |-> 22 + g,
      xn8 |-> Never, q8 |-> Never, ao8 |-> Never, fin8 |-> Never, gu8 |-> Never]

PrefillRank(k) ==
  LET g == Shift(k)
  IN [x |-> 0, xn |-> 1, xn8 |-> 2, q_raw |-> 3, k_raw |-> 4,
      v_raw |-> IF k = "sliding" THEN 5 ELSE Never,
      q_norm |-> 5 + g, k_norm |-> 6 + g, v |-> 7 + g, q |-> 8 + g, k |-> 9 + g,
      kstore |-> 10 + g + g, vstore |-> 11 + g + g,
      q8 |-> IF k = "sliding" THEN Never ELSE 12, attn |-> 13 - g - g,
      ao8 |-> 14, o |-> 15, on |-> 16, x2 |-> 17, fin |-> 18, fin8 |-> 19, gate |-> 20, up |-> 21,
      gu |-> 22, gu8 |-> 23, f |-> 24, fn2 |-> 25, out |-> 26, part |-> Never]

Rank(bk, k) == IF bk = "decode" THEN DecodeRank(k) ELSE PrefillRank(k)

DecodeCall(l) ==
  LET g == Shift(Kind[l])
      projection == DecodeProjections(l)
      attend == DecodeAttend(l)
      ffn == DecodeFfn(l)
  IN [xn |-> projection[1], q_raw |-> projection[2], k_raw |-> projection[3],
      v_raw |-> projection[4], q_norm |-> projection[4 + g], k_norm |-> projection[5 + g],
      v |-> projection[6 + g], q |-> projection[7 + g], k |-> projection[8 + g],
      kstore |-> attend[1], vstore |-> attend[2], part |-> attend[3], attn |-> attend[4],
      o |-> attend[5], on |-> attend[6], x2 |-> attend[7],
      fin |-> ffn[1], gate |-> ffn[2], up |-> ffn[3], gu |-> ffn[4], f |-> ffn[5],
      fn2 |-> ffn[6], out |-> ffn[7]]

PrefillCall(l) ==
  LET g == Shift(Kind[l])
      projection == PrefillProjections(l)
      output == PrefillOutput(l)
      ffn == PrefillFfn(l)
  IN [xn |-> projection[1], xn8 |-> projection[2], q_raw |-> projection[3],
      k_raw |-> projection[4], v_raw |-> projection[5], q_norm |-> projection[5 + g],
      k_norm |-> projection[6 + g], v |-> projection[7 + g], q |-> projection[8 + g],
      k |-> projection[9 + g], kstore |-> DoAppends(l)[1], vstore |-> DoAppends(l)[2],
      q8 |-> AttendLinear(l)[1],
      attn |-> IF Kind[l] = "sliding" THEN AttendRing(l)[1] ELSE AttendLinear(l)[2],
      ao8 |-> output[1], o |-> output[2], on |-> output[3], x2 |-> output[4],
      fin |-> ffn[1], fin8 |-> ffn[2], gate |-> ffn[3], up |-> ffn[4], gu |-> ffn[5],
      gu8 |-> ffn[6], f |-> ffn[7], fn2 |-> ffn[8], out |-> ffn[9]]

Call(bk, l) == IF bk = "decode" THEN DecodeCall(l) ELSE PrefillCall(l)

(* How the parts of a decode layer follow each other.                       *)
LEMMA DecodeParts ==
  ASSUME NEW l \in Layers, NEW g, g = Shift(Kind[l])
  PROVE  /\ Len(RecordLayer(l)) = 22 + g /\ DOMAIN RecordLayer(l) = 1 .. 22 + g
         /\ \A j \in 1 .. 8 + g : RecordLayer(l)[j] = DecodeProjections(l)[j]
         /\ \A j \in 1 .. 7 : RecordLayer(l)[8 + g + j] = DecodeAttend(l)[j]
         /\ \A j \in 1 .. 7 : RecordLayer(l)[15 + g + j] = DecodeFfn(l)[j]
<1> USE DEF RecordLayer, DecodeProjections, DecodeAttend, DecodeFfn, Shift
<1>1. CASE Kind[l] = "sliding"
  BY <1>1
<1>2. CASE Kind[l] = "global"
  BY <1>2
<1> HIDE DEF RecordLayer, DecodeProjections, DecodeAttend, DecodeFfn, Shift
<1>3. Kind[l] \in {"sliding", "global"}
  BY LayersAssumption DEF Layers
<1> QED BY ONLY <1>1, <1>2, <1>3

(* Which dispatch of a decode layer is at the place of a stage.             *)
LEMMA DecodeCalls ==
  ASSUME NEW l \in Layers, NEW t \in DOMAIN DecodeCall(l), DecodeRank(Kind[l])[t] # Never
  PROVE  RecordLayer(l)[DecodeRank(Kind[l])[t]] = DecodeCall(l)[t]
<1> DEFINE g == Shift(Kind[l])
           r == DecodeRank(Kind[l])[t]
<1>1. g \in {0, 1} /\ (Kind[l] = "sliding" <=> g = 1)
  BY DEF Shift
<1>2. CASE t \in {"xn", "q_raw", "k_raw", "v_raw", "q_norm", "k_norm", "v", "q", "k"}
  <2>1. r \in 1 .. 8 + g /\ DecodeCall(l)[t] = DecodeProjections(l)[r]
    BY <1>1, <1>2 DEF DecodeCall, DecodeRank, Never
  <2> HIDE DEF r, g
  <2> QED BY <2>1, DecodeParts DEF g, r
<1>3. CASE t \in {"kstore", "vstore", "part", "attn", "o", "on", "x2"}
  <2> DEFINE j == r - (8 + g)
  <2>1. j \in 1 .. 7 /\ DecodeCall(l)[t] = DecodeAttend(l)[j] /\ 8 + g + j = r
    BY <1>1, <1>3 DEF DecodeCall, DecodeRank, Never
  <2> HIDE DEF r, g, j
  <2>2. RecordLayer(l)[8 + g + j] = DecodeAttend(l)[j]
    BY <2>1, DecodeParts DEF g
  <2>3. RecordLayer(l)[r] = DecodeCall(l)[t]
    BY ONLY <2>1, <2>2
  <2> QED BY ONLY <2>3 DEF r
<1>4. CASE t \in {"fin", "gate", "up", "gu", "f", "fn2", "out"}
  <2> DEFINE j == r - (15 + g)
  <2>1. j \in 1 .. 7 /\ DecodeCall(l)[t] = DecodeFfn(l)[j] /\ 15 + g + j = r
    BY <1>1, <1>4 DEF DecodeCall, DecodeRank, Never
  <2> HIDE DEF r, g, j
  <2>2. RecordLayer(l)[15 + g + j] = DecodeFfn(l)[j]
    BY <2>1, DecodeParts DEF g
  <2>3. RecordLayer(l)[r] = DecodeCall(l)[t]
    BY ONLY <2>1, <2>2
  <2> QED BY ONLY <2>3 DEF r
<1> QED BY <1>2, <1>3, <1>4 DEF DecodeCall

(* How the parts of a prefill layer follow each other.                      *)
LEMMA PrefillParts ==
  ASSUME NEW l \in Layers, NEW g, g = Shift(Kind[l])
  PROVE  /\ Len(RecordPrefillLayer(l)) = 26 /\ DOMAIN RecordPrefillLayer(l) = 1 .. 26
         /\ \A j \in 1 .. 9 + g : RecordPrefillLayer(l)[j] = PrefillProjections(l)[j]
         /\ RecordPrefillLayer(l)[10 + g + g] = DoAppends(l)[1]
         /\ RecordPrefillLayer(l)[11 + g + g] = DoAppends(l)[2]
         /\ Kind[l] = "sliding" => RecordPrefillLayer(l)[11] = AttendRing(l)[1]
         /\ Kind[l] = "global" => RecordPrefillLayer(l)[12] = AttendLinear(l)[1]
         /\ Kind[l] = "global" => RecordPrefillLayer(l)[13] = AttendLinear(l)[2]
         /\ \A j \in 1 .. 4 : RecordPrefillLayer(l)[13 + j] = PrefillOutput(l)[j]
         /\ \A j \in 1 .. 9 : RecordPrefillLayer(l)[17 + j] = PrefillFfn(l)[j]
<1> USE DEF RecordPrefillLayer, PrefillProjections, PrefillAttend, DoAppends, AttendRing,
            AttendLinear, PrefillOutput, PrefillFfn, Shift
<1>1. CASE Kind[l] = "sliding"
  BY <1>1
<1>2. CASE Kind[l] = "global"
  BY <1>2
<1> HIDE DEF RecordPrefillLayer, PrefillProjections, PrefillAttend, DoAppends, AttendRing,
             AttendLinear, PrefillOutput, PrefillFfn, Shift
<1>3. Kind[l] \in {"sliding", "global"}
  BY LayersAssumption DEF Layers
<1> QED BY ONLY <1>1, <1>2, <1>3

(* Which dispatch of a prefill layer is at the place of a stage.            *)
LEMMA PrefillCalls ==
  ASSUME NEW l \in Layers, NEW t \in DOMAIN PrefillCall(l), PrefillRank(Kind[l])[t] # Never
  PROVE  RecordPrefillLayer(l)[PrefillRank(Kind[l])[t]] = PrefillCall(l)[t]
<1> DEFINE g == Shift(Kind[l])
           r == PrefillRank(Kind[l])[t]
<1>1. g \in {0, 1} /\ (Kind[l] = "sliding" <=> g = 1) /\ Kind[l] \in {"sliding", "global"}
  BY LayersAssumption DEF Shift, Layers
<1>2. CASE t \in {"xn", "xn8", "q_raw", "k_raw", "v_raw", "q_norm", "k_norm", "v", "q", "k"}
  <2>1. r \in 1 .. 9 + g /\ PrefillCall(l)[t] = PrefillProjections(l)[r]
    BY <1>1, <1>2 DEF PrefillCall, PrefillRank, Never
  <2> HIDE DEF r, g
  <2> QED BY <2>1, PrefillParts DEF g, r
<1>3. CASE t \in {"kstore", "vstore"}
  <2>1. \/ r = 10 + g + g /\ PrefillCall(l)[t] = DoAppends(l)[1]
        \/ r = 11 + g + g /\ PrefillCall(l)[t] = DoAppends(l)[2]
    BY <1>3 DEF PrefillCall, PrefillRank
  <2> HIDE DEF r, g
  <2> QED BY <2>1, PrefillParts DEF g, r
<1>4. CASE t \in {"q8", "attn"}
  <2>1. /\ Kind[l] = "sliding" => r = 11 /\ PrefillCall(l)[t] = AttendRing(l)[1]
        /\ Kind[l] = "global" => \/ r = 12 /\ PrefillCall(l)[t] = AttendLinear(l)[1]
                                 \/ r = 13 /\ PrefillCall(l)[t] = AttendLinear(l)[2]
    BY <1>1, <1>4 DEF PrefillCall, PrefillRank, Never
  <2> HIDE DEF r, g
  <2> QED BY <1>1, <2>1, PrefillParts DEF g, r
<1>5. CASE t \in {"ao8", "o", "on", "x2"}
  <2> DEFINE j == r - 13
  <2>1. j \in 1 .. 4 /\ PrefillCall(l)[t] = PrefillOutput(l)[j] /\ 13 + j = r
    BY <1>5 DEF PrefillCall, PrefillRank
  <2> HIDE DEF r, j
  <2>2. RecordPrefillLayer(l)[13 + j] = PrefillOutput(l)[j]
    BY <2>1, PrefillParts
  <2>3. RecordPrefillLayer(l)[r] = PrefillCall(l)[t]
    BY ONLY <2>1, <2>2
  <2> QED BY ONLY <2>3 DEF r
<1>6. CASE t \in {"fin", "fin8", "gate", "up", "gu", "gu8", "f", "fn2", "out"}
  <2> DEFINE j == r - 17
  <2>1. j \in 1 .. 9 /\ PrefillCall(l)[t] = PrefillFfn(l)[j] /\ 17 + j = r
    BY <1>6 DEF PrefillCall, PrefillRank
  <2> HIDE DEF r, j
  <2>2. RecordPrefillLayer(l)[17 + j] = PrefillFfn(l)[j]
    BY <2>1, PrefillParts
  <2>3. RecordPrefillLayer(l)[r] = PrefillCall(l)[t]
    BY ONLY <2>1, <2>2
  <2> QED BY ONLY <2>3 DEF r
<1> QED BY <1>2, <1>3, <1>4, <1>5, <1>6 DEF PrefillCall

-----------------------------------------------------------------------------
(* Every dispatch of a decode layer reads and writes the buffers of its     *)
(* stage, in the formats they have, and computes what the oracle does       *)
(* there.                                                                   *)
LEMMA DecodeDispatches ==
  ASSUME NEW l \in Layers, NEW t \in DOMAIN DecodeCall(l) \ {"kstore", "vstore", "part"},
         t = "v_raw" => Kind[l] = "sliding"
  PROVE  Wired("decode", l, t, DecodeCall(l)[t]) /\ \A ctx : Meant("decode", l, ctx, t, DecodeCall(l)[t])
<1> SUFFICES ASSUME NEW ctx
             PROVE  Wired("decode", l, t, DecodeCall(l)[t]) /\ Meant("decode", l, ctx, t, DecodeCall(l)[t])
  OBVIOUS
<1> DEFINE k == Kind[l]
           g == Shift(k)
           Is(s, d) == Wired("decode", l, s, d) /\ Meant("decode", l, ctx, s, d)
<1>k. k \in {"sliding", "global"} /\ (k = "sliding" => g = 1) /\ (k = "global" => g = 0)
  BY LayersAssumption DEF Layers, Shift
<1>1. Is("xn", DecodeProjections(l)[1])
  <2> DEFINE call == D(RmsNorm(Hidden, 1), W("attn_norm", l), <<B("x")>>, B("xn"))
  <2>1. DecodeProjections(l)[1] = call
    BY DEF DecodeProjections
  <2>2. Wired("decode", l, "xn", call)
    <3>1. PICK feeds, slots : feeds = Feeds("decode", Kind[l])["xn"] /\ slots = Slot("decode", l)
      OBVIOUS
    <3>2. WiredBy(l, "xn", call, feeds, slots)
      BY <1>k, <3>1, SMTT(30) DEF WiredBy, Slot, Feeds, Form, Quants, D, Kernel, RmsNorm
    <3> HIDE DEF call
    <3> QED BY ONLY <3>1, <3>2, Zenon DEF Wired
  <2>3. Meant("decode", l, ctx, "xn", call)
    <3>1. PICK feeds, computed : feeds = Feeds("decode", Kind[l])["xn"] /\ computed = Computed(l, ctx)["xn"]
      OBVIOUS
    <3>2. MeantBy("decode", l, ctx, "xn", call, feeds, computed)
      BY <1>k, <3>1 DEF MeantBy, Feeds, Of, Copied, Node, Computed, Quants, D, Kernel, RmsNorm
    <3> HIDE DEF call
    <3> QED BY ONLY <3>1, <3>2, Zenon DEF Meant
  <2> HIDE DEF call, g, k
  <2> QED BY <2>1, <2>2, <2>3
<1>2. Is("q_raw", DecodeProjections(l)[2])
  <2> DEFINE call == D(Gemv(Hidden, QDim(k)), W("attn_q", l), <<B("xn")>>, For(B("q_raw"), k))
  <2>1. DecodeProjections(l)[2] = call
    BY DEF DecodeProjections
  <2>2. Wired("decode", l, "q_raw", call)
    <3>1. PICK feeds, slots : feeds = Feeds("decode", Kind[l])["q_raw"] /\ slots = Slot("decode", l)
      OBVIOUS
    <3>2. WiredBy(l, "q_raw", call, feeds, slots)
      BY <1>k, <3>1, SMTT(30) DEF WiredBy, Slot, Feeds, Form, Quants, D, Kernel, Gemv
    <3> HIDE DEF call
    <3> QED BY ONLY <3>1, <3>2, Zenon DEF Wired
  <2>3. Meant("decode", l, ctx, "q_raw", call)
    <3>1. PICK feeds, computed : feeds = Feeds("decode", Kind[l])["q_raw"] /\ computed = Computed(l, ctx)["q_raw"]
      OBVIOUS
    <3>2. MeantBy("decode", l, ctx, "q_raw", call, feeds, computed)
      BY <1>k, <3>1 DEF MeantBy, Feeds, Of, Copied, Node, Computed, Quants, D, Kernel, Gemv
    <3> HIDE DEF call
    <3> QED BY ONLY <3>1, <3>2, Zenon DEF Meant
  <2> HIDE DEF call, g, k
  <2> QED BY <2>1, <2>2, <2>3
<1>3. Is("k_raw", DecodeProjections(l)[3])
  <2> DEFINE call == D(Gemv(Hidden, KvDim(k)), W("attn_k", l), <<B("xn")>>, For(B("kp"), k))
  <2>1. DecodeProjections(l)[3] = call
    BY DEF DecodeProjections
  <2>2. Wired("decode", l, "k_raw", call)
    <3>1. PICK feeds, slots : feeds = Feeds("decode", Kind[l])["k_raw"] /\ slots = Slot("decode", l)
      OBVIOUS
    <3>2. WiredBy(l, "k_raw", call, feeds, slots)
      BY <1>k, <3>1, SMTT(30) DEF WiredBy, Slot, Feeds, Form, Quants, D, Kernel, Gemv
    <3> HIDE DEF call
    <3> QED BY ONLY <3>1, <3>2, Zenon DEF Wired
  <2>3. Meant("decode", l, ctx, "k_raw", call)
    <3>1. PICK feeds, computed : feeds = Feeds("decode", Kind[l])["k_raw"] /\ computed = Computed(l, ctx)["k_raw"]
      OBVIOUS
    <3>2. MeantBy("decode", l, ctx, "k_raw", call, feeds, computed)
      BY <1>k, <3>1 DEF MeantBy, Feeds, Of, Copied, Node, Computed, Quants, D, Kernel, Gemv
    <3> HIDE DEF call
    <3> QED BY ONLY <3>1, <3>2, Zenon DEF Meant
  <2> HIDE DEF call, g, k
  <2> QED BY <2>1, <2>2, <2>3
<1>4. k = "sliding" => Is("v_raw", DecodeProjections(l)[4])
  <2> DEFINE call == D(Gemv(Hidden, KvDim(k)), W("attn_v", l), <<B("xn")>>, For(B("vp"), k))
  <2>1. k = "sliding" => DecodeProjections(l)[4] = call
    BY DEF DecodeProjections
  <2>2. ASSUME k = "sliding"
        PROVE  Wired("decode", l, "v_raw", call)
    <3>1. PICK feeds, slots : feeds = Feeds("decode", Kind[l])["v_raw"] /\ slots = Slot("decode", l)
      OBVIOUS
    <3>2. WiredBy(l, "v_raw", call, feeds, slots)
      BY <1>k, <2>2, <3>1, SMTT(30) DEF WiredBy, Slot, Feeds, Form, Quants, D, Kernel, Gemv
    <3> HIDE DEF call
    <3> QED BY ONLY <3>1, <3>2, Zenon DEF Wired
  <2>3. ASSUME k = "sliding"
        PROVE  Meant("decode", l, ctx, "v_raw", call)
    <3>1. PICK feeds, computed : feeds = Feeds("decode", Kind[l])["v_raw"] /\ computed = Computed(l, ctx)["v_raw"]
      OBVIOUS
    <3>2. MeantBy("decode", l, ctx, "v_raw", call, feeds, computed)
      BY <1>k, <2>3, <3>1 DEF MeantBy, Feeds, Of, Copied, Node, Computed, Quants, D, Kernel, Gemv
    <3> HIDE DEF call
    <3> QED BY ONLY <3>1, <3>2, Zenon DEF Meant
  <2> HIDE DEF call, g, k
  <2> QED BY <2>1, <2>2, <2>3
<1>5. Is("q_norm", DecodeProjections(l)[4 + g])
  <2> DEFINE call == D(RmsNorm(HeadDim(k), QHeads), W("attn_q_norm", l),
                       <<For(B("q_raw"), k)>>, For(B("q"), k))
  <2>1. k = "sliding" => DecodeProjections(l)[5] = call
    BY DEF DecodeProjections
  <2>2. k = "global" => DecodeProjections(l)[4] = call
    BY DEF DecodeProjections
  <2>3. Wired("decode", l, "q_norm", call)
    <3>1. PICK feeds, slots : feeds = Feeds("decode", Kind[l])["q_norm"] /\ slots = Slot("decode", l)
      OBVIOUS
    <3>2. WiredBy(l, "q_norm", call, feeds, slots)
      BY <1>k, <3>1, SMTT(30) DEF WiredBy, Slot, Feeds, Form, Quants, D, Kernel, RmsNorm
    <3> HIDE DEF call
    <3> QED BY ONLY <3>1, <3>2, Zenon DEF Wired
  <2>4. Meant("decode", l, ctx, "q_norm", call)
    <3>1. PICK feeds, computed : feeds = Feeds("decode", Kind[l])["q_norm"] /\ computed = Computed(l, ctx)["q_norm"]
      OBVIOUS
    <3>2. MeantBy("decode", l, ctx, "q_norm", call, feeds, computed)
      BY <1>k, <3>1 DEF MeantBy, Feeds, Of, Copied, Node, Computed, Quants, D, Kernel, RmsNorm
    <3> HIDE DEF call
    <3> QED BY ONLY <3>1, <3>2, Zenon DEF Meant
  <2> HIDE DEF call, g, k
  <2> QED BY <1>k, <2>1, <2>2, <2>3, <2>4
<1>6. Is("k_norm", DecodeProjections(l)[5 + g])
  <2> DEFINE call == D(RmsNorm(HeadDim(k), KvHeads(k)), W("attn_k_norm", l),
                       <<For(B("kp"), k)>>, For(B("k"), k))
  <2>1. k = "sliding" => DecodeProjections(l)[6] = call
    BY DEF DecodeProjections
  <2>2. k = "global" => DecodeProjections(l)[5] = call
    BY DEF DecodeProjections
  <2>3. Wired("decode", l, "k_norm", call)
    <3>1. PICK feeds, slots : feeds = Feeds("decode", Kind[l])["k_norm"] /\ slots = Slot("decode", l)
      OBVIOUS
    <3>2. WiredBy(l, "k_norm", call, feeds, slots)
      BY <1>k, <3>1, SMTT(30) DEF WiredBy, Slot, Feeds, Form, Quants, D, Kernel, RmsNorm
    <3> HIDE DEF call
    <3> QED BY ONLY <3>1, <3>2, Zenon DEF Wired
  <2>4. Meant("decode", l, ctx, "k_norm", call)
    <3>1. PICK feeds, computed : feeds = Feeds("decode", Kind[l])["k_norm"] /\ computed = Computed(l, ctx)["k_norm"]
      OBVIOUS
    <3>2. MeantBy("decode", l, ctx, "k_norm", call, feeds, computed)
      BY <1>k, <3>1 DEF MeantBy, Feeds, Of, Copied, Node, Computed, Quants, D, Kernel, RmsNorm
    <3> HIDE DEF call
    <3> QED BY ONLY <3>1, <3>2, Zenon DEF Meant
  <2> HIDE DEF call, g, k
  <2> QED BY <1>k, <2>1, <2>2, <2>3, <2>4
<1>7. Is("v", DecodeProjections(l)[6 + g])
  <2> DEFINE call == D(RmsNorm(HeadDim(k), KvHeads(k)), NormOnes,
                       <<IF k = "sliding" THEN For(B("vp"), k) ELSE For(B("kp"), k)>>, For(B("v"), k))
  <2>1. k = "sliding" => DecodeProjections(l)[7] = call
    BY DEF DecodeProjections
  <2>2. k = "global" => DecodeProjections(l)[6] = call
    BY DEF DecodeProjections
  <2>3. Wired("decode", l, "v", call)
    <3>1. PICK feeds, slots : feeds = Feeds("decode", Kind[l])["v"] /\ slots = Slot("decode", l)
      OBVIOUS
    <3>2. WiredBy(l, "v", call, feeds, slots)
      BY <1>k, <3>1, SMTT(30) DEF WiredBy, Slot, Feeds, Form, Quants, D, Kernel, RmsNorm
    <3> HIDE DEF call
    <3> QED BY ONLY <3>1, <3>2, Zenon DEF Wired
  <2>4. Meant("decode", l, ctx, "v", call)
    <3>1. PICK feeds, computed : feeds = Feeds("decode", Kind[l])["v"] /\ computed = Computed(l, ctx)["v"]
      OBVIOUS
    <3>2. MeantBy("decode", l, ctx, "v", call, feeds, computed)
      BY <1>k, <3>1 DEF MeantBy, Feeds, Of, Copied, Node, Computed, Quants, D, Kernel, RmsNorm
    <3> HIDE DEF call
    <3> QED BY ONLY <3>1, <3>2, Zenon DEF Meant
  <2> HIDE DEF call, g, k
  <2> QED BY <1>k, <2>1, <2>2, <2>3, <2>4
<1>8. Is("q", DecodeProjections(l)[7 + g])
  <2> DEFINE call == D(Rotate(k, QHeads), NoWeight, <<For(B("q"), k), For(B("cs"), k)>>, For(B("q"), k))
  <2>1. k = "sliding" => DecodeProjections(l)[8] = call
    BY DEF DecodeProjections
  <2>2. k = "global" => DecodeProjections(l)[7] = call
    BY DEF DecodeProjections
  <2>3. Wired("decode", l, "q", call)
    <3>1. PICK feeds, slots : feeds = Feeds("decode", Kind[l])["q"] /\ slots = Slot("decode", l)
      OBVIOUS
    <3>2. WiredBy(l, "q", call, feeds, slots)
      BY <1>k, <3>1, SMTT(30) DEF WiredBy, Slot, Feeds, Form, Quants, D, Kernel, Rotate
    <3> HIDE DEF call
    <3> QED BY ONLY <3>1, <3>2, Zenon DEF Wired
  <2>4. Meant("decode", l, ctx, "q", call)
    <3>1. PICK feeds, computed : feeds = Feeds("decode", Kind[l])["q"] /\ computed = Computed(l, ctx)["q"]
      OBVIOUS
    <3>2. MeantBy("decode", l, ctx, "q", call, feeds, computed)
      BY <1>k, <3>1 DEF MeantBy, Feeds, Of, Copied, Node, Computed, Quants, D, Kernel, Rotate
    <3> HIDE DEF call
    <3> QED BY ONLY <3>1, <3>2, Zenon DEF Meant
  <2> HIDE DEF call, g, k
  <2> QED BY <1>k, <2>1, <2>2, <2>3, <2>4
<1>9. Is("k", DecodeProjections(l)[8 + g])
  <2> DEFINE call == D(Rotate(k, KvHeads(k)), NoWeight, <<For(B("k"), k), For(B("cs"), k)>>, For(B("k"), k))
  <2>1. k = "sliding" => DecodeProjections(l)[9] = call
    BY DEF DecodeProjections
  <2>2. k = "global" => DecodeProjections(l)[8] = call
    BY DEF DecodeProjections
  <2>3. Wired("decode", l, "k", call)
    <3>1. PICK feeds, slots : feeds = Feeds("decode", Kind[l])["k"] /\ slots = Slot("decode", l)
      OBVIOUS
    <3>2. WiredBy(l, "k", call, feeds, slots)
      BY <1>k, <3>1, SMTT(30) DEF WiredBy, Slot, Feeds, Form, Quants, D, Kernel, Rotate
    <3> HIDE DEF call
    <3> QED BY ONLY <3>1, <3>2, Zenon DEF Wired
  <2>4. Meant("decode", l, ctx, "k", call)
    <3>1. PICK feeds, computed : feeds = Feeds("decode", Kind[l])["k"] /\ computed = Computed(l, ctx)["k"]
      OBVIOUS
    <3>2. MeantBy("decode", l, ctx, "k", call, feeds, computed)
      BY <1>k, <3>1 DEF MeantBy, Feeds, Of, Copied, Node, Computed, Quants, D, Kernel, Rotate
    <3> HIDE DEF call
    <3> QED BY ONLY <3>1, <3>2, Zenon DEF Meant
  <2> HIDE DEF call, g, k
  <2> QED BY <1>k, <2>1, <2>2, <2>3, <2>4
<1>10. Is("attn", DecodeAttend(l)[4])
  <2> DEFINE call == D(Reduce(k), NoWeight, <<For(B("part"), k)>>, For(B("attn"), k))
  <2>1. DecodeAttend(l)[4] = call
    BY DEF DecodeAttend
  <2>2. Wired("decode", l, "attn", call)
    <3>1. PICK feeds, slots : feeds = Feeds("decode", Kind[l])["attn"] /\ slots = Slot("decode", l)
      OBVIOUS
    <3>2. WiredBy(l, "attn", call, feeds, slots)
      BY <1>k, <3>1, SMTT(30) DEF WiredBy, Slot, Feeds, Form, Quants, D, Kernel, Reduce, Partial
    <3> HIDE DEF call
    <3> QED BY ONLY <3>1, <3>2, Zenon DEF Wired
  <2>3. Meant("decode", l, ctx, "attn", call)
    <3>1. PICK feeds, computed : feeds = Feeds("decode", Kind[l])["attn"] /\ computed = Computed(l, ctx)["attn"]
      OBVIOUS
    <3>2. MeantBy("decode", l, ctx, "attn", call, feeds, computed)
      BY <1>k, <3>1 DEF MeantBy, Feeds, Of, Copied, Node, Computed, Quants, D, Kernel, Reduce, Partial
    <3> HIDE DEF call
    <3> QED BY ONLY <3>1, <3>2, Zenon DEF Meant
  <2> HIDE DEF call, g, k
  <2> QED BY <2>1, <2>2, <2>3
<1>11. Is("o", DecodeAttend(l)[5])
  <2> DEFINE call == D(Gemv(WoWidth(k), Hidden), W("attn_output", l), <<For(B("attn"), k)>>, B("o"))
  <2>1. DecodeAttend(l)[5] = call
    BY DEF DecodeAttend
  <2>2. Wired("decode", l, "o", call)
    <3>1. PICK feeds, slots : feeds = Feeds("decode", Kind[l])["o"] /\ slots = Slot("decode", l)
      OBVIOUS
    <3>2. WiredBy(l, "o", call, feeds, slots)
      BY <1>k, <3>1, SMTT(30) DEF WiredBy, Slot, Feeds, Form, Quants, D, Kernel, Gemv, WoWidth, QDim, HeadDim, QHeads
    <3> HIDE DEF call
    <3> QED BY ONLY <3>1, <3>2, Zenon DEF Wired
  <2>3. Meant("decode", l, ctx, "o", call)
    <3>1. PICK feeds, computed : feeds = Feeds("decode", Kind[l])["o"] /\ computed = Computed(l, ctx)["o"]
      OBVIOUS
    <3>2. MeantBy("decode", l, ctx, "o", call, feeds, computed)
      BY <1>k, <3>1 DEF MeantBy, Feeds, Of, Copied, Node, Computed, Quants, D, Kernel, Gemv, WoWidth, QDim, HeadDim, QHeads
    <3> HIDE DEF call
    <3> QED BY ONLY <3>1, <3>2, Zenon DEF Meant
  <2> HIDE DEF call, g, k
  <2> QED BY <2>1, <2>2, <2>3
<1>12. Is("on", DecodeAttend(l)[6])
  <2> DEFINE call == D(RmsNorm(Hidden, 1), W("post_attention_norm", l), <<B("o")>>, B("on"))
  <2>1. DecodeAttend(l)[6] = call
    BY DEF DecodeAttend
  <2>2. Wired("decode", l, "on", call)
    <3>1. PICK feeds, slots : feeds = Feeds("decode", Kind[l])["on"] /\ slots = Slot("decode", l)
      OBVIOUS
    <3>2. WiredBy(l, "on", call, feeds, slots)
      BY <1>k, <3>1, SMTT(30) DEF WiredBy, Slot, Feeds, Form, Quants, D, Kernel, RmsNorm
    <3> HIDE DEF call
    <3> QED BY ONLY <3>1, <3>2, Zenon DEF Wired
  <2>3. Meant("decode", l, ctx, "on", call)
    <3>1. PICK feeds, computed : feeds = Feeds("decode", Kind[l])["on"] /\ computed = Computed(l, ctx)["on"]
      OBVIOUS
    <3>2. MeantBy("decode", l, ctx, "on", call, feeds, computed)
      BY <1>k, <3>1 DEF MeantBy, Feeds, Of, Copied, Node, Computed, Quants, D, Kernel, RmsNorm
    <3> HIDE DEF call
    <3> QED BY ONLY <3>1, <3>2, Zenon DEF Meant
  <2> HIDE DEF call, g, k
  <2> QED BY <2>1, <2>2, <2>3
<1>13. Is("x2", DecodeAttend(l)[7])
  <2> DEFINE call == D(Add, NoWeight, <<B("x"), B("on")>>, B("x2"))
  <2>1. DecodeAttend(l)[7] = call
    BY DEF DecodeAttend
  <2>2. Wired("decode", l, "x2", call)
    <3>1. PICK feeds, slots : feeds = Feeds("decode", Kind[l])["x2"] /\ slots = Slot("decode", l)
      OBVIOUS
    <3>2. WiredBy(l, "x2", call, feeds, slots)
      BY <1>k, <3>1, SMTT(30) DEF WiredBy, Slot, Feeds, Form, Quants, D, Kernel, Add
    <3> HIDE DEF call
    <3> QED BY ONLY <3>1, <3>2, Zenon DEF Wired
  <2>3. Meant("decode", l, ctx, "x2", call)
    <3>1. PICK feeds, computed : feeds = Feeds("decode", Kind[l])["x2"] /\ computed = Computed(l, ctx)["x2"]
      OBVIOUS
    <3>2. MeantBy("decode", l, ctx, "x2", call, feeds, computed)
      BY <1>k, <3>1 DEF MeantBy, Feeds, Of, Copied, Node, Computed, Quants, D, Kernel, Add
    <3> HIDE DEF call
    <3> QED BY ONLY <3>1, <3>2, Zenon DEF Meant
  <2> HIDE DEF call, g, k
  <2> QED BY <2>1, <2>2, <2>3
<1>14. Is("fin", DecodeFfn(l)[1])
  <2> DEFINE call == D(RmsNorm(Hidden, 1), W("ffn_norm", l), <<B("x2")>>, B("fin"))
  <2>1. DecodeFfn(l)[1] = call
    BY DEF DecodeFfn
  <2>2. Wired("decode", l, "fin", call)
    <3>1. PICK feeds, slots : feeds = Feeds("decode", Kind[l])["fin"] /\ slots = Slot("decode", l)
      OBVIOUS
    <3>2. WiredBy(l, "fin", call, feeds, slots)
      BY <1>k, <3>1, SMTT(30) DEF WiredBy, Slot, Feeds, Form, Quants, D, Kernel, RmsNorm
    <3> HIDE DEF call
    <3> QED BY ONLY <3>1, <3>2, Zenon DEF Wired
  <2>3. Meant("decode", l, ctx, "fin", call)
    <3>1. PICK feeds, computed : feeds = Feeds("decode", Kind[l])["fin"] /\ computed = Computed(l, ctx)["fin"]
      OBVIOUS
    <3>2. MeantBy("decode", l, ctx, "fin", call, feeds, computed)
      BY <1>k, <3>1 DEF MeantBy, Feeds, Of, Copied, Node, Computed, Quants, D, Kernel, RmsNorm
    <3> HIDE DEF call
    <3> QED BY ONLY <3>1, <3>2, Zenon DEF Meant
  <2> HIDE DEF call, g, k
  <2> QED BY <2>1, <2>2, <2>3
<1>15. Is("gate", DecodeFfn(l)[2])
  <2> DEFINE call == D(Gemv(Hidden, Ffn), W("ffn_gate", l), <<B("fin")>>, B("g"))
  <2>1. DecodeFfn(l)[2] = call
    BY DEF DecodeFfn
  <2>2. Wired("decode", l, "gate", call)
    <3>1. PICK feeds, slots : feeds = Feeds("decode", Kind[l])["gate"] /\ slots = Slot("decode", l)
      OBVIOUS
    <3>2. WiredBy(l, "gate", call, feeds, slots)
      BY <1>k, <3>1, SMTT(30) DEF WiredBy, Slot, Feeds, Form, Quants, D, Kernel, Gemv
    <3> HIDE DEF call
    <3> QED BY ONLY <3>1, <3>2, Zenon DEF Wired
  <2>3. Meant("decode", l, ctx, "gate", call)
    <3>1. PICK feeds, computed : feeds = Feeds("decode", Kind[l])["gate"] /\ computed = Computed(l, ctx)["gate"]
      OBVIOUS
    <3>2. MeantBy("decode", l, ctx, "gate", call, feeds, computed)
      BY <1>k, <3>1 DEF MeantBy, Feeds, Of, Copied, Node, Computed, Quants, D, Kernel, Gemv
    <3> HIDE DEF call
    <3> QED BY ONLY <3>1, <3>2, Zenon DEF Meant
  <2> HIDE DEF call, g, k
  <2> QED BY <2>1, <2>2, <2>3
<1>16. Is("up", DecodeFfn(l)[3])
  <2> DEFINE call == D(Gemv(Hidden, Ffn), W("ffn_up", l), <<B("fin")>>, B("u"))
  <2>1. DecodeFfn(l)[3] = call
    BY DEF DecodeFfn
  <2>2. Wired("decode", l, "up", call)
    <3>1. PICK feeds, slots : feeds = Feeds("decode", Kind[l])["up"] /\ slots = Slot("decode", l)
      OBVIOUS
    <3>2. WiredBy(l, "up", call, feeds, slots)
      BY <1>k, <3>1, SMTT(30) DEF WiredBy, Slot, Feeds, Form, Quants, D, Kernel, Gemv
    <3> HIDE DEF call
    <3> QED BY ONLY <3>1, <3>2, Zenon DEF Wired
  <2>3. Meant("decode", l, ctx, "up", call)
    <3>1. PICK feeds, computed : feeds = Feeds("decode", Kind[l])["up"] /\ computed = Computed(l, ctx)["up"]
      OBVIOUS
    <3>2. MeantBy("decode", l, ctx, "up", call, feeds, computed)
      BY <1>k, <3>1 DEF MeantBy, Feeds, Of, Copied, Node, Computed, Quants, D, Kernel, Gemv
    <3> HIDE DEF call
    <3> QED BY ONLY <3>1, <3>2, Zenon DEF Meant
  <2> HIDE DEF call, g, k
  <2> QED BY <2>1, <2>2, <2>3
<1>17. Is("gu", DecodeFfn(l)[4])
  <2> DEFINE call == D(Gelu, NoWeight, <<B("g"), B("u")>>, B("gu"))
  <2>1. DecodeFfn(l)[4] = call
    BY DEF DecodeFfn
  <2>2. Wired("decode", l, "gu", call)
    <3>1. PICK feeds, slots : feeds = Feeds("decode", Kind[l])["gu"] /\ slots = Slot("decode", l)
      OBVIOUS
    <3>2. WiredBy(l, "gu", call, feeds, slots)
      BY <1>k, <3>1, SMTT(30) DEF WiredBy, Slot, Feeds, Form, Quants, D, Kernel, Gelu
    <3> HIDE DEF call
    <3> QED BY ONLY <3>1, <3>2, Zenon DEF Wired
  <2>3. Meant("decode", l, ctx, "gu", call)
    <3>1. PICK feeds, computed : feeds = Feeds("decode", Kind[l])["gu"] /\ computed = Computed(l, ctx)["gu"]
      OBVIOUS
    <3>2. MeantBy("decode", l, ctx, "gu", call, feeds, computed)
      BY <1>k, <3>1 DEF MeantBy, Feeds, Of, Copied, Node, Computed, Quants, D, Kernel, Gelu
    <3> HIDE DEF call
    <3> QED BY ONLY <3>1, <3>2, Zenon DEF Meant
  <2> HIDE DEF call, g, k
  <2> QED BY <2>1, <2>2, <2>3
<1>18. Is("f", DecodeFfn(l)[5])
  <2> DEFINE call == D(Gemv(Ffn, Hidden), W("ffn_down", l), <<B("gu")>>, B("f"))
  <2>1. DecodeFfn(l)[5] = call
    BY DEF DecodeFfn
  <2>2. Wired("decode", l, "f", call)
    <3>1. PICK feeds, slots : feeds = Feeds("decode", Kind[l])["f"] /\ slots = Slot("decode", l)
      OBVIOUS
    <3>2. WiredBy(l, "f", call, feeds, slots)
      BY <1>k, <3>1, SMTT(30) DEF WiredBy, Slot, Feeds, Form, Quants, D, Kernel, Gemv
    <3> HIDE DEF call
    <3> QED BY ONLY <3>1, <3>2, Zenon DEF Wired
  <2>3. Meant("decode", l, ctx, "f", call)
    <3>1. PICK feeds, computed : feeds = Feeds("decode", Kind[l])["f"] /\ computed = Computed(l, ctx)["f"]
      OBVIOUS
    <3>2. MeantBy("decode", l, ctx, "f", call, feeds, computed)
      BY <1>k, <3>1 DEF MeantBy, Feeds, Of, Copied, Node, Computed, Quants, D, Kernel, Gemv
    <3> HIDE DEF call
    <3> QED BY ONLY <3>1, <3>2, Zenon DEF Meant
  <2> HIDE DEF call, g, k
  <2> QED BY <2>1, <2>2, <2>3
<1>19. Is("fn2", DecodeFfn(l)[6])
  <2> DEFINE call == D(RmsNorm(Hidden, 1), W("post_ffw_norm", l), <<B("f")>>, B("fn2"))
  <2>1. DecodeFfn(l)[6] = call
    BY DEF DecodeFfn
  <2>2. Wired("decode", l, "fn2", call)
    <3>1. PICK feeds, slots : feeds = Feeds("decode", Kind[l])["fn2"] /\ slots = Slot("decode", l)
      OBVIOUS
    <3>2. WiredBy(l, "fn2", call, feeds, slots)
      BY <1>k, <3>1, SMTT(30) DEF WiredBy, Slot, Feeds, Form, Quants, D, Kernel, RmsNorm
    <3> HIDE DEF call
    <3> QED BY ONLY <3>1, <3>2, Zenon DEF Wired
  <2>3. Meant("decode", l, ctx, "fn2", call)
    <3>1. PICK feeds, computed : feeds = Feeds("decode", Kind[l])["fn2"] /\ computed = Computed(l, ctx)["fn2"]
      OBVIOUS
    <3>2. MeantBy("decode", l, ctx, "fn2", call, feeds, computed)
      BY <1>k, <3>1 DEF MeantBy, Feeds, Of, Copied, Node, Computed, Quants, D, Kernel, RmsNorm
    <3> HIDE DEF call
    <3> QED BY ONLY <3>1, <3>2, Zenon DEF Meant
  <2> HIDE DEF call, g, k
  <2> QED BY <2>1, <2>2, <2>3
<1>20. Is("out", DecodeFfn(l)[7])
  <2> DEFINE call == D(Add, W("layer_output_scale", l), <<B("x2"), B("fn2")>>, B("x"))
  <2>1. DecodeFfn(l)[7] = call
    BY DEF DecodeFfn
  <2>2. Wired("decode", l, "out", call)
    <3>1. PICK feeds, slots : feeds = Feeds("decode", Kind[l])["out"] /\ slots = Slot("decode", l)
      OBVIOUS
    <3>2. WiredBy(l, "out", call, feeds, slots)
      BY <1>k, <3>1, SMTT(30) DEF WiredBy, Slot, Feeds, Form, Quants, D, Kernel, Add
    <3> HIDE DEF call
    <3> QED BY ONLY <3>1, <3>2, Zenon DEF Wired
  <2>3. Meant("decode", l, ctx, "out", call)
    <3>1. PICK feeds, computed : feeds = Feeds("decode", Kind[l])["out"] /\ computed = Computed(l, ctx)["out"]
      OBVIOUS
    <3>2. MeantBy("decode", l, ctx, "out", call, feeds, computed)
      BY <1>k, <3>1 DEF MeantBy, Feeds, Of, Copied, Node, Computed, Quants, D, Kernel, Add
    <3> HIDE DEF call
    <3> QED BY ONLY <3>1, <3>2, Zenon DEF Meant
  <2> HIDE DEF call, g, k
  <2> QED BY <2>1, <2>2, <2>3
<1> HIDE DEF Is
<1> Is(t, DecodeCall(l)[t])
  BY <1>k, <1>1, <1>2, <1>3, <1>4, <1>5, <1>6, <1>7, <1>8, <1>9, <1>10, <1>11,
     <1>12, <1>13, <1>14, <1>15, <1>16, <1>17, <1>18, <1>19, <1>20 DEF DecodeCall
<1> QED BY DEF Is

(* So does every dispatch of a prefill layer, or it quantises.              *)
LEMMA PrefillDispatches ==
  ASSUME NEW l \in Layers, NEW t \in DOMAIN PrefillCall(l) \ {"kstore", "vstore", "attn"},
         t = "v_raw" => Kind[l] = "sliding", t = "q8" => Kind[l] = "global"
  PROVE  Wired("prefill", l, t, PrefillCall(l)[t]) /\ \A ctx : Meant("prefill", l, ctx, t, PrefillCall(l)[t])
<1> SUFFICES ASSUME NEW ctx
             PROVE  Wired("prefill", l, t, PrefillCall(l)[t]) /\ Meant("prefill", l, ctx, t, PrefillCall(l)[t])
  OBVIOUS
<1> DEFINE k == Kind[l]
           g == Shift(k)
           Is(s, d) == Wired("prefill", l, s, d) /\ Meant("prefill", l, ctx, s, d)
<1>k. k \in {"sliding", "global"} /\ (k = "sliding" => g = 1) /\ (k = "global" => g = 0)
  BY LayersAssumption DEF Layers, Shift
<1>1. Is("xn", PrefillProjections(l)[1])
  <2> DEFINE call == D(RmsNorm(Hidden, 1), W("attn_norm", l), <<P("x")>>, P("xn"))
  <2>1. PrefillProjections(l)[1] = call
    BY DEF PrefillProjections
  <2>2. Wired("prefill", l, "xn", call)
    <3>1. PICK feeds, slots : feeds = Feeds("prefill", Kind[l])["xn"] /\ slots = Slot("prefill", l)
      OBVIOUS
    <3>2. WiredBy(l, "xn", call, feeds, slots)
      BY <1>k, <3>1, SMTT(30) DEF WiredBy, Slot, Feeds, Form, Quants, D, Kernel, RmsNorm
    <3> HIDE DEF call
    <3> QED BY ONLY <3>1, <3>2, Zenon DEF Wired
  <2>3. Meant("prefill", l, ctx, "xn", call)
    <3>1. PICK feeds, computed : feeds = Feeds("prefill", Kind[l])["xn"] /\ computed = Computed(l, ctx)["xn"]
      OBVIOUS
    <3>2. MeantBy("prefill", l, ctx, "xn", call, feeds, computed)
      BY <1>k, <3>1 DEF MeantBy, Feeds, Of, Copied, Node, Computed, Quants, D, Kernel, RmsNorm
    <3> HIDE DEF call
    <3> QED BY ONLY <3>1, <3>2, Zenon DEF Meant
  <2> HIDE DEF call, g, k
  <2> QED BY <2>1, <2>2, <2>3
<1>2. Is("xn8", PrefillProjections(l)[2])
  <2> DEFINE call == D(QuantQ8, NoWeight, <<P("xn")>>, Q8(P("xn")))
  <2>1. PrefillProjections(l)[2] = call
    BY DEF PrefillProjections
  <2>2. Wired("prefill", l, "xn8", call)
    <3>1. PICK feeds, slots : feeds = Feeds("prefill", Kind[l])["xn8"] /\ slots = Slot("prefill", l)
      OBVIOUS
    <3>2. WiredBy(l, "xn8", call, feeds, slots)
      BY <1>k, <3>1, SMTT(30) DEF WiredBy, Slot, Feeds, Form, Quants, D, Kernel, QuantQ8
    <3> HIDE DEF call
    <3> QED BY ONLY <3>1, <3>2, Zenon DEF Wired
  <2>3. Meant("prefill", l, ctx, "xn8", call)
    <3>1. PICK feeds, computed : feeds = Feeds("prefill", Kind[l])["xn8"] /\ computed = Computed(l, ctx)["xn8"]
      OBVIOUS
    <3>2. MeantBy("prefill", l, ctx, "xn8", call, feeds, computed)
      BY <1>k, <3>1 DEF MeantBy, Feeds, Of, Copied, Node, Computed, Quants, D, Kernel, QuantQ8
    <3> HIDE DEF call
    <3> QED BY ONLY <3>1, <3>2, Zenon DEF Meant
  <2> HIDE DEF call, g, k
  <2> QED BY <2>1, <2>2, <2>3
<1>3. Is("q_raw", PrefillProjections(l)[3])
  <2> DEFINE call == D(GemmInt8(Hidden, QDim(k)), W("attn_q", l), <<Q8(P("xn"))>>, For(P("q_raw"), k))
  <2>1. PrefillProjections(l)[3] = call
    BY DEF PrefillProjections
  <2>2. Wired("prefill", l, "q_raw", call)
    <3>1. PICK feeds, slots : feeds = Feeds("prefill", Kind[l])["q_raw"] /\ slots = Slot("prefill", l)
      OBVIOUS
    <3>2. WiredBy(l, "q_raw", call, feeds, slots)
      BY <1>k, <3>1, SMTT(30) DEF WiredBy, Slot, Feeds, Form, Quants, D, Kernel, GemmInt8
    <3> HIDE DEF call
    <3> QED BY ONLY <3>1, <3>2, Zenon DEF Wired
  <2>3. Meant("prefill", l, ctx, "q_raw", call)
    <3>1. PICK feeds, computed : feeds = Feeds("prefill", Kind[l])["q_raw"] /\ computed = Computed(l, ctx)["q_raw"]
      OBVIOUS
    <3>2. MeantBy("prefill", l, ctx, "q_raw", call, feeds, computed)
      BY <1>k, <3>1 DEF MeantBy, Feeds, Of, Copied, Node, Computed, Quants, D, Kernel, GemmInt8
    <3> HIDE DEF call
    <3> QED BY ONLY <3>1, <3>2, Zenon DEF Meant
  <2> HIDE DEF call, g, k
  <2> QED BY <2>1, <2>2, <2>3
<1>4. Is("k_raw", PrefillProjections(l)[4])
  <2> DEFINE call == D(GemmInt8(Hidden, KvDim(k)), W("attn_k", l), <<Q8(P("xn"))>>, For(P("kp"), k))
  <2>1. PrefillProjections(l)[4] = call
    BY DEF PrefillProjections
  <2>2. Wired("prefill", l, "k_raw", call)
    <3>1. PICK feeds, slots : feeds = Feeds("prefill", Kind[l])["k_raw"] /\ slots = Slot("prefill", l)
      OBVIOUS
    <3>2. WiredBy(l, "k_raw", call, feeds, slots)
      BY <1>k, <3>1, SMTT(30) DEF WiredBy, Slot, Feeds, Form, Quants, D, Kernel, GemmInt8
    <3> HIDE DEF call
    <3> QED BY ONLY <3>1, <3>2, Zenon DEF Wired
  <2>3. Meant("prefill", l, ctx, "k_raw", call)
    <3>1. PICK feeds, computed : feeds = Feeds("prefill", Kind[l])["k_raw"] /\ computed = Computed(l, ctx)["k_raw"]
      OBVIOUS
    <3>2. MeantBy("prefill", l, ctx, "k_raw", call, feeds, computed)
      BY <1>k, <3>1 DEF MeantBy, Feeds, Of, Copied, Node, Computed, Quants, D, Kernel, GemmInt8
    <3> HIDE DEF call
    <3> QED BY ONLY <3>1, <3>2, Zenon DEF Meant
  <2> HIDE DEF call, g, k
  <2> QED BY <2>1, <2>2, <2>3
<1>5. k = "sliding" => Is("v_raw", PrefillProjections(l)[5])
  <2> DEFINE call == D(GemmInt8(Hidden, KvDim(k)), W("attn_v", l), <<Q8(P("xn"))>>, For(P("vp"), k))
  <2>1. k = "sliding" => PrefillProjections(l)[5] = call
    BY DEF PrefillProjections
  <2>2. ASSUME k = "sliding"
        PROVE  Wired("prefill", l, "v_raw", call)
    <3>1. PICK feeds, slots : feeds = Feeds("prefill", Kind[l])["v_raw"] /\ slots = Slot("prefill", l)
      OBVIOUS
    <3>2. WiredBy(l, "v_raw", call, feeds, slots)
      BY <1>k, <2>2, <3>1, SMTT(30) DEF WiredBy, Slot, Feeds, Form, Quants, D, Kernel, GemmInt8
    <3> HIDE DEF call
    <3> QED BY ONLY <3>1, <3>2, Zenon DEF Wired
  <2>3. ASSUME k = "sliding"
        PROVE  Meant("prefill", l, ctx, "v_raw", call)
    <3>1. PICK feeds, computed : feeds = Feeds("prefill", Kind[l])["v_raw"] /\ computed = Computed(l, ctx)["v_raw"]
      OBVIOUS
    <3>2. MeantBy("prefill", l, ctx, "v_raw", call, feeds, computed)
      BY <1>k, <2>3, <3>1 DEF MeantBy, Feeds, Of, Copied, Node, Computed, Quants, D, Kernel, GemmInt8
    <3> HIDE DEF call
    <3> QED BY ONLY <3>1, <3>2, Zenon DEF Meant
  <2> HIDE DEF call, g, k
  <2> QED BY <2>1, <2>2, <2>3
<1>6. Is("q_norm", PrefillProjections(l)[5 + g])
  <2> DEFINE call == D(RmsNorm(HeadDim(k), QHeads), W("attn_q_norm", l),
                       <<For(P("q_raw"), k)>>, For(P("q"), k))
  <2>1. k = "sliding" => PrefillProjections(l)[6] = call
    BY DEF PrefillProjections
  <2>2. k = "global" => PrefillProjections(l)[5] = call
    BY DEF PrefillProjections
  <2>3. Wired("prefill", l, "q_norm", call)
    <3>1. PICK feeds, slots : feeds = Feeds("prefill", Kind[l])["q_norm"] /\ slots = Slot("prefill", l)
      OBVIOUS
    <3>2. WiredBy(l, "q_norm", call, feeds, slots)
      BY <1>k, <3>1, SMTT(30) DEF WiredBy, Slot, Feeds, Form, Quants, D, Kernel, RmsNorm
    <3> HIDE DEF call
    <3> QED BY ONLY <3>1, <3>2, Zenon DEF Wired
  <2>4. Meant("prefill", l, ctx, "q_norm", call)
    <3>1. PICK feeds, computed : feeds = Feeds("prefill", Kind[l])["q_norm"] /\ computed = Computed(l, ctx)["q_norm"]
      OBVIOUS
    <3>2. MeantBy("prefill", l, ctx, "q_norm", call, feeds, computed)
      BY <1>k, <3>1 DEF MeantBy, Feeds, Of, Copied, Node, Computed, Quants, D, Kernel, RmsNorm
    <3> HIDE DEF call
    <3> QED BY ONLY <3>1, <3>2, Zenon DEF Meant
  <2> HIDE DEF call, g, k
  <2> QED BY <1>k, <2>1, <2>2, <2>3, <2>4
<1>7. Is("k_norm", PrefillProjections(l)[6 + g])
  <2> DEFINE call == D(RmsNorm(HeadDim(k), KvHeads(k)), W("attn_k_norm", l),
                       <<For(P("kp"), k)>>, For(P("k"), k))
  <2>1. k = "sliding" => PrefillProjections(l)[7] = call
    BY DEF PrefillProjections
  <2>2. k = "global" => PrefillProjections(l)[6] = call
    BY DEF PrefillProjections
  <2>3. Wired("prefill", l, "k_norm", call)
    <3>1. PICK feeds, slots : feeds = Feeds("prefill", Kind[l])["k_norm"] /\ slots = Slot("prefill", l)
      OBVIOUS
    <3>2. WiredBy(l, "k_norm", call, feeds, slots)
      BY <1>k, <3>1, SMTT(30) DEF WiredBy, Slot, Feeds, Form, Quants, D, Kernel, RmsNorm
    <3> HIDE DEF call
    <3> QED BY ONLY <3>1, <3>2, Zenon DEF Wired
  <2>4. Meant("prefill", l, ctx, "k_norm", call)
    <3>1. PICK feeds, computed : feeds = Feeds("prefill", Kind[l])["k_norm"] /\ computed = Computed(l, ctx)["k_norm"]
      OBVIOUS
    <3>2. MeantBy("prefill", l, ctx, "k_norm", call, feeds, computed)
      BY <1>k, <3>1 DEF MeantBy, Feeds, Of, Copied, Node, Computed, Quants, D, Kernel, RmsNorm
    <3> HIDE DEF call
    <3> QED BY ONLY <3>1, <3>2, Zenon DEF Meant
  <2> HIDE DEF call, g, k
  <2> QED BY <1>k, <2>1, <2>2, <2>3, <2>4
<1>8. Is("v", PrefillProjections(l)[7 + g])
  <2> DEFINE call == D(RmsNorm(HeadDim(k), KvHeads(k)), NormOnes,
                       <<IF k = "sliding" THEN For(P("vp"), k) ELSE For(P("kp"), k)>>, For(P("v"), k))
  <2>1. k = "sliding" => PrefillProjections(l)[8] = call
    BY DEF PrefillProjections
  <2>2. k = "global" => PrefillProjections(l)[7] = call
    BY DEF PrefillProjections
  <2>3. Wired("prefill", l, "v", call)
    <3>1. PICK feeds, slots : feeds = Feeds("prefill", Kind[l])["v"] /\ slots = Slot("prefill", l)
      OBVIOUS
    <3>2. WiredBy(l, "v", call, feeds, slots)
      BY <1>k, <3>1, SMTT(30) DEF WiredBy, Slot, Feeds, Form, Quants, D, Kernel, RmsNorm
    <3> HIDE DEF call
    <3> QED BY ONLY <3>1, <3>2, Zenon DEF Wired
  <2>4. Meant("prefill", l, ctx, "v", call)
    <3>1. PICK feeds, computed : feeds = Feeds("prefill", Kind[l])["v"] /\ computed = Computed(l, ctx)["v"]
      OBVIOUS
    <3>2. MeantBy("prefill", l, ctx, "v", call, feeds, computed)
      BY <1>k, <3>1 DEF MeantBy, Feeds, Of, Copied, Node, Computed, Quants, D, Kernel, RmsNorm
    <3> HIDE DEF call
    <3> QED BY ONLY <3>1, <3>2, Zenon DEF Meant
  <2> HIDE DEF call, g, k
  <2> QED BY <1>k, <2>1, <2>2, <2>3, <2>4
<1>9. Is("q", PrefillProjections(l)[8 + g])
  <2> DEFINE call == D(Rotate(k, QHeads), NoWeight, <<For(P("q"), k), For(P("cs"), k)>>, For(P("q"), k))
  <2>1. k = "sliding" => PrefillProjections(l)[9] = call
    BY DEF PrefillProjections
  <2>2. k = "global" => PrefillProjections(l)[8] = call
    BY DEF PrefillProjections
  <2>3. Wired("prefill", l, "q", call)
    <3>1. PICK feeds, slots : feeds = Feeds("prefill", Kind[l])["q"] /\ slots = Slot("prefill", l)
      OBVIOUS
    <3>2. WiredBy(l, "q", call, feeds, slots)
      BY <1>k, <3>1, SMTT(30) DEF WiredBy, Slot, Feeds, Form, Quants, D, Kernel, Rotate
    <3> HIDE DEF call
    <3> QED BY ONLY <3>1, <3>2, Zenon DEF Wired
  <2>4. Meant("prefill", l, ctx, "q", call)
    <3>1. PICK feeds, computed : feeds = Feeds("prefill", Kind[l])["q"] /\ computed = Computed(l, ctx)["q"]
      OBVIOUS
    <3>2. MeantBy("prefill", l, ctx, "q", call, feeds, computed)
      BY <1>k, <3>1 DEF MeantBy, Feeds, Of, Copied, Node, Computed, Quants, D, Kernel, Rotate
    <3> HIDE DEF call
    <3> QED BY ONLY <3>1, <3>2, Zenon DEF Meant
  <2> HIDE DEF call, g, k
  <2> QED BY <1>k, <2>1, <2>2, <2>3, <2>4
<1>10. Is("k", PrefillProjections(l)[9 + g])
  <2> DEFINE call == D(Rotate(k, KvHeads(k)), NoWeight, <<For(P("k"), k), For(P("cs"), k)>>, For(P("k"), k))
  <2>1. k = "sliding" => PrefillProjections(l)[10] = call
    BY DEF PrefillProjections
  <2>2. k = "global" => PrefillProjections(l)[9] = call
    BY DEF PrefillProjections
  <2>3. Wired("prefill", l, "k", call)
    <3>1. PICK feeds, slots : feeds = Feeds("prefill", Kind[l])["k"] /\ slots = Slot("prefill", l)
      OBVIOUS
    <3>2. WiredBy(l, "k", call, feeds, slots)
      BY <1>k, <3>1, SMTT(30) DEF WiredBy, Slot, Feeds, Form, Quants, D, Kernel, Rotate
    <3> HIDE DEF call
    <3> QED BY ONLY <3>1, <3>2, Zenon DEF Wired
  <2>4. Meant("prefill", l, ctx, "k", call)
    <3>1. PICK feeds, computed : feeds = Feeds("prefill", Kind[l])["k"] /\ computed = Computed(l, ctx)["k"]
      OBVIOUS
    <3>2. MeantBy("prefill", l, ctx, "k", call, feeds, computed)
      BY <1>k, <3>1 DEF MeantBy, Feeds, Of, Copied, Node, Computed, Quants, D, Kernel, Rotate
    <3> HIDE DEF call
    <3> QED BY ONLY <3>1, <3>2, Zenon DEF Meant
  <2> HIDE DEF call, g, k
  <2> QED BY <1>k, <2>1, <2>2, <2>3, <2>4
<1>11. k = "global" => Is("q8", AttendLinear(l)[1])
  <2> DEFINE call == D(QuantQ8, NoWeight, <<For(P("q"), "global")>>, Q8(For(P("q"), "global")))
  <2>1. k = "global" => AttendLinear(l)[1] = call
    BY DEF AttendLinear
  <2>2. ASSUME k = "global"
        PROVE  Wired("prefill", l, "q8", call)
    <3>1. PICK feeds, slots : feeds = Feeds("prefill", Kind[l])["q8"] /\ slots = Slot("prefill", l)
      OBVIOUS
    <3>2. WiredBy(l, "q8", call, feeds, slots)
      BY <1>k, <2>2, <3>1, SMTT(30) DEF WiredBy, Slot, Feeds, Form, Quants, D, Kernel, QuantQ8
    <3> HIDE DEF call
    <3> QED BY ONLY <3>1, <3>2, Zenon DEF Wired
  <2>3. ASSUME k = "global"
        PROVE  Meant("prefill", l, ctx, "q8", call)
    <3>1. PICK feeds, computed : feeds = Feeds("prefill", Kind[l])["q8"] /\ computed = Computed(l, ctx)["q8"]
      OBVIOUS
    <3>2. MeantBy("prefill", l, ctx, "q8", call, feeds, computed)
      BY <1>k, <2>3, <3>1 DEF MeantBy, Feeds, Of, Copied, Node, Computed, Quants, D, Kernel, QuantQ8
    <3> HIDE DEF call
    <3> QED BY ONLY <3>1, <3>2, Zenon DEF Meant
  <2> HIDE DEF call, g, k
  <2> QED BY <2>1, <2>2, <2>3
<1>12. Is("ao8", PrefillOutput(l)[1])
  <2> DEFINE call == D(QuantQ8, NoWeight, <<For(P("attn"), k)>>, Q8(P("ao")))
  <2>1. PrefillOutput(l)[1] = call
    BY DEF PrefillOutput
  <2>2. Wired("prefill", l, "ao8", call)
    <3>1. PICK feeds, slots : feeds = Feeds("prefill", Kind[l])["ao8"] /\ slots = Slot("prefill", l)
      OBVIOUS
    <3>2. WiredBy(l, "ao8", call, feeds, slots)
      BY <1>k, <3>1, SMTT(30) DEF WiredBy, Slot, Feeds, Form, Quants, D, Kernel, QuantQ8
    <3> HIDE DEF call
    <3> QED BY ONLY <3>1, <3>2, Zenon DEF Wired
  <2>3. Meant("prefill", l, ctx, "ao8", call)
    <3>1. PICK feeds, computed : feeds = Feeds("prefill", Kind[l])["ao8"] /\ computed = Computed(l, ctx)["ao8"]
      OBVIOUS
    <3>2. MeantBy("prefill", l, ctx, "ao8", call, feeds, computed)
      BY <1>k, <3>1 DEF MeantBy, Feeds, Of, Copied, Node, Computed, Quants, D, Kernel, QuantQ8
    <3> HIDE DEF call
    <3> QED BY ONLY <3>1, <3>2, Zenon DEF Meant
  <2> HIDE DEF call, g, k
  <2> QED BY <2>1, <2>2, <2>3
<1>13. Is("o", PrefillOutput(l)[2])
  <2> DEFINE call == D(GemmInt8(WoWidth(k), Hidden), W("attn_output", l), <<Q8(P("ao"))>>, P("o"))
  <2>1. PrefillOutput(l)[2] = call
    BY DEF PrefillOutput
  <2>2. Wired("prefill", l, "o", call)
    <3>1. PICK feeds, slots : feeds = Feeds("prefill", Kind[l])["o"] /\ slots = Slot("prefill", l)
      OBVIOUS
    <3>2. WiredBy(l, "o", call, feeds, slots)
      BY <1>k, <3>1, SMTT(30) DEF WiredBy, Slot, Feeds, Form, Quants, D, Kernel, GemmInt8, WoWidth, QDim, HeadDim, QHeads
    <3> HIDE DEF call
    <3> QED BY ONLY <3>1, <3>2, Zenon DEF Wired
  <2>3. Meant("prefill", l, ctx, "o", call)
    <3>1. PICK feeds, computed : feeds = Feeds("prefill", Kind[l])["o"] /\ computed = Computed(l, ctx)["o"]
      OBVIOUS
    <3>2. MeantBy("prefill", l, ctx, "o", call, feeds, computed)
      BY <1>k, <3>1 DEF MeantBy, Feeds, Of, Copied, Node, Computed, Quants, D, Kernel, GemmInt8, WoWidth, QDim, HeadDim, QHeads
    <3> HIDE DEF call
    <3> QED BY ONLY <3>1, <3>2, Zenon DEF Meant
  <2> HIDE DEF call, g, k
  <2> QED BY <2>1, <2>2, <2>3
<1>14. Is("on", PrefillOutput(l)[3])
  <2> DEFINE call == D(RmsNorm(Hidden, 1), W("post_attention_norm", l), <<P("o")>>, P("on"))
  <2>1. PrefillOutput(l)[3] = call
    BY DEF PrefillOutput
  <2>2. Wired("prefill", l, "on", call)
    <3>1. PICK feeds, slots : feeds = Feeds("prefill", Kind[l])["on"] /\ slots = Slot("prefill", l)
      OBVIOUS
    <3>2. WiredBy(l, "on", call, feeds, slots)
      BY <1>k, <3>1, SMTT(30) DEF WiredBy, Slot, Feeds, Form, Quants, D, Kernel, RmsNorm
    <3> HIDE DEF call
    <3> QED BY ONLY <3>1, <3>2, Zenon DEF Wired
  <2>3. Meant("prefill", l, ctx, "on", call)
    <3>1. PICK feeds, computed : feeds = Feeds("prefill", Kind[l])["on"] /\ computed = Computed(l, ctx)["on"]
      OBVIOUS
    <3>2. MeantBy("prefill", l, ctx, "on", call, feeds, computed)
      BY <1>k, <3>1 DEF MeantBy, Feeds, Of, Copied, Node, Computed, Quants, D, Kernel, RmsNorm
    <3> HIDE DEF call
    <3> QED BY ONLY <3>1, <3>2, Zenon DEF Meant
  <2> HIDE DEF call, g, k
  <2> QED BY <2>1, <2>2, <2>3
<1>15. Is("x2", PrefillOutput(l)[4])
  <2> DEFINE call == D(Add, NoWeight, <<P("x"), P("on")>>, P("x2"))
  <2>1. PrefillOutput(l)[4] = call
    BY DEF PrefillOutput
  <2>2. Wired("prefill", l, "x2", call)
    <3>1. PICK feeds, slots : feeds = Feeds("prefill", Kind[l])["x2"] /\ slots = Slot("prefill", l)
      OBVIOUS
    <3>2. WiredBy(l, "x2", call, feeds, slots)
      BY <1>k, <3>1, SMTT(30) DEF WiredBy, Slot, Feeds, Form, Quants, D, Kernel, Add
    <3> HIDE DEF call
    <3> QED BY ONLY <3>1, <3>2, Zenon DEF Wired
  <2>3. Meant("prefill", l, ctx, "x2", call)
    <3>1. PICK feeds, computed : feeds = Feeds("prefill", Kind[l])["x2"] /\ computed = Computed(l, ctx)["x2"]
      OBVIOUS
    <3>2. MeantBy("prefill", l, ctx, "x2", call, feeds, computed)
      BY <1>k, <3>1 DEF MeantBy, Feeds, Of, Copied, Node, Computed, Quants, D, Kernel, Add
    <3> HIDE DEF call
    <3> QED BY ONLY <3>1, <3>2, Zenon DEF Meant
  <2> HIDE DEF call, g, k
  <2> QED BY <2>1, <2>2, <2>3
<1>16. Is("fin", PrefillFfn(l)[1])
  <2> DEFINE call == D(RmsNorm(Hidden, 1), W("ffn_norm", l), <<P("x2")>>, P("fin"))
  <2>1. PrefillFfn(l)[1] = call
    BY DEF PrefillFfn
  <2>2. Wired("prefill", l, "fin", call)
    <3>1. PICK feeds, slots : feeds = Feeds("prefill", Kind[l])["fin"] /\ slots = Slot("prefill", l)
      OBVIOUS
    <3>2. WiredBy(l, "fin", call, feeds, slots)
      BY <1>k, <3>1, SMTT(30) DEF WiredBy, Slot, Feeds, Form, Quants, D, Kernel, RmsNorm
    <3> HIDE DEF call
    <3> QED BY ONLY <3>1, <3>2, Zenon DEF Wired
  <2>3. Meant("prefill", l, ctx, "fin", call)
    <3>1. PICK feeds, computed : feeds = Feeds("prefill", Kind[l])["fin"] /\ computed = Computed(l, ctx)["fin"]
      OBVIOUS
    <3>2. MeantBy("prefill", l, ctx, "fin", call, feeds, computed)
      BY <1>k, <3>1 DEF MeantBy, Feeds, Of, Copied, Node, Computed, Quants, D, Kernel, RmsNorm
    <3> HIDE DEF call
    <3> QED BY ONLY <3>1, <3>2, Zenon DEF Meant
  <2> HIDE DEF call, g, k
  <2> QED BY <2>1, <2>2, <2>3
<1>17. Is("fin8", PrefillFfn(l)[2])
  <2> DEFINE call == D(QuantQ8, NoWeight, <<P("fin")>>, Q8(P("fin")))
  <2>1. PrefillFfn(l)[2] = call
    BY DEF PrefillFfn
  <2>2. Wired("prefill", l, "fin8", call)
    <3>1. PICK feeds, slots : feeds = Feeds("prefill", Kind[l])["fin8"] /\ slots = Slot("prefill", l)
      OBVIOUS
    <3>2. WiredBy(l, "fin8", call, feeds, slots)
      BY <1>k, <3>1, SMTT(30) DEF WiredBy, Slot, Feeds, Form, Quants, D, Kernel, QuantQ8
    <3> HIDE DEF call
    <3> QED BY ONLY <3>1, <3>2, Zenon DEF Wired
  <2>3. Meant("prefill", l, ctx, "fin8", call)
    <3>1. PICK feeds, computed : feeds = Feeds("prefill", Kind[l])["fin8"] /\ computed = Computed(l, ctx)["fin8"]
      OBVIOUS
    <3>2. MeantBy("prefill", l, ctx, "fin8", call, feeds, computed)
      BY <1>k, <3>1 DEF MeantBy, Feeds, Of, Copied, Node, Computed, Quants, D, Kernel, QuantQ8
    <3> HIDE DEF call
    <3> QED BY ONLY <3>1, <3>2, Zenon DEF Meant
  <2> HIDE DEF call, g, k
  <2> QED BY <2>1, <2>2, <2>3
<1>18. Is("gate", PrefillFfn(l)[3])
  <2> DEFINE call == D(GemmInt8(Hidden, Ffn), W("ffn_gate", l), <<Q8(P("fin"))>>, P("g"))
  <2>1. PrefillFfn(l)[3] = call
    BY DEF PrefillFfn
  <2>2. Wired("prefill", l, "gate", call)
    <3>1. PICK feeds, slots : feeds = Feeds("prefill", Kind[l])["gate"] /\ slots = Slot("prefill", l)
      OBVIOUS
    <3>2. WiredBy(l, "gate", call, feeds, slots)
      BY <1>k, <3>1, SMTT(30) DEF WiredBy, Slot, Feeds, Form, Quants, D, Kernel, GemmInt8
    <3> HIDE DEF call
    <3> QED BY ONLY <3>1, <3>2, Zenon DEF Wired
  <2>3. Meant("prefill", l, ctx, "gate", call)
    <3>1. PICK feeds, computed : feeds = Feeds("prefill", Kind[l])["gate"] /\ computed = Computed(l, ctx)["gate"]
      OBVIOUS
    <3>2. MeantBy("prefill", l, ctx, "gate", call, feeds, computed)
      BY <1>k, <3>1 DEF MeantBy, Feeds, Of, Copied, Node, Computed, Quants, D, Kernel, GemmInt8
    <3> HIDE DEF call
    <3> QED BY ONLY <3>1, <3>2, Zenon DEF Meant
  <2> HIDE DEF call, g, k
  <2> QED BY <2>1, <2>2, <2>3
<1>19. Is("up", PrefillFfn(l)[4])
  <2> DEFINE call == D(GemmInt8(Hidden, Ffn), W("ffn_up", l), <<Q8(P("fin"))>>, P("u"))
  <2>1. PrefillFfn(l)[4] = call
    BY DEF PrefillFfn
  <2>2. Wired("prefill", l, "up", call)
    <3>1. PICK feeds, slots : feeds = Feeds("prefill", Kind[l])["up"] /\ slots = Slot("prefill", l)
      OBVIOUS
    <3>2. WiredBy(l, "up", call, feeds, slots)
      BY <1>k, <3>1, SMTT(30) DEF WiredBy, Slot, Feeds, Form, Quants, D, Kernel, GemmInt8
    <3> HIDE DEF call
    <3> QED BY ONLY <3>1, <3>2, Zenon DEF Wired
  <2>3. Meant("prefill", l, ctx, "up", call)
    <3>1. PICK feeds, computed : feeds = Feeds("prefill", Kind[l])["up"] /\ computed = Computed(l, ctx)["up"]
      OBVIOUS
    <3>2. MeantBy("prefill", l, ctx, "up", call, feeds, computed)
      BY <1>k, <3>1 DEF MeantBy, Feeds, Of, Copied, Node, Computed, Quants, D, Kernel, GemmInt8
    <3> HIDE DEF call
    <3> QED BY ONLY <3>1, <3>2, Zenon DEF Meant
  <2> HIDE DEF call, g, k
  <2> QED BY <2>1, <2>2, <2>3
<1>20. Is("gu", PrefillFfn(l)[5])
  <2> DEFINE call == D(Gelu, NoWeight, <<P("g"), P("u")>>, P("gu"))
  <2>1. PrefillFfn(l)[5] = call
    BY DEF PrefillFfn
  <2>2. Wired("prefill", l, "gu", call)
    <3>1. PICK feeds, slots : feeds = Feeds("prefill", Kind[l])["gu"] /\ slots = Slot("prefill", l)
      OBVIOUS
    <3>2. WiredBy(l, "gu", call, feeds, slots)
      BY <1>k, <3>1, SMTT(30) DEF WiredBy, Slot, Feeds, Form, Quants, D, Kernel, Gelu
    <3> HIDE DEF call
    <3> QED BY ONLY <3>1, <3>2, Zenon DEF Wired
  <2>3. Meant("prefill", l, ctx, "gu", call)
    <3>1. PICK feeds, computed : feeds = Feeds("prefill", Kind[l])["gu"] /\ computed = Computed(l, ctx)["gu"]
      OBVIOUS
    <3>2. MeantBy("prefill", l, ctx, "gu", call, feeds, computed)
      BY <1>k, <3>1 DEF MeantBy, Feeds, Of, Copied, Node, Computed, Quants, D, Kernel, Gelu
    <3> HIDE DEF call
    <3> QED BY ONLY <3>1, <3>2, Zenon DEF Meant
  <2> HIDE DEF call, g, k
  <2> QED BY <2>1, <2>2, <2>3
<1>21. Is("gu8", PrefillFfn(l)[6])
  <2> DEFINE call == D(QuantQ8, NoWeight, <<P("gu")>>, Q8(P("gu")))
  <2>1. PrefillFfn(l)[6] = call
    BY DEF PrefillFfn
  <2>2. Wired("prefill", l, "gu8", call)
    <3>1. PICK feeds, slots : feeds = Feeds("prefill", Kind[l])["gu8"] /\ slots = Slot("prefill", l)
      OBVIOUS
    <3>2. WiredBy(l, "gu8", call, feeds, slots)
      BY <1>k, <3>1, SMTT(30) DEF WiredBy, Slot, Feeds, Form, Quants, D, Kernel, QuantQ8
    <3> HIDE DEF call
    <3> QED BY ONLY <3>1, <3>2, Zenon DEF Wired
  <2>3. Meant("prefill", l, ctx, "gu8", call)
    <3>1. PICK feeds, computed : feeds = Feeds("prefill", Kind[l])["gu8"] /\ computed = Computed(l, ctx)["gu8"]
      OBVIOUS
    <3>2. MeantBy("prefill", l, ctx, "gu8", call, feeds, computed)
      BY <1>k, <3>1 DEF MeantBy, Feeds, Of, Copied, Node, Computed, Quants, D, Kernel, QuantQ8
    <3> HIDE DEF call
    <3> QED BY ONLY <3>1, <3>2, Zenon DEF Meant
  <2> HIDE DEF call, g, k
  <2> QED BY <2>1, <2>2, <2>3
<1>22. Is("f", PrefillFfn(l)[7])
  <2> DEFINE call == D(GemmInt8(Ffn, Hidden), W("ffn_down", l), <<Q8(P("gu"))>>, P("f"))
  <2>1. PrefillFfn(l)[7] = call
    BY DEF PrefillFfn
  <2>2. Wired("prefill", l, "f", call)
    <3>1. PICK feeds, slots : feeds = Feeds("prefill", Kind[l])["f"] /\ slots = Slot("prefill", l)
      OBVIOUS
    <3>2. WiredBy(l, "f", call, feeds, slots)
      BY <1>k, <3>1, SMTT(30) DEF WiredBy, Slot, Feeds, Form, Quants, D, Kernel, GemmInt8
    <3> HIDE DEF call
    <3> QED BY ONLY <3>1, <3>2, Zenon DEF Wired
  <2>3. Meant("prefill", l, ctx, "f", call)
    <3>1. PICK feeds, computed : feeds = Feeds("prefill", Kind[l])["f"] /\ computed = Computed(l, ctx)["f"]
      OBVIOUS
    <3>2. MeantBy("prefill", l, ctx, "f", call, feeds, computed)
      BY <1>k, <3>1 DEF MeantBy, Feeds, Of, Copied, Node, Computed, Quants, D, Kernel, GemmInt8
    <3> HIDE DEF call
    <3> QED BY ONLY <3>1, <3>2, Zenon DEF Meant
  <2> HIDE DEF call, g, k
  <2> QED BY <2>1, <2>2, <2>3
<1>23. Is("fn2", PrefillFfn(l)[8])
  <2> DEFINE call == D(RmsNorm(Hidden, 1), W("post_ffw_norm", l), <<P("f")>>, P("fn2"))
  <2>1. PrefillFfn(l)[8] = call
    BY DEF PrefillFfn
  <2>2. Wired("prefill", l, "fn2", call)
    <3>1. PICK feeds, slots : feeds = Feeds("prefill", Kind[l])["fn2"] /\ slots = Slot("prefill", l)
      OBVIOUS
    <3>2. WiredBy(l, "fn2", call, feeds, slots)
      BY <1>k, <3>1, SMTT(30) DEF WiredBy, Slot, Feeds, Form, Quants, D, Kernel, RmsNorm
    <3> HIDE DEF call
    <3> QED BY ONLY <3>1, <3>2, Zenon DEF Wired
  <2>3. Meant("prefill", l, ctx, "fn2", call)
    <3>1. PICK feeds, computed : feeds = Feeds("prefill", Kind[l])["fn2"] /\ computed = Computed(l, ctx)["fn2"]
      OBVIOUS
    <3>2. MeantBy("prefill", l, ctx, "fn2", call, feeds, computed)
      BY <1>k, <3>1 DEF MeantBy, Feeds, Of, Copied, Node, Computed, Quants, D, Kernel, RmsNorm
    <3> HIDE DEF call
    <3> QED BY ONLY <3>1, <3>2, Zenon DEF Meant
  <2> HIDE DEF call, g, k
  <2> QED BY <2>1, <2>2, <2>3
<1>24. Is("out", PrefillFfn(l)[9])
  <2> DEFINE call == D(Add, W("layer_output_scale", l), <<P("x2"), P("fn2")>>, P("x"))
  <2>1. PrefillFfn(l)[9] = call
    BY DEF PrefillFfn
  <2>2. Wired("prefill", l, "out", call)
    <3>1. PICK feeds, slots : feeds = Feeds("prefill", Kind[l])["out"] /\ slots = Slot("prefill", l)
      OBVIOUS
    <3>2. WiredBy(l, "out", call, feeds, slots)
      BY <1>k, <3>1, SMTT(30) DEF WiredBy, Slot, Feeds, Form, Quants, D, Kernel, Add
    <3> HIDE DEF call
    <3> QED BY ONLY <3>1, <3>2, Zenon DEF Wired
  <2>3. Meant("prefill", l, ctx, "out", call)
    <3>1. PICK feeds, computed : feeds = Feeds("prefill", Kind[l])["out"] /\ computed = Computed(l, ctx)["out"]
      OBVIOUS
    <3>2. MeantBy("prefill", l, ctx, "out", call, feeds, computed)
      BY <1>k, <3>1 DEF MeantBy, Feeds, Of, Copied, Node, Computed, Quants, D, Kernel, Add
    <3> HIDE DEF call
    <3> QED BY ONLY <3>1, <3>2, Zenon DEF Meant
  <2> HIDE DEF call, g, k
  <2> QED BY <2>1, <2>2, <2>3
<1> HIDE DEF Is
<1> Is(t, PrefillCall(l)[t])
  BY <1>k, <1>1, <1>2, <1>3, <1>4, <1>5, <1>6, <1>7, <1>8, <1>9, <1>10, <1>11,
     <1>12, <1>13, <1>14, <1>15, <1>16, <1>17, <1>18, <1>19, <1>20, <1>21, <1>22,
     <1>23, <1>24 DEF PrefillCall
<1> QED BY DEF Is

-----------------------------------------------------------------------------
(* The buffers of two stages are different, except where the graph reuses   *)
(* one: q and k are rotated in place, and a layer writes its output over    *)
(* its input.                                                               *)
NameOf ==
  [x |-> "x", cs |-> "cs", xn |-> "xn", xn8 |-> "xn", q_raw |-> "q_raw", k_raw |-> "kp",
   v_raw |-> "vp", q_norm |-> "q", k_norm |-> "k", v |-> "v", q |-> "q", k |-> "k", q8 |-> "q",
   part |-> "part", attn |-> "attn", ao8 |-> "ao", o |-> "o", on |-> "on", x2 |-> "x2",
   fin |-> "fin", fin8 |-> "fin", gate |-> "g", up |-> "u", gu |-> "gu", gu8 |-> "gu",
   f |-> "f", fn2 |-> "fn2", out |-> "x"]

Driver(bk) == IF bk = "prefill" THEN "p" ELSE "b"

Keyed(operand, set, name, quantised) ==
  /\ operand # {}
  /\ \A b \in operand : b.set = set /\ b.name = name /\ (b.part = "f16" <=> ~quantised)

(* What tells the buffers of one operand from those of another.             *)
LEMMA OperandKeys ==
  ASSUME NEW set, NEW name, NEW k
  PROVE  /\ Keyed({Named(set, name)}, set, name, FALSE)
         /\ Keyed(For({Named(set, name)}, k), set, name, FALSE)
         /\ Keyed(Q8({Named(set, name)}), set, name, TRUE)
         /\ Keyed(Q8(For({Named(set, name)}, k)), set, name, TRUE)
<1> DEFINE n == Named(set, name)
           m == [n EXCEPT !.kind = k]
<1>1. n.set = set /\ n.name = name /\ n.part = "f16" /\ m.set = set /\ m.name = name /\ m.part = "f16"
  BY DEF Named
<1>2. For({n}, k) = {m}
  BY DEF For
<1>3. ASSUME NEW b \in {n, m}
      PROVE  Keyed(Q8({b}), set, name, TRUE)
  <2>1. Q8({b}) = {[b EXCEPT !.part = part] : part \in {"scales", "quants"}}
    BY DEF Q8
  <2>2. \A part \in {"scales", "quants"} :
          /\ [b EXCEPT !.part = part].set = set
          /\ [b EXCEPT !.part = part].name = name
          /\ [b EXCEPT !.part = part].part = part
    BY <1>3 DEF Named
  <2> QED BY <2>1, <2>2 DEF Keyed
<1> QED BY <1>1, <1>2, <1>3 DEF Keyed

(* The buffers of a stage are those of its name, and of the driver of the   *)
(* block.                                                                   *)
LEMMA SlotKeys ==
  ASSUME NEW l \in Layers, NEW bk \in {"decode", "prefill"}, NEW t \in DOMAIN NameOf
  PROVE  Keyed(Slot(bk, l)[t], Driver(bk), NameOf[t], t \in Quants)
<1> DEFINE N(name) == {Named(Driver(bk), name)}
           F(name) == IF bk = "prefill" THEN P(name) ELSE B(name)
<1>1. \A name : F(name) = N(name)
  BY DEF Driver, P, B
<1> HIDE DEF F, N
<1>2. CASE t \in {"x", "xn", "o", "on", "x2", "fin", "gate", "up", "gu", "f", "fn2", "out"}
  <2>1. Slot(bk, l)[t] = F(NameOf[t]) /\ t \notin Quants
    BY <1>2 DEF Slot, NameOf, Quants, F
  <2>2. Keyed({Named(Driver(bk), NameOf[t])}, Driver(bk), NameOf[t], FALSE)
    BY OperandKeys
  <2>3. Slot(bk, l)[t] = {Named(Driver(bk), NameOf[t])}
    BY <1>1, <2>1 DEF N
  <2> QED BY <2>1, <2>2, <2>3 DEF Keyed
<1>3. CASE t \in {"cs", "q_raw", "k_raw", "v_raw", "q_norm", "k_norm", "v", "q", "k", "part", "attn"}
  <2>1. Slot(bk, l)[t] = For(F(NameOf[t]), Kind[l]) /\ t \notin Quants
    BY <1>3 DEF Slot, NameOf, Quants, F
  <2>2. Keyed(For({Named(Driver(bk), NameOf[t])}, Kind[l]), Driver(bk), NameOf[t], FALSE)
    BY OperandKeys
  <2>3. Slot(bk, l)[t] = For({Named(Driver(bk), NameOf[t])}, Kind[l])
    BY <1>1, <2>1 DEF N
  <2> QED BY <2>1, <2>2, <2>3 DEF Keyed
<1>4. CASE t \in {"xn8", "ao8", "fin8", "gu8"}
  <2>1. Slot(bk, l)[t] = Q8(F(NameOf[t])) /\ t \in Quants
    BY <1>4 DEF Slot, NameOf, Quants, F
  <2> QED BY <1>1, <2>1, OperandKeys DEF N
<1>5. CASE t = "q8"
  <2>1. Slot(bk, l)[t] = Q8(For(F(NameOf[t]), Kind[l])) /\ t \in Quants
    BY <1>5 DEF Slot, NameOf, Quants, F
  <2> QED BY <1>1, <2>1, OperandKeys DEF N
<1> QED BY <1>2, <1>3, <1>4, <1>5 DEF NameOf

(* Two stages share a name where the graph reuses a buffer.                 *)
LEMMA NamesDiffer ==
  ASSUME NEW s \in DOMAIN NameOf, NEW t \in DOMAIN NameOf,
         NameOf[s] = NameOf[t], s \in Quants <=> t \in Quants
  PROVE  \/ s = t
         \/ {s, t} \in {{"x", "out"}, {"q_norm", "q"}, {"k_norm", "k"}}
BY DEF NameOf, Quants

-----------------------------------------------------------------------------
(* What the buffers of an operand hold.                                     *)
Have(m, operand, value) == \A b \in operand \cap Buffer : m[b] = value

Content(m, ctx, bk, l, t) ==
  Have(m, Slot(bk, l)[t], Value(Of(l, ctx, t), Form(Kind[l], t)))

(* An operand whose buffers agree holds what they do.                       *)
LEMMA HoldsValue ==
  ASSUME NEW operand, operand # {}, operand \subseteq Buffer, NEW value, Have(mem, operand, value)
  PROVE  Holds(operand) = value
<1>1. \A b \in operand : mem[b] = value
  BY DEF Have
<1>2. (CHOOSE b \in operand : TRUE) \in operand
  OBVIOUS
<1> QED BY <1>1, <1>2 DEF Holds

(* A dispatch that finds the operands of its stage leaves the node of the   *)
(* stage in the format of its slot.                                         *)
LEMMA StageResult ==
  ASSUME NEW l \in Layers, NEW bk \in {"decode", "prefill"},
         NEW t \in Stages \cup Quants, t = "v_raw" => Kind[l] = "sliding",
         NEW d, Wired(bk, l, t, d), Meant(bk, l, context, t, d),
         NEW feeds, feeds = Feeds(bk, Kind[l])[t],
         \A j \in 1 .. Len(feeds) :
           /\ feeds[j] \in DOMAIN NameOf /\ Content(mem, context, bk, l, feeds[j])
           /\ d.ins[j] \subseteq Buffer
  PROVE  Result(d) = Value(Of(l, context, t), Form(Kind[l], t))
<1> DEFINE held == [i \in DOMAIN d.ins |-> Holds(d.ins[i])]
           node == IF d.kernel.op = Convert THEN {held[1].node}
                   ELSE IF d.kernel.op = Store THEN {Stored(d, held[1].node)}
                   ELSE Yields(d.kernel.op, d.weight, Inputs(d, held), context)
<1>1. /\ d.kernel.gives = Form(Kind[l], t) /\ d.kernel.via = "none"
      /\ Len(feeds) \in {1, 2} /\ DOMAIN d.ins = 1 .. Len(feeds)
      /\ \A j \in 1 .. Len(feeds) : /\ d.ins[j] = Slot(bk, l)[feeds[j]]
                                    /\ d.kernel.takes[j] = Form(Kind[l], feeds[j])
  BY DEF Wired, WiredBy
<1>2. ASSUME NEW j \in 1 .. Len(feeds)
      PROVE  held[j] = Value(Of(l, context, feeds[j]), Form(Kind[l], feeds[j]))
  <2>1. d.ins[j] # {}
    BY <1>1, SlotKeys DEF Keyed
  <2>2. Have(mem, d.ins[j], Value(Of(l, context, feeds[j]), Form(Kind[l], feeds[j])))
    BY <1>1 DEF Content
  <2>3. Holds(d.ins[j]) = Value(Of(l, context, feeds[j]), Form(Kind[l], feeds[j]))
    BY <2>1, <2>2, HoldsValue
  <2> QED BY <1>1, <2>3
<1>3. DOMAIN held = 1 .. Len(feeds) /\ 1 \in 1 .. Len(feeds)
  <2>1. \A n \in {1, 2} : 1 \in 1 .. n
    OBVIOUS
  <2> QED BY <1>1, <2>1
<1> HIDE DEF held, node
<1>n. ASSUME NEW j \in 1 .. Len(feeds)
      PROVE  held[j].node = Of(l, context, feeds[j]) /\ held[j].form = Form(Kind[l], feeds[j])
  <2>1. \A n, e : Value(n, e).node = n /\ Value(n, e).form = e
    BY DEF Value
  <2> QED BY ONLY <1>2, <2>1
<1>4. \A i \in DOMAIN held \ Unread(d) : held[i].form = d.kernel.takes[i]
  BY ONLY <1>1, <1>n, <1>3
<1> USE DEF node
<1>5. node = {Of(l, context, t)}
  <2>1. CASE t \in Quants \/ (t = "attn" /\ bk = "decode")
    <3>1. d.kernel.op = Convert /\ Of(l, context, feeds[1]) = Of(l, context, t)
      BY <2>1, Zenon DEF Meant, MeantBy
    <3>2. held[1].node = Of(l, context, feeds[1])
      BY <1>n, <1>3
    <3> QED BY <3>1, <3>2
  <2>2. CASE ~(t \in Quants \/ (t = "attn" /\ bk = "decode"))
    <3> DEFINE C == Computed(l, context)[t]
    <3>1. /\ d.kernel.op = C[1] /\ d.weight = C[2]
          /\ C[3] = IF Len(feeds) = 1 THEN <<Of(l, context, feeds[1])>>
                    ELSE <<Of(l, context, feeds[1]), Of(l, context, feeds[2])>>
      BY <2>2, Zenon DEF Meant, MeantBy
    <3>2. t \in Stages /\ Computes(C, t, l)
      BY <2>2, StagesComputed
    <3>3. C[1] # Convert /\ C[1] # Store
      BY <3>2 DEF Computes
    <3> HIDE DEF C
    <3>4. Inputs(d, held) = [i \in 1 .. Len(feeds) |-> held[i].node]
      BY <1>1, <1>3 DEF Inputs
    <3>5. [i \in 1 .. Len(feeds) |-> held[i].node] = C[3]
      <4>1. \A j \in 1 .. Len(feeds) : held[j].node = Of(l, context, feeds[j])
        BY <1>n
      <4>2. CASE Len(feeds) = 1
        BY <3>1, <4>1, <4>2
      <4>3. CASE Len(feeds) = 2
        BY <3>1, <4>1, <4>3
      <4> QED BY <1>1, <4>2, <4>3
    <3>6. Yields(C[1], C[2], C[3], context) = {Node(t, l, context[Len(context)])}
      BY <3>2, StageYields DEF C
    <3>7. Of(l, context, t) = Node(t, l, context[Len(context)])
      BY <3>2 DEF Of, Copied, Stages
    <3> QED BY <3>1, <3>3, <3>4, <3>5, <3>6, <3>7
  <2> QED BY <2>1, <2>2
<1> HIDE DEF node
<1>6. Result(d) = IF (\A i \in DOMAIN held \ Unread(d) : held[i].form = d.kernel.takes[i]) /\ node # {}
                    THEN [node |-> CHOOSE n \in node : TRUE, form |-> d.kernel.gives]
                    ELSE [node |-> TornNode, form |-> Torn]
  BY Zenon DEF Result, held, node
<1>7. (CHOOSE n \in node : TRUE) = Of(l, context, t)
  BY <1>5
<1> QED BY <1>1, <1>4, <1>5, <1>6, <1>7 DEF Value

-----------------------------------------------------------------------------
(* The stores of a layer: the keys (s = "k") or the values (s = "v") of the *)
(* first n blocks of a context.                                             *)
Nodes(ctx, s, l, n) == [i \in 1 .. n |-> Node(s, l, ctx[i])]

KvOf(s, l) == IF s = "k" THEN KvK(l) ELSE KvV(l)
KvForm(s, l) == IF s = "k" THEN KFormat(Kind[l]) ELSE F16

Keeps(m, ctx, s, l, n) == n > 0 => Have(m, KvOf(s, l), Value(Nodes(ctx, s, l, n), KvForm(s, l)))

(* Whatever a disturbed call left in a store, it is a sequence.             *)
StoreIsSeq(m) == \A b \in Buffer : b.set = "kv" => \E S : m[b].node \in Seq(S)

(* The buffers of a store are known by what is stored and by the layer.     *)
LEMMA KvKeys ==
  ASSUME NEW l \in Layers, NEW s \in {"k", "v"}
  PROVE  KvOf(s, l) # {} /\ \A b \in KvOf(s, l) : b.set = "kv" /\ b.name = s /\ b.layer = l
<1> DEFINE k == [Named("kv", "k") EXCEPT !.layer = l]
           v == [Named("kv", "v") EXCEPT !.layer = l]
<1>1. \A b \in {v} : b.set = "kv" /\ b.name = "v" /\ b.layer = l
  BY DEF Named
<1>2. \A b \in {k} : b.set = "kv" /\ b.name = "k" /\ b.layer = l
  BY DEF Named
<1>3. \A b \in Q8({k}) : b.set = "kv" /\ b.name = "k" /\ b.layer = l
  <2>1. Q8({k}) = {[k EXCEPT !.part = part] : part \in {"scales", "quants"}}
    BY DEF Q8
  <2>2. \A part \in {"scales", "quants"} :
          /\ [k EXCEPT !.part = part].set = "kv" /\ [k EXCEPT !.part = part].name = "k"
          /\ [k EXCEPT !.part = part].layer = l
    BY DEF Named
  <2> HIDE DEF k
  <2> QED BY <2>1, <2>2
<1>4. Q8({k}) # {}
  BY DEF Q8
<1>5. KvV(l) = {v} /\ (KvK(l) = {k} \/ KvK(l) = Q8({k}))
  BY DEF KvV, KvK
<1> HIDE DEF k, v
<1> QED BY <1>1, <1>2, <1>3, <1>4, <1>5 DEF KvOf

(* The stores and the operands of the driver are different buffers.         *)
LEMMA HeldSeq ==
  ASSUME NEW l \in Layers, NEW s \in {"k", "v"}, KvOf(s, l) \subseteq Buffer, StoreIsSeq(mem)
  PROVE  \E S : Holds(KvOf(s, l)).node \in Seq(S)
<1> DEFINE c == CHOOSE b \in KvOf(s, l) : TRUE
<1>1. c \in KvOf(s, l) /\ c \in Buffer /\ c.set = "kv"
  BY KvKeys
<1>2. \E S : mem[c].node \in Seq(S)
  BY <1>1 DEF StoreIsSeq
<1>3. TornNode \in Seq({"torn", 0})
  BY DEF TornNode
<1>4. Holds(KvOf(s, l)) = mem[c] \/ Holds(KvOf(s, l)) = [node |-> TornNode, form |-> Torn]
  BY DEF Holds
<1>5. [node |-> TornNode, form |-> Torn].node = TornNode
  OBVIOUS
<1> HIDE DEF c
<1> QED BY <1>2, <1>3, <1>4, <1>5

(* The append of a layer.                                                   *)
Appends(bk, l, s, d) ==
  /\ d.kernel.op = Store /\ d.kernel.via = "append" /\ d.kernel.takes[1] = F16
  /\ d.kernel.gives = KvForm(s, l)
  /\ DOMAIN d.ins = {1} /\ d.ins[1] = Slot(bk, l)[s]
  /\ d.out = KvOf(s, l)

(* An append of the row of a block over the keys of the blocks before it.   *)
LEMMA AppendResult ==
  ASSUME NEW l \in Layers, NEW bk \in {"decode", "prefill"}, NEW s \in {"k", "v"},
         NEW d, Appends(bk, l, s, d), d.ins[1] \subseteq Buffer, d.out \subseteq Buffer,
         NEW p \in Nat, Len(context) = p + 1, Step.pos = p,
         Content(mem, context, bk, l, s), Keeps(mem, context, s, l, p), StoreIsSeq(mem)
  PROVE  Result(d) = Value(Nodes(context, s, l, p + 1), KvForm(s, l))
<1> DEFINE held == [i \in DOMAIN d.ins |-> Holds(d.ins[i])]
           row == Node(s, l, context[p + 1])
           old == Holds(d.out)
<1>1. held[1].node = row /\ held[1].form = F16
  <2>1. s \in DOMAIN NameOf
    BY DEF NameOf
  <2>2. Holds(d.ins[1]) = Value(Of(l, context, s), Form(Kind[l], s))
    BY <2>1, SlotKeys, HoldsValue DEF Appends, Content, Keyed
  <2>3. Of(l, context, s) = row /\ Form(Kind[l], s) = F16
    BY DEF Of, Copied, Form, Quants
  <2> QED BY <2>2, <2>3 DEF Appends, Value
<1>2. Stored(d, row) = Nodes(context, s, l, p + 1)
  <2>1. CASE p = 0
    <3>1. PICK S : old.node \in Seq(S)
      BY HeldSeq DEF Appends
    <3>2. Len(old.node) >= 0 /\ SubSeq(old.node, 1, 0) = <<>>
      BY <3>1
    <3>3. <<>> \o <<row>> = <<row>> /\ <<row>> = Nodes(context, s, l, 1)
      BY <2>1 DEF Nodes
    <3> QED BY <2>1, <3>2, <3>3 DEF Stored
  <2>2. CASE p > 0
    <3>1. old = Value(Nodes(context, s, l, p), KvForm(s, l))
      BY <2>2, KvKeys, HoldsValue DEF Appends, Keeps
    <3>2. old.node = Nodes(context, s, l, p)
      BY <3>1 DEF Value
    <3> DEFINE S == {Node(s, l, context[i]) : i \in 1 .. p + 1}
               e == Nodes(context, s, l, p)
               n == Nodes(context, s, l, p + 1)
    <3>3. e \in Seq(S) /\ Len(e) = p /\ row \in S /\ n \in Seq(S) /\ Len(n) = p + 1
      BY DEF Nodes
    <3>4. /\ \A i \in 1 .. p : e[i] = n[i]
          /\ row = n[p + 1]
      BY DEF Nodes
    <3> HIDE DEF e, n, S, row
    <3>5. SubSeq(e, 1, p) = e
      BY <3>3
    <3>6. e \o <<row>> = n
      BY <3>3, <3>4
    <3>7. Holds(d.out).node = e
      BY ONLY <3>2 DEF e
    <3>8. Stored(d, row) = SubSeq(e, 1, p) \o <<row>>
      BY <3>3, <3>7 DEF Stored
    <3> QED BY <3>5, <3>6, <3>8 DEF n
  <2> QED BY <2>1, <2>2
<1>3. d.kernel.op # Convert
  BY DEF Appends, Store, Convert
<1>4. \A i \in DOMAIN held \ Unread(d) : held[i].form = d.kernel.takes[i]
  BY <1>1 DEF Appends
<1>5. Result(d) = [node |-> CHOOSE n \in {Stored(d, held[1].node)} : TRUE, form |-> d.kernel.gives]
  <2> HIDE DEF held
  <2> QED BY <1>3, <1>4 DEF Result, Appends, held
<1> QED BY <1>1, <1>2, <1>5 DEF Value, Appends

-----------------------------------------------------------------------------
(* The attention of a layer, from the stores (a token; a chunk on a global  *)
(* layer) or from what they held before the chunk and the chunk's own rows. *)
AttendsStores(bk, l, q, d) ==
  /\ d.kernel.op = Attention(Kind[l]) /\ d.weight = NoWeight
  /\ d.kernel.via = IF bk = "decode" THEN "decode" ELSE "linear"
  /\ DOMAIN d.ins = 1 .. 3
  /\ d.ins[1] = Slot(bk, l)[q] /\ d.ins[2] = KvOf("k", l) /\ d.ins[3] = KvOf("v", l)
  /\ d.kernel.takes[1] = Form(Kind[l], q)
  /\ d.kernel.takes[2] = KvForm("k", l) /\ d.kernel.takes[3] = KvForm("v", l)

AttendsRing(l, d) ==
  /\ d.kernel.op = Attention(Kind[l]) /\ d.weight = NoWeight
  /\ d.kernel.via = "ring"
  /\ DOMAIN d.ins = 1 .. 5
  /\ d.ins[1] = Slot("prefill", l)["q"] /\ d.ins[2] = KvOf("k", l) /\ d.ins[3] = KvOf("v", l)
  /\ d.ins[4] = Slot("prefill", l)["k"] /\ d.ins[5] = Slot("prefill", l)["v"]
  /\ d.kernel.takes[1] = Form(Kind[l], "q")
  /\ d.kernel.takes[2] = KvForm("k", l) /\ d.kernel.takes[3] = KvForm("v", l)
  /\ d.kernel.takes[4] = Form(Kind[l], "k") /\ d.kernel.takes[5] = Form(Kind[l], "v")

(* The attention of the oracle reads every block of the context.            *)
LEMMA AttentionYields ==
  ASSUME NEW l \in Layers, NEW ctx
  PROVE  Yields(Attention(Kind[l]), NoWeight,
                <<Node("q", l, ctx[Len(ctx)]), Nodes(ctx, "k", l, Len(ctx)),
                  Nodes(ctx, "v", l, Len(ctx))>>, ctx) = {Node("attn", l, ctx[Len(ctx)])}
<1> DEFINE C == Computed(l, ctx)["attn"]
           inputs == <<Node("q", l, ctx[Len(ctx)]), Nodes(ctx, "k", l, Len(ctx)),
                       Nodes(ctx, "v", l, Len(ctx))>>
<1>1. C = Attending(l, ctx)
  BY DEF Computed
<1>2. Attending(l, ctx) = <<Attention(Kind[l]), NoWeight, inputs>>
  BY Zenon DEF Attending, Nodes
<1>3. "attn" \in Stages /\ "attn" # "v_raw"
  BY DEF Stages
<1> HIDE DEF C, inputs
<1>4. C[1] = Attention(Kind[l]) /\ C[2] = NoWeight /\ C[3] = inputs
  BY <1>1, <1>2
<1>5. Yields(C[1], C[2], C[3], ctx) = {Node("attn", l, ctx[Len(ctx)])}
  BY <1>3, StageYields DEF C
<1>6. Yields(Attention(Kind[l]), NoWeight, inputs, ctx) = {Node("attn", l, ctx[Len(ctx)])}
  BY <1>4, <1>5
<1> QED BY <1>6 DEF inputs

(* A store of n blocks has its first n blocks.                              *)
LEMMA AllBlocks ==
  ASSUME NEW ctx, NEW s, NEW l, NEW n \in Nat
  PROVE  FirstBlocks(Nodes(ctx, s, l, n), n) = Nodes(ctx, s, l, n)
<1> DEFINE S == {Node(s, l, ctx[i]) : i \in 1 .. n}
           e == Nodes(ctx, s, l, n)
<1>1. e \in Seq(S) /\ Len(e) = n
  BY DEF Nodes
<1> HIDE DEF e, S
<1>2. SubSeq(e, 1, n) = e
  BY <1>1
<1> QED BY <1>1, <1>2 DEF FirstBlocks, e

(* The ring and the rows of the chunk are the context, the empty ring of a  *)
(* first chunk included.                                                    *)
LEMMA OldThenOwn ==
  ASSUME NEW ctx, NEW s, NEW l, NEW p \in Nat, Step.q0 = p,
         NEW stored, p > 0 => stored = Nodes(ctx, s, l, p)
  PROVE  RingThenOwn(stored, Node(s, l, ctx[p + 1])) = Nodes(ctx, s, l, p + 1)
<1> DEFINE S == {Node(s, l, ctx[i]) : i \in 1 .. p + 1}
           e == Nodes(ctx, s, l, p)
           n == Nodes(ctx, s, l, p + 1)
           row == Node(s, l, ctx[p + 1])
<1>1. /\ e \in Seq(S) /\ Len(e) = p /\ row \in S /\ n \in Seq(S) /\ Len(n) = p + 1
      /\ row = n[p + 1] /\ \A i \in 1 .. p : e[i] = n[i]
  BY DEF Nodes
<1> HIDE DEF e, n, S, row
<1>2. e \o <<row>> = n
  BY <1>1
<1>3. p = 0 => <<row>> = n
  BY <1>1
<1>4. RingThenOwn(stored, row) = n
  BY <1>1, <1>2, <1>3 DEF RingThenOwn, e
<1> QED BY <1>4 DEF n, row

(* What an operand holds, and what a store does.                            *)
LEMMA SlotHolds ==
  ASSUME NEW l \in Layers, NEW bk \in {"decode", "prefill"}, NEW t \in DOMAIN NameOf,
         Slot(bk, l)[t] \subseteq Buffer, Content(mem, context, bk, l, t)
  PROVE  /\ Holds(Slot(bk, l)[t]).node = Of(l, context, t)
         /\ Holds(Slot(bk, l)[t]).form = Form(Kind[l], t)
<1>1. Holds(Slot(bk, l)[t]) = Value(Of(l, context, t), Form(Kind[l], t))
  BY SlotKeys, HoldsValue DEF Content, Keyed
<1> QED BY <1>1 DEF Value

(* What a store that keeps n blocks holds.                                  *)
LEMMA StoreHolds ==
  ASSUME NEW l \in Layers, NEW s \in {"k", "v"}, NEW n \in Nat, n > 0,
         KvOf(s, l) \subseteq Buffer, Keeps(mem, context, s, l, n)
  PROVE  /\ Holds(KvOf(s, l)).node = Nodes(context, s, l, n)
         /\ Holds(KvOf(s, l)).form = KvForm(s, l)
<1>1. Holds(KvOf(s, l)) = Value(Nodes(context, s, l, n), KvForm(s, l))
  BY KvKeys, HoldsValue DEF Keeps
<1> QED BY <1>1 DEF Value

(* An attention that reads the query and all keys and values of the         *)
(* context, in the formats it takes.                                        *)
LEMMA AttentionResult ==
  ASSUME NEW l \in Layers, NEW d, NEW held, held = [i \in DOMAIN d.ins |-> Holds(d.ins[i])],
         d.kernel.op = Attention(Kind[l]), d.weight = NoWeight,
         \A i \in DOMAIN held \ Unread(d) : held[i].form = d.kernel.takes[i],
         NEW b, b = context[Len(context)],
         Inputs(d, held) = <<Node("q", l, b), Nodes(context, "k", l, Len(context)),
                             Nodes(context, "v", l, Len(context))>>
  PROVE  Result(d) = Value(Node("attn", l, b), d.kernel.gives)
<1> DEFINE node == Yields(d.kernel.op, d.weight, Inputs(d, held), context)
<1>1. node = {Node("attn", l, b)}
  <2>1. node = Yields(Attention(Kind[l]), NoWeight,
                      <<Node("q", l, context[Len(context)]), Nodes(context, "k", l, Len(context)),
                        Nodes(context, "v", l, Len(context))>>, context)
    OBVIOUS
  <2> HIDE DEF node
  <2> QED BY <2>1, AttentionYields
<1>2. d.kernel.op # Convert /\ d.kernel.op # Store
  BY DEF Attention, Convert, Store
<1> HIDE DEF node
<1>3. Result(d) = [node |-> CHOOSE n \in node : TRUE, form |-> d.kernel.gives]
  BY <1>1, <1>2 DEF Result, node
<1> QED BY <1>1, <1>3 DEF Value

(* An attention over the stores.                                            *)
LEMMA StoresAttended ==
  ASSUME NEW l \in Layers, NEW bk \in {"decode", "prefill"}, NEW q \in {"q", "q8"},
         NEW d, AttendsStores(bk, l, q, d), \A i \in 1 .. 3 : d.ins[i] \subseteq Buffer,
         Len(context) \in Nat \ {0}, Step.kv = Len(context) \/ bk # "decode",
         Step.q0 + 1 = Len(context) \/ bk = "decode",
         Content(mem, context, bk, l, q),
         \A s \in {"k", "v"} : Keeps(mem, context, s, l, Len(context))
  PROVE  Result(d) = Value(Node("attn", l, context[Len(context)]), d.kernel.gives)
<1> DEFINE held == [i \in DOMAIN d.ins |-> Holds(d.ins[i])]
           b == context[Len(context)]
           n == Len(context)
<1>1. held[1].node = Node("q", l, b) /\ held[1].form = d.kernel.takes[1]
  <2>1. q \in DOMAIN NameOf /\ Of(l, context, q) = Node("q", l, b)
    BY DEF NameOf, Of, Copied
  <2> QED BY <2>1, SlotHolds DEF AttendsStores
<1>2. /\ held[2].node = Nodes(context, "k", l, n) /\ held[2].form = d.kernel.takes[2]
      /\ held[3].node = Nodes(context, "v", l, n) /\ held[3].form = d.kernel.takes[3]
  BY StoreHolds DEF AttendsStores
<1>3. DOMAIN held = 1 .. 3
  BY DEF AttendsStores
<1> HIDE DEF held
<1>4. \A i \in DOMAIN held \ Unread(d) : held[i].form = d.kernel.takes[i]
  BY <1>1, <1>2, <1>3
<1>5. Inputs(d, held) = <<Node("q", l, b), Nodes(context, "k", l, n), Nodes(context, "v", l, n)>>
  <2> HIDE DEF b, n
  <2>1. CASE bk = "decode"
    BY <1>1, <1>2, <2>1, AllBlocks DEF Inputs, AttendsStores, n
  <2>2. CASE bk = "prefill"
    BY <1>1, <1>2, <2>2, AllBlocks DEF Inputs, AttendsStores, n
  <2> QED BY <2>1, <2>2
<1>6. held = [i \in DOMAIN d.ins |-> Holds(d.ins[i])]
  BY DEF held
<1>7. d.kernel.op = Attention(Kind[l]) /\ d.weight = NoWeight
  BY DEF AttendsStores
<1> QED BY ONLY <1>4, <1>5, <1>6, <1>7, l \in Layers, AttentionResult

(* An attention over the ring of a sliding layer and the rows of the chunk. *)
LEMMA RingAttended ==
  ASSUME NEW l \in Layers, NEW d, AttendsRing(l, d), \A i \in 1 .. 5 : d.ins[i] \subseteq Buffer,
         NEW p \in Nat, Len(context) = p + 1, Step.q0 = p,
         \A s \in {"q", "k", "v"} : Content(mem, context, "prefill", l, s),
         \A s \in {"k", "v"} : Keeps(mem, context, s, l, p)
  PROVE  Result(d) = Value(Node("attn", l, context[p + 1]), d.kernel.gives)
<1> DEFINE held == [i \in DOMAIN d.ins |-> Holds(d.ins[i])]
           b == context[p + 1]
<1>1. /\ held[1].node = Node("q", l, b) /\ held[1].form = d.kernel.takes[1]
      /\ held[4].node = Node("k", l, b) /\ held[4].form = d.kernel.takes[4]
      /\ held[5].node = Node("v", l, b) /\ held[5].form = d.kernel.takes[5]
  <2>1. \A s \in {"q", "k", "v"} : s \in DOMAIN NameOf /\ Of(l, context, s) = Node(s, l, b)
    BY DEF NameOf, Of, Copied
  <2> QED BY <2>1, SlotHolds DEF AttendsRing
<1>2. p > 0 => /\ held[2].node = Nodes(context, "k", l, p) /\ held[2].form = d.kernel.takes[2]
               /\ held[3].node = Nodes(context, "v", l, p) /\ held[3].form = d.kernel.takes[3]
  BY StoreHolds DEF AttendsRing
<1>3. DOMAIN held = 1 .. 5
  BY DEF AttendsRing
<1> HIDE DEF held
<1>4. \A i \in DOMAIN held \ Unread(d) : held[i].form = d.kernel.takes[i]
  <2>1. p = 0 => Unread(d) = {2, 3}
    BY DEF Unread, AttendsRing
  <2> QED BY <1>1, <1>2, <1>3, <2>1
<1>5. Inputs(d, held) = <<Node("q", l, b), Nodes(context, "k", l, p + 1), Nodes(context, "v", l, p + 1)>>
  <2>1. /\ RingThenOwn(held[2].node, held[4].node) = Nodes(context, "k", l, p + 1)
        /\ RingThenOwn(held[3].node, held[5].node) = Nodes(context, "v", l, p + 1)
    <3>1. RingThenOwn(held[2].node, Node("k", l, context[p + 1])) = Nodes(context, "k", l, p + 1)
      BY <1>2, OldThenOwn
    <3>2. RingThenOwn(held[3].node, Node("v", l, context[p + 1])) = Nodes(context, "v", l, p + 1)
      BY <1>2, OldThenOwn
    <3> QED BY <1>1, <3>1, <3>2
  <2> QED BY <1>1, <2>1 DEF Inputs, AttendsRing
<1>6. held = [i \in DOMAIN d.ins |-> Holds(d.ins[i])]
  BY DEF held
<1>7. d.kernel.op = Attention(Kind[l]) /\ d.weight = NoWeight
  BY DEF AttendsRing
<1> QED BY <1>4, <1>5, <1>6, <1>7, AttentionResult

-----------------------------------------------------------------------------
(* The dispatches that use the stores.                                      *)
LEMMA AppendCalls ==
  ASSUME NEW l \in Layers
  PROVE  /\ Appends("decode", l, "k", DecodeCall(l)["kstore"])
         /\ Appends("decode", l, "v", DecodeCall(l)["vstore"])
         /\ Appends("prefill", l, "k", PrefillCall(l)["kstore"])
         /\ Appends("prefill", l, "v", PrefillCall(l)["vstore"])
<1>a. /\ DecodeAttend(l)[1] = D(KvAppend(KFormat(Kind[l])), NoWeight, <<For(B("k"), Kind[l])>>, KvK(l))
      /\ DecodeAttend(l)[2] = D(KvAppend(F16), NoWeight, <<For(B("v"), Kind[l])>>, KvV(l))
  BY DEF DecodeAttend
<1>b. /\ DoAppends(l)[1] = D(KvAppend(KFormat(Kind[l])), NoWeight, <<For(P("k"), Kind[l])>>, KvK(l))
      /\ DoAppends(l)[2] = D(KvAppend(F16), NoWeight, <<For(P("v"), Kind[l])>>, KvV(l))
  BY DEF DoAppends
<1> USE DEF Appends, KvAppend, Kernel, D, KvForm, KvOf
<1>1. Appends("decode", l, "k", DecodeAttend(l)[1]) /\ Appends("decode", l, "v", DecodeAttend(l)[2])
  <2>1. Appends("decode", l, "k", DecodeAttend(l)[1])
    BY <1>a DEF Slot
  <2>2. Appends("decode", l, "v", DecodeAttend(l)[2])
    BY <1>a DEF Slot
  <2> QED BY ONLY <2>1, <2>2
<1>2. Appends("prefill", l, "k", DoAppends(l)[1]) /\ Appends("prefill", l, "v", DoAppends(l)[2])
  <2>1. Appends("prefill", l, "k", DoAppends(l)[1])
    BY <1>b DEF Slot
  <2>2. Appends("prefill", l, "v", DoAppends(l)[2])
    BY <1>b DEF Slot
  <2> QED BY ONLY <2>1, <2>2
<1> HIDE DEF Appends, KvAppend, Kernel, D, KvForm, KvOf
<1>3. /\ DecodeCall(l)["kstore"] = DecodeAttend(l)[1]
      /\ DecodeCall(l)["vstore"] = DecodeAttend(l)[2]
  BY DEF DecodeCall
<1>4. /\ PrefillCall(l)["kstore"] = DoAppends(l)[1]
      /\ PrefillCall(l)["vstore"] = DoAppends(l)[2]
  BY DEF PrefillCall
<1> QED BY <1>1, <1>2, <1>3, <1>4

Gives(bk, l, t, d) == d.out = Slot(bk, l)[t] /\ d.kernel.gives = Form(Kind[l], t)

(* The attentions of a layer, and where they write.                         *)
LEMMA AttentionCalls ==
  ASSUME NEW l \in Layers
  PROVE  /\ AttendsStores("decode", l, "q", DecodeCall(l)["part"])
         /\ Gives("decode", l, "part", DecodeCall(l)["part"])
         /\ Kind[l] = "global" => AttendsStores("prefill", l, "q8", PrefillCall(l)["attn"])
         /\ Kind[l] = "sliding" => AttendsRing(l, PrefillCall(l)["attn"])
         /\ Gives("prefill", l, "attn", PrefillCall(l)["attn"])
<1>k. Kind[l] \in {"sliding", "global"}
  BY LayersAssumption DEF Layers
<1>a. DecodeAttend(l)[3] =
        D(DecodeAttention(Kind[l]), NoWeight, <<For(B("q"), Kind[l]), KvK(l), KvV(l)>>,
          For(B("part"), Kind[l]))
  BY DEF DecodeAttend
<1>b. AttendLinear(l)[2] =
        D(PrefillFlash, NoWeight, <<Q8(For(P("q"), "global")), KvK(l), KvV(l)>>, For(P("attn"), "global"))
  BY DEF AttendLinear
<1> USE DEF Kernel, D, KvForm, KvOf, Form, Quants
<1>1. AttendsStores("decode", l, "q", DecodeAttend(l)[3])
  BY <1>a DEF Slot, AttendsStores, DecodeAttention
<1>2. Gives("decode", l, "part", DecodeAttend(l)[3])
  BY <1>a DEF Slot, Gives, DecodeAttention
<1>3. Kind[l] = "global" => AttendsStores("prefill", l, "q8", AttendLinear(l)[2])
  BY <1>b DEF Slot, AttendsStores, PrefillFlash, KFormat
<1>4. Kind[l] = "global" => Gives("prefill", l, "attn", AttendLinear(l)[2])
  BY <1>b DEF Slot, Gives, PrefillFlash
<1>5. Kind[l] = "sliding" => AttendsRing(l, AttendRing(l)[1])
  <2>1. PICK ring : ring = AttendRing(l)[1]
    OBVIOUS
  <2>2. Kind[l] = "sliding" => AttendsRing(l, ring)
    BY <2>1 DEF AttendRing, Slot, AttendsRing, PrefillRing, KFormat
  <2> QED BY ONLY <2>1, <2>2, Zenon
<1>6. Kind[l] = "sliding" => Gives("prefill", l, "attn", AttendRing(l)[1])
  BY DEF AttendRing, Slot, Gives, PrefillRing
<1> HIDE DEF Kernel, D, KvForm, KvOf, Form, Quants
<1>7. DecodeCall(l)["part"] = DecodeAttend(l)[3]
  BY DEF DecodeCall
<1>8. /\ Kind[l] = "sliding" => PrefillCall(l)["attn"] = AttendRing(l)[1]
      /\ Kind[l] = "global" => PrefillCall(l)["attn"] = AttendLinear(l)[2]
  BY DEF PrefillCall
<1> QED BY <1>k, <1>1, <1>2, <1>3, <1>4, <1>5, <1>6, <1>7, <1>8

-----------------------------------------------------------------------------
(* Every call of dispatch says what it reads and writes and asks for a      *)
(* barrier.                                                                 *)
Declared(d) ==
  /\ \A j \in DOMAIN d.ins : d.ins[j] \subseteq d.reads
  /\ d.kernel.via # "none" => StepBuffer \in d.reads
  /\ d.writes = d.out
  /\ d.auto = TRUE

(* D does.                                                                  *)
LEMMA DispatchDeclares ==
  ASSUME NEW kernel, NEW weight, NEW ins, NEW out
  PROVE  Declared(D(kernel, weight, ins, out))
BY DEF Declared, D

(* So do the parts of a layer.                                              *)
LEMMA PartsDeclare ==
  ASSUME NEW l \in Layers, NEW g, g = Shift(Kind[l])
  PROVE  /\ \A i \in 1 .. 8 + g : Declared(DecodeProjections(l)[i])
         /\ \A i \in 1 .. 7 : Declared(DecodeAttend(l)[i])
         /\ \A i \in 1 .. 7 : Declared(DecodeFfn(l)[i])
         /\ \A i \in 1 .. 9 + g : Declared(PrefillProjections(l)[i])
         /\ \A i \in 1 .. 2 : Declared(DoAppends(l)[i])
         /\ Declared(AttendRing(l)[1])
         /\ \A i \in 1 .. 2 : Declared(AttendLinear(l)[i])
         /\ \A i \in 1 .. 4 : Declared(PrefillOutput(l)[i])
         /\ \A i \in 1 .. 9 : Declared(PrefillFfn(l)[i])
<1> USE DispatchDeclares DEF Shift
<1>k. Kind[l] \in {"sliding", "global"}
  BY LayersAssumption DEF Layers
<1>1. \A i \in 1 .. 8 + g : Declared(DecodeProjections(l)[i])
  <2>1. CASE Kind[l] = "sliding"
    BY <2>1 DEF DecodeProjections
  <2>2. CASE Kind[l] = "global"
    BY <2>2 DEF DecodeProjections
  <2> QED BY ONLY <1>k, <2>1, <2>2
<1>2. \A i \in 1 .. 7 : Declared(DecodeAttend(l)[i])
  BY DEF DecodeAttend
<1>3. \A i \in 1 .. 7 : Declared(DecodeFfn(l)[i])
  BY DEF DecodeFfn
<1>4. \A i \in 1 .. 9 + g : Declared(PrefillProjections(l)[i])
  <2>1. CASE Kind[l] = "sliding"
    BY <2>1 DEF PrefillProjections
  <2>2. CASE Kind[l] = "global"
    BY <2>2 DEF PrefillProjections
  <2> QED BY ONLY <1>k, <2>1, <2>2
<1>5. \A i \in 1 .. 2 : Declared(DoAppends(l)[i])
  BY DEF DoAppends
<1>6. Declared(AttendRing(l)[1]) /\ \A i \in 1 .. 2 : Declared(AttendLinear(l)[i])
  BY DEF AttendRing, AttendLinear
<1>7. \A i \in 1 .. 4 : Declared(PrefillOutput(l)[i])
  BY DEF PrefillOutput
<1>8. \A i \in 1 .. 9 : Declared(PrefillFfn(l)[i])
  BY DEF PrefillFfn
<1> QED BY ONLY <1>1, <1>2, <1>3, <1>4, <1>5, <1>6, <1>7, <1>8

-----------------------------------------------------------------------------
(* A layer in progress: after i of its dispatches, each slot that is not    *)
(* yet overwritten holds the node of its stage, and the stores of the       *)
(* layers that have appended hold one block more than the others.           *)
StepValue(bk, p) ==
  IF bk = "prefill" THEN [pos |-> p, kv |-> 0, q0 |-> p] ELSE [pos |-> p, kv |-> p + 1, q0 |-> 0]

Prepared(m, ctx, bk) ==
  /\ Have(m, {StepBuffer}, StepValue(bk, Len(ctx) - 1))
  /\ \A j \in Layers : Content(m, ctx, bk, j, "cs")

Live(bk, k, i) ==
  {t \in DOMAIN NameOf \ {"cs"} :
     /\ Rank(bk, k)[t] <= i
     /\ t = "x" => i < Rank(bk, k)["out"]
     /\ t = "q_norm" => i < Rank(bk, k)["q"]
     /\ t = "k_norm" => i < Rank(bk, k)["k"]}

AppendOf(s) == IF s = "k" THEN "kstore" ELSE "vstore"

Rows(ctx, bk, l, i, s, j) ==
  IF j < l \/ (j = l /\ Rank(bk, Kind[l])[AppendOf(s)] <= i) THEN Len(ctx) ELSE Len(ctx) - 1

InLayer(m, ctx, bk, l, i) ==
  /\ Prepared(m, ctx, bk)
  /\ \A t \in Live(bk, Kind[l], i) : Content(m, ctx, bk, l, t)
  /\ \A s \in {"k", "v"}, j \in Layers : Keeps(m, ctx, s, j, Rows(ctx, bk, l, i, s, j))

(* What a dispatch of the layer writes, and where.                          *)
OutOf(bk, l, t) ==
  IF t = "kstore" THEN KvOf("k", l) ELSE IF t = "vstore" THEN KvOf("v", l) ELSE Slot(bk, l)[t]

Outcome(l, ctx, t) ==
  IF t = "kstore" THEN Value(Nodes(ctx, "k", l, Len(ctx)), KvForm("k", l))
  ELSE IF t = "vstore" THEN Value(Nodes(ctx, "v", l, Len(ctx)), KvForm("v", l))
  ELSE Value(Of(l, ctx, t), Form(Kind[l], t))

Written(m, out, value) == [b \in Buffer |-> IF b \in out THEN value ELSE m[b]]

(* A write leaves other operands alone.                                     *)
LEMMA WrittenHave ==
  ASSUME NEW m, NEW out, NEW value, NEW operand, NEW held, Have(m, operand, held),
         operand \cap out = {}
  PROVE  Have(Written(m, out, value), operand, held)
BY DEF Have, Written

(* And its own operand with the value written.                              *)
LEMMA OutHas ==
  ASSUME NEW m, NEW out, NEW value
  PROVE  Have(Written(m, out, value), out, value)
BY DEF Have, Written

(* Which operands are disjoint.                                             *)
LEMMA SlotsApart ==
  ASSUME NEW bk \in {"decode", "prefill"}, NEW l \in Layers, NEW j \in Layers,
         NEW s \in DOMAIN NameOf, NEW t \in DOMAIN NameOf, s # t,
         {s, t} \notin {{"x", "out"}, {"q_norm", "q"}, {"k_norm", "k"}}
  PROVE  Slot(bk, l)[s] \cap Slot(bk, j)[t] = {}
<1> SUFFICES ASSUME NEW b \in Slot(bk, l)[s], b \in Slot(bk, j)[t]
             PROVE  FALSE
  OBVIOUS
<1>1. b.name = NameOf[s] /\ (b.part = "f16" <=> ~(s \in Quants))
  BY SlotKeys DEF Keyed
<1>2. b.name = NameOf[t] /\ (b.part = "f16" <=> ~(t \in Quants))
  BY SlotKeys DEF Keyed
<1> QED BY <1>1, <1>2, NamesDiffer

(* No stage writes a store or the step buffer.                              *)
LEMMA SlotsAndStoresApart ==
  ASSUME NEW bk \in {"decode", "prefill"}, NEW l \in Layers, NEW j \in Layers,
         NEW t \in DOMAIN NameOf, NEW s \in {"k", "v"}
  PROVE  /\ Slot(bk, l)[t] \cap KvOf(s, j) = {}
         /\ StepBuffer \notin Slot(bk, l)[t] /\ StepBuffer \notin KvOf(s, j)
<1>1. \A b \in Slot(bk, l)[t] : b.set \in {"p", "b"}
  BY SlotKeys DEF Keyed, Driver
<1>2. \A b \in KvOf(s, j) : b.set = "kv"
  BY KvKeys
<1>3. StepBuffer.set = ""
  BY DEF StepBuffer, Named
<1> QED BY <1>1, <1>2, <1>3

(* The stores of two layers, or of keys and values, are different buffers.  *)
LEMMA StoresApart ==
  ASSUME NEW l \in Layers, NEW j \in Layers, NEW s \in {"k", "v"}, NEW r \in {"k", "v"},
         s # r \/ l # j
  PROVE  KvOf(s, l) \cap KvOf(r, j) = {}
BY KvKeys

-----------------------------------------------------------------------------
(* The places of the stages.                                                *)
LEMMA RankDomain ==
  ASSUME NEW bk, NEW k
  PROVE  /\ DOMAIN Rank(bk, k) = (DOMAIN NameOf \ {"cs"}) \cup {"kstore", "vstore"}
         /\ DOMAIN NameOf = Stages \cup Quants \cup {"x", "cs", "part"}
         /\ DOMAIN DecodeCall(k) = (Stages \cup {"kstore", "vstore", "part"})
         /\ DOMAIN PrefillCall(k) = (Stages \cup Quants \cup {"kstore", "vstore"})
<1>1. DOMAIN Rank(bk, k) = (DOMAIN NameOf \ {"cs"}) \cup {"kstore", "vstore"}
  <2>1. DOMAIN DecodeRank(k) = (DOMAIN NameOf \ {"cs"}) \cup {"kstore", "vstore"}
    BY DEF DecodeRank, NameOf
  <2>2. DOMAIN PrefillRank(k) = (DOMAIN NameOf \ {"cs"}) \cup {"kstore", "vstore"}
    BY DEF PrefillRank, NameOf
  <2> QED BY <2>1, <2>2 DEF Rank
<1>2. DOMAIN NameOf = Stages \cup Quants \cup {"x", "cs", "part"}
  BY DEF NameOf, Stages, Quants
<1>3. DOMAIN DecodeCall(k) = (Stages \cup {"kstore", "vstore", "part"})
  BY DEF DecodeCall, Stages
<1>4. DOMAIN PrefillCall(k) = (Stages \cup Quants \cup {"kstore", "vstore"})
  BY DEF PrefillCall, Stages, Quants
<1> QED BY <1>1, <1>2, <1>3, <1>4

(* Every place of a layer is that of a stage.                               *)
LEMMA EveryPlaceTaken ==
  ASSUME NEW bk \in {"decode", "prefill"}, NEW k \in {"sliding", "global"}, NEW i \in 1 .. Size(bk, k)
  PROVE  \E t \in DOMAIN Rank(bk, k) : Rank(bk, k)[t] = i
<1> USE DEF Shift, Size, Never
<1>1. CASE bk = "decode"
  <2> \E t \in DOMAIN DecodeRank(k) : DecodeRank(k)[t] = i
    BY <1>1 DEF DecodeRank
  <2> QED BY <1>1 DEF Rank
<1>2. CASE bk = "prefill"
  <2> \E t \in DOMAIN PrefillRank(k) : PrefillRank(k)[t] = i
    BY <1>2 DEF PrefillRank
  <2> QED BY <1>2 DEF Rank
<1> QED BY <1>1, <1>2

(* No two stages have the same place.                                       *)
LEMMA PlacesDiffer ==
  ASSUME NEW bk \in {"decode", "prefill"}, NEW k \in {"sliding", "global"},
         NEW s \in DOMAIN Rank(bk, k), NEW t \in DOMAIN Rank(bk, k), Rank(bk, k)[s] = Rank(bk, k)[t]
  PROVE  s = t \/ Rank(bk, k)[t] = Never
<1> USE DEF Shift, Size, Never
<1>1. CASE bk = "decode"
  BY <1>1 DEF Rank, DecodeRank
<1>2. CASE bk = "prefill"
  BY <1>2 DEF Rank, PrefillRank
<1> QED BY <1>1, <1>2

(* The order of the places, as far as the stores and the reused buffers     *)
(* depend on it.                                                            *)
LEMMA PlacesOrdered ==
  ASSUME NEW bk \in {"decode", "prefill"}, NEW k \in {"sliding", "global"}
  PROVE  /\ \A t \in DOMAIN Rank(bk, k) : Rank(bk, k)[t] \in 0 .. Size(bk, k) \cup {Never}
         /\ Size(bk, k) \in 22 .. 26
         /\ Rank(bk, k)["x"] = 0 /\ Rank(bk, k)["out"] = Size(bk, k)
         /\ Rank(bk, k)["q_norm"] < Rank(bk, k)["q"] /\ Rank(bk, k)["k_norm"] < Rank(bk, k)["k"]
         /\ \A s \in {"k", "v"} : /\ Rank(bk, k)[s] < Rank(bk, k)[AppendOf(s)]
                                  /\ Rank(bk, k)[AppendOf(s)] <= Size(bk, k)
         /\ bk = "decode" => \A s \in {"k", "v"} : Rank(bk, k)[AppendOf(s)] < Rank(bk, k)["part"]
         /\ (bk = "prefill" /\ k = "global") =>
              \A s \in {"k", "v"} : Rank(bk, k)[AppendOf(s)] < Rank(bk, k)["attn"]
         /\ (bk = "prefill" /\ k = "sliding") =>
              \A s \in {"k", "v"} : Rank(bk, k)["attn"] < Rank(bk, k)[AppendOf(s)]
         /\ \A t \in DOMAIN Rank(bk, k) : t = "v_raw" /\ Rank(bk, k)[t] # Never => k = "sliding"
         /\ \A t \in DOMAIN Rank(bk, k) : Rank(bk, k)[t] # Never =>
              IF bk = "decode" THEN t \notin Quants ELSE t # "part"
         /\ bk = "prefill" /\ Rank(bk, k)["q8"] # Never => k = "global"
<1> USE DEF Shift, Size, Never, AppendOf, Quants
<1>1. CASE bk = "decode"
  BY <1>1 DEF Rank, DecodeRank
<1>2. CASE bk = "prefill"
  BY <1>2 DEF Rank, PrefillRank
<1> QED BY <1>1, <1>2

(* What a stage is computed from is there when it is its turn.              *)
Fed(bk, k, t) ==
  \A j \in 1 .. Len(Feeds(bk, k)[t]) : Feeds(bk, k)[t][j] \in Live(bk, k, Rank(bk, k)[t] - 1) \cup {"cs"}

(* So it is for a token,                                                    *)
LEMMA DecodeFed ==
  ASSUME NEW k \in {"sliding", "global"}, NEW t \in Stages \cup Quants, Rank("decode", k)[t] # Never
  PROVE  Fed("decode", k, t)
<1> USE DEF Fed, Feeds, Live, NameOf, Rank, DecodeRank, Shift, Never
<1>1. Fed("decode", k, "xn")
  OBVIOUS
<1>2. Fed("decode", k, "q_raw")
  OBVIOUS
<1>3. Fed("decode", k, "k_raw")
  OBVIOUS
<1>4. k = "sliding" => Fed("decode", k, "v_raw")
  OBVIOUS
<1>5. Fed("decode", k, "q_norm")
  OBVIOUS
<1>6. Fed("decode", k, "k_norm")
  OBVIOUS
<1>7. Fed("decode", k, "v")
  OBVIOUS
<1>8. Fed("decode", k, "q")
  OBVIOUS
<1>9. Fed("decode", k, "k")
  OBVIOUS
<1>10. Fed("decode", k, "attn")
  OBVIOUS
<1>11. Fed("decode", k, "o")
  OBVIOUS
<1>12. Fed("decode", k, "on")
  OBVIOUS
<1>13. Fed("decode", k, "x2")
  OBVIOUS
<1>14. Fed("decode", k, "fin")
  OBVIOUS
<1>15. Fed("decode", k, "gate")
  OBVIOUS
<1>16. Fed("decode", k, "up")
  OBVIOUS
<1>17. Fed("decode", k, "gu")
  OBVIOUS
<1>18. Fed("decode", k, "f")
  OBVIOUS
<1>19. Fed("decode", k, "fn2")
  OBVIOUS
<1>20. Fed("decode", k, "out")
  OBVIOUS
<1>21. \A s \in {"xn8", "q8", "ao8", "fin8", "gu8"} : Rank("decode", k)[s] = Never
  OBVIOUS
<1>22. k = "global" => Rank("decode", k)["v_raw"] = Never
  OBVIOUS
<1> HIDE DEF Fed, Feeds, Live, NameOf, Rank, DecodeRank, Shift, Never
<1> QED
  BY <1>1, <1>2, <1>3, <1>4, <1>5, <1>6, <1>7, <1>8, <1>9, <1>10, <1>11, <1>12, <1>13, <1>14, <1>15, <1>16, <1>17, <1>18, <1>19, <1>20, <1>21, <1>22 DEF Stages, Quants

(* and for a chunk, whose attention is a case of its own.                   *)
LEMMA PrefillFed ==
  ASSUME NEW k \in {"sliding", "global"}, NEW t \in Stages \cup Quants, Rank("prefill", k)[t] # Never, t # "attn"
  PROVE  Fed("prefill", k, t)
<1> USE DEF Fed, Feeds, Live, NameOf, Rank, PrefillRank, Shift, Never
<1>1. Fed("prefill", k, "xn")
  OBVIOUS
<1>2. Fed("prefill", k, "xn8")
  OBVIOUS
<1>3. Fed("prefill", k, "q_raw")
  OBVIOUS
<1>4. Fed("prefill", k, "k_raw")
  OBVIOUS
<1>5. k = "sliding" => Fed("prefill", k, "v_raw")
  OBVIOUS
<1>6. Fed("prefill", k, "q_norm")
  OBVIOUS
<1>7. Fed("prefill", k, "k_norm")
  OBVIOUS
<1>8. Fed("prefill", k, "v")
  OBVIOUS
<1>9. Fed("prefill", k, "q")
  OBVIOUS
<1>10. Fed("prefill", k, "k")
  OBVIOUS
<1>11. k = "global" => Fed("prefill", k, "q8")
  OBVIOUS
<1>12. Fed("prefill", k, "ao8")
  OBVIOUS
<1>13. Fed("prefill", k, "o")
  OBVIOUS
<1>14. Fed("prefill", k, "on")
  OBVIOUS
<1>15. Fed("prefill", k, "x2")
  OBVIOUS
<1>16. Fed("prefill", k, "fin")
  OBVIOUS
<1>17. Fed("prefill", k, "fin8")
  OBVIOUS
<1>18. Fed("prefill", k, "gate")
  OBVIOUS
<1>19. Fed("prefill", k, "up")
  OBVIOUS
<1>20. Fed("prefill", k, "gu")
  OBVIOUS
<1>21. Fed("prefill", k, "gu8")
  OBVIOUS
<1>22. Fed("prefill", k, "f")
  OBVIOUS
<1>23. Fed("prefill", k, "fn2")
  OBVIOUS
<1>24. Fed("prefill", k, "out")
  OBVIOUS
<1>25. \A s \in {} : Rank("prefill", k)[s] = Never
  OBVIOUS
<1>26. k = "global" => Rank("prefill", k)["v_raw"] = Never
  OBVIOUS
<1>27. k = "sliding" => Rank("prefill", k)["q8"] = Never
  OBVIOUS
<1> HIDE DEF Fed, Feeds, Live, NameOf, Rank, PrefillRank, Shift, Never
<1> QED
  BY <1>1, <1>2, <1>3, <1>4, <1>5, <1>6, <1>7, <1>8, <1>9, <1>10, <1>11, <1>12, <1>13, <1>14, <1>15, <1>16, <1>17, <1>18, <1>19, <1>20, <1>21, <1>22, <1>23, <1>24, <1>25, <1>26, <1>27 DEF Stages, Quants

-----------------------------------------------------------------------------
(* So are the operands of the dispatches that use the stores.               *)
LEMMA StoresFed ==
  ASSUME NEW bk \in {"decode", "prefill"}, NEW k \in {"sliding", "global"}
  PROVE  /\ \A s \in {"k", "v"} : s \in Live(bk, k, Rank(bk, k)[AppendOf(s)] - 1)
         /\ bk = "decode" => "q" \in Live(bk, k, Rank(bk, k)["part"] - 1)
         /\ (bk = "prefill" /\ k = "global") => "q8" \in Live(bk, k, Rank(bk, k)["attn"] - 1)
         /\ (bk = "prefill" /\ k = "sliding") =>
              {"q", "k", "v"} \subseteq Live(bk, k, Rank(bk, k)["attn"] - 1)
<1>r. PICK rank : rank = Rank(bk, k)
  OBVIOUS
<1>a. AppendOf("k") = "kstore" /\ AppendOf("v") = "vstore"
  BY DEF AppendOf
<1> DEFINE live(i) ==
      {t \in DOMAIN NameOf \ {"cs"} :
         /\ rank[t] <= i
         /\ t = "x" => i < rank["out"]
         /\ t = "q_norm" => i < rank["q"]
         /\ t = "k_norm" => i < rank["k"]}
<1>n. {"q", "k", "v", "q8"} \subseteq DOMAIN NameOf \ {"cs"}
  BY DEF NameOf
<1>l. \A i : Live(bk, k, i) = live(i)
  BY ONLY <1>r, Zenon DEF Live
<1>1. CASE bk = "decode"
  <2>1. /\ rank["k"] <= rank["kstore"] - 1 /\ rank["v"] <= rank["vstore"] - 1
        /\ rank["q"] <= rank["part"] - 1
    BY <1>1, <1>r DEF Rank, DecodeRank, Shift
  <2> QED BY ONLY <1>1, <1>r, <1>a, <1>n, <1>l, <2>1
<1>2. CASE bk = "prefill"
  <2>1. /\ rank["k"] <= rank["kstore"] - 1 /\ rank["v"] <= rank["vstore"] - 1
        /\ k = "global" => rank["q8"] <= rank["attn"] - 1
        /\ k = "sliding" => /\ rank["q"] <= rank["attn"] - 1 /\ rank["k"] <= rank["attn"] - 1
                            /\ rank["v"] <= rank["attn"] - 1
    BY <1>2, <1>r DEF Rank, PrefillRank, Shift
  <2> QED BY ONLY <1>2, <1>r, <1>a, <1>n, <1>l, <2>1
<1> QED BY <1>1, <1>2

(* The dispatch recorded at each place of a layer is that of a stage.       *)
StageAt(bk, l, i, t) ==
  /\ t \in DOMAIN Call(bk, l) /\ t # "x"
  /\ Rank(bk, Kind[l])[t] = i /\ i # Never
  /\ LayerOf(bk, l)[i] = Call(bk, l)[t]

(* A layer has a dispatch for each of its places, which declares what it    *)
(* uses.                                                                    *)
LEMMA LayerCalls ==
  ASSUME NEW bk \in {"decode", "prefill"}, NEW l \in Layers
  PROVE  /\ Len(LayerOf(bk, l)) = Size(bk, Kind[l]) /\ DOMAIN LayerOf(bk, l) = 1 .. Size(bk, Kind[l])
         /\ \A i \in 1 .. Size(bk, Kind[l]) : Declared(LayerOf(bk, l)[i])
         /\ \A i \in 1 .. Size(bk, Kind[l]) : \E t : StageAt(bk, l, i, t)
<1> DEFINE k == Kind[l]
           g == Shift(k)
<1>k. k \in {"sliding", "global"} /\ g \in {0, 1}
  BY LayersAssumption DEF Layers, Shift
<1>s. g = 1 <=> k = "sliding"
  BY <1>k DEF Shift
<1> HIDE DEF g
<1>1. Len(LayerOf(bk, l)) = Size(bk, k) /\ DOMAIN LayerOf(bk, l) = 1 .. Size(bk, k)
  <2>1. CASE bk = "decode"
    <3>1. Len(RecordLayer(l)) = 22 + g /\ DOMAIN RecordLayer(l) = 1 .. 22 + g
      BY DecodeParts DEF g
    <3> QED BY <2>1, <3>1 DEF LayerOf, Size, g
  <2>2. CASE bk = "prefill"
    <3>1. Len(RecordPrefillLayer(l)) = 26 /\ DOMAIN RecordPrefillLayer(l) = 1 .. 26
      BY PrefillParts DEF g
    <3> QED BY <2>2, <3>1 DEF LayerOf, Size, g
  <2> QED BY <2>1, <2>2
<1>2. ASSUME NEW i \in 1 .. Size(bk, k)
      PROVE  Declared(LayerOf(bk, l)[i])
  <2>1. CASE bk = "decode"
    <3>1. /\ \A j \in 1 .. 8 + g : RecordLayer(l)[j] = DecodeProjections(l)[j]
          /\ \A j \in 1 .. 7 : RecordLayer(l)[8 + g + j] = DecodeAttend(l)[j]
          /\ \A j \in 1 .. 7 : RecordLayer(l)[15 + g + j] = DecodeFfn(l)[j]
      <4>1. l \in Layers /\ g = Shift(Kind[l])
        BY DEF g
      <4>2. \A j \in 1 .. 8 + g : RecordLayer(l)[j] = DecodeProjections(l)[j]
        BY ONLY <4>1, DecodeParts
      <4>3. ASSUME NEW j \in 1 .. 7
            PROVE  RecordLayer(l)[8 + g + j] = DecodeAttend(l)[j] /\ RecordLayer(l)[15 + g + j] = DecodeFfn(l)[j]
        BY ONLY <4>1, DecodeParts, j \in 1 .. 7
      <4> QED BY ONLY <4>2, <4>3
    <3>2. /\ \A j \in 1 .. 8 + g : Declared(DecodeProjections(l)[j])
          /\ \A j \in 1 .. 7 : Declared(DecodeAttend(l)[j])
          /\ \A j \in 1 .. 7 : Declared(DecodeFfn(l)[j])
      BY PartsDeclare DEF g
    <3>3. i \in 1 .. 22 + g /\ LayerOf(bk, l)[i] = RecordLayer(l)[i]
      BY <2>1 DEF Size, LayerOf, g
    <3>4. CASE i <= 8 + g
      <4>1. i \in 1 .. 8 + g
        BY <1>k, <3>3, <3>4
      <4> QED BY <3>1, <3>2, <3>3, <4>1
    <3>5. CASE i > 8 + g /\ i <= 15 + g
      <4> DEFINE j == i - (8 + g)
      <4>1. j \in 1 .. 7 /\ 8 + g + j = i
        BY <1>k, <3>3, <3>5
      <4> HIDE DEF j
      <4> QED BY <3>1, <3>2, <3>3, <4>1
    <3>6. CASE i > 15 + g
      <4> DEFINE j == i - (15 + g)
      <4>1. j \in 1 .. 7 /\ 15 + g + j = i
        BY <1>k, <3>3, <3>6
      <4> HIDE DEF j
      <4> QED BY <3>1, <3>2, <3>3, <4>1
    <3> QED BY <1>k, <3>3, <3>4, <3>5, <3>6
  <2>2. CASE bk = "prefill"
    <3>1. /\ \A j \in 1 .. 9 + g : RecordPrefillLayer(l)[j] = PrefillProjections(l)[j]
          /\ RecordPrefillLayer(l)[10 + g + g] = DoAppends(l)[1]
          /\ RecordPrefillLayer(l)[11 + g + g] = DoAppends(l)[2]
          /\ k = "sliding" => RecordPrefillLayer(l)[11] = AttendRing(l)[1]
          /\ k = "global" => RecordPrefillLayer(l)[12] = AttendLinear(l)[1]
          /\ k = "global" => RecordPrefillLayer(l)[13] = AttendLinear(l)[2]
          /\ \A j \in 1 .. 4 : RecordPrefillLayer(l)[13 + j] = PrefillOutput(l)[j]
          /\ \A j \in 1 .. 9 : RecordPrefillLayer(l)[17 + j] = PrefillFfn(l)[j]
      BY PrefillParts DEF g
    <3>2. /\ \A j \in 1 .. 9 + g : Declared(PrefillProjections(l)[j])
          /\ \A j \in 1 .. 2 : Declared(DoAppends(l)[j])
          /\ Declared(AttendRing(l)[1])
          /\ \A j \in 1 .. 2 : Declared(AttendLinear(l)[j])
          /\ \A j \in 1 .. 4 : Declared(PrefillOutput(l)[j])
          /\ \A j \in 1 .. 9 : Declared(PrefillFfn(l)[j])
      BY PartsDeclare DEF g
    <3>3. i \in 1 .. 26 /\ LayerOf(bk, l)[i] = RecordPrefillLayer(l)[i]
      BY <2>2 DEF Size, LayerOf
    <3>4. CASE i <= 9 + g
      <4>1. i \in 1 .. 9 + g
        BY <1>k, <3>3, <3>4
      <4> QED BY <3>1, <3>2, <3>3, <4>1
    <3>5. CASE i > 9 + g /\ i <= 13
      <4>1. 1 \in 1 .. 2 /\ 2 \in 1 .. 2
        OBVIOUS
      <4>2. CASE k = "sliding"
        <5>1. g = 1 /\ i \in {11, 12, 13}
          BY <1>s, <3>3, <3>5, <4>2
        <5> QED BY <3>1, <3>2, <3>3, <4>1, <4>2, <5>1
      <4>3. CASE k = "global"
        <5>1. g = 0 /\ i \in {10, 11, 12, 13}
          BY <1>k, <1>s, <3>3, <3>5, <4>3
        <5> QED BY <3>1, <3>2, <3>3, <4>1, <4>3, <5>1
      <4> QED BY <1>k, <4>2, <4>3
    <3>6. CASE i > 13 /\ i <= 17
      <4> DEFINE j == i - 13
      <4>1. j \in 1 .. 4 /\ 13 + j = i
        BY <3>3, <3>6
      <4> HIDE DEF j
      <4> QED BY <3>1, <3>2, <3>3, <4>1
    <3>7. CASE i > 17
      <4> DEFINE j == i - 17
      <4>1. j \in 1 .. 9 /\ 17 + j = i
        BY <3>3, <3>7
      <4> HIDE DEF j
      <4> QED BY <3>1, <3>2, <3>3, <4>1
    <3> QED BY <1>k, <3>3, <3>4, <3>5, <3>6, <3>7
  <2> QED BY <2>1, <2>2
<1>3. ASSUME NEW i \in 1 .. Size(bk, k)
      PROVE  \E t : StageAt(bk, l, i, t)
  <2>1. PICK t \in DOMAIN Rank(bk, k) : Rank(bk, k)[t] = i
    BY <1>k, EveryPlaceTaken
  <2>2. i # Never /\ i # 0
    BY <1>k DEF Size, Shift, Never
  <2>3. t # "x"
    BY <1>k, <2>1, <2>2, PlacesOrdered
  <2>4. t \in DOMAIN Call(bk, l)
    <3>1. IF bk = "decode" THEN t \notin Quants ELSE t # "part"
      BY <1>k, <2>1, <2>2, PlacesOrdered
    <3>2. /\ DOMAIN DecodeCall(l) = (Stages \cup {"kstore", "vstore", "part"})
          /\ DOMAIN PrefillCall(l) = (Stages \cup Quants \cup {"kstore", "vstore"})
      BY RankDomain
    <3>3. t \in (Stages \cup Quants \cup {"x", "cs", "part"}) \cup {"kstore", "vstore"} /\ t # "cs"
      <4>1. /\ DOMAIN Rank(bk, k) = (DOMAIN NameOf \ {"cs"}) \cup {"kstore", "vstore"}
            /\ DOMAIN NameOf = Stages \cup Quants \cup {"x", "cs", "part"}
        BY RankDomain
      <4> QED BY <2>1, <4>1
    <3> QED BY <2>3, <3>1, <3>2, <3>3 DEF Call
  <2>5. LayerOf(bk, l)[i] = Call(bk, l)[t]
    <3>1. CASE bk = "decode"
      BY <2>1, <2>2, <2>4, <3>1, DecodeCalls DEF Call, Rank, LayerOf
    <3>2. CASE bk = "prefill"
      BY <2>1, <2>2, <2>4, <3>2, PrefillCalls DEF Call, Rank, LayerOf
    <3> QED BY <3>1, <3>2
  <2> QED BY <2>1, <2>2, <2>3, <2>4, <2>5 DEF StageAt
<1> QED BY <1>1, <1>2, <1>3

-----------------------------------------------------------------------------
(* What each of them computes, where it puts it, and that it finds what it  *)
(* needs: the steps of a layer follow the oracle's.                         *)
LEMMA CallResult ==
  ASSUME NEW bk \in {"decode", "prefill"}, NEW l \in Layers, NEW i, NEW t, NEW d,
         StageAt(bk, l, i, t), d = Call(bk, l)[t], Declared(d),
         d.reads \subseteq Buffer, d.writes \subseteq Buffer,
         StoreIsSeq(mem), Len(context) \in Nat \ {0}, InLayer(mem, context, bk, l, i - 1)
  PROVE  Result(d) = Outcome(l, context, t)
<1> DEFINE k == Kind[l]
           n == Len(context)
           p == n - 1
<1>k. k \in {"sliding", "global"}
  BY LayersAssumption DEF Layers
<1>1. /\ t \in DOMAIN Call(bk, l) /\ t # "x" /\ Rank(bk, k)[t] = i /\ i # Never
      /\ \A j \in DOMAIN d.ins : d.ins[j] \subseteq Buffer
      /\ d.kernel.via # "none" => StepBuffer \in Buffer
      /\ d.out \subseteq Buffer
  BY DEF StageAt, Declared
<1>2. p \in Nat /\ n = p + 1 /\ n \in Nat
  OBVIOUS
<1>3. d.kernel.via # "none" => Step = StepValue(bk, p)
  BY <1>1 DEF InLayer, Prepared, Have, Step
<1>4. \A s \in Live(bk, k, i - 1) \cup {"cs"} : Content(mem, context, bk, l, s) /\ s \in DOMAIN NameOf
  BY DEF InLayer, Prepared, Live, NameOf
<1>5. \A s \in {"k", "v"} :
        Keeps(mem, context, s, l, IF Rank(bk, k)[AppendOf(s)] <= i - 1 THEN n ELSE p)
  <2> SUFFICES ASSUME NEW s \in {"k", "v"}
               PROVE  Keeps(mem, context, s, l, IF Rank(bk, k)[AppendOf(s)] <= i - 1 THEN n ELSE p)
    OBVIOUS
  <2>1. Keeps(mem, context, s, l, Rows(context, bk, l, i - 1, s, l))
    BY DEF InLayer
  <2>2. ~(l < l)
    BY DEF Layers
  <2> QED BY <2>1, <2>2 DEF Rows
<1>d. /\ DOMAIN Rank(bk, k) = (Stages \cup Quants \cup {"x", "cs", "part", "kstore", "vstore"}) \ {"cs"}
      /\ DOMAIN Call(bk, l) \subseteq (Stages \cup Quants \cup {"kstore", "vstore", "part"})
  <2>1. /\ DOMAIN Rank(bk, k) = (DOMAIN NameOf \ {"cs"}) \cup {"kstore", "vstore"}
        /\ DOMAIN NameOf = Stages \cup Quants \cup {"x", "cs", "part"}
    BY RankDomain
  <2>2. /\ DOMAIN DecodeCall(l) = (Stages \cup {"kstore", "vstore", "part"})
        /\ DOMAIN PrefillCall(l) = (Stages \cup Quants \cup {"kstore", "vstore"})
    BY RankDomain
  <2>3. DOMAIN Call(bk, l) \subseteq (Stages \cup Quants \cup {"kstore", "vstore", "part"})
    BY <2>2 DEF Call
  <2> QED BY <2>1, <2>3
<1>r. \A s \in DOMAIN Rank(bk, k) : Rank(bk, k)[s] \in Nat
  <2>1. \A m \in 22 .. 26 : 0 .. m \cup {Never} \subseteq Nat
    BY DEF Never
  <2> QED BY <1>k, <2>1, PlacesOrdered
<1>t. /\ t \in DOMAIN Rank(bk, k) /\ i \in Nat
      /\ \A s \in {"k", "v"} : AppendOf(s) \in DOMAIN Rank(bk, k)
  <2>1. "cs" \notin (Stages \cup Quants \cup {"kstore", "vstore", "part"})
    BY DEF Stages, Quants
  <2>2. t \in DOMAIN Rank(bk, k)
    BY <1>1, <1>d, <2>1
  <2> QED BY <1>1, <1>d, <1>r, <2>2 DEF AppendOf
<1> HIDE DEF n, p
<1>6. ASSUME NEW s \in {"k", "v"}, t = AppendOf(s)
      PROVE  Result(d) = Outcome(l, context, t)
  <2>1. Appends(bk, l, s, d)
    BY <1>6, AppendCalls DEF Call, AppendOf
  <2>2. d.ins[1] \subseteq Buffer /\ Step.pos = p
    BY <1>1, <1>3, <2>1 DEF Appends, StepValue
  <2>3. Content(mem, context, bk, l, s)
    <3>1. s \in Live(bk, k, i - 1)
      BY <1>k, <1>1, <1>6, StoresFed
    <3> QED BY <1>4, <3>1
  <2>4. Keeps(mem, context, s, l, p)
    <3>1. i \in 0 .. Size(bk, k) \cup {Never} /\ Size(bk, k) \in 22 .. 26 /\ Never = 99
      <4> QED BY <1>k, <1>1, <1>t, PlacesOrdered DEF Never
    <3>2. ~(Rank(bk, k)[AppendOf(s)] <= i - 1)
      BY <1>1, <1>6, <3>1
    <3> QED BY <1>5, <3>2
  <2>5. Result(d) = Value(Nodes(context, s, l, p + 1), KvForm(s, l))
    BY <1>1, <1>2, <2>1, <2>2, <2>3, <2>4, AppendResult DEF n
  <2> QED BY <1>2, <1>6, <2>5 DEF Outcome, AppendOf, n
<1>7. \A s \in {"part", "attn"} : Of(l, context, s) = Node("attn", l, context[n])
  BY DEF Of, Copied, n
<1>8. CASE t = "part"
  <2>1. bk = "decode"
    <3>1. "part" \notin (Stages \cup Quants \cup {"kstore", "vstore"})
      BY DEF Stages, Quants
    <3> QED BY <1>1, <1>8, <3>1, RankDomain DEF Call
  <2>2. AttendsStores(bk, l, "q", d) /\ d.kernel.gives = Form(k, "part")
    BY <1>8, <2>1, AttentionCalls DEF Call, Gives
  <2>3. \A j \in 1 .. 3 : d.ins[j] \subseteq Buffer
    BY <1>1, <2>2 DEF AttendsStores
  <2>4. Step.kv = n
    BY <1>2, <1>3, <2>1, <2>2 DEF AttendsStores, StepValue
  <2>5. Content(mem, context, bk, l, "q")
    BY <1>k, <1>1, <1>4, <1>8, <2>1, StoresFed
  <2>6. ASSUME NEW s \in {"k", "v"}
        PROVE  Keeps(mem, context, s, l, n)
    <3>1. Rank(bk, k)[AppendOf(s)] < Rank(bk, k)["part"]
      BY <1>k, <2>1, PlacesOrdered
    <3>2. Rank(bk, k)[AppendOf(s)] <= i - 1
      BY <1>1, <1>8, <1>r, <1>t, <3>1
    <3> QED BY <1>5, <3>2
  <2>7. Result(d) = Value(Node("attn", l, context[n]), d.kernel.gives)
    BY <1>2, <2>1, <2>2, <2>3, <2>4, <2>5, <2>6, StoresAttended DEF n
  <2> QED BY <1>7, <1>8, <2>2, <2>7 DEF Outcome
<1>9. CASE t = "attn" /\ bk = "prefill"
  <2>1. d.kernel.gives = Form(k, "attn")
    BY <1>9, AttentionCalls DEF Call, Gives
  <2>2. Rank(bk, k)["attn"] = i
    BY <1>1, <1>9
  <2>3. \A s \in {"k", "v"} : Rank(bk, k)[AppendOf(s)] \in Nat /\ i \in Nat
    BY <1>r, <1>t
  <2>4. CASE k = "global"
    <3>1. AttendsStores(bk, l, "q8", d)
      BY <1>9, <2>4, AttentionCalls DEF Call
    <3>2. \A j \in 1 .. 3 : d.ins[j] \subseteq Buffer
      BY <1>1, <3>1 DEF AttendsStores
    <3>3. Step.q0 + 1 = n
      BY <1>2, <1>3, <1>9, <3>1 DEF AttendsStores, StepValue
    <3>4. Content(mem, context, bk, l, "q8")
      BY <1>k, <1>4, <1>9, <2>2, <2>4, StoresFed
    <3>5. ASSUME NEW s \in {"k", "v"}
          PROVE  Keeps(mem, context, s, l, n)
      <4>1. Rank(bk, k)[AppendOf(s)] < Rank(bk, k)["attn"]
        BY <1>k, <1>9, <2>4, PlacesOrdered
      <4>2. Rank(bk, k)[AppendOf(s)] <= i - 1
        BY <2>2, <2>3, <4>1
      <4> QED BY <1>5, <4>2
    <3>6. Result(d) = Value(Node("attn", l, context[n]), d.kernel.gives)
      BY <1>2, <1>9, <3>1, <3>2, <3>3, <3>4, <3>5, StoresAttended DEF n
    <3> QED BY <1>7, <1>9, <2>1, <3>6 DEF Outcome
  <2>5. CASE k = "sliding"
    <3>1. AttendsRing(l, d)
      BY <1>9, <2>5, AttentionCalls DEF Call
    <3>2. \A j \in 1 .. 5 : d.ins[j] \subseteq Buffer
      BY <1>1, <3>1 DEF AttendsRing
    <3>3. Step.q0 = p
      BY <1>2, <1>3, <1>9, <3>1 DEF AttendsRing, StepValue
    <3>4. \A s \in {"q", "k", "v"} : Content(mem, context, "prefill", l, s)
      <4>1. {"q", "k", "v"} \subseteq Live(bk, k, i - 1)
        BY <1>k, <1>9, <2>2, <2>5, StoresFed
      <4> QED BY <1>4, <1>9, <4>1
    <3>5. ASSUME NEW s \in {"k", "v"}
          PROVE  Keeps(mem, context, s, l, p)
      <4>1. Rank(bk, k)["attn"] < Rank(bk, k)[AppendOf(s)]
        BY <1>k, <1>9, <2>5, PlacesOrdered
      <4>2. ~(Rank(bk, k)[AppendOf(s)] <= i - 1)
        BY <2>2, <2>3, <4>1
      <4> QED BY <1>5, <4>2
    <3>6. Result(d) = Value(Node("attn", l, context[p + 1]), d.kernel.gives)
      BY <1>2, <3>1, <3>2, <3>3, <3>4, <3>5, RingAttended DEF n
    <3> QED BY <1>2, <1>7, <1>9, <2>1, <3>6 DEF Outcome
  <2> QED BY <1>k, <2>4, <2>5
<1>10. CASE /\ t \notin {"kstore", "vstore", "part"}
            /\ ~(t = "attn" /\ bk = "prefill")
  <2> DEFINE feeds == Feeds(bk, k)[t]
  <2>1. t \in Stages \cup Quants /\ t \in DOMAIN Rank(bk, k)
    BY <1>1, <1>10, <1>d, <1>t
  <2>2. (t = "v_raw" => k = "sliding") /\ (bk = "prefill" => (t = "q8" => k = "global"))
    BY <1>k, <1>1, <2>1, PlacesOrdered
  <2>3. Wired(bk, l, t, d)
    <3>1. CASE bk = "decode"
      BY <1>1, <1>10, <2>2, <3>1, DecodeDispatches DEF Call
    <3>2. CASE bk = "prefill"
      BY <1>1, <1>10, <2>2, <3>2, PrefillDispatches DEF Call
    <3> QED BY <3>1, <3>2
  <2>4. Meant(bk, l, context, t, d)
    <3>1. CASE bk = "decode"
      BY <1>1, <1>10, <2>2, <3>1, DecodeDispatches DEF Call
    <3>2. CASE bk = "prefill"
      BY <1>1, <1>10, <2>2, <3>2, PrefillDispatches DEF Call
    <3> QED BY <3>1, <3>2
  <2>5. Fed(bk, k, t)
    <3>1. Rank(bk, k)[t] # Never
      BY <1>1
    <3> QED BY <1>k, <1>10, <2>1, <3>1, DecodeFed, PrefillFed
  <2>6. ASSUME NEW j \in 1 .. Len(feeds)
        PROVE  /\ feeds[j] \in DOMAIN NameOf /\ Content(mem, context, bk, l, feeds[j])
               /\ d.ins[j] \subseteq Buffer
    <3>1. feeds[j] \in Live(bk, k, i - 1) \cup {"cs"}
      BY <1>1, <2>5 DEF Fed
    <3>2. j \in DOMAIN d.ins
      BY <2>3 DEF Wired, WiredBy
    <3> QED BY <1>1, <1>4, <3>1, <3>2
  <2> HIDE DEF feeds
  <2>7. feeds = Feeds(bk, Kind[l])[t]
    BY DEF feeds
  <2>8. Result(d) = Value(Of(l, context, t), Form(Kind[l], t))
    BY <2>1, <2>2, <2>3, <2>4, <2>6, <2>7, StageResult
  <2> QED BY <1>10, <2>8 DEF Outcome
<1> QED BY <1>6, <1>8, <1>9, <1>10 DEF AppendOf

-----------------------------------------------------------------------------
(* Where the dispatches write.                                              *)
LEMMA CallWrites ==
  ASSUME NEW bk \in {"decode", "prefill"}, NEW l \in Layers, NEW i, NEW t, NEW d,
         StageAt(bk, l, i, t), d = Call(bk, l)[t]
  PROVE  /\ d.out = OutOf(bk, l, t)
         /\ StepBuffer \notin d.out
         /\ \A ctx : Outcome(l, ctx, t).form # Torn
         /\ t \in {"kstore", "vstore"} => d.kernel.op = Store /\ d.kernel.via = "append"
         /\ t \in (DOMAIN NameOf \ {"x", "cs"}) \cup {"kstore", "vstore"}
<1>k. Kind[l] \in {"sliding", "global"}
  BY LayersAssumption DEF Layers
<1>1. /\ t \in DOMAIN Call(bk, l) /\ t # "x" /\ Rank(bk, Kind[l])[t] = i /\ i # Never
  BY DEF StageAt
<1>2. /\ DOMAIN NameOf = Stages \cup Quants \cup {"x", "cs", "part"}
      /\ DOMAIN DecodeCall(l) = (Stages \cup {"kstore", "vstore", "part"})
      /\ DOMAIN PrefillCall(l) = (Stages \cup Quants \cup {"kstore", "vstore"})
  BY RankDomain
<1>3. t \in (DOMAIN NameOf \ {"x", "cs"}) \cup {"kstore", "vstore"}
  <2>1. "cs" \notin Stages \cup Quants \cup {"kstore", "vstore", "part"}
    BY DEF Stages, Quants
  <2> QED BY <1>1, <1>2, <2>1 DEF Call
<1>4. CASE t \in {"kstore", "vstore"}
  <2>1. PICK s \in {"k", "v"} : t = AppendOf(s)
    BY <1>4 DEF AppendOf
  <2>2. Appends(bk, l, s, d)
    BY <2>1, AppendCalls DEF Call, AppendOf
  <2>3. d.out = OutOf(bk, l, t) /\ d.out = KvOf(s, l)
    BY <2>1, <2>2 DEF Appends, OutOf, AppendOf
  <2>4. \A ctx : Outcome(l, ctx, t).form = KvForm(s, l)
    BY <2>1 DEF Outcome, AppendOf, Value
  <2>5. KvForm(s, l) # Torn
    BY DEF KvForm, KFormat, F16, Int8, Torn
  <2>6. StepBuffer \notin d.out
    <3>1. "x" \in DOMAIN NameOf
      BY <1>2
    <3> QED BY <2>3, <3>1, SlotsAndStoresApart
  <2> QED BY <1>3, <2>2, <2>3, <2>4, <2>5, <2>6 DEF Appends
<1>5. CASE t \notin {"kstore", "vstore"}
  <2>1. d.out = Slot(bk, l)[t]
    <3>1. t \in {"part"} \/ (t = "attn" /\ bk = "prefill") => d.out = Slot(bk, l)[t]
      <4>1. t = "part" => bk = "decode"
        <5>1. "part" \notin (Stages \cup Quants \cup {"kstore", "vstore"})
          BY DEF Stages, Quants
        <5> QED BY <1>1, <1>2, <5>1 DEF Call
      <4> QED BY <4>1, AttentionCalls DEF Gives, Call
    <3>2. CASE t # "part" /\ ~(t = "attn" /\ bk = "prefill")
      <4>1. t \in DOMAIN Rank(bk, Kind[l])
        <5>1. DOMAIN Rank(bk, Kind[l]) = (DOMAIN NameOf \ {"cs"}) \cup {"kstore", "vstore"}
          BY RankDomain
        <5> QED BY <1>3, <5>1
      <4>2. (t = "v_raw" => Kind[l] = "sliding") /\ (bk = "prefill" => (t = "q8" => Kind[l] = "global"))
        BY <1>k, <1>1, <4>1, PlacesOrdered
      <4>3. Wired(bk, l, t, d)
        <5>1. CASE bk = "decode"
          BY <1>1, <1>5, <3>2, <4>2, <5>1, DecodeDispatches DEF Call
        <5>2. CASE bk = "prefill"
          BY <1>1, <1>5, <3>2, <4>2, <5>2, PrefillDispatches DEF Call
        <5> QED BY <5>1, <5>2
      <4> QED BY <4>3 DEF Wired, WiredBy
    <3> QED BY <3>1, <3>2
  <2>2. OutOf(bk, l, t) = Slot(bk, l)[t] /\ \A ctx : Outcome(l, ctx, t).form = Form(Kind[l], t)
    BY <1>5 DEF OutOf, Outcome, Value
  <2>3. Form(Kind[l], t) # Torn
    BY DEF Form, Int8, Partial, F32, F16, Torn
  <2>4. StepBuffer \notin d.out
    BY <1>3, <1>5, <2>1, SlotsAndStoresApart
  <2> QED BY <1>3, <1>5, <2>1, <2>2, <2>3, <2>4
<1> QED BY <1>4, <1>5

(* After it the layer is one dispatch further.                              *)
LEMMA LayerStep ==
  ASSUME NEW bk \in {"decode", "prefill"}, NEW l \in Layers, NEW i, NEW t, NEW d,
         StageAt(bk, l, i, t), d = Call(bk, l)[t], NEW m, NEW ctx,
         InLayer(m, ctx, bk, l, i - 1)
  PROVE  InLayer(Written(m, d.out, Outcome(l, ctx, t)), ctx, bk, l, i)
<1> DEFINE k == Kind[l]
           value == Outcome(l, ctx, t)
           m2 == Written(m, d.out, value)
<1>k. k \in {"sliding", "global"}
  BY LayersAssumption DEF Layers
<1>1. Rank(bk, k)[t] = i /\ i # Never
  BY DEF StageAt
<1>2. /\ d.out = OutOf(bk, l, t) /\ StepBuffer \notin d.out
      /\ t \in (DOMAIN NameOf \ {"x", "cs"}) \cup {"kstore", "vstore"}
  <2>1. d.out = OutOf(bk, l, t)
    BY CallWrites
  <2>2. StepBuffer \notin d.out
    BY CallWrites
  <2>3. t \in (DOMAIN NameOf \ {"x", "cs"}) \cup {"kstore", "vstore"}
    BY CallWrites
  <2> QED BY <2>1, <2>2, <2>3
<1>3. DOMAIN Rank(bk, k) = (DOMAIN NameOf \ {"cs"}) \cup {"kstore", "vstore"}
  BY RankDomain
<1>r. \A s \in DOMAIN Rank(bk, k) : Rank(bk, k)[s] \in Nat
  <2>1. \A n \in 22 .. 26 : 0 .. n \cup {Never} \subseteq Nat
    BY DEF Never
  <2> QED BY <1>k, <2>1, PlacesOrdered
<1>n. i \in Nat /\ t \in DOMAIN Rank(bk, k)
  BY <1>1, <1>2, <1>3, <1>r
<1>d. "kstore" \notin DOMAIN NameOf /\ "vstore" \notin DOMAIN NameOf
  BY DEF NameOf
<1> HIDE DEF value
<1>4. ASSUME NEW s \in DOMAIN NameOf, NEW j \in Layers, s # t,
             t \in DOMAIN NameOf => {s, t} \notin {{"x", "out"}, {"q_norm", "q"}, {"k_norm", "k"}},
             NEW held, Have(m, Slot(bk, j)[s], held)
      PROVE  Have(m2, Slot(bk, j)[s], held)
  <2>1. Slot(bk, j)[s] \cap d.out = {}
    <3>1. CASE t \in DOMAIN NameOf
      <4>1. d.out = Slot(bk, l)[t]
        BY <1>2, <1>d, <3>1 DEF OutOf
      <4>2. bk \in {"decode", "prefill"} /\ l \in Layers
        OBVIOUS
      <4>3. Slot(bk, j)[s] \cap Slot(bk, l)[t] = {}
        BY ONLY <1>4, <3>1, <4>2, SlotsApart, Zenon
      <4> QED BY ONLY <4>1, <4>3, Zenon
    <3>2. CASE t \in {"kstore", "vstore"}
      <4>1. d.out = KvOf("k", l) \/ d.out = KvOf("v", l)
        BY <1>2, <3>2 DEF OutOf
      <4> QED BY <4>1, SlotsAndStoresApart
    <3> QED BY <1>2, <3>1, <3>2
  <2> QED BY <1>4, <2>1, WrittenHave
<1>5. Prepared(m2, ctx, bk)
  <2>1. Prepared(m, ctx, bk)
    BY DEF InLayer
  <2>2. Have(m2, {StepBuffer}, StepValue(bk, Len(ctx) - 1))
    <3>1. {StepBuffer} \cap d.out = {}
      BY <1>2
    <3> QED BY <2>1, <3>1, WrittenHave DEF Prepared
  <2>3. ASSUME NEW j \in Layers
        PROVE  Content(m2, ctx, bk, j, "cs")
    <3>1. "cs" \in DOMAIN NameOf /\ "cs" # t
      BY <1>2 DEF NameOf
    <3>2. t \in DOMAIN NameOf => {"cs", t} \notin {{"x", "out"}, {"q_norm", "q"}, {"k_norm", "k"}}
      OBVIOUS
    <3> QED BY <1>4, <2>1, <3>1, <3>2 DEF Prepared, Content
  <2> HIDE DEF m2
  <2> QED BY <2>2, <2>3 DEF Prepared
<1>6. ASSUME NEW s \in Live(bk, k, i)
      PROVE  Content(m2, ctx, bk, l, s)
  <2>1. /\ s \in DOMAIN NameOf /\ s \in DOMAIN Rank(bk, k) /\ Rank(bk, k)[s] <= i
        /\ s = "x" => i < Rank(bk, k)["out"]
        /\ s = "q_norm" => i < Rank(bk, k)["q"]
        /\ s = "k_norm" => i < Rank(bk, k)["k"]
    BY <1>3 DEF Live
  <2>2. CASE s = t
    <3>1. value = Value(Of(l, ctx, s), Form(k, s)) /\ d.out = Slot(bk, l)[s]
      BY <1>2, <1>d, <2>1, <2>2 DEF value, Outcome, OutOf
    <3>2. Have(m2, d.out, value)
      BY OutHas
    <3> HIDE DEF m2
    <3> QED BY <3>1, <3>2 DEF Content
  <2>3. CASE s # t
    <3>1. Rank(bk, k)[s] # Rank(bk, k)[t]
      BY <1>k, <1>1, <1>n, <2>1, <2>3, PlacesDiffer
    <3>2. Rank(bk, k)[s] <= i - 1
      BY <1>1, <1>n, <1>r, <2>1, <3>1
    <3>3. s \in Live(bk, k, i - 1)
      <4>1. \A c \in Nat : i < c => i - 1 < c
        BY <1>n
      <4>2. {"out", "q", "k"} \subseteq DOMAIN Rank(bk, k)
        BY <1>3 DEF NameOf
      <4>3. /\ s = "x" => i - 1 < Rank(bk, k)["out"]
            /\ s = "q_norm" => i - 1 < Rank(bk, k)["q"]
            /\ s = "k_norm" => i - 1 < Rank(bk, k)["k"]
        BY <1>r, <2>1, <4>1, <4>2
      <4>4. s \in DOMAIN NameOf \ {"cs"}
        BY DEF Live
      <4> QED BY <3>2, <4>3, <4>4 DEF Live
    <3>4. {s, t} \notin {{"x", "out"}, {"q_norm", "q"}, {"k_norm", "k"}}
      <4>1. ~(i < i)
        BY <1>n
      <4>2. /\ Rank(bk, k)["q_norm"] < Rank(bk, k)["q"] /\ Rank(bk, k)["k_norm"] < Rank(bk, k)["k"]
            /\ \A a, b \in DOMAIN Rank(bk, k) : ~(Rank(bk, k)[a] < Rank(bk, k)[b] /\ Rank(bk, k)[b] <= Rank(bk, k)[a])
        BY <1>k, <1>r, PlacesOrdered
      <4>3. ~(s = "x" /\ t = "out") /\ ~(s = "q_norm" /\ t = "q") /\ ~(s = "k_norm" /\ t = "k")
        BY <1>1, <2>1, <4>1
      <4>4. ~(s = "q" /\ t = "q_norm") /\ ~(s = "k" /\ t = "k_norm")
        BY <1>1, <1>n, <2>1, <4>2
      <4>5. t # "x"
        BY <1>2
      <4>6. \A a, b : {s, t} = {a, b} => (s = a /\ t = b) \/ (s = b /\ t = a)
        BY <2>3
      <4> QED BY <4>3, <4>4, <4>5, <4>6
    <3>5. Content(m, ctx, bk, l, s)
      BY <3>3 DEF InLayer
    <3> HIDE DEF m2
    <3> QED BY <1>4, <2>1, <2>3, <3>4, <3>5 DEF Content
  <2> QED BY <2>2, <2>3
<1>7. ASSUME NEW s \in {"k", "v"}, NEW j \in Layers
      PROVE  Keeps(m2, ctx, s, j, Rows(ctx, bk, l, i, s, j))
  <2>1. Keeps(m, ctx, s, j, Rows(ctx, bk, l, i - 1, s, j))
    BY DEF InLayer
  <2>2. CASE t = AppendOf(s) /\ j = l
    <3>1. d.out = KvOf(s, l) /\ value = Value(Nodes(ctx, s, l, Len(ctx)), KvForm(s, l))
      BY <1>2, <2>2 DEF OutOf, AppendOf, Outcome, value
    <3>2. Rows(ctx, bk, l, i, s, j) = Len(ctx)
      BY <1>1, <1>n, <2>2 DEF Rows
    <3>3. Have(m2, d.out, value)
      BY OutHas
    <3> HIDE DEF m2
    <3> QED BY <2>2, <3>1, <3>2, <3>3 DEF Keeps
  <2>3. CASE ~(t = AppendOf(s) /\ j = l)
    <3>1. KvOf(s, j) \cap d.out = {}
      <4>1. CASE t \in DOMAIN NameOf
        <5>1. d.out = Slot(bk, l)[t]
          BY <1>2, <1>d, <4>1 DEF OutOf
        <5> QED BY <4>1, <5>1, SlotsAndStoresApart
      <4>2. CASE t \in {"kstore", "vstore"}
        <5>1. PICK r \in {"k", "v"} : t = AppendOf(r)
          BY <4>2 DEF AppendOf
        <5>2. d.out = KvOf(r, l)
          BY <1>2, <5>1 DEF OutOf, AppendOf
        <5> QED BY <2>3, <5>1, <5>2, StoresApart
      <4> QED BY <1>2, <4>1, <4>2
    <3>2. Rows(ctx, bk, l, i, s, j) = Rows(ctx, bk, l, i - 1, s, j)
      <4>1. CASE j # l
        BY <4>1 DEF Rows
      <4>2. CASE j = l
        <5> DEFINE a == Rank(bk, k)[AppendOf(s)]
        <5>1. AppendOf(s) \in DOMAIN Rank(bk, k) /\ AppendOf(s) # t
          BY <1>3, <2>3, <4>2 DEF AppendOf
        <5>2. a \in Nat /\ a # i
          BY <1>k, <1>1, <1>n, <1>r, <5>1, PlacesDiffer
        <5>3. a <= i <=> a <= i - 1
          BY <1>n, <5>2
        <5> QED BY <4>2, <5>3 DEF Rows
      <4> QED BY <4>1, <4>2
    <3> HIDE DEF m2
    <3>3. Rows(ctx, bk, l, i, s, j) > 0 =>
            Have(m, KvOf(s, j), Value(Nodes(ctx, s, j, Rows(ctx, bk, l, i, s, j)), KvForm(s, j)))
      BY <2>1, <3>2 DEF Keeps
    <3> QED BY <3>1, <3>3, WrittenHave DEF Keeps, m2
  <2> QED BY <2>2, <2>3
<1> HIDE DEF m2
<1>8. InLayer(m2, ctx, bk, l, i)
  BY <1>5, <1>6, <1>7 DEF InLayer
<1> QED BY <1>8 DEF m2, value

-----------------------------------------------------------------------------
(* The final norm and the LM head, after i of their two dispatches; the     *)
(* stores have the block of this pass from its last layer on.               *)
RowsOf(bk) == IF bk = "prefill" THEN P("x") ELSE B("x")
TailOf(bk) == IF bk = "decode" THEN RecordLogits ELSE RecordPrefillLogits

AllKept(m, ctx, n) == \A s \in {"k", "v"}, j \in Layers : Keeps(m, ctx, s, j, n)

InTail(m, ctx, bk, i) ==
  LET b == ctx[Len(ctx)]
  IN  /\ AllKept(m, ctx, Len(ctx))
      /\ Have(m, RowsOf(bk), Value(<<"x", NumLayers + 1, b>>, F16))
      /\ i >= 1 => Have(m, B("xn"), Value(FinalNode(b), F16))
      /\ i >= 2 => Have(m, B("logits"), Value(LogitsNode(b), F32))

(* What a finished layer leaves is what the next one starts from.           *)
LEMMA OnlyRowsAtFirst ==
  ASSUME NEW bk \in {"decode", "prefill"}, NEW k \in {"sliding", "global"}
  PROVE  Live(bk, k, 0) = {"x"}
<1> USE DEF Shift, Never, Live, NameOf
<1>1. CASE bk = "decode"
  BY <1>1 DEF Rank, DecodeRank
<1>2. CASE bk = "prefill"
  BY <1>2 DEF Rank, PrefillRank
<1> QED BY <1>1, <1>2

(* The output of a layer is the input of the next one, or of the tail.      *)
LEMMA LayerEnds ==
  ASSUME NEW bk \in {"decode", "prefill"}, NEW l \in Layers, NEW m, NEW ctx,
         InLayer(m, ctx, bk, l, Size(bk, Kind[l]))
  PROVE  /\ l + 1 \in Layers => InLayer(m, ctx, bk, l + 1, 0)
         /\ l + 1 \notin Layers => l = NumLayers /\ InTail(m, ctx, bk, 0)
<1> DEFINE k == Kind[l]
           b == ctx[Len(ctx)]
<1>k. /\ \A j \in Layers : Kind[j] \in {"sliding", "global"}
      /\ Layers = 1 .. NumLayers /\ NumLayers \in Nat /\ l \in Nat
  BY LayersAssumption DEF Layers
<1>1. Rank(bk, k)["out"] = Size(bk, k) /\ Size(bk, k) \in 22 .. 26
  BY <1>k, PlacesOrdered
<1>2. Have(m, RowsOf(bk), Value(<<"x", l + 1, b>>, F16))
  <2>1. "out" \in Live(bk, k, Size(bk, k))
    BY <1>1 DEF Live, NameOf
  <2>2. Content(m, ctx, bk, l, "out")
    BY <2>1 DEF InLayer
  <2>3. Slot(bk, l)["out"] = RowsOf(bk)
    BY DEF Slot, RowsOf
  <2>4. Of(l, ctx, "out") = <<"x", l + 1, b>> /\ Form(k, "out") = F16
    BY DEF Of, Copied, Node, Form, Quants
  <2> QED BY <2>2, <2>3, <2>4 DEF Content
<1>3. ASSUME NEW s \in {"k", "v"}, NEW j \in Layers
      PROVE  /\ Keeps(m, ctx, s, j, IF j <= l THEN Len(ctx) ELSE Len(ctx) - 1)
             /\ Rank(bk, Kind[j])[AppendOf(s)] \in Nat \ {0}
  <2>1. Keeps(m, ctx, s, j, Rows(ctx, bk, l, Size(bk, k), s, j))
    BY DEF InLayer
  <2>2. Rank(bk, k)[AppendOf(s)] <= Size(bk, k)
    BY <1>k, PlacesOrdered
  <2>3. Rows(ctx, bk, l, Size(bk, k), s, j) = IF j <= l THEN Len(ctx) ELSE Len(ctx) - 1
    BY <1>k, <2>2 DEF Rows
  <2>4. Rank(bk, Kind[j])[AppendOf(s)] \in Nat \ {0}
    <3> DEFINE h == Kind[j]
    <3>1. h \in {"sliding", "global"}
      BY <1>k
    <3> HIDE DEF h
    <3>2. Rank(bk, h)[s] < Rank(bk, h)[AppendOf(s)]
      BY <3>1, PlacesOrdered
    <3>3. \A t \in DOMAIN Rank(bk, h) : Rank(bk, h)[t] \in Nat
      <4>1. \A n \in 22 .. 26 : 0 .. n \cup {Never} \subseteq Nat
        BY DEF Never
      <4> QED BY <3>1, <4>1, PlacesOrdered
    <3>4. s \in DOMAIN Rank(bk, h) /\ AppendOf(s) \in DOMAIN Rank(bk, h)
      <4>1. DOMAIN Rank(bk, h) = (DOMAIN NameOf \ {"cs"}) \cup {"kstore", "vstore"}
        BY RankDomain
      <4> QED BY <4>1 DEF NameOf, AppendOf
    <3>5. Rank(bk, h)[AppendOf(s)] \in Nat \ {0}
      BY <3>2, <3>3, <3>4
    <3> QED BY <3>5 DEF h
  <2> QED BY <2>1, <2>3, <2>4
<1>4. ASSUME l + 1 \in Layers
      PROVE  InLayer(m, ctx, bk, l + 1, 0)
  <2>1. Prepared(m, ctx, bk)
    BY DEF InLayer
  <2>2. \A t \in Live(bk, Kind[l + 1], 0) : Content(m, ctx, bk, l + 1, t)
    <3>1. Slot(bk, l + 1)["x"] = RowsOf(bk)
      BY DEF Slot, RowsOf
    <3>2. Of(l + 1, ctx, "x") = <<"x", l + 1, b>> /\ Form(Kind[l + 1], "x") = F16
      BY DEF Of, Copied, Node, Form, Quants
    <3>3. Content(m, ctx, bk, l + 1, "x")
      BY <1>2, <3>1, <3>2 DEF Content
    <3> QED BY <1>4, <1>k, <3>3, OnlyRowsAtFirst
  <2>3. ASSUME NEW s \in {"k", "v"}, NEW j \in Layers
        PROVE  Keeps(m, ctx, s, j, Rows(ctx, bk, l + 1, 0, s, j))
    <3>1. ~(j = l + 1 /\ Rank(bk, Kind[l + 1])[AppendOf(s)] <= 0)
      BY <1>3
    <3>2. Rows(ctx, bk, l + 1, 0, s, j) = IF j <= l THEN Len(ctx) ELSE Len(ctx) - 1
      BY <1>k, <3>1 DEF Rows
    <3> QED BY <1>3, <3>2
  <2> QED BY <2>1, <2>2, <2>3 DEF InLayer
<1>5. ASSUME l + 1 \notin Layers
      PROVE  l = NumLayers /\ InTail(m, ctx, bk, 0)
  <2>1. l = NumLayers /\ \A j \in Layers : j <= l
    BY <1>k, <1>5
  <2>2. AllKept(m, ctx, Len(ctx))
    BY <1>3, <2>1 DEF AllKept
  <2> QED BY <1>2, <2>1, <2>2 DEF InTail
<1> QED BY <1>4, <1>5

-----------------------------------------------------------------------------
(* The dispatches of the tail.                                              *)
TailStage(bk, i, d) ==
  /\ Declared(d) /\ d.kernel.via = "none" /\ DOMAIN d.ins = {1} /\ d.kernel.takes[1] = F16
  /\ d.ins[1] = IF i = 1 THEN RowsOf(bk) ELSE B("xn")
  /\ d.out = IF i = 1 THEN B("xn") ELSE B("logits")
  /\ d.kernel.gives = IF i = 1 THEN F16 ELSE F32
  /\ d.kernel.op = IF i = 1 THEN Rms(Hidden, 1) ELSE <<"lm_head">>
  /\ d.weight = IF i = 1 THEN W("output_norm", 0) ELSE W("token_embd", 0)

(* They are dispatches of the final norm and of the LM head.                *)
LEMMA TailCalls ==
  ASSUME NEW bk \in {"decode", "prefill"}
  PROVE  /\ Len(TailOf(bk)) = 2 /\ DOMAIN TailOf(bk) = 1 .. 2
         /\ \A i \in 1 .. 2 : TailStage(bk, i, TailOf(bk)[i])
<1>1. CASE bk = "decode"
  <2>1. Declared(RecordLogits[1]) /\ Declared(RecordLogits[2])
    BY DispatchDeclares DEF RecordLogits
  <2>2. Len(TailOf(bk)) = 2 /\ DOMAIN TailOf(bk) = 1 .. 2
    BY <1>1 DEF TailOf, RecordLogits
  <2> USE <1>1, <2>1 DEF TailOf, RecordLogits, TailStage, RowsOf, RmsNorm, LmHead, Kernel, D
  <2>c. PICK norm, head : norm = RecordLogits[1] /\ head = RecordLogits[2]
    OBVIOUS
  <2>d. TailOf(bk)[1] = norm /\ TailOf(bk)[2] = head
    BY <2>c
  <2>3. TailStage(bk, 1, norm)
    BY <2>c
  <2>4. TailStage(bk, 2, head)
    BY <2>c
  <2> HIDE DEF TailOf, RecordLogits, TailStage
  <2> QED BY ONLY <2>2, <2>3, <2>4, <2>d
<1>2. CASE bk = "prefill"
  <2>1. Declared(RecordPrefillLogits[1]) /\ Declared(RecordPrefillLogits[2])
    BY DispatchDeclares DEF RecordPrefillLogits
  <2>2. Len(TailOf(bk)) = 2 /\ DOMAIN TailOf(bk) = 1 .. 2
    BY <1>2 DEF TailOf, RecordPrefillLogits
  <2> USE <1>2, <2>1 DEF TailOf, RecordPrefillLogits, TailStage, RowsOf, RmsNorm, LmHead, Kernel, D
  <2>c. PICK norm, head : norm = RecordPrefillLogits[1] /\ head = RecordPrefillLogits[2]
    OBVIOUS
  <2>d. TailOf(bk)[1] = norm /\ TailOf(bk)[2] = head
    BY <2>c
  <2>3. TailStage(bk, 1, norm)
    BY <2>c
  <2>4. TailStage(bk, 2, head)
    BY <2>c
  <2> HIDE DEF TailOf, RecordPrefillLogits, TailStage
  <2> QED BY ONLY <2>2, <2>3, <2>4, <2>d
<1> QED BY <1>1, <1>2

TailOutcome(ctx, i) ==
  IF i = 1 THEN Value(FinalNode(ctx[Len(ctx)]), F16) ELSE Value(LogitsNode(ctx[Len(ctx)]), F32)

(* What they compute.                                                       *)
LEMMA TailResult ==
  ASSUME NEW bk \in {"decode", "prefill"}, NEW i \in 1 .. 2, NEW d, TailStage(bk, i, d),
         d.reads \subseteq Buffer, InTail(mem, context, bk, i - 1)
  PROVE  Result(d) = TailOutcome(context, i)
<1> DEFINE b == context[Len(context)]
           held == [j \in DOMAIN d.ins |-> Holds(d.ins[j])]
           C == IF i = 1 THEN ComputedFinal(b) ELSE ComputedLogits(b)
           node == IF d.kernel.op = Convert THEN {held[1].node}
                   ELSE IF d.kernel.op = Store THEN {Stored(d, held[1].node)}
                   ELSE Yields(d.kernel.op, d.weight, Inputs(d, held), context)
           input == IF i = 1 THEN <<"x", NumLayers + 1, b>> ELSE FinalNode(b)
<1>1. d.ins[1] \subseteq Buffer /\ d.ins[1] # {}
  <2>1. d.ins[1] # {}
    BY DEF TailStage, RowsOf, P, B
  <2> QED BY <2>1 DEF TailStage, Declared
<1>2. Have(mem, d.ins[1], Value(input, F16))
  BY DEF InTail, TailStage
<1>3. Holds(d.ins[1]) = Value(input, F16)
  BY <1>1, <1>2, HoldsValue
<1>4. DOMAIN held = {1} /\ held[1] = Value(input, F16)
  BY <1>3 DEF TailStage
<1>5. d.kernel.op = C[1] /\ d.weight = C[2] /\ C[3] = <<input>>
  BY DEF TailStage, ComputedFinal, ComputedLogits, Rms
<1> HIDE DEF held, node, input
<1>6. held[1].node = input /\ held[1].form = F16
  BY <1>4 DEF Value
<1>7. Inputs(d, held) = <<input>>
  BY <1>4, <1>6 DEF Inputs, TailStage
<1>8. node = IF i = 1 THEN {FinalNode(b)} ELSE {LogitsNode(b)}
  <2>1. d.kernel.op # Convert /\ d.kernel.op # Store
    BY DEF TailStage, Rms, Convert, Store
  <2>2. node = Yields(C[1], C[2], C[3], context)
    BY <1>5, <1>7, <2>1 DEF node
  <2>3. C \in {ComputedFinal(b), ComputedLogits(b)}
    OBVIOUS
  <2>4. C = ComputedFinal(b) <=> i = 1
    BY DEF ComputedFinal, ComputedLogits, W
  <2> HIDE DEF C
  <2> QED BY <2>2, <2>3, <2>4, TailYields
<1>9. \A j \in DOMAIN held \ Unread(d) : held[j].form = d.kernel.takes[j]
  BY <1>4, <1>6 DEF TailStage
<1>10. Result(d) = IF (\A j \in DOMAIN held \ Unread(d) : held[j].form = d.kernel.takes[j]) /\ node # {}
                    THEN [node |-> CHOOSE n \in node : TRUE, form |-> d.kernel.gives]
                    ELSE [node |-> TornNode, form |-> Torn]
  BY Zenon DEF Result, held, node
<1>11. Result(d) = [node |-> IF i = 1 THEN FinalNode(b) ELSE LogitsNode(b), form |-> d.kernel.gives]
  BY <1>8, <1>9, <1>10
<1> QED BY <1>11 DEF TailOutcome, Value, TailStage

(* And leave behind.                                                        *)
LEMMA TailStep ==
  ASSUME NEW bk \in {"decode", "prefill"}, NEW i \in 1 .. 2, NEW d, TailStage(bk, i, d),
         NEW m, NEW ctx, InTail(m, ctx, bk, i - 1)
  PROVE  /\ InTail(Written(m, d.out, TailOutcome(ctx, i)), ctx, bk, i)
         /\ TailOutcome(ctx, i).form # Torn /\ StepBuffer \notin d.out
         /\ \A b \in d.out : b.set # "kv"
<1> DEFINE value == TailOutcome(ctx, i)
           m2 == Written(m, d.out, value)
           b == ctx[Len(ctx)]
<1>1. /\ d.out = IF i = 1 THEN B("xn") ELSE B("logits")
      /\ \A c \in d.out : c.set # "kv"
  BY DEF TailStage, B, Named
<1>2. StepBuffer \notin d.out
  <2>1. (\A c \in B("xn") \cup B("logits") : c.set = "b") /\ StepBuffer.set = ""
    BY DEF StepBuffer, B, Named
  <2> QED BY <1>1, <2>1
<1>3. value.form # Torn
  BY DEF TailOutcome, Value, F16, F32, Torn
<1>4. RowsOf(bk) \cap d.out = {} /\ (i = 2 => B("xn") \cap d.out = {})
  <2>1. \A c \in RowsOf(bk) : c.name = "x"
    BY DEF RowsOf, P, B, Named
  <2>2. (\A c \in B("xn") : c.name = "xn") /\ (\A c \in B("logits") : c.name = "logits")
    BY DEF B, Named
  <2> QED BY <1>1, <2>1, <2>2
<1> HIDE DEF value
<1>5. Have(m2, d.out, value)
  BY OutHas
<1>6. ASSUME NEW s \in {"k", "v"}, NEW j \in Layers
      PROVE  Keeps(m2, ctx, s, j, Len(ctx))
  <2>1. KvOf(s, j) \cap d.out = {}
    BY <1>1, KvKeys
  <2>2. Keeps(m, ctx, s, j, Len(ctx))
    BY DEF InTail, AllKept
  <2> QED BY <2>1, <2>2, WrittenHave DEF Keeps
<1>7. Have(m2, RowsOf(bk), Value(<<"x", NumLayers + 1, b>>, F16))
  BY <1>4, WrittenHave DEF InTail
<1>8. Have(m2, B("xn"), Value(FinalNode(b), F16))
  <2>1. CASE i = 1
    BY <1>1, <1>5, <2>1 DEF value, TailOutcome
  <2>2. CASE i = 2
    BY <1>4, <2>2, WrittenHave DEF InTail
  <2> QED BY <2>1, <2>2
<1>9. i >= 2 => Have(m2, B("logits"), Value(LogitsNode(b), F32))
  BY <1>1, <1>5 DEF value, TailOutcome
<1> HIDE DEF m2
<1>10. InTail(m2, ctx, bk, i)
  BY <1>6, <1>7, <1>8, <1>9 DEF InTail, AllKept
<1> QED BY <1>1, <1>2, <1>3, <1>10 DEF m2, value

-----------------------------------------------------------------------------
(* Where the layers of a recorded graph begin, by layer.                    *)
LastOf(name) == IF name[1] = "decode" THEN NumLayers ELSE SegmentEnd(name[2])
TailLen(name) == IF LastOf(name) = NumLayers /\ name[3] THEN 2 ELSE 0

Layout(off, name) ==
  LET start == name[2]
      last == LastOf(name)
      g == Graphs[name]
  IN  /\ off \in [start .. last + 1 -> Nat] /\ off[start] = 0
      /\ \A l \in start .. last : /\ off[l + 1] = off[l] + Size(name[1], Kind[l])
                                  /\ off[l + 1] <= off[last + 1]
      /\ Len(g) = off[last + 1] + TailLen(name)
      /\ \A l \in start .. last : \A i \in 1 .. Size(name[1], Kind[l]) :
           g[off[l] + i] = LayerOf(name[1], l)[i]
      /\ \A i \in 1 .. TailLen(name) : g[off[last + 1] + i] = TailOf(name[1])[i]

(* The names of the recorded graphs: the layers they cover are layers of    *)
(* the stack.                                                               *)
LEMMA NamesOfGraphs ==
  ASSUME NEW name \in DOMAIN Graphs
  PROVE  /\ name[1] \in {"decode", "prefill"} /\ name[2] \in Layers /\ name[3] \in BOOLEAN
         /\ name[1] = "decode" => name[2] = 1 /\ name[3] = TRUE
         /\ LastOf(name) \in name[2] .. NumLayers
         /\ TailLen(name) \in {0, 2}
         /\ NumLayers \in Nat /\ name[2] \in Nat \ {0} /\ LastOf(name) \in Nat
<1>1. DOMAIN Graphs = {<<"decode", 1, TRUE>>} \cup ({"prefill"} \X Layers \X BOOLEAN)
  BY RecordedAssumption DEF RecordedGraphs
<1>2. NumLayers \in Nat \ {0} /\ SegmentLayers \in Nat \ {0}
  BY LayersAssumption, SegmentAssumption
<1>3. /\ name[1] \in {"decode", "prefill"} /\ name[2] \in Layers /\ name[3] \in BOOLEAN
      /\ name[1] = "decode" => name[2] = 1 /\ name[3] = TRUE
  <2>1. CASE name = <<"decode", 1, TRUE>>
    BY <1>2, <2>1 DEF Layers
  <2>2. CASE name \in {"prefill"} \X Layers \X BOOLEAN
    BY <2>2
  <2> QED BY <1>1, <2>1, <2>2
<1>4. LastOf(name) \in name[2] .. NumLayers
  BY <1>2, <1>3 DEF LastOf, SegmentEnd, Layers
<1>5. TailLen(name) \in {0, 2}
  BY DEF TailLen
<1> QED BY <1>2, <1>3, <1>4, <1>5 DEF Layers

(* A recorded layer is a sequence.                                          *)
LEMMA LayersAreSequences ==
  ASSUME NEW bk \in {"decode", "prefill"}, NEW l \in Layers, NEW S,
         \A i \in 1 .. Size(bk, Kind[l]) : LayerOf(bk, l)[i] \in S
  PROVE  LayerOf(bk, l) \in Seq(S)
<1>k. Kind[l] \in {"sliding", "global"}
  BY LayersAssumption DEF Layers
<1>1. RecordLayer(l) = [i \in DOMAIN RecordLayer(l) |-> RecordLayer(l)[i]]
  <2> USE DEF RecordLayer, DecodeProjections, DecodeAttend, DecodeFfn
  <2>1. CASE Kind[l] = "sliding"
    BY <2>1
  <2>2. CASE Kind[l] = "global"
    BY <2>2
  <2> HIDE DEF RecordLayer, DecodeProjections, DecodeAttend, DecodeFfn
  <2> QED BY ONLY <1>k, <2>1, <2>2
<1>2. RecordPrefillLayer(l) = [i \in DOMAIN RecordPrefillLayer(l) |-> RecordPrefillLayer(l)[i]]
  <2> USE DEF RecordPrefillLayer, PrefillProjections, PrefillAttend, DoAppends, AttendRing,
              AttendLinear, PrefillOutput, PrefillFfn
  <2>1. CASE Kind[l] = "sliding"
    BY <2>1
  <2>2. CASE Kind[l] = "global"
    BY <2>2
  <2> HIDE DEF RecordPrefillLayer, PrefillProjections, PrefillAttend, DoAppends, AttendRing,
               AttendLinear, PrefillOutput, PrefillFfn
  <2> QED BY ONLY <1>k, <2>1, <2>2
<1> DEFINE x == LayerOf(bk, l)
           n == Size(bk, Kind[l])
<1>3. x = [i \in DOMAIN x |-> x[i]]
  BY <1>1, <1>2 DEF LayerOf
<1>4. DOMAIN x = 1 .. n /\ n \in Nat
  <2>1. n \in 22 .. 26
    BY <1>k, PlacesOrdered
  <2> HIDE DEF n, x
  <2>2. DOMAIN x = 1 .. n
    BY LayerCalls DEF x, n
  <2> QED BY <2>1, <2>2
<1> HIDE DEF x, n
<1>5. \A i \in 1 .. n : x[i] \in S
  BY DEF x, n
<1>6. x \in Seq(S)
  BY ONLY <1>3, <1>4, <1>5
<1> QED BY <1>6 DEF x

(* So is the tail.                                                          *)
LEMMA TailIsSequence ==
  ASSUME NEW bk \in {"decode", "prefill"}
  PROVE  TailOf(bk) \in Seq({TailOf(bk)[1], TailOf(bk)[2]})
<1>1. \E u, v : TailOf(bk) = <<u, v>>
  <2>1. \E u, v : RecordLogits = <<u, v>>
    BY DEF RecordLogits
  <2>2. \E u, v : RecordPrefillLogits = <<u, v>>
    BY DEF RecordPrefillLogits
  <2> QED BY <2>1, <2>2 DEF TailOf
<1>2. \A u, v : <<u, v>> \in Seq({u, v}) /\ <<u, v>>[1] = u /\ <<u, v>>[2] = v
  OBVIOUS
<1> QED BY <1>1, <1>2

(* What record_prefill and the decode graph put one behind another.         *)
LEMMA GraphIs ==
  ASSUME NEW name \in DOMAIN Graphs
  PROVE  Graphs[name] =
           FlattenSeq([j \in 1 .. LastOf(name) - name[2] + 1 |-> LayerOf(name[1], name[2] + j - 1)])
           \o (IF TailLen(name) = 2 THEN TailOf(name[1]) ELSE <<>>)
<1>n. /\ name[1] \in {"decode", "prefill"} /\ name[2] \in Layers /\ name[3] \in BOOLEAN
      /\ name[1] = "decode" => name[2] = 1 /\ name[3] = TRUE
      /\ NumLayers \in Nat
  BY NamesOfGraphs
<1>1. Graphs[name] = IF name[1] = "decode" THEN DecodeGraph ELSE PrefillSegment(name[2], name[3])
  BY RecordedAssumption DEF RecordedGraphs
<1>2. CASE name[1] = "decode"
  <2>1. [j \in 1 .. LastOf(name) - name[2] + 1 |-> LayerOf(name[1], name[2] + j - 1)]
          = [l \in Layers |-> RecordLayer(l)]
    <3>1. LastOf(name) - name[2] + 1 = NumLayers
      BY <1>n, <1>2 DEF LastOf
    <3>2. \A j \in 1 .. NumLayers : name[2] + j - 1 = j
      BY <1>n, <1>2
    <3>3. \A j \in 1 .. NumLayers : LayerOf(name[1], name[2] + j - 1) = RecordLayer(j)
      BY <1>2, <3>2 DEF LayerOf
    <3> QED BY <3>1, <3>3 DEF Layers
  <2>2. TailLen(name) = 2
    BY <1>n, <1>2 DEF TailLen, LastOf
  <2> QED BY <1>1, <1>2, <2>1, <2>2 DEF DecodeGraph, TailOf
<1>3. CASE name[1] = "prefill"
  <2>1. LastOf(name) = SegmentEnd(name[2])
    BY <1>3 DEF LastOf
  <2>2. \A j : LayerOf(name[1], name[2] + j - 1) = RecordPrefillLayer(name[2] + j - 1)
    BY <1>3 DEF LayerOf
  <2>3. TailOf(name[1]) = RecordPrefillLogits /\ (TailLen(name) = 2 <=> name[3] /\ SegmentEnd(name[2]) = NumLayers)
    BY <1>3, <2>1 DEF TailOf, TailLen
  <2>4. Graphs[name] = PrefillSegment(name[2], name[3])
    BY <1>1, <1>3
  <2>5. CASE TailLen(name) = 2
    <3>1. name[3] /\ SegmentEnd(name[2]) = NumLayers
      BY <2>3, <2>5
    <3> QED BY <2>1, <2>2, <2>3, <2>4, <2>5, <3>1 DEF PrefillSegment
  <2>6. CASE TailLen(name) # 2
    <3>1. ~(name[3] /\ SegmentEnd(name[2]) = NumLayers)
      BY <2>3, <2>6
    <3> QED BY <2>1, <2>2, <2>3, <2>4, <2>6, <3>1 DEF PrefillSegment
  <2> QED BY <2>5, <2>6
<1> QED BY <1>n, <1>2, <1>3

(* So every graph has its layers one behind another, and the tail behind    *)
(* them.                                                                    *)
LEMMA GraphLayout ==
  ASSUME NEW name \in DOMAIN Graphs
  PROVE  \E off : Layout(off, name)
<1> DEFINE bk == name[1]
           start == name[2]
           last == LastOf(name)
           N == last - start + 1
           seqs == [j \in 1 .. N |-> LayerOf(bk, start + j - 1)]
           tail == IF TailLen(name) = 2 THEN TailOf(bk) ELSE <<>>
           Entries == UNION {{LayerOf(bk, l)[i] : i \in 1 .. Size(bk, Kind[l])} : l \in Layers}
           S == Entries \cup {TailOf(bk)[1], TailOf(bk)[2]}
<1>n. /\ bk \in {"decode", "prefill"} /\ start \in Layers
      /\ last \in start .. NumLayers /\ NumLayers \in Nat /\ start \in Nat \ {0} /\ last \in Nat
      /\ TailLen(name) \in {0, 2} /\ Layers = 1 .. NumLayers
  BY NamesOfGraphs DEF Layers
<1> HIDE DEF bk, last, start
<1>1. N \in Nat \ {0} /\ \A j \in 1 .. N : start + j - 1 \in Layers /\ start + j - 1 \in start .. last
  BY <1>n
<1>2. \A l \in Layers : LayerOf(bk, l) \in Seq(S)
  <2> SUFFICES ASSUME NEW l \in Layers PROVE LayerOf(bk, l) \in Seq(S)
    OBVIOUS
  <2>1. \A i \in 1 .. Size(bk, Kind[l]) : LayerOf(bk, l)[i] \in S
    OBVIOUS
  <2> HIDE DEF S
  <2> QED BY <1>n, <2>1, LayersAreSequences
<1>3. tail \in Seq(S) /\ Len(tail) = TailLen(name) /\ \A i \in 1 .. TailLen(name) : tail[i] = TailOf(bk)[i]
  <2>1. TailOf(bk) \in Seq({TailOf(bk)[1], TailOf(bk)[2]}) /\ Len(TailOf(bk)) = 2
    BY <1>n, TailIsSequence, TailCalls
  <2>2. TailOf(bk) \in Seq(S)
    <3>1. \A T, U, x : T \subseteq U /\ x \in Seq(T) => x \in Seq(U)
      OBVIOUS
    <3>2. {TailOf(bk)[1], TailOf(bk)[2]} \subseteq S
      OBVIOUS
    <3> HIDE DEF S
    <3> QED BY ONLY <2>1, <3>1, <3>2
  <2>3. <<>> \in Seq(S) /\ Len(<<>>) = 0
    OBVIOUS
  <2> HIDE DEF S
  <2>4. CASE TailLen(name) = 2
    BY <2>1, <2>2, <2>4
  <2>5. CASE TailLen(name) = 0
    <3>1. 1 .. 0 = {}
      OBVIOUS
    <3> QED BY <2>3, <2>5, <3>1
  <2> QED BY <1>n, <2>4, <2>5
<1> HIDE DEF S, tail, N
<1>4. seqs \in [1 .. N -> Seq(S)] /\ \A j \in 1 .. N : seqs[j] = LayerOf(bk, start + j - 1)
  BY <1>1, <1>2
<1>5. Graphs[name] = FlattenSeq(seqs) \o tail
  BY GraphIs DEF N, tail, bk, start, last
<1> HIDE DEF seqs
<1>6. PICK o : Offsets(o, S, N, seqs)
  BY <1>1, <1>4, FlattenAt
<1> DEFINE flat == FlattenSeq(seqs)
           off == [l \in start .. last + 1 |-> o[l - start]]
<1>7. /\ o \in [0 .. N -> Nat] /\ o[0] = 0
      /\ \A j \in 1 .. N : o[j] = o[j - 1] + Len(seqs[j]) /\ o[j] <= o[N]
      /\ flat \in Seq(S) /\ Len(flat) = o[N]
      /\ \A j \in 1 .. N : \A i \in 1 .. Len(seqs[j]) : flat[o[j - 1] + i] = seqs[j][i]
  BY <1>6 DEF Offsets
<1>8. /\ off \in [start .. last + 1 -> Nat] /\ off[start] = 0 /\ off[last + 1] = o[N]
      /\ \A l \in start .. last : off[l] = o[l - start] /\ off[l + 1] = o[(l - start) + 1]
  <2>1. N = (last + 1) - start /\ N \in 0 .. N /\ last + 1 \in start .. last + 1 /\ start \in start .. last + 1
        /\ start - start = 0
    BY <1>n DEF N
  <2>2. \A l \in start .. last + 1 : l - start \in 0 .. N
    BY <1>n DEF N
  <2>3. \A l \in start .. last : l \in start .. last + 1 /\ l + 1 \in start .. last + 1 /\ (l + 1) - start = (l - start) + 1
    BY <1>n
  <2> QED BY <1>7, <2>1, <2>2, <2>3
<1>9. /\ Len(flat \o tail) = Len(flat) + Len(tail)
      /\ \A j \in 1 .. Len(flat) : (flat \o tail)[j] = flat[j]
      /\ \A j \in 1 .. Len(tail) : (flat \o tail)[Len(flat) + j] = tail[j]
  <2> HIDE DEF flat
  <2>1. flat \in Seq(S) /\ tail \in Seq(S)
    BY ONLY <1>3, <1>7
  <2> QED BY ONLY <2>1, JoinedAt
<1> HIDE DEF off, flat
<1>10. ASSUME NEW l \in start .. last
       PROVE  /\ off[l + 1] = off[l] + Size(bk, Kind[l]) /\ off[l + 1] <= off[last + 1]
              /\ \A i \in 1 .. Size(bk, Kind[l]) : Graphs[name][off[l] + i] = LayerOf(bk, l)[i]
  <2> DEFINE j == (l - start) + 1
  <2>1. j \in 1 .. N /\ start + j - 1 = l /\ j - 1 = l - start /\ l \in Layers
    BY <1>n DEF N
  <2> HIDE DEF j
  <2>2. seqs[j] = LayerOf(bk, l) /\ Len(seqs[j]) = Size(bk, Kind[l])
    BY <1>n, <1>4, <2>1, LayerCalls
  <2>3. off[l] = o[j - 1] /\ off[l + 1] = o[j] /\ off[last + 1] = o[N]
    BY <1>8, <2>1 DEF j
  <2>4. off[l + 1] = off[l] + Size(bk, Kind[l]) /\ off[l + 1] <= off[last + 1]
    BY <1>7, <2>1, <2>2, <2>3
  <2>5. ASSUME NEW i \in 1 .. Size(bk, Kind[l])
        PROVE  Graphs[name][off[l] + i] = LayerOf(bk, l)[i]
    <3>1. flat[off[l] + i] = LayerOf(bk, l)[i]
      BY <1>7, <2>1, <2>2, <2>3
    <3>2. off[l] + i \in 1 .. Len(flat)
      <4>1. off[l] \in Nat /\ off[l + 1] \in Nat /\ Len(flat) = off[last + 1] /\ Len(flat) \in Nat
        <5>1. j - 1 \in 0 .. N /\ j \in 0 .. N /\ N \in 0 .. N
          BY <1>1, <2>1
        <5> QED BY <1>7, <2>3, <5>1
      <4>2. Size(bk, Kind[l]) \in Nat
        <5>1. Kind[l] \in {"sliding", "global"}
          BY <2>1, LayersAssumption DEF Layers
        <5>2. Size(bk, Kind[l]) \in 22 .. 26
          BY <1>n, <5>1, PlacesOrdered
        <5> QED BY <5>2
      <4> QED BY <2>4, <4>1, <4>2
    <3> QED BY <1>5, <1>9, <3>1, <3>2 DEF flat
  <2> QED BY <2>4, <2>5
<1>11. Len(Graphs[name]) = off[last + 1] + TailLen(name)
  BY <1>3, <1>5, <1>7, <1>8, <1>9 DEF flat
<1>12. \A i \in 1 .. TailLen(name) : Graphs[name][off[last + 1] + i] = TailOf(bk)[i]
  <2>1. Graphs[name] = flat \o tail
    BY <1>5, Zenon DEF flat
  <2>2. off[last + 1] = Len(flat) /\ Len(tail) = TailLen(name)
        /\ \A i \in 1 .. TailLen(name) : tail[i] = TailOf(bk)[i]
    BY <1>3, <1>7, <1>8, Zenon
  <2>3. \A i \in 1 .. Len(tail) : (flat \o tail)[Len(flat) + i] = tail[i]
    BY <1>9, Zenon
  <2> HIDE DEF flat
  <2> QED BY ONLY <2>1, <2>2, <2>3, Zenon
<1>13. Layout(off, name)
  BY <1>8, <1>10, <1>11, <1>12 DEF Layout, start, last, bk
<1> QED BY <1>13

-----------------------------------------------------------------------------
(* Every dispatch of a graph is one of a layer, or one of the tail.         *)
LEMMA DispatchAt ==
  ASSUME NEW name \in DOMAIN Graphs, NEW off, Layout(off, name), NEW i \in 1 .. Len(Graphs[name])
  PROVE  \/ \E l \in name[2] .. LastOf(name) : \E j \in 1 .. Size(name[1], Kind[l]) : i = off[l] + j
         \/ \E j \in 1 .. TailLen(name) : i = off[LastOf(name) + 1] + j
<1> DEFINE start == name[2]
           last == LastOf(name)
           width == [l \in start .. last |-> Size(name[1], Kind[l])]
<1>1. /\ start \in Nat /\ last \in start .. NumLayers /\ NumLayers \in Nat /\ last \in Nat
      /\ TailLen(name) \in {0, 2}
  BY NamesOfGraphs
<1>2. /\ off \in [start .. last + 1 -> Nat] /\ off[start] = 0
      /\ \A l \in start .. last : off[l + 1] = off[l] + width[l]
      /\ Len(Graphs[name]) = off[last + 1] + TailLen(name)
  BY DEF Layout
<1>3. \A l \in start .. last : width[l] = Size(name[1], Kind[l]) /\ width[l] \in Nat
  <2> SUFFICES ASSUME NEW l \in start .. last PROVE Size(name[1], Kind[l]) \in Nat
    OBVIOUS
  <2>1. l \in Layers
    <3>1. start \in Nat \ {0}
      BY NamesOfGraphs
    <3> QED BY <1>1, <3>1 DEF Layers
  <2>2. Kind[l] \in {"sliding", "global"} /\ name[1] \in {"decode", "prefill"}
    BY <2>1, LayersAssumption, NamesOfGraphs DEF Layers
  <2>3. Size(name[1], Kind[l]) \in 22 .. 26
    BY <2>2, PlacesOrdered
  <2> QED BY <2>3
<1>4. /\ i \in Nat \ {0} /\ off[last + 1] \in Nat /\ \A l \in start .. last : off[l] \in Nat /\ off[l + 1] \in Nat
  <2>1. last + 1 \in start .. last + 1 /\ \A l \in start .. last : l \in start .. last + 1 /\ l + 1 \in start .. last + 1
    BY <1>1
  <2> QED BY <1>1, <1>2, <2>1
<1> HIDE DEF width, start, last
<1>5. CASE i > off[last + 1]
  <2> DEFINE j == i - off[last + 1]
  <2>1. j \in 1 .. TailLen(name) /\ i = off[last + 1] + j
    BY <1>1, <1>2, <1>4, <1>5
  <2> QED BY <2>1 DEF last
<1>6. CASE i <= off[last + 1]
  <2> DEFINE T == {l \in start .. last : i <= off[l + 1]}
  <2>1. T \subseteq Nat /\ last \in T
    BY <1>1, <1>6
  <2>2. PICK l \in T : \A y \in T : l <= y
    BY <2>1, LeastNatural
  <2>3. l \in start .. last /\ i <= off[l + 1] /\ l \in Nat
    BY <1>1, <2>2
  <2>4. off[l] < i
    <3>1. CASE l = start
      BY <1>2, <1>4, <3>1
    <3>2. CASE l # start
      <4>1. l - 1 \in start .. last /\ (l - 1) + 1 = l /\ ~(l <= l - 1)
        BY <1>1, <2>3, <3>2
      <4>2. l - 1 \notin T
        BY <2>2, <4>1
      <4>3. ~(i <= off[l])
        BY <4>1, <4>2
      <4> QED BY <1>4, <2>3, <4>3
    <3> QED BY <3>1, <3>2
  <2> DEFINE j == i - off[l]
  <2>5. j \in 1 .. width[l] /\ i = off[l] + j
    BY <1>2, <1>3, <1>4, <2>3, <2>4
  <2> QED BY <1>3, <2>3, <2>5 DEF start, last
<1> QED BY <1>4, <1>5, <1>6

(* What every recorded dispatch is: declared, never a write of the step     *)
(* buffer, an append or no write of a store.                                *)
Proper(d) ==
  /\ Declared(d) /\ StepBuffer \notin d.out
  /\ \/ /\ d.kernel.op = Store /\ d.kernel.via = "append"
        /\ \E l \in Layers, s \in {"k", "v"} : d.out = KvOf(s, l)
     \/ \A b \in d.out : b.set # "kv"

(* Every dispatch of a layer is.                                            *)
LEMMA LayerIsProper ==
  ASSUME NEW bk \in {"decode", "prefill"}, NEW l \in Layers, NEW i \in 1 .. Size(bk, Kind[l])
  PROVE  Proper(LayerOf(bk, l)[i])
<1>1. PICK t : StageAt(bk, l, i, t)
  BY LayerCalls
<1> DEFINE d == Call(bk, l)[t]
<1>2. LayerOf(bk, l)[i] = d
  BY <1>1 DEF StageAt
<1> HIDE DEF d
<1>3. Declared(d)
  BY <1>2, LayerCalls
<1>4. d = Call(bk, l)[t]
  BY DEF d
<1>5. d.out = OutOf(bk, l, t)
  BY <1>1, <1>4, CallWrites
<1>6. StepBuffer \notin d.out
  BY <1>1, <1>4, CallWrites
<1>7. t \in {"kstore", "vstore"} => d.kernel.op = Store /\ d.kernel.via = "append"
  BY <1>1, <1>4, CallWrites
<1>8. t \in (DOMAIN NameOf \ {"x", "cs"}) \cup {"kstore", "vstore"}
  BY <1>1, <1>4, CallWrites
<1>9. CASE t \in {"kstore", "vstore"}
  <2>1. \E s \in {"k", "v"} : d.out = KvOf(s, l)
    BY <1>5, <1>9 DEF OutOf
  <2> QED BY <1>2, <1>3, <1>6, <1>7, <1>9, <2>1 DEF Proper
<1>10. CASE t \notin {"kstore", "vstore"}
  <2>1. t \in DOMAIN NameOf /\ d.out = Slot(bk, l)[t]
    BY <1>5, <1>8, <1>10 DEF OutOf
  <2>2. \A b \in d.out : b.set = Driver(bk)
    BY <2>1, SlotKeys DEF Keyed
  <2>3. Driver(bk) # "kv"
    BY DEF Driver
  <2> QED BY <1>2, <1>3, <1>6, <2>2, <2>3 DEF Proper
<1> QED BY <1>9, <1>10

(* So are those of the tail.                                                *)
LEMMA TailIsProper ==
  ASSUME NEW bk \in {"decode", "prefill"}, NEW i \in 1 .. 2
  PROVE  Proper(TailOf(bk)[i])
<1> DEFINE d == TailOf(bk)[i]
<1>1. TailStage(bk, i, d)
  BY TailCalls
<1> HIDE DEF d
<1>2. d.out = IF i = 1 THEN B("xn") ELSE B("logits")
  BY <1>1 DEF TailStage
<1>3. (\A b \in B("xn") \cup B("logits") : b.set = "b") /\ StepBuffer.set = ""
  BY DEF StepBuffer, B, Named
<1>4. Proper(d)
  BY <1>1, <1>2, <1>3 DEF Proper, TailStage
<1> QED BY <1>4 DEF d

(* So are those of every graph.                                             *)
LEMMA GraphsAreProper ==
  ASSUME NEW name \in DOMAIN Graphs, NEW i \in 1 .. Len(Graphs[name])
  PROVE  Proper(Graphs[name][i])
<1>1. PICK off : Layout(off, name)
  BY GraphLayout
<1>n. /\ name[1] \in {"decode", "prefill"} /\ TailLen(name) \in {0, 2}
      /\ name[2] \in Nat \ {0} /\ LastOf(name) \in name[2] .. NumLayers /\ NumLayers \in Nat
  BY NamesOfGraphs
<1>2. /\ name[1] \in {"decode", "prefill"} /\ TailLen(name) \in {0, 2}
      /\ \A l \in name[2] .. LastOf(name) : l \in Layers
  BY <1>n DEF Layers
<1>3. CASE \E l \in name[2] .. LastOf(name) : \E j \in 1 .. Size(name[1], Kind[l]) : i = off[l] + j
  <2>1. PICK l \in name[2] .. LastOf(name) : \E j \in 1 .. Size(name[1], Kind[l]) : i = off[l] + j
    BY <1>3
  <2>2. PICK j \in 1 .. Size(name[1], Kind[l]) : i = off[l] + j
    BY <2>1
  <2>3. Graphs[name][i] = LayerOf(name[1], l)[j]
    BY <1>1, <2>2 DEF Layout
  <2> QED BY <1>2, <2>3, LayerIsProper
<1>4. CASE \E j \in 1 .. TailLen(name) : i = off[LastOf(name) + 1] + j
  <2>1. PICK j \in 1 .. TailLen(name) : i = off[LastOf(name) + 1] + j
    BY <1>4
  <2>2. Graphs[name][i] = TailOf(name[1])[j] /\ j \in 1 .. 2
    BY <1>1, <1>2, <2>1 DEF Layout
  <2> QED BY <1>2, <2>2, TailIsProper
<1> QED BY <1>1, <1>3, <1>4, DispatchAt

-----------------------------------------------------------------------------
(* A graph in progress: its first n dispatches have brought it to dispatch  *)
(* i of layer l, or of the tail that follows the last layer.                *)
Inside(m, ctx, bk, l, i) == IF l \in Layers THEN InLayer(m, ctx, bk, l, i) ELSE InTail(m, ctx, bk, i)

Spot(off, m, ctx, name, l, i, n) ==
  /\ l \in name[2] .. LastOf(name) + 1 /\ n = off[l] + i
  /\ i \in IF l \in Layers THEN 0 .. Size(name[1], Kind[l]) - 1 ELSE 0 .. TailLen(name)
  /\ Inside(m, ctx, name[1], l, i)

Reached(m, ctx, name, n) ==
  \E off : Layout(off, name) /\ \E l, i : Spot(off, m, ctx, name, l, i, n)

(* The facts about a graph that the steps below need.                       *)
LayoutFacts(off, name) ==
  /\ name[1] \in {"decode", "prefill"} /\ name[2] \in Nat \ {0} /\ TailLen(name) \in {0, 2}
  /\ NumLayers \in Nat /\ LastOf(name) \in name[2] .. NumLayers /\ LastOf(name) \in Nat
  /\ Layers = 1 .. NumLayers
  /\ \A l \in name[2] .. LastOf(name) :
       /\ Size(name[1], Kind[l]) \in Nat \ {0} /\ l \in Layers /\ off[l] \in Nat /\ off[l + 1] \in Nat
       /\ off[l + 1] = off[l] + Size(name[1], Kind[l]) /\ off[l + 1] <= off[LastOf(name) + 1]
       /\ \A i \in 1 .. Size(name[1], Kind[l]) : Graphs[name][off[l] + i] = LayerOf(name[1], l)[i]
  /\ off[name[2]] = 0 /\ off[LastOf(name) + 1] \in Nat
  /\ Len(Graphs[name]) = off[LastOf(name) + 1] + TailLen(name)
  /\ \A i \in 1 .. TailLen(name) :
       Graphs[name][off[LastOf(name) + 1] + i] = TailOf(name[1])[i]

(* A layout has them.                                                       *)
LEMMA LayoutGives ==
  ASSUME NEW name \in DOMAIN Graphs, NEW off, Layout(off, name)
  PROVE  LayoutFacts(off, name)
<1> DEFINE start == name[2]
           last == LastOf(name)
<1>1. /\ name[1] \in {"decode", "prefill"} /\ start \in Nat \ {0} /\ TailLen(name) \in {0, 2}
      /\ NumLayers \in Nat /\ last \in start .. NumLayers /\ last \in Nat
  BY NamesOfGraphs
<1>2. /\ off \in [start .. last + 1 -> Nat] /\ off[start] = 0
      /\ \A l \in start .. last : /\ off[l + 1] = off[l] + Size(name[1], Kind[l])
                                  /\ off[l + 1] <= off[last + 1]
      /\ Len(Graphs[name]) = off[last + 1] + TailLen(name)
      /\ \A l \in start .. last : \A i \in 1 .. Size(name[1], Kind[l]) :
           Graphs[name][off[l] + i] = LayerOf(name[1], l)[i]
      /\ \A i \in 1 .. TailLen(name) : Graphs[name][off[last + 1] + i] = TailOf(name[1])[i]
  BY DEF Layout
<1>3. Layers = 1 .. NumLayers
  BY DEF Layers
<1> HIDE DEF start, last
<1>4. \A l \in start .. last : l \in Layers /\ off[l] \in Nat /\ off[l + 1] \in Nat
  <2>1. \A l \in start .. last : l \in Layers /\ l \in start .. last + 1 /\ l + 1 \in start .. last + 1
    BY <1>1, <1>3
  <2> QED BY <1>2, <2>1
<1>5. off[last + 1] \in Nat
  <2>1. last + 1 \in start .. last + 1
    BY <1>1
  <2> QED BY <1>2, <2>1
<1>6. \A l \in start .. last : Size(name[1], Kind[l]) \in Nat \ {0}
  <2> SUFFICES ASSUME NEW l \in start .. last PROVE Size(name[1], Kind[l]) \in Nat \ {0}
    OBVIOUS
  <2>1. Kind[l] \in {"sliding", "global"}
    BY <1>3, <1>4, LayersAssumption
  <2>2. Size(name[1], Kind[l]) \in 22 .. 26
    BY <1>1, <2>1, PlacesOrdered
  <2> QED BY <2>2
<1> QED BY <1>1, <1>2, <1>3, <1>4, <1>5, <1>6 DEF LayoutFacts, start, last

(* A graph begins where its first layer does.                               *)
LEMMA GraphBegins ==
  ASSUME NEW name \in DOMAIN Graphs, NEW m, NEW ctx, InLayer(m, ctx, name[1], name[2], 0)
  PROVE  Reached(m, ctx, name, 0)
<1>1. PICK off : Layout(off, name)
  BY GraphLayout
<1>2. LayoutFacts(off, name)
  BY <1>1, LayoutGives
<1>3. /\ name[2] \in name[2] .. LastOf(name) /\ name[2] \in name[2] .. LastOf(name) + 1
      /\ off[name[2]] = 0
  BY <1>2 DEF LayoutFacts
<1>4. name[2] \in Layers /\ 0 \in 0 .. Size(name[1], Kind[name[2]]) - 1
  BY <1>2, <1>3 DEF LayoutFacts
<1>5. Spot(off, m, ctx, name, name[2], 0, 0)
  BY <1>3, <1>4 DEF Spot, Inside
<1> QED BY <1>1, <1>5 DEF Reached

(* And has ended when the layer after its last begins, or with the logits.  *)
LEMMA GraphEnds ==
  ASSUME NEW name \in DOMAIN Graphs, NEW m, NEW ctx, Reached(m, ctx, name, Len(Graphs[name]))
  PROVE  Inside(m, ctx, name[1], LastOf(name) + 1, TailLen(name))
<1>1. PICK off : Layout(off, name) /\ \E l, i : Spot(off, m, ctx, name, l, i, Len(Graphs[name]))
  BY DEF Reached
<1>2. PICK l, i : Spot(off, m, ctx, name, l, i, Len(Graphs[name]))
  BY <1>1
<1>3. LayoutFacts(off, name)
  BY <1>1, LayoutGives
<1> DEFINE last == LastOf(name)
<1>4. /\ l \in name[2] .. last + 1 /\ off[last + 1] + TailLen(name) = off[l] + i
      /\ i \in IF l \in Layers THEN 0 .. Size(name[1], Kind[l]) - 1 ELSE 0 .. TailLen(name)
      /\ Inside(m, ctx, name[1], l, i)
  BY <1>2, <1>3 DEF Spot, LayoutFacts
<1>5. ~(l \in name[2] .. last)
  <2> SUFFICES ASSUME l \in name[2] .. last PROVE FALSE
    OBVIOUS
  <2>1. /\ off[l + 1] = off[l] + Size(name[1], Kind[l]) /\ off[l + 1] <= off[last + 1] /\ l \in Layers
        /\ off[l] \in Nat /\ off[l + 1] \in Nat /\ Size(name[1], Kind[l]) \in Nat
        /\ off[last + 1] \in Nat /\ TailLen(name) \in {0, 2}
    BY <1>3 DEF LayoutFacts
  <2>2. i \in 0 .. Size(name[1], Kind[l]) - 1
    BY <1>4, <2>1
  <2> QED BY ONLY <1>4, <2>1, <2>2
<1>6. l = last + 1
  BY <1>3, <1>4, <1>5 DEF LayoutFacts
<1>7. off[last + 1] \in Nat /\ TailLen(name) \in {0, 2} /\ last + 1 \in Nat /\ Layers = 1 .. NumLayers /\ NumLayers \in Nat
  BY <1>3 DEF LayoutFacts
<1>8. i = TailLen(name)
  <2>1. i \in Int
    <3>1. CASE l \in Layers
      <4>1. i \in 0 .. Size(name[1], Kind[l]) - 1
        BY <1>4, <3>1
      <4> QED BY <4>1
    <3>2. CASE l \notin Layers
      BY <1>4, <3>2
    <3> QED BY <3>1, <3>2
  <2> QED BY ONLY <1>4, <1>6, <1>7, <2>1
<1> QED BY <1>4, <1>6, <1>8

(* Its next dispatch finds its operands as the oracle has them, and leaves  *)
(* what the oracle computes.                                                *)
LEMMA GraphStep ==
  ASSUME NEW name \in DOMAIN Graphs, NEW n, n + 1 \in 1 .. Len(Graphs[name]), n \in Nat,
         NEW d, d = Graphs[name][n + 1],
         StoreIsSeq(mem), Len(context) \in Nat \ {0}, Reached(mem, context, name, n)
  PROVE  /\ Reached(Written(mem, d.out, Result(d)), context, name, n + 1)
         /\ Result(d).form # Torn
<1>1. PICK off : Layout(off, name) /\ \E l, i : Spot(off, mem, context, name, l, i, n)
  BY DEF Reached
<1>2. PICK l, i : Spot(off, mem, context, name, l, i, n)
  BY <1>1
<1>3. LayoutFacts(off, name)
  BY <1>1, LayoutGives
<1> DEFINE bk == name[1]
           last == LastOf(name)
           m2 == Written(mem, d.out, Result(d))
<1>4. /\ l \in name[2] .. last + 1 /\ n = off[l] + i
      /\ i \in IF l \in Layers THEN 0 .. Size(bk, Kind[l]) - 1 ELSE 0 .. TailLen(name)
      /\ Inside(mem, context, bk, l, i)
  BY <1>2 DEF Spot
<1>5. /\ bk \in {"decode", "prefill"} /\ name[2] \in Nat \ {0} /\ TailLen(name) \in {0, 2}
      /\ NumLayers \in Nat /\ last \in name[2] .. NumLayers /\ last \in Nat /\ Layers = 1 .. NumLayers
      /\ off[last + 1] \in Nat /\ Len(Graphs[name]) = off[last + 1] + TailLen(name)
  BY <1>3 DEF LayoutFacts
<1>6. Proper(d) /\ d.reads \subseteq Buffer /\ d.writes \subseteq Buffer
  BY GraphsAreProper, GraphsAssumption
<1>7. SUFFICES /\ \E r, j : Spot(off, m2, context, name, r, j, n + 1)
               /\ Result(d).form # Torn
  BY <1>1 DEF Reached
<1>8. CASE l \in name[2] .. last
  <2> DEFINE size == Size(bk, Kind[l])
  <2>1. /\ off[l + 1] = off[l] + size /\ l \in Layers
        /\ off[l] \in Nat /\ off[l + 1] \in Nat /\ size \in Nat
    BY <1>3, <1>8 DEF LayoutFacts
  <2> HIDE DEF size
  <2>2. i \in 0 .. size - 1 /\ i + 1 \in 1 .. size /\ n + 1 = off[l] + (i + 1) /\ (i + 1) - 1 = i
    <3>1. i \in 0 .. size - 1
      BY <1>4, <2>1 DEF size
    <3>2. n = off[l] + i /\ off[l] \in Nat /\ size \in Nat
      BY <1>4, <2>1
    <3> QED BY ONLY <3>1, <3>2
  <2>3. d = LayerOf(bk, l)[i + 1]
    <3>1. \A j \in 1 .. size : Graphs[name][off[l] + j] = LayerOf(bk, l)[j]
      BY <1>3, <1>8, Zenon DEF LayoutFacts, size
    <3>2. Graphs[name][off[l] + (i + 1)] = LayerOf(bk, l)[i + 1]
      BY ONLY <2>2, <3>1, Zenon
    <3> QED BY ONLY d = Graphs[name][n + 1], <2>2, <3>2, Zenon
  <2>4. PICK t : StageAt(bk, l, i + 1, t)
    BY <1>5, <2>1, <2>2, LayerCalls DEF size
  <2>5. d = Call(bk, l)[t]
    BY <2>3, <2>4 DEF StageAt
  <2>6. InLayer(mem, context, bk, l, (i + 1) - 1)
    BY <1>4, <2>1, <2>2 DEF Inside
  <2>7. Result(d) = Outcome(l, context, t)
    <3>1. /\ bk \in {"decode", "prefill"} /\ l \in Layers /\ Declared(d)
          /\ d.reads \subseteq Buffer /\ d.writes \subseteq Buffer
          /\ StoreIsSeq(mem) /\ Len(context) \in Nat \ {0}
      BY <1>5, <1>6, <2>1 DEF Proper
    <3> HIDE DEF bk
    <3> QED BY ONLY <2>4, <2>5, <2>6, <3>1, CallResult
  <2>8. Result(d).form # Torn
    <3>1. bk \in {"decode", "prefill"} /\ l \in Layers
      BY <1>5, <2>1
    <3> HIDE DEF bk
    <3> QED BY ONLY <2>4, <2>5, <2>7, <3>1, CallWrites
  <2>9. InLayer(m2, context, bk, l, i + 1)
    BY <1>5, <2>1, <2>4, <2>5, <2>6, <2>7, LayerStep
  <2>10. CASE i + 1 < size
    <3>1. i + 1 \in 0 .. size - 1
      BY <2>1, <2>2, <2>10
    <3>2. Spot(off, m2, context, name, l, i + 1, n + 1)
      BY <1>4, <2>1, <2>2, <2>9, <3>1 DEF Spot, Inside, size
    <3> QED BY <2>8, <3>2
  <2>11. CASE i + 1 = size
    <3>1. InLayer(m2, context, bk, l, Size(bk, Kind[l]))
      BY <2>9, <2>11 DEF size
    <3>2. Inside(m2, context, bk, l + 1, 0)
      BY <1>5, <2>1, <3>1, LayerEnds DEF Inside
    <3>3. l + 1 \in name[2] .. last + 1 /\ n + 1 = off[l + 1] + 0
      <4>1. /\ l \in name[2] .. last /\ last \in Nat /\ name[2] \in Nat \ {0}
            /\ off[l + 1] = off[l] + size /\ n + 1 = off[l] + (i + 1) /\ i + 1 = size
            /\ off[l + 1] \in Nat /\ size \in Nat
        BY <1>5, <1>8, <2>1, <2>2, <2>11
      <4> HIDE DEF last
      <4>2. l + 1 \in name[2] .. last + 1
        BY ONLY <4>1
      <4>3. n + 1 = off[l + 1]
        BY ONLY <4>1
      <4> QED BY ONLY <4>1, <4>2, <4>3
    <3>4. 0 \in IF l + 1 \in Layers THEN 0 .. Size(bk, Kind[l + 1]) - 1 ELSE 0 .. TailLen(name)
      <4>1. CASE l + 1 \in Layers
        <5>1. Kind[l + 1] \in {"sliding", "global"}
          BY <1>5, <4>1, LayersAssumption
        <5>2. Size(bk, Kind[l + 1]) \in 22 .. 26
          BY <1>5, <5>1, PlacesOrdered
        <5>3. \A z \in 22 .. 26 : 0 \in 0 .. z - 1
          OBVIOUS
        <5> QED BY <4>1, <5>2, <5>3
      <4>2. CASE l + 1 \notin Layers
        BY <1>5, <4>2
      <4> QED BY <4>1, <4>2
    <3> HIDE DEF m2
    <3>5. Spot(off, m2, context, name, l + 1, 0, n + 1)
      BY <3>2, <3>3, <3>4 DEF Spot
    <3> QED BY <2>8, <3>5
  <2> QED BY <2>1, <2>2, <2>10, <2>11
<1>9. CASE l = last + 1
  <2>1. n < off[last + 1] + TailLen(name) /\ n = off[last + 1] + i
    BY <1>4, <1>5, <1>9
  <2>2. l \notin Layers /\ i \in 0 .. TailLen(name)
    <3>1. CASE l \in Layers
      <4>1. TailLen(name) = 0
        BY <1>5, <1>9, <3>1 DEF TailLen
      <4>2. Kind[l] \in {"sliding", "global"}
        BY <1>5, <3>1, LayersAssumption
      <4>3. Size(bk, Kind[l]) \in 22 .. 26
        BY <1>5, <4>2, PlacesOrdered
      <4>4. i \in Nat
        <5>1. \A z \in 22 .. 26 : 0 .. z - 1 \subseteq Nat
          OBVIOUS
        <5> QED BY <1>4, <3>1, <4>3, <5>1
      <4> QED BY <1>5, <2>1, <4>1, <4>4
    <3>2. CASE l \notin Layers
      BY <1>4, <3>2
    <3> QED BY <3>1, <3>2
  <2>3. i + 1 \in 1 .. TailLen(name) /\ i + 1 \in 1 .. 2 /\ (i + 1) - 1 = i /\ n + 1 = off[last + 1] + (i + 1)
    <3>1. /\ TailLen(name) \in {0, 2} /\ off[last + 1] \in Nat /\ i \in 0 .. TailLen(name)
          /\ n = off[last + 1] + i /\ n < off[last + 1] + TailLen(name)
      BY <1>5, <2>1, <2>2, Zenon
    <3> HIDE DEF last
    <3> QED BY ONLY <3>1
  <2>4. d = TailOf(bk)[i + 1]
    <3>1. \A j \in 1 .. TailLen(name) : Graphs[name][off[last + 1] + j] = TailOf(bk)[j]
      BY <1>3, Zenon DEF LayoutFacts
    <3>2. Graphs[name][off[last + 1] + (i + 1)] = TailOf(bk)[i + 1]
      BY ONLY <2>3, <3>1, Zenon
    <3> QED BY ONLY d = Graphs[name][n + 1], <2>3, <3>2, Zenon
  <2>5. TailStage(bk, i + 1, d)
    BY <1>5, <2>3, <2>4, TailCalls
  <2>6. InTail(mem, context, bk, (i + 1) - 1)
    BY <1>4, <2>2, <2>3 DEF Inside
  <2>7. Result(d) = TailOutcome(context, i + 1)
    BY <1>5, <1>6, <2>3, <2>5, <2>6, TailResult
  <2>8. InTail(m2, context, bk, i + 1) /\ Result(d).form # Torn
    <3>1. InTail(Written(mem, d.out, TailOutcome(context, i + 1)), context, bk, i + 1)
      BY <1>5, <2>3, <2>5, <2>6, TailStep
    <3>2. TailOutcome(context, i + 1).form # Torn
      BY <1>5, <2>3, <2>5, <2>6, TailStep
    <3> QED BY <2>7, <3>1, <3>2
  <2>9. i + 1 \in 0 .. TailLen(name)
    BY <2>2, <2>3
  <2> HIDE DEF m2
  <2>10. Spot(off, m2, context, name, l, i + 1, n + 1)
    BY <1>4, <1>9, <2>2, <2>3, <2>8, <2>9 DEF Spot, Inside
  <2> QED BY <2>8, <2>10
<1>10. l \in name[2] .. last \/ l = last + 1
  BY <1>4, <1>5
<1> QED BY <1>8, <1>9, <1>10

-----------------------------------------------------------------------------
(* The context is one block longer than pos while one is in progress.       *)
ContextInv ==
  /\ pos \in Nat /\ context \in Seq(Nat)
  /\ blk.pc = "idle" => pos <= Len(context)
  /\ blk.pc \in {"submit", "wait"} => Len(context) = pos + 1 /\ context[pos + 1] = blk.id
  /\ blk.pc = "read" => pos > 0 /\ Len(context) = pos /\ context[pos] = blk.id

(* It is so at first.                                                       *)
LEMMA ContextInit == ForwardInit => ContextInv
BY DEF ForwardInit, ContextInv, NoBlock

(* What a new block makes of the context.                                   *)
LEMMA ContextGrows ==
  ASSUME NEW ctx \in Seq(Nat), NEW p \in Nat, p <= Len(ctx), NEW id \in Nat,
         NEW grown, grown = Append(SubSeq(ctx, 1, p), id)
  PROVE  /\ grown \in Seq(Nat) /\ Len(grown) = p + 1 /\ grown[p + 1] = id
         /\ \A i \in 1 .. p : grown[i] = ctx[i]
<1>1. /\ SubSeq(ctx, 1, p) \in Seq(Nat) /\ Len(SubSeq(ctx, 1, p)) = p
      /\ \A i \in 1 .. p : SubSeq(ctx, 1, p)[i] = ctx[i]
  OBVIOUS
<1> QED BY <1>1

(* And stays so.                                                            *)
LEMMA ContextStep == BlockInv /\ ContextInv /\ [ForwardNext]_vars => ContextInv'
<1> SUFFICES ASSUME BlockInv, ContextInv, [ForwardNext]_vars
             PROVE  ContextInv'
  OBVIOUS
<1>b. blk \in BlockType
  BY DEF BlockInv
<1>1. ASSUME NEW kind \in {"prefill", "decode"}, NEW last \in BOOLEAN, Begin(kind, last)
      PROVE  ContextInv'
  <2>1. /\ context' = Append(SubSeq(context, 1, pos), blk.id + 1) /\ pos' = pos /\ blk.pc = "idle"
        /\ blk' = [pc |-> "submit", kind |-> kind, id |-> blk.id + 1, start |-> 1, last |-> last]
    BY <1>1 DEF Begin
  <2>2. pos \in Nat /\ context \in Seq(Nat) /\ pos <= Len(context) /\ blk.id + 1 \in Nat
    BY <1>b, <2>1 DEF ContextInv, BlockType
  <2>3. context' \in Seq(Nat) /\ Len(context') = pos + 1 /\ context'[pos + 1] = blk.id + 1
    BY <2>1, <2>2, ContextGrows
  <2>4. blk'.pc = "submit" /\ blk'.id = blk.id + 1
    BY <2>1
  <2> QED BY <2>1, <2>2, <2>3, <2>4 DEF ContextInv
<1>2. CASE SubmitNext
  BY <1>b, <1>2 DEF SubmitNext, ContextInv, BlockType
<1>3. CASE SubmissionReturns
  <2> DEFINE done == NextStart > NumLayers
  <2>1. /\ blk.pc = "wait" /\ context' = context
        /\ blk' = [blk EXCEPT !.start = NextStart,
                              !.pc = IF ~done THEN "submit" ELSE IF blk.last THEN "read" ELSE "idle"]
        /\ pos' = IF done THEN pos + 1 ELSE pos
    BY <1>3 DEF SubmissionReturns
  <2> HIDE DEF done
  <2>2. /\ blk'.pc = IF ~done THEN "submit" ELSE IF blk.last THEN "read" ELSE "idle"
        /\ blk'.id = blk.id
    BY <1>b, <2>1 DEF BlockType
  <2>3. pos \in Nat /\ context \in Seq(Nat) /\ Len(context) = pos + 1 /\ context[pos + 1] = blk.id
    BY <2>1 DEF ContextInv
  <2>4. CASE done
    BY <2>1, <2>2, <2>3, <2>4 DEF ContextInv
  <2>5. CASE ~done
    BY <2>1, <2>2, <2>3, <2>5 DEF ContextInv
  <2> QED BY <2>4, <2>5
<1>4. CASE SubmissionFails
  <2>1. blk' = [blk EXCEPT !.pc = "idle"] /\ pos' = pos /\ context' = context /\ blk.pc \in {"submit", "wait"}
    BY <1>4 DEF SubmissionFails
  <2> QED BY <1>b, <2>1 DEF ContextInv, BlockType
<1>5. CASE ReadLogits
  BY <1>b, <1>5 DEF ReadLogits, ContextInv, BlockType
<1>6. CASE Reset
  <2>1. Len(context) \in Nat
    BY DEF ContextInv
  <2> QED BY <1>6, <2>1 DEF Reset, ContextInv
<1>7. CASE GpuStep \/ UNCHANGED vars
  BY <1>7 DEF GpuStep, GpuStart, GpuFinish, driverVars, vars, ContextInv
<1> QED BY <1>1, <1>2, <1>3, <1>4, <1>5, <1>6, <1>7 DEF ForwardNext, HostStep

-----------------------------------------------------------------------------
(* Whatever is in the buffers, a store is a sequence of rows: only appends  *)
(* write one.                                                               *)
StoreInv ==
  ~overrun => /\ StoreIsSeq(mem)
              /\ StepBuffer \in Buffer => Step.pos \in Nat

(* Empty stores are sequences.                                              *)
LEMMA StoreInit == ForwardInit => StoreInv
<1> SUFFICES ASSUME ForwardInit PROVE StoreInv
  OBVIOUS
<1>1. mem = [b \in Buffer |-> IF b = StepBuffer THEN [pos |-> 0, kv |-> 0, q0 |-> 0] ELSE Blank(b)]
  BY DEF ForwardInit
<1>2. ASSUME NEW b \in Buffer, b.set = "kv"
      PROVE  \E S : mem[b].node \in Seq(S)
  <2>1. StepBuffer.set = ""
    BY DEF StepBuffer, Named
  <2>2. mem[b].node = <<>>
    BY <1>1, <1>2, <2>1 DEF Blank
  <2>3. <<>> \in Seq({})
    OBVIOUS
  <2> QED BY <2>2, <2>3
<1>3. StepBuffer \in Buffer => Step.pos = 0
  BY <1>1 DEF Step
<1> QED BY <1>2, <1>3 DEF StoreInv, StoreIsSeq

(* What a block stages: its rows, both rope tables and the step state, and  *)
(* nothing in the stores.                                                   *)
LEMMA StagedHolds ==
  ASSUME NEW bk \in {"decode", "prefill"}, NEW id, NEW staged, staged = Staged(bk, id)
  PROVE  /\ Have(staged, RowsOf(bk), Value(<<"x", 1, id>>, F16))
         /\ \A l \in Layers : Have(staged, Slot(bk, l)["cs"], Value(<<Kind[l], 0, id>>, F32))
         /\ Have(staged, {StepBuffer}, StepValue(bk, pos))
         /\ \A b \in Buffer : b.set = "kv" => staged[b] = mem[b]
<1> DEFINE n == Driver(bk)
           x == {Named(n, "x")}
           sliding == For({Named(n, "cs")}, "sliding")
           global == For({Named(n, "cs")}, "global")
<1>1. \A b \in x : b.set = n /\ b.name = "x"
  BY DEF Named
<1>2. \A b \in sliding : b.set = n /\ b.name = "cs" /\ b.kind = "sliding"
  BY DEF For, Named
<1>3. \A b \in global : b.set = n /\ b.name = "cs" /\ b.kind = "global"
  BY DEF For, Named
<1>4. StepBuffer.set = "" /\ n # "" /\ n # "kv"
  BY DEF StepBuffer, Named, Driver
<1>5. \A name : (IF bk = "prefill" THEN P(name) ELSE B(name)) = {Named(n, name)}
  BY DEF P, B, Driver
<1> HIDE DEF n, x, sliding, global
<1>6. staged = [b \in Buffer |->
                  CASE b \in x -> Value(<<"x", 1, id>>, F16)
                    [] b \in sliding -> Value(<<"sliding", 0, id>>, F32)
                    [] b \in global -> Value(<<"global", 0, id>>, F32)
                    [] b = StepBuffer -> StepValue(bk, pos)
                    [] OTHER -> mem[b]]
  <2>1. CASE bk = "prefill"
    <3>1. P("x") = x /\ For(P("cs"), "sliding") = sliding /\ For(P("cs"), "global") = global
      BY <2>1 DEF P, Driver, n, x, sliding, global
    <3> QED BY <2>1, <3>1 DEF Staged, StepValue
  <2>2. CASE bk = "decode"
    <3>1. B("x") = x /\ For(B("cs"), "sliding") = sliding /\ For(B("cs"), "global") = global
      BY <2>2 DEF B, Driver, n, x, sliding, global
    <3> QED BY <2>2, <3>1 DEF Staged, StepValue
  <2> QED BY <2>1, <2>2
<1>7. \A b \in x : b \notin sliding /\ b \notin global /\ b # StepBuffer
  BY <1>1, <1>2, <1>3, <1>4
<1>8. \A b \in sliding : b \notin x /\ b \notin global /\ b # StepBuffer
  BY <1>1, <1>2, <1>3, <1>4
<1>9. \A b \in global : b \notin x /\ b \notin sliding /\ b # StepBuffer
  BY <1>1, <1>2, <1>3, <1>4
<1>10. Have(staged, x, Value(<<"x", 1, id>>, F16))
  BY <1>6, <1>7 DEF Have
<1>11. Have(staged, sliding, Value(<<"sliding", 0, id>>, F32))
  BY <1>6, <1>8 DEF Have
<1>12. Have(staged, global, Value(<<"global", 0, id>>, F32))
  BY <1>6, <1>9 DEF Have
<1>13. Have(staged, {StepBuffer}, StepValue(bk, pos))
  BY <1>6, <1>7, <1>8, <1>9 DEF Have
<1>14. \A b \in Buffer : b.set = "kv" => staged[b] = mem[b]
  BY <1>1, <1>2, <1>3, <1>4, <1>6
<1>15. RowsOf(bk) = x
  BY <1>5 DEF RowsOf, x
<1>16. ASSUME NEW l \in Layers
       PROVE  Have(staged, Slot(bk, l)["cs"], Value(<<Kind[l], 0, id>>, F32))
  <2>1. Slot(bk, l)["cs"] = For({Named(n, "cs")}, Kind[l])
    BY <1>5 DEF Slot
  <2>2. Kind[l] \in {"sliding", "global"}
    BY LayersAssumption DEF Layers
  <2>3. CASE Kind[l] = "sliding"
    BY <1>11, <2>1, <2>3 DEF sliding
  <2>4. CASE Kind[l] = "global"
    BY <1>12, <2>1, <2>4 DEF global
  <2> QED BY <2>2, <2>3, <2>4
<1> QED BY <1>10, <1>13, <1>14, <1>15, <1>16

(* An append makes a sequence of a sequence.                                *)
LEMMA AppendIsSeq ==
  ASSUME NEW d, d.kernel.op = Store, NEW l \in Layers, NEW s \in {"k", "v"}, d.out = KvOf(s, l),
         d.out \subseteq Buffer, StoreIsSeq(mem), Step.pos \in Nat
  PROVE  \E S : Result(d).node \in Seq(S)
<1> DEFINE held == [i \in DOMAIN d.ins |-> Holds(d.ins[i])]
           fits == \A i \in DOMAIN held \ Unread(d) : held[i].form = d.kernel.takes[i]
           row == held[1].node
           old == Holds(d.out).node
           p == Step.pos
<1>1. TornNode \in Seq({"torn", 0})
  BY DEF TornNode
<1>2. PICK S : old \in Seq(S)
  BY HeldSeq
<1>3. \/ Stored(d, row) = SubSeq(old, 1, p) \o <<row>> /\ Len(old) >= p
      \/ Stored(d, row) = old \o <<TornNode, row>>
  <2> HIDE DEF row
  <2> QED BY DEF Stored
<1>4. \E T : Stored(d, row) \in Seq(T)
  <2> DEFINE T == S \cup {TornNode, row}
             q == IF Len(old) >= p THEN SubSeq(old, 1, p) ELSE old
  <2> HIDE DEF row, old, p
  <2>1. old \in Seq(S) /\ p \in Nat
    BY <1>2 DEF p
  <2>2. Len(old) >= p => SubSeq(old, 1, p) \in Seq(S)
    BY <2>1
  <2>3. \A x : x \in Seq(S) => x \in Seq(T)
    OBVIOUS
  <2>4. <<row>> \in Seq(T) /\ <<TornNode, row>> \in Seq(T)
    OBVIOUS
  <2> HIDE DEF T
  <2>5. \A x, y : x \in Seq(T) /\ y \in Seq(T) => x \o y \in Seq(T)
    OBVIOUS
  <2>6. Stored(d, row) \in Seq(T)
    BY <1>3, <2>1, <2>2, <2>3, <2>4, <2>5
  <2> QED BY <2>6
<1>5. Store # Convert
  BY DEF Store, Convert
<1>6. \/ Result(d) = [node |-> CHOOSE n \in {Stored(d, row)} : TRUE, form |-> d.kernel.gives]
      \/ Result(d) = [node |-> TornNode, form |-> Torn]
  <2> HIDE DEF held, fits
  <2>1. held = [i \in DOMAIN d.ins |-> Holds(d.ins[i])]
    BY DEF held
  <2> QED BY <1>5, <2>1 DEF Result, fits
<1>7. Result(d).node = Stored(d, row) \/ Result(d).node = TornNode
  <2> HIDE DEF row
  <2>1. (CHOOSE n \in {Stored(d, row)} : TRUE) = Stored(d, row)
    OBVIOUS
  <2>2. [node |-> CHOOSE n \in {Stored(d, row)} : TRUE, form |-> d.kernel.gives].node = Stored(d, row)
    BY <2>1
  <2>3. [node |-> TornNode, form |-> Torn].node = TornNode
    OBVIOUS
  <2> QED BY <1>6, <2>2, <2>3
<1> HIDE DEF row
<1> QED BY <1>1, <1>4, <1>7

(* A dispatch leaves sequences in the stores and the step buffer alone.     *)
LEMMA ExecuteKeepsStores ==
  ASSUME NEW d, Proper(d), d.reads \subseteq Buffer, d.writes \subseteq Buffer,
         StoreIsSeq(mem), StepBuffer \in Buffer => Step.pos \in Nat, Execute(d)
  PROVE  StoreIsSeq(mem') /\ (StepBuffer \in Buffer => (Step.pos)' \in Nat)
<1>1. mem' = [b \in Buffer |-> IF b \in d.out THEN Result(d) ELSE mem[b]]
  BY DEF Execute
<1>2. /\ Declared(d) /\ StepBuffer \notin d.out /\ d.out \subseteq Buffer
      /\ d.kernel.via # "none" => StepBuffer \in Buffer
  BY DEF Proper, Declared
<1>3. StepBuffer \in Buffer => (Step.pos)' \in Nat
  <2>1. StepBuffer \in Buffer => mem'[StepBuffer] = mem[StepBuffer]
    BY <1>1, <1>2
  <2> QED BY <2>1 DEF Step
<1>4. ASSUME NEW b \in Buffer, b.set = "kv"
      PROVE  \E S : mem'[b].node \in Seq(S)
  <2>1. CASE b \notin d.out
    BY <1>1, <1>4, <2>1 DEF StoreIsSeq
  <2>2. CASE b \in d.out
    <3>1. /\ d.kernel.op = Store /\ d.kernel.via = "append"
          /\ \E l \in Layers, s \in {"k", "v"} : d.out = KvOf(s, l)
      BY <1>4, <2>2 DEF Proper
    <3>2. PICK l \in Layers, s \in {"k", "v"} : d.out = KvOf(s, l)
      BY <3>1
    <3>3. Step.pos \in Nat
      BY <1>2, <3>1
    <3>4. \E S : Result(d).node \in Seq(S)
      BY <1>2, <3>1, <3>2, <3>3, AppendIsSeq
    <3> QED BY <1>1, <2>2, <3>4
  <2> QED BY <2>1, <2>2
<1> QED BY <1>3, <1>4 DEF StoreIsSeq

(* What the GPU executes, unless the host has run ahead of it, was recorded.*)
LEMMA Executed ==
  ASSUME QueueInv, ~overrun, NEW i \in Indices
  PROVE  \E name \in DOMAIN Graphs :
           queue = Recorded(name) /\ i \in 1 .. Len(Graphs[name]) /\ CallAt(i) = Graphs[name][i]
<1>1. queue # <<>>
  <2>1. queue = <<>> => Indices = {}
    BY DEF Indices
  <2> QED BY <2>1
<1>2. PICK name \in DOMAIN Graphs : queue = Recorded(name)
  BY <1>1 DEF QueueInv
<1>3. Indices = 1 .. Len(Graphs[name]) /\ DOMAIN queue = 1 .. Len(Graphs[name])
  BY <1>2, RecordedIndices DEF Indices, Recorded
<1> QED BY <1>2, <1>3, RecordedEntries

(* Every step does.                                                         *)
LEMMA StoreStep ==
  QueueInv /\ BlockInv /\ ContextInv /\ StoreInv /\ [ForwardNext]_vars => StoreInv'
<1> SUFFICES ASSUME QueueInv, BlockInv, ContextInv, StoreInv, [ForwardNext]_vars
             PROVE  StoreInv'
  OBVIOUS
<1>1. ASSUME NEW kind \in {"prefill", "decode"}, NEW last \in BOOLEAN, Begin(kind, last)
      PROVE  StoreInv'
  <2>1. mem' = Staged(kind, blk.id + 1) /\ (overrun => overrun')
    BY <1>1 DEF Begin, HostWrite
  <2>2. \A b \in Buffer : b.set = "kv" => mem'[b] = mem[b]
    BY <2>1, StagedHolds
  <2>3. Have(mem', {StepBuffer}, StepValue(kind, pos))
    BY <2>1, StagedHolds
  <2>4. StepBuffer \in Buffer => mem'[StepBuffer] = StepValue(kind, pos)
    BY <2>3 DEF Have
  <2>5. StepValue(kind, pos).pos = pos /\ pos \in Nat
    BY DEF StepValue, ContextInv
  <2>6. StepBuffer \in Buffer => (Step.pos)' \in Nat
    BY <2>4, <2>5 DEF Step
  <2>7. ~overrun' => StoreIsSeq(mem)
    BY <2>1 DEF StoreInv
  <2>8. ~overrun' => StoreIsSeq(mem')
    BY <2>2, <2>7 DEF StoreIsSeq
  <2> QED BY <2>6, <2>8 DEF StoreInv
<1>2. CASE SubmitNext \/ SubmissionReturns \/ SubmissionFails \/ ReadLogits \/ Reset \/ UNCHANGED vars
  <2>1. mem' = mem /\ (overrun => overrun')
    <3>1. CASE SubmitNext
      BY <3>1 DEF SubmitNext, Submit
    <3>2. CASE SubmissionReturns
      BY <3>2 DEF SubmissionReturns, WaitReturns
    <3>3. CASE SubmissionFails
      BY <3>3 DEF SubmissionFails, WaitFails, queueVars
    <3>4. CASE ReadLogits \/ Reset \/ UNCHANGED vars
      BY <3>4 DEF ReadLogits, Reset, vars, queueVars
    <3> QED BY <1>2, <3>1, <3>2, <3>3, <3>4
  <2> QED BY <2>1 DEF StoreInv, Step
<1>3. ASSUME NEW i \in Indices, GpuStart(i)
      PROVE  StoreInv'
  BY <1>3 DEF GpuStart, Start, StoreInv, Step
<1>4. ASSUME NEW i \in Indices, GpuFinish(i)
      PROVE  StoreInv'
  <2>1. overrun' = overrun /\ Execute(CallAt(i))
    BY <1>4 DEF GpuFinish, Finish
  <2>2. SUFFICES ASSUME ~overrun PROVE StoreInv'
    BY <2>1 DEF StoreInv
  <2>3. PICK name \in DOMAIN Graphs : i \in 1 .. Len(Graphs[name]) /\ CallAt(i) = Graphs[name][i]
    BY <2>2, Executed
  <2>4. Proper(CallAt(i)) /\ CallAt(i).reads \subseteq Buffer /\ CallAt(i).writes \subseteq Buffer
    BY <2>3, GraphsAreProper, GraphsAssumption
  <2>5. StoreIsSeq(mem) /\ (StepBuffer \in Buffer => Step.pos \in Nat)
    BY <2>2 DEF StoreInv
  <2>6. StoreIsSeq(mem') /\ (StepBuffer \in Buffer => (Step.pos)' \in Nat)
    BY <2>1, <2>4, <2>5, ExecuteKeepsStores
  <2> QED BY <2>6 DEF StoreInv
<1> QED BY <1>1, <1>2, <1>3, <1>4 DEF ForwardNext, HostStep, GpuStep

-----------------------------------------------------------------------------
(* The host and the GPU together.  A submission in progress has finished    *)
(* its first n dispatches and started at most one more, because every       *)
(* dispatch waits behind a barrier; what it has written fits.               *)
Submitted == <<blk.kind, blk.start, blk.last>>

Untorn(m, name, n) == \A i \in 1 .. n : \A b \in Graphs[name][i].out : m[b].form # Torn

Underway(name, n, begun, ended, m, ctx) ==
  /\ n \in 0 .. Len(Graphs[name]) /\ ended = 1 .. n /\ begun \subseteq 1 .. n + 1
  /\ Reached(m, ctx, name, n) /\ Untorn(m, name, n)

(* Between submissions the stores hold the context, unless it is empty; the *)
(* GPU has nothing left to do, unless a reset has forgotten a failed        *)
(* submission that it still runs.                                           *)
OracleInv ==
  Trusted =>
    /\ blk.pc = "idle" => AllKept(mem, context, pos) /\ (pos # 0 => Drained)
    /\ blk.pc = "submit" => Drained /\ InLayer(mem, context, blk.kind, blk.start, 0)
    /\ blk.pc = "wait" => /\ queue = Recorded(Submitted)
                          /\ \E n : Underway(Submitted, n, started, finished, mem, context)
    /\ blk.pc = "read" => /\ Drained /\ AllKept(mem, context, pos)
                          /\ Have(mem, B("logits"), Value(LogitsNode(blk.id), F32))

(* An empty context asks nothing of the stores.                             *)
LEMMA NothingKept ==
  ASSUME NEW m, NEW ctx
  PROVE  AllKept(m, ctx, 0)
BY DEF AllKept, Keeps

(* At first there is no context.                                            *)
LEMMA OracleInit == ForwardInit => OracleInv
BY NothingKept DEF ForwardInit, NoBlock, OracleInv

(* Stores that are left alone keep the blocks that a context keeps.         *)
LEMMA KeptAcross ==
  ASSUME NEW m, NEW ctx, NEW m2, NEW ctx2, NEW p \in Nat, AllKept(m, ctx, p),
         \A i \in 1 .. p : ctx2[i] = ctx[i],
         \A b \in Buffer : b.set = "kv" => m2[b] = m[b]
  PROVE  AllKept(m2, ctx2, p)
<1> SUFFICES ASSUME NEW s \in {"k", "v"}, NEW j \in Layers, p > 0
             PROVE  Have(m2, KvOf(s, j), Value(Nodes(ctx2, s, j, p), KvForm(s, j)))
  BY DEF AllKept, Keeps
<1>1. Nodes(ctx2, s, j, p) = Nodes(ctx, s, j, p)
  BY DEF Nodes
<1>2. \A b \in KvOf(s, j) : b.set = "kv"
  BY KvKeys
<1>3. Have(m, KvOf(s, j), Value(Nodes(ctx, s, j, p), KvForm(s, j)))
  BY DEF AllKept, Keeps
<1> QED BY <1>1, <1>2, <1>3 DEF Have

(* A staged block is at its first dispatch.                                 *)
LEMMA LayerBegins ==
  ASSUME NEW bk \in {"decode", "prefill"}, NEW m, NEW ctx, NEW p \in Nat, Len(ctx) = p + 1,
         Have(m, RowsOf(bk), Value(<<"x", 1, ctx[p + 1]>>, F16)),
         \A l \in Layers : Have(m, Slot(bk, l)["cs"], Value(<<Kind[l], 0, ctx[p + 1]>>, F32)),
         Have(m, {StepBuffer}, StepValue(bk, p)), AllKept(m, ctx, p)
  PROVE  InLayer(m, ctx, bk, 1, 0)
<1>k. /\ \A j \in Layers : Kind[j] \in {"sliding", "global"}
      /\ 1 \in Layers /\ Layers \subseteq Nat \ {0}
  BY LayersAssumption DEF Layers
<1>1. Len(ctx) - 1 = p
  OBVIOUS
<1>2. ASSUME NEW j \in Layers
      PROVE  Content(m, ctx, bk, j, "cs")
  <2>1. Of(j, ctx, "cs") = <<Kind[j], 0, ctx[p + 1]>> /\ Form(Kind[j], "cs") = F32
    BY DEF Of, Form, Quants
  <2> QED BY <2>1 DEF Content
<1>3. Prepared(m, ctx, bk)
  BY <1>1, <1>2 DEF Prepared
<1>4. Content(m, ctx, bk, 1, "x")
  <2>1. Of(1, ctx, "x") = <<"x", 1, ctx[p + 1]>> /\ Form(Kind[1], "x") = F16
    BY DEF Of, Copied, Node, Form, Quants
  <2>2. Slot(bk, 1)["x"] = RowsOf(bk)
    BY DEF Slot, RowsOf
  <2> QED BY <2>1, <2>2 DEF Content
<1>5. Live(bk, Kind[1], 0) = {"x"}
  BY <1>k, OnlyRowsAtFirst
<1>6. ASSUME NEW s \in {"k", "v"}, NEW j \in Layers
      PROVE  Keeps(m, ctx, s, j, Rows(ctx, bk, 1, 0, s, j))
  <2> DEFINE k == Kind[1]
  <2>1. k \in {"sliding", "global"}
    BY <1>k
  <2> HIDE DEF k
  <2>2. Rank(bk, k)[AppendOf(s)] \in Nat \ {0}
    <3>1. Rank(bk, k)[s] < Rank(bk, k)[AppendOf(s)]
      BY <2>1, PlacesOrdered
    <3>2. \A t \in DOMAIN Rank(bk, k) : Rank(bk, k)[t] \in Nat
      <4>1. \A n \in 22 .. 26 : 0 .. n \cup {Never} \subseteq Nat
        BY DEF Never
      <4> QED BY <2>1, <4>1, PlacesOrdered
    <3>3. s \in DOMAIN Rank(bk, k) /\ AppendOf(s) \in DOMAIN Rank(bk, k)
      <4>1. DOMAIN Rank(bk, k) = (DOMAIN NameOf \ {"cs"}) \cup {"kstore", "vstore"}
        BY RankDomain
      <4> QED BY <4>1 DEF NameOf, AppendOf
    <3> QED BY <3>1, <3>2, <3>3
  <2>3. ~(Rank(bk, k)[AppendOf(s)] <= 0) /\ ~(j < 1)
    BY <1>k, <2>2
  <2>4. Rows(ctx, bk, 1, 0, s, j) = Len(ctx) - 1
    BY <2>3 DEF Rows, k
  <2> QED BY <1>1, <2>4 DEF AllKept
<1> QED BY <1>3, <1>4, <1>5, <1>6 DEF InLayer

(* The step and the rows of a block are staged over drained buffers only.   *)
LEMMA BeginKeepsOracle ==
  ASSUME BlockInv, ContextInv, OracleInv,
         NEW kind \in {"prefill", "decode"}, NEW last \in BOOLEAN, Begin(kind, last)
  PROVE  OracleInv'
<1>1. /\ blk.pc = "idle" /\ blk'.pc = "submit" /\ blk'.kind = kind /\ blk'.start = 1
      /\ mem' = Staged(kind, blk.id + 1)
      /\ context' = Append(SubSeq(context, 1, pos), blk.id + 1)
      /\ disturbed' = disturbed /\ overrun' = (overrun \/ ~Drained)
      /\ queue' = queue /\ finished' = finished
  BY DEF Begin, HostWrite
<1> SUFFICES ASSUME Trusted'
             PROVE  OracleInv'
  BY DEF OracleInv
<1>2. Trusted /\ Drained
  BY <1>1, Zenon DEF Trusted
<1>3. pos \in Nat /\ context \in Seq(Nat) /\ pos <= Len(context) /\ blk.id + 1 \in Nat
  BY <1>1 DEF ContextInv, BlockInv, BlockType
<1>4. /\ Len(context') = pos + 1 /\ context'[pos + 1] = blk.id + 1
      /\ \A i \in 1 .. pos : context'[i] = context[i]
  BY <1>1, <1>3, ContextGrows
<1>5. Have(mem', RowsOf(kind), Value(<<"x", 1, context'[pos + 1]>>, F16))
  BY <1>1, <1>4, StagedHolds
<1>6. \A l \in Layers : Have(mem', Slot(kind, l)["cs"], Value(<<Kind[l], 0, context'[pos + 1]>>, F32))
  BY <1>1, <1>4, StagedHolds
<1>7. Have(mem', {StepBuffer}, StepValue(kind, pos))
  BY <1>1, StagedHolds
<1>8. \A b \in Buffer : b.set = "kv" => mem'[b] = mem[b]
  BY <1>1, StagedHolds
<1>9. AllKept(mem, context, pos)
  BY <1>1, <1>2 DEF OracleInv
<1>10. AllKept(mem', context', pos)
  BY <1>3, <1>4, <1>8, <1>9, KeptAcross
<1>11. InLayer(mem', context', kind, 1, 0)
  BY <1>3, <1>4, <1>5, <1>6, <1>7, <1>10, LayerBegins
<1>12. Drained'
  BY <1>1, <1>2 DEF Drained, Indices
<1> QED BY <1>1, <1>11, <1>12 DEF OracleInv

(* A submission over drained buffers starts with none of its dispatches     *)
(* done.                                                                    *)
LEMMA SubmitKeepsOracle ==
  ASSUME BlockInv, OracleInv, SubmitNext
  PROVE  OracleInv'
<1> DEFINE name == Submitted
<1>1. /\ blk.pc = "submit" /\ blk' = [blk EXCEPT !.pc = "wait"] /\ Submit(name)
      /\ mem' = mem /\ context' = context /\ disturbed' = disturbed
  BY DEF SubmitNext, Submitted
<1>2. /\ blk'.pc = "wait" /\ blk'.kind = blk.kind /\ blk'.start = blk.start /\ blk'.last = blk.last
  BY <1>1 DEF BlockInv, BlockType
<1>3. name \in DOMAIN Graphs /\ name[1] = blk.kind /\ name[2] = blk.start
  BY <1>1, NamesAreRecorded DEF BlockInv, Submitted
<1>4. Submitted' = name
  BY <1>2 DEF Submitted
<1> HIDE DEF name
<1> SUFFICES ASSUME Trusted'
             PROVE  OracleInv'
  BY DEF OracleInv
<1>5. Drained
  BY <1>1 DEF Submit, Trusted
<1>6. overrun' = overrun /\ queue' = Recorded(name) /\ started' = {} /\ finished' = {}
  BY <1>1, <1>5 DEF Submit
<1>7. InLayer(mem, context, name[1], name[2], 0)
  BY <1>1, <1>3, <1>6 DEF OracleInv, Trusted
<1>8. Reached(mem, context, name, 0)
  BY <1>3, <1>7, GraphBegins
<1>9. Len(Graphs[name]) \in Nat
  BY <1>3, GraphsAssumption
<1>10. Underway(name, 0, started', finished', mem', context')
  BY <1>1, <1>6, <1>8, <1>9 DEF Underway, Untorn
<1> QED BY <1>2, <1>4, <1>6, <1>10 DEF OracleInv

(* A fence that is signalled finds the whole graph done.                    *)
LEMMA DrainedGraph ==
  ASSUME NEW name \in DOMAIN Graphs, queue = Recorded(name), Drained,
         NEW n, NEW m, NEW ctx, Underway(name, n, started, finished, m, ctx)
  PROVE  Inside(m, ctx, name[1], LastOf(name) + 1, TailLen(name))
<1>1. Len(Graphs[name]) \in Nat
  BY GraphsAssumption
<1>2. finished = 1 .. Len(Graphs[name])
  BY RecordedIndices DEF Drained, Indices
<1>3. finished = 1 .. n /\ n \in 0 .. Len(Graphs[name]) /\ Reached(m, ctx, name, n)
  BY DEF Underway
<1>4. n = Len(Graphs[name])
  <2>1. \A len \in Nat : \A z \in 0 .. len : 1 .. z = 1 .. len => z = len
    <3> SUFFICES ASSUME NEW len \in Nat, NEW z \in 0 .. len, 1 .. z = 1 .. len, z # len
                 PROVE  FALSE
      OBVIOUS
    <3>1. len \in 1 .. len /\ len \notin 1 .. z
      OBVIOUS
    <3> QED BY <3>1
  <2> QED BY <1>1, <1>2, <1>3, <2>1
<1> QED BY <1>3, <1>4, GraphEnds

(* When a submission returns, the next segment begins where this one ended, *)
(* or the stores hold the block and the logits are there.                   *)
LEMMA ReturnKeepsOracle ==
  ASSUME BlockInv, ContextInv, OracleInv, SubmissionReturns
  PROVE  OracleInv'
<1> DEFINE name == Submitted
           done == NextStart > NumLayers
<1>1. /\ blk.pc = "wait" /\ Drained
      /\ blk' = [blk EXCEPT !.start = NextStart,
                            !.pc = IF ~done THEN "submit" ELSE IF blk.last THEN "read" ELSE "idle"]
      /\ pos' = IF done THEN pos + 1 ELSE pos
      /\ mem' = mem /\ context' = context /\ disturbed' = disturbed
      /\ queue' = queue /\ finished' = finished /\ overrun' = overrun
  BY DEF SubmissionReturns, WaitReturns
<1>2. /\ name \in DOMAIN Graphs /\ name[1] = blk.kind /\ name[2] = blk.start /\ name[3] = blk.last
  BY <1>1, NamesAreRecorded DEF BlockInv, Submitted
<1>3. NextStart = LastOf(name) + 1
  BY <1>2 DEF NextStart, LastOf
<1>4. /\ name[1] \in {"decode", "prefill"} /\ LastOf(name) \in Nat /\ NumLayers \in Nat
      /\ LastOf(name) <= NumLayers /\ Layers = 1 .. NumLayers /\ name[3] \in BOOLEAN
  <2>1. /\ name[1] \in {"decode", "prefill"} /\ LastOf(name) \in Nat /\ NumLayers \in Nat
        /\ LastOf(name) \in name[2] .. NumLayers /\ name[2] \in Nat \ {0} /\ name[3] \in BOOLEAN
    BY <1>2, NamesOfGraphs
  <2> QED BY <2>1 DEF Layers
<1>5. /\ blk'.pc = IF ~done THEN "submit" ELSE IF blk.last THEN "read" ELSE "idle"
      /\ blk'.start = NextStart /\ blk'.kind = blk.kind /\ blk'.id = blk.id /\ blk'.last = blk.last
  BY <1>1 DEF BlockInv, BlockType
<1>6. pos \in Nat /\ Len(context) = pos + 1 /\ context[pos + 1] = blk.id
  BY <1>1 DEF ContextInv
<1> SUFFICES ASSUME Trusted'
             PROVE  OracleInv'
  BY DEF OracleInv
<1>7. queue = Recorded(name) /\ \E n : Underway(name, n, started, finished, mem, context)
  BY <1>1 DEF OracleInv, Trusted
<1>8. Drained'
  BY <1>1 DEF Drained, Indices
<1>9. Inside(mem, context, name[1], LastOf(name) + 1, TailLen(name))
  BY <1>1, <1>2, <1>7, DrainedGraph
<1>10. done <=> LastOf(name) = NumLayers
  BY <1>3, <1>4
<1> HIDE DEF name, done
<1>11. CASE ~done
  <2>1. LastOf(name) + 1 \in Layers /\ TailLen(name) = 0
    BY <1>4, <1>10, <1>11 DEF TailLen
  <2>2. InLayer(mem, context, name[1], LastOf(name) + 1, 0)
    BY <1>9, <2>1 DEF Inside
  <2>3. InLayer(mem', context', blk'.kind, blk'.start, 0)
    BY <1>1, <1>2, <1>3, <1>5, <2>2
  <2> QED BY <1>5, <1>8, <1>11, <2>3 DEF OracleInv
<1>12. CASE done
  <2>1. LastOf(name) + 1 \notin Layers
    BY <1>4, <1>10, <1>12
  <2>2. InTail(mem, context, name[1], TailLen(name))
    BY <1>9, <2>1 DEF Inside
  <2>3. pos' = Len(context) /\ context[Len(context)] = blk.id
    BY <1>1, <1>6, <1>12
  <2>4. AllKept(mem', context', pos')
    BY <1>1, <2>2, <2>3 DEF InTail
  <2>5. CASE blk.last
    <3>1. TailLen(name) = 2
      BY <1>2, <1>10, <1>12, <2>5 DEF TailLen
    <3>2. Have(mem, B("logits"), Value(LogitsNode(context[Len(context)]), F32))
      BY <2>2, <3>1 DEF InTail
    <3>3. Have(mem', B("logits"), Value(LogitsNode(blk'.id), F32))
      BY <1>1, <1>5, <2>3, <3>2
    <3> QED BY <1>5, <1>8, <1>12, <2>4, <2>5, <3>3 DEF OracleInv
  <2>6. CASE ~blk.last
    BY <1>5, <1>8, <1>12, <2>4, <2>6 DEF OracleInv
  <2> QED BY <2>5, <2>6
<1> QED BY <1>11, <1>12

(* Where the GPU has nothing to do, it does nothing.                        *)
LEMMA DrainedGpuRests ==
  ASSUME QueueInv, ~overrun, Drained, NEW i \in Indices
  PROVE  ~Start(i) /\ ~Finish(i)
BY DEF QueueInv, Drained, Start, Finish

(* The GPU starts no dispatch past the first that is not finished.          *)
LEMMA StartsNext ==
  ASSUME NEW name \in DOMAIN Graphs, queue = Recorded(name), NEW n \in Nat, finished = 1 .. n,
         NEW i \in Indices, Start(i)
  PROVE  i \in 1 .. n + 1
<1>1. Indices = 1 .. Len(Graphs[name]) /\ DOMAIN queue = 1 .. Len(Graphs[name]) /\ Len(Graphs[name]) \in Nat
  BY RecordedIndices, GraphsAssumption DEF Indices, Recorded
<1> SUFFICES ASSUME i \notin 1 .. n + 1
             PROVE  FALSE
  OBVIOUS
<1>2. i \in Nat /\ n + 1 \in (1 .. i - 1) \ finished /\ i \in (n + 1) + 1 .. i /\ i > 1
  BY <1>1
<1>3. Proper(Graphs[name][i])
  BY <1>1, GraphsAreProper
<1>4. BarrierBefore(Graphs[name], i)
  BY <1>2, <1>3 DEF Proper, Declared, BarrierBefore
<1>5. queue[i].barrier
  BY <1>1, <1>4, RecordedEntries
<1>6. Ordered(n + 1, i)
  BY <1>2, <1>5 DEF Ordered
<1> QED BY <1>2, <1>6 DEF Start

(* A dispatch that the GPU starts is the next one, and when it finishes it  *)
(* leaves what the oracle computes.                                         *)
LEMMA GpuKeepsOracle ==
  ASSUME QueueInv, BlockInv, ContextInv, StoreInv, OracleInv, NEW i \in Indices,
         GpuStart(i) \/ GpuFinish(i)
  PROVE  OracleInv'
<1> DEFINE name == Submitted
<1>1. /\ UNCHANGED <<queue, overrun, pos, context, blk, disturbed>>
      /\ Start(i) \/ Finish(i)
  BY DEF GpuStart, GpuFinish, Start, Finish, driverVars
<1> SUFFICES ASSUME Trusted'
             PROVE  OracleInv'
  BY DEF OracleInv
<1>2. Trusted /\ ~overrun
  BY <1>1 DEF Trusted
<1>3. ~Drained
  BY <1>1, <1>2, DrainedGpuRests
<1>4. blk.pc \in {"idle", "submit", "wait", "read"}
  BY DEF BlockInv, BlockType
<1>5. blk.pc \in {"idle", "wait"}
  BY <1>2, <1>3, <1>4 DEF OracleInv
<1>6. CASE blk.pc = "idle"
  <2>1. pos = 0
    BY <1>2, <1>3, <1>6 DEF OracleInv
  <2>2. AllKept(mem', context', pos') /\ pos' = 0
    BY <1>1, <2>1, NothingKept
  <2> QED BY <1>1, <1>6, <2>2 DEF OracleInv
<1>7. CASE blk.pc = "wait"
  <2>1. name \in DOMAIN Graphs /\ Submitted' = name
    BY <1>1, <1>7, NamesAreRecorded DEF BlockInv, Submitted
  <2> HIDE DEF name
  <2>2. PICK n : queue = Recorded(name) /\ Underway(name, n, started, finished, mem, context)
    BY <1>2, <1>7 DEF OracleInv, name
  <2>3. /\ n \in 0 .. Len(Graphs[name]) /\ finished = 1 .. n /\ started \subseteq 1 .. n + 1
        /\ Reached(mem, context, name, n) /\ Untorn(mem, name, n)
    BY <2>2 DEF Underway
  <2>4. Len(Graphs[name]) \in Nat /\ n \in Nat
    BY <2>1, <2>3, GraphsAssumption
  <2>5. SUFFICES \E k : Underway(name, k, started', finished', mem', context')
    BY <1>1, <1>7, <2>1, <2>2 DEF OracleInv
  <2>6. CASE GpuStart(i)
    <3>1. Start(i) /\ started' = started \cup {i} /\ finished' = finished /\ mem' = mem
      BY <2>6 DEF GpuStart, Start
    <3>2. i \in 1 .. n + 1
      BY <2>1, <2>2, <2>3, <2>4, <3>1, StartsNext
    <3>3. Underway(name, n, started', finished', mem', context')
      BY <1>1, <2>3, <3>1, <3>2 DEF Underway
    <3> QED BY <3>3
  <2>7. CASE GpuFinish(i)
    <3> DEFINE d == Graphs[name][n + 1]
    <3>1. /\ i \in started \ finished /\ finished' = finished \cup {i} /\ started' = started
          /\ Execute(CallAt(i))
      BY <2>7 DEF GpuFinish, Finish
    <3>2. i = n + 1
      BY <2>3, <2>4, <3>1
    <3>3. Indices = 1 .. Len(Graphs[name]) /\ Indices = DOMAIN queue
      BY <2>1, <2>2, RecordedIndices DEF Indices, Recorded
    <3>4. n + 1 \in 1 .. Len(Graphs[name]) /\ CallAt(i) = d
      BY <2>1, <2>2, <3>2, <3>3, RecordedEntries
    <3> HIDE DEF d
    <3>5. mem' = Written(mem, d.out, Result(d))
      BY <3>1, <3>4 DEF Execute, Written
    <3>6. StoreIsSeq(mem)
      BY <1>2 DEF StoreInv
    <3>7. Len(context) \in Nat \ {0}
      BY <1>7 DEF ContextInv
    <3>8. d = Graphs[name][n + 1]
      BY DEF d
    <3>9. Reached(mem', context', name, n + 1)
      BY <1>1, <2>1, <2>3, <2>4, <3>4, <3>5, <3>6, <3>7, <3>8, GraphStep
    <3>10. Result(d).form # Torn
      BY <2>1, <2>3, <2>4, <3>4, <3>6, <3>7, <3>8, GraphStep
    <3>11. Untorn(mem', name, n + 1)
      <4> SUFFICES ASSUME NEW j \in 1 .. n + 1, NEW b \in Graphs[name][j].out
                   PROVE  mem'[b].form # Torn
        BY DEF Untorn
      <4>1. j \in 1 .. Len(Graphs[name])
        BY <2>4, <3>4
      <4>2. b \in Buffer
        BY <2>1, <4>1, GraphsAreProper, GraphsAssumption DEF Proper, Declared
      <4>3. CASE b \in d.out
        BY <3>5, <3>10, <4>2, <4>3 DEF Written
      <4>4. CASE b \notin d.out
        <5>1. j \in 1 .. n
          BY <2>4, <3>8, <4>4
        <5>2. mem[b].form # Torn
          BY <2>3, <5>1 DEF Untorn
        <5> QED BY <3>5, <4>2, <4>4, <5>2 DEF Written
      <4> QED BY <4>3, <4>4
    <3>12. finished' = 1 .. n + 1 /\ started' \subseteq 1 .. (n + 1) + 1 /\ n + 1 \in 0 .. Len(Graphs[name])
      BY <2>3, <2>4, <3>1, <3>2, <3>4
    <3>13. Underway(name, n + 1, started', finished', mem', context')
      BY <3>9, <3>11, <3>12 DEF Underway
    <3> QED BY <3>13
  <2> QED BY <2>6, <2>7
<1> QED BY <1>5, <1>6, <1>7

(* Every step keeps the stores and the submission in progress on the        *)
(* oracle's course, or is a failure, after which nothing is claimed until   *)
(* the next reset.                                                          *)
LEMMA OracleStep ==
  QueueInv /\ BlockInv /\ ContextInv /\ StoreInv /\ OracleInv /\ [ForwardNext]_vars => OracleInv'
<1> SUFFICES ASSUME QueueInv, BlockInv, ContextInv, StoreInv, OracleInv, [ForwardNext]_vars
             PROVE  OracleInv'
  OBVIOUS
<1>1. ASSUME NEW kind \in {"prefill", "decode"}, NEW last \in BOOLEAN, Begin(kind, last)
      PROVE  OracleInv'
  BY <1>1, BeginKeepsOracle
<1>2. CASE SubmitNext
  BY <1>2, SubmitKeepsOracle
<1>3. CASE SubmissionReturns
  BY <1>3, ReturnKeepsOracle
<1>4. CASE SubmissionFails
  BY <1>4 DEF SubmissionFails, OracleInv, Trusted
<1>5. CASE ReadLogits
  <2>1. /\ blk.pc = "read" /\ blk'.pc = "idle"
        /\ UNCHANGED <<queueVars, mem, pos, context, disturbed>>
    BY <1>5 DEF ReadLogits, BlockInv, BlockType
  <2> QED BY <2>1 DEF OracleInv, Trusted, Drained, Indices, queueVars
<1>6. CASE Reset
  <2>1. blk.pc = "idle" /\ blk' = blk /\ pos' = 0
    BY <1>6 DEF Reset
  <2>2. AllKept(mem', context', 0)
    BY NothingKept
  <2> QED BY <2>1, <2>2 DEF OracleInv
<1>7. ASSUME NEW i \in Indices, GpuStart(i) \/ GpuFinish(i)
      PROVE  OracleInv'
  BY <1>7, GpuKeepsOracle
<1>8. CASE UNCHANGED vars
  BY <1>8 DEF vars, queueVars, driverVars, OracleInv, Trusted, Drained, Indices, Submitted
<1> QED BY <1>1, <1>2, <1>3, <1>4, <1>5, <1>6, <1>7, <1>8 DEF ForwardNext, HostStep, GpuStep

-----------------------------------------------------------------------------
(* The logits that the host reads are in a device buffer.                   *)
LEMMA LogitsAreOnDevice == B("logits") \subseteq Buffer
<1> DEFINE name == <<"decode", 1, TRUE>>
<1>1. name \in DOMAIN Graphs
  BY NamesAreRecorded DEF GraphName
<1>2. PICK off : Layout(off, name)
  BY <1>1, GraphLayout
<1>3. LayoutFacts(off, name)
  BY <1>1, <1>2, LayoutGives
<1>4. TailLen(name) = 2 /\ name[1] = "decode"
  BY DEF TailLen, LastOf
<1> HIDE DEF name
<1> DEFINE i == off[LastOf(name) + 1] + 2
<1>5. i \in 1 .. Len(Graphs[name]) /\ Graphs[name][i] = TailOf("decode")[2]
  BY <1>3, <1>4 DEF LayoutFacts
<1>6. TailStage("decode", 2, TailOf("decode")[2])
  BY TailCalls
<1>7. TailOf("decode")[2].writes = B("logits")
  BY <1>6 DEF TailStage, Declared
<1> QED BY <1>1, <1>5, <1>7, GraphsAssumption

(* What the host may read is what the oracle computes.                      *)
LEMMA OracleGivesReference ==
  ASSUME BlockInv, OracleInv
  PROVE  ForwardIsReference
<1> SUFFICES ASSUME Trusted
             PROVE  /\ blk.pc = "wait" => \A i \in finished : \A b \in CallAt(i).out : mem[b].form # Torn
                    /\ blk.pc = "read" => \A b \in B("logits") : mem[b] = Value(LogitsNode(blk.id), F32)
  BY DEF ForwardIsReference
<1>1. ASSUME blk.pc = "wait", NEW i \in finished, NEW b \in CallAt(i).out
      PROVE  mem[b].form # Torn
  <2> DEFINE name == Submitted
  <2>1. name \in DOMAIN Graphs
    BY <1>1, NamesAreRecorded DEF BlockInv, Submitted
  <2>2. PICK n : queue = Recorded(name) /\ Underway(name, n, started, finished, mem, context)
    BY <1>1 DEF OracleInv
  <2> HIDE DEF name
  <2>3. n \in 0 .. Len(Graphs[name]) /\ finished = 1 .. n /\ Untorn(mem, name, n)
    BY <2>2 DEF Underway
  <2>4. Indices = 1 .. Len(Graphs[name]) /\ Indices = DOMAIN queue /\ Len(Graphs[name]) \in Nat
    BY <2>1, <2>2, RecordedIndices, GraphsAssumption DEF Indices, Recorded
  <2>5. i \in Indices /\ i \in 1 .. n
    BY <2>3, <2>4
  <2>6. CallAt(i) = Graphs[name][i]
    BY <2>1, <2>2, <2>4, <2>5, RecordedEntries
  <2> QED BY <1>1, <2>3, <2>5, <2>6 DEF Untorn
<1>2. ASSUME blk.pc = "read", NEW b \in B("logits")
      PROVE  mem[b] = Value(LogitsNode(blk.id), F32)
  BY <1>2, LogitsAreOnDevice DEF OracleInv, Have
<1> QED BY <1>1, <1>2

(* The forward pass computes what the CPU oracle does: whatever mix of      *)
(* chunks, tokens, failures and resets came before, with every length of    *)
(* segment, every dispatch finds the operands, formats and keys that the    *)
(* oracle's pass gives it, and the logits that are read are those of the    *)
(* whole context.                                                           *)
THEOREM ForwardComputesReference == ForwardSpec => []ForwardIsReference
<1> DEFINE Inv == OrderInv /\ BlockInv /\ ContextInv /\ StoreInv /\ OracleInv
<1>1. ForwardInit => Inv
  <2>1. ForwardInit => Init
    BY DEF ForwardInit
  <2> QED BY <2>1, OrderInit, BlockInit, ContextInit, StoreInit, OracleInit
<1>2. Inv /\ [ForwardNext]_vars => Inv'
  <2> SUFFICES ASSUME Inv, [ForwardNext]_vars
               PROVE  Inv'
    OBVIOUS
  <2>1. OrderInv'
    BY StepMaps, OrderStep
  <2>2. QueueInv
    BY DEF OrderInv
  <2> QED BY <2>1, <2>2, BlockStep, ContextStep, StoreStep, OracleStep
<1>3. Inv => ForwardIsReference
  BY OracleGivesReference
<1> HIDE DEF Inv
<1> QED BY <1>1, <1>2, <1>3, PTL DEF ForwardSpec
=============================================================================
