-------------------------- MODULE ResidencyProofs --------------------------
(***************************************************************************)
(* The resident KV of a session is the KV of its context: the inductive    *)
(* invariant behind AttendsExactWindow and HistoryResidentUnlessDirty.     *)
(* What the sampler sees is the logits of the whole conversation: on top   *)
(* of it, the prompt bookkeeping of Session::request and the rows the last *)
(* query of a call has attended so far; then the session as an             *)
(* implementation of the stateless API.                                    *)
(***************************************************************************)
EXTENDS SessionProofs, SequenceLemmas

-----------------------------------------------------------------------------
(* The data part of the inductive invariant.                                *)

(* Layer l holds the rows a query at position p of ctx attends besides its  *)
(* own, as far as the store reaches.                                        *)
LayerHolds(l, ctx, p) ==
  /\ Kind[l] = "sliding" => HoldsTail(ring[l], ctx, p)
  /\ Kind[l] = "global" => HoldsStored(lin[l], ctx, p)

StoresHold == \A l \in Layers : LayerHolds(l, fed, pos)

(* Between calls every layer is at pos.  Inside a prefill chunk the layers  *)
(* that have run are a chunk ahead; a decode step moves them by one row but *)
(* leaves the rows pos needs, which is why a decode that fails does no harm.*)
StoresFollow ==
  /\ ~(call.op = "prefill" /\ call.pc \in {"layer", "err"} /\ call.layer > 1) => StoresHold
  /\ At("prefill", "layer") =>
       \A l \in Layers :
         /\ l < call.layer => LayerHolds(l, fed \o Chunk, pos + ChunkLen)
         /\ l >= call.layer => LayerHolds(l, fed, pos)
  /\ At("decode", "layer") =>
       \A l \in Layers : l < call.layer => LayerHolds(l, fed \o call.todo, pos + 1)

(* What the history will be when the running prefill has returned.          *)
Target == history \o SubSeq(req.prompt, Len(history) + 1, Len(req.prompt))

(* The history is what has been fed, up to the call in progress.            *)
HistoryFollows ==
  /\ req.pc \in {"idle", "sample"} => history = fed
  /\ req.pc = "prefill" =>
       /\ Len(history) <= Len(fed)
       /\ \A i \in 1 .. Len(history) : fed[i] = history[i]
       /\ call.pc \in {"record", "stage", "layer"} => fed \o call.todo = Target
       /\ call.pc \in {"read", "ok"} => fed = Target
  /\ req.pc = "decode" =>
       /\ call.pc \in {"stage", "layer"} => history = fed
       /\ call.pc \in {"read", "ok"} => fed = Append(history, call.todo[1])
       /\ call.pc = "err" /\ pos = Len(history) => history = fed

DataInv == ~dirty => StoresFollow /\ HistoryFollows

IInv == ControlInv /\ DataInv

-----------------------------------------------------------------------------
(* Contexts that agree up to p.                                             *)

(* Ring and linear stores cannot tell apart two contexts that agree below   *)
(* p.                                                                       *)
LEMMA StoreAgree ==
  ASSUME NEW c1, NEW c2, NEW p \in Nat, NEW store,
         \A t \in 0 .. p - 1 : c1[t + 1] = c2[t + 1]
  PROVE  /\ HoldsTail(store, c1, p) => HoldsTail(store, c2, p)
         /\ HoldsStored(store, c1, p) => HoldsStored(store, c2, p)
<1>1. \A t \in 0 .. p - 1 : RowAt(c1, t) = RowAt(c2, t)
  BY DEF RowAt
<1>2. \A t \in FirstInWindow(p) .. p - 1 : t \in 0 .. p - 1
  BY WindowAssumption DEF FirstInWindow, LargerOf
<1>3. \A t \in LinearSlots : t < p => t \in 0 .. p - 1
  BY CapAssumption DEF LinearSlots
<1>4. HoldsTail(store, c1, p) => HoldsTail(store, c2, p)
  BY <1>1, <1>2 DEF HoldsTail
<1>5. HoldsStored(store, c1, p) => HoldsStored(store, c2, p)
  BY <1>1, <1>3 DEF HoldsStored
<1> QED BY <1>4, <1>5

(* Nor can a layer.                                                         *)
LEMMA HoldsAgree ==
  ASSUME NEW c1, NEW c2, NEW p \in Nat, NEW l \in Layers,
         \A t \in 0 .. p - 1 : c1[t + 1] = c2[t + 1],
         LayerHolds(l, c1, p)
  PROVE  LayerHolds(l, c2, p)
  BY StoreAgree DEF LayerHolds

(* Nothing is needed to hold an empty context.                              *)
LEMMA HoldsNothing ==
  ASSUME NEW l \in Layers, NEW ctx
  PROVE  LayerHolds(l, ctx, 0)
<1>1. \A t : ~(t \in FirstInWindow(0) .. 0 - 1)
  BY WindowAssumption DEF FirstInWindow, LargerOf
<1>2. \A t \in LinearSlots : ~(t < 0)
  BY CapAssumption DEF LinearSlots
<1> QED BY <1>1, <1>2 DEF LayerHolds, HoldsTail, HoldsStored

(* The context of a running chunk.                                          *)
LEMMA ChunkContext ==
  ASSUME ControlInv, call.op = "prefill", call.pc \in {"record", "stage", "layer"}
  PROVE  /\ ChunkLen \in Nat \ {0} /\ pos \in Nat
         /\ fed \o Chunk \in Seq(Token)
         /\ Len(fed \o Chunk) = pos + ChunkLen
         /\ \A t \in 0 .. pos - 1 : (fed \o Chunk)[t + 1] = fed[t + 1]
         /\ \A i \in 1 .. ChunkLen : (fed \o Chunk)[pos + i] = call.todo[i]
<1>1. call.todo \in Seq(Token) /\ call.todo # <<>>
  BY DEF ControlInv, TypeOK, CallOK, CallRecord
<1>2. /\ ChunkLen \in Nat \ {0} /\ Chunk \in Seq(Token) /\ Len(Chunk) = ChunkLen
      /\ \A i \in 1 .. ChunkLen : Chunk[i] = call.todo[i]
  BY <1>1, ChunkFacts
<1>3. fed \in Seq(Token) /\ Len(fed) = pos /\ pos \in Nat
  BY DEF ControlInv, TypeOK, FedOK
<1>4. /\ fed \o Chunk \in Seq(Token)
      /\ Len(fed \o Chunk) = Len(fed) + Len(Chunk)
      /\ \A i \in 1 .. Len(fed) + Len(Chunk) : (fed \o Chunk)[i] =
           IF i <= Len(fed) THEN fed[i] ELSE Chunk[i - Len(fed)]
  BY <1>2, <1>3, ConcatProperties
<1>5. ASSUME NEW t \in 0 .. pos - 1
      PROVE  (fed \o Chunk)[t + 1] = fed[t + 1]
  BY <1>2, <1>3, <1>4
<1>6. ASSUME NEW i \in 1 .. ChunkLen
      PROVE  (fed \o Chunk)[pos + i] = call.todo[i]
  <2> DEFINE j == pos + i
  <2>1. j \in 1 .. Len(fed) + Len(Chunk) /\ ~(j <= Len(fed)) /\ j - Len(fed) = i
    BY <1>2, <1>3
  <2> HIDE DEF j
  <2>2. (fed \o Chunk)[j] = IF j <= Len(fed) THEN fed[j] ELSE Chunk[j - Len(fed)]
    BY <1>4, <2>1
  <2>3. (fed \o Chunk)[j] = Chunk[i]
    BY <2>1, <2>2
  <2> QED BY <1>2, <2>3 DEF j
<1> QED BY <1>2, <1>3, <1>4, <1>5, <1>6

(* The context of a running decode step.                                    *)
LEMMA DecodeContext ==
  ASSUME ControlInv, call.op = "decode"
  PROVE  /\ call.todo[1] \in Token /\ pos \in Nat
         /\ fed \o call.todo = Append(fed, call.todo[1])
         /\ fed \o call.todo \in Seq(Token)
         /\ Len(fed \o call.todo) = pos + 1
         /\ \A t \in 0 .. pos - 1 : (fed \o call.todo)[t + 1] = fed[t + 1]
         /\ (fed \o call.todo)[pos + 1] = call.todo[1]
<1>1. call.todo \in Seq(Token) /\ Len(call.todo) = 1
  BY DEF ControlInv, TypeOK, CallOK, CallRecord
<1>2. call.todo[1] \in Token
  BY <1>1, ElementOfSeq
<1>3. call.todo = <<call.todo[1]>>
  BY <1>1, <1>2
<1>4. fed \in Seq(Token) /\ Len(fed) = pos /\ pos \in Nat
  BY DEF ControlInv, TypeOK, FedOK
<1>5. fed \o call.todo = Append(fed, call.todo[1])
  BY <1>2, <1>3, <1>4, AppendIsConcat
<1>6. /\ Append(fed, call.todo[1]) \in Seq(Token)
      /\ Len(Append(fed, call.todo[1])) = Len(fed) + 1
      /\ \A i \in 1 .. Len(fed) : Append(fed, call.todo[1])[i] = fed[i]
      /\ Append(fed, call.todo[1])[Len(fed) + 1] = call.todo[1]
  BY <1>2, <1>4, AppendProperties
<1> QED BY <1>2, <1>4, <1>5, <1>6

(* What the staged rows are rows of.                                        *)
LEMMA ChunkRows ==
  ASSUME ControlInv, At("prefill", "layer")
  PROVE  /\ step.pos = pos /\ step.q0 = pos
         /\ \A c \in 0 .. ChunkLen - 1 : prows[c + 1] = RowAt(fed \o Chunk, pos + c)
         /\ AppendedRows \in Seq(RowOrNone) /\ Len(AppendedRows) = ChunkLen
         /\ \A i \in 1 .. Len(AppendedRows) :
              AppendedRows[i] = RowAt(fed \o Chunk, pos + i - 1)
<1>1. /\ ChunkLen \in Nat \ {0} /\ pos \in Nat
      /\ \A i \in 1 .. ChunkLen : (fed \o Chunk)[pos + i] = call.todo[i]
  BY ChunkContext DEF At
<1>2. /\ step.pos = pos /\ step.q0 = pos
      /\ \A i \in 1 .. ChunkLen : prows[i] = StagedRow(i)
  BY DEF ControlInv, StagedOK
<1>3. /\ AppendedRows \in Seq(RowOrNone) /\ Len(AppendedRows) = ChunkLen
      /\ \A i \in 1 .. ChunkLen : AppendedRows[i] = prows[i]
  BY AppendedRowsFacts
<1>4. ASSUME NEW i \in 1 .. ChunkLen
      PROVE  prows[i] = RowAt(fed \o Chunk, pos + i - 1)
  <2>1. pos + i - 1 + 1 = pos + i
    BY <1>1
  <2> QED BY <1>1, <1>2, <2>1 DEF StagedRow, RowAt
<1>5. ASSUME NEW c \in 0 .. ChunkLen - 1
      PROVE  prows[c + 1] = RowAt(fed \o Chunk, pos + c)
  <2>1. c + 1 \in 1 .. ChunkLen /\ pos + (c + 1) - 1 = pos + c
    BY <1>1
  <2>2. prows[c + 1] = RowAt(fed \o Chunk, pos + (c + 1) - 1)
    BY <1>4, <2>1
  <2> QED BY <2>1, <2>2
<1> QED BY <1>2, <1>3, <1>4, <1>5

(* The staged decode row is the row of the token at pos.                    *)
LEMMA DecodeRow ==
  ASSUME ControlInv, At("decode", "layer")
  PROVE  brow = RowAt(fed \o call.todo, pos)
<1>1. (fed \o call.todo)[pos + 1] = call.todo[1]
  BY DecodeContext DEF At
<1>2. brow = [pos |-> pos, tok |-> call.todo[1]]
  BY DEF ControlInv, StagedOK
<1> QED BY <1>1, <1>2 DEF RowAt

-----------------------------------------------------------------------------
(* The layers.                                                              *)

(* A layer of a prefill chunk brings its store a chunk ahead.               *)
LEMMA PrefillLayerHolds ==
  ASSUME ChunkCap <= Window, ControlInv, NEW l \in Layers, PrefillLayer(l),
         LayerHolds(l, fed, pos)
  PROVE  /\ LayerHolds(l, fed \o Chunk, pos + ChunkLen)'
         /\ \A m \in Layers : m # l => \A ctx, p : LayerHolds(m, ctx, p)' = LayerHolds(m, ctx, p)
<1> DEFINE ctx == fed \o Chunk
<1>1. /\ At("prefill", "layer") /\ l = call.layer
      /\ call' = [call EXCEPT !.layer = @ + 1]
      /\ UNCHANGED <<pos, fed>>
  BY DEF PrefillLayer, NextLayer
<1>2. /\ ChunkLen \in Nat \ {0} /\ pos \in Nat
      /\ \A t \in 0 .. pos - 1 : ctx[t + 1] = fed[t + 1]
  BY <1>1, ChunkContext DEF At
<1>3. /\ step.pos = pos
      /\ AppendedRows \in Seq(RowOrNone) /\ Len(AppendedRows) = ChunkLen
      /\ \A i \in 1 .. Len(AppendedRows) : AppendedRows[i] = RowAt(ctx, pos + i - 1)
  BY <1>1, ChunkRows
<1>4. LayerHolds(l, ctx, pos)
  BY <1>2, HoldsAgree
<1>5. ChunkLen <= Window
  <2>1. call.todo \in Seq(Token) /\ call.todo # <<>>
    BY <1>1 DEF ControlInv, TypeOK, CallOK, CallRecord, At
  <2> QED BY <2>1, ChunkFacts, ChunkCapPositive, WindowAssumption
<1>6. (fed \o Chunk)' = ctx /\ (pos + ChunkLen)' = pos + ChunkLen
  <2>1. call'.todo = call.todo
    BY <1>1 DEF ControlInv, TypeOK, CallRecord
  <2> QED BY <1>1, <2>1 DEF Chunk, ChunkLen
<1>7. Kind \in [Layers -> {"sliding", "global"}]
  BY LayersAssumption DEF Layers
<1>8. /\ ring \in [SlidingLayers -> [Slots -> RowOrNone]]
      /\ lin \in [GlobalLayers -> [LinearSlots -> RowOrNone]]
  BY DEF ControlInv, TypeOK
<1> HIDE DEF ctx
<1>9. CASE /\ Kind[l] = "sliding"
           /\ \E r \in RingAppend(ring[l], step.pos, AppendedRows) :
                ring' = [ring EXCEPT ![l] = r]
           /\ UNCHANGED lin
  <2>1. PICK r \in RingAppend(ring[l], step.pos, AppendedRows) :
          ring' = [ring EXCEPT ![l] = r]
    BY <1>9
  <2>2. l \in SlidingLayers /\ ring[l] \in [Slots -> RowOrNone]
    BY <1>8, <1>9 DEF SlidingLayers
  <2>3. HoldsTail(ring[l], ctx, pos)
    BY <1>4, <1>9 DEF LayerHolds
  <2>4. r \in RingAppend(ring[l], pos, AppendedRows)
    BY <1>3, <2>1
  <2>5. HoldsTail(r, ctx, pos + ChunkLen)
    BY <1>2, <1>3, <1>5, <2>2, <2>3, <2>4, RingAppendHolds
  <2>6. ring'[l] = r /\ \A m \in SlidingLayers : m # l => ring'[m] = ring[m]
    BY <1>8, <2>1, <2>2
  <2>7. LayerHolds(l, fed \o Chunk, pos + ChunkLen)'
    BY <1>6, <1>9, <2>5, <2>6 DEF LayerHolds
  <2>8. \A m \in Layers : m # l => \A c, p : LayerHolds(m, c, p)' = LayerHolds(m, c, p)
    BY <1>9, <2>6 DEF LayerHolds, SlidingLayers
  <2> QED BY <2>7, <2>8
<1>10. CASE /\ Kind[l] = "global"
            /\ lin' = [lin EXCEPT ![l] = LinearAppend(@, step.pos, AppendedRows)]
            /\ UNCHANGED ring
  <2>1. l \in GlobalLayers /\ lin[l] \in [LinearSlots -> RowOrNone]
    BY <1>8, <1>10 DEF GlobalLayers
  <2>2. HoldsStored(lin[l], ctx, pos)
    BY <1>4, <1>10 DEF LayerHolds
  <2>3. HoldsStored(LinearAppend(lin[l], pos, AppendedRows), ctx, pos + ChunkLen)
    BY <1>2, <1>3, <2>1, <2>2, LinearAppendHolds
  <2>4. /\ lin'[l] = LinearAppend(lin[l], pos, AppendedRows)
        /\ \A m \in GlobalLayers : m # l => lin'[m] = lin[m]
    BY <1>3, <1>8, <1>10, <2>1
  <2>5. LayerHolds(l, fed \o Chunk, pos + ChunkLen)'
    BY <1>6, <1>10, <2>3, <2>4 DEF LayerHolds
  <2>6. \A m \in Layers : m # l => \A c, p : LayerHolds(m, c, p)' = LayerHolds(m, c, p)
    BY <1>10, <2>4 DEF LayerHolds, GlobalLayers
  <2> QED BY <2>5, <2>6
<1> QED BY <1>9, <1>10 DEF PrefillLayer

(* A layer of a decode step keeps what pos needs and adds the new row.      *)
LEMMA DecodeLayerHolds ==
  ASSUME ControlInv, NEW l \in Layers, DecodeLayer(l), LayerHolds(l, fed, pos)
  PROVE  /\ LayerHolds(l, fed, pos)'
         /\ LayerHolds(l, fed \o call.todo, pos + 1)'
         /\ \A m \in Layers : m # l => \A ctx, p : LayerHolds(m, ctx, p)' = LayerHolds(m, ctx, p)
<1> DEFINE ctx == fed \o call.todo
<1>1. /\ At("decode", "layer") /\ l = call.layer
      /\ call' = [call EXCEPT !.layer = @ + 1]
      /\ UNCHANGED <<pos, fed>>
  BY DEF DecodeLayer, NextLayer
<1>2. /\ pos \in Nat
      /\ \A t \in 0 .. pos - 1 : ctx[t + 1] = fed[t + 1]
  BY <1>1, DecodeContext DEF At
<1>3. /\ step.pos = pos /\ brow = RowAt(ctx, pos)
      /\ <<brow>> \in Seq(RowOrNone) /\ Len(<<brow>>) = 1
  BY <1>1, DecodeRow, DecodeRowFacts
<1>4. LayerHolds(l, ctx, pos)
  BY <1>2, HoldsAgree
<1>5. ctx' = ctx
  <2>1. call'.todo = call.todo
    BY <1>1 DEF ControlInv, TypeOK, CallRecord
  <2> QED BY <1>1, <2>1
<1>6. /\ ring \in [SlidingLayers -> [Slots -> RowOrNone]]
      /\ lin \in [GlobalLayers -> [LinearSlots -> RowOrNone]]
  BY DEF ControlInv, TypeOK
<1> HIDE DEF ctx
<1>7. /\ LayerHolds(l, ctx, pos)' /\ LayerHolds(l, ctx, pos + 1)'
      /\ \A m \in Layers : m # l => \A c, p : LayerHolds(m, c, p)' = LayerHolds(m, c, p)
  <2>1. CASE /\ Kind[l] = "sliding"
             /\ ring' = [ring EXCEPT ![l] = AppendedToRing(l)]
             /\ UNCHANGED lin
    <3>1. l \in SlidingLayers /\ ring[l] \in [Slots -> RowOrNone]
      BY <1>6, <2>1 DEF SlidingLayers
    <3>2. HoldsTail(ring[l], ctx, pos)
      BY <1>4, <2>1 DEF LayerHolds
    <3>3. AppendedToRing(l) = [ring[l] EXCEPT ![RingSlot(pos)] = RowAt(ctx, pos)]
      BY <1>3 DEF AppendedToRing
    <3>4. HoldsTail(AppendedToRing(l), ctx, pos) /\ HoldsTail(AppendedToRing(l), ctx, pos + 1)
      BY <1>2, <3>1, <3>2, <3>3, RingWriteHolds
    <3>5. ring'[l] = AppendedToRing(l) /\ \A m \in SlidingLayers : m # l => ring'[m] = ring[m]
      BY <1>6, <2>1, <3>1
    <3>6. LayerHolds(l, ctx, pos)' /\ LayerHolds(l, ctx, pos + 1)'
      BY <1>1, <1>5, <2>1, <3>4, <3>5 DEF LayerHolds
    <3>7. \A m \in Layers : m # l => \A c, p : LayerHolds(m, c, p)' = LayerHolds(m, c, p)
      BY <2>1, <3>5 DEF LayerHolds, SlidingLayers
    <3> QED BY <3>6, <3>7
  <2>2. CASE /\ Kind[l] = "global"
             /\ lin' = [lin EXCEPT ![l] = AppendedToLinear(l)]
             /\ UNCHANGED ring
    <3>1. l \in GlobalLayers /\ lin[l] \in [LinearSlots -> RowOrNone]
      BY <1>6, <2>2 DEF GlobalLayers
    <3>2. HoldsStored(lin[l], ctx, pos)
      BY <1>4, <2>2 DEF LayerHolds
    <3>3. \A i \in 1 .. Len(<<brow>>) : <<brow>>[i] = RowAt(ctx, pos + i - 1)
      <4>1. TAKE i \in 1 .. Len(<<brow>>)
      <4>2. i = 1 /\ pos + i - 1 = pos
        BY <1>2, <1>3
      <4> QED BY <1>3, <4>2
    <3>4. HoldsStored(AppendedToLinear(l), ctx, pos)
          /\ HoldsStored(AppendedToLinear(l), ctx, pos + 1)
      <4>1. AppendedToLinear(l) = LinearAppend(lin[l], pos, <<brow>>)
        BY <1>3 DEF AppendedToLinear
      <4> QED BY <1>2, <1>3, <3>1, <3>2, <3>3, <4>1, LinearAppendHolds
    <3>5. lin'[l] = AppendedToLinear(l) /\ \A m \in GlobalLayers : m # l => lin'[m] = lin[m]
      BY <1>6, <2>2, <3>1
    <3>6. LayerHolds(l, ctx, pos)' /\ LayerHolds(l, ctx, pos + 1)'
      BY <1>1, <1>5, <2>2, <3>4, <3>5 DEF LayerHolds
    <3>7. \A m \in Layers : m # l => \A c, p : LayerHolds(m, c, p)' = LayerHolds(m, c, p)
      BY <2>2, <3>5 DEF LayerHolds, GlobalLayers
    <3> QED BY <3>6, <3>7
  <2> QED BY <2>1, <2>2 DEF DecodeLayer
<1>8. LayerHolds(l, fed, pos)'
  <2>1. /\ HoldsTail(ring'[l], ctx, pos) => HoldsTail(ring'[l], fed, pos)
        /\ HoldsStored(lin'[l], ctx, pos) => HoldsStored(lin'[l], fed, pos)
    BY <1>2, StoreAgree
  <2> QED BY <1>1, <1>5, <1>7, <2>1 DEF LayerHolds
<1> QED BY <1>1, <1>5, <1>7, <1>8 DEF ctx

-----------------------------------------------------------------------------
(* Each step keeps the data invariant.                                      *)

(* A step that leaves the stores and the context alone keeps what they      *)
(* hold.                                                                    *)
LEMMA StoresKept ==
  ASSUME StoresHold, UNCHANGED <<ring, lin, pos, fed>>
  PROVE  StoresHold'
  BY DEF StoresHold, LayerHolds

(* Every store holds the empty context: reset needs no clearing.            *)
LEMMA EmptyHolds ==
  ASSUME pos' = 0
  PROVE  StoresHold'
<1>1. \A l \in Layers : HoldsTail(ring'[l], fed', 0) /\ HoldsStored(lin'[l], fed', 0)
  <2>1. \A t : ~(t \in FirstInWindow(0) .. 0 - 1)
    BY WindowAssumption DEF FirstInWindow, LargerOf
  <2>2. \A t \in LinearSlots : ~(t < 0)
    BY CapAssumption DEF LinearSlots
  <2> QED BY <2>1, <2>2 DEF HoldsTail, HoldsStored
<1> QED BY <1>1 DEF StoresHold, LayerHolds

(* A prefill call is made by a request that prefills, a decode call by one  *)
(* that decodes.                                                            *)
LEMMA CallOfRequest ==
  ASSUME ControlInv
  PROVE  /\ call.op = "prefill" => req.pc = "prefill"
         /\ call.op = "decode" => req.pc = "decode"
         /\ call \in CallRecord
  BY DEF ControlInv, TypeOK, CallOK, NoCall, RequestRecord, PhaseOfRequest

(* Recording or reusing a chunk's graphs touches no store.                  *)
LEMMA RecordChunkData ==
  ASSUME IInv, RecordChunk, UNCHANGED sessionVars
  PROVE  DataInv'
<1>1. /\ At("prefill", "record")
      /\ call' = [call EXCEPT !.pc = "stage"]
      /\ UNCHANGED <<pos, ring, lin, fed, history, req, dirty>>
  BY DEF RecordChunk, Goto, kvVars, sessionVars
<1>2. /\ req.pc = "prefill" /\ call.op = "prefill" /\ call.pc = "record"
      /\ call'.op = "prefill" /\ call'.pc = "stage" /\ call'.todo = call.todo
  BY <1>1, CallOfRequest DEF IInv, At, CallRecord
<1>3. SUFFICES ASSUME ~dirty'
               PROVE  StoresFollow' /\ HistoryFollows'
  BY DEF DataInv
<1>4. StoresFollow /\ HistoryFollows
  BY <1>1, <1>3 DEF IInv, DataInv
<1>5. StoresFollow'
  <2>1. StoresHold'
    BY <1>1, <1>2, <1>4, StoresKept DEF StoresFollow
  <2> QED BY <1>2, <2>1 DEF StoresFollow, At
<1>6. HistoryFollows'
  BY <1>1, <1>2, <1>4 DEF HistoryFollows, Target
<1> QED BY <1>5, <1>6

(* Staging a chunk touches no store.                                        *)
LEMMA StageChunkData ==
  ASSUME IInv, StageChunk, UNCHANGED sessionVars
  PROVE  DataInv'
<1>1. /\ At("prefill", "stage")
      /\ call' = [call EXCEPT !.pc = "layer", !.layer = 1]
      /\ UNCHANGED <<pos, ring, lin, fed, history, req, dirty>>
  BY DEF StageChunk, StartLayers, kvVars, sessionVars
<1>2. /\ req.pc = "prefill" /\ call.op = "prefill" /\ call.pc = "stage"
      /\ call'.op = "prefill" /\ call'.pc = "layer" /\ call'.todo = call.todo
      /\ call'.layer = 1
  BY <1>1, CallOfRequest DEF IInv, At, CallRecord
<1>3. SUFFICES ASSUME ~dirty'
               PROVE  StoresFollow' /\ HistoryFollows'
  BY DEF DataInv
<1>4. StoresFollow /\ HistoryFollows
  BY <1>1, <1>3 DEF IInv, DataInv
<1>5. StoresFollow'
  <2>1. StoresHold'
    BY <1>1, <1>2, <1>4, StoresKept DEF StoresFollow
  <2>2. \A l \in Layers : ~(l < call'.layer)
    BY <1>2, LayersAssumption DEF Layers
  <2>3. \A l \in Layers : LayerHolds(l, fed, pos)'
    BY <2>1 DEF StoresHold
  <2> QED BY <1>2, <2>1, <2>2, <2>3 DEF StoresFollow, At
<1>6. HistoryFollows'
  BY <1>1, <1>2, <1>4 DEF HistoryFollows, Target
<1> QED BY <1>5, <1>6

(* Running a prefill layer moves that layer's store a chunk ahead and no    *)
(* other.                                                                   *)
LEMMA PrefillLayerData ==
  ASSUME ChunkCap <= Window, IInv, NEW l \in Layers, PrefillLayer(l), UNCHANGED sessionVars
  PROVE  DataInv'
<1>1. /\ At("prefill", "layer") /\ l = call.layer
      /\ call' = [call EXCEPT !.layer = @ + 1]
      /\ UNCHANGED <<pos, fed, history, req, dirty>>
  BY DEF PrefillLayer, NextLayer, sessionVars
<1>2. /\ req.pc = "prefill" /\ call.op = "prefill" /\ call.pc = "layer"
      /\ call'.op = "prefill" /\ call'.pc = "layer" /\ call'.todo = call.todo
      /\ call'.layer = l + 1
  BY <1>1, CallOfRequest DEF IInv, At, CallRecord
<1>3. SUFFICES ASSUME ~dirty'
               PROVE  StoresFollow' /\ HistoryFollows'
  BY DEF DataInv
<1>4. StoresFollow /\ HistoryFollows
  BY <1>1, <1>3 DEF IInv, DataInv
<1>5. StoresFollow'
  <2>1. \A m \in Layers :
          /\ m < l => LayerHolds(m, fed \o Chunk, pos + ChunkLen)
          /\ m >= l => LayerHolds(m, fed, pos)
    BY <1>1, <1>4 DEF StoresFollow
  <2>2. LayerHolds(l, fed, pos)
    BY <2>1, LayersAssumption DEF Layers
  <2>3. /\ LayerHolds(l, fed \o Chunk, pos + ChunkLen)'
        /\ \A m \in Layers : m # l => \A ctx, p : LayerHolds(m, ctx, p)' = LayerHolds(m, ctx, p)
    BY <2>2, PrefillLayerHolds DEF IInv
  <2>4. (fed \o Chunk)' = fed \o Chunk /\ (pos + ChunkLen)' = pos + ChunkLen
    BY <1>1, <1>2 DEF Chunk, ChunkLen
  <2>5. ASSUME NEW m \in Layers
        PROVE  /\ m < l + 1 => LayerHolds(m, fed \o Chunk, pos + ChunkLen)'
               /\ m >= l + 1 => LayerHolds(m, fed, pos)'
    <3>1. CASE m = l
      BY <2>3, <3>1, LayersAssumption DEF Layers
    <3>2. CASE m < l
      <4>1. LayerHolds(m, fed \o Chunk, pos + ChunkLen)
        BY <2>1, <3>2
      <4>2. LayerHolds(m, fed \o Chunk, pos + ChunkLen)'
        BY <2>3, <2>4, <3>2, <4>1, LayersAssumption DEF Layers, LayerHolds
      <4> QED BY <3>2, <4>2, LayersAssumption DEF Layers
    <3>3. CASE m > l
      <4>1. LayerHolds(m, fed, pos)
        BY <2>1, <3>3, LayersAssumption DEF Layers
      <4>2. LayerHolds(m, fed, pos)'
        BY <1>1, <2>3, <3>3, <4>1, LayersAssumption DEF Layers, LayerHolds
      <4> QED BY <3>3, <4>2, LayersAssumption DEF Layers
    <3> QED BY <3>1, <3>2, <3>3, LayersAssumption DEF Layers
  <2>6. l + 1 > 1
    BY LayersAssumption DEF Layers
  <2> QED BY <1>2, <2>5, <2>6 DEF StoresFollow, At
<1>6. HistoryFollows'
  BY <1>1, <1>2, <1>4 DEF HistoryFollows, Target
<1> QED BY <1>5, <1>6

(* When pos moves by n_real, every layer has appended the chunk.            *)
LEMMA AdvanceChunkData ==
  ASSUME IInv, AdvanceChunk, UNCHANGED sessionVars
  PROVE  DataInv'
<1> DEFINE rest == SubSeq(call.todo, ChunkLen + 1, Len(call.todo))
           pc   == IF MoreChunks THEN "record" ELSE "read"
<1>1. /\ At("prefill", "layer") /\ call.layer = NumLayers + 1
      /\ pos' = pos + ChunkLen
      /\ fed' = fed \o Chunk
      /\ call' = [call EXCEPT !.todo = rest, !.pc = pc]
      /\ UNCHANGED <<ring, lin, history, req, dirty>>
  BY DEF AdvanceChunk, kvVars, sessionVars
<1>2. /\ req.pc = "prefill" /\ call.op = "prefill" /\ call.pc = "layer"
      /\ call'.op = "prefill" /\ call'.pc = pc /\ call'.todo = rest
  BY <1>1, CallOfRequest DEF IInv, At, CallRecord
<1>3. pc \in {"record", "read"}
  OBVIOUS
<1>4. SUFFICES ASSUME ~dirty'
               PROVE  StoresFollow' /\ HistoryFollows'
  BY DEF DataInv
<1>5. StoresFollow /\ HistoryFollows
  BY <1>1, <1>4 DEF IInv, DataInv
<1>6. /\ call.todo \in Seq(Token) /\ call.todo # <<>>
      /\ fed \in Seq(Token) /\ Len(fed) = pos /\ history \in Seq(Token)
  BY <1>2 DEF IInv, ControlInv, TypeOK, CallOK, CallRecord, FedOK
<1>7. /\ ChunkLen \in Nat \ {0} /\ ChunkLen <= Len(call.todo)
      /\ Chunk \in Seq(Token) /\ rest \in Seq(Token)
      /\ Len(rest) = Len(call.todo) - ChunkLen
  BY <1>6, ChunkFacts
<1>8. Chunk \o rest = call.todo
  <2>1. /\ 1 \in 1 .. Len(call.todo) + 1 /\ ChunkLen \in 1 - 1 .. Len(call.todo)
        /\ Len(call.todo) \in ChunkLen .. Len(call.todo)
    BY <1>6, <1>7
  <2>2. Chunk \o rest = SubSeq(call.todo, 1, Len(call.todo))
    BY <1>6, <2>1, ConcatAdjacentSubSeq DEF Chunk
  <2>3. SubSeq(call.todo, 1, Len(call.todo)) = call.todo
    BY <1>6, SubSeqFull
  <2> QED BY <2>2, <2>3
<1>9. pc = "read" => rest = <<>>
  <2>1. pc = "read" => Len(call.todo) <= ChunkLen
    BY <1>6, <1>7 DEF MoreChunks
  <2>2. pc = "read" => Len(rest) = 0
    BY <1>6, <1>7, <2>1
  <2> QED BY <1>7, <2>2, EmptySeq
<1> HIDE DEF rest, pc
<1>10. fed' \o rest = fed \o call.todo
  <2>1. (fed \o Chunk) \o rest = fed \o (Chunk \o rest)
    <3>1. fed \in Seq(Token) /\ Chunk \in Seq(Token) /\ rest \in Seq(Token)
      BY <1>6, <1>7
    <3> QED BY ONLY <3>1, ConcatAssociative
  <2> QED BY <1>1, <1>8, <2>1
<1>11. StoresFollow'
  <2>1. \A l \in Layers : l < NumLayers + 1
    BY LayersAssumption DEF Layers
  <2>2. \A l \in Layers : LayerHolds(l, fed \o Chunk, pos + ChunkLen)
    BY <1>1, <1>5, <2>1 DEF StoresFollow
  <2>3. StoresHold'
    BY <1>1, <2>2 DEF StoresHold, LayerHolds
  <2> QED BY <1>2, <1>3, <2>3 DEF StoresFollow, At
<1>12. HistoryFollows'
  <2>1. /\ Len(history) <= Len(fed)
        /\ \A i \in 1 .. Len(history) : fed[i] = history[i]
        /\ fed \o call.todo = Target
    BY <1>2, <1>5 DEF HistoryFollows
  <2>2. Len(fed') = Len(fed) + Len(Chunk) /\ \A i \in 1 .. Len(fed) : fed'[i] = fed[i]
    <3>1. /\ Len(fed \o Chunk) = Len(fed) + Len(Chunk)
          /\ \A i \in 1 .. Len(fed) + Len(Chunk) : (fed \o Chunk)[i] =
               IF i <= Len(fed) THEN fed[i] ELSE Chunk[i - Len(fed)]
      <4>1. fed \in Seq(Token) /\ Chunk \in Seq(Token)
        BY <1>6, <1>7, Zenon
      <4> QED BY ONLY <4>1, ConcatProperties, Zenon
    <3>2. ASSUME NEW i \in 1 .. Len(fed)
          PROVE  (fed \o Chunk)[i] = fed[i]
      <4>1. i \in 1 .. Len(fed) + Len(Chunk) /\ i <= Len(fed)
        BY <1>6, <1>7
      <4> QED BY <3>1, <4>1
    <3> QED BY <1>1, <3>1, <3>2
  <2>3. Len(history') <= Len(fed') /\ \A i \in 1 .. Len(history') : fed'[i] = history'[i]
    BY <1>1, <1>6, <1>7, <2>1, <2>2
  <2>4. Target' = Target
    BY <1>1 DEF Target
  <2>5. fed' \o call'.todo = Target'
    BY <1>2, <1>10, <2>1, <2>4
  <2>6. pc = "read" => fed' = Target'
    <3>1. fed' \in Seq(Token)
      BY <1>1, <1>6, <1>7, ConcatProperties
    <3> QED BY <1>9, <1>10, <2>1, <2>4, <3>1, ConcatEmptySeq
  <2> QED BY <1>1, <1>2, <1>3, <2>3, <2>5, <2>6 DEF HistoryFollows
<1> QED BY <1>11, <1>12

(* Staging a token touches no store.                                        *)
LEMMA StageTokenData ==
  ASSUME IInv, StageToken, UNCHANGED sessionVars
  PROVE  DataInv'
<1>1. /\ At("decode", "stage")
      /\ call' = [call EXCEPT !.pc = "layer", !.layer = 1]
      /\ UNCHANGED <<pos, ring, lin, fed, history, req, dirty>>
  BY DEF StageToken, StartLayers, kvVars, sessionVars
<1>2. /\ req.pc = "decode" /\ call.op = "decode" /\ call.pc = "stage"
      /\ call'.op = "decode" /\ call'.pc = "layer" /\ call'.todo = call.todo
      /\ call'.layer = 1
  BY <1>1, CallOfRequest DEF IInv, At, CallRecord
<1>3. SUFFICES ASSUME ~dirty'
               PROVE  StoresFollow' /\ HistoryFollows'
  BY DEF DataInv
<1>4. StoresFollow /\ HistoryFollows
  BY <1>1, <1>3 DEF IInv, DataInv
<1>5. StoresFollow'
  <2>1. StoresHold'
    BY <1>1, <1>2, <1>4, StoresKept DEF StoresFollow
  <2>2. \A l \in Layers : ~(l < call'.layer)
    BY <1>2, LayersAssumption DEF Layers
  <2> QED BY <1>2, <2>1, <2>2 DEF StoresFollow, At
<1>6. HistoryFollows'
  BY <1>1, <1>2, <1>4 DEF HistoryFollows
<1> QED BY <1>5, <1>6

(* Running a decode layer adds the row at pos to that layer's store.        *)
LEMMA DecodeLayerData ==
  ASSUME IInv, NEW l \in Layers, DecodeLayer(l), UNCHANGED sessionVars
  PROVE  DataInv'
<1>1. /\ At("decode", "layer") /\ l = call.layer
      /\ call' = [call EXCEPT !.layer = @ + 1]
      /\ UNCHANGED <<pos, fed, history, req, dirty>>
  BY DEF DecodeLayer, NextLayer, sessionVars
<1>2. /\ req.pc = "decode" /\ call.op = "decode" /\ call.pc = "layer"
      /\ call'.op = "decode" /\ call'.pc = "layer" /\ call'.todo = call.todo
      /\ call'.layer = l + 1
  BY <1>1, CallOfRequest DEF IInv, At, CallRecord
<1>3. SUFFICES ASSUME ~dirty'
               PROVE  StoresFollow' /\ HistoryFollows'
  BY DEF DataInv
<1>4. StoresFollow /\ HistoryFollows
  BY <1>1, <1>3 DEF IInv, DataInv
<1>5. StoresHold
  BY <1>2, <1>4 DEF StoresFollow
<1>6. /\ LayerHolds(l, fed, pos)'
      /\ LayerHolds(l, fed \o call.todo, pos + 1)'
      /\ \A m \in Layers : m # l => \A ctx, p : LayerHolds(m, ctx, p)' = LayerHolds(m, ctx, p)
  BY <1>5, DecodeLayerHolds DEF IInv, StoresHold
<1>7. StoresHold'
  <2>1. ASSUME NEW m \in Layers
        PROVE  LayerHolds(m, fed, pos)'
    <3>1. CASE m = l
      BY <1>6, <3>1
    <3>2. CASE m # l
      BY <1>1, <1>5, <1>6, <3>2 DEF StoresHold, LayerHolds
    <3> QED BY <3>1, <3>2
  <2> QED BY <2>1 DEF StoresHold
<1>8. ASSUME NEW m \in Layers, m < l + 1
      PROVE  LayerHolds(m, fed \o call.todo, pos + 1)'
  <2>1. CASE m = l
    BY <1>6, <2>1
  <2>2. CASE m # l
    <3>1. m < call.layer
      BY <1>1, <1>8, <2>2, LayersAssumption DEF Layers
    <3>2. LayerHolds(m, fed \o call.todo, pos + 1)
      BY <1>1, <1>4, <3>1 DEF StoresFollow
    <3> QED BY <1>1, <1>2, <1>6, <2>2, <3>2 DEF LayerHolds
  <2> QED BY <2>1, <2>2
<1>9. StoresFollow'
  BY <1>2, <1>7, <1>8 DEF StoresFollow, At
<1>10. HistoryFollows'
  BY <1>1, <1>2, <1>4 DEF HistoryFollows
<1> QED BY <1>9, <1>10

(* When advance() moves pos, every layer has appended the token.            *)
LEMMA AdvanceData ==
  ASSUME IInv, Advance, UNCHANGED sessionVars
  PROVE  DataInv'
<1>1. /\ At("decode", "layer") /\ call.layer = NumLayers + 1
      /\ pos' = pos + 1
      /\ fed' = Append(fed, call.todo[1])
      /\ call' = [call EXCEPT !.pc = "read"]
      /\ UNCHANGED <<ring, lin, history, req, dirty>>
  BY DEF Advance, Goto, kvVars, sessionVars
<1>2. /\ req.pc = "decode" /\ call.op = "decode" /\ call.pc = "layer"
      /\ call'.op = "decode" /\ call'.pc = "read" /\ call'.todo = call.todo
  BY <1>1, CallOfRequest DEF IInv, At, CallRecord
<1>3. SUFFICES ASSUME ~dirty'
               PROVE  StoresFollow' /\ HistoryFollows'
  BY DEF DataInv
<1>4. StoresFollow /\ HistoryFollows
  BY <1>1, <1>3 DEF IInv, DataInv
<1>5. fed \o call.todo = fed'
  BY <1>1, <1>2, DecodeContext DEF IInv
<1>6. StoresFollow'
  <2>1. \A l \in Layers : l < NumLayers + 1
    BY LayersAssumption DEF Layers
  <2>2. \A l \in Layers : LayerHolds(l, fed \o call.todo, pos + 1)
    BY <1>1, <1>4, <2>1 DEF StoresFollow
  <2>3. StoresHold'
    BY <1>1, <1>5, <2>2 DEF StoresHold, LayerHolds
  <2> QED BY <1>2, <2>3 DEF StoresFollow, At
<1>7. HistoryFollows'
  BY <1>1, <1>2, <1>4 DEF HistoryFollows
<1> QED BY <1>6, <1>7

(* A call that returns, or that fails where it is.                          *)
LEMMA GotoData ==
  ASSUME IInv, NEW pc \in {"ok", "err"}, Goto(pc),
         call.pc \in {"record", "stage", "layer", "read"}, pc = "ok" => call.pc = "read",
         UNCHANGED <<pos, kvVars, fed, sessionVars>>
  PROVE  DataInv'
<1>1. /\ call' = [call EXCEPT !.pc = pc]
      /\ UNCHANGED <<pos, ring, lin, fed, history, req, dirty>>
  BY DEF Goto, kvVars, sessionVars
<1>2. /\ call'.op = call.op /\ call'.pc = pc /\ call'.todo = call.todo
      /\ call'.layer = call.layer
  BY <1>1, CallOfRequest DEF IInv, CallRecord
<1>3. SUFFICES ASSUME ~dirty'
               PROVE  StoresFollow' /\ HistoryFollows'
  BY DEF DataInv
<1>4. StoresFollow /\ HistoryFollows
  BY <1>1, <1>3 DEF IInv, DataInv
<1>5. StoresFollow'
  <2>1. CASE call.op = "prefill" /\ call.pc \in {"layer", "err"} /\ call.layer > 1
    BY <1>2, <2>1 DEF StoresFollow, At
  <2>2. CASE ~(call.op = "prefill" /\ call.pc \in {"layer", "err"} /\ call.layer > 1)
    <3>1. StoresHold'
      BY <1>1, <1>4, <2>2, StoresKept DEF StoresFollow
    <3> QED BY <1>2, <3>1 DEF StoresFollow, At
  <2> QED BY <2>1, <2>2
<1>6. HistoryFollows'
  <2>1. req'.pc \notin {"idle", "sample"}
    BY <1>1 DEF IInv, ControlInv, CallOK, NoCall
  <2>2. CASE req.pc = "prefill"
    BY <1>1, <1>2, <1>4, <2>1, <2>2 DEF HistoryFollows, Target
  <2>3. CASE req.pc = "decode"
    <3>1. call.pc \in {"stage", "layer", "read"}
      BY <2>3 DEF IInv, ControlInv, CallOK
    <3>2. CASE call.pc \in {"stage", "layer"}
      BY <1>1, <1>2, <1>4, <2>3, <3>2 DEF HistoryFollows
    <3>3. CASE call.pc = "read"
      <4>1. fed = Append(history, call.todo[1])
        BY <1>4, <2>3, <3>3 DEF HistoryFollows
      <4>2. history \in Seq(Token) /\ Len(fed) = pos
        BY DEF IInv, ControlInv, TypeOK, FedOK
      <4>3. call.todo[1] \in Token
        BY <2>3, DecodeContext DEF IInv, ControlInv, CallOK
      <4>4. pos # Len(history)
        BY <4>1, <4>2, <4>3, AppendProperties
      <4> QED BY <1>1, <1>2, <2>3, <4>1, <4>4 DEF HistoryFollows
    <3> QED BY <3>1, <3>2, <3>3
  <2> QED BY <1>1, <2>1, <2>2, <2>3 DEF IInv, ControlInv, TypeOK, RequestRecord, PhaseOfRequest
<1> QED BY <1>5, <1>6

(* Reading the logits ends the call and touches no store.                   *)
LEMMA ReadLogitsData ==
  ASSUME IInv, ReadLogits, UNCHANGED sessionVars
  PROVE  DataInv'
  BY GotoData DEF ReadLogits

(* A failed GPU call leaves the stores where they are.                      *)
LEMMA GpuFaultData ==
  ASSUME IInv, NEW kind \in Faults, GpuFault(kind), UNCHANGED sessionVars
  PROVE  DataInv'
<1>1. call.pc \in {"record", "stage", "layer", "read"}
  BY DEF GpuFault, FaultPossible
<1> QED BY <1>1, GotoData DEF GpuFault

(* A request that resumes extends the resident context; one that resets     *)
(* starts from none.                                                        *)
LEMMA RequestData ==
  ASSUME IInv, NEW r \in Requests, Request(r)
  PROVE  DataInv'
<1> DEFINE suffix == SubSeq(r.prompt, Len(history') + 1, Len(r.prompt))
<1>1. /\ req.pc = "idle"
      /\ IF MustReset(r.prompt) THEN ClearResident ELSE KeepResident
      /\ call' = PrefillCall(suffix)
      /\ req' = [pc |-> "prefill", prompt |-> r.prompt, out |-> <<>>,
                 max |-> r.max, stop |-> "none"]
      /\ UNCHANGED <<ring, lin>>
  BY DEF Request, kvVars
<1>2. call.op = "none"
  BY <1>1 DEF IInv, ControlInv, CallOK, NoCall
<1>3. /\ req'.pc = "prefill" /\ req'.prompt = r.prompt
      /\ call'.op = "prefill" /\ call'.pc = "record" /\ call'.todo = suffix
  BY <1>1 DEF PrefillCall
<1>4. SUFFICES ASSUME ~dirty'
               PROVE  StoresFollow' /\ HistoryFollows'
  BY DEF DataInv
<1>5. StoresHold' /\ history' = fed'
  <2>1. CASE ClearResident
    BY <2>1, EmptyHolds DEF ClearResident
  <2>2. CASE KeepResident
    <3>1. StoresFollow /\ HistoryFollows
      BY <1>4, <2>2 DEF KeepResident, IInv, DataInv
    <3>2. StoresHold'
      BY <1>1, <1>2, <2>2, <3>1, StoresKept DEF KeepResident, StoresFollow
    <3> QED BY <1>1, <2>2, <3>1, <3>2 DEF KeepResident, HistoryFollows
  <2> QED BY <1>1, <2>1, <2>2
<1>6. StoresFollow'
  BY <1>3, <1>5 DEF StoresFollow, At
<1>7. HistoryFollows'
  <2>1. Target' = history' \o suffix
    BY <1>3 DEF Target
  <2>2. fed' \in Seq(Token)
    BY RequestControl DEF IInv, ControlInv, TypeOK
  <2>3. Len(history') <= Len(fed')
    BY <1>5, <2>2
  <2> QED BY <1>3, <1>5, <2>1, <2>3 DEF HistoryFollows
<1> QED BY <1>6, <1>7

(* Session::reset leaves nothing to hold.                                   *)
LEMMA ResetData ==
  ASSUME IInv, Reset
  PROVE  DataInv'
<1>1. /\ req.pc = "idle" /\ pos' = 0 /\ fed' = <<>> /\ history' = <<>>
      /\ UNCHANGED <<call, req>>
  BY DEF Reset, ClearResident
<1>2. call'.op = "none"
  BY <1>1 DEF IInv, ControlInv, CallOK, NoCall
<1>3. StoresFollow'
  BY <1>1, <1>2, EmptyHolds DEF StoresFollow, At
<1>4. HistoryFollows'
  BY <1>1 DEF HistoryFollows
<1> QED BY <1>3, <1>4 DEF DataInv

(* The steps that end a call or sample from one keep stores and pos.        *)
LEMMA ReturnData ==
  ASSUME IInv, call'.op \in {"none", "decode"}, call'.pc \in {"idle", "stage"},
         UNCHANGED <<pos, kvVars, fed>>, ~dirty,
         call.pc \in {"layer", "err"} => ~PrefillHasRun
  PROVE  StoresFollow'
<1>1. UNCHANGED <<pos, ring, lin, fed>>
  BY DEF kvVars
<1>2. StoresHold
  BY DEF IInv, DataInv, StoresFollow, PrefillHasRun
<1>3. StoresHold'
  BY <1>1, <1>2, StoresKept
<1> QED BY <1>3 DEF StoresFollow, At

(* After prefill, history is the prompt and the stores hold it.             *)
LEMMA PrefillReturnsData ==
  ASSUME IInv, PrefillReturns
  PROVE  DataInv'
<1>1. /\ req.pc = "prefill" /\ call.pc = "ok"
      /\ history' = history \o SubSeq(req.prompt, Len(history) + 1, Len(req.prompt))
      /\ req' = [req EXCEPT !.pc = "sample"]
      /\ call' = NoCall
      /\ UNCHANGED <<pos, kvVars, fed, dirty>>
  BY DEF PrefillReturns
<1>2. req'.pc = "sample" /\ call'.op = "none" /\ call'.pc = "idle"
  BY <1>1 DEF IInv, ControlInv, TypeOK, RequestRecord, NoCall
<1>3. SUFFICES ASSUME ~dirty'
               PROVE  StoresFollow' /\ HistoryFollows'
  BY DEF DataInv
<1>4. StoresFollow'
  BY <1>1, <1>2, <1>3, ReturnData
<1>5. fed = Target
  BY <1>1, <1>3 DEF IInv, DataInv, HistoryFollows
<1> QED BY <1>1, <1>2, <1>4, <1>5 DEF HistoryFollows, Target

(* After decode_step, history gains the token the stores have gained.       *)
LEMMA DecodeReturnsData ==
  ASSUME IInv, DecodeReturns
  PROVE  DataInv'
<1>1. /\ req.pc = "decode" /\ call.pc = "ok"
      /\ history' = Append(history, req.out[Len(req.out)])
      /\ req' = [req EXCEPT !.pc = "sample"]
      /\ call' = NoCall
      /\ UNCHANGED <<pos, kvVars, fed, dirty>>
  BY DEF DecodeReturns
<1>2. req'.pc = "sample" /\ call'.op = "none" /\ call'.pc = "idle"
  BY <1>1 DEF IInv, ControlInv, TypeOK, RequestRecord, NoCall
<1>3. SUFFICES ASSUME ~dirty'
               PROVE  StoresFollow' /\ HistoryFollows'
  BY DEF DataInv
<1>4. StoresFollow'
  BY <1>1, <1>2, <1>3, ReturnData
<1>5. fed = Append(history, call.todo[1])
  BY <1>1, <1>3 DEF IInv, DataInv, HistoryFollows
<1>6. call.todo[1] = req.out[Len(req.out)]
  BY <1>1 DEF IInv, ControlInv, CallOK
<1> QED BY <1>1, <1>2, <1>4, <1>5, <1>6 DEF HistoryFollows

(* Sampling moves neither stores nor history.                               *)
LEMMA SampleData ==
  ASSUME IInv, NEW tok \in Token, NEW keepGoing \in BOOLEAN, Sample(tok, keepGoing)
  PROVE  DataInv'
<1> DEFINE stop == StopReason(Append(req.out, tok), keepGoing, req.max)
<1>1. /\ req.pc = "sample"
      /\ req' = [req EXCEPT !.out = Append(req.out, tok), !.stop = stop,
                            !.pc = IF stop = "none" THEN "decode" ELSE "idle"]
      /\ call' = IF stop = "none" THEN DecodeCall(tok) ELSE NoCall
      /\ UNCHANGED <<pos, kvVars, fed, history, dirty>>
  BY DEF Sample
<1> HIDE DEF stop
<1>2. req'.pc = IF stop = "none" THEN "decode" ELSE "idle"
  BY <1>1 DEF IInv, ControlInv, TypeOK, RequestRecord
<1>3. call = NoCall
  BY <1>1 DEF IInv, ControlInv, CallOK
<1>4. SUFFICES ASSUME ~dirty'
               PROVE  StoresFollow' /\ HistoryFollows'
  BY DEF DataInv
<1>5. StoresFollow'
  BY <1>1, <1>3, <1>4, ReturnData DEF NoCall, DecodeCall
<1>6. history = fed
  BY <1>1, <1>4 DEF IInv, DataInv, HistoryFollows
<1>7. history' = fed'
  BY <1>1, <1>6
<1>8. req'.pc \in {"idle", "decode"} /\ (req'.pc = "decode" => call'.pc = "stage")
  BY <1>1, <1>2 DEF DecodeCall
<1> QED BY <1>5, <1>7, <1>8 DEF HistoryFollows

(* A failed request leaves the history right unless it raises dirty.        *)
LEMMA RequestFailsData ==
  ASSUME IInv, RequestFails
  PROVE  DataInv'
<1>1. /\ req.pc \in {"prefill", "decode"} /\ call.pc = "err"
      /\ req' = [req EXCEPT !.pc = "idle", !.stop = "error"]
      /\ call' = NoCall
      /\ dirty' = (dirty \/ pos # Len(history) \/ PrefillHasRun)
      /\ UNCHANGED <<pos, kvVars, fed, history>>
  BY DEF RequestFails
<1>2. req'.pc = "idle" /\ call'.op = "none" /\ call'.pc = "idle"
  BY <1>1 DEF IInv, ControlInv, TypeOK, RequestRecord, NoCall
<1>3. SUFFICES ASSUME ~dirty'
               PROVE  StoresFollow' /\ HistoryFollows'
  BY DEF DataInv
<1>4. ~dirty /\ pos = Len(history) /\ ~PrefillHasRun
  BY <1>1, <1>3
<1>5. StoresFollow'
  BY <1>1, <1>2, <1>4, ReturnData
<1>6. history = fed
  <2>1. HistoryFollows
    BY <1>4 DEF IInv, DataInv
  <2>2. CASE req.pc = "prefill"
    <3>1. /\ history \in Seq(Token) /\ fed \in Seq(Token) /\ Len(fed) = pos
      BY DEF IInv, ControlInv, TypeOK, FedOK
    <3>2. \A i \in 1 .. Len(history) : fed[i] = history[i]
      BY <2>1, <2>2 DEF HistoryFollows
    <3> QED BY <1>4, <3>1, <3>2, SeqEqual
  <2>3. CASE req.pc = "decode"
    BY <1>1, <1>4, <2>1, <2>3 DEF HistoryFollows
  <2> QED BY <1>1, <2>2, <2>3
<1> QED BY <1>1, <1>2, <1>5, <1>6 DEF HistoryFollows

-----------------------------------------------------------------------------
(* The new model and session satisfy the invariant.                         *)
LEMMA InitIInv == Init => IInv
<1>1. ASSUME Init PROVE IInv
  <2>1. ControlInv
    BY <1>1, InitControl
  <2>2. pos = 0 /\ fed = <<>> /\ history = <<>> /\ call = NoCall /\ req = NoRequest
    BY <1>1 DEF Init, ModelInit
  <2>3. StoresHold
    BY <2>2, HoldsNothing DEF StoresHold
  <2>4. StoresFollow
    BY <2>2, <2>3 DEF StoresFollow, At, NoCall
  <2>5. HistoryFollows
    BY <2>2 DEF HistoryFollows, NoRequest
  <2> QED BY <2>1, <2>4, <2>5 DEF IInv, DataInv
<1> QED BY <1>1

(* Every step of session, driver and GPU preserves the invariant.           *)
LEMMA NextIInv ==
  ASSUME ChunkCap <= Window, IInv, [Next]_vars
  PROVE  IInv'
<1>1. SUFFICES DataInv'
  BY NextControl DEF IInv
<1>2. ASSUME NEW r \in Requests, Request(r) PROVE DataInv'
  BY <1>2, RequestData
<1>3. CASE Reset
  BY <1>3, ResetData
<1>4. CASE PrefillReturns
  BY <1>4, PrefillReturnsData
<1>5. ASSUME NEW tok \in Token, NEW keepGoing \in BOOLEAN, Sample(tok, keepGoing)
      PROVE  DataInv'
  BY <1>5, SampleData
<1>6. CASE DecodeReturns
  BY <1>6, DecodeReturnsData
<1>7. CASE RequestFails
  BY <1>7, RequestFailsData
<1>8. ASSUME ModelStep, UNCHANGED sessionVars PROVE DataInv'
  BY <1>8, RecordChunkData, StageChunkData, PrefillLayerData, AdvanceChunkData,
     StageTokenData, DecodeLayerData, AdvanceData, ReadLogitsData
     DEF ModelStep
<1>9. ASSUME ModelFault, UNCHANGED sessionVars PROVE DataInv'
  BY <1>9, GpuFaultData DEF ModelFault
<1>10. CASE UNCHANGED vars
  <2>1. UNCHANGED <<pos, ring, lin, fed, call, history, req, dirty>>
    BY <1>10 DEF vars, modelVars, kvVars, sessionVars
  <2>2. (StoresHold' <=> StoresHold) /\ (StoresFollow' <=> StoresFollow)
    BY <2>1 DEF StoresHold, StoresFollow, LayerHolds, At, Chunk, ChunkLen
  <2>3. HistoryFollows' <=> HistoryFollows
    BY <2>1 DEF HistoryFollows, Target
  <2> QED BY <2>1, <2>2, <2>3 DEF IInv, DataInv
<1> QED
  BY <1>2, <1>3, <1>4, <1>5, <1>6, <1>7, <1>8, <1>9, <1>10 DEF Next, SessionStep

(* As long as no request has been left to fail mid-way: each layer's store  *)
(* holds the tokens advanced over since the last reset, one chunk or token  *)
(* more if the running call has passed that layer, and between calls        *)
(* Session.history names those same tokens.                                 *)
THEOREM ResidencyInvariant ==
  ASSUME ChunkCap <= Window
  PROVE  Spec => []IInv
<1>1. Init => IInv
  BY InitIInv
<1>2. IInv /\ [Next]_vars => IInv'
  BY NextIInv
<1> QED BY <1>1, <1>2, PTL DEF Spec

-----------------------------------------------------------------------------
(* What the invariant gives a query.                                        *)

(* In a state of the invariant, a prefill query attends exactly its window. *)
LEMMA PrefillAttends ==
  ASSUME IInv, ~dirty, At("prefill", "layer"), NEW l \in Layers, l = call.layer,
         pos + ChunkLen <= GlobalCap, NEW i \in 0 .. ChunkLen - 1
  PROVE  Exactly(PrefillReads(l, i),
                 Rows(fed \o Chunk,
                      IF Kind[l] = "sliding" THEN FirstInWindow(pos + i) ELSE 0, pos + i))
<1> DEFINE ctx == fed \o Chunk
<1>1. /\ ChunkLen \in Nat \ {0} /\ pos \in Nat /\ i \in Nat
      /\ \A t \in 0 .. pos - 1 : ctx[t + 1] = fed[t + 1]
  <2>1. /\ ChunkLen \in Nat \ {0} /\ pos \in Nat
        /\ \A t \in 0 .. pos - 1 : ctx[t + 1] = fed[t + 1]
    BY ChunkContext DEF IInv, At
  <2> HIDE DEF ctx
  <2> QED BY <2>1
<1>2. /\ step.pos = pos /\ step.q0 = pos
      /\ \A c \in 0 .. ChunkLen - 1 : prows[c + 1] = RowAt(ctx, pos + c)
      /\ AppendedRows \in Seq(RowOrNone) /\ Len(AppendedRows) = ChunkLen
      /\ \A j \in 1 .. Len(AppendedRows) : AppendedRows[j] = RowAt(ctx, pos + j - 1)
  BY ChunkRows DEF IInv
<1>3. LayerHolds(l, fed, pos)
  <2>1. StoresFollow
    BY DEF IInv, DataInv
  <2>2. l >= call.layer
    BY LayersAssumption DEF Layers
  <2> QED BY <2>1, <2>2 DEF StoresFollow
<1>4. LayerHolds(l, ctx, pos)
  BY <1>1, <1>3, HoldsAgree
<1> HIDE DEF ctx
<1>5. CASE Kind[l] = "sliding"
  <2>1. HoldsTail(ring[l], ctx, pos)
    BY <1>4, <1>5 DEF LayerHolds
  <2>2. \A c \in 0 .. i : prows[c + 1] = RowAt(ctx, pos + c)
    BY <1>1, <1>2
  <2>3. Exactly(PrefillSlidingReads(ring[l], pos, prows, i),
                Rows(ctx, FirstInWindow(pos + i), pos + i))
    BY <1>1, <2>1, <2>2, PrefillSlidingExact
  <2> QED BY <1>2, <1>5, <2>3 DEF PrefillReads, ctx
<1>6. CASE Kind[l] # "sliding"
  <2>1. l \in GlobalLayers /\ Kind[l] = "global"
    BY <1>6, LayersAssumption DEF Layers, GlobalLayers
  <2>2. lin[l] \in [LinearSlots -> RowOrNone] /\ HoldsStored(lin[l], ctx, pos)
    BY <1>4, <2>1 DEF LayerHolds, IInv, ControlInv, TypeOK
  <2> DEFINE store == LinearAppend(lin[l], pos, AppendedRows)
  <2>3. HoldsStored(store, ctx, pos + ChunkLen)
    BY <1>1, <1>2, <2>2, LinearAppendHolds
  <2> HIDE DEF store
  <2>4. HoldsStored(store, ctx, pos + i + 1) /\ pos + i < GlobalCap
    BY <1>1, <2>3, CapAssumption DEF HoldsStored, LinearSlots
  <2>5. Exactly(PrefillGlobalReads(store, pos, i), Rows(ctx, 0, pos + i))
    BY <1>1, <2>4, PrefillGlobalExact
  <2> QED BY <1>2, <1>6, <2>5 DEF PrefillReads, ctx, store
<1> QED BY <1>5, <1>6

(* In a state of the invariant, the decode query attends exactly its        *)
(* window.                                                                  *)
LEMMA DecodeAttends ==
  ASSUME IInv, ~dirty, At("decode", "layer"), NEW l \in Layers, l = call.layer,
         pos + 1 <= GlobalCap
  PROVE  Exactly(DecodeReads(l),
                 Rows(fed \o call.todo,
                      IF Kind[l] = "sliding" THEN FirstInWindow(pos) ELSE 0, pos))
<1> DEFINE ctx == fed \o call.todo
<1>1. pos \in Nat /\ \A t \in 0 .. pos - 1 : ctx[t + 1] = fed[t + 1]
  BY DecodeContext DEF IInv, At
<1>2. /\ step.pos = pos /\ brow = RowAt(ctx, pos)
      /\ <<brow>> \in Seq(RowOrNone) /\ Len(<<brow>>) = 1
      /\ step.kvSliding = SmallerOf(pos + 1, Window) /\ step.kvGlobal = pos + 1
  BY DecodeRow, DecodeRowFacts DEF IInv
<1>3. LayerHolds(l, fed, pos)
  BY DEF IInv, DataInv, StoresFollow, StoresHold, At
<1>4. LayerHolds(l, ctx, pos)
  BY <1>1, <1>3, HoldsAgree
<1>5. SplitsSliding \in Nat \ {0} /\ SplitsGlobal \in Nat \ {0}
  BY SplitsAssumption
<1> HIDE DEF ctx
<1>6. CASE Kind[l] = "sliding"
  <2>1. ring[l] \in [Slots -> RowOrNone] /\ HoldsTail(ring[l], ctx, pos)
    BY <1>4, <1>6 DEF LayerHolds, SlidingLayers, IInv, ControlInv, TypeOK
  <2>2. AppendedToRing(l) = [ring[l] EXCEPT ![RingSlot(pos)] = RowAt(ctx, pos)]
    BY <1>2 DEF AppendedToRing
  <2>3. \A t \in FirstInWindow(pos) .. pos : AppendedToRing(l)[RingSlot(t)] = RowAt(ctx, t)
    BY <1>1, <2>1, <2>2, RingWriteHolds
  <2>4. Exactly(DecodeSlidingReads(AppendedToRing(l), SmallerOf(pos + 1, Window), SplitsSliding),
                Rows(ctx, FirstInWindow(pos), pos))
    BY <1>1, <1>5, <2>3, DecodeSlidingExact
  <2> QED BY <1>2, <1>6, <2>4 DEF DecodeReads, ctx
<1>7. CASE Kind[l] # "sliding"
  <2>1. l \in GlobalLayers /\ Kind[l] = "global"
    BY <1>7, LayersAssumption DEF Layers, GlobalLayers
  <2>2. lin[l] \in [LinearSlots -> RowOrNone] /\ HoldsStored(lin[l], ctx, pos)
    BY <1>4, <2>1 DEF LayerHolds, IInv, ControlInv, TypeOK
  <2>3. \A i \in 1 .. Len(<<brow>>) : <<brow>>[i] = RowAt(ctx, pos + i - 1)
    <3>1. TAKE i \in 1 .. Len(<<brow>>)
    <3>2. i = 1 /\ pos + i - 1 = pos
      BY <1>1, <1>2
    <3> QED BY <1>2, <3>2
  <2>4. HoldsStored(AppendedToLinear(l), ctx, pos + 1)
    <3>1. AppendedToLinear(l) = LinearAppend(lin[l], pos, <<brow>>)
      BY <1>2 DEF AppendedToLinear
    <3>2. pos \in Nat /\ <<brow>> \in Seq(RowOrNone) /\ Len(<<brow>>) = 1
      BY <1>1, <1>2
    <3>3. HoldsStored(LinearAppend(lin[l], pos, <<brow>>), ctx, pos + Len(<<brow>>))
      BY ONLY <2>2, <2>3, <3>2, LinearAppendHolds, Zenon
    <3> QED BY ONLY <3>1, <3>2, <3>3, Zenon
  <2>5. pos < GlobalCap
    BY <1>1, CapAssumption
  <2>6. Exactly(DecodeGlobalReads(AppendedToLinear(l), pos + 1, SplitsGlobal), Rows(ctx, 0, pos))
    BY <1>1, <1>5, <2>4, <2>5, DecodeGlobalExact
  <2> QED BY <1>2, <1>7, <2>6 DEF DecodeReads, ctx
<1> QED BY <1>6, <1>7

(* The invariant implies that attention is exact.                           *)
LEMMA IInvAttends == IInv => AttendsExactWindow
<1>1. SUFFICES ASSUME IInv, call.pc = "layer", call.layer \in Layers, ~dirty, WithinCapacity
               PROVE  AttendsExactWindow
  BY DEF AttendsExactWindow
<1>2. call.op \in {"prefill", "decode"}
  BY <1>1 DEF IInv, ControlInv, TypeOK, CallOK, CallRecord
<1>3. CASE call.op = "prefill"
  <2>1. pos + ChunkLen <= GlobalCap /\ RunningContext = fed \o Chunk
    BY <1>1, <1>3, ChunkContext DEF IInv, WithinCapacity, RunningContext
  <2>2. \A i \in 0 .. ChunkLen - 1 :
          Exactly(PrefillReads(call.layer, i),
                  Rows(fed \o Chunk,
                       IF Kind[call.layer] = "sliding" THEN FirstInWindow(pos + i) ELSE 0,
                       pos + i))
    BY <1>1, <1>3, <2>1, PrefillAttends DEF At
  <2> QED BY <1>3, <2>1, <2>2 DEF AttendsExactWindow
<1>4. CASE call.op = "decode"
  <2>1. pos + 1 <= GlobalCap /\ RunningContext = fed \o call.todo
    BY <1>1, <1>4, DecodeContext DEF IInv, WithinCapacity, RunningContext
  <2>2. Exactly(DecodeReads(call.layer),
                Rows(fed \o call.todo,
                     IF Kind[call.layer] = "sliding" THEN FirstInWindow(pos) ELSE 0, pos))
    BY <1>1, <1>4, <2>1, DecodeAttends DEF At
  <2> QED BY <1>4, <2>1, <2>2 DEF AttendsExactWindow
<1> QED BY <1>2, <1>3, <1>4

(* The invariant implies that history is resident between requests.         *)
LEMMA IInvResident == IInv => HistoryResidentUnlessDirty
<1>1. SUFFICES ASSUME IInv, ~dirty, pos <= GlobalCap, req.pc = "idle"
               PROVE  /\ Len(history) = pos
                      /\ \A l \in SlidingLayers : HoldsTail(ring[l], history, pos)
                      /\ \A l \in GlobalLayers : HoldsPrefix(lin[l], history, pos)
  BY DEF HistoryResidentUnlessDirty, HistoryResident
<1>2. call = NoCall /\ pos \in Nat /\ Len(fed) = pos
  BY <1>1 DEF IInv, ControlInv, TypeOK, CallOK, FedOK
<1>3. history = fed /\ StoresHold
  BY <1>1, <1>2 DEF IInv, DataInv, StoresFollow, HistoryFollows, NoCall
<1>4. \A l \in SlidingLayers : HoldsTail(ring[l], history, pos)
  BY <1>3 DEF StoresHold, LayerHolds, SlidingLayers
<1>5. ASSUME NEW l \in GlobalLayers
      PROVE  HoldsPrefix(lin[l], history, pos)
  <2>1. HoldsStored(lin[l], history, pos)
    BY <1>3 DEF StoresHold, LayerHolds, GlobalLayers
  <2>2. \A t \in 0 .. pos - 1 : t \in LinearSlots /\ t < pos
    BY <1>1, <1>2, CapAssumption DEF LinearSlots
  <2> QED BY <2>1, <2>2 DEF HoldsStored, HoldsPrefix, LinearRow
<1> QED BY <1>2, <1>3, <1>4, <1>5

(* Whatever the window, the capacity, the layer stack, the split counts,    *)
(* the requests and the GPU calls that fail: as long as a prefill chunk is  *)
(* no longer than the sliding window, every query attends its causal window *)
(* and nothing else.                                                        *)
THEOREM AttentionIsExact ==
  ASSUME ChunkCap <= Window
  PROVE  Spec => []AttendsExactWindow
<1>1. Spec => []IInv
  BY ResidencyInvariant
<1>2. IInv => AttendsExactWindow
  BY IInvAttends
<1> QED BY <1>1, <1>2, PTL

(* Session.history names what is resident: EOS, max_tokens, an abort by the *)
(* consumer, a divergent prompt, a reset and a failed decode submission     *)
(* leave the next request a store it can extend.                            *)
THEOREM ResidentBetweenRequests ==
  ASSUME ChunkCap <= Window
  PROVE  Spec => []HistoryResidentUnlessDirty
<1>1. Spec => []IInv
  BY ResidencyInvariant
<1>2. IInv => HistoryResidentUnlessDirty
  BY IInvResident
<1> QED BY <1>1, <1>2, PTL

-----------------------------------------------------------------------------
(* The invariants.                                                          *)

(* How the prompt and the reply go together with what is resident: a        *)
(* prefill extends a proper prefix of the prompt, a decode adds the token   *)
(* last handed out.                                                         *)
PromptInv ==
  /\ req.pc # "idle" => req.prompt # <<>>
  /\ req.pc = "prefill" =>
       /\ req.out = <<>>
       /\ Len(history) < Len(req.prompt)
       /\ \A i \in 1 .. Len(history) : history[i] = req.prompt[i]
  /\ req.pc = "sample" => history = req.prompt \o req.out
  /\ req.pc = "decode" => Append(history, req.out[Len(req.out)]) = req.prompt \o req.out

AllRows(ctx) == Rows(ctx, 0, Len(ctx) - 1)

(* A decode step and the last chunk of a prompt leave logits behind.        *)
LeavesLogits == call.op = "decode" \/ Len(call.todo) <= ChunkCap

(* The last query has attended rows of its own context only, and all of     *)
(* them once a global layer has run.                                        *)
SeenOK ==
  (call.pc = "layer" /\ WithinCapacity) =>
    /\ seen \subseteq AllRows(RunningContext)
    /\ \A l \in GlobalLayers : l < call.layer => seen = AllRows(RunningContext)
    /\ call.layer = NumLayers + 1 /\ LeavesLogits => logits = seen

(* The logits of a call that has returned are those of all that was fed.    *)
LogitsOK ==
  (call.pc \in {"read", "ok"} \/ req.pc = "sample") /\ pos <= GlobalCap =>
    logits = AllRows(fed)

SampleInv == ~dirty => SeenOK /\ LogitsOK

WholeInv == IInv /\ PromptInv /\ SampleInv

-----------------------------------------------------------------------------
(* Longest common prefixes.                                                 *)

(* zip + take_while + count finds where two sequences part.                 *)
LEMMA CommonPrefixFacts ==
  ASSUME NEW S, NEW a \in Seq(S), NEW b \in Seq(S)
  PROVE  /\ CommonPrefix(a, b) \in 0 .. SmallerOf(Len(a), Len(b))
         /\ \A i \in 1 .. CommonPrefix(a, b) : a[i] = b[i]
<1> DEFINE m == SmallerOf(Len(a), Len(b))
           Parted(n) == n < m => a[n + 1] # b[n + 1]
           T == {n \in 0 .. m : Parted(n)}
<1>1. m \in Nat
  BY DEF SmallerOf
<1> HIDE DEF m
<1>2. T \subseteq Nat /\ m \in T
  BY <1>1
<1>3. PICK x \in T : \A y \in T : x <= y
  BY <1>2, LeastNatural
<1>4. ASSUME NEW i \in 1 .. x
      PROVE  a[i] = b[i]
  <2>1. i - 1 \in 0 .. m /\ i - 1 < m /\ ~(x <= i - 1) /\ i - 1 + 1 = i
    BY <1>1, <1>3
  <2>2. i - 1 \notin T
    BY <1>3, <2>1
  <2> QED BY <2>1, <2>2
<1>5. \E n \in 0 .. m : /\ \A i \in 1 .. n : a[i] = b[i]
                        /\ Parted(n)
  BY <1>3, <1>4
<1> QED BY <1>5 DEF CommonPrefix, m

(* A request that does not start over extends the history.                  *)
LEMMA KeptHistory ==
  ASSUME NEW prompt \in Seq(Token), history \in Seq(Token), ~MustReset(prompt)
  PROVE  /\ Len(history) < Len(prompt)
         /\ \A i \in 1 .. Len(history) : history[i] = prompt[i]
<1>1. /\ CommonPrefix(history, prompt) \in 0 .. SmallerOf(Len(history), Len(prompt))
      /\ \A i \in 1 .. CommonPrefix(history, prompt) : history[i] = prompt[i]
  BY CommonPrefixFacts
<1>2. CommonPrefix(history, prompt) >= Len(history) /\ Len(history) < Len(prompt)
  BY <1>1 DEF MustReset, SmallerOf
<1>3. CommonPrefix(history, prompt) = Len(history)
  BY <1>1, <1>2 DEF SmallerOf
<1> QED BY <1>1, <1>2, <1>3

(* What is missing of a prompt, appended to its resident prefix, gives the  *)
(* prompt.                                                                  *)
LEMMA PrefixCompletes ==
  ASSUME NEW h \in Seq(Token), NEW p \in Seq(Token), Len(h) <= Len(p),
         \A i \in 1 .. Len(h) : h[i] = p[i]
  PROVE  h \o SubSeq(p, Len(h) + 1, Len(p)) = p
<1>1. Len(h) \in Nat /\ Len(p) \in Nat
  OBVIOUS
<1>2. SubSeq(p, 1, Len(h)) \in Seq(Token) /\ Len(SubSeq(p, 1, Len(h))) = Len(h)
      /\ \A i \in 1 .. Len(h) : SubSeq(p, 1, Len(h))[i] = p[i]
  BY <1>1
<1>3. h = SubSeq(p, 1, Len(h))
  BY <1>2, SeqEqual
<1>4. /\ 1 \in 1 .. Len(p) + 1 /\ Len(h) \in 1 - 1 .. Len(p)
      /\ Len(p) \in Len(h) .. Len(p)
  BY <1>1
<1>5. SubSeq(p, 1, Len(h)) \o SubSeq(p, Len(h) + 1, Len(p)) = SubSeq(p, 1, Len(p))
  BY <1>4, ConcatAdjacentSubSeq
<1>6. SubSeq(p, 1, Len(p)) = p
  BY SubSeqFull
<1> QED BY <1>3, <1>5, <1>6

-----------------------------------------------------------------------------
(* The prompt and the reply.                                                *)

(* Appending to a concatenation is appending to its second part.            *)
LEMMA AppendOfConcat ==
  ASSUME NEW p \in Seq(Token), NEW o \in Seq(Token), NEW tok \in Token
  PROVE  Append(p \o o, tok) = p \o Append(o, tok)
<1>1. /\ Append(p \o o, tok) = (p \o o) \o <<tok>>
      /\ Append(o, tok) = o \o <<tok>>
  BY ConcatProperties, AppendIsConcat
<1>2. <<tok>> \in Seq(Token)
  OBVIOUS
<1>3. (p \o o) \o <<tok>> = p \o (o \o <<tok>>)
  BY <1>2, ConcatAssociative
<1> QED BY <1>1, <1>3

(* A new request finds a proper prefix of its prompt resident, or nothing.  *)
LEMMA RequestPrompt ==
  ASSUME ControlInv, NEW r \in Requests, Request(r)
  PROVE  PromptInv'
<1>1. r.prompt \in Seq(Token) /\ history \in Seq(Token) /\ Len(r.prompt) > 0
  BY RequestsAssumption DEF ControlInv, TypeOK, Request
<1>2. req'.pc = "prefill" /\ req'.prompt = r.prompt /\ req'.out = <<>>
  BY DEF Request
<1>3. r.prompt # <<>>
  BY <1>1, EmptySeq
<1>4. /\ Len(history') < Len(r.prompt)
      /\ \A i \in 1 .. Len(history') : history'[i] = r.prompt[i]
  <2>1. CASE MustReset(r.prompt)
    <3>1. history' = <<>>
      BY <2>1 DEF Request, ClearResident
    <3> QED BY <1>1, <3>1, EmptySeq
  <2>2. CASE ~MustReset(r.prompt)
    <3>1. history' = history
      BY <2>2 DEF Request, KeepResident
    <3> QED BY <1>1, <2>2, <3>1, KeptHistory
  <2> QED BY <2>1, <2>2
<1> QED BY <1>2, <1>3, <1>4 DEF PromptInv

(* Prefill makes the whole prompt resident.                                 *)
LEMMA PrefillReturnsPrompt ==
  ASSUME ControlInv, PromptInv, PrefillReturns
  PROVE  PromptInv' /\ history' = req.prompt
<1>1. /\ req.pc = "prefill" /\ req \in RequestRecord /\ history \in Seq(Token)
      /\ history' = history \o SubSeq(req.prompt, Len(history) + 1, Len(req.prompt))
      /\ req' = [req EXCEPT !.pc = "sample"]
  BY DEF PrefillReturns, ControlInv, TypeOK
<1>2. req.prompt \in Seq(Token) /\ req.out = <<>> /\ req.prompt # <<>>
  BY <1>1 DEF PromptInv, RequestRecord
<1>3. req'.pc = "sample" /\ req'.prompt = req.prompt /\ req'.out = req.out
  BY <1>1 DEF RequestRecord
<1>4. /\ Len(history) <= Len(req.prompt)
      /\ \A i \in 1 .. Len(history) : history[i] = req.prompt[i]
  <2>1. Len(history) < Len(req.prompt)
    BY <1>1 DEF PromptInv
  <2>2. Len(history) <= Len(req.prompt)
    BY <1>1, <1>2, <2>1
  <2> QED BY <1>1, <2>2 DEF PromptInv
<1>5. history' = req.prompt
  BY <1>1, <1>2, <1>4, PrefixCompletes
<1>6. req.prompt \o req.out = req.prompt
  BY <1>2, ConcatEmptySeq
<1> QED BY <1>2, <1>3, <1>5, <1>6 DEF PromptInv

(* The token handed out is the last of the reply.                           *)
LEMMA SamplePrompt ==
  ASSUME ControlInv, PromptInv, NEW tok \in Token, NEW keepGoing \in BOOLEAN,
         Sample(tok, keepGoing)
  PROVE  PromptInv'
<1> DEFINE stop == StopReason(Append(req.out, tok), keepGoing, req.max)
<1>1. /\ req.pc = "sample" /\ req \in RequestRecord
      /\ req' = [req EXCEPT !.out = Append(req.out, tok), !.stop = stop,
                            !.pc = IF stop = "none" THEN "decode" ELSE "idle"]
      /\ UNCHANGED history
  BY DEF Sample, ControlInv, TypeOK
<1> HIDE DEF stop
<1>2. /\ req'.pc \in {"decode", "idle"} /\ req'.prompt = req.prompt
      /\ req'.out = Append(req.out, tok)
  BY <1>1 DEF RequestRecord
<1>3. req.prompt \in Seq(Token) /\ req.out \in Seq(Token)
      /\ req.prompt # <<>> /\ history = req.prompt \o req.out
  BY <1>1 DEF PromptInv, RequestRecord
<1>4. req'.out[Len(req'.out)] = tok
  BY <1>2, <1>3, AppendProperties
<1>5. Append(req.prompt \o req.out, tok) = req.prompt \o Append(req.out, tok)
  BY <1>3, AppendOfConcat
<1> QED BY <1>1, <1>2, <1>3, <1>4, <1>5 DEF PromptInv

(* decode_step makes the token resident.                                    *)
LEMMA DecodeReturnsPrompt ==
  ASSUME ControlInv, PromptInv, DecodeReturns
  PROVE  PromptInv' /\ history' = req.prompt \o req.out
<1>1. /\ req.pc = "decode" /\ req \in RequestRecord
      /\ history' = Append(history, req.out[Len(req.out)])
      /\ req' = [req EXCEPT !.pc = "sample"]
  BY DEF DecodeReturns, ControlInv, TypeOK
<1>2. req'.pc = "sample" /\ req'.prompt = req.prompt /\ req'.out = req.out
  BY <1>1 DEF RequestRecord
<1> QED BY <1>1, <1>2 DEF PromptInv

(* Every step keeps prompt, reply and history together, failed requests     *)
(* included.                                                                *)
LEMMA NextPrompt ==
  ASSUME ControlInv, PromptInv, [Next]_vars
  PROVE  PromptInv'
<1>1. ASSUME NEW r \in Requests, Request(r) PROVE PromptInv'
  BY <1>1, RequestPrompt
<1>2. CASE Reset
  <2>1. req.pc = "idle" /\ req' = req
    BY <1>2 DEF Reset
  <2> QED BY <2>1 DEF PromptInv
<1>3. CASE PrefillReturns
  BY <1>3, PrefillReturnsPrompt
<1>4. ASSUME NEW tok \in Token, NEW keepGoing \in BOOLEAN, Sample(tok, keepGoing)
      PROVE  PromptInv'
  BY <1>4, SamplePrompt
<1>5. CASE DecodeReturns
  BY <1>5, DecodeReturnsPrompt
<1>6. CASE RequestFails
  <2>1. req'.pc = "idle"
    BY <1>6 DEF RequestFails, ControlInv, TypeOK, RequestRecord
  <2> QED BY <2>1 DEF PromptInv
<1>7. CASE UNCHANGED sessionVars
  BY <1>7 DEF sessionVars, PromptInv
<1> QED
  BY <1>1, <1>2, <1>3, <1>4, <1>5, <1>6, <1>7 DEF Next, SessionStep, vars

(* Nothing has been asked of a new session.                                 *)
LEMMA InitPrompt == Init => PromptInv
BY DEF Init, NoRequest, PromptInv

-----------------------------------------------------------------------------
(* The rows the last query has attended.                                    *)

(* The context of a running call, and how long it is.                       *)
LEMMA RunningFacts ==
  ASSUME ControlInv, call.pc = "layer"
  PROVE  /\ call.op \in {"prefill", "decode"} /\ pos \in Nat
         /\ At("prefill", "layer") =>
              /\ RunningContext = fed \o Chunk
              /\ Len(RunningContext) = pos + ChunkLen /\ ChunkLen \in Nat \ {0}
         /\ At("decode", "layer") =>
              /\ RunningContext = fed \o call.todo
              /\ RunningContext = Append(fed, call.todo[1])
              /\ Len(RunningContext) = pos + 1
<1>1. call.op \in {"prefill", "decode"} /\ pos \in Nat
  BY DEF ControlInv, TypeOK, CallOK, CallRecord
<1>2. At("prefill", "layer") =>
        /\ RunningContext = fed \o Chunk
        /\ Len(RunningContext) = pos + ChunkLen /\ ChunkLen \in Nat \ {0}
  BY ChunkContext DEF RunningContext, At
<1>3. At("decode", "layer") =>
        /\ RunningContext = fed \o call.todo
        /\ RunningContext = Append(fed, call.todo[1])
        /\ Len(RunningContext) = pos + 1
  BY DecodeContext DEF RunningContext, At
<1> QED BY <1>1, <1>2, <1>3

(* A window of a context is part of it, and the window from 0 on is all.    *)
LEMMA WindowOfRows ==
  ASSUME NEW ctx, NEW n \in Nat, Len(ctx) = n + 1,
         NEW begin \in Nat
  PROVE  /\ Rows(ctx, begin, n) \subseteq AllRows(ctx)
         /\ Rows(ctx, 0, n) = AllRows(ctx)
<1>1. begin .. n \subseteq 0 .. n /\ Len(ctx) - 1 = n
  OBVIOUS
<1> QED BY <1>1 DEF Rows, AllRows

(* What a layer adds to the rows attended: rows of the running context      *)
(* only, and a global layer all of them.                                    *)
LEMMA LayerAttends ==
  ASSUME IInv, ~dirty, WithinCapacity, NEW l \in Layers, l = call.layer, NEW reads,
         \/ At("prefill", "layer") /\ reads = PrefillReads(l, LogitsRow)
         \/ At("decode", "layer") /\ reads = DecodeReads(l)
  PROVE  /\ RowsRead(reads) \subseteq AllRows(RunningContext)
         /\ l \in GlobalLayers => RowsRead(reads) = AllRows(RunningContext)
<1> DEFINE Begin(q) == IF Kind[l] = "sliding" THEN FirstInWindow(q) ELSE 0
<1>1. ASSUME NEW q \in Nat
      PROVE  Begin(q) \in Nat /\ (l \in GlobalLayers => Begin(q) = 0)
  <2>1. FirstInWindow(q) \in Nat
    BY WindowAssumption DEF FirstInWindow, LargerOf
  <2>2. l \in GlobalLayers => Kind[l] # "sliding"
    BY DEF GlobalLayers
  <2> QED BY <2>1, <2>2
<1>2. PICK q \in Nat : /\ Len(RunningContext) = q + 1
                       /\ RowsRead(reads) = Rows(RunningContext, Begin(q), q)
  <2>1. CASE At("prefill", "layer") /\ reads = PrefillReads(l, LogitsRow)
    <3>1. /\ RunningContext = fed \o Chunk /\ pos \in Nat
          /\ Len(RunningContext) = pos + ChunkLen /\ ChunkLen \in Nat \ {0}
      BY <2>1, RunningFacts DEF IInv, At
    <3>2. LogitsRow = ChunkLen - 1
      BY <2>1, ChunkGraph DEF IInv, ControlInv, CallOK, At, LogitsRow
    <3>3. pos + ChunkLen <= GlobalCap /\ LogitsRow \in 0 .. ChunkLen - 1
      BY <3>1, <3>2 DEF WithinCapacity
    <3>4. Exactly(PrefillReads(l, LogitsRow),
                  Rows(fed \o Chunk,
                       IF Kind[l] = "sliding" THEN FirstInWindow(pos + LogitsRow) ELSE 0,
                       pos + LogitsRow))
      BY <2>1, <3>3, PrefillAttends
    <3>5. RowsRead(reads) = Rows(RunningContext, Begin(pos + LogitsRow), pos + LogitsRow)
      BY <2>1, <3>1, <3>4 DEF Exactly
    <3>6. pos + LogitsRow \in Nat /\ Len(RunningContext) = pos + LogitsRow + 1
      BY <3>1, <3>2
    <3> QED BY <3>5, <3>6
  <2>2. CASE At("decode", "layer") /\ reads = DecodeReads(l)
    <3>1. /\ RunningContext = fed \o call.todo /\ pos \in Nat
          /\ Len(RunningContext) = pos + 1
      BY <2>2, RunningFacts DEF IInv, At
    <3>2. pos + 1 <= GlobalCap
      BY <3>1 DEF WithinCapacity
    <3>3. Exactly(DecodeReads(l),
                  Rows(fed \o call.todo,
                       IF Kind[l] = "sliding" THEN FirstInWindow(pos) ELSE 0, pos))
      BY <2>2, <3>2, DecodeAttends
    <3>4. RowsRead(reads) = Rows(RunningContext, Begin(pos), pos)
      BY <2>2, <3>1, <3>3 DEF Exactly
    <3> QED BY <3>1, <3>4
  <2> QED BY <2>1, <2>2
<1>3. Begin(q) \in Nat /\ (l \in GlobalLayers => Begin(q) = 0)
  BY <1>1
<1> HIDE DEF Begin
<1> QED BY <1>2, <1>3, WindowOfRows

(* A layer keeps the rows attended within the context.                      *)
LEMMA LayerSample ==
  ASSUME IInv, SampleInv, NEW l \in Layers, PrefillLayer(l) \/ DecodeLayer(l),
         UNCHANGED sessionVars
  PROVE  SampleInv'
<1>1. PICK reads :
        /\ \/ At("prefill", "layer") /\ reads = PrefillReads(l, LogitsRow)
           \/ At("decode", "layer") /\ reads = DecodeReads(l)
        /\ seen' = seen \cup RowsRead(reads)
  BY DEF PrefillLayer, DecodeLayer
<1>2. /\ call.pc = "layer" /\ l = call.layer
      /\ call' = [call EXCEPT !.layer = @ + 1]
      /\ UNCHANGED <<pos, fed, req, dirty>>
  BY DEF PrefillLayer, DecodeLayer, NextLayer, At, sessionVars
<1>3. call \in CallRecord /\ NumLayers \in Nat \ {0} /\ l \in 1 .. NumLayers
  BY LayersAssumption DEF IInv, ControlInv, TypeOK, Layers
<1>4. /\ call'.op = call.op /\ call'.pc = "layer" /\ call'.todo = call.todo
      /\ call'.layer = l + 1
  BY <1>2, <1>3 DEF CallRecord
<1>5. RunningContext' = RunningContext /\ LeavesLogits' = LeavesLogits
  BY <1>2, <1>4 DEF RunningContext, Chunk, ChunkLen, LeavesLogits
<1>6. SUFFICES ASSUME ~dirty
               PROVE  SeenOK' /\ LogitsOK'
  BY <1>2 DEF SampleInv
<1>7. LogitsOK'
  <2>1. req'.pc # "sample"
    BY <1>2 DEF IInv, ControlInv, CallOK, NoCall
  <2> QED BY <1>4, <2>1 DEF LogitsOK
<1>8. SUFFICES ASSUME WithinCapacity
               PROVE  /\ seen' \subseteq AllRows(RunningContext)
                      /\ \A m \in GlobalLayers : m < l + 1 => seen' = AllRows(RunningContext)
                      /\ l + 1 = NumLayers + 1 /\ LeavesLogits => logits' = seen'
  <2>1. WithinCapacity' = WithinCapacity /\ AllRows(RunningContext)' = AllRows(RunningContext)
    BY <1>5 DEF WithinCapacity, AllRows, Rows, RowAt
  <2> QED BY <1>4, <1>5, <1>7, <2>1 DEF SeenOK
<1>9. /\ seen \subseteq AllRows(RunningContext)
      /\ \A m \in GlobalLayers : m < l => seen = AllRows(RunningContext)
  BY <1>2, <1>6, <1>8 DEF SampleInv, SeenOK
<1>10. /\ RowsRead(reads) \subseteq AllRows(RunningContext)
       /\ l \in GlobalLayers => RowsRead(reads) = AllRows(RunningContext)
  BY <1>1, <1>2, <1>6, <1>8, LayerAttends
<1>11. ASSUME NEW m \in GlobalLayers, m < l + 1
       PROVE  seen' = AllRows(RunningContext)
  <2>1. m < l \/ m = l
    BY <1>3, <1>11 DEF GlobalLayers, Layers
  <2> QED BY <1>1, <1>9, <1>10, <2>1
<1>12. ASSUME l = NumLayers, LeavesLogits
       PROVE  logits' = seen'
  <2>1. CASE PrefillLayer(l)
    <3>1. ChunkKey \in DOMAIN graphs /\ Len(call.todo) <= ChunkCap
      BY <1>12, <2>1 DEF PrefillLayer, At, IInv, ControlInv, CallOK, LeavesLogits
    <3>2. RunningShape.mode = "last"
      BY <3>1 DEF IInv, ControlInv, TypeOK, RunningShape, ChunkKey, ChunkShape
    <3> QED BY <1>12, <2>1, <3>2 DEF PrefillLayer
  <2>2. CASE DecodeLayer(l)
    BY <1>12, <2>2 DEF DecodeLayer
  <2> QED BY <2>1, <2>2
<1>13. l + 1 = NumLayers + 1 => l = NumLayers
  BY <1>3
<1> QED BY <1>1, <1>9, <1>10, <1>11, <1>12, <1>13

(* Once the layers have run, what was attended is the whole context.        *)
LEMMA AdvanceSample ==
  ASSUME GlobalLayers # {}, IInv, SampleInv, AdvanceChunk \/ Advance, UNCHANGED sessionVars
  PROVE  SampleInv'
<1>1. /\ call.pc = "layer" /\ call.layer = NumLayers + 1
      /\ UNCHANGED <<seen, logits, req, dirty>>
  BY DEF AdvanceChunk, Advance, At, sessionVars
<1>2. /\ call'.pc \in {"record", "read"} /\ req'.pc # "sample"
      /\ call'.pc = "read" => LeavesLogits
      /\ fed' = RunningContext /\ pos' = Len(RunningContext)
  <2>1. req.pc # "sample"
    BY <1>1 DEF IInv, ControlInv, CallOK, NoCall
  <2>2. CASE AdvanceChunk
    <3>1. call.op = "prefill" /\ call \in CallRecord /\ call.todo # <<>>
      BY <1>1, <2>2 DEF AdvanceChunk, At, IInv, ControlInv, TypeOK, CallOK
    <3>2. call'.pc = IF MoreChunks THEN "record" ELSE "read"
      BY <2>2, <3>1 DEF AdvanceChunk, CallRecord
    <3>3. ~MoreChunks => Len(call.todo) <= ChunkCap
      <4>1. call.todo \in Seq(Token)
        BY <3>1 DEF CallRecord
      <4>2. ChunkLen \in Nat /\ ChunkLen <= ChunkCap /\ ChunkCap \in Nat
        BY <3>1, <4>1, ChunkFacts, ChunkCapPositive
      <4> QED BY <4>1, <4>2 DEF MoreChunks
    <3>4. fed' = RunningContext /\ pos' = Len(RunningContext)
      BY <1>1, <2>2, RunningFacts DEF AdvanceChunk, IInv
    <3> QED BY <1>1, <2>1, <3>2, <3>3, <3>4 DEF LeavesLogits
  <2>3. CASE Advance
    <3>1. call.op = "decode" /\ call'.pc = "read"
      BY <2>3 DEF Advance, Goto, At, IInv, ControlInv, TypeOK, CallRecord
    <3>2. fed' = RunningContext /\ pos' = Len(RunningContext)
      BY <1>1, <2>3, RunningFacts DEF Advance, IInv
    <3> QED BY <1>1, <2>1, <3>1, <3>2 DEF LeavesLogits
  <2> QED BY <2>2, <2>3
<1>3. SUFFICES ASSUME ~dirty, call'.pc = "read", pos' <= GlobalCap
               PROVE  logits' = AllRows(fed')
  BY <1>1, <1>2 DEF SampleInv, SeenOK, LogitsOK, AllRows, Rows, RowAt
<1>4. WithinCapacity
  BY <1>2, <1>3 DEF WithinCapacity
<1>5. PICK l \in GlobalLayers : TRUE
  OBVIOUS
<1>6. l < call.layer
  BY <1>1, LayersAssumption DEF GlobalLayers, Layers
<1>7. logits = seen /\ seen = AllRows(RunningContext)
  BY <1>1, <1>2, <1>3, <1>4, <1>6 DEF SampleInv, SeenOK
<1> QED BY <1>1, <1>2, <1>7

(* Steps outside the layers: nothing is attended when they end, and the     *)
(* logits that a call returned are left alone.                              *)
LEMMA OutsideSample ==
  ASSUME IInv, SampleInv, dirty' = dirty,
         call'.pc # "layer",
         call'.pc \in {"read", "ok"} \/ req'.pc = "sample" =>
           /\ call.pc \in {"read", "ok"} \/ req.pc = "sample"
           /\ UNCHANGED <<pos, fed, logits>>
  PROVE  SampleInv'
BY DEF SampleInv, SeenOK, LogitsOK, AllRows, Rows, RowAt

(* Every step of the driver keeps the rows attended right.                  *)
LEMMA ModelSample ==
  ASSUME GlobalLayers # {}, IInv, SampleInv, ModelStep \/ ModelFault,
         UNCHANGED sessionVars
  PROVE  SampleInv'
<1>1. call \in CallRecord /\ UNCHANGED <<req, dirty>>
  BY DEF IInv, ControlInv, TypeOK, sessionVars
<1>2. call.pc # "idle" => req.pc # "sample"
  BY DEF IInv, ControlInv, CallOK, NoCall
<1>3. ASSUME NEW l \in Layers, PrefillLayer(l) \/ DecodeLayer(l)
      PROVE  SampleInv'
  BY <1>3, LayerSample
<1>4. CASE AdvanceChunk \/ Advance
  BY <1>4, AdvanceSample
<1>5. CASE StageChunk \/ StageToken
  <2>1. /\ call'.pc = "layer" /\ call'.layer = 1 /\ seen' = {} /\ req'.pc # "sample"
    BY <1>1, <1>2, <1>5 DEF StageChunk, StageToken, StartLayers, At, CallRecord
  <2>2. \A l \in GlobalLayers : ~(l < 1)
    BY LayersAssumption DEF GlobalLayers, Layers
  <2>3. 1 # NumLayers + 1
    BY LayersAssumption
  <2> QED BY <2>1, <2>2, <2>3 DEF SampleInv, SeenOK, LogitsOK
<1>6. CASE RecordChunk
  <2>1. call'.pc = "stage" /\ req'.pc # "sample"
    BY <1>1, <1>2, <1>6 DEF RecordChunk, Goto, At, CallRecord
  <2> QED BY <1>1, <2>1, OutsideSample
<1>7. CASE ReadLogits
  <2>1. /\ call.pc = "read" /\ call'.pc = "ok" /\ UNCHANGED <<pos, fed, logits>>
    BY <1>1, <1>7 DEF ReadLogits, Goto, CallRecord
  <2> QED BY <1>1, <2>1, OutsideSample
<1>8. CASE ModelFault
  <2>1. call.pc # "idle" /\ call'.pc = "err"
    BY <1>1, <1>8 DEF ModelFault, GpuFault, FaultPossible, Goto, CallRecord
  <2>2. req'.pc # "sample"
    BY <1>1, <1>2, <2>1
  <2> QED BY <1>1, <2>1, <2>2, OutsideSample
<1> QED BY <1>3, <1>4, <1>5, <1>6, <1>7, <1>8 DEF ModelStep

(* Every step of the session keeps the logits to sample from.               *)
LEMMA SessionSample ==
  ASSUME IInv, SampleInv,
         \/ \E r \in Requests : Request(r)
         \/ Reset
         \/ SessionStep
  PROVE  SampleInv'
<1>1. req \in RequestRecord
  BY DEF IInv, ControlInv, TypeOK
<1>2. ASSUME NEW r \in Requests, Request(r)
      PROVE  SampleInv'
  <2>1. call'.pc = "record" /\ req'.pc = "prefill"
    BY <1>2 DEF Request, PrefillCall
  <2> QED BY <2>1 DEF SampleInv, SeenOK, LogitsOK
<1>3. CASE Reset
  <2>1. call = NoCall /\ call' = call /\ req' = req /\ req.pc = "idle"
    BY <1>3 DEF Reset, IInv, ControlInv, CallOK
  <2> QED BY <2>1 DEF SampleInv, SeenOK, LogitsOK, NoCall
<1>4. CASE PrefillReturns \/ DecodeReturns
  <2>1. /\ call.pc = "ok" /\ call'.pc = "idle" /\ UNCHANGED <<pos, fed, logits, dirty>>
    BY <1>4 DEF PrefillReturns, DecodeReturns, NoCall
  <2> QED BY <2>1, OutsideSample
<1>5. ASSUME NEW tok \in Token, NEW keepGoing \in BOOLEAN, Sample(tok, keepGoing)
      PROVE  SampleInv'
  <2>1. call'.pc \in {"stage", "idle"} /\ dirty' = dirty
    BY <1>5 DEF Sample, DecodeCall, NoCall
  <2>2. req'.pc # "sample"
    <3> DEFINE stop == StopReason(Append(req.out, tok), keepGoing, req.max)
    <3>1. req' = [req EXCEPT !.out = Append(req.out, tok), !.stop = stop,
                             !.pc = IF stop = "none" THEN "decode" ELSE "idle"]
      BY <1>5 DEF Sample
    <3> HIDE DEF stop
    <3> QED BY <1>1, <3>1 DEF RequestRecord
  <2> QED BY <2>1, <2>2, OutsideSample
<1>6. CASE RequestFails
  <2>1. call'.pc = "idle" /\ req'.pc = "idle" /\ (~dirty' => ~dirty)
    BY <1>1, <1>6 DEF RequestFails, NoCall, RequestRecord
  <2> QED BY <2>1 DEF SampleInv, SeenOK, LogitsOK
<1> QED BY <1>2, <1>3, <1>4, <1>5, <1>6 DEF SessionStep

(* No logits yet, and none asked for.                                       *)
LEMMA InitSample == Init => SampleInv
BY DEF Init, ModelInit, NoCall, NoRequest, SampleInv, SeenOK, LogitsOK

(* The three invariants are inductive together.                             *)
LEMMA NextWhole ==
  ASSUME ChunkCap <= Window, GlobalLayers # {}, WholeInv, [Next]_vars
  PROVE  WholeInv'
<1>1. IInv'
  BY NextIInv DEF WholeInv
<1>2. PromptInv'
  BY NextPrompt DEF WholeInv, IInv
<1>3. SampleInv'
  <2>1. CASE \/ \E r \in Requests : Request(r)
             \/ Reset
             \/ SessionStep
    BY <2>1, SessionSample DEF WholeInv
  <2>2. CASE (ModelStep \/ ModelFault) /\ UNCHANGED sessionVars
    BY <2>2, ModelSample DEF WholeInv
  <2>3. CASE UNCHANGED vars
    <3>1. UNCHANGED <<pos, seen, logits, fed, call, req, dirty>>
      BY <2>3 DEF vars, modelVars, sessionVars
    <3>2. RunningContext' = RunningContext /\ LeavesLogits' = LeavesLogits
      BY <3>1 DEF RunningContext, Chunk, ChunkLen, LeavesLogits
    <3>3. SeenOK' <=> SeenOK
      BY <3>1, <3>2 DEF SeenOK, WithinCapacity, AllRows, Rows, RowAt
    <3>4. LogitsOK' <=> LogitsOK
      BY <3>1 DEF LogitsOK, AllRows, Rows, RowAt
    <3> QED BY <3>1, <3>3, <3>4 DEF WholeInv, SampleInv
  <2> QED BY <2>1, <2>2, <2>3 DEF Next
<1> QED BY <1>1, <1>2, <1>3 DEF WholeInv

(* Prompt, reply, history, stores, rows attended and logits belong to one   *)
(* conversation at every point of a request, unless a request that failed   *)
(* mid-way has been left behind.                                            *)
THEOREM WholeInvariant ==
  ASSUME ChunkCap <= Window, GlobalLayers # {}
  PROVE  Spec => []WholeInv
<1>1. Init => WholeInv
  BY InitIInv, InitPrompt, InitSample DEF WholeInv
<1>2. WholeInv /\ [Next]_vars => WholeInv'
  BY NextWhole
<1> QED BY <1>1, <1>2, PTL DEF Spec

(* The logits the sampler reads were computed from prompt and reply.        *)
LEMMA SampledRows ==
  ASSUME WholeInv, req.pc = "sample", ~dirty, pos <= GlobalCap
  PROVE  logits = AllRows(req.prompt \o req.out)
<1>1. history = fed /\ history = req.prompt \o req.out
  BY DEF WholeInv, IInv, DataInv, HistoryFollows, PromptInv
<1>2. logits = AllRows(fed)
  BY DEF WholeInv, SampleInv, LogitsOK
<1> QED BY <1>1, <1>2

(* Every token is sampled from logits over the whole prompt and the whole   *)
(* reply so far: not those of an interior chunk, of an earlier step or of   *)
(* an earlier request, whatever the stack of layers as long as one of them  *)
(* is global.                                                               *)
THEOREM SampledFromWhole ==
  ASSUME ChunkCap <= Window, GlobalLayers # {}
  PROVE  Spec => []SampledFromWholeContext
<1>1. Spec => []WholeInv
  BY WholeInvariant
<1>2. WholeInv => SampledFromWholeContext
  BY SampledRows DEF SampledFromWholeContext, AllRows
<1> QED BY <1>1, <1>2, PTL

-----------------------------------------------------------------------------
(* The session implements the stateless API.                                *)

(* The rows of a context are what the stateless API evaluates.              *)
LEMMA WholeIsAllRows ==
  ASSUME NEW ctx \in Seq(Token)
  PROVE  /\ Stateless!Whole(ctx) = AllRows(ctx)
         /\ ctx # <<>> => AllRows(ctx) # {}
<1>1. Len(ctx) \in Nat
  OBVIOUS
<1>2. ASSUME NEW t \in 0 .. Len(ctx) - 1
      PROVE  /\ t + 1 \in 1 .. Len(ctx)
             /\ RowAt(ctx, t) = [pos |-> (t + 1) - 1, tok |-> ctx[t + 1]]
  BY <1>1 DEF RowAt
<1>3. ASSUME NEW i \in 1 .. Len(ctx)
      PROVE  /\ i - 1 \in 0 .. Len(ctx) - 1
             /\ [pos |-> i - 1, tok |-> ctx[i]] = RowAt(ctx, i - 1)
  BY <1>1 DEF RowAt
<1>4. Stateless!Whole(ctx) = {RowAt(ctx, t) : t \in 0 .. Len(ctx) - 1}
  BY <1>2, <1>3 DEF Stateless!Whole
<1>5. ctx # <<>> => 0 \in 0 .. Len(ctx) - 1
  BY <1>1, EmptySeq
<1> QED BY <1>4, <1>5 DEF AllRows, Rows

(* A call of request is served.                                             *)
LEMMA RequestServes ==
  ASSUME NEW r \in Requests, Request(r)
  PROVE  Stateless!Next
<1>1. /\ req.pc = "idle"
      /\ req' = [pc |-> "prefill", prompt |-> r.prompt, out |-> <<>>,
                 max |-> r.max, stop |-> "none"]
  BY DEF Request
<1>2. /\ req'.pc = "prefill" /\ req'.prompt = r.prompt /\ req'.max = r.max
      /\ req'.out = <<>>
  BY <1>1
<1>3. Stateless!Serve(r)
  BY <1>1, <1>2 DEF Stateless!Serve
<1> QED BY <1>3 DEF Stateless!Next

(* A call of the model that returns is the evaluation of the whole context. *)
LEMMA ReturnEvaluates ==
  ASSUME WholeInv, WholeInv', ~dirty, pos <= GlobalCap,
         PrefillReturns \/ DecodeReturns
  PROVE  Stateless!Next
<1>1. /\ req.pc \in {"prefill", "decode"} /\ req \in RequestRecord
      /\ req' = [req EXCEPT !.pc = "sample"]
      /\ UNCHANGED <<pos, logits, dirty>>
  BY DEF PrefillReturns, DecodeReturns, WholeInv, IInv, ControlInv, TypeOK
<1>2. /\ req'.pc = "sample" /\ req'.prompt = req.prompt /\ req'.max = req.max
      /\ req'.out = req.out
  BY <1>1 DEF RequestRecord
<1>3. logits' = AllRows(req'.prompt \o req'.out)
  <2>1. WholeInv' /\ req'.pc = "sample" /\ ~dirty' /\ pos' <= GlobalCap
    BY <1>1, <1>2
  <2>2. history' = fed' /\ history' = req'.prompt \o req'.out
    BY <2>1 DEF WholeInv, IInv, DataInv, HistoryFollows, PromptInv
  <2>3. logits' = AllRows(fed')
    BY <2>1 DEF WholeInv, SampleInv, LogitsOK, AllRows, Rows, RowAt
  <2> QED BY <2>2, <2>3
<1>4. req.prompt \o req.out \in Seq(Token)
  BY <1>1, ConcatProperties DEF RequestRecord
<1>5. Stateless!Evaluate
  BY <1>1, <1>2, <1>3, <1>4, WholeIsAllRows DEF Stateless!Evaluate
<1> QED BY <1>5 DEF Stateless!Next

(* A sampled token is emitted, and the reply ends where the API may end it. *)
LEMMA SampleEmits ==
  ASSUME WholeInv, ~dirty, pos <= GlobalCap,
         NEW tok \in Token, NEW keepGoing \in BOOLEAN, Sample(tok, keepGoing)
  PROVE  Stateless!Next
<1> DEFINE out  == Append(req.out, tok)
           stop == StopReason(out, keepGoing, req.max)
<1>1. /\ req.pc = "sample" /\ req \in RequestRecord
      /\ req' = [req EXCEPT !.out = out, !.stop = stop,
                            !.pc = IF stop = "none" THEN "decode" ELSE "idle"]
  BY DEF Sample, WholeInv, IInv, ControlInv, TypeOK
<1>2. req.prompt \in Seq(Token) /\ req.out \in Seq(Token) /\ req.max \in Nat
  BY <1>1 DEF RequestRecord
<1>3. out \in Seq(Token) /\ Len(out) \in Nat
  BY <1>2
<1>4. stop = "none" => Stateless!MayContinue(out)
  <2> HIDE DEF out
  <2>1. stop = "none" => keepGoing /\ out[Len(out)] \notin EosTokens /\ ~(Len(out) >= req.max)
    BY DEF StopReason
  <2> QED BY <1>2, <1>3, <2>1 DEF Stateless!MayContinue
<1> HIDE DEF stop, out
<1>5. /\ req'.pc = IF stop = "none" THEN "decode" ELSE "idle"
      /\ req'.out = out /\ req'.prompt = req.prompt /\ req'.max = req.max
  BY <1>1 DEF RequestRecord
<1>6. logits # {}
  <2>1. req.prompt \o req.out \in Seq(Token) /\ req.prompt \o req.out # <<>>
    <3>1. req.prompt # <<>>
      BY <1>1 DEF WholeInv, PromptInv
    <3>2. /\ Len(req.prompt \o req.out) = Len(req.prompt) + Len(req.out)
          /\ req.prompt \o req.out \in Seq(Token)
      BY <1>2, ConcatProperties
    <3>3. Len(req.prompt) > 0
      BY <1>2, <3>1, EmptySeq
    <3> QED BY <1>2, <3>2, <3>3, EmptySeq
  <2> QED BY <1>1, <2>1, SampledRows, WholeIsAllRows
<1>7. Stateless!Emit(tok)
  <2>1. (req'.pc # "idle") \in (IF Stateless!MayContinue(out) THEN BOOLEAN ELSE {FALSE})
    BY <1>4, <1>5
  <2> QED BY <1>1, <1>5, <1>6, <2>1 DEF Stateless!Emit, out, Stateless!MayContinue
<1> QED BY <1>7 DEF Stateless!Next

(* A failed request ends without a token.                                   *)
LEMMA FailureFails ==
  ASSUME WholeInv, RequestFails
  PROVE  Stateless!Next
<1>1. /\ req.pc \in {"prefill", "decode"} /\ req \in RequestRecord
      /\ req' = [req EXCEPT !.pc = "idle", !.stop = "error"]
  BY DEF RequestFails, WholeInv, IInv, ControlInv, TypeOK
<1>2. /\ req'.pc = "idle" /\ req'.prompt = req.prompt /\ req'.max = req.max
      /\ req'.out = req.out
  BY <1>1 DEF RequestRecord
<1> QED BY <1>1, <1>2 DEF Stateless!Fail, Stateless!Next

(* Every step of session, driver and GPU is a step of the stateless API or  *)
(* one that its caller cannot see.                                          *)
LEMMA StepImplements ==
  ASSUME WholeInv, WholeInv', [Next]_vars, ~dirty,
         "sample" \in {req.pc, req'.pc} => pos <= GlobalCap
  PROVE  Stateless!Next \/ UNCHANGED Stateless!vars
<1>1. CASE \E r \in Requests : Request(r)
  BY <1>1, RequestServes
<1>2. CASE SessionStep
  <2>1. CASE PrefillReturns \/ DecodeReturns
    <3>1. req'.pc = "sample"
      BY <2>1 DEF PrefillReturns, DecodeReturns, WholeInv, IInv, ControlInv, TypeOK,
                  RequestRecord
    <3> QED BY <2>1, <3>1, ReturnEvaluates
  <2>2. ASSUME NEW tok \in Token, NEW keepGoing \in BOOLEAN, Sample(tok, keepGoing)
        PROVE  Stateless!Next
    <3>1. req.pc = "sample"
      BY <2>2 DEF Sample
    <3> QED BY <2>2, <3>1, SampleEmits
  <2> QED BY <1>2, <2>1, <2>2, FailureFails DEF SessionStep
<1>3. CASE Reset
  <2>1. req' = req /\ req.pc = "idle"
    BY <1>3 DEF Reset
  <2> QED BY <2>1 DEF Stateless!vars
<1>4. CASE (ModelStep \/ ModelFault) /\ UNCHANGED sessionVars
  <2>1. call.pc # "idle" /\ req' = req
    <3>1. NumLayers \in Nat \ {0}
      BY LayersAssumption
    <3> QED BY <1>4 DEF ModelStep, ModelFault, RecordChunk, StageChunk, PrefillLayer,
                        AdvanceChunk, StageToken, DecodeLayer, Advance, ReadLogits,
                        GpuFault, FaultPossible, At, sessionVars
  <2>2. req.pc # "sample"
    BY <2>1 DEF WholeInv, IInv, ControlInv, CallOK, NoCall
  <2> QED BY <2>1, <2>2 DEF Stateless!vars
<1>5. CASE UNCHANGED vars
  BY <1>5 DEF vars, modelVars, sessionVars, Stateless!vars
<1> QED BY <1>1, <1>2, <1>3, <1>4, <1>5 DEF Next

(* The new session is one that serves nobody.                               *)
LEMMA InitImplements == Init => Stateless!Init
BY DEF Init, NoRequest, Stateless!Init

(* Reusing resident KV is invisible: with any layers, window, chunks and    *)
(* requests, and whichever GPU calls fail, each step taken while no request *)
(* that failed mid-way is resident and the stores are not outrun is a step  *)
(* of the stateless API, or changes nothing that its caller sees.           *)
THEOREM ReuseIsInvisible ==
  ASSUME ChunkCap <= Window, GlobalLayers # {}
  PROVE  Spec => /\ Stateless!Init
                 /\ [][~dirty /\ pos <= GlobalCap => Stateless!Next]_(Stateless!vars)
<1>1. Spec => []WholeInv
  BY WholeInvariant
<1>2. Init => Stateless!Init
  BY InitImplements
<1>3. WholeInv /\ WholeInv' /\ [Next]_vars =>
        [~dirty /\ pos <= GlobalCap => Stateless!Next]_(Stateless!vars)
  BY StepImplements
<1> QED BY <1>1, <1>2, <1>3, PTL DEF Spec

(* What every state satisfies when no call fails and every conversation     *)
(* fits the global stores.                                                  *)
FitsInv ==
  /\ ~dirty /\ call.pc # "err"
  /\ req.pc # "idle" =>
       /\ Len(req.prompt) <= GlobalCap
       /\ Len(req.prompt) + req.max <= GlobalCap + 1
  /\ req.pc = "sample" => req.out = <<>> \/ Len(req.out) < req.max
  /\ req.pc = "decode" => Len(req.out) < req.max

(* A new request fits, by prefill's assertion.                              *)
LEMMA RequestFits ==
  ASSUME \A r \in Requests : Len(r.prompt) + r.max <= GlobalCap + 1,
         IInv, FitsInv, NEW r \in Requests, Request(r)
  PROVE  FitsInv'
<1> DEFINE suffix == SubSeq(r.prompt, Len(history') + 1, Len(r.prompt))
<1>1. /\ req.pc = "idle"
      /\ IF MustReset(r.prompt) THEN ClearResident ELSE KeepResident
      /\ pos' + Len(suffix) <= GlobalCap
      /\ call' = PrefillCall(suffix)
      /\ req' = [pc |-> "prefill", prompt |-> r.prompt, out |-> <<>>,
                 max |-> r.max, stop |-> "none"]
  BY DEF Request
<1>2. r.prompt \in Seq(Token) /\ r.max \in Nat /\ history \in Seq(Token)
  BY RequestsAssumption DEF IInv, ControlInv, TypeOK
<1>3. /\ ~dirty' /\ history' \in Seq(Token) /\ Len(history') <= Len(r.prompt)
      /\ pos' = Len(history')
  <2>1. CASE MustReset(r.prompt)
    <3>1. pos' = 0 /\ history' = <<>> /\ dirty' = FALSE
      BY <1>1, <2>1 DEF ClearResident
    <3> QED BY <1>2, <3>1, EmptySeq
  <2>2. CASE ~MustReset(r.prompt)
    <3>1. UNCHANGED <<pos, fed, history, dirty>>
      BY <1>1, <2>2 DEF KeepResident
    <3>2. history = fed /\ Len(fed) = pos
      BY <1>1 DEF FitsInv, IInv, DataInv, HistoryFollows, ControlInv, FedOK
    <3>3. Len(history) < Len(r.prompt)
      BY <1>2, <2>2, KeptHistory
    <3> QED BY <1>2, <3>1, <3>2, <3>3 DEF FitsInv
  <2> QED BY <2>1, <2>2
<1>4. Len(suffix) = Len(r.prompt) - Len(history')
  BY <1>2, <1>3
<1> HIDE DEF suffix
<1>5. Len(r.prompt) <= GlobalCap
  BY <1>1, <1>2, <1>3, <1>4, CapAssumption
<1> QED BY <1>1, <1>3, <1>5 DEF FitsInv, PrefillCall

(* Where nothing fails and everything fits, it stays so.                    *)
LEMMA NextFits ==
  ASSUME Faults = {}, \A r \in Requests : Len(r.prompt) + r.max <= GlobalCap + 1,
         WholeInv, FitsInv, [Next]_vars
  PROVE  FitsInv'
<1>1. req \in RequestRecord /\ call \in CallRecord
  BY DEF WholeInv, IInv, ControlInv, TypeOK
<1>2. ASSUME NEW r \in Requests, Request(r) PROVE FitsInv'
  BY <1>2, RequestFits DEF WholeInv
<1>3. CASE Reset
  BY <1>3 DEF Reset, ClearResident, FitsInv
<1>4. CASE PrefillReturns \/ DecodeReturns
  <2>1. /\ req.pc \in {"prefill", "decode"} /\ req' = [req EXCEPT !.pc = "sample"]
        /\ call'.pc = "idle" /\ dirty' = dirty
        /\ req.pc = "prefill" <=> PrefillReturns
    BY <1>4 DEF PrefillReturns, DecodeReturns, NoCall
  <2>2. /\ req'.pc = "sample" /\ req'.prompt = req.prompt /\ req'.max = req.max
        /\ req'.out = req.out
    BY <1>1, <2>1 DEF RequestRecord
  <2> QED BY <2>1, <2>2 DEF FitsInv, WholeInv, PromptInv
<1>5. ASSUME NEW tok \in Token, NEW keepGoing \in BOOLEAN, Sample(tok, keepGoing)
      PROVE  FitsInv'
  <2> DEFINE out  == Append(req.out, tok)
             stop == StopReason(out, keepGoing, req.max)
  <2>1. /\ req.pc = "sample" /\ dirty' = dirty
        /\ req' = [req EXCEPT !.out = out, !.stop = stop,
                              !.pc = IF stop = "none" THEN "decode" ELSE "idle"]
        /\ call' = IF stop = "none" THEN DecodeCall(tok) ELSE NoCall
    BY <1>5 DEF Sample
  <2>2. stop = "none" => ~(Len(out) >= req.max)
    <3> HIDE DEF out
    <3> QED BY DEF StopReason
  <2>3. Len(out) \in Nat /\ req.max \in Nat
    BY <1>1 DEF RequestRecord
  <2> HIDE DEF stop, out
  <2>4. /\ req'.pc = IF stop = "none" THEN "decode" ELSE "idle"
        /\ req'.out = out /\ req'.prompt = req.prompt /\ req'.max = req.max
    BY <1>1, <2>1 DEF RequestRecord
  <2>5. call'.pc \in {"stage", "idle"}
    BY <2>1 DEF DecodeCall, NoCall
  <2> QED BY <2>1, <2>2, <2>3, <2>4, <2>5 DEF FitsInv
<1>6. CASE RequestFails
  BY <1>6 DEF RequestFails, FitsInv
<1>7. CASE (ModelStep \/ ModelFault) /\ UNCHANGED sessionVars
  <2>1. call'.pc \in {"record", "stage", "layer", "read", "ok"}
    <3>1. ModelStep
      BY <1>7 DEF ModelFault
    <3>2. call.pc \in {"record", "stage", "layer", "read"}
      BY <3>1 DEF ModelStep, RecordChunk, StageChunk, PrefillLayer, AdvanceChunk,
                  StageToken, DecodeLayer, Advance, ReadLogits, At
    <3> QED BY <1>1, <3>1, <3>2
            DEF ModelStep, RecordChunk, StageChunk, PrefillLayer, AdvanceChunk,
                StageToken, DecodeLayer, Advance, ReadLogits, Goto, StartLayers,
                NextLayer, At, CallRecord
  <2> QED BY <1>7, <2>1 DEF FitsInv, sessionVars
<1>8. CASE UNCHANGED vars
  BY <1>8 DEF vars, modelVars, sessionVars, FitsInv
<1> QED BY <1>2, <1>3, <1>4, <1>5, <1>6, <1>7, <1>8 DEF Next, SessionStep

SampleWithin == req.pc = "sample" => pos <= GlobalCap

(* Only a call that has returned leads to sampling.                         *)
LEMMA BecomesSample ==
  ASSUME ControlInv, [Next]_vars, req'.pc = "sample", req.pc # "sample"
  PROVE  PrefillReturns \/ DecodeReturns
<1>1. req \in RequestRecord
  BY DEF ControlInv, TypeOK
<1>2. ASSUME NEW r \in Requests, Request(r) PROVE FALSE
  BY <1>2 DEF Request
<1>3. ASSUME NEW tok \in Token, NEW keepGoing \in BOOLEAN, Sample(tok, keepGoing)
      PROVE  FALSE
  BY <1>3 DEF Sample
<1>4. CASE RequestFails
  BY <1>1, <1>4 DEF RequestFails, RequestRecord
<1> QED BY <1>2, <1>3, <1>4 DEF Next, SessionStep, Reset, vars, sessionVars

(* What is sampled from fits the stores.                                    *)
LEMMA SampleFits ==
  ASSUME WholeInv, FitsInv
  PROVE  SampleWithin
<1> SUFFICES ASSUME req.pc = "sample"
             PROVE  pos <= GlobalCap
  BY DEF SampleWithin
<1>1. /\ history = fed /\ Len(fed) = pos /\ history = req.prompt \o req.out
      /\ req \in RequestRecord
  BY DEF WholeInv, FitsInv, IInv, DataInv, HistoryFollows, PromptInv, ControlInv, TypeOK, FedOK
<1>2. req.prompt \in Seq(Token) /\ req.out \in Seq(Token) /\ req.max \in Nat
  BY <1>1 DEF RequestRecord
<1>3. pos = Len(req.prompt) + Len(req.out) /\ Len(req.prompt) \in Nat /\ Len(req.out) \in Nat
  <2>1. Len(req.prompt \o req.out) = Len(req.prompt) + Len(req.out)
    BY ONLY <1>2, ConcatProperties
  <2>2. pos = Len(req.prompt \o req.out)
    BY <1>1
  <2>3. Len(req.prompt) \in Nat /\ Len(req.out) \in Nat
    BY ONLY <1>2, LenProperties
  <2> QED BY <2>1, <2>2, <2>3
<1>4. Len(req.prompt) <= GlobalCap /\ Len(req.prompt) + req.max <= GlobalCap + 1
  BY DEF FitsInv
<1>5. CASE req.out = <<>>
  <2>1. Len(req.out) = 0
    BY <1>5, EmptySeq
  <2> QED BY <1>3, <1>4, <2>1, CapAssumption
<1>6. CASE Len(req.out) < req.max
  <2> DEFINE p == Len(req.prompt)
             o == Len(req.out)
             m == req.max
  <2>1. p \in Nat /\ o \in Nat /\ m \in Nat /\ GlobalCap \in Nat
    BY <1>2, <1>3, CapAssumption
  <2>2. pos = p + o /\ p + m <= GlobalCap + 1 /\ o < m
    BY <1>3, <1>4, <1>6
  <2> HIDE DEF p, o, m
  <2> QED BY <2>1, <2>2
<1> QED BY <1>5, <1>6 DEF FitsInv

(* When no GPU call fails and every conversation fits the global stores,    *)
(* the session is the stateless API: its safety part, in full.              *)
THEOREM SessionIsStateless ==
  ASSUME ChunkCap <= Window, GlobalLayers # {}, Faults = {},
         \A r \in Requests : Len(r.prompt) + r.max <= GlobalCap + 1
  PROVE  Spec => Stateless!Init /\ [][Stateless!Next]_(Stateless!vars)
<1>1. Spec => []WholeInv
  BY WholeInvariant
<1>2. Init => Stateless!Init
  BY InitImplements
<1>3. Init => FitsInv
  BY DEF Init, ModelInit, NoCall, NoRequest, FitsInv
<1>4. WholeInv /\ FitsInv /\ [Next]_vars => FitsInv'
  BY NextFits DEF WholeInv
<1>5. WholeInv /\ WholeInv' /\ FitsInv /\ SampleWithin /\ SampleWithin' /\ [Next]_vars =>
        [Stateless!Next]_(Stateless!vars)
  <2>1. SUFFICES ASSUME WholeInv, WholeInv', FitsInv, SampleWithin, SampleWithin', [Next]_vars
                 PROVE  Stateless!Next \/ UNCHANGED Stateless!vars
    OBVIOUS
  <2>2. req.pc = "sample" => pos <= GlobalCap
    BY <2>1 DEF SampleWithin
  <2>3. ASSUME req'.pc = "sample", req.pc # "sample"
        PROVE  pos <= GlobalCap
    <3>1. PrefillReturns \/ DecodeReturns
      BY <2>1, <2>3, BecomesSample DEF WholeInv, IInv
    <3>2. pos' = pos
      BY <3>1 DEF PrefillReturns, DecodeReturns
    <3> QED BY <2>1, <2>3, <3>2 DEF SampleWithin
  <2>4. ~dirty
    BY <2>1 DEF FitsInv
  <2> QED BY <2>1, <2>2, <2>3, <2>4, StepImplements
<1>6. WholeInv /\ FitsInv => SampleWithin
  BY SampleFits
<1> QED BY <1>1, <1>2, <1>3, <1>4, <1>5, <1>6, PTL DEF Spec
=============================================================================
