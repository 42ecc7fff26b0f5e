---------------------------- MODULE WeightUpload ----------------------------
(***************************************************************************)
(* GpuWeights::upload of sg-model/src/weights.rs: every tensor of a        *)
(* validated file is copied out of the mapping into a device buffer of its *)
(* own, the token embeddings with every row padded to a whole number of    *)
(* words.                                                                  *)
(*                                                                         *)
(* A buffer is rows of bytes copied from consecutive places of the file,   *)
(* each row followed by zeros up to the stride.                            *)
(***************************************************************************)
EXTENDS ModelDesc

CONSTANT
    Q6kRowWords,     \* words of a row of token embeddings on the device
    UploadFails      \* bound: positions in the upload at which the GPU may fail

ASSUME RowWordsAssumption == Q6kRowWords \in Nat

VARIABLES
    buffers,     \* the device buffers so far: tensor name to content
    queue,       \* the tensors upload has still to copy
    upload       \* "idle", "running", "ok", or the error that ended it

uploadVars == <<buffers, queue, upload>>

(* Mutant: every layer is asked for attn_v.                                *)
LayerTensorsAllV(layer) ==
    LET F32s(suffixes) == [i \in DOMAIN suffixes |-> [name |-> <<layer, suffixes[i]>>, dtype |-> "F32"]]
        Words(suffixes) == [i \in DOMAIN suffixes |-> [name |-> <<layer, suffixes[i]>>, dtype |-> "Q4_0"]]
    IN F32s(<<"layer_output_scale", "attn_norm", "attn_q_norm", "attn_k_norm",
              "post_attention_norm", "ffn_norm", "post_ffw_norm">>)
       \o Words(<<"attn_q", "attn_k">>)
       \o Words(<<"attn_v">>)
       \o Words(<<"attn_output", "ffn_gate", "ffn_up", "ffn_down">>)

(* The order in which upload asks for the tensors of a layer: the scale    *)
(* first, which stays on the CPU.                                          *)
LayerTensors(layer) ==
    LET kind == LayerKind(layer)
        F32s(suffixes) == [i \in DOMAIN suffixes |-> [name |-> <<layer, suffixes[i]>>, dtype |-> "F32"]]
        Words(suffixes) == [i \in DOMAIN suffixes |-> [name |-> <<layer, suffixes[i]>>, dtype |-> "Q4_0"]]
    IN F32s(<<"layer_output_scale", "attn_norm", "attn_q_norm", "attn_k_norm",
              "post_attention_norm", "ffn_norm", "post_ffw_norm">>)
       \o Words(<<"attn_q", "attn_k">>)
       \o (IF kind = "sliding" THEN Words(<<"attn_v">>) ELSE <<>>)
       \o Words(<<"attn_output", "ffn_gate", "ffn_up", "ffn_down">>)

Uploads ==
    FlattenSeq([i \in 1 .. NLayers |-> LayerTensors(i - 1)])
    \o <<[name |-> TokenEmbd, dtype |-> "Q6_K"], [name |-> OutputNorm, dtype |-> "F32"],
         [name |-> RopeFreqs, dtype |-> "F32"]>>

(* data_of: where the bytes of a tensor lie in the file.                   *)
BytesFrom(t) == start + t.offset

(* The bytes in words of four: chunks_exact drops what is left over.       *)
Verbatim(t) ==
    LET bytes == (t.byteLen \div 4) * 4
    IN [from |-> BytesFrom(t), rows |-> 1, row |-> bytes, stride |-> bytes]

(* upload_q6k_repacked: rows of whole blocks, apart by the stride.         *)
RowBytes == (Hidden \div BlockElems["Q6_K"]) * BlockBytes["Q6_K"]
(* Mutant: the rows are packed one behind another.                         *)
RepackedDense(t) ==
    [from |-> BytesFrom(t), rows |-> Vocab, row |-> RowBytes, stride |-> RowBytes]

Repacked(t) ==
    [from |-> BytesFrom(t), rows |-> Vocab, row |-> RowBytes, stride |-> Q6kRowWords * 4]

-----------------------------------------------------------------------------
UploadInit == buffers = <<>> /\ queue = <<>> /\ upload = "idle"

StartUpload ==
    /\ upload = "idle" /\ phase = "parsed"
    /\ IF Valid
       THEN upload' = "running" /\ queue' = Uploads
       ELSE upload' = "DescError" /\ UNCHANGED queue
    /\ UNCHANGED <<buffers, parseVars>>

(* tensor_bytes, then the buffer.                                          *)
UploadTensor ==
    LET next == queue[1]
        found == TensorAt(next.name)
        t == table[CHOOSE i \in found : TRUE]
    IN /\ upload = "running" /\ queue # <<>>
       /\ IF found = {} THEN upload' = "MissingTensor" /\ UNCHANGED <<buffers, queue>>
          ELSE IF t.dtype # next.dtype THEN upload' = "BadTensor" /\ UNCHANGED <<buffers, queue>>
          ELSE /\ buffers' = With(buffers, next.name,
                                  IF next.dtype = "Q6_K" THEN Repacked(t) ELSE Verbatim(t))
               /\ queue' = Tail(queue) /\ UNCHANGED upload
       /\ UNCHANGED parseVars

GpuFails ==
    /\ upload = "running" /\ Len(queue) \in UploadFails
    /\ upload' = "GpuError"
    /\ UNCHANGED <<buffers, queue, parseVars>>

EndUpload ==
    /\ upload = "running" /\ queue = <<>>
    /\ upload' = "ok"
    /\ UNCHANGED <<buffers, queue, parseVars>>

UploadStep == StartUpload \/ UploadTensor \/ GpuFails \/ EndUpload
=============================================================================
