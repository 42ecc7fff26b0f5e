---------------------------- MODULE ModelLoading ----------------------------
(***************************************************************************)
(* From a file on disk to weights on the device: the file is parsed, and   *)
(* then either described, validated and uploaded tensor by tensor, or its  *)
(* data section is loaded as a whole by the direct loader.                 *)
(***************************************************************************)
EXTENDS WeightUpload, DirectSource

CONSTANTS
    Files,       \* the files that may be opened
    MaxLoad      \* bound: the longest data section that is loaded directly

ASSUME FilesAssumption == \A f \in Files : IsFile(f)

vars == <<parseVars, uploadVars, loadVars>>

Init ==
    /\ file \in Files
    /\ ParseInit /\ UploadInit /\ LoadInit

Parse == ParseStep /\ UNCHANGED <<uploadVars, loadVars>>

Upload == pc = "idle" /\ UploadStep /\ UNCHANGED loadVars

(* Mutant: the source keeps the end of the table for the section's start.  *)
StartLoadAtTable ==
    /\ phase = "parsed" /\ upload = "idle" /\ DataLen <= MaxLoad
    /\ NewSource([start |-> pos, len |-> DataLen])
    /\ UNCHANGED <<parseVars, uploadVars>>

StartLoad ==
    /\ phase = "parsed" /\ upload = "idle" /\ DataLen <= MaxLoad
    /\ NewSource([start |-> start, len |-> DataLen])
    /\ UNCHANGED <<parseVars, uploadVars>>

LoadOn == LoadStep /\ UNCHANGED <<parseVars, uploadVars>>

Next == Parse \/ Upload \/ StartLoad \/ LoadOn

Spec == Init /\ [][Next]_vars /\ WF_vars(Next)

-----------------------------------------------------------------------------
TypeOK ==
    /\ phase \in {"header", "metadata", "tensors", "ranges", "parsed", "failed"}
    /\ error = "none" <=> phase # "failed"
    /\ pos \in 0 .. file.size /\ start \in 0 .. file.size
    /\ upload \in {"idle", "running", "ok", "DescError", "MissingTensor", "BadTensor", "GpuError"}
    /\ pc \in {"idle", "open", "chunk", "read", "ok", "error"}
    /\ DOMAIN buffers \cap {queue[i].name : i \in DOMAIN queue} = {}

(***************************************************************************)
(* A file that is accepted holds every byte its table declares: names are  *)
(* unique, every range begins at a multiple of the alignment and ends in   *)
(* the file, behind the table, and has the blocks its elements need;       *)
(* nothing that was cut off, overflows or is misaligned gets this far      *)
(* (Gguf::parse).                                                          *)
(***************************************************************************)
AcceptedTableFits ==
    phase = "parsed" =>
      /\ Len(table) = Len(file.tensors) /\ DOMAIN meta = {kv.key.name : kv \in Range(file.metadata)}
      /\ \A i, j \in DOMAIN table : table[i].name = table[j].name => i = j
      /\ \A t \in Range(table) :
           /\ t.offset % align = 0
           /\ pos <= start + t.offset /\ start + t.offset + t.byteLen <= file.size
           /\ t.byteLen * BlockElems[t.dtype] = Product(t.dims) * BlockBytes[t.dtype]

(* What lies on the device at a byte of a buffer: a place of the file.     *)
DeviceByte(buffer, b) ==
    IF b < buffer.rows * buffer.stride /\ b % buffer.stride < buffer.row
    THEN buffer.from + (b \div buffer.stride) * buffer.row + (b % buffer.stride)
    ELSE None

(* A kernel reads rows of blocks, one behind another or at the stride of   *)
(* the token embeddings.                                                   *)
Elems(t) == BlockElems[t.dtype]
RowOf(t) == IF Len(t.dims) = 1 THEN t.byteLen ELSE (t.dims[1] * BlockBytes[t.dtype]) \div Elems(t)
KernelStride(t) == IF t.dtype = "Q6_K" THEN Q6kRowWords * 4 ELSE RowOf(t)

(***************************************************************************)
(* Every kernel finds on the device the bytes that the writer of the file  *)
(* put there: no byte dropped at the end of a tensor, no row shifted, no   *)
(* tensor taken for another, wherever the data section begins              *)
(* (GpuWeights::upload, upload_q6k_repacked, data_of).                     *)
(***************************************************************************)
KernelsReadTheFile ==
    upload = "ok" =>
      \A t \in {t \in Range(table) : t.name \in DOMAIN buffers} :
        \A r \in 0 .. (t.byteLen \div RowOf(t)) - 1, c \in 0 .. RowOf(t) - 1 :
          DeviceByte(buffers[t.name], r * KernelStride(t) + c)
            = file.dataAt + t.offset + r * RowOf(t) + c

(***************************************************************************)
(* A file that validate accepts can be uploaded: the tensors upload asks   *)
(* for by name and type are those the description demands, all of them     *)
(* reach the device, and only the GPU can make it fail (two lists kept in  *)
(* step by hand: expected_tensors and GpuWeights::upload).                 *)
(***************************************************************************)
ValidFilesUpload ==
    /\ upload \notin {"MissingTensor", "BadTensor"}
    /\ upload = "ok" => DOMAIN buffers = {t.name : t \in Range(table)}

(***************************************************************************)
(* In a destination that was loaded, every tensor lies at its offset: the  *)
(* section that the parser hands the loader is the one the offsets count   *)
(* from (Gguf::data_offset, DirectSource::new).                            *)
(***************************************************************************)
TensorsWhereDeclared ==
    pc = "ok" =>
      \A t \in Range(table), k \in 0 .. file.size :
        k < t.byteLen => dst[t.offset + k] = file.dataAt + t.offset + k

(***************************************************************************)
(* Whatever the file and whatever the reads return, it is known in the end *)
(* whether the model is there: no loop of the parser, the upload or the    *)
(* loader runs for ever, provided reads are not interrupted for ever.      *)
(***************************************************************************)
LoadingEnds ==
    <>(phase = "failed" \/ upload \notin {"idle", "running"} \/ pc \in {"ok", "error"})
=============================================================================
