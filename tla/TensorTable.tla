---------------------------- MODULE TensorTable ----------------------------
(***************************************************************************)
(* The arithmetic of a GGUF file's tensor table: the sizes of ggml types   *)
(* (sg-gguf/src/tensor.rs) and the checks that Gguf::parse makes of the    *)
(* declared ranges against the data section, in u64 and usize.             *)
(***************************************************************************)
EXTENDS Integers, Sequences

CONSTANT MaxU64          \* u64::MAX, which is usize::MAX as well

ASSUME WidthAssumption == MaxU64 \in Nat \ {0}

(* What checked arithmetic returns when the result does not fit.           *)
None == -1
Checked(n) == IF n <= MaxU64 THEN n ELSE None

(* GgmlType, with the elements and the bytes of one block.                 *)
GgmlType == {"F32", "F16", "Q4_0", "Q8_0", "Q6_K"}
BlockElems == [F32 |-> 1, F16 |-> 1, Q4_0 |-> 32, Q8_0 |-> 32, Q6_K |-> 256]
BlockBytes == [F32 |-> 4, F16 |-> 2, Q4_0 |-> 18, Q8_0 |-> 34, Q6_K |-> 210]

ByteLen(dtype, elems) ==
    IF elems % BlockElems[dtype] # 0 THEN None
    ELSE Checked((elems \div BlockElems[dtype]) * BlockBytes[dtype])

(* The data section starts at the next multiple of the alignment behind    *)
(* the tensor table.                                                       *)
DataStart(tableEnd, alignment) ==
    IF Checked(tableEnd + (alignment - 1)) = None THEN None
    ELSE ((tableEnd + (alignment - 1)) \div alignment) * alignment

(* Mutant: the length is compared with the section, the offset is not      *)
(* added.                                                                  *)
RangeErrorOfLength(t, alignment, dataLen) ==
    IF t.offset % alignment # 0 THEN "MisalignedTensor"
    ELSE IF t.byteLen > dataLen THEN "TensorOutOfBounds"
    ELSE "none"

(* One tensor's declared range, and the error parse finds in it.           *)
RangeError(t, alignment, dataLen) ==
    LET end == Checked(t.offset + t.byteLen)
    IN IF t.offset % alignment # 0 THEN "MisalignedTensor"
       ELSE IF end = None \/ end > dataLen THEN "TensorOutOfBounds"
       ELSE "none"
=============================================================================
