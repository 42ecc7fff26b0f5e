----------------------------- MODULE GgufParser -----------------------------
(***************************************************************************)
(* Gguf::parse of sg-gguf/src/parse.rs, with the metadata store of         *)
(* meta.rs: a bounds-checked cursor walks a file that may end anywhere and *)
(* declare anything.                                                       *)
(*                                                                         *)
(* A file is its size in bytes and the fields that are written in it, in   *)
(* order; a text is its name, its length and whether it is UTF-8, and an   *)
(* array the arrays nested in it, itself first, each with its depth.  One  *)
(* action per part of the file.                                            *)
(***************************************************************************)
EXTENDS TensorTable, SequencesExt

CONSTANT Magic, Version, DefaultAlignment, MaxDims, MaxArrayDepth

ASSUME AlignmentAssumption == DefaultAlignment \in Nat \ {0}

VARIABLES
    file,        \* the bytes
    pos,         \* Cur.pos
    meta,        \* Metadata: key to value
    table,       \* the tensor table so far
    align,       \* general.alignment
    start,       \* start of the data section
    at,          \* the entry the current loop is at
    phase,       \* the part of the file that is parsed next
    error        \* the error that ended the parse

parseVars == <<file, pos, meta, table, align, start, at, phase, error>>

(* GGUF value types.                                                       *)
U32 == 4
I32 == 5
F32 == 6
BOOL == 7
STRING8 == 8
ARRAY == 9
Width ==
    [raw \in 0 .. 12 \ {STRING8, ARRAY} |->
       IF raw \in {0, 1, BOOL} THEN 1 ELSE IF raw \in {2, 3} THEN 2
       ELSE IF raw \in {U32, I32, F32} THEN 4 ELSE 8]
FromRaw ==
    [raw \in {0, 1, 2, 8, 14} |->
       CASE raw = 0 -> "F32" [] raw = 1 -> "F16" [] raw = 2 -> "Q4_0" [] raw = 8 -> "Q8_0"
         [] raw = 14 -> "Q6_K"]

(* The lenient view of unsigned integers.                                  *)
IsUint(value) == value.raw \in {0, 2, 4, 10}

(* What can be written in a file: lengths, counts, dimensions and offsets  *)
(* are unsigned.                                                           *)
IsSequence(s) == s \in Seq(Range(s))
IsText(text) == text.len \in Nat /\ text.utf8 \in BOOLEAN
IsArray(array) ==
    /\ array.depth \in Nat /\ array.count \in Nat /\ IsSequence(array.items)
    /\ array.elem = STRING8 => \A i \in DOMAIN array.items : IsText(array.items[i])
IsValue(value) ==
    /\ value.raw = STRING8 => IsText(value.val)
    /\ value.raw = ARRAY => /\ IsSequence(value.arrays)
                            /\ \A i \in DOMAIN value.arrays : IsArray(value.arrays[i])
    /\ IsUint(value) => value.val \in Nat
IsFile(f) ==
    /\ f.size \in Nat /\ IsSequence(f.metadata) /\ IsSequence(f.tensors)
    /\ \A i \in DOMAIN f.metadata : IsText(f.metadata[i].key) /\ IsValue(f.metadata[i].value)
    /\ \A i \in DOMAIN f.tensors :
         /\ IsText(f.tensors[i].name) /\ f.tensors[i].dims \in Seq(Nat) /\ f.tensors[i].offset \in Nat

(* A cursor: a position, and an error once a read has failed.  A byte      *)
(* count that overflows u64 is more than any file has.                     *)
Cursor(p) == [pos |-> p, err |-> "none"]
Fail(cur, err) == IF cur.err = "none" THEN [cur EXCEPT !.err = err] ELSE cur
FailIf(cur, bad, err) == IF bad THEN Fail(cur, err) ELSE cur

(* Mutant: the length is compared with the file, not with what is left.    *)
TakeOfFile(cur, n) ==
    IF cur.err # "none" THEN cur
    ELSE IF n > file.size THEN Fail(cur, "Truncated")
    ELSE [cur EXCEPT !.pos = @ + n]

Take(cur, n) ==
    IF cur.err # "none" THEN cur
    ELSE IF n > file.size - cur.pos THEN Fail(cur, "Truncated")
    ELSE [cur EXCEPT !.pos = @ + n]

ReadString(cur, text) == FailIf(Take(Take(cur, 8), text.len), ~text.utf8, "InvalidUtf8")

ReadStrings(cur, texts) ==
    LET after[n \in 0 .. Len(texts)] == IF n = 0 THEN cur ELSE ReadString(after[n - 1], texts[n])
    IN after[Len(texts)]

(* read_array, without the arrays nested in it, which come next in the     *)
(* file.                                                                   *)
ReadArray(cur, array) ==
    LET head == Take(Take(cur, 4), 8)
        each == array.elem
    IN IF cur.err # "none" THEN cur
       ELSE IF array.depth >= MaxArrayDepth THEN Fail(cur, "ArrayTooDeep")
       ELSE IF each = ARRAY THEN head
       ELSE IF each = STRING8 THEN ReadStrings(head, array.items)
       ELSE IF each \notin DOMAIN Width THEN Fail(head, "UnknownValueType")
       ELSE FailIf(Take(head, array.count * Width[each]),
                   each = BOOL /\ \E i \in DOMAIN array.items : array.items[i] \notin {0, 1},
                   "InvalidBool")

ReadArrays(cur, arrays) ==
    LET after[n \in 0 .. Len(arrays)] == IF n = 0 THEN cur ELSE ReadArray(after[n - 1], arrays[n])
    IN after[Len(arrays)]

ReadValue(cur, value) ==
    CASE value.raw = STRING8 -> ReadString(cur, value.val)
      [] value.raw = ARRAY -> ReadArrays(cur, value.arrays)
      [] value.raw \in DOMAIN Width ->
           FailIf(Take(cur, Width[value.raw]), value.raw = BOOL /\ value.val \notin {0, 1}, "InvalidBool")
      [] OTHER -> Fail(cur, "UnknownValueType")

(* A map with one more entry.                                              *)
With(f, key, value) == [k \in DOMAIN f \cup {key} |-> IF k = key THEN value ELSE f[k]]

(* Metadata::get.                                                          *)
Has(key) == key \in DOMAIN meta

-----------------------------------------------------------------------------
Stop(err) ==
    /\ error' = err /\ phase' = "failed"
    /\ UNCHANGED <<file, pos, meta, table, align, start, at>>

ParseInit ==
    /\ pos = 0 /\ meta = <<>> /\ table = <<>>
    /\ align = DefaultAlignment /\ start = 0 /\ at = 1
    /\ phase = "header" /\ error = "none"

ReadHeader ==
    LET magic == FailIf(Take(Cursor(0), 4), file.magic # Magic, "BadMagic")
        version == FailIf(Take(magic, 4), file.version # Version, "UnsupportedVersion")
        counts == Take(Take(version, 8), 8)
    IN /\ phase = "header"
       /\ IF counts.err # "none" THEN Stop(counts.err)
          ELSE /\ pos' = counts.pos /\ phase' = "metadata"
               /\ UNCHANGED <<file, meta, table, align, start, at, error>>

ReadEntry ==
    LET kv == file.metadata[at]
        cur == ReadValue(Take(ReadString(Cursor(pos), kv.key), 4), kv.value)
        end == FailIf(cur, Has(kv.key.name), "DuplicateKey")
    IN /\ phase = "metadata" /\ at <= Len(file.metadata)
       /\ IF end.err # "none" THEN Stop(end.err)
          ELSE /\ pos' = end.pos /\ at' = at + 1
               /\ meta' = With(meta, kv.key.name, kv.value)
               /\ UNCHANGED <<file, table, align, start, phase, error>>

PowerOfTwo(n) == n # 0 /\ \E k \in 0 .. n : 2 ^ k = n

EndMetadata ==
    LET declared == meta["general.alignment"]
    IN /\ phase = "metadata" /\ at > Len(file.metadata)
       /\ IF Has("general.alignment") /\ ~IsUint(declared) THEN Stop("WrongType")
          ELSE IF Has("general.alignment") /\ ~PowerOfTwo(declared.val) THEN Stop("BadAlignment")
          ELSE /\ align' = IF Has("general.alignment") THEN declared.val ELSE DefaultAlignment
               /\ at' = 1 /\ phase' = "tensors"
               /\ UNCHANGED <<file, pos, meta, table, start, error>>

(* read_tensor_info: the fields first, then what is wrong with them.       *)
Product(dims) ==
    LET product[n \in 0 .. Len(dims)] ==
          IF n = 0 THEN 1
          ELSE IF product[n - 1] = None THEN None
          ELSE Checked(product[n - 1] * dims[n])
    IN product[Len(dims)]

ReadTensor ==
    LET t == file.tensors[at]
        n == FailIf(Take(ReadString(Cursor(pos), t.name), 4), Len(t.dims) > MaxDims, "TooManyDims")
        cur == Take(Take(Take(n, 8 * Len(t.dims)), 4), 8)
        elems == Product(t.dims)
        known == FailIf(cur, t.raw \notin DOMAIN FromRaw, "UnsupportedTensorType")
        sized == FailIf(known, elems = None, "DimOverflow")
        bytes == ByteLen(FromRaw[t.raw], elems)
        blocks == IF sized.err = "none" /\ bytes = None THEN Fail(sized, "BadBlockCount") ELSE sized
        end == FailIf(blocks, \E i \in DOMAIN table : table[i].name = t.name.name, "DuplicateTensor")
    IN /\ phase = "tensors" /\ at <= Len(file.tensors)
       /\ IF end.err # "none" THEN Stop(end.err)
          ELSE /\ pos' = end.pos /\ at' = at + 1
               /\ table' = Append(table, [name |-> t.name.name, dims |-> t.dims,
                                          dtype |-> FromRaw[t.raw],
                                          offset |-> t.offset, byteLen |-> bytes])
               /\ UNCHANGED <<file, meta, align, start, phase, error>>

(* The data section: an empty table needs none.                            *)
EndTable ==
    LET from == DataStart(pos, align)
    IN /\ phase = "tensors" /\ at > Len(file.tensors)
       /\ IF from = None THEN Stop("BadAlignment")
          ELSE IF from > file.size /\ table # <<>> THEN Stop("Truncated")
          ELSE /\ start' = IF from <= file.size THEN from ELSE file.size
               /\ at' = 1 /\ phase' = "ranges"
               /\ UNCHANGED <<file, pos, meta, table, align, error>>

DataLen == file.size - start

CheckRange ==
    LET err == RangeError(table[at], align, DataLen)
    IN /\ phase = "ranges" /\ at <= Len(table)
       /\ IF err # "none" THEN Stop(err)
          ELSE at' = at + 1 /\ UNCHANGED <<file, pos, meta, table, align, start, phase, error>>

EndRanges ==
    /\ phase = "ranges" /\ at > Len(table)
    /\ phase' = "parsed"
    /\ UNCHANGED <<file, pos, meta, table, align, start, at, error>>

ParseStep ==
    \/ ReadHeader \/ ReadEntry \/ EndMetadata \/ ReadTensor
    \/ EndTable \/ CheckRange \/ EndRanges

(* Gguf::tensor, by the index of names.                                    *)
TensorAt(name) == {i \in DOMAIN table : table[i].name = name}
=============================================================================
