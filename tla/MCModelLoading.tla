--------------------------- MODULE MCModelLoading ---------------------------
(* Files for TLC: tiny ones that are loaded, whole and cut short at every   *)
(* byte, tiny ones with one thing wrong, and a scaled-down model, right and *)
(* with one disagreement each.                                              *)
EXTENDS ModelLoading

Text(name, n) == [name |-> name, len |-> n, utf8 |-> TRUE]
Uint(n) == [raw |-> U32, val |-> n]
Flat(depth, elem, items) == [depth |-> depth, elem |-> elem, count |-> Len(items), items |-> items]
ArrayOf(elem, items) == [raw |-> ARRAY, arrays |-> <<Flat(0, elem, items)>>]
(* An array of one array of ... of an array of these.                       *)
NestedIn(depth, elem, items) ==
    [raw |-> ARRAY,
     arrays |-> [i \in 1 .. depth |-> [depth |-> i - 1, elem |-> ARRAY, count |-> 1, items |-> <<>>]]
                \o <<Flat(depth, elem, items)>>]
Entry(key, value) == [key |-> Text(key, 3), value |-> value]
Tensor(name, dims, raw) == [name |-> Text(name, 5), dims |-> dims, raw |-> raw, offset |-> 0]

RawOf == [F32 |-> 0, F16 |-> 1, Q4_0 |-> 2, Q8_0 |-> 8, Q6_K |-> 14]
Sum(s) == FoldLeft(LAMBDA n, x : n + x, 0, s)
NextTo(n, a) == ((n + a - 1) \div a) * a

(* The writer's side: where everything lies when it is written out.         *)
ItemBytes(array) ==
    IF array.elem = STRING8 THEN Sum([i \in DOMAIN array.items |-> 8 + array.items[i].len])
    ELSE IF array.elem = ARRAY THEN 0
    ELSE Width[array.elem] * Len(array.items)
ValueBytes(v) ==
    CASE v.raw = STRING8 -> 8 + v.val.len
      [] v.raw = ARRAY -> Sum([i \in DOMAIN v.arrays |-> 12 + ItemBytes(v.arrays[i])])
      [] OTHER -> Width[v.raw]
TensorBytes(t) ==
    (FoldLeft(LAMBDA n, d : n * d, 1, t.dims) * BlockBytes[FromRaw[t.raw]]) \div BlockElems[FromRaw[t.raw]]
Placed(tensors, a) ==
    LET place[i \in DOMAIN tensors] ==
          IF i = 1 THEN 0 ELSE NextTo(place[i - 1] + TensorBytes(tensors[i - 1]), a)
    IN <<>> \o [i \in DOMAIN tensors |-> [tensors[i] EXCEPT !.offset = place[i]]]
File(metadata, tensors, a, slack) ==
    LET head == 24 + Sum([i \in DOMAIN metadata |-> 15 + ValueBytes(metadata[i].value)])
                   + Sum([i \in DOMAIN tensors |-> 29 + 8 * Len(tensors[i].dims)])
        placed == Placed(tensors, a)
        last == placed[Len(placed)]
        from == NextTo(head, a)
    IN [magic |-> Magic, version |-> Version, metadata |-> metadata, tensors |-> placed,
        dataAt |-> from, size |-> from + last.offset + TensorBytes(last) + slack]

Aligned(a) == <<Entry("general.alignment", Uint(a))>>
Tiny(a, n) == File(Aligned(a), <<Tensor("x", <<n>>, 1), Tensor("y", <<2, 3>>, 1)>>, a, n % 3)
Good == Tiny(8, 5)

Cut == {[Good EXCEPT !.size = n] : n \in 0 .. Good.size}
Meta(entries) == [Good EXCEPT !.metadata = entries]
Second(t) == [Good EXCEPT !.tensors[2] = t]
Wrong ==
    {[Good EXCEPT !.magic = "other"], [Good EXCEPT !.version = Version - 1],
     Meta(Aligned(0)), Meta(Aligned(12)), Meta(<<Entry("general.alignment", [raw |-> I32, val |-> 8])>>),
     Meta(Aligned(8) \o Aligned(8)), Meta(Aligned(1024)),
     Meta(<<[Entry("k", Uint(1)) EXCEPT !.key.utf8 = FALSE]>>),
     Meta(<<Entry("k", [raw |-> 13, val |-> 0])>>), Meta(<<Entry("k", [raw |-> BOOL, val |-> 2])>>),
     Meta(<<Entry("k", ArrayOf(BOOL, <<1, 2>>))>>), Meta(<<Entry("k", ArrayOf(13, <<1>>))>>),
     Meta(<<Entry("k", [ArrayOf(U32, <<1>>) EXCEPT !.arrays[1].count = MaxU64])>>),
     Meta(<<Entry("k", NestedIn(2, U32, <<1>>))>>),
     Second([Good.tensors[2] EXCEPT !.name.name = "x"]),
     Second([Good.tensors[2] EXCEPT !.dims = <<1, 1, 1, 1, 6>>]),
     Second([Good.tensors[2] EXCEPT !.dims = <<2000, 2000>>]),
     Second([Good.tensors[2] EXCEPT !.raw = 3]), Second([Good.tensors[2] EXCEPT !.raw = 2]),
     Second([Good.tensors[2] EXCEPT !.offset = @ + 4]), Second([Good.tensors[2] EXCEPT !.offset = @ + 8]),
     Second([Good.tensors[2] EXCEPT !.offset = MaxU64 - 7])}

Lists == <<Entry("l", ArrayOf(STRING8, <<Text("p", 2), Text("q", 0)>>)),
           Entry("b", ArrayOf(BOOL, <<1, 0>>)), Entry("s", [raw |-> STRING8, val |-> Text("v", 1)]),
           Entry("n", NestedIn(1, U32, <<7>>)), Entry("f", [raw |-> 6, val |-> 0])>>
Others == {Tiny(2, 3), Tiny(1, 4), Tiny(1, 9), Tiny(4, 6), File(Lists, <<Tensor("x", <<1>>, 0)>>, 32, 0),
           [Good EXCEPT !.tensors = <<>>, !.size = 50],
           [Good EXCEPT !.tensors = <<>>, !.size = 44], [Good EXCEPT !.tensors = <<>>]}

(* The model.                                                               *)
ModelTensors ==
    FoldSet(LAMBDA e, out : Append(out, Tensor(e.name, e.dims, RawOf[e.dtype])), <<>>, ExpectedTensors)
But(name, dims, raw) ==
    FoldLeft(LAMBDA out, t : Append(out, IF t.name.name = name THEN Tensor(name, dims, raw) ELSE t),
             <<>>, ModelTensors)

Kv == Entry("gemma4.attention.head_count_kv",
            ArrayOf(I32, [i \in 1 .. NLayers |-> KvHeads(LayerKind(i - 1))]))
Pattern == Entry("gemma4.attention.sliding_window_pattern",
                 ArrayOf(BOOL, [i \in 1 .. NLayers |-> IF LayerKind(i - 1) = "sliding" THEN 1 ELSE 0]))
ModelMeta ==
    <<Entry("general.architecture", [raw |-> STRING8, val |-> Text("gemma4", 6)]), Kv, Pattern>>
    \o FoldSet(LAMBDA key, out : Append(out, Entry(key, Uint(ExpectedUint[key]))),
               <<>>, DOMAIN ExpectedUint)
    \o FoldSet(LAMBDA key, out : Append(out, Entry(key, [raw |-> F32, val |-> ExpectedF32[key]])),
               <<>>, DOMAIN ExpectedF32)

Model(metadata, tensors) == File(metadata, tensors, DefaultAlignment, 0)
Models ==
    {Model(ModelMeta, ModelTensors), Model(ModelMeta, <<>> \o Reverse(ModelTensors)),
     Model(Tail(ModelMeta), ModelTensors), Model(ModelMeta, Tail(ModelTensors)),
     Model([ModelMeta EXCEPT ![2].value.arrays[1].items = Tail(@)], ModelTensors),
     Model([ModelMeta EXCEPT ![3].value.arrays[1].items[6] = 1], ModelTensors),
     Model([ModelMeta EXCEPT ![4].value = Uint(77)], ModelTensors),
     Model([ModelMeta EXCEPT ![4].value.raw = I32], ModelTensors),
     Model(ModelMeta, But(OutputNorm, <<Hidden>>, 1)),
     Model(ModelMeta, But(<<0, "attn_k">>, <<SlidingKvHeads * SlidingHeadDim, Hidden>>, 2)),
     Model(ModelMeta, Append(ModelTensors, Tensor(<<5, "attn_v">>, <<64>>, 2)))}

MCFiles == Cut \cup Wrong \cup Others \cup Models
=============================================================================
