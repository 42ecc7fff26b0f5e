---------------------------- MODULE MCCompletion ----------------------------
(* Jobs for TLC: short texts over two vocabularies, files with one thing    *)
(* wrong, vectors of logits under every kind of sampling, replies of every  *)
(* end, and evaluations that share the cached graphs.                       *)
EXTENDS Completion

MCHex == [h \in {"20", "61", "62", "3C", "3c", "C3", "E2", "96"} |->
            CASE h = "20" -> " " [] h = "61" -> "a" [] h = "62" -> "b" [] h \in {"3C", "3c"} -> "<"
              [] h = "C3" -> Lead2 [] h = "E2" -> Lead3 [] OTHER -> Cont]

BytePiece(h) == <<"<0x", h, ">">>
ByteNames == <<"20", "61", "62", "3C", "C3", "E2", "96">>
Heads == <<Named.pad, Named.eos, Named.bos, Named.unk, <<"<", "a">>, EotPiece, <<"<", "a", "b">>>>
HeadTypes == <<3, 3, 3, 3, 3, 3, 4>>
Words == <<<<"a">>, <<"b">>, <<"<">>, <<Block>>, <<"b", "a">>, <<"a", "b">>, <<Block, "a">>,
           <<"a", "a">>, <<"a", "b", "a">>, <<"b", "a", "b">>, <<"turn|>">>, <<"eos>">>>>

Typed(type, value) == [is |-> type, of |-> value]
Metadata(pieces, types, merges) ==
    [model |-> Typed("str", "gemma4"), add_bos |-> Typed("bool", FALSE),
     tokens |-> Typed("strs", pieces), token_type |-> Typed("i32s", types),
     scores |-> Typed("f32s", [i \in DOMAIN pieces |-> 0]), merges |-> Typed("strs", merges),
     pad |-> Typed("uint", 0), eos |-> Typed("uint", 1), bos |-> Typed("uint", 2),
     unk |-> Typed("uint", 3)]

Pieces == Heads \o [i \in DOMAIN ByteNames |-> BytePiece(ByteNames[i])] \o Words
Types == HeadTypes \o [i \in DOMAIN ByteNames |-> 6] \o [i \in DOMAIN Words |-> 1]
M(left, right) == left \o <<Space>> \o right
MergeList == <<M(<<"b">>, <<"a">>), M(<<"a">>, <<"b">>), M(<<Block>>, <<"a">>), M(<<"a">>, <<"a">>),
               M(<<"a", "b">>, <<"a">>), M(<<"a">>, <<"b", "a">>), M(<<"b", "a">>, <<"b">>)>>
Good == Metadata(Pieces, Types, MergeList)
Other == Metadata(Pieces, Types, <<>> \o Reverse(MergeList) \o <<M(<<"b">>, <<"a">>)>>)

Without(key) == [k \in DOMAIN Good \ {key} |-> Good[k]]
With(key, type, value) == [Good EXCEPT ![key] = Typed(type, value)]
Plain == [k \in DOMAIN Good \cup {"add_prefix"} |->
            IF k = "add_prefix" THEN Typed("bool", TRUE) ELSE Good[k]]

MCFiles ==
    <<Good, Other, Without("add_bos"), With("add_bos", "bool", TRUE), With("add_bos", "uint", 0),
      Plain, Without("model"), With("model", "str", "llama"), Without("tokens"), Without("scores"),
      Without("token_type"), Without("merges"), Without("bos"), Without("eos"), Without("unk"),
      With("scores", "f32s", <<0>>), With("token_type", "i32s", [Types EXCEPT ![9] = 7]),
      With("tokens", "strs", [Pieces EXCEPT ![20] = <<"a">>]),
      With("tokens", "strs", [Pieces EXCEPT ![8] = <<"<0x", "zz", ">">>]),
      With("tokens", "strs", [Pieces EXCEPT ![8] = BytePiece("3c")]),
      With("token_type", "i32s", [Types EXCEPT ![8] = 1]),
      With("merges", "strs", <<<<"a", "b">>>>),
      With("merges", "strs", <<M(<<"a">>, <<Space, "b">>)>>),
      With("merges", "strs", <<M(<<"b">>, <<"b">>)>>),
      With("eos", "uint", 99), With("eos", "uint", 2),
      With("tokens", "strs", [Pieces EXCEPT ![6] = <<"<", "other>">>])>>

-----------------------------------------------------------------------------

NoJob == [kind |-> "complete", file |-> 1, text |-> <<"a">>, specials |-> "plain", prompt |-> <<>>,
          resident |-> <<>>, params |-> Params(0, 0, 1, 1), maxTokens |-> 0,
          logits |-> {[id \in 0 .. 1 |-> id]}, calls |-> <<>>]

(* Encoding: what is generated after it does not matter.                    *)
Encoding(files, texts, modes) ==
    {[NoJob EXCEPT !.file = f, !.text = t, !.specials = m] : f \in files, t \in texts, m \in modes}

Texts(letters, n) == UNION {[1 .. k -> letters] : k \in 1 .. n}
Encodings ==
    Encoding(DOMAIN MCFiles, {<<"a">>}, {"plain"})
    \cup Encoding({1, 2}, Texts({Space, "a", "b"}, 4), {"plain"})
    \cup Encoding({1}, Texts({"<", "a", "b"}, 4), {"plain", "match"})
    \cup Encoding({1, 2}, {<<"b", "a", "b", "a", "b">>, <<"a", "a", "b", "a", "b", "a">>,
                          <<"a", "cp2", "cp3", Space>>, <<Block, "a", "cp2", "b">>, <<"cp3", "<", "a", "cp2">>,
                          <<"<", "turn|>", "a", "<", "eos>">>}, {"plain", "match"})

(* Sampling: one token drawn from every vector in every way.                *)
Vector(values) == [id \in 0 .. Len(values) - 1 |-> values[id + 1]]
Vectors ==
    {Vector(<<0, 0, 0, 0, 0, 0>>), Vector(<<0, 3, 1, 3, 0, 2>>), Vector(<<1, 1, 0, 1, 1, 0>>),
     Vector(<<0, 0, 0, 0, 0, 5>>), Vector(<<4, 4, 4, 2, 3, 3>>), Vector(<<3, 0, 8, 1, 5, 2, 7, 6, 4>>)}
Ways == {Params(b, k, p[1], p[2]) : b \in {0, 1, 2, 3}, k \in {0, 1, 2, 3},
                                    p \in {<<0, 1>>, <<1, 2>>, <<9, 10>>, <<1, 1>>}}
Samplings == {[NoJob EXCEPT !.params = w, !.logits = {v}, !.maxTokens = 1] : w \in Ways, v \in Vectors}

(* Replies, on an empty model and on one that holds a conversation.         *)
Replies ==
    {[NoJob EXCEPT !.text = <<"a", "<", "b">>, !.resident = r, !.maxTokens = n,
                   !.params = Params(2, 2, 1, 1),
                   !.logits = {Vector(<<0, 2, 3, 0, 0, 1>>), Vector(<<0, 0, 2, 0, 0, 3>>)}]
       : r \in {<<>>, <<7, 2>>}, n \in 0 .. 3}

(* Evaluations: one call, or two with what the first left behind.           *)
Evaluations ==
    {[NoJob EXCEPT !.kind = "score", !.text = <<>>, !.calls = c]
       : c \in {<<[n |-> n, kind |-> k], [n |-> m, kind |-> "all"]>>
                 : n \in 1 .. 9, m \in 1 .. 9, k \in {"all", "plain"}}}

MCJobs == Encodings \cup Samplings \cup Replies \cup Evaluations
=============================================================================
