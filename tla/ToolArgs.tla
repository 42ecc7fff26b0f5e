----------------------------- MODULE ToolArgs -----------------------------
(***************************************************************************)
(* Gemma's argument syntax: what template.rs writes for a tool call and    *)
(* what the recursive-descent parser of toolcall.rs reads back.            *)
(*                                                                         *)
(* A text is a sequence of symbols, one per punctuation mark, quote mark,  *)
(* word or white space.  A JSON value is a pair of its kind and its        *)
(* content; an object is a function from keys (texts) to values.           *)
(***************************************************************************)
EXTENDS Naturals, Sequences, SequencesExt

CONSTANTS
    Space,      \* the white-space symbols
    Number,     \* the symbols that parse as i64 or f64
    KeyOrder,   \* the keys in the order of jinja's dictsort
    Capital     \* to_uppercase of the symbols it changes

QUOTE == "quote"           \* the <|"|> token strings are wrapped in

Null == <<"null", "None">>
Str(text) == <<"str", text>>
Num(n) == <<"num", n>>
Bool(b) == <<"bool", b>>
Arr(items) == <<"arr", items>>
Obj(map) == <<"obj", map>>

(* Rust's trim: no white space at either end.                              *)
Trim(text) ==
    LET ink == {i \in DOMAIN text : text[i] \notin Space}
    IN IF ink = {} THEN <<>>
       ELSE SubSeq(text, CHOOSE i \in ink : \A j \in ink : i <= j,
                         CHOOSE i \in ink : \A j \in ink : j <= i)

(* Texts with a comma between each two.                                    *)
CommaList(texts) ==
    FlattenSeq([i \in DOMAIN texts |-> IF i = 1 THEN texts[i] ELSE <<",">> \o texts[i]])

DictSort(map) == SelectSeq(KeyOrder, LAMBDA k : k \in DOMAIN map)

(* format_argument: keys are quoted only when escapeKeys.                  *)
RECURSIVE FormatArgument(_, _)
FormatArgument(value, escapeKeys) ==
    LET content == value[2]
        Entry(k) == (IF escapeKeys THEN <<QUOTE>> \o k \o <<QUOTE>> ELSE k)
                    \o <<":">> \o FormatArgument(content[k], escapeKeys)
        keys == DictSort(content)
    IN CASE value[1] = "str" -> <<QUOTE>> \o content \o <<QUOTE>>
         [] value[1] = "bool" -> <<IF content THEN "true" ELSE "false">>
         [] value[1] = "obj" ->
              <<"{">> \o CommaList([i \in DOMAIN keys |-> Entry(keys[i])]) \o <<"}">>
         [] value[1] = "arr" ->
              <<"[">> \o CommaList([i \in DOMAIN content |->
                                     FormatArgument(content[i], escapeKeys)]) \o <<"]">>
         [] OTHER -> <<content>>

(* One call of an assistant message: the arguments are an object, or a     *)
(* string that was serialized by the caller.                               *)
FormatCall(name, args) ==
    <<"call:">> \o name
    \o (CASE args[1] = "obj" -> FormatArgument(args, FALSE)
          [] args[1] = "str" -> <<"{">> \o args[2] \o <<"}">>
          [] OTHER -> <<"{", "}">>)

-----------------------------------------------------------------------------
(* ArgParser: an input and a position in it.  Every rule returns whether   *)
(* it succeeded, what it read and the position behind it.                  *)

Read(value, pos) == [ok |-> TRUE, value |-> value, pos |-> pos]
Failed == [ok |-> FALSE, value |-> Null, pos |-> 0]

At(input, pos, symbol) == pos <= Len(input) /\ input[pos] = symbol

(* The first position from pos on that holds one of the symbols, or the    *)
(* one behind the end.                                                     *)
NextOf(input, pos, symbols) ==
    CHOOSE e \in pos .. Len(input) + 1 :
        /\ e <= Len(input) => input[e] \in symbols
        /\ \A i \in pos .. e - 1 : input[i] \notin symbols

SkipWs(input, pos) ==
    CHOOSE e \in pos .. Len(input) + 1 :
        /\ e <= Len(input) => input[e] \notin Space
        /\ \A i \in pos .. e - 1 : input[i] \in Space

(* <|"|>...<|"|>: there is no escaping, the next quote mark closes.        *)
QuotedUpTo(input, pos, end) ==
    IF end > Len(input) THEN Failed ELSE Read(SubSeq(input, pos + 1, end - 1), end + 1)
Quoted(input, pos) == QuotedUpTo(input, pos, NextOf(input, pos + 1, {QUOTE}))

Key(input, pos) ==
    LET end == NextOf(input, pos, {":", ",", "{", "}"})
        key == Trim(SubSeq(input, pos, end - 1))
    IN IF At(input, pos, QUOTE) THEN Quoted(input, pos)
       ELSE IF end > Len(input) \/ key = <<>> THEN Failed
       ELSE Read(key, end)

(* Mutant: Python's None is not known.                                     *)
ScalarJsonOnly(word) ==
    CASE word = <<"true">> -> Bool(TRUE)
      [] word = <<"false">> -> Bool(FALSE)
      [] word = <<"null">> -> Null
      [] Len(word) = 1 /\ word[1] \in Number -> Num(word[1])
      [] OTHER -> Str(word)

(* A bare word: a literal, a number, or else a string.                     *)
Scalar(word) ==
    CASE word = <<"true">> -> Bool(TRUE)
      [] word = <<"false">> -> Bool(FALSE)
      [] word \in {<<"None">>, <<"null">>} -> Null
      [] Len(word) = 1 /\ word[1] \in Number -> Num(word[1])
      [] OTHER -> Str(word)

Bare(input, pos) ==
    LET end == NextOf(input, pos, {",", "}", "]"})
        word == Trim(SubSeq(input, pos, end - 1))
    IN IF word = <<>> THEN Failed ELSE Read(Scalar(word), end)

RECURSIVE Members(_, _, _), Items(_, _, _), Value(_, _)

Object(input, pos) ==
    LET first == SkipWs(input, pos + 1)
    IN IF ~At(input, pos, "{") THEN Failed
       ELSE IF At(input, first, "}") THEN Read(Obj(<<>>), first + 1)
       ELSE Members(input, first, <<>>)

(* The loop over the entries: map holds those read so far, and a later     *)
(* entry of a key replaces an earlier one (Map::insert).                   *)
AfterMember(input, map, next) ==
    IF At(input, next, ",") THEN Members(input, next + 1, map)
    ELSE IF At(input, next, "}") THEN Read(Obj(map), next + 1)
    ELSE Failed
AfterKey(input, map, key, value) ==
    IF value.ok THEN AfterMember(input, (key :> value.value) @@ map, SkipWs(input, value.pos))
    ELSE Failed
Member(input, map, key) ==
    IF key.ok /\ At(input, SkipWs(input, key.pos), ":")
    THEN AfterKey(input, map, key.value, Value(input, SkipWs(input, key.pos) + 1))
    ELSE Failed
Members(input, pos, map) == Member(input, map, Key(input, SkipWs(input, pos)))

(* The loop over the items of an array.                                    *)
AfterItems(input, items, next) ==
    IF At(input, next, ",") THEN Items(input, next + 1, items)
    ELSE IF At(input, next, "]") THEN Read(Arr(items), next + 1)
    ELSE Failed
AfterItem(input, items, item) ==
    IF item.ok THEN AfterItems(input, Append(items, item.value), SkipWs(input, item.pos))
    ELSE Failed
Items(input, pos, items) == AfterItem(input, items, Value(input, pos))

AsString(text) == IF text.ok THEN Read(Str(text.value), text.pos) ELSE Failed
ValueAt(input, pos) ==
    LET first == SkipWs(input, pos + 1)
    IN CASE At(input, pos, QUOTE) -> AsString(Quoted(input, pos))
         [] At(input, pos, "{") -> Object(input, pos)
         [] At(input, pos, "[") ->
              IF At(input, first, "]") THEN Read(Arr(<<>>), first + 1)
              ELSE Items(input, pos + 1, <<>>)
         [] OTHER -> Bare(input, pos)
Value(input, pos) == ValueAt(input, SkipWs(input, pos))

(* try_parse_tool_call: call:NAME{ARGS} and nothing but white space after. *)
WholeCall(name, input, args) ==
    IF ~args.ok THEN Failed
    ELSE IF SkipWs(input, args.pos) <= Len(input) THEN Failed
    ELSE Read(<<name, args.value>>, args.pos)
NamedCall(name, input) ==
    IF name = <<>> THEN Failed ELSE WholeCall(name, input, Object(input, 1))
BracedCall(rest, brace) ==
    IF brace > Len(rest) THEN Failed
    ELSE NamedCall(Trim(SubSeq(rest, 1, brace - 1)), SubSeq(rest, brace, Len(rest)))
TryParseToolCall(raw) ==
    IF raw = <<>> \/ raw[1] # "call:" THEN Failed
    ELSE BracedCall(Tail(raw), NextOf(raw, 2, {"{"}) - 1)
=============================================================================
