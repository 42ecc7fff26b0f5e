----------------------------- MODULE ToolSchema -----------------------------
(***************************************************************************)
(* sg-tokenizer/src/template.rs: how a tool declaration is written into the*)
(* system turn.  A declaration has a name, a description, its parameters   *)
(* (a JSON schema) and at most one response schema.                        *)
(***************************************************************************)
EXTENDS ToolArgs

StandardKeys ==
    {<<"description">>, <<"type">>, <<"properties">>, <<"required">>, <<"nullable">>}

Truthy(v) ==
    CASE v[1] = "null" -> FALSE
      [] v[1] = "bool" -> v[2]
      [] v[1] = "num" -> v[2] # "0"
      [] OTHER -> DOMAIN v[2] # {}

(* Value::get: a member of an object; nothing else has members.            *)
Has(v, key) == v[1] = "obj" /\ key \in DOMAIN v[2]
HasTrue(v, key) == Has(v, key) /\ Truthy(v[2][key])
HasKind(v, key, kind) == HasTrue(v, key) /\ v[2][key][1] = kind

Upper(v) ==
    LET written == IF v[1] = "str" THEN v[2] ELSE FormatArgument(v, TRUE)
    IN [i \in DOMAIN written |->
          IF written[i] \in DOMAIN Capital THEN Capital[written[i]] ELSE written[i]]

TypeName(v) == IF Has(v, <<"type">>) THEN Upper(v[2][<<"type">>]) ELSE <<>>

InQuotes(written) == <<QUOTE>> \o written \o <<QUOTE>>

QuotedList(items) ==
    CommaList([i \in DOMAIN items |->
      InQuotes(IF items[i][1] = "str" THEN items[i][2] ELSE FormatArgument(items[i], TRUE))])

-----------------------------------------------------------------------------
(* The fields of a schema, each a sequence of at most one text.            *)

Described(v) ==
    IF HasKind(v, <<"description">>, "str")
    THEN <<<<"description", ":">> \o InQuotes(v[2][<<"description">>][2])>> ELSE <<>>

Required(v) ==
    IF HasKind(v, <<"required">>, "arr")
    THEN <<<<"required", ":", "[">> \o QuotedList(v[2][<<"required">>][2]) \o <<"]">>>> ELSE <<>>

Enumerated(v, type) ==
    IF type = <<"STRING">> /\ HasTrue(v, <<"enum">>)
    THEN <<<<"enum", ":">> \o FormatArgument(v[2][<<"enum">>], TRUE)>> ELSE <<>>

Nullable(v) == IF HasTrue(v, <<"nullable">>) THEN << <<"nullable", ":", "true">> >> ELSE <<>>

RECURSIVE FormatParameters(_, _)

(* The schema of an array's items: null members are left out.              *)
ItemField(key, v) ==
    LET Types(types) == Arr([i \in DOMAIN types |-> Str(Upper(types[i]))])
    IN key \o <<":">> \o
       (CASE key = <<"properties">> ->
               <<"{">> \o (IF v[1] = "obj" THEN FormatParameters(v[2], FALSE) ELSE <<>>) \o <<"}">>
          [] key = <<"required">> ->
               <<"[">> \o (IF v[1] = "arr" THEN QuotedList(v[2]) ELSE <<>>) \o <<"]">>
          [] key = <<"type">> ->
               FormatArgument(CASE v[1] = "str" -> Str(Upper(v))
                                [] v[1] = "arr" -> Types(v[2]) [] OTHER -> v, TRUE)
          [] OTHER -> FormatArgument(v, TRUE))

ItemsOf(v, type) ==
    IF type = <<"ARRAY">> /\ HasKind(v, <<"items">>, "obj")
    THEN LET items == v[2][<<"items">>][2]
             keys == SelectSeq(DictSort(items), LAMBDA k : items[k][1] # "null")
         IN <<<<"items", ":", "{">>
              \o CommaList([i \in DOMAIN keys |-> ItemField(keys[i], items[keys[i]])])
              \o <<"}">>>>
    ELSE <<>>

(* An object that lists no properties is taken for its own property list,  *)
(* without the standard keys.                                              *)
Properties(v, type) ==
    IF type = <<"OBJECT">>
    THEN <<<<"properties", ":", "{">>
           \o (LET own == Has(v, <<"properties">>) /\ v[2][<<"properties">>][1] = "obj"
               IN FormatParameters(IF own THEN v[2][<<"properties">>][2] ELSE v[2], ~own))
           \o <<"}">>>>
         \o Required(v)
    ELSE <<>>

Fields(v, type) ==
    Described(v) \o Enumerated(v, type) \o ItemsOf(v, type) \o Nullable(v) \o Properties(v, type)
    \o <<<<"type", ":">> \o InQuotes(type)>>
FormatParameter(v) == CommaList(Fields(v, TypeName(v)))

FormatParameters(props, filterKeys) ==
    LET keys == SelectSeq(DictSort(props), LAMBDA k : ~filterKeys \/ k \notin StandardKeys)
    IN CommaList([i \in DOMAIN keys |->
         keys[i] \o <<":", "{">> \o FormatParameter(props[keys[i]]) \o <<"}">>])

(* The parameters: the brace is closed only behind a type.                 *)
Parameters(params) ==
    IF ~Truthy(params) THEN <<>>
    ELSE <<",", "parameters", ":", "{">>
         \o (IF HasTrue(params, <<"properties">>)
             THEN <<"properties", ":", "{">>
                  \o (IF params[2][<<"properties">>][1] = "obj"
                      THEN FormatParameters(params[2][<<"properties">>][2], FALSE) ELSE <<>>)
                  \o <<"}", ",">>
             ELSE <<>>)
         \o (IF Required(params) = <<>> THEN <<>> ELSE Required(params)[1] \o <<",">>)
         \o (IF HasTrue(params, <<"type">>)
             THEN <<"type", ":">> \o InQuotes(TypeName(params)) \o <<"}">> ELSE <<>>)

(* The response: its brace is closed only when it is an object.            *)
Response(resp) ==
    <<",", "response", ":", "{">>
    \o (IF Described(resp) = <<>> THEN <<>> ELSE Described(resp)[1] \o <<",">>)
    \o (IF TypeName(resp) = <<"OBJECT">>
        THEN <<"type", ":">> \o InQuotes(<<"OBJECT">>) \o <<"}">> ELSE <<>>)

RenderDeclaration(tool) ==
    <<"declaration:">> \o tool.name \o <<"{", "description", ":">> \o InQuotes(tool.description)
    \o Parameters(tool.parameters)
    \o (IF tool.response = <<>> THEN <<>> ELSE Response(tool.response[1]))
    \o <<"}">>
=============================================================================
