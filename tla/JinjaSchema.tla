---------------------------- MODULE JinjaSchema ----------------------------
(***************************************************************************)
(* The macros format_parameters and format_function_declaration of the chat*)
(* template, as jinja runs them: one pass that writes as it goes and keeps *)
(* whether a comma is due.  Values are those of ToolArgs; format_argument  *)
(* is shared with it.                                                      *)
(***************************************************************************)
EXTENDS ToolArgs

(* value['key']: undefined where there is none, and undefined is false and *)
(* empty text.                                                             *)
Undefined == <<"undefined", "">>
Sub(v, key) == IF v[1] = "obj" /\ <<key>> \in DOMAIN v[2] THEN v[2][<<key>>] ELSE Undefined

IsTrue(v) ==
    \/ v[1] = "bool" /\ v[2]
    \/ v[1] = "num" /\ v[2] # "0"
    \/ v[1] \in {"str", "arr", "obj"} /\ DOMAIN v[2] # {}

(* {{ value }}, and its upper filter.                                      *)
AsText(v) ==
    CASE v[1] = "undefined" -> <<>>
      [] v[1] = "str" -> v[2]
      [] OTHER -> FormatArgument(v, TRUE)
UpperText(v) ==
    FoldLeft(LAMBDA s, c : Append(s, IF c \in DOMAIN Capital THEN Capital[c] ELSE c), <<>>, AsText(v))

(* The text written so far, and add_comma or found_first.                  *)
Blank == [out |-> <<>>, comma |-> FALSE]
Put(s, text) == [s EXCEPT !.out = @ \o text]
Comma(s) == IF s.comma THEN Put(s, <<",">>) ELSE [s EXCEPT !.comma = TRUE]
Field(s, key, text) == Put(Comma(s), <<key, ":">> \o text)

(* {%- for item in list -%} with loop.last: the texts of the items.        *)
Listed(texts) ==
    FoldLeft(LAMBDA s, i : s \o texts[i] \o (IF i < Len(texts) THEN <<",">> ELSE <<>>),
             <<>>, [i \in DOMAIN texts |-> i])
QuotedItems(v) ==
    <<"[">> \o Listed([i \in DOMAIN v[2] |-> <<QUOTE>> \o AsText(v[2][i]) \o <<QUOTE>>]) \o <<"]">>

RECURSIVE JinjaParameters(_, _)

(* The loop over value['items'], which skips none.                         *)
JinjaItems(items) ==
    LET Body(key, v) ==
          IF key = <<"properties">>
          THEN <<"{">> \o (IF v[1] = "obj" THEN JinjaParameters(v[2], FALSE) ELSE <<>>) \o <<"}">>
          ELSE IF key = <<"required">> THEN QuotedItems(v)
          ELSE IF key # <<"type">> THEN FormatArgument(v, TRUE)
          ELSE IF v[1] = "str" THEN <<QUOTE>> \o UpperText(v) \o <<QUOTE>>
          ELSE <<"[">> \o Listed([i \in DOMAIN v[2] |-> <<QUOTE>> \o UpperText(v[2][i]) \o <<QUOTE>>])
               \o <<"]">>
        Step(s, key) ==
          IF items[key][1] = "null" THEN s
          ELSE Put(Comma(s), key \o <<":">> \o Body(key, items[key]))
    IN <<"{">> \o FoldLeft(Step, Blank, DictSort(items)).out \o <<"}">>

(* What stands between the braces of one property, field by field.         *)
PutDescription(v, s) ==
    IF IsTrue(Sub(v, "description"))
    THEN Field(s, "description", <<QUOTE>> \o AsText(Sub(v, "description")) \o <<QUOTE>>) ELSE s
PutListing(v, type, s) ==
    IF type = <<"STRING">> /\ IsTrue(Sub(v, "enum"))
    THEN Field(s, "enum", FormatArgument(Sub(v, "enum"), TRUE))
    ELSE IF type = <<"ARRAY">> /\ Sub(v, "items")[1] = "obj" /\ IsTrue(Sub(v, "items"))
    THEN Field(s, "items", JinjaItems(Sub(v, "items")[2])) ELSE s
PutNullable(v, s) ==
    IF IsTrue(Sub(v, "nullable")) THEN Field(s, "nullable", <<"true">>) ELSE s
PutNested(v, type, s) ==
    IF type # <<"OBJECT">> THEN s
    ELSE LET own == Sub(v, "properties")[1] = "obj"
             text == JinjaParameters(IF own THEN Sub(v, "properties")[2] ELSE v[2], ~own)
         IN Field(s, "properties", <<"{">> \o text \o <<"}">>)
PutRequired(v, type, s) ==
    IF type = <<"OBJECT">> /\ IsTrue(Sub(v, "required"))
    THEN Field(s, "required", QuotedItems(Sub(v, "required"))) ELSE s
PutFields(v, type) ==
    Field(PutRequired(v, type, PutNested(v, type, PutNullable(v,
              PutListing(v, type, PutDescription(v, Blank))))),
          "type", <<QUOTE>> \o type \o <<QUOTE>>)
JinjaProperty(v) == PutFields(v, UpperText(Sub(v, "type"))).out

JinjaParameters(properties, filterKeys) ==
    LET standard == {"description", "type", "properties", "required", "nullable"}
        Step(s, key) ==
          IF filterKeys /\ \E k \in standard : key = <<k>> THEN s
          ELSE Put(Comma(s), key \o <<":", "{">> \o JinjaProperty(properties[key]) \o <<"}">>)
    IN FoldLeft(Step, Blank, DictSort(properties)).out

(* format_function_declaration, part by part.                              *)
JinjaToolParameters(params) ==
    <<",", "parameters", ":", "{">>
    \o (IF IsTrue(Sub(params, "properties"))
        THEN <<"properties", ":", "{">> \o JinjaParameters(Sub(params, "properties")[2], FALSE)
             \o <<"}", ",">>
        ELSE <<>>)
    \o (IF IsTrue(Sub(params, "required"))
        THEN <<"required", ":">> \o QuotedItems(Sub(params, "required")) \o <<",">> ELSE <<>>)
    \o (IF IsTrue(Sub(params, "type"))
        THEN <<"type", ":", QUOTE>> \o UpperText(Sub(params, "type")) \o <<QUOTE, "}">> ELSE <<>>)
JinjaToolResponse(resp) ==
    <<",", "response", ":", "{">>
    \o (IF IsTrue(Sub(resp, "description"))
        THEN <<"description", ":", QUOTE>> \o AsText(Sub(resp, "description")) \o <<QUOTE, ",">>
        ELSE <<>>)
    \o (IF UpperText(Sub(resp, "type")) = <<"OBJECT">>
        THEN <<"type", ":", QUOTE, "OBJECT", QUOTE, "}">> ELSE <<>>)
JinjaDeclaration(tool) ==
    <<"declaration:">> \o tool.name
    \o <<"{", "description", ":", QUOTE>> \o tool.description \o <<QUOTE>>
    \o (IF IsTrue(tool.parameters) THEN JinjaToolParameters(tool.parameters) ELSE <<>>)
    \o (IF tool.response = <<>> THEN <<>> ELSE JinjaToolResponse(tool.response[1]))
    \o <<"}">>
=============================================================================
