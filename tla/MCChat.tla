------------------------------ MODULE MCChat ------------------------------
EXTENDS Chat
MCText == [a |-> <<"a">>, header |-> <<"thought", "nl">>, headbody |-> <<"thought", "nl", "r">>,
           lead |-> <<Lead2>>, cont |-> <<Cont>>, call |-> <<"call:", "f", "{", "}">>]
MCOrdinary == DOMAIN MCText

(* The markers of the template and the parser; what the vocabulary has no   *)
(* piece for; merges that make each token above of its text, and one more,  *)
(* so that two tokens "a" in a row are not what their text encodes to.      *)
MCSpecials ==
    Control \cup {QUOTE, "<bos>", TurnOpen, "<tool_response|>", "<|tool>", "<tool|>", "<|think|>"}
MCSpelling == "cp2" :> <<"lead", "cont">> @@ FFFD :> <<"0xEF", "0xBF", "0xBD">>
MCMergeList ==
    << <<"a", "a", "aa">>, <<"{", "}", "braces">>, <<"call:", "f", "callf">>,
       <<"thought", "nl", "header">>, <<"callf", "braces", "call">>, <<"header", "r", "headbody">> >>
MCMergeTable ==
    [pair \in {<<m[1], m[2]>> : m \in ToSet(MCMergeList)} |->
       LET rank == CHOOSE n \in DOMAIN MCMergeList : pair = SubSeq(MCMergeList[n], 1, 2)
       IN <<rank, MCMergeList[rank][3]>>]

Msg(r, c) == [role |-> r, content |-> c, reasoning |-> <<>>, calls |-> <<>>,
              callId |-> NoId, toolName |-> NoName]
Result(id) == [Msg("tool", <<"w">>) EXCEPT !.callId = id]
Call(id, f) == [id |-> id, name |-> <<f>>, args |-> Obj(<<"k">> :> Num("7"))]
Called(text, calls) == [Msg("assistant", text) EXCEPT !.calls = calls, !.reasoning = << <<"r">> >>]
MCClient == {Msg("user", <<"a">>), Msg("system", <<"sp", "a">>), Result("id1"),
             Result("id2"), [Result("gone") EXCEPT !.toolName = <<"h">>],
             Msg("assistant", <<"a", "<|channel>", "b", "<channel|>", "nl">>),
             Called(<<>>, <<Call("id1", "f"), Call("id2", "g")>>)}
MCScripts ==
    {<<"a">>, <<"a", "lead", Eot>>, <<"a", "lead", "cont", Eot>>, <<"a", "a", Eot>>,
     <<ChannelOpen, "headbody", Eos>>,
     <<ChannelOpen, "headbody", ChannelClose, "a", Eot>>,
     <<ToolCallOpen, "call", "lead", Eot>>,
     <<ToolCallOpen, "call", ToolCallClose, ToolResponseOpen>>,
     <<"a", ToolCallOpen, "call", ToolCallClose, ToolResponseOpen>>,
     <<ChannelOpen, "header", "a", ChannelClose, ToolCallOpen, "call", ToolCallClose,
       ToolCallOpen, "call", ToolCallClose, ToolResponseOpen>>}
MCTools == <<[name |-> <<"f">>, description |-> <<"w">>, parameters |-> Null, response |-> <<>>]>>
MCIds == <<"id1", "id2", "id3", "id4", "id5", "id6", "id7", "id8", "id9">>
MCKeys == << <<"k">>, <<"m">> >>

(* Messages whose calls and results may carry no id.                       *)
MCAnonymous ==
    {Msg("user", <<"a">>), Result(NoId), Result("id1"),
     Called(<<>>, <<Call(NoId, "f"), Call("id1", "g")>>)}

MCScalars ==
    <<Null, Str(<<>>), Str(<<"w", ",", "}">>), Str(<<"sp", ":", "w">>), Str(<<"7">>), Str(<<"true">>),
      Num("7"), Bool(TRUE), Bool(FALSE), Obj(<<>>), Arr(<<>>)>>
Pairs == FlattenSeq([i \in DOMAIN MCScalars |->
           [j \in DOMAIN MCScalars |-> <<MCScalars[i], MCScalars[j]>>]])
Two(p) == Obj(MCKeys[1] :> p[1] @@ MCKeys[2] :> p[2])
MCArgObjects ==
    <<Obj(<<>>)>> \o [n \in DOMAIN Pairs |-> Two(Pairs[n])]
    \o [n \in DOMAIN Pairs |-> Two(<<Arr(Pairs[n]), Two(Pairs[n])>>)]

(* Tool declarations: every field of a schema there, empty or missing.     *)
MCCapital == "string" :> "STRING" @@ "array" :> "ARRAY" @@ "object" :> "OBJECT"
             @@ "None" :> "NONE" @@ "true" :> "TRUE"
MCKeyOrder == << <<"description">>, <<"enum">>, <<"items">>, <<"k">>, <<"m">>, <<"nullable">>,
                 <<"properties">>, <<"required">>, <<"type">> >>
Cross(as, bs) ==
    FlattenSeq([i \in DOMAIN as |-> [j \in DOMAIN bs |-> as[i] @@ bs[j]]])
With(key, values) == <<<<>>>> \o [i \in DOMAIN values |-> <<key>> :> values[i]]
Types(types) == [i \in DOMAIN types |-> <<"type">> :> Str(<<types[i]>>)]
Plain == Obj(<<"type">> :> Str(<<"string">>))
Names(names) == Arr([i \in DOMAIN names |-> Str(<<names[i]>>)])

Descriptions == With("description", <<Str(<<>>), Str(<<"w">>)>>)
Heads == Descriptions \o With("nullable", <<Bool(TRUE), Bool(FALSE)>>)
         \o <<Descriptions[3] @@ <<"nullable">> :> Bool(TRUE)>>
Lists == With("required", <<Names(<<>>), Names(<<"k", "m">>)>>)
Nested == With("properties", <<Null, Obj(<<>>), Obj(<<"k">> :> Plain),
                               Obj(<<"m">> :> Plain @@ <<"k">> :> Bool(TRUE))>>)
MCItems ==
    Cross(With("properties", <<Null, Bool(TRUE), Obj(<<"k">> :> Plain)>>), Lists)
    \o Cross(With("type", <<Null, Str(<<"string">>), Names(<<"string", "array">>)>>),
             With("k", <<Num("7"), Plain>>))
Strings == Cross(Types(<<"string">>),
                 With("enum", <<Arr(<<>>), Names(<<"k", "w">>), Obj(<<"k">> :> Null)>>))
Arrays == Cross(Types(<<"array">>),
                With("items", <<Null>> \o [i \in DOMAIN MCItems |-> Obj(MCItems[i])]))
Objects == Cross(Types(<<"object">>),
                 Cross(Cross(Nested, Lists), With("k", <<Bool(TRUE), Plain>>)))
Others == With("type", <<Null, Bool(TRUE), Str(<<"k">>)>>)
Objs(maps) == [i \in DOMAIN maps |-> Obj(maps[i])]
Schemas == Objs(Cross(Heads, Strings \o Objects \o Others) \o Arrays)

Tool(parameters, response) ==
    [name |-> <<"f">>, description |-> <<"w">>, parameters |-> parameters, response |-> response]
MCDeclarations ==
    [i \in DOMAIN Schemas |->
       Tool(Obj(<<"properties">> :> Obj(<<"k">> :> Schemas[i] @@ <<"m">> :> Plain)), <<>>)]
    \o [i \in 1 .. Len(Nested) * Len(Lists) * 3 |->
         Tool(Objs(Cross(Cross(Nested, Lists), With("type", <<Null, Str(<<"object">>)>>)))[i], <<>>)]
    \o <<Tool(Obj(<<>>), <<>>), Tool(Null, <<Null>>)>>
    \o [i \in 1 .. Len(Descriptions) * 5 |->
         Tool(Null, <<Objs(Cross(Descriptions, Others \o Types(<<"object">>)))[i]>>)]
=============================================================================
