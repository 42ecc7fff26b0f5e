--------------------------- MODULE ChatTemplate ---------------------------
(***************************************************************************)
(* sg-tokenizer/src/template.rs: the prompt of a conversation.             *)
(*                                                                         *)
(* A prompt is a sequence of symbols: the markers of the template and the  *)
(* symbols of the texts between them.  A message has a role, a content, an *)
(* optional reasoning (a sequence of at most one text), its tool calls,    *)
(* and, for a tool result, the id of the call it answers and the name of   *)
(* the function.                                                           *)
(***************************************************************************)
EXTENDS ToolSchema

NoId == "no id"
NoName == <<>>

TurnOpen == "<|turn>"
TurnClose == "<turn|>"
Thought == <<"<|channel>", "thought", "nl">>

(* The index of the last message with a role, 0 if there is none.          *)
LastOf(msgs, roles) ==
    LET at == {i \in DOMAIN msgs : msgs[i].role \in roles}
    IN IF at = {} THEN 0 ELSE CHOOSE i \in at : \A j \in at : j <= i

NotTool == {"system", "user", "assistant"}

(* strip_thinking: a symbol stays when no <|channel> is open before it.    *)
StripThinking(text) ==
    LET Hidden(i) == \/ text[i] = "<channel|>"
                     \/ \E j \in 1 .. i : /\ text[j] = "<|channel>"
                                          /\ \A k \in j .. i : text[k] # "<channel|>"
        kept == SelectSeq([i \in DOMAIN text |-> i], LAMBDA i : ~Hidden(i))
    IN Trim([n \in DOMAIN kept |-> text[kept[n]]])

FirstIsSystem(messages) == messages # <<>> /\ messages[1].role = "system"

SystemTurn(messages, tools, opts) ==
    IF opts.thinking \/ tools # <<>> \/ FirstIsSystem(messages)
    THEN <<TurnOpen, "system", "nl">>
         \o (IF opts.thinking THEN <<"<|think|>", "nl">> ELSE <<>>)
         \o (IF FirstIsSystem(messages) THEN Trim(messages[1].content) ELSE <<>>)
         \o FlattenSeq([i \in DOMAIN tools |->
              <<"<|tool>">> \o Trim(RenderDeclaration(tools[i])) \o <<"<tool|>">>])
         \o <<TurnClose, "nl">>
    ELSE <<>>

(* Mutant: tool results in between end the turn.                           *)
ContinuesAfterAssistantOnly(msgs, i) ==
    msgs[i].role = "assistant" /\ i > 1 /\ msgs[i - 1].role = "assistant"

(* An assistant message after another one goes on in its turn.             *)
ContinuesTurn(msgs, i) ==
    LET p == LastOf(SubSeq(msgs, 1, i - 1), NotTool)
    IN msgs[i].role = "assistant" /\ p > 0 /\ msgs[p].role = "assistant"

RoleName(role) == IF role = "assistant" THEN "model" ELSE role

(* Mutant: the newline the template ends a thought with is left out.       *)
RenderReasoningBare(msgs, i) ==
    LET m == msgs[i]
    IN IF m.reasoning # <<>> /\ i > LastOf(msgs, {"user"}) /\ m.calls # <<>>
       THEN Thought \o m.reasoning[1] \o <<"<channel|>">>
       ELSE <<>>

RenderReasoning(msgs, i) ==
    LET m == msgs[i]
    IN IF m.reasoning # <<>> /\ i > LastOf(msgs, {"user"}) /\ m.calls # <<>>
       THEN Thought \o m.reasoning[1] \o <<"nl", "<channel|>">>
       ELSE <<>>

RenderCall(call) ==
    <<"<|tool_call>">> \o FormatCall(call.name, call.args) \o <<"<tool_call|>">>

(* The tool messages that directly follow message i.                       *)
Results(msgs, i) ==
    LET stop == NextOf([k \in DOMAIN msgs |-> msgs[k].role], i + 1, NotTool)
    IN SubSeq(msgs, i + 1, stop - 1)

(* The name of the call with the result's id, or the name it carries.      *)
ResultName(calls, result) ==
    LET match == {k \in DOMAIN calls : calls[k].id = result.callId /\ result.callId # NoId}
    IN IF match # {} THEN calls[CHOOSE k \in match : \A j \in match : k <= j].name
       ELSE IF result.toolName # NoName THEN result.toolName ELSE <<"unknown">>

RenderResult(calls, result) ==
    <<"<|tool_response>", "response:">> \o ResultName(calls, result)
    \o <<"{", "value", ":">> \o FormatArgument(Str(result.content), FALSE) \o <<"}", "<tool_response|>">>

(* One message: its turn stays open behind calls that wait for results,    *)
(* and behind results with no content.                                     *)
RenderMessage(msgs, i) ==
    LET m == msgs[i]
        results == IF m.calls = <<>> THEN <<>> ELSE Results(msgs, i)
        captured == IF m.role = "assistant" THEN StripThinking(m.content) ELSE Trim(m.content)
    IN (IF ContinuesTurn(msgs, i) THEN <<>> ELSE <<TurnOpen, RoleName(m.role), "nl">>)
       \o RenderReasoning(msgs, i)
       \o FlattenSeq([k \in DOMAIN m.calls |-> RenderCall(m.calls[k])])
       \o FlattenSeq([k \in DOMAIN results |-> RenderResult(m.calls, results[k])])
       \o captured
       \o (IF m.calls # <<>> /\ results = <<>> THEN <<"<|tool_response>">>
           ELSE IF results = <<>> \/ captured # <<>> THEN <<TurnClose, "nl">>
           ELSE <<>>)

(* Mutant: a model turn is opened after tool results as well.              *)
GenerationPromptAlways(msgs, opts) ==
    IF ~opts.generate THEN <<>>
    ELSE <<TurnOpen, "model", "nl">>
         \o (IF opts.thinking THEN <<>> ELSE Thought \o <<"<channel|>">>)

(* A new model turn, unless the last message is one with tool calls; when  *)
(* thinking is off, with an empty thought in it.                           *)
GenerationPrompt(msgs, opts) ==
    LET last == LastOf(msgs, NotTool)
    IN IF ~opts.generate \/ (last > 0 /\ msgs[last].calls # <<>>) THEN <<>>
       ELSE <<TurnOpen, "model", "nl">>
            \o (IF opts.thinking THEN <<>> ELSE Thought \o <<"<channel|>">>)

RenderPrompt(messages, tools, opts) ==
    LET msgs == IF FirstIsSystem(messages) THEN Tail(messages) ELSE messages
    IN <<"<bos>">> \o SystemTurn(messages, tools, opts)
       \o FlattenSeq([i \in DOMAIN msgs |->
            IF msgs[i].role = "tool" THEN <<>> ELSE RenderMessage(msgs, i)])
       \o GenerationPrompt(msgs, opts)
=============================================================================
