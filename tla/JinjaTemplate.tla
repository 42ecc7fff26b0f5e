--------------------------- MODULE JinjaTemplate ---------------------------
(***************************************************************************)
(* The chat template of the model itself (the jinja source that            *)
(* docs/reference keeps, extracted from the GGUF), which template.rs ports *)
(* by hand: the declarations of tools, and the loop over the messages with *)
(* its namespace, as jinja runs it.  Messages are those of ChatTemplate.   *)
(***************************************************************************)
EXTENDS ChatTemplate, JinjaSchema

(* text.split(marker)                                                      *)
RECURSIVE Split(_, _)
Split(text, marker) ==
    LET at == NextOf(text, 1, {marker})
    IN IF at > Len(text) THEN <<text>>
       ELSE <<SubSeq(text, 1, at - 1)>> \o Split(SubSeq(text, at + 1, Len(text)), marker)

JinjaStripThinking(text) ==
    Trim(FlattenSeq([n \in DOMAIN Split(text, "<channel|>") |->
           Split(Split(text, "<channel|>")[n], "<|channel>")[1]]))

(* An absent id equals an absent id, and the last equal one wins.  A       *)
(* result with no name that answers no call has the name None, which jinja *)
(* does not default and cannot append: the template raises an error.       *)
Raised == "raised"

JinjaResultName(calls, result) ==
    LET given == IF result.toolName # NoName THEN result.toolName ELSE <<Raised>>
    IN FoldLeft(LAMBDA name, tc : IF tc.id = result.callId THEN tc.name ELSE name, given, calls)

(* Truth of an optional string: absent and empty are both false.           *)
TruthyOption(option) == option # <<>> /\ option[1] # <<>>

(* The namespace of the loop: what is written so far, and the kind of the  *)
(* last thing written.                                                     *)
Write(ns, text) == [ns EXCEPT !.out = @ \o text]
Prev(ns, kind) == [ns EXCEPT !.prev = kind]

(* The scan of the tool messages behind message i, until another role.     *)
JinjaResponses(ns, msgs, i) ==
    FoldLeft(LAMBDA s, k :
               IF s.stopped \/ msgs[k].role # "tool" THEN [s EXCEPT !.stopped = TRUE]
               ELSE [Prev(Write(s, <<"<|tool_response>", "response:">>
                                   \o JinjaResultName(msgs[i].calls, msgs[k])
                                   \o <<"{", "value", ":">> \o FormatArgument(Str(msgs[k].content), FALSE)
                                   \o <<"}", "<tool_response|>">>), "tool_response")
                     EXCEPT !.flag = TRUE],
             ns, [n \in 1 .. Len(msgs) - i |-> i + n])

JinjaMessage(ns0, msgs, i, lastUser) ==
    LET m == msgs[i]
        before == SelectSeq(SubSeq(msgs, 1, i - 1), LAMBDA x : x.role # "tool")
        same == m.role = "assistant" /\ before # <<>> /\ before[Len(before)].role = "assistant"
        head == Write(Prev([ns0 EXCEPT !.flag = FALSE, !.stopped = FALSE], "none"),
                      IF same THEN <<>> ELSE <<TurnOpen, RoleName(m.role), "nl">>)
        thought == IF TruthyOption(m.reasoning) /\ i > lastUser /\ m.calls # <<>>
                   THEN Write(head, Thought \o m.reasoning[1] \o <<"nl", "<channel|>">>) ELSE head
        called == IF m.calls = <<>> THEN thought
                  ELSE Prev(FoldLeft(LAMBDA s, c : Write(s, RenderCall(c)), thought, m.calls),
                            "tool_call")
        answered == IF m.calls = <<>> THEN called ELSE JinjaResponses(called, msgs, i)
        captured == IF m.role = "assistant" THEN JinjaStripThinking(m.content) ELSE Trim(m.content)
        spoken == Write(answered, captured)
    IN IF spoken.prev = "tool_call" /\ ~spoken.flag THEN Write(spoken, <<"<|tool_response>">>)
       ELSE IF ~(spoken.flag /\ Trim(captured) = <<>>) THEN Write(spoken, <<TurnClose, "nl">>)
       ELSE spoken

JinjaPrompt(messages, tools, opts) ==
    LET first == messages # <<>> /\ messages[1].role = "system"
        msgs == IF first THEN Tail(messages) ELSE messages
        lastUser == FoldLeft(LAMBDA u, i : IF msgs[i].role = "user" THEN i ELSE u, 0,
                             [i \in DOMAIN msgs |-> i])
        intro == IF opts.thinking \/ tools # <<>> \/ first
                 THEN <<TurnOpen, "system", "nl">>
                      \o (IF opts.thinking THEN <<"<|think|>", "nl">> ELSE <<>>)
                      \o (IF first THEN Trim(messages[1].content) ELSE <<>>)
                      \o FlattenSeq([n \in DOMAIN tools |->
                           <<"<|tool>">> \o Trim(JinjaDeclaration(tools[n])) \o <<"<tool|>">>])
                      \o <<TurnClose, "nl">>
                 ELSE <<>>
        start == [out |-> <<"<bos>">> \o intro, prev |-> "none", flag |-> FALSE, stopped |-> FALSE]
        end == FoldLeft(LAMBDA ns, i : IF msgs[i].role = "tool" THEN ns
                                       ELSE JinjaMessage(ns, msgs, i, lastUser),
                        start, [i \in DOMAIN msgs |-> i])
    IN end.out \o (IF opts.generate /\ end.prev \notin {"tool_response", "tool_call"}
                   THEN <<TurnOpen, "model", "nl">>
                        \o (IF opts.thinking THEN <<>> ELSE Thought \o <<"<channel|>">>)
                   ELSE <<>>)
=============================================================================
