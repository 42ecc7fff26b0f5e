------------------------------- MODULE Chat -------------------------------
(***************************************************************************)
(* A conversation: a client of the stateless API sends messages, the       *)
(* template renders them, the model answers token by token and the turn    *)
(* parser makes the answer a message again, with which the next prompt is  *)
(* rendered.  The server that will own this loop is planned                *)
(* (docs/plans/05); template.rs and toolcall.rs are its two halves.        *)
(***************************************************************************)
EXTENDS TurnParser, JinjaTemplate, Encoding

CONSTANTS
    ClientMessages,     \* the messages a client may send
    Tools,              \* the tool declarations it sends with them
    Declarations,       \* tool declarations whose rendering is compared
    CallIds,            \* the ids the server gives the calls, in order
    ArgObjects,         \* argument objects a call may have
    Scripts,            \* answers after which a conversation goes on, as tokens
    MaxHistory,         \* bound: messages of other conversations sent along
    MaxMessages,        \* bound: messages of a conversation
    MaxFree             \* bound: messages and tokens of an answer that is no script

ASSUME SpecialAssumption == Control \subseteq SpecialPieces

VARIABLES
    msgs, thinking,         \* what the client sends
    prompt,                 \* the prompt of the current generation
    reply,                  \* the tokens generated for it
    resident,               \* the ids of the last prompt and of its decoded reply
    phase,                  \* whose turn it is: "client" or "model"
    since                   \* history: the events before this generation

clientVars == <<msgs, thinking, prompt, reply, resident, phase, since>>
vars == <<parserVars, clientVars>>

Opts == [generate |-> TRUE, thinking |-> thinking]

Concat(evs, kind) ==
    FoldLeft(LAMBDA out, e : IF e[1] = kind THEN out \o e[2] ELSE out, <<>>, evs)

CallCount == FoldLeft(LAMBDA n, m : n + Len(m.calls), 0, msgs)

(* The message a client makes of the events of one reply.                  *)
ReplyMessage(evs) ==
    LET calls == SelectSeq(evs, LAMBDA e : e[1] = "call")
        thought == Concat(evs, "thinking")
    IN [role |-> "assistant", content |-> Concat(evs, "content"),
        reasoning |-> IF thought = <<>> THEN <<>> ELSE <<thought>>,
        calls |-> [k \in DOMAIN calls |->
                     [id |-> CallIds[CallCount + k], name |-> calls[k][2][1], args |-> calls[k][2][2]]],
        callId |-> NoId, toolName |-> NoName]

(* The text of tokens: control tokens are symbols of their own.            *)
TokensText(tokens) ==
    LossyDecode[FlattenSeq([i \in DOMAIN tokens |->
        IF tokens[i] \in Ordinary THEN Text[tokens[i]] ELSE <<tokens[i]>>])]

Init ==
    /\ ParserInit
    /\ msgs = <<>> /\ thinking \in BOOLEAN
    /\ prompt = <<>> /\ reply = <<>> /\ resident = <<>>
    /\ phase = "client" /\ since = 0

(* The client adds a message: a question or a tool result, or history of a *)
(* conversation it had elsewhere.                                          *)
Say(m) ==
    /\ phase = "client" /\ Len(msgs) < MaxMessages
    /\ m.role \in {"user", "tool"} \/ (resident = <<>> /\ Len(msgs) < MaxHistory)
    /\ reply = <<>> \/ reply \in Scripts
    /\ msgs' = Append(msgs, m)
    /\ UNCHANGED <<parserVars, thinking, prompt, reply, resident, phase, since>>

(* A conversation a model can be asked to continue: it ends with a user    *)
(* message or tool results, tool results answer the message before them,   *)
(* calls are answered before anyone else speaks, and the model goes on     *)
(* after them before the user does.                                        *)
Orderly ==
    /\ msgs # <<>> /\ msgs[Len(msgs)].role \in {"user", "tool"}
    /\ \A i \in DOMAIN msgs :
         /\ msgs[i].role = "tool" =>
              i > 1 /\ (msgs[i - 1].role = "tool" \/ msgs[i - 1].calls # <<>>)
         /\ msgs[i].calls # <<>> => i < Len(msgs) /\ msgs[i + 1].role = "tool"
         /\ msgs[i].role = "tool" /\ i < Len(msgs) => msgs[i + 1].role \in {"tool", "assistant"}
         /\ msgs[i].role = "assistant" /\ i > 1 => msgs[i - 1].role # "assistant"

(* It asks for a reply.                                                    *)
Request ==
    /\ phase = "client" /\ Len(msgs) < MaxMessages /\ Orderly
    /\ phase' = "model"
    /\ prompt' = RenderPrompt(msgs, Tools, Opts)
    /\ reply' = <<>> /\ since' = Len(events)
    /\ UNCHANGED <<parserVars, msgs, thinking, resident>>

(* The bound on answers: any tokens in a short conversation, else along    *)
(* one of the scripts.                                                     *)
MaySay(t) ==
    \/ Len(msgs) + Len(reply) < MaxFree
    \/ \E s \in Scripts : IsPrefix(Append(reply, t), s)

(* on_token: one token goes through the parser.  An end of turn, or a      *)
(* request for tool results, ends the generation.  The last token of a     *)
(* reply is sampled but never decoded.                                     *)
Emit(t) ==
    /\ phase = "model" /\ MaySay(t)
    /\ Push(t)
    /\ reply' = Append(reply, t)
    /\ IF t \in Ends \cup {ToolResponseOpen}
       THEN /\ phase' = "client"
            /\ msgs' = Append(msgs, ReplyMessage(From(events', since + 1)))
            /\ resident' = Encode[prompt] \o reply
       ELSE UNCHANGED <<phase, msgs, resident>>
    /\ UNCHANGED <<thinking, prompt, since>>

(* The generation is cut off by max_tokens or by the client: the parser is *)
(* flushed and its stream ends.                                            *)
CutOff ==
    /\ phase = "model" /\ reply # <<>>
    /\ Finish
    /\ phase' = "client"
    /\ msgs' = Append(msgs, ReplyMessage(From(events', since + 1)))
    /\ resident' = Encode[prompt] \o Front(reply)
    /\ UNCHANGED <<thinking, prompt, reply, since>>

Next ==
    \/ \E m \in ClientMessages : Say(m)
    \/ Request
    \/ \E t \in Token : Emit(t)
    \/ CutOff

Spec == Init /\ [][Next]_vars

-----------------------------------------------------------------------------
TypeOK ==
    /\ ParserTypeOK
    /\ \A i \in DOMAIN msgs : msgs[i].role \in NotTool \cup {"tool"}
    /\ Len(msgs) <= MaxMessages
    /\ phase \in {"client", "model"}
    /\ since <= Len(events)

(***************************************************************************)
(* render_prompt writes what the template writes, for every conversation   *)
(* a client may send that the template renders at all, whichever of its    *)
(* messages are answered by now, whatever the options, and whatever of the *)
(* schemas of its tools is there or missing ("byte-identical to            *)
(* apply_chat_template").                                                  *)
(***************************************************************************)
RenderIsTemplate ==
    /\ phase = "client" =>
         \A declared \in {<<>>, Tools}, gen \in BOOLEAN :
           LET opts == [generate |-> gen, thinking |-> thinking]
               expected == JinjaPrompt(msgs, declared, opts)
           IN Contains(expected, Raised) \/ RenderPrompt(msgs, declared, opts) = expected
    /\ msgs = <<>> =>
         \A n \in DOMAIN Declarations :
           RenderPrompt(<<>>, <<Declarations[n]>>, Opts) = JinjaPrompt(<<>>, <<Declarations[n]>>, Opts)

(***************************************************************************)
(* What render_prompt writes for a call, the parser reads back: names,     *)
(* strings with punctuation, spaces or digits in them, nested objects and  *)
(* lists keep their kind and content (ArgParser is documented as the       *)
(* inverse of template::format_argument).                                  *)
(***************************************************************************)
ArgsRoundTrip ==
    msgs = <<>> =>
      \A n \in DOMAIN ArgObjects :
         ParseToolCall(FormatCall(<<"f", "sp", "g">>, ArgObjects[n]))
           = <<"call", << <<"f", "sp", "g">>, ArgObjects[n]>>>>

(***************************************************************************)
(* What TurnParser's comment says: its state resets at each EndOfTurn, so  *)
(* a reply is read as a new parser would read it.  It does not: a call or  *)
(* a thought that the model left open swallows the next reply.             *)
(***************************************************************************)
EveryTurnStartsFresh ==
    phase = "model" /\ reply = <<>> => mode = "content" /\ buf = <<>> /\ pending = <<>>

(* The last turn marker up to a position, and whether a turn is open there.*)
TurnMark(p, i) ==
    LET at == {j \in 1 .. i : p[j] \in {TurnOpen, TurnClose}}
    IN IF at = {} THEN 0 ELSE CHOOSE j \in at : \A k \in at : k <= j
InTurn(p, i) == TurnMark(p, i) > 0 /\ p[TurnMark(p, i)] = TurnOpen

(* Turns do not nest, and no text stands between them.                     *)
Framed(p) ==
    \A i \in DOMAIN p :
      IF p[i] = TurnOpen THEN ~InTurn(p, i - 1)
      ELSE InTurn(p, i - 1) \/ p[i] \in {"<bos>", "nl"}

(* The model said something beside its calls.                              *)
SpokeBesideCalls(m) == m.calls # <<>> /\ StripThinking(m.content) # <<>>

(***************************************************************************)
(* However long the tool loop, the model is asked to go on inside exactly  *)
(* one open model turn, and every earlier turn is closed: the branches of  *)
(* render_prompt that leave a turn open (calls without results, results    *)
(* without content, no generation prompt) fit together over the messages.  *)
(* A message with both content and answered calls is the exception the     *)
(* template makes: it closes the turn and opens none.                      *)
(***************************************************************************)
AsksInsideModelTurn ==
    phase = "model" /\ reply = <<>> /\ ~(\E i \in DOMAIN msgs : SpokeBesideCalls(msgs[i])) =>
      /\ Framed(prompt)
      /\ InTurn(prompt, Len(prompt))
      /\ prompt[TurnMark(prompt, Len(prompt)) + 1] = "model"

-----------------------------------------------------------------------------
(* The prompt ended with an empty thought the template put there.          *)
Prefilled == prompt # <<>> /\ prompt[Len(prompt)] = "<channel|>"

ReplyEvents == From(events, since + 1)

(* No call or thought of an earlier reply was left open: the parser goes   *)
(* on with it past the end of that turn.                                   *)
StartedAfresh ==
    LET o == OpenerOf(Len(stream) - Len(reply))
    IN ~Inside(o, ToolCallOpen) /\ ~Inside(o, ChannelOpen)

(* A reply of text alone, or of calls in the form the template writes.     *)
PlainReply ==
    LET text == Concat(ReplyEvents, "content")
    IN /\ reply # <<>> /\ reply[Len(reply)] \in Ends /\ StartedAfresh
       /\ \A i \in 1 .. Len(reply) - 1 : reply[i] \in Ordinary
       /\ \A i \in DOMAIN ReplyEvents : ReplyEvents[i][1] \in {"content", "end"}
       /\ Trim(text) = text

CallReply ==
    /\ reply # <<>> /\ reply[Len(reply)] = ToolResponseOpen
    /\ \A i \in DOMAIN ReplyEvents : ReplyEvents[i][1] \in {"call", "awaiting"}
    /\ TokensText(Front(reply)) =
         FlattenSeq([i \in 1 .. Len(ReplyEvents) - 1 |->
            <<ToolCallOpen>> \o FormatCall(ReplyEvents[i][2][1], ReplyEvents[i][2][2])
            \o <<ToolCallClose>>])

(* The model opened a thought in the part of its reply that was decoded.   *)
DecodedThought(tokens) == tokens # <<>> /\ \E i \in 1 .. Len(tokens) - 1 : tokens[i] = ChannelOpen

(* Encoding the reply's text where it stands gives its tokens again: no    *)
(* code point was left incomplete and no other tokenization was sampled.   *)
Canonical == Encode[prompt \o TokensText(Front(reply))] = resident

(* Session::request keeps its rows: all of them, and something is left to  *)
(* prefill.                                                                *)
Resumes(next) == IsPrefix(resident, next) /\ Len(resident) < Len(next)

(***************************************************************************)
(* Resumption: Session keeps the KV rows of a conversation only when the   *)
(* ids of the next prompt extend those of the last prompt and the tokens   *)
(* decoded of its reply.  They do whenever the reply was plain text or     *)
(* calls in the form the template writes, and its tokens are those its     *)
(* text encodes to: through parser, message, template and encoder and over *)
(* any number of tool rounds nothing of the reply is normalised, moved or  *)
(* written twice, and nothing merges across its end (TurnParser::push,     *)
(* render_prompt, Tokenizer::encode, Session::request).                    *)
(***************************************************************************)
ReplayedExactly ==
    [][Request /\ ~Prefilled
       /\ (PlainReply \/ CallReply) /\ Canonical
       /\ (\A i \in DOMAIN msgs : msgs[i].reasoning = <<>>)
       => Resumes(Encode[prompt'])]_vars

(***************************************************************************)
(* It never does after a thought, the model's own or the empty one that    *)
(* the generation prompt puts there when thinking is off: the thought is   *)
(* not written back the way it was, so the turn is prefilled again from    *)
(* the start, and its rows never stay behind for a prompt without it       *)
(* (render_prompt's generation prompt, strip_thinking, reasoning).         *)
(***************************************************************************)
ThoughtForcesReset ==
    [][Request /\ resident # <<>> /\ (Prefilled \/ DecodedThought(reply))
       => ~Resumes(Encode[prompt'])]_vars
=============================================================================
