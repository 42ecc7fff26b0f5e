---------------------------- MODULE TurnParser ----------------------------
(***************************************************************************)
(* sg-tokenizer/src/toolcall.rs: the streaming parser that splits the      *)
(* tokens a model emits into content, thinking and tool calls.             *)
(*                                                                         *)
(* A token is a control token, known by its id, or an ordinary one, whose  *)
(* text (Text) is a byte or the characters of its piece.  One action per   *)
(* branch of TurnParser::push, and finish.                                 *)
(***************************************************************************)
EXTENDS Utf8Stream, ToolArgs

CONSTANTS
    Ordinary,    \* the ordinary tokens of the vocabulary
    Text         \* the text of each of them

Eot == "<turn|>"
Eos == "<eos>"
ToolCallOpen == "<|tool_call>"
ToolCallClose == "<tool_call|>"
ChannelOpen == "<|channel>"
ChannelClose == "<channel|>"
ToolResponseOpen == "<|tool_response>"

Ends == {Eot, Eos}
Control == Ends \cup {ToolCallOpen, ToolCallClose, ChannelOpen, ChannelClose, ToolResponseOpen}
Token == Control \cup Ordinary
NL == "nl"

ASSUME TokenAssumption ==
    /\ Ordinary \cap Control = {}
    /\ Text \in [Ordinary -> Seq(STRING) \ {<<>>}]

VARIABLES
    mode,        \* State of the parser: "content", "header", "channel" or "toolcall"
    buf,         \* the header or raw text a mode collects
    pending,     \* DetokBuffer: bytes of an incomplete code point
    events,      \* the TurnEvents so far
    stream,      \* history: the tokens pushed since the parser was last flushed
    began        \* history: the number of events before that stream

parserVars == <<mode, buf, pending, events, stream, began>>

(* TurnEvents: a kind and its content.                                     *)
Content(text) == <<"content", text>>
Thinking(text) == <<"thinking", text>>
EndOfTurn == <<"end", <<>>>>
Awaiting == <<"awaiting", <<>>>>
Invalid(raw) == <<"invalid", raw>>

(* parse_tool_call: a call with its arguments, or the raw text it keeps.   *)
CallEvent(raw, call) == IF call.ok THEN <<"call", call.value>> ELSE Invalid(raw)
ParseToolCall(raw) == CallEvent(raw, TryParseToolCall(raw))

ParserInit ==
    /\ mode = "content" /\ buf = <<>> /\ pending = <<>>
    /\ events = <<>> /\ stream = <<>> /\ began = 0

-----------------------------------------------------------------------------
(* end_segment: what a pending byte run leaves behind at a boundary, as    *)
(* events or as raw text.                                                  *)

TailEvents ==
    IF pending = <<>> THEN <<>>
    ELSE CASE mode = "content" -> <<Content(<<FFFD>>)>>
           [] mode \in {"channel", "header"} -> <<Thinking(<<FFFD>>)>>
           [] OTHER -> <<>>

RawWithTail == IF mode = "toolcall" THEN buf \o Flush(pending) ELSE buf

EndSegment(produced) ==
    /\ pending' = <<>>
    /\ events' = events \o TailEvents \o produced

Enter(m) == mode' = m /\ buf' = <<>>

PushEnd(t) ==
    /\ t \in Ends
    /\ EndSegment(<<EndOfTurn>>)
    /\ buf' = RawWithTail /\ UNCHANGED mode

PushToolCallOpen(t) ==
    /\ t = ToolCallOpen
    /\ EndSegment(<<>>)
    /\ Enter("toolcall")

(* Mutant: the pending bytes are not flushed into the call.                *)
PushToolCallCloseUnflushed(t) ==
    /\ t = ToolCallClose
    /\ Enter("content")
    /\ IF mode = "toolcall"
       THEN events' = Append(events, ParseToolCall(buf)) /\ pending' = <<>>
       ELSE UNCHANGED <<events, pending>>

(* Outside a tool call this only leaves the mode: nothing is flushed.      *)
PushToolCallClose(t) ==
    /\ t = ToolCallClose
    /\ Enter("content")
    /\ IF mode = "toolcall"
       THEN /\ events' = Append(events, ParseToolCall(buf \o Flush(pending)))
            /\ pending' = <<>>
       ELSE UNCHANGED <<events, pending>>

PushChannelOpen(t) ==
    /\ t = ChannelOpen
    /\ EndSegment(<<>>)
    /\ Enter("header")

PushChannelClose(t) ==
    /\ t = ChannelClose
    /\ EndSegment(<<>>)
    /\ Enter("content")

PushToolResponseOpen(t) ==
    /\ t = ToolResponseOpen
    /\ EndSegment(<<Awaiting>>)
    /\ buf' = RawWithTail /\ UNCHANGED mode

(* A header ends at its newline: what follows it is the body.              *)
PushHeader(text) ==
    LET header == buf \o text
        nl == NextOf(header, 1, {NL})
        body == From(header, nl + 1)
    IN IF nl > Len(header)
       THEN buf' = header /\ UNCHANGED <<mode, events>>
       ELSE /\ Enter("channel")
            /\ events' = IF body = <<>> THEN events ELSE Append(events, Thinking(body))

PushText(t) ==
    /\ t \in Ordinary
    /\ LET decoded == DecodeStreaming(pending, Text[t])
           text == decoded.out
       IN /\ pending' = decoded.pending
          /\ CASE text = <<>> -> UNCHANGED <<mode, buf, events>>
               [] text # <<>> /\ mode = "content" ->
                    events' = Append(events, Content(text)) /\ UNCHANGED <<mode, buf>>
               [] text # <<>> /\ mode = "channel" ->
                    events' = Append(events, Thinking(text)) /\ UNCHANGED <<mode, buf>>
               [] text # <<>> /\ mode = "toolcall" ->
                    buf' = buf \o text /\ UNCHANGED <<mode, events>>
               [] text # <<>> /\ mode = "header" -> PushHeader(text)

Push(t) ==
    /\ stream' = Append(stream, t) /\ UNCHANGED began
    /\ \/ PushEnd(t)
       \/ PushToolCallOpen(t)
       \/ PushToolCallClose(t)
       \/ PushChannelOpen(t)
       \/ PushChannelClose(t)
       \/ PushToolResponseOpen(t)
       \/ PushText(t)

(* finish, of an aborted stream: an unterminated call surfaces as invalid. *)
FinishEvents ==
    LET raw == RawWithTail
    IN events \o TailEvents
       \o (IF mode = "toolcall" /\ raw # <<>> THEN <<Invalid(raw)>> ELSE <<>>)

Finish ==
    /\ events' = FinishEvents
    /\ pending' = <<>>
    /\ Enter("content")
    /\ stream' = <<>> /\ began' = Len(events')

-----------------------------------------------------------------------------
(***************************************************************************)
(* The same stream parsed at once: cut at its control tokens, every        *)
(* segment decoded as a whole and given to the token that opened it.       *)
(***************************************************************************)

Opener == {ToolCallOpen, ToolCallClose, ChannelOpen, ChannelClose}

(* The token that decides whose text position i of the stream is.          *)
OpenerOf(i) ==
    LET before == {j \in 1 .. i : stream[j] \in Opener}
    IN IF before = {} THEN 0 ELSE CHOOSE j \in before : \A k \in before : k <= j

(* The ordinary tokens from i up to the next control token, decoded.       *)
RawText(i, j) == FlattenSeq([k \in 1 .. j - i + 1 |-> Text[stream[i + k - 1]]])
SegmentEnd(i) == NextOf(stream, i, Control) - 1
SegmentText(i) == LossyDecode[RawText(i, SegmentEnd(i))]

(* The text that belongs to the token at position o, up to position i.     *)
RegionText(o, i) ==
    LET starts == {k \in o + 1 .. i : stream[k] \in Ordinary
                                      /\ (k = 1 \/ stream[k - 1] \in Control)}
    IN FlattenSeq([n \in 1 .. Cardinality(starts) |->
         SegmentText(CHOOSE k \in starts : Cardinality({j \in starts : j <= k}) = n)])

Inside(o, opener) == o > 0 /\ stream[o] = opener

(* The events of position i: the segment that begins there, or what its    *)
(* control token produces.                                                 *)
BatchEvents(i) ==
    LET o == OpenerOf(i)
        owner == OpenerOf(i - 1)
        text == SegmentText(i)
        header == RegionText(o, i - 1)
        inHeader == \A k \in DOMAIN header : header[k] # NL
        nl == NextOf(text, 1, {NL})
        body == From(text, nl + 1)
    IN IF stream[i] \in Ordinary
       THEN CASE i > 1 /\ stream[i - 1] \in Ordinary -> <<>>
              [] Inside(o, ToolCallOpen) -> <<>>
              [] Inside(o, ChannelOpen) /\ ~inHeader -> <<Thinking(text)>>
              [] Inside(o, ChannelOpen) /\ inHeader ->
                   IF body # <<>> THEN <<Thinking(body)>>
                   ELSE IF nl > Len(text) /\ EndsCut(RawText(i, SegmentEnd(i)))
                   THEN <<Thinking(<<FFFD>>)>> ELSE <<>>
              [] OTHER -> <<Content(text)>>
       ELSE CASE stream[i] \in Ends -> <<EndOfTurn>>
              [] stream[i] = ToolResponseOpen -> <<Awaiting>>
              [] stream[i] = ToolCallClose /\ Inside(owner, ToolCallOpen) ->
                   <<ParseToolCall(RegionText(owner, i - 1))>>
              [] OTHER -> <<>>

BatchFinish ==
    LET o == OpenerOf(Len(stream))
        raw == RegionText(o, Len(stream))
    IN IF Inside(o, ToolCallOpen) /\ raw # <<>> THEN <<Invalid(raw)>> ELSE <<>>

Batch == FlattenSeq([i \in DOMAIN stream |-> BatchEvents(i)]) \o BatchFinish

(* Deltas of one kind in a row say the same as one delta.                  *)
IsDelta(e) == e[1] \in {"content", "thinking"}
Merged(evs) ==
    FoldLeft(LAMBDA out, e :
               IF out # <<>> /\ IsDelta(e) /\ out[Len(out)][1] = e[1]
               THEN [out EXCEPT ![Len(out)] = <<e[1], @[2] \o e[2]>>]
               ELSE Append(out, e),
             <<>>, evs)

(* A <tool_call|> outside a tool call comes in the middle of a code point. *)
StrayCloseCutsCodePoint ==
    \E i \in DOMAIN stream :
       /\ stream[i] = ToolCallClose
       /\ ~Inside(OpenerOf(i - 1), ToolCallOpen)
       /\ i > 1 /\ stream[i - 1] \in Ordinary
       /\ LET s == CHOOSE s \in 1 .. i - 1 : /\ SegmentEnd(s) = i - 1
                                             /\ s = 1 \/ stream[s - 1] \in Control
                                             /\ \A k \in s .. i - 1 : stream[k] \in Ordinary
          IN EndsCut(RawText(s, i - 1))

-----------------------------------------------------------------------------
ParserTypeOK ==
    /\ mode \in {"content", "header", "channel", "toolcall"}
    /\ buf \in Seq(STRING)
    /\ pending \in {<<>>, <<Lead2>>, <<Lead3>>, <<Lead3, Cont>>}
    /\ stream \in Seq(Token)
    /\ began <= Len(events)

(***************************************************************************)
(* Wherever a stream is cut into tokens, and whatever the model emits, the *)
(* events are those of the whole stream parsed at once: no text is lost,   *)
(* repeated, reordered or given to the wrong kind of event, no code point  *)
(* is split, and every call is parsed from exactly the text between its    *)
(* markers (TurnParser::push, end_segment, DetokBuffer::push_byte).        *)
(***************************************************************************)
StreamingIsBatch ==
    \/ StrayCloseCutsCodePoint
    \/ Merged(From(FinishEvents, began + 1)) = Merged(Batch)
=============================================================================
