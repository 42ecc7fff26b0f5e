------------------------------ MODULE Session -------------------------------
(***************************************************************************)
(* sg-model/src/session.rs: one conversation kept resident across          *)
(* requests.  A request carries the whole conversation; the session        *)
(* prefills only what is not resident, then samples and decodes until EOS, *)
(* max_tokens, an abort by the consumer or an error.                       *)
(***************************************************************************)
EXTENDS GpuModel

CONSTANTS
  EosTokens,   \* EOS_TOKENS
  Requests     \* the requests callers may make, [prompt, max]

ASSUME RequestsAssumption ==
  /\ EosTokens \subseteq Token
  /\ Requests \subseteq [prompt : Seq(Token), max : Nat]

VARIABLES
  history,  \* Session.history
  req,      \* the request being served, or the last one
  dirty     \* history variable: a request failed after it had disturbed the
            \* KV stores or pos, and nothing has reset the session since

sessionVars == <<history, req, dirty>>
vars == <<modelVars, sessionVars>>

NoRequest == [pc |-> "idle", prompt |-> <<>>, out |-> <<>>, max |-> 0, stop |-> "none"]

Init ==
  /\ ModelInit
  /\ history = <<>>
  /\ req = NoRequest
  /\ dirty = FALSE

-----------------------------------------------------------------------------
(* zip + take_while + count. *)
CommonPrefix(a, b) ==
  CHOOSE n \in 0 .. SmallerOf(Len(a), Len(b)) :
    /\ \A i \in 1 .. n : a[i] = b[i]
    /\ n < SmallerOf(Len(a), Len(b)) => a[n + 1] # b[n + 1]

(* Reuse is append-only: any divergence, and a prompt that is already       *)
(* resident in full, starts over.                                           *)
MustReset(prompt) ==
  \/ CommonPrefix(history, prompt) < Len(history)
  \/ Len(history) >= Len(prompt)

(* Session::reset.  The KV stores keep their stale rows. *)
ClearResident ==
  /\ pos' = 0
  /\ fed' = <<>>
  /\ history' = <<>>
  /\ dirty' = FALSE

KeepResident == UNCHANGED <<pos, fed, history, dirty>>

(* The start of Session::request, up to the call of prefill; a prompt that  *)
(* would run past the global stores fails prefill's assertion and is not a  *)
(* behaviour of a running program.                                          *)
Request(r) ==
  /\ req.pc = "idle"
  /\ Len(r.prompt) > 0
  /\ IF MustReset(r.prompt) THEN ClearResident ELSE KeepResident
  /\ LET suffix == SubSeq(r.prompt, Len(history') + 1, Len(r.prompt))
     IN  /\ pos' + Len(suffix) <= GlobalCap
         /\ call' = PrefillCall(suffix)
  /\ req' = [pc |-> "prefill", prompt |-> r.prompt, out |-> <<>>,
             max |-> r.max, stop |-> "none"]
  /\ UNCHANGED <<kvVars, stageVars, graphs, seen, logits>>

PrefillReturns ==
  /\ req.pc = "prefill"
  /\ call.pc = "ok"
  /\ history' = history \o SubSeq(req.prompt, Len(history) + 1, Len(req.prompt))
  /\ req' = [req EXCEPT !.pc = "sample"]
  /\ call' = NoCall
  /\ UNCHANGED <<pos, kvVars, stageVars, graphs, seen, logits, fed, dirty>>

StopReason(out, keepGoing, max) ==
  CASE ~keepGoing                 -> "aborted"
    [] keepGoing /\ out[Len(out)] \in EosTokens -> "eos"
    [] keepGoing /\ out[Len(out)] \notin EosTokens /\ Len(out) >= max -> "max"
    [] OTHER                      -> "none"

(* Sample a token, hand it to on_token, stop or decode it. *)
Sample(tok, keepGoing) ==
  /\ req.pc = "sample"
  /\ LET out  == Append(req.out, tok)
         stop == StopReason(out, keepGoing, req.max)
     IN  /\ req' = [req EXCEPT !.out = out, !.stop = stop,
                               !.pc = IF stop = "none" THEN "decode" ELSE "idle"]
         /\ call' = IF stop = "none" THEN DecodeCall(tok) ELSE NoCall
  /\ UNCHANGED <<pos, kvVars, stageVars, graphs, seen, logits, fed, history, dirty>>

DecodeReturns ==
  /\ req.pc = "decode"
  /\ call.pc = "ok"
  /\ history' = Append(history, req.out[Len(req.out)])
  /\ req' = [req EXCEPT !.pc = "sample"]
  /\ call' = NoCall
  /\ UNCHANGED <<pos, kvVars, stageVars, graphs, seen, logits, fed, dirty>>

(* Some layer of the current prefill chunk, or of an earlier one, has run.  *)
PrefillHasRun == call.op = "prefill" /\ call.layer > 1

(* Mutant: the decoded token is pushed to history before decode_step. *)
RequestFailsHistoryFirst ==
  /\ req.pc \in {"prefill", "decode"}
  /\ call.pc = "err"
  /\ history' = IF call.op = "decode" THEN Append(history, req.out[Len(req.out)]) ELSE history
  /\ req' = [req EXCEPT !.pc = "idle", !.stop = "error"]
  /\ call' = NoCall
  /\ dirty' = (dirty \/ pos # Len(history) \/ PrefillHasRun)
  /\ UNCHANGED <<pos, kvVars, stageVars, graphs, seen, logits, fed>>

(* Mutant: a decode that failed before pos moved is submitted again, without *)
(* a limit.                                                                 *)
RequestFailsRetries ==
  /\ req.pc \in {"prefill", "decode"}
  /\ call.pc = "err"
  /\ IF call.op = "decode" /\ pos = Len(history)
       THEN call' = DecodeCall(call.todo[1]) /\ UNCHANGED req
       ELSE call' = NoCall /\ req' = [req EXCEPT !.pc = "idle", !.stop = "error"]
  /\ dirty' = (dirty \/ pos # Len(history) \/ PrefillHasRun)
  /\ UNCHANGED <<pos, kvVars, stageVars, graphs, seen, logits, fed, history>>

(* An error leaves request() through `?`: history is not extended, pos and  *)
(* the stores stay as the failed call left them.                            *)
RequestFails ==
  /\ req.pc \in {"prefill", "decode"}
  /\ call.pc = "err"
  /\ req' = [req EXCEPT !.pc = "idle", !.stop = "error"]
  /\ call' = NoCall
  /\ dirty' = (dirty \/ pos # Len(history) \/ PrefillHasRun)
  /\ UNCHANGED <<pos, kvVars, stageVars, graphs, seen, logits, fed, history>>

(* The public Session::reset, between requests. *)
Reset ==
  /\ req.pc = "idle"
  /\ ClearResident
  /\ UNCHANGED <<kvVars, stageVars, graphs, seen, logits, call, req>>

-----------------------------------------------------------------------------
SessionStep ==
  \/ PrefillReturns
  \/ \E tok \in Token, keepGoing \in BOOLEAN : Sample(tok, keepGoing)
  \/ DecodeReturns
  \/ RequestFails

Next ==
  \/ \E r \in Requests : Request(r)
  \/ Reset
  \/ SessionStep
  \/ ModelStep /\ UNCHANGED sessionVars
  \/ ModelFault /\ UNCHANGED sessionVars

(* The request runs on one host thread that never waits for anything but    *)
(* its own submissions, whose fences the driver signals or fails: its next  *)
(* step is eventually taken.  Nothing obliges a caller to make a request,   *)
(* or the GPU to fail.                                                      *)
Fairness == WF_vars(SessionStep \/ (ModelStep /\ UNCHANGED sessionVars))

Spec == Init /\ [][Next]_vars
FairSpec == Spec /\ Fairness

-----------------------------------------------------------------------------
(* Properties.                                                              *)

PhaseOfRequest == {"idle", "prefill", "sample", "decode"}
PhaseOfCall == {"idle", "record", "stage", "layer", "read", "ok", "err"}

CallRecord ==
  [op : {"none", "prefill", "decode"}, pc : PhaseOfCall,
   todo : Seq(Token), layer : 0 .. NumLayers + 1]

RequestRecord ==
  [pc : PhaseOfRequest, prompt : Seq(Token), out : Seq(Token), max : Nat,
   stop : {"none", "aborted", "eos", "max", "error"}]

TypeOK ==
  /\ pos \in Nat
  /\ ring \in [SlidingLayers -> [Slots -> RowOrNone]]
  /\ lin \in [GlobalLayers -> [LinearSlots -> RowOrNone]]
  /\ step \in [pos : Nat, kvSliding : Nat, kvGlobal : Nat, q0 : Nat]
  /\ prows \in [1 .. ChunkCap -> RowOrNone]
  /\ brow \in RowOrNone
  /\ \A k \in DOMAIN graphs : graphs[k] = k
  /\ seen \subseteq RowOrNone
  /\ logits \subseteq RowOrNone
  /\ fed \in Seq(Token)
  /\ call \in CallRecord
  /\ history \in Seq(Token)
  /\ req \in RequestRecord
  /\ dirty \in BOOLEAN

(* The context the rows being computed belong to. *)
RunningContext == IF call.op = "prefill" THEN fed \o Chunk ELSE fed \o call.todo

WithinCapacity == Len(RunningContext) <= GlobalCap

(* Every query of the layer about to run attends exactly the keys of its    *)
(* causal window - each once, none missing, none stale, none of another     *)
(* conversation - whatever requests, resets and harmless errors came        *)
(* before: the ring, the append order, the step buffer, the split-K         *)
(* partition and the session's reuse rule agree with each other.            *)
AttendsExactWindow ==
  (call.pc = "layer" /\ call.layer \in Layers /\ ~dirty /\ WithinCapacity) =>
    LET l == call.layer
        Begin(q) == IF Kind[l] = "sliding" THEN FirstInWindow(q) ELSE 0
    IN  IF call.op = "prefill"
          THEN \A i \in 0 .. ChunkLen - 1 :
                 Exactly(PrefillReads(l, i),
                         Rows(RunningContext, Begin(pos + i), pos + i))
          ELSE Exactly(DecodeReads(l), Rows(RunningContext, Begin(pos), pos))

(* "Tokens whose KV is resident; always model.pos long" (Session.history):  *)
(* between requests the history is as long as pos says and every store      *)
(* holds the rows the next token will attend.                               *)
HistoryResident ==
  req.pc = "idle" =>
    /\ Len(history) = pos
    /\ \A l \in SlidingLayers : HoldsTail(ring[l], history, pos)
    /\ \A l \in GlobalLayers : HoldsPrefix(lin[l], history, pos)

(* The same, as long as no request has failed mid-way since the last reset  *)
(* and the history fits the global stores: aborted requests, EOS, max_tokens*)
(* and errors of a decode submission all leave the session clean.           *)
HistoryResidentUnlessDirty == ~dirty /\ pos <= GlobalCap => HistoryResident

(* The sampler sees the logits of the whole conversation: every token is    *)
(* sampled from logits computed over prompt and reply so far, never from    *)
(* those of an interior chunk, an earlier step or an earlier request.       *)
SampledFromWholeContext ==
  (req.pc = "sample" /\ ~dirty /\ pos <= GlobalCap) =>
    LET ctx == req.prompt \o req.out
    IN  logits = Rows(ctx, 0, Len(ctx) - 1)

(* The session refines the stateless API: reusing resident KV is invisible. *)
Stateless == INSTANCE StatelessApi WITH
  conv <- req.prompt, limit <- req.max, reply <- req.out,
  serving <- (req.pc # "idle"),
  basis <- IF req.pc = "sample" THEN logits ELSE {}

ImplementsStatelessApi == Stateless!Spec

(* A request that is being served ends. *)
RequestEnds == req.pc # "idle" ~> req.pc = "idle"

=============================================================================
