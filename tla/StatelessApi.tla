---------------------------- MODULE StatelessApi ----------------------------
(***************************************************************************)
(* What Session promises a caller ("prompt is the FULL conversation so far *)
(* (the stateless-API shape)"): every request is answered as if nothing    *)
(* were kept between requests.  Each token of the reply is drawn from      *)
(* logits evaluated over the whole prompt and the whole reply so far, and  *)
(* the reply ends at EOS, at the limit, or when the consumer or an error   *)
(* ends it.  No cache, position, chunk or kernel appears here.             *)
(***************************************************************************)
EXTENDS Naturals, Sequences

CONSTANTS Token, EosTokens, Requests

VARIABLES
  conv,     \* the request's prompt
  limit,    \* its max_tokens
  reply,    \* tokens handed to the consumer so far
  serving,  \* a request is being answered
  basis     \* the rows the current logits were computed from, {} if there are none

vars == <<conv, limit, reply, serving, basis>>

Whole(ctx) == {[pos |-> i - 1, tok |-> ctx[i]] : i \in 1 .. Len(ctx)}

Init ==
  /\ conv = <<>> /\ limit = 0 /\ reply = <<>>
  /\ serving = FALSE
  /\ basis = {}

Serve(r) ==
  /\ ~serving
  /\ conv' = r.prompt /\ limit' = r.max /\ reply' = <<>>
  /\ serving' = TRUE
  /\ UNCHANGED basis

Evaluate ==
  /\ serving
  /\ basis = {}
  /\ basis' = Whole(conv \o reply)
  /\ UNCHANGED <<conv, limit, reply, serving>>

MayContinue(out) ==
  /\ out[Len(out)] \notin EosTokens
  /\ Len(out) < limit

Emit(tok) ==
  /\ serving
  /\ basis # {}
  /\ reply' = Append(reply, tok)
  /\ serving' \in (IF MayContinue(reply') THEN BOOLEAN ELSE {FALSE})
  /\ basis' = {}
  /\ UNCHANGED <<conv, limit>>

Fail ==
  /\ serving
  /\ basis = {}
  /\ serving' = FALSE
  /\ UNCHANGED <<conv, limit, reply, basis>>

Next ==
  \/ \E r \in Requests : Serve(r)
  \/ Evaluate
  \/ \E tok \in Token : Emit(tok)
  \/ Fail

Spec == Init /\ [][Next]_vars /\ WF_vars(Evaluate \/ Fail \/ \E tok \in Token : Emit(tok))
=============================================================================
