------------------------------ MODULE Generate ------------------------------
(***************************************************************************)
(* sg-model/src/generate.rs: prefill a prompt, then sample and decode one  *)
(* token at a time, until an end token, max_tokens, or a caller that wants *)
(* no more.                                                                *)
(*                                                                         *)
(* Of the GPU model only the tokens it has advanced over are kept: resident*)
(* grows by the chunks of a prefill and by the token of a decode step.  A  *)
(* call may fail before it advances, or after, when the logits cannot be   *)
(* read back.                                                              *)
(***************************************************************************)
EXTENDS Sampler

CONSTANTS
    EosTokens,       \* EOS_TOKENS: the two ids generation ends on
    PrefillChunk,    \* GpuModel's max_chunk
    GpuFails         \* which of the GPU's calls may fail

ASSUME GenerateAssumption ==
    /\ EosTokens \subseteq Nat
    /\ PrefillChunk \in Nat \ {0}
    /\ GpuFails \subseteq {"record", "prefill", "decode"}

VARIABLES
    gen,         \* "off", "record", "prefill", "sample", "decode" or how it stopped
    task,        \* the prompt, the parameters, max_tokens, what logits the model may give
    resident,    \* the tokens the model's KV stores hold
    toPrefill,   \* the chunks of the prompt not yet prefilled
    logits,      \* the logits last read
    out,         \* the tokens sampled, each given to on_token
    before       \* history: what was resident when generate was called

genVars == <<gen, task, resident, toPrefill, logits, out, before>>

Stopped == {"eos", "max_tokens", "aborted", "failed"}

NoLogits == <<>>

GenerateInit ==
    /\ gen = "off" /\ toPrefill = <<>> /\ logits = NoLogits
    /\ out = <<>> /\ before = resident

(* generate: an empty prompt is a panic, the caller never passes one.      *)
Call(t) ==
    /\ gen = "off" /\ t.prompt # <<>>
    /\ gen' = "record" /\ task' = t /\ toPrefill' = t.prompt
    /\ before' = resident
    /\ UNCHANGED <<resident, logits, out>>

(* The decode graph is recorded before anything else is done.              *)
Record ==
    /\ gen = "record"
    /\ gen' \in {"prefill"} \cup (IF "record" \in GpuFails THEN {"failed"} ELSE {})
    /\ UNCHANGED <<task, resident, toPrefill, logits, out, before>>

(* prefill, chunk by chunk; the logits are those after the last one.       *)
PrefillStep ==
    /\ gen = "prefill" /\ toPrefill # <<>>
    /\ LET n == SmallerOf(PrefillChunk, Len(toPrefill))
       IN /\ resident' = resident \o SubSeq(toPrefill, 1, n)
          /\ toPrefill' = SubSeq(toPrefill, n + 1, Len(toPrefill))
    /\ IF toPrefill' = <<>> THEN gen' = "sample" /\ logits' \in task.logits
       ELSE UNCHANGED <<gen, logits>>
    /\ UNCHANGED <<task, out, before>>

PrefillFails ==
    /\ gen = "prefill" /\ "prefill" \in GpuFails
    /\ gen' = "failed"
    /\ \E n \in {0, SmallerOf(PrefillChunk, Len(toPrefill))} :
         resident' = resident \o SubSeq(toPrefill, 1, n)
    /\ UNCHANGED <<task, toPrefill, logits, out, before>>

(* Mutant: one token more than the limit.                                  *)
ReachedAfter(n) == n > task.maxTokens

(* max_tokens is looked at after a token was sampled.                      *)
Reached(n) == n >= task.maxTokens

(* How the loop goes on after a token: the caller is asked first.          *)
Verdict(tok, goOn) ==
    IF ~goOn THEN "aborted"
    ELSE IF tok \in EosTokens THEN "eos"
    ELSE IF Reached(Len(out) + 1) THEN "max_tokens" ELSE "decode"

(* One round of the loop up to decode_step: sample, on_token, the limits.  *)
Sample ==
    /\ gen = "sample"
    /\ \E tok \in Draws(logits, task.params), goOn \in BOOLEAN :
         /\ out' = Append(out, tok)
         /\ gen' = Verdict(tok, goOn)
    /\ UNCHANGED <<task, resident, toPrefill, logits, before>>

(* decode_step feeds the token that was sampled last.                      *)
DecodeStep ==
    /\ gen = "decode"
    /\ resident' = Append(resident, Last(out))
    /\ gen' = "sample" /\ logits' \in task.logits
    /\ UNCHANGED <<task, toPrefill, out, before>>

DecodeFails ==
    /\ gen = "decode" /\ "decode" \in GpuFails
    /\ gen' = "failed"
    /\ resident' \in {resident, Append(resident, Last(out))}
    /\ UNCHANGED <<task, toPrefill, logits, out, before>>

GenerateStep ==
    Record \/ PrefillStep \/ PrefillFails \/ Sample \/ DecodeStep \/ DecodeFails

-----------------------------------------------------------------------------

GenTypeOK ==
    /\ gen \in Stopped \cup {"off", "record", "prefill", "sample", "decode"}
    /\ resident \in Seq(Nat) /\ before \in Seq(Nat) /\ toPrefill \in Seq(Nat)
    /\ out \in Seq(Nat)

(***************************************************************************)
(* What generate leaves behind.  The model holds the prompt and every      *)
(* token but the last one sampled, in order, and nothing else, whichever   *)
(* way it stopped; nothing is sampled after an end token or past a limit   *)
(* of one or more; and a call that fails holds a beginning of the          *)
(* conversation (generate, prefill, decode_step).  A limit of zero is left *)
(* out: a token is sampled before the limit is looked at, which is more    *)
(* than generate's comment allows ("up to `max_tokens` tokens").           *)
(***************************************************************************)
SaidIsResident ==
    gen \in Stopped \ {"failed"} => resident = before \o task.prompt \o Front(out)

EndsWhereItShould ==
    /\ \A i \in 1 .. Len(out) - 1 : out[i] \notin EosTokens
    /\ gen # "off" /\ task.maxTokens > 0 => Len(out) <= task.maxTokens
    /\ gen = "eos" <=> (out # <<>> /\ out[Len(out)] \in EosTokens /\ gen \notin {"aborted", "failed"})
    /\ gen = "max_tokens" => Len(out) >= task.maxTokens

FailureIsPrefix ==
    gen \in Stopped => /\ IsPrefix(resident, before \o task.prompt \o out)
                       /\ Len(before) <= Len(resident)

ReplyAccounts == SaidIsResident /\ EndsWhereItShould /\ FailureIsPrefix

(* The nucleus: the mass of all tokens with top-k off, else of the top k;  *)
(* at most so many tokens; and what a token has before it.                 *)
Limit(l, p) ==
    LET n == Cardinality(Tokens(l))
    IN IF p.topK # 0 THEN SmallerOf(SmallerOf(p.topK, WorkingSet), n)
       ELSE IF TopP(p) THEN n ELSE SmallerOf(WorkingSet, n)
Pool(l, p) ==
    Mass(l, p, IF p.topK = 0 THEN Tokens(l)
               ELSE LET cand == Descending(l, Tokens(l)) IN {cand[i] : i \in 1 .. Limit(l, p)})
Ahead(l, id) == {other \in Tokens(l) : l[other] > l[id]}
AheadOrTied(l, id) == Ahead(l, id) \cup {other \in Tokens(l) : l[other] = l[id] /\ other < id}
Within(l, p, set) ==
    /\ Cardinality(set) < Limit(l, p)
    /\ set # {} /\ TopP(p) => Mass(l, p, set) * p.den < p.num * Pool(l, p)

(***************************************************************************)
(* A token is drawn from the nucleus and from nowhere else: only one whose *)
(* more probable rivals fall short of top-p and of the limit, and every    *)
(* one that does even with its equals of lower id before it, however often *)
(* the working set has to be widened (Sampler::sample, select_top).        *)
(***************************************************************************)
DrawsFromNucleus ==
    gen = "sample" /\ task.params.base # 0 =>
      LET p == task.params
          drawn == Draws(logits, p)
      IN /\ \A id \in drawn : Within(logits, p, Ahead(logits, id))
         /\ \A id \in Tokens(logits) : Within(logits, p, AheadOrTied(logits, id)) => id \in drawn
=============================================================================
