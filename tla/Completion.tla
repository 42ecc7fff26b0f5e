----------------------------- MODULE Completion -----------------------------
(***************************************************************************)
(* From a text to the tokens generated after it, the way the tools drive   *)
(* the crates: the tokenizer is built from a file, the text is encoded,    *)
(* and generate is called with the ids.  Beside it, the evaluation path:   *)
(* calls of prefill_all_logits and prefill_plain on one model.             *)
(***************************************************************************)
EXTENDS Tokenizer, Generate, Scoring

CONSTANTS
    Files,    \* the metadata of the files a tokenizer is built from
    Jobs      \* what is asked for: completions and evaluations

(* What a file can hold under a key with texts, and the bytes that a text   *)
(* is made of: the table has all of them, when a file has them all (a        *)
(* symbol that stands for several characters has to be a piece). A text is  *)
(* whole characters: a byte of one that takes several is no letter.         *)
IsMetadata(meta) ==
    \A key \in {"tokens", "merges"} : Is(meta, key, "strs") => meta[key].of \in Seq(Seq(STRING))
Spellable(meta, c) == <<c>> \in Range(meta["tokens"].of) \/ Range(Utf8(c)) \subseteq Byte

ASSUME JobsAssumption ==
    \A f \in DOMAIN Files :
       /\ IsMetadata(Files[f])
       /\ VocabError(Files[f]) = "none" =>
            \A j \in Jobs : j.file = f =>
               /\ j.text \in Seq(STRING) /\ Range(j.text) \cap {Lead2, Lead3, Cont} = {}
               /\ \A c \in Range(j.text) : Spellable(Files[f], Normalized(c))

VARIABLES
    job,         \* the job of this behaviour
    calls        \* the evaluation calls still to make

vars == <<job, calls, encodeVars, genVars, scoreVars>>

Init ==
    /\ \E f \in DOMAIN Files : \E made \in {FromMetadata(Files[f])} :
         built = made /\ job \in {j \in Jobs : j.file = f}
    /\ EncodeInit(job.text, job.specials)
    /\ resident = job.resident /\ task = job /\ GenerateInit
    /\ calls = job.calls /\ ScoreInit

Encode ==
    /\ ~Rejected
    /\ EncodeStep
    /\ UNCHANGED <<job, calls, genVars, scoreVars>>

Generate ==
    /\ job.kind = "complete" /\ ~Rejected /\ Encoded
    /\ \/ Call([job EXCEPT !.prompt = ids])
       \/ GenerateStep
    /\ UNCHANGED <<job, calls, encodeVars, scoreVars>>

Evaluate ==
    /\ job.kind = "score"
    /\ \/ /\ calls # <<>>
          /\ StartScore(calls[1].n, calls[1].kind)
          /\ calls' = Tail(calls)
       \/ ScoreStep /\ UNCHANGED calls
    /\ UNCHANGED <<job, encodeVars, genVars>>

Next == Encode \/ Generate \/ Evaluate

(* One thread, and every GPU call returns.                                 *)
Spec == Init /\ [][Next]_vars /\ WF_vars(Next)

-----------------------------------------------------------------------------

AsText(t) == [i \in DOMAIN t |-> IF t[i] = Block THEN Space ELSE t[i]]

(***************************************************************************)
(* The merge loop with its linked list and its stale entries is the        *)
(* textbook algorithm: every step is the merge of the lowest-ranked        *)
(* leftmost pair, or nothing (encode_segment).                             *)
(***************************************************************************)
ImplementsMergeAll == Reference!Spec

(***************************************************************************)
(* No character is lost, doubled or changed by encoding, whatever is       *)
(* spelled in bytes, merged or matched as a special token: at every step   *)
(* the ids so far decode to the text consumed.  Only U+2581 comes back as  *)
(* a space (encode, encode_segment, decode).                               *)
(***************************************************************************)
RoundTrip ==
    job.kind = "complete" /\ ~Rejected => Decode(ids \o Alive(syms) \o found) \o AsText(rest) = AsText(job.text)

(* The special tokens of a text, the longest at every place.               *)
SpecialPieces == {id \in DOMAIN vocab.types : vocab.types[id] \in {"control", "userdefined"}}
IsAt(t, i, id) == IsPrefix(vocab.pieces[id], From(t, i))
LongestAt(t, i) ==
    CHOOSE id \in SpecialPieces :
      /\ IsAt(t, i, id)
      /\ \A other \in SpecialPieces :
           IsAt(t, i, other) => Len(vocab.pieces[other]) <= Len(vocab.pieces[id])
SpecialsIn(w) == FlattenSeq([i \in DOMAIN w |-> IF w[i] \in SpecialPieces THEN <<w[i]>> ELSE <<>>])
SpecialsOf(t) ==
    LET from[i \in 1 .. Len(t) + 1] ==
          IF i > Len(t) THEN <<>>
          ELSE IF \E id \in SpecialPieces : IsAt(t, i, id)
               THEN <<LongestAt(t, i)>> \o from[i + Len(vocab.pieces[LongestAt(t, i)])]
               ELSE from[i + 1]
    IN from[1]

(***************************************************************************)
(* Text that is matched yields exactly the special tokens written out in   *)
(* it, leftmost first and the longest of several; plain text yields none,  *)
(* so that user input cannot turn into control tokens (encode,             *)
(* find_special, Vocab::specials).                                         *)
(***************************************************************************)
SpecialsMatched ==
    ~Rejected /\ Encoded =>
      SpecialsIn(ids) = IF specials = "match" THEN SpecialsOf(job.text) ELSE <<>>

(***************************************************************************)
(* Every job comes to an end: no loop of the merge engine, of the sampler's*)
(* callers or of the chunks runs for ever, stale entries, failures and a   *)
(* max_tokens of zero included.                                            *)
(***************************************************************************)
CompletionEnds ==
    <>(\/ Rejected \/ gen \in Stopped
       \/ job.kind = "score" /\ calls = <<>> /\ score \in {"ok", "failed"})
=============================================================================
