----------------------------- MODULE MergeAll ------------------------------
(***************************************************************************)
(* What byte-pair encoding is: the reference algorithm that bpe.rs mirrors *)
(* ("Word::merge_all").  The word of a segment is rewritten one pair at a  *)
(* time, always the pair of the lowest rank and of several the leftmost,   *)
(* until no two neighbours can be merged; then its ids are the encoding.   *)
(***************************************************************************)
EXTENDS Naturals, Sequences, SequencesExt

VARIABLES
    merges,      \* the merge table: rank and result of a pair of ids
    word,        \* the ids of the segment that is being merged
    ids          \* the ids encoded so far

mergeVars == <<merges, word, ids>>

Pair(w, i) == <<w[i], w[i + 1]>>
Places(w) == {i \in 1 .. Len(w) - 1 : Pair(w, i) \in DOMAIN merges}
Rank(w, i) == merges[Pair(w, i)][1]
Lowest(w, i) ==
    \A j \in Places(w) : Rank(w, i) < Rank(w, j) \/ (Rank(w, i) = Rank(w, j) /\ i <= j)

Init == word = <<>> /\ ids = <<>>

Begin == word = <<>> /\ word' \in Seq(Nat) /\ UNCHANGED ids

Merge ==
    \E i \in Places(word) :
       /\ Lowest(word, i)
       /\ word' = SubSeq(word, 1, i - 1) \o <<merges[Pair(word, i)][2]>>
                  \o SubSeq(word, i + 2, Len(word))
       /\ UNCHANGED ids

(* The word is done; a special token may stand behind it.                  *)
End ==
    /\ Places(word) = {}
    /\ IsPrefix(ids \o word, ids') /\ Len(ids') <= Len(ids \o word) + 1
    /\ word' = <<>>

Next == (Begin \/ Merge \/ End) /\ UNCHANGED merges

Spec == Init /\ [][Next]_mergeVars
=============================================================================
