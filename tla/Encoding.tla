------------------------------ MODULE Encoding ------------------------------
(***************************************************************************)
(* What Tokenizer::encode makes of a text, as a function: a session        *)
(* compares ids, so a reply that is sent back as text is resumed only if   *)
(* encoding that text gives the sampled tokens again.  Tokenizer has the   *)
(* scan and the merge loop step by step, and is checked to implement       *)
(* MergeAll, whose order of merges is the one taken here.                  *)
(*                                                                         *)
(* An id is named by a string.  A special token's is the symbol it is      *)
(* written as, and so is that of a character with a piece of its own;      *)
(* merged ids have names of their own.  A space is the symbol that stands  *)
(* for both the space and the block it is normalized to.                   *)
(***************************************************************************)
EXTENDS Naturals, Sequences, SequencesExt

CONSTANTS
    SpecialPieces,  \* the symbols that are special tokens
    Spelling,       \* the characters with no piece: the ids of their bytes
    MergeTable      \* the rank and the merged id of a pair of ids

ASSUME EncodingAssumption ==
    /\ DOMAIN Spelling \cap SpecialPieces = {}
    /\ \A pair \in DOMAIN MergeTable :
         {pair[1], pair[2], MergeTable[pair][2]} \cap SpecialPieces = {}

LOCAL Reference == INSTANCE MergeAll WITH merges <- MergeTable, word <- <<>>, ids <- <<>>

(* The initial ids of a segment: byte fallback for what has no piece.      *)
SymbolIds(text) ==
    FlattenSeq([i \in DOMAIN text |->
        IF text[i] \in DOMAIN Spelling THEN Spelling[text[i]] ELSE <<text[i]>>])

(* merge_all: the leftmost pair of the lowest rank, until none is left.    *)
MergeOut[w \in Seq(STRING)] ==
    IF Reference!Places(w) = {} THEN w
    ELSE LET i == CHOOSE i \in Reference!Places(w) : Reference!Lowest(w, i)
         IN MergeOut[SubSeq(w, 1, i - 1) \o <<MergeTable[Reference!Pair(w, i)][2]>>
                     \o SubSeq(w, i + 2, Len(w))]

(* encode, with SpecialTokens::Match: the segments between the specials.   *)
Encode[text \in Seq(STRING)] ==
    LET at == SelectInSeq(text, LAMBDA s : s \in SpecialPieces)
    IN IF at = 0 THEN MergeOut[SymbolIds(text)]
       ELSE MergeOut[SymbolIds(SubSeq(text, 1, at - 1))]
            \o <<text[at]>> \o Encode[SubSeq(text, at + 1, Len(text))]
=============================================================================
