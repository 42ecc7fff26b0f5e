----------------------------- MODULE Tokenizer -----------------------------
(***************************************************************************)
(* sg-tokenizer/src/tokenizer.rs and bpe.rs: a text is cut at the special  *)
(* tokens written out in it, if they are to be matched, and what lies      *)
(* between them is merged.  The merge loop keeps the symbols in a doubly   *)
(* linked list and the pairs that may be merged in a heap, whose entries   *)
(* are not taken out when a neighbour changes: they go stale and are       *)
(* skipped when they come up.                                              *)
(*                                                                         *)
(* One step is one round of the scan for special tokens, or one entry      *)
(* popped.  Positions of the list count from 1.                            *)
(***************************************************************************)
EXTENDS Vocab

VARIABLES
    built,       \* what Vocab::from_metadata made of a file
    specials,    \* SpecialTokens: "match" or "plain"
    rest,        \* what is left of the text
    found,       \* the special token behind the segment being merged, if any
    syms,        \* the symbols of the segment
    heap,        \* entries <<rank, position, left id, right id>>
    ids          \* the ids so far

encodeVars == <<built, specials, rest, found, syms, heap, ids>>

vocab == built.tables
Rejected == built.error # "none"
NONE == 0

-----------------------------------------------------------------------------
(* encode_segment.                                                         *)

Utf8(c) ==
    CASE c = "cp2" -> <<Lead2, Cont>>
      [] c \in {"cp3", Block} -> <<Lead3, Cont, Cont>>
      [] OTHER -> <<c>>

Normalized(c) == IF c = Space THEN Block ELSE c

(* The initial ids of a character: its own, or those of its bytes.         *)
IdsOfChar(c) ==
    IF <<c>> \in DOMAIN vocab.ids THEN <<vocab.ids[<<c>>]>>
    ELSE [i \in DOMAIN Utf8(c) |-> vocab.byteToId[Utf8(c)[i]]]

InitialIds(text) == FlattenSeq([i \in DOMAIN text |-> IdsOfChar(Normalized(text[i]))])

Linked(w) ==
    [i \in 1 .. Len(w) |-> [id |-> w[i], prev |-> i - 1, alive |-> TRUE,
                            next |-> IF i = Len(w) THEN NONE ELSE i + 1]]

(* push_pair: the entry of a position and the one after it, if they merge. *)
EntryAt(list, left) ==
    IF left = NONE \/ list[left].next = NONE THEN {}
    ELSE LET pair == <<list[left].id, list[list[left].next].id>>
         IN IF pair \in DOMAIN vocab.merges
            THEN {<<vocab.merges[pair][1], left, pair[1], pair[2]>>} ELSE {}

StartSegment(text) ==
    LET list == Linked(InitialIds(text))
    IN syms' = list /\ heap' = UNION {EntryAt(list, i) : i \in DOMAIN list}

(* The heap's order: the rank, then the position.                          *)
Top == CHOOSE e \in heap :
         \A f \in heap : e[1] < f[1] \/ (e[1] = f[1] /\ e[2] <= f[2])

(* Mutant: an entry is only checked for its left symbol.                   *)
StaleLeftOnly(e) == ~syms[e[2]].alive \/ syms[e[2]].id # e[3] \/ syms[e[2]].next = NONE

(* The entry's pair is not there any more.                                 *)
Stale(e) ==
    \/ ~syms[e[2]].alive \/ syms[e[2]].id # e[3]
    \/ syms[e[2]].next = NONE \/ syms[syms[e[2]].next].id # e[4]

(* Mutant: a stale entry is looked at and not taken out.                   *)
PopStalePeek ==
    /\ heap # {} /\ Stale(Top)
    /\ UNCHANGED encodeVars

PopStale ==
    /\ heap # {} /\ Stale(Top)
    /\ heap' = heap \ {Top}
    /\ UNCHANGED <<built, specials, rest, found, syms, ids>>

(* The right symbol dies, the left one takes the merged id, and its pairs  *)
(* with both neighbours are new candidates.                                *)
PopMerge ==
    /\ heap # {} /\ ~Stale(Top)
    /\ LET left == Top[2]
           right == syms[left].next
           after == syms[right].next
           merged == [syms EXCEPT ![left].id = vocab.merges[<<Top[3], Top[4]>>][2],
                                  ![left].next = after, ![right].alive = FALSE]
           list == IF after = NONE THEN merged ELSE [merged EXCEPT ![after].prev = left]
       IN /\ syms' = list
          /\ heap' = (heap \ {Top}) \cup EntryAt(list, list[left].prev) \cup EntryAt(list, left)
    /\ UNCHANGED <<built, specials, rest, found, ids>>

(* The ids of the symbols that are alive.                                  *)
Alive(list) == FlattenSeq([i \in DOMAIN list |-> IF list[i].alive THEN <<list[i].id>> ELSE <<>>])

EndSegment ==
    /\ heap = {} /\ syms # <<>>
    /\ ids' = ids \o Alive(syms) \o found
    /\ syms' = <<>> /\ found' = <<>>
    /\ UNCHANGED <<built, specials, rest, heap>>

-----------------------------------------------------------------------------
(* encode.                                                                 *)

(* The first of the specials, as they are tried, that begins at a place, 0 *)
(* for none.                                                               *)
SpecialAt(text, start) ==
    IF text[start] # "<" THEN 0
    ELSE SelectInSeq(vocab.specials, LAMBDA id : IsPrefix(vocab.pieces[id], From(text, start)))

(* find_special: the first place where one begins, 0 for none.             *)
FindSpecial(text) == SelectInSeq([i \in DOMAIN text |-> SpecialAt(text, i)], LAMBDA at : at # 0)

EncodeInit(text, mode) ==
    /\ specials = mode /\ rest = text
    /\ found = <<>> /\ syms = <<>> /\ heap = {} /\ ids = <<>>

Segment(text, special, left) ==
    /\ rest' = left
    /\ IF text = <<>> THEN ids' = ids \o special /\ UNCHANGED <<found, syms, heap>>
       ELSE found' = special /\ StartSegment(text) /\ UNCHANGED ids

(* Mutant: the scan goes on one character behind the start of the special. *)
ScanOverlapping ==
    /\ rest # <<>> /\ syms = <<>>
    /\ LET start == IF specials = "match" THEN FindSpecial(rest) ELSE 0
       IN IF start = 0 THEN Segment(rest, <<>>, <<>>)
          ELSE LET id == vocab.specials[SpecialAt(rest, start)]
               IN Segment(SubSeq(rest, 1, start - 1), <<id>>, From(rest, start + 1))
    /\ UNCHANGED <<built, specials>>

(* One round of the loop: the text before the next special, and the        *)
(* special itself; or all the rest.                                        *)
Scan ==
    /\ rest # <<>> /\ syms = <<>>
    /\ LET start == IF specials = "match" THEN FindSpecial(rest) ELSE 0
       IN IF start = 0 THEN Segment(rest, <<>>, <<>>)
          ELSE LET id == vocab.specials[SpecialAt(rest, start)]
               IN Segment(SubSeq(rest, 1, start - 1), <<id>>,
                          From(rest, start + Len(vocab.pieces[id])))
    /\ UNCHANGED <<built, specials>>

EncodeStep == Scan \/ PopStale \/ PopMerge \/ EndSegment

Encoded == rest = <<>> /\ syms = <<>>

-----------------------------------------------------------------------------
(* decode: the pieces one after another, runs of bytes as UTF-8.           *)

DecodeToken(state, id) ==
    IF id \in DOMAIN vocab.idToByte
    THEN LET pushed == PushByte(state.pending, vocab.idToByte[id])
         IN [out |-> state.out \o pushed.out, pending |-> pushed.pending]
    ELSE [out |-> state.out \o Flush(state.pending)
                    \o ReplaceAll(vocab.pieces[id], Block, Space),
          pending |-> <<>>]

Decode(tokens) ==
    LET after[i \in 0 .. Len(tokens)] ==
          IF i = 0 THEN [out |-> <<>>, pending |-> <<>>] ELSE DecodeToken(after[i - 1], tokens[i])
        end == after[Len(tokens)]
    IN end.out \o Flush(end.pending)

Merges == IF Rejected THEN <<>> ELSE vocab.merges

Reference == INSTANCE MergeAll WITH merges <- Merges, word <- Alive(syms)
=============================================================================
