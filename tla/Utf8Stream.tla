---------------------------- MODULE Utf8Stream ----------------------------
(***************************************************************************)
(* The streaming detokenizer of sg-tokenizer (detok.rs, and the decode     *)
(* half of tokenizer.rs).                                                  *)
(*                                                                         *)
(* A text is a sequence of symbols.  Three symbols stand for the bytes     *)
(* that matter to UTF-8: a lead byte of a two-byte and of a three-byte     *)
(* code point, and a continuation byte.  Every other symbol is a complete  *)
(* character: an ASCII byte, or a character of a vocabulary piece.         *)
(* DetokBuffer keeps in "pending" the bytes of a code point that is not    *)
(* complete yet.                                                           *)
(***************************************************************************)
EXTENDS Naturals, Sequences

Lead2 == "lead2"
Lead3 == "lead3"
Cont == "cont"
FFFD == "U+FFFD"          \* the replacement character

(* How many continuation bytes must follow a symbol.                       *)
Need(s) == CASE s = Lead2 -> 1 [] s = Lead3 -> 2 [] OTHER -> 0

(* The character a complete code point decodes to.                         *)
CodePoint(bytes) ==
    CASE bytes[1] = Lead2 -> "cp2" [] bytes[1] = Lead3 -> "cp3" [] OTHER -> bytes[1]

(***************************************************************************)
(* What str::from_utf8 says of the first code point of a nonempty text:    *)
(* complete in n symbols; ill-formed, n symbols to be replaced (a lead     *)
(* byte with the continuation bytes that do follow it, or a stray          *)
(* continuation byte); or a valid beginning that the text cuts short.      *)
(***************************************************************************)
FirstCodePoint(text) ==
    LET need == Need(text[1])
        got == CHOOSE k \in 0 .. need :
                 /\ \A i \in 1 .. k : i < Len(text) /\ text[i + 1] = Cont
                 /\ k < need => ~(k + 1 < Len(text) /\ text[k + 2] = Cont)
    IN CASE text[1] = Cont -> [is |-> "invalid", n |-> 1]
         [] text[1] # Cont /\ got = need -> [is |-> "complete", n |-> 1 + got]
         [] text[1] # Cont /\ got < need /\ Len(text) = 1 + got
              -> [is |-> "cut", n |-> Len(text)]
         [] OTHER -> [is |-> "invalid", n |-> 1 + got]

From(text, i) == SubSeq(text, i, Len(text))

(***************************************************************************)
(* DetokBuffer::push_byte: every complete code point and a replacement     *)
(* character per ill-formed sequence go out, a beginning stays pending.    *)
(***************************************************************************)
Drain(text) ==
    LET after(first, left, more) ==
          IF first.is = "cut" THEN [out |-> <<>>, pending |-> left]
          ELSE [out |-> <<IF first.is = "complete" THEN CodePoint(left) ELSE FFFD>> \o more.out,
                pending |-> more.pending]
        from[i \in 1 .. Len(text) + 1] ==
          IF i > Len(text) THEN [out |-> <<>>, pending |-> <<>>]
          ELSE after(FirstCodePoint(From(text, i)), From(text, i),
                     from[i + FirstCodePoint(From(text, i)).n])
    IN from[1]

(* Mutant: the text goes out when the run ends, not byte by byte.          *)
PushByteWaits(pending, byte) == [out |-> <<>>, pending |-> Append(pending, byte)]

(* Mutant: every byte is decoded alone.                                    *)
PushByteAlone(pending, byte) == [out |-> <<FFFD>>, pending |-> <<>>]

PushByte(pending, byte) == Drain(Append(pending, byte))

(* DetokBuffer::flush: a beginning nobody completed becomes one U+FFFD.    *)
Flush(pending) == IF pending = <<>> THEN <<>> ELSE <<FFFD>>

(* Tokenizer::decode_streaming: a byte token, or a piece, which ends any   *)
(* byte run before it.                                                     *)
IsByte(text) == Len(text) = 1 /\ text[1] \in {Lead2, Lead3, Cont}

DecodeStreaming(pending, text) ==
    IF IsByte(text) THEN PushByte(pending, text[1])
    ELSE [out |-> Flush(pending) \o text, pending |-> <<>>]

(***************************************************************************)
(* The whole text decoded at once, which the stream has to agree with.     *)
(***************************************************************************)
LossyDecode[text \in Seq(STRING)] ==
    IF text = <<>> THEN <<>>
    ELSE LET first == FirstCodePoint(text)
         IN IF first.is = "complete"
            THEN <<CodePoint(SubSeq(text, 1, first.n))>> \o LossyDecode[From(text, first.n + 1)]
            ELSE <<FFFD>> \o LossyDecode[From(text, first.n + 1)]

(* The text ends inside a code point.                                      *)
EndsCut(text) ==
    \E i \in 1 .. Len(text) :
       /\ \A j \in i + 1 .. Len(text) : text[j] = Cont
       /\ Len(text) - i < Need(text[i])
=============================================================================
