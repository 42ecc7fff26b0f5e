-------------------------- MODULE TokenizerProofs --------------------------
(***************************************************************************)
(* The merge engine of the tokenizer for every vocabulary a file can hold, *)
(* every text and every special token: with its linked list and its stale  *)
(* heap entries it is the textbook algorithm. The ids it yields decode to  *)
(* the text, and their special tokens are those of the text.               *)
(***************************************************************************)
EXTENDS Completion, SequenceLemmas

-----------------------------------------------------------------------------
(* The vocabulary.                                                          *)

LEMMA NoErrorAt ==
  ASSUME NEW S, NEW errors \in Seq(S), FirstError(errors) = "none"
  PROVE  \A i \in 1 .. Len(errors) : errors[i] = "none"
<1> DEFINE I == {i \in 1 .. Len(errors) : errors[i] # "none"}
           first == SelectInSeq(errors, LAMBDA e : e # "none")
<1>1. SUFFICES ASSUME I # {} PROVE FALSE
  OBVIOUS
<1>2. first = Min(I)
  BY <1>1 DEF SelectInSeq
<1>3. I \subseteq Nat
  OBVIOUS
<1>4. Min(I) \in I
  <2> HIDE DEF I
  <2> QED BY ONLY <1>1, <1>3, MinIn
<1>5. first # 0 /\ errors[first] # "none"
  BY <1>2, <1>4
<1>6. FirstError(errors) = errors[first]
  BY <1>5 DEF FirstError
<1> QED BY <1>5, <1>6

IsTokens(meta) == IsMetadata(meta) /\ VocabError(meta) = "none"

LEMMA NoHeaderError ==
  ASSUME NEW meta, IsTokens(meta)
  PROVE  /\ HeaderError(meta) = "none" /\ ByteTableError(meta) = "none"
         /\ Is(meta, "tokens", "strs") /\ Is(meta, "merges", "strs")
         /\ meta["tokens"].of \in Seq(Seq(STRING)) /\ meta["merges"].of \in Seq(Seq(STRING))
         /\ FirstError([i \in DOMAIN meta["merges"].of |-> MergeError(meta, meta["merges"].of[i])]
                    \o <<SpecialIdError(meta, "bos"), SpecialIdError(meta, "eos"),
                         SpecialIdError(meta, "pad"), SpecialIdError(meta, "unk"),
                         IF IdOf(meta, EotPiece) = {} THEN "SpecialIdMismatch" ELSE "none">>) = "none"
<1>1. VocabError(meta) = "none"
  BY DEF IsTokens
<1>2. HeaderError(meta) = "none"
  BY <1>1, Zenon DEF VocabError
<1>3. TokensError(meta) = "none"
  BY <1>1, <1>2, Zenon DEF VocabError
<1>4. ByteTableError(meta) = "none"
  BY <1>1, <1>2, <1>3, Zenon DEF VocabError
<1>5. Is(meta, "merges", "strs")
  BY <1>1, <1>2, <1>3, <1>4 DEF VocabError
<1>6. Is(meta, "tokens", "strs")
  BY <1>2, Zenon DEF HeaderError
<1>7. FirstError([i \in DOMAIN meta["merges"].of |-> MergeError(meta, meta["merges"].of[i])]
                    \o <<SpecialIdError(meta, "bos"), SpecialIdError(meta, "eos"),
                         SpecialIdError(meta, "pad"), SpecialIdError(meta, "unk"),
                         IF IdOf(meta, EotPiece) = {} THEN "SpecialIdMismatch" ELSE "none">>) = "none"
  BY <1>1, <1>2, <1>3, <1>4, <1>5, Zenon DEF VocabError
<1>8. meta["tokens"].of \in Seq(Seq(STRING)) /\ meta["merges"].of \in Seq(Seq(STRING))
  BY <1>5, <1>6 DEF IsTokens, IsMetadata
<1> QED BY <1>2, <1>4, <1>5, <1>6, <1>7, <1>8

LEMMA NoMergeError ==
  ASSUME NEW meta, IsTokens(meta), NEW i \in DOMAIN meta["merges"].of
  PROVE  MergeError(meta, meta["merges"].of[i]) = "none"
<1> DEFINE list == meta["merges"].of
           s == [k \in DOMAIN list |-> MergeError(meta, list[k])]
           r == <<SpecialIdError(meta, "bos"), SpecialIdError(meta, "eos"),
                  SpecialIdError(meta, "pad"), SpecialIdError(meta, "unk"),
                  IF IdOf(meta, EotPiece) = {} THEN "SpecialIdMismatch" ELSE "none">>
<1>1. list \in Seq(Seq(STRING)) /\ FirstError(s \o r) = "none"
  BY NoHeaderError, Zenon
<1> DEFINE S == {MergeError(meta, list[k]) : k \in DOMAIN list} \cup {r[k] : k \in 1 .. 5}
<1>4. s \in Seq(S) /\ Len(s) = Len(list) /\ DOMAIN list = 1 .. Len(list)
  <2>1. \A k \in DOMAIN list : MergeError(meta, list[k]) \in S
    OBVIOUS
  <2>2. Len(list) \in Nat /\ DOMAIN list = 1 .. Len(list)
    BY <1>1
  <2> HIDE DEF S, r, list
  <2> QED BY <2>1, <2>2
<1>5. r \in Seq(S)
  <2>1. \A k \in 1 .. 5 : r[k] \in S
    OBVIOUS
  <2>2. r = [k \in 1 .. 5 |-> r[k]]
    OBVIOUS
  <2> HIDE DEF S, r, s, list
  <2> QED BY <2>1, <2>2
<1>6. s[i] = MergeError(meta, list[i])
  OBVIOUS
<1>7. s[i] = "none"
  <2> HIDE DEF s, r, list, S
  <2>1. s \o r \in Seq(S)
    BY ONLY <1>4, <1>5
  <2>2. \A k \in 1 .. Len(s \o r) : (s \o r)[k] = "none"
    BY ONLY <1>1, <2>1, NoErrorAt
  <2>3. /\ Len(s \o r) = Len(s) + Len(r) /\ Len(s) \in Nat /\ Len(r) \in Nat
        /\ \A k \in 1 .. Len(s) : (s \o r)[k] = s[k]
    BY ONLY <1>4, <1>5, JoinedAt
  <2>4. i \in 1 .. Len(s)
    BY <1>4 DEF list
  <2> QED BY <2>2, <2>3, <2>4
<1> QED BY <1>6, <1>7

LEMMA IdsAreNumbers ==
  ASSUME NEW meta, IsTokens(meta)
  PROVE  /\ Ids(meta) \subseteq Nat /\ IsFiniteSet(Ids(meta))
         /\ \A piece : IdOf(meta, piece) # {} => TheId(meta, piece) \in Ids(meta)
         /\ \A id \in Ids(meta) : PieceOf(meta, id) \in Seq(STRING)
<1>1. meta["tokens"].of \in Seq(Seq(STRING)) /\ Len(meta["tokens"].of) \in Nat
  <2>1. meta["tokens"].of \in Seq(Seq(STRING))
    BY NoHeaderError, Zenon
  <2> QED BY <2>1
<1>2. Ids(meta) \subseteq Nat /\ IsFiniteSet(Ids(meta))
  <2>1. Len(meta["tokens"].of) - 1 \in Int
    BY <1>1
  <2>2. IsFiniteSet(0 .. Len(meta["tokens"].of) - 1)
    BY <2>1, FS_Interval
  <2> QED BY <2>1, <2>2 DEF Ids
<1>3. \A id \in Ids(meta) : PieceOf(meta, id) \in Seq(STRING)
  BY <1>1 DEF Ids, PieceOf
<1>4. ASSUME NEW piece, IdOf(meta, piece) # {}
      PROVE  TheId(meta, piece) \in Ids(meta)
  <2>1. \E id \in Ids(meta) : PieceOf(meta, id) = piece
    BY <1>4 DEF IdOf
  <2> QED BY <2>1 DEF TheId
<1> QED BY <1>2, <1>3, <1>4

(* The special tokens, sorted, are ids of the vocabulary.                   *)
LEMMA SpecialsAreIds ==
  ASSUME NEW meta, IsTokens(meta)
  PROVE  Specials(meta) \in Seq(Ids(meta))
<1> DEFINE S == SpecialIds(meta)
           R == {p \in S \X S : Precedes(meta, p[1], p[2])}
<1>1. S \in SUBSET Ids(meta)
  BY DEF SpecialIds
<1>2. IsFiniteSet(S)
  BY <1>1, IdsAreNumbers, FS_Subset
<1>3. \A a \in S : a \in Nat /\ Len(PieceOf(meta, a)) \in Nat
  BY <1>1, IdsAreNumbers
<1>4. IsStrictOrder(R, S)
  <2>1. \A a \in S : ~Precedes(meta, a, a)
    BY <1>3 DEF Precedes
  <2>2. \A a, b \in S : a = b \/ Precedes(meta, a, b) \/ Precedes(meta, b, a)
    BY <1>3 DEF Precedes
  <2>3. \A a, b, c \in S : Precedes(meta, a, b) /\ Precedes(meta, b, c) => Precedes(meta, a, c)
    BY <1>3 DEF Precedes
  <2>4. \A a, b \in S : <<a, b>> \in R <=> Precedes(meta, a, b)
    OBVIOUS
  <2> HIDE DEF R, S
  <2> QED BY <2>1, <2>2, <2>3, <2>4 DEF IsStrictOrder
<1>5. \A a \in S : Preceding(R, S, a) = {other \in S : Precedes(meta, other, a)}
  BY DEF Preceding
<1>6. /\ Cardinality(S) \in Nat
      /\ \A i \in 1 .. Cardinality(S) :
           \E a \in S : Cardinality({other \in S : Precedes(meta, other, a)}) = i - 1
  <2> HIDE DEF R, S
  <2>1. /\ Cardinality(S) \in Nat
        /\ \A i \in 1 .. Cardinality(S) : \E a \in S : Cardinality(Preceding(R, S, a)) = i - 1
    BY ONLY <1>2, <1>4, OrderPlaces
  <2> QED BY <1>5, <2>1
<1>7. \A i \in 1 .. Cardinality(S) :
        (CHOOSE id \in S : Cardinality({other \in S : Precedes(meta, other, id)}) = i - 1) \in S
  <2> HIDE DEF R, S
  <2> QED BY <1>6
<1> DEFINE Ranked(i) == CHOOSE id \in S : Cardinality({other \in S : Precedes(meta, other, id)}) = i - 1
<1>8. Specials(meta) = [i \in 1 .. Cardinality(S) |-> Ranked(i)]
  BY DEF Specials
<1>9. \A i \in 1 .. Cardinality(S) : Ranked(i) \in Ids(meta)
  BY <1>1, <1>7
<1> HIDE DEF S, R, Ranked
<1> QED BY <1>6, <1>8, <1>9

LEMMA BytesHaveIds ==
  ASSUME NEW meta, IsTokens(meta), NEW b \in Byte
  PROVE  (CHOOSE id \in BytesOfType(meta) : ByteOf(meta, id) = b) \in Nat
<1>1. {ByteOf(meta, id) : id \in BytesOfType(meta)} = Byte
  <2>1. ByteTableError(meta) = "none"
    BY NoHeaderError
  <2> QED BY <2>1 DEF ByteTableError
<1>2. \E id \in BytesOfType(meta) : ByteOf(meta, id) = b
  BY <1>1
<1>3. BytesOfType(meta) \subseteq Nat
  BY IdsAreNumbers DEF BytesOfType
<1> QED BY <1>2, <1>3

(* What a file that was accepted gives the tokenizer to work with.          *)
VocabOK(tables, letters) ==
  /\ DOMAIN tables.merges \subseteq Nat \X Nat
  /\ tables.merges \in [DOMAIN tables.merges -> Nat \X Nat]
  /\ \A piece \in DOMAIN tables.ids : tables.ids[piece] \in Nat
  /\ \A c \in letters : \/ <<Normalized(c)>> \in DOMAIN tables.ids
                        \/ Range(Utf8(Normalized(c))) \subseteq DOMAIN tables.byteToId
  /\ \A b \in DOMAIN tables.byteToId : tables.byteToId[b] \in Nat
  /\ tables.specials \in Seq(Nat)
  /\ \A k \in 1 .. Len(tables.specials) : Len(tables.pieces[tables.specials[k]]) \in Nat

LEMMA MergesOfFile ==
  ASSUME NEW meta, IsTokens(meta)
  PROVE  LET merges == Tables(meta).merges
         IN /\ DOMAIN merges \subseteq Nat \X Nat
            /\ merges \in [DOMAIN merges -> Nat \X Nat]
<1> DEFINE list == meta["merges"].of
           pair(i) == <<TheId(meta, LeftOf(list[i])), TheId(meta, RightOf(list[i]))>>
           pairs == [i \in DOMAIN list |-> pair(i)]
           rank(p) == SelectLastInSeq(pairs, LAMBDA q : q = p)
           P == {pair(i) : i \in DOMAIN list}
           value(p) == <<rank(p) - 1, TheId(meta, LeftOf(list[rank(p)]) \o RightOf(list[rank(p)]))>>
<1>1. list \in Seq(Seq(STRING)) /\ Len(list) \in Nat /\ DOMAIN list = 1 .. Len(list)
  <2>1. list \in Seq(Seq(STRING))
    BY NoHeaderError, Zenon
  <2> HIDE DEF list
  <2> QED BY <2>1
<1>2. Tables(meta).merges = [p \in P |-> value(p)]
  BY DEF Tables
<1>3. ASSUME NEW i \in DOMAIN list
      PROVE  /\ TheId(meta, LeftOf(list[i])) \in Nat
             /\ TheId(meta, RightOf(list[i])) \in Nat
             /\ TheId(meta, LeftOf(list[i]) \o RightOf(list[i])) \in Nat
  <2>1. MergeError(meta, list[i]) = "none"
    BY NoMergeError
  <2>2. ~MissesPiece(meta, list[i])
    BY <2>1 DEF MergeError
  <2>3. /\ IdOf(meta, LeftOf(list[i])) # {} /\ IdOf(meta, RightOf(list[i])) # {}
        /\ IdOf(meta, LeftOf(list[i]) \o RightOf(list[i])) # {}
    <3> HIDE DEF list
    <3> QED BY <2>2 DEF MissesPiece
  <2> HIDE DEF list
  <2> QED BY <2>3, IdsAreNumbers
<1>4. \A i \in DOMAIN list : pair(i) \in Nat \X Nat
  <2> HIDE DEF list
  <2> QED BY <1>3
<1>5. ASSUME NEW p \in P
      PROVE  rank(p) \in DOMAIN list
  <2> DEFINE I == {i \in 1 .. Len(pairs) : pairs[i] = p}
  <2>1. Len(pairs) = Len(list)
    <3> HIDE DEF list, pair
    <3> QED BY <1>1
  <2>2. PICK i \in DOMAIN list : p = pair(i)
    OBVIOUS
  <2>3. I \subseteq 1 .. Len(list) /\ I # {}
    <3>1. i \in 1 .. Len(pairs) /\ pairs[i] = p
      <4> HIDE DEF list, pair
      <4> QED BY <1>1, <2>1, <2>2
    <3> HIDE DEF pairs, list
    <3> QED BY <2>1, <3>1
  <2>4. rank(p) = Max(I)
    <3>1. I # {}
      BY <2>3
    <3> HIDE DEF pairs
    <3> QED BY <3>1 DEF SelectLastInSeq
  <2>5. Max(I) \in I
    <3> HIDE DEF I, list
    <3> QED BY <1>1, <2>3, MaxIn
  <2> HIDE DEF rank, pairs, list
  <2> QED BY <1>1, <2>3, <2>4, <2>5
<1>6. \A p \in P : value(p) \in Nat \X Nat
  <2>1. \A p \in P : rank(p) \in 1 .. Len(list) /\ TheId(meta, LeftOf(list[rank(p)]) \o RightOf(list[rank(p)])) \in Nat
    <3> HIDE DEF rank, list, P
    <3> QED BY <1>1, <1>3, <1>5
  <2> HIDE DEF rank, list, P
  <2> QED BY <1>1, <2>1
<1>7. P \subseteq Nat \X Nat
  <2> HIDE DEF list, pair
  <2> QED BY <1>4
<1> HIDE DEF P, value
<1> QED BY <1>2, <1>6, <1>7

LEMMA TablesOK ==
  ASSUME NEW meta, IsTokens(meta), NEW letters,
         \A c \in letters : Spellable(meta, Normalized(c))
  PROVE  VocabOK(Tables(meta), letters)
<1> DEFINE t == Tables(meta)
<1>1. t.ids = [piece \in Range(meta["tokens"].of) |-> TheId(meta, piece)]
  BY DEF Tables
<1>2. t.byteToId = [b \in Byte |-> CHOOSE id \in BytesOfType(meta) : ByteOf(meta, id) = b]
  BY DEF Tables
<1>3. t.specials = Specials(meta) /\ t.pieces = [id \in Ids(meta) |-> PieceOf(meta, id)]
  BY DEF Tables
<1>4. DOMAIN t.merges \subseteq Nat \X Nat /\ t.merges \in [DOMAIN t.merges -> Nat \X Nat]
  BY MergesOfFile
<1>5. DOMAIN t.byteToId = Byte /\ \A b \in Byte : t.byteToId[b] \in Nat
  BY <1>2, BytesHaveIds
<1>6. ASSUME NEW piece \in Range(meta["tokens"].of)
      PROVE  piece \in DOMAIN t.ids /\ t.ids[piece] \in Nat
  <2>1. meta["tokens"].of \in Seq(Seq(STRING))
    BY NoHeaderError, Zenon
  <2>2. PICK i \in 1 .. Len(meta["tokens"].of) : piece = meta["tokens"].of[i]
    BY <2>1 DEF Range
  <2>3. i - 1 \in Ids(meta) /\ PieceOf(meta, i - 1) = piece
    BY <2>1, <2>2 DEF Ids, PieceOf
  <2>4. IdOf(meta, piece) # {}
    BY <2>3 DEF IdOf
  <2>5. TheId(meta, piece) \in Nat
    BY <2>4, IdsAreNumbers
  <2> QED BY <1>1, <2>5
<1>7. t.specials \in Seq(Nat) /\ \A k \in 1 .. Len(t.specials) : Len(t.pieces[t.specials[k]]) \in Nat
  <2>1. t.specials \in Seq(Ids(meta)) /\ Ids(meta) \subseteq Nat
    BY <1>3, SpecialsAreIds, IdsAreNumbers
  <2>2. \A id \in Ids(meta) : Len(t.pieces[id]) \in Nat
    BY <1>3, IdsAreNumbers
  <2> HIDE DEF t
  <2> QED BY <2>1, <2>2
<1>8. /\ \A piece \in DOMAIN t.ids : t.ids[piece] \in Nat
      /\ \A c \in letters : \/ <<Normalized(c)>> \in DOMAIN t.ids
                            \/ Range(Utf8(Normalized(c))) \subseteq DOMAIN t.byteToId
  <2>1. DOMAIN t.ids = Range(meta["tokens"].of)
    BY <1>1
  <2> HIDE DEF t
  <2> QED BY <1>5, <1>6, <2>1 DEF Spellable
<1> HIDE DEF t
<1>9. VocabOK(t, letters)
  BY <1>4, <1>5, <1>7, <1>8 DEF VocabOK
<1> QED BY <1>9 DEF t

-----------------------------------------------------------------------------
(* The symbols that are alive, and where they stand in the word.            *)

Symbols == [id : Nat, prev : Nat, next : Nat, alive : BOOLEAN]
Live(list) == {i \in 1 .. Len(list) : list[i].alive}

(* off[k] symbols are alive up to the k-th.                                 *)
Counts(off, list) ==
  /\ off \in [0 .. Len(list) -> Nat] /\ off[0] = 0
  /\ \A k \in 1 .. Len(list) : off[k] = off[k - 1] + (IF list[k].alive THEN 1 ELSE 0)
  /\ Alive(list) \in Seq(Nat) /\ Len(Alive(list)) = off[Len(list)]
  /\ \A k \in Live(list) : Alive(list)[off[k]] = list[k].id

LEMMA CountsExist ==
  ASSUME NEW list \in Seq(Symbols)
  PROVE  \E off : Counts(off, list)
<1> DEFINE N == Len(list)
           seqs == [i \in 1 .. N |-> IF list[i].alive THEN <<list[i].id>> ELSE <<>>]
<1>1. N \in Nat /\ \A i \in 1 .. N : list[i] \in Symbols
  OBVIOUS
<1>2. \A i \in 1 .. N : list[i].id \in Nat /\ list[i].alive \in BOOLEAN
  BY <1>1 DEF Symbols
<1>3. Alive(list) = FlattenSeq(seqs)
  BY DEF Alive
<1>4. seqs \in [1 .. N -> Seq(Nat)]
  BY <1>2
<1>5. \A i \in 1 .. N : Len(seqs[i]) = IF list[i].alive THEN 1 ELSE 0
  BY <1>2
<1>6. \A i \in 1 .. N : list[i].alive => seqs[i][1] = list[i].id
  BY <1>2
<1> HIDE DEF seqs
<1>7. CASE N = 0
  <2> DEFINE z == [k \in 0 .. 0 |-> 0]
  <2>1. Alive(list) = <<>>
    <3>1. Len(seqs) = 0 /\ seqs = <<>>
      BY <1>4, <1>7
    <3> QED BY <1>3, <3>1 DEF FlattenSeq
  <2>2. Counts(z, list)
    BY <1>7, <2>1 DEF Counts, Live
  <2> QED BY <2>2
<1>8. CASE N # 0
  <2>1. PICK off : Offsets(off, Nat, N, seqs)
    BY ONLY <1>1, <1>4, <1>8, FlattenAt
  <2>2. /\ off \in [0 .. N -> Nat] /\ off[0] = 0
        /\ \A k \in 1 .. N : off[k] = off[k - 1] + Len(seqs[k])
        /\ Alive(list) \in Seq(Nat) /\ Len(Alive(list)) = off[N]
        /\ \A k \in 1 .. N : \A j \in 1 .. Len(seqs[k]) : Alive(list)[off[k - 1] + j] = seqs[k][j]
    BY <1>3, <2>1, Zenon DEF Offsets
  <2>3. \A k \in 1 .. N : off[k] = off[k - 1] + (IF list[k].alive THEN 1 ELSE 0)
    BY <1>5, <2>2
  <2>4. ASSUME NEW k \in Live(list)
        PROVE  Alive(list)[off[k]] = list[k].id
    <3>1. k \in 1 .. N /\ list[k].alive
      BY DEF Live
    <3>2. off[k] = off[k - 1] + 1 /\ Len(seqs[k]) = 1 /\ seqs[k][1] = list[k].id
      BY <1>5, <1>6, <2>3, <3>1
    <3>3. 1 \in 1 .. Len(seqs[k])
      BY <3>2
    <3>4. Alive(list)[off[k - 1] + 1] = seqs[k][1]
      BY ONLY <2>2, <3>1, <3>3
    <3> QED BY ONLY <3>2, <3>4
  <2> QED BY <2>2, <2>3, <2>4 DEF Counts
<1> QED BY <1>7, <1>8

LEMMA CountsGrow ==
  ASSUME NEW list \in Seq(Symbols), NEW off, Counts(off, list),
         NEW i \in 0 .. Len(list), NEW k \in 0 .. Len(list), i <= k
  PROVE  /\ off[i] \in Nat /\ off[k] \in Nat /\ off[i] <= off[k]
         /\ i < k /\ k \in Live(list) => off[i] < off[k]
<1> DEFINE N == Len(list)
           S == {q \in 0 .. N : i <= q => off[i] <= off[q]}
<1>1. /\ N \in Nat /\ off \in [0 .. N -> Nat]
      /\ \A q \in 1 .. N : off[q] = off[q - 1] + (IF list[q].alive THEN 1 ELSE 0)
  BY DEF Counts
<1>2. 0 \in S
  <2>1. 0 \in 0 .. N /\ (i <= 0 => i = 0)
    BY <1>1
  <2> QED BY <1>1, <2>1
<1>3. ASSUME NEW q \in 1 .. N, q - 1 \in S
      PROVE  q \in S
  <2>1. off[q - 1] <= off[q]
    <3>1. q - 1 \in 0 .. N /\ off[q - 1] \in Nat
      BY <1>1
    <3>2. off[q] = off[q - 1] + (IF list[q].alive THEN 1 ELSE 0)
      BY <1>1, Zenon
    <3>3. off[q] = off[q - 1] \/ off[q] = off[q - 1] + 1
      BY ONLY <3>1, <3>2
    <3> QED BY ONLY <3>1, <3>3
  <2>2. i <= q - 1 => off[i] <= off[q - 1]
    BY <1>3
  <2>3. off[i] \in Nat /\ off[q - 1] \in Nat /\ off[q] \in Nat
    <3>1. N \in Nat /\ off \in [0 .. N -> Nat]
      BY <1>1, Zenon
    <3>2. i \in 0 .. N /\ q \in 1 .. N
      OBVIOUS
    <3> HIDE DEF N
    <3> QED BY ONLY <3>1, <3>2
  <2> QED BY <2>1, <2>2, <2>3
<1>4. \A q \in 0 .. N : q \in S
  <2> HIDE DEF S
  <2> QED BY ONLY <1>1, <1>2, <1>3, BoundedInduction
<1>5. off[i] <= off[k]
  BY <1>4
<1>6. ASSUME i < k, k \in Live(list)
      PROVE  off[i] < off[k]
  <2>1. off[i] <= off[k - 1]
    BY <1>4, <1>6
  <2>2. off[k] = off[k - 1] + 1
    BY <1>1, <1>6 DEF Live
  <2> QED BY <1>1, <1>6, <2>1, <2>2
<1> QED BY <1>1, <1>5, <1>6

(* Where nothing is alive, nothing is counted.                              *)
LEMMA CountsRest ==
  ASSUME NEW list \in Seq(Symbols), NEW off, Counts(off, list),
         NEW i \in 0 .. Len(list), NEW k \in 0 .. Len(list), i <= k,
         \A q \in Live(list) : q <= i \/ k < q
  PROVE  off[k] = off[i]
<1> DEFINE N == Len(list)
           S == {q \in 0 .. N : i <= q /\ q <= k => off[q] = off[i]}
<1>1. /\ N \in Nat /\ off \in [0 .. N -> Nat]
      /\ \A q \in 1 .. N : off[q] = off[q - 1] + (IF list[q].alive THEN 1 ELSE 0)
  BY DEF Counts
<1>2. 0 \in S
  <2>1. 0 \in 0 .. N /\ (i <= 0 => i = 0)
    BY <1>1
  <2> QED BY <2>1
<1>3. ASSUME NEW q \in 1 .. N, q - 1 \in S
      PROVE  q \in S
  <2>1. CASE i < q /\ q <= k
    <3>1. ~list[q].alive
      BY <2>1 DEF Live
    <3>2. off[q] = off[q - 1]
      BY <1>1, <3>1
    <3>3. off[q - 1] = off[i]
      BY <1>3, <2>1
    <3> QED BY <3>2, <3>3
  <2>2. CASE ~(i < q /\ q <= k)
    BY <2>2
  <2> QED BY <2>1, <2>2
<1>4. \A q \in 0 .. N : q \in S
  <2> HIDE DEF S
  <2> QED BY ONLY <1>1, <1>2, <1>3, BoundedInduction
<1> QED BY <1>4

(* Every place of the word is that of a symbol.                             *)
LEMMA CountsReach ==
  ASSUME NEW list \in Seq(Symbols), NEW off, Counts(off, list), NEW m \in 1 .. Len(Alive(list))
  PROVE  \E k \in Live(list) : off[k] = m
<1> DEFINE N == Len(list)
           S == {q \in 0 .. N : m <= off[q] => \E k \in Live(list) : off[k] = m}
<1>1. /\ N \in Nat /\ off \in [0 .. N -> Nat] /\ off[0] = 0 /\ m \in Nat /\ m # 0
      /\ \A q \in 1 .. N : off[q] = off[q - 1] + (IF list[q].alive THEN 1 ELSE 0)
      /\ Len(Alive(list)) = off[N]
  BY DEF Counts
<1>2. 0 \in S
  BY <1>1
<1>3. ASSUME NEW q \in 1 .. N, q - 1 \in S
      PROVE  q \in S
  <2>1. CASE m <= off[q - 1]
    BY <1>3, <2>1
  <2>2. CASE ~(m <= off[q - 1]) /\ m <= off[q]
    <3>1. list[q].alive /\ off[q] = m
      <4>1. /\ off[q - 1] \in Nat /\ off[q] \in Nat /\ m \in Nat
            /\ off[q] = off[q - 1] + (IF list[q].alive THEN 1 ELSE 0)
        <5>1. q - 1 \in 0 .. N /\ q \in 0 .. N
          BY ONLY <1>1, q \in 1 .. N
        <5> QED BY ONLY <1>1, <5>1, q \in 1 .. N
      <4> QED BY ONLY <2>2, <4>1
    <3>2. q \in Live(list)
      BY <3>1 DEF Live
    <3> QED BY <3>1, <3>2
  <2>3. CASE ~(m <= off[q])
    BY <2>3
  <2> QED BY <2>1, <2>2, <2>3
<1>4. \A q \in 0 .. N : q \in S
  <2> HIDE DEF S
  <2> QED BY ONLY <1>1, <1>2, <1>3, BoundedInduction
<1>5. N \in S
  <2> HIDE DEF S
  <2> QED BY <1>1, <1>4
<1> QED BY <1>1, <1>5

-----------------------------------------------------------------------------
(* The links: every living symbol knows its living neighbours.              *)

(* k is the first that is alive behind i.                                   *)
Follows(list, i, k) ==
  /\ i \in Live(list) /\ k \in Live(list) /\ i < k
  /\ \A q \in Live(list) : q <= i \/ k <= q

NextOK(list, i) ==
  \/ list[i].next = NONE /\ (\A q \in Live(list) : q <= i)
  \/ list[i].next # NONE /\ Follows(list, i, list[i].next)

PrevOK(list, i) ==
  \/ list[i].prev = NONE /\ (\A q \in Live(list) : i <= q)
  \/ list[i].prev # NONE /\ Follows(list, list[i].prev, i)

ListOK(list) ==
  /\ list \in Seq(Symbols)
  /\ \A i \in Live(list) : NextOK(list, i) /\ PrevOK(list, i)

LEMMA LiveTypes ==
  ASSUME NEW list \in Seq(Symbols)
  PROVE  /\ Len(list) \in Nat /\ DOMAIN list = 1 .. Len(list) /\ Live(list) \subseteq 1 .. Len(list)
         /\ \A i \in 1 .. Len(list) : /\ list[i] \in Symbols
                                      /\ list[i].id \in Nat /\ list[i].prev \in Nat
                                      /\ list[i].next \in Nat /\ list[i].alive \in BOOLEAN
         /\ \A i \in Live(list) : list[i].alive
<1>1. Len(list) \in Nat /\ DOMAIN list = 1 .. Len(list) /\ \A i \in 1 .. Len(list) : list[i] \in Symbols
  OBVIOUS
<1> QED BY <1>1 DEF Live, Symbols

(* Neighbours in the list are neighbours in the word.                       *)
LEMMA NextInWord ==
  ASSUME NEW list, ListOK(list), NEW off, Counts(off, list), NEW i \in Live(list)
  PROVE  /\ off[i] \in 1 .. Len(Alive(list))
         /\ list[i].next = NONE => off[i] = Len(Alive(list))
         /\ list[i].next # NONE =>
              /\ list[i].next \in Live(list)
              /\ off[list[i].next] = off[i] + 1
              /\ off[i] \in 1 .. Len(Alive(list)) - 1
              /\ Alive(list)[off[i]] = list[i].id
              /\ Alive(list)[off[i] + 1] = list[list[i].next].id
<1> DEFINE N == Len(list)
           k == list[i].next
<1>1. /\ list \in Seq(Symbols) /\ N \in Nat /\ i \in 1 .. N /\ list[i].alive
      /\ Len(Alive(list)) = off[N] /\ NextOK(list, i)
  BY LiveTypes DEF ListOK, Counts
<1>2. off[0] = 0 /\ off[0] < off[i] /\ off[i] \in Nat
  <2>1. 0 \in 0 .. N /\ i \in 0 .. N /\ 0 <= i /\ 0 < i
    BY <1>1
  <2> QED BY <1>1, <2>1, CountsGrow DEF Counts
<1>3. off[i] <= off[N] /\ off[N] \in Nat
  <2>1. N \in 0 .. N /\ i \in 0 .. N /\ i <= N
    BY <1>1
  <2> QED BY <1>1, <2>1, CountsGrow
<1>4. ASSUME k = NONE
      PROVE  off[i] = Len(Alive(list))
  <2>1. \A q \in Live(list) : q <= i \/ N < q
    BY <1>1, <1>4 DEF NextOK
  <2>2. N \in 0 .. N /\ i \in 0 .. N /\ i <= N
    BY <1>1
  <2> QED BY <1>1, <2>1, <2>2, CountsRest
<1>5. ASSUME k # NONE
      PROVE  /\ k \in Live(list) /\ off[k] = off[i] + 1 /\ off[i] \in 1 .. Len(Alive(list)) - 1
             /\ Alive(list)[off[i]] = list[i].id /\ Alive(list)[off[i] + 1] = list[k].id
  <2>1. Follows(list, i, k)
    BY <1>1, <1>5 DEF NextOK
  <2>2. k \in 1 .. N /\ k \in Live(list) /\ i < k /\ list[k].alive
    BY <1>1, <2>1, LiveTypes DEF Follows
  <2>3. off[k - 1] = off[i]
    <3>1. k - 1 \in 0 .. N /\ i \in 0 .. N /\ i <= k - 1
      BY <1>1, <2>2
    <3>2. \A q \in Live(list) : q <= i \/ k - 1 < q
      <4>1. \A q \in Live(list) : q \in Nat
        BY <1>1, LiveTypes
      <4>2. \A q \in Live(list) : q <= i \/ k <= q
        BY <2>1 DEF Follows
      <4> QED BY <2>2, <4>1, <4>2
    <3> QED BY <1>1, <3>1, <3>2, CountsRest
  <2>4. off[k] = off[i] + 1
    BY <2>2, <2>3 DEF Counts
  <2>5. off[k] <= off[N]
    <3>1. N \in 0 .. N /\ k \in 0 .. N /\ k <= N
      BY <1>1, <2>2
    <3> QED BY <1>1, <3>1, CountsGrow
  <2>6. Alive(list)[off[i]] = list[i].id /\ Alive(list)[off[k]] = list[k].id
    BY <2>2 DEF Counts
  <2> QED BY <1>1, <1>2, <1>3, <2>2, <2>4, <2>5, <2>6
<1> HIDE DEF k
<1>6. off[i] \in 1 .. Len(Alive(list))
  BY <1>1, <1>2, <1>3
<1> QED BY <1>4, <1>5, <1>6 DEF k

-----------------------------------------------------------------------------
(* One merge.                                                               *)

(* The list after the symbol behind the left one was merged into it.        *)
Merged(list, left, id) ==
  LET right == list[left].next
      after == list[right].next
      merged == [list EXCEPT ![left].id = id, ![left].next = after, ![right].alive = FALSE]
  IN IF after = NONE THEN merged ELSE [merged EXCEPT ![after].prev = left]

MergeParts(list, m, left, right, after, id) ==
  /\ Follows(list, left, right) /\ right = list[left].next /\ after = list[right].next
  /\ after = NONE \/ Follows(list, right, after)
  /\ after = NONE => \A q \in Live(list) : q <= right
  /\ m \in Seq(Symbols) /\ Len(m) = Len(list)
  /\ \A k \in 1 .. Len(list) :
       /\ m[k].id = IF k = left THEN id ELSE list[k].id
       /\ m[k].next = IF k = left THEN after ELSE list[k].next
       /\ m[k].prev = IF k = after THEN left ELSE list[k].prev
       /\ m[k].alive = IF k = right THEN FALSE ELSE list[k].alive
  /\ Live(m) = Live(list) \ {right}

LEMMA MergedAt ==
  ASSUME NEW list, ListOK(list), NEW left \in Live(list), list[left].next # NONE, NEW id \in Nat
  PROVE  MergeParts(list, Merged(list, left, id), left, list[left].next, list[list[left].next].next, id)
<1> DEFINE N == Len(list)
           right == list[left].next
           after == list[right].next
           m == Merged(list, left, id)
           merged == [list EXCEPT ![left].id = id, ![left].next = after, ![right].alive = FALSE]
<1>1. /\ list \in Seq(Symbols) /\ N \in Nat /\ DOMAIN list = 1 .. N /\ left \in 1 .. N
      /\ \A k \in Live(list) : NextOK(list, k) /\ k \in 1 .. N
      /\ \A k \in 1 .. N : list[k] \in Symbols
  BY LiveTypes DEF ListOK
<1>2. Follows(list, left, right)
  BY <1>1 DEF NextOK
<1>3. right \in Live(list) /\ right \in 1 .. N /\ left < right
  BY <1>1, <1>2 DEF Follows
<1>4. /\ after = NONE \/ Follows(list, right, after)
      /\ after = NONE => \A q \in Live(list) : q <= right
  <2>1. NextOK(list, right)
    BY <1>1, <1>3
  <2> HIDE DEF right
  <2> QED BY <2>1 DEF NextOK, NONE, Follows
<1>5. after # NONE => after \in 1 .. N /\ right < after
  BY <1>1, <1>4 DEF Follows
<1>6. after \in Nat
  BY <1>1, <1>3, LiveTypes
<1>7. m = IF after = NONE THEN merged ELSE [merged EXCEPT ![after].prev = left]
  BY DEF Merged
<1> HIDE DEF m
<1> DEFINE Half(k) == [id |-> IF k = left THEN id ELSE list[k].id, prev |-> list[k].prev,
                       next |-> IF k = left THEN after ELSE list[k].next,
                       alive |-> IF k = right THEN FALSE ELSE list[k].alive]
           Whole(k) == [id |-> IF k = left THEN id ELSE list[k].id,
                        prev |-> IF k = after THEN left ELSE list[k].prev,
                        next |-> IF k = left THEN after ELSE list[k].next,
                        alive |-> IF k = right THEN FALSE ELSE list[k].alive]
<1>8. merged = [k \in 1 .. N |-> Half(k)]
  <2>1. left # right
    BY <1>1, <1>3
  <2> HIDE DEF right, after
  <2>2. \A k \in 1 .. N : list[k] = [id |-> list[k].id, prev |-> list[k].prev,
                                     next |-> list[k].next, alive |-> list[k].alive]
    BY <1>1 DEF Symbols
  <2>3. DOMAIN merged = 1 .. N /\ merged = [k \in 1 .. N |-> merged[k]]
    BY <1>1
  <2>4. merged[left] = Half(left)
    <3>1. merged[left] = [list[left] EXCEPT !.id = id, !.next = after]
      BY <1>1, <1>3, <2>1
    <3>2. list[left] = [id |-> list[left].id, prev |-> list[left].prev,
                        next |-> list[left].next, alive |-> list[left].alive]
      BY <1>1, <2>2
    <3> DEFINE e == [list[left] EXCEPT !.id = id, !.next = after]
    <3>3. e \in Symbols
      BY <1>1, <1>6 DEF Symbols
    <3>4. e = [id |-> e.id, prev |-> e.prev, next |-> e.next, alive |-> e.alive]
      <4> HIDE DEF e
      <4> QED BY <3>3 DEF Symbols
    <3>5. e.id = id /\ e.prev = list[left].prev /\ e.next = after /\ e.alive = list[left].alive
      BY <1>1 DEF Symbols
    <3> HIDE DEF e
    <3> QED BY <2>1, <3>1, <3>4, <3>5 DEF e
  <2>5. merged[right] = Half(right)
    <3>1. merged[right] = [list[right] EXCEPT !.alive = FALSE]
      BY <1>1, <1>3, <2>1
    <3>2. list[right] = [id |-> list[right].id, prev |-> list[right].prev,
                         next |-> list[right].next, alive |-> list[right].alive]
      BY <1>3, <2>2
    <3> DEFINE e == [list[right] EXCEPT !.alive = FALSE]
    <3>3. e \in Symbols
      BY <1>1, <1>3 DEF Symbols
    <3>4. e = [id |-> e.id, prev |-> e.prev, next |-> e.next, alive |-> e.alive]
      <4> HIDE DEF e
      <4> QED BY <3>3 DEF Symbols
    <3>5. e.id = list[right].id /\ e.prev = list[right].prev /\ e.next = list[right].next /\ e.alive = FALSE
      BY <1>1, <1>3 DEF Symbols
    <3> HIDE DEF e
    <3> QED BY <2>1, <3>1, <3>4, <3>5 DEF e
  <2>6. ASSUME NEW k \in 1 .. N, k # left, k # right
        PROVE  merged[k] = Half(k)
    <3>1. merged[k] = list[k]
      BY <1>1, <2>6
    <3> QED BY <2>2, <2>6, <3>1
  <2>7. \A k \in 1 .. N : merged[k] = Half(k)
    <3> HIDE DEF merged, Half
    <3> QED BY <2>4, <2>5, <2>6
  <2> HIDE DEF merged, Half
  <2> QED BY <2>3, <2>7
<1> HIDE DEF merged
<1>9. m = [k \in 1 .. N |-> Whole(k)]
  <2> HIDE DEF right, after
  <2>1. CASE after = NONE
    <3>1. \A k \in 1 .. N : Half(k) = Whole(k)
      <4>1. \A k \in 1 .. N : k # after
        BY <1>1, <2>1 DEF NONE
      <4> QED BY <4>1
    <3> HIDE DEF Half, Whole
    <3> QED BY <1>7, <1>8, <2>1, <3>1
  <2>2. CASE after # NONE
    <3>1. m = [merged EXCEPT ![after].prev = left]
      BY <1>7, <2>2
    <3>2. after \in 1 .. N /\ after # right
      BY <1>3, <1>5, <2>2
    <3>3. m[after] = [Half(after) EXCEPT !.prev = left]
      <4> HIDE DEF Half
      <4> QED BY <1>8, <3>1, <3>2
    <3>4. m[after] = Whole(after)
      BY <3>3
    <3>5. ASSUME NEW k \in 1 .. N, k # after
          PROVE  m[k] = Whole(k)
      <4>1. m[k] = Half(k)
        <5> HIDE DEF Half
        <5> QED BY <1>8, <3>1, <3>2, <3>5
      <4> QED BY <3>5, <4>1
    <3>6. m = [k \in 1 .. N |-> m[k]]
      BY <1>8, <3>1
    <3> HIDE DEF Half, Whole
    <3> QED BY <3>4, <3>5, <3>6
  <2> QED BY <2>1, <2>2
<1>10. m \in Seq(Symbols) /\ Len(m) = N
  <2> HIDE DEF right, after
  <2>1. \A k \in 1 .. N : /\ list[k].id \in Nat /\ list[k].prev \in Nat
                          /\ list[k].next \in Nat /\ list[k].alive \in BOOLEAN
    BY <1>1, LiveTypes
  <2>2. left \in Nat
    BY <1>1
  <2>3. \A k \in 1 .. N : Whole(k) \in Symbols
    BY <1>6, <2>1, <2>2 DEF Symbols
  <2> HIDE DEF Whole
  <2> QED BY <1>1, <1>9, <2>3
<1>11. \A k \in 1 .. N :
       /\ m[k].id = IF k = left THEN id ELSE list[k].id
       /\ m[k].next = IF k = left THEN after ELSE list[k].next
       /\ m[k].prev = IF k = after THEN left ELSE list[k].prev
       /\ m[k].alive = IF k = right THEN FALSE ELSE list[k].alive
  <2> HIDE DEF right, after
  <2> QED BY <1>9
<1>12. Live(m) = Live(list) \ {right}
  <2> HIDE DEF right, after
  <2> QED BY <1>10, <1>11 DEF Live
<1> HIDE DEF right, after
<1>13. MergeParts(list, m, left, right, after, id)
  BY <1>2, <1>4, <1>10, <1>11, <1>12 DEF MergeParts, right, after
<1> QED BY <1>13 DEF m, right, after

(* A merge leaves the links of the others right.                            *)
LEMMA MergeKeepsLinks ==
  ASSUME NEW list, ListOK(list), NEW m, NEW left, NEW right, NEW after, NEW id,
         MergeParts(list, m, left, right, after, id)
  PROVE  ListOK(m)
<1> DEFINE N == Len(list)
<1>1. /\ list \in Seq(Symbols) /\ N \in Nat /\ Live(list) \subseteq 1 .. N
      /\ \A k \in Live(list) : NextOK(list, k) /\ PrevOK(list, k)
  BY LiveTypes DEF ListOK
<1>2. /\ Follows(list, left, right) /\ right = list[left].next
      /\ after = NONE \/ Follows(list, right, after)
      /\ after = NONE => \A q \in Live(list) : q <= right
      /\ m \in Seq(Symbols) /\ Live(m) = Live(list) \ {right}
      /\ \A k \in 1 .. N :
           /\ m[k].next = IF k = left THEN after ELSE list[k].next
           /\ m[k].prev = IF k = after THEN left ELSE list[k].prev
  BY DEF MergeParts
<1>3. /\ left \in Live(m) /\ left \in 1 .. N /\ right \in 1 .. N /\ left < right
      /\ \A q \in Live(m) : q \in 1 .. N /\ q \in Live(list) /\ q # right /\ (q <= left \/ right < q)
  <2>1. /\ left \in Live(list) /\ right \in Live(list) /\ left < right
        /\ \A q \in Live(list) : q <= left \/ right <= q
    BY <1>2 DEF Follows
  <2> QED BY <1>1, <1>2, <2>1
<1>4. ASSUME after # NONE
      PROVE  Follows(m, left, after) /\ after \in 1 .. N /\ right < after
  <2>1. after \in Live(list) /\ right < after /\ \A q \in Live(list) : q <= right \/ after <= q
    BY <1>2, <1>4 DEF Follows
  <2>2. after \in Live(m) /\ left < after /\ after \in 1 .. N
    BY <1>1, <1>2, <1>3, <2>1
  <2>3. \A q \in Live(m) : q <= left \/ after <= q
    BY <1>1, <1>3, <2>1
  <2> QED BY <1>3, <2>1, <2>2, <2>3 DEF Follows
<1>5. ASSUME NEW k \in Live(m)
      PROVE  NextOK(m, k)
  <2>1. k \in Live(list) /\ k # right /\ k \in 1 .. N /\ NextOK(list, k)
    BY <1>1, <1>3
  <2>2. CASE k = left
    <3>1. m[k].next = after
      BY <1>2, <2>1, <2>2
    <3>2. after = NONE => \A q \in Live(m) : q <= k
      BY <1>1, <1>2, <1>3, <2>2
    <3> QED BY <1>4, <2>2, <3>1, <3>2 DEF NextOK
  <2>3. CASE k # left
    <3>1. m[k].next = list[k].next
      BY <1>2, <2>1, <2>3
    <3>2. CASE list[k].next = NONE
      BY <1>3, <2>1, <3>1, <3>2 DEF NextOK
    <3>3. CASE list[k].next # NONE
      <4> DEFINE j == list[k].next
      <4>1. /\ Follows(list, k, j) /\ j \in Live(list) /\ k < j
            /\ \A q \in Live(list) : q <= k \/ j <= q
        BY <2>1, <3>3 DEF NextOK, Follows
      <4>2. j # right
        <5>1. j = right => left <= k /\ k <= left
          <6>1. \A q \in Live(list) : q <= left \/ right <= q
            BY <1>2 DEF Follows
          <6>2. left \in Live(list)
            BY <1>2 DEF Follows
          <6> QED BY <1>1, <1>3, <2>1, <4>1, <6>1, <6>2
        <5> QED BY <1>3, <2>1, <2>3, <5>1
      <4>3. Follows(m, k, j)
        <5> HIDE DEF j
        <5> QED BY <1>2, <1>3, <4>1, <4>2 DEF Follows
      <4> QED BY <3>1, <3>3, <4>3 DEF NextOK
    <3> QED BY <3>2, <3>3
  <2> QED BY <2>2, <2>3
<1>6. ASSUME NEW k \in Live(m)
      PROVE  PrevOK(m, k)
  <2>1. k \in Live(list) /\ k # right /\ k \in 1 .. N /\ PrevOK(list, k)
    BY <1>1, <1>3
  <2>2. CASE k = after
    <3>1. m[k].prev = left /\ after # NONE /\ left # NONE
      BY <1>2, <1>3, <2>1, <2>2 DEF NONE
    <3> QED BY <1>4, <2>2, <3>1 DEF PrevOK
  <2>3. CASE k # after
    <3>1. m[k].prev = list[k].prev
      BY <1>2, <2>1, <2>3
    <3>2. CASE list[k].prev = NONE
      BY <1>3, <2>1, <3>1, <3>2 DEF PrevOK
    <3>3. CASE list[k].prev # NONE
      <4> DEFINE j == list[k].prev
      <4>1. /\ Follows(list, j, k) /\ j \in Live(list) /\ j < k
            /\ \A q \in Live(list) : q <= j \/ k <= q
        BY <2>1, <3>3 DEF PrevOK, Follows
      <4>2. j # right
        <5>1. ASSUME j = right
              PROVE  FALSE
          <6>1. after # NONE
            BY <1>1, <1>2, <1>3, <2>1, <4>1, <5>1
          <6>2. after \in Live(list) /\ right < after /\ \A q \in Live(list) : q <= right \/ after <= q
            BY <1>2, <6>1 DEF Follows
          <6>3. after <= k /\ k <= after
            BY <1>1, <1>3, <2>1, <4>1, <5>1, <6>2
          <6> QED BY <1>1, <2>1, <2>3, <6>2, <6>3
        <5> QED BY <5>1
      <4>3. Follows(m, j, k)
        <5> HIDE DEF j
        <5> QED BY <1>2, <1>3, <4>1, <4>2 DEF Follows
      <4> QED BY <3>1, <3>3, <4>3 DEF PrevOK
    <3> QED BY <3>2, <3>3
  <2> QED BY <2>2, <2>3
<1> QED BY <1>2, <1>5, <1>6 DEF ListOK

(* What stands where when two neighbours become one.                        *)
Splice(w, i, id) == SubSeq(w, 1, i - 1) \o <<id>> \o SubSeq(w, i + 2, Len(w))

LEMMA SpliceAt ==
  ASSUME NEW w \in Seq(Nat), NEW i \in 1 .. Len(w) - 1, NEW id \in Nat
  PROVE  /\ Splice(w, i, id) \in Seq(Nat) /\ Len(Splice(w, i, id)) = Len(w) - 1
         /\ \A q \in 1 .. Len(w) - 1 :
              Splice(w, i, id)[q] = IF q < i THEN w[q] ELSE IF q = i THEN id ELSE w[q + 1]
<1> DEFINE a == SubSeq(w, 1, i - 1)
           b == <<id>>
           c == SubSeq(w, i + 2, Len(w))
           n == Len(w)
<1>1. n \in Nat /\ i \in Nat /\ 1 <= i /\ i <= n - 1
  OBVIOUS
<1>2. a \in Seq(Nat) /\ Len(a) = i - 1 /\ \A q \in 1 .. i - 1 : a[q] = w[q]
  <2>1. 1 \in 1 .. n + 1 /\ i - 1 \in 0 .. n
    BY <1>1
  <2> QED BY <1>1, <2>1
<1>3. b \in Seq(Nat) /\ Len(b) = 1 /\ b[1] = id
  OBVIOUS
<1>4. c \in Seq(Nat) /\ Len(c) = n - i - 1 /\ \A q \in 1 .. n - i - 1 : c[q] = w[q + i + 1]
  <2>1. i + 2 \in 1 .. n + 1
    BY <1>1
  <2>2. c \in Seq(Nat) /\ Len(c) = n - i - 1
    BY <1>1, <2>1
  <2>3. \A q \in 1 .. n - i - 1 : c[q] = w[i + 2 + q - 1]
    BY <1>1, <2>1
  <2>4. \A q \in 1 .. n - i - 1 : i + 2 + q - 1 = q + i + 1
    BY <1>1
  <2> QED BY <2>2, <2>3, <2>4
<1> HIDE DEF a, b, c
<1> DEFINE s == a \o b
<1>5. s \in Seq(Nat) /\ Len(s) = i /\ s[i] = id /\ \A q \in 1 .. i - 1 : s[q] = w[q]
  <2>1. s \in Seq(Nat)
    BY <1>2, <1>3
  <2>2. /\ Len(s) = Len(a) + Len(b) /\ \A q \in 1 .. Len(a) : s[q] = a[q]
        /\ \A q \in 1 .. Len(b) : s[Len(a) + q] = b[q]
    <3>1. a \in Seq(Nat) /\ b \in Seq(Nat)
      BY <1>2, <1>3
    <3> QED BY ONLY <3>1, JoinedAt
  <2> HIDE DEF s
  <2>3. Len(s) = i
    BY <1>1, <1>2, <1>3, <2>2
  <2>4. s[Len(a) + 1] = id /\ Len(a) + 1 = i
    BY <1>1, <1>2, <1>3, <2>2
  <2>5. \A q \in 1 .. i - 1 : s[q] = w[q]
    BY <1>2, <2>2
  <2> QED BY <2>1, <2>3, <2>4, <2>5
<1> DEFINE t == s \o c
<1>6. Splice(w, i, id) = t
  BY DEF Splice, a, b, c
<1> HIDE DEF s
<1>7. /\ t \in Seq(Nat) /\ Len(t) = n - 1
      /\ \A q \in 1 .. Len(s) : t[q] = s[q]
      /\ \A q \in 1 .. Len(c) : t[Len(s) + q] = c[q]
  <2>1. t \in Seq(Nat)
    BY <1>4, <1>5
  <2>2. /\ Len(t) = Len(s) + Len(c) /\ \A q \in 1 .. Len(s) : t[q] = s[q]
        /\ \A q \in 1 .. Len(c) : t[Len(s) + q] = c[q]
    <3>1. s \in Seq(Nat) /\ c \in Seq(Nat)
      BY <1>4, <1>5
    <3> QED BY ONLY <3>1, JoinedAt
  <2> HIDE DEF t
  <2> QED BY <1>1, <1>4, <1>5, <2>1, <2>2
<1> HIDE DEF t
<1>8. ASSUME NEW q \in 1 .. n - 1
      PROVE  t[q] = IF q < i THEN w[q] ELSE IF q = i THEN id ELSE w[q + 1]
  <2>1. CASE q < i
    <3>1. q \in 1 .. Len(s) /\ q \in 1 .. i - 1
      BY <1>1, <1>5, <2>1
    <3>2. t[q] = w[q]
      BY <1>5, <1>7, <3>1
    <3> QED BY <2>1, <3>2
  <2>2. CASE q = i
    <3>1. i \in 1 .. Len(s) /\ ~(i < i)
      BY <1>1, <1>5
    <3>2. t[i] = id
      BY <1>5, <1>7, <3>1
    <3> QED BY <2>2, <3>1, <3>2
  <2>3. CASE i < q
    <3>1. q - i \in 1 .. Len(c) /\ q - i \in 1 .. n - i - 1
      <4>1. q - i \in 1 .. n - i - 1
        BY ONLY <1>1, <2>3, q \in 1 .. n - 1
      <4>2. Len(c) = n - i - 1
        BY <1>4
      <4> QED BY ONLY <4>1, <4>2
    <3>2. t[Len(s) + (q - i)] = c[q - i] /\ c[q - i] = w[(q - i) + i + 1]
      <4>1. ASSUME NEW d \in 1 .. Len(c), d \in 1 .. n - i - 1
            PROVE  t[Len(s) + d] = c[d] /\ c[d] = w[d + i + 1]
        BY ONLY <1>4, <1>7, <4>1
      <4> QED BY ONLY <3>1, <4>1
    <3>3. Len(s) + (q - i) = q /\ (q - i) + i + 1 = q + 1
      BY <1>1, <1>5
    <3>4. t[q] = w[q + 1]
      BY ONLY <3>2, <3>3
    <3>5. ~(q < i) /\ q # i
      BY <1>1, <2>3
    <3> QED BY <3>4, <3>5
  <2> QED BY <1>1, <2>1, <2>2, <2>3
<1> QED BY <1>6, <1>7, <1>8

LEMMA MergeWord ==
  ASSUME NEW list, ListOK(list), NEW off, Counts(off, list), NEW m, NEW left, NEW right, NEW after,
         NEW id \in Nat, MergeParts(list, m, left, right, after, id)
  PROVE  Alive(m) = Splice(Alive(list), off[left], id)
<1> DEFINE N == Len(list)
           w == Alive(list)
           i == off[left]
<1>1. /\ list \in Seq(Symbols) /\ N \in Nat /\ Live(list) \subseteq 1 .. N
      /\ w \in Seq(Nat) /\ Len(w) = off[N] /\ off \in [0 .. N -> Nat] /\ off[0] = 0
      /\ \A k \in Live(list) : w[off[k]] = list[k].id
      /\ \A k \in 1 .. N : off[k] = off[k - 1] + (IF list[k].alive THEN 1 ELSE 0)
      /\ \A k \in Live(list) : list[k].alive
  BY LiveTypes DEF ListOK, Counts
<1>2. /\ left \in Live(list) /\ right \in Live(list) /\ left < right
      /\ \A q \in Live(list) : q <= left \/ right <= q
      /\ right = list[left].next
      /\ m \in Seq(Symbols) /\ Len(m) = N /\ Live(m) = Live(list) \ {right}
      /\ \A k \in 1 .. N : /\ m[k].id = IF k = left THEN id ELSE list[k].id
                           /\ m[k].alive = IF k = right THEN FALSE ELSE list[k].alive
  BY DEF MergeParts, Follows
<1>3. /\ i \in 1 .. Len(w) - 1 /\ off[right] = i + 1 /\ left \in 1 .. N /\ right \in 1 .. N
  <2>1. right # NONE
    BY <1>1, <1>2 DEF NONE
  <2> QED BY <1>1, <1>2, <2>1, NextInWord
<1>4. PICK cnt : Counts(cnt, m)
  BY <1>2, CountsExist
<1>5. /\ cnt \in [0 .. N -> Nat] /\ cnt[0] = 0 /\ Len(Alive(m)) = cnt[N] /\ Alive(m) \in Seq(Nat)
      /\ \A k \in 1 .. N : cnt[k] = cnt[k - 1] + (IF m[k].alive THEN 1 ELSE 0)
      /\ \A k \in Live(m) : Alive(m)[cnt[k]] = m[k].id
  BY <1>2, <1>4 DEF Counts
<1> DEFINE Less(k) == cnt[k] = IF k < right THEN off[k] ELSE off[k] - 1
<1>6. \A k \in 0 .. N : Less(k)
  <2> DEFINE S == {k \in 0 .. N : Less(k)}
  <2>1. 0 \in S
    BY <1>1, <1>3, <1>5
  <2>2. ASSUME NEW k \in 1 .. N, k - 1 \in S
        PROVE  k \in S
    <3>1. cnt[k - 1] = IF k - 1 < right THEN off[k - 1] ELSE off[k - 1] - 1
      BY <2>2
    <3>2. cnt[k] = cnt[k - 1] + (IF m[k].alive THEN 1 ELSE 0)
      BY <1>5
    <3>3. off[k] = off[k - 1] + (IF list[k].alive THEN 1 ELSE 0) /\ off[k - 1] \in Nat
      BY <1>1
    <3>4. CASE k = right
      <4>1. ~m[k].alive
        BY <1>2, <3>4
      <4>3. list[k].alive /\ k - 1 < right /\ ~(k < right)
        <5>1. list[right].alive
          BY <1>1, <1>2, Zenon
        <5>2. right \in 1 .. N /\ N \in Nat
          BY <1>1, <1>3, Zenon
        <5>3. k - 1 < right /\ ~(k < right)
          BY ONLY <3>4, <5>2
        <5> QED BY ONLY <3>4, <5>1, <5>3, Zenon
      <4>2. off[k] = off[k - 1] + 1 /\ cnt[k] = off[k - 1]
        BY <1>1, <1>5, <3>1, <3>2, <3>3, <4>1, <4>3
      <4> QED BY <3>3, <4>2, <4>3
    <3>5. CASE k # right
      <4>1. m[k].alive = list[k].alive
        BY <1>2, <3>5
      <4>2. k < right <=> k - 1 < right
        BY <1>3, <3>5
      <4> QED BY <3>1, <3>2, <3>3, <4>1, <4>2
    <3> QED BY <3>4, <3>5
  <2>3. \A k \in 0 .. N : k \in S
    <3> HIDE DEF S
    <3> QED BY ONLY <1>1, <2>1, <2>2, BoundedInduction
  <2> QED BY <2>3
<1>7. Len(Alive(m)) = Len(w) - 1
  <2>1. ~(N < right) /\ N \in 0 .. N
    BY <1>1, <1>3
  <2> QED BY <1>1, <1>5, <1>6, <2>1
<1>8. /\ Splice(w, i, id) \in Seq(Nat) /\ Len(Splice(w, i, id)) = Len(w) - 1
      /\ \A q \in 1 .. Len(w) - 1 :
           Splice(w, i, id)[q] = IF q < i THEN w[q] ELSE IF q = i THEN id ELSE w[q + 1]
  <2>1. w \in Seq(Nat) /\ i \in 1 .. Len(w) - 1 /\ id \in Nat
    BY <1>1, <1>3
  <2> HIDE DEF w, i
  <2> QED BY ONLY <2>1, SpliceAt
<1> HIDE DEF w
<1>9. ASSUME NEW q \in 1 .. Len(w) - 1
      PROVE  Alive(m)[q] = Splice(w, i, id)[q]
  <2>1. PICK k \in Live(m) : cnt[k] = q
    <3>1. q \in 1 .. Len(Alive(m))
      BY <1>7
    <3> QED BY <1>2, <1>4, <3>1, CountsReach
  <2>2. k \in Live(list) /\ k # right /\ k \in 1 .. N /\ Alive(m)[q] = m[k].id /\ w[off[k]] = list[k].id
    BY <1>1, <1>2, <1>5, <2>1
  <2>3. CASE k < left
    <3>1. off[k] < i /\ off[k] = q
      <4>1. k \in 0 .. N /\ left \in 0 .. N /\ k <= left
        BY <1>3, <2>2, <2>3
      <4>2. off[k] < off[left]
        BY <1>1, <1>2, <2>3, <4>1, CountsGrow
      <4>3. cnt[k] = off[k]
        BY <1>2, <1>3, <1>6, <2>2, <2>3
      <4> QED BY <2>1, <4>2, <4>3
    <3>2. m[k].id = list[k].id
      <4>1. k # left
        BY <1>3, <2>2, <2>3
      <4> QED BY <1>2, <2>2, <4>1
    <3> QED BY <1>8, <2>2, <3>1, <3>2
  <2>4. CASE k = left
    <3>1. q = i
      BY <1>2, <1>3, <1>6, <2>1, <2>2, <2>4
    <3>2. m[k].id = id
      BY <1>2, <2>2, <2>4
    <3>3. ~(q < i)
      BY <1>3, <3>1
    <3>4. Splice(w, i, id)[q] = id
      BY <1>8, <3>1, <3>3
    <3> QED BY <2>2, <3>2, <3>4
  <2>5. CASE right < k
    <3>1. off[k] > i + 1 /\ off[k] = q + 1
      <4>1. k \in 0 .. N /\ right \in 0 .. N /\ right <= k
        BY <1>3, <2>2, <2>5
      <4>2. off[right] < off[k] /\ off[k] \in Nat
        BY <1>1, <2>2, <2>5, <4>1, CountsGrow
      <4>3. cnt[k] = off[k] - 1
        BY <1>3, <1>6, <2>2, <2>5
      <4> QED BY <1>3, <2>1, <4>2, <4>3
    <3>2. m[k].id = list[k].id
      <4>1. k # left
        BY <1>2, <1>3, <2>2, <2>5
      <4> QED BY <1>2, <2>2, <4>1
    <3>3. ~(q < i) /\ q # i
      BY <1>3, <3>1
    <3> QED BY <1>8, <2>2, <3>1, <3>2, <3>3
  <2>6. k < left \/ k = left \/ right < k
    BY <1>2, <1>3, <2>2
  <2> QED BY <2>3, <2>4, <2>5, <2>6
<1>10. Alive(m) \in Seq(Nat) /\ Splice(w, i, id) \in Seq(Nat)
  BY <1>5, <1>8
<1> HIDE DEF i
<1>11. Alive(m) = Splice(w, i, id)
  BY ONLY <1>7, <1>8, <1>9, <1>10, SeqEqual
<1> QED BY <1>11 DEF w, i

-----------------------------------------------------------------------------
(* The inductive invariant of the encoder.                                  *)

BuiltOK == job \in Jobs /\ job.file \in DOMAIN Files /\ built = FromMetadata(Files[job.file])

RestOK == ~Rejected => rest \in Seq(Range(job.text))

OutOK ==
  /\ found = <<>> \/ \E special : found = <<special>>
  /\ \E V : ids \in Seq(V)

(* An entry of the heap was the pair of some symbols.                       *)
IsEntry(e, list) ==
  /\ e[2] \in 1 .. Len(list) /\ <<e[3], e[4]>> \in DOMAIN vocab.merges
  /\ e = <<vocab.merges[<<e[3], e[4]>>][1], e[2], e[3], e[4]>>

(* Some entries are stale, but the pairs there are all have theirs.         *)
HeapOK(list, entries) ==
  /\ \A e \in entries : IsEntry(e, list)
  /\ \A i \in Live(list) : EntryAt(list, i) \subseteq entries

EncodeInv == BuiltOK /\ RestOK /\ OutOK /\ ListOK(syms) /\ HeapOK(syms, heap)

LEMMA VocabHolds ==
  ASSUME BuiltOK, ~Rejected
  PROVE  VocabOK(vocab, Range(job.text)) /\ job.text \in Seq(STRING) /\ Merges = vocab.merges
<1> DEFINE meta == Files[job.file]
<1>1. built.error = "none" /\ built = FromMetadata(meta)
  BY DEF Rejected, BuiltOK
<1>2. VocabError(meta) = "none" /\ built.tables = Tables(meta)
  <2>1. CASE VocabError(meta) # "none"
    BY <1>1, <2>1 DEF FromMetadata
  <2>2. CASE VocabError(meta) = "none"
    BY <1>1, <2>2 DEF FromMetadata
  <2> QED BY <2>1, <2>2
<1>3. /\ IsMetadata(meta) /\ job.text \in Seq(STRING)
      /\ \A c \in Range(job.text) : Spellable(meta, Normalized(c))
  BY <1>2, JobsAssumption DEF BuiltOK
<1>4. VocabOK(Tables(meta), Range(job.text))
  <2> HIDE DEF meta
  <2> QED BY <1>2, <1>3, TablesOK DEF IsTokens
<1> QED BY <1>2, <1>3, <1>4 DEF vocab, Merges

LEMMA EntriesAre ==
  ASSUME NEW list \in Seq(Symbols), NEW k \in 1 .. Len(list), NEW e \in EntryAt(list, k)
  PROVE  /\ list[k].next # NONE /\ <<list[k].id, list[list[k].next].id>> \in DOMAIN vocab.merges
         /\ e = <<vocab.merges[<<list[k].id, list[list[k].next].id>>][1], k, list[k].id, list[list[k].next].id>>
         /\ IsEntry(e, list) /\ e[2] = k
<1> DEFINE a == list[k].id
           b == list[list[k].next].id
<1>1. /\ list[k].next # NONE /\ <<a, b>> \in DOMAIN vocab.merges
      /\ e = <<vocab.merges[<<a, b>>][1], k, a, b>>
  BY DEF EntryAt
<1>2. e[2] = k /\ e[3] = a /\ e[4] = b
  BY <1>1
<1> HIDE DEF a, b
<1>3. IsEntry(e, list)
  BY <1>1, <1>2 DEF IsEntry
<1> QED BY <1>1, <1>2, <1>3 DEF a, b

(* Whose pair is in the table has its entry.                                *)
LEMMA EntryIs ==
  ASSUME NEW list, NEW k, k # NONE, list[k].next # NONE,
         <<list[k].id, list[list[k].next].id>> \in DOMAIN vocab.merges
  PROVE  <<vocab.merges[<<list[k].id, list[list[k].next].id>>][1], k, list[k].id, list[list[k].next].id>>
           \in EntryAt(list, k)
BY DEF EntryAt

LEMMA TopIsLeast ==
  ASSUME heap # {}, \A e \in heap : e[1] \in Nat /\ e[2] \in Nat
  PROVE  /\ Top \in heap
         /\ \A f \in heap : Top[1] < f[1] \/ (Top[1] = f[1] /\ Top[2] <= f[2])
<1> DEFINE R == {e[1] : e \in heap}
<1>1. PICK r \in R : \A s \in R : r <= s
  <2>1. R \subseteq Nat /\ R # {}
    OBVIOUS
  <2> HIDE DEF R
  <2> QED BY ONLY <2>1, LeastNatural
<1> DEFINE P == {e[2] : e \in {f \in heap : f[1] = r}}
<1>2. PICK p \in P : \A q \in P : p <= q
  <2>1. P \subseteq Nat /\ P # {}
    BY <1>1
  <2> HIDE DEF P
  <2> QED BY ONLY <2>1, LeastNatural
<1>3. PICK e \in heap : e[1] = r /\ e[2] = p
  BY <1>2
<1>4. ASSUME NEW f \in heap
      PROVE  e[1] < f[1] \/ (e[1] = f[1] /\ e[2] <= f[2])
  <2>1. r <= f[1] /\ r \in Nat
    BY <1>1
  <2>2. f[1] = r => p <= f[2]
    BY <1>2
  <2> QED BY <1>3, <2>1, <2>2
<1>5. \E t \in heap : \A f \in heap : t[1] < f[1] \/ (t[1] = f[1] /\ t[2] <= f[2])
  BY <1>4
<1> QED BY <1>5 DEF Top

LEMMA HeapRanks ==
  ASSUME NEW letters, VocabOK(vocab, letters), ListOK(syms), HeapOK(syms, heap), NEW e \in heap
  PROVE  /\ e[1] \in Nat /\ e[2] \in Nat /\ e[2] \in 1 .. Len(syms)
         /\ <<e[3], e[4]>> \in DOMAIN vocab.merges /\ e[1] = vocab.merges[<<e[3], e[4]>>][1]
         /\ vocab.merges[<<e[3], e[4]>>][2] \in Nat
<1> DEFINE pair == <<e[3], e[4]>>
<1>1. /\ e[2] \in 1 .. Len(syms) /\ pair \in DOMAIN vocab.merges
      /\ e = <<vocab.merges[pair][1], e[2], e[3], e[4]>>
  BY DEF HeapOK, IsEntry
<1>2. vocab.merges[pair] \in Nat \X Nat
  BY <1>1 DEF VocabOK
<1>3. e[1] = vocab.merges[pair][1]
  <2> HIDE DEF pair
  <2> QED BY <1>1
<1> HIDE DEF pair
<1> QED BY <1>1, <1>2, <1>3 DEF pair

-----------------------------------------------------------------------------
(* The start of a segment.                                                  *)

LEMMA InitialIdsIn ==
  ASSUME NEW V, NEW letters, NEW chars \in Seq(letters),
         \A c \in letters : \/ <<Normalized(c)>> \in DOMAIN vocab.ids
                           \/ Range(Utf8(Normalized(c))) \subseteq DOMAIN vocab.byteToId,
         \A c \in letters : <<Normalized(c)>> \in DOMAIN vocab.ids => vocab.ids[<<Normalized(c)>>] \in V,
         \A b \in DOMAIN vocab.byteToId : vocab.byteToId[b] \in V
  PROVE  InitialIds(chars) \in Seq(V) /\ (chars # <<>> => InitialIds(chars) # <<>>)
<1> DEFINE N == Len(chars)
           seqs == [i \in DOMAIN chars |-> IdsOfChar(Normalized(chars[i]))]
<1>1. N \in Nat /\ DOMAIN chars = 1 .. N /\ \A i \in 1 .. N : chars[i] \in letters
  OBVIOUS
<1>2. ASSUME NEW c \in letters
      PROVE  IdsOfChar(Normalized(c)) \in Seq(V) /\ IdsOfChar(Normalized(c)) # <<>>
  <2> DEFINE d == Normalized(c)
             u == Utf8(d)
  <2>1. CASE <<d>> \in DOMAIN vocab.ids
    <3>1. vocab.ids[<<d>>] \in V
      BY <2>1
    <3> HIDE DEF d
    <3>2. IdsOfChar(d) = <<vocab.ids[<<d>>]>>
      BY <2>1 DEF IdsOfChar
    <3>3. IdsOfChar(d) \in Seq(V) /\ IdsOfChar(d) # <<>>
      BY <3>1, <3>2
    <3> QED BY <3>3 DEF d
  <2>2. CASE <<d>> \notin DOMAIN vocab.ids
    <3>1. Range(u) \subseteq DOMAIN vocab.byteToId
      BY <2>2
    <3> HIDE DEF d
    <3>2. \E n \in Nat \ {0} : DOMAIN u = 1 .. n
      <4>1. u \in {<<Lead2, Cont>>, <<Lead3, Cont, Cont>>, <<d>>}
        BY DEF Utf8
      <4>2. DOMAIN <<Lead2, Cont>> = 1 .. 2 /\ DOMAIN <<Lead3, Cont, Cont>> = 1 .. 3 /\ DOMAIN <<d>> = 1 .. 1
        OBVIOUS
      <4> QED BY <4>1, <4>2
    <3> HIDE DEF u
    <3>3. \A i \in DOMAIN u : vocab.byteToId[u[i]] \in V
      BY <3>1 DEF Range
    <3>4. IdsOfChar(d) = [i \in DOMAIN u |-> vocab.byteToId[u[i]]]
      BY <2>2 DEF IdsOfChar, u
    <3>5. IdsOfChar(d) \in Seq(V) /\ IdsOfChar(d) # <<>>
      <4>1. PICK n \in Nat \ {0} : DOMAIN u = 1 .. n
        BY <3>2
      <4>2. PICK s : s = IdsOfChar(d)
        OBVIOUS
      <4>3. s \in [1 .. n -> V]
        BY <3>3, <3>4, <4>1, <4>2
      <4>4. s \in Seq(V) /\ Len(s) = n
        BY <4>3
      <4> QED BY <4>2, <4>4
    <3> QED BY <3>5 DEF d
  <2> QED BY <2>1, <2>2
<1>3. seqs \in [1 .. N -> Seq(V)]
  BY <1>1, <1>2
<1>4. N # 0 => seqs[1] # <<>>
  BY <1>1, <1>2
<1> HIDE DEF seqs
<1>5. CASE N = 0
  <2>1. Len(seqs) = 0 /\ seqs = <<>>
    BY <1>3, <1>5
  <2> QED BY <1>5, <2>1 DEF InitialIds, FlattenSeq, seqs
<1>6. CASE N # 0
  <2>1. PICK off : Offsets(off, V, N, seqs)
    BY ONLY <1>1, <1>3, <1>6, FlattenAt
  <2>2. /\ FlattenSeq(seqs) \in Seq(V) /\ Len(FlattenSeq(seqs)) = off[N] /\ off[0] = 0
        /\ \A k \in 1 .. N : off[k] = off[k - 1] + Len(seqs[k]) /\ off[k] <= off[N]
    BY <2>1 DEF Offsets
  <2>3. seqs[1] \in Seq(V) /\ Len(seqs[1]) \in Nat /\ Len(seqs[1]) # 0
    BY <1>1, <1>3, <1>4, <1>6
  <2>4. off[1] = Len(seqs[1]) /\ off[1] <= off[N]
    <3>1. 1 \in 1 .. N /\ 1 - 1 = 0
      BY <1>1, <1>6
    <3> QED BY <2>2, <2>3, <3>1
  <2>5. FlattenSeq(seqs) # <<>>
    BY <2>1, <2>2, <2>3, <2>4 DEF Offsets
  <2> QED BY <2>2, <2>5 DEF InitialIds, seqs
<1> QED BY <1>5, <1>6

LEMMA InitialIdsType ==
  ASSUME NEW letters, VocabOK(vocab, letters), NEW chars \in Seq(letters)
  PROVE  InitialIds(chars) \in Seq(Nat)
BY InitialIdsIn DEF VocabOK

LEMMA LinkedOK ==
  ASSUME NEW w \in Seq(Nat)
  PROVE  ListOK(Linked(w)) /\ DOMAIN Linked(w) = 1 .. Len(Linked(w))
<1> DEFINE n == Len(w)
           list == Linked(w)
<1>1. n \in Nat /\ \A i \in 1 .. n : w[i] \in Nat
  OBVIOUS
<1> DEFINE Sym(i) == [id |-> w[i], prev |-> i - 1, alive |-> TRUE, next |-> IF i = n THEN NONE ELSE i + 1]
<1>2. list = [i \in 1 .. n |-> Sym(i)]
  BY DEF Linked
<1>3. \A i \in 1 .. n : Sym(i) \in Symbols
  <2>1. \A i \in 1 .. n : i - 1 \in Nat /\ i + 1 \in Nat
    BY <1>1
  <2> QED BY <1>1, <2>1 DEF Symbols, NONE
<1>4. \A i \in 1 .. n : Sym(i).alive /\ Sym(i).prev = i - 1 /\ Sym(i).next = IF i = n THEN NONE ELSE i + 1
  OBVIOUS
<1> HIDE DEF list, Sym
<1>5. list \in Seq(Symbols) /\ Len(list) = n /\ DOMAIN list = 1 .. n
  BY <1>1, <1>2, <1>3
<1>6. Live(list) = 1 .. n
  BY <1>2, <1>4, <1>5 DEF Live
<1>7. \A i \in 1 .. n : list[i].prev = i - 1 /\ list[i].next = IF i = n THEN NONE ELSE i + 1
  BY <1>2, <1>4
<1>8. ASSUME NEW i \in 1 .. n
      PROVE  NextOK(list, i) /\ PrevOK(list, i)
  <2>1. i = n => NextOK(list, i)
    BY <1>1, <1>6, <1>7 DEF NextOK
  <2>2. i # n => NextOK(list, i)
    <3>1. ASSUME i # n
          PROVE  i + 1 \in 1 .. n /\ i + 1 # NONE /\ list[i].next = i + 1 /\ Follows(list, i, i + 1)
      BY <1>1, <1>6, <1>7, <3>1 DEF Follows, NONE
    <3> QED BY <3>1 DEF NextOK
  <2>3. i = 1 => PrevOK(list, i)
    BY <1>1, <1>6, <1>7 DEF PrevOK, NONE
  <2>4. i # 1 => PrevOK(list, i)
    <3>1. ASSUME i # 1
          PROVE  i - 1 \in 1 .. n /\ i - 1 # NONE /\ list[i].prev = i - 1 /\ Follows(list, i - 1, i)
      BY <1>1, <1>6, <1>7, <3>1 DEF Follows, NONE
    <3> QED BY <3>1 DEF PrevOK
  <2> QED BY <2>1, <2>2, <2>3, <2>4
<1>9. ListOK(list)
  BY <1>5, <1>6, <1>8 DEF ListOK
<1> QED BY <1>5, <1>9 DEF list

LEMMA SegmentStarts ==
  ASSUME NEW letters, VocabOK(vocab, letters), NEW chars \in Seq(letters), StartSegment(chars), built' = built
  PROVE  ListOK(syms') /\ HeapOK(syms, heap)'
<1> DEFINE list == Linked(InitialIds(chars))
<1>1. ListOK(list) /\ DOMAIN list = 1 .. Len(list) /\ list \in Seq(Symbols)
  <2>1. InitialIds(chars) \in Seq(Nat)
    BY InitialIdsType
  <2> QED BY <2>1, LinkedOK DEF ListOK
<1>2. syms' = list /\ heap' = UNION {EntryAt(list, i) : i \in DOMAIN list}
  BY DEF StartSegment
<1> HIDE DEF list
<1>3. \A i \in 1 .. Len(list) : \A e \in EntryAt(list, i) : IsEntry(e, list)
  BY <1>1, EntriesAre
<1>4. Live(list) \subseteq DOMAIN list
  BY <1>1, LiveTypes
<1>5. HeapOK(list, heap')
  BY <1>1, <1>2, <1>3, <1>4 DEF HeapOK
<1>6. vocab' = vocab
  BY DEF vocab
<1>7. HeapOK(syms, heap)'
  BY <1>2, <1>5, <1>6 DEF HeapOK, IsEntry, EntryAt, Live
<1> QED BY <1>1, <1>2, <1>7

-----------------------------------------------------------------------------
(* The heap and the word.                                                   *)

Engine == \E letters : VocabOK(vocab, letters) /\ Merges = vocab.merges /\ ListOK(syms) /\ HeapOK(syms, heap)

(* Every pair of the word that can be merged has its entry.                 *)
LEMMA PlaceHasEntry ==
  ASSUME Engine, NEW off, Counts(off, syms), NEW j \in Reference!Places(Alive(syms))
  PROVE  \E k \in Live(syms) : /\ off[k] = j
                               /\ \E e \in heap : e[1] = Reference!Rank(Alive(syms), j) /\ e[2] = k
<1> DEFINE w == Alive(syms)
<1>1. PICK letters : VocabOK(vocab, letters) /\ Merges = vocab.merges /\ ListOK(syms) /\ HeapOK(syms, heap)
  BY DEF Engine
<1>2. syms \in Seq(Symbols) /\ w \in Seq(Nat) /\ Len(w) \in Nat
  BY <1>1 DEF ListOK, Counts
<1>3. j \in 1 .. Len(w) - 1 /\ <<w[j], w[j + 1]>> \in DOMAIN vocab.merges
  BY <1>1 DEF Reference!Places, Reference!Pair
<1>4. Reference!Rank(w, j) = vocab.merges[<<w[j], w[j + 1]>>][1]
  BY <1>1 DEF Reference!Rank, Reference!Pair
<1> HIDE DEF w
<1>5. PICK k \in Live(syms) : off[k] = j
  <2>1. j \in 1 .. Len(w)
    BY <1>2, <1>3
  <2> QED BY <1>2, <2>1, CountsReach DEF w
<1>6. k \in 1 .. Len(syms) /\ k # NONE
  BY <1>2, LiveTypes DEF NONE
<1>7. syms[k].next # NONE
  <2>1. off[k] # Len(w)
    BY <1>2, <1>3, <1>5
  <2> QED BY <1>1, <2>1, NextInWord DEF w
<1>8. syms[k].id = w[j] /\ syms[syms[k].next].id = w[j + 1]
  BY <1>1, <1>5, <1>7, NextInWord DEF w
<1> DEFINE e == <<vocab.merges[<<syms[k].id, syms[syms[k].next].id>>][1], k, syms[k].id, syms[syms[k].next].id>>
<1>9. e \in EntryAt(syms, k)
  <2>1. <<syms[k].id, syms[syms[k].next].id>> \in DOMAIN vocab.merges
    BY <1>3, <1>8
  <2> QED BY <1>6, <1>7, <2>1, EntryIs
<1>10. e \in heap
  <2> HIDE DEF e
  <2> QED BY <1>1, <1>9 DEF HeapOK
<1>11. e[1] = Reference!Rank(w, j) /\ e[2] = k
  BY <1>4, <1>8
<1> HIDE DEF e
<1> QED BY <1>5, <1>10, <1>11 DEF w

(* An entry that is not stale and comes up is the pair to merge next.       *)
LEMMA TopIsLowest ==
  ASSUME Engine, heap # {}, ~Stale(Top), NEW off, Counts(off, syms)
  PROVE  /\ Top[2] \in Live(syms) /\ syms[Top[2]].next # NONE
         /\ off[Top[2]] \in Reference!Places(Alive(syms))
         /\ Reference!Pair(Alive(syms), off[Top[2]]) = <<Top[3], Top[4]>>
         /\ <<Top[3], Top[4]>> \in DOMAIN vocab.merges
         /\ vocab.merges[<<Top[3], Top[4]>>][2] \in Nat
         /\ Reference!Lowest(Alive(syms), off[Top[2]])
<1> DEFINE w == Alive(syms)
           left == Top[2]
           i == off[left]
<1>1. PICK letters : VocabOK(vocab, letters) /\ Merges = vocab.merges /\ ListOK(syms) /\ HeapOK(syms, heap)
  BY DEF Engine
<1>2. \A e \in heap : /\ e[1] \in Nat /\ e[2] \in Nat /\ e[2] \in 1 .. Len(syms)
                      /\ <<e[3], e[4]>> \in DOMAIN vocab.merges /\ e[1] = vocab.merges[<<e[3], e[4]>>][1]
                      /\ vocab.merges[<<e[3], e[4]>>][2] \in Nat
  BY <1>1, HeapRanks
<1>3. Top \in heap /\ \A f \in heap : Top[1] < f[1] \/ (Top[1] = f[1] /\ Top[2] <= f[2])
  BY <1>2, TopIsLeast
<1>4. /\ left \in Live(syms) /\ syms[left].id = Top[3]
      /\ syms[left].next # NONE /\ syms[syms[left].next].id = Top[4]
  BY <1>2, <1>3 DEF Stale, Live
<1>5. syms \in Seq(Symbols)
  BY <1>1 DEF ListOK
<1> HIDE DEF left
<1>6. i \in 1 .. Len(w) - 1 /\ w[i] = Top[3] /\ w[i + 1] = Top[4]
  BY <1>1, <1>4, NextInWord
<1>7. Reference!Pair(w, i) = <<Top[3], Top[4]>>
  BY <1>6 DEF Reference!Pair
<1>8. <<Top[3], Top[4]>> \in DOMAIN vocab.merges /\ vocab.merges[<<Top[3], Top[4]>>][2] \in Nat
      /\ Top[1] = vocab.merges[<<Top[3], Top[4]>>][1]
  BY <1>2, <1>3
<1>9. i \in Reference!Places(w) /\ Reference!Rank(w, i) = Top[1]
  BY <1>1, <1>6, <1>7, <1>8 DEF Reference!Places, Reference!Rank
<1>10. ASSUME NEW j \in Reference!Places(w)
       PROVE  \/ Reference!Rank(w, i) < Reference!Rank(w, j)
              \/ Reference!Rank(w, i) = Reference!Rank(w, j) /\ i <= j
  <2>1. PICK k \in Live(syms) : /\ off[k] = j
                                /\ \E e \in heap : e[1] = Reference!Rank(w, j) /\ e[2] = k
    BY PlaceHasEntry
  <2>2. PICK e \in heap : e[1] = Reference!Rank(w, j) /\ e[2] = k
    BY <2>1
  <2>3. \/ Reference!Rank(w, i) < Reference!Rank(w, j)
        \/ Reference!Rank(w, i) = Reference!Rank(w, j) /\ left <= k
    BY <1>3, <1>9, <2>2 DEF left
  <2>4. left <= k => off[left] <= off[k]
    <3>1. left \in 0 .. Len(syms) /\ k \in 0 .. Len(syms)
      BY <1>4, <1>5, LiveTypes
    <3> QED BY <1>5, <3>1, CountsGrow
  <2> QED BY <2>1, <2>3, <2>4
<1>11. Reference!Lowest(w, i)
  <2> HIDE DEF w, i
  <2> QED BY <1>10 DEF Reference!Lowest
<1> QED BY <1>4, <1>7, <1>8, <1>9, <1>11 DEF left

-----------------------------------------------------------------------------
(* The steps of the encoder.                                                *)

LEMMA EngineHolds ==
  ASSUME EncodeInv, ~Rejected
  PROVE  Engine
BY VocabHolds DEF Engine, EncodeInv

(* A stale entry goes, and the pairs there are keep theirs.                 *)
LEMMA PopStaleStep ==
  ASSUME EncodeInv, ~Rejected, PopStale, UNCHANGED job
  PROVE  EncodeInv' /\ UNCHANGED Reference!mergeVars
<1>1. /\ heap # {} /\ Stale(Top) /\ heap' = heap \ {Top}
      /\ UNCHANGED <<job, built, specials, rest, found, syms, ids>>
  BY DEF PopStale
<1>2. ListOK(syms) /\ HeapOK(syms, heap) /\ syms \in Seq(Symbols)
  BY DEF EncodeInv, ListOK
<1>3. ASSUME NEW k \in Live(syms), NEW e \in EntryAt(syms, k)
      PROVE  ~Stale(e)
  <2>1. k \in 1 .. Len(syms) /\ syms[k].alive
    BY <1>2, LiveTypes
  <2>2. /\ syms[k].next # NONE
        /\ e = <<vocab.merges[<<syms[k].id, syms[syms[k].next].id>>][1], k, syms[k].id, syms[syms[k].next].id>>
    BY <1>2, <2>1, EntriesAre
  <2>3. e[2] = k /\ e[3] = syms[k].id /\ e[4] = syms[syms[k].next].id
    BY <2>2
  <2> QED BY <2>1, <2>2, <2>3 DEF Stale
<1>4. HeapOK(syms, heap \ {Top})
  BY <1>1, <1>2, <1>3 DEF HeapOK
<1>5. vocab' = vocab
  BY <1>1 DEF vocab
<1>6. HeapOK(syms, heap)'
  BY <1>1, <1>4, <1>5 DEF HeapOK, IsEntry, EntryAt, Live
<1>7. ListOK(syms)' /\ OutOK' /\ BuiltOK' /\ RestOK'
  BY <1>1, <1>2 DEF EncodeInv, OutOK, BuiltOK, RestOK, Rejected
<1>8. UNCHANGED Reference!mergeVars
  BY <1>1 DEF Reference!mergeVars, Merges, Rejected, vocab
<1> QED BY <1>6, <1>7, <1>8 DEF EncodeInv

(* The entry that comes up is merged.                                       *)
LEMMA PopMergeStep ==
  ASSUME EncodeInv, ~Rejected, PopMerge, UNCHANGED job
  PROVE  EncodeInv' /\ Reference!Next /\ Reference!Merge
<1> DEFINE left == Top[2]
           right == syms[left].next
           after == syms[right].next
           id == vocab.merges[<<Top[3], Top[4]>>][2]
           list == Merged(syms, left, id)
<1>1. /\ heap # {} /\ ~Stale(Top) /\ syms' = list
      /\ heap' = (heap \ {Top}) \cup EntryAt(list, list[left].prev) \cup EntryAt(list, left)
      /\ UNCHANGED <<job, built, specials, rest, found, ids>>
  BY DEF PopMerge, Merged
<1>2. ListOK(syms) /\ HeapOK(syms, heap) /\ syms \in Seq(Symbols) /\ Engine
  BY EngineHolds DEF EncodeInv, ListOK
<1>3. PICK off : Counts(off, syms)
  BY <1>2, CountsExist
<1>4. /\ left \in Live(syms) /\ right # NONE
      /\ off[left] \in Reference!Places(Alive(syms))
      /\ Reference!Pair(Alive(syms), off[left]) = <<Top[3], Top[4]>>
      /\ id \in Nat
      /\ Reference!Lowest(Alive(syms), off[left])
  BY <1>1, <1>2, <1>3, TopIsLowest
<1> HIDE DEF id
<1>5. MergeParts(syms, list, left, right, after, id)
  BY <1>2, <1>4, MergedAt
<1> HIDE DEF left, right, after, list
<1>6. ListOK(list)
  BY <1>2, <1>5, MergeKeepsLinks
<1>7. Alive(list) = Splice(Alive(syms), off[left], id)
  BY <1>2, <1>3, <1>4, <1>5, MergeWord
<1>8. /\ Follows(syms, left, right) /\ right = syms[left].next
      /\ list \in Seq(Symbols) /\ Len(list) = Len(syms) /\ Live(list) = Live(syms) \ {right}
      /\ \A k \in 1 .. Len(syms) :
           /\ list[k].id = IF k = left THEN id ELSE syms[k].id
           /\ list[k].next = IF k = left THEN after ELSE syms[k].next
           /\ list[k].prev = IF k = after THEN left ELSE syms[k].prev
      /\ after = NONE \/ Follows(syms, right, after)
  BY <1>5 DEF MergeParts
<1>9. \A k \in Live(syms) : k \in 1 .. Len(syms)
  BY <1>2, LiveTypes
(* The new entries are pairs, and the old ones still were.                  *)
<1>10. \A e \in heap' : IsEntry(e, list)
  <2>1. \A e \in heap : IsEntry(e, list)
    BY <1>2, <1>8 DEF HeapOK, IsEntry
  <2>2. \A k \in Live(list) : \A e \in EntryAt(list, k) : IsEntry(e, list)
    BY <1>8, <1>9, EntriesAre
  <2>3. left \in Live(list)
    BY <1>4, <1>8, <1>9 DEF Follows
  <2>4. \A e \in EntryAt(list, list[left].prev) : IsEntry(e, list)
    <3>1. CASE list[left].prev = NONE
      BY <3>1 DEF EntryAt
    <3>2. CASE list[left].prev # NONE
      <4>1. list[left].prev \in Live(list)
        BY <1>6, <2>3, <3>2 DEF ListOK, PrevOK, Follows
      <4> QED BY <2>2, <4>1
    <3> QED BY <3>1, <3>2
  <2> QED BY <1>1, <2>1, <2>2, <2>3, <2>4
(* A pair that neither was nor is of the left symbol keeps its entry.       *)
<1>11. ASSUME NEW k \in Live(list)
       PROVE  EntryAt(list, k) \subseteq heap'
  <2>1. k \in Live(syms) /\ k # right /\ k \in 1 .. Len(syms) /\ k # NONE
    <3>1. k \in Live(syms) /\ k # right
      BY <1>8
    <3>2. k \in 1 .. Len(syms)
      BY <1>9, <3>1
    <3> QED BY <3>1, <3>2 DEF NONE
  <2>2. CASE k = left \/ k = list[left].prev
    BY <1>1, <2>2
  <2>3. CASE k # left /\ k # list[left].prev
    <3>1. list[k].id = syms[k].id /\ list[k].next = syms[k].next
      BY <1>8, <2>1, <2>3
    <3>2. CASE syms[k].next = NONE
      BY <3>1, <3>2 DEF EntryAt
    <3>3. CASE syms[k].next # NONE
      <4> DEFINE j == syms[k].next
      <4>1. Follows(syms, k, j)
        BY <1>2, <2>1, <3>3 DEF ListOK, NextOK
      <4>2. j # left
        <5>1. ASSUME j = left
              PROVE  FALSE
          <6>1. Follows(list, k, left)
            BY <1>4, <1>8, <2>1, <4>1, <5>1 DEF Follows
          <6>2. PrevOK(list, left)
            BY <1>6, <6>1 DEF ListOK, Follows
          <6>3. list[left].prev = k
            <7>1. /\ k \in Live(list) /\ left \in Live(list) /\ k < left
                  /\ \A q \in Live(list) : q <= k \/ left <= q
              BY <6>1 DEF Follows
            <7>2. \A q \in Live(list) : q \in Nat
              BY <1>8, <1>9
            <7>3. list[left].prev # NONE
              BY <6>2, <7>1, <7>2 DEF PrevOK
            <7>4. Follows(list, list[left].prev, left)
              BY <6>2, <7>3 DEF PrevOK
            <7>5. /\ list[left].prev \in Live(list) /\ list[left].prev < left
                  /\ k <= list[left].prev \/ left <= k
              BY <7>1, <7>4 DEF Follows
            <7> QED BY <7>1, <7>2, <7>5
          <6> QED BY <2>3, <6>3
        <5> QED BY <5>1
      <4>3. list[j].id = syms[j].id
        <5>1. j \in 1 .. Len(syms)
          BY <1>9, <4>1 DEF Follows
        <5> HIDE DEF j
        <5> QED BY <1>8, <4>2, <5>1
      <4>4. EntryAt(list, k) = EntryAt(syms, k)
        BY <3>1, <4>3 DEF EntryAt
      <4>5. EntryAt(syms, k) \subseteq heap
        BY <1>2, <2>1 DEF HeapOK
      <4>6. Top \notin EntryAt(syms, k)
        <5>1. \A e \in EntryAt(syms, k) : e[2] = k
          BY <1>2, <2>1, EntriesAre
        <5> QED BY <2>3, <5>1 DEF left
      <4> QED BY <1>1, <4>4, <4>5, <4>6
    <3> QED BY <3>2, <3>3
  <2> QED BY <2>2, <2>3
<1>12. HeapOK(list, heap')
  BY <1>10, <1>11 DEF HeapOK
<1>13. vocab' = vocab
  BY <1>1 DEF vocab
<1>14. HeapOK(syms, heap)'
  BY <1>1, <1>12, <1>13 DEF HeapOK, IsEntry, EntryAt, Live
<1>15. ListOK(syms)' /\ OutOK' /\ BuiltOK' /\ RestOK'
  BY <1>1, <1>6 DEF EncodeInv, OutOK, BuiltOK, RestOK, Rejected
<1>16. Reference!Merge
  <2>1. Merges = vocab.merges
    BY VocabHolds DEF EncodeInv
  <2>2. Merges[Reference!Pair(Alive(syms), off[left])][2] = id
    BY <1>4, <2>1 DEF id
  <2>3. Alive(syms)' = Splice(Alive(syms), off[left], id)
    BY <1>1, <1>7
  <2> QED BY <1>1, <1>4, <2>2, <2>3 DEF Reference!Merge, Splice
<1>17. Merges' = Merges
  BY <1>1 DEF Merges, Rejected, vocab
<1> QED BY <1>14, <1>15, <1>16, <1>17 DEF EncodeInv, Reference!Next

(* The end of a segment: nothing is left to merge.                          *)
LEMMA JoinIsPrefix ==
  ASSUME NEW S, NEW s \in Seq(S), NEW r \in Seq(S), Len(r) <= 1
  PROVE  IsPrefix(s, s \o r) /\ Len(s \o r) <= Len(s) + 1
<1>1. s \o r \in Seq(S)
  OBVIOUS
<1>2. /\ Len(s \o r) = Len(s) + Len(r) /\ Len(s) \in Nat /\ Len(r) \in Nat
      /\ \A j \in 1 .. Len(s) : (s \o r)[j] = s[j]
  BY ONLY s \in Seq(S), r \in Seq(S), JoinedAt
<1>3. SubSeq(s \o r, 1, Len(s)) = SubSeq(s, 1, Len(s))
  <2> DEFINE t == s \o r
  <2>1. t \in Seq(S) /\ Len(t) = Len(s) + Len(r) /\ \A j \in 1 .. Len(s) : t[j] = s[j]
    BY <1>1, <1>2
  <2> HIDE DEF t
  <2>2. SubSeq(t, 1, Len(s)) = [j \in 1 .. Len(s) |-> t[j]]
    BY <1>2, <2>1
  <2>3. SubSeq(s, 1, Len(s)) = [j \in 1 .. Len(s) |-> s[j]]
    BY <1>2
  <2>4. SubSeq(t, 1, Len(s)) = SubSeq(s, 1, Len(s))
    BY <2>1, <2>2, <2>3
  <2> QED BY <2>4 DEF t
<1> QED BY <1>2, <1>3 DEF IsPrefix

LEMMA EmptyList ==
  /\ <<>> \in Seq(Symbols) /\ Live(<<>>) = {} /\ Alive(<<>>) = <<>>
  /\ ListOK(<<>>) /\ HeapOK(<<>>, {})
<1>1. <<>> \in Seq(Symbols) /\ Live(<<>>) = {}
  BY DEF Live
<1>2. Alive(<<>>) = <<>>
  <2>1. [i \in DOMAIN <<>> |-> IF <<>>[i].alive THEN <<<<>>[i].id>> ELSE <<>>] = <<>>
    OBVIOUS
  <2> QED BY <2>1 DEF Alive, FlattenSeq
<1> QED BY <1>1, <1>2 DEF ListOK, HeapOK

(* What goes out is a sequence, whatever stands in it.                      *)
LEMMA OutGrows ==
  ASSUME NEW U, NEW sofar \in Seq(U), NEW word \in Seq(Nat),
         NEW behind, behind = <<>> \/ \E special : behind = <<special>>
  PROVE  \E V : /\ sofar \o word \in Seq(V) /\ behind \in Seq(V) /\ Len(behind) <= 1
                /\ (sofar \o word) \o behind \in Seq(V) /\ sofar \o word \o behind \in Seq(V)
<1>1. PICK special : behind = <<>> \/ behind = <<special>>
  OBVIOUS
<1> DEFINE V == (U \cup Nat) \cup {special}
<1>2. sofar \in Seq(V)
  OBVIOUS
<1>3. word \in Seq(V)
  OBVIOUS
<1>4. behind \in Seq(V) /\ Len(behind) <= 1
  <2>1. special \in V
    OBVIOUS
  <2> HIDE DEF V
  <2>2. CASE behind = <<>>
    BY <2>2
  <2>3. CASE behind = <<special>>
    BY <2>1, <2>3
  <2> QED BY <1>1, <2>2, <2>3
<1> HIDE DEF V
<1>5. sofar \o word \in Seq(V)
  BY <1>2, <1>3
<1>6. (sofar \o word) \o behind \in Seq(V)
  BY <1>4, <1>5
<1> QED BY <1>4, <1>5, <1>6

LEMMA EndStep ==
  ASSUME EncodeInv, ~Rejected, EndSegment, UNCHANGED job
  PROVE  EncodeInv' /\ Reference!Next
<1>1. /\ heap = {} /\ ids' = ids \o Alive(syms) \o found /\ syms' = <<>> /\ found' = <<>>
      /\ UNCHANGED <<job, built, specials, rest, heap>>
  BY DEF EndSegment
<1>2. syms \in Seq(Symbols) /\ Engine
  BY EngineHolds DEF EncodeInv, ListOK
<1>3. PICK off : Counts(off, syms)
  BY <1>2, CountsExist
<1>4. Alive(syms) \in Seq(Nat)
  BY <1>3 DEF Counts
<1>5. Reference!Places(Alive(syms)) = {}
  BY <1>1, <1>2, <1>3, PlaceHasEntry
<1>6. PICK U : ids \in Seq(U)
  BY DEF EncodeInv, OutOK
<1>7. PICK V : /\ ids \o Alive(syms) \in Seq(V) /\ found \in Seq(V) /\ Len(found) <= 1
               /\ (ids \o Alive(syms)) \o found \in Seq(V) /\ ids \o Alive(syms) \o found \in Seq(V)
  <2>1. found = <<>> \/ \E special : found = <<special>>
    BY DEF EncodeInv, OutOK
  <2> QED BY ONLY <1>4, <1>6, <2>1, OutGrows
<1>8. IsPrefix(ids \o Alive(syms), ids') /\ Len(ids') <= Len(ids \o Alive(syms)) + 1
  BY <1>1, <1>7, JoinIsPrefix
<1>9. Alive(syms)' = <<>> /\ ListOK(syms)' /\ HeapOK(syms, heap)'
  BY <1>1, EmptyList DEF HeapOK, ListOK, Live, Alive
<1>10. OutOK' /\ BuiltOK' /\ RestOK'
  BY <1>1, <1>7 DEF EncodeInv, OutOK, BuiltOK, RestOK, Rejected
<1>11. Reference!End
  <2>1. Reference!IsPrefix(ids \o Alive(syms), ids')
    BY <1>8 DEF IsPrefix, Reference!IsPrefix
  <2> QED BY <1>5, <1>8, <1>9, <2>1 DEF Reference!End
<1>12. Merges' = Merges
  BY <1>1 DEF Merges, Rejected, vocab
<1> QED BY <1>9, <1>10, <1>11, <1>12 DEF EncodeInv, Reference!Next

-----------------------------------------------------------------------------
(* The scan for special tokens.                                             *)

LEMMA SpecialIsThere ==
  ASSUME NEW letters, VocabOK(vocab, letters), NEW chars, NEW start, SpecialAt(chars, start) # 0
  PROVE  Len(vocab.pieces[vocab.specials[SpecialAt(chars, start)]]) \in Nat
<1> DEFINE I == {k \in 1 .. Len(vocab.specials) : IsPrefix(vocab.pieces[vocab.specials[k]], From(chars, start))}
<1>1. SpecialAt(chars, start) = IF I # {} THEN Min(I) ELSE 0
  BY DEF SpecialAt, SelectInSeq
<1>2. I # {} /\ SpecialAt(chars, start) = Min(I)
  BY <1>1
<1>3. Min(I) \in I
  <2>1. I \subseteq Nat
    OBVIOUS
  <2> HIDE DEF I
  <2> QED BY ONLY <1>2, <2>1, MinIn
<1>4. SpecialAt(chars, start) \in 1 .. Len(vocab.specials)
  BY <1>2, <1>3
<1> QED BY <1>4 DEF VocabOK

(* The first place where one begins.                                        *)
LEMMA FirstFound ==
  ASSUME NEW S, NEW chars \in Seq(S)
  PROVE  /\ FindSpecial(chars) \in 0 .. Len(chars)
         /\ FindSpecial(chars) # 0 =>
              /\ SpecialAt(chars, FindSpecial(chars)) # 0
              /\ \A i \in 1 .. FindSpecial(chars) - 1 : SpecialAt(chars, i) = 0
         /\ FindSpecial(chars) = 0 => \A i \in 1 .. Len(chars) : SpecialAt(chars, i) = 0
<1> DEFINE tries == [i \in DOMAIN chars |-> SpecialAt(chars, i)]
           I == {i \in 1 .. Len(tries) : tries[i] # 0}
<1>1. Len(chars) \in Nat /\ DOMAIN chars = 1 .. Len(chars)
  OBVIOUS
<1>2. Len(tries) = Len(chars) /\ \A i \in 1 .. Len(chars) : tries[i] = SpecialAt(chars, i)
  BY <1>1
<1>3. FindSpecial(chars) = IF I # {} THEN Min(I) ELSE 0
  BY DEF FindSpecial, SelectInSeq
<1>4. I \subseteq 1 .. Len(chars) /\ I \subseteq Nat
  BY <1>1, <1>2
<1>5. I # {} => Min(I) \in I /\ \A k \in I : Min(I) <= k
  <2> HIDE DEF I
  <2> QED BY ONLY <1>4, MinIn
<1>6. \A i \in 1 .. Len(chars) : i \in I <=> SpecialAt(chars, i) # 0
  BY <1>2
<1> HIDE DEF I, tries
<1>7. CASE I = {}
  BY <1>1, <1>3, <1>6, <1>7
<1>8. CASE I # {}
  <2>1. PICK n : n = FindSpecial(chars)
    OBVIOUS
  <2>2. n \in I /\ n \in 1 .. Len(chars) /\ \A k \in I : n <= k
    BY <1>3, <1>4, <1>5, <1>8, <2>1
  <2>3. SpecialAt(chars, n) # 0
    BY <1>6, <2>2
  <2>4. ASSUME NEW i \in 1 .. n - 1
        PROVE  SpecialAt(chars, i) = 0
    <3>1. i \in 1 .. Len(chars) /\ ~(n <= i)
      BY <1>1, <2>2
    <3> QED BY <1>6, <2>2, <3>1
  <2> QED BY <1>1, <2>1, <2>2, <2>3, <2>4
<1> QED BY <1>7, <1>8

LEMMA Pieces ==
  ASSUME NEW S, NEW chars \in Seq(S)
  PROVE  /\ \A i \in 1 .. Len(chars) : SubSeq(chars, 1, i - 1) \in Seq(S)
         /\ \A i \in Nat \ {0} : From(chars, i) \in Seq(S)
<1>1. Len(chars) \in Nat
  OBVIOUS
<1>2. ASSUME NEW i \in 1 .. Len(chars)
      PROVE  SubSeq(chars, 1, i - 1) \in Seq(S)
  <2>1. i - 1 \in 0 .. Len(chars)
    BY <1>1
  <2> QED BY <1>1, <2>1
<1>3. ASSUME NEW i \in Nat \ {0}
      PROVE  From(chars, i) \in Seq(S)
  BY <1>1 DEF From
<1> QED BY <1>2, <1>3

LEMMA SegmentStep ==
  ASSUME EncodeInv, ~Rejected, syms = <<>>, UNCHANGED <<job, built, specials>>,
         NEW chars \in Seq(Range(job.text)), NEW special, special = <<>> \/ \E s : special = <<s>>,
         NEW left \in Seq(Range(job.text)), Segment(chars, special, left)
  PROVE  EncodeInv' /\ Reference!Next
<1>1. VocabOK(vocab, Range(job.text))
  BY VocabHolds DEF EncodeInv
<1>2. /\ rest' = left /\ BuiltOK' /\ RestOK' /\ Merges' = Merges /\ vocab' = vocab
  BY DEF EncodeInv, BuiltOK, RestOK, Rejected, Merges, vocab, Segment
<1>3. CASE chars = <<>>
  <2>1. ids' = ids \o special /\ UNCHANGED <<found, syms, heap>>
    BY <1>3 DEF Segment
  <2>2. PICK U : ids \in Seq(U)
    BY DEF EncodeInv, OutOK
  <2>3. <<>> \in Seq(Nat)
    OBVIOUS
  <2>4. PICK V : /\ ids \o <<>> \in Seq(V) /\ special \in Seq(V) /\ Len(special) <= 1
                 /\ (ids \o <<>>) \o special \in Seq(V)
    BY <2>2, <2>3, OutGrows
  <2>5. ids \o <<>> = ids
    BY <2>2
  <2>6. ids' \in Seq(V) /\ IsPrefix(ids, ids') /\ Len(ids') <= Len(ids) + 1
    BY <2>1, <2>4, <2>5, JoinIsPrefix
  <2>7. Alive(syms) = <<>> /\ Alive(syms)' = <<>>
    BY <2>1, EmptyList
  <2>8. Reference!Places(<<>>) = {}
    BY DEF Reference!Places
  <2>9. Reference!End
    <3>1. Reference!IsPrefix(ids, ids')
      BY <2>6 DEF IsPrefix, Reference!IsPrefix
    <3>2. Reference!Places(Alive(syms)) = {} /\ ids \o Alive(syms) = ids
      BY <2>5, <2>7, <2>8
    <3> QED BY <2>6, <2>7, <3>1, <3>2 DEF Reference!End
  <2>10. OutOK'
    BY <2>1, <2>6 DEF EncodeInv, OutOK
  <2>11. ListOK(syms)' /\ HeapOK(syms, heap)'
    BY <1>2, <2>1 DEF EncodeInv, ListOK, HeapOK, IsEntry, EntryAt, Live, NextOK, PrevOK, Follows
  <2> QED BY <1>2, <2>9, <2>10, <2>11 DEF EncodeInv, Reference!Next
<1>4. CASE chars # <<>>
  <2>1. found' = special /\ StartSegment(chars) /\ UNCHANGED ids
    BY <1>4 DEF Segment
  <2>2. ListOK(syms') /\ HeapOK(syms, heap)'
    BY <1>1, <2>1, SegmentStarts
  <2>3. Alive(syms') \in Seq(Nat)
    <3>1. \E off : Counts(off, syms')
      BY <2>2, CountsExist DEF ListOK
    <3> QED BY <3>1 DEF Counts
  <2>4. Alive(syms) = <<>>
    BY EmptyList
  <2>5. Reference!Begin
    BY <2>1, <2>3, <2>4 DEF Reference!Begin
  <2>6. OutOK'
    BY <2>1 DEF EncodeInv, OutOK
  <2> QED BY <1>2, <2>2, <2>5, <2>6 DEF EncodeInv, Reference!Next
<1> QED BY <1>3, <1>4

LEMMA ScanStep ==
  ASSUME EncodeInv, ~Rejected, Scan, UNCHANGED job
  PROVE  EncodeInv' /\ Reference!Next
<1> DEFINE start == IF specials = "match" THEN FindSpecial(rest) ELSE 0
           id == vocab.specials[SpecialAt(rest, start)]
           letters == Range(job.text)
<1>1. /\ rest # <<>> /\ syms = <<>> /\ UNCHANGED <<job, built, specials>>
      /\ start = 0 => Segment(rest, <<>>, <<>>)
      /\ start # 0 => Segment(SubSeq(rest, 1, start - 1), <<id>>, From(rest, start + Len(vocab.pieces[id])))
  BY DEF Scan
<1>2. rest \in Seq(letters) /\ VocabOK(vocab, letters)
  BY VocabHolds DEF EncodeInv, RestOK
<1>3. CASE start = 0
  <2>1. <<>> \in Seq(letters)
    OBVIOUS
  <2> HIDE DEF start, letters
  <2> QED BY <1>1, <1>2, <1>3, <2>1, SegmentStep DEF letters
<1>4. CASE start # 0
  <2>1. start \in 1 .. Len(rest) /\ SpecialAt(rest, start) # 0
    <3>1. /\ FindSpecial(rest) \in 0 .. Len(rest) /\ start = FindSpecial(rest)
          /\ FindSpecial(rest) # 0 => SpecialAt(rest, FindSpecial(rest)) # 0
      BY <1>2, <1>4, FirstFound
    <3> QED BY <1>4, <3>1
  <2> HIDE DEF start
  <2>2. Len(vocab.pieces[id]) \in Nat
    BY <1>2, <2>1, SpecialIsThere
  <2>3. start + Len(vocab.pieces[id]) \in Nat \ {0}
    BY <2>1, <2>2
  <2> HIDE DEF id, letters
  <2>4. /\ SubSeq(rest, 1, start - 1) \in Seq(letters)
        /\ From(rest, start + Len(vocab.pieces[id])) \in Seq(letters)
    BY <1>2, <2>1, <2>3, Pieces
  <2>5. <<id>> = <<>> \/ \E s : <<id>> = <<s>>
    OBVIOUS
  <2> QED BY <1>1, <1>4, <2>4, <2>5, SegmentStep DEF letters
<1> QED BY <1>3, <1>4

-----------------------------------------------------------------------------
(* The refinement.                                                          *)

LEMMA EncodeStarts ==
  ASSUME Init
  PROVE  EncodeInv /\ Reference!Init
<1>1. PICK f \in DOMAIN Files : \E made \in {FromMetadata(Files[f])} :
        built = made /\ job \in {j \in Jobs : j.file = f}
  BY DEF Init
<1>2. BuiltOK
  BY <1>1 DEF BuiltOK
<1>3. rest = job.text /\ found = <<>> /\ syms = <<>> /\ heap = {} /\ ids = <<>>
  BY DEF Init, EncodeInit
<1>4. RestOK
  <2>1. SUFFICES ASSUME ~Rejected PROVE rest \in Seq(Range(job.text))
    BY DEF RestOK
  <2>2. job.text \in Seq(STRING)
    BY <1>2, <2>1, VocabHolds
  <2>3. Len(job.text) \in Nat /\ job.text = [i \in 1 .. Len(job.text) |-> job.text[i]]
    BY <2>2
  <2>4. \A i \in 1 .. Len(job.text) : job.text[i] \in Range(job.text)
    BY <2>2 DEF Range
  <2> QED BY <1>3, <2>3, <2>4
<1>5. OutOK
  <2>1. <<>> \in Seq(Nat)
    OBVIOUS
  <2> QED BY <1>3, <2>1 DEF OutOK
<1>6. ListOK(syms) /\ HeapOK(syms, heap) /\ Alive(syms) = <<>>
  BY <1>3, EmptyList
<1> QED BY <1>2, <1>3, <1>4, <1>5, <1>6 DEF EncodeInv, Reference!Init

LEMMA EncodeMoves ==
  ASSUME EncodeInv, [Next]_vars
  PROVE  EncodeInv' /\ [Reference!Next]_Reference!mergeVars
<1>1. CASE Encode
  <2>1. ~Rejected /\ EncodeStep /\ UNCHANGED job
    BY <1>1 DEF Encode
  <2>2. CASE Scan
    BY <2>1, <2>2, ScanStep
  <2>3. CASE PopStale
    BY <2>1, <2>3, PopStaleStep
  <2>4. CASE PopMerge
    BY <2>1, <2>4, PopMergeStep
  <2>5. CASE EndSegment
    BY <2>1, <2>5, EndStep
  <2> QED BY <2>1, <2>2, <2>3, <2>4, <2>5 DEF EncodeStep
<1>2. CASE UNCHANGED <<job, encodeVars>>
  <2>1. UNCHANGED <<job, built, specials, rest, found, syms, heap, ids>>
    BY <1>2 DEF encodeVars
  <2>2. BuiltOK' /\ RestOK' /\ OutOK' /\ vocab' = vocab
    BY <2>1 DEF EncodeInv, BuiltOK, RestOK, OutOK, Rejected, vocab
  <2>3. ListOK(syms)' /\ HeapOK(syms, heap)'
    BY <2>1, <2>2 DEF EncodeInv, ListOK, HeapOK, IsEntry, EntryAt, Live, NextOK, PrevOK, Follows
  <2>4. UNCHANGED Reference!mergeVars
    BY <2>1 DEF Reference!mergeVars, Merges, Rejected, vocab, Alive
  <2> QED BY <2>2, <2>3, <2>4 DEF EncodeInv
<1>3. CASE Generate
  BY <1>2, <1>3 DEF Generate
<1>4. CASE Evaluate
  BY <1>2, <1>4 DEF Evaluate
<1>5. CASE UNCHANGED vars
  BY <1>2, <1>5 DEF vars
<1> QED BY <1>1, <1>3, <1>4, <1>5 DEF Next

(***************************************************************************)
(* The links of the list are right and every pair that can be merged has   *)
(* its entry in the heap, whichever others are stale (encode_segment).     *)
(***************************************************************************)
THEOREM EncodeInvariant == Spec => []EncodeInv
<1>1. Init => EncodeInv
  BY EncodeStarts
<1>2. EncodeInv /\ [Next]_vars => EncodeInv'
  BY EncodeMoves
<1> QED BY <1>1, <1>2, PTL DEF Spec

(***************************************************************************)
(* The merge engine with its linked list and its stale entries is the      *)
(* textbook algorithm: every step is the merge of the lowest-ranked        *)
(* leftmost pair, the begin or the end of a segment, or nothing that can   *)
(* be seen (encode, encode_segment).                                       *)
(***************************************************************************)
THEOREM EncodesAsReference == Spec => ImplementsMergeAll
<1>1. Init => Reference!Init
  BY EncodeStarts
<1>2. EncodeInv /\ [Next]_vars => [Reference!Next]_Reference!mergeVars
  BY EncodeMoves
<1> QED BY <1>1, <1>2, EncodeInvariant, PTL DEF Spec, ImplementsMergeAll, Reference!Spec
-----------------------------------------------------------------------------
(* What the tables say of the text of a token.                              *)

TextsOK(t) ==
  /\ \A id \in DOMAIN t.pieces : t.pieces[id] \in Seq(STRING)
  /\ \A id, other \in DOMAIN t.pieces : t.pieces[id] = t.pieces[other] => id = other
  /\ \A piece \in DOMAIN t.ids : t.ids[piece] \in DOMAIN t.pieces /\ t.pieces[t.ids[piece]] = piece
  /\ DOMAIN t.types = DOMAIN t.pieces

BytesOK(t) ==
  /\ \A id \in DOMAIN t.idToByte :
       /\ id \in DOMAIN t.pieces /\ Len(t.pieces[id]) = 3
       /\ t.types[id] = "byte" /\ t.idToByte[id] \in STRING
  /\ \A b \in DOMAIN t.byteToId :
       t.byteToId[b] \in DOMAIN t.idToByte /\ t.idToByte[t.byteToId[b]] = b

JoinsOK(t) ==
  \A p \in DOMAIN t.merges :
    /\ p[1] \in DOMAIN t.pieces /\ p[2] \in DOMAIN t.pieces /\ t.merges[p][2] \in DOMAIN t.pieces
    /\ t.pieces[t.merges[p][2]] = t.pieces[p[1]] \o t.pieces[p[2]]

LEMMA NoTokenError ==
  ASSUME NEW meta, IsTokens(meta), NEW id \in Ids(meta)
  PROVE  TokenError(meta, id) = "none"
<1> DEFINE n == Len(meta["tokens"].of)
           errors == [i \in 1 .. n |-> TokenError(meta, i - 1)]
           S == {TokenError(meta, i - 1) : i \in 1 .. n}
<1>1. n \in Nat
  <2>1. meta["tokens"].of \in Seq(Seq(STRING))
    BY NoHeaderError, Zenon
  <2> QED BY <2>1
<1>2. TokensError(meta) = "none"
  <2>1. VocabError(meta) = "none"
    BY DEF IsTokens
  <2>2. HeaderError(meta) = "none"
    BY <2>1, Zenon DEF VocabError
  <2> QED BY <2>1, <2>2, Zenon DEF VocabError
<1>3. FirstError(errors) = "none"
  BY <1>2 DEF TokensError
<1>4. errors \in Seq(S) /\ Len(errors) = n
  <2>1. \A i \in 1 .. n : TokenError(meta, i - 1) \in S
    OBVIOUS
  <2> HIDE DEF S, n
  <2> QED BY <1>1, <2>1
<1>5. \A i \in 1 .. n : errors[i] = "none"
  <2> HIDE DEF errors, S, n
  <2> QED BY <1>3, <1>4, NoErrorAt
<1>6. id + 1 \in 1 .. n /\ (id + 1) - 1 = id
  <2>1. id \in 0 .. n - 1
    BY DEF Ids
  <2> HIDE DEF n, errors, S
  <2> QED BY <1>1, <2>1
<1>7. errors[id + 1] = TokenError(meta, id)
  <2> HIDE DEF n, S
  <2> QED BY <1>6
<1> HIDE DEF errors, n, S
<1> QED BY <1>5, <1>6, <1>7

LEMMA PiecesDiffer ==
  ASSUME NEW meta, IsTokens(meta), NEW id \in Ids(meta), NEW other \in Ids(meta),
         PieceOf(meta, id) = PieceOf(meta, other)
  PROVE  id = other
<1>1. id \in Nat /\ other \in Nat
  BY IdsAreNumbers
<1>2. ASSUME NEW a \in Ids(meta), NEW b \in Ids(meta), PieceOf(meta, a) = PieceOf(meta, b), a \in Nat, b \in Nat
      PROVE  ~(b < a)
  <2>1. TokenError(meta, a) = "none"
    BY NoTokenError
  <2>2. ~(\E c \in 0 .. a - 1 : PieceOf(meta, c) = PieceOf(meta, a))
    BY <2>1 DEF TokenError
  <2> QED BY <1>2, <2>2
<1>3. ~(id < other) /\ ~(other < id)
  BY <1>1, <1>2
<1> QED BY <1>1, <1>3

LEMMA IdHasPiece ==
  ASSUME NEW meta, IsTokens(meta), NEW piece, IdOf(meta, piece) # {}
  PROVE  TheId(meta, piece) \in Ids(meta) /\ PieceOf(meta, TheId(meta, piece)) = piece
<1>1. \E id \in Ids(meta) : PieceOf(meta, id) = piece
  BY DEF IdOf
<1> QED BY <1>1 DEF TheId

LEMMA FileTexts ==
  ASSUME NEW meta, IsTokens(meta)
  PROVE  TextsOK(Tables(meta))
<1> DEFINE t == Tables(meta)
<1>1. t.ids = [piece \in Range(meta["tokens"].of) |-> TheId(meta, piece)]
  BY DEF Tables
<1>2. /\ t.pieces = [id \in Ids(meta) |-> PieceOf(meta, id)]
      /\ t.types = [id \in Ids(meta) |-> TypeOf(meta, id)]
  BY DEF Tables
<1>3. ASSUME NEW piece \in Range(meta["tokens"].of)
      PROVE  TheId(meta, piece) \in Ids(meta) /\ PieceOf(meta, TheId(meta, piece)) = piece
  <2>1. meta["tokens"].of \in Seq(Seq(STRING))
    BY NoHeaderError, Zenon
  <2>2. PICK i \in 1 .. Len(meta["tokens"].of) : piece = meta["tokens"].of[i]
    BY <2>1 DEF Range
  <2>3. i - 1 \in Ids(meta) /\ PieceOf(meta, i - 1) = piece
    BY <2>1, <2>2 DEF Ids, PieceOf
  <2>4. IdOf(meta, piece) # {}
    BY <2>3 DEF IdOf
  <2> QED BY <2>4, IdHasPiece
<1> HIDE DEF t
<1>4. TextsOK(t)
  BY <1>1, <1>2, <1>3, IdsAreNumbers, PiecesDiffer DEF TextsOK
<1> QED BY <1>4 DEF t

LEMMA FileBytes ==
  ASSUME NEW meta, IsTokens(meta)
  PROVE  BytesOK(Tables(meta))
<1> DEFINE t == Tables(meta)
<1>1. /\ t.byteToId = [b \in Byte |-> CHOOSE id \in BytesOfType(meta) : ByteOf(meta, id) = b]
      /\ t.idToByte = [id \in BytesOfType(meta) |-> ByteOf(meta, id)]
  BY DEF Tables
<1>2. /\ t.pieces = [id \in Ids(meta) |-> PieceOf(meta, id)]
      /\ t.types = [id \in Ids(meta) |-> TypeOf(meta, id)]
  BY DEF Tables
<1>3. ASSUME NEW id \in BytesOfType(meta)
      PROVE  id \in Ids(meta) /\ TypeOf(meta, id) = "byte" /\ Len(PieceOf(meta, id)) = 3
             /\ ByteOf(meta, id) \in STRING
  <2>1. id \in Ids(meta) /\ TypeOf(meta, id) = "byte"
    BY DEF BytesOfType
  <2>2. TokenError(meta, id) = "none"
    BY <2>1, NoTokenError
  <2>3. IsBytePiece(PieceOf(meta, id))
    BY <2>1, <2>2 DEF TokenError
  <2>4. PieceOf(meta, id)[2] \in DOMAIN Hex
    BY <2>3 DEF IsBytePiece
  <2>5. ByteOf(meta, id) \in STRING
    BY <2>4, HexAssumption DEF ByteOf
  <2> QED BY <2>1, <2>3, <2>5 DEF IsBytePiece
<1>4. ASSUME NEW b \in Byte
      PROVE  \E id \in BytesOfType(meta) : ByteOf(meta, id) = b
  <2>1. ByteTableError(meta) = "none"
    BY NoHeaderError
  <2>2. {ByteOf(meta, id) : id \in BytesOfType(meta)} = Byte
    BY <2>1 DEF ByteTableError
  <2> QED BY <2>2
<1> HIDE DEF t
<1>5. BytesOK(t)
  BY <1>1, <1>2, <1>3, <1>4 DEF BytesOK
<1> QED BY <1>5 DEF t

LEMMA MergeOfPair ==
  ASSUME NEW meta, IsTokens(meta), NEW p \in DOMAIN Tables(meta).merges
  PROVE  \E i \in DOMAIN meta["merges"].of :
           /\ p = <<TheId(meta, LeftOf(meta["merges"].of[i])), TheId(meta, RightOf(meta["merges"].of[i]))>>
           /\ Tables(meta).merges[p][2] = TheId(meta, LeftOf(meta["merges"].of[i]) \o RightOf(meta["merges"].of[i]))
<1> DEFINE list == meta["merges"].of
           pair(i) == <<TheId(meta, LeftOf(list[i])), TheId(meta, RightOf(list[i]))>>
           pairs == [i \in DOMAIN list |-> pair(i)]
           rank(q) == SelectLastInSeq(pairs, LAMBDA r : r = q)
           P == {pair(i) : i \in DOMAIN list}
           value(q) == <<rank(q) - 1, TheId(meta, LeftOf(list[rank(q)]) \o RightOf(list[rank(q)]))>>
           I == {i \in 1 .. Len(pairs) : pairs[i] = p}
<1>1. list \in Seq(Seq(STRING)) /\ Len(list) \in Nat /\ DOMAIN list = 1 .. Len(list)
  <2>1. list \in Seq(Seq(STRING))
    BY NoHeaderError, Zenon
  <2> HIDE DEF list
  <2> QED BY <2>1
<1>2. Tables(meta).merges = [q \in P |-> value(q)]
  BY DEF Tables
<1>3. p \in P /\ Tables(meta).merges[p] = value(p)
  <2> HIDE DEF P, value
  <2> QED BY <1>2
<1>4. Len(pairs) = Len(list)
  <2> HIDE DEF list, pair
  <2> QED BY <1>1
<1>5. I \subseteq 1 .. Len(list) /\ I # {}
  <2>1. PICK i \in DOMAIN list : p = pair(i)
    BY <1>3
  <2>2. i \in 1 .. Len(pairs) /\ pairs[i] = p
    <3> HIDE DEF list, pair
    <3> QED BY <1>1, <1>4, <2>1
  <2> HIDE DEF pairs, list
  <2> QED BY <1>4, <2>2
<1>6. rank(p) = Max(I)
  <2>1. I # {}
    BY <1>5
  <2> HIDE DEF pairs
  <2> QED BY <2>1 DEF SelectLastInSeq
<1>7. Max(I) \in I
  <2> HIDE DEF I, list
  <2> QED BY <1>1, <1>5, MaxIn
<1>8. rank(p) \in DOMAIN list /\ pairs[rank(p)] = p
  <2> HIDE DEF rank, pairs, list
  <2> QED BY <1>1, <1>4, <1>6, <1>7
<1>9. pair(rank(p)) = p
  <2> HIDE DEF rank, pair, list
  <2> QED BY <1>8
<1>10. value(p)[2] = TheId(meta, LeftOf(list[rank(p)]) \o RightOf(list[rank(p)]))
  OBVIOUS
<1> HIDE DEF rank, P, pairs, I
<1> QED BY <1>3, <1>8, <1>9, <1>10

LEMMA FileJoins ==
  ASSUME NEW meta, IsTokens(meta)
  PROVE  JoinsOK(Tables(meta))
<1> DEFINE t == Tables(meta)
           list == meta["merges"].of
<1>1. t.pieces = [id \in Ids(meta) |-> PieceOf(meta, id)]
  BY DEF Tables
<1>2. ASSUME NEW p \in DOMAIN t.merges
      PROVE  /\ p[1] \in DOMAIN t.pieces /\ p[2] \in DOMAIN t.pieces /\ t.merges[p][2] \in DOMAIN t.pieces
             /\ t.pieces[t.merges[p][2]] = t.pieces[p[1]] \o t.pieces[p[2]]
  <2>1. PICK i \in DOMAIN list :
           /\ p = <<TheId(meta, LeftOf(list[i])), TheId(meta, RightOf(list[i]))>>
           /\ t.merges[p][2] = TheId(meta, LeftOf(list[i]) \o RightOf(list[i]))
    BY MergeOfPair, Zenon
  <2>2. MergeError(meta, list[i]) = "none"
    BY NoMergeError
  <2>3. ~MissesPiece(meta, list[i])
    BY <2>2 DEF MergeError
  <2>4. /\ IdOf(meta, LeftOf(list[i])) # {} /\ IdOf(meta, RightOf(list[i])) # {}
        /\ IdOf(meta, LeftOf(list[i]) \o RightOf(list[i])) # {}
    <3> HIDE DEF list
    <3> QED BY <2>3 DEF MissesPiece
  <2>5. /\ TheId(meta, LeftOf(list[i])) \in Ids(meta)
        /\ TheId(meta, RightOf(list[i])) \in Ids(meta)
        /\ TheId(meta, LeftOf(list[i]) \o RightOf(list[i])) \in Ids(meta)
        /\ PieceOf(meta, TheId(meta, LeftOf(list[i]))) = LeftOf(list[i])
        /\ PieceOf(meta, TheId(meta, RightOf(list[i]))) = RightOf(list[i])
        /\ PieceOf(meta, TheId(meta, LeftOf(list[i]) \o RightOf(list[i]))) = LeftOf(list[i]) \o RightOf(list[i])
    <3> HIDE DEF list
    <3> QED BY <2>4, IdHasPiece
  <2>6. p[1] = TheId(meta, LeftOf(list[i])) /\ p[2] = TheId(meta, RightOf(list[i]))
    BY <2>1
  <2> HIDE DEF t, list
  <2> QED BY <1>1, <2>1, <2>5, <2>6
<1> HIDE DEF t
<1>3. JoinsOK(t)
  BY <1>2 DEF JoinsOK
<1> QED BY <1>3 DEF t

(* The specials are all control and user-defined tokens, longer pieces      *)
(* first.                                                                   *)
OrderOK(t) ==
  /\ t.specials \in Seq(DOMAIN t.pieces)
  /\ Range(t.specials) = {id \in DOMAIN t.types : t.types[id] \in {"control", "userdefined"}}
  /\ \A i, k \in 1 .. Len(t.specials) :
       i < k => Len(t.pieces[t.specials[i]]) >= Len(t.pieces[t.specials[k]])

LEMMA FileSpecials ==
  ASSUME NEW meta, IsTokens(meta)
  PROVE  OrderOK(Tables(meta))
<1> DEFINE S == SpecialIds(meta)
           R == {p \in S \X S : Precedes(meta, p[1], p[2])}
           t == Tables(meta)
<1>1. S \in SUBSET Ids(meta)
  BY DEF SpecialIds
<1>2. IsFiniteSet(S)
  BY <1>1, IdsAreNumbers, FS_Subset
<1>3. \A a \in S : a \in Nat /\ Len(PieceOf(meta, a)) \in Nat
  BY <1>1, IdsAreNumbers
<1>4. IsStrictOrder(R, S) /\ \A a, b \in S : <<a, b>> \in R <=> Precedes(meta, a, b)
  <2>1. \A a \in S : ~Precedes(meta, a, a)
    BY <1>3 DEF Precedes
  <2>2. \A a, b \in S : a = b \/ Precedes(meta, a, b) \/ Precedes(meta, b, a)
    BY <1>3 DEF Precedes
  <2>3. \A a, b, c \in S : Precedes(meta, a, b) /\ Precedes(meta, b, c) => Precedes(meta, a, c)
    BY <1>3 DEF Precedes
  <2>4. \A a, b \in S : <<a, b>> \in R <=> Precedes(meta, a, b)
    OBVIOUS
  <2> HIDE DEF R, S
  <2> QED BY <2>1, <2>2, <2>3, <2>4 DEF IsStrictOrder
<1>5. \A a \in S : Preceding(R, S, a) = {other \in S : Precedes(meta, other, a)}
  BY DEF Preceding
<1> DEFINE Ranked(i) == CHOOSE id \in S : Cardinality({other \in S : Precedes(meta, other, id)}) = i - 1
<1>6. t.specials = [i \in 1 .. Cardinality(S) |-> Ranked(i)]
  BY DEF Tables, Specials
<1>7. /\ Cardinality(S) \in Nat
      /\ \A i \in 1 .. Cardinality(S) : Ranked(i) \in S /\ Cardinality(Preceding(R, S, Ranked(i))) = i - 1
      /\ \A a \in S : \E i \in 1 .. Cardinality(S) : a = Ranked(i)
      /\ \A i, k \in 1 .. Cardinality(S) : i < k => <<Ranked(i), Ranked(k)>> \in R
  <2> DEFINE Placed(i) == CHOOSE a \in S : Cardinality(Preceding(R, S, a)) = i - 1
  <2>1. \A i : Ranked(i) = Placed(i)
    <3> HIDE DEF R, S
    <3> QED BY <1>5
  <2> HIDE DEF R, S, Ranked
  <2>2. /\ Cardinality(S) \in Nat
        /\ \A i \in 1 .. Cardinality(S) : Placed(i) \in S /\ Cardinality(Preceding(R, S, Placed(i))) = i - 1
        /\ \A a \in S : \E i \in 1 .. Cardinality(S) : a = Placed(i)
        /\ \A i, k \in 1 .. Cardinality(S) : i < k => <<Placed(i), Placed(k)>> \in R
    BY ONLY <1>2, <1>4, OrderIsSorted
  <2> HIDE DEF Placed
  <2> QED BY <2>1, <2>2
<1>8. /\ t.pieces = [id \in Ids(meta) |-> PieceOf(meta, id)]
      /\ t.types = [id \in Ids(meta) |-> TypeOf(meta, id)]
  BY DEF Tables
<1>9. t.specials \in Seq(DOMAIN t.pieces) /\ Len(t.specials) = Cardinality(S)
  <2> HIDE DEF S, Ranked, t, R
  <2> QED BY <1>1, <1>6, <1>7, <1>8
<1>10. Range(t.specials) = S
  <2> HIDE DEF S, Ranked, t, R
  <2> QED BY <1>6, <1>7 DEF Range
<1>11. S = {id \in DOMAIN t.types : t.types[id] \in {"control", "userdefined"}}
  <2> HIDE DEF t
  <2> QED BY <1>8 DEF SpecialIds
<1>12. ASSUME NEW i \in 1 .. Len(t.specials), NEW k \in 1 .. Len(t.specials), i < k
       PROVE  Len(t.pieces[t.specials[i]]) >= Len(t.pieces[t.specials[k]])
  <2> HIDE DEF S, Ranked, t, R
  <2>1. /\ Ranked(i) \in S /\ Ranked(k) \in S /\ <<Ranked(i), Ranked(k)>> \in R
        /\ t.specials[i] = Ranked(i) /\ t.specials[k] = Ranked(k)
    BY <1>6, <1>7, <1>9, <1>12
  <2>2. Precedes(meta, Ranked(i), Ranked(k))
    BY <1>4, <2>1
  <2>3. /\ t.pieces[Ranked(i)] = PieceOf(meta, Ranked(i)) /\ t.pieces[Ranked(k)] = PieceOf(meta, Ranked(k))
        /\ Len(PieceOf(meta, Ranked(i))) \in Nat /\ Len(PieceOf(meta, Ranked(k))) \in Nat
    BY <1>1, <1>3, <1>8, <2>1
  <2> QED BY <2>1, <2>2, <2>3 DEF Precedes
<1> HIDE DEF t, S
<1>13. OrderOK(t)
  BY <1>9, <1>10, <1>11, <1>12 DEF OrderOK
<1> QED BY <1>13 DEF t
-----------------------------------------------------------------------------
(* Decoding: what is out, and the bytes that wait for the rest of a code    *)
(* point.                                                                   *)

Letters == STRING \cup {"cp2", "cp3", FFFD, Space}
States == [out : Seq(Letters), pending : Seq(Letters)]
Start == [out |-> <<>>, pending |-> <<>>]

LEMMA FirstIsInside ==
  ASSUME NEW chars \in Seq(Letters), chars # <<>>
  PROVE  /\ FirstCodePoint(chars).n \in 1 .. Len(chars)
         /\ CodePoint(chars) \in Letters
<1> DEFINE need == Need(chars[1])
           got == CHOOSE k \in 0 .. need :
                    /\ \A i \in 1 .. k : i < Len(chars) /\ chars[i + 1] = Cont
                    /\ k < need => ~(k + 1 < Len(chars) /\ chars[k + 2] = Cont)
<1>1. Len(chars) \in Nat /\ Len(chars) >= 1 /\ chars[1] \in Letters
  OBVIOUS
<1>2. need \in 0 .. 2
  BY DEF Need
<1>3. \E k \in 0 .. need : /\ \A i \in 1 .. k : i < Len(chars) /\ chars[i + 1] = Cont
                           /\ k < need => ~(k + 1 < Len(chars) /\ chars[k + 2] = Cont)
  <2> DEFINE follows(i) == i < Len(chars) /\ chars[i + 1] = Cont
  <2> HIDE DEF need
  <2>1. \E k \in 0 .. need : (\A i \in 1 .. k : follows(i)) /\ (k < need => ~follows(k + 1))
    <3> HIDE DEF follows
    <3>1. CASE need > 0 /\ follows(1) /\ need > 1 /\ follows(2)
      <4>1. need = 2 /\ 2 \in 0 .. need /\ \A i \in 1 .. 2 : i = 1 \/ i = 2
        BY <1>2, <3>1
      <4> QED BY <3>1, <4>1
    <3>2. CASE need > 0 /\ follows(1) /\ ~(need > 1 /\ follows(2))
      <4>1. 1 \in 0 .. need /\ 1 + 1 = 2 /\ \A i \in 1 .. 1 : i = 1
        BY <1>2, <3>2
      <4> QED BY <1>2, <3>2, <4>1
    <3>3. CASE ~(need > 0 /\ follows(1))
      <4>1. 0 \in 0 .. need /\ 0 + 1 = 1 /\ 1 .. 0 = {}
        BY <1>2
      <4> QED BY <3>3, <4>1
    <3> QED BY <3>1, <3>2, <3>3
  <2>2. \A k \in 0 .. need : (k + 1) + 1 = k + 2
    BY <1>2
  <2> QED BY <2>1, <2>2
<1>4. got \in 0 .. need /\ \A i \in 1 .. got : i < Len(chars)
  <2> HIDE DEF need
  <2> QED BY <1>3
<1>5. got + 1 \in 1 .. Len(chars)
  <2> HIDE DEF need, got
  <2>1. CASE got = 0
    BY <1>1, <2>1
  <2>2. CASE got # 0
    <3>1. got \in Nat /\ got \in 1 .. got
      BY <1>2, <1>4, <2>2
    <3> QED BY <1>1, <1>4, <3>1
  <2> QED BY <2>1, <2>2
<1>6. FirstCodePoint(chars) =
        CASE chars[1] = Cont -> [is |-> "invalid", n |-> 1]
         [] chars[1] # Cont /\ got = need -> [is |-> "complete", n |-> 1 + got]
         [] chars[1] # Cont /\ got < need /\ Len(chars) = 1 + got
              -> [is |-> "cut", n |-> Len(chars)]
         [] OTHER -> [is |-> "invalid", n |-> 1 + got]
  BY DEF FirstCodePoint
<1>7. FirstCodePoint(chars).n \in {1, 1 + got, Len(chars)}
  <2> HIDE DEF got, need
  <2> QED BY <1>6
<1>8. CodePoint(chars) \in Letters
  BY <1>1 DEF CodePoint, Letters
<1> HIDE DEF got
<1> QED BY <1>1, <1>4, <1>5, <1>7, <1>8, <1>2

(* A code point that the text holds whole, or the beginning of which it is. *)
LEMMA FirstIsAll ==
  ASSUME NEW chars \in Seq(Letters), chars # <<>>, chars[1] # Cont,
         \A i \in 2 .. Len(chars) : chars[i] = Cont, Len(chars) <= Need(chars[1]) + 1
  PROVE  FirstCodePoint(chars) =
           IF Len(chars) = Need(chars[1]) + 1 THEN [is |-> "complete", n |-> Len(chars)]
           ELSE [is |-> "cut", n |-> Len(chars)]
<1> DEFINE need == Need(chars[1])
           m == Len(chars)
           good(k) == /\ \A i \in 1 .. k : i < m /\ chars[i + 1] = Cont
                      /\ k < need => ~(k + 1 < m /\ chars[k + 2] = Cont)
           got == CHOOSE k \in 0 .. need : good(k)
<1>1. m \in Nat /\ m >= 1 /\ need \in 0 .. 2 /\ m <= need + 1
  BY DEF Need
<1>2. \A i \in 2 .. m : chars[i] = Cont
  OBVIOUS
<1> HIDE DEF need, m
<1>3. m - 1 \in 0 .. need /\ good(m - 1)
  BY <1>1, <1>2
<1>4. ASSUME NEW k \in 0 .. need, good(k)
      PROVE  k = m - 1
  <2>1. k < m
    <3>1. CASE k = 0
      BY <1>1, <3>1
    <3>2. CASE k # 0
      <4>1. k \in 1 .. k
        BY <1>1, <3>2
      <4> QED BY <1>1, <1>4, <4>1
    <3> QED BY <3>1, <3>2
  <2>2. ASSUME k < m - 1 PROVE FALSE
    <3>1. k < need /\ k + 1 < m /\ k + 2 \in 2 .. m
      BY <1>1, <2>2
    <3> QED BY <1>2, <1>4, <3>1
  <2> QED BY <1>1, <2>1, <2>2
<1>5. got = m - 1
  <2> HIDE DEF good
  <2> QED BY <1>3, <1>4
<1>6. FirstCodePoint(chars) =
        CASE chars[1] = Cont -> [is |-> "invalid", n |-> 1]
         [] chars[1] # Cont /\ got = need -> [is |-> "complete", n |-> 1 + got]
         [] chars[1] # Cont /\ got < need /\ m = 1 + got -> [is |-> "cut", n |-> m]
         [] OTHER -> [is |-> "invalid", n |-> 1 + got]
  BY DEF FirstCodePoint, need, m
<1> HIDE DEF got
<1>7. 1 + got = m /\ (got = need <=> m = need + 1) /\ (got # need => got < need)
  BY <1>1, <1>5
<1>8. FirstCodePoint(chars) =
           IF m = need + 1 THEN [is |-> "complete", n |-> m] ELSE [is |-> "cut", n |-> m]
  <2>1. chars[1] # Cont
    OBVIOUS
  <2>2. CASE got = need
    <3>1. ~(got < need)
      BY <1>1, <2>2
    <3>2. FirstCodePoint(chars) = [is |-> "complete", n |-> 1 + got]
      BY <1>6, <2>1, <2>2, <3>1
    <3> QED BY <1>7, <2>2, <3>2
  <2>3. CASE got # need
    BY <1>6, <1>7, <2>1, <2>3
  <2> QED BY <2>2, <2>3
<1> QED BY <1>8 DEF need, m

LEMMA SuffixIs ==
  ASSUME NEW S, NEW chars \in Seq(S), NEW i \in 1 .. Len(chars) + 1
  PROVE  /\ From(chars, i) \in Seq(S) /\ Len(From(chars, i)) = Len(chars) + 1 - i
         /\ \A k \in 1 .. Len(chars) + 1 - i : From(chars, i)[k] = chars[i + k - 1]
         /\ From(chars, 1) = chars
<1>1. Len(chars) \in Nat
  OBVIOUS
<1>2. From(chars, i) \in Seq(S) /\ Len(From(chars, i)) = Len(chars) + 1 - i
  BY <1>1 DEF From
<1>3. \A k \in 1 .. Len(chars) + 1 - i : From(chars, i)[k] = chars[i + k - 1]
  BY <1>1 DEF From
<1>4. From(chars, 1) = chars
  BY <1>1 DEF From
<1> QED BY <1>2, <1>3, <1>4

LEMMA DrainIs ==
  ASSUME NEW chars \in Seq(Letters)
  PROVE  /\ Drain(chars) \in States
         /\ chars # <<>> => LET first == FirstCodePoint(chars)
              IN /\ first.is = "cut" => Drain(chars) = [out |-> <<>>, pending |-> chars]
                 /\ first.is = "complete" /\ first.n = Len(chars) =>
                      Drain(chars) = [out |-> <<CodePoint(chars)>>, pending |-> <<>>]
<1> DEFINE N == Len(chars)
           first(i) == FirstCodePoint(From(chars, i))
           after(f, left, more) ==
             IF f.is = "cut" THEN [out |-> <<>>, pending |-> left]
             ELSE [out |-> <<IF f.is = "complete" THEN CodePoint(left) ELSE FFFD>> \o more.out,
                   pending |-> more.pending]
           jump == [i \in 1 .. N |-> i + first(i).n]
           F == [i \in 1 .. N |-> [v \in States |-> after(first(i), From(chars, i), v)]]
<1>1. N \in Nat /\ Start \in States
  BY DEF Start, States
<1>2. ASSUME NEW i \in 1 .. N
      PROVE  /\ From(chars, i) \in Seq(Letters) /\ From(chars, i) # <<>>
             /\ first(i).n \in 1 .. N + 1 - i /\ CodePoint(From(chars, i)) \in Letters
  <2>1. From(chars, i) \in Seq(Letters) /\ Len(From(chars, i)) = N + 1 - i
    BY SuffixIs
  <2>2. From(chars, i) # <<>>
    BY <2>1
  <2> QED BY <2>1, <2>2, FirstIsInside
<1>3. ASSUME NEW i \in 1 .. N, NEW v \in States
      PROVE  after(first(i), From(chars, i), v) \in States
  <2>1. v.out \in Seq(Letters) /\ v.pending \in Seq(Letters)
    BY DEF States
  <2>2. <<IF first(i).is = "complete" THEN CodePoint(From(chars, i)) ELSE FFFD>> \in Seq(Letters)
    <3>1. CodePoint(From(chars, i)) \in Letters /\ FFFD \in Letters
      BY <1>2 DEF Letters
    <3> HIDE DEF first
    <3> QED BY <3>1
  <2> HIDE DEF first
  <2> QED BY <1>2, <2>1, <2>2 DEF States
<1> HIDE DEF first, after
<1>4. jump \in [1 .. N -> Nat] /\ \A i \in 1 .. N : i < jump[i] /\ jump[i] <= N + 1
  <2>1. \A i \in 1 .. N : jump[i] = i + first(i).n /\ first(i).n \in 1 .. N + 1 - i
    BY <1>2
  <2> HIDE DEF N
  <2> QED BY <1>1, <1>2
<1>5. F \in [1 .. N -> [States -> States]]
  BY <1>3
<1> HIDE DEF jump, F
<1>6. PICK g : Jumps(g, N, States, Start, jump, F)
  <2> HIDE DEF N
  <2> QED BY ONLY <1>1, <1>4, <1>5, JumpsExist
<1> DEFINE body(f) == [i \in 1 .. Len(chars) + 1 |->
                         IF i > Len(chars) THEN [out |-> <<>>, pending |-> <<>>]
                         ELSE after(FirstCodePoint(From(chars, i)), From(chars, i),
                                    f[i + FirstCodePoint(From(chars, i)).n])]
           from == CHOOSE f : f = body(f)
<1>7. g \in [1 .. N + 1 -> States] /\ g[N + 1] = Start
      /\ \A i \in 1 .. N : g[i] = after(first(i), From(chars, i), g[i + first(i).n])
  <2>1. ASSUME NEW i \in 1 .. N
        PROVE  g[i] = after(first(i), From(chars, i), g[i + first(i).n])
    <3>1. g[i] = F[i][g[jump[i]]]
      BY <1>6 DEF Jumps
    <3>2. jump[i] = i + first(i).n /\ jump[i] \in 1 .. N + 1
      <4>1. jump[i] = i + first(i).n
        BY DEF jump
      <4> QED BY <1>1, <1>4, <4>1
    <3>3. g[jump[i]] \in States
      BY <1>6, <3>2 DEF Jumps
    <3> QED BY <3>1, <3>2, <3>3 DEF F
  <2> QED BY <1>6, <2>1 DEF Jumps
<1>8. g = body(g)
  <2>1. \A i \in 1 .. N + 1 : i > N => g[i] = Start
    BY <1>1, <1>7
  <2>2. \A i \in 1 .. N + 1 : ~(i > N) => g[i] = after(first(i), From(chars, i), g[i + first(i).n])
    BY <1>1, <1>7
  <2>3. \A i \in 1 .. N + 1 : g[i] = IF i > N THEN Start ELSE after(first(i), From(chars, i), g[i + first(i).n])
    BY <2>1, <2>2
  <2>4. g = [i \in 1 .. N + 1 |-> g[i]]
    BY <1>7
  <2> QED BY <2>3, <2>4 DEF Start, first
<1>9. from = body(from)
  <2> HIDE DEF body
  <2> QED BY <1>8
<1>10. Drain(chars) = from[1]
  BY DEF Drain, after
<1>11. FunctionOn(from, 1 .. N + 1) /\ from[N + 1] = Start
       /\ \A i \in 1 .. N : from[i] = after(first(i), From(chars, i), from[i + first(i).n])
  <2>1. from = [i \in 1 .. N + 1 |-> body(from)[i]]
    BY <1>9
  <2>2. FunctionOn(from, 1 .. N + 1)
    <3> HIDE DEF from, body
    <3> QED BY <1>9, <2>1 DEF FunctionOn
  <2>3. \A i \in 1 .. N + 1 : from[i] = body(from)[i]
    <3> HIDE DEF from, body
    <3> QED BY <1>9
  <2>4. \A i \in 1 .. N + 1 : body(from)[i] = IF i > N THEN Start ELSE after(first(i), From(chars, i), from[i + first(i).n])
    <3> HIDE DEF from
    <3> QED BY DEF Start, first
  <2>5. N + 1 \in 1 .. N + 1 /\ N + 1 > N /\ \A i \in 1 .. N : i \in 1 .. N + 1 /\ ~(i > N)
    BY <1>1
  <2> HIDE DEF from, body, N
  <2> QED BY <2>2, <2>3, <2>4, <2>5
<1> HIDE DEF from
<1>12. Jumps(from, N, States, Start, jump, F)
  <2>1. ASSUME NEW i \in 1 .. N, from[jump[i]] \in States
        PROVE  from[i] = F[i][from[jump[i]]]
    <3>1. jump[i] = i + first(i).n
      BY DEF jump
    <3> QED BY <1>11, <2>1, <3>1 DEF F
  <2> HIDE DEF N
  <2> QED BY ONLY <1>1, <1>4, <1>5, <1>11, <2>1, JumpsAre
<1>13. from[1] \in States
  <2>1. 1 \in 1 .. N + 1
    BY <1>1
  <2> QED BY <1>12, <2>1 DEF Jumps
<1>14. ASSUME chars # <<>>
       PROVE  LET f == FirstCodePoint(chars)
              IN /\ f.is = "cut" => from[1] = [out |-> <<>>, pending |-> chars]
                 /\ f.is = "complete" /\ f.n = Len(chars) =>
                      from[1] = [out |-> <<CodePoint(chars)>>, pending |-> <<>>]
  <2>1. 1 \in 1 .. N /\ From(chars, 1) = chars
    <3>1. N # 0 /\ 1 \in 1 .. N + 1
      BY <1>1, <1>14
    <3> QED BY <1>1, <3>1, SuffixIs
  <2>2. first(1) = FirstCodePoint(chars) /\ from[1] = after(first(1), chars, from[1 + first(1).n])
    BY <1>11, <2>1 DEF first
  <2>3. first(1).is = "cut" => from[1] = [out |-> <<>>, pending |-> chars]
    BY <2>2 DEF after
  <2>4. ASSUME first(1).is = "complete", first(1).n = N
        PROVE  from[1] = [out |-> <<CodePoint(chars)>>, pending |-> <<>>]
    <3>1. from[1 + first(1).n] = Start
      BY <1>1, <1>11, <2>4
    <3>2. CodePoint(chars) \in Letters
      BY <1>2, <2>1
    <3>3. <<CodePoint(chars)>> \o <<>> = <<CodePoint(chars)>>
      BY <3>2
    <3> QED BY <2>2, <2>4, <3>1, <3>3 DEF after, Start
  <2> QED BY <2>2, <2>3, <2>4
<1> QED BY <1>10, <1>13, <1>14

(* The decoder after a sequence of tokens.                                  *)
StateAfter(tokens) ==
    LET after[i \in 0 .. Len(tokens)] ==
          IF i = 0 THEN [out |-> <<>>, pending |-> <<>>] ELSE DecodeToken(after[i - 1], tokens[i])
    IN after[Len(tokens)]

Decoding(g, tokens) ==
  /\ g \in [0 .. Len(tokens) -> States] /\ g[0] = Start
  /\ \A i \in 1 .. Len(tokens) : g[i] = DecodeToken(g[i - 1], tokens[i])

Known == DOMAIN vocab.pieces
VocabTexts == TextsOK(vocab) /\ BytesOK(vocab) /\ JoinsOK(vocab)

LEMMA LettersKnown ==
  ASSUME NEW chars \in Seq(STRING)
  PROVE  chars \in Seq(Letters)
<1>1. \A i \in 1 .. Len(chars) : chars[i] \in Letters
  BY DEF Letters
<1>2. chars = [i \in 1 .. Len(chars) |-> chars[i]] /\ Len(chars) \in Nat
  OBVIOUS
<1> QED BY <1>1, <1>2

LEMMA SpacesBack ==
  ASSUME NEW chars \in Seq(Letters)
  PROVE  /\ AsText(chars) \in Seq(Letters) /\ Len(AsText(chars)) = Len(chars)
         /\ \A i \in 1 .. Len(chars) : AsText(chars)[i] = IF chars[i] = Block THEN Space ELSE chars[i]
         /\ ReplaceAll(chars, Block, Space) = AsText(chars)
<1>1. Space \in Letters
  BY DEF Letters
<1>2. Len(chars) \in Nat /\ DOMAIN chars = 1 .. Len(chars)
  OBVIOUS
<1>3. AsText(chars) = [i \in 1 .. Len(chars) |-> IF chars[i] = Block THEN Space ELSE chars[i]]
  BY <1>2 DEF AsText
<1>4. ReplaceAll(chars, Block, Space) = AsText(chars)
  BY <1>3 DEF ReplaceAll
<1> QED BY <1>1, <1>2, <1>3, <1>4

LEMMA FlushType ==
  ASSUME NEW waiting \in Seq(Letters)
  PROVE  Flush(waiting) \in Seq(Letters)
<1>1. FFFD \in Letters
  BY DEF Letters
<1>2. <<FFFD>> \in Seq(Letters) /\ <<>> \in Seq(Letters)
  BY <1>1
<1> QED BY <1>2 DEF Flush

LEMMA DecodeTokenType ==
  ASSUME VocabTexts, NEW state \in States, NEW id \in Known
  PROVE  DecodeToken(state, id) \in States
<1>1. state.out \in Seq(Letters) /\ state.pending \in Seq(Letters)
  BY DEF States
<1>2. CASE id \in DOMAIN vocab.idToByte
  <2>1. vocab.idToByte[id] \in Letters
    BY <1>2 DEF VocabTexts, BytesOK, Letters
  <2> DEFINE pushed == PushByte(state.pending, vocab.idToByte[id])
  <2>2. Append(state.pending, vocab.idToByte[id]) \in Seq(Letters)
    BY <1>1, <2>1
  <2>3. pushed \in States
    BY <2>2, DrainIs DEF PushByte
  <2> HIDE DEF pushed
  <2>4. [out |-> state.out \o pushed.out, pending |-> pushed.pending] \in States
    BY <1>1, <2>3 DEF States
  <2> QED BY <1>2, <2>4 DEF DecodeToken, pushed
<1>3. CASE id \notin DOMAIN vocab.idToByte
  <2>1. vocab.pieces[id] \in Seq(Letters)
    BY LettersKnown DEF VocabTexts, TextsOK, Known
  <2> DEFINE piece == ReplaceAll(vocab.pieces[id], Block, Space)
             flushed == Flush(state.pending)
  <2>2. piece \in Seq(Letters) /\ flushed \in Seq(Letters)
    BY <1>1, <2>1, SpacesBack, FlushType
  <2> HIDE DEF piece, flushed
  <2>3. [out |-> state.out \o flushed \o piece, pending |-> <<>>] \in States
    BY <1>1, <2>2 DEF States
  <2> QED BY <1>3, <2>3 DEF DecodeToken, piece, flushed
<1> QED BY <1>2, <1>3

LEMMA DecodingExists ==
  ASSUME VocabTexts, NEW tokens \in Seq(Known)
  PROVE  \E g : Decoding(g, tokens) /\ StateAfter(tokens) = g[Len(tokens)]
<1> DEFINE N == Len(tokens)
           F == [i \in 1 .. N |-> [v \in States |-> DecodeToken(v, tokens[i])]]
           body(f) == [i \in 0 .. Len(tokens) |->
                         IF i = 0 THEN [out |-> <<>>, pending |-> <<>>] ELSE DecodeToken(f[i - 1], tokens[i])]
           after == CHOOSE f : f = body(f)
<1>1. N \in Nat /\ Start \in States
  BY DEF Start, States
<1>2. F \in [1 .. N -> [States -> States]]
  BY DecodeTokenType
<1> HIDE DEF F
<1>3. PICK g : Recursion(g, N, States, Start, F)
  <2> HIDE DEF N
  <2> QED BY ONLY <1>1, <1>2, RecursionExists
<1>4. /\ g \in [0 .. N -> States] /\ g[0] = Start
      /\ \A i \in 1 .. N : g[i] = DecodeToken(g[i - 1], tokens[i])
  <2>1. ASSUME NEW i \in 1 .. N
        PROVE  g[i] = DecodeToken(g[i - 1], tokens[i])
    <3>1. g[i] = F[i][g[i - 1]] /\ g[i - 1] \in States
      BY <1>1, <1>3 DEF Recursion
    <3> QED BY <3>1 DEF F
  <2> QED BY <1>3, <2>1 DEF Recursion
<1>5. g = body(g)
  <2>1. \A i \in 0 .. N : g[i] = IF i = 0 THEN Start ELSE DecodeToken(g[i - 1], tokens[i])
    BY <1>1, <1>4
  <2>2. g = [i \in 0 .. N |-> g[i]]
    BY <1>4
  <2> QED BY <2>1, <2>2 DEF Start
<1>6. after = body(after)
  <2> HIDE DEF body
  <2> QED BY <1>5
<1>7. FunctionOn(after, 0 .. N) /\ after[0] = Start
      /\ \A i \in 1 .. N : after[i] = DecodeToken(after[i - 1], tokens[i])
  <2>1. after = [i \in 0 .. N |-> body(after)[i]]
    BY <1>6
  <2>2. FunctionOn(after, 0 .. N)
    <3> HIDE DEF after, body
    <3> QED BY <1>6, <2>1 DEF FunctionOn
  <2>3. \A i \in 0 .. N : after[i] = body(after)[i]
    <3> HIDE DEF after, body
    <3> QED BY <1>6
  <2>4. \A i \in 0 .. N : body(after)[i] = IF i = 0 THEN Start ELSE DecodeToken(after[i - 1], tokens[i])
    <3> HIDE DEF after
    <3> QED BY DEF Start
  <2>5. 0 \in 0 .. N /\ \A i \in 1 .. N : i \in 0 .. N /\ i # 0
    BY <1>1
  <2> HIDE DEF after, body, N
  <2> QED BY <2>2, <2>3, <2>4, <2>5
<1>8. StateAfter(tokens) = after[Len(tokens)]
  BY DEF StateAfter
<1> HIDE DEF after
<1>9. Recursion(after, N, States, Start, F)
  <2>1. ASSUME NEW i \in 1 .. N, after[i - 1] \in States
        PROVE  after[i] = F[i][after[i - 1]]
    BY <1>7, <2>1 DEF F
  <2> HIDE DEF N
  <2> QED BY ONLY <1>1, <1>2, <1>7, <2>1, RecursionIs
<1>10. Decoding(after, tokens)
  BY <1>7, <1>9 DEF Recursion, Decoding
<1> QED BY <1>8, <1>10

(* What a decoder has done after some of its tokens depends on these alone. *)
LEMMA PrefixState ==
  ASSUME VocabTexts, NEW u \in Seq(Known), NEW w \in Seq(Known), Len(u) <= Len(w),
         \A k \in 1 .. Len(u) : u[k] = w[k], NEW h, Decoding(h, w)
  PROVE  h[Len(u)] = StateAfter(u)
<1>1. PICK g : Decoding(g, u) /\ StateAfter(u) = g[Len(u)]
  BY DecodingExists
<1> DEFINE S == {k \in 0 .. Len(u) : g[k] = h[k]}
<1>2. Len(u) \in Nat /\ Len(w) \in Nat
  OBVIOUS
<1>3. 0 \in S
  BY <1>1, <1>2 DEF Decoding
<1>4. ASSUME NEW k \in 1 .. Len(u), k - 1 \in S
      PROVE  k \in S
  <2>1. k \in 1 .. Len(w) /\ u[k] = w[k]
    BY <1>2
  <2>2. g[k] = DecodeToken(g[k - 1], u[k]) /\ h[k] = DecodeToken(h[k - 1], w[k])
    BY <1>1, <2>1 DEF Decoding
  <2> QED BY <1>4, <2>1, <2>2
<1> HIDE DEF S
<1>5. \A k \in 0 .. Len(u) : k \in S
  BY ONLY <1>2, <1>3, <1>4, BoundedInduction
<1>6. Len(u) \in S
  BY <1>2, <1>5
<1> QED BY <1>1, <1>6 DEF S

LEMMA AfterNothing == VocabTexts => StateAfter(<<>>) = Start
<1> SUFFICES ASSUME VocabTexts PROVE StateAfter(<<>>) = Start
  OBVIOUS
<1>1. <<>> \in Seq(Known) /\ Len(<<>>) = 0
  OBVIOUS
<1>2. PICK g : Decoding(g, <<>>) /\ StateAfter(<<>>) = g[Len(<<>>)]
  BY <1>1, DecodingExists
<1> QED BY <1>1, <1>2 DEF Decoding

LEMMA AfterType ==
  ASSUME VocabTexts, NEW tokens \in Seq(Known)
  PROVE  StateAfter(tokens) \in States
<1>1. PICK g : Decoding(g, tokens) /\ StateAfter(tokens) = g[Len(tokens)]
  BY DecodingExists
<1>2. Len(tokens) \in 0 .. Len(tokens)
  OBVIOUS
<1> QED BY <1>1, <1>2 DEF Decoding

LEMMA AfterOneMore ==
  ASSUME VocabTexts, NEW u \in Seq(Known), NEW id \in Known
  PROVE  StateAfter(u \o <<id>>) = DecodeToken(StateAfter(u), id)
<1> DEFINE w == u \o <<id>>
<1>1. w \in Seq(Known) /\ Len(w) = Len(u) + 1 /\ Len(u) \in Nat /\ w[Len(u) + 1] = id
      /\ \A k \in 1 .. Len(u) : u[k] = w[k]
  OBVIOUS
<1> HIDE DEF w
<1>2. PICK h : Decoding(h, w) /\ StateAfter(w) = h[Len(w)]
  BY <1>1, DecodingExists
<1>3. h[Len(u)] = StateAfter(u)
  <2>1. Len(u) <= Len(w)
    BY <1>1
  <2> QED BY <1>1, <1>2, <2>1, PrefixState
<1>4. h[Len(w)] = DecodeToken(h[Len(u)], id)
  <2>1. Len(w) \in 1 .. Len(w) /\ Len(w) - 1 = Len(u) /\ w[Len(w)] = id
    BY <1>1
  <2> QED BY <1>2, <2>1 DEF Decoding
<1> QED BY <1>2, <1>3, <1>4 DEF w

LEMMA SameSuffix ==
  ASSUME VocabTexts, NEW u \in Seq(Known), NEW v \in Seq(Known), NEW w \in Seq(Known),
         StateAfter(u) = StateAfter(v)
  PROVE  StateAfter(u \o w) = StateAfter(v \o w)
<1> DEFINE uw == u \o w
           vw == v \o w
<1>1. /\ uw \in Seq(Known) /\ vw \in Seq(Known)
      /\ Len(uw) = Len(u) + Len(w) /\ Len(vw) = Len(v) + Len(w)
      /\ Len(u) \in Nat /\ Len(v) \in Nat /\ Len(w) \in Nat
      /\ \A k \in 1 .. Len(u) : u[k] = uw[k]
      /\ \A k \in 1 .. Len(v) : v[k] = vw[k]
      /\ \A k \in 1 .. Len(w) : uw[Len(u) + k] = vw[Len(v) + k]
  <2>1. uw \in Seq(Known) /\ vw \in Seq(Known)
    OBVIOUS
  <2>2. /\ Len(uw) = Len(u) + Len(w) /\ Len(u) \in Nat /\ Len(w) \in Nat
        /\ \A k \in 1 .. Len(u) : uw[k] = u[k]
        /\ \A k \in 1 .. Len(w) : uw[Len(u) + k] = w[k]
    BY JoinedAt
  <2>3. /\ Len(vw) = Len(v) + Len(w) /\ Len(v) \in Nat
        /\ \A k \in 1 .. Len(v) : vw[k] = v[k]
        /\ \A k \in 1 .. Len(w) : vw[Len(v) + k] = w[k]
    BY JoinedAt
  <2> HIDE DEF uw, vw
  <2> QED BY <2>1, <2>2, <2>3
<1> HIDE DEF uw, vw
<1>2. PICK g : Decoding(g, uw) /\ StateAfter(uw) = g[Len(uw)]
  BY <1>1, DecodingExists
<1>3. PICK h : Decoding(h, vw) /\ StateAfter(vw) = h[Len(vw)]
  BY <1>1, DecodingExists
<1>4. g[Len(u)] = StateAfter(u) /\ h[Len(v)] = StateAfter(v)
  <2>1. Len(u) <= Len(uw) /\ Len(v) <= Len(vw)
    BY <1>1
  <2> QED BY <1>1, <1>2, <1>3, <2>1, PrefixState
<1> DEFINE S == {k \in 0 .. Len(w) : g[Len(u) + k] = h[Len(v) + k]}
<1>5. 0 \in S
  <2>1. 0 \in 0 .. Len(w) /\ Len(u) + 0 = Len(u) /\ Len(v) + 0 = Len(v)
    BY <1>1
  <2> QED BY <1>4, <2>1
<1>6. ASSUME NEW k \in 1 .. Len(w), k - 1 \in S
      PROVE  k \in S
  <2>1. /\ Len(u) + k \in 1 .. Len(uw) /\ (Len(u) + k) - 1 = Len(u) + (k - 1)
        /\ Len(v) + k \in 1 .. Len(vw) /\ (Len(v) + k) - 1 = Len(v) + (k - 1)
    BY <1>1
  <2>2. /\ g[Len(u) + k] = DecodeToken(g[Len(u) + (k - 1)], uw[Len(u) + k])
        /\ h[Len(v) + k] = DecodeToken(h[Len(v) + (k - 1)], vw[Len(v) + k])
    BY <1>2, <1>3, <2>1 DEF Decoding
  <2>3. g[Len(u) + (k - 1)] = h[Len(v) + (k - 1)] /\ uw[Len(u) + k] = vw[Len(v) + k]
    BY <1>1, <1>6
  <2>4. k \in 0 .. Len(w) /\ g[Len(u) + k] = h[Len(v) + k]
    BY <2>2, <2>3
  <2> QED BY <2>4
<1> HIDE DEF S
<1>7. \A k \in 0 .. Len(w) : k \in S
  BY ONLY <1>1, <1>5, <1>6, BoundedInduction
<1>8. Len(w) \in S
  BY <1>1, <1>7
<1>9. g[Len(uw)] = h[Len(vw)]
  BY <1>1, <1>8 DEF S
<1> QED BY <1>2, <1>3, <1>9 DEF uw, vw

(* The tokens v are read as a text, wherever no byte is waiting.            *)
Reads(v, chars) ==
  /\ v \in Seq(Known) /\ chars \in Seq(Letters)
  /\ \A u \in Seq(Known) : StateAfter(u).pending = <<>> =>
       StateAfter(u \o v) = [out |-> StateAfter(u).out \o chars, pending |-> <<>>]

LEMMA ReadsJoin ==
  ASSUME VocabTexts, NEW v, NEW s, Reads(v, s), NEW w, NEW t, Reads(w, t)
  PROVE  Reads(v \o w, s \o t)
<1>1. v \in Seq(Known) /\ w \in Seq(Known) /\ s \in Seq(Letters) /\ t \in Seq(Letters)
  BY DEF Reads
<1>2. v \o w \in Seq(Known) /\ s \o t \in Seq(Letters)
  BY <1>1
<1>3. ASSUME NEW u \in Seq(Known), StateAfter(u).pending = <<>>
      PROVE  StateAfter(u \o (v \o w)) = [out |-> StateAfter(u).out \o (s \o t), pending |-> <<>>]
  <2>1. StateAfter(u \o v) = [out |-> StateAfter(u).out \o s, pending |-> <<>>]
    BY <1>3 DEF Reads
  <2>2. u \o v \in Seq(Known) /\ StateAfter(u \o v).pending = <<>> /\ StateAfter(u \o v).out = StateAfter(u).out \o s
    BY <1>1, <2>1
  <2>3. StateAfter((u \o v) \o w) = [out |-> (StateAfter(u).out \o s) \o t, pending |-> <<>>]
    BY <2>2 DEF Reads
  <2>4. StateAfter(u).out \in Seq(Letters)
    BY AfterType DEF States
  <2> DEFINE X == StateAfter(u).out
  <2>5. (u \o v) \o w = u \o (v \o w)
    <3>1. JoinsAgain(u, v, w)
      BY ONLY u \in Seq(Known), <1>1, JoinAgain
    <3> QED BY ONLY <3>1, Zenon DEF JoinsAgain
  <2>6. (X \o s) \o t = X \o (s \o t)
    <3>1. X \in Seq(Letters)
      BY <2>4
    <3> HIDE DEF X
    <3>2. JoinsAgain(X, s, t)
      BY ONLY <3>1, <1>1, JoinAgain
    <3> QED BY ONLY <3>2, Zenon DEF JoinsAgain
  <2> QED BY <2>3, <2>5, <2>6
<1> QED BY <1>2, <1>3 DEF Reads

LEMMA ReadsPiece ==
  ASSUME VocabTexts, NEW id \in Known, id \notin DOMAIN vocab.idToByte
  PROVE  Reads(<<id>>, AsText(vocab.pieces[id]))
<1>1. vocab.pieces[id] \in Seq(Letters)
  BY LettersKnown DEF VocabTexts, TextsOK, Known
<1>2. AsText(vocab.pieces[id]) \in Seq(Letters) /\ ReplaceAll(vocab.pieces[id], Block, Space) = AsText(vocab.pieces[id])
  BY <1>1, SpacesBack
<1>3. ASSUME NEW u \in Seq(Known), StateAfter(u).pending = <<>>
      PROVE  StateAfter(u \o <<id>>) = [out |-> StateAfter(u).out \o AsText(vocab.pieces[id]), pending |-> <<>>]
  <2>1. StateAfter(u \o <<id>>) = DecodeToken(StateAfter(u), id)
    BY AfterOneMore
  <2>2. Flush(StateAfter(u).pending) = <<>>
    BY <1>3 DEF Flush
  <2>3. DecodeToken(StateAfter(u), id) =
          [out |-> StateAfter(u).out \o <<>> \o AsText(vocab.pieces[id]), pending |-> <<>>]
    BY <1>2, <2>2 DEF DecodeToken
  <2>4. StateAfter(u).out \in Seq(Letters)
    BY AfterType DEF States
  <2>5. StateAfter(u).out \o <<>> = StateAfter(u).out
    BY <2>4
  <2> QED BY <2>1, <2>3, <2>5
<1>4. <<id>> \in Seq(Known)
  OBVIOUS
<1> QED BY <1>2, <1>3, <1>4 DEF Reads

(* A code point spelled in bytes.                                           *)
LEMMA ReadsBytes ==
  ASSUME VocabTexts, NEW bytes \in Seq(Letters), bytes # <<>>, bytes[1] # Cont,
         \A i \in 2 .. Len(bytes) : bytes[i] = Cont, Len(bytes) = Need(bytes[1]) + 1,
         \A i \in 1 .. Len(bytes) : bytes[i] \in DOMAIN vocab.byteToId
  PROVE  Reads([i \in DOMAIN bytes |-> vocab.byteToId[bytes[i]]], <<CodePoint(bytes)>>)
<1> DEFINE m == Len(bytes)
           v == [i \in 1 .. m |-> vocab.byteToId[bytes[i]]]
<1>1. m \in Nat /\ m >= 1 /\ DOMAIN bytes = 1 .. m
  OBVIOUS
<1>2. \A i \in 1 .. m : /\ vocab.byteToId[bytes[i]] \in Known
                        /\ vocab.byteToId[bytes[i]] \in DOMAIN vocab.idToByte
                        /\ vocab.idToByte[vocab.byteToId[bytes[i]]] = bytes[i]
  BY DEF VocabTexts, BytesOK, Known
<1>3. v \in Seq(Known) /\ Len(v) = m /\ \A i \in 1 .. m : v[i] = vocab.byteToId[bytes[i]]
  <2> HIDE DEF m
  <2> QED BY <1>1, <1>2
<1>4. CodePoint(bytes) \in Letters
  BY FirstIsInside
<1> HIDE DEF v
<1>5. ASSUME NEW u \in Seq(Known), StateAfter(u).pending = <<>>
      PROVE  StateAfter(u \o v) = [out |-> StateAfter(u).out \o <<CodePoint(bytes)>>, pending |-> <<>>]
  <2> DEFINE X == StateAfter(u).out
             S == {k \in 0 .. m : StateAfter(u \o SubSeq(v, 1, k)) =
                     IF k = m THEN [out |-> X \o <<CodePoint(bytes)>>, pending |-> <<>>]
                     ELSE [out |-> X, pending |-> SubSeq(bytes, 1, k)]}
  <2>1. X \in Seq(Letters) /\ StateAfter(u) = [out |-> X, pending |-> <<>>]
    BY <1>5, AfterType DEF States
  <2>2. 0 \in S
    <3>1. SubSeq(v, 1, 0) = <<>> /\ SubSeq(bytes, 1, 0) = <<>> /\ u \o <<>> = u
      BY <1>1, <1>3
    <3>2. u \o SubSeq(v, 1, 0) = u /\ 0 \in 0 .. m /\ 0 # m
      BY <1>1, <3>1
    <3> HIDE DEF X, m
    <3> QED BY <2>1, <3>1, <3>2
  <2>3. ASSUME NEW k \in 1 .. m, k - 1 \in S
        PROVE  k \in S
    <3> DEFINE before_ == u \o SubSeq(v, 1, k - 1)
               now == SubSeq(bytes, 1, k)
    <3>1. StateAfter(before_) = [out |-> X, pending |-> SubSeq(bytes, 1, k - 1)]
      BY <2>3
    <3>0. k \in Nat /\ k >= 1 /\ k <= m
      BY <1>1
    <3> HIDE DEF S, m
    <3>2. /\ SubSeq(v, 1, k - 1) \in Seq(Known) /\ SubSeq(v, 1, k) = SubSeq(v, 1, k - 1) \o <<v[k]>>
          /\ v[k] \in Known
      BY <1>1, <1>3, OneLonger
    <3>3. before_ \in Seq(Known) /\ u \o SubSeq(v, 1, k) = before_ \o <<v[k]>>
      <4>1. <<v[k]>> \in Seq(Known)
        BY <3>2
      <4>2. (u \o SubSeq(v, 1, k - 1)) \o <<v[k]>> = u \o (SubSeq(v, 1, k - 1) \o <<v[k]>>)
        <5> DEFINE p == SubSeq(v, 1, k - 1)
                   q == <<v[k]>>
        <5>1. p \in Seq(Known) /\ q \in Seq(Known)
          BY <3>2, <4>1
        <5> HIDE DEF p, q
        <5>2. (u \o p) \o q = u \o (p \o q)
          <6>1. JoinsAgain(u, p, q)
            BY ONLY u \in Seq(Known), <5>1, JoinAgain
          <6> QED BY ONLY <6>1, Zenon DEF JoinsAgain
        <5> QED BY <5>2 DEF p, q
      <4>3. PICK cut, longer : cut = SubSeq(v, 1, k - 1) /\ longer = SubSeq(v, 1, k)
        OBVIOUS
      <4>4. cut \in Seq(Known) /\ longer = cut \o <<v[k]>> /\ (u \o cut) \o <<v[k]>> = u \o (cut \o <<v[k]>>)
        BY ONLY <3>2, <4>2, <4>3, Zenon
      <4>5. u \o cut \in Seq(Known)
        BY ONLY <4>4, u \in Seq(Known), ConcatProperties, Zenon
      <4> QED BY ONLY <4>3, <4>4, <4>5, Zenon
    <3>4. /\ now \in Seq(Letters) /\ Len(now) = k /\ \A i \in 1 .. k : now[i] = bytes[i]
          /\ now = Append(SubSeq(bytes, 1, k - 1), bytes[k])
      BY <1>1, OneLonger
    <3>5. StateAfter(before_ \o <<v[k]>>) = DecodeToken(StateAfter(before_), v[k])
      BY <3>2, <3>3, AfterOneMore
    <3>6. v[k] \in DOMAIN vocab.idToByte /\ vocab.idToByte[v[k]] = bytes[k]
      BY <1>2, <1>3
    <3> HIDE DEF before_, now, X
    <3>7. DecodeToken(StateAfter(before_), v[k]) = [out |-> X \o Drain(now).out, pending |-> Drain(now).pending]
      BY <3>1, <3>4, <3>6 DEF DecodeToken, PushByte
    <3>8. FirstCodePoint(now) = IF k = m THEN [is |-> "complete", n |-> k] ELSE [is |-> "cut", n |-> k]
      <4>1. /\ now # <<>> /\ now[1] = bytes[1] /\ now[1] # Cont
            /\ \A i \in 2 .. Len(now) : now[i] = Cont
            /\ Len(now) <= Need(now[1]) + 1 /\ (Len(now) = Need(now[1]) + 1 <=> k = m)
        <5>1. now # <<>> /\ now[1] = bytes[1] /\ now[1] # Cont
          BY <3>0, <3>4
        <5>2. \A i \in 2 .. Len(now) : now[i] = Cont
          <6>1. \A i \in 2 .. k : i \in 2 .. m /\ i \in 1 .. k
            BY <1>1, <3>0
          <6> QED BY <3>4, <6>1 DEF m
        <5>3. m = Need(now[1]) + 1
          BY <5>1 DEF m
        <5> QED BY <3>0, <3>4, <5>1, <5>2, <5>3
      <4> QED BY <3>4, <4>1, FirstIsAll
    <3>9. CASE k = m
      <4>1. now = bytes
        BY <3>4, <3>9 DEF m
      <4>2. Drain(now) = [out |-> <<CodePoint(bytes)>>, pending |-> <<>>]
        <5>1. now # <<>> /\ FirstCodePoint(now).is = "complete" /\ FirstCodePoint(now).n = Len(now)
          <6>1. FirstCodePoint(now) = [is |-> "complete", n |-> k]
            BY <3>8, <3>9
          <6>1a. now \in Seq(Letters) /\ Len(now) = k
            BY <3>4, Zenon
          <6>2. now # <<>> /\ Len(now) = k
            BY ONLY <3>0, <6>1a
          <6> QED BY <6>1, <6>2
        <5> QED BY <3>4, <4>1, <5>1, DrainIs
      <4>3. StateAfter(u \o SubSeq(v, 1, k)) = [out |-> X \o <<CodePoint(bytes)>>, pending |-> <<>>]
        <5>1. Drain(now).out = <<CodePoint(bytes)>> /\ Drain(now).pending = <<>>
          BY <4>2
        <5> QED BY <3>3, <3>5, <3>7, <5>1
      <4> QED BY <3>0, <3>9, <4>3 DEF S
    <3>10. CASE k # m
      <4>1. Drain(now) = [out |-> <<>>, pending |-> now]
        <5>1. now # <<>> /\ FirstCodePoint(now).is = "cut"
          <6>1. FirstCodePoint(now) = [is |-> "cut", n |-> k]
            BY <3>8, <3>10
          <6>1a. now \in Seq(Letters) /\ Len(now) = k
            BY <3>4, Zenon
          <6>2. now # <<>>
            BY ONLY <3>0, <6>1a
          <6> QED BY <6>1, <6>2
        <5> QED BY <3>4, <5>1, DrainIs
      <4>2. X \o <<>> = X
        BY <2>1
      <4>3. StateAfter(u \o SubSeq(v, 1, k)) = [out |-> X, pending |-> SubSeq(bytes, 1, k)]
        <5>1. Drain(now).out = <<>> /\ Drain(now).pending = now
          BY <4>1
        <5>2. StateAfter(u \o SubSeq(v, 1, k)) = [out |-> X, pending |-> now]
          BY <3>3, <3>5, <3>7, <4>2, <5>1
        <5> QED BY <5>2 DEF now
      <4> QED BY <3>0, <3>10, <4>3 DEF S
    <3> QED BY <3>9, <3>10
  <2>4. m \in S
    <3> HIDE DEF S, m
    <3>1. \A k \in 0 .. m : k \in S
      BY ONLY <1>1, <2>2, <2>3, BoundedInduction
    <3> QED BY <1>1, <3>1
  <2>5. SubSeq(v, 1, m) = v
    BY <1>3
  <2> QED BY <2>4, <2>5
<1>6. <<CodePoint(bytes)>> \in Seq(Letters)
  BY <1>4
<1>7. Reads(v, <<CodePoint(bytes)>>)
  BY <1>3, <1>5, <1>6 DEF Reads
<1> QED BY <1>1, <1>7 DEF v

LEMMA ReadsChar ==
  ASSUME VocabTexts, <<Block>> \in DOMAIN vocab.ids, NEW c \in STRING, c \notin {Lead2, Lead3, Cont},
         \/ <<Normalized(c)>> \in DOMAIN vocab.ids
         \/ Range(Utf8(Normalized(c))) \subseteq DOMAIN vocab.byteToId
  PROVE  Reads(IdsOfChar(Normalized(c)), AsText(<<c>>)) /\ IdsOfChar(Normalized(c)) # <<>>
<1> DEFINE d == Normalized(c)
<1>1. AsText(<<c>>) = <<IF c = Block THEN Space ELSE c>>
  BY DEF AsText
<1>2. AsText(<<d>>) = <<IF d = Block THEN Space ELSE d>>
  BY DEF AsText
<1>3. AsText(<<d>>) = AsText(<<c>>) /\ d # Space
  BY <1>1, <1>2 DEF Normalized, Space, Block
<1>4. CASE <<d>> \in DOMAIN vocab.ids
  <2>1. IdsOfChar(d) = <<vocab.ids[<<d>>]>>
    BY <1>4 DEF IdsOfChar
  <2>2. vocab.ids[<<d>>] \in Known /\ vocab.pieces[vocab.ids[<<d>>]] = <<d>>
    BY <1>4 DEF VocabTexts, TextsOK, Known
  <2>3. vocab.ids[<<d>>] \notin DOMAIN vocab.idToByte
    BY <2>2 DEF VocabTexts, BytesOK
  <2>4. Reads(<<vocab.ids[<<d>>]>>, AsText(<<d>>))
    BY <2>2, <2>3, ReadsPiece
  <2> QED BY <1>3, <2>1, <2>4
<1>5. CASE <<d>> \notin DOMAIN vocab.ids
  <2>1. d # Block /\ d = c
    BY <1>5 DEF Normalized
  <2>2. IdsOfChar(d) = [i \in DOMAIN Utf8(d) |-> vocab.byteToId[Utf8(d)[i]]]
    BY <1>5 DEF IdsOfChar
  <2> DEFINE bytes == Utf8(d)
  <2>3. /\ bytes \in Seq(STRING \cup {Lead2, Lead3, Cont}) /\ bytes # <<>> /\ bytes[1] # Cont
        /\ \A i \in 2 .. Len(bytes) : bytes[i] = Cont
        /\ Len(bytes) = Need(bytes[1]) + 1 /\ CodePoint(bytes) = d
    <3>1. CASE d = "cp2"
      <4>1. bytes = <<Lead2, Cont>>
        BY <3>1 DEF Utf8, Block
      <4>2. Need(Lead2) = 1 /\ CodePoint(bytes) = "cp2"
        BY <4>1 DEF Need, CodePoint, Lead2, Lead3
      <4> HIDE DEF bytes
      <4> QED BY <3>1, <4>1, <4>2 DEF Lead2, Cont
    <3>2. CASE d = "cp3"
      <4>1. bytes = <<Lead3, Cont, Cont>>
        BY <3>2 DEF Utf8
      <4>2. Need(Lead3) = 2 /\ CodePoint(bytes) = "cp3"
        BY <4>1 DEF Need, CodePoint, Lead2, Lead3
      <4> HIDE DEF bytes
      <4> QED BY <3>2, <4>1, <4>2 DEF Lead3, Cont
    <3>3. CASE d # "cp2" /\ d # "cp3"
      <4>1. bytes = <<d>>
        BY <2>1, <3>3 DEF Utf8
      <4>2. Need(d) = 0 /\ CodePoint(bytes) = d
        BY <2>1, <4>1 DEF Need, CodePoint
      <4> HIDE DEF bytes
      <4> QED BY <2>1, <4>1, <4>2
    <3> QED BY <3>1, <3>2, <3>3
  <2>4. \A i \in 1 .. Len(bytes) : bytes[i] \in DOMAIN vocab.byteToId
    <3>1. Range(bytes) \subseteq DOMAIN vocab.byteToId
      BY <1>5
    <3>2. DOMAIN bytes = 1 .. Len(bytes)
      BY <2>3
    <3> HIDE DEF bytes
    <3> QED BY <3>1, <3>2 DEF Range
  <2> HIDE DEF bytes
  <2>5. bytes \in Seq(Letters) /\ DOMAIN bytes = 1 .. Len(bytes)
    <3>1. \A i \in 1 .. Len(bytes) : bytes[i] \in Letters
      BY <2>4 DEF VocabTexts, BytesOK, Letters
    <3>2. bytes = [i \in 1 .. Len(bytes) |-> bytes[i]] /\ Len(bytes) \in Nat
      BY <2>3
    <3> QED BY <3>1, <3>2
  <2>6. Reads([i \in DOMAIN bytes |-> vocab.byteToId[bytes[i]]], <<CodePoint(bytes)>>)
    BY <2>3, <2>4, <2>5, ReadsBytes
  <2>7. AsText(<<c>>) = <<d>>
    BY <1>2, <1>3, <2>1
  <2>8. IdsOfChar(d) # <<>>
    <3>1. DOMAIN bytes = DOMAIN IdsOfChar(d) /\ 1 \in DOMAIN bytes
      BY <2>2, <2>3, <2>5 DEF bytes
    <3> QED BY <3>1
  <2> QED BY <2>2, <2>3, <2>6, <2>7, <2>8 DEF bytes
<1> QED BY <1>4, <1>5

LEMMA AsTextJoin ==
  ASSUME NEW s \in Seq(Letters), NEW t \in Seq(Letters)
  PROVE  AsText(s \o t) = AsText(s) \o AsText(t)
<1> DEFINE a == AsText(s \o t)
           b == AsText(s) \o AsText(t)
<1>1. /\ s \o t \in Seq(Letters) /\ Len(s \o t) = Len(s) + Len(t) /\ Len(s) \in Nat /\ Len(t) \in Nat
      /\ \A j \in 1 .. Len(s) : (s \o t)[j] = s[j]
      /\ \A j \in 1 .. Len(t) : (s \o t)[Len(s) + j] = t[j]
  BY JoinedAt
<1>2. /\ a \in Seq(Letters) /\ Len(a) = Len(s \o t)
      /\ \A i \in 1 .. Len(s \o t) : a[i] = IF (s \o t)[i] = Block THEN Space ELSE (s \o t)[i]
  BY <1>1, SpacesBack
<1>3. /\ AsText(s) \in Seq(Letters) /\ Len(AsText(s)) = Len(s)
      /\ \A i \in 1 .. Len(s) : AsText(s)[i] = IF s[i] = Block THEN Space ELSE s[i]
  BY SpacesBack
<1>4. /\ AsText(t) \in Seq(Letters) /\ Len(AsText(t)) = Len(t)
      /\ \A i \in 1 .. Len(t) : AsText(t)[i] = IF t[i] = Block THEN Space ELSE t[i]
  BY SpacesBack
<1>5. /\ b \in Seq(Letters) /\ Len(b) = Len(s) + Len(t)
      /\ \A j \in 1 .. Len(s) : b[j] = AsText(s)[j]
      /\ \A j \in 1 .. Len(t) : b[Len(s) + j] = AsText(t)[j]
  <2>1. b \in Seq(Letters)
    BY <1>3, <1>4
  <2>2. /\ Len(b) = Len(AsText(s)) + Len(AsText(t))
        /\ \A j \in 1 .. Len(AsText(s)) : b[j] = AsText(s)[j]
        /\ \A j \in 1 .. Len(AsText(t)) : b[Len(AsText(s)) + j] = AsText(t)[j]
    <3> DEFINE c == AsText(s)
               d == AsText(t)
    <3>1. c \in Seq(Letters) /\ d \in Seq(Letters)
      BY <1>3, <1>4
    <3> HIDE DEF c, d
    <3>2. /\ Len(c \o d) = Len(c) + Len(d)
          /\ \A j \in 1 .. Len(c) : (c \o d)[j] = c[j]
          /\ \A j \in 1 .. Len(d) : (c \o d)[Len(c) + j] = d[j]
      BY <3>1, JoinedAt
    <3> QED BY <3>2 DEF c, d
  <2> HIDE DEF b
  <2> QED BY <1>3, <1>4, <2>1, <2>2
<1> HIDE DEF a, b
<1>6. ASSUME NEW i \in 1 .. Len(s) + Len(t)
      PROVE  a[i] = b[i]
  <2>1. CASE i <= Len(s)
    <3>1. i \in 1 .. Len(s) /\ i \in 1 .. Len(s \o t)
      BY <1>1, <2>1
    <3> QED BY <1>1, <1>2, <1>3, <1>5, <3>1
  <2>2. CASE i > Len(s)
    <3>1. PICK j \in 1 .. Len(t) : i = Len(s) + j
      <4>1. i - Len(s) \in 1 .. Len(t) /\ i = Len(s) + (i - Len(s))
        BY <1>1, <2>2
      <4> QED BY <4>1
    <3>2. i \in 1 .. Len(s \o t) /\ (s \o t)[i] = t[j] /\ b[i] = AsText(t)[j]
      BY <1>1, <1>5, <3>1
    <3> QED BY <1>2, <1>4, <3>1, <3>2
  <2> QED BY <1>1, <2>1, <2>2
<1>7. a = b
  BY <1>1, <1>2, <1>5, <1>6
<1> QED BY <1>7 DEF a, b

LEMMA ReadsInitial ==
  ASSUME VocabTexts, <<Block>> \in DOMAIN vocab.ids, NEW letters, VocabOK(vocab, letters),
         letters \subseteq STRING, letters \cap {Lead2, Lead3, Cont} = {},
         NEW chars \in Seq(letters), chars # <<>>
  PROVE  Reads(InitialIds(chars), AsText(chars)) /\ InitialIds(chars) # <<>>
<1> DEFINE N == Len(chars)
           spelled == [i \in DOMAIN chars |-> IdsOfChar(Normalized(chars[i]))]
           upto(k) == SubSeq(chars, 1, k + 1)
<1>1. N \in Nat \ {0} /\ DOMAIN chars = 1 .. N /\ \A i \in 1 .. N : chars[i] \in letters
  OBVIOUS
<1>2. chars \in Seq(STRING) /\ chars \in Seq(Letters)
  <2>1. \A i \in 1 .. N : chars[i] \in STRING
    BY <1>1
  <2>2. chars = [i \in 1 .. N |-> chars[i]]
    OBVIOUS
  <2>3. chars \in Seq(STRING)
    <3> HIDE DEF N
    <3> QED BY <1>1, <2>1, <2>2
  <2> QED BY <2>3, LettersKnown
<1>3. ASSUME NEW i \in 1 .. N
      PROVE  /\ Reads(spelled[i], AsText(<<chars[i]>>)) /\ spelled[i] # <<>>
             /\ spelled[i] \in Seq(Known) /\ <<chars[i]>> \in Seq(Letters)
  <2>1. spelled[i] = IdsOfChar(Normalized(chars[i])) /\ chars[i] \in letters
    BY <1>1
  <2>2. chars[i] \in STRING /\ chars[i] \notin {Lead2, Lead3, Cont}
    BY <2>1
  <2>3. \/ <<Normalized(chars[i])>> \in DOMAIN vocab.ids
        \/ Range(Utf8(Normalized(chars[i]))) \subseteq DOMAIN vocab.byteToId
    BY <2>1 DEF VocabOK
  <2>4. Reads(IdsOfChar(Normalized(chars[i])), AsText(<<chars[i]>>)) /\ IdsOfChar(Normalized(chars[i])) # <<>>
    BY <2>2, <2>3, ReadsChar
  <2>5. <<chars[i]>> \in Seq(Letters)
    BY <2>2 DEF Letters
  <2> QED BY <2>1, <2>4, <2>5 DEF Reads
<1>4. spelled \in [1 .. N -> Seq(Known)]
  BY <1>1, <1>3
<1>5. InitialIds(chars) = FlattenSeq(spelled)
  BY DEF InitialIds
<1> HIDE DEF spelled, N
<1>6. PICK h : Running(h, Known, N, spelled)
  BY <1>1, <1>4, FlattenFollows
<1> DEFINE S == {k \in 0 .. N - 1 : Reads(h[k], AsText(upto(k))) /\ h[k] # <<>>}
<1>7. 0 \in S
  <2>1. upto(0) = <<chars[1]>> /\ 1 \in 1 .. N /\ 0 \in 0 .. N - 1
    <3>1. 1 \in 1 .. Len(chars)
      BY <1>1 DEF N
    <3>2. SubSeq(chars, 1, 0 + 1) = <<chars[1]>>
      BY <1>2, <3>1, OneChar
    <3> QED BY <1>1, <3>2
  <2>2. h[0] = spelled[1]
    BY <1>6 DEF Running
  <2>3. Reads(h[0], AsText(upto(0))) /\ h[0] # <<>>
    <3> HIDE DEF upto
    <3> QED BY <1>3, <2>1, <2>2
  <2> HIDE DEF upto
  <2> QED BY <2>1, <2>3
<1>8. ASSUME NEW k \in 1 .. N - 1, k - 1 \in S
      PROVE  k \in S
  <2>1. k \in 1 .. N - 1 /\ k + 1 \in 1 .. N /\ k + 1 \in 1 .. Len(chars) /\ (k - 1) + 1 = k /\ (k + 1) - 1 = k /\ k \in 0 .. N - 1
    BY <1>1 DEF N
  <2>2. h[k] = h[k - 1] \o spelled[k + 1]
    BY <1>6 DEF Running
  <2>3. Reads(h[k - 1], AsText(upto(k - 1))) /\ h[k - 1] # <<>>
    BY <1>8
  <2>4. Reads(spelled[k + 1], AsText(<<chars[k + 1]>>)) /\ <<chars[k + 1]>> \in Seq(Letters)
    BY <1>3, <2>1
  <2>5. SubSeq(chars, 1, k + 1) = SubSeq(chars, 1, k) \o <<chars[k + 1]>> /\ SubSeq(chars, 1, k) \in Seq(Letters)
    BY <1>2, <2>1, OneLonger
  <2>6. upto(k) = upto(k - 1) \o <<chars[k + 1]>> /\ upto(k - 1) \in Seq(Letters)
    BY <2>1, <2>5
  <2> HIDE DEF upto
  <2>7. Reads(h[k - 1] \o spelled[k + 1], AsText(upto(k - 1)) \o AsText(<<chars[k + 1]>>))
    BY <2>3, <2>4, ReadsJoin
  <2>8. AsText(upto(k)) = AsText(upto(k - 1)) \o AsText(<<chars[k + 1]>>)
    BY <2>4, <2>6, AsTextJoin
  <2>9. h[k] # <<>>
    <3>1. h[k - 1] \in Seq(Known) /\ spelled[k + 1] \in Seq(Known)
      BY <2>3, <2>4 DEF Reads
    <3> QED BY <2>2, <2>3, <3>1
  <2> QED BY <2>1, <2>2, <2>7, <2>8, <2>9
<1>9. N - 1 \in S
  <2> HIDE DEF S
  <2>1. N - 1 \in Nat
    BY <1>1
  <2>2. \A k \in 0 .. N - 1 : k \in S
    BY ONLY <1>7, <1>8, <2>1, BoundedInduction
  <2> QED BY <2>1, <2>2
<1>10. upto(N - 1) = chars
  <2>1. (N - 1) + 1 = Len(chars) /\ SubSeq(chars, 1, Len(chars)) = chars
    BY <1>1, <1>2 DEF N
  <2> QED BY <2>1
<1> QED BY <1>5, <1>6, <1>9, <1>10 DEF Running

(* A merge puts the piece of a token in the place of the same two pieces.   *)
LEMMA ReadsMerged ==
  ASSUME VocabTexts, NEW w, NEW chars, Reads(w, chars), NEW i \in 1 .. Len(w) - 1,
         NEW id \in Known, <<w[i], w[i + 1]>> \in DOMAIN vocab.merges, id = vocab.merges[<<w[i], w[i + 1]>>][2],
         {w[i], w[i + 1], id} \cap DOMAIN vocab.idToByte = {}
  PROVE  Reads(Splice(w, i, id), chars)
<1> DEFINE p == SubSeq(w, 1, i - 1)
           r == SubSeq(w, i + 2, Len(w))
           a == w[i]
           b == w[i + 1]
<1>1. w \in Seq(Known) /\ chars \in Seq(Letters) /\ Len(w) \in Nat /\ i \in 1 .. Len(w) /\ i + 1 \in 1 .. Len(w)
  BY DEF Reads
<1>2. a \in Known /\ b \in Known /\ <<a, b>> \in DOMAIN vocab.merges /\ id = vocab.merges[<<a, b>>][2]
  BY <1>1
<1>3. p \in Seq(Known) /\ r \in Seq(Known)
  BY <1>1
<1>4. w = ((p \o <<a>>) \o <<b>>) \o r
  <2>1. SubSeq(w, 1, i) = p \o <<a>> /\ SubSeq(w, 1, i + 1) = SubSeq(w, 1, i) \o <<b>>
    <3>1. SubSeq(w, 1, i) = SubSeq(w, 1, i - 1) \o <<w[i]>>
      BY <1>1, OneLonger
    <3>2. SubSeq(w, 1, i + 1) = SubSeq(w, 1, (i + 1) - 1) \o <<w[i + 1]>> /\ (i + 1) - 1 = i
      BY <1>1, OneLonger
    <3> QED BY <3>1, <3>2
  <2>2. w = SubSeq(w, 1, i + 1) \o SubSeq(w, (i + 1) + 1, Len(w)) /\ (i + 1) + 1 = i + 2
    <3>1. i + 1 \in 0 .. Len(w) /\ (i + 1) + 1 = i + 2
      BY <1>1
    <3> QED BY <1>1, <3>1, CutInTwo
  <2> QED BY <2>1, <2>2
<1>5. Splice(w, i, id) = (p \o <<id>>) \o r
  BY DEF Splice
<1>6. vocab.pieces[id] = vocab.pieces[a] \o vocab.pieces[b]
  <2>1. <<a, b>>[1] = a /\ <<a, b>>[2] = b
    OBVIOUS
  <2> HIDE DEF a, b
  <2> QED BY <1>2, <2>1 DEF VocabTexts, JoinsOK
<1>7. a \notin DOMAIN vocab.idToByte /\ b \notin DOMAIN vocab.idToByte /\ id \notin DOMAIN vocab.idToByte
  OBVIOUS
<1> HIDE DEF p, r, a, b
<1>8. \A c \in Known : vocab.pieces[c] \in Seq(Letters)
  BY LettersKnown DEF VocabTexts, TextsOK, Known
<1>9. AsText(vocab.pieces[id]) = AsText(vocab.pieces[a]) \o AsText(vocab.pieces[b])
  BY <1>2, <1>6, <1>8, AsTextJoin
<1>10. ASSUME NEW s \in States
       PROVE  DecodeToken(DecodeToken(s, a), b) = DecodeToken(s, id)
  <2> DEFINE ta == AsText(vocab.pieces[a])
             tb == AsText(vocab.pieces[b])
             flushed == s.out \o Flush(s.pending)
  <2>1. \A c \in {a, b, id} : ReplaceAll(vocab.pieces[c], Block, Space) = AsText(vocab.pieces[c])
    BY <1>2, <1>8, SpacesBack
  <2>2. DecodeToken(s, a) = [out |-> flushed \o ta, pending |-> <<>>]
    BY <1>7, <2>1 DEF DecodeToken
  <2>3. DecodeToken(s, id) = [out |-> flushed \o (ta \o tb), pending |-> <<>>]
    BY <1>7, <1>9, <2>1 DEF DecodeToken
  <2>4. ta \in Seq(Letters) /\ tb \in Seq(Letters) /\ flushed \in Seq(Letters)
    <3>1. s.out \in Seq(Letters) /\ Flush(s.pending) \in Seq(Letters)
      BY FlushType DEF States
    <3> QED BY <1>2, <1>8, <3>1, SpacesBack
  <2> HIDE DEF ta, flushed
  <2>5. DecodeToken([out |-> flushed \o ta, pending |-> <<>>], b) = [out |-> ((flushed \o ta) \o <<>>) \o tb, pending |-> <<>>]
    BY <1>7, <2>1 DEF DecodeToken, Flush
  <2> HIDE DEF tb
  <2>6. ((flushed \o ta) \o <<>>) \o tb = flushed \o (ta \o tb)
    <3>1. flushed \o ta \in Seq(Letters) /\ (flushed \o ta) \o tb = flushed \o (ta \o tb)
      <4>1. flushed \o ta \in Seq(Letters) /\ JoinsAgain(flushed, ta, tb)
        BY ONLY <2>4, JoinAgain
      <4> QED BY ONLY <4>1, Zenon DEF JoinsAgain
    <3>2. (flushed \o ta) \o <<>> = flushed \o ta
      BY <3>1
    <3> QED BY <3>1, <3>2
  <2> QED BY <2>2, <2>3, <2>5, <2>6
<1>11. ASSUME NEW u \in Seq(Known)
       PROVE  StateAfter(u \o w) = StateAfter(u \o Splice(w, i, id))
  <2> DEFINE up == u \o p
             ia == <<a>>
             ib == <<b>>
             im == <<id>>
  <2>1. up \in Seq(Known) /\ ia \in Seq(Known) /\ ib \in Seq(Known) /\ im \in Seq(Known) /\ up \o ia \in Seq(Known)
    BY <1>2, <1>3
  <2>2. StateAfter(up \o im) = DecodeToken(StateAfter(up), id)
    BY <2>1, AfterOneMore
  <2>3. StateAfter(up \o ia) = DecodeToken(StateAfter(up), a)
    BY <1>2, <2>1, AfterOneMore
  <2>4. StateAfter((up \o ia) \o ib) = DecodeToken(StateAfter(up \o ia), b)
    <3> HIDE DEF up
    <3> QED BY <1>2, <2>1, AfterOneMore
  <2>5. StateAfter((up \o ia) \o ib) = StateAfter(up \o im)
    <3>1. StateAfter(up) \in States
      BY <2>1, AfterType
    <3> QED BY <1>10, <2>2, <2>3, <2>4, <3>1
  <2> HIDE DEF up, ia, ib, im
  <2>6. up \o im \in Seq(Known) /\ (up \o ia) \o ib \in Seq(Known)
    BY <2>1
  <2>7. StateAfter(((up \o ia) \o ib) \o r) = StateAfter((up \o im) \o r)
    BY <1>3, <2>5, <2>6, SameSuffix
  <2>8. ASSUME NEW v, v \in Seq(Known), NEW q, q \in Seq(Known), NEW uq, u \o v = uq
        PROVE  u \o ((v \o q) \o r) = (uq \o q) \o r
    <3>1. v \o q \in Seq(Known)
      BY <2>8
    <3>2. PICK vq : vq = v \o q
      OBVIOUS
    <3>3. u \in Seq(Known) /\ v \in Seq(Known) /\ q \in Seq(Known) /\ r \in Seq(Known) /\ vq \in Seq(Known)
      BY <1>3, <2>8, <3>1, <3>2
    <3>4. (u \o v) \o q = u \o (v \o q)
      <4>1. JoinsAgain(u, v, q)
        BY ONLY <3>3, JoinAgain
      <4> QED BY ONLY <4>1, Zenon DEF JoinsAgain
    <3>5. uq \o q = u \o vq
      BY <2>8, <3>2, <3>4
    <3>6. (u \o vq) \o r = u \o (vq \o r)
      <4>1. JoinsAgain(u, vq, r)
        BY ONLY <3>3, JoinAgain
      <4> QED BY ONLY <4>1, Zenon DEF JoinsAgain
    <3> QED BY ONLY <3>2, <3>5, <3>6
  <2>9. u \o ((p \o im) \o r) = (up \o im) \o r
    <3>1. u \o p = up
      BY DEF up
    <3>2. p \in Seq(Known) /\ im \in Seq(Known)
      BY <1>3, <2>1
    <3> QED BY ONLY <2>8, <3>1, <3>2
  <2>10. u \o (((p \o ia) \o ib) \o r) = ((up \o ia) \o ib) \o r
    <3>1. u \in Seq(Known) /\ p \in Seq(Known) /\ ia \in Seq(Known) /\ ib \in Seq(Known)
      BY <1>3, <2>1
    <3>2. p \o ia \in Seq(Known)
      BY <3>1
    <3>3. (u \o p) \o ia = u \o (p \o ia)
      <4>1. JoinsAgain(u, p, ia)
        BY ONLY <3>1, JoinAgain
      <4> QED BY ONLY <4>1, Zenon DEF JoinsAgain
    <3>4. PICK pa, ua : pa = p \o ia /\ ua = up \o ia
      OBVIOUS
    <3>5. pa \in Seq(Known) /\ u \o pa = ua
      BY <3>2, <3>3, <3>4 DEF up
    <3>6. u \o ((pa \o ib) \o r) = (ua \o ib) \o r
      BY ONLY <2>8, <3>1, <3>5
    <3> QED BY ONLY <3>4, <3>6
  <2> QED BY <1>4, <1>5, <2>7, <2>9, <2>10 DEF ia, ib, im
<1>12. Splice(w, i, id) \in Seq(Known)
  <2>1. <<id>> \in Seq(Known)
    OBVIOUS
  <2> QED BY <1>3, <1>5, <2>1
<1> QED BY <1>1, <1>11, <1>12 DEF Reads

-----------------------------------------------------------------------------
(* The text of what stands in the encoder.                                  *)

(* Of the file, what no code checks (vocab.rs) and decoding relies on: it   *)
(* has a token for the letter spaces become (else that would be spelled in  *)
(* bytes, which decode to the letter), and no merge takes or yields a byte  *)
(* token, whose piece is not its text.                                      *)
Readable ==
  /\ <<Block>> \in DOMAIN vocab.ids
  /\ \A p \in DOMAIN vocab.merges : {p[1], p[2], vocab.merges[p][2]} \cap DOMAIN vocab.idToByte = {}

Covered(sofar, word, behind, left) ==
  \E a, b, c : /\ Reads(sofar, a) /\ Reads(word, b) /\ Reads(behind, c)
               /\ ((a \o b) \o c) \o AsText(left) = AsText(job.text)

TextInv ==
  ~Rejected /\ Readable =>
    /\ syms = <<>> => found = <<>>
    /\ \E sofar, word, behind, left :
         /\ sofar = ids /\ word = Alive(syms) /\ behind = found /\ left = rest
         /\ Covered(sofar, word, behind, left)

LEMMA StateStays ==
  ASSUME built' = built, NEW tokens
  PROVE  StateAfter(tokens)' = StateAfter(tokens)
<1>1. vocab' = vocab
  BY DEF vocab
<1>2. ASSUME NEW state, NEW id
      PROVE  DecodeToken(state, id)' = DecodeToken(state, id)
  BY <1>1 DEF DecodeToken
<1> QED BY <1>1 DEF StateAfter, DecodeToken

LEMMA CoveredStays ==
  ASSUME built' = built, job' = job, NEW sofar, NEW word, NEW behind, NEW left,
         Covered(sofar, word, behind, left)
  PROVE  Covered(sofar, word, behind, left)'
<1>1. ASSUME NEW v, NEW chars, Reads(v, chars)
      PROVE  Reads(v, chars)'
  <2>1. Known' = Known
    BY DEF Known, vocab
  <2> QED BY <1>1, <2>1, StateStays DEF Reads
<1> QED BY <1>1 DEF Covered

LEMMA VocabReads ==
  ASSUME BuiltOK, ~Rejected
  PROVE  VocabTexts /\ OrderOK(vocab)
<1>1. VocabError(Files[job.file]) = "none" /\ vocab = Tables(Files[job.file])
  BY DEF BuiltOK, Rejected, FromMetadata, vocab
<1>2. IsTokens(Files[job.file])
  BY <1>1, JobsAssumption DEF BuiltOK, IsTokens
<1> QED BY <1>1, <1>2, FileTexts, FileBytes, FileJoins, FileSpecials DEF VocabTexts

LEMMA ReadsNothing ==
  ASSUME VocabTexts
  PROVE  /\ Reads(<<>>, <<>>)
         /\ \A chars : Reads(<<>>, chars) => chars = <<>>
<1>1. <<>> \in Seq(Known) /\ <<>> \in Seq(Letters)
  OBVIOUS
<1>2. ASSUME NEW u \in Seq(Known), StateAfter(u).pending = <<>>
      PROVE  StateAfter(u \o <<>>) = [out |-> StateAfter(u).out \o <<>>, pending |-> <<>>]
  <2>1. u \o <<>> = u /\ StateAfter(u) \in States
    BY AfterType
  <2>2. PICK state \in States : state = StateAfter(u)
    BY <2>1
  <2>3. state.out \o <<>> = state.out /\ state = [out |-> state.out, pending |-> <<>>]
    BY <1>2, <2>2 DEF States
  <2> QED BY <2>1, <2>2, <2>3
<1>3. ASSUME NEW chars, Reads(<<>>, chars)
      PROVE  chars = <<>>
  <2>1. StateAfter(<<>>) = Start /\ Start.out = <<>> /\ Start.pending = <<>>
    BY AfterNothing DEF Start
  <2>2. StateAfter(<<>> \o <<>>) = [out |-> StateAfter(<<>>).out \o chars, pending |-> <<>>]
    BY <1>1, <1>3, <2>1 DEF Reads
  <2>3. <<>> \o <<>> = <<>> /\ chars \in Seq(Letters)
    BY <1>3 DEF Reads
  <2>4. <<>> = <<>> \o chars
    BY <2>1, <2>2, <2>3
  <2> QED BY <2>3, <2>4
<1> QED BY <1>1, <1>2, <1>3 DEF Reads

(* The list of a word holds the word.                                       *)
LEMMA AliveLinked ==
  ASSUME NEW w \in Seq(Nat)
  PROVE  Alive(Linked(w)) = w
<1> DEFINE list == Linked(w)
           N == Len(w)
<1>1. /\ N \in Nat /\ list \in Seq(Symbols) /\ Len(list) = N
      /\ \A k \in 1 .. N : list[k].id = w[k] /\ list[k].alive
  <2>1. list \in Seq(Symbols)
    BY LinkedOK DEF ListOK
  <2> QED BY <2>1 DEF Linked
<1>2. PICK off : Counts(off, list)
  BY <1>1, CountsExist
<1> HIDE DEF list, N
<1>3. /\ off \in [0 .. N -> Nat] /\ off[0] = 0
      /\ \A k \in 1 .. N : off[k] = off[k - 1] + 1
      /\ Alive(list) \in Seq(Nat) /\ Len(Alive(list)) = off[N]
      /\ \A k \in 1 .. N : Alive(list)[off[k]] = w[k]
  BY <1>1, <1>2 DEF Counts, Live
<1> DEFINE S == {k \in 0 .. N : off[k] = k}
<1>4. \A k \in 0 .. N : k \in S
  <2>1. 0 \in S
    BY <1>1, <1>3
  <2>2. \A k \in 1 .. N : k - 1 \in S => k \in S
    BY <1>1, <1>3
  <2> HIDE DEF S
  <2> QED BY ONLY <1>1, <2>1, <2>2, BoundedInduction
<1>5. \A k \in 0 .. N : off[k] = k
  BY <1>4
<1>6. PICK v : v = Alive(list)
  OBVIOUS
<1>7. v \in Seq(Nat) /\ Len(v) = N /\ \A k \in 1 .. N : v[k] = w[k]
  <2>1. N \in 0 .. N /\ \A k \in 1 .. N : k \in 0 .. N
    BY <1>1
  <2>2. v \in Seq(Nat) /\ Len(v) = off[N] /\ \A k \in 1 .. N : v[off[k]] = w[k]
    BY <1>3, <1>6
  <2> QED BY <1>5, <2>1, <2>2
<1>8. v = w
  BY ONLY w \in Seq(Nat), <1>7 DEF N
<1> QED BY <1>6, <1>8 DEF list

(* A piece that is found at a place cuts the text in three.                 *)
LEMMA CutOut ==
  ASSUME NEW S, NEW s \in Seq(S), NEW start \in 1 .. Len(s), NEW piece \in Seq(S),
         IsPrefix(piece, From(s, start))
  PROVE  /\ start + Len(piece) \in 1 .. Len(s) + 1
         /\ s = (SubSeq(s, 1, start - 1) \o piece) \o From(s, start + Len(piece))
<1>1. /\ Len(s) \in Nat /\ Len(piece) \in Nat /\ start \in Nat /\ start - 1 \in 0 .. Len(s)
      /\ (start - 1) + 1 = start
  OBVIOUS
<1>2. PICK back : back = From(s, start)
  OBVIOUS
<1>3. /\ SubSeq(s, 1, start - 1) \in Seq(S) /\ back \in Seq(S) /\ Len(back) = Len(s) - (start - 1)
      /\ s = SubSeq(s, 1, start - 1) \o back
  BY <1>1, <1>2, CutInTwo DEF From
<1>4. Len(piece) <= Len(back) /\ SubSeq(piece, 1, Len(piece)) = SubSeq(back, 1, Len(piece))
  BY <1>2 DEF IsPrefix
<1>5. Len(piece) \in 0 .. Len(back) /\ SubSeq(piece, 1, Len(piece)) = piece
  BY <1>1, <1>3, <1>4
<1>6. /\ SubSeq(back, 1, Len(piece)) \in Seq(S) /\ SubSeq(back, Len(piece) + 1, Len(back)) \in Seq(S)
      /\ back = SubSeq(back, 1, Len(piece)) \o SubSeq(back, Len(piece) + 1, Len(back))
  BY <1>3, <1>5, CutInTwo
<1>7. start + Len(piece) \in 1 .. Len(s) + 1
  BY <1>1, <1>3, <1>5
<1>8. PICK after : after = From(s, start + Len(piece))
  OBVIOUS
<1>9. after \in Seq(S) /\ SubSeq(back, Len(piece) + 1, Len(back)) = after
  <2>1. PICK other : other = SubSeq(back, Len(piece) + 1, Len(back))
    OBVIOUS
  <2>2. /\ after \in Seq(S) /\ Len(after) = Len(s) + 1 - (start + Len(piece))
        /\ \A k \in 1 .. Len(s) + 1 - (start + Len(piece)) : after[k] = s[start + Len(piece) + k - 1]
    BY <1>7, <1>8, SuffixIs
  <2>3. \A k \in 1 .. Len(back) : back[k] = s[start + k - 1]
    BY <1>2, <1>3, <1>1, SuffixIs
  <2>4. other \in Seq(S) /\ Len(other) = Len(back) - Len(piece)
        /\ \A k \in 1 .. Len(back) - Len(piece) : other[k] = back[Len(piece) + k]
    <3>1. other = SubSeq(back, Len(piece) + 1, Len(back)) /\ other \in Seq(S)
      BY <1>6, <2>1
    <3>2. Len(back) \in Nat /\ Len(piece) \in Nat /\ Len(piece) <= Len(back) /\ back \in Seq(S)
      BY <1>1, <1>3, <1>5
    <3> QED BY ONLY <3>1, <3>2
  <2>5. Len(other) = Len(after)
    BY <1>1, <1>3, <1>5, <2>2, <2>4
  <2>6. ASSUME NEW k \in 1 .. Len(after)
        PROVE  other[k] = after[k]
    <3>1. /\ k \in 1 .. Len(back) - Len(piece) /\ Len(piece) + k \in 1 .. Len(back)
          /\ start + (Len(piece) + k) - 1 = start + Len(piece) + k - 1
          /\ k \in 1 .. Len(s) + 1 - (start + Len(piece))
      BY <1>1, <1>3, <1>5, <2>2
    <3> QED BY <2>2, <2>3, <2>4, <3>1
  <2>7. other = after
    <3>1. other \in Seq(S) /\ after \in Seq(S) /\ Len(other) = Len(after)
      BY <2>2, <2>4, <2>5
    <3> QED BY ONLY <2>6, <3>1
  <2> QED BY <2>1, <2>2, <2>7
<1>10. PICK front : front = SubSeq(s, 1, start - 1)
  OBVIOUS
<1>11. front \in Seq(S) /\ piece \in Seq(S) /\ after \in Seq(S) /\ s = front \o back /\ back = piece \o after
  BY <1>3, <1>4, <1>5, <1>6, <1>9, <1>10
<1>12. (front \o piece) \o after = front \o (piece \o after)
  <2>1. JoinsAgain(front, piece, after)
    BY ONLY <1>11, JoinAgain
  <2> QED BY ONLY <2>1, Zenon DEF JoinsAgain
<1> QED BY <1>7, <1>8, <1>10, <1>11, <1>12

(* The first of the specials that begins at a place.                        *)
LEMMA SpecialAtIs ==
  ASSUME NEW S, vocab.specials \in Seq(S), NEW chars, NEW start
  PROVE  /\ SpecialAt(chars, start) # 0 =>
              /\ chars[start] = "<" /\ SpecialAt(chars, start) \in 1 .. Len(vocab.specials)
              /\ IsPrefix(vocab.pieces[vocab.specials[SpecialAt(chars, start)]], From(chars, start))
              /\ \A k \in 1 .. Len(vocab.specials) :
                   IsPrefix(vocab.pieces[vocab.specials[k]], From(chars, start)) => SpecialAt(chars, start) <= k
         /\ SpecialAt(chars, start) = 0 /\ chars[start] = "<" =>
              \A k \in 1 .. Len(vocab.specials) : ~IsPrefix(vocab.pieces[vocab.specials[k]], From(chars, start))
<1> DEFINE I == {k \in 1 .. Len(vocab.specials) : IsPrefix(vocab.pieces[vocab.specials[k]], From(chars, start))}
<1>1. chars[start] = "<" => SpecialAt(chars, start) = IF I # {} THEN Min(I) ELSE 0
  BY DEF SpecialAt, SelectInSeq
<1>2. chars[start] # "<" => SpecialAt(chars, start) = 0
  BY DEF SpecialAt
<1>3. I \subseteq Nat /\ 0 \notin I
  OBVIOUS
<1>4. I # {} => Min(I) \in I /\ Min(I) # 0 /\ \A k \in I : Min(I) <= k
  <2> HIDE DEF I
  <2> QED BY ONLY <1>3, MinIn
<1> QED BY <1>1, <1>2, <1>4

LEMMA Wider ==
  ASSUME NEW A, NEW B, A \subseteq B, NEW s \in Seq(A)
  PROVE  s \in Seq(B)
<1>1. Len(s) \in Nat /\ s = [i \in 1 .. Len(s) |-> s[i]] /\ \A i \in 1 .. Len(s) : s[i] \in B
  OBVIOUS
<1> QED BY <1>1

LEMMA TextHolds ==
  ASSUME UNCHANGED <<job, built>>, syms' = <<>> => found' = <<>>,
         NEW sofar, NEW word, NEW behind, NEW left, Covered(sofar, word, behind, left),
         sofar = ids', word = Alive(syms)', behind = found', left = rest'
  PROVE  TextInv'
<1>1. Covered(sofar, word, behind, left)'
  BY CoveredStays
<1> QED BY <1>1 DEF TextInv

LEMMA NoText == AsText(<<>>) = <<>>
<1>1. <<>> \in Seq(Letters)
  OBVIOUS
<1>2. PICK s \in Seq(Letters) : s = AsText(<<>>) /\ Len(s) = Len(<<>>)
  BY <1>1, SpacesBack
<1>3. s = <<>>
  BY <1>2
<1> QED BY <1>2, <1>3

LEMMA NothingRight ==
  ASSUME NEW S, NEW s \in Seq(S)
  PROVE  s \o <<>> = s /\ <<>> \o s = s
OBVIOUS

(* The next segment and the special token behind it are the text they stand *)
(* for.                                                                     *)
LEMMA SegmentText ==
  ASSUME EncodeInv, ~Rejected, Readable, TextInv, syms = <<>>, UNCHANGED <<job, built>>,
         NEW chars \in Seq(Range(job.text)), NEW special, NEW c, Reads(special, c),
         NEW left, left \in Seq(Letters), AsText(rest) = (AsText(chars) \o c) \o AsText(left),
         Segment(chars, special, left)
  PROVE  TextInv'
<1>1. /\ VocabTexts /\ VocabOK(vocab, Range(job.text)) /\ job.text \in Seq(STRING)
      /\ Range(job.text) \subseteq STRING /\ Range(job.text) \cap {Lead2, Lead3, Cont} = {}
  <2>1. VocabTexts /\ VocabOK(vocab, Range(job.text)) /\ job.text \in Seq(STRING)
    BY VocabReads, VocabHolds DEF EncodeInv
  <2>2. Range(job.text) \cap {Lead2, Lead3, Cont} = {}
    <3>1. VocabError(Files[job.file]) = "none"
      BY DEF EncodeInv, BuiltOK, Rejected, FromMetadata
    <3> QED BY <3>1, JobsAssumption DEF EncodeInv, BuiltOK
  <2>3. \A k \in DOMAIN job.text : job.text[k] \in STRING
    BY <2>1
  <2>4. Range(job.text) \subseteq STRING
    BY <2>3 DEF Range
  <2> QED BY <2>1, <2>2, <2>4
<1>2. found = <<>> /\ Alive(syms) = <<>>
  BY EmptyList DEF TextInv
<1>3. Covered(ids, <<>>, <<>>, rest)
  BY <1>2 DEF TextInv
<1>4. PICK a : Reads(ids, a) /\ ((a \o <<>>) \o <<>>) \o AsText(rest) = AsText(job.text)
  BY <1>1, <1>3, ReadsNothing DEF Covered
<1>5. PICK t, l : t = AsText(chars) /\ l = AsText(left)
  OBVIOUS
<1>6. a \in Seq(Letters) /\ t \in Seq(Letters) /\ c \in Seq(Letters) /\ l \in Seq(Letters)
  <2>1. chars \in Seq(Letters)
    <3>1. Range(job.text) \subseteq Letters
      BY <1>1 DEF Letters
    <3> QED BY <3>1, Wider
  <2> QED BY <1>4, <1>5, <2>1, SpacesBack DEF Reads
<1>7. a \o ((t \o c) \o l) = AsText(job.text)
  <2>1. (a \o <<>>) \o <<>> = a
    <3>1. a \o <<>> = a
      BY ONLY <1>6, NothingRight
    <3> QED BY ONLY <3>1, Zenon
  <2> QED BY ONLY <1>4, <1>5, <2>1, AsText(rest) = (AsText(chars) \o c) \o AsText(left), Zenon
<1>8. rest' = left
  BY DEF Segment
<1>9. CASE chars = <<>>
  <2>1. ids' = ids \o special /\ UNCHANGED <<found, syms>>
    BY <1>9 DEF Segment
  <2>2. t = <<>> /\ t \o c = c
    BY <1>5, <1>6, <1>9, NoText
  <2>3. ((a \o c) \o <<>>) \o <<>> = a \o c
    BY <1>6
  <2>4. (a \o c) \o l = a \o (c \o l)
    <3>1. JoinsAgain(a, c, l)
      BY ONLY <1>6, JoinAgain
    <3> QED BY ONLY <3>1, Zenon DEF JoinsAgain
  <2>5. Reads(ids \o special, a \o c)
    BY <1>1, <1>4, ReadsJoin
  <2>6. Covered(ids \o special, <<>>, <<>>, left)
    <3>1. (((a \o c) \o <<>>) \o <<>>) \o AsText(left) = AsText(job.text)
      BY <1>5, <1>7, <2>2, <2>3, <2>4
    <3> QED BY <1>1, <2>5, <3>1, ReadsNothing DEF Covered
  <2>7. Alive(syms)' = <<>> /\ found' = <<>>
    BY <1>2, <2>1 DEF Alive
  <2> QED BY <1>8, <2>1, <2>6, <2>7, TextHolds
<1>10. CASE chars # <<>>
  <2>1. found' = special /\ syms' = Linked(InitialIds(chars)) /\ UNCHANGED ids
    BY <1>10 DEF Segment, StartSegment
  <2>2. Reads(InitialIds(chars), AsText(chars)) /\ InitialIds(chars) # <<>>
    BY <1>1, <1>10, ReadsInitial DEF Readable
  <2>3. InitialIds(chars) \in Seq(Nat)
    BY <1>1, InitialIdsType
  <2>4. Alive(syms') = InitialIds(chars) /\ syms' # <<>>
    <3>1. Alive(syms') = InitialIds(chars)
      BY <2>1, <2>3, AliveLinked
    <3>2. syms' # <<>>
      BY <2>2, <3>1, EmptyList
    <3> QED BY <3>1, <3>2
  <2>5. Covered(ids, InitialIds(chars), special, left)
    <3>1. a \o ((t \o c) \o l) = ((a \o t) \o c) \o l
      <4>1. PICK tc : tc = t \o c
        OBVIOUS
      <4>2. (a \o t) \o c = a \o (t \o c)
        <5>1. JoinsAgain(a, t, c)
          BY ONLY <1>6, JoinAgain
        <5> QED BY ONLY <5>1, Zenon DEF JoinsAgain
      <4>3. tc \in Seq(Letters) /\ a \in Seq(Letters) /\ l \in Seq(Letters)
        BY <1>6, <4>1
      <4>4. (a \o tc) \o l = a \o (tc \o l)
        <5>1. JoinsAgain(a, tc, l)
          BY ONLY <4>3, JoinAgain
        <5> QED BY ONLY <5>1, Zenon DEF JoinsAgain
      <4> QED BY ONLY <4>1, <4>2, <4>4
    <3>2. ((a \o t) \o c) \o AsText(left) = AsText(job.text)
      BY <1>5, <1>7, <3>1
    <3> QED BY <1>4, <1>5, <2>2, <3>2 DEF Covered
  <2>6. Alive(syms)' = InitialIds(chars)
    BY <2>4 DEF Alive
  <2> QED BY <1>8, <2>1, <2>4, <2>5, <2>6, TextHolds
<1> QED BY <1>9, <1>10

LEMMA ScanText ==
  ASSUME EncodeInv, ~Rejected, Readable, TextInv, Scan, UNCHANGED job
  PROVE  TextInv'
<1> DEFINE start == IF specials = "match" THEN FindSpecial(rest) ELSE 0
           id == vocab.specials[SpecialAt(rest, start)]
           letters == Range(job.text)
<1>1. /\ rest # <<>> /\ syms = <<>> /\ UNCHANGED <<job, built, specials>>
      /\ start = 0 => Segment(rest, <<>>, <<>>)
      /\ start # 0 => Segment(SubSeq(rest, 1, start - 1), <<id>>, From(rest, start + Len(vocab.pieces[id])))
  BY DEF Scan
<1>2. /\ rest \in Seq(letters) /\ VocabTexts /\ OrderOK(vocab)
      /\ letters \subseteq Letters /\ letters \subseteq STRING
  <2>1. job.text \in Seq(STRING)
    BY VocabHolds DEF EncodeInv
  <2>2. letters \subseteq STRING
    BY <2>1 DEF Range
  <2> QED BY <2>2, VocabReads DEF EncodeInv, RestOK, Letters
<1> HIDE DEF letters
<1>3. rest \in Seq(Letters)
  BY <1>2, Wider
<1>4. CASE start = 0
  <2>1. Segment(rest, <<>>, <<>>)
    BY <1>1, <1>4
  <2>2. AsText(rest) = (AsText(rest) \o <<>>) \o AsText(<<>>) /\ <<>> \in Seq(Letters)
    <3>1. AsText(rest) \in Seq(Letters)
      BY <1>3, SpacesBack
    <3>2. PICK t \in Seq(Letters) : t = AsText(rest)
      BY <3>1
    <3>3. t \o <<>> = t
      OBVIOUS
    <3> QED BY <3>2, <3>3, NoText
  <2>3. Reads(<<>>, <<>>)
    BY <1>2, ReadsNothing
  <2> HIDE DEF start, id
  <2> QED BY <1>1, <1>2, <2>1, <2>2, <2>3, SegmentText DEF letters
<1>5. CASE start # 0
  <2>1. start \in 1 .. Len(rest) /\ SpecialAt(rest, start) # 0
    <3>1. /\ FindSpecial(rest) \in 0 .. Len(rest) /\ start = FindSpecial(rest)
          /\ FindSpecial(rest) # 0 => SpecialAt(rest, FindSpecial(rest)) # 0
      BY <1>2, <1>5, FirstFound
    <3> QED BY <1>5, <3>1
  <2>2. Segment(SubSeq(rest, 1, start - 1), <<id>>, From(rest, start + Len(vocab.pieces[id])))
    BY <1>1, <1>5
  <2> HIDE DEF start
  <2>3. /\ SpecialAt(rest, start) \in 1 .. Len(vocab.specials)
        /\ IsPrefix(vocab.pieces[id], From(rest, start))
    BY <1>2, <2>1, SpecialAtIs DEF OrderOK
  <2>4. id \in Known /\ id \in Range(vocab.specials)
    BY <1>2, <2>3 DEF OrderOK, Known, Range
  <2> HIDE DEF id
  <2>5. vocab.types[id] \in {"control", "userdefined"} /\ vocab.pieces[id] \in Seq(STRING)
    BY <1>2, <2>4 DEF OrderOK, VocabTexts, TextsOK, Known
  <2>6. id \notin DOMAIN vocab.idToByte
    BY <1>2, <2>5 DEF VocabTexts, BytesOK
  <2>7. Reads(<<id>>, AsText(vocab.pieces[id]))
    BY <1>2, <2>4, <2>6, ReadsPiece
  <2>8. PICK piece, front, after : /\ piece = vocab.pieces[id] /\ front = SubSeq(rest, 1, start - 1)
                                   /\ after = From(rest, start + Len(vocab.pieces[id]))
    OBVIOUS
  <2>9. /\ front \in Seq(letters) /\ after \in Seq(letters) /\ piece \in Seq(STRING)
        /\ rest = (front \o piece) \o after
    <3>1. /\ piece \in Seq(STRING) /\ start + Len(piece) \in 1 .. Len(rest) + 1
          /\ rest = (front \o piece) \o after
      <4>1. piece \in Seq(STRING) /\ IsPrefix(piece, From(rest, start))
        BY <2>3, <2>5, <2>8
      <4>2. start \in 1 .. Len(rest) /\ rest \in Seq(STRING)
        <5>1. rest \in Seq(STRING)
          BY <1>2, Wider
        <5> QED BY <2>1, <5>1
      <4>3. /\ start + Len(piece) \in 1 .. Len(rest) + 1
            /\ rest = (SubSeq(rest, 1, start - 1) \o piece) \o From(rest, start + Len(piece))
        BY ONLY <4>1, <4>2, CutOut
      <4> QED BY <2>8, <4>1, <4>3
    <3>2. start + Len(piece) \in Nat \ {0}
      BY <1>2, <3>1
    <3> QED BY <1>2, <2>1, <2>8, <3>1, <3>2, Pieces
  <2>10. front \in Seq(Letters) /\ after \in Seq(Letters) /\ piece \in Seq(Letters)
    <3>1. front \in Seq(Letters) /\ after \in Seq(Letters)
      BY <1>2, <2>9, Wider
    <3> QED BY <2>9, <3>1, LettersKnown
  <2>11. AsText(rest) = (AsText(front) \o AsText(piece)) \o AsText(after)
    <3>1. front \o piece \in Seq(Letters)
      BY <2>10
    <3>2. AsText((front \o piece) \o after) = AsText(front \o piece) \o AsText(after)
      BY <2>10, <3>1, AsTextJoin
    <3>3. AsText(front \o piece) = AsText(front) \o AsText(piece)
      BY <2>10, AsTextJoin
    <3> QED BY <2>9, <3>2, <3>3
  <2>12. Segment(front, <<id>>, after) /\ Reads(<<id>>, AsText(piece))
    BY <2>2, <2>7, <2>8
  <2> QED BY <1>1, <2>9, <2>10, <2>11, <2>12, SegmentText DEF letters
<1> QED BY <1>4, <1>5

LEMMA MergeText ==
  ASSUME EncodeInv, ~Rejected, Readable, TextInv, PopMerge, UNCHANGED job
  PROVE  TextInv'
<1>1. Reference!Merge /\ UNCHANGED <<built, found, ids, rest>>
  BY PopMergeStep DEF PopMerge
<1>2. PICK w : w = Alive(syms)
  OBVIOUS
<1>3. /\ VocabTexts /\ VocabOK(vocab, Range(job.text)) /\ Merges = vocab.merges /\ w \in Seq(Nat)
  <2>1. syms \in Seq(Symbols)
    BY DEF EncodeInv, ListOK
  <2>2. w \in Seq(Nat)
    BY <1>2, <2>1, CountsExist DEF Counts
  <2> QED BY <2>2, VocabReads, VocabHolds DEF EncodeInv
<1>4. PICK i \in Reference!Places(w) :
        Alive(syms)' = SubSeq(w, 1, i - 1) \o <<vocab.merges[Reference!Pair(w, i)][2]>> \o SubSeq(w, i + 2, Len(w))
  BY <1>1, <1>2, <1>3 DEF Reference!Merge
<1>5. i \in 1 .. Len(w) - 1 /\ <<w[i], w[i + 1]>> \in DOMAIN vocab.merges /\ Reference!Pair(w, i) = <<w[i], w[i + 1]>>
  BY <1>3, <1>4 DEF Reference!Places, Reference!Pair
<1>6. PICK id : id = vocab.merges[<<w[i], w[i + 1]>>][2]
  OBVIOUS
<1>7. Alive(syms)' = Splice(w, i, id)
  BY <1>4, <1>5, <1>6 DEF Splice
<1>8. id \in Known /\ id \in Nat
  BY <1>3, <1>5, <1>6 DEF VocabTexts, JoinsOK, Known, VocabOK
<1>9. {w[i], w[i + 1], id} \cap DOMAIN vocab.idToByte = {}
  <2>1. PICK p : p = <<w[i], w[i + 1]>>
    OBVIOUS
  <2>2. {p[1], p[2], vocab.merges[p][2]} \cap DOMAIN vocab.idToByte = {}
    BY <1>5, <2>1 DEF Readable
  <2>3. p[1] = w[i] /\ p[2] = w[i + 1]
    BY <2>1
  <2> QED BY <1>6, <2>1, <2>2, <2>3
<1>10. Covered(ids, w, found, rest)
  BY <1>2 DEF TextInv
<1>11. Covered(ids, Splice(w, i, id), found, rest)
  <2>1. ASSUME NEW b, Reads(w, b)
        PROVE  Reads(Splice(w, i, id), b)
    BY <1>3, <1>5, <1>6, <1>8, <1>9, <2>1, ReadsMerged
  <2> QED BY <1>10, <2>1 DEF Covered
<1>12. syms' # <<>>
  <2>1. Splice(w, i, id) # <<>>
    <3>1. w \in Seq(Nat) /\ i \in 1 .. Len(w) - 1 /\ id \in Nat
      BY <1>3, <1>5, <1>8
    <3>2. PICK v : v = Splice(w, i, id)
      OBVIOUS
    <3>3. Len(v) = Len(w) - 1
      BY ONLY <3>1, <3>2, SpliceAt
    <3>4. Len(w) \in Nat /\ Len(w) - 1 >= 1
      BY <3>1
    <3> QED BY <3>2, <3>3, <3>4
  <2>2. Alive(<<>>) = <<>> /\ Alive(syms)' = Alive(syms')
    BY EmptyList DEF Alive
  <2> QED BY <1>7, <2>1, <2>2
<1> QED BY <1>1, <1>7, <1>11, <1>12, TextHolds

LEMMA EndText ==
  ASSUME EncodeInv, ~Rejected, Readable, TextInv, EndSegment, UNCHANGED job
  PROVE  TextInv'
<1>1. /\ ids' = ids \o Alive(syms) \o found /\ syms' = <<>> /\ found' = <<>>
      /\ UNCHANGED <<job, built, rest>>
  BY DEF EndSegment
<1>2. VocabTexts
  BY VocabReads DEF EncodeInv
<1>3. PICK a, b, c : /\ Reads(ids, a) /\ Reads(Alive(syms), b) /\ Reads(found, c)
                     /\ ((a \o b) \o c) \o AsText(rest) = AsText(job.text)
  BY DEF TextInv, Covered
<1>4. Reads((ids \o Alive(syms)) \o found, (a \o b) \o c)
  BY <1>2, <1>3, ReadsJoin
<1>5. PICK all : all = (a \o b) \o c
  OBVIOUS
<1>6. all \in Seq(Letters) /\ (all \o <<>>) \o <<>> = all
  BY <1>4, <1>5 DEF Reads
<1>7. Covered(ids', <<>>, <<>>, rest)
  <2>1. ((all \o <<>>) \o <<>>) \o AsText(rest) = AsText(job.text)
    BY <1>3, <1>5, <1>6
  <2>2. Reads(ids', all)
    BY <1>1, <1>4, <1>5
  <2> QED BY <1>2, <2>1, <2>2, ReadsNothing DEF Covered
<1>8. Alive(syms)' = <<>>
  BY <1>1, EmptyList DEF Alive
<1>9. PICK sofar : sofar = ids'
  OBVIOUS
<1> QED BY <1>1, <1>7, <1>8, <1>9, TextHolds

LEMMA TextStarts ==
  ASSUME Init
  PROVE  TextInv
<1>1. rest = job.text /\ found = <<>> /\ syms = <<>> /\ ids = <<>> /\ Alive(syms) = <<>>
  BY EmptyList DEF Init, EncodeInit
<1>2. ASSUME ~Rejected
      PROVE  Covered(<<>>, <<>>, <<>>, rest)
  <2>1. BuiltOK
    BY EncodeStarts DEF EncodeInv
  <2>2. VocabTexts
    BY <1>2, <2>1, VocabReads
  <2>3. job.text \in Seq(Letters)
    BY <1>2, <2>1, VocabHolds, LettersKnown
  <2>4. ((<<>> \o <<>>) \o <<>>) \o AsText(rest) = AsText(job.text)
    <3>1. PICK t \in Seq(Letters) : t = AsText(job.text)
      BY <2>3, SpacesBack
    <3>2. ((<<>> \o <<>>) \o <<>>) \o t = t
      OBVIOUS
    <3> QED BY <1>1, <3>1, <3>2
  <2> QED BY <2>2, <2>4, ReadsNothing DEF Covered
<1> QED BY <1>1, <1>2 DEF TextInv

LEMMA TextMoves ==
  ASSUME EncodeInv, TextInv, [Next]_vars
  PROVE  TextInv'
<1>1. CASE UNCHANGED <<job, built, specials, rest, found, syms, ids>>
  <2>1. ~Rejected' /\ Readable' => ~Rejected /\ Readable
    BY <1>1 DEF Rejected, Readable, vocab
  <2>2. SUFFICES ASSUME ~Rejected /\ Readable
                 PROVE  TextInv'
    BY <2>1 DEF TextInv
  <2>3. PICK sofar, word, behind, left :
          /\ sofar = ids /\ word = Alive(syms) /\ behind = found /\ left = rest
          /\ Covered(sofar, word, behind, left)
    BY <2>2 DEF TextInv
  <2>4. Alive(syms)' = Alive(syms)
    BY <1>1 DEF Alive
  <2>5. syms' = <<>> => found' = <<>>
    BY <1>1, <2>2 DEF TextInv
  <2> QED BY <1>1, <2>3, <2>4, <2>5, TextHolds
<1>2. CASE Encode
  <2>1. ~Rejected /\ EncodeStep /\ UNCHANGED job
    BY <1>2 DEF Encode
  <2>2. built' = built
    BY <2>1 DEF EncodeStep, Scan, PopStale, PopMerge, EndSegment
  <2>3. SUFFICES ASSUME Readable
                 PROVE  TextInv'
    BY <2>2 DEF TextInv, Readable, vocab
  <2>4. CASE Scan
    BY <2>1, <2>3, <2>4, ScanText
  <2>5. CASE PopStale
    BY <1>1, <2>1, <2>5 DEF PopStale
  <2>6. CASE PopMerge
    BY <2>1, <2>3, <2>6, MergeText
  <2>7. CASE EndSegment
    BY <2>1, <2>3, <2>7, EndText
  <2> QED BY <2>1, <2>4, <2>5, <2>6, <2>7 DEF EncodeStep
<1>3. CASE Generate
  BY <1>1, <1>3 DEF Generate, encodeVars
<1>4. CASE Evaluate
  BY <1>1, <1>4 DEF Evaluate, encodeVars
<1>5. CASE UNCHANGED vars
  BY <1>1, <1>5 DEF vars, encodeVars
<1> QED BY <1>2, <1>3, <1>4, <1>5 DEF Next

LEMMA TextIsThere ==
  ASSUME EncodeInv, TextInv
  PROVE  Readable => RoundTrip
<1>1. SUFFICES ASSUME Readable, ~Rejected
               PROVE  Decode(ids \o Alive(syms) \o found) \o AsText(rest) = AsText(job.text)
  BY DEF RoundTrip
<1>2. VocabTexts
  BY <1>1, VocabReads DEF EncodeInv
<1>3. PICK a, b, c : /\ Reads(ids, a) /\ Reads(Alive(syms), b) /\ Reads(found, c)
                     /\ ((a \o b) \o c) \o AsText(rest) = AsText(job.text)
  BY <1>1 DEF TextInv, Covered
<1>4. Reads((ids \o Alive(syms)) \o found, (a \o b) \o c)
  BY <1>2, <1>3, ReadsJoin
<1>5. PICK w, all : w = (ids \o Alive(syms)) \o found /\ all = (a \o b) \o c
  OBVIOUS
<1>6. w \in Seq(Known) /\ all \in Seq(Letters) /\ Reads(w, all)
  BY <1>4, <1>5 DEF Reads
<1>7. StateAfter(w) = [out |-> all, pending |-> <<>>]
  <2>1. <<>> \in Seq(Known) /\ <<>> \o w = w /\ <<>> \o all = all
    BY <1>6
  <2>2. StateAfter(<<>>).out = <<>> /\ StateAfter(<<>>).pending = <<>>
    BY <1>2, AfterNothing DEF Start
  <2>3. StateAfter(<<>> \o w) = [out |-> StateAfter(<<>>).out \o all, pending |-> <<>>]
    BY <1>6, <2>1, <2>2 DEF Reads
  <2> QED BY <2>1, <2>2, <2>3
<1>8. Decode(w) = StateAfter(w).out \o Flush(StateAfter(w).pending)
  BY DEF Decode, StateAfter
<1>9. Decode(w) = all
  <2>1. all \o <<>> = all
    BY <1>6
  <2> QED BY <1>7, <1>8, <2>1 DEF Flush
<1> QED BY <1>3, <1>5, <1>9

(***************************************************************************)
(* No character is lost, doubled or changed by encoding: at every step the *)
(* ids so far decode to the text consumed, for every file whose merges     *)
(* leave the byte tokens alone and that has a token for U+2581 (encode,    *)
(* encode_segment, decode).                                                *)
(***************************************************************************)
THEOREM DecodesToText == Spec => [](Readable => RoundTrip)
<1>1. Init => TextInv
  BY TextStarts
<1>2. EncodeInv /\ TextInv /\ [Next]_vars => TextInv'
  BY TextMoves
<1>3. EncodeInv /\ TextInv => (Readable => RoundTrip)
  BY TextIsThere
<1> QED BY <1>1, <1>2, <1>3, EncodeInvariant, PTL DEF Spec

-----------------------------------------------------------------------------
(* The special tokens of what stands in the encoder.                        *)

(* Of the file, what no code checks (vocab.rs): a special token is written  *)
(* "<" and more, the only place find_special looks at, and no merge yields  *)
(* one.                                                                     *)
SpecialsApart ==
  /\ \A id \in SpecialPieces : vocab.pieces[id][1] = "<" /\ Len(vocab.pieces[id]) > 1
  /\ \A p \in DOMAIN vocab.merges : vocab.merges[p][2] \notin SpecialPieces

Plain == Known \ SpecialPieces

SpecialOf(id) == IF id \in SpecialPieces THEN <<id>> ELSE <<>>

LEMMA SpecialsInNothing == SpecialsIn(<<>>) = <<>>
<1>1. [i \in DOMAIN <<>> |-> IF <<>>[i] \in SpecialPieces THEN <<<<>>[i]>> ELSE <<>>] = <<>>
  OBVIOUS
<1> QED BY <1>1 DEF SpecialsIn, FlattenSeq

LEMMA SpecialsInLonger ==
  ASSUME NEW w \in Seq(Known), NEW id \in Known
  PROVE  SpecialsIn(w) \in Seq(Known) /\ SpecialsIn(w \o <<id>>) = SpecialsIn(w) \o SpecialOf(id)
<1> DEFINE N == Len(w)
           long == w \o <<id>>
           seqs == [i \in 1 .. N |-> SpecialOf(w[i])]
           longer == [i \in 1 .. N + 1 |-> SpecialOf(long[i])]
<1>1. N \in Nat /\ DOMAIN w = 1 .. N /\ \A i \in 1 .. N : w[i] \in Known
  OBVIOUS
<1>2. /\ long \in Seq(Known) /\ Len(long) = N + 1 /\ DOMAIN long = 1 .. N + 1 /\ long[N + 1] = id
      /\ \A i \in 1 .. N : long[i] = w[i]
  <2>1. long \in Seq(Known) /\ Len(long) = N + 1
    OBVIOUS
  <2>2. \A i \in 1 .. N : long[i] = w[i]
    OBVIOUS
  <2>3. long[N + 1] = id
    OBVIOUS
  <2>4. DOMAIN long = 1 .. N + 1
    BY <2>1
  <2> QED BY <2>1, <2>2, <2>3, <2>4
<1> HIDE DEF long
<1>3. \A v \in Known : SpecialOf(v) \in Seq(Known)
  BY DEF SpecialOf
<1>4. SpecialsIn(w) = FlattenSeq(seqs) /\ SpecialsIn(long) = FlattenSeq(longer)
  BY <1>1, <1>2 DEF SpecialsIn, SpecialOf
<1>5. seqs \in [1 .. N -> Seq(Known)] /\ longer \in [1 .. N + 1 -> Seq(Known)]
  <2>1. \A i \in 1 .. N + 1 : long[i] \in Known
    BY <1>2
  <2> HIDE DEF N
  <2> QED BY <1>1, <1>3, <2>1
<1>6. (\A i \in 1 .. N : longer[i] = seqs[i]) /\ longer[N + 1] = SpecialOf(id)
  <2>1. N + 1 \in 1 .. N + 1 /\ \A i \in 1 .. N : i \in 1 .. N + 1
    BY <1>1
  <2> HIDE DEF N
  <2> QED BY <1>2, <2>1
<1> HIDE DEF seqs, longer, N
<1>7. FlattenSeq(seqs) \in Seq(Known) /\ FlattenSeq(longer) = FlattenSeq(seqs) \o longer[N + 1]
  BY <1>1, <1>5, <1>6, FlattenLonger
<1> QED BY <1>4, <1>6, <1>7 DEF long

LEMMA AllSpecials ==
  ASSUME NEW w \in Seq(Known)
  PROVE  SpecialsIn(w) \in Seq(Known)
<1>1. CASE w = <<>>
  BY <1>1, SpecialsInNothing
<1>2. CASE w # <<>>
  <2>1. w[1] \in Known
    BY <1>2
  <2> QED BY <2>1, SpecialsInLonger
<1> QED BY <1>1, <1>2

LEMMA PlainAddsNone ==
  ASSUME NEW w \in Seq(Known), NEW u \in Seq(Plain)
  PROVE  SpecialsIn(w \o u) = SpecialsIn(w)
<1> DEFINE K == {k \in 0 .. Len(u) : SpecialsIn(w \o SubSeq(u, 1, k)) = SpecialsIn(w)}
<1>1. Len(u) \in Nat /\ \A k \in 1 .. Len(u) : u[k] \in Plain
  OBVIOUS
<1>2. Plain \subseteq Known
  BY DEF Plain
<1>3. u \in Seq(Known)
  BY <1>2, Wider
<1>4. 0 \in K
  <2>1. SubSeq(u, 1, 0) = <<>> /\ w \o <<>> = w
    OBVIOUS
  <2>2. SpecialsIn(w \o SubSeq(u, 1, 0)) = SpecialsIn(w)
    BY ONLY <2>1
  <2> QED BY <1>1, <2>2
<1>5. ASSUME NEW k \in 1 .. Len(u), k - 1 \in K
      PROVE  k \in K
  <2>1. PICK sofar, longer : sofar = SubSeq(u, 1, k - 1) /\ longer = SubSeq(u, 1, k)
    OBVIOUS
  <2>2. sofar \in Seq(Known) /\ longer = sofar \o <<u[k]>> /\ u[k] \in Known
    BY <1>3, <2>1, OneLonger
  <2>3. <<u[k]>> \in Seq(Known) /\ w \in Seq(Known) /\ sofar \in Seq(Known) /\ w \o sofar \in Seq(Known)
    BY <2>2
  <2>4. (w \o sofar) \o <<u[k]>> = w \o (sofar \o <<u[k]>>)
    <3>1. JoinsAgain(w, sofar, <<u[k]>>)
      BY ONLY <2>3, JoinAgain
    <3> QED BY ONLY <3>1, Zenon DEF JoinsAgain
  <2>5. PICK w1 : w1 = w \o sofar
    OBVIOUS
  <2>6. SpecialsIn(w1) \in Seq(Known) /\ SpecialsIn(w1 \o <<u[k]>>) = SpecialsIn(w1) \o SpecialOf(u[k])
    BY <2>2, <2>3, <2>5, SpecialsInLonger
  <2>7. SpecialOf(u[k]) = <<>>
    BY <1>1 DEF SpecialOf, Plain
  <2>8. SpecialsIn(w \o longer) = SpecialsIn(w1)
    <3>1. SpecialsIn(w1) \o <<>> = SpecialsIn(w1)
      BY <2>6
    <3>2. w \o longer = w1 \o <<u[k]>>
      BY <2>2, <2>4, <2>5
    <3> QED BY ONLY <2>6, <2>7, <3>1, <3>2
  <2>9. SpecialsIn(w1) = SpecialsIn(w)
    BY <1>5, <2>1, <2>5
  <2> QED BY <2>1, <2>8, <2>9
<1> HIDE DEF K
<1>6. \A k \in 0 .. Len(u) : k \in K
  BY ONLY <1>1, <1>4, <1>5, BoundedInduction
<1>7. Len(u) \in K /\ SubSeq(u, 1, Len(u)) = u
  BY <1>1, <1>6
<1> QED BY <1>7 DEF K

(* The symbols of a text are plain, and so is what merges make of them.     *)
LEMMA InitialIdsPlain ==
  ASSUME VocabTexts, SpecialsApart, NEW letters, VocabOK(vocab, letters), NEW chars \in Seq(letters)
  PROVE  InitialIds(chars) \in Seq(Plain) /\ (chars # <<>> => InitialIds(chars) # <<>>)
<1>1. ASSUME NEW c, <<c>> \in DOMAIN vocab.ids
      PROVE  vocab.ids[<<c>>] \in Plain
  <2>1. vocab.ids[<<c>>] \in Known /\ vocab.pieces[vocab.ids[<<c>>]] = <<c>>
    BY <1>1 DEF VocabTexts, TextsOK, Known
  <2>2. Len(<<c>>) = 1
    OBVIOUS
  <2>3. vocab.ids[<<c>>] \notin SpecialPieces
    <3>1. PICK id : id = vocab.ids[<<c>>]
      OBVIOUS
    <3>2. Len(vocab.pieces[id]) = 1
      BY <2>1, <2>2, <3>1
    <3>3. id \in SpecialPieces => Len(vocab.pieces[id]) > 1
      BY DEF SpecialsApart
    <3> QED BY <3>1, <3>2, <3>3
  <2> QED BY <2>1, <2>3 DEF Plain
<1>2. ASSUME NEW b \in DOMAIN vocab.byteToId
      PROVE  vocab.byteToId[b] \in Plain
  <2>1. vocab.byteToId[b] \in Known /\ vocab.types[vocab.byteToId[b]] = "byte"
    BY DEF VocabTexts, BytesOK, Known
  <2> QED BY <2>1 DEF Plain, SpecialPieces
<1> QED BY <1>1, <1>2, InitialIdsIn DEF VocabOK

LEMMA SplicePlain ==
  ASSUME NEW V, NEW w \in Seq(V), NEW i \in 1 .. Len(w) - 1, NEW id \in V
  PROVE  Splice(w, i, id) \in Seq(V)
<1>1. SubSeq(w, 1, i - 1) \in Seq(V) /\ SubSeq(w, i + 2, Len(w)) \in Seq(V) /\ <<id>> \in Seq(V)
  OBVIOUS
<1> QED BY <1>1 DEF Splice

(* What SpecialsOf finds from a place on.                                   *)
Finding(g, t) ==
  /\ g \in [1 .. Len(t) + 1 -> Seq(Known)] /\ g[Len(t) + 1] = <<>>
  /\ \A i \in 1 .. Len(t) :
       /\ (\E id \in SpecialPieces : IsAt(t, i, id)) =>
            /\ LongestAt(t, i) \in SpecialPieces /\ IsAt(t, i, LongestAt(t, i))
            /\ i + Len(vocab.pieces[LongestAt(t, i)]) \in 1 .. Len(t) + 1
            /\ g[i] = <<LongestAt(t, i)>> \o g[i + Len(vocab.pieces[LongestAt(t, i)])]
       /\ (\A id \in SpecialPieces : ~IsAt(t, i, id)) => g[i] = g[i + 1]

LEMMA SpecialsKnown ==
  ASSUME VocabTexts
  PROVE  /\ SpecialPieces \subseteq Known
         /\ \A id \in Known : vocab.pieces[id] \in Seq(STRING) /\ Len(vocab.pieces[id]) \in Nat
<1>1. SpecialPieces \subseteq Known
  BY DEF VocabTexts, TextsOK, SpecialPieces, Known
<1>2. ASSUME NEW id \in Known
      PROVE  vocab.pieces[id] \in Seq(STRING) /\ Len(vocab.pieces[id]) \in Nat
  <2>1. vocab.pieces[id] \in Seq(STRING)
    BY DEF VocabTexts, TextsOK, Known
  <2> QED BY <2>1
<1> QED BY <1>1, <1>2

(* Of several at a place there is a longest, and only one.                  *)
LEMMA LongestIs ==
  ASSUME VocabTexts, NEW t \in Seq(STRING), NEW i \in 1 .. Len(t)
  PROVE  /\ (\E id \in SpecialPieces : IsAt(t, i, id)) =>
              /\ LongestAt(t, i) \in SpecialPieces /\ IsAt(t, i, LongestAt(t, i))
              /\ i + Len(vocab.pieces[LongestAt(t, i)]) \in 1 .. Len(t) + 1
         /\ \A id \in SpecialPieces :
              /\ IsAt(t, i, id)
              /\ \A other \in SpecialPieces : IsAt(t, i, other) => Len(vocab.pieces[other]) <= Len(vocab.pieces[id])
              => LongestAt(t, i) = id
<1> DEFINE good(id) == /\ IsAt(t, i, id)
                       /\ \A other \in SpecialPieces :
                            IsAt(t, i, other) => Len(vocab.pieces[other]) <= Len(vocab.pieces[id])
<1>1. LongestAt(t, i) = CHOOSE id \in SpecialPieces : good(id)
  BY DEF LongestAt
<1>2. Len(t) \in Nat /\ i \in Nat /\ From(t, i) \in Seq(STRING) /\ Len(From(t, i)) = Len(t) + 1 - i
  <2>1. i \in 1 .. Len(t) + 1
    OBVIOUS
  <2> QED BY <2>1, SuffixIs
<1>3. ASSUME NEW id \in SpecialPieces, IsAt(t, i, id)
      PROVE  /\ Len(vocab.pieces[id]) \in 0 .. Len(t) + 1 - i
             /\ i + Len(vocab.pieces[id]) \in 1 .. Len(t) + 1
             /\ vocab.pieces[id] = SubSeq(From(t, i), 1, Len(vocab.pieces[id]))
  <2>1. PICK piece \in Seq(STRING) : piece = vocab.pieces[id]
    BY SpecialsKnown
  <2>2. Len(piece) <= Len(From(t, i)) /\ SubSeq(piece, 1, Len(piece)) = SubSeq(From(t, i), 1, Len(piece))
    BY <1>3, <2>1 DEF IsAt, IsPrefix
  <2>3. SubSeq(piece, 1, Len(piece)) = piece /\ Len(piece) \in Nat
    OBVIOUS
  <2>4. Len(piece) \in 0 .. Len(t) + 1 - i /\ i + Len(piece) \in 1 .. Len(t) + 1
    BY <1>2, <2>2, <2>3
  <2> QED BY <2>1, <2>2, <2>3, <2>4
<1>4. ASSUME NEW a \in SpecialPieces, NEW b \in SpecialPieces, good(a), good(b)
      PROVE  a = b
  <2>1. Len(vocab.pieces[a]) = Len(vocab.pieces[b])
    <3>1. Len(vocab.pieces[a]) \in Nat /\ Len(vocab.pieces[b]) \in Nat
      BY SpecialsKnown
    <3> QED BY <1>4, <3>1
  <2>2. vocab.pieces[a] = vocab.pieces[b]
    BY <1>3, <1>4, <2>1
  <2>3. a \in DOMAIN vocab.pieces /\ b \in DOMAIN vocab.pieces
    BY SpecialsKnown DEF Known
  <2> QED BY <2>2, <2>3 DEF VocabTexts, TextsOK
<1>5. ASSUME NEW any \in SpecialPieces, IsAt(t, i, any)
      PROVE  \E id \in SpecialPieces : good(id)
  <2> DEFINE lengths == {Len(vocab.pieces[id]) : id \in {k \in SpecialPieces : IsAt(t, i, k)}}
             n == Len(t) + 1 - i
             L == {n - m : m \in lengths}
  <2>1. n \in Nat /\ lengths \subseteq 0 .. n
    BY <1>2, <1>3
  <2>2. Len(vocab.pieces[any]) \in lengths
    BY <1>5
  <2> HIDE DEF lengths, n
  <2>3. L \subseteq Nat /\ L # {}
    BY <2>1, <2>2
  <2>4. Min(L) \in L /\ \A k \in L : Min(L) <= k
    <3> HIDE DEF L
    <3> QED BY ONLY <2>3, MinIn
  <2>5. PICK m \in lengths : Min(L) = n - m
    BY <2>4
  <2>6. \A k \in lengths : k <= m
    <3>1. \A k \in lengths : n - k \in L /\ k \in Nat
      BY <2>1
    <3>2. m \in Nat /\ n \in Nat
      BY <2>1
    <3> HIDE DEF L
    <3> QED BY <2>4, <2>5, <3>1, <3>2
  <2>7. PICK id \in SpecialPieces : IsAt(t, i, id) /\ m = Len(vocab.pieces[id])
    BY DEF lengths
  <2>8. \A other \in SpecialPieces : IsAt(t, i, other) => Len(vocab.pieces[other]) \in lengths
    BY DEF lengths
  <2> QED BY <2>6, <2>7, <2>8
<1> HIDE DEF good
<1>6. ASSUME \E id \in SpecialPieces : IsAt(t, i, id)
      PROVE  LongestAt(t, i) \in SpecialPieces /\ good(LongestAt(t, i))
  BY <1>1, <1>5, <1>6
<1>7. ASSUME NEW id \in SpecialPieces, good(id)
      PROVE  LongestAt(t, i) = id
  BY <1>1, <1>4, <1>7
<1> QED BY <1>3, <1>6, <1>7 DEF good

LEMMA FindingExists ==
  ASSUME VocabTexts, SpecialsApart, NEW t \in Seq(STRING)
  PROVE  \E g : Finding(g, t) /\ SpecialsOf(t) = g[1]
<1> DEFINE N == Len(t)
           V == Seq(Known)
           hit(i) == \E id \in SpecialPieces : IsAt(t, i, id)
           longest(i) == LongestAt(t, i)
           jump == [i \in 1 .. N |-> IF hit(i) THEN i + Len(vocab.pieces[longest(i)]) ELSE i + 1]
           F == [i \in 1 .. N |-> [v \in V |-> IF hit(i) THEN <<longest(i)>> \o v ELSE v]]
<1>1. N \in Nat /\ <<>> \in V
  OBVIOUS
<1>2. ASSUME NEW i \in 1 .. N, hit(i)
      PROVE  /\ longest(i) \in SpecialPieces /\ IsAt(t, i, longest(i)) /\ longest(i) \in Known
             /\ i + Len(vocab.pieces[longest(i)]) \in i + 1 .. N + 1
             /\ <<longest(i)>> \in V
  <2>1. /\ LongestAt(t, i) \in SpecialPieces /\ IsAt(t, i, LongestAt(t, i))
        /\ i + Len(vocab.pieces[LongestAt(t, i)]) \in 1 .. N + 1
    BY <1>2, LongestIs
  <2>2. Len(vocab.pieces[longest(i)]) \in Nat /\ Len(vocab.pieces[longest(i)]) > 1 /\ longest(i) \in Known
    BY <2>1, SpecialsKnown DEF SpecialsApart
  <2> QED BY <2>1, <2>2
<1> HIDE DEF hit, longest
<1>3. jump \in [1 .. N -> Nat] /\ \A i \in 1 .. N : i < jump[i] /\ jump[i] <= N + 1
  <2>1. \A i \in 1 .. N : hit(i) => i + Len(vocab.pieces[longest(i)]) \in i + 1 .. N + 1
    BY <1>2
  <2>2. \A i \in 1 .. N : jump[i] \in i + 1 .. N + 1
    <3> HIDE DEF N
    <3> QED BY <1>1, <2>1
  <2>3. jump = [i \in 1 .. N |-> jump[i]]
    OBVIOUS
  <2> HIDE DEF jump, N
  <2> QED BY <1>1, <2>2, <2>3
<1>4. F \in [1 .. N -> [V -> V]]
  <2>1. ASSUME NEW i \in 1 .. N, NEW v \in V
        PROVE  (IF hit(i) THEN <<longest(i)>> \o v ELSE v) \in V
    BY <1>2
  <2> HIDE DEF V
  <2> QED BY <2>1
<1> HIDE DEF jump, F, V
<1>5. PICK g : Jumps(g, N, V, <<>>, jump, F)
  <2> HIDE DEF N
  <2> QED BY ONLY <1>1, <1>3, <1>4, JumpsExist
<1> DEFINE body(f) == [i \in 1 .. Len(t) + 1 |->
                         IF i > Len(t) THEN <<>>
                         ELSE IF \E id \in SpecialPieces : IsAt(t, i, id)
                              THEN <<LongestAt(t, i)>> \o f[i + Len(vocab.pieces[LongestAt(t, i)])]
                              ELSE f[i + 1]]
           from == CHOOSE f : f = body(f)
           step(f, i) == IF hit(i) THEN <<longest(i)>> \o f[i + Len(vocab.pieces[longest(i)])] ELSE f[i + 1]
<1>6. g \in [1 .. N + 1 -> V] /\ g[N + 1] = <<>> /\ \A i \in 1 .. N : g[i] = step(g, i)
  <2>1. ASSUME NEW i \in 1 .. N
        PROVE  g[i] = step(g, i)
    <3>1. g[i] = F[i][g[jump[i]]]
      BY <1>5 DEF Jumps
    <3>2. jump[i] = (IF hit(i) THEN i + Len(vocab.pieces[longest(i)]) ELSE i + 1) /\ jump[i] \in 1 .. N + 1
      <4>1. jump[i] = IF hit(i) THEN i + Len(vocab.pieces[longest(i)]) ELSE i + 1
        BY DEF jump
      <4> QED BY <1>1, <1>3, <4>1
    <3>3. g[jump[i]] \in V
      BY <1>5, <3>2 DEF Jumps
    <3>4. F[i][g[jump[i]]] = IF hit(i) THEN <<longest(i)>> \o g[jump[i]] ELSE g[jump[i]]
      BY <3>3 DEF F
    <3> QED BY <3>1, <3>2, <3>4
  <2> QED BY <1>5, <2>1 DEF Jumps
<1>7. g = body(g)
  <2>1. \A i \in 1 .. N + 1 : (i > N => i = N + 1) /\ (~(i > N) => i \in 1 .. N)
    BY <1>1
  <2>2. \A i \in 1 .. N + 1 : (i > N => g[i] = <<>>) /\ (~(i > N) => g[i] = step(g, i))
    <3> HIDE DEF N, step
    <3> QED BY <1>6, <2>1
  <2>3. \A i \in 1 .. N + 1 : g[i] = IF i > N THEN <<>> ELSE step(g, i)
    BY <2>2
  <2>4. g = [i \in 1 .. N + 1 |-> g[i]]
    BY <1>6
  <2> QED BY <2>3, <2>4 DEF hit, longest
<1>8. from = body(from)
  <2> HIDE DEF body
  <2> QED BY <1>7
<1>9. SpecialsOf(t) = from[1]
  BY DEF SpecialsOf
<1>10. FunctionOn(from, 1 .. N + 1) /\ from[N + 1] = <<>> /\ \A i \in 1 .. N : from[i] = step(from, i)
  <2>1. from = [i \in 1 .. N + 1 |-> body(from)[i]]
    BY <1>8
  <2>2. FunctionOn(from, 1 .. N + 1)
    <3> HIDE DEF from, body
    <3> QED BY <1>8, <2>1 DEF FunctionOn
  <2>3. \A i \in 1 .. N + 1 : from[i] = body(from)[i]
    <3> HIDE DEF from, body
    <3> QED BY <1>8
  <2>4. \A i \in 1 .. N + 1 : body(from)[i] = IF i > N THEN <<>> ELSE step(from, i)
    <3> HIDE DEF from
    <3> QED BY DEF hit, longest
  <2>5. N + 1 \in 1 .. N + 1 /\ N + 1 > N /\ \A i \in 1 .. N : i \in 1 .. N + 1 /\ ~(i > N)
    BY <1>1
  <2> HIDE DEF from, body, step, N
  <2> QED BY <2>2, <2>3, <2>4, <2>5
<1> HIDE DEF from
<1>11. Jumps(from, N, V, <<>>, jump, F)
  <2>1. ASSUME NEW i \in 1 .. N, from[jump[i]] \in V
        PROVE  from[i] = F[i][from[jump[i]]]
    <3>1. jump[i] = IF hit(i) THEN i + Len(vocab.pieces[longest(i)]) ELSE i + 1
      BY DEF jump
    <3>2. F[i][from[jump[i]]] = IF hit(i) THEN <<longest(i)>> \o from[jump[i]] ELSE from[jump[i]]
      BY <2>1 DEF F
    <3> QED BY <1>10, <3>1, <3>2
  <2> HIDE DEF N
  <2> QED BY ONLY <1>1, <1>3, <1>4, <1>10, <2>1, JumpsAre
<1>12. Finding(from, t)
  <2>1. from \in [1 .. N + 1 -> Seq(Known)] /\ from[N + 1] = <<>>
    BY <1>11 DEF Jumps, V
  <2>2. ASSUME NEW i \in 1 .. N
        PROVE  /\ hit(i) => /\ longest(i) \in SpecialPieces /\ IsAt(t, i, longest(i))
                            /\ i + Len(vocab.pieces[longest(i)]) \in 1 .. N + 1
                            /\ from[i] = <<longest(i)>> \o from[i + Len(vocab.pieces[longest(i)])]
               /\ ~hit(i) => from[i] = from[i + 1]
    <3>1. ASSUME hit(i)
          PROVE  i + Len(vocab.pieces[longest(i)]) \in 1 .. N + 1
      <4>1. i + Len(vocab.pieces[longest(i)]) \in i + 1 .. N + 1
        BY <1>2, <3>1
      <4> QED BY <1>1, <4>1
    <3> QED BY <1>2, <1>10, <3>1
  <2> QED BY <2>1, <2>2 DEF Finding, hit, longest
<1> QED BY <1>9, <1>12

(* Where no special token begins nothing is found.                          *)
LEMMA NoneFound ==
  ASSUME NEW t, Len(t) \in Nat, NEW g, Finding(g, t), NEW p \in 1 .. Len(t) + 1, NEW q \in 1 .. Len(t) + 1,
         p <= q, \A i \in p .. q - 1 : \A id \in SpecialPieces : ~IsAt(t, i, id)
  PROVE  g[q] = g[p]
<1> DEFINE N == q - p
           K == {k \in 0 .. N : g[p + k] = g[p]}
<1>1. N \in Nat /\ p \in Nat /\ q \in Nat /\ p + N = q
  OBVIOUS
<1>2. 0 \in K
  BY <1>1
<1>3. ASSUME NEW k \in 1 .. N, k - 1 \in K
      PROVE  k \in K
  <2>1. p + (k - 1) \in p .. q - 1 /\ p + (k - 1) \in 1 .. Len(t) /\ (p + (k - 1)) + 1 = p + k /\ k \in 0 .. N
    BY <1>1
  <2>2. g[p + (k - 1)] = g[(p + (k - 1)) + 1]
    BY <2>1 DEF Finding
  <2> QED BY <1>3, <2>1, <2>2
<1> HIDE DEF K, N
<1>4. \A k \in 0 .. N : k \in K
  BY ONLY <1>1, <1>2, <1>3, BoundedInduction
<1>5. N \in K
  BY <1>1, <1>4
<1> QED BY <1>1, <1>5 DEF K

(* A suffix of a suffix.                                                    *)
LEMMA FromFrom ==
  ASSUME NEW S, NEW t \in Seq(S), NEW p \in 1 .. Len(t) + 1, NEW left, left = From(t, p),
         NEW i \in 1 .. Len(left) + 1
  PROVE  /\ Len(left) = Len(t) + 1 - p /\ p + i - 1 \in 1 .. Len(t) + 1
         /\ From(left, i) = From(t, p + i - 1)
         /\ i <= Len(left) => p + i - 1 \in 1 .. Len(t) /\ left[i] = t[p + i - 1]
<1>1. /\ left \in Seq(S) /\ Len(left) = Len(t) + 1 - p /\ Len(t) \in Nat
      /\ \A k \in 1 .. Len(t) + 1 - p : left[k] = t[p + k - 1]
  BY SuffixIs
<1>2. p + i - 1 \in 1 .. Len(t) + 1 /\ p \in Nat /\ i \in Nat /\ (i <= Len(left) => p + i - 1 \in 1 .. Len(t))
  BY <1>1
<1>3. PICK a, b : a = From(left, i) /\ b = From(t, p + i - 1)
  OBVIOUS
<1>4. /\ a \in Seq(S) /\ Len(a) = Len(left) + 1 - i
      /\ \A k \in 1 .. Len(left) + 1 - i : a[k] = left[i + k - 1]
  BY <1>1, <1>3, SuffixIs
<1>5. /\ b \in Seq(S) /\ Len(b) = Len(t) + 1 - (p + i - 1)
      /\ \A k \in 1 .. Len(t) + 1 - (p + i - 1) : b[k] = t[(p + i - 1) + k - 1]
  BY <1>2, <1>3, SuffixIs
<1>l. /\ Len(t) \in Nat /\ p \in Nat /\ i \in Nat /\ Len(left) = Len(t) + 1 - p
      /\ Len(a) = Len(left) + 1 - i /\ Len(b) = Len(t) + 1 - (p + i - 1)
  BY <1>1, <1>2, <1>4, <1>5, SMT
<1>6. Len(a) = Len(b)
  BY ONLY <1>l
<1>7. ASSUME NEW k \in 1 .. Len(a)
      PROVE  a[k] = b[k]
  <2>1. /\ k \in 1 .. Len(left) + 1 - i /\ k \in 1 .. Len(t) + 1 - (p + i - 1)
        /\ i + k - 1 \in 1 .. Len(t) + 1 - p /\ p + (i + k - 1) - 1 = (p + i - 1) + k - 1
    BY ONLY <1>l, k \in 1 .. Len(a), i \in 1 .. Len(left) + 1
  <2> QED BY <1>1, <1>4, <1>5, <2>1
<1>8. a = b
  <2>1. a \in Seq(S) /\ b \in Seq(S)
    BY ONLY <1>4, <1>5, Zenon
  <2> QED BY ONLY <1>6, <1>7, <2>1
<1>9. i <= Len(left) => left[i] = t[p + i - 1]
  <2>1. i <= Len(left) => i \in 1 .. Len(t) + 1 - p
    BY ONLY <1>l, i \in 1 .. Len(left) + 1
  <2> QED BY <1>1, <2>1, Zenon
<1> QED BY <1>1, <1>2, <1>3, <1>8, <1>9

(* The special token that is found at a place is the longest there.         *)
LEMMA AtIsLongest ==
  ASSUME VocabTexts, OrderOK(vocab), SpecialsApart, NEW t \in Seq(STRING),
         NEW p \in 1 .. Len(t) + 1, NEW left, left = From(t, p), NEW i \in 1 .. Len(left)
  PROVE  /\ SpecialAt(left, i) # 0 =>
              /\ vocab.specials[SpecialAt(left, i)] = LongestAt(t, p + i - 1)
              /\ LongestAt(t, p + i - 1) \in SpecialPieces
              /\ \E id \in SpecialPieces : IsAt(t, p + i - 1, id)
         /\ SpecialAt(left, i) = 0 => \A id \in SpecialPieces : ~IsAt(t, p + i - 1, id)
<1> DEFINE q == p + i - 1
<1>1. /\ left \in Seq(STRING) /\ q \in 1 .. Len(t) /\ From(left, i) = From(t, q) /\ left[i] = t[q]
      /\ From(t, q) \in Seq(STRING) /\ From(t, q)[1] = t[q]
  <2>1. left \in Seq(STRING) /\ i \in 1 .. Len(left) + 1 /\ i <= Len(left) /\ Len(t) \in Nat
    <3>1. left \in Seq(STRING)
      BY SuffixIs
    <3> QED BY <3>1
  <2>2. q \in 1 .. Len(t) /\ From(left, i) = From(t, q) /\ left[i] = t[q]
    BY <2>1, FromFrom
  <2> HIDE DEF q
  <2>3. q \in 1 .. Len(t) + 1 /\ 1 \in 1 .. Len(t) + 1 - q /\ q + 1 - 1 = q
    BY <2>1, <2>2
  <2>4. From(t, q) \in Seq(STRING) /\ \A k \in 1 .. Len(t) + 1 - q : From(t, q)[k] = t[q + k - 1]
    BY <2>3, SuffixIs
  <2> QED BY <2>1, <2>2, <2>3, <2>4
<1> HIDE DEF q
<1>2. /\ vocab.specials \in Seq(Known) /\ Range(vocab.specials) = SpecialPieces
      /\ \A j, k \in 1 .. Len(vocab.specials) :
           j < k => Len(vocab.pieces[vocab.specials[j]]) >= Len(vocab.pieces[vocab.specials[k]])
  BY DEF OrderOK, Known, SpecialPieces
<1>3. \A id \in SpecialPieces : \E k \in 1 .. Len(vocab.specials) : id = vocab.specials[k]
  BY <1>2 DEF Range
<1>4. \A k \in 1 .. Len(vocab.specials) : vocab.specials[k] \in SpecialPieces
  BY <1>2 DEF Range
<1>5. ASSUME NEW id \in SpecialPieces, IsAt(t, q, id)
      PROVE  left[i] = "<"
  <2>1. PICK piece \in Seq(STRING) : piece = vocab.pieces[id]
    BY SpecialsKnown
  <2>2. PICK back \in Seq(STRING) : back = From(t, q)
    BY <1>1
  <2>3. Len(piece) <= Len(back) /\ SubSeq(piece, 1, Len(piece)) = SubSeq(back, 1, Len(piece))
    BY <1>5, <2>1, <2>2 DEF IsAt, IsPrefix
  <2>4. piece[1] = "<" /\ Len(piece) > 1
    BY <2>1 DEF SpecialsApart
  <2>5. SubSeq(piece, 1, Len(piece))[1] = piece[1] /\ SubSeq(back, 1, Len(piece))[1] = back[1]
    BY <2>3, <2>4
  <2> QED BY <1>1, <2>2, <2>3, <2>4, <2>5
<1>6. PICK n : n = SpecialAt(left, i)
  OBVIOUS
<1>7. /\ n # 0 => /\ n \in 1 .. Len(vocab.specials) /\ IsAt(t, q, vocab.specials[n])
                  /\ \A k \in 1 .. Len(vocab.specials) : IsAt(t, q, vocab.specials[k]) => n <= k
      /\ n = 0 /\ left[i] = "<" => \A k \in 1 .. Len(vocab.specials) : ~IsAt(t, q, vocab.specials[k])
  BY <1>1, <1>2, <1>6, SpecialAtIs DEF IsAt
<1>8. ASSUME n # 0
      PROVE  /\ vocab.specials[n] = LongestAt(t, q) /\ vocab.specials[n] \in SpecialPieces
             /\ IsAt(t, q, vocab.specials[n])
  <2>1. PICK id : id = vocab.specials[n]
    OBVIOUS
  <2>2. id \in SpecialPieces /\ IsAt(t, q, id)
    BY <1>4, <1>7, <1>8, <2>1
  <2>3. ASSUME NEW other \in SpecialPieces, IsAt(t, q, other)
        PROVE  Len(vocab.pieces[other]) <= Len(vocab.pieces[id])
    <3>1. PICK k \in 1 .. Len(vocab.specials) : other = vocab.specials[k]
      BY <1>3
    <3>2. n \in 1 .. Len(vocab.specials) /\ n <= k
      BY <1>7, <1>8, <2>3, <3>1
    <3>3. Len(vocab.pieces[id]) \in Nat /\ Len(vocab.pieces[other]) \in Nat
      BY <2>2, SpecialsKnown
    <3>4. CASE n = k
      BY <2>1, <3>1, <3>3, <3>4
    <3>5. CASE n # k
      <4>1. n < k
        BY <3>2, <3>5
      <4>2. Len(vocab.pieces[vocab.specials[n]]) >= Len(vocab.pieces[vocab.specials[k]])
        BY <1>2, <3>2, <4>1
      <4> QED BY <2>1, <3>1, <3>3, <4>2
    <3> QED BY <3>4, <3>5
  <2>4. LongestAt(t, q) = id
    BY <1>1, <2>2, <2>3, LongestIs
  <2> QED BY <2>1, <2>2, <2>4
<1>9. ASSUME n = 0, NEW id \in SpecialPieces, IsAt(t, q, id)
      PROVE  FALSE
  BY <1>3, <1>5, <1>7, <1>9
<1> QED BY <1>6, <1>8, <1>9 DEF q

(* What the encoder holds, as values.                                       *)
SpecialsLeft(got, left) ==
  \E g : /\ Finding(g, job.text) /\ SpecialsOf(job.text) = g[1]
         /\ \E p \in 1 .. Len(job.text) + 1 : left = From(job.text, p) /\ got \o g[p] = SpecialsOf(job.text)

Carried(sofar, word, behind, left, mode) ==
  /\ sofar \in Seq(Known) /\ word \in Seq(Plain)
  /\ behind = <<>> \/ \E id \in Known : behind = <<id>>
  /\ mode = "match" => SpecialsLeft(SpecialsIn(sofar \o behind), left)
  /\ mode # "match" => behind = <<>> /\ SpecialsIn(sofar) = <<>>

SpecialInv ==
  ~Rejected /\ SpecialsApart =>
    /\ syms = <<>> => found = <<>>
    /\ \E sofar, word, behind, left :
         /\ sofar = ids /\ word = Alive(syms) /\ behind = found /\ left = rest
         /\ Carried(sofar, word, behind, left, specials)

LEMMA CarriedStays ==
  ASSUME UNCHANGED <<job, built>>, NEW sofar, NEW word, NEW behind, NEW left, NEW mode,
         Carried(sofar, word, behind, left, mode)
  PROVE  Carried(sofar, word, behind, left, mode)'
<1>1. vocab' = vocab
  BY DEF vocab
<1>2. Known' = Known /\ SpecialPieces' = SpecialPieces /\ Plain' = Plain
  BY <1>1 DEF Known, SpecialPieces, Plain
<1>3. ASSUME NEW w
      PROVE  SpecialsIn(w)' = SpecialsIn(w)
  BY <1>2 DEF SpecialsIn
<1>5. ASSUME NEW t
      PROVE  SpecialsOf(t)' = SpecialsOf(t)
  BY <1>1, <1>2 DEF SpecialsOf, LongestAt, IsAt
<1>6. ASSUME NEW g, NEW t, Finding(g, t)
      PROVE  Finding(g, t)'
  <2>1. g \in [1 .. Len(t) + 1 -> Seq(Known')] /\ g[Len(t) + 1] = <<>>
    BY <1>2, <1>6 DEF Finding
  <2>2. ASSUME NEW i \in 1 .. Len(t)
        PROVE  /\ (\E id \in SpecialPieces' : IsAt(t, i, id)') =>
                    /\ LongestAt(t, i)' \in SpecialPieces' /\ IsAt(t, i, LongestAt(t, i))'
                    /\ i + Len(vocab'.pieces[LongestAt(t, i)']) \in 1 .. Len(t) + 1
                    /\ g[i] = <<LongestAt(t, i)'>> \o g[i + Len(vocab'.pieces[LongestAt(t, i)'])]
               /\ (\A id \in SpecialPieces' : ~IsAt(t, i, id)') => g[i] = g[i + 1]
    <3>1. LongestAt(t, i)' = LongestAt(t, i) /\ IsAt(t, i, LongestAt(t, i))' = IsAt(t, i, LongestAt(t, i))
      BY <1>1, <1>2 DEF LongestAt, IsAt
    <3>2. (\E id \in SpecialPieces' : IsAt(t, i, id)') <=> (\E id \in SpecialPieces : IsAt(t, i, id))
      BY <1>1, <1>2 DEF IsAt
    <3> QED BY <1>1, <1>2, <1>6, <3>1, <3>2 DEF Finding
  <2> QED BY <2>1, <2>2 DEF Finding
<1>7. job.text' = job.text
  OBVIOUS
<1>8. ASSUME NEW got, SpecialsLeft(got, left)
      PROVE  SpecialsLeft(got, left)'
  <2>1. PICK t : t = job.text
    OBVIOUS
  <2>2. PICK g : /\ Finding(g, t) /\ SpecialsOf(t) = g[1]
                 /\ \E p \in 1 .. Len(t) + 1 : left = From(t, p) /\ got \o g[p] = SpecialsOf(t)
    BY <1>8, <2>1 DEF SpecialsLeft
  <2>3. Finding(g, t)' /\ SpecialsOf(t)' = SpecialsOf(t) /\ job.text' = t
    BY <1>5, <1>6, <1>7, <2>1, <2>2
  <2> QED BY <2>2, <2>3 DEF SpecialsLeft
<1>9. mode = "match" => SpecialsLeft(SpecialsIn(sofar \o behind), left)'
  <2>1. PICK got : got = SpecialsIn(sofar \o behind)
    OBVIOUS
  <2> QED BY <1>3, <1>8, <2>1 DEF Carried
<1> QED BY <1>2, <1>3, <1>9 DEF Carried

LEMMA CarriedHolds ==
  ASSUME UNCHANGED <<job, built, specials>>, syms' = <<>> => found' = <<>>,
         NEW sofar, NEW word, NEW behind, NEW left, Carried(sofar, word, behind, left, specials),
         sofar = ids', word = Alive(syms)', behind = found', left = rest'
  PROVE  SpecialInv'
<1>1. PICK mode : mode = specials
  OBVIOUS
<1>2. Carried(sofar, word, behind, left, mode)'
  BY <1>1, CarriedStays
<1>3. specials' = mode
  BY <1>1
<1> QED BY <1>2, <1>3 DEF SpecialInv

(* The next segment is plain, and the special token behind it is the next.  *)
LEMMA SegmentSpecials ==
  ASSUME EncodeInv, ~Rejected, SpecialsApart, SpecialInv, syms = <<>>, UNCHANGED <<job, built, specials>>,
         NEW chars \in Seq(Range(job.text)), NEW special, special = <<>> \/ \E id \in Known : special = <<id>>,
         NEW left, Segment(chars, special, left),
         specials = "match" => SpecialsLeft(SpecialsIn(ids \o special), left),
         specials # "match" => special = <<>>
  PROVE  SpecialInv'
<1>1. VocabTexts /\ VocabOK(vocab, Range(job.text))
  BY VocabReads, VocabHolds DEF EncodeInv
<1>2. found = <<>> /\ Carried(ids, <<>>, <<>>, rest, specials)
  <2>1. Alive(syms) = <<>>
    BY EmptyList
  <2> QED BY <2>1 DEF SpecialInv
<1>3. ids \in Seq(Known) /\ special \in Seq(Known) /\ <<>> \in Seq(Plain)
  <2>1. ids \in Seq(Known)
    BY <1>2 DEF Carried
  <2>2. CASE special = <<>>
    BY <2>1, <2>2
  <2>3. CASE \E id \in Known : special = <<id>>
    BY <2>1, <2>3
  <2> QED BY <2>2, <2>3
<1>4. rest' = left
  BY DEF Segment
<1>5. CASE chars = <<>>
  <2>1. ids' = ids \o special /\ UNCHANGED <<found, syms>>
    BY <1>5 DEF Segment
  <2>2. PICK all : all = ids \o special
    OBVIOUS
  <2>3. all \in Seq(Known) /\ all \o <<>> = all
    BY <1>3, <2>2
  <2>4. specials # "match" => SpecialsIn(all) = <<>>
    <3>1. ids \o <<>> = ids
      BY <1>3
    <3> QED BY <1>2, <2>2, <3>1 DEF Carried
  <2>5. Carried(all, <<>>, <<>>, left, specials)
    BY <1>3, <2>2, <2>3, <2>4 DEF Carried
  <2>6. Alive(syms)' = <<>> /\ found' = <<>>
    BY <1>2, <2>1, EmptyList DEF Alive
  <2> QED BY <1>4, <2>1, <2>2, <2>5, <2>6, CarriedHolds
<1>6. CASE chars # <<>>
  <2>1. found' = special /\ syms' = Linked(InitialIds(chars)) /\ UNCHANGED ids
    BY <1>6 DEF Segment, StartSegment
  <2>2. InitialIds(chars) \in Seq(Plain) /\ InitialIds(chars) \in Seq(Nat) /\ InitialIds(chars) # <<>>
    BY <1>1, <1>6, InitialIdsPlain, InitialIdsType
  <2>3. Alive(syms') = InitialIds(chars)
    BY <2>1, <2>2, AliveLinked
  <2>4. Alive(syms)' = InitialIds(chars)
    BY <2>3 DEF Alive
  <2>5. Carried(ids, InitialIds(chars), special, left, specials)
    BY <1>2, <1>3, <2>2 DEF Carried
  <2>6. syms' # <<>>
    BY <2>2, <2>3, EmptyList
  <2> QED BY <1>4, <2>1, <2>4, <2>5, <2>6, CarriedHolds
<1> QED BY <1>5, <1>6

LEMMA ScanSpecials ==
  ASSUME EncodeInv, ~Rejected, SpecialsApart, SpecialInv, Scan, UNCHANGED job
  PROVE  SpecialInv'
<1> DEFINE start == IF specials = "match" THEN FindSpecial(rest) ELSE 0
           id == vocab.specials[SpecialAt(rest, start)]
           letters == Range(job.text)
<1>1. /\ rest # <<>> /\ syms = <<>> /\ UNCHANGED <<job, built, specials>>
      /\ start = 0 => Segment(rest, <<>>, <<>>)
      /\ start # 0 => Segment(SubSeq(rest, 1, start - 1), <<id>>, From(rest, start + Len(vocab.pieces[id])))
  BY DEF Scan
<1>2. /\ rest \in Seq(letters) /\ VocabTexts /\ OrderOK(vocab) /\ job.text \in Seq(STRING)
  BY VocabReads, VocabHolds DEF EncodeInv, RestOK
<1>3. Carried(ids, <<>>, <<>>, rest, specials)
  <2>1. Alive(syms) = <<>> /\ found = <<>>
    BY <1>1, EmptyList DEF SpecialInv
  <2> QED BY <2>1 DEF SpecialInv
<1>4. ids \in Seq(Known) /\ ids \o <<>> = ids
  BY <1>3 DEF Carried
<1>5. CASE specials # "match"
  <2>1. Segment(rest, <<>>, <<>>)
    BY <1>1, <1>5
  <2> HIDE DEF start, id
  <2> QED BY <1>1, <1>2, <1>5, <2>1, SegmentSpecials
<1>6. CASE specials = "match"
  <2>1. SpecialsLeft(SpecialsIn(ids), rest) /\ start = FindSpecial(rest)
    BY <1>3, <1>4, <1>6 DEF Carried
  <2> HIDE DEF start
  <2>2. PICK t : t = job.text
    OBVIOUS
  <2>3. t \in Seq(STRING) /\ Len(t) \in Nat
    BY <1>2, <2>2
  <2>4. PICK g, p : /\ Finding(g, t) /\ SpecialsOf(t) = g[1] /\ p \in 1 .. Len(t) + 1
                    /\ rest = From(t, p) /\ SpecialsIn(ids) \o g[p] = SpecialsOf(t)
    BY <2>1, <2>2 DEF SpecialsLeft
  <2>5. Len(rest) = Len(t) + 1 - p /\ Len(rest) \in Nat
    <3>1. Len(From(t, p)) = Len(t) + 1 - p
      BY <2>3, <2>4, SuffixIs
    <3>2. Len(rest) = Len(t) + 1 - p
      BY <2>4, <3>1
    <3>3. Len(t) + 1 - p \in Nat
      BY <2>3, <2>4
    <3> QED BY <3>2, <3>3
  <2>6. /\ start \in 0 .. Len(rest)
        /\ start # 0 => /\ SpecialAt(rest, start) # 0
                        /\ \A i \in 1 .. start - 1 : SpecialAt(rest, i) = 0
        /\ start = 0 => \A i \in 1 .. Len(rest) : SpecialAt(rest, i) = 0
    BY <1>2, <2>1, FirstFound
  <2>7. \A i \in 1 .. Len(rest) :
          /\ SpecialAt(rest, i) # 0 =>
               /\ vocab.specials[SpecialAt(rest, i)] = LongestAt(t, p + i - 1)
               /\ LongestAt(t, p + i - 1) \in SpecialPieces
               /\ \E other \in SpecialPieces : IsAt(t, p + i - 1, other)
          /\ SpecialAt(rest, i) = 0 => \A other \in SpecialPieces : ~IsAt(t, p + i - 1, other)
    BY <1>2, <2>3, <2>4, AtIsLongest
  <2>8. CASE start = 0
    <3>1. ASSUME NEW k \in p .. (Len(t) + 1) - 1
          PROVE  \A other \in SpecialPieces : ~IsAt(t, k, other)
      <4>1. k - p + 1 \in 1 .. Len(rest) /\ p + (k - p + 1) - 1 = k
        <5>1. p \in Nat /\ Len(t) \in Nat
          BY <2>3, <2>4
        <5> QED BY ONLY <2>5, <5>1, k \in p .. (Len(t) + 1) - 1
      <4>2. SpecialAt(rest, k - p + 1) = 0
        BY ONLY <2>6, <2>8, <4>1
      <4>3. \A other \in SpecialPieces : ~IsAt(t, p + (k - p + 1) - 1, other)
        BY ONLY <2>7, <4>1, <4>2, Zenon
      <4> QED BY ONLY <4>1, <4>3
    <3>2. Len(t) + 1 \in 1 .. Len(t) + 1 /\ p <= Len(t) + 1
      BY <2>3, <2>4
    <3>3. g[Len(t) + 1] = g[p]
      BY ONLY <2>3, <2>4, <3>1, <3>2, NoneFound
    <3>4. From(t, Len(t) + 1) = <<>>
      <4>1. From(t, Len(t) + 1) \in Seq(STRING) /\ Len(From(t, Len(t) + 1)) = Len(t) + 1 - (Len(t) + 1)
        BY <2>3, <3>2, SuffixIs
      <4>2. PICK e : e = From(t, Len(t) + 1)
        OBVIOUS
      <4>3. e \in Seq(STRING) /\ Len(e) = 0
        BY <2>3, <4>1, <4>2
      <4> QED BY <4>2, <4>3
    <3>5. SpecialsLeft(SpecialsIn(ids), <<>>)
      BY <2>2, <2>4, <3>2, <3>3, <3>4 DEF SpecialsLeft
    <3>6. Segment(rest, <<>>, <<>>)
      BY <1>1, <2>8
    <3> HIDE DEF id
    <3> QED BY <1>1, <1>2, <1>4, <1>6, <3>5, <3>6, SegmentSpecials
  <2>9. CASE start # 0
    <3>1. start \in 1 .. Len(rest) /\ SpecialAt(rest, start) # 0
      BY <2>5, <2>6, <2>9
    <3>2. PICK q : q = p + start - 1
      OBVIOUS
    <3>3. q \in 1 .. Len(t) /\ q \in 1 .. Len(t) + 1 /\ p <= q /\ p \in 1 .. Len(t) + 1 /\ p \in Nat
      BY <2>3, <2>4, <2>5, <3>1, <3>2
    <3>4. ASSUME NEW k \in p .. q - 1
          PROVE  \A other \in SpecialPieces : ~IsAt(t, k, other)
      <4>1. k - p + 1 \in 1 .. start - 1 /\ k - p + 1 \in 1 .. Len(rest) /\ p + (k - p + 1) - 1 = k
        BY <2>3, <2>4, <2>5, <3>1, <3>2
      <4> QED BY <2>6, <2>7, <2>9, <4>1
    <3>5. g[q] = g[p]
      BY ONLY <2>3, <2>4, <3>3, <3>4, NoneFound
    <3>6. id = LongestAt(t, q) /\ id \in SpecialPieces /\ \E other \in SpecialPieces : IsAt(t, q, other)
      BY <2>7, <3>1, <3>2
    <3>7. Segment(SubSeq(rest, 1, start - 1), <<id>>, From(rest, start + Len(vocab.pieces[id])))
      BY <1>1, <2>9
    <3> HIDE DEF id
    <3>8. PICK n : n = Len(vocab.pieces[id])
      OBVIOUS
    <3>9. id \in Known /\ n \in Nat
      BY <1>2, <3>6, <3>8, SpecialsKnown
    <3>10. q + n \in 1 .. Len(t) + 1 /\ g[q] = <<id>> \o g[q + n]
      BY <2>4, <3>3, <3>6, <3>8 DEF Finding
    <3>11. start + n \in 1 .. Len(rest) + 1 /\ p + (start + n) - 1 = q + n
      BY <2>3, <2>4, <2>5, <3>1, <3>2, <3>3, <3>9, <3>10
    <3>12. From(rest, start + n) = From(t, q + n)
      BY <2>3, <2>4, <3>3, <3>11, FromFrom
    <3>13. SpecialsIn(ids \o <<id>>) = SpecialsIn(ids) \o <<id>> /\ SpecialsIn(ids) \in Seq(Known)
      BY <1>4, <3>6, <3>9, SpecialsInLonger DEF SpecialOf
    <3>14. SpecialsIn(ids \o <<id>>) \o g[q + n] = SpecialsOf(t)
      <4>1. PICK s, one, more : s = SpecialsIn(ids) /\ one = <<id>> /\ more = g[q + n]
        OBVIOUS
      <4>2. s \in Seq(Known) /\ one \in Seq(Known) /\ more \in Seq(Known)
        BY <2>4, <3>9, <3>10, <3>13, <4>1 DEF Finding
      <4>3. (s \o one) \o more = s \o (one \o more)
        <5>1. JoinsAgain(s, one, more)
          BY ONLY <4>2, JoinAgain
        <5> QED BY ONLY <5>1, Zenon DEF JoinsAgain
      <4> QED BY <2>4, <3>5, <3>10, <3>13, <4>1, <4>3
    <3>15. SpecialsLeft(SpecialsIn(ids \o <<id>>), From(rest, start + n))
      BY <2>2, <2>4, <3>10, <3>12, <3>14 DEF SpecialsLeft
    <3>16. SubSeq(rest, 1, start - 1) \in Seq(letters)
      BY <1>2, <3>1, Pieces
    <3>17. PICK front, special, left : /\ front = SubSeq(rest, 1, start - 1) /\ special = <<id>>
                                       /\ left = From(rest, start + n)
      OBVIOUS
    <3>18. front \in Seq(letters) /\ (special = <<>> \/ \E v \in Known : special = <<v>>)
      BY <3>9, <3>16, <3>17
    <3>19. Segment(front, special, left) /\ SpecialsLeft(SpecialsIn(ids \o special), left)
      BY <3>7, <3>8, <3>15, <3>17
    <3>20. syms = <<>> /\ UNCHANGED <<job, built, specials>>
      BY <1>1
    <3>21. specials # "match" => special = <<>>
      BY <1>6
    <3> QED BY <3>18, <3>19, <3>20, <3>21, SegmentSpecials
  <2> QED BY <2>8, <2>9
<1> QED BY <1>5, <1>6

LEMMA MergeSpecials ==
  ASSUME EncodeInv, ~Rejected, SpecialsApart, SpecialInv, PopMerge, UNCHANGED job
  PROVE  SpecialInv'
<1>1. Reference!Merge /\ UNCHANGED <<built, specials, found, ids, rest>>
  BY PopMergeStep DEF PopMerge
<1>2. PICK w : w = Alive(syms)
  OBVIOUS
<1>3. VocabTexts /\ Merges = vocab.merges
  BY VocabReads, VocabHolds DEF EncodeInv
<1>4. Carried(ids, w, found, rest, specials)
  BY <1>2 DEF SpecialInv
<1>5. w \in Seq(Plain)
  BY <1>4 DEF Carried
<1>6. PICK i \in Reference!Places(w) :
        Alive(syms)' = SubSeq(w, 1, i - 1) \o <<vocab.merges[Reference!Pair(w, i)][2]>> \o SubSeq(w, i + 2, Len(w))
  BY <1>1, <1>2, <1>3 DEF Reference!Merge
<1>7. PICK id : id = vocab.merges[Reference!Pair(w, i)][2]
  OBVIOUS
<1>8. i \in 1 .. Len(w) - 1 /\ Reference!Pair(w, i) \in DOMAIN vocab.merges
  BY <1>3, <1>6 DEF Reference!Places
<1>9. Alive(syms)' = Splice(w, i, id)
  BY <1>6, <1>7 DEF Splice
<1>10. id \in Plain
  BY <1>3, <1>7, <1>8 DEF VocabTexts, JoinsOK, Known, SpecialsApart, Plain
<1>11. Splice(w, i, id) \in Seq(Plain)
  BY <1>5, <1>8, <1>10, SplicePlain
<1>12. Carried(ids, Splice(w, i, id), found, rest, specials)
  BY <1>4, <1>11 DEF Carried
<1>13. syms' # <<>>
  <2>1. PICK s : s = Splice(w, i, id)
    OBVIOUS
  <2>2. s # <<>>
    <3>1. PICK a, b : a = SubSeq(w, 1, i - 1) /\ b = SubSeq(w, i + 2, Len(w))
      OBVIOUS
    <3>2. a \in Seq(Plain) /\ b \in Seq(Plain) /\ <<id>> \in Seq(Plain)
      BY <1>5, <1>8, <1>10, <3>1
    <3>3. a \o <<id>> \in Seq(Plain) /\ Len(a \o <<id>>) = Len(a) + 1 /\ Len(a) \in Nat
      BY <3>2
    <3>4. PICK c : c = a \o <<id>> /\ c \in Seq(Plain) /\ Len(c) >= 1
      <4>1. Len(a) + 1 >= 1
        BY <3>3
      <4> QED BY <3>3, <4>1
    <3>5. s = c \o b
      BY <2>1, <3>1, <3>4 DEF Splice
    <3>6. Len(s) = Len(c) + Len(b) /\ Len(b) \in Nat /\ Len(c) \in Nat
      BY <3>1, <3>2, <3>4, <3>5
    <3>7. Len(s) # 0
      BY <3>4, <3>6
    <3> QED BY <3>7
  <2>3. Alive(<<>>) = <<>> /\ Alive(syms)' = Alive(syms')
    BY EmptyList DEF Alive
  <2> QED BY <1>9, <2>1, <2>2, <2>3
<1> QED BY <1>1, <1>9, <1>12, <1>13, CarriedHolds

LEMMA EndSpecials ==
  ASSUME EncodeInv, ~Rejected, SpecialsApart, SpecialInv, EndSegment, UNCHANGED job
  PROVE  SpecialInv'
<1>1. /\ ids' = ids \o Alive(syms) \o found /\ syms' = <<>> /\ found' = <<>>
      /\ UNCHANGED <<job, built, specials, rest>>
  BY DEF EndSegment
<1>2. PICK w, s : w = Alive(syms) /\ s = ids \o w
  OBVIOUS
<1>3. Carried(ids, w, found, rest, specials)
  BY <1>2 DEF SpecialInv
<1>4. ids \in Seq(Known) /\ w \in Seq(Plain) /\ w \in Seq(Known)
  <2>1. ids \in Seq(Known) /\ w \in Seq(Plain) /\ Plain \subseteq Known
    BY <1>3 DEF Carried, Plain
  <2> QED BY <2>1, Wider
<1>5. s \in Seq(Known) /\ SpecialsIn(s) = SpecialsIn(ids)
  BY <1>2, <1>4, PlainAddsNone
<1>6. PICK all : all = s \o found
  OBVIOUS
<1>7. ids' = all
  BY <1>1, <1>2, <1>6
<1>8. all \in Seq(Known) /\ SpecialsIn(all) = SpecialsIn(ids \o found)
  <2>1. CASE found = <<>>
    <3>1. s \o <<>> = s /\ ids \o <<>> = ids
      BY <1>4, <1>5
    <3> QED BY <1>5, <1>6, <2>1, <3>1
  <2>2. CASE found # <<>>
    <3>1. PICK id \in Known : found = <<id>>
      BY <1>3, <2>2 DEF Carried
    <3>2. SpecialsIn(s \o <<id>>) = SpecialsIn(s) \o SpecialOf(id)
      BY <1>5, SpecialsInLonger
    <3>3. SpecialsIn(ids \o <<id>>) = SpecialsIn(ids) \o SpecialOf(id)
      BY <1>4, SpecialsInLonger
    <3>4. <<id>> \in Seq(Known)
      OBVIOUS
    <3>5. s \o <<id>> \in Seq(Known)
      BY <1>5, <3>4
    <3> QED BY <1>5, <1>6, <3>1, <3>2, <3>3, <3>5
  <2> QED BY <2>1, <2>2
<1>9. all \o <<>> = all /\ <<>> \in Seq(Plain)
  BY <1>8
<1>10. specials # "match" => SpecialsIn(all) = <<>>
  <2>1. ids \o <<>> = ids
    BY <1>4
  <2> QED BY <1>3, <1>8, <2>1 DEF Carried
<1>11. Carried(all, <<>>, <<>>, rest, specials)
  BY <1>3, <1>8, <1>9, <1>10 DEF Carried
<1>12. Alive(syms)' = <<>>
  BY <1>1, EmptyList DEF Alive
<1> QED BY <1>1, <1>7, <1>11, <1>12, CarriedHolds

LEMMA SpecialStarts ==
  ASSUME Init
  PROVE  SpecialInv
<1>1. rest = job.text /\ found = <<>> /\ syms = <<>> /\ ids = <<>> /\ Alive(syms) = <<>>
  BY EmptyList DEF Init, EncodeInit
<1>2. ASSUME ~Rejected, SpecialsApart
      PROVE  Carried(<<>>, <<>>, <<>>, rest, specials)
  <2>1. BuiltOK
    BY EncodeStarts DEF EncodeInv
  <2>2. VocabTexts
    BY <1>2, <2>1, VocabReads
  <2>3. PICK t : t = job.text
    OBVIOUS
  <2>4. t \in Seq(STRING) /\ Len(t) \in Nat
    <3>1. t \in Seq(STRING)
      BY <1>2, <2>1, <2>3, VocabHolds
    <3> QED BY <3>1
  <2>5. <<>> \o <<>> = <<>> /\ SpecialsIn(<<>>) = <<>>
    BY SpecialsInNothing
  <2>6. SpecialsLeft(<<>>, rest)
    <3>1. PICK g : Finding(g, t) /\ SpecialsOf(t) = g[1]
      BY <1>2, <2>2, <2>4, FindingExists
    <3>2. 1 \in 1 .. Len(t) + 1
      BY <2>4
    <3>3. From(t, 1) = t
      BY <2>4 DEF From
    <3>4. <<>> \o g[1] = g[1]
      <4>1. g[1] \in Seq(Known)
        BY <3>1, <3>2 DEF Finding
      <4> QED BY <4>1
    <3> QED BY <1>1, <2>3, <3>1, <3>2, <3>3, <3>4 DEF SpecialsLeft
  <2>7. <<>> \in Seq(Known) /\ <<>> \in Seq(Plain)
    OBVIOUS
  <2> QED BY <2>5, <2>6, <2>7 DEF Carried
<1> QED BY <1>1, <1>2 DEF SpecialInv

LEMMA SpecialMoves ==
  ASSUME EncodeInv, SpecialInv, [Next]_vars
  PROVE  SpecialInv'
<1>1. CASE UNCHANGED <<job, built, specials, rest, found, syms, ids>>
  <2>1. ~Rejected' /\ SpecialsApart' => ~Rejected /\ SpecialsApart
    BY <1>1 DEF Rejected, SpecialsApart, SpecialPieces, vocab
  <2>2. SUFFICES ASSUME ~Rejected /\ SpecialsApart
                 PROVE  SpecialInv'
    BY <2>1 DEF SpecialInv
  <2>3. PICK sofar, word, behind, left :
          /\ sofar = ids /\ word = Alive(syms) /\ behind = found /\ left = rest
          /\ Carried(sofar, word, behind, left, specials)
    BY <2>2 DEF SpecialInv
  <2>4. Alive(syms)' = Alive(syms)
    BY <1>1 DEF Alive
  <2>5. syms' = <<>> => found' = <<>>
    BY <1>1, <2>2 DEF SpecialInv
  <2>6. sofar = ids' /\ word = Alive(syms)' /\ behind = found' /\ left = rest'
    BY <1>1, <2>3, <2>4
  <2> QED BY <1>1, <2>3, <2>5, <2>6, CarriedHolds
<1>2. CASE Encode
  <2>1. ~Rejected /\ EncodeStep /\ UNCHANGED job
    BY <1>2 DEF Encode
  <2>2. built' = built
    BY <2>1 DEF EncodeStep, Scan, PopStale, PopMerge, EndSegment
  <2>3. SUFFICES ASSUME SpecialsApart
                 PROVE  SpecialInv'
    BY <2>2 DEF SpecialInv, SpecialsApart, SpecialPieces, vocab
  <2>4. CASE Scan
    BY <2>1, <2>3, <2>4, ScanSpecials
  <2>5. CASE PopStale
    BY <1>1, <2>1, <2>5 DEF PopStale
  <2>6. CASE PopMerge
    BY <2>1, <2>3, <2>6, MergeSpecials
  <2>7. CASE EndSegment
    BY <2>1, <2>3, <2>7, EndSpecials
  <2> QED BY <2>1, <2>4, <2>5, <2>6, <2>7 DEF EncodeStep
<1>3. CASE Generate
  BY <1>1, <1>3 DEF Generate, encodeVars
<1>4. CASE Evaluate
  BY <1>1, <1>4 DEF Evaluate, encodeVars
<1>5. CASE UNCHANGED vars
  BY <1>1, <1>5 DEF vars, encodeVars
<1> QED BY <1>2, <1>3, <1>4, <1>5 DEF Next

LEMMA MatchedIsThere ==
  ASSUME EncodeInv, SpecialInv
  PROVE  SpecialsApart => SpecialsMatched
<1>1. SUFFICES ASSUME SpecialsApart, ~Rejected, Encoded
               PROVE  SpecialsIn(ids) = IF specials = "match" THEN SpecialsOf(job.text) ELSE <<>>
  BY DEF SpecialsMatched
<1>2. rest = <<>> /\ syms = <<>>
  BY <1>1 DEF Encoded
<1>3. found = <<>> /\ Carried(ids, Alive(syms), <<>>, rest, specials)
  BY <1>1, <1>2 DEF SpecialInv
<1>4. PICK w : w = ids
  OBVIOUS
<1>5. w \in Seq(Known) /\ w \o <<>> = w
  <2>1. w \in Seq(Known)
    BY <1>3, <1>4 DEF Carried
  <2> QED BY <2>1
<1>6. CASE specials # "match"
  BY <1>3, <1>6 DEF Carried
<1>7. CASE specials = "match"
  <2>1. SpecialsLeft(SpecialsIn(w), rest)
    BY <1>3, <1>4, <1>5, <1>7 DEF Carried
  <2>2. PICK t : t = job.text
    OBVIOUS
  <2>3. t \in Seq(STRING) /\ Len(t) \in Nat
    <3>1. t \in Seq(STRING)
      BY <1>1, <2>2, VocabHolds DEF EncodeInv
    <3> QED BY <3>1
  <2>4. PICK g, p : /\ Finding(g, t) /\ SpecialsOf(t) = g[1] /\ p \in 1 .. Len(t) + 1
                    /\ rest = From(t, p) /\ SpecialsIn(w) \o g[p] = SpecialsOf(t)
    BY <2>1, <2>2 DEF SpecialsLeft
  <2>5. p = Len(t) + 1
    <3>1. Len(From(t, p)) = Len(t) + 1 - p
      BY <2>3, <2>4, SuffixIs
    <3>2. Len(rest) = 0
      BY <1>2
    <3>3. Len(t) + 1 - p = 0
      BY <2>4, <3>1, <3>2
    <3> QED BY <2>3, <2>4, <3>3
  <2>6. g[p] = <<>>
    BY <2>4, <2>5 DEF Finding
  <2>7. SpecialsIn(w) \in Seq(Known)
    BY <1>5, AllSpecials
  <2>8. SpecialsIn(w) \o <<>> = SpecialsIn(w)
    <3>1. PICK s \in Seq(Known) : s = SpecialsIn(w)
      BY <2>7
    <3>2. s \o <<>> = s
      OBVIOUS
    <3> QED BY <3>1, <3>2
  <2> QED BY <1>4, <1>7, <2>2, <2>4, <2>6, <2>8
<1> QED BY <1>6, <1>7

(***************************************************************************)
(* The special tokens of the ids are the ones of the text, the longest at  *)
(* each place, no more and no fewer; told to ignore them, encode yields    *)
(* none. For every file whose special tokens are written "<..." and whose  *)
(* merges yield none of them (encode, special_at, find_special).           *)
(***************************************************************************)
THEOREM SpecialsAreMatched == Spec => [](SpecialsApart => SpecialsMatched)
<1>1. Init => SpecialInv
  BY SpecialStarts
<1>2. EncodeInv /\ SpecialInv /\ [Next]_vars => SpecialInv'
  BY SpecialMoves
<1>3. EncodeInv /\ SpecialInv => (SpecialsApart => SpecialsMatched)
  BY MatchedIsThere
<1> QED BY <1>1, <1>2, <1>3, EncodeInvariant, PTL DEF Spec
=============================================================================
