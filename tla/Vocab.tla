------------------------------- MODULE Vocab -------------------------------
(***************************************************************************)
(* sg-tokenizer/src/vocab.rs: the tables of the tokenizer, built from the  *)
(* metadata of a file.                                                     *)
(*                                                                         *)
(* A piece or a text is a sequence of characters.  Hex gives the byte that *)
(* two hexadecimal digits spell; several spellings may give one byte.  The *)
(* bytes are those of Utf8Stream and the ASCII characters, which stand for *)
(* themselves.  Token ids count from 0, as in the file.                    *)
(***************************************************************************)
EXTENDS Utf8Stream, SequencesExt

CONSTANT Hex     \* the byte of every spelling of two hexadecimal digits

ASSUME HexAssumption == Hex \in [DOMAIN Hex -> STRING]

Byte == Range(Hex)
Space == " "
Block == "U+2581"         \* the piece character for a space
TokenTypes == <<"undefined", "normal", "unknown", "control", "userdefined", "unused", "byte">>

(* The metadata: a typed value for some of the keys.                       *)
Is(meta, key, type) == key \in DOMAIN meta /\ meta[key].is = type

TypeOf(meta, id) == TokenTypes[meta["token_type"].of[id + 1] + 1]
PieceOf(meta, id) == meta["tokens"].of[id + 1]
Ids(meta) == 0 .. Len(meta["tokens"].of) - 1
IdOf(meta, piece) == {id \in Ids(meta) : PieceOf(meta, id) = piece}

(* parse_byte_piece: the byte of a piece <0xXX>.                           *)
IsBytePiece(piece) ==
    Len(piece) = 3 /\ piece[1] = "<0x" /\ piece[2] \in DOMAIN Hex /\ piece[3] = ">"

BytesOfType(meta) == {id \in Ids(meta) : TypeOf(meta, id) = "byte"}
ByteOf(meta, id) == Hex[PieceOf(meta, id)[2]]

(* A merge entry is two pieces with a space between them.                  *)
SplitAt(entry) == SelectInSeq(entry, LAMBDA c : c = Space)
LeftOf(entry) == SubSeq(entry, 1, SplitAt(entry) - 1)
RightOf(entry) == SubSeq(entry, SplitAt(entry) + 1, Len(entry))
BadMerge(entry) ==
    \/ SplitAt(entry) \in {0, 1, Len(entry)}
    \/ Space \in Range(RightOf(entry))
MissesPiece(meta, entry) ==
    \E piece \in {LeftOf(entry), RightOf(entry), LeftOf(entry) \o RightOf(entry)} :
       IdOf(meta, piece) = {}

(* The named special tokens: the key of the id, and the piece expected.    *)
Named == [bos |-> <<"<", "bos>">>, eos |-> <<"<", "eos>">>,
          pad |-> <<"<", "pad>">>, unk |-> <<"<", "unk>">>]
EotPiece == <<"<", "turn|>">>

-----------------------------------------------------------------------------
(* from_metadata, check by check.                                          *)

(* One of the two flags: it need not be there, and must not be set.        *)
FlagError(meta, key) ==
    IF key \notin DOMAIN meta THEN "none"
    ELSE IF meta[key].is # "bool" THEN "Meta"
    ELSE IF meta[key].of THEN "UnsupportedFlag" ELSE "none"

HeaderError(meta) ==
    IF ~Is(meta, "model", "str") THEN "Meta"
    ELSE IF meta["model"].of # "gemma4" THEN "WrongModel"
    ELSE IF FlagError(meta, "add_bos") # "none" THEN FlagError(meta, "add_bos")
    ELSE IF FlagError(meta, "add_prefix") # "none" THEN FlagError(meta, "add_prefix")
    ELSE IF ~(Is(meta, "tokens", "strs") /\ Is(meta, "scores", "f32s") /\ Is(meta, "token_type", "i32s"))
         THEN "Meta"
    ELSE IF Cardinality({Len(meta[key].of) : key \in {"tokens", "scores", "token_type"}}) # 1
         THEN "ArrayLengths"
    ELSE "none"

TokenError(meta, id) ==
    IF meta["token_type"].of[id + 1] \notin 0 .. 6 THEN "BadTokenType"
    ELSE IF \E other \in 0 .. id - 1 : PieceOf(meta, other) = PieceOf(meta, id) THEN "DuplicatePiece"
    ELSE IF TypeOf(meta, id) = "byte" /\ ~IsBytePiece(PieceOf(meta, id)) THEN "BadByteToken"
    ELSE "none"

ByteTableError(meta) ==
    IF \/ Cardinality(BytesOfType(meta)) # Cardinality(Byte)
       \/ {ByteOf(meta, id) : id \in BytesOfType(meta)} # Byte
    THEN "IncompleteByteTable" ELSE "none"

MergeError(meta, entry) ==
    IF BadMerge(entry) THEN "BadMergeFormat"
    ELSE IF MissesPiece(meta, entry) THEN "MergePieceMissing" ELSE "none"

SpecialIdError(meta, key) ==
    IF ~Is(meta, key, "uint") THEN "Meta"
    ELSE IF meta[key].of \notin Ids(meta) THEN "IdOutOfRange"
    ELSE IF PieceOf(meta, meta[key].of) # Named[key] THEN "SpecialIdMismatch" ELSE "none"

FirstError(errors) ==
    LET at == SelectInSeq(errors, LAMBDA e : e # "none")
    IN IF at = 0 THEN "none" ELSE errors[at]

TokensError(meta) == FirstError([i \in 1 .. Len(meta["tokens"].of) |-> TokenError(meta, i - 1)])

VocabError(meta) ==
    IF HeaderError(meta) # "none" THEN HeaderError(meta)
    ELSE IF TokensError(meta) # "none" THEN TokensError(meta)
    ELSE IF ByteTableError(meta) # "none" THEN ByteTableError(meta)
    ELSE IF ~Is(meta, "merges", "strs") THEN "Meta"
    ELSE FirstError([i \in DOMAIN meta["merges"].of |-> MergeError(meta, meta["merges"].of[i])]
                    \o <<SpecialIdError(meta, "bos"), SpecialIdError(meta, "eos"),
                         SpecialIdError(meta, "pad"), SpecialIdError(meta, "unk"),
                         IF IdOf(meta, EotPiece) = {} THEN "SpecialIdMismatch" ELSE "none">>)

(* Control and user-defined tokens.                                        *)
SpecialIds(meta) == {id \in Ids(meta) : TypeOf(meta, id) \in {"control", "userdefined"}}

(* Mutant: they stay in the order of their ids.                            *)
PrecedesById(meta, a, b) == a < b

(* The longest piece comes first, of several the lowest id.                *)
Precedes(meta, a, b) ==
    \/ Len(PieceOf(meta, a)) > Len(PieceOf(meta, b))
    \/ Len(PieceOf(meta, a)) = Len(PieceOf(meta, b)) /\ a < b

Specials(meta) ==
    LET before(id) == {other \in SpecialIds(meta) : Precedes(meta, other, id)}
    IN [i \in 1 .. Cardinality(SpecialIds(meta)) |->
          CHOOSE id \in SpecialIds(meta) : Cardinality(before(id)) = i - 1]

TheId(meta, piece) == CHOOSE id \in Ids(meta) : PieceOf(meta, id) = piece

(* The tables that an accepted file gives.  Of two entries for one pair    *)
(* the later one counts; a rank is an index of the merge list.             *)
Tables(meta) ==
    LET list == meta["merges"].of
        pair(i) == <<TheId(meta, LeftOf(list[i])), TheId(meta, RightOf(list[i]))>>
        rank(p) == SelectLastInSeq([i \in DOMAIN list |-> pair(i)], LAMBDA q : q = p)
    IN [pieces |-> [id \in Ids(meta) |-> PieceOf(meta, id)],
        ids |-> [piece \in Range(meta["tokens"].of) |-> TheId(meta, piece)],
        types |-> [id \in Ids(meta) |-> TypeOf(meta, id)],
        byteToId |-> [b \in Byte |-> CHOOSE id \in BytesOfType(meta) : ByteOf(meta, id) = b],
        idToByte |-> [id \in BytesOfType(meta) |-> ByteOf(meta, id)],
        specials |-> Specials(meta),
        merges |-> [p \in {pair(i) : i \in DOMAIN list} |->
                      <<rank(p) - 1, TheId(meta, LeftOf(list[rank(p)]) \o RightOf(list[rank(p)]))>>],
        eos |-> meta["eos"].of, eot |-> TheId(meta, EotPiece)]

FromMetadata(meta) ==
    IF VocabError(meta) # "none" THEN [error |-> VocabError(meta)]
    ELSE [error |-> "none", tables |-> Tables(meta)]
=============================================================================
