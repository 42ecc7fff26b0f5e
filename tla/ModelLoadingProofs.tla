------------------------- MODULE ModelLoadingProofs -------------------------
(***************************************************************************)
(* Loading a model, for every set of files and every size of model: what   *)
(* is accepted fits the file, what is valid is uploaded, and what reaches  *)
(* the device is what the file says.  First the direct loader, for every   *)
(* block and chunk size, every section, every destination and every        *)
(* outcome of the reads.                                                   *)
(***************************************************************************)
EXTENDS ModelLoading, SequenceLemmas, TLAPS

-----------------------------------------------------------------------------
(* The direct loader: its inductive invariant.                              *)

LoadTypeOK ==
    /\ section \in Section
    /\ size \in Nat /\ addr \in Nat /\ offset \in Nat /\ done \in Nat
    /\ whole \in BOOLEAN
    /\ pc \in {"idle", "open", "chunk", "read", "ok", "error"}
    /\ dst \in [DOMAIN dst -> Int] /\ DOMAIN dst \subseteq Nat
    /\ bounce \in [DOMAIN bounce -> Int]
    /\ pc # "idle" => DOMAIN bounce = 0 .. Chunk - 1

(* No byte of the destination is wrong.                                     *)
NeverWrong == \A i \in DOMAIN dst : dst[i] \in {Unset, Start + i}

(* While the loop runs, everything before the chunk is there.               *)
CopiedSoFar ==
    pc \in {"chunk", "read"} =>
      /\ DOMAIN dst = 0 .. Size - 1
      /\ \A i \in 0 .. Size - 1 : Start + i < offset => dst[i] = Start + i

(* Within a chunk, what read_full has so far is where it was asked for.     *)
ReadSoFar ==
    pc = "read" =>
      /\ offset < End /\ done <= Want
      /\ Direct => \A i \in 0 .. Size - 1 :
                     DstPos <= i /\ i < DstPos + done => dst[i] = Start + i
      /\ ~Direct => \A j \in 0 .. done - 1 : bounce[j] = offset + j

AllThere ==
    Loaded => dst = [i \in 0 .. Size - 1 |-> Start + i]

LoadInv == LoadTypeOK /\ NeverWrong /\ CopiedSoFar /\ ReadSoFar /\ AllThere

(* The loop is at a multiple of the block, or at the end of the file.       *)
OffsetAligned ==
    whole /\ pc \in {"chunk", "read"} => offset % Block = 0 \/ offset >= size

DoneAligned ==
    whole /\ pc = "read" => done % Block = 0 \/ offset + done >= size

AlignInv == OffsetAligned /\ DoneAligned

-----------------------------------------------------------------------------
(* Arithmetic of blocks.                                                    *)

LEMMA DivModInt ==
  ASSUME NEW b \in Nat \ {0}, NEW x \in Int
  PROVE  /\ x \div b \in Int
         /\ x % b \in 0 .. b - 1
         /\ x = b * (x \div b) + (x % b)
  OBVIOUS

LEMMA MulGap ==
  ASSUME NEW b \in Nat, NEW i \in Int, NEW j \in Int, i < j
  PROVE  b * i + b <= b * j
  OBVIOUS

(* What is b times something leaves no remainder.                           *)
LEMMA MultipleMod ==
  ASSUME NEW b \in Nat \ {0}, NEW k \in Int
  PROVE  (b * k) % b = 0
<1> DEFINE x == b * k
<1>1. x \in Int
  OBVIOUS
<1>2. /\ x \div b \in Int /\ x % b \in 0 .. b - 1
      /\ x = b * (x \div b) + (x % b)
  BY <1>1, DivModInt
<1>3. x \div b = k
  <2>1. CASE x \div b < k
    BY <1>2, <2>1, MulGap
  <2>2. CASE k < x \div b
    BY <1>2, <2>2, MulGap
  <2> QED BY <2>1, <2>2, <1>2
<1> QED BY <1>2, <1>3

(* Sums and differences of multiples of the block are multiples.            *)
LEMMA SumMod ==
  ASSUME NEW b \in Nat \ {0}, NEW x \in Int, NEW y \in Int, x % b = 0, y % b = 0
  PROVE  (x + y) % b = 0 /\ (x - y) % b = 0
<1>1. /\ x \div b \in Int /\ x = b * (x \div b)
      /\ y \div b \in Int /\ y = b * (y \div b)
  BY DivModInt
<1>2. x + y = b * (x \div b + y \div b) /\ x - y = b * (x \div b - y \div b)
  BY <1>1
<1>3. x \div b + y \div b \in Int /\ x \div b - y \div b \in Int
  BY <1>1
<1> QED BY <1>2, <1>3, MultipleMod

(* The window of chunks begins at a block, not after the section.           *)
LEMMA AlignedStartFits ==
  ASSUME section \in Section
  PROVE  AlignedStart \in Nat /\ AlignedStart <= Start /\ AlignedStart % Block = 0
<1> DEFINE q == Start \div Block
<1>1. Start \in Nat /\ Block \in Nat \ {0}
  BY ChunkAssumption DEF Section, Start
<1>2. q \in Int /\ Start % Block \in 0 .. Block - 1 /\ Start = Block * q + (Start % Block)
  BY <1>1, DivModInt
<1>3. q \in Nat
  <2>1. SUFFICES ASSUME q < 0 PROVE FALSE
    BY <1>2
  <2>2. Block * q + Block <= Block * 0
    BY <1>1, <1>2, <2>1, MulGap
  <2> QED BY <1>1, <1>2, <2>2
<1>4. AlignedStart = Block * q
  BY <1>1, <1>2 DEF AlignedStart
<1>5. AlignedStart % Block = 0
  BY <1>1, <1>2, <1>4, MultipleMod
<1> HIDE DEF q
<1>6. Block * q \in Nat
  BY <1>1, <1>3
<1> QED BY <1>1, <1>2, <1>4, <1>5, <1>6

(* A read asks for whole blocks, at least up to the end of the section or   *)
(* the chunk.                                                               *)
LEMMA WantFits ==
  ASSUME section \in Section, offset \in Nat, offset < End
  PROVE  Want \in 1 .. Chunk /\ Want % Block = 0
<1> DEFINE n == End - offset
           q == (n + Block - 1) \div Block
<1>1. Block \in Nat \ {0} /\ Chunk \in Nat \ {0} /\ (Chunk % Block) = 0
  BY ChunkAssumption
<1>2. n \in Nat \ {0}
  BY DEF Section, End, Start, Size
<1> HIDE DEF n
<1>3. n + Block - 1 \in Int
  BY <1>1, <1>2
<1>4. q \in Int /\ (n + Block - 1) % Block \in 0 .. Block - 1
      /\ n + Block - 1 = Block * q + ((n + Block - 1) % Block)
  BY ONLY <1>1, <1>3, DivModInt DEF q
<1> HIDE DEF q
<1>5. /\ NextMultiple(n) = Block * q
      /\ Block * q \in Int /\ n <= Block * q /\ (Block * q) % Block = 0
  <2>1. NextMultiple(n) = Block * q
    BY <1>1, <1>4 DEF NextMultiple, q
  <2>2. Block * q \in Int /\ (Block * q) % Block = 0
    BY <1>1, <1>4, MultipleMod
  <2> QED BY <1>1, <1>2, <1>4, <2>1, <2>2
<1>6. Want = Smaller(Chunk, NextMultiple(n))
  BY DEF Want, n
<1> QED BY <1>1, <1>2, <1>5, <1>6 DEF Smaller

-----------------------------------------------------------------------------
(* The steps keep the invariant.                                            *)

LEMMA LoadInvInit == LoadInit => LoadInv
<1> SUFFICES ASSUME LoadInit PROVE LoadInv
  OBVIOUS
<1> USE DEF LoadInit
<1>1. section \in Section
  BY DEF Section
<1>2. whole \in BOOLEAN
  OBVIOUS
<1>3. LoadTypeOK
  BY <1>1, <1>2, ChunkAssumption DEF LoadTypeOK, Fresh, Unset
<1> QED BY <1>3 DEF LoadInv, NeverWrong, CopiedSoFar, ReadSoFar, AllThere, Loaded, Fresh, Unset

LEMMA LoadInvNew ==
  ASSUME LoadInv, section' \in Section, NewSource(section')
  PROVE  LoadInv'
<1> USE DEF NewSource
<1>1. size' \in Nat
  <2>1. PICK lost \in Lost : lost <= (section').start + (section').len
                             /\ size' = (section').start + (section').len - lost
    OBVIOUS
  <2> QED BY <2>1, ChunkAssumption DEF Section
<1>2. /\ dst' \in [DOMAIN dst' -> Int] /\ DOMAIN dst' \subseteq Nat
      /\ \A i \in DOMAIN dst' : dst'[i] = Unset
  <2>1. PICK surplus \in Surplus : dst' = Fresh((section').len + surplus)
    OBVIOUS
  <2> QED BY <2>1, ChunkAssumption DEF Fresh, Unset
<1>3. bounce' \in [DOMAIN bounce' -> Int] /\ DOMAIN bounce' = 0 .. Chunk - 1
  BY ChunkAssumption DEF Fresh, Unset
<1>4. addr' \in Nat
  BY ChunkAssumption
<1>5. whole' \in BOOLEAN
  OBVIOUS
<1>6. LoadTypeOK'
  BY <1>1, <1>2, <1>3, <1>4, <1>5 DEF LoadInv, LoadTypeOK
<1> QED BY <1>2, <1>6 DEF LoadInv, NeverWrong, CopiedSoFar, ReadSoFar, AllThere, Loaded

(* What the steps of a load leave alone.                                    *)
LEMMA WholeKept ==
  ASSUME LoadInv, UNCHANGED fileVars
  PROVE  /\ section' \in Section /\ size' \in Nat /\ addr' \in Nat /\ whole' \in BOOLEAN
         /\ Start' = Start /\ Size' = Size /\ End' = End /\ AlignedStart' = AlignedStart
         /\ section' = section /\ addr' = addr
  BY DEF LoadInv, LoadTypeOK, fileVars, Start, Size, End, AlignedStart

LEMMA StartIsNat ==
  ASSUME section \in Section
  PROVE  Start \in Nat /\ Size \in Nat /\ End = Start + Size
  BY DEF Section, Start, Size, End

LEMMA LoadInvOpen == ASSUME LoadInv, Open PROVE LoadInv'
<1>1. /\ section \in Section /\ Start \in Nat /\ Size \in Nat
      /\ AlignedStart \in Nat /\ AlignedStart <= Start
  BY AlignedStartFits, StartIsNat DEF LoadInv, LoadTypeOK
<1>2. offset' \in Nat
  BY <1>1 DEF Open, LoadInv, LoadTypeOK
<1>3. LoadTypeOK'
  BY <1>2, WholeKept DEF Open, LoadInv, LoadTypeOK
<1>4. Start' = Start /\ Size' = Size
  BY WholeKept DEF Open
<1>5. NeverWrong'
  BY <1>4 DEF Open, LoadInv, NeverWrong
<1>6. CopiedSoFar' /\ ReadSoFar'
  <2>1. CASE pc' = "chunk"
    <3>1. DOMAIN dst' = 0 .. Size - 1 /\ offset' = AlignedStart
      BY <2>1 DEF Open
    <3> QED BY <1>1, <1>4, <2>1, <3>1 DEF CopiedSoFar, ReadSoFar
  <2>2. CASE pc' # "chunk"
    BY <2>2 DEF CopiedSoFar, ReadSoFar, Open
  <2> QED BY <2>1, <2>2
<1>7. AllThere'
  <2>1. SUFFICES ASSUME pc' = "ok" PROVE dst' = [i \in 0 .. Size - 1 |-> Start + i]
    BY <1>4 DEF AllThere, Loaded
  <2>2. DOMAIN dst = 0 .. Size - 1 /\ Size = 0 /\ dst' = dst
    BY <2>1 DEF Open
  <2>3. DOMAIN dst = {} /\ 0 .. Size - 1 = {}
    BY <2>2
  <2> QED BY <2>2, <2>3 DEF LoadInv, LoadTypeOK
<1> QED BY <1>3, <1>5, <1>6, <1>7 DEF LoadInv

(* A load that fails.                                                       *)
LEMMA LoadInvFails ==
  ASSUME LoadInv, pc # "idle", pc' = "error", UNCHANGED <<fileVars, dst, bounce, offset, done>>
  PROVE  LoadInv'
<1>1. LoadTypeOK'
  BY WholeKept DEF LoadInv, LoadTypeOK
<1>2. NeverWrong'
  BY WholeKept DEF LoadInv, NeverWrong
<1> QED BY <1>1, <1>2 DEF LoadInv, CopiedSoFar, ReadSoFar, AllThere, Loaded

LEMMA LoadInvNextChunk == ASSUME LoadInv, NextChunk PROVE LoadInv'
<1>1. /\ section \in Section /\ Start \in Nat /\ Size \in Nat /\ End = Start + Size
  BY StartIsNat DEF LoadInv, LoadTypeOK
<1>2. /\ Start' = Start /\ Size' = Size /\ End' = End /\ dst' = dst /\ offset' = offset
      /\ done' = 0 /\ bounce' = bounce
  BY WholeKept DEF NextChunk
<1>3. LoadTypeOK'
  BY WholeKept DEF NextChunk, LoadInv, LoadTypeOK
<1>4. NeverWrong'
  BY <1>2 DEF LoadInv, NeverWrong
<1>5. /\ DOMAIN dst = 0 .. Size - 1
      /\ \A i \in 0 .. Size - 1 : Start + i < offset => dst[i] = Start + i
  BY DEF NextChunk, LoadInv, CopiedSoFar
<1>6. CopiedSoFar'
  BY <1>2, <1>5 DEF CopiedSoFar
<1>7. CASE offset < End
  <2>1. pc' = "read"
    BY <1>7 DEF NextChunk
  <2>2. (Want')  \in 1 .. Chunk
    <3>1. section' \in Section /\ offset' \in Nat /\ offset' < End'
      BY <1>2, <1>3, <1>7 DEF LoadTypeOK
    <3>2. Want \in 1 .. Chunk
      BY <1>1, <1>7, WantFits DEF LoadInv, LoadTypeOK
    <3> QED BY <1>2, <3>2 DEF Want, NextMultiple, Smaller
  <2>3. ReadSoFar'
    <3>1. done' = 0 /\ done' <= Want' /\ offset' < End'
      BY <1>2, <1>7, <2>2
    <3>2. \A i \in 0 .. Size' - 1 : ~((DstPos') <= i /\ i < (DstPos') + done')
      BY <1>1, <1>2, <1>3 DEF DstPos, LoadTypeOK
    <3>3. 0 .. done' - 1 = {}
      BY <3>1
    <3> QED BY <3>1, <3>2, <3>3 DEF ReadSoFar
  <2> QED BY <1>3, <1>4, <1>6, <2>1, <2>3 DEF LoadInv, AllThere, Loaded
<1>8. CASE ~(offset < End)
  <2>1. pc' = "ok"
    BY <1>8 DEF NextChunk
  <2>2. \A i \in 0 .. Size - 1 : dst[i] = Start + i
    BY <1>1, <1>5, <1>8 DEF LoadInv, LoadTypeOK
  <2>3. dst = [i \in 0 .. Size - 1 |-> Start + i]
    BY <1>5, <2>2 DEF LoadInv, LoadTypeOK
  <2> QED BY <1>2, <1>3, <1>4, <1>6, <2>1, <2>3 DEF LoadInv, AllThere, Loaded, ReadSoFar
<1> QED BY <1>7, <1>8

(* What is true within a chunk.                                             *)
LEMMA InChunk ==
  ASSUME LoadInv, pc = "read"
  PROVE  /\ section \in Section /\ Start \in Nat /\ Size \in Nat /\ End = Start + Size
         /\ offset \in Nat /\ done \in Nat /\ offset < End /\ done <= Want
         /\ Want \in 1 .. Chunk /\ Want % Block = 0
         /\ DstPos = offset - Start
         /\ dst \in [0 .. Size - 1 -> Int] /\ bounce \in [0 .. Chunk - 1 -> Int]
         /\ \A i \in 0 .. Size - 1 : Start + i < offset => dst[i] = Start + i
         /\ \A i \in 0 .. Size - 1 : dst[i] \in {Unset, Start + i}
<1>1. section \in Section /\ offset \in Nat /\ done \in Nat /\ offset < End /\ done <= Want
  BY DEF LoadInv, LoadTypeOK, ReadSoFar
<1>2. DOMAIN dst = 0 .. Size - 1 /\ DOMAIN bounce = 0 .. Chunk - 1
  BY DEF LoadInv, LoadTypeOK, CopiedSoFar
<1> QED BY <1>1, <1>2, WantFits, StartIsNat
        DEF LoadInv, LoadTypeOK, CopiedSoFar, NeverWrong, DstPos

LEMMA ChunkKept ==
  ASSUME UNCHANGED <<fileVars, offset>>
  PROVE  /\ Want' = Want /\ DstPos' = DstPos /\ Direct' = Direct
         /\ Start' = Start /\ Size' = Size /\ End' = End
  BY DEF fileVars, Want, DstPos, Direct, DirectOk, WholeChunkInDst, AlignedStart, NextMultiple,
         Smaller, Start, Size, End

LEMMA LoadInvReadAt ==
  ASSUME LoadInv, NEW n \in 1 .. Chunk, ReadAt(n)
  PROVE  LoadInv'
<1>1. /\ Start \in Nat /\ Size \in Nat /\ offset \in Nat /\ done \in Nat
      /\ offset < End /\ done + n <= Want /\ Want \in 1 .. Chunk /\ n \in Nat
      /\ DstPos = offset - Start
      /\ dst \in [0 .. Size - 1 -> Int] /\ bounce \in [0 .. Chunk - 1 -> Int]
      /\ \A i \in 0 .. Size - 1 : Start + i < offset => dst[i] = Start + i
      /\ \A i \in 0 .. Size - 1 : dst[i] \in {Unset, Start + i}
  <2>1. pc = "read" /\ n <= Want - done
    BY DEF ReadAt
  <2>2. n \in Nat /\ done + n <= Want
    <3>1. done \in Nat /\ Want \in 1 .. Chunk
      BY <2>1, InChunk, Zenon
    <3> QED BY ONLY <2>1, <3>1, n \in 1 .. Chunk, ChunkAssumption
  <2> QED BY <2>1, <2>2, InChunk, Zenon
<1>2. /\ pc' = "read" /\ done' = done + n /\ offset' = offset
      /\ Want' = Want /\ DstPos' = DstPos /\ Direct' = Direct
      /\ Start' = Start /\ Size' = Size /\ End' = End
  BY ChunkKept DEF ReadAt
<1>3. section' \in Section /\ size' \in Nat /\ addr' \in Nat /\ whole' \in BOOLEAN
  BY WholeKept DEF ReadAt
<1>4. CASE Direct
  <2>1. /\ bounce' = bounce
        /\ dst' = [i \in 0 .. Size - 1 |->
                     IF DstPos + done <= i /\ i < DstPos + done + n THEN Start + i ELSE dst[i]]
    BY <1>1, <1>4 DEF ReadAt
  <2>2. /\ dst' \in [0 .. Size - 1 -> Int]
        /\ \A i \in 0 .. Size - 1 : Start + i < offset => dst'[i] = Start + i
        /\ \A i \in 0 .. Size - 1 : dst'[i] \in {Unset, Start + i}
    BY <1>1, <2>1
  <2>3. \A i \in 0 .. Size - 1 : DstPos <= i /\ i < DstPos + done => dst[i] = Start + i
    BY <1>4 DEF ReadAt, LoadInv, ReadSoFar
  <2>4. \A i \in 0 .. Size - 1 : DstPos <= i /\ i < DstPos + (done + n) => dst'[i] = Start + i
    BY <1>1, <2>1, <2>3
  <2>5. LoadTypeOK'
    BY <1>1, <1>2, <1>3, <2>1, <2>2 DEF LoadTypeOK
  <2>6. ReadSoFar'
    BY <1>1, <1>2, <1>4, <2>4 DEF ReadSoFar
  <2> QED BY <1>2, <2>2, <2>5, <2>6 DEF LoadInv, NeverWrong, CopiedSoFar, AllThere, Loaded
<1>5. CASE ~Direct
  <2>1. /\ dst' = dst
        /\ bounce' = [j \in 0 .. Chunk - 1 |->
                        IF done <= j /\ j < done + n THEN offset + j ELSE bounce[j]]
    BY <1>1, <1>5 DEF ReadAt
  <2>2. bounce' \in [0 .. Chunk - 1 -> Int]
    BY <1>1, <2>1
  <2>3. \A j \in 0 .. done - 1 : bounce[j] = offset + j
    BY <1>5 DEF ReadAt, LoadInv, ReadSoFar
  <2>4. ASSUME NEW j \in 0 .. (done + n) - 1 PROVE bounce'[j] = offset + j
    <3>1. j \in 0 .. Chunk - 1 /\ j < done + n
      BY <1>1, ChunkAssumption
    <3>2. CASE done <= j
      BY <2>1, <3>1, <3>2
    <3>3. CASE ~(done <= j)
      BY <1>1, <2>1, <2>3, <3>1, <3>3
    <3> QED BY <3>2, <3>3
  <2>5. LoadTypeOK'
    BY <1>1, <1>2, <1>3, <2>1, <2>2 DEF LoadTypeOK
  <2>6. ReadSoFar'
    BY <1>1, <1>2, <1>5, <2>4 DEF ReadSoFar
  <2> QED BY <1>1, <1>2, <2>1, <2>5, <2>6 DEF LoadInv, NeverWrong, CopiedSoFar, AllThere, Loaded
<1> QED BY <1>4, <1>5

LEMMA LoadInvEndRead == ASSUME LoadInv, EndRead PROVE LoadInv'
<1>1. /\ Start \in Nat /\ Size \in Nat /\ offset \in Nat /\ done \in Nat
      /\ done <= Want /\ Want \in 1 .. Chunk /\ DstPos = offset - Start
      /\ dst \in [0 .. Size - 1 -> Int] /\ bounce \in [0 .. Chunk - 1 -> Int]
      /\ \A i \in 0 .. Size - 1 : Start + i < offset => dst[i] = Start + i
      /\ \A i \in 0 .. Size - 1 : dst[i] \in {Unset, Start + i}
  BY InChunk, ChunkAssumption DEF EndRead
<1>2. CASE done = 0
  BY <1>2, LoadInvFails DEF EndRead
<1>3. CASE done # 0
  <2>1. /\ pc' = "chunk" /\ offset' = offset + done /\ done' = done /\ bounce' = bounce
        /\ Start' = Start /\ Size' = Size
    BY <1>3, WholeKept DEF EndRead
  <2>2. /\ dst' \in [0 .. Size - 1 -> Int]
        /\ \A i \in 0 .. Size - 1 : Start + i < offset + done => dst'[i] = Start + i
        /\ \A i \in 0 .. Size - 1 : dst'[i] \in {Unset, Start + i}
    <3>1. CASE Direct
      <4>1. dst' = dst
        BY <1>3, <3>1 DEF EndRead
      <4>2. \A i \in 0 .. Size - 1 : DstPos <= i /\ i < DstPos + done => dst[i] = Start + i
        BY <3>1 DEF EndRead, LoadInv, ReadSoFar
      <4> QED BY <1>1, <4>1, <4>2
    <3>2. CASE ~Direct
      <4>1. dst' = [i \in 0 .. Size - 1 |->
                     IF DstPos <= i /\ i < DstPos + done THEN bounce[Start + i - offset] ELSE dst[i]]
        BY <1>1, <1>3, <3>2 DEF EndRead, Copied
      <4>2. \A j \in 0 .. done - 1 : bounce[j] = offset + j
        BY <3>2 DEF EndRead, LoadInv, ReadSoFar
      <4>3. ASSUME NEW i \in 0 .. Size - 1, DstPos <= i, i < DstPos + done
            PROVE  dst'[i] = Start + i
        <5>1. Start + i - offset \in 0 .. done - 1
          BY <1>1, <4>3
        <5>2. bounce[Start + i - offset] = offset + (Start + i - offset)
          BY <4>2, <5>1
        <5> QED BY <1>1, <4>1, <4>3, <5>2
      <4>4. ASSUME NEW i \in 0 .. Size - 1, ~(DstPos <= i /\ i < DstPos + done)
            PROVE  dst'[i] = dst[i]
        BY <4>1, <4>4
      <4> HIDE DEF Unset
      <4>5. dst' \in [0 .. Size - 1 -> Int]
        <5>1. ASSUME NEW i \in 0 .. Size - 1 PROVE dst'[i] \in Int
          BY <1>1, <4>3, <4>4
        <5>2. DOMAIN dst' = 0 .. Size - 1 /\ dst' = [i \in DOMAIN dst' |-> dst'[i]]
          BY <4>1
        <5> QED BY <5>1, <5>2
      <4> QED BY <1>1, <4>3, <4>4, <4>5, SMTT(30)
    <3> QED BY <3>1, <3>2
  <2>3. LoadTypeOK'
    BY <1>1, <2>1, <2>2, WholeKept DEF EndRead, LoadInv, LoadTypeOK
  <2> QED BY <2>1, <2>2, <2>3 DEF LoadInv, NeverWrong, CopiedSoFar, ReadSoFar, AllThere, Loaded
<1> QED BY <1>2, <1>3

LEMMA LoadInvNext == LoadInv /\ [DirectNext]_loadVars => LoadInv'
<1> SUFFICES ASSUME LoadInv, [DirectNext]_loadVars PROVE LoadInv'
  OBVIOUS
<1>1. CASE section' \in Section /\ NewSource(section')
  BY <1>1, LoadInvNew
<1>2. CASE Open
  BY <1>2, LoadInvOpen
<1>3. CASE OpenFails \/ ReadFails
  BY <1>3, LoadInvFails DEF OpenFails, ReadFails
<1>4. CASE NextChunk
  BY <1>4, LoadInvNextChunk
<1>5. CASE EndRead
  BY <1>5, LoadInvEndRead
<1>6. CASE \E n \in 1 .. Chunk : ReadAt(n)
  BY <1>6, LoadInvReadAt
<1>7. CASE UNCHANGED loadVars
  BY <1>7 DEF loadVars, LoadInv, LoadTypeOK, NeverWrong, CopiedSoFar, ReadSoFar, AllThere, Loaded,
      Start, Size, End, Want, NextMultiple, Smaller, DstPos, Direct, DirectOk, WholeChunkInDst,
      AlignedStart
<1> QED BY <1>1, <1>2, <1>3, <1>4, <1>5, <1>6, <1>7 DEF DirectNext, LoadStep

LEMMA LoadInvAlways == DirectSpec => []LoadInv
<1>1. LoadInit => LoadInv
  BY LoadInvInit
<1>2. LoadInv /\ [DirectNext]_loadVars => LoadInv'
  BY LoadInvNext
<1> QED BY <1>1, <1>2, PTL DEF DirectSpec

(* A load never writes a wrong byte, and one that succeeds leaves the data  *)
(* section in the destination (DirectSource::load, read_full).              *)
THEOREM DirectLoadIsCopy == DirectSpec => []LoadIsCopy
<1>1. LoadInv => LoadIsCopy
  BY DEF LoadInv, NeverWrong, AllThere, LoadIsCopy, LoadTypeOK, Loaded, Section, Start, Size
<1> QED BY <1>1, LoadInvAlways, PTL

-----------------------------------------------------------------------------
(* The loader implements the trait.                                         *)

LEMMA InitRefines == LoadInit => Source!Init
  BY DEF LoadInit, Source!Init, Source!Nothing, Loaded, Fresh

LEMMA StepRefines ==
  ASSUME LoadInv, LoadInv', [DirectNext]_loadVars
  PROVE  [Source!Next]_(Source!sourceVars)
<1> USE DEF Source!Next, Source!sourceVars, Loaded
<1>1. CASE section' \in Section /\ NewSource(section')
  BY <1>1 DEF NewSource, Section, Source!New
<1>2. ASSUME pc \notin {"idle", "ok", "error"}, pc' = "ok", UNCHANGED fileVars
      PROVE  Source!Load
  <2>1. section' = section
    BY <1>2 DEF fileVars
  <2>2. dst' = [i \in 0 .. section.len - 1 |-> section.start + i]
    BY <1>2, <2>1 DEF LoadInv, AllThere, Start, Size
  <2> QED BY <1>2, <2>1, <2>2 DEF Source!Load, Source!Data, Loaded
<1>3. ASSUME pc \notin {"idle", "ok", "error"}, pc' = "error", UNCHANGED fileVars
      PROVE  Source!Reject
  BY <1>3 DEF Source!Reject, fileVars, Loaded
<1>4. ASSUME pc \notin {"idle", "ok", "error"}, pc' \in {"open", "chunk", "read"}, UNCHANGED fileVars
      PROVE  UNCHANGED Source!sourceVars
  BY <1>4 DEF fileVars
<1>5. CASE LoadStep
  <2>1. pc \notin {"idle", "ok", "error"} /\ UNCHANGED fileVars
    BY <1>5 DEF LoadStep, Open, OpenFails, NextChunk, EndRead, ReadFails, ReadAt
  <2>2. pc' \in {"ok", "error", "open", "chunk", "read"}
    BY <1>5 DEF LoadStep, Open, OpenFails, NextChunk, EndRead, ReadFails, ReadAt
  <2> QED BY <1>2, <1>3, <1>4, <2>1, <2>2
<1>6. CASE UNCHANGED loadVars
  BY <1>6 DEF loadVars
<1> QED BY <1>1, <1>5, <1>6 DEF DirectNext

(* What DirectSource does is what WeightSource promises, whatever the       *)
(* section, the destination and the reads.                                  *)
THEOREM DirectImplementsWeightSource == DirectSpec => ImplementsWeightSource
<1>1. LoadInit => Source!Init
  BY InitRefines
<1>2. LoadInv /\ LoadInv' /\ [DirectNext]_loadVars => [Source!Next]_(Source!sourceVars)
  BY StepRefines
<1> QED BY <1>1, <1>2, LoadInvAlways, PTL DEF DirectSpec, ImplementsWeightSource, Source!Spec

-----------------------------------------------------------------------------
(* Alignment.                                                               *)

LEMMA AlignInvStep ==
  ASSUME LoadInv, AlignInv, [DirectNext]_loadVars
  PROVE  AlignInv'
<1>0. Block \in Nat \ {0} /\ 0 % Block = 0
  <2>1. Block \in Nat \ {0}
    BY ChunkAssumption
  <2>2. (Block * 0) % Block = 0
    BY <2>1, MultipleMod
  <2> QED BY <2>1, <2>2
<1>1. CASE pc' \notin {"chunk", "read"}
  BY <1>1 DEF AlignInv, OffsetAligned, DoneAligned
<1>2. CASE Open /\ pc' = "chunk"
  <2>1. offset' = AlignedStart
    BY <1>2 DEF Open
  <2>2. offset' % Block = 0
    BY <2>1, AlignedStartFits DEF LoadInv, LoadTypeOK
  <2> QED BY <1>2, <2>2 DEF AlignInv, OffsetAligned, DoneAligned
<1>3. CASE NextChunk
  BY <1>0, <1>3 DEF NextChunk, AlignInv, OffsetAligned, DoneAligned, fileVars
<1>4. ASSUME NEW n \in 1 .. Chunk, ReadAt(n) PROVE AlignInv'
  <2>1. /\ offset \in Nat /\ done \in Nat /\ size \in Nat /\ n \in Nat \ {0}
        /\ done' = done + n /\ offset' = offset /\ size' = size /\ offset + done + n <= size
    BY <1>4, ChunkAssumption DEF ReadAt, LoadInv, LoadTypeOK, fileVars
  <2>2. pc = "read" /\ pc' = "read" /\ whole' = whole
    BY <1>4 DEF ReadAt, fileVars
  <2>3. ASSUME whole PROVE done' % Block = 0 \/ offset' + done' >= size'
    <3>1. done % Block = 0 \/ offset + done >= size
      BY <2>2, <2>3 DEF AlignInv, DoneAligned
    <3>2. n % Block = 0 \/ offset + done + n = size
      BY <1>4, <2>3 DEF ReadAt
    <3>3. CASE n % Block = 0
      <4>1. done % Block = 0
        BY <2>1, <3>1
      <4>2. done \in Int /\ n \in Int
        BY <2>1
      <4>3. (done + n) % Block = 0
        BY <1>0, <3>3, <4>1, <4>2, SumMod
      <4> QED BY <2>1, <4>3
    <3> QED BY <2>1, <3>2, <3>3
  <2>4. OffsetAligned'
    BY <2>1, <2>2 DEF AlignInv, OffsetAligned
  <2> QED BY <2>2, <2>3, <2>4 DEF AlignInv, DoneAligned
<1>5. CASE EndRead /\ pc' = "chunk"
  <2>1. /\ offset \in Nat /\ done \in Nat /\ size \in Nat /\ Want \in Int /\ Want % Block = 0
        /\ offset' = offset + done /\ size' = size
        /\ done = Want \/ offset + done >= size
    BY <1>5, InChunk, ChunkAssumption DEF EndRead, LoadInv, LoadTypeOK, fileVars
  <2>2. pc = "read" /\ whole' = whole
    BY <1>5 DEF EndRead, fileVars
  <2>3. ASSUME whole PROVE offset' % Block = 0 \/ offset' >= size'
    <3>1. offset % Block = 0 \/ offset >= size
      BY <2>2, <2>3 DEF AlignInv, OffsetAligned
    <3>2. CASE done = Want /\ offset % Block = 0
      <4>1. offset \in Int /\ done \in Int /\ done % Block = 0 /\ offset % Block = 0
        BY <2>1, <3>2
      <4>2. (offset + done) % Block = 0
        BY <1>0, <4>1, SumMod
      <4> QED BY <2>1, <4>2
    <3> QED BY <2>1, <3>1, <3>2
  <2> QED BY <1>5, <2>2, <2>3 DEF AlignInv, OffsetAligned, DoneAligned
<1>6. CASE UNCHANGED loadVars
  BY <1>6 DEF loadVars, AlignInv, OffsetAligned, DoneAligned
<1>7. ASSUME pc' \in {"chunk", "read"}, DirectNext
      PROVE  \/ Open /\ pc' = "chunk"
             \/ NextChunk
             \/ EndRead /\ pc' = "chunk"
             \/ \E n \in 1 .. Chunk : ReadAt(n)
  BY <1>7 DEF DirectNext, LoadStep, NewSource, Open, OpenFails, EndRead, ReadFails
<1> QED BY <1>1, <1>2, <1>3, <1>4, <1>5, <1>6, <1>7

(* Every read asks for whole blocks, at a multiple of the block, into a     *)
(* buffer that lies at one, as long as the kernel returns whole blocks      *)
(* (DirectSource::load: aligned_start, want, direct_ok).                    *)
THEOREM DirectReadsAligned == DirectSpec => []ReadsAligned
<1>1. LoadInit => AlignInv
  BY DEF LoadInit, AlignInv, OffsetAligned, DoneAligned
<1>2. LoadInv /\ AlignInv /\ [DirectNext]_loadVars => AlignInv'
  BY AlignInvStep
<1>3. LoadInv /\ AlignInv => ReadsAligned
  <2> SUFFICES ASSUME LoadInv, AlignInv, whole, pc = "read", done < Want, offset + done < size
               PROVE  /\ (offset + done) % Block = 0
                      /\ (Want - done) % Block = 0
                      /\ (IF Direct THEN addr + DstPos + done ELSE done) % Block = 0
    BY DEF ReadsAligned
  <2>1. /\ Block \in Nat \ {0} /\ offset \in Nat /\ done \in Nat /\ size \in Nat /\ addr \in Nat
        /\ Start \in Nat /\ section \in Section
        /\ Want \in Int /\ Want % Block = 0 /\ DstPos = offset - Start
    BY InChunk, ChunkAssumption DEF LoadInv, LoadTypeOK
  <2>2. offset % Block = 0 /\ done % Block = 0
    <3>1. offset % Block = 0 \/ offset >= size
      BY DEF AlignInv, OffsetAligned
    <3>2. done % Block = 0 \/ offset + done >= size
      BY DEF AlignInv, DoneAligned
    <3> QED BY <2>1, <3>1, <3>2
  <2>3. (offset + done) % Block = 0 /\ (Want - done) % Block = 0
    <3>1. Block \in Nat \ {0} /\ offset \in Int /\ done \in Int /\ Want \in Int /\ Want % Block = 0
      BY <2>1
    <3> QED BY <2>2, <3>1, SumMod
  <2>4. CASE Direct
    <3>1. (addr + AlignedStart - Start) % Block = 0
      BY <2>4 DEF Direct, DirectOk
    <3>2. AlignedStart \in Nat /\ AlignedStart % Block = 0
      BY <2>1, AlignedStartFits
    <3>3. /\ Block \in Nat \ {0} /\ offset + done \in Int /\ AlignedStart \in Int
          /\ addr + AlignedStart - Start \in Int /\ (offset + done) - AlignedStart \in Int
      BY <2>1, <3>2
    <3>4. ((addr + AlignedStart - Start) + ((offset + done) - AlignedStart)) % Block = 0
      <4>1. ((offset + done) - AlignedStart) % Block = 0
        BY <2>3, <3>2, <3>3, SumMod
      <4> QED BY <3>1, <3>3, <4>1, SumMod
    <3>5. addr + DstPos + done = (addr + AlignedStart - Start) + ((offset + done) - AlignedStart)
      BY <2>1, <3>2
    <3> QED BY <2>3, <2>4, <3>4, <3>5
  <2>5. CASE ~Direct
    BY <2>2, <2>3, <2>5
  <2> QED BY <2>4, <2>5
<1> QED BY <1>1, <1>2, <1>3, LoadInvAlways, PTL DEF DirectSpec

-----------------------------------------------------------------------------
(* The cursor.                                                              *)

Errors ==
  {"none", "Truncated", "InvalidUtf8", "ArrayTooDeep", "UnknownValueType", "InvalidBool", "BadMagic",
   "UnsupportedVersion", "DuplicateKey", "TooManyDims", "UnsupportedTensorType", "DimOverflow",
   "BadBlockCount", "DuplicateTensor"}

Cursors == [pos : 0 .. file.size, err : Errors]

LEMMA TakeType ==
  ASSUME file.size \in Nat, NEW cur \in Cursors, NEW n \in Nat
  PROVE  /\ Take(cur, n) \in Cursors
         /\ Take(cur, n).err = "none" => cur.err = "none" /\ Take(cur, n).pos = cur.pos + n
<1>1. cur.pos \in 0 .. file.size /\ cur.err \in Errors
  BY DEF Cursors
<1>2. CASE cur.err # "none"
  BY <1>2 DEF Take
<1>3. CASE cur.err = "none" /\ n > file.size - cur.pos
  <2>1. Take(cur, n) = [cur EXCEPT !.err = "Truncated"]
    <3>1. Take(cur, n) = Fail(cur, "Truncated")
      BY ONLY <1>3, Zenon DEF Take
    <3> QED BY ONLY <1>3, <3>1 DEF Fail
  <2> QED BY <1>3, <2>1 DEF Cursors, Errors
<1>4. CASE cur.err = "none" /\ ~(n > file.size - cur.pos)
  <2>1. Take(cur, n) = [cur EXCEPT !.pos = @ + n]
    BY <1>4 DEF Take
  <2>2. cur.pos + n \in 0 .. file.size
    BY <1>1, <1>4
  <2> QED BY <1>4, <2>1, <2>2 DEF Cursors
<1> QED BY <1>1, <1>2, <1>3, <1>4

LEMMA FailType ==
  ASSUME NEW cur \in Cursors, NEW bad, NEW err \in Errors, err # "none"
  PROVE  /\ FailIf(cur, bad, err) \in Cursors
         /\ FailIf(cur, bad, err).err = "none" => ~bad /\ FailIf(cur, bad, err) = cur
         /\ Fail(cur, err) \in Cursors /\ Fail(cur, err).err # "none"
BY DEF Cursors, FailIf, Fail, Errors

LEMMA CursorType ==
  ASSUME NEW p \in 0 .. file.size
  PROVE  Cursor(p) \in Cursors /\ Cursor(p).pos = p
BY DEF Cursor, Cursors, Errors

LEMMA ReadStringType ==
  ASSUME file.size \in Nat, NEW cur \in Cursors, NEW text, IsText(text)
  PROVE  /\ ReadString(cur, text) \in Cursors
         /\ ReadString(cur, text).err = "none" =>
              cur.err = "none" /\ ReadString(cur, text).pos = cur.pos + 8 + text.len
<1> DEFINE long == Take(cur, 8)
           all == Take(long, text.len)
<1>1. /\ long \in Cursors
      /\ long.err = "none" => cur.err = "none" /\ long.pos = cur.pos + 8
  BY TakeType
<1>2. text.len \in Nat
  BY DEF IsText
<1> HIDE DEF long
<1>3. /\ all \in Cursors
      /\ all.err = "none" => long.err = "none" /\ all.pos = long.pos + text.len
  BY <1>1, <1>2, TakeType
<1>4. ReadString(cur, text) = FailIf(all, ~text.utf8, "InvalidUtf8")
  BY DEF ReadString, long
<1> HIDE DEF all
<1>5. cur.pos \in Nat
  BY DEF Cursors
<1>6. "InvalidUtf8" \in Errors /\ "InvalidUtf8" # "none"
  BY DEF Errors
<1> QED BY <1>1, <1>2, <1>3, <1>4, <1>5, <1>6, FailType

-----------------------------------------------------------------------------
(* What is read one after another, and how many bytes of it were written.   *)

Total(n, f) ==
  LET total[k \in 0 .. n] == IF k = 0 THEN 0 ELSE total[k - 1] + f[k]
  IN total[n]

TextBytes(text) == 8 + text.len
TextsBytes(texts) == Total(Len(texts), [i \in 1 .. Len(texts) |-> TextBytes(texts[i])])

ArrayBytes(array) ==
  12 + (IF array.elem = ARRAY THEN 0
        ELSE IF array.elem = STRING8 THEN TextsBytes(array.items)
        ELSE IF array.elem \in DOMAIN Width THEN array.count * Width[array.elem] ELSE 0)
ArraysBytes(arrays) == Total(Len(arrays), [i \in 1 .. Len(arrays) |-> ArrayBytes(arrays[i])])

ValueBytes(value) ==
  IF value.raw = STRING8 THEN TextBytes(value.val)
  ELSE IF value.raw = ARRAY THEN ArraysBytes(value.arrays)
  ELSE IF value.raw \in DOMAIN Width THEN Width[value.raw] ELSE 0

EntryBytes(kv) == TextBytes(kv.key) + 4 + ValueBytes(kv.value)
InfoBytes(t) == TextBytes(t.name) + 4 + 8 * Len(t.dims) + 4 + 8

(* Where the table of a file ends, and where its data section begins when   *)
(* the writer has left the space that its alignment asks for.               *)
EntrySizes(f) == [i \in 1 .. Len(f.metadata) |-> EntryBytes(f.metadata[i])]
InfoSizes(f) == [i \in 1 .. Len(f.tensors) |-> InfoBytes(f.tensors[i])]
TableEnd(f) ==
  24 + Total(Len(f.metadata), EntrySizes(f)) + Total(Len(f.tensors), InfoSizes(f))

AlignmentKeys(f) == {i \in 1 .. Len(f.metadata) : f.metadata[i].key.name = "general.alignment"}
DeclaredAlignment(f) ==
  IF AlignmentKeys(f) = {} THEN DefaultAlignment
  ELSE f.metadata[CHOOSE i \in AlignmentKeys(f) : TRUE].value.val

WellWritten(f) ==
  f.dataAt = ((TableEnd(f) + DeclaredAlignment(f) - 1) \div DeclaredAlignment(f)) * DeclaredAlignment(f)

LEMMA TotalFollows ==
  ASSUME NEW n \in Nat, NEW f \in [1 .. n -> Int]
  PROVE  \E g \in [0 .. n -> Int] :
           /\ g[0] = 0 /\ Total(n, f) = g[n]
           /\ \A k \in 1 .. n : g[k] = g[k - 1] + f[k]
<1> DEFINE Q(h) == h = [k \in 0 .. n |-> IF k = 0 THEN 0 ELSE h[k - 1] + f[k]]
           F == [k \in 1 .. n |-> [x \in Int |-> x + f[k]]]
<1>1. Total(n, f) = (CHOOSE h : Q(h))[n]
  BY DEF Total
<1>2. F \in [1 .. n -> [Int -> Int]]
  OBVIOUS
<1>3. PICK g \in [0 .. n -> Int] : g[0] = 0 /\ \A k \in 1 .. n : g[k] = F[k][g[k - 1]]
  <2>1. 0 \in Int
    OBVIOUS
  <2> HIDE DEF F
  <2>2. \E g : Recursion(g, n, Int, 0, F)
    BY ONLY n \in Nat, <1>2, <2>1, RecursionExists
  <2> QED BY <2>2 DEF Recursion
<1>4. \A k \in 1 .. n : g[k] = g[k - 1] + f[k]
  <2>1. SUFFICES ASSUME NEW k \in 1 .. n PROVE g[k] = g[k - 1] + f[k]
    OBVIOUS
  <2>2. g[k - 1] \in Int /\ F[k] = [x \in Int |-> x + f[k]]
    BY <1>3
  <2> QED BY <1>3, <2>2
<1>5. Q(g)
  BY <1>3, <1>4
<1> HIDE DEF Q
<1>6. Q(CHOOSE h : Q(h))
  BY <1>5
<1>7. PICK h : Q(h) /\ Total(n, f) = h[n]
  BY <1>1, <1>6
<1>8. h = [k \in 0 .. n |-> IF k = 0 THEN 0 ELSE h[k - 1] + f[k]]
  BY <1>7 DEF Q
<1>9. h[0] = 0 /\ \A k \in 1 .. n : h[k] = h[k - 1] + f[k]
  BY <1>8
<1>10. \A k \in 0 .. n : h[k] \in Int
  <2> DEFINE S == {k \in 0 .. n : h[k] \in Int}
  <2>1. 0 \in S /\ \A k \in 1 .. n : k - 1 \in S => k \in S
    BY <1>9, SMTT(30)
  <2> HIDE DEF S
  <2>2. \A k \in 0 .. n : k \in S
    BY ONLY n \in Nat, <2>1, BoundedInduction
  <2> QED BY <2>2 DEF S
<1>11. h \in [0 .. n -> Int]
  <2>1. DOMAIN h = 0 .. n /\ h = [k \in 0 .. n |-> h[k]]
    BY <1>8
  <2> QED BY <1>10, <2>1
<1> QED BY <1>7, <1>9, <1>11

LEMMA TotalType ==
  ASSUME NEW n \in Nat, NEW f \in [1 .. n -> Int]
  PROVE  Total(n, f) \in Int
<1>1. PICK g \in [0 .. n -> Int] : Total(n, f) = g[n]
  BY TotalFollows
<1> QED BY <1>1

(* Cursors that follow one another as long as nothing is wrong.             *)
LEMMA CursorsAddUp ==
  ASSUME NEW n \in Nat, NEW g \in [0 .. n -> Cursors], NEW f \in [1 .. n -> Int],
         \A k \in 1 .. n :
           g[k].err = "none" => g[k - 1].err = "none" /\ g[k].pos = g[k - 1].pos + f[k]
  PROVE  g[n].err = "none" => g[0].err = "none" /\ g[n].pos = g[0].pos + Total(n, f)
<1>1. PICK h \in [0 .. n -> Int] :
             /\ h[0] = 0 /\ Total(n, f) = h[n]
             /\ \A k \in 1 .. n : h[k] = h[k - 1] + f[k]
  BY TotalFollows
<1> DEFINE Fits(k) == g[k].err = "none" => g[0].err = "none" /\ g[k].pos = g[0].pos + h[k]
           S == {k \in 0 .. n : Fits(k)}
<1>2. \A k \in 0 .. n : g[k].pos \in Int
  BY DEF Cursors
<1>3. 0 \in S
  BY <1>1, <1>2
<1>4. ASSUME NEW k \in 1 .. n, k - 1 \in S
      PROVE  k \in S
  <2>1. k \in 0 .. n /\ k - 1 \in 0 .. n
    OBVIOUS
  <2>2. Fits(k - 1)
    BY <1>4
  <2>3. Fits(k)
    <3>1. SUFFICES ASSUME g[k].err = "none"
                   PROVE  g[0].err = "none" /\ g[k].pos = g[0].pos + h[k]
      OBVIOUS
    <3>2. g[k - 1].err = "none" /\ g[k].pos = g[k - 1].pos + f[k]
      BY <3>1
    <3>3. h[k] = h[k - 1] + f[k] /\ f[k] \in Int /\ h[k - 1] \in Int
      BY <1>1, <2>1
    <3>4. g[0].pos \in Int /\ 0 \in 0 .. n
      BY <1>2
    <3> QED BY <2>2, <3>2, <3>3, <3>4
  <2> QED BY <2>1, <2>3
<1>5. n \in S
  <2> HIDE DEF S
  <2>1. \A k \in 0 .. n : k \in S
    BY ONLY n \in Nat, <1>3, <1>4, BoundedInduction
  <2> QED BY <2>1
<1> QED BY <1>1, <1>5

LEMMA SequenceFacts ==
  ASSUME NEW s, IsSequence(s)
  PROVE  Len(s) \in Nat /\ DOMAIN s = 1 .. Len(s)
<1> DEFINE S == Range(s)
<1>1. s \in Seq(S)
  BY DEF IsSequence
<1> HIDE DEF S
<1> QED BY <1>1

(* Reads that follow one another.                                           *)
LEMMA ReadInTurn ==
  ASSUME NEW n \in Nat, NEW cur \in Cursors, NEW F \in [1 .. n -> [Cursors -> Cursors]],
         NEW f \in [1 .. n -> Int], NEW h, Recursion(h, n, Cursors, cur, F),
         \A k \in 1 .. n : \A c \in Cursors :
           F[k][c].err = "none" => c.err = "none" /\ F[k][c].pos = c.pos + f[k]
  PROVE  /\ h[n] \in Cursors
         /\ h[n].err = "none" => cur.err = "none" /\ h[n].pos = cur.pos + Total(n, f)
<1>1. h \in [0 .. n -> Cursors] /\ h[0] = cur /\ \A k \in 1 .. n : h[k] = F[k][h[k - 1]]
  BY DEF Recursion
<1>2. \A k \in 1 .. n :
        h[k].err = "none" => h[k - 1].err = "none" /\ h[k].pos = h[k - 1].pos + f[k]
  <2>1. SUFFICES ASSUME NEW k \in 1 .. n
                 PROVE  h[k].err = "none" => h[k - 1].err = "none" /\ h[k].pos = h[k - 1].pos + f[k]
    OBVIOUS
  <2>2. h[k - 1] \in Cursors /\ h[k] = F[k][h[k - 1]]
    BY <1>1
  <2> QED BY <2>2
<1>3. h[n].err = "none" => h[0].err = "none" /\ h[n].pos = h[0].pos + Total(n, f)
  BY ONLY n \in Nat, f \in [1 .. n -> Int], <1>1, <1>2, CursorsAddUp
<1> QED BY <1>1, <1>3

LEMMA TextsBytesType ==
  ASSUME NEW texts, IsSequence(texts), \A i \in DOMAIN texts : IsText(texts[i])
  PROVE  TextsBytes(texts) \in Int
<1> DEFINE n == Len(texts)
           f == [k \in 1 .. n |-> TextBytes(texts[k])]
<1>1. n \in Nat /\ \A k \in 1 .. n : IsText(texts[k])
  BY SequenceFacts
<1>2. f \in [1 .. n -> Int]
  <2> HIDE DEF n
  <2> QED BY <1>1 DEF TextBytes, IsText
<1>3. Total(n, f) \in Int
  <2> HIDE DEF n, f
  <2> QED BY ONLY <1>1, <1>2, TotalType
<1> QED BY <1>3 DEF TextsBytes

LEMMA ReadStringsType ==
  ASSUME file.size \in Nat, NEW cur \in Cursors, NEW texts, IsSequence(texts),
         \A i \in DOMAIN texts : IsText(texts[i])
  PROVE  /\ ReadStrings(cur, texts) \in Cursors
         /\ ReadStrings(cur, texts).err = "none" =>
              cur.err = "none" /\ ReadStrings(cur, texts).pos = cur.pos + TextsBytes(texts)
<1> DEFINE n == Len(texts)
           f == [k \in 1 .. n |-> TextBytes(texts[k])]
           F == [k \in 1 .. n |-> [c \in Cursors |-> ReadString(c, texts[k])]]
           Q(h) == h = [k \in 0 .. n |-> IF k = 0 THEN cur ELSE ReadString(h[k - 1], texts[k])]
<1>1. n \in Nat /\ \A k \in 1 .. n : IsText(texts[k])
  BY SequenceFacts
<1>2. ReadStrings(cur, texts) = (CHOOSE h : Q(h))[n] /\ TextsBytes(texts) = Total(n, f)
  BY DEF ReadStrings, TextsBytes
<1> HIDE DEF n
<1>3. f \in [1 .. n -> Int]
  BY <1>1 DEF TextBytes, IsText
<1>4. \A k \in 1 .. n : \A c \in Cursors :
        /\ ReadString(c, texts[k]) \in Cursors
        /\ ReadString(c, texts[k]).err = "none" =>
             c.err = "none" /\ ReadString(c, texts[k]).pos = c.pos + 8 + texts[k].len
  BY <1>1, ReadStringType
<1>5. F \in [1 .. n -> [Cursors -> Cursors]]
  BY <1>4
<1>6. \A k \in 1 .. n : \A c \in Cursors :
        F[k][c].err = "none" => c.err = "none" /\ F[k][c].pos = c.pos + f[k]
  <2>1. SUFFICES ASSUME NEW k \in 1 .. n, NEW c \in Cursors, ReadString(c, texts[k]).err = "none"
                 PROVE  c.err = "none" /\ ReadString(c, texts[k]).pos = c.pos + (8 + texts[k].len)
    BY DEF TextBytes
  <2>2. c.pos \in Int /\ texts[k].len \in Int
    BY <1>1 DEF Cursors, IsText
  <2> QED BY <1>4, <2>1, <2>2
<1>7. PICK g : Recursion(g, n, Cursors, cur, F)
  <2> HIDE DEF F
  <2> QED BY ONLY <1>1, cur \in Cursors, <1>5, RecursionExists
<1>8. Q(g)
  <2>1. g \in [0 .. n -> Cursors] /\ g[0] = cur /\ \A k \in 1 .. n : g[k] = F[k][g[k - 1]]
    BY <1>7 DEF Recursion
  <2>2. ASSUME NEW k \in 1 .. n PROVE g[k] = ReadString(g[k - 1], texts[k])
    <3>1. g[k - 1] \in Cursors /\ F[k] = [c \in Cursors |-> ReadString(c, texts[k])]
      BY <1>1, <2>1
    <3> QED BY <2>1, <3>1
  <2> QED BY <1>1, <2>1, <2>2
<1> HIDE DEF Q
<1>9. PICK h : Q(h) /\ ReadStrings(cur, texts) = h[n]
  <2>1. Q(CHOOSE h : Q(h))
    BY <1>8
  <2> QED BY <1>2, <2>1
<1>10. h = [k \in 0 .. n |-> IF k = 0 THEN cur ELSE ReadString(h[k - 1], texts[k])]
  BY <1>9 DEF Q
<1>11. Recursion(h, n, Cursors, cur, F)
  <2>1. h[0] = cur /\ FunctionOn(h, 0 .. n)
    BY <1>1, <1>10 DEF FunctionOn
  <2>2. \A k \in 1 .. n : h[k - 1] \in Cursors => h[k] = F[k][h[k - 1]]
    BY <1>1, <1>10
  <2> HIDE DEF F
  <2> QED BY ONLY <1>1, cur \in Cursors, <1>5, <2>1, <2>2, RecursionIs
<1> HIDE DEF F, f
<1>12. /\ h[n] \in Cursors
       /\ h[n].err = "none" => cur.err = "none" /\ h[n].pos = cur.pos + Total(n, f)
  BY ONLY <1>1, cur \in Cursors, <1>3, <1>5, <1>6, <1>11, ReadInTurn
<1> QED BY <1>2, <1>9, <1>12

LEMMA WidthType == \A raw \in DOMAIN Width : Width[raw] \in Nat
BY DEF Width

LEMMA ReadArrayType ==
  ASSUME file.size \in Nat, NEW cur \in Cursors, NEW array, IsArray(array)
  PROVE  /\ ReadArray(cur, array) \in Cursors
         /\ ReadArray(cur, array).err = "none" =>
              cur.err = "none" /\ ReadArray(cur, array).pos = cur.pos + ArrayBytes(array)
<1> DEFINE type == Take(cur, 4)
           head == Take(type, 8)
           each == array.elem
           flat == Take(head, array.count * Width[each])
           bad == each = BOOL /\ \E i \in DOMAIN array.items : array.items[i] \notin {0, 1}
           read == ReadArray(cur, array)
           Goal == /\ read \in Cursors
                   /\ read.err = "none" =>
                        cur.err = "none" /\ read.pos = cur.pos + ArrayBytes(array)
<1>1. /\ type \in Cursors
      /\ type.err = "none" => cur.err = "none" /\ type.pos = cur.pos + 4
  BY TakeType
<1>2. /\ head \in Cursors
      /\ head.err = "none" => type.err = "none" /\ head.pos = type.pos + 8
  <2> HIDE DEF type
  <2> QED BY <1>1, TakeType
<1>3. cur.pos \in Int
  BY DEF Cursors
<1>4. read = IF cur.err # "none" THEN cur
             ELSE IF array.depth >= MaxArrayDepth THEN Fail(cur, "ArrayTooDeep")
             ELSE IF each = ARRAY THEN head
             ELSE IF each = STRING8 THEN ReadStrings(head, array.items)
             ELSE IF each \notin DOMAIN Width THEN Fail(head, "UnknownValueType")
             ELSE FailIf(flat, bad, "InvalidBool")
  BY DEF ReadArray
<1>5. "ArrayTooDeep" \in Errors \ {"none"} /\ "UnknownValueType" \in Errors \ {"none"}
      /\ "InvalidBool" \in Errors \ {"none"}
  BY DEF Errors
<1> SUFFICES Goal
  OBVIOUS
<1> HIDE DEF type, head, read
<1>6. head.err = "none" => cur.err = "none" /\ head.pos = cur.pos + 12
  BY <1>1, <1>2, <1>3
<1>7. CASE cur.err # "none"
  BY <1>4, <1>7
<1>8. CASE cur.err = "none" /\ array.depth >= MaxArrayDepth
  <2>1. read = Fail(cur, "ArrayTooDeep")
    BY <1>4, <1>8
  <2> QED BY <1>5, <2>1, FailType
<1>9. CASE cur.err = "none" /\ ~(array.depth >= MaxArrayDepth)
  <2>1. CASE each = ARRAY
    <3>1. read = head /\ ArrayBytes(array) = 12
      BY <1>4, <1>9, <2>1 DEF ArrayBytes
    <3> QED BY <1>2, <1>6, <3>1
  <2>2. CASE each # ARRAY /\ each = STRING8
    <3>1. read = ReadStrings(head, array.items) /\ ArrayBytes(array) = 12 + TextsBytes(array.items)
      BY <1>4, <1>9, <2>2 DEF ArrayBytes
    <3>2. IsSequence(array.items) /\ \A i \in DOMAIN array.items : IsText(array.items[i])
      BY <2>2 DEF IsArray
    <3>3. /\ read \in Cursors
          /\ read.err = "none" => head.err = "none" /\ read.pos = head.pos + TextsBytes(array.items)
      BY <1>2, <3>1, <3>2, ReadStringsType
    <3>4. TextsBytes(array.items) \in Int
      BY <3>2, TextsBytesType
    <3> QED BY <1>3, <1>6, <3>1, <3>3, <3>4
  <2>3. CASE each # ARRAY /\ each # STRING8 /\ each \notin DOMAIN Width
    <3>1. read = Fail(head, "UnknownValueType")
      BY <1>4, <1>9, <2>3
    <3> QED BY <1>2, <1>5, <3>1, FailType
  <2>4. CASE each # ARRAY /\ each # STRING8 /\ each \in DOMAIN Width
    <3> DEFINE bytes == array.count * Width[each]
    <3>1. read = FailIf(flat, bad, "InvalidBool") /\ ArrayBytes(array) = 12 + bytes
      BY <1>4, <1>9, <2>4 DEF ArrayBytes
    <3>2. bytes \in Nat
      <4>1. array.count \in Nat /\ Width[each] \in Nat
        BY <2>4, WidthType DEF IsArray
      <4> QED BY <4>1
    <3>3. flat = Take(head, bytes)
      OBVIOUS
    <3> HIDE DEF bytes, flat, bad
    <3>4. /\ flat \in Cursors
          /\ flat.err = "none" => head.err = "none" /\ flat.pos = head.pos + bytes
      BY <1>2, <3>2, <3>3, TakeType
    <3>5. /\ read \in Cursors
          /\ read.err = "none" => read = flat
      BY <1>5, <3>1, <3>4, FailType
    <3> QED BY <1>3, <1>6, <3>1, <3>2, <3>4, <3>5
  <2> QED BY <2>1, <2>2, <2>3, <2>4
<1> QED BY <1>7, <1>8, <1>9

LEMMA ArrayBytesType ==
  ASSUME NEW array, IsArray(array)
  PROVE  ArrayBytes(array) \in Int
<1>1. CASE array.elem = STRING8
  <2>1. TextsBytes(array.items) \in Int
    BY <1>1, TextsBytesType DEF IsArray
  <2> QED BY <1>1, <2>1 DEF ArrayBytes, STRING8, ARRAY
<1>2. CASE array.elem # STRING8 /\ array.elem # ARRAY /\ array.elem \in DOMAIN Width
  <2>1. array.count \in Nat /\ Width[array.elem] \in Nat
    BY <1>2, WidthType DEF IsArray
  <2>2. array.count * Width[array.elem] \in Int
    BY <2>1
  <2> QED BY <1>2, <2>2 DEF ArrayBytes
<1>3. CASE array.elem = ARRAY
  BY <1>3 DEF ArrayBytes
<1>4. CASE array.elem # STRING8 /\ array.elem # ARRAY /\ array.elem \notin DOMAIN Width
  BY <1>4 DEF ArrayBytes
<1> QED BY <1>1, <1>2, <1>3, <1>4

LEMMA ArraysBytesType ==
  ASSUME NEW arrays, IsSequence(arrays), \A i \in DOMAIN arrays : IsArray(arrays[i])
  PROVE  ArraysBytes(arrays) \in Int
<1> DEFINE n == Len(arrays)
           f == [k \in 1 .. n |-> ArrayBytes(arrays[k])]
<1>1. n \in Nat /\ \A k \in 1 .. n : IsArray(arrays[k])
  BY SequenceFacts
<1>2. f \in [1 .. n -> Int]
  <2> HIDE DEF n
  <2> QED BY <1>1, ArrayBytesType
<1>3. Total(n, f) \in Int
  <2> HIDE DEF n, f
  <2> QED BY ONLY <1>1, <1>2, TotalType
<1> QED BY <1>3 DEF ArraysBytes

LEMMA ReadArraysType ==
  ASSUME file.size \in Nat, NEW cur \in Cursors, NEW arrays, IsSequence(arrays),
         \A i \in DOMAIN arrays : IsArray(arrays[i])
  PROVE  /\ ReadArrays(cur, arrays) \in Cursors
         /\ ReadArrays(cur, arrays).err = "none" =>
              cur.err = "none" /\ ReadArrays(cur, arrays).pos = cur.pos + ArraysBytes(arrays)
<1> DEFINE n == Len(arrays)
           f == [k \in 1 .. n |-> ArrayBytes(arrays[k])]
           F == [k \in 1 .. n |-> [c \in Cursors |-> ReadArray(c, arrays[k])]]
           Q(h) == h = [k \in 0 .. n |-> IF k = 0 THEN cur ELSE ReadArray(h[k - 1], arrays[k])]
<1>1. n \in Nat /\ \A k \in 1 .. n : IsArray(arrays[k])
  BY SequenceFacts
<1>2. ReadArrays(cur, arrays) = (CHOOSE h : Q(h))[n] /\ ArraysBytes(arrays) = Total(n, f)
  BY DEF ReadArrays, ArraysBytes
<1> HIDE DEF n
<1>3. f \in [1 .. n -> Int]
  BY <1>1, ArrayBytesType
<1>4. \A k \in 1 .. n : \A c \in Cursors :
        /\ ReadArray(c, arrays[k]) \in Cursors
        /\ ReadArray(c, arrays[k]).err = "none" =>
             c.err = "none" /\ ReadArray(c, arrays[k]).pos = c.pos + ArrayBytes(arrays[k])
  BY <1>1, ReadArrayType
<1>5. F \in [1 .. n -> [Cursors -> Cursors]]
  BY <1>4
<1>6. \A k \in 1 .. n : \A c \in Cursors :
        F[k][c].err = "none" => c.err = "none" /\ F[k][c].pos = c.pos + f[k]
  <2>1. SUFFICES ASSUME NEW k \in 1 .. n, NEW c \in Cursors, ReadArray(c, arrays[k]).err = "none"
                 PROVE  c.err = "none" /\ ReadArray(c, arrays[k]).pos = c.pos + ArrayBytes(arrays[k])
    OBVIOUS
  <2> QED BY <1>4, <2>1
<1>7. PICK g : Recursion(g, n, Cursors, cur, F)
  <2> HIDE DEF F
  <2> QED BY ONLY <1>1, cur \in Cursors, <1>5, RecursionExists
<1>8. Q(g)
  <2>1. g \in [0 .. n -> Cursors] /\ g[0] = cur /\ \A k \in 1 .. n : g[k] = F[k][g[k - 1]]
    BY <1>7 DEF Recursion
  <2>2. ASSUME NEW k \in 1 .. n PROVE g[k] = ReadArray(g[k - 1], arrays[k])
    <3>1. g[k - 1] \in Cursors /\ F[k] = [c \in Cursors |-> ReadArray(c, arrays[k])]
      BY <1>1, <2>1
    <3> QED BY <2>1, <3>1
  <2> QED BY <1>1, <2>1, <2>2
<1> HIDE DEF Q
<1>9. PICK h : Q(h) /\ ReadArrays(cur, arrays) = h[n]
  <2>1. Q(CHOOSE h : Q(h))
    BY <1>8
  <2> QED BY <1>2, <2>1
<1>10. h = [k \in 0 .. n |-> IF k = 0 THEN cur ELSE ReadArray(h[k - 1], arrays[k])]
  BY <1>9 DEF Q
<1>11. Recursion(h, n, Cursors, cur, F)
  <2>1. h[0] = cur /\ FunctionOn(h, 0 .. n)
    BY <1>1, <1>10 DEF FunctionOn
  <2>2. \A k \in 1 .. n : h[k - 1] \in Cursors => h[k] = F[k][h[k - 1]]
    BY <1>1, <1>10
  <2> HIDE DEF F
  <2> QED BY ONLY <1>1, cur \in Cursors, <1>5, <2>1, <2>2, RecursionIs
<1> HIDE DEF F, f
<1>12. /\ h[n] \in Cursors
       /\ h[n].err = "none" => cur.err = "none" /\ h[n].pos = cur.pos + Total(n, f)
  BY ONLY <1>1, cur \in Cursors, <1>3, <1>5, <1>6, <1>11, ReadInTurn
<1> QED BY <1>2, <1>9, <1>12

LEMMA ReadValueType ==
  ASSUME file.size \in Nat, NEW cur \in Cursors, NEW value, IsValue(value)
  PROVE  /\ ReadValue(cur, value) \in Cursors
         /\ ReadValue(cur, value).err = "none" =>
              cur.err = "none" /\ ReadValue(cur, value).pos = cur.pos + ValueBytes(value)
<1>1. "UnknownValueType" \in Errors \ {"none"} /\ "InvalidBool" \in Errors \ {"none"}
  BY DEF Errors
<1>2. cur.pos \in Int
  BY DEF Cursors
<1>3. STRING8 # ARRAY /\ STRING8 \notin DOMAIN Width /\ ARRAY \notin DOMAIN Width
  BY DEF STRING8, ARRAY, Width
<1>4. CASE value.raw = STRING8
  <2>1. ReadValue(cur, value) = ReadString(cur, value.val) /\ ValueBytes(value) = 8 + value.val.len
    BY <1>3, <1>4 DEF ReadValue, ValueBytes, TextBytes
  <2>2. IsText(value.val) /\ value.val.len \in Int
    BY <1>4 DEF IsValue, IsText
  <2> QED BY <1>2, <2>1, <2>2, ReadStringType
<1>5. CASE value.raw = ARRAY
  <2>1. ReadValue(cur, value) = ReadArrays(cur, value.arrays) /\ ValueBytes(value) = ArraysBytes(value.arrays)
    BY <1>3, <1>5 DEF ReadValue, ValueBytes
  <2>2. IsSequence(value.arrays) /\ \A i \in DOMAIN value.arrays : IsArray(value.arrays[i])
    BY <1>5 DEF IsValue
  <2> QED BY <2>1, <2>2, ReadArraysType
<1>6. CASE value.raw \notin {STRING8, ARRAY} /\ value.raw \in DOMAIN Width
  <2> DEFINE bytes == Width[value.raw]
             taken == Take(cur, bytes)
             bad == value.raw = BOOL /\ value.val \notin {0, 1}
  <2>1. ReadValue(cur, value) = FailIf(taken, bad, "InvalidBool") /\ ValueBytes(value) = bytes
    BY <1>6 DEF ReadValue, ValueBytes
  <2>2. bytes \in Nat
    BY <1>6, WidthType
  <2> HIDE DEF bytes, bad
  <2>3. /\ taken \in Cursors
        /\ taken.err = "none" => cur.err = "none" /\ taken.pos = cur.pos + bytes
    BY <2>2, TakeType
  <2> HIDE DEF taken
  <2> QED BY <1>1, <2>1, <2>3, FailType
<1>7. CASE value.raw \notin {STRING8, ARRAY} /\ value.raw \notin DOMAIN Width
  <2>1. ReadValue(cur, value) = Fail(cur, "UnknownValueType")
    BY <1>7 DEF ReadValue
  <2> QED BY <1>1, <2>1, FailType
<1> QED BY <1>4, <1>5, <1>6, <1>7

LEMMA ValueBytesType ==
  ASSUME NEW value, IsValue(value)
  PROVE  ValueBytes(value) \in Int
<1>1. CASE value.raw = STRING8
  BY <1>1 DEF ValueBytes, IsValue, IsText, TextBytes
<1>2. CASE value.raw # STRING8 /\ value.raw = ARRAY
  BY <1>2, ArraysBytesType DEF ValueBytes, IsValue
<1>3. CASE value.raw \notin {STRING8, ARRAY} /\ value.raw \in DOMAIN Width
  BY <1>3, WidthType DEF ValueBytes
<1>4. CASE value.raw \notin {STRING8, ARRAY} /\ value.raw \notin DOMAIN Width
  BY <1>4 DEF ValueBytes
<1> QED BY <1>1, <1>2, <1>3, <1>4

-----------------------------------------------------------------------------
(* The fields of a file.                                                    *)

LEMMA FileFacts ==
  ASSUME file \in Files
  PROVE  /\ file.size \in Nat
         /\ Len(file.metadata) \in Nat /\ DOMAIN file.metadata = 1 .. Len(file.metadata)
         /\ Len(file.tensors) \in Nat /\ DOMAIN file.tensors = 1 .. Len(file.tensors)
         /\ \A i \in 1 .. Len(file.metadata) :
              IsText(file.metadata[i].key) /\ IsValue(file.metadata[i].value)
         /\ \A i \in 1 .. Len(file.tensors) :
              /\ IsText(file.tensors[i].name) /\ file.tensors[i].dims \in Seq(Nat)
              /\ file.tensors[i].offset \in Nat
<1>1. IsFile(file)
  BY FilesAssumption
<1>2. IsSequence(file.metadata) /\ IsSequence(file.tensors)
  BY <1>1 DEF IsFile
<1>3. /\ Len(file.metadata) \in Nat /\ DOMAIN file.metadata = 1 .. Len(file.metadata)
      /\ Len(file.tensors) \in Nat /\ DOMAIN file.tensors = 1 .. Len(file.tensors)
  BY <1>2, SequenceFacts
<1> QED BY <1>1, <1>3 DEF IsFile

LEMMA EntryBytesType ==
  ASSUME NEW kv, IsText(kv.key), IsValue(kv.value)
  PROVE  EntryBytes(kv) \in Int
<1>1. ValueBytes(kv.value) \in Int
  BY ValueBytesType
<1>2. TextBytes(kv.key) \in Int
  BY DEF TextBytes, IsText
<1> QED BY <1>1, <1>2 DEF EntryBytes

(* The cursor behind a metadata entry.                                      *)
EntryEnd(kv) ==
  FailIf(ReadValue(Take(ReadString(Cursor(pos), kv.key), 4), kv.value), Has(kv.key.name), "DuplicateKey")

LEMMA EntryEndType ==
  ASSUME file.size \in Nat, pos \in 0 .. file.size, NEW kv, IsText(kv.key), IsValue(kv.value)
  PROVE  /\ EntryEnd(kv) \in Cursors
         /\ EntryEnd(kv).err = "none" =>
              EntryEnd(kv).pos = pos + EntryBytes(kv) /\ ~Has(kv.key.name)
<1> DEFINE key == ReadString(Cursor(pos), kv.key)
           raw == Take(key, 4)
           value == ReadValue(raw, kv.value)
<1>1. Cursor(pos) \in Cursors /\ Cursor(pos).pos = pos
  BY CursorType
<1>2. /\ key \in Cursors
      /\ key.err = "none" => key.pos = pos + 8 + kv.key.len
  BY <1>1, ReadStringType
<1> HIDE DEF key
<1>3. /\ raw \in Cursors
      /\ raw.err = "none" => key.err = "none" /\ raw.pos = key.pos + 4
  BY <1>2, TakeType
<1> HIDE DEF raw
<1>4. /\ value \in Cursors
      /\ value.err = "none" => raw.err = "none" /\ value.pos = raw.pos + ValueBytes(kv.value)
  BY <1>3, ReadValueType
<1>5. EntryEnd(kv) = FailIf(value, Has(kv.key.name), "DuplicateKey")
  BY DEF EntryEnd, key, raw
<1> HIDE DEF value
<1>6. "DuplicateKey" \in Errors \ {"none"}
  BY DEF Errors
<1>7. /\ EntryEnd(kv) \in Cursors
      /\ EntryEnd(kv).err = "none" => ~Has(kv.key.name) /\ EntryEnd(kv) = value
  BY <1>4, <1>5, <1>6, FailType
<1>8. pos \in Int /\ kv.key.len \in Int /\ ValueBytes(kv.value) \in Int
  BY ValueBytesType DEF IsText
<1>9. EntryBytes(kv) = (8 + kv.key.len) + 4 + ValueBytes(kv.value)
  BY DEF EntryBytes, TextBytes
<1> QED BY <1>2, <1>3, <1>4, <1>7, <1>8, <1>9

-----------------------------------------------------------------------------
(* Tensors.                                                                 *)

Counts == 0 .. MaxU64 \cup {None}

LEMMA ProductFollows ==
  ASSUME NEW dims \in Seq(Nat)
  PROVE  \E g \in [0 .. Len(dims) -> Counts] :
           /\ g[0] = 1 /\ Product(dims) = g[Len(dims)]
           /\ \A n \in 1 .. Len(dims) :
                g[n] = IF g[n - 1] = None THEN None ELSE Checked(g[n - 1] * dims[n])
<1> DEFINE N == Len(dims)
           Step(x, n) == IF x = None THEN None ELSE Checked(x * dims[n])
           F == [n \in 1 .. N |-> [x \in Counts |-> Step(x, n)]]
           Q(h) == h = [n \in 0 .. N |-> IF n = 0 THEN 1
                                         ELSE IF h[n - 1] = None THEN None
                                         ELSE Checked(h[n - 1] * dims[n])]
<1>1. N \in Nat /\ \A n \in 1 .. N : dims[n] \in Nat
  OBVIOUS
<1>2. Product(dims) = (CHOOSE h : Q(h))[N]
  BY DEF Product
<1> HIDE DEF N
<1>3. 1 \in Counts
  BY WidthAssumption DEF Counts
<1>4. \A n \in 1 .. N : \A x \in Counts : Step(x, n) \in Counts
  <2>1. SUFFICES ASSUME NEW n \in 1 .. N, NEW x \in Counts, x # None
                 PROVE  Checked(x * dims[n]) \in Counts
    BY DEF Counts
  <2>2. x * dims[n] \in Nat
    <3>1. x \in Nat /\ dims[n] \in Nat
      BY <1>1, <2>1, WidthAssumption DEF Counts
    <3> QED BY <3>1
  <2> QED BY <2>2, WidthAssumption DEF Checked, Counts
<1>5. F \in [1 .. N -> [Counts -> Counts]]
  BY <1>4
<1>6. PICK g : Recursion(g, N, Counts, 1, F)
  <2> HIDE DEF F
  <2> QED BY ONLY <1>1, <1>3, <1>5, RecursionExists
<1>7. Q(g)
  <2>1. g \in [0 .. N -> Counts] /\ g[0] = 1 /\ \A n \in 1 .. N : g[n] = F[n][g[n - 1]]
    BY <1>6 DEF Recursion
  <2>2. ASSUME NEW n \in 1 .. N PROVE g[n] = Step(g[n - 1], n)
    <3>1. g[n - 1] \in Counts /\ F[n] = [x \in Counts |-> Step(x, n)]
      BY <1>1, <2>1
    <3> HIDE DEF Step
    <3> QED BY <2>1, <3>1
  <2> QED BY <1>1, <2>1, <2>2
<1> HIDE DEF Q
<1>8. PICK h : Q(h) /\ Product(dims) = h[N]
  <2>1. Q(CHOOSE h : Q(h))
    BY <1>7
  <2> QED BY <1>2, <2>1
<1>9. h = [n \in 0 .. N |-> IF n = 0 THEN 1 ELSE Step(h[n - 1], n)]
  BY <1>8 DEF Q
<1>10. Recursion(h, N, Counts, 1, F)
  <2> HIDE DEF Step
  <2>1. h[0] = 1 /\ FunctionOn(h, 0 .. N)
    BY <1>1, <1>9 DEF FunctionOn
  <2>2. \A n \in 1 .. N : h[n - 1] \in Counts => h[n] = F[n][h[n - 1]]
    BY <1>1, <1>9
  <2> HIDE DEF F
  <2> QED BY ONLY <1>1, <1>3, <1>5, <2>1, <2>2, RecursionIs
<1>11. h \in [0 .. N -> Counts] /\ h[0] = 1 /\ \A n \in 1 .. N : h[n] = Step(h[n - 1], n)
  <2> HIDE DEF Step
  <2>1. h \in [0 .. N -> Counts] /\ h[0] = 1
    BY <1>10 DEF Recursion
  <2> QED BY <1>1, <1>9, <2>1
<1> QED BY <1>8, <1>11 DEF N

LEMMA ProductType == ASSUME NEW dims \in Seq(Nat) PROVE Product(dims) \in Counts
<1>1. PICK g \in [0 .. Len(dims) -> Counts] : Product(dims) = g[Len(dims)]
  BY ProductFollows
<1> QED BY <1>1

LEMMA FromRawType == \A raw \in DOMAIN FromRaw : FromRaw[raw] \in GgmlType
BY DEF FromRaw, GgmlType

LEMMA BlockSizes ==
  \A type \in GgmlType : BlockElems[type] \in Nat \ {0} /\ BlockBytes[type] \in Nat \ {0}
BY DEF GgmlType, BlockElems, BlockBytes

(* A whole number of blocks takes that many times the bytes of one.         *)
LEMMA ByteLenFacts ==
  ASSUME NEW type \in GgmlType, NEW elems \in Nat, ByteLen(type, elems) # None
  PROVE  /\ ByteLen(type, elems) \in Nat
         /\ elems \div BlockElems[type] \in Nat
         /\ elems = BlockElems[type] * (elems \div BlockElems[type])
         /\ ByteLen(type, elems) = (elems \div BlockElems[type]) * BlockBytes[type]
<1> DEFINE e == BlockElems[type]
           b == BlockBytes[type]
           q == elems \div e
<1>1. e \in Nat \ {0} /\ b \in Nat \ {0}
  BY BlockSizes
<1>2. (elems % e) = 0 /\ ByteLen(type, elems) = q * b
  BY DEF ByteLen, Checked
<1> HIDE DEF e, b
<1>3. q \in Int /\ elems = e * q + (elems % e)
  BY <1>1, DivModInt
<1>4. q \in Nat
  <2>1. SUFFICES ASSUME q < 0 PROVE FALSE
    BY <1>3
  <2>2. e * q + e <= e * 0
    BY <1>1, <1>3, <2>1, MulGap
  <2> QED BY <1>1, <1>2, <1>3, <2>2
<1>5. q * b \in Nat
  <2> HIDE DEF q
  <2> QED BY <1>1, <1>4
<1>6. elems = e * q
  <2> HIDE DEF q
  <2> QED BY <1>1, <1>2, <1>3, <1>4
<1>7. ByteLen(type, elems) \in Nat
  BY <1>2, <1>5
<1> QED BY ONLY <1>2, <1>4, <1>6, <1>7 DEF e, b, q

Elements(t) == Product(t.dims)
Bytes(t) == ByteLen(FromRaw[t.raw], Elements(t))
InfoOK(t) == t.raw \in DOMAIN FromRaw /\ Elements(t) # None /\ Bytes(t) # None

LEMMA InfoFacts ==
  ASSUME NEW t, t.dims \in Seq(Nat), InfoOK(t)
  PROVE  /\ FromRaw[t.raw] \in GgmlType /\ Elements(t) \in Nat /\ Bytes(t) \in Nat
         /\ Elements(t) \div BlockElems[FromRaw[t.raw]] \in Nat
         /\ Elements(t) = BlockElems[FromRaw[t.raw]] * (Elements(t) \div BlockElems[FromRaw[t.raw]])
         /\ Bytes(t) = (Elements(t) \div BlockElems[FromRaw[t.raw]]) * BlockBytes[FromRaw[t.raw]]
<1>1. FromRaw[t.raw] \in GgmlType
  BY FromRawType DEF InfoOK
<1>2. Elements(t) \in Nat
  BY ProductType DEF InfoOK, Elements, Counts
<1> QED BY <1>1, <1>2, ByteLenFacts DEF InfoOK, Bytes

(* The cursor behind an entry of the tensor table.                          *)
InfoEnd(t) ==
  LET n == FailIf(Take(ReadString(Cursor(pos), t.name), 4), Len(t.dims) > MaxDims, "TooManyDims")
      cur == Take(Take(Take(n, 8 * Len(t.dims)), 4), 8)
      known == FailIf(cur, t.raw \notin DOMAIN FromRaw, "UnsupportedTensorType")
      sized == FailIf(known, Elements(t) = None, "DimOverflow")
      blocks == IF sized.err = "none" /\ Bytes(t) = None THEN Fail(sized, "BadBlockCount") ELSE sized
  IN FailIf(blocks, \E i \in DOMAIN table : table[i].name = t.name.name, "DuplicateTensor")

LEMMA InfoEndType ==
  ASSUME file.size \in Nat, pos \in 0 .. file.size, NEW t, IsText(t.name), t.dims \in Seq(Nat)
  PROVE  /\ InfoEnd(t) \in Cursors
         /\ InfoEnd(t).err = "none" =>
              /\ InfoEnd(t).pos = pos + InfoBytes(t) /\ InfoOK(t)
              /\ \A i \in DOMAIN table : table[i].name # t.name.name
<1> DEFINE name == ReadString(Cursor(pos), t.name)
           count == Take(name, 4)
           n == FailIf(count, Len(t.dims) > MaxDims, "TooManyDims")
           dims == Take(n, 8 * Len(t.dims))
           raw == Take(dims, 4)
           cur == Take(raw, 8)
           known == FailIf(cur, t.raw \notin DOMAIN FromRaw, "UnsupportedTensorType")
           sized == FailIf(known, Elements(t) = None, "DimOverflow")
           blocks == IF sized.err = "none" /\ Bytes(t) = None THEN Fail(sized, "BadBlockCount") ELSE sized
           twice == \E i \in DOMAIN table : table[i].name = t.name.name
<1> DEFINE long == 8 * Len(t.dims)
           many == Len(t.dims) > MaxDims
<1>0. /\ {"TooManyDims", "UnsupportedTensorType", "DimOverflow", "BadBlockCount", "DuplicateTensor"}
           \subseteq Errors \ {"none"}
      /\ long \in Nat /\ t.name.len \in Nat /\ pos \in Nat
  BY DEF Errors, IsText
<1>1. /\ name \in Cursors
      /\ name.err = "none" => name.pos = pos + 8 + t.name.len
  BY CursorType, ReadStringType
<1>2. InfoEnd(t) = FailIf(blocks, twice, "DuplicateTensor")
  BY DEF InfoEnd
<1>3. InfoBytes(t) = 8 + t.name.len + 4 + long + 4 + 8
  BY DEF InfoBytes, TextBytes
<1> HIDE DEF name, long, many, twice
<1>4. /\ count \in Cursors
      /\ count.err = "none" => name.err = "none" /\ count.pos = name.pos + 4
  BY <1>1, TakeType
<1> HIDE DEF count
<1>5. n \in Cursors /\ (n.err = "none" => n = count)
  BY <1>0, <1>4, FailType
<1> HIDE DEF n
<1>6. /\ dims \in Cursors
      /\ dims.err = "none" => n.err = "none" /\ dims.pos = n.pos + long
  BY <1>0, <1>5, TakeType DEF long
<1> HIDE DEF dims
<1>7. /\ raw \in Cursors
      /\ raw.err = "none" => dims.err = "none" /\ raw.pos = dims.pos + 4
  BY <1>6, TakeType
<1> HIDE DEF raw
<1>8. /\ cur \in Cursors
      /\ cur.err = "none" => raw.err = "none" /\ cur.pos = raw.pos + 8
  BY <1>7, TakeType
<1> HIDE DEF cur
<1>9. known \in Cursors /\ (known.err = "none" => known = cur /\ t.raw \in DOMAIN FromRaw)
  BY <1>0, <1>8, FailType
<1> HIDE DEF known
<1>10. sized \in Cursors /\ (sized.err = "none" => sized = known /\ Elements(t) # None)
  BY <1>0, <1>9, FailType
<1> HIDE DEF sized
<1>11. blocks \in Cursors /\ (blocks.err = "none" => blocks = sized /\ Bytes(t) # None)
  BY <1>0, <1>10, FailType
<1> HIDE DEF blocks
<1>12. InfoEnd(t) \in Cursors /\ (InfoEnd(t).err = "none" => InfoEnd(t) = blocks /\ ~twice)
  BY <1>0, <1>2, <1>11, FailType
<1>13. SUFFICES ASSUME InfoEnd(t).err = "none"
                PROVE  InfoEnd(t).pos = pos + InfoBytes(t) /\ InfoOK(t) /\ ~twice
  BY <1>12 DEF twice
<1>14. blocks.err = "none" /\ sized.err = "none" /\ known.err = "none" /\ cur.err = "none"
  BY <1>9, <1>10, <1>11, <1>12, <1>13
<1>15. raw.err = "none" /\ dims.err = "none" /\ n.err = "none" /\ count.err = "none"
       /\ name.err = "none"
  BY <1>4, <1>5, <1>6, <1>7, <1>8, <1>14
<1>16. InfoOK(t)
  BY <1>9, <1>10, <1>11, <1>14 DEF InfoOK
<1>17. InfoEnd(t).pos = cur.pos
  BY <1>9, <1>10, <1>11, <1>12, <1>13, <1>14
<1>18. cur.pos = pos + 8 + t.name.len + 4 + long + 4 + 8
  BY <1>0, <1>1, <1>4, <1>5, <1>6, <1>7, <1>8, <1>14, <1>15
<1>19. InfoEnd(t).pos = pos + InfoBytes(t)
  <2> DEFINE p == InfoEnd(t).pos
             l == t.name.len
             b == InfoBytes(t)
  <2>1. /\ p = pos + 8 + l + 4 + long + 4 + 8
        /\ b = 8 + l + 4 + long + 4 + 8
        /\ l \in Nat /\ long \in Nat /\ pos \in Nat
    BY <1>0, <1>3, <1>17, <1>18
  <2> HIDE DEF p, l, b
  <2>2. p = pos + b
    BY ONLY <2>1
  <2> QED BY <2>2 DEF p, b
<1> QED BY <1>12, <1>13, <1>16, <1>19

-----------------------------------------------------------------------------
(* The parser's invariant.                                                  *)

ParseTypeOK ==
  /\ file \in Files
  /\ phase \in {"header", "metadata", "tensors", "ranges", "parsed", "failed"}
  /\ error = "none" <=> phase # "failed"
  /\ pos \in 0 .. file.size /\ start \in 0 .. file.size
  /\ align \in Nat \ {0} /\ at \in Nat \ {0}

(* The metadata that has been read, each key once.                          *)
MetaRead(n) ==
  /\ DOMAIN meta = {file.metadata[i].key.name : i \in 1 .. n}
  /\ \A i \in 1 .. n : meta[file.metadata[i].key.name] = file.metadata[i].value

MetaInv ==
  /\ phase = "header" => MetaRead(0) /\ at = 1
  /\ phase = "metadata" => at <= Len(file.metadata) + 1 /\ MetaRead(at - 1)
  /\ phase \in {"tensors", "ranges", "parsed"} =>
       MetaRead(Len(file.metadata)) /\ align = DeclaredAlignment(file)

(* The table that has been read, each name once.                            *)
Info(i) ==
  LET t == file.tensors[i]
  IN [name |-> t.name.name, dims |-> t.dims, dtype |-> FromRaw[t.raw], offset |-> t.offset,
      byteLen |-> Bytes(t)]

TableRead(n) ==
  /\ table = [i \in 1 .. n |-> Info(i)]
  /\ \A i \in 1 .. n : InfoOK(file.tensors[i])
  /\ \A i, j \in 1 .. n : Info(i).name = Info(j).name => i = j

TableInv ==
  /\ phase \in {"header", "metadata"} => TableRead(0)
  /\ phase = "tensors" => at <= Len(file.tensors) + 1 /\ TableRead(at - 1)
  /\ phase \in {"ranges", "parsed"} => TableRead(Len(file.tensors))

(* The data section begins where the table says it does.                    *)
StartInv ==
  phase \in {"ranges", "parsed"} =>
    /\ pos <= DataStart(pos, align)
    /\ table # <<>> => start = DataStart(pos, align)

(* The ranges that have been checked.                                       *)
RangesInv ==
  /\ phase = "ranges" => at <= Len(table) + 1
  /\ \A i \in 1 .. Len(table) :
       phase = "parsed" \/ (phase = "ranges" /\ i < at) => RangeError(table[i], align, DataLen) = "none"

(* The cursor is at the field that is read next.                            *)
Layout(m, t) ==
  /\ m \in [0 .. Len(file.metadata) -> Int] /\ t \in [0 .. Len(file.tensors) -> Int]
  /\ m[0] = 24 /\ t[0] = m[Len(file.metadata)]
  /\ \A i \in 1 .. Len(file.metadata) : m[i] = m[i - 1] + EntryBytes(file.metadata[i])
  /\ \A i \in 1 .. Len(file.tensors) : t[i] = t[i - 1] + InfoBytes(file.tensors[i])

PosInv ==
  \A m, t : Layout(m, t) =>
    /\ phase = "header" => pos = 0
    /\ phase = "metadata" => pos = m[at - 1]
    /\ phase = "tensors" => pos = t[at - 1]
    /\ phase \in {"ranges", "parsed"} => pos = t[Len(file.tensors)]

ParseInv == ParseTypeOK /\ MetaInv /\ TableInv /\ StartInv /\ RangesInv /\ PosInv

-----------------------------------------------------------------------------
(* The steps of the parser keep it.                                         *)

LEMMA ParseInvInit == file \in Files /\ ParseInit => ParseInv
<1> SUFFICES ASSUME file \in Files, ParseInit PROVE ParseInv
  OBVIOUS
<1> USE DEF ParseInit
<1>1. file.size \in Nat /\ table = <<>> /\ Len(table) = 0
  BY FileFacts
<1>2. ParseTypeOK
  BY <1>1, AlignmentAssumption DEF ParseTypeOK
<1>3. MetaInv
  BY DEF MetaInv, MetaRead
<1>4. TableInv
  BY DEF TableInv, TableRead
<1>5. StartInv /\ PosInv
  BY DEF StartInv, PosInv
<1>6. RangesInv
  BY <1>1 DEF RangesInv
<1> QED BY <1>2, <1>3, <1>4, <1>5, <1>6 DEF ParseInv

LEMMA StopKeeps ==
  ASSUME ParseInv, NEW err, err # "none", Stop(err)
  PROVE  ParseInv'
<1> USE DEF Stop
<1>1. ParseTypeOK'
  BY DEF ParseInv, ParseTypeOK
<1>2. MetaInv' /\ TableInv' /\ StartInv' /\ RangesInv' /\ PosInv'
  BY DEF MetaInv, TableInv, StartInv, RangesInv, PosInv
<1> QED BY <1>1, <1>2 DEF ParseInv

LEMMA HeaderKeeps == ASSUME ParseInv, ReadHeader PROVE ParseInv'
<1> DEFINE magic == FailIf(Take(Cursor(0), 4), file.magic # Magic, "BadMagic")
           version == FailIf(Take(magic, 4), file.version # Version, "UnsupportedVersion")
           tensors == Take(version, 8)
           counts == Take(tensors, 8)
<1>0. file \in Files /\ file.size \in Nat /\ phase = "header"
  BY FileFacts DEF ParseInv, ParseTypeOK, ReadHeader
<1>1. /\ {"BadMagic", "UnsupportedVersion"} \subseteq Errors \ {"none"}
      /\ Cursor(0) \in Cursors /\ Cursor(0).pos = 0
  BY <1>0, CursorType DEF Errors
<1>2. magic \in Cursors /\ (magic.err = "none" => magic.pos = 4)
  BY <1>0, <1>1, TakeType, FailType
<1> HIDE DEF magic
<1>3. version \in Cursors /\ (version.err = "none" => version.pos = 8)
  <2>1. /\ Take(magic, 4) \in Cursors
        /\ Take(magic, 4).err = "none" => magic.err = "none" /\ Take(magic, 4).pos = magic.pos + 4
    BY <1>0, <1>2, TakeType
  <2>2. version \in Cursors /\ (version.err = "none" => version = Take(magic, 4))
    BY <1>1, <2>1, FailType
  <2> QED BY <1>2, <2>1, <2>2
<1>4. IF counts.err # "none" THEN Stop(counts.err)
      ELSE /\ pos' = counts.pos /\ phase' = "metadata"
           /\ UNCHANGED <<file, meta, table, align, start, at, error>>
  BY DEF ReadHeader, magic
<1> HIDE DEF version
<1>5. tensors \in Cursors /\ (tensors.err = "none" => version.err = "none" /\ tensors.pos = version.pos + 8)
  BY <1>0, <1>3, TakeType
<1> HIDE DEF tensors
<1>6. counts \in Cursors /\ (counts.err = "none" => tensors.err = "none" /\ counts.pos = tensors.pos + 8)
  BY <1>0, <1>5, TakeType
<1> HIDE DEF counts
<1>7. CASE counts.err # "none"
  BY <1>4, <1>7, StopKeeps
<1>8. CASE counts.err = "none"
  <2>1. counts.pos = 24 /\ counts.pos \in 0 .. file.size
    BY <1>3, <1>5, <1>6, <1>8 DEF Cursors
  <2>2. /\ pos' = 24 /\ phase' = "metadata"
        /\ file' = file /\ meta' = meta /\ table' = table /\ align' = align /\ start' = start
        /\ at' = at /\ error' = error
    BY <1>4, <1>8, <2>1
  <2>3. at = 1 /\ MetaRead(0) /\ TableRead(0) /\ Len(file.metadata) \in Nat
    BY <1>0, FileFacts DEF ParseInv, MetaInv, TableInv
  <2>4. ParseTypeOK'
    BY <1>0, <2>1, <2>2 DEF ParseInv, ParseTypeOK
  <2>5. MetaInv'
    <3>1. MetaRead(0)'
      BY <2>2, <2>3 DEF MetaRead
    <3>2. at' <= Len(file'.metadata) + 1 /\ at' - 1 = 0
      BY <2>2, <2>3
    <3> QED BY <2>2, <3>1, <3>2 DEF MetaInv
  <2>6. TableInv'
    <3>1. TableRead(0)'
      BY <2>2, <2>3 DEF TableRead
    <3> QED BY <2>2, <3>1 DEF TableInv
  <2>7. StartInv' /\ RangesInv'
    BY <1>0, <2>2 DEF StartInv, RangesInv
  <2>8. PosInv'
    <3>1. at' - 1 = 0
      BY <2>2, <2>3
    <3> QED BY <2>2, <3>1 DEF PosInv, Layout
  <2> QED BY <2>4, <2>5, <2>6, <2>7, <2>8 DEF ParseInv
<1> QED BY <1>7, <1>8

LEMMA EntryKeeps == ASSUME ParseInv, ReadEntry PROVE ParseInv'
<1> DEFINE kv == file.metadata[at]
           end == EntryEnd(kv)
<1>1. /\ file \in Files /\ file.size \in Nat /\ pos \in 0 .. file.size /\ phase = "metadata"
      /\ Len(file.metadata) \in Nat /\ at \in 1 .. Len(file.metadata)
      /\ IsText(kv.key) /\ IsValue(kv.value)
  BY FileFacts DEF ParseInv, ParseTypeOK, ReadEntry
<1>2. /\ end \in Cursors
      /\ end.err = "none" => end.pos = pos + EntryBytes(kv) /\ ~Has(kv.key.name)
  BY <1>1, EntryEndType
<1>3. IF end.err # "none" THEN Stop(end.err)
      ELSE /\ pos' = end.pos /\ at' = at + 1
           /\ meta' = With(meta, kv.key.name, kv.value)
           /\ UNCHANGED <<file, table, align, start, phase, error>>
  BY DEF ReadEntry, EntryEnd
<1> HIDE DEF end
<1>4. CASE end.err # "none"
  BY <1>3, <1>4, StopKeeps
<1>5. CASE end.err = "none"
  <2>1. /\ pos' = pos + EntryBytes(kv) /\ pos' \in 0 .. file.size /\ kv.key.name \notin DOMAIN meta
        /\ at' = at + 1 /\ meta' = With(meta, kv.key.name, kv.value)
    BY <1>2, <1>3, <1>5 DEF Cursors, Has
  <2>2. /\ file' = file /\ table' = table /\ align' = align /\ start' = start
        /\ phase' = phase /\ error' = error
    BY <1>3, <1>5
  <2>3. MetaRead(at - 1) /\ TableRead(0)
    BY <1>1 DEF ParseInv, MetaInv, TableInv
  <2>4. ParseTypeOK'
    BY <1>1, <2>1, <2>2 DEF ParseInv, ParseTypeOK
  <2>5. MetaInv'
    <3>1. DOMAIN meta' = {file.metadata[i].key.name : i \in 1 .. at}
      <4>1. DOMAIN meta' = DOMAIN meta \cup {kv.key.name}
        BY <2>1 DEF With
      <4>2. DOMAIN meta = {file.metadata[i].key.name : i \in 1 .. at - 1}
        BY <2>3 DEF MetaRead
      <4>3. \A i \in 1 .. at : i = at \/ i \in 1 .. at - 1
        BY <1>1
      <4>4. \A i \in 1 .. at - 1 : i \in 1 .. at
        BY <1>1
      <4> QED BY <1>1, <4>1, <4>2, <4>3, <4>4
    <3>2. ASSUME NEW i \in 1 .. at
          PROVE  meta'[file.metadata[i].key.name] = file.metadata[i].value
      <4>1. CASE i = at
        BY <2>1, <4>1 DEF With
      <4>2. CASE i # at
        <5>1. i \in 1 .. at - 1
          BY <1>1, <4>2
        <5>2. /\ file.metadata[i].key.name \in DOMAIN meta
              /\ meta[file.metadata[i].key.name] = file.metadata[i].value
          BY <2>3, <5>1 DEF MetaRead
        <5> QED BY <2>1, <5>2 DEF With
      <4> QED BY <4>1, <4>2
    <3>3. at' - 1 = at /\ at' <= Len(file'.metadata) + 1
      BY <1>1, <2>1, <2>2
    <3>4. MetaRead(at - 1)'
      BY <2>2, <3>1, <3>2, <3>3 DEF MetaRead
    <3> QED BY <1>1, <2>2, <3>3, <3>4 DEF MetaInv
  <2>6. TableInv'
    <3>1. TableRead(0)'
      BY <2>2, <2>3 DEF TableRead
    <3> QED BY <1>1, <2>2, <3>1 DEF TableInv
  <2>7. StartInv' /\ RangesInv'
    BY <1>1, <2>2 DEF StartInv, RangesInv
  <2>8. PosInv'
    <3>1. SUFFICES ASSUME NEW m, NEW t, Layout(m, t) PROVE pos' = m[at' - 1]
      BY <1>1, <2>2, ZenonT(60) DEF PosInv, Layout
    <3>2. pos = m[at - 1]
      BY <1>1, <3>1 DEF ParseInv, PosInv
    <3>3. m[at] = m[at - 1] + EntryBytes(kv)
      BY <1>1, <3>1 DEF Layout
    <3>4. at' - 1 = at
      BY <1>1, <2>1
    <3> QED BY <2>1, <3>2, <3>3, <3>4
  <2> QED BY <2>4, <2>5, <2>6, <2>7, <2>8 DEF ParseInv
<1> QED BY <1>4, <1>5

LEMMA EndMetadataKeeps == ASSUME ParseInv, EndMetadata PROVE ParseInv'
<1> DEFINE key == "general.alignment"
           declared == meta[key]
           keys == AlignmentKeys(file)
<1>1. /\ file \in Files /\ phase = "metadata" /\ Len(file.metadata) \in Nat
      /\ at = Len(file.metadata) + 1 /\ at \in Nat
      /\ \A i \in 1 .. Len(file.metadata) : IsValue(file.metadata[i].value)
  BY FileFacts DEF ParseInv, ParseTypeOK, MetaInv, EndMetadata
<1>2. MetaRead(Len(file.metadata)) /\ TableRead(0)
  BY <1>1 DEF ParseInv, MetaInv, TableInv
<1>3. CASE Has(key) /\ ~IsUint(declared)
  BY <1>3, StopKeeps DEF EndMetadata
<1>4. CASE Has(key) /\ IsUint(declared) /\ ~PowerOfTwo(declared.val)
  BY <1>4, StopKeeps DEF EndMetadata
<1>5. CASE ~Has(key) \/ (IsUint(declared) /\ PowerOfTwo(declared.val))
  <2>1. /\ align' = IF Has(key) THEN declared.val ELSE DefaultAlignment
        /\ at' = 1 /\ phase' = "tensors"
        /\ file' = file /\ pos' = pos /\ meta' = meta /\ table' = table /\ start' = start /\ error' = error
    BY <1>5 DEF EndMetadata
  <2>2. align' = DeclaredAlignment(file) /\ align' \in Nat \ {0}
    <3>1. Has(key) <=> keys # {}
      BY <1>2 DEF Has, MetaRead, AlignmentKeys
    <3>2. CASE Has(key)
      <4>1. PICK i \in 1 .. Len(file.metadata) : i = CHOOSE k \in keys : TRUE
        BY <3>1, <3>2 DEF AlignmentKeys
      <4>2. i \in keys
        BY <3>1, <3>2, <4>1
      <4>3. declared = file.metadata[i].value
        BY <1>2, <4>2 DEF MetaRead, AlignmentKeys
      <4>4. IsUint(declared) /\ PowerOfTwo(declared.val) /\ IsValue(declared)
        BY <1>1, <1>5, <3>2, <4>3
      <4>5. declared.val \in Nat \ {0}
        BY <4>4 DEF IsValue, PowerOfTwo
      <4> QED BY <2>1, <3>1, <3>2, <4>1, <4>3, <4>5 DEF DeclaredAlignment
    <3>3. CASE ~Has(key)
      BY <2>1, <3>1, <3>3, AlignmentAssumption DEF DeclaredAlignment
    <3> QED BY <3>2, <3>3
  <2>3. ParseTypeOK'
    BY <1>1, <2>1, <2>2 DEF ParseInv, ParseTypeOK
  <2>4. MetaInv'
    <3>1. MetaRead(Len(file.metadata))'
      BY <1>2, <2>1 DEF MetaRead
    <3>2. DeclaredAlignment(file)' = DeclaredAlignment(file)
      BY <2>1 DEF DeclaredAlignment, AlignmentKeys
    <3> QED BY <2>1, <2>2, <3>1, <3>2 DEF MetaInv
  <2>5. TableInv'
    <3>1. TableRead(0)' /\ at' - 1 = 0 /\ Len(file.tensors)' \in Nat
      BY <1>1, <1>2, <2>1, FileFacts DEF TableRead
    <3> QED BY <2>1, <3>1 DEF TableInv
  <2>6. StartInv' /\ RangesInv'
    BY <2>1 DEF StartInv, RangesInv
  <2>7. PosInv'
    <3>1. SUFFICES ASSUME NEW m, NEW t, Layout(m, t) PROVE pos' = t[at' - 1]
      BY <2>1 DEF PosInv, Layout
    <3>2. pos = m[at - 1] /\ at - 1 = Len(file.metadata)
      BY <1>1, <3>1 DEF ParseInv, PosInv
    <3>3. t[0] = m[Len(file.metadata)] /\ at' - 1 = 0
      BY <2>1, <3>1 DEF Layout
    <3> QED BY <2>1, <3>2, <3>3
  <2> QED BY <2>3, <2>4, <2>5, <2>6, <2>7 DEF ParseInv
<1> QED BY <1>3, <1>4, <1>5

(* A table that grows by an entry.                                          *)
LEMMA AppendEntry ==
  ASSUME NEW n \in Nat, NEW S, NEW g \in [1 .. n + 1 -> S]
  PROVE  Append([i \in 1 .. n |-> g[i]], g[n + 1]) = [i \in 1 .. n + 1 |-> g[i]]
<1> DEFINE s == [i \in 1 .. n |-> g[i]]
           a == Append(s, g[n + 1])
<1>1. s \in Seq(S) /\ Len(s) = n /\ g[n + 1] \in S
  OBVIOUS
<1>2. \A i \in 1 .. n : s[i] = g[i]
  OBVIOUS
<1> HIDE DEF s
<1>3. /\ a \in Seq(S) /\ Len(a) = n + 1 /\ a[n + 1] = g[n + 1]
      /\ \A i \in 1 .. n : a[i] = s[i]
  BY <1>1
<1> HIDE DEF a
<1>4. \A i \in 1 .. n + 1 : a[i] = g[i]
  BY <1>2, <1>3
<1>5. a = [i \in 1 .. n + 1 |-> a[i]]
  BY <1>3
<1>6. a = [i \in 1 .. n + 1 |-> g[i]]
  BY <1>4, <1>5
<1> QED BY <1>6 DEF a, s

LEMMA TensorKeeps == ASSUME ParseInv, ReadTensor PROVE ParseInv'
<1> DEFINE t == file.tensors[at]
           end == InfoEnd(t)
<1>1. /\ file \in Files /\ file.size \in Nat /\ pos \in 0 .. file.size /\ phase = "tensors"
      /\ Len(file.tensors) \in Nat /\ at \in 1 .. Len(file.tensors)
      /\ IsText(t.name) /\ t.dims \in Seq(Nat)
  <2>1. /\ file \in Files /\ pos \in 0 .. file.size /\ phase = "tensors"
        /\ at \in Nat \ {0} /\ at <= Len(file.tensors)
    BY DEF ParseInv, ParseTypeOK, ReadTensor
  <2>2. file.size \in Nat /\ Len(file.tensors) \in Nat
    BY <2>1, FileFacts
  <2>3. at \in 1 .. Len(file.tensors)
    BY <2>1, <2>2
  <2>4. IsText(t.name) /\ t.dims \in Seq(Nat)
    BY <2>1, <2>3, FileFacts
  <2> QED BY <2>1, <2>2, <2>3, <2>4
<1>2. /\ end \in Cursors
      /\ end.err = "none" =>
           /\ end.pos = pos + InfoBytes(t) /\ InfoOK(t)
           /\ \A i \in DOMAIN table : table[i].name # t.name.name
  BY <1>1, InfoEndType
<1>3. IF end.err # "none" THEN Stop(end.err)
      ELSE /\ pos' = end.pos /\ at' = at + 1 /\ table' = Append(table, Info(at))
           /\ UNCHANGED <<file, meta, align, start, phase, error>>
  BY DEF ReadTensor, InfoEnd, Info, Bytes, Elements
<1> HIDE DEF end
<1>4. CASE end.err # "none"
  BY <1>3, <1>4, StopKeeps
<1>5. CASE end.err = "none"
  <2>1. /\ pos' = pos + InfoBytes(t) /\ pos' \in 0 .. file.size /\ InfoOK(t)
        /\ at' = at + 1 /\ table' = Append(table, Info(at))
        /\ \A i \in DOMAIN table : table[i].name # t.name.name
    BY <1>2, <1>3, <1>5 DEF Cursors
  <2>2. /\ file' = file /\ meta' = meta /\ align' = align /\ start' = start
        /\ phase' = phase /\ error' = error
    BY <1>3, <1>5
  <2>3. TableRead(at - 1)
    BY <1>1 DEF ParseInv, TableInv
  <2>4. ParseTypeOK'
    BY <1>1, <2>1, <2>2 DEF ParseInv, ParseTypeOK
  <2>5. MetaInv'
    <3>1. DeclaredAlignment(file)' = DeclaredAlignment(file)
      BY <2>2 DEF DeclaredAlignment, AlignmentKeys
    <3>2. MetaRead(Len(file.metadata))'
      BY <1>1, <2>2 DEF ParseInv, MetaInv, MetaRead
    <3> QED BY <1>1, <2>2, <3>1, <3>2 DEF ParseInv, MetaInv
  <2>6. TableInv'
    <3>1. table' = [i \in 1 .. at |-> Info(i)]
      <4> DEFINE g == [i \in 1 .. (at - 1) + 1 |-> Info(i)]
                 S == {Info(i) : i \in 1 .. at}
      <4>1. at - 1 \in Nat /\ (at - 1) + 1 = at
        BY <1>1
      <4>2. g \in [1 .. (at - 1) + 1 -> S]
        <5> HIDE DEF Info
        <5> QED BY <4>1
      <4>3. table = [i \in 1 .. at - 1 |-> g[i]] /\ g[(at - 1) + 1] = Info(at)
        <5>1. \A i \in 1 .. at - 1 : i \in 1 .. at
          BY <4>1
        <5> HIDE DEF Info
        <5> QED BY <2>3, <4>1, <5>1 DEF TableRead
      <4>4. Append([i \in 1 .. at - 1 |-> g[i]], g[(at - 1) + 1]) = [i \in 1 .. (at - 1) + 1 |-> g[i]]
        <5> HIDE DEF g, S
        <5> QED BY ONLY <4>1, <4>2, AppendEntry
      <4>5. [i \in 1 .. (at - 1) + 1 |-> g[i]] = [i \in 1 .. at |-> Info(i)]
        <5> HIDE DEF Info
        <5> QED BY <4>1
      <4> QED BY <2>1, <4>3, <4>4, <4>5
    <3>2. \A i \in 1 .. at : i = at \/ i \in 1 .. at - 1
      BY <1>1
    <3>3. \A i \in 1 .. at : InfoOK(file.tensors[i])
      BY <2>1, <2>3, <3>2 DEF TableRead
    <3>4. \A i \in 1 .. at - 1 : Info(i).name # Info(at).name
      <4>1. \A i \in 1 .. at - 1 : i \in DOMAIN table /\ table[i] = Info(i)
        BY <2>3 DEF TableRead
      <4> QED BY <2>1, <4>1 DEF Info
    <3>5. \A i, j \in 1 .. at : Info(i).name = Info(j).name => i = j
      BY <2>3, <3>2, <3>4 DEF TableRead
    <3>6. at' - 1 = at /\ at' <= Len(file'.tensors) + 1
      BY <1>1, <2>1, <2>2
    <3>7. \A i : Info(i)' = Info(i) /\ InfoOK(file.tensors[i])' = InfoOK(file.tensors[i])
      BY <2>2 DEF Info, InfoOK, Bytes, Elements
    <3>8. TableRead(at - 1)'
      BY <2>2, <3>1, <3>3, <3>5, <3>6, <3>7 DEF TableRead
    <3> QED BY <1>1, <2>2, <3>6, <3>8 DEF TableInv
  <2>7. StartInv' /\ RangesInv'
    BY <1>1, <2>2 DEF StartInv, RangesInv
  <2>8. PosInv'
    <3>0. \A m, p : Layout(m, p)' = Layout(m, p)
      BY <2>2 DEF Layout
    <3>1. SUFFICES ASSUME NEW m, NEW p, Layout(m, p) PROVE pos' = p[at' - 1]
      BY <1>1, <2>2, <3>0 DEF PosInv
    <3>2. pos = p[at - 1]
      BY <1>1, <3>1 DEF ParseInv, PosInv
    <3>3. p[at] = p[at - 1] + InfoBytes(t)
      BY <1>1, <3>1 DEF Layout
    <3>4. at' - 1 = at
      BY <1>1, <2>1
    <3> QED BY <2>1, <3>2, <3>3, <3>4
  <2> QED BY <2>4, <2>5, <2>6, <2>7, <2>8 DEF ParseInv
<1> QED BY <1>4, <1>5

(* The next multiple is not before its number.                              *)
LEMMA DataStartFacts ==
  ASSUME NEW p \in Nat, NEW a \in Nat \ {0}, DataStart(p, a) # None
  PROVE  /\ DataStart(p, a) \in Nat /\ p <= DataStart(p, a)
         /\ DataStart(p, a) = ((p + a - 1) \div a) * a
<1> DEFINE n == p + (a - 1)
           q == n \div a
           r == n % a
<1>1. n \in Nat /\ n = p + a - 1
  OBVIOUS
<1>2. DataStart(p, a) = q * a
  BY DEF DataStart
<1> HIDE DEF n
<1>3. q \in Int /\ r \in 0 .. a - 1 /\ n = a * q + r
  BY <1>1, DivModInt
<1>4. ((p + a - 1) \div a) * a = q * a
  BY <1>1
<1> HIDE DEF q, r
<1>5. a * q \in Int /\ q * a = a * q
  BY <1>3
<1>6. p <= a * q
  BY <1>1, <1>3, <1>5
<1> QED BY <1>2, <1>4, <1>5, <1>6

LEMMA EndTableKeeps == ASSUME ParseInv, EndTable PROVE ParseInv'
<1> DEFINE from == DataStart(pos, align)
<1>1. /\ file \in Files /\ file.size \in Nat /\ pos \in 0 .. file.size /\ phase = "tensors"
      /\ Len(file.tensors) \in Nat /\ at = Len(file.tensors) + 1 /\ align \in Nat \ {0}
  <2>1. /\ file \in Files /\ pos \in 0 .. file.size /\ phase = "tensors"
        /\ at \in Nat /\ at > Len(file.tensors) /\ at <= Len(file.tensors) + 1
        /\ align \in Nat \ {0}
    BY DEF ParseInv, ParseTypeOK, TableInv, EndTable
  <2>2. file.size \in Nat /\ Len(file.tensors) \in Nat
    BY <2>1, FileFacts
  <2> QED BY <2>1, <2>2
<1>2. CASE from = None
  BY <1>2, StopKeeps DEF EndTable
<1>3. CASE from # None /\ from > file.size /\ table # <<>>
  BY <1>3, StopKeeps DEF EndTable
<1>4. CASE from # None /\ ~(from > file.size /\ table # <<>>)
  <2>1. /\ start' = IF from <= file.size THEN from ELSE file.size
        /\ at' = 1 /\ phase' = "ranges"
        /\ file' = file /\ pos' = pos /\ meta' = meta /\ table' = table /\ align' = align
        /\ error' = error
    BY <1>4 DEF EndTable
  <2>2. from \in Nat /\ pos <= from
    BY <1>1, <1>4, DataStartFacts
  <2> HIDE DEF from
  <2>3. start' \in 0 .. file.size /\ (table # <<>> => start' = from)
    BY <1>1, <1>4, <2>1, <2>2
  <2>4. TableRead(Len(file.tensors))
    BY <1>1 DEF ParseInv, TableInv
  <2>5. ParseTypeOK'
    BY <1>1, <2>1, <2>3 DEF ParseInv, ParseTypeOK
  <2>6. MetaInv'
    <3>1. DeclaredAlignment(file)' = DeclaredAlignment(file)
      BY <2>1 DEF DeclaredAlignment, AlignmentKeys
    <3>2. MetaRead(Len(file.metadata))'
      BY <1>1, <2>1 DEF ParseInv, MetaInv, MetaRead
    <3> QED BY <1>1, <2>1, <3>1, <3>2 DEF ParseInv, MetaInv
  <2>7. TableInv'
    <3>1. \A i : Info(i)' = Info(i) /\ InfoOK(file.tensors[i])' = InfoOK(file.tensors[i])
      BY <2>1 DEF Info, InfoOK, Bytes, Elements
    <3>2. TableRead(Len(file.tensors))'
      BY <2>1, <2>4, <3>1 DEF TableRead
    <3> QED BY <2>1, <3>2 DEF TableInv
  <2>8. StartInv'
    BY <2>1, <2>2, <2>3 DEF StartInv, from
  <2>9. RangesInv'
    <3>1. Len(table') \in Nat
      BY <1>1, <2>1, <2>4 DEF TableRead
    <3> QED BY <2>1, <3>1 DEF RangesInv
  <2>10. PosInv'
    <3>0. \A m, p : Layout(m, p)' = Layout(m, p)
      BY <2>1 DEF Layout
    <3>1. SUFFICES ASSUME NEW m, NEW p, Layout(m, p) PROVE pos = p[Len(file.tensors)]
      BY <2>1, <3>0 DEF PosInv
    <3>2. pos = p[at - 1]
      BY <1>1, <3>1 DEF ParseInv, PosInv
    <3> QED BY <1>1, <3>2
  <2> QED BY <2>5, <2>6, <2>7, <2>8, <2>9, <2>10 DEF ParseInv
<1> QED BY <1>2, <1>3, <1>4

(* The checks of the ranges only advance.                                   *)
LEMMA RangesKeep ==
  ASSUME ParseInv, phase = "ranges", phase' \in {"ranges", "parsed"}, at' \in Nat \ {0},
         UNCHANGED <<file, pos, meta, table, align, start, error>>, RangesInv'
  PROVE  ParseInv'
<1>1. /\ file' = file /\ pos' = pos /\ meta' = meta /\ table' = table /\ align' = align
      /\ start' = start /\ error' = error
  OBVIOUS
<1>2. ParseTypeOK'
  BY <1>1 DEF ParseInv, ParseTypeOK
<1>3. MetaInv'
  <2>1. DeclaredAlignment(file)' = DeclaredAlignment(file)
    BY <1>1 DEF DeclaredAlignment, AlignmentKeys
  <2>2. MetaRead(Len(file.metadata))'
    BY <1>1 DEF ParseInv, MetaInv, MetaRead
  <2> QED BY <1>1, <2>1, <2>2 DEF ParseInv, MetaInv
<1>4. TableInv'
  <2>1. \A i : Info(i)' = Info(i) /\ InfoOK(file.tensors[i])' = InfoOK(file.tensors[i])
    BY <1>1 DEF Info, InfoOK, Bytes, Elements
  <2>2. TableRead(Len(file.tensors))
    BY DEF ParseInv, TableInv
  <2>3. TableRead(Len(file.tensors))'
    BY <1>1, <2>1, <2>2 DEF TableRead
  <2> QED BY <2>3 DEF TableInv
<1>5. StartInv'
  BY <1>1 DEF ParseInv, StartInv
<1>6. PosInv'
  <2>1. \A m, p : Layout(m, p)' = Layout(m, p)
    BY <1>1 DEF Layout
  <2> QED BY <1>1, <2>1 DEF ParseInv, PosInv
<1> QED BY <1>2, <1>3, <1>4, <1>5, <1>6 DEF ParseInv

LEMMA CheckRangeKeeps == ASSUME ParseInv, CheckRange PROVE ParseInv'
<1> DEFINE err == RangeError(table[at], align, DataLen)
<1>1. phase = "ranges" /\ at \in Nat \ {0} /\ at <= Len(table) /\ Len(table) \in Nat
  <2>1. phase = "ranges" /\ at \in Nat \ {0} /\ at <= Len(table) /\ TableRead(Len(file.tensors))
        /\ file \in Files
    BY DEF ParseInv, ParseTypeOK, TableInv, CheckRange
  <2> QED BY <2>1, FileFacts DEF TableRead
<1>2. CASE err # "none"
  BY <1>2, StopKeeps DEF CheckRange
<1>3. CASE err = "none"
  <2>1. /\ at' = at + 1 /\ phase' = phase
        /\ UNCHANGED <<file, pos, meta, table, align, start, error>>
    BY <1>3 DEF CheckRange
  <2>2. DataLen' = DataLen
    BY <2>1 DEF DataLen
  <2>3. RangesInv'
    <3>1. \A i \in 1 .. Len(table) : i < at + 1 => i = at \/ i < at
      BY <1>1
    <3>2. \A i \in 1 .. Len(table) : i < at + 1 => RangeError(table[i], align, DataLen) = "none"
      BY <1>1, <1>3, <3>1 DEF ParseInv, RangesInv
    <3>3. at' <= Len(table') + 1
      BY <1>1, <2>1
    <3> QED BY <1>1, <2>1, <2>2, <3>2, <3>3 DEF RangesInv
  <2> QED BY <1>1, <2>1, <2>3, RangesKeep
<1> QED BY <1>2, <1>3

LEMMA EndRangesKeeps == ASSUME ParseInv, EndRanges PROVE ParseInv'
<1>1. phase = "ranges" /\ at \in Nat \ {0} /\ at > Len(table) /\ Len(table) \in Nat
  <2>1. phase = "ranges" /\ at \in Nat \ {0} /\ at > Len(table) /\ TableRead(Len(file.tensors))
        /\ file \in Files
    BY DEF ParseInv, ParseTypeOK, TableInv, EndRanges
  <2> QED BY <2>1, FileFacts DEF TableRead
<1>2. phase' = "parsed" /\ UNCHANGED <<file, pos, meta, table, align, start, at, error>>
  BY DEF EndRanges
<1>3. DataLen' = DataLen
  BY <1>2 DEF DataLen
<1>4. RangesInv'
  <2>1. \A i \in 1 .. Len(table) : i < at
    BY <1>1
  <2> QED BY <1>1, <1>2, <1>3, <2>1 DEF ParseInv, RangesInv
<1> QED BY <1>1, <1>2, <1>4, RangesKeep

LEMMA ParseStepKeeps == ASSUME ParseInv, ParseStep PROVE ParseInv'
BY HeaderKeeps, EntryKeeps, EndMetadataKeeps, TensorKeeps, EndTableKeeps, CheckRangeKeeps,
   EndRangesKeeps DEF ParseStep

LEMMA ParseUnchanged == ASSUME ParseInv, UNCHANGED parseVars PROVE ParseInv'
<1>1. /\ file' = file /\ pos' = pos /\ meta' = meta /\ table' = table /\ align' = align
      /\ start' = start /\ error' = error /\ at' = at /\ phase' = phase
  BY DEF parseVars
<1>2. ParseTypeOK'
  BY <1>1 DEF ParseInv, ParseTypeOK
<1>3. MetaInv'
  <2>1. DeclaredAlignment(file)' = DeclaredAlignment(file)
    BY <1>1 DEF DeclaredAlignment, AlignmentKeys
  <2>2. \A n : MetaRead(n)' = MetaRead(n)
    BY <1>1 DEF MetaRead
  <2> QED BY <1>1, <2>1, <2>2 DEF ParseInv, MetaInv
<1>4. TableInv'
  <2>1. \A i : Info(i)' = Info(i) /\ InfoOK(file.tensors[i])' = InfoOK(file.tensors[i])
    BY <1>1 DEF Info, InfoOK, Bytes, Elements
  <2>2. \A n : TableRead(n)' = TableRead(n)
    BY <1>1, <2>1 DEF TableRead
  <2> QED BY <1>1, <2>2 DEF ParseInv, TableInv
<1>5. StartInv' /\ RangesInv'
  BY <1>1 DEF ParseInv, StartInv, RangesInv, DataLen
<1>6. PosInv'
  <2>1. \A m, p : Layout(m, p)' = Layout(m, p)
    BY <1>1 DEF Layout
  <2> QED BY <1>1, <2>1 DEF ParseInv, PosInv
<1> QED BY <1>2, <1>3, <1>4, <1>5, <1>6 DEF ParseInv

LEMMA ParseInvStep == ParseInv /\ [Next]_vars => ParseInv'
<1> SUFFICES ASSUME ParseInv, [Next]_vars PROVE ParseInv'
  OBVIOUS
<1>1. CASE ParseStep
  BY <1>1, ParseStepKeeps
<1>2. CASE UNCHANGED parseVars
  BY <1>2, ParseUnchanged
<1>3. ParseStep \/ UNCHANGED parseVars
  BY DEF Next, vars, Parse, Upload, UploadStep, StartUpload, UploadTensor, GpuFails, EndUpload,
         StartLoad, LoadOn
<1> QED BY <1>1, <1>2, <1>3

LEMMA ParseInvAlways == Spec => []ParseInv
<1>1. Init => ParseInv
  BY ParseInvInit DEF Init
<1> QED BY <1>1, ParseInvStep, PTL DEF Spec

-----------------------------------------------------------------------------
(* What a file that is accepted is like.                                    *)

(* A tensor of an accepted file.                                            *)
LEMMA AcceptedTensor ==
  ASSUME ParseInv, phase = "parsed", NEW i \in DOMAIN table
  PROVE  /\ i \in 1 .. Len(file.tensors) /\ table[i] = Info(i)
         /\ FromRaw[file.tensors[i].raw] \in GgmlType
         /\ file.tensors[i].dims \in Seq(Nat) /\ table[i].offset \in Nat
         /\ table[i].byteLen \in Nat /\ Elements(file.tensors[i]) \in Nat
         /\ table[i].byteLen * BlockElems[table[i].dtype] = Product(table[i].dims) * BlockBytes[table[i].dtype]
         /\ table[i].offset % align = 0
         /\ start = DataStart(pos, align) /\ start \in Nat /\ pos \in Nat /\ pos <= start
         /\ start + table[i].offset + table[i].byteLen <= file.size
<1> DEFINE t == file.tensors[i]
           elems == Elements(t)
           type == FromRaw[t.raw]
<1>1. /\ file \in Files /\ TableRead(Len(file.tensors)) /\ pos \in 0 .. file.size
      /\ start \in 0 .. file.size /\ align \in Nat \ {0}
  BY DEF ParseInv, ParseTypeOK, TableInv
<1>2. /\ Len(file.tensors) \in Nat /\ file.size \in Nat
      /\ DOMAIN table = 1 .. Len(file.tensors) /\ Len(table) = Len(file.tensors)
  <2>1. Len(file.tensors) \in Nat /\ file.size \in Nat
    BY <1>1, FileFacts
  <2> QED BY <1>1, <2>1 DEF TableRead
<1>3. i \in 1 .. Len(file.tensors) /\ table[i] = Info(i) /\ InfoOK(t)
  BY <1>1, <1>2 DEF TableRead
<1>4. t.dims \in Seq(Nat) /\ t.offset \in Nat
  BY <1>1, <1>3, FileFacts
<1>5. table[i].offset = t.offset /\ table[i].byteLen = Bytes(t) /\ table[i].dtype = type
      /\ Product(table[i].dims) = elems
  BY <1>3 DEF Info, Elements
<1>6. /\ type \in GgmlType /\ elems \in Nat /\ Bytes(t) \in Nat
      /\ Bytes(t) * BlockElems[type] = elems * BlockBytes[type]
  <2> DEFINE q == elems \div BlockElems[type]
             e == BlockElems[type]
             b == BlockBytes[type]
  <2>1. /\ type \in GgmlType /\ elems \in Nat /\ Bytes(t) \in Nat
        /\ q \in Nat /\ elems = e * q /\ Bytes(t) = q * b
    BY <1>3, <1>4, InfoFacts
  <2>2. e \in Nat /\ b \in Nat
    BY <2>1, BlockSizes
  <2> HIDE DEF q, e, b, elems, type
  <2>3. (q * b) * e = (e * q) * b
    BY <2>1, <2>2
  <2>4. Bytes(t) * e = elems * b
    BY <2>1, <2>3
  <2> QED BY <2>1, <2>4 DEF e, b
<1>7. RangeError(table[i], align, DataLen) = "none"
  BY <1>2, <1>3 DEF ParseInv, RangesInv
<1>8. table[i].offset % align = 0 /\ table[i].offset + table[i].byteLen <= file.size - start
  <2> DEFINE x == table[i].offset + table[i].byteLen
  <2>1. table[i].offset % align = 0 /\ Checked(x) # None /\ ~(Checked(x) > DataLen)
    BY <1>7 DEF RangeError
  <2>2. x \in Nat /\ DataLen = file.size - start /\ DataLen \in Int
    <3>1. t.offset \in Nat /\ Bytes(t) \in Nat /\ table[i].offset = t.offset /\ table[i].byteLen = Bytes(t)
      BY <1>4, <1>5, <1>6, Zenon
    <3>2. start \in 0 .. file.size /\ file.size \in Nat
      BY <1>1, <1>2, Zenon
    <3> HIDE DEF t
    <3> QED BY ONLY <3>1, <3>2 DEF DataLen, x
  <2> HIDE DEF x
  <2>3. Checked(x) = x
    BY <2>1 DEF Checked
  <2>4. x <= file.size - start
    BY <2>1, <2>2, <2>3
  <2> QED BY <2>1, <2>4 DEF x
<1>9. start = DataStart(pos, align) /\ pos <= DataStart(pos, align)
  <2>1. table # <<>>
    BY <1>2, <1>3
  <2> QED BY <2>1 DEF ParseInv, StartInv
<1>10. start + table[i].offset + table[i].byteLen <= file.size
  <2>1. table[i].offset \in Nat /\ table[i].byteLen \in Nat
    BY <1>4, <1>5, <1>6, Zenon
  <2>2. start \in 0 .. file.size /\ file.size \in Nat /\ table[i].offset + table[i].byteLen <= file.size - start
    BY <1>1, <1>2, <1>8, Zenon
  <2> QED BY ONLY <2>1, <2>2
<1> QED BY <1>1, <1>2, <1>3, <1>4, <1>5, <1>6, <1>8, <1>9, <1>10

LEMMA AcceptedNames ==
  ASSUME ParseInv, phase = "parsed"
  PROVE  /\ Len(table) = Len(file.tensors) /\ DOMAIN table = 1 .. Len(file.tensors)
         /\ Len(file.tensors) \in Nat
         /\ DOMAIN meta = {kv.key.name : kv \in Range(file.metadata)}
         /\ \A i, j \in DOMAIN table : table[i].name = table[j].name => i = j
<1>1. file \in Files /\ TableRead(Len(file.tensors)) /\ MetaRead(Len(file.metadata))
  BY DEF ParseInv, ParseTypeOK, TableInv, MetaInv
<1>2. /\ Len(file.tensors) \in Nat /\ Len(file.metadata) \in Nat
      /\ DOMAIN file.metadata = 1 .. Len(file.metadata)
  BY <1>1, FileFacts
<1>3. DOMAIN table = 1 .. Len(file.tensors) /\ Len(table) = Len(file.tensors)
  BY <1>1, <1>2 DEF TableRead
<1>4. \A i, j \in DOMAIN table : table[i].name = table[j].name => i = j
  BY <1>1, <1>3 DEF TableRead
<1>5. DOMAIN meta = {kv.key.name : kv \in Range(file.metadata)}
  <2>1. Range(file.metadata) = {file.metadata[i] : i \in 1 .. Len(file.metadata)}
    BY <1>2 DEF Range
  <2> QED BY <1>1, <2>1 DEF MetaRead
<1> QED BY <1>2, <1>3, <1>4, <1>5

(* A file that is accepted holds every byte its table declares, where the   *)
(* table declares it (Gguf::parse), whatever the file.                      *)
THEOREM TableFits == Spec => []AcceptedTableFits
<1>1. ParseInv => AcceptedTableFits
  <2> SUFFICES ASSUME ParseInv, phase = "parsed"
               PROVE  /\ Len(table) = Len(file.tensors)
                      /\ DOMAIN meta = {kv.key.name : kv \in Range(file.metadata)}
                      /\ \A i, j \in DOMAIN table : table[i].name = table[j].name => i = j
                      /\ \A t \in Range(table) :
                           /\ t.offset % align = 0
                           /\ pos <= start + t.offset /\ start + t.offset + t.byteLen <= file.size
                           /\ t.byteLen * BlockElems[t.dtype] = Product(t.dims) * BlockBytes[t.dtype]
    BY DEF AcceptedTableFits
  <2>1. ASSUME NEW t \in Range(table)
        PROVE  /\ t.offset % align = 0
               /\ pos <= start + t.offset /\ start + t.offset + t.byteLen <= file.size
               /\ t.byteLen * BlockElems[t.dtype] = Product(t.dims) * BlockBytes[t.dtype]
    <3>1. PICK i \in DOMAIN table : t = table[i]
      BY DEF Range
    <3>2. /\ t.offset % align = 0 /\ start + t.offset + t.byteLen <= file.size
          /\ t.byteLen * BlockElems[t.dtype] = Product(t.dims) * BlockBytes[t.dtype]
          /\ t.offset \in Nat /\ start \in Nat /\ pos \in Nat /\ pos <= start
      BY <3>1, AcceptedTensor
    <3>3. pos <= start + t.offset
      BY <3>2
    <3> QED BY <3>2, <3>3
  <2> QED BY <2>1, AcceptedNames
<1> QED BY <1>1, ParseInvAlways, PTL

-----------------------------------------------------------------------------
(* The data section of a file that was written as the format asks.          *)

LEMMA LayoutExists ==
  ASSUME file \in Files
  PROVE  \E m, t : Layout(m, t) /\ t[Len(file.tensors)] = TableEnd(file)
<1> DEFINE M == Len(file.metadata)
           N == Len(file.tensors)
           mf == EntrySizes(file)
           tf == InfoSizes(file)
<1>1. /\ M \in Nat /\ N \in Nat
      /\ \A i \in 1 .. M : IsText(file.metadata[i].key) /\ IsValue(file.metadata[i].value)
      /\ \A i \in 1 .. N : IsText(file.tensors[i].name) /\ file.tensors[i].dims \in Seq(Nat)
  BY FileFacts
<1>2. mf \in [1 .. M -> Int] /\ \A i \in 1 .. M : mf[i] = EntryBytes(file.metadata[i])
  BY <1>1, EntryBytesType DEF EntrySizes
<1>3. tf \in [1 .. N -> Int] /\ \A i \in 1 .. N : tf[i] = InfoBytes(file.tensors[i])
  <2>1. ASSUME NEW i \in 1 .. N PROVE InfoBytes(file.tensors[i]) \in Int
    <3>1. file.tensors[i].name.len \in Nat /\ Len(file.tensors[i].dims) \in Nat
      BY <1>1 DEF IsText
    <3> DEFINE l == file.tensors[i].name.len
               d == Len(file.tensors[i].dims)
    <3>2. InfoBytes(file.tensors[i]) = 8 + l + 4 + 8 * d + 4 + 8
      BY DEF InfoBytes, TextBytes
    <3> HIDE DEF l, d
    <3>3. l \in Nat /\ d \in Nat
      BY <3>1 DEF l, d
    <3>4. 8 + l + 4 + 8 * d + 4 + 8 \in Int
      BY ONLY <3>3
    <3> QED BY <3>2, <3>4
  <2> QED BY <2>1 DEF InfoSizes
<1>4. TableEnd(file) = 24 + Total(M, mf) + Total(N, tf)
  BY DEF TableEnd
<1> HIDE DEF M, N, mf, tf
<1>5. PICK g \in [0 .. M -> Int] :
             g[0] = 0 /\ Total(M, mf) = g[M] /\ \A k \in 1 .. M : g[k] = g[k - 1] + mf[k]
  BY <1>1, <1>2, TotalFollows
<1>6. PICK h \in [0 .. N -> Int] :
             h[0] = 0 /\ Total(N, tf) = h[N] /\ \A k \in 1 .. N : h[k] = h[k - 1] + tf[k]
  BY <1>1, <1>3, TotalFollows
<1> DEFINE m == [i \in 0 .. M |-> 24 + g[i]]
           t == [i \in 0 .. N |-> 24 + g[M] + h[i]]
<1>7. m \in [0 .. M -> Int] /\ t \in [0 .. N -> Int] /\ m[0] = 24 /\ t[0] = m[M]
  BY <1>1, <1>5, <1>6
<1>8. ASSUME NEW i \in 1 .. M PROVE m[i] = m[i - 1] + EntryBytes(file.metadata[i])
  <2>1. i \in 0 .. M /\ i - 1 \in 0 .. M
    BY <1>1
  <2>2. g[i] = g[i - 1] + mf[i] /\ g[i - 1] \in Int /\ mf[i] \in Int
    BY <1>2, <1>5, <2>1
  <2> QED BY <1>2, <2>1, <2>2
<1>9. ASSUME NEW i \in 1 .. N PROVE t[i] = t[i - 1] + InfoBytes(file.tensors[i])
  <2>1. i \in 0 .. N /\ i - 1 \in 0 .. N /\ M \in 0 .. M
    BY <1>1
  <2>2. h[i] = h[i - 1] + tf[i] /\ h[i - 1] \in Int /\ tf[i] \in Int /\ g[M] \in Int
    BY <1>3, <1>5, <1>6, <2>1
  <2>3. t[i] = 24 + g[M] + h[i] /\ t[i - 1] = 24 + g[M] + h[i - 1]
    BY <2>1
  <2> HIDE DEF t
  <2>4. t[i] = t[i - 1] + tf[i]
    BY <2>2, <2>3
  <2> QED BY <1>3, <2>4
<1>10. t[N] = TableEnd(file)
  BY <1>1, <1>4, <1>5, <1>6
<1> HIDE DEF m, t
<1>11. Layout(m, t)
  BY <1>7, <1>8, <1>9 DEF Layout, M, N
<1> QED BY <1>10, <1>11 DEF N

LEMMA StartIsDataAt ==
  ASSUME ParseInv, phase = "parsed", WellWritten(file), table # <<>>
  PROVE  start = file.dataAt
<1>1. file \in Files /\ align \in Nat \ {0} /\ align = DeclaredAlignment(file)
      /\ start = DataStart(pos, align) /\ start \in Nat /\ pos \in Nat
  <2>1. /\ file \in Files /\ align \in Nat \ {0} /\ align = DeclaredAlignment(file)
        /\ start = DataStart(pos, align) /\ start \in 0 .. file.size /\ pos \in 0 .. file.size
    BY DEF ParseInv, ParseTypeOK, MetaInv, StartInv
  <2> QED BY <2>1, FileFacts
<1>2. start = ((pos + align - 1) \div align) * align
  <2>1. DataStart(pos, align) # None
    BY <1>1 DEF None
  <2> QED BY <1>1, <2>1, DataStartFacts
<1>3. pos = TableEnd(file)
  <2>1. PICK m, t : Layout(m, t) /\ t[Len(file.tensors)] = TableEnd(file)
    BY <1>1, LayoutExists
  <2> QED BY <2>1 DEF ParseInv, PosInv
<1> QED BY <1>1, <1>2, <1>3 DEF WellWritten

-----------------------------------------------------------------------------
(* The direct loader behind the parser.                                     *)

(* What is loaded is the section of the file that was parsed.               *)
SectionInv == pc # "idle" => phase = "parsed" /\ section = [start |-> start, len |-> DataLen]

LEMMA LoadStepIsDirect ==
  ASSUME ParseInv, [Next]_vars
  PROVE  [DirectNext]_loadVars
<1>1. CASE StartLoad
  <2>1. start \in 0 .. file.size /\ file \in Files
    BY DEF ParseInv, ParseTypeOK
  <2>2. start \in Nat /\ DataLen \in Nat
    BY <2>1, FileFacts DEF DataLen
  <2>3. NewSource([start |-> start, len |-> DataLen])
    BY <1>1 DEF StartLoad
  <2>4. section' = [start |-> start, len |-> DataLen]
    BY <2>3 DEF NewSource
  <2>5. section' \in Section /\ NewSource(section')
    BY <2>2, <2>3, <2>4 DEF Section
  <2> QED BY <2>5 DEF DirectNext
<1>2. CASE LoadStep
  BY <1>2 DEF DirectNext
<1>3. CASE UNCHANGED loadVars
  BY <1>3
<1> QED BY <1>1, <1>2, <1>3 DEF Next, vars, Parse, Upload, LoadOn

(* Behind the parser the loader is given sections only, so that whatever    *)
(* holds of the loader by itself holds here: it never writes a wrong byte,  *)
(* reads as O_DIRECT asks, and is a WeightSource (DirectSource::load).      *)
THEOREM LoaderInContext ==
  Spec => DirectSpec /\ []LoadIsCopy /\ []ReadsAligned /\ ImplementsWeightSource
<1>1. Init => LoadInit
  BY DEF Init
<1>2. ParseInv /\ [Next]_vars => [DirectNext]_loadVars
  BY LoadStepIsDirect
<1>3. Spec => DirectSpec
  BY <1>1, <1>2, ParseInvAlways, PTL DEF Spec, DirectSpec
<1> QED BY <1>3, DirectLoadIsCopy, DirectReadsAligned, DirectImplementsWeightSource, PTL

LEMMA SectionStep ==
  ASSUME SectionInv, [Next]_vars
  PROVE  SectionInv'
<1>1. CASE pc = "idle" /\ pc' = "idle"
  BY <1>1 DEF SectionInv
<1>2. CASE StartLoad
  BY <1>2 DEF StartLoad, NewSource, parseVars, SectionInv, DataLen
<1>3. CASE LoadOn
  <2>1. pc # "idle" /\ section' = section
    BY <1>3 DEF LoadOn, LoadStep, Open, OpenFails, NextChunk, EndRead, ReadFails, ReadAt, fileVars
  <2> QED BY <1>3, <2>1 DEF LoadOn, parseVars, SectionInv, DataLen
<1>4. CASE Parse /\ pc # "idle"
  BY <1>4 DEF SectionInv, Parse, ParseStep, ReadHeader, ReadEntry, EndMetadata, ReadTensor,
              EndTable, CheckRange, EndRanges
<1>5. CASE UNCHANGED vars
  BY <1>5 DEF vars, parseVars, loadVars, SectionInv, DataLen
<1> QED BY <1>1, <1>2, <1>3, <1>4, <1>5 DEF Next, Parse, Upload, loadVars

LEMMA SectionAlways == Spec => []SectionInv
<1>1. Init => SectionInv
  BY DEF Init, LoadInit, SectionInv
<1>2. SectionInv /\ [Next]_vars => SectionInv'
  BY SectionStep
<1> QED BY <1>1, <1>2, PTL DEF Spec

(* In a destination that was loaded every tensor lies at its offset, for    *)
(* every file whose writer put the data section where the format asks       *)
(* (Gguf::data_offset, DirectSource::new).                                  *)
THEOREM LoadedWhereDeclared == Spec => [](WellWritten(file) => TensorsWhereDeclared)
<1>1. ParseInv /\ SectionInv /\ LoadInv => (WellWritten(file) => TensorsWhereDeclared)
  <2> SUFFICES ASSUME ParseInv, SectionInv, LoadInv, WellWritten(file), pc = "ok",
                      NEW t \in Range(table), NEW k \in 0 .. file.size, k < t.byteLen
               PROVE  dst[t.offset + k] = file.dataAt + t.offset + k
    BY DEF TensorsWhereDeclared
  <2>1. phase = "parsed" /\ section = [start |-> start, len |-> DataLen]
    BY DEF SectionInv
  <2>2. PICK i \in DOMAIN table : t = table[i]
    BY DEF Range
  <2>3. /\ t.offset \in Nat /\ t.byteLen \in Nat /\ start \in Nat
        /\ start + t.offset + t.byteLen <= file.size
    BY <2>1, <2>2, AcceptedTensor
  <2>4. start = file.dataAt
    BY <2>1, <2>2, StartIsDataAt
  <2>5. dst = [j \in 0 .. Size - 1 |-> Start + j]
    BY DEF LoadInv, AllThere, Loaded
  <2>6. Start = start /\ Size = file.size - start
    BY <2>1 DEF Start, Size, DataLen
  <2>7. file.size \in Nat
    BY FileFacts DEF ParseInv, ParseTypeOK
  <2>8. t.offset + k \in 0 .. Size - 1
    BY <2>3, <2>6, <2>7
  <2>9. dst[t.offset + k] = start + (t.offset + k)
    BY <2>5, <2>6, <2>8
  <2> QED BY <2>3, <2>4, <2>7, <2>9
<1>2. DirectSpec => []LoadInv
  BY LoadInvAlways
<1> QED BY <1>1, <1>2, ParseInvAlways, SectionAlways, LoaderInContext, PTL

-----------------------------------------------------------------------------
(* The list of tensors that upload asks for, and the set that validate      *)
(* demands.                                                                 *)

SuffixSet ==
  {"token_embd", "output_norm", "rope_freqs",
   "layer_output_scale", "attn_norm", "attn_q_norm", "attn_k_norm", "post_attention_norm", "ffn_norm",
   "post_ffw_norm", "attn_q", "attn_k", "attn_v", "attn_output", "ffn_gate", "ffn_up", "ffn_down"}
Names == (Layer \cup {Top}) \X SuffixSet
Wanted == [name : Names, dtype : {"F32", "Q4_0", "Q6_K"}]

Items(s) == {s[i] : i \in 1 .. Len(s)}
Distinct(s) == \A i, j \in 1 .. Len(s) : s[i].name = s[j].name => i = j

LEMMA ConcatItems ==
  ASSUME NEW S, NEW s \in Seq(S), NEW t \in Seq(S)
  PROVE  /\ s \o t \in Seq(S) /\ Items(s \o t) = Items(s) \cup Items(t)
         /\ Distinct(s) /\ Distinct(t) /\ (\A x \in Items(s), y \in Items(t) : x.name # y.name)
              => Distinct(s \o t)
<1> DEFINE c == s \o t
           m == Len(s)
           n == Len(t)
<1>1. /\ c \in Seq(S) /\ Len(c) = m + n /\ m \in Nat /\ n \in Nat
      /\ \A i \in 1 .. m : c[i] = s[i]
      /\ \A i \in 1 .. n : c[m + i] = t[i]
  OBVIOUS
<1>2. \A i \in 1 .. m + n : i \in 1 .. m \/ (i - m \in 1 .. n /\ i = m + (i - m))
  BY <1>1
<1>3. \A i \in 1 .. n : m + i \in 1 .. m + n
  BY <1>1
<1>4. \A i \in 1 .. m : i \in 1 .. m + n
  BY <1>1
<1> HIDE DEF c, m, n
<1>7. ASSUME NEW k \in 1 .. m + n, k - m \in 1 .. n
      PROVE  c[k] = t[k - m]
  <2>1. c[m + (k - m)] = t[k - m]
    BY <1>1, <1>7
  <2>2. m + (k - m) = k
    BY <1>1
  <2> QED BY <2>1, <2>2
<1>5. Items(c) = Items(s) \cup Items(t)
  <2>1. ASSUME NEW x \in Items(c)
        PROVE  x \in Items(s) \cup Items(t)
    <3>1. PICK i \in 1 .. m + n : x = c[i]
      BY <1>1 DEF Items
    <3>2. CASE i \in 1 .. m
      <4>1. x = s[i]
        BY <1>1, <3>1, <3>2
      <4> QED BY <3>2, <4>1 DEF Items, m
    <3>3. CASE i - m \in 1 .. n /\ i = m + (i - m)
      <4>1. x = t[i - m]
        BY <1>7, <3>1, <3>3
      <4> QED BY <3>3, <4>1 DEF Items, n
    <3> QED BY <1>2, <3>2, <3>3
  <2>2. \A x \in Items(s) : x \in Items(c)
    BY <1>1, <1>4 DEF Items, m
  <2>3. \A x \in Items(t) : x \in Items(c)
    BY <1>1, <1>3 DEF Items, n
  <2> QED BY <2>1, <2>2, <2>3
<1>6. ASSUME Distinct(s), Distinct(t), \A x \in Items(s), y \in Items(t) : x.name # y.name
      PROVE  Distinct(c)
  <2> SUFFICES ASSUME NEW i \in 1 .. m + n, NEW j \in 1 .. m + n, c[i].name = c[j].name
               PROVE  i = j
    BY <1>1 DEF Distinct
  <2>1. CASE i \in 1 .. m /\ j \in 1 .. m
    BY <1>1, <1>6, <2>1 DEF Distinct, m
  <2>2. CASE i - m \in 1 .. n /\ j - m \in 1 .. n
    <3>1. c[i] = t[i - m] /\ c[j] = t[j - m]
      BY <1>7, <2>2
    <3>2. i - m = j - m
      BY <1>6, <2>2, <3>1 DEF Distinct, n
    <3> QED BY <1>1, <3>2
  <2>3. CASE i \in 1 .. m /\ j - m \in 1 .. n
    <3>1. c[i] = s[i] /\ c[j] = t[j - m]
      BY <1>1, <1>7, <2>3
    <3>2. c[i] \in Items(s) /\ c[j] \in Items(t)
      BY <2>3, <3>1 DEF Items, m, n
    <3> QED BY <1>6, <3>2
  <2>4. CASE i - m \in 1 .. n /\ j \in 1 .. m
    <3>1. c[j] = s[j] /\ c[i] = t[i - m]
      BY <1>1, <1>7, <2>4
    <3>2. c[j] \in Items(s) /\ c[i] \in Items(t)
      BY <2>4, <3>1 DEF Items, m, n
    <3> QED BY <1>6, <3>2
  <2> QED BY <1>2, <2>1, <2>2, <2>3, <2>4
<1> QED BY <1>1, <1>5, <1>6 DEF c

(* One layer.                                                               *)
AskedFor(layer, suffix, dtype) == [name |-> <<layer, suffix>>, dtype |-> dtype]
Part(layer, suffixes, dtype) == [i \in DOMAIN suffixes |-> AskedFor(layer, suffixes[i], dtype)]

Norms ==
  <<"layer_output_scale", "attn_norm", "attn_q_norm", "attn_k_norm", "post_attention_norm", "ffn_norm",
    "post_ffw_norm">>
QueryKey == <<"attn_q", "attn_k">>
ValueOf(layer) == IF LayerKind(layer) = "sliding" THEN <<"attn_v">> ELSE <<>>
OutFfn == <<"attn_output", "ffn_gate", "ffn_up", "ffn_down">>

NormSet ==
  {"layer_output_scale", "attn_norm", "attn_q_norm", "attn_k_norm", "post_attention_norm", "ffn_norm",
   "post_ffw_norm"}
ValueSet(layer) == IF LayerKind(layer) = "sliding" THEN {"attn_v"} ELSE {}
AllAskedFor(layer, set, dtype) == {AskedFor(layer, x, dtype) : x \in set}
OneEach(xs) == \A i, j \in 1 .. Len(xs) : xs[i] = xs[j] => i = j

LEMMA PartFacts ==
  ASSUME NEW layer \in Layer, NEW xs \in Seq(SuffixSet), OneEach(xs), NEW dtype \in {"F32", "Q4_0", "Q6_K"}
  PROVE  /\ Part(layer, xs, dtype) \in Seq(Wanted) /\ Distinct(Part(layer, xs, dtype))
         /\ Items(Part(layer, xs, dtype)) = AllAskedFor(layer, Items(xs), dtype)
<1> DEFINE p == Part(layer, xs, dtype)
<1>1. \A x \in SuffixSet : AskedFor(layer, x, dtype) \in Wanted
  BY DEF AskedFor, Wanted, Names
<1>2. DOMAIN xs = 1 .. Len(xs) /\ Len(xs) \in Nat /\ \A i \in 1 .. Len(xs) : xs[i] \in SuffixSet
  OBVIOUS
<1>3. p \in [1 .. Len(xs) -> Wanted]
  BY <1>1, <1>2 DEF Part
<1>4. p \in Seq(Wanted) /\ Len(p) = Len(xs)
  <2> HIDE DEF p
  <2> QED BY <1>2, <1>3
<1>5. \A i \in 1 .. Len(xs) : p[i] = AskedFor(layer, xs[i], dtype)
  BY <1>2 DEF Part
<1> HIDE DEF p
<1>6. Items(p) = AllAskedFor(layer, Items(xs), dtype)
  BY <1>4, <1>5 DEF Items, AllAskedFor
<1>7. Distinct(p)
  <2> SUFFICES ASSUME NEW i \in 1 .. Len(xs), NEW j \in 1 .. Len(xs), p[i].name = p[j].name
               PROVE  i = j
    BY <1>4 DEF Distinct
  <2>1. p[i] = AskedFor(layer, xs[i], dtype) /\ p[j] = AskedFor(layer, xs[j], dtype)
    BY <1>5
  <2>2. <<layer, xs[i]>> = <<layer, xs[j]>>
    <3>1. \A u : AskedFor(layer, u, dtype).name = <<layer, u>>
      BY DEF AskedFor
    <3> QED BY <2>1, <3>1, Zenon
  <2>3. xs[i] = xs[j]
    BY ONLY <2>2
  <2> QED BY <2>3 DEF OneEach
<1> QED BY <1>4, <1>6, <1>7 DEF p

LEMMA SuffixLists ==
  ASSUME NEW layer
  PROVE  /\ Norms \in Seq(SuffixSet) /\ OneEach(Norms) /\ Items(Norms) = NormSet
         /\ QueryKey \in Seq(SuffixSet) /\ OneEach(QueryKey) /\ Items(QueryKey) = {"attn_q", "attn_k"}
         /\ ValueOf(layer) \in Seq(SuffixSet) /\ OneEach(ValueOf(layer))
         /\ Items(ValueOf(layer)) = ValueSet(layer)
         /\ OutFfn \in Seq(SuffixSet) /\ OneEach(OutFfn)
         /\ Items(OutFfn) = {"attn_output", "ffn_gate", "ffn_up", "ffn_down"}
<1>1. Norms \in Seq(SuffixSet) /\ Len(Norms) = 7
  BY DEF Norms, SuffixSet
<1>2. OneEach(Norms)
  BY <1>1 DEF OneEach, Norms
<1>3. Items(Norms) = NormSet
  BY <1>1 DEF Items, Norms, NormSet
<1>4. QueryKey \in Seq(SuffixSet) /\ OneEach(QueryKey) /\ Items(QueryKey) = {"attn_q", "attn_k"}
  BY DEF QueryKey, SuffixSet, OneEach, Items
<1>5. /\ ValueOf(layer) \in Seq(SuffixSet) /\ OneEach(ValueOf(layer))
      /\ Items(ValueOf(layer)) = ValueSet(layer)
  <2>1. CASE LayerKind(layer) = "sliding"
    <3>1. ValueOf(layer) = <<"attn_v">> /\ ValueSet(layer) = {"attn_v"}
      BY <2>1 DEF ValueOf, ValueSet
    <3>2. <<"attn_v">> \in Seq(SuffixSet) /\ OneEach(<<"attn_v">>) /\ Items(<<"attn_v">>) = {"attn_v"}
      BY DEF SuffixSet, OneEach, Items
    <3> QED BY <3>1, <3>2
  <2>2. CASE LayerKind(layer) # "sliding"
    <3>1. ValueOf(layer) = <<>> /\ ValueSet(layer) = {}
      BY <2>2 DEF ValueOf, ValueSet
    <3>2. <<>> \in Seq(SuffixSet) /\ OneEach(<<>>) /\ Items(<<>>) = {}
      BY DEF OneEach, Items
    <3> QED BY <3>1, <3>2
  <2> QED BY <2>1, <2>2
<1>6. /\ OutFfn \in Seq(SuffixSet) /\ OneEach(OutFfn)
      /\ Items(OutFfn) = {"attn_output", "ffn_gate", "ffn_up", "ffn_down"}
  BY DEF OutFfn, SuffixSet, OneEach, Items
<1> QED BY <1>1, <1>2, <1>3, <1>4, <1>5, <1>6

LEMMA LayerTensorsParts ==
  ASSUME NEW layer \in Layer
  PROVE  LayerTensors(layer)
           = ((Part(layer, Norms, "F32") \o Part(layer, QueryKey, "Q4_0"))
              \o Part(layer, ValueOf(layer), "Q4_0")) \o Part(layer, OutFfn, "Q4_0")
<1>1. CASE LayerKind(layer) = "sliding"
  BY <1>1 DEF LayerTensors, Part, AskedFor, Norms, QueryKey, ValueOf, OutFfn
<1>2. CASE LayerKind(layer) # "sliding"
  <2>1. Part(layer, <<>>, "Q4_0") = <<>>
    BY DEF Part
  <2> QED BY <1>2, <2>1 DEF LayerTensors, Part, AskedFor, Norms, QueryKey, ValueOf, OutFfn
<1> QED BY <1>1, <1>2

LayerWants(layer) ==
  ((AllAskedFor(layer, NormSet, "F32") \cup AllAskedFor(layer, {"attn_q", "attn_k"}, "Q4_0"))
     \cup AllAskedFor(layer, ValueSet(layer), "Q4_0"))
  \cup AllAskedFor(layer, {"attn_output", "ffn_gate", "ffn_up", "ffn_down"}, "Q4_0")

LEMMA WantsApart ==
  ASSUME NEW layer, NEW X, NEW Y, X \cap Y = {}, NEW a, NEW b
  PROVE  \A x \in AllAskedFor(layer, X, a), y \in AllAskedFor(layer, Y, b) : x.name # y.name
<1> SUFFICES ASSUME NEW x \in AllAskedFor(layer, X, a), NEW y \in AllAskedFor(layer, Y, b), x.name = y.name
             PROVE  FALSE
  OBVIOUS
<1>1. PICK u \in X : x = AskedFor(layer, u, a)
  BY DEF AllAskedFor
<1>2. PICK v \in Y : y = AskedFor(layer, v, b)
  BY DEF AllAskedFor
<1>3. <<layer, u>> = <<layer, v>>
  BY <1>1, <1>2 DEF AskedFor
<1> QED BY <1>3

LEMMA LayerTensorsFacts ==
  ASSUME NEW layer \in Layer
  PROVE  /\ LayerTensors(layer) \in Seq(Wanted) /\ Distinct(LayerTensors(layer))
         /\ Items(LayerTensors(layer)) = LayerWants(layer)
<1> DEFINE A == Part(layer, Norms, "F32")
           B == Part(layer, QueryKey, "Q4_0")
           C == Part(layer, ValueOf(layer), "Q4_0")
           D == Part(layer, OutFfn, "Q4_0")
           a == AllAskedFor(layer, NormSet, "F32")
           b == AllAskedFor(layer, {"attn_q", "attn_k"}, "Q4_0")
           c == AllAskedFor(layer, ValueSet(layer), "Q4_0")
           d == AllAskedFor(layer, {"attn_output", "ffn_gate", "ffn_up", "ffn_down"}, "Q4_0")
<1>1. A \in Seq(Wanted) /\ Distinct(A) /\ Items(A) = a
  BY SuffixLists, PartFacts
<1>2. B \in Seq(Wanted) /\ Distinct(B) /\ Items(B) = b
  BY SuffixLists, PartFacts
<1>3. C \in Seq(Wanted) /\ Distinct(C) /\ Items(C) = c
  BY SuffixLists, PartFacts
<1>4. D \in Seq(Wanted) /\ Distinct(D) /\ Items(D) = d
  BY SuffixLists, PartFacts
<1>5. \A x \in a, y \in b : x.name # y.name
  <2>1. NormSet \cap {"attn_q", "attn_k"} = {}
    BY DEF NormSet
  <2> QED BY ONLY <2>1, WantsApart
<1>6. \A x \in a \cup b, y \in c : x.name # y.name
  <2>1. NormSet \cap ValueSet(layer) = {} /\ {"attn_q", "attn_k"} \cap ValueSet(layer) = {}
    BY DEF NormSet, ValueSet
  <2>2. \A x \in a, y \in c : x.name # y.name
    BY ONLY <2>1, WantsApart
  <2>3. \A x \in b, y \in c : x.name # y.name
    BY ONLY <2>1, WantsApart
  <2> HIDE DEF a, b, c, d
  <2> QED BY <2>2, <2>3
<1>7. \A x \in (a \cup b) \cup c, y \in d : x.name # y.name
  <2> DEFINE OutFfnSet == {"attn_output", "ffn_gate", "ffn_up", "ffn_down"}
  <2>1. NormSet \cap OutFfnSet = {} /\ {"attn_q", "attn_k"} \cap OutFfnSet = {} /\ ValueSet(layer) \cap OutFfnSet = {}
    BY DEF NormSet, ValueSet
  <2>2. \A x \in a, y \in d : x.name # y.name
    BY ONLY <2>1, WantsApart
  <2>3. \A x \in b, y \in d : x.name # y.name
    BY ONLY <2>1, WantsApart
  <2>4. \A x \in c, y \in d : x.name # y.name
    BY ONLY <2>1, WantsApart
  <2> HIDE DEF a, b, c, d
  <2> QED BY <2>2, <2>3, <2>4
<1> HIDE DEF A, B, C, D, a, b, c, d
<1>8. A \o B \in Seq(Wanted) /\ Distinct(A \o B) /\ Items(A \o B) = a \cup b
  BY ONLY <1>1, <1>2, <1>5, ConcatItems
<1>9. /\ (A \o B) \o C \in Seq(Wanted) /\ Distinct((A \o B) \o C)
      /\ Items((A \o B) \o C) = (a \cup b) \cup c
  <2> DEFINE AB == A \o B
  <2>1. AB \in Seq(Wanted) /\ Distinct(AB) /\ Items(AB) = a \cup b
    BY <1>8
  <2> HIDE DEF AB
  <2>2. \A x \in Items(AB), y \in Items(C) : x.name # y.name
    BY <2>1, <1>3, <1>6
  <2>3. AB \o C \in Seq(Wanted) /\ Distinct(AB \o C) /\ Items(AB \o C) = Items(AB) \cup Items(C)
    BY ONLY <2>1, <2>2, <1>3, ConcatItems
  <2> QED BY <2>1, <1>3, <2>3 DEF AB
<1>10. /\ ((A \o B) \o C) \o D \in Seq(Wanted) /\ Distinct(((A \o B) \o C) \o D)
       /\ Items(((A \o B) \o C) \o D) = ((a \cup b) \cup c) \cup d
  <2> DEFINE ABC == (A \o B) \o C
  <2>1. ABC \in Seq(Wanted) /\ Distinct(ABC) /\ Items(ABC) = (a \cup b) \cup c
    BY <1>9
  <2> HIDE DEF ABC
  <2>2. \A x \in Items(ABC), y \in Items(D) : x.name # y.name
    BY <2>1, <1>4, <1>7
  <2>3. /\ ABC \o D \in Seq(Wanted) /\ Distinct(ABC \o D)
        /\ Items(ABC \o D) = Items(ABC) \cup Items(D)
    BY ONLY <2>1, <2>2, <1>4, ConcatItems
  <2> QED BY <2>1, <1>4, <2>3 DEF ABC
<1>11. LayerTensors(layer) = ((A \o B) \o C) \o D
  BY LayerTensorsParts DEF A, B, C, D
<1>12. LayerWants(layer) = ((a \cup b) \cup c) \cup d
  BY DEF LayerWants, a, b, c, d
<1> QED BY ONLY <1>10, <1>11, <1>12

(* The description of the layer demands the same.                           *)
Strip(e) == [name |-> e.name, dtype |-> e.dtype]

LEMMA LayerExpected ==
  ASSUME NEW layer \in Layer
  PROVE  {Strip(e) : e \in ExpectedOfLayer(layer)} = LayerWants(layer)
<1>1. \A x, y, z : Strip(Expected(x, y, z)) = [name |-> x, dtype |-> z]
  BY DEF Strip, Expected
<1>2. ASSUME NEW e \in ExpectedOfLayer(layer)
      PROVE  Strip(e) \in LayerWants(layer)
  BY <1>1 DEF ExpectedOfLayer, LayerWants, AllAskedFor, AskedFor, NormSet, ValueSet
<1>3. ASSUME NEW w \in LayerWants(layer)
      PROVE  \E e \in ExpectedOfLayer(layer) : w = Strip(e)
  <2>1. PICK x \in NormSet \cup {"attn_q", "attn_k"} \cup ValueSet(layer)
                    \cup {"attn_output", "ffn_gate", "ffn_up", "ffn_down"} :
               w = AskedFor(layer, x, IF x \in NormSet THEN "F32" ELSE "Q4_0")
    BY DEF LayerWants, AllAskedFor, NormSet, ValueSet
  <2>2. CASE x \in NormSet
    <3>1. w = [name |-> <<layer, x>>, dtype |-> "F32"]
      BY <2>1, <2>2 DEF AskedFor
    <3>2. \E d : Expected(<<layer, x>>, d, "F32") \in ExpectedOfLayer(layer)
      BY <2>2 DEF ExpectedOfLayer, NormSet
    <3> QED BY <1>1, <3>1, <3>2
  <2>3. CASE x \in {"attn_q", "attn_k"} \cup {"attn_output", "ffn_gate", "ffn_up", "ffn_down"}
    <3>1. w = [name |-> <<layer, x>>, dtype |-> "Q4_0"]
      BY <2>1, <2>3 DEF AskedFor, NormSet
    <3>2. \E d : Expected(<<layer, x>>, d, "Q4_0") \in ExpectedOfLayer(layer)
      BY <2>3 DEF ExpectedOfLayer
    <3> QED BY <1>1, <3>1, <3>2
  <2>4. CASE x \in ValueSet(layer)
    <3>1. w = [name |-> <<layer, x>>, dtype |-> "Q4_0"]
      BY <2>1, <2>4 DEF AskedFor, NormSet, ValueSet
    <3>2. \E d : Expected(<<layer, x>>, d, "Q4_0") \in ExpectedOfLayer(layer)
      BY <2>4 DEF ExpectedOfLayer, ValueSet
    <3> QED BY <1>1, <3>1, <3>2
  <2> QED BY <2>1, <2>2, <2>3, <2>4
<1> QED BY <1>2, <1>3

(* All layers, and the three tensors outside them.                          *)
LEMMA Dimensions ==
  /\ NLayers \in Nat \ {0} /\ Hidden \in Nat \ {0} /\ Vocab \in Nat \ {0}
  /\ NQHeads \in Nat \ {0} /\ Ffn \in Nat \ {0}
  /\ SlidingKvHeads \in Nat \ {0} /\ SlidingHeadDim \in Nat \ {0}
  /\ GlobalKvHeads \in Nat \ {0} /\ GlobalHeadDim \in Nat \ {0}
BY DimensionsAssumption

Upto(k) == UNION {LayerWants(layer) : layer \in 0 .. k}

LEMMA LayerNames ==
  ASSUME NEW layer, NEW x \in LayerWants(layer)
  PROVE  x.name[1] = layer
<1>1. PICK suffix, dtype : x = AskedFor(layer, suffix, dtype)
  BY DEF LayerWants, AllAskedFor
<1> QED BY <1>1 DEF AskedFor

LEMMA LayersInTurn ==
  LET layers == FlattenSeq([i \in 1 .. NLayers |-> LayerTensors(i - 1)])
  IN layers \in Seq(Wanted) /\ Distinct(layers) /\ Items(layers) = Upto(NLayers - 1)
<1> DEFINE seqs == [i \in 1 .. NLayers |-> LayerTensors(i - 1)]
           N == NLayers
<1>1. N \in Nat \ {0} /\ N - 1 \in Nat
  BY Dimensions
<1>2. \A k \in 0 .. N - 1 :
        /\ k \in Layer /\ seqs[k + 1] = LayerTensors(k)
        /\ seqs[k + 1] \in Seq(Wanted) /\ Distinct(seqs[k + 1]) /\ Items(seqs[k + 1]) = LayerWants(k)
  <2> SUFFICES ASSUME NEW k \in 0 .. N - 1
               PROVE  /\ k \in Layer /\ seqs[k + 1] = LayerTensors(k)
                      /\ seqs[k + 1] \in Seq(Wanted) /\ Distinct(seqs[k + 1])
                      /\ Items(seqs[k + 1]) = LayerWants(k)
    OBVIOUS
  <2>1. k + 1 \in 1 .. N /\ (k + 1) - 1 = k /\ k \in Layer
    BY <1>1 DEF Layer
  <2>2. seqs[k + 1] = LayerTensors(k)
    BY <2>1
  <2> QED BY <2>1, <2>2, LayerTensorsFacts
<1>3. seqs \in [1 .. N -> Seq(Wanted)]
  <2>1. \A i \in 1 .. N : i - 1 \in 0 .. N - 1 /\ (i - 1) + 1 = i
    BY <1>1
  <2>2. \A i \in 1 .. N : seqs[i] \in Seq(Wanted)
    BY <1>2, <2>1
  <2> QED BY <2>2
<1> HIDE DEF seqs, N
<1>4. PICK h : Running(h, Wanted, N, seqs)
  BY ONLY <1>1, <1>3, FlattenFollows
<1> DEFINE S == {k \in 0 .. N - 1 : Distinct(h[k]) /\ Items(h[k]) = Upto(k)}
<1>5. 0 \in S
  <2>1. Upto(0) = LayerWants(0)
    BY DEF Upto
  <2>2. 0 \in 0 .. N - 1 /\ 0 + 1 = 1
    BY <1>1
  <2> QED BY <1>2, <1>4, <2>1, <2>2 DEF Running
<1>6. ASSUME NEW k \in 1 .. N - 1, k - 1 \in S
      PROVE  k \in S
  <2>1. k \in 0 .. N - 1 /\ k - 1 \in 0 .. N - 1 /\ 0 .. k = (0 .. k - 1) \cup {k} /\ k \in Nat
    BY <1>1
  <2> DEFINE a == h[k - 1]
             b == seqs[k + 1]
  <2>2. /\ a \in Seq(Wanted) /\ Distinct(a) /\ Items(a) = Upto(k - 1)
        /\ b \in Seq(Wanted) /\ Distinct(b) /\ Items(b) = LayerWants(k)
    BY <1>2, <1>4, <1>6, <2>1 DEF Running
  <2>3. \A x \in Items(a), y \in Items(b) : x.name # y.name
    <3> SUFFICES ASSUME NEW x \in Upto(k - 1), NEW y \in LayerWants(k)
                 PROVE  x.name # y.name
      BY <2>2
    <3>1. PICK j \in 0 .. k - 1 : x \in LayerWants(j)
      BY DEF Upto
    <3>2. x.name[1] = j /\ y.name[1] = k
      BY <3>1, LayerNames
    <3> QED BY <2>1, <3>2
  <2>4. Upto(k) = Upto(k - 1) \cup LayerWants(k)
    BY <2>1 DEF Upto
  <2>5. h[k] = a \o b
    BY <1>4 DEF Running
  <2> HIDE DEF a, b
  <2>6. Distinct(a \o b) /\ Items(a \o b) = Items(a) \cup Items(b)
    BY ONLY <2>2, <2>3, ConcatItems
  <2> QED BY <2>1, <2>2, <2>4, <2>5, <2>6
<1>7. N - 1 \in S
  <2> HIDE DEF S
  <2>1. \A k \in 0 .. N - 1 : k \in S
    BY ONLY <1>1, <1>5, <1>6, BoundedInduction
  <2> QED BY <1>1, <2>1
<1>8. N - 1 \in 0 .. N - 1
  BY <1>1
<1>9. FlattenSeq(seqs) \in Seq(Wanted) /\ Distinct(FlattenSeq(seqs)) /\ Items(FlattenSeq(seqs)) = Upto(N - 1)
  BY <1>4, <1>7, <1>8 DEF Running
<1> QED BY <1>9 DEF seqs, N

(* What upload asks for is what validate demands, name by name.             *)
LEMMA UploadsFacts ==
  /\ Uploads \in Seq(Wanted) /\ Distinct(Uploads)
  /\ Items(Uploads) = {Strip(e) : e \in ExpectedTensors}
<1> DEFINE layers == FlattenSeq([i \in 1 .. NLayers |-> LayerTensors(i - 1)])
           rest == <<[name |-> TokenEmbd, dtype |-> "Q6_K"], [name |-> OutputNorm, dtype |-> "F32"],
                     [name |-> RopeFreqs, dtype |-> "F32"]>>
           restSet == {AskedFor(Top, "token_embd", "Q6_K"), AskedFor(Top, "output_norm", "F32"),
                       AskedFor(Top, "rope_freqs", "F32")}
<1>1. layers \in Seq(Wanted) /\ Distinct(layers) /\ Items(layers) = Upto(NLayers - 1)
  BY LayersInTurn
<1>2. rest \in Seq(Wanted) /\ Distinct(rest) /\ Items(rest) = restSet
  <2>1. rest = <<AskedFor(Top, "token_embd", "Q6_K"), AskedFor(Top, "output_norm", "F32"),
                 AskedFor(Top, "rope_freqs", "F32")>>
    BY DEF AskedFor, TokenEmbd, OutputNorm, RopeFreqs
  <2>2. restSet \subseteq Wanted
    BY DEF AskedFor, Wanted, Names, SuffixSet
  <2>3. /\ AskedFor(Top, "token_embd", "Q6_K").name # AskedFor(Top, "output_norm", "F32").name
        /\ AskedFor(Top, "token_embd", "Q6_K").name # AskedFor(Top, "rope_freqs", "F32").name
        /\ AskedFor(Top, "output_norm", "F32").name # AskedFor(Top, "rope_freqs", "F32").name
    BY DEF AskedFor
  <2> HIDE DEF rest
  <2>4. rest \in Seq(Wanted) /\ Len(rest) = 3
    BY <2>1, <2>2
  <2>5. Items(rest) = restSet
    BY <2>1, <2>4 DEF Items
  <2>6. Distinct(rest)
    BY <2>1, <2>3, <2>4 DEF Distinct
  <2> QED BY <2>4, <2>5, <2>6
<1>3. \A x \in Upto(NLayers - 1), y \in restSet : x.name # y.name
  <2> SUFFICES ASSUME NEW x \in Upto(NLayers - 1), NEW y \in restSet
               PROVE  x.name # y.name
    OBVIOUS
  <2>1. PICK j \in 0 .. NLayers - 1 : x \in LayerWants(j)
    BY DEF Upto
  <2>2. x.name[1] = j
    BY <2>1, LayerNames
  <2>3. y.name[1] = Top
    BY DEF AskedFor
  <2> QED BY <2>2, <2>3, Dimensions DEF Top
<1>4. Uploads = layers \o rest
  BY DEF Uploads
<1>5. Upto(NLayers - 1) \cup restSet = {Strip(e) : e \in ExpectedTensors}
  <2> DEFINE three == {Expected(TokenEmbd, <<Hidden, Vocab>>, "Q6_K"), Expected(OutputNorm, <<Hidden>>, "F32"),
                       Expected(RopeFreqs, <<GlobalHeadDim \div 2>>, "F32")}
             inner == UNION {ExpectedOfLayer(layer) : layer \in Layer}
  <2>1. {Strip(e) : e \in three} = restSet
    BY DEF Strip, Expected, AskedFor, TokenEmbd, OutputNorm, RopeFreqs
  <2>2. {Strip(e) : e \in inner} = Upto(NLayers - 1)
    <3>1. ASSUME NEW e \in inner
          PROVE  Strip(e) \in Upto(NLayers - 1)
      <4>1. PICK layer \in Layer : e \in ExpectedOfLayer(layer)
        OBVIOUS
      <4>2. Strip(e) \in LayerWants(layer)
        BY <4>1, LayerExpected
      <4> QED BY <4>2 DEF Upto, Layer
    <3>2. ASSUME NEW w \in Upto(NLayers - 1)
          PROVE  \E e \in inner : w = Strip(e)
      <4>1. PICK layer \in Layer : w \in LayerWants(layer)
        BY DEF Upto, Layer
      <4>2. \E e \in ExpectedOfLayer(layer) : w = Strip(e)
        BY <4>1, LayerExpected
      <4> QED BY <4>2
    <3> QED BY <3>1, <3>2
  <2>3. ExpectedTensors = three \cup inner
    BY DEF ExpectedTensors
  <2> HIDE DEF three, inner, restSet
  <2> QED BY <2>1, <2>2, <2>3
<1> HIDE DEF layers, rest, restSet
<1>6. \A x \in Items(layers), y \in Items(rest) : x.name # y.name
  BY <1>1, <1>2, <1>3
<1>7. /\ layers \o rest \in Seq(Wanted) /\ Distinct(layers \o rest)
      /\ Items(layers \o rest) = Items(layers) \cup Items(rest)
  BY ONLY <1>1, <1>2, <1>6, ConcatItems
<1> QED BY <1>1, <1>2, <1>4, <1>5, <1>7

-----------------------------------------------------------------------------
(* The upload's invariant: what has been served of the list is on the       *)
(* device, each tensor as it lies in the file.                              *)

Served == Len(Uploads) - Len(queue)
ContentOf(t) == IF t.dtype = "Q6_K" THEN Repacked(t) ELSE Verbatim(t)

Serving ==
  /\ TensorIssues = {}
  /\ queue \in Seq(Wanted) /\ Len(queue) <= Len(Uploads)
  /\ \A i \in 1 .. Len(queue) : queue[i] = Uploads[Served + i]
  /\ DOMAIN buffers = {Uploads[i].name : i \in 1 .. Served}
  /\ \A t \in Range(table) : t.name \in DOMAIN buffers => buffers[t.name] = ContentOf(t)

UploadInv ==
  /\ upload \in {"idle", "running", "ok", "DescError", "GpuError"}
  /\ upload # "idle" => phase = "parsed"
  /\ upload \in {"idle", "DescError"} => queue = <<>> /\ DOMAIN buffers = {}
  /\ upload \in {"running", "ok", "GpuError"} => Serving
  /\ upload = "ok" => queue = <<>>

(* Every tensor of the list is in a table that validate accepted, once, and *)
(* with the type that is asked for.                                         *)
Listed(w) == \E j \in DOMAIN table : table[j].name = w.name /\ table[j].dtype = w.dtype

LEMMA WantedIsFound ==
  ASSUME TensorIssues = {}, NEW i \in 1 .. Len(Uploads)
  PROVE  Listed(Uploads[i])
<1>1. PICK e \in ExpectedTensors : Uploads[i] = Strip(e)
  BY UploadsFacts DEF Items
<1>2. Found(e)
  BY DEF TensorIssues
<1> QED BY <1>1, <1>2 DEF Listed, Found, Strip

(* And the other way round.                                                 *)
LEMMA TensorIsWanted ==
  ASSUME TensorIssues = {}, NEW j \in DOMAIN table,
         \A x, y \in DOMAIN table : table[x].name = table[y].name => x = y
  PROVE  \E e \in ExpectedTensors :
           e.name = table[j].name /\ e.dims = table[j].dims /\ e.dtype = table[j].dtype
<1>1. PICK e \in ExpectedTensors : e.name = table[j].name
  BY DEF TensorIssues
<1>2. Found(e)
  BY DEF TensorIssues
<1>3. PICK k \in DOMAIN table : table[k].name = e.name /\ table[k].dims = e.dims /\ table[k].dtype = e.dtype
  BY <1>2 DEF Found
<1>4. k = j
  BY <1>1, <1>3
<1> QED BY <1>1, <1>3, <1>4

LEMMA UploadKept ==
  ASSUME UploadInv, UNCHANGED parseVars, UNCHANGED uploadVars
  PROVE  UploadInv'
<1>1. /\ phase' = phase /\ table' = table /\ start' = start /\ meta' = meta
      /\ buffers' = buffers /\ queue' = queue /\ upload' = upload
  BY DEF parseVars, uploadVars
<1>2. Serving' = Serving
  <2>1. TensorIssues' = TensorIssues
    BY <1>1 DEF TensorIssues, Found
  <2>2. \A t : ContentOf(t)' = ContentOf(t)
    BY <1>1 DEF ContentOf, Repacked, Verbatim, BytesFrom
  <2>3. Served' = Served
    BY <1>1 DEF Served
  <2> QED BY <1>1, <2>1, <2>2, <2>3 DEF Serving
<1> QED BY <1>1, <1>2 DEF UploadInv

LEMMA UploadKeptWhileParsing == ASSUME UploadInv, Parse PROVE UploadInv'
<1>1. phase # "parsed"
  BY DEF Parse, ParseStep, ReadHeader, ReadEntry, EndMetadata, ReadTensor, EndTable, CheckRange,
         EndRanges
<1>2. upload = "idle" /\ buffers' = buffers /\ queue' = queue /\ upload' = upload
  BY <1>1 DEF UploadInv, Parse, uploadVars
<1> QED BY <1>2 DEF UploadInv

LEMMA StartUploadKeeps == ASSUME UploadInv, StartUpload PROVE UploadInv'
<1>1. /\ phase = "parsed" /\ phase' = phase /\ table' = table /\ buffers' = buffers
      /\ queue = <<>> /\ DOMAIN buffers = {}
  BY DEF UploadInv, StartUpload, parseVars
<1>2. CASE Valid
  <2>1. upload' = "running" /\ queue' = Uploads
    BY <1>2 DEF StartUpload
  <2>2. Uploads \in Seq(Wanted) /\ Len(Uploads) \in Nat
    BY UploadsFacts
  <2>3. Served' = 0
    BY <2>1, <2>2 DEF Served
  <2>4. TensorIssues' = {}
    BY <1>1, <1>2 DEF Valid, TensorIssues, Found
  <2>5. Serving'
    BY <1>1, <2>1, <2>2, <2>3, <2>4 DEF Serving
  <2> QED BY <1>1, <2>1, <2>5 DEF UploadInv
<1>3. CASE ~Valid
  BY <1>1, <1>3 DEF StartUpload, UploadInv
<1> QED BY <1>2, <1>3

LEMMA UploadTensorKeeps == ASSUME ParseInv, UploadInv, UploadTensor PROVE UploadInv'
<1> DEFINE next == queue[1]
           found == TensorAt(next.name)
           t == table[CHOOSE i \in found : TRUE]
           U == Len(Uploads)
           n == Len(queue)
<1>1. /\ upload = "running" /\ phase = "parsed" /\ queue # <<>> /\ Serving
      /\ phase' = phase /\ table' = table /\ start' = start
  BY DEF UploadTensor, UploadInv, parseVars
<1>2. /\ U \in Nat /\ n \in Nat \ {0} /\ n <= U /\ Uploads \in Seq(Wanted)
      /\ Served = U - n /\ Served + 1 \in 1 .. U /\ 1 \in 1 .. n
  <2>1. U \in Nat /\ n \in Nat \ {0} /\ n <= U /\ Uploads \in Seq(Wanted)
    BY <1>1, UploadsFacts DEF Serving
  <2> HIDE DEF U, n
  <2>2. Served = U - n
    BY DEF Served, U, n
  <2> QED BY <2>1, <2>2
<1>3. next = Uploads[Served + 1]
  BY <1>1, <1>2 DEF Serving
<1>4. PICK j \in DOMAIN table : table[j].name = next.name /\ table[j].dtype = next.dtype
  <2>1. Listed(Uploads[Served + 1])
    BY <1>1, <1>2, WantedIsFound DEF Serving
  <2> QED BY <1>3, <2>1 DEF Listed
<1>5. \A x, y \in DOMAIN table : table[x].name = table[y].name => x = y
  BY <1>1, AcceptedNames
<1>6. found = {j}
  BY <1>4, <1>5 DEF TensorAt
<1>7. t = table[j]
  BY <1>6
<1>8. /\ buffers' = With(buffers, next.name, IF next.dtype = "Q6_K" THEN Repacked(t) ELSE Verbatim(t))
      /\ queue' = Tail(queue) /\ upload' = upload
  <2>1. found # {} /\ t.dtype = next.dtype
    BY <1>4, <1>6, <1>7
  <2> HIDE DEF t, found, next
  <2>2. UploadTensor => IF found = {} THEN upload' = "MissingTensor" /\ UNCHANGED <<buffers, queue>>
          ELSE IF t.dtype # next.dtype THEN upload' = "BadTensor" /\ UNCHANGED <<buffers, queue>>
          ELSE /\ buffers' = With(buffers, next.name,
                                  IF next.dtype = "Q6_K" THEN Repacked(t) ELSE Verbatim(t))
               /\ queue' = Tail(queue) /\ UNCHANGED upload
    BY DEF UploadTensor, t, found, next
  <2> QED BY <2>1, <2>2
<1>9. buffers' = With(buffers, next.name, ContentOf(table[j]))
  BY <1>4, <1>7, <1>8 DEF ContentOf
<1> HIDE DEF t, found, next
<1>10. /\ queue' \in Seq(Wanted) /\ Len(queue') = n - 1
       /\ \A i \in 1 .. n - 1 : queue'[i] = queue[i + 1]
  BY <1>1, <1>8 DEF Serving
<1> HIDE DEF U, n
<1>11. Served' = Served + 1
  <2>1. Served' = U - Len(queue')
    BY DEF Served, U
  <2> QED BY <1>2, <1>10, <2>1
<1>12. Serving'
  <2>1. TensorIssues' = {}
    BY <1>1 DEF Serving, TensorIssues, Found
  <2>2. \A i \in 1 .. n - 1 : queue'[i] = Uploads[Served' + i]
    <3> SUFFICES ASSUME NEW i \in 1 .. n - 1
                 PROVE  queue'[i] = Uploads[Served' + i]
      OBVIOUS
    <3>1. i + 1 \in 1 .. n /\ Served + (i + 1) = (Served + 1) + i
      BY <1>2
    <3>2. queue[i + 1] = Uploads[Served + (i + 1)]
      BY <1>1, <3>1 DEF Serving, n
    <3> QED BY <1>10, <1>11, <3>1, <3>2
  <2>3. DOMAIN buffers' = {Uploads[i].name : i \in 1 .. Served'}
    <3>1. DOMAIN buffers' = {Uploads[i].name : i \in 1 .. Served} \cup {next.name}
      BY <1>1, <1>9 DEF With, Serving
    <3>2. 1 .. Served' = (1 .. Served) \cup {Served + 1}
      BY <1>2, <1>11
    <3> QED BY <1>3, <3>1, <3>2
  <2>4. \A x \in Range(table) : x.name \in DOMAIN buffers' => buffers'[x.name] = ContentOf(x)
    <3> SUFFICES ASSUME NEW k \in DOMAIN table, table[k].name \in DOMAIN buffers'
                 PROVE  buffers'[table[k].name] = ContentOf(table[k])
      BY DEF Range
    <3>1. CASE table[k].name = next.name
      <4>1. k = j
        BY <1>4, <1>5, <3>1
      <4> QED BY <1>9, <3>1, <4>1 DEF With
    <3>2. CASE table[k].name # next.name
      <4>1. table[k].name \in DOMAIN buffers /\ buffers'[table[k].name] = buffers[table[k].name]
        BY <1>9, <3>2 DEF With
      <4> QED BY <1>1, <4>1 DEF Serving, Range
    <3> QED BY <3>1, <3>2
  <2>5. \A x : ContentOf(x)' = ContentOf(x)
    BY <1>1 DEF ContentOf, Repacked, Verbatim, BytesFrom
  <2>6. Len(queue') <= Len(Uploads) /\ Len(queue') = n - 1 /\ queue' \in Seq(Wanted)
    BY <1>2, <1>10 DEF U
  <2> QED BY <1>1, <2>1, <2>2, <2>3, <2>4, <2>5, <2>6 DEF Serving
<1> QED BY <1>1, <1>8, <1>12 DEF UploadInv

LEMMA UploadEndKeeps == ASSUME UploadInv, GpuFails \/ EndUpload PROVE UploadInv'
<1>1. /\ upload = "running" /\ phase' = phase /\ table' = table /\ start' = start
      /\ buffers' = buffers /\ queue' = queue /\ upload' \in {"GpuError", "ok"}
      /\ upload' = "ok" => queue = <<>>
  BY DEF GpuFails, EndUpload, parseVars
<1>2. Serving' = Serving
  <2>1. TensorIssues' = TensorIssues
    BY <1>1 DEF TensorIssues, Found
  <2>2. \A t : ContentOf(t)' = ContentOf(t)
    BY <1>1 DEF ContentOf, Repacked, Verbatim, BytesFrom
  <2>3. Served' = Served
    BY <1>1 DEF Served
  <2> QED BY <1>1, <2>1, <2>2, <2>3 DEF Serving
<1> QED BY <1>1, <1>2 DEF UploadInv

LEMMA UploadInvStep == ParseInv /\ UploadInv /\ [Next]_vars => UploadInv'
<1> SUFFICES ASSUME ParseInv, UploadInv, [Next]_vars PROVE UploadInv'
  OBVIOUS
<1>1. CASE Parse
  BY <1>1, UploadKeptWhileParsing
<1>2. CASE Upload
  BY <1>2, StartUploadKeeps, UploadTensorKeeps, UploadEndKeeps DEF Upload, UploadStep
<1>3. CASE StartLoad \/ LoadOn \/ UNCHANGED vars
  <2>1. UNCHANGED parseVars /\ UNCHANGED uploadVars
    BY <1>3 DEF StartLoad, LoadOn, vars
  <2> QED BY <2>1, UploadKept
<1> QED BY <1>1, <1>2, <1>3 DEF Next

LEMMA UploadInvAlways == Spec => []UploadInv
<1>1. Init => UploadInv
  BY DEF Init, UploadInit, UploadInv
<1> QED BY <1>1, UploadInvStep, ParseInvAlways, PTL DEF Spec

(* The variables are what they should be, and nothing that is still asked   *)
(* for is on the device already: no name is listed twice (GpuWeights).      *)
THEOREM LoadingTypeOK == Spec => []TypeOK
<1>1. ParseInv /\ UploadInv /\ LoadInv => TypeOK
  <2> SUFFICES ASSUME ParseInv, UploadInv, LoadInv
               PROVE  DOMAIN buffers \cap {queue[i].name : i \in DOMAIN queue} = {}
    BY DEF TypeOK, ParseInv, ParseTypeOK, UploadInv, LoadInv, LoadTypeOK
  <2>1. CASE upload \in {"idle", "DescError"}
    BY <2>1 DEF UploadInv
  <2>2. CASE Serving
    <3>1. /\ Len(Uploads) \in Nat /\ Len(queue) \in Nat /\ Len(queue) <= Len(Uploads)
          /\ Served = Len(Uploads) - Len(queue) /\ DOMAIN queue = 1 .. Len(queue)
      BY <2>2, UploadsFacts DEF Serving, Served
    <3> SUFFICES ASSUME NEW i \in 1 .. Len(queue), queue[i].name \in DOMAIN buffers
                 PROVE  FALSE
      BY <3>1
    <3>2. PICK k \in 1 .. Served : Uploads[k].name = queue[i].name
      BY <2>2 DEF Serving
    <3>3. queue[i] = Uploads[Served + i]
      BY <2>2 DEF Serving
    <3>4. k \in 1 .. Len(Uploads) /\ Served + i \in 1 .. Len(Uploads) /\ k # Served + i
      BY <3>1
    <3> QED BY <3>2, <3>3, <3>4, UploadsFacts DEF Distinct
  <2> QED BY <2>1, <2>2 DEF UploadInv
<1>2. DirectSpec => []LoadInv
  BY LoadInvAlways
<1> QED BY <1>1, <1>2, ParseInvAlways, UploadInvAlways, LoaderInContext, PTL

(* A file that validate accepts can be uploaded, whatever the dimensions of *)
(* the model: the list of GpuWeights::upload and expected_tensors agree.    *)
THEOREM ValidFilesAreUploaded == Spec => []ValidFilesUpload
<1>1. ParseInv /\ UploadInv => ValidFilesUpload
  <2> SUFFICES ASSUME ParseInv, UploadInv, upload = "ok"
               PROVE  DOMAIN buffers = {t.name : t \in Range(table)}
    BY DEF ValidFilesUpload, UploadInv
  <2>1. phase = "parsed" /\ Serving /\ queue = <<>>
    BY DEF UploadInv
  <2>2. /\ TensorIssues = {} /\ DOMAIN buffers = {Uploads[i].name : i \in 1 .. Len(Uploads)}
        /\ Range(table) = {table[j] : j \in DOMAIN table}
    <3>1. Served = Len(Uploads)
      BY <2>1, UploadsFacts DEF Served
    <3> QED BY <2>1, <3>1 DEF Serving, Range
  <2>3. ASSUME NEW i \in 1 .. Len(Uploads)
        PROVE  \E t \in Range(table) : t.name = Uploads[i].name
    BY <2>2, WantedIsFound DEF Listed
  <2>4. ASSUME NEW j \in DOMAIN table
        PROVE  \E i \in 1 .. Len(Uploads) : Uploads[i].name = table[j].name
    <3>1. \A x, y \in DOMAIN table : table[x].name = table[y].name => x = y
      BY <2>1, AcceptedNames
    <3>2. PICK e \in ExpectedTensors : e.name = table[j].name
      BY <2>2, <3>1, TensorIsWanted
    <3>3. Strip(e) \in Items(Uploads) /\ Strip(e).name = e.name
      BY UploadsFacts DEF Strip
    <3> QED BY <3>2, <3>3 DEF Items
  <2>5. \A name : (\E t \in Range(table) : t.name = name) <=> \E i \in 1 .. Len(Uploads) : Uploads[i].name = name
    <3>1. ASSUME NEW name, NEW t \in Range(table), t.name = name
          PROVE  \E i \in 1 .. Len(Uploads) : Uploads[i].name = name
      <4>1. PICK j \in DOMAIN table : table[j] = t
        BY ONLY <2>2, <3>1
      <4> QED BY ONLY <2>4, <3>1, <4>1
    <3>2. ASSUME NEW name, NEW i \in 1 .. Len(Uploads), Uploads[i].name = name
          PROVE  \E t \in Range(table) : t.name = name
      BY ONLY <2>3, <3>2
    <3> QED BY ONLY <3>1, <3>2
  <2>6. DOMAIN buffers = {Uploads[i].name : i \in 1 .. Len(Uploads)}
    BY ONLY <2>2, Zenon
  <2> QED BY ONLY <2>5, <2>6
<1> QED BY <1>1, ParseInvAlways, UploadInvAlways, PTL

-----------------------------------------------------------------------------
(* What a kernel finds in the buffers.                                      *)

(* Quotient and remainder are what they are divided into.                   *)
LEMMA DivModUnique ==
  ASSUME NEW w \in Nat \ {0}, NEW r \in Int, NEW c \in 0 .. w - 1
  PROVE  (r * w + c) \div w = r /\ (r * w + c) % w = c
<1> DEFINE x == r * w + c
           q == x \div w
           m == x % w
<1>1. x \in Int /\ x = w * r + c
  OBVIOUS
<1>2. q \in Int /\ m \in 0 .. w - 1 /\ x = w * q + m
  <2> HIDE DEF x
  <2> QED BY <1>1, DivModInt
<1> HIDE DEF x, q, m
<1>3. q = r
  <2>1. ASSUME q < r PROVE FALSE
    <3>1. w * q + w <= w * r
      BY <1>2, <2>1, MulGap
    <3> QED BY <1>1, <1>2, <3>1
  <2>2. ASSUME r < q PROVE FALSE
    <3>1. w * r + w <= w * q
      BY <1>2, <2>2, MulGap
    <3> QED BY <1>1, <1>2, <3>1
  <2> QED BY <1>2, <2>1, <2>2
<1>4. m = c
  BY <1>1, <1>2, <1>3
<1> QED BY <1>3, <1>4 DEF q, m, x

(* A byte of a row is a byte of the tensor.                                 *)
LEMMA InRows ==
  ASSUME NEW n \in Nat, NEW w \in Nat, NEW r \in 0 .. (n \div w) - 1, NEW c \in 0 .. w - 1
  PROVE  r * w + c \in 0 .. n - 1
<1> DEFINE q == n \div w
<1>1. w \in Nat \ {0} /\ r \in Nat /\ c \in Nat
  OBVIOUS
<1>2. q \in Int /\ n % w \in 0 .. w - 1 /\ n = w * q + (n % w)
  BY <1>1, DivModInt
<1>3. r < q
  <2>1. r <= q - 1
    OBVIOUS
  <2> HIDE DEF q
  <2> QED BY <1>1, <1>2, <2>1
<1> HIDE DEF q
<1>4. w * r + w <= w * q
  BY <1>1, <1>2, <1>3, MulGap
<1>5. r * w = w * r /\ w * r \in Nat
  BY <1>1
<1> QED BY <1>1, <1>2, <1>4, <1>5

LEMMA ProductOfOne ==
  ASSUME NEW d \in Nat, Product(<<d>>) # None
  PROVE  Product(<<d>>) = d
<1> DEFINE dims == <<d>>
<1>1. dims \in Seq(Nat) /\ Len(dims) = 1 /\ dims[1] = d
  OBVIOUS
<1> HIDE DEF dims
<1>2. PICK g \in [0 .. Len(dims) -> Counts] :
             /\ g[0] = 1 /\ Product(dims) = g[Len(dims)]
             /\ \A n \in 1 .. Len(dims) :
                  g[n] = IF g[n - 1] = None THEN None ELSE Checked(g[n - 1] * dims[n])
  BY <1>1, ProductFollows
<1>3. g[1] = Checked(1 * d)
  BY <1>1, <1>2 DEF None
<1>4. Product(dims) = d
  BY <1>1, <1>2, <1>3 DEF Checked, dims
<1> QED BY <1>4 DEF dims

LEMMA ProductOfTwo ==
  ASSUME NEW a \in Nat, NEW b \in Nat, Product(<<a, b>>) # None
  PROVE  Product(<<a, b>>) = a * b
<1> DEFINE dims == <<a, b>>
<1>1. dims \in Seq(Nat) /\ Len(dims) = 2 /\ dims[1] = a /\ dims[2] = b
  OBVIOUS
<1>2. Product(dims) # None
  OBVIOUS
<1> HIDE DEF dims
<1>3. PICK g \in [0 .. Len(dims) -> Counts] :
             /\ g[0] = 1 /\ Product(dims) = g[Len(dims)]
             /\ \A n \in 1 .. Len(dims) :
                  g[n] = IF g[n - 1] = None THEN None ELSE Checked(g[n - 1] * dims[n])
  BY <1>1, ProductFollows
<1>4. g[1] = Checked(1 * a) /\ g[2] = IF g[1] = None THEN None ELSE Checked(g[1] * b)
  BY <1>1, <1>3 DEF None
<1>5. g[2] # None /\ Product(dims) = g[2]
  BY <1>1, <1>2, <1>3
<1>6. g[1] = a
  BY <1>4, <1>5 DEF Checked
<1>7. g[2] = a * b
  BY <1>4, <1>5, <1>6 DEF Checked
<1> QED BY <1>5, <1>7 DEF dims

(* The shapes that the description demands.                                 *)
LEMMA ExpectedShapes ==
  ASSUME NEW e \in ExpectedTensors
  PROVE  \/ e.dtype = "F32" /\ \E d \in Nat : e.dims = <<d>>
         \/ e.dtype = "Q4_0" /\ \E d \in Nat : e.dims \in {<<Hidden, d>>, <<d, Hidden>>}
         \/ e.dtype = "Q6_K" /\ e.dims = <<Hidden, Vocab>>
<1> DEFINE Shape(x) ==
             \/ x.dtype = "F32" /\ \E d \in Nat : x.dims = <<d>>
             \/ x.dtype = "Q4_0" /\ \E d \in Nat : x.dims \in {<<Hidden, d>>, <<d, Hidden>>}
             \/ x.dtype = "Q6_K" /\ x.dims = <<Hidden, Vocab>>
<1>1. \A name, d : d \in Nat => Shape(Expected(name, <<d>>, "F32"))
  BY DEF Expected
<1>2. \A name, d : d \in Nat => /\ Shape(Expected(name, <<Hidden, d>>, "Q4_0"))
                                /\ Shape(Expected(name, <<d, Hidden>>, "Q4_0"))
  BY DEF Expected
<1>3. Shape(Expected(TokenEmbd, <<Hidden, Vocab>>, "Q6_K"))
  BY DEF Expected
<1> HIDE DEF Shape
<1>4. ASSUME NEW layer \in Layer, e \in ExpectedOfLayer(layer)
      PROVE  Shape(e)
  <2> DEFINE kind == LayerKind(layer)
             qDim == NQHeads * HeadDim(kind)
             kvDim == KvHeads(kind) * HeadDim(kind)
             hd == HeadDim(kind)
  <2>1. hd \in Nat /\ KvHeads(kind) \in Nat
    BY Dimensions DEF HeadDim, KvHeads
  <2>2. qDim \in Nat /\ kvDim \in Nat /\ Ffn \in Nat /\ Hidden \in Nat /\ 1 \in Nat
    BY <2>1, Dimensions
  <2>3. \/ \E name : e \in {Expected(name, <<Hidden, qDim>>, "Q4_0"), Expected(name, <<Hidden, kvDim>>, "Q4_0"),
                            Expected(name, <<qDim, Hidden>>, "Q4_0"), Expected(name, <<Hidden, Ffn>>, "Q4_0"),
                            Expected(name, <<Ffn, Hidden>>, "Q4_0")}
        \/ \E name : e \in {Expected(name, <<hd>>, "F32"), Expected(name, <<Hidden>>, "F32"),
                            Expected(name, <<1>>, "F32")}
    BY <1>4 DEF ExpectedOfLayer
  <2> HIDE DEF qDim, kvDim, hd
  <2> QED BY <1>1, <1>2, <2>1, <2>2, <2>3 DEF hd
<1>5. GlobalHeadDim \div 2 \in Nat /\ Hidden \in Nat
  BY Dimensions
<1>6. Shape(e)
  <2> DEFINE half == GlobalHeadDim \div 2
  <2>1. half \in Nat /\ Hidden \in Nat
    BY <1>5
  <2>2. \/ e \in {Expected(TokenEmbd, <<Hidden, Vocab>>, "Q6_K"), Expected(OutputNorm, <<Hidden>>, "F32"),
                  Expected(RopeFreqs, <<half>>, "F32")}
        \/ \E layer \in Layer : e \in ExpectedOfLayer(layer)
    BY DEF ExpectedTensors
  <2> HIDE DEF half
  <2> QED BY <1>1, <1>3, <1>4, <2>1, <2>2
<1> QED BY <1>6 DEF Shape

(* A tensor that is uploaded word by word is there to the last byte.        *)
LEMMA VerbatimByte ==
  ASSUME NEW t, t.byteLen \in Nat, t.byteLen % 4 = 0, BytesFrom(t) \in Nat, NEW b \in 0 .. t.byteLen - 1
  PROVE  DeviceByte(Verbatim(t), b) = BytesFrom(t) + b
<1> DEFINE n == t.byteLen
<1>1. n \in Nat /\ n % 4 = 0 /\ b \in 0 .. n - 1
  OBVIOUS
<1>2. Verbatim(t) = [from |-> BytesFrom(t), rows |-> 1, row |-> n, stride |-> n]
  <2>1. (n \div 4) * 4 = n
    <3> HIDE DEF n
    <3>1. n \div 4 \in Int /\ n = 4 * (n \div 4) + (n % 4)
      BY <1>1, DivModInt
    <3> QED BY <1>1, <3>1
  <2> QED BY <2>1 DEF Verbatim
<1> HIDE DEF n
<1>3. n \in Nat \ {0} /\ b \in Nat
  BY <1>1
<1>4. b \div n = 0 /\ b % n = b
  <2>1. (0 * n + b) \div n = 0 /\ (0 * n + b) % n = b
    BY ONLY <1>1, <1>3, 0 \in Int, DivModUnique
  <2>2. 0 * n + b = b
    BY <1>3
  <2> QED BY <2>1, <2>2
<1>5. b < 1 * n /\ b < n
  BY <1>1, <1>3
<1>6. DeviceByte(Verbatim(t), b) = BytesFrom(t) + 0 * n + b
  BY <1>2, <1>4, <1>5 DEF DeviceByte
<1> QED BY <1>3, <1>6

(* And a row that is set apart is there at its stride.                      *)
LEMMA StridedByte ==
  ASSUME NEW buffer, buffer.from \in Nat, buffer.rows \in Nat, buffer.row \in Nat, buffer.stride \in Nat,
         buffer.row <= buffer.stride,
         NEW r \in 0 .. buffer.rows - 1, NEW c \in 0 .. buffer.row - 1
  PROVE  DeviceByte(buffer, r * buffer.stride + c) = buffer.from + r * buffer.row + c
<1> DEFINE stride == buffer.stride
           rows == buffer.rows
           row == buffer.row
           b == r * stride + c
<1>1. stride \in Nat \ {0} /\ c \in 0 .. stride - 1 /\ r \in Int /\ rows \in Int /\ r < rows /\ c < row
  OBVIOUS
<1> HIDE DEF stride, rows, row
<1>2. b \div stride = r /\ b % stride = c
  BY ONLY <1>1, DivModUnique
<1>3. b < rows * stride
  <2>1. stride * r + stride <= stride * rows
    BY <1>1, MulGap
  <2>2. r * stride = stride * r /\ rows * stride = stride * rows /\ stride * r \in Int /\ stride * rows \in Int
    BY <1>1
  <2> QED BY <1>1, <2>1, <2>2
<1> HIDE DEF b
<1>4. DeviceByte(buffer, b) = buffer.from + r * row + c
  BY <1>1, <1>2, <1>3 DEF DeviceByte, stride, rows, row
<1> QED BY <1>4 DEF b, stride, row

(* The rows of the embeddings are whole blocks and fit the stride, as       *)
(* upload_q6k_repacked asserts.                                             *)
RowsFit == Hidden % BlockElems["Q6_K"] = 0 /\ RowBytes <= Q6kRowWords * 4

(* A matrix with whole blocks in one of its dimensions is a whole number of *)
(* words.                                                                   *)
LEMMA WholeWords ==
  ASSUME RowsFit, NEW d \in Nat, NEW n \in Nat, n * 32 = (Hidden * d) * 18
  PROVE  n % 4 = 0
<1> DEFINE q == Hidden \div 256
<1>1. Hidden \in Nat /\ Hidden % 256 = 0
  BY Dimensions DEF RowsFit, BlockElems
<1>2. q \in Int /\ Hidden = 256 * q
  <2>1. q \in Int /\ Hidden = 256 * q + (Hidden % 256)
    BY <1>1, DivModInt
  <2> HIDE DEF q
  <2> QED BY <1>1, <2>1
<1> HIDE DEF q
<1> DEFINE k == q * d
<1>3. k \in Int /\ Hidden * d = 256 * k
  BY <1>2
<1> HIDE DEF k
<1>4. n = 4 * (36 * k)
  BY <1>3
<1>5. (4 * (36 * k)) % 4 = 0
  <2> DEFINE j == 36 * k
  <2>1. j \in Int
    BY <1>3
  <2> HIDE DEF j
  <2>2. (4 * j) % 4 = 0
    BY <2>1, MultipleMod
  <2> QED BY <2>2 DEF j
<1> QED BY <1>4, <1>5

(* Rows of the embeddings.                                                  *)
LEMMA EmbeddingRows ==
  ASSUME RowsFit, NEW n \in Nat, n * 256 = (Hidden * Vocab) * 210
  PROVE  /\ RowBytes \in Nat \ {0} /\ (Hidden * 210) \div 256 = RowBytes /\ n \div RowBytes = Vocab
<1> DEFINE q == Hidden \div 256
<1>1. Hidden \in Nat \ {0} /\ Vocab \in Nat /\ Hidden % 256 = 0
  BY Dimensions DEF RowsFit, BlockElems
<1>2. q \in Int /\ Hidden = 256 * q
  <2>1. q \in Int /\ Hidden = 256 * q + (Hidden % 256)
    BY <1>1, DivModInt
  <2> HIDE DEF q
  <2> QED BY <1>1, <2>1
<1>3. RowBytes = q * 210
  BY DEF RowBytes, BlockElems, BlockBytes
<1> HIDE DEF q
<1>4. q \in Nat \ {0}
  BY <1>1, <1>2
<1> DEFINE w == q * 210
<1>5. w \in Nat \ {0}
  BY <1>4
<1>6. (Hidden * 210) \div 256 = w
  <2>1. Hidden * 210 = w * 256 + 0
    BY <1>2, <1>4
  <2> HIDE DEF w
  <2>2. (w * 256 + 0) \div 256 = w
    BY ONLY <1>5, 0 \in 0 .. 256 - 1, 256 \in Nat \ {0}, w \in Int, DivModUnique
  <2> QED BY <2>1, <2>2
<1>7. n = Vocab * w + 0
  <2> DEFINE v == q * Vocab
  <2>1. v \in Nat /\ Hidden * Vocab = 256 * v
    BY <1>1, <1>2, <1>4
  <2>2. Vocab * w = 210 * v
    BY <1>1, <1>4
  <2> HIDE DEF v, w
  <2> QED BY <2>1, <2>2
<1> HIDE DEF w
<1>8. (Vocab * w + 0) \div w = Vocab
  <2>1. 0 \in 0 .. w - 1 /\ Vocab \in Int
    BY <1>1, <1>5
  <2> QED BY ONLY <1>5, <2>1, DivModUnique
<1>9. RowBytes = w
  BY <1>3 DEF w
<1> QED BY <1>5, <1>6, <1>7, <1>8, <1>9

(* Whatever the file, the dimensions and the order of the table, every      *)
(* kernel finds the bytes the writer of the file put there                  *)
(* (GpuWeights::upload, upload_q6k_repacked).                               *)
THEOREM UploadedAsWritten ==
  ASSUME RowsFit
  PROVE  Spec => [](WellWritten(file) => KernelsReadTheFile)
<1>1. ParseInv /\ UploadInv => (WellWritten(file) => KernelsReadTheFile)
  <2> SUFFICES ASSUME ParseInv, UploadInv, WellWritten(file), upload = "ok",
                      NEW t \in Range(table), t.name \in DOMAIN buffers,
                      NEW r \in 0 .. (t.byteLen \div RowOf(t)) - 1, NEW c \in 0 .. RowOf(t) - 1
               PROVE  DeviceByte(buffers[t.name], r * KernelStride(t) + c)
                        = file.dataAt + t.offset + r * RowOf(t) + c
    BY DEF KernelsReadTheFile
  <2> DEFINE n == t.byteLen
             from == start + t.offset
  <2>1. phase = "parsed" /\ Serving
    BY DEF UploadInv
  <2>2. PICK j \in DOMAIN table : t = table[j]
    BY DEF Range
  <2>3. /\ n \in Nat /\ t.offset \in Nat /\ start \in Nat
        /\ n * BlockElems[t.dtype] = Product(t.dims) * BlockBytes[t.dtype]
        /\ Product(t.dims) \in Nat
    <3>1. Product(t.dims) = Elements(file.tensors[j])
      BY <2>1, <2>2, AcceptedTensor DEF Info, Elements
    <3> QED BY <2>1, <2>2, <3>1, AcceptedTensor
  <2>4. start = file.dataAt
    <3>1. table # <<>>
      BY <2>2
    <3> QED BY <2>1, <3>1, StartIsDataAt
  <2>5. buffers[t.name] = ContentOf(t)
    BY <2>1 DEF Serving
  <2>6. from \in Nat /\ BytesFrom(t) = from
    BY <2>3 DEF BytesFrom
  <2>7. PICK e \in ExpectedTensors : e.dims = t.dims /\ e.dtype = t.dtype
    <3>1. \A x, y \in DOMAIN table : table[x].name = table[y].name => x = y
      BY <2>1, AcceptedNames
    <3> QED BY <2>1, <2>2, <3>1, TensorIsWanted DEF Serving
  <2>8. Product(t.dims) # None
    BY <2>3 DEF None
  <2>9. SUFFICES DeviceByte(ContentOf(t), r * KernelStride(t) + c) = from + r * RowOf(t) + c
    BY <2>4, <2>5
  <2>10. CASE t.dtype = "F32" /\ \E d \in Nat : t.dims = <<d>>
    <3>1. PICK d \in Nat : t.dims = <<d>>
      BY <2>10
    <3>2. Product(t.dims) = d
      BY <2>8, <3>1, ProductOfOne
    <3>3. n = d * 4
      BY <2>3, <2>10, <3>2 DEF BlockElems, BlockBytes
    <3>4. n % 4 = 0
      <4>1. (4 * d) % 4 = 0
        BY MultipleMod
      <4> QED BY <3>3, <4>1
    <3>5. RowOf(t) = n /\ KernelStride(t) = n
      BY <2>10, <3>1 DEF RowOf, KernelStride
    <3>6. r * n + c \in 0 .. n - 1
      BY <2>3, <3>5, InRows
    <3>7. DeviceByte(Verbatim(t), r * n + c) = from + (r * n + c)
      BY <2>3, <2>6, <3>4, <3>6, VerbatimByte
    <3>8. r \in Int /\ c \in Int /\ n \in Int /\ r * n \in Int
      BY <2>3, <3>5
    <3> HIDE DEF n, from
    <3>9. from + (r * n + c) = from + r * n + c
      BY <2>6, <3>8
    <3> QED BY <2>10, <3>5, <3>7, <3>9 DEF ContentOf
  <2>11. CASE t.dtype = "Q4_0" /\ \E d \in Nat : t.dims \in {<<Hidden, d>>, <<d, Hidden>>}
    <3>1. PICK d \in Nat : t.dims \in {<<Hidden, d>>, <<d, Hidden>>}
      BY <2>11
    <3>2. Product(t.dims) = Hidden * d
      <4>1. CASE t.dims = <<Hidden, d>>
        BY <2>8, <4>1, ProductOfTwo, Dimensions
      <4>2. CASE t.dims = <<d, Hidden>>
        <5>1. Product(t.dims) = d * Hidden
          BY <2>8, <4>2, ProductOfTwo, Dimensions
        <5> QED BY <5>1, Dimensions
      <4> QED BY <3>1, <4>1, <4>2
    <3>3. n * 32 = (Hidden * d) * 18
      BY <2>3, <2>11, <3>2 DEF BlockElems, BlockBytes
    <3>4. n % 4 = 0
      BY <2>3, <3>3, WholeWords
    <3> DEFINE w == RowOf(t)
    <3>5. w \in Nat /\ KernelStride(t) = w
      <4> DEFINE in == t.dims[1] * 18
      <4>1. Len(t.dims) = 2 /\ t.dims[1] \in Nat
        BY <3>1, Dimensions
      <4>2. w = in \div 32 /\ in \in Nat
        BY <2>11, <4>1 DEF RowOf, Elems, BlockElems, BlockBytes
      <4> HIDE DEF in, w
      <4>3. in \div 32 \in Nat
        BY <4>2
      <4> QED BY <2>11, <4>2, <4>3 DEF KernelStride, w
    <3> HIDE DEF w
    <3>6. r * w + c \in 0 .. n - 1 /\ r \in Int /\ c \in Int /\ r * w \in Int
      <4>1. r \in 0 .. (n \div w) - 1 /\ c \in 0 .. w - 1
        BY DEF w
      <4> HIDE DEF n
      <4>2. r * w + c \in 0 .. n - 1
        BY ONLY <2>3, <3>5, <4>1, InRows
      <4> QED BY <3>5, <4>1, <4>2
    <3>7. DeviceByte(Verbatim(t), r * w + c) = from + (r * w + c)
      BY <2>3, <2>6, <3>4, <3>6, VerbatimByte
    <3> HIDE DEF n, from
    <3>8. from + (r * w + c) = from + r * w + c
      BY <2>6, <3>6
    <3> QED BY <2>11, <3>5, <3>7, <3>8 DEF ContentOf, w
  <2>12. CASE t.dtype = "Q6_K" /\ t.dims = <<Hidden, Vocab>>
    <3>1. Product(t.dims) = Hidden * Vocab
      BY <2>8, <2>12, ProductOfTwo, Dimensions
    <3>2. n * 256 = (Hidden * Vocab) * 210
      BY <2>3, <2>12, <3>1 DEF BlockElems, BlockBytes
    <3>3. RowBytes \in Nat \ {0} /\ (Hidden * 210) \div 256 = RowBytes /\ n \div RowBytes = Vocab
      BY <2>3, <3>2, EmbeddingRows
    <3>4. RowOf(t) = RowBytes
      BY <2>12, <3>3 DEF RowOf, Elems, BlockElems, BlockBytes
    <3> DEFINE s == Q6kRowWords * 4
    <3>5. KernelStride(t) = s /\ s \in Nat /\ RowBytes <= s
      BY <2>12, RowWordsAssumption DEF KernelStride, RowsFit
    <3> DEFINE buffer == ContentOf(t)
    <3>6. buffer.from = from /\ buffer.rows = Vocab /\ buffer.row = RowBytes /\ buffer.stride = s
      BY <2>6, <2>12 DEF ContentOf, Repacked
    <3>7. r \in 0 .. Vocab - 1 /\ c \in 0 .. RowBytes - 1 /\ Vocab \in Nat /\ RowBytes \in Nat
      BY <3>3, <3>4, Dimensions
    <3> HIDE DEF s, from, buffer
    <3>8. /\ buffer.from \in Nat /\ buffer.rows \in Nat /\ buffer.row \in Nat /\ buffer.stride \in Nat
          /\ buffer.row <= buffer.stride /\ r \in 0 .. buffer.rows - 1 /\ c \in 0 .. buffer.row - 1
      BY <2>6, <3>3, <3>5, <3>6, <3>7
    <3>9. DeviceByte(buffer, r * buffer.stride + c) = buffer.from + r * buffer.row + c
      BY ONLY <3>8, StridedByte
    <3> QED BY <3>4, <3>5, <3>6, <3>9 DEF buffer
  <2> QED BY <2>7, <2>10, <2>11, <2>12, ExpectedShapes
<1> QED BY <1>1, ParseInvAlways, UploadInvAlways, PTL

=============================================================================
