---------------------------- MODULE DirectSource ----------------------------
(***************************************************************************)
(* DirectSource::load and read_full of sg-gguf/src/weights.rs: the data    *)
(* section is read with O_DIRECT, chunk by chunk over an aligned window    *)
(* around it, straight into the destination where alignment allows it and  *)
(* through a bounce buffer elsewhere.  The kernel may return fewer bytes   *)
(* than asked for, fail, or find a file that is shorter than the one that  *)
(* was parsed.  A read that is interrupted is repeated: it changes nothing *)
(* and is a stuttering step.                                               *)
(*                                                                         *)
(* The byte at position p of the file is p, and Unset is what a buffer     *)
(* held before.                                                            *)
(***************************************************************************)
EXTENDS Integers

CONSTANTS
    Block, Chunk,      \* BLOCK and CHUNK
    Addresses,         \* where a destination may lie
    Lost,              \* bytes the file may have lost since it was parsed
    Surplus            \* bytes a destination may be too long

ASSUME ChunkAssumption ==
    /\ Block \in Nat \ {0} /\ Chunk \in Nat \ {0}
    /\ Chunk % Block = 0
    /\ Addresses \subseteq Nat /\ Lost \subseteq Nat /\ Surplus \subseteq Nat

VARIABLES
    section,     \* data_offset and data_len, from the parsed file
    size,        \* length of the file that load opens
    addr,        \* address of the destination
    whole,       \* whether the kernel's short reads are whole blocks
    dst,         \* the destination
    bounce,      \* the bounce buffer
    offset,      \* file offset of the chunk
    done,        \* bytes read_full has of it
    pc           \* "idle", "open", "chunk", "read", "ok" or "error"

fileVars == <<section, size, addr, whole>>
loadVars == <<section, size, addr, whole, dst, bounce, offset, done, pc>>

Unset == -1
Start == section.start
Size == section.len
End == Start + Size
Smaller(a, b) == IF a <= b THEN a ELSE b

AlignedStart == (Start \div Block) * Block
NextMultiple(n) == ((n + Block - 1) \div Block) * Block

Want == Smaller(Chunk, NextMultiple(End - offset))
DstPos == offset - Start
DirectOk == (addr + AlignedStart - Start) % Block = 0
WholeChunkInDst == DstPos >= 0 /\ DstPos + Want <= Size
(* Mutant: the alignment of the destination is not looked at.              *)
DirectAnywhere == WholeChunkInDst

Direct == DirectOk /\ WholeChunkInDst

Fresh(n) == [i \in 0 .. n - 1 |-> Unset]

LoadInit ==
    /\ section = [start |-> 0, len |-> 0]
    /\ size = 0 /\ addr = 0 /\ whole = TRUE
    /\ dst = Fresh(0) /\ bounce = Fresh(0)
    /\ offset = 0 /\ done = 0 /\ pc = "idle"

(* DirectSource::new, of a parsed file, and a call of load: the bounce     *)
(* buffer is one chunk.                                                    *)
NewSource(s) ==
    /\ pc = "idle" /\ pc' = "open"
    /\ section' = s
    /\ \E lost \in Lost : lost <= s.start + s.len /\ size' = s.start + s.len - lost
    /\ addr' \in Addresses
    /\ whole' \in BOOLEAN
    /\ \E surplus \in Surplus : dst' = Fresh(s.len + surplus)
    /\ bounce' = Fresh(Chunk)
    /\ UNCHANGED <<offset, done>>

(* Mutant: the length of the destination is not checked.                   *)
OpenUnchecked ==
    /\ pc = "open"
    /\ \/ Size = 0 /\ pc' = "ok" /\ UNCHANGED offset
       \/ Size > 0 /\ pc' = "chunk" /\ offset' = AlignedStart
    /\ UNCHANGED <<fileVars, dst, bounce, done>>

(* check_dst, the empty section, and the open that tmpfs refuses.          *)
Open ==
    /\ pc = "open"
    /\ \/ DOMAIN dst # 0 .. Size - 1 /\ pc' = "error" /\ UNCHANGED offset
       \/ DOMAIN dst = 0 .. Size - 1 /\ Size = 0 /\ pc' = "ok" /\ UNCHANGED offset
       \/ /\ DOMAIN dst = 0 .. Size - 1 /\ Size > 0
          /\ pc' = "chunk" /\ offset' = AlignedStart
    /\ UNCHANGED <<fileVars, dst, bounce, done>>

OpenFails ==
    /\ pc = "open"
    /\ pc' = "error"
    /\ UNCHANGED <<fileVars, dst, bounce, offset, done>>

NextChunk ==
    /\ pc = "chunk"
    /\ pc' = IF offset < End THEN "read" ELSE "ok"
    /\ done' = 0
    /\ UNCHANGED <<fileVars, dst, bounce, offset>>

(* One read_at that returns n bytes of the file.                           *)
ReadAt(n) ==
    /\ pc = "read" /\ done < Want
    /\ n <= Want - done /\ offset + done + n <= size
    /\ whole => n % Block = 0 \/ offset + done + n = size
    /\ done' = done + n
    /\ IF Direct
       THEN /\ dst' = [i \in DOMAIN dst |->
                         IF DstPos + done <= i /\ i < DstPos + done + n THEN Start + i ELSE dst[i]]
            /\ UNCHANGED bounce
       ELSE /\ bounce' = [i \in DOMAIN bounce |->
                            IF done <= i /\ i < done + n THEN offset + i ELSE bounce[i]]
            /\ UNCHANGED dst
    /\ UNCHANGED <<fileVars, offset, pc>>

ReadFails ==
    /\ pc = "read" /\ done < Want
    /\ pc' = "error"
    /\ UNCHANGED <<fileVars, dst, bounce, offset, done>>

(* Mutant: the whole chunk is copied, however much of it was read.         *)
CopiedWanted ==
    [i \in DOMAIN dst |->
       IF DstPos <= i /\ i < DstPos + Want THEN bounce[Start + i - offset] ELSE dst[i]]

(* The part of the chunk that lies in the data section, copied from the    *)
(* bounce buffer.                                                          *)
Copied ==
    [i \in DOMAIN dst |->
       IF DstPos <= i /\ i < DstPos + done THEN bounce[Start + i - offset] ELSE dst[i]]

(* Mutant: a read of nothing is no error.                                  *)
EndReadOfNothing ==
    /\ pc = "read"
    /\ done = Want \/ offset + done >= size
    /\ pc' = "chunk" /\ offset' = offset + done
    /\ dst' = IF Direct THEN dst ELSE Copied
    /\ UNCHANGED <<fileVars, bounce, done>>

(* read_full ends, with a full buffer or at the end of the file: an error  *)
(* when it read nothing.                                                   *)
EndRead ==
    /\ pc = "read"
    /\ done = Want \/ offset + done >= size
    /\ IF done = 0
       THEN pc' = "error" /\ UNCHANGED <<dst, offset>>
       ELSE /\ pc' = "chunk" /\ offset' = offset + done
            /\ dst' = IF Direct THEN dst ELSE Copied
    /\ UNCHANGED <<fileVars, bounce, done>>

LoadStep ==
    \/ Open \/ OpenFails \/ NextChunk \/ EndRead \/ ReadFails
    \/ \E n \in 1 .. Chunk : ReadAt(n)

(* The loader by itself, for whatever section a parser hands it.           *)
Section == [start : Nat, len : Nat]
DirectNext == (section' \in Section /\ NewSource(section')) \/ LoadStep
DirectSpec == LoadInit /\ [][DirectNext]_loadVars

-----------------------------------------------------------------------------
Loaded == pc = "ok"

Source == INSTANCE WeightSource WITH
            status <- IF pc \in {"ok", "error"} THEN pc ELSE "idle",
            content <- IF Loaded THEN dst ELSE Fresh(0)

(* The loader keeps the promise of the WeightSource trait: seen from       *)
(* outside it fills the destination with the data section at once, or      *)
(* fails (DirectSource::load).                                             *)
ImplementsWeightSource == Source!Spec

(***************************************************************************)
(* A load that succeeds leaves exactly the data section in the destination *)
(* and never writes a wrong byte on the way there: over chunks that begin  *)
(* before the section or end behind it, short reads, stale bytes of the    *)
(* bounce buffer, both paths, and a file that was cut short since it was   *)
(* parsed, for which it must fail.                                         *)
(***************************************************************************)
LoadIsCopy ==
    /\ \A i \in DOMAIN dst : dst[i] \in {Unset, Start + i}
    /\ Loaded => /\ DOMAIN dst = 0 .. Size - 1
                    /\ \A i \in DOMAIN dst : dst[i] = Start + i

(***************************************************************************)
(* What O_DIRECT asks of a read: file offset, length and address of the    *)
(* buffer are multiples of the block, at every read that has bytes left to *)
(* return, when the kernel's short reads are whole blocks.                 *)
(***************************************************************************)
ReadsAligned ==
    whole /\ pc = "read" /\ done < Want /\ offset + done < size =>
      /\ (offset + done) % Block = 0
      /\ (Want - done) % Block = 0
      /\ (IF Direct THEN addr + DstPos + done ELSE done) % Block = 0
=============================================================================
