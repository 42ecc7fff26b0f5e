---------------------------- MODULE WeightSource ----------------------------
(***************************************************************************)
(* What the WeightSource trait of sg-gguf/src/weights.rs promises: a load  *)
(* fills a destination of the right length with the data section of the    *)
(* file, or fails.  MmapCopySource does so in one step; DirectSource is    *)
(* shown to implement it.                                                  *)
(*                                                                         *)
(* Only places matter of the bytes: the byte at position p of the file     *)
(* is p itself.                                                            *)
(***************************************************************************)
EXTENDS Integers

VARIABLES
    section,     \* the data section: its start in the file and its length
    status,      \* "idle", "ok" or "error"
    content      \* what a load that succeeded left in the destination

sourceVars == <<section, status, content>>

Data(s) == [i \in 0 .. s.len - 1 |-> s.start + i]
Nothing == [i \in 0 .. -1 |-> 0]

Init == status = "idle" /\ content = Nothing

(* load: check_dst, then copy_from_slice.                                  *)
Load ==
    /\ status = "idle"
    /\ status' = "ok" /\ content' = Data(section)
    /\ UNCHANGED section

(* A source for another section.                                           *)
New ==
    /\ status = "idle"
    /\ section' \in [start : Nat, len : Nat]
    /\ UNCHANGED <<status, content>>

Reject ==
    /\ status = "idle"
    /\ status' = "error"
    /\ UNCHANGED <<section, content>>

Next == New \/ Load \/ Reject

Spec == Init /\ [][Next]_sourceVars
=============================================================================
