-------------------------- MODULE ImmediateBuffers --------------------------
(***************************************************************************)
(* What immediate writes (mov dword [base + offset], value) leave in       *)
(* memory, as path_digest.rs and jump_table.rs both keep it: per base      *)
(* register, bytes by their offset.  A write is [base, offset, size,       *)
(* value], a text that is none is NoWrite.                                 *)
(***************************************************************************)
EXTENDS Integers, SequencesExt, FiniteSetsExt

CONSTANTS
  ByteBase,  \* the number of values of a byte
  SpanCap,   \* 512, how far apart the offsets of a shown buffer may be
  NoWrite

ASSUME BuffersAssumption == ByteBase \in Nat \ {0, 1} /\ SpanCap \in Nat

Covered(w) == w.offset .. w.offset + w.size - 1

WrittenByte(w, o) == (w.value \div ByteBase ^ (o - w.offset)) % ByteBase

(* Mutant of WriteBytes: the first write to a byte wins. *)
WriteIfNew(bytes, w) ==
  [o \in DOMAIN bytes \cup Covered(w) |->
     IF o \in DOMAIN bytes THEN bytes[o] ELSE WrittenByte(w, o)]

WriteBytes(bytes, w) ==
  [o \in DOMAIN bytes \cup Covered(w) |->
     IF o \in Covered(w) THEN WrittenByte(w, o) ELSE bytes[o]]

(* Writes through a base gather in one buffer, whatever the register holds. *)
AddWrite(bufs, w) ==
  IF w = NoWrite THEN bufs
  ELSE [b \in DOMAIN bufs \cup {w.base} |->
          LET had == IF b \in DOMAIN bufs THEN bufs[b] ELSE <<>>
          IN  IF b = w.base THEN WriteBytes(had, w) ELSE had]

(* summarize_buffer, buffer_summary *)
IsShown(bytes) ==
  /\ Cardinality(DOMAIN bytes) >= 2
  /\ \E o \in DOMAIN bytes : bytes[o] # 0
  /\ Max(DOMAIN bytes) - Min(DOMAIN bytes) <= SpanCap

Contiguous(bytes) ==
  [i \in 1 .. Max(DOMAIN bytes) - Min(DOMAIN bytes) + 1 |->
     LET o == Min(DOMAIN bytes) + i - 1
     IN  IF o \in DOMAIN bytes THEN bytes[o] ELSE 0]
=============================================================================
