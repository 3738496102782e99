------------------------------ MODULE JumpTable ------------------------------
(***************************************************************************)
(* jump_table_slices (crates/rbm-r2/src/jump_table.rs): reads a table of   *)
(* pointers, then disassembles once at each distinct target.               *)
(*                                                                         *)
(* What radare2 answers is chosen when it is asked.  An instruction is     *)
(* [at, invalid, call, jump, ret, indirect, write], at its distance from   *)
(* the target or NoAddr.                                                   *)
(***************************************************************************)
EXTENDS ImmediateBuffers

CONSTANTS
  EntryCounts,   \* values of entry_count
  PointerSizes,  \* values of pointer_size
  MaxEntries,    \* MAX_ENTRIES
  TableBytes,    \* answers to pxj: sequences of bytes, or NotBytes
  SliceOps,      \* answers to pdj: sequences of instructions
  SliceBytes,    \* target_bytes, clamped
  MaxSlice,      \* max_instructions, clamped
  LeastAsked,    \* 16, the instructions pdj is always asked for
  TableBases,    \* numbers table_addr may be, or Symbolic
  Symbolic, NotBytes, NoAddr

ASSUME JumpTableAssumption ==
  /\ MaxEntries \in Nat \ {0} /\ EntryCounts \subseteq Nat
  /\ PointerSizes \subseteq Nat
  /\ TableBases \subseteq Nat \cup {Symbolic}
  /\ TableBytes \ {NotBytes} \subseteq Seq(0 .. ByteBase - 1)
  /\ \A ops \in SliceOps : ops \in Seq({ops[i] : i \in DOMAIN ops})

VARIABLES
  jtPc,      \* "idle", "table", "slices", "done" or "failed"
  count,     \* entry_count, clamped
  pointer,   \* pointer_size, 0 replaced
  tableAt,   \* table_addr
  raw,       \* the table's bytes
  entries,   \* [index, address, target]
  todo,      \* unique targets still to disassemble
  slices     \* summaries, in the order they are made

jtVars == <<jtPc, count, pointer, tableAt, raw, entries, todo, slices>>

-----------------------------------------------------------------------------

ClampCount(n) == Max({1, Min({n, MaxEntries})})

LittleEndian(chunk) ==
  LET size == Len(chunk)
      high[n \in 0 .. size] ==
        IF n = 0 THEN 0 ELSE high[n - 1] * ByteBase + chunk[size - n + 1]
  IN  high[size]

(* An entry the bytes do not reach to the end of is left out.  The address *)
(* of a table named by a symbol does not parse: its entries count from 0.  *)
ParseEntries(bytes, n, size, base) ==
  [i \in 1 .. Min({n, Len(bytes) \div size}) |->
     [index |-> i - 1,
      address |-> (IF base = Symbolic THEN 0 ELSE base) + (i - 1) * size,
      target |-> LittleEndian(SubSeq(bytes, (i - 1) * size + 1, i * size))]]

(* instructions_for_window *)
InstructionsAsked ==
  Max({LeastAsked, Min({MaxSlice, Max({LeastAsked, SliceBytes \div 4})})})

(* summarize_target: the instructions of the slice that are in its range. *)

InSlice(ops) ==
  LET addressed == {i \in DOMAIN ops : ops[i].at # NoAddr}
  IN  {i \in addressed : \A j \in addressed : j <= i => ops[j].at < SliceBytes}

WritesOf(ops, chosen) ==
  LET bufs[n \in 0 .. Len(ops)] ==
        IF n = 0 THEN <<>>
        ELSE IF n \in chosen THEN AddWrite(bufs[n - 1], ops[n].write) ELSE bufs[n - 1]
  IN  bufs[Len(ops)]

SummarizeSlice(ops) ==
  LET seen  == InSlice(ops)
      valid == {i \in seen : ~ops[i].invalid}
      bufs  == WritesOf(ops, valid)
  IN  [raw     |-> Cardinality(seen),
       invalid |-> Cardinality(seen \ valid),
       calls   |-> Cardinality({i \in valid : ops[i].call}),
       jumps   |-> Cardinality({i \in valid : ops[i].jump /\ ops[i].indirect}),
       ends    |-> Cardinality({i \in valid : ops[i].jump /\ ~ops[i].indirect})
                     + Cardinality({i \in valid : ops[i].ret}),
       buffers |-> [b \in {x \in DOMAIN bufs : IsShown(bufs[x])} |-> bufs[b]]]

-----------------------------------------------------------------------------

TableStart ==
  /\ jtPc = "idle"
  /\ \E n \in EntryCounts, size \in PointerSizes, base \in TableBases :
       /\ tableAt' = base
       /\ count' = ClampCount(n)
       /\ pointer' = IF size = 0 THEN 4 ELSE size
       /\ jtPc' = IF size \in {0, 1, 2, 4, 8} THEN "table" ELSE "failed"
  /\ UNCHANGED <<raw, entries, todo, slices>>

ReadTable ==
  /\ jtPc = "table"
  /\ \E bytes \in TableBytes :
       IF bytes = NotBytes
       THEN jtPc' = "failed" /\ UNCHANGED <<raw, entries, todo>>
       ELSE LET es == ParseEntries(bytes, count, pointer, tableAt)
            IN     /\ Len(bytes) <= count * pointer
                   /\ raw' = bytes
                   /\ entries' = es
                   /\ todo' = {es[i].target : i \in DOMAIN es}
                   /\ jtPc' = "slices"
  /\ UNCHANGED <<count, pointer, tableAt, slices>>

(* Mutant of ReadSlice: one call for each entry, not for each target. *)
ReadSlicePerEntry ==
  /\ jtPc = "slices"
  /\ Len(slices) < Len(entries)
  /\ \E ops \in SliceOps :
       slices' = Append(slices, [target |-> entries[Len(slices) + 1].target,
                                 ops |-> ops, summary |-> SummarizeSlice(ops)])
  /\ todo' = IF Len(slices') = Len(entries) THEN {} ELSE todo
  /\ UNCHANGED <<jtPc, count, pointer, tableAt, raw, entries>>

(* The targets are taken in ascending order. *)
ReadSlice ==
  /\ jtPc = "slices"
  /\ todo # {}
  /\ \E ops \in SliceOps :
       /\ Len(ops) <= InstructionsAsked
       /\ slices' = Append(slices, [target |-> Min(todo), ops |-> ops,
                                 summary |-> SummarizeSlice(ops)])
  /\ todo' = todo \ {Min(todo)}
  /\ UNCHANGED <<jtPc, count, pointer, tableAt, raw, entries>>

TableEnds ==
  /\ jtPc = "slices"
  /\ todo = {}
  /\ jtPc' = "done"
  /\ UNCHANGED <<count, pointer, tableAt, raw, entries, todo, slices>>

(* One failing call loses the slices there are. *)
TableFails ==
  /\ jtPc \in {"table", "slices"}
  /\ jtPc = "slices" => todo # {}
  /\ jtPc' = "failed"
  /\ UNCHANGED <<count, pointer, tableAt, raw, entries, todo, slices>>

TableInit ==
  /\ jtPc = "idle"
  /\ count = 0 /\ pointer = 0 /\ tableAt = Symbolic
  /\ raw = <<>> /\ entries = <<>> /\ slices = <<>>
  /\ todo = {}

TableNext == TableStart \/ ReadTable \/ ReadSlice \/ TableEnds \/ TableFails

TableSpec == TableInit /\ [][TableNext]_jtVars

-----------------------------------------------------------------------------

TableTypeOK ==
  /\ jtPc \in {"idle", "table", "slices", "done", "failed"}
  /\ count \in 0 .. MaxEntries
  /\ Len(entries) <= count

(***************************************************************************)
(* The entries, written out again with the least significant byte first,   *)
(* are the table: none is read from bytes of its neighbour, and none that  *)
(* the bytes hold is left out.                                             *)
(***************************************************************************)
Encode(v, size) ==
  LET rest[n \in 0 .. size] == IF n = 0 THEN v ELSE rest[n - 1] \div ByteBase
  IN  [i \in 1 .. size |-> rest[i - 1] % ByteBase]

EntriesAreTheTable ==
  jtPc \in {"slices", "done"} =>
    /\ Len(entries) * pointer <= Len(raw)
    /\ \A i \in DOMAIN entries :
         /\ Encode(entries[i].target, pointer)
              = SubSeq(raw, (i - 1) * pointer + 1, i * pointer)
         /\ tableAt # Symbolic =>
              entries[i].address = tableAt + entries[i].index * pointer
    /\ Len(entries) < count => Len(raw) - Len(entries) * pointer < pointer

(***************************************************************************)
(* Every target of the table is disassembled once and only once, those of  *)
(* entries that share it included.                                         *)
(***************************************************************************)
TargetsOnce ==
  jtPc = "done" =>
    /\ {slices[k].target : k \in DOMAIN slices}
         = {entries[i].target : i \in DOMAIN entries}
    /\ \A j, k \in DOMAIN slices : slices[j].target = slices[k].target => j = k

(***************************************************************************)
(* Nothing beyond the slice's range counts, and an invalid instruction is  *)
(* counted as such but never as a call, a jump or a write.                 *)
(***************************************************************************)
SlicesStayInRange ==
  \A k \in DOMAIN slices :
    LET sum == slices[k].summary
        near == {i \in DOMAIN slices[k].ops :
                   /\ slices[k].ops[i].at # NoAddr
                   /\ slices[k].ops[i].at < SliceBytes}
    IN  /\ sum.raw <= Cardinality(near)
        /\ sum.calls <= Cardinality({i \in near : ~slices[k].ops[i].invalid
                                                  /\ slices[k].ops[i].call})
        /\ DOMAIN sum.buffers \subseteq
             {slices[k].ops[i].write.base :
                i \in {j \in near : /\ ~slices[k].ops[j].invalid
                                    /\ slices[k].ops[j].write # NoWrite}}

=============================================================================
