---------------------------- MODULE DriverDispatch ----------------------------
(***************************************************************************)
(* windows_driver_dispatch (crates/rbm-r2/src/windows_driver.rs): scans a  *)
(* driver's init routine for stores into its DRIVER_OBJECT and for         *)
(* registrations of notify callbacks.  The source makes one pass for each, *)
(* with the same tracking of registers; here one pass makes both lists.    *)
(*                                                                         *)
(* An instruction is [at, op]: op.kind is "lea" (reg, addr), "imm" (a mov  *)
(* of addr into reg), "move" (reg from src), "store" (base, offset, src),  *)
(* "notify" (a call of a Psset...NotifyRoutine), "call" or "other".  What  *)
(* kind a text is, is the text's.                                          *)
(***************************************************************************)
EXTENDS Integers, SequencesExt, FiniteSetsExt, Selection

CONSTANTS
  DriverOps,       \* what an instruction may be
  DriverRegister,  \* the register that holds the DRIVER_OBJECT
  GeneralRegs,     \* the registers normalize_register_token knows
  CallbackReg,     \* "rcx"
  CodeAddresses,   \* addresses whose text has the six digits asked for
  ScanLimit,       \* instructions that radare2 is asked for
  FirstMajor, LastMajor,  \* offsets of MajorFunction, 0x70 .. 0x148
  EntryWidth,      \* 8, the width of its entries
  NoCode

ASSUME DriverAssumption ==
  /\ ScanLimit \in Nat /\ FirstMajor \in Nat /\ LastMajor \in Nat
  /\ EntryWidth \in Nat \ {0}
  /\ NoCode \notin CodeAddresses /\ NoCode \notin 1 .. ScanLimit
  /\ GeneralRegs \cap CodeAddresses = {}

VARIABLES
  ddPc,         \* "idle", "scan", "suggest", "done" or "failed"
  initCode,     \* history: the instructions radare2 returned so far
  regValues,    \* registers whose value is known: addresses
  assigned,     \* [at, offset, index, target]
  callbacks,    \* [at, target]
  suggested     \* [addr, kind]

ddVars == <<ddPc, initCode, regValues, assigned, callbacks, suggested>>

-----------------------------------------------------------------------------

(* parse_hex_u64 takes a number of six digits or more for an address. *)
AsAddress(a) == IF a \in CodeAddresses THEN a ELSE NoCode

ValueOf(values, r) == IF r \in DOMAIN values THEN values[r] ELSE NoCode

(* major_function_index *)

MajorFunctionIndex(offset) ==
  IF /\ offset \in FirstMajor .. LastMajor
     /\ (offset - FirstMajor) % EntryWidth = 0
  THEN (offset - FirstMajor) \div EntryWidth ELSE NoCode

(* Mutant of Track: the first lea into a register wins. *)
TrackFirst(values, op) ==
  IF op.kind = "lea" /\ op.reg \in GeneralRegs \ DOMAIN values
       /\ op.addr \in CodeAddresses
  THEN [r \in DOMAIN values \cup {op.reg} |->
          IF r = op.reg THEN op.addr ELSE values[r]]
  ELSE values

(* parse_lea_code_pointer: nothing but a lea changes what is known. *)
Track(values, op) ==
  IF op.kind = "lea" /\ op.reg \in GeneralRegs /\ op.addr \in CodeAddresses
  THEN [r \in DOMAIN values \cup {op.reg} |->
          IF r = op.reg THEN op.addr ELSE values[r]]
  ELSE values

(* The stored source: a register that is known, or a number. *)
StoreTarget(values, src) ==
  IF src \in DOMAIN values THEN values[src] ELSE AsAddress(src)

(* parse_driver_store: a store through another register is none of them. *)
Assign(out, ins, values) ==
  IF ins.op.kind = "store" /\ ins.op.base = DriverRegister
  THEN Append(out, [at |-> ins.at, offset |-> ins.op.offset,
                    index |-> MajorFunctionIndex(ins.op.offset),
                    target |-> StoreTarget(values, ins.op.src)])
  ELSE out

Register(out, ins, values) ==
  IF ins.op.kind = "notify"
  THEN Append(out, [at |-> ins.at, target |-> ValueOf(values, CallbackReg)])
  ELSE out

(* suggested_targets: the first row of an address names its kind. *)
PushSuggestion(out, row) ==
  IF row.target = NoCode \/ \E i \in DOMAIN out : out[i].addr = row.target
  THEN out ELSE Append(out, [addr |-> row.target, kind |-> row.kind])

Suggest(rows) ==
  LET out[n \in 0 .. Len(rows)] ==
        IF n = 0 THEN <<>> ELSE PushSuggestion(out[n - 1], rows[n])
  IN  out[Len(rows)]

TargetRows ==
  [i \in DOMAIN assigned |-> [target |-> assigned[i].target,
                                 kind   |-> <<"slot", assigned[i].offset>>]]
    \o [i \in DOMAIN callbacks |-> [target |-> callbacks[i].target, kind |-> <<"notify", 0>>]]

-----------------------------------------------------------------------------

(* A register that is no x64 general-purpose register is refused. *)
DispatchStart ==
  /\ ddPc = "idle"
  /\ ddPc' = IF DriverRegister \in GeneralRegs THEN "scan" ELSE "failed"
  /\ UNCHANGED <<initCode, regValues, assigned, callbacks, suggested>>

(***************************************************************************)
(* InstructionRow::from_value: an instruction whose address is too short a *)
(* text for an address is dropped; what it does is not looked at.          *)
(***************************************************************************)
DropShortAddress ==
  /\ ddPc = "scan"
  /\ Len(initCode) < ScanLimit
  /\ \E op \in DriverOps :
       initCode' = Append(initCode, [at |-> NoCode, op |-> op])
  /\ UNCHANGED <<ddPc, regValues, assigned, callbacks, suggested>>

ScanInstruction ==
  /\ ddPc = "scan"
  /\ Len(initCode) < ScanLimit
  /\ \E op \in DriverOps :
       LET ins == [at |-> Len(initCode) + 1, op |-> op]
       IN  /\ initCode' = Append(initCode, ins)
           /\ regValues' = Track(regValues, op)
           /\ assigned' = Assign(assigned, ins, regValues')
           /\ callbacks' = Register(callbacks, ins, regValues')
  /\ UNCHANGED <<ddPc, suggested>>

(* The routine, or the window, ends. *)
WindowEnds ==
  /\ ddPc = "scan"
  /\ suggested' = Suggest(TargetRows)
  /\ ddPc' = "done"
  /\ UNCHANGED <<initCode, regValues, assigned, callbacks>>

(* The one call to radare2 fails, or its answer has no ops. *)
DispatchFails ==
  /\ ddPc = "scan"
  /\ initCode = <<>>
  /\ ddPc' = "failed"
  /\ UNCHANGED <<initCode, regValues, assigned, callbacks, suggested>>

DispatchInit ==
  /\ ddPc = "idle"
  /\ initCode = <<>> /\ assigned = <<>> /\ callbacks = <<>> /\ suggested = <<>>
  /\ regValues = <<>>

DispatchNext ==
  \/ DispatchStart \/ DropShortAddress \/ ScanInstruction
  \/ WindowEnds \/ DispatchFails

DispatchSpec == DispatchInit /\ [][DispatchNext]_ddVars

-----------------------------------------------------------------------------

DispatchTypeOK ==
  /\ ddPc \in {"idle", "scan", "done", "failed"}
  /\ Len(initCode) <= ScanLimit
  /\ \A r \in DOMAIN regValues : regValues[r] \in CodeAddresses
  /\ \A i \in DOMAIN assigned :
       assigned[i].index = NoCode
         \/ assigned[i].index * EntryWidth + FirstMajor = assigned[i].offset

(* What the instructions before position i left in register r, by the      *)
(* instructions themselves: an address, or NoCode for anything else.     *)
WritesReg(op, r) == op.kind \in {"lea", "imm", "move"} /\ op.reg = r

LastWriter(i, r) ==
  LET before == {j \in 1 .. i - 1 : initCode[j].at # NoCode /\ WritesReg(initCode[j].op, r)}
  IN  IF before = {} THEN 0 ELSE Max(before)

(***************************************************************************)
(* Where the last write to the stored register is a lea of a code address, *)
(* the handler reported for the slot is that address and no earlier one;   *)
(* and where nothing has loaded it, none is reported.  Of a register that  *)
(* a mov loaded with an immediate nothing is said: the note of the answer  *)
(* counts such loads among those tracked, and Track follows lea alone.     *)
(***************************************************************************)
LeaIsReported ==
  \A k \in DOMAIN assigned :
    LET i   == assigned[k].at
        src == initCode[i].op.src
        lw  == LastWriter(i, src)
    IN  src \in GeneralRegs =>
          /\ (lw # 0 /\ initCode[lw].op.kind = "lea"
                /\ initCode[lw].op.addr \in CodeAddresses)
               => assigned[k].target = initCode[lw].op.addr
          /\ (\A j \in 1 .. i - 1 : initCode[j].at = NoCode
                                    \/ initCode[j].op.kind \notin {"lea", "imm"}
                                    \/ initCode[j].op.reg # src)
               => assigned[k].target = NoCode

(***************************************************************************)
(* Each store into the DRIVER_OBJECT that the scan saw is reported, in the *)
(* order of the code, and no store through another register is.            *)
(***************************************************************************)
DriverStores ==
  {[at |-> i, op |-> op] :
     i \in 1 .. ScanLimit,
     op \in {o \in DriverOps : o.kind = "store" /\ o.base = DriverRegister}}

StoresInOrder ==
  LET stores == Kept(initCode, DriverStores)
  IN  [k \in DOMAIN assigned |-> assigned[k].at]
        = [k \in DOMAIN stores |-> stores[k].at]

(***************************************************************************)
(* Every handler and callback found is suggested for disassembly, once,    *)
(* under the kind of the first row that names it.                          *)
(***************************************************************************)
SuggestedOnce ==
  ddPc = "done" =>
    /\ {suggested[i].addr : i \in DOMAIN suggested}
         = {TargetRows[i].target : i \in DOMAIN TargetRows} \ {NoCode}
    /\ \A i, j \in DOMAIN suggested : suggested[i].addr = suggested[j].addr => i = j
    /\ \A i \in DOMAIN suggested :
         LET first == Min({j \in DOMAIN TargetRows : TargetRows[j].target = suggested[i].addr})
         IN  suggested[i].kind = TargetRows[first].kind

=============================================================================
