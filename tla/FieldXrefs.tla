----------------------------- MODULE FieldXrefs -----------------------------
(***************************************************************************)
(* field_xrefs (crates/rbm-r2/src/field_xrefs.rs): reads a window of       *)
(* decoded instructions once and names the fields they touch, following    *)
(* what each register stands for from one instruction to the next.         *)
(*                                                                         *)
(* A register operand is [kind, reg], a memory operand [kind, reg, off],   *)
(* an immediate [kind, val].  A symbol is the text the code builds: a name *)
(* and the offsets that follow it; the name of a number is "".             *)
(***************************************************************************)
EXTENDS Integers, SequencesExt, Selection

CONSTANTS
  Code,       \* the instructions the window may hold: [addr, mn, args]
  CodeWindow, \* the number of entries pdj answers with
  Roots,      \* values of root_register: a register, or NoRegister
  RootName,   \* root_name
  StackBases, \* the registers is_stack_register knows
  ArgNames,   \* arg_names: offsets from a stack register to names
  Resolver,   \* resolver_function: an immediate's value, or NoRegister
  Labels,     \* marker_constants: values to labels
  IgnoreStack,\* ignore_stack
  MaxRows,    \* max_rows, clamped
  PreviewRows,\* 16, addresses kept for a field
  NoRegister, NoPush

ASSUME FieldXrefsAssumption ==
  /\ CodeWindow \in Nat /\ MaxRows \in Nat \ {0} /\ PreviewRows \in Nat \ {0}
  /\ IgnoreStack \in BOOLEAN

FieldOperands ==
  [kind : {"reg"}, reg : STRING]
    \cup [kind : {"mem"}, reg : STRING, off : Int]
    \cup [kind : {"imm"}, val : Int]

ASSUME CodeAssumption == \A ins \in Code : ins.args \in Seq(FieldOperands)

VARIABLES
  fxPc,        \* "idle", "scan" or "done"
  looked,      \* entries looked at; the next one's address
  alias,       \* regs: alias[r], the symbol register r stands for
  pendingPush, \* the label of the constant pushed last
  fields,      \* summaries: fields[f] = [read, write, read_write, addresses]
  fieldRefs,   \* rows of references: [at, access, object, off]
  assignments, \* rows of assignments: [at, object, off, source]
  rowsCut,     \* truncated
  refsSeen,    \* history: every reference there was
  pushes       \* history: pushes and calls, [op, label]

fxVars == <<fxPc, looked, alias, pendingPush, fields, fieldRefs, assignments,
            rowsCut, refsSeen, pushes>>

-----------------------------------------------------------------------------
(* Naming. *)

AliasOf(r) == IF r \in DOMAIN alias THEN alias[r] ELSE <<r, <<>> >>

(* format_offset writes nothing for 0. *)
At(symbol, off) ==
  IF off = 0 THEN symbol ELSE <<symbol[1], Append(symbol[2], off)>>

Number(v) == <<"", <<v>> >>

IsArgument(o) == o.reg \in StackBases /\ o.off \in DOMAIN ArgNames

ObjectFor(o) == IF IsArgument(o) THEN <<ArgNames[o.off], <<>> >> ELSE AliasOf(o.reg)

SymbolicOperand(o) ==
  CASE o.kind = "reg" -> AliasOf(o.reg)
    [] o.kind = "mem" -> IF IsArgument(o) THEN ObjectFor(o)
                         ELSE At(ObjectFor(o), o.off)
    [] o.kind = "imm" -> Number(o.val)

KeepMemref(o) == o.kind = "mem" /\ ~(IgnoreStack /\ o.reg \in StackBases)

(* The first operand is written or changed, unless it is only compared. *)
ClassifyAccess(ins, i) ==
  CASE i > 1 \/ ins.mn \in {"cmp", "test"} -> "read"
    [] i = 1 /\ ins.mn \in {"mov", "lea"}  -> "write"
    [] OTHER                               -> "read_write"

Refs(at, ins) ==
  LET kept == Kept([i \in DOMAIN ins.args |-> i],
                   {i \in DOMAIN ins.args : KeepMemref(ins.args[i])})
  IN  [k \in DOMAIN kept |->
         [at |-> at, access |-> ClassifyAccess(ins, kept[k]),
          object |-> ObjectFor(ins.args[kept[k]]),
          off |-> ins.args[kept[k]].off]]

-----------------------------------------------------------------------------
(* What is collected. *)

NoSummary == [read |-> 0, write |-> 0, read_write |-> 0, addresses |-> <<>>]

(* Mutant of BumpField: counting stops when the preview is full. *)
BumpWhilePreviewed(fs, ref) ==
  LET key == At(ref.object, ref.off)
      had == IF key \in DOMAIN fs THEN fs[key] ELSE NoSummary
      new == IF Len(had.addresses) < PreviewRows
             THEN [had EXCEPT ![ref.access] = @ + 1, !.addresses = Append(@, ref.at)]
             ELSE had
  IN  [k \in DOMAIN fs \cup {key} |-> IF k = key THEN new ELSE fs[k]]

BumpField(fs, ref) ==
  LET key == At(ref.object, ref.off)
      had == IF key \in DOMAIN fs THEN fs[key] ELSE NoSummary
      new == [had EXCEPT ![ref.access] = @ + 1,
                !.addresses = IF Len(@) < PreviewRows THEN Append(@, ref.at)
                              ELSE @]
  IN  [k \in DOMAIN fs \cup {key} |-> IF k = key THEN new ELSE fs[k]]

(* One reference after the other. *)
BumpFields(fs, refs) ==
  LET after[n \in 0 .. Len(refs)] ==
        IF n = 0 THEN fs ELSE BumpField(after[n - 1], refs[n])
  IN  after[Len(refs)]

(* push_limited, for a sequence of rows. *)
PushLimited(out, rows) ==
  out \o SubSeq(rows, 1, IF Len(out) + Len(rows) <= MaxRows THEN Len(rows)
                         ELSE MaxRows - Len(out))

(* Mutant of Assignment: a stack argument is named after its base register. *)
AssignmentByRegister(at, ins) ==
  IF ins.mn = "mov" /\ Len(ins.args) >= 2 /\ KeepMemref(ins.args[1])
  THEN << [at |-> at, object |-> AliasOf(ins.args[1].reg), off |-> ins.args[1].off,
           source |-> SymbolicOperand(ins.args[2])] >>
  ELSE <<>>

Assignment(at, ins) ==
  IF ins.mn = "mov" /\ Len(ins.args) >= 2 /\ KeepMemref(ins.args[1])
  THEN << [at |-> at, object |-> ObjectFor(ins.args[1]), off |-> ins.args[1].off,
           source |-> SymbolicOperand(ins.args[2])] >>
  ELSE <<>>

Collect(at, ins) ==
  LET refs == Refs(at, ins)
      asg  == Assignment(at, ins)
  IN  /\ fields' = BumpFields(fields, refs)
      /\ fieldRefs' = PushLimited(fieldRefs, refs)
      /\ assignments' = PushLimited(assignments, asg)
      /\ rowsCut' = \/ rowsCut
                    \/ Len(fieldRefs) + Len(refs) > MaxRows
                    \/ Len(assignments) + Len(asg) > MaxRows
      /\ refsSeen' = refsSeen \o refs

-----------------------------------------------------------------------------
(* What registers stand for afterwards. *)

SetAlias(rs, symbol) ==
  alias' = [r \in DOMAIN alias \cup rs |-> IF r \in rs THEN symbol ELSE alias[r]]

Moved(symbol, by) == <<symbol[1], Append(symbol[2], by)>>

UpdateRegisterAliases(ins) ==
  LET args == ins.args
  IN  IF Len(args) < 2 \/ args[1].kind # "reg" THEN UNCHANGED alias
      ELSE CASE ins.mn \in {"mov", "lea"} ->
                  SetAlias({args[1].reg}, SymbolicOperand(args[2]))
             [] ins.mn = "xor" /\ args[2] = args[1] ->
                  SetAlias({args[1].reg}, Number(0))
             [] ins.mn \in {"add", "sub"} /\ args[2].kind = "imm" ->
                  SetAlias({args[1].reg}, Moved(AliasOf(args[1].reg),
                     IF ins.mn = "add" THEN args[2].val ELSE -args[2].val))
             [] OTHER -> UNCHANGED alias

MarkerLabel(v) == IF v \in DOMAIN Labels THEN <<Labels[v], <<v>> >> ELSE Number(v)

IsResolver(ins) ==
  Resolver # NoRegister /\ ins.args # <<>> /\ ins.args[1].kind = "imm"
    /\ ins.args[1].val = Resolver

ConstantPushed(ins) ==
  IF ins.args # <<>> /\ ins.args[1].kind = "imm"
  THEN MarkerLabel(ins.args[1].val) ELSE NoPush

(* Mutant of UpdatePushResolverState: any other call leaves the constant. *)
KeepPushOverCalls(ins) ==
  CASE ins.mn = "push" -> pendingPush' = ConstantPushed(ins) /\ UNCHANGED alias
    [] ins.mn = "call" ->
         IF IsResolver(ins) /\ pendingPush # NoPush
         THEN SetAlias({"eax", "rax"}, pendingPush) /\ pendingPush' = NoPush
         ELSE UNCHANGED <<alias, pendingPush>>
    [] OTHER -> UpdateRegisterAliases(ins) /\ UNCHANGED pendingPush

UpdatePushResolverState(ins) ==
  CASE ins.mn = "push" -> pendingPush' = ConstantPushed(ins) /\ UNCHANGED alias
    [] ins.mn = "call" ->
         /\ pendingPush' = NoPush
         /\ IF IsResolver(ins) /\ pendingPush # NoPush
            THEN SetAlias({"eax", "rax"}, pendingPush) ELSE UNCHANGED alias
    [] OTHER -> UpdateRegisterAliases(ins) /\ UNCHANGED pendingPush

-----------------------------------------------------------------------------

FieldsStart ==
  /\ fxPc = "idle"
  /\ fxPc' = "scan"
  /\ \E root \in Roots :
       alias' = IF root = NoRegister THEN <<>> ELSE [r \in {root} |-> <<RootName, <<>> >>]
  /\ UNCHANGED <<looked, pendingPush, fields, fieldRefs, assignments, rowsCut,
                 refsSeen, pushes>>

FieldsSkip ==
  /\ fxPc = "scan" /\ looked < CodeWindow
  /\ \E ins \in Code : ~ins.addr
  /\ looked' = looked + 1
  /\ UNCHANGED <<fxPc, alias, pendingPush, fields, fieldRefs, assignments,
                 rowsCut, refsSeen, pushes>>

(* References and assignments are named before the instruction takes effect. *)
FieldsOp ==
  /\ fxPc = "scan" /\ looked < CodeWindow
  /\ looked' = looked + 1
  /\ \E ins \in Code :
       /\ ins.addr
       /\ Collect(looked, ins)
       /\ UpdatePushResolverState(ins)
       /\ pushes' = IF ins.mn \in {"push", "call"}
                    THEN Append(pushes, [op |-> ins.mn, label |-> ConstantPushed(ins),
                                         resolver |-> IsResolver(ins)])
                    ELSE pushes
  /\ UNCHANGED fxPc

(* The window is over, or range_end is reached. *)
FieldsEnd ==
  /\ fxPc = "scan"
  /\ fxPc' = "done"
  /\ UNCHANGED <<looked, alias, pendingPush, fields, fieldRefs, assignments,
                 rowsCut, refsSeen, pushes>>

FieldsInit ==
  /\ fxPc = "idle"
  /\ looked = 0
  /\ alias = <<>> /\ fields = <<>>
  /\ pendingPush = NoPush
  /\ fieldRefs = <<>> /\ assignments = <<>> /\ refsSeen = <<>> /\ pushes = <<>>
  /\ rowsCut = FALSE

FieldsNext == FieldsStart \/ FieldsSkip \/ FieldsOp \/ FieldsEnd

FieldsSpec == FieldsInit /\ [][FieldsNext]_fxVars

-----------------------------------------------------------------------------

FieldsTypeOK ==
  /\ fxPc \in {"idle", "scan", "done"}
  /\ looked \in 0 .. CodeWindow
  /\ Len(fieldRefs) <= MaxRows /\ Len(assignments) <= MaxRows
  /\ \A f \in DOMAIN fields : Len(fields[f].addresses) \in 1 .. PreviewRows

(***************************************************************************)
(* The summaries count every reference, those whose rows were cut included: *)
(* a field's counts are its references by access, the rows are the first   *)
(* of them, and the flag is set if a row is missing.                       *)
(***************************************************************************)
RefsOf(f, access) ==
  Cardinality({j \in DOMAIN refsSeen : /\ At(refsSeen[j].object, refsSeen[j].off) = f
                                       /\ refsSeen[j].access = access})

SummariesCountAll ==
  /\ \A i \in DOMAIN refsSeen : At(refsSeen[i].object, refsSeen[i].off) \in DOMAIN fields
  /\ \A f \in DOMAIN fields, access \in {"read", "write", "read_write"} :
       fields[f][access] = RefsOf(f, access)
  /\ IsPrefix(fieldRefs, refsSeen)
  /\ ~rowsCut => fieldRefs = refsSeen

(***************************************************************************)
(* The two views agree: what a row says was assigned is the field that the *)
(* reference at the same address says was written.                         *)
(***************************************************************************)
AssignmentsAreWrites ==
  \A i \in DOMAIN assignments :
    \E j \in DOMAIN refsSeen :
      /\ refsSeen[j].at = assignments[i].at
      /\ refsSeen[j].access = "write"
      /\ refsSeen[j].object = assignments[i].object
      /\ refsSeen[j].off = assignments[i].off

(***************************************************************************)
(* A constant is taken for what the resolver returns only if it was pushed *)
(* for that very call: last of all that was pushed, with no call between.  *)
(***************************************************************************)
ResolvedFromItsPush ==
  \A r \in {"eax", "rax"} :
    (pushes' # pushes /\ alias' # alias /\ r \in DOMAIN alias') =>
      LET n == Len(pushes')
      IN  /\ pushes'[n].op = "call" /\ pushes'[n].resolver
          /\ n > 1 /\ pushes'[n - 1].op = "push"
          /\ alias'[r] = pushes'[n - 1].label

=============================================================================
