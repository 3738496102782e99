-------------------------- MODULE ArtifactEmulator --------------------------
(***************************************************************************)
(* artifact_summary (crates/rbm-r2/src/artifact_summary.rs): emulates a    *)
(* window of decoded 32-bit instructions and reports the calls it passes,  *)
(* why it stopped and the strings it left in memory.                       *)
(*                                                                         *)
(* An instruction's address is its place in the window; what is there is   *)
(* chosen when it is first reached.  A register operand is [kind, reg,     *)
(* part], a memory operand [kind, terms, disp, size] with terms a sequence *)
(* of <<register operand, scale>>, an immediate [kind, val].  A byte has   *)
(* Base values and a word four bytes.                                      *)
(***************************************************************************)
EXTENDS Integers, SequencesExt, FiniteSetsExt, Selection

CONSTANTS
  Base,        \* the number of values of a byte, 256
  WordBits,    \* the bits of a word of four bytes, 32
  Regs,        \* the full registers, "esp" among them; in their places the code
               \* takes any other text for a register of that name
  Instructions,\* what the window may hold
  WindowSize,  \* instructions before range_end, if that is an address
  MaxSteps,    \* max_steps, clamped
  VisitCap,    \* 512
  ContextCap,  \* 8
  PreviewCap,  \* 6
  Printable,   \* the printable byte values
  MinString,   \* min_string_len; 0 stands for DefaultString
  DefaultString,\* DEFAULT_MIN_STRING
  StringCap,   \* 200, the strings an answer shows
  Radix,       \* the values of a digit of an address as text, 16
  Unknown

ASSUME EmulatorAssumption ==
  /\ Base \in Nat \ {0, 1} /\ "esp" \in Regs
  /\ WindowSize \in Nat /\ MaxSteps \in Nat /\ VisitCap \in Nat
  /\ ContextCap \in Nat /\ PreviewCap \in 1 .. ContextCap
  /\ MinString \in Nat /\ DefaultString \in Nat \ {0}
  /\ StringCap \in Nat \ {0} /\ Radix * Radix = Base

Word == Base * Base * Base * Base
Pow  == <<1, Base, Base * Base, Base * Base * Base>>

TwoTo[n \in 0 .. WordBits] == IF n = 0 THEN 1 ELSE 2 * TwoTo[n - 1]

RegOperands == [kind : {"reg"}, reg : Regs, part : {"low", "high", "half", "full"}]
MemOperands ==
  [kind : {"mem"}, terms : Seq(RegOperands \X Int), disp : Int, size : Nat \ {0}]
ImmOperands == [kind : {"imm"}, val : Int]

ASSUME WordAssumption == WordBits \in Nat /\ TwoTo[WordBits] = Word

ASSUME InstructionAssumption ==
  /\ Unknown \notin Instructions
  /\ \A ins \in Instructions :
       /\ ins.dst \in RegOperands \cup MemOperands \cup ImmOperands
       /\ ins.src \in RegOperands \cup MemOperands \cup ImmOperands
       /\ ins.op \in {"pop", "movzx", "lea", "inc", "dec", "not", "xchg"} =>
            ins.dst \in RegOperands
       /\ ins.op \in {"mov", "add", "sub", "xor", "and", "or"} =>
            ins.dst \notin ImmOperands
       /\ ins.op = "xchg" => ins.src \in RegOperands
       /\ ins.op = "lea" => ins.src \in MemOperands

VARIABLES
  aePc,        \* "idle", "run" or "stopped"
  program,     \* program[i]: the instruction at i, Unknown if not reached yet
  pc,          \* the next instruction
  steps,       \* executed_steps
  visits,      \* visits[i]: how often i was reached
  machine,     \* [regs, memory, zf, sf, cf]
  context,     \* the last setup instructions
  calls,       \* calls passed: [at, setup, pushed]; an answer shows the first 200
  unsupported, \* why the run stopped: [at, reason]
  trail        \* history: the instructions executed

aeVars == <<aePc, program, pc, steps, visits, machine, context, calls,
            unsupported, trail>>

-----------------------------------------------------------------------------
(* Registers, memory and operands. *)

Signed(v) == IF 2 * v >= Word THEN v - Word ELSE v

Reg(m, r) ==
  LET v == m.regs[r.reg]
  IN  CASE r.part = "low"  -> v % Base
        [] r.part = "high" -> (v \div Base) % Base
        [] r.part = "half" -> v % Pow[3]
        [] r.part = "full" -> v

SetReg(m, r, value) ==
  LET v == m.regs[r.reg]
      next == CASE r.part = "low"  -> (v - (v % Base)) + (value % Base)
                [] r.part = "high" ->
                     v + ((value % Base) - ((v \div Base) % Base)) * Base
                [] r.part = "half" ->
                     (v - (v % Pow[3])) + (value % Pow[3])
                [] r.part = "full" -> value
  IN  [m EXCEPT !.regs[r.reg] = next]

Esp == [kind |-> "reg", reg |-> "esp", part |-> "full"]

(* eval_expr *)
EvalExpr(m, o) ==
  LET sum[n \in 0 .. Len(o.terms)] ==
        IF n = 0 THEN o.disp % Word
        ELSE (sum[n - 1] + Reg(m, o.terms[n][1]) * o.terms[n][2]) % Word
  IN  sum[Len(o.terms)]

MemAddr(m, o) == Signed(EvalExpr(m, o))

ByteAt(m, a) == IF a \in DOMAIN m.memory THEN m.memory[a] ELSE 0

(* emulated_value_width: no more than four bytes. *)
Width(size) == IF size > 4 THEN 4 ELSE size

ReadValue(m, a, size) ==
  LET low[n \in 0 .. 4] ==
        IF n = 0 THEN 0 ELSE low[n - 1] + ByteAt(m, a + n - 1) * Pow[n]
  IN  low[Width(size)]

WriteValue(m, a, value, size) ==
  LET written == a .. a + Width(size) - 1
  IN  [m EXCEPT !.memory =
         [b \in DOMAIN m.memory \cup written |->
            IF b \in written THEN (value \div Pow[b - a + 1]) % Base
                             ELSE m.memory[b]]]

(* The size prefix is gone before eval_operand looks for it. *)
EvalOperand(m, o) ==
  CASE o.kind = "reg" -> Reg(m, o)
    [] o.kind = "imm" -> o.val % Word
    [] o.kind = "mem" -> ReadValue(m, MemAddr(m, o), 4)

Flagged(m, value) == [m EXCEPT !.zf = value = 0, !.sf = 2 * value >= Word]

-----------------------------------------------------------------------------
(* Emulator::step: the machine after an instruction that goes on. *)

PushStep(m, src) ==
  LET value == EvalOperand(m, src)
      esp   == (Reg(m, Esp) - 4) % Word
  IN  WriteValue(SetReg(m, Esp, esp), Signed(esp), value, 4)

PopStep(m, dst) ==
  LET esp == Reg(m, Esp)
  IN  SetReg(SetReg(m, dst, ReadValue(m, Signed(esp), 4)), Esp, (esp + 4) % Word)

MovStep(m, dst, src) ==
  IF dst.kind = "mem"
  THEN WriteValue(m, MemAddr(m, dst), EvalOperand(m, src), dst.size)
  ELSE SetReg(m, dst, EvalOperand(m, src))

(* movzx looks for the size where the destination stands: it is always 1. *)
MovzxStep(m, dst, src) ==
  SetReg(m, dst, IF src.kind = "mem" THEN ReadValue(m, MemAddr(m, src), 1)
                 ELSE EvalOperand(m, src))

CmpStep(m, left, right) ==
  LET a == EvalOperand(m, left)
      b == EvalOperand(m, right)
  IN  [Flagged(m, (a - b) % Word) EXCEPT !.cf = a < b]

Bit(v, n) == (v \div TwoTo[n]) % 2

(* The word with a one wherever the bits of a and b are a pair of ones. *)
BitByBit(ones, a, b) ==
  LET low[n \in 0 .. WordBits] ==
        IF n = 0 THEN 0
        ELSE low[n - 1] + (IF <<Bit(a, n - 1), Bit(b, n - 1)>> \in ones
                           THEN TwoTo[n - 1] ELSE 0)
  IN  low[WordBits]

Combine(op, old, src) ==
  CASE op = "add" -> (old + src) % Word
    [] op = "sub" -> (old - src) % Word
    [] op = "xor" -> BitByBit({<<0, 1>>, <<1, 0>>}, old, src)
    [] op = "and" -> BitByBit({<<1, 1>>}, old, src)
    [] op = "or"  -> BitByBit({<<0, 1>>, <<1, 0>>, <<1, 1>>}, old, src)

(* No carry flag is set. *)
BinaryStep(m, op, dst, src) ==
  LET old   == IF dst.kind = "mem" THEN ReadValue(m, MemAddr(m, dst), dst.size)
               ELSE Reg(m, dst)
      value == Combine(op, old, EvalOperand(m, src))
  IN  Flagged(IF dst.kind = "mem"
              THEN WriteValue(m, MemAddr(m, dst), value, dst.size)
              ELSE SetReg(m, dst, value), value)

StepUnary(m, op, dst) ==
  LET value == CASE op = "inc" -> (Reg(m, dst) + 1) % Word
                 [] op = "dec" -> (Reg(m, dst) - 1) % Word
                 [] op = "not" -> Word - 1 - Reg(m, dst)
  IN  IF op = "not" THEN SetReg(m, dst, value)
      ELSE Flagged(SetReg(m, dst, value), value)

Step(m, ins) ==
  CASE ins.op = "push"  -> PushStep(m, ins.src)
    [] ins.op = "pop"   -> PopStep(m, ins.dst)
    [] ins.op = "mov"   -> MovStep(m, ins.dst, ins.src)
    [] ins.op = "movzx" -> MovzxStep(m, ins.dst, ins.src)
    [] ins.op = "lea"   -> SetReg(m, ins.dst, EvalExpr(m, ins.src))
    [] ins.op = "cmp"   -> CmpStep(m, ins.dst, ins.src)
    [] ins.op \in {"inc", "dec", "not"} -> StepUnary(m, ins.op, ins.dst)
    [] ins.op \in {"add", "sub", "xor", "and", "or"} ->
         BinaryStep(m, ins.op, ins.dst, ins.src)
    [] ins.op = "xchg"  -> SetReg(SetReg(m, ins.dst, Reg(m, ins.src)),
                                  ins.src, Reg(m, ins.dst))
    [] OTHER -> m

(* branch_target: an indirect jmp has none, and then is no branch at all. *)
IsBranch(ins) == ins.op \in {"jmp", "je", "jne", "jb", "jae", "js", "jns", "jg"}
                 /\ ins.jump # Unknown

Taken(m, ins) ==
  LET flag(f, wanted) == IF f = Unknown THEN Unknown ELSE f = wanted
  IN  CASE ins.op = "jmp" -> TRUE
        [] ins.op = "je"  -> flag(m.zf, TRUE)
        [] ins.op = "jne" -> flag(m.zf, FALSE)
        [] ins.op = "jb"  -> flag(m.cf, TRUE)
        [] ins.op = "jae" -> flag(m.cf, FALSE)
        [] ins.op = "js"  -> flag(m.sf, TRUE)
        [] ins.op = "jns" -> flag(m.sf, FALSE)
        [] OTHER -> Unknown

-----------------------------------------------------------------------------
(* The summary of a call, and the setup it was seen after. *)

IsSetup(ins) == ins.op \in {"push", "lea", "mov", "xor", "add", "sub", "and", "or"}

UpdateContext(i, ins) ==
  IF ~IsSetup(ins) THEN context
  ELSE Append(IF Len(context) = ContextCap THEN Tail(context) ELSE context, i)

Preview(setups) ==
  SubSeq(setups, 1 + (IF Len(setups) > PreviewCap THEN Len(setups) - PreviewCap
                      ELSE 0), Len(setups))

IsPushedConstant(ins) == ins.op = "push" /\ ins.src.kind = "imm"

CallSummary(i) ==
  [at |-> i, setup |-> Preview(context),
   pushed |-> Kept(Preview(context),
                   {j \in ToSet(context) : IsPushedConstant(program[j])})]

-----------------------------------------------------------------------------
(* run_artifact_emulation: an iteration of its loop at a time. *)

EmulateStart ==
  /\ aePc = "idle"
  /\ aePc' = "run"
  /\ UNCHANGED <<program, pc, steps, visits, machine, context, calls,
                 unsupported, trail>>

Stop(i, reason) ==
  /\ aePc' = "stopped"
  /\ unsupported' = Append(unsupported, [at |-> i, reason |-> reason])
  /\ UNCHANGED <<machine, context, pc, trail>>

Goes(i, ins, next) ==
  /\ context' = UpdateContext(i, ins)
  /\ machine' = Step(machine, ins)
  /\ pc' = next
  /\ trail' = Append(trail, i)
  /\ UNCHANGED <<aePc, unsupported>>

(* Mutant of Outcome: a jump out of the window ends the run without a row. *)
SilentOutcome(i, ins) ==
  IF ins.op = "ret" THEN Stop(i, "return reached")
  ELSE IF ~IsBranch(ins) \/ Taken(machine, ins) = FALSE THEN Goes(i, ins, i + 1)
  ELSE IF Taken(machine, ins) = Unknown THEN Stop(i, "unknown branch")
  ELSE IF ins.jump \in 1 .. WindowSize THEN Goes(i, ins, ins.jump)
  ELSE aePc' = "stopped" /\ UNCHANGED <<machine, context, pc, trail, unsupported>>

Outcome(i, ins) ==
  IF ins.op = "ret" THEN Stop(i, "return reached")
  ELSE IF ~IsBranch(ins) \/ Taken(machine, ins) = FALSE THEN Goes(i, ins, i + 1)
  ELSE IF Taken(machine, ins) = Unknown THEN Stop(i, "unknown branch")
  ELSE IF ins.jump \in 1 .. WindowSize THEN Goes(i, ins, ins.jump)
  ELSE Stop(i, "jump outside")

EmulateStep ==
  /\ aePc = "run"
  /\ pc <= WindowSize /\ steps < MaxSteps
  /\ steps' = steps + 1
  /\ visits' = [visits EXCEPT ![pc] = @ + 1]
  /\ \E ins \in IF program[pc] = Unknown THEN Instructions ELSE {program[pc]} :
       /\ program' = [program EXCEPT ![pc] = ins]
       /\ IF visits[pc] = VisitCap
          THEN Stop(pc, "loop visit cap") /\ UNCHANGED calls
          ELSE /\ calls' = IF ins.op = "call" THEN Append(calls, CallSummary(pc))
                           ELSE calls
               /\ Outcome(pc, ins)

EmulateEnds ==
  /\ aePc = "run"
  /\ pc > WindowSize \/ steps >= MaxSteps
  /\ aePc' = "stopped"
  /\ UNCHANGED <<program, pc, steps, visits, machine, context, calls,
                 unsupported, trail>>

StepTruncated == steps >= MaxSteps

EmulateInit ==
  /\ aePc = "idle"
  /\ program = [i \in 1 .. WindowSize |-> Unknown]
  /\ pc = 1
  /\ steps = 0
  /\ visits = [i \in 1 .. WindowSize |-> 0]
  /\ machine = [regs |-> [r \in Regs |-> 0], memory |-> <<>>,
                zf |-> Unknown, sf |-> Unknown, cf |-> Unknown]
  /\ context = <<>> /\ calls = <<>> /\ unsupported = <<>> /\ trail = <<>>

EmulateNext == EmulateStart \/ EmulateStep \/ EmulateEnds

EmulateSpec == EmulateInit /\ [][EmulateNext]_aeVars /\ WF_aeVars(EmulateNext)

-----------------------------------------------------------------------------
(* Strings left in memory. *)

ContiguousRanges ==
  LET bytes == DOMAIN machine.memory
  IN  {r \in bytes \X bytes : /\ r[1] <= r[2] /\ r[1] .. r[2] \subseteq bytes
                              /\ r[1] - 1 \notin bytes /\ r[2] + 1 \notin bytes}

MinLength == IF MinString = 0 THEN DefaultString ELSE MinString

(***************************************************************************)
(* Runs of printable characters that are width bytes wide, from the first  *)
(* byte of a range and, for width 2, from its second.                      *)
(***************************************************************************)
Character(a, width) ==
  IF width = 1 THEN machine.memory[a]
  ELSE machine.memory[a] + Base * machine.memory[a + 1]

(* Mutant of Scan: a string that runs to the end of the range is lost. *)
ScanToBreak(range, phase, width) ==
  LET count   == (range[2] - range[1] + 1 - phase) \div width
      cell(i) == range[1] + phase + width * (i - 1)
      closed(found, i) ==
        IF i - found.begin < MinLength THEN found.hits
        ELSE found.hits \cup {<<cell(found.begin), i - found.begin, width>>}
      seen[i \in 0 .. count] ==
        IF i = 0 THEN [hits |-> {}, begin |-> 1]
        ELSE IF Character(cell(i), width) \in Printable THEN seen[i - 1]
        ELSE [hits |-> closed(seen[i - 1], i), begin |-> i + 1]
  IN  seen[count].hits

Scan(range, phase, width) ==
  LET count   == (range[2] - range[1] + 1 - phase) \div width
      cell(i) == range[1] + phase + width * (i - 1)
      closed(found, i) ==
        IF i - found.begin < MinLength THEN found.hits
        ELSE found.hits \cup {<<cell(found.begin), i - found.begin, width>>}
      seen[i \in 0 .. count] ==
        IF i = 0 THEN [hits |-> {}, begin |-> 1]
        ELSE IF Character(cell(i), width) \in Printable THEN seen[i - 1]
        ELSE [hits |-> closed(seen[i - 1], i), begin |-> i + 1]
  IN  closed(seen[count], count + 1)

DecodedStrings ==
  UNION {Scan(r, 0, 1) \cup Scan(r, 0, 2) \cup Scan(r, 1, 2) :
           r \in ContiguousRanges}

(***************************************************************************)
(* decoded_string_count is the number of all of them; decoded_strings are  *)
(* the first StringCap, sorted by address and text.  An address is sorted  *)
(* as the text format_stack_addr makes of it: a minus sign before any      *)
(* digit, the digits from the first.                                       *)
(***************************************************************************)
AddressText(a) ==
  LET n      == IF a < 0 THEN -a ELSE a
      length == Min({d \in 1 .. 8 : n < Radix^d})
      digits == [i \in 1 .. length |-> (n \div Radix^(length - i)) % Radix]
  IN  IF a < 0 THEN <<-1>> \o digits ELSE digits

TextOf(s) == [i \in 1 .. s[2] |-> Character(s[1] + s[3] * (i - 1), s[3])]

TextBefore(u, v) ==
  \/ IsStrictPrefix(u, v)
  \/ \E i \in DOMAIN u \cap DOMAIN v :
       u[i] < v[i] /\ \A j \in 1 .. i - 1 : u[j] = v[j]

SortsBefore(s, t) ==
  \/ TextBefore(AddressText(s[1]), AddressText(t[1]))
  \/ s[1] = t[1] /\ TextBefore(TextOf(s), TextOf(t))

ReportedStrings ==
  {s \in DecodedStrings :
     Cardinality({t \in DecodedStrings \ {s} : SortsBefore(t, s)}) < StringCap}

-----------------------------------------------------------------------------

EmulateTypeOK ==
  /\ aePc \in {"idle", "run", "stopped"}
  /\ steps \in 0 .. MaxSteps
  /\ pc \in 1 .. WindowSize + 1
  /\ machine.regs \in [Regs -> 0 .. Word - 1]
  /\ \A a \in DOMAIN machine.memory : machine.memory[a] \in 0 .. Base - 1
  /\ Len(context) <= ContextCap
  /\ Len(unsupported) <= 1

(***************************************************************************)
(* A run that stopped before the end of the window, or was cut by a loop,  *)
(* says so: it was truncated or it names the instruction it stopped at.    *)
(***************************************************************************)
EarlyEndIsReported ==
  aePc = "stopped" /\ pc <= WindowSize => StepTruncated \/ unsupported # <<>>

(***************************************************************************)
(* A call is reported with the setup that was executed before it, in order *)
(* and no more of it than the preview holds, and the constants pushed are  *)
(* those of that setup.                                                    *)
(***************************************************************************)
SetupBefore(k) ==
  Kept(SubSeq(trail, 1, k), {i \in ToSet(trail) : IsSetup(program[i])})

CallsShowTheirSetup ==
  \A n \in DOMAIN calls :
    \E k \in 0 .. Len(trail) :
      LET setup  == calls[n].setup
          before == SetupBefore(k)
      IN  /\ Len(setup) = Min({PreviewCap, Len(before)})
          /\ \A i \in DOMAIN setup : setup[i] = before[Len(before) - Len(setup) + i]
          /\ k < Len(trail) => trail[k + 1] = calls[n].at
          /\ \A i \in ToSet(setup) :
               i \in ToSet(calls[n].pushed) <=> IsPushedConstant(program[i])

(***************************************************************************)
(* What was pushed is what pop finds, wherever the stack pointer is, on    *)
(* either side of zero included.                                           *)
(***************************************************************************)
PushPopRoundTrip ==
  \A ins \in Instructions, r \in Regs \ {"esp"} :
    ins.op = "push" =>
      LET dst   == [kind |-> "reg", reg |-> r, part |-> "full"]
          after == PopStep(PushStep(machine, ins.src), dst)
      IN  /\ Reg(after, dst) = EvalOperand(machine, ins.src)
          /\ Reg(after, Esp) = Reg(machine, Esp)

(***************************************************************************)
(* The strings decoded, which an answer counts, are for either width       *)
(* exactly the runs of printable characters in memory the code wrote that  *)
(* have at least the least length and that no character before or after    *)
(* makes longer.  An answer shows all of them unless there are more than   *)
(* StringCap, and then the first StringCap in the order of their text.     *)
(***************************************************************************)
Text(a, n, width) ==
  /\ a .. a + width * n - 1 \subseteq DOMAIN machine.memory
  /\ \A i \in 0 .. n - 1 : Character(a + width * i, width) \in Printable

IsMaximalText(a, n, width) ==
  /\ n >= MinLength /\ Text(a, n, width)
  /\ ~Text(a - width, n + 1, width) /\ ~Text(a, n + 1, width)

StringsAreMaximal ==
  LET bytes == DOMAIN machine.memory
  IN  aePc = "stopped" =>
        /\ DecodedStrings = {s \in bytes \X (1 .. Cardinality(bytes)) \X {1, 2} :
                               IsMaximalText(s[1], s[2], s[3])}
        /\ Cardinality(DecodedStrings) <= StringCap => ReportedStrings = DecodedStrings

(* A loop does not keep the emulation going for ever. *)
EmulationEnds == (aePc = "run") ~> (aePc = "stopped")

=============================================================================
