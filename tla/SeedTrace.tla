----------------------------- MODULE SeedTrace -----------------------------
(***************************************************************************)
(* trace_seed_value (crates/rbm-r2/src/trace.rs): follows a seeded         *)
(* register or memory value through a window of decoded instructions.      *)
(*                                                                         *)
(* An operand is a record: its kind is "reg", "slot" (the stack pointer    *)
(* plus a known offset, off), "mem" (any other bracketed operand), "addr"  *)
(* (what lea computes) or "imm" (val); names holds the registers whose     *)
(* name its text contains.  Stack offsets count words.                     *)
(* The code keeps an expression with every tracked value, which only the   *)
(* output shows: here a value is tracked or it is not, and every value the *)
(* code stores is tainted.                                                 *)
(***************************************************************************)
EXTENDS Integers, SequencesExt

CONSTANTS
  Registers,     \* register names
  StackPointer,  \* the one of them that is_stack_pointer accepts
  Clobbered,     \* the registers a call clears
  Ops,           \* instructions as pdj describes them: [addr, mn, args, type]
  Seeds,         \* what a caller may name: a register, a memory operand or both
  MaxEvents,     \* max_events, clamped
  MaxScanned,    \* max_instructions, clamped: the window's length
  NoEvent

ASSUME SeedTraceAssumption ==
  /\ StackPointer \in Registers /\ Clobbered \subseteq Registers
  /\ MaxEvents \in Nat \ {0} /\ MaxScanned \in Nat \ {0}

EventKinds ==
  {"seed_assign", "seed_memory_write", "seed_push", "seed_pop", "seed_mutation",
   "seed_reaches_call", "seed_reaches_jump"}

ASSUME EventAssumption == NoEvent \notin [at : Nat, kind : EventKinds]

Operands ==
  [kind : {"reg"}, name : Registers, names : SUBSET STRING]
    \cup [kind : {"slot"}, off : Int, names : SUBSET STRING]
    \cup [kind : {"mem"}, name : STRING, names : SUBSET STRING]
    \cup [kind : {"imm"}, val : Int, names : SUBSET STRING]

ASSUME OperandsAssumption ==
  /\ \A op \in Ops : op.args \in Seq(Operands)
  /\ \A seeds \in Seeds : seeds \subseteq Operands

VARIABLES
  stPc,     \* "idle", "scan", "done" or "refused"
  window,   \* instructions decoded so far
  scanned,  \* instruction_count
  regs,     \* tracked registers
  memory,   \* tracked memory operands, by their text
  stack,    \* tracked stack slots, from where the stack pointer was at first
  spDelta,  \* what the trace believes the stack pointer has moved by
  events,   \* the events kept
  cut,      \* event_truncated
  firstCT,  \* first_control_transfer
  lastEvent,\* last_tainted_event
  seen,     \* tainted_registers_seen
  emitted,  \* history: every event there was
  cpu       \* history: what the processor does with copies of the seed

stVars == <<stPc, window, scanned, regs, memory, stack, spDelta, events, cut,
            firstCT, lastEvent, seen, emitted, cpu>>

tracked == <<regs, memory, stack, spDelta, seen>>
log     == <<events, cut, firstCT, lastEvent, emitted>>

Assigns   == {"mov", "movzx", "movsxd"}
Mutates   == {"add", "sub", "xor", "or", "and", "shl", "shr", "sar", "rol",
              "ror"}
Mutates1  == {"inc", "dec", "not", "neg"}
Returns   == {"ret", "retf", "iret", "iretd", "iretq"}
CallKinds == {"call", "ucall", "icall"}
StopKinds == {"ujmp", "ijmp", "ret"}

-----------------------------------------------------------------------------
(* What the trace knows of operands. *)

Mentions(o) == o.names \cap regs # {}

Slot(o) == spDelta + o.off

Resolves(o) ==
  CASE o.kind = "reg"  -> o.name \in regs
    [] o.kind = "slot" -> Slot(o) \in stack \/ Mentions(o)
    [] o.kind = "mem"  -> o.name \in memory \/ Mentions(o)
    [] o.kind = "addr" -> Mentions(o)
    [] o.kind = "imm"  -> FALSE

(* place with what is at it tracked or no longer tracked. *)
Mark(place, x, taint) == IF taint THEN place \cup {x} ELSE place \ {x}

WriteDestination(dst, taint) ==
  /\ regs' = IF dst.kind = "reg" THEN Mark(regs, dst.name, taint) ELSE regs
  /\ seen' = IF dst.kind = "reg" /\ taint THEN seen \cup {dst.name} ELSE seen
  /\ stack' = IF dst.kind = "slot" THEN Mark(stack, Slot(dst), taint) ELSE stack
  /\ memory' = IF dst.kind = "mem" THEN Mark(memory, dst.name, taint) ELSE memory

(* push_event; push_control_transfer for the events that transfer control. *)
Event(kind) == [at |-> scanned + 1, kind |-> kind]
Transfers   == {"seed_reaches_call", "seed_reaches_jump"}

(* Mutant of PushEvent: one event more than MaxEvents is kept. *)
PushEventUncapped(kind) ==
  /\ lastEvent' = Event(kind)
  /\ emitted' = Append(emitted, Event(kind))
  /\ IF Len(events) <= MaxEvents
     THEN events' = Append(events, Event(kind)) /\ UNCHANGED cut
     ELSE cut' = TRUE /\ UNCHANGED events
  /\ firstCT' = IF kind \in Transfers /\ firstCT = NoEvent
                THEN Event(kind) ELSE firstCT

PushEvent(kind) ==
  /\ lastEvent' = Event(kind)
  /\ emitted' = Append(emitted, Event(kind))
  /\ IF Len(events) < MaxEvents
     THEN events' = Append(events, Event(kind)) /\ UNCHANGED cut
     ELSE cut' = TRUE /\ UNCHANGED events
  /\ firstCT' = IF kind \in Transfers /\ firstCT = NoEvent
                THEN Event(kind) ELSE firstCT

PushEventIf(happens, kind) == IF happens THEN PushEvent(kind) ELSE UNCHANGED log

-----------------------------------------------------------------------------
(* Instructions, by their mnemonic. *)

HandleAssignment(dst, src) ==
  LET taint == Resolves(src) \/ Mentions(src)
  IN  /\ WriteDestination(dst, taint)
      /\ PushEventIf(taint, IF dst.kind \in {"slot", "mem"}
                            THEN "seed_memory_write" ELSE "seed_assign")
      /\ UNCHANGED spDelta

(* Mutant of HandlePush: the slot is named before the pointer moves. *)
PushBeforeMoving(src) ==
  /\ IF Resolves(src)
     THEN /\ spDelta' = spDelta - 1
          /\ stack' = stack \cup {spDelta}
     ELSE UNCHANGED <<spDelta, stack>>
  /\ PushEventIf(Resolves(src), "seed_push")
  /\ UNCHANGED <<regs, memory, seen>>

HandlePush(src) ==
  /\ IF Resolves(src)
     THEN /\ spDelta' = spDelta - 1
          /\ stack' = stack \cup {spDelta - 1}
     ELSE UNCHANGED <<spDelta, stack>>
  /\ PushEventIf(Resolves(src), "seed_push")
  /\ UNCHANGED <<regs, memory, seen>>

(* The destination is written after the slot is gone and the pointer moved. *)
HandlePop(dst) ==
  /\ spDelta' = spDelta + 1
  /\ stack' = (stack \ {spDelta})
              \cup (IF spDelta \in stack /\ dst.kind = "slot"
                    THEN {spDelta + 1 + dst.off} ELSE {})
  /\ IF spDelta \in stack
     THEN /\ regs' = IF dst.kind = "reg" THEN regs \cup {dst.name} ELSE regs
          /\ seen' = IF dst.kind = "reg" THEN seen \cup {dst.name} ELSE seen
          /\ memory' = IF dst.kind = "mem" THEN memory \cup {dst.name} ELSE memory
     ELSE UNCHANGED <<regs, seen, memory>>
  /\ PushEventIf(spDelta \in stack, "seed_pop")

AdjustStackPointer(mn, amount) ==
  /\ spDelta' = IF mn = "sub" THEN spDelta - amount ELSE spDelta + amount
  /\ stack' = IF mn = "sub" THEN stack
              ELSE {s \in stack : ~(spDelta <= s /\ s < spDelta + amount)}
  /\ UNCHANGED <<regs, memory, seen, log>>

(* Only a register can be mutated; a mutation never ends the tracking. *)
MutateDestination(dst, sources) ==
  LET taint == /\ dst.kind = "reg"
               /\ \/ dst.name \in regs
                  \/ \E src \in sources : Resolves(src) \/ Mentions(src)
  IN  /\ regs' = IF taint THEN regs \cup {dst.name} ELSE regs
      /\ seen' = IF taint THEN seen \cup {dst.name} ELSE seen
      /\ PushEventIf(taint, "seed_mutation")
      /\ UNCHANGED <<memory, stack, spDelta>>

HandleMutation(mn, dst, src) ==
  IF dst.kind = "reg" /\ dst.name = StackPointer /\ src.kind = "imm"
     /\ mn \in {"add", "sub"}
  THEN AdjustStackPointer(mn, src.val)
  ELSE MutateDestination(dst, {src})

ClearRegisters ==
  /\ regs' = regs \ Clobbered
  /\ UNCHANGED <<memory, stack, spDelta, seen>>

HandleCall(targets) ==
  /\ PushEventIf(regs # {} \/ \E t \in targets : Resolves(t), "seed_reaches_call")
  /\ ClearRegisters

HandleJump(targets) ==
  /\ PushEventIf(regs # {} \/ \E t \in targets : Resolves(t), "seed_reaches_jump")
  /\ UNCHANGED tracked

Handles(op) ==
  LET args == op.args
  IN  CASE op.mn \in Assigns /\ Len(args) >= 2 -> HandleAssignment(args[1], args[2])
        [] op.mn = "lea" /\ Len(args) >= 2 ->
             HandleAssignment(args[1], [args[2] EXCEPT !.kind = "addr"])
        [] op.mn = "push" /\ args # <<>> -> HandlePush(args[1])
        [] op.mn = "pop" /\ args # <<>>  -> HandlePop(args[1])
        [] op.mn \in Mutates /\ Len(args) >= 2 ->
             HandleMutation(op.mn, args[1], args[2])
        [] op.mn \in Mutates1 /\ args # <<>> -> MutateDestination(args[1], {})
        [] op.mn = "call" -> HandleCall(ToSet(SubSeq(args, 1, 1)))
        [] op.mn = "jmp"  -> HandleJump(ToSet(SubSeq(args, 1, 1)))
        [] OTHER -> IF op.type \in CallKinds THEN HandleCall({})
                    ELSE UNCHANGED <<tracked, log>>

(* A mnemonic that stops, or else a kind that does. *)
Stops(op) == op.mn \in Returns \cup {"jmp"} \/ op.type \in StopKinds

-----------------------------------------------------------------------------
(***************************************************************************)
(* The processor, for the properties: where mov, push and pop have left    *)
(* copies of the seed, among the registers and the words of the stack, and *)
(* where the stack pointer is, as long as only push, pop and numbers have  *)
(* moved it (cpu.known).  Registers are cells of their own.                *)
(***************************************************************************)
Holds(o) == CASE o.kind = "reg"  -> o.name \in cpu.regs
              [] o.kind = "slot" -> cpu.sp + o.off \in cpu.stack
              [] OTHER           -> FALSE

IsStackPointer(o) == o.kind = "reg" /\ o.name = StackPointer

CpuWrites(c, dst, copy) ==
  [c EXCEPT
     !.regs = IF dst.kind = "reg" THEN Mark(@, dst.name, copy) ELSE @,
     !.stack = IF dst.kind = "slot" THEN Mark(@, c.sp + dst.off, copy) ELSE @,
     !.known = @ /\ ~IsStackPointer(dst)]

(* What lies below the stack pointer is gone. *)
CpuMoves(by) ==
  [cpu EXCEPT !.sp = @ + by, !.stack = {s \in @ : s >= cpu.sp + by}]

CpuCalls == [CpuMoves(0) EXCEPT !.regs = @ \ Clobbered]

(* add and sub of a number move the stack pointer by it. *)
Adjusts(op) ==
  op.mn \in {"add", "sub"} /\ IsStackPointer(op.args[1]) /\ op.args[2].kind = "imm"

Executes(op) ==
  LET args == op.args
  IN  CASE op.mn \in Assigns /\ Len(args) >= 2 ->
             CpuWrites(cpu, args[1], Holds(args[2]))
        [] op.mn = "push" /\ args # <<>> ->
             [cpu EXCEPT !.sp = @ - 1, !.stack = Mark(@, cpu.sp - 1, Holds(args[1]))]
        [] op.mn = "pop" /\ args # <<>> ->
             CpuWrites(CpuMoves(1), args[1], cpu.sp \in cpu.stack)
        [] op.mn \in Mutates \cup {"lea"} /\ Len(args) >= 2 ->
             IF Adjusts(op)
             THEN CpuMoves(IF op.mn = "add" THEN args[2].val ELSE -args[2].val)
             ELSE CpuWrites(cpu, args[1], FALSE)
        [] op.mn \in Mutates1 /\ args # <<>> -> CpuWrites(cpu, args[1], FALSE)
        [] op.mn \in {"call", "jmp"} -> IF op.mn = "call" THEN CpuCalls ELSE cpu
        [] OTHER -> IF op.type \in CallKinds THEN CpuCalls ELSE cpu

-----------------------------------------------------------------------------

(* normalize_optional_register, normalize_optional_memory *)
Recognised(seed) == seed.kind \in {"reg", "slot", "mem"}

SeedStart ==
  /\ stPc = "idle"
  /\ \E seeds \in Seeds :
       LET Of(kind) == {seed \in seeds : seed.kind = kind}
           r == {seed.name : seed \in Of("reg")}
           s == {seed.off : seed \in Of("slot")}
       IN  /\ regs' = r
           /\ seen' = r
           /\ stack' = s
           /\ memory' = {seed.name : seed \in Of("mem")}
           /\ cpu' = [regs |-> r, stack |-> s, sp |-> 0, known |-> TRUE]
           /\ stPc' = IF seeds # {} /\ \A seed \in seeds : Recognised(seed)
                      THEN "scan" ELSE "refused"
  /\ UNCHANGED <<window, scanned, spDelta, log>>

(* An entry without an address is no instruction and is not counted. *)
ScanSkips ==
  /\ stPc = "scan"
  /\ window < MaxScanned
  /\ \E op \in Ops : ~op.addr
  /\ window' = window + 1
  /\ UNCHANGED <<stPc, scanned, tracked, log, cpu>>

ScanOp ==
  /\ stPc = "scan"
  /\ window < MaxScanned
  /\ window' = window + 1
  /\ scanned' = scanned + 1
  /\ \E op \in Ops :
       /\ op.addr
       /\ Handles(op)
       /\ cpu' = Executes(op)
       /\ stPc' = IF Stops(op) THEN "done" ELSE "scan"

ScanEnds ==
  /\ stPc = "scan"
  /\ stPc' = "done"
  /\ UNCHANGED <<window, scanned, tracked, log, cpu>>

SeedInit ==
  /\ stPc = "idle"
  /\ window = 0
  /\ scanned = 0
  /\ regs = {} /\ memory = {} /\ stack = {} /\ seen = {}
  /\ spDelta = 0
  /\ events = <<>> /\ emitted = <<>>
  /\ cut = FALSE
  /\ firstCT = NoEvent /\ lastEvent = NoEvent
  /\ cpu = [regs |-> {}, stack |-> {}, sp |-> 0, known |-> TRUE]

SeedNext == SeedStart \/ ScanSkips \/ ScanOp \/ ScanEnds

SeedSpec == SeedInit /\ [][SeedNext]_stVars

-----------------------------------------------------------------------------

SeedTypeOK ==
  /\ stPc \in {"idle", "scan", "done", "refused"}
  /\ window \in 0 .. MaxScanned /\ scanned \in 0 .. window
  /\ regs \subseteq seen /\ seen \subseteq Registers
  /\ stack \subseteq Int /\ spDelta \in Int
  /\ Len(events) <= MaxEvents

(***************************************************************************)
(* As long as the trace knows where the stack pointer is, it follows every *)
(* copy of the seed that mov, push and pop make in registers and on the    *)
(* stack.                                                                  *)
(***************************************************************************)
CopiesFollowed == cpu.regs \subseteq regs /\ cpu.stack \subseteq stack

CopiesFollowedInStep == cpu.known /\ spDelta = cpu.sp => CopiesFollowed

(***************************************************************************)
(* The log is the first events there were, the flag tells whether there    *)
(* were more, the last event is kept even when the log is full, and so is  *)
(* the first transfer of control.                                          *)
(***************************************************************************)
LogIsPrefix ==
  LET transfers == {i \in DOMAIN emitted : emitted[i].kind \in Transfers}
  IN  /\ IsPrefix(events, emitted)
      /\ cut <=> Len(emitted) > Len(events)
      /\ lastEvent = IF emitted = <<>> THEN NoEvent ELSE Last(emitted)
      /\ IF transfers = {} THEN firstCT = NoEvent
         ELSE \E i \in transfers :
                firstCT = emitted[i] /\ \A j \in transfers : i <= j

(***************************************************************************)
(* Nothing is traced to the seed once the last value that came from it is  *)
(* gone: nothing is tracked again and no event follows.                    *)
(***************************************************************************)
NothingTracked == regs = {} /\ stack = {} /\ memory = {}

NothingFromNothing ==
  stPc = "scan" /\ NothingTracked => NothingTracked' /\ emitted' = emitted

=============================================================================
