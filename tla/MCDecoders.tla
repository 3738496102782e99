------------------------------ MODULE MCDecoders ------------------------------
(***************************************************************************)
(* Small instances of the decoders for TLC.  A prefix says whose each is:  *)
(* BT TraceBfs, ST SeedTrace, AE ArtifactEmulator, PD PathDigest,          *)
(* FX FieldXrefs, JT JumpTable, DD DriverDispatch.                         *)
(***************************************************************************)
EXTENDS DecoderTools, TLC

(* Cross-references as axfj and axtj shape them, one of them without a     *)
(* "from" and a "to" that can be read.                                     *)
BTo(t) == [from |-> t, to |-> t]
BTNone == [from |-> NoAddress, to |-> NoAddress, addr |-> "c"]

BTLists ==
  {<<>>, <<[addr |-> "b"]>>, <<BTNone>>, <<BTNone, BTo("b")>>}
    \cup {<<BTo(t)>> : t \in {"a", "b", "d"}}
    \cup {<<BTo(t), BTo("b")>> : t \in {"a", "b", "d"}}

-----------------------------------------------------------------------------

STReg(name, names) == [kind |-> "reg", name |-> name, names |-> names]

STrax   == STReg("rax", {"rax", "ax"})
STrbx   == STReg("rbx", {"rbx"})
STesp   == STReg("esp", {})
STtop(n) == [kind |-> "slot", off |-> n, names |-> {}]
STatBx  == [kind |-> "mem", name |-> "[rbx]", names |-> {"rbx"}]
STimm   == [kind |-> "imm", val |-> 1, names |-> {}]

STOp(mn, args, type) == [addr |-> TRUE, mn |-> mn, args |-> args, type |-> type]

STOps ==
  {STOp("mov", <<d, s>>, "mov") :
     d \in {STrax, STtop(0), STatBx}, s \in {STrax, STrbx, STtop(1)}}
    \cup {STOp("mov", <<STrbx, STimm>>, "mov"), STOp("lea", <<STrax, STatBx>>, "lea"),
          STOp("push", <<STrax>>, "push"), STOp("push", <<STimm>>, "push"),
          STOp("pop", <<STrbx>>, "pop"), STOp("pop", <<STrax>>, "pop"),
          STOp("add", <<STesp, STimm>>, "add"), STOp("sub", <<STesp, STimm>>, "sub"),
          STOp("add", <<STesp, STrbx>>, "add"), STOp("xor", <<STrax, STrbx>>, "xor"), STOp("inc", <<STrbx>>, "add"),
          STOp("call", <<STatBx>>, "call"), STOp("bl", <<STimm>>, "call"),
          STOp("jmp", <<STrbx>>, "ujmp"), STOp("bx", <<STrbx>>, "ijmp"),
          [STOp("nop", <<>>, "nop") EXCEPT !.addr = FALSE]}

STSeeds ==
  {{}, {STrax}, {STtop(0)}, {STtop(1)}, {STatBx}, {STimm}, {STrax, STtop(1)}}

-----------------------------------------------------------------------------

AEReg(r, p) == [kind |-> "reg", reg |-> r, part |-> p]
AEImm(v) == [kind |-> "imm", val |-> v]
AEMem(terms, disp, size) ==
  [kind |-> "mem", terms |-> terms, disp |-> disp, size |-> size]
AEOp(op, dst, src, jump) == [op |-> op, dst |-> dst, src |-> src, jump |-> jump]
AEOne(op, dst) == AEOp(op, dst, dst, Unknown)
AETwo(op, dst, src) == AEOp(op, dst, src, Unknown)

AEax == AEReg("eax", "full")
AEal == AEReg("eax", "low")
AEah == AEReg("eax", "high")
AETop(size) == AEMem(<< <<Esp, 1>> >>, 0, size)

(* A word is four digits of base 4: 171 is negative, 126 is the address of *)
(* a word that wraps around nothing.                                       *)
AEInstructions ==
  {AETwo("push", AEax, AEImm(171)), AETwo("push", AEax, AEImm(34)),
   AEOne("push", AEax), AEOne("pop", AEax),
   AETwo("mov", AEax, AEImm(136)), AETwo("mov", AEah, AEImm(2)),
   AETwo("mov", AETop(1), AEImm(2)), AETwo("mov", AEMem(<<>>, 126, 4), AEax),
   AETwo("movzx", AEax, AETop(4)),
   AETwo("lea", AEax, AEMem(<< <<AEax, 2>> >>, 3, 4)),
   AETwo("cmp", AETop(1), AEImm(171)), AEOne("dec", AEax), AEOne("inc", AEal),
   AEOne("xor", AEax), AETwo("add", Esp, AEImm(4)), AETwo("sub", AETop(1), AEImm(1)),
   AETwo("xchg", AEal, AEah), AEOne("not", AEax), AEOne("test", AEax),
   AEOne("call", AEax), AEOne("ret", AEax),
   AEOp("jne", AEax, AEax, 1), AEOp("jae", AEax, AEax, 3), AEOp("jg", AEax, AEax, 1),
   AEOp("jmp", AEax, AEax, 1), AEOp("jmp", AEax, AEax, 9), AEOne("jmp", AEax)}

-----------------------------------------------------------------------------

PDOp(mn, type) ==
  [addr |-> TRUE, mn |-> mn, type |-> type, indirect |-> FALSE, consts |-> <<>>,
   state |-> FALSE, write |-> NoWrite]
PDWrite(offset, size, value) ==
  [PDOp("mov", "mov") EXCEPT
     !.write = [base |-> "edi", offset |-> offset, size |-> size, value |-> value]]

PDListing ==
  {PDOp("push", "push"), PDOp("ret", "ret"),
   [PDOp("call", "ucall") EXCEPT !.indirect = TRUE],
   [PDOp("jmp", "ujmp") EXCEPT !.indirect = TRUE],
   [PDOp("mov", "mov") EXCEPT !.consts = <<"k1", "k2">>],
   [PDOp("call", "call") EXCEPT !.consts = <<"k1">>],
   [PDOp("add", "add") EXCEPT !.state = TRUE],
   PDWrite(0, 2, 9), PDWrite(1, 1, 3), PDWrite(-2, 1, 1),
   [PDOp("nop", "nop") EXCEPT !.addr = FALSE]}

-----------------------------------------------------------------------------

FXReg(r) == [kind |-> "reg", reg |-> r]
FXMem(r, off) == [kind |-> "mem", reg |-> r, off |-> off]
FXImm(v) == [kind |-> "imm", val |-> v]
FXOp(mn, args) == [addr |-> TRUE, mn |-> mn, args |-> args]

FXArgs   == (8 :> "arg")
FXLabels == (3 :> "marker")

FXCode ==
  {FXOp("mov", <<FXReg("eax"), FXMem("esi", 4)>>),
   FXOp("mov", <<FXMem("eax", 0), FXReg("esi")>>),
   FXOp("mov", <<FXMem("esi", 4), FXImm(3)>>),
   FXOp("mov", <<FXMem("ebp", 8), FXReg("eax")>>),
   FXOp("lea", <<FXReg("esi"), FXMem("ebp", 8)>>),
   FXOp("xor", <<FXReg("eax"), FXReg("eax")>>),
   FXOp("cmp", <<FXMem("esi", 4), FXImm(3)>>),
   FXOp("push", <<FXImm(3)>>), FXOp("push", <<FXImm(5)>>), FXOp("push", <<FXReg("eax")>>),
   FXOp("call", <<FXImm(9)>>), FXOp("call", <<FXImm(7)>>),
   [FXOp("nop", <<>>) EXCEPT !.addr = FALSE]}

-----------------------------------------------------------------------------

JTOp(at) ==
  [at |-> at, invalid |-> FALSE, call |-> FALSE, jump |-> FALSE, ret |-> FALSE,
   indirect |-> FALSE, write |-> NoWrite]
JTWrite(at) ==
  [JTOp(at) EXCEPT !.write = [base |-> "edi", offset |-> 0, size |-> 2, value |-> 5]]
JTCall(at) == [JTOp(at) EXCEPT !.call = TRUE]

JTBytes == {NotBytes} \cup UNION {[1 .. n -> {0, 1, 3}] : n \in 0 .. 4}

JTSlices ==
  {<<>>,
   <<JTCall(0), JTWrite(1), [JTOp(2) EXCEPT !.ret = TRUE]>>,
   <<[JTWrite(0) EXCEPT !.invalid = TRUE],
     [JTOp(1) EXCEPT !.jump = TRUE, !.indirect = TRUE]>>,
   <<JTOp(NoAddr), JTOp(0), JTCall(2), JTCall(0)>>}

-----------------------------------------------------------------------------

DDLea(r, a) == [kind |-> "lea", reg |-> r, addr |-> a]
DDStore(base, offset, src) ==
  [kind |-> "store", base |-> base, offset |-> offset, src |-> src]

DDOps ==
  {DDLea("rax", "h1"), DDLea("rax", "h2"), DDLea("rcx", "h2"), DDLea("rax", "short"),
   [kind |-> "imm", reg |-> "rax", addr |-> "h3"],
   DDStore("rcx", 2, "rax"), DDStore("rcx", 4, "h1"), DDStore("rcx", 5, "rbx"),
   DDStore("rbx", 4, "rax"),
   [kind |-> "notify"], [kind |-> "move", reg |-> "rbx", src |-> "rax"]}

=============================================================================
