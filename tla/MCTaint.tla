------------------------------ MODULE MCTaint ------------------------------
(* Traces of five records whose first defines a, over two registers, the    *)
(* flags, two frame registers and three bytes: stores and loads that are    *)
(* whole, overlapping, paired and exclusive, one addressed by a register    *)
(* that may be tainted, a partial overwrite, a comparison, a branch and a   *)
(* call.                                                                    *)
EXTENDS Taint

mcRegs == {"a", "b", "nzcv", "sp", "lr"}
mcFrame == {"sp", "lr"}
mcBytes == 0..2
mcAlphabet == <<"control", "a", "b", "lr", "mem", "nzcv", "sp">>

Insn(kind, regs) == [kind |-> kind, regs |-> regs, mem |-> <<>>]
Mem(kind, regs, base, at, width) ==
  [kind |-> kind, regs |-> regs,
   mem |-> <<[base |-> base, idx |-> "none", at |-> at, width |-> width, writeback |-> FALSE]>>]

SetA  == Insn("mov", <<"a">>)
Ldr   == [Mem("ldr", <<"b">>, "a", 0, 2) EXCEPT !.mem[1].writeback = TRUE]

mcStarts == {SetA}
mcInsns ==
  {SetA, Insn("mov", <<"b", "a">>), Insn("movk", <<"a">>), Insn("cmp", <<"b">>), Insn("b.cond", <<>>),
   Insn("bl", <<>>), Mem("str", <<"a">>, "sp", 0, 2), Mem("str", <<"b">>, "sp", 1, 2),
   Mem("ldp", <<"a", "b">>, "sp", 0, 1),
   Mem("stxr", <<"b", "a">>, "sp", 1, 1), Ldr}

mcInsnsCbz == {SetA, Insn("mov", <<"b", "a">>), Insn("cbz", <<"a">>)}
=============================================================================
