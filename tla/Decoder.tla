------------------------------ MODULE Decoder ------------------------------
(* What the decoder of tracemiku-core says of an instruction                *)
(* (disasm/decoder.rs, disasm/mem_op.rs): the registers it defines and uses *)
(* and its memory operands, worked out from the list of its register        *)
(* operands because the disassembler does not tell which are read and which *)
(* are written.                                                             *)
EXTENDS Integers, Sequences, SequencesExt

CONSTANTS Regs,          \* register names
          NoReg          \* the empty register name

StoreKinds == {"str", "stp", "stxr", "stxp"}
Exclusives == {"stxr", "stxp"}
PairLoads == {"ldp"}
Kinds == StoreKinds \cup PairLoads \cup {"mov", "movk", "cmp", "ldr", "b.cond", "cbz", "bl", "ret"}

(* An instruction: its register operands in order, and its memory operand,  *)
(* width bytes per register at an address base and idx gave it.             *)
MemOperand == [base : Regs, idx : Regs \cup {NoReg}, at : Nat, width : Nat, writeback : BOOLEAN]
IsInsn(insn) ==
  /\ insn.kind \in Kinds /\ ToSet(insn.regs) \subseteq Regs
  /\ insn.mem = <<>> \/ (Len(insn.mem) = 1 /\ insn.mem[1] \in MemOperand)

Distinct(list) == FoldLeft(LAMBDA s, r : IF r \in ToSet(s) THEN s ELSE Append(s, r), <<>>, list)

-----------------------------------------------------------------------------
(* build_reg_accesses *)

(* Mutant of IsDest: the second of a pair load is taken for a source.       *)
IsDestFirst(insn, n) == n = 1 /\ (insn.kind \notin StoreKinds \/ insn.kind \in Exclusives)

(* The n-th register operand is taken for a destination: the first one,     *)
(* unless it is what a store stores, and the second of a pair load.         *)
IsDest(insn, n) ==
  \/ insn.kind \in PairLoads /\ n <= 2
  \/ n = 1 /\ (insn.kind \notin StoreKinds \/ insn.kind \in Exclusives)

Operands(insn, dest) ==
  LET at == SelectSeq([n \in DOMAIN insn.regs |-> n], LAMBDA n : IsDest(insn, n) = dest)
  IN  [k \in DOMAIN at |-> insn.regs[at[k]]]

AddressRegs(insn) ==
  FoldLeft(LAMBDA s, m : s \o <<m.base>> \o (IF m.idx = NoReg THEN <<>> ELSE <<m.idx>>), <<>>, insn.mem)
WrittenBack(insn) ==
  FoldLeft(LAMBDA s, m : IF m.writeback THEN Append(s, m.base) ELSE s, <<>>, insn.mem)

(* What the disassembler lists besides the operands.                        *)
ImplicitDef(insn) == IF insn.kind = "bl" THEN <<"lr">> ELSE <<>>
ImplicitUse(insn) == IF insn.kind = "b.cond" THEN <<"nzcv">> ELSE <<>>

(* A compare only writes the flags: its first operand is read.              *)
RegsDef(insn) ==
  IF insn.kind = "cmp" THEN <<"nzcv">>
  ELSE Distinct(ImplicitDef(insn) \o Operands(insn, TRUE) \o WrittenBack(insn))
RegsUse(insn) ==
  Distinct(ImplicitUse(insn) \o Operands(insn, FALSE) \o AddressRegs(insn)
             \o (IF insn.kind = "cmp" THEN Operands(insn, TRUE) ELSE <<>>))

-----------------------------------------------------------------------------
(* extract: one operand per register of a pair, side by side, and the       *)
(* register it moves.  The first operand of an exclusive store is a status. *)

MovedRegs(insn) ==
  CASE insn.kind \in {"ldp", "stp"} -> SubSeq(insn.regs, 1, 2)
    [] insn.kind = "stxp"           -> SubSeq(insn.regs, 2, 3)
    [] insn.kind = "stxr"           -> SubSeq(insn.regs, 2, 2)
    [] OTHER                        -> SubSeq(insn.regs, 1, 1)

MemOps(insn) ==
  LET moved == MovedRegs(insn)
      Part(m, k) == [write |-> insn.kind \in StoreKinds, at |-> m.at + (k - 1) * m.width, size |-> m.width,
                     base |-> m.base, idx |-> m.idx, reg |-> moved[k]]
  IN  IF insn.mem = <<>> THEN <<>> ELSE [k \in DOMAIN moved |-> Part(insn.mem[1], k)]

(* Mnemonics that decide which record comes next.                           *)
Flow(insn) ==
  CASE insn.kind \in {"b.cond", "cbz"} -> "cond"
    [] insn.kind = "bl"                -> "call"
    [] insn.kind = "ret"               -> "ret"
    [] OTHER                           -> "next"

Decode(insn) ==
  [insn |-> insn, def |-> RegsDef(insn), use |-> RegsUse(insn), ops |-> MemOps(insn),
   partial |-> insn.kind = "movk", flow |-> Flow(insn)]
=============================================================================
