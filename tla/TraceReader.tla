---------------------------- MODULE TraceReader ----------------------------
(* The reader of one call directory: tracemiku-core/src/trace/trace.rs maps *)
(* trace.bin, evidence.rs decides from an instruction and the registers it  *)
(* started with where execution has to continue, and a record is handed out *)
(* as the state AFTER its predecessor only when that holds.                 *)
(*                                                                          *)
(* The module runs a small program and logs it the way the tracer does:     *)
(* calls out of the followed range run unseen, a full ring drops records    *)
(* and counts them, and the count reaches the reader only through           *)
(* meta.json.  A word is two bytes of CellBits bits; a code address counts  *)
(* instructions, so the next one is pc + 1.  Record idx (from 0, as in the  *)
(* code) is trace[idx + 1].                                                 *)
EXTENDS Integers, FiniteSets, SequencesExt

CONSTANTS CellBits,     \* bits of a memory byte; a narrow register is one, a wide one two
          Cells,        \* addresses of memory bytes, 0..n
          Pcs,          \* code addresses, 0..n
          Fetchable(_), \* the instructions that may run next, of a trace
          Outside,      \* code addresses of functions that are not followed
          Snapshots,    \* which bytes memory_snapshot.bin covers
          Shared,       \* bound: the bytes code that runs unseen writes
          MaxRecords,   \* bound: records of the trace
          MaxHoles,     \* bound: calls out, system calls and drops of one trace
          NoInsn        \* code not executed yet

None == -1
CellSize == 2^CellBits
WordSize == CellSize * CellSize
Word == 0..WordSize - 1

(* Register numbers: two data registers, the link register, and 31, which   *)
(* is sp or the zero register as the instruction takes it.                  *)
X0 == 0
X1 == 1
Lr == 30
R31 == 31
General == {X0, X1, Lr}

ASSUME ReaderAssumption ==
  /\ CellBits \in Nat \ {0}
  /\ Cells = 0..Cardinality(Cells) - 1 /\ Outside \cap Pcs = {}

VARIABLES code,      \* the program: the instruction at each address
          cpu,       \* pc, registers, sp and flags now
          memory,    \* what memory holds now
          trace,     \* trace.bin
          snapshot,  \* memory_snapshot.bin
          external,  \* external_writes.bin: boundary diffs of calls out
          dropped,   \* records lost at a full ring
          meta,      \* meta.json: "open" while the capture runs, then what a reader finds
          joined     \* ghost: does record k + 1 really follow record k

vars == <<code, cpu, memory, trace, snapshot, external, dropped, meta, joined>>

-----------------------------------------------------------------------------
(* evidence.rs                                                              *)

Rec(idx) == trace[idx + 1]
Indices == 0..Len(trace) - 1

(* reg_by_name with register_name: 31 names the zero register.              *)
RegOf(rec, r) == IF r = R31 THEN 0 ELSE rec.regs[r]
Low(v) == v % CellSize
HalfOf(v, h) == (v \div CellSize^h) % CellSize
BitOf(v, n) == (v \div 2^n) % 2

(* The eight base conditions of b.cond; the odd ones are their negations,   *)
(* but for the last two, which both mean always.                            *)
CondHolds(cond, f) ==
  LET base == CASE cond \div 2 = 0 -> "z" \in f
                [] cond \div 2 = 1 -> "c" \in f
                [] cond \div 2 = 2 -> "n" \in f
                [] cond \div 2 = 3 -> "v" \in f
                [] cond \div 2 = 4 -> "c" \in f /\ "z" \notin f
                [] cond \div 2 = 5 -> ("n" \in f) = ("v" \in f)
                [] cond \div 2 = 6 -> "z" \notin f /\ ("n" \in f) = ("v" \in f)
                [] OTHER           -> TRUE
  IN IF cond < 14 /\ cond % 2 = 1 THEN ~base ELSE base

IsConditional(insn) == insn.op \in {"b.cond", "cbz", "tbz"}

(* branch_taken, of a conditional branch.  neg is cbnz or tbnz.             *)
BranchTaken(rec) ==
  LET i == rec.insn
      v == RegOf(rec, i.rd)
  IN CASE i.op = "b.cond" -> CondHolds(i.imm, rec.flags)
       [] i.op = "cbz"    -> ((IF i.wide THEN v ELSE Low(v)) # 0) = i.neg
       [] i.op = "tbz"    -> (BitOf(v, i.imm) # 0) = i.neg

(* expected_next_pc: an authenticated branch and an exception are unknown.  *)
ExpectedNextPc(rec) ==
  LET i == rec.insn
  IN CASE i.op \in {"b", "bl"}                -> i.to
       [] i.op \in {"br", "blr"}              -> RegOf(rec, i.rd)
       [] i.op \in {"svc", "auth"}            -> None
       [] IsConditional(i) /\ BranchTaken(rec) -> i.to
       [] OTHER                               -> rec.pc + 1

(* Trace::load: an absent meta.json counts as valid and tells of no drops.  *)
Quality ==
  [dropped |-> IF meta = "written" THEN dropped ELSE 0,
   valid |-> meta # "invalid"]

(* Trace::post_record *)
HasPost(idx) ==
  /\ idx + 1 < Len(trace)
  /\ Quality.dropped = 0 /\ Quality.valid
  /\ ExpectedNextPc(Rec(idx)) = Rec(idx + 1).pc

-----------------------------------------------------------------------------
(* What the processor does, from the architecture: the second opinion the   *)
(* analyses are checked against.                                            *)

Bits(wide) == IF wide THEN 2 * CellBits ELSE CellBits
Cut(v, wide) == v % 2^Bits(wide)
Signed(v, wide) == IF v >= 2^(Bits(wide) - 1) THEN v - 2^Bits(wide) ELSE v

ReadReg(s, r, sp) == IF r = R31 THEN (IF sp THEN s.sp ELSE 0) ELSE s.regs[r]
WriteReg(s, r, v, sp) ==
  IF r = R31 THEN (IF sp THEN [s EXCEPT !.sp = v] ELSE s) ELSE [s EXCEPT !.regs[r] = v]

Second(s, i) == IF i.rm = None THEN i.imm ELSE Cut(ReadReg(s, i.rm, FALSE) * 2^i.shift, i.wide)

FlagSet(n, z, c, v) ==
  (IF n THEN {"n"} ELSE {}) \cup (IF z THEN {"z"} ELSE {})
    \cup (IF c THEN {"c"} ELSE {}) \cup (IF v THEN {"v"} ELSE {})

Arithmetic(s, i) ==
  LET sp == i.rm = None
      a == Cut(ReadReg(s, i.rn, sp), i.wide)
      b == Second(s, i)
      exact == IF i.op = "sub" THEN a - b ELSE a + b
      signed == IF i.op = "sub" THEN Signed(a, i.wide) - Signed(b, i.wide)
                ELSE Signed(a, i.wide) + Signed(b, i.wide)
      v == Cut(exact, i.wide)
      t == WriteReg(s, i.rd, v, sp /\ ~i.set)
  IN IF ~i.set THEN t
     ELSE [t EXCEPT !.flags = FlagSet(Signed(v, i.wide) < 0, v = 0,
             IF i.op = "sub" THEN exact >= 0 ELSE exact # v, signed # Signed(v, i.wide))]

(* Bit by bit, the second operand inverted where the instruction says so.   *)
Logical(s, i) ==
  LET Bit(n) == LET a == BitOf(ReadReg(s, i.rn, FALSE), n)
                    m == BitOf(Second(s, i), n)
                    b == IF i.neg THEN 1 - m ELSE m
                IN CASE i.op = "and" -> a * b
                     [] i.op = "orr" -> a + b - a * b
                     [] i.op = "eor" -> (a + b) % 2
      v == FoldLeft(LAMBDA sum, n : sum + Bit(n - 1) * 2^(n - 1), 0, [n \in 1..Bits(i.wide) |-> n])
      t == WriteReg(s, i.rd, v, FALSE)
  IN IF ~i.set THEN t ELSE [t EXCEPT !.flags = FlagSet(Signed(v, i.wide) < 0, v = 0, FALSE, FALSE)]

(* A move replaces the byte named imm.half, and all, none or the inverse of *)
(* the other.                                                               *)
Move(s, i) ==
  LET at == CellSize^i.shift
      v == CASE i.op = "movz" -> i.imm * at
             [] i.op = "movn" -> WordSize - 1 - i.imm * at
             [] i.op = "movk" -> ReadReg(s, i.rd, FALSE)
                                   + (i.imm - HalfOf(ReadReg(s, i.rd, FALSE), i.shift)) * at
  IN WriteReg(s, i.rd, Cut(v, i.wide), FALSE)

Shifted(s, i) ==
  LET v == ReadReg(s, i.rn, FALSE)
  IN WriteReg(s, i.rd, IF i.op = "lsl" THEN Cut(v * 2^i.imm, i.wide) ELSE Cut(v, i.wide) \div 2^i.imm, FALSE)

Address(s, i) == ReadReg(s, i.rn, TRUE) + (IF i.mode = "post" THEN 0 ELSE i.imm)
Size(i) == IF i.wide THEN 2 ELSE 1
InMemory(s, i) == Address(s, i) \in Cells /\ Address(s, i) + Size(i) - 1 \in Cells

(* Little-endian.                                                           *)
LoadWord(m, a, i) == m[a] + (IF i.wide THEN CellSize * m[a + 1] ELSE 0)
StoreWord(m, a, v, i) ==
  [x \in Cells |-> IF x = a THEN Low(v) ELSE IF i.wide /\ x = a + 1 THEN v \div CellSize ELSE m[x]]

Access(s, m, i) ==
  LET t == IF i.op = "ldr" THEN WriteReg(s, i.rd, LoadWord(m, Address(s, i), i), FALSE) ELSE s
  IN IF i.mode = "off" THEN t ELSE WriteReg(t, i.rn, ReadReg(s, i.rn, TRUE) + i.imm, TRUE)

Linked(s, i) == IF i.op \in {"bl", "blr"} THEN [s EXCEPT !.regs[Lr] = s.pc + 1] ELSE s

(* The state after an instruction that stays inside.                        *)
Step(s, m, i) ==
  LET t == CASE i.op \in {"add", "sub"}          -> Arithmetic(s, i)
             [] i.op \in {"and", "orr", "eor"}   -> Logical(s, i)
             [] i.op \in {"movz", "movn", "movk"} -> Move(s, i)
             [] i.op \in {"lsl", "lsr"}         -> Shifted(s, i)
             [] i.op = "adr"                     -> WriteReg(s, i.rd, s.pc + i.imm, FALSE)
             [] i.op \in {"ldr", "str"}          -> Access(s, m, i)
             [] i.op = "madd"                    -> WriteReg(s, i.rd, Cut(s.regs[X0] * s.regs[X1] + 1, TRUE), FALSE)
             [] OTHER                            -> Linked(s, i)
      to == CASE i.op \in {"b", "bl"}                -> i.to
              [] i.op \in {"br", "blr", "auth"}      -> ReadReg(s, i.rd, FALSE)
              [] IsConditional(i) /\ BranchTaken([regs |-> s.regs, flags |-> s.flags, insn |-> i]) -> i.to
              [] OTHER                               -> s.pc + 1
  IN [t EXCEPT !.pc = to]

-----------------------------------------------------------------------------
(* The traced call.                                                         *)

Open == meta = "open" /\ Len(trace) < MaxRecords
Holes == Cardinality({k \in DOMAIN joined : ~joined[k]}) + dropped

Init ==
  /\ code = [pc \in Pcs |-> NoInsn]
  /\ cpu \in {[pc |-> 0, regs |-> [r \in General |-> IF r = X1 THEN v ELSE 0], sp |-> 0, flags |-> {}] : v \in {0, 1}}
  /\ memory = [a \in Cells |-> a % CellSize]
  /\ snapshot \in {[a \in Cells |-> IF a \in covered THEN a % CellSize ELSE None] : covered \in Snapshots}
  /\ trace = <<>> /\ external = <<>> /\ dropped = 0 /\ meta = "open"
  /\ joined = <<>>

(* The program holds one instruction at an address, whenever it gets there. *)
Fetched(i) == code[cpu.pc] \in {NoInsn, i} /\ code' = [code EXCEPT ![cpu.pc] = i]

Record(i) == [pc |-> cpu.pc, regs |-> cpu.regs, sp |-> cpu.sp, flags |-> cpu.flags, insn |-> i]

Logged(i, direct) ==
  /\ trace' = Append(trace, Record(i))
  /\ joined' = Append(joined, direct)

Possible(i) ==
  /\ cpu.pc \in Pcs
  /\ i.op \in {"ldr", "str"} => InMemory(cpu, i)
  /\ i.op # "svc"

(* The stub of an instruction writes its record, then it executes.          *)
Execute(i, seen) ==
  LET next == Step(cpu, memory, i)
  IN /\ Open /\ Possible(i) /\ Fetched(i)
     /\ next.pc \in Pcs
     /\ cpu' = next
     /\ memory' = CASE i.op = "str"  -> StoreWord(memory, Address(cpu, i), ReadReg(cpu, i.rd, FALSE), i)
                    [] i.op = "simd" -> [memory EXCEPT ![i.imm] = 1]
                    [] OTHER         -> memory
     /\ IF seen THEN Logged(i, TRUE) /\ UNCHANGED dropped
        ELSE /\ trace # <<>> /\ Holes < MaxHoles /\ dropped' = dropped + 1
             /\ UNCHANGED trace
             /\ joined' = [joined EXCEPT ![Len(joined)] = FALSE]
     /\ UNCHANGED <<snapshot, external, meta>>

(* What runs unseen changes x0 and a byte the program uses.                 *)
Other(v) == IF v = 0 THEN 1 ELSE 0
Unseen(i, to, a, diffed) ==
  /\ Open /\ cpu.pc \in Pcs /\ to \in Pcs /\ Fetched(i) /\ Holes < MaxHoles
  /\ cpu' = [Linked(cpu, i) EXCEPT !.pc = to, !.regs[X0] = Other(@)]
  /\ memory' = [memory EXCEPT ![a] = Other(@)]
  /\ Logged(i, FALSE)
  /\ external' = IF diffed THEN Append(external, [idx |-> Len(trace) + 1, addr |-> a, byte |-> memory'[a]])
                 ELSE external
  /\ UNCHANGED <<snapshot, dropped, meta>>

(* A call or a jump to a function that is not followed; tracing goes on     *)
(* where it returns.                                                        *)
LeavesBy(i) ==
  \/ i.op \in {"b", "bl"} /\ i.to \in Outside
  \/ i.op \in {"br", "blr"} /\ RegOf(cpu, i.rd) \in Outside
CallOut(i, a, diffed) ==
  LeavesBy(i) /\ Unseen(i, IF i.op \in {"bl", "blr"} THEN cpu.pc + 1 ELSE cpu.regs[Lr], a, diffed)

(* The kernel.                                                              *)
SystemCall(i, a) == i.op = "svc" /\ Unseen(i, cpu.pc + 1, a, FALSE)

(* The capture ends: meta.json is written, or is damaged, or never is.      *)
Finish(kind) ==
  /\ meta = "open" /\ trace # <<>>
  /\ meta' = kind
  /\ UNCHANGED <<code, cpu, memory, trace, snapshot, external, dropped, joined>>

Next ==
  \/ \E i \in Fetchable(trace), seen \in BOOLEAN : Execute(i, seen)
  \/ \E i \in Fetchable(trace), a \in Shared, diffed \in BOOLEAN : CallOut(i, a, diffed)
  \/ \E i \in Fetchable(trace), a \in Shared : SystemCall(i, a)
  \/ \E kind \in {"written", "invalid", "absent"} : Finish(kind)

Spec == Init /\ [][Next]_vars

(* What the analyses read is a finished capture; a drop is known to them    *)
(* where there is a meta.json to tell of it.                                *)
Closed == meta # "open"
DropsKnown == meta = "absent" => dropped = 0
=============================================================================
