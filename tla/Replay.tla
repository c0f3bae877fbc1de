------------------------------- MODULE Replay -------------------------------
(* Replay of a window of the trace (tracemiku-core/src/replay.rs and        *)
(* replay/): every instruction is run again from the state its record       *)
(* started with and compared with the next record.  A load is fed only from *)
(* stores and snapshots it can trust, so replay stops, rather than compare, *)
(* wherever the capture does not show what came before.                     *)
EXTENDS TraceReader

CONSTANTS MaxReplay,     \* MAX_REPLAY_RECORDS
          MaxLookback    \* MAX_INPUT_LOOKBACK

Fault == [fault |-> TRUE]
Unknown == [fault |-> FALSE]

-----------------------------------------------------------------------------
(* replay/semantics.rs                                                      *)

Reg(rec, n, sp) == IF n = R31 THEN (IF sp THEN rec.sp ELSE 0) ELSE rec.regs[n]

Put(rec, n, v, wide, sp) ==
  LET kept == IF wide THEN v ELSE Low(v)
  IN IF n # R31 THEN [rec EXCEPT !.regs[n] = kept] ELSE IF sp THEN [rec EXCEPT !.sp = kept] ELSE rec

Top(v, wide) == BitOf(v, Bits(wide) - 1) = 1

(* flags: overflow where the operands' signs and the result's disagree.     *)
Nzcv(a, b, v, wide, subtract) ==
  LET carry == IF subtract THEN a >= b ELSE a + b >= 2^Bits(wide)
      over == Top(a, wide) # Top(v, wide) /\ (Top(a, wide) # Top(b, wide)) = subtract
  IN FlagSet(Top(v, wide), v = 0, carry, over)

Inverted(v, wide) == 2^Bits(wide) - 1 - v
Bitwise(op, a, b, wide) ==
  FoldLeft(LAMBDA sum, n : IF CASE op = "and" -> BitOf(a, n) = 1 /\ BitOf(b, n) = 1
                                [] op = "orr" -> BitOf(a, n) = 1 \/ BitOf(b, n) = 1
                                [] op = "eor" -> BitOf(a, n) # BitOf(b, n)
                           THEN sum + 2^n ELSE sum, 0, [n \in 1..Bits(wide) |-> n - 1])

(* run: the predicted state; Unknown where a load has a byte nobody vouches *)
(* for, Fault for what is not supported.  input[a] is the byte at a.        *)
Run(rec, input) ==
  LET i == rec.insn
      next == [rec EXCEPT !.pc = rec.pc + 1]
      operand == IF i.rm = None THEN i.imm ELSE Cut(Cut(Reg(rec, i.rm, FALSE), i.wide) * 2^i.shift, i.wide)
      a == Cut(Reg(rec, i.rn, i.rm = None), i.wide)
      sum == Cut(IF i.op = "sub" THEN a - operand ELSE a + operand, i.wide)
      inv == IF i.neg THEN Inverted(operand, i.wide) ELSE operand
      logic == Bitwise(i.op, Cut(Reg(rec, i.rn, FALSE), i.wide), inv, i.wide)
      at == CellSize^i.shift
      base == Reg(rec, i.rn, TRUE)
      addr == IF i.mode = "post" THEN base ELSE base + i.imm
      bytes == [k \in 0..Size(i) - 1 |-> input[addr + k]]
      value == bytes[0] + (IF i.wide THEN CellSize * bytes[1] ELSE 0)
      Indexed(r) == IF i.mode = "off" THEN r ELSE Put(r, i.rn, base + i.imm, TRUE, TRUE)
      Flagged(r, f) == IF i.set THEN [r EXCEPT !.flags = f] ELSE r
  IN CASE i.op = "nop" -> next
       [] i.op \in {"b", "bl", "br", "blr", "b.cond", "cbz", "tbz"} ->
            [Linked(rec, i) EXCEPT !.pc = ExpectedNextPc(rec)]
       [] i.op = "movz" -> Put(next, i.rd, i.imm * at, i.wide, FALSE)
       [] i.op = "movn" -> Put(next, i.rd, Inverted(i.imm * at, TRUE), i.wide, FALSE)
       [] i.op = "movk" -> Put(next, i.rd, Reg(rec, i.rd, FALSE)
                                 + (i.imm - HalfOf(Reg(rec, i.rd, FALSE), i.shift)) * at, i.wide, FALSE)
       [] i.op \in {"add", "sub"} ->
            Flagged(Put(next, i.rd, sum, i.wide, i.rm = None /\ ~i.set), Nzcv(a, operand, sum, i.wide, i.op = "sub"))
       [] i.op \in {"and", "orr", "eor"} /\ i.rm # None ->
            Flagged(Put(next, i.rd, logic, i.wide, FALSE), FlagSet(Top(logic, i.wide), logic = 0, FALSE, FALSE))
       [] i.op = "adr" -> Put(next, i.rd, rec.pc + i.imm, TRUE, FALSE)
       [] i.op \in {"ldr", "str"} ->
            IF i.mode # "off" /\ i.rn = i.rd /\ i.rn # R31 THEN Fault
            ELSE IF i.op = "str" THEN Indexed(next)
            ELSE IF \E k \in DOMAIN bytes : bytes[k] = None THEN Unknown
            ELSE Indexed(Put(next, i.rd, value, i.wide, FALSE))
       [] OTHER -> Fault

-----------------------------------------------------------------------------
(* replay/memory.rs and the shadow's input_byte                             *)

(* The bytes a record's store leaves, as the memory shadow knows them; a    *)
(* SIMD store's are not in the record.                                      *)
StoredByte(rec, a) ==
  LET at == Address(rec, rec.insn)
      v == RegOf(rec, rec.insn.rd)
  IN IF rec.insn.op # "str" \/ a \notin at..at + Size(rec.insn) - 1 THEN None
     ELSE HalfOf(v, a - at)

(* The events of a byte in the shadow's order: by record, a store before a  *)
(* boundary diff.                                                           *)
WritesTo(a) ==
  FlattenSeq([k \in 1..Len(trace) |->
    (IF StoredByte(Rec(k - 1), a) = None THEN <<>> ELSE <<[idx |-> k - 1, byte |-> StoredByte(Rec(k - 1), a)]>>)
      \o SelectSeq([j \in DOMAIN external |-> [idx |-> external[j].idx, byte |-> external[j].byte,
                                               addr |-> external[j].addr]],
                   LAMBDA e : e.addr = a /\ e.idx = k - 1)])

(* MemShadow::input_byte: the last store before the record and not before   *)
(* start; the snapshot only when start is 0.                                *)
InputByte(a, idx, start) ==
  LET ws == IF a \in Cells THEN SelectSeq(WritesTo(a), LAMBDA e : start <= e.idx /\ e.idx < idx) ELSE <<>>
  IN IF ws # <<>> THEN Last(ws).byte ELSE IF start = 0 /\ a \in Cells THEN snapshot[a] ELSE None

NoInput == [a \in Cells |-> None]

Larger(a, b) == IF a > b THEN a ELSE b

(* Mutant of Floor: only the lookback limits what is trusted.               *)
FloorByLookback(start) == Larger(start - MaxLookback, 0)

(* MemoryInputs::new: what is older than a break, or than an instruction    *)
(* replay does not know, is not trusted.                                    *)
Barrier(idx) == ~HasPost(idx) \/ Run(Rec(idx), NoInput) = Fault
Floor(start) ==
  LET lower == Larger(start - MaxLookback, 0)
  IN Max({lower} \cup {idx + 1 : idx \in {b \in lower..start - 1 : Barrier(b)}})

-----------------------------------------------------------------------------
(* replay_trace                                                             *)

Reason(idx) ==
  LET rec == Rec(idx)
      i == rec.insn
  IN CASE i.op = "svc"                              -> "syscall_boundary"
       [] i.op = "simd"                             -> "simd_state_unavailable"
       [] Quality.dropped # 0 \/ ~Quality.valid     -> "trace_gap"
       [] idx + 1 >= Len(trace)                     -> "missing_post_state"
       [] ExpectedNextPc(rec) = None                -> "unsupported_instruction"
       [] /\ i.op \in {"bl", "blr"} /\ Rec(idx + 1).pc = rec.pc + 1
          /\ ExpectedNextPc(rec) # Rec(idx + 1).pc  -> "excluded_call"
       [] ~HasPost(idx)                             -> "trace_gap"
       [] OTHER                                     -> "none"

(* One transition: predicted and compared with the next record.             *)
Mismatch(p, post) ==
  IF p = Fault THEN "unsupported_instruction"
  ELSE IF p = Unknown THEN "unknown_memory"
  ELSE IF p.pc # post.pc THEN "pc_mismatch"
  ELSE IF <<p.regs, p.sp, p.flags>> # <<post.regs, post.sp, post.flags>> THEN "register_mismatch"
  ELSE "none"
Compare(idx, floor) ==
  Mismatch(Run(Rec(idx), [a \in Cells |-> IF floor > idx THEN None ELSE InputByte(a, idx, floor)]), Rec(idx + 1))

Verdict(idx, floor) == IF Reason(idx) # "none" THEN Reason(idx) ELSE Compare(idx, floor)

Wanted(start, count) == Min({count, MaxReplay, Len(trace) - start})

(* Up to the first transition that is not checked.                          *)
Summary(verdicts, wanted, count, more) ==
  LET bad == {k \in DOMAIN verdicts : verdicts[k] # "none"}
      stop == IF bad # {} THEN verdicts[Min(bad)] ELSE IF count > wanted /\ more THEN "limit_reached" ELSE "none"
  IN [checked |-> IF bad = {} THEN wanted ELSE Min(bad), stop |-> stop, truncated |-> count > wanted,
      status |-> CASE stop = "none" -> "matched"
                   [] stop \in {"register_mismatch", "pc_mismatch"} -> "diverged"
                   [] OTHER -> "stopped"]

VerdictsFrom(start, wanted, floor) == [k \in 0..wanted - 1 |-> Verdict(start + k, floor)]
ReplayTrace(start, count) ==
  LET wanted == Wanted(start, count)
  IN Summary(VerdictsFrom(start, wanted, Floor(start)), wanted, count, start + wanted < Len(trace))

-----------------------------------------------------------------------------
(* What replay promises.                                                    *)

Windows == {<<s, n>> : s \in Indices, n \in 1..MaxRecords + 1}

(* A boundary diff is put at the record after the call: where that record   *)
(* stores to the same byte, the two are taken in the wrong order.           *)
Displaced == \E k \in DOMAIN external : LET e == external[k]
                                        IN e.idx < Len(trace) /\ StoredByte(Rec(e.idx), e.addr) # None

(* Replay never accuses a capture that is right: no window of what the      *)
(* processor really did "diverges", whatever left the followed range, went  *)
(* into the kernel or was dropped before or inside it.                      *)
NeverAccusesTruth ==
  Closed /\ DropsKnown /\ ~Displaced =>
    \A w \in Windows : ReplayTrace(w[1], w[2]).status # "diverged"

(* A transition that counts as checked is one the processor made: nothing   *)
(* ran unseen between the two records.                                      *)
CheckedIsDirect ==
  Closed /\ DropsKnown => \A w \in Windows :
    LET r == ReplayTrace(w[1], w[2])
    IN \A k \in 0..r.checked - 1 : joined[w[1] + k + 1] /\ w[1] + k + 1 < Len(trace)

(* Replay stops only for want of evidence: where every record follows its   *)
(* predecessor, each instruction is supported and each load reads a byte    *)
(* the snapshot covers, the whole window is checked.                        *)
Plain == Closed /\ meta # "invalid" /\ dropped = 0 /\ (\A k \in 1..Len(trace) - 1 : joined[k])
Supported(i) ==
  /\ i.op \notin {"auth", "madd", "simd", "svc", "lsl", "lsr"}
  /\ i.op \in {"and", "orr", "eor"} => i.rm # None
  /\ i.mode # "off" => i.rn # i.rd \/ i.rn = R31
ReplaysWhatIsKnown ==
  Plain /\ (\A idx \in Indices : Supported(Rec(idx).insn)) /\ (\A a \in Cells : snapshot[a] # None) =>
    \A w \in Windows :
      LET r == ReplayTrace(w[1], w[2])
      IN w[1] <= MaxLookback =>
           \/ w[1] + r.checked = Len(trace) - 1
           \/ r.checked = w[2] \/ r.checked = MaxReplay

(* Replay of any window: no false accusation, nothing counted that was not  *)
(* seen, and no stop without a reason (replay.rs replay_trace).             *)
ReplayTrue == NeverAccusesTruth /\ CheckedIsDirect /\ ReplaysWhatIsKnown
=============================================================================
