------------------------------ MODULE MCRecords -----------------------------
(* Replay, queries and lineage on every trace of a few records out of two   *)
(* mixes: what replay knows, and what moves bytes about.                    *)
EXTENDS Replay, TraceQueries, Lineage

I(op, rd, rn, rm, imm) ==
  [op |-> op, rd |-> rd, rn |-> rn, rm |-> rm, imm |-> imm, to |-> None, shift |-> 0,
   wide |-> TRUE, neg |-> FALSE, set |-> FALSE, mode |-> "off"]
To(op, pc) == [I(op, R31, R31, None, 0) EXCEPT !.to = pc]
By(op, r) == I(op, r, R31, None, 0)
Narrow(i) == [i EXCEPT !.wide = FALSE]
Flagged(i) == [i EXCEPT !.set = TRUE]

(* What may run before and after a hole.                                    *)
MCInsns ==
  { Narrow(I("str", X0, X1, None, 0)), Narrow(I("ldr", X0, X1, None, 0)),
    To("bl", 9), By("br", Lr), By("svc", R31), [To("cbz", 0) EXCEPT !.rd = X0] }

(* And, to begin with, the rest of what replay knows.                       *)
MCStarts == MCInsns \cup
  { I("simd", R31, R31, None, 0), I("str", X1, R31, None, 0), I("ldr", X0, R31, None, 0), I("madd", X0, R31, None, 0),
    I("nop", R31, R31, None, 0), To("b", 1), To("bl", 2), By("blr", X1), By("auth", Lr), I("adr", X0, R31, None, 1),
    [To("b.cond", 2) EXCEPT !.imm = 9], [To("tbz", 2) EXCEPT !.rd = X1, !.neg = TRUE],
    I("movz", X0, R31, None, 2), Narrow(I("movn", X1, R31, None, 1)), [I("movk", X1, R31, None, 3) EXCEPT !.shift = 1],
    Flagged(Narrow(I("sub", X0, X1, None, 2))), Flagged(I("sub", R31, X1, X0, 0)),
    Flagged(I("add", X0, X1, X1, 0)), I("add", R31, R31, None, 1),
    [Flagged(Narrow(I("and", X0, X1, X1, 0))) EXCEPT !.neg = TRUE],
    [I("orr", X0, R31, X1, 0) EXCEPT !.shift = 1], [Narrow(I("eor", X0, R31, X1, 0)) EXCEPT !.neg = TRUE],
    [Narrow(I("ldr", X0, X1, None, 1)) EXCEPT !.mode = "post"],
    [Narrow(I("str", X1, R31, None, 1)) EXCEPT !.mode = "pre"],
    [Narrow(I("ldr", X1, X1, None, 1)) EXCEPT !.mode = "post"] }

(* What moves a byte or hides where it went.                                *)
MCMoves ==
  { I("str", X1, R31, None, 0), I("ldr", X0, R31, None, 0),
    I("orr", X0, X0, X1, 0), I("orr", X1, R31, X0, 0), I("lsr", X0, X0, None, 2), To("bl", 9) }

(* And, to begin with, what there is to be moved.                           *)
MCOpens == MCMoves \cup
  { Narrow(I("str", X0, R31, None, 1)), Narrow(I("ldr", X1, R31, None, 1)), I("movz", X0, R31, None, 6), I("add", X1, X0, None, 9),
    I("and", X0, X1, None, 3), I("lsl", X0, X1, None, 2) }

AllOf(t, mix) == \A k \in DOMAIN t : t[k].insn \in mix
MCFetchable(t) ==
  IF t = <<>> THEN MCStarts \cup MCOpens
  ELSE (IF t[1].insn \in MCStarts /\ AllOf(Tail(t), MCInsns) THEN MCInsns ELSE {})
         \cup (IF t[1].insn \in MCOpens /\ AllOf(Tail(t), MCMoves) THEN MCMoves ELSE {})

MCSnapshots == { {}, {0, 1} }
=============================================================================
