--------------------------- MODULE MCControlFlow ---------------------------
(* The programs whose calls and queries TLC walks through: every program of  *)
(* three instructions, and a few longer ones chosen for their call shapes.    *)
EXTENDS ControlQueries

MCOutside == 99

Insn(kind, to, seen) == [kind |-> kind, to |-> to, seen |-> seen]
Nop == Insn("nop", {}, TRUE)
Hidden == Insn("nop", {}, FALSE)
Cond(to) == Insn("b.cond", {to}, TRUE)
B(to) == Insn("b", {to}, TRUE)
Bl(to) == Insn("bl", {to}, TRUE)
Ret == Insn("ret", {}, TRUE)

\* Every program of three instructions that ends in a return or a tail call.
Tiny ==
  {p \in [1 .. 3 -> {Nop, Hidden, Ret} \cup {Cond(t) : t \in 1 .. 3} \cup {Bl(t) : t \in {1, 3, MCOutside}}
                    \cup {Insn("blr", {2, MCOutside}, TRUE), Insn("br", {1, MCOutside}, TRUE)}] :
     p[3].kind \in {"ret", "br"} /\ p[1].seen}

\* A loop around a call, a call from a callee and a tail call; mutual recursion; a shared return.
Large == {
  <<Nop, Bl(5), Cond(1), Ret, Cond(7), Bl(7), Nop, Ret>>,
  <<Insn("blr", {4, 6}, TRUE), Cond(1), Ret, Bl(6), Ret, Cond(8), Hidden, Ret>>,
  <<Bl(4), Bl(4), Ret, Cond(6), Bl(4), Ret>>,
  <<Bl(3), Ret, Nop, Bl(6), Insn("br", {6, MCOutside}, TRUE), Cond(3), Ret>>}

MCLayouts == {<<[base |-> 1, end |-> 4], [base |-> 5, end |-> 9]>>,
              <<[base |-> 4, end |-> 7], [base |-> 1, end |-> 3]>>}

MCPrograms == Tiny \cup Large
=============================================================================
