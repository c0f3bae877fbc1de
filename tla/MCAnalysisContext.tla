------------------------- MODULE MCAnalysisContext -------------------------
(* Two processes on one trace: two threads of the first share two contexts, *)
(* the thread of the other has one.                                         *)
EXTENDS AnalysisContext
CONSTANTS p1, p2, t1, t2, u, a, b, c, x

MCProcessOf == [k \in {t1, t2, u, a, b, c} |-> IF k \in {u, c} THEN p2 ELSE p1]
MCTraceOf == [k \in {a, b, c} |-> x]
MCAsked == {<<a, "cfg">>, <<a, "mem">>, <<b, "cfg">>, <<c, "mem">>}
=============================================================================
