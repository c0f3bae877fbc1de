--------------------------- MODULE MCMemoryQuery ---------------------------
(* MemoryQuery on every trace of a few records out of a small mix.          *)
EXTENDS MemoryQuery

Op(a, bs, write) == [addr |-> a, bytes |-> bs, write |-> write, excl |-> FALSE, done |-> TRUE]
Store(a, bs) == <<Op(a, bs, TRUE)>>
Load(a, n) == <<Op(a, [k \in 1..n |-> 0], FALSE)>>
Exclusive(a, b, done) == <<[Op(a, <<b>>, TRUE) EXCEPT !.excl = TRUE, !.done = done]>>

(* A store of each value, a pair store, a store of two bytes, exclusive     *)
(* stores that succeed and fail, a load of two bytes.                       *)
MCInsns ==
  { Store(0, <<1>>), Store(1, <<0>>), Store(0, <<1, 0>>),
    Store(1, <<1>>) \o Store(2, <<1>>),
    Exclusive(1, 1, TRUE), Exclusive(1, 1, FALSE), Load(1, 2) }

Args(dst, src, fill, len) == [dst |-> dst, src |-> src, fill |-> fill, len |-> len, back |-> TRUE]

(* An overlapping copy and a fill.                                          *)
MCCalls == { Args(1, 0, None, 2), Args(1, None, 1, 2) }

MCSnapshots == { {0, 1} }
MCWindows == { <<>>, <<0, 1>> }
MCPrintable(b) == b = 1
MCPatterns == { <<1>>, <<1, 0>>, <<1, 1>> }
=============================================================================
