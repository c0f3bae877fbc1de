------------------------- MODULE MCDependencyQuery -------------------------
(* DependencyQuery on every trace of a few records out of a small mix.      *)
EXTENDS DependencyQuery

Plain == [def |-> {}, use |-> {}, addr |-> {}, data |-> {}, reads |-> {},
          writes |-> {}, flow |-> "next"]

(* x := x + y; y := a constant; an exclusive store of x to [y], whose       *)
(* status goes to x; a load of x from [x] that covers two bytes; a branch   *)
(* on x; a call through x.                                                  *)
MCRecords ==
  { [Plain EXCEPT !.def = {"x"}, !.use = {"x", "y"}],
    [Plain EXCEPT !.def = {"y"}],
    [Plain EXCEPT !.def = {"x"}, !.use = {"x", "y"}, !.addr = {"y"}, !.data = {"x"}, !.writes = {{"b1"}}],
    [Plain EXCEPT !.def = {"x"}, !.use = {"x"}, !.addr = {"x"}, !.reads = {{"b1", "b2"}}],
    [Plain EXCEPT !.use = {"x"}, !.flow = "cond"],
    [Plain EXCEPT !.flow = "call", !.use = {"x"}] }

Asked(s, forward, intersect, dataOnly, depth, cap) ==
  [seeds |-> s, forward |-> forward, intersect |-> intersect, dataOnly |-> dataOnly,
   depth |-> depth, cap |-> cap]

MCQueries ==
  { Asked(<<4>>, FALSE, FALSE, FALSE, Unlimited, 9),
    Asked(<<4, 3>>, FALSE, FALSE, FALSE, Unlimited, 9),
    Asked(<<4>>, FALSE, FALSE, TRUE, 1, 9),
    Asked(<<4, 3, 4>>, FALSE, FALSE, FALSE, 2, 3),
    Asked(<<4, 3>>, FALSE, TRUE, FALSE, Unlimited, 9),
    Asked(<<4, 3>>, FALSE, TRUE, FALSE, 1, 2),
    Asked(<<3, 9>>, FALSE, TRUE, FALSE, Unlimited, 9),
    Asked(<<9, 3>>, FALSE, FALSE, FALSE, Unlimited, 9),
    Asked(<<9>>, FALSE, TRUE, FALSE, Unlimited, 9),
    Asked(<<1>>, TRUE, FALSE, FALSE, Unlimited, 9),
    Asked(<<1>>, TRUE, FALSE, TRUE, 1, 9),
    Asked(<<2, 1>>, TRUE, FALSE, FALSE, Unlimited, 3),
    Asked(<<1, 2>>, TRUE, TRUE, TRUE, Unlimited, 9) }
=============================================================================
