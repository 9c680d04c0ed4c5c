---------------------------- MODULE MCSceneRules ----------------------------
(* Rules of every kind of condition on two inputs and a lamp, the last list  *)
(* one that would go on for ever if the reports of outputs counted.          *)
EXTENDS SceneRules
CONSTANTS a, b, lamp

On(c, d, v) == [cond |-> c, dev |-> d, val |-> v]
Time(c, from, to) == [cond |-> c, start |-> from, end |-> to]
Rule(on, inputs, v) == [inputs |-> inputs, valid |-> TRUE, active |-> on,
                        outputs |-> <<[dev |-> lamp, val |-> v]>>]
If(inputs, v) == Rule(TRUE, inputs, v)
Inactive(inputs, v) == Rule(FALSE, inputs, v)

MCRuleLists == {
  << If(<<On("equal", a, 1), On("greater", b, 0)>>, 1),
     If(<<On("change", a, 0), On("less_or_equal", b, 0)>>, 0),
     Inactive(<<On("greater_or_equal", a, 1)>>, 0) >>,
  << If(<<On("change_over", a, 0)>>, 1),
     If(<<Time("in_range", 2, 4)>>, 1),
     If(<<Time("in_range_evday", 2, 3), On("less", a, 1)>>, 0) >>,
  << If(<<On("equal", lamp, 0)>>, 1),
     If(<<On("equal", lamp, 1)>>, 0),
     If(<<On("greater_or_equal", a, 1)>>, 0) >> }
=============================================================================
