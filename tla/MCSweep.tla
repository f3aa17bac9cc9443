------------------------------ MODULE MCSweep ------------------------------
(* Command lines for Sweep: two points on two threads or one, and rejected ones. *)
EXTENDS Sweep

Line(t, s, w, j) == [top_passes |-> t, strategies |-> s, window_sizes |-> w, jobs |-> j]
MCArgs == {Line(<<1>>, <<"uniform">>, <<1, 2>>, 2), Line(<<4>>, <<"uniform", "tail_quad">>, <<1>>, 1),
           Line(<<1, 1>>, <<"uniform">>, <<1>>, 1), Line(<<1>>, <<"uniform">>, <<0>>, 1),
           Line(<<1>>, <<"other">>, <<1>>, 1), Line(<<1>>, <<"uniform">>, <<1>>, 0),
           Line(<<1>>, <<"uniform">>, <<1>>, -1)}
MCStrategies == {"uniform", "tail_linear", "tail_quad", "head_linear", "head_quad"}
============================================================================
