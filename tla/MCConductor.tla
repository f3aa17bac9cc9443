---------------------------- MODULE MCConductor ----------------------------
(* A small instance of Conductor: two properties of one step, with an      *)
(* engine each that do not fit into memory together, and a skipped one in  *)
(* a later step.                                                           *)
EXTENDS Conductor

CONSTANTS p0, p1, skip

MCProps == {p0, p1, skip}
MCStepOf == [p \in MCProps |-> IF p = skip THEN 1 ELSE 0]
MCCovers == <<{p0}, {p1}>>
MCJobs == 1 .. 4
IsEngine(j) == j % 2 = 0
MCPeak == [j \in MCJobs |-> IF IsEngine(j) THEN 5 ELSE 0]
MCEst == [j \in MCJobs |-> IF IsEngine(j) THEN 4 ELSE 1]
MCCodes == [j \in MCJobs |-> IF IsEngine(j) THEN {SAT, UNSAT} ELSE {0, 1}]

Prove(b, c, s) ==
  [mode |-> "prove", by_step |-> b, check_complete |-> c, start |-> s,
   hard |-> FALSE, fresh |-> FALSE, no_store |-> FALSE, no_run |-> FALSE, properties |-> MCProps]
Explore(h, f, n, r) ==
  [mode |-> "explore", by_step |-> FALSE, check_complete |-> FALSE, start |-> 0,
   hard |-> h, fresh |-> f, no_store |-> n, no_run |-> r, properties |-> MCProps]
\* -p p0
Only(a) == [a EXCEPT !.properties = {p0}]
AllArgs == {Prove(b, c, s) : b, c \in BOOLEAN, s \in 0 .. 1}
           \cup {Explore(TRUE, f, n, r) : f, n, r \in BOOLEAN}
           \cup {Explore(FALSE, FALSE, FALSE, TRUE)}
           \cup {[Explore(TRUE, FALSE, FALSE, FALSE) EXCEPT !.start = 1]}
           \cup {Only(Prove(FALSE, TRUE, 0)), Only(Explore(TRUE, FALSE, FALSE, FALSE)),
                 Only(Explore(FALSE, FALSE, FALSE, FALSE))}
============================================================================
