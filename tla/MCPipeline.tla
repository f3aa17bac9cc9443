----------------------------- MODULE MCPipeline -----------------------------
(***************************************************************************)
(* Cores for Pipeline: three stages with interrupts, NMIs and integrity      *)
(* errors; three stages with data-independent timing, where branches take    *)
(* two cycles and redirect the fetch from a flop, in the hands of a          *)
(* debugger; and two stages, where loads and stores wait in ID, with fetching *)
(* enabled and disabled at any time.                                         *)
(***************************************************************************)
EXTENDS Pipeline

Good(kinds) == {[kind |-> k, err |-> FALSE, use |-> FALSE] : k \in kinds}
Bad(kinds)  == {[kind |-> k, err |-> TRUE, use |-> FALSE] : k \in kinds}
Using(kinds) == {[kind |-> k, err |-> FALSE, use |-> TRUE] : k \in kinds}

AllInstrs ==
  Good(Kind) \cup Bad({"alu", "load", "jump", "csr", "ebreak", "mret", "wfi"})
    \cup Using({"alu", "taken", "load", "jump"})

\* Every kind, with fewer fetch errors and dependent instructions.
DebugInstrs == Good(Kind) \cup Bad({"alu", "ebreak"}) \cup Using({"alu", "taken"})

\* Enough to fill the pipeline, sleep, trap, return and enable interrupts.
LiveInstrs == Good({"mul", "csr", "load", "mret", "wfi"})

Traps3 ==
  [Instrs |-> AllInstrs, WritebackStage |-> TRUE, BranchTargetALU |-> TRUE,
   data_ind_timing |-> FALSE, TriggerPcs |-> {}, irq |-> BOOLEAN, nmi |-> BOOLEAN,
   dbg |-> {FALSE}, exec |-> {TRUE}, intg |-> BOOLEAN]
Debug3 ==
  [Instrs |-> DebugInstrs, WritebackStage |-> TRUE, BranchTargetALU |-> FALSE,
   data_ind_timing |-> TRUE, TriggerPcs |-> {3}, irq |-> BOOLEAN, nmi |-> {FALSE},
   dbg |-> BOOLEAN, exec |-> {TRUE}, intg |-> {FALSE}]
Two ==
  [Instrs |-> AllInstrs, WritebackStage |-> FALSE, BranchTargetALU |-> FALSE,
   data_ind_timing |-> FALSE, TriggerPcs |-> {3}, irq |-> BOOLEAN, nmi |-> {FALSE},
   dbg |-> BOOLEAN, exec |-> BOOLEAN, intg |-> {FALSE}]
Cores == [traps |-> Traps3, debug |-> Debug3, two |-> Two]
LiveCore == [live |-> [Traps3 EXCEPT !.Instrs = LiveInstrs]]
=============================================================================
