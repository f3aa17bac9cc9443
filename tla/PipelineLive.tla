---------------------------- MODULE PipelineLive ----------------------------
(***************************************************************************)
(* The pipeline with an interrupt that arrives at some time and stays        *)
(* pending, and the fairness that the clock, the fetch and the units behind  *)
(* the pipeline give it.                                                     *)
(***************************************************************************)
EXTENDS MCPipeline

VARIABLE irq_q   \* the interrupt has arrived

liveVars == <<vars, irq_q>>

Tick(i, c) ==
  /\ irq_q => i.irq
  /\ irq_q' = i.irq
  /\ Cycle(i, c)

LiveNext == \E i \in Inputs : \E c \in Outputs(i) : Tick(i, c)

\* No NMI, debug request or integrity error need ever arrive.
Quiet(i) == ~i.nmi /\ ~i.dbg /\ ~i.intg

\* IF has an instruction and ID takes it.
Accepts(i, c) == i.fetch /\ ~c.pc_set /\ id_in_ready(i, c)

\* The clock ticks.  IF sooner or later has an instruction for an ID stage that
\* is ready again and again: it holds one until it is taken.  The load-store
\* unit and the multiplier finish.
Fairness ==
  /\ WF_vars(\E i \in Inputs : Quiet(i) /\ \E c \in Outputs(i) : Tick(i, c))
  /\ SF_vars(\E i \in Inputs : \E c \in Outputs(i) : Accepts(i, c) /\ Tick(i, c))
  /\ WF_vars(\E i \in Inputs : lsu_req_done(i) /\ \E c \in Outputs(i) : Tick(i, c))
  /\ WF_vars(\E i \in Inputs : lsu_resp_valid(i) /\ \E c \in Outputs(i) : Tick(i, c))
  /\ WF_vars(\E i \in Inputs : multdiv_en_dec /\ i.ex /\ \E c \in Outputs(i) : Tick(i, c))

LiveSpec == Init /\ irq_q = FALSE /\ [][LiveNext]_liveVars /\ Fairness

-----------------------------------------------------------------------------
(* Properties.                                                               *)

\* An interrupt that arrives at any time and stays pending is taken, whatever the
\* pipeline is doing, unless interrupts are disabled, or the core is in debug or
\* NMI mode or steps: IF does not keep the pipeline busy for ever.  A corrupt
\* memory response is sooner or later reported by an NMI.
Serviced ==
  /\ irq_q ~> \/ ctrl_fsm_cs = "IRQ_TAKEN" \/ ~irq_enabled
              \/ debug_mode_q \/ nmi_mode_q \/ debug_single_step
  /\ intg_err_irq_pending_q ~> nmi_mode_q

\* The stages never wait for each other: with an interrupt pending, even WFI does
\* not stop instructions from executing or trapping.
Progress == []<>~irq_q \/ []<><<npc' # npc \/ ctrl_fsm_cs = "FLUSH">>_vars
=============================================================================
