------------------------------ MODULE Controller ------------------------------
(***************************************************************************)
(* The controller of Ibex (rtl/ibex_controller.sv): which exception,         *)
(* interrupt or debug request is taken and when, and what the FSM tells the  *)
(* other stages in this cycle.  Its outputs form a record: the next state,   *)
(* whether and to where the fetch is redirected, whether IF is halted and ID *)
(* retained or flushed, which pc the CSRs save and with which cause, and the *)
(* next debug and NMI modes.                                                 *)
(*                                                                          *)
(* Inputs: i.irq, i.nmi and i.dbg are a pending interrupt, an external NMI   *)
(* and a debug request, i.intg a corrupt memory response, i.exec tells that  *)
(* fetching is enabled.                                                      *)
(***************************************************************************)
EXTENDS IdStage

CONSTANTS BootPc, ExcPc, IrqPc, DbgPc, DbgExcPc   \* where the core may be sent

VARIABLES
  nmi_mode_q, do_single_step_q, enter_debug_mode_prio_q, exc_req_q, illegal_insn_q,
  intg_err_irq_pending_q,  \* mem_resp_intg_err_irq_pending_q
  irq_enabled,             \* mstatus.MIE, or the core is in U-mode
  debug_single_step,       \* dcsr.step
  ebreak_into_debug,       \* dcsr.ebreakm, or ebreaku in U-mode
  pc_if                    \* the address of the instruction in IF

ASSUME VectorsAssumption ==
  /\ {BootPc, ExcPc, IrqPc, DbgPc, DbgExcPc} \subseteq Pcs
  /\ \A n \in DOMAIN Config : Config[n].TriggerPcs \subseteq Pcs
TriggerPcs == Config[config].TriggerPcs   \* hardware breakpoints

FsmState == {"RESET", "BOOT_SET", "WAIT_SLEEP", "SLEEP", "FIRST_FETCH", "DECODE",
             "FLUSH", "IRQ_TAKEN", "DBG_TAKEN_IF", "DBG_TAKEN_ID"}

-----------------------------------------------------------------------------
(* Requests.                                                                 *)

illegal_insn_d == illegal_insn /\ ctrl_fsm_cs # "FLUSH"

exc_req_lsu(i) == store_err(i) \/ load_err(i)

special_req(i) ==
  Is({"mret", "dret", "wfi"}) \/ csr_pipe_flush(i) \/ exc_req_d \/ exc_req_lsu(i)

id_wb_pending(i) == instr_valid \/ ~ready_wb(i)

\* The exception that takes priority, as its cause.  An error in writeback is
\* that of the older instruction.
id_prio ==
  IF instr_fetch_err THEN "fetch"
  ELSE IF illegal_insn_q THEN "illegal"
  ELSE IF Is({"ecall"}) THEN "ecall"
  ELSE IF Is({"ebreak"}) THEN "ebreak"
  ELSE "none"

lsu_prio == IF store_err_q THEN "store" ELSE IF load_err_q THEN "load" ELSE "none"

exc_prio ==
  LET first  == IF WritebackStage THEN lsu_prio ELSE id_prio
      second == IF WritebackStage THEN id_prio ELSE lsu_prio
  IN  IF first # "none" THEN first ELSE second

trigger_match == pc_if \in TriggerPcs

\* (faulty variant: forgotten as soon as the instruction has left ID)
do_single_step_d_not_held == instr_valid /\ ~debug_mode_q /\ debug_single_step

do_single_step_d ==
  IF instr_valid THEN ~debug_mode_q /\ debug_single_step ELSE do_single_step_q

enter_debug_mode_prio_d(i) == (i.dbg \/ do_single_step_d) /\ ~debug_mode_q
enter_debug_mode(i) ==
  enter_debug_mode_prio_d(i) \/ (trigger_match /\ ~debug_mode_q)

irq_nm(i) == i.nmi \/ intg_err_irq_pending_q

handle_irq(i) ==
  /\ ~debug_mode_q /\ ~debug_single_step /\ ~nmi_mode_q
  /\ irq_nm(i) \/ (i.irq /\ irq_enabled)

-----------------------------------------------------------------------------
(* The FSM, one operator per state.                                          *)

Idle ==
  [ns |-> ctrl_fsm_cs, instr_req |-> TRUE, pc_set |-> FALSE, pc |-> BootPc,
   halt_if |-> FALSE, retain_id |-> FALSE, flush_id |-> FALSE,
   csr_save |-> "none", debug_csr_save |-> FALSE, exc_cause |-> "none",
   restore |-> "none", debug_mode |-> debug_mode_q, nmi_mode |-> nmi_mode_q]

Boot(next) == [Idle EXCEPT !.ns = next, !.pc_set = TRUE, !.pc = BootPc,
                           !.instr_req = ctrl_fsm_cs = "BOOT_SET"]

Asleep(next) == [Idle EXCEPT !.ns = next, !.instr_req = FALSE,
                             !.halt_if = TRUE, !.flush_id = TRUE]

\* (faulty variant: only an NMI or the debugger wakes the core up)
wakes_up_nmi_only(i) == irq_nm(i) \/ i.dbg \/ debug_mode_q \/ debug_single_step

wakes_up(i) == irq_nm(i) \/ i.irq \/ i.dbg \/ debug_mode_q \/ debug_single_step

FirstFetch(i) ==
  LET next == IF enter_debug_mode(i) THEN "DBG_TAKEN_IF"
              ELSE IF handle_irq(i) THEN "IRQ_TAKEN"
              ELSE IF ~stall(i) /\ i.exec THEN "DECODE"
              ELSE "FIRST_FETCH"
  IN [Idle EXCEPT !.ns = next, !.halt_if = enter_debug_mode(i) \/ handle_irq(i)]

\* (faulty variant: IF is halted only once the pipeline happens to be empty)
Decode_no_halt(i) ==
  LET flush == special_req(i) /\ (ready_wb(i) \/ wb_exception(i))
      free  == ~stall(i) /\ ~special_req(i) /\ ~id_wb_pending(i)
      next  == IF flush THEN "FLUSH"
               ELSE IF free /\ enter_debug_mode(i) THEN "DBG_TAKEN_IF"
               ELSE IF free /\ handle_irq(i) THEN "IRQ_TAKEN"
               ELSE "DECODE"
  IN [Idle EXCEPT
        !.ns = next,
        !.retain_id = special_req(i),
        !.pc_set = branch_set \/ jump_set,
        !.pc = branch_target,
        !.halt_if = free /\ (enter_debug_mode(i) \/ handle_irq(i))]

Decode(i) ==
  LET flush == special_req(i) /\ (ready_wb(i) \/ wb_exception(i))
      free  == ~stall(i) /\ ~special_req(i) /\ ~id_wb_pending(i)
      next  == IF flush THEN "FLUSH"
               ELSE IF free /\ enter_debug_mode(i) THEN "DBG_TAKEN_IF"
               ELSE IF free /\ handle_irq(i) THEN "IRQ_TAKEN"
               ELSE "DECODE"
  IN [Idle EXCEPT
        !.ns = next,
        !.retain_id = special_req(i),
        !.pc_set = branch_set \/ jump_set,
        !.pc = branch_target,
        !.halt_if = /\ enter_debug_mode(i) \/ handle_irq(i)
                    /\ stall(i) \/ id_wb_pending(i) \/ free]

\* The interrupt may be gone by now.
IrqTaken(i) ==
  IF handle_irq(i)
  THEN [Idle EXCEPT !.ns = "DECODE", !.pc_set = TRUE, !.pc = IrqPc,
                    !.csr_save = "if", !.exc_cause = "irq",
                    !.nmi_mode = nmi_mode_q \/ irq_nm(i)]
  ELSE [Idle EXCEPT !.ns = "DECODE"]

DebugTaken == [Idle EXCEPT !.ns = "DECODE", !.flush_id = TRUE, !.pc_set = TRUE,
                           !.pc = DbgPc, !.debug_mode = TRUE]

DbgTakenIf == [DebugTaken EXCEPT !.csr_save = "if", !.debug_csr_save = TRUE]

\* EBREAK in debug mode leaves dpc and dcsr alone.
DbgTakenId ==
  IF ebreak_into_debug /\ ~debug_mode_q
  THEN [DebugTaken EXCEPT !.csr_save = "id", !.debug_csr_save = TRUE]
  ELSE DebugTaken

ebreak_to_debug == exc_prio = "ebreak" /\ (debug_mode_q \/ ebreak_into_debug)

\* (faulty variant: the pc in ID is saved for the error of an access in WB)
FlushException_save_id ==
  [Idle EXCEPT !.pc_set = TRUE,
               !.pc = IF debug_mode_q THEN DbgExcPc ELSE ExcPc,
               !.csr_save = "id",
               !.exc_cause = exc_prio]

FlushException ==
  [Idle EXCEPT !.pc_set = TRUE,
               !.pc = IF debug_mode_q THEN DbgExcPc ELSE ExcPc,
               !.csr_save = IF WritebackStage /\ (store_err_q \/ load_err_q)
                            THEN "wb" ELSE "id",
               !.exc_cause = exc_prio]

\* t is where MRET or DRET returns to (mepc, dpc).
FlushSpecial(t) ==
  CASE Is({"mret"}) -> [Idle EXCEPT !.pc_set = TRUE, !.pc = t, !.restore = "mret",
                                    !.nmi_mode = FALSE]
    [] Is({"dret"}) -> [Idle EXCEPT !.pc_set = TRUE, !.pc = t, !.restore = "dret",
                                    !.debug_mode = FALSE]
    [] OTHER        -> Idle

Flush(t) ==
  LET exc  == exc_req_q \/ store_err_q \/ load_err_q
      out  == IF ~exc THEN FlushSpecial(t)
              ELSE IF ebreak_to_debug THEN Idle ELSE FlushException
      next == IF enter_debug_mode_prio_q /\ ~(exc_prio = "ebreak" /\ ebreak_into_debug)
              THEN "DBG_TAKEN_IF"
              ELSE IF exc /\ ebreak_to_debug THEN "DBG_TAKEN_ID"
              ELSE IF ~exc /\ Is({"wfi"}) THEN "WAIT_SLEEP"
              ELSE "DECODE"
  IN [out EXCEPT !.ns = next, !.halt_if = TRUE,
                 !.flush_id = ~(exc /\ ebreak_to_debug)]

FsmOut(i, t) ==
  CASE ctrl_fsm_cs = "RESET"        -> Boot("BOOT_SET")
    [] ctrl_fsm_cs = "BOOT_SET"     -> Boot("FIRST_FETCH")
    [] ctrl_fsm_cs = "WAIT_SLEEP"   -> Asleep("SLEEP")
    [] ctrl_fsm_cs = "SLEEP"        -> Asleep(IF wakes_up(i) THEN "FIRST_FETCH" ELSE "SLEEP")
    [] ctrl_fsm_cs = "FIRST_FETCH"  -> FirstFetch(i)
    [] ctrl_fsm_cs = "DECODE"       -> Decode(i)
    [] ctrl_fsm_cs = "IRQ_TAKEN"    -> IrqTaken(i)
    [] ctrl_fsm_cs = "DBG_TAKEN_IF" -> DbgTakenIf
    [] ctrl_fsm_cs = "DBG_TAKEN_ID" -> DbgTakenId
    [] ctrl_fsm_cs = "FLUSH"        -> Flush(t)

\* With fetching disabled IF is halted in every state.
Ctrl(i, t) == [FsmOut(i, t) EXCEPT !.halt_if = @ \/ ~i.exec]

id_in_ready(i, c)       == ~stall(i) /\ ~c.halt_if /\ ~c.retain_id
instr_valid_clear(i, c) == ~(stall(i) \/ c.retain_id) \/ c.flush_id
=============================================================================
