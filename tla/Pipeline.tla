------------------------------- MODULE Pipeline -------------------------------
(***************************************************************************)
(* The pipeline of Ibex, one step per clock cycle: the instruction fetch as  *)
(* InstrStream promises it, the ID/EX and writeback stages, the controller   *)
(* and as much of the CSRs and of the load-store unit as they depend on.     *)
(*                                                                          *)
(* npc is what the pipeline is measured against: the address of the next     *)
(* instruction a machine would execute that runs one instruction at a time.  *)
(***************************************************************************)
EXTENDS Controller, FiniteSets

VARIABLES
  npc,       \* the next instruction of the sequential machine; None: in MRET, DRET
  steps      \* instructions run since debug mode was left with dcsr.step set

ctrlVars == <<ctrl_fsm_cs, load_err_q, store_err_q, debug_mode_q, nmi_mode_q,
              do_single_step_q, enter_debug_mode_prio_q, exc_req_q, illegal_insn_q,
              intg_err_irq_pending_q>>
csrVars  == <<irq_enabled, debug_single_step, ebreak_into_debug>>
pipeVars == <<pc_if, id, pc_id, id_fsm_q, branch_jump_set_done_q, branch_set_raw_q,
              wb, pc_wb, lsu_busy, lsu_owed>>
vars == <<config, ctrlVars, csrVars, pipeVars, npc, steps>>

Init ==
  /\ config \in DOMAIN Config
  /\ ctrl_fsm_cs = "RESET"
  /\ load_err_q = FALSE /\ store_err_q = FALSE
  /\ debug_mode_q = FALSE /\ nmi_mode_q = FALSE
  /\ do_single_step_q = FALSE /\ enter_debug_mode_prio_q = FALSE
  /\ exc_req_q = FALSE /\ illegal_insn_q = FALSE /\ intg_err_irq_pending_q = FALSE
  /\ irq_enabled = FALSE /\ debug_single_step = FALSE /\ ebreak_into_debug = FALSE
  /\ pc_if = BootPc /\ id = None /\ pc_id = BootPc
  /\ id_fsm_q = "FIRST_CYCLE"
  /\ branch_jump_set_done_q = FALSE /\ branch_set_raw_q = FALSE
  /\ wb = None /\ pc_wb = BootPc
  /\ lsu_busy = None /\ lsu_owed = None
  /\ npc = BootPc /\ steps = 0

\* This cycle's inputs, among those the core is wired to.  A response needs an access that is done requesting; the
\* corrupt one may also be to the first half of an access that still requests its second.  A result is awaited only
\* by a multiplication or division.
Inputs ==
  [irq : Config[config].irq, nmi : Config[config].nmi, dbg : Config[config].dbg,
   exec : Config[config].exec,
   fetch : BOOLEAN,   \* IF has an instruction
   done : IF lsu_busy # None \/ lsu_req_dec THEN BOOLEAN ELSE {FALSE},
   resp : IF lsu_owed # None /\ lsu_busy = None THEN {"none", "ok", "err"} ELSE {"none"},
   intg : IF lsu_owed # None \/ lsu_busy # None THEN Config[config].intg ELSE {FALSE},
   ex : IF multdiv_en_dec THEN BOOLEAN ELSE {TRUE}]

\* Where MRET and DRET may return to: software can write mepc and dpc.
Returns == IF ctrl_fsm_cs = "FLUSH" /\ Is({"mret", "dret"}) THEN Pcs ELSE {BootPc}

\* What the controller may put out.
Outputs(i) == {Ctrl(i, t) : t \in Returns}

-----------------------------------------------------------------------------
(* The sequential machine.  An instruction has executed when it leaves ID    *)
(* for good, a load or store when it is answered.                            *)

wb_executes(i) == WritebackStage /\ wb_mem /\ i.resp = "ok"

Traps == Is({"ecall", "ebreak"}) \/ illegal_insn \/ instr_fetch_err

id_executes(i) ==
  /\ instr_id_done(i) /\ ~Traps
  /\ lsu_req_dec => ~WritebackStage /\ i.resp = "ok"

npc_after_wb(i) == IF wb_executes(i) THEN After(pc_wb, 1) ELSE npc

npc_after(i) ==
  IF ~id_executes(i) THEN npc_after_wb(i)
  ELSE IF Is({"mret", "dret"}) THEN None
  ELSE After(pc_id, IF Is({"taken", "jump"}) THEN 2 ELSE 1)

saved_pc(c) ==
  CASE c.csr_save = "if" -> pc_if
    [] c.csr_save = "id" -> pc_id
    [] c.csr_save = "wb" -> pc_wb

SequentialMachine(i, c) ==
  /\ npc' = IF c.pc_set /\ ctrl_fsm_cs # "DECODE" THEN c.pc ELSE npc_after(i)
  /\ steps' = IF debug_mode_q \/ ~debug_single_step THEN 0
              ELSE steps + (IF wb_executes(i) THEN 1 ELSE 0)
                         + (IF id_executes(i) THEN 1 ELSE 0)
                         + (IF c.csr_save # "none" /\ ~c.debug_csr_save THEN 1 ELSE 0)

-----------------------------------------------------------------------------
(* The registers.                                                            *)

FetchStage(i, c) ==
  IF i.fetch /\ ~c.pc_set /\ id_in_ready(i, c)
  THEN pc_if' = After(pc_if, 1) /\ pc_id' = pc_if /\ id' \in Instrs
  ELSE /\ pc_if' = IF c.pc_set THEN c.pc ELSE pc_if
       /\ id' = IF instr_valid_clear(i, c) THEN None ELSE id
       /\ UNCHANGED pc_id

\* (faulty variant: an instruction that may not execute yet moves on)
IdRegisters_eager(i, c) ==
  /\ id_fsm_q' = id_fsm_d(i)
  /\ branch_set_raw_q' = branch_set_raw_d
  /\ branch_jump_set_done_q' =
       /\ branch_set_raw \/ jump_set_raw \/ branch_jump_set_done_q
       /\ ~instr_valid_clear(i, c)

IdRegisters(i, c) ==
  /\ id_fsm_q' = IF instr_executing(i) THEN id_fsm_d(i) ELSE id_fsm_q
  /\ branch_set_raw_q' = branch_set_raw_d
  /\ branch_jump_set_done_q' =
       /\ branch_set_raw \/ jump_set_raw \/ branch_jump_set_done_q
       /\ ~instr_valid_clear(i, c)

WbRegisters(i) ==
  IF WritebackStage /\ en_wb(i)
  THEN wb' = (IF lsu_req_dec THEN id.kind ELSE "other") /\ pc_wb' = pc_id
  ELSE wb' = (IF wb_done(i) THEN None ELSE wb) /\ UNCHANGED pc_wb

\* The load-store unit as LoadStoreUnit shows it to the pipeline.
Lsu(i) ==
  LET access == IF lsu_busy # None THEN lsu_busy
                ELSE IF lsu_req(i) THEN id.kind ELSE None
  IN IF lsu_req_done(i) THEN lsu_busy' = None /\ lsu_owed' = access
     ELSE /\ lsu_busy' = access
          /\ lsu_owed' = IF lsu_resp_valid(i) THEN None ELSE lsu_owed

ControllerRegisters(i, c) ==
  /\ ctrl_fsm_cs' = c.ns
  /\ debug_mode_q' = c.debug_mode
  /\ nmi_mode_q' = c.nmi_mode
  /\ do_single_step_q' = do_single_step_d
  /\ enter_debug_mode_prio_q' = enter_debug_mode_prio_d(i)
  /\ load_err_q' = load_err(i)
  /\ store_err_q' = store_err(i)
  /\ exc_req_q' = exc_req_d
  /\ illegal_insn_q' = illegal_insn_d
  /\ intg_err_irq_pending_q' =
       IF intg_err_irq_pending_q THEN ~(c.nmi_mode /\ ~nmi_mode_q /\ ~i.nmi)
       ELSE i.intg

\* A trap disables interrupts; MRET, DRET and CSR writes set what they like,
\* CSR writes dcsr only in debug mode.
Csrs(i, c) ==
  /\ IF c.csr_save # "none" /\ ~c.debug_csr_save /\ ~debug_mode_q
     THEN irq_enabled' = FALSE
     ELSE IF c.restore # "none" \/ csr_pipe_flush(i)
     THEN irq_enabled' \in BOOLEAN
     ELSE irq_enabled' = irq_enabled
  /\ IF csr_pipe_flush(i) /\ debug_mode_q
     THEN debug_single_step' \in BOOLEAN /\ ebreak_into_debug' \in BOOLEAN
     ELSE UNCHANGED <<debug_single_step, ebreak_into_debug>>

Cycle(i, c) ==
  /\ IdRegisters(i, c)
  /\ WbRegisters(i)
  /\ Lsu(i)
  /\ ControllerRegisters(i, c)
  /\ SequentialMachine(i, c)
  /\ Csrs(i, c)
  /\ FetchStage(i, c)
  /\ UNCHANGED config

Next == \E i \in Inputs : \E c \in Outputs(i) : Cycle(i, c)

Spec == Init /\ [][Next]_vars

-----------------------------------------------------------------------------
(* Properties.  What holds of a cycle is stated for every input it may have.  *)

\* Instructions execute in program order, each once and none skipped: whatever
\* is not what the sequential machine executes next does not execute.
InOrder ==
  \A i \in Inputs : /\ pc_wb # npc => ~wb_executes(i)
                    /\ pc_id # npc_after_wb(i) => ~id_executes(i)

\* The pc that is saved is that of the next instruction to execute.
PreciseTraps ==
  \A i \in Inputs : \A c \in Outputs(i) :
    c.csr_save # "none" => saved_pc(c) = npc /\ ~wb_executes(i) /\ ~id_executes(i)

\* The cause is that of the instruction whose pc is saved.
ExceptionCause ==
  LET lsu   == load_err_q \/ store_err_q
      cause == IF instr_fetch_err THEN "fetch"
               ELSE IF illegal_insn THEN "illegal" ELSE id.kind
  IN  ctrl_fsm_cs = "FLUSH" =>
        /\ ~lsu => (exc_req_q <=> Traps)
        /\ ~lsu /\ exc_req_q => exc_prio = cause
        /\ lsu => exc_prio = IF store_err_q THEN "store" ELSE "load"

\* Nothing is left in the pipeline, or outstanding, when it must be empty.
Drained ==
  /\ ctrl_fsm_cs = "IRQ_TAKEN" => id = None /\ ~wb_mem
  /\ ~controller_run => lsu_busy = None /\ lsu_owed = None

\* Traps are precise: the pc saved for an exception, an interrupt or debug mode
\* is that of the next instruction to execute, and none executes as it is saved;
\* the cause reported in FLUSH is that of this very instruction; an interrupt is
\* taken with an empty pipeline (PipeEmptyOnIrq), and the core sleeps, flushes
\* and enters debug mode with no access outstanding.
TrapsPrecise == PreciseTraps /\ ExceptionCause /\ Drained

\* Memory is accessed only by the instruction that is next to execute, and the
\* access belongs to it until it is answered: while it requests it is held in ID,
\* while it is owed an answer it is in WB (in ID without a writeback stage), and
\* there is one at a time.
AccessesOwned ==
  /\ \A i \in Inputs : pc_id # npc_after_wb(i) \/ Traps => ~lsu_req(i)
  /\ lsu_busy # None => /\ id # None /\ id.kind = lsu_busy /\ controller_run
                        /\ lsu_owed = None
  /\ IF WritebackStage THEN lsu_owed = IF wb_mem THEN wb ELSE None
     ELSE lsu_owed # None => id # None /\ id.kind = lsu_owed /\ controller_run

\* A hardware breakpoint stops the core before the instruction is in ID, and
\* single-stepping runs at most one instruction before debug mode is entered.
DebugStops ==
  /\ id # None /\ pc_id \in TriggerPcs => debug_mode_q
  /\ steps <= 1
=============================================================================
