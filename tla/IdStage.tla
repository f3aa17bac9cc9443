------------------------------- MODULE IdStage -------------------------------
(***************************************************************************)
(* The ID/EX stage of Ibex (rtl/ibex_id_stage.sv) and the writeback stage    *)
(* behind it (rtl/ibex_wb_stage.sv): their registers and, as functions of    *)
(* these and of this cycle's inputs, the signals that decide whether the     *)
(* instruction in ID executes, stalls, requests memory or is done.           *)
(*                                                                          *)
(* An instruction is its kind, whether its fetch failed (its kind is then    *)
(* what the garbage decodes to) and whether it reads the register that the   *)
(* instruction before it writes.  i is the record of this cycle's inputs:    *)
(* done and resp come from the load-store unit (resp is "none", "ok" or      *)
(* "err"), ex tells that the ALU or multiplier has its result.               *)
(***************************************************************************)
EXTENDS Naturals

CONSTANTS
  NumPcs,           \* the addresses are 0 .. NumPcs - 1, one per instruction
  Config,           \* the cores: from names to the parameters below
  None

VARIABLES
  config,                  \* the name of the core this is; it never changes
  ctrl_fsm_cs,             \* the controller's state
  load_err_q, store_err_q, \* the load-store unit failed in the last cycle
  id, pc_id,               \* the instruction in ID, or None; its pc stays when it leaves
  id_fsm_q,
  branch_jump_set_done_q,  \* it has already redirected the fetch
  branch_set_raw_q,
  debug_mode_q,
  wb, pc_wb,               \* the same for WB, where only the type is kept
  lsu_busy,                \* an access that is requesting, or None
  lsu_owed                 \* an access that is done requesting and unanswered, or None

Pcs == 0 .. NumPcs - 1
After(pc, n) == (pc + n) % NumPcs

Kind == {"alu", "alu2", "mul", "csr", "load", "store", "branch", "taken", "jump",
         "fence_i", "ecall", "ebreak", "illegal", "mret", "dret", "wfi"}
Instr == [kind : Kind, err : BOOLEAN, use : BOOLEAN]

\* The instructions for which the decoder leaves rf_ren_a and rf_ren_b at zero.
ReadsNothing == {"fence_i", "ecall", "ebreak", "mret", "dret", "wfi"}

ASSUME ConfigAssumption ==
  /\ NumPcs \in Nat /\ NumPcs >= 3
  /\ \A n \in DOMAIN Config :
       /\ Config[n].Instrs \subseteq Instr
       /\ \A r \in Config[n].Instrs : r.kind \in ReadsNothing => ~r.use
       /\ {Config[n].WritebackStage, Config[n].BranchTargetALU,
           Config[n].data_ind_timing} \subseteq BOOLEAN
  /\ None \notin Instr \cup Kind \cup {"other"}

Instrs          == Config[config].Instrs           \* what its programs are made of
WritebackStage  == Config[config].WritebackStage   \* is there a third pipeline stage?
BranchTargetALU == Config[config].BranchTargetALU  \* is there an adder for branch targets?
data_ind_timing == Config[config].data_ind_timing  \* is data-independent timing on?

-----------------------------------------------------------------------------
(* What the decoder says of the instruction in ID.                           *)

instr_valid     == id # None
Is(kinds)       == instr_valid /\ id.kind \in kinds
instr_fetch_err == instr_valid /\ id.err
lsu_req_dec     == Is({"load", "store"})
multdiv_en_dec  == Is({"mul"})
branch_in_dec   == Is({"branch", "taken"})
jump_in_dec     == Is({"jump", "fence_i"})
branch_decision == Is({"taken"})

\* DRET is illegal outside debug mode.
illegal_insn == Is({"illegal"}) \/ (Is({"dret"}) /\ ~debug_mode_q)

\* Where the instruction leads: a taken branch or jump two instructions on; FENCE.I
\* (a jump) and, with data-independent timing, a branch not taken to the next one.
branch_target == After(pc_id, IF Is({"taken", "jump"}) THEN 2 ELSE 1)

-----------------------------------------------------------------------------
(* The writeback stage.                                                      *)

lsu_resp_valid(i) == i.resp # "none"
lsu_resp_err(i)   == i.resp = "err"

wb_mem      == wb \in {"load", "store"}

\* (faulty variant: a store does not wait for its response)
wb_done_posted(i) == wb # "load" \/ lsu_resp_valid(i)

wb_done(i)  == ~wb_mem \/ lsu_resp_valid(i)
ready_wb(i) == ~WritebackStage \/ wb_done(i)

\* An error is signalled for the access the load-store unit has outstanding.
load_err(i)  == lsu_resp_err(i) /\ lsu_owed = "load"
store_err(i) == lsu_resp_err(i) /\ lsu_owed = "store"

-----------------------------------------------------------------------------
(* Exceptions as far as they hold back the instruction in ID.                *)

controller_run == ctrl_fsm_cs = "DECODE"

exc_req_d ==
  /\ Is({"ecall", "ebreak"}) \/ illegal_insn \/ instr_fetch_err
  /\ ctrl_fsm_cs # "FLUSH"

wb_exception(i) ==
  WritebackStage /\ (load_err_q \/ store_err_q \/ load_err(i) \/ store_err(i))

id_exception(i) == exc_req_d /\ ~wb_exception(i)

-----------------------------------------------------------------------------
(* Executing.                                                                *)

outstanding_memory_access(i) == WritebackStage /\ wb_mem /\ ~lsu_resp_valid(i)

stall_ld_hz ==
  WritebackStage /\ wb = "load" /\ instr_valid /\ id.use

instr_kill(i) ==
  instr_fetch_err \/ wb_exception(i) \/ id_exception(i) \/ ~controller_run

instr_executing_spec ==
  instr_valid /\ ~instr_fetch_err /\ controller_run /\ ~stall_ld_hz

instr_executing(i) ==
  IF WritebackStage
  THEN instr_valid /\ ~instr_kill(i) /\ ~stall_ld_hz /\ ~outstanding_memory_access(i)
  ELSE instr_executing_spec

FirstCycle == id_fsm_q = "FIRST_CYCLE"

data_req_allowed(i) ==
  IF WritebackStage THEN ~outstanding_memory_access(i) ELSE FirstCycle

lsu_req(i) == instr_executing(i) /\ data_req_allowed(i) /\ lsu_req_dec

\* The load-store unit finishes only a request that is made or under way.
lsu_req_done(i) == i.done /\ (lsu_req(i) \/ lsu_busy # None)

stall_mem(i) ==
  /\ instr_valid
  /\ IF WritebackStage
     THEN outstanding_memory_access(i) \/ (lsu_req_dec /\ ~lsu_req_done(i))
     ELSE lsu_req_dec /\ (~lsu_resp_valid(i) \/ FirstCycle)

multicycle_done(i) ==
  IF lsu_req_dec
  THEN IF WritebackStage THEN ~stall_mem(i) ELSE lsu_resp_valid(i)
  ELSE Is({"mul"}) => i.ex

\* The second cycle of a branch is needed to compute its target.
two_cycle_branch == data_ind_timing \/ (~BranchTargetALU /\ branch_decision)

\* A first cycle after which the instruction needs more.
enters_multi_cycle(i) ==
  CASE lsu_req_dec    -> ~WritebackStage \/ ~lsu_req_done(i)
    [] multdiv_en_dec -> ~i.ex
    [] branch_in_dec  -> two_cycle_branch
    [] jump_in_dec    -> ~BranchTargetALU
    [] OTHER          -> Is({"alu2"})

id_fsm_d(i) ==
  IF ~instr_executing_spec THEN id_fsm_q
  ELSE IF FirstCycle
       THEN IF enters_multi_cycle(i) THEN "MULTI_CYCLE" ELSE "FIRST_CYCLE"
       ELSE IF multicycle_done(i) /\ ready_wb(i) THEN "FIRST_CYCLE" ELSE "MULTI_CYCLE"

\* The stalls raised by the ID FSM itself (stall_multdiv, _jump, _branch, _alu).
stall_multicycle(i) ==
  /\ instr_executing_spec /\ ~lsu_req_dec
  /\ IF FirstCycle THEN enters_multi_cycle(i)
     ELSE /\ ~(multicycle_done(i) /\ ready_wb(i))
          /\ multdiv_en_dec \/ branch_in_dec \/ jump_in_dec

stall_id(i) == stall_ld_hz \/ stall_mem(i) \/ stall_multicycle(i)

\* The controller flushes ID only in states in which nothing executes.
instr_done(i) == ~stall_id(i) /\ instr_executing(i)
en_wb(i)      == instr_done(i)
stall_wb(i)   == en_wb(i) /\ ~ready_wb(i)
stall(i)      == stall_id(i) \/ stall_wb(i)

instr_id_done(i) == en_wb(i) /\ ready_wb(i)
csr_pipe_flush(i) == Is({"csr"}) /\ instr_id_done(i)

\* A branch or jump redirects the fetch in its first cycle, or, when it has to
\* wait for its target, in its second; it may do so before it is certain that
\* the access in WB succeeds.
branch_set_raw_d ==
  /\ instr_executing_spec /\ FirstCycle /\ branch_in_dec
  /\ branch_decision \/ data_ind_timing

branch_set_raw ==
  IF BranchTargetALU /\ ~data_ind_timing THEN branch_set_raw_d ELSE branch_set_raw_q

jump_set_raw == instr_executing_spec /\ FirstCycle /\ jump_in_dec

branch_set == branch_set_raw /\ ~branch_jump_set_done_q
jump_set   == jump_set_raw /\ ~branch_jump_set_done_q
=============================================================================
