--------------------------- MODULE Pipeline_proofs ---------------------------
(***************************************************************************)
(* Proofs about the pipeline, for any set of cores: two or three stages, with *)
(* or without a branch target ALU and data-independent timing, any            *)
(* instructions, breakpoints, vectors and number of addresses, and any        *)
(* sequence of interrupts, debug requests, responses and stalls.  PInv is     *)
(* inductive.  A cycle outside DECODE executes nothing and clears ID          *)
(* (Settled); one in DECODE finds ID empty (Empty), keeps its instruction     *)
(* (Held), lets it go (Left) or leaves for FLUSH with it (Flushed).           *)
(***************************************************************************)
EXTENDS Pipeline, TLAPS

\* No memory access failed in the last cycle.
NoErr  == ~load_err_q /\ ~store_err_q
\* The instruction after the access in WB, or the next one to execute.
NextPc == IF wb_mem THEN After(pc_wb, 1) ELSE npc
\* The branch in ID redirects the fetch, which with data-independent timing all do.
SetsPc == branch_in_dec /\ (Is({"taken"}) \/ data_ind_timing)
\* Branches redirect the fetch from a flop, in their second cycle.
BranchFlop == ~BranchTargetALU \/ data_ind_timing
\* The instruction in ID is past its first cycle.
Multi == id_fsm_q = "MULTI_CYCLE"
Access == {None, "load", "store"}

\* The registers have their types; those only tested are Boolean by their use.
PipeType ==
  /\ config \in DOMAIN Config
  /\ id \in Instrs \cup {None}
  /\ wb \in {None, "load", "store", "other"}
  /\ lsu_busy \in Access /\ lsu_owed \in Access
  /\ ctrl_fsm_cs \in FsmState
  /\ id_fsm_q \in {"FIRST_CYCLE", "MULTI_CYCLE"}
  /\ steps \in Nat

\* Outside DECODE nothing is under way, and unless an instruction is kept in ID the fetch is at
\* the next instruction to execute.
QuietInv ==
  /\ ctrl_fsm_cs \notin {"DECODE", "FLUSH", "DBG_TAKEN_ID"} => id = None /\ npc = pc_if
  /\ ~controller_run => ~wb_mem /\ lsu_busy = None /\ lsu_owed = None /\ FirstCycle
  /\ ~NoErr => ctrl_fsm_cs = "FLUSH"
  /\ ctrl_fsm_cs = "DBG_TAKEN_ID" => npc = pc_id

\* A redirection is that of the instruction in ID; one that is in its second cycle has redirected
\* the fetch or is about to, and executes, so that nothing is pending in WB.
RedirectInv ==
  /\ branch_jump_set_done_q => SetsPc \/ jump_in_dec
  /\ BranchFlop /\ branch_set_raw_q => SetsPc
  /\ Multi => /\ id # None /\ ~id.err /\ ~wb_mem
              /\ Is({"alu2", "mul", "load", "store", "branch", "taken", "jump", "fence_i"})
  /\ Multi /\ jump_in_dec => branch_jump_set_done_q
  /\ Multi /\ branch_in_dec =>
       BranchFlop /\ (Is({"taken"}) => branch_jump_set_done_q \/ branch_set_raw_q)

\* In DECODE, WB, ID and the fetch hold consecutive instructions, beginning with the next one
\* to execute.
OrderInv ==
  controller_run =>
    /\ wb_mem => npc = pc_wb
    /\ id = None => pc_if = NextPc
    /\ id # None => /\ pc_id = NextPc
                    /\ pc_if = IF branch_jump_set_done_q THEN branch_target
                               ELSE After(pc_id, 1)

\* An access that requests is that of the instruction in ID, one that is owed a response that in
\* WB, or, without a writeback stage, that in ID.
LsuInv ==
  /\ lsu_busy # None => /\ controller_run /\ Is({lsu_busy}) /\ ~id.err
                        /\ lsu_owed = None
  /\ WritebackStage => lsu_owed = IF wb_mem THEN wb ELSE None
  /\ ~WritebackStage =>
       /\ wb = None
       /\ lsu_owed # None => controller_run /\ Is({lsu_owed}) /\ ~id.err
       /\ lsu_busy # None \/ lsu_owed # None => Multi

\* FLUSH finds in the flops what is true of the instruction in ID, or of the failed access.
FlushInv ==
  ctrl_fsm_cs = "FLUSH" =>
    /\ illegal_insn_q <=> illegal_insn
    /\ enter_debug_mode_prio_q => ~debug_mode_q
    /\ ~NoErr /\ WritebackStage => npc = pc_wb
    /\ ~NoErr /\ ~WritebackStage => npc = pc_id /\ lsu_req_dec /\ ~id.err
    /\ NoErr => /\ id # None /\ (exc_req_q <=> Traps)
                /\ Traps => npc = pc_id
                /\ ~Traps => /\ Is({"mret", "dret", "wfi", "csr"})
                             /\ Is({"wfi", "csr"}) => npc = pc_if

\* The debugger single-steps and the core is not in debug mode.
Stepping == debug_single_step /\ ~debug_mode_q

\* No instruction gets past a breakpoint; while stepping, one that has left ID leaves do_single_step
\* behind, which keeps the next one out.
DebugInv ==
  /\ id # None /\ pc_id \in TriggerPcs => debug_mode_q
  /\ ctrl_fsm_cs = "IRQ_TAKEN" =>
       ~debug_mode_q /\ ~debug_single_step /\ pc_if \notin TriggerPcs
  /\ steps <= 1
  /\ Stepping =>
       /\ ctrl_fsm_cs \in {"DECODE", "FLUSH", "DBG_TAKEN_IF", "DBG_TAKEN_ID"}
       /\ ctrl_fsm_cs = "FLUSH" => /\ enter_debug_mode_prio_q
                                   /\ exc_req_q \/ ~NoErr => steps = 0
       /\ controller_run => /\ id # None \/ ~do_single_step_q => ~wb_mem /\ steps = 0
                            /\ wb_mem => steps = 0

\* The inductive invariant.
PInv == PipeType /\ QuietInv /\ RedirectInv /\ OrderInv /\ LsuInv /\ FlushInv /\ DebugInv

-----------------------------------------------------------------------------

\* The fields of the controller's output.
OutFields == {"ns", "instr_req", "pc_set", "pc", "halt_if", "retain_id", "flush_id",
              "csr_save", "debug_csr_save", "exc_cause", "restore", "debug_mode",
              "nmi_mode"}

\* c is what the FSM puts out as f, with IF halted if x.
Same(c, f, x) ==
  /\ c.ns = f.ns /\ c.pc_set = f.pc_set /\ c.pc = f.pc
  /\ c.halt_if <=> (f.halt_if \/ x)
  /\ c.retain_id = f.retain_id /\ c.flush_id = f.flush_id
  /\ c.csr_save = f.csr_save /\ c.debug_csr_save = f.debug_csr_save
  /\ c.restore = f.restore /\ c.debug_mode = f.debug_mode
  /\ c.nmi_mode = f.nmi_mode

\* Disabled fetching changes nothing of what the FSM puts out but that IF is halted.
LEMMA Halted ==
  ASSUME NEW f, NEW x, DOMAIN f = OutFields
  PROVE  Same([f EXCEPT !.halt_if = @ \/ x], f, x)
  BY DEF OutFields, Same

\* What the FSM tells the stages in DECODE, x halting IF whatever happens.
DecodeOutput(i, c, x) ==
  /\ c.ns = IF special_req(i) /\ (ready_wb(i) \/ wb_exception(i)) THEN "FLUSH"
            ELSE IF stall(i) \/ special_req(i) \/ id_wb_pending(i) THEN "DECODE"
            ELSE IF enter_debug_mode(i) THEN "DBG_TAKEN_IF"
            ELSE IF handle_irq(i) THEN "IRQ_TAKEN"
            ELSE "DECODE"
  /\ c.pc_set <=> branch_set \/ jump_set
  /\ c.pc = branch_target
  /\ c.halt_if <=> \/ x
                   \/ /\ enter_debug_mode(i) \/ handle_irq(i)
                      /\ stall(i) \/ id_wb_pending(i) \/ ~special_req(i)
  /\ c.retain_id <=> special_req(i)
  /\ ~c.flush_id
  /\ c.csr_save = "none" /\ c.restore = "none"
  /\ c.debug_mode <=> debug_mode_q

\* What the FSM puts out in DECODE is DecodeOutput.
LEMMA DecodeOut ==
  ASSUME NEW i, NEW t, ctrl_fsm_cs = "DECODE"
  PROVE  DecodeOutput(i, Ctrl(i, t), ~i.exec)
<1> DEFINE f == Decode(i)
<1>1. Ctrl(i, t) = [f EXCEPT !.halt_if = @ \/ ~i.exec]
  BY DEF Ctrl, FsmOut
<1>2. DOMAIN f = OutFields
  BY DEF Decode, Idle, OutFields
<1>3. DecodeOutput(i, f, FALSE)
  BY DEF Decode, Idle, DecodeOutput
<1> HIDE DEF f
<1>4. Same(Ctrl(i, t), f, ~i.exec)
  BY <1>1, <1>2, Halted
<1>5. QED
  BY <1>3, <1>4 DEF Same, DecodeOutput

\* What it tells them in a state out of which the core is not sent anywhere:
\* next is the next state, halt and flush the halting of IF and the flushing of ID.
IdleOutput(c, next, halt, flush) ==
  /\ c.ns = next /\ ~c.pc_set /\ ~c.retain_id
  /\ c.halt_if <=> halt
  /\ c.flush_id <=> flush
  /\ c.csr_save = "none" /\ c.restore = "none"
  /\ c.debug_mode <=> debug_mode_q

\* In WAIT_SLEEP and SLEEP IF is halted and ID flushed.
LEMMA SleepOut ==
  ASSUME NEW i, NEW t, ctrl_fsm_cs \in {"WAIT_SLEEP", "SLEEP"}
  PROVE  \E next \in {"SLEEP", "FIRST_FETCH"} : IdleOutput(Ctrl(i, t), next, TRUE, TRUE)
<1>1. PICK next \in {"SLEEP", "FIRST_FETCH"} :
        Ctrl(i, t) = [Asleep(next) EXCEPT !.halt_if = @ \/ ~i.exec]
  <2>1. CASE ctrl_fsm_cs = "WAIT_SLEEP"
    BY <2>1 DEF Ctrl, FsmOut
  <2>2. CASE ctrl_fsm_cs = "SLEEP" /\ wakes_up(i)
    BY <2>2 DEF Ctrl, FsmOut
  <2>3. CASE ctrl_fsm_cs = "SLEEP" /\ ~wakes_up(i)
    BY <2>3 DEF Ctrl, FsmOut
  <2>4. QED
    BY <2>1, <2>2, <2>3
<1> DEFINE f == Asleep(next)
<1>2. DOMAIN f = OutFields
  BY DEF Asleep, Idle, OutFields
<1>3. IdleOutput(f, next, TRUE, TRUE)
  BY DEF Asleep, Idle, IdleOutput
<1> HIDE DEF f
<1>4. Same(Ctrl(i, t), f, ~i.exec)
  BY <1>1, <1>2, Halted DEF f
<1>5. QED
  BY <1>3, <1>4 DEF Same, IdleOutput

FirstFetchNext(i) ==
  IF enter_debug_mode(i) THEN "DBG_TAKEN_IF"
  ELSE IF handle_irq(i) THEN "IRQ_TAKEN"
  ELSE IF ~stall(i) /\ i.exec THEN "DECODE"
  ELSE "FIRST_FETCH"

\* In FIRST_FETCH IF is halted for a debug request or an interrupt only.
LEMMA FirstFetchOut ==
  ASSUME NEW i, NEW t, ctrl_fsm_cs = "FIRST_FETCH"
  PROVE  IdleOutput(Ctrl(i, t), FirstFetchNext(i),
                    enter_debug_mode(i) \/ handle_irq(i) \/ ~i.exec, FALSE)
<1> DEFINE f == FirstFetch(i)
<1>1. Ctrl(i, t) = [f EXCEPT !.halt_if = @ \/ ~i.exec]
  BY DEF Ctrl, FsmOut
<1>2. DOMAIN f = OutFields
  BY DEF FirstFetch, Idle, OutFields
<1>3. IdleOutput(f, FirstFetchNext(i), enter_debug_mode(i) \/ handle_irq(i), FALSE)
  BY DEF FirstFetch, FirstFetchNext, Idle, IdleOutput
<1> HIDE DEF f
<1>4. Same(Ctrl(i, t), f, ~i.exec)
  BY <1>1, <1>2, Halted
<1>5. QED
  BY <1>3, <1>4 DEF Same, IdleOutput

\* What it tells them when it sends the core to pc.
SendOutput(c, next, pc, save, halt, flush) ==
  /\ c.ns = next /\ c.pc_set /\ c.pc = pc /\ ~c.retain_id
  /\ c.csr_save = save
  /\ c.halt_if <=> halt
  /\ c.flush_id <=> flush

\* In RESET and BOOT_SET the core is sent to the boot address.
LEMMA BootOut ==
  ASSUME NEW i, NEW t, ctrl_fsm_cs \in {"RESET", "BOOT_SET"}
  PROVE  LET c == Ctrl(i, t) IN
         /\ \E next \in {"BOOT_SET", "FIRST_FETCH"} :
              SendOutput(c, next, BootPc, "none", ~i.exec, FALSE)
         /\ c.debug_mode <=> debug_mode_q
<1>1. PICK next \in {"BOOT_SET", "FIRST_FETCH"} :
        Ctrl(i, t) = [Boot(next) EXCEPT !.halt_if = @ \/ ~i.exec]
  BY DEF Ctrl, FsmOut
<1> DEFINE f == Boot(next)
<1>2. DOMAIN f = OutFields
  BY DEF Boot, Idle, OutFields
<1>3. SendOutput(f, next, BootPc, "none", FALSE, FALSE) /\ (f.debug_mode <=> debug_mode_q)
  BY DEF Boot, Idle, SendOutput
<1> HIDE DEF f
<1>4. Same(Ctrl(i, t), f, ~i.exec)
  BY <1>1, <1>2, Halted DEF f
<1>5. QED
  BY <1>3, <1>4 DEF Same, SendOutput

\* In IRQ_TAKEN it is sent to the handler, unless the interrupt is gone.
LEMMA IrqOut ==
  ASSUME NEW i, NEW t, ctrl_fsm_cs = "IRQ_TAKEN"
  PROVE  LET c == Ctrl(i, t) IN
         /\ IF handle_irq(i) THEN SendOutput(c, "DECODE", IrqPc, "if", ~i.exec, FALSE)
            ELSE IdleOutput(c, "DECODE", ~i.exec, FALSE)
         /\ c.debug_mode <=> debug_mode_q
<1> DEFINE f == IrqTaken(i)
<1>1. Ctrl(i, t) = [f EXCEPT !.halt_if = @ \/ ~i.exec]
  BY DEF Ctrl, FsmOut
<1>2. DOMAIN f = OutFields
  BY DEF IrqTaken, Idle, OutFields
<1>3. /\ handle_irq(i) => SendOutput(f, "DECODE", IrqPc, "if", FALSE, FALSE)
      /\ ~handle_irq(i) => IdleOutput(f, "DECODE", FALSE, FALSE)
      /\ f.debug_mode <=> debug_mode_q
  BY DEF IrqTaken, Idle, SendOutput, IdleOutput
<1> HIDE DEF f
<1>4. Same(Ctrl(i, t), f, ~i.exec)
  BY <1>1, <1>2, Halted
<1>5. QED
  BY <1>3, <1>4 DEF Same, SendOutput, IdleOutput

\* In DBG_TAKEN_IF and DBG_TAKEN_ID it enters debug mode; DBG_TAKEN_ID saves a pc for an
\* EBREAK that enters it.
LEMMA DebugOut ==
  ASSUME NEW i, NEW t, ctrl_fsm_cs \in {"DBG_TAKEN_IF", "DBG_TAKEN_ID"}
  PROVE  LET c == Ctrl(i, t)
             save == IF ctrl_fsm_cs = "DBG_TAKEN_IF" THEN "if"
                     ELSE IF ebreak_into_debug /\ ~debug_mode_q THEN "id" ELSE "none"
         IN /\ SendOutput(c, "DECODE", DbgPc, save, ~i.exec, TRUE)
            /\ c.csr_save # "none" => c.debug_csr_save
            /\ c.debug_mode
<1> DEFINE save == IF ctrl_fsm_cs = "DBG_TAKEN_IF" THEN "if"
                   ELSE IF ebreak_into_debug /\ ~debug_mode_q THEN "id" ELSE "none"
           f == IF ctrl_fsm_cs = "DBG_TAKEN_IF" THEN DbgTakenIf ELSE DbgTakenId
<1>1. Ctrl(i, t) = [f EXCEPT !.halt_if = @ \/ ~i.exec]
  BY DEF Ctrl, FsmOut
<1>2. DOMAIN f = OutFields
  BY DEF DbgTakenIf, DbgTakenId, DebugTaken, Idle, OutFields
<1>3. /\ SendOutput(f, "DECODE", DbgPc, save, FALSE, TRUE)
      /\ f.csr_save # "none" => f.debug_csr_save
      /\ f.debug_mode
  BY DEF DbgTakenIf, DbgTakenId, DebugTaken, Idle, SendOutput
<1> HIDE DEF f
<1>4. Same(Ctrl(i, t), f, ~i.exec)
  BY <1>1, <1>2, Halted
<1>5. QED
  BY <1>3, <1>4 DEF Same, SendOutput

\* An exception is pending in FLUSH.
Exc == exc_req_q \/ ~NoErr

\* What it tells them in FLUSH.
FlushOutput(c) ==
  /\ c.ns = IF enter_debug_mode_prio_q /\ ~(exc_prio = "ebreak" /\ ebreak_into_debug)
            THEN "DBG_TAKEN_IF"
            ELSE IF Exc /\ ebreak_to_debug THEN "DBG_TAKEN_ID"
            ELSE IF ~Exc /\ Is({"wfi"}) THEN "WAIT_SLEEP"
            ELSE "DECODE"
  /\ c.pc_set <=> IF Exc THEN ~ebreak_to_debug ELSE Is({"mret", "dret"})
  /\ ~c.retain_id /\ c.halt_if
  /\ c.flush_id <=> ~(Exc /\ ebreak_to_debug)
  /\ c.csr_save = IF ~Exc \/ ebreak_to_debug THEN "none"
                  ELSE IF WritebackStage /\ ~NoErr THEN "wb" ELSE "id"
  /\ c.debug_mode <=> debug_mode_q /\ (~Exc => ~Is({"dret"}))

\* What the FSM puts out in FLUSH is FlushOutput.
LEMMA FlushOut ==
  ASSUME NEW i, NEW t, ctrl_fsm_cs = "FLUSH"
  PROVE  FlushOutput(Ctrl(i, t))
<1> DEFINE exc == exc_req_q \/ store_err_q \/ load_err_q
           out == IF ~exc THEN FlushSpecial(t)
                  ELSE IF ebreak_to_debug THEN Idle ELSE FlushException
           next == IF enter_debug_mode_prio_q /\ ~(exc_prio = "ebreak" /\ ebreak_into_debug)
                   THEN "DBG_TAKEN_IF"
                   ELSE IF exc /\ ebreak_to_debug THEN "DBG_TAKEN_ID"
                   ELSE IF ~exc /\ Is({"wfi"}) THEN "WAIT_SLEEP"
                   ELSE "DECODE"
           f == Flush(t)
<1>0. exc <=> Exc
  BY DEF Exc, NoErr
<1>1. Ctrl(i, t) = [f EXCEPT !.halt_if = @ \/ ~i.exec]
  BY DEF Ctrl, FsmOut
<1>2. f = [out EXCEPT !.ns = next, !.halt_if = TRUE, !.flush_id = ~(exc /\ ebreak_to_debug)]
  BY DEF Flush
<1>3. /\ DOMAIN out = OutFields
      /\ out.pc_set <=> IF Exc THEN ~ebreak_to_debug ELSE Is({"mret", "dret"})
      /\ ~out.retain_id
      /\ out.csr_save = IF ~Exc \/ ebreak_to_debug THEN "none"
                        ELSE IF WritebackStage /\ ~NoErr THEN "wb" ELSE "id"
      /\ out.debug_mode <=> debug_mode_q /\ (~Exc => ~Is({"dret"}))
  <2>1. CASE ~exc
    <3>1. out = FlushSpecial(t)
      BY <2>1
    <3>2. CASE Is({"mret"})
      <4>1. ~Is({"dret"}) /\ Is({"mret", "dret"})
        BY <3>2 DEF Is
      <4>2. out = [Idle EXCEPT !.pc_set = TRUE, !.pc = t, !.restore = "mret", !.nmi_mode = FALSE]
        BY <3>1, <3>2, <4>1 DEF FlushSpecial
      <4> HIDE DEF out, exc
      <4>3. QED
        BY <1>0, <2>1, <4>1, <4>2 DEF Idle, OutFields
    <3>3. CASE Is({"dret"})
      <4>1. ~Is({"mret"}) /\ Is({"mret", "dret"})
        BY <3>3 DEF Is
      <4>2. out = [Idle EXCEPT !.pc_set = TRUE, !.pc = t, !.restore = "dret", !.debug_mode = FALSE]
        BY <3>1, <3>3, <4>1 DEF FlushSpecial
      <4> HIDE DEF out, exc
      <4>3. QED
        BY <1>0, <2>1, <3>3, <4>1, <4>2 DEF Idle, OutFields
    <3>4. CASE ~Is({"mret"}) /\ ~Is({"dret"})
      <4>1. ~Is({"mret", "dret"})
        BY <3>4 DEF Is
      <4>2. out = Idle
        BY <3>1, <3>4 DEF FlushSpecial
      <4> HIDE DEF out, exc
      <4>3. QED
        BY <1>0, <2>1, <3>4, <4>1, <4>2 DEF Idle, OutFields
    <3>5. QED
      BY <3>2, <3>3, <3>4
  <2>2. CASE exc /\ ebreak_to_debug
    <3>1. out = Idle
      BY <2>2
    <3> HIDE DEF out, exc
    <3>2. QED
      BY <1>0, <2>2, <3>1 DEF Idle, OutFields
  <2>3. CASE exc /\ ~ebreak_to_debug
    <3>1. out = FlushException
      BY <2>3
    <3>2. store_err_q \/ load_err_q <=> ~NoErr
      BY DEF NoErr
    <3> HIDE DEF out, exc
    <3>3. QED
      BY <1>0, <2>3, <3>1, <3>2 DEF FlushException, Idle, OutFields
  <2>4. QED
    BY <2>1, <2>2, <2>3
<1> HIDE DEF out, next, f
<1>4. /\ DOMAIN f = OutFields
      /\ f.ns = next /\ f.halt_if
      /\ f.flush_id <=> ~(exc /\ ebreak_to_debug)
      /\ f.pc_set = out.pc_set /\ f.retain_id = out.retain_id
      /\ f.csr_save = out.csr_save /\ f.debug_mode = out.debug_mode
  BY <1>2, <1>3 DEF OutFields
<1>5. Same(Ctrl(i, t), f, ~i.exec)
  BY <1>1, <1>4, Halted
<1> HIDE DEF exc
<1>6. FlushOutput(f)
  BY <1>0, <1>3, <1>4 DEF FlushOutput, next
<1>7. QED
  BY <1>5, <1>6 DEF Same, FlushOutput

-----------------------------------------------------------------------------
(* Inputs, and the cycles in which the controller lets nothing execute.       *)

\* A response needs an access that is owed one and is done requesting.
LEMMA InputFacts ==
  ASSUME NEW i \in Inputs
  PROVE  /\ i.resp \in {"none", "ok", "err"}
         /\ i.resp # "none" => lsu_owed # None /\ lsu_busy = None
<1>1. i.resp \in IF lsu_owed # None /\ lsu_busy = None THEN {"none", "ok", "err"} ELSE {"none"}
  BY DEF Inputs
<1>2. QED
  BY <1>1

\* None is no instruction and no access; what reads no register does not depend on a load.
LEMMA InstrFacts ==
  ASSUME PipeType
  PROVE  /\ WritebackStage \in BOOLEAN
         /\ id # None => id \in Instr /\ (id.kind \in ReadsNothing => ~id.use)
         /\ None \notin Instrs /\ None \notin {"load", "store", "other"}
<1>1. config \in DOMAIN Config
  BY DEF PipeType
<1>2. /\ Instrs \subseteq Instr /\ WritebackStage \in BOOLEAN
      /\ \A r \in Instrs : r.kind \in ReadsNothing => ~r.use
  BY <1>1, ConfigAssumption DEF Instrs, WritebackStage
<1>3. None \notin Instr /\ None \notin Kind \cup {"other"}
  BY ConfigAssumption
<1>4. None \notin {"load", "store", "other"}
  BY <1>3 DEF Kind
<1>5. QED
  BY <1>2, <1>3, <1>4 DEF PipeType

\* Nothing executes.
Still(i) ==
  /\ ~instr_executing_spec /\ ~instr_executing(i) /\ ~en_wb(i)
  /\ ~lsu_req(i) /\ ~lsu_req_done(i) /\ i.resp = "none"
  /\ wb_done(i) /\ ready_wb(i)
  /\ stall(i) <=> lsu_req_dec
  /\ ~load_err(i) /\ ~store_err(i)
  /\ ~branch_set_raw_d /\ ~jump_set_raw
  /\ ~wb_executes(i) /\ ~id_executes(i) /\ ~csr_pipe_flush(i)

\* Outside DECODE nothing executes, requests, is answered or stalls but a load or store.
LEMMA NotRunning ==
  ASSUME QuietInv, ~controller_run, NEW i \in Inputs
  PROVE  Still(i)
<1>1. /\ ~wb_mem /\ lsu_busy = None /\ lsu_owed = None
      /\ i.resp = "none"
  BY InputFacts DEF QuietInv
<1>2. ~instr_executing_spec /\ ~instr_executing(i)
  BY DEF instr_executing_spec, instr_executing, instr_kill
<1>3. /\ ~en_wb(i) /\ ~lsu_req(i) /\ ~branch_set_raw_d /\ ~jump_set_raw
  BY <1>2 DEF en_wb, instr_done, lsu_req, branch_set_raw_d, jump_set_raw
<1>4. /\ ~lsu_req_done(i) /\ wb_done(i) /\ ready_wb(i)
      /\ ~load_err(i) /\ ~store_err(i)
  BY <1>1, <1>3 DEF lsu_req_done, wb_done, ready_wb, load_err, store_err, lsu_resp_err
<1>5. ~stall_ld_hz /\ ~stall_multicycle(i) /\ ~stall_wb(i)
  BY <1>1, <1>2, <1>3 DEF stall_ld_hz, wb_mem, stall_multicycle, stall_wb
<1>6. stall_mem(i) <=> lsu_req_dec
  BY <1>1, <1>4 DEF stall_mem, outstanding_memory_access, lsu_resp_valid, lsu_req_dec, Is
<1>7. ~wb_executes(i) /\ ~id_executes(i) /\ ~csr_pipe_flush(i)
  BY <1>1, <1>3 DEF wb_executes, id_executes, instr_id_done, csr_pipe_flush
<1>8. QED
  BY <1>1, <1>2, <1>3, <1>4, <1>5, <1>6, <1>7 DEF Still, stall, stall_id

\* IF hands its instruction to ID.
Fetches(i, c) == i.fetch /\ ~c.pc_set /\ id_in_ready(i, c)

\* What a cycle in which nothing executes and ID is cleared leaves behind.
Settled(i, c) ==
  /\ ctrl_fsm_cs' = c.ns
  /\ wb' = None /\ lsu_busy' = None /\ lsu_owed' = None
  /\ id_fsm_q' = id_fsm_q
  /\ ~branch_jump_set_done_q' /\ ~branch_set_raw_q'
  /\ ~load_err_q' /\ ~store_err_q'
  /\ npc' = IF c.pc_set THEN c.pc ELSE npc
  /\ IF Fetches(i, c) THEN pc_if' = After(pc_if, 1) /\ pc_id' = pc_if /\ id' \in Instrs
     ELSE pc_if' = (IF c.pc_set THEN c.pc ELSE pc_if) /\ pc_id' = pc_id /\ id' = None
  /\ debug_mode_q' = c.debug_mode
  /\ debug_single_step' = debug_single_step
  /\ do_single_step_q' = do_single_step_d
  /\ steps' = IF debug_mode_q \/ ~debug_single_step THEN 0
              ELSE steps + (IF c.csr_save # "none" /\ ~c.debug_csr_save THEN 1 ELSE 0)
  /\ config' = config

\* The registers after a cycle outside DECODE in which ID is cleared.
LEMMA Settles ==
  ASSUME PInv, ~controller_run, NEW i \in Inputs, NEW c, Cycle(i, c),
         instr_valid_clear(i, c)
  PROVE  Settled(i, c)
<1>1. Still(i)
  BY NotRunning DEF PInv
<1>2. /\ wb' = None
      /\ lsu_busy' = None /\ lsu_owed' = None
  <2>1. wb' = None
    BY <1>1 DEF Cycle, WbRegisters, Still
  <2>2. lsu_busy = None /\ lsu_owed = None
    BY DEF PInv, QuietInv
  <2>3. lsu_busy' = None /\ lsu_owed' = None
    BY <1>1, <2>2 DEF Cycle, Lsu, Still
  <2>4. QED
    BY <2>1, <2>3
<1>3. id_fsm_q' = id_fsm_q
  BY <1>1 DEF Cycle, IdRegisters, Still
<1>4. ~branch_jump_set_done_q' /\ ~branch_set_raw_q'
  BY <1>1 DEF Cycle, IdRegisters, Still
<1>5. /\ ctrl_fsm_cs' = c.ns /\ ~load_err_q' /\ ~store_err_q'
      /\ debug_mode_q' = c.debug_mode /\ do_single_step_q' = do_single_step_d
  BY <1>1 DEF Cycle, ControllerRegisters, Still
<1>6. npc' = IF c.pc_set THEN c.pc ELSE npc
  BY <1>1 DEF Cycle, SequentialMachine, Still, controller_run, npc_after, npc_after_wb
<1>7. IF Fetches(i, c) THEN pc_if' = After(pc_if, 1) /\ pc_id' = pc_if /\ id' \in Instrs
      ELSE pc_if' = (IF c.pc_set THEN c.pc ELSE pc_if) /\ pc_id' = pc_id /\ id' = None
  BY DEF Cycle, FetchStage, Fetches
<1>8. debug_single_step' = debug_single_step
  BY <1>1 DEF Cycle, Csrs, Still
<1>9. steps' = IF debug_mode_q \/ ~debug_single_step THEN 0
               ELSE steps + (IF c.csr_save # "none" /\ ~c.debug_csr_save THEN 1 ELSE 0)
  <2>1. steps \in Nat
    BY DEF PInv, PipeType
  <2>2. steps' = IF debug_mode_q \/ ~debug_single_step THEN 0
                 ELSE steps + (IF wb_executes(i) THEN 1 ELSE 0)
                            + (IF id_executes(i) THEN 1 ELSE 0)
                            + (IF c.csr_save # "none" /\ ~c.debug_csr_save THEN 1 ELSE 0)
    BY DEF Cycle, SequentialMachine
  <2>3. ~wb_executes(i) /\ ~id_executes(i)
    BY <1>1 DEF Still
  <2>4. QED
    BY <2>1, <2>2, <2>3
<1>10. config' = config
  BY DEF Cycle
<1>11. QED
  BY <1>2, <1>3, <1>4, <1>5, <1>6, <1>7, <1>8, <1>9, <1>10 DEF Settled

\* All of the invariant but DebugInv after such a cycle.
LEMMA SettledKeeps ==
  ASSUME PInv, ~controller_run, NEW i \in Inputs, NEW c, Settled(i, c),
         c.ns \in FsmState \ {"FLUSH"},
         Fetches(i, c) => c.ns = "DECODE",
         c.ns = "DBG_TAKEN_ID" => ~c.pc_set /\ npc = pc_id,
         c.ns # "DBG_TAKEN_ID" => c.pc_set \/ npc = pc_if
  PROVE  (PipeType /\ QuietInv /\ RedirectInv /\ OrderInv /\ LsuInv /\ FlushInv)'
<1> USE DEF Settled
<1>1. /\ ~wb_mem' /\ None \notin {"load", "store", "other"} /\ None \notin Instrs
      /\ FirstCycle /\ WritebackStage' = WritebackStage /\ Instrs' = Instrs
  BY InstrFacts DEF PInv, QuietInv, wb_mem, WritebackStage, Instrs
<1>2. PipeType'
  <2>1. id' \in (Instrs \cup {None})'
    BY <1>1
  <2>2. steps' \in Nat
    <3>1. steps \in Nat
      BY DEF PInv, PipeType
    <3>2. QED
      BY <3>1
  <2>3. config' \in (DOMAIN Config)' /\ id_fsm_q' \in {"FIRST_CYCLE", "MULTI_CYCLE"}
    BY DEF PInv, PipeType
  <2>4. ctrl_fsm_cs' \in FsmState'
    BY DEF FsmState
  <2>5. QED
    BY <2>1, <2>2, <2>3, <2>4 DEF PipeType, Access
<1>3. QuietInv'
  <2>1. FirstCycle'
    BY <1>1 DEF FirstCycle
  <2>2. NoErr'
    BY DEF NoErr
  <2>3. ctrl_fsm_cs' \notin {"DECODE", "FLUSH", "DBG_TAKEN_ID"} => id' = None /\ npc' = pc_if'
    OBVIOUS
  <2>4. ctrl_fsm_cs' = "DBG_TAKEN_ID" => npc' = pc_id'
    OBVIOUS
  <2>5. QED
    BY <1>1, <2>1, <2>2, <2>3, <2>4 DEF QuietInv
<1>4. RedirectInv'
  <2>1. ~Multi'
    BY <1>1 DEF FirstCycle, Multi
  <2>2. QED
    BY <2>1 DEF RedirectInv
<1>5. OrderInv'
  <2>1. NextPc' = npc'
    BY <1>1 DEF NextPc
  <2>2. CASE Fetches(i, c)
    BY <1>1, <2>1, <2>2 DEF OrderInv, Fetches, After
  <2>3. CASE ~Fetches(i, c)
    BY <1>1, <2>1, <2>3 DEF OrderInv, controller_run
  <2>4. QED
    BY <2>2, <2>3
<1>6. LsuInv'
  BY <1>1 DEF LsuInv
<1>7. FlushInv'
  BY DEF FlushInv
<1>8. QED
  BY <1>2, <1>3, <1>4, <1>5, <1>6, <1>7

\* And DebugInv, unless a trap is taken or debug mode left.
LEMMA SettledDebug ==
  ASSUME PInv, ~controller_run, NEW i \in Inputs, NEW c, Settled(i, c),
         c.ns \in FsmState \ {"FLUSH"},
         Fetches(i, c) => c.ns = "DECODE" /\ (pc_if \notin TriggerPcs \/ c.debug_mode),
         c.ns = "IRQ_TAKEN" => /\ ~c.debug_mode /\ ~debug_single_step /\ ~c.pc_set
                               /\ pc_if \notin TriggerPcs,
         steps' <= 1,
         debug_single_step /\ ~c.debug_mode =>
           \/ c.ns \in {"DBG_TAKEN_IF", "DBG_TAKEN_ID"}
           \/ c.ns = "DECODE" /\ steps' = 0
  PROVE  DebugInv'
<1> USE DEF Settled
<1>1. TriggerPcs' = TriggerPcs /\ ~wb_mem'
  BY InstrFacts DEF PInv, TriggerPcs, wb_mem
<1>2. id' # None /\ pc_id' \in TriggerPcs' => debug_mode_q'
  BY <1>1
<1>3. ctrl_fsm_cs' = "IRQ_TAKEN" =>
        ~debug_mode_q' /\ ~debug_single_step' /\ pc_if' \notin TriggerPcs'
  <2> SUFFICES ASSUME c.ns = "IRQ_TAKEN"
               PROVE  ~debug_mode_q' /\ ~debug_single_step' /\ pc_if' \notin TriggerPcs'
    OBVIOUS
  <2>1. pc_if' = pc_if
    OBVIOUS
  <2>2. QED
    BY <1>1, <2>1
<1>4. Stepping' => \/ c.ns \in {"DBG_TAKEN_IF", "DBG_TAKEN_ID"}
                   \/ c.ns = "DECODE" /\ steps' = 0
  BY DEF Stepping
<1>5. QED
  BY <1>1, <1>2, <1>3, <1>4 DEF DebugInv, controller_run

-----------------------------------------------------------------------------
(* The states of the FSM other than DECODE, one by one.                       *)

\* RESET and BOOT_SET keep the invariant.
LEMMA BootKeeps ==
  ASSUME PInv, ctrl_fsm_cs \in {"RESET", "BOOT_SET"}, NEW i \in Inputs, NEW t,
         Cycle(i, Ctrl(i, t))
  PROVE  PInv'
<1> DEFINE c == Ctrl(i, t)
<1>1. PICK next \in {"BOOT_SET", "FIRST_FETCH"} :
        SendOutput(c, next, BootPc, "none", ~i.exec, FALSE)
  BY BootOut DEF SendOutput
<1>2. /\ c.ns = next /\ c.pc_set /\ c.csr_save = "none" /\ ~c.retain_id
      /\ c.debug_mode <=> debug_mode_q
  BY <1>1, BootOut DEF SendOutput
<1>3. Cycle(i, c)
  OBVIOUS
<1> HIDE DEF c
<1>4. ~controller_run /\ id = None /\ ~Stepping /\ steps <= 1 /\ steps \in Nat
  BY DEF PInv, QuietInv, DebugInv, PipeType, controller_run
<1>5. instr_valid_clear(i, c)
  BY <1>2, <1>4, NotRunning DEF PInv, instr_valid_clear, Still, lsu_req_dec, Is, instr_valid
<1>6. Settled(i, c)
  BY <1>3, <1>4, <1>5, Settles
<1>7. (PipeType /\ QuietInv /\ RedirectInv /\ OrderInv /\ LsuInv /\ FlushInv)'
  BY <1>2, <1>4, <1>6, SettledKeeps DEF FsmState, Fetches
<1>8. steps' <= 1
  BY <1>2, <1>4, <1>6 DEF Settled
<1>9. DebugInv'
  BY <1>2, <1>4, <1>6, <1>8, SettledDebug DEF FsmState, Fetches, Stepping
<1>10. QED
  BY <1>7, <1>9 DEF PInv

\* WAIT_SLEEP and SLEEP keep the invariant.
LEMMA SleepKeeps ==
  ASSUME PInv, ctrl_fsm_cs \in {"WAIT_SLEEP", "SLEEP"}, NEW i \in Inputs, NEW t,
         Cycle(i, Ctrl(i, t))
  PROVE  PInv'
<1> DEFINE c == Ctrl(i, t)
<1>1. PICK next \in {"SLEEP", "FIRST_FETCH"} : IdleOutput(c, next, TRUE, TRUE)
  BY SleepOut DEF IdleOutput
<1>2. /\ c.ns = next /\ ~c.pc_set /\ c.halt_if /\ c.flush_id /\ c.csr_save = "none"
      /\ c.debug_mode <=> debug_mode_q
  BY <1>1 DEF IdleOutput
<1>3. Cycle(i, c)
  OBVIOUS
<1> HIDE DEF c
<1>4. ~controller_run /\ npc = pc_if /\ ~Stepping /\ steps <= 1 /\ steps \in Nat
  BY DEF PInv, QuietInv, DebugInv, PipeType, controller_run
<1>5. instr_valid_clear(i, c) /\ ~Fetches(i, c)
  BY <1>2 DEF instr_valid_clear, Fetches, id_in_ready
<1>6. Settled(i, c)
  BY <1>3, <1>4, <1>5, Settles
<1>7. (PipeType /\ QuietInv /\ RedirectInv /\ OrderInv /\ LsuInv /\ FlushInv)'
  BY <1>2, <1>4, <1>5, <1>6, SettledKeeps DEF FsmState
<1>8. steps' <= 1
  BY <1>2, <1>4, <1>6 DEF Settled
<1>9. DebugInv'
  BY <1>2, <1>4, <1>5, <1>6, <1>8, SettledDebug DEF FsmState, Stepping
<1>10. QED
  BY <1>7, <1>9 DEF PInv

\* FIRST_FETCH keeps the invariant: an instruction is fetched only on the way to DECODE.
LEMMA FirstFetchKeeps ==
  ASSUME PInv, ctrl_fsm_cs = "FIRST_FETCH", NEW i \in Inputs, NEW t, Cycle(i, Ctrl(i, t))
  PROVE  PInv'
<1> DEFINE c == Ctrl(i, t)
<1>1. /\ c.ns = FirstFetchNext(i) /\ ~c.pc_set /\ ~c.retain_id /\ c.csr_save = "none"
      /\ c.halt_if <=> enter_debug_mode(i) \/ handle_irq(i) \/ ~i.exec
      /\ c.debug_mode <=> debug_mode_q
  BY FirstFetchOut DEF IdleOutput
<1>2. Cycle(i, c)
  OBVIOUS
<1> HIDE DEF c
<1>3. /\ ~controller_run /\ npc = pc_if /\ ~Stepping /\ steps <= 1 /\ steps \in Nat
      /\ id = None
  BY DEF PInv, QuietInv, DebugInv, PipeType, controller_run
<1>4. ~stall(i)
  BY <1>3, NotRunning DEF PInv, Still, lsu_req_dec, Is, instr_valid
<1>5. instr_valid_clear(i, c)
  BY <1>1, <1>4 DEF instr_valid_clear
<1>6. Settled(i, c)
  BY <1>2, <1>3, <1>5, Settles
<1>7. Fetches(i, c) => c.ns = "DECODE" /\ (pc_if \notin TriggerPcs \/ c.debug_mode)
  BY <1>1, <1>4
     DEF Fetches, id_in_ready, FirstFetchNext, enter_debug_mode, trigger_match
<1>8. c.ns \in FsmState \ {"FLUSH", "DBG_TAKEN_ID"}
  BY <1>1 DEF FsmState, FirstFetchNext
<1>9. (PipeType /\ QuietInv /\ RedirectInv /\ OrderInv /\ LsuInv /\ FlushInv)'
  BY <1>3, <1>6, <1>7, <1>8, SettledKeeps
<1>10. steps' <= 1
  BY <1>1, <1>3, <1>6 DEF Settled
<1>11. c.ns = "IRQ_TAKEN" => /\ ~c.debug_mode /\ ~debug_single_step /\ ~c.pc_set
                             /\ pc_if \notin TriggerPcs
  BY <1>1 DEF FirstFetchNext, enter_debug_mode, handle_irq, trigger_match
<1>12. DebugInv'
  BY <1>1, <1>3, <1>6, <1>7, <1>8, <1>10, <1>11, SettledDebug DEF Stepping
<1>13. QED
  BY <1>9, <1>12 DEF PInv

\* IRQ_TAKEN keeps the invariant, also when the interrupt is gone and an instruction is fetched.
LEMMA IrqKeeps ==
  ASSUME PInv, ctrl_fsm_cs = "IRQ_TAKEN", NEW i \in Inputs, NEW t, Cycle(i, Ctrl(i, t))
  PROVE  PInv'
<1> DEFINE c == Ctrl(i, t)
<1>1. /\ c.ns = "DECODE" /\ ~c.retain_id
      /\ c.debug_mode <=> debug_mode_q
  BY IrqOut DEF SendOutput, IdleOutput
<1>2. Cycle(i, c)
  OBVIOUS
<1> HIDE DEF c
<1>3. /\ ~controller_run /\ npc = pc_if /\ steps <= 1 /\ steps \in Nat
      /\ id = None /\ ~debug_single_step /\ pc_if \notin TriggerPcs
  BY DEF PInv, QuietInv, DebugInv, PipeType, controller_run
<1>4. instr_valid_clear(i, c)
  BY <1>1, <1>3, NotRunning DEF PInv, instr_valid_clear, Still, lsu_req_dec, Is, instr_valid
<1>5. Settled(i, c)
  BY <1>2, <1>3, <1>4, Settles
<1>6. (PipeType /\ QuietInv /\ RedirectInv /\ OrderInv /\ LsuInv /\ FlushInv)'
  BY <1>1, <1>3, <1>5, SettledKeeps DEF FsmState
<1>7. steps' <= 1
  BY <1>3, <1>5 DEF Settled
<1>8. DebugInv'
  BY <1>1, <1>3, <1>5, <1>7, SettledDebug DEF FsmState
<1>9. QED
  BY <1>6, <1>8 DEF PInv

\* DBG_TAKEN_IF and DBG_TAKEN_ID keep the invariant.
LEMMA DebugKeeps ==
  ASSUME PInv, ctrl_fsm_cs \in {"DBG_TAKEN_IF", "DBG_TAKEN_ID"}, NEW i \in Inputs, NEW t,
         Cycle(i, Ctrl(i, t))
  PROVE  PInv'
<1> DEFINE c == Ctrl(i, t)
<1>1. /\ c.ns = "DECODE" /\ c.pc_set /\ c.flush_id
      /\ c.csr_save # "none" => c.debug_csr_save
      /\ c.debug_mode
  BY DebugOut DEF SendOutput
<1>2. Cycle(i, c)
  OBVIOUS
<1> HIDE DEF c
<1>3. ~controller_run /\ steps <= 1 /\ steps \in Nat
  BY DEF PInv, DebugInv, PipeType, controller_run
<1>4. instr_valid_clear(i, c) /\ ~Fetches(i, c)
  BY <1>1 DEF instr_valid_clear, Fetches
<1>5. Settled(i, c)
  BY <1>2, <1>3, <1>4, Settles
<1>6. (PipeType /\ QuietInv /\ RedirectInv /\ OrderInv /\ LsuInv /\ FlushInv)'
  BY <1>1, <1>3, <1>4, <1>5, SettledKeeps DEF FsmState
<1>7. steps' <= 1
  BY <1>1, <1>3, <1>5 DEF Settled
<1>8. DebugInv'
  BY <1>1, <1>3, <1>4, <1>5, <1>7, SettledDebug DEF FsmState
<1>9. QED
  BY <1>6, <1>8 DEF PInv

\* The cause is that of an EBREAK only if it is in ID and nothing older failed.
LEMMA FlushCause ==
  ASSUME PInv, ctrl_fsm_cs = "FLUSH"
  PROVE  exc_prio = "ebreak" =>
           NoErr /\ exc_req_q /\ Is({"ebreak"}) /\ npc = pc_id /\ ~instr_fetch_err
<1> SUFFICES ASSUME exc_prio = "ebreak"
             PROVE  NoErr /\ exc_req_q /\ Is({"ebreak"}) /\ npc = pc_id /\ ~instr_fetch_err
  OBVIOUS
<1>1. lsu_prio \in {"store", "load", "none"} /\ (lsu_prio = "none" <=> NoErr)
  BY DEF lsu_prio, NoErr
<1>2. id_prio = "ebreak"
  BY <1>1 DEF exc_prio
<1>3. Is({"ebreak"}) /\ ~instr_fetch_err
  BY <1>2 DEF id_prio
<1>4. WritebackStage => NoErr
  BY <1>1 DEF exc_prio
<1>5. ~WritebackStage => NoErr
  BY <1>3 DEF PInv, FlushInv, lsu_req_dec, Is
<1>6. QED
  BY <1>3, <1>4, <1>5 DEF PInv, FlushInv, Traps, Is

\* FLUSH keeps the invariant: it sends the core on, enters debug mode or sleeps.
LEMMA FlushKeeps ==
  ASSUME PInv, ctrl_fsm_cs = "FLUSH", NEW i \in Inputs, NEW t, Cycle(i, Ctrl(i, t))
  PROVE  PInv'
<1> DEFINE c == Ctrl(i, t)
<1>1. FlushOutput(c)
  BY FlushOut
<1>2. Cycle(i, c)
  OBVIOUS
<1> HIDE DEF c
<1> DEFINE toDebug == Exc /\ ebreak_to_debug
<1>3. ~controller_run /\ steps <= 1 /\ steps \in Nat
  BY DEF PInv, DebugInv, PipeType, controller_run
<1>4. toDebug => Is({"ebreak"}) /\ npc = pc_id
  BY FlushCause DEF ebreak_to_debug
<1>5. instr_valid_clear(i, c)
  <2>1. CASE toDebug
    <3>1. ~lsu_req_dec
      BY <1>4, <2>1 DEF lsu_req_dec, Is
    <3>2. ~stall(i)
      BY <1>3, <3>1, NotRunning DEF PInv, Still
    <3>3. QED
      BY <1>1, <3>2 DEF FlushOutput, instr_valid_clear
  <2>2. CASE ~toDebug
    BY <1>1, <2>2 DEF FlushOutput, instr_valid_clear
  <2>3. QED
    BY <2>1, <2>2
<1>6. ~Fetches(i, c)
  BY <1>1 DEF FlushOutput, Fetches, id_in_ready
<1>7. Settled(i, c)
  BY <1>2, <1>3, <1>5, Settles
<1>8. c.ns \in FsmState \ {"FLUSH", "IRQ_TAKEN"}
  BY <1>1 DEF FlushOutput, FsmState
<1>9. enter_debug_mode_prio_q => ~debug_mode_q
  BY DEF PInv, FlushInv
\* In debug mode an EBREAK goes to DBG_TAKEN_ID; outside it does if it enters it.
<1>10. toDebug => c.ns = "DBG_TAKEN_ID"
  BY <1>1, <1>9 DEF FlushOutput, ebreak_to_debug
<1>11. c.ns = "DBG_TAKEN_ID" => toDebug
  BY <1>1 DEF FlushOutput
<1>12. toDebug => ~c.pc_set /\ npc = pc_id
  BY <1>1, <1>4 DEF FlushOutput
<1>13. ~toDebug => c.pc_set \/ npc = pc_if
  <2>1. CASE Exc
    BY <1>1, <2>1 DEF FlushOutput
  <2>2. CASE ~Exc
    <3>1. ~Traps /\ NoErr
      BY <2>2 DEF Exc, PInv, FlushInv
    <3>2. Is({"mret", "dret"}) \/ npc = pc_if
      BY <3>1 DEF PInv, FlushInv, Is
    <3>3. QED
      BY <1>1, <2>2, <3>2 DEF FlushOutput
  <2>3. QED
    BY <2>1, <2>2
<1> HIDE DEF toDebug
<1>14. (PipeType /\ QuietInv /\ RedirectInv /\ OrderInv /\ LsuInv /\ FlushInv)'
  BY <1>3, <1>6, <1>7, <1>8, <1>10, <1>11, <1>12, <1>13, SettledKeeps
<1>15. steps' <= 1
  <2>1. CASE Stepping
    <3>1. c.csr_save # "none" => steps = 0
      BY <1>1, <2>1 DEF FlushOutput, PInv, DebugInv, Exc
    <3>2. QED
      BY <1>3, <1>7, <3>1 DEF Settled
  <2>2. CASE ~Stepping
    BY <1>7, <2>2 DEF Settled, Stepping
  <2>3. QED
    BY <2>1, <2>2
<1>16. debug_single_step /\ ~c.debug_mode =>
         \/ c.ns \in {"DBG_TAKEN_IF", "DBG_TAKEN_ID"}
         \/ c.ns = "DECODE" /\ steps' = 0
  <2>1. CASE Stepping
    <3>1. enter_debug_mode_prio_q
      BY <2>1 DEF PInv, DebugInv
    <3>2. exc_prio = "ebreak" /\ ebreak_into_debug => c.ns = "DBG_TAKEN_ID"
      BY <1>10, FlushCause DEF toDebug, Exc, ebreak_to_debug
    <3>3. QED
      BY <1>1, <3>1, <3>2 DEF FlushOutput
  <2>2. CASE debug_mode_q /\ ~c.debug_mode
    <3>1. ~Exc /\ Is({"dret"}) /\ ~enter_debug_mode_prio_q
      BY <1>1, <1>9, <2>2 DEF FlushOutput
    <3>2. c.ns = "DECODE"
      BY <1>1, <3>1 DEF FlushOutput, Is
    <3>3. QED
      BY <1>7, <2>2, <3>2 DEF Settled
  <2>3. QED
    BY <2>1, <2>2 DEF Stepping
<1>17. DebugInv'
  BY <1>3, <1>6, <1>7, <1>8, <1>15, <1>16, SettledDebug
<1>18. QED
  BY <1>14, <1>17 DEF PInv

-----------------------------------------------------------------------------
(* DECODE: what the signals amount to.                                        *)

\* In DECODE a response belongs to the access in WB, or in ID without a writeback stage.
LEMMA Responses ==
  ASSUME PInv, controller_run, NEW i \in Inputs
  PROVE  /\ i.resp \in {"none", "ok", "err"}
         /\ i.resp # "none" => lsu_owed # None /\ lsu_busy = None
         /\ (load_err(i) \/ store_err(i)) <=> i.resp = "err"
         /\ wb_exception(i) <=> WritebackStage /\ i.resp = "err"
         /\ wb_done(i) <=> ~wb_mem \/ i.resp # "none"
         /\ ready_wb(i) <=> ~wb_mem \/ i.resp # "none"
         /\ exc_req_d <=> Traps
         /\ WritebackStage /\ i.resp # "none" => wb_mem
         /\ ~WritebackStage /\ i.resp # "none" => /\ Multi /\ lsu_req_dec /\ ~id.err
                                                  /\ lsu_owed = id.kind
         /\ ~WritebackStage => wb = None /\ ~wb_mem
         /\ WritebackStage /\ wb_mem => lsu_owed = wb
         /\ WritebackStage /\ ~wb_mem => lsu_owed = None
         /\ special_req(i) <=> Is({"mret", "dret", "wfi"}) \/ csr_pipe_flush(i) \/ Traps
                                 \/ i.resp = "err"
<1>1. /\ i.resp \in {"none", "ok", "err"}
      /\ i.resp # "none" => lsu_owed # None /\ lsu_busy = None
  BY InputFacts
<1>2. /\ lsu_owed \in {None, "load", "store"} /\ None \notin {"load", "store", "other"}
      /\ ~load_err_q /\ ~store_err_q
  BY InstrFacts DEF PInv, PipeType, Access, QuietInv, NoErr, controller_run
<1>3. (load_err(i) \/ store_err(i)) <=> i.resp = "err"
  BY <1>1, <1>2 DEF load_err, store_err, lsu_resp_err
<1>4. wb_exception(i) <=> WritebackStage /\ i.resp = "err"
  BY <1>2, <1>3 DEF wb_exception
<1>5. wb_done(i) <=> ~wb_mem \/ i.resp # "none"
  BY DEF wb_done, lsu_resp_valid
<1>6. exc_req_d <=> Traps
  BY DEF exc_req_d, Traps, controller_run
<1>7. /\ WritebackStage /\ wb_mem => lsu_owed = wb
      /\ WritebackStage /\ ~wb_mem => lsu_owed = None
      /\ ~WritebackStage => wb = None
  BY DEF PInv, LsuInv
<1>8. ~WritebackStage => ~wb_mem
  BY <1>2, <1>7 DEF wb_mem
<1>9. ready_wb(i) <=> ~wb_mem \/ i.resp # "none"
  BY <1>5, <1>8 DEF ready_wb
<1>10. ~WritebackStage /\ i.resp # "none" => /\ Multi /\ lsu_req_dec /\ ~id.err
                                             /\ lsu_owed = id.kind
  <2> SUFFICES ASSUME ~WritebackStage, i.resp # "none"
               PROVE  Multi /\ lsu_req_dec /\ ~id.err /\ lsu_owed = id.kind
    OBVIOUS
  <2>1. Multi /\ Is({lsu_owed}) /\ ~id.err
    BY <1>1 DEF PInv, LsuInv
  <2>2. QED
    BY <1>1, <1>2, <2>1 DEF Is, lsu_req_dec
<1>11. special_req(i) <=> Is({"mret", "dret", "wfi"}) \/ csr_pipe_flush(i) \/ Traps
                            \/ i.resp = "err"
  BY <1>3, <1>6 DEF special_req, exc_req_lsu
<1>12. QED
  BY <1>1, <1>3, <1>4, <1>5, <1>6, <1>7, <1>8, <1>9, <1>10, <1>11

\* An instruction executes only if WB has room; unless the controller retains it, it stays in
\* ID exactly as long as it is not done.
LEMMA Executing ==
  ASSUME PInv, controller_run, NEW i \in Inputs, id # None
  PROVE  /\ instr_executing(i) => instr_executing_spec
         /\ WritebackStage /\ instr_executing(i) => ready_wb(i) /\ i.resp # "err" /\ ~Traps
         /\ instr_executing_spec => ~id.err /\ ~stall_ld_hz
         /\ en_wb(i) => instr_executing(i) /\ ~stall_id(i) /\ ready_wb(i)
         /\ instr_id_done(i) <=> en_wb(i)
         /\ stall(i) <=> stall_id(i)
         /\ ~special_req(i) => (stall(i) <=> ~en_wb(i))
<1>1. instr_valid
  BY DEF instr_valid
<1>2. instr_executing_spec => ~id.err /\ ~stall_ld_hz
  BY <1>1 DEF instr_executing_spec, instr_fetch_err
<1>3. instr_executing(i) => instr_executing_spec
  BY DEF instr_executing, instr_executing_spec, instr_kill
<1>4. WritebackStage /\ instr_executing(i) => ready_wb(i) /\ i.resp # "err" /\ ~Traps
  BY Responses DEF instr_executing, instr_kill, id_exception, outstanding_memory_access,
                   lsu_resp_valid
<1>5. en_wb(i) => instr_executing(i) /\ ~stall_id(i) /\ ready_wb(i)
  BY <1>4 DEF en_wb, instr_done, ready_wb
<1>6. (instr_id_done(i) <=> en_wb(i)) /\ (stall(i) <=> stall_id(i))
  BY <1>5 DEF instr_id_done, stall, stall_wb
<1>7. ~special_req(i) => (stall(i) <=> ~en_wb(i))
  <2> SUFFICES ASSUME ~special_req(i), ~stall_id(i) PROVE instr_executing(i)
    BY <1>5, <1>6 DEF en_wb, instr_done
  <2>1. ~Traps /\ i.resp # "err" /\ ~instr_fetch_err
    BY Responses DEF Traps
  <2>2. ~stall_ld_hz /\ ~outstanding_memory_access(i)
    BY <1>1 DEF stall_id, stall_mem, outstanding_memory_access
  <2>3. CASE WritebackStage
    BY <1>1, <2>1, <2>2, <2>3, Responses DEF instr_executing, instr_kill, id_exception
  <2>4. CASE ~WritebackStage
    BY <1>1, <2>1, <2>2, <2>4 DEF instr_executing, instr_executing_spec
  <2>5. QED
    BY <2>3, <2>4
<1>8. QED
  BY <1>2, <1>3, <1>4, <1>5, <1>6, <1>7

\* The registers after a cycle in DECODE.
Advanced(i, c) ==
  /\ ctrl_fsm_cs' = c.ns /\ config' = config
  /\ WritebackStage /\ en_wb(i) =>
       wb' = (IF lsu_req_dec THEN id.kind ELSE "other") /\ pc_wb' = pc_id
  /\ ~(WritebackStage /\ en_wb(i)) =>
       wb' = (IF wb_done(i) THEN None ELSE wb) /\ pc_wb' = pc_wb
  /\ id_fsm_q' = IF instr_executing(i) THEN id_fsm_d(i) ELSE id_fsm_q
  /\ branch_set_raw_q' <=> branch_set_raw_d
  /\ branch_jump_set_done_q' <=> /\ branch_set_raw \/ jump_set_raw \/ branch_jump_set_done_q
                                 /\ ~instr_valid_clear(i, c)
  /\ load_err_q' <=> load_err(i)
  /\ store_err_q' <=> store_err(i)
  /\ exc_req_q' <=> exc_req_d
  /\ illegal_insn_q' <=> illegal_insn_d
  /\ enter_debug_mode_prio_q' <=> enter_debug_mode_prio_d(i)
  /\ do_single_step_q' <=> do_single_step_d
  /\ debug_mode_q' <=> debug_mode_q
  /\ ~debug_mode_q => debug_single_step' = debug_single_step
  /\ npc' = npc_after(i)
  /\ steps' = IF ~Stepping THEN 0
              ELSE steps + (IF wb_executes(i) THEN 1 ELSE 0)
                         + (IF id_executes(i) THEN 1 ELSE 0)
  /\ Fetches(i, c) => pc_if' = After(pc_if, 1) /\ pc_id' = pc_if /\ id' \in Instrs
  /\ ~Fetches(i, c) => /\ pc_if' = (IF c.pc_set THEN branch_target ELSE pc_if)
                       /\ pc_id' = pc_id
                       /\ id' = IF instr_valid_clear(i, c) THEN None ELSE id
  /\ Lsu(i)

\* The registers after a cycle in DECODE are those of Advanced.
LEMMA Advances ==
  ASSUME PInv, controller_run, NEW i \in Inputs, NEW c, Cycle(i, c),
         DecodeOutput(i, c, ~i.exec)
  PROVE  Advanced(i, c)
<1>1. c.csr_save = "none" /\ c.pc = branch_target /\ (c.debug_mode <=> debug_mode_q)
  BY DEF DecodeOutput
<1>2. /\ ctrl_fsm_cs' = c.ns
      /\ load_err_q' <=> load_err(i)
      /\ store_err_q' <=> store_err(i)
      /\ exc_req_q' <=> exc_req_d
      /\ illegal_insn_q' <=> illegal_insn_d
      /\ enter_debug_mode_prio_q' <=> enter_debug_mode_prio_d(i)
      /\ do_single_step_q' <=> do_single_step_d
      /\ debug_mode_q' <=> debug_mode_q
  BY <1>1 DEF Cycle, ControllerRegisters
<1>3. /\ id_fsm_q' = IF instr_executing(i) THEN id_fsm_d(i) ELSE id_fsm_q
      /\ branch_set_raw_q' <=> branch_set_raw_d
      /\ branch_jump_set_done_q' <=> /\ branch_set_raw \/ jump_set_raw \/ branch_jump_set_done_q
                                     /\ ~instr_valid_clear(i, c)
  BY DEF Cycle, IdRegisters
<1>4. ~debug_mode_q => debug_single_step' = debug_single_step
  BY DEF Cycle, Csrs
<1>5. npc' = npc_after(i)
  BY DEF Cycle, SequentialMachine, controller_run
<1>6. steps' = IF ~Stepping THEN 0
               ELSE steps + (IF wb_executes(i) THEN 1 ELSE 0)
                          + (IF id_executes(i) THEN 1 ELSE 0)
  <2>1. steps \in Nat
    BY DEF PInv, PipeType
  <2>2. steps' = IF debug_mode_q \/ ~debug_single_step THEN 0
                 ELSE steps + (IF wb_executes(i) THEN 1 ELSE 0)
                            + (IF id_executes(i) THEN 1 ELSE 0)
                            + (IF c.csr_save # "none" /\ ~c.debug_csr_save THEN 1 ELSE 0)
    BY DEF Cycle, SequentialMachine
  <2>3. QED
    BY <1>1, <2>1, <2>2 DEF Stepping
<1>7. /\ Fetches(i, c) => pc_if' = After(pc_if, 1) /\ pc_id' = pc_if /\ id' \in Instrs
      /\ ~Fetches(i, c) => /\ pc_if' = (IF c.pc_set THEN branch_target ELSE pc_if)
                           /\ pc_id' = pc_id
                           /\ id' = IF instr_valid_clear(i, c) THEN None ELSE id
  BY <1>1 DEF Cycle, FetchStage, Fetches
<1>8. /\ WritebackStage /\ en_wb(i) =>
           wb' = (IF lsu_req_dec THEN id.kind ELSE "other") /\ pc_wb' = pc_id
      /\ ~(WritebackStage /\ en_wb(i)) =>
           wb' = (IF wb_done(i) THEN None ELSE wb) /\ pc_wb' = pc_wb
      /\ config' = config /\ Lsu(i)
  BY DEF Cycle, WbRegisters
<1>9. QED
  BY <1>2, <1>3, <1>4, <1>5, <1>6, <1>7, <1>8 DEF Advanced

\* A cycle in DECODE keeps the registers' types.
LEMMA AdvancedTyped ==
  ASSUME PInv, NEW i \in Inputs, NEW c, Advanced(i, c), DecodeOutput(i, c, ~i.exec)
  PROVE  PipeType'
<1> USE DEF PInv, PipeType
<1>1. Instrs' = Instrs /\ config' \in DOMAIN Config
  BY DEF Advanced, Instrs
<1>2. id' \in (Instrs \cup {None})'
  BY <1>1 DEF Advanced
<1>3. lsu_req_dec => id.kind \in {"load", "store"}
  BY DEF lsu_req_dec, Is
<1>4. wb' \in {None, "load", "store", "other"}
  BY <1>3 DEF Advanced
<1>5. lsu_busy' \in Access /\ lsu_owed' \in Access
  <2> DEFINE access == IF lsu_busy # None THEN lsu_busy
                       ELSE IF lsu_req(i) THEN id.kind ELSE None
  <2>1. access \in Access
    BY <1>3 DEF Access, lsu_req
  <2>2. IF lsu_req_done(i) THEN lsu_busy' = None /\ lsu_owed' = access
        ELSE /\ lsu_busy' = access
             /\ lsu_owed' = IF lsu_resp_valid(i) THEN None ELSE lsu_owed
    BY DEF Advanced, Lsu
  <2> HIDE DEF access
  <2>3. QED
    BY <2>1, <2>2 DEF Access
<1>6. ctrl_fsm_cs' \in FsmState
  BY DEF Advanced, DecodeOutput, FsmState
<1>7. id_fsm_q' \in {"FIRST_CYCLE", "MULTI_CYCLE"}
  BY DEF Advanced, id_fsm_d
<1>8. steps' \in Nat
  <2>1. steps \in Nat
    OBVIOUS
  <2>2. QED
    BY <2>1 DEF Advanced
<1>9. QED
  BY <1>1, <1>2, <1>4, <1>5, <1>6, <1>7, <1>8

-----------------------------------------------------------------------------
(* DECODE with nothing in ID.                                                 *)

\* There is only the access in WB to wait for.
Empty(i, c) ==
  /\ ~stall(i) /\ ~en_wb(i) /\ ~lsu_req_dec /\ ~Traps /\ ~illegal_insn
  /\ special_req(i) <=> i.resp = "err"
  /\ id_wb_pending(i) <=> wb_mem /\ i.resp = "none"
  /\ i.resp # "none" => WritebackStage /\ wb_mem
  /\ wb_executes(i) <=> i.resp = "ok"
  /\ ~id_executes(i)
  /\ ~c.pc_set
  /\ id_fsm_q' = "FIRST_CYCLE" /\ ~branch_jump_set_done_q' /\ ~branch_set_raw_q'
  /\ lsu_busy' = None /\ lsu_owed' = IF i.resp # "none" THEN None ELSE lsu_owed
  /\ wb' = IF wb_mem /\ i.resp = "none" THEN wb ELSE None
  /\ pc_wb' = pc_wb
  /\ npc' = IF i.resp = "ok" THEN After(pc_wb, 1) ELSE npc
  /\ ~Fetches(i, c) => pc_if' = pc_if /\ id' = None

\* With ID empty nothing executes but the access in WB.
LEMMA EmptySignals ==
  ASSUME PInv, controller_run, NEW i \in Inputs, NEW c, Advanced(i, c),
         DecodeOutput(i, c, ~i.exec), id = None
  PROVE  Empty(i, c)
<1>1. ~instr_valid /\ lsu_busy = None
  BY DEF instr_valid, PInv, LsuInv, Is
<1>2. /\ ~lsu_req_dec /\ ~branch_in_dec /\ ~jump_in_dec /\ ~illegal_insn /\ ~Traps
      /\ ~instr_executing_spec /\ ~instr_executing(i)
      /\ ~Is({"mret", "dret", "wfi"}) /\ ~csr_pipe_flush(i)
  BY <1>1 DEF lsu_req_dec, branch_in_dec, jump_in_dec, illegal_insn, Traps, Is,
              instr_fetch_err, instr_executing_spec, instr_executing, csr_pipe_flush
<1>3. /\ ~lsu_req(i) /\ ~lsu_req_done(i) /\ ~en_wb(i) /\ ~id_executes(i)
      /\ ~branch_set_raw_d /\ ~jump_set_raw
  BY <1>1, <1>2 DEF lsu_req, lsu_req_done, en_wb, instr_done, id_executes, instr_id_done,
                    branch_set_raw_d, jump_set_raw
<1>4. ~stall(i)
  BY <1>1, <1>2, <1>3 DEF stall, stall_id, stall_wb, stall_ld_hz, stall_mem, stall_multicycle
<1>5. ~branch_jump_set_done_q /\ ~branch_set_raw
  BY <1>2, <1>3 DEF PInv, RedirectInv, SetsPc, branch_set_raw, BranchFlop
<1>6. /\ special_req(i) <=> i.resp = "err"
      /\ id_wb_pending(i) <=> wb_mem /\ i.resp = "none"
      /\ i.resp # "none" => WritebackStage /\ wb_mem
  BY <1>1, <1>2, Responses DEF id_wb_pending
<1>7. wb_executes(i) <=> i.resp = "ok"
  BY <1>6 DEF wb_executes
<1>8. ~c.pc_set
  BY <1>3, <1>5 DEF DecodeOutput, branch_set, jump_set
<1>9. FirstCycle
  BY DEF PInv, PipeType, RedirectInv, Multi, FirstCycle
<1>10. id_fsm_q' = "FIRST_CYCLE" /\ ~branch_jump_set_done_q' /\ ~branch_set_raw_q'
  BY <1>2, <1>3, <1>5, <1>9 DEF Advanced, FirstCycle
<1>11. lsu_busy' = None /\ lsu_owed' = IF i.resp # "none" THEN None ELSE lsu_owed
  BY <1>1, <1>3 DEF Advanced, Lsu, lsu_resp_valid
<1>12. wb' = (IF wb_mem /\ i.resp = "none" THEN wb ELSE None) /\ pc_wb' = pc_wb
  BY <1>3, Responses DEF Advanced
<1>13. npc' = IF i.resp = "ok" THEN After(pc_wb, 1) ELSE npc
  BY <1>3, <1>7 DEF Advanced, npc_after, npc_after_wb
<1>14. ~Fetches(i, c) => pc_if' = pc_if /\ id' = None
  BY <1>8 DEF Advanced
<1>15. QED
  BY <1>2, <1>3, <1>4, <1>6, <1>7, <1>8, <1>10, <1>11, <1>12, <1>13, <1>14 DEF Empty

\* A cycle in DECODE with ID empty keeps the invariant: the controller leaves for an interrupt
\* or debug mode when WB is done, and nothing is fetched while it waits for that.
LEMMA EmptyKeeps ==
  ASSUME PInv, controller_run, NEW i \in Inputs, NEW c, Advanced(i, c),
         DecodeOutput(i, c, ~i.exec), id = None
  PROVE  PInv'
<1>1. Empty(i, c)
  BY EmptySignals
<1>2. /\ WritebackStage' = WritebackStage /\ TriggerPcs' = TriggerPcs
      /\ None \notin {"load", "store", "other"} /\ None \notin Instrs
  BY InstrFacts DEF PInv, Advanced, WritebackStage, TriggerPcs
<1>3. wb_mem' <=> wb_mem /\ i.resp = "none"
  BY <1>1, <1>2 DEF Empty, wb_mem
<1>4. ctrl_fsm_cs' = IF i.resp = "err" THEN "FLUSH"
                     ELSE IF wb_mem /\ i.resp = "none" THEN "DECODE"
                     ELSE IF enter_debug_mode(i) THEN "DBG_TAKEN_IF"
                     ELSE IF handle_irq(i) THEN "IRQ_TAKEN" ELSE "DECODE"
  BY <1>1, Responses DEF Empty, Advanced, DecodeOutput
<1>5. Fetches(i, c) =>
        ~enter_debug_mode(i) /\ ~handle_irq(i) /\ i.resp # "err" /\ ctrl_fsm_cs' = "DECODE"
  BY <1>1, <1>4 DEF Fetches, id_in_ready, DecodeOutput, Empty
<1>6. i.resp \in {"none", "ok", "err"} /\ (i.resp # "none" => wb_mem /\ WritebackStage)
  BY <1>1, Responses DEF Empty
<1>7. PipeType'
  BY AdvancedTyped
<1>8. pc_if = NextPc /\ (wb_mem => npc = pc_wb)
  BY DEF PInv, OrderInv
<1>9. NoErr' <=> i.resp # "err"
  BY Responses DEF NoErr, Advanced
<1>10. i.resp # "err" => NextPc' = pc_if
  BY <1>1, <1>3, <1>6, <1>8 DEF Empty, NextPc, After
<1>11. QuietInv'
  <2>1. ctrl_fsm_cs' \notin {"DECODE", "FLUSH", "DBG_TAKEN_ID"} => id' = None /\ npc' = pc_if'
    BY <1>1, <1>3, <1>4, <1>5, <1>6, <1>10 DEF Empty, NextPc
  <2>2. ~controller_run' => ~wb_mem' /\ lsu_busy' = None /\ lsu_owed' = None /\ FirstCycle'
    <3>1. ~wb_mem => lsu_owed = None
      BY Responses DEF PInv, LsuInv, Is, instr_valid
    <3>2. QED
      BY <1>1, <1>3, <1>4, <1>6, <3>1 DEF Empty, controller_run, FirstCycle
  <2>3. QED
    BY <1>4, <1>9, <2>1, <2>2 DEF QuietInv
<1>12. RedirectInv'
  BY <1>1 DEF Empty, RedirectInv, Multi
<1>13. OrderInv'
  <2>1. wb_mem' => npc' = pc_wb'
    BY <1>1, <1>3, <1>8 DEF Empty
  <2>2. CASE Fetches(i, c)
    <3>1. id' # None /\ pc_id' = pc_if /\ pc_if' = After(pc_if, 1)
      BY <1>2, <2>2 DEF Advanced
    <3>2. QED
      BY <1>1, <1>5, <1>10, <2>1, <2>2, <3>1 DEF Empty, OrderInv, After
  <2>3. CASE ~Fetches(i, c)
    BY <1>1, <1>4, <1>10, <2>1, <2>3 DEF Empty, OrderInv, controller_run
  <2>4. QED
    BY <2>2, <2>3
<1>14. LsuInv'
  <2>1. WritebackStage => lsu_owed = IF wb_mem THEN wb ELSE None
    BY DEF PInv, LsuInv
  <2>2. ~WritebackStage => wb' = None /\ lsu_owed' = None
    <3>1. ~WritebackStage => lsu_owed = None
      BY DEF PInv, LsuInv, Is, instr_valid
    <3>2. ~WritebackStage => ~wb_mem
      BY Responses
    <3>3. QED
      BY <1>1, <3>1, <3>2 DEF Empty
  <2>3. WritebackStage => lsu_owed' = IF wb_mem' THEN wb' ELSE None
    BY <1>1, <1>3, <1>6, <2>1 DEF Empty
  <2>4. QED
    BY <1>1, <1>2, <2>2, <2>3 DEF Empty, LsuInv
<1>15. FlushInv'
  <2> SUFFICES ASSUME ctrl_fsm_cs' = "FLUSH" PROVE FlushInv'
    BY DEF FlushInv
  <2>1. i.resp = "err" /\ ~Fetches(i, c) /\ WritebackStage
    BY <1>4, <1>5, <1>6
  <2>2. id' = None /\ npc' = pc_wb' /\ ~NoErr'
    BY <1>1, <1>6, <1>8, <1>9, <2>1 DEF Empty
  <2>3. ~illegal_insn_q' /\ ~illegal_insn'
    BY <1>1, <2>2 DEF Empty, Advanced, illegal_insn_d, illegal_insn, Is, instr_valid
  <2>4. enter_debug_mode_prio_q' => ~debug_mode_q'
    BY DEF Advanced, enter_debug_mode_prio_d
  <2>5. QED
    BY <1>2, <2>1, <2>2, <2>3, <2>4 DEF FlushInv
<1>16. DebugInv'
  <2>1. id' # None /\ pc_id' \in TriggerPcs' => debug_mode_q'
    BY <1>1, <1>2, <1>5 DEF Empty, Advanced, enter_debug_mode, trigger_match
  <2>2. ctrl_fsm_cs' = "IRQ_TAKEN" =>
          ~debug_mode_q' /\ ~debug_single_step' /\ pc_if' \notin TriggerPcs'
    BY <1>1, <1>2, <1>4, <1>5
       DEF Empty, Advanced, enter_debug_mode, trigger_match, handle_irq
  <2>3. steps \in Nat /\ steps <= 1
    BY DEF PInv, PipeType, DebugInv
  <2>4. CASE ~Stepping
    <3>1. steps' = 0 /\ ~Stepping'
      BY <2>4 DEF Advanced, Stepping
    <3>2. QED
      BY <2>1, <2>2, <3>1 DEF DebugInv
  <2>5. CASE Stepping
    <3>1. /\ ~do_single_step_q => ~wb_mem /\ steps = 0
          /\ wb_mem => steps = 0
      BY <2>5 DEF PInv, DebugInv
    <3>2. steps' = IF i.resp = "ok" THEN steps + 1 ELSE steps
      BY <1>1, <2>3, <2>5 DEF Empty, Advanced
    <3>3. do_single_step_q' <=> do_single_step_q
      BY DEF Advanced, do_single_step_d, instr_valid
    <3>4. do_single_step_q => enter_debug_mode(i) /\ enter_debug_mode_prio_q'
      BY <2>5 DEF Stepping, enter_debug_mode, enter_debug_mode_prio_d, do_single_step_d,
                  instr_valid, Advanced
    <3>5. steps' <= 1
      BY <1>6, <2>3, <3>1, <3>2
    <3>6. ctrl_fsm_cs' \in {"DECODE", "FLUSH", "DBG_TAKEN_IF", "DBG_TAKEN_ID"}
      BY <1>4, <2>5 DEF Stepping, handle_irq
    <3>7. ctrl_fsm_cs' = "FLUSH" => enter_debug_mode_prio_q' /\ steps' = 0
      BY <1>4, <1>6, <3>1, <3>2, <3>4
    <3>8. id' # None \/ ~do_single_step_q' => ~wb_mem' /\ steps' = 0
      BY <1>1, <1>3, <1>5, <1>6, <3>1, <3>2, <3>3, <3>4 DEF Empty
    <3>9. wb_mem' => steps' = 0
      BY <1>3, <3>1, <3>2
    <3>10. QED
      BY <2>1, <2>2, <3>5, <3>6, <3>7, <3>8, <3>9 DEF DebugInv
  <2>6. QED
    BY <2>4, <2>5
<1>17. QED
  BY <1>7, <1>11, <1>12, <1>13, <1>14, <1>15, <1>16 DEF PInv

-----------------------------------------------------------------------------
(* DECODE with an instruction in ID.                                          *)

\* The instruction in ID has redirected the fetch, or does so in this cycle.
Redirected == branch_set_raw \/ jump_set_raw \/ branch_jump_set_done_q

\* The fetch is at the target once the instruction in ID has redirected it, after it before.
LEMMA Redirecting ==
  ASSUME PInv, controller_run, id # None, NEW i \in Inputs, NEW c,
         DecodeOutput(i, c, ~i.exec)
  PROVE  /\ (IF c.pc_set THEN branch_target ELSE pc_if)
              = IF Redirected THEN branch_target ELSE After(pc_id, 1)
         /\ Redirected => SetsPc \/ jump_in_dec
         /\ branch_set_raw_d => SetsPc
<1>1. pc_if = IF branch_jump_set_done_q THEN branch_target ELSE After(pc_id, 1)
  BY DEF PInv, OrderInv
<1>2. c.pc_set <=> (branch_set_raw \/ jump_set_raw) /\ ~branch_jump_set_done_q
  BY DEF DecodeOutput, branch_set, jump_set
<1>3. branch_set_raw_d => SetsPc
  BY DEF branch_set_raw_d, SetsPc, branch_decision
<1>4. Redirected => SetsPc \/ jump_in_dec
  BY <1>3 DEF Redirected, PInv, RedirectInv, branch_set_raw, BranchFlop, jump_set_raw
<1>5. QED
  BY <1>1, <1>2, <1>3, <1>4 DEF Redirected

\* An access that is requesting is that of the instruction in ID, which is no other's.
LEMMA Busy ==
  ASSUME PInv, controller_run, NEW i \in Inputs, lsu_busy # None
  PROVE  /\ id # None /\ lsu_req_dec /\ id.kind = lsu_busy /\ ~id.err /\ ~Traps
         /\ lsu_owed = None /\ i.resp = "none" /\ ~wb_mem
         /\ ~WritebackStage => Multi
         /\ ~special_req(i) /\ ready_wb(i)
<1>1. Is({lsu_busy}) /\ ~id.err /\ lsu_owed = None
  BY DEF PInv, LsuInv
<1>2. lsu_busy \in {"load", "store"} /\ None \notin {"load", "store", "other"}
  BY InstrFacts DEF PInv, PipeType, Access
<1>3. id # None /\ lsu_req_dec /\ id.kind = lsu_busy
  BY <1>1, <1>2 DEF Is, lsu_req_dec, instr_valid
<1>4. ~Traps /\ ~Is({"mret", "dret", "wfi"}) /\ ~Is({"csr"})
  BY <1>1, <1>2, <1>3 DEF Traps, Is, illegal_insn, instr_fetch_err
<1>5. i.resp = "none" /\ ~wb_mem
  BY <1>1, <1>2, Responses DEF wb_mem
<1>6. ~WritebackStage => Multi
  BY DEF PInv, LsuInv
<1>7. ~special_req(i) /\ ready_wb(i)
  BY <1>4, <1>5, Responses DEF csr_pipe_flush
<1>8. QED
  BY <1>1, <1>3, <1>4, <1>5, <1>6, <1>7

\* Only the instruction in ID requests, when nothing older is in its way.
LEMMA Requests ==
  ASSUME PInv, controller_run, id # None, NEW i \in Inputs
  PROVE  /\ WritebackStage /\ lsu_req_done(i) => en_wb(i) /\ lsu_req_dec
         /\ lsu_req(i) => /\ lsu_req_dec /\ instr_executing(i) /\ ~id.err /\ ready_wb(i)
                          /\ ~WritebackStage => FirstCycle
<1>1. lsu_req(i) => /\ lsu_req_dec /\ instr_executing(i) /\ ~id.err /\ ready_wb(i)
                    /\ ~WritebackStage => FirstCycle
  BY Executing, Responses DEF lsu_req, data_req_allowed
<1>2. ASSUME WritebackStage, lsu_req_done(i)
      PROVE  en_wb(i) /\ lsu_req_dec
  <2>1. lsu_req_dec /\ ready_wb(i)
    BY <1>1, <1>2, Busy DEF lsu_req_done
  <2>2. instr_executing(i)
    <3>1. CASE lsu_req(i)
      BY <1>1, <3>1
    <3>2. CASE lsu_busy # None
      <4>1. ~id.err /\ ~Traps /\ ~wb_mem /\ i.resp = "none"
        BY <3>2, Busy
      <4>2. ~stall_ld_hz /\ ~outstanding_memory_access(i) /\ ~instr_kill(i)
        BY <4>1, Responses DEF stall_ld_hz, wb_mem, outstanding_memory_access, instr_kill,
                             id_exception, instr_fetch_err
      <4>3. QED
        BY <1>2, <4>2 DEF instr_executing, instr_valid
    <3>3. QED
      BY <1>2, <3>1, <3>2 DEF lsu_req_done
  <2>3. ~outstanding_memory_access(i)
    BY <2>1, Responses DEF outstanding_memory_access, lsu_resp_valid
  <2>4. ~stall_mem(i) /\ ~stall_multicycle(i) /\ ~stall_ld_hz
    BY <1>2, <2>1, <2>2, <2>3, Executing DEF stall_mem, stall_multicycle
  <2>5. QED
    BY <2>1, <2>2, <2>4 DEF en_wb, instr_done, stall_id
<1>3. QED
  BY <1>1, <1>2

\* The instruction in ID stays there and is not flushed.
Holds(i) == IF special_req(i) THEN ~ready_wb(i) ELSE ~en_wb(i)

Held(i, c) ==
  /\ ~en_wb(i) /\ i.resp # "err" /\ ~id_executes(i)
  /\ WritebackStage => ~lsu_req_done(i)
  /\ ~WritebackStage => i.resp = "none"
  /\ ctrl_fsm_cs' = "DECODE" /\ id' = id /\ pc_id' = pc_id
  /\ wb' = (IF wb_mem /\ i.resp = "none" THEN wb ELSE None) /\ pc_wb' = pc_wb
  /\ npc' = IF WritebackStage /\ i.resp = "ok" THEN After(pc_wb, 1) ELSE npc
  /\ branch_jump_set_done_q' <=> Redirected
  /\ pc_if' = IF Redirected THEN branch_target ELSE After(pc_id, 1)

\* While the instruction in ID stays, only the access in WB may execute.
LEMMA HoldSignals ==
  ASSUME PInv, controller_run, NEW i \in Inputs, NEW c, Advanced(i, c),
         DecodeOutput(i, c, ~i.exec), id # None, Holds(i)
  PROVE  Held(i, c)
<1>1. ~en_wb(i) /\ ~id_executes(i)
  BY Executing DEF Holds, id_executes
<1>2. i.resp # "err"
  BY Responses DEF Holds
<1>3. WritebackStage => ~lsu_req_done(i)
  BY <1>1, Requests
<1>4. ~WritebackStage => i.resp = "none"
  <2> SUFFICES ASSUME ~WritebackStage, i.resp # "none" PROVE en_wb(i)
    BY <1>1
  <2>1. Multi /\ lsu_req_dec /\ ~id.err
    BY Responses
  <2>2. ~stall_ld_hz /\ ~stall_multicycle(i) /\ ~stall_mem(i)
    BY <2>1 DEF stall_ld_hz, stall_multicycle, stall_mem, lsu_resp_valid, FirstCycle, Multi
  <2>3. instr_executing(i)
    BY <2>1, <2>2 DEF instr_executing, instr_executing_spec, instr_valid, instr_fetch_err
  <2>4. QED
    BY <2>2, <2>3 DEF en_wb, instr_done, stall_id
<1>5. stall(i) \/ c.retain_id
  BY <1>1, Executing DEF DecodeOutput
<1>6. ctrl_fsm_cs' = "DECODE"
  BY <1>2, Responses DEF Advanced, DecodeOutput, Holds, id_wb_pending, instr_valid
<1>7. ~instr_valid_clear(i, c) /\ ~Fetches(i, c)
  BY <1>5 DEF instr_valid_clear, Fetches, id_in_ready, DecodeOutput
<1>8. id' = id /\ pc_id' = pc_id
      /\ pc_if' = IF Redirected THEN branch_target ELSE After(pc_id, 1)
  BY <1>7, Redirecting DEF Advanced
<1>9. branch_jump_set_done_q' <=> Redirected
  BY <1>7 DEF Advanced, Redirected
<1>10. wb' = (IF wb_mem /\ i.resp = "none" THEN wb ELSE None) /\ pc_wb' = pc_wb
  BY <1>1, Responses DEF Advanced
<1>11. npc' = IF WritebackStage /\ i.resp = "ok" THEN After(pc_wb, 1) ELSE npc
  BY <1>1, Responses DEF Advanced, npc_after, npc_after_wb, wb_executes
<1>12. QED
  BY <1>1, <1>2, <1>3, <1>4, <1>6, <1>8, <1>9, <1>10, <1>11 DEF Held

\* While the instruction stays, so does what the decoder says of it.
LEMMA SameInstr ==
  ASSUME NEW i, NEW c, Advanced(i, c), id' = id, pc_id' = pc_id
  PROVE  /\ WritebackStage' = WritebackStage /\ TriggerPcs' = TriggerPcs
         /\ (BranchFlop' <=> BranchFlop) /\ (SetsPc' <=> SetsPc)
         /\ jump_in_dec' = jump_in_dec /\ branch_in_dec' = branch_in_dec
         /\ lsu_req_dec' = lsu_req_dec /\ branch_target' = branch_target
         /\ \A K : Is(K)' = Is(K)
         /\ (illegal_insn' <=> illegal_insn) /\ (Traps' <=> Traps)
<1>1. config' = config /\ (debug_mode_q' <=> debug_mode_q)
  BY DEF Advanced
<1>2. /\ WritebackStage' = WritebackStage /\ TriggerPcs' = TriggerPcs
      /\ (BranchFlop' <=> BranchFlop) /\ data_ind_timing' = data_ind_timing
  BY <1>1 DEF WritebackStage, TriggerPcs, BranchFlop, BranchTargetALU, data_ind_timing
<1>3. \A K : Is(K)' = Is(K)
  BY DEF Is, instr_valid
<1>4. /\ jump_in_dec' = jump_in_dec /\ branch_in_dec' = branch_in_dec
      /\ lsu_req_dec' = lsu_req_dec /\ branch_target' = branch_target
      /\ (instr_fetch_err' <=> instr_fetch_err)
  BY <1>3 DEF jump_in_dec, branch_in_dec, lsu_req_dec, branch_target, instr_fetch_err,
              instr_valid
<1>5. SetsPc' <=> SetsPc
  BY <1>2, <1>3, <1>4 DEF SetsPc
<1>6. illegal_insn' <=> illegal_insn
  BY <1>1, <1>3 DEF illegal_insn
<1>7. Traps' <=> Traps
  BY <1>3, <1>4, <1>6 DEF Traps
<1>8. QED
  BY <1>2, <1>3, <1>4, <1>5, <1>6, <1>7

\* How the instruction in ID comes to need another cycle.
LEMMA MoreCycles ==
  ASSUME PInv, controller_run, id # None, NEW i \in Inputs, NEW c, Advanced(i, c), Multi'
  PROVE  \/ Multi
         \/ /\ instr_executing(i) /\ instr_executing_spec /\ FirstCycle
            /\ enters_multi_cycle(i)
            /\ Is({"alu2", "mul", "load", "store", "branch", "taken", "jump", "fence_i"})
            /\ branch_in_dec => BranchFlop
<1> SUFFICES ASSUME ~Multi
             PROVE  /\ instr_executing(i) /\ instr_executing_spec /\ FirstCycle
                    /\ enters_multi_cycle(i)
                    /\ Is({"alu2", "mul", "load", "store", "branch", "taken", "jump", "fence_i"})
                    /\ branch_in_dec => BranchFlop
  OBVIOUS
<1>1. FirstCycle
  BY DEF Multi, FirstCycle, PInv, PipeType
<1>2. instr_executing(i) /\ instr_executing_spec /\ enters_multi_cycle(i)
  BY <1>1, Executing DEF Advanced, Multi, FirstCycle, id_fsm_d
<1>3. Is({"alu2", "mul", "load", "store", "branch", "taken", "jump", "fence_i"})
  <2>1. lsu_req_dec \/ multdiv_en_dec \/ branch_in_dec \/ jump_in_dec \/ Is({"alu2"})
    BY <1>2 DEF enters_multi_cycle
  <2>2. QED
    BY <2>1 DEF lsu_req_dec, multdiv_en_dec, branch_in_dec, jump_in_dec, Is
<1>4. branch_in_dec => BranchFlop
  <2> SUFFICES ASSUME branch_in_dec PROVE BranchFlop
    OBVIOUS
  <2>1. ~lsu_req_dec /\ ~multdiv_en_dec /\ ~jump_in_dec
    BY DEF branch_in_dec, lsu_req_dec, multdiv_en_dec, jump_in_dec, Is
  <2>2. two_cycle_branch
    BY <1>2, <2>1 DEF enters_multi_cycle
  <2>3. QED
    BY <2>2 DEF two_cycle_branch, BranchFlop
<1>5. QED
  BY <1>1, <1>2, <1>3, <1>4

\* A cycle in DECODE in which the instruction in ID stays keeps the invariant.
LEMMA HoldKeeps ==
  ASSUME PInv, controller_run, NEW i \in Inputs, NEW c, Advanced(i, c),
         DecodeOutput(i, c, ~i.exec), id # None, Holds(i)
  PROVE  PInv'
<1>1. Held(i, c)
  BY HoldSignals
<1>2. /\ id' = id /\ pc_id' = pc_id /\ ctrl_fsm_cs' = "DECODE"
      /\ None \notin {"load", "store", "other"}
  BY <1>1, InstrFacts DEF Held, PInv
<1>3. /\ WritebackStage' = WritebackStage /\ TriggerPcs' = TriggerPcs
      /\ (BranchFlop' <=> BranchFlop) /\ (SetsPc' <=> SetsPc)
      /\ jump_in_dec' = jump_in_dec /\ branch_in_dec' = branch_in_dec
      /\ branch_target' = branch_target
  BY <1>2, SameInstr
<1>4. \A K : Is(K)' = Is(K)
  BY <1>2, SameInstr
<1>5. wb_mem' <=> wb_mem /\ i.resp = "none"
  BY <1>1, <1>2 DEF Held, wb_mem
<1>6. i.resp \in {"none", "ok", "err"} /\ (i.resp = "ok" => wb_mem /\ WritebackStage)
  BY <1>1, Responses DEF Held
<1>7. PipeType'
  BY AdvancedTyped
<1>8. QuietInv'
  BY <1>1, <1>2, Responses DEF QuietInv, Held, Advanced, NoErr, controller_run
<1>9. RedirectInv'
  <2>1. branch_jump_set_done_q' => SetsPc' \/ jump_in_dec'
    BY <1>1, <1>3, Redirecting DEF Held
  <2>2. branch_set_raw_q' => SetsPc'
    BY <1>3, Redirecting DEF Advanced
  <2>3. ASSUME Multi'
        PROVE  /\ id' # None /\ ~id.err' /\ ~wb_mem'
               /\ Is({"alu2", "mul", "load", "store", "branch", "taken", "jump", "fence_i"})'
               /\ jump_in_dec' => branch_jump_set_done_q'
               /\ branch_in_dec' =>
                    BranchFlop' /\ (Is({"taken"})' => branch_jump_set_done_q' \/ branch_set_raw_q')
    <3>1. CASE Multi
      <4>1. /\ ~id.err /\ ~wb_mem
            /\ Is({"alu2", "mul", "load", "store", "branch", "taken", "jump", "fence_i"})
            /\ jump_in_dec => branch_jump_set_done_q
            /\ branch_in_dec =>
                 BranchFlop /\ (Is({"taken"}) => branch_jump_set_done_q \/ branch_set_raw_q)
        BY <3>1 DEF PInv, RedirectInv
      <4>2. branch_jump_set_done_q \/ (BranchFlop /\ branch_set_raw_q) => branch_jump_set_done_q'
        BY <1>1 DEF Held, Redirected, branch_set_raw, BranchFlop
      <4>3. QED
        BY <1>2, <1>3, <1>4, <1>5, <4>1, <4>2
    <3>2. CASE ~Multi
      <4>1. /\ instr_executing(i) /\ instr_executing_spec /\ FirstCycle
            /\ Is({"alu2", "mul", "load", "store", "branch", "taken", "jump", "fence_i"})
            /\ branch_in_dec => BranchFlop
        BY <2>3, <3>2, MoreCycles
      <4>2. ~id.err /\ ~wb_mem'
        BY <1>5, <4>1, Executing, Responses
      <4>3. jump_in_dec => branch_jump_set_done_q'
        BY <1>1, <4>1 DEF Held, Redirected, jump_set_raw
      <4>4. branch_in_dec /\ Is({"taken"}) => branch_set_raw_q'
        BY <4>1 DEF Advanced, branch_set_raw_d, branch_decision
      <4>5. QED
        BY <1>2, <1>3, <1>4, <4>1, <4>2, <4>3, <4>4
    <3>3. QED
      BY <3>1, <3>2
  <2>4. QED
    BY <2>1, <2>2, <2>3 DEF RedirectInv
<1>10. OrderInv'
  <2>1. pc_id = NextPc /\ (wb_mem => npc = pc_wb)
    BY DEF PInv, OrderInv
  <2>2. NextPc' = NextPc
    BY <1>1, <1>5, <1>6 DEF Held, NextPc, After
  <2>3. wb_mem' => npc' = pc_wb'
    BY <1>1, <1>5, <2>1 DEF Held
  <2>4. pc_if' = IF branch_jump_set_done_q' THEN branch_target' ELSE After(pc_id', 1)
    BY <1>1, <1>2, <1>3 DEF Held, After
  <2>5. QED
    BY <1>2, <2>1, <2>2, <2>3, <2>4 DEF OrderInv, After
<1>11. LsuInv'
  <2> DEFINE access == IF lsu_busy # None THEN lsu_busy
                       ELSE IF lsu_req(i) THEN id.kind ELSE None
  <2>1. access # None => /\ Is({access}) /\ ~id.err
                         /\ WritebackStage /\ wb_mem => i.resp # "none"
    <3>1. CASE lsu_busy # None
      BY <3>1, Busy DEF Is, instr_valid
    <3>2. CASE lsu_busy = None /\ lsu_req(i)
      BY <3>2, Requests, Responses DEF Is, instr_valid
    <3>3. CASE lsu_busy = None /\ ~lsu_req(i)
      BY <3>3
    <3>4. QED
      BY <3>1, <3>2, <3>3
  <2>2. IF lsu_req_done(i) THEN lsu_busy' = None /\ lsu_owed' = access
        ELSE /\ lsu_busy' = access
             /\ lsu_owed' = IF i.resp # "none" THEN None ELSE lsu_owed
    BY DEF Advanced, Lsu, lsu_resp_valid
  <2>3. ~WritebackStage /\ (access # None \/ lsu_owed # None) => Multi'
    <3> SUFFICES ASSUME ~WritebackStage, access # None \/ lsu_owed # None PROVE Multi'
      OBVIOUS
    <3>1. lsu_req_dec /\ ~id.err
      <4>1. lsu_owed # None => Is({lsu_owed}) /\ ~id.err /\ lsu_owed \in {"load", "store"}
        BY DEF PInv, LsuInv, PipeType, Access
      <4>2. lsu_busy # None => lsu_req_dec /\ ~id.err
        BY Busy
      <4>3. lsu_req(i) => lsu_req_dec /\ ~id.err
        BY Requests
      <4>4. QED
        BY <4>1, <4>2, <4>3 DEF Is, lsu_req_dec
    <3>2. instr_executing_spec /\ instr_executing(i)
      BY <3>1 DEF instr_executing, instr_executing_spec, instr_valid, instr_fetch_err,
                  stall_ld_hz
    <3>3. i.resp = "none"
      BY <1>1 DEF Held
    <3>4. id_fsm_d(i) = "MULTI_CYCLE"
      <4>1. enters_multi_cycle(i)
        <5>1. ~multdiv_en_dec /\ ~branch_in_dec /\ ~jump_in_dec
          BY <3>1 DEF lsu_req_dec, multdiv_en_dec, branch_in_dec, jump_in_dec, Is
        <5>2. QED
          BY <3>1, <5>1 DEF enters_multi_cycle
      <4>2. ~multicycle_done(i)
        BY <3>1, <3>3 DEF multicycle_done, lsu_resp_valid
      <4>3. QED
        BY <3>2, <4>1, <4>2 DEF id_fsm_d
    <3>5. QED
      BY <3>2, <3>4 DEF Advanced, Multi
  <2> HIDE DEF access
  <2>4. CASE WritebackStage
    <3>1. ~lsu_req_done(i)
      BY <1>1, <2>4 DEF Held
    <3>2. lsu_owed = IF wb_mem THEN wb ELSE None
      BY <2>4 DEF PInv, LsuInv
    <3>3. lsu_busy' = access /\ lsu_owed' = IF wb_mem' THEN wb' ELSE None
      BY <1>1, <1>5, <2>2, <3>1, <3>2 DEF Held
    <3>4. lsu_busy' # None => Is({lsu_busy'}) /\ ~id.err /\ lsu_owed' = None
      BY <1>5, <2>1, <2>4, <3>3
    <3>5. QED
      BY <1>2, <1>3, <1>4, <2>4, <3>3, <3>4 DEF LsuInv, controller_run, Is, instr_valid
  <2>5. CASE ~WritebackStage
    <3>1. wb' = None /\ i.resp = "none"
      BY <1>1, <2>5, Responses DEF Held
    <3>2. lsu_busy' \in {None, access} /\ lsu_owed' \in {None, access, lsu_owed}
      BY <2>2
    <3>3. lsu_owed # None => Is({lsu_owed}) /\ ~id.err
      BY <2>5 DEF PInv, LsuInv
    <3>4. lsu_busy' # None => Is({lsu_busy'}) /\ ~id.err /\ lsu_owed' = None
      <4>1. access # None /\ ~lsu_req_done(i) => lsu_owed = None
        <5>1. lsu_busy # None => lsu_owed = None
          BY Busy
        <5>2. lsu_req(i) => FirstCycle
          BY <2>5, Requests
        <5>3. lsu_owed # None => Multi
          BY <2>5 DEF PInv, LsuInv
        <5>4. QED
          BY <5>1, <5>2, <5>3 DEF access, FirstCycle, Multi
      <4>2. QED
        BY <2>1, <2>2, <3>1, <4>1
    <3>5. lsu_owed' # None => Is({lsu_owed'}) /\ ~id.err
      BY <2>1, <3>2, <3>3
    <3>6. lsu_busy' # None \/ lsu_owed' # None => Multi'
      BY <2>3, <2>5, <3>2
    <3>7. QED
      BY <1>2, <1>3, <2>5, <3>1, <3>4, <3>5, <3>6 DEF LsuInv, controller_run, Is, instr_valid
  <2>6. QED
    BY <2>4, <2>5
<1>12. FlushInv'
  BY <1>2 DEF FlushInv
<1>13. DebugInv'
  <2>1. id' # None /\ pc_id' \in TriggerPcs' => debug_mode_q'
    BY <1>2, <1>3 DEF PInv, DebugInv, Advanced
  <2>2. CASE ~Stepping
    <3>1. steps' = 0 /\ ~Stepping'
      BY <2>2 DEF Advanced, Stepping
    <3>2. QED
      BY <1>2, <2>1, <3>1 DEF DebugInv
  <2>3. CASE Stepping
    <3>1. ~wb_mem /\ steps = 0
      BY <2>3 DEF PInv, DebugInv
    <3>2. ~wb_executes(i) /\ ~id_executes(i)
      BY <1>1, <3>1 DEF Held, wb_executes
    <3>3. ~wb_mem' /\ steps' = 0
      BY <1>5, <2>3, <3>1, <3>2 DEF Advanced
    <3>4. QED
      BY <1>2, <2>1, <3>3 DEF DebugInv
  <2>4. QED
    BY <2>2, <2>3
<1>14. QED
  BY <1>7, <1>8, <1>9, <1>10, <1>11, <1>12, <1>13 DEF PInv

\* The instruction in ID is done and moves on.
Left(i, c) ==
  /\ instr_executing(i) /\ instr_executing_spec /\ ~Traps /\ ready_wb(i)
  /\ i.resp # "err" /\ ctrl_fsm_cs' = "DECODE"
  /\ ~Is({"mret", "dret", "wfi", "csr"})
  /\ id_executes(i) <=> ~(WritebackStage /\ lsu_req_dec)
  /\ WritebackStage => wb' = (IF lsu_req_dec THEN id.kind ELSE "other") /\ pc_wb' = pc_id
  /\ ~WritebackStage => wb' = None
  /\ npc' = IF WritebackStage /\ lsu_req_dec THEN pc_id ELSE branch_target
  /\ id_fsm_q' = "FIRST_CYCLE" /\ ~branch_jump_set_done_q'
  /\ BranchFlop => ~branch_set_raw_q'
  /\ lsu_busy' = None
  /\ lsu_owed' = IF WritebackStage /\ lsu_req_dec THEN id.kind ELSE None
  /\ IF Fetches(i, c)
     THEN pc_id' = branch_target /\ id' \in Instrs /\ pc_if' = After(branch_target, 1)
     ELSE id' = None /\ pc_if' = branch_target

\* An instruction that is done has redirected the fetch if it had to, and its access, if
\* it has one, is requested (three stages) or answered (two).
LEMMA LeaveSignals ==
  ASSUME PInv, controller_run, NEW i \in Inputs, NEW c, Advanced(i, c),
         DecodeOutput(i, c, ~i.exec), id # None, ~special_req(i), en_wb(i)
  PROVE  Left(i, c)
<1>1. /\ instr_executing(i) /\ instr_executing_spec /\ ready_wb(i) /\ ~stall_id(i)
      /\ ~id.err /\ ~stall(i) /\ instr_id_done(i)
  BY Executing
<1>2. ~Traps /\ i.resp # "err" /\ ~Is({"mret", "dret", "wfi", "csr"})
  BY <1>1, Responses DEF csr_pipe_flush, Is
<1>3. ctrl_fsm_cs' = "DECODE"
  BY DEF Advanced, DecodeOutput, id_wb_pending, instr_valid
<1>4. instr_valid
  BY DEF instr_valid
<1>5. lsu_req_dec => IF WritebackStage THEN lsu_req_done(i)
                     ELSE i.resp = "ok" /\ ~FirstCycle
  BY <1>1, <1>2, <1>4, Responses DEF stall_id, stall_mem, lsu_resp_valid
<1>6. id_executes(i) <=> ~(WritebackStage /\ lsu_req_dec)
  BY <1>1, <1>2, <1>5 DEF id_executes
<1>7. pc_id = npc_after_wb(i)
  <2>1. pc_id = NextPc
    BY DEF PInv, OrderInv
  <2>2. wb_mem <=> wb_executes(i)
    BY <1>1, <1>2, Responses DEF wb_executes
  <2>3. QED
    BY <2>1, <2>2 DEF NextPc, npc_after_wb, After
<1>8. npc' = IF WritebackStage /\ lsu_req_dec THEN pc_id ELSE branch_target
  <2>1. ~Is({"mret", "dret"})
    BY <1>2 DEF Is
  <2>2. QED
    BY <1>6, <1>7, <2>1 DEF Advanced, npc_after, branch_target, After
<1>9. ~lsu_req_dec =>
        IF FirstCycle THEN ~enters_multi_cycle(i)
        ELSE multdiv_en_dec \/ branch_in_dec \/ jump_in_dec => multicycle_done(i)
  BY <1>1 DEF stall_id, stall_multicycle
<1>10. id_fsm_q' = "FIRST_CYCLE"
  <2>1. FirstCycle => ~enters_multi_cycle(i)
    <3>1. CASE lsu_req_dec
      <4>1. ~multdiv_en_dec /\ ~branch_in_dec /\ ~jump_in_dec
        BY <3>1 DEF lsu_req_dec, multdiv_en_dec, branch_in_dec, jump_in_dec, Is
      <4>2. QED
        BY <1>5, <3>1, <4>1 DEF enters_multi_cycle
    <3>2. CASE ~lsu_req_dec
      BY <1>9, <3>2
    <3>3. QED
      BY <3>1, <3>2
  <2>2. ~FirstCycle => multicycle_done(i)
    <3>1. CASE lsu_req_dec
      BY <1>1, <1>5, <3>1 DEF multicycle_done, lsu_resp_valid, stall_id
    <3>2. CASE ~lsu_req_dec
      BY <1>9, <3>2 DEF multicycle_done, multdiv_en_dec
    <3>3. QED
      BY <3>1, <3>2
  <2>3. QED
    BY <1>1, <2>1, <2>2 DEF Advanced, id_fsm_d
<1>11. branch_in_dec /\ FirstCycle => ~two_cycle_branch
  <2> SUFFICES ASSUME branch_in_dec, FirstCycle PROVE ~two_cycle_branch
    OBVIOUS
  <2>1. ~lsu_req_dec /\ ~multdiv_en_dec /\ ~jump_in_dec
    BY DEF lsu_req_dec, multdiv_en_dec, branch_in_dec, jump_in_dec, Is
  <2>2. QED
    BY <1>9, <2>1 DEF enters_multi_cycle
<1>12. BranchFlop => ~branch_set_raw_q'
  BY <1>11 DEF Advanced, branch_set_raw_d, two_cycle_branch, BranchFlop
<1>13. FirstCycle \/ Multi
  BY DEF FirstCycle, Multi, PInv, PipeType
<1>14. Is({"taken", "jump"}) => Redirected
  <2>1. CASE Is({"taken"})
    <3>1. branch_in_dec /\ branch_decision
      BY <2>1 DEF branch_in_dec, branch_decision, Is
    <3>2. CASE FirstCycle
      BY <1>1, <1>11, <3>1, <3>2 DEF two_cycle_branch, Redirected, branch_set_raw,
                                    branch_set_raw_d
    <3>3. CASE Multi
      BY <2>1, <3>1, <3>3 DEF PInv, RedirectInv, Redirected, branch_set_raw, BranchFlop
    <3>4. QED
      BY <1>13, <3>2, <3>3
  <2>2. CASE Is({"jump"})
    <3>1. jump_in_dec
      BY <2>2 DEF jump_in_dec, Is
    <3>2. QED
      BY <1>1, <1>13, <3>1 DEF PInv, RedirectInv, Redirected, jump_set_raw
  <2>3. QED
    BY <2>1, <2>2 DEF Is
<1>15. (IF c.pc_set THEN branch_target ELSE pc_if) = branch_target
  BY <1>14, Redirecting DEF branch_target
<1>16. instr_valid_clear(i, c)
  BY <1>1 DEF instr_valid_clear, DecodeOutput
<1>17. ~branch_jump_set_done_q'
  BY <1>16 DEF Advanced
<1>18. IF Fetches(i, c)
       THEN pc_id' = branch_target /\ id' \in Instrs /\ pc_if' = After(branch_target, 1)
       ELSE id' = None /\ pc_if' = branch_target
  BY <1>15, <1>16 DEF Advanced, Fetches, After
<1>19. /\ WritebackStage => wb' = (IF lsu_req_dec THEN id.kind ELSE "other") /\ pc_wb' = pc_id
       /\ ~WritebackStage => wb' = None
  BY Responses DEF Advanced
<1>20. lsu_busy' = None /\ lsu_owed' = IF WritebackStage /\ lsu_req_dec THEN id.kind ELSE None
  <2> DEFINE access == IF lsu_busy # None THEN lsu_busy
                       ELSE IF lsu_req(i) THEN id.kind ELSE None
  <2>1. IF lsu_req_done(i) THEN lsu_busy' = None /\ lsu_owed' = access
        ELSE /\ lsu_busy' = access
             /\ lsu_owed' = IF i.resp # "none" THEN None ELSE lsu_owed
    BY DEF Advanced, Lsu, lsu_resp_valid
  <2>2. CASE WritebackStage /\ lsu_req_dec
    <3>1. lsu_req_done(i)
      BY <1>5, <2>2
    <3>2. access = id.kind
      BY <3>1, Busy DEF lsu_req_done
    <3>3. QED
      BY <2>1, <2>2, <3>1, <3>2
  <2>3. CASE ~WritebackStage /\ lsu_req_dec
    <3>1. i.resp = "ok" /\ ~FirstCycle
      BY <1>5, <2>3
    <3>2. lsu_busy = None /\ ~lsu_req(i)
      BY <2>3, <3>1, Responses, Requests
    <3>3. QED
      BY <2>1, <2>3, <3>1, <3>2 DEF lsu_req_done
  <2>4. CASE ~lsu_req_dec
    <3>1. lsu_busy = None /\ ~lsu_req(i)
      BY <2>4, Busy, Requests
    <3>2. i.resp = "none" => lsu_owed = None
      <4>1. CASE WritebackStage
        BY <1>1, <4>1, Responses
      <4>2. CASE ~WritebackStage
        <5>1. lsu_owed # None => Is({lsu_owed})
          BY <4>2 DEF PInv, LsuInv
        <5>2. lsu_owed \in {None, "load", "store"}
          BY DEF PInv, PipeType, Access
        <5>3. QED
          BY <2>4, <5>1, <5>2 DEF lsu_req_dec, Is
      <4>3. QED
        BY <4>1, <4>2
    <3>3. QED
      BY <2>1, <2>4, <3>1, <3>2 DEF lsu_req_done
  <2>5. QED
    BY <2>2, <2>3, <2>4
<1>21. QED
  BY <1>1, <1>2, <1>3, <1>6, <1>8, <1>10, <1>12, <1>17, <1>18, <1>19, <1>20 DEF Left

\* A cycle in DECODE in which the instruction in ID moves on keeps the invariant.
LEMMA LeaveKeeps ==
  ASSUME PInv, controller_run, NEW i \in Inputs, NEW c, Advanced(i, c),
         DecodeOutput(i, c, ~i.exec), id # None, ~special_req(i), en_wb(i)
  PROVE  PInv'
<1>1. Left(i, c)
  BY LeaveSignals
<1>2. /\ WritebackStage' = WritebackStage /\ TriggerPcs' = TriggerPcs
      /\ (BranchFlop' <=> BranchFlop)
  BY DEF Advanced, WritebackStage, TriggerPcs, BranchFlop, BranchTargetALU, data_ind_timing
<1>3. None \notin {"load", "store", "other"} /\ None \notin Instrs
  BY InstrFacts DEF PInv
<1>4. lsu_req_dec => id.kind \in {"load", "store"}
  BY DEF lsu_req_dec, Is
<1>5. wb_mem' <=> WritebackStage /\ lsu_req_dec
  BY <1>1, <1>3, <1>4 DEF Left, wb_mem
<1>6. PipeType'
  BY AdvancedTyped
<1>7. QuietInv'
  BY <1>1, Responses DEF Left, QuietInv, Advanced, NoErr, controller_run
<1>8. RedirectInv'
  BY <1>1, <1>2 DEF Left, RedirectInv, Multi
<1>9. OrderInv'
  <2>1. wb_mem' => npc' = pc_wb'
    BY <1>1, <1>5 DEF Left
  <2>2. NextPc' = branch_target
    <3>1. CASE wb_mem'
      <4>1. ~Is({"taken", "jump"})
        BY <1>5, <3>1 DEF lsu_req_dec, Is
      <4>2. QED
        BY <1>1, <1>5, <3>1, <4>1 DEF Left, NextPc, branch_target, After
    <3>2. CASE ~wb_mem'
      BY <1>1, <1>5, <3>2 DEF Left, NextPc
    <3>3. QED
      BY <3>1, <3>2
  <2>3. CASE Fetches(i, c)
    <3>1. id' # None /\ pc_id' = branch_target /\ pc_if' = After(branch_target, 1)
      BY <1>1, <1>3, <2>3 DEF Left
    <3>2. QED
      BY <1>1, <2>1, <2>2, <3>1 DEF Left, OrderInv, After
  <2>4. CASE ~Fetches(i, c)
    BY <1>1, <2>1, <2>2, <2>4 DEF Left, OrderInv
  <2>5. QED
    BY <2>3, <2>4
<1>10. LsuInv'
  BY <1>1, <1>2, <1>5 DEF Left, LsuInv
<1>11. FlushInv'
  BY <1>1 DEF Left, FlushInv
<1>12. DebugInv'
  <2>1. Fetches(i, c) => ~enter_debug_mode(i)
    BY DEF Fetches, id_in_ready, DecodeOutput, id_wb_pending, instr_valid
  <2>2. Fetches(i, c) => pc_id' = pc_if
    BY DEF Advanced
  <2>3. id' # None /\ pc_id' \in TriggerPcs' => debug_mode_q'
    BY <1>1, <1>2, <2>1, <2>2 DEF Left, Advanced, enter_debug_mode, trigger_match
  <2>4. CASE ~Stepping
    <3>1. steps' = 0 /\ ~Stepping'
      BY <2>4 DEF Advanced, Stepping
    <3>2. QED
      BY <1>1, <2>3, <3>1 DEF Left, DebugInv
  <2>5. CASE Stepping
    <3>1. ~wb_mem /\ steps = 0
      BY <2>5 DEF PInv, DebugInv
    <3>2. do_single_step_d /\ enter_debug_mode(i)
      BY <2>5 DEF Stepping, do_single_step_d, instr_valid, enter_debug_mode,
                  enter_debug_mode_prio_d
    <3>3. id' = None /\ do_single_step_q'
      BY <1>1, <2>1, <3>2 DEF Left, Advanced
    <3>4. ~wb_executes(i)
      BY <3>1 DEF wb_executes
    <3>5. steps' = IF id_executes(i) THEN 1 ELSE 0
      BY <2>5, <3>1, <3>4 DEF Advanced
    <3>6. wb_mem' => steps' = 0
      BY <1>1, <1>5, <3>5 DEF Left
    <3>7. QED
      BY <1>1, <2>3, <3>3, <3>5, <3>6 DEF Left, DebugInv
  <2>6. QED
    BY <2>4, <2>5
<1>13. QED
  BY <1>6, <1>7, <1>8, <1>9, <1>10, <1>11, <1>12 DEF PInv

\* A special request sends the controller to FLUSH with the instruction in ID.
Flushed(i, c) ==
  /\ ctrl_fsm_cs' = "FLUSH" /\ id' = id /\ pc_id' = pc_id
  /\ WritebackStage /\ en_wb(i) => ~Traps /\ i.resp # "err" /\ ~lsu_req_dec
  /\ ~wb_mem' /\ lsu_busy' = None /\ lsu_owed' = None
  /\ id_fsm_q' = "FIRST_CYCLE"
  /\ branch_jump_set_done_q' <=> Redirected
  /\ pc_if' = IF Redirected THEN branch_target ELSE After(pc_id, 1)
  /\ Traps \/ i.resp = "err" => ~id_executes(i)

\* FLUSH is entered with nothing outstanding and the instruction retained in ID.
LEMMA FlushSignals ==
  ASSUME PInv, controller_run, NEW i \in Inputs, NEW c, Advanced(i, c),
         DecodeOutput(i, c, ~i.exec), id # None, special_req(i), ready_wb(i)
  PROVE  Flushed(i, c)
<1>1. /\ Is({"mret", "dret", "wfi"}) \/ csr_pipe_flush(i) \/ Traps \/ i.resp = "err"
      /\ None \notin {"load", "store", "other"}
  BY Responses, InstrFacts DEF PInv
<1>2. ctrl_fsm_cs' = "FLUSH"
  BY DEF Advanced, DecodeOutput
<1>3. ~instr_valid_clear(i, c) /\ ~Fetches(i, c)
  BY DEF instr_valid_clear, Fetches, id_in_ready, DecodeOutput
<1>4. /\ id' = id /\ pc_id' = pc_id
      /\ branch_jump_set_done_q' <=> Redirected
      /\ pc_if' = IF Redirected THEN branch_target ELSE After(pc_id, 1)
  BY <1>3, Redirecting DEF Advanced, Redirected
\* A load or store comes here for a fetch error, or for the error of an access.
<1>5. lsu_req_dec => id.err \/ i.resp = "err"
  BY <1>1 DEF lsu_req_dec, Traps, illegal_insn, instr_fetch_err, csr_pipe_flush, Is
<1>6. ~lsu_req(i) /\ ~lsu_req_done(i) /\ lsu_busy = None
  <2>1. lsu_busy = None
    BY Busy
  <2>2. ASSUME lsu_req(i) PROVE FALSE
    <3>1. lsu_req_dec /\ instr_executing(i) /\ ~id.err
      BY <2>2, Requests
    <3>2. i.resp = "err"
      BY <1>5, <3>1
    <3>3. ~WritebackStage
      BY <3>1, <3>2, Executing
    <3>4. QED
      BY <2>2, <3>2, <3>3, Requests, Responses DEF FirstCycle, Multi
  <2>3. QED
    BY <2>1, <2>2 DEF lsu_req_done
<1>7. lsu_busy' = None /\ lsu_owed' = None
  <2>1. i.resp = "none" => lsu_owed = None
    <3>1. CASE WritebackStage
      BY <3>1, Responses
    <3>2. CASE ~WritebackStage
      <4>1. lsu_owed # None => Is({lsu_owed}) /\ ~id.err
        BY <3>2 DEF PInv, LsuInv
      <4>2. lsu_owed \in {None, "load", "store"}
        BY DEF PInv, PipeType, Access
      <4>3. lsu_owed # None => lsu_req_dec /\ ~id.err
        BY <4>1, <4>2 DEF lsu_req_dec, Is
      <4>4. QED
        BY <1>5, <4>3
    <3>3. QED
      BY <3>1, <3>2
  <2>2. QED
    BY <1>6, <2>1 DEF Advanced, Lsu, lsu_resp_valid
\* An instruction that traps may go through its cycle without a writeback stage.
<1>8. Traps \/ i.resp = "err" => ~id_executes(i)
  <2>1. CASE Traps
    BY <2>1 DEF id_executes
  <2>2. CASE i.resp = "err" /\ WritebackStage
    BY <2>2, Executing DEF id_executes
  <2>3. CASE i.resp = "err" /\ ~WritebackStage
    BY <2>3, Responses DEF id_executes
  <2>4. QED
    BY <2>1, <2>2, <2>3
<1>9. WritebackStage /\ en_wb(i) => ~Traps /\ i.resp # "err" /\ ~lsu_req_dec
  BY <1>5, Executing
<1>10. ~wb_mem'
  BY <1>1, <1>9, Responses DEF Advanced, wb_mem
<1>11. id_fsm_q' = "FIRST_CYCLE"
  <2>1. CASE Multi
    <3>1. Is({"alu2", "mul", "load", "store", "branch", "taken", "jump", "fence_i"})
          /\ ~id.err /\ ~wb_mem
      BY <2>1 DEF PInv, RedirectInv
    <3>2. i.resp = "err"
      BY <1>1, <3>1 DEF Traps, illegal_insn, instr_fetch_err, csr_pipe_flush, Is
    <3>3. ~WritebackStage /\ lsu_req_dec
      BY <3>1, <3>2, Responses
    <3>4. instr_executing_spec /\ instr_executing(i)
      BY <3>1, <3>3 DEF instr_executing, instr_executing_spec, instr_valid, instr_fetch_err,
                        stall_ld_hz
    <3>5. multicycle_done(i)
      BY <3>2, <3>3 DEF multicycle_done, lsu_resp_valid
    <3>6. QED
      BY <2>1, <3>4, <3>5 DEF Advanced, id_fsm_d, FirstCycle, Multi
  <2>2. CASE ~Multi
    <3> SUFFICES ASSUME Multi' PROVE FALSE
      BY AdvancedTyped DEF PipeType, Multi
    <3>1. /\ instr_executing(i) /\ instr_executing_spec
          /\ Is({"alu2", "mul", "load", "store", "branch", "taken", "jump", "fence_i"})
      BY <2>2, MoreCycles
    <3>2. ~id.err
      BY <3>1, Executing
    <3>3. i.resp = "err"
      BY <1>1, <3>1, <3>2 DEF Traps, illegal_insn, instr_fetch_err, csr_pipe_flush, Is
    <3>4. QED
      BY <2>2, <3>1, <3>3, Executing, Responses
  <2>3. QED
    BY <2>1, <2>2
<1>12. QED
  BY <1>2, <1>4, <1>7, <1>8, <1>9, <1>10, <1>11 DEF Flushed

\* A wfi, or a csr access that flushes the pipeline, has executed when FLUSH is entered.
LEMMA FlushExecuted ==
  ASSUME PInv, controller_run, NEW i \in Inputs, id # None, special_req(i), ready_wb(i),
         ~Traps, i.resp # "err", ~Is({"mret", "dret"})
  PROVE  id_executes(i) /\ Is({"wfi", "csr"}) /\ ~Redirected
<1>1. Is({"wfi"}) \/ csr_pipe_flush(i)
  BY Responses DEF Is
<1>2. Is({"wfi", "csr"}) /\ ~lsu_req_dec /\ ~branch_in_dec /\ ~jump_in_dec /\ ~multdiv_en_dec
      /\ ~Is({"alu2"})
  BY <1>1 DEF csr_pipe_flush, Is, lsu_req_dec, branch_in_dec, jump_in_dec, multdiv_en_dec
<1>3. instr_id_done(i)
  <2>1. CASE csr_pipe_flush(i)
    BY <2>1 DEF csr_pipe_flush
  <2>2. CASE Is({"wfi"})
    <3>1. ~id.use
      BY <2>2, InstrFacts DEF PInv, Is, ReadsNothing
    <3>2. ~stall_ld_hz /\ ~outstanding_memory_access(i) /\ instr_valid /\ ~instr_fetch_err
      BY <3>1, Responses DEF stall_ld_hz, outstanding_memory_access, lsu_resp_valid,
                             instr_valid, Traps
    <3>3. ~instr_kill(i) /\ instr_executing_spec
      BY <3>2, Responses DEF instr_kill, id_exception, instr_executing_spec
    <3>4. instr_executing(i)
      BY <3>2, <3>3 DEF instr_executing
    <3>5. FirstCycle
      BY <2>2 DEF PInv, RedirectInv, PipeType, Multi, FirstCycle, Is
    <3>6. ~enters_multi_cycle(i)
      BY <1>2 DEF enters_multi_cycle
    <3>7. ~stall_mem(i) /\ ~stall_multicycle(i)
      BY <1>2, <3>2, <3>5, <3>6 DEF stall_mem, stall_multicycle
    <3>8. QED
      BY <3>2, <3>4, <3>7 DEF instr_id_done, en_wb, instr_done, stall_id
  <2>3. QED
    BY <1>1, <2>1, <2>2
<1>4. ~Redirected
  BY <1>2 DEF Redirected, PInv, RedirectInv, SetsPc, BranchFlop, branch_set_raw,
              branch_set_raw_d, jump_set_raw
<1>5. QED
  BY <1>2, <1>3, <1>4 DEF id_executes

\* A cycle that leaves DECODE for FLUSH keeps the invariant.
LEMMA FlushingKeeps ==
  ASSUME PInv, controller_run, NEW i \in Inputs, NEW c, Advanced(i, c),
         DecodeOutput(i, c, ~i.exec), id # None, special_req(i), ready_wb(i)
  PROVE  PInv'
<1>1. Flushed(i, c)
  BY FlushSignals
<1>2. id' = id /\ pc_id' = pc_id /\ ctrl_fsm_cs' = "FLUSH"
  BY <1>1 DEF Flushed
<1>3. /\ WritebackStage' = WritebackStage /\ TriggerPcs' = TriggerPcs
      /\ (BranchFlop' <=> BranchFlop) /\ (SetsPc' <=> SetsPc)
      /\ jump_in_dec' = jump_in_dec /\ lsu_req_dec' = lsu_req_dec
      /\ branch_target' = branch_target
      /\ (illegal_insn' <=> illegal_insn) /\ (Traps' <=> Traps)
  BY <1>2, SameInstr
<1>4. \A K : Is(K)' = Is(K)
  BY <1>2, SameInstr
<1>5. NoErr' <=> i.resp # "err"
  BY Responses DEF NoErr, Advanced
<1>6. /\ i.resp \in {"none", "ok", "err"}
      /\ WritebackStage => (wb_mem <=> i.resp # "none")
      /\ ~WritebackStage => ~wb_mem
  BY Responses
<1>7. pc_id = NextPc /\ (wb_mem => npc = pc_wb)
  BY DEF PInv, OrderInv
<1>8. PipeType'
  BY AdvancedTyped
<1>9. QuietInv'
  BY <1>1, <1>2 DEF QuietInv, Flushed, FirstCycle
<1>10. RedirectInv'
  <2>1. branch_jump_set_done_q' => SetsPc' \/ jump_in_dec'
    BY <1>1, <1>3, Redirecting DEF Flushed
  <2>2. branch_set_raw_q' => SetsPc'
    BY <1>3, Redirecting DEF Advanced
  <2>3. ~Multi'
    BY <1>1 DEF Flushed, Multi
  <2>4. QED
    BY <2>1, <2>2, <2>3 DEF RedirectInv
<1>11. OrderInv'
  BY <1>2 DEF OrderInv, controller_run
<1>12. LsuInv'
  <2>1. ~WritebackStage => wb' = None
    BY Responses DEF Advanced
  <2>2. QED
    BY <1>1, <1>3, <2>1 DEF Flushed, LsuInv
<1>13. wb_executes(i) <=> WritebackStage /\ i.resp = "ok"
  BY <1>6 DEF wb_executes
<1>14. FlushInv'
  <2>1. illegal_insn_q' <=> illegal_insn'
    BY <1>3 DEF Advanced, illegal_insn_d, controller_run
  <2>2. enter_debug_mode_prio_q' => ~debug_mode_q'
    BY DEF Advanced, enter_debug_mode_prio_d
  <2>3. ~NoErr' /\ WritebackStage' => npc' = pc_wb'
    <3> SUFFICES ASSUME i.resp = "err", WritebackStage PROVE npc' = pc_wb'
      BY <1>3, <1>5
    <3>1. npc' = npc /\ pc_wb' = pc_wb
      BY <1>1, <1>13 DEF Flushed, Advanced, npc_after, npc_after_wb
    <3>2. QED
      BY <1>6, <1>7, <3>1
  <2>4. ~NoErr' /\ ~WritebackStage' => npc' = pc_id' /\ lsu_req_dec' /\ ~id.err'
    <3> SUFFICES ASSUME i.resp = "err", ~WritebackStage
                 PROVE  npc' = pc_id' /\ lsu_req_dec' /\ ~id.err'
      BY <1>3, <1>5
    <3>1. npc' = npc
      BY <1>1, <1>13 DEF Flushed, Advanced, npc_after, npc_after_wb
    <3>2. lsu_req_dec /\ ~id.err
      BY Responses
    <3>3. npc = pc_id
      BY <1>6, <1>7 DEF NextPc
    <3>4. QED
      BY <1>2, <1>3, <3>1, <3>2, <3>3
  <2>5. ASSUME NoErr'
        PROVE  /\ id' # None /\ (exc_req_q' <=> Traps')
               /\ Traps' => npc' = pc_id'
               /\ ~Traps' => /\ Is({"mret", "dret", "wfi", "csr"})'
                             /\ Is({"wfi", "csr"})' => npc' = pc_if'
    <3>1. i.resp # "err"
      BY <1>5, <2>5
    <3>2. exc_req_q' <=> Traps'
      BY <1>3, Responses DEF Advanced
    <3>3. npc_after_wb(i) = pc_id
      BY <1>6, <1>7, <1>13, <3>1 DEF npc_after_wb, NextPc, After
    <3>4. Traps => npc' = pc_id
      BY <1>1, <3>3 DEF Flushed, Advanced, npc_after
    <3>5. ~Traps /\ ~Is({"mret", "dret"}) => Is({"wfi", "csr"}) /\ npc' = pc_if'
      <4> SUFFICES ASSUME ~Traps, ~Is({"mret", "dret"}) PROVE Is({"wfi", "csr"}) /\ npc' = pc_if'
        OBVIOUS
      <4>1. id_executes(i) /\ Is({"wfi", "csr"}) /\ ~Redirected
        BY <3>1, FlushExecuted
      <4>2. ~Is({"taken", "jump"})
        BY <4>1 DEF Is
      <4>3. npc' = After(pc_id, 1)
        BY <4>1, <4>2 DEF Advanced, npc_after, After
      <4>4. QED
        BY <1>1, <4>1, <4>3 DEF Flushed, After
    <3>6. Is({"wfi", "csr"}) => ~Is({"mret", "dret"})
      BY DEF Is
    <3>7. Is({"mret", "dret"}) \/ Is({"wfi", "csr"}) => Is({"mret", "dret", "wfi", "csr"})
      BY DEF Is
    <3>8. QED
      BY <1>2, <1>3, <1>4, <3>2, <3>4, <3>5, <3>6, <3>7
  <2>6. QED
    BY <2>1, <2>2, <2>3, <2>4, <2>5 DEF FlushInv
<1>15. DebugInv'
  <2>1. id' # None /\ pc_id' \in TriggerPcs' => debug_mode_q'
    BY <1>2, <1>3 DEF PInv, DebugInv, Advanced
  <2>2. CASE ~Stepping
    <3>1. steps' = 0
      BY <2>2 DEF Advanced, Stepping
    <3>2. Stepping' => FALSE
      BY <2>2 DEF Advanced, Stepping
    <3>3. QED
      BY <1>2, <2>1, <3>1, <3>2 DEF DebugInv
  <2>3. CASE Stepping
    <3>1. ~wb_mem /\ steps = 0
      BY <2>3 DEF PInv, DebugInv
    <3>2. enter_debug_mode_prio_q'
      BY <2>3 DEF Stepping, Advanced, do_single_step_d, instr_valid, enter_debug_mode_prio_d
    <3>3. ~wb_executes(i)
      BY <3>1 DEF wb_executes
    <3>4. steps' = IF id_executes(i) THEN 1 ELSE 0
      BY <2>3, <3>1, <3>3 DEF Advanced
    <3>5. exc_req_q' \/ ~NoErr' => steps' = 0
      BY <1>1, <1>5, <3>4, Responses DEF Flushed, Advanced
    <3>6. QED
      BY <1>2, <2>1, <3>2, <3>4, <3>5 DEF DebugInv, controller_run
  <2>4. QED
    BY <2>2, <2>3
<1>16. QED
  BY <1>8, <1>9, <1>10, <1>11, <1>12, <1>14, <1>15 DEF PInv

-----------------------------------------------------------------------------
(* The invariant.                                                             *)

\* DECODE keeps the invariant.
LEMMA DecodeKeeps ==
  ASSUME PInv, controller_run, NEW i \in Inputs, NEW t, Cycle(i, Ctrl(i, t))
  PROVE  PInv'
<1> DEFINE c == Ctrl(i, t)
<1>1. DecodeOutput(i, c, ~i.exec)
  BY DecodeOut DEF controller_run
<1>2. Cycle(i, c)
  OBVIOUS
<1> HIDE DEF c
<1>3. Advanced(i, c)
  BY <1>1, <1>2, Advances
<1>4. CASE id = None
  BY <1>1, <1>3, <1>4, EmptyKeeps
<1>5. CASE id # None /\ Holds(i)
  BY <1>1, <1>3, <1>5, HoldKeeps
<1>6. CASE id # None /\ ~special_req(i) /\ en_wb(i)
  BY <1>1, <1>3, <1>6, LeaveKeeps
<1>7. CASE id # None /\ special_req(i) /\ ready_wb(i)
  BY <1>1, <1>3, <1>7, FlushingKeeps
<1>8. QED
  BY <1>4, <1>5, <1>6, <1>7 DEF Holds

\* The invariant holds out of reset.
LEMMA InitHolds == Init => PInv
<1> SUFFICES ASSUME Init PROVE PInv
  OBVIOUS
<1> USE DEF Init
<1>1. ~wb_mem /\ ~instr_valid
  BY ConfigAssumption DEF wb_mem, instr_valid, Kind
<1>2. PipeType
  BY DEF PipeType, Access, FsmState
<1>3. QuietInv
  BY <1>1 DEF QuietInv, NoErr, FirstCycle
<1>4. RedirectInv
  BY DEF RedirectInv, Multi
<1>5. OrderInv /\ FlushInv
  BY DEF OrderInv, FlushInv, controller_run
<1>6. LsuInv
  BY <1>1 DEF LsuInv
<1>7. DebugInv
  BY DEF DebugInv, Stepping
<1>8. QED
  BY <1>2, <1>3, <1>4, <1>5, <1>6, <1>7 DEF PInv

\* A stuttering step keeps the invariant.
LEMMA StutterKeeps ==
  ASSUME PInv, UNCHANGED vars
  PROVE  PInv'
<1>1. /\ config' = config /\ ctrl_fsm_cs' = ctrl_fsm_cs
      /\ load_err_q' = load_err_q /\ store_err_q' = store_err_q
      /\ debug_mode_q' = debug_mode_q /\ do_single_step_q' = do_single_step_q
      /\ enter_debug_mode_prio_q' = enter_debug_mode_prio_q /\ exc_req_q' = exc_req_q
      /\ illegal_insn_q' = illegal_insn_q /\ debug_single_step' = debug_single_step
      /\ pc_if' = pc_if /\ id' = id /\ pc_id' = pc_id /\ id_fsm_q' = id_fsm_q
      /\ branch_jump_set_done_q' = branch_jump_set_done_q
      /\ branch_set_raw_q' = branch_set_raw_q
      /\ wb' = wb /\ pc_wb' = pc_wb /\ lsu_busy' = lsu_busy /\ lsu_owed' = lsu_owed
      /\ npc' = npc /\ steps' = steps
  BY DEF vars, ctrlVars, csrVars, pipeVars
<1>2. PipeType'
  BY <1>1 DEF PInv, PipeType, Instrs
<1>3. QuietInv'
  BY <1>1 DEF PInv, QuietInv, controller_run, wb_mem, FirstCycle, NoErr
<1>4. RedirectInv'
  BY <1>1 DEF PInv, RedirectInv, SetsPc, BranchFlop, Multi, branch_in_dec, jump_in_dec, Is,
              instr_valid, wb_mem, data_ind_timing, BranchTargetALU
<1>5. OrderInv'
  BY <1>1 DEF PInv, OrderInv, controller_run, wb_mem, NextPc, branch_target, Is, instr_valid,
              After
<1>6. LsuInv'
  BY <1>1 DEF PInv, LsuInv, controller_run, wb_mem, Is, instr_valid, Multi, WritebackStage
<1>7. FlushInv'
  BY <1>1 DEF PInv, FlushInv, illegal_insn, Is, instr_valid, NoErr, WritebackStage,
              lsu_req_dec, Traps, instr_fetch_err
<1>8. DebugInv'
  BY <1>1 DEF PInv, DebugInv, Stepping, TriggerPcs, controller_run, wb_mem, NoErr
<1>9. QED
  BY <1>2, <1>3, <1>4, <1>5, <1>6, <1>7, <1>8 DEF PInv

\* Every cycle keeps the invariant.
LEMMA NextKeeps ==
  ASSUME PInv, [Next]_vars
  PROVE  PInv'
<1>1. CASE Next
  <2>1. PICK i \in Inputs : \E c \in Outputs(i) : Cycle(i, c)
    BY <1>1 DEF Next
  <2>2. PICK c \in Outputs(i) : Cycle(i, c)
    BY <2>1
  <2>3. PICK t \in Returns : Cycle(i, Ctrl(i, t))
    BY <2>2 DEF Outputs
  <2>4. ctrl_fsm_cs \in FsmState
    BY DEF PInv, PipeType
  <2>5. QED
    BY <2>3, <2>4, BootKeeps, SleepKeeps, FirstFetchKeeps, IrqKeeps, DebugKeeps, FlushKeeps,
       DecodeKeeps DEF FsmState, controller_run
<1>2. CASE UNCHANGED vars
  BY <1>2, StutterKeeps
<1>3. QED
  BY <1>1, <1>2

\* PInv is an invariant of every core: what is in ID and WB is next in program order, the
\* fetch follows it, an access belongs to one of them, and what FLUSH finds in the controller's
\* registers is about the instruction it flushes.
THEOREM PipelineInvariance == Spec => []PInv
<1>1. Init => PInv
  BY InitHolds
<1>2. PInv /\ [Next]_vars => PInv'
  BY NextKeeps
<1>3. QED
  BY <1>1, <1>2, PTL DEF Spec

-----------------------------------------------------------------------------
(* The properties that follow from it.                                        *)

\* What executes in ID, or requests, is what comes after the access in WB, which succeeds.
LEMMA NextInId ==
  ASSUME PInv, NEW i \in Inputs, id # None, controller_run, ready_wb(i),
         WritebackStage => i.resp # "err"
  PROVE  pc_id = npc_after_wb(i)
<1>1. wb_mem <=> wb_executes(i)
  BY Responses DEF wb_executes
<1>2. QED
  BY <1>1 DEF PInv, OrderInv, NextPc, npc_after_wb, After

\* The invariant implies program order.
LEMMA Ordered ==
  ASSUME PInv
  PROVE  InOrder
<1> SUFFICES ASSUME NEW i \in Inputs
             PROVE  /\ wb_executes(i) => pc_wb = npc
                    /\ id_executes(i) => pc_id = npc_after_wb(i)
  BY DEF InOrder
<1>1. wb_executes(i) => pc_wb = npc
  BY DEF wb_executes, PInv, QuietInv, OrderInv
<1>2. ASSUME id_executes(i) PROVE pc_id = npc_after_wb(i)
  <2>1. en_wb(i) /\ ready_wb(i) /\ instr_executing(i)
    BY <1>2 DEF id_executes, instr_id_done, en_wb, instr_done
  <2>2. controller_run /\ id # None
    BY <2>1 DEF instr_executing, instr_kill, instr_executing_spec, instr_valid
  <2>3. WritebackStage => i.resp # "err"
    BY <2>1, <2>2, Executing
  <2>4. QED
    BY <2>1, <2>2, <2>3, NextInId
<1>3. QED
  BY <1>1, <1>2

\* The invariant implies that accesses are owned.
LEMMA Owned ==
  ASSUME PInv
  PROVE  AccessesOwned
<1>1. ASSUME NEW i \in Inputs, lsu_req(i) PROVE pc_id = npc_after_wb(i) /\ ~Traps
  <2>1. instr_executing(i) /\ lsu_req_dec
    BY <1>1 DEF lsu_req
  <2>2. controller_run /\ id # None
    BY <2>1 DEF instr_executing, instr_kill, instr_executing_spec, instr_valid
  <2>3. /\ ready_wb(i) /\ ~id.err
        /\ WritebackStage => i.resp # "err"
    BY <1>1, <2>1, <2>2, Executing, Requests
  <2>4. ~Traps
    BY <2>1, <2>3 DEF Traps, lsu_req_dec, illegal_insn, instr_fetch_err, Is
  <2>5. QED
    BY <2>2, <2>3, <2>4, NextInId
<1>2. lsu_busy # None => /\ id # None /\ id.kind = lsu_busy /\ controller_run
                         /\ lsu_owed = None
  BY DEF PInv, LsuInv, Is, instr_valid
<1>3. IF WritebackStage THEN lsu_owed = IF wb_mem THEN wb ELSE None
      ELSE lsu_owed # None => id # None /\ id.kind = lsu_owed /\ controller_run
  BY DEF PInv, LsuInv, Is, instr_valid
<1>4. QED
  BY <1>1, <1>2, <1>3 DEF AccessesOwned

\* A pc is saved outside DECODE only, and is that of the next instruction to execute.
LEMMA SavedPc ==
  ASSUME PInv, NEW i \in Inputs, NEW t, Ctrl(i, t).csr_save # "none"
  PROVE  ~controller_run /\ saved_pc(Ctrl(i, t)) = npc
<1> DEFINE c == Ctrl(i, t)
<1>1. ctrl_fsm_cs \in FsmState
  BY DEF PInv, PipeType
<1>2. ctrl_fsm_cs \notin {"RESET", "BOOT_SET"}
  BY BootOut DEF SendOutput
<1>3. ctrl_fsm_cs \notin {"WAIT_SLEEP", "SLEEP"}
  BY SleepOut DEF IdleOutput
<1>4. ctrl_fsm_cs # "FIRST_FETCH"
  BY FirstFetchOut DEF IdleOutput
<1>5. ctrl_fsm_cs # "DECODE"
  BY DecodeOut DEF DecodeOutput
<1>6. CASE ctrl_fsm_cs = "IRQ_TAKEN"
  <2>1. c.csr_save = "if"
    BY <1>6, IrqOut DEF SendOutput, IdleOutput
  <2>2. npc = pc_if
    BY <1>6 DEF PInv, QuietInv
  <2>3. QED
    BY <1>6, <2>1, <2>2 DEF saved_pc, controller_run
<1>7. CASE ctrl_fsm_cs = "DBG_TAKEN_IF"
  <2>1. c.csr_save = "if"
    BY <1>7, DebugOut DEF SendOutput
  <2>2. npc = pc_if
    BY <1>7 DEF PInv, QuietInv
  <2>3. QED
    BY <1>7, <2>1, <2>2 DEF saved_pc, controller_run
<1>8. CASE ctrl_fsm_cs = "DBG_TAKEN_ID"
  <2>1. c.csr_save = "id"
    BY <1>8, DebugOut DEF SendOutput
  <2>2. npc = pc_id
    BY <1>8 DEF PInv, QuietInv
  <2>3. QED
    BY <1>8, <2>1, <2>2 DEF saved_pc, controller_run
<1>9. CASE ctrl_fsm_cs = "FLUSH"
  <2>1. Exc /\ c.csr_save = IF WritebackStage /\ ~NoErr THEN "wb" ELSE "id"
    BY <1>9, FlushOut DEF FlushOutput
  <2>2. npc = IF WritebackStage /\ ~NoErr THEN pc_wb ELSE pc_id
    BY <1>9, <2>1 DEF PInv, FlushInv, Exc
  <2>3. QED
    BY <1>9, <2>1, <2>2 DEF saved_pc, controller_run
<1>10. QED
  BY <1>1, <1>2, <1>3, <1>4, <1>5, <1>6, <1>7, <1>8, <1>9 DEF FsmState

\* The invariant implies that traps are precise.
LEMMA Precise ==
  ASSUME PInv
  PROVE  TrapsPrecise
<1>1. PreciseTraps
  <2> SUFFICES ASSUME NEW i \in Inputs, NEW c \in Outputs(i), c.csr_save # "none"
               PROVE  saved_pc(c) = npc /\ ~wb_executes(i) /\ ~id_executes(i)
    BY DEF PreciseTraps
  <2>1. PICK t \in Returns : c = Ctrl(i, t)
    BY DEF Outputs
  <2>2. ~controller_run /\ saved_pc(c) = npc
    BY <2>1, SavedPc
  <2>3. Still(i)
    BY <2>2, NotRunning DEF PInv
  <2>4. QED
    BY <2>2, <2>3 DEF Still
<1>2. ExceptionCause
  <2> SUFFICES ASSUME ctrl_fsm_cs = "FLUSH" PROVE ExceptionCause
    BY DEF ExceptionCause
  <2>1. lsu_prio = IF NoErr THEN "none" ELSE IF store_err_q THEN "store" ELSE "load"
    BY DEF lsu_prio, NoErr
  <2>2. NoErr => (exc_req_q <=> Traps)
    BY DEF PInv, FlushInv
  <2>3. id_prio = IF instr_fetch_err THEN "fetch"
                  ELSE IF illegal_insn THEN "illegal"
                  ELSE IF Traps THEN id.kind ELSE "none"
    BY DEF id_prio, PInv, FlushInv, Traps, Is
  <2>4. NoErr /\ exc_req_q => exc_prio = IF instr_fetch_err THEN "fetch"
                                         ELSE IF illegal_insn THEN "illegal" ELSE id.kind
    BY <2>1, <2>2, <2>3 DEF exc_prio
  <2>5. ~NoErr /\ ~WritebackStage => id_prio = "none"
    BY <2>3 DEF PInv, FlushInv, lsu_req_dec, Traps, illegal_insn, instr_fetch_err, Is
  <2>6. ~NoErr => exc_prio = IF store_err_q THEN "store" ELSE "load"
    BY <2>1, <2>5 DEF exc_prio
  <2>7. QED
    BY <2>2, <2>4, <2>6 DEF ExceptionCause, NoErr
<1>3. Drained
  BY DEF Drained, PInv, QuietInv, controller_run
<1>4. QED
  BY <1>1, <1>2, <1>3 DEF TrapsPrecise

\* Instructions execute in program order, each once and none skipped, in every
\* core: two or three stages, whatever it is interrupted by.
THEOREM ProgramOrder == Spec => []InOrder
  BY PipelineInvariance, Ordered, PTL

\* Traps are precise in every core: the pc saved is that of the next instruction
\* to execute, the cause is its own, and nothing is outstanding when it is taken.
THEOREM PreciseEverywhere == Spec => []TrapsPrecise
  BY PipelineInvariance, Precise, PTL

\* Memory is accessed only by the next instruction to execute, one access at a
\* time, and the access belongs to it until it is answered.
THEOREM AccessesHeld == Spec => []AccessesOwned
  BY PipelineInvariance, Owned, PTL

\* Nothing reaches ID at a breakpoint outside debug mode, and a single step runs
\* at most one instruction.
THEOREM StopsForDebug == Spec => []DebugStops
<1>1. PInv => DebugStops
  BY DEF PInv, DebugInv, DebugStops
<1>2. QED
  BY <1>1, PipelineInvariance, PTL
=============================================================================
