---------------------------- MODULE LoadStoreUnit ----------------------------
(***************************************************************************)
(* The load-store unit of Ibex (rtl/ibex_load_store_unit.sv), one step per  *)
(* clock cycle.  The unit turns a load or store of the ID/EX stage into one *)
(* word transaction, or into two when the access crosses a word boundary,   *)
(* and merges the two responses back into one.                              *)
(*                                                                          *)
(* Its neighbours are modelled by what they promise it: the ID/EX stage     *)
(* holds an access stable until it is issued and starts the next one only   *)
(* when the previous access has been answered (ibex_id_stage.sv), the PMP   *)
(* blocks the external request of a denied word (ibex_core.sv), and the     *)
(* data bus answers each granted request once, in order, at the earliest a  *)
(* cycle after the grant.                                                   *)
(*                                                                          *)
(* An address is a word and a byte lane in it; the last word wraps round to *)
(* the first as a 32-bit sum does.  The byte at lane l of word w holds the  *)
(* token <<w, l>>: the unit only moves bytes, so a token shows where each   *)
(* byte of a result came from.                                              *)
(***************************************************************************)
EXTENDS Naturals, Sequences

CONSTANTS
  NumWords,   \* words of the address space (2^30 in the core)
  Ops,        \* the accesses the program makes, a set of Access
  MemECC,     \* whether response data carries integrity bits
  None        \* "no access", "no response", "no request"

ASSUME LsuAssumption ==
  /\ NumWords \in Nat /\ NumWords >= 2
  /\ MemECC \in BOOLEAN

Words    == 0 .. NumWords - 1
Lanes    == 0 .. 3
Types    == {"word", "half", "byte"}
FsmState == {"IDLE", "WAIT_GNT_MIS", "WAIT_RVALID_MIS", "WAIT_GNT",
             "WAIT_RVALID_MIS_GNTS_DONE"}

-----------------------------------------------------------------------------
(* Accesses, and how they are split.                                         *)

\* An access is split in two word transactions when it crosses a word boundary.
split_misaligned_access(type, off) ==
  \/ type = "word" /\ off # 0
  \/ type = "half" /\ off = 3

Halves(type, off) == IF split_misaligned_access(type, off) THEN {1, 2} ELSE {1}

\* What the decoder can ask for, at any address; deny holds the halves whose
\* word the PMP refuses.
Access ==
  {o \in [we : BOOLEAN, type : Types, sext : BOOLEAN,
          word : Words, off : Lanes, deny : SUBSET {1, 2}] :
     /\ o.we => ~o.sext
     /\ (~o.we /\ o.type = "word") => o.sext
     /\ o.deny \subseteq Halves(o.type, o.off)}

ASSUME OpsAssumption == Ops \subseteq Access /\ None \notin Access

LastHalf(o) == IF split_misaligned_access(o.type, o.off) THEN 2 ELSE 1

\* The word after w: the address adder adds 4.
IncrAddr(w) == IF w = NumWords - 1 THEN 0 ELSE w + 1

\* (faulty variant: the second word's lanes overlap the first's by one)
data_be_overlap(type, off, second) ==
  CASE type = "word" -> IF second THEN {l \in Lanes : l <= off}
                                  ELSE {l \in Lanes : l >= off}
    [] type = "half" -> IF second THEN {0}
                                  ELSE {l \in Lanes : l = off \/ l = off + 1}
    [] type = "byte" -> {off}

\* The lanes a transaction enables: the lanes of the first word from the
\* offset on, the remaining lanes of the second word.
data_be(type, off, second) ==
  CASE type = "word" -> IF second THEN {l \in Lanes : l < off}
                                  ELSE {l \in Lanes : l >= off}
    [] type = "half" -> IF second THEN {0}
                                  ELSE {l \in Lanes : l = off \/ l = off + 1}
    [] type = "byte" -> {off}

\* The byte of the source register driven on lane l: a rotation by the offset.
data_wdata(off, l) == IF l >= off THEN l - off ELSE l + 4 - off

-----------------------------------------------------------------------------
(* Load results: a lane of the result is a byte of memory, a copy of a       *)
(* byte's sign, or zero.                                                     *)

Mem(b)  == <<"mem", b>>
Sign(b) == <<"sign", b>>
Zero    == <<"zero", <<0, 0>>>>

\* Fill the lanes above the top byte of a half word or byte.
Extend(sext, top) == IF sext THEN Sign(top) ELSE Zero

rdata_w_ext(off, q, d) ==
  [l \in Lanes |-> IF off = 0 THEN Mem(d[l])
                   ELSE IF l + off < 4 THEN Mem(q[l + off])
                   ELSE Mem(d[l + off - 4])]

rdata_h_ext(off, sext, q, d) ==
  LET lo == IF off = 3 THEN q[3] ELSE d[off]
      hi == IF off = 3 THEN d[0] ELSE d[off + 1]
  IN  [l \in Lanes |-> CASE l = 0 -> Mem(lo)
                         [] l = 1 -> Mem(hi)
                         [] OTHER -> Extend(sext, hi)]

rdata_b_ext(off, sext, d) ==
  [l \in Lanes |-> IF l = 0 THEN Mem(d[off]) ELSE Extend(sext, d[off])]

data_rdata_ext(ctrl, q, d) ==
  CASE ctrl.type = "word" -> rdata_w_ext(ctrl.off, q, d)
    [] ctrl.type = "half" -> rdata_h_ext(ctrl.off, ctrl.sext, q, d)
    [] ctrl.type = "byte" -> rdata_b_ext(ctrl.off, ctrl.sext, d)

-----------------------------------------------------------------------------
VARIABLES
  ls_fsm_cs,             \* FSM state
  handle_misaligned_q,   \* the first part of a split access has been granted
  pmp_err_q,             \* the current part was refused by the PMP
  lsu_err_q,             \* the first part of a split access failed
  addr_last_q,           \* [word, off] for mtval and for the second address
  rdata_q,               \* lanes 1..3 of the first part's data
  ctrl_q,                \* offset, type, sign extension, write of the access
  acc,                   \* the access issued or awaiting its answer
  bus,                   \* granted transactions not yet answered, in order
  hist,                  \* what really happened to acc (observation only)
  asked,                 \* the request left ungranted in the last cycle
  done                   \* the answer given in the last cycle, with its hist

regs == <<ls_fsm_cs, handle_misaligned_q, pmp_err_q, lsu_err_q, addr_last_q,
          rdata_q, ctrl_q>>
vars == <<regs, acc, bus, hist, asked, done>>

Beat == [word : Words, half : {1, 2}, we : BOOLEAN, be : SUBSET Lanes,
         rot : Lanes]
Response == [err : BOOLEAN, intg : IF MemECC THEN BOOLEAN ELSE {FALSE}]

NoHist == [buserr |-> {}, corrupt |-> {}, issued |-> <<>>, written |-> {}]

Init ==
  /\ ls_fsm_cs = "IDLE"
  /\ handle_misaligned_q = FALSE
  /\ pmp_err_q = FALSE
  /\ lsu_err_q = FALSE
  /\ addr_last_q = [word |-> 0, off |-> 0]
  /\ rdata_q = [l \in 1 .. 3 |-> <<NumWords, l>>]   \* no byte of memory
  /\ ctrl_q = [off |-> 0, type |-> "word", sext |-> FALSE, we |-> FALSE]
  /\ acc = None
  /\ bus = <<>>
  /\ hist = NoHist
  /\ asked = None
  /\ done = None

-----------------------------------------------------------------------------
(* The address phase.  adder_result_ex_i is the access's own address, or     *)
(* addr_last_q + 4 when the FSM asks for the second address.                 *)

\* (faulty variant: the second address is dropped while waiting for its grant)
addr_incr_req_not_held ==
  ls_fsm_cs \in {"WAIT_RVALID_MIS", "WAIT_RVALID_MIS_GNTS_DONE"}

addr_incr_req ==
  \/ ls_fsm_cs \in {"WAIT_RVALID_MIS", "WAIT_RVALID_MIS_GNTS_DONE"}
  \/ ls_fsm_cs = "WAIT_GNT" /\ handle_misaligned_q

adder_result_ex(o) ==
  IF addr_incr_req
  THEN [word |-> IncrAddr(addr_last_q.word), off |-> addr_last_q.off]
  ELSE [word |-> o.word, off |-> o.off]

addr_last_d(o) ==
  IF addr_incr_req THEN [adder_result_ex(o) EXCEPT !.off = 0]
                   ELSE adder_result_ex(o)

\* Which half of o the unit is requesting, and whether the PMP refuses it.
ReqHalf == IF addr_incr_req THEN 2 ELSE 1

data_pmp_err(o) == ReqHalf \in o.deny

RequestBeat(o) ==
  [word |-> adder_result_ex(o).word,
   half |-> ReqHalf,
   we   |-> o.we,
   be   |-> data_be(o.type, adder_result_ex(o).off, handle_misaligned_q),
   rot  |-> adder_result_ex(o).off]

data_req == ls_fsm_cs \in {"WAIT_GNT_MIS", "WAIT_RVALID_MIS", "WAIT_GNT"}

\* A response r of the bus is None or a record; the signals it drives.
data_bus_err(r)  == r # None /\ r.err
data_intg_err(r) == r # None /\ r.intg
data_rdata(r)    ==   \* the answered word's bytes, or no byte of memory
  [l \in Lanes |-> <<IF r # None THEN Head(bus).word ELSE NumWords, l>>]

\* The half a bad response is for.
Blamed(bad) == IF bad THEN {Head(bus).half} ELSE {}

\* The cycle's transactions: response r leaves the bus, the request for o,
\* made when req holds and the PMP allows it, enters when it is granted.  h is
\* the history of o so far: a response seen outside IDLE is for o itself.
BusCycle(o, req, gnt, r, h) ==
  LET ext  == req /\ ~data_pmp_err(o)
      b    == RequestBeat(o)
      own  == ls_fsm_cs # "IDLE"
      rest == IF r # None THEN Tail(bus) ELSE bus
  IN /\ bus' = IF ext /\ gnt THEN Append(rest, b) ELSE rest
     /\ asked' = IF ext /\ ~gnt THEN b ELSE None
     /\ hist' = [buserr  |-> h.buserr \cup Blamed(own /\ data_bus_err(r)),
                 corrupt |-> h.corrupt \cup Blamed(own /\ data_intg_err(r)),
                 issued  |-> IF ext /\ gnt THEN Append(h.issued, b.half)
                                           ELSE h.issued,
                 written |-> h.written \cup
                   {<<b.word, l, data_wdata(b.rot, l)>> :
                      l \in IF ext /\ gnt /\ b.we THEN b.be ELSE {}}]

UpdateAddr(o, en) == addr_last_q' = IF en THEN addr_last_d(o) ELSE addr_last_q

UpdateCtrl(o, en) ==
  ctrl_q' = IF en THEN [off  |-> adder_result_ex(o).off, type |-> o.type,
                        sext |-> o.sext, we |-> o.we]
            ELSE ctrl_q

\* (faulty variant: the first half's data is not kept)
UpdateRdata_lost(r, en) == rdata_q' = rdata_q

UpdateRdata(r, en) ==
  rdata_q' = IF en THEN [l \in 1 .. 3 |-> data_rdata(r)[l]] ELSE rdata_q

-----------------------------------------------------------------------------
(* The answer to the ID/EX and WB stages, given in IDLE.                     *)

\* (faulty variant: an error of the first half is forgotten)
data_or_pmp_err_last_half(r) == data_bus_err(r) \/ pmp_err_q

data_or_pmp_err(r) == lsu_err_q \/ data_bus_err(r) \/ pmp_err_q

lsu_resp_valid(r) == (r # None \/ pmp_err_q) /\ ls_fsm_cs = "IDLE"

lsu_rdata_valid(r) ==
  /\ ls_fsm_cs = "IDLE"
  /\ r # None
  /\ ~data_or_pmp_err(r)
  /\ ~ctrl_q.we
  /\ ~data_intg_err(r)

load_err(r)  == data_or_pmp_err(r) /\ ~ctrl_q.we /\ lsu_resp_valid(r)
store_err(r) == data_or_pmp_err(r) /\  ctrl_q.we /\ lsu_resp_valid(r)

\* The answer, with the access it is for and that access's whole history.
Answer(r) ==
  IF ~lsu_resp_valid(r) THEN None
  ELSE [acc         |-> acc,
        hist        |-> [hist EXCEPT
                          !.buserr  = @ \cup Blamed(data_bus_err(r)),
                          !.corrupt = @ \cup Blamed(data_intg_err(r))],
        rdata_valid |-> lsu_rdata_valid(r),
        rdata       |-> data_rdata_ext(ctrl_q, rdata_q, data_rdata(r)),
        load_err    |-> load_err(r),
        store_err   |-> store_err(r)]

-----------------------------------------------------------------------------
(* One action per FSM state, and in IDLE one per value of lsu_req_i.         *)

\* IDLE without a request: wait for the answer of acc, if there is one.
Idle(r) ==
  /\ ls_fsm_cs = "IDLE"
  /\ done' = Answer(r)
  /\ acc' = IF lsu_resp_valid(r) THEN None ELSE acc
  /\ hist' = IF lsu_resp_valid(r) THEN NoHist ELSE hist
  /\ bus' = IF r # None THEN Tail(bus) ELSE bus
  /\ asked' = None
  /\ pmp_err_q' = FALSE
  /\ UNCHANGED <<ls_fsm_cs, handle_misaligned_q, lsu_err_q, addr_last_q,
                 rdata_q, ctrl_q>>

\* (faulty variant: a request does not wait for the previous answer)
RequestAllowed_early(r) == ~load_err(r) /\ ~store_err(r)

\* data_req_allowed and ~wb_exception: the previous access is answered, in
\* this cycle at the latest, and its answer is not an error.
RequestAllowed(r) ==
  /\ acc # None => lsu_resp_valid(r)
  /\ ~load_err(r) /\ ~store_err(r)

\* IDLE with a request for access o.
IdleRequest(o, gnt, r) ==
  /\ ls_fsm_cs = "IDLE"
  /\ RequestAllowed(r)
  /\ done' = Answer(r)
  /\ acc' = o
  /\ BusCycle(o, TRUE, gnt, r, NoHist)
  /\ pmp_err_q' = data_pmp_err(o)
  /\ lsu_err_q' = FALSE
  /\ UpdateAddr(o, gnt)
  /\ UpdateCtrl(o, gnt)
  /\ LET split == split_misaligned_access(o.type, o.off)
     IN /\ handle_misaligned_q' = IF gnt THEN split ELSE handle_misaligned_q
        /\ ls_fsm_cs' = IF gnt THEN IF split THEN "WAIT_RVALID_MIS" ELSE "IDLE"
                        ELSE IF split THEN "WAIT_GNT_MIS" ELSE "WAIT_GNT"
  /\ UNCHANGED rdata_q

\* A refused request gets no grant and no response: the FSM moves on without.
\* (faulty variant: only the bus can answer)
Answered_by_bus_only(r) == r # None
Answered(r)  == r # None \/ pmp_err_q
Granted(gnt) == gnt \/ pmp_err_q

\* The first half of a split access waits for its grant.
WaitGntMis(gnt, r) ==
  /\ ls_fsm_cs = "WAIT_GNT_MIS"
  /\ BusCycle(acc, TRUE, gnt, r, hist)
  /\ LET go == Granted(gnt)
     IN /\ UpdateAddr(acc, go)
        /\ UpdateCtrl(acc, go)
        /\ handle_misaligned_q' = (go \/ handle_misaligned_q)
        /\ ls_fsm_cs' = IF go THEN "WAIT_RVALID_MIS" ELSE ls_fsm_cs
  /\ done' = None
  /\ UNCHANGED <<pmp_err_q, lsu_err_q, rdata_q, acc>>

\* The first half waits for its response while the second is requested.
WaitRvalidMis(gnt, r) ==
  /\ ls_fsm_cs = "WAIT_RVALID_MIS"
  /\ BusCycle(acc, TRUE, gnt, r, hist)
  /\ LET answered == Answered(r)
         failed   == data_bus_err(r) \/ pmp_err_q
     IN /\ pmp_err_q' = IF answered THEN data_pmp_err(acc) ELSE pmp_err_q
        /\ lsu_err_q' = IF answered THEN failed ELSE lsu_err_q
        /\ UpdateRdata(r, answered /\ ~ctrl_q.we)
        /\ UpdateAddr(acc, answered /\ gnt /\ ~failed)
        /\ handle_misaligned_q' = IF answered \/ gnt THEN ~gnt
                                  ELSE handle_misaligned_q
        /\ ls_fsm_cs' = IF answered THEN IF gnt THEN "IDLE" ELSE "WAIT_GNT"
                        ELSE IF gnt THEN "WAIT_RVALID_MIS_GNTS_DONE"
                        ELSE ls_fsm_cs
  /\ done' = None
  /\ UNCHANGED <<ctrl_q, acc>>

\* An unsplit access, or a second half, waits for its grant.
WaitGnt(gnt, r) ==
  /\ ls_fsm_cs = "WAIT_GNT"
  /\ BusCycle(acc, TRUE, gnt, r, hist)
  /\ LET go == Granted(gnt)
     IN /\ UpdateCtrl(acc, go)
        /\ UpdateAddr(acc, go /\ ~lsu_err_q)
        /\ handle_misaligned_q' = (~go /\ handle_misaligned_q)
        /\ ls_fsm_cs' = IF go THEN "IDLE" ELSE ls_fsm_cs
  /\ done' = None
  /\ UNCHANGED <<pmp_err_q, lsu_err_q, rdata_q, acc>>

\* Both halves are granted; the first waits for its response.
WaitRvalidMisGntsDone(r) ==
  /\ ls_fsm_cs = "WAIT_RVALID_MIS_GNTS_DONE"
  /\ BusCycle(acc, FALSE, FALSE, r, hist)
  /\ pmp_err_q' = IF r # None THEN data_pmp_err(acc) ELSE pmp_err_q
  /\ lsu_err_q' = IF r # None THEN data_bus_err(r) ELSE lsu_err_q
  /\ UpdateAddr(acc, r # None /\ ~data_bus_err(r))
  /\ UpdateRdata(r, r # None /\ ~ctrl_q.we)
  /\ ls_fsm_cs' = IF r # None THEN "IDLE" ELSE ls_fsm_cs
  /\ done' = None
  /\ UNCHANGED <<handle_misaligned_q, ctrl_q, acc>>

\* A clock cycle: the bus grants or not, and answers its oldest transaction or
\* not.
Cycle(gnt, r) ==
  \/ Idle(r)
  \/ \E o \in Ops : IdleRequest(o, gnt, r)
  \/ WaitGntMis(gnt, r)
  \/ WaitRvalidMis(gnt, r)
  \/ WaitGnt(gnt, r)
  \/ WaitRvalidMisGntsDone(r)

Responses == {None} \cup (IF bus = <<>> THEN {} ELSE Response)

Next == \E gnt \in BOOLEAN, r \in Responses : Cycle(gnt, r)

Spec == Init /\ [][Next]_vars

(* The bus grants a request that is held and answers what it granted, and the *)
(* clock does not stop while a refused half is to be skipped: an access under *)
(* way goes on, because nothing else changes the state then.                  *)
GoesOn ==
  acc # None /\ \E gnt \in BOOLEAN, r \in Responses :
    \/ Idle(r) \/ WaitGntMis(gnt, r) \/ WaitRvalidMis(gnt, r) \/ WaitGnt(gnt, r)
    \/ WaitRvalidMisGntsDone(r)
Fairness == WF_vars(GoesOn)

FairSpec == Spec /\ Fairness

-----------------------------------------------------------------------------
(* Properties.                                                               *)

\* The registers and the ledger of accesses stay within their types.
TypeOK ==
  /\ ls_fsm_cs \in FsmState
  /\ handle_misaligned_q \in BOOLEAN
  /\ pmp_err_q \in BOOLEAN
  /\ lsu_err_q \in BOOLEAN
  /\ addr_last_q \in [word : Words, off : Lanes]
  /\ rdata_q \in [1 .. 3 -> (0 .. NumWords) \X Lanes]
  /\ ctrl_q \in [off : Lanes, type : Types, sext : BOOLEAN, we : BOOLEAN]
  /\ acc \in Access \cup {None}
  /\ bus \in Seq(Beat)
  /\ hist \in [buserr : SUBSET {1, 2}, corrupt : SUBSET {1, 2},
               issued : Seq({1, 2}), written : SUBSET (Words \X Lanes \X Lanes)]
  /\ asked \in Beat \cup {None}

\* The bytes of an access, from its lowest address on.
Size(type) == CASE type = "word" -> 4 [] type = "half" -> 2 [] type = "byte" -> 1

ByteAt(o, i) == IF o.off + i < 4 THEN <<o.word, o.off + i>>
                                 ELSE <<IncrAddr(o.word), o.off + i - 4>>
HalfOf(o, i) == IF o.off + i < 4 THEN 1 ELSE 2

\* The halves of the answered access that failed.
Failed == done.acc.deny \cup done.hist.buserr

\* A load that does not fail returns the bytes at its address, lowest first,
\* extended to the register's width, however its transactions were granted and
\* answered (data_rdata_ext and lsu_rdata_valid_o); one that failed, and a
\* store, returns none.
LoadResult ==
  done # None =>
    LET o   == done.acc
        top == Size(o.type) - 1
        ok  == [l \in Lanes |-> IF l <= top THEN Mem(ByteAt(o, l))
                                            ELSE Extend(o.sext, ByteAt(o, top))]
    IN  /\ done.rdata_valid => ~o.we /\ Failed = {} /\ done.rdata = ok
        /\ ~o.we /\ Failed = {} /\ done.hist.corrupt = {} => done.rdata_valid

\* A store puts each byte of its source register on the lane of the byte's own
\* address, and enables no other lane (data_be and data_wdata over both parts),
\* a half the PMP refuses excepted.
StoreWrites ==
  done # None /\ done.acc.we =>
    LET o == done.acc
    IN  done.hist.written =
          {<<ByteAt(o, i)[1], ByteAt(o, i)[2], i>> :
             i \in {j \in 0 .. Size(o.type) - 1 : HalfOf(o, j) \notin o.deny}}

\* load_err_o or store_err_o, whichever the access is, is raised with the
\* answer exactly when some half was refused by the PMP or by the bus, and
\* addr_last_o is then what mtval must hold in the next cycle: the access's
\* address if its first half failed, else the second word's.
FaultReported ==
  done # None =>
    /\ done.load_err  <=> ~done.acc.we /\ Failed # {}
    /\ done.store_err <=>  done.acc.we /\ Failed # {}
    /\ Failed # {} =>
         addr_last_q = IF 1 \in Failed
                       THEN [word |-> done.acc.word, off |-> done.acc.off]
                       ELSE [word |-> IncrAddr(done.acc.word), off |-> 0]

\* A request the bus has not granted is repeated unchanged in the next cycle
\* (address, write enable, byte enables and write data hold until the grant),
\* and when an access is answered each of its halves that the PMP allows has
\* been on the bus once, the first before the second, even if the first failed.
RequestsRight ==
  /\ asked # None => data_req /\ acc # None /\ asked = RequestBeat(acc)
  /\ done # None =>
       done.hist.issued =
         (IF 1 \in done.acc.deny THEN <<>> ELSE <<1>>) \o
           (IF 2 \in Halves(done.acc.type, done.acc.off) \ done.acc.deny
            THEN <<2>> ELSE <<>>)

\* What the bus still owes is what the FSM waits for: nothing without an
\* access or before a grant, the last half in IDLE unless the PMP refused it,
\* the first half, or both, in between.  So no response is ever taken for
\* another half or another access (NoMemResponseWithoutPendingAccess).
Owed(halves) == [i \in 1 .. Len(bus) |-> bus[i].half] = halves
BusMatchesFsm ==
  /\ acc = None => ls_fsm_cs = "IDLE" /\ ~pmp_err_q
  /\ Owed(CASE acc = None \/ pmp_err_q -> <<>>
            [] acc # None /\ ~pmp_err_q ->
                 CASE ls_fsm_cs = "IDLE" -> <<LastHalf(acc)>>
                   [] ls_fsm_cs \in {"WAIT_GNT_MIS", "WAIT_GNT"} -> <<>>
                   [] ls_fsm_cs = "WAIT_RVALID_MIS" -> <<1>>
                   [] ls_fsm_cs = "WAIT_RVALID_MIS_GNTS_DONE" ->
                        IF 2 \in acc.deny THEN <<1>> ELSE <<1, 2>>)

\* Every access is answered, provided the bus grants and answers.
AccessAnswered == acc # None ~> done # None
=============================================================================
