------------------------ MODULE LoadStoreUnit_proofs ------------------------
(***************************************************************************)
(* The load-store unit, for every address space, every set of accesses,    *)
(* with or without integrity bits, and every grant and response of the     *)
(* bus: TypeOK and BusMatchesFsm, from the invariant LsuInv, which says    *)
(* which half the FSM waits for; then LoadResult, StoreWrites,             *)
(* FaultReported and RequestsRight, from HistInv, which joins it with what *)
(* the unit's registers and the bus hold of the access, as a function of   *)
(* how many halves are past their address phase (Sent) and of whether the  *)
(* first one has been answered (FirstOver).                                *)
(***************************************************************************)
EXTENDS LoadStoreUnit, TLAPS

-----------------------------------------------------------------------------
(* The FSM and the bus                                                     *)

Split == split_misaligned_access(acc.type, acc.off)

\* How many transactions the bus owes.
OwedLen ==
  IF acc = None \/ pmp_err_q \/ ls_fsm_cs \in {"WAIT_GNT_MIS", "WAIT_GNT"} THEN 0
  ELSE IF ls_fsm_cs = "WAIT_RVALID_MIS_GNTS_DONE" /\ 2 \notin acc.deny THEN 2
  ELSE 1

\* The flags of the FSM are functions of its state and of the access: which
\* accesses reach a state, and whose PMP verdict pmp_err_q holds.
FlagInv ==
  /\ acc = None => ls_fsm_cs = "IDLE" /\ ~pmp_err_q
  /\ ls_fsm_cs \in {"WAIT_GNT_MIS", "WAIT_RVALID_MIS",
                    "WAIT_RVALID_MIS_GNTS_DONE"} => Split
  /\ ls_fsm_cs \in {"IDLE", "WAIT_GNT_MIS", "WAIT_RVALID_MIS_GNTS_DONE"}
       => ~handle_misaligned_q
  /\ ls_fsm_cs = "WAIT_RVALID_MIS" => handle_misaligned_q
  /\ ls_fsm_cs = "WAIT_GNT" => (handle_misaligned_q <=> Split)
  /\ ls_fsm_cs \in {"WAIT_GNT_MIS", "WAIT_RVALID_MIS"}
       => (pmp_err_q <=> 1 \in acc.deny)
  /\ ls_fsm_cs = "WAIT_RVALID_MIS_GNTS_DONE" => ~pmp_err_q /\ 1 \notin acc.deny
  /\ acc # None /\ ls_fsm_cs \in {"IDLE", "WAIT_GNT"}
       => (pmp_err_q <=> LastHalf(acc) \in acc.deny)

BusInv ==
  /\ Len(bus) = OwedLen
  /\ OwedLen >= 1 =>
       bus[1].half = IF ls_fsm_cs = "IDLE" THEN LastHalf(acc) ELSE 1
  /\ OwedLen = 2 => bus[2].half = 2

LsuInv == TypeOK /\ FlagInv /\ BusInv

-----------------------------------------------------------------------------
HistType == [buserr : SUBSET {1, 2}, corrupt : SUBSET {1, 2},
             issued : Seq({1, 2}), written : SUBSET (Words \X Lanes \X Lanes)]

\* Taking the oldest transaction off a non-empty bus.
LEMMA BusTail ==
  ASSUME TypeOK, bus # <<>>
  PROVE  /\ Head(bus) \in Beat
         /\ Head(bus) = bus[1]
         /\ Tail(bus) \in Seq(Beat)
         /\ Len(Tail(bus)) = Len(bus) - 1
         /\ Len(bus) >= 1
         /\ Len(bus) = 2 => Tail(bus)[1] = bus[2]
<1>1. bus \in Seq(Beat)
  BY DEF TypeOK
<1> QED
  BY <1>1

\* The address adder stays within the address space.
LEMMA AdderType ==
  ASSUME TypeOK, NEW o \in Access
  PROVE  /\ adder_result_ex(o) \in [word : Words, off : Lanes]
         /\ addr_last_d(o) \in [word : Words, off : Lanes]
         /\ adder_result_ex(o).off \in Lanes
         /\ adder_result_ex(o).word \in Words
<1>1. addr_last_q \in [word : Words, off : Lanes]
  BY DEF TypeOK
<1>2. o.word \in Words /\ o.off \in Lanes
  BY DEF Access
<1>3. \A w \in Words : IncrAddr(w) \in Words
  BY LsuAssumption DEF IncrAddr, Words
<1>4. adder_result_ex(o) \in [word : Words, off : Lanes]
  BY <1>1, <1>2, <1>3 DEF adder_result_ex
<1>5. 0 \in Lanes
  BY DEF Lanes
<1> QED
  BY <1>4, <1>5 DEF addr_last_d

\* A request is a well-formed transaction.
LEMMA RequestBeatType ==
  ASSUME TypeOK, NEW o \in Access
  PROVE  RequestBeat(o) \in Beat
<1>1. o.type \in Types /\ o.we \in BOOLEAN
  BY DEF Access
<1>2. adder_result_ex(o).off \in Lanes /\ adder_result_ex(o).word \in Words
  BY AdderType
<1>3. \A off \in Lanes, second \in BOOLEAN :
         data_be(o.type, off, second) \subseteq Lanes
  BY <1>1 DEF data_be, Types, Lanes
<1>4. handle_misaligned_q \in BOOLEAN /\ ReqHalf \in {1, 2}
  BY DEF TypeOK, ReqHalf
<1> QED
  BY <1>1, <1>2, <1>3, <1>4 DEF RequestBeat, Beat

\* A half is blamed only when the bus has a transaction to answer.
LEMMA BlamedType ==
  ASSUME TypeOK, NEW bad \in BOOLEAN, bad => bus # <<>>
  PROVE  Blamed(bad) \subseteq {1, 2}
<1>1. CASE bad
  <2>1. Head(bus) \in Beat
    BY <1>1, BusTail
  <2> QED
    BY <2>1 DEF Blamed, Beat
<1>2. CASE ~bad
  BY <1>2 DEF Blamed
<1> QED
  BY <1>1, <1>2

\* The bus, the request left over and the history keep their types in a cycle.
LEMMA BusCycleType ==
  ASSUME TypeOK, NEW o \in Access, NEW req \in BOOLEAN, NEW gnt \in BOOLEAN,
         NEW r \in Responses, NEW h \in HistType,
         BusCycle(o, req, gnt, r, h)
  PROVE  bus' \in Seq(Beat) /\ asked' \in Beat \cup {None} /\ hist' \in HistType
<1> DEFINE ext == req /\ ~data_pmp_err(o)
           b == RequestBeat(o)
           own == ls_fsm_cs # "IDLE"
           rest == IF r # None THEN Tail(bus) ELSE bus
<1>1. b \in Beat
  BY RequestBeatType
<1>2. r # None => bus # <<>>
  BY DEF Responses
<1>3. rest \in Seq(Beat)
  BY <1>2, BusTail DEF TypeOK
<1>4. bus' = IF ext /\ gnt THEN Append(rest, b) ELSE rest
  BY DEF BusCycle
<1>5. bus' \in Seq(Beat)
  <2> HIDE DEF ext, b, rest
  <2> QED
    BY <1>1, <1>3, <1>4
<1>6. asked' \in Beat \cup {None}
  BY <1>1 DEF BusCycle
<1>7. Blamed(own /\ data_bus_err(r)) \subseteq {1, 2}
  BY <1>2, BlamedType DEF data_bus_err
<1>8. Blamed(own /\ data_intg_err(r)) \subseteq {1, 2}
  BY <1>2, BlamedType DEF data_intg_err
<1>9. \A off \in Lanes, l \in Lanes : data_wdata(off, l) \in Lanes
  BY DEF data_wdata, Lanes
<1>10. {<<b.word, l, data_wdata(b.rot, l)>> :
           l \in IF ext /\ gnt /\ b.we THEN b.be ELSE {}}
         \in SUBSET (Words \X Lanes \X Lanes)
  <2> HIDE DEF ext, b
  <2>1. b.word \in Words /\ b.rot \in Lanes /\ b.be \subseteq Lanes
    BY <1>1 DEF Beat
  <2> QED
    BY <2>1, <1>9
<1>11. (IF ext /\ gnt THEN Append(h.issued, b.half) ELSE h.issued)
         \in Seq({1, 2})
  <2> HIDE DEF ext, b
  <2>1. b.half \in {1, 2} /\ h.issued \in Seq({1, 2})
    BY <1>1 DEF Beat, HistType
  <2> QED
    BY <2>1
<1>12. hist' = [buserr  |-> h.buserr \cup Blamed(own /\ data_bus_err(r)),
                corrupt |-> h.corrupt \cup Blamed(own /\ data_intg_err(r)),
                issued  |-> IF ext /\ gnt THEN Append(h.issued, b.half)
                                          ELSE h.issued,
                written |-> h.written \cup
                  {<<b.word, l, data_wdata(b.rot, l)>> :
                     l \in IF ext /\ gnt /\ b.we THEN b.be ELSE {}}]
  BY DEF BusCycle
<1>13. hist' \in HistType
  <2> HIDE DEF ext, b, own
  <2> QED
    BY <1>7, <1>8, <1>10, <1>11, <1>12 DEF HistType
<1> QED
  BY <1>5, <1>6, <1>13

\* The register updates keep their types.
LEMMA UpdateType ==
  ASSUME TypeOK, NEW o \in Access, NEW r \in Responses
  PROVE  /\ \A en \in BOOLEAN : UpdateAddr(o, en) =>
              addr_last_q' \in [word : Words, off : Lanes]
         /\ \A en \in BOOLEAN : UpdateCtrl(o, en) =>
              ctrl_q' \in [off : Lanes, type : Types, sext : BOOLEAN, we : BOOLEAN]
         /\ \A en \in BOOLEAN : UpdateRdata(r, en) =>
              rdata_q' \in [1 .. 3 -> (0 .. NumWords) \X Lanes]
<1>1. o.type \in Types /\ o.sext \in BOOLEAN /\ o.we \in BOOLEAN
  BY DEF Access
<1>2. \A en \in BOOLEAN : UpdateAddr(o, en) =>
        addr_last_q' \in [word : Words, off : Lanes]
  BY AdderType DEF UpdateAddr, TypeOK
<1>3. \A en \in BOOLEAN : UpdateCtrl(o, en) =>
        ctrl_q' \in [off : Lanes, type : Types, sext : BOOLEAN, we : BOOLEAN]
  BY AdderType, <1>1 DEF UpdateCtrl, TypeOK
<1>4. \A en \in BOOLEAN : UpdateRdata(r, en) =>
        rdata_q' \in [1 .. 3 -> (0 .. NumWords) \X Lanes]
  <2>1. r # None => Head(bus).word \in Words
    BY BusTail DEF Responses, Beat
  <2>2. \A l \in 1 .. 3 : data_rdata(r)[l] \in (0 .. NumWords) \X Lanes
    BY <2>1, LsuAssumption DEF data_rdata, Words, Lanes
  <2> QED
    BY <2>2 DEF UpdateRdata, TypeOK
<1> QED
  BY <1>2, <1>3, <1>4

-----------------------------------------------------------------------------
\* What a cycle does to the bus: the answered half leaves, the granted enters.
LEMMA BusCycleHalves ==
  ASSUME TypeOK, NEW o \in Access, NEW req \in BOOLEAN, NEW gnt \in BOOLEAN,
         NEW r \in Responses, NEW h, Len(bus) <= 2,
         BusCycle(o, req, gnt, r, h)
  PROVE  LET enter == req /\ ~data_pmp_err(o) /\ gnt
             in    == IF enter THEN 1 ELSE 0
         IN /\ r = None =>
                 /\ Len(bus') = Len(bus) + in
                 /\ \A i \in 1 .. 2 : i <= Len(bus) => bus'[i] = bus[i]
                 /\ enter => bus'[Len(bus) + 1].half = ReqHalf
            /\ r # None =>
                 /\ Len(bus) >= 1
                 /\ Len(bus') = Len(bus) - 1 + in
                 /\ Len(bus) = 2 => bus'[1] = bus[2]
                 /\ enter => bus'[Len(bus)].half = ReqHalf
<1> DEFINE left == IF r # None THEN 1 ELSE 0
           enter == req /\ ~data_pmp_err(o) /\ gnt
           rest == IF r # None THEN Tail(bus) ELSE bus
           b == RequestBeat(o)
<1>1. b \in Beat /\ b.half = ReqHalf
  BY RequestBeatType DEF RequestBeat
<1>2. r # None => bus # <<>>
  BY DEF Responses
<1>3. /\ rest \in Seq(Beat)
      /\ Len(rest) = Len(bus) - left
      /\ \A i \in 1 .. 2 : i <= Len(bus) - left => rest[i] = bus[i + left]
      /\ r # None => Len(bus) >= 1
  <2>0. bus \in Seq(Beat)
    BY DEF TypeOK
  <2>1. CASE r = None
    BY <2>0, <2>1
  <2>2. CASE r # None
    BY <2>0, <2>2, <1>2, BusTail
  <2> QED
    BY <2>1, <2>2
<1>4. bus' = IF enter THEN Append(rest, b) ELSE rest
  BY DEF BusCycle
<1>5. /\ Len(bus') = Len(bus) - left + (IF enter THEN 1 ELSE 0)
      /\ \A i \in 1 .. 2 : i <= Len(bus) - left => bus'[i] = bus[i + left]
      /\ enter => bus'[Len(bus) - left + 1].half = ReqHalf
  <2>0. Len(bus) \in Nat /\ left \in {0, 1}
    BY DEF TypeOK
  <2> HIDE DEF enter, rest, b, left
  <2>1. CASE enter
    BY <2>0, <2>1, <1>1, <1>3, <1>4
  <2>2. CASE ~enter
    BY <2>0, <2>2, <1>1, <1>3, <1>4
  <2> QED
    BY <2>1, <2>2
<1>6. CASE r = None
  BY <1>5, <1>6
<1>7. CASE r # None
  <2>1. Len(bus) \in Nat /\ Len(bus) >= 1
    BY <1>3, <1>7 DEF TypeOK
  <2>2. left = 1 /\ Len(bus) - left + 1 = Len(bus)
    BY <1>7, <2>1
  <2>3. Len(bus) = 2 => bus'[1] = bus[2]
    <3> HIDE DEF enter, left
    <3>1. Len(bus) = 2 => bus'[1] = bus[1 + left]
      BY <1>5, <2>2
    <3> QED
      BY <2>2, <3>1
  <2> HIDE DEF enter, left
  <2>4. enter => bus'[Len(bus)].half = ReqHalf
    BY <1>5, <2>2
  <2>5. Len(bus') = Len(bus) - 1 + (IF enter THEN 1 ELSE 0)
    BY <1>5, <2>2
  <2> QED
    BY <1>7, <2>1, <2>3, <2>4, <2>5 DEF enter
<1> QED
  BY <1>6, <1>7

\* IDLE without a request keeps the invariant.
LEMMA IdleStep ==
  ASSUME LsuInv, NEW r \in Responses, Idle(r)
  PROVE  LsuInv'
<1> USE DEF LsuInv
<1>1. TypeOK'
  <2>1. bus' \in Seq(Beat)
    BY BusTail DEF Idle, TypeOK, Responses
  <2>2. NoHist \in HistType
    BY DEF NoHist, HistType
  <2>3. hist' \in HistType
    BY <2>2 DEF Idle, TypeOK, HistType
  <2> QED
    BY <2>1, <2>3 DEF Idle, TypeOK, HistType
<1>2. FlagInv'
  BY DEF Idle, FlagInv, Split, lsu_resp_valid, LastHalf
<1>3. BusInv'
  <2>1. CASE r = None
    BY <2>1 DEF Idle, BusInv, FlagInv, OwedLen, lsu_resp_valid, LastHalf, TypeOK
  <2>2. CASE r # None
    <3>1. bus # <<>> /\ Len(bus') = Len(bus) - 1
      BY <2>2, BusTail DEF Idle, Responses
    <3>2. acc' = None
      BY <2>2 DEF Idle, lsu_resp_valid
    <3>3. Len(bus) <= 1 /\ Len(bus) >= 1 /\ Len(bus) \in Nat
      BY <3>1, BusTail DEF BusInv, OwedLen, Idle, TypeOK
    <3> QED
      BY <3>1, <3>2, <3>3 DEF BusInv, OwedLen
  <2> QED
    BY <2>1, <2>2
<1> QED
  BY <1>1, <1>2, <1>3

\* The wait for the first half's grant keeps the invariant.
LEMMA WaitGntMisStep ==
  ASSUME LsuInv, NEW gnt \in BOOLEAN, NEW r \in Responses,
         WaitGntMis(gnt, r)
  PROVE  LsuInv'
<1> USE DEF LsuInv
<1>0. acc \in Access
  BY DEF TypeOK, FlagInv, WaitGntMis
<1>1. TypeOK'
  <2>1. bus' \in Seq(Beat) /\ asked' \in Beat \cup {None} /\ hist' \in HistType
    <3>1. TypeOK /\ hist \in HistType
      BY DEF TypeOK, HistType
    <3>2. BusCycle(acc, TRUE, gnt, r, hist)
      BY DEF WaitGntMis, Granted
    <3> QED
      BY <1>0, <3>1, <3>2, BusCycleType
  <2>2. addr_last_q' \in [word : Words, off : Lanes]
    BY <1>0, UpdateType DEF WaitGntMis, Granted, data_bus_err, TypeOK
  <2>3. ctrl_q' \in [off : Lanes, type : Types, sext : BOOLEAN, we : BOOLEAN]
    BY <1>0, UpdateType DEF WaitGntMis, Granted, TypeOK
  <2>4. rdata_q' \in [1 .. 3 -> (0 .. NumWords) \X Lanes]
    BY <1>0, UpdateType DEF WaitGntMis, Granted, TypeOK
  <2>5. /\ ls_fsm_cs' \in FsmState
        /\ handle_misaligned_q' \in BOOLEAN
        /\ pmp_err_q' \in BOOLEAN
        /\ lsu_err_q' \in BOOLEAN
        /\ acc' \in Access \cup {None}
    BY <1>0 DEF WaitGntMis, Granted, TypeOK, FsmState, data_pmp_err, data_bus_err
  <2> QED
    BY <2>1, <2>2, <2>3, <2>4, <2>5 DEF TypeOK, HistType
<1>2. FlagInv'
  BY <1>0 DEF WaitGntMis, Granted, FlagInv, Split, LastHalf, TypeOK, data_pmp_err, ReqHalf,
       addr_incr_req, Access, Halves
<1>3. BusInv'
  <2>1. Len(bus) <= 2 /\ Len(bus) \in Nat
    BY DEF BusInv, OwedLen, TypeOK
  <2>2. BusCycle(acc, TRUE, gnt, r, hist)
    BY DEF WaitGntMis, Granted
  <2>3. LET enter == ~data_pmp_err(acc) /\ gnt
            in    == IF enter THEN 1 ELSE 0
        IN /\ r = None =>
                /\ Len(bus') = Len(bus) + in
                /\ \A i \in 1 .. 2 : i <= Len(bus) => bus'[i] = bus[i]
                /\ enter => bus'[Len(bus) + 1].half = ReqHalf
           /\ r # None =>
                /\ Len(bus) >= 1
                /\ Len(bus') = Len(bus) - 1 + in
                /\ Len(bus) = 2 => bus'[1] = bus[2]
                /\ enter => bus'[Len(bus)].half = ReqHalf
    BY <1>0, <2>1, <2>2, BusCycleHalves
  <2>4. CASE r = None
    BY <1>0, <1>2, <2>1, <2>3, <2>4 DEF WaitGntMis, Granted, BusInv, FlagInv, OwedLen, Split,
       LastHalf, TypeOK, data_pmp_err, ReqHalf, addr_incr_req
  <2>5. CASE r # None
    BY <1>0, <1>2, <2>1, <2>3, <2>5 DEF WaitGntMis, Granted, BusInv, FlagInv, OwedLen, Split,
       LastHalf, TypeOK, data_pmp_err, ReqHalf, addr_incr_req
  <2> QED
    BY <2>4, <2>5
<1> QED
  BY <1>1, <1>2, <1>3

\* The wait for the first half's response keeps the invariant.
LEMMA WaitRvalidMisStep ==
  ASSUME LsuInv, NEW gnt \in BOOLEAN, NEW r \in Responses,
         WaitRvalidMis(gnt, r)
  PROVE  LsuInv'
<1> USE DEF LsuInv
<1>0. acc \in Access
  BY DEF TypeOK, FlagInv, WaitRvalidMis
<1>1. TypeOK'
  <2>1. bus' \in Seq(Beat) /\ asked' \in Beat \cup {None} /\ hist' \in HistType
    <3>1. TypeOK /\ hist \in HistType
      BY DEF TypeOK, HistType
    <3>2. BusCycle(acc, TRUE, gnt, r, hist)
      BY DEF WaitRvalidMis, Answered
    <3> QED
      BY <1>0, <3>1, <3>2, BusCycleType
  <2>2. addr_last_q' \in [word : Words, off : Lanes]
    BY <1>0, UpdateType DEF WaitRvalidMis, Answered, data_bus_err, TypeOK
  <2>3. ctrl_q' \in [off : Lanes, type : Types, sext : BOOLEAN, we : BOOLEAN]
    BY <1>0, UpdateType DEF WaitRvalidMis, Answered, TypeOK
  <2>4. rdata_q' \in [1 .. 3 -> (0 .. NumWords) \X Lanes]
    BY <1>0, UpdateType DEF WaitRvalidMis, Answered, TypeOK
  <2>5. ls_fsm_cs' \in FsmState /\ acc' \in Access \cup {None}
    BY <1>0 DEF WaitRvalidMis, Answered, TypeOK, FsmState
  <2>6. handle_misaligned_q' \in BOOLEAN /\ pmp_err_q' \in BOOLEAN
    <3>1. data_pmp_err(acc) \in BOOLEAN
      BY DEF data_pmp_err
    <3> QED
      BY <3>1 DEF WaitRvalidMis, Answered, TypeOK
  <2>7. data_bus_err(r) \in BOOLEAN
    BY DEF data_bus_err
  <2>8. lsu_err_q' \in BOOLEAN
    BY <2>7 DEF WaitRvalidMis, Answered, TypeOK
  <2> QED
    BY <2>1, <2>2, <2>3, <2>4, <2>5, <2>6, <2>8 DEF TypeOK, HistType
<1>2. FlagInv'
  BY <1>0 DEF WaitRvalidMis, Answered, FlagInv, Split, LastHalf, TypeOK, data_pmp_err, ReqHalf,
       addr_incr_req, Access, Halves
<1>3. BusInv'
  <2>1. Len(bus) <= 2 /\ Len(bus) \in Nat
    BY DEF BusInv, OwedLen, TypeOK
  <2>2. BusCycle(acc, TRUE, gnt, r, hist)
    BY DEF WaitRvalidMis, Answered
  <2>3. LET enter == ~data_pmp_err(acc) /\ gnt
            in    == IF enter THEN 1 ELSE 0
        IN /\ r = None =>
                /\ Len(bus') = Len(bus) + in
                /\ \A i \in 1 .. 2 : i <= Len(bus) => bus'[i] = bus[i]
                /\ enter => bus'[Len(bus) + 1].half = ReqHalf
           /\ r # None =>
                /\ Len(bus) >= 1
                /\ Len(bus') = Len(bus) - 1 + in
                /\ Len(bus) = 2 => bus'[1] = bus[2]
                /\ enter => bus'[Len(bus)].half = ReqHalf
    BY <1>0, <2>1, <2>2, BusCycleHalves
  <2>4. CASE r = None
    BY <1>0, <1>2, <2>1, <2>3, <2>4 DEF WaitRvalidMis, Answered, BusInv, FlagInv, OwedLen, Split,
       LastHalf, TypeOK, data_pmp_err, ReqHalf, addr_incr_req
  <2>5. CASE r # None
    <3>1. Len(bus) = 1 /\ ~pmp_err_q /\ ReqHalf = 2
      BY <2>3, <2>5 DEF WaitRvalidMis, Answered, BusInv, OwedLen, ReqHalf, addr_incr_req
    <3>2. /\ acc' = acc /\ LastHalf(acc)' = 2
          /\ pmp_err_q' <=> data_pmp_err(acc)
      BY <2>5 DEF WaitRvalidMis, Answered, TypeOK, data_pmp_err, FlagInv, Split, LastHalf
    <3>3. CASE gnt
      <4>1. ls_fsm_cs' = "IDLE"
        BY <2>5, <3>3 DEF WaitRvalidMis, Answered
      <4>2. OwedLen' = IF data_pmp_err(acc) THEN 0 ELSE 1
        BY <1>0, <3>2, <4>1, OpsAssumption DEF OwedLen
      <4>3. Len(bus') = OwedLen'
        BY <2>3, <2>5, <3>1, <3>3, <4>2
      <4>4. OwedLen' >= 1 => bus'[1].half = 2
        BY <2>3, <2>5, <3>1, <3>3, <4>2
      <4> QED
        BY <3>2, <4>1, <4>2, <4>3, <4>4 DEF BusInv
    <3>4. CASE ~gnt
      <4>1. ls_fsm_cs' = "WAIT_GNT"
        BY <2>5, <3>4 DEF WaitRvalidMis, Answered
      <4> QED
        BY <2>3, <2>5, <3>1, <3>4, <4>1 DEF BusInv, OwedLen
    <3> QED
      BY <3>3, <3>4
  <2> QED
    BY <2>4, <2>5
<1> QED
  BY <1>1, <1>2, <1>3

\* The wait for the last grant keeps the invariant.
LEMMA WaitGntStep ==
  ASSUME LsuInv, NEW gnt \in BOOLEAN, NEW r \in Responses,
         WaitGnt(gnt, r)
  PROVE  LsuInv'
<1> USE DEF LsuInv
<1>0. acc \in Access
  BY DEF TypeOK, FlagInv, WaitGnt
<1>1. TypeOK'
  <2>1. bus' \in Seq(Beat) /\ asked' \in Beat \cup {None} /\ hist' \in HistType
    <3>1. TypeOK /\ hist \in HistType
      BY DEF TypeOK, HistType
    <3>2. BusCycle(acc, TRUE, gnt, r, hist)
      BY DEF WaitGnt, Granted
    <3> QED
      BY <1>0, <3>1, <3>2, BusCycleType
  <2>2. addr_last_q' \in [word : Words, off : Lanes]
    BY <1>0, UpdateType DEF WaitGnt, Granted, data_bus_err, TypeOK
  <2>3. ctrl_q' \in [off : Lanes, type : Types, sext : BOOLEAN, we : BOOLEAN]
    BY <1>0, UpdateType DEF WaitGnt, Granted, TypeOK
  <2>4. rdata_q' \in [1 .. 3 -> (0 .. NumWords) \X Lanes]
    BY <1>0, UpdateType DEF WaitGnt, Granted, TypeOK
  <2>5. /\ ls_fsm_cs' \in FsmState
        /\ handle_misaligned_q' \in BOOLEAN
        /\ pmp_err_q' \in BOOLEAN
        /\ lsu_err_q' \in BOOLEAN
        /\ acc' \in Access \cup {None}
    BY <1>0 DEF WaitGnt, Granted, TypeOK, FsmState, data_pmp_err, data_bus_err
  <2> QED
    BY <2>1, <2>2, <2>3, <2>4, <2>5 DEF TypeOK, HistType
<1>2. FlagInv'
  BY <1>0 DEF WaitGnt, Granted, FlagInv, Split, LastHalf, TypeOK, data_pmp_err, ReqHalf,
       addr_incr_req, Access, Halves
<1>3. BusInv'
  <2>1. Len(bus) <= 2 /\ Len(bus) \in Nat
    BY DEF BusInv, OwedLen, TypeOK
  <2>2. BusCycle(acc, TRUE, gnt, r, hist)
    BY DEF WaitGnt, Granted
  <2>3. LET enter == ~data_pmp_err(acc) /\ gnt
            in    == IF enter THEN 1 ELSE 0
        IN /\ r = None =>
                /\ Len(bus') = Len(bus) + in
                /\ \A i \in 1 .. 2 : i <= Len(bus) => bus'[i] = bus[i]
                /\ enter => bus'[Len(bus) + 1].half = ReqHalf
           /\ r # None =>
                /\ Len(bus) >= 1
                /\ Len(bus') = Len(bus) - 1 + in
                /\ Len(bus) = 2 => bus'[1] = bus[2]
                /\ enter => bus'[Len(bus)].half = ReqHalf
    BY <1>0, <2>1, <2>2, BusCycleHalves
  <2>4. CASE r = None
    BY <1>0, <1>2, <2>1, <2>3, <2>4 DEF WaitGnt, Granted, BusInv, FlagInv, OwedLen, Split,
       LastHalf, TypeOK, data_pmp_err, ReqHalf, addr_incr_req
  <2>5. CASE r # None
    BY <1>0, <1>2, <2>1, <2>3, <2>5 DEF WaitGnt, Granted, BusInv, FlagInv, OwedLen, Split,
       LastHalf, TypeOK, data_pmp_err, ReqHalf, addr_incr_req
  <2> QED
    BY <2>4, <2>5
<1> QED
  BY <1>1, <1>2, <1>3

\* The wait for the first response with both halves granted keeps it.
LEMMA WaitRvalidMisGntsDoneStep ==
  ASSUME LsuInv, NEW r \in Responses,
         WaitRvalidMisGntsDone(r)
  PROVE  LsuInv'
<1> USE DEF LsuInv
<1>0. acc \in Access
  BY DEF TypeOK, FlagInv, WaitRvalidMisGntsDone
<1>1. TypeOK'
  <2>1. bus' \in Seq(Beat) /\ asked' \in Beat \cup {None} /\ hist' \in HistType
    <3>1. TypeOK /\ hist \in HistType
      BY DEF TypeOK, HistType
    <3>2. BusCycle(acc, FALSE, FALSE, r, hist)
      BY DEF WaitRvalidMisGntsDone
    <3> QED
      BY <1>0, <3>1, <3>2, BusCycleType
  <2>2. addr_last_q' \in [word : Words, off : Lanes]
    BY <1>0, UpdateType DEF WaitRvalidMisGntsDone, data_bus_err, TypeOK
  <2>3. ctrl_q' \in [off : Lanes, type : Types, sext : BOOLEAN, we : BOOLEAN]
    BY <1>0, UpdateType DEF WaitRvalidMisGntsDone, TypeOK
  <2>4. rdata_q' \in [1 .. 3 -> (0 .. NumWords) \X Lanes]
    BY <1>0, UpdateType DEF WaitRvalidMisGntsDone, TypeOK
  <2>5. ls_fsm_cs' \in FsmState /\ acc' \in Access \cup {None}
    BY <1>0 DEF WaitRvalidMisGntsDone, TypeOK, FsmState
  <2>6. handle_misaligned_q' \in BOOLEAN /\ pmp_err_q' \in BOOLEAN
    <3>1. data_pmp_err(acc) \in BOOLEAN
      BY DEF data_pmp_err
    <3> QED
      BY <3>1 DEF WaitRvalidMisGntsDone, TypeOK
  <2>7. data_bus_err(r) \in BOOLEAN
    BY DEF data_bus_err
  <2>8. lsu_err_q' \in BOOLEAN
    BY <2>7 DEF WaitRvalidMisGntsDone, TypeOK
  <2> QED
    BY <2>1, <2>2, <2>3, <2>4, <2>5, <2>6, <2>8 DEF TypeOK, HistType
<1>2. FlagInv'
  BY <1>0 DEF WaitRvalidMisGntsDone, FlagInv, Split, LastHalf, TypeOK, data_pmp_err, ReqHalf,
       addr_incr_req, Access, Halves
<1>3. BusInv'
  <2>1. Len(bus) <= 2 /\ Len(bus) \in Nat
    BY DEF BusInv, OwedLen, TypeOK
  <2>2. BusCycle(acc, FALSE, FALSE, r, hist)
    BY DEF WaitRvalidMisGntsDone
  <2>3. LET enter == FALSE
            in    == IF enter THEN 1 ELSE 0
        IN /\ r = None =>
                /\ Len(bus') = Len(bus) + in
                /\ \A i \in 1 .. 2 : i <= Len(bus) => bus'[i] = bus[i]
                /\ enter => bus'[Len(bus) + 1].half = ReqHalf
           /\ r # None =>
                /\ Len(bus) >= 1
                /\ Len(bus') = Len(bus) - 1 + in
                /\ Len(bus) = 2 => bus'[1] = bus[2]
                /\ enter => bus'[Len(bus)].half = ReqHalf
    BY <1>0, <2>1, <2>2, BusCycleHalves
  <2>4. CASE r = None
    BY <1>0, <1>2, <2>1, <2>3, <2>4 DEF WaitRvalidMisGntsDone, BusInv, FlagInv, OwedLen, Split,
       LastHalf, TypeOK, data_pmp_err, ReqHalf, addr_incr_req
  <2>5. CASE r # None
    <3>1. /\ acc' = acc /\ LastHalf(acc) = 2 /\ ls_fsm_cs' = "IDLE"
          /\ pmp_err_q' <=> 2 \in acc.deny
          /\ LastHalf(acc)' = 2
      BY <2>5 DEF WaitRvalidMisGntsDone, TypeOK, data_pmp_err, ReqHalf,
         addr_incr_req, FlagInv, Split, LastHalf
    <3>2. /\ Len(bus) = IF 2 \in acc.deny THEN 1 ELSE 2
          /\ Len(bus) = 2 => bus[2].half = 2
      BY <1>0, OpsAssumption DEF WaitRvalidMisGntsDone, BusInv, OwedLen, FlagInv
    <3>3. OwedLen' = IF 2 \in acc.deny THEN 0 ELSE 1
      BY <1>0, <3>1, OpsAssumption DEF OwedLen
    <3>4. Len(bus') = Len(bus) - 1 /\ (Len(bus) = 2 => bus'[1] = bus[2])
      BY <2>3, <2>5
    <3>5. Len(bus') = OwedLen'
      BY <3>2, <3>3, <3>4
    <3>6. OwedLen' >= 1 => bus'[1].half = 2
      BY <3>2, <3>3, <3>4
    <3> QED
      BY <3>1, <3>3, <3>5, <3>6 DEF BusInv
  <2> QED
    BY <2>4, <2>5
<1> QED
  BY <1>1, <1>2, <1>3

\* A new request, made when the previous access is answered, keeps it.
LEMMA IdleRequestStep ==
  ASSUME LsuInv, NEW o \in Ops, NEW gnt \in BOOLEAN, NEW r \in Responses,
         IdleRequest(o, gnt, r)
  PROVE  LsuInv'
<1> USE DEF LsuInv
<1>0. o \in Access /\ o # None
  BY OpsAssumption
<1>1. TypeOK'
  <2>1. NoHist \in HistType
    BY DEF NoHist, HistType
  <2>2. bus' \in Seq(Beat) /\ asked' \in Beat \cup {None} /\ hist' \in HistType
    BY <1>0, <2>1, BusCycleType DEF IdleRequest
  <2>3. addr_last_q' \in [word : Words, off : Lanes]
    BY <1>0, UpdateType DEF IdleRequest
  <2>4. ctrl_q' \in [off : Lanes, type : Types, sext : BOOLEAN, we : BOOLEAN]
    BY <1>0, UpdateType DEF IdleRequest
  <2>5. /\ ls_fsm_cs' \in FsmState
        /\ acc' \in Access \cup {None}
        /\ rdata_q' \in [1 .. 3 -> (0 .. NumWords) \X Lanes]
        /\ lsu_err_q' \in BOOLEAN
    BY <1>0 DEF IdleRequest, FsmState, TypeOK
  <2>6. pmp_err_q' \in BOOLEAN
    BY DEF IdleRequest, data_pmp_err
  <2>7. handle_misaligned_q' \in BOOLEAN
    BY DEF IdleRequest, TypeOK, split_misaligned_access
  <2> QED
    BY <2>2, <2>3, <2>4, <2>5, <2>6, <2>7 DEF TypeOK, HistType
<1>2. /\ acc' = o /\ ReqHalf = 1
      /\ pmp_err_q' <=> 1 \in o.deny
  BY DEF IdleRequest, data_pmp_err, ReqHalf, addr_incr_req
<1>3. o.deny \subseteq Halves(o.type, o.off)
  BY <1>0 DEF Access
<1>4. FlagInv'
  BY <1>0, <1>2, <1>3 DEF IdleRequest, FlagInv, Split, LastHalf, Halves
<1>5. BusInv'
  \* The bus is empty once this cycle's response, if any, is taken.
  <2>1. Len(bus) = IF r # None THEN 1 ELSE 0
    <3>1. Len(bus) <= 1 /\ Len(bus) \in Nat
      BY DEF BusInv, OwedLen, IdleRequest, TypeOK
    <3>2. r # None => Len(bus) >= 1
      BY BusTail DEF Responses
    <3>3. r = None => acc = None
      BY DEF IdleRequest, RequestAllowed, lsu_resp_valid, load_err, store_err,
         data_or_pmp_err, TypeOK
    <3> QED
      BY <3>1, <3>2, <3>3 DEF BusInv, OwedLen
  <2>2. BusCycle(o, TRUE, gnt, r, NoHist)
    BY DEF IdleRequest
  <2>3. LET enter == ~data_pmp_err(o) /\ gnt
        IN  /\ Len(bus') = IF enter THEN 1 ELSE 0
            /\ enter => bus'[1].half = 1
    <3>1. LET enter == ~data_pmp_err(o) /\ gnt
              in    == IF enter THEN 1 ELSE 0
          IN /\ r = None => /\ Len(bus') = Len(bus) + in
                            /\ enter => bus'[Len(bus) + 1].half = ReqHalf
             /\ r # None => /\ Len(bus') = Len(bus) - 1 + in
                            /\ enter => bus'[Len(bus)].half = ReqHalf
      <4>1. Len(bus) <= 2
        BY <2>1
      <4> QED
        BY <1>0, <2>2, <4>1, BusCycleHalves
    <3>2. CASE r = None
      <4>1. Len(bus) = 0
        BY <2>1, <3>2
      <4> QED
        BY <1>2, <3>1, <3>2, <4>1
    <3>3. CASE r # None
      <4>1. Len(bus) = 1
        BY <2>1, <3>3
      <4> QED
        BY <1>2, <3>1, <3>3, <4>1
    <3> QED
      BY <3>2, <3>3
  <2>4. data_pmp_err(o) <=> 1 \in o.deny
    BY <1>2 DEF data_pmp_err
  <2>5. OwedLen' = IF 1 \notin o.deny /\ gnt THEN 1 ELSE 0
    BY <1>0, <1>2 DEF OwedLen, IdleRequest
  <2>6. ls_fsm_cs' = "IDLE" => LastHalf(acc)' = 1
    BY <1>2 DEF IdleRequest, LastHalf
  <2> QED
    BY <2>3, <2>4, <2>5, <2>6 DEF BusInv
<1> QED
  BY <1>1, <1>4, <1>5

\* The reset state satisfies the invariant.
LEMMA InitInv == Init => LsuInv
<1> SUFFICES ASSUME Init PROVE LsuInv
  OBVIOUS
<1>1. TypeOK
  <2>1. rdata_q \in [1 .. 3 -> (0 .. NumWords) \X Lanes]
    BY LsuAssumption DEF Init, Lanes
  <2>2. bus \in Seq(Beat) /\ hist \in HistType
    BY DEF Init, NoHist, HistType
  <2>3. addr_last_q \in [word : Words, off : Lanes]
    BY LsuAssumption DEF Init, Words, Lanes
  <2>4. ctrl_q \in [off : Lanes, type : Types, sext : BOOLEAN, we : BOOLEAN]
    BY DEF Init, Lanes, Types
  <2> QED
    BY <2>1, <2>2, <2>3, <2>4 DEF Init, TypeOK, FsmState, HistType
<1>2. FlagInv /\ BusInv
  BY DEF Init, FlagInv, BusInv, OwedLen
<1> QED
  BY <1>1, <1>2 DEF LsuInv

\* Every clock cycle keeps the invariant.
LEMMA NextInv == LsuInv /\ [Next]_vars => LsuInv'
<1> SUFFICES ASSUME LsuInv, [Next]_vars PROVE LsuInv'
  OBVIOUS
<1>1. CASE UNCHANGED vars
  BY <1>1 DEF vars, regs, LsuInv, TypeOK, FlagInv, BusInv, OwedLen, Split, LastHalf
<1>2. ASSUME NEW gnt \in BOOLEAN, NEW r \in Responses, Cycle(gnt, r)
      PROVE  LsuInv'
  BY <1>2, IdleStep, IdleRequestStep, WaitGntMisStep, WaitRvalidMisStep,
     WaitGntStep, WaitRvalidMisGntsDoneStep DEF Cycle
<1> QED
  BY <1>1, <1>2 DEF Next

\* The flags and the bus agree with the FSM in every reachable state.
THEOREM Invariance == Spec => []LsuInv
  BY InitInv, NextInv, PTL DEF Spec

\* The registers and the ledger of accesses always have their types.
THEOREM TypeCorrect == Spec => []TypeOK
<1>1. LsuInv => TypeOK
  BY DEF LsuInv
<1> QED
  BY <1>1, Invariance, PTL

\* The bus owes exactly what the FSM waits for, so that no response is taken
\* for another half or another access.
THEOREM ResponsesMatched == Spec => []BusMatchesFsm
<1>1. LsuInv => BusMatchesFsm
  <2> SUFFICES ASSUME LsuInv PROVE BusMatchesFsm
    OBVIOUS
  <2>1. bus \in Seq(Beat) /\ Len(bus) \in Nat /\ ls_fsm_cs \in FsmState
    BY DEF LsuInv, TypeOK
  <2> DEFINE halves == [i \in 1 .. Len(bus) |-> bus[i].half]
  <2>2. Len(bus) = 0 => halves = <<>>
    BY <2>1
  <2>3. \A h : Len(bus) = 1 /\ bus[1].half = h => halves = <<h>>
    BY <2>1
  <2>4. Len(bus) = 2 /\ bus[1].half = 1 /\ bus[2].half = 2 => halves = <<1, 2>>
    BY <2>1
  <2> HIDE DEF halves
  <2>5. acc = None \/ pmp_err_q => halves = <<>>
    BY <2>2 DEF LsuInv, BusInv, OwedLen
  <2>6. acc # None /\ ~pmp_err_q =>
          halves = CASE ls_fsm_cs = "IDLE" -> <<LastHalf(acc)>>
                     [] ls_fsm_cs \in {"WAIT_GNT_MIS", "WAIT_GNT"} -> <<>>
                     [] ls_fsm_cs = "WAIT_RVALID_MIS" -> <<1>>
                     [] ls_fsm_cs = "WAIT_RVALID_MIS_GNTS_DONE" ->
                          IF 2 \in acc.deny THEN <<1>> ELSE <<1, 2>>
    BY <2>1, <2>2, <2>3, <2>4 DEF LsuInv, BusInv, OwedLen, FsmState
  <2> QED
    BY <2>5, <2>6 DEF BusMatchesFsm, Owed, LsuInv, FlagInv, halves
<1> QED
  BY <1>1, Invariance, PTL

-----------------------------------------------------------------------------
(* What becomes of an access                                               *)


\* The halves of the access that are past their address phase.
Sent ==
  CASE ls_fsm_cs = "IDLE" -> LastHalf(acc)
    [] ls_fsm_cs = "WAIT_GNT_MIS" -> 0
    [] ls_fsm_cs = "WAIT_GNT" -> IF Split THEN 1 ELSE 0
    [] ls_fsm_cs = "WAIT_RVALID_MIS" -> 1
    [] ls_fsm_cs = "WAIT_RVALID_MIS_GNTS_DONE" -> 2

\* The first part of a split access has been answered.
FirstOver == Split /\ ls_fsm_cs \in {"WAIT_GNT", "IDLE"}

\* The address, the word of a half and the control register of access o.
AddrOf(o) == [word |-> o.word, off |-> o.off]
HalfWord(o, h) == IF h = 1 THEN o.word ELSE IncrAddr(o.word)
CtrlOf(o) == [off |-> o.off, type |-> o.type, sext |-> o.sext, we |-> o.we]

\* The request for half h of access o.
BeatOf(o, h) ==
  [word |-> HalfWord(o, h), half |-> h, we |-> o.we,
   be |-> data_be(o.type, o.off, h = 2), rot |-> o.off]

\* The halves on the bus after n address phases of o, and what they write.
IssuedAfter(o, n) ==
  (IF n >= 1 /\ 1 \notin o.deny THEN <<1>> ELSE <<>>)
    \o (IF n >= 2 /\ 2 \notin o.deny THEN <<2>> ELSE <<>>)
BytesAfter(o, n) ==
  {<<ByteAt(o, i)[1], ByteAt(o, i)[2], i>> :
     i \in {j \in 0 .. Size(o.type) - 1 :
              HalfOf(o, j) <= n /\ HalfOf(o, j) \notin o.deny}}

\* The registers that hold the access, from its first grant on.
CaptureInv ==
  /\ Sent >= 1 => ctrl_q = CtrlOf(acc)
  /\ Sent >= 1 /\ (ls_fsm_cs # "IDLE" \/ ~Split \/ lsu_err_q)
       => addr_last_q = AddrOf(acc)
  /\ ls_fsm_cs = "IDLE" /\ Split /\ ~lsu_err_q
       => addr_last_q = [word |-> IncrAddr(acc.word), off |-> 0]

\* lsu_err_q is the first part's failure.
ErrInv ==
  /\ FirstOver => /\ lsu_err_q <=> 1 \in acc.deny \cup hist.buserr
                  /\ hist.buserr \subseteq {1}
  /\ ~FirstOver => ~lsu_err_q /\ hist.buserr = {}

\* rdata_q keeps the first part's bytes.
DataInv ==
  FirstOver /\ ~acc.we /\ ~lsu_err_q
    => rdata_q = [l \in 1 .. 3 |-> <<acc.word, l>>]

TraceInv ==
  /\ hist.issued = IssuedAfter(acc, Sent)
  /\ hist.written = IF acc.we THEN BytesAfter(acc, Sent) ELSE {}
  /\ \A i \in 1 .. Len(bus) : bus[i].word = HalfWord(acc, bus[i].half)

HistInv == acc # None => CaptureInv /\ ErrInv /\ DataInv /\ TraceInv

\* A request left ungranted is the one the unit still makes.
AskedInv ==
  asked # None => data_req /\ acc # None /\ asked = BeatOf(acc, ReqHalf)

\* The answer of the last cycle is right.
IssuedInv ==
  done # None => done.hist.issued = IssuedAfter(done.acc, LastHalf(done.acc))

DoneInv == LoadResult /\ StoreWrites /\ FaultReported /\ IssuedInv

HistoryInv == HistInv /\ AskedInv /\ DoneInv

-----------------------------------------------------------------------------
(* What the operators of the data path compute, for every access.            *)

\* The lanes a part enables, and the register bytes rotated onto them, are the
\* bytes of the access that lie in the part's word.
BytesOf(o, h) ==
  {<<ByteAt(o, i)[1], ByteAt(o, i)[2], i>> :
     i \in {j \in 0 .. Size(o.type) - 1 : HalfOf(o, j) = h}}
BeatBytes(b) == {<<b.word, l, data_wdata(b.rot, l)>> : l \in b.be}

LEMMA AccessFields ==
  ASSUME NEW o \in Access
  PROVE  /\ o.type \in Types /\ o.off \in Lanes /\ o.word \in Words
         /\ o.we \in BOOLEAN /\ o.sext \in BOOLEAN
         /\ o.deny \subseteq Halves(o.type, o.off)
  BY DEF Access

LEMMA BeatBytesRight ==
  ASSUME NEW o \in Access, NEW h \in Halves(o.type, o.off)
  PROVE  BeatBytes(BeatOf(o, h)) = BytesOf(o, h)
<1> DEFINE w == HalfWord(o, h)
           be == data_be(o.type, o.off, h = 2)
<1>1. BeatBytes(BeatOf(o, h)) = {<<w, l, data_wdata(o.off, l)>> : l \in be}
  BY DEF BeatBytes, BeatOf
<1>2. \A i \in 0 .. Size(o.type) - 1 : HalfOf(o, i) = h =>
        \E l \in be : <<ByteAt(o, i)[1], ByteAt(o, i)[2], i>>
                        = <<w, l, data_wdata(o.off, l)>>
  <2> SUFFICES ASSUME NEW i \in 0 .. Size(o.type) - 1, HalfOf(o, i) = h
               PROVE  \E l \in be : <<ByteAt(o, i)[1], ByteAt(o, i)[2], i>>
                                      = <<w, l, data_wdata(o.off, l)>>
    OBVIOUS
  <2> DEFINE l == IF o.off + i < 4 THEN o.off + i ELSE o.off + i - 4
  <2>1. i \in 0 .. 3 /\ o.off \in 0 .. 3 /\ i \in Nat /\ o.off \in Nat
    BY AccessFields DEF Size, Types, Lanes
  <2>2. ByteAt(o, i)[1] = w /\ ByteAt(o, i)[2] = l
    BY <2>1 DEF ByteAt, HalfOf, HalfWord
  <2>3. data_wdata(o.off, l) = i
    BY <2>1 DEF data_wdata
  <2>4. l \in be
    BY <2>1, AccessFields DEF data_be, HalfOf, Size, Types, Lanes, Halves,
       split_misaligned_access
  <2> QED
    BY <2>2, <2>3, <2>4
<1>3. \A l \in be : \E i \in 0 .. Size(o.type) - 1 :
        /\ HalfOf(o, i) = h
        /\ <<ByteAt(o, i)[1], ByteAt(o, i)[2], i>> = <<w, l, data_wdata(o.off, l)>>
  <2> SUFFICES ASSUME NEW l \in be
               PROVE  \E i \in 0 .. Size(o.type) - 1 :
                        /\ HalfOf(o, i) = h
                        /\ <<ByteAt(o, i)[1], ByteAt(o, i)[2], i>>
                             = <<w, l, data_wdata(o.off, l)>>
    OBVIOUS
  <2> DEFINE i == data_wdata(o.off, l)
  <2>1. l \in 0 .. 3 /\ o.off \in 0 .. 3
    BY AccessFields DEF data_be, Types, Lanes
  <2>2. i \in 0 .. Size(o.type) - 1 /\ HalfOf(o, i) = h
    BY <2>1, AccessFields DEF data_be, data_wdata, HalfOf, Size, Types, Lanes, Halves,
       split_misaligned_access
  <2>3. ByteAt(o, i) = <<w, l>>
    BY <2>1, <2>2 DEF ByteAt, HalfOf, HalfWord, data_wdata
  <2> QED
    BY <2>2, <2>3
<1> QED
  BY <1>1, <1>2, <1>3 DEF BytesOf

\* One more address phase adds the bytes of its half, unless it is refused.
LEMMA AfterNext ==
  ASSUME NEW o \in Access, NEW n \in {0, 1}
  PROVE  /\ BytesAfter(o, n + 1) = BytesAfter(o, n) \cup
              (IF n + 1 \in o.deny THEN {} ELSE BytesOf(o, n + 1))
         /\ IssuedAfter(o, n + 1) =
              IF n + 1 \in o.deny THEN IssuedAfter(o, n)
              ELSE Append(IssuedAfter(o, n), n + 1)
<1>1. \A j \in 0 .. Size(o.type) - 1 : HalfOf(o, j) \in {1, 2}
  BY DEF HalfOf
<1>2. BytesAfter(o, n + 1) = BytesAfter(o, n) \cup
        (IF n + 1 \in o.deny THEN {} ELSE BytesOf(o, n + 1))
  BY <1>1 DEF BytesAfter, BytesOf
<1>3. IssuedAfter(o, n + 1) =
        IF n + 1 \in o.deny THEN IssuedAfter(o, n)
        ELSE Append(IssuedAfter(o, n), n + 1)
  BY DEF IssuedAfter
<1> QED
  BY <1>2, <1>3

\* Nothing is sent before the first address phase.
LEMMA AfterNone ==
  ASSUME NEW o \in Access
  PROVE  IssuedAfter(o, 0) = <<>> /\ BytesAfter(o, 0) = {}
<1>1. \A j \in 0 .. Size(o.type) - 1 : HalfOf(o, j) \in {1, 2}
  BY DEF HalfOf
<1> QED
  BY <1>1 DEF IssuedAfter, BytesAfter

\* The result of a load put together from the first part's bytes in rdata_q and
\* the last part's response is the access's bytes, extended.
LoadedValue(o) ==
  [l \in Lanes |-> IF l <= Size(o.type) - 1 THEN Mem(ByteAt(o, l))
                   ELSE Extend(o.sext, ByteAt(o, Size(o.type) - 1))]

LEMMA LoadedRight ==
  ASSUME NEW o \in Access, NEW q, NEW d,
         LastHalf(o) = 2 => q = [l \in 1 .. 3 |-> <<o.word, l>>],
         d = [l \in Lanes |-> <<HalfWord(o, LastHalf(o)), l>>]
  PROVE  data_rdata_ext(CtrlOf(o), q, d) = LoadedValue(o)
<1>0. o.type \in Types /\ o.off \in Lanes
  BY AccessFields
<1>1. CASE o.type = "word"
  <2>1. data_rdata_ext(CtrlOf(o), q, d) = rdata_w_ext(o.off, q, d)
    BY <1>1 DEF data_rdata_ext, CtrlOf
  <2>2. Size(o.type) - 1 = 3
    BY <1>1 DEF Size
  <2>3. ASSUME NEW l \in Lanes
        PROVE  rdata_w_ext(o.off, q, d)[l] = Mem(ByteAt(o, l))
    <3>1. rdata_w_ext(o.off, q, d)[l] =
            IF o.off = 0 THEN Mem(d[l])
            ELSE IF l + o.off < 4 THEN Mem(q[l + o.off])
            ELSE Mem(d[l + o.off - 4])
      BY DEF rdata_w_ext
    <3>2. CASE o.off = 0
      <4>1. d[l] = <<o.word, l>>
        BY <1>1, <3>2 DEF LastHalf, HalfWord, split_misaligned_access
      <4>2. ByteAt(o, l) = <<o.word, l>>
        BY <3>2 DEF ByteAt, Lanes
      <4> QED
        BY <3>1, <3>2, <4>1, <4>2
    <3>3. CASE o.off # 0
      <4>1. LastHalf(o) = 2
        BY <1>1, <3>3 DEF LastHalf, split_misaligned_access
      <4>2. l + o.off < 4 => ByteAt(o, l) = q[l + o.off]
        BY <1>0, <3>3, <4>1 DEF ByteAt, Lanes
      <4>3. ~(l + o.off < 4) => ByteAt(o, l) = d[l + o.off - 4]
        BY <1>0, <3>3, <4>1 DEF ByteAt, Lanes, HalfWord
      <4> QED
        BY <3>1, <3>3, <4>2, <4>3
    <3> QED
      BY <3>2, <3>3
  <2> QED
    BY <2>1, <2>2, <2>3 DEF LoadedValue, rdata_w_ext, Lanes
<1>2. CASE o.type = "half"
  <2> DEFINE lo == IF o.off = 3 THEN q[3] ELSE d[o.off]
             hi == IF o.off = 3 THEN d[0] ELSE d[o.off + 1]
  <2>1. data_rdata_ext(CtrlOf(o), q, d) =
          [l \in Lanes |-> CASE l = 0 -> Mem(lo)
                             [] l = 1 -> Mem(hi)
                             [] OTHER -> Extend(o.sext, hi)]
    BY <1>2 DEF data_rdata_ext, rdata_h_ext, CtrlOf
  <2>2. Size(o.type) - 1 = 1
    BY <1>2 DEF Size
  <2>3. lo = ByteAt(o, 0) /\ hi = ByteAt(o, 1)
    BY <1>0, <1>2 DEF ByteAt, Lanes, LastHalf, HalfWord, split_misaligned_access
  <2> HIDE DEF lo, hi
  <2> QED
    BY <2>1, <2>2, <2>3 DEF LoadedValue, Lanes
<1>3. CASE o.type = "byte"
  <2>1. data_rdata_ext(CtrlOf(o), q, d) =
          [l \in Lanes |-> IF l = 0 THEN Mem(d[o.off]) ELSE Extend(o.sext, d[o.off])]
    BY <1>3 DEF data_rdata_ext, rdata_b_ext, CtrlOf
  <2>2. Size(o.type) - 1 = 0
    BY <1>3 DEF Size
  <2>3. d[o.off] = ByteAt(o, 0)
    BY <1>0, <1>3 DEF ByteAt, Lanes, LastHalf, HalfWord, split_misaligned_access
  <2> QED
    BY <2>1, <2>2, <2>3 DEF LoadedValue, Lanes
<1> QED
  BY <1>0, <1>1, <1>2, <1>3 DEF Types

-----------------------------------------------------------------------------
(* What a cycle does to the request, the bus and the history of an access.   *)

\* In IDLE the unit requests the first half of the new access.
LEMMA FirstRequest ==
  ASSUME LsuInv, ls_fsm_cs = "IDLE", NEW o \in Access
  PROVE  /\ ReqHalf = 1
         /\ RequestBeat(o) = BeatOf(o, 1)
         /\ adder_result_ex(o) = AddrOf(o)
         /\ addr_last_d(o) = AddrOf(o)
<1>1. ~addr_incr_req
  BY DEF addr_incr_req
<1>2. ~handle_misaligned_q /\ handle_misaligned_q \in BOOLEAN
  BY DEF LsuInv, FlagInv, TypeOK
<1>3. adder_result_ex(o) = AddrOf(o)
  BY <1>1 DEF adder_result_ex, AddrOf
<1>4. handle_misaligned_q = (1 = 2)
  BY <1>2
<1>5. RequestBeat(o) = BeatOf(o, 1)
  BY <1>1, <1>3, <1>4 DEF RequestBeat, BeatOf, ReqHalf, AddrOf, HalfWord
<1> QED
  BY <1>1, <1>3, <1>5 DEF ReqHalf, addr_last_d

\* Outside IDLE the unit requests the half after the ones it has sent.
LEMMA NextRequest ==
  ASSUME LsuInv, HistInv, data_req
  PROVE  /\ acc \in Access /\ acc # None
         /\ Sent \in {0, 1}
         /\ ReqHalf = Sent + 1
         /\ ReqHalf \in Halves(acc.type, acc.off)
         /\ RequestBeat(acc) = BeatOf(acc, ReqHalf)
         /\ adder_result_ex(acc).off = acc.off
         /\ addr_last_d(acc) = IF ReqHalf = 1 THEN AddrOf(acc)
                               ELSE [word |-> IncrAddr(acc.word), off |-> 0]
<1>1. acc \in Access /\ acc # None
  BY DEF LsuInv, TypeOK, FlagInv, data_req
<1>2. Sent \in {0, 1} /\ ReqHalf = Sent + 1
  BY DEF LsuInv, FlagInv, data_req, Sent, ReqHalf, addr_incr_req, TypeOK
<1>3. ReqHalf \in Halves(acc.type, acc.off)
  BY DEF LsuInv, FlagInv, data_req, ReqHalf, addr_incr_req, Halves, Split, TypeOK
<1>4. addr_incr_req => addr_last_q = AddrOf(acc)
  BY <1>1, <1>2 DEF HistInv, CaptureInv, data_req, ReqHalf
<1>5. handle_misaligned_q = (ReqHalf = 2)
  BY DEF LsuInv, FlagInv, data_req, ReqHalf, addr_incr_req, TypeOK
<1>6. adder_result_ex(acc) = [word |-> HalfWord(acc, ReqHalf), off |-> acc.off]
  BY <1>4 DEF adder_result_ex, AddrOf, HalfWord, ReqHalf
<1>7. RequestBeat(acc) = BeatOf(acc, ReqHalf)
  BY <1>5, <1>6 DEF RequestBeat, BeatOf
<1>8. addr_last_d(acc) = IF ReqHalf = 1 THEN AddrOf(acc)
                         ELSE [word |-> IncrAddr(acc.word), off |-> 0]
  BY <1>6 DEF addr_last_d, ReqHalf, AddrOf, HalfWord
<1> QED
  BY <1>1, <1>2, <1>3, <1>6, <1>7, <1>8

\* The history after a cycle that requests half n + 1 of o.
LEMMA TraceStep ==
  ASSUME TypeOK, NEW o \in Access, NEW n \in {0, 1}, NEW m \in {n, n + 1},
         n + 1 \in Halves(o.type, o.off), ReqHalf = n + 1,
         RequestBeat(o) = BeatOf(o, n + 1),
         NEW gnt \in BOOLEAN, NEW r \in Responses, NEW h,
         h.issued = IssuedAfter(o, n),
         h.written = IF o.we THEN BytesAfter(o, n) ELSE {},
         BusCycle(o, TRUE, gnt, r, h),
         m = n => ~gnt \/ n + 1 \in o.deny,
         m = n + 1 => gnt \/ n + 1 \in o.deny
  PROVE  /\ hist'.issued = IssuedAfter(o, m)
         /\ hist'.written = IF o.we THEN BytesAfter(o, m) ELSE {}
<1> DEFINE ext == ~data_pmp_err(o) /\ gnt
           b == RequestBeat(o)
           new == {<<b.word, l, data_wdata(b.rot, l)>> :
                     l \in IF ext /\ b.we THEN b.be ELSE {}}
<1>1. ext <=> m = n + 1 /\ n + 1 \notin o.deny
  BY DEF data_pmp_err
<1>2. /\ hist'.issued = IF ext THEN Append(h.issued, b.half) ELSE h.issued
      /\ hist'.written = h.written \cup new
  BY DEF BusCycle
<1>3. b.half = n + 1 /\ b.we = o.we
  BY DEF BeatOf
<1>4. new = IF ext /\ o.we THEN BytesOf(o, n + 1) ELSE {}
  <2>1. BeatBytes(b) = BytesOf(o, n + 1)
    BY BeatBytesRight
  <2>2. ext /\ o.we => new = BeatBytes(b)
    BY <1>3 DEF BeatBytes
  <2>3. ~(ext /\ o.we) => new = {}
    BY <1>3
  <2> QED
    BY <2>1, <2>2, <2>3
<1> HIDE DEF ext, b, new
<1>5. hist'.issued = IssuedAfter(o, m)
  BY <1>1, <1>2, <1>3, AfterNext
<1>6. hist'.written = IF o.we THEN BytesAfter(o, m) ELSE {}
  BY <1>1, <1>2, <1>4, AfterNext
<1> QED
  BY <1>5, <1>6

\* The bus carries words of o if it did and the request is one of o's.
LEMMA BusWords ==
  ASSUME TypeOK, NEW o \in Access, NEW req \in BOOLEAN, NEW gnt \in BOOLEAN,
         NEW r \in Responses, NEW h, BusCycle(o, req, gnt, r, h),
         req => RequestBeat(o).word = HalfWord(o, RequestBeat(o).half),
         LET rest == IF r # None THEN Tail(bus) ELSE bus
         IN  \A i \in 1 .. Len(rest) : rest[i].word = HalfWord(o, rest[i].half)
  PROVE  \A i \in 1 .. Len(bus') : bus'[i].word = HalfWord(o, bus'[i].half)
<1> DEFINE ext == req /\ ~data_pmp_err(o) /\ gnt
           b == RequestBeat(o)
           rest == IF r # None THEN Tail(bus) ELSE bus
<1>1. b \in Beat
  BY RequestBeatType
<1>2. rest \in Seq(Beat)
  BY BusTail DEF TypeOK, Responses
<1>3. bus' = IF ext THEN Append(rest, b) ELSE rest
  BY DEF BusCycle
<1>4. /\ \A i \in 1 .. Len(rest) : rest[i].word = HalfWord(o, rest[i].half)
      /\ ext => b.word = HalfWord(o, b.half)
  OBVIOUS
<1> HIDE DEF ext, b, rest
<1>5. CASE ext
  <2>1. bus' = Append(rest, b)
    BY <1>3, <1>5
  <2>2. Len(bus') = Len(rest) + 1 /\ bus'[Len(rest) + 1] = b
    BY <1>1, <1>2, <2>1
  <2>3. \A i \in 1 .. Len(rest) : bus'[i] = rest[i]
    BY <1>1, <1>2, <2>1
  <2>4. \A i \in 1 .. Len(rest) + 1 : i \in 1 .. Len(rest) \/ i = Len(rest) + 1
    BY <1>2
  <2> QED
    BY <1>4, <1>5, <2>2, <2>3, <2>4
<1>6. CASE ~ext
  BY <1>3, <1>4, <1>6
<1> QED
  BY <1>5, <1>6

\* The words on the bus stay right when the oldest transaction leaves.
LEMMA TailWords ==
  ASSUME TypeOK, NEW o, NEW r \in Responses,
         \A i \in 1 .. Len(bus) : bus[i].word = HalfWord(o, bus[i].half)
  PROVE  LET rest == IF r # None THEN Tail(bus) ELSE bus
         IN  \A i \in 1 .. Len(rest) : rest[i].word = HalfWord(o, rest[i].half)
<1>1. CASE r = None
  BY <1>1
<1>2. CASE r # None
  <2>1. bus # <<>> /\ bus \in Seq(Beat)
    BY <1>2 DEF Responses, TypeOK
  <2>2. /\ Len(Tail(bus)) = Len(bus) - 1 /\ Len(bus) \in Nat
        /\ \A i \in 1 .. Len(bus) - 1 : Tail(bus)[i] = bus[i + 1]
    BY <2>1
  <2> QED
    BY <1>2, <2>2
<1> QED
  BY <1>1, <1>2

\* The bus answers only what it owes.
LEMMA NoResponse ==
  ASSUME LsuInv, OwedLen = 0, NEW r \in Responses
  PROVE  r = None /\ bus = <<>>
<1>1. Len(bus) = 0 /\ bus \in Seq(Beat)
  BY DEF LsuInv, BusInv, TypeOK
<1>2. bus = <<>>
  BY <1>1
<1> QED
  BY <1>2 DEF Responses

\* A cycle that leaves the access and its answer alone keeps the parts of the
\* invariant about the trace and about the request, if what is sent is granted.
LEMMA RequestCycle ==
  ASSUME LsuInv, HistInv, LsuInv', data_req, NEW gnt \in BOOLEAN,
         NEW r \in Responses, BusCycle(acc, TRUE, gnt, r, hist),
         acc' = acc, Sent' \in {Sent, Sent + 1},
         Sent' = Sent => ~gnt \/ ReqHalf \in acc.deny,
         Sent' = Sent + 1 => gnt \/ ReqHalf \in acc.deny
  PROVE  TraceInv'
<1>1. /\ acc \in Access /\ acc # None
      /\ Sent \in {0, 1} /\ ReqHalf = Sent + 1
      /\ ReqHalf \in Halves(acc.type, acc.off)
      /\ RequestBeat(acc) = BeatOf(acc, ReqHalf)
  BY NextRequest
<1>2. TypeOK /\ TraceInv
  BY <1>1 DEF LsuInv, HistInv
<1>3. /\ hist'.issued = IssuedAfter(acc, Sent')
      /\ hist'.written = IF acc.we THEN BytesAfter(acc, Sent') ELSE {}
  <2>1. /\ hist.issued = IssuedAfter(acc, Sent)
        /\ hist.written = IF acc.we THEN BytesAfter(acc, Sent) ELSE {}
    BY <1>2 DEF TraceInv
  <2> QED
    BY <1>1, <1>2, <2>1, TraceStep
<1>4. \A i \in 1 .. Len(bus') : bus'[i].word = HalfWord(acc, bus'[i].half)
  <2>1. \A i \in 1 .. Len(bus) : bus[i].word = HalfWord(acc, bus[i].half)
    BY <1>2 DEF TraceInv
  <2>2. RequestBeat(acc).word = HalfWord(acc, RequestBeat(acc).half)
    BY <1>1 DEF BeatOf
  <2>3. LET rest == IF r # None THEN Tail(bus) ELSE bus
        IN  \A i \in 1 .. Len(rest) : rest[i].word = HalfWord(acc, rest[i].half)
    BY <1>2, <2>1, TailWords
  <2> QED
    BY <1>1, <1>2, <2>2, <2>3, BusWords
<1> QED
  BY <1>3, <1>4 DEF TraceInv, IssuedAfter, BytesAfter, ByteAt, HalfOf, HalfWord

\* Outside IDLE a bad response blames the first half of the access.
LEMMA BlameStep ==
  ASSUME LsuInv, ls_fsm_cs # "IDLE", NEW req, NEW gnt, NEW r \in Responses,
         BusCycle(acc, req, gnt, r, hist)
  PROVE  hist'.buserr = hist.buserr \cup (IF data_bus_err(r) THEN {1} ELSE {})
<1>1. hist'.buserr = hist.buserr \cup Blamed(data_bus_err(r))
  BY DEF BusCycle, Blamed
<1>2. data_bus_err(r) => Head(bus).half = 1
  <2> SUFFICES ASSUME data_bus_err(r) PROVE Head(bus).half = 1
    OBVIOUS
  <2>1. bus # <<>>
    BY DEF data_bus_err, Responses
  <2>2. Head(bus) = bus[1] /\ Len(bus) >= 1
    BY <2>1, BusTail DEF LsuInv
  <2> QED
    BY <2>2 DEF LsuInv, BusInv
<1> QED
  BY <1>1, <1>2 DEF Blamed

\* A request left over is repeated when the next cycle asks for the same half.
LEMMA AskedStep ==
  ASSUME NEW o, NEW gnt \in BOOLEAN, NEW r, NEW h,
         BusCycle(o, TRUE, gnt, r, h), acc' = o, o # None,
         RequestBeat(o) = BeatOf(o, ReqHalf),
         ~gnt /\ ~data_pmp_err(o) => data_req' /\ ReqHalf' = ReqHalf
  PROVE  AskedInv'
<1>1. asked' = IF ~data_pmp_err(o) /\ ~gnt THEN RequestBeat(o) ELSE None
  BY DEF BusCycle
<1>2. ReqHalf' = ReqHalf => BeatOf(acc, ReqHalf)' = BeatOf(o, ReqHalf)
  BY DEF BeatOf, HalfWord
<1> QED
  BY <1>1, <1>2 DEF AskedInv

\* No answer is given outside IDLE.
LEMMA NoAnswer ==
  ASSUME done' = None PROVE DoneInv'
  BY DEF DoneInv, LoadResult, StoreWrites, FaultReported, IssuedInv

-----------------------------------------------------------------------------
(* The wait for the first half's grant.                                      *)
LEMMA WaitGntMisHistory ==
  ASSUME LsuInv, HistoryInv, NEW gnt \in BOOLEAN, NEW r \in Responses,
         WaitGntMis(gnt, r)
  PROVE  HistoryInv'
<1>1. /\ data_req /\ HistInv /\ LsuInv' /\ done' = None
      /\ BusCycle(acc, TRUE, gnt, r, hist)
      /\ acc' = acc /\ lsu_err_q' = lsu_err_q /\ ls_fsm_cs = "WAIT_GNT_MIS"
  BY WaitGntMisStep DEF WaitGntMis, data_req, HistoryInv
<1>2. /\ acc \in Access /\ acc # None /\ ReqHalf = 1 /\ Sent = 0
      /\ RequestBeat(acc) = BeatOf(acc, ReqHalf)
      /\ adder_result_ex(acc).off = acc.off /\ addr_last_d(acc) = AddrOf(acc)
  BY <1>1, NextRequest DEF Sent
<1>3. r = None
  BY <1>1, NoResponse DEF OwedLen
<1>4. pmp_err_q <=> 1 \in acc.deny
  BY <1>1 DEF LsuInv, FlagInv
<1>5. ls_fsm_cs' = IF gnt \/ 1 \in acc.deny THEN "WAIT_RVALID_MIS"
                   ELSE "WAIT_GNT_MIS"
  BY <1>1, <1>4 DEF WaitGntMis, Granted
<1>6. Sent' = IF gnt \/ 1 \in acc.deny THEN 1 ELSE 0
  BY <1>5 DEF Sent
<1>7. TraceInv'
  <2>1. /\ Sent' \in {Sent, Sent + 1}
        /\ Sent' = Sent => ~gnt \/ ReqHalf \in acc.deny
        /\ Sent' = Sent + 1 => gnt \/ ReqHalf \in acc.deny
    BY <1>2, <1>6
  <2> QED
    BY <1>1, <2>1, RequestCycle
<1>8. CaptureInv'
  <2>1. Sent' >= 1 => ctrl_q' = CtrlOf(acc) /\ addr_last_q' = AddrOf(acc)
    BY <1>1, <1>2, <1>4, <1>6
       DEF WaitGntMis, Granted, UpdateCtrl, UpdateAddr, CtrlOf
  <2> QED
    BY <1>1, <1>5, <2>1 DEF CaptureInv, CtrlOf, AddrOf
<1>9. ErrInv'
  <2>1. ~lsu_err_q /\ hist.buserr = {}
    BY <1>1, <1>2 DEF HistInv, ErrInv, FirstOver
  <2>2. hist'.buserr = {}
    BY <1>1, <1>3, <2>1, BlameStep DEF data_bus_err
  <2> QED
    BY <1>1, <1>5, <2>1, <2>2 DEF ErrInv, FirstOver
<1>10. DataInv'
  BY <1>5 DEF DataInv, FirstOver
<1>11. AskedInv'
  <2>1. ~gnt /\ ~data_pmp_err(acc) => data_req' /\ ReqHalf' = ReqHalf
    BY <1>2, <1>5 DEF data_pmp_err, data_req, ReqHalf, addr_incr_req
  <2> QED
    BY <1>1, <1>2, <2>1, AskedStep
<1> QED
  BY <1>1, <1>7, <1>8, <1>9, <1>10, <1>11, NoAnswer DEF HistoryInv, HistInv

\* The wait for the first half's response.
LEMMA WaitRvalidMisHistory ==
  ASSUME LsuInv, HistoryInv, NEW gnt \in BOOLEAN, NEW r \in Responses,
         WaitRvalidMis(gnt, r)
  PROVE  HistoryInv'
<1> DEFINE failed == data_bus_err(r) \/ pmp_err_q
<1>1. /\ data_req /\ HistInv /\ LsuInv' /\ done' = None
      /\ BusCycle(acc, TRUE, gnt, r, hist)
      /\ acc' = acc /\ ctrl_q' = ctrl_q /\ ls_fsm_cs = "WAIT_RVALID_MIS"
  BY WaitRvalidMisStep DEF WaitRvalidMis, data_req, HistoryInv
<1>2. /\ acc \in Access /\ acc # None /\ ReqHalf = 2 /\ Sent = 1
      /\ RequestBeat(acc) = BeatOf(acc, ReqHalf)
      /\ addr_last_d(acc) = [word |-> IncrAddr(acc.word), off |-> 0]
  BY <1>1, NextRequest DEF Sent
<1>3. Split /\ Split' /\ LastHalf(acc) = 2 /\ LastHalf(acc)' = 2
  BY <1>1 DEF LsuInv, FlagInv, Split, LastHalf
<1>4. pmp_err_q <=> 1 \in acc.deny
  BY <1>1 DEF LsuInv, FlagInv
<1>5. ls_fsm_cs' = IF Answered(r) THEN IF gnt THEN "IDLE" ELSE "WAIT_GNT"
                   ELSE IF gnt THEN "WAIT_RVALID_MIS_GNTS_DONE"
                   ELSE "WAIT_RVALID_MIS"
  BY <1>1 DEF WaitRvalidMis
<1>6. Sent' = IF gnt THEN 2 ELSE 1
  BY <1>3, <1>5 DEF Sent
<1>7. TraceInv'
  <2>1. /\ Sent' \in {Sent, Sent + 1}
        /\ Sent' = Sent => ~gnt \/ ReqHalf \in acc.deny
        /\ Sent' = Sent + 1 => gnt \/ ReqHalf \in acc.deny
    BY <1>2, <1>6
  <2> QED
    BY <1>1, <2>1, RequestCycle
<1>8. ctrl_q = CtrlOf(acc) /\ addr_last_q = AddrOf(acc) /\ ~lsu_err_q
      /\ hist.buserr = {}
  BY <1>1, <1>2 DEF HistInv, CaptureInv, ErrInv, FirstOver
<1>9. lsu_err_q' = (Answered(r) /\ failed)
  BY <1>8 DEF WaitRvalidMis, LsuInv, TypeOK
<1>10. CaptureInv'
  <2>1. addr_last_q' = IF Answered(r) /\ gnt /\ ~failed
                       THEN [word |-> IncrAddr(acc.word), off |-> 0]
                       ELSE AddrOf(acc)
    BY <1>2, <1>8 DEF WaitRvalidMis, UpdateAddr
  <2> QED
    BY <1>1, <1>3, <1>5, <1>8, <1>9, <2>1 DEF CaptureInv, CtrlOf, AddrOf
<1>11. ErrInv'
  <2>1. hist'.buserr = IF data_bus_err(r) THEN {1} ELSE {}
    BY <1>1, <1>8, BlameStep
  <2>2. FirstOver' <=> Answered(r)
    BY <1>3, <1>5 DEF FirstOver
  <2>3. data_bus_err(r) => Answered(r)
    BY DEF data_bus_err, Answered
  <2> QED
    BY <1>1, <1>4, <1>9, <2>1, <2>2, <2>3 DEF ErrInv
<1>12. DataInv'
  <2> SUFFICES ASSUME FirstOver', ~acc.we, ~lsu_err_q'
               PROVE  rdata_q' = [l \in 1 .. 3 |-> <<acc.word, l>>]
    BY <1>1 DEF DataInv
  <2>1. Answered(r) /\ ~failed /\ r # None
    BY <1>5, <1>9 DEF FirstOver, Answered
  <2>2. Head(bus).word = acc.word
    <3>1. bus # <<>>
      BY <2>1 DEF Responses
    <3>2. Head(bus) = bus[1] /\ Len(bus) >= 1
      BY <3>1, BusTail DEF LsuInv
    <3>3. bus[1].half = 1
      BY <1>1, <3>2 DEF LsuInv, BusInv
    <3>4. Len(bus) \in Nat
      BY DEF LsuInv, TypeOK
    <3>5. bus[1].word = HalfWord(acc, bus[1].half)
      BY <1>1, <1>2, <3>2, <3>4 DEF HistInv, TraceInv
    <3> QED
      BY <3>2, <3>3, <3>5 DEF HalfWord
  <2>3. ~ctrl_q.we
    BY <1>8 DEF CtrlOf
  <2> QED
    BY <2>1, <2>2, <2>3 DEF WaitRvalidMis, UpdateRdata, data_rdata, Lanes
<1>13. AskedInv'
  <2>1. ~gnt /\ ~data_pmp_err(acc) => data_req' /\ ReqHalf' = ReqHalf
    <3>1. ls_fsm_cs' = "WAIT_GNT" => handle_misaligned_q'
      BY <1>1, <1>3 DEF LsuInv, FlagInv
    <3> QED
      BY <1>2, <1>5, <3>1 DEF data_req, ReqHalf, addr_incr_req
  <2> QED
    BY <1>1, <1>2, <2>1, AskedStep
<1> QED
  BY <1>1, <1>7, <1>10, <1>11, <1>12, <1>13, NoAnswer DEF HistoryInv, HistInv

\* The wait for the last half's grant.
LEMMA WaitGntHistory ==
  ASSUME LsuInv, HistoryInv, NEW gnt \in BOOLEAN, NEW r \in Responses,
         WaitGnt(gnt, r)
  PROVE  HistoryInv'
<1> DEFINE go == gnt \/ ReqHalf \in acc.deny
<1>1. /\ data_req /\ HistInv /\ LsuInv' /\ done' = None
      /\ BusCycle(acc, TRUE, gnt, r, hist)
      /\ acc' = acc /\ lsu_err_q' = lsu_err_q /\ rdata_q' = rdata_q
      /\ ls_fsm_cs = "WAIT_GNT"
  BY WaitGntStep DEF WaitGnt, data_req, HistoryInv
<1>2. /\ acc \in Access /\ acc # None
      /\ RequestBeat(acc) = BeatOf(acc, ReqHalf)
      /\ adder_result_ex(acc).off = acc.off
      /\ addr_last_d(acc) = IF ReqHalf = 1 THEN AddrOf(acc)
                            ELSE [word |-> IncrAddr(acc.word), off |-> 0]
  BY <1>1, NextRequest
<1>3. /\ Sent = IF Split THEN 1 ELSE 0
      /\ ReqHalf = IF Split THEN 2 ELSE 1
      /\ LastHalf(acc) = ReqHalf
      /\ Split' = Split /\ LastHalf(acc)' = LastHalf(acc)
  BY <1>1, NextRequest DEF Sent, LastHalf, Split
<1>4. r = None
  BY <1>1, NoResponse DEF OwedLen
<1>5. pmp_err_q <=> ReqHalf \in acc.deny
  BY <1>1, <1>2, <1>3 DEF LsuInv, FlagInv
<1>6. ls_fsm_cs' = IF go THEN "IDLE" ELSE "WAIT_GNT"
  BY <1>1, <1>5 DEF WaitGnt, Granted
<1>7. Sent' = IF go THEN Sent + 1 ELSE Sent
  <2> HIDE DEF go
  <2>1. Sent' = IF go THEN ReqHalf ELSE IF Split THEN 1 ELSE 0
    BY <1>3, <1>6 DEF Sent
  <2> QED
    BY <1>3, <2>1
<1>8. TraceInv'
  <2>1. /\ Sent' \in {Sent, Sent + 1}
        /\ Sent' = Sent => ~gnt \/ ReqHalf \in acc.deny
        /\ Sent' = Sent + 1 => gnt \/ ReqHalf \in acc.deny
    BY <1>3, <1>7
  <2> QED
    BY <1>1, <2>1, RequestCycle
<1>9. /\ Split => addr_last_q = AddrOf(acc) /\ ctrl_q = CtrlOf(acc)
      /\ ~Split => ~lsu_err_q
  BY <1>1, <1>2, <1>3 DEF HistInv, CaptureInv, ErrInv, FirstOver
<1>10. CaptureInv'
  <2>1. go => ctrl_q' = CtrlOf(acc)
    BY <1>2, <1>5 DEF WaitGnt, Granted, UpdateCtrl, CtrlOf
  <2>2. ~go => ctrl_q' = ctrl_q
    BY <1>5 DEF WaitGnt, Granted, UpdateCtrl
  <2>3. addr_last_q' = IF go /\ ~lsu_err_q THEN addr_last_d(acc) ELSE addr_last_q
    BY <1>5 DEF WaitGnt, Granted, UpdateAddr
  <2>4. /\ CtrlOf(acc)' = CtrlOf(acc) /\ AddrOf(acc)' = AddrOf(acc)
        /\ IncrAddr(acc.word)' = IncrAddr(acc.word)
    BY <1>1 DEF CtrlOf, AddrOf
  <2> HIDE DEF go
  <2>5. CASE go
    BY <1>1, <1>2, <1>3, <1>6, <1>9, <2>1, <2>3, <2>4, <2>5 DEF CaptureInv
  <2>6. CASE ~go
    <3>1. Sent' >= 1 => Split
      BY <1>3, <1>7, <2>6
    <3> QED
      BY <1>1, <1>3, <1>6, <1>9, <2>2, <2>3, <2>4, <2>6, <3>1 DEF CaptureInv
  <2> QED
    BY <2>5, <2>6
<1>11. FirstOver' = FirstOver
  BY <1>1, <1>3, <1>6 DEF FirstOver
<1>12. ErrInv'
  <2>1. hist'.buserr = hist.buserr
    BY <1>1, <1>4, BlameStep DEF data_bus_err
  <2>2. ErrInv
    BY <1>1, <1>2 DEF HistInv
  <2> QED
    BY <1>1, <1>11, <2>1, <2>2 DEF ErrInv
<1>13. DataInv'
  BY <1>1, <1>2, <1>11 DEF HistInv, DataInv
<1>14. AskedInv'
  <2>1. ~gnt /\ ~data_pmp_err(acc) => data_req' /\ ReqHalf' = ReqHalf
    <3>1. ~go => handle_misaligned_q' = handle_misaligned_q
      BY <1>5 DEF WaitGnt, Granted, LsuInv, TypeOK
    <3> QED
      BY <1>1, <1>6, <3>1 DEF data_pmp_err, data_req, ReqHalf, addr_incr_req
  <2> QED
    BY <1>1, <1>2, <2>1, AskedStep
<1> QED
  BY <1>1, <1>8, <1>10, <1>12, <1>13, <1>14, NoAnswer DEF HistoryInv, HistInv

\* The wait for the first half's response with both halves granted.
LEMMA WaitRvalidMisGntsDoneHistory ==
  ASSUME LsuInv, HistoryInv, NEW r \in Responses, WaitRvalidMisGntsDone(r)
  PROVE  HistoryInv'
<1>1. /\ HistInv /\ LsuInv' /\ done' = None
      /\ BusCycle(acc, FALSE, FALSE, r, hist)
      /\ acc' = acc /\ ctrl_q' = ctrl_q
      /\ ls_fsm_cs = "WAIT_RVALID_MIS_GNTS_DONE"
  BY WaitRvalidMisGntsDoneStep DEF WaitRvalidMisGntsDone, HistoryInv
<1>2. acc \in Access /\ acc # None /\ Sent = 2 /\ 1 \notin acc.deny
  BY <1>1 DEF LsuInv, TypeOK, FlagInv, Sent
<1>3. Split /\ Split' /\ LastHalf(acc) = 2 /\ LastHalf(acc)' = 2
  BY <1>1 DEF LsuInv, FlagInv, Split, LastHalf
<1>4. ls_fsm_cs' = IF r # None THEN "IDLE" ELSE "WAIT_RVALID_MIS_GNTS_DONE"
  BY <1>1 DEF WaitRvalidMisGntsDone
<1>5. Sent' = 2
  BY <1>3, <1>4 DEF Sent
<1>6. ctrl_q = CtrlOf(acc) /\ addr_last_q = AddrOf(acc) /\ ~lsu_err_q
      /\ hist.buserr = {}
  BY <1>1, <1>2 DEF HistInv, CaptureInv, ErrInv, FirstOver
<1>7. TraceInv'
  <2>1. TypeOK /\ TraceInv
    BY <1>1, <1>2 DEF HistInv, LsuInv
  <2>2. hist'.issued = hist.issued /\ hist'.written = hist.written
    BY <1>1 DEF BusCycle
  <2>3. \A i \in 1 .. Len(bus) : bus[i].word = HalfWord(acc, bus[i].half)
    BY <2>1 DEF TraceInv
  <2>4. LET rest == IF r # None THEN Tail(bus) ELSE bus
        IN  \A i \in 1 .. Len(rest) : rest[i].word = HalfWord(acc, rest[i].half)
    BY <2>1, <2>3, TailWords
  <2>5. \A i \in 1 .. Len(bus') : bus'[i].word = HalfWord(acc, bus'[i].half)
    BY <1>1, <1>2, <2>1, <2>4, BusWords
  <2>6. /\ IssuedAfter(acc, Sent)' = IssuedAfter(acc, Sent)
        /\ BytesAfter(acc, Sent)' = BytesAfter(acc, Sent)
        /\ \A h : HalfWord(acc, h)' = HalfWord(acc, h)
    BY <1>1, <1>2, <1>5 DEF IssuedAfter, BytesAfter, ByteAt, HalfOf, HalfWord
  <2> QED
    BY <1>1, <2>1, <2>2, <2>5, <2>6 DEF TraceInv, HalfWord
<1>8. CaptureInv'
  <2>1. addr_last_q' = IF r # None /\ ~data_bus_err(r)
                       THEN [word |-> IncrAddr(acc.word), off |-> 0]
                       ELSE AddrOf(acc)
    <3>1. addr_last_d(acc) = [word |-> IncrAddr(acc.word), off |-> 0]
      BY <1>1, <1>6 DEF addr_last_d, adder_result_ex, addr_incr_req, AddrOf
    <3> QED
      BY <1>6, <3>1 DEF WaitRvalidMisGntsDone, UpdateAddr
  <2>2. lsu_err_q' = data_bus_err(r)
    BY <1>6 DEF WaitRvalidMisGntsDone, LsuInv, TypeOK, data_bus_err
  <2> QED
    BY <1>1, <1>3, <1>4, <1>6, <2>1, <2>2 DEF CaptureInv, CtrlOf, AddrOf
<1>9. ErrInv'
  <2>1. hist'.buserr = IF data_bus_err(r) THEN {1} ELSE {}
    BY <1>1, <1>6, BlameStep
  <2>2. FirstOver' <=> r # None
    BY <1>3, <1>4 DEF FirstOver
  <2>3. lsu_err_q' = data_bus_err(r)
    BY <1>6 DEF WaitRvalidMisGntsDone, LsuInv, TypeOK, data_bus_err
  <2>4. data_bus_err(r) => r # None
    BY DEF data_bus_err
  <2> QED
    BY <1>1, <1>2, <2>1, <2>2, <2>3, <2>4 DEF ErrInv
<1>10. DataInv'
  <2> SUFFICES ASSUME r # None, ~acc.we
               PROVE  rdata_q' = [l \in 1 .. 3 |-> <<acc.word, l>>]
    BY <1>1, <1>3, <1>4 DEF DataInv, FirstOver
  <2>1. Head(bus).word = acc.word
    <3>1. bus # <<>>
      BY DEF Responses
    <3>2. Head(bus) = bus[1] /\ Len(bus) >= 1
      BY <3>1, BusTail DEF LsuInv
    <3>3. bus[1].half = 1
      BY <1>1, <3>2 DEF LsuInv, BusInv
    <3>4. Len(bus) \in Nat
      BY DEF LsuInv, TypeOK
    <3>5. bus[1].word = HalfWord(acc, bus[1].half)
      BY <1>1, <1>2, <3>2, <3>4 DEF HistInv, TraceInv
    <3> QED
      BY <3>2, <3>3, <3>5 DEF HalfWord
  <2>2. ~ctrl_q.we
    BY <1>6 DEF CtrlOf
  <2> QED
    BY <2>1, <2>2 DEF WaitRvalidMisGntsDone, UpdateRdata, data_rdata, Lanes
<1>11. AskedInv'
  BY <1>1 DEF BusCycle, AskedInv
<1> QED
  BY <1>1, <1>7, <1>8, <1>9, <1>10, <1>11, NoAnswer DEF HistoryInv, HistInv

-----------------------------------------------------------------------------
(* The answer, given in IDLE, is right: this is where the parts of the       *)
(* invariant meet.                                                           *)
LEMMA AnswerRight ==
  ASSUME LsuInv, HistInv, ls_fsm_cs = "IDLE", NEW r \in Responses,
         done' = Answer(r),
         load_err(r) \/ store_err(r) => addr_last_q' = addr_last_q
  PROVE  DoneInv'
<1>1. CASE done' = None
  BY <1>1, NoAnswer
<1>2. CASE done' # None
  <2> DEFINE h == [hist EXCEPT !.buserr  = @ \cup Blamed(data_bus_err(r)),
                               !.corrupt = @ \cup Blamed(data_intg_err(r))]
             failed == acc.deny \cup h.buserr
             last == LastHalf(acc)
  <2>0. lsu_resp_valid(r)
    BY <1>2 DEF Answer
  <2>1. acc # None /\ acc \in Access
    <3>1. acc = None => OwedLen = 0 /\ ~pmp_err_q
      BY DEF LsuInv, FlagInv, OwedLen
    <3>2. acc = None => r = None
      BY <3>1, NoResponse
    <3> QED
      BY <2>0, <3>1, <3>2 DEF lsu_resp_valid, LsuInv, TypeOK
  <2>2. CaptureInv /\ ErrInv /\ DataInv /\ TraceInv
    BY <2>1 DEF HistInv
  <2>3. pmp_err_q <=> last \in acc.deny
    BY <2>1 DEF LsuInv, FlagInv
  <2>4. Sent = last /\ last = (IF Split THEN 2 ELSE 1)
    BY DEF Sent, LastHalf, Split
  <2>5. ctrl_q = CtrlOf(acc)
    BY <2>2, <2>4 DEF CaptureInv
  <2>6. r # None => /\ Head(bus).half = last
                    /\ Head(bus).word = HalfWord(acc, last)
    <3> SUFFICES ASSUME r # None PROVE /\ Head(bus).half = last
                                       /\ Head(bus).word = HalfWord(acc, last)
      OBVIOUS
    <3>1. bus # <<>>
      BY DEF Responses
    <3>2. Head(bus) = bus[1] /\ Len(bus) >= 1
      BY <3>1, BusTail DEF LsuInv
    <3>3. bus[1].half = last
      BY <3>2 DEF LsuInv, BusInv
    <3>4. Len(bus) \in Nat
      BY DEF LsuInv, TypeOK
    <3>5. bus[1].word = HalfWord(acc, bus[1].half)
      BY <2>2, <3>2, <3>4 DEF TraceInv
    <3> QED
      BY <3>2, <3>3, <3>5
  <2>7. acc.deny \subseteq IF Split THEN {1, 2} ELSE {1}
    BY <2>1, AccessFields DEF Halves, Split
  <2>8. h.buserr = hist.buserr \cup (IF data_bus_err(r) THEN {last} ELSE {})
    <3>1. data_bus_err(r) => r # None
      BY DEF data_bus_err
    <3>2. h.buserr = hist.buserr \cup Blamed(data_bus_err(r))
      BY DEF LsuInv, TypeOK
    <3> QED
      BY <2>6, <3>1, <3>2 DEF Blamed
  <2>9. h.corrupt = hist.corrupt \cup Blamed(data_intg_err(r))
    BY DEF LsuInv, TypeOK
  <2>10. h.issued = hist.issued /\ h.written = hist.written
    BY DEF LsuInv, TypeOK
  <2>11. /\ Split => (lsu_err_q <=> 1 \in acc.deny \cup hist.buserr)
         /\ Split => hist.buserr \subseteq {1}
         /\ ~Split => ~lsu_err_q /\ hist.buserr = {}
    BY <2>2 DEF ErrInv, FirstOver
  <2>12. data_or_pmp_err(r) <=> failed # {}
    <3> HIDE DEF h, last
    <3> QED
      BY <2>3, <2>4, <2>7, <2>8, <2>11 DEF data_or_pmp_err
  <2>13. /\ done'.acc = acc /\ done'.hist = h
         /\ done'.rdata_valid = lsu_rdata_valid(r)
         /\ done'.rdata = data_rdata_ext(ctrl_q, rdata_q, data_rdata(r))
         /\ done'.load_err = load_err(r) /\ done'.store_err = store_err(r)
    BY <2>0 DEF Answer
  <2>14. Failed' = failed
    BY <2>13 DEF Failed
  <2>15. ctrl_q.we = acc.we /\ acc.we \in BOOLEAN
    BY <2>1, <2>5, AccessFields DEF CtrlOf
  <2> HIDE DEF h, last, failed
  <2>16. FaultReported'
    <3>1. /\ done'.load_err <=> ~acc.we /\ failed # {}
          /\ done'.store_err <=> acc.we /\ failed # {}
      BY <2>0, <2>12, <2>13, <2>15 DEF load_err, store_err
    <3>2. failed # {} =>
            addr_last_q' = IF 1 \in failed
                           THEN [word |-> acc.word, off |-> acc.off]
                           ELSE [word |-> IncrAddr(acc.word), off |-> 0]
      <4> SUFFICES ASSUME failed # {}
                   PROVE  addr_last_q' = IF 1 \in failed
                              THEN [word |-> acc.word, off |-> acc.off]
                              ELSE [word |-> IncrAddr(acc.word), off |-> 0]
        OBVIOUS
      <4>1. addr_last_q' = addr_last_q
        BY <3>1, <2>13, <2>15
      <4>2. 1 \in failed <=> ~Split \/ lsu_err_q
        BY <2>4, <2>7, <2>8, <2>11 DEF failed
      <4> QED
        BY <4>1, <4>2, <2>2, <2>4 DEF CaptureInv, AddrOf
    <3> QED
      BY <2>13, <2>14, <3>1, <3>2 DEF FaultReported
  <2>17. LoadResult'
    <3>1. lsu_rdata_valid(r) =>
            /\ ~acc.we /\ failed = {}
            /\ data_rdata_ext(ctrl_q, rdata_q, data_rdata(r)) = LoadedValue(acc)
      <4> SUFFICES ASSUME lsu_rdata_valid(r)
                   PROVE  /\ ~acc.we /\ failed = {}
                          /\ data_rdata_ext(ctrl_q, rdata_q, data_rdata(r))
                               = LoadedValue(acc)
        OBVIOUS
      <4>1. r # None /\ ~acc.we /\ failed = {}
        BY <2>12, <2>15 DEF lsu_rdata_valid
      <4>2. data_rdata(r) = [l \in Lanes |-> <<HalfWord(acc, LastHalf(acc)), l>>]
        BY <2>6, <4>1 DEF data_rdata, last
      <4>3. ~lsu_err_q
        BY <2>11, <4>1 DEF lsu_rdata_valid, data_or_pmp_err
      <4>4. LastHalf(acc) = 2 => rdata_q = [l \in 1 .. 3 |-> <<acc.word, l>>]
        BY <2>2, <2>4, <4>1, <4>3 DEF DataInv, FirstOver, last
      <4> QED
        BY <2>1, <2>5, <4>1, <4>2, <4>4, LoadedRight
    <3>2. ~acc.we /\ failed = {} /\ h.corrupt = {} => lsu_rdata_valid(r)
      <4>1. failed = {} => r # None
        BY <2>0, <2>3 DEF lsu_resp_valid, failed
      <4>2. h.corrupt = {} => ~data_intg_err(r)
        BY <2>9 DEF Blamed
      <4> QED
        BY <2>12, <2>15, <4>1, <4>2 DEF lsu_rdata_valid
    <3>3. LoadedValue(done.acc)' = LoadedValue(acc)
      BY <2>13 DEF LoadedValue, ByteAt
    <3> QED
      BY <2>13, <2>14, <3>1, <3>2, <3>3 DEF LoadResult, LoadedValue
  <2>18. StoreWrites'
    <3>1. acc.we => h.written = BytesAfter(acc, last)
      BY <2>2, <2>4, <2>10 DEF TraceInv
    <3>2. \A j \in 0 .. Size(acc.type) - 1 : HalfOf(acc, j) <= last
      BY <2>1, <2>4, AccessFields DEF HalfOf, Size, Split, Types, Lanes,
         split_misaligned_access
    <3>3. BytesAfter(acc, last) =
            {<<ByteAt(acc, i)[1], ByteAt(acc, i)[2], i>> :
               i \in {j \in 0 .. Size(acc.type) - 1 : HalfOf(acc, j) \notin acc.deny}}
      BY <3>2 DEF BytesAfter
    <3> QED
      BY <2>13, <3>1, <3>3 DEF StoreWrites, ByteAt, HalfOf
  <2>19. IssuedInv'
    <3>1. h.issued = IssuedAfter(acc, LastHalf(acc))
      BY <2>2, <2>4, <2>10 DEF TraceInv, last
    <3> QED
      BY <2>13, <3>1 DEF IssuedInv, IssuedAfter, LastHalf
  <2> QED
    BY <2>16, <2>17, <2>18, <2>19 DEF DoneInv
<1> QED
  BY <1>1, <1>2

\* What the invariant says of the access holds as long as nothing of it changes.
LEMMA HistoryFrame ==
  ASSUME HistInv, acc' = acc, hist' = hist, bus' = bus, ls_fsm_cs' = ls_fsm_cs,
         lsu_err_q' = lsu_err_q, addr_last_q' = addr_last_q, rdata_q' = rdata_q,
         ctrl_q' = ctrl_q
  PROVE  HistInv'
<1> SUFFICES ASSUME acc # None
             PROVE  (CaptureInv /\ ErrInv /\ DataInv /\ TraceInv)'
  BY DEF HistInv
<1>1. CaptureInv /\ ErrInv /\ DataInv /\ TraceInv
  BY DEF HistInv
<1>2. Split' = Split /\ Sent' = Sent /\ FirstOver' = FirstOver
  BY DEF Split, Sent, FirstOver, LastHalf
<1>3. CaptureInv'
  BY <1>1, <1>2 DEF CaptureInv, CtrlOf, AddrOf
<1>4. ErrInv' /\ DataInv'
  BY <1>1, <1>2 DEF ErrInv, DataInv
<1>5. TraceInv'
  BY <1>1, <1>2
     DEF TraceInv, IssuedAfter, BytesAfter, ByteAt, HalfOf, HalfWord
<1> QED
  BY <1>3, <1>4, <1>5

\* IDLE without a request.
LEMMA IdleHistory ==
  ASSUME LsuInv, HistoryInv, NEW r \in Responses, Idle(r)
  PROVE  HistoryInv'
<1>1. DoneInv'
  BY AnswerRight DEF Idle, HistoryInv
<1>2. AskedInv'
  BY DEF Idle, AskedInv
<1>3. CASE lsu_resp_valid(r)
  <2>1. HistInv'
    BY <1>3 DEF Idle, HistInv
  <2> QED
    BY <1>1, <1>2, <2>1 DEF HistoryInv
<1>4. CASE ~lsu_resp_valid(r)
  <2>1. r = None
    BY <1>4 DEF Idle, lsu_resp_valid
  <2>2. HistInv'
    BY <1>4, <2>1, HistoryFrame DEF Idle, HistoryInv
  <2> QED
    BY <1>1, <1>2, <2>2 DEF HistoryInv
<1> QED
  BY <1>3, <1>4

\* A new request, made when the previous access is answered without an error.
LEMMA IdleRequestHistory ==
  ASSUME LsuInv, HistoryInv, NEW o \in Ops, NEW gnt \in BOOLEAN,
         NEW r \in Responses, IdleRequest(o, gnt, r)
  PROVE  HistoryInv'
<1>0. o \in Access /\ o # None /\ acc' = o /\ ls_fsm_cs = "IDLE"
  BY OpsAssumption DEF IdleRequest
<1>1. DoneInv'
  BY <1>0, AnswerRight DEF IdleRequest, RequestAllowed, HistoryInv
<1>2. /\ ReqHalf = 1 /\ RequestBeat(o) = BeatOf(o, 1)
      /\ adder_result_ex(o) = AddrOf(o) /\ addr_last_d(o) = AddrOf(o)
  BY <1>0, FirstRequest
<1>3. BusCycle(o, TRUE, gnt, r, NoHist) /\ lsu_err_q' = FALSE
  BY DEF IdleRequest
<1> DEFINE split == split_misaligned_access(o.type, o.off)
<1>4. ls_fsm_cs' = IF gnt THEN IF split THEN "WAIT_RVALID_MIS" ELSE "IDLE"
                   ELSE IF split THEN "WAIT_GNT_MIS" ELSE "WAIT_GNT"
  BY DEF IdleRequest
<1>5. Split' = split /\ LastHalf(acc)' = IF split THEN 2 ELSE 1
  BY <1>0 DEF Split, LastHalf
<1>6. Sent' = IF gnt THEN 1 ELSE 0
  BY <1>4, <1>5 DEF Sent
<1>7. ~FirstOver'
  BY <1>4, <1>5 DEF FirstOver
<1>8. CaptureInv'
  <2>1. gnt => ctrl_q' = CtrlOf(o) /\ addr_last_q' = AddrOf(o)
    BY <1>2 DEF IdleRequest, UpdateCtrl, UpdateAddr, CtrlOf, AddrOf
  <2>2. CtrlOf(acc)' = CtrlOf(o) /\ AddrOf(acc)' = AddrOf(o)
    BY <1>0 DEF CtrlOf, AddrOf
  <2> QED
    BY <1>4, <1>5, <1>6, <2>1, <2>2 DEF CaptureInv
<1>9. ErrInv'
  <2>1. hist'.buserr = {}
    BY <1>0, <1>3 DEF BusCycle, Blamed, NoHist
  <2> QED
    BY <1>3, <1>7, <2>1 DEF ErrInv
<1>10. DataInv'
  BY <1>7 DEF DataInv
<1>11. TraceInv'
  <2> DEFINE rest == IF r # None THEN Tail(bus) ELSE bus
  <2>0. TypeOK
    BY DEF LsuInv
  <2>1. Len(rest) = 0
    <3>1. Len(bus) <= 1 /\ Len(bus) \in Nat
      BY <1>0 DEF LsuInv, BusInv, OwedLen, TypeOK
    <3>2. r = None => acc = None
      BY DEF IdleRequest, RequestAllowed, lsu_resp_valid, load_err, store_err,
         data_or_pmp_err, LsuInv, TypeOK
    <3>3. acc = None => Len(bus) = 0
      BY DEF LsuInv, BusInv, OwedLen
    <3>4. r # None => bus # <<>>
      BY DEF Responses
    <3>5. r # None => Len(Tail(bus)) = Len(bus) - 1 /\ Len(bus) >= 1
      BY <2>0, <3>4, BusTail
    <3>6. CASE r = None
      BY <3>2, <3>3, <3>6
    <3>7. CASE r # None
      BY <3>1, <3>5, <3>7
    <3> QED
      BY <3>6, <3>7
  <2>2. RequestBeat(o).word = HalfWord(o, RequestBeat(o).half)
    BY <1>2 DEF BeatOf
  <2>3. \A i \in 1 .. Len(bus') : bus'[i].word = HalfWord(o, bus'[i].half)
    <3>1. \A i \in 1 .. Len(rest) : rest[i].word = HalfWord(o, rest[i].half)
      BY <2>1
    <3> QED
      BY <1>0, <1>3, <2>0, <2>2, <3>1, BusWords
  <2>4. /\ hist'.issued = IssuedAfter(o, Sent')
        /\ hist'.written = IF o.we THEN BytesAfter(o, Sent') ELSE {}
    <3>1. /\ NoHist.issued = IssuedAfter(o, 0)
          /\ NoHist.written = IF o.we THEN BytesAfter(o, 0) ELSE {}
      BY <1>0, AfterNone DEF NoHist
    <3>2. 1 \in Halves(o.type, o.off)
      BY DEF Halves
    <3>3. PICK n \in {0, 1} : n = 0
      OBVIOUS
    <3>4. PICK m \in {n, n + 1} : m = Sent'
      BY <1>6, <3>3
    <3>5. /\ n + 1 \in Halves(o.type, o.off)
          /\ ReqHalf = n + 1 /\ RequestBeat(o) = BeatOf(o, n + 1)
          /\ NoHist.issued = IssuedAfter(o, n)
          /\ NoHist.written = IF o.we THEN BytesAfter(o, n) ELSE {}
          /\ m = n => ~gnt \/ n + 1 \in o.deny
          /\ m = n + 1 => gnt \/ n + 1 \in o.deny
      BY <1>2, <1>6, <3>1, <3>2, <3>3, <3>4
    <3>6. /\ hist'.issued = IssuedAfter(o, m)
          /\ hist'.written = IF o.we THEN BytesAfter(o, m) ELSE {}
      BY <1>0, <1>3, <2>0, <3>5, TraceStep
    <3> QED
      BY <3>4, <3>6
  <2>5. /\ IssuedAfter(acc, Sent)' = IssuedAfter(o, Sent')
        /\ BytesAfter(acc, Sent)' = BytesAfter(o, Sent')
    BY <1>0 DEF IssuedAfter, BytesAfter, ByteAt, HalfOf
  <2> QED
    BY <1>0, <2>3, <2>4, <2>5 DEF TraceInv, HalfWord
<1>12. AskedInv'
  <2>1. ~gnt /\ ~data_pmp_err(o) => data_req' /\ ReqHalf' = ReqHalf
    <3>1. ~gnt => ~handle_misaligned_q'
      BY <1>0 DEF IdleRequest, LsuInv, FlagInv
    <3> QED
      BY <1>2, <1>4, <3>1 DEF data_req, ReqHalf, addr_incr_req
  <2> QED
    BY <1>0, <1>2, <1>3, <2>1, AskedStep
<1> QED
  BY <1>1, <1>8, <1>9, <1>10, <1>11, <1>12 DEF HistoryInv, HistInv

\* Every clock cycle keeps the registers and the history in agreement.
LEMMA HistoryNext == LsuInv /\ HistoryInv /\ [Next]_vars => HistoryInv'
<1> SUFFICES ASSUME LsuInv, HistoryInv, [Next]_vars PROVE HistoryInv'
  OBVIOUS
<1>1. CASE UNCHANGED vars
  <2>1. HistInv'
    BY <1>1, HistoryFrame DEF vars, regs, HistoryInv
  <2>2. AskedInv'
    BY <1>1 DEF vars, regs, HistoryInv, AskedInv, data_req, BeatOf, HalfWord,
       ReqHalf, addr_incr_req
  <2>3. DoneInv'
    <3>1. done' = done /\ addr_last_q' = addr_last_q /\ DoneInv
      BY <1>1 DEF vars, regs, HistoryInv
    <3>2. LoadResult'
      BY <3>1 DEF DoneInv, LoadResult, Failed, ByteAt
    <3>3. StoreWrites'
      BY <3>1 DEF DoneInv, StoreWrites, ByteAt, HalfOf
    <3>4. FaultReported'
      BY <3>1 DEF DoneInv, FaultReported, Failed
    <3>5. IssuedInv'
      BY <3>1 DEF DoneInv, IssuedInv, IssuedAfter, LastHalf
    <3> QED
      BY <3>2, <3>3, <3>4, <3>5 DEF DoneInv
  <2> QED
    BY <2>1, <2>2, <2>3 DEF HistoryInv
<1>2. ASSUME NEW gnt \in BOOLEAN, NEW r \in Responses, Cycle(gnt, r)
      PROVE  HistoryInv'
  BY <1>2, IdleHistory, IdleRequestHistory, WaitGntMisHistory,
     WaitRvalidMisHistory, WaitGntHistory, WaitRvalidMisGntsDoneHistory DEF Cycle
<1> QED
  BY <1>1, <1>2 DEF Next

\* The registers of an access, its transactions and its answer agree with what
\* really happened to it, in every reachable state.
THEOREM HistoryKept == Spec => [](LsuInv /\ HistoryInv)
<1>1. Init => HistoryInv
  BY DEF Init, HistoryInv, HistInv, AskedInv, DoneInv, LoadResult, StoreWrites,
     FaultReported, IssuedInv
<1> QED
  BY <1>1, InitInv, NextInv, HistoryNext, PTL DEF Spec

\* A load that does not fail returns the bytes at its address, and no other
\* access returns data.
THEOREM LoadsRight == Spec => []LoadResult
<1>1. HistoryInv => LoadResult
  BY DEF HistoryInv, DoneInv
<1> QED
  BY <1>1, HistoryKept, PTL

\* A store writes the bytes of its register at its address and nothing else.
THEOREM StoresRight == Spec => []StoreWrites
<1>1. HistoryInv => StoreWrites
  BY DEF HistoryInv, DoneInv
<1> QED
  BY <1>1, HistoryKept, PTL

\* A failing half is reported with the answer, with the address for mtval.
THEOREM FaultsReported == Spec => []FaultReported
<1>1. HistoryInv => FaultReported
  BY DEF HistoryInv, DoneInv
<1> QED
  BY <1>1, HistoryKept, PTL

\* Requests are held until granted, and each allowed half is requested once, in
\* order.
THEOREM RequestsHeld == Spec => []RequestsRight
<1>1. LsuInv /\ HistoryInv => RequestsRight
  <2> SUFFICES ASSUME LsuInv, HistoryInv PROVE RequestsRight
    OBVIOUS
  <2>1. asked # None => data_req /\ acc # None /\ asked = RequestBeat(acc)
    BY NextRequest DEF HistoryInv, AskedInv
  <2>2. IssuedInv
    BY DEF HistoryInv, DoneInv
  <2> QED
    BY <2>1, <2>2 DEF RequestsRight, IssuedInv, IssuedAfter, LastHalf, Halves
<1> QED
  BY <1>1, HistoryKept, PTL
=============================================================================
