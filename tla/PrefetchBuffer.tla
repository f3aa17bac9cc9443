--------------------------- MODULE PrefetchBuffer ---------------------------
(***************************************************************************)
(* The prefetch buffer of Ibex (rtl/ibex_prefetch_buffer.sv) with its fetch  *)
(* FIFO, one step per clock cycle.  It requests words ahead of the core,     *)
(* keeps up to NUM_REQS requests outstanding, throws away what a branch has  *)
(* made stale and offers one instruction a cycle.                            *)
(*                                                                          *)
(* The core branches (branch_i), enables fetching (req_i) and takes          *)
(* instructions (ready_i) as it likes, except that its first fetch is a      *)
(* branch: the addresses have no reset value.  The instruction bus answers   *)
(* each granted request once, in order, at the earliest a cycle after the    *)
(* grant, with any data and any error.                                       *)
(***************************************************************************)
EXTENDS HalfwordAddr, FetchFifo, FiniteSets

CONSTANT None   \* "no branch", "no response", "no request"

ASSUME NumReqsAssumption == NUM_REQS \in Nat /\ NUM_REQS >= 2

\* A request on the bus, marked when a branch came after it.
Request == [word : Words, stale : BOOLEAN]

ASSUME NoneAssumption == None \notin Request

VARIABLES
  instr_addr_q,         \* the address of the next instruction
  fifo,                 \* the valid entries of the fetch FIFO
  booted,               \* the first branch has happened
  branched,             \* there was a branch in the last cycle
  valid_req_q,          \* a request waits for its grant
  discard_req_q,        \* ... and a branch has made it stale
  stored_addr_q,        \* the address of that request
  fetch_addr_q,         \* the next address to fetch
  rdata_outstanding_q,  \* granted requests without a response, oldest first
  branch_discard_q,     \* which of them a branch has made stale
  bus,                  \* the bus's own list of them, marked when a branch came later
  asked                 \* the request left ungranted in the last cycle, marked when stale

vars == <<instr_addr_q, fifo, booted, branched, valid_req_q, discard_req_q, stored_addr_q,
          fetch_addr_q, rdata_outstanding_q, branch_discard_q, bus, asked>>

Slots == 0 .. NUM_REQS - 1

Init ==
  /\ instr_addr_q = 0 /\ fifo = <<>>
  /\ booted = FALSE
  /\ branched = FALSE
  /\ valid_req_q = FALSE
  /\ discard_req_q = FALSE
  /\ stored_addr_q = 0
  /\ fetch_addr_q = 0
  /\ rdata_outstanding_q = [i \in Slots |-> FALSE]
  /\ branch_discard_q = [i \in Slots |-> FALSE]
  /\ bus = <<>>
  /\ asked = None

-----------------------------------------------------------------------------
(* Signals.  branch is None or the branch's target, r None or a response.    *)

\* Space for a new request: the FIFO's upper entries overlaid with the
\* outstanding requests, youngest lowest, are not all taken.
fifo_ready ==
  \E i \in Slots : ~(Len(fifo) >= i + 2 \/ rdata_outstanding_q[NUM_REQS - 1 - i])

valid_new_req(branch, req) ==
  /\ req
  /\ fifo_ready \/ branch # None
  /\ ~rdata_outstanding_q[NUM_REQS - 1]

valid_req(branch, req) == valid_req_q \/ valid_new_req(branch, req)

\* (faulty variant: a waiting request is stale only in the branch's cycle)
discard_req_d_forgets(branch) == valid_req_q /\ branch # None

discard_req_d(branch) == valid_req_q /\ (branch # None \/ discard_req_q)

\* A request that starts in this cycle, rather than waiting from an earlier one.
fresh_req(branch, req) == valid_new_req(branch, req) /\ ~valid_req_q

instr_addr(branch) ==
  IF valid_req_q THEN stored_addr_q
  ELSE IF branch # None THEN branch
  ELSE fetch_addr_q

fetch_addr_d(branch, req) ==
  AddHalves(IF branch # None THEN branch ELSE 2 * WordOf(fetch_addr_q),
            IF fresh_req(branch, req) THEN 2 ELSE 0)

rdata_outstanding_n(branch, req, gnt) ==
  [i \in Slots |->
     \/ valid_req(branch, req) /\ gnt /\ (i > 0 => rdata_outstanding_q[i - 1])
     \/ rdata_outstanding_q[i]]

branch_discard_n(branch, req, gnt) ==
  [i \in Slots |->
     \/ /\ valid_req(branch, req) /\ gnt /\ discard_req_d(branch)
        /\ i > 0 => rdata_outstanding_q[i - 1]
     \/ branch # None /\ rdata_outstanding_q[i]
     \/ branch_discard_q[i]]

\* (faulty variant: a response frees no slot)
Shift_lost(bits) == bits

\* A response shifts the entries towards entry 0.
Shift(bits) == [i \in Slots |-> i < NUM_REQS - 1 /\ bits[i + 1]]

\* The FIFO's input: the response's word, pushed unless it is stale.
fifo_in(r) ==
  [valid |-> r # None /\ ~branch_discard_q[0],
   word  |-> IF r # None THEN bus[1].word ELSE 0,
   err   |-> r # None /\ r.err,
   wide  |-> IF r # None THEN r.wide ELSE {}]

-----------------------------------------------------------------------------
\* The bus's own account of the requests: what was asked for before a branch,
\* granted or not, is stale.
BusCycle(branch, req, gnt, r) ==
  LET marked == [i \in DOMAIN bus |->
                   [bus[i] EXCEPT !.stale = @ \/ branch # None]]
      rest   == IF r # None THEN Tail(marked) ELSE marked
      want   == [word  |-> WordOf(instr_addr(branch)),
                 stale |-> asked # None /\ (asked.stale \/ branch # None)]
  IN /\ bus' = IF valid_req(branch, req) /\ gnt THEN Append(rest, want) ELSE rest
     /\ asked' = IF valid_req(branch, req) /\ ~gnt THEN want ELSE None

\* A clock cycle.
Cycle(branch, req, ready, gnt, r) ==
  LET in == fifo_in(r)
  IN /\ req => booted \/ branch # None
     /\ booted' = (booted \/ branch # None)
     /\ branched' = (branch # None)
     /\ valid_req_q' = (valid_req(branch, req) /\ ~gnt)
     /\ discard_req_q' = discard_req_d(branch)
     /\ stored_addr_q' = IF fresh_req(branch, req) /\ ~gnt
                         THEN instr_addr(branch) ELSE stored_addr_q
     /\ fetch_addr_q' = IF branch # None \/ fresh_req(branch, req)
                        THEN fetch_addr_d(branch, req) ELSE fetch_addr_q
     /\ LET out == rdata_outstanding_n(branch, req, gnt)
            dis == branch_discard_n(branch, req, gnt)
        IN /\ rdata_outstanding_q' = IF r # None THEN Shift(out) ELSE out
           /\ branch_discard_q' = IF r # None THEN Shift(dis) ELSE dis
     /\ fifo' = FifoNext(fifo, in, instr_addr_q, ready, branch # None)
     /\ instr_addr_q' = IF branch # None THEN branch
              ELSE IF ready /\ out_valid(fifo, in, instr_addr_q)
              THEN AddHalves(instr_addr_q, addr_incr(fifo, in, instr_addr_q)) ELSE instr_addr_q
     /\ BusCycle(branch, req, gnt, r)

\* A word with an error has no known data.
Response == {r \in [err : BOOLEAN, wide : SUBSET {0, 1}] : r.err => r.wide = {}}
Responses == {None} \cup (IF bus = <<>> THEN {} ELSE Response)

Next ==
  \E branch \in HalfAddrs \cup {None}, req \in BOOLEAN, ready \in BOOLEAN,
     gnt \in BOOLEAN, r \in Responses : Cycle(branch, req, ready, gnt, r)

Spec == Init /\ [][Next]_vars

(* The core starts with a branch (the controller sets the PC on leaving      *)
(* reset), keeps fetching and takes what it is offered, the bus grants and    *)
(* answers.  No fairness is asked of branches.                               *)
Fairness ==
  /\ WF_vars(~booted /\ \E branch \in HalfAddrs, req, ready, gnt \in BOOLEAN :
                          Cycle(branch, req, ready, gnt, None))
  /\ WF_vars(\E ready \in BOOLEAN, r \in Responses : Cycle(None, TRUE, ready, TRUE, r))
  /\ WF_vars(\E req, gnt \in BOOLEAN, r \in Responses : Cycle(None, req, TRUE, gnt, r))
  /\ WF_vars(bus # <<>> /\ \E req, ready, gnt \in BOOLEAN, r \in Response :
                             Cycle(None, req, ready, gnt, r))

FairSpec == Spec /\ Fairness

-----------------------------------------------------------------------------
(* Properties.                                                               *)

Stream == INSTANCE InstrStream WITH pc <- instr_addr_q, buf <- fifo

\* The instructions handed out are those of InstrStream: in address order from
\* the last branch's target on, made only of words requested after it.
StreamSpec == Stream!Spec

\* Whatever the bus answers in the coming cycle, the instruction offered is the
\* one the fetched words hold at instr_addr_q: the aligner, the bypass of an empty
\* FIFO and the error flags (out_*_o) agree with InstrAt.
OfferedInstr ==
  \A r \in Responses :
    LET in   == fifo_in(r)
        have == fifo \o (IF in.valid THEN <<[word |-> in.word, err |-> in.err,
                                             wide |-> in.wide]>> ELSE <<>>)
        i    == Stream!InstrAt(have, instr_addr_q)
        a    == instr_addr_q
    IN /\ out_valid(fifo, in, a) <=> i.valid
       /\ i.valid =>
            /\ out_err(fifo, in, a) <=> i.err
            /\ i.err => (out_err_plus2(fifo, in, a) <=> i.plus2)
            /\ addr_incr(fifo, in, a) = i.length
            /\ ~i.err =>
                 /\ out_lower(fifo, in) = have[1].word
                 /\ i.length = 2 => out_upper(fifo, in, a) = have[i.upper].word

\* The requests are accounted for.  There is room for every word still to come
\* (IbexFetchFifoPushFull): entries in use, requests outstanding and a request
\* waiting, stale ones aside, fit.  The outstanding bits count what the bus owes,
\* and exactly the requests made before the last branch are marked for discarding:
\* a response from before a branch never reaches the FIFO, which FENCE.I relies
\* on.  A request not granted is repeated with its address, even across a branch.
Fresh == {i \in DOMAIN bus : ~bus[i].stale}
RequestsTracked ==
  /\ Len(fifo) + Cardinality(Fresh)
       + (IF valid_req_q /\ ~discard_req_q THEN 1 ELSE 0) <= DEPTH
  /\ Len(bus) <= NUM_REQS
  /\ \A i \in Slots : rdata_outstanding_q[i] <=> i < Len(bus)
  /\ \A i \in Slots : branch_discard_q[i] <=> i < Len(bus) /\ bus[i + 1].stale
  /\ asked # None => valid_req_q /\ WordOf(stored_addr_q) = asked.word

\* Fetching does not stall: unless the core branches for ever, instructions are
\* handed out for ever.
KeepsFetching ==
  []<>branched \/ []<><<instr_addr_q' # instr_addr_q /\ ~branched'>>_vars
=============================================================================
