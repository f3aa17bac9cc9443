------------------------------ MODULE FetchFifo ------------------------------
(***************************************************************************)
(* The fetch FIFO of Ibex (rtl/ibex_fetch_fifo.sv) as functions of its       *)
(* registers and of this cycle's input.  fifo is the sequence of its valid   *)
(* entries, entry 0 of the code first; in is the incoming word with valid    *)
(* set when it is pushed; a is instr_addr_q.  A word read from memory is a   *)
(* record as in InstrStream.                                                 *)
(***************************************************************************)
EXTENDS Naturals, Sequences

CONSTANT NUM_REQS   \* outstanding requests of the prefetch buffer (2)

DEPTH == NUM_REQS + 1

\* The word at the output: entry 0, or the incoming word by the bypass.
rdata(fifo, in) == IF Len(fifo) >= 1 THEN fifo[1] ELSE in

\* If there is an error the data is unknown and counts as not compressed.
is_compressed(w, half) == half \notin w.wide /\ ~w.err

out_valid(fifo, in, a) ==
  LET valid == Len(fifo) >= 1 \/ in.valid
      valid_unaligned == Len(fifo) >= 2 \/ (Len(fifo) = 1 /\ in.valid)
  IN  IF a % 2 = 1 /\ ~is_compressed(rdata(fifo, in), 1)
      THEN valid_unaligned ELSE valid

\* (faulty variant: the next word's error is blamed on a compressed instruction)
err_unaligned_next_word(fifo, in) ==
  IF Len(fifo) >= 2 THEN fifo[2].err \/ fifo[1].err
  ELSE (Len(fifo) = 1 /\ fifo[1].err) \/ in.err

err_unaligned(fifo, in) ==
  LET short == is_compressed(rdata(fifo, in), 1)
  IN  IF Len(fifo) >= 2 THEN (fifo[2].err /\ ~short) \/ fifo[1].err
      ELSE \/ Len(fifo) = 1 /\ fifo[1].err
           \/ in.err /\ (Len(fifo) = 0 \/ ~short)

err_plus2(fifo, in) ==
  IF Len(fifo) >= 2 THEN fifo[2].err /\ ~fifo[1].err
  ELSE in.err /\ Len(fifo) = 1 /\ ~fifo[1].err

out_err(fifo, in, a) ==
  IF a % 2 = 1 THEN err_unaligned(fifo, in) ELSE rdata(fifo, in).err

out_err_plus2(fifo, in, a) == a % 2 = 1 /\ err_plus2(fifo, in)

\* The words the lower and upper half of the output come from.
out_lower(fifo, in) == rdata(fifo, in).word
out_upper(fifo, in, a) ==
  IF a % 2 = 0 THEN rdata(fifo, in).word
  ELSE IF Len(fifo) >= 2 THEN fifo[2].word ELSE in.word

\* By how many half words the address advances.
addr_incr(fifo, in, a) == IF is_compressed(rdata(fifo, in), a % 2) THEN 1 ELSE 2

\* (faulty variant: an upper half word never uses its entry up)
pop_fifo_keeps_upper(fifo, in, a, ready) ==
  ready /\ out_valid(fifo, in, a) /\ ~is_compressed(rdata(fifo, in), 0)

\* A popped instruction uses its entry up unless it is the lower of two.
pop_fifo(fifo, in, a, ready) ==
  /\ ready /\ out_valid(fifo, in, a)
  /\ ~is_compressed(rdata(fifo, in), 0) \/ a % 2 = 1

\* A pushed word takes the lowest free entry; there is none when all are valid.
Pushed(fifo, in) ==
  IF in.valid /\ Len(fifo) < DEPTH
  THEN Append(fifo, [word |-> in.word, err |-> in.err, wide |-> in.wide])
  ELSE fifo

FifoNext(fifo, in, a, ready, clear) ==
  IF clear THEN <<>>
  ELSE IF pop_fifo(fifo, in, a, ready) THEN Tail(Pushed(fifo, in))
  ELSE Pushed(fifo, in)
=============================================================================
