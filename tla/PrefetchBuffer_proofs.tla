----------------------- MODULE PrefetchBuffer_proofs -----------------------
(***************************************************************************)
(* Proofs about PrefetchBuffer, for every size of the address space and       *)
(* every number of outstanding requests: the offered instruction is right,    *)
(* the requests are tracked, and the buffer implements InstrStream.           *)
(*                                                                          *)
(* The invariant PfInv has two ideas.  The registers say what the bus owes    *)
(* (TrackInv).  And the words form one chain (Chain): those in the FIFO, then *)
(* the granted requests that no branch has made stale, then the request       *)
(* waiting for its grant, then the next address to fetch, one word after the  *)
(* other from the word of instr_addr_q on.  The stale transactions are the    *)
(* first n on the bus (StaleTo), which is what makes one discard bit per slot *)
(* enough: a stale request is only granted behind stale ones.                 *)
(***************************************************************************)
EXTENDS PrefetchBuffer, Integers, FiniteSetTheorems, TLAPS

PfTypeOK ==
  /\ instr_addr_q \in HalfAddrs
  /\ fifo \in Seq(FetchedWord)
  /\ booted \in BOOLEAN /\ branched \in BOOLEAN
  /\ valid_req_q \in BOOLEAN /\ discard_req_q \in BOOLEAN
  /\ stored_addr_q \in HalfAddrs /\ fetch_addr_q \in HalfAddrs
  /\ rdata_outstanding_q \in [Slots -> BOOLEAN]
  /\ branch_discard_q \in [Slots -> BOOLEAN]
  /\ bus \in Seq(Request)

\* The registers of the prefetch buffer say what the bus owes and what is asked.
TrackInv ==
  /\ Len(bus) <= NUM_REQS
  /\ valid_req_q => Len(bus) < NUM_REQS
  /\ \A i \in Slots : rdata_outstanding_q[i] <=> i < Len(bus)
  /\ \A i \in Slots : branch_discard_q[i] <=> i < Len(bus) /\ bus[i + 1].stale
  /\ asked = IF valid_req_q THEN [word  |-> WordOf(stored_addr_q),
                                  stale |-> discard_req_q]
             ELSE None

\* One if the request that waits for its grant is not stale.
Waiting == IF valid_req_q /\ ~discard_req_q THEN 1 ELSE 0

\* The word k words after the one that holds address a.
At(a, k) == (WordOf(a) + k) % NumWords

\* The first n transactions on the bus are the stale ones.
StaleTo(n) ==
  /\ n \in 0 .. Len(bus)
  /\ \A i \in 1 .. Len(bus) : bus[i].stale <=> i <= n
  /\ valid_req_q /\ discard_req_q => n = Len(bus)

\* What the FIFO holds, what the bus owes, the waiting request and the next
\* address to fetch follow each other, from the word of instr_addr_q on, and fit
\* the FIFO.
Ahead(n) == Len(fifo) + Len(bus) - n
Chain(n) ==
  /\ Ahead(n) + Waiting <= DEPTH
  /\ \A i \in 1 .. Len(bus) : i > n =>
       bus[i].word = At(instr_addr_q, Len(fifo) + i - n - 1)
  /\ Waiting = 1 => WordOf(stored_addr_q) = At(instr_addr_q, Ahead(n))
  /\ WordOf(fetch_addr_q) = At(instr_addr_q, Ahead(n) + Waiting)

PfInv == PfTypeOK /\ TrackInv /\ \E n \in 0 .. Len(bus) : StaleTo(n) /\ Chain(n)

-----------------------------------------------------------------------------
(* Remainders, and the words that follow an address.                         *)

\* A quotient and a remainder below n determine x % n ...
LEMMA ModUnique ==
  ASSUME NEW n \in Nat, n > 0, NEW x \in Nat, NEW q \in Int,
         NEW r \in 0 .. n - 1, x = n * q + r
  PROVE  x % n = r
  OBVIOUS

\* ... and there always are such.
LEMMA ModDef ==
  ASSUME NEW n \in Nat, n > 0, NEW x \in Nat
  PROVE  \E q \in Int, r \in 0 .. n - 1 : x = n * q + r /\ x % n = r
<1>1. x = n * (x \div n) + (x % n) /\ x \div n \in Int /\ x % n \in 0 .. n - 1
  OBVIOUS
<1> QED
  BY <1>1

\* A remainder may be taken before a sum or after it.
LEMMA ModStep ==
  ASSUME NEW n \in Nat, n > 0, NEW x \in Nat, NEW k \in Nat
  PROVE  ((x % n) + k) % n = (x + k) % n
<1>1. PICK q \in Int, r \in 0 .. n - 1 : x = n * q + r /\ x % n = r
  BY ModDef
<1>2. PICK y \in Nat : y = r + k
  OBVIOUS
<1>3. PICK p \in Int, t \in 0 .. n - 1 : y = n * p + t /\ y % n = t
  BY ModDef
<1>4. PICK z \in Nat, d \in Int : z = x + k /\ d = p + q
  OBVIOUS
<1>5. z = n * d + t
  BY <1>1, <1>2, <1>3, <1>4
<1>6. z % n = t
  BY <1>5, ModUnique
<1> QED
  BY <1>1, <1>2, <1>3, <1>4, <1>6

\* An address is twice its word plus its half.
LEMMA AddrParts ==
  ASSUME NEW a \in HalfAddrs
  PROVE  /\ a \in Nat /\ WordOf(a) \in Words /\ WordOf(a) \in Nat
         /\ HalfIn(a) \in {0, 1}
         /\ a = 2 * WordOf(a) + HalfIn(a)
         /\ NumWords \in Nat /\ NumWords >= 2
  BY NumWordsAssumption DEF HalfAddrs, WordOf, HalfIn, Words

\* Every word reached is a word of the address space.
LEMMA AtType ==
  ASSUME NEW a \in HalfAddrs, NEW k \in Nat
  PROVE  At(a, k) \in Words
<1>1. WordOf(a) + k \in Nat /\ NumWords \in Nat /\ NumWords > 0
  BY AddrParts
<1> QED
  BY <1>1 DEF At, Words

\* The address's own word.
LEMMA AtZero ==
  ASSUME NEW a \in HalfAddrs
  PROVE  At(a, 0) = WordOf(a)
<1>1. WordOf(a) \in 0 .. NumWords - 1 /\ NumWords \in Nat /\ NumWords >= 2
  BY AddrParts DEF Words
<1> QED
  BY <1>1 DEF At

\* Half words added to an address: whole words go round, the half stays.
LEMMA AddWords ==
  ASSUME NEW a \in HalfAddrs, NEW b \in {0, 1}, NEW k \in Nat, NEW m \in Nat,
         HalfIn(a) + m = 2 * k + b
  PROVE  /\ AddHalves(a, m) \in HalfAddrs
         /\ WordOf(AddHalves(a, m)) = At(a, k)
         /\ HalfIn(AddHalves(a, m)) = b
<1>1. /\ a \in Nat /\ WordOf(a) \in Nat /\ HalfIn(a) \in {0, 1}
      /\ a = 2 * WordOf(a) + HalfIn(a)
      /\ NumWords \in Nat /\ NumWords >= 2
  BY AddrParts
<1>2. PICK y \in Nat : y = WordOf(a) + k
  BY <1>1
<1>3. PICK p \in Int, r \in 0 .. NumWords - 1 :
         y = NumWords * p + r /\ y % NumWords = r
  <2>1. NumWords > 0
    BY <1>1
  <2> QED
    BY <1>1, <2>1, ModDef
<1>4. PICK x \in Nat, n \in Nat, t \in Nat :
         x = a + m /\ n = 2 * NumWords /\ t = 2 * r + b
  BY <1>1
<1>5. x = 2 * y + b
  BY <1>1, <1>2, <1>4
<1>6. x = n * p + t
  <2>1. PICK c \in Int : c = NumWords * p
    BY <1>1
  <2>2. n * p = 2 * c
    BY <1>1, <1>4, <2>1
  <2>3. x = 2 * c + t
    BY <1>3, <1>4, <1>5, <2>1
  <2> QED
    BY <2>2, <2>3
<1>7. x % n = t
  <2>1. n > 0 /\ t \in 0 .. n - 1
    BY <1>1, <1>4
  <2> QED
    BY <1>6, <2>1, ModUnique
<1>8. AddHalves(a, m) = t
  BY <1>4, <1>7 DEF AddHalves
<1>9. t \div 2 = r /\ t % 2 = b /\ t \in HalfAddrs
  BY <1>1, <1>4 DEF HalfAddrs
<1> QED
  BY <1>2, <1>3, <1>8, <1>9 DEF WordOf, HalfIn, At

\* Counting on from an address whose word is the one at k.
LEMMA AtFrom ==
  ASSUME NEW a \in HalfAddrs, NEW k \in Nat, NEW b \in HalfAddrs,
         WordOf(b) = At(a, k), NEW j \in Nat
  PROVE  At(b, j) = At(a, k + j)
<1>1. PICK x \in Nat : x = WordOf(a) + k
  BY AddrParts
<1>2. At(b, j) = ((x % NumWords) + j) % NumWords
  BY <1>1 DEF At
<1>3. At(b, j) = (x + j) % NumWords
  <2>1. NumWords \in Nat /\ NumWords > 0
    BY NumWordsAssumption
  <2> QED
    BY <1>2, <2>1, ModStep
<1>4. x + j = WordOf(a) + (k + j)
  BY <1>1, AddrParts
<1> QED
  BY <1>3, <1>4 DEF At

\* The word after the one at k.
LEMMA NextWord ==
  ASSUME NEW a \in HalfAddrs, NEW k \in Nat, NEW f \in HalfAddrs,
         WordOf(f) = At(a, k)
  PROVE  /\ AddHalves(2 * WordOf(f), 2) \in HalfAddrs
         /\ WordOf(AddHalves(2 * WordOf(f), 2)) = At(a, k + 1)
<1>1. PICK g \in HalfAddrs : g = 2 * WordOf(f)
  BY AddrParts DEF HalfAddrs, Words
<1>2. HalfIn(g) = 0 /\ WordOf(g) = WordOf(f)
  BY <1>1, AddrParts DEF HalfIn, WordOf
<1>3. /\ AddHalves(g, 2) \in HalfAddrs
      /\ WordOf(AddHalves(g, 2)) = At(g, 1)
  BY <1>2, AddWords
<1>4. At(g, 1) = At(a, k + 1)
  BY <1>2, AtFrom
<1> QED
  BY <1>1, <1>3, <1>4

-----------------------------------------------------------------------------
(* What a cycle does to the bus and to the FIFO.                             *)

Bit(p) == IF p THEN 1 ELSE 0

\* The transaction the prefetch buffer asks for in a cycle.
Want(branch) ==
  [word |-> WordOf(instr_addr(branch)), stale |-> discard_req_d(branch)]

\* The response takes the oldest transaction, the branch marks what stays, and
\* the granted request comes last.
LEMMA BusNext ==
  ASSUME PfTypeOK, TrackInv, NEW branch \in HalfAddrs \cup {None},
         NEW req \in BOOLEAN, NEW gnt \in BOOLEAN, NEW r \in Responses,
         BusCycle(branch, req, gnt, r)
  PROVE  LET s == Bit(r # None)
             e == Bit(valid_req(branch, req) /\ gnt)
         IN /\ Len(bus) >= s
            /\ bus' \in Seq(Request)
            /\ Len(bus') = Len(bus) + e - s
            /\ \A i \in 1 .. Len(bus') :
                 bus'[i] = IF i + s <= Len(bus)
                           THEN [word  |-> bus[i + s].word,
                                 stale |-> bus[i + s].stale \/ branch # None]
                           ELSE Want(branch)
            /\ asked' = IF valid_req(branch, req) /\ ~gnt THEN Want(branch)
                        ELSE None
<1> DEFINE s == Bit(r # None)
           ent == valid_req(branch, req) /\ gnt
           e == Bit(ent)
           marked == [i \in DOMAIN bus |->
                        [bus[i] EXCEPT !.stale = @ \/ branch # None]]
           rest == IF r # None THEN Tail(marked) ELSE marked
           w == Want(branch)
<1>1. bus \in Seq(Request) /\ Len(bus) \in Nat /\ DOMAIN bus = 1 .. Len(bus)
  BY DEF PfTypeOK
<1>2. instr_addr(branch) \in HalfAddrs
  BY DEF instr_addr, PfTypeOK
<1>3. w \in Request
  BY <1>2, AddrParts DEF Want, Request, discard_req_d, PfTypeOK
<1>4. w = [word |-> WordOf(instr_addr(branch)),
           stale |-> asked # None /\ (asked.stale \/ branch # None)]
  <2>1. valid_req_q => asked # None /\ asked.stale = discard_req_q
    <3>1. WordOf(stored_addr_q) \in Words /\ discard_req_q \in BOOLEAN
      BY AddrParts DEF PfTypeOK
    <3>2. [word |-> WordOf(stored_addr_q), stale |-> discard_req_q] # None
      BY <3>1, NoneAssumption DEF Request
    <3> QED
      BY <3>2 DEF TrackInv
  <2>2. ~valid_req_q => asked = None
    BY DEF TrackInv
  <2>3. discard_req_d(branch) = (asked # None /\ (asked.stale \/ branch # None))
    BY <2>1, <2>2 DEF discard_req_d, PfTypeOK
  <2> QED
    BY <2>3 DEF Want
<1>5. /\ bus' = IF ent THEN Append(rest, w) ELSE rest
      /\ asked' = IF valid_req(branch, req) /\ ~gnt THEN w ELSE None
  BY <1>4 DEF BusCycle
<1>6. /\ marked \in Seq(Request) /\ Len(marked) = Len(bus)
      /\ \A i \in 1 .. Len(bus) :
           marked[i] = [word  |-> bus[i].word, stale |-> bus[i].stale \/ branch # None]
  <2>1. ASSUME NEW i \in 1 .. Len(bus)
        PROVE  /\ marked[i] = [word  |-> bus[i].word,
                               stale |-> bus[i].stale \/ branch # None]
               /\ marked[i] \in Request
    <3>1. bus[i] \in Request
      BY <1>1
    <3>2. marked[i] = [bus[i] EXCEPT !.stale = @ \/ branch # None]
      BY <1>1
    <3> QED
      BY <3>1, <3>2 DEF Request
  <2> HIDE DEF marked
  <2>2. DOMAIN marked = 1 .. Len(bus) /\ marked = [i \in 1 .. Len(bus) |-> marked[i]]
    BY <1>1 DEF marked
  <2> QED
    BY <1>1, <2>1, <2>2
<1> HIDE DEF marked, w, ent
<1>7. /\ Len(bus) >= s /\ s \in {0, 1}
      /\ rest \in Seq(Request) /\ Len(rest) = Len(bus) - s
      /\ \A i \in 1 .. Len(bus) - s : rest[i] = marked[i + s]
  <2>1. CASE r = None
    BY <1>1, <1>6, <2>1 DEF Bit
  <2>2. CASE r # None
    <3>1. bus # <<>> /\ Len(bus) >= 1
      BY <1>1, <2>2 DEF Responses
    <3>2. marked # <<>>
      BY <1>6, <3>1
    <3> QED
      BY <1>1, <1>6, <2>2, <3>1, <3>2 DEF Bit
  <2> QED
    BY <2>1, <2>2
<1> HIDE DEF rest, s
<1>8. CASE ent
  <2>1. e = 1
    BY <1>8 DEF Bit
  <2>2. bus' = Append(rest, w)
    BY <1>5, <1>8
  <2>3. /\ bus' \in Seq(Request) /\ Len(bus') = Len(bus) - s + 1
        /\ bus'[Len(bus) - s + 1] = w
        /\ \A i \in 1 .. Len(bus) - s : bus'[i] = rest[i]
    BY <1>1, <1>3, <1>7, <2>2
  <2>4. \A i \in 1 .. Len(bus') :
           bus'[i] = IF i + s <= Len(bus) THEN marked[i + s] ELSE w
    BY <1>1, <1>7, <2>3
  <2> QED
    BY <1>1, <1>5, <1>6, <1>7, <2>1, <2>3, <2>4 DEF s, w, ent
<1>9. CASE ~ent
  <2>1. e = 0
    BY <1>9 DEF Bit
  <2>2. bus' = rest
    BY <1>5, <1>9
  <2>3. \A i \in 1 .. Len(bus') :
           bus'[i] = IF i + s <= Len(bus) THEN marked[i + s] ELSE w
    BY <1>1, <1>7, <2>2
  <2> QED
    BY <1>1, <1>5, <1>6, <1>7, <2>1, <2>2, <2>3 DEF s, w, ent
<1> QED
  BY <1>8, <1>9

\* The FIFO's input is a fetched word when there is one.
FifoInput == [valid : BOOLEAN, word : Words, err : BOOLEAN, wide : SUBSET {0, 1}]
Word(in) == [word |-> in.word, err |-> in.err, wide |-> in.wide]

\* A response is pushed when the oldest transaction is not stale, with its word.
LEMMA InputType ==
  ASSUME PfTypeOK, TrackInv, NEW r \in Responses
  PROVE  /\ fifo_in(r) \in FifoInput
         /\ fifo_in(r).valid <=> r # None /\ ~bus[1].stale
         /\ r # None => Len(bus) >= 1 /\ fifo_in(r).word = bus[1].word
<1>1. bus \in Seq(Request) /\ Len(bus) \in Nat
  BY DEF PfTypeOK
<1>2. r # None => Len(bus) >= 1 /\ bus[1] \in Request /\ r \in Response
  BY <1>1 DEF Responses
<1>3. 0 \in Words /\ 0 \in Slots
  BY NumWordsAssumption, NumReqsAssumption DEF Words, Slots
<1>4. r # None => (branch_discard_q[0] <=> bus[1].stale)
  BY <1>1, <1>2, <1>3 DEF TrackInv
<1>5. fifo_in(r) \in FifoInput
  <2>1. CASE r = None
    BY <1>3, <2>1 DEF fifo_in, FifoInput
  <2>2. CASE r # None
    <3>1. /\ bus[1].word \in Words /\ r.err \in BOOLEAN /\ r.wide \in SUBSET {0, 1}
          /\ branch_discard_q[0] \in BOOLEAN
      BY <1>2, <1>3, <2>2 DEF Request, Response, PfTypeOK
    <3> QED
      BY <2>2, <3>1 DEF fifo_in, FifoInput
  <2> QED
    BY <2>1, <2>2
<1> QED
  BY <1>2, <1>4, <1>5 DEF fifo_in

\* The FIFO after a cycle: a branch empties it, else the word that comes in is
\* appended and the used-up word leaves.
LEMMA FifoStep ==
  ASSUME NEW f \in Seq(FetchedWord), NEW in \in FifoInput, NEW a \in HalfAddrs, NEW ready \in BOOLEAN,
         in.valid => Len(f) < DEPTH
  PROVE  LET new == IF in.valid THEN <<Word(in)>> ELSE <<>>
             pop == pop_fifo(f, in, a, ready)
         IN /\ Pushed(f, in) = f \o new
            /\ Pushed(f, in) \in Seq(FetchedWord)
            /\ Len(Pushed(f, in)) = Len(f) + Bit(in.valid)
            /\ pop => Len(f) + Bit(in.valid) >= 1
            /\ FifoNext(f, in, a, ready, FALSE) =
                 IF pop THEN Tail(f \o new) ELSE f \o new
            /\ FifoNext(f, in, a, ready, FALSE) \in Seq(FetchedWord)
            /\ Len(FifoNext(f, in, a, ready, FALSE)) =
                 Len(f) + Bit(in.valid) - Bit(pop)
<1> DEFINE new == IF in.valid THEN <<Word(in)>> ELSE <<>>
           pop == pop_fifo(f, in, a, ready)
<1>1. Len(f) \in Nat /\ in.valid \in BOOLEAN /\ Word(in) \in FetchedWord
  BY DEF FifoInput, Word, FetchedWord
<1>2. /\ Pushed(f, in) = f \o new
      /\ Pushed(f, in) \in Seq(FetchedWord)
      /\ Len(Pushed(f, in)) = Len(f) + Bit(in.valid)
  <2>1. CASE in.valid
    <3>1. Pushed(f, in) = Append(f, Word(in))
      BY <2>1 DEF Pushed, Word
    <3>2. Append(f, Word(in)) = f \o <<Word(in)>>
      BY <1>1
    <3> QED
      BY <1>1, <2>1, <3>1, <3>2 DEF Bit
  <2>2. CASE ~in.valid
    BY <2>2 DEF Pushed, Bit
  <2> QED
    BY <2>1, <2>2
<1>3. pop => Len(f) + Bit(in.valid) >= 1
  BY <1>1 DEF pop_fifo, out_valid, Bit
<1>4. FifoNext(f, in, a, ready, FALSE) =
        IF pop THEN Tail(Pushed(f, in)) ELSE Pushed(f, in)
  BY DEF FifoNext
<1> HIDE DEF pop, new
<1>5. PICK p \in Seq(FetchedWord) : p = Pushed(f, in)
  BY <1>2
<1>6. pop => Tail(p) \in Seq(FetchedWord) /\ Len(Tail(p)) = Len(p) - 1
  BY <1>2, <1>3, <1>5
<1> DEFINE next == FifoNext(f, in, a, ready, FALSE)
<1>7. next = IF pop THEN Tail(f \o new) ELSE f \o new
  BY <1>2, <1>4
<1>8. next = IF pop THEN Tail(p) ELSE p
  BY <1>4, <1>5
<1>9. Len(p) = Len(f) + Bit(in.valid)
  BY <1>2, <1>5
<1> HIDE DEF next
<1>10. next \in Seq(FetchedWord)
  BY <1>6, <1>8
<1>11. Bit(in.valid) \in Int /\ Bit(pop) = IF pop THEN 1 ELSE 0
  BY DEF Bit
<1>12. Len(next) = Len(f) + Bit(in.valid) - Bit(pop)
  BY <1>1, <1>6, <1>8, <1>9, <1>11
<1> QED
  BY <1>2, <1>3, <1>7, <1>10, <1>12 DEF pop, new, next

-----------------------------------------------------------------------------
(* The aligner at the FIFO's output.                                         *)

\* The instruction offered is the one that the words in the FIFO and at its input
\* hold at address a ...
Shown(f, in, a) ==
  LET have == f \o (IF in.valid THEN <<Word(in)>> ELSE <<>>)
      i    == Stream!InstrAt(have, a)
  IN /\ out_valid(f, in, a) <=> i.valid
     /\ i.valid =>
          /\ out_err(f, in, a) <=> i.err
          /\ i.err => (out_err_plus2(f, in, a) <=> i.plus2)
          /\ addr_incr(f, in, a) = i.length
          /\ ~i.err =>
               /\ out_lower(f, in) = have[1].word
               /\ i.length = 2 => out_upper(f, in, a) = have[i.upper].word

\* ... and its last half word takes the word out of the FIFO.
LEMMA Aligner ==
  ASSUME NEW f \in Seq(FetchedWord), NEW in \in FifoInput, NEW a \in HalfAddrs
  PROVE  LET have == f \o (IF in.valid THEN <<Word(in)>> ELSE <<>>)
             i    == Stream!InstrAt(have, a)
         IN /\ Shown(f, in, a)
            /\ i.valid => /\ i.length \in {1, 2}
                          /\ pop_fifo(f, in, a, TRUE) <=> HalfIn(a) + i.length >= 2
<1> DEFINE have == f \o (IF in.valid THEN <<Word(in)>> ELSE <<>>)
           i == Stream!InstrAt(have, a)
           w == rdata(f, in)
           x == IF Len(f) >= 2 THEN f[2] ELSE in
           Goal ==
             /\ out_valid(f, in, a) <=> i.valid
             /\ i.valid =>
                  /\ out_err(f, in, a) <=> i.err
                  /\ i.err => (out_err_plus2(f, in, a) <=> i.plus2)
                  /\ addr_incr(f, in, a) = i.length
                  /\ ~i.err =>
                       /\ out_lower(f, in) = have[1].word
                       /\ i.length = 2 => out_upper(f, in, a) = have[i.upper].word
             /\ i.valid => /\ i.length \in {1, 2}
                           /\ pop_fifo(f, in, a, TRUE) <=> HalfIn(a) + i.length >= 2
<1> SUFFICES Goal
  BY Zenon DEF Shown
<1>1. PICK m \in Nat : m = Len(f)
  OBVIOUS
<1>2. /\ in.valid \in BOOLEAN /\ in.err \in BOOLEAN
      /\ Word(in) \in FetchedWord /\ Word(in).word = in.word
      /\ Word(in).err = in.err /\ Word(in).wide = in.wide
  BY DEF FifoInput, Word, FetchedWord
<1>3. PICK n \in Nat : n = Len(have) /\ n = m + Bit(in.valid)
  <2>1. CASE in.valid
    <3>1. Len(have) = Len(f) + 1
      BY <1>2, <2>1
    <3> QED
      BY <1>1, <2>1, <3>1 DEF Bit
  <2>2. CASE ~in.valid
    <3>1. have = f
      BY <2>2
    <3>2. m = Len(have) /\ m = m + Bit(in.valid)
      BY <1>1, <2>2, <3>1 DEF Bit
    <3> QED
      BY <3>2
  <2> QED
    BY <1>2, <2>1, <2>2
<1>4. \A k \in 1 .. m : have[k] = f[k] /\ f[k] \in FetchedWord
  <2>1. CASE in.valid
    BY <1>1, <1>2, <2>1
  <2>2. CASE ~in.valid
    BY <1>1, <2>2
  <2> QED
    BY <1>2, <2>1, <2>2
<1>5. in.valid => have[m + 1] = Word(in)
  BY <1>1, <1>2
<1>6. a % 2 = HalfIn(a) /\ HalfIn(a) \in {0, 1}
  BY AddrParts DEF HalfIn
<1> DEFINE short == n >= 1 /\ ~have[1].err /\ HalfIn(a) \notin have[1].wide
           span == HalfIn(a) = 1 /\ ~short
<1>7. /\ i.valid <=> n >= 1 /\ (span => n >= 2)
      /\ i.length = IF short THEN 1 ELSE 2
      /\ i.err <=> n >= 1 /\ (have[1].err \/ (span /\ n >= 2 /\ have[2].err))
      /\ i.plus2 <=> n >= 1 /\ span /\ n >= 2 /\ ~have[1].err /\ have[2].err
      /\ i.upper = IF span THEN 2 ELSE 1
  BY <1>3 DEF Stream!InstrAt, Stream!HalfIn, HalfIn
<1> HIDE DEF i, have, short
\* The FIFO's signals in terms of m, of its output word w and of the next word x.
<1>8. /\ w = IF m >= 1 THEN f[1] ELSE in
      /\ x = IF m >= 2 THEN f[2] ELSE in
      /\ out_valid(f, in, a) <=>
           IF HalfIn(a) = 1 /\ ~is_compressed(w, 1)
           THEN m >= 2 \/ (m = 1 /\ in.valid) ELSE m >= 1 \/ in.valid
  BY <1>1, <1>6, Zenon DEF rdata, out_valid
<1>9. /\ out_err(f, in, a) <=>
           IF HalfIn(a) = 1
           THEN IF m >= 2 THEN (f[2].err /\ ~is_compressed(w, 1)) \/ f[1].err
                ELSE \/ m = 1 /\ f[1].err
                     \/ in.err /\ (m = 0 \/ ~is_compressed(w, 1))
           ELSE w.err
      /\ out_err_plus2(f, in, a) <=>
           /\ HalfIn(a) = 1
           /\ IF m >= 2 THEN f[2].err /\ ~f[1].err
              ELSE in.err /\ m = 1 /\ ~f[1].err
      /\ HalfIn(a) = 1 => out_upper(f, in, a) = x.word
      /\ HalfIn(a) = 0 => out_upper(f, in, a) = w.word
  BY <1>1, <1>6 DEF out_err, err_unaligned, out_err_plus2, err_plus2, out_upper
<1> HIDE DEF w, x
<1>10. n = IF in.valid THEN m + 1 ELSE m
  BY <1>3 DEF Bit
<1>11. n >= 1 => /\ w.word = have[1].word /\ w.wide = have[1].wide
                 /\ w.err = have[1].err /\ w.err \in BOOLEAN
  <2>1. CASE m >= 1
    BY <1>4, <1>8, <2>1 DEF FetchedWord
  <2>2. CASE m = 0
    BY <1>2, <1>5, <1>8, <1>10, <2>2
  <2> QED
    BY <2>1, <2>2
<1>12. n >= 2 => x.word = have[2].word /\ x.err = have[2].err /\ x.err \in BOOLEAN
  <2>1. CASE m >= 2
    BY <1>4, <1>8, <2>1 DEF FetchedWord
  <2>2. CASE m = 1
    BY <1>2, <1>5, <1>8, <1>10, <2>2
  <2>3. CASE m = 0
    BY <1>10, <2>3
  <2> QED
    BY <2>1, <2>2, <2>3
<1>13. n >= 1 => (short <=> is_compressed(w, HalfIn(a)))
  BY <1>11 DEF is_compressed, short
<1>14. out_valid(f, in, a) <=> i.valid
  BY <1>2, <1>6, <1>7, <1>8, <1>10, <1>13 DEF short
<1>15. ASSUME i.valid
       PROVE  n >= 1 /\ (HalfIn(a) = 1 /\ ~short => n >= 2)
  BY <1>7, <1>15
<1>16. ASSUME i.valid PROVE out_err(f, in, a) <=> i.err
  <2>1. CASE HalfIn(a) = 0
    BY <1>7, <1>9, <1>11, <1>15, <1>16, <2>1
  <2>2. CASE HalfIn(a) = 1
    <3>1. is_compressed(w, 1) <=> short
      BY <1>13, <1>15, <1>16, <2>2
    <3>2. i.err <=> have[1].err \/ (~short /\ have[2].err)
      BY <1>7, <1>15, <1>16, <2>2
    <3>3. CASE m = 0
      <4>1. n = 1 /\ short /\ in.err = have[1].err
        BY <1>2, <1>5, <1>10, <1>15, <1>16, <2>2, <3>3
      <4> QED
        BY <1>9, <2>2, <3>2, <3>3, <4>1
    <3>4. CASE m = 1
      <4>1. f[1].err = have[1].err /\ (~short => in.err = have[2].err)
        BY <1>2, <1>4, <1>5, <1>10, <1>15, <1>16, <2>2, <3>4
      <4> QED
        BY <1>9, <2>2, <3>1, <3>2, <3>4, <4>1
    <3>5. CASE m >= 2
      <4>1. f[1].err = have[1].err /\ f[2].err = have[2].err
        BY <1>4, <3>5
      <4> QED
        BY <1>9, <2>2, <3>1, <3>2, <3>5, <4>1
    <3> QED
      BY <3>3, <3>4, <3>5
  <2> QED
    BY <1>6, <2>1, <2>2
<1>17. ASSUME i.valid, i.err PROVE out_err_plus2(f, in, a) <=> i.plus2
  <2>1. CASE HalfIn(a) = 0
    BY <1>7, <1>9, <2>1
  <2>2. CASE HalfIn(a) = 1
    <3>1. i.plus2 <=> ~short /\ n >= 2 /\ ~have[1].err /\ have[2].err
      BY <1>7, <2>2
    <3>2. have[1].err \/ (~short /\ n >= 2 /\ have[2].err)
      BY <1>7, <1>17, <2>2
    <3>3. CASE m = 0
      BY <1>9, <1>10, <2>2, <3>1, <3>3
    <3>4. CASE m = 1
      <4>1. f[1].err = have[1].err /\ (n >= 2 => in.err = have[2].err)
        BY <1>2, <1>4, <1>5, <1>10, <3>4
      <4> QED
        BY <1>9, <2>2, <3>1, <3>2, <3>4, <4>1
    <3>5. CASE m >= 2
      <4>1. f[1].err = have[1].err /\ f[2].err = have[2].err /\ n >= 2
        BY <1>4, <1>10, <3>5
      <4> QED
        BY <1>9, <2>2, <3>1, <3>2, <3>5, <4>1
    <3> QED
      BY <3>3, <3>4, <3>5
  <2> QED
    BY <1>6, <2>1, <2>2
<1>18. ASSUME i.valid
       PROVE  /\ addr_incr(f, in, a) = i.length
              /\ pop_fifo(f, in, a, TRUE) <=> HalfIn(a) + i.length >= 2
  <2>1. addr_incr(f, in, a) = IF is_compressed(w, HalfIn(a)) THEN 1 ELSE 2
    BY <1>6 DEF addr_incr, w
  <2>2. addr_incr(f, in, a) = i.length
    BY <1>7, <1>13, <1>15, <1>18, <2>1
  <2>3. pop_fifo(f, in, a, TRUE) <=> ~is_compressed(w, 0) \/ HalfIn(a) = 1
    BY <1>6, <1>14, <1>18 DEF pop_fifo, w
  <2>4. PICK h \in Int, l \in Int : h = HalfIn(a) /\ l = i.length
    BY <1>6, <1>7
  <2>5. h + l >= 2 <=> (~short \/ h = 1)
    BY <1>6, <1>7, <2>4
  <2>6. short \/ h = 1 <=> is_compressed(w, 0) \/ h = 1
    BY <1>6, <1>13, <1>15, <1>18, <2>4
  <2> QED
    BY <2>2, <2>3, <2>4, <2>5, <2>6
<1>19. ASSUME i.valid, ~i.err
       PROVE  /\ out_lower(f, in) = have[1].word
              /\ i.length = 2 => out_upper(f, in, a) = have[i.upper].word
  <2>1. out_lower(f, in) = have[1].word
    BY <1>11, <1>15, <1>19 DEF out_lower, w
  <2>2. ASSUME i.length = 2 PROVE out_upper(f, in, a) = have[i.upper].word
    <3>1. ~short
      BY <1>7, <2>2
    <3>2. CASE HalfIn(a) = 0
      BY <1>7, <1>9, <1>11, <1>15, <1>19, <3>2
    <3>3. CASE HalfIn(a) = 1
      BY <1>7, <1>9, <1>12, <1>15, <1>19, <3>1, <3>3
    <3> QED
      BY <1>6, <3>2, <3>3
  <2> QED
    BY <2>1, <2>2
<1>20. i.length \in {1, 2}
  BY <1>7
<1> QED
  BY <1>14, <1>16, <1>17, <1>18, <1>19, <1>20

-----------------------------------------------------------------------------
(* What the invariant says of the offered instruction and of the requests.    *)

\* The aligner's lemma for the registers of the prefetch buffer.
LEMMA OfferedByInv ==
  ASSUME PfTypeOK, TrackInv
  PROVE  OfferedInstr
<1> SUFFICES ASSUME NEW r \in Responses
             PROVE  Shown(fifo, fifo_in(r), instr_addr_q)
  BY Zenon DEF OfferedInstr, Shown, Word
<1>1. fifo_in(r) \in FifoInput
  BY InputType
<1>2. fifo \in Seq(FetchedWord) /\ instr_addr_q \in HalfAddrs
  BY DEF PfTypeOK
<1> QED
  BY <1>1, <1>2, Aligner

\* The transactions that are not stale are the last ones.
LEMMA FreshCount ==
  ASSUME bus \in Seq(Request), NEW n, StaleTo(n)
  PROVE  Cardinality(Fresh) = Len(bus) - n
<1>1. Len(bus) \in Nat /\ DOMAIN bus = 1 .. Len(bus) /\ n \in 0 .. Len(bus)
  BY DEF StaleTo
<1>2. Fresh = (n + 1) .. Len(bus)
  <2>1. \A i \in 1 .. Len(bus) : bus[i].stale <=> i <= n
    BY DEF StaleTo
  <2>2. \A i : i \in Fresh <=> i \in 1 .. Len(bus) /\ ~(i <= n)
    BY <1>1, <2>1 DEF Fresh
  <2>3. \A i : i \in (n + 1) .. Len(bus) <=> i \in 1 .. Len(bus) /\ ~(i <= n)
    BY <1>1
  <2> QED
    BY <2>2, <2>3
<1>3. PICK b \in Int, m \in Int : b = n + 1 /\ m = Len(bus)
  <2>1. n + 1 \in Int /\ Len(bus) \in Int
    BY <1>1
  <2> QED
    BY <2>1
<1>4. Cardinality(b .. m) = IF b > m THEN 0 ELSE m - b + 1
  BY FS_Interval
<1> QED
  BY <1>1, <1>2, <1>3, <1>4

\* The invariant implies RequestsTracked: it counts the words of the chain.
LEMMA TrackedByInv ==
  ASSUME PfInv
  PROVE  RequestsTracked
<1>1. PICK n \in 0 .. Len(bus) : StaleTo(n) /\ Chain(n)
  BY DEF PfInv
<1>2. Cardinality(Fresh) = Len(bus) - n
  BY <1>1, FreshCount DEF PfInv, PfTypeOK
<1>3. Len(fifo) + Cardinality(Fresh) + Waiting <= DEPTH
  <2>1. Len(fifo) \in Nat /\ Len(bus) \in Nat /\ Waiting \in Int
    BY DEF PfInv, PfTypeOK, Waiting
  <2> QED
    BY <1>1, <1>2, <2>1 DEF Chain, Ahead
<1>4. asked # None => valid_req_q /\ WordOf(stored_addr_q) = asked.word
  BY DEF PfInv, TrackInv
<1> QED
  BY <1>3, <1>4 DEF RequestsTracked, PfInv, TrackInv, Waiting

-----------------------------------------------------------------------------
(* A cycle keeps the registers in step with the bus.                          *)

\* A new request finds room in the FIFO and on the bus.
LEMMA Room ==
  ASSUME PfTypeOK, TrackInv, NEW branch \in HalfAddrs \cup {None}, NEW req \in BOOLEAN
  PROVE  /\ fifo_ready => Len(fifo) + Len(bus) <= NUM_REQS
         /\ valid_req(branch, req) => Len(bus) < NUM_REQS
<1>1. Len(fifo) \in Nat /\ Len(bus) \in Nat /\ NUM_REQS \in Nat /\ NUM_REQS >= 2
  BY NumReqsAssumption DEF PfTypeOK
<1>2. \A i \in Slots : rdata_outstanding_q[i] <=> i < Len(bus)
  BY DEF TrackInv
<1>3. ASSUME fifo_ready PROVE Len(fifo) + Len(bus) <= NUM_REQS
  <2>1. PICK i \in Slots : ~(Len(fifo) >= i + 2) /\ ~rdata_outstanding_q[NUM_REQS - 1 - i]
    BY <1>3 DEF fifo_ready
  <2>2. i \in Int /\ NUM_REQS - 1 - i \in Slots
    BY <1>1 DEF Slots
  <2>3. ~(NUM_REQS - 1 - i < Len(bus))
    BY <1>2, <2>1, <2>2
  <2> QED
    BY <1>1, <2>1, <2>2, <2>3
<1>4. ASSUME valid_req(branch, req) PROVE Len(bus) < NUM_REQS
  <2>1. CASE valid_req_q
    BY <2>1 DEF TrackInv
  <2>2. CASE ~valid_req_q
    <3>1. ~rdata_outstanding_q[NUM_REQS - 1]
      BY <1>4, <2>2 DEF valid_req, valid_new_req
    <3>2. NUM_REQS - 1 \in Slots
      BY <1>1 DEF Slots
    <3>3. ~(NUM_REQS - 1 < Len(bus))
      BY <1>2, <3>1, <3>2
    <3> QED
      BY <1>1, <3>3
  <2> QED
    BY <2>1, <2>2
<1> QED
  BY <1>3, <1>4

\* The outstanding and discard bits after a cycle.
LEMMA BitsNext ==
  ASSUME PfTypeOK, TrackInv, NEW n \in 0 .. Len(bus), StaleTo(n),
         NEW branch \in HalfAddrs \cup {None}, NEW req \in BOOLEAN,
         NEW ready \in BOOLEAN, NEW gnt \in BOOLEAN, NEW r \in Responses,
         Cycle(branch, req, ready, gnt, r)
  PROVE  /\ rdata_outstanding_q' \in [Slots -> BOOLEAN]
         /\ branch_discard_q' \in [Slots -> BOOLEAN]
         /\ Len(bus') <= NUM_REQS
         /\ \A i \in Slots : rdata_outstanding_q'[i] <=> i < Len(bus')
         /\ \A i \in Slots : branch_discard_q'[i] <=> i < Len(bus') /\ bus'[i + 1].stale
<1> DEFINE s == Bit(r # None)
           ent == valid_req(branch, req) /\ gnt
           e == Bit(ent)
           out == rdata_outstanding_n(branch, req, gnt)
           dis == branch_discard_n(branch, req, gnt)
           d == discard_req_d(branch)
           b == branch # None
<1>1. /\ Len(bus) >= s
      /\ Len(bus') = Len(bus) + e - s
      /\ \A i \in 1 .. Len(bus') :
           bus'[i] = IF i + s <= Len(bus)
                     THEN [word  |-> bus[i + s].word,
                           stale |-> bus[i + s].stale \/ branch # None]
                     ELSE Want(branch)
  BY BusNext DEF Cycle
<1>2. PICK L \in Nat, K \in Nat : L = Len(bus) /\ K = NUM_REQS /\ K >= 2
  BY NumReqsAssumption DEF PfTypeOK
<1>3. /\ \A i \in Slots : rdata_outstanding_q[i] <=> i < L
      /\ \A i \in Slots : branch_discard_q[i] <=> i < L /\ bus[i + 1].stale
      /\ L <= K /\ Slots = 0 .. K - 1
  BY <1>2 DEF TrackInv, Slots
<1>4. s \in {0, 1} /\ e \in {0, 1} /\ (e = 1 <=> ent)
  BY DEF Bit
<1>5. L + e <= K
  BY <1>2, <1>3, <1>4, Room
<1>6. PICK M \in Nat : M = Len(bus') /\ M = L + e - s
  <2>1. L + e - s \in Nat
    BY <1>1, <1>2, <1>4
  <2> QED
    BY <1>1, <1>2, <2>1
<1>7. \A i \in Slots : out[i] <=> i < L + e
  <2> SUFFICES ASSUME NEW i \in Slots PROVE out[i] <=> i < L + e
    OBVIOUS
  <2>1. out[i] <=> (ent /\ (i > 0 => rdata_outstanding_q[i - 1])) \/ rdata_outstanding_q[i]
    BY DEF rdata_outstanding_n
  <2>2. i > 0 => (rdata_outstanding_q[i - 1] <=> i - 1 < L)
    BY <1>2, <1>3
  <2>3. rdata_outstanding_q[i] <=> i < L
    BY <1>3
  <2> HIDE DEF out, ent
  <2> QED
    BY <1>2, <1>3, <1>4, <2>1, <2>2, <2>3
<1>8. \A i \in Slots : dis[i] <=> \/ ent /\ d /\ i <= L
                                  \/ i < L /\ (b \/ bus[i + 1].stale)
  <2> SUFFICES ASSUME NEW i \in Slots
               PROVE  dis[i] <=> \/ ent /\ d /\ i <= L
                                 \/ i < L /\ (b \/ bus[i + 1].stale)
    OBVIOUS
  <2>1. dis[i] <=> \/ ent /\ d /\ (i > 0 => rdata_outstanding_q[i - 1])
                   \/ b /\ rdata_outstanding_q[i]
                   \/ branch_discard_q[i]
    BY DEF branch_discard_n
  <2>2. i > 0 => (rdata_outstanding_q[i - 1] <=> i - 1 < L)
    BY <1>2, <1>3
  <2>3. (i > 0 => rdata_outstanding_q[i - 1]) <=> i <= L
    BY <1>2, <1>3, <2>2
  <2>4. (rdata_outstanding_q[i] <=> i < L) /\ (branch_discard_q[i] <=> i < L /\ bus[i + 1].stale)
    BY <1>3
  <2> HIDE DEF dis, ent, d, b
  <2> QED
    BY <2>1, <2>3, <2>4
\* A response moves the bits of a slot to the one below.
<1>9. /\ rdata_outstanding_q' \in [Slots -> BOOLEAN]
      /\ branch_discard_q' \in [Slots -> BOOLEAN]
      /\ \A i \in Slots : rdata_outstanding_q'[i] <=> i + s \in Slots /\ out[i + s]
      /\ \A i \in Slots : branch_discard_q'[i] <=> i + s \in Slots /\ dis[i + s]
  <2>1. out \in [Slots -> BOOLEAN] /\ dis \in [Slots -> BOOLEAN]
    BY DEF rdata_outstanding_n, branch_discard_n
  <2>2. /\ rdata_outstanding_q' = IF r # None THEN Shift(out) ELSE out
        /\ branch_discard_q' = IF r # None THEN Shift(dis) ELSE dis
    BY DEF Cycle
  <2> HIDE DEF out, dis
  <2>3. CASE r = None
    BY <1>2, <1>3, <2>1, <2>2, <2>3 DEF Bit
  <2>4. CASE r # None
    <3>1. s = 1
      BY <2>4 DEF Bit
    <3>2. ASSUME NEW f \in [Slots -> BOOLEAN]
          PROVE  /\ Shift(f) \in [Slots -> BOOLEAN]
                 /\ \A i \in Slots : Shift(f)[i] <=> i + 1 \in Slots /\ f[i + 1]
      <4>1. Shift(f) \in [Slots -> BOOLEAN]
        BY DEF Shift
      <4>2. ASSUME NEW i \in Slots PROVE Shift(f)[i] <=> i + 1 \in Slots /\ f[i + 1]
        <5>1. Shift(f)[i] <=> i < NUM_REQS - 1 /\ f[i + 1]
          BY DEF Shift
        <5>2. i < NUM_REQS - 1 <=> i + 1 \in Slots
          BY <1>2, <1>3
        <5> QED
          BY <5>1, <5>2
      <4> QED
        BY <4>1, <4>2
    <3> QED
      BY <2>1, <2>2, <2>4, <3>1, <3>2
  <2> QED
    BY <2>3, <2>4
<1> HIDE DEF out, dis
<1>10. ASSUME NEW i \in Slots PROVE rdata_outstanding_q'[i] <=> i < M
  <2>1. i + s \in Slots <=> i + s < K
    BY <1>2, <1>3, <1>4
  <2>2. i + s \in Slots => (out[i + s] <=> i + s < L + e)
    BY <1>7
  <2> HIDE DEF s, e
  <2> QED
    BY <1>2, <1>3, <1>4, <1>5, <1>6, <1>9, <2>1, <2>2
<1>11. ASSUME NEW i \in Slots
       PROVE  branch_discard_q'[i] <=> i < M /\ bus'[i + 1].stale
  <2>1. i + s \in Slots <=> i + s < K
    BY <1>2, <1>3, <1>4
  <2>2. i + s \in Slots => (dis[i + s] <=> \/ ent /\ d /\ i + s <= L
                                           \/ i + s < L /\ (b \/ bus[i + s + 1].stale))
    BY <1>8
  <2> HIDE DEF s, e, ent, d, b
  <2>3. CASE i + s < L
    <3>1. i < M /\ i + s \in Slots /\ i + 1 \in 1 .. Len(bus') /\ (i + 1) + s <= Len(bus)
      BY <1>2, <1>3, <1>4, <1>6, <2>3
    <3>2. bus'[i + 1].stale <=> bus[i + 1 + s].stale \/ b
      <4>1. bus'[i + 1] = [word  |-> bus[i + 1 + s].word,
                           stale |-> bus[i + 1 + s].stale \/ branch # None]
        BY <1>1, <3>1
      <4>2. bus'[i + 1].stale = (bus[i + 1 + s].stale \/ branch # None)
        BY <4>1
      <4> QED
        BY <4>2 DEF b
    <3>3. d => b \/ bus[i + s + 1].stale
      <4>1. d => b \/ n = L
        BY <1>2 DEF d, b, discard_req_d, StaleTo
      <4>2. n = L => bus[i + s + 1].stale
        BY <1>2, <1>3, <1>4, <2>3 DEF StaleTo
      <4> QED
        BY <4>1, <4>2
    <3>4. i + 1 + s = i + s + 1
      BY <1>3, <1>4
    <3> QED
      BY <1>9, <2>2, <2>3, <3>1, <3>2, <3>3, <3>4
  <2>4. CASE i + s = L
    <3>1. ent => i < M /\ i + s \in Slots /\ i + 1 \in 1 .. Len(bus') /\ ~((i + 1) + s <= Len(bus))
      BY <1>2, <1>3, <1>4, <1>5, <1>6, <2>1, <2>4
    <3>2. ent => (bus'[i + 1].stale <=> d)
      BY <1>1, <3>1 DEF Want, d
    <3>3. ~ent => ~(i < M)
      BY <1>2, <1>3, <1>4, <1>6, <2>4
    <3> QED
      BY <1>2, <1>9, <2>2, <2>4, <3>1, <3>2, <3>3
  <2>5. CASE i + s > L
    <3>1. ~(i < M) /\ ~(i + s <= L) /\ ~(i + s < L)
      BY <1>2, <1>3, <1>4, <1>6, <2>5
    <3> QED
      BY <1>9, <2>2, <3>1
  <2> QED
    BY <1>2, <1>3, <1>4, <2>3, <2>4, <2>5
<1> QED
  BY <1>2, <1>4, <1>5, <1>6, <1>9, <1>10, <1>11

\* Taking an instruction moves the address on by the words it uses up.
LEMMA Taken ==
  ASSUME NEW f \in Seq(FetchedWord), NEW in \in FifoInput, NEW a \in HalfAddrs,
         NEW ready \in BOOLEAN
  PROVE  LET next == IF ready /\ out_valid(f, in, a)
                     THEN AddHalves(a, addr_incr(f, in, a)) ELSE a
         IN next \in HalfAddrs /\ WordOf(next) = At(a, Bit(pop_fifo(f, in, a, ready)))
<1> DEFINE take == ready /\ out_valid(f, in, a)
           next == IF take THEN AddHalves(a, addr_incr(f, in, a)) ELSE a
           have == f \o (IF in.valid THEN <<Word(in)>> ELSE <<>>)
           i == Stream!InstrAt(have, a)
<1> SUFFICES next \in HalfAddrs /\ WordOf(next) = At(a, Bit(pop_fifo(f, in, a, ready)))
  OBVIOUS
<1>1. CASE ~take
  <2>1. ~pop_fifo(f, in, a, ready)
    BY <1>1 DEF pop_fifo
  <2>2. Bit(pop_fifo(f, in, a, ready)) = 0
    BY <2>1 DEF Bit
  <2> QED
    BY <1>1, <2>2, AtZero
<1>2. CASE take
  <2>1. /\ i.valid /\ addr_incr(f, in, a) = i.length /\ i.length \in {1, 2}
        /\ pop_fifo(f, in, a, TRUE) <=> HalfIn(a) + i.length >= 2
    BY <1>2, Aligner, Zenon DEF Shown
  <2>2. pop_fifo(f, in, a, ready) <=> pop_fifo(f, in, a, TRUE)
    BY <1>2 DEF pop_fifo
  <2>3. PICK m \in Nat, h \in {0, 1} : m = i.length /\ m \in {1, 2} /\ h = HalfIn(a)
    <3>1. i.length \in Nat /\ i.length \in {1, 2} /\ HalfIn(a) \in {0, 1}
      BY <2>1, AddrParts
    <3> QED
      BY <3>1, Zenon
  <2>4. PICK k \in Nat : k = Bit(pop_fifo(f, in, a, ready))
                         /\ k = IF h + m >= 2 THEN 1 ELSE 0
    <3>1. pop_fifo(f, in, a, ready) <=> h + m >= 2
      BY <2>1, <2>2, <2>3, Zenon
    <3> QED
      BY <3>1 DEF Bit
  <2>5. PICK b \in {0, 1} : h + m = 2 * k + b
    <3>1. h + m - 2 * k \in {0, 1}
      BY <2>3, <2>4
    <3> QED
      BY <2>3, <2>4, <3>1
  <2>6. AddHalves(a, m) \in HalfAddrs /\ WordOf(AddHalves(a, m)) = At(a, k)
    <3>1. HalfIn(a) + m = 2 * k + b
      BY <2>3, <2>5
    <3> QED
      BY <3>1, AddWords
  <2>7. next = AddHalves(a, m)
    BY <1>2, <2>1, <2>3
  <2> QED
    BY <2>4, <2>6, <2>7
<1> QED
  BY <1>1, <1>2

\* A response is pushed when no stale transaction is left; there is room for it.
LEMMA PushRoom ==
  ASSUME PfTypeOK, TrackInv, NEW n \in 0 .. Len(bus), StaleTo(n), Chain(n),
         NEW r \in Responses
  PROVE  /\ fifo_in(r).valid <=> r # None /\ n = 0
         /\ r # None => Len(bus) >= 1
         /\ fifo_in(r).valid => Len(fifo) < DEPTH
<1>1. Len(bus) \in Nat /\ Len(fifo) \in Nat /\ n \in Nat /\ NUM_REQS \in Nat
  BY NumReqsAssumption DEF PfTypeOK
<1>2. /\ fifo_in(r).valid <=> r # None /\ ~bus[1].stale
      /\ r # None => Len(bus) >= 1
  BY InputType
<1>3. Len(bus) >= 1 => (bus[1].stale <=> 1 <= n)
  BY <1>1 DEF StaleTo
<1>4. fifo_in(r).valid <=> r # None /\ n = 0
  <2>1. 1 <= n <=> n # 0
    BY <1>1
  <2> QED
    BY <1>2, <1>3, <2>1
<1>5. Len(fifo) + Len(bus) - n <= DEPTH
  <2>1. Waiting \in {0, 1} /\ DEPTH \in Int
    BY <1>1 DEF Waiting, DEPTH
  <2>2. Len(fifo) + Len(bus) - n + Waiting <= DEPTH
    BY DEF Chain, Ahead
  <2> QED
    BY <1>1, <2>1, <2>2
<1>6. ASSUME fifo_in(r).valid PROVE Len(fifo) < DEPTH
  BY <1>1, <1>2, <1>4, <1>5, <1>6 DEF DEPTH
<1> QED
  BY <1>2, <1>4, <1>6

\* The FIFO and the address of its first instruction after a cycle without a branch.
LEMMA FifoCycle ==
  ASSUME PfTypeOK, TrackInv, NEW n \in 0 .. Len(bus), StaleTo(n), Chain(n),
         NEW req \in BOOLEAN, NEW ready \in BOOLEAN, NEW gnt \in BOOLEAN,
         NEW r \in Responses, Cycle(None, req, ready, gnt, r)
  PROVE  LET pop == pop_fifo(fifo, fifo_in(r), instr_addr_q, ready)
         IN /\ fifo' \in Seq(FetchedWord)
            /\ Len(fifo') = Len(fifo) + Bit(r # None /\ n = 0) - Bit(pop)
            /\ instr_addr_q' \in HalfAddrs
            /\ WordOf(instr_addr_q') = At(instr_addr_q, Bit(pop))
<1>1. PICK in \in FifoInput : in = fifo_in(r)
  BY InputType
<1>2. PICK f \in Seq(FetchedWord), a \in HalfAddrs : f = fifo /\ a = instr_addr_q
  BY DEF PfTypeOK
<1>3. in.valid <=> r # None /\ n = 0
  BY <1>1, PushRoom
<1>4. in.valid => Len(f) < DEPTH
  BY <1>1, <1>2, PushRoom
<1>5. /\ FifoNext(f, in, a, ready, FALSE) \in Seq(FetchedWord)
      /\ Len(FifoNext(f, in, a, ready, FALSE)) =
           Len(f) + Bit(in.valid) - Bit(pop_fifo(f, in, a, ready))
  BY <1>4, FifoStep
<1>6. fifo' = FifoNext(f, in, a, ready, FALSE)
  BY <1>1, <1>2, Zenon DEF Cycle
<1>7. instr_addr_q' = IF ready /\ out_valid(f, in, a)
                      THEN AddHalves(a, addr_incr(f, in, a)) ELSE a
  BY <1>1, <1>2, Zenon DEF Cycle
<1>8. /\ instr_addr_q' \in HalfAddrs
      /\ WordOf(instr_addr_q') = At(a, Bit(pop_fifo(f, in, a, ready)))
  BY <1>7, Taken, Zenon
<1>9. Bit(in.valid) = Bit(r # None /\ n = 0)
  BY <1>3 DEF Bit
<1> QED
  BY <1>1, <1>2, <1>5, <1>6, <1>8, <1>9, Zenon

\* The registers keep their types.
LEMMA TypeNext ==
  ASSUME PfTypeOK, TrackInv, NEW n \in 0 .. Len(bus), StaleTo(n), Chain(n),
         NEW branch \in HalfAddrs \cup {None}, NEW req \in BOOLEAN,
         NEW ready \in BOOLEAN, NEW gnt \in BOOLEAN, NEW r \in Responses,
         Cycle(branch, req, ready, gnt, r)
  PROVE  PfTypeOK'
<1>1. /\ rdata_outstanding_q' \in [Slots -> BOOLEAN]
      /\ branch_discard_q' \in [Slots -> BOOLEAN]
  BY BitsNext
<1>2. bus' \in Seq(Request)
  BY BusNext DEF Cycle
<1>3. instr_addr(branch) \in HalfAddrs
  BY DEF instr_addr, PfTypeOK
<1>4. stored_addr_q' \in HalfAddrs
  BY <1>3 DEF Cycle, PfTypeOK
<1>5. fifo' \in Seq(FetchedWord) /\ instr_addr_q' \in HalfAddrs
  <2>1. CASE branch = None
    <3>1. Cycle(None, req, ready, gnt, r)
      BY <2>1
    <3> QED
      BY <3>1, FifoCycle
  <2>2. CASE branch # None
    BY <2>2 DEF Cycle, FifoNext
  <2> QED
    BY <2>1, <2>2
<1>6. fetch_addr_d(branch, req) \in HalfAddrs
  <2>1. PICK g \in HalfAddrs : g = IF branch # None THEN branch ELSE 2 * WordOf(fetch_addr_q)
    <3>1. 2 * WordOf(fetch_addr_q) \in HalfAddrs
      <4>1. PICK f \in HalfAddrs : f = fetch_addr_q
        BY DEF PfTypeOK
      <4>2. 2 * WordOf(f) \in HalfAddrs
        BY AddrParts DEF HalfAddrs, Words
      <4> QED
        BY <4>1, <4>2
    <3> QED
      BY <3>1
  <2>2. PICK k \in Nat : k = Bit(fresh_req(branch, req))
    BY DEF Bit
  <2>3. fetch_addr_d(branch, req) = AddHalves(g, 2 * k)
    BY <2>1, <2>2 DEF fetch_addr_d, Bit
  <2>4. PICK b \in {0, 1} : b = HalfIn(g)
    BY AddrParts
  <2>5. HalfIn(g) + 2 * k = 2 * k + b /\ 2 * k \in Nat
    BY <2>4
  <2> QED
    BY <2>3, <2>5, AddWords
<1>7. fetch_addr_q' \in HalfAddrs
  BY <1>6 DEF Cycle, PfTypeOK
<1>8. booted' \in BOOLEAN /\ branched' \in BOOLEAN
  BY DEF Cycle, PfTypeOK
<1>9. valid_req_q' \in BOOLEAN /\ discard_req_q' \in BOOLEAN
  BY DEF Cycle, discard_req_d
<1> QED
  BY <1>1, <1>2, <1>4, <1>5, <1>7, <1>8, <1>9 DEF PfTypeOK

\* The registers stay in step with the bus and with the request that waits.
LEMMA TrackNext ==
  ASSUME PfTypeOK, TrackInv, NEW n \in 0 .. Len(bus), StaleTo(n),
         NEW branch \in HalfAddrs \cup {None}, NEW req \in BOOLEAN,
         NEW ready \in BOOLEAN, NEW gnt \in BOOLEAN, NEW r \in Responses,
         Cycle(branch, req, ready, gnt, r)
  PROVE  TrackInv'
<1>1. /\ Len(bus') <= NUM_REQS
      /\ \A i \in Slots : rdata_outstanding_q'[i] <=> i < Len(bus')
      /\ \A i \in Slots : branch_discard_q'[i] <=> i < Len(bus') /\ bus'[i + 1].stale
  BY BitsNext
<1>2. /\ Len(bus) >= Bit(r # None)
      /\ Len(bus') = Len(bus) + Bit(valid_req(branch, req) /\ gnt) - Bit(r # None)
      /\ asked' = IF valid_req(branch, req) /\ ~gnt THEN Want(branch) ELSE None
  BY BusNext DEF Cycle
<1>3. /\ valid_req_q' <=> valid_req(branch, req) /\ ~gnt
      /\ discard_req_q' = discard_req_d(branch)
      /\ stored_addr_q' = IF fresh_req(branch, req) /\ ~gnt
                          THEN instr_addr(branch) ELSE stored_addr_q
  BY DEF Cycle
<1>4. ASSUME valid_req_q' PROVE Len(bus') < NUM_REQS
  <2>1. Len(bus) < NUM_REQS
    BY <1>3, <1>4, Room
  <2>2. Bit(valid_req(branch, req) /\ gnt) = 0 /\ Bit(r # None) \in {0, 1}
    BY <1>3, <1>4 DEF Bit
  <2>3. Len(bus) \in Nat /\ NUM_REQS \in Nat
    BY NumReqsAssumption DEF PfTypeOK
  <2> QED
    BY <1>2, <2>1, <2>2, <2>3
<1>5. ASSUME valid_req_q'
      PROVE  Want(branch) = [word |-> WordOf(stored_addr_q'), stale |-> discard_req_q']
  <2>1. instr_addr(branch) = stored_addr_q'
    BY <1>3, <1>5 DEF instr_addr, valid_req, fresh_req
  <2> QED
    BY <1>3, <2>1 DEF Want
<1>6. asked' = IF valid_req_q' THEN [word |-> WordOf(stored_addr_q'), stale |-> discard_req_q']
               ELSE None
  BY <1>2, <1>3, <1>5
<1> QED
  BY <1>1, <1>4, <1>6 DEF TrackInv

-----------------------------------------------------------------------------
(* A cycle keeps the words that follow each other.                            *)

\* How many stale transactions there are after a cycle.
StaleNext(n, branch, req, gnt, r) ==
  (IF branch # None THEN Len(bus) - Bit(r # None)
   ELSE n - Bit(r # None) + Bit(r # None /\ n = 0))
    + Bit(valid_req(branch, req) /\ gnt /\ discard_req_d(branch))

\* The stale transactions stay the first on the bus: a stale request that waits is
\* granted behind stale ones only.
LEMMA StaleKept ==
  ASSUME PfTypeOK, TrackInv, NEW n \in 0 .. Len(bus), StaleTo(n),
         NEW branch \in HalfAddrs \cup {None}, NEW req \in BOOLEAN,
         NEW ready \in BOOLEAN, NEW gnt \in BOOLEAN, NEW r \in Responses,
         Cycle(branch, req, ready, gnt, r)
  PROVE  LET k == StaleNext(n, branch, req, gnt, r)
         IN /\ k \in 0 .. Len(bus')
            /\ \A i \in 1 .. Len(bus') : bus'[i].stale <=> i <= k
            /\ valid_req_q' /\ discard_req_q' => k = Len(bus')
<1> DEFINE s == Bit(r # None)
           ent == valid_req(branch, req) /\ gnt
           e == Bit(ent)
           d == discard_req_d(branch)
           st == Bit(ent /\ d)
           p == Bit(r # None /\ n = 0)
           b == branch # None
           k == StaleNext(n, branch, req, gnt, r)
<1>1. /\ Len(bus) >= s
      /\ Len(bus') = Len(bus) + e - s
      /\ \A i \in 1 .. Len(bus') :
           bus'[i] = IF i + s <= Len(bus)
                     THEN [word  |-> bus[i + s].word,
                           stale |-> bus[i + s].stale \/ branch # None]
                     ELSE Want(branch)
  BY BusNext DEF Cycle
<1>2. PICK L \in Nat : L = Len(bus)
  BY DEF PfTypeOK
<1>3. n \in 0 .. L /\ (\A i \in 1 .. L : bus[i].stale <=> i <= n)
      /\ (valid_req_q /\ discard_req_q => n = L)
  BY <1>2 DEF StaleTo
<1>4. /\ s \in {0, 1} /\ e \in {0, 1} /\ st \in {0, 1} /\ p \in {0, 1}
      /\ e = 1 <=> ent
      /\ st = 1 <=> e = 1 /\ d
      /\ p = 1 <=> s = 1 /\ n = 0
      /\ L >= s
  BY <1>1, <1>2 DEF Bit
<1>5. k = (IF b THEN L - s ELSE n - s + p) + st
  BY <1>2 DEF StaleNext
<1>6. d => b \/ n = L
  BY <1>3 DEF discard_req_d
<1>7. valid_req_q' /\ discard_req_q' => e = 0 /\ d
  BY DEF Cycle, Bit
<1> HIDE DEF s, e, st, p, k, d, ent, b
<1>8. PICK M \in Nat : M = Len(bus') /\ M = L + e - s
  <2>1. L + e - s \in Nat
    BY <1>2, <1>4
  <2> QED
    BY <1>1, <1>2, <2>1
<1>9. k \in 0 .. M
  <2>1. CASE b
    BY <1>4, <1>5, <1>8, <2>1
  <2>2. CASE ~b /\ d
    BY <1>3, <1>4, <1>5, <1>6, <1>8, <2>2
  <2>3. CASE ~b /\ ~d
    BY <1>3, <1>4, <1>5, <1>8, <2>3
  <2> QED
    BY <2>1, <2>2, <2>3
<1>10. valid_req_q' /\ discard_req_q' => k = M
  BY <1>3, <1>4, <1>5, <1>6, <1>7, <1>8
<1>11. ASSUME NEW i \in 1 .. M PROVE bus'[i].stale <=> i <= k
  <2>1. CASE i + s <= L
    <3>1. bus'[i].stale <=> bus[i + s].stale \/ b
      <4>1. bus'[i] = [word |-> bus[i + s].word, stale |-> bus[i + s].stale \/ branch # None]
        BY <1>1, <1>2, <1>8, <2>1
      <4>2. bus'[i].stale = (bus[i + s].stale \/ branch # None)
        BY <4>1
      <4> QED
        BY <4>2 DEF b
    <3>2. bus[i + s].stale <=> i + s <= n
      <4>1. i + s \in 1 .. L
        BY <1>4, <1>8, <2>1
      <4> QED
        BY <1>3, <4>1
    <3>3. CASE b
      BY <1>3, <1>4, <1>5, <1>8, <2>1, <3>1, <3>3
    <3>4. CASE ~b
      <4>1. i + s <= n <=> i <= k
        BY <1>3, <1>4, <1>5, <1>6, <1>8, <2>1, <3>4
      <4> QED
        BY <3>1, <3>2, <3>4, <4>1
    <3> QED
      BY <3>3, <3>4
  <2>2. CASE ~(i + s <= L)
    <3>1. bus'[i].stale <=> d
      <4>1. bus'[i] = Want(branch)
        BY <1>1, <1>2, <1>8, <2>2
      <4> QED
        BY <4>1 DEF Want, d
    <3>2. e = 1 /\ i = L + 1 - s
      BY <1>4, <1>8, <2>2
    <3>3. d <=> i <= k
      BY <1>3, <1>4, <1>5, <1>6, <1>8, <3>2
    <3> QED
      BY <3>1, <3>3
  <2> QED
    BY <2>1, <2>2
<1> QED
  BY <1>8, <1>9, <1>10, <1>11 DEF k

\* After a branch everything that is not stale follows from its target.
LEMMA ChainBranch ==
  ASSUME PfTypeOK, TrackInv, NEW n \in 0 .. Len(bus), StaleTo(n),
         NEW branch \in HalfAddrs, branch # None, NEW req \in BOOLEAN,
         NEW ready \in BOOLEAN, NEW gnt \in BOOLEAN, NEW r \in Responses,
         Cycle(branch, req, ready, gnt, r)
  PROVE  LET k == StaleNext(n, branch, req, gnt, r)
         IN /\ Len(fifo') + Len(bus') - k + Waiting' <= DEPTH
            /\ \A i \in 1 .. Len(bus') : i > k =>
                 bus'[i].word = At(instr_addr_q', Len(fifo') + i - k - 1)
            /\ Waiting' = 1 =>
                 WordOf(stored_addr_q') = At(instr_addr_q', Len(fifo') + Len(bus') - k)
            /\ WordOf(fetch_addr_q') =
                 At(instr_addr_q', Len(fifo') + Len(bus') - k + Waiting')
<1> DEFINE s == Bit(r # None)
           e == Bit(valid_req(branch, req) /\ gnt)
           fresh == fresh_req(branch, req)
           k == StaleNext(n, branch, req, gnt, r)
<1>1. /\ Len(bus) >= s
      /\ Len(bus') = Len(bus) + e - s
      /\ \A i \in 1 .. Len(bus') :
           bus'[i] = IF i + s <= Len(bus)
                     THEN [word  |-> bus[i + s].word,
                           stale |-> bus[i + s].stale \/ branch # None]
                     ELSE Want(branch)
  BY BusNext DEF Cycle
<1>2. PICK L \in Nat : L = Len(bus)
  BY DEF PfTypeOK
<1>3. fifo' = <<>> /\ instr_addr_q' = branch
  BY DEF Cycle, FifoNext
<1>4. Len(fifo') = 0
  BY <1>3
<1>5. discard_req_d(branch) <=> valid_req_q
  BY DEF discard_req_d
<1>6. valid_req(branch, req) <=> valid_req_q \/ fresh
  BY DEF valid_req, fresh_req
<1>7. fresh => ~valid_req_q
  BY DEF fresh_req
<1>8. PICK st \in {0, 1}, S \in {0, 1}, E \in {0, 1}, y \in {0, 1} :
        /\ st = 1 <=> valid_req_q /\ gnt
        /\ S = s /\ E = e
        /\ E = 1 <=> (valid_req_q \/ fresh) /\ gnt
        /\ y = Bit(fresh)
        /\ y = 1 <=> fresh
        /\ k = L - S + st
  <2> DEFINE t == Bit(valid_req_q /\ gnt)
  <2>1. /\ t \in {0, 1} /\ s \in {0, 1} /\ e \in {0, 1} /\ Bit(fresh) \in {0, 1}
        /\ t = 1 <=> valid_req_q /\ gnt
        /\ e = 1 <=> (valid_req_q \/ fresh) /\ gnt
        /\ Bit(fresh) = 1 <=> fresh
    BY <1>6 DEF Bit
  <2>2. k = L - s + t
    BY <1>2, <1>5, <1>6 DEF StaleNext, Bit
  <2> HIDE DEF t, s, e, fresh, k
  <2> QED
    BY <2>1, <2>2
<1>9. PICK w \in {0, 1} : w = Waiting' /\ (w = 1 <=> fresh /\ ~gnt)
  <2>1. /\ valid_req_q' <=> valid_req(branch, req) /\ ~gnt
        /\ discard_req_q' <=> discard_req_d(branch)
    BY DEF Cycle
  <2> QED
    BY <1>5, <1>6, <1>7, <2>1 DEF Waiting, Bit
<1> HIDE DEF fresh, k, s, e
<1>10. PICK M \in Nat, K \in Int : M = Len(bus') /\ K = k /\ M = L + E - S /\ K = L - S + st
  <2>1. L + E - S \in Nat /\ L - S + st \in Int
    BY <1>1, <1>2, <1>8
  <2> QED
    BY <1>1, <1>2, <1>8, <2>1
<1>11. WordOf(branch) = At(branch, 0)
  BY AtZero
<1>12. Len(fifo') + Len(bus') - k + Waiting' = Bit(fresh)
  <2>1. M - K + w = y
    BY <1>7, <1>8, <1>9, <1>10
  <2> QED
    BY <1>4, <1>8, <1>9, <1>10, <2>1
<1>13. Len(fifo') + Len(bus') - k + Waiting' <= DEPTH
  BY <1>8, <1>12, NumReqsAssumption DEF DEPTH
<1>14. ~valid_req_q => instr_addr(branch) = branch
  BY DEF instr_addr
<1>15. ASSUME NEW i \in 1 .. Len(bus'), i > k
       PROVE  bus'[i].word = At(instr_addr_q', Len(fifo') + i - k - 1)
  <2>1. fresh /\ i = M /\ i - k = 1 /\ ~(i + s <= L)
    <3>1. i \in 1 .. M /\ i > K
      BY <1>10, <1>15
    <3>2. E = 1 /\ st = 0 /\ i = M /\ i = K + 1
      BY <1>10, <3>1
    <3>3. fresh
      BY <1>8, <3>2
    <3>4. i - K = 1 /\ ~(i + S <= L)
      BY <1>10, <3>2
    <3> QED
      BY <1>8, <1>10, <3>2, <3>3, <3>4
  <2>2. bus'[i].word = WordOf(instr_addr(branch))
    BY <1>1, <1>2, <2>1 DEF Want
  <2>3. Len(fifo') + i - k - 1 = 0
    BY <1>4, <1>10, <2>1
  <2> QED
    BY <1>3, <1>7, <1>11, <1>14, <2>1, <2>2, <2>3
<1>16. ASSUME Waiting' = 1
       PROVE  WordOf(stored_addr_q') = At(instr_addr_q', Len(fifo') + Len(bus') - k)
  <2>1. fresh /\ ~gnt
    BY <1>9, <1>16
  <2>2. stored_addr_q' = branch
    BY <1>7, <1>14, <2>1 DEF Cycle, fresh
  <2>3. Len(fifo') + Len(bus') - k = 0
    <3>1. st = 0 /\ E = 0
      BY <1>7, <1>8, <2>1
    <3> QED
      BY <1>4, <1>10, <3>1
  <2> QED
    BY <1>3, <1>11, <2>2, <2>3
<1>17. WordOf(fetch_addr_q') = At(branch, Bit(fresh))
  <2>1. fetch_addr_q' = AddHalves(branch, IF fresh THEN 2 ELSE 0)
    BY DEF Cycle, fetch_addr_d, fresh
  <2>2. PICK j \in Nat : j = Bit(fresh)
    BY DEF Bit
  <2>3. fetch_addr_q' = AddHalves(branch, 2 * j) /\ 2 * j \in Nat
    BY <2>1, <2>2 DEF Bit
  <2>4. PICK h \in {0, 1} : h = HalfIn(branch)
    BY AddrParts
  <2>5. HalfIn(branch) + 2 * j = 2 * j + h
    BY <2>4
  <2> QED
    BY <2>2, <2>3, <2>5, AddWords
<1> QED
  BY <1>3, <1>12, <1>13, <1>15, <1>16, <1>17 DEF k

\* Without a branch the words that follow each other stay the same, but for those
\* used up at the front and the one asked for at the end.
LEMMA ChainAdvance ==
  ASSUME PfTypeOK, TrackInv, NEW n \in 0 .. Len(bus), StaleTo(n), Chain(n),
         NEW req \in BOOLEAN,
         NEW ready \in BOOLEAN, NEW gnt \in BOOLEAN, NEW r \in Responses,
         Cycle(None, req, ready, gnt, r)
  PROVE  LET k == StaleNext(n, None, req, gnt, r)
         IN /\ Len(fifo') + Len(bus') - k + Waiting' <= DEPTH
            /\ \A i \in 1 .. Len(bus') : i > k =>
                 bus'[i].word = At(instr_addr_q', Len(fifo') + i - k - 1)
            /\ Waiting' = 1 =>
                 WordOf(stored_addr_q') = At(instr_addr_q', Len(fifo') + Len(bus') - k)
            /\ WordOf(fetch_addr_q') =
                 At(instr_addr_q', Len(fifo') + Len(bus') - k + Waiting')
<1> DEFINE s == Bit(r # None)
           ent == valid_req(None, req) /\ gnt
           e == Bit(ent)
           d == discard_req_d(None)
           fresh == fresh_req(None, req)
           k == StaleNext(n, None, req, gnt, r)
           pop == pop_fifo(fifo, fifo_in(r), instr_addr_q, ready)
<1>1. /\ Len(bus) >= s
      /\ Len(bus') = Len(bus) + e - s
      /\ \A i \in 1 .. Len(bus') :
           bus'[i] = IF i + s <= Len(bus)
                     THEN [word  |-> bus[i + s].word,
                           stale |-> bus[i + s].stale \/ None # None]
                     ELSE Want(None)
  BY BusNext DEF Cycle
<1>2. PICK L \in Nat, F \in Nat, a \in HalfAddrs, b \in HalfAddrs :
         L = Len(bus) /\ F = Len(fifo) /\ a = instr_addr_q /\ b = instr_addr_q'
  <2>1. instr_addr_q' \in HalfAddrs
    BY FifoCycle
  <2> QED
    BY <2>1 DEF PfTypeOK
<1>3. PICK v \in {0, 1} : v = Bit(pop)
  BY DEF Bit
<1>4. PICK p \in {0, 1} : p = Bit(r # None /\ n = 0)
  BY DEF Bit
<1>5. Len(fifo') = F + p - v /\ WordOf(b) = At(a, v)
  BY <1>2, <1>3, <1>4, FifoCycle
<1> HIDE DEF pop
<1>6. PICK G \in Nat : G = Len(fifo') /\ G = F + p - v
  <2>1. Len(fifo') \in Nat
    BY FifoCycle
  <2> QED
    BY <1>5, <2>1
<1>7. \A j \in Nat : At(b, j) = At(a, v + j)
  BY <1>5, AtFrom
<1>8. d <=> valid_req_q /\ discard_req_q
  BY DEF discard_req_d
<1>9. valid_req(None, req) <=> valid_req_q \/ fresh
  BY DEF valid_req, fresh_req
<1>10. fresh => ~valid_req_q
  BY DEF fresh_req
<1>11. PICK w \in {0, 1}, x \in {0, 1} :
          /\ w = Waiting /\ w = Bit(valid_req_q /\ ~d)
          /\ x = Waiting' /\ x = Bit((valid_req_q \/ fresh) /\ ~gnt /\ ~d)
  <2>1. /\ valid_req_q' <=> valid_req(None, req) /\ ~gnt
        /\ discard_req_q' <=> d
    BY DEF Cycle
  <2> QED
    BY <1>8, <1>9, <2>1 DEF Waiting, Bit
<1>12. PICK st \in {0, 1} : k = n - s + p + st /\ st = Bit(ent /\ d)
  BY <1>4 DEF StaleNext, Bit
<1>13. /\ s \in {0, 1} /\ e \in {0, 1} /\ (e = 1 <=> ent) /\ (st = 1 <=> ent /\ d)
       /\ w = 1 <=> valid_req_q /\ ~d
       /\ x = 1 <=> (valid_req_q \/ fresh) /\ ~gnt /\ ~d
       /\ ent <=> (valid_req_q \/ fresh) /\ gnt
       /\ n \in 0 .. L
  BY <1>2, <1>9, <1>11, <1>12 DEF Bit
<1> HIDE DEF s, e, ent, d, fresh, k
<1>14. PICK M \in Nat : M = Len(bus') /\ M = L + e - s
  <2>1. L + e - s \in Nat
    BY <1>1, <1>2, <1>13
  <2> QED
    BY <1>1, <1>2, <2>1
<1>15. PICK y \in {0, 1} : y = 1 <=> fresh
  <2>1. Bit(fresh) \in {0, 1} /\ (Bit(fresh) = 1 <=> fresh)
    BY DEF Bit
  <2> QED
    BY <2>1
<1>16. d => valid_req_q
  BY <1>8
\* The transactions that are not stale, and the requests.
<1>17. /\ M - k = L - n - p + (e - st)
       /\ (e - st) + x = w + y
  <2>1. M - k = L - n - p + (e - st)
    BY <1>12, <1>13, <1>14
  <2>2. CASE fresh
    BY <1>10, <1>13, <1>15, <1>16, <2>1, <2>2
  <2>3. CASE ~fresh /\ valid_req_q
    BY <1>13, <1>15, <2>1, <2>3
  <2>4. CASE ~fresh /\ ~valid_req_q
    BY <1>13, <1>15, <1>16, <2>1, <2>4
  <2> QED
    BY <2>1, <2>2, <2>3, <2>4
<1>18. /\ F + L - n + w <= DEPTH
       /\ \A i \in 1 .. L : i > n => bus[i].word = At(a, F + i - n - 1)
       /\ w = 1 => WordOf(stored_addr_q) = At(a, F + L - n)
       /\ WordOf(fetch_addr_q) = At(a, F + L - n + w)
  BY <1>2, <1>11 DEF Chain, Ahead
<1>19. G + M - k + x <= DEPTH
  <2>1. CASE fresh
    <3>1. F + L <= NUM_REQS
      <4>1. fifo_ready
        BY <2>1 DEF fresh, fresh_req, valid_new_req
      <4> QED
        BY <1>2, <4>1, Room
    <3>2. w = 0
      BY <1>10, <1>13, <2>1
    <3> QED
      <4>1. PICK K \in Int : K = k
        BY <1>12, <1>13
      <4>2. G + M - K + x = F + p - v + (L - n - p) + w + y
        BY <1>6, <1>13, <1>14, <1>17, <4>1
      <4>3. NUM_REQS \in Nat
        BY NumReqsAssumption
      <4> QED
        BY <1>13, <3>1, <3>2, <4>1, <4>2, <4>3 DEF DEPTH
  <2>2. CASE ~fresh
    <3>1. y = 0 /\ DEPTH \in Nat
      BY <1>15, <2>2, NumReqsAssumption DEF DEPTH
    <3> QED
      <4>1. PICK K \in Int, D \in Int : K = k /\ D = DEPTH
        BY <1>12, <1>13, <3>1
      <4>2. G + M - K + x = F + p - v + (L - n - p) + w + y
        BY <1>6, <1>13, <1>14, <1>17, <4>1
      <4>3. F + L - n + w <= D
        BY <1>18, <4>1
      <4> QED
        BY <1>13, <3>1, <4>1, <4>2, <4>3
  <2> QED
    BY <2>1, <2>2
<1>20. PICK A \in Nat : A = F + L - n
  BY <1>13
\* The word of the request.
<1>21. (valid_req_q \/ fresh) /\ ~d => WordOf(instr_addr(None)) = At(a, A)
  <2>1. CASE valid_req_q /\ ~d
    BY <1>13, <1>18, <1>20, <2>1 DEF instr_addr
  <2>2. CASE fresh
    <3>1. ~valid_req_q /\ w = 0 /\ A + 0 = A
      BY <1>10, <1>13, <1>20, <2>2
    <3>2. instr_addr(None) = fetch_addr_q
      BY <3>1 DEF instr_addr
    <3>3. F + L - n + w = A
      BY <1>20, <3>1, <1>13
    <3> QED
      BY <1>18, <3>2, <3>3
  <2> QED
    BY <2>1, <2>2
<1>22. ASSUME NEW i \in 1 .. M, i > k
       PROVE  bus'[i].word = At(b, G + i - k - 1)
  <2>1. st = 0
    BY <1>4, <1>8, <1>12, <1>13, <1>14, <1>22, <1>2 DEF StaleTo
  <2>2. PICK j \in Nat : j = G + i - k - 1
    BY <1>6, <1>12, <1>13, <1>14, <1>22
  <2>3. v + j = F + (i + s) - n - 1
    BY <1>6, <1>12, <1>13, <1>14, <2>1, <2>2
  <2>4. CASE i + s <= L
    <3>1. bus'[i].word = bus[i + s].word
      BY <1>1, <1>2, <1>14, <2>4
    <3>2. i + s \in 1 .. L /\ i + s > n
      BY <1>12, <1>13, <1>14, <1>22, <2>1, <2>4
    <3> QED
      BY <1>7, <1>18, <2>2, <2>3, <3>1, <3>2
  <2>5. CASE ~(i + s <= L)
    <3>1. bus'[i].word = WordOf(instr_addr(None))
      BY <1>1, <1>2, <1>14, <2>5 DEF Want
    <3>2. ent /\ ~d /\ i + s = L + 1
      BY <1>13, <1>14, <2>1, <2>5
    <3>3. v + j = A
      BY <1>13, <1>20, <2>3, <3>2
    <3> QED
      BY <1>7, <1>13, <1>21, <2>2, <3>1, <3>2, <3>3
  <2> QED
    BY <2>4, <2>5
<1>23. PICK B \in Nat : B = G + M - k /\ B = A - v + (e - st)
  <2>1. G + M - k = A - v + (e - st)
    BY <1>6, <1>12, <1>13, <1>14, <1>17, <1>20
  <2>2. G + M - k \in Nat
    <3>1. k <= M
      <4>1. k \in 0 .. Len(bus')
        BY StaleKept DEF k
      <4> QED
        BY <1>14, <4>1
    <3> QED
      BY <1>6, <1>12, <1>13, <1>14, <3>1
  <2> QED
    BY <2>1, <2>2
<1>24. ASSUME x = 1 PROVE WordOf(stored_addr_q') = At(b, B)
  <2>1. (valid_req_q \/ fresh) /\ ~gnt /\ ~d /\ e - st = 0
    BY <1>13, <1>24
  <2>2. stored_addr_q' = instr_addr(None)
    BY <1>10, <2>1 DEF Cycle, fresh, instr_addr
  <2>3. v + B = A
    BY <1>20, <1>23, <2>1
  <2> QED
    BY <1>7, <1>21, <2>1, <2>2, <2>3
<1>25. WordOf(fetch_addr_q') = At(b, B + x)
  <2>1. v + (B + x) = A + w + y
    <3>1. PICK E \in Int : E = e
      BY <1>13
    <3>2. (E - st) + x = w + y /\ B = A - v + (E - st)
      BY <1>17, <1>23, <3>1
    <3>3. v \in Int /\ x \in Int /\ w \in Int /\ y \in Int /\ st \in Int
      OBVIOUS
    <3> QED
      BY <3>2, <3>3
  <2>2. At(b, B + x) = At(a, A + w + y)
    <3>1. PICK j \in Nat : j = B + x
      OBVIOUS
    <3>2. At(b, j) = At(a, v + j)
      BY <1>7
    <3> QED
      BY <2>1, <3>1, <3>2
  <2>3. CASE fresh
    <3>1. y = 1 /\ w = 0 /\ A + w + y = A + 1 /\ F + L - n + w = A
      BY <1>10, <1>13, <1>15, <1>20, <2>3
    <3>2. fetch_addr_q' = AddHalves(2 * WordOf(fetch_addr_q), 2)
      BY <2>3 DEF Cycle, fresh, fetch_addr_d
    <3>3. fetch_addr_q \in HalfAddrs /\ WordOf(fetch_addr_q) = At(a, A)
      BY <1>18, <3>1 DEF PfTypeOK
    <3>4. WordOf(fetch_addr_q') = At(a, A + 1)
      BY <3>2, <3>3, NextWord
    <3> QED
      BY <2>2, <3>1, <3>4
  <2>4. CASE ~fresh
    <3>1. A + w + y = F + L - n + w
      BY <1>13, <1>15, <1>20, <2>4
    <3>2. fetch_addr_q' = fetch_addr_q
      BY <2>4 DEF Cycle, fresh
    <3> QED
      BY <1>18, <2>2, <3>1, <3>2
  <2> QED
    BY <2>3, <2>4
<1> QED
  BY <1>2, <1>6, <1>11, <1>14, <1>19, <1>22, <1>23, <1>24, <1>25 DEF k

-----------------------------------------------------------------------------
(* The theorems.                                                             *)

\* The reset state.
LEMMA InitHolds == Init => PfInv
<1> SUFFICES ASSUME Init PROVE PfInv
  OBVIOUS
<1>1. 0 \in HalfAddrs /\ NUM_REQS \in Nat /\ NUM_REQS >= 2
  BY NumWordsAssumption, NumReqsAssumption DEF HalfAddrs
<1>2. PfTypeOK
  <2>1. <<>> \in Seq(FetchedWord) /\ <<>> \in Seq(Request)
    OBVIOUS
  <2>2. [i \in Slots |-> FALSE] \in [Slots -> BOOLEAN]
    OBVIOUS
  <2> QED
    BY <1>1, <2>1, <2>2, Zenon DEF Init, PfTypeOK
<1>3. Len(bus) = 0 /\ Len(fifo) = 0
  BY DEF Init
<1>4. TrackInv
  BY <1>1, <1>3 DEF Init, TrackInv, Slots
<1>5. PICK n \in Nat : n = 0
  OBVIOUS
<1>6. StaleTo(n)
  <2>1. n \in 0 .. Len(bus) /\ ~valid_req_q /\ 1 .. Len(bus) = {}
    BY <1>3, <1>5 DEF Init
  <2> QED
    BY <2>1 DEF StaleTo
<1>7. Chain(n)
  <2>1. Waiting = 0 /\ Ahead(n) = 0
    BY <1>3, <1>5 DEF Waiting, Ahead, Init
  <2>2. WordOf(fetch_addr_q) = At(instr_addr_q, 0)
    BY <1>1, AtZero DEF Init
  <2>3. DEPTH >= 0
    BY <1>1 DEF DEPTH
  <2> QED
    BY <1>3, <2>1, <2>2, <2>3 DEF Chain
<1> QED
  BY <1>2, <1>3, <1>4, <1>5, <1>6, <1>7 DEF PfInv

\* A clock cycle keeps the invariant ...
LEMMA CycleKeeps ==
  ASSUME PfInv, NEW branch \in HalfAddrs \cup {None}, NEW req \in BOOLEAN,
         NEW ready \in BOOLEAN, NEW gnt \in BOOLEAN, NEW r \in Responses,
         Cycle(branch, req, ready, gnt, r)
  PROVE  PfInv'
<1>1. PfTypeOK /\ TrackInv
  BY DEF PfInv
<1>2. PICK n \in 0 .. Len(bus) : StaleTo(n) /\ Chain(n)
  BY DEF PfInv
<1>3. PfTypeOK'
  BY <1>1, <1>2, TypeNext
<1>4. TrackInv'
  BY <1>1, <1>2, TrackNext
<1> DEFINE k == StaleNext(n, branch, req, gnt, r)
<1>5. /\ k \in 0 .. Len(bus')
      /\ \A i \in 1 .. Len(bus') : bus'[i].stale <=> i <= k
      /\ valid_req_q' /\ discard_req_q' => k = Len(bus')
  BY <1>1, <1>2, StaleKept
<1>6. /\ Len(fifo') + Len(bus') - k + Waiting' <= DEPTH
      /\ \A i \in 1 .. Len(bus') : i > k =>
           bus'[i].word = At(instr_addr_q', Len(fifo') + i - k - 1)
      /\ Waiting' = 1 =>
           WordOf(stored_addr_q') = At(instr_addr_q', Len(fifo') + Len(bus') - k)
      /\ WordOf(fetch_addr_q') =
           At(instr_addr_q', Len(fifo') + Len(bus') - k + Waiting')
  <2>1. CASE branch = None
    <3>1. Cycle(None, req, ready, gnt, r)
      BY <2>1
    <3> QED
      BY <1>1, <1>2, <2>1, <3>1, ChainAdvance
  <2>2. CASE branch # None
    <3>1. branch \in HalfAddrs
      BY <2>2
    <3> QED
      BY <1>1, <1>2, <2>2, <3>1, ChainBranch
  <2> QED
    BY <2>1, <2>2
<1> HIDE DEF k
<1>7. PICK c \in 0 .. Len(bus') : c = k
  BY <1>5
<1>8. StaleTo(c)'
  BY <1>5, <1>7 DEF StaleTo
<1>9. Chain(c)'
  BY <1>6, <1>7 DEF Chain, Ahead
<1> QED
  BY <1>3, <1>4, <1>7, <1>8, <1>9 DEF PfInv

\* ... and so does a step that changes nothing.
LEMMA StutterKeeps ==
  ASSUME PfInv, UNCHANGED vars
  PROVE  PfInv'
<1>1. /\ UNCHANGED <<instr_addr_q, fifo, booted, branched, valid_req_q, discard_req_q>>
      /\ UNCHANGED <<stored_addr_q, fetch_addr_q, rdata_outstanding_q>>
      /\ UNCHANGED <<branch_discard_q, bus, asked>>
  BY DEF vars
<1>2. PfTypeOK'
  BY <1>1 DEF PfInv, PfTypeOK
<1>3. TrackInv'
  BY <1>1 DEF PfInv, TrackInv
<1>4. PICK n \in 0 .. Len(bus) : StaleTo(n) /\ Chain(n)
  BY DEF PfInv
<1>5. StaleTo(n)'
  BY <1>1, <1>4 DEF StaleTo
<1>6. Chain(n)'
  <2>1. Waiting' = Waiting /\ Ahead(n)' = Ahead(n)
    BY <1>1 DEF Waiting, Ahead
  <2> QED
    BY <1>1, <1>4, <2>1 DEF Chain
<1> QED
  BY <1>1, <1>2, <1>3, <1>4, <1>5, <1>6 DEF PfInv

\* The invariant is inductive.
LEMMA NextKeeps ==
  ASSUME PfInv, [Next]_vars
  PROVE  PfInv'
<1>1. CASE Next
  BY <1>1, CycleKeeps DEF Next
<1>2. CASE UNCHANGED vars
  BY <1>2, StutterKeeps
<1> QED
  BY <1>1, <1>2

\* The registers of the prefetch buffer always say what the bus owes and which of it
\* a branch has made stale, and the words in the FIFO, on the bus, waiting and next
\* to be fetched follow each other in address order from instr_addr_q on.
THEOREM PrefetchInvariance == Spec => []PfInv
<1>1. PfInv /\ [Next]_vars => PfInv'
  BY NextKeeps
<1> QED
  BY InitHolds, <1>1, PTL DEF Spec

\* The FIFO has room for every word still to come, the outstanding and discard bits
\* are those of the bus's transactions, and an ungranted request is repeated with
\* its address (valid_req_q, stored_addr_q), even across a branch.
THEOREM TrackingHeld == Spec => []RequestsTracked
<1>1. PfInv => RequestsTracked
  BY TrackedByInv
<1> QED
  BY PrefetchInvariance, <1>1, PTL

\* Whatever the bus answers, the instruction at the FIFO's output (out_valid_o,
\* out_rdata_o, out_err_o, out_err_plus2_o) is the one the fetched words hold.
THEOREM OfferRight == Spec => []OfferedInstr
<1>1. PfInv => OfferedInstr
  BY OfferedByInv DEF PfInv
<1> QED
  BY PrefetchInvariance, <1>1, PTL

\* A cycle without a branch is a step of the abstract stream: the word that comes in
\* is the next of the chain, and the instruction taken is the one at pc.
LEMMA StreamAdvance ==
  ASSUME PfInv, NEW req \in BOOLEAN, NEW ready \in BOOLEAN, NEW gnt \in BOOLEAN,
         NEW r \in Responses, Cycle(None, req, ready, gnt, r)
  PROVE  Stream!Next
<1>1. PfTypeOK /\ TrackInv
  BY DEF PfInv
<1>2. PICK n \in 0 .. Len(bus) : StaleTo(n) /\ Chain(n)
  BY DEF PfInv
<1>3. PICK in \in FifoInput : in = fifo_in(r)
  BY <1>1, InputType
<1>4. PICK f \in Seq(FetchedWord), a \in HalfAddrs : f = fifo /\ a = instr_addr_q
  BY <1>1 DEF PfTypeOK
<1> DEFINE new == IF in.valid THEN <<Word(in)>> ELSE <<>>
           take == ready /\ out_valid(f, in, a)
           s == f \o new
           i == Stream!InstrAt(s, a)
           pop == pop_fifo(f, in, a, ready)
<1>5. in.valid => Len(f) < DEPTH
  BY <1>1, <1>2, <1>3, <1>4, PushRoom
<1>6. FifoNext(f, in, a, ready, FALSE) = IF pop THEN Tail(s) ELSE s
  BY <1>5, FifoStep, Zenon
<1>7. fifo' = IF pop THEN Tail(s) ELSE s
  <2>1. fifo' = FifoNext(f, in, a, ready, FALSE)
    BY <1>3, <1>4, Zenon DEF Cycle
  <2> QED
    BY <1>6, <2>1
<1>8. instr_addr_q' = IF take THEN AddHalves(a, addr_incr(f, in, a)) ELSE a
  BY <1>3, <1>4, Zenon DEF Cycle
<1>9. /\ out_valid(f, in, a) <=> i.valid
      /\ i.valid => addr_incr(f, in, a) = i.length
      /\ i.valid => (pop_fifo(f, in, a, TRUE) <=> HalfIn(a) + i.length >= 2)
  <2>1. Shown(f, in, a)
    BY Aligner
  <2>2. i.valid => (pop_fifo(f, in, a, TRUE) <=> HalfIn(a) + i.length >= 2)
    BY Aligner
  <2>3. /\ out_valid(f, in, a) <=> i.valid
        /\ i.valid => addr_incr(f, in, a) = i.length
    BY <2>1, Zenon DEF Shown
  <2> QED
    BY <2>2, <2>3, Zenon
<1>10. take => i.valid
  BY <1>9
<1>11. instr_addr_q' = IF take THEN AddHalves(a, i.length) ELSE a
  BY <1>8, <1>9, <1>10
<1>12. pop <=> take /\ HalfIn(a) + i.length >= 2
  <2>1. pop <=> take /\ pop_fifo(f, in, a, TRUE)
    BY DEF pop_fifo
  <2> QED
    BY <1>9, <1>10, <2>1, Zenon
<1>13. fifo' = IF take /\ HalfIn(a) + i.length >= 2 THEN Tail(s) ELSE s
  BY <1>7, <1>12, Zenon
<1>14. ASSUME in.valid
       PROVE  Word(in).word = WordOf(AddHalves(a, 2 * Len(f)))
  <2>1. PICK F \in Nat, h \in {0, 1} : F = Len(f) /\ h = HalfIn(a)
    BY AddrParts
  <2>2. HalfIn(a) + 2 * F = 2 * F + h /\ 2 * F \in Nat
    BY <2>1
  <2>3. WordOf(AddHalves(a, 2 * F)) = At(a, F)
    BY <2>2, AddWords
  <2>4. r # None /\ n = 0 /\ Len(bus) >= 1
    BY <1>1, <1>2, <1>3, <1>14, PushRoom
  <2>5. in.word = bus[1].word
    BY <1>1, <1>3, <2>4, InputType
  <2>6. bus[1].word = At(a, Len(fifo) + 1 - 0 - 1)
    <3>1. 1 \in 1 .. Len(bus) /\ 1 > n
      BY <1>1, <2>4 DEF PfTypeOK
    <3>2. bus[1].word = At(instr_addr_q, Len(fifo) + 1 - n - 1)
      BY <1>2, <3>1 DEF Chain
    <3> QED
      BY <1>4, <2>4, <3>2
  <2>7. Len(fifo) + 1 - 0 - 1 = F
    BY <1>4, <2>1
  <2> QED
    BY <2>1, <2>3, <2>5, <2>6, <2>7 DEF Word
<1>15. Word(in) \in FetchedWord
  BY DEF FifoInput, Word, FetchedWord
<1>16. new \in {<<>>} \cup {<<w>> : w \in FetchedWord} /\ take \in BOOLEAN
  BY <1>15
<1>17. \A j \in 1 .. Len(new) : new[j].word = WordOf(AddHalves(a, 2 * Len(f)))
  <2>1. CASE in.valid
    <3>1. new = <<Word(in)>> /\ Len(new) = 1 /\ new[1] = Word(in)
      BY <2>1
    <3> QED
      BY <1>14, <2>1, <3>1
  <2>2. CASE ~in.valid
    BY <2>2
  <2> QED
    BY <2>1, <2>2
<1> HIDE DEF new, take, i, s
<1>18. Stream!Advance(new, take)
  <2>1. s = fifo \o new /\ i = Stream!InstrAt(fifo \o new, instr_addr_q)
    BY <1>4 DEF s, i
  <2> QED
    BY <1>4, <1>10, <1>11, <1>13, <1>17, <2>1, Zenon
    DEF Stream!Advance, Stream!AddHalves, AddHalves, Stream!WordOf, WordOf, Stream!HalfIn, HalfIn
<1> QED
  <2>1. FetchedWord = Stream!FetchedWord
    BY DEF Stream!FetchedWord, FetchedWord, Stream!Words, Words
  <2>2. new \in {<<>>} \cup {<<w>> : w \in Stream!FetchedWord}
    BY <1>16, <2>1, Zenon
  <2>3. \E c \in {<<>>} \cup {<<w>> : w \in Stream!FetchedWord}, t \in BOOLEAN :
           Stream!Advance(c, t)
    BY <1>16, <1>18, <2>2, Zenon
  <2> QED
    BY <2>3, Zenon DEF Stream!Next

\* The prefetch buffer implements InstrStream: after a branch to t it hands out the
\* instructions at t, t plus its length, and so on, none missing and none twice, all
\* of words requested after the branch.
THEOREM StreamImplemented == Spec => StreamSpec
<1>1. Init => Stream!Init
  <2>1. 0 \in Stream!HalfAddrs
    BY NumWordsAssumption DEF Stream!HalfAddrs
  <2> QED
    BY <2>1 DEF Init, Stream!Init
<1>2. PfInv /\ [Next]_vars => [Stream!Next]_(Stream!stream)
  <2> SUFFICES ASSUME PfInv, [Next]_vars
               PROVE  Stream!Next \/ UNCHANGED Stream!stream
    OBVIOUS
  <2>1. CASE Next
    <3>1. PICK branch \in HalfAddrs \cup {None}, req \in BOOLEAN, ready \in BOOLEAN,
               gnt \in BOOLEAN, r \in Responses : Cycle(branch, req, ready, gnt, r)
      BY <2>1 DEF Next
    <3>2. CASE branch = None
      <4>1. Cycle(None, req, ready, gnt, r)
        BY <3>1, <3>2
      <4> QED
        BY <4>1, StreamAdvance
    <3>3. CASE branch # None
      <4>1. instr_addr_q' = branch /\ fifo' = <<>>
        BY <3>1, <3>3 DEF Cycle, FifoNext
      <4>2. branch \in Stream!HalfAddrs
        BY <3>3 DEF Stream!HalfAddrs, HalfAddrs
      <4> QED
        BY <4>1, <4>2 DEF Stream!Next, Stream!Branch
    <3> QED
      BY <3>2, <3>3
  <2>2. CASE UNCHANGED vars
    BY <2>2 DEF vars, Stream!stream
  <2> QED
    BY <2>1, <2>2
<1> QED
  BY PrefetchInvariance, <1>1, <1>2, PTL DEF Spec, StreamSpec, Stream!Spec
=============================================================================
