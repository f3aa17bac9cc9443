--------------------------- MODULE DvFlows_proofs ---------------------------
(***************************************************************************)
(* Proofs about the two verification flows under dv/.                      *)
(*   The formal flow: the conductor and its process runner, for any set of *)
(* properties, blocks and command lines, any memory use, and any sequence  *)
(* of polls, kills, timeouts and interrupts.  CdInv is inductive: each     *)
(* process is in one list of the runner, once, exactly as long as its      *)
(* future is open (RunnerInv); each open future is the one that the        *)
(* coroutine of some block of the gather waits for, so that nothing is     *)
(* queued when the next gather begins (GatherInv); and all is what the     *)
(* steps of prove_mode loaded so far (ProveInv).  Without, the recursive   *)
(* filter of poll(), is shown to remove exactly the processes it is given: *)
(* the induction is over a least counterexample.                           *)
(*   The UVM regression: make and its scripts, for any arguments, test     *)
(* lists, parameters and simulations.  RegrInv is inductive: make settles  *)
(* a target after its prerequisites (MakeOrder); whoever rewrites the      *)
(* metadata has every field that is done in its copy (MetadataHeld); what  *)
(* make takes for up to date is of the current testbench                   *)
(* (SimulationsCurrent); and a record says what its log says, unless it is *)
(* still to be checked or was cut off before (VerdictsKept).               *)
(*   The tests that are run come from FlattenSeq, a recursive function like *)
(* Without: what it returns is shown by least counterexample as well.      *)
(***************************************************************************)
EXTENDS Conductor, Regression, WellFoundedInduction, TLAPS

-----------------------------------------------------------------------------
(* Numbers and sequences.                                                    *)

\* A set of numbers has its least element.
LEMMA MinIn ==
  ASSUME NEW S \in SUBSET Nat, S # {}
  PROVE  /\ Min(S) \in S /\ \A y \in S : Min(S) <= y
         /\ \E x \in S : \A y \in S : x <= y
<1>1. PICK R : IsWellFoundedOn(R, Nat) /\ \A x, y \in Nat : <<y, x>> \in R <=> y < x
  <2>1. IsWellFoundedOn(OpToRel(<, Nat), Nat)
    BY NatLessThanWellFounded
  <2>2. \A x, y \in Nat : <<y, x>> \in OpToRel(<, Nat) <=> y < x
    BY DEF OpToRel
  <2> QED
    BY <2>1, <2>2, Zenon
<1>2. PICK x \in S : \A y \in S : ~(<<y, x>> \in R)
  BY <1>1, WFMin
<1>3. ASSUME NEW y \in S PROVE x <= y
  <2>1. x \in Nat /\ y \in Nat
    OBVIOUS
  <2>2. ~(y < x)
    BY <1>1, <1>2, <2>1, Zenon
  <2> QED
    BY <2>1, <2>2
<1> QED
  BY <1>3 DEF Min

\* A set that has 0 and the successor of each number in it has every number.
LEMMA Induction ==
  ASSUME NEW S \in SUBSET Nat, 0 \in S, \A n \in S : n + 1 \in S
  PROVE  S = Nat
<1>1. SUFFICES ASSUME Nat \ S # {} PROVE FALSE
  OBVIOUS
<1>2. PICK x \in Nat \ S : \A y \in Nat \ S : x <= y
  BY <1>1, MinIn
<1>3. x # 0 /\ x \in Nat
  BY <1>2
<1>4. x - 1 \in Nat /\ ~(x <= x - 1) /\ (x - 1) + 1 = x
  BY <1>3
<1>5. x - 1 \in S
  BY <1>2, <1>4
<1> QED
  BY <1>2, <1>4, <1>5

\* Appending.
LEMMA AppendFacts ==
  ASSUME NEW S, NEW s \in Seq(S), NEW x \in S
  PROVE  /\ Append(s, x) \in Seq(S)
         /\ Range(Append(s, x)) = Range(s) \cup {x}
         /\ IsInjective(s) /\ x \notin Range(s) => IsInjective(Append(s, x))
<1>1. Append(s, x) \in Seq(S)
  OBVIOUS
<1>2. PICK n \in Nat : n = Len(s) /\ DOMAIN s = 1 .. n
  OBVIOUS
<1>3. PICK t : t = Append(s, x)
  OBVIOUS
<1>4. /\ DOMAIN t = 1 .. n + 1 /\ t[n + 1] = x
      /\ \A i \in 1 .. n : t[i] = s[i]
  BY <1>2, <1>3
<1>5. \A i \in 1 .. n + 1 : i \in 1 .. n \/ i = n + 1
  BY <1>2
<1>6. n + 1 \in 1 .. n + 1 /\ n + 1 \notin 1 .. n /\ \A i \in 1 .. n : i \in 1 .. n + 1
  BY <1>2
<1>7. Range(t) = Range(s) \cup {x}
  <2>1. ASSUME NEW y \in Range(t) PROVE y \in Range(s) \cup {x}
    BY <1>2, <1>4, <1>5 DEF Range
  <2>2. ASSUME NEW y \in Range(s) \cup {x} PROVE y \in Range(t)
    BY <1>2, <1>4, <1>6 DEF Range
  <2> QED
    BY <2>1, <2>2
<1>8. ASSUME IsInjective(s), x \notin Range(s) PROVE IsInjective(t)
  <2>1. ASSUME NEW a \in 1 .. n + 1, NEW b \in 1 .. n + 1, t[a] = t[b] PROVE a = b
    <3>1. \A i \in 1 .. n : s[i] # x
      BY <1>2, <1>8 DEF Range
    <3>2. CASE a \in 1 .. n /\ b \in 1 .. n
      BY <1>2, <1>4, <1>8, <2>1, <3>2 DEF IsInjective
    <3> QED
      BY <1>4, <1>5, <2>1, <3>1, <3>2
  <2> QED
    BY <1>4, <2>1 DEF IsInjective
<1> QED
  BY <1>1, <1>3, <1>7, <1>8

\* Concatenation.
LEMMA ConcatFacts ==
  ASSUME NEW S, NEW s \in Seq(S), NEW t \in Seq(S)
  PROVE  /\ s \o t \in Seq(S)
         /\ Range(s \o t) = Range(s) \cup Range(t)
         /\ IsInjective(s) /\ IsInjective(t) /\ Range(s) \cap Range(t) = {} => IsInjective(s \o t)
<1>1. s \o t \in Seq(S)
  OBVIOUS
<1>2. PICK n \in Nat : n = Len(s) /\ DOMAIN s = 1 .. n
  OBVIOUS
<1>3. PICK m \in Nat : m = Len(t) /\ DOMAIN t = 1 .. m
  OBVIOUS
<1>4. PICK u : u = s \o t
  OBVIOUS
<1>5. /\ DOMAIN u = 1 .. n + m
      /\ \A i \in 1 .. n : u[i] = s[i]
      /\ \A i \in 1 .. n + m : i \notin 1 .. n => u[i] = t[i - n]
  <2>1. DOMAIN u = 1 .. n + m
    BY <1>2, <1>3, <1>4
  <2>2. \A i \in 1 .. n : u[i] = s[i]
    BY <1>2, <1>3, <1>4
  <2>3. ASSUME NEW i \in 1 .. n + m, i \notin 1 .. n PROVE u[i] = t[i - n]
    <3>1. i \in Nat /\ i > n /\ i <= n + m
      BY <2>3
    <3>2. i \in 1 .. Len(s) + Len(t) /\ ~(i <= Len(s)) /\ i - Len(s) = i - n
      BY <1>2, <1>3, <3>1
    <3>3. (s \o t)[i] = t[i - Len(s)]
      BY <3>1, <3>2, <1>2, <1>3
    <3> QED
      BY <1>4, <3>2, <3>3
  <2> QED
    BY <2>1, <2>2, <2>3
<1>6. /\ \A i \in 1 .. n : i \in 1 .. n + m
      /\ \A i \in 1 .. m : i + n \in 1 .. n + m /\ i + n \notin 1 .. n /\ (i + n) - n = i
      /\ \A i \in 1 .. n + m : i \notin 1 .. n => i - n \in 1 .. m
      /\ \A i, k \in 1 .. n + m : i - n = k - n => i = k
  OBVIOUS
<1>7. Range(u) = Range(s) \cup Range(t)
  <2>1. ASSUME NEW i \in 1 .. n + m PROVE u[i] \in Range(s) \cup Range(t)
    <3>1. CASE i \in 1 .. n
      BY <1>2, <1>5, <3>1 DEF Range
    <3>2. CASE i \notin 1 .. n
      <4>1. PICK k \in 1 .. m : k = i - n
        BY <1>6, <3>2
      <4>2. u[i] = t[k]
        BY <1>5, <3>2, <4>1
      <4> QED
        BY <1>3, <4>2 DEF Range
    <3> QED
      BY <3>1, <3>2
  <2>2. ASSUME NEW i \in 1 .. n PROVE s[i] \in Range(u)
    BY <1>5, <1>6 DEF Range
  <2>3. ASSUME NEW i \in 1 .. m PROVE t[i] \in Range(u)
    <3>1. i + n \in DOMAIN u /\ u[i + n] = t[i]
      BY <1>5, <1>6
    <3> QED
      BY <3>1 DEF Range
  <2>4. ASSUME NEW x \in Range(u) PROVE x \in Range(s) \cup Range(t)
    BY <1>5, <2>1 DEF Range
  <2>5. ASSUME NEW x \in Range(s) PROVE x \in Range(u)
    BY <1>2, <2>2 DEF Range
  <2>6. ASSUME NEW x \in Range(t) PROVE x \in Range(u)
    BY <1>3, <2>3 DEF Range
  <2> QED
    BY <2>4, <2>5, <2>6
<1>8. ASSUME IsInjective(s), IsInjective(t), Range(s) \cap Range(t) = {} PROVE IsInjective(u)
  <2>1. ASSUME NEW a \in 1 .. n + m, NEW b \in 1 .. n + m, u[a] = u[b] PROVE a = b
    <3>1. \A i \in 1 .. n, k \in 1 .. m : s[i] # t[k]
      BY <1>2, <1>3, <1>8 DEF Range
    <3>2. CASE a \in 1 .. n /\ b \in 1 .. n
      BY <1>2, <1>5, <1>8, <2>1, <3>2 DEF IsInjective
    <3>3. CASE a \notin 1 .. n /\ b \notin 1 .. n
      <4>1. a - n \in 1 .. m /\ b - n \in 1 .. m /\ t[a - n] = t[b - n]
        BY <1>5, <1>6, <2>1, <3>3
      <4>2. a - n = b - n
        BY <1>3, <1>8, <4>1 DEF IsInjective
      <4> QED
        BY <1>6, <4>2
    <3> QED
      BY <1>5, <1>6, <2>1, <3>1, <3>2, <3>3
  <2> QED
    BY <1>5, <2>1 DEF IsInjective
<1> QED
  BY <1>1, <1>4, <1>7, <1>8

\* Reversing.
LEMMA ReverseFacts ==
  ASSUME NEW S, NEW s \in Seq(S)
  PROVE  /\ Reverse(s) \in Seq(S)
         /\ Range(Reverse(s)) = Range(s)
         /\ IsInjective(s) => IsInjective(Reverse(s))
<1>1. PICK n \in Nat : n = Len(s) /\ DOMAIN s = 1 .. n
  OBVIOUS
<1>2. PICK r : r = Reverse(s)
  OBVIOUS
<1>3. r = [i \in 1 .. n |-> s[(n - i) + 1]]
  BY <1>1, <1>2 DEF Reverse
<1>4. /\ \A i \in 1 .. n : (n - i) + 1 \in 1 .. n /\ (n - ((n - i) + 1)) + 1 = i
      /\ \A i, k \in 1 .. n : (n - i) + 1 = (n - k) + 1 => i = k
  OBVIOUS
<1>5. DOMAIN r = 1 .. n /\ \A i \in 1 .. n : r[i] = s[(n - i) + 1]
  BY <1>3
<1>6. r \in Seq(S)
  <2>1. \A i \in 1 .. n : s[(n - i) + 1] \in S
    BY <1>1, <1>4
  <2> QED
    <3>1. r \in [1 .. n -> S]
      BY <1>3, <2>1
    <3> QED
      BY <3>1
<1>7. Range(r) = Range(s)
  <2>1. ASSUME NEW i \in 1 .. n PROVE r[i] \in Range(s)
    <3>1. PICK k \in 1 .. n : k = (n - i) + 1
      BY <1>4
    <3>2. r[i] = s[k]
      BY <1>5, <3>1
    <3> QED
      BY <1>1, <3>2 DEF Range
  <2>2. ASSUME NEW i \in 1 .. n PROVE s[i] \in Range(r)
    <3>1. PICK k \in 1 .. n : k = (n - i) + 1 /\ (n - k) + 1 = i
      BY <1>4
    <3>2. k \in DOMAIN r /\ r[k] = s[i]
      BY <1>5, <3>1
    <3> QED
      BY <3>2 DEF Range
  <2> QED
    BY <1>1, <1>5, <2>1, <2>2 DEF Range
<1>8. ASSUME IsInjective(s) PROVE IsInjective(r)
  <2>1. ASSUME NEW a \in 1 .. n, NEW b \in 1 .. n, r[a] = r[b] PROVE a = b
    <3>1. PICK x \in 1 .. n : x = (n - a) + 1
      BY <1>4
    <3>2. PICK y \in 1 .. n : y = (n - b) + 1
      BY <1>4
    <3>3. s[x] = s[y]
      BY <1>5, <2>1, <3>1, <3>2
    <3>4. x = y
      BY <1>1, <1>8, <3>3 DEF IsInjective
    <3> QED
      BY <1>4, <3>1, <3>2, <3>4
  <2> QED
    BY <1>5, <2>1 DEF IsInjective
<1> QED
  BY <1>2, <1>6, <1>7, <1>8

\* Cutting off the last k.
LEMMA SplitFacts ==
  ASSUME NEW S, NEW s \in Seq(S), NEW k \in 0 .. Len(s)
  PROVE  /\ ButLast(s, k) \in Seq(S) /\ LastOf(s, k) \in Seq(S)
         /\ Range(s) = Range(ButLast(s, k)) \cup Range(LastOf(s, k))
         /\ IsInjective(s) => /\ IsInjective(ButLast(s, k)) /\ IsInjective(LastOf(s, k))
                              /\ Range(ButLast(s, k)) \cap Range(LastOf(s, k)) = {}
<1>1. PICK n \in Nat : n = Len(s) /\ DOMAIN s = 1 .. n
  OBVIOUS
<1>2. k \in Nat /\ k <= n
  BY <1>1
<1>3. PICK p : p = ButLast(s, k)
  OBVIOUS
<1>4. PICK q : q = LastOf(s, k)
  OBVIOUS
<1>5. PICK d \in Nat : d = n - k
  BY <1>2
<1>6. d + k = n
  BY <1>2, <1>5
<1>7. p = SubSeq(s, 1, d) /\ q = SubSeq(s, d + 1, n)
  BY <1>1, <1>3, <1>4, <1>5 DEF ButLast, LastOf
<1>8. /\ p \in Seq(S) /\ DOMAIN p = 1 .. d /\ \A i \in 1 .. d : p[i] = s[i]
  BY <1>1, <1>6, <1>7
<1>9. /\ q \in Seq(S) /\ DOMAIN q = 1 .. k /\ \A i \in 1 .. k : q[i] = s[d + i]
  <2>1. q \in Seq(S)
    BY <1>1, <1>6, <1>7
  <2>2. Len(q) = k
    BY <1>1, <1>6, <1>7
  <2>3. DOMAIN q = 1 .. k
    BY <2>1, <2>2
  <2>4. \A i \in 1 .. k : q[i] = s[d + i]
    BY <1>1, <1>6, <1>7
  <2> QED
    BY <2>1, <2>3, <2>4
<1>10. /\ \A i \in 1 .. d : i \in 1 .. n
       /\ \A i \in 1 .. k : d + i \in 1 .. n /\ d + i \notin 1 .. d
       /\ \A i \in 1 .. n : i \notin 1 .. d => i - d \in 1 .. k /\ d + (i - d) = i
       /\ \A i, h \in 1 .. k : d + i = d + h => i = h
  BY <1>2, <1>6
<1>11. Range(s) = Range(p) \cup Range(q)
  <2>1. ASSUME NEW i \in 1 .. n PROVE s[i] \in Range(p) \cup Range(q)
    <3>1. CASE i \in 1 .. d
      BY <1>8, <3>1 DEF Range
    <3>2. CASE i \notin 1 .. d
      <4>1. i - d \in DOMAIN q /\ q[i - d] = s[i]
        BY <1>9, <1>10, <3>2
      <4> QED
        BY <4>1 DEF Range
    <3> QED
      BY <3>1, <3>2
  <2>2. ASSUME NEW i \in 1 .. d PROVE p[i] \in Range(s)
    BY <1>1, <1>8, <1>10 DEF Range
  <2>3. ASSUME NEW i \in 1 .. k PROVE q[i] \in Range(s)
    BY <1>1, <1>9, <1>10 DEF Range
  <2> QED
    BY <1>1, <1>8, <1>9, <2>1, <2>2, <2>3 DEF Range
<1>12. ASSUME IsInjective(s)
       PROVE  IsInjective(p) /\ IsInjective(q) /\ Range(p) \cap Range(q) = {}
  <2>1. IsInjective(p)
    BY <1>1, <1>8, <1>10, <1>12 DEF IsInjective
  <2>2. IsInjective(q)
    <3>1. ASSUME NEW a \in 1 .. k, NEW b \in 1 .. k, q[a] = q[b] PROVE a = b
      <4>1. d + a = d + b
        BY <1>1, <1>9, <1>10, <1>12, <3>1 DEF IsInjective
      <4> QED
        BY <1>10, <4>1
    <3> QED
      BY <1>9, <3>1 DEF IsInjective
  <2>3. ASSUME NEW a \in 1 .. d, NEW b \in 1 .. k PROVE p[a] # q[b]
    <3>1. a \in 1 .. n /\ d + b \in 1 .. n /\ a # d + b
      BY <1>10
    <3> QED
      BY <1>1, <1>8, <1>9, <1>12, <3>1 DEF IsInjective
  <2>4. Range(p) \cap Range(q) = {}
    BY <1>8, <1>9, <2>3 DEF Range
  <2> QED
    BY <2>1, <2>2, <2>4
<1> QED
  BY <1>3, <1>4, <1>8, <1>9, <1>11, <1>12

-----------------------------------------------------------------------------
(* Taking processes out of the list.                                         *)

\* F is the recursive function of Without, as far as m.
StepOfFilter(F, s, D, n) ==
  IF n = 0 THEN <<>> ELSE IF s[n] \in D THEN F[n - 1] ELSE Append(F[n - 1], s[n])
Filters(F, s, D, m) == F = [n \in 0 .. m |-> StepOfFilter(F, s, D, n)]

\* The recursion of Without defines a function.
LEMMA FilterExists ==
  ASSUME NEW s, NEW D, NEW k \in Nat
  PROVE  \E F : Filters(F, s, D, k)
<1> DEFINE P == {m \in Nat : \E F : Filters(F, s, D, m)}
<1>1. 0 \in P
  <2> DEFINE F == [n \in 0 .. 0 |-> <<>>]
  <2>1. Filters(F, s, D, 0)
    BY DEF Filters, StepOfFilter
  <2> QED
    BY <2>1
<1>2. ASSUME NEW m \in P PROVE m + 1 \in P
  <2>1. PICK F : Filters(F, s, D, m)
    OBVIOUS
  <2> DEFINE G == [n \in 0 .. m + 1 |-> IF n <= m THEN F[n] ELSE StepOfFilter(F, s, D, m + 1)]
  <2>2. m \in Nat
    OBVIOUS
  <2>3. F = [n \in 0 .. m |-> StepOfFilter(F, s, D, n)]
    BY <2>1 DEF Filters
  <2>4. ASSUME NEW n \in 0 .. m + 1 PROVE G[n] = StepOfFilter(G, s, D, n)
    <3>1. CASE n = 0
      <4>1. G[n] = F[0] /\ F[0] = StepOfFilter(F, s, D, 0)
        BY <2>2, <2>3, <3>1
      <4> QED
        BY <3>1, <4>1 DEF StepOfFilter
    <3>2. CASE n # 0 /\ n <= m
      <4>1. n - 1 \in 0 .. m /\ n - 1 \in 0 .. m + 1 /\ n - 1 <= m /\ n \in 0 .. m
        BY <2>2, <3>2
      <4>2. G[n - 1] = F[n - 1]
        BY <4>1
      <4>3. G[n] = F[n]
        BY <3>2
      <4>4. F[n] = StepOfFilter(F, s, D, n)
        BY <2>3, <4>1
      <4> QED
        BY <3>2, <4>2, <4>3, <4>4 DEF StepOfFilter
    <3>3. CASE n = m + 1
      <4>1. n - 1 = m /\ m \in 0 .. m + 1 /\ m <= m /\ ~(n <= m) /\ n # 0
        BY <2>2, <3>3
      <4>2. G[m] = F[m]
        BY <4>1
      <4>3. G[n] = StepOfFilter(F, s, D, m + 1)
        BY <4>1
      <4> QED
        BY <3>3, <4>1, <4>2, <4>3 DEF StepOfFilter
    <3> QED
      BY <2>2, <3>1, <3>2, <3>3
  <2>5. G = [n \in 0 .. m + 1 |-> StepOfFilter(G, s, D, n)]
    BY <2>4
  <2>6. Filters(G, s, D, m + 1)
    BY <2>5 DEF Filters
  <2>7. \E H : Filters(H, s, D, m + 1)
    BY <2>6
  <2> HIDE DEF G
  <2> QED
    BY <2>2, <2>7
<1> HIDE DEF P
<1>3. P \in SUBSET Nat
  BY DEF P
<1>4. P = Nat
  BY <1>1, <1>2, <1>3, Induction
<1> QED
  BY <1>4 DEF P

\* What it computes.
LEMMA WithoutFacts ==
  ASSUME NEW S, NEW s \in Seq(S), NEW D
  PROVE  /\ Without(s, D) \in Seq(S)
         /\ Range(Without(s, D)) = Range(s) \ D
         /\ IsInjective(s) => IsInjective(Without(s, D))
<1>1. PICK k \in Nat : k = Len(s) /\ DOMAIN s = 1 .. k
  OBVIOUS
<1>2. PICK F : Filters(F, s, D, k) /\ Without(s, D) = F[k]
  <2>1. PICK F0 : Filters(F0, s, D, k)
    BY FilterExists
  <2> DEFINE G == CHOOSE H : H = [n \in 0 .. Len(s) |->
                   IF n = 0 THEN <<>> ELSE IF s[n] \in D THEN H[n - 1] ELSE Append(H[n - 1], s[n])]
  <2>2. F0 = [n \in 0 .. Len(s) |->
                   IF n = 0 THEN <<>> ELSE IF s[n] \in D THEN F0[n - 1] ELSE Append(F0[n - 1], s[n])]
    BY <1>1, <2>1 DEF Filters, StepOfFilter
  <2>3. G = [n \in 0 .. Len(s) |->
                   IF n = 0 THEN <<>> ELSE IF s[n] \in D THEN G[n - 1] ELSE Append(G[n - 1], s[n])]
    BY <2>2
  <2>4. Without(s, D) = G[Len(s)]
    BY DEF Without
  <2> HIDE DEF G
  <2>5. Filters(G, s, D, k)
    BY <1>1, <2>3 DEF Filters, StepOfFilter
  <2> QED
    BY <1>1, <2>4, <2>5
<1>3. /\ F[0] = <<>>
      /\ \A n \in 1 .. k : F[n] = IF s[n] \in D THEN F[n - 1] ELSE Append(F[n - 1], s[n])
  <2>1. F = [n \in 0 .. k |-> StepOfFilter(F, s, D, n)]
    BY <1>2 DEF Filters
  <2>2. \A n \in 0 .. k : F[n] = StepOfFilter(F, s, D, n)
    BY <2>1
  <2>3. 0 \in 0 .. k /\ \A n \in 1 .. k : n \in 0 .. k /\ n # 0
    OBVIOUS
  <2> QED
    BY <2>2, <2>3 DEF StepOfFilter
<1> DEFINE First(m) == {s[i] : i \in 1 .. m}
           Good(m) == /\ F[m] \in Seq(S) /\ Range(F[m]) = First(m) \ D
                      /\ IsInjective(s) => IsInjective(F[m])
           P == {m \in Nat : m <= k => Good(m)}
<1>4. 0 \in P
  <2>1. First(0) = {}
    OBVIOUS
  <2>2. <<>> \in Seq(S) /\ DOMAIN <<>> = {}
    OBVIOUS
  <2>3. Range(<<>>) = {} /\ IsInjective(<<>>)
    BY <2>2 DEF Range, IsInjective
  <2> HIDE DEF First
  <2>4. Good(0)
    BY <1>3, <2>1, <2>2, <2>3
  <2> HIDE DEF Good
  <2> QED
    BY <2>4
<1>5. ASSUME NEW m \in P PROVE m + 1 \in P
  <2>1. m \in Nat /\ (m <= k => Good(m))
    OBVIOUS
  <2>2. SUFFICES ASSUME m + 1 <= k PROVE Good(m + 1)
    BY <2>1
  <2>3. Good(m)
    BY <2>1, <2>2
  <2>4. m + 1 \in 1 .. k /\ (m + 1) - 1 = m
    BY <2>1, <2>2
  <2>5. PICK x : x = s[m + 1]
    OBVIOUS
  <2>6. F[m + 1] = IF x \in D THEN F[m] ELSE Append(F[m], x)
    BY <1>3, <2>4, <2>5
  <2>7. x \in S
    BY <1>1, <2>4, <2>5
  <2>8. First(m + 1) = First(m) \cup {x}
    <3>1. \A i \in 1 .. m + 1 : i \in 1 .. m \/ i = m + 1
      BY <2>1
    <3>2. \A i \in 1 .. m : i \in 1 .. m + 1
      BY <2>1
    <3>3. m + 1 \in 1 .. m + 1
      BY <2>1
    <3>4. First(m + 1) \subseteq First(m) \cup {x}
      BY <2>5, <3>1
    <3>5. First(m) \cup {x} \subseteq First(m + 1)
      BY <2>5, <3>2, <3>3
    <3> QED
      BY <3>4, <3>5
  <2>9. IsInjective(s) => x \notin First(m)
    <3>1. \A i \in 1 .. m : i \in 1 .. k /\ i # m + 1
      BY <2>1, <2>2
    <3> QED
      BY <1>1, <2>4, <2>5, <3>1 DEF IsInjective
  <2> HIDE DEF First
  <2>10. CASE x \in D
    BY <2>3, <2>6, <2>8, <2>10
  <2>11. CASE x \notin D
    <3>1. /\ Append(F[m], x) \in Seq(S)
          /\ Range(Append(F[m], x)) = Range(F[m]) \cup {x}
          /\ IsInjective(F[m]) /\ x \notin Range(F[m]) => IsInjective(Append(F[m], x))
      BY <2>3, <2>7, AppendFacts
    <3>2. F[m + 1] = Append(F[m], x)
      BY <2>6, <2>11
    <3>3. Range(F[m + 1]) = First(m + 1) \ D
      BY <2>3, <2>8, <2>11, <3>1, <3>2
    <3>4. IsInjective(s) => IsInjective(F[m + 1])
      BY <2>3, <2>9, <3>1, <3>2
    <3> QED
      BY <3>1, <3>2, <3>3, <3>4
  <2> QED
    BY <2>10, <2>11
<1>6. Good(k)
  <2>1. P \in SUBSET Nat
    OBVIOUS
  <2> HIDE DEF P
  <2>2. P = Nat
    BY <1>4, <1>5, <2>1, Induction
  <2>3. k \in P
    BY <2>2
  <2>4. k <= k => Good(k)
    <3> HIDE DEF Good
    <3> QED
      BY <2>3 DEF P
  <2> HIDE DEF Good
  <2> QED
    BY <2>4
<1>7. First(k) = Range(s)
  BY <1>1 DEF Range
<1> QED
  BY <1>2, <1>6, <1>7

-----------------------------------------------------------------------------
(* The inductive invariant.                                                  *)

Queued == Range(pending) \cup Range(running)

\* Each process is in one list, once; the futures of those in the lists are open, and
\* an exit code comes with the reason "OK".
RunnerInv ==
  /\ IsInjective(pending) /\ IsInjective(running) /\ Range(pending) \cap Range(running) = {}
  /\ \A j \in Jobs : proc[j] = "alive" => j \in Range(running)
  /\ \A j \in Jobs : future[j] = "waiting" => j \in Queued
  /\ \A j \in Queued : future[j] \in {"waiting", "cancelled"}
  /\ \A j \in Jobs : code[j] # NoCode /\ future[j] \in Reasons => future[j] = "OK"

\* What a step of the runner or of the operating system leaves alone: a result that has
\* been handed out stays, with its exit code, and no future is cancelled.
ResultsKept ==
  \A j \in Jobs :
    /\ future[j] \in Reasons => future'[j] = future[j] /\ code'[j] = code[j]
    /\ future'[j] = "waiting" => future[j] = "waiting"
    /\ future'[j] = "cancelled" => future[j] = "cancelled"

\* The lists hold jobs.
LEMMA ListsTyped ==
  ASSUME PRTypeOK
  PROVE  Range(pending) \in SUBSET Jobs /\ Range(running) \in SUBSET Jobs /\ Queued \in SUBSET Jobs
<1>1. pending \in Seq(Jobs) /\ running \in Seq(Jobs)
  BY DEF PRTypeOK
<1>2. \A i \in DOMAIN pending : pending[i] \in Jobs
  BY <1>1
<1>3. \A i \in DOMAIN running : running[i] \in Jobs
  BY <1>1
<1> QED
  BY <1>2, <1>3 DEF Range, Queued

\* A process grows.
LEMMA GrowKeeps ==
  ASSUME PRTypeOK, RunnerInv, NEW j \in Jobs, Grow(j)
  PROVE  PRTypeOK' /\ RunnerInv' /\ ResultsKept
<1>1. rss' = [rss EXCEPT ![j] = Peak[j]] /\ Peak[j] \in Nat
  BY RunnerAssumption DEF Grow
<1>2. rss \in [Jobs -> Nat]
  BY DEF PRTypeOK
<1>3. rss' \in [Jobs -> Nat]
  BY <1>1, <1>2
<1>4. UNCHANGED <<pending, running, kill_, expected, max_memory, proc, overdue, code, future>>
  BY DEF Grow
<1>5. PRTypeOK'
  BY <1>3, <1>4 DEF PRTypeOK
<1>6. RunnerInv' /\ ResultsKept
  BY <1>4 DEF RunnerInv, Queued, ResultsKept
<1> QED
  BY <1>5, <1>6

\* A process passes its timeout.
LEMMA LateKeeps ==
  ASSUME PRTypeOK, RunnerInv, NEW j \in Jobs, Late(j)
  PROVE  PRTypeOK' /\ RunnerInv' /\ ResultsKept
<1>1. /\ overdue' = overdue \cup {j}
      /\ UNCHANGED <<pending, running, kill_, expected, max_memory, proc, rss, code, future>>
  BY DEF Late
<1>2. PRTypeOK'
  BY <1>1 DEF PRTypeOK
<1>3. RunnerInv' /\ ResultsKept
  BY <1>1 DEF RunnerInv, Queued, ResultsKept
<1> QED
  BY <1>2, <1>3

\* A process exits: it was running, so its future is still open.
LEMMA ExitKeeps ==
  ASSUME PRTypeOK, RunnerInv, NEW j \in Jobs, Exit(j)
  PROVE  PRTypeOK' /\ RunnerInv' /\ ResultsKept
<1>1. /\ proc[j] = "alive"
      /\ proc' = [proc EXCEPT ![j] = "exited"] /\ rss' = [rss EXCEPT ![j] = 0]
      /\ UNCHANGED <<pending, running, kill_, expected, max_memory, overdue, future>>
  BY DEF Exit
<1>2. PICK c \in Codes[j] : code' = [code EXCEPT ![j] = c]
  BY DEF Exit
<1>3. c \in Nat
  BY <1>2, RunnerAssumption
<1>4. /\ proc \in [Jobs -> {"none", "alive", "exited", "killed"}] /\ rss \in [Jobs -> Nat]
      /\ code \in [Jobs -> Nat \cup {NoCode}]
  BY DEF PRTypeOK
<1>5. /\ proc' \in [Jobs -> {"none", "alive", "exited", "killed"}] /\ rss' \in [Jobs -> Nat]
      /\ code' \in [Jobs -> Nat \cup {NoCode}]
  BY <1>1, <1>2, <1>3, <1>4
<1>6. PRTypeOK'
  BY <1>1, <1>5 DEF PRTypeOK
<1>7. /\ \A i \in Jobs : i # j => proc'[i] = proc[i] /\ code'[i] = code[i]
      /\ proc'[j] # "alive"
  BY <1>1, <1>2, <1>4
<1>8. future[j] \in {"waiting", "cancelled"} /\ future[j] \notin Reasons
  BY <1>1 DEF RunnerInv, Queued, Reasons
<1>9. Queued' = Queued
  BY <1>1 DEF Queued
<1>10. RunnerInv'
  BY <1>1, <1>7, <1>8, <1>9 DEF RunnerInv
<1>11. ResultsKept
  BY <1>1, <1>7, <1>8 DEF ResultsKept
<1> QED
  BY <1>6, <1>10, <1>11

\* shell(): jobs that are not in a list get a new Process each.
LEMMA ShellKeeps ==
  ASSUME PRTypeOK, RunnerInv, NEW js \in Seq(Jobs), Shell(js),
         IsInjective(js), Range(js) \cap Queued = {}
  PROVE  /\ PRTypeOK' /\ RunnerInv'
         /\ \A j \in Range(js) : future'[j] = "waiting"
         /\ \A j \in Jobs \ Range(js) : future'[j] = future[j] /\ code'[j] = code[j]
<1>1. /\ pending' = Reverse(js) \o pending
      /\ future' = Fresh(future, js, [j \in Jobs |-> "waiting"])
      /\ kill_' = Fresh(kill_, js, [j \in Jobs |-> ""])
      /\ expected' = Fresh(expected, js, Est)
      /\ max_memory' = Fresh(max_memory, js, [j \in Jobs |-> 0])
      /\ proc' = Fresh(proc, js, [j \in Jobs |-> "none"])
      /\ code' = Fresh(code, js, [j \in Jobs |-> NoCode])
      /\ UNCHANGED <<running, rss, overdue>>
  BY DEF Shell
<1>2. /\ pending \in Seq(Jobs) /\ running \in Seq(Jobs)
      /\ kill_ \in [Jobs -> {"", "kill", "restart"}]
      /\ expected \in [Jobs -> Nat] /\ max_memory \in [Jobs -> Nat]
      /\ proc \in [Jobs -> {"none", "alive", "exited", "killed"}]
      /\ code \in [Jobs -> Nat \cup {NoCode}]
      /\ future \in [Jobs -> {"none", "waiting", "cancelled"} \cup Reasons]
  BY DEF PRTypeOK
<1>3. /\ Reverse(js) \in Seq(Jobs) /\ Range(Reverse(js)) = Range(js) /\ IsInjective(Reverse(js))
  BY ReverseFacts
<1>4. /\ pending' \in Seq(Jobs) /\ Range(pending') = Range(js) \cup Range(pending)
      /\ IsInjective(pending')
  <2>1. IsInjective(pending) /\ Range(Reverse(js)) \cap Range(pending) = {}
    BY <1>3 DEF RunnerInv, Queued
  <2>2. PICK r \in Seq(Jobs) : r = Reverse(js)
    BY <1>3
  <2>3. /\ r \o pending \in Seq(Jobs) /\ Range(r \o pending) = Range(r) \cup Range(pending)
        /\ IsInjective(r) /\ IsInjective(pending) /\ Range(r) \cap Range(pending) = {}
             => IsInjective(r \o pending)
    <3>1. pending \in Seq(Jobs)
      BY <1>2
    <3> QED
      BY <3>1, ConcatFacts
  <2> QED
    BY <1>1, <1>3, <2>1, <2>2, <2>3
<1>5. kill_' \in [Jobs -> {"", "kill", "restart"}]
  BY <1>1, <1>2 DEF Fresh
<1>6. expected' \in [Jobs -> Nat] /\ max_memory' \in [Jobs -> Nat]
  BY <1>1, <1>2, RunnerAssumption DEF Fresh
<1>7. /\ proc' \in [Jobs -> {"none", "alive", "exited", "killed"}]
      /\ \A j \in Jobs : j \in Range(js) => proc'[j] = "none"
      /\ \A j \in Jobs : j \notin Range(js) => proc'[j] = proc[j]
  BY <1>1, <1>2 DEF Fresh
<1>8. /\ code' \in [Jobs -> Nat \cup {NoCode}]
      /\ \A j \in Jobs : j \in Range(js) => code'[j] = NoCode
      /\ \A j \in Jobs : j \notin Range(js) => code'[j] = code[j]
  BY <1>1, <1>2 DEF Fresh
<1>9. /\ future' \in [Jobs -> {"none", "waiting", "cancelled"} \cup Reasons]
      /\ \A j \in Jobs : j \in Range(js) => future'[j] = "waiting"
      /\ \A j \in Jobs : j \notin Range(js) => future'[j] = future[j]
  BY <1>1, <1>2 DEF Fresh
<1>10. PRTypeOK'
  BY <1>1, <1>4, <1>5, <1>6, <1>7, <1>8, <1>9 DEF PRTypeOK
<1>11. Range(js) \in SUBSET Jobs
  BY DEF Range
<1>12. Queued' = Queued \cup Range(js) /\ Range(running') = Range(running)
  BY <1>1, <1>4 DEF Queued
<1>13. Range(pending') \cap Range(running') = {}
  BY <1>4, <1>12 DEF RunnerInv, Queued
<1>14. \A j \in Jobs : proc'[j] = "alive" => j \in Range(running)'
  BY <1>7, <1>12 DEF RunnerInv
<1>15. \A j \in Jobs : future'[j] = "waiting" => j \in Queued'
  BY <1>9, <1>12 DEF RunnerInv
<1>16. Queued \in SUBSET Jobs
  BY ListsTyped
<1>17. \A j \in Queued' : future'[j] \in {"waiting", "cancelled"}
  <2>1. ASSUME NEW j \in Queued' PROVE future'[j] \in {"waiting", "cancelled"}
    <3>1. CASE j \in Range(js)
      BY <1>9, <1>11, <3>1
    <3>2. CASE j \notin Range(js)
      BY <1>9, <1>12, <1>16, <3>2 DEF RunnerInv
    <3> QED
      BY <3>1, <3>2
  <2> QED
    BY <2>1
<1>18. \A j \in Jobs : code'[j] # NoCode /\ future'[j] \in Reasons => future'[j] = "OK"
  BY <1>8, <1>9 DEF RunnerInv
<1>19. IsInjective(running')
  BY <1>1 DEF RunnerInv
<1>20. RunnerInv'
  BY <1>4, <1>13, <1>14, <1>15, <1>17, <1>18, <1>19 DEF RunnerInv
<1> QED
  BY <1>8, <1>9, <1>10, <1>11, <1>20

\* Cancelling futures.
LEMMA CancelKeeps ==
  ASSUME PRTypeOK, RunnerInv, NEW js, Cancel(js)
  PROVE  /\ PRTypeOK' /\ RunnerInv'
         /\ \A j \in Jobs : /\ code'[j] = code[j]
                            /\ future'[j] = IF j \in js /\ future[j] = "waiting" THEN "cancelled" ELSE future[j]
<1>1. /\ kill_' = [j \in Jobs |-> IF j \in js THEN "kill" ELSE kill_[j]]
      /\ future' = [j \in Jobs |-> IF j \in js /\ future[j] = "waiting" THEN "cancelled" ELSE future[j]]
      /\ UNCHANGED <<pending, running, expected, max_memory, proc, rss, overdue, code>>
  BY DEF Cancel
<1>2. /\ kill_ \in [Jobs -> {"", "kill", "restart"}]
      /\ future \in [Jobs -> {"none", "waiting", "cancelled"} \cup Reasons]
  BY DEF PRTypeOK
<1>3. /\ kill_' \in [Jobs -> {"", "kill", "restart"}]
      /\ future' \in [Jobs -> {"none", "waiting", "cancelled"} \cup Reasons]
  BY <1>1, <1>2
<1>4. PRTypeOK'
  BY <1>1, <1>3 DEF PRTypeOK
<1>5. \A j \in Jobs : future'[j] = IF j \in js /\ future[j] = "waiting" THEN "cancelled" ELSE future[j]
  BY <1>1
<1>6. Queued' = Queued /\ Queued \in SUBSET Jobs
  BY <1>1, ListsTyped DEF Queued
<1>7. \A j \in Jobs : future'[j] = "waiting" => future[j] = "waiting"
  BY <1>5
<1>8. \A j \in Queued : future'[j] \in {"waiting", "cancelled"}
  BY <1>5, <1>6 DEF RunnerInv
<1>9. "cancelled" \notin Reasons
  BY DEF Reasons
<1>10. \A j \in Jobs : future'[j] \in Reasons => future'[j] = future[j]
  BY <1>5, <1>9
<1>11. RunnerInv'
  BY <1>1, <1>6, <1>7, <1>8, <1>10 DEF RunnerInv
<1> QED
  BY <1>1, <1>4, <1>5, <1>11

\* How many processes are killed, and how many started.
LEMMA Counts ==
  ASSUME PRTypeOK, NEW queue \in Seq(Jobs), NEW alive, NEW free, NEW need
  PROVE  KillCount \in 0 .. Len(running) /\ StartCount(queue, alive, free, need) \in 0 .. Len(queue)
<1>1. PICK n \in Nat : n = Len(running) /\ (running = <<>> \/ n > 0)
  <2>1. running \in Seq(Jobs)
    BY DEF PRTypeOK
  <2> QED
    BY <2>1
<1>2. KillCount \in 0 .. n
  <2>1. CASE no_kill \/ running = <<>>
    BY <2>1 DEF KillCount
  <2>2. CASE ~(no_kill \/ running = <<>>)
    <3> DEFINE K == {k \in 0 .. n - 1 : FreeAfterKilling(k) >= GLOBAL_MEMORY_BUFFER \/ k = n - 1}
    <3>1. n > 0
      BY <1>1, <2>2
    <3>2. n - 1 \in K
      BY <3>1
    <3>3. K \in SUBSET Nat
      OBVIOUS
    <3>4. KillCount = Min(K)
      BY <1>1, <2>2 DEF KillCount
    <3>5. Min(K) \in K
      <4> HIDE DEF K
      <4> QED
        BY <3>2, <3>3, MinIn
    <3> QED
      BY <3>4, <3>5
  <2> QED
    BY <2>1, <2>2
<1>3. PICK m \in Nat : m = Len(queue)
  OBVIOUS
<1>4. StartCount(queue, alive, free, need) \in 0 .. m
  <2> DEFINE K == {k \in 0 .. m : k = m \/ ~CanStart(k + 1, queue, alive, free, need)}
  <2>1. m \in K /\ K \in SUBSET Nat
    OBVIOUS
  <2>2. StartCount(queue, alive, free, need) = Min(K)
    BY <1>3 DEF StartCount
  <2>3. Min(K) \in K
    <3> HIDE DEF K
    <3> QED
      BY <2>1, MinIn
  <2> QED
    BY <2>2, <2>3
<1> QED
  BY <1>1, <1>2, <1>3, <1>4

\* What a poll does to the lists: every process stays in one of them, once, but for those
\* that are dropped (live are the processes that are polled).
ListsKept(killed, queue, starts, live, dropped) ==
  /\ Without(live, dropped) \in Seq(Jobs) /\ ButLast(queue, starts) \in Seq(Jobs)
  /\ Range(Without(live, dropped)) = Range(live) \ dropped
  /\ Range(live) \cup Range(ButLast(queue, starts)) = Queued
  /\ Range(live) \cap Range(ButLast(queue, starts)) = {}
  /\ Range(LastOf(queue, starts)) \in SUBSET Range(live)
  /\ Range(live) = (Range(running) \ Range(LastOf(running, killed))) \cup Range(LastOf(queue, starts))
  /\ IsInjective(Without(live, dropped)) /\ IsInjective(ButLast(queue, starts))

\* The lists are cut and joined so that nothing is lost or doubled.
LEMMA PollLists ==
  ASSUME PRTypeOK, RunnerInv, NEW killed \in 0 .. Len(running), NEW queue,
         queue = Requeued(LastOf(running, killed)), NEW starts \in 0 .. Len(queue),
         NEW live, live = ButLast(running, killed) \o Reverse(LastOf(queue, starts)), NEW dropped
  PROVE  ListsKept(killed, queue, starts, live, dropped)
<1>1. pending \in Seq(Jobs) /\ running \in Seq(Jobs)
  BY DEF PRTypeOK
<1>2. PICK kept \in Seq(Jobs) : kept = ButLast(running, killed)
  BY <1>1, SplitFacts
<1>3. PICK last \in Seq(Jobs) : last = LastOf(running, killed)
  BY <1>1, SplitFacts
<1>4. /\ Range(running) = Range(kept) \cup Range(last)
      /\ IsInjective(kept) /\ IsInjective(last) /\ Range(kept) \cap Range(last) = {}
  BY <1>1, <1>2, <1>3, SplitFacts DEF RunnerInv
<1>5. PICK back \in Seq(Jobs) : back = Reverse(last) /\ Range(back) = Range(last) /\ IsInjective(back)
  BY <1>4, ReverseFacts
<1>6. queue = pending \o back
  BY <1>3, <1>5 DEF Requeued
<1>7. queue \in Seq(Jobs) /\ Range(queue) = Range(pending) \cup Range(last) /\ IsInjective(queue)
  <2>1. IsInjective(pending) /\ Range(pending) \cap Range(back) = {}
    BY <1>4, <1>5 DEF RunnerInv
  <2>2. /\ pending \o back \in Seq(Jobs) /\ Range(pending \o back) = Range(pending) \cup Range(back)
        /\ IsInjective(pending) /\ IsInjective(back) /\ Range(pending) \cap Range(back) = {}
             => IsInjective(pending \o back)
    BY <1>1, ConcatFacts
  <2> QED
    BY <1>5, <1>6, <2>1, <2>2
<1>8. PICK rest \in Seq(Jobs) : rest = ButLast(queue, starts)
  BY <1>7, SplitFacts
<1>9. PICK started \in Seq(Jobs) : started = LastOf(queue, starts)
  BY <1>7, SplitFacts
<1>10. /\ Range(queue) = Range(rest) \cup Range(started)
       /\ IsInjective(rest) /\ IsInjective(started) /\ Range(rest) \cap Range(started) = {}
  BY <1>7, <1>8, <1>9, SplitFacts
<1>11. PICK new \in Seq(Jobs) : new = Reverse(started) /\ Range(new) = Range(started) /\ IsInjective(new)
  BY <1>10, ReverseFacts
<1>12. live = kept \o new
  BY <1>2, <1>9, <1>11
<1>13. Range(kept) \cap Range(new) = {} /\ Range(kept) \cap Range(rest) = {}
  BY <1>4, <1>7, <1>10, <1>11 DEF RunnerInv
<1>14. live \in Seq(Jobs) /\ Range(live) = Range(kept) \cup Range(new) /\ IsInjective(live)
  <2>1. /\ kept \o new \in Seq(Jobs) /\ Range(kept \o new) = Range(kept) \cup Range(new)
        /\ IsInjective(kept) /\ IsInjective(new) /\ Range(kept) \cap Range(new) = {}
             => IsInjective(kept \o new)
    BY ConcatFacts
  <2> QED
    BY <1>4, <1>11, <1>12, <1>13, <2>1
<1>15. /\ Without(live, dropped) \in Seq(Jobs)
       /\ Range(Without(live, dropped)) = Range(live) \ dropped
       /\ IsInjective(Without(live, dropped))
  <2>1. live \in Seq(Jobs)
    BY <1>14
  <2>2. /\ Without(live, dropped) \in Seq(Jobs)
        /\ Range(Without(live, dropped)) = Range(live) \ dropped
        /\ IsInjective(live) => IsInjective(Without(live, dropped))
    BY <2>1, WithoutFacts
  <2> QED
    BY <1>14, <2>2
<1>16. Range(live) \cup Range(rest) = Queued
  BY <1>4, <1>7, <1>10, <1>11, <1>14 DEF Queued
<1>17. Range(live) \cap Range(rest) = {}
  BY <1>10, <1>11, <1>13, <1>14
<1>18. Range(live) = (Range(running) \ Range(last)) \cup Range(started)
  BY <1>4, <1>11, <1>14
<1> QED
  BY <1>3, <1>8, <1>9, <1>10, <1>15, <1>16, <1>17, <1>18 DEF ListsKept

\* One poll.
LEMMA PollKeeps ==
  ASSUME PRTypeOK, RunnerInv, Poll
  PROVE  PRTypeOK' /\ RunnerInv' /\ ResultsKept
<1>1. PICK killed, queue, V, need, starts :
        /\ killed = KillCount /\ queue = Requeued(LastOf(running, killed)) /\ V = Range(LastOf(running, killed))
        /\ need = [j \in Jobs |-> IF j \in V THEN PMax(expected[j], Sampled(j)) ELSE expected[j]]
        /\ starts = StartCount(queue, Len(running) - killed, FreeAfterKilling(killed), need)
        /\ PollWith(killed, queue, V, need, starts)
  BY DEF Poll
<1> DEFINE live == ButLast(running, killed) \o Reverse(LastOf(queue, starts))
           S == Range(LastOf(queue, starts))
           request == [j \in Jobs |-> IF j \in V THEN "" ELSE kill_[j]]
           fate(j) == Fate(IF j \in S THEN "alive" ELSE proc[j], request[j], j \in overdue \ S)
           dropped == {j \in Range(live) : fate(j) # "stay"}
           dead == {j \in dropped : fate(j) # "OK"} \cup (V \ S)
<1>2. /\ running' = Without(live, dropped)
      /\ pending' = ButLast(queue, starts)
      /\ expected' = [j \in Jobs |-> IF j \in dropped THEN Est[j] ELSE need[j]]
      /\ kill_' = [j \in Jobs |-> IF j \in dropped THEN "" ELSE request[j]]
      /\ max_memory' = [j \in Jobs |-> IF j \in S \cup dropped THEN 0
                                       ELSE IF j \in Range(running) THEN Sampled(j) ELSE max_memory[j]]
      /\ proc' = [j \in Jobs |-> IF j \in dead THEN "killed" ELSE IF j \in S THEN "alive" ELSE proc[j]]
      /\ rss' = [j \in Jobs |-> IF j \in dead \cup S THEN 0 ELSE rss[j]]
      /\ overdue' = overdue \ (S \cup dropped)
      /\ code' = [j \in Jobs |-> IF j \in dead \cup S THEN NoCode ELSE code[j]]
      /\ future' = [j \in Jobs |-> IF j \in dropped /\ future[j] = "waiting" THEN fate(j) ELSE future[j]]
  BY <1>1, Zenon DEF PollWith
<1>3. \A j \in dropped : j \in Range(live) /\ fate(j) # "stay"
  OBVIOUS
<1>4. \A j : fate(j) \in {"OK", "TIMEOUT", "UNINTERESTED", "stay"}
  BY DEF Fate
<1>5. \A j \in dropped : fate(j) = "OK" => j \notin S
  BY DEF Fate
<1>6. \A j \in dropped : j \notin dead => fate(j) = "OK"
  OBVIOUS
<1>7. dead \in SUBSET (dropped \cup V) /\ dropped \in SUBSET Range(live) /\ V \ S \in SUBSET dead
  OBVIOUS
<1>8. /\ Range(LastOf(running, killed)) = V
      /\ Without(live, dropped) \in Seq(Jobs) /\ ButLast(queue, starts) \in Seq(Jobs)
      /\ Range(Without(live, dropped)) = Range(live) \ dropped
      /\ Range(live) \cup Range(ButLast(queue, starts)) = Queued
      /\ Range(live) \cap Range(ButLast(queue, starts)) = {}
      /\ S \in SUBSET Range(live)
      /\ Range(live) = (Range(running) \ V) \cup S
      /\ IsInjective(Without(live, dropped)) /\ IsInjective(ButLast(queue, starts))
  <2>1. running \in Seq(Jobs) /\ pending \in Seq(Jobs)
    BY DEF PRTypeOK
  <2>2. killed \in 0 .. Len(running)
    BY <1>1, <2>1, Counts
  <2>3. LastOf(running, killed) \in Seq(Jobs)
    BY <2>1, <2>2, SplitFacts
  <2>4. queue \in Seq(Jobs)
    <3>1. Reverse(LastOf(running, killed)) \in Seq(Jobs)
      BY <2>3, ReverseFacts
    <3> QED
      BY <1>1, <2>1, <3>1 DEF Requeued
  <2>5. starts \in 0 .. Len(queue)
    BY <1>1, <2>4, Counts
  <2>6. PICK l : l = live
    OBVIOUS
  <2>7. PICK d : d = dropped
    OBVIOUS
  <2>8. l = ButLast(running, killed) \o Reverse(LastOf(queue, starts))
    BY <2>6
  <2>9. queue = Requeued(LastOf(running, killed)) /\ V = Range(LastOf(running, killed))
    BY <1>1
  <2> HIDE DEF live, dropped, S
  <2>10. ListsKept(killed, queue, starts, l, d)
    BY <2>2, <2>5, <2>8, <2>9, PollLists, Zenon
  <2>11. S = Range(LastOf(queue, starts))
    BY DEF S
  <2> QED
    BY <2>6, <2>7, <2>9, <2>10, <2>11, Zenon DEF ListsKept
<1>9. /\ kill_ \in [Jobs -> {"", "kill", "restart"}]
      /\ expected \in [Jobs -> Nat] /\ max_memory \in [Jobs -> Nat] /\ rss \in [Jobs -> Nat]
      /\ proc \in [Jobs -> {"none", "alive", "exited", "killed"}]
      /\ overdue \subseteq Jobs
      /\ code \in [Jobs -> Nat \cup {NoCode}]
      /\ future \in [Jobs -> {"none", "waiting", "cancelled"} \cup Reasons]
      /\ Range(pending) \in SUBSET Jobs /\ Range(running) \in SUBSET Jobs /\ Queued \in SUBSET Jobs
  BY ListsTyped DEF PRTypeOK
<1>10. \A j \in Jobs : request[j] \in {"", "kill", "restart"}
  BY <1>9
<1>11. need \in [Jobs -> Nat]
  <2>1. \A j \in Jobs : Sampled(j) \in Nat
    BY <1>9 DEF Sampled, PMax
  <2>2. \A j \in Jobs : PMax(expected[j], Sampled(j)) \in Nat
    BY <1>9, <2>1 DEF PMax
  <2> QED
    BY <1>1, <1>9, <2>2
<1> HIDE DEF live, S, request, fate, dropped, dead
<1>12. PRTypeOK'
  <2>1. pending' \in Seq(Jobs) /\ running' \in Seq(Jobs)
    BY <1>2, <1>8
  <2>2. kill_' \in [Jobs -> {"", "kill", "restart"}]
    BY <1>2, <1>10
  <2>3. expected' \in [Jobs -> Nat]
    BY <1>2, <1>11, RunnerAssumption
  <2>4. max_memory' \in [Jobs -> Nat]
    <3>1. \A j \in Jobs : Sampled(j) \in Nat
      BY <1>9 DEF Sampled, PMax
    <3> QED
      BY <1>2, <1>9, <3>1
  <2>5. rss' \in [Jobs -> Nat] /\ overdue' \subseteq Jobs
    BY <1>2, <1>9
  <2>6. proc' \in [Jobs -> {"none", "alive", "exited", "killed"}]
    BY <1>2, <1>9
  <2>7. code' \in [Jobs -> Nat \cup {NoCode}]
    BY <1>2, <1>9
  <2>8. future' \in [Jobs -> {"none", "waiting", "cancelled"} \cup Reasons]
    <3>1. \A j \in Jobs : j \in dropped => fate(j) \in Reasons
      BY <1>3, <1>4 DEF Reasons
    <3> QED
      BY <1>2, <1>9, <3>1
  <2> QED
    BY <2>1, <2>2, <2>3, <2>4, <2>5, <2>6, <2>7, <2>8 DEF PRTypeOK
<1>13. \A j \in Jobs :
         /\ proc'[j] = IF j \in dead THEN "killed" ELSE IF j \in S THEN "alive" ELSE proc[j]
         /\ code'[j] = IF j \in dead \cup S THEN NoCode ELSE code[j]
         /\ future'[j] = IF j \in dropped /\ future[j] = "waiting" THEN fate(j) ELSE future[j]
  BY <1>2
<1>14. /\ Range(running') = Range(live) \ dropped
       /\ Range(pending') \cap Range(live) = {} /\ Range(pending') \cup Range(live) = Queued
       /\ IsInjective(pending') /\ IsInjective(running')
  BY <1>2, <1>8
<1>15. Queued' = Queued \ dropped
  BY <1>7, <1>14 DEF Queued
<1>16. ASSUME NEW j \in Jobs, j \in dropped PROVE future'[j] # "waiting" /\ future[j] \in {"waiting", "cancelled"}
  <2>1. fate(j) # "waiting"
    BY <1>4
  <2>2. j \in Queued
    BY <1>7, <1>14, <1>16
  <2> QED
    BY <1>13, <1>16, <2>1, <2>2 DEF RunnerInv
<1>17. ASSUME NEW j \in Jobs, proc'[j] = "alive" PROVE j \in Range(running')
  <2>1. j \notin dead /\ (j \in S \/ proc[j] = "alive")
    BY <1>13, <1>17
  <2>2. j \in Range(live)
    <3>1. CASE j \in S
      BY <1>8, <3>1
    <3>2. CASE j \notin S
      <4>1. j \in Range(running) /\ j \notin V
        BY <1>7, <2>1, <3>2 DEF RunnerInv
      <4> QED
        BY <1>8, <4>1
    <3> QED
      BY <3>1, <3>2
  <2>3. j \notin dropped
    <3>1. SUFFICES ASSUME j \in dropped PROVE FALSE
      OBVIOUS
    <3>2. fate(j) = "OK" /\ j \notin S
      BY <1>5, <1>6, <2>1, <3>1
    <3>3. proc[j] = "exited"
      BY <3>2 DEF fate, Fate
    <3> QED
      BY <2>1, <3>2, <3>3
  <2> QED
    BY <1>14, <2>2, <2>3
<1>18. ASSUME NEW j \in Jobs, future'[j] = "waiting" PROVE j \in Queued' /\ future[j] = "waiting"
  <2>1. j \notin dropped
    BY <1>16, <1>18
  <2>2. future[j] = "waiting"
    BY <1>13, <1>18, <2>1
  <2> QED
    BY <1>15, <2>1, <2>2 DEF RunnerInv
<1>19. ASSUME NEW j \in Queued' PROVE future'[j] \in {"waiting", "cancelled"}
  <2>1. j \notin dropped /\ j \in Queued /\ j \in Jobs
    BY <1>9, <1>15
  <2> QED
    BY <1>13, <2>1 DEF RunnerInv
<1>20. ASSUME NEW j \in Jobs, code'[j] # NoCode, future'[j] \in Reasons PROVE future'[j] = "OK"
  <2>1. j \notin dead /\ code[j] # NoCode
    BY <1>13, <1>20
  <2>2. CASE j \in dropped
    <3>1. future[j] = "waiting"
      BY <1>13, <1>16, <1>20, <2>2 DEF Reasons
    <3> QED
      BY <1>6, <1>13, <2>1, <2>2, <3>1
  <2>3. CASE j \notin dropped
    BY <1>13, <1>20, <2>1, <2>3 DEF RunnerInv
  <2> QED
    BY <2>2, <2>3
<1>21. RunnerInv'
  <2>1. Range(pending') \cap Range(running') = {}
    BY <1>14
  <2> QED
    BY <1>14, <1>17, <1>18, <1>19, <1>20, <2>1 DEF RunnerInv
<1>22. ASSUME NEW j \in Jobs
       PROVE  /\ future[j] \in Reasons => future'[j] = future[j] /\ code'[j] = code[j]
              /\ future'[j] = "cancelled" => future[j] = "cancelled"
  <2>1. future[j] \in Reasons => j \notin Queued
    BY DEF RunnerInv, Reasons
  <2>2. j \notin Queued => j \notin dropped /\ j \notin dead /\ j \notin S
    <3>1. V \in SUBSET Queued
      <4>1. V \in SUBSET Range(running)
        <5>1. running \in Seq(Jobs)
          BY DEF PRTypeOK
        <5>2. killed \in 0 .. Len(running)
          BY <1>1, <1>2, <5>1, Counts
        <5> QED
          BY <1>8, <5>1, <5>2, SplitFacts
      <4> QED
        BY <4>1 DEF Queued
    <3> QED
      BY <1>7, <1>8, <3>1
  <2>3. fate(j) # "cancelled"
    BY <1>4
  <2> QED
    BY <1>13, <2>1, <2>2, <2>3 DEF Reasons
<1>23. ResultsKept
  BY <1>18, <1>22 DEF ResultsKept
<1> QED
  BY <1>12, <1>21, <1>23

-----------------------------------------------------------------------------
(* The invariant of the program.                                             *)

\* A future is awaited by the coroutine of one block of the gather, and a block that is
\* done has its engine's result.
Awaits(b, j) == \/ j = AigJob(b) /\ at[b] = "select"
                \/ j = EngineJob(b) /\ at[b] = "engine"
GatherInv ==
  /\ stage # "exit" => \A j \in Jobs : future[j] # "cancelled"
  /\ \A j \in Jobs : future[j] = "waiting" => \E b \in todo : Awaits(b, j)
  /\ \A b \in Blocks : at[b] = "done" =>
       future[EngineJob(b)] \in Reasons /\ verdict[b] = code[EngineJob(b)]
  /\ \A b \in Blocks \ todo : at[b] = "idle"
  /\ stage = "begin" => \A b \in Blocks : at[b] \in {"idle", "done"}

\* all is what the steps so far have loaded, and that is what is run and checked.
Loaded(n) == UNION {load_strategy(s) : s \in {s \in Steps : s < n /\ args.start <= s}}
Complete == args.check_complete => uncovered = {}
ProveInv ==
  /\ exit = "" <=> stage # "exit"
  /\ stage = "build" => args.mode = "explore" /\ step \in Steps
  /\ args.mode = "prove" /\ ~args.by_step =>
       /\ all = Loaded(step)
       /\ stage = "run" => step = LastStep + 1 /\ todo = all /\ Complete
       /\ exit = "ok" => /\ step = LastStep + 1 /\ Complete
                         /\ \A b \in all : at[b] = "done" /\ verdict[b] = UNSAT

CdInv == TypeOK /\ RunnerInv /\ GatherInv /\ ProveInv

\* The two processes of each block.
LEMMA JobFacts ==
  /\ \A b \in Blocks : AigJob(b) \in Jobs /\ EngineJob(b) \in Jobs
  /\ \A b, c \in Blocks : /\ AigJob(b) = AigJob(c) => b = c
                          /\ EngineJob(b) = EngineJob(c) => b = c
                          /\ AigJob(b) # EngineJob(c)
<1>1. PICK n \in Nat : n = Len(Covers) /\ Blocks = 1 .. n /\ Jobs = 1 .. 2 * n
  <2>1. Covers \in Seq(SUBSET Props \ {{}}) /\ Jobs = 1 .. 2 * Len(Covers)
    BY ConductorAssumption
  <2> QED
    BY <2>1 DEF Blocks
<1> QED
  BY <1>1 DEF AigJob, EngineJob

\* The processes that a gather starts.
Prepares(bs) == [i \in DOMAIN InOrder(bs) |-> AigJob(InOrder(bs)[i])]

\* They are those of its blocks, one each.
LEMMA PreparesFacts ==
  ASSUME NEW bs \in SUBSET Blocks
  PROVE  /\ Prepares(bs) \in Seq(Jobs) /\ IsInjective(Prepares(bs))
         /\ Range(Prepares(bs)) = {AigJob(b) : b \in bs}
<1>1. PICK n \in Nat : n = Len(Covers) /\ Blocks = 1 .. n
  <2>1. Covers \in Seq(SUBSET Props \ {{}})
    BY ConductorAssumption
  <2> QED
    BY <2>1 DEF Blocks
<1>2. PICK id \in Seq(Blocks) : id = [b \in Blocks |-> b] /\ IsInjective(id) /\ Range(id) = Blocks
  <2> DEFINE f == [b \in Blocks |-> b]
  <2>1. f \in Seq(Blocks)
    <3>1. f \in [1 .. n -> Blocks]
      BY <1>1
    <3> QED
      BY <3>1
  <2>2. IsInjective(f) /\ Range(f) = Blocks
    BY DEF IsInjective, Range
  <2> QED
    BY <2>1, <2>2
<1>3. PICK D : D = Blocks \ bs
  OBVIOUS
<1>4. PICK order \in Seq(Blocks) : order = InOrder(bs) /\ IsInjective(order) /\ Range(order) = bs
  <2>1. InOrder(bs) = Without(id, D)
    BY <1>2, <1>3 DEF InOrder
  <2>2. /\ Without(id, D) \in Seq(Blocks) /\ Range(Without(id, D)) = Range(id) \ D
        /\ IsInjective(id) => IsInjective(Without(id, D))
    BY WithoutFacts
  <2>3. Range(id) \ D = bs
    BY <1>2, <1>3
  <2> QED
    BY <1>2, <2>1, <2>2, <2>3
<1>5. PICK m \in Nat : DOMAIN order = 1 .. m /\ \A i \in 1 .. m : order[i] \in Blocks
  BY <1>4
<1>6. PICK js : js = Prepares(bs)
  OBVIOUS
<1>7. js = [i \in 1 .. m |-> AigJob(order[i])]
  BY <1>4, <1>5, <1>6 DEF Prepares
<1>8. js \in Seq(Jobs)
  <2>1. js \in [1 .. m -> Jobs]
    BY <1>5, <1>7, JobFacts
  <2> QED
    BY <2>1
<1>9. DOMAIN js = 1 .. m /\ \A i \in 1 .. m : js[i] = AigJob(order[i])
  BY <1>7
<1>10. IsInjective(js)
  BY <1>4, <1>5, <1>9, JobFacts DEF IsInjective
<1>11. Range(js) = {AigJob(b) : b \in bs}
  <2>1. ASSUME NEW i \in 1 .. m PROVE js[i] \in {AigJob(b) : b \in bs}
    <3>1. order[i] \in bs
      BY <1>4, <1>5 DEF Range
    <3> QED
      BY <1>9, <3>1
  <2>2. ASSUME NEW b \in bs PROVE AigJob(b) \in Range(js)
    <3>1. PICK i \in 1 .. m : order[i] = b
      BY <1>4, <1>5 DEF Range
    <3> QED
      BY <1>9, <3>1 DEF Range
  <2> QED
    BY <1>9, <2>1, <2>2 DEF Range
<1> QED
  BY <1>6, <1>8, <1>10, <1>11

\* Nothing is queued while no coroutine waits.
LEMMA NothingQueued ==
  ASSUME PRTypeOK, RunnerInv, GatherInv, stage # "exit", \A b \in todo : at[b] \notin {"select", "engine"}
  PROVE  Queued = {} /\ \A j \in Jobs : future[j] \notin {"waiting", "cancelled"}
<1>1. \A j \in Jobs : future[j] # "waiting" /\ future[j] # "cancelled"
  BY DEF GatherInv, Awaits
<1>2. Queued \in SUBSET Jobs
  BY ListsTyped
<1> QED
  BY <1>1, <1>2 DEF RunnerInv

\* A gather, with nothing queued before it.
LEMMA GatherKeeps ==
  ASSUME TypeOK, RunnerInv, GatherInv, stage # "exit", \A b \in todo : at[b] \notin {"select", "engine"},
         NEW bs \in SUBSET Blocks, NEW next \in {"run", "build"}, Gather(bs, next)
  PROVE  /\ PRTypeOK' /\ RunnerInv' /\ GatherInv'
         /\ stage' = next /\ todo' = bs
         /\ at' \in [Blocks -> {"idle", "select", "engine", "done"}]
         /\ verdict' \in [Blocks -> Nat \cup {NoCode}]
<1>1. /\ Shell(Prepares(bs))
      /\ todo' = bs /\ stage' = next
      /\ at' = [b \in Blocks |-> IF b \in bs THEN "select" ELSE "idle"]
      /\ verdict' = [b \in Blocks |-> IF b \in bs THEN NoCode ELSE verdict[b]]
  BY Zenon DEF Gather, Prepares
<1>2. PRTypeOK /\ verdict \in [Blocks -> Nat \cup {NoCode}]
  BY DEF TypeOK
<1>3. Queued = {} /\ \A j \in Jobs : future[j] \notin {"waiting", "cancelled"}
  BY <1>2, NothingQueued
<1>4. PICK js \in Seq(Jobs) : js = Prepares(bs) /\ IsInjective(js) /\ Range(js) = {AigJob(b) : b \in bs}
  BY PreparesFacts
<1>5. Shell(js) /\ Range(js) \cap Queued = {}
  BY <1>1, <1>3, <1>4
<1>6. /\ PRTypeOK' /\ RunnerInv'
      /\ \A j \in Range(js) : future'[j] = "waiting"
      /\ \A j \in Jobs \ Range(js) : future'[j] = future[j] /\ code'[j] = code[j]
  BY <1>2, <1>4, <1>5, ShellKeeps
<1>7. /\ at' \in [Blocks -> {"idle", "select", "engine", "done"}]
      /\ verdict' \in [Blocks -> Nat \cup {NoCode}]
      /\ \A b \in Blocks : at'[b] = IF b \in bs THEN "select" ELSE "idle"
  BY <1>1, <1>2
<1>8. \A j \in Jobs : future'[j] # "cancelled"
  BY <1>3, <1>6
<1>9. ASSUME NEW j \in Jobs, future'[j] = "waiting" PROVE \E b \in todo' : Awaits(b, j)'
  <2>1. j \in Range(js)
    BY <1>3, <1>6, <1>9
  <2>2. PICK b \in bs : j = AigJob(b)
    BY <1>4, <2>1
  <2>3. at'[b] = "select" /\ b \in todo'
    BY <1>1, <1>7, <2>2
  <2> QED
    BY <2>2, <2>3 DEF Awaits
<1>10. GatherInv'
  BY <1>1, <1>7, <1>8, <1>9 DEF GatherInv
<1> QED
  BY <1>1, <1>6, <1>7, <1>10

\* Leaving the program.
LEMMA LeaveKeeps ==
  ASSUME TypeOK, RunnerInv, GatherInv, NEW why, Leave(why), UNCHANGED <<todo, at, verdict>>
  PROVE  /\ PRTypeOK' /\ RunnerInv' /\ GatherInv'
         /\ stage' = "exit" /\ exit' = why
<1>1. PICK js : js = {j \in Jobs : future[j] = "waiting"} /\ Cancel(js) /\ stage' = "exit" /\ exit' = why
  BY DEF Leave
<1>2. /\ PRTypeOK' /\ RunnerInv'
      /\ \A j \in Jobs : /\ code'[j] = code[j]
                         /\ future'[j] = IF j \in js /\ future[j] = "waiting" THEN "cancelled" ELSE future[j]
  BY <1>1, CancelKeeps DEF TypeOK
<1>3. \A j \in Jobs : future'[j] # "waiting"
  BY <1>1, <1>2
<1>4. \A j \in Jobs : future[j] \in Reasons => future'[j] = future[j]
  BY <1>2 DEF Reasons
<1>5. \A b \in Blocks : at'[b] = "done" => future'[EngineJob(b)] \in Reasons /\ verdict'[b] = code'[EngineJob(b)]
  BY <1>2, <1>4, JobFacts DEF GatherInv
<1>6. GatherInv'
  BY <1>1, <1>3, <1>5 DEF GatherInv
<1> QED
  BY <1>1, <1>2, <1>6

\* A step of the runner or of the operating system.
LEMMA StayKeeps ==
  ASSUME GatherInv, ResultsKept, UNCHANGED conductorVars
  PROVE  GatherInv'
<1>1. UNCHANGED <<args, stage, step, all, todo, at, verdict, file, exit>>
  BY DEF conductorVars
<1>2. \A j \in Jobs : future'[j] = "waiting" => \E b \in todo' : Awaits(b, j)'
  BY <1>1 DEF GatherInv, ResultsKept, Awaits
<1>3. stage' # "exit" => \A j \in Jobs : future'[j] # "cancelled"
  BY <1>1 DEF GatherInv, ResultsKept
<1>4. \A b \in Blocks : at'[b] = "done" => future'[EngineJob(b)] \in Reasons /\ verdict'[b] = code'[EngineJob(b)]
  BY <1>1, JobFacts DEF GatherInv, ResultsKept
<1> QED
  BY <1>1, <1>2, <1>3, <1>4 DEF GatherInv

\* What the next step of the loop adds.
LEMMA LoadedNext ==
  ASSUME LastStep \in Nat, step \in Steps, args.start \in Int
  PROVE  Loaded(step + 1) = IF step < args.start THEN Loaded(step) ELSE Loaded(step) \cup load_strategy(step)
<1>1. PICK L, n, a : L = LastStep /\ n = step /\ a = args.start /\ L \in Nat /\ n \in 0 .. L /\ a \in Int
  BY DEF Steps
<1>2. \A s \in 0 .. L : s < n + 1 <=> (s < n \/ s = n)
  BY <1>1
<1>3. n < a <=> ~(a <= n)
  BY <1>1
<1>4. CASE n < a
  <2>1. \A s \in 0 .. L : s < n + 1 /\ a <= s <=> s < n /\ a <= s
    BY <1>2, <1>3, <1>4
  <2>2. {s \in Steps : s < step + 1 /\ args.start <= s} = {s \in Steps : s < step /\ args.start <= s}
    BY <1>1, <2>1 DEF Steps
  <2> QED
    BY <1>1, <1>4, <2>2 DEF Loaded
<1>5. CASE ~(n < a)
  <2>1. \A s \in 0 .. L : s < n + 1 /\ a <= s <=> (s < n /\ a <= s) \/ s = n
    BY <1>2, <1>3, <1>5
  <2>2. {s \in Steps : s < step + 1 /\ args.start <= s} = {s \in Steps : s < step /\ args.start <= s} \cup {step}
    BY <1>1, <2>1 DEF Steps
  <2> QED
    BY <1>1, <1>5, <2>2 DEF Loaded
<1> QED
  BY <1>4, <1>5

-----------------------------------------------------------------------------
(* Every step keeps the invariant.                                           *)

\* The types of the program's own variables.
LEMMA Typed ==
  ASSUME TypeOK
  PROVE  /\ PRTypeOK /\ LastStep \in Nat /\ step \in Nat
         /\ step <= LastStep => step \in Steps
         /\ step <= LastStep + 1
         /\ args.start \in Int /\ args.mode \in {"prove", "explore"}
         /\ \A s \in Steps : load_strategy(s) \in SUBSET Blocks /\ load_strategy(s) \subseteq file[s]
<1>1. PRTypeOK /\ LastStep \in Nat /\ step \in 0 .. LastStep + 1 /\ file \in [Steps -> SUBSET Blocks]
  BY ConductorAssumption DEF TypeOK
<1>2. args.start \in Int /\ args.mode \in {"prove", "explore"}
  BY ConductorAssumption DEF TypeOK
<1>3. \A s \in Steps : load_strategy(s) \in SUBSET Blocks /\ load_strategy(s) \subseteq file[s]
  BY <1>1 DEF load_strategy
<1>4. step \in Nat /\ (step <= LastStep => step \in Steps) /\ step <= LastStep + 1
  BY <1>1 DEF Steps
<1> QED
  BY <1>1, <1>2, <1>3, <1>4

\* What the loaded strategies depend on.
LEMMA LoadedKept ==
  ASSUME UNCHANGED <<args, file>>
  PROVE  /\ \A n : Loaded(n)' = Loaded(n)
         /\ \A s : load_strategy(s)' = load_strategy(s)
         /\ UNCHANGED all => (Complete' <=> Complete)
<1>1. \A s : load_strategy(s)' = load_strategy(s)
  BY DEF load_strategy
<1>2. ASSUME NEW n PROVE Loaded(n)' = Loaded(n)
  BY DEF Loaded, load_strategy
<1>3. ASSUME UNCHANGED all PROVE Complete' <=> Complete
  BY <1>3 DEF Complete, uncovered, selected, PropsIn
<1> QED
  BY <1>1, <1>2, <1>3

\* Leaving keeps what is not about the reason.
LEMMA LeaveProve ==
  ASSUME CdInv, NEW why \in {"ok", "assert", "race", "incomplete", "unproved", "interrupt"},
         Leave(why), UNCHANGED <<todo, at, verdict, args, step, all, file>>,
         why = "ok" /\ args.mode = "prove" /\ ~args.by_step =>
           step = LastStep + 1 /\ Complete /\ \A b \in all : at[b] = "done" /\ verdict[b] = UNSAT
  PROVE  CdInv'
<1>1. /\ PRTypeOK' /\ RunnerInv' /\ GatherInv' /\ stage' = "exit" /\ exit' = why
  BY LeaveKeeps DEF CdInv
<1>2. TypeOK'
  BY <1>1 DEF CdInv, TypeOK
<1>3. /\ \A n : Loaded(n)' = Loaded(n)
      /\ Complete' <=> Complete
  BY LoadedKept
<1>4. ProveInv'
  <2>1. exit' # "" /\ stage' = "exit" /\ exit' = why
    BY <1>1
  <2>2. args.mode = "prove" /\ ~args.by_step => all' = Loaded(step)'
    BY <1>3 DEF CdInv, ProveInv
  <2> QED
    BY <1>3, <2>1, <2>2 DEF ProveInv
<1> QED
  BY <1>1, <1>2, <1>4 DEF CdInv

\* prove: the loop over the steps.
LEMMA ProveStepKeeps ==
  ASSUME CdInv, ProveStep
  PROVE  CdInv'
<1>1. /\ args.mode = "prove" /\ stage = "begin" /\ step <= LastStep
      /\ step' = step + 1 /\ UNCHANGED <<args, file, exit>>
  BY DEF ProveStep
<1>2. PICK strategy : strategy = load_strategy(step)
  OBVIOUS
<1>3. /\ TypeOK /\ RunnerInv /\ GatherInv /\ ProveInv
  BY DEF CdInv
<1>4. /\ PRTypeOK /\ LastStep \in Nat /\ step \in Nat /\ step \in Steps /\ args.start \in Int
      /\ strategy \in SUBSET Blocks
  BY <1>1, <1>2, <1>3, Typed
<1>5. step' \in 0 .. LastStep + 1
  BY <1>1, <1>4
<1>6. \A b \in todo : at[b] \notin {"select", "engine"}
  BY <1>1, <1>3 DEF GatherInv, TypeOK
<1>7. exit = ""
  BY <1>1, <1>3 DEF ProveInv
<1>8. Loaded(step') = IF step < args.start THEN Loaded(step) ELSE Loaded(step) \cup strategy
  BY <1>1, <1>2, <1>4, LoadedNext
<1>9. Loaded(step)' = IF step < args.start THEN Loaded(step) ELSE Loaded(step) \cup strategy
  BY <1>1, <1>8, LoadedKept DEF Loaded, load_strategy
<1>10. CASE step < args.start \/ strategy = {}
  <2>1. UNCHANGED <<prVars, all, todo, at, verdict, stage>>
    BY <1>2, <1>10 DEF ProveStep
  <2>2. UNCHANGED <<pending, running, kill_, expected, max_memory, proc, rss, overdue, code, future>>
    BY <2>1 DEF prVars
  <2>3. TypeOK'
    BY <1>1, <1>3, <1>5, <2>1, <2>2 DEF TypeOK, PRTypeOK
  <2>4. RunnerInv' /\ GatherInv'
    BY <1>1, <1>3, <2>1, <2>2 DEF RunnerInv, Queued, GatherInv, Awaits
  <2>5. ~args.by_step => all' = Loaded(step)'
    BY <1>1, <1>3, <1>9, <1>10, <2>1 DEF ProveInv
  <2>6. ProveInv'
    BY <1>1, <1>7, <2>1, <2>5 DEF ProveInv
  <2> QED
    BY <2>3, <2>4, <2>6 DEF CdInv
<1>11. CASE ~(step < args.start \/ strategy = {})
  <2>1. /\ all' = all \cup strategy
        /\ IF args.by_step THEN Gather(strategy, "run")
           ELSE UNCHANGED <<prVars, todo, at, verdict, stage>>
    BY <1>2, <1>11 DEF ProveStep
  <2>2. all' \subseteq Blocks
    BY <1>3, <1>4, <2>1 DEF TypeOK
  <2>3. CASE args.by_step
    <3>1. /\ PRTypeOK' /\ RunnerInv' /\ GatherInv'
          /\ stage' = "run" /\ todo' = strategy
          /\ at' \in [Blocks -> {"idle", "select", "engine", "done"}]
          /\ verdict' \in [Blocks -> Nat \cup {NoCode}]
      BY <1>1, <1>3, <1>4, <1>6, <2>1, <2>3, GatherKeeps
    <3>2. TypeOK'
      BY <1>1, <1>3, <1>4, <1>5, <2>2, <3>1 DEF TypeOK
    <3>3. ProveInv'
      BY <1>1, <1>7, <2>3, <3>1 DEF ProveInv
    <3> QED
      BY <3>1, <3>2, <3>3 DEF CdInv
  <2>4. CASE ~args.by_step
    <3>1. UNCHANGED <<pending, running, kill_, expected, max_memory, proc, rss, overdue, code, future,
                      todo, at, verdict, stage>>
      BY <2>1, <2>4 DEF prVars
    <3>2. TypeOK'
      BY <1>1, <1>3, <1>5, <2>2, <3>1 DEF TypeOK, PRTypeOK
    <3>3. RunnerInv' /\ GatherInv'
      BY <1>1, <1>3, <3>1 DEF RunnerInv, Queued, GatherInv, Awaits
    <3>4. all' = Loaded(step)'
      BY <1>1, <1>3, <1>9, <1>11, <2>1, <2>4 DEF ProveInv
    <3>5. ProveInv'
      BY <1>1, <1>7, <3>1, <3>4 DEF ProveInv
    <3> QED
      BY <3>2, <3>3, <3>5 DEF CdInv
  <2> QED
    BY <2>3, <2>4
<1> QED
  BY <1>10, <1>11

\* prove: after the loop.
LEMMA ProveAllKeeps ==
  ASSUME CdInv, ProveAll
  PROVE  CdInv'
<1>1. /\ args.mode = "prove" /\ stage = "begin" /\ step = LastStep + 1
      /\ UNCHANGED <<args, step, all, file>>
  BY DEF ProveAll
<1>2. CASE args.check_complete /\ uncovered # {}
  BY <1>1, <1>2, LeaveProve DEF ProveAll
<1>3. CASE ~(args.check_complete /\ uncovered # {}) /\ (args.by_step \/ all = {})
  <2>1. Complete
    BY <1>3 DEF Complete
  <2>2. Leave("ok") /\ UNCHANGED <<todo, at, verdict>>
    BY <1>3 DEF ProveAll
  <2> QED
    BY <1>1, <1>3, <2>1, <2>2, LeaveProve
<1>4. CASE ~(args.check_complete /\ uncovered # {}) /\ ~(args.by_step \/ all = {})
  <2>1. Complete
    BY <1>4 DEF Complete
  <2>2. Gather(all, "run") /\ UNCHANGED exit
    BY <1>4 DEF ProveAll
  <2>3. TypeOK /\ RunnerInv /\ GatherInv /\ ProveInv /\ all \in SUBSET Blocks
    BY DEF CdInv, TypeOK
  <2>4. \A b \in todo : at[b] \notin {"select", "engine"}
    BY <1>1, <2>3 DEF GatherInv, TypeOK
  <2>5. /\ PRTypeOK' /\ RunnerInv' /\ GatherInv'
        /\ stage' = "run" /\ todo' = all
        /\ at' \in [Blocks -> {"idle", "select", "engine", "done"}]
        /\ verdict' \in [Blocks -> Nat \cup {NoCode}]
    BY <1>1, <2>2, <2>3, <2>4, GatherKeeps
  <2>6. TypeOK'
    BY <1>1, <2>2, <2>3, <2>5 DEF TypeOK
  <2>7. exit = "" /\ (~args.by_step => all = Loaded(step))
    BY <1>1, <2>3 DEF ProveInv
  <2>8. Loaded(step)' = Loaded(step) /\ (Complete' <=> Complete)
    BY <1>1, LoadedKept DEF Loaded, load_strategy
  <2>9. ProveInv'
    BY <1>1, <2>1, <2>2, <2>5, <2>7, <2>8 DEF ProveInv
  <2> QED
    BY <2>5, <2>6, <2>9 DEF CdInv
<1> QED
  BY <1>2, <1>3, <1>4

\* prove: the gather is done.
LEMMA ProveEndKeeps ==
  ASSUME CdInv, ProveEnd
  PROVE  CdInv'
<1>1. /\ args.mode = "prove" /\ stage = "run" /\ GatherDone
      /\ UNCHANGED <<args, step, all, todo, at, verdict, file>>
  BY DEF ProveEnd
<1>2. CASE args.by_step
  <2>1. stage' = "begin" /\ UNCHANGED <<prVars, exit>>
    BY <1>2 DEF ProveEnd
  <2>2. UNCHANGED <<pending, running, kill_, expected, max_memory, proc, rss, overdue, code, future>>
    BY <2>1 DEF prVars
  <2>3. TypeOK /\ RunnerInv /\ GatherInv /\ ProveInv
    BY DEF CdInv
  <2>4. TypeOK'
    BY <1>1, <2>1, <2>2, <2>3 DEF TypeOK, PRTypeOK
  <2>5. \A b \in Blocks : at[b] \in {"idle", "done"}
    BY <1>1, <2>3 DEF GatherDone, GatherInv
  <2>6. RunnerInv' /\ GatherInv'
    BY <1>1, <2>1, <2>2, <2>3, <2>5 DEF RunnerInv, Queued, GatherInv, Awaits
  <2>7. ProveInv'
    BY <1>1, <1>2, <2>1, <2>3 DEF ProveInv
  <2> QED
    BY <2>4, <2>6, <2>7 DEF CdInv
<1>3. CASE ~args.by_step
  <2>1. PICK why : why = (IF \A b \in todo : verdict[b] = UNSAT THEN "ok" ELSE "unproved") /\ Leave(why)
    BY <1>3 DEF ProveEnd
  <2>2. step = LastStep + 1 /\ todo = all /\ Complete
    BY <1>1, <1>3 DEF CdInv, ProveInv
  <2>3. why = "ok" => \A b \in all : at[b] = "done" /\ verdict[b] = UNSAT
    BY <1>1, <2>1, <2>2 DEF GatherDone
  <2>4. why \in {"ok", "unproved"}
    BY <2>1
  <2> QED
    BY <1>1, <2>1, <2>2, <2>3, <2>4, LeaveProve
<1> QED
  BY <1>2, <1>3

\* explore: a gather begins, in a mode in which ProveInv asks nothing of it.
LEMMA ExploreGather ==
  ASSUME CdInv, args.mode = "explore", stage # "exit", \A b \in todo : at[b] \notin {"select", "engine"},
         NEW bs \in SUBSET Blocks, NEW next \in {"run", "build"}, Gather(bs, next),
         UNCHANGED <<args, exit>>, step' \in 0 .. LastStep + 1, next = "build" => step' \in Steps,
         all' \subseteq Blocks, file' \in [Steps -> SUBSET Blocks]
  PROVE  CdInv'
<1>1. TypeOK /\ RunnerInv /\ GatherInv /\ ProveInv
  BY DEF CdInv
<1>2. /\ PRTypeOK' /\ RunnerInv' /\ GatherInv'
      /\ stage' = next /\ todo' = bs
      /\ at' \in [Blocks -> {"idle", "select", "engine", "done"}]
      /\ verdict' \in [Blocks -> Nat \cup {NoCode}]
  BY <1>1, GatherKeeps
<1>3. TypeOK'
  BY <1>1, <1>2 DEF TypeOK
<1>4. ProveInv'
  BY <1>1, <1>2 DEF ProveInv
<1> QED
  BY <1>2, <1>3, <1>4 DEF CdInv

\* explore: one turn without a gather.
LEMMA ExploreSkip ==
  ASSUME CdInv, args.mode = "explore", stage # "exit", \A b \in todo : at[b] \notin {"select", "engine"},
         UNCHANGED <<prVars, todo, at, verdict, args, exit>>, stage' = "begin", step' \in 0 .. LastStep + 1,
         all' \subseteq Blocks, file' \in [Steps -> SUBSET Blocks]
  PROVE  CdInv'
<1>1. TypeOK /\ RunnerInv /\ GatherInv /\ ProveInv
  BY DEF CdInv
<1>2. UNCHANGED <<pending, running, kill_, expected, max_memory, proc, rss, overdue, code, future>>
  BY DEF prVars
<1>3. TypeOK'
  BY <1>1, <1>2 DEF TypeOK, PRTypeOK
<1>4. \A b \in Blocks : at[b] \in {"idle", "done"}
  BY <1>1 DEF GatherInv, TypeOK
<1>5. RunnerInv' /\ GatherInv'
  BY <1>1, <1>2, <1>4 DEF RunnerInv, Queued, GatherInv, Awaits
<1>6. ProveInv'
  BY <1>1 DEF ProveInv
<1> QED
  BY <1>3, <1>5, <1>6 DEF CdInv

\* explore: the loop over the steps.
LEMMA ExploreStepKeeps ==
  ASSUME CdInv, ExploreStep
  PROVE  CdInv'
<1>1. /\ args.mode = "explore" /\ stage = "begin" /\ step <= LastStep /\ UNCHANGED <<args, all, file>>
  BY DEF ExploreStep
<1>2. PICK strategy : strategy = load_strategy(step)
  OBVIOUS
<1>3. PICK not_done : not_done = missing_from(strategy, by_step(step))
  OBVIOUS
<1>4. \/ step < args.start /\ step' = step + 1 /\ UNCHANGED <<prVars, todo, at, verdict, stage, exit>>
      \/ /\ step' = step + 1 /\ UNCHANGED exit
         /\ \/ Gather(strategy, "run")
            \/ UNCHANGED <<prVars, todo, at, verdict, stage>>
      \/ Leave("race") /\ UNCHANGED <<step, todo, at, verdict>>
      \/ Gather({Single(p) : p \in not_done}, "build") /\ UNCHANGED <<step, exit>>
  BY <1>2, <1>3, Zenon DEF ExploreStep
<1>5. TypeOK /\ GatherInv /\ all \subseteq Blocks /\ file \in [Steps -> SUBSET Blocks]
  BY DEF CdInv, TypeOK
<1>6. /\ LastStep \in Nat /\ step \in Nat /\ step \in Steps /\ strategy \in SUBSET Blocks
      /\ step + 1 \in 0 .. LastStep + 1 /\ step \in 0 .. LastStep + 1
  <2>1. LastStep \in Nat /\ step \in Nat /\ step \in Steps /\ strategy \in SUBSET Blocks
    BY <1>1, <1>2, <1>5, Typed
  <2> QED
    BY <1>1, <2>1
<1>7. \A b \in todo : at[b] \notin {"select", "engine"}
  BY <1>1, <1>5 DEF GatherInv, TypeOK
<1>8. {Single(p) : p \in not_done} \in SUBSET Blocks
  <2>1. ASSUME NEW p \in not_done PROVE Single(p) \in Blocks
    <3>1. p \in Props \ Skipped
      <4>1. args.properties \in SUBSET Props
        BY <1>5, ConductorAssumption DEF TypeOK
      <4> QED
        BY <1>3, <4>1 DEF missing_from, by_step, selected
    <3>2. \E b \in Blocks : Covers[b] = {p}
      BY <3>1, ConductorAssumption
    <3> QED
      BY <3>2 DEF Single
  <2> QED
    BY <2>1
<1>9. ASSUME step' = step + 1, UNCHANGED exit, Gather(strategy, "run") PROVE CdInv'
  BY <1>1, <1>5, <1>6, <1>7, <1>9, ExploreGather
<1>10. ASSUME step' = step + 1, UNCHANGED <<prVars, todo, at, verdict, stage, exit>> PROVE CdInv'
  BY <1>1, <1>5, <1>6, <1>7, <1>10, ExploreSkip
<1>11. ASSUME Leave("race"), UNCHANGED <<step, todo, at, verdict>> PROVE CdInv'
  BY <1>1, <1>11, LeaveProve
<1>12. ASSUME Gather({Single(p) : p \in not_done}, "build"), UNCHANGED <<step, exit>> PROVE CdInv'
  <2>1. PICK bs \in SUBSET Blocks : bs = {Single(p) : p \in not_done}
    BY <1>8
  <2>2. Gather(bs, "build")
    BY <1>12, <2>1
  <2> QED
    BY <1>1, <1>5, <1>6, <1>7, <1>12, <2>2, ExploreGather
<1> QED
  BY <1>4, <1>9, <1>10, <1>11, <1>12

\* explore: after the loop.
LEMMA ExploreEndKeeps ==
  ASSUME CdInv, ExploreEnd
  PROVE  CdInv'
BY LeaveProve DEF ExploreEnd

\* explore: the strategy of the step is complete, and stored.
LEMMA BuildEndKeeps ==
  ASSUME CdInv, BuildEnd
  PROVE  CdInv'
<1>1. /\ stage = "build" /\ GatherDone
      /\ all' = load_strategy(step) \cup Found
      /\ file' = IF args.no_store THEN file ELSE [file EXCEPT ![step] = all']
      /\ step' = step + 1 /\ UNCHANGED <<args, exit>>
      /\ \/ Gather(all', "run")
         \/ stage' = "begin" /\ UNCHANGED <<prVars, todo, at, verdict>>
  BY DEF BuildEnd
<1>2. TypeOK /\ ProveInv /\ todo \subseteq Blocks /\ file \in [Steps -> SUBSET Blocks]
  BY DEF CdInv, TypeOK
<1>3. args.mode = "explore" /\ step \in Steps
  BY <1>1, <1>2 DEF ProveInv
<1>4. LastStep \in Nat /\ step + 1 \in 0 .. LastStep + 1
  <2>1. LastStep \in Nat
    BY ConductorAssumption
  <2> QED
    BY <1>3, <2>1 DEF Steps
<1>5. all' \subseteq Blocks
  BY <1>1, <1>2, <1>3, Typed DEF Found
<1>6. file' \in [Steps -> SUBSET Blocks]
  BY <1>1, <1>2, <1>3, <1>5
<1>7. \A b \in todo : at[b] \notin {"select", "engine"}
  BY <1>1 DEF GatherDone
<1>8. CASE Gather(all', "run")
  <2>1. PICK bs \in SUBSET Blocks : bs = all'
    BY <1>5
  <2>2. Gather(bs, "run")
    BY <1>8, <2>1
  <2> QED
    BY <1>1, <1>3, <1>4, <1>5, <1>6, <1>7, <2>2, ExploreGather
<1>9. CASE stage' = "begin" /\ UNCHANGED <<prVars, todo, at, verdict>>
  BY <1>1, <1>3, <1>4, <1>5, <1>6, <1>7, <1>9, ExploreSkip
<1> QED
  BY <1>1, <1>8, <1>9

\* explore: the second run of a strategy is done.
LEMMA RerunEndKeeps ==
  ASSUME CdInv, RerunEnd
  PROVE  CdInv'
<1>1. /\ args.mode = "explore" /\ stage = "run" /\ stage' = "begin" /\ GatherDone
      /\ UNCHANGED <<prVars, args, step, all, todo, at, verdict, file, exit>>
  BY DEF RerunEnd
<1>2. /\ \A b \in todo : at[b] \notin {"select", "engine"}
      /\ step' \in 0 .. LastStep + 1 /\ all' \subseteq Blocks /\ file' \in [Steps -> SUBSET Blocks]
  BY <1>1 DEF GatherDone, CdInv, TypeOK
<1> QED
  BY <1>1, <1>2, ExploreSkip

\* The program dies while it writes the file.
LEMMA KilledStoringKeeps ==
  ASSUME CdInv, KilledStoring
  PROVE  CdInv'
<1>1. /\ stage = "build" /\ file' = [file EXCEPT ![step] = {}] /\ stage' = "exit" /\ exit' = "killed"
      /\ UNCHANGED <<prVars, args, step, all, todo, at, verdict>>
  BY DEF KilledStoring
<1>2. TypeOK /\ RunnerInv /\ GatherInv /\ ProveInv
  BY DEF CdInv
<1>3. UNCHANGED <<pending, running, kill_, expected, max_memory, proc, rss, overdue, code, future>>
  BY <1>1 DEF prVars
<1>4. args.mode = "explore" /\ step \in Steps
  BY <1>1, <1>2 DEF ProveInv
<1>5. TypeOK'
  BY <1>1, <1>2, <1>3, <1>4 DEF TypeOK, PRTypeOK
<1>6. RunnerInv' /\ GatherInv'
  BY <1>1, <1>2, <1>3 DEF RunnerInv, Queued, GatherInv, Awaits
<1>7. ProveInv'
  BY <1>1, <1>4 DEF ProveInv
<1> QED
  BY <1>5, <1>6, <1>7 DEF CdInv

\* Ctrl-C.
LEMMA InterruptKeeps ==
  ASSUME CdInv, Interrupt
  PROVE  CdInv'
BY LeaveProve DEF Interrupt

\* Processes and the runner move on.
LEMMA ProcessesKeep ==
  ASSUME CdInv, Tick \/ Environment
  PROVE  CdInv'
<1>1. PRTypeOK /\ RunnerInv /\ GatherInv /\ ProveInv /\ TypeOK
  BY DEF CdInv, TypeOK
<1>2. UNCHANGED conductorVars
  BY DEF Tick, Environment
<1>3. UNCHANGED <<args, stage, step, all, todo, at, verdict, file, exit>>
  BY <1>2 DEF conductorVars
<1>4. PRTypeOK' /\ RunnerInv' /\ ResultsKept
  <2>1. CASE Tick
    BY <1>1, <2>1, PollKeeps DEF Tick
  <2>2. CASE Environment
    BY <1>1, <2>2, GrowKeeps, ExitKeeps, LateKeeps, JobFacts DEF Environment
  <2> QED
    BY <2>1, <2>2
<1>5. GatherInv'
  BY <1>1, <1>2, <1>4, StayKeeps
<1>6. TypeOK'
  BY <1>1, <1>3, <1>4 DEF TypeOK
<1>7. (\A n : Loaded(n)' = Loaded(n)) /\ (Complete' <=> Complete) /\ Loaded(step)' = Loaded(step)
  BY <1>3, LoadedKept DEF Loaded, load_strategy
<1>8. ProveInv'
  BY <1>1, <1>3, <1>7 DEF ProveInv
<1> QED
  BY <1>4, <1>5, <1>6, <1>8 DEF CdInv

\* A coroutine has its AIGER file.
LEMMA PreparedKeeps ==
  ASSUME CdInv, NEW b \in Blocks, Prepared(b)
  PROVE  CdInv'
<1>1. /\ stage \in {"run", "build"} /\ at[b] = "select" /\ future[AigJob(b)] \in Reasons
      /\ UNCHANGED <<args, step, all, todo, verdict, file>>
      /\ \/ \E why \in {"assert", "race"} : Leave(why) /\ UNCHANGED at
         \/ Shell(<<EngineJob(b)>>) /\ at' = [at EXCEPT ![b] = "engine"] /\ UNCHANGED <<stage, exit>>
  BY DEF Prepared
<1>2. ASSUME NEW why \in {"assert", "race"}, Leave(why), UNCHANGED at PROVE CdInv'
  BY <1>1, <1>2, LeaveProve
<1>3. ASSUME Shell(<<EngineJob(b)>>), at' = [at EXCEPT ![b] = "engine"], UNCHANGED <<stage, exit>> PROVE CdInv'
  <2>1. PRTypeOK /\ RunnerInv /\ GatherInv /\ ProveInv /\ TypeOK
        /\ at \in [Blocks -> {"idle", "select", "engine", "done"}]
    BY DEF CdInv, TypeOK
  <2>2. EngineJob(b) \in Jobs /\ AigJob(b) \in Jobs
    BY JobFacts
  <2>3. PICK js \in Seq(Jobs) : js = <<EngineJob(b)>> /\ DOMAIN js = {1} /\ js[1] = EngineJob(b)
    <3>1. <<EngineJob(b)>> \in Seq(Jobs) /\ DOMAIN <<EngineJob(b)>> = 1 .. 1
      BY <2>2
    <3>2. 1 .. 1 = {1}
      OBVIOUS
    <3> QED
      BY <3>1, <3>2
  <2>4. IsInjective(js) /\ Range(js) = {EngineJob(b)}
    BY <2>3 DEF IsInjective, Range
  <2>5. \A j \in Jobs : future[j] # "cancelled"
    BY <1>1, <2>1 DEF GatherInv
  <2>6. future[EngineJob(b)] # "waiting"
    <3>1. SUFFICES ASSUME future[EngineJob(b)] = "waiting" PROVE FALSE
      OBVIOUS
    <3>2. PICK c \in todo : Awaits(c, EngineJob(b))
      BY <2>1, <2>2, <3>1 DEF GatherInv
    <3>3. c \in Blocks
      BY <2>1 DEF TypeOK
    <3> QED
      BY <1>1, <3>2, <3>3, JobFacts DEF Awaits
  <2>7. EngineJob(b) \notin Queued
    BY <2>1, <2>2, <2>5, <2>6 DEF RunnerInv
  <2>8. /\ PRTypeOK' /\ RunnerInv'
        /\ \A j \in Range(js) : future'[j] = "waiting"
        /\ \A j \in Jobs \ Range(js) : future'[j] = future[j] /\ code'[j] = code[j]
    <3>1. Shell(js) /\ Range(js) \cap Queued = {}
      BY <1>3, <2>3, <2>4, <2>7
    <3> QED
      BY <2>1, <2>4, <3>1, ShellKeeps
  <2>9. at' \in [Blocks -> {"idle", "select", "engine", "done"}]
        /\ at'[b] = "engine" /\ \A c \in Blocks : c # b => at'[c] = at[c]
    BY <1>3, <2>1
  <2>10. TypeOK'
    BY <1>1, <1>3, <2>1, <2>8, <2>9 DEF TypeOK
  <2>11. b \in todo
    BY <1>1, <2>1 DEF GatherInv
  <2>12. ASSUME NEW j \in Jobs, future'[j] = "waiting" PROVE \E c \in todo' : Awaits(c, j)'
    <3>1. CASE j = EngineJob(b)
      BY <1>1, <2>9, <2>11, <3>1 DEF Awaits
    <3>2. CASE j # EngineJob(b)
      <4>1. future[j] = "waiting"
        BY <2>4, <2>8, <2>12, <3>2
      <4>2. PICK c \in todo : Awaits(c, j)
        BY <2>1, <4>1 DEF GatherInv
      <4>3. c # b
        BY <1>1, <4>1, <4>2 DEF Awaits, Reasons
      <4>4. c \in Blocks
        BY <2>1 DEF TypeOK
      <4> QED
        BY <1>1, <2>9, <4>2, <4>3, <4>4 DEF Awaits
    <3> QED
      BY <3>1, <3>2
  <2>13. ASSUME NEW c \in Blocks, at'[c] = "done"
         PROVE  future'[EngineJob(c)] \in Reasons /\ verdict'[c] = code'[EngineJob(c)]
    <3>1. c # b /\ at[c] = "done"
      BY <2>9, <2>13
    <3>2. EngineJob(c) \in Jobs \ Range(js)
      BY <2>4, <3>1, JobFacts
    <3> QED
      BY <1>1, <2>1, <2>8, <3>1, <3>2 DEF GatherInv
  <2>14. \A j \in Jobs : future'[j] # "cancelled"
    BY <2>4, <2>5, <2>8
  <2>15. GatherInv'
    <3>1. \A c \in Blocks \ todo' : at'[c] = "idle"
      BY <1>1, <2>1, <2>9, <2>11 DEF GatherInv
    <3>2. stage' # "begin"
      BY <1>1, <1>3
    <3> QED
      BY <2>12, <2>13, <2>14, <3>1, <3>2 DEF GatherInv
  <2>16. Loaded(step)' = Loaded(step) /\ (Complete' <=> Complete)
    BY <1>1, LoadedKept DEF Loaded, load_strategy
  <2>17. exit = ""
    BY <1>1, <2>1 DEF ProveInv
  <2>18. ProveInv'
    BY <1>1, <1>3, <2>1, <2>16, <2>17 DEF ProveInv
  <2> QED
    BY <2>8, <2>10, <2>15, <2>18 DEF CdInv
<1> QED
  BY <1>1, <1>2, <1>3

\* A coroutine has its engine's result.
LEMMA ProvedKeeps ==
  ASSUME CdInv, NEW b \in Blocks, Proved(b)
  PROVE  CdInv'
<1>1. /\ stage \in {"run", "build"} /\ at[b] = "engine" /\ future[EngineJob(b)] \in Reasons
      /\ at' = [at EXCEPT ![b] = "done"] /\ verdict' = [verdict EXCEPT ![b] = code[EngineJob(b)]]
      /\ UNCHANGED <<prVars, args, stage, step, all, todo, file, exit>>
  BY DEF Proved
<1>2. UNCHANGED <<pending, running, kill_, expected, max_memory, proc, rss, overdue, code, future>>
  BY <1>1 DEF prVars
<1>3. PRTypeOK /\ RunnerInv /\ GatherInv /\ ProveInv /\ TypeOK
      /\ at \in [Blocks -> {"idle", "select", "engine", "done"}]
      /\ verdict \in [Blocks -> Nat \cup {NoCode}] /\ code \in [Jobs -> Nat \cup {NoCode}]
  BY DEF CdInv, TypeOK, PRTypeOK
<1>4. code[EngineJob(b)] \in Nat \cup {NoCode}
  BY <1>3, JobFacts
<1>5. /\ at' \in [Blocks -> {"idle", "select", "engine", "done"}]
      /\ verdict' \in [Blocks -> Nat \cup {NoCode}]
      /\ at'[b] = "done" /\ verdict'[b] = code[EngineJob(b)]
      /\ \A c \in Blocks : c # b => at'[c] = at[c] /\ verdict'[c] = verdict[c]
  BY <1>1, <1>3, <1>4
<1>6. PRTypeOK' /\ RunnerInv'
  BY <1>2, <1>3 DEF PRTypeOK, RunnerInv, Queued
<1>7. TypeOK'
  BY <1>1, <1>3, <1>5, <1>6 DEF TypeOK
<1>8. ASSUME NEW j \in Jobs, future'[j] = "waiting" PROVE \E c \in todo' : Awaits(c, j)'
  <2>1. PICK c \in todo : Awaits(c, j)
    BY <1>2, <1>3, <1>8 DEF GatherInv
  <2>2. c # b
    BY <1>1, <1>2, <1>8, <2>1 DEF Awaits, Reasons
  <2>3. c \in Blocks
    BY <1>3 DEF TypeOK
  <2> QED
    BY <1>1, <1>5, <2>1, <2>2, <2>3 DEF Awaits
<1>9. \A c \in Blocks : at'[c] = "done" => future'[EngineJob(c)] \in Reasons /\ verdict'[c] = code'[EngineJob(c)]
  BY <1>1, <1>2, <1>3, <1>5 DEF GatherInv
<1>10. \A c \in Blocks \ todo' : at'[c] = "idle"
  <2>1. b \in todo
    BY <1>1, <1>3 DEF GatherInv
  <2> QED
    BY <1>1, <1>3, <1>5, <2>1 DEF GatherInv
<1>11. GatherInv'
  BY <1>1, <1>2, <1>3, <1>8, <1>9, <1>10 DEF GatherInv
<1>12. Loaded(step)' = Loaded(step) /\ (Complete' <=> Complete)
  BY <1>1, LoadedKept DEF Loaded, load_strategy
<1>13. exit = ""
  BY <1>1, <1>3 DEF ProveInv
<1>14. ProveInv'
  BY <1>1, <1>3, <1>12, <1>13 DEF ProveInv
<1> QED
  BY <1>6, <1>7, <1>11, <1>14 DEF CdInv

\* Nothing has been submitted.
LEMMA ConductorInit == Init => CdInv
<1> SUFFICES ASSUME Init PROVE CdInv
  OBVIOUS
<1>1. /\ pending = <<>> /\ running = <<>>
      /\ kill_ = [j \in Jobs |-> ""] /\ expected = Est
      /\ max_memory = [j \in Jobs |-> 0] /\ rss = [j \in Jobs |-> 0]
      /\ proc = [j \in Jobs |-> "none"] /\ overdue = {}
      /\ code = [j \in Jobs |-> NoCode] /\ future = [j \in Jobs |-> "none"]
  BY DEF Init, PRInit
<1>2. /\ args \in Args /\ stage = "begin" /\ step = 0 /\ all = {} /\ todo = {}
      /\ at = [b \in Blocks |-> "idle"] /\ verdict = [b \in Blocks |-> NoCode]
      /\ file \in [Steps -> SUBSET Blocks] /\ exit = ""
  BY DEF Init
<1>3. <<>> \in Seq(Jobs) /\ DOMAIN <<>> = {}
  OBVIOUS
<1>4. Range(<<>>) = {} /\ IsInjective(<<>>)
  BY <1>3 DEF Range, IsInjective
<1>5. PRTypeOK
  BY <1>1, <1>3, RunnerAssumption DEF PRTypeOK
<1>6. TypeOK
  <2>1. LastStep \in Nat
    BY ConductorAssumption
  <2>2. step \in 0 .. LastStep + 1
    <3>1. 0 \in 0 .. LastStep + 1
      BY <2>1
    <3>2. step = 0
      BY <1>2
    <3> QED
      BY <3>1, <3>2
  <2>3. verdict \in [Blocks -> Nat \cup {NoCode}] /\ at \in [Blocks -> {"idle", "select", "engine", "done"}]
    BY <1>2
  <2> QED
    BY <1>2, <1>5, <2>2, <2>3 DEF TypeOK
<1>7. Queued = {}
  BY <1>1, <1>4 DEF Queued
<1>8. RunnerInv
  BY <1>1, <1>4, <1>7 DEF RunnerInv
<1>9. GatherInv
  BY <1>1, <1>2 DEF GatherInv
<1>10. Loaded(0) = {}
  BY DEF Loaded, Steps
<1>11. ProveInv
  BY <1>2, <1>10 DEF ProveInv
<1> QED
  BY <1>6, <1>8, <1>9, <1>11 DEF CdInv

\* A step that changes nothing.
LEMMA ConductorStutter ==
  ASSUME CdInv, UNCHANGED vars
  PROVE  CdInv'
<1>1. UNCHANGED <<pending, running, kill_, expected, max_memory, proc, rss, overdue, code, future,
                  args, stage, step, all, todo, at, verdict, file, exit>>
  BY DEF vars, prVars, conductorVars
<1>2. TypeOK' /\ RunnerInv' /\ GatherInv'
  <2>1. TypeOK'
    BY <1>1 DEF CdInv, TypeOK, PRTypeOK
  <2>2. RunnerInv'
    BY <1>1 DEF CdInv, RunnerInv, Queued
  <2>3. GatherInv'
    BY <1>1 DEF CdInv, GatherInv, Awaits
  <2> QED
    BY <2>1, <2>2, <2>3
<1>3. Loaded(step)' = Loaded(step) /\ (Complete' <=> Complete)
  BY <1>1, LoadedKept DEF Loaded, load_strategy
<1>4. ProveInv'
  BY <1>1, <1>3 DEF CdInv, ProveInv
<1> QED
  BY <1>2, <1>4 DEF CdInv

\* The invariant holds whatever the runner kills and restarts, and whenever Ctrl-C comes.
THEOREM ConductorInvariance == Spec => []CdInv
<1>1. CdInv /\ [Next]_vars => CdInv'
  <2> SUFFICES ASSUME CdInv, [Next]_vars PROVE CdInv'
    OBVIOUS
  <2>1. CASE Main
    BY <2>1, ProveStepKeeps, ProveAllKeeps, ProveEndKeeps, ExploreStepKeeps, ExploreEndKeeps,
       BuildEndKeeps, RerunEndKeeps, PreparedKeeps, ProvedKeeps DEF Main
  <2>2. CASE Tick \/ Environment
    BY <2>2, ProcessesKeep
  <2>3. CASE Interrupt
    BY <2>3, InterruptKeeps
  <2>4. CASE KilledStoring
    BY <2>4, KilledStoringKeeps
  <2>5. CASE UNCHANGED vars
    BY <2>5, ConductorStutter
  <2> QED
    BY <2>1, <2>2, <2>3, <2>4, <2>5 DEF Next
<1> QED
  BY ConductorInit, <1>1, PTL DEF Spec

-----------------------------------------------------------------------------
(* The properties.                                                           *)

\* Type correctness: the lists, fields and futures of the runner and the variables of
\* the program keep their types.
THEOREM ConductorTyped == Spec => []TypeOK
<1>1. CdInv => TypeOK
  BY DEF CdInv
<1> QED
  BY <1>1, ConductorInvariance, PTL

\* No future is lost, no process is left behind, and none is in the lists twice
\* (ProcessRunner.poll).
THEOREM RunnerAccounts == Spec => []Accounted
<1>1. ASSUME CdInv PROVE Accounted
  <2>1. PRTypeOK /\ RunnerInv
    BY <1>1 DEF CdInv, TypeOK
  <2>2. pending \in Seq(Jobs) /\ running \in Seq(Jobs)
    BY <2>1 DEF PRTypeOK
  <2>3. IsInjective(pending) /\ IsInjective(running) /\ Range(pending) \cap Range(running) = {}
          => IsInjective(pending \o running)
    BY <2>2, ConcatFacts
  <2> QED
    BY <2>1, <2>3 DEF RunnerInv, Queued, Accounted
<1> QED
  BY <1>1, ConductorInvariance, PTL

\* Status 0 of "prove" means that everything loaded was proved, and with --check-complete
\* that every property was (prove_mode).
THEOREM ProveRight == Spec => []ProveMeansProved
<1>1. ASSUME CdInv PROVE ProveMeansProved
  <2>1. SUFFICES ASSUME exit = "ok", args.mode = "prove", ~args.by_step
                 PROVE  /\ \A s \in Steps : args.start <= s => \A b \in load_strategy(s) : verdict[b] = UNSAT
                        /\ args.check_complete =>
                             \A p \in selected :
                               \E b \in Blocks : p \in Covers[b] /\ at[b] = "done" /\ verdict[b] = UNSAT
    BY DEF ProveMeansProved
  <2>2. /\ all = Loaded(step) /\ step = LastStep + 1 /\ Complete
        /\ \A b \in all : at[b] = "done" /\ verdict[b] = UNSAT
    BY <1>1, <2>1 DEF CdInv, ProveInv
  <2>3. ASSUME NEW s \in Steps, args.start <= s, NEW b \in load_strategy(s) PROVE verdict[b] = UNSAT
    <3>1. LastStep \in Nat
      BY ConductorAssumption
    <3>2. s < LastStep + 1
      BY <3>1 DEF Steps
    <3>3. b \in Loaded(step)
      BY <2>2, <2>3, <3>2 DEF Loaded
    <3> QED
      BY <2>2, <3>3
  <2>4. ASSUME args.check_complete, NEW p \in selected
        PROVE  \E b \in Blocks : p \in Covers[b] /\ at[b] = "done" /\ verdict[b] = UNSAT
    <3>1. p \in PropsIn(all)
      BY <2>2, <2>4 DEF Complete, uncovered
    <3>2. PICK b \in all : p \in Covers[b]
      BY <3>1 DEF PropsIn
    <3>3. b \in Blocks
      BY <1>1 DEF CdInv, TypeOK
    <3> QED
      BY <2>2, <3>2, <3>3
  <2> QED
    BY <2>3, <2>4
<1> QED
  BY <1>1, ConductorInvariance, PTL

\* Only what an engine has proved in this invocation, by ending itself with UNSAT, is
\* added to a strategy file (construct_strategy, Process.poll).
THEOREM StoresProved == Spec => StoredProved
<1> DEFINE Right == \A s \in Steps : \A b \in file'[s] \ file[s] :
                      b \in todo /\ verdict[b] = UNSAT /\ future[EngineJob(b)] = "OK"
<1>1. CdInv /\ [Next]_vars => [Right]_vars
  <2> SUFFICES ASSUME CdInv, Next PROVE Right
    OBVIOUS
  <2>1. CASE BuildEnd
    <3>1. /\ GatherDone /\ stage = "build" /\ all' = load_strategy(step) \cup Found
          /\ file' = IF args.no_store THEN file ELSE [file EXCEPT ![step] = all']
      BY <2>1 DEF BuildEnd
    <3>2. TypeOK /\ RunnerInv /\ GatherInv /\ file \in [Steps -> SUBSET Blocks] /\ todo \subseteq Blocks
      BY DEF CdInv, TypeOK
    <3>3. step \in Steps /\ load_strategy(step) \subseteq file[step]
      BY <3>1, <3>2, Typed DEF CdInv, ProveInv
    <3>4. ASSUME NEW s \in Steps, NEW b \in file'[s] \ file[s]
          PROVE  b \in todo /\ verdict[b] = UNSAT /\ future[EngineJob(b)] = "OK"
      <4>1. b \in Found
        BY <3>1, <3>2, <3>3, <3>4
      <4>2. b \in todo /\ verdict[b] = UNSAT /\ b \in Blocks /\ at[b] = "done"
        BY <3>1, <3>2, <4>1 DEF Found, GatherDone
      <4>3. future[EngineJob(b)] \in Reasons /\ code[EngineJob(b)] = UNSAT /\ EngineJob(b) \in Jobs
        BY <3>2, <4>2, JobFacts DEF GatherInv
      <4>4. UNSAT # NoCode
        BY DEF UNSAT, NoCode
      <4> QED
        BY <3>2, <4>2, <4>3, <4>4 DEF RunnerInv
    <3> QED
      BY <3>4
  <2>2. CASE KilledStoring
    <3>1. /\ file' = [file EXCEPT ![step] = {}] /\ file \in [Steps -> SUBSET Blocks]
      BY <2>2 DEF KilledStoring, CdInv, TypeOK
    <3> QED
      BY <3>1
  <2>3. CASE ~BuildEnd /\ ~KilledStoring
    <3>1. file' = file
      BY <2>3 DEF Next, Main, Tick, Environment, Interrupt, conductorVars, ProveStep, ProveAll, ProveEnd,
                  ExploreStep, ExploreEnd, RerunEnd, Prepared, Proved
    <3> QED
      BY <3>1
  <2> QED
    BY <2>1, <2>2, <2>3
<1>2. StoredProved <=> [][Right]_vars
  BY DEF StoredProved
<1> QED
  BY <1>1, <1>2, ConductorInvariance, PTL DEF Spec

-----------------------------------------------------------------------------
(* The UVM regression.                                                       *)
\* Where a script stands, the verdicts and failure modes of a record, records and logs.
Places == {"idle", "lock", "body", "export", "export_raise", "export_old", "export2", "tool"}
Verdicts == {"unset", "yes", "no"}
Modes == {"unset", "TIMEOUT", "FILE_ERROR", "LOG_ERROR", "NONE"}
Records == [whole : BOOLEAN, passed : Verdicts, failure_mode : Modes]
Logs == [n : Nat, rtl : Nat, trace : Seq(STRING), lines : Seq(STRING), missed : BOOLEAN]
MakeRecords ==
  [state : {"idle", "running"}, keep_going : BOOLEAN, stale : SUBSET AllTargets,
   touched : SUBSET AllTargets, settled : SUBSET AllTargets, failed : SUBSET AllTargets]

\* Types: make and the scripts, the metadata and its lock, the records, the files in the output directory.
MakeTypeOK ==
  /\ DOMAIN tests \subseteq 1 .. MaxTests
  /\ make \in MakeRecords
  /\ pc \in [AllTargets -> Places]
MetadataTypeOK ==
  /\ md \in [state : {"none", "whole", "truncated"}, fields : SUBSET Locked]
  /\ holder \in (Locked \X {0}) \union {NoOne} /\ copy \in [Locked -> SUBSET Locked]
RecordsTypeOK == trr \in [1 .. MaxTests -> Records] /\ log \in [1 .. MaxTests -> Logs]
TreeTypeOK ==
  /\ rtl \in Nat /\ tb \in Nat
  /\ exists \in [AllTargets -> BOOLEAN] /\ fresh \in [AllTargets -> BOOLEAN]
RegrTypeOK == MakeTypeOK /\ MetadataTypeOK /\ RecordsTypeOK /\ TreeTypeOK

\* What the rules of ibex_sim.mk make of a run: a target is settled after its prerequisites, a script runs
\* while its prerequisites are settled and it is not, and nothing runs between two makes.
MakeOrder ==
  /\ make.state = "idle" => make = NoMake /\ \A s \in AllTargets : pc[s] = "idle"
  /\ make.touched \subseteq make.settled /\ make.settled \subseteq Targets
  /\ \A s \in make.settled : Prereqs(s) \subseteq make.settled
  /\ \A s \in Running : s \in Targets /\ s \notin make.settled /\ Prereqs(s) \subseteq make.settled

\* The targets whose script has written its field of the metadata: those whose tool runs, and those done in
\* this make (with COV=0 the coverage targets are touched and run no script).
Done(s) == pc[s] = "tool" \/ (s \in make.settled \intersect make.touched /\ (args_list.cov.n # 0 \/ s[1] \notin {"fcov", "merge"}))

\* LockedMetadata: whoever reads or writes the file holds the lock, and has in its copy every field that is
\* done, and with the change its own.
MetadataHeld ==
  /\ md.state = "whole" => \A t \in Locked : Done(<<t, 0>>) => t \in md.fields
  /\ \A t \in Locked :
       /\ pc[<<t, 0>>] \in {"body", "export", "export_raise"} =>
            holder = <<t, 0>> /\ \A u \in Locked : Done(<<u, 0>>) => u \in copy[t]
       /\ pc[<<t, 0>>] = "export" => t \in copy[t]

\* Test i was simulated with the testbench compiled last.
Simulated(i) == log[i].n >= 1 /\ log[i].rtl = tb

\* A testbench newer than the RTL is of the current RTL.  A log newer than its testbench, one that make
\* leaves as up to date, and one of a simulation settled in this make that left one, is of the current testbench.
SimulationsCurrent ==
  /\ fresh[<<"tb", 0>>] => tb = rtl
  /\ make.state # "idle" /\ (<<"tb", 0>> \notin make.stale \/ <<"tb", 0>> \in make.settled) => fresh[<<"tb", 0>>]
  /\ \A i \in DOMAIN tests :
       /\ fresh[<<"sim", i>>] => Simulated(i)
       /\ make.state # "idle" /\ <<"sim", i>> \notin make.stale /\ <<"tb", 0>> \notin make.touched => Simulated(i)
       /\ pc[<<"sim", i>>] \in {"export2", "export_old"} \/ <<"sim", i>> \in make.settled =>
            Simulated(i) \/ log[i].missed

\* What the log and the simulator's run say of test i.
Says(i) == Passing(log[i]) /\ trr[i].failure_mode # "TIMEOUT"

\* No pass without a log, and a pass on the first log only if the log says so.
Honest(i) ==
  /\ log[i].n = 0 => trr[i].passed # "yes" /\ log[i].trace = <<>>
  /\ log[i].n = 1 /\ trr[i].passed = "yes" /\ ~log[i].missed => Says(i)

\* A verdict is there, and is pass if the first log says so.
Judged(i) ==
  /\ trr[i].passed # "unset" \/ trr[i].failure_mode # "unset"
  /\ log[i].n = 1 /\ Says(i) => trr[i].passed = "yes"

\* Simulated in this make and not yet checked.
Pending(i) ==
  /\ make.state # "idle" /\ (<<"sim", i>> \in make.touched \/ pc[<<"sim", i>>] = "export2")
  /\ <<"check", i>> \notin make.settled
Passed == {i \in DOMAIN tests : trr[i].passed = "yes"}

\* A test whose last simulation left a log, that was not cut off between its simulation and its check, and does not wait for its
\* check, is judged; and the collection counts the records as they are.
VerdictsKept ==
  /\ \A i \in 1 .. MaxTests :
       /\ Honest(i)
       /\ i \notin cut /\ log[i].n > 0 /\ ~log[i].missed /\ ~Pending(i) => Judged(i)
       /\ pc[<<"check", i>>] = "export" /\ ~log[i].missed => Judged(i)
  /\ pc[<<"collect", 0>>] = "export" => report.passing = Passed

\* The inductive invariant.
RegrInv == RegrTypeOK /\ MakeOrder /\ MetadataHeld /\ SimulationsCurrent /\ VerdictsKept

-----------------------------------------------------------------------------

\* With no more than MaxTests tests the targets of the makefile are among AllTargets.
LEMMA TargetsBounded ==
  ASSUME RegrTypeOK
  PROVE  Targets \subseteq AllTargets
BY DEF RegrTypeOK, MakeTypeOK, Generated, Targets, AllTargets

\* A target is that of a script that takes the lock, or of one test.
LEMMA TargetKinds ==
  ASSUME NEW s \in AllTargets
  PROVE  /\ s = <<s[1], s[2]>>
         /\ \/ s[1] \in Locked /\ s[2] = 0
            \/ s[1] \in {"gen", "comp", "sim", "check"} /\ s[2] \in 1 .. MaxTests
BY DEF AllTargets, Locked

\* The targets of one test are those of a test in the metadata.
LEMMA TargetOfTest ==
  ASSUME NEW s \in Targets, s[1] \in {"gen", "comp", "sim", "check"}
  PROVE  s[2] \in DOMAIN tests
BY DEF Targets, Generated, Locked

\* Each test is compiled, simulated and checked; a directed test is not generated.
LEMMA TestTargets ==
  ASSUME NEW i \in DOMAIN tests
  PROVE  <<"comp", i>> \in Targets /\ <<"sim", i>> \in Targets /\ <<"check", i>> \in Targets
BY DEF Targets

\* The scripts that take the lock have one target each, two of them only where a test is generated.
LEMMA LockedTargets ==
  ASSUME NEW t \in Locked
  PROVE  <<t, 0>> \in AllTargets /\ (t \notin {"cfg", "ig"} => <<t, 0>> \in Targets)
BY DEF Targets, AllTargets

\* The configuration and the testbench depend on no other target.
LEMMA PrereqsNone == Prereqs(<<"cfg", 0>>) = {} /\ Prereqs(<<"tb", 0>>) = {}
BY DEF Prereqs

\* The chain of one test: generated, compiled, simulated on the testbench, checked, collected.
LEMMA PrereqsTest ==
  ASSUME NEW i \in DOMAIN tests
  PROVE  /\ \A p \in Targets : p \in Prereqs(<<"comp", i>>) <=> p = <<"gen", i>>
         /\ Prereqs(<<"sim", i>>) = {<<"tb", 0>>, <<"comp", i>>}
         /\ Prereqs(<<"check", i>>) = {<<"sim", i>>}
         /\ <<"check", i>> \in Prereqs(<<"collect", 0>>)
BY TestTargets, LockedTargets DEF Prereqs, Locked

\* A step of one target as make sees it: its script goes on, fails or is done.
TargetStep(s) ==
  /\ tests' = tests /\ s \in Targets /\ s \notin make.settled
  /\ Prereqs(s) \subseteq make.settled /\ make.state # "idle"
  /\ \/ make' = make /\ \E place \in Places : pc' = [pc EXCEPT ![s] = place]
     \/ pc' = [pc EXCEPT ![s] = "idle"] /\ make' = [make EXCEPT !.failed = @ \union {s}]
     \/ pc' = [pc EXCEPT ![s] = "idle"]
        /\ \E target \in {{}, {s}} : make' = [make EXCEPT !.settled = @ \union {s}, !.touched = @ \union target]

\* The rules depend on the list of tests alone.
LEMMA SameTargets ==
  ASSUME tests' = tests
  PROVE  Targets' = Targets /\ \A s : Prereqs(s)' = Prereqs(s)
<1>1. Targets' = Targets
  BY DEF Targets, Generated
<1> QED
  BY <1>1 DEF Prereqs

\* A step of one target keeps the order of make.
LEMMA StepKeepsOrder ==
  ASSUME RegrTypeOK, MakeOrder, NEW s, TargetStep(s)
  PROVE  MakeOrder'
<1>1. Targets' = Targets /\ \A x : Prereqs(x)' = Prereqs(x)
  BY SameTargets DEF TargetStep
<1>2. s \in AllTargets
  BY TargetsBounded DEF TargetStep
<1>3. CASE make' = make /\ \E place \in Places : pc' = [pc EXCEPT ![s] = place]
  <2>1. \A x \in AllTargets : x # s => pc'[x] = pc[x]
    BY <1>3 DEF RegrTypeOK, MakeTypeOK, MakeRecords
  <2>2. \A x \in Running' : x = s \/ x \in Running
    BY <2>1 DEF Running
  <2>3. s \in Targets /\ s \notin make.settled /\ Prereqs(s) \subseteq make.settled /\ make.state # "idle"
    BY DEF TargetStep
  <2> QED
    BY <1>1, <1>3, <2>2, <2>3 DEF MakeOrder
<1>4. CASE pc' = [pc EXCEPT ![s] = "idle"] /\ make' = [make EXCEPT !.failed = @ \union {s}]
  <2>1. \A x \in Running' : x \in Running
    BY <1>4, <1>2 DEF RegrTypeOK, MakeTypeOK, MakeRecords, Running
  <2>2. make'.state = make.state /\ make'.touched = make.touched /\ make'.settled = make.settled
    BY <1>4 DEF RegrTypeOK, MakeTypeOK, MakeRecords
  <2> QED
    BY <1>1, <2>1, <2>2 DEF MakeOrder, TargetStep
<1>5. CASE /\ pc' = [pc EXCEPT ![s] = "idle"]
           /\ \E target \in {{}, {s}} : make' = [make EXCEPT !.settled = @ \union {s}, !.touched = @ \union target]
  <2>1. \A x \in Running' : x \in Running /\ x # s
    BY <1>5, <1>2 DEF RegrTypeOK, MakeTypeOK, MakeRecords, Running
  <2>2. /\ make'.state = make.state /\ make'.settled = make.settled \union {s}
        /\ make'.touched \subseteq make.touched \union {s}
    BY <1>5 DEF RegrTypeOK, MakeTypeOK, MakeRecords
  <2>3. s \in Targets /\ Prereqs(s) \subseteq make.settled /\ make.state # "idle"
    BY DEF TargetStep
  <2> QED
    BY <1>1, <2>1, <2>2, <2>3 DEF MakeOrder
<1> QED
  BY <1>3, <1>4, <1>5 DEF TargetStep

\* A target that make may work on.
Ready(s) ==
  /\ s \in Targets /\ s \in AllTargets /\ s \notin make.settled
  /\ Prereqs(s) \subseteq make.settled /\ make.state # "idle"

\* A target that make considers is ready and not started.
LEMMA ConsideredReady ==
  ASSUME RegrTypeOK, NEW s \in Targets, Considered(s)
  PROVE  Ready(s) /\ pc[s] = "idle" /\ make.state = "running"
BY TargetsBounded DEF Considered, Ready

\* A target whose script runs is ready.
LEMMA RunningReady ==
  ASSUME RegrTypeOK, MakeOrder, NEW s \in Running
  PROVE  Ready(s) /\ pc[s] # "idle"
BY DEF MakeOrder, Ready, Running

\* Whatever make does with a target it considers is a step of that target.
LEMMA ConsiderSteps ==
  ASSUME RegrTypeOK, NEW s, Ready(s), pc[s] = "idle", Consider(s)
  PROVE  TargetStep(s)
<1> USE DEF Goto, Fail, Settle
<1>1. pc = [pc EXCEPT ![s] = "idle"]
  BY DEF RegrTypeOK, MakeTypeOK, MakeRecords, Ready
<1>2. ASSUME tests' = tests, make' = make, NEW place \in Places, pc' = [pc EXCEPT ![s] = place]
      PROVE  TargetStep(s)
  BY <1>2 DEF TargetStep, Ready
<1>3. ASSUME tests' = tests, Fail(s)
      PROVE  TargetStep(s)
  BY <1>3 DEF TargetStep, Ready
<1>4. ASSUME tests' = tests, pc' = pc, NEW target \in {{}, {s}},
             make' = [make EXCEPT !.settled = @ \union {s}, !.touched = @ \union target]
      PROVE  TargetStep(s)
  BY <1>1, <1>4 DEF TargetStep, Ready
<1>5. CASE Skip(s)
  <2>1. make' = [make EXCEPT !.settled = @ \union {s}, !.touched = @ \union {}]
    BY <1>5 DEF Skip, RegrTypeOK, MakeTypeOK, MakeRecords
  <2> QED
    BY <1>4, <1>5, <2>1 DEF Skip
<1>6. CASE StartLocked(s)
  BY <1>2, <1>6 DEF StartLocked, Places
<1>7. CASE touch(s)
  BY <1>4, <1>7 DEF touch
<1>8. ASSUME NEW found, merge_cov(s, found)
      PROVE  TargetStep(s)
  BY <1>2, <1>3, <1>8 DEF merge_cov, Places
<1>9. CASE ReadFails(s)
  BY <1>3, <1>9 DEF ReadFails
<1>10. ASSUME NEW listed, NEW ret, NEW scratch, run_instr_gen(s, listed, ret, scratch)
       PROVE  TargetStep(s)
  BY <1>2, <1>3, <1>10 DEF run_instr_gen, Places
<1>11. ASSUME NEW ret, compile_cmds(s, ret)
       PROVE  TargetStep(s)
  BY <1>2, <1>3, <1>11 DEF compile_cmds, Places
<1>12. CASE get_sim_cmds(s)
  BY <1>2, <1>3, <1>12 DEF get_sim_cmds, Places
<1>13. CASE check_logs(s)
  BY <1>2, <1>3, <1>13 DEF check_logs, Places
<1> QED
  BY <1>5, <1>6, <1>7, <1>8, <1>9, <1>10, <1>11, <1>12, <1>13 DEF Consider

\* Whatever a running script does is a step of its target.
LEMMA ContinueSteps ==
  ASSUME RegrTypeOK, NEW s, Ready(s), Continue(s)
  PROVE  TargetStep(s)
<1> USE DEF Goto, Settle
<1>2. ASSUME tests' = tests, make' = make, NEW place \in Places, pc' = [pc EXCEPT ![s] = place]
      PROVE  TargetStep(s)
  BY <1>2 DEF TargetStep, Ready
<1>3. ASSUME tests' = tests, Fail(s)
      PROVE  TargetStep(s)
  BY <1>3 DEF Fail, TargetStep, Ready
<1>4. ASSUME tests' = tests, pc' = [pc EXCEPT ![s] = "idle"], NEW target \in {{}, {s}},
             make' = [make EXCEPT !.settled = @ \union {s}, !.touched = @ \union target]
      PROVE  TargetStep(s)
  BY <1>4 DEF TargetStep, Ready
<1>5. CASE enter(s)
  BY <1>2, <1>3, <1>5 DEF enter, Places
<1>6. CASE handler(s)
  BY <1>3, <1>6 DEF handler
<1>7. CASE body(s)
  BY <1>2, <1>7 DEF body, Places
<1>8. CASE leave(s)
  BY <1>2, <1>3, <1>4, <1>8 DEF leave, Places
<1>9. ASSUME NEW rc, tool(s, rc)
      PROVE  TargetStep(s)
  BY <1>3, <1>4, <1>9 DEF tool
<1>10. CASE GenExported(s)
  BY <1>4, <1>10 DEF GenExported
<1>11. CASE CompExported(s)
  BY <1>2, <1>11 DEF CompExported, Places
<1>12. ASSUME NEW ret, compile_test(s, ret)
       PROVE  TargetStep(s)
  BY <1>3, <1>4, <1>12 DEF compile_test
<1>13. CASE SimExported(s)
  BY <1>2, <1>13 DEF SimExported, Places
<1>14. ASSUME NEW sim, run_rtl(s, sim)
       PROVE  TargetStep(s)
  BY <1>2, <1>14 DEF run_rtl, Places
<1>15. CASE SimEnds(s)
  BY <1>4, <1>15 DEF SimEnds
<1>17. ASSUME NEW killed, NothingSimulated(s, killed)
       PROVE  TargetStep(s)
  BY <1>2, <1>17 DEF NothingSimulated, Places
<1>16. CASE CheckExported(s)
  BY <1>4, <1>16 DEF CheckExported
<1> QED
  BY <1>5, <1>6, <1>7, <1>8, <1>9, <1>10, <1>11, <1>12, <1>13, <1>14, <1>15, <1>16, <1>17 DEF Continue

\* Steps of make as a whole: the state between two makes has its type.
LEMMA NoMakeTyped == NoMake \in MakeRecords
BY DEF NoMake, MakeRecords

\* A make that has been started has done nothing yet.
LEMMA StartedFacts ==
  ASSUME NEW k, NEW S
  PROVE  /\ Started(k, S).state = "running" /\ Started(k, S).stale = S
         /\ Started(k, S).touched = {} /\ Started(k, S).settled = {}
         /\ k \in BOOLEAN /\ S \subseteq AllTargets => Started(k, S) \in MakeRecords
<1>1. Started(k, S) = [state |-> "running", keep_going |-> k, stale |-> S, touched |-> {}, settled |-> {}, failed |-> {}]
  BY DEF Started
<1> QED
  BY <1>1 DEF MakeRecords

\* The start, the end and the interrupt of a make, and an edit of the RTL, keep the order.
LEMMA MakesKeepOrder ==
  ASSUME RegrTypeOK, MakeOrder, StartMake \/ EndMake \/ EditRtl \/ CtrlC
  PROVE  MakeOrder'
<1>1. CASE StartMake
  <2>1. make = NoMake /\ pc' = pc /\ \A s \in AllTargets : pc[s] = "idle"
    BY <1>1 DEF StartMake, MakeOrder
  <2>2. make' = make \/ (make'.state = "running" /\ make'.touched = {} /\ make'.settled = {})
    BY <1>1, StartedFacts DEF StartMake
  <2> QED
    BY <2>1, <2>2 DEF MakeOrder, NoMake, Running
<1>2. CASE EndMake
  <2>1. make' = NoMake /\ pc' = pc /\ \A s \in AllTargets : pc[s] = "idle"
    BY <1>2 DEF EndMake, Running
  <2> QED
    BY <2>1 DEF MakeOrder, NoMake, Running
<1>3. CASE EditRtl
  <2>1. UNCHANGED <<tests, make, pc>>
    BY <1>3 DEF EditRtl
  <2>2. Targets' = Targets /\ \A x : Prereqs(x)' = Prereqs(x)
    BY <2>1, SameTargets
  <2> QED
    BY <2>1, <2>2 DEF MakeOrder, Running
<1>4. CASE CtrlC
  <2>1. make' = NoMake /\ pc' = [s \in AllTargets |-> "idle"]
    BY <1>4 DEF CtrlC
  <2> QED
    BY <2>1 DEF MakeOrder, NoMake, Running
<1> QED
  BY <1>1, <1>2, <1>3, <1>4

\* Types: a step of one target keeps those of make and of the scripts.
LEMMA StepTyped ==
  ASSUME RegrTypeOK, NEW s, TargetStep(s)
  PROVE  /\ make' \in MakeRecords
         /\ pc' \in [AllTargets -> Places]
         /\ DOMAIN tests' \subseteq 1 .. MaxTests
<1>1. s \in AllTargets /\ "idle" \in Places
  BY TargetsBounded DEF TargetStep, Places
<1>2. pc' \in [AllTargets -> Places]
  BY <1>1 DEF TargetStep, RegrTypeOK, MakeTypeOK, MakeRecords
<1>3. make' \in MakeRecords
  <2>1. CASE make' = make \/ make' = [make EXCEPT !.failed = @ \union {s}]
    BY <1>1, <2>1 DEF RegrTypeOK, MakeTypeOK, MakeRecords
  <2>2. ASSUME NEW target \in {{}, {s}},
               make' = [make EXCEPT !.settled = @ \union {s}, !.touched = @ \union target]
        PROVE  make' \in MakeRecords
    BY <1>1, <2>2 DEF RegrTypeOK, MakeTypeOK, MakeRecords
  <2> QED
    BY <2>1, <2>2 DEF TargetStep
<1> QED
  BY <1>2, <1>3 DEF TargetStep, RegrTypeOK, MakeTypeOK, MakeRecords

\* Writing a target keeps the types of the tree.
LEMMA TouchTyped ==
  ASSUME RegrTypeOK, NEW s, Touch(s) \/ SamePath
  PROVE  exists' \in [AllTargets -> BOOLEAN] /\ fresh' \in [AllTargets -> BOOLEAN]
<1>1. exists \in [AllTargets -> BOOLEAN] /\ fresh \in [AllTargets -> BOOLEAN]
  BY DEF RegrTypeOK, TreeTypeOK
<1> QED
  BY <1>1 DEF Touch, SamePath

\* Writing a record, in one or the other half of export, keeps the types of the records.
LEMMA RecordTyped ==
  ASSUME NEW i \in 1 .. MaxTests, RegrTypeOK
  PROVE  /\ trr[i] \in Records /\ log[i] \in Logs
         /\ \A r \in Records : Opened(i, r) => trr' \in [1 .. MaxTests -> Records]
         /\ Closed(i) => trr' \in [1 .. MaxTests -> Records]
<1>1. trr \in [1 .. MaxTests -> Records] /\ log \in [1 .. MaxTests -> Logs]
  BY DEF RegrTypeOK, RecordsTypeOK
<1>2. \A r \in Records : [r EXCEPT !.whole = FALSE] \in Records /\ [r EXCEPT !.whole = TRUE] \in Records
  BY DEF Records
<1>3. Closed(i) => trr' = [trr EXCEPT ![i] = [trr[i] EXCEPT !.whole = TRUE]]
  BY DEF Closed
<1> QED
  BY <1>1, <1>2, <1>3 DEF Opened

\* A simulator that leaves nothing leaves the log of the one before, its lines perhaps emptied.
LEMMA MissedLog ==
  ASSUME RegrTypeOK, NEW s, Ready(s), NEW killed, NothingSimulated(s, killed)
  PROVE  LET i == s[2] IN
         /\ i \in 1 .. MaxTests /\ log'[i] \in Logs /\ log' = [log EXCEPT ![i] = log'[i]]
         /\ log'[i].n = log[i].n /\ log'[i].rtl = log[i].rtl /\ log'[i].trace = log[i].trace /\ log'[i].missed
<1> DEFINE i == s[2]
<1>1. i \in 1 .. MaxTests
  BY TargetKinds DEF NothingSimulated, Ready, Locked
<1>2. log \in [1 .. MaxTests -> Logs] /\ log[i] \in Logs
  BY <1>1 DEF RegrTypeOK, RecordsTypeOK
<1>3. log[i].lines \in Seq(STRING)
  BY <1>2 DEF Logs
<1>4. <<>> \in Seq(STRING)
  OBVIOUS
<1> DEFINE lines == IF args_list.simulator = "vcs" THEN <<>> ELSE log[i].lines
<1>5. lines \in Seq(STRING)
  BY <1>3, <1>4
<1>6. log' = [log EXCEPT ![i] = [log[i] EXCEPT !.missed = TRUE, !.lines = lines]]
  BY <1>1, <1>2 DEF NothingSimulated
<1> HIDE DEF lines
<1>7. log'[i] = [log[i] EXCEPT !.missed = TRUE, !.lines = lines]
  BY <1>1, <1>2, <1>6
<1>8. /\ log'[i] \in Logs /\ log'[i].n = log[i].n /\ log'[i].rtl = log[i].rtl
      /\ log'[i].trace = log[i].trace /\ log'[i].missed
  BY <1>2, <1>5, <1>7 DEF Logs
<1> QED
  BY <1>1, <1>6, <1>7, <1>8

\* compare_test_run returns a record.
LEMMA CompareTyped ==
  ASSUME NEW r \in Records, NEW l
  PROVE  compare_test_run(r, l) \in Records
<1>1. check_ibex_uvm_log(l.lines).mode \in Modes
  BY DEF check_ibex_uvm_log, Modes
<1>2. \A p \in Verdicts, m \in Modes :
        [r EXCEPT !.passed = p] \in Records /\ [r EXCEPT !.failure_mode = m] \in Records
        /\ [r EXCEPT !.passed = p, !.failure_mode = m] \in Records
  BY DEF Records
<1>3. {"yes", "no"} \subseteq Verdicts /\ "FILE_ERROR" \in Modes
  BY DEF Verdicts, Modes
<1> QED
  BY <1>1, <1>2, <1>3 DEF compare_test_run

\* The types are kept when make considers a target,
LEMMA ConsiderTyped ==
  ASSUME RegrTypeOK, NEW s, Ready(s), TargetStep(s), Consider(s)
  PROVE  RegrTypeOK'
<1>1. MakeTypeOK'
  BY StepTyped DEF MakeTypeOK
<1>2. MetadataTypeOK'
  <2>1. UNCHANGED <<md, holder, copy>>
    BY DEF Consider, Skip, StartLocked, touch, merge_cov, ReadFails, run_instr_gen, compile_cmds,
           get_sim_cmds, check_logs
  <2> QED
    BY <2>1 DEF RegrTypeOK, MetadataTypeOK
<1>3. TreeTypeOK'
  <2>1. UNCHANGED <<rtl, tb>> /\ (Touch(s) \/ SamePath)
    BY DEF Consider, Skip, StartLocked, touch, merge_cov, ReadFails, run_instr_gen, compile_cmds,
           get_sim_cmds, check_logs, SamePath
  <2> QED
    BY <2>1, TouchTyped DEF RegrTypeOK, TreeTypeOK
<1>4. RecordsTypeOK'
  <2>1. log' = log
    BY DEF Consider, Skip, StartLocked, touch, merge_cov, ReadFails, run_instr_gen, compile_cmds,
           get_sim_cmds, check_logs
  <2>2. CASE trr' = trr
    BY <2>1, <2>2 DEF RegrTypeOK, RecordsTypeOK
  <2>3. CASE trr' # trr
    <3>1. /\ s[1] \in {"gen", "comp", "sim", "check"}
          /\ Opened(s[2], trr[s[2]]) \/ Opened(s[2], compare_test_run(trr[s[2]], log[s[2]]))
      BY <2>3 DEF Consider, Skip, StartLocked, touch, merge_cov, ReadFails, run_instr_gen, compile_cmds,
           get_sim_cmds, check_logs
    <3>2. s[2] \in 1 .. MaxTests
      BY <3>1, TargetKinds DEF Ready, Locked
    <3> QED
      BY <2>1, <3>1, <3>2, RecordTyped, CompareTyped DEF RegrTypeOK, RecordsTypeOK
  <2> QED
    BY <2>2, <2>3
<1> QED
  BY <1>1, <1>2, <1>3, <1>4 DEF RegrTypeOK

\* when a script goes on,
LEMMA ContinueTyped ==
  ASSUME RegrTypeOK, NEW s, Ready(s), TargetStep(s), Continue(s)
  PROVE  RegrTypeOK'
<1>1. MakeTypeOK'
  BY StepTyped DEF MakeTypeOK
<1>2. MetadataTypeOK'
  <2> USE TargetKinds DEF RegrTypeOK, MetadataTypeOK, Ready
  <2>1. CASE UNCHANGED <<md, holder, copy>>
    BY <2>1
  <2>0. s[1] \in Locked => s \in Locked \X {0}
    BY DEF Locked
  <2>2. CASE enter(s)
    BY <2>2, <2>0 DEF enter
  <2>3. CASE body(s)
    BY <2>3, <2>0 DEF body
  <2>4. CASE leave(s)
    BY <2>4 DEF leave, NoOne
  <2> QED
    BY <2>1, <2>2, <2>3, <2>4 DEF Continue, handler, tool, GenExported, CompExported, compile_test,
                                  SimExported, run_rtl, NothingSimulated, SimEnds, CheckExported
<1>3. TreeTypeOK'
  <2>1. CASE UNCHANGED <<rtl, tb>> /\ (Touch(s) \/ SamePath)
    BY <2>1, TouchTyped DEF RegrTypeOK, TreeTypeOK
  <2>2. ASSUME NEW rc, tool(s, rc)
        PROVE  TreeTypeOK'
    BY <2>2, TouchTyped DEF tool, RegrTypeOK, TreeTypeOK
  <2>3. CASE UNCHANGED <<rtl, tb>> /\ Closed(s[2])
    BY <2>3, TouchTyped DEF RegrTypeOK, TreeTypeOK, Closed
  <2> QED
    BY <2>1, <2>2, <2>3 DEF Continue, enter, handler, body, leave, GenExported, CompExported, compile_test,
                            SimExported, run_rtl, NothingSimulated, SimEnds, CheckExported, SamePath
<1>4. RecordsTypeOK'
  <2>1. CASE UNCHANGED <<log, trr>>
    BY <2>1 DEF RegrTypeOK, RecordsTypeOK
  <2>2. ASSUME NEW killed, NEW l \in Logs, s[1] = "sim", Recorded(s[2], killed), log' = [log EXCEPT ![s[2]] = l]
        PROVE  RecordsTypeOK'
    <3>1. s[2] \in 1 .. MaxTests
      BY <2>2, TargetKinds DEF Ready, Locked
    <3>2. trr[s[2]] \in Records /\ [trr[s[2]] EXCEPT !.failure_mode = "TIMEOUT"] \in Records
      BY <3>1, RecordTyped DEF Records, Modes
    <3>3. trr' \in [1 .. MaxTests -> Records]
      BY <2>2, <3>1, <3>2, RecordTyped DEF Recorded
    <3>4. log' \in [1 .. MaxTests -> Logs]
      BY <2>2, <3>1 DEF RegrTypeOK, RecordsTypeOK
    <3> QED
      BY <3>3, <3>4 DEF RecordsTypeOK
  <2>4. ASSUME NEW sim \in Sims, run_rtl(s, sim)
        PROVE  RecordsTypeOK'
    <3> DEFINE l == [n |-> log[s[2]].n + 1, rtl |-> tb, trace |-> sim.trace, lines |-> sim.lines, missed |-> FALSE]
    <3>1. log[s[2]] \in Logs /\ tb \in Nat
      BY <2>4, TargetKinds, RecordTyped DEF run_rtl, Ready, Locked, RegrTypeOK, TreeTypeOK
    <3>2. l \in Logs
      BY <3>1, SimsAssumption DEF Logs
    <3>3. s[1] = "sim" /\ Recorded(s[2], sim.killed) /\ log' = [log EXCEPT ![s[2]] = l]
      BY <2>4 DEF run_rtl
    <3> QED
      BY <2>2, <3>2, <3>3
  <2>5. ASSUME NEW killed \in BOOLEAN, NothingSimulated(s, killed)
        PROVE  RecordsTypeOK'
    <3>1. s[1] = "sim" /\ Recorded(s[2], killed)
      BY <2>5 DEF NothingSimulated
    <3>2. PICK l \in Logs : log' = [log EXCEPT ![s[2]] = l]
      BY <2>5, MissedLog
    <3> QED
      BY <2>2, <3>1, <3>2
  <2>3. CASE log' = log /\ s[1] \in {"gen", "comp", "sim", "check"} /\ Closed(s[2])
    <3>1. s[2] \in 1 .. MaxTests
      BY <2>3, TargetKinds DEF Ready, Locked
    <3> QED
      BY <2>3, <3>1, RecordTyped DEF RegrTypeOK, RecordsTypeOK
  <2> QED
    BY <2>1, <2>3, <2>4, <2>5 DEF Continue, enter, handler, body, leave, tool, GenExported, CompExported,
                                  compile_test, SimExported, SimEnds, CheckExported
<1> QED
  BY <1>1, <1>2, <1>3, <1>4 DEF RegrTypeOK

\* and when make starts, ends or is interrupted or the RTL is edited.
LEMMA MakesTyped ==
  ASSUME RegrTypeOK, StartMake \/ EndMake \/ EditRtl \/ CtrlC
  PROVE  RegrTypeOK'
<1>1. MakeTypeOK'
  <2>1. CASE StartMake
    <3>1. DOMAIN tests' \subseteq 1 .. MaxTests
      BY <2>1 DEF StartMake, RegrTypeOK, MakeTypeOK, MakeRecords
    <3>2. pc' = pc /\ \E k \in BOOLEAN :
            \/ make' = make \/ make' = Started(k, AllTargets)
            \/ make' = Started(k, {s \in Targets : ~fresh[s] \/ \E p \in Prereqs(s) : ~exists[p]})
      BY <2>1 DEF StartMake
    <3>3. Targets \subseteq AllTargets
      BY TargetsBounded
    <3> DEFINE old == {s \in Targets : ~fresh[s] \/ \E p \in Prereqs(s) : ~exists[p]}
    <3>4. old \subseteq AllTargets
      BY <3>3
    <3> HIDE DEF old
    <3>5. \E k \in BOOLEAN : make' = make \/ make' = Started(k, AllTargets) \/ make' = Started(k, old)
      BY <3>2 DEF old
    <3> QED
      BY <3>1, <3>2, <3>4, <3>5, StartedFacts DEF RegrTypeOK, MakeTypeOK
  <2>2. CASE EndMake \/ CtrlC \/ EditRtl
    BY <2>2, NoMakeTyped DEF EndMake, CtrlC, EditRtl, RegrTypeOK, MakeTypeOK, MakeRecords, Places
  <2> QED
    BY <2>1, <2>2
<1>2. MetadataTypeOK'
  <2>1. CASE StartMake \/ EndMake \/ EditRtl
    <3>1. UNCHANGED <<holder, copy>> /\ (md' = md \/ md' = [state |-> "whole", fields |-> {}])
      BY <2>1 DEF StartMake, EndMake, EditRtl
    <3>2. [state |-> "whole", fields |-> {}] \in [state : {"none", "whole", "truncated"}, fields : SUBSET Locked]
      OBVIOUS
    <3> QED
      BY <3>1, <3>2 DEF RegrTypeOK, MetadataTypeOK
  <2>2. CASE CtrlC
    BY <2>2 DEF CtrlC, RegrTypeOK, MetadataTypeOK
  <2> QED
    BY <2>1, <2>2
<1>3. RecordsTypeOK'
  BY DEF StartMake, EndMake, EditRtl, CtrlC, RegrTypeOK, RecordsTypeOK
<1>4. TreeTypeOK'
  <2>1. CASE StartMake
    <3>1. UNCHANGED <<rtl, tb>>
      BY <2>1 DEF StartMake
    <3>2. exists' \in [AllTargets -> BOOLEAN] /\ fresh' \in [AllTargets -> BOOLEAN]
      <4>1. CASE UNCHANGED <<exists, fresh>>
        BY <4>1 DEF RegrTypeOK, TreeTypeOK
      <4>2. \A new : RecordsOnly(new) \in [AllTargets -> BOOLEAN]
        BY DEF RecordsOnly
      <4> QED
        BY <2>1, <4>1, <4>2 DEF StartMake
    <3> QED
      BY <3>1, <3>2 DEF RegrTypeOK, TreeTypeOK
  <2>2. CASE EndMake
    BY <2>2 DEF EndMake, RegrTypeOK, TreeTypeOK
  <2>4. CASE EditRtl
    <3>1. rtl' = rtl + 1 /\ tb' = tb /\ exists' = exists /\ fresh' = [fresh EXCEPT ![<<"tb", 0>>] = FALSE]
      BY <2>4 DEF EditRtl
    <3>2. rtl \in Nat /\ tb \in Nat /\ exists \in [AllTargets -> BOOLEAN] /\ fresh \in [AllTargets -> BOOLEAN]
      BY DEF RegrTypeOK, TreeTypeOK
    <3>3. rtl' \in Nat
      BY <3>1, <3>2
    <3>4. fresh' \in [AllTargets -> BOOLEAN]
      BY <3>1, <3>2
    <3> QED
      BY <3>1, <3>2, <3>3, <3>4 DEF TreeTypeOK
  <2>3. CASE CtrlC
    <3>1. PICK gone : /\ exists' = [s \in AllTargets |-> exists[s] /\ s \notin gone]
                      /\ fresh' = [s \in AllTargets |-> fresh[s] /\ s \notin gone]
      BY <2>3 DEF CtrlC
    <3> QED
      BY <2>3, <3>1 DEF CtrlC, RegrTypeOK, TreeTypeOK
  <2> QED
    BY <2>1, <2>2, <2>3, <2>4
<1> QED
  BY <1>1, <1>2, <1>3, <1>4 DEF RegrTypeOK

-----------------------------------------------------------------------------

\* A step of one target leaves the other scripts where they are.
LEMMA DoneElsewhere ==
  ASSUME RegrTypeOK, NEW s, TargetStep(s), args_list' = args_list, NEW t \in Locked, s # <<t, 0>>
  PROVE  pc'[<<t, 0>>] = pc[<<t, 0>>] /\ Done(<<t, 0>>)' = Done(<<t, 0>>)
<1>1. <<t, 0>> \in AllTargets
  BY LockedTargets
<1>2. pc'[<<t, 0>>] = pc[<<t, 0>>]
  BY <1>1 DEF TargetStep, RegrTypeOK, MakeTypeOK, MakeRecords
<1>3. <<t, 0>> \in make'.settled \intersect make'.touched <=> <<t, 0>> \in make.settled \intersect make.touched
  <2>1. CASE make' = make \/ make' = [make EXCEPT !.failed = @ \union {s}]
    BY <2>1 DEF RegrTypeOK, MakeTypeOK, MakeRecords
  <2>2. ASSUME NEW target \in {{}, {s}},
               make' = [make EXCEPT !.settled = @ \union {s}, !.touched = @ \union target]
        PROVE  <<t, 0>> \in make'.settled \intersect make'.touched <=> <<t, 0>> \in make.settled \intersect make.touched
    BY <2>2 DEF RegrTypeOK, MakeTypeOK, MakeRecords
  <2> QED
    BY <2>1, <2>2 DEF TargetStep
<1> QED
  BY <1>2, <1>3, Zenon DEF Done

\* A step that leaves the metadata alone and does not end a script that has written its field.
LEMMA MetadataLeft ==
  ASSUME RegrTypeOK, MetadataHeld, NEW s, TargetStep(s), UNCHANGED <<md, holder, copy, args_list>>,
         s[1] \in Locked => (Done(s)' => Done(s)) /\ pc'[s] \notin {"body", "export", "export_raise"}
  PROVE  MetadataHeld'
<1>1. ASSUME NEW t \in Locked
      PROVE  /\ Done(<<t, 0>>)' => Done(<<t, 0>>)
             /\ pc'[<<t, 0>>] \in {"body", "export", "export_raise"} => pc'[<<t, 0>>] = pc[<<t, 0>>]
  <2>1. CASE s = <<t, 0>>
    BY <2>1
  <2>2. CASE s # <<t, 0>>
    BY <2>2, DoneElsewhere
  <2> QED
    BY <2>1, <2>2
<1>2. md'.state = "whole" => \A t \in Locked : Done(<<t, 0>>)' => t \in md'.fields
  BY <1>1 DEF MetadataHeld
<1>3. ASSUME NEW t \in Locked
      PROVE  /\ pc'[<<t, 0>>] \in {"body", "export", "export_raise"} =>
                  holder' = <<t, 0>> /\ \A u \in Locked : Done(<<u, 0>>)' => u \in copy'[t]
             /\ pc'[<<t, 0>>] = "export" => t \in copy'[t]
  <2>1. /\ pc[<<t, 0>>] \in {"body", "export", "export_raise"} =>
             holder = <<t, 0>> /\ \A u \in Locked : Done(<<u, 0>>) => u \in copy[t]
        /\ pc[<<t, 0>>] = "export" => t \in copy[t]
    BY DEF MetadataHeld
  <2> QED
    BY <1>1, <2>1
<1> QED
  BY <1>2, <1>3 DEF MetadataHeld

\* The metadata is held when make considers a target: nothing it starts writes a field yet,
LEMMA MetadataConsider ==
  ASSUME RegrTypeOK, MakeOrder, MetadataHeld, NEW s, Ready(s), pc[s] = "idle", TargetStep(s), Consider(s)
  PROVE  MetadataHeld'
<1>1. UNCHANGED <<md, holder, copy, args_list>>
  BY DEF Consider, Skip, StartLocked, touch, merge_cov, ReadFails, run_instr_gen, compile_cmds,
         get_sim_cmds, check_logs
<1>2. s \notin make.touched
  BY DEF MakeOrder, Ready
<1>3. ASSUME s[1] \in Locked
      PROVE  ~Done(s)' /\ pc'[s] \notin {"body", "export", "export_raise"}
  <2>1. CASE Skip(s)
    <3>1. pc' = pc /\ s \notin make'.touched
      BY <1>2, <2>1 DEF Skip, RegrTypeOK, MakeTypeOK, MakeRecords
    <3> QED
      BY <3>1 DEF Done
  <2>2. CASE touch(s)
    <3>1. pc' = pc /\ args_list'.cov.n = 0 /\ s[1] \in {"fcov", "merge"}
      BY <2>2 DEF touch, CovOff
    <3> QED
      BY <3>1 DEF Done
  <2>3. CASE ~Skip(s) /\ ~touch(s)
    <3>1. make'.touched = make.touched /\ pc'[s] \in {"lock", "idle"}
      <4>1. s[1] # "gen" /\ s[1] # "comp" /\ s[1] # "sim" /\ s[1] # "check" /\ s[2] = 0
        BY <1>3, TargetKinds DEF Locked, Ready
      <4>2. StartLocked(s) \/ \E found \in BOOLEAN : merge_cov(s, found)
        BY <2>3, <4>1 DEF Consider, ReadFails, run_instr_gen, compile_cmds, get_sim_cmds, check_logs
      <4> QED
        BY <4>2 DEF StartLocked, merge_cov, Goto, Fail, RegrTypeOK, MakeTypeOK, MakeRecords, Ready
    <3> QED
      BY <1>2, <3>1 DEF Done
  <2> QED
    BY <2>1, <2>2, <2>3
<1> QED
  BY <1>1, <1>3, MetadataLeft

\* The owner of a lock is not no one.
LEMMA NotNoOne ==
  ASSUME NEW s, s[1] \in Locked
  PROVE  s # NoOne
BY DEF NoOne, Locked

\* when a script takes the lock, and with it a copy of the whole file,
LEMMA MetadataEnter ==
  ASSUME RegrTypeOK, MakeOrder, MetadataHeld, NEW s, Ready(s), TargetStep(s), enter(s)
  PROVE  MetadataHeld'
<1>1. s = <<s[1], 0>> /\ s[1] \in Locked
  BY TargetKinds DEF enter, Ready, Locked
<1>2. CASE md.state # "whole"
  <2>1. UNCHANGED <<md, holder, copy, args_list>> /\ Fail(s)
    BY <1>2 DEF enter
  <2>2. pc'[s] = "idle" /\ make'.touched = make.touched /\ s \notin make.touched
    BY <2>1 DEF Fail, Goto, RegrTypeOK, MakeTypeOK, MakeRecords, Ready, MakeOrder
  <2> QED
    BY <2>1, <2>2, MetadataLeft DEF Done
<1>3. CASE md.state = "whole"
  <2>1. /\ md' = md /\ make' = make /\ args_list' = args_list
        /\ pc'[s] = "body" /\ holder' = s /\ copy'[s[1]] = md.fields
    BY <1>1, <1>3 DEF enter, Goto, Ready, RegrTypeOK, MakeTypeOK, MakeRecords, MetadataTypeOK
  <2>2. \A t \in Locked : pc[<<t, 0>>] \notin {"body", "export", "export_raise"}
    <3>1. \A t \in Locked : <<t, 0>> # NoOne
      BY NotNoOne
    <3> QED
      BY <3>1 DEF MetadataHeld, enter
  <2>3. \A t \in Locked : Done(<<t, 0>>)' => Done(<<t, 0>>)
    <3>1. ~Done(s)'
      BY <2>1 DEF Done, Ready
    <3> QED
      BY <1>1, <2>1, <3>1, DoneElsewhere
  <2>4. \A t \in Locked : <<t, 0>> # s => pc'[<<t, 0>>] \notin {"body", "export", "export_raise"}
    BY <2>1, <2>2, DoneElsewhere
  <2>5. \A t \in Locked : Done(<<t, 0>>)' => t \in md.fields
    BY <1>3, <2>3 DEF MetadataHeld
  <2>6. ASSUME NEW t \in Locked
        PROVE  /\ pc'[<<t, 0>>] \in {"body", "export", "export_raise"} =>
                    holder' = <<t, 0>> /\ \A u \in Locked : Done(<<u, 0>>)' => u \in copy'[t]
               /\ pc'[<<t, 0>>] = "export" => t \in copy'[t]
    <3>1. CASE <<t, 0>> # s
      BY <2>4, <3>1
    <3>2. CASE <<t, 0>> = s
      <4>1. t = s[1]
        BY <3>2
      <4> QED
        BY <2>1, <2>5, <3>2, <4>1
    <3> QED
      BY <3>1, <3>2
  <2> QED
    BY <2>1, <2>5, <2>6, Zenon DEF MetadataHeld
<1> QED
  BY <1>2, <1>3

\* when its holder changes its field in the copy and opens the file,
LEMMA MetadataBody ==
  ASSUME RegrTypeOK, MakeOrder, MetadataHeld, NEW s, Ready(s), TargetStep(s), body(s)
  PROVE  MetadataHeld'
<1>1. s = <<s[1], 0>> /\ s[1] \in Locked
  BY TargetKinds DEF body, Ready, Locked
<1>2. /\ md'.state = "truncated" /\ make' = make /\ args_list' = args_list /\ holder' = holder
      /\ pc'[s] \in {"export", "export_raise"} /\ pc[s] = "body"
  BY <1>1 DEF body, Goto, Ready, RegrTypeOK, MakeTypeOK, MakeRecords, MetadataTypeOK
<1>3. copy[s[1]] \subseteq copy'[s[1]] /\ (pc'[s] = "export" => s[1] \in copy'[s[1]])
  BY <1>1 DEF body, Goto, Ready, RegrTypeOK, MakeTypeOK, MakeRecords, MetadataTypeOK
<1>4. \A t \in Locked : Done(<<t, 0>>)' => Done(<<t, 0>>)
  <2>1. ~Done(s)'
    BY <1>2 DEF Done, Ready
  <2> QED
    BY <1>1, <1>2, <2>1, DoneElsewhere
<1>5. holder = s /\ \A u \in Locked : Done(<<u, 0>>) => u \in copy[s[1]]
  <2>1. pc[<<s[1], 0>>] \in {"body", "export", "export_raise"}
    BY <1>1, <1>2
  <2>2. holder = <<s[1], 0>> /\ \A u \in Locked : Done(<<u, 0>>) => u \in copy[s[1]]
    BY <1>1, <2>1 DEF MetadataHeld
  <2> QED
    BY <1>1, <2>2
<1>6. ASSUME NEW t \in Locked
      PROVE  /\ pc'[<<t, 0>>] \in {"body", "export", "export_raise"} =>
                  holder' = <<t, 0>> /\ \A u \in Locked : Done(<<u, 0>>)' => u \in copy'[t]
             /\ pc'[<<t, 0>>] = "export" => t \in copy'[t]
  <2>1. CASE <<t, 0>> # s
    <3>1. pc[<<t, 0>>] \notin {"body", "export", "export_raise"}
      BY <1>5, <2>1 DEF MetadataHeld
    <3> QED
      BY <1>2, <2>1, <3>1, DoneElsewhere
  <2>2. CASE <<t, 0>> = s
    <3>1. t = s[1]
      BY <2>2
    <3> QED
      BY <1>2, <1>3, <1>4, <1>5, <2>2, <3>1
  <2> QED
    BY <2>1, <2>2
<1> QED
  BY <1>2, <1>6, Zenon DEF MetadataHeld

\* when the file is written, the lock is released and the tool starts, or the script fails,
LEMMA MetadataLeave ==
  ASSUME RegrTypeOK, MakeOrder, MetadataHeld, NEW s, Ready(s), TargetStep(s), leave(s)
  PROVE  MetadataHeld'
<1>1. s = <<s[1], 0>> /\ s[1] \in Locked
  BY TargetKinds DEF leave, Ready, Locked
<1>2. /\ md'.fields = copy[s[1]] /\ args_list' = args_list
      /\ pc'[s] \in {"idle", "tool"} /\ pc[s] \in {"export", "export_raise"}
  BY <1>1 DEF leave, Goto, Fail, Ready, RegrTypeOK, MakeTypeOK, MakeRecords, MetadataTypeOK
<1>3. holder = s /\ \A u \in Locked : Done(<<u, 0>>) => u \in copy[s[1]]
  <2>1. pc[<<s[1], 0>>] \in {"body", "export", "export_raise"}
    BY <1>1, <1>2
  <2>2. holder = <<s[1], 0>> /\ \A u \in Locked : Done(<<u, 0>>) => u \in copy[s[1]]
    BY <1>1, <2>1 DEF MetadataHeld
  <2> QED
    BY <1>1, <2>2
<1>4. Done(s)' => s[1] \in copy[s[1]]
  <2>1. CASE pc[s] = "export"
    <3>1. pc[<<s[1], 0>>] = "export"
      BY <1>1, <2>1
    <3> QED
      BY <1>1, <3>1 DEF MetadataHeld
  <2>2. CASE pc[s] = "export_raise"
    <3>1. Fail(s)
      BY <2>2 DEF leave
    <3>2. pc'[s] = "idle" /\ s \notin make'.touched
      BY <3>1 DEF Fail, Goto, RegrTypeOK, MakeTypeOK, MakeRecords, Ready, MakeOrder
    <3> QED
      BY <3>2 DEF Done
  <2> QED
    BY <1>2, <2>1, <2>2
<1>5. \A u \in Locked : Done(<<u, 0>>)' => u \in md'.fields
  <2> SUFFICES ASSUME NEW u \in Locked, Done(<<u, 0>>)'
               PROVE  u \in md'.fields
    OBVIOUS
  <2>1. CASE <<u, 0>> # s
    BY <1>2, <1>3, <2>1, DoneElsewhere
  <2>2. CASE <<u, 0>> = s
    <3>1. u = s[1] /\ Done(s)'
      BY <2>2
    <3> QED
      BY <1>2, <1>4, <3>1
  <2> QED
    BY <2>1, <2>2
<1>6. ASSUME NEW t \in Locked
      PROVE  pc'[<<t, 0>>] \notin {"body", "export", "export_raise"}
  <2>1. CASE <<t, 0>> # s
    <3>1. pc[<<t, 0>>] \notin {"body", "export", "export_raise"}
      BY <1>3, <2>1 DEF MetadataHeld
    <3> QED
      BY <1>2, <2>1, <3>1, DoneElsewhere
  <2> QED
    BY <1>2, <2>1
<1> QED
  BY <1>5, <1>6 DEF MetadataHeld

\* and so at every step of a script;
LEMMA MetadataContinue ==
  ASSUME RegrTypeOK, MakeOrder, MetadataHeld, NEW s, Ready(s), TargetStep(s), Continue(s)
  PROVE  MetadataHeld'
<1>1. CASE enter(s)
  BY <1>1, MetadataEnter
<1>2. CASE body(s)
  BY <1>2, MetadataBody
<1>3. CASE leave(s)
  BY <1>3, MetadataLeave
<1>4. CASE handler(s)
  <2>1. pc'[s] = "idle" /\ s \notin make'.touched /\ UNCHANGED <<md, holder, copy, args_list>>
    BY <1>4 DEF handler, Fail, Goto, RegrTypeOK, MakeTypeOK, MakeRecords, Ready, MakeOrder
  <2> QED
    BY <2>1, MetadataLeft DEF Done
<1>5. ASSUME NEW rc, tool(s, rc)
      PROVE  MetadataHeld'
  <2>1. pc[s] = "tool" /\ pc'[s] = "idle" /\ UNCHANGED <<md, holder, copy, args_list>>
    BY <1>5 DEF tool, Fail, Goto, RegrTypeOK, MakeTypeOK, MakeRecords, Ready
  <2> QED
    BY <2>1, MetadataLeft DEF Done
<1>6. CASE s[1] \in {"gen", "comp", "sim", "check"} /\ UNCHANGED <<md, holder, copy, args_list>>
  BY <1>6, MetadataLeft DEF Locked
<1> QED
  BY <1>1, <1>2, <1>3, <1>4, <1>5, <1>6
     DEF Continue, GenExported, CompExported, compile_test, SimExported, run_rtl, NothingSimulated, SimEnds, CheckExported

\* and between makes, when no script runs: a new file has no field and no script is done.
LEMMA MetadataMakes ==
  ASSUME RegrTypeOK, MakeOrder, MetadataHeld, StartMake \/ EndMake \/ EditRtl \/ CtrlC
  PROVE  MetadataHeld'
<1>1. CASE EditRtl
  BY <1>1 DEF EditRtl, MetadataHeld, Done
<1>2. CASE StartMake \/ EndMake \/ CtrlC
  <2>1. \A t \in Locked : pc'[<<t, 0>>] = "idle"
    BY <1>2, LockedTargets DEF StartMake, EndMake, CtrlC, MakeOrder, Running
  <2>2. make'.touched = {}
    <3>1. CASE StartMake
      <4>1. make.touched = {}
        BY <3>1 DEF StartMake, MakeOrder, NoMake
      <4>2. make' = make \/ \E k, S : make' = Started(k, S)
        BY <3>1 DEF StartMake
      <4> QED
        BY <4>1, <4>2, StartedFacts
    <3>2. CASE EndMake \/ CtrlC
      BY <3>2 DEF EndMake, CtrlC, NoMake
    <3> QED
      BY <1>2, <3>1, <3>2
  <2>3. \A t \in Locked : ~Done(<<t, 0>>)'
    BY <2>1, <2>2 DEF Done
  <2> QED
    BY <2>1, <2>3 DEF MetadataHeld
<1> QED
  BY <1>1, <1>2

-----------------------------------------------------------------------------

\* What the scripts of one test follow.
LEMMA TestOrder ==
  ASSUME RegrTypeOK, MakeOrder, NEW i \in DOMAIN tests
  PROVE  /\ <<"comp", i>> \in Running \union make.settled /\ <<"gen", i>> \in Targets => <<"gen", i>> \in make.settled
         /\ <<"sim", i>> \in Running \union make.settled => <<"comp", i>> \in make.settled /\ <<"tb", 0>> \in make.settled
         /\ <<"check", i>> \in Running \union make.settled => <<"sim", i>> \in make.settled
         /\ <<"collect", 0>> \in Running => <<"check", i>> \in make.settled
<1>1. \A s \in Running \union make.settled : Prereqs(s) \subseteq make.settled
  BY DEF MakeOrder
<1>2. <<"collect", 0>> \in Running => Prereqs(<<"collect", 0>>) \subseteq make.settled
  BY <1>1
<1> QED
  BY <1>1, <1>2, PrereqsTest

\* Two scripts that run at the same time are not of one test, and none of one test runs with the collection.
LEMMA OneScript ==
  ASSUME RegrTypeOK, MakeOrder, NEW s \in Running, NEW r \in Running, s # r, s[2] # 0
  PROVE  s[2] # r[2] /\ r[1] # "collect"
<1>1. s \in Targets /\ r \in Targets /\ s \notin make.settled /\ r \notin make.settled
  BY DEF MakeOrder
<1>2. s \in AllTargets /\ r \in AllTargets
  BY DEF Running
<1>3. s = <<s[1], s[2]>> /\ s[1] \in {"gen", "comp", "sim", "check"}
  BY <1>2, TargetKinds
<1> DEFINE i == s[2]
<1>4. i \in DOMAIN tests /\ i \in 1 .. MaxTests
  BY <1>1, <1>2, <1>3, TargetOfTest, TargetKinds DEF Locked
<1>5. r[1] # "collect"
  <2>1. SUFFICES ASSUME r[1] = "collect" PROVE FALSE
    OBVIOUS
  <2>2. r = <<"collect", 0>>
    BY <1>2, <2>1, TargetKinds
  <2>3. <<"check", i>> \in make.settled /\ <<"sim", i>> \in make.settled /\ <<"comp", i>> \in make.settled
    BY <1>4, <2>2, TestOrder
  <2>4. <<"gen", i>> \in Targets => <<"gen", i>> \in make.settled
    BY <1>4, <2>3, TestOrder
  <2> QED
    BY <1>1, <1>3, <2>3, <2>4
<1>6. s[2] # r[2]
  <2>1. SUFFICES ASSUME s[2] = r[2] PROVE FALSE
    OBVIOUS
  <2>2. r = <<r[1], i>> /\ r[1] \in {"gen", "comp", "sim", "check"}
    BY <1>2, <1>4, <2>1, TargetKinds
  <2>3. ASSUME NEW a \in Running, a = <<"check", i>>
        PROVE  <<"sim", i>> \in make.settled /\ <<"comp", i>> \in make.settled
    BY <1>4, <2>3, TestOrder
  <2>4. ASSUME NEW a \in Running, a = <<"sim", i>>
        PROVE  <<"comp", i>> \in make.settled
    BY <1>4, <2>4, TestOrder
  <2>5. \A a \in Running : a \in {<<"comp", i>>, <<"sim", i>>, <<"check", i>>} =>
          (<<"gen", i>> \in Targets => <<"gen", i>> \in make.settled)
    BY <1>4, <2>3, <2>4, TestOrder
  <2> QED
    BY <1>1, <1>3, <2>1, <2>2, <2>3, <2>4, <2>5
<1> QED
  BY <1>5, <1>6

\* FilesKept is a consequence of the order and of the lock.
LEMMA FilesKeptHolds ==
  ASSUME RegrTypeOK, MakeOrder, MetadataHeld
  PROVE  FilesKept
<1>1. ASSUME md.state = "whole", NEW s \in Locked \X {0}, Done(s)
      PROVE  s[1] \in md.fields
  <2>1. s = <<s[1], 0>> /\ s[1] \in Locked
    OBVIOUS
  <2> QED
    BY <1>1, <2>1 DEF MetadataHeld
<1> QED
  BY <1>1, OneScript DEF FilesKept, Done

-----------------------------------------------------------------------------
\* The verdict on a log.
LEMMA TracePassing ==
  ASSUME NEW trace \in Seq(STRING)
  PROVE  ~process_ibex_sim_log(trace).raised <=>
           \E i \in DOMAIN trace : trace[i] = "instr" /\ \A j \in 1 .. i - 1 : trace[j] # "ecall"
<1> DEFINE ends == {i \in DOMAIN trace : trace[i] = "ecall"}
           last == IF ends = {} THEN Len(trace) ELSE Min(ends) - 1
<1>1. ~process_ibex_sim_log(trace).raised <=> \E i \in 1 .. last : trace[i] = "instr"
  BY DEF process_ibex_sim_log
<1>2. DOMAIN trace = 1 .. Len(trace) /\ Len(trace) \in Nat
  OBVIOUS
<1>3. ends \in SUBSET Nat /\ \A i : i \in ends <=> i \in 1 .. Len(trace) /\ trace[i] = "ecall"
  BY <1>2
<1>4. \A i : i \in 1 .. last <=> i \in DOMAIN trace /\ \A j \in 1 .. i : trace[j] # "ecall"
  <2> HIDE DEF ends
  <2>1. CASE ends = {}
    BY <1>2, <1>3, <2>1
  <2>2. CASE ends # {}
    <3> DEFINE m == Min(ends)
    <3>1. m \in ends /\ (\A y \in ends : m <= y) /\ last = m - 1
      BY <1>3, <2>2, MinIn
    <3> HIDE DEF m, last
    <3> QED
      BY <1>2, <1>3, <3>1
  <2> QED
    BY <2>1, <2>2
<1> HIDE DEF last
<1>5. \A i \in DOMAIN trace : trace[i] = "instr" =>
        ((\A j \in 1 .. i : trace[j] # "ecall") <=> \A j \in 1 .. i - 1 : trace[j] # "ecall")
  BY <1>2
<1> QED
  BY <1>1, <1>4, <1>5

\* What check_ibex_uvm_log returns of the lines it reads.
LEMMA LinesPassing ==
  ASSUME NEW lines \in Seq(STRING)
  PROVE  check_ibex_uvm_log(lines).passed <=>
           /\ \E i \in DOMAIN lines : lines[i] = "passed" /\ \A j \in 1 .. i - 1 : lines[j] \notin {"error", "wallclock"}
           /\ \A i \in DOMAIN lines : lines[i] # "failed"
<1> DEFINE Bad == {i \in DOMAIN lines : lines[i] = "failed"}
<1>1. DOMAIN lines = 1 .. Len(lines) /\ Len(lines) \in Nat
  OBVIOUS
<1>2. check_ibex_uvm_log(lines).passed <=>
        /\ ErrorLines(lines) = {} /\ ~\E i \in Seen(lines) : lines[i] = "failed"
        /\ \E i \in Seen(lines) : lines[i] = "passed"
  BY DEF check_ibex_uvm_log
<1>3. (\E i \in Seen(lines) : lines[i] = "failed") <=> Bad # {}
  <2>1. CASE Bad = {}
    BY <1>1, <2>1 DEF Seen
  <2>2. CASE Bad # {}
    <3> DEFINE m == Min(Bad)
    <3>1. Bad \in SUBSET Nat
      BY <1>1
    <3>2. Seen(lines) = 1 .. m
      BY <2>2, Zenon DEF Seen
    <3>3. m \in Bad
      <4> HIDE DEF Bad
      <4> QED
        BY <2>2, <3>1, MinIn
    <3>4. m \in Nat /\ m >= 1 /\ lines[m] = "failed"
      BY <1>1, <3>3
    <3> HIDE DEF Bad, m
    <3> QED
      BY <2>2, <3>2, <3>4
  <2> QED
    BY <2>1, <2>2
<1>4. CASE Bad # {}
  BY <1>2, <1>3, <1>4
<1>5. CASE Bad = {}
  <2>1. Seen(lines) = DOMAIN lines
    BY <1>1, <1>5 DEF Seen
  <2>2. ErrorLines(lines) = {} <=>
          \A i \in DOMAIN lines : lines[i] \in {"error", "wallclock"} => \E j \in 1 .. i - 1 : lines[j] = "passed"
    BY <2>1 DEF ErrorLines
  <2>3. ASSUME NEW i \in DOMAIN lines, lines[i] = "passed", \A j \in 1 .. i - 1 : lines[j] \notin {"error", "wallclock"}
        PROVE  ErrorLines(lines) = {}
    <3>1. ASSUME NEW k \in DOMAIN lines, lines[k] \in {"error", "wallclock"}
          PROVE  \E j \in 1 .. k - 1 : lines[j] = "passed"
      <4>1. i # k /\ ~(k < i)
        BY <1>1, <2>3, <3>1
      <4>2. i \in 1 .. k - 1
        BY <1>1, <4>1
      <4> QED
        BY <2>3, <4>2
    <3> QED
      BY <2>2, <3>1
  <2>4. ASSUME ErrorLines(lines) = {}, \E i \in DOMAIN lines : lines[i] = "passed"
        PROVE  \E i \in DOMAIN lines : lines[i] = "passed" /\ \A j \in 1 .. i - 1 : lines[j] \notin {"error", "wallclock"}
    <3> DEFINE good == {i \in DOMAIN lines : lines[i] = "passed"}
    <3>1. good # {} /\ good \in SUBSET Nat
      BY <1>1, <2>4
    <3>2. PICK i \in good : \A y \in good : i <= y
      BY <3>1, MinIn
    <3>3. ASSUME NEW j \in 1 .. i - 1, lines[j] \in {"error", "wallclock"}
          PROVE  FALSE
      <4>1. j \in DOMAIN lines
        BY <1>1, <3>2
      <4>2. PICK k \in 1 .. j - 1 : lines[k] = "passed"
        BY <2>2, <2>4, <3>3, <4>1
      <4>3. k \in good /\ k < i
        BY <1>1, <4>1, <4>2, <3>2
      <4> QED
        BY <1>1, <3>2, <4>3
    <3> QED
      BY <3>2, <3>3
  <2> QED
    BY <1>2, <1>3, <1>5, <2>1, <2>3, <2>4
<1> QED
  BY <1>4, <1>5

\* A log passes if neither of its two parts fails.
LEMMA PassingLog ==
  ASSUME NEW l \in Logs
  PROVE  Passing(l) <=> ~process_ibex_sim_log(l.trace).raised /\ check_ibex_uvm_log(l.lines).passed
<1>1. l.trace \in Seq(STRING) /\ l.lines \in Seq(STRING)
  BY DEF Logs
<1> QED
  BY <1>1, TracePassing, LinesPassing DEF Passing

\* What a check makes of a record.
LEMMA CompareVerdict ==
  ASSUME NEW r \in Records, NEW l \in Logs
  PROVE  LET c == compare_test_run(r, l) IN
         /\ c.passed # "unset" \/ c.failure_mode # "unset"
         /\ Passing(l) /\ c.failure_mode # "TIMEOUT" => c.passed = "yes"
         /\ c.passed = "yes" => r.passed = "yes" \/ (Passing(l) /\ c.failure_mode # "TIMEOUT")
         /\ Passing(l) => c.failure_mode = r.failure_mode
<1> DEFINE uvm == check_ibex_uvm_log(l.lines)
           c == compare_test_run(r, l)
<1>1. uvm.mode # "unset"
  BY DEF check_ibex_uvm_log
<1>2. Passing(l) <=> ~process_ibex_sim_log(l.trace).raised /\ uvm.passed
  BY PassingLog
<1>3. CASE r.failure_mode = "TIMEOUT"
  <2>1. c = [r EXCEPT !.passed = "no"]
    BY <1>3 DEF compare_test_run
  <2>2. c.passed = "no" /\ c.failure_mode = "TIMEOUT"
    BY <1>3, <2>1 DEF Records
  <2> HIDE DEF c
  <2> QED
    BY <1>3, <2>2 DEF c
<1>4. CASE r.failure_mode # "TIMEOUT" /\ process_ibex_sim_log(l.trace).raised
  <2>1. c = [r EXCEPT !.passed = "no", !.failure_mode = "FILE_ERROR"]
    BY <1>4 DEF compare_test_run
  <2>2. c.passed = "no"
    BY <2>1 DEF Records
  <2> QED
    BY <1>2, <1>4, <2>2
<1>5. CASE r.failure_mode # "TIMEOUT" /\ ~process_ibex_sim_log(l.trace).raised /\ ~uvm.passed
  <2>1. c = [r EXCEPT !.failure_mode = uvm.mode]
    BY <1>5 DEF compare_test_run
  <2>2. c.passed = r.passed /\ c.failure_mode = uvm.mode
    BY <2>1 DEF Records
  <2>3. c.passed # "unset" \/ c.failure_mode # "unset"
    BY <1>1, <2>2
  <2>4. ~Passing(l)
    BY <1>2, <1>5
  <2> HIDE DEF uvm, c
  <2> QED
    BY <1>5, <2>2, <2>3, <2>4 DEF c
<1>6. CASE r.failure_mode # "TIMEOUT" /\ ~process_ibex_sim_log(l.trace).raised /\ uvm.passed
  <2>1. c = [r EXCEPT !.passed = "yes"]
    BY <1>6 DEF compare_test_run
  <2>2. c.passed = "yes" /\ c.failure_mode = r.failure_mode
    BY <2>1 DEF Records
  <2> HIDE DEF uvm, c
  <2> QED
    BY <1>2, <1>6, <2>2 DEF c
<1> QED
  BY <1>3, <1>4, <1>5, <1>6

-----------------------------------------------------------------------------

\* A step of one target leaves what make knows of the others.
LEMMA StepElsewhere ==
  ASSUME RegrTypeOK, NEW s, TargetStep(s), NEW x \in AllTargets, x # s
  PROVE  /\ pc'[x] = pc[x] /\ (x \in make'.settled <=> x \in make.settled)
         /\ x \in make'.touched <=> x \in make.touched
<1>1. pc'[x] = pc[x]
  BY DEF TargetStep, RegrTypeOK, MakeTypeOK, MakeRecords
<1>2. CASE make' = make \/ make' = [make EXCEPT !.failed = @ \union {s}]
  BY <1>1, <1>2 DEF RegrTypeOK, MakeTypeOK, MakeRecords
<1>3. ASSUME NEW target \in {{}, {s}},
             make' = [make EXCEPT !.settled = @ \union {s}, !.touched = @ \union target]
      PROVE  /\ (x \in make'.settled <=> x \in make.settled)
             /\ x \in make'.touched <=> x \in make.touched
  BY <1>3 DEF RegrTypeOK, MakeTypeOK, MakeRecords
<1> QED
  BY <1>1, <1>2, <1>3 DEF TargetStep

\* What a step of one target adds to what make knows.
LEMMA StepFields ==
  ASSUME RegrTypeOK, NEW s, TargetStep(s)
  PROVE  /\ make.touched \subseteq make'.touched /\ make.settled \subseteq make'.settled
         /\ make'.stale = make.stale /\ make.state # "idle" /\ make'.state # "idle"
<1>1. CASE make' = make \/ make' = [make EXCEPT !.failed = @ \union {s}]
  BY <1>1 DEF RegrTypeOK, MakeTypeOK, MakeRecords, TargetStep
<1>2. ASSUME NEW target \in {{}, {s}},
             make' = [make EXCEPT !.settled = @ \union {s}, !.touched = @ \union target]
      PROVE  /\ make.touched \subseteq make'.touched /\ make.settled \subseteq make'.settled
             /\ make'.stale = make.stale /\ make.state # "idle" /\ make'.state # "idle"
  BY <1>2 DEF RegrTypeOK, MakeTypeOK, MakeRecords, TargetStep
<1> QED
  BY <1>1, <1>2 DEF TargetStep

\* The targets of a test are typed.
LEMMA TestIsTarget ==
  ASSUME RegrTypeOK, NEW i \in DOMAIN tests
  PROVE  /\ <<"comp", i>> \in AllTargets /\ <<"sim", i>> \in AllTargets /\ <<"check", i>> \in AllTargets
         /\ i \in 1 .. MaxTests
BY DEF RegrTypeOK, MakeTypeOK, MakeRecords, AllTargets

\* Nothing is newer than it was.
NoneFresher ==
  /\ fresh'[<<"tb", 0>>] = fresh[<<"tb", 0>>]
  /\ \A i \in DOMAIN tests : fresh'[<<"sim", i>>] => fresh[<<"sim", i>>]

\* Writing a target makes nothing else newer.
LEMMA TouchFresh ==
  ASSUME RegrTypeOK, NEW x, Touch(x), x # <<"tb", 0>>
  PROVE  /\ fresh'[<<"tb", 0>>] = fresh[<<"tb", 0>>]
         /\ \A i \in DOMAIN tests : fresh'[<<"sim", i>>] => fresh[<<"sim", i>>] \/ x = <<"sim", i>>
<1>1. <<"tb", 0>> \in AllTargets /\ x \notin Prereqs(<<"tb", 0>>)
  BY LockedTargets, PrereqsNone DEF Locked
<1>2. \A i \in DOMAIN tests : <<"sim", i>> \in AllTargets
  BY TestIsTarget
<1> QED
  BY <1>1, <1>2 DEF Touch

\* Writing anything but the testbench or a log makes neither of them newer.
LEMMA TouchOther ==
  ASSUME RegrTypeOK, NEW x, SamePath \/ (Touch(x) /\ x # <<"tb", 0>> /\ x[1] # "sim")
  PROVE  NoneFresher
<1>1. CASE SamePath
  BY <1>1 DEF SamePath, NoneFresher
<1>2. CASE Touch(x) /\ x # <<"tb", 0>> /\ x[1] # "sim"
  BY <1>2, TouchFresh DEF NoneFresher
<1> QED
  BY <1>1, <1>2

\* A step that leaves the logs, the testbench and the RTL alone keeps the simulations current, if what it
\* settles is.
LEMMA CurrentLeft ==
  ASSUME RegrTypeOK, SimulationsCurrent, NEW s, TargetStep(s), UNCHANGED <<log, tb, rtl>>, NoneFresher,
         s = <<"tb", 0>> /\ s \in make'.settled => fresh[s],
         \A i \in DOMAIN tests :
           s = <<"sim", i>> /\ (pc'[s] \in {"export2", "export_old"} \/ s \in make'.settled) =>
             Simulated(i) \/ log[i].missed
  PROVE  SimulationsCurrent'
<1>1. \A i : Simulated(i)' = Simulated(i)
  BY DEF Simulated
<1>2. tests' = tests /\ <<"tb", 0>> \in AllTargets
  BY LockedTargets DEF TargetStep, Locked
<1>3. fresh'[<<"tb", 0>>] => tb' = rtl'
  BY DEF SimulationsCurrent, NoneFresher
<1>4. <<"tb", 0>> \notin make'.stale \/ <<"tb", 0>> \in make'.settled => fresh'[<<"tb", 0>>]
  BY <1>2, StepFields, StepElsewhere DEF SimulationsCurrent, NoneFresher
<1>5. ASSUME NEW i \in DOMAIN tests
      PROVE  /\ fresh'[<<"sim", i>>] => Simulated(i)
             /\ <<"sim", i>> \notin make'.stale /\ <<"tb", 0>> \notin make'.touched => Simulated(i)
             /\ pc'[<<"sim", i>>] \in {"export2", "export_old"} \/ <<"sim", i>> \in make'.settled =>
                  Simulated(i) \/ log[i].missed
  <2>1. fresh'[<<"sim", i>>] => Simulated(i)
    BY DEF SimulationsCurrent, NoneFresher
  <2>2. <<"sim", i>> \notin make'.stale /\ <<"tb", 0>> \notin make'.touched => Simulated(i)
    BY StepFields DEF SimulationsCurrent
  <2>3. pc'[<<"sim", i>>] \in {"export2", "export_old"} \/ <<"sim", i>> \in make'.settled =>
          Simulated(i) \/ log[i].missed
    <3>1. CASE s = <<"sim", i>>
      BY <3>1
    <3>2. CASE s # <<"sim", i>>
      BY <3>2, StepElsewhere, TestIsTarget DEF SimulationsCurrent
    <3> QED
      BY <3>1, <3>2
  <2> QED
    BY <2>1, <2>2, <2>3
<1> QED
  BY <1>1, <1>2, <1>3, <1>4, <1>5, Zenon DEF SimulationsCurrent

\* What is skipped is up to date.
LEMMA CurrentSkip ==
  ASSUME RegrTypeOK, MakeOrder, SimulationsCurrent, NEW s, Ready(s), TargetStep(s), Skip(s)
  PROVE  SimulationsCurrent'
<1>1. UNCHANGED <<log, tb, rtl>> /\ NoneFresher /\ pc' = pc
  BY DEF Skip, NoneFresher
<1>2. s \notin make.stale /\ Prereqs(s) \intersect make.touched = {}
  BY DEF Skip, Remade
<1>3. s = <<"tb", 0>> /\ s \in make'.settled => fresh[s]
  BY <1>2 DEF SimulationsCurrent, Ready
<1>4. ASSUME NEW i \in DOMAIN tests, s = <<"sim", i>>
      PROVE  Simulated(i)
  <2>1. <<"tb", 0>> \notin make.touched
    BY <1>2, <1>4, PrereqsTest
  <2> QED
    BY <1>2, <1>4, <2>1 DEF SimulationsCurrent, Ready
<1> QED
  BY <1>1, <1>3, <1>4, CurrentLeft

\* The simulations are current when make considers a target,
LEMMA CurrentConsider ==
  ASSUME RegrTypeOK, MakeOrder, SimulationsCurrent, NEW s, Ready(s), pc[s] = "idle", TargetStep(s), Consider(s)
  PROVE  SimulationsCurrent'
<1>1. CASE Skip(s)
  BY <1>1, CurrentSkip
<1>2. CASE ~Skip(s)
  <2>1. UNCHANGED <<log, tb, rtl>>
    BY <1>2 DEF Consider, StartLocked, touch, merge_cov, ReadFails, run_instr_gen, compile_cmds,
         get_sim_cmds, check_logs
  <2>2. SamePath \/ (Touch(s) /\ s # <<"tb", 0>> /\ s[1] # "sim")
    BY <1>2 DEF Consider, StartLocked, touch, merge_cov, ReadFails, run_instr_gen, compile_cmds,
         get_sim_cmds, check_logs, SamePath, CovOff
  <2>3. make' = make \/ make' = [make EXCEPT !.failed = @ \union {s}] \/ s[1] \in {"fcov", "merge"}
    BY <1>2 DEF Consider, StartLocked, touch, merge_cov, ReadFails, run_instr_gen, compile_cmds,
         get_sim_cmds, check_logs, Fail, CovOff
  <2>4. s[1] = "sim" => pc'[s] \notin {"export2", "export_old"}
    BY <1>2 DEF Consider, StartLocked, touch, merge_cov, ReadFails, run_instr_gen, compile_cmds,
         get_sim_cmds, check_logs, Fail, Goto, Ready, RegrTypeOK, MakeTypeOK, MakeRecords
  <2>5. s[1] \in {"fcov", "merge"} \/ s \notin make'.settled
    BY <2>3 DEF Ready, RegrTypeOK, MakeTypeOK, MakeRecords
  <2>6. s = <<"tb", 0>> \/ (\E i : s = <<"sim", i>>) => s \notin make'.settled
    BY <2>5
  <2> QED
    BY <2>1, <2>2, <2>4, <2>6, TouchOther, CurrentLeft
<1> QED
  BY <1>1, <1>2

\* when a tool of a locked script ends: the testbench is compiled of the current RTL, and each log is now older,
LEMMA CurrentTool ==
  ASSUME RegrTypeOK, MakeOrder, SimulationsCurrent, NEW s, Ready(s), pc[s] # "idle", TargetStep(s), NEW rc, tool(s, rc)
  PROVE  SimulationsCurrent'
<1>1. UNCHANGED <<log, rtl>> /\ pc'[s] = "idle"
  BY DEF tool, Goto, Fail, RegrTypeOK, MakeTypeOK, MakeRecords, Ready
<1>2. CASE rc # 0
  <2>1. tb' = tb /\ SamePath /\ s \notin make'.settled
    BY <1>2 DEF tool, Fail, RegrTypeOK, MakeTypeOK, MakeRecords, Ready
  <2> QED
    BY <1>1, <2>1, TouchOther, CurrentLeft
<1>3. CASE rc = 0 /\ s # <<"tb", 0>>
  <2>1. s[1] \in Locked /\ s[1] # "tb" /\ s[1] # "sim"
    BY <1>3, TargetKinds DEF tool, Locked, Ready
  <2>2. tb' = tb /\ Touch(s)
    BY <1>3, <2>1 DEF tool
  <2> QED
    BY <1>1, <1>3, <2>1, <2>2, TouchOther, CurrentLeft
<1>4. CASE rc = 0 /\ s = <<"tb", 0>>
  <2>1. tb' = rtl /\ Touch(s) /\ <<"tb", 0>> \in make'.touched
    <3>1. tb' = rtl /\ Touch(s) /\ Settle(s, {s})
      BY <1>4 DEF tool
    <3>2. make'.touched = make.touched \union {s}
      BY <3>1 DEF Settle, RegrTypeOK, MakeTypeOK, MakeRecords
    <3> QED
      BY <1>4, <3>1, <3>2
  <2>2. fresh'[<<"tb", 0>>]
    BY <1>4, <2>1 DEF Touch, Ready
  <2>3. ASSUME NEW i \in DOMAIN tests
        PROVE  /\ ~fresh'[<<"sim", i>>]
               /\ pc'[<<"sim", i>>] = "idle" /\ <<"sim", i>> \notin make'.settled
    <3>1. <<"sim", i>> \in AllTargets /\ <<"sim", i>> # s /\ <<"sim", i>> \in Targets /\ s \in Prereqs(<<"sim", i>>)
      BY <1>4, TestIsTarget, TestTargets, PrereqsTest
    <3>2. ~fresh'[<<"sim", i>>]
      BY <2>1, <3>1 DEF Touch
    <3>3. <<"sim", i>> \notin Running \union make.settled
      BY <1>4, TestOrder DEF Ready
    <3>4. pc[<<"sim", i>>] = "idle" /\ <<"sim", i>> \notin make.settled
      BY <3>1, <3>3 DEF Running
    <3> QED
      BY <3>1, <3>2, <3>4, StepElsewhere
  <2>4. tests' = tests
    BY DEF tool
  <2> QED
    BY <1>1, <2>1, <2>2, <2>3, <2>4 DEF SimulationsCurrent
<1> QED
  BY <1>2, <1>3, <1>4

\* when a simulation writes its log, with the testbench that cannot change under it,
LEMMA CurrentRun ==
  ASSUME RegrTypeOK, MakeOrder, SimulationsCurrent, NEW s, Ready(s), TargetStep(s), NEW sim, run_rtl(s, sim)
  PROVE  SimulationsCurrent'
<1> DEFINE i == s[2]
<1>1. s = <<"sim", i>> /\ i \in DOMAIN tests /\ i \in 1 .. MaxTests
  BY TargetKinds, TargetOfTest DEF run_rtl, Ready, Locked
<1>2. UNCHANGED <<tb, rtl, tests, make>> /\ Touch(s)
  BY DEF run_rtl
<1>3. Simulated(i)'
  <2>1. log[i].n \in Nat
    BY <1>1, RecordTyped DEF Logs
  <2>2. log'[i].n = log[i].n + 1 /\ log'[i].rtl = tb
    BY <1>1 DEF run_rtl, RegrTypeOK, RecordsTypeOK
  <2> QED
    BY <1>2, <2>1, <2>2 DEF Simulated
<1>4. \A j : j # i => Simulated(j)' = Simulated(j) /\ log'[j] = log[j]
  <2>1. \A j : j # i => log'[j] = log[j]
    BY <1>1 DEF run_rtl, RegrTypeOK, RecordsTypeOK
  <2> QED
    BY <1>2, <2>1 DEF Simulated
<1>5. fresh'[<<"tb", 0>>] = fresh[<<"tb", 0>>]
  BY <1>1, <1>2, TouchFresh
<1>6. ASSUME NEW j \in DOMAIN tests, j # i
      PROVE  /\ fresh'[<<"sim", j>>] => Simulated(j)'
             /\ make'.state # "idle" /\ <<"sim", j>> \notin make'.stale /\ <<"tb", 0>> \notin make'.touched => Simulated(j)'
             /\ pc'[<<"sim", j>>] \in {"export2", "export_old"} \/ <<"sim", j>> \in make'.settled =>
                  Simulated(j)' \/ log'[j].missed
  <2>1. <<"sim", j>> # s /\ s # <<"tb", 0>>
    BY <1>1, <1>6
  <2>2. fresh'[<<"sim", j>>] => fresh[<<"sim", j>>]
    BY <1>2, <2>1, TouchFresh
  <2>3. pc'[<<"sim", j>>] = pc[<<"sim", j>>]
    <3>1. <<"sim", j>> \in AllTargets
      BY TestIsTarget
    <3> QED
      BY <2>1, <3>1, StepElsewhere
  <2> QED
    BY <1>2, <1>4, <1>6, <2>2, <2>3 DEF SimulationsCurrent
<1> QED
  BY <1>2, <1>3, <1>5, <1>6 DEF SimulationsCurrent

\* or writes none,
LEMMA CurrentMissed ==
  ASSUME RegrTypeOK, MakeOrder, SimulationsCurrent, NEW s, Ready(s), TargetStep(s), NEW killed, NothingSimulated(s, killed)
  PROVE  SimulationsCurrent'
<1> DEFINE i == s[2]
<1>1. UNCHANGED <<tb, rtl, tests, make, exists, fresh>> /\ s = <<"sim", i>>
  BY TargetKinds DEF NothingSimulated, SamePath, Ready, Locked
<1>2. \A j \in DOMAIN tests : Simulated(j)' = Simulated(j) /\ (log'[j].missed \/ log'[j] = log[j])
  <2>1. \A j \in DOMAIN tests : j # i => log'[j] = log[j]
    <3>1. log' = [log EXCEPT ![i] = log'[i]]
      BY MissedLog
    <3>2. log \in [1 .. MaxTests -> Logs] /\ DOMAIN tests \subseteq 1 .. MaxTests
      BY DEF RegrTypeOK, RecordsTypeOK, MakeTypeOK
    <3> QED
      BY <3>1, <3>2, Zenon
  <2>2. log'[i].n = log[i].n /\ log'[i].rtl = log[i].rtl /\ log'[i].missed
    BY MissedLog
  <2> QED
    BY <1>1, <2>1, <2>2 DEF Simulated
<1>3. log'[i].missed
  BY MissedLog
<1>4. ASSUME NEW j \in DOMAIN tests, j # i
      PROVE  pc'[<<"sim", j>>] = pc[<<"sim", j>>]
  <2>1. <<"sim", j>> # s
    BY <1>1, <1>4
  <2>2. <<"sim", j>> \in AllTargets
    BY TestIsTarget
  <2> QED
    BY <2>1, <2>2, StepElsewhere
<1> QED
  BY <1>1, <1>2, <1>3, <1>4 DEF SimulationsCurrent

\* and so at every step of a script;
LEMMA CurrentContinue ==
  ASSUME RegrTypeOK, MakeOrder, SimulationsCurrent, NEW s, Ready(s), pc[s] # "idle", TargetStep(s), Continue(s)
  PROVE  SimulationsCurrent'
<1>1. ASSUME NEW rc, tool(s, rc)
      PROVE  SimulationsCurrent'
  BY <1>1, CurrentTool
<1>2. ASSUME NEW sim, run_rtl(s, sim)
      PROVE  SimulationsCurrent'
  BY <1>2, CurrentRun
<1>7. ASSUME NEW killed, NothingSimulated(s, killed)
      PROVE  SimulationsCurrent'
  BY <1>7, CurrentMissed
<1>3. CASE enter(s) \/ handler(s) \/ body(s) \/ SimExported(s) \/ CompExported(s)
  <2>1. UNCHANGED <<log, tb, rtl>>
    BY <1>3 DEF enter, handler, body, SimExported, CompExported
  <2>2. NoneFresher
    <3>1. SamePath \/ Closed(s[2])
      BY <1>3 DEF enter, handler, body, SimExported, CompExported
    <3> QED
      BY <3>1, TouchOther DEF Closed
  <2>3. s[1] = "sim" => pc'[s] \notin {"export2", "export_old"}
    BY <1>3 DEF enter, handler, body, SimExported, CompExported, Fail, Goto, Ready, RegrTypeOK, MakeTypeOK, MakeRecords
  <2>4. s \notin make'.settled
    BY <1>3 DEF enter, handler, body, SimExported, CompExported, Fail, Ready, RegrTypeOK, MakeTypeOK, MakeRecords
  <2> QED
    BY <2>1, <2>2, <2>3, <2>4, CurrentLeft
<1>4. CASE leave(s)
  <2>1. UNCHANGED <<log, tb, rtl>>
    BY <1>4 DEF leave
  <2>2. SamePath \/ (Touch(s) /\ s[1] \in {"cfg", "collect"})
    BY <1>4 DEF leave, Locked
  <2>3. make' = make \/ make' = [make EXCEPT !.failed = @ \union {s}] \/ s[1] \in {"cfg", "collect"}
    BY <1>4 DEF leave, Fail, Locked
  <2>4. s[1] \in {"cfg", "collect"} \/ s \notin make'.settled
    BY <2>3 DEF Ready, RegrTypeOK, MakeTypeOK, MakeRecords
  <2>5. pc'[s] \notin {"export2", "export_old"}
    BY <1>4 DEF leave, Fail, Goto, Ready, RegrTypeOK, MakeTypeOK, MakeRecords
  <2> QED
    BY <2>1, <2>2, <2>4, <2>5, TouchOther, CurrentLeft
<1>5. CASE SimEnds(s)
  <2>1. UNCHANGED <<log, tb, rtl>> /\ Closed(s[2]) /\ s[1] = "sim" /\ pc[s] \in {"export2", "export_old"}
    BY <1>5 DEF SimEnds
  <2>2. NoneFresher
    BY <2>1, TouchOther DEF Closed
  <2>3. \A i \in DOMAIN tests : s = <<"sim", i>> => Simulated(i) \/ log[i].missed
    BY <2>1 DEF SimulationsCurrent
  <2> QED
    BY <2>1, <2>2, <2>3, CurrentLeft
<1>6. CASE GenExported(s) \/ CheckExported(s) \/ \E ret \in {0, 1} : compile_test(s, ret)
  <2>1. UNCHANGED <<log, tb, rtl>> /\ s[1] \in {"gen", "check", "comp"}
    BY <1>6 DEF GenExported, CheckExported, compile_test
  <2>2. NoneFresher
    <3>1. SamePath \/ Closed(s[2]) \/ Touch(s)
      BY <1>6 DEF GenExported, CheckExported, compile_test
    <3> QED
      BY <2>1, <3>1, TouchOther DEF Closed
  <2> QED
    BY <2>1, <2>2, CurrentLeft
<1> QED
  BY <1>1, <1>2, <1>3, <1>4, <1>5, <1>6, <1>7 DEF Continue

\* and between makes: what is newer than its prerequisites now is what the next make leaves alone.
LEMMA CurrentMakes ==
  ASSUME RegrTypeOK, MakeOrder, SimulationsCurrent, StartMake \/ EndMake \/ EditRtl \/ CtrlC
  PROVE  SimulationsCurrent'
<1>1. CASE StartMake
  <2>1. UNCHANGED <<log, tb, rtl, pc>> /\ make = NoMake /\ \A s \in AllTargets : pc[s] = "idle"
    BY <1>1 DEF StartMake, MakeOrder
  <2>2. CASE (\E k : make' = Started(k, AllTargets)) /\ \E new : DOMAIN new \subseteq 1 .. MaxTests /\ tests' = new /\ fresh' = RecordsOnly(new)
    <3>1. PICK new : DOMAIN new \subseteq 1 .. MaxTests /\ tests' = new /\ fresh' = RecordsOnly(new)
      BY <2>2
    <3>2. make'.stale = AllTargets /\ make'.touched = {} /\ make'.settled = {}
      BY <2>2, StartedFacts
    <3>3. <<"tb", 0>> \in AllTargets /\ ~fresh'[<<"tb", 0>>]
      BY <3>1, LockedTargets DEF RecordsOnly, Locked
    <3>4. \A i \in DOMAIN tests' : <<"sim", i>> \in AllTargets
      BY <3>1 DEF AllTargets
    <3>5. \A i \in DOMAIN tests' : ~fresh'[<<"sim", i>>] /\ pc'[<<"sim", i>>] = "idle"
      BY <2>1, <3>1, <3>4 DEF RecordsOnly
    <3> QED
      BY <3>2, <3>3, <3>4, <3>5 DEF SimulationsCurrent
  <2>3. CASE (\E k : make' = Started(k, {s \in Targets : ~fresh[s] \/ \E p \in Prereqs(s) : ~exists[p]})) /\ UNCHANGED <<tests, fresh>>
    <3> DEFINE old == {s \in Targets : ~fresh[s] \/ \E p \in Prereqs(s) : ~exists[p]}
    <3>1. \A s \in Targets : s \notin old => fresh[s]
      OBVIOUS
    <3> HIDE DEF old
    <3>2. make'.stale = old /\ make'.touched = {} /\ make'.settled = {}
      BY <2>3, StartedFacts DEF old
    <3>3. <<"tb", 0>> \in Targets
      BY LockedTargets DEF Locked
    <3>4. \A i : Simulated(i)' = Simulated(i)
      BY <2>1 DEF Simulated
    <3>5. ASSUME NEW i \in DOMAIN tests
          PROVE  /\ fresh[<<"sim", i>>] => Simulated(i)
                 /\ <<"sim", i>> \notin old => Simulated(i)
                 /\ pc'[<<"sim", i>>] = "idle" /\ <<"sim", i>> \notin make'.settled
      BY <2>1, <3>1, <3>2, TestTargets, TestIsTarget DEF SimulationsCurrent
    <3> QED
      BY <2>1, <2>3, <3>1, <3>2, <3>3, <3>4, <3>5 DEF SimulationsCurrent
  <2>4. CASE UNCHANGED <<tests, fresh, make>>
    BY <2>1, <2>4 DEF SimulationsCurrent, Simulated
  <2> QED
    BY <1>1, <2>2, <2>3, <2>4 DEF StartMake
<1>2. CASE EndMake \/ CtrlC
  <2>1. UNCHANGED <<log, tb, rtl, tests>> /\ make' = NoMake /\ \A s \in AllTargets : pc'[s] = "idle"
    BY <1>2 DEF EndMake, CtrlC, Running
  <2>2. make'.state = "idle" /\ make'.settled = {}
    BY <2>1 DEF NoMake
  <2>3. \A s \in AllTargets : fresh'[s] => fresh[s]
    BY <1>2 DEF EndMake, CtrlC
  <2>4. <<"tb", 0>> \in AllTargets
    BY LockedTargets DEF Locked
  <2>5. ASSUME NEW i \in DOMAIN tests
        PROVE  (fresh'[<<"sim", i>>] => Simulated(i)') /\ pc'[<<"sim", i>>] = "idle"
    BY <2>1, <2>3, TestIsTarget DEF SimulationsCurrent, Simulated
  <2> QED
    BY <2>1, <2>2, <2>3, <2>4, <2>5 DEF SimulationsCurrent
<1>3. CASE EditRtl
  <2>1. /\ UNCHANGED <<log, tb, tests, make, pc>> /\ make.state = "idle"
        /\ ~fresh'[<<"tb", 0>>] /\ \A i : fresh'[<<"sim", i>>] = fresh[<<"sim", i>>]
    BY <1>3, LockedTargets DEF EditRtl, Locked, RegrTypeOK, TreeTypeOK
  <2> QED
    BY <2>1 DEF SimulationsCurrent, Simulated
<1> QED
  BY <1>1, <1>2, <1>3

-----------------------------------------------------------------------------

\* What a record says is as it was.
SameVerdicts ==
  \A i \in 1 .. MaxTests : trr'[i].passed = trr[i].passed /\ trr'[i].failure_mode = trr[i].failure_mode

\* Opening a record's files for the same content, and closing them, changes no verdict.
LEMMA ExportSame ==
  ASSUME RegrTypeOK, NEW i \in 1 .. MaxTests, Opened(i, trr[i]) \/ Closed(i)
  PROVE  SameVerdicts
<1>1. trr \in [1 .. MaxTests -> Records]
  BY DEF RegrTypeOK, RecordsTypeOK
<1>2. \A j \in 1 .. MaxTests : j # i => trr'[j] = trr[j]
  BY <1>1 DEF Opened, Closed
<1>3. trr'[i] = [trr[i] EXCEPT !.whole = FALSE] \/ trr'[i] = [trr[i] EXCEPT !.whole = TRUE]
  BY <1>1 DEF Opened, Closed
<1>4. trr'[i].passed = trr[i].passed /\ trr'[i].failure_mode = trr[i].failure_mode
  BY <1>1, <1>3 DEF Records
<1> QED
  BY <1>2, <1>4 DEF SameVerdicts

\* Verdicts that are as they were are as honest, and judge as much.
LEMMA VerdictsSame ==
  ASSUME RegrTypeOK, SameVerdicts, log' = log, NEW i \in 1 .. MaxTests
  PROVE  Honest(i)' = Honest(i) /\ Judged(i)' = Judged(i) /\ Says(i)' = Says(i)
<1>1. Says(i)' = Says(i)
  BY DEF SameVerdicts, Says
<1> QED
  BY <1>1, Zenon DEF SameVerdicts, Honest, Judged

\* With the same verdicts the same tests have passed.
LEMMA PassedSame ==
  ASSUME RegrTypeOK, SameVerdicts, tests' = tests
  PROVE  Passed' = Passed
BY DEF RegrTypeOK, MakeTypeOK, MakeRecords, SameVerdicts, Passed

\* A script that neither simulates nor checks.
LEMMA VerdictsLeft ==
  ASSUME RegrTypeOK, VerdictsKept, NEW s, TargetStep(s), UNCHANGED <<log, cut>>, SameVerdicts,
         \A i \in 1 .. MaxTests :
           /\ s = <<"check", i>> /\ s \in make'.settled /\ i \notin cut /\ log[i].n > 0 /\ ~log[i].missed => Judged(i)
           /\ s = <<"check", i>> /\ pc'[s] = "export" /\ ~log[i].missed => Judged(i)
           /\ s = <<"sim", i>> /\ pc[s] = "export2" => s \in make'.touched,
         IF s = <<"collect", 0>> THEN pc'[s] = "export" => report'.passing = Passed' ELSE report' = report
  PROVE  VerdictsKept'
<1>1. /\ make.state # "idle" /\ make'.state # "idle" /\ make.touched \subseteq make'.touched
      /\ make.settled \subseteq make'.settled /\ tests' = tests
  BY StepFields DEF TargetStep
<1>2. <<"collect", 0>> \in AllTargets
  BY LockedTargets DEF Locked
<1>3. ASSUME NEW i \in 1 .. MaxTests
      PROVE  /\ Honest(i)'
             /\ (i \notin cut' /\ log'[i].n > 0 /\ ~log'[i].missed /\ ~Pending(i)') => Judged(i)'
             /\ pc'[<<"check", i>>] = "export" /\ ~log'[i].missed => Judged(i)'
  <2>1. <<"check", i>> \in AllTargets /\ <<"sim", i>> \in AllTargets
    BY DEF AllTargets
  <2>2. Honest(i)' = Honest(i) /\ Judged(i)' = Judged(i)
    BY VerdictsSame
  <2>3. Honest(i) /\ (i \notin cut /\ log[i].n > 0 /\ ~log[i].missed /\ ~Pending(i) => Judged(i))
        /\ (pc[<<"check", i>>] = "export" /\ ~log[i].missed => Judged(i))
    BY DEF VerdictsKept
  <2>4. pc'[<<"check", i>>] = "export" /\ ~log[i].missed => Judged(i)
    BY <2>1, <2>3, StepElsewhere
  <2>5. ASSUME i \notin cut, log[i].n > 0, ~log[i].missed, ~Pending(i)'
        PROVE  Judged(i)
    <3>1. CASE Pending(i)
      <4>1. <<"sim", i>> \in make'.touched \/ pc'[<<"sim", i>>] = "export2"
        <5>1. CASE s = <<"sim", i>>
          BY <1>1, <3>1, <5>1 DEF Pending
        <5>2. CASE s # <<"sim", i>>
          BY <1>1, <2>1, <3>1, <5>2, StepElsewhere DEF Pending
        <5> QED
          BY <5>1, <5>2
      <4>2. <<"check", i>> \in make'.settled /\ <<"check", i>> \notin make.settled
        BY <1>1, <2>5, <3>1, <4>1 DEF Pending
      <4>3. s = <<"check", i>>
        BY <2>1, <4>2, StepElsewhere
      <4> QED
        BY <2>5, <4>2, <4>3
    <3>2. CASE ~Pending(i)
      BY <2>3, <2>5, <3>2
    <3> QED
      BY <3>1, <3>2
  <2> QED
    BY <2>2, <2>3, <2>4, <2>5
<1>4. pc'[<<"collect", 0>>] = "export" => report'.passing = Passed'
  <2>1. CASE s = <<"collect", 0>>
    BY <2>1
  <2>2. CASE s # <<"collect", 0>>
    <3>1. pc'[<<"collect", 0>>] = pc[<<"collect", 0>>]
      BY <1>2, <2>2, StepElsewhere
    <3>2. pc[<<"collect", 0>>] = "export" => report.passing = Passed
      BY DEF VerdictsKept
    <3> QED
      BY <1>1, <2>2, <3>1, <3>2, PassedSame
  <2> QED
    BY <2>1, <2>2
<1> QED
  BY <1>3, <1>4, Zenon DEF VerdictsKept

\* A check that is skipped has been made before.
LEMMA VerdictsSkip ==
  ASSUME RegrTypeOK, MakeOrder, VerdictsKept, NEW s, Ready(s), pc[s] = "idle", TargetStep(s), Skip(s)
  PROVE  VerdictsKept'
<1>1. UNCHANGED <<log, trr, cut, pc, report, tests>>
  BY DEF Skip
<1>2. SameVerdicts
  BY <1>1 DEF SameVerdicts
<1>3. s # <<"collect", 0>> \/ pc'[s] # "export"
  BY <1>1
<1>4. ASSUME NEW i \in 1 .. MaxTests, s = <<"check", i>>, i \notin cut, log[i].n > 0, ~log[i].missed
      PROVE  Judged(i)
  <2>1. i \in DOMAIN tests
    BY <1>4, TargetOfTest DEF Ready
  <2>2. <<"sim", i>> \in make.settled /\ <<"sim", i>> \notin make.touched
    BY <1>4, <2>1, PrereqsTest DEF Skip, Remade, Considered
  <2>3. <<"sim", i>> \notin Running
    BY <2>2 DEF MakeOrder
  <2>4. pc[<<"sim", i>>] = "idle"
    BY <2>1, <2>3, TestIsTarget DEF Running
  <2>5. ~Pending(i)
    BY <2>2, <2>4 DEF Pending
  <2> QED
    BY <1>4, <2>5 DEF VerdictsKept
<1> QED
  BY <1>1, <1>2, <1>3, <1>4, VerdictsLeft

\* What follows a simulation or a check of a test.
LEMMA TestAlone ==
  ASSUME RegrTypeOK, MakeOrder, NEW s \in Targets, s[1] \in {"sim", "check"}, s \notin make.settled
  PROVE  /\ pc[<<"collect", 0>>] = "idle"
         /\ s[1] = "sim" => pc[<<"check", s[2]>>] = "idle" /\ <<"check", s[2]>> \notin make.settled
<1> DEFINE i == s[2]
<1>1. i \in DOMAIN tests /\ s \in AllTargets /\ s = <<s[1], i>>
  BY TargetOfTest, TargetsBounded, TargetKinds
<1>2. s[1] = "sim" => <<"check", i>> \notin Running \union make.settled
  BY <1>1, TestOrder
<1>3. <<"collect", 0>> \notin Running
  <2>1. SUFFICES ASSUME <<"collect", 0>> \in Running PROVE FALSE
    OBVIOUS
  <2>2. <<"check", i>> \in make.settled /\ <<"sim", i>> \in make.settled
    BY <1>1, <2>1, TestOrder
  <2> QED
    BY <1>1, <2>2
<1>4. <<"collect", 0>> \in AllTargets /\ <<"check", i>> \in AllTargets
  BY <1>1, LockedTargets, TestIsTarget DEF Locked
<1> QED
  BY <1>2, <1>3, <1>4 DEF Running

\* check_logs judges the log that is there.
LEMMA VerdictsCheck ==
  ASSUME RegrTypeOK, MakeOrder, SimulationsCurrent, VerdictsKept, NEW s, Ready(s), pc[s] = "idle",
         TargetStep(s), check_logs(s), ~compare_raises(trr[s[2]], log[s[2]])
  PROVE  VerdictsKept'
<1> DEFINE i == s[2]
<1>1. s = <<"check", i>> /\ i \in DOMAIN tests /\ i \in 1 .. MaxTests
  BY TargetKinds, TargetOfTest DEF check_logs, Ready, Locked
<1>2. UNCHANGED <<log, cut, report, tests, make>> /\ Opened(i, compare_test_run(trr[i], log[i])) /\ Goto(s, "export")
  BY DEF check_logs
<1>3. trr[i] \in Records /\ log[i] \in Logs /\ compare_test_run(trr[i], log[i]) \in Records
  BY <1>1, RecordTyped, CompareTyped
<1> DEFINE c == compare_test_run(trr[i], log[i])
<1>4. trr'[i].passed = c.passed /\ trr'[i].failure_mode = c.failure_mode
  <2>1. trr'[i] = [c EXCEPT !.whole = FALSE]
    BY <1>1, <1>2 DEF Opened, RegrTypeOK, RecordsTypeOK
  <2> HIDE DEF c
  <2> QED
    BY <1>3, <2>1 DEF Records, c
<1>5. \A j \in 1 .. MaxTests : j # i => trr'[j] = trr[j]
  BY <1>2 DEF Opened, RegrTypeOK, RecordsTypeOK
<1>6. log[i].n \in Nat /\ (log[i].missed \/ log[i].n >= 1)
  <2>1. <<"sim", i>> \in make.settled
    BY <1>1, PrereqsTest DEF Ready
  <2> QED
    BY <1>1, <1>3, <2>1 DEF SimulationsCurrent, Simulated, Logs
<1>7. /\ c.passed # "unset" \/ c.failure_mode # "unset"
      /\ Passing(log[i]) /\ c.failure_mode # "TIMEOUT" => c.passed = "yes"
      /\ c.passed = "yes" => trr[i].passed = "yes" \/ (Passing(log[i]) /\ c.failure_mode # "TIMEOUT")
      /\ Passing(log[i]) => c.failure_mode = trr[i].failure_mode
  BY <1>3, CompareVerdict
<1>8. Honest(i)
  BY <1>1 DEF VerdictsKept
<1> HIDE DEF c
<1>14. Passing(log[i]) => log[i].trace # <<>>
  BY DEF Passing
<1>9. (~log'[i].missed => Judged(i)') /\ Honest(i)'
  BY <1>2, <1>4, <1>6, <1>7, <1>8, <1>14 DEF Judged, Honest, Says
<1>10. pc[<<"collect", 0>>] = "idle"
  BY <1>1, TestAlone DEF Ready
<1>11. \A x \in AllTargets : x # s => pc'[x] = pc[x]
  BY StepElsewhere
<1>12. ASSUME NEW j \in 1 .. MaxTests, j # i
       PROVE  /\ Honest(j)'
              /\ (j \notin cut' /\ log'[j].n > 0 /\ ~log'[j].missed /\ ~Pending(j)') => Judged(j)'
              /\ pc'[<<"check", j>>] = "export" /\ ~log'[j].missed => Judged(j)'
  <2>1. <<"sim", j>> \in AllTargets /\ <<"check", j>> \in AllTargets
    BY DEF AllTargets
  <2>2. pc'[<<"sim", j>>] = pc[<<"sim", j>>] /\ pc'[<<"check", j>>] = pc[<<"check", j>>]
    BY <1>1, <1>11, <1>12, <2>1
  <2>3. Pending(j)' = Pending(j)
    BY <1>2, <2>2 DEF Pending
  <2>4. Says(j)' = Says(j)
    BY <1>2, <1>5, <1>12 DEF Says
  <2>5. Honest(j)' = Honest(j) /\ Judged(j)' = Judged(j)
    BY <1>2, <1>5, <1>12, <2>4 DEF Honest, Judged
  <2> QED
    BY <1>2, <2>2, <2>3, <2>5 DEF VerdictsKept
<1>13. pc'[<<"collect", 0>>] # "export"
  BY <1>1, <1>10, <1>11, LockedTargets DEF Locked
<1> QED
  BY <1>9, <1>12, <1>13 DEF VerdictsKept

\* The verdicts are kept when make considers a target,
LEMMA VerdictsConsider ==
  ASSUME RegrTypeOK, MakeOrder, SimulationsCurrent, VerdictsKept, NEW s, Ready(s), pc[s] = "idle",
         TargetStep(s), Consider(s)
  PROVE  VerdictsKept'
<1>1. CASE Skip(s)
  BY <1>1, VerdictsSkip
<1>2. CASE check_logs(s) /\ ~compare_raises(trr[s[2]], log[s[2]])
  BY <1>2, VerdictsCheck
<1>3. CASE ~Skip(s) /\ ~(check_logs(s) /\ ~compare_raises(trr[s[2]], log[s[2]]))
  <2>1. UNCHANGED <<log, cut, report>>
    BY <1>3 DEF Consider, StartLocked, touch, merge_cov, ReadFails, run_instr_gen, compile_cmds,
         get_sim_cmds, check_logs
  <2>2. trr' = trr \/ (s[1] \in {"gen", "comp", "sim"} /\ Opened(s[2], trr[s[2]]))
    BY <1>3 DEF Consider, StartLocked, touch, merge_cov, ReadFails, run_instr_gen, compile_cmds,
         get_sim_cmds, check_logs
  <2>3. SameVerdicts
    <3>1. CASE trr' = trr
      BY <3>1 DEF SameVerdicts
    <3>2. CASE s[1] \in {"gen", "comp", "sim"} /\ Opened(s[2], trr[s[2]])
      <4>1. s[2] \in 1 .. MaxTests
        BY <3>2, TargetKinds DEF Locked, Ready
      <4> QED
        BY <3>2, <4>1, ExportSame
    <3> QED
      BY <2>2, <3>1, <3>2
  <2>4. CASE s[1] \in {"check", "collect"}
    <3>1. pc'[s] \in {"idle", "lock"}
      BY <1>3, <2>4 DEF Consider, StartLocked, touch, merge_cov, ReadFails, run_instr_gen, compile_cmds,
         get_sim_cmds, check_logs, Goto, Fail, Ready, RegrTypeOK, MakeTypeOK, MakeRecords, CovOff
    <3>2. make' = make \/ make' = [make EXCEPT !.failed = @ \union {s}]
      BY <1>3, <2>4 DEF Consider, StartLocked, touch, merge_cov, ReadFails, run_instr_gen, compile_cmds,
         get_sim_cmds, check_logs, Fail, CovOff
    <3>3. s \notin make'.settled
      BY <3>2 DEF Ready, RegrTypeOK, MakeTypeOK, MakeRecords
    <3> QED
      BY <2>1, <2>3, <3>1, <3>3, VerdictsLeft
  <2>5. CASE s[1] \notin {"check", "collect"}
    <3>1. s # <<"collect", 0>> /\ \A i \in 1 .. MaxTests : s # <<"check", i>>
      BY <2>5
    <3> QED
      BY <2>1, <2>3, <3>1, VerdictsLeft
  <2> QED
    BY <2>4, <2>5
<1> QED
  BY <1>1, <1>2, <1>3

\* What a simulator leaves of a record: the verdict is as it was.
LEMMA RecordedPassed ==
  ASSUME RegrTypeOK, NEW i \in 1 .. MaxTests, NEW killed, Recorded(i, killed)
  PROVE  trr'[i].passed = trr[i].passed /\ \A j \in 1 .. MaxTests : j # i => trr'[j] = trr[j]
<1>1. trr \in [1 .. MaxTests -> Records] /\ trr[i] \in Records
  BY DEF RegrTypeOK, RecordsTypeOK
<1>2. \A j \in 1 .. MaxTests : j # i => trr'[j] = trr[j]
  BY <1>1 DEF Recorded, Opened
<1>3. CASE killed
  <2>1. trr'[i] = [[trr[i] EXCEPT !.failure_mode = "TIMEOUT"] EXCEPT !.whole = FALSE]
    BY <1>1, <1>3, Zenon DEF Recorded, Opened
  <2> QED
    BY <1>1, <1>2, <2>1 DEF Records
<1>4. CASE ~killed
  <2>1. trr'[i] = [trr[i] EXCEPT !.whole = FALSE]
    BY <1>1, <1>4 DEF Recorded, Opened
  <2> QED
    BY <1>1, <1>2, <2>1 DEF Records
<1> QED
  BY <1>3, <1>4

\* when a simulation writes its log: the log count grows, and the check is pending,
LEMMA VerdictsRun ==
  ASSUME RegrTypeOK, MakeOrder, VerdictsKept, NEW s, Ready(s), TargetStep(s), NEW sim, run_rtl(s, sim)
  PROVE  VerdictsKept'
<1> DEFINE i == s[2]
<1>1. s = <<"sim", i>> /\ i \in DOMAIN tests /\ i \in 1 .. MaxTests
  BY TargetKinds, TargetOfTest DEF run_rtl, Ready, Locked
<1>2. UNCHANGED <<cut, report, tests, make>> /\ Goto(s, "export2")
  BY DEF run_rtl
<1>3. trr[i] \in Records /\ log[i] \in Logs
  BY <1>1, RecordTyped
<1>4. log'[i].n = log[i].n + 1 /\ log[i].n \in Nat
  BY <1>1, <1>3 DEF run_rtl, RegrTypeOK, RecordsTypeOK, Logs
<1>5. trr'[i].passed = trr[i].passed /\ \A j \in 1 .. MaxTests : j # i => trr'[j] = trr[j]
  BY <1>1, RecordedPassed DEF run_rtl
<1>6. \A j \in 1 .. MaxTests : j # i => trr'[j] = trr[j] /\ log'[j] = log[j]
  BY <1>5 DEF run_rtl, RegrTypeOK, RecordsTypeOK
<1>7. pc[<<"collect", 0>>] = "idle" /\ pc[<<"check", i>>] = "idle" /\ <<"check", i>> \notin make.settled
  BY <1>1, TestAlone DEF Ready
<1>8. Honest(i)'
  <2>1. log[i].n = 0 => trr[i].passed # "yes"
    BY <1>1 DEF VerdictsKept, Honest
  <2>2. log'[i].n # 0
    BY <1>4
  <2>3. log'[i].n = 1 => trr'[i].passed # "yes"
    BY <1>4, <1>5, <2>1
  <2> QED
    BY <2>2, <2>3 DEF Honest
<1>9. \A x \in AllTargets : x # s => pc'[x] = pc[x]
  BY StepElsewhere
<1>10. Pending(i)'
  <2>1. pc'[<<"sim", i>>] = "export2"
    BY <1>1, <1>2 DEF Goto, Ready, RegrTypeOK, MakeTypeOK, MakeRecords
  <2> QED
    BY <1>2, <1>7, <2>1 DEF Pending, Ready
<1>11. pc'[<<"check", i>>] # "export" /\ pc'[<<"collect", 0>>] # "export"
  <2>1. <<"check", i>> \in AllTargets /\ <<"collect", 0>> \in AllTargets
    BY <1>1, TestIsTarget, LockedTargets DEF Locked
  <2>2. <<"check", i>> # s /\ <<"collect", 0>> # s
    BY <1>1
  <2> QED
    BY <1>7, <1>9, <2>1, <2>2
<1>12. ASSUME NEW j \in 1 .. MaxTests, j # i
       PROVE  /\ Honest(j)'
              /\ (j \notin cut' /\ log'[j].n > 0 /\ ~log'[j].missed /\ ~Pending(j)') => Judged(j)'
              /\ pc'[<<"check", j>>] = "export" /\ ~log'[j].missed => Judged(j)'
  <2>1. <<"sim", j>> \in AllTargets /\ <<"check", j>> \in AllTargets
    BY DEF AllTargets
  <2>2. pc'[<<"sim", j>>] = pc[<<"sim", j>>] /\ pc'[<<"check", j>>] = pc[<<"check", j>>]
    BY <1>1, <1>9, <1>12, <2>1
  <2>3. Pending(j)' = Pending(j)
    BY <1>2, <2>2 DEF Pending
  <2>4. Says(j)' = Says(j)
    BY <1>6, <1>12 DEF Says
  <2>5. Honest(j)' = Honest(j) /\ Judged(j)' = Judged(j)
    BY <1>6, <1>12, <2>4 DEF Honest, Judged
  <2> QED
    BY <1>2, <1>6, <1>12, <2>2, <2>3, <2>5 DEF VerdictsKept
<1> QED
  BY <1>8, <1>10, <1>11, <1>12 DEF VerdictsKept

\* or writes none: nothing more is said of the test,
LEMMA VerdictsMissed ==
  ASSUME RegrTypeOK, MakeOrder, VerdictsKept, NEW s, Ready(s), TargetStep(s), NEW killed, NothingSimulated(s, killed)
  PROVE  VerdictsKept'
<1> DEFINE i == s[2]
<1>1. s = <<"sim", i>> /\ i \in DOMAIN tests /\ i \in 1 .. MaxTests
  BY TargetKinds, TargetOfTest DEF NothingSimulated, Ready, Locked
<1>2. UNCHANGED <<cut, report, tests, make>>
  BY DEF NothingSimulated
<1>4. log'[i].n = log[i].n /\ log'[i].trace = log[i].trace /\ log'[i].missed
  BY MissedLog
<1>5. trr'[i].passed = trr[i].passed /\ \A j \in 1 .. MaxTests : j # i => trr'[j] = trr[j]
  BY <1>1, RecordedPassed DEF NothingSimulated
<1>6. \A j \in 1 .. MaxTests : j # i => trr'[j] = trr[j] /\ log'[j] = log[j]
  BY <1>5 DEF NothingSimulated, RegrTypeOK, RecordsTypeOK
<1>7. pc[<<"collect", 0>>] = "idle" /\ pc[<<"check", i>>] = "idle" /\ <<"check", i>> \notin make.settled
  BY <1>1, TestAlone DEF Ready
<1>8. Honest(i)'
  BY <1>1, <1>4, <1>5 DEF VerdictsKept, Honest
<1>9. \A x \in AllTargets : x # s => pc'[x] = pc[x]
  BY StepElsewhere
<1>11. pc'[<<"check", i>>] # "export" /\ pc'[<<"collect", 0>>] # "export"
  <2>1. <<"check", i>> \in AllTargets /\ <<"collect", 0>> \in AllTargets
    BY <1>1, TestIsTarget, LockedTargets DEF Locked
  <2>2. <<"check", i>> # s /\ <<"collect", 0>> # s
    BY <1>1
  <2> QED
    BY <1>7, <1>9, <2>1, <2>2
<1>12. ASSUME NEW j \in 1 .. MaxTests, j # i
       PROVE  /\ Honest(j)'
              /\ (j \notin cut' /\ log'[j].n > 0 /\ ~log'[j].missed /\ ~Pending(j)') => Judged(j)'
              /\ pc'[<<"check", j>>] = "export" /\ ~log'[j].missed => Judged(j)'
  <2>1. <<"sim", j>> \in AllTargets /\ <<"check", j>> \in AllTargets
    BY DEF AllTargets
  <2>2. pc'[<<"sim", j>>] = pc[<<"sim", j>>] /\ pc'[<<"check", j>>] = pc[<<"check", j>>]
    BY <1>1, <1>9, <1>12, <2>1
  <2>3. Pending(j)' = Pending(j)
    BY <1>2, <2>2 DEF Pending
  <2>4. Says(j)' = Says(j)
    BY <1>6, <1>12 DEF Says
  <2>5. Honest(j)' = Honest(j) /\ Judged(j)' = Judged(j)
    BY <1>6, <1>12, <2>4 DEF Honest, Judged
  <2> QED
    BY <1>2, <1>6, <1>12, <2>2, <2>3, <2>5 DEF VerdictsKept
<1> QED
  BY <1>4, <1>8, <1>11, <1>12 DEF VerdictsKept

\* when the collection reads the records,
LEMMA VerdictsBody ==
  ASSUME RegrTypeOK, MakeOrder, VerdictsKept, NEW s, Ready(s), TargetStep(s), body(s)
  PROVE  VerdictsKept'
<1>1. UNCHANGED <<log, trr, cut, tests>> /\ s[1] \in Locked /\ pc[s] = "body"
  BY DEF body
<1>2. SameVerdicts
  BY <1>1 DEF SameVerdicts
<1>3. \A i \in 1 .. MaxTests : s # <<"check", i>> /\ s # <<"sim", i>>
  BY <1>1 DEF Locked
<1>4. CASE s = <<"collect", 0>>
  <2>1. pc'[s] = "export" => report'.passing = Passed'
    <3>1. ASSUME pc'[s] = "export"
          PROVE  ~CollectRaises
      BY <1>4, <3>1 DEF body, Goto, Ready, RegrTypeOK, MakeTypeOK, MakeRecords
    <3>2. ASSUME ~CollectRaises
          PROVE  report'.passing = Passed
      BY <1>4, <3>2 DEF body, collect_results, CollectRaises, Passed
    <3> QED
      BY <1>1, <1>2, <3>1, <3>2, PassedSame
  <2> QED
    BY <1>1, <1>2, <1>3, <1>4, <2>1, VerdictsLeft
<1>5. CASE s # <<"collect", 0>>
  <2>1. s[1] # "collect"
    BY <1>1, <1>5, TargetKinds DEF Ready, Locked
  <2>2. report' = report
    BY <2>1 DEF body
  <2> QED
    BY <1>1, <1>2, <1>3, <1>5, <2>2, VerdictsLeft
<1> QED
  BY <1>4, <1>5

\* and so at every step of a script;
LEMMA VerdictsContinue ==
  ASSUME RegrTypeOK, MakeOrder, VerdictsKept, NEW s, Ready(s), TargetStep(s), Continue(s)
  PROVE  VerdictsKept'
<1>1. ASSUME NEW sim, run_rtl(s, sim)
      PROVE  VerdictsKept'
  BY <1>1, VerdictsRun
<1>5. ASSUME NEW killed, NothingSimulated(s, killed)
      PROVE  VerdictsKept'
  BY <1>5, VerdictsMissed
<1>2. CASE body(s)
  BY <1>2, VerdictsBody
<1>3. CASE enter(s) \/ handler(s) \/ leave(s) \/ \E rc \in {0, 1} : tool(s, rc)
  <2>1. UNCHANGED <<log, trr, cut, tests, report>> /\ s[1] \in Locked /\ pc'[s] # "export"
    BY <1>3 DEF enter, handler, leave, tool, Goto, Fail, Ready, RegrTypeOK, MakeTypeOK, MakeRecords
  <2>2. SameVerdicts
    BY <2>1 DEF SameVerdicts
  <2>3. \A i \in 1 .. MaxTests : s # <<"check", i>> /\ s # <<"sim", i>>
    BY <2>1 DEF Locked
  <2> QED
    BY <2>1, <2>2, <2>3, VerdictsLeft
<1>4. CASE \/ GenExported(s) \/ CompExported(s) \/ \E ret \in {0, 1} : compile_test(s, ret)
           \/ SimExported(s) \/ SimEnds(s) \/ CheckExported(s)
  <2>1. UNCHANGED <<log, cut, tests, report>> /\ s[1] \in {"gen", "comp", "sim", "check"}
        /\ (trr' = trr \/ Closed(s[2]))
    BY <1>4 DEF GenExported, CompExported, compile_test, SimExported, SimEnds, CheckExported
  <2>2. SameVerdicts
    <3>1. s[2] \in 1 .. MaxTests
      BY <2>1, TargetKinds DEF Locked, Ready
    <3>2. CASE trr' = trr
      BY <3>2 DEF SameVerdicts
    <3> QED
      BY <2>1, <3>1, <3>2, ExportSame
  <2>3. ASSUME NEW i \in 1 .. MaxTests, s = <<"check", i>>
        PROVE  (~log[i].missed => Judged(i)) /\ pc'[s] # "export"
    <3>1. pc[s] = "export" /\ pc'[s] = "idle"
      BY <1>4, <2>3 DEF GenExported, CompExported, compile_test, SimExported, SimEnds, CheckExported,
                        Goto, Ready, RegrTypeOK, MakeTypeOK, MakeRecords
    <3> QED
      BY <2>3, <3>1 DEF VerdictsKept
  <2>4. ASSUME NEW i \in 1 .. MaxTests, s = <<"sim", i>>, pc[s] = "export2"
        PROVE  s \in make'.touched
    <3>1. SimEnds(s)
      BY <1>4, <2>4 DEF GenExported, CompExported, compile_test, SimExported, CheckExported
    <3> QED
      BY <2>4, <3>1 DEF SimEnds, Settle, RegrTypeOK, MakeTypeOK, MakeRecords
  <2>5. s # <<"collect", 0>>
    BY <2>1
  <2> QED
    BY <2>1, <2>2, <2>3, <2>4, <2>5, VerdictsLeft
<1> QED
  BY <1>1, <1>2, <1>3, <1>4, <1>5 DEF Continue

\* and between makes: a make that ended with a check still pending has cut that test off.
LEMMA VerdictsMakes ==
  ASSUME RegrTypeOK, MakeOrder, VerdictsKept, StartMake \/ EndMake \/ EditRtl \/ CtrlC
  PROVE  VerdictsKept'
<1>1. UNCHANGED <<log, trr, report>>
  BY DEF StartMake, EndMake, EditRtl, CtrlC
<1>2. \A i : Says(i)' = Says(i)
  BY <1>1 DEF Says
<1>3. \A i : Honest(i)' = Honest(i) /\ Judged(i)' = Judged(i)
  BY <1>1, <1>2 DEF Honest, Judged
<1>4. ASSUME NEW i \in 1 .. MaxTests, Pending(i)
      PROVE  i \in DOMAIN tests
  <2>1. <<"sim", i>> \in AllTargets
    BY DEF AllTargets
  <2>2. <<"sim", i>> \in Targets
    BY <1>4, <2>1 DEF Pending, MakeOrder, Running
  <2> QED
    BY <2>2, TargetOfTest
<1>5. ASSUME NEW i \in 1 .. MaxTests, i \notin cut'
      PROVE  i \notin cut /\ (Pending(i) => Pending(i)')
  <2>1. CASE StartMake \/ EditRtl
    <3>1. ~Pending(i) /\ cut' = cut
      BY <2>1 DEF StartMake, EditRtl, Pending
    <3> QED
      BY <1>5, <3>1
  <2>2. CASE EndMake \/ CtrlC
    <3>1. CutOff
      BY <2>2 DEF EndMake, CtrlC
    <3>2. i \notin cut /\ ~(/\ i \in DOMAIN tests
                            /\ <<"sim", i>> \in make.touched \/ pc[<<"sim", i>>] = "export2"
                            /\ <<"check", i>> \notin make.settled)
      BY <1>5, <3>1 DEF CutOff
    <3>3. ~Pending(i)
      BY <1>4, <3>2 DEF Pending
    <3> QED
      BY <3>2, <3>3
  <2> QED
    BY <2>1, <2>2
<1>6. \A x \in AllTargets : pc'[x] = "idle" \/ pc'[x] = pc[x]
  BY DEF StartMake, EndMake, EditRtl, CtrlC
<1>7. ASSUME NEW i \in 1 .. MaxTests
      PROVE  /\ Honest(i)'
             /\ (i \notin cut' /\ log'[i].n > 0 /\ ~log'[i].missed /\ ~Pending(i)') => Judged(i)'
             /\ pc'[<<"check", i>>] = "export" /\ ~log'[i].missed => Judged(i)'
  <2>1. <<"check", i>> \in AllTargets
    BY DEF AllTargets
  <2> QED
    BY <1>1, <1>3, <1>5, <1>6, <2>1 DEF VerdictsKept
<1>8. pc'[<<"collect", 0>>] # "export" \/ (pc[<<"collect", 0>>] = "export" /\ tests' = tests)
  <2>1. <<"collect", 0>> \in AllTargets
    BY LockedTargets DEF Locked
  <2>2. CASE StartMake
    BY <2>1, <2>2 DEF StartMake, MakeOrder
  <2>3. CASE EndMake \/ EditRtl \/ CtrlC
    BY <1>6, <2>1, <2>3 DEF EndMake, EditRtl, CtrlC
  <2> QED
    BY <2>2, <2>3
<1>9. SameVerdicts
  BY <1>1 DEF SameVerdicts
<1> QED
  BY <1>1, <1>7, <1>8, <1>9, PassedSame DEF VerdictsKept

\* ReportTrue is a consequence of the invariant: every check is settled before the collection.
LEMMA ReportTrueHolds ==
  ASSUME RegrInv
  PROVE  ReportTrue
<1> USE DEF RegrInv
<1>1. SUFFICES ASSUME pc[<<"collect", 0>>] = "export", NEW i \in DOMAIN tests
               PROVE  /\ i \in report.passing => log[i].n > 0
                      /\ ~log[i].missed =>
                           /\ log[i].rtl = rtl
                           /\ i \notin cut => /\ trr[i].passed # "unset" \/ trr[i].failure_mode # "unset"
                                              /\ log[i].n = 1 => (i \in report.passing <=> Passing(log[i]) /\ trr[i].failure_mode # "TIMEOUT")
  BY DEF ReportTrue
<1>2. i \in 1 .. MaxTests /\ <<"sim", i>> \in AllTargets
  BY TestIsTarget
<1>3. log[i] \in Logs
  BY <1>2, RecordTyped
<1>4. Honest(i) /\ (i \in report.passing <=> trr[i].passed = "yes")
  BY <1>1, <1>2 DEF VerdictsKept, Passed
<1>5. i \in report.passing => log[i].n > 0
  BY <1>3, <1>4 DEF Logs, Honest
<1>6. ASSUME ~log[i].missed
      PROVE  /\ log[i].rtl = rtl
             /\ i \notin cut => Judged(i)
  <2>1. <<"collect", 0>> \in Running
    BY <1>1, LockedTargets DEF Running, Locked
  <2>2. <<"check", i>> \in make.settled /\ <<"sim", i>> \in make.settled /\ <<"tb", 0>> \in make.settled /\ make.state # "idle"
    BY <2>1, <1>2, TestOrder DEF MakeOrder, Running
  <2>3. Simulated(i) /\ tb = rtl
    BY <1>6, <2>2 DEF SimulationsCurrent
  <2>4. log[i].n > 0
    BY <1>3, <2>3 DEF Simulated, Logs
  <2>5. ~Pending(i)
    BY <2>2 DEF Pending
  <2> QED
    BY <1>2, <1>6, <2>3, <2>4, <2>5 DEF VerdictsKept, Simulated
<1> QED
  BY <1>4, <1>5, <1>6 DEF Judged, Honest, Says

\* Before the first make.
LEMMA RegrInitHolds == RegrInit => RegrInv
<1> SUFFICES ASSUME RegrInit PROVE RegrInv
  OBVIOUS
<1>1. MakeTypeOK
  BY NoMakeTyped DEF RegrInit, MakeTypeOK, Places
<1>2. MetadataTypeOK
  BY DEF RegrInit, MetadataTypeOK
<1>3. RecordsTypeOK
  <2>1. NoLog \in Logs
    BY DEF NoLog, Logs
  <2>2. TestRunResult \in Records
    BY DEF TestRunResult, Records, Verdicts, Modes
  <2> QED
    BY <2>1, <2>2 DEF RegrInit, RecordsTypeOK
<1>4. TreeTypeOK
  BY DEF RegrInit, TreeTypeOK
<1>5. make = NoMake /\ \A s \in AllTargets : pc[s] = "idle"
  BY DEF RegrInit
<1>6. MakeOrder
  BY <1>5 DEF MakeOrder, NoMake, Running
<1>7. MetadataHeld
  BY DEF RegrInit, MetadataHeld, Done, NoMake, AllTargets, Locked
<1>8. SimulationsCurrent
  BY <1>5, LockedTargets DEF RegrInit, SimulationsCurrent, NoMake, Locked
<1>9. VerdictsKept
  <2>1. pc[<<"collect", 0>>] = "idle"
    BY <1>5, LockedTargets DEF Locked
  <2>2. ASSUME NEW i \in 1 .. MaxTests
        PROVE  log[i].n = 0 /\ log[i].trace = <<>> /\ trr[i].passed = "unset" /\ pc[<<"check", i>>] = "idle"
    BY <1>5 DEF RegrInit, NoLog, TestRunResult, AllTargets
  <2> QED
    BY <2>1, <2>2 DEF VerdictsKept, Honest
<1> QED
  BY <1>1, <1>2, <1>3, <1>4, <1>6, <1>7, <1>8, <1>9 DEF RegrInv, RegrTypeOK

\* Every step keeps the invariant.
LEMMA RegrInvKept == RegrInv /\ [RegrNext]_regrVars => RegrInv'
<1> SUFFICES ASSUME RegrInv, [RegrNext]_regrVars PROVE RegrInv'
  OBVIOUS
<1>1. RegrTypeOK /\ MakeOrder /\ MetadataHeld /\ SimulationsCurrent /\ VerdictsKept
  BY DEF RegrInv
<1>2. CASE StartMake \/ EndMake \/ EditRtl \/ CtrlC
  BY <1>1, <1>2, MakesTyped, MakesKeepOrder, MetadataMakes, CurrentMakes, VerdictsMakes DEF RegrInv
<1>3. ASSUME NEW s \in Running, Continue(s)
      PROVE  RegrInv'
  <2>1. Ready(s) /\ pc[s] # "idle"
    BY <1>1, RunningReady
  <2>2. TargetStep(s)
    BY <1>1, <1>3, <2>1, ContinueSteps
  <2> QED
    BY <1>1, <1>3, <2>1, <2>2, ContinueTyped, StepKeepsOrder, MetadataContinue, CurrentContinue,
       VerdictsContinue DEF RegrInv
<1>4. ASSUME NEW s \in Targets, Considered(s), Consider(s)
      PROVE  RegrInv'
  <2>1. Ready(s) /\ pc[s] = "idle"
    BY <1>1, <1>4, ConsideredReady
  <2>2. TargetStep(s)
    BY <1>1, <1>4, <2>1, ConsiderSteps
  <2> QED
    BY <1>1, <1>4, <2>1, <2>2, ConsiderTyped, StepKeepsOrder, MetadataConsider, CurrentConsider,
       VerdictsConsider DEF RegrInv
<1>5. CASE UNCHANGED regrVars
  <2> USE <1>5 DEF regrVars
  <2>1. RegrTypeOK'
    BY <1>1 DEF RegrTypeOK, MakeTypeOK, MakeRecords, MetadataTypeOK, RecordsTypeOK, TreeTypeOK
  <2>2. MakeOrder'
    <3>1. Targets' = Targets /\ \A x : Prereqs(x)' = Prereqs(x)
      BY SameTargets
    <3> QED
      BY <1>1, <3>1 DEF MakeOrder, Running
  <2>3. MetadataHeld' /\ SimulationsCurrent'
    BY <1>1 DEF MetadataHeld, Done, SimulationsCurrent, Simulated
  <2>4. VerdictsKept'
    <3>1. \A i : Judged(i)' = Judged(i) /\ Honest(i)' = Honest(i) /\ Pending(i)' = Pending(i)
      BY DEF Judged, Honest, Pending, Says
    <3>2. Passed' = Passed
      BY DEF Passed
    <3> QED
      BY <1>1, <3>1, <3>2 DEF VerdictsKept
  <2> QED
    BY <2>1, <2>2, <2>3, <2>4 DEF RegrInv
<1> QED
  BY <1>2, <1>3, <1>4, <1>5 DEF RegrNext, Work

\* The inductive invariant of the regression: its types, the order of make, the shared metadata, what is up to
\* date, and the verdicts, for any set of arguments, tests and simulations and any number of recipes at a time.
THEOREM RegressionInvariant == RegrSpec => []RegrInv
<1> QED
  BY RegrInitHolds, RegrInvKept, PTL DEF RegrSpec

\* Each variable keeps its type; the number of each test is within the bound.
THEOREM RegressionTyped == RegrSpec => []RegrTypeOK
<1>1. RegrInv => RegrTypeOK
  BY DEF RegrInv
<1> QED
  BY <1>1, RegressionInvariant, PTL

\* No field of the metadata is lost between scripts that load, change and rewrite it at the same time
\* (LockedMetadata), and the unlocked records of a test have one script at a time, none while they are collected.
THEOREM RegressionFilesKept == RegrSpec => []FilesKept
<1>1. RegrInv => FilesKept
  BY FilesKeptHolds DEF RegrInv
<1> QED
  BY <1>1, RegressionInvariant, PTL

\* Where each simulator left its log the report is about simulations of the current RTL (the prerequisites of the rules of ibex_sim.mk), each
\* checked unless a make was cut off, the first verdict on a test is that of its log, and no test passes that never left one
\* (check_logs, collect_results).
THEOREM RegressionReportTrue == RegrSpec => []ReportTrue
<1>1. RegrInv => ReportTrue
  BY ReportTrueHolds
<1> QED
  BY <1>1, RegressionInvariant, PTL

-----------------------------------------------------------------------------
(* The tests that are run.                                                   *)

\* A function on the first numbers is a sequence.
LEMMA SequenceOf ==
  ASSUME NEW S, NEW n \in Nat, NEW f, f = [i \in 1 .. n |-> f[i]], \A i \in 1 .. n : f[i] \in S
  PROVE  f \in Seq(S) /\ Len(f) = n /\ DOMAIN f = 1 .. n
OBVIOUS

\* F is the recursive function of FlattenSeq, as far as m.
StepOfFlatten(F, ss, n) == IF n = 1 THEN ss[n] ELSE F[n - 1] \o ss[n]
Flattens(F, ss, m) == F = [n \in 1 .. m |-> StepOfFlatten(F, ss, n)]

\* The recursion of FlattenSeq defines a function.
LEMMA FlattenExists ==
  ASSUME NEW ss, NEW k \in Nat
  PROVE  \E F : Flattens(F, ss, k)
<1> DEFINE P == {m \in Nat : \E F : Flattens(F, ss, m)}
<1>1. 0 \in P
  <2>1. Flattens([n \in 1 .. 0 |-> n], ss, 0)
    BY DEF Flattens
  <2> QED
    BY <2>1
<1>2. ASSUME NEW m \in P PROVE m + 1 \in P
  <2>1. PICK F : Flattens(F, ss, m)
    OBVIOUS
  <2> DEFINE G == [n \in 1 .. m + 1 |-> StepOfFlatten(F, ss, n)]
  <2>2. \A n \in 1 .. m : F[n] = StepOfFlatten(F, ss, n)
    BY <2>1 DEF Flattens
  <2>3. \A n \in 1 .. m + 1 : G[n] = StepOfFlatten(F, ss, n)
    OBVIOUS
  <2>4. m \in Nat /\ \A n \in 1 .. m : n \in 1 .. m + 1
    OBVIOUS
  <2>5. \A n \in 1 .. m : G[n] = F[n]
    BY <2>2, <2>3, <2>4
  <2>6. \A n \in 1 .. m + 1 : n # 1 => n - 1 \in 1 .. m
    BY <2>4
  <2>7. \A n \in 1 .. m + 1 : StepOfFlatten(F, ss, n) = StepOfFlatten(G, ss, n)
    <3> HIDE DEF G
    <3> QED
      BY <2>5, <2>6 DEF StepOfFlatten
  <2>8. Flattens(G, ss, m + 1)
    <3>1. G = [n \in 1 .. m + 1 |-> G[n]]
      OBVIOUS
    <3> HIDE DEF G
    <3> QED
      BY <2>3, <2>7, <3>1 DEF Flattens
  <2> QED
    BY <2>4, <2>8
<1>3. P \in SUBSET Nat
  OBVIOUS
<1> HIDE DEF P
<1>4. P = Nat
  BY <1>1, <1>2, <1>3, Induction
<1> QED
  BY <1>4 DEF P

\* What FlattenSeq returns: the elements of the sequences, each once if it is there once.
Disjoint(ss) == \A i, j \in DOMAIN ss : i # j => Range(ss[i]) \cap Range(ss[j]) = {}
LEMMA FlattenFacts ==
  ASSUME NEW S, NEW ss \in Seq(Seq(S))
  PROVE  /\ FlattenSeq(ss) \in Seq(S)
         /\ Range(FlattenSeq(ss)) = UNION {Range(ss[i]) : i \in DOMAIN ss}
         /\ Disjoint(ss) /\ (\A i \in DOMAIN ss : IsInjective(ss[i])) => IsInjective(FlattenSeq(ss))
<1>1. PICK k \in Nat : k = Len(ss) /\ DOMAIN ss = 1 .. k
  OBVIOUS
<1>2. CASE k = 0
  <2>1. ss = <<>> /\ FlattenSeq(ss) = <<>>
    BY <1>1, <1>2 DEF FlattenSeq
  <2>2. <<>> \in Seq(S) /\ DOMAIN <<>> = {}
    OBVIOUS
  <2>3. Range(<<>>) = {} /\ IsInjective(<<>>)
    BY <2>2 DEF Range, IsInjective
  <2> QED
    BY <1>1, <1>2, <2>1, <2>2, <2>3
<1>3. CASE k # 0
  <2>1. PICK F : Flattens(F, ss, k) /\ FlattenSeq(ss) = F[k]
    <3>1. PICK F0 : Flattens(F0, ss, k)
      BY FlattenExists
    <3> DEFINE G == CHOOSE H : H = [i \in 1 .. Len(ss) |-> IF i = 1 THEN ss[i] ELSE H[i - 1] \o ss[i]]
    <3>2. F0 = [i \in 1 .. Len(ss) |-> IF i = 1 THEN ss[i] ELSE F0[i - 1] \o ss[i]]
      BY <1>1, <3>1 DEF Flattens, StepOfFlatten
    <3>3. G = [i \in 1 .. Len(ss) |-> IF i = 1 THEN ss[i] ELSE G[i - 1] \o ss[i]]
      BY <3>2
    <3>4. FlattenSeq(ss) = G[Len(ss)]
      BY <1>1, <1>3 DEF FlattenSeq
    <3> HIDE DEF G
    <3>5. Flattens(G, ss, k)
      BY <1>1, <3>3 DEF Flattens, StepOfFlatten
    <3> QED
      BY <1>1, <3>4, <3>5
  <2>2. /\ F[1] = ss[1]
        /\ \A n \in 1 .. k : n # 1 => F[n] = F[n - 1] \o ss[n]
    <3>1. F = [n \in 1 .. k |-> StepOfFlatten(F, ss, n)]
      BY <2>1 DEF Flattens
    <3>2. \A n \in 1 .. k : F[n] = StepOfFlatten(F, ss, n)
      BY <3>1
    <3>3. 1 \in 1 .. k
      BY <1>3
    <3> QED
      BY <3>2, <3>3 DEF StepOfFlatten
  <2> DEFINE First(m) == UNION {Range(ss[i]) : i \in 1 .. m}
             Good(m) == /\ F[m] \in Seq(S) /\ Range(F[m]) = First(m)
                        /\ Disjoint(ss) /\ (\A i \in DOMAIN ss : IsInjective(ss[i])) => IsInjective(F[m])
             P == {m \in Nat : m + 1 <= k => Good(m + 1)}
  <2>3. 0 \in P
    <3>1. 1 \in 1 .. k /\ 0 + 1 = 1
      BY <1>3
    <3>2. First(1) = Range(ss[1])
      <4>1. \A i : i \in 1 .. 1 <=> i = 1
        OBVIOUS
      <4> QED
        BY <4>1
    <3> HIDE DEF First
    <3>3. Good(1)
      BY <1>1, <2>2, <3>1, <3>2
    <3> HIDE DEF Good
    <3> QED
      BY <3>1, <3>3
  <2>4. ASSUME NEW m \in P PROVE m + 1 \in P
    <3> DEFINE n == m + 1
    <3>1. m \in Nat /\ n \in Nat /\ (n <= k => Good(n))
      OBVIOUS
    <3>2. SUFFICES ASSUME n + 1 <= k PROVE Good(n + 1)
      BY <3>1
    <3>3. Good(n) /\ n \in 1 .. k /\ n + 1 \in 1 .. k /\ n + 1 # 1 /\ (n + 1) - 1 = n
      BY <3>1, <3>2
    <3> HIDE DEF n
    <3>4. F[n + 1] = F[n] \o ss[n + 1]
      BY <2>2, <3>3
    <3>5. F[n] \in Seq(S) /\ ss[n + 1] \in Seq(S)
      BY <1>1, <3>3
    <3>6. /\ F[n + 1] \in Seq(S) /\ Range(F[n + 1]) = Range(F[n]) \cup Range(ss[n + 1])
          /\ IsInjective(F[n]) /\ IsInjective(ss[n + 1]) /\ Range(F[n]) \cap Range(ss[n + 1]) = {} => IsInjective(F[n + 1])
      BY <3>4, <3>5, ConcatFacts
    <3>7. \A x, j : x \in First(j) <=> \E i \in 1 .. j : x \in Range(ss[i])
      OBVIOUS
    <3> HIDE DEF First
    <3>8. First(n + 1) = First(n) \cup Range(ss[n + 1])
      <4>1. \A i : i \in 1 .. n + 1 <=> i \in 1 .. n \/ i = n + 1
        BY <3>1
      <4>2. \A x : x \in First(n + 1) <=> x \in First(n) \/ x \in Range(ss[n + 1])
        BY <3>7, <4>1
      <4> QED
        BY <4>2
    <3>9. ASSUME Disjoint(ss) PROVE First(n) \cap Range(ss[n + 1]) = {}
      <4>1. \A i \in 1 .. n : i \in DOMAIN ss /\ i # n + 1 /\ n + 1 \in DOMAIN ss
        BY <1>1, <3>1, <3>3
      <4>2. \A i \in 1 .. n : Range(ss[i]) \cap Range(ss[n + 1]) = {}
        BY <3>9, <4>1 DEF Disjoint
      <4>3. \A x \in First(n) : x \notin Range(ss[n + 1])
        BY <3>7, <4>2
      <4> QED
        BY <4>3
    <3> QED
      BY <1>1, <3>3, <3>6, <3>8, <3>9
  <2>5. Good(k)
    <3>1. P \in SUBSET Nat
      OBVIOUS
    <3> HIDE DEF P
    <3>2. P = Nat
      BY <2>3, <2>4, <3>1, Induction
    <3>3. k - 1 \in P /\ (k - 1) + 1 = k
      BY <1>3, <3>2
    <3> USE DEF P
    <3> HIDE DEF Good
    <3> QED
      BY <3>3
  <2> QED
    BY <1>1, <2>1, <2>5
<1> QED
  BY <1>2, <1>3

\* Entries with names of their own; entries that come from those of a list, once each.
Distinct(s) == \A i, j \in DOMAIN s : s[i].test = s[j].test => i = j
OneParameter(s) == \A i \in DOMAIN s : Len(s[i].rtl_params) <= 1
From(s, list) ==
  /\ s \in Seq(Entries) /\ Distinct(s)
  /\ \A e \in Range(s) : \E f \in Range(list) : e.test = f.test /\ e.rtl_params = f.rtl_params

\* A sequence that has some elements of another, once each, has distinct names if the other has.
LEMMA DistinctKept ==
  ASSUME NEW s, NEW u, Distinct(s), Range(u) \subseteq Range(s), IsInjective(u)
  PROVE  Distinct(u)
<1>1. ASSUME NEW i \in DOMAIN u PROVE \E k \in DOMAIN s : u[i] = s[k]
  BY DEF Range
<1>2. ASSUME NEW i \in DOMAIN u, NEW j \in DOMAIN u, u[i].test = u[j].test PROVE i = j
  <2>1. PICK k \in DOMAIN s : u[i] = s[k]
    BY <1>1
  <2>2. PICK l \in DOMAIN s : u[j] = s[l]
    BY <1>1
  <2>3. k = l
    BY <1>2, <2>1, <2>2 DEF Distinct
  <2> QED
    BY <2>1, <2>2, <2>3 DEF IsInjective
<1> QED
  BY <1>2 DEF Distinct

\* Distinct names make distinct elements.
LEMMA DistinctInjective ==
  ASSUME NEW s, Distinct(s)
  PROVE  IsInjective(s)
BY DEF Distinct, IsInjective

\* A sequence of at most one element.
LEMMA OneOrNone ==
  ASSUME NEW S, NEW x \in S
  PROVE  /\ <<>> \in Seq(S) /\ <<x>> \in Seq(S)
         /\ IsInjective(<<>>) /\ IsInjective(<<x>>) /\ Range(<<>>) = {} /\ Range(<<x>>) = {x}
<1>1. DOMAIN <<>> = {} /\ DOMAIN <<x>> = {1} /\ <<x>>[1] = x
  OBVIOUS
<1> QED
  BY <1>1 DEF IsInjective, Range

\* Sequences of one or no element, flattened, are some of the elements, once each.
LEMMA SomeOf ==
  ASSUME NEW S, NEW s \in Seq(S), IsInjective(s), NEW ss, ss = [i \in DOMAIN s |-> ss[i]],
         \A i \in DOMAIN s : ss[i] = <<s[i]>> \/ ss[i] = <<>>
  PROVE  /\ FlattenSeq(ss) \in Seq(S) /\ IsInjective(FlattenSeq(ss))
         /\ \A x \in Range(FlattenSeq(ss)) : \E i \in DOMAIN s : x = s[i] /\ ss[i] = <<s[i]>>
<1>1. PICK n \in Nat : n = Len(s) /\ DOMAIN s = 1 .. n
  OBVIOUS
<1>2. \A i \in 1 .. n : s[i] \in S
  BY <1>1
<1>3. \A i \in 1 .. n : ss[i] \in Seq(S) /\ IsInjective(ss[i]) /\ (Range(ss[i]) = {} \/ (Range(ss[i]) = {s[i]} /\ ss[i] = <<s[i]>>))
  <2> TAKE i \in 1 .. n
  <2>1. ss[i] = <<s[i]>> \/ ss[i] = <<>>
    BY <1>1
  <2> QED
    BY <1>2, <2>1, OneOrNone
<1>4. ss \in Seq(Seq(S)) /\ DOMAIN ss = 1 .. n
  BY <1>1, <1>3, SequenceOf
<1>5. Disjoint(ss)
  <2>1. \A i, j \in 1 .. n : i # j => s[i] # s[j]
    BY <1>1 DEF IsInjective
  <2>2. ASSUME NEW i \in 1 .. n, NEW j \in 1 .. n, i # j PROVE Range(ss[i]) \cap Range(ss[j]) = {}
    <3>1. Range(ss[i]) \subseteq {s[i]} /\ Range(ss[j]) \subseteq {s[j]}
      BY <1>3
    <3> QED
      BY <2>1, <2>2, <3>1
  <2> QED
    BY <1>4, <2>2 DEF Disjoint
<1>6. FlattenSeq(ss) \in Seq(S) /\ IsInjective(FlattenSeq(ss)) /\ Range(FlattenSeq(ss)) = UNION {Range(ss[i]) : i \in 1 .. n}
  BY <1>3, <1>4, <1>5, FlattenFacts
<1>7. ASSUME NEW x \in Range(FlattenSeq(ss)) PROVE \E i \in DOMAIN s : x = s[i] /\ ss[i] = <<s[i]>>
  <2>1. PICK i \in 1 .. n : x \in Range(ss[i])
    BY <1>6, <1>7
  <2> QED
    BY <1>1, <1>3, <2>1
<1> QED
  BY <1>6, <1>7

\* The entries a list is narrowed to.
LEMMA MatchedFacts ==
  ASSUME NEW s \in Seq(Entries), Distinct(s), NEW P
  PROVE  From(Matched(s, P), s)
<1> DEFINE ss == [i \in DOMAIN s |-> IF i \in P THEN <<s[i]>> ELSE <<>>]
<1>1. ss = [i \in DOMAIN s |-> ss[i]] /\ \A i \in DOMAIN s : ss[i] = <<s[i]>> \/ ss[i] = <<>>
  OBVIOUS
<1>2. Matched(s, P) = FlattenSeq(ss)
  BY DEF Matched
<1> HIDE DEF ss
<1>3. /\ Matched(s, P) \in Seq(Entries) /\ IsInjective(Matched(s, P))
      /\ \A x \in Range(Matched(s, P)) : \E i \in DOMAIN s : x = s[i] /\ ss[i] = <<s[i]>>
  <2>1. IsInjective(s)
    BY DistinctInjective
  <2>2. /\ FlattenSeq(ss) \in Seq(Entries) /\ IsInjective(FlattenSeq(ss))
        /\ \A x \in Range(FlattenSeq(ss)) : \E i \in DOMAIN s : x = s[i] /\ ss[i] = <<s[i]>>
    BY <1>1, <2>1, SomeOf
  <2> QED
    BY <1>2, <2>2
<1>4. Range(Matched(s, P)) \subseteq Range(s)
  BY <1>3 DEF Range
<1> QED
  BY <1>3, <1>4, DistinctKept DEF From

\* The override changes neither names nor parameters.
LEMMA CountedFacts ==
  ASSUME NEW s \in Seq(Entries), Distinct(s), NEW iterations, iterations # <<>> => iterations[1] \in Int
  PROVE  From(Counted(s, iterations), s)
<1>1. PICK n \in Nat : n = Len(s) /\ DOMAIN s = 1 .. n
  OBVIOUS
<1>2. \A i \in 1 .. n : s[i] \in Entries
  BY <1>1
<1>3. PICK u : u = Counted(s, iterations)
  OBVIOUS
<1>4. /\ u = [i \in 1 .. n |-> u[i]]
      /\ \A i \in 1 .. n : u[i] = [s[i] EXCEPT !.iterations = IF iterations = <<>> THEN @ ELSE iterations[1]]
  BY <1>1, <1>3 DEF Counted
<1>5. ASSUME NEW i \in 1 .. n PROVE u[i] \in Entries /\ u[i].test = s[i].test /\ u[i].rtl_params = s[i].rtl_params
  <2>1. PICK c : c = IF iterations = <<>> THEN s[i].iterations ELSE iterations[1]
    OBVIOUS
  <2>2. c \in Int /\ s[i] \in Entries
    BY <1>2, <2>1 DEF Entries
  <2>3. u[i] = [s[i] EXCEPT !.iterations = c]
    BY <1>4, <2>1
  <2> QED
    BY <2>2, <2>3 DEF Entries
<1>6. u \in Seq(Entries) /\ DOMAIN u = 1 .. n
  BY <1>4, <1>5, SequenceOf
<1>7. Distinct(u)
  BY <1>1, <1>5, <1>6 DEF Distinct
<1>8. ASSUME NEW e \in Range(u) PROVE \E f \in Range(s) : e.test = f.test /\ e.rtl_params = f.rtl_params
  <2>1. PICK i \in 1 .. n : e = u[i]
    BY <1>6 DEF Range
  <2> QED
    BY <1>1, <1>5, <2>1 DEF Range
<1> QED
  BY <1>3, <1>6, <1>7, <1>8 DEF From

\* Entries that come from entries of a list come from the list.
LEMMA FromFrom ==
  ASSUME NEW s, NEW u, NEW list, From(s, list), From(u, s)
  PROVE  From(u, list)
BY DEF From

\* What the two lists of tests are narrowed to.
LEMMA ProcessedFacts ==
  ASSUME NEW s \in Seq(Entries), Distinct(s), NEW m, m.iterations # <<>> => m.iterations[1] \in Int
  PROVE  From(process_riscvdv_testlist(m, s), s) /\ From(process_directed_testlist(m, s), s)
<1>1. PICK u : u = Counted(s, m.iterations)
  OBVIOUS
<1>2. From(u, s)
  BY <1>1, CountedFacts
<1>3. \A P : From(Matched(u, P), u)
  BY <1>2, MatchedFacts DEF From
<1>4. \A P : From(Matched(u, P), s)
  BY <1>2, <1>3, FromFrom
<1> QED
  BY <1>1, <1>4 DEF process_riscvdv_testlist, process_directed_testlist

\* A single parameter is admitted, or the entry is not taken.
LEMMA FilterFacts ==
  ASSUME NEW s \in Seq(Entries), Distinct(s), OneParameter(s)
  PROVE  /\ From(filter_tests_by_config(cfg, s).tests, s)
         /\ \A e \in Range(filter_tests_by_config(cfg, s).tests) : \A p \in Range(e.rtl_params) : cfg[p.name] \in p.values
<1> DEFINE many(e) == IF e.rtl_params = <<>> THEN 1 ELSE Past(cfg, e)
           ss == [i \in DOMAIN s |-> [j \in 1 .. many(s[i]) |-> s[i]]]
<1>1. filter_tests_by_config(cfg, s).tests = FlattenSeq(ss)
  BY DEF filter_tests_by_config
<1>2. ASSUME NEW i \in DOMAIN s
      PROVE  \/ many(s[i]) = 0
             \/ many(s[i]) = 1 /\ \A p \in Range(s[i].rtl_params) : cfg[p.name] \in p.values
  <2>1. PICK r : r = s[i].rtl_params
    OBVIOUS
  <2>2. r \in Seq([name : STRING, values : SUBSET (Int \union STRING)]) /\ Len(r) <= 1
    <3>1. s[i] \in Entries
      OBVIOUS
    <3> QED
      BY <2>1, <3>1 DEF OneParameter, Entries
  <2>3. CASE r = <<>>
    <3>1. Range(r) = {}
      BY <2>3 DEF Range
    <3> QED
      BY <2>1, <2>3, <3>1
  <2>4. CASE r # <<>>
    <3>1. Len(r) = 1 /\ DOMAIN r = {1}
      <4>1. Len(r) \in Nat /\ DOMAIN r = 1 .. Len(r) /\ (Len(r) = 0 => r = <<>>)
        BY <2>2
      <4> QED
        BY <2>2, <2>4, <4>1
    <3> DEFINE S == {k \in 0 .. Len(r) : \A j \in 1 .. k : Admitted(cfg, r[j])}
    <3>2. many(s[i]) = Max(S)
      BY <2>1, <2>4 DEF Past
    <3>3. S \subseteq {0, 1} /\ 0 \in S /\ (1 \in S => Admitted(cfg, r[1]))
      BY <3>1
    <3> HIDE DEF S
    <3>4. Max(S) = CHOOSE x \in S : \A y \in S : x >= y
      BY DEF Max
    <3>5. \E x \in S : \A y \in S : x >= y
      <4>1. CASE 1 \in S
        BY <3>3, <4>1
      <4>2. CASE 1 \notin S
        BY <3>3, <4>2
      <4> QED
        BY <4>1, <4>2
    <3>6. Max(S) \in S
      BY <3>4, <3>5
    <3>7. Range(r) = {r[1]}
      BY <3>1 DEF Range
    <3> QED
      BY <2>1, <3>2, <3>3, <3>6, <3>7 DEF Admitted
  <2> QED
    BY <2>3, <2>4
<1>3. ASSUME NEW i \in DOMAIN s
      PROVE  ss[i] = <<>> \/ (ss[i] = <<s[i]>> /\ \A p \in Range(s[i].rtl_params) : cfg[p.name] \in p.values)
  <2>1. PICK m : m = many(s[i])
    OBVIOUS
  <2>2. ss[i] = [j \in 1 .. m |-> s[i]]
    BY <2>1
  <2>3. m = 0 => ss[i] = <<>>
    BY <2>2
  <2>4. m = 1 => ss[i] = <<s[i]>>
    BY <2>2
  <2> QED
    BY <1>2, <2>1, <2>3, <2>4
<1>4. ss = [i \in DOMAIN s |-> ss[i]]
  OBVIOUS
<1> HIDE DEF ss
<1>5. PICK u : u = FlattenSeq(ss)
  OBVIOUS
<1>6. /\ u \in Seq(Entries) /\ IsInjective(u)
      /\ \A x \in Range(u) : \E i \in DOMAIN s : x = s[i] /\ ss[i] = <<s[i]>>
  <2>1. IsInjective(s)
    BY DistinctInjective
  <2>2. \A i \in DOMAIN s : ss[i] = <<s[i]>> \/ ss[i] = <<>>
    BY <1>3
  <2> QED
    BY <1>4, <1>5, <2>1, <2>2, SomeOf
<1>7. \A i \in DOMAIN s : <<s[i]>> # <<>>
  OBVIOUS
<1>8. Range(u) \subseteq Range(s)
  BY <1>6 DEF Range
<1>9. From(u, s)
  BY <1>6, <1>8, DistinctKept DEF From
<1>10. \A e \in Range(u) : \A p \in Range(e.rtl_params) : cfg[p.name] \in p.values
  <2> TAKE e \in Range(u)
  <2>1. PICK i \in DOMAIN s : e = s[i] /\ ss[i] = <<s[i]>>
    BY <1>6
  <2> QED
    BY <1>3, <1>7, <2>1
<1> QED
  BY <1>1, <1>5, <1>9, <1>10

\* Sequences with no name in common.
LEMMA DistinctConcat ==
  ASSUME NEW S, NEW s \in Seq(S), NEW t \in Seq(S), Distinct(s), Distinct(t),
         \A a \in Range(s), b \in Range(t) : a.test # b.test
  PROVE  Distinct(s \o t)
<1>1. PICK n \in Nat : n = Len(s) /\ DOMAIN s = 1 .. n
  OBVIOUS
<1>2. PICK m \in Nat : m = Len(t) /\ DOMAIN t = 1 .. m
  OBVIOUS
<1>3. PICK u : u = s \o t
  OBVIOUS
<1>4. /\ DOMAIN u = 1 .. n + m
      /\ \A i \in 1 .. n : u[i] = s[i]
      /\ \A i \in 1 .. n + m : i \notin 1 .. n => i - n \in 1 .. m /\ u[i] = t[i - n]
  <2>1. DOMAIN u = 1 .. n + m /\ \A i \in 1 .. n : u[i] = s[i]
    BY <1>1, <1>2, <1>3
  <2>2. ASSUME NEW i \in 1 .. n + m, i \notin 1 .. n PROVE i - n \in 1 .. m /\ u[i] = t[i - n]
    BY <1>1, <1>2, <1>3, <2>2
  <2> QED
    BY <2>1, <2>2
<1>5. \A i \in 1 .. n, j \in 1 .. m : s[i].test # t[j].test
  BY <1>1, <1>2 DEF Range
<1>6. ASSUME NEW i \in 1 .. n + m, NEW j \in 1 .. n + m, u[i].test = u[j].test PROVE i = j
  <2>1. CASE i \in 1 .. n /\ j \in 1 .. n
    BY <1>1, <1>4, <1>6, <2>1 DEF Distinct
  <2>2. CASE i \notin 1 .. n /\ j \notin 1 .. n
    <3>1. i - n \in 1 .. m /\ j - n \in 1 .. m /\ t[i - n].test = t[j - n].test
      BY <1>4, <1>6, <2>2
    <3>2. i - n = j - n
      BY <1>2, <3>1 DEF Distinct
    <3> QED
      BY <3>2
  <2> QED
    BY <1>4, <1>5, <1>6, <2>1, <2>2
<1> QED
  BY <1>3, <1>4, <1>6 DEF Distinct

\* The two lists: names of their own, and a parameter at most.
LEMMA ListsFacts ==
  /\ testlist \in Seq(Entries) /\ directed \in Seq(Entries)
  /\ Distinct(testlist) /\ Distinct(directed) /\ OneParameter(testlist) /\ OneParameter(directed)
  /\ Range(testlist \o directed) = Range(testlist) \cup Range(directed)
  /\ \A e, f \in Range(testlist \o directed) : e.test = f.test => e = f
  /\ \A e \in Range(testlist), f \in Range(directed) : e.test # f.test
<1>1. testlist \in Seq(Entries) /\ directed \in Seq(Entries)
  BY TestlistAssumption
<1>2. PICK n \in Nat : n = Len(testlist) /\ DOMAIN testlist = 1 .. n
  BY <1>1
<1>3. PICK m \in Nat : m = Len(directed) /\ DOMAIN directed = 1 .. m
  BY <1>1
<1>4. PICK u : u = testlist \o directed
  OBVIOUS
<1>5. /\ DOMAIN u = 1 .. n + m
      /\ \A i \in 1 .. n : i \in 1 .. n + m /\ u[i] = testlist[i]
      /\ \A j \in 1 .. m : j + n \in 1 .. n + m /\ u[j + n] = directed[j]
  <2>1. DOMAIN u = 1 .. n + m /\ \A i \in 1 .. n : u[i] = testlist[i]
    BY <1>1, <1>2, <1>3, <1>4
  <2>2. ASSUME NEW j \in 1 .. m PROVE j + n \in 1 .. n + m /\ u[j + n] = directed[j]
    BY <1>1, <1>2, <1>3, <1>4, <2>2
  <2> QED
    BY <2>1, <2>2
<1>6. \A i, j \in 1 .. n + m : u[i].test = u[j].test => i = j
  BY <1>4, <1>5, TestlistAssumption
<1>7. Distinct(testlist)
  BY <1>2, <1>5, <1>6 DEF Distinct
<1>8. Distinct(directed)
  <2>1. ASSUME NEW i \in 1 .. m, NEW j \in 1 .. m, directed[i].test = directed[j].test PROVE i = j
    <3>1. i + n = j + n
      BY <1>5, <1>6, <2>1
    <3> QED
      BY <3>1
  <2> QED
    BY <1>3, <2>1 DEF Distinct
<1>9. \A e \in Range(u) : Len(e.rtl_params) <= 1
  BY <1>4, TestlistAssumption
<1>10. Range(u) = Range(testlist) \cup Range(directed)
  BY <1>1, <1>4, ConcatFacts
<1>11. OneParameter(testlist) /\ OneParameter(directed)
  BY <1>9, <1>10 DEF OneParameter, Range
<1>12. \A e, f \in Range(u) : e.test = f.test => e = f
  BY <1>5, <1>6 DEF Range
<1>13. ASSUME NEW e \in Range(testlist), NEW f \in Range(directed) PROVE e.test # f.test
  <2>1. PICK i \in 1 .. n : e = testlist[i]
    BY <1>2 DEF Range
  <2>2. PICK j \in 1 .. m : f = directed[j]
    BY <1>3 DEF Range
  <2>3. i # j + n
    OBVIOUS
  <2> QED
    BY <1>5, <1>6, <2>1, <2>2, <2>3
<1> QED
  BY <1>1, <1>4, <1>7, <1>8, <1>10, <1>11, <1>12, <1>13

\* What a test asks for fits the configuration.
Fits(name) ==
  \A e \in Range(testlist \o directed) :
    e.test = name => \A p \in Range(e.rtl_params) : cfg[p.name] \in p.values

\* A list narrowed to the tests that are selected and fit.
LEMMA FilteredFacts ==
  ASSUME NEW list \in {testlist, directed}, NEW s, From(s, list)
  PROVE  /\ From(filter_tests_by_config(cfg, s).tests, list)
         /\ \A e \in Range(filter_tests_by_config(cfg, s).tests) : Fits(e.test)
<1>1. s \in Seq(Entries) /\ Distinct(s)
  BY DEF From
<1>2. OneParameter(s)
  <2>1. ASSUME NEW i \in DOMAIN s PROVE Len(s[i].rtl_params) <= 1
    <3>1. s[i] \in Range(s)
      BY DEF Range
    <3>2. PICK f \in Range(list) : s[i].rtl_params = f.rtl_params
      BY <3>1 DEF From
    <3>3. Len(f.rtl_params) <= 1
      BY ListsFacts DEF OneParameter, Range
    <3> QED
      BY <3>2, <3>3
  <2> QED
    BY <2>1 DEF OneParameter
<1>3. PICK u : u = filter_tests_by_config(cfg, s).tests
  OBVIOUS
<1>4. From(u, s) /\ \A e \in Range(u) : \A p \in Range(e.rtl_params) : cfg[p.name] \in p.values
  BY <1>1, <1>2, <1>3, FilterFacts
<1>5. From(u, list)
  BY <1>4, FromFrom
<1>6. ASSUME NEW e \in Range(u) PROVE Fits(e.test)
  <2>1. PICK f \in Range(list) : e.test = f.test /\ e.rtl_params = f.rtl_params
    BY <1>5 DEF From
  <2>2. f \in Range(testlist \o directed)
    BY ListsFacts
  <2>3. \A g \in Range(testlist \o directed) : g.test = e.test => g = f
    BY <2>1, <2>2, ListsFacts
  <2> QED
    BY <1>4, <2>1, <2>3 DEF Fits
<1> QED
  BY <1>3, <1>5, <1>6

\* A test as the metadata has it, and a run of one.
CountedTests == [test : STRING, count : Int, testtype : {"RISCVDV", "DIRECTED"}, ddm : BOOLEAN]
Runs == [test : STRING, seed : Int, testtype : {"RISCVDV", "DIRECTED"}, is_discrete_debug_module : BOOLEAN]
WithType(s, type) == [i \in DOMAIN s |-> [test |-> s[i].test, count |-> s[i].iterations, testtype |-> type, ddm |-> s[i].ddm]]

\* The type of a test changes no name.
LEMMA WithTypeFacts ==
  ASSUME NEW list, NEW s, From(s, list), NEW type \in {"RISCVDV", "DIRECTED"}
  PROVE  /\ WithType(s, type) \in Seq(CountedTests) /\ Distinct(WithType(s, type))
         /\ \A x \in Range(WithType(s, type)) : \E e \in Range(s) : x.test = e.test
<1>1. s \in Seq(Entries) /\ Distinct(s)
  BY DEF From
<1>2. PICK n \in Nat : n = Len(s) /\ DOMAIN s = 1 .. n
  BY <1>1
<1>3. PICK u : u = WithType(s, type)
  OBVIOUS
<1>4. u = [i \in 1 .. n |-> u[i]] /\ \A i \in 1 .. n : u[i] =
        [test |-> s[i].test, count |-> s[i].iterations, testtype |-> type, ddm |-> s[i].ddm]
  BY <1>2, <1>3 DEF WithType
<1>5. \A i \in 1 .. n : s[i] \in Entries
  BY <1>1, <1>2
<1>6. \A i \in 1 .. n : u[i] \in CountedTests /\ u[i].test = s[i].test
  BY <1>4, <1>5 DEF CountedTests, Entries
<1>7. u \in Seq(CountedTests) /\ DOMAIN u = 1 .. n
  BY <1>4, <1>6, SequenceOf
<1>8. Distinct(u)
  BY <1>1, <1>2, <1>6, <1>7 DEF Distinct
<1>9. \A x \in Range(u) : \E e \in Range(s) : x.test = e.test
  BY <1>2, <1>6, <1>7 DEF Range
<1> QED
  BY <1>3, <1>7, <1>8, <1>9

\* Each test is in the metadata once, and fits.
LEMMA CountsFacts ==
  ASSUME NEW m, m.iterations # <<>> => m.iterations[1] \in Int,
         NEW c, c = get_tests_and_counts(m, cfg, testlist, directed)
  PROVE  c \in Seq(CountedTests) /\ Distinct(c) /\ \A x \in Range(c) : Fits(x.test)
<1>1. PICK r : r = filter_tests_by_config(cfg, process_riscvdv_testlist(m, testlist)).tests
  OBVIOUS
<1>2. PICK d : d = filter_tests_by_config(cfg, process_directed_testlist(m, directed)).tests
  OBVIOUS
<1>3. From(r, testlist) /\ \A e \in Range(r) : Fits(e.test)
  BY <1>1, ListsFacts, ProcessedFacts, FilteredFacts
<1>4. From(d, directed) /\ \A e \in Range(d) : Fits(e.test)
  BY <1>2, ListsFacts, ProcessedFacts, FilteredFacts
<1>5. c = <<>> \/ c = WithType(r, "RISCVDV") \o WithType(d, "DIRECTED")
  BY <1>1, <1>2 DEF get_tests_and_counts, WithType
<1>6. CASE c = <<>>
  <2>1. c \in Seq(CountedTests) /\ DOMAIN c = {}
    BY <1>6
  <2> QED
    BY <2>1 DEF Distinct, Range
<1>7. CASE c = WithType(r, "RISCVDV") \o WithType(d, "DIRECTED")
  <2>1. PICK a : a = WithType(r, "RISCVDV")
    OBVIOUS
  <2>2. PICK b : b = WithType(d, "DIRECTED")
    OBVIOUS
  <2>3. a \in Seq(CountedTests) /\ Distinct(a) /\ \A x \in Range(a) : \E e \in Range(r) : x.test = e.test
    BY <1>3, <2>1, WithTypeFacts
  <2>4. b \in Seq(CountedTests) /\ Distinct(b) /\ \A x \in Range(b) : \E e \in Range(d) : x.test = e.test
    BY <1>4, <2>2, WithTypeFacts
  <2>5. ASSUME NEW x \in Range(a), NEW y \in Range(b) PROVE x.test # y.test
    <3>1. PICK e \in Range(r) : x.test = e.test
      BY <2>3
    <3>2. PICK f \in Range(d) : y.test = f.test
      BY <2>4
    <3>3. PICK g \in Range(testlist) : e.test = g.test
      BY <1>3 DEF From
    <3>4. PICK h \in Range(directed) : f.test = h.test
      BY <1>4 DEF From
    <3>5. g.test # h.test
      BY ListsFacts
    <3> QED
      BY <3>1, <3>2, <3>3, <3>4, <3>5
  <2>6. Distinct(a \o b)
    BY <2>3, <2>4, <2>5, DistinctConcat
  <2>7. a \o b \in Seq(CountedTests) /\ Range(a \o b) = Range(a) \cup Range(b)
    BY <2>3, <2>4, ConcatFacts
  <2>8. \A x \in Range(a) \cup Range(b) : Fits(x.test)
    BY <1>3, <1>4, <2>3, <2>4
  <2> QED
    BY <1>7, <2>1, <2>2, <2>6, <2>7, <2>8
<1> QED
  BY <1>5, <1>6, <1>7

\* The runs of a test differ in their seeds.
LEMMA SeedsFacts ==
  ASSUME NEW m, m.seed \in Int, NEW c \in Seq(CountedTests), Distinct(c), NEW u, u = testdotseeds(m, c)
  PROVE  /\ \A i, j \in DOMAIN u : i # j => <<u[i].test, u[i].seed>> # <<u[j].test, u[j].seed>>
         /\ \A i \in DOMAIN u : \E x \in Range(c) : u[i].test = x.test
<1> DEFINE Run(i, k) ==
             [test |-> c[i].test, seed |-> m.seed + k - 1, testtype |-> c[i].testtype,
              is_discrete_debug_module |-> c[i].testtype = "RISCVDV" /\ c[i].ddm]
           ss == [i \in DOMAIN c |-> [k \in 1 .. c[i].count |-> Run(i, k)]]
<1>0. ASSUME NEW i, NEW k, NEW x, x = Run(i, k) PROVE x.test = c[i].test /\ x.seed = m.seed + k - 1
  BY <1>0
<1>1. u = FlattenSeq(ss)
  BY DEF testdotseeds
<1>2. PICK n \in Nat : n = Len(c) /\ DOMAIN c = 1 .. n
  OBVIOUS
<1>3. \A i \in 1 .. n : c[i] \in CountedTests
  BY <1>2
<1>4. \A i \in 1 .. n, k \in Int : Run(i, k) \in Runs
  BY <1>3 DEF CountedTests, Runs
<1>5. ss = [i \in 1 .. n |-> ss[i]] /\ \A i \in 1 .. n : ss[i] = [k \in 1 .. c[i].count |-> Run(i, k)]
  BY <1>2
<1> HIDE DEF Run, ss
<1>6. ASSUME NEW i \in 1 .. n
      PROVE  /\ ss[i] \in Seq(Runs) /\ IsInjective(ss[i])
             /\ \A x \in Range(ss[i]) : \E k \in Int : x = Run(i, k)
  <2>1. c[i].count \in Int
    BY <1>3 DEF CountedTests
  <2>2. PICK l \in Nat : 1 .. c[i].count = 1 .. l
    <3>1. CASE c[i].count \in Nat
      BY <3>1
    <3>2. CASE c[i].count \notin Nat
      <4>1. 1 .. c[i].count = 1 .. 0
        BY <2>1, <3>2
      <4> QED
        BY <4>1
    <3> QED
      BY <3>1, <3>2
  <2>3. ss[i] = [k \in 1 .. l |-> Run(i, k)]
    BY <1>5, <2>2
  <2>4. \A k \in 1 .. l : ss[i][k] = Run(i, k) /\ ss[i][k] \in Runs
    BY <1>4, <2>3
  <2>5. ss[i] \in Seq(Runs) /\ DOMAIN ss[i] = 1 .. l
    <3>1. ss[i] = [k \in 1 .. l |-> ss[i][k]]
      BY <2>3
    <3> QED
      BY <2>4, <3>1, SequenceOf
  <2>6. IsInjective(ss[i])
    <3>1. ASSUME NEW k \in 1 .. l, NEW j \in 1 .. l, ss[i][k] = ss[i][j] PROVE k = j
      <4>1. ss[i][k] = Run(i, k) /\ ss[i][j] = Run(i, j)
        BY <2>4
      <4>2. ss[i][k].seed = m.seed + k - 1 /\ ss[i][j].seed = m.seed + j - 1
        BY <1>0, <4>1
      <4>3. m.seed + k - 1 = m.seed + j - 1
        BY <3>1, <4>2
      <4> QED
        BY <4>3
    <3> QED
      BY <2>5, <3>1 DEF IsInjective
  <2>7. \A x \in Range(ss[i]) : \E k \in Int : x = Run(i, k)
    BY <2>4, <2>5 DEF Range
  <2> QED
    BY <2>5, <2>6, <2>7
<1>7. ss \in Seq(Seq(Runs)) /\ DOMAIN ss = 1 .. n
  BY <1>5, <1>6, SequenceOf
<1>8. Disjoint(ss)
  <2>1. ASSUME NEW i \in 1 .. n, NEW j \in 1 .. n, i # j, NEW x \in Range(ss[i]), x \in Range(ss[j]) PROVE FALSE
    <3>1. x.test = c[i].test /\ x.test = c[j].test
      <4>1. PICK k \in Int : x = Run(i, k)
        BY <1>6, <2>1
      <4>2. PICK l \in Int : x = Run(j, l)
        BY <1>6, <2>1
      <4>3. x.test = c[i].test
        BY <1>0, <4>1
      <4>4. x.test = c[j].test
        BY <1>0, <4>2
      <4> QED
        BY <4>3, <4>4
    <3> QED
      BY <1>2, <2>1, <3>1 DEF Distinct
  <2> QED
    BY <1>7, <2>1 DEF Disjoint
<1>9. u \in Seq(Runs) /\ Range(u) = UNION {Range(ss[i]) : i \in 1 .. n} /\ IsInjective(u)
  <2>1. \A i \in DOMAIN ss : IsInjective(ss[i])
    BY <1>6, <1>7
  <2> QED
    BY <1>1, <1>7, <1>8, <2>1, FlattenFacts
<1>10. ASSUME NEW i \in DOMAIN u PROVE \E a \in 1 .. n, k \in Int : u[i] = Run(a, k)
  <2>1. u[i] \in Range(u)
    BY DEF Range
  <2>2. PICK a \in 1 .. n : u[i] \in Range(ss[a])
    BY <1>9, <2>1
  <2> QED
    BY <1>6, <2>2
<1>11. ASSUME NEW i \in DOMAIN u, NEW j \in DOMAIN u, u[i].test = u[j].test, u[i].seed = u[j].seed PROVE i = j
  <2>1. PICK a \in 1 .. n, k \in Int : u[i] = Run(a, k)
    BY <1>10
  <2>2. PICK b \in 1 .. n, l \in Int : u[j] = Run(b, l)
    BY <1>10
  <2>3. a = b
    <3>1. u[i].test = c[a].test /\ u[j].test = c[b].test
      BY <1>0, <2>1, <2>2
    <3> QED
      BY <1>2, <1>11, <3>1 DEF Distinct
  <2>4. m.seed + k - 1 = m.seed + l - 1
    <3>1. u[i].seed = m.seed + k - 1 /\ u[j].seed = m.seed + l - 1
      BY <1>0, <2>1, <2>2
    <3> QED
      BY <1>11, <3>1
  <2>5. k = l
    BY <2>4
  <2> QED
    BY <1>9, <2>1, <2>2, <2>3, <2>5 DEF IsInjective
<1>12. \A i \in DOMAIN u : \E x \in Range(c) : u[i].test = x.test
  <2> TAKE i \in DOMAIN u
  <2>1. PICK a \in 1 .. n, k \in Int : u[i] = Run(a, k)
    BY <1>10
  <2>2. u[i].test = c[a].test
    BY <1>0, <2>1
  <2> QED
    BY <1>2, <2>2 DEF Range
<1> QED
  BY <1>11, <1>12

\* What create_metadata makes of any arguments is sound.
Sound(list) ==
  /\ \A i, j \in DOMAIN list : i # j => <<list[i].test, list[i].seed>> # <<list[j].test, list[j].seed>>
  /\ \A i \in DOMAIN list : Fits(list[i].test)
LEMMA CreatedSound ==
  ASSUME args_list \in ArgsLists
  PROVE  Sound(create_metadata)
<1>1. PICK u : u = create_metadata
  OBVIOUS
<1>2. CASE u = <<>>
  <2>1. DOMAIN u = {}
    BY <1>2
  <2> QED
    BY <1>1, <2>1 DEF Sound
<1>3. CASE u # <<>>
  <2>1. PICK parsed : parsed = arg_list_initializer(args_list)
    OBVIOUS
  <2>2. ~parsed.raised
    <3>1. parsed.raised => create_metadata = <<>>
      BY <2>1 DEF create_metadata
    <3> QED
      BY <1>1, <1>3, <3>1
  <2>3. PICK c : c = get_tests_and_counts(parsed.md, cfg, testlist, directed)
    OBVIOUS
  <2>4. u = testdotseeds(parsed.md, c)
    BY <1>1, <1>3, <2>1, <2>3 DEF create_metadata
  <2>5. /\ args_list.seed.t = "int" /\ args_list.iterations.t # "word"
        /\ parsed.md = args_dict(args_list)
    BY <2>1, <2>2 DEF arg_list_initializer
  <2>6. args_list.seed \in Text /\ args_list.iterations \in Text
    BY ArgsAssumption
  <2>7. parsed.md.seed \in Int /\ (parsed.md.iterations # <<>> => parsed.md.iterations[1] \in Int)
    <3>1. args_list.seed.n \in Int /\ args_list.iterations.n \in Int
      BY <2>6 DEF Text
    <3>2. parsed.md.seed = args_list.seed.n
      BY <2>5 DEF args_dict
    <3>3. parsed.md.iterations = <<>> \/ parsed.md.iterations = <<args_list.iterations.n>>
      BY <2>5 DEF args_dict
    <3> QED
      BY <3>1, <3>2, <3>3
  <2>8. c \in Seq(CountedTests) /\ Distinct(c) /\ \A x \in Range(c) : Fits(x.test)
    BY <2>3, <2>7, CountsFacts
  <2>9. /\ \A i, j \in DOMAIN u : i # j => <<u[i].test, u[i].seed>> # <<u[j].test, u[j].seed>>
        /\ \A i \in DOMAIN u : \E x \in Range(c) : u[i].test = x.test
    BY <2>4, <2>7, <2>8, SeedsFacts
  <2>10. \A i \in DOMAIN u : Fits(u[i].test)
    BY <2>8, <2>9
  <2> QED
    BY <1>1, <2>9, <2>10 DEF Sound
<1> QED
  BY <1>2, <1>3

\* The list of tests is made once, by the first make.
TestsMade == args_list \in ArgsLists /\ tests \in {<<>>, create_metadata}
LEMMA TestsMadeKept == TestsMade /\ [RegrNext]_regrVars => TestsMade'
<1> SUFFICES ASSUME TestsMade, [RegrNext]_regrVars PROVE TestsMade'
  OBVIOUS
<1>1. args_list' = args_list /\ (tests' = tests \/ tests' = create_metadata)
  <2>1. ASSUME NEW s, Continue(s) PROVE UNCHANGED <<args_list, tests>>
    BY <2>1 DEF Continue, enter, handler, body, leave, tool, GenExported, CompExported, compile_test,
                SimExported, run_rtl, NothingSimulated, SimEnds, CheckExported
  <2>2. ASSUME NEW s, Consider(s) PROVE UNCHANGED <<args_list, tests>>
    BY <2>2 DEF Consider, Skip, StartLocked, touch, merge_cov, ReadFails, run_instr_gen, compile_cmds,
                get_sim_cmds, check_logs
  <2>3. CASE StartMake
    BY <2>3 DEF StartMake
  <2>4. CASE EndMake \/ EditRtl \/ CtrlC
    BY <2>4 DEF EndMake, EditRtl, CtrlC
  <2>5. CASE UNCHANGED regrVars
    BY <2>5 DEF regrVars
  <2> QED
    BY <2>1, <2>2, <2>3, <2>4, <2>5 DEF RegrNext, Work
<1>2. create_metadata' = create_metadata
  BY <1>1 DEF create_metadata
<1> QED
  BY <1>1, <1>2 DEF TestsMade

\* The tests that are run fit the configuration, and none is run twice (filter_tests_by_config,
\* get_tests_and_counts): for any arguments and configuration and any two lists whose entries have names of their
\* own and one parameter at most.
THEOREM RegressionTestsFit == RegrSpec => []TestsFit
<1>1. RegrInit => TestsMade
  BY DEF RegrInit, TestsMade
<1>2. TestsMade => TestsFit
  <2> SUFFICES ASSUME TestsMade PROVE TestsFit
    OBVIOUS
  <2>1. Sound(tests)
    <3>1. CASE tests = <<>>
      <4>1. DOMAIN tests = {}
        BY <3>1
      <4> QED
        BY <4>1 DEF Sound
    <3>2. CASE tests = create_metadata
      BY <3>2, CreatedSound DEF TestsMade
    <3> QED
      BY <3>1, <3>2 DEF TestsMade
  <2> QED
    BY <2>1 DEF Sound, Fits, TestsFit
<1> QED
  BY <1>1, <1>2, TestsMadeKept, PTL DEF RegrSpec
=============================================================================
