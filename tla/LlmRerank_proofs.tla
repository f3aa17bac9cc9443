-------------------------- MODULE LlmRerank_proofs --------------------------
(***************************************************************************)
(* The reranking tools proved for every localisation, command line, answer *)
(* and weight, and every number of directories, retries and processes.     *)
(*                                                                         *)
(* First the client under any caller; then the operators of Ranking: what  *)
(* sorting, compressing line ranges, building the candidates and choosing  *)
(* the source context give back; then the invariant of the tools on their  *)
(* files, which rests on them; then sums, means and the summaries; last,   *)
(* that the tools call the client as it is specified.                      *)
(***************************************************************************)
EXTENDS LlmRerank, FiniteSetTheorems, WellFoundedInduction, TLAPS

-----------------------------------------------------------------------------
(* The client                                                              *)

\* What has been used of the budgets.
Taken == (mode_index - 1) + transient_failures + validation_failures

\* The requests made so far are those that used up a budget and the one under way.
Counted ==
  /\ attempts = Taken \/ attempts = 1 + Taken
  /\ call = "request" => attempts = Taken
  /\ call = "answer" => attempts = 1 + Taken
  /\ call # "idle" => Len(modes) >= 1
  /\ mode_index <= (IF Len(modes) = 0 THEN 1 ELSE Len(modes))
  /\ transient_failures <= retries /\ validation_failures <= retries

\* Every repair adds an answer and a prompt.
Turns ==
  call # "idle" =>
    /\ Len(input_items) = 2 * validation_failures + 1
    /\ \A i \in 1 .. Len(input_items) : input_items[i] = IF i % 2 = 1 THEN "user" ELSE "assistant"

ClientInv == ClientTypeOK /\ Counted /\ Turns

\* Every provider offers at least one output mode, whatever is asked for.
LEMMA ModesType ==
  ASSUME NEW p, NEW so \in {"strict", "auto", "off"}
  PROVE  /\ structured_modes(p, so) \in Seq(StructuredModes)
         /\ Len(structured_modes(p, so)) >= 1
<1>1. /\ claude_modes[so] \in Seq(StructuredModes) /\ Len(claude_modes[so]) >= 1
      /\ glm_modes[so] \in Seq(StructuredModes) /\ Len(glm_modes[so]) >= 1
      /\ gpt_modes[so] \in Seq(StructuredModes) /\ Len(gpt_modes[so]) >= 1
  <2>1. CASE so = "strict"
    BY <2>1 DEF claude_modes, glm_modes, gpt_modes, StructuredModes
  <2>2. CASE so = "auto"
    BY <2>2 DEF claude_modes, glm_modes, gpt_modes, StructuredModes
  <2>3. CASE so = "off"
    BY <2>3 DEF claude_modes, glm_modes, gpt_modes, StructuredModes
  <2> QED
    BY <2>1, <2>2, <2>3
<1> QED
  BY <1>1 DEF structured_modes

\* A new call has used nothing of its budgets.
LEMMA StartCallInv ==
  ASSUME NEW p \in Protocols, NEW so \in {"strict", "auto", "off"}, StartCall(p, so)
  PROVE  ClientInv'
<1>1. /\ modes' \in Seq(StructuredModes) /\ Len(modes') >= 1
  BY ModesType DEF StartCall
<1>2. ClientTypeOK'
  BY <1>1 DEF StartCall, ClientTypeOK
<1>3. Counted'
  BY <1>1, RetriesAssumption DEF StartCall, Counted, Taken
<1>4. Turns'
  BY DEF StartCall, Turns
<1> QED
  BY <1>2, <1>3, <1>4 DEF ClientInv

\* A request uses up one unit of a budget, or ends the call, or brings an answer.
LEMMA RequestInv ==
  ASSUME ClientInv, Request
  PROVE  ClientInv'
<1> USE RetriesAssumption DEF ClientInv, ClientTypeOK, Counted, Taken, Turns
<1>1. CASE Answered
  BY <1>1 DEF Answered
<1>2. CASE EmptyAnswer
  BY <1>2 DEF EmptyAnswer
<1>3. ASSUME NEW e \in Errors, ModeRefused(e) PROVE ClientInv'
  BY <1>3 DEF ModeRefused, OtherMode
<1>4. ASSUME NEW e \in Errors, Transient(e) PROVE ClientInv'
  BY <1>4 DEF Transient, Again
<1>5. ASSUME NEW e \in Errors, RequestFailed(e) PROVE ClientInv'
  BY <1>5 DEF RequestFailed
<1> QED
  BY <1>1, <1>2, <1>3, <1>4, <1>5 DEF Request

\* A refused answer uses up a repair and adds two messages.
LEMMA RepairInv ==
  ASSUME ClientInv, InvalidAnswer
  PROVE  ClientInv'
<1> USE DEF ClientInv, ClientTypeOK
<1>1. CASE validation_failures >= retries
  BY <1>1, RetriesAssumption DEF InvalidAnswer, Counted, Taken, Turns
<1>2. CASE ~(validation_failures >= retries)
  <2>1. input_items' = input_items \o <<"assistant", "user">>
    BY <1>2 DEF InvalidAnswer
  <2>2. /\ input_items' \in Seq({"user", "assistant"})
        /\ Len(input_items') = Len(input_items) + 2
        /\ \A i \in 1 .. Len(input_items) : input_items'[i] = input_items[i]
        /\ input_items'[Len(input_items) + 1] = "assistant"
        /\ input_items'[Len(input_items) + 2] = "user"
    BY <2>1
  <2>3. ClientTypeOK' /\ Counted'
    BY <1>2, <2>2, RetriesAssumption DEF InvalidAnswer, Counted, Taken
  <2>4. Len(input_items) = 2 * validation_failures + 1
    BY DEF InvalidAnswer, Turns
  <2>5. ASSUME NEW i \in 1 .. Len(input_items')
        PROVE  input_items'[i] = IF i % 2 = 1 THEN "user" ELSE "assistant"
    <3>1. CASE i \in 1 .. Len(input_items)
      BY <3>1, <2>2 DEF InvalidAnswer, Turns
    <3>2. CASE i = Len(input_items) + 1
      BY <3>2, <2>2, <2>4
    <3>3. CASE i = Len(input_items) + 2
      BY <3>3, <2>2, <2>4
    <3> QED
      BY <3>1, <3>2, <3>3, <2>2
  <2>6. Turns'
    BY <1>2, <2>2, <2>4, <2>5 DEF InvalidAnswer, Turns
  <2> QED
    BY <2>3, <2>6
<1> QED
  BY <1>1, <1>2

\* No step of the client or its caller breaks the accounts.
LEMMA ClientNextInv ==
  ASSUME ClientInv, [ClientNext]_clientVars
  PROVE  ClientInv'
<1>1. CASE \E p \in Protocols, so \in {"strict", "auto", "off"} : call = "idle" /\ StartCall(p, so)
  BY <1>1, StartCallInv
<1>2. CASE Request
  BY <1>2, RequestInv
<1>3. CASE InvalidAnswer
  BY <1>3, RepairInv
<1>4. CASE ValidAnswer
  BY <1>4, RetriesAssumption DEF ValidAnswer, ClientInv, ClientTypeOK, Counted, Taken, Turns
<1>5. CASE EndCall
  BY <1>5, RetriesAssumption DEF EndCall, ClientInv, ClientTypeOK, Counted, Taken, Turns, Protocols
<1>6. CASE UNCHANGED clientVars
  BY <1>6 DEF clientVars, ClientInv, ClientTypeOK, Counted, Taken, Turns
<1> QED
  BY <1>1, <1>2, <1>3, <1>4, <1>5, <1>6 DEF ClientNext

\* The accounts bound the requests.
LEMMA InvBound ==
  ASSUME ClientInv
  PROVE  RequestBound
<1>1. /\ Len(modes) \in Nat /\ attempts \in Nat /\ retries \in Nat
      /\ mode_index \in Nat \ {0} /\ transient_failures \in Nat /\ validation_failures \in Nat
  BY RetriesAssumption DEF ClientInv, ClientTypeOK
<1>2. CASE Len(modes) = 0
  BY <1>1, <1>2 DEF ClientInv, Counted, Taken, RequestBound
<1>3. CASE Len(modes) # 0
  BY <1>1, <1>3 DEF ClientInv, Counted, Taken, RequestBound
<1> QED
  BY <1>2, <1>3

\* Odd messages of the user, even ones of the assistant: a conversation.
LEMMA TalksPlain ==
  ASSUME NEW q \in Seq({"user", "assistant"}), Len(q) % 2 = 1,
         \A i \in 1 .. Len(q) : q[i] = IF i % 2 = 1 THEN "user" ELSE "assistant"
  PROVE  Talks(q)
<1>1. q[1] = "user"
  OBVIOUS
<1> QED
  BY <1>1 DEF Talks

\* ... also after a system prompt.
LEMMA TalksSystem ==
  ASSUME NEW q \in Seq({"user", "assistant"}), Len(q) % 2 = 1,
         \A i \in 1 .. Len(q) : q[i] = IF i % 2 = 1 THEN "user" ELSE "assistant"
  PROVE  Talks(<<"system">> \o q)
<1>1. PICK m : m = <<"system">> \o q
  OBVIOUS
<1>2. /\ m[1] = "system" /\ Len(m) = Len(q) + 1
      /\ \A i \in 1 .. Len(q) : m[i + 1] = q[i]
  BY <1>1
<1>3. Talks(m)
  BY <1>2 DEF Talks
<1> QED
  BY <1>1, <1>3

\* What is sent is such a list, with or without the system prompt.
LEMMA InvTurn ==
  ASSUME ClientInv
  PROVE  InTurn
<1> SUFFICES ASSUME call = "request" PROVE Talks(create(input_items))
  BY DEF InTurn
<1>1. /\ input_items \in Seq({"user", "assistant"}) /\ Len(input_items) % 2 = 1
      /\ \A i \in 1 .. Len(input_items) : input_items[i] = IF i % 2 = 1 THEN "user" ELSE "assistant"
  BY DEF ClientInv, ClientTypeOK, Turns
<1>2. create(input_items) \in {input_items, <<"system">> \o input_items}
  BY DEF create, gpt_create, claude_create, glm_create
<1> QED
  BY <1>1, <1>2, TalksPlain, TalksSystem

\* However transient failures, refused output modes and repairs follow each other, a call
\* makes at most 2 * retries + (number of output modes) requests (call_model).
THEOREM ClientRequestBound == ClientSpec => []RequestBound
<1>1. ClientInit => ClientInv
  BY RetriesAssumption DEF ClientInit, ClientInv, ClientTypeOK, Counted, Taken, Turns, Protocols
<1>2. ClientInv /\ [ClientNext]_clientVars => ClientInv'
  BY ClientNextInv
<1>3. ClientInv => RequestBound
  BY InvBound
<1> QED
  BY <1>1, <1>2, <1>3, PTL DEF ClientSpec

\* Every request is a conversation in which user and assistant take turns (call_model and
\* the providers' create).
THEOREM ClientInTurn == ClientSpec => []InTurn
<1>1. ClientInit => ClientInv
  BY RetriesAssumption DEF ClientInit, ClientInv, ClientTypeOK, Counted, Taken, Turns, Protocols
<1>2. ClientInv /\ [ClientNext]_clientVars => ClientInv'
  BY ClientNextInv
<1>3. ClientInv => InTurn
  BY InvTurn
<1> QED
  BY <1>1, <1>2, <1>3, PTL DEF ClientSpec

-----------------------------------------------------------------------------
(* Numbers and order                                                       *)

\* A set of natural numbers has its least element.
LEMMA MinIn ==
  ASSUME NEW S \in SUBSET Nat, S # {}
  PROVE  /\ Min(S) \in S
         /\ \A y \in S : Min(S) <= y
<1>1. PICK R : IsWellFoundedOn(R, Nat) /\ \A x, y \in Nat : <<y, x>> \in R <=> y < x
  <2>1. IsWellFoundedOn(OpToRel(<, Nat), Nat)
    BY NatLessThanWellFounded
  <2>2. \A x, y \in Nat : <<y, x>> \in OpToRel(<, Nat) <=> y < x
    BY DEF OpToRel
  <2> QED
    BY <2>1, <2>2, Zenon
<1>2. PICK x \in S : \A y \in S : ~(<<y, x>> \in R)
  BY <1>1, WFMin
<1>3. ASSUME NEW y \in S PROVE x <= y
  <2>1. x \in Nat /\ y \in Nat
    OBVIOUS
  <2>2. ~(y < x)
    BY <1>1, <1>2, <2>1, Zenon
  <2> QED
    BY <2>1, <2>2
<1> QED
  BY <1>3 DEF Min

\* A bounded one has its greatest.
LEMMA MaxIn ==
  ASSUME NEW b \in Nat, NEW S \in SUBSET (0 .. b), S # {}
  PROVE  /\ Max(S) \in S
         /\ \A y \in S : y <= Max(S)
<1> DEFINE D == {b - x : x \in S}
<1>1. D \in SUBSET Nat /\ D # {}
  <2>1. \A x \in S : x \in 0 .. b
    OBVIOUS
  <2>2. \A x \in S : b - x \in Nat
    BY <2>1
  <2> QED
    BY <2>2
<1>2. PICK m \in D : \A y \in D : m <= y
  BY <1>1, MinIn
<1>3. PICK x \in S : m = b - x
  BY <1>2
<1>4. ASSUME NEW y \in S PROVE y <= x
  <2>1. b - y \in D
    OBVIOUS
  <2>2. b - x <= b - y
    BY <1>2, <1>3, <2>1
  <2> QED
    BY <2>2
<1>5. \A y \in S : x >= y
  BY <1>4
<1> QED
  BY <1>5 DEF Max

\* Each position of an order is taken by one element: place[x] of n elements is below n.
LEMMA Placed ==
  ASSUME NEW S, IsFiniteSet(S), NEW n \in Nat, Cardinality(S) = n,
         NEW place \in [S -> 0 .. n - 1],
         \A x, y \in S : place[x] = place[y] => x = y
  PROVE  \A k \in 1 .. n : \E x \in S : place[x] = k - 1
<1>1. place \in Injection(S, 0 .. n - 1)
  BY DEF Injection, IsInjective
<1>2. IsFiniteSet(0 .. n - 1) /\ Cardinality(0 .. n - 1) = n
  <2>1. n - 1 \in Int /\ 0 \in Int
    OBVIOUS
  <2>2. IsFiniteSet(0 .. n - 1) /\ Cardinality(0 .. n - 1) = IF 0 > n - 1 THEN 0 ELSE (n - 1) - 0 + 1
    BY <2>1, FS_Interval
  <2> QED
    BY <2>2
<1>3. place \in Surjection(S, 0 .. n - 1)
  BY <1>1, <1>2, FS_Injection
<1>4. \A v \in 0 .. n - 1 : \E x \in S : place[x] = v
  BY <1>3 DEF Surjection
<1> QED
  BY <1>4

\* R orders S strictly; how many elements are before x.
StrictOrder(S, R) ==
  /\ \A x \in S : <<x, x>> \notin R
  /\ \A x, y, z \in S : <<x, y>> \in R /\ <<y, z>> \in R => <<x, z>> \in R
  /\ \A x, y \in S : x # y => <<x, y>> \in R \/ <<y, x>> \in R
PlaceIn(S, R, x) == Cardinality({y \in S : <<y, x>> \in R})
Places(S, R, n) ==
  /\ \A x \in S : PlaceIn(S, R, x) \in 0 .. n - 1
  /\ \A x, y \in S : PlaceIn(S, R, x) = PlaceIn(S, R, y) => x = y
  /\ \A k \in 1 .. n : \E x \in S : PlaceIn(S, R, x) = k - 1

\* Every number below the cardinality is the place of one element.
LEMMA PlaceFacts ==
  ASSUME NEW S, IsFiniteSet(S), NEW R, StrictOrder(S, R), NEW n \in Nat, Cardinality(S) = n
  PROVE  Places(S, R, n)
<1> USE DEF StrictOrder
<1> DEFINE Below(x) == {y \in S : <<y, x>> \in R}
           f == [x \in S |-> Cardinality(Below(x))]
<1>1. ASSUME NEW x \in S PROVE IsFiniteSet(Below(x)) /\ Cardinality(Below(x)) \in 0 .. n - 1
  <2>1. Below(x) \in SUBSET S
    OBVIOUS
  <2>2. /\ IsFiniteSet(Below(x)) /\ Cardinality(Below(x)) <= Cardinality(S)
        /\ (Cardinality(S) = Cardinality(Below(x)) => S = Below(x))
    BY <2>1, FS_Subset
  <2>3. Below(x) # S
    OBVIOUS
  <2>4. Cardinality(Below(x)) \in Nat
    BY <2>2, FS_CardinalityType
  <2> QED
    BY <2>2, <2>3, <2>4
<1>2. ASSUME NEW x \in S, NEW y \in S, <<x, y>> \in R PROVE Cardinality(Below(x)) # Cardinality(Below(y))
  <2>1. Below(x) \in SUBSET Below(y) /\ x \in Below(y) /\ x \notin Below(x)
    BY <1>2
  <2>2. IsFiniteSet(Below(y))
    BY <1>1
  <2> QED
    BY <2>1, <2>2, FS_Subset
<1>3. \A x \in S : f[x] = Cardinality(Below(x))
  OBVIOUS
<1>4. f \in [S -> 0 .. n - 1]
  BY <1>1
<1> HIDE DEF f, Below
<1>5. ASSUME NEW x \in S, NEW y \in S, f[x] = f[y] PROVE x = y
  BY <1>2, <1>3, <1>5, Zenon
<1>6. \A k \in 1 .. n : \E x \in S : f[x] = k - 1
  <2>1. Cardinality(S) = n
    OBVIOUS
  <2>2. \A x, y \in S : f[x] = f[y] => x = y
    BY <1>5
  <2> QED
    BY <1>4, <2>1, <2>2, Placed
<1>7. \A x, y \in S : Cardinality(Below(x)) = Cardinality(Below(y)) => x = y
  BY <1>3, <1>5, Zenon
<1>8. \A k \in 1 .. n : \E x \in S : Cardinality(Below(x)) = k - 1
  BY <1>3, <1>6, Zenon
<1>9. \A x \in S : Cardinality(Below(x)) \in 0 .. n - 1
  BY <1>1
<1> USE DEF Below
<1> QED
  BY <1>7, <1>8, <1>9, Zenon DEF Places, PlaceIn

\* Ascending lists every element of a finite set of numbers once.
LEMMA AscendingFacts ==
  ASSUME NEW S \in SUBSET Int, IsFiniteSet(S)
  PROVE  /\ Cardinality(S) \in Nat
         /\ Ascending(S) \in [1 .. Cardinality(S) -> S]
         /\ \A i, j \in 1 .. Cardinality(S) : Ascending(S)[i] = Ascending(S)[j] => i = j
         /\ \A x \in S : \E i \in 1 .. Cardinality(S) : Ascending(S)[i] = x
<1>1. PICK n \in Nat : n = Cardinality(S)
  BY FS_CardinalityType
<1> DEFINE R == {p \in S \X S : p[1] < p[2]}
           C(x) == Cardinality({y \in S : y < x})
           A == Ascending(S)
<1>2. \A x, y \in S : <<x, y>> \in R <=> x < y
  OBVIOUS
<1>3. ASSUME NEW x \in S PROVE PlaceIn(S, R, x) = C(x)
  <2>1. {y \in S : <<y, x>> \in R} = {y \in S : y < x}
    BY <1>2
  <2> QED
    BY <2>1 DEF PlaceIn
<1> HIDE DEF R
<1>4. StrictOrder(S, R)
  BY <1>2 DEF StrictOrder
<1>5. Places(S, R, n)
  <2>1. Cardinality(S) = n
    BY <1>1
  <2> QED
    BY <1>4, <2>1, PlaceFacts
<1>6. /\ \A x \in S : C(x) \in 0 .. n - 1
      /\ \A x, y \in S : C(x) = C(y) => x = y
      /\ \A k \in 1 .. n : \E x \in S : C(x) = k - 1
  BY <1>3, <1>5, Zenon DEF Places
<1>7. A = [k \in 1 .. n |-> CHOOSE x \in S : C(x) = k - 1]
  BY <1>1, Zenon DEF Ascending
<1> HIDE DEF A, C
<1>8. ASSUME NEW k \in 1 .. n PROVE A[k] \in S /\ C(A[k]) = k - 1
  <2>1. A[k] = CHOOSE x \in S : C(x) = k - 1
    BY <1>7
  <2>2. \E x \in S : C(x) = k - 1
    BY <1>6
  <2> QED
    BY <2>1, <2>2, Zenon
<1>9. A \in [1 .. n -> S]
  BY <1>7, <1>8
<1>10. ASSUME NEW i \in 1 .. n, NEW j \in 1 .. n, A[i] = A[j] PROVE i = j
  BY <1>8, <1>10
<1>11. ASSUME NEW x \in S PROVE \E i \in 1 .. n : A[i] = x
  <2>1. C(x) + 1 \in 1 .. n /\ C(x) = (C(x) + 1) - 1
    BY <1>6
  <2>2. A[C(x) + 1] \in S /\ C(A[C(x) + 1]) = (C(x) + 1) - 1
    BY <1>8, <2>1, Zenon
  <2>3. A[C(x) + 1] = x
    BY <1>6, <2>1, <2>2, Zenon
  <2> QED
    BY <2>1, <2>3, Zenon
<1> USE DEF A
<1> QED
  BY <1>1, <1>9, <1>10, <1>11, Zenon

\* A function on 1 .. n is a sequence.
LEMMA SeqFacts ==
  ASSUME NEW n \in Nat, NEW X, NEW r \in [1 .. n -> X]
  PROVE  r \in Seq(X) /\ Len(r) = n
OBVIOUS

\* ... over its range.
LEMMA OverRange ==
  ASSUME NEW n \in Nat, NEW X, NEW r \in [1 .. n -> X]
  PROVE  r \in Seq(Range(r)) /\ Len(r) = n
<1>1. \A i \in 1 .. n : r[i] \in Range(r)
  BY DEF Range
<1>2. r \in [1 .. n -> Range(r)]
  BY <1>1
<1> QED
  BY <1>2, SeqFacts

\* A list of candidates or scored candidates: numbered from 1, with different ids.
Distinct(s, n) ==
  /\ DOMAIN s = 1 .. n
  /\ \A i \in 1 .. n : s[i].id \in Int
  /\ \A i, j \in 1 .. n : s[i].id = s[j].id => i = j

\* Sorted lists what it is given, each item once.
Permutes(t, s, n) ==
  /\ DOMAIN t = 1 .. n /\ t \in Seq(Range(t)) /\ Len(t) = n
  /\ \A k \in 1 .. n : \E i \in 1 .. n : t[k] = s[i]
  /\ \A k, l \in 1 .. n : t[k].id = t[l].id => k = l

\* Before is a strict total order on different ids, so each item has a place of its own.
LEMMA SortedFacts ==
  ASSUME NEW s, NEW n \in Nat, Distinct(s, n),
         \A i \in 1 .. n : s[i].final \in Int /\ s[i].llm \in Int /\ s[i].sus \in Int
  PROVE  Permutes(Sorted(s), s, n)
<1> DEFINE R == {p \in (1 .. n) \X (1 .. n) : Before(s[p[1]], s[p[2]])}
           C(i) == Cardinality({j \in DOMAIN s : Before(s[j], s[i])})
           A == Sorted(s)
<1>0. DOMAIN s = 1 .. n
  BY DEF Distinct
<1>1. \A x, y \in 1 .. n : <<x, y>> \in R <=> Before(s[x], s[y])
  OBVIOUS
<1>2. ASSUME NEW x \in 1 .. n PROVE PlaceIn(1 .. n, R, x) = C(x)
  <2>1. {y \in 1 .. n : <<y, x>> \in R} = {y \in DOMAIN s : Before(s[y], s[x])}
    BY <1>1, <1>0
  <2> QED
    BY <2>1, Zenon DEF PlaceIn
<1> HIDE DEF R
<1>3. StrictOrder(1 .. n, R)
  <2> DEFINE F(x) == s[x].final
             L(x) == s[x].llm
             S(x) == s[x].sus
             D(x) == s[x].id
  <2>1. \A x \in 1 .. n : F(x) \in Int /\ L(x) \in Int /\ S(x) \in Int /\ D(x) \in Int
    BY DEF Distinct
  <2>2. \A x, y \in 1 .. n : D(x) = D(y) => x = y
    BY DEF Distinct
  <2>3. \A x, y \in 1 .. n : <<x, y>> \in R <=>
           \/ F(x) > F(y)
           \/ F(x) = F(y) /\ L(x) > L(y)
           \/ F(x) = F(y) /\ L(x) = L(y) /\ S(x) > S(y)
           \/ F(x) = F(y) /\ L(x) = L(y) /\ S(x) = S(y) /\ D(x) < D(y)
    BY <1>1 DEF Before
  <2> HIDE DEF F, L, S, D
  <2>4. \A x \in 1 .. n : <<x, x>> \notin R
    BY <2>1, <2>3
  <2>5. ASSUME NEW x \in 1 .. n, NEW y \in 1 .. n, NEW z \in 1 .. n, <<x, y>> \in R, <<y, z>> \in R
        PROVE  <<x, z>> \in R
    BY <2>1, <2>3, <2>5
  <2>6. ASSUME NEW x \in 1 .. n, NEW y \in 1 .. n, x # y PROVE <<x, y>> \in R \/ <<y, x>> \in R
    <3>1. D(x) # D(y) /\ D(x) \in Int /\ D(y) \in Int
      BY <2>1, <2>2, <2>6
    <3>2. D(x) < D(y) \/ D(y) < D(x)
      BY <3>1
    <3>3. /\ F(x) > F(y) \/ F(y) > F(x) \/ F(x) = F(y)
          /\ L(x) > L(y) \/ L(y) > L(x) \/ L(x) = L(y)
          /\ S(x) > S(y) \/ S(y) > S(x) \/ S(x) = S(y)
      BY <2>1
    <3> QED
      BY <2>3, <3>2, <3>3, Zenon
  <2> QED
    BY <2>4, <2>5, <2>6 DEF StrictOrder
<1>4. IsFiniteSet(1 .. n) /\ Cardinality(1 .. n) = n
  <2>1. 1 \in Int /\ n \in Int
    OBVIOUS
  <2>2. IsFiniteSet(1 .. n) /\ Cardinality(1 .. n) = IF 1 > n THEN 0 ELSE n - 1 + 1
    BY <2>1, FS_Interval
  <2> QED
    BY <2>2
<1>5. Places(1 .. n, R, n)
  BY <1>3, <1>4, PlaceFacts
<1>6. \A k \in 1 .. n : \E x \in 1 .. n : C(x) = k - 1
  BY <1>2, <1>5, Zenon DEF Places
<1>7. A = [k \in DOMAIN s |-> s[CHOOSE i \in DOMAIN s : C(i) = k - 1]]
  BY Zenon DEF Sorted
<1> HIDE DEF A, C
<1>8. ASSUME NEW k \in 1 .. n PROVE \E i \in 1 .. n : C(i) = k - 1 /\ A[k] = s[i]
  <2>1. PICK i : i = CHOOSE x \in DOMAIN s : C(x) = k - 1
    OBVIOUS
  <2>2. i \in 1 .. n /\ C(i) = k - 1
    <3>1. \E j \in DOMAIN s : C(j) = k - 1
      BY <1>6, <1>0
    <3>2. i \in DOMAIN s /\ C(i) = k - 1
      BY <2>1, <3>1, Zenon
    <3> QED
      BY <1>0, <3>2
  <2>3. A[k] = s[i]
    BY <1>0, <1>7, <2>1
  <2> QED
    BY <2>2, <2>3, Zenon
<1>9. ASSUME NEW k \in 1 .. n, NEW l \in 1 .. n, A[k].id = A[l].id PROVE k = l
  <2>1. PICK i \in 1 .. n : C(i) = k - 1 /\ A[k] = s[i]
    BY <1>8
  <2>2. PICK j \in 1 .. n : C(j) = l - 1 /\ A[l] = s[j]
    BY <1>8
  <2>3. i = j
    <3>1. s[i].id = s[j].id
      BY <1>9, <2>1, <2>2
    <3> QED
      BY <3>1, Zenon DEF Distinct
  <2>4. k - 1 = l - 1
    BY <2>1, <2>2, <2>3, Zenon
  <2> QED
    BY <2>4
<1>10. DOMAIN A = 1 .. n
  BY <1>0, <1>7
<1>11. Permutes(A, s, n)
  <2>1. A \in [1 .. n -> {s[i] : i \in 1 .. n}]
    BY <1>0, <1>7, <1>8
  <2>2. A \in Seq(Range(A)) /\ Len(A) = n
    BY <2>1, OverRange
  <2> QED
    BY <1>8, <1>9, <1>10, <2>2, Zenon DEF Permutes
<1> QED
  BY <1>11, Zenon DEF A

\* The intervals of compress_line_ranges hold the lines and nothing else.
LEMMA RangesFacts ==
  ASSUME NEW L \in SUBSET Nat, IsFiniteSet(L)
  PROVE  expand_line_ranges(compress_line_ranges(L)) = L
<1>1. ASSUME NEW x \in expand_line_ranges(compress_line_ranges(L)) PROVE x \in L
  <2>1. PICK r \in compress_line_ranges(L) : x \in r[1] .. r[2]
    BY DEF expand_line_ranges
  <2>2. r[1] .. r[2] \subseteq L
    BY <2>1 DEF compress_line_ranges
  <2> QED
    BY <2>1, <2>2
<1>2. ASSUME NEW x \in L PROVE \E r \in compress_line_ranges(L) : x \in r[1] .. r[2]
  <2>0. x \in Nat
    OBVIOUS
  <2> DEFINE Lows == {a \in Nat : a <= x /\ a .. x \subseteq L}
             Ends == {y \in Nat : y > x /\ y \notin L}
  <2>1. x \in Lows
    BY <2>0
  <2>2. PICK a \in Lows : \A y \in Lows : a <= y
    <3>1. Lows \in SUBSET Nat /\ Lows # {}
      BY <2>1
    <3> HIDE DEF Lows
    <3> QED
      BY <3>1, MinIn
  <2>3. a \in L /\ a \in Nat /\ a <= x /\ a .. x \subseteq L
    BY <2>0, <2>2
  <2>4. a - 1 \notin L
    <3>1. SUFFICES ASSUME a - 1 \in L PROVE FALSE
      OBVIOUS
    <3>2. a - 1 \in Nat /\ a - 1 <= x
      BY <2>0, <2>3, <3>1
    <3>3. (a - 1) .. x \subseteq L
      <4>1. ASSUME NEW y \in (a - 1) .. x PROVE y \in L
        <5>1. y = a - 1 \/ y \in a .. x
          BY <2>0, <2>3
        <5> QED
          BY <2>3, <3>1, <5>1
      <4> QED
        BY <4>1
    <3>4. a - 1 \in Lows
      BY <3>2, <3>3
    <3> QED
      BY <2>2, <2>3, <3>4
  <2>5. Ends # {}
    <3>1. PICK c \in Nat : c = Cardinality(L)
      BY FS_CardinalityType
    <3>2. x + 1 \in Int /\ x + c + 1 \in Int
      BY <2>0
    <3>3. Cardinality((x + 1) .. (x + c + 1)) = IF x + 1 > x + c + 1 THEN 0 ELSE (x + c + 1) - (x + 1) + 1
      BY <3>2, FS_Interval
    <3>4. Cardinality((x + 1) .. (x + c + 1)) = c + 1
      BY <2>0, <3>3
    <3>5. ~((x + 1) .. (x + c + 1) \subseteq L)
      <4>1. SUFFICES ASSUME (x + 1) .. (x + c + 1) \in SUBSET L PROVE FALSE
        OBVIOUS
      <4>2. Cardinality((x + 1) .. (x + c + 1)) <= Cardinality(L)
        BY <4>1, FS_Subset
      <4> QED
        BY <3>1, <3>4, <4>2
    <3>6. PICK y \in (x + 1) .. (x + c + 1) : y \notin L
      BY <3>5
    <3> QED
      BY <2>0, <3>6
  <2>6. PICK e \in Ends : \A y \in Ends : e <= y
    <3>1. Ends \in SUBSET Nat
      OBVIOUS
    <3> HIDE DEF Ends
    <3> QED
      BY <2>5, <3>1, MinIn
  <2>7. e \in Nat /\ e > x /\ e \notin L
    BY <2>6
  <2>8. ASSUME NEW y \in a .. (e - 1) PROVE y \in L
    <3>1. y \in Nat /\ y < e /\ (y \in a .. x \/ y > x)
      BY <2>0, <2>3, <2>7
    <3>2. y \notin Ends
      BY <2>6, <2>7, <3>1
    <3> QED
      BY <2>3, <3>1, <3>2
  <2>9. e - 1 \in a .. (e - 1) /\ a <= e - 1 /\ x \in a .. (e - 1) /\ (e - 1) + 1 = e
    BY <2>0, <2>3, <2>7
  <2>10. <<a, e - 1>> \in compress_line_ranges(L)
    BY <2>3, <2>4, <2>7, <2>8, <2>9 DEF compress_line_ranges
  <2> QED
    BY <2>9, <2>10
<1>3. ASSUME NEW x \in L PROVE x \in expand_line_ranges(compress_line_ranges(L))
  BY <1>2 DEF expand_line_ranges
<1> QED
  BY <1>1, <1>3

-----------------------------------------------------------------------------
(* Candidates                                                              *)

\* The smaller of two numbers.
LEMMA MinPair ==
  ASSUME NEW a \in Int, NEW b \in Int
  PROVE  Min({a, b}) \in {a, b} /\ Min({a, b}) <= a /\ Min({a, b}) <= b
<1>1. \E x \in {a, b} : \A y \in {a, b} : x <= y
  <2>1. CASE a <= b
    BY <2>1
  <2>2. CASE b <= a
    BY <2>2
  <2> QED
    BY <2>1, <2>2
<1>2. Min({a, b}) \in {a, b} /\ \A y \in {a, b} : Min({a, b}) <= y
  BY <1>1 DEF Min
<1> QED
  BY <1>2

\* The sources of a localisation, and the ranking read from its log.
IsCase(c) ==
  /\ c.log \in Seq(Range(c.log)) /\ \A i \in DOMAIN c.log : c.log[i].item.sus \in Int
  /\ \A k \in DOMAIN c.block_map : /\ c.block_map[k].lines \subseteq Nat /\ IsFiniteSet(c.block_map[k].lines)
                                   /\ c.rtl_root[c.block_map[k].module].length \in Nat
IsRanking(r) == r \in Seq(Range(r)) /\ \A i \in DOMAIN r : r[i].sus \in Int

\* parse_block_suspiciousness gives a list of blocks with numbers.
LEMMA RankingFacts ==
  ASSUME NEW c, IsCase(c)
  PROVE  IsRanking(parse_block_suspiciousness(c.log))
<1> DEFINE g == c.log
           blocks == {i \in DOMAIN g : g[i].kind = "block"}
           others == {i \in DOMAIN g : i > Min(blocks) /\ g[i].kind = "other"}
           last == IF others = {} THEN Len(g) ELSE Min(others) - 1
           chosen == {i \in Min(blocks) + 1 .. last : g[i].kind = "item"}
           items == Ascending(chosen)
           r == [n \in DOMAIN items |-> g[items[n]].item]
<1>1. parse_block_suspiciousness(g) = IF blocks = {} THEN <<>> ELSE r
  BY DEF parse_block_suspiciousness
<1>2. g \in Seq(Range(g)) /\ (\A i \in DOMAIN g : g[i].item.sus \in Int)
  BY DEF IsCase
<1> HIDE DEF g
<1>3. Len(g) \in Nat /\ DOMAIN g = 1 .. Len(g)
  BY <1>2
<1>4. CASE blocks = {}
  <2>1. parse_block_suspiciousness(g) = <<>>
    BY <1>1, <1>4
  <2>2. IsRanking(<<>>)
    BY DEF IsRanking
  <2> QED
    BY <2>1, <2>2 DEF g
<1>5. CASE blocks # {}
  <2>1. Min(blocks) \in DOMAIN g
    <3>1. blocks \in SUBSET Nat
      BY <1>3
    <3>2. Min(blocks) \in blocks
      BY <1>5, <3>1, MinIn
    <3> QED
      BY <3>2
  <2>2. last \in Int /\ last <= Len(g)
    <3>1. CASE others = {}
      BY <1>3, <3>1
    <3>2. CASE others # {}
      <4>1. others \in SUBSET Nat
        BY <1>3
      <4>2. Min(others) \in others
        BY <3>2, <4>1, MinIn
      <4>3. Min(others) \in 1 .. Len(g)
        BY <1>3, <4>2
      <4>4. last = Min(others) - 1
        BY <3>2
      <4> QED
        BY <1>3, <4>3, <4>4
    <3> QED
      BY <3>1, <3>2
  <2> HIDE DEF last, blocks
  <2>3. chosen \in SUBSET (1 .. Len(g))
    BY <1>3, <2>1, <2>2
  <2>4. IsFiniteSet(chosen) /\ chosen \in SUBSET Int
    <3>1. IsFiniteSet(1 .. Len(g))
      <4>1. 1 \in Int /\ Len(g) \in Int
        BY <1>3
      <4> QED
        BY <4>1, FS_Interval
    <3> QED
      BY <1>3, <2>3, <3>1, FS_Subset
  <2> HIDE DEF chosen
  <2>5. PICK n \in Nat : items \in [1 .. n -> chosen]
    BY <2>4, AscendingFacts
  <2> HIDE DEF items
  <2>6. DOMAIN r = 1 .. n /\ r \in [1 .. n -> {g[i].item : i \in chosen}]
    BY <2>5
  <2>7. ASSUME NEW i \in 1 .. n PROVE r[i].sus \in Int
    <3>1. items[i] \in 1 .. Len(g)
      BY <2>3, <2>5
    <3>2. g[items[i]].item.sus \in Int
      BY <1>2, <1>3, <3>1
    <3>3. r[i] = g[items[i]].item
      BY <2>5
    <3> QED
      BY <3>2, <3>3
  <2> HIDE DEF r
  <2>8. r \in Seq(Range(r))
    BY <2>6, OverRange
  <2>9. IsRanking(r)
    BY <2>6, <2>7, <2>8 DEF IsRanking
  <2> QED
    BY <1>1, <1>5, <2>9 DEF g
<1> QED
  BY <1>4, <1>5

\* The ranks that build_candidates keeps.
Kept(r, block_map, limit) ==
  {i \in 1 .. Min({limit, Len(r)}) : /\ r[i].key \in DOMAIN block_map
                                     /\ \A j \in 1 .. i - 1 : r[j].key # r[i].key}

\* A list of candidates of a localisation.
IsList(c, n) ==
  /\ n \in Nat /\ Distinct(c, n) /\ c \in Seq(Range(c)) /\ Len(c) = n
  /\ \A i \in 1 .. n : c[i].sus \in Int /\ c[i].lines \subseteq Nat /\ IsFiniteSet(c[i].lines)

CandidateOf(r, block_map, i) ==
  [id |-> i, sus |-> r[i].sus, key |-> r[i].key, module |-> block_map[r[i].key].module,
   scope |-> block_map[r[i].key].scope, lines |-> block_map[r[i].key].lines]
Built(r, block_map, kept) == [n \in DOMAIN Ascending(kept) |-> CandidateOf(r, block_map, Ascending(kept)[n])]

\* The ranks kept are finitely many, and of blocks that blocks.json knows.
LEMMA KeptFacts ==
  ASSUME NEW c, IsCase(c), NEW limit \in Int, NEW r, IsRanking(r)
  PROVE  /\ IsFiniteSet(Kept(r, c.block_map, limit))
         /\ Kept(r, c.block_map, limit) \in SUBSET (1 .. Len(r))
         /\ \A i \in Kept(r, c.block_map, limit) : r[i].key \in DOMAIN c.block_map
<1>1. Len(r) \in Nat
  BY DEF IsRanking
<1>2. Min({limit, Len(r)}) \in Int /\ Min({limit, Len(r)}) <= Len(r)
  <2>1. PICK l \in Nat : l = Len(r)
    BY <1>1
  <2>2. Min({limit, l}) \in {limit, l} /\ Min({limit, l}) <= l
    BY MinPair
  <2> QED
    BY <2>1, <2>2
<1>3. Kept(r, c.block_map, limit) \in SUBSET (1 .. Len(r))
  BY <1>1, <1>2 DEF Kept
<1>4. IsFiniteSet(1 .. Len(r))
  <2>1. 1 \in Int /\ Len(r) \in Int
    BY <1>1
  <2> QED
    BY <2>1, FS_Interval
<1>5. \A i \in Kept(r, c.block_map, limit) : r[i].key \in DOMAIN c.block_map
  BY DEF Kept
<1> QED
  BY <1>3, <1>4, <1>5, FS_Subset

\* build_candidates gives a list of different candidates, determined by the ranks kept.
LEMMA BuildFacts ==
  ASSUME NEW c, IsCase(c), NEW limit \in Int, NEW r, IsRanking(r)
  PROVE  /\ \E n \in Nat : IsList(build_candidates(r, c.block_map, limit), n)
         /\ Ids(build_candidates(r, c.block_map, limit)) = Kept(r, c.block_map, limit)
         /\ build_candidates(r, c.block_map, limit) = Built(r, c.block_map, Kept(r, c.block_map, limit))
<1> DEFINE K == Kept(r, c.block_map, limit)
           A == Ascending(K)
           B == build_candidates(r, c.block_map, limit)
<1>1. B = [n \in DOMAIN A |-> CandidateOf(r, c.block_map, A[n])]
  BY DEF build_candidates, CandidateOf, Kept
<1>2. /\ IsFiniteSet(K) /\ K \in SUBSET (1 .. Len(r)) /\ K \in SUBSET Int
      /\ \A i \in K : r[i].key \in DOMAIN c.block_map
  BY KeptFacts
<1> HIDE DEF K
<1>3. PICK n \in Nat : /\ A \in [1 .. n -> K]
                       /\ \A i, j \in 1 .. n : A[i] = A[j] => i = j
                       /\ \A x \in K : \E i \in 1 .. n : A[i] = x
  BY <1>2, AscendingFacts
<1> HIDE DEF A
<1>4. DOMAIN A = 1 .. n
  BY <1>3
<1> HIDE DEF B
<1>5. DOMAIN B = 1 .. n /\ \A i \in 1 .. n : B[i] = CandidateOf(r, c.block_map, A[i])
  BY <1>1, <1>4
<1>6. ASSUME NEW i \in 1 .. n
      PROVE  /\ B[i].id = A[i] /\ B[i].id \in Int /\ B[i].sus \in Int
             /\ B[i].lines \subseteq Nat /\ IsFiniteSet(B[i].lines)
  <2>1. A[i] \in K /\ A[i] \in 1 .. Len(r)
    BY <1>2, <1>3
  <2>2. r[A[i]].sus \in Int
    BY <2>1 DEF IsRanking
  <2>3. /\ c.block_map[r[A[i]].key].lines \subseteq Nat
        /\ IsFiniteSet(c.block_map[r[A[i]].key].lines)
    BY <1>2, <2>1 DEF IsCase
  <2>4. /\ CandidateOf(r, c.block_map, A[i]).id = A[i]
        /\ CandidateOf(r, c.block_map, A[i]).sus = r[A[i]].sus
        /\ CandidateOf(r, c.block_map, A[i]).lines = c.block_map[r[A[i]].key].lines
    BY DEF CandidateOf
  <2> QED
    BY <1>5, <2>1, <2>2, <2>3, <2>4
<1>7. Distinct(B, n)
  BY <1>3, <1>5, <1>6 DEF Distinct
<1>8. B \in [1 .. n -> {CandidateOf(r, c.block_map, i) : i \in K}]
  BY <1>1, <1>3, <1>4
<1>9. B \in Seq(Range(B)) /\ Len(B) = n
  BY <1>8, OverRange
<1>10. IsList(B, n)
  BY <1>6, <1>7, <1>9 DEF IsList
<1>11. Ids(B) = K
  BY <1>3, <1>5, <1>6 DEF Ids
<1> USE DEF A, B, K
<1> QED
  BY <1>1, <1>10, <1>11, Zenon DEF Built

\* Two lists of the candidates of one localisation that have the same ids are the same list.
LEMMA SameIds ==
  ASSUME NEW c, IsCase(c), NEW r, IsRanking(r), NEW k \in Int, NEW l \in Int,
         Ids(build_candidates(r, c.block_map, k)) = Ids(build_candidates(r, c.block_map, l))
  PROVE  build_candidates(r, c.block_map, k) = build_candidates(r, c.block_map, l)
<1>1. /\ Ids(build_candidates(r, c.block_map, k)) = Kept(r, c.block_map, k)
      /\ Ids(build_candidates(r, c.block_map, l)) = Kept(r, c.block_map, l)
  BY BuildFacts
<1>2. Kept(r, c.block_map, k) = Kept(r, c.block_map, l)
  BY <1>1
<1>3. /\ build_candidates(r, c.block_map, k) = Built(r, c.block_map, Kept(r, c.block_map, k))
      /\ build_candidates(r, c.block_map, l) = Built(r, c.block_map, Kept(r, c.block_map, l))
  BY BuildFacts
<1> QED
  BY <1>2, <1>3, Zenon

\* What a reader of the prompt makes of a candidate is the candidate.
LEMMA CompactFacts ==
  ASSUME NEW r, NEW block_map, NEW i,
         block_map[r[i].key].lines \in SUBSET Nat, IsFiniteSet(block_map[r[i].key].lines)
  PROVE  LET p == compact_candidate(CandidateOf(r, block_map, i))
         IN  [p EXCEPT !.lines = expand_line_ranges(p.lines)] = CandidateOf(r, block_map, i)
<1> DEFINE L == block_map[r[i].key].lines
           Z == compress_line_ranges(L)
           c == CandidateOf(r, block_map, i)
           p == compact_candidate(c)
<1>1. expand_line_ranges(Z) = L
  BY RangesFacts
<1> HIDE DEF Z
<1>2. c = [id |-> i, sus |-> r[i].sus, key |-> r[i].key, module |-> block_map[r[i].key].module,
           scope |-> block_map[r[i].key].scope, lines |-> L]
  BY DEF CandidateOf
<1>3. c.lines = L
  BY <1>2
<1>4. p = [c EXCEPT !.lines = Z]
  BY <1>3 DEF compact_candidate, Z
<1> HIDE DEF c, p
<1>5. p = [id |-> i, sus |-> r[i].sus, key |-> r[i].key, module |-> block_map[r[i].key].module,
           scope |-> block_map[r[i].key].scope, lines |-> Z]
  BY <1>2, <1>4
<1>6. p.lines = Z
  BY <1>5
<1>7. [p EXCEPT !.lines = L] = c
  BY <1>2, <1>5
<1>8. [p EXCEPT !.lines = expand_line_ranges(p.lines)] = c
  BY <1>1, <1>6, <1>7
<1> USE DEF c, p
<1> QED
  BY <1>8

\* parse_prompt_candidates refuses a prompt or gives back the candidates it was built from.
LEMMA PromptFacts ==
  ASSUME NEW c, IsCase(c), NEW limit \in Int, NEW r, IsRanking(r)
  PROVE  LET b == build_candidates(r, c.block_map, limit)
         IN  parse_prompt_candidates(build_user_prompt(b).candidates) \in {<<>>, b}
<1> DEFINE K == Kept(r, c.block_map, limit)
           A == Ascending(K)
           b == build_candidates(r, c.block_map, limit)
           p == build_user_prompt(b).candidates
<1>1. b = [n \in DOMAIN A |-> CandidateOf(r, c.block_map, A[n])]
  BY BuildFacts, Zenon DEF Built
<1>2. /\ IsFiniteSet(K) /\ K \in SUBSET (1 .. Len(r)) /\ K \in SUBSET Int
      /\ \A i \in K : r[i].key \in DOMAIN c.block_map
  BY KeptFacts
<1> HIDE DEF K
<1>3. PICK n \in Nat : A \in [1 .. n -> K]
  BY <1>2, AscendingFacts
<1> HIDE DEF A, b
<1>4. p = [i \in DOMAIN b |-> compact_candidate(b[i])]
  BY DEF build_user_prompt
<1> HIDE DEF p
<1>5. ASSUME NEW i \in DOMAIN b PROVE [p[i] EXCEPT !.lines = expand_line_ranges(p[i].lines)] = b[i]
  <2>1. i \in DOMAIN A /\ A[i] \in K /\ b[i] = CandidateOf(r, c.block_map, A[i])
    BY <1>1, <1>3
  <2>2. PICK a : a = A[i]
    OBVIOUS
  <2>3. c.block_map[r[a].key].lines \in SUBSET Nat /\ IsFiniteSet(c.block_map[r[a].key].lines)
    BY <1>2, <2>1, <2>2 DEF IsCase
  <2>4. p[i] = compact_candidate(CandidateOf(r, c.block_map, a))
    BY <1>4, <2>1, <2>2
  <2>5. LET q == compact_candidate(CandidateOf(r, c.block_map, a))
        IN  [q EXCEPT !.lines = expand_line_ranges(q.lines)] = CandidateOf(r, c.block_map, a)
    BY <2>3, CompactFacts
  <2> QED
    BY <2>1, <2>2, <2>4, <2>5
<1>6. DOMAIN p = DOMAIN b
  BY <1>4
<1>7. [i \in DOMAIN p |-> [p[i] EXCEPT !.lines = expand_line_ranges(p[i].lines)]] = b
  <2>1. b = [i \in DOMAIN b |-> b[i]]
    BY <1>1
  <2> QED
    BY <1>5, <1>6, <2>1
<1>8. parse_prompt_candidates(p) \in {<<>>, b}
  BY <1>7 DEF parse_prompt_candidates
<1> USE DEF b, p
<1> QED
  BY <1>8

-----------------------------------------------------------------------------
(* Rankings                                                                *)

\* What has the ids of a list, each once, and a score for each.
ScoresAll(score, c, n) == \A i \in 1 .. n : score[c[i].id] \in Int

\* rank_candidates refuses its input or lists every candidate once.
LEMMA RankFacts ==
  ASSUME NEW c, NEW n, IsList(c, n), NEW score, ScoresAll(score, c, n), NEW w \in Int,
         NEW t, t = rank_candidates(c, score, w), t # <<>>
  PROVE  /\ t \in Seq(Range(t)) /\ Len(t) = n /\ DOMAIN t = 1 .. n
         /\ \A k, l \in 1 .. n : t[k].id = t[l].id => k = l
<1> DEFINE s == Scored(c, score, w)
<1>1. n \in Nat /\ Distinct(c, n) /\ DOMAIN c = 1 .. n
  BY DEF IsList, Distinct
<1>2. t = Sorted(s)
  BY DEF rank_candidates
<1>3. DOMAIN s = 1 .. n
  BY <1>1 DEF Scored
<1>4. ASSUME NEW i \in 1 .. n
      PROVE  /\ s[i].id = c[i].id /\ s[i].llm \in Int /\ s[i].sus \in Int /\ s[i].final \in Int
  <2>1. /\ s[i].id = c[i].id /\ s[i].llm = score[c[i].id] /\ s[i].sus = c[i].sus
        /\ s[i].final = w * score[c[i].id] + (FullWeight - w) * c[i].sus
    BY <1>1 DEF Scored
  <2>2. score[c[i].id] \in Int /\ c[i].sus \in Int
    BY DEF IsList, ScoresAll
  <2>3. PICK x \in Int, y \in Int : x = score[c[i].id] /\ y = c[i].sus
    BY <2>2
  <2>4. w * x + (FullWeight - w) * y \in Int
    BY DEF FullWeight
  <2> QED
    BY <2>1, <2>2, <2>3, <2>4
<1> HIDE DEF s
<1>5. Distinct(s, n)
  BY <1>1, <1>3, <1>4 DEF Distinct
<1>6. Permutes(Sorted(s), s, n)
  BY <1>1, <1>4, <1>5, SortedFacts
<1> QED
  BY <1>2, <1>6, Zenon DEF Permutes

\* The first k of a ranking are k, and different.
LEMMA SliceFacts ==
  ASSUME NEW t, NEW n \in Nat, t \in Seq(Range(t)), Len(t) = n,
         \A i, j \in 1 .. n : t[i].id = t[j].id => i = j,
         NEW k \in Nat \ {0}, k <= n
  PROVE  /\ Len(Slice(t, k)) = k /\ DOMAIN Slice(t, k) = 1 .. k
         /\ \A i, j \in DOMAIN Slice(t, k) : Slice(t, k)[i].id = Slice(t, k)[j].id => i = j
<1>1. Min({k, Len(t)}) = k
  <2>1. k \in Int /\ n \in Int
    OBVIOUS
  <2>2. Min({k, n}) \in {k, n} /\ Min({k, n}) <= k /\ Min({k, n}) <= n
    BY <2>1, MinPair
  <2> QED
    BY <2>1, <2>2
<1>2. Slice(t, k) = SubSeq(t, 1, k)
  BY <1>1 DEF Slice
<1>3. PICK X : X = Range(t)
  OBVIOUS
<1>4. PICK u : u = SubSeq(t, 1, k)
  OBVIOUS
<1>5. t \in Seq(X)
  BY <1>3
<1>6. Len(u) = k /\ DOMAIN u = 1 .. k /\ \A i \in 1 .. k : u[i] = t[i]
  BY <1>4, <1>5
<1>7. \A i, j \in DOMAIN u : u[i].id = u[j].id => i = j
  BY <1>6
<1> QED
  BY <1>2, <1>4, <1>6, <1>7

-----------------------------------------------------------------------------
(* What the files and the process hold                                     *)

\* The candidates of a localisation, for some limit.
Made(c, cs) == \E k \in Int : c = build_candidates(parse_block_suspiciousness(cs.log), cs.block_map, k)

\* An answer that was accepted for these candidates.
Fits(text, c) == text \in Texts /\ validate_assessments(text, Ids(c))

\* A ranking of k different candidates.
Ranks(t, k) == /\ Len(t) = k /\ DOMAIN t = 1 .. k
               /\ \A i, j \in DOMAIN t : t[i].id = t[j].id => i = j

\* What RerankAssumption says of a localisation.
LEMMA CaseFacts ==
  ASSUME NEW cs \in Cases
  PROVE  IsCase(cs) /\ IsRanking(parse_block_suspiciousness(cs.log))
<1>1. IsCase(cs)
  BY RerankAssumption DEF IsCase
<1> QED
  BY <1>1, RankingFacts

\* BuildFacts, SameIds and PromptFacts for the candidates of a localisation.
LEMMA MadeList ==
  ASSUME NEW cs \in Cases, NEW c, Made(c, cs)
  PROVE  \E n \in Nat : IsList(c, n)
<1>1. PICK r : r = parse_block_suspiciousness(cs.log)
  OBVIOUS
<1>2. IsCase(cs) /\ IsRanking(r)
  BY <1>1, CaseFacts
<1>3. PICK k \in Int : c = build_candidates(r, cs.block_map, k)
  BY <1>1 DEF Made
<1>4. \E n \in Nat : IsList(build_candidates(r, cs.block_map, k), n)
  BY <1>2, BuildFacts
<1> QED
  BY <1>3, <1>4

LEMMA MadeSame ==
  ASSUME NEW cs \in Cases, NEW a, Made(a, cs), NEW b, Made(b, cs), Ids(a) = Ids(b)
  PROVE  a = b
<1>1. PICK r : r = parse_block_suspiciousness(cs.log)
  OBVIOUS
<1>2. IsCase(cs) /\ IsRanking(r)
  BY <1>1, CaseFacts
<1>3. PICK k \in Int : a = build_candidates(r, cs.block_map, k)
  BY <1>1 DEF Made
<1>4. PICK l \in Int : b = build_candidates(r, cs.block_map, l)
  BY <1>1 DEF Made
<1>5. Ids(build_candidates(r, cs.block_map, k)) = Ids(build_candidates(r, cs.block_map, l))
  BY <1>3, <1>4, Zenon
<1>6. build_candidates(r, cs.block_map, k) = build_candidates(r, cs.block_map, l)
  BY <1>2, <1>5, SameIds
<1> QED
  BY <1>3, <1>4, <1>6, Zenon

LEMMA MadePrompt ==
  ASSUME NEW cs \in Cases, NEW c, Made(c, cs)
  PROVE  parse_prompt_candidates(build_user_prompt(c).candidates) \in {<<>>, c}
<1>1. PICK r : r = parse_block_suspiciousness(cs.log)
  OBVIOUS
<1>2. IsCase(cs) /\ IsRanking(r)
  BY <1>1, CaseFacts
<1>3. PICK k \in Int : c = build_candidates(r, cs.block_map, k)
  BY <1>1 DEF Made
<1>4. LET b == build_candidates(r, cs.block_map, k)
      IN  parse_prompt_candidates(build_user_prompt(b).candidates) \in {<<>>, b}
  BY <1>2, PromptFacts
<1> QED
  BY <1>3, <1>4, Zenon

\* An accepted answer has a score for every candidate.
LEMMA FitsScores ==
  ASSUME NEW c, NEW n, IsList(c, n), NEW text, Fits(text, c)
  PROVE  ScoresAll(text.score, c, n)
<1>1. ASSUME NEW i \in 1 .. n PROVE text.score[c[i].id] \in Int
  <2>1. c[i].id \in Ids(c)
    BY DEF IsList, Distinct, Ids
  <2>2. {text.ids[j] : j \in DOMAIN text.ids} = Ids(c)
    BY DEF Fits, validate_assessments
  <2>3. PICK j \in DOMAIN text.ids : c[i].id = text.ids[j]
    BY <2>1, <2>2
  <2>4. text.score[text.ids[j]] \in Int
    BY <2>3, RerankAssumption DEF Fits
  <2> QED
    BY <2>3, <2>4
<1> QED
  BY <1>1 DEF ScoresAll

\* What the client ranks for the first k.
LEMMA TopRanks ==
  ASSUME NEW cs \in Cases, NEW c, Made(c, cs), NEW text, Fits(text, c), NEW w \in Int,
         rank_candidates(c, text.score, w) # <<>>, NEW k \in Nat \ {0},
         k <= Len(c) \/ k <= Len(rank_candidates(c, text.score, w))
  PROVE  Ranks(Slice(rank_candidates(c, text.score, w), k), k)
<1>1. PICK n \in Nat : IsList(c, n)
  BY MadeList
<1>2. ScoresAll(text.score, c, n)
  BY <1>1, FitsScores
<1>3. PICK s : s = text.score
  OBVIOUS
<1>4. PICK t : t = rank_candidates(c, s, w)
  OBVIOUS
<1>5. /\ t \in Seq(Range(t)) /\ Len(t) = n /\ DOMAIN t = 1 .. n
      /\ \A i, j \in 1 .. n : t[i].id = t[j].id => i = j
  BY <1>1, <1>2, <1>3, <1>4, RankFacts
<1>6. k <= n
  BY <1>1, <1>3, <1>4, <1>5 DEF IsList
<1>7. /\ Len(Slice(t, k)) = k /\ DOMAIN Slice(t, k) = 1 .. k
      /\ \A i, j \in DOMAIN Slice(t, k) : Slice(t, k)[i].id = Slice(t, k)[j].id => i = j
  BY <1>5, <1>6, SliceFacts
<1> QED
  BY <1>3, <1>4, <1>7, Zenon DEF Ranks

\* The file of a candidate has a length.
LEMMA MadeLength ==
  ASSUME NEW cs \in Cases, NEW c, Made(c, cs), NEW i \in DOMAIN c
  PROVE  cs.rtl_root[c[i].module].length \in Nat
<1>1. PICK r : r = parse_block_suspiciousness(cs.log)
  OBVIOUS
<1>2. IsCase(cs) /\ IsRanking(r)
  BY <1>1, CaseFacts
<1>3. PICK k \in Int : c = build_candidates(r, cs.block_map, k)
  BY <1>1 DEF Made
<1>4. PICK K : K = Kept(r, cs.block_map, k)
  OBVIOUS
<1>5. c = Built(r, cs.block_map, K)
  BY <1>2, <1>3, <1>4, BuildFacts
<1>6. /\ IsFiniteSet(K) /\ K \in SUBSET (1 .. Len(r)) /\ K \in SUBSET Int
      /\ \A j \in K : r[j].key \in DOMAIN cs.block_map
  BY <1>2, <1>4, KeptFacts
<1>7. PICK n \in Nat : Ascending(K) \in [1 .. n -> K]
  BY <1>6, AscendingFacts
<1>8. i \in 1 .. n /\ c[i] = CandidateOf(r, cs.block_map, Ascending(K)[i])
  BY <1>5, <1>7 DEF Built
<1>9. PICK j \in K : j = Ascending(K)[i]
  BY <1>7, <1>8
<1>10. c[i].module = cs.block_map[r[j].key].module
  BY <1>8, <1>9 DEF CandidateOf
<1>11. cs.rtl_root[cs.block_map[r[j].key].module].length \in Nat
  BY <1>2, <1>6 DEF IsCase
<1> QED
  BY <1>10, <1>11

\* A line of the file is among the lines around it.
LEMMA LinesExpand ==
  ASSUME NEW core, NEW n \in Nat, NEW radius \in Nat, NEW l \in core, l \in 1 .. n
  PROVE  l \in expanded_lines(core, n, radius)
<1>1. Min({n, l + radius}) \in {n, l + radius}
  <2>1. n \in Int /\ l + radius \in Int
    OBVIOUS
  <2> QED
    BY <2>1, MinPair
<1>2. Max({1, l - radius}) \in {1, l - radius}
  <2>1. \E x \in {1, l - radius} : \A y \in {1, l - radius} : x >= y
    <3>1. CASE 1 >= l - radius
      BY <3>1
    <3>2. CASE l - radius >= 1
      BY <3>2
    <3> QED
      BY <3>1, <3>2
  <2> QED
    BY <2>1 DEF Max
<1>3. l \in Max({1, l - radius}) .. Min({n, l + radius})
  BY <1>1, <1>2
<1> QED
  BY <1>3 DEF expanded_lines

\* SourcesKept of a context s.
Keeps(s, c, rtl_root, a) ==
  /\ \A i \in DOMAIN c : \A m \in {c[i].module} : \A file \in {rtl_root[m]} :
       \/ c[i].lines \ file.blank \subseteq s.regions[m]
       \/ s.mode = "full" /\ s.regions[m] = (1 .. file.length) \ file.blank
  /\ source_chars(rtl_root, s.regions) <= a.max_source_chars
  /\ s.mode = "snippets" =>
       \A r \in s.radius + 1 .. a.snippet_radius :
         ~(source_chars(rtl_root, build_regions(rtl_root, c, "snippets", r)) <= a.max_source_chars)

\* In full mode a region is the file without its blank lines.
LEMMA RegionsFull ==
  ASSUME NEW c, NEW rtl_root, NEW radius, NEW i \in DOMAIN c, NEW file, file = rtl_root[c[i].module]
  PROVE  build_regions(rtl_root, c, "full", radius)[c[i].module] = (1 .. file.length) \ file.blank
BY DEF build_regions, render_selected

\* In snippets mode a region has the lines of its candidates that are not blank, where the file
\* has them.
LEMMA RegionsSnippets ==
  ASSUME NEW c, NEW rtl_root, NEW radius \in Nat, NEW i \in DOMAIN c, NEW file, file = rtl_root[c[i].module],
         file.length \in Nat, c[i].lines \subseteq 1 .. file.length
  PROVE  c[i].lines \ file.blank \subseteq build_regions(rtl_root, c, "snippets", radius)[c[i].module]
<1> DEFINE m == c[i].module
           core == UNION {c[j].lines : j \in {k \in DOMAIN c : c[k].module = m}}
<1>1. build_regions(rtl_root, c, "snippets", radius)[m] = expanded_lines(core, file.length, radius) \ file.blank
  BY DEF build_regions, render_selected
<1>2. \A l \in c[i].lines : l \in core
  OBVIOUS
<1> HIDE DEF core
<1>3. PICK n \in Nat : n = file.length
  OBVIOUS
<1>4. ASSUME NEW l \in c[i].lines PROVE l \in expanded_lines(core, n, radius)
  <2>1. l \in core /\ l \in 1 .. n
    BY <1>2, <1>3
  <2> QED
    BY <2>1, LinesExpand
<1> QED
  BY <1>1, <1>3, <1>4

\* collect_sources fails or gives a context as SourcesKept wants it.
LEMMA SourcesFacts ==
  ASSUME NEW cs \in Cases, NEW c, Made(c, cs), NEW a \in Options, validate_args(a), NEW s,
         s = collect_sources(cs.rtl_root, c, a.source_mode, a.max_source_chars, a.snippet_radius),
         s.mode # "error"
  PROVE  Keeps(s, c, cs.rtl_root, a)
<1> DEFINE full == build_regions(cs.rtl_root, c, "full", a.snippet_radius)
           snip(r) == build_regions(cs.rtl_root, c, "snippets", r)
           max == a.max_source_chars
           fits == {r \in 0 .. a.snippet_radius : source_chars(cs.rtl_root, snip(r)) <= max}
<1>1. a.snippet_radius \in Nat
  <2>1. {a.candidate_count, a.top_k, a.max_source_chars, a.snippet_radius} \subseteq Int
    BY RerankAssumption, Zenon
  <2>2. a.snippet_radius >= 0
    BY Zenon DEF validate_args
  <2> QED
    BY <2>1, <2>2
<1>2. NoContext.mode = "error"
  BY DEF NoContext
<1>3. \/ source_chars(cs.rtl_root, full) <= max /\ s = [mode |-> "full", radius |-> 0, regions |-> full]
      \/ /\ ~outside(cs.rtl_root, c) /\ fits # {}
         /\ s = [mode |-> "snippets", radius |-> Max(fits), regions |-> snip(Max(fits))]
  BY <1>2 DEF collect_sources
<1>4. CASE source_chars(cs.rtl_root, full) <= max /\ s = [mode |-> "full", radius |-> 0, regions |-> full]
  <2>1. s.mode = "full" /\ s.regions = full
    BY <1>4
  <2>2. \A i \in DOMAIN c : \A file \in {cs.rtl_root[c[i].module]} :
          full[c[i].module] = (1 .. file.length) \ file.blank
    BY RegionsFull
  <2> HIDE DEF full
  <2> QED
    BY <1>4, <2>1, <2>2 DEF Keeps
<1>5. CASE /\ ~outside(cs.rtl_root, c) /\ fits # {}
           /\ s = [mode |-> "snippets", radius |-> Max(fits), regions |-> snip(Max(fits))]
  <2>1. Max(fits) \in fits /\ \A r \in fits : r <= Max(fits)
    <3>1. fits \in SUBSET (0 .. a.snippet_radius)
      OBVIOUS
    <3> HIDE DEF fits
    <3> QED
      BY <1>1, <1>5, <3>1, MaxIn
  <2>2. PICK r \in 0 .. a.snippet_radius : r = Max(fits) /\ source_chars(cs.rtl_root, snip(r)) <= max
    BY <2>1
  <2>3. s.mode = "snippets" /\ s.radius = r /\ s.regions = snip(r)
    BY <1>5, <2>2
  <2>4. ASSUME NEW q \in r + 1 .. a.snippet_radius PROVE ~(source_chars(cs.rtl_root, snip(q)) <= max)
    <3>1. q \in 0 .. a.snippet_radius /\ ~(q <= r)
      BY <1>1, <2>2
    <3>2. ~(q \in fits)
      BY <2>1, <2>2, <3>1
    <3> QED
      BY <3>1, <3>2
  <2>5. ASSUME NEW i \in DOMAIN c, NEW file, file = cs.rtl_root[c[i].module]
        PROVE  c[i].lines \ file.blank \subseteq snip(r)[c[i].module]
    <3>1. cs.rtl_root[c[i].module].length \in Nat
      BY MadeLength
    <3>2. c[i].lines \subseteq 1 .. cs.rtl_root[c[i].module].length
      BY <1>5 DEF outside
    <3>3. r \in Nat
      BY <1>1, <2>2
    <3> QED
      BY <2>5, <3>1, <3>2, <3>3, RegionsSnippets
  <2> HIDE DEF snip, max
  <2>6. source_chars(cs.rtl_root, s.regions) <= max
    BY <2>2, <2>3, Zenon
  <2>7. \A i \in DOMAIN c : \A file \in {cs.rtl_root[c[i].module]} :
          c[i].lines \ file.blank \subseteq s.regions[c[i].module]
    BY <2>3, <2>5, Zenon
  <2>8. \A q \in s.radius + 1 .. a.snippet_radius : ~(source_chars(cs.rtl_root, snip(q)) <= max)
    BY <2>3, <2>4, Zenon
  <2> USE DEF snip, max
  <2> QED
    BY <2>6, <2>7, <2>8, Zenon DEF Keeps
<1> QED
  BY <1>3, <1>4, <1>5

-----------------------------------------------------------------------------
(* The tools                                                               *)

\* A result, with what it was made from.
IsResult(f, cs) ==
  /\ Made(f.asked, cs) /\ Fits(f.raw, f.asked)
  /\ f.top_k \in Nat \ {0} /\ Ranks(f.rankings, f.top_k)

\* A result of the offline tool.
IsOffline(f) ==
  /\ f.top_k \in Nat \ {0} /\ Ranks(f.rankings, f.top_k)
  /\ f.rankings = Slice(rank_candidates(f.asked, f.raw.score, f.weight), f.top_k)

IsPrompt(f, cs) == \E c : Made(c, cs) /\ f = build_user_prompt(c)

ProcInv ==
  step # "idle" => /\ dir \in Dirs /\ args \in Options /\ validate_args(args)
                   /\ Made(candidates, case) /\ args.top_k <= Len(candidates)

CallInv ==
  /\ step # "call" => call = "idle"
  /\ call = "ok" => Fits(raw, candidates)

\* The files of one localisation: the prompt may be a later one than the result's.
FilesInv ==
  /\ DOMAIN prompt = Dirs /\ DOMAIN result = Dirs /\ DOMAIN offline = Dirs
  /\ \A d \in Dirs : /\ Exists(prompt[d]) => IsPrompt(prompt[d], case)
                     /\ Exists(result[d]) => IsResult(result[d], case)
                     /\ Exists(offline[d]) => IsOffline(offline[d])

RerankInv == case \in Cases /\ ProcInv /\ CallInv /\ FilesInv /\ SourcesKept

\* No file is not there.
LEMMA NoFileMissing == ~Exists(NoFile)
BY DEF Exists, NoFile

\* The directories are empty and no process runs.
LEMMA RerankInit ==
  ASSUME Init PROVE RerankInv
<1>1. ~Exists(NoFile)
  BY NoFileMissing
<1>2. case \in Cases /\ step = "idle" /\ call = "idle"
  BY DEF Init, ClientInit
<1>3. ProcInv /\ CallInv /\ SourcesKept
  BY <1>2 DEF ProcInv, CallInv, SourcesKept
<1>4. \A f \in {prompt, result, offline} : DOMAIN f = Dirs /\ \A d \in Dirs : f[d] = NoFile
  BY DEF Init
<1>5. FilesInv
  <2>1. DOMAIN prompt = Dirs /\ DOMAIN result = Dirs /\ DOMAIN offline = Dirs
    BY <1>4
  <2>2. \A d \in Dirs : prompt[d] = NoFile /\ result[d] = NoFile /\ offline[d] = NoFile
    BY <1>4
  <2> QED
    BY <1>1, <2>1, <2>2, Zenon DEF FilesInv
<1> QED
  BY <1>2, <1>3, <1>5 DEF RerankInv

\* The parts of the invariant that a step leaves alone.
LEMMA KeptFiles ==
  ASSUME RerankInv, UNCHANGED <<case, files>>
  PROVE  (case \in Cases)' /\ FilesInv'
<1>1. case' = case /\ prompt' = prompt /\ result' = result /\ offline' = offline
  BY DEF files
<1> QED
  BY <1>1, Zenon DEF RerankInv, FilesInv

\* An ended process has no locals.
LEMMA IdleInv ==
  ASSUME Gone
  PROVE  ProcInv' /\ CallInv' /\ SourcesKept'
BY DEF Gone, EndCall, ProcInv, CallInv, SourcesKept

\* Start checks top_k against the candidates, of which blocks.json may know fewer than asked for.
LEMMA StartInv ==
  ASSUME RerankInv, NEW d \in Dirs, NEW a \in Options, Start(d, a)
  PROVE  RerankInv'
<1>1. /\ step = "idle" /\ UNCHANGED <<clientVars, case, files>>
  BY DEF Start
<1>2. (case \in Cases)' /\ FilesInv'
  BY <1>1, KeptFiles
<1>3. PICK c : /\ c = build_candidates(ranked, case.block_map, a.candidate_count)
               /\ IF ~validate_args(a) \/ c = <<>> \/ Len(c) < a.top_k THEN UNCHANGED proc
                  ELSE /\ step' = "workspace" /\ dir' = d /\ args' = a /\ candidates' = c
                       /\ UNCHANGED <<sources, raw>>
  BY DEF Start
<1>4. call' = call /\ call = "idle" /\ case' = case
  BY <1>1 DEF clientVars, RerankInv, CallInv
<1>5. CASE UNCHANGED proc
  BY <1>1, <1>2, <1>4, <1>5 DEF proc, RerankInv, ProcInv, CallInv, SourcesKept
<1>6. CASE ~UNCHANGED proc
  <2>1. /\ validate_args(a) /\ ~(Len(c) < a.top_k)
        /\ step' = "workspace" /\ dir' = d /\ args' = a /\ candidates' = c
    BY <1>3, <1>6
  <2>2. a.candidate_count \in Int /\ a.top_k \in Int
    BY RerankAssumption
  <2>3. Made(c, case)
    BY <1>3, <2>2 DEF Made, ranked
  <2>4. a.top_k <= Len(c)
    <3>1. PICK n \in Nat : IsList(c, n)
      BY <2>3, MadeList DEF RerankInv
    <3> QED
      BY <2>1, <2>2, <3>1 DEF IsList
  <2>5. ProcInv'
    BY <1>4, <2>1, <2>3, <2>4, Zenon DEF ProcInv, validate_args
  <2>6. CallInv' /\ SourcesKept'
    BY <1>4, <2>1 DEF CallInv, SourcesKept
  <2> QED
    BY <1>2, <2>5, <2>6 DEF RerankInv
<1> QED
  BY <1>5, <1>6

\* The context is the one collect_sources gives.
LEMMA WorkspaceInv ==
  ASSUME RerankInv, Workspace
  PROVE  RerankInv'
<1>1. step = "workspace" /\ UNCHANGED <<case, files>>
  BY DEF Workspace
<1>2. (case \in Cases)' /\ FilesInv'
  BY <1>1, KeptFiles
<1>3. CASE Gone
  BY <1>2, <1>3, IdleInv DEF RerankInv
<1>4. CASE ~Gone
  <2>1. PICK s : /\ s = collect_sources(case.rtl_root, candidates, args.source_mode, args.max_source_chars,
                                        args.snippet_radius)
                 /\ s.mode # "error" /\ step' = "prompt" /\ sources' = s
                 /\ UNCHANGED <<clientVars, dir, args, candidates, raw>>
    BY <1>4 DEF Workspace
  <2>2. /\ dir \in Dirs /\ args \in Options /\ validate_args(args)
        /\ Made(candidates, case) /\ args.top_k <= Len(candidates) /\ case \in Cases /\ call = "idle"
    BY <1>1 DEF RerankInv, ProcInv, CallInv
  <2>3. Keeps(s, candidates, case.rtl_root, args)
    BY <2>1, <2>2, SourcesFacts
  <2>4. /\ dir' = dir /\ args' = args /\ candidates' = candidates /\ case' = case /\ call' = call
        /\ sources' = s /\ step' = "prompt"
    BY <1>1, <2>1 DEF clientVars
  <2>5. SourcesKept'
    <3>1. Keeps(sources, candidates, case.rtl_root, args)'
      BY <2>3, <2>4, Zenon
    <3> QED
      BY <3>1, Zenon DEF SourcesKept, Keeps
  <2>6. ProcInv' /\ CallInv'
    BY <2>2, <2>4 DEF ProcInv, CallInv, validate_args
  <2> QED
    BY <1>2, <2>5, <2>6 DEF RerankInv
<1> QED
  BY <1>3, <1>4

\* The prompt saved is of candidates of this localisation; the result beside it stays.
LEMMA SavePromptInv ==
  ASSUME RerankInv, SavePrompt
  PROVE  RerankInv'
<1>1. /\ step = "prompt" /\ step' = "key" /\ case' = case /\ result' = result /\ offline' = offline
      /\ dir' = dir /\ args' = args /\ candidates' = candidates /\ raw' = raw /\ call' = call
  BY DEF SavePrompt, clientVars
<1>2. dir \in Dirs /\ Made(candidates, case) /\ DOMAIN prompt = Dirs
  BY <1>1 DEF RerankInv, ProcInv, FilesInv
<1>3. IsPrompt(build_user_prompt(candidates), case)
  BY <1>2 DEF IsPrompt
<1>4. prompt' \in {prompt, [prompt EXCEPT ![dir] = build_user_prompt(candidates)]}
  BY DEF SavePrompt, atomic_write
<1>5. DOMAIN prompt' = Dirs /\ \A d \in Dirs : prompt'[d] \in {prompt[d], build_user_prompt(candidates)}
  BY <1>2, <1>4
<1>6. \A d \in Dirs : Exists(prompt'[d]) => IsPrompt(prompt'[d], case)
  BY <1>3, <1>5, Zenon DEF RerankInv, FilesInv
<1>7. FilesInv'
  BY <1>1, <1>5, <1>6, Zenon DEF RerankInv, FilesInv
<1>8. ProcInv' /\ CallInv' /\ SourcesKept'
  BY <1>1 DEF RerankInv, ProcInv, CallInv, SourcesKept, validate_args
<1> QED
  BY <1>1, <1>7, <1>8 DEF RerankInv

\* The steps after the prompt up to the answer.
LEMMA CallInvs ==
  ASSUME RerankInv, Ready \/ Ask \/ Reply \/ CallFailed \/ Killed
  PROVE  RerankInv'
<1>1. UNCHANGED <<case, files>>
  BY DEF Ready, Ask, Reply, CallFailed, Killed
<1>2. (case \in Cases)' /\ FilesInv'
  BY <1>1, KeptFiles
<1>3. CASE Gone
  BY <1>2, <1>3, IdleInv DEF RerankInv
<1>4. case' = case
  BY <1>1
<1>5. CASE Ready /\ ~Gone
  <2>1. /\ step = "key" /\ step' = "call" /\ call' = "request"
        /\ dir' = dir /\ args' = args /\ candidates' = candidates
    BY <1>5 DEF Ready, StartCall
  <2> QED
    BY <1>2, <1>4, <2>1 DEF RerankInv, ProcInv, CallInv, SourcesKept, validate_args
<1>6. CASE Ask
  <2>1. /\ step = "call" /\ UNCHANGED proc /\ call' # "ok"
    <3>1. Request /\ step = "call" /\ UNCHANGED proc
      BY <1>6 DEF Ask
    <3>2. call' # "ok"
      <4>1. CASE Answered \/ EmptyAnswer
        BY <4>1 DEF Answered, EmptyAnswer
      <4>2. CASE \E e \in Errors : ModeRefused(e) \/ Transient(e) \/ RequestFailed(e)
        <5>1. PICK e \in Errors : ModeRefused(e) \/ Transient(e) \/ RequestFailed(e)
          BY <4>2
        <5>2. (call' = call /\ call = "request") \/ call' = "failed"
          BY <5>1 DEF ModeRefused, Transient, RequestFailed
        <5> QED
          BY <5>2
      <4> QED
        BY <3>1, <4>1, <4>2 DEF Request
    <3> QED
      BY <3>1, <3>2
  <2> QED
    BY <1>2, <1>4, <2>1 DEF proc, RerankInv, ProcInv, CallInv, SourcesKept, validate_args
<1>7. CASE Reply
  <2>1. PICK text \in Texts : IF validate_assessments(text, Ids(candidates))
                              THEN ValidAnswer /\ raw' = text
                              ELSE InvalidAnswer /\ UNCHANGED raw
    BY <1>7 DEF Reply
  <2>2. step = "call" /\ step' = step /\ dir' = dir /\ args' = args /\ candidates' = candidates
    BY <1>7 DEF Reply
  <2>3. call' = "ok" => Fits(raw', candidates)
    <3>1. CASE validate_assessments(text, Ids(candidates))
      BY <2>1, <3>1 DEF Fits
    <3>2. CASE ~validate_assessments(text, Ids(candidates))
      <4>1. call' \in {"failed", "request"}
        BY <2>1, <3>2 DEF InvalidAnswer
      <4> QED
        BY <4>1
    <3> QED
      BY <3>1, <3>2
  <2>4. CallInv'
    BY <2>2, <2>3 DEF CallInv
  <2>5. ProcInv' /\ SourcesKept'
    BY <1>4, <2>2 DEF RerankInv, ProcInv, SourcesKept, validate_args
  <2> QED
    BY <1>2, <2>4, <2>5 DEF RerankInv
<1>8. CallFailed \/ Killed => Gone
  BY DEF CallFailed, Killed
<1> QED
  BY <1>3, <1>5, <1>6, <1>7, <1>8

\* The result written has top_k different candidates and the answer it was made from.
LEMMA WriteInv ==
  ASSUME RerankInv, Write
  PROVE  RerankInv'
<1>1. /\ step = "call" /\ call = "ok" /\ Gone /\ case' = case /\ prompt' = prompt /\ offline' = offline
  BY DEF Write
<1>2. /\ dir \in Dirs /\ args \in Options /\ validate_args(args) /\ case \in Cases
      /\ Made(candidates, case) /\ args.top_k <= Len(candidates) /\ Fits(raw, candidates)
  BY <1>1 DEF RerankInv, ProcInv, CallInv
<1>3. PICK k : k = args.top_k
  OBVIOUS
<1>4. PICK w : w = args.llm_weight
  OBVIOUS
<1>5. k \in Nat \ {0} /\ w \in Int
  <2>1. args.top_k \in Int /\ args.top_k > 0 /\ args.llm_weight \in 0 .. FullWeight
    BY <1>2, RerankAssumption DEF validate_args
  <2> QED
    BY <1>3, <1>4, <2>1 DEF FullWeight
<1>6. PICK t : t = rank_candidates(candidates, raw.score, w)
  OBVIOUS
<1> DEFINE f == [asked |-> candidates, raw |-> raw, top_k |-> k, rankings |-> Slice(t, k)]
<1>7. result' = IF t = <<>> THEN result ELSE [result EXCEPT ![dir] = f]
  BY <1>3, <1>4, <1>6 DEF Write, atomic_write
<1>8. t # <<>> => IsResult(f, case)
  <2>1. f.asked = candidates /\ f.raw = raw /\ f.top_k = k /\ f.rankings = Slice(t, k)
    BY Zenon
  <2> HIDE DEF f
  <2>2. ASSUME t # <<>> PROVE Ranks(Slice(t, k), k)
    <3>1. k <= Len(candidates)
      BY <1>2, <1>3
    <3>2. rank_candidates(candidates, raw.score, w) # <<>>
      BY <1>6, <2>2
    <3>3. Ranks(Slice(rank_candidates(candidates, raw.score, w), k), k)
      BY <1>2, <1>5, <3>1, <3>2, TopRanks
    <3> QED
      BY <1>6, <3>3
  <2> QED
    BY <1>2, <1>5, <2>1, <2>2, Zenon DEF IsResult
<1> HIDE DEF f
<1>9. DOMAIN result = Dirs
  BY DEF RerankInv, FilesInv
<1>10. DOMAIN result' = Dirs /\ \A d \in Dirs : result'[d] = result[d] \/ (t # <<>> /\ result'[d] = f)
  BY <1>7, <1>9
<1>11. \A d \in Dirs : Exists(result'[d]) => IsResult(result'[d], case)
  BY <1>8, <1>10, Zenon DEF RerankInv, FilesInv
<1>12. FilesInv'
  BY <1>1, <1>10, <1>11, Zenon DEF RerankInv, FilesInv
<1> QED
  BY <1>1, <1>2, <1>12, IdleInv DEF RerankInv

\* What the offline tool makes of a pair is the client's ranking for its weight.
LEMMA PairFacts ==
  ASSUME RerankInv, NEW d \in discover_pairs, NEW weight \in Weights, NEW top \in {0, 2},
         Exists(rerank_pair(d, weight, top))
  PROVE  IsOffline(rerank_pair(d, weight, top))
<1>1. d \in Dirs /\ Exists(result[d]) /\ Exists(prompt[d])
  BY DEF discover_pairs
<1>2. case \in Cases /\ IsResult(result[d], case) /\ IsPrompt(prompt[d], case)
  BY <1>1 DEF RerankInv, FilesInv
<1>3. PICK asked : asked = result[d].asked
  OBVIOUS
<1>4. PICK text : text = result[d].raw
  OBVIOUS
<1>5. Made(asked, case) /\ Fits(text, asked) /\ result[d].top_k \in Nat \ {0}
  BY <1>2, <1>3, <1>4 DEF IsResult
<1>6. PICK c : c = parse_prompt_candidates(prompt[d].candidates)
  OBVIOUS
<1>7. c = <<>> \/ Made(c, case)
  <2>1. PICK m : Made(m, case) /\ prompt[d] = build_user_prompt(m)
    BY <1>2 DEF IsPrompt
  <2>2. parse_prompt_candidates(build_user_prompt(m).candidates) \in {<<>>, m}
    BY <1>2, <2>1, MadePrompt
  <2> QED
    BY <1>6, <2>1, <2>2
<1>8. PICK k : k = IF top = 0 THEN result[d].top_k ELSE top
  OBVIOUS
<1>9. k \in Nat \ {0}
  BY <1>5, <1>8
<1>10. PICK answer : answer = parse_raw_assessments(result[d])
  OBVIOUS
<1>11. PICK t : t = IF c = <<>> THEN <<>> ELSE rerank_candidates(c, answer, weight)
  OBVIOUS
<1> DEFINE f == [asked |-> asked, raw |-> text, weight |-> weight, top_k |-> k, rankings |-> Slice(t, k)]
<1>12. rerank_pair(d, weight, top) = IF t = <<>> \/ k > Len(t) THEN NoFile ELSE f
  BY <1>3, <1>4, <1>6, <1>8, <1>10, <1>11, Zenon DEF rerank_pair
<1>13. t # <<>> /\ ~(k > Len(t)) /\ rerank_pair(d, weight, top) = f
  BY <1>12, NoFileMissing, Zenon
<1>14. c # <<>> /\ t = rerank_candidates(c, answer, weight) /\ Made(c, case)
  BY <1>7, <1>11, <1>13
<1>15. validate_scores(c, answer) /\ ~(\E i \in DOMAIN c : c[i].sus < 0)
  BY <1>13, <1>14 DEF rerank_candidates
<1>16. t = rank_candidates(c, answer.score, weight)
  BY <1>14, <1>15, Zenon DEF rerank_candidates, rank_candidates
<1>17. answer = text
  <2>1. extract_json_object(text)
    BY <1>5 DEF Fits, validate_assessments
  <2>2. text.ids # <<>>
    <3> SUFFICES ASSUME text.ids = <<>> PROVE FALSE
      OBVIOUS
    <3>1. answer = NoText
      BY <1>4, <1>10 DEF parse_raw_assessments
    <3>2. answer.ids = <<>>
      BY <3>1 DEF NoText
    <3>3. Ids(c) = {}
      BY <1>15, <3>2 DEF validate_scores, ToSet
    <3>4. PICK n \in Nat : IsList(c, n)
      BY <1>2, <1>14, MadeList
    <3>5. DOMAIN c = 1 .. n /\ c \in Seq(Range(c)) /\ Len(c) = n
      BY <3>4 DEF IsList, Distinct
    <3>6. n = 0
      <4> SUFFICES ASSUME n # 0 PROVE FALSE
        OBVIOUS
      <4>1. 1 \in DOMAIN c
        BY <3>5
      <4>2. c[1].id \in Ids(c)
        BY <4>1 DEF Ids
      <4> QED
        BY <3>3, <4>2
    <3>7. c = <<>>
      BY <3>5, <3>6
    <3> QED
      BY <1>14, <3>7
  <2> QED
    BY <1>4, <1>10, <2>1, <2>2 DEF parse_raw_assessments
<1>18. Ids(c) = Ids(asked)
  <2>1. ToSet(text.ids) = Ids(c)
    BY <1>15, <1>17 DEF validate_scores
  <2>2. {text.ids[i] : i \in DOMAIN text.ids} = Ids(asked)
    BY <1>5 DEF Fits, validate_assessments
  <2> QED
    BY <2>1, <2>2 DEF ToSet
<1>19. c = asked
  BY <1>2, <1>5, <1>14, <1>18, MadeSame
<1>20. t = rank_candidates(asked, text.score, weight)
  BY <1>16, <1>17, <1>19
<1>21. Ranks(Slice(t, k), k)
  <2>1. PICK n \in Nat : IsList(asked, n)
    BY <1>2, <1>5, MadeList
  <2>2. weight \in Int
    BY RerankAssumption
  <2>3. rank_candidates(asked, text.score, weight) # <<>>
    BY <1>13, <1>20
  <2>4. Len(t) = n
    <3>1. ScoresAll(text.score, asked, n)
      BY <1>5, <2>1, FitsScores
    <3>2. PICK s : s = text.score
      OBVIOUS
    <3>3. ScoresAll(s, asked, n) /\ t = rank_candidates(asked, s, weight) /\ t # <<>>
      BY <1>13, <1>20, <3>1, <3>2
    <3> QED
      BY <2>1, <2>2, <3>3, RankFacts
  <2>5. k <= Len(rank_candidates(asked, text.score, weight))
    <3>1. k <= Len(t)
      BY <1>9, <1>13, <2>4
    <3> QED
      BY <1>20, <3>1
  <2>6. Ranks(Slice(rank_candidates(asked, text.score, weight), k), k)
    BY <1>2, <1>5, <1>9, <2>2, <2>3, <2>5, TopRanks
  <2> QED
    BY <1>20, <2>6
<1>22. /\ f.asked = asked /\ f.raw = text /\ f.weight = weight /\ f.top_k = k
       /\ f.rankings = Slice(t, k)
  BY Zenon
<1> HIDE DEF f
<1>23. IsOffline(f)
  BY <1>9, <1>20, <1>21, <1>22, Zenon DEF IsOffline
<1> QED
  BY <1>13, <1>23

\* The pairs up to the first that fails are ranked again; the others keep their files.
LEMMA RunDirectoryInv ==
  ASSUME RerankInv, NEW weight \in Weights, NEW top \in {0, 2}, NEW bug, RunDirectory(weight, top, bug)
  PROVE  RerankInv'
<1>1. case' = case /\ prompt' = prompt /\ result' = result /\ UNCHANGED proc /\ call' = call
  BY DEF RunDirectory, clientVars
<1>2. /\ DOMAIN offline' = Dirs
      /\ \A d \in Dirs : \/ offline'[d] = offline[d]
                         \/ d \in discover_pairs /\ offline'[d] = rerank_pair(d, weight, top)
  BY DEF RunDirectory
<1>3. ASSUME NEW d \in Dirs, Exists(offline'[d]) PROVE IsOffline(offline'[d])
  <2>1. CASE offline'[d] = offline[d]
    BY <1>3, <2>1, Zenon DEF RerankInv, FilesInv
  <2>2. CASE d \in discover_pairs /\ offline'[d] = rerank_pair(d, weight, top)
    <3>1. Exists(rerank_pair(d, weight, top))
      BY <1>3, <2>2, Zenon
    <3>2. IsOffline(rerank_pair(d, weight, top))
      BY <2>2, <3>1, PairFacts
    <3> QED
      BY <2>2, <3>2, Zenon
  <2> QED
    BY <1>2, <2>1, <2>2
<1>4. FilesInv'
  BY <1>1, <1>2, <1>3, Zenon DEF RerankInv, FilesInv
<1>5. ProcInv' /\ CallInv' /\ SourcesKept'
  BY <1>1 DEF proc, RerankInv, ProcInv, CallInv, SourcesKept
<1> QED
  BY <1>1, <1>4, <1>5 DEF RerankInv

\* No step of the tools breaks the invariant.
LEMMA RerankNext ==
  ASSUME RerankInv, [Next]_vars
  PROVE  RerankInv'
<1>1. CASE \E d \in Dirs, a \in Options : Start(d, a)
  BY <1>1, StartInv
<1>2. CASE Workspace
  BY <1>2, WorkspaceInv
<1>3. CASE SavePrompt
  BY <1>3, SavePromptInv
<1>4. CASE Ready \/ Ask \/ Reply \/ CallFailed \/ Killed
  BY <1>4, CallInvs
<1>5. CASE Write
  BY <1>5, WriteInv
<1>6. CASE \E w \in Weights, k \in {0, 2}, bug \in Bugs : RunDirectory(w, k, bug)
  BY <1>6, RunDirectoryInv
<1>7. CASE (\E bug \in Bugs, window \in {0, 1} : Summarize(bug, window)) \/ UNCHANGED vars
  <2>1. UNCHANGED <<clientVars, case, files, proc>>
    BY <1>7 DEF Summarize, vars
  <2>2. (case \in Cases)' /\ FilesInv'
    BY <2>1, KeptFiles
  <2>3. ProcInv' /\ CallInv' /\ SourcesKept'
    BY <2>1 DEF clientVars, proc, RerankInv, ProcInv, CallInv, SourcesKept
  <2> QED
    BY <2>2, <2>3 DEF RerankInv
<1> QED
  BY <1>1, <1>2, <1>3, <1>4, <1>5, <1>6, <1>7 DEF Next

\* The invariant has what load_rerank_result checks.
LEMMA InvLoadable ==
  ASSUME RerankInv
  PROVE  WrittenLoadable
<1>1. ASSUME NEW f, f.top_k \in Nat \ {0}, Ranks(f.rankings, f.top_k) PROVE load_rerank_result(f)
  BY <1>1 DEF Ranks, load_rerank_result
<1>2. ASSUME NEW d \in Dirs, Exists(result[d]) PROVE load_rerank_result(result[d])
  BY <1>1, <1>2 DEF RerankInv, FilesInv, IsResult
<1>3. ASSUME NEW d \in Dirs, Exists(offline[d]) PROVE load_rerank_result(offline[d])
  BY <1>1, <1>3 DEF RerankInv, FilesInv, IsOffline
<1> QED
  BY <1>2, <1>3 DEF WrittenLoadable

\* The context the model is given has every line of every candidate, keeps within the limit
\* and is the widest that does (collect_sources).
THEOREM LlmSourcesKept == Spec => []SourcesKept
<1>1. Init => RerankInv
  BY RerankInit
<1>2. RerankInv /\ [Next]_vars => RerankInv'
  BY RerankNext
<1>3. RerankInv => SourcesKept
  BY DEF RerankInv
<1> QED
  BY <1>1, <1>2, <1>3, PTL DEF Spec

\* Wherever a process fails or is killed, the files it leaves are ones the statistics accept
\* (run_rerank and rerank_pair against load_rerank_result).
THEOREM LlmWrittenLoadable == Spec => []WrittenLoadable
<1>1. Init => RerankInv
  BY RerankInit
<1>2. RerankInv /\ [Next]_vars => RerankInv'
  BY RerankNext
<1>3. RerankInv => WrittenLoadable
  BY InvLoadable
<1> QED
  BY <1>1, <1>2, <1>3, PTL DEF Spec

\* The offline tool's output is the client's ranking of the candidates the model was asked
\* about, also where the prompt it reads them from is a later one (rerank_pair).
THEOREM LlmOfflineAgrees == Spec => []OfflineAgrees
<1>1. Init => RerankInv
  BY RerankInit
<1>2. RerankInv /\ [Next]_vars => RerankInv'
  BY RerankNext
<1>3. RerankInv => OfflineAgrees
  BY DEF RerankInv, FilesInv, IsOffline, OfflineAgrees
<1> QED
  BY <1>1, <1>2, <1>3, PTL DEF Spec

-----------------------------------------------------------------------------
(* Sums, averages and the statistics                                       *)

\* w[x] copies of each x: what a sum counts.
Copies(T, w, b) == {p \in T \X (1 .. b) : p[2] <= w[p[1]]}

\* F is the recursive function that SumFunction takes a sum with.
StepOfSum(F, w, T) == IF T = {} THEN 0 ELSE w[CHOOSE x \in T : TRUE] + F[T \ {CHOOSE x \in T : TRUE}]
Sums(F, w, S) == F = [T \in SUBSET S |-> StepOfSum(F, w, T)]

\* There are finitely many copies.
LEMMA CopiesFinite ==
  ASSUME NEW S, IsFiniteSet(S), NEW b \in Nat, NEW w
  PROVE  IsFiniteSet(Copies(S, w, b))
<1>1. IsFiniteSet(1 .. b)
  <2>1. 1 \in Int /\ b \in Int
    OBVIOUS
  <2> QED
    BY <2>1, FS_Interval
<1>2. IsFiniteSet(S \X (1 .. b))
  BY <1>1, FS_Product
<1>3. Copies(S, w, b) \in SUBSET (S \X (1 .. b))
  BY DEF Copies
<1> QED
  BY <1>2, <1>3, FS_Subset

\* One element adds as many as it has copies.
LEMMA CopiesStep ==
  ASSUME NEW S, IsFiniteSet(S), NEW b \in Nat, NEW w \in [S -> 0 .. b], NEW x \in S
  PROVE  Cardinality(Copies(S, w, b)) = w[x] + Cardinality(Copies(S \ {x}, w, b))
<1> DEFINE A == {x} \X (1 .. w[x])
           B == Copies(S \ {x}, w, b)
<1>1. w[x] \in 0 .. b
  OBVIOUS
<1>2. Copies(S, w, b) = A \cup B
  <2>1. ASSUME NEW p \in Copies(S, w, b) PROVE p \in A \cup B
    <3>1. p \in S \X (1 .. b) /\ p[2] <= w[p[1]]
      BY DEF Copies
    <3>2. PICK y \in S, k \in 1 .. b : p = <<y, k>>
      BY <3>1
    <3>3. CASE y = x
      <4>1. k <= w[x]
        BY <3>1, <3>2, <3>3
      <4>2. k \in 1 .. w[x]
        BY <1>1, <4>1
      <4> QED
        BY <3>2, <3>3, <4>2
    <3>4. CASE y # x
      BY <3>1, <3>2, <3>4 DEF Copies
    <3> QED
      BY <3>3, <3>4
  <2>2. ASSUME NEW p \in A PROVE p \in Copies(S, w, b)
    <3>1. PICK k \in 1 .. w[x] : p = <<x, k>>
      OBVIOUS
    <3>2. k \in 1 .. b /\ k <= w[x]
      BY <1>1
    <3> QED
      BY <3>1, <3>2 DEF Copies
  <2>3. B \subseteq Copies(S, w, b)
    BY DEF Copies
  <2> QED
    BY <2>1, <2>2, <2>3
<1>3. A \cap B = {}
  BY DEF Copies
<1>4. IsFiniteSet(A) /\ Cardinality(A) = w[x]
  <2>1. 1 \in Int /\ w[x] \in Int /\ w[x] >= 0
    BY <1>1
  <2>2. IsFiniteSet(1 .. w[x]) /\ Cardinality(1 .. w[x]) = IF 1 > w[x] THEN 0 ELSE w[x] - 1 + 1
    BY <2>1, FS_Interval
  <2>3. Cardinality(1 .. w[x]) = w[x]
    BY <2>1, <2>2
  <2>4. IsFiniteSet({x}) /\ Cardinality({x}) = 1
    BY FS_Singleton
  <2>5. IsFiniteSet(A) /\ Cardinality(A) = Cardinality({x}) * Cardinality(1 .. w[x])
    BY <2>2, <2>4, FS_Product
  <2> QED
    BY <2>1, <2>3, <2>4, <2>5
<1>5. IsFiniteSet(B)
  <2>1. IsFiniteSet(S \ {x})
    BY FS_Difference
  <2> QED
    BY <2>1, CopiesFinite
<1> HIDE DEF A, B
<1>6. Cardinality(A \cup B) = Cardinality(A) + Cardinality(B) - Cardinality(A \cap B)
  BY <1>4, <1>5, FS_Union
<1>7. Cardinality(A \cap B) = 0
  BY <1>3, FS_EmptySet
<1>8. Cardinality(B) \in Nat
  BY <1>5, FS_CardinalityType
<1> QED
  BY <1>1, <1>2, <1>4, <1>6, <1>7, <1>8 DEF B

\* The recursion of a sum defines a function: the numbers of copies.
LEMMA SumsExist ==
  ASSUME NEW S, IsFiniteSet(S), NEW b \in Nat, NEW w \in [S -> 0 .. b]
  PROVE  \E F : Sums(F, w, S)
<1> DEFINE F == [T \in SUBSET S |-> Cardinality(Copies(T, w, b))]
<1>1. ASSUME NEW T \in SUBSET S PROVE F[T] = StepOfSum(F, w, T)
  <2>1. CASE T = {}
    <3>1. Copies({}, w, b) = {}
      BY DEF Copies
    <3>2. F[T] = 0
      BY <2>1, <3>1, FS_EmptySet
    <3> QED
      BY <2>1, <3>2 DEF StepOfSum
  <2>2. CASE T # {}
    <3>1. PICK x : x = CHOOSE y \in T : TRUE
      OBVIOUS
    <3>2. x \in T
      BY <2>2, <3>1
    <3>3. IsFiniteSet(T)
      BY FS_Subset
    <3>4. PICK v : v = [y \in T |-> w[y]]
      OBVIOUS
    <3>5. v \in [T -> 0 .. b]
      BY <3>4
    <3>6. Cardinality(Copies(T, v, b)) = v[x] + Cardinality(Copies(T \ {x}, v, b))
      BY <3>2, <3>3, <3>5, CopiesStep
    <3>7. Copies(T, v, b) = Copies(T, w, b) /\ Copies(T \ {x}, v, b) = Copies(T \ {x}, w, b)
      BY <3>4 DEF Copies
    <3>8. F[T] = w[x] + F[T \ {x}]
      BY <3>2, <3>4, <3>6, <3>7
    <3> HIDE DEF F
    <3> QED
      BY <2>2, <3>1, <3>8 DEF StepOfSum
  <2> QED
    BY <2>1, <2>2
<1>2. F = [T \in SUBSET S |-> F[T]]
  OBVIOUS
<1> HIDE DEF F
<1>3. Sums(F, w, S)
  BY <1>1, <1>2 DEF Sums
<1> QED
  BY <1>3

\* Whatever function satisfies the recursion counts the copies: the smallest set with another
\* sum would have one smaller.
LEMMA SumsCount ==
  ASSUME NEW S, IsFiniteSet(S), NEW b \in Nat, NEW w \in [S -> 0 .. b], NEW F, Sums(F, w, S)
  PROVE  F[S] = Cardinality(Copies(S, w, b))
<1> DEFINE Good(T) == F[T] = Cardinality(Copies(T, w, b))
           bad == {T \in SUBSET S : ~Good(T)}
           sizes == {Cardinality(T) : T \in bad}
<1>1. ASSUME NEW T \in SUBSET S PROVE IsFiniteSet(T) /\ Cardinality(T) \in Nat
  BY FS_Subset, FS_CardinalityType
<1>2. ASSUME bad # {} PROVE FALSE
  <2>1. sizes \in SUBSET Nat /\ sizes # {}
    BY <1>1, <1>2
  <2>2. Min(sizes) \in sizes /\ \A n \in sizes : Min(sizes) <= n
    BY <2>1, MinIn
  <2>3. PICK T \in bad : Cardinality(T) = Min(sizes)
    BY <2>2
  <2>4. F[T] = StepOfSum(F, w, T)
    BY Zenon DEF Sums
  <2>5. CASE T = {}
    <3>1. Copies({}, w, b) = {}
      BY DEF Copies
    <3>2. Cardinality(Copies(T, w, b)) = 0
      BY <2>5, <3>1, FS_EmptySet
    <3>3. F[T] = 0
      BY <2>4, <2>5 DEF StepOfSum
    <3> QED
      BY <3>2, <3>3
  <2>6. CASE T # {}
    <3>1. PICK x : x = CHOOSE y \in T : TRUE
      OBVIOUS
    <3>2. x \in T
      BY <2>6, <3>1
    <3>3. F[T] = w[x] + F[T \ {x}]
      BY <2>4, <2>6, <3>1 DEF StepOfSum
    <3>4. Cardinality(T \ {x}) = Cardinality(T) - 1 /\ Cardinality(T) \in Nat
      BY <1>1, <3>2, FS_RemoveElement
    <3>5. T \ {x} \in SUBSET S
      OBVIOUS
    <3>6. Good(T \ {x})
      <4>1. SUFFICES ASSUME T \ {x} \in bad PROVE FALSE
        BY <3>5
      <4>2. Cardinality(T \ {x}) \in sizes
        BY <4>1
      <4>3. Cardinality(T) <= Cardinality(T \ {x})
        BY <2>2, <2>3, <4>2
      <4> QED
        BY <3>4, <4>3
    <3>7. PICK v : v = [y \in T |-> w[y]]
      OBVIOUS
    <3>8. v \in [T -> 0 .. b]
      BY <3>7
    <3>9. IsFiniteSet(T)
      BY <1>1
    <3>10. Cardinality(Copies(T, v, b)) = v[x] + Cardinality(Copies(T \ {x}, v, b))
      BY <3>2, <3>8, <3>9, CopiesStep
    <3>11. Copies(T, v, b) = Copies(T, w, b) /\ Copies(T \ {x}, v, b) = Copies(T \ {x}, w, b)
      BY <3>7 DEF Copies
    <3> QED
      BY <3>2, <3>3, <3>6, <3>7, <3>10, <3>11
  <2> QED
    BY <2>5, <2>6
<1> QED
  BY <1>2

\* A sum of numbers up to b is the number of the copies.
LEMMA SumCounts ==
  ASSUME NEW S, IsFiniteSet(S), NEW b \in Nat, NEW w \in [S -> 0 .. b]
  PROVE  SumFunction(w) = Cardinality(Copies(S, w, b))
<1> DEFINE G == CHOOSE H : H = [T \in SUBSET S |-> IF T = {} THEN 0
                                ELSE w[CHOOSE x \in T : TRUE] + H[T \ {CHOOSE x \in T : TRUE}]]
<1>1. G = CHOOSE H : Sums(H, w, S)
  BY Zenon DEF Sums, StepOfSum
<1>2. \E F : Sums(F, w, S)
  BY SumsExist
<1>3. SumFunction(w) = G[S]
  <2>1. DOMAIN w = S
    OBVIOUS
  <2> QED
    BY <2>1, Zenon DEF SumFunction, SumFunctionOnSet, FoldFunctionOnSet, MapThenFoldSet
<1> HIDE DEF G
<1>4. Sums(G, w, S)
  BY <1>1, <1>2, Zenon
<1>5. G[S] = Cardinality(Copies(S, w, b))
  BY <1>4, SumsCount
<1> QED
  BY <1>3, <1>5

\* A product is of pairs.
LEMMA PairsIn ==
  ASSUME NEW A, NEW B, NEW C, \A x \in A, y \in B : <<x, y>> \in C
  PROVE  A \X B \in SUBSET C
OBVIOUS

\* One of the copies.
LEMMA CopyOf ==
  ASSUME NEW T, NEW w, NEW b \in Nat, NEW x \in T, NEW k \in 1 .. b, k <= w[x]
  PROVE  <<x, k>> \in Copies(T, w, b)
BY DEF Copies

\* A greater number at every place, a greater sum.
LEMMA SumMonotone ==
  ASSUME NEW S, IsFiniteSet(S), NEW b \in Nat, NEW v \in [S -> 0 .. b], NEW w \in [S -> 0 .. b],
         \A x \in S : v[x] <= w[x]
  PROVE  SumFunction(v) <= SumFunction(w)
<1>1. SumFunction(v) = Cardinality(Copies(S, v, b)) /\ SumFunction(w) = Cardinality(Copies(S, w, b))
  BY SumCounts
<1>2. Copies(S, v, b) \in SUBSET Copies(S, w, b)
  <2>1. ASSUME NEW p \in Copies(S, v, b) PROVE p \in Copies(S, w, b)
    <3>1. p \in S \X (1 .. b) /\ p[2] <= v[p[1]]
      BY DEF Copies
    <3>2. PICK x \in S, k \in 1 .. b : p = <<x, k>>
      BY <3>1
    <3>3. k <= v[x] /\ v[x] <= w[x] /\ v[x] \in 0 .. b /\ w[x] \in 0 .. b
      BY <3>1, <3>2
    <3>4. k <= w[x]
      BY <3>3
    <3> QED
      BY <3>1, <3>2, <3>4 DEF Copies
  <2> QED
    BY <2>1
<1>3. IsFiniteSet(Copies(S, w, b))
  BY CopiesFinite
<1> QED
  BY <1>1, <1>2, <1>3, FS_Subset

\* Multiplying keeps the order.
LEMMA TimesOrder ==
  ASSUME NEW c \in Nat, NEW a \in Int, NEW b \in Int, a <= b
  PROVE  c * a <= c * b
OBVIOUS

\* A sum of c numbers from lo to hi, doubled and divided by c, is from 2 lo to 2 hi.
LEMMA QuotientBetween ==
  ASSUME NEW c \in Nat \ {0}, NEW lo \in Nat, NEW hi \in Nat, NEW s \in Nat, c * lo <= s, s <= c * hi
  PROVE  (2 * s) \div c \in Nat /\ 2 * lo <= (2 * s) \div c /\ (2 * s) \div c <= 2 * hi
<1>1. PICK q \in Int : q = (2 * s) \div c
  OBVIOUS
<1>2. c * q <= 2 * s /\ 2 * s < c * q + c
  BY <1>1
<1>3. 2 * lo <= q
  <2>1. SUFFICES ASSUME q + 1 <= 2 * lo PROVE FALSE
    BY <1>1
  <2>2. c * (q + 1) <= c * (2 * lo)
    BY <2>1, TimesOrder
  <2>3. c * (q + 1) = c * q + c /\ c * (2 * lo) = 2 * (c * lo)
    OBVIOUS
  <2>4. c * q \in Int /\ c * lo \in Int
    OBVIOUS
  <2> QED
    BY <1>2, <2>2, <2>3, <2>4
<1>4. q <= 2 * hi
  <2>1. SUFFICES ASSUME 2 * hi + 1 <= q PROVE FALSE
    BY <1>1
  <2>2. c * (2 * hi + 1) <= c * q
    BY <2>1, TimesOrder
  <2>3. c * (2 * hi + 1) = 2 * (c * hi) + c
    OBVIOUS
  <2>4. c * q \in Int /\ c * hi \in Int
    OBVIOUS
  <2> QED
    BY <1>2, <2>2, <2>3, <2>4
<1> QED
  BY <1>1, <1>3, <1>4

\* The mean of some ranks is among them.
LEMMA AverageBetween ==
  ASSUME NEW lo \in Nat, NEW hi \in Nat, NEW ranks \in SUBSET (lo .. hi), ranks # {}
  PROVE  AverageRank(ranks) \in Nat /\ 2 * lo <= AverageRank(ranks) /\ AverageRank(ranks) <= 2 * hi
<1>1. IsFiniteSet(ranks)
  <2>1. lo \in Int /\ hi \in Int
    OBVIOUS
  <2>2. IsFiniteSet(lo .. hi)
    BY <2>1, FS_Interval
  <2> QED
    BY <2>2, FS_Subset
<1>2. PICK w : w = [r \in ranks |-> r]
  OBVIOUS
<1>3. w \in [ranks -> 0 .. hi]
  BY <1>2
<1>4. PICK s : s = SumFunction(w)
  OBVIOUS
<1>5. PICK c : c = Cardinality(ranks)
  OBVIOUS
<1>6. c \in Nat \ {0}
  BY <1>1, <1>5, FS_CardinalityType, FS_EmptySet
<1>7. s = Cardinality(Copies(ranks, w, hi)) /\ IsFiniteSet(Copies(ranks, w, hi)) /\ s \in Nat
  <2>1. s = Cardinality(Copies(ranks, w, hi))
    BY <1>1, <1>3, <1>4, SumCounts
  <2>2. IsFiniteSet(Copies(ranks, w, hi))
    BY <1>1, CopiesFinite
  <2> QED
    BY <2>1, <2>2, FS_CardinalityType
<1>8. ASSUME NEW k \in Nat
      PROVE  IsFiniteSet(ranks \X (1 .. k)) /\ Cardinality(ranks \X (1 .. k)) = c * k
  <2>1. 1 \in Int /\ k \in Int
    OBVIOUS
  <2>2. IsFiniteSet(1 .. k) /\ Cardinality(1 .. k) = IF 1 > k THEN 0 ELSE k - 1 + 1
    BY <2>1, FS_Interval
  <2>3. Cardinality(1 .. k) = k
    BY <2>2
  <2> QED
    BY <1>1, <1>5, <2>2, <2>3, FS_Product
<1>9. c * lo <= s
  <2>1. ranks \X (1 .. lo) \in SUBSET Copies(ranks, w, hi)
    <3>1. ASSUME NEW r \in ranks, NEW k \in 1 .. lo PROVE <<r, k>> \in Copies(ranks, w, hi)
      <4>1. r \in lo .. hi /\ w[r] = r
        BY <1>2
      <4>2. k \in 1 .. hi /\ k <= w[r]
        BY <4>1
      <4> QED
        BY <4>2, CopyOf
    <3>2. PICK L : L = 1 .. lo
      OBVIOUS
    <3>3. PICK C : C = Copies(ranks, w, hi)
      OBVIOUS
    <3>4. \A r \in ranks, k \in L : <<r, k>> \in C
      BY <3>1, <3>2, <3>3
    <3>5. ranks \X L \in SUBSET C
      BY <3>4, PairsIn
    <3> QED
      BY <3>2, <3>3, <3>5
  <2>2. Cardinality(ranks \X (1 .. lo)) <= Cardinality(Copies(ranks, w, hi))
    BY <1>7, <2>1, FS_Subset
  <2>3. Cardinality(ranks \X (1 .. lo)) = c * lo
    BY <1>8
  <2> QED
    BY <1>7, <2>2, <2>3, Zenon
<1>10. s <= c * hi
  <2>1. Copies(ranks, w, hi) \in SUBSET (ranks \X (1 .. hi))
    BY DEF Copies
  <2>2. IsFiniteSet(ranks \X (1 .. hi)) /\ Cardinality(ranks \X (1 .. hi)) = c * hi
    BY <1>8
  <2>3. Cardinality(Copies(ranks, w, hi)) <= Cardinality(ranks \X (1 .. hi))
    BY <2>1, <2>2, FS_Subset
  <2> QED
    BY <1>7, <2>2, <2>3, Zenon
<1>11. AverageRank(ranks) = (2 * s) \div c
  BY <1>2, <1>4, <1>5, Zenon DEF AverageRank
<1> QED
  BY <1>6, <1>7, <1>9, <1>10, <1>11, QuotientBetween

\* A list of rankings gives the bug a rank.
LEMMA RerankedRank ==
  ASSUME NEW t, NEW n \in Nat, DOMAIN t = 1 .. n, NEW bug, NEW window
  PROVE  find_reranked_bug_rank(bug, t, window) \in Nat
<1> DEFINE target == line_set_with_window(bug.lines, window)
           hits == {i \in DOMAIN t : /\ t[i].module = bug.module /\ t[i].scope = bug.scope
                                     /\ t[i].lines \cap target # {}}
           tied == {j \in DOMAIN t : t[j].final = t[Min(hits)].final}
<1>1. find_reranked_bug_rank(bug, t, window) = IF hits = {} THEN Over ELSE AverageRank(tied)
  BY Zenon DEF find_reranked_bug_rank
<1>2. CASE hits = {}
  BY <1>1, <1>2 DEF Over
<1>3. CASE hits # {}
  <2>1. hits \in SUBSET Nat
    OBVIOUS
  <2>2. Min(hits) \in hits
    BY <1>3, <2>1, MinIn
  <2>3. Min(hits) \in tied
    BY <2>2
  <2>4. tied \in SUBSET (0 .. n)
    OBVIOUS
  <2> HIDE DEF hits, tied
  <2>5. AverageRank(tied) \in Nat
    BY <2>3, <2>4, AverageBetween
  <2> QED
    BY <1>1, <1>3, <2>5
<1> QED
  BY <1>2, <1>3

\* r is in the order of suspiciousness.
Descending(r) == \A i, j \in DOMAIN r : i < j => r[i].sus >= r[j].sus

\* The rank of the localisation for a hit: more than the items that score better, no more than
\* those and the ones that tie.
SoundFor(k, r, hit) ==
  LET better == Cardinality({i \in DOMAIN r : r[i].sus > r[hit].sus})
      as_good == Cardinality({i \in DOMAIN r : r[i].sus >= r[hit].sus})
  IN  k # Over => /\ 2 * (better + 1) <= k /\ k <= 2 * as_good
                  /\ (as_good = Len(r) => k = 2 * Len(r))

\* The first and the last place an item may have: after the better ones, and with those as good.
FirstPlace(r, n, i) == Cardinality({j \in 1 .. n : r[j].sus > r[i].sus}) + 1
LastPlace(r, n, i) == Cardinality({j \in 1 .. n : r[j].sus >= r[i].sus})

\* The places of the ties lie between them, and reach the end only with the last item's.
IsPlaced(r, n, i, lo, hi) ==
  /\ lo \in Nat /\ hi \in Nat /\ hi <= n
  /\ \A j \in 1 .. n : r[j].sus = r[i].sus => lo <= j /\ j <= hi
  /\ hi = n => r[n].sus = r[i].sus

\* The ties of an item are places between the better items and those as good.
LEMMA TieGroup ==
  ASSUME NEW r, IsRanking(r), Descending(r), NEW n \in Nat, n = Len(r), NEW i \in 1 .. n,
         NEW lo, lo = FirstPlace(r, n, i), NEW hi, hi = LastPlace(r, n, i)
  PROVE  IsPlaced(r, n, i, lo, hi)
<1> DEFINE B == {j \in 1 .. n : r[j].sus > r[i].sus}
           A == {j \in 1 .. n : r[j].sus >= r[i].sus}
<1>1. DOMAIN r = 1 .. n /\ \A j \in 1 .. n : r[j].sus \in Int
  BY DEF IsRanking
<1>2. \A j, k \in 1 .. n : j < k => r[j].sus >= r[k].sus
  BY <1>1 DEF Descending
<1>3. ASSUME NEW m \in Int, 0 <= m PROVE IsFiniteSet(1 .. m) /\ Cardinality(1 .. m) = m
  <2>1. 1 \in Int /\ m \in Int
    OBVIOUS
  <2>2. IsFiniteSet(1 .. m) /\ Cardinality(1 .. m) = IF 1 > m THEN 0 ELSE m - 1 + 1
    BY <2>1, FS_Interval
  <2> QED
    BY <1>3, <2>2
<1>4. IsFiniteSet(1 .. n) /\ Cardinality(1 .. n) = n
  BY <1>3
<1>5. A \in SUBSET (1 .. n) /\ B \in SUBSET (1 .. n)
  OBVIOUS
<1>6. IsFiniteSet(A) /\ IsFiniteSet(B) /\ Cardinality(A) <= n /\ (Cardinality(A) = n => A = 1 .. n)
  BY <1>4, <1>5, FS_Subset
<1>7. Cardinality(A) \in Nat /\ Cardinality(B) \in Nat
  BY <1>6, FS_CardinalityType
<1>8. ASSUME NEW j \in 1 .. n, r[j].sus = r[i].sus PROVE lo <= j /\ j <= hi
  <2>1. B \in SUBSET (1 .. j - 1)
    <3>1. ASSUME NEW k \in B PROVE k < j
      <4>1. k \in 1 .. n /\ r[k].sus > r[j].sus
        BY <1>8
      <4>2. ~(j < k) /\ j # k
        BY <1>1, <1>2, <4>1
      <4> QED
        BY <4>1, <4>2
    <3> QED
      BY <3>1
  <2>2. 1 .. j \in SUBSET A
    <3>1. ASSUME NEW k \in 1 .. j PROVE r[k].sus >= r[i].sus
      <4>1. k \in 1 .. n /\ (k < j \/ k = j)
        OBVIOUS
      <4> QED
        BY <1>1, <1>2, <1>8, <4>1
    <3> QED
      BY <3>1
  <2>3. IsFiniteSet(1 .. j - 1) /\ Cardinality(1 .. j - 1) = j - 1
    BY <1>3
  <2>4. Cardinality(1 .. j) = j
    BY <1>3
  <2> HIDE DEF A, B
  <2>5. Cardinality(B) <= Cardinality(1 .. j - 1)
    BY <2>1, <2>3, FS_Subset
  <2>6. Cardinality(1 .. j) <= Cardinality(A)
    BY <1>6, <2>2, FS_Subset
  <2>7. lo = Cardinality(B) + 1 /\ hi = Cardinality(A)
    BY DEF A, B, FirstPlace, LastPlace
  <2> QED
    BY <1>7, <2>3, <2>4, <2>5, <2>6, <2>7
<1>9. ASSUME hi = n PROVE r[n].sus = r[i].sus
  <2>1. r[n].sus >= r[i].sus
    BY <1>6, <1>9 DEF LastPlace
  <2>2. i = n \/ r[i].sus >= r[n].sus
    BY <1>2
  <2> QED
    BY <1>1, <2>1, <2>2
<1> HIDE DEF A, B
<1>10. lo = Cardinality(B) + 1 /\ hi = Cardinality(A)
  BY DEF A, B, FirstPlace, LastPlace
<1>11. lo \in Nat /\ hi \in Nat /\ hi <= n
  BY <1>6, <1>7, <1>10
<1> QED
  BY <1>8, <1>9, <1>11 DEF IsPlaced

\* The localisation gives the bug a rank, and a sound one (find_bug_rank).
LEMMA BugRank ==
  ASSUME NEW r, IsRanking(r), Descending(r), NEW bug, NEW block_map, NEW window,
         NEW hits, hits = {i \in DOMAIN r : is_bug_block(r[i], block_map, bug,
                                                         line_set_with_window(bug.lines, window))}
  PROVE  /\ find_bug_rank(bug, r, block_map, window) \in Nat
         /\ SoundFor(find_bug_rank(bug, r, block_map, window), r, Min(hits))
<1> DEFINE k == find_bug_rank(bug, r, block_map, window)
<1>1. PICK n \in Nat : n = Len(r)
  BY DEF IsRanking
<1>2. DOMAIN r = 1 .. n
  BY <1>1 DEF IsRanking
<1>3. PICK i : i = Min(hits)
  OBVIOUS
<1>4. k = IF hits = {} \/ tie_group(r, 1) = 1 .. n THEN Over
          ELSE IF r[i].sus = r[n].sus THEN IF i # n THEN Over ELSE 2 * n
          ELSE AverageRank(tie_group(r, i))
  BY <1>1, <1>2, <1>3, Zenon DEF find_bug_rank
<1> HIDE DEF k
<1>5. CASE k = Over
  BY <1>5 DEF Over, SoundFor, k
<1>6. CASE k # Over
  <2>1. hits # {} /\ hits \in SUBSET Nat
    BY <1>2, <1>4, <1>6
  <2>2. i \in 1 .. n
    BY <1>2, <1>3, <2>1, MinIn
  <2>3. PICK lo : lo = FirstPlace(r, n, i)
    OBVIOUS
  <2>4. PICK hi : hi = LastPlace(r, n, i)
    OBVIOUS
  <2>5. /\ lo \in Nat /\ hi \in Nat /\ hi <= n
        /\ \A j \in 1 .. n : r[j].sus = r[i].sus => lo <= j /\ j <= hi
        /\ hi = n => r[n].sus = r[i].sus
    <3>1. IsPlaced(r, n, i, FirstPlace(r, n, i), LastPlace(r, n, i))
      BY <1>1, <2>2, TieGroup, Zenon
    <3> QED
      BY <2>3, <2>4, <3>1 DEF IsPlaced
  <2>6. k \in Nat /\ 2 * lo <= k /\ k <= 2 * hi /\ (hi = n => k = 2 * n)
    <3>1. CASE r[i].sus = r[n].sus
      <4>1. i = n /\ k = 2 * n
        BY <1>4, <1>6, <2>1, <3>1
      <4>2. lo <= n /\ n <= hi
        BY <2>2, <2>5, <4>1
      <4> QED
        BY <2>5, <4>1, <4>2
    <3>2. CASE r[i].sus # r[n].sus
      <4>1. k = AverageRank(tie_group(r, i))
        BY <1>4, <1>6, <3>2
      <4>2. i \in tie_group(r, i)
        BY <1>2, <2>2 DEF tie_group
      <4>3. tie_group(r, i) \in SUBSET (lo .. hi)
        <5>1. ASSUME NEW j \in tie_group(r, i) PROVE j \in 1 .. n /\ r[j].sus = r[i].sus
          <6>1. j \in 1 .. n /\ \A m \in (i .. j) \cup (j .. i) : r[m].sus = r[i].sus
            BY <1>2 DEF tie_group
          <6>2. j \in (i .. j) \cup (j .. i)
            BY <2>2, <6>1
          <6> QED
            BY <6>1, <6>2
        <5>2. \A j \in tie_group(r, i) : j \in Int /\ lo <= j /\ j <= hi
          BY <2>5, <5>1
        <5> QED
          BY <2>5, <5>2
      <4>4. k \in Nat /\ 2 * lo <= k /\ k <= 2 * hi
        BY <2>5, <4>1, <4>2, <4>3, AverageBetween
      <4> QED
        BY <2>5, <3>2, <4>4
    <3> QED
      BY <3>1, <3>2
  <2>7. SoundFor(k, r, i)
    BY <1>1, <1>2, <2>3, <2>4, <2>6 DEF SoundFor, FirstPlace, LastPlace
  <2> QED
    BY <1>3, <2>6, <2>7 DEF k
<1> QED
  BY <1>5, <1>6

\* A row of a summary: ranks, and none of the model where there is no result.
IsRow(row) == row.top \in Nat /\ row.sbfl_top \in Nat /\ (row.status # "OK" => row.top = Over)

\* S has four parts.
Parts(S, A, B, C, D) ==
  /\ S = A \cup B \cup C \cup D
  /\ A \cap B = {} /\ A \cap C = {} /\ A \cap D = {} /\ B \cap C = {} /\ B \cap D = {} /\ C \cap D = {}

\* They are together as many as it is.
LEMMA FourParts ==
  ASSUME NEW S, IsFiniteSet(S), NEW A, NEW B, NEW C, NEW D, Parts(S, A, B, C, D)
  PROVE  Cardinality(A) + Cardinality(B) + Cardinality(C) + Cardinality(D) = Cardinality(S)
<1> USE DEF Parts
<1>1. IsFiniteSet(A) /\ IsFiniteSet(B) /\ IsFiniteSet(C) /\ IsFiniteSet(D)
  BY FS_Subset
<1>2. ASSUME NEW T, NEW U, IsFiniteSet(T), IsFiniteSet(U), T \cap U = {}
      PROVE  IsFiniteSet(T \cup U) /\ Cardinality(T \cup U) = Cardinality(T) + Cardinality(U)
             /\ Cardinality(T) \in Nat /\ Cardinality(U) \in Nat
  <2>1. Cardinality(T \cup U) = Cardinality(T) + Cardinality(U) - Cardinality(T \cap U) /\ IsFiniteSet(T \cup U)
    BY <1>2, FS_Union
  <2>2. Cardinality(T \cap U) = 0
    BY <1>2, FS_EmptySet
  <2>3. Cardinality(T) \in Nat /\ Cardinality(U) \in Nat
    BY <1>2, FS_CardinalityType
  <2> QED
    BY <2>1, <2>2, <2>3
<1>3. IsFiniteSet(A \cup B) /\ Cardinality(A \cup B) = Cardinality(A) + Cardinality(B)
  BY <1>1, <1>2
<1>4. IsFiniteSet((A \cup B) \cup C) /\ Cardinality((A \cup B) \cup C) = Cardinality(A \cup B) + Cardinality(C)
  <2>1. (A \cup B) \cap C = {}
    OBVIOUS
  <2> QED
    BY <1>1, <1>2, <1>3, <2>1
<1>5. Cardinality(((A \cup B) \cup C) \cup D) = Cardinality((A \cup B) \cup C) + Cardinality(D)
  <2>1. ((A \cup B) \cup C) \cap D = {}
    OBVIOUS
  <2> QED
    BY <1>1, <1>2, <1>4, <2>1
<1>6. S = ((A \cup B) \cup C) \cup D
  OBVIOUS
<1> QED
  BY <1>3, <1>4, <1>5, <1>6, Zenon

\* The summary of any rows adds up, and its parts agree with one another.
StatsSound(t) ==
  LET llm == compute_llm_stats(t)
      sbfl == compute_sbfl_stats(t)
      lost == Count(t, LAMBDA r : r.top = Over /\ r.sbfl_top = Over)
  IN  /\ llm.improved + llm.unchanged + llm.worsened + lost = llm.ok
      /\ llm.worsened = 0 => llm.mar10 <= sbfl.mar10 /\ llm.top1 >= sbfl.top1
      /\ llm.improved = 0 => llm.mar10 >= sbfl.mar10 /\ llm.top1 <= sbfl.top1
      /\ \A d \in DOMAIN t : format_rank_delta(t[d]) > 0 => llm.improved > 0

LEMMA StatsFacts ==
  ASSUME NEW t, IsFiniteSet(DOMAIN t), \A d \in DOMAIN t : IsRow(t[d])
  PROVE  StatsSound(t)
<1> DEFINE Ok == {i \in DOMAIN t : t[i].status = "OK"}
           Improved == {i \in Ok : t[i].top # 0 /\ (t[i].sbfl_top = 0 \/ t[i].top < t[i].sbfl_top)}
           Unchanged == {i \in Ok : t[i].top # 0 /\ t[i].top = t[i].sbfl_top}
           Worsened == {i \in Ok : t[i].sbfl_top # 0 /\ (t[i].top = 0 \/ t[i].top > t[i].sbfl_top)}
           Lost == {i \in Ok : t[i].top = 0 /\ t[i].sbfl_top = 0}
           First1 == {i \in Ok : t[i].top # 0 /\ t[i].top <= 2}
           SbflFirst1 == {i \in Ok : t[i].sbfl_top # 0 /\ t[i].sbfl_top <= 2}
           v == [i \in Ok |-> AtMost11(t[i].top)]
           w == [i \in Ok |-> AtMost11(t[i].sbfl_top)]
           llm == compute_llm_stats(t)
           sbfl == compute_sbfl_stats(t)
<1>1. /\ llm.ok = Cardinality(Ok) /\ llm.improved = Cardinality(Improved)
      /\ llm.unchanged = Cardinality(Unchanged) /\ llm.worsened = Cardinality(Worsened)
      /\ llm.top1 = Cardinality(First1) /\ sbfl.top1 = Cardinality(SbflFirst1)
      /\ Count(t, LAMBDA r : r.top = Over /\ r.sbfl_top = Over) = Cardinality(Lost)
  <2>1. Ok = {i \in DOMAIN t : t[i].status = "OK" /\ TRUE}
    OBVIOUS
  <2>2. Improved = {i \in DOMAIN t : t[i].status = "OK" /\ t[i].top # 0
                                     /\ (t[i].sbfl_top = 0 \/ t[i].top < t[i].sbfl_top)}
    OBVIOUS
  <2>3. Unchanged = {i \in DOMAIN t : t[i].status = "OK" /\ t[i].top # 0 /\ t[i].top = t[i].sbfl_top}
    OBVIOUS
  <2>4. Worsened = {i \in DOMAIN t : t[i].status = "OK" /\ t[i].sbfl_top # 0
                                     /\ (t[i].top = 0 \/ t[i].top > t[i].sbfl_top)}
    OBVIOUS
  <2>5. Lost = {i \in DOMAIN t : t[i].status = "OK" /\ t[i].top = 0 /\ t[i].sbfl_top = 0}
    OBVIOUS
  <2>6. First1 = {i \in DOMAIN t : t[i].status = "OK" /\ t[i].top # 0 /\ t[i].top <= 2}
    OBVIOUS
  <2>7. SbflFirst1 = {i \in DOMAIN t : t[i].status = "OK" /\ t[i].sbfl_top # 0 /\ t[i].sbfl_top <= 2}
    OBVIOUS
  <2> HIDE DEF Ok, Improved, Unchanged, Worsened, Lost, First1, SbflFirst1
  <2>8. llm.ok = Cardinality(Ok)
    BY <2>1 DEF compute_llm_stats, Count
  <2>9. llm.improved = Cardinality(Improved)
    BY <2>2 DEF compute_llm_stats, Count, Over
  <2>10. llm.unchanged = Cardinality(Unchanged)
    BY <2>3 DEF compute_llm_stats, Count, Over
  <2>11. llm.worsened = Cardinality(Worsened)
    BY <2>4 DEF compute_llm_stats, Count, Over
  <2>12. llm.top1 = Cardinality(First1)
    BY <2>6 DEF compute_llm_stats, Count, Over
  <2>13. sbfl.top1 = Cardinality(SbflFirst1)
    BY <2>7 DEF compute_sbfl_stats, Count, Over
  <2>14. Count(t, LAMBDA r : r.top = Over /\ r.sbfl_top = Over) = Cardinality(Lost)
    BY <2>5 DEF Count, Over
  <2> QED
    BY <2>8, <2>9, <2>10, <2>11, <2>12, <2>13, <2>14, Zenon
<1>2. llm.mar10 = SumFunction(v) /\ sbfl.mar10 = SumFunction(w)
  BY DEF compute_llm_stats, compute_sbfl_stats
<1> HIDE DEF llm, sbfl
<1>3. IsFiniteSet(Ok)
  BY FS_Subset
<1>4. ASSUME NEW i \in Ok PROVE t[i].top \in Nat /\ t[i].sbfl_top \in Nat
  BY DEF IsRow
<1>5. Cardinality(Improved) + Cardinality(Unchanged) + Cardinality(Worsened) + Cardinality(Lost) = Cardinality(Ok)
  <2>1. Ok = Improved \cup Unchanged \cup Worsened \cup Lost
    <3>1. ASSUME NEW i \in Ok PROVE i \in Improved \/ i \in Unchanged \/ i \in Worsened \/ i \in Lost
      <4>1. t[i].top \in Nat /\ t[i].sbfl_top \in Nat
        BY <1>4
      <4> QED
        BY <4>1
    <3> QED
      BY <3>1
  <2>2. /\ Improved \cap Unchanged = {} /\ Improved \cap Worsened = {} /\ Improved \cap Lost = {}
        /\ Unchanged \cap Worsened = {} /\ Unchanged \cap Lost = {} /\ Worsened \cap Lost = {}
    BY <1>4
  <2> HIDE DEF Ok, Improved, Unchanged, Worsened, Lost
  <2>3. Parts(Ok, Improved, Unchanged, Worsened, Lost)
    BY <2>1, <2>2, Zenon DEF Parts
  <2> QED
    BY <1>3, <2>3, FourParts
<1>6. v \in [Ok -> 0 .. 22] /\ w \in [Ok -> 0 .. 22]
  <2>1. ASSUME NEW k \in Nat PROVE AtMost11(k) \in 0 .. 22
    BY DEF AtMost11, Over
  <2> QED
    BY <1>4, <2>1
<1>7. /\ IsFiniteSet(First1) /\ IsFiniteSet(SbflFirst1) /\ IsFiniteSet(Improved) /\ IsFiniteSet(Worsened)
      /\ Cardinality(First1) \in Nat /\ Cardinality(SbflFirst1) \in Nat /\ Cardinality(Improved) \in Nat
  <2>1. /\ First1 \in SUBSET Ok /\ SbflFirst1 \in SUBSET Ok
        /\ Improved \in SUBSET Ok /\ Worsened \in SUBSET Ok
    OBVIOUS
  <2> HIDE DEF Ok, Improved, Worsened, First1, SbflFirst1
  <2> QED
    BY <1>3, <2>1, FS_Subset, FS_CardinalityType
<1>8. ASSUME NEW a \in Nat, NEW b \in Nat, a = b \/ (a # 0 /\ (b = 0 \/ a <= b))
      PROVE  AtMost11(a) <= AtMost11(b)
  BY <1>8 DEF AtMost11, Over
<1>9. ASSUME llm.worsened = 0
      PROVE  llm.mar10 <= sbfl.mar10 /\ llm.top1 >= sbfl.top1
  <2>1. Worsened = {}
    BY <1>1, <1>7, <1>9, FS_EmptySet
  <2>2. ASSUME NEW i \in Ok
        PROVE  t[i].sbfl_top = 0 \/ (t[i].top # 0 /\ t[i].top <= t[i].sbfl_top)
    BY <1>4, <2>1
  <2>3. \A i \in Ok : v[i] <= w[i]
    <3>1. ASSUME NEW i \in Ok PROVE AtMost11(t[i].top) <= AtMost11(t[i].sbfl_top)
      <4>1. PICK a \in Nat, b \in Nat : a = t[i].top /\ b = t[i].sbfl_top
        BY <1>4
      <4>2. b = 0 \/ (a # 0 /\ a <= b)
        BY <2>2, <4>1
      <4>3. AtMost11(a) <= AtMost11(b)
        BY <4>2 DEF AtMost11, Over
      <4> QED
        BY <4>1, <4>3
    <3> QED
      BY <3>1
  <2>4. SbflFirst1 \in SUBSET First1
    BY <1>4, <2>2
  <2> HIDE DEF Ok, v, w, First1, SbflFirst1
  <2>5. SumFunction(v) <= SumFunction(w)
    BY <1>3, <1>6, <2>3, SumMonotone
  <2>6. Cardinality(SbflFirst1) <= Cardinality(First1)
    BY <1>7, <2>4, FS_Subset
  <2> QED
    BY <1>1, <1>2, <1>7, <2>5, <2>6
<1>10. ASSUME llm.improved = 0
      PROVE  llm.mar10 >= sbfl.mar10 /\ llm.top1 <= sbfl.top1
  <2>1. Improved = {}
    BY <1>1, <1>7, <1>10, FS_EmptySet
  <2>2. ASSUME NEW i \in Ok
        PROVE  t[i].top = 0 \/ (t[i].sbfl_top # 0 /\ t[i].sbfl_top <= t[i].top)
    BY <1>4, <2>1
  <2>3. \A i \in Ok : w[i] <= v[i]
    <3>1. ASSUME NEW i \in Ok PROVE AtMost11(t[i].sbfl_top) <= AtMost11(t[i].top)
      <4>1. PICK a \in Nat, b \in Nat : a = t[i].top /\ b = t[i].sbfl_top
        BY <1>4
      <4>2. a = 0 \/ (b # 0 /\ b <= a)
        BY <2>2, <4>1
      <4>3. AtMost11(b) <= AtMost11(a)
        BY <4>2 DEF AtMost11, Over
      <4> QED
        BY <4>1, <4>3
    <3> QED
      BY <3>1
  <2>4. First1 \in SUBSET SbflFirst1
    BY <1>4, <2>2
  <2> HIDE DEF Ok, v, w, First1, SbflFirst1
  <2>5. SumFunction(w) <= SumFunction(v)
    BY <1>3, <1>6, <2>3, SumMonotone
  <2>6. Cardinality(First1) <= Cardinality(SbflFirst1)
    BY <1>7, <2>4, FS_Subset
  <2>7. SumFunction(v) = Cardinality(Copies(Ok, v, 22)) /\ SumFunction(w) = Cardinality(Copies(Ok, w, 22))
    BY <1>3, <1>6, SumCounts
  <2>8. SumFunction(v) \in Nat /\ SumFunction(w) \in Nat
    BY <1>3, <2>7, CopiesFinite, FS_CardinalityType
  <2> QED
    BY <1>1, <1>2, <1>7, <2>5, <2>6, <2>8
<1>11. ASSUME NEW d \in DOMAIN t, format_rank_delta(t[d]) > 0
      PROVE  llm.improved > 0
  <2>1. t[d].top \in Nat /\ t[d].sbfl_top \in Nat /\ (t[d].status # "OK" => t[d].top = 0)
    BY DEF IsRow, Over
  <2>2. t[d].top # 0 /\ t[d].top < t[d].sbfl_top
    BY <1>11, <2>1 DEF format_rank_delta, Over
  <2>3. d \in Improved
    BY <2>1, <2>2
  <2> HIDE DEF Improved
  <2> QED
    BY <1>1, <1>7, <2>3, FS_EmptySet
<1>12. llm.improved + llm.unchanged + llm.worsened + Count(t, LAMBDA r : r.top = Over /\ r.sbfl_top = Over) = llm.ok
  BY <1>1, <1>5, Zenon
<1> QED
  BY <1>9, <1>10, <1>11, <1>12, Zenon DEF StatsSound, llm, sbfl

\* The ranking of the localisation is in order.
LEMMA CaseDescends ==
  ASSUME NEW cs \in Cases
  PROVE  Descending(parse_block_suspiciousness(cs.log))
BY RankedAssumption, Zenon DEF Descending

RowsInv == DOMAIN rows = Dirs /\ \A d \in Dirs : IsRow(rows[d])

\* A row of a directory, whatever its file is (process_llm_logdir).
LEMMA RowFacts ==
  ASSUME case \in Cases, NEW file, Exists(file) => \E k \in Nat : DOMAIN file.rankings = 1 .. k,
         NEW bug, NEW window
  PROVE  IsRow(process_llm_logdir(file, bug, window))
<1>1. PICK sbfl_top : sbfl_top = IF ranked = <<>> THEN Over ELSE find_bug_rank(bug, ranked, case.block_map, window)
  OBVIOUS
<1>2. sbfl_top \in Nat
  <2>1. IsRanking(ranked) /\ Descending(ranked)
    BY CaseFacts, CaseDescends DEF ranked
  <2>2. find_bug_rank(bug, ranked, case.block_map, window) \in Nat
    BY <2>1, BugRank
  <2> QED
    BY <1>1, <2>2 DEF Over
<1>3. CASE ~Exists(file)
  <2>1. process_llm_logdir(file, bug, window) = [status |-> "LLM_MISSING", top |-> Over, sbfl_top |-> sbfl_top]
    BY <1>1, <1>3, Zenon DEF process_llm_logdir
  <2> QED
    BY <1>2, <2>1 DEF IsRow, Over
<1>4. CASE Exists(file) /\ ~load_rerank_result(file)
  <2>1. process_llm_logdir(file, bug, window) = [status |-> "LLM_ERROR", top |-> Over, sbfl_top |-> sbfl_top]
    BY <1>1, <1>4, Zenon DEF process_llm_logdir
  <2> QED
    BY <1>2, <2>1 DEF IsRow, Over
<1>5. CASE Exists(file) /\ load_rerank_result(file)
  <2>1. PICK top : top = find_reranked_bug_rank(bug, file.rankings, window)
    OBVIOUS
  <2>2. top \in Nat
    BY <1>5, <2>1, RerankedRank
  <2>3. process_llm_logdir(file, bug, window) = [status |-> "OK", top |-> top, sbfl_top |-> sbfl_top]
    BY <1>1, <1>5, <2>1, Zenon DEF process_llm_logdir
  <2> QED
    BY <1>2, <2>2, <2>3 DEF IsRow
<1> QED
  BY <1>3, <1>4, <1>5

\* No step leaves a summary with other rows.
LEMMA RowsNext ==
  ASSUME RerankInv, RerankInv', RowsInv, [Next]_vars
  PROVE  RowsInv'
<1>1. CASE UNCHANGED rows
  BY <1>1, Zenon DEF RowsInv
<1>2. CASE rows' = [d \in Dirs |-> NoRow]
  <2>1. IsRow(NoRow)
    BY DEF IsRow, NoRow, Over
  <2> QED
    BY <1>2, <2>1 DEF RowsInv
<1>3. ASSUME NEW file, NEW bug, NEW window, rows' = summarize_llm(file, bug, window),
             \A d \in Dirs : Exists(file[d]) => \E k \in Nat : DOMAIN file[d].rankings = 1 .. k
      PROVE  RowsInv'
  <2>1. case \in Cases
    BY DEF RerankInv
  <2>2. ASSUME NEW d \in Dirs PROVE IsRow(process_llm_logdir(file[d], bug[d], window))
    BY <1>3, <2>1, RowFacts
  <2>3. rows' = [d \in Dirs |-> process_llm_logdir(file[d], bug[d], window)]
    BY <1>3, Zenon DEF summarize_llm
  <2> QED
    BY <2>2, <2>3 DEF RowsInv
<1>4. ASSUME NEW w \in Weights, NEW k \in {0, 2}, NEW bug \in Bugs, RunDirectory(w, k, bug)
      PROVE  RowsInv'
  <2>1. rows' = [d \in Dirs |-> NoRow] \/ rows' = summarize_llm(offline', bug, 0)
    BY <1>4 DEF RunDirectory
  <2>2. PICK file : file = offline'
    OBVIOUS
  <2>3. \A d \in Dirs : Exists(file[d]) => \E n \in Nat : DOMAIN file[d].rankings = 1 .. n
    BY <2>2 DEF RerankInv, FilesInv, IsOffline, Ranks
  <2> QED
    BY <1>2, <1>3, <2>1, <2>2, <2>3, Zenon
<1>5. ASSUME NEW bug \in Bugs, NEW window \in {0, 1}, Summarize(bug, window)
      PROVE  RowsInv'
  <2>1. rows' = summarize_llm(result, bug, window)
    BY <1>5 DEF Summarize
  <2>2. \A d \in Dirs : Exists(result[d]) => \E n \in Nat : DOMAIN result[d].rankings = 1 .. n
    BY DEF RerankInv, FilesInv, IsResult, Ranks
  <2> QED
    BY <1>3, <2>1, <2>2, Zenon
<1>6. ASSUME NEW d \in Dirs, NEW a \in Options, Start(d, a)
      PROVE  RowsInv'
  <2>1. rows' = [e \in Dirs |-> NoRow]
    BY <1>6, Zenon DEF Start
  <2> QED
    BY <1>2, <2>1
<1>7. CASE \/ Workspace \/ SavePrompt \/ Ready \/ Ask \/ Reply \/ CallFailed \/ Write \/ Killed
           \/ UNCHANGED vars
  <2>1. UNCHANGED rows
    BY <1>7 DEF Workspace, SavePrompt, Ready, Ask, Reply, CallFailed, Write, Killed, vars
  <2> QED
    BY <1>1, <2>1
<1> QED
  BY <1>4, <1>5, <1>6, <1>7 DEF Next

\* The invariants have what the summaries promise.
LEMMA InvSummary ==
  ASSUME RerankInv, RowsInv
  PROVE  SummarySound
<1>1. StatsSound(rows)
  BY DirsAssumption, StatsFacts DEF RowsInv
<1>2. ASSUME NEW bug, NEW window PROVE RankSound(bug, window)
  <2>1. IsRanking(ranked) /\ Descending(ranked)
    BY CaseFacts, CaseDescends DEF RerankInv, ranked
  <2>2. PICK hits : hits = {i \in DOMAIN ranked : is_bug_block(ranked[i], case.block_map, bug,
                                                              line_set_with_window(bug.lines, window))}
    OBVIOUS
  <2>3. SoundFor(find_bug_rank(bug, ranked, case.block_map, window), ranked, Min(hits))
    BY <2>1, <2>2, BugRank
  <2> QED
    BY <2>2, <2>3, Zenon DEF RankSound, SoundFor
<1> QED
  BY <1>1, <1>2, Zenon DEF SummarySound, StatsSound, RowsInv

\* Whatever the localisations, answers, weights and bugs: the rank a summary gives a bug is one
\* a reader of the list could meet it at, its counts leave out only the cases that no list
\* contains, and its means and counts agree with them (find_bug_rank, find_reranked_bug_rank,
\* compute_llm_stats, compute_sbfl_stats).
THEOREM LlmSummarySound == Spec => []SummarySound
<1>1. Init => RerankInv /\ RowsInv
  <2>1. SUFFICES ASSUME Init PROVE RowsInv
    BY RerankInit
  <2>2. IsRow(NoRow)
    BY DEF IsRow, NoRow, Over
  <2> QED
    BY <2>1, <2>2 DEF Init, RowsInv
<1>2. RerankInv /\ RowsInv /\ [Next]_vars => (RerankInv /\ RowsInv)'
  BY RerankNext, RowsNext
<1>3. RerankInv /\ RowsInv => SummarySound
  BY InvSummary
<1> QED
  BY <1>1, <1>2, <1>3, PTL DEF Spec

-----------------------------------------------------------------------------
(* The process calls the client as the client expects                      *)

\* Every step is one of the client under some caller, or leaves the client alone.
LEMMA ClientStep ==
  ASSUME RerankInv, [Next]_vars
  PROVE  [ClientNext]_clientVars
<1>1. Gone => ClientNext
  BY DEF Gone, ClientNext
<1>2. CASE Ready /\ ~Gone
  <2>1. PICK p : /\ p = resolve_api_protocol(args.model, args.api_protocol)
                 /\ StartCall(p, args.structured_output)
    BY <1>2 DEF Ready
  <2>2. step = "key"
    BY <1>2 DEF Ready
  <2>3. args \in Options /\ call = "idle"
    BY <2>2 DEF RerankInv, ProcInv, CallInv
  <2>4. args.api_protocol \in Protocols \cup {"auto"} /\ args.structured_output \in {"strict", "auto", "off"}
    BY <2>3, RerankAssumption
  <2>5. p \in Protocols
    BY <2>1, <2>4 DEF resolve_api_protocol, Protocols
  <2> QED
    BY <2>1, <2>3, <2>4, <2>5 DEF ClientNext
<1>3. CASE Ask
  BY <1>3 DEF Ask, ClientNext
<1>4. CASE Reply
  BY <1>4 DEF Reply, ClientNext
<1>5. CASE CallFailed \/ Write \/ Killed
  BY <1>1, <1>5 DEF CallFailed, Write, Killed
<1>6. CASE Workspace
  BY <1>1, <1>6 DEF Workspace
<1>7. CASE \/ \E d \in Dirs, a \in Options : Start(d, a)
           \/ SavePrompt
           \/ \E w \in Weights, k \in {0, 2}, bug \in Bugs : RunDirectory(w, k, bug)
           \/ \E bug \in Bugs, window \in {0, 1} : Summarize(bug, window)
           \/ UNCHANGED vars
  <2>1. UNCHANGED clientVars
    BY <1>7 DEF Start, SavePrompt, RunDirectory, Summarize, vars
  <2> QED
    BY <2>1
<1> QED
  BY <1>1, <1>2, <1>3, <1>4, <1>5, <1>6, <1>7 DEF Next

\* run_rerank implements the caller the client is specified for: it starts a call only where
\* none is under way, with a protocol and an output mode the client knows, and a process that
\* ends takes its call with it.
THEOREM RerankCallsClient == Spec => ClientSpec
<1>1. Init => RerankInv /\ ClientInit
  BY RerankInit DEF Init
<1>2. RerankInv /\ [Next]_vars => RerankInv' /\ [ClientNext]_clientVars
  BY RerankNext, ClientStep
<1> QED
  BY <1>1, <1>2, PTL DEF Spec, ClientSpec

\* The bound on the requests of a call holds of the tool as a whole (call_model under run_rerank).
THEOREM LlmRequestBound == Spec => []RequestBound
BY RerankCallsClient, ClientRequestBound, PTL

\* So does the turn-taking of the conversation.
THEOREM LlmInTurn == Spec => []InTurn
BY RerankCallsClient, ClientInTurn, PTL

=============================================================================
