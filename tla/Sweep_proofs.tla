----------------------------- MODULE Sweep_proofs -----------------------------
(***************************************************************************)
(* Proofs about the parameter sweep, for every set of command lines and    *)
(* any number of points, threads and interrupts.  SwInv is inductive.  Its *)
(* parts say which label of _run_point goes with which child, registered   *)
(* process, return codes and row (ChildInv, RowsInv), how the main thread  *)
(* came to its stage (MainInv), and that a child started after stop() is   *)
(* one whose thread was already at "popen": late children and threads at   *)
(* "popen" together never exceed --sweep-jobs (LateInv).                   *)
(***************************************************************************)
EXTENDS Sweep, FiniteSetTheorems, WellFoundedInduction, TLAPS

-----------------------------------------------------------------------------
(* The inductive invariant.                                                  *)

Labels == {"queued", "check", "popen", "add", "wait", "append"} \cup Ended
Codes  == {"none", "0", "1", "-15", "127", "130"}

SwTypeOK ==
  /\ args \in Args
  /\ stage \in {"parse", "collect", "unwind", "stop", "snapshot", "kill", "leave", "exit"}
  /\ interrupts \in Nat /\ stopping \in BOOLEAN
  /\ victims \in SUBSET Points /\ processes \in SUBSET Points /\ summary \in SUBSET Points
  /\ pc \in [Points -> Labels]
  /\ phase \in [Points -> {"run", "summary"}]
  /\ child \in [Points -> {"none", "alive", "0", "1", "-15"}]
  /\ rc \in [Points -> [run : Codes, summary : Codes]]
  /\ rows \in Seq(Points)
  /\ late \in Nat
  /\ exit \in {"", "0", "1", "error", "interrupt"}

\* There are points once the command line has been accepted.
StartInv ==
  /\ stage = "parse" => Points = {} /\ exit = "" /\ interrupts = 0 /\ rows = <<>>
  /\ stage # "parse" => IF Valid(args) THEN Points = DOMAIN _points(args)
                        ELSE Points = {} /\ exit = "error" /\ stage = "exit"
  /\ \E n \in Nat : Points = 1 .. n

\* A child is alive, registered or not, only while its thread waits for it, and a
\* table was written by each summary script that succeeded.
PointOK(p) ==
  /\ pc[p] \notin {"add", "wait"} => child[p] = "none"
  /\ p \in processes => pc[p] = "wait"
  /\ pc[p] = "queued" => phase[p] = "run"
  /\ phase[p] = "summary" /\ child[p] = "0" => p \in summary
  /\ phase[p] = "run" => rc[p].summary = "none"
  /\ rc[p].summary = "0" => p \in summary

ChildInv == \A p \in Points : PointOK(p)

\* The status file has one row for each point that is done.
RowsInv ==
  /\ \A n \in DOMAIN rows : pc[rows[n]] = "done"
  /\ \A p \in Points : pc[p] = "done" => \E n \in DOMAIN rows : rows[n] = p
  /\ IsInjective(rows)

\* How the main thread got where it is.
SomeRaised == \E p \in Points : pc[p] = "raised"
MainInv ==
  /\ stopping => stage \in {"snapshot", "kill", "leave", "exit"}
  /\ stage \in {"stop", "snapshot", "kill", "leave"} /\ interrupts <= 1 => AllEnded \/ SomeRaised
  /\ (\E p \in Points : pc[p] = "cancelled") => interrupts >= 2 \/ SomeRaised
  /\ stage = "exit" => AllEnded
  /\ stage = "collect" => interrupts = 0 /\ exit = ""
  /\ stage = "unwind" => interrupts = 1 \/ SomeRaised
  /\ exit = "0" => stage = "exit"

\* The threads of the pool, and those that decided to start a child before stop().
Popping == {p \in Points : pc[p] = "popen"}
LateInv ==
  /\ Active = {} \/ Cardinality(Active) <= args.jobs
  /\ ~stopping => late = 0
  /\ late + Cardinality(Popping) = 0 \/ late + Cardinality(Popping) <= args.jobs

\* Status 0 has been given for good reason.
ZeroInv ==
  exit = "0" =>
    /\ \A p \in Points : pc[p] = "done" /\ rc[p].run = "0" /\ rc[p].summary = "0"
    /\ combined = DOMAIN rows

SwInv == SwTypeOK /\ StartInv /\ ChildInv /\ RowsInv /\ MainInv /\ LateInv /\ ZeroInv

-----------------------------------------------------------------------------
(* Sets of points.                                                           *)

\* A set of numbers has its least element: the oldest future is one of the queue.
LEMMA MinIn ==
  ASSUME NEW S \in SUBSET Nat, S # {}
  PROVE  Min(S) \in S
<1>1. PICK R : IsWellFoundedOn(R, Nat) /\ \A x, y \in Nat : <<y, x>> \in R <=> y < x
  <2>1. IsWellFoundedOn(OpToRel(<, Nat), Nat)
    BY NatLessThanWellFounded
  <2>2. \A x, y \in Nat : <<y, x>> \in OpToRel(<, Nat) <=> y < x
    BY DEF OpToRel
  <2> QED
    BY <2>1, <2>2, Zenon
<1>2. PICK x \in S : \A y \in S : ~(<<y, x>> \in R)
  BY <1>1, WFMin
<1>3. ASSUME NEW y \in S PROVE x <= y
  <2>1. x \in Nat /\ y \in Nat
    OBVIOUS
  <2>2. ~(y < x)
    BY <1>1, <1>2, <2>1, Zenon
  <2> QED
    BY <2>1, <2>2
<1> QED
  BY <1>3 DEF Min

\* A bound on the size of a set bounds its subsets.
LEMMA SubBound ==
  ASSUME NEW A, IsFiniteSet(A), NEW B \in SUBSET A, NEW j \in Int,
         A = {} \/ Cardinality(A) <= j
  PROVE  /\ Cardinality(B) \in Nat
         /\ B = {} \/ Cardinality(B) <= j
         /\ Cardinality(B) = 0 \/ Cardinality(B) <= j
<1>1. IsFiniteSet(B) /\ Cardinality(B) <= Cardinality(A)
  BY FS_Subset
<1>2. Cardinality(A) \in Nat /\ Cardinality(B) \in Nat
  BY <1>1, FS_CardinalityType
<1>3. B = {} => Cardinality(B) = 0
  BY FS_EmptySet
<1>4. A = {} => B = {}
  OBVIOUS
<1> QED
  BY <1>1, <1>2, <1>3, <1>4

\* The points are finitely many numbers.
LEMMA PointsFinite ==
  ASSUME StartInv
  PROVE  IsFiniteSet(Points) /\ Points \in SUBSET Nat
<1>1. PICK n \in Nat : Points = 1 .. n
  BY DEF StartInv
<1>2. IsFiniteSet(1 .. n)
  BY FS_Interval
<1> QED
  BY <1>1, <1>2

\* So are the points some thread is at.
LEMMA ActiveFinite ==
  ASSUME StartInv
  PROVE  /\ IsFiniteSet(Active) /\ IsFiniteSet(Popping)
         /\ Cardinality(Active) \in Nat /\ Cardinality(Popping) \in Nat
         /\ Popping \in SUBSET Active
<1>1. Active \in SUBSET Points /\ Popping \in SUBSET Active
  BY DEF Active, Popping, Ended
<1>2. IsFiniteSet(Active) /\ IsFiniteSet(Popping)
  BY <1>1, PointsFinite, FS_Subset
<1> QED
  BY <1>1, <1>2, FS_CardinalityType

-----------------------------------------------------------------------------
(* The threads of the pool.                                                  *)

\* A step of a thread that moves its point p on.
Moves(p, l) ==
  /\ Goto(p, l) /\ UNCHANGED mainVars
  /\ l \in Labels \ {"queued", "cancelled"} /\ pc[p] \notin Ended

\* What such a step leaves alone: the points, the main thread, and the other labels.
LEMMA MoveFacts ==
  ASSUME SwInv, NEW p \in Points, NEW l, Moves(p, l)
  PROVE  /\ Points' = Points
         /\ pc' \in [Points -> Labels]
         /\ pc'[p] = l
         /\ \A q \in Points : q # p => pc'[q] = pc[q]
         /\ StartInv' /\ MainInv' /\ ZeroInv'
<1>1. pc \in [Points -> Labels] /\ DOMAIN pc = Points
  BY DEF SwInv, SwTypeOK, Points
<1>2. pc' = [pc EXCEPT ![p] = l] /\ l \in Labels
  BY DEF Moves, Goto
<1>3. /\ pc' \in [Points -> Labels] /\ pc'[p] = l
      /\ \A q \in Points : q # p => pc'[q] = pc[q]
  BY <1>1, <1>2
<1>4. Points' = Points
  BY <1>1, <1>2 DEF Points
<1>5. UNCHANGED <<args, stage, interrupts, stopping, victims, combined, exit>>
  BY DEF Moves, mainVars
<1>6. ~AllEnded /\ stage # "exit" /\ stage # "parse"
  BY DEF AllEnded, Moves, SwInv, MainInv, StartInv
<1>7. StartInv'
  <2>1. Valid(args)' <=> Valid(args)
    BY <1>5
  <2>2. _points(args)' = _points(args)
    BY <1>5
  <2> QED
    BY <1>4, <1>5, <2>1, <2>2 DEF SwInv, StartInv
<1>8. SomeRaised => SomeRaised'
  BY <1>3, <1>4 DEF SomeRaised, Moves, Ended
<1>9. (\E q \in Points : pc[q] = "cancelled")' => \E q \in Points : pc[q] = "cancelled"
  BY <1>3, <1>4 DEF Moves
<1>10. MainInv'
  BY <1>5, <1>6, <1>8, <1>9 DEF SwInv, MainInv
<1>11. ZeroInv'
  BY <1>5, <1>6 DEF SwInv, ZeroInv, MainInv
<1> QED
  BY <1>3, <1>4, <1>7, <1>10, <1>11

\* A thread takes a future only when it is free, and sets out to start a child only
\* before stop(): the bounds on the threads and on the late children are kept.
LEMMA LateKept ==
  ASSUME SwInv, NEW p \in Points, NEW l, Moves(p, l),
         pc[p] = "queued" => Cardinality(Active) < args.jobs,
         l = "popen" => ~stopping,
         \/ late' = late
         \/ pc[p] = "popen" /\ l # "popen" /\ stopping /\ late' = late + 1
  PROVE  LateInv'
<1>1. /\ Points' = Points /\ pc'[p] = l
      /\ \A q \in Points : q # p => pc'[q] = pc[q]
      /\ args' = args /\ stopping' = stopping
  BY MoveFacts DEF Moves, mainVars
<1>2. /\ IsFiniteSet(Active) /\ IsFiniteSet(Popping)
      /\ Cardinality(Active) \in Nat /\ Cardinality(Popping) \in Nat
      /\ Popping \in SUBSET Active
  BY ActiveFinite DEF SwInv
<1>3. args.jobs \in Int /\ late \in Nat
  BY SweepAssumption DEF SwInv, SwTypeOK
<1>4. /\ Active = {} \/ Cardinality(Active) <= args.jobs
      /\ ~stopping => late = 0
      /\ late + Cardinality(Popping) = 0 \/ late + Cardinality(Popping) <= args.jobs
  BY DEF SwInv, LateInv
<1>5. IsFiniteSet(Active') /\ (Active' = {} \/ Cardinality(Active') <= args.jobs)
  <2>1. CASE pc[p] = "queued"
    <3>1. Active' \in SUBSET (Active \cup {p})
      BY <1>1 DEF Active
    <3>2. p \notin Active
      BY <2>1 DEF Active
    <3>3. IsFiniteSet(Active \cup {p}) /\ Cardinality(Active \cup {p}) = Cardinality(Active) + 1
      BY <1>2, <3>2, FS_AddElement
    <3>4. Cardinality(Active \cup {p}) <= args.jobs
      BY <1>2, <1>3, <2>1, <3>3
    <3> QED
      BY <1>3, <3>1, <3>3, <3>4, SubBound, FS_Subset
  <2>2. CASE pc[p] # "queued"
    <3>1. p \in Active
      BY <2>2 DEF Active, Moves
    <3>2. Active' \in SUBSET Active
      BY <1>1, <3>1 DEF Active
    <3> QED
      BY <1>2, <1>3, <1>4, <3>2, SubBound, FS_Subset
  <2> QED
    BY <2>1, <2>2
<1>6. ~stopping' => late' = 0
  BY <1>1, <1>4
<1>7. late' + Cardinality(Popping') = 0 \/ late' + Cardinality(Popping') <= args.jobs
  <2>1. CASE ~stopping
    <3>1. Popping' \in SUBSET Active'
      BY DEF Popping, Active, Ended
    <3>2. /\ Cardinality(Popping') \in Nat
          /\ Cardinality(Popping') = 0 \/ Cardinality(Popping') <= args.jobs
      BY <1>3, <1>5, <3>1, SubBound
    <3>3. late' = 0
      BY <1>1, <1>6, <2>1
    <3> QED
      BY <3>2, <3>3
  <2>2. CASE stopping /\ late' = late
    <3>1. Popping' \in SUBSET Popping
      BY <1>1, <2>2 DEF Popping
    <3>2. Cardinality(Popping') \in Nat /\ Cardinality(Popping') <= Cardinality(Popping)
      BY <1>2, <3>1, FS_Subset, FS_CardinalityType
    <3> QED
      BY <1>2, <1>3, <1>4, <2>2, <3>2
  <2>3. CASE pc[p] = "popen" /\ l # "popen" /\ stopping /\ late' = late + 1
    <3>1. Popping' = Popping \ {p} /\ p \in Popping
      BY <1>1, <2>3 DEF Popping
    <3>2. Cardinality(Popping') = Cardinality(Popping) - 1
      BY <1>2, <3>1, FS_RemoveElement
    <3> QED
      BY <1>2, <1>3, <1>4, <2>3, <3>2
  <2> QED
    BY <2>1, <2>2, <2>3
<1> QED
  BY <1>1, <1>5, <1>6, <1>7 DEF LateInv

\* A point that is not finished by the step leaves the status file alone.
LEMMA RowsKept ==
  ASSUME SwInv, NEW p \in Points, NEW l, Moves(p, l), l # "done", rows' = rows
  PROVE  RowsInv'
<1>1. /\ Points' = Points /\ pc'[p] = l
      /\ \A q \in Points : q # p => pc'[q] = pc[q]
  BY MoveFacts
<1>2. pc[p] # "done"
  BY DEF Moves, Ended
<1>3. rows \in Seq(Points) /\ \A n \in DOMAIN rows : rows[n] \in Points
  <2>1. rows \in Seq(Points)
    BY DEF SwInv, SwTypeOK
  <2> QED
    BY <2>1
<1>4. /\ \A n \in DOMAIN rows : pc[rows[n]] = "done"
      /\ \A q \in Points : pc[q] = "done" => \E n \in DOMAIN rows : rows[n] = q
      /\ IsInjective(rows)
  BY DEF SwInv, RowsInv
<1>5. \A n \in DOMAIN rows : pc'[rows[n]] = "done"
  BY <1>1, <1>2, <1>3, <1>4
<1>6. \A q \in Points : pc'[q] = "done" => \E n \in DOMAIN rows : rows[n] = q
  BY <1>1, <1>4
<1> QED
  BY <1>1, <1>4, <1>5, <1>6 DEF RowsInv

\* What each step of a thread leaves of the other points.
Others(p) ==
  \A q \in Points : q # p =>
    /\ phase'[q] = phase[q] /\ child'[q] = child[q] /\ rc'[q] = rc[q]
    /\ q \in processes' <=> q \in processes
    /\ q \in summary' <=> q \in summary

\* It is enough to look at the point that moves.
LEMMA ChildKept ==
  ASSUME SwInv, NEW p \in Points, NEW l, Moves(p, l), Others(p), PointOK(p)'
  PROVE  ChildInv'
<1>1. /\ Points' = Points
      /\ \A q \in Points : q # p => pc'[q] = pc[q]
  BY MoveFacts
<1>2. ASSUME NEW q \in Points PROVE PointOK(q)'
  <2>1. CASE q = p
    BY <2>1
  <2>2. CASE q # p
    <3>1. PointOK(q)
      BY DEF SwInv, ChildInv
    <3> QED
      BY <1>1, <2>2, <3>1 DEF PointOK, Others
  <2> QED
    BY <2>1, <2>2
<1> QED
  BY <1>1, <1>2 DEF ChildInv

\* A future is taken by a free thread.
LEMMA TakeKeeps ==
  ASSUME SwInv, NEW p \in Points, Take(p)
  PROVE  SwInv'
<1>1. /\ Moves(p, "check") /\ pc[p] = "queued" /\ Cardinality(Active) < args.jobs
      /\ UNCHANGED <<phase, child, processes, rc, summary, rows, late>>
  BY DEF Take, Moves, Labels, Ended
<1>2. /\ Points' = Points /\ pc' \in [Points -> Labels] /\ pc'[p] = "check"
      /\ StartInv' /\ MainInv' /\ ZeroInv'
  BY <1>1, MoveFacts
<1>3. UNCHANGED <<args, stage, interrupts, stopping, victims, combined, exit>>
  BY <1>1 DEF Moves, mainVars
<1>4. SwTypeOK'
  BY <1>1, <1>2, <1>3 DEF SwInv, SwTypeOK
<1>5. Others(p)
  BY <1>1 DEF Others
<1>6. PointOK(p)
  BY DEF SwInv, ChildInv
<1>7. PointOK(p)'
  BY <1>1, <1>2, <1>6 DEF PointOK
<1> QED
  BY <1>1, <1>2, <1>4, <1>5, <1>7, LateKept, RowsKept, ChildKept DEF SwInv

\* _stopping is looked at, or the directories cannot be made.
LEMMA CheckKeeps ==
  ASSUME SwInv, NEW p \in Points, Check(p)
  PROVE  SwInv'
<1>1. PICK l \in {"raised", "popen", "append"} :
        /\ Goto(p, l)
        /\ l = "raised" => rc' = rc
        /\ l = "popen" => rc' = rc /\ ~stopping
        /\ l = "append" => rc' = [rc EXCEPT ![p].summary = "130"] /\ phase[p] = "summary"
  BY DEF Check
<1>2. /\ Moves(p, l) /\ pc[p] = "check"
      /\ UNCHANGED <<phase, child, processes, summary, rows, late>>
  BY <1>1 DEF Check, Moves, Labels, Ended
<1>3. /\ Points' = Points /\ pc' \in [Points -> Labels] /\ pc'[p] = l
      /\ StartInv' /\ MainInv' /\ ZeroInv'
  BY <1>2, MoveFacts
<1>4. UNCHANGED <<args, stage, interrupts, stopping, victims, combined, exit>>
  BY <1>2 DEF Moves, mainVars
<1>5. rc \in [Points -> [run : Codes, summary : Codes]]
  BY DEF SwInv, SwTypeOK
<1>6. /\ rc' \in [Points -> [run : Codes, summary : Codes]]
      /\ \A q \in Points : q # p => rc'[q] = rc[q]
      /\ rc'[p].summary = IF l = "append" THEN "130" ELSE rc[p].summary
  <2>1. CASE l = "append"
    BY <1>1, <1>5, <2>1 DEF Codes
  <2>2. CASE l # "append"
    BY <1>1, <1>5, <2>2
  <2> QED
    BY <2>1, <2>2
<1>7. SwTypeOK'
  BY <1>2, <1>3, <1>4, <1>6 DEF SwInv, SwTypeOK
<1>8. Others(p)
  BY <1>2, <1>6 DEF Others
<1>9. PointOK(p)
  BY DEF SwInv, ChildInv
<1>10. PointOK(p)'
  BY <1>1, <1>2, <1>3, <1>6, <1>9 DEF PointOK
<1> QED
  BY <1>1, <1>2, <1>3, <1>7, <1>8, <1>10, LateKept, RowsKept, ChildKept DEF SwInv

\* What _run_point does with a return code keeps the types.
LEMMA ReturnedFacts ==
  ASSUME SwInv, NEW p \in Points, NEW code \in Codes, Returned(p, code)
  PROVE  /\ rc' \in [Points -> [run : Codes, summary : Codes]]
         /\ phase' \in [Points -> {"run", "summary"}]
         /\ \A q \in Points : q # p => rc'[q] = rc[q] /\ phase'[q] = phase[q]
         /\ phase'[p] = "summary"
         /\ rc'[p].summary = IF phase[p] = "summary" THEN code ELSE rc[p].summary
<1>1. /\ rc \in [Points -> [run : Codes, summary : Codes]]
      /\ phase \in [Points -> {"run", "summary"}] /\ phase[p] \in {"run", "summary"}
  BY DEF SwInv, SwTypeOK
<1>2. /\ rc' = [rc EXCEPT ![p][phase[p]] = code]
      /\ phase' = [phase EXCEPT ![p] = "summary"]
  BY DEF Returned
<1>3. CASE phase[p] = "run"
  <2>1. rc' = [rc EXCEPT ![p] = [rc[p] EXCEPT !.run = code]]
    BY <1>1, <1>2, <1>3
  <2> QED
    BY <1>1, <1>2, <1>3, <2>1
<1>4. CASE phase[p] = "summary"
  <2>1. rc' = [rc EXCEPT ![p] = [rc[p] EXCEPT !.summary = code]]
    BY <1>1, <1>2, <1>4
  <2> QED
    BY <1>1, <1>2, <1>4, <2>1
<1> QED
  BY <1>1, <1>3, <1>4

\* The child is started, late if stop() came since the look at _stopping, or Popen
\* fails.
LEMMA PopenKeeps ==
  ASSUME SwInv, NEW p \in Points, Popen(p)
  PROVE  SwInv'
<1>1. PointOK(p) /\ child \in [Points -> {"none", "alive", "0", "1", "-15"}]
  BY DEF SwInv, ChildInv, SwTypeOK
<1>2. pc[p] = "popen" /\ UNCHANGED <<mainVars, processes, summary, rows>>
  BY DEF Popen
<1>3. CASE /\ Goto(p, "add") /\ child' = [child EXCEPT ![p] = "alive"]
           /\ late' = IF stopping THEN late + 1 ELSE late
           /\ UNCHANGED <<phase, rc>>
  <2>1. Moves(p, "add")
    BY <1>2, <1>3 DEF Moves, Labels, Ended
  <2>2. /\ Points' = Points /\ pc' \in [Points -> Labels] /\ pc'[p] = "add"
        /\ StartInv' /\ MainInv' /\ ZeroInv'
    BY <2>1, MoveFacts
  <2>3. UNCHANGED <<args, stage, interrupts, stopping, victims, combined, exit>>
    BY <2>1 DEF Moves, mainVars
  <2>4. late' \in Nat /\ child' \in [Points -> {"none", "alive", "0", "1", "-15"}]
    <3>1. late \in Nat
      BY DEF SwInv, SwTypeOK
    <3> QED
      BY <1>1, <1>3, <3>1
  <2>5. SwTypeOK'
    BY <1>2, <1>3, <2>2, <2>3, <2>4 DEF SwInv, SwTypeOK
  <2>6. Others(p)
    BY <1>1, <1>2, <1>3 DEF Others
  <2>7. PointOK(p)'
    BY <1>1, <1>2, <1>3, <2>2 DEF PointOK
  <2>8. \/ late' = late
        \/ pc[p] = "popen" /\ "add" # "popen" /\ stopping /\ late' = late + 1
    BY <1>2, <1>3
  <2>9. LateInv'
    BY <1>2, <2>1, <2>8, LateKept
  <2> QED
    BY <1>2, <2>1, <2>2, <2>5, <2>6, <2>7, <2>9, RowsKept, ChildKept DEF SwInv
<1>4. CASE Returned(p, "127") /\ UNCHANGED <<child, late>>
  <2>1. PICK l \in {"check", "append"} : Goto(p, l)
    BY <1>4 DEF Returned
  <2>2. Moves(p, l)
    BY <1>2, <2>1 DEF Moves, Labels, Ended
  <2>3. /\ Points' = Points /\ pc' \in [Points -> Labels] /\ pc'[p] = l
        /\ StartInv' /\ MainInv' /\ ZeroInv'
    BY <2>2, MoveFacts
  <2>4. UNCHANGED <<args, stage, interrupts, stopping, victims, combined, exit>>
    BY <2>2 DEF Moves, mainVars
  <2>5. /\ rc' \in [Points -> [run : Codes, summary : Codes]]
        /\ phase' \in [Points -> {"run", "summary"}]
        /\ \A q \in Points : q # p => rc'[q] = rc[q] /\ phase'[q] = phase[q]
        /\ phase'[p] = "summary"
        /\ rc'[p].summary = IF phase[p] = "summary" THEN "127" ELSE rc[p].summary
    <3>1. "127" \in Codes
      BY DEF Codes
    <3> QED
      BY <1>4, <3>1, ReturnedFacts
  <2>6. SwTypeOK'
    BY <1>2, <1>4, <2>3, <2>4, <2>5 DEF SwInv, SwTypeOK
  <2>7. Others(p)
    BY <1>2, <1>4, <2>5 DEF Others
  <2>8. PointOK(p)'
    BY <1>1, <1>2, <1>4, <2>1, <2>3, <2>5 DEF PointOK
  <2> QED
    BY <1>2, <1>4, <2>1, <2>2, <2>3, <2>6, <2>7, <2>8, LateKept, RowsKept, ChildKept DEF SwInv
<1> QED
  BY <1>3, <1>4 DEF Popen

\* The child is registered.
LEMMA AddKeeps ==
  ASSUME SwInv, NEW p \in Points, Add(p)
  PROVE  SwInv'
<1>1. /\ Moves(p, "wait") /\ pc[p] = "add" /\ processes' = processes \cup {p}
      /\ UNCHANGED <<phase, child, rc, summary, rows, late>>
  BY DEF Add, Moves, Labels, Ended
<1>2. /\ Points' = Points /\ pc' \in [Points -> Labels] /\ pc'[p] = "wait"
      /\ StartInv' /\ MainInv' /\ ZeroInv'
  BY <1>1, MoveFacts
<1>3. UNCHANGED <<args, stage, interrupts, stopping, victims, combined, exit>>
  BY <1>1 DEF Moves, mainVars
<1>4. SwTypeOK'
  BY <1>1, <1>2, <1>3 DEF SwInv, SwTypeOK
<1>5. Others(p)
  BY <1>1 DEF Others
<1>6. PointOK(p)
  BY DEF SwInv, ChildInv
<1>7. PointOK(p)'
  BY <1>1, <1>2, <1>6 DEF PointOK
<1> QED
  BY <1>1, <1>2, <1>4, <1>5, <1>7, LateKept, RowsKept, ChildKept DEF SwInv

\* The child has ended.
LEMMA WaitKeeps ==
  ASSUME SwInv, NEW p \in Points, Wait(p)
  PROVE  SwInv'
<1>1. PointOK(p) /\ child \in [Points -> {"none", "alive", "0", "1", "-15"}]
  BY DEF SwInv, ChildInv, SwTypeOK
<1>2. /\ pc[p] = "wait" /\ child[p] # "alive" /\ Returned(p, child[p])
      /\ child' = [child EXCEPT ![p] = "none"] /\ processes' = processes \ {p}
      /\ UNCHANGED <<mainVars, summary, rows, late>>
  BY DEF Wait
<1>3. PICK l \in {"check", "append"} : Goto(p, l)
  BY <1>2 DEF Returned
<1>4. Moves(p, l)
  BY <1>2, <1>3 DEF Moves, Labels, Ended
<1>5. /\ Points' = Points /\ pc' \in [Points -> Labels] /\ pc'[p] = l
      /\ StartInv' /\ MainInv' /\ ZeroInv'
  BY <1>4, MoveFacts
<1>6. UNCHANGED <<args, stage, interrupts, stopping, victims, combined, exit>>
  BY <1>4 DEF Moves, mainVars
<1>7. /\ rc' \in [Points -> [run : Codes, summary : Codes]]
      /\ phase' \in [Points -> {"run", "summary"}]
      /\ \A q \in Points : q # p => rc'[q] = rc[q] /\ phase'[q] = phase[q]
      /\ phase'[p] = "summary"
      /\ rc'[p].summary = IF phase[p] = "summary" THEN child[p] ELSE rc[p].summary
  <2>1. child[p] \in Codes
    BY <1>1, <1>2 DEF Codes
  <2> QED
    BY <1>2, <2>1, ReturnedFacts
<1>8. /\ child' \in [Points -> {"none", "alive", "0", "1", "-15"}]
      /\ child'[p] = "none" /\ \A q \in Points : q # p => child'[q] = child[q]
  BY <1>1, <1>2
<1>9. SwTypeOK'
  BY <1>2, <1>5, <1>6, <1>7, <1>8 DEF SwInv, SwTypeOK
<1>10. Others(p)
  BY <1>2, <1>7, <1>8 DEF Others
<1>11. PointOK(p)'
  BY <1>1, <1>2, <1>3, <1>5, <1>7, <1>8 DEF PointOK, SwInv, SwTypeOK
<1> QED
  BY <1>2, <1>3, <1>4, <1>5, <1>9, <1>10, <1>11, LateKept, RowsKept, ChildKept DEF SwInv

\* A child ends by itself; the summary script leaves its table.
LEMMA ChildExitsKeeps ==
  ASSUME SwInv, NEW p \in Points, ChildExits(p)
  PROVE  SwInv'
<1>1. PICK code \in {"0", "1"} :
        /\ child' = [child EXCEPT ![p] = code]
        /\ summary' \in IF phase[p] = "run" THEN {summary}
                        ELSE IF code = "0" THEN {summary \cup {p}} ELSE {summary, summary \cup {p}}
  BY DEF ChildExits
<1>2. child[p] = "alive" /\ UNCHANGED <<mainVars, pc, phase, processes, rc, rows, late>>
  BY DEF ChildExits
<1>3. UNCHANGED <<args, stage, interrupts, stopping, victims, combined, exit>>
  BY <1>2 DEF mainVars
<1>4. /\ child \in [Points -> {"none", "alive", "0", "1", "-15"}]
      /\ summary \in SUBSET Points /\ phase[p] \in {"run", "summary"}
  BY DEF SwInv, SwTypeOK
<1>5. /\ child' \in [Points -> {"none", "alive", "0", "1", "-15"}]
      /\ child'[p] = code /\ \A q \in Points : q # p => child'[q] = child[q]
  BY <1>1, <1>4
<1>6. /\ summary' \in SUBSET Points /\ summary \in SUBSET summary'
      /\ phase[p] = "summary" /\ code = "0" => p \in summary'
  BY <1>1, <1>4
<1>7. Points' = Points
  BY <1>2 DEF Points
<1>8. SwTypeOK'
  BY <1>2, <1>3, <1>5, <1>6, <1>7 DEF SwInv, SwTypeOK
<1>9. ASSUME NEW q \in Points PROVE PointOK(q)'
  <2>1. PointOK(q)
    BY DEF SwInv, ChildInv
  <2>2. CASE q = p
    BY <1>2, <1>5, <1>6, <2>1, <2>2 DEF PointOK
  <2>3. CASE q # p
    BY <1>2, <1>5, <1>6, <2>1, <2>3 DEF PointOK
  <2> QED
    BY <2>2, <2>3
<1>10. ChildInv'
  BY <1>7, <1>9 DEF ChildInv
<1>11. StartInv' /\ RowsInv' /\ MainInv' /\ ZeroInv'
  <2>1. StartInv'
    <3>1. Valid(args)' <=> Valid(args)
      BY <1>3
    <3>2. _points(args)' = _points(args)
      BY <1>3
    <3> QED
      BY <1>3, <1>7, <3>1, <3>2 DEF SwInv, StartInv
  <2>2. RowsInv'
    BY <1>2, <1>7 DEF SwInv, RowsInv
  <2>3. AllEnded' = AllEnded /\ SomeRaised' = SomeRaised
    BY <1>2, <1>7 DEF AllEnded, SomeRaised
  <2>4. MainInv'
    BY <1>2, <1>3, <1>7, <2>3 DEF SwInv, MainInv
  <2>5. ZeroInv'
    BY <1>2, <1>3, <1>7 DEF SwInv, ZeroInv
  <2> QED
    BY <2>1, <2>2, <2>4, <2>5
<1>12. LateInv'
  <2>1. Active' = Active /\ Popping' = Popping
    BY <1>2, <1>7 DEF Active, Popping
  <2> QED
    BY <1>2, <1>3, <2>1 DEF SwInv, LateInv
<1> QED
  BY <1>8, <1>10, <1>11, <1>12 DEF SwInv

\* The point's row is appended to the status file.
LEMMA RowKeeps ==
  ASSUME SwInv, NEW p \in Points, Moves(p, "done"), pc[p] = "append", rows' = Append(rows, p),
         UNCHANGED <<phase, child, processes, rc, summary, late>>
  PROVE  SwInv'
<1>1. /\ Moves(p, "done") /\ pc[p] = "append" /\ rows' = Append(rows, p)
      /\ UNCHANGED <<phase, child, processes, rc, summary, late>>
  OBVIOUS
<1>2. /\ Points' = Points /\ pc' \in [Points -> Labels] /\ pc'[p] = "done"
      /\ \A q \in Points : q # p => pc'[q] = pc[q]
      /\ StartInv' /\ MainInv' /\ ZeroInv'
  BY <1>1, MoveFacts
<1>3. UNCHANGED <<args, stage, interrupts, stopping, victims, combined, exit>>
  BY <1>1 DEF Moves, mainVars
<1>4. rows \in Seq(Points) /\ Len(rows) \in Nat
  <2>1. rows \in Seq(Points)
    BY DEF SwInv, SwTypeOK
  <2> QED
    BY <2>1
<1>5. /\ rows' \in Seq(Points) /\ Len(rows') = Len(rows) + 1
      /\ rows'[Len(rows) + 1] = p
      /\ \A n \in 1 .. Len(rows) : rows'[n] = rows[n]
      /\ DOMAIN rows = 1 .. Len(rows) /\ DOMAIN rows' = 1 .. Len(rows) + 1
  BY <1>1, <1>4
<1>6. SwTypeOK'
  BY <1>1, <1>2, <1>3, <1>5 DEF SwInv, SwTypeOK
<1>7. Others(p)
  BY <1>1 DEF Others
<1>8. PointOK(p)
  BY DEF SwInv, ChildInv
<1>9. PointOK(p)'
  BY <1>1, <1>2, <1>8 DEF PointOK
<1>10. RowsInv'
  <2>1. /\ \A n \in 1 .. Len(rows) : pc[rows[n]] = "done" /\ rows[n] \in Points
        /\ \A q \in Points : pc[q] = "done" => \E n \in 1 .. Len(rows) : rows[n] = q
        /\ \A m, n \in 1 .. Len(rows) : rows[m] = rows[n] => m = n
    BY <1>4, <1>5 DEF SwInv, RowsInv, IsInjective
  <2>2. \A n \in 1 .. Len(rows) : rows[n] # p
    BY <1>1, <2>1
  <2>3. \A n \in 1 .. Len(rows) + 1 : pc'[rows'[n]] = "done"
    <3> SUFFICES ASSUME NEW n \in 1 .. Len(rows) + 1 PROVE pc'[rows'[n]] = "done"
      OBVIOUS
    <3>1. CASE n = Len(rows) + 1
      BY <1>2, <1>5, <3>1
    <3>2. CASE n \in 1 .. Len(rows)
      BY <1>2, <1>5, <2>1, <2>2, <3>2
    <3> QED
      BY <1>4, <3>1, <3>2
  <2>4. \A q \in Points : pc'[q] = "done" => \E n \in 1 .. Len(rows) + 1 : rows'[n] = q
    <3> SUFFICES ASSUME NEW q \in Points, pc'[q] = "done"
                 PROVE  \E n \in 1 .. Len(rows) + 1 : rows'[n] = q
      OBVIOUS
    <3>1. CASE q = p
      <4>1. Len(rows) + 1 \in 1 .. Len(rows) + 1
        BY <1>4
      <4> QED
        BY <1>5, <3>1, <4>1
    <3>2. CASE q # p
      <4>1. PICK n \in 1 .. Len(rows) : rows[n] = q
        BY <1>2, <2>1, <3>2
      <4>2. n \in 1 .. Len(rows) + 1 /\ rows'[n] = q
        BY <1>4, <1>5, <4>1
      <4> QED
        BY <4>2
    <3> QED
      BY <3>1, <3>2
  <2>5. \A m, n \in 1 .. Len(rows) + 1 : rows'[m] = rows'[n] => m = n
    <3>1. \A n \in 1 .. Len(rows) + 1 : n = Len(rows) + 1 \/ n \in 1 .. Len(rows)
      BY <1>4
    <3> QED
      BY <1>5, <2>1, <2>2, <3>1
  <2> QED
    BY <1>2, <1>5, <2>3, <2>4, <2>5 DEF RowsInv, IsInjective
<1> QED
  BY <1>1, <1>2, <1>6, <1>7, <1>9, <1>10, LateKept, ChildKept DEF SwInv

\* Or the status file cannot be written, and the future raises.
LEMMA AppendKeeps ==
  ASSUME SwInv, NEW p \in Points, _append_status(p)
  PROVE  SwInv'
<1>1. /\ pc[p] = "append" /\ UNCHANGED <<mainVars, phase, child, processes, rc, summary, late>>
      /\ \/ Goto(p, "done") /\ rows' = Append(rows, p)
         \/ Goto(p, "raised") /\ rows' = rows
  BY DEF _append_status
<1>2. CASE Goto(p, "done") /\ rows' = Append(rows, p)
  <2>1. Moves(p, "done")
    BY <1>1, <1>2 DEF Moves, Labels, Ended
  <2> QED
    BY <1>1, <1>2, <2>1, RowKeeps
<1>3. CASE Goto(p, "raised") /\ rows' = rows
  <2>1. Moves(p, "raised")
    BY <1>1, <1>3 DEF Moves, Labels, Ended
  <2>2. /\ Points' = Points /\ pc' \in [Points -> Labels] /\ pc'[p] = "raised"
        /\ StartInv' /\ MainInv' /\ ZeroInv'
    BY <2>1, MoveFacts
  <2>3. UNCHANGED <<args, stage, interrupts, stopping, victims, combined, exit>>
    BY <1>1 DEF mainVars
  <2>4. SwTypeOK'
    BY <1>1, <1>3, <2>2, <2>3 DEF SwInv, SwTypeOK
  <2>5. Others(p)
    BY <1>1 DEF Others
  <2>6. PointOK(p)
    BY DEF SwInv, ChildInv
  <2>7. PointOK(p)'
    BY <1>1, <2>2, <2>6 DEF PointOK
  <2> QED
    BY <1>1, <1>3, <2>1, <2>2, <2>4, <2>5, <2>7, LateKept, RowsKept, ChildKept DEF SwInv
<1> QED
  BY <1>1, <1>2, <1>3

-----------------------------------------------------------------------------
(* The main thread.                                                          *)

\* What is kept while the threads stand still.
LEMMA Still ==
  ASSUME SwInv, UNCHANGED workerVars
  PROVE  /\ Points' = Points /\ ChildInv' /\ RowsInv'
         /\ Active' = Active /\ Popping' = Popping /\ Queued' = Queued
         /\ AllEnded' = AllEnded /\ SomeRaised' = SomeRaised
         /\ UNCHANGED <<pc, phase, child, processes, rc, summary, rows, late>>
<1>1. UNCHANGED <<pc, phase, child, processes, rc, summary, rows, late>>
  BY DEF workerVars
<1>2. Points' = Points
  BY <1>1 DEF Points
<1>3. ChildInv'
  BY <1>1, <1>2 DEF SwInv, ChildInv, PointOK
<1>4. RowsInv'
  BY <1>1, <1>2 DEF SwInv, RowsInv
<1> QED
  BY <1>1, <1>2, <1>3, <1>4 DEF Active, Popping, Queued, AllEnded, SomeRaised

\* Parsing leaves no points, or all of them queued.
LEMMA StartKeeps ==
  ASSUME SwInv, Start
  PROVE  SwInv'
<1>1. /\ stage = "parse" /\ Points = {} /\ exit = ""
      /\ UNCHANGED <<args, interrupts, stopping, victims, processes, summary, rows, combined, late>>
  BY DEF Start, SwInv, StartInv
<1>2. /\ ~stopping /\ late = 0 /\ victims = {} /\ processes = {} /\ summary = {}
      /\ args \in Args /\ interrupts \in Nat
  BY <1>1 DEF SwInv, SwTypeOK, MainInv, LateInv
<1>3. rows = <<>> /\ rows' = <<>>
  BY <1>1 DEF SwInv, StartInv
<1>4. (Valid(args)' <=> Valid(args)) /\ _points(args)' = _points(args)
  BY <1>1
<1>5. CASE ~Valid(args)
  <2>1. stage' = "exit" /\ exit' = "error" /\ UNCHANGED <<pc, phase, child, rc>>
    BY <1>5 DEF Start
  <2>2. UNCHANGED workerVars
    BY <1>1, <2>1 DEF workerVars
  <2>3. /\ Points' = Points /\ ChildInv' /\ RowsInv' /\ Active' = Active /\ Popping' = Popping
    BY <2>2, Still
  <2>4. SwTypeOK'
    BY <1>1, <2>1, <2>3 DEF SwInv, SwTypeOK
  <2>5. StartInv'
    BY <1>1, <1>4, <1>5, <2>1, <2>3 DEF SwInv, StartInv
  <2>6. MainInv'
    BY <1>1, <2>1, <2>3 DEF SwInv, MainInv, AllEnded
  <2>7. LateInv' /\ ZeroInv'
    BY <1>1, <2>1, <2>3 DEF SwInv, LateInv, ZeroInv
  <2> QED
    BY <2>3, <2>4, <2>5, <2>6, <2>7 DEF SwInv
<1>6. CASE Valid(args)
  <2>1. PICK N \in Nat : DOMAIN _points(args) = 1 .. N
    <3>1. /\ Len(args.top_passes) \in Nat /\ Len(args.strategies) \in Nat
          /\ Len(args.window_sizes) \in Nat
      BY <1>2, SweepAssumption
    <3>2. DOMAIN _points(args) =
            1 .. Len(args.top_passes) * Len(args.strategies) * Len(args.window_sizes)
      BY DEF _points
    <3>3. Len(args.top_passes) * Len(args.strategies) * Len(args.window_sizes) \in Nat
      <4>1. \A x, y \in Nat : x * y \in Nat
        OBVIOUS
      <4>2. Len(args.top_passes) * Len(args.strategies) \in Nat
        BY <3>1, <4>1
      <4> QED
        BY <3>1, <4>1, <4>2
    <3> QED
      BY <3>2, <3>3
  <2> DEFINE D == DOMAIN _points(args)
  <2>2. /\ stage' = "collect" /\ exit' = exit
        /\ pc' = [p \in D |-> "queued"]
        /\ phase' = [p \in DOMAIN pc' |-> "run"]
        /\ child' = [p \in DOMAIN pc' |-> "none"]
        /\ rc' = [p \in DOMAIN pc' |-> [run |-> "none", summary |-> "none"]]
    BY <1>6, Zenon DEF Start
  <2>3. Points' = D
    BY <2>2 DEF Points
  <2>4. /\ pc' = [p \in D |-> "queued"]
        /\ phase' = [p \in D |-> "run"]
        /\ child' = [p \in D |-> "none"]
        /\ rc' = [p \in D |-> [run |-> "none", summary |-> "none"]]
    BY <2>2
  <2> HIDE DEF D
  <2>5. SwTypeOK'
    <3>1. rows' \in Seq(D)
      <4>1. <<>> \in Seq(D)
        OBVIOUS
      <4> QED
        BY <1>3, <4>1
    <3>2. /\ pc' \in [D -> Labels] /\ phase' \in [D -> {"run", "summary"}]
          /\ child' \in [D -> {"none", "alive", "0", "1", "-15"}]
          /\ rc' \in [D -> [run : Codes, summary : Codes]]
      BY <2>4 DEF Labels, Codes
    <3> QED
      BY <1>1, <1>2, <2>2, <2>3, <3>1, <3>2 DEF SwInv, SwTypeOK
  <2>6. StartInv'
    BY <1>1, <1>4, <1>6, <2>1, <2>2, <2>3 DEF StartInv, D
  <2>7. ChildInv'
    BY <1>1, <1>2, <2>3, <2>4 DEF ChildInv, PointOK
  <2>8. RowsInv'
    <3>1. DOMAIN rows' = {}
      <4>1. DOMAIN <<>> = {}
        OBVIOUS
      <4> QED
        BY <1>3, <4>1
    <3>2. \A p \in D : pc'[p] # "done"
      BY <2>4
    <3> QED
      BY <2>3, <3>1, <3>2 DEF RowsInv, IsInjective
  <2>9. MainInv'
    <3>1. ~(\E p \in Points : pc[p] = "cancelled")'
      BY <2>3, <2>4
    <3>2. interrupts = 0
      BY <1>1 DEF SwInv, StartInv
    <3> QED
      BY <1>1, <1>2, <2>2, <3>1, <3>2 DEF MainInv
  <2>10. LateInv'
    <3>1. Active' = {} /\ Popping' = {}
      BY <2>3, <2>4 DEF Active, Popping
    <3>2. Cardinality(Popping') = 0
      BY <3>1, FS_EmptySet
    <3> QED
      <4>1. late' = 0
        BY <1>1, <1>2
      <4>2. late' + Cardinality(Popping') = 0
        BY <3>2, <4>1
      <4> QED
        BY <3>1, <4>1, <4>2 DEF LateInv
  <2>11. ZeroInv'
    BY <1>1, <2>2 DEF ZeroInv
  <2> QED
    BY <2>5, <2>6, <2>7, <2>8, <2>9, <2>10, <2>11 DEF SwInv
<1> QED
  BY <1>5, <1>6

\* The steps of the main thread that leave the points and the threads alone keep
\* all but what they say of the main thread itself.
LEMMA MainStep ==
  ASSUME SwInv, UNCHANGED <<args, workerVars>>, stage' # "parse",
         stage \notin {"parse", "exit"}
  PROVE  StartInv' /\ ChildInv' /\ RowsInv'
<1>1. Points' = Points /\ ChildInv' /\ RowsInv'
  BY Still
<1>2. (Valid(args)' <=> Valid(args)) /\ _points(args)' = _points(args)
  OBVIOUS
<1>3. StartInv'
  BY <1>1, <1>2 DEF SwInv, StartInv
<1> QED
  BY <1>1, <1>3

\* The results are collected, or the first exception among them ends that.
LEMMA CollectKeeps ==
  ASSUME SwInv, Collect
  PROVE  SwInv'
<1>1. stage = "collect" /\ UNCHANGED <<args, interrupts, stopping, victims, workerVars>>
  BY DEF Collect
<1>2. exit = "" /\ interrupts = 0 /\ ~stopping
  BY <1>1 DEF SwInv, MainInv
<1>4. /\ Points' = Points /\ Active' = Active /\ Popping' = Popping
      /\ AllEnded' = AllEnded /\ SomeRaised' = SomeRaised
      /\ UNCHANGED <<pc, phase, child, processes, rc, summary, rows, late>>
  BY <1>1, Still
<1>5. stage' \in {"unwind", "exit"} /\ exit' \in {"error", "0", "1"}
  BY DEF Collect
<1>6. StartInv' /\ ChildInv' /\ RowsInv'
  BY <1>1, <1>5, MainStep
<1>7. SwTypeOK'
  BY <1>1, <1>4, <1>5 DEF SwInv, SwTypeOK
<1>8. LateInv'
  BY <1>1, <1>4 DEF SwInv, LateInv
<1>9. MainInv' /\ ZeroInv'
  <2>1. CASE SomeRaised /\ stage' = "unwind" /\ exit' = "error"
    BY <1>1, <1>2, <1>4, <2>1 DEF SwInv, MainInv, ZeroInv
  <2>2. CASE /\ \A p \in Points : pc[p] = "done"
             /\ combined' = Tables(Len(rows))
             /\ exit' = IF \A p \in Points : Status(p) = "OK" THEN "0" ELSE "1"
             /\ stage' = "exit"
    <3>1. AllEnded
      BY <2>2 DEF AllEnded, Ended
    <3>2. MainInv'
      BY <1>1, <1>2, <1>4, <2>2, <3>1 DEF SwInv, MainInv
    <3>3. ASSUME exit' = "0"
          PROVE  /\ \A p \in Points : pc[p] = "done" /\ rc[p].run = "0" /\ rc[p].summary = "0"
                 /\ combined' = DOMAIN rows
      <4>1. \A p \in Points : rc[p].run = "0" /\ rc[p].summary = "0"
        BY <2>2, <3>3 DEF Status
      <4>2. \A p \in Points : p \in summary
        BY <4>1 DEF SwInv, ChildInv, PointOK
      <4>3. rows \in Seq(Points)
        BY DEF SwInv, SwTypeOK
      <4>4. DOMAIN rows = 1 .. Len(rows) /\ \A n \in DOMAIN rows : rows[n] \in Points
        BY <4>3
      <4> QED
        BY <2>2, <4>1, <4>2, <4>4 DEF Tables
    <3>4. ZeroInv'
      BY <1>4, <3>3 DEF ZeroInv
    <3> QED
      BY <3>2, <3>4
  <2>3. CASE /\ \A p \in Points : pc[p] = "done"
             /\ exit' = "error" /\ stage' = "exit"
    <3>1. AllEnded
      BY <2>3 DEF AllEnded, Ended
    <3> QED
      BY <1>1, <1>2, <1>4, <2>3, <3>1 DEF SwInv, MainInv, ZeroInv
  <2> QED
    BY <2>1, <2>2, <2>3 DEF Collect, SomeRaised
<1> QED
  BY <1>6, <1>7, <1>8, <1>9 DEF SwInv

\* Ctrl-C while the results are collected, while the executor waits, or during stop().
LEMMA InterruptKeeps ==
  ASSUME SwInv, Interrupt
  PROVE  SwInv'
<1>1. /\ interrupts' = interrupts + 1 /\ exit' = "interrupt"
      /\ UNCHANGED <<args, stopping, victims, combined, workerVars>>
      /\ \/ stage = "collect" /\ stage' = "unwind"
         \/ stage = "unwind" /\ stage' = "stop"
         \/ stage \in {"stop", "snapshot", "kill"} /\ stage' = "leave"
  BY DEF Interrupt
<1>2. interrupts \in Nat /\ interrupts' \in Nat
  <2>1. interrupts \in Nat
    BY DEF SwInv, SwTypeOK
  <2> QED
    BY <1>1, <2>1
<1>3. /\ Points' = Points /\ Active' = Active /\ Popping' = Popping
      /\ AllEnded' = AllEnded /\ SomeRaised' = SomeRaised
      /\ UNCHANGED <<pc, phase, child, processes, rc, summary, rows, late>>
  BY <1>1, Still
<1>5. StartInv' /\ ChildInv' /\ RowsInv'
  BY <1>1, MainStep
<1>6. SwTypeOK'
  BY <1>1, <1>2, <1>3 DEF SwInv, SwTypeOK
<1>7. LateInv' /\ ZeroInv'
  BY <1>1, <1>3 DEF SwInv, LateInv, ZeroInv
<1>8. MainInv'
  <2>1. MainInv
    BY DEF SwInv
  <2>2. CASE stage = "collect" /\ stage' = "unwind"
    <3>0. interrupts = 0
      BY <2>1, <2>2 DEF MainInv
    <3>1. ~(interrupts >= 2) /\ interrupts' = 1
      BY <1>1, <3>0
    <3>2. (\E p \in Points : pc[p] = "cancelled")' => SomeRaised
      BY <1>3, <2>1, <3>1 DEF MainInv
    <3>3. ~stopping'
      BY <1>1, <2>1, <2>2 DEF MainInv
    <3> QED
      BY <1>1, <1>3, <2>2, <3>1, <3>2, <3>3 DEF MainInv
  <2>3. CASE stage = "unwind" /\ stage' = "stop"
    <3>1. interrupts' <= 1 => interrupts # 1
      BY <1>1, <1>2
    <3>2. interrupts' <= 1 => SomeRaised
      BY <2>1, <2>3, <3>1 DEF MainInv
    <3>3. interrupts >= 2 => interrupts' >= 2
      BY <1>1, <1>2
    <3>4. (\E p \in Points : pc[p] = "cancelled")' => interrupts' >= 2 \/ SomeRaised
      BY <1>3, <2>1, <3>3 DEF MainInv
    <3>5. ~stopping'
      BY <1>1, <2>1, <2>3 DEF MainInv
    <3> QED
      BY <1>1, <1>3, <2>3, <3>2, <3>4, <3>5 DEF MainInv
  <2>4. CASE stage \in {"stop", "snapshot", "kill"} /\ stage' = "leave"
    <3>1. interrupts' <= 1 => interrupts <= 1
      BY <1>1, <1>2
    <3>2. interrupts' <= 1 => AllEnded \/ SomeRaised
      BY <2>1, <2>4, <3>1 DEF MainInv
    <3>3. interrupts >= 2 => interrupts' >= 2
      BY <1>1, <1>2
    <3>4. (\E p \in Points : pc[p] = "cancelled")' => interrupts' >= 2 \/ SomeRaised
      BY <1>3, <2>1, <3>3 DEF MainInv
    <3> QED
      BY <1>1, <1>3, <2>4, <3>2, <3>4 DEF MainInv
  <2> QED
    BY <1>1, <2>2, <2>3, <2>4
<1> QED
  BY <1>5, <1>6, <1>7, <1>8 DEF SwInv

\* The executor's __exit__ has seen every future end.
LEMMA UnwoundKeeps ==
  ASSUME SwInv, Unwound
  PROVE  SwInv'
<1>1. /\ stage = "unwind" /\ AllEnded /\ stage' \in {"stop", "exit"}
      /\ UNCHANGED <<args, interrupts, stopping, victims, combined, exit, workerVars>>
  BY DEF Unwound
<1>2. /\ Points' = Points /\ Active' = Active /\ Popping' = Popping
      /\ AllEnded' = AllEnded /\ SomeRaised' = SomeRaised
      /\ UNCHANGED <<pc, phase, child, processes, rc, summary, rows, late>>
  BY <1>1, Still
<1>3. StartInv' /\ ChildInv' /\ RowsInv'
  BY <1>1, MainStep
<1>4. SwTypeOK' /\ LateInv'
  BY <1>1, <1>2 DEF SwInv, SwTypeOK, LateInv
<1>5. exit # "0"
  BY <1>1 DEF SwInv, MainInv
<1>6. MainInv' /\ ZeroInv'
  BY <1>1, <1>2, <1>5 DEF SwInv, MainInv, ZeroInv
<1> QED
  BY <1>3, <1>4, <1>6 DEF SwInv

\* _stopping is set: the children not yet started by then are the late ones.
LEMMA StopKeeps ==
  ASSUME SwInv, Stop
  PROVE  SwInv'
<1>1. /\ stage = "stop" /\ stopping' = TRUE /\ stage' = "snapshot"
      /\ UNCHANGED <<args, interrupts, victims, combined, exit, workerVars>>
  BY DEF Stop
<1>2. /\ Points' = Points /\ Active' = Active /\ Popping' = Popping
      /\ AllEnded' = AllEnded /\ SomeRaised' = SomeRaised
      /\ UNCHANGED <<pc, phase, child, processes, rc, summary, rows, late>>
  BY <1>1, Still
<1>3. StartInv' /\ ChildInv' /\ RowsInv'
  BY <1>1, MainStep
<1>4. SwTypeOK' /\ LateInv'
  BY <1>1, <1>2 DEF SwInv, SwTypeOK, LateInv
<1>5. exit # "0"
  BY <1>1 DEF SwInv, MainInv
<1>6. MainInv' /\ ZeroInv'
  BY <1>1, <1>2, <1>5 DEF SwInv, MainInv, ZeroInv
<1> QED
  BY <1>3, <1>4, <1>6 DEF SwInv

\* The processes are listed.
LEMMA SnapshotKeeps ==
  ASSUME SwInv, Snapshot
  PROVE  SwInv'
<1>1. /\ stage = "snapshot" /\ victims' = processes /\ stage' = "kill"
      /\ UNCHANGED <<args, interrupts, stopping, combined, exit, workerVars>>
  BY DEF Snapshot
<1>2. /\ Points' = Points /\ Active' = Active /\ Popping' = Popping
      /\ AllEnded' = AllEnded /\ SomeRaised' = SomeRaised
      /\ UNCHANGED <<pc, phase, child, processes, rc, summary, rows, late>>
  BY <1>1, Still
<1>3. StartInv' /\ ChildInv' /\ RowsInv'
  BY <1>1, MainStep
<1>4. SwTypeOK' /\ LateInv'
  BY <1>1, <1>2 DEF SwInv, SwTypeOK, LateInv
<1>5. exit # "0"
  BY <1>1 DEF SwInv, MainInv
<1>6. MainInv' /\ ZeroInv'
  BY <1>1, <1>2, <1>5 DEF SwInv, MainInv, ZeroInv
<1> QED
  BY <1>3, <1>4, <1>6 DEF SwInv

\* The interpreter has joined the threads.
LEMMA LeaveKeeps ==
  ASSUME SwInv, Leave
  PROVE  SwInv'
<1>1. /\ stage = "leave" /\ AllEnded /\ stage' = "exit"
      /\ UNCHANGED <<args, interrupts, stopping, victims, combined, exit, workerVars>>
  BY DEF Leave
<1>2. /\ Points' = Points /\ Active' = Active /\ Popping' = Popping
      /\ AllEnded' = AllEnded /\ SomeRaised' = SomeRaised
      /\ UNCHANGED <<pc, phase, child, processes, rc, summary, rows, late>>
  BY <1>1, Still
<1>3. StartInv' /\ ChildInv' /\ RowsInv'
  BY <1>1, MainStep
<1>4. SwTypeOK' /\ LateInv'
  BY <1>1, <1>2 DEF SwInv, SwTypeOK, LateInv
<1>5. exit # "0"
  BY <1>1 DEF SwInv, MainInv
<1>6. MainInv' /\ ZeroInv'
  BY <1>1, <1>2, <1>5 DEF SwInv, MainInv, ZeroInv
<1> QED
  BY <1>3, <1>4, <1>6 DEF SwInv

\* A listed process gets SIGTERM if it is still alive.
LEMMA KillKeeps ==
  ASSUME SwInv, NEW p \in Points, Kill(p)
  PROVE  SwInv'
<1>1. /\ stage = "kill" /\ victims' = victims \ {p}
      /\ child' = IF child[p] = "alive" THEN [child EXCEPT ![p] = "-15"] ELSE child
      /\ UNCHANGED <<args, stage, interrupts, stopping, combined, exit, pc, phase>>
      /\ UNCHANGED <<processes, rc, summary, rows, late>>
  BY DEF Kill
<1>2. child \in [Points -> {"none", "alive", "0", "1", "-15"}]
  BY DEF SwInv, SwTypeOK
<1>3. /\ child' \in [Points -> {"none", "alive", "0", "1", "-15"}]
      /\ \A q \in Points : child'[q] = child[q] \/ (child[q] = "alive" /\ child'[q] = "-15")
  BY <1>1, <1>2
<1>4. Points' = Points
  BY <1>1 DEF Points
<1>5. SwTypeOK'
  BY <1>1, <1>3, <1>4 DEF SwInv, SwTypeOK
<1>6. ChildInv'
  <2>1. ASSUME NEW q \in Points PROVE PointOK(q)'
    <3>1. PointOK(q)
      BY DEF SwInv, ChildInv
    <3> QED
      BY <1>1, <1>3, <3>1 DEF PointOK
  <2> QED
    BY <1>4, <2>1 DEF ChildInv
<1>7. /\ Active' = Active /\ Popping' = Popping /\ AllEnded' = AllEnded
      /\ SomeRaised' = SomeRaised
  BY <1>1, <1>4 DEF Active, Popping, AllEnded, SomeRaised
<1>8. StartInv'
  <2>1. (Valid(args)' <=> Valid(args)) /\ _points(args)' = _points(args)
    BY <1>1
  <2> QED
    BY <1>1, <1>4, <2>1 DEF SwInv, StartInv
<1>9. RowsInv' /\ LateInv'
  BY <1>1, <1>4, <1>7 DEF SwInv, RowsInv, LateInv
<1>10. MainInv' /\ ZeroInv'
  BY <1>1, <1>4, <1>7 DEF SwInv, MainInv, ZeroInv
<1> QED
  BY <1>5, <1>6, <1>8, <1>9, <1>10 DEF SwInv

\* A future that no thread has taken is cancelled.
LEMMA CancelKeeps ==
  ASSUME SwInv, Cancel
  PROVE  SwInv'
<1>1. /\ stage = "kill"
      /\ UNCHANGED <<args, interrupts, stopping, victims, combined, exit>>
      /\ UNCHANGED <<phase, child, processes, rc, summary, rows, late>>
  BY DEF Cancel
<1>2. exit # "0"
  BY <1>1 DEF SwInv, MainInv
<1>3. CASE Queued = {} /\ stage' = "leave" /\ pc' = pc
  <2>1. UNCHANGED workerVars
    BY <1>1, <1>3 DEF workerVars
  <2>2. /\ Points' = Points /\ Active' = Active /\ Popping' = Popping
        /\ AllEnded' = AllEnded /\ SomeRaised' = SomeRaised
    BY <2>1, Still
  <2>3. StartInv' /\ ChildInv' /\ RowsInv'
    BY <1>1, <1>3, <2>1, MainStep
  <2>4. SwTypeOK' /\ LateInv'
    BY <1>1, <1>3, <2>2 DEF SwInv, SwTypeOK, LateInv
  <2>5. MainInv' /\ ZeroInv'
    BY <1>1, <1>2, <1>3, <2>2 DEF SwInv, MainInv, ZeroInv
  <2> QED
    BY <2>3, <2>4, <2>5 DEF SwInv
<1>4. CASE Queued # {} /\ Goto(Min(Queued), "cancelled") /\ stage' = stage
  <2>1. PICK p \in Points : p = Min(Queued) /\ pc[p] = "queued"
    <3>1. Queued \in SUBSET Points /\ Queued \in SUBSET Nat
      BY PointsFinite DEF Queued, SwInv
    <3>2. Min(Queued) \in Queued
      BY <1>4, <3>1, MinIn
    <3> QED
      BY <3>2 DEF Queued
  <2>2. pc \in [Points -> Labels] /\ DOMAIN pc = Points
    BY DEF SwInv, SwTypeOK, Points
  <2>3. /\ pc' \in [Points -> Labels] /\ pc'[p] = "cancelled" /\ DOMAIN pc' = Points
        /\ \A q \in Points : q # p => pc'[q] = pc[q]
    BY <1>4, <2>1, <2>2 DEF Goto, Labels, Ended
  <2>4. Points' = Points
    BY <2>3 DEF Points
  <2>5. SwTypeOK'
    BY <1>1, <1>4, <2>3, <2>4 DEF SwInv, SwTypeOK
  <2>6. StartInv'
    <3>1. (Valid(args)' <=> Valid(args)) /\ _points(args)' = _points(args)
      BY <1>1
    <3> QED
      BY <1>1, <1>4, <2>4, <3>1 DEF SwInv, StartInv
  <2>7. ChildInv'
    <3>1. ASSUME NEW q \in Points PROVE PointOK(q)'
      <4>1. PointOK(q)
        BY DEF SwInv, ChildInv
      <4>2. CASE q = p
        BY <1>1, <2>1, <2>3, <4>1, <4>2 DEF PointOK
      <4>3. CASE q # p
        BY <1>1, <2>3, <4>1, <4>3 DEF PointOK
      <4> QED
        BY <4>2, <4>3
    <3> QED
      BY <2>4, <3>1 DEF ChildInv
  <2>8. RowsInv'
    <3>1. rows \in Seq(Points)
      BY DEF SwInv, SwTypeOK
    <3>2. /\ \A n \in DOMAIN rows : rows[n] \in Points /\ pc[rows[n]] = "done"
          /\ \A q \in Points : pc[q] = "done" => \E n \in DOMAIN rows : rows[n] = q
          /\ IsInjective(rows)
      BY <3>1 DEF SwInv, RowsInv
    <3>3. \A n \in DOMAIN rows : pc'[rows[n]] = "done"
      BY <2>1, <2>3, <3>2
    <3>4. \A q \in Points : pc'[q] = "done" => \E n \in DOMAIN rows : rows[n] = q
      BY <2>3, <3>2
    <3> QED
      BY <1>1, <2>4, <3>2, <3>3, <3>4 DEF RowsInv
  <2>9. Active' = Active /\ Popping' = Popping
    <3>1. p \notin Active /\ p \notin Popping
      BY <2>1 DEF Active, Popping
    <3>2. \A q : q \in Active' <=> q \in Active
      BY <2>3, <2>4, <3>1 DEF Active, Ended
    <3>3. \A q : q \in Popping' <=> q \in Popping
      BY <2>3, <2>4, <3>1 DEF Popping
    <3> QED
      BY <3>2, <3>3
  <2>10. LateInv' /\ ZeroInv'
    BY <1>1, <1>2, <2>9 DEF SwInv, LateInv, ZeroInv
  <2>11. MainInv'
    <3>1. ~AllEnded
      BY <2>1 DEF AllEnded, Ended
    <3>2. SomeRaised => SomeRaised'
      BY <2>1, <2>3, <2>4 DEF SomeRaised
    <3>3. interrupts <= 1 => SomeRaised
      BY <1>1, <3>1 DEF SwInv, MainInv
    <3>4. interrupts >= 2 \/ SomeRaised
      <4>1. interrupts \in Nat
        BY DEF SwInv, SwTypeOK
      <4> QED
        BY <3>3, <4>1
    <3> QED
      BY <1>1, <1>2, <1>4, <3>2, <3>3, <3>4 DEF SwInv, MainInv
  <2> QED
    BY <2>5, <2>6, <2>7, <2>8, <2>10, <2>11 DEF SwInv
<1> QED
  BY <1>3, <1>4 DEF Cancel

-----------------------------------------------------------------------------
(* The theorems.                                                             *)

\* Before the command line is parsed there are no points.
LEMMA SweepInit == Init => SwInv
<1> SUFFICES ASSUME Init PROVE SwInv
  OBVIOUS
<1>1. Points = {} /\ DOMAIN rows = {}
  <2>1. DOMAIN <<>> = {}
    OBVIOUS
  <2> QED
    BY <2>1 DEF Init, Points
<1>2. SwTypeOK
  <2>1. \A S : <<>> \in [{} -> S]
    OBVIOUS
  <2>2. <<>> \in Seq({})
    OBVIOUS
  <2> QED
    BY <1>1, <2>1, <2>2 DEF Init, SwTypeOK
<1>3. StartInv
  <2>1. 0 \in Nat /\ {} = 1 .. 0
    OBVIOUS
  <2> QED
    BY <1>1, <2>1 DEF Init, StartInv
<1>4. ChildInv /\ RowsInv
  BY <1>1 DEF ChildInv, RowsInv, IsInjective
<1>5. MainInv /\ ZeroInv
  BY <1>1 DEF Init, MainInv, ZeroInv
<1>6. LateInv
  <2>1. Active = {} /\ Popping = {}
    BY <1>1 DEF Active, Popping
  <2>2. Cardinality(Popping) = 0
    BY <2>1, FS_EmptySet
  <2>3. late = 0
    BY DEF Init
  <2>4. late + Cardinality(Popping) = 0
    BY <2>2, <2>3
  <2> QED
    BY <2>1, <2>3, <2>4 DEF LateInv
<1> QED
  BY <1>2, <1>3, <1>4, <1>5, <1>6 DEF SwInv

\* A step that changes nothing.
LEMMA SweepStutter ==
  ASSUME SwInv, UNCHANGED vars
  PROVE  SwInv'
<1>1. /\ UNCHANGED <<args, stage, interrupts, stopping, victims, combined, exit>>
      /\ UNCHANGED workerVars
  BY DEF vars, workerVars
<1>2. /\ Points' = Points /\ Active' = Active /\ Popping' = Popping
      /\ AllEnded' = AllEnded /\ SomeRaised' = SomeRaised /\ ChildInv' /\ RowsInv'
      /\ UNCHANGED <<pc, phase, child, processes, rc, summary, rows, late>>
  BY <1>1, Still
<1>3. SwTypeOK' /\ LateInv'
  BY <1>1, <1>2 DEF SwInv, SwTypeOK, LateInv
<1>4. StartInv'
  <2>1. (Valid(args)' <=> Valid(args)) /\ _points(args)' = _points(args)
    BY <1>1
  <2> QED
    BY <1>1, <1>2, <2>1 DEF SwInv, StartInv
<1>5. MainInv' /\ ZeroInv'
  BY <1>1, <1>2 DEF SwInv, MainInv, ZeroInv
<1> QED
  BY <1>2, <1>3, <1>4, <1>5 DEF SwInv

\* The invariant holds in every state, whatever the threads, the children and Ctrl-C do.
THEOREM SweepInvariance == Spec => []SwInv
<1>1. SwInv /\ [Next]_vars => SwInv'
  <2> SUFFICES ASSUME SwInv, [Next]_vars PROVE SwInv'
    OBVIOUS
  <2>1. CASE Main
    BY <2>1, StartKeeps, CollectKeeps, UnwoundKeeps, StopKeeps, SnapshotKeeps, CancelKeeps,
       LeaveKeeps, KillKeeps DEF Main
  <2>2. CASE Interrupt
    BY <2>2, InterruptKeeps
  <2>3. ASSUME NEW p \in Points, Worker(p) PROVE SwInv'
    BY <2>3, TakeKeeps, CheckKeeps, PopenKeeps, AddKeeps, ChildExitsKeeps, WaitKeeps,
       AppendKeeps DEF Worker
  <2>4. CASE UNCHANGED vars
    BY <2>4, SweepStutter
  <2> QED
    BY <2>1, <2>2, <2>3, <2>4 DEF Next
<1> QED
  BY SweepInit, <1>1, PTL DEF Spec

-----------------------------------------------------------------------------
(* The points are numbered in a mixed radix.                                 *)

\* What \div and % give.
LEMMA DivMod ==
  ASSUME NEW a \in Nat, NEW b \in Nat, b > 0
  PROVE  /\ a \div b \in Nat /\ a % b \in Nat /\ a % b < b
         /\ a = (b * (a \div b)) + (a % b)
OBVIOUS

\* Cancelling a factor.
LEMMA MulLess ==
  ASSUME NEW x \in Nat, NEW y \in Nat, NEW b \in Nat, b * x < b * y
  PROVE  x < y
OBVIOUS

\* The quotient of a number below c * b is below c.
LEMMA DivLess ==
  ASSUME NEW a \in Nat, NEW b \in Nat, b > 0, NEW c \in Nat, a < c * b
  PROVE  a \div b < c
<1>1. PICK q \in Nat : q = a \div b
  BY DivMod
<1>2. PICK r \in Nat : r = a % b
  BY DivMod
<1>3. a = (b * q) + r
  BY <1>1, <1>2, DivMod
<1>4. b * q < b * c
  BY <1>3
<1>5. q < c
  BY <1>4, MulLess
<1> QED
  BY <1>1, <1>5

\* Quotient and remainder are determined.
LEMMA DivUnique ==
  ASSUME NEW a \in Nat, NEW b \in Nat, NEW q \in Nat, NEW r \in Nat, r < b, a = (b * q) + r
  PROVE  a \div b = q /\ a % b = r
<1>1. PICK x \in Nat : x = a \div b
  BY DivMod
<1>2. PICK y \in Nat : y = a % b
  BY DivMod
<1>3. a = (b * x) + y /\ y < b
  BY <1>1, <1>2, DivMod
<1>4. ~(x < q)
  <2>1. SUFFICES ASSUME x < q PROVE FALSE
    OBVIOUS
  <2>2. x + 1 <= q
    BY <2>1
  <2>3. b * (x + 1) <= b * q
    BY <2>2
  <2>4. b * (x + 1) = (b * x) + b
    OBVIOUS
  <2> QED
    BY <1>3, <2>3, <2>4
<1>5. ~(q < x)
  <2>1. SUFFICES ASSUME q < x PROVE FALSE
    OBVIOUS
  <2>2. q + 1 <= x
    BY <2>1
  <2>3. b * (q + 1) <= b * x
    BY <2>2
  <2>4. b * (q + 1) = (b * q) + b
    OBVIOUS
  <2> QED
    BY <1>3, <2>3, <2>4
<1>6. x = q
  BY <1>4, <1>5
<1> QED
  BY <1>1, <1>2, <1>3, <1>6

\* Dividing twice.
LEMMA DivDiv ==
  ASSUME NEW a \in Nat, NEW b \in Nat, NEW c \in Nat, b > 0, c > 0
  PROVE  a \div (b * c) = (a \div c) \div b
<1>1. PICK q \in Nat : q = a \div c
  BY DivMod
<1>2. PICK r \in Nat : r = a % c
  BY DivMod
<1>3. a = (c * q) + r /\ r < c
  BY <1>1, <1>2, DivMod
<1>4. PICK x \in Nat : x = q \div b
  BY DivMod
<1>5. PICK y \in Nat : y = q % b
  BY DivMod
<1>6. q = (b * x) + y /\ y < b
  BY <1>4, <1>5, DivMod
<1>7. PICK z \in Nat : z = (c * y) + r
  OBVIOUS
<1>8. z < b * c
  <2>1. y + 1 <= b
    BY <1>6
  <2>2. c * (y + 1) <= c * b
    BY <2>1
  <2>3. c * (y + 1) = (c * y) + c
    OBVIOUS
  <2>4. c * b = b * c
    OBVIOUS
  <2> QED
    BY <1>3, <1>7, <2>2, <2>3, <2>4
<1>9. a = ((b * c) * x) + z
  <2>1. c * ((b * x) + y) = ((b * c) * x) + (c * y)
    OBVIOUS
  <2> QED
    BY <1>3, <1>6, <1>7, <2>1
<1>10. b * c \in Nat
  OBVIOUS
<1>11. a \div (b * c) = x
  BY <1>8, <1>9, <1>10, DivUnique
<1> QED
  BY <1>1, <1>4, <1>11

\* Two numbers stand for different combinations: the sweep runs each one once (_points).
LEMMA PointsInjective ==
  ASSUME NEW a \in Args, Valid(a)
  PROVE  IsInjective(_points(a)) /\ IsFiniteSet(DOMAIN _points(a))
<1> DEFINE T == Len(a.top_passes)
           S == Len(a.strategies)
           W == Len(a.window_sizes)
           N == T * S * W
           I(n) == (n - 1) \div (S * W)
           J(n) == ((n - 1) \div W) % S
           K(n) == (n - 1) % W
<1>1. /\ a.top_passes \in Seq(Int) /\ a.window_sizes \in Seq(Int) /\ a.strategies \in Seq(STRING)
  BY SweepAssumption
<1>2. /\ T \in Nat /\ S \in Nat /\ W \in Nat
      /\ DOMAIN a.top_passes = 1 .. T /\ DOMAIN a.strategies = 1 .. S /\ DOMAIN a.window_sizes = 1 .. W
  BY <1>1
<1>3. /\ \A x, y \in 1 .. T : a.top_passes[x] = a.top_passes[y] => x = y
      /\ \A x, y \in 1 .. S : a.strategies[x] = a.strategies[y] => x = y
      /\ \A x, y \in 1 .. W : a.window_sizes[x] = a.window_sizes[y] => x = y
  BY <1>2 DEF Valid, _positive_ints, IsInjective
<1>4. _points(a) = [n \in 1 .. N |-> <<a.top_passes[I(n) + 1], a.strategies[J(n) + 1], a.window_sizes[K(n) + 1]>>]
  BY DEF _points
<1> HIDE DEF T, S, W, N
<1>5. N \in Nat /\ S * W \in Nat
  BY <1>2 DEF N
<1>6. ASSUME NEW n \in 1 .. N
      PROVE  /\ n - 1 \in Nat /\ S > 0 /\ W > 0
             /\ (n - 1) \div W \in Nat
             /\ I(n) = ((n - 1) \div W) \div S
             /\ I(n) \in Nat /\ I(n) < T
             /\ J(n) \in Nat /\ J(n) < S
             /\ K(n) \in Nat /\ K(n) < W
  <2>1. n \in Nat /\ n >= 1 /\ n <= N
    BY <1>5
  <2>2. PICK m \in Nat : m = n - 1 /\ m < N
    BY <1>5, <2>1
  <2>3. N = T * (S * W) /\ N = (T * S) * W
    BY <1>2 DEF N
  <2>4. W > 0 /\ S > 0
    <3>1. W # 0 /\ S # 0
      BY <1>2, <2>2, <2>3
    <3> QED
      BY <1>2, <3>1
  <2>5. S * W > 0
    BY <1>2, <2>4
  <2>6. m \div (S * W) < T
    BY <1>2, <1>5, <2>2, <2>3, <2>5, DivLess
  <2>7. m \div (S * W) = (m \div W) \div S
    BY <1>2, <2>4, DivDiv
  <2>8. m \div (S * W) \in Nat
    BY <1>5, <2>5, DivMod
  <2>9. m \div W \in Nat /\ m % W \in Nat /\ m % W < W
    BY <1>2, <2>4, DivMod
  <2>10. (m \div W) % S \in Nat /\ (m \div W) % S < S
    BY <1>2, <2>4, <2>9, DivMod
  <2> QED
    BY <2>2, <2>4, <2>6, <2>7, <2>8, <2>9, <2>10
<1>7. ASSUME NEW x \in 1 .. N, NEW y \in 1 .. N, _points(a)[x] = _points(a)[y]
      PROVE  x = y
  <2>1. /\ a.top_passes[I(x) + 1] = a.top_passes[I(y) + 1]
        /\ a.strategies[J(x) + 1] = a.strategies[J(y) + 1]
        /\ a.window_sizes[K(x) + 1] = a.window_sizes[K(y) + 1]
    BY <1>4, <1>7
  <2> HIDE DEF I, J, K
  <2>2. /\ I(x) + 1 \in 1 .. T /\ I(y) + 1 \in 1 .. T
        /\ J(x) + 1 \in 1 .. S /\ J(y) + 1 \in 1 .. S
        /\ K(x) + 1 \in 1 .. W /\ K(y) + 1 \in 1 .. W
    <3>1. /\ I(x) \in Nat /\ I(x) < T /\ J(x) \in Nat /\ J(x) < S /\ K(x) \in Nat /\ K(x) < W
      BY <1>6
    <3>2. /\ I(y) \in Nat /\ I(y) < T /\ J(y) \in Nat /\ J(y) < S /\ K(y) \in Nat /\ K(y) < W
      BY <1>6
    <3>3. \A i, n \in Nat : i < n => i + 1 \in 1 .. n
      OBVIOUS
    <3>4. T \in Nat /\ S \in Nat /\ W \in Nat
      BY <1>2
    <3> QED
      BY <3>1, <3>2, <3>3, <3>4, Zenon
  <2>3. I(x) + 1 = I(y) + 1 /\ J(x) + 1 = J(y) + 1 /\ K(x) + 1 = K(y) + 1
    BY <1>3, <2>1, <2>2
  <2>4. I(x) = I(y) /\ J(x) = J(y) /\ K(x) = K(y)
    BY <1>6, <2>3
  <2>5. PICK m \in Nat : m = x - 1
    BY <1>6
  <2>6. PICK k \in Nat : k = y - 1
    BY <1>6
  <2>7. PICK qm \in Nat : qm = m \div W
    BY <1>6, <2>5
  <2>8. PICK qk \in Nat : qk = k \div W
    BY <1>6, <2>6
  <2>9. qm \div S = qk \div S /\ qm % S = qk % S /\ m % W = k % W
    <3>1. I(x) = qm \div S /\ I(y) = qk \div S
      BY <1>6, <2>5, <2>6, <2>7, <2>8
    <3>2. J(x) = qm % S /\ J(y) = qk % S /\ K(x) = m % W /\ K(y) = k % W
      BY <2>5, <2>6, <2>7, <2>8 DEF J, K
    <3> QED
      BY <2>4, <3>1, <3>2
  <2>10. qm = (S * (qm \div S)) + (qm % S) /\ qk = (S * (qk \div S)) + (qk % S)
    BY <1>2, <1>6, DivMod
  <2>11. qm = qk
    BY <2>9, <2>10
  <2>12. m = (W * qm) + (m % W) /\ k = (W * qk) + (k % W)
    BY <1>2, <1>6, <2>7, <2>8, DivMod
  <2>13. m = k
    BY <2>9, <2>11, <2>12
  <2>14. x \in Nat /\ y \in Nat
    BY <1>5
  <2> QED
    BY <2>5, <2>6, <2>13, <2>14
<1>8. DOMAIN _points(a) = 1 .. N
  BY <1>4
<1>9. IsInjective(_points(a))
  BY <1>7, <1>8 DEF IsInjective
<1>10. IsFiniteSet(1 .. N)
  BY <1>5, FS_Interval
<1> QED
  BY <1>8, <1>9, <1>10

\* A finite function without repetitions has as many values as arguments.
LEMMA InjectiveSize ==
  ASSUME NEW f, IsFiniteSet(DOMAIN f), IsInjective(f)
  PROVE  Cardinality(Range(f)) = Cardinality(DOMAIN f)
<1> DEFINE g == [x \in DOMAIN f |-> f[x]]
<1>1. g \in Bijection(DOMAIN f, Range(f))
  BY DEF Bijection, Injection, Surjection, Range, IsInjective
<1>2. ExistsBijection(DOMAIN f, Range(f))
  BY <1>1 DEF ExistsBijection
<1> QED
  BY <1>2, FS_Bijection

-----------------------------------------------------------------------------
(* The properties.                                                           *)

\* Status 0 means that every combination succeeded, has one row and has its table
\* in the combined summary, once (SweepRunner.run, _write_combined_summary).
THEOREM ZeroRight == Spec => []ZeroMeansAll
<1>1. ASSUME SwInv PROVE ZeroMeansAll
  <2>1. SUFFICES ASSUME exit = "0" PROVE ZeroMeansAll
    BY DEF ZeroMeansAll
  <2>2. /\ \A p \in Points : pc[p] = "done" /\ rc[p].run = "0" /\ rc[p].summary = "0"
        /\ combined = DOMAIN rows
    BY <1>1, <2>1 DEF SwInv, ZeroInv
  <2>3. \A p \in Points : rc[p] = [run |-> "0", summary |-> "0"]
    <3>1. rc \in [Points -> [run : Codes, summary : Codes]]
      BY <1>1 DEF SwInv, SwTypeOK
    <3>2. ASSUME NEW p \in Points PROVE rc[p] = [run |-> "0", summary |-> "0"]
      <4>1. rc[p] \in [run : Codes, summary : Codes] /\ rc[p].run = "0" /\ rc[p].summary = "0"
        BY <2>2, <3>1
      <4> QED
        BY <4>1
    <3> QED
      BY <3>2
  <2>4. rows \in Seq(Points)
    BY <1>1 DEF SwInv, SwTypeOK
  <2>5. IsInjective(rows) /\ \A p \in Points : \E n \in DOMAIN rows : rows[n] = p
    BY <1>1, <2>2 DEF SwInv, RowsInv
  <2>6. \A n \in DOMAIN rows : rows[n] \in Points
    BY <2>4
  <2>7. Range(rows) = Points
    BY <2>5, <2>6 DEF Range
  <2>8. Valid(args) /\ Points = DOMAIN _points(args) /\ args \in Args
    BY <1>1, <2>1 DEF SwInv, StartInv, SwTypeOK
  <2>9. Cardinality(Range(_points(args))) = Cardinality(Points)
    <3>1. IsInjective(_points(args)) /\ IsFiniteSet(DOMAIN _points(args))
      BY <2>8, PointsInjective
    <3> QED
      BY <2>8, <3>1, InjectiveSize
  <2> QED
    BY <2>2, <2>3, <2>5, <2>7, <2>9 DEF ZeroMeansAll
<1> QED
  BY <1>1, SweepInvariance, PTL

\* One Ctrl-C stops nothing, a thread starts at most the child it had decided to start
\* before stop(), and no child outlives the program (SweepRunner.run, stop, _run_point).
THEOREM InterruptRight == Spec => []InterruptOutcome
<1>1. ASSUME SwInv PROVE InterruptOutcome
  <2>1. stage = "exit" => AllEnded
    BY <1>1 DEF SwInv, MainInv
  <2>2. stage = "exit" => processes = {} /\ \A p \in Points : child[p] # "alive"
    <3>1. SUFFICES ASSUME stage = "exit" PROVE processes = {} /\ \A p \in Points : child[p] # "alive"
      OBVIOUS
    <3>2. \A p \in Points : PointOK(p) /\ pc[p] \in Ended
      BY <1>1, <2>1, <3>1 DEF SwInv, ChildInv, AllEnded
    <3>3. processes \in SUBSET Points
      BY <1>1 DEF SwInv, SwTypeOK
    <3> QED
      BY <3>2, <3>3 DEF PointOK, Ended
  <2>3. late = 0 \/ late <= args.jobs
    <3>1. args.jobs \in Int /\ late \in Nat
      BY <1>1, SweepAssumption DEF SwInv, SwTypeOK
    <3>2. Cardinality(Popping) \in Nat
      BY <1>1, ActiveFinite DEF SwInv
    <3>3. late + Cardinality(Popping) = 0 \/ late + Cardinality(Popping) <= args.jobs
      BY <1>1 DEF SwInv, LateInv
    <3> QED
      BY <3>1, <3>2, <3>3
  <2>4. ASSUME stage = "exit", interrupts <= 1, \A p \in Points : pc[p] # "raised"
        PROVE  Range(rows) = Points
    <3>1. ~(interrupts >= 2)
      <4>1. interrupts \in Nat
        BY <1>1 DEF SwInv, SwTypeOK
      <4> QED
        BY <2>4, <4>1
    <3>2. ~SomeRaised
      BY <2>4 DEF SomeRaised
    <3>3. \A p \in Points : pc[p] = "done"
      BY <1>1, <2>1, <2>4, <3>1, <3>2 DEF SwInv, MainInv, AllEnded, Ended
    <3>4. rows \in Seq(Points)
      BY <1>1 DEF SwInv, SwTypeOK
    <3>5. \A p \in Points : \E n \in DOMAIN rows : rows[n] = p
      BY <1>1, <3>3 DEF SwInv, RowsInv
    <3>6. \A n \in DOMAIN rows : rows[n] \in Points
      BY <3>4
    <3> QED
      BY <3>5, <3>6 DEF Range
  <2> QED
    BY <2>2, <2>3, <2>4 DEF InterruptOutcome
<1> QED
  BY <1>1, SweepInvariance, PTL
=============================================================================
