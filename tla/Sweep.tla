------------------------------- MODULE Sweep -------------------------------
(***************************************************************************)
(* "ibex-sbfl-batch sweep": a pool of threads runs a whole batch and then  *)
(* the summary script for every combination of the swept parameters, each  *)
(* as a child process; the main thread collects, and on Ctrl-C or SIGTERM  *)
(* stops what is left.  Points are numbered in the order of _points.       *)
(***************************************************************************)
EXTENDS Integers, Sequences, SequencesExt, FiniteSetsExt

CONSTANTS Args,              \* command lines: [top_passes, strategies, window_sizes: Seq, jobs: Int]
          WEIGHT_STRATEGIES

ASSUME SweepAssumption ==
  \A a \in Args : /\ a.top_passes \in Seq(Int) /\ a.window_sizes \in Seq(Int)
                  /\ a.strategies \in Seq(STRING) /\ a.jobs \in Int

VARIABLES
  args,        \* the command line
  stage,       \* of the main thread
  interrupts,  \* how often Ctrl-C or SIGTERM came
  stopping,    \* _stopping
  victims,     \* the processes stop() has listed and not yet killed
  pc,          \* [points -> where _run_point is]
  phase,       \* [points -> the child it is about: "run" or "summary"]
  child,       \* [points -> "none", "alive" or the return code]
  processes,   \* _processes: the points whose child is registered
  rc,          \* [points -> [run, summary]]: run_rc and summary_rc
  summary,     \* the points whose summary_tsv exists
  rows,        \* the status file: points in the order of their rows
  combined,    \* the combined summary: the rows of the status file whose table it has
  late,        \* how many children were started after stop()
  exit         \* "", then the exit status or "error"

vars == <<args, stage, interrupts, stopping, victims, pc, phase, child, processes, rc, summary,
          rows, combined, late, exit>>
workerVars == <<pc, phase, child, processes, rc, summary, rows, late>>

-----------------------------------------------------------------------------
(* SweepConfig.from_args                                                   *)

_positive_ints(values) == (\A v \in Range(values) : v > 0) /\ IsInjective(values)
Valid(a) ==
  /\ _positive_ints(a.top_passes) /\ _positive_ints(a.window_sizes)
  /\ Range(a.strategies) \subseteq WEIGHT_STRATEGIES /\ IsInjective(a.strategies)
  /\ a.jobs > 0

\* The Cartesian product; the window size varies fastest.
_points(a) ==
  LET W == Len(a.window_sizes)
      S == Len(a.strategies)
  IN [n \in 1 .. Len(a.top_passes) * S * W |->
        <<a.top_passes[((n - 1) \div (S * W)) + 1], a.strategies[(((n - 1) \div W) % S) + 1],
          a.window_sizes[((n - 1) % W) + 1]>>]

Points == DOMAIN pc
Ended == {"done", "raised", "cancelled"}
\* faulty variant: a future that raised counts as unfinished
AllEndedWell == \A p \in Points : pc[p] \in {"done", "cancelled"}
AllEnded == \A p \in Points : pc[p] \in Ended
Queued == {p \in Points : pc[p] = "queued"}
Active == {p \in Points : pc[p] \notin Ended \cup {"queued"}}

Init ==
  /\ args \in Args /\ stage = "parse" /\ interrupts = 0 /\ stopping = FALSE /\ victims = {}
  /\ pc = <<>> /\ phase = <<>> /\ child = <<>> /\ processes = {} /\ rc = <<>> /\ summary = {}
  /\ rows = <<>> /\ combined = {} /\ late = 0 /\ exit = ""

\* Parsing, then one future for each point.
Start ==
  /\ stage = "parse"
  /\ IF ~Valid(args)
     THEN stage' = "exit" /\ exit' = "error" /\ UNCHANGED <<pc, phase, child, rc>>
     ELSE /\ stage' = "collect" /\ UNCHANGED exit
          /\ pc' = [p \in DOMAIN _points(args) |-> "queued"]
          /\ phase' = [p \in DOMAIN pc' |-> "run"]
          /\ child' = [p \in DOMAIN pc' |-> "none"]
          /\ rc' = [p \in DOMAIN pc' |-> [run |-> "none", summary |-> "none"]]
  /\ UNCHANGED <<args, interrupts, stopping, victims, processes, summary, rows, combined, late>>

-----------------------------------------------------------------------------
(* _run_point, in a thread of the pool                                     *)

mainVars == <<args, stage, interrupts, stopping, victims, combined, exit>>
Goto(p, label) == pc' = [pc EXCEPT ![p] = label]

\* A free thread takes the oldest future.
Take(p) ==
  /\ pc[p] = "queued" /\ p = Min(Queued) /\ Cardinality(Active) < args.jobs
  /\ Goto(p, "check") /\ UNCHANGED <<mainVars, phase, child, processes, rc, summary, rows, late>>

\* _stopping is looked at before each child; making the directories may fail.
Check(p) ==
  /\ pc[p] = "check"
  /\ \/ phase[p] = "run" /\ Goto(p, "raised") /\ UNCHANGED rc
     \/ ~stopping /\ Goto(p, "popen") /\ UNCHANGED rc
     \/ phase[p] = "summary" /\ stopping /\ rc' = [rc EXCEPT ![p].summary = "130"] /\ Goto(p, "append")
  /\ UNCHANGED <<mainVars, phase, child, processes, summary, rows, late>>

\* What _run_point does with a return code.
Returned(p, code) ==
  /\ rc' = [rc EXCEPT ![p][phase[p]] = code]
  /\ phase' = [phase EXCEPT ![p] = "summary"]
  /\ Goto(p, IF phase[p] = "run" THEN "check" ELSE "append")

\* _run_logged: Popen, which may fail, then the registration.
Popen(p) ==
  /\ pc[p] = "popen"
  /\ \/ /\ Goto(p, "add") /\ child' = [child EXCEPT ![p] = "alive"]
        /\ late' = IF stopping THEN late + 1 ELSE late
        /\ UNCHANGED <<phase, rc>>
     \/ Returned(p, "127") /\ UNCHANGED <<child, late>>
  /\ UNCHANGED <<mainVars, processes, summary, rows>>

Add(p) ==
  /\ pc[p] = "add" /\ Goto(p, "wait") /\ processes' = processes \cup {p}
  /\ UNCHANGED <<mainVars, phase, child, rc, summary, rows, late>>

\* The child ends; the summary script has written its table if it succeeded.
ChildExits(p) ==
  /\ child[p] = "alive"
  /\ \E code \in {"0", "1"} :
       /\ child' = [child EXCEPT ![p] = code]
       /\ summary' \in IF phase[p] = "run" THEN {summary}
                       ELSE IF code = "0" THEN {summary \cup {p}} ELSE {summary, summary \cup {p}}
  /\ UNCHANGED <<mainVars, pc, phase, processes, rc, rows, late>>

Wait(p) ==
  /\ pc[p] = "wait" /\ child[p] # "alive"
  /\ Returned(p, child[p])
  /\ child' = [child EXCEPT ![p] = "none"] /\ processes' = processes \ {p}
  /\ UNCHANGED <<mainVars, summary, rows, late>>

\* The row is written under the lock; an exception leaves the file without it.
_append_status(p) ==
  /\ pc[p] = "append"
  /\ \/ Goto(p, "done") /\ rows' = Append(rows, p)
     \/ Goto(p, "raised") /\ UNCHANGED rows
  /\ UNCHANGED <<mainVars, phase, child, processes, rc, summary, late>>

\* faulty variant: the return code of the batch is not looked at
StatusOfSummary(p) == IF rc[p].summary = "0" THEN "OK" ELSE "SUMMARY_FAIL"
Status(p) == IF rc[p].run = "0" /\ rc[p].summary = "0" THEN "OK"
             ELSE IF rc[p].summary # "0" THEN "SUMMARY_FAIL" ELSE "RUN_FAIL"

-----------------------------------------------------------------------------
(* SweepRunner.run, in the main thread                                     *)

\* _write_combined_summary, as far as the row numbered last.
Tables(last) == {n \in 1 .. last : rows[n] \in summary}

\* as_completed: a future that raised ends the collection; otherwise all results are there
\* and the combined summary is written, which may raise half-way.
Collect ==
  /\ stage = "collect"
  /\ \/ /\ \E p \in Points : pc[p] = "raised"
        /\ stage' = "unwind" /\ exit' = "error" /\ UNCHANGED combined
     \/ /\ \A p \in Points : pc[p] = "done"
        /\ \/ /\ combined' = Tables(Len(rows))
              /\ exit' = IF \A p \in Points : Status(p) = "OK" THEN "0" ELSE "1"
           \/ exit' = "error" /\ \E last \in 0 .. Len(rows) : combined' = Tables(last)
        /\ stage' = "exit"
  /\ UNCHANGED <<args, interrupts, stopping, victims, workerVars>>

\* The first Ctrl-C leaves the with block, whose __exit__ waits for all futures; a second
\* one ends this wait, and one more leaves stop() or the cancellations where they are.
Interrupt ==
  /\ \/ stage = "collect" /\ stage' = "unwind"
     \/ stage = "unwind" /\ stage' = "stop"
     \/ stage \in {"stop", "snapshot", "kill"} /\ stage' = "leave"
  /\ interrupts' = interrupts + 1 /\ exit' = "interrupt"
  /\ UNCHANGED <<args, stopping, victims, combined, workerVars>>

\* All futures have ended: the exception goes on, KeyboardInterrupt to stop().
Unwound ==
  /\ stage = "unwind" /\ AllEnded
  /\ stage' = IF exit = "interrupt" THEN "stop" ELSE "exit"
  /\ UNCHANGED <<args, interrupts, stopping, victims, combined, exit, workerVars>>

\* stop(): _stopping is set, then the processes are listed under the lock ...
Stop ==
  /\ stage = "stop" /\ stopping' = TRUE /\ stage' = "snapshot"
  /\ UNCHANGED <<args, interrupts, victims, combined, exit, workerVars>>
Snapshot ==
  /\ stage = "snapshot" /\ victims' = processes /\ stage' = "kill"
  /\ UNCHANGED <<args, interrupts, stopping, combined, exit, workerVars>>
\* ... and their groups get SIGTERM; a process that has ended is left alone.
Kill(p) ==
  /\ stage = "kill" /\ p \in victims /\ victims' = victims \ {p}
  /\ child' = IF child[p] = "alive" THEN [child EXCEPT ![p] = "-15"] ELSE child
  /\ UNCHANGED <<args, stage, interrupts, stopping, combined, exit, pc, phase, processes, rc, summary, rows, late>>

\* The futures that no thread has taken are cancelled, one after the other.
Cancel ==
  /\ stage = "kill" /\ victims = {}
  /\ IF Queued = {} THEN stage' = "leave" /\ UNCHANGED pc
     ELSE Goto(Min(Queued), "cancelled") /\ UNCHANGED stage
  /\ UNCHANGED <<args, interrupts, stopping, victims, combined, exit, phase, child, processes, rc, summary, rows, late>>

\* faulty variant: the threads of the pool are daemons
LeaveWorkers ==
  /\ stage = "leave" /\ stage' = "exit"
  /\ UNCHANGED <<args, interrupts, stopping, victims, combined, exit, workerVars>>
\* The interpreter joins the threads of the pool before it ends.
Leave ==
  /\ stage = "leave" /\ AllEnded /\ stage' = "exit"
  /\ UNCHANGED <<args, interrupts, stopping, victims, combined, exit, workerVars>>

Worker(p) ==
  Take(p) \/ Check(p) \/ Popen(p) \/ Add(p) \/ ChildExits(p) \/ Wait(p) \/ _append_status(p)
Main == Start \/ Collect \/ Unwound \/ Stop \/ Snapshot \/ Cancel \/ Leave \/ \E p \in Points : Kill(p)

Next == Main \/ Interrupt \/ \E p \in Points : Worker(p)

Spec == Init /\ [][Next]_vars

\* Threads are scheduled and children end.
FairSpec == Spec /\ WF_vars(Main) /\ WF_vars(\E p \in Points : Worker(p))

-----------------------------------------------------------------------------
(* Properties                                                              *)

\* Status 0 means that for every combination the batch and the summary both succeeded, that
\* it has one row in the status file, and that its table is in the combined summary, once
\* (SweepRunner.run, _write_combined_summary).
ZeroMeansAll ==
  exit = "0" =>
    /\ \A p \in Points : rc[p] = [run |-> "0", summary |-> "0"]
    /\ combined = DOMAIN rows /\ IsInjective(rows) /\ Range(rows) = Points
    /\ Cardinality(Range(_points(args))) = Cardinality(Points)

\* What Ctrl-C does.  One stops nothing: the executor's __exit__ waits for every point before
\* stop() is called, so unless a point raised, all of them have their row (run).  After stop()
\* a thread starts at most the child it had already decided to start (_run_point).  And when
\* the program has ended, however it ended, no child lives and none is registered, one that
\* stop() missed because it was not registered yet included (stop, _run_logged).
InterruptOutcome ==
  /\ stage = "exit" /\ interrupts <= 1 /\ (\A p \in Points : pc[p] # "raised") => Range(rows) = Points
  /\ late = 0 \/ late <= args.jobs
  /\ stage = "exit" => processes = {} /\ \A p \in Points : child[p] # "alive"

\* The sweep ends, with or without Ctrl-C: stop() and the threads never wait for each other
\* (run, stop).
SweepEnds == <>(stage = "exit")

============================================================================
