----------------------------- MODULE BatchRunner -----------------------------
(***************************************************************************)
(* The parallel batch of bug cases: GenerationRunner.run and _run_case of  *)
(* tools/ibex_sbfl_batch/.../runner.py over the ProcessRegistry of         *)
(* workspace.py (AnalysisRunner of analysis.py has the same structure).    *)
(* Worker threads of a ThreadPoolExecutor take cases; each copies a        *)
(* private workdir, runs patch, the build and the SBFL binary in it as     *)
(* child processes, and removes the workdir.  The main thread writes one   *)
(* row per finished case and handles Ctrl-C and exceptions.                *)
(***************************************************************************)
EXTENDS Naturals, Sequences, FiniteSets

CONSTANTS NumCases,   \* number of bug cases
          Jobs,       \* ExecutionConfig.jobs, the size of the thread pool
          None

ASSUME ConstantsAssumption ==
  /\ NumCases \in Nat \ {0}      \* _validate: no bug cases selected
  /\ Jobs \in Nat \ {0}          \* _validate: jobs must be positive

Cases == 1 .. NumCases

VARIABLES
  execution,   \* the switches of ExecutionConfig; never change
  main,        \* where the main thread is in run()
  why,         \* what made it leave the loop: None, "interrupt" or "error"
  at,          \* at[c]: where the thread that runs case c is, or its future's state
  cmd,         \* cmd[c]: the command the thread runs, or ran last
  child,       \* child[c]: the state of the child process of that command
  rc,          \* rc[c]: its return code, zero or not
  signalled,   \* the cases whose running child got SIGTERM
  registry,    \* ProcessRegistry._processes, by case
  snapshot,    \* terminate_all's list: the command of c still to look at, or None
  workdir,     \* the cases whose workdir exists
  status,      \* status[c]: the status of the case once decided
  yielded,     \* the futures as_completed has yielded
  rows,        \* run_status.tsv
  ran          \* ran[c]: the commands of c that returned zero (ghost)

vars == <<execution, main, why, at, cmd, child, rc, signalled, registry,
          snapshot, workdir, status, yielded, rows, ran>>

-----------------------------------------------------------------------------

Execution == [dry_run : BOOLEAN, keep_workdir : BOOLEAN, disassemble : BOOLEAN]

Command == {"patch", "build", "sbfl"}

\* The commands before the given one, and the one after it.
Before == [k \in Command |-> IF k = "patch" THEN << >>
                            ELSE IF k = "build" THEN <<"patch">>
                            ELSE <<"patch", "build">>]

NextCommand == [k \in {"patch", "build"} |-> IF k = "patch" THEN "build" ELSE "sbfl"]

FailStatus == [k \in Command |-> IF k = "patch" THEN "APPLY_FAIL"
                                ELSE IF k = "build" THEN "BUILD_FAIL"
                                ELSE "SBFL_FAIL"]

Status == {"OK", "DIFF_MISSING", "CORPUS_MISSING", "COPY_FAIL", "APPLY_FAIL",
           "BUILD_FAIL", "SBFL_BIN_MISSING", "SBFL_FAIL", "RAISED"}

\* None is a value of its own.
ASSUME NoneAssumption == None \notin Status \union Command \union {"interrupt", "error"}

\* The states of a future that no thread runs yet or any more, and the places
\* of a thread in _run_case.
Waiting == {"unsubmitted", "queued", "cancelled"}
InCase  == {"begin", "copy", "popen", "add", "wait", "disassemble", "clean"}

MainState == {"submit", "collect", "snapshot", "kill", "cancel", "shutdown",
              "join", "exited"}

Busy == {c \in Cases : at[c] \in InCase}
Queued == {c \in Cases : at[c] = "queued"}

Init ==
  /\ execution \in Execution
  /\ main = "submit" /\ why = None
  /\ at = [c \in Cases |-> "unsubmitted"]
  /\ cmd = [c \in Cases |-> "patch"]
  /\ child = [c \in Cases |-> "none"]
  /\ rc = [c \in Cases |-> "zero"]
  /\ signalled = {} /\ registry = {} /\ workdir = {}
  /\ snapshot = [c \in Cases |-> None]
  /\ status = [c \in Cases |-> None]
  /\ yielded = {} /\ rows = << >>
  /\ ran = [c \in Cases |-> << >>]

-----------------------------------------------------------------------------
(***************************************************************************)
(* A worker thread running a case.                                         *)
(***************************************************************************)

mainVars == <<main, why, snapshot, yielded, rows>>
childVars == <<cmd, child, rc, signalled, registry, ran>>

Go(c, place) == at' = [at EXCEPT ![c] = place]

\* _finish: the status is decided and the thread goes to the finally clause.  Appending it to the
\* files of the case may raise, as may what leads to it (the logs, the arguments of a command).
Finish(c, s) == Go(c, "clean") /\ \E r \in {s, "RAISED"} : status' = [status EXCEPT ![c] = r]

\* The pool: an idle worker takes the oldest future still pending.
Take(c) ==
  /\ at[c] = "queued" /\ \A d \in Queued : c <= d
  /\ Cardinality(Busy) < Jobs
  /\ Go(c, "begin")
  /\ UNCHANGED <<execution, childVars, mainVars, workdir, status>>

\* Creating the log directory may raise, before the try block; then the diff
\* and the corpus are looked for, and a dry run ends here.
Begin(c) ==
  /\ at[c] = "begin"
  /\ \/ Go(c, "ended") /\ status' = [status EXCEPT ![c] = "RAISED"]
     \/ \E s \in {"DIFF_MISSING", "CORPUS_MISSING"} : Finish(c, s)
     \/ execution.dry_run /\ Finish(c, "OK")
     \/ ~execution.dry_run /\ Go(c, "copy") /\ UNCHANGED status
  /\ UNCHANGED <<execution, childVars, mainVars, workdir>>

\* copy_workdir makes the directory first; it may fail before or after that.
Copy(c) ==
  /\ at[c] = "copy"
  /\ \/ workdir' = workdir \union {c} /\ Go(c, "popen") /\ UNCHANGED status
     \/ workdir' \in {workdir, workdir \union {c}} /\ Finish(c, "COPY_FAIL")
  /\ UNCHANGED <<execution, childVars, mainVars>>

\* ProcessRegistry.run starts the child in a session of its own, so that Ctrl-C
\* at the terminal does not reach it.  Starting it may raise.
Popen(c) ==
  /\ at[c] = "popen"
  /\ \/ /\ child' = [child EXCEPT ![c] = "running"]
        /\ Go(c, "add") /\ UNCHANGED status
     \/ Finish(c, "RAISED") /\ UNCHANGED child
  /\ UNCHANGED <<execution, cmd, rc, signalled, registry, ran, mainVars, workdir>>

\* Only then is it entered into the registry, under the lock.
Add(c) ==
  /\ at[c] = "add"
  /\ registry' = registry \union {c}
  /\ Go(c, "wait")
  /\ UNCHANGED <<execution, cmd, child, rc, signalled, ran, mainVars, workdir, status>>

\* The child ends; one that got SIGTERM does not return zero.
ChildExits(c) ==
  /\ child[c] = "running"
  /\ child' = [child EXCEPT ![c] = "exited"]
  /\ \E code \in (IF c \in signalled THEN {"other"} ELSE {"zero", "other"}) :
       rc' = [rc EXCEPT ![c] = code]
  /\ UNCHANGED <<execution, at, cmd, signalled, registry, ran, mainVars, workdir, status>>

\* After a command that returned zero: the next one, the end of the case, or
\* the SBFL binary is missing although the build succeeded.
Succeeded(c) ==
  \/ /\ cmd[c] # "sbfl"
     /\ cmd' = [cmd EXCEPT ![c] = NextCommand[cmd[c]]]
     /\ Go(c, "popen") /\ UNCHANGED status
  \/ /\ cmd[c] = "build"
     /\ Finish(c, "SBFL_BIN_MISSING") /\ UNCHANGED cmd
  \/ /\ cmd[c] = "sbfl" /\ ~execution.disassemble
     /\ Finish(c, "OK") /\ UNCHANGED cmd

\* After one that did not.
Failed(c) ==
  /\ cmd[c] = "sbfl" => ~execution.disassemble
  /\ Finish(c, FailStatus[cmd[c]]) /\ UNCHANGED cmd

\* The ELF files are disassembled whether the SBFL binary succeeded or not.
ToDisassemble(c) ==
  /\ cmd[c] = "sbfl" /\ execution.disassemble
  /\ Go(c, "disassemble") /\ UNCHANGED <<status, cmd>>

\* (faulty variant: the return code of the build is not looked at)
AfterRun_build_unchecked(c) ==
  /\ at[c] = "wait" /\ child[c] = "exited"
  /\ child' = [child EXCEPT ![c] = "none"]
  /\ registry' = registry \ {c}
  /\ signalled' = signalled \ {c}
  /\ ran' = IF rc[c] = "zero" THEN [ran EXCEPT ![c] = Append(@, cmd[c])] ELSE ran
  /\ \/ (rc[c] = "zero" \/ cmd[c] = "build") /\ Succeeded(c)
     \/ rc[c] # "zero" /\ cmd[c] # "build" /\ Failed(c)
     \/ ToDisassemble(c)
  /\ UNCHANGED <<execution, rc, mainVars, workdir>>

\* wait returns: the process is discarded from the registry and its return
\* code decides what comes next.
AfterRun(c) ==
  /\ at[c] = "wait" /\ child[c] = "exited"
  /\ child' = [child EXCEPT ![c] = "none"]
  /\ registry' = registry \ {c}
  /\ signalled' = signalled \ {c}
  /\ ran' = IF rc[c] = "zero" THEN [ran EXCEPT ![c] = Append(@, cmd[c])] ELSE ran
  /\ \/ rc[c] = "zero" /\ Succeeded(c)
     \/ rc[c] # "zero" /\ Failed(c)
     \/ ToDisassemble(c)
  /\ UNCHANGED <<execution, rc, mainVars, workdir>>

\* disassemble_elfs and then the status; its children are not registered, but
\* share the terminal's process group.
Disassemble(c) ==
  /\ at[c] = "disassemble"
  /\ Finish(c, IF rc[c] = "zero" THEN "OK" ELSE "SBFL_FAIL")
  /\ UNCHANGED <<execution, childVars, mainVars, workdir>>

\* (faulty variant: the workdir of a failed case stays)
Clean_only_ok(c) ==
  /\ at[c] = "clean"
  /\ Go(c, "ended")
  /\ IF c \in workdir /\ ~execution.keep_workdir /\ status[c] = "OK"
     THEN \/ workdir' = workdir \ {c} /\ UNCHANGED status
          \/ status' = [status EXCEPT ![c] = "RAISED"] /\ UNCHANGED workdir
     ELSE UNCHANGED <<workdir, status>>
  /\ UNCHANGED <<execution, childVars, mainVars>>

\* The finally clause removes the workdir; rmtree may raise.
Clean(c) ==
  /\ at[c] = "clean"
  /\ Go(c, "ended")
  /\ IF c \in workdir /\ ~execution.keep_workdir
     THEN \/ workdir' = workdir \ {c} /\ UNCHANGED status
          \/ status' = [status EXCEPT ![c] = "RAISED"] /\ UNCHANGED workdir
     ELSE UNCHANGED <<workdir, status>>
  /\ UNCHANGED <<execution, childVars, mainVars>>

-----------------------------------------------------------------------------
(***************************************************************************)
(* The main thread.                                                        *)
(***************************************************************************)

caseVars == <<cmd, child, rc, ran, workdir, status>>

Submit ==
  /\ main = "submit"
  /\ \E c \in Cases :
       /\ at[c] = "unsubmitted"
       /\ \A d \in Cases : at[d] = "unsubmitted" => c <= d
       /\ Go(c, "queued")
       /\ main' = IF c = NumCases THEN "collect" ELSE "submit"
  /\ UNCHANGED <<execution, why, snapshot, yielded, rows, caseVars, signalled, registry>>

\* (faulty variant: only the futures of successful cases are looked at)
Collect_ok_only(c) ==
  /\ main = "collect" /\ at[c] = "ended" /\ c \notin yielded /\ status[c] = "OK"
  /\ yielded' = yielded \union {c}
  /\ rows' = Append(rows, [case |-> c, status |-> status[c]])
  /\ UNCHANGED <<execution, main, why, snapshot, at, caseVars, signalled, registry>>

\* as_completed yields a finished future: its result becomes a row, or its
\* exception, or one of _append_result, ends the loop.
Collect(c) ==
  /\ main = "collect" /\ at[c] = "ended" /\ c \notin yielded
  /\ yielded' = yielded \union {c}
  /\ \/ main' = "snapshot" /\ why' = "error" /\ UNCHANGED rows
     \/ /\ status[c] # "RAISED"
        /\ rows' = Append(rows, [case |-> c, status |-> status[c]])
        /\ UNCHANGED <<main, why>>
  /\ UNCHANGED <<execution, snapshot, at, caseVars, signalled, registry>>

\* (faulty variant: the loop ends when the pool is idle)
CollectedAll_idle ==
  /\ main = "collect" /\ Queued = {} /\ Busy = {}
  /\ main' = "join"
  /\ UNCHANGED <<execution, why, snapshot, yielded, rows, at, caseVars, signalled, registry>>

\* The loop is over: executor.shutdown() waits for the workers.
CollectedAll ==
  /\ main = "collect" /\ yielded = Cases
  /\ main' = "join"
  /\ UNCHANGED <<execution, why, snapshot, yielded, rows, at, caseVars, signalled, registry>>

\* Ctrl-C: KeyboardInterrupt in the main thread, at most once.
Interrupt ==
  /\ main \in {"submit", "collect"}
  /\ main' = "snapshot" /\ why' = "interrupt"
  /\ UNCHANGED <<execution, snapshot, yielded, rows, at, caseVars, signalled, registry>>

\* terminate_all copies the set of processes under the lock ...
Snapshot ==
  /\ main = "snapshot"
  /\ snapshot' = [c \in Cases |-> IF c \in registry THEN cmd[c] ELSE None]
  /\ main' = "kill"
  /\ UNCHANGED <<execution, why, yielded, rows, at, caseVars, signalled, registry>>

\* ... and signals those that have not exited; the case of one that has may be
\* running its next command by now, which is not signalled.
Kill(c) ==
  /\ main = "kill" /\ snapshot[c] # None
  /\ snapshot' = [snapshot EXCEPT ![c] = None]
  /\ signalled' = IF child[c] = "running" /\ cmd[c] = snapshot[c]
                  THEN signalled \union {c} ELSE signalled
  /\ UNCHANGED <<execution, main, why, yielded, rows, at, caseVars, registry>>

\* After an interrupt the futures are cancelled one by one; after an
\* exception, or when the list of futures was not complete yet and is still
\* empty, only by shutdown.
KilledAll ==
  /\ main = "kill" /\ \A c \in Cases : snapshot[c] = None
  /\ main' = IF why = "interrupt" /\ \A c \in Cases : at[c] # "unsubmitted"
             THEN "cancel" ELSE "shutdown"
  /\ UNCHANGED <<execution, why, snapshot, yielded, rows, at, caseVars, signalled, registry>>

\* future.cancel() has an effect on pending futures only.
Cancel(c) ==
  /\ main = "cancel" /\ at[c] = "queued"
  /\ Go(c, "cancelled")
  /\ UNCHANGED <<execution, mainVars, caseVars, signalled, registry>>

CancelledAll ==
  /\ main = "cancel" /\ Queued = {}
  /\ main' = "shutdown"
  /\ UNCHANGED <<execution, why, snapshot, yielded, rows, at, caseVars, signalled, registry>>

\* shutdown(cancel_futures=True) drains what is still queued.
Shutdown ==
  /\ main = "shutdown"
  /\ main' = "join"
  /\ at' = [c \in Cases |-> IF at[c] = "queued" THEN "cancelled" ELSE at[c]]
  /\ UNCHANGED <<execution, why, snapshot, yielded, rows, caseVars, signalled, registry>>

\* The workers have ended: they are waited for by shutdown or, after an
\* interrupt, by the interpreter as it exits.
Exit ==
  /\ main = "join" /\ Busy = {}
  /\ main' = "exited"
  /\ UNCHANGED <<execution, why, snapshot, yielded, rows, at, caseVars, signalled, registry>>

-----------------------------------------------------------------------------

Worker(c) == \/ Take(c) \/ Begin(c) \/ Copy(c) \/ Popen(c) \/ Add(c)
             \/ AfterRun(c) \/ Disassemble(c) \/ Clean(c)

Main == \/ Submit \/ CollectedAll \/ Snapshot \/ KilledAll \/ CancelledAll
        \/ Shutdown \/ Exit
        \/ \E c \in Cases : Collect(c) \/ Kill(c) \/ Cancel(c)

\* The program has exited.
Done == main = "exited" /\ UNCHANGED vars

Next == \/ Main \/ Interrupt \/ Done
        \/ \E c \in Cases : Worker(c) \/ ChildExits(c)

Spec == Init /\ [][Next]_vars

\* Threads are scheduled, and every command ends by itself (a simulation by
\* its own timeout).
FairSpec == /\ Spec
            /\ WF_vars(Main)
            /\ \A c \in Cases : WF_vars(Worker(c)) /\ WF_vars(ChildExits(c))

-----------------------------------------------------------------------------

\* Type invariant.  An exception of a case never becomes a row.
TypeOK ==
  /\ execution \in Execution
  /\ main \in MainState /\ why \in {None, "interrupt", "error"}
  /\ at \in [Cases -> Waiting \union InCase \union {"ended"}]
  /\ cmd \in [Cases -> Command]
  /\ child \in [Cases -> {"none", "running", "exited"}]
  /\ rc \in [Cases -> {"zero", "other"}]
  /\ signalled \subseteq Cases /\ registry \subseteq Cases
  /\ workdir \subseteq Cases /\ yielded \subseteq Cases
  /\ snapshot \in [Cases -> Command \union {None}]
  /\ status \in [Cases -> Status \union {None}]
  /\ rows \in Seq([case : Cases, status : Status \ {"RAISED"}])
  /\ ran \in [Cases -> Seq(Command)]

\* A workdir is not removed, nor is it missing, while a command of its case is
\* running in it (the finally clause of _run_case against ProcessRegistry.run),
\* whatever interrupts and signals do meanwhile.
ChildHasWorkdir == \A c \in Cases : child[c] = "running" => c \in workdir

\* A case is reported OK only if, for that case, the patch was applied, then
\* the patched sources were built and then the SBFL binary ran, each with
\* return code zero: no status survives a signal or a skipped command.
OkMeansAll ==
  \A i \in 1 .. Len(rows) :
    rows[i].status = "OK" /\ ~execution.dry_run
      => ran[rows[i].case] = <<"patch", "build", "sbfl">>

\* run_status.tsv, which rerun and analysis start from, has at most one row
\* for each case, with the status its thread decided, and one for every case
\* when the run ended by itself.
Reported ==
  /\ \A i, j \in 1 .. Len(rows) : rows[i].case = rows[j].case => i = j
  /\ \A i \in 1 .. Len(rows) : rows[i].status = status[rows[i].case]
  /\ main = "exited" /\ why = None
       => \A c \in Cases : \E i \in 1 .. Len(rows) : rows[i].case = c

\* The program does not exit, not even after Ctrl-C, before all its registered
\* commands have ended and the workdirs are removed (one is kept when it was
\* asked for or rmtree raised).
ExitLeavesNothing ==
  main = "exited" =>
    \A c \in Cases :
      /\ child[c] # "running"
      /\ c \in workdir => execution.keep_workdir \/ status[c] = "RAISED"

\* Once run() has shut the pool down, by whichever path, no further case is
\* started, also when Ctrl-C came before the list of futures existed.
NoStartAfterShutdown ==
  [][(main \in {"join", "exited"}) =>
        \A c \in Cases : at[c] \in Waiting => at'[c] = at[c]]_vars

\* The program ends, interrupted or not.
RunEnds == <>(main = "exited")
=============================================================================
