-------------------------- MODULE BatchRunner_proofs --------------------------
(***************************************************************************)
(* Proofs about the batch runner, for any number of cases and threads.       *)
(* BatchInv says what the place of a thread in _run_case tells of its        *)
(* process, workdir, status and history, and what the main thread has seen;  *)
(* every property follows from it.                                           *)
(***************************************************************************)
EXTENDS BatchRunner, SequenceTheorems, TLAPS

All == <<"patch", "build", "sbfl">>

\* A thread in ProcessRegistry.run, or about to enter it.
Running == {"popen", "add", "wait"}

\* A process exists only while its thread is in ProcessRegistry.run.
ProcessInv ==
  \A c \in Cases : child[c] # "none" => at[c] \in {"add", "wait"}

\* The workdir exists while commands run and is gone, or kept, afterwards.
WorkdirInv ==
  \A c \in Cases :
    /\ at[c] \in Running => c \in workdir
    /\ at[c] \in Waiting \union {"begin", "copy"} => c \notin workdir
    /\ at[c] = "ended" /\ c \in workdir => execution.keep_workdir \/ status[c] = "RAISED"

\* The commands that have returned zero are those before the present one; the
\* status "OK" is decided only after all of them.
HistoryInv ==
  \A c \in Cases :
    /\ at[c] \in Waiting \union {"begin", "copy"} => cmd[c] = "patch" /\ ran[c] = << >>
    /\ at[c] \in Running => ran[c] = Before[cmd[c]]
    /\ at[c] = "disassemble" /\ rc[c] = "zero" => ran[c] = All
    /\ at[c] \in {"clean", "ended"} /\ status[c] = "OK"
         => execution.dry_run \/ ran[c] = All

\* The status of a case is decided when its thread comes to the finally clause.
StatusInv ==
  \A c \in Cases : at[c] \in {"clean", "ended"} => status[c] # None

\* Rows belong to futures that have been yielded, and those to ended cases.
RowsInv ==
  /\ \A c \in yielded : at[c] = "ended"
  /\ \A i \in 1 .. Len(rows) : /\ rows[i].case \in yielded
                               /\ rows[i].status = status[rows[i].case]
  /\ \A i, j \in 1 .. Len(rows) : rows[i].case = rows[j].case => i = j
  /\ why # "error" => \A c \in yielded : \E i \in 1 .. Len(rows) : rows[i].case = c

\* What the main thread knows when it has left its loop.
MainInv ==
  /\ main \in {"submit", "collect"} => why = None
  /\ main \in {"snapshot", "kill", "cancel", "shutdown"} => why # None
  /\ main \in {"join", "exited"} => \A c \in Cases : at[c] # "queued"
  /\ main \in {"join", "exited"} /\ why = None => yielded = Cases
  /\ main = "exited" => \A c \in Cases : at[c] \notin InCase

BatchInv == /\ TypeOK /\ ProcessInv /\ WorkdirInv /\ HistoryInv /\ StatusInv
            /\ RowsInv /\ MainInv

-----------------------------------------------------------------------------
\* Types are preserved by every step.
LEMMA TypeStep ==
  TypeOK /\ StatusInv /\ [Next]_vars => TypeOK'
<1> SUFFICES ASSUME TypeOK /\ StatusInv, [Next]_vars PROVE TypeOK'
  OBVIOUS
<1> USE ConstantsAssumption
    DEF TypeOK, Execution, MainState, Waiting, InCase, Command, Status
<1>1. ASSUME NEW c \in Cases, Take(c) PROVE TypeOK'
  BY <1>1 DEF Take, Go, mainVars, childVars
<1>2. ASSUME NEW c \in Cases, Begin(c) PROVE TypeOK'
  <2>1. CASE Go(c, "ended") /\ status' = [status EXCEPT ![c] = "RAISED"]
    BY <1>2, <2>1 DEF Begin, Go, mainVars, childVars
  <2>2. CASE \E s \in {"DIFF_MISSING", "CORPUS_MISSING"} : Finish(c, s)
    BY <1>2, <2>2 DEF Begin, Go, Finish, mainVars, childVars
  <2>3. CASE execution.dry_run /\ Finish(c, "OK")
    BY <1>2, <2>3 DEF Begin, Go, Finish, mainVars, childVars
  <2>4. CASE ~execution.dry_run /\ Go(c, "copy") /\ UNCHANGED status
    BY <1>2, <2>4 DEF Begin, Go, mainVars, childVars
  <2> QED
    BY <1>2, <2>1, <2>2, <2>3, <2>4 DEF Begin
<1>3. ASSUME NEW c \in Cases, Copy(c) PROVE TypeOK'
  <2>1. CASE workdir' = workdir \union {c} /\ Go(c, "popen") /\ UNCHANGED status
    BY <1>3, <2>1 DEF Copy, Go, mainVars, childVars
  <2>2. CASE workdir' \in {workdir, workdir \union {c}} /\ Finish(c, "COPY_FAIL")
    BY <1>3, <2>2 DEF Copy, Go, Finish, mainVars, childVars
  <2> QED
    BY <1>3, <2>1, <2>2 DEF Copy
<1>4. ASSUME NEW c \in Cases, Popen(c) PROVE TypeOK'
  <2>1. CASE child' = [child EXCEPT ![c] = "running"] /\ Go(c, "add") /\ UNCHANGED status
    BY <1>4, <2>1 DEF Popen, Go, mainVars
  <2>2. CASE Finish(c, "RAISED") /\ UNCHANGED child
    BY <1>4, <2>2 DEF Popen, Go, Finish, mainVars
  <2> QED
    BY <1>4, <2>1, <2>2 DEF Popen
<1>5. ASSUME NEW c \in Cases, Add(c) PROVE TypeOK'
  BY <1>5 DEF Add, Go, mainVars
<1>6. ASSUME NEW c \in Cases, AfterRun(c) PROVE TypeOK'
  <2>1. ran' \in [Cases -> Seq(Command)]
    <3>1. Append(ran[c], cmd[c]) \in Seq(Command)
      OBVIOUS
    <3> QED
      BY <1>6, <3>1 DEF AfterRun
  <2>2. /\ cmd' \in [Cases -> Command]
        /\ at' \in [Cases -> Waiting \union InCase \union {"ended"}]
        /\ status' \in [Cases -> Status \union {None}]
    <3>1. CASE Succeeded(c)
      <4>1. CASE cmd[c] # "sbfl" /\ cmd' = [cmd EXCEPT ![c] = NextCommand[cmd[c]]]
                 /\ Go(c, "popen") /\ UNCHANGED status
        <5>1. cmd[c] \in {"patch", "build"}
          BY <4>1
        <5>2. NextCommand[cmd[c]] \in Command
          BY <5>1 DEF NextCommand
        <5> QED
          BY <4>1, <5>2 DEF Go
      <4>2. CASE Finish(c, "SBFL_BIN_MISSING") /\ UNCHANGED cmd
        BY <4>2 DEF Finish, Go
      <4>3. CASE Finish(c, "OK") /\ UNCHANGED cmd
        BY <4>3 DEF Finish, Go
      <4> QED
        BY <3>1, <4>1, <4>2, <4>3 DEF Succeeded
    <3>2. CASE Failed(c)
      BY <3>2 DEF Failed, FailStatus, Go, Finish
    <3>3. CASE ToDisassemble(c)
      BY <3>3 DEF ToDisassemble, Go
    <3> QED
      BY <1>6, <3>1, <3>2, <3>3 DEF AfterRun
  <2> QED
    BY <1>6, <2>1, <2>2 DEF AfterRun, mainVars
<1>7. ASSUME NEW c \in Cases, Disassemble(c) PROVE TypeOK'
  BY <1>7 DEF Disassemble, Go, Finish, mainVars, childVars
<1>8. ASSUME NEW c \in Cases, Clean(c) PROVE TypeOK'
  BY <1>8 DEF Clean, Go, mainVars, childVars
<1>9. ASSUME NEW c \in Cases, ChildExits(c) PROVE TypeOK'
  BY <1>9 DEF ChildExits, mainVars
<1>10. ASSUME NEW c \in Cases, Collect(c) PROVE TypeOK'
  <2>1. CASE main' = "snapshot" /\ why' = "error" /\ UNCHANGED rows
    BY <1>10, <2>1 DEF Collect, caseVars
  <2>2. CASE /\ status[c] # "RAISED"
             /\ rows' = Append(rows, [case |-> c, status |-> status[c]])
             /\ UNCHANGED <<main, why>>
    <3> DEFINE S == [case : Cases, status : Status \ {"RAISED"}]
    <3>1. [case |-> c, status |-> status[c]] \in S
      BY <1>10, <2>2 DEF Collect, StatusInv
    <3>2. rows \in Seq(S) /\ rows' = Append(rows, [case |-> c, status |-> status[c]])
      BY <1>10, <2>2 DEF Collect
    <3>3. rows' \in Seq(S)
      <4> HIDE DEF S, TypeOK
      <4> QED
        BY <3>1, <3>2
    <3> QED
      BY <1>10, <2>2, <3>3 DEF Collect, caseVars
  <2> QED
    BY <1>10, <2>1, <2>2 DEF Collect
<1>11. ASSUME NEW c \in Cases, Kill(c) PROVE TypeOK'
  BY <1>11 DEF Kill, caseVars
<1>12. ASSUME NEW c \in Cases, Cancel(c) PROVE TypeOK'
  BY <1>12 DEF Cancel, Go, caseVars, mainVars
<1>13. CASE Submit
  BY <1>13 DEF Submit, Go, caseVars
<1>14. CASE CollectedAll
  BY <1>14 DEF CollectedAll, caseVars
<1>15. CASE Interrupt
  BY <1>15 DEF Interrupt, caseVars
<1>16. CASE Snapshot
  BY <1>16 DEF Snapshot, caseVars
<1>17. CASE KilledAll
  BY <1>17 DEF KilledAll, caseVars
<1>18. CASE CancelledAll
  BY <1>18 DEF CancelledAll, caseVars
<1>19. CASE Shutdown
  BY <1>19 DEF Shutdown, caseVars
<1>20. CASE Exit
  BY <1>20 DEF Exit, caseVars
<1>21. CASE UNCHANGED vars
  BY <1>21 DEF vars
<1> QED
  BY <1>1, <1>2, <1>3, <1>4, <1>5, <1>6, <1>7, <1>8, <1>9, <1>10,
     <1>11, <1>12, <1>13, <1>14, <1>15, <1>16, <1>17, <1>18, <1>19, <1>20, <1>21
     DEF Next, Worker, Main, Done

\* A process stays within the steps of ProcessRegistry.run.
LEMMA ProcessStep ==
  TypeOK /\ ProcessInv /\ [Next]_vars => ProcessInv'
<1> SUFFICES ASSUME TypeOK /\ ProcessInv, [Next]_vars PROVE ProcessInv'
  OBVIOUS
<1> USE ConstantsAssumption
    DEF TypeOK, Execution, MainState, Waiting, InCase, Command, Status, ProcessInv
<1>1. ASSUME NEW c \in Cases, Take(c) PROVE ProcessInv'
  BY <1>1 DEF Take, Go, mainVars, childVars
<1>2. ASSUME NEW c \in Cases, Begin(c) PROVE ProcessInv'
  <2>1. CASE Go(c, "ended") /\ status' = [status EXCEPT ![c] = "RAISED"]
    BY <1>2, <2>1 DEF Begin, Go, mainVars, childVars
  <2>2. CASE \E s \in {"DIFF_MISSING", "CORPUS_MISSING"} : Finish(c, s)
    BY <1>2, <2>2 DEF Begin, Go, Finish, mainVars, childVars
  <2>3. CASE execution.dry_run /\ Finish(c, "OK")
    BY <1>2, <2>3 DEF Begin, Go, Finish, mainVars, childVars
  <2>4. CASE ~execution.dry_run /\ Go(c, "copy") /\ UNCHANGED status
    BY <1>2, <2>4 DEF Begin, Go, mainVars, childVars
  <2> QED
    BY <1>2, <2>1, <2>2, <2>3, <2>4 DEF Begin
<1>3. ASSUME NEW c \in Cases, Copy(c) PROVE ProcessInv'
  <2>1. CASE workdir' = workdir \union {c} /\ Go(c, "popen") /\ UNCHANGED status
    BY <1>3, <2>1 DEF Copy, Go, mainVars, childVars
  <2>2. CASE workdir' \in {workdir, workdir \union {c}} /\ Finish(c, "COPY_FAIL")
    BY <1>3, <2>2 DEF Copy, Go, Finish, mainVars, childVars
  <2> QED
    BY <1>3, <2>1, <2>2 DEF Copy
<1>4. ASSUME NEW c \in Cases, Popen(c) PROVE ProcessInv'
  <2>1. CASE child' = [child EXCEPT ![c] = "running"] /\ Go(c, "add") /\ UNCHANGED status
    BY <1>4, <2>1 DEF Popen, Go, mainVars
  <2>2. CASE Finish(c, "RAISED") /\ UNCHANGED child
    BY <1>4, <2>2 DEF Popen, Go, Finish, mainVars
  <2> QED
    BY <1>4, <2>1, <2>2 DEF Popen
<1>5. ASSUME NEW c \in Cases, Add(c) PROVE ProcessInv'
  BY <1>5 DEF Add, Go, mainVars
<1>6. ASSUME NEW c \in Cases, AfterRun(c) PROVE ProcessInv'
  <2>1. CASE cmd[c] # "sbfl" /\ cmd' = [cmd EXCEPT ![c] = NextCommand[cmd[c]]]
             /\ Go(c, "popen") /\ UNCHANGED status
    BY <1>6, <2>1 DEF AfterRun, Go, mainVars
  <2>2. CASE \E s \in Status : Finish(c, s) /\ UNCHANGED cmd
    BY <1>6, <2>2 DEF AfterRun, Finish, Go, mainVars
  <2>3. CASE ToDisassemble(c)
    BY <1>6, <2>3 DEF AfterRun, ToDisassemble, Go, mainVars
  <2> QED
    BY <1>6, <2>1, <2>2, <2>3 DEF AfterRun, Succeeded, Failed, FailStatus
<1>7. ASSUME NEW c \in Cases, Disassemble(c) PROVE ProcessInv'
  BY <1>7 DEF Disassemble, Go, Finish, mainVars, childVars
<1>8. ASSUME NEW c \in Cases, Clean(c) PROVE ProcessInv'
  BY <1>8 DEF Clean, Go, mainVars, childVars
<1>9. ASSUME NEW c \in Cases, ChildExits(c) PROVE ProcessInv'
  BY <1>9 DEF ChildExits, mainVars
<1>10. ASSUME NEW c \in Cases, Collect(c) PROVE ProcessInv'
  BY <1>10 DEF Collect, caseVars
<1>11. ASSUME NEW c \in Cases, Kill(c) PROVE ProcessInv'
  BY <1>11 DEF Kill, caseVars
<1>12. ASSUME NEW c \in Cases, Cancel(c) PROVE ProcessInv'
  BY <1>12 DEF Cancel, Go, caseVars, mainVars
<1>13. CASE Submit
  BY <1>13 DEF Submit, Go, caseVars
<1>14. CASE CollectedAll
  BY <1>14 DEF CollectedAll, caseVars
<1>15. CASE Interrupt
  BY <1>15 DEF Interrupt, caseVars
<1>16. CASE Snapshot
  BY <1>16 DEF Snapshot, caseVars
<1>17. CASE KilledAll
  BY <1>17 DEF KilledAll, caseVars
<1>18. CASE CancelledAll
  BY <1>18 DEF CancelledAll, caseVars
<1>19. CASE Shutdown
  BY <1>19 DEF Shutdown, caseVars
<1>20. CASE Exit
  BY <1>20 DEF Exit, caseVars
<1>21. CASE UNCHANGED vars
  BY <1>21 DEF vars
<1> QED
  BY <1>1, <1>2, <1>3, <1>4, <1>5, <1>6, <1>7, <1>8, <1>9, <1>10,
     <1>11, <1>12, <1>13, <1>14, <1>15, <1>16, <1>17, <1>18, <1>19, <1>20, <1>21
     DEF Next, Worker, Main, Done

\* Only the finally clause of the case itself removes its workdir.
LEMMA WorkdirStep ==
  TypeOK /\ WorkdirInv /\ [Next]_vars => WorkdirInv'
<1> SUFFICES ASSUME TypeOK /\ WorkdirInv, [Next]_vars PROVE WorkdirInv'
  OBVIOUS
<1> USE ConstantsAssumption
    DEF TypeOK, Execution, MainState, Waiting, InCase, Command, Status, WorkdirInv, Running
<1>1. ASSUME NEW c \in Cases, Take(c) PROVE WorkdirInv'
  BY <1>1 DEF Take, Go, mainVars, childVars
<1>2. ASSUME NEW c \in Cases, Begin(c) PROVE WorkdirInv'
  <2>1. CASE Go(c, "ended") /\ status' = [status EXCEPT ![c] = "RAISED"]
    BY <1>2, <2>1 DEF Begin, Go, mainVars, childVars
  <2>2. CASE \E s \in {"DIFF_MISSING", "CORPUS_MISSING"} : Finish(c, s)
    BY <1>2, <2>2 DEF Begin, Go, Finish, mainVars, childVars
  <2>3. CASE execution.dry_run /\ Finish(c, "OK")
    BY <1>2, <2>3 DEF Begin, Go, Finish, mainVars, childVars
  <2>4. CASE ~execution.dry_run /\ Go(c, "copy") /\ UNCHANGED status
    BY <1>2, <2>4 DEF Begin, Go, mainVars, childVars
  <2> QED
    BY <1>2, <2>1, <2>2, <2>3, <2>4 DEF Begin
<1>3. ASSUME NEW c \in Cases, Copy(c) PROVE WorkdirInv'
  <2>1. CASE workdir' = workdir \union {c} /\ Go(c, "popen") /\ UNCHANGED status
    BY <1>3, <2>1 DEF Copy, Go, mainVars, childVars
  <2>2. CASE workdir' \in {workdir, workdir \union {c}} /\ Finish(c, "COPY_FAIL")
    BY <1>3, <2>2 DEF Copy, Go, Finish, mainVars, childVars
  <2> QED
    BY <1>3, <2>1, <2>2 DEF Copy
<1>4. ASSUME NEW c \in Cases, Popen(c) PROVE WorkdirInv'
  <2>1. CASE child' = [child EXCEPT ![c] = "running"] /\ Go(c, "add") /\ UNCHANGED status
    BY <1>4, <2>1 DEF Popen, Go, mainVars
  <2>2. CASE Finish(c, "RAISED") /\ UNCHANGED child
    BY <1>4, <2>2 DEF Popen, Go, Finish, mainVars
  <2> QED
    BY <1>4, <2>1, <2>2 DEF Popen
<1>5. ASSUME NEW c \in Cases, Add(c) PROVE WorkdirInv'
  BY <1>5 DEF Add, Go, mainVars
<1>6. ASSUME NEW c \in Cases, AfterRun(c) PROVE WorkdirInv'
  <2>1. CASE cmd[c] # "sbfl" /\ cmd' = [cmd EXCEPT ![c] = NextCommand[cmd[c]]]
             /\ Go(c, "popen") /\ UNCHANGED status
    BY <1>6, <2>1 DEF AfterRun, Go, mainVars
  <2>2. CASE \E s \in Status : Finish(c, s) /\ UNCHANGED cmd
    BY <1>6, <2>2 DEF AfterRun, Finish, Go, mainVars
  <2>3. CASE ToDisassemble(c)
    BY <1>6, <2>3 DEF AfterRun, ToDisassemble, Go, mainVars
  <2> QED
    BY <1>6, <2>1, <2>2, <2>3 DEF AfterRun, Succeeded, Failed, FailStatus
<1>7. ASSUME NEW c \in Cases, Disassemble(c) PROVE WorkdirInv'
  BY <1>7 DEF Disassemble, Go, Finish, mainVars, childVars
<1>8. ASSUME NEW c \in Cases, Clean(c) PROVE WorkdirInv'
  BY <1>8 DEF Clean, Go, mainVars, childVars
<1>9. ASSUME NEW c \in Cases, ChildExits(c) PROVE WorkdirInv'
  BY <1>9 DEF ChildExits, mainVars
<1>10. ASSUME NEW c \in Cases, Collect(c) PROVE WorkdirInv'
  BY <1>10 DEF Collect, caseVars
<1>11. ASSUME NEW c \in Cases, Kill(c) PROVE WorkdirInv'
  BY <1>11 DEF Kill, caseVars
<1>12. ASSUME NEW c \in Cases, Cancel(c) PROVE WorkdirInv'
  BY <1>12 DEF Cancel, Go, caseVars, mainVars
<1>13. CASE Submit
  BY <1>13 DEF Submit, Go, caseVars
<1>14. CASE CollectedAll
  BY <1>14 DEF CollectedAll, caseVars
<1>15. CASE Interrupt
  BY <1>15 DEF Interrupt, caseVars
<1>16. CASE Snapshot
  BY <1>16 DEF Snapshot, caseVars
<1>17. CASE KilledAll
  BY <1>17 DEF KilledAll, caseVars
<1>18. CASE CancelledAll
  BY <1>18 DEF CancelledAll, caseVars
<1>19. CASE Shutdown
  BY <1>19 DEF Shutdown, caseVars
<1>20. CASE Exit
  BY <1>20 DEF Exit, caseVars
<1>21. CASE UNCHANGED vars
  BY <1>21 DEF vars
<1> QED
  BY <1>1, <1>2, <1>3, <1>4, <1>5, <1>6, <1>7, <1>8, <1>9, <1>10,
     <1>11, <1>12, <1>13, <1>14, <1>15, <1>16, <1>17, <1>18, <1>19, <1>20, <1>21
     DEF Next, Worker, Main, Done

\* The status is decided before the finally clause.
LEMMA StatusStep ==
  TypeOK /\ StatusInv /\ [Next]_vars => StatusInv'
<1> SUFFICES ASSUME TypeOK /\ StatusInv, [Next]_vars PROVE StatusInv'
  OBVIOUS
<1> USE ConstantsAssumption, NoneAssumption
    DEF TypeOK, Execution, MainState, Waiting, InCase, Command, Status, StatusInv
<1>1. ASSUME NEW c \in Cases, Take(c) PROVE StatusInv'
  BY <1>1 DEF Take, Go, mainVars, childVars
<1>2. ASSUME NEW c \in Cases, Begin(c) PROVE StatusInv'
  <2>1. CASE Go(c, "ended") /\ status' = [status EXCEPT ![c] = "RAISED"]
    BY <1>2, <2>1 DEF Begin, Go, mainVars, childVars
  <2>2. CASE \E s \in {"DIFF_MISSING", "CORPUS_MISSING"} : Finish(c, s)
    BY <1>2, <2>2 DEF Begin, Go, Finish, mainVars, childVars
  <2>3. CASE execution.dry_run /\ Finish(c, "OK")
    BY <1>2, <2>3 DEF Begin, Go, Finish, mainVars, childVars
  <2>4. CASE ~execution.dry_run /\ Go(c, "copy") /\ UNCHANGED status
    BY <1>2, <2>4 DEF Begin, Go, mainVars, childVars
  <2> QED
    BY <1>2, <2>1, <2>2, <2>3, <2>4 DEF Begin
<1>3. ASSUME NEW c \in Cases, Copy(c) PROVE StatusInv'
  <2>1. CASE workdir' = workdir \union {c} /\ Go(c, "popen") /\ UNCHANGED status
    BY <1>3, <2>1 DEF Copy, Go, mainVars, childVars
  <2>2. CASE workdir' \in {workdir, workdir \union {c}} /\ Finish(c, "COPY_FAIL")
    BY <1>3, <2>2 DEF Copy, Go, Finish, mainVars, childVars
  <2> QED
    BY <1>3, <2>1, <2>2 DEF Copy
<1>4. ASSUME NEW c \in Cases, Popen(c) PROVE StatusInv'
  <2>1. CASE child' = [child EXCEPT ![c] = "running"] /\ Go(c, "add") /\ UNCHANGED status
    BY <1>4, <2>1 DEF Popen, Go, mainVars
  <2>2. CASE Finish(c, "RAISED") /\ UNCHANGED child
    BY <1>4, <2>2 DEF Popen, Go, Finish, mainVars
  <2> QED
    BY <1>4, <2>1, <2>2 DEF Popen
<1>5. ASSUME NEW c \in Cases, Add(c) PROVE StatusInv'
  BY <1>5 DEF Add, Go, mainVars
<1>6. ASSUME NEW c \in Cases, AfterRun(c) PROVE StatusInv'
  <2>1. CASE cmd[c] # "sbfl" /\ cmd' = [cmd EXCEPT ![c] = NextCommand[cmd[c]]]
             /\ Go(c, "popen") /\ UNCHANGED status
    BY <1>6, <2>1 DEF AfterRun, Go, mainVars
  <2>2. CASE \E s \in Status : Finish(c, s) /\ UNCHANGED cmd
    BY <1>6, <2>2 DEF AfterRun, Finish, Go, mainVars
  <2>3. CASE ToDisassemble(c)
    BY <1>6, <2>3 DEF AfterRun, ToDisassemble, Go, mainVars
  <2> QED
    BY <1>6, <2>1, <2>2, <2>3 DEF AfterRun, Succeeded, Failed, FailStatus
<1>7. ASSUME NEW c \in Cases, Disassemble(c) PROVE StatusInv'
  BY <1>7 DEF Disassemble, Go, Finish, mainVars, childVars
<1>8. ASSUME NEW c \in Cases, Clean(c) PROVE StatusInv'
  BY <1>8 DEF Clean, Go, mainVars, childVars
<1>9. ASSUME NEW c \in Cases, ChildExits(c) PROVE StatusInv'
  BY <1>9 DEF ChildExits, mainVars
<1>10. ASSUME NEW c \in Cases, Collect(c) PROVE StatusInv'
  BY <1>10 DEF Collect, caseVars
<1>11. ASSUME NEW c \in Cases, Kill(c) PROVE StatusInv'
  BY <1>11 DEF Kill, caseVars
<1>12. ASSUME NEW c \in Cases, Cancel(c) PROVE StatusInv'
  BY <1>12 DEF Cancel, Go, caseVars, mainVars
<1>13. CASE Submit
  BY <1>13 DEF Submit, Go, caseVars
<1>14. CASE CollectedAll
  BY <1>14 DEF CollectedAll, caseVars
<1>15. CASE Interrupt
  BY <1>15 DEF Interrupt, caseVars
<1>16. CASE Snapshot
  BY <1>16 DEF Snapshot, caseVars
<1>17. CASE KilledAll
  BY <1>17 DEF KilledAll, caseVars
<1>18. CASE CancelledAll
  BY <1>18 DEF CancelledAll, caseVars
<1>19. CASE Shutdown
  BY <1>19 DEF Shutdown, caseVars
<1>20. CASE Exit
  BY <1>20 DEF Exit, caseVars
<1>21. CASE UNCHANGED vars
  BY <1>21 DEF vars
<1> QED
  BY <1>1, <1>2, <1>3, <1>4, <1>5, <1>6, <1>7, <1>8, <1>9, <1>10,
     <1>11, <1>12, <1>13, <1>14, <1>15, <1>16, <1>17, <1>18, <1>19, <1>20, <1>21
     DEF Next, Worker, Main, Done

\* The commands that have run before the next one.
LEMMA BeforeNext ==
  /\ Before["patch"] = << >>
  /\ \A k \in {"patch", "build"} : Append(Before[k], k) = Before[NextCommand[k]]
  /\ Append(Before["sbfl"], "sbfl") = All
<1>1. Before["patch"] = << >> /\ Before["build"] = <<"patch">> /\ Before["sbfl"] = <<"patch", "build">>
  BY DEF Before, Command
<1>2. Append(<< >>, "patch") = <<"patch">>
  OBVIOUS
<1>3. Append(<<"patch">>, "build") = <<"patch", "build">>
  <2> DEFINE s == Append(<<"patch">>, "build")
             t == <<"patch", "build">>
  <2>1. s \in Seq(Command) /\ t \in Seq(Command) /\ Len(s) = 2 /\ Len(t) = 2
    BY DEF Command
  <2>2. s[1] = t[1] /\ s[2] = t[2]
    OBVIOUS
  <2> HIDE DEF s, t
  <2>3. s = t
    BY <2>1, <2>2, SeqEqual
  <2> QED
    BY <2>3 DEF s, t
<1>4. Append(<<"patch", "build">>, "sbfl") = All
  <2> DEFINE s == Append(<<"patch", "build">>, "sbfl")
  <2>1. s \in Seq(Command) /\ All \in Seq(Command) /\ Len(s) = 3 /\ Len(All) = 3
    BY DEF Command, All
  <2>2. s[1] = All[1] /\ s[2] = All[2] /\ s[3] = All[3]
    BY DEF All
  <2> HIDE DEF s
  <2> QED
    BY <2>1, <2>2, SeqEqual DEF s
<1>5. NextCommand["patch"] = "build" /\ NextCommand["build"] = "sbfl"
  BY DEF NextCommand
<1> QED
  BY <1>1, <1>2, <1>3, <1>4, <1>5

\* The history of a case follows its place in _run_case.
LEMMA HistoryStep ==
  TypeOK /\ ProcessInv /\ HistoryInv /\ [Next]_vars => HistoryInv'
<1> SUFFICES ASSUME TypeOK /\ ProcessInv /\ HistoryInv, [Next]_vars PROVE HistoryInv'
  OBVIOUS
<1> USE ConstantsAssumption
    DEF TypeOK, Execution, MainState, Waiting, InCase, Command, Status, HistoryInv, Running
<1>1. ASSUME NEW c \in Cases, Take(c) PROVE HistoryInv'
  BY <1>1 DEF Take, Go, mainVars, childVars
<1>2. ASSUME NEW c \in Cases, Begin(c) PROVE HistoryInv'
  <2>1. CASE Go(c, "ended") /\ status' = [status EXCEPT ![c] = "RAISED"]
    BY <1>2, <2>1 DEF Begin, Go, mainVars, childVars
  <2>2. CASE \E s \in {"DIFF_MISSING", "CORPUS_MISSING"} : Finish(c, s)
    BY <1>2, <2>2 DEF Begin, Go, Finish, mainVars, childVars
  <2>3. CASE execution.dry_run /\ Finish(c, "OK")
    BY <1>2, <2>3 DEF Begin, Go, Finish, mainVars, childVars
  <2>4. CASE ~execution.dry_run /\ Go(c, "copy") /\ UNCHANGED status
    BY <1>2, <2>4 DEF Begin, Go, mainVars, childVars
  <2> QED
    BY <1>2, <2>1, <2>2, <2>3, <2>4 DEF Begin
<1>3. ASSUME NEW c \in Cases, Copy(c) PROVE HistoryInv'
  <2>1. CASE workdir' = workdir \union {c} /\ Go(c, "popen") /\ UNCHANGED status
    BY <1>3, <2>1, BeforeNext DEF Copy, Go, mainVars, childVars
  <2>2. CASE workdir' \in {workdir, workdir \union {c}} /\ Finish(c, "COPY_FAIL")
    BY <1>3, <2>2 DEF Copy, Go, Finish, mainVars, childVars
  <2> QED
    BY <1>3, <2>1, BeforeNext, <2>2 DEF Copy
<1>4. ASSUME NEW c \in Cases, Popen(c) PROVE HistoryInv'
  <2>1. CASE child' = [child EXCEPT ![c] = "running"] /\ Go(c, "add") /\ UNCHANGED status
    BY <1>4, <2>1 DEF Popen, Go, mainVars
  <2>2. CASE Finish(c, "RAISED") /\ UNCHANGED child
    BY <1>4, <2>2 DEF Popen, Go, Finish, mainVars
  <2> QED
    BY <1>4, <2>1, <2>2 DEF Popen
<1>5. ASSUME NEW c \in Cases, Add(c) PROVE HistoryInv'
  BY <1>5 DEF Add, Go, mainVars
<1>6. ASSUME NEW c \in Cases, AfterRun(c) PROVE HistoryInv'
  <2> HIDE DEF HistoryInv
  <2>1. SUFFICES ASSUME NEW d \in Cases PROVE
          /\ at'[d] \in Waiting \union {"begin", "copy"} => cmd'[d] = "patch" /\ ran'[d] = << >>
          /\ at'[d] \in Running => ran'[d] = Before[cmd'[d]]
          /\ at'[d] = "disassemble" /\ rc'[d] = "zero" => ran'[d] = All
          /\ at'[d] \in {"clean", "ended"} /\ status'[d] = "OK"
               => execution'.dry_run \/ ran'[d] = All
    BY DEF HistoryInv
  <2>2. ran[c] = Before[cmd[c]]
    BY <1>6 DEF AfterRun, HistoryInv
  <2>3. CASE d # c
    <3>1. /\ at'[d] = at[d] /\ cmd'[d] = cmd[d] /\ status'[d] = status[d]
          /\ ran'[d] = ran[d] /\ rc'[d] = rc[d] /\ execution' = execution
      BY <1>6, <2>3 DEF AfterRun, Succeeded, Failed, ToDisassemble, Go, Finish
    <3> QED
      BY <3>1 DEF HistoryInv
  <2>4. CASE d = c
    <3>1. rc'[c] = rc[c] /\ (rc[c] = "zero" => ran'[c] = Append(ran[c], cmd[c]))
      BY <1>6 DEF AfterRun
    <3>2. CASE rc[c] = "zero" /\ Succeeded(c)
      <4>1. CASE cmd[c] # "sbfl" /\ cmd' = [cmd EXCEPT ![c] = NextCommand[cmd[c]]]
                 /\ Go(c, "popen")
        <5>1. cmd[c] \in {"patch", "build"} /\ cmd'[c] = NextCommand[cmd[c]] /\ at'[c] = "popen"
          BY <4>1 DEF Go
        <5>2. ran'[c] = Append(Before[cmd[c]], cmd[c])
          BY <3>1, <3>2, <2>2
        <5>3. ran'[c] = Before[cmd'[c]]
          BY <5>1, <5>2, BeforeNext
        <5> QED
          BY <2>4, <5>1, <5>3
      <4>2. CASE Finish(c, "SBFL_BIN_MISSING")
        BY <2>4, <4>2 DEF Finish, Go
      <4>3. CASE cmd[c] = "sbfl" /\ Finish(c, "OK")
        <5>1. ran'[c] = All
          BY <3>1, <3>2, <2>2, <4>3, BeforeNext
        <5>2. at'[c] = "clean"
          BY <4>3 DEF Finish, Go
        <5> QED
          BY <2>4, <5>1, <5>2
      <4> QED
        BY <3>2, <4>1, <4>2, <4>3 DEF Succeeded
    <3>3. CASE Failed(c)
      <4>1. at'[c] = "clean" /\ status'[c] # "OK"
        BY <3>3 DEF Failed, FailStatus, Finish, Go
      <4> QED
        BY <2>4, <4>1
    <3>4. CASE ToDisassemble(c)
      <4>1. at'[c] = "disassemble" /\ cmd[c] = "sbfl"
        BY <3>4 DEF ToDisassemble, Go
      <4>2. rc[c] = "zero" => ran'[c] = All
        BY <3>1, <2>2, <4>1, BeforeNext
      <4> QED
        BY <2>4, <3>1, <4>1, <4>2
    <3> QED
      BY <1>6, <3>2, <3>3, <3>4 DEF AfterRun
  <2> QED
    BY <2>3, <2>4
<1>7. ASSUME NEW c \in Cases, Disassemble(c) PROVE HistoryInv'
  BY <1>7 DEF Disassemble, Go, Finish, mainVars, childVars
<1>8. ASSUME NEW c \in Cases, Clean(c) PROVE HistoryInv'
  BY <1>8 DEF Clean, Go, mainVars, childVars
<1>9. ASSUME NEW c \in Cases, ChildExits(c) PROVE HistoryInv'
  <2>1. child[c] = "running" /\ at[c] \in {"add", "wait"} /\ at' = at /\ status' = status
        /\ ran' = ran /\ cmd' = cmd /\ execution' = execution
    BY <1>9 DEF ChildExits, ProcessInv
  <2>2. \A d \in Cases : d # c => rc'[d] = rc[d]
    BY <1>9 DEF ChildExits
  <2> QED
    BY <2>1, <2>2
<1>10. ASSUME NEW c \in Cases, Collect(c) PROVE HistoryInv'
  BY <1>10 DEF Collect, caseVars
<1>11. ASSUME NEW c \in Cases, Kill(c) PROVE HistoryInv'
  BY <1>11 DEF Kill, caseVars
<1>12. ASSUME NEW c \in Cases, Cancel(c) PROVE HistoryInv'
  BY <1>12 DEF Cancel, Go, caseVars, mainVars
<1>13. CASE Submit
  BY <1>13 DEF Submit, Go, caseVars
<1>14. CASE CollectedAll
  BY <1>14 DEF CollectedAll, caseVars
<1>15. CASE Interrupt
  BY <1>15 DEF Interrupt, caseVars
<1>16. CASE Snapshot
  BY <1>16 DEF Snapshot, caseVars
<1>17. CASE KilledAll
  BY <1>17 DEF KilledAll, caseVars
<1>18. CASE CancelledAll
  BY <1>18 DEF CancelledAll, caseVars
<1>19. CASE Shutdown
  BY <1>19 DEF Shutdown, caseVars
<1>20. CASE Exit
  BY <1>20 DEF Exit, caseVars
<1>21. CASE UNCHANGED vars
  BY <1>21 DEF vars
<1> QED
  BY <1>1, <1>2, <1>3, <1>4, <1>5, <1>6, <1>7, <1>8, <1>9, <1>10,
     <1>11, <1>12, <1>13, <1>14, <1>15, <1>16, <1>17, <1>18, <1>19, <1>20, <1>21
     DEF Next, Worker, Main, Done

\* The rows follow the futures that have been yielded.
LEMMA RowsStep ==
  TypeOK /\ MainInv /\ RowsInv /\ [Next]_vars => RowsInv'
<1> SUFFICES ASSUME TypeOK /\ MainInv /\ RowsInv, [Next]_vars PROVE RowsInv'
  OBVIOUS
<1> USE ConstantsAssumption
    DEF TypeOK, Execution, MainState, Waiting, InCase, Command, Status, RowsInv
<1>1. ASSUME NEW c \in Cases, Take(c) PROVE RowsInv'
  BY <1>1 DEF Take, Go, mainVars, childVars
<1>2. ASSUME NEW c \in Cases, Begin(c) PROVE RowsInv'
  <2>1. CASE Go(c, "ended") /\ status' = [status EXCEPT ![c] = "RAISED"]
    BY <1>2, <2>1 DEF Begin, Go, mainVars, childVars
  <2>2. CASE \E s \in {"DIFF_MISSING", "CORPUS_MISSING"} : Finish(c, s)
    BY <1>2, <2>2 DEF Begin, Go, Finish, mainVars, childVars
  <2>3. CASE execution.dry_run /\ Finish(c, "OK")
    BY <1>2, <2>3 DEF Begin, Go, Finish, mainVars, childVars
  <2>4. CASE ~execution.dry_run /\ Go(c, "copy") /\ UNCHANGED status
    BY <1>2, <2>4 DEF Begin, Go, mainVars, childVars
  <2> QED
    BY <1>2, <2>1, <2>2, <2>3, <2>4 DEF Begin
<1>3. ASSUME NEW c \in Cases, Copy(c) PROVE RowsInv'
  <2>1. at[c] # "ended" /\ UNCHANGED <<rows, yielded, why>>
    BY <1>3 DEF Copy, mainVars
  <2>2. \A d \in Cases : d # c => at'[d] = at[d] /\ status'[d] = status[d]
    BY <1>3 DEF Copy, Go, Finish
  <2> QED
    BY <2>1, <2>2
<1>4. ASSUME NEW c \in Cases, Popen(c) PROVE RowsInv'
  <2>1. CASE child' = [child EXCEPT ![c] = "running"] /\ Go(c, "add") /\ UNCHANGED status
    BY <1>4, <2>1 DEF Popen, Go, mainVars
  <2>2. CASE Finish(c, "RAISED") /\ UNCHANGED child
    BY <1>4, <2>2 DEF Popen, Go, Finish, mainVars
  <2> QED
    BY <1>4, <2>1, <2>2 DEF Popen
<1>5. ASSUME NEW c \in Cases, Add(c) PROVE RowsInv'
  BY <1>5 DEF Add, Go, mainVars
<1>6. ASSUME NEW c \in Cases, AfterRun(c) PROVE RowsInv'
  <2>1. CASE cmd[c] # "sbfl" /\ cmd' = [cmd EXCEPT ![c] = NextCommand[cmd[c]]]
             /\ Go(c, "popen") /\ UNCHANGED status
    BY <1>6, <2>1 DEF AfterRun, Go, mainVars
  <2>2. CASE \E s \in Status : Finish(c, s) /\ UNCHANGED cmd
    BY <1>6, <2>2 DEF AfterRun, Finish, Go, mainVars
  <2>3. CASE ToDisassemble(c)
    BY <1>6, <2>3 DEF AfterRun, ToDisassemble, Go, mainVars
  <2> QED
    BY <1>6, <2>1, <2>2, <2>3 DEF AfterRun, Succeeded, Failed, FailStatus
<1>7. ASSUME NEW c \in Cases, Disassemble(c) PROVE RowsInv'
  BY <1>7 DEF Disassemble, Go, Finish, mainVars, childVars
<1>8. ASSUME NEW c \in Cases, Clean(c) PROVE RowsInv'
  BY <1>8 DEF Clean, Go, mainVars, childVars
<1>9. ASSUME NEW c \in Cases, ChildExits(c) PROVE RowsInv'
  BY <1>9 DEF ChildExits, mainVars
<1>10. ASSUME NEW c \in Cases, Collect(c) PROVE RowsInv'
  <2>1. CASE main' = "snapshot" /\ why' = "error" /\ UNCHANGED rows
    BY <1>10, <2>1 DEF Collect, caseVars
  <2>2. CASE /\ status[c] # "RAISED"
             /\ rows' = Append(rows, [case |-> c, status |-> status[c]])
             /\ UNCHANGED <<main, why>>
    <3> DEFINE r == [case |-> c, status |-> status[c]]
    <3>1. rows' = Append(rows, r) /\ yielded' = yielded \union {c} /\ c \notin yielded
          /\ at' = at /\ status' = status /\ why' = why /\ at[c] = "ended"
      BY <1>10, <2>2 DEF Collect, caseVars
    <3>2. /\ Len(rows) \in Nat /\ Len(rows') = Len(rows) + 1
          /\ \A i \in 1 .. Len(rows) : rows'[i] = rows[i]
          /\ rows'[Len(rows) + 1] = r
      <4> HIDE DEF r
      <4>1. rows \in Seq([case : Cases, status : Status \ {"RAISED"}])
        OBVIOUS
      <4> HIDE DEF TypeOK, RowsInv, Status
      <4> QED
        BY <3>1, <4>1
    <3>3. r.case = c /\ r.status = status[c]
      OBVIOUS
    <3> HIDE DEF r
    <3>4. \A i \in 1 .. Len(rows') : i \in 1 .. Len(rows) \/ i = Len(rows) + 1
      BY <3>2
    <3>5. \A d \in yielded' : at'[d] = "ended"
      BY <3>1
    <3>6. \A i \in 1 .. Len(rows') : /\ rows'[i].case \in yielded'
                                     /\ rows'[i].status = status'[rows'[i].case]
      BY <3>1, <3>2, <3>3, <3>4
    <3>7. \A i, j \in 1 .. Len(rows') : rows'[i].case = rows'[j].case => i = j
      BY <3>1, <3>2, <3>3, <3>4
    <3>8. why' # "error" => \A d \in yielded' : \E i \in 1 .. Len(rows') : rows'[i].case = d
      <4> SUFFICES ASSUME why' # "error", NEW d \in yielded'
                   PROVE  \E i \in 1 .. Len(rows') : rows'[i].case = d
        OBVIOUS
      <4>1. CASE d = c
        BY <3>2, <3>3, <4>1
      <4>2. CASE d \in yielded
        <5>1. PICK i \in 1 .. Len(rows) : rows[i].case = d
          BY <3>1, <4>2
        <5> QED
          BY <3>2, <5>1
      <4> QED
        BY <3>1, <4>1, <4>2
    <3> QED
      BY <3>5, <3>6, <3>7, <3>8
  <2> QED
    BY <1>10, <2>1, <2>2 DEF Collect
<1>11. ASSUME NEW c \in Cases, Kill(c) PROVE RowsInv'
  BY <1>11 DEF Kill, caseVars
<1>12. ASSUME NEW c \in Cases, Cancel(c) PROVE RowsInv'
  BY <1>12 DEF Cancel, Go, caseVars, mainVars
<1>13. CASE Submit
  BY <1>13 DEF Submit, Go, caseVars
<1>14. CASE CollectedAll
  BY <1>14 DEF CollectedAll, caseVars
<1>15. CASE Interrupt
  BY <1>15, NoneAssumption DEF Interrupt, caseVars, MainInv
<1>16. CASE Snapshot
  BY <1>16 DEF Snapshot, caseVars
<1>17. CASE KilledAll
  BY <1>17 DEF KilledAll, caseVars
<1>18. CASE CancelledAll
  BY <1>18 DEF CancelledAll, caseVars
<1>19. CASE Shutdown
  BY <1>19 DEF Shutdown, caseVars
<1>20. CASE Exit
  BY <1>20 DEF Exit, caseVars
<1>21. CASE UNCHANGED vars
  BY <1>21 DEF vars
<1> QED
  BY <1>1, <1>2, <1>3, <1>4, <1>5, <1>6, <1>7, <1>8, <1>9, <1>10,
     <1>11, <1>12, <1>13, <1>14, <1>15, <1>16, <1>17, <1>18, <1>19, <1>20, <1>21
     DEF Next, Worker, Main, Done

\* What the main thread knows, from the futures it has seen.
LEMMA MainStep ==
  TypeOK /\ RowsInv /\ MainInv /\ [Next]_vars => MainInv'
<1> SUFFICES ASSUME TypeOK /\ RowsInv /\ MainInv, [Next]_vars PROVE MainInv'
  OBVIOUS
<1> USE ConstantsAssumption, NoneAssumption
    DEF TypeOK, Execution, MainState, Waiting, InCase, Command, Status, MainInv
<1>1. ASSUME NEW c \in Cases, Take(c) PROVE MainInv'
  BY <1>1 DEF Take, Go, mainVars, childVars
<1>2. ASSUME NEW c \in Cases, Begin(c) PROVE MainInv'
  <2>1. CASE Go(c, "ended") /\ status' = [status EXCEPT ![c] = "RAISED"]
    BY <1>2, <2>1 DEF Begin, Go, mainVars, childVars
  <2>2. CASE \E s \in {"DIFF_MISSING", "CORPUS_MISSING"} : Finish(c, s)
    BY <1>2, <2>2 DEF Begin, Go, Finish, mainVars, childVars
  <2>3. CASE execution.dry_run /\ Finish(c, "OK")
    BY <1>2, <2>3 DEF Begin, Go, Finish, mainVars, childVars
  <2>4. CASE ~execution.dry_run /\ Go(c, "copy") /\ UNCHANGED status
    BY <1>2, <2>4 DEF Begin, Go, mainVars, childVars
  <2> QED
    BY <1>2, <2>1, <2>2, <2>3, <2>4 DEF Begin
<1>3. ASSUME NEW c \in Cases, Copy(c) PROVE MainInv'
  <2>1. CASE workdir' = workdir \union {c} /\ Go(c, "popen") /\ UNCHANGED status
    BY <1>3, <2>1 DEF Copy, Go, mainVars, childVars
  <2>2. CASE workdir' \in {workdir, workdir \union {c}} /\ Finish(c, "COPY_FAIL")
    BY <1>3, <2>2 DEF Copy, Go, Finish, mainVars, childVars
  <2> QED
    BY <1>3, <2>1, <2>2 DEF Copy
<1>4. ASSUME NEW c \in Cases, Popen(c) PROVE MainInv'
  <2>1. CASE child' = [child EXCEPT ![c] = "running"] /\ Go(c, "add") /\ UNCHANGED status
    BY <1>4, <2>1 DEF Popen, Go, mainVars
  <2>2. CASE Finish(c, "RAISED") /\ UNCHANGED child
    BY <1>4, <2>2 DEF Popen, Go, Finish, mainVars
  <2> QED
    BY <1>4, <2>1, <2>2 DEF Popen
<1>5. ASSUME NEW c \in Cases, Add(c) PROVE MainInv'
  BY <1>5 DEF Add, Go, mainVars
<1>6. ASSUME NEW c \in Cases, AfterRun(c) PROVE MainInv'
  <2>1. CASE cmd[c] # "sbfl" /\ cmd' = [cmd EXCEPT ![c] = NextCommand[cmd[c]]]
             /\ Go(c, "popen") /\ UNCHANGED status
    BY <1>6, <2>1 DEF AfterRun, Go, mainVars
  <2>2. CASE \E s \in Status : Finish(c, s) /\ UNCHANGED cmd
    BY <1>6, <2>2 DEF AfterRun, Finish, Go, mainVars
  <2>3. CASE ToDisassemble(c)
    BY <1>6, <2>3 DEF AfterRun, ToDisassemble, Go, mainVars
  <2> QED
    BY <1>6, <2>1, <2>2, <2>3 DEF AfterRun, Succeeded, Failed, FailStatus
<1>7. ASSUME NEW c \in Cases, Disassemble(c) PROVE MainInv'
  BY <1>7 DEF Disassemble, Go, Finish, mainVars, childVars
<1>8. ASSUME NEW c \in Cases, Clean(c) PROVE MainInv'
  BY <1>8 DEF Clean, Go, mainVars, childVars
<1>9. ASSUME NEW c \in Cases, ChildExits(c) PROVE MainInv'
  BY <1>9 DEF ChildExits, mainVars
<1>10. ASSUME NEW c \in Cases, Collect(c) PROVE MainInv'
  BY <1>10 DEF Collect, caseVars
<1>11. ASSUME NEW c \in Cases, Kill(c) PROVE MainInv'
  BY <1>11 DEF Kill, caseVars
<1>12. ASSUME NEW c \in Cases, Cancel(c) PROVE MainInv'
  BY <1>12 DEF Cancel, Go, caseVars, mainVars
<1>13. CASE Submit
  BY <1>13 DEF Submit, Go, caseVars
<1>14. CASE CollectedAll
  BY <1>14 DEF CollectedAll, caseVars, RowsInv
<1>15. CASE Interrupt
  BY <1>15 DEF Interrupt, caseVars
<1>16. CASE Snapshot
  BY <1>16 DEF Snapshot, caseVars
<1>17. CASE KilledAll
  BY <1>17 DEF KilledAll, caseVars
<1>18. CASE CancelledAll
  BY <1>18 DEF CancelledAll, caseVars
<1>19. CASE Shutdown
  BY <1>19 DEF Shutdown, caseVars
<1>20. CASE Exit
  BY <1>20 DEF Exit, Busy, caseVars
<1>21. CASE UNCHANGED vars
  BY <1>21 DEF vars
<1> QED
  BY <1>1, <1>2, <1>3, <1>4, <1>5, <1>6, <1>7, <1>8, <1>9, <1>10,
     <1>11, <1>12, <1>13, <1>14, <1>15, <1>16, <1>17, <1>18, <1>19, <1>20, <1>21
     DEF Next, Worker, Main, Done

-----------------------------------------------------------------------------

\* BatchInv holds in every reachable state: no interleaving of the worker
\* threads, the children, Ctrl-C and the main thread of GenerationRunner.run
\* breaks it.
THEOREM Invariance == Spec => []BatchInv
<1>1. Init => BatchInv
  <2> SUFFICES ASSUME Init PROVE BatchInv
    OBVIOUS
  <2> USE ConstantsAssumption, NoneAssumption DEF Init
  <2>1. TypeOK
    BY DEF TypeOK, Execution, MainState, Waiting, InCase, Command, Status
  <2>2. ProcessInv /\ WorkdirInv /\ StatusInv
    BY DEF ProcessInv, WorkdirInv, StatusInv, Running, Waiting
  <2>3. HistoryInv
    BY DEF HistoryInv, Running, Waiting
  <2>4. RowsInv /\ MainInv
    BY DEF RowsInv, MainInv, InCase
  <2> QED
    BY <2>1, <2>2, <2>3, <2>4 DEF BatchInv
<1>2. BatchInv /\ [Next]_vars => BatchInv'
  BY TypeStep, ProcessStep, WorkdirStep, HistoryStep, StatusStep, RowsStep, MainStep
     DEF BatchInv
<1> QED
  BY <1>1, <1>2, PTL DEF Spec

\* The type invariant, for any number of cases and threads: in particular an
\* exception of a case never becomes a row of run_status.tsv.
THEOREM TypeCorrect == Spec => []TypeOK
<1>1. BatchInv => TypeOK
  BY DEF BatchInv
<1> QED
  BY <1>1, Invariance, PTL

\* A command never runs in a workdir that is missing or was removed under it.
THEOREM WorkdirOutlivesChild == Spec => []ChildHasWorkdir
<1>1. BatchInv => ChildHasWorkdir
  BY DEF BatchInv, ProcessInv, WorkdirInv, Running, ChildHasWorkdir
<1> QED
  BY <1>1, Invariance, PTL

\* A row says OK only of a case whose three commands all returned zero.
THEOREM OkIsEarned == Spec => []OkMeansAll
<1>1. BatchInv => OkMeansAll
  <2> SUFFICES ASSUME BatchInv, NEW i \in 1 .. Len(rows),
                      rows[i].status = "OK", ~execution.dry_run
               PROVE  ran[rows[i].case] = <<"patch", "build", "sbfl">>
    BY DEF OkMeansAll
  <2>1. rows[i].case \in yielded /\ status[rows[i].case] = "OK"
    BY DEF BatchInv, RowsInv
  <2>2. rows[i].case \in Cases /\ at[rows[i].case] = "ended"
    BY <2>1 DEF BatchInv, RowsInv, TypeOK
  <2> QED
    BY <2>1, <2>2 DEF BatchInv, HistoryInv, All
<1> QED
  BY <1>1, Invariance, PTL

\* run_status.tsv has one row for each case, and all of them unless the run
\* was interrupted or a case raised.
THEOREM RowsComplete == Spec => []Reported
<1>1. BatchInv => Reported
  BY NoneAssumption DEF BatchInv, RowsInv, MainInv, Reported
<1> QED
  BY <1>1, Invariance, PTL

\* The program exits only when no registered command runs and no workdir is
\* left by mistake, also after Ctrl-C or an exception.
THEOREM CleanExit == Spec => []ExitLeavesNothing
<1>1. BatchInv => ExitLeavesNothing
  <2> SUFFICES ASSUME BatchInv, main = "exited", NEW c \in Cases
               PROVE  /\ child[c] # "running"
                      /\ c \in workdir => execution.keep_workdir \/ status[c] = "RAISED"
    BY DEF ExitLeavesNothing
  <2>1. at[c] \in Waiting \union {"ended"}
    BY DEF BatchInv, MainInv, TypeOK
  <2> QED
    BY <2>1 DEF BatchInv, ProcessInv, WorkdirInv, Waiting
<1> QED
  BY <1>1, Invariance, PTL

\* After run() has shut the pool down no case starts any more.
THEOREM ShutdownIsFinal == Spec => NoStartAfterShutdown
<1> DEFINE Kept == (main \in {"join", "exited"}) =>
                     \A c \in Cases : at[c] \in Waiting => at'[c] = at[c]
<1>1. BatchInv /\ [Next]_vars => [Kept]_vars
  <2> SUFFICES ASSUME BatchInv, [Next]_vars, main \in {"join", "exited"},
                      NEW c \in Cases, at[c] \in Waiting
               PROVE  at'[c] = at[c]
    OBVIOUS
  <2>1. at[c] # "queued" /\ at \in [Cases -> Waiting \union InCase \union {"ended"}]
    BY DEF BatchInv, MainInv, TypeOK
  <2>2. ASSUME NEW d \in Cases, Worker(d) \/ ChildExits(d) PROVE at'[c] = at[c]
    <3>1. Take(d) => at[d] = "queued"
      BY DEF Take
    <3>2. at' = at \/ (at[d] \notin Waiting \ {"queued"} /\ \E p : Go(d, p))
      BY <2>2 DEF Worker, Take, Begin, Copy, Popen, Add, AfterRun, Disassemble, Clean,
            ChildExits, Succeeded, Failed, ToDisassemble, Finish, Waiting
    <3> QED
      BY <2>1, <3>2 DEF Go, Waiting
  <2>3. CASE Main \/ Interrupt
    BY <2>3 DEF Main, Interrupt, Submit, CollectedAll, Snapshot, KilledAll, CancelledAll,
         Shutdown, Exit, Collect, Kill, Cancel
  <2>4. CASE UNCHANGED vars
    BY <2>4 DEF vars
  <2> QED
    BY <2>2, <2>3, <2>4 DEF Next, Done
<1> QED
  BY <1>1, Invariance, PTL DEF Spec, NoStartAfterShutdown, Kept

=============================================================================
