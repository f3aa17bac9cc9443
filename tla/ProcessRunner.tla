--------------------------- MODULE ProcessRunner ---------------------------
(***************************************************************************)
(* The process runner of dv/formal/conductor.py: it starts the processes   *)
(* that coroutines ask for while memory lasts, kills the youngest when it  *)
(* runs short and queues them again, and hands each result to a future.    *)
(* poll() runs as one event-loop callback; between two polls processes     *)
(* grow and exit, and coroutines submit and cancel.  Memory is in GB.      *)
(***************************************************************************)
EXTENDS Integers, Sequences, SequencesExt, FiniteSetsExt

CONSTANTS Jobs,          \* the commands that may be submitted, numbered from 1
          Peak,          \* [Jobs -> Nat]: what a command comes to use
          Est,           \* [Jobs -> Nat]: expected_memory given to shell()
          Codes,         \* [Jobs -> SUBSET Nat]: the exit codes of a command
          Total,         \* memory that is free when nothing runs
          MAX_RUNNING,   \* ProcessRunner.MAX_RUNNING
          no_kill,       \* args.no_kill
          max_mem        \* args.max_mem; 0 is "all there is"

GLOBAL_MEMORY_BUFFER == 5
MIN_CLAIM == 3           \* "otherwise lots of zeros won't help"
NoCode == -1             \* ProcessResult.code is None

ASSUME RunnerAssumption ==
  /\ IsFiniteSet(Jobs) /\ Jobs = 1 .. Cardinality(Jobs)
  /\ Peak \in [Jobs -> Nat] /\ Est \in [Jobs -> Nat]
  /\ Codes \in [Jobs -> SUBSET Nat] /\ Total \in Nat /\ MAX_RUNNING \in Nat \ {0}
  /\ no_kill \in BOOLEAN /\ max_mem \in Nat

VARIABLES
  pending,      \* sequence of jobs; the next to start is the last
  running,      \* sequence of jobs, oldest first
  kill_,        \* Process.kill_ (None is "")
  expected,     \* Process.expected_memory
  max_memory,   \* Process.max_memory
  proc,         \* the OS process: "none", "alive", "exited", "killed"
  rss,          \* the memory it uses
  overdue,      \* its time is over the timeout
  code,         \* its exit code, once it has exited
  future        \* "none" (not submitted), "waiting", "cancelled", or the reason

prVars == <<pending, running, kill_, expected, max_memory, proc, rss, overdue, code, future>>

Reasons == {"OK", "TIMEOUT", "UNINTERESTED"}

PRTypeOK ==
  /\ pending \in Seq(Jobs) /\ running \in Seq(Jobs)
  /\ kill_ \in [Jobs -> {"", "kill", "restart"}]
  /\ expected \in [Jobs -> Nat] /\ max_memory \in [Jobs -> Nat] /\ rss \in [Jobs -> Nat]
  /\ proc \in [Jobs -> {"none", "alive", "exited", "killed"}]
  /\ overdue \subseteq Jobs
  /\ code \in [Jobs -> Nat \cup {NoCode}]
  /\ future \in [Jobs -> {"none", "waiting", "cancelled"} \cup Reasons]

PRInit ==
  /\ pending = <<>> /\ running = <<>>
  /\ kill_ = [j \in Jobs |-> ""] /\ expected = Est
  /\ max_memory = [j \in Jobs |-> 0] /\ rss = [j \in Jobs |-> 0]
  /\ proc = [j \in Jobs |-> "none"] /\ overdue = {}
  /\ code = [j \in Jobs |-> NoCode] /\ future = [j \in Jobs |-> "none"]

-----------------------------------------------------------------------------
(* Coroutines: shell() and cancelling the future it awaits.                *)

\* shell(cmd) for each job of the sequence js: a new Process at the front of the queue.
Fresh(f, js, v) == [j \in Jobs |-> IF j \in Range(js) THEN v[j] ELSE f[j]]
Shell(js) ==
  /\ pending' = Reverse(js) \o pending
  /\ future' = Fresh(future, js, [j \in Jobs |-> "waiting"])
  /\ kill_' = Fresh(kill_, js, [j \in Jobs |-> ""])
  /\ expected' = Fresh(expected, js, Est)
  /\ max_memory' = Fresh(max_memory, js, [j \in Jobs |-> 0])
  /\ proc' = Fresh(proc, js, [j \in Jobs |-> "none"])
  /\ code' = Fresh(code, js, [j \in Jobs |-> NoCode])
  /\ UNCHANGED <<running, rss, overdue>>

\* ProcessFuture.cancel: the kill is left to the next poll.
Cancel(js) ==
  /\ kill_' = [j \in Jobs |-> IF j \in js THEN "kill" ELSE kill_[j]]
  /\ future' = [j \in Jobs |-> IF j \in js /\ future[j] = "waiting" THEN "cancelled" ELSE future[j]]
  /\ UNCHANGED <<pending, running, expected, max_memory, proc, rss, overdue, code>>

-----------------------------------------------------------------------------
(* The operating system.                                                   *)

Grow(j) ==
  /\ proc[j] = "alive" /\ rss[j] < Peak[j]
  /\ rss' = [rss EXCEPT ![j] = Peak[j]]
  /\ UNCHANGED <<pending, running, kill_, expected, max_memory, proc, overdue, code, future>>

Exit(j) ==
  /\ proc[j] = "alive"
  /\ proc' = [proc EXCEPT ![j] = "exited"] /\ rss' = [rss EXCEPT ![j] = 0]
  /\ \E c \in Codes[j] : code' = [code EXCEPT ![j] = c]
  /\ UNCHANGED <<pending, running, kill_, expected, max_memory, overdue, future>>

Late(j) ==
  /\ proc[j] = "alive" /\ j \notin overdue
  /\ overdue' = overdue \cup {j}
  /\ UNCHANGED <<pending, running, kill_, expected, max_memory, proc, rss, code, future>>

-----------------------------------------------------------------------------
(* ProcessRunner.poll                                                      *)

SumOver(f, js) ==
  LET upTo[n \in {0} \cup Jobs] == IF n = 0 THEN 0 ELSE upTo[n - 1] + (IF n \in js THEN f[n] ELSE 0)
  IN upTo[Cardinality(Jobs)]
PMax(a, b) == IF a >= b THEN a ELSE b

children_used_mem == SumOver(max_memory, Range(running))
mem_avail ==
  LET global_free == Total - SumOver(rss, Jobs)
      allowance == PMax(max_mem - children_used_mem, 0)
  IN IF max_mem = 0 \/ global_free <= allowance THEN global_free ELSE allowance

Claim(m) == PMax(m, MIN_CLAIM)
LastOf(seq, k) == SubSeq(seq, Len(seq) - k + 1, Len(seq))
ButLast(seq, k) == SubSeq(seq, 1, Len(seq) - k)

\* free after the k youngest running processes were killed.
FreeAfterKilling(k) ==
  mem_avail + SumOver([j \in Jobs |-> Claim(max_memory[j])], Range(LastOf(running, k)))

\* How many processes the first loop kills: until memory is OK or one is left.
KillCount ==
  IF no_kill \/ running = <<>> THEN 0
  ELSE Min({k \in 0 .. Len(running) - 1 :
              FreeAfterKilling(k) >= GLOBAL_MEMORY_BUFFER \/ k = Len(running) - 1})

\* faulty variant: a victim is not queued again
RequeuedDropped(victims) == pending
\* Each victim is appended to the queue, the youngest first.
Requeued(victims) == pending \o Reverse(victims)

\* Process.poll samples the memory before it looks at kill_.
Sampled(j) == PMax(rss[j], max_memory[j])

\* The second loop starts from the end of the queue while processors and memory allow it.
CanStart(i, queue, alive, free, need) ==
  LET nth(h) == queue[Len(queue) - h + 1]
      left == free - SumOver([j \in Jobs |-> Claim(need[j])], {nth(h) : h \in 1 .. i - 1})
  IN alive + i <= MAX_RUNNING /\ left > need[nth(i)] + GLOBAL_MEMORY_BUFFER
StartCount(queue, alive, free, need) ==
  Min({k \in 0 .. Len(queue) : k = Len(queue) \/ ~CanStart(k + 1, queue, alive, free, need)})

\* The last loop: the processes that are gone are taken out, the others keep their order.
Without(seq, gone) ==
  LET upTo[n \in 0 .. Len(seq)] ==
        IF n = 0 THEN <<>> ELSE IF seq[n] \in gone THEN upTo[n - 1] ELSE Append(upTo[n - 1], seq[n])
  IN upTo[Len(seq)]

\* Process.poll: what becomes of a running process.
Fate(state, request, late) ==
  IF state = "exited" /\ request = "" THEN "OK"
  ELSE IF late THEN "TIMEOUT"
  ELSE IF request = "kill" THEN "UNINTERESTED"
  ELSE "stay"

\* One poll that kills the processes V and starts so many from the end of the queue.
\* kill_restart and the poll after it make a victim's expected_memory what was seen (need)
\* and clear its kill_, whatever that was; start() gives a process a new clock.  The
\* Process object of one that is dropped is gone: its fields go back to their first values.
PollWith(killed, queue, V, need, starts) ==
  LET live == ButLast(running, killed) \o Reverse(LastOf(queue, starts))
      S == Range(LastOf(queue, starts))
      request == [j \in Jobs |-> IF j \in V THEN "" ELSE kill_[j]]
      fate(j) == Fate(IF j \in S THEN "alive" ELSE proc[j], request[j], j \in overdue \ S)
      dropped == {j \in Range(live) : fate(j) # "stay"}
      dead == {j \in dropped : fate(j) # "OK"} \cup (V \ S)
  IN /\ running' = Without(live, dropped)
     /\ pending' = ButLast(queue, starts)
     /\ expected' = [j \in Jobs |-> IF j \in dropped THEN Est[j] ELSE need[j]]
     /\ kill_' = [j \in Jobs |-> IF j \in dropped THEN "" ELSE request[j]]
     /\ max_memory' = [j \in Jobs |-> IF j \in S \cup dropped THEN 0
                                      ELSE IF j \in Range(running) THEN Sampled(j) ELSE max_memory[j]]
     /\ proc' = [j \in Jobs |-> IF j \in dead THEN "killed" ELSE IF j \in S THEN "alive" ELSE proc[j]]
     /\ rss' = [j \in Jobs |-> IF j \in dead \cup S THEN 0 ELSE rss[j]]
     /\ overdue' = overdue \ (S \cup dropped)
     /\ code' = [j \in Jobs |-> IF j \in dead \cup S THEN NoCode ELSE code[j]]
     /\ future' = [j \in Jobs |-> IF j \in dropped /\ future[j] = "waiting" THEN fate(j) ELSE future[j]]

Poll ==
  \E killed \in {KillCount} :
  \E queue \in {Requeued(LastOf(running, killed))}, V \in {Range(LastOf(running, killed))} :
  \E need \in {[j \in Jobs |-> IF j \in V THEN PMax(expected[j], Sampled(j)) ELSE expected[j]]} :
  \E starts \in {StartCount(queue, Len(running) - killed, FreeAfterKilling(killed), need)} :
    PollWith(killed, queue, V, need, starts)

-----------------------------------------------------------------------------
(* Properties                                                              *)

\* A process that a coroutine waits for is queued or running, once, and every live OS
\* process is one that the runner polls: killing for memory, requeueing, restarting and
\* dropping lose no future and leave no process behind (ProcessRunner.poll).
Accounted ==
  /\ \A j \in Jobs : future[j] = "waiting" => j \in Range(pending) \cup Range(running)
  /\ \A j \in Jobs : proc[j] = "alive" => j \in Range(running)
  /\ IsInjective(pending \o running)

============================================================================
