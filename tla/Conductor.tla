----------------------------- MODULE Conductor -----------------------------
(***************************************************************************)
(* One invocation of dv/formal/conductor.py in prove or explore mode: it   *)
(* loads the stored proof strategies, has the process runner prepare and   *)
(* run an engine for each, and in explore mode stores what it found.  A    *)
(* strategy is the block of properties it proves; its verdict is the       *)
(* engine's exit code (20 proved, 10 counterexample).                      *)
(***************************************************************************)
EXTENDS ProcessRunner

CONSTANTS Props,      \* the properties of all.ywmap that are not covers
          StepOf,     \* [Props -> 0 .. LastStep]
          LastStep,
          Skipped,    \* SKIPPED_PROPS
          Covers,     \* [1 .. n -> SUBSET Props]: the blocks that strategies are about
          Args        \* the command lines: records of the options below

UNSAT == 20
SAT == 10
Blocks == DOMAIN Covers
AigJob(b) == 2 * b - 1
EngineJob(b) == 2 * b
Single(p) == CHOOSE b \in Blocks : Covers[b] = {p}

ASSUME ConductorAssumption ==
  /\ LastStep \in Nat /\ StepOf \in [Props -> 0 .. LastStep] /\ Skipped \subseteq Props
  /\ Covers \in Seq(SUBSET Props \ {{}})
  /\ \A b \in Blocks : \A p, q \in Covers[b] : StepOf[p] = StepOf[q]
  /\ \A p \in Props \ Skipped : \E b \in Blocks : Covers[b] = {p}
  /\ Jobs = 1 .. 2 * Len(Covers)
  /\ Args \subseteq [mode : {"prove", "explore"}, start : Int, by_step : BOOLEAN, check_complete : BOOLEAN,
                     hard : BOOLEAN, fresh : BOOLEAN, no_store : BOOLEAN, no_run : BOOLEAN,
                     properties : SUBSET Props]

VARIABLES
  args,      \* the options of this invocation
  stage,     \* "begin", "run" or "build" (a gather is under way), "exit"
  step,      \* the step of the loop over by_step
  all,       \* all_strategies
  todo,      \* the blocks of the gather that is under way
  at,        \* [Blocks -> "idle", "select", "engine", "done"]: where its coroutine waits
  verdict,   \* [Blocks -> exit code of its engine, NoCode for a timeout]
  file,      \* [0..LastStep -> stored blocks]: strategies/step<n>.json; {} if none or undecodable
  exit       \* "" while running, then "ok" (status 0) or why the status is 1

conductorVars == <<args, stage, step, all, todo, at, verdict, file, exit>>
vars == <<prVars, conductorVars>>

Steps == 0 .. LastStep
\* main: the properties named by -p or found by --missing, here any, or all.
selected == args.properties \ Skipped
by_step(s) == {p \in selected : StepOf[p] = s}
load_strategy(s) == IF args.fresh THEN {} ELSE file[s]
PropsIn(strategy) == UNION {Covers[b] : b \in strategy}
missing_from(strategy, ps) == ps \ PropsIn(strategy)

TypeOK ==
  /\ PRTypeOK /\ args \in Args
  /\ stage \in {"begin", "run", "build", "exit"} /\ step \in 0 .. LastStep + 1
  /\ all \subseteq Blocks /\ todo \subseteq Blocks
  /\ at \in [Blocks -> {"idle", "select", "engine", "done"}]
  /\ verdict \in [Blocks -> Nat \cup {NoCode}]
  /\ file \in [Steps -> SUBSET Blocks] /\ exit \in {"", "ok", "assert", "race", "incomplete", "unproved", "interrupt", "killed"}

Init ==
  /\ PRInit
  /\ args \in Args /\ stage = "begin" /\ step = 0 /\ all = {} /\ todo = {}
  /\ at = [b \in Blocks |-> "idle"] /\ verdict = [b \in Blocks |-> NoCode]
  /\ file \in {f \in [Steps -> SUBSET Blocks] : \A s \in Steps : \A b \in f[s] : \A p \in Covers[b] : StepOf[p] = s}
  /\ exit = ""

-----------------------------------------------------------------------------
(* Gathering proofs: run_strategy, and the explorations of explore --hard. *)

InOrder(bs) == Without([b \in Blocks |-> b], Blocks \ bs)

\* asyncio.gather over coroutines that first await prepare_aiger.
Gather(bs, next) ==
  /\ Shell([i \in DOMAIN InOrder(bs) |-> AigJob(InOrder(bs)[i])])
  /\ todo' = bs /\ stage' = next
  /\ at' = [b \in Blocks |-> IF b \in bs THEN "select" ELSE "idle"]
  /\ verdict' = [b \in Blocks |-> IF b \in bs THEN NoCode ELSE verdict[b]]

\* The interpreter ends: asyncio.run cancels the coroutines that are left, and the loop
\* that calls poll stops with it.
Leave(why) ==
  /\ stage' = "exit" /\ exit' = why
  /\ Cancel({j \in Jobs : future[j] = "waiting"})

\* race() creates all wrappers before the first one runs; each awaits the variable of the
\* loop that made it, which by then is the last task, and asyncio refuses to await a
\* coroutine twice.
TaskOfWrapper(i, n) == n
RaceFails(n) == \E i, k \in 1 .. n : i # k /\ TaskOfWrapper(i, n) = TaskOfWrapper(k, n)
ENGINES == IF args.hard THEN 1 ELSE 2

\* prepare_aiger asserts that aig-manip succeeded; then prove() starts its engine, explore()
\* races its engines.
Prepared(b) ==
  /\ stage \in {"run", "build"} /\ at[b] = "select" /\ future[AigJob(b)] \in Reasons
  /\ IF code[AigJob(b)] # 0 THEN Leave("assert") /\ UNCHANGED at
     ELSE IF stage = "build" /\ RaceFails(ENGINES) THEN Leave("race") /\ UNCHANGED at
     ELSE Shell(<<EngineJob(b)>>) /\ at' = [at EXCEPT ![b] = "engine"] /\ UNCHANGED <<stage, exit>>
  /\ UNCHANGED <<args, step, all, todo, verdict, file>>

\* faulty variant: a timeout does not wake the coroutine
ProvedOnlyExit(b) ==
  /\ stage \in {"run", "build"} /\ at[b] = "engine" /\ future[EngineJob(b)] = "OK"
  /\ at' = [at EXCEPT ![b] = "done"]
  /\ verdict' = [verdict EXCEPT ![b] = code[EngineJob(b)]]
  /\ UNCHANGED <<prVars, args, stage, step, all, todo, file, exit>>
\* The engine's result is there (prove, explore_one).
Proved(b) ==
  /\ stage \in {"run", "build"} /\ at[b] = "engine" /\ future[EngineJob(b)] \in Reasons
  /\ at' = [at EXCEPT ![b] = "done"]
  /\ verdict' = [verdict EXCEPT ![b] = code[EngineJob(b)]]
  /\ UNCHANGED <<prVars, args, stage, step, all, todo, file, exit>>

GatherDone == \A b \in todo : at[b] = "done"

-----------------------------------------------------------------------------
(* prove_mode                                                              *)

\* One turn of its loop: a step is skipped, collected, or run on its own.
ProveStep ==
  /\ args.mode = "prove" /\ stage = "begin" /\ step <= LastStep
  /\ LET strategy == load_strategy(step)
     IN IF step < args.start \/ strategy = {}
        THEN UNCHANGED <<prVars, all, todo, at, verdict, stage>>
        ELSE /\ all' = all \cup strategy
             /\ IF args.by_step THEN Gather(strategy, "run")
                ELSE UNCHANGED <<prVars, todo, at, verdict, stage>>
  /\ step' = step + 1
  /\ UNCHANGED <<args, file, exit>>

uncovered == selected \ PropsIn(all)

\* After the loop: --check-complete, then everything at once unless it ran by step.
ProveAll ==
  /\ args.mode = "prove" /\ stage = "begin" /\ step = LastStep + 1
  /\ IF args.check_complete /\ uncovered # {} THEN Leave("incomplete") /\ UNCHANGED <<todo, at, verdict>>
     ELSE IF args.by_step \/ all = {} THEN Leave("ok") /\ UNCHANGED <<todo, at, verdict>>
     ELSE Gather(all, "run") /\ UNCHANGED exit
  /\ UNCHANGED <<args, step, all, file>>

\* faulty variant: failures of single proof steps are logged but not counted
ProveEndNoErrors ==
  /\ args.mode = "prove" /\ stage = "run" /\ GatherDone
  /\ IF args.by_step THEN stage' = "begin" /\ UNCHANGED <<prVars, exit>> ELSE Leave("ok")
  /\ UNCHANGED <<args, step, all, todo, at, verdict, file>>
\* by_step ignores the results; otherwise one that is not UNSAT fails the program.
ProveEnd ==
  /\ args.mode = "prove" /\ stage = "run" /\ GatherDone
  /\ IF args.by_step THEN stage' = "begin" /\ UNCHANGED <<prVars, exit>>
     ELSE Leave(IF \A b \in todo : verdict[b] = UNSAT THEN "ok" ELSE "unproved")
  /\ UNCHANGED <<args, step, all, todo, at, verdict, file>>

-----------------------------------------------------------------------------
(* explore_mode                                                            *)

RunAgain(strategy, new) == ~args.no_run /\ (~new \/ Cardinality(strategy) # 1)

\* construct_strategy: with nothing missing the strategy is run again; --hard explores
\* each property by itself, otherwise several are raced against being split.
ExploreStep ==
  /\ args.mode = "explore" /\ stage = "begin" /\ step <= LastStep
  /\ LET not_done == missing_from(load_strategy(step), by_step(step))
         strategy == load_strategy(step)
     IN IF step < args.start
        THEN step' = step + 1 /\ UNCHANGED <<prVars, todo, at, verdict, stage, exit>>
        ELSE IF not_done = {}
        THEN /\ step' = step + 1 /\ UNCHANGED exit
             /\ IF RunAgain(strategy, FALSE) /\ strategy # {} THEN Gather(strategy, "run")
                ELSE UNCHANGED <<prVars, todo, at, verdict, stage>>
        ELSE IF ~args.hard /\ Cardinality(not_done) > 1 /\ RaceFails(2)
        THEN Leave("race") /\ UNCHANGED <<step, todo, at, verdict>>
        ELSE Gather({Single(p) : p \in not_done}, "build") /\ UNCHANGED <<step, exit>>
  /\ UNCHANGED <<args, all, file>>

ExploreEnd ==
  /\ args.mode = "explore" /\ stage = "begin" /\ step = LastStep + 1
  /\ Leave("ok") /\ UNCHANGED <<args, step, all, todo, at, verdict, file>>

\* faulty variant: a counterexample makes a strategy too
FoundAny == {b \in todo : verdict[b] \in {UNSAT, SAT}}
Found == {b \in todo : verdict[b] = UNSAT}

\* The strategy is complete: it is stored, and run again unless told not to.
BuildEnd ==
  /\ stage = "build" /\ GatherDone
  /\ all' = load_strategy(step) \cup Found
  /\ file' = IF args.no_store THEN file ELSE [file EXCEPT ![step] = all']
  /\ step' = step + 1
  /\ IF RunAgain(all', TRUE) /\ all' # {} THEN Gather(all', "run")
     ELSE stage' = "begin" /\ UNCHANGED <<prVars, todo, at, verdict>>
  /\ UNCHANGED <<args, exit>>

\* The program is killed inside store_strategy: open() has emptied the file.
KilledStoring ==
  /\ stage = "build" /\ GatherDone /\ ~args.no_store
  /\ file' = [file EXCEPT ![step] = {}] /\ stage' = "exit" /\ exit' = "killed"
  /\ UNCHANGED <<prVars, args, step, all, todo, at, verdict>>

RerunEnd ==
  /\ args.mode = "explore" /\ stage = "run" /\ GatherDone /\ stage' = "begin"
  /\ UNCHANGED <<prVars, args, step, all, todo, at, verdict, file, exit>>

\* Ctrl-C: the main task is cancelled, and with it what it awaits.
Interrupt ==
  /\ stage # "exit" /\ Leave("interrupt")
  /\ UNCHANGED <<args, step, all, todo, at, verdict, file>>

\* Processes grow, exit, and (only those of explore have one) pass their timeout.
Environment ==
  /\ stage # "exit"
  /\ \/ \E j \in Jobs : Grow(j) \/ Exit(j)
     \/ \E b \in Blocks : stage = "build" /\ Late(EngineJob(b))
  /\ UNCHANGED conductorVars

Tick == stage # "exit" /\ Poll /\ UNCHANGED conductorVars

Main ==
  \/ ProveStep \/ ProveAll \/ ProveEnd
  \/ ExploreStep \/ ExploreEnd \/ BuildEnd \/ RerunEnd
  \/ \E b \in Blocks : Prepared(b) \/ Proved(b)

Next == Main \/ Tick \/ Environment \/ Interrupt \/ KilledStoring

Spec == Init /\ [][Next]_vars

\* The event loop calls poll and runs ready coroutines; processes that are not killed end.
FairSpec ==
  /\ Spec /\ WF_vars(Main) /\ WF_vars(Tick)
  /\ \A j \in Jobs : WF_vars(stage # "exit" /\ Exit(j) /\ UNCHANGED conductorVars)

-----------------------------------------------------------------------------
(* Properties                                                              *)

\* Status 0 of "prove" that did not run by step means that every stored strategy from the
\* first step on was proved in this invocation, whatever the runner killed and restarted;
\* with --check-complete it means that of every selected property that is not skipped (prove_mode).
ProveMeansProved ==
  exit = "ok" /\ args.mode = "prove" /\ ~args.by_step =>
    /\ \A s \in Steps : args.start <= s => \A b \in load_strategy(s) : verdict[b] = UNSAT
    /\ args.check_complete =>
         \A p \in selected : \E b \in Blocks : p \in Covers[b] /\ at[b] = "done" /\ verdict[b] = UNSAT

\* What explore mode adds to a file has been proved in this invocation by an engine that
\* ended by itself and said UNSAT; no timeout, kill or counterexample becomes a strategy
\* (construct_strategy, Process.poll).
StoredProved ==
  [][\A s \in Steps : \A b \in file'[s] \ file[s] :
       b \in todo /\ verdict[b] = UNSAT /\ future[EngineJob(b)] = "OK"]_vars

\* Each invocation ends, also when processes are killed and queued again for memory
\* (ProcessRunner.poll), provided that every command fits into memory when it runs alone.
FitsAlone == \A j \in Jobs : PMax(Peak[j], Est[j]) + GLOBAL_MEMORY_BUFFER < Total
Ends == FitsAlone => <>(stage = "exit")

\* "Races allow async processes to cleanly run in parrallel" (race): exploring never fails
\* because of the race itself.
RaceClean == exit # "race"

============================================================================
