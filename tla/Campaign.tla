------------------------------ MODULE Campaign ------------------------------
(***************************************************************************)
(* A series of batch runs over the same bug cases, and the reranking of    *)
(* their results: ibex-sbfl-batch generation, rerun, analysis and          *)
(* summarize llm (cli.py, rerun.py, analysis.py, statistics.py), and       *)
(* scripts/rerank_sbfl_with_llm.py, which starts one reranking process     *)
(* per result directory.  A run only leaves files for those after it: the  *)
(* rows of run_status.tsv, and in the directory of each case run.log, the  *)
(* saved corpus and the results.                                           *)
(*   The steps of a case, its processes and its threads are in BatchRunner *)
(* and those of a reranking process in LlmRerank; here each is one step.   *)
(* One command runs at a time.                                             *)
(***************************************************************************)
EXTENDS SbflLogs, FiniteSets

CONSTANTS
  Cases,          \* the bug cases, numbered in the order of their paths
  GenArgs, RerunArgs, AnalysisArgs, PassArgs,   \* the command lines given
  MaxRuns,        \* bounds: batch runs,
  MaxRanked,      \*   those of a series whose results are summarised or ranked,
  MaxFresh,       \*   those that start from an ELF file,
  MaxPasses,      \*   uses of the script,
  MaxInterrupts,  \*   Ctrl-C
  MaxFailures     \*   and failed cases in all

ASSUME BoundsAssumption ==
  Cases \subseteq Nat /\ IsFiniteSet(Cases) /\ MaxRuns \in Nat \ {0} /\ {MaxFresh, MaxRanked, MaxPasses, MaxInterrupts, MaxFailures} \subseteq Nat

\* What the parsers let through, for at least one case: an optional value is <<>>
\* or a sequence of one.  has_flag reads the simulator's own arguments too; it is
\* an assumption that none of them is one of the flags.
Optional(S) == {s \in Seq(S) : Len(s) <= 1}
Number == DOMAIN Numbers
SimulatorArgs == Seq(Lexicon \ {"--reduce-cover", "--gen-only"})
ASSUME ArgsAssumption ==
  /\ GenArgs \subseteq
       [cases : (SUBSET Cases) \ {{}}, mode : DOMAIN ModeWord, coverage : Value, state : Value, top_pass : Number, selection : Value,
        tracker_window_size : Number, reduce_cover : BOOLEAN, reduce_insts : BOOLEAN, save_corpus : BOOLEAN,
        checkpoint_interval : Optional(Number), gen_only : BOOLEAN, metric : Value, mutator_window_size : Optional(Number),
        max_corpus_size : Optional(Number), simulator_args : Optional(SimulatorArgs), resume : BOOLEAN, dry_run : BOOLEAN]
  /\ RerunArgs \subseteq
       [save_corpus : BOOLEAN, no_checkpoint_interval : BOOLEAN, checkpoint_interval : Optional(Number),
        top_pass : Optional(Number), selection : Optional(Value), metric : Optional(Value), reduce_cover : Optional(BOOLEAN),
        gen_only : Optional(BOOLEAN), mutator_window_size : Optional(Number), max_corpus_size : Optional(Number),
        simulator_args : Optional(SimulatorArgs), dry_run : BOOLEAN]
  /\ AnalysisArgs \subseteq
       [top_pass : Optional(Number), selection : Optional(Value), metric : Optional(Value), reduce_cover : Optional(BOOLEAN),
        simulator_args : Optional(Seq(Lexicon)), dry_run : BOOLEAN]
  /\ PassArgs \subseteq
       [summary : BOOLEAN, skip_existing : BOOLEAN, list_only : BOOLEAN, stop_on_error : BOOLEAN, output : BOOLEAN,
        jobs : Nat \ {0}]

VARIABLES
  runs,      \* the run directories under the log root, oldest first
  batch,     \* the batch process: its phase, and the cases it has not begun and not yielded
  summary,   \* the rows of the summary file, and whether it exists
  pass       \* the reranking script

vars == <<runs, batch, summary, pass>>

-----------------------------------------------------------------------------
(* What is left in the directory of a case; used is a history variable.    *)
NoDir == [status |-> "", cmd |-> <<>>, corpus |-> <<>>, blocks |-> FALSE, result |-> FALSE, llm |-> FALSE, used |-> <<>>]
Settings(cfg) == [mode |-> cfg.mode, coverage |-> cfg.coverage, state |-> cfg.state, tracker |-> cfg.tracker_window_size]

Idle(interrupts) == [phase |-> "idle", todo |-> {}, ended |-> {}, interrupts |-> interrupts]
NoPass == [phase |-> "idle", count |-> 0]
Gone == [NoPass EXCEPT !.count = pass.count]
Init == runs = <<>> /\ batch = Idle(0) /\ summary = [exists |-> FALSE, rows |-> {}] /\ pass = NoPass

Free == batch.phase = "idle" /\ pass.phase \in {"idle", "over"}
Now == Len(runs)
Run == runs[Now]

\* main, _initialize: a new run directory, whose cases are submitted in any order.
StartRun(kind, parent, args, cfg, cases, corpora) ==
  /\ Free /\ Now < (IF summary.exists \/ pass.count > 0 THEN MaxRanked ELSE MaxRuns)
  /\ runs' = Append(runs, [kind |-> kind, parent |-> parent, args |-> args, cfg |-> cfg, corpora |-> corpora,
                           rows |-> {}, dir |-> [c \in Cases |-> NoDir]])
  /\ batch' = [batch EXCEPT !.phase = "run", !.todo = cases]
  /\ pass' = Gone /\ UNCHANGED summary

Default(value, default) == IF value = <<>> THEN default ELSE value[1]
generation_config(args) ==
  [mode |-> args.mode, coverage |-> args.coverage, state |-> args.state, top_pass |-> args.top_pass,
   selection |-> args.selection, tracker_window_size |-> args.tracker_window_size, reduce_cover |-> args.reduce_cover,
   save_corpus |-> args.save_corpus, checkpoint_interval |-> args.checkpoint_interval, gen_only |-> args.gen_only,
   metric |-> args.metric, mutator_window_size |-> Default(args.mutator_window_size, "20"),
   max_corpus_size |-> Default(args.max_corpus_size, "50"),
   simulator_args |-> Default(args.simulator_args, <<"-c", "5000000">>)]

SavedCorpora == {runs[i].dir[c].corpus : i \in DOMAIN runs, c \in Cases}

\* _run_generation, discover_cases: the cases below a directory or one of them,
\* from one given corpus or from an ELF file.
Generate ==
  \E args \in GenArgs :
    \E corpus \in {<<>>} \union SavedCorpora :
      /\ args.resume = (corpus # <<>>) /\ ~(args.resume /\ args.reduce_insts)
      /\ args.resume \/ Cardinality({i \in DOMAIN runs : runs[i].kind = "gen" /\ ~runs[i].args.resume}) < MaxFresh
      /\ ~wrong(args, args.mode) /\ ~validate_refuses(generation_config(args))
      /\ StartRun("gen", 0, args, generation_config(args), args.cases, [c \in Cases |-> corpus])

\* The commands in the run logs of the cases that are read.  A row is written
\* when its case ends, so that any of them may be the first.
Commands(k, cases) == {runs[k].dir[c].cmd : c \in cases}
Corpora(k) == [c \in Cases |-> runs[k].dir[c].corpus]

Rerun ==
  \E k \in DOMAIN runs, args \in RerunArgs :
    \E cases \in {read_status_cases(runs[k], TRUE)} :
      \E first \in Commands(k, cases) : \E made \in {prepare_rerun(args, Commands(k, cases), first)} :
        ~made.raised /\ ~validate_refuses(made.cfg) /\ StartRun("rerun", k, args, made.cfg, cases, Corpora(k))

Analyze ==
  \E k \in DOMAIN runs, args \in AnalysisArgs :
    \E cases \in {read_status_cases(runs[k], FALSE)} :
      \E first \in Commands(k, cases) \ {<<>>} : \E made \in {prepare_analysis(args, first)} :
        ~made.raised /\ StartRun("analysis", k, args, made.cfg, cases, Corpora(k))

-----------------------------------------------------------------------------
(* A case of the batch that runs: a failure before the command is logged   *)
(* (BUILD_FAIL stands for them), a dry run, or the simulator's end.        *)

\* The directories of run k or, as run 0, of all.
Files(k) == [d \in {<<i, c>> : i \in IF k = 0 THEN DOMAIN runs ELSE {k}, c \in Cases} |-> runs[d[1]].dir[d[2]]]
Chance(d) == d.status \in {"BUILD_FAIL", "SBFL_FAIL", "ANALYSIS_FAIL"}
EarlyFailure == [NoDir EXCEPT !.status = "BUILD_FAIL"]
GenerationEnds(cfg, corpus, dry_run) ==
  LET logged == [NoDir EXCEPT !.cmd = <<generation_args(cfg, corpus # <<>>)>>]
      used == IF corpus = <<>> THEN <<>> ELSE <<[with |-> Settings(cfg), made |-> corpus[1]]>>
      saved == IF cfg.save_corpus THEN <<Settings(cfg)>> ELSE <<>>
      checkpoints == IF cfg.checkpoint_interval = <<>> THEN {<<>>} ELSE {<<>>, saved}
  IN  IF dry_run THEN {EarlyFailure, [logged EXCEPT !.status = "OK"]}
      ELSE {EarlyFailure,
            [logged EXCEPT !.status = "OK", !.used = used, !.corpus = saved, !.blocks = ~cfg.gen_only, !.result = ~cfg.gen_only]}
           \union {[logged EXCEPT !.status = "SBFL_FAIL", !.used = used, !.corpus = p, !.blocks = ~cfg.gen_only] : p \in checkpoints}

AnalysisEnds(cfg, corpus, command, dry_run) ==
  IF corpus = <<>> THEN {[NoDir EXCEPT !.status = "CORPUS_MISSING"]}
  ELSE IF command = <<>> \/ analysis_args(cfg, command[1]).raised THEN {[NoDir EXCEPT !.status = "CONFIG_FAIL"]}
  ELSE LET argv == analysis_args(cfg, command[1]).argv
           logged == [NoDir EXCEPT !.cmd = <<argv>>,
                        !.used = <<[with |-> [coverage |-> argv[3], state |-> argv[5], tracker |-> argv[10]], made |-> corpus[1]]>>]
       IN  IF dry_run THEN {EarlyFailure, [logged EXCEPT !.status = "OK", !.used = <<>>]}
           ELSE {EarlyFailure, [logged EXCEPT !.status = "OK", !.blocks = TRUE, !.result = TRUE],
                 [logged EXCEPT !.status = "ANALYSIS_FAIL"]}

\* The next case ends when the row of the one before is written, or after an
\* interrupt: a case that ends and the row of another commute.
RunCase(c) ==
  /\ c \in batch.todo /\ (batch.ended = {} \/ batch.phase = "leaving")
  /\ \E d \in (IF Run.kind = "analysis"
               THEN AnalysisEnds(Run.cfg, Run.corpora[c], runs[Run.parent].dir[c].cmd, Run.args.dry_run)
               ELSE GenerationEnds(Run.cfg, Run.corpora[c], Run.args.dry_run)) :
       /\ Chance(d) => Cardinality({e \in (DOMAIN runs) \X Cases : Chance(runs[e[1]].dir[e[2]])}) < MaxFailures
       /\ runs' = [runs EXCEPT ![Now].dir[c] = d]
  /\ batch' = [batch EXCEPT !.todo = @ \ {c}, !.ended = @ \union {c}]
  /\ UNCHANGED <<summary, pass>>

\* as_completed yields a case and its row is written.
AppendRow(c) ==
  /\ batch.phase = "run" /\ c \in batch.ended
  /\ runs' = [runs EXCEPT ![Now].rows = @ \union {c}]
  /\ batch' = [batch EXCEPT !.ended = @ \ {c}]
  /\ UNCHANGED <<summary, pass>>
\* Ctrl-C or an exception: no more rows, and the cases that have begun still end.
BatchInterrupted ==
  /\ batch.phase = "run" /\ batch.interrupts < MaxInterrupts
  /\ batch' = [batch EXCEPT !.phase = "leaving", !.interrupts = @ + 1]
  /\ UNCHANGED <<runs, summary, pass>>
BatchEnds ==
  /\ batch.phase = "leaving" \/ (batch.phase = "run" /\ batch.todo = {} /\ batch.ended = {})
  /\ batch' = Idle(batch.interrupts) /\ UNCHANGED <<runs, summary, pass>>

-----------------------------------------------------------------------------
(* summarize llm over the newest run directory or, as run 0, the log root. *)
Roots == {0, Now}
Row(d, f) == [case |-> d[2], status |-> IF f.status # "OK" THEN f.status ELSE IF f.llm THEN "OK" ELSE "LLM_MISSING"]
SummarizeLlm(k) ==
  /\ Free /\ pass.count < MaxPasses /\ Now <= MaxRanked
  /\ LET files == Files(k) IN
       summary' = [exists |-> TRUE, rows |-> {Row(d, files[d]) : d \in {e \in DOMAIN files : files[e].status # ""}}]
  /\ pass' = Gone /\ UNCHANGED <<runs, batch>>

-----------------------------------------------------------------------------
(* The reranking script.                                                   *)

Before(d, e) == d[1] < e[1] \/ (d[1] = e[1] /\ d[2] < e[2])
Over(args, code, wanted) ==
  [phase |-> "over", count |-> pass.count + 1, args |-> args, code |-> code, wanted |-> wanted]

\* The jobs submitted next, in the order of their directories, when free more may run.
Refill(queue, free) == {d \in queue : Cardinality({e \in queue : Before(e, d)}) < free}

\* main up to run_jobs; patched says whether every patch is found.
StartPass(args, k, patched) ==
  /\ Free /\ pass.count < MaxPasses /\ Now <= MaxRanked
  /\ LET found == collect_selected_results(Files(k), args.summary, summary.rows)
         todo == {d \in found.dirs : ~(args.skip_existing /\ Files(k)[d].llm)}
         workers == IF todo = {} THEN 1 ELSE Min({args.jobs, Cardinality(todo)})
         first == Refill(todo, workers)
     IN  pass' = IF (args.summary /\ ~summary.exists) \/ found.raised \/ (~patched /\ found.dirs # {})
                    \/ (Cardinality(todo) > 1 /\ args.output)
                 THEN Over(args, 2, {})
                 ELSE IF found.dirs = {} \/ args.list_only THEN Over(args, 0, {})
                 ELSE [phase |-> "run", count |-> pass.count, args |-> args, wanted |-> found.dirs, workers |-> workers,
                       queue |-> todo \ first, pending |-> first, done |-> {}, failures |-> {}, stop |-> FALSE]
  /\ UNCHANGED <<runs, batch, summary>>

\* A reranking process ends; one that succeeds has written its file.
JobEnds(d, ok) ==
  /\ pass.phase \in {"run", "leaving"} /\ d \in pass.pending /\ \A r \in pass.done : r.job # d
  /\ runs' = IF ok /\ ~pass.args.output THEN [runs EXCEPT ![d[1]].dir[d[2]].llm = TRUE] ELSE runs
  /\ pass' = [pass EXCEPT !.done = @ \union {[job |-> d, ok |-> ok]}]
  /\ UNCHANGED <<batch, summary>>

\* faulty variant: of results that come together one success hides the failures
WaitFirstResult ==
  /\ pass.phase = "run" /\ pass.done # {}
  /\ LET left == pass.pending \ {r.job : r \in pass.done}
         failed == IF \E r \in pass.done : r.ok THEN {} ELSE {r.job : r \in pass.done}
         stop == pass.stop \/ (pass.args.stop_on_error /\ failed # {})
         next == IF stop THEN {} ELSE Refill(pass.queue, pass.workers - Cardinality(left))
     IN  pass' = [pass EXCEPT !.pending = left \union next, !.queue = @ \ next, !.done = {},
                    !.failures = @ \union failed, !.stop = stop]
  /\ UNCHANGED <<runs, batch, summary>>
\* wait returns what is done; the results are counted and the window refilled.
Wait ==
  /\ pass.phase = "run" /\ pass.done # {}
  /\ LET left == pass.pending \ {r.job : r \in pass.done}
         failed == {r.job : r \in {x \in pass.done : ~x.ok}}
         stop == pass.stop \/ (pass.args.stop_on_error /\ failed # {})
         next == IF stop THEN {} ELSE Refill(pass.queue, pass.workers - Cardinality(left))
     IN  pass' = [pass EXCEPT !.pending = left \union next, !.queue = @ \ next, !.done = {},
                    !.failures = @ \union failed, !.stop = stop]
  /\ UNCHANGED <<runs, batch, summary>>

\* Ctrl-C: leaving the with block waits for the jobs submitted.
PassInterrupted ==
  /\ pass.phase = "run" /\ batch.interrupts < MaxInterrupts
  /\ pass' = [pass EXCEPT !.phase = "leaving"] /\ batch' = Idle(batch.interrupts + 1)
  /\ UNCHANGED <<runs, summary>>
PassEnds ==
  /\ \/ pass.phase = "run" /\ pass.pending = {} /\ pass' = Over(pass.args, IF pass.failures = {} THEN 0 ELSE 1, pass.wanted)
     \/ pass.phase = "leaving" /\ Cardinality(pass.done) = Cardinality(pass.pending) /\ pass' = Over(pass.args, 130, pass.wanted)
  /\ UNCHANGED <<runs, batch, summary>>

-----------------------------------------------------------------------------

Batch == Generate \/ Rerun \/ Analyze \/ (\E c \in Cases : RunCase(c) \/ AppendRow(c)) \/ BatchInterrupted \/ BatchEnds
Script ==
  \/ \E args \in PassArgs, k \in Roots, patched \in BOOLEAN : StartPass(args, k, patched)
  \/ pass.phase \in {"run", "leaving"} /\ \E d \in pass.pending, ok \in BOOLEAN : JobEnds(d, ok)
  \/ Wait \/ PassInterrupted \/ PassEnds
Next == Batch \/ (\E k \in Roots : SummarizeLlm(k)) \/ Script
Spec == Init /\ [][Next]_vars

-----------------------------------------------------------------------------
(* Properties                                                              *)

(* A saved corpus is continued and analysed with the coverage, state and   *)
(* tracker window, and continued in the mode, it was made with, along any  *)
(* chain of reruns and analyses and whatever else the command lines hold:  *)
(* prepare_rerun and _analysis_args take them from run.log.                *)
CorpusSettings ==
  \A i \in DOMAIN runs, c \in Cases :
    runs[i].kind # "gen" =>
      \A u \in Range(runs[i].dir[c].used) : \A f \in DOMAIN u.with : u.with[f] = u.made[f]

(* A rerun is its parent run with the given overrides and nothing else     *)
(* changed: what _generation_args logs is what prepare_rerun reads back,   *)
(* also for the options of the mode, and after several reruns.             *)
InheritedFields(mode) ==
  {"top_pass", "selection", "metric", "reduce_cover", "gen_only"}
  \union (CASE mode = "psbfl" -> {"mutator_window_size"} [] mode = "withw" -> {"max_corpus_size"} [] OTHER -> {})
Inherited ==
  \A i \in DOMAIN runs :
    runs[i].kind = "rerun" =>
      LET parent == runs[runs[i].parent].cfg
          overrides == runs[i].args
      IN  /\ runs[i].cfg.mode = parent.mode
          /\ \A f \in InheritedFields(parent.mode) :
               runs[i].cfg[f] = IF f \in DOMAIN overrides /\ overrides[f] # <<>> THEN overrides[f][1] ELSE parent[f]

(* When the script ends with 0 and is not asked to list or to write        *)
(* elsewhere, every directory it selected has llm_rerank.json, those it    *)
(* skipped too; and under --stop-on-error at most as many jobs fail as     *)
(* there are workers: run_jobs counts every result, in whatever groups     *)
(* wait returns them, before it submits more.                              *)
ScriptHonest ==
  /\ pass.phase = "over" /\ pass.code = 0 /\ ~pass.args.output =>
       \A d \in pass.wanted : runs[d[1]].dir[d[2]].llm
  /\ pass.phase = "run" /\ pass.args.stop_on_error =>
       Cardinality(pass.failures \union {r.job : r \in {x \in pass.done : ~x.ok}}) <= pass.workers
============================================================================
