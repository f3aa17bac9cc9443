# Ibex, its verification scripts and its fault-localisation tools in TLA+

Specifications of the parts of this repository whose correctness depends on
timing, ordering, interleaving and failure, checked with TLC on small instances;
their safety and action properties are also proved with TLAPS, for every instance.

The repository holds three programs. **Ibex** (`rtl/`) is a 32-bit RISC-V core
with two or three pipeline stages. Its **verification scripts** (`dv/uvm`,
`dv/formal`) run a regression under make and a large set of model-checking jobs.
The **SBFL tools** (`tools/`, `scripts/`) build hundreds of mutated copies of the
core (`verify_dataset/`), simulate each against Spike, rank suspicious blocks,
and have a language model rank them again.

## 1. Inventory

| Component | State | Operations | Talks to | Hard because |
|---|---|---|---|---|
| Prefetch buffer, fetch FIFO | FIFO of words, address registers, one bit per outstanding request, one per response to discard | request, grant, response, branch, hand out an instruction | instruction bus, IF stage | requests run ahead; a branch makes responses in flight stale; instructions straddle words |
| ID/EX and writeback stage | ID FSM, "already redirected" flag; valid, type, pc of WB | execute, stall, kill, request memory, complete | controller, LSU | speculative redirects; multi-cycle instructions that are flushed; an access fails after younger instructions have started |
| Controller | FSM with 10 states, error and mode flags | decode, flush, take interrupt, enter debug, sleep | all stages, CSRs | many requests in one cycle; decision and action a cycle apart |
| Load-store unit | FSM with 5 states, registers for the access in flight | request, grant, response, second half | ID, WB, PMP, data bus | split accesses; bus, PMP and integrity errors on either half |
| IF stage, icache, CSRs, ALU, multiplier, PMP, decoders, lockstep, clock gate | see `PROJECT.json` | | | |
| Batch runner | thread pool, process registry, workdirs, `run_status.tsv` | run a case, collect, Ctrl-C | child processes, files | threads against the signal handler; failure at any step |
| Analysis, rerun, log parsing | run directories: logged commands, rows, corpora | run, rerun, analyse, summarise | files of earlier runs | settings survive only as words of a logged command |
| Parameter sweep | thread pool, child registry, status and combined table | run points, stop | batches as child processes | Ctrl-C against an executor's `with` block |
| LLM client | retry counters, conversation | call, retry, weaken the output mode, repair | an API | mixtures of failures |
| LLM reranking, offline reranking, statistics | prompt, result and offline file of each directory | collect sources, ask, rank, rank again, summarise | files, LLM client | processes killed between two files; ties |
| Batch reranking script | window of jobs, counts | select directories, run, stop on error | reranking processes, summary | stale selection, jobs that finish together |
| Proof conductor | process queue, memory claims, strategy files | prove, explore, kill, restart, store | engine processes | memory pressure, timeouts, races of coroutines |
| UVM regression scripts | metadata file under a lock, a record per test, make's targets | create, build, generate, compile, simulate, check, collect | make -j, simulators | scripts in parallel, several makes in one directory, interrupts |

Correctness, by component: the fetch side hands out the instructions at
consecutive addresses from the last branch target, made only of words requested
after it; the pipeline executes what a machine executes that runs one instruction
at a time, and traps are precise; the load-store unit moves the right bytes and
reports the first error; interrupts are taken and nothing locks up; the batch and
the sweep report what happened and leave nothing behind; a corpus is analysed with
the settings it was made with; a call to a model is bounded and files are loadable
whatever was killed; status 0 of the conductor means proved, and only proofs are
stored; the regression loses no record and reports what the logs say.

`PROJECT.json` lists all components, also those not modelled, with the reason, and
under `hazards` the places where this code is hard to test.

## 2. Modules

| Module | Models | Composed from |
|---|---|---|
| `HalfwordAddr` | instruction addresses and fetched words | |
| `InstrStream` | abstract: what the fetch promises the core | `HalfwordAddr` |
| `FetchFifo` | `rtl/ibex_fetch_fifo.sv` as functions of its entries | |
| `PrefetchBuffer` | `rtl/ibex_prefetch_buffer.sv`; refines `InstrStream` | `FetchFifo` |
| `LoadStoreUnit` (`MC`) | `rtl/ibex_load_store_unit.sv`, the PMP gating of `ibex_core.sv`, the address path of `ibex_id_stage.sv` | |
| `IdStage` | stall, kill and hazard logic of `rtl/ibex_id_stage.sv`, `rtl/ibex_wb_stage.sv` | |
| `Controller` | `rtl/ibex_controller.sv` | `IdStage` |
| `Pipeline` (`MC`) | the stages clocked together, with a sequential machine beside them | `Controller` |
| `PipelineLive` | the pipeline with an interrupt that stays pending, and fairness | `Pipeline` |
| `BatchRunner` | `runner.py` and the process registry of `workspace.py` | |
| `SbflLogs` | the commands a batch logs and what `logparse.py`, `rerun.py`, `analysis.py` and the reranking script read from them | |
| `Campaign` (`MC`) | a series of batches, their summary, `scripts/rerank_sbfl_with_llm.py` | `SbflLogs` |
| `Sweep` (`MC`) | `sweep.py` | |
| `LlmClient` | `llm_client.py` and the three providers | |
| `Ranking` | candidates, source context, ranking, ranks of bugs and statistics as functions | |
| `LlmRerank` (`MC`) | `rerank.py`, the offline tool's `workflow.py`, the summaries, on shared files | `LlmClient`, `Ranking` |
| `ProcessRunner` | the process runner of `dv/formal/conductor.py` | |
| `Conductor` (`MC`) | its prove and explore mode | `ProcessRunner` |
| `RegressionTests` | choice of tests, commands and verdicts of `dv/uvm/core_ibex/scripts` as functions | |
| `Regression` (`MC`) | the scripts under make, the lock, the records | `RegressionTests` |
| `X_proofs` for `X` in `LoadStoreUnit`, `PrefetchBuffer`, `Pipeline`, `BatchRunner`, `Campaign`, `Sweep`, `LlmRerank` | theorems about `X` (section 5) | `X` |
| `DvFlows_proofs` | theorems about the two flows under `dv/` (section 5) | `Conductor`, `Regression` |

(`MC`): there is a module of that name with `MC` in front that holds the instance's values.

**Hardware.** A step of a hardware module is a clock cycle: combinational signals
are operators over the registers and this cycle's inputs, named like the signals,
and `Cycle` assigns every register. Inputs that the component does not control
(grants, responses, errors, branches, interrupts) are chosen anew in every cycle.

*Load-store unit.* `ls_fsm_cs`, `handle_misaligned_q`, `pmp_err_q`, `lsu_err_q`,
`addr_last_q`, `rdata_q` are the registers; `ctrl_q` groups the four `*_q` registers
of the access in flight. There is one action per FSM state, `IDLE` split by whether
an access is requested. A byte of data is its origin `<<word, lane>>`, so that the
lane tables (`data_be`, `data_wdata`, `rdata_*_ext`) are checked as permutations. The
data bus is external: it grants when it likes and answers in order, from the next
cycle on. `bus`, `hist`, `asked` and `done` are observations.

*Prefetch.* A word is its number, its error flag and the set of its halves that begin
a 32-bit instruction: all the buffer looks at. `StreamSpec` is `InstrStream!Spec` under
the mapping `pc <- instr_addr_q, buf <- fifo`.

*Pipeline.* An instruction is its kind, its fetch error and whether it depends on the
one before. The fetch is that of `InstrStream`; the load-store unit appears as two
registers, a requesting access and one that is owed an answer, as `LoadStoreUnit` shows
it to the pipeline. The CSRs are reduced to what the controller reads. `config` is chosen
at the start and never changes: the parameters of the core and the inputs it is given.
`npc` is the reference: the next instruction of a machine that executes one at a time;
`steps` counts instructions while single-stepping. Properties about a cycle are quantified
over all inputs of that cycle.

**SBFL tools.** `BatchRunner` has one action per step that other threads can observe:
`Popen` and the registration are separate, as are the snapshot of the registry and the
signals, because no lock spans them. A case's place in `_run_case` is `at[c]`. Any
command may fail, raise or be signalled; creating the workdir, removing it, writing the command
files and the row (`_append_result`, `Collect`) and finishing a case (`Finish`) may raise.
`Sweep` has the same grain: `pc[p]` is a thread's place in `_run_point`, `victims` what
`stop()` has listed and not yet killed; appending a row to the status file may raise, and the combined
summary may stop half-way (`Tables`). In `Campaign` a whole case is a step, and what
matters is what it leaves: the words of its command, its row, its corpus. Options that
the code treats alike are represented by one of them.

A source context is the lines `render_selected` prints: blank lines are dropped, also a candidate's
own, and an omission is marked where the lines between two printed ones are not all blank (`gaps`).

`LlmClient` has one action per way a request can end (`ModeRefused`, `Transient`,
`RequestFailed`, `EmptyAnswer`, `InvalidAnswer`, `ValidAnswer`). A message is its role.
`LlmRerank` puts it between saving the prompt and writing the result, with `Killed` in every
step; the offline tool and the summary may run at any time between two processes. Scores,
weights and suspiciousness are small integers instead of floating-point numbers.

**Verification scripts.** `ProcessRunner!Poll` is one call of `poll()`, which the event loop
never interrupts; between two polls processes grow, exit and pass their timeouts, and
coroutines submit and cancel. `Conductor` has the places at which an invocation waits; `-p` and
`--missing` are any selection of the properties. In
`Regression` a script is its recipe: load, work, export, with the lock where it takes it; make
starts what its rules allow, and a target is out of date by the order of the steps that wrote
it and its prerequisites, as make compares times. With `--keep-going`, the invocation of
`dv/uvm/core_ibex/README.md:34`, a failed recipe stops only what depends on it. A simulator may fail
without leaving a log or trace (`NothingSimulated`), which `run_rtl` does not look at: the log of an
earlier make is then still there, except with vcs, whose log is emptied first.

Operators marked "faulty variant" are not used by the specifications: each is a
plausible mistake in the code, and replacing the definition after it by the variant
makes TLC report the property listed under `mutants` in `PROJECT.json`.

## 3. Runs

| Run | Instance | Checks |
|---|---|---|
| `lsu` | 2 words, all types and offsets, every PMP verdict on split accesses, ECC | loaded and stored bytes, errors and `mtval`, each request issued once and held, responses matched to halves, every access answered |
| `prefetch` | 3 words, 2 requests | refinement of `InstrStream`, alignment and error attribution, room and discarding, held requests, fetching never stalls |
| `pipe` | three cores: 3 stages with branch target ALU, interrupts, NMIs and integrity errors; 3 stages with data-independent timing and a debugger; 2 stages with debugger and fetch enable | in-order execution, precise traps with the right cause, no speculative or orphaned access, breakpoints and single-stepping |
| `pipe_liveness` | 3 stages, an interrupt that arrives at any time and stays, NMIs and integrity errors | interrupts and integrity errors are taken, no lock-up |
| `batch` | 2 cases on 2 threads | statuses and rows tell what happened, exit leaves nothing, the program ends |
| `conductor` | 2 blocks of properties, memory for one and a half engines | no future or process is lost, status 0 means proved, only proofs are stored, every invocation ends |
| `conductor_race` | the same | *violated*, finding 1 |
| `sweep` | 2 points, 1 or 2 threads, up to 3 interrupts, exceptions of the status file and the summary | status 0 means all, what Ctrl-C does and does not do, the sweep ends |
| `llm` | 2 processes, 2 directories, 1 retry | bound on requests, conversation, source context, loadable files, agreement of the offline tool, sound ranks and statistics |
| `regress` | up to 2 tests, `-j 2`, up to 2 makes, one edit of the RTL, one Ctrl-C, with and without `--keep-going`, simulators that leave nothing | no field of the metadata lost, one script per record, true reports, tests fit the configuration, every make ends |
| `regress_stale` | the same | *violated*, finding 2 |
| `campaign` | 3 batches over 2 cases, one failure, one Ctrl-C, one reranking pass | corpora are used with their settings, reruns inherit, the script's status 0 means ranked |

**Why the bounds are enough.** *Load-store unit*: a split access touches two words, and one
from the second word wraps round; accesses that are not split are checked in one word only,
since the number of the word is only copied. *Prefetch*: the FIFO has three entries, so that
all may hold different words, and the address space wraps while requests are outstanding;
`NUM_REQS = 2` is the value of the core. *Pipeline*: at most three instructions are in flight,
branches lead two on (so that no two instructions that finish together bring the sequential
machine back to where it was), and the vectors differ from one another except that boot and
exceptions share one; `pipe_liveness` uses the instructions that fill the pipeline, wait,
sleep, trap and return. *Batch, sweep*: every pair of steps of two threads interleaves with
every step of the main thread; a sweep on one thread has a point that waits in the queue when
Ctrl-C comes. The theorems about `BatchRunner` cover all other numbers of cases and threads, those about `Campaign` all
other chains, numbers of cases and of jobs. *Conductor*: two
engines do not fit together, so that one is killed and restarted;
steps with and without something to prove, with and without --check-complete, are there. *LLM*: one retry makes each budget run out
and mixes them; two processes leave the prompt of one beside the result of the other.
*Regression* (`MaxTests`, `MaxMakes`, `MaxRtl`: tests selected, makes, edits of the RTL): two recipes run at once, and a second make after an edit, a failure or Ctrl-C
finds every mixture of old and new files, with vcs and with a simulator whose log is not emptied;
`--keep-going` (`KeepGoing`) is there where both kinds of tests are selected, so that one may go on after the
other fails. *Campaign* (`MaxRuns`, `MaxFresh`, `MaxRanked`,
`MaxPasses`, `MaxInterrupts`, `MaxFailures`): a chain of three has a rerun of a rerun and an
analysis of a rerun. Apart from these counters the runs explore complete state graphs.

Deadlock is not checked in `campaign`, `conductor`, `regress` and `sweep`, where the program, or the
last of a bounded number of commands, really ends.

**Fairness.** *Load-store unit*: the bus grants a request that is held and answers what it
granted, in order, as the protocol in `doc/03_reference/load_store_unit.rst` has it; the clock
ticks. *Prefetch*: the same, and the core keeps asking for instructions and takes those
offered; no fairness is asked of branches, so `KeepsFetching` says "or the core branches for
ever". *Pipeline*: the clock ticks (no NMI, debug request or integrity error is promised to
arrive), the load-store unit (see above) and the multiplier finish, and the fetch has an
instruction infinitely often when ID is ready infinitely often. That is strong fairness: the
fetch holds an instruction until it is taken, so that it cannot be ready only in those cycles
in which ID is not. *Batch, sweep*: threads are scheduled, and commands end by themselves
(the SBFL binary is given `--max-run-timeout`). *Conductor*: the event loop runs what is ready
and polls, and engines end, by themselves or at their timeout; nothing is assumed about the
order. `Ends` has the premise that every command fits into memory alone, without which the
code waits for ever. *Regression*: make and its recipes go on; nothing is assumed
of Ctrl-C, edits or the lock's order. Ctrl-C is never fair.

## 4. Findings

1. `conductor_race`: `race()` (`dv/formal/conductor.py:64`) says that it runs processes
   "cleanly". Its wrappers close over the loop variable and all await the last task, so that a
   race of two ends in a `RuntimeError`. `explore` without `--hard` therefore fails as soon as
   something is missing.
2. `regress_stale`: `check_logs.py:5` says that passing is determined by the errors found. When
   a log has an error, `passed` keeps the value of an earlier check in the same output directory:
   a test that passed and, after an edit of the RTL, fails is reported as passing.

Met while modelling; the specifications behave like the code, and no run is devoted to them:

* RTL: a split load whose first half has bad check bits is written to the register although
  `load_store_unit.rst:65` says such writes are suppressed (the NMI is still raised); without a
  writeback stage DRET outside debug mode traps and still counts in `minstret`, against
  `ibex_id_stage.sv:1078`.
* Batch: `terminate_all` signals what is registered at one instant; a thread between two commands,
  or between `Popen` and the registration, goes on with a process that nobody signals, although
  `workspace.py:31` has "so Ctrl-C can terminate the whole batch". The model has these steps; that every
  process which runs while the program waits for its threads after Ctrl-C was signalled,
  `main = "join" /\ why = "interrupt" => \A c : child[c] = "running" => c \in signalled`, is violated. Cases
  that had finished at Ctrl-C but were not yielded have no row, and rerun and analysis leave them
  out silently. A word that is no number in a logged command ends a whole analysis batch.
* Sweep: one Ctrl-C stops nothing; the executor's `__exit__` first waits for all points.
* Campaign: directories of dry runs stay LLM_MISSING and make every `--summary` pass exit with 2;
  the same case in two runs under the root makes the script refuse the pass; a stale summary
  ranks cases again unless `--skip-existing`; `--resume-corpus` of a generation does not compare the
  settings that must agree with the corpus.
* Conductor: `prove --by-step` discards the results; engines outlive an invocation that ends by an
  error; a crash inside `store_strategy` (`conductor.py:576`) leaves an empty file, and a later prove without
  `--check-complete` skips that step and still ends with 0 (`ProveMeansProved` asks only for what is stored).
* LLM client: the help of `--retries`, "number of retries after the initial model request" (`cli.py:145`),
  reads as `1 + retries` requests. The code allows `retries` of them for failed requests, as many again for
  repairs, and one per output mode (`RequestBound`); `test_llm_client.py:60-65` expects two
  requests with `retries=0`.
* Offline reranking: the prompt beside a result may be one of a later, killed process;
  `WrittenLoadable` speaks of each file alone, `OfflineAgrees` of the two together.
* Source context: a candidate that is only a blank line has no line in the prompt (`snippets.py:67-68`).
* Regression: `trr.yaml` is also written by `run_rtl` after the log, so that a make that ends in
  between leaves a test that the next make reports unchecked (`cut` in `ReportTrue`); Ctrl-C during
  an export leaves a truncated `metadata.pickle`. `run_rtl.py:117` returns 0 because "We've successfully
  generated a log either way": a simulator that fails before it opens its log leaves none, or,
  other than vcs, that of an earlier make, which is then checked again and reported as new
  (`\A i \in report.passing : log[i].rtl = rtl` at the report is violated with xlm and two makes; `missed` in
  `ReportTrue`). A TIMEOUT is never reset (`check_logs.py:33-36`), so that a test which timed out once
  fails in every later make of the directory (`Passing(log[i]) /\ ~log[i].missed => i \in report.passing` is
  violated). `run_instr_gen` returns 0
  when generation failed; `check_ibex_uvm_log` raises on FAILED without an error line;
  `filter_tests_by_config` appends a test once per matching parameter; `TEST=all` selects no directed
  test; readers load the metadata without the lock.

## 5. Proofs

The runs check small instances; the theorems hold for every value of the constants that the
named assumptions admit. Every proof of an invariant has the same form: an invariant that is
inductive, a lemma per action or per part of it, and the property as a consequence. The
inductive invariants were first checked by TLC, as invariants and, for the pipeline, from
random states that satisfy them.

`LoadStoreUnit_proofs` (for every number of words, every set of accesses, with and without
ECC): `Invariance`, that `LsuInv` holds always, and from it `TypeCorrect` and
`ResponsesMatched`, which is `BusMatchesFsm`. That property says how many transactions the bus
owes in each FSM state and for which halves. It is not inductive: what a response does depends
on `handle_misaligned_q` and `pmp_err_q`. So `LsuInv` adds `FlagInv`, in which state each flag may
be set and that the captured type and offset are those of the access, and `BusInv`, that the
bus's queue is the one the state says. There is one lemma per FSM state, and lemmas on what a
cycle appends to and removes from the bus's queue.

The data of an access: `LoadsRight` (`LoadResult`), `StoresRight` (`StoreWrites`),
`FaultsReported` (`FaultReported`) and `RequestsHeld` (`RequestsRight`). They speak of an access
that is over, or of one cycle; `HistInv` says what the registers and the bus hold of an access on
the way, as a function of how many halves have had their address phase and whether the first was
answered: the captured control bits (`CaptureInv`), the latched error (`ErrInv`), the bytes of
the first word (`DataInv`), and what was issued and written (`TraceInv`). The rest is the lane
tables, shown to be permutations for each type and offset.

`PrefetchBuffer_proofs` (for every address space and at least two outstanding requests):
`TrackingHeld` (`RequestsTracked`), `OfferRight` (`OfferedInstr`) and `StreamImplemented`, that the
buffer refines `InstrStream`: `Spec => StreamSpec`, each cycle being a step of the abstract fetch
or a stutter. `PfInv` has two ideas. `TrackInv`: the registers say what the bus owes. `Chain`: the
words in the FIFO, then the granted requests that no branch has made stale, then the request that
waits, then the next address to fetch, follow one another from the word of `instr_addr_q` on. The
stale transactions are the first on the bus (`StaleTo`), which is why a discard bit per slot is
enough.

`Pipeline_proofs` (for any set of core configurations, instructions, breakpoints, vectors and at least
three addresses, and any sequence of interrupts, debug requests, responses and stalls): `ProgramOrder`
(`InOrder`), `PreciseEverywhere` (`TrapsPrecise`), `AccessesHeld` (`AccessesOwned`) and
`StopsForDebug` (`DebugStops`). The parts of `PInv`:

* `QuietInv`: outside `DECODE` nothing is under way and the fetch is at the next instruction, unless
  one is kept in ID;
* `RedirectInv`: a redirection under way is that of the instruction in ID, which then executes;
* `OrderInv`: in `DECODE`, WB, ID and the fetch hold consecutive instructions, from `npc` on;
* `LsuInv`: an access that requests is that of the instruction in ID, one that is owed a response
  that in WB or, without a writeback stage, that in ID;
* `FlushInv`: what the flops say in `FLUSH` is true of the instruction in ID or of the failed access;
* `DebugInv`: no instruction gets past a breakpoint, and while stepping one that has left ID leaves
  `do_single_step` behind, which keeps the next one out.

A cycle outside `DECODE` executes nothing and clears ID (`Settled`). One in `DECODE` finds ID empty, keeps
its instruction, lets it go, or leaves for `FLUSH` with it (`Advanced`); each part is proved for
each of these four. That instructions which read no register depend on none (`ReadsNothing`, from the
decoder's `rf_ren` outputs) is an assumption on the configurations.

`BatchRunner_proofs` (for any number of cases and threads): `Invariance`, that `BatchInv` holds
always, and from it `TypeCorrect`, `WorkdirOutlivesChild`, `OkIsEarned`, `RowsComplete`,
`CleanExit` and, as an action property, `ShutdownIsFinal`. The properties speak of the table and
of the end of the program; `BatchInv` says what holds on the way there:

* `ProcessInv`: a process exists only while its thread is in `ProcessRegistry.run`;
* `WorkdirInv`: at which places of `_run_case` the workdir exists;
* `HistoryInv`: the commands that returned zero are those before the present one, and "OK" is
  decided only after all three;
* `StatusInv`: a case that reached the finally clause has a status (`TypeOK` needs it: rows have one);
* `RowsInv`: rows belong to yielded futures, one each, and none is missing unless a case raised;
* `MainInv`: no case is queued after shutdown, and all are yielded if the loop ended by itself.

Each part is preserved by a lemma of its own, with one step per action.

`Campaign_proofs` (for any cases, command lines, words and numbers, and any number of runs, failures,
interrupts and uses of the script): `CampaignTyped`, `CampaignCorpusSettings` (`CorpusSettings`),
`CampaignInherited` (`Inherited`) and `CampaignScriptHonest` (`ScriptHonest`). The two parts of
`CampaignInv`:

* `RunsInv`: what is in a run directory follows from the run it reads (`Good`). Each case's command is
  `generation_args` of the configuration of its run, its corpus has that configuration's settings, and
  a rerun's configuration keeps its parent's (`Kept`). Neither `CorpusSettings` nor `Inherited` says anything of
  the logged commands, which are all that a rerun or an analysis has; so the proof needs that parsing
  a logged command gives back the configuration (`ReadsBack`, `ModeBack`, `CriticalBack`,
  `RerunMade`). The command is followed part by part as it grows (`Upto2` to `Upto9`): an option is found first
  where it was put, because what comes before has no such word and the simulator's words, with a
  `-c` of their own, come after; the mode is the last mode word before `--`, because after it come
  only options and numbers.
* `PassInv`: the window of `run_jobs` (`JobsOK`). A selected directory is ranked, or its job waits, runs or
  failed; no more jobs run than there are workers; if none runs the queue is empty or a failure stopped
  it; under `--stop-on-error` failed and running jobs together are at most the workers. The bound in
  `ScriptHonest`, of failures alone, is not inductive. That `Refill` takes jobs in order, as many as may
  run and not none, is the pigeonhole principle and the existence of a first directory.

`Sweep_proofs` (for any command lines, points, threads and interrupts): `ZeroRight`
(`ZeroMeansAll`) and `InterruptRight` (`InterruptOutcome`). `SwInv` says which label of `_run_point`
goes with which child, registration, return codes and row (`ChildInv`, `RowsInv`), how the main
thread came to its stage (`MainInv`), and that the children started after `stop()` and the threads
still at `Popen` together are at most `--sweep-jobs` (`LateInv`): the bound on late children is not
inductive without the second. `ZeroMeansAll` also needs that `_points` has one point for each
combination, which is the injectivity of a mixed-radix representation. An exception of the status file or
of the summary, or a third interrupt, ends with another status; a point whose row cannot be appended has none.

`LlmRerank_proofs` has four parts. The client, for every number of retries and under any caller:
`ClientRequestBound`, that a call makes at most two requests per retry and one per output mode, and
`ClientInTurn`, that in every request user and assistant take turns. Neither follows from the
counters' types. `Counted` says that the requests made are those that used up a budget, one more while
an answer is looked at; `Turns` that the conversation has two messages per repair after the first,
alternating by position.

The tools, for any localisations, command lines, answers, weights and directories: `LlmSourcesKept`
(`SourcesKept`, which is about the lines that are not blank), `LlmWrittenLoadable` (`WrittenLoadable`) and `LlmOfflineAgrees` (`OfflineAgrees`). They
rest on lemmas about the operators of `Ranking`. `Ascending` and `Sorted` put an item where as many others are
before it as the position says; that every position is taken, once, is the pigeonhole principle on the
places (`PlaceFacts`). `compress_line_ranges` loses nothing (`RangesFacts`), so a prompt read back is refused
or gives the candidates it was made from (`PromptFacts`). Two lists of candidates of one
localisation with the same ids are equal (`SameIds`): that is why it does no harm that the prompt
beside a result may be a later one, as `validate_scores` compares just the ids. `RerankInv` then says
what each file is (`FilesInv`), that the process has candidates of this localisation, no fewer than
`top_k` (`ProcInv`), and that an accepted answer scores these (`CallInv`).

`LlmSummarySound` (`SummarySound`) says the same of every summary, for any bugs, window and number of
directories. A sum is counted: `SumCounts` says that `SumFunction`, a recursion over subsets in an order
nobody knows, is the number of pairs of an element and one of its copies (`Copies`), by the least
counterexample. So a sum of greater numbers is greater (`SumMonotone`) and a mean of ranks lies among
them (`AverageBetween`); the ties of an item lie between the better items and those as good (`TieGroup`),
which is where a reader could meet it (`BugRank`). The counts are parts of the cases (`FourParts`),
and where none is worsened each rank is at most the localisation's (`StatsFacts`). `RowsInv` says that
a row has ranks, and none of the model where there is no result.

Last, `RerankCallsClient`, `Spec => ClientSpec`: the tools are such a caller, so the client's two
properties hold of them (`LlmRequestBound`, `LlmInTurn`).

`DvFlows_proofs` has two parts. The conductor (for any properties, blocks, command lines, memory use and sequence of polls, kills and
interrupts): `ConductorTyped`, `RunnerAccounts` (`Accounted`), `ProveRight` (`ProveMeansProved`)
and, as an action property, `StoresProved` (`StoredProved`). In `CdInv`, `RunnerInv` says that a process is
in one list of the runner, once, as long as its future is open; `GatherInv` that an open future is the
one some block of the gather waits for, so that nothing is left when the next gather begins; `ProveInv`
that what has been loaded is what is run and checked. `poll()` filters its lists (`Without`, a
recursive function); that it removes exactly what it is given is proved by least counterexample.

The regression (for any arguments, test lists, parameters, simulations and `-j`): `RegressionTyped`,
`RegressionFilesKept` (`FilesKept`) and `RegressionReportTrue` (`ReportTrue`). Neither property is
inductive: the first says nothing of a copy that is yet to be written, the second only speaks at the
end of a make. `RegrInv` has four parts beside the types.
`MakeOrder`: a target is settled after its prerequisites, and a script runs while they are settled and it is not.
Two scripts of one test are therefore never there together (`OneScript`), and the testbench does not change
under a simulation. `MetadataHeld`: a script between load and export holds the lock, and its copy has
every field that is done, so that what it writes loses none. `SimulationsCurrent`: what make would
leave as up to date is right. A log newer than its testbench was made with it; one that is not newer but whose
testbench was not remade cannot be left alone. Here the proof uses `tb.stamp` as a
prerequisite of each log (`Prereqs`), and fails with the faulty variant without it. `VerdictsKept`: a record with a log is judged, unless its
check is still to come in this make or was cut off in an earlier one (`Pending`, `cut`), and a pass on the first log is what the
log says. Where the last simulator left nothing (`missed`) only the weaker half remains: a test that passes has had a log. That the functions on logs agree with the reference `Passing` are lemmas of their own (`TracePassing`, `LinesPassing`):
least and greatest elements of sets of line numbers. Every handler is shown once to be a step of
its target as make sees it (`TargetStep`); each part is then shown for such steps, for the starts and ends of make,
edits and Ctrl-C.

`RegressionTestsFit` (`TestsFit`) is about data, the lists of tests, not about interleavings: `FlattenFacts` says what
`FlattenSeq` returns of any sequence of sequences (again by least counterexample), and selection, override,
filter and seeds keep the names apart (`From`, `Distinct`). It needs `TestlistAssumption`: each entry has a name
of its own and at most one parameter, as in `testlist.yaml` and `directed_testlist.yaml`. With two
parameters the filter does append a test twice (section 4).

The assumptions are those named in the modules: at least one case and one thread (`_validate`); a
natural number of retries; the types of what argparse returns (`SweepAssumption`,
`ConductorAssumption`, `RerankAssumption`; numbers may be negative); the types of the trace and the log
that a simulator leaves, if it leaves any (`SimsAssumption`), and how the two lists of tests are written (`TestlistAssumption`); suspiciousness and scores are
numbers, and an answer has a score for each candidate it names (`RerankAssumption`); the case directories are finitely many
(`DirsAssumption`), and `result.log`, which the simulator writes, gives rank `top-n` to the n-th most suspicious block, what is
not a number last (`RankedAssumption`; only `LlmSummarySound` uses these two: average ranks of tied neighbours mean nothing
in a list without that order); that numbers are no modes or options and
the words the code writes are words (`NumbersAssumption`), and what the parsers of the batch and the script
return (`ArgsAssumption`: `positive_int` for `--jobs`, at least one case). Of these, two say more than
the parsers do. No option's value is the name of an option: argparse takes no word with a dash
after an option, but would in the form `--metric=--gen-only`. And no argument of the simulator behind `--`
is `--reduce-cover` or `--gen-only`, as `has_flag` looks at these arguments too: with one of them
a rerun would inherit what its parent did not have. Further: each block's
properties belong to one step and each property that is not skipped has a block of its own
(`ConductorAssumption`, how `load_strategy` makes them); address spaces of at least two words, two
outstanding requests; and `None` is none of the other values.

What proof attempts showed about the model: `late <= --sweep-jobs` fails for a rejected negative
`--sweep-jobs`, and what a step proved must be said of the steps from `--start` on, which may be negative
(both are now stated, and in the instances); `id_prio` was a `CASE` with overlapping
arms, whose order TLA+ does not define, and is now a chain of `IF`s like the code; `SourcesKept` was false of
a block with a line its file does not have, which `_expanded_lines` refuses and the whole file
does not contain (the model now has the error, the property the exception, the instance such a block).
In the campaign a rerun read its cases in their numbers' order, whereas the rows are in the order in which the
cases ended (any of them may now be the first); the overrides of `--metric` and `--reduce-cover` and
the refusal of a negative `--top-pass` were missing; and `Inherited` does not follow for
simulator arguments that `has_flag` mistakes (now an assumption, above).

Only model-checked: liveness (`AccessAnswered`, `KeepsFetching`, `Serviced`, `Progress`, `RunEnds`,
`Ends`, `SweepEnds`, `MakeEnds`), which the proof system does not handle. Every safety and action property
that a run checks is also a theorem.

## 6. Not modelled

The decoders' tables, the ALU, the multiplier and the PMP's comparison (32-bit combinational logic;
`dv/formal` compares them with the Sail model), the instruction cache, the experimental branch
predictor, dummy instructions, the Zcmp expansion, lockstep, the clock gate, register files, the
tracer, testbenches, vendored code and the dataset. Of the CSRs only what the controller reads.
Of the Python code: `scripts/` other than the reranking script (single passes over files that count,
compare or plot), `util/` (formatting of parameters, comparison of versions), `gen_testlist.py`
(prints a table), command-line parsing, the wording of prompts and reports, HTML, JUnit and coverage
figures, `bmc` and `info` mode of the conductor. In the modelled hardware: performance counters,
debug cause and `mtval` of the controller, the choice among maskable interrupts, and privilege levels.
In the modelled scripts: a second Ctrl-C while the batch waits for its threads; interrupts and SIGTERM
while the interpreter joins the threads of a sweep that has left; the order of exceptions inside one
step; a `-p` of the conductor that names no property (it ends with 1 before anything runs). `Inherited`
does not compare the simulator's arguments and the number of reduced instructions.

## 7. Plan

Done: load-store unit, prefetch, pipeline, batch runner; then the LLM client and the reranking, the
sweep, the campaign of batches, the proof conductor and the regression. Worth doing next:

1. CSRs: trap stack, NMI stack and debug CSRs, composed with the controller's save and restore
   outputs; abstract specification: a stack of contexts of depth two.
2. Instruction cache: fill buffers and invalidation, as a second implementation of `InstrStream`.
3. IF stage with the skid buffer and the Zcmp expansion; clock gate.
