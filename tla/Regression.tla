---------------------------- MODULE Regression -----------------------------
(***************************************************************************)
(* The UVM regression of dv/uvm/core_ibex: make -j runs the scripts, which *)
(* share the regression's metadata file (LockedMetadata) and, test by      *)
(* test, the record of a test (TestRunResult).  The sources may be edited  *)
(* between two runs of make in the same output directory, and make may be  *)
(* interrupted.                                                            *)
(*   A step <<script, i>> is the recipe of one target; i is the number of  *)
(* the test, 0 for the steps of the whole regression.  Make is modelled    *)
(* from the rules of the makefiles: a target is up to date when it exists, *)
(* is newer than what it is made from, and nothing of that was remade.     *)
(***************************************************************************)
EXTENDS RegressionTests

CONSTANTS
  ArgsLists,            \* the --args-list values make may be started with
  cfg,                  \* the parameters of the Ibex configuration
  testlist, directed,   \* testlist.yaml and directed_testlist.yaml
  yaml, environ,        \* rtl_simulation.yaml; the environment variables that are set
  compileOpts, simOpts, \* user_subst_options of compile_tb.py and run_rtl.py
  genCommands,          \* what riscv-dv lists for a test, by name: to generate it
  compileCommands,      \* and to compile it
  Sims,                 \* what a simulation may leave: trace, lines of its log, whether it was killed
  KeepGoing,            \* the ones make may be started with --keep-going with
  MakeJobs, MaxTests, MaxRtl, \* make's -j, and the bounds of the tests and of the edits
  MaxMakes              \* how often make is run, by the arguments
ASSUME BoundsAssumption == MakeJobs \in Nat \ {0} /\ MaxTests \in Nat /\ MaxRtl \in Nat /\ \A a \in ArgsLists : MaxMakes[a] \in Nat
ASSUME ArgsAssumption == ArgsLists \subseteq [seed : Text, cov : Text, iterations : Text, simulator : STRING, test : SUBSET STRING]
\* testlist.yaml and directed_testlist.yaml as they are: an entry has a name of its own and asks for at
\* most one parameter.
ASSUME TestlistAssumption ==
  /\ testlist \in Seq(Entries) /\ directed \in Seq(Entries)
  /\ \A i, j \in DOMAIN (testlist \o directed) : (testlist \o directed)[i].test = (testlist \o directed)[j].test => i = j
  /\ \A e \in Range(testlist \o directed) : Len(e.rtl_params) <= 1
ASSUME SimsAssumption == Sims \subseteq [trace : Seq(STRING), lines : Seq(STRING), killed : BOOLEAN]

VARIABLES
  args_list, tests,     \* the arguments; the TEST.SEEDs of the metadata
  md,                   \* metadata.pickle: "none", "whole" or "truncated", and the scripts whose fields it has
  holder, copy,         \* who holds the lock; what the scripts have loaded
  trr,                  \* <TEST.SEED>.pickle
  log,                  \* what the last simulation of a test left: its count, the RTL it ran, trace and lines,
                        \* and missed when a simulator that left nothing has been run since
  rtl, tb,              \* version of the sources and of the compiled testbench
  exists, fresh,        \* of a target: it exists; it is newer than what it is made from
  make,                 \* the invocation of make: state, --keep-going, targets to be remade, remade, settled,
                        \* and those whose recipe failed
  makes,
  pc,                   \* where the script of a step is
  report,               \* regr.log
  interrupted,
  cut                   \* the tests a make has simulated and not got to check, after a failure or Ctrl-C

regrVars == <<args_list, tests, md, holder, copy, trr, log, rtl, tb, exists, fresh, make, makes, pc, report, interrupted, cut>>

Locked == {"cfg", "ig", "tb", "fcov", "merge", "collect"}
AllTargets == (Locked \X {0}) \union ({"gen", "comp", "sim", "check"} \X (1 .. MaxTests))
Generated == {i \in DOMAIN tests : tests[i].testtype = "RISCVDV"}
\* Goal all reaches the generator only through the tests that are generated.
Targets ==
  {s \in Locked \X {0} : Generated = {} => s[1] \notin {"cfg", "ig"}}
  \union ({"comp", "sim", "check"} \X DOMAIN tests) \union ({"gen"} \X Generated)

\* faulty variant: the simulations are made from the binaries only
PrereqsWithoutTb(s) ==
  {p \in Targets :
    \/ s[1] = "ig" /\ p[1] = "cfg"
    \/ s[1] = "gen" /\ p[1] = "ig"
    \/ s[1] = "comp" /\ p = <<"gen", s[2]>>
    \/ s[1] = "sim" /\ p = <<"comp", s[2]>>
    \/ s[1] = "check" /\ p = <<"sim", s[2]>>
    \/ s[1] = "fcov" /\ p[1] = "check"
    \/ s[1] = "merge" /\ p[1] = "fcov"
    \/ s[1] = "collect" /\ p[1] \in {"check", "merge"}}
\* What the makefiles make a target from.
Prereqs(s) ==
  {p \in Targets :
    \/ s[1] = "ig" /\ p[1] = "cfg"
    \/ s[1] = "gen" /\ p[1] = "ig"
    \/ s[1] = "comp" /\ p = <<"gen", s[2]>>
    \/ s[1] = "sim" /\ p \in {<<"tb", 0>>, <<"comp", s[2]>>}
    \/ s[1] = "check" /\ p = <<"sim", s[2]>>
    \/ s[1] = "fcov" /\ p[1] = "check"
    \/ s[1] = "merge" /\ p[1] = "fcov"
    \/ s[1] = "collect" /\ p[1] \in {"check", "merge"}}

NoLog == [n |-> 0, rtl |-> 0, trace |-> <<>>, lines |-> <<>>, missed |-> FALSE]
NoReport == [rtl |-> 0, passing |-> {}, counts |-> <<>>]
NoMake == [state |-> "idle", keep_going |-> FALSE, stale |-> {}, touched |-> {}, settled |-> {}, failed |-> {}]
Started(keep_going, stale) ==
  [state |-> "running", keep_going |-> keep_going, stale |-> stale, touched |-> {}, settled |-> {}, failed |-> {}]
TestRunResult == [whole |-> TRUE, passed |-> "unset", failure_mode |-> "unset"]
NoOne == <<"none", 0>>
Running == {s \in AllTargets : pc[s] # "idle"}

RegrInit ==
  /\ args_list \in ArgsLists /\ tests = <<>> /\ md = [state |-> "none", fields |-> {}]
  /\ holder = NoOne /\ copy = [s \in Locked |-> {}]
  /\ trr = [i \in 1 .. MaxTests |-> TestRunResult] /\ log = [i \in 1 .. MaxTests |-> NoLog]
  /\ rtl = 1 /\ tb = 0
  /\ exists = [s \in AllTargets |-> FALSE] /\ fresh = [s \in AllTargets |-> FALSE]
  /\ make = NoMake /\ makes = 0 /\ pc = [s \in AllTargets |-> "idle"]
  /\ report = NoReport /\ interrupted = FALSE /\ cut = {}

-----------------------------------------------------------------------------
(* make                                                                    *)

\* metadata.py --op create_metadata, before the scheduling; metadata that exist are kept.
\* The records are exported before the metadata.
create_metadata ==
  LET parsed == arg_list_initializer(args_list)
      counts == IF parsed.raised \/ get_ibex_metadata(parsed.md, cfg) THEN <<>>
                ELSE get_tests_and_counts(parsed.md, cfg, testlist, directed)
  IN  IF counts = <<>> THEN <<>> ELSE testdotseeds(parsed.md, counts)

\* Of the targets only the records, trr.yaml of check_logs, exist.
RecordsOnly(new) == [s \in AllTargets |-> s[1] = "check" /\ s[2] \in DOMAIN new]

StartMake ==
  /\ make.state = "idle" /\ makes < MaxMakes[args_list] /\ makes' = makes + 1
  /\ \E k \in {j \in BOOLEAN : j => args_list \in KeepGoing} :
     \/ /\ md.state = "none"
        /\ IF create_metadata = <<>> THEN UNCHANGED <<tests, md, exists, fresh, make>>
           ELSE /\ DOMAIN create_metadata \subseteq 1 .. MaxTests
                /\ tests' = create_metadata /\ md' = [state |-> "whole", fields |-> {}]
                /\ exists' = RecordsOnly(create_metadata) /\ fresh' = RecordsOnly(create_metadata)
                /\ make' = Started(k, AllTargets)
     \/ /\ md.state = "whole"
        /\ make' = Started(k, {s \in Targets : ~fresh[s] \/ \E p \in Prereqs(s) : ~exists[p]})
        /\ UNCHANGED <<tests, md, exists, fresh>>
     \/ \* the fields of the metadata cannot be printed
        md.state = "truncated" /\ UNCHANGED <<tests, md, exists, fresh, make>>
  /\ UNCHANGED <<args_list, holder, copy, trr, log, rtl, tb, pc, report, interrupted, cut>>

\* After a failure make starts nothing more; with --keep-going it goes on with what does not
\* depend on the targets that failed.
Considered(s) ==
  /\ make.state = "running" /\ (make.failed = {} \/ make.keep_going)
  /\ s \notin make.settled \union make.failed /\ pc[s] = "idle" /\ Prereqs(s) \subseteq make.settled
Remade(s) == s \in make.stale \/ Prereqs(s) \intersect make.touched # {} \/ \E p \in Prereqs(s) : ~exists[p]

Skip(s) ==
  /\ Considered(s) /\ ~Remade(s) /\ make' = [make EXCEPT !.settled = @ \union {s}]
  /\ UNCHANGED <<args_list, tests, md, holder, copy, trr, log, rtl, tb, exists, fresh, makes, pc, report, interrupted, cut>>

\* The recipes of the coverage targets run a script with COV=1 only.
Recipe(s) == Considered(s) /\ Remade(s) /\ Cardinality(Running) < MakeJobs
CovOff(s) == s[1] \in {"fcov", "merge"} /\ args_list.cov.n = 0
StartLocked(s) ==
  /\ s[1] \in Locked \ {"merge"} /\ Recipe(s) /\ ~CovOff(s) /\ pc' = [pc EXCEPT ![s] = "lock"]
  /\ UNCHANGED <<args_list, tests, md, holder, copy, trr, log, rtl, tb, exists, fresh, make, makes, report, interrupted, cut>>

\* The target of s is written: it is newer than its prerequisites, and what is made from it
\* is older than it.
Touch(s) ==
  /\ exists' = [exists EXCEPT ![s] = TRUE]
  /\ fresh' = [x \in AllTargets |-> IF x = s THEN TRUE ELSE IF x \in Targets /\ s \in Prereqs(x) THEN FALSE ELSE fresh[x]]
SamePath == UNCHANGED <<exists, fresh>>
Settle(s, target) == make' = [make EXCEPT !.settled = @ \union {s}, !.touched = @ \union target]
Goto(s, place) == pc' = [pc EXCEPT ![s] = place]
Fail(s) == Goto(s, "idle") /\ make' = [make EXCEPT !.failed = @ \union {s}]

CutOff ==
  cut' = cut \union {i \in DOMAIN tests :
                      /\ <<"sim", i>> \in make.touched \/ pc[<<"sim", i>>] = "export2"
                      /\ <<"check", i>> \notin make.settled}
EndMake ==
  /\ make.state # "idle" /\ Running = {} /\ \A s \in Targets : ~Considered(s)
  /\ make' = NoMake /\ CutOff
  /\ UNCHANGED <<args_list, tests, md, holder, copy, trr, log, rtl, tb, exists, fresh, makes, pc, report, interrupted>>

EditRtl ==
  /\ make.state = "idle" /\ rtl < MaxRtl /\ rtl' = rtl + 1 /\ fresh' = [fresh EXCEPT ![<<"tb", 0>>] = FALSE]
  /\ UNCHANGED <<args_list, tests, md, holder, copy, trr, log, tb, exists, make, makes, pc, report, interrupted, cut>>

\* Ctrl-C ends the scripts wherever they are; make removes the targets they were writing.
CtrlC ==
  /\ make.state # "idle" /\ ~interrupted /\ interrupted' = TRUE
  /\ \E gone \in {{s \in Running : \/ s[1] \in {"gen", "check"} /\ pc[s] = "export"
                                   \/ s[1] = "sim" /\ pc[s] \in {"tool", "export2"}}} :
       exists' = [s \in AllTargets |-> exists[s] /\ s \notin gone] /\ fresh' = [s \in AllTargets |-> fresh[s] /\ s \notin gone]
  /\ pc' = [s \in AllTargets |-> "idle"] /\ holder' = NoOne /\ copy' = [s \in Locked |-> {}]
  /\ make' = NoMake /\ CutOff
  /\ UNCHANGED <<args_list, tests, md, trr, log, rtl, tb, makes, report>>

-----------------------------------------------------------------------------
(* LockedMetadata and the scripts that use it                              *)

\* faulty variant: the file is loaded, and exported later, without the lock
enter_unlocked(s) ==
  /\ s[1] \in Locked /\ pc[s] = "lock"
  /\ IF md.state = "whole" THEN copy' = [copy EXCEPT ![s[1]] = md.fields] /\ Goto(s, "body") /\ UNCHANGED <<holder, make>>
     ELSE Fail(s) /\ UNCHANGED <<holder, copy>>
  /\ SamePath /\ UNCHANGED <<args_list, tests, md, trr, log, rtl, tb, makes, report, interrupted, cut>>
\* __enter__: the lock, then the load.
enter(s) ==
  /\ s[1] \in Locked /\ pc[s] = "lock" /\ holder = NoOne
  /\ IF md.state = "whole" THEN holder' = s /\ copy' = [copy EXCEPT ![s[1]] = md.fields] /\ Goto(s, "body") /\ UNCHANGED make
     ELSE Fail(s) /\ UNCHANGED <<holder, copy>>
  /\ SamePath /\ UNCHANGED <<args_list, tests, md, trr, log, rtl, tb, makes, report, interrupted, cut>>

\* The alarm after five seconds.
handler(s) ==
  /\ s[1] \in Locked /\ pc[s] = "lock" /\ holder # NoOne /\ Fail(s)
  /\ SamePath /\ UNCHANGED <<args_list, tests, md, holder, copy, trr, log, rtl, tb, makes, report, interrupted, cut>>

\* collect_results: every record is loaded and counted.
collect_results ==
  /\ report' = IF \A i \in DOMAIN tests : trr[i].whole
               THEN [rtl |-> rtl, passing |-> {i \in DOMAIN tests : trr[i].passed = "yes"},
                     counts |-> create_test_summary_dict(tests, trr)]
               ELSE report
CollectRaises == \E i \in DOMAIN tests : ~trr[i].whole

\* compile_tb: pkg-config and the commands.
compile_tb_raises(found) ==
  \/ ~found \/ get_x_opts(args_list.simulator, "compile") = "unsupported"
  \/ ~get_tool_cmds(yaml, args_list.simulator, "compile", {"cosim_opts"} \union (IF args_list.cov.n = 0 THEN {} ELSE {"cov_opts"}), compileOpts, environ)

\* The body of the with statement and the export that follows it, also when the body raises:
\* the file is opened for writing and is empty until the object has been dumped.
body(s) ==
  /\ s[1] \in Locked /\ pc[s] = "body" /\ md' = [md EXCEPT !.state = "truncated"]
  /\ IF s[1] = "collect" THEN collect_results ELSE UNCHANGED report
  /\ \E found \in BOOLEAN :
       LET raises == (s[1] = "tb" /\ compile_tb_raises(found)) \/ (s[1] = "collect" /\ CollectRaises) IN
       /\ Goto(s, IF raises THEN "export_raise" ELSE "export")
       /\ copy' = [copy EXCEPT ![s[1]] = IF raises THEN @ ELSE @ \union {s[1]}]
  /\ SamePath /\ UNCHANGED <<args_list, tests, holder, trr, log, rtl, tb, make, makes, interrupted, cut>>

\* __exit__: the object is written and the lock released.
leave(s) ==
  /\ s[1] \in Locked /\ pc[s] \in {"export", "export_raise"}
  /\ md' = [state |-> "whole", fields |-> copy[s[1]]] /\ copy' = [copy EXCEPT ![s[1]] = {}]
  /\ holder' = IF holder = s THEN NoOne ELSE holder
  /\ IF pc[s] = "export_raise" THEN Fail(s) /\ SamePath
     ELSE IF s[1] = "cfg" THEN Goto(s, "idle") /\ Settle(s, {s}) /\ Touch(s)
     ELSE IF s[1] # "collect" THEN Goto(s, "tool") /\ UNCHANGED make /\ SamePath
     ELSE IF report.passing = DOMAIN tests THEN Goto(s, "idle") /\ Settle(s, {s}) /\ Touch(s)
     ELSE Fail(s) /\ SamePath
  /\ UNCHANGED <<args_list, tests, trr, log, rtl, tb, makes, report, interrupted, cut>>

\* run_one of build_instr_gen, compile_tb, get_fcov and merge_cov.
tool(s, rc) ==
  /\ s[1] \in Locked /\ pc[s] = "tool"
  /\ IF rc = 0 THEN Goto(s, "idle") /\ Settle(s, {s}) /\ Touch(s) /\ tb' = (IF s[1] = "tb" THEN rtl ELSE tb)
     ELSE Fail(s) /\ SamePath /\ UNCHANGED tb
  /\ UNCHANGED <<args_list, tests, md, holder, copy, trr, log, rtl, makes, report, interrupted, cut>>

\* A coverage target without coverage.
touch(s) ==
  /\ CovOff(s) /\ Recipe(s) /\ Settle(s, {s}) /\ Touch(s)
  /\ UNCHANGED <<args_list, tests, md, holder, copy, trr, log, rtl, tb, makes, pc, report, interrupted, cut>>

\* merge_cov reads the metadata without the lock and looks for the databases first; when there
\* are none the merge for vcs fails at once, the one for xlm with its tool.
merge_cov(s, cov_dbs) ==
  /\ s[1] = "merge" /\ ~CovOff(s) /\ Recipe(s)
  /\ IF md.state = "whole" /\ (args_list.simulator = "xlm" \/ (args_list.simulator = "vcs" /\ cov_dbs)) THEN Goto(s, "lock") /\ UNCHANGED make ELSE Fail(s)
  /\ SamePath /\ UNCHANGED <<args_list, tests, md, holder, copy, trr, log, rtl, tb, makes, report, interrupted, cut>>

-----------------------------------------------------------------------------
(* The scripts of one test                                                 *)

\* The unlocked load of the metadata and of the record; check_logs loads the record only.
Readable(s) == trr[s[2]].whole /\ (s[1] = "check" \/ md.state = "whole")
ReadFails(s) ==
  /\ s[2] # 0 /\ Recipe(s) /\ ~Readable(s) /\ Fail(s)
  /\ SamePath /\ UNCHANGED <<args_list, tests, md, holder, copy, trr, log, rtl, tb, makes, report, interrupted, cut>>

\* export of a record begins, and ends; trr.yaml, the target of check_logs, is written with it.
Opened(i, record) == trr' = [trr EXCEPT ![i] = [record EXCEPT !.whole = FALSE]]
Closed(i) == trr' = [trr EXCEPT ![i].whole = TRUE] /\ Touch(<<"check", i>>)

\* run_instr_gen: riscv-dv lists the commands (listed is its status), they are moved and run
\* until one fails, and what they left is copied.  It succeeds also when a command failed.
run_instr_gen(s, listed, ret, scratch) ==
  /\ s[1] = "gen" /\ Recipe(s) /\ Readable(s)
  /\ \E name \in {tests[s[2]].test} : \E files \in {do_file_copies(scratch, file_copies(name), ret # 0)} :
       IF listed # 0 \/ reloc_commands(args_list.simulator, name, genCommands[name]).raised \/ files.raised
       THEN Fail(s) /\ SamePath /\ UNCHANGED trr
       ELSE /\ IF "test.S" \in files.copied THEN Goto(s, "export") /\ Touch(s)
               ELSE Goto(s, "export_old") /\ SamePath
            /\ Opened(s[2], trr[s[2]]) /\ UNCHANGED make
  /\ UNCHANGED <<args_list, tests, md, holder, copy, log, rtl, tb, makes, report, interrupted, cut>>
\* faulty variant: a generation that left no test.S is tried again
GenTriedAgain(s) ==
  /\ s[1] = "gen" /\ pc[s] \in {"export", "export_old"} /\ Closed(s[2])
  /\ Goto(s, "idle") /\ IF pc[s] = "export" THEN Settle(s, {s}) ELSE UNCHANGED make
  /\ UNCHANGED <<args_list, tests, md, holder, copy, log, rtl, tb, makes, report, interrupted, cut>>
GenExported(s) ==
  /\ s[1] = "gen" /\ pc[s] \in {"export", "export_old"} /\ Closed(s[2])
  /\ Goto(s, "idle") /\ Settle(s, IF pc[s] = "export" THEN {s} ELSE {})
  /\ UNCHANGED <<args_list, tests, md, holder, copy, log, rtl, tb, makes, report, interrupted, cut>>

\* compile_test: the commands are listed (by riscv-dv, whose status is dv_ret, for a generated
\* test) and the record exported before they are run.
get_compile_cmds(i) ==
  LET t == tests[i] IN
  IF t.testtype = "RISCVDV" THEN get_riscvdv_compile_cmds(t.test, compileCommands[t.test], t.is_discrete_debug_module)
  ELSE get_directed_compile_cmds(<<"directed", t.test>>, environ)
compile_cmds(s, dv_ret) ==
  /\ s[1] = "comp" /\ Recipe(s) /\ Readable(s)
  /\ IF (tests[s[2]].testtype = "RISCVDV" /\ dv_ret # 0) \/ get_compile_cmds(s[2]).raised THEN Fail(s) /\ UNCHANGED trr
     ELSE Goto(s, "export") /\ Opened(s[2], trr[s[2]]) /\ UNCHANGED make
  /\ SamePath /\ UNCHANGED <<args_list, tests, md, holder, copy, log, rtl, tb, makes, report, interrupted, cut>>
CompExported(s) ==
  /\ s[1] = "comp" /\ pc[s] = "export" /\ Closed(s[2]) /\ Goto(s, "tool")
  /\ UNCHANGED <<args_list, tests, md, holder, copy, log, rtl, tb, make, makes, report, interrupted, cut>>
\* The target is test.bin, which the commands need not write.
compile_test(s, ret) ==
  /\ s[1] = "comp" /\ pc[s] = "tool"
  /\ IF ret # 0 \/ \E p \in Prereqs(s) : ~exists[p] THEN Fail(s) /\ SamePath
     ELSE /\ Goto(s, "idle") /\ Settle(s, {s})
          /\ IF Output("test", "bin") \in Written(get_compile_cmds(s[2]).cmds) THEN Touch(s) ELSE SamePath
  /\ UNCHANGED <<args_list, tests, md, holder, copy, trr, log, rtl, tb, makes, report, interrupted, cut>>

\* run_rtl: the record is exported before and after the simulation, whose status is not
\* looked at; a simulator that is killed after the timeout sets the failure mode.
get_sim_cmds(s) ==
  /\ s[1] = "sim" /\ Recipe(s) /\ Readable(s)
  /\ IF get_tool_cmds(yaml, args_list.simulator, "sim", IF args_list.cov.n = 0 THEN {} ELSE {"cov_opts"}, simOpts, environ)
        /\ get_x_opts(args_list.simulator, "sim") # "unsupported"
     THEN Goto(s, "export") /\ Opened(s[2], trr[s[2]]) /\ UNCHANGED make
     ELSE Fail(s) /\ UNCHANGED trr
  /\ SamePath /\ UNCHANGED <<args_list, tests, md, holder, copy, log, rtl, tb, makes, report, interrupted, cut>>
SimExported(s) ==
  /\ s[1] = "sim" /\ pc[s] = "export" /\ Closed(s[2]) /\ Goto(s, "tool")
  /\ UNCHANGED <<args_list, tests, md, holder, copy, log, rtl, tb, make, makes, report, interrupted, cut>>
Recorded(i, killed) == Opened(i, IF killed THEN [trr[i] EXCEPT !.failure_mode = "TIMEOUT"] ELSE trr[i])
run_rtl(s, sim) ==
  /\ s[1] = "sim" /\ pc[s] = "tool" /\ Touch(s)
  /\ log' = [log EXCEPT ![s[2]] = [n |-> @.n + 1, rtl |-> tb, trace |-> sim.trace, lines |-> sim.lines, missed |-> FALSE]]
  /\ Recorded(s[2], sim.killed) /\ Goto(s, "export2")
  /\ UNCHANGED <<args_list, tests, md, holder, copy, rtl, tb, make, makes, report, interrupted, cut>>
\* The simulator cannot be started, or ends or is killed before it opens its logs.  The trace and
\* the target remain as they were; the log does too, but for vcs, whose output, emptied before, is
\* its log.
NothingSimulated(s, killed) ==
  /\ s[1] = "sim" /\ pc[s] = "tool" /\ SamePath
  /\ log' = [log EXCEPT ![s[2]].missed = TRUE, ![s[2]].lines = IF args_list.simulator = "vcs" THEN <<>> ELSE @]
  /\ Recorded(s[2], killed) /\ Goto(s, "export_old")
  /\ UNCHANGED <<args_list, tests, md, holder, copy, rtl, tb, make, makes, report, interrupted, cut>>
SimEnds(s) ==
  /\ s[1] = "sim" /\ pc[s] \in {"export2", "export_old"} /\ Closed(s[2])
  /\ Goto(s, "idle") /\ Settle(s, IF pc[s] = "export2" THEN {s} ELSE {})
  /\ UNCHANGED <<args_list, tests, md, holder, copy, log, rtl, tb, makes, report, interrupted, cut>>

\* check_logs
check_logs(s) ==
  /\ s[1] = "check" /\ Recipe(s) /\ Readable(s)
  /\ IF compare_raises(trr[s[2]], log[s[2]]) THEN Fail(s) /\ UNCHANGED trr
     ELSE Opened(s[2], compare_test_run(trr[s[2]], log[s[2]])) /\ Goto(s, "export") /\ UNCHANGED make
  /\ SamePath /\ UNCHANGED <<args_list, tests, md, holder, copy, log, rtl, tb, makes, report, interrupted, cut>>
CheckExported(s) ==
  /\ s[1] = "check" /\ pc[s] = "export" /\ Closed(s[2]) /\ Goto(s, "idle") /\ Settle(s, {s})
  /\ UNCHANGED <<args_list, tests, md, holder, copy, log, rtl, tb, makes, report, interrupted, cut>>

-----------------------------------------------------------------------------
Scratches == {{}, {"gen.log"}, {"gen.log", "test_0.S"}}

\* make looks at a target: it is up to date, or its recipe is started.
Consider(s) ==
  \/ Skip(s) \/ StartLocked(s) \/ touch(s)
  \/ \E found \in BOOLEAN : merge_cov(s, found)
  \/ ReadFails(s)
  \/ \E listed, ret \in {0, 1}, scratch \in Scratches : run_instr_gen(s, listed, ret, scratch)
  \/ \E ret \in {0, 1} : compile_cmds(s, ret)
  \/ get_sim_cmds(s) \/ check_logs(s)
\* A script goes on.
Continue(s) ==
  \/ enter(s) \/ handler(s) \/ body(s) \/ leave(s) \/ \E rc \in {0, 1} : tool(s, rc)
  \/ GenExported(s) \/ CompExported(s) \/ \E ret \in {0, 1} : compile_test(s, ret)
  \/ SimExported(s) \/ (\E sim \in Sims : run_rtl(s, sim)) \/ \E killed \in BOOLEAN : NothingSimulated(s, killed)
  \/ SimEnds(s) \/ CheckExported(s)

Work == EndMake \/ (\E s \in Running : Continue(s)) \/ \E s \in Targets : Considered(s) /\ Consider(s)
RegrNext == StartMake \/ EditRtl \/ CtrlC \/ Work

\* A make that has been started goes on until it ends.
RegrSpec == RegrInit /\ [][RegrNext]_regrVars /\ WF_regrVars(Work)

-----------------------------------------------------------------------------
(* Properties                                                              *)

\* The shared files survive scripts that run at the same time.  A field a script has written
\* is on disk from then on, whatever scripts rewrite the metadata (LockedMetadata: "not worry
\* about multiple processes racing to write"); and the records, which are loaded and exported
\* without a lock, have one script each, and none while they are collected, by the rules of
\* the makefiles alone.
FilesKept ==
  /\ md.state = "whole" =>
       \A s \in Locked \X {0} :
         pc[s] = "tool" \/ (s \in make.settled \intersect make.touched /\ (args_list.cov.n # 0 \/ s[1] \notin {"fcov", "merge"}))
           => s[1] \in md.fields
  /\ \A s, r \in Running : s # r /\ s[2] # 0 => s[2] # r[2] /\ r[1] # "collect"

\* A simulation that was not killed, has a trace, says that the test passed, and neither says
\* that it failed nor reports an error before.
Passing(l) ==
  /\ \E i \in DOMAIN l.trace : l.trace[i] = "instr" /\ \A j \in 1 .. i - 1 : l.trace[j] # "ecall"
  /\ \E i \in DOMAIN l.lines : l.lines[i] = "passed" /\ \A j \in 1 .. i - 1 : l.lines[j] \notin {"error", "wallclock"}
  /\ \A i \in DOMAIN l.lines : l.lines[i] # "failed"

\* A report is about simulations of the RTL it is written for, whatever was remade and what
\* was not; each of them was checked unless a make was cut off in between; and the first result
\* of a test is that of its log (check_logs, collect_results).  Where the last simulator left
\* nothing (missed) the verdict may be about an older simulation, but never about none.
ReportTrue ==
  pc[<<"collect", 0>>] = "export" =>
    \A i \in DOMAIN tests :
      /\ i \in report.passing => log[i].n > 0
      /\ ~log[i].missed =>
           /\ log[i].rtl = rtl
           /\ i \notin cut => /\ trr[i].passed # "unset" \/ trr[i].failure_mode # "unset"
                              /\ log[i].n = 1 => (i \in report.passing <=> Passing(log[i]) /\ trr[i].failure_mode # "TIMEOUT")

\* check_logs: "Pass/fail criteria is determined by any errors found."
PassMeansPassed ==
  pc[<<"collect", 0>>] = "export" /\ ~interrupted =>
    \A i \in DOMAIN tests \ cut : i \in report.passing /\ ~log[i].missed => Passing(log[i])

\* The tests that are run fit the configuration, and none is run twice
\* (filter_tests_by_config: "all tests incompatible ... have been removed").
TestsFit ==
  /\ \A i, j \in DOMAIN tests : i # j => <<tests[i].test, tests[i].seed>> # <<tests[j].test, tests[j].seed>>
  /\ \A i \in DOMAIN tests : \A e \in Range(testlist \o directed) :
       e.test = tests[i].test => \A p \in Range(e.rtl_params) : cfg[p.name] \in p.values

\* A make ends, with a report or with a failure: no script waits for the lock, and no rule for
\* another, for ever.
MakeEnds == make.state # "idle" ~> make.state = "idle"

============================================================================
