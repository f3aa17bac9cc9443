-------------------------- MODULE RegressionTests --------------------------
(***************************************************************************)
(* What the scripts of the UVM regression compute: which tests are run,    *)
(* the commands they are run with, and what the logs of a test say.        *)
(*   A command template is the set of its <parameters> that are still to   *)
(* be filled in; a path is the sequence of its components; a line of a log *)
(* is the kind the scripts tell apart.                                     *)
(***************************************************************************)
EXTENDS Integers, Sequences, SequencesExt, FiniteSetsExt

-----------------------------------------------------------------------------
(* metadata.py: from the KEY=VALUE list to the tests                       *)

\* A value of the list: an integer, empty or another word.
Text == [t : {"int"}, n : Int] \union [t : {"empty", "word"}, n : {0}]

\* An entry of a list of tests; rtl_params is the sequence of its parameters, each with the values it admits.
Entries ==
  [test : STRING, iterations : Int, rtl_params : Seq([name : STRING, values : SUBSET (Int \union STRING)]), ddm : BOOLEAN]

\* The typecasts of arg_list_initializer; an Optional[int] is a sequence.
args_dict(args) == [seed |-> args.seed.n, cov |-> args.cov.n # 0, simulator |-> args.simulator, test |-> args.test,
                    iterations |-> IF args.iterations.t = "empty" THEN <<>> ELSE <<args.iterations.n>>]
arg_list_initializer(args) ==
  IF args.seed.t = "int" /\ args.cov.t = "int" /\ args.iterations.t # "word"
  THEN [raised |-> FALSE, md |-> args_dict(args)] ELSE [raised |-> TRUE]

bitmanip_mapping ==
  [RV32BNone |-> {}, RV32BBalanced |-> {"Zba", "Zbb", "Zbs", "XZbf", "XZbt"},
   RV32BOTEarlGrey |-> {"Zba", "Zbb", "Zbc", "Zbs", "XZbf", "XZbp", "XZbr", "XZbt"},
   RV32BFull |-> {"Zba", "Zbb", "Zbc", "Zbs", "XZbe", "XZbf", "XZbp", "XZbr", "XZbt"}]
base_isa(cfg) == {IF cfg["RV32E"] = 1 THEN "e" ELSE "i", "c"} \union (IF cfg["RV32M"] = "RV32MNone" THEN {} ELSE {"m"})
get_isas_for_config(cfg) ==
  IF cfg["RV32B"] \notin DOMAIN bitmanip_mapping THEN [raised |-> TRUE]
  ELSE [raised |-> FALSE, isa |-> base_isa(cfg) \union (IF cfg["RV32B"] = "RV32BNone" THEN {} ELSE {"b"}),
        iss |-> base_isa(cfg) \union bitmanip_mapping[cfg["RV32B"]]]

get_ibex_metadata(md, cfg) ==           \* whether _get_ibex_metadata raises
  \/ md.iterations # <<>> /\ md.iterations[1] <= 0
  \/ md.seed < 0
  \/ get_isas_for_config(cfg).raised

\* With the override of the iterations, where there is one; the entries that remain.
Counted(entries, iterations) ==
  [i \in DOMAIN entries |-> [entries[i] EXCEPT !.iterations = IF iterations = <<>> THEN @ ELSE iterations[1]]]
Matched(entries, places) == FlattenSeq([i \in DOMAIN entries |-> IF i \in places THEN <<entries[i]>> ELSE <<>>])
Positive(e) == e.iterations > 0

process_riscvdv_testlist(md, testlist) ==
  Matched(Counted(testlist, md.iterations),
          {i \in DOMAIN testlist : /\ testlist[i].test \in md.test \/ md.test \intersect {"all", "all_riscvdv"} # {}
                                  /\ Positive(testlist[i])})
process_directed_testlist(md, tests) ==
  LET counted == Counted(tests, md.iterations)
  IN  Matched(counted, {i \in DOMAIN tests : /\ tests[i].test \in md.test \/ "all_directed" \in md.test
                                            /\ Positive(counted[i])})

Admitted(cfg, param) == param.name \in DOMAIN cfg /\ cfg[param.name] \in param.values
\* How many parameters the loop gets past.
Past(cfg, e) == Max({k \in 0 .. Len(e.rtl_params) : \A i \in 1 .. k : Admitted(cfg, e.rtl_params[i])})
Unknown(cfg, e) ==
  LET k == Past(cfg, e) + 1 IN k <= Len(e.rtl_params) /\ e.rtl_params[k].name \notin DOMAIN cfg
\* faulty variant: the first parameter that does not fit does not end the loop
filter_without_break(cfg, test_list) == [raised |-> \E i \in DOMAIN test_list : Unknown(cfg, test_list[i]), tests |-> test_list]
\* A test is appended once for every parameter that fits.
filter_tests_by_config(cfg, test_list) ==
  LET Copies(e) == [j \in 1 .. (IF e.rtl_params = <<>> THEN 1 ELSE Past(cfg, e)) |-> e]
  IN  [raised |-> \E i \in DOMAIN test_list : Unknown(cfg, test_list[i]),
       tests |-> FlattenSeq([i \in DOMAIN test_list |-> Copies(test_list[i])])]

\* raised, or the tests with their type.
get_tests_and_counts(md, cfg, testlist, directed) ==
  LET r == process_riscvdv_testlist(md, testlist)
      d == process_directed_testlist(md, directed)
      fr == filter_tests_by_config(cfg, r)
      fd == filter_tests_by_config(cfg, d)
      Typed(s, type) == [i \in DOMAIN s |-> [test |-> s[i].test, count |-> s[i].iterations, testtype |-> type, ddm |-> s[i].ddm]]
  IN  IF (r = <<>> /\ d = <<>>) \/ fr.raised \/ fd.raised \/ fr.tests \o fd.tests = <<>> THEN <<>>
      ELSE Typed(fr.tests, "RISCVDV") \o Typed(fd.tests, "DIRECTED")

\* The TEST.SEED strings of a list of tests.
testdotseeds(md, tests_and_counts) ==
  FlattenSeq([i \in DOMAIN tests_and_counts |->
    [k \in 1 .. tests_and_counts[i].count |->
      [test |-> tests_and_counts[i].test, seed |-> md.seed + k - 1, testtype |-> tests_and_counts[i].testtype,
       is_discrete_debug_module |-> tests_and_counts[i].testtype = "RISCVDV" /\ tests_and_counts[i].ddm]]])

-----------------------------------------------------------------------------
(* scripts_lib.py, riscvdv_interface.py: command templates                 *)

\* A replacement may bring parameters of its own.
subst_opt(holes, name, replacement) == IF name \in holes THEN (holes \ {name}) \union replacement ELSE holes
subst_dict(holes, var_dict) == FoldLeft(LAMBDA h, kv : subst_opt(h, kv.key, kv.holes), holes, var_dict)
\* Every variable the tool names must be set, whether the command uses it or not.
subst_env_vars(holes, env_vars, environ) ==
  [raised |-> ~(env_vars \subseteq environ), holes |-> holes \ env_vars]

\* The simulators of the yaml file, as the options of a stage and the parameters of its command.
get_yaml_for_simulator(yaml, simulator) ==
  IF simulator \in DOMAIN yaml THEN [raised |-> FALSE, entry |-> yaml[simulator]] ELSE [raised |-> TRUE]

\* TRUE when commands come out: no parameter is left and nothing is raised.
get_tool_cmds(yaml, simulator, cmd_type, enables, user_subst_options, environ) ==
  LET found == get_yaml_for_simulator(yaml, simulator)
      stage == found.entry[cmd_type]
      Gated(o) == [o EXCEPT !.holes = IF o.key \in enables THEN @ ELSE {}]
      One(cmd) == subst_env_vars(subst_dict(subst_dict(cmd, [i \in DOMAIN stage.opts |-> Gated(stage.opts[i])]),
                                            user_subst_options),
                                 found.entry.env_var, environ)
  IN  ~found.raised /\ \A cmd \in stage.cmd : ~One(cmd).raised /\ One(cmd).holes = {}

\* SIM_CFGS and _get_x_opts: which stages ask ibex_config.py for options.
SIM_CFGS == [vcs |-> {"compile"}, riviera |-> {"compile", "sim"}, questa |-> {"compile", "sim"},
             xlm |-> {"compile"}, dsim |-> {"compile"}]
get_x_opts(simulator, stage) ==
  CASE simulator \notin DOMAIN SIM_CFGS -> "unsupported"
    [] simulator \in DOMAIN SIM_CFGS /\ stage \notin SIM_CFGS[simulator] -> ""
    [] OTHER -> IF SIM_CFGS[simulator] = {"compile", "sim"} THEN stage ELSE "opts"

-----------------------------------------------------------------------------
(* run_instr_gen.py: the generator's commands, moved to the scratch        *)
(* directory, and the files copied back                                    *)

PLACEHOLDER == "@@PLACEHOLDER@@"

\* Any other simulator is a KeyError.
sim_relocs == [vcs |-> <<<<PLACEHOLDER, "vcs_simv">>, <<"build", "vcs_simv">>>>,
               xlm |-> <<<<PLACEHOLDER>>, <<"build">>>>,
               dsim |-> <<<<PLACEHOLDER, "dsim">>, <<"build", "dsim">>>>]
relocs(simulator, testname) ==
  <<sim_relocs[simulator],
    <<<<PLACEHOLDER, "asm_test", testname>>, <<"scratch", "test">>>>,
    <<<<PLACEHOLDER, "asm_test">>, <<"scratch">>>>,
    <<<<PLACEHOLDER, "sim_0.log", testname>>, <<"scratch", "gen.log">>>>>>

\* The first relocation that fits; a placeholder that remains raises.
reloc_word(simulator, testname, path) ==
  LET known == simulator \in DOMAIN sim_relocs
      r == IF known THEN relocs(simulator, testname) ELSE <<>>
      fit == {i \in DOMAIN r : r[i][1] = path}
      moved == IF fit = {} THEN path ELSE r[Min(fit)][2]
  IN  [raised |-> ~known \/ PLACEHOLDER \in Range(moved), path |-> moved]
reloc_commands(simulator, testname, commands) ==
  [raised |-> \E i \in DOMAIN commands : \E w \in Range(commands[i]) : reloc_word(simulator, testname, w).raised,
   commands |-> [i \in DOMAIN commands |-> [j \in DOMAIN commands[i] |-> reloc_word(simulator, testname, commands[i][j]).path]]]

\* What is copied from the scratch directory.
file_copies(testname) ==
  IF testname = "riscv_csr_test" THEN <<[src |-> "riscv_csr_test_0.S", dst |-> "test.S", copy_on_fail |-> FALSE]>>
  ELSE <<[src |-> "gen.log", dst |-> "gen.log", copy_on_fail |-> TRUE],
         [src |-> "test_0.S", dst |-> "test.S", copy_on_fail |-> FALSE]>>
do_file_copies(scratch, copy_rules, run_failed) ==
  LET rules == {r \in Range(copy_rules) : ~run_failed \/ r.copy_on_fail}
  IN  [raised |-> ~run_failed /\ \E r \in rules : r.src \notin scratch,
       copied |-> {r.dst : r \in {x \in rules : x.src \in scratch}}]

-----------------------------------------------------------------------------
(* compile_test.py; a command is the sequence of its paths, the last of    *)
(* them the one it writes                                                  *)

Output(name, kind) == <<"dir_test", name, kind>>

\* riscv-dv's commands with their paths rewritten.  With a discrete debug module the objcopy
\* to test.bin, the last of them, is dropped for four others.
get_riscvdv_compile_cmds(testname, orig_cmds, ddm) ==
  LET Rewritten(path) == IF path \in {<<PLACEHOLDER, "asm_test", testname, k>> : k \in {"S", "o", "bin"}}
                         THEN Output("test", path[4]) ELSE path
      new_cmds == [i \in DOMAIN orig_cmds |-> [j \in DOMAIN orig_cmds[i] |-> Rewritten(orig_cmds[i][j])]]
      objcopy == [i \in 1 .. 4 |-> <<Output("test", "o"), Output(<<"dm", "main", "dm", "main">>[i], <<"vmem", "vmem", "bin", "bin">>[i])>>]
  IN  [raised |-> \E i \in DOMAIN new_cmds : \E w \in Range(new_cmds[i]) : w[1] = PLACEHOLDER,
       cmds |-> IF ddm THEN Front(new_cmds) \o objcopy ELSE new_cmds]

get_directed_compile_cmds(test_srcs, environ) ==
  [raised |-> ~({"RISCV_TOOLCHAIN", "RISCV_GCC", "RISCV_OBJCOPY"} \subseteq environ),
   cmds |-> <<<<test_srcs, Output("test", "o")>>, <<Output("test", "o"), Output("test", "bin")>>>>]

Written(cmds) == {Last(cmds[i]) : i \in DOMAIN cmds}

-----------------------------------------------------------------------------
(* ibex_log_to_trace_csv.py and check_logs.py: the verdict                 *)

\* The instructions of a trace up to the ecall; raised when there are none.
process_ibex_sim_log(trace) ==
  LET ends == {i \in DOMAIN trace : trace[i] = "ecall"}
      last == IF ends = {} THEN Len(trace) ELSE Min(ends) - 1
  IN  [raised |-> ~\E i \in 1 .. last : trace[i] = "instr"]

\* The lines the loop sees; errors count until a result has been seen.
Seen(lines) ==
  LET failed == {i \in DOMAIN lines : lines[i] = "failed"} IN 1 .. (IF failed = {} THEN Len(lines) ELSE Min(failed))
ErrorLines(lines) ==
  {i \in Seen(lines) : lines[i] \in {"error", "wallclock"} /\ ~\E j \in 1 .. i - 1 : lines[j] = "passed"}
\* A test marked as failed without a line of error is not answered: error_line is None.
check_ibex_uvm_log(lines) ==
  LET errors == ErrorLines(lines)
      failed == errors # {} \/ \E i \in Seen(lines) : lines[i] = "failed"
  IN  [raised |-> failed /\ errors = {},
       passed |-> ~failed /\ \E i \in Seen(lines) : lines[i] = "passed",
       mode |-> IF ~failed THEN "NONE"
                ELSE IF errors # {} /\ lines[Max(errors)] = "wallclock" THEN "TIMEOUT" ELSE "LOG_ERROR"]

\* What becomes of a test's record.  A log with an error sets the failure mode and leaves
\* passed as it was.
compare_test_run(trr, log) ==
  LET uvm == check_ibex_uvm_log(log.lines)
  IN  IF trr.failure_mode = "TIMEOUT" THEN [trr EXCEPT !.passed = "no"]
      ELSE IF process_ibex_sim_log(log.trace).raised THEN [trr EXCEPT !.passed = "no", !.failure_mode = "FILE_ERROR"]
      ELSE IF ~uvm.passed THEN [trr EXCEPT !.failure_mode = uvm.mode]
      ELSE [trr EXCEPT !.passed = "yes"]
compare_raises(trr, log) ==
  trr.failure_mode # "TIMEOUT" /\ ~process_ibex_sim_log(log.trace).raised /\ check_ibex_uvm_log(log.lines).raised

-----------------------------------------------------------------------------
(* collect_results.py and report_lib                                       *)

\* Passing and failing runs of every test.
create_test_summary_dict(tests, trrs) ==
  LET Of(name, p(_)) == Cardinality({i \in DOMAIN tests : tests[i].test = name /\ p(trrs[i].passed)})
  IN  [name \in {tests[i].test : i \in DOMAIN tests} |->
        [passing |-> Of(name, LAMBDA x : x = "yes"), failing |-> Of(name, LAMBDA x : x # "yes")]]

============================================================================
