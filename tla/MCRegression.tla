---------------------------- MODULE MCRegression ----------------------------
(* Regression with a list of two tests, one generated and one directed, and an entry that  *)
(* does not fit the configuration; the logs and traces are the kinds the scripts tell apart. *)
EXTENDS Regression

N(n) == [t |-> "int", n |-> n]
Empty == [t |-> "empty", n |-> 0]
Word == [t |-> "word", n |-> 0]
Line(seed, cov, iterations, simulator, test) ==
  [seed |-> seed, cov |-> cov, iterations |-> iterations, simulator |-> simulator, test |-> test]
MCArgsLists ==
  {Line(N(1), N(0), Empty, "vcs", {"rand"}), Line(N(1), N(1), Empty, "xlm", {"boot"}), Line(N(1), N(0), Empty, "xlm", {"boot"}),
   Line(N(1), N(0), Empty, "vcs", {"rand", "boot"}), Line(N(1), N(0), Empty, "vcs", {"ddm"}),
   Line(N(1), N(0), N(2), "vcs", {"boot"}), Line(N(1), N(0), N(0), "vcs", {"rand"}),
   Line(N(-1), N(0), Empty, "vcs", {"rand"}), Line(Word, N(0), Empty, "vcs", {"rand"}),
   Line(N(1), N(0), Empty, "questa", {"boot"}), Line(N(1), N(0), Empty, "questa", {"rand"}),
   Line(N(1), N(0), Empty, "dsim", {"boot"}), Line(N(1), N(0), Empty, "vcs", {"pmp"})}
MCStaleArgsLists == {Line(N(1), N(0), Empty, "vcs", {"boot"})}
MCStaleMaxMakes == [a \in MCStaleArgsLists |-> 2]

\* Twice with one generated test, and with a simulator whose log is not emptied before it runs.
MCMaxMakes == [a \in MCArgsLists |-> IF a.test \in {{"rand"}, {"ddm"}} \/ (a.simulator = "xlm" /\ a.cov.n = 0) THEN 2 ELSE 1]
\* With both kinds of tests make may keep going.
MCKeepGoing == {a \in MCArgsLists : a.test = {"rand", "boot"}}
MCcfg == [RV32E |-> 0, RV32M |-> "RV32MFast", RV32B |-> "RV32BOTEarlGrey", PMPEnable |-> 0]
Entry(test, iterations, params) == [test |-> test, iterations |-> iterations, rtl_params |-> params, ddm |-> test = "ddm"]
MCtestlist == <<Entry("rand", 1, <<>>), Entry("pmp", 1, <<[name |-> "PMPEnable", values |-> {1}]>>), Entry("off", 0, <<>>),
                Entry("ddm", 1, <<>>)>>
MCdirected == <<Entry("boot", 1, <<[name |-> "PMPEnable", values |-> {0, 1}]>>)>>

Opt(key, holes) == [key |-> key, holes |-> holes]
Tool(env_var, compile, sim) ==
  [env_var |-> env_var, compile |-> [cmd |-> {compile}, opts |-> <<Opt("cov_opts", {"dir_shared_cov"}), Opt("cosim_opts", {"core_ibex"})>>],
   sim |-> [cmd |-> {sim}, opts |-> <<Opt("cov_opts", {"dir_shared_cov"})>>]]
MCyaml ==
  [vcs |-> Tool({"HOME"}, {"out", "cov_opts", "cosim_opts"}, {"binary", "cov_opts"}),
   xlm |-> Tool({"HOME"}, {"out", "cov_opts", "cosim_opts", "HOME"}, {"binary", "cov_opts"}),
   dsim |-> Tool({}, {"out"}, {"binary", "wave_opts"}),
   questa |-> Tool({"HOME", "QUESTA_HOME"}, {"out", "cov_opts"}, {"binary"})]
MCenviron == {"HOME", "RISCV_TOOLCHAIN", "RISCV_GCC", "RISCV_OBJCOPY"}
MCcompileOpts == <<Opt("core_ibex", {}), Opt("out", {}), Opt("dir_shared_cov", {})>>
MCsimOpts == <<Opt("binary", {}), Opt("dir_shared_cov", {})>>
MCgenCommands == [t \in {"rand", "ddm"} |-> <<<<<<PLACEHOLDER, "vcs_simv">>, <<PLACEHOLDER, "asm_test", t>>>>>>]
Asm(t, kind) == <<PLACEHOLDER, "asm_test", t, kind>>
MCcompileCommands == [t \in {"rand", "ddm"} |-> <<<<Asm(t, "S"), Asm(t, "o")>>, <<Asm(t, "o"), Asm(t, "bin")>>>>]

Sim(trace, lines, killed) == [trace |-> trace, lines |-> lines, killed |-> killed]
Trace == <<"noise", "instr", "ecall">>
MCSims == {Sim(Trace, <<"other", "passed">>, FALSE), Sim(Trace, <<"error", "passed">>, FALSE),
           Sim(Trace, <<"other">>, FALSE), Sim(Trace, <<"passed", "failed">>, FALSE),
           Sim(<<"ecall", "instr">>, <<"other">>, TRUE)}
============================================================================
