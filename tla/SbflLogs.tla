------------------------------ MODULE SbflLogs ------------------------------
(***************************************************************************)
(* What a batch run logs and what a later one reads from it: the command   *)
(* of a case (runner.py, analysis.py), the settings rerun and analysis     *)
(* inherit from it (logparse.py, rerun.py, analysis.py), and the result    *)
(* directories scripts/rerank_sbfl_with_llm.py selects.                    *)
(*   A command is the sequence of its words; an optional value is the      *)
(* empty sequence or a sequence of one.  Of the options that are handled   *)
(* alike one stands for all: top_pass for the numbers, metric for the      *)
(* words, reduce_cover for the flags that every mode inherits.             *)
(***************************************************************************)
EXTENDS Integers, Sequences, SequencesExt, FiniteSetsExt

CONSTANTS
  Lexicon,      \* the words a command is made of
  Numbers       \* those that are numbers, with the number they are

\* The words that logparse.py looks for, those that are given as an option's
\* value (argparse takes no word that begins with a dash after an option, and
\* none of these is a name of anything else), the modes, and the other words
\* the code itself writes.
Options == {"-c", "-s", "generation", "--", "--reduce-cover", "--top-pass", "--selection", "--tracker-window-size",
            "--checkpoint-interval", "--gen-only", "--metric", "--mutator-window-size", "--max-corpus-size"}
Value == Lexicon \ Options
ModeWord == [psbfl |-> "psbfl", random |-> "random", withw |-> "wit-hw"]
ModeWords == {ModeWord[m] : m \in DOMAIN ModeWord}
OtherWords == {"/sim", "analysis", "--input", "elf", "corpus", "--resume-corpus", "--save-corpus", "saved_corpus",
               "random", "sort", "diverse", "ochiai", "5000000"}

ASSUME NumbersAssumption ==
  /\ Numbers \in [DOMAIN Numbers -> Int] /\ {"10", "20", "50"} \subseteq DOMAIN Numbers
  /\ DOMAIN Numbers \subseteq Value \ ModeWords /\ Options \union ModeWords \union OtherWords \subseteq Lexicon

Flag(on, word) == IF on THEN <<word>> ELSE <<>>
Given(option, value) == IF value = <<>> THEN <<>> ELSE <<option, value[1]>>

-----------------------------------------------------------------------------
(* The commands                                                            *)

\* faulty variant: a continued case does not log the flag
generation_args_resumed(cfg, resume) ==
  <<"/sim", "-c", cfg.coverage, "-s", cfg.state, "generation">>
  \o Flag(cfg.reduce_cover /\ ~resume, "--reduce-cover")
  \o <<"--top-pass", cfg.top_pass, "--selection", cfg.selection, "--tracker-window-size", cfg.tracker_window_size,
       "--metric", cfg.metric, ModeWord[cfg.mode]>>
  \o (IF cfg.simulator_args = <<>> THEN <<>> ELSE <<"--">> \o cfg.simulator_args)
\* resume says whether the case starts from a corpus.
generation_args(cfg, resume) ==
  <<"/sim", "-c", cfg.coverage, "-s", cfg.state, "generation">>
  \o Flag(cfg.reduce_cover, "--reduce-cover")
  \o <<"--top-pass", cfg.top_pass, "--selection", cfg.selection, "--tracker-window-size", cfg.tracker_window_size>>
  \o (IF resume THEN <<"--resume-corpus", "corpus">> ELSE <<"--input", "elf">>)
  \o (IF cfg.save_corpus THEN <<"--save-corpus", "saved_corpus">> ELSE <<>>)
  \o Given("--checkpoint-interval", cfg.checkpoint_interval)
  \o Flag(cfg.gen_only, "--gen-only")
  \o <<"--metric", cfg.metric, ModeWord[cfg.mode]>>
  \o (CASE cfg.mode = "psbfl" -> <<"--mutator-window-size", cfg.mutator_window_size>>
        [] cfg.mode = "withw" -> <<"--max-corpus-size", cfg.max_corpus_size>>
        [] cfg.mode = "random" -> <<>>)
  \o (IF cfg.simulator_args = <<>> THEN <<>> ELSE <<"--">> \o cfg.simulator_args)

\* Whether _validate refuses the configuration.
Positive(word) == Numbers[word] > 0
validate_refuses(cfg) ==
  \/ cfg.selection \notin {"random", "sort", "diverse"}
  \/ ~Positive(cfg.tracker_window_size)
  \/ cfg.checkpoint_interval # <<>> /\ (~Positive(cfg.checkpoint_interval[1]) \/ ~cfg.save_corpus)
  \/ cfg.mode = "psbfl" /\ ~Positive(cfg.mutator_window_size)
  \/ cfg.mode = "withw" /\ ~Positive(cfg.max_corpus_size)

-----------------------------------------------------------------------------
(* logparse.py                                                             *)

IndexOf(argv, word) ==
  LET at == {i \in DOMAIN argv : argv[i] = word} IN IF at = {} THEN 0 ELSE Min(at)
\* faulty variant: the last occurrence counts
option_value_last(argv, option) ==
  LET at == {i \in DOMAIN argv : argv[i] = option} IN
  IF at = {} THEN [raised |-> FALSE, value |-> <<>>]
  ELSE IF Max(at) = Len(argv) THEN [raised |-> TRUE, value |-> <<>>] ELSE [raised |-> FALSE, value |-> <<argv[Max(at) + 1]>>]
option_value(argv, option) ==
  LET index == IndexOf(argv, option) IN
  IF index = 0 THEN [raised |-> FALSE, value |-> <<>>]
  ELSE IF index = Len(argv) THEN [raised |-> TRUE, value |-> <<>>] ELSE [raised |-> FALSE, value |-> <<argv[index + 1]>>]
has_flag(argv, flag) == IndexOf(argv, flag) # 0

\* The last word between generation and -- that is a mode.
generation_mode(argv) ==
  LET first == IndexOf(argv, "generation")
      ends == {i \in DOMAIN argv : i > first /\ argv[i] = "--"}
      end == IF ends = {} THEN Len(argv) ELSE Min(ends) - 1
      modes == {i \in first + 1 .. end : argv[i] \in ModeWords}
  IN  IF first = 0 \/ modes = {} THEN <<>>
      ELSE <<CHOOSE m \in DOMAIN ModeWord : ModeWord[m] = argv[Max(modes)]>>
trailing_args(argv, fallback) ==
  LET index == IndexOf(argv, "--") IN IF index = 0 THEN fallback ELSE SubSeq(argv, index + 1, Len(argv))
required_option(argv, option) ==
  LET v == option_value(argv, option) IN [raised |-> v.raised \/ v.value = <<>>, value |-> v.value]

\* _integer, _floating: the conversion raises for a word that is not a number.
Integer(argv, option, default) ==
  LET v == option_value(argv, option)
      word == IF v.value = <<>> THEN default ELSE v.value[1]
  IN  [raised |-> v.raised \/ word \notin DOMAIN Numbers, value |-> word]
Word(argv, option, default) ==
  LET v == option_value(argv, option) IN [raised |-> v.raised, value |-> IF v.value = <<>> THEN default ELSE v.value[1]]

\* The rows of run_status.tsv that are usable; run.log has a command or none.
read_status_cases(run, require_corpus) ==
  {c \in run.rows : require_corpus => run.dir[c].corpus # <<>>}

-----------------------------------------------------------------------------
(* rerun.py and analysis.py                                                *)

override(value, inherited) == IF value = <<>> THEN inherited ELSE value[1]

\* What a corpus must be continued and analysed with.
Critical(argv) ==
  LET c == required_option(argv, "-c")
      s == required_option(argv, "-s")
      t == Integer(argv, "--tracker-window-size", "20")
  IN  [raised |-> c.raised \/ s.raised \/ t.raised, coverage |-> c.value, state |-> s.value, tracker |-> t.value]

\* The options of the other modes are refused.
wrong(args, mode) ==
  \/ mode # "psbfl" /\ args.mutator_window_size # <<>>
  \/ mode # "withw" /\ args.max_corpus_size # <<>>

Checkpoint(args, logged) ==
  IF args.no_checkpoint_interval \/ ~args.save_corpus THEN <<>>
  ELSE IF args.checkpoint_interval # <<>> THEN args.checkpoint_interval ELSE logged

\* commands are those of the cases whose rows are usable, logged that of the
\* first row; their diffs exist.
prepare_rerun(args, commands, logged) ==
  LET first == logged[1]
      mode == generation_mode(first)
      crit == Critical(first)
      top == Integer(first, "--top-pass", "10")
      window == Integer(first, "--mutator-window-size", "20")
      size == Integer(first, "--max-corpus-size", "50")
      check == option_value(first, "--checkpoint-interval")
  IN  IF \/ <<>> \in commands
         \/ mode = <<>> \/ wrong(args, mode[1]) \/ crit.raised
         \/ \E c \in commands : generation_mode(c[1]) # mode \/ Critical(c[1]) # crit
         \/ check.raised \/ (check.value # <<>> /\ check.value[1] \notin DOMAIN Numbers)
         \/ ~args.save_corpus /\ args.checkpoint_interval # <<>>
         \/ top.raised \/ window.raised \/ size.raised
      THEN [raised |-> TRUE]
      ELSE [raised |-> FALSE,
            cfg |-> [mode |-> mode[1], coverage |-> crit.coverage[1], state |-> crit.state[1],
                     tracker_window_size |-> crit.tracker, save_corpus |-> args.save_corpus,
                     checkpoint_interval |-> Checkpoint(args, check.value),
                     top_pass |-> override(args.top_pass, top.value),
                     selection |-> override(args.selection, Word(first, "--selection", "sort").value),
                     metric |-> override(args.metric, Word(first, "--metric", "ochiai").value),
                     reduce_cover |-> override(args.reduce_cover, has_flag(first, "--reduce-cover")),
                     gen_only |-> override(args.gen_only, has_flag(first, "--gen-only")),
                     mutator_window_size |-> override(args.mutator_window_size, window.value),
                     max_corpus_size |-> override(args.max_corpus_size, size.value),
                     simulator_args |-> override(args.simulator_args, <<"-c", "5000000">>)]]

\* The configuration of an analysis is that of the first command there is.
prepare_analysis(args, logged) ==
  LET first == logged[1]
      top == Integer(first, "--top-pass", "10")
      number == override(args.top_pass, top.value)
      selection == override(args.selection, Word(first, "--selection", "sort").value)
  IN  IF top.raised \/ selection \notin {"random", "sort", "diverse"} \/ Numbers[number] < 0 THEN [raised |-> TRUE]
      ELSE [raised |-> FALSE,
            cfg |-> [top_pass |-> number, selection |-> selection,
                     metric |-> override(args.metric, Word(first, "--metric", "ochiai").value),
                     reduce_cover |-> override(args.reduce_cover, has_flag(first, "--reduce-cover")),
                     simulator_args |-> override(args.simulator_args, trailing_args(first, <<"-c", "5000000">>))]]

\* _analysis_args: coverage, state and tracker come from the case's own log.
analysis_args(cfg, command) ==
  LET crit == Critical(command)
  IN  [raised |-> crit.raised,
       argv |-> <<"/sim", "-c", crit.coverage[1], "-s", crit.state[1], "analysis", "--input", "corpus",
                  "--tracker-window-size", crit.tracker, "--top-pass", cfg.top_pass, "--selection", cfg.selection,
                  "--metric", cfg.metric>>
                \o Flag(cfg.reduce_cover, "--reduce-cover")
                \o (IF cfg.simulator_args = <<>> THEN <<>> ELSE <<"--">> \o cfg.simulator_args)]

-----------------------------------------------------------------------------
(* rerank_sbfl_with_llm.py; a directory is <<run, case>>                   *)

\* blocks.json without result.log makes a directory incomplete.
discover_result_dirs(files) ==
  [complete |-> {d \in DOMAIN files : files[d].blocks /\ files[d].result},
   incomplete |-> {d \in DOMAIN files : files[d].blocks /\ ~files[d].result}]

\* The LLM_MISSING rows, each case once.
read_missing_cases(summary) == {r.case : r \in {x \in summary : x.status = "LLM_MISSING"}}

\* Selection by bug and module; two directories for one refuse everything, and so does none.
select_missing_result_dirs(result_dirs, missing) ==
  [raised |-> (\E d, e \in result_dirs : d # e /\ d[2] = e[2]) \/ \E c \in missing : \A d \in result_dirs : d[2] # c,
   dirs |-> {d \in result_dirs : d[2] \in missing}]

collect_selected_results(files, use_summary, summary) ==
  LET dirs == discover_result_dirs(files).complete
      missing == read_missing_cases(summary)
  IN  IF dirs = {} THEN [raised |-> TRUE, dirs |-> {}]
      ELSE IF ~use_summary THEN [raised |-> FALSE, dirs |-> dirs]
      ELSE IF missing = {} THEN [raised |-> FALSE, dirs |-> {}]
      ELSE select_missing_result_dirs(dirs, missing)

============================================================================
