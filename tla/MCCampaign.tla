----------------------------- MODULE MCCampaign -----------------------------
(* Command lines for Campaign: runs that save and that do not, chains of    *)
(* reruns with and without overrides, and the ways of starting the script.  *)
EXTENDS Campaign

MCNumbers == [w \in {"0", "1", "5", "10", "20", "50", "5000000"} |->
                CASE w = "0" -> 0 [] w = "1" -> 1 [] w = "5" -> 5 [] w = "10" -> 10 [] w = "20" -> 20 [] w = "50" -> 50
                  [] OTHER -> 5000000]

MCLexicon == Options \union ModeWords \union OtherWords \union DOMAIN MCNumbers \union {"line", "branch", "csr", "tarantula", "best"}

Gen == [cases |-> {1, 2}, mode |-> "psbfl", coverage |-> "line", state |-> "csr", top_pass |-> "5", selection |-> "sort",
        tracker_window_size |-> "5", reduce_cover |-> TRUE, reduce_insts |-> FALSE, save_corpus |-> TRUE,
        checkpoint_interval |-> <<"1">>, gen_only |-> TRUE, metric |-> "ochiai", mutator_window_size |-> <<"1">>,
        max_corpus_size |-> <<>>, simulator_args |-> <<>>, resume |-> FALSE, dry_run |-> FALSE]
MCGenArgs == {Gen,
  [Gen EXCEPT !.mode = "withw", !.mutator_window_size = <<>>, !.max_corpus_size = <<"10">>, !.coverage = "branch",
              !.gen_only = FALSE, !.checkpoint_interval = <<>>, !.resume = TRUE, !.cases = {1}],
  [Gen EXCEPT !.mode = "random", !.mutator_window_size = <<>>, !.save_corpus = FALSE, !.checkpoint_interval = <<>>,
              !.gen_only = FALSE, !.simulator_args = <<<<>>>>],
  [Gen EXCEPT !.dry_run = TRUE],
  [Gen EXCEPT !.max_corpus_size = <<"10">>], [Gen EXCEPT !.tracker_window_size = "0"]}

Again == [save_corpus |-> TRUE, no_checkpoint_interval |-> FALSE, checkpoint_interval |-> <<>>, top_pass |-> <<>>,
          selection |-> <<>>, metric |-> <<>>, reduce_cover |-> <<>>, gen_only |-> <<>>, mutator_window_size |-> <<>>, max_corpus_size |-> <<>>,
          simulator_args |-> <<>>, dry_run |-> FALSE]
MCRerunArgs == {Again,
  [Again EXCEPT !.gen_only = <<FALSE>>, !.metric = <<"tarantula">>, !.reduce_cover = <<FALSE>>, !.top_pass = <<"0">>, !.mutator_window_size = <<"20">>, !.no_checkpoint_interval = TRUE],
  [Again EXCEPT !.save_corpus = FALSE, !.dry_run = TRUE, !.simulator_args = <<<<"-c", "1">>>>], [Again EXCEPT !.selection = <<"best">>]}

MCAnalysisArgs == {[top_pass |-> <<>>, selection |-> <<>>, metric |-> <<>>, reduce_cover |-> <<>>, simulator_args |-> <<>>, dry_run |-> FALSE]}

Pass(s, k, l, e, o, j) == [summary |-> s, skip_existing |-> k, list_only |-> l, stop_on_error |-> e, output |-> o, jobs |-> j]
MCPassArgs == {Pass(FALSE, FALSE, FALSE, TRUE, FALSE, 2), Pass(TRUE, TRUE, FALSE, FALSE, FALSE, 1), Pass(FALSE, FALSE, FALSE, TRUE, FALSE, 1),
               Pass(FALSE, TRUE, FALSE, FALSE, TRUE, 1), Pass(FALSE, FALSE, TRUE, FALSE, FALSE, 1)}
============================================================================
