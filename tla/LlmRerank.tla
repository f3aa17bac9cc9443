----------------------------- MODULE LlmRerank -----------------------------
(***************************************************************************)
(* The reranking tools on their files: ibex-sbfl rerank (run_rerank), one  *)
(* process at a time on one of the case directories, which may fail or be  *)
(* killed anywhere; ibex-sbfl-rerank, which ranks again from the saved     *)
(* prompt and answer with another weight; and the summary of either's      *)
(* results.  All directories hold the results of the same localisation.    *)
(***************************************************************************)
EXTENDS LlmClient, Ranking

CONSTANTS
  Dirs,                 \* the case directories, 1 .. n in the order of their names
  Cases,                \* the possible localisations: [log, block_map, rtl_root]
  Options,              \* command lines of ibex-sbfl rerank
  Patches,              \* what may be known of the bug's patch
  Texts,                \* what the model may answer: [json, fits, ids, score]
  Weights,              \* --llm-weight of the offline tool, in quarters
  Bugs,                 \* the possible bug_info.json of the directories: functions to [module, scope, lines]
  MaxReranks            \* bound: processes of ibex-sbfl rerank

\* Suspiciousness, scores and weights are numbers, logs are lists, a block has finitely many lines
\* and a file some number of them, and a text a score for each candidate it names.
ASSUME RerankAssumption ==
  /\ \A c \in Cases :
       /\ c.log \in Seq(Range(c.log)) /\ \A i \in DOMAIN c.log : c.log[i].item.sus \in Int
       /\ \A k \in DOMAIN c.block_map : /\ c.block_map[k].lines \subseteq Nat /\ IsFiniteSet(c.block_map[k].lines)
                                        /\ c.rtl_root[c.block_map[k].module].length \in Nat
  /\ \A a \in Options :
       /\ {a.candidate_count, a.top_k, a.max_source_chars, a.snippet_radius} \subseteq Int
       /\ a.api_protocol \in Protocols \cup {"auto"} /\ a.structured_output \in {"strict", "auto", "off"}
  /\ \A t \in Texts : t.ids \in Seq(Nat) /\ \A i \in DOMAIN t.ids : t.score[t.ids[i]] \in Int
  /\ Weights \subseteq Int

ASSUME DirsAssumption == IsFiniteSet(Dirs)

\* A rank is a place in the order of suspiciousness; what is not a number comes last.
ASSUME RankedAssumption ==
  \A c \in Cases : \A i, j \in DOMAIN parse_block_suspiciousness(c.log) :
    i < j => parse_block_suspiciousness(c.log)[i].sus >= parse_block_suspiciousness(c.log)[j].sus

VARIABLES
  case,                 \* result.log, blocks.json and the source files
  prompt,               \* llm_rerank.json.prompt.md of each directory
  result,               \* llm_rerank.json
  offline,              \* the offline tool's output
  step, dir, args, candidates, sources,    \* the process: where it is and its locals
  raw,                  \* the answer it has
  rows,                 \* the last summary: a row of each directory
  reranks               \* processes started

files == <<prompt, result, offline>>
proc == <<step, dir, args, candidates, sources, raw>>
vars == <<clientVars, case, files, proc, rows, reranks>>

NoFile == [none |-> TRUE]
Exists(f) == "none" \notin DOMAIN f
NoText == [json |-> "none", fits |-> FALSE, ids |-> <<>>, score |-> <<>>]
NoRow == [status |-> "none", top |-> Over, sbfl_top |-> Over]

ranked == parse_block_suspiciousness(case.log)

Init ==
  /\ ClientInit
  /\ case \in Cases
  /\ prompt = [d \in Dirs |-> NoFile] /\ result = prompt /\ offline = prompt
  /\ step = "idle" /\ dir = 1 /\ args = <<>> /\ candidates = <<>> /\ sources = NoContext /\ raw = NoText
  /\ rows = [d \in Dirs |-> NoRow]
  /\ reranks = 0

-----------------------------------------------------------------------------
(* ibex-sbfl rerank                                                        *)

\* The end of the process, however it comes.
Gone ==
  /\ EndCall
  /\ step' = "idle" /\ dir' = 1 /\ args' = <<>> /\ candidates' = <<>> /\ sources' = NoContext /\ raw' = NoText

\* _validate_args
validate_args(a) ==
  /\ a.candidate_count > 0 /\ a.top_k > 0 /\ a.top_k <= a.candidate_count
  /\ a.max_source_chars > 0 /\ a.snippet_radius >= 0
  /\ a.llm_weight \in 0 .. FullWeight /\ retries >= 0
  /\ a.dry_run \/ a.model # ""

\* faulty variant: too few candidates for top_k
StartUnchecked(d, a) ==
  /\ step = "idle" /\ reranks < MaxReranks
  /\ reranks' = reranks + 1 /\ rows' = [e \in Dirs |-> NoRow]
  /\ \E c \in {build_candidates(ranked, case.block_map, a.candidate_count)} :
       IF ~validate_args(a) \/ c = <<>> THEN UNCHANGED proc
       ELSE step' = "workspace" /\ dir' = d /\ args' = a /\ candidates' = c /\ UNCHANGED <<sources, raw>>
  /\ UNCHANGED <<clientVars, case, files>>
\* The command line, the ranking and the candidates.
Start(d, a) ==
  /\ step = "idle" /\ reranks < MaxReranks
  /\ reranks' = reranks + 1 /\ rows' = [e \in Dirs |-> NoRow]
  /\ \E c \in {build_candidates(ranked, case.block_map, a.candidate_count)} :
       IF ~validate_args(a) \/ c = <<>> \/ Len(c) < a.top_k THEN UNCHANGED proc
       ELSE step' = "workspace" /\ dir' = d /\ args' = a /\ candidates' = c /\ UNCHANGED <<sources, raw>>
  /\ UNCHANGED <<clientVars, case, files>>

\* The patch of the bug, named on the command line or by the [DIFF] lines of run.log.
discover_patch(p) ==
  CASE p.explicit \/ p.declared = 1 -> "found"
    [] ~p.explicit /\ p.declared = 0 -> "none"
    [] OTHER -> "error"
\* patch_changed_files: some file, all below rtl/.
patch_changed_files(p) == p.files # {} /\ p.files \subseteq {"rtl"}
\* The state of the tree that is read, or "error".
prepare_rtl_workspace(p, allow_unpatched) ==
  LET found == discover_patch(p)
  IN  CASE found = "none" -> IF allow_unpatched THEN "not_available" ELSE "error"
        [] found = "found" /\ p.exists /\ patch_changed_files(p) ->
             IF p.applies THEN IF p.changes THEN "applied" ELSE "error"
             ELSE IF p.reverses THEN "already_patched" ELSE "error"
        [] OTHER -> "error"

\* The patched copy of the tree and the source context taken from it.
Workspace ==
  /\ step = "workspace"
  /\ \E p \in Patches,
        s \in {collect_sources(case.rtl_root, candidates, args.source_mode, args.max_source_chars, args.snippet_radius)} :
       IF prepare_rtl_workspace(p, args.allow_unpatched) # "error" /\ s.mode # "error"
       THEN step' = "prompt" /\ sources' = s /\ UNCHANGED <<clientVars, dir, args, candidates, raw>>
       ELSE Gone
  /\ UNCHANGED <<case, files, rows, reranks>>

\* Of the prompt, the list of the candidates.
build_user_prompt(cs) == [candidates |-> [i \in DOMAIN cs |-> compact_candidate(cs[i])]]

\* A temporary file that then replaces the one of this name: a reader, and a process killed
\* before, find the old one.
atomic_write(file, d, value) == [file EXCEPT ![d] = value]

\* The prompt is saved before the model is asked.
SavePrompt ==
  /\ step = "prompt" /\ step' = "key"
  /\ prompt' = IF args.save_prompt THEN atomic_write(prompt, dir, build_user_prompt(candidates)) ELSE prompt
  /\ UNCHANGED <<clientVars, case, result, offline, dir, args, candidates, sources, raw, rows, reranks>>

\* The variable the API key is read from, where --api-key-env does not name one.
api_key_env(api_protocol, env) ==
  CASE api_protocol = "anthropic" -> "ANTHROPIC_API_KEY"
    [] api_protocol = "zai" -> IF "OPENAI_API_KEY" \in env /\ "ZAI_API_KEY" \notin env
                               THEN "OPENAI_API_KEY" ELSE "ZAI_API_KEY"
    [] OTHER -> "OPENAI_API_KEY"

\* --dry-run ends here; otherwise the key and the call.
Ready ==
  /\ step = "key"
  /\ LET p == resolve_api_protocol(args.model, args.api_protocol)
     IN  IF args.dry_run \/ api_key_env(p, args.env) \notin args.env THEN Gone
         ELSE /\ StartCall(p, args.structured_output)
              /\ step' = "call" /\ UNCHANGED <<dir, args, candidates, sources, raw>>
  /\ UNCHANGED <<case, files, rows, reranks>>

Ask ==
  /\ step = "call" /\ Request
  /\ UNCHANGED <<case, files, proc, rows, reranks>>

\* A text has come.
Reply ==
  /\ step = "call"
  /\ \E text \in Texts :
       IF validate_assessments(text, Ids(candidates))
       THEN ValidAnswer /\ raw' = text
       ELSE InvalidAnswer /\ UNCHANGED raw
  /\ UNCHANGED <<case, files, step, dir, args, candidates, sources, rows, reranks>>

CallFailed ==
  /\ step = "call" /\ call = "failed" /\ Gone
  /\ UNCHANGED <<case, files, rows, reranks>>

\* The ranking and what it was made from.
Write ==
  /\ step = "call" /\ call = "ok"
  /\ \E assessments \in {rank_candidates(candidates, raw.score, args.llm_weight)} :
       result' = IF assessments = <<>> THEN result
                 ELSE atomic_write(result, dir,
                        [asked |-> candidates, raw |-> raw, top_k |-> args.top_k,
                         rankings |-> Slice(assessments, args.top_k)])
  /\ Gone
  /\ UNCHANGED <<case, prompt, offline, rows, reranks>>

Killed ==
  /\ step # "idle" /\ Gone
  /\ UNCHANGED <<case, files, rows, reranks>>

-----------------------------------------------------------------------------
(* The offline tool and the summaries                                      *)

\* The pairs of a result and its prompt; a result without one is an error, like none at all.
discover_pairs ==
  LET found == {d \in Dirs : Exists(result[d])}
  IN  IF \E d \in found : ~Exists(prompt[d]) THEN {} ELSE found

\* raw_model_response, parsed once more.
parse_raw_assessments(file) ==
  IF extract_json_object(file.raw) /\ file.raw.ids # <<>> THEN file.raw ELSE NoText

\* faulty variant: the scores are not compared with the prompt's candidates
pair_unvalidated(d, llm_weight, top_k) ==
  LET c == parse_prompt_candidates(prompt[d].candidates)
      known == SelectSeq(c, LAMBDA x : x.id \in ToSet(result[d].raw.ids))
      k == IF top_k = 0 THEN result[d].top_k ELSE top_k
      assessments == rank_candidates(known, result[d].raw.score, llm_weight)
  IN  IF assessments = <<>> \/ k > Len(assessments) THEN NoFile
      ELSE [asked |-> result[d].asked, raw |-> result[d].raw, weight |-> llm_weight, top_k |-> k,
            rankings |-> Slice(assessments, k)]
\* rerank_pair; top_k = 0: not given.
rerank_pair(d, llm_weight, top_k) ==
  LET c == parse_prompt_candidates(prompt[d].candidates)
      k == IF top_k = 0 THEN result[d].top_k ELSE top_k
      answer == parse_raw_assessments(result[d])
      assessments == IF c = <<>> THEN <<>> ELSE rerank_candidates(c, answer, llm_weight)
  IN  IF assessments = <<>> \/ k > Len(assessments) THEN NoFile
      ELSE [asked |-> result[d].asked, raw |-> result[d].raw, weight |-> llm_weight, top_k |-> k,
            rankings |-> Slice(assessments, k)]

\* process_llm_logdir of a case that is OK and whose bug_info.json is there.
process_llm_logdir(file, bug, window) ==
  LET sbfl_top == IF ranked = <<>> THEN Over ELSE find_bug_rank(bug, ranked, case.block_map, window)
  IN  CASE ~Exists(file) -> [status |-> "LLM_MISSING", top |-> Over, sbfl_top |-> sbfl_top]
        [] Exists(file) /\ ~load_rerank_result(file) ->
             [status |-> "LLM_ERROR", top |-> Over, sbfl_top |-> sbfl_top]
        [] OTHER -> [status |-> "OK", top |-> find_reranked_bug_rank(bug, file.rankings, window), sbfl_top |-> sbfl_top]

\* A summary of one file of every directory; every directory has its own bug.
summarize_llm(file, bug, window) == [d \in Dirs |-> process_llm_logdir(file[d], bug[d], window)]

\* run_directory: every pair in turn up to the first that fails, and the summary if none does.
RunDirectory(llm_weight, top_k, bug) ==
  /\ step = "idle"
  /\ LET pairs == discover_pairs
         bad == {d \in pairs : ~Exists(rerank_pair(d, llm_weight, top_k))}
     IN  /\ offline' = [d \in Dirs |-> IF d \in pairs /\ \A e \in bad : d < e
                                       THEN rerank_pair(d, llm_weight, top_k) ELSE offline[d]]
         /\ rows' = IF pairs = {} \/ bad # {} THEN [d \in Dirs |-> NoRow] ELSE summarize_llm(offline', bug, 0)
  /\ UNCHANGED <<clientVars, case, prompt, result, proc, reranks>>

\* The summary of llm_rerank.json.
Summarize(bug, window) ==
  /\ step = "idle" /\ rows' = summarize_llm(result, bug, window)
  /\ UNCHANGED <<clientVars, case, files, proc, reranks>>

Next ==
  \/ \E d \in Dirs, a \in Options : Start(d, a)
  \/ Workspace \/ SavePrompt \/ Ready \/ Ask \/ Reply \/ CallFailed \/ Write \/ Killed
  \/ \E w \in Weights, k \in {0, 2}, bug \in Bugs : RunDirectory(w, k, bug)
  \/ \E bug \in Bugs, window \in {0, 1} : Summarize(bug, window)

Spec == Init /\ [][Next]_vars

-----------------------------------------------------------------------------
(* Properties                                                              *)

\* The source context never omits a line of a candidate's block that is not blank (unless the
\* file is there as a whole and has no such line), keeps within the limit, and is the widest that
\* does (collect_sources: the text of a smaller radius may be longer, so the first radius that fits
\* is not found by bisection).
SourcesKept ==
  step = "prompt" =>
    /\ \A i \in DOMAIN candidates : \A m \in {candidates[i].module} : \A file \in {case.rtl_root[m]} :
         \/ candidates[i].lines \ file.blank \subseteq sources.regions[m]
         \/ sources.mode = "full" /\ sources.regions[m] = (1 .. file.length) \ file.blank
    /\ source_chars(case.rtl_root, sources.regions) <= args.max_source_chars
    /\ sources.mode = "snippets" =>
         \A r \in sources.radius + 1 .. args.snippet_radius :
           ~(source_chars(case.rtl_root, build_regions(case.rtl_root, candidates, "snippets", r)) <= args.max_source_chars)

\* Every file the tools leave, also after a process that failed or was killed, is one the
\* statistics accept: as many rankings as top_k says, and each candidate once.
WrittenLoadable ==
  \A d \in Dirs : /\ Exists(result[d]) => load_rerank_result(result[d])
                  /\ Exists(offline[d]) => load_rerank_result(offline[d])

\* The offline tool ranks what the model was asked about: the prompt beside a result may be
\* a later one (of a process that failed after it saved it), and the candidates are read back
\* from its line ranges; still its output is the client's ranking of the candidates of the
\* saved answer, with the other weight.
OfflineAgrees ==
  \A d \in Dirs : Exists(offline[d]) =>
    offline[d].rankings =
      Slice(rank_candidates(offline[d].asked, offline[d].raw.score, offline[d].weight), offline[d].top_k)

\* A rank of the localisation counts all blocks that are as suspicious.
RankSound(bug, window) ==
  LET r == find_bug_rank(bug, ranked, case.block_map, window)
      hit == Min({i \in DOMAIN ranked : is_bug_block(ranked[i], case.block_map, bug,
                                                    line_set_with_window(bug.lines, window))})
      better == Cardinality({i \in DOMAIN ranked : ranked[i].sus > ranked[hit].sus})
      as_good == Cardinality({i \in DOMAIN ranked : ranked[i].sus >= ranked[hit].sus})
  IN  r # Over => /\ 2 * (better + 1) <= r /\ r <= 2 * as_good
                  /\ (as_good = Len(ranked) => r = 2 * Len(ranked))

\* The summaries are sound.  The rank they give a bug is one a reader of the list could meet
\* it at: more than the items that score better, and no more than those and the ones that tie
\* (find_bug_rank).  Improved, unchanged and worsened are disjoint and leave out only the cases
\* no list contains; where nothing is worsened the model's mean rank and top-1 count are no
\* worse than the localisation's, and vice versa (compute_llm_stats, compute_sbfl_stats).
SummarySound ==
  LET llm == compute_llm_stats(rows)
      sbfl == compute_sbfl_stats(rows)
      lost == Count(rows, LAMBDA r : r.top = Over /\ r.sbfl_top = Over)
  IN  /\ reranks = 0 => \A bug \in Bugs, d \in Dirs, w \in {0, 1} : RankSound(bug[d], w)
      /\ llm.improved + llm.unchanged + llm.worsened + lost = llm.ok
      /\ llm.worsened = 0 => llm.mar10 <= sbfl.mar10 /\ llm.top1 >= sbfl.top1
      /\ llm.improved = 0 => llm.mar10 >= sbfl.mar10 /\ llm.top1 <= sbfl.top1
      /\ \A d \in Dirs : format_rank_delta(rows[d]) > 0 => llm.improved > 0

============================================================================
