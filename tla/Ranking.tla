------------------------------ MODULE Ranking ------------------------------
(***************************************************************************)
(* The pure part of the localisation tools: which blocks become            *)
(* candidates, which source lines go into the prompt, how the model's      *)
(* scores and the suspiciousness are combined, and which rank the          *)
(* statistics give the bug.                                                *)
(*                                                                         *)
(* Scores and suspiciousness are numbers of the same unit, a weight is a   *)
(* number of quarters.  A ranked block is its key (scope and bid), its     *)
(* suspiciousness, negative where it is not a finite non-negative number,  *)
(* and, as its position, its rank.  A candidate's id is made of its rank   *)
(* and is modelled by it.  An average rank is doubled; 0 stands for "over".*)
(* A list of candidates is never empty: the empty list stands for an error. *)
(***************************************************************************)
EXTENDS Integers, Sequences, FiniteSets, FiniteSetsExt, SequencesExt

-----------------------------------------------------------------------------
(* Candidates                                                              *)

\* The numbers of S in order: before the k-th there are k - 1.
Ascending(S) == [k \in 1 .. Cardinality(S) |-> CHOOSE x \in S : Cardinality({y \in S : y < x}) = k - 1]

\* The items of result.log between the block header and the next one; a line is
\* [kind |-> "block" or "other" (headers) or "item", item |-> ...].
parse_block_suspiciousness(log) ==
  LET blocks == {i \in DOMAIN log : log[i].kind = "block"}
      others == {i \in DOMAIN log : i > Min(blocks) /\ log[i].kind = "other"}
      last == IF others = {} THEN Len(log) ELSE Min(others) - 1
      items == Ascending({i \in Min(blocks) + 1 .. last : log[i].kind = "item"})
  IN  IF blocks = {} THEN <<>> ELSE [n \in DOMAIN items |-> log[items[n]].item]

\* The first limit ranked blocks that blocks.json knows, each once.
build_candidates(ranked, block_map, limit) ==
  LET kept == {i \in 1 .. Min({limit, Len(ranked)}) :
                 /\ ranked[i].key \in DOMAIN block_map
                 /\ \A j \in 1 .. i - 1 : ranked[j].key # ranked[i].key}
      order == Ascending(kept)
  IN  [n \in DOMAIN order |->
         [id |-> order[n], sus |-> ranked[order[n]].sus, key |-> ranked[order[n]].key,
          module |-> block_map[ranked[order[n]].key].module,
          scope |-> block_map[ranked[order[n]].key].scope,
          lines |-> block_map[ranked[order[n]].key].lines]]

Ids(candidates) == {candidates[i].id : i \in DOMAIN candidates}

\* The maximal intervals of lines, and back; no line is an error.
compress_line_ranges(lines) ==
  {r \in lines \X lines : r[1] .. r[2] \subseteq lines /\ r[1] <= r[2]
                           /\ r[1] - 1 \notin lines /\ r[2] + 1 \notin lines}
expand_line_ranges(ranges) == UNION {r[1] .. r[2] : r \in ranges}

\* compact_candidate: what the prompt says of a candidate.
compact_candidate(c) == [c EXCEPT !.lines = compress_line_ranges(c.lines)]

\* parse_prompt_candidates: the candidates, read back from the prompt.
parse_prompt_candidates(prompt) ==
  IF \E i \in DOMAIN prompt : prompt[i].lines = {} THEN <<>>
  ELSE [i \in DOMAIN prompt |-> [prompt[i] EXCEPT !.lines = expand_line_ranges(prompt[i].lines)]]

-----------------------------------------------------------------------------
(* Source context.  A line is one character, and so is the mark of a gap.  *)
(* A file is its length and which of its lines are blank.                  *)

NoContext == [mode |-> "error", radius |-> 0, regions |-> <<>>]

expanded_lines(core, line_count, radius) ==
  UNION {Max({1, l - radius}) .. Min({line_count, l + radius}) : l \in core}

\* _render_selected: a blank line is not rendered, also one of a candidate.
render_selected(file, selected) == selected \ file.blank
\* A rendered line after the first has a mark before it unless the lines since the one rendered
\* before it are blank.
gaps(file, rendered) ==
  {l \in rendered : l > Min(rendered) /\ Max({k \in 1 .. l - 1 : k \notin file.blank}) \notin rendered}

\* The rendered lines of every module that has a candidate.
build_regions(rtl_root, candidates, mode, radius) ==
  [m \in {candidates[i].module : i \in DOMAIN candidates} |->
     render_selected(rtl_root[m],
       IF mode = "full" THEN 1 .. rtl_root[m].length
       ELSE expanded_lines(UNION {candidates[i].lines : i \in {j \in DOMAIN candidates : candidates[j].module = m}},
                           rtl_root[m].length, radius))]

source_chars(rtl_root, regions) ==
  MapThenSumSet(LAMBDA m : Cardinality(regions[m]) + Cardinality(gaps(rtl_root[m], regions[m])), DOMAIN regions)

\* A module of which no candidate has a line is an error in every mode.
no_core_lines(candidates) ==
  \E i \in DOMAIN candidates :
    \A j \in DOMAIN candidates : candidates[j].module = candidates[i].module => candidates[j].lines = {}

\* A line its file does not have is an error, except where the whole file is taken.
outside(rtl_root, candidates) ==
  \E i \in DOMAIN candidates : ~(candidates[i].lines \subseteq 1 .. rtl_root[candidates[i].module].length)

\* faulty variant: the loop over the radius starts at the smallest
collect_smallest(rtl_root, candidates, source_mode, max_chars, snippet_radius) ==
  LET fits == {r \in 0 .. snippet_radius :
                 source_chars(rtl_root, build_regions(rtl_root, candidates, "snippets", r)) <= max_chars}
  IN  IF no_core_lines(candidates) \/ outside(rtl_root, candidates) \/ fits = {} THEN NoContext
      ELSE [mode |-> "snippets", radius |-> Min(fits),
            regions |-> build_regions(rtl_root, candidates, "snippets", Min(fits))]
collect_sources(rtl_root, candidates, source_mode, max_chars, snippet_radius) ==
  LET full == build_regions(rtl_root, candidates, "full", snippet_radius)
      full_fits == source_chars(rtl_root, full) <= max_chars
      fits == {r \in 0 .. snippet_radius :
                 source_chars(rtl_root, build_regions(rtl_root, candidates, "snippets", r)) <= max_chars}
  IN  IF no_core_lines(candidates) THEN NoContext
      ELSE IF source_mode \in {"full", "auto"} /\ full_fits THEN [mode |-> "full", radius |-> 0, regions |-> full]
      ELSE IF source_mode = "full" \/ outside(rtl_root, candidates) \/ fits = {} THEN NoContext
      ELSE [mode |-> "snippets", radius |-> Max(fits),
            regions |-> build_regions(rtl_root, candidates, "snippets", Max(fits))]

-----------------------------------------------------------------------------
(* Ranking                                                                 *)

FullWeight == 4

\* The order of the sort key: final score, model score, suspiciousness, original rank.
Before(a, b) ==
  \/ a.final > b.final
  \/ a.final = b.final /\ a.llm > b.llm
  \/ a.final = b.final /\ a.llm = b.llm /\ a.sus > b.sus
  \/ a.final = b.final /\ a.llm = b.llm /\ a.sus = b.sus /\ a.id < b.id

Scored(candidates, score, llm_weight) ==
  [i \in DOMAIN candidates |->
     [id |-> candidates[i].id, sus |-> candidates[i].sus, module |-> candidates[i].module,
      scope |-> candidates[i].scope, lines |-> candidates[i].lines,
      llm |-> score[candidates[i].id],
      final |-> llm_weight * score[candidates[i].id] + (FullWeight - llm_weight) * candidates[i].sus]]

\* The list sorted: before the k-th there are k - 1.
Sorted(s) ==
  [k \in DOMAIN s |-> s[CHOOSE i \in DOMAIN s : Cardinality({j \in DOMAIN s : Before(s[j], s[i])}) = k - 1]]

\* rank_candidates of the client; reranked_rank is the position.
rank_candidates(candidates, score, llm_weight) ==
  IF \E i \in DOMAIN candidates : candidates[i].sus < 0 THEN <<>>
  ELSE Sorted(Scored(candidates, score, llm_weight))

\* validate_scores: exactly one score for every candidate.
validate_scores(candidates, assessments) ==
  /\ ToSet(assessments.ids) = Ids(candidates)
  /\ \A i, j \in DOMAIN assessments.ids : assessments.ids[i] = assessments.ids[j] => i = j

\* rank_candidates of the offline tool.
rerank_candidates(candidates, assessments, llm_weight) ==
  IF ~validate_scores(candidates, assessments) \/ \E i \in DOMAIN candidates : candidates[i].sus < 0 THEN <<>>
  ELSE Sorted(Scored(candidates, assessments.score, llm_weight))

\* s[:k]
Slice(s, k) == SubSeq(s, 1, Min({k, Len(s)}))

\* load_rerank_result accepts the file.
load_rerank_result(file) ==
  /\ Len(file.rankings) > 0 /\ file.top_k = Len(file.rankings)
  /\ \A i, j \in DOMAIN file.rankings : file.rankings[i].id = file.rankings[j].id => i = j

-----------------------------------------------------------------------------
(* The rank of the bug                                                     *)

Over == 0

line_set_with_window(lines, window) == UNION {l - window .. l + window : l \in lines}

AverageRank(ranks) == (2 * SumFunction([r \in ranks |-> r])) \div Cardinality(ranks)

\* The ranks tied with rank i: the run of equal suspiciousness it lies in.
tie_group(ranked, i) ==
  {j \in DOMAIN ranked : \A k \in (i .. j) \cup (j .. i) : ranked[k].sus = ranked[i].sus}

is_bug_block(item, block_map, bug, target) ==
  /\ item.key \in DOMAIN block_map
  /\ block_map[item.key].scope = bug.scope /\ block_map[item.key].module = bug.module
  /\ block_map[item.key].lines \cap target # {}

\* faulty variant: the last group counts like every other
find_bug_rank_to_the_end(bug, ranked, block_map, window) ==
  LET hits == {i \in DOMAIN ranked : is_bug_block(ranked[i], block_map, bug, line_set_with_window(bug.lines, window))}
  IN  IF hits = {} THEN Over ELSE AverageRank(tie_group(ranked, Min(hits)))
\* A block tied with the last one counts only if it is the last one: what the ranking cuts
\* off may be as suspicious.
find_bug_rank(bug, ranked, block_map, window) ==
  LET top_n == Len(ranked)
      target == line_set_with_window(bug.lines, window)
      hits == {i \in 1 .. top_n : is_bug_block(ranked[i], block_map, bug, target)}
      i == Min(hits)
  IN  IF hits = {} \/ tie_group(ranked, 1) = 1 .. top_n THEN Over
      ELSE IF ranked[i].sus = ranked[top_n].sus
           THEN IF i # top_n THEN Over ELSE 2 * top_n
           ELSE AverageRank(tie_group(ranked, i))

find_reranked_bug_rank(bug, rankings, window) ==
  LET target == line_set_with_window(bug.lines, window)
      hits == {i \in DOMAIN rankings : /\ rankings[i].module = bug.module /\ rankings[i].scope = bug.scope
                                       /\ rankings[i].lines \cap target # {}}
  IN  IF hits = {} THEN Over
      ELSE AverageRank({j \in DOMAIN rankings : rankings[j].final = rankings[Min(hits)].final})

-----------------------------------------------------------------------------
(* Statistics over rows [status, top, sbfl_top]                            *)

Count(rows, P(_)) == Cardinality({i \in DOMAIN rows : rows[i].status = "OK" /\ P(rows[i])})

\* rank_delta of a row; the empty string, where a rank is missing, is 0.
format_rank_delta(row) == IF row.sbfl_top = Over \/ row.top = Over THEN 0 ELSE row.sbfl_top - row.top

\* What a rank counts for in a mean: one beyond the tenth place, as well as none, is the eleventh.
AtMost11(rank) == IF rank = Over \/ rank > 22 THEN 22 ELSE rank

compute_llm_stats(rows) ==
  [ok |-> Count(rows, LAMBDA r : TRUE),
   top1 |-> Count(rows, LAMBDA r : r.top # Over /\ r.top <= 2),
   mar10 |-> SumFunction([i \in {j \in DOMAIN rows : rows[j].status = "OK"} |-> AtMost11(rows[i].top)]),
   improved |-> Count(rows, LAMBDA r : r.top # Over /\ (r.sbfl_top = Over \/ r.top < r.sbfl_top)),
   unchanged |-> Count(rows, LAMBDA r : r.top # Over /\ r.top = r.sbfl_top),
   worsened |-> Count(rows, LAMBDA r : r.sbfl_top # Over /\ (r.top = Over \/ r.top > r.sbfl_top))]

compute_sbfl_stats(rows) ==
  [ok |-> Count(rows, LAMBDA r : TRUE),
   top1 |-> Count(rows, LAMBDA r : r.sbfl_top # Over /\ r.sbfl_top <= 2),
   mar10 |-> SumFunction([i \in {j \in DOMAIN rows : rows[j].status = "OK"} |-> AtMost11(rows[i].sbfl_top)])]

============================================================================
