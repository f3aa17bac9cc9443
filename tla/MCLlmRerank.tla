---------------------------- MODULE MCLlmRerank ----------------------------
(* Two directories, rankings of three blocks in two modules, with a block blocks.json does *)
(* not know, one without lines, one with a line its file does not have, and one whose     *)
(* suspiciousness is not a number; some of the files have blank lines, in and around them.  *)
EXTENDS LlmRerank

MCDirs == 1 .. 2

Block(m, ls) == [module |-> m, scope |-> m, lines |-> ls]
a == Block("m1", {2, 3})
b == Block("m1", {6})
c == Block("m2", {1})
Item(k, s) == [kind |-> "item", item |-> [key |-> k, sus |-> s]]
Header(k) == [kind |-> k, item |-> [key |-> "none", sus |-> 0]]
Log(x, y, z) ==
  <<Header("other"), Item("c", 3), Header("block"), Item("a", x), Item("b", y), Item("c", z),
    Header("other"), Item("b", 3)>>
Tree(blank) == [m1 |-> [length |-> 7, blank |-> blank], m2 |-> [length |-> 3, blank |-> {2}]]
MCCases ==
  {[log |-> Log(3, 2, 2), block_map |-> [a |-> a, b |-> b, c |-> c], rtl_root |-> Tree({4, 5})],
   [log |-> Log(3, 3, 2), block_map |-> [a |-> a, c |-> c], rtl_root |-> Tree({3, 4})],
   [log |-> Log(2, 1, 0), block_map |-> [a |-> a, b |-> Block("m1", {}), c |-> c], rtl_root |-> Tree({})],
   [log |-> Log(2, 2, 2), block_map |-> [a |-> a, b |-> b, c |-> c], rtl_root |-> Tree({4})],
   [log |-> Log(1, 0, -1), block_map |-> [a |-> a, b |-> b, c |-> c], rtl_root |-> Tree({})],
   [log |-> Log(3, 1, 1), block_map |-> [a |-> Block("m1", {3, 8}), b |-> b, c |-> c], rtl_root |-> Tree({})],
   [log |-> <<Header("other"), Item("c", 3)>>, block_map |-> [c |-> c], rtl_root |-> Tree({})]}

Option(n, k, mode, chars, w, save, dry, model, so) ==
  [candidate_count |-> n, top_k |-> k, source_mode |-> mode, max_source_chars |-> chars,
   snippet_radius |-> 2, llm_weight |-> w, save_prompt |-> save, dry_run |-> dry, allow_unpatched |-> dry,
   model |-> model, api_protocol |-> "auto", structured_output |-> so,
   env |-> IF model = "other" THEN {} ELSE {"OPENAI_API_KEY", "ANTHROPIC_API_KEY"}]
MCOptions ==
  {Option(3, 2, "auto", 8, 3, TRUE, FALSE, "gpt-", "auto"),
   Option(2, 2, "snippets", 6, 3, TRUE, FALSE, "claude-", "strict"),
   Option(3, 3, "full", 20, 1, FALSE, FALSE, "glm-", "auto"),
   Option(2, 1, "full", 6, 3, TRUE, FALSE, "gpt-", "off"),
   Option(2, 1, "auto", 20, 3, TRUE, TRUE, "", "auto"),
   Option(2, 1, "auto", 20, 3, TRUE, FALSE, "", "auto"),
   Option(3, 1, "auto", 20, 4, FALSE, FALSE, "other", "auto"),
   Option(1, 2, "auto", 20, 4, FALSE, FALSE, "gpt-", "auto")}
Text(js, fits, ids, score) == [json |-> js, fits |-> fits, ids |-> ids, score |-> score]
MCTexts ==
  {Text(IF sc = <<1, 1, 1>> THEN "fenced" ELSE "whole", TRUE, ids, sc) : ids \in {<<1, 2, 3>>, <<2, 1>>, <<1, 3>>, <<1>>},
                                  sc \in {<<0, 2, 4>>, <<4, 0, 4>>, <<1, 1, 1>>}}
  \cup {Text("fenced", FALSE, <<1>>, <<1>>), Text("embedded", TRUE, <<1, 2, 2>>, <<1, 1>>),
        Text("none", TRUE, <<>>, <<>>)}
Patch(decl, ex, f, app, rev, ch) ==
  [explicit |-> FALSE, declared |-> decl, exists |-> ex, files |-> f, applies |-> app, reverses |-> rev, changes |-> ch]
MCPatches ==
  {Patch(1, TRUE, {"rtl"}, TRUE, FALSE, TRUE), Patch(1, TRUE, {"rtl"}, FALSE, TRUE, TRUE),
   Patch(0, FALSE, {}, FALSE, FALSE, FALSE), Patch(2, TRUE, {"rtl"}, TRUE, FALSE, TRUE),
   Patch(1, TRUE, {"rtl", "dv"}, TRUE, FALSE, TRUE), Patch(1, TRUE, {"rtl"}, FALSE, FALSE, TRUE)}
MCWeights == {0, 3}
Bug(m, l) == [module |-> m, scope |-> m, lines |-> {l}]
MCBugs == {<<Bug("m1", 3), Bug("m1", 7)>>, <<Bug("m1", 7), Bug("m2", 1)>>, <<Bug("m2", 1), Bug("m1", 3)>>}
============================================================================
