-------------------------- MODULE Campaign_proofs --------------------------
(***************************************************************************)
(* Proofs about the series of batch runs and the reranking script, for any *)
(* cases, command lines, words and numbers, and any number of runs,        *)
(* failures and interrupts.  CampaignInv is inductive and has two parts.   *)
(*   RunsInv: what is in a run directory follows from the run it reads.  A *)
(* case's command is generation_args of its run's configuration, its       *)
(* corpus has that configuration's settings, and a rerun's configuration   *)
(* keeps its parent's.  The steps that read a run need that                *)
(* prepare_rerun and _analysis_args get back from such a command the       *)
(* configuration it was made from (ReadsBack, ModeBack, CriticalBack,      *)
(* RerunMade), although the command is only a sequence of words: each      *)
(* option stands in a part of it (Upto2 to Upto9) before the simulator's   *)
(* words, and no word before it is its name.                               *)
(*   PassInv: the window of jobs of the script.  The selected directories  *)
(* are ranked, or their jobs wait, run or failed (JobsOK); nothing is left *)
(* in the queue when nothing runs, unless a failure stopped it; and the    *)
(* failures and the jobs that run are never more than the workers under    *)
(* --stop-on-error.                                                        *)
(***************************************************************************)
EXTENDS Campaign, FiniteSetTheorems, WellFoundedInduction, TLAPS

\* The configurations of a generation or a rerun.
Config ==
  [mode : DOMAIN ModeWord, coverage : Value, state : Value, top_pass : Number, selection : Value,
   tracker_window_size : Number, reduce_cover : BOOLEAN, save_corpus : BOOLEAN, checkpoint_interval : Optional(Number),
   gen_only : BOOLEAN, metric : Value, mutator_window_size : Number, max_corpus_size : Number,
   simulator_args : SimulatorArgs]

\* The words of a command, its beginnings, and the option w first found with value v.
Words(a) == {a[i] : i \in DOMAIN a}
Prefix(a, b) == Len(a) <= Len(b) /\ \A i \in 1 .. Len(a) : b[i] = a[i]
Found(a, w, v) ==
  \E i \in 1 .. Len(a) : i < Len(a) /\ a[i] = w /\ a[i + 1] = v /\ \A j \in 1 .. Len(a) : j < i => a[j] # w

\* The minimum of a non-empty set of naturals.
LEMMA MinOf ==
  ASSUME NEW S \in SUBSET Nat, NEW m \in S, \A x \in S : m <= x
  PROVE  Min(S) = m
<1>1. \A x \in S : (\A y \in S : x <= y) => x = m
  BY SMT
<1> QED BY <1>1 DEF Min

\* The largest of a set of numbers is its greatest member.
LEMMA MaxOf ==
  ASSUME NEW S \in SUBSET Nat, NEW m \in S, \A x \in S : x <= m
  PROVE  Max(S) = m
<1>1. \A x \in S : (\A y \in S : y <= x) => x = m
  BY SMT
<1> QED BY <1>1 DEF Max

\* A set of numbers has a least member.
LEMMA LeastNat ==
  ASSUME NEW S \in SUBSET Nat, S # {}
  PROVE  \E m \in S : \A x \in S : m <= x
<1>1. PICK R : IsWellFoundedOn(R, Nat) /\ \A x, y \in Nat : <<y, x>> \in R <=> y < x
  <2>1. IsWellFoundedOn(OpToRel(<, Nat), Nat)
    BY NatLessThanWellFounded
  <2>2. \A x, y \in Nat : <<y, x>> \in OpToRel(<, Nat) <=> y < x
    BY DEF OpToRel
  <2> QED
    BY <2>1, <2>2, Zenon
<1>2. PICK m \in S : \A y \in S : ~(<<y, m>> \in R)
  BY <1>1, WFMin
<1>3. ASSUME NEW y \in S PROVE m <= y
  <2>1. m \in Nat /\ y \in Nat /\ ~(y < m)
    BY <1>1, <1>2, Zenon
  <2> QED BY <2>1
<1> QED BY <1>3

\* Two commands, one after the other, have the words of both.
LEMMA ConcatWords ==
  ASSUME NEW a \in Seq(Lexicon), NEW b \in Seq(Lexicon)
  PROVE  a \o b \in Seq(Lexicon) /\ Words(a \o b) = Words(a) \union Words(b)
<1>1. /\ a \o b \in Seq(Lexicon) /\ Len(a \o b) = Len(a) + Len(b) /\ Len(a) \in Nat /\ Len(b) \in Nat
      /\ \A i \in 1 .. Len(a) + Len(b) : (a \o b)[i] = IF i <= Len(a) THEN a[i] ELSE b[i - Len(a)]
  OBVIOUS
<1>2. DOMAIN a = 1 .. Len(a) /\ DOMAIN b = 1 .. Len(b) /\ DOMAIN (a \o b) = 1 .. Len(a) + Len(b)
  BY <1>1
<1> DEFINE c == a \o b
<1> HIDE DEF c
<1>3. ASSUME NEW i \in DOMAIN c PROVE c[i] \in Words(a) \union Words(b)
  <2>1. CASE i <= Len(a) BY <2>1, <1>1, <1>2, <1>3 DEF Words, c
  <2>2. CASE i > Len(a)
    <3>1. i - Len(a) \in DOMAIN b /\ c[i] = b[i - Len(a)]
      BY <2>2, <1>1, <1>2, <1>3 DEF c
    <3> QED BY <3>1 DEF Words
  <2> QED BY <2>1, <2>2, <1>1, <1>2 DEF c
<1>4. ASSUME NEW i \in DOMAIN a PROVE a[i] \in Words(c)
  <2>1. i \in DOMAIN c /\ c[i] = a[i] BY <1>1, <1>2 DEF c
  <2> QED BY <2>1 DEF Words
<1>5. ASSUME NEW i \in DOMAIN b PROVE b[i] \in Words(c)
  <2>1. Len(a) + i \in DOMAIN c /\ c[Len(a) + i] = b[i] BY <1>1, <1>2 DEF c
  <2> QED BY <2>1 DEF Words
<1>6. Words(c) = Words(a) \union Words(b)
  BY <1>3, <1>4, <1>5, Zenon DEF Words
<1> QED BY <1>1, <1>6 DEF c

\* The empty command has no words.
LEMMA Words0 == <<>> \in Seq(Lexicon) /\ Words(<<>>) = {}
<1>1. DOMAIN <<>> = {} OBVIOUS
<1>2. Words(<<>>) = {} BY <1>1, Zenon DEF Words
<1> QED BY <1>2

\* The words of a command of one word.
LEMMA Words1 ==
  ASSUME NEW x \in Lexicon
  PROVE  <<x>> \in Seq(Lexicon) /\ Words(<<x>>) = {x}
<1>1. DOMAIN <<x>> = {1} /\ <<x>>[1] = x OBVIOUS
<1>2. Words(<<x>>) = {x} BY <1>1, Zenon DEF Words
<1> QED BY <1>2

\* The words of a command of two words.
LEMMA Words2 ==
  ASSUME NEW x \in Lexicon, NEW y \in Lexicon
  PROVE  <<x, y>> \in Seq(Lexicon) /\ Words(<<x, y>>) = {x, y}
<1>1. DOMAIN <<x, y>> = {1, 2} /\ <<x, y>>[1] = x /\ <<x, y>>[2] = y OBVIOUS
<1>2. Words(<<x, y>>) = {x, y} BY <1>1, Zenon DEF Words
<1> QED BY <1>2

\* The words of a command of three words.
LEMMA Words3 ==
  ASSUME NEW x \in Lexicon, NEW y \in Lexicon, NEW z \in Lexicon
  PROVE  <<x, y, z>> \in Seq(Lexicon) /\ Words(<<x, y, z>>) = {x, y, z}
<1>1. DOMAIN <<x, y, z>> = {1, 2, 3} /\ <<x, y, z>>[1] = x /\ <<x, y, z>>[2] = y /\ <<x, y, z>>[3] = z OBVIOUS
<1>2. Words(<<x, y, z>>) = {x, y, z} BY <1>1, Zenon DEF Words
<1> QED BY <1>2

\* The words of a command of six.
LEMMA Words6 ==
  ASSUME NEW t \in Seq(Lexicon), Len(t) = 6
  PROVE  Words(t) = {t[1], t[2], t[3], t[4], t[5], t[6]}
<1>1. DOMAIN t = {1, 2, 3, 4, 5, 6}
  OBVIOUS
<1> QED BY <1>1, Zenon DEF Words

\* A command begins with its first part, and with what that begins with.
LEMMA ConcatPrefix ==
  ASSUME NEW a \in Seq(Lexicon), NEW b \in Seq(Lexicon)
  PROVE  Prefix(a, a \o b)
BY DEF Prefix

\* A beginning of a beginning is one.
LEMMA PrefixTrans ==
  ASSUME NEW a \in Seq(Lexicon), NEW b \in Seq(Lexicon), NEW c \in Seq(Lexicon), Prefix(a, b), Prefix(b, c)
  PROVE  Prefix(a, c)
BY DEF Prefix

\* And so is the first part of a beginning.
LEMMA LongerPrefix ==
  ASSUME NEW a \in Seq(Lexicon), NEW b \in Seq(Lexicon), NEW c \in Seq(Lexicon), Prefix(a \o b, c)
  PROVE  Prefix(a, c)
BY ConcatPrefix, PrefixTrans, ConcatWords

\* What a beginning of a command shows is what the command shows.
LEMMA FoundPrefix ==
  ASSUME NEW a \in Seq(Lexicon), NEW b \in Seq(Lexicon), Prefix(a, b), NEW w, NEW v, Found(a, w, v)
  PROVE  Found(b, w, v)
<1>1. PICK i \in 1 .. Len(a) : i < Len(a) /\ a[i] = w /\ a[i + 1] = v /\ \A j \in 1 .. Len(a) : j < i => a[j] # w
  BY DEF Found
<1>2. /\ i \in 1 .. Len(b) /\ i < Len(b) /\ b[i] = w /\ b[i + 1] = v
      /\ \A j \in 1 .. Len(b) : j < i => b[j] # w
  BY <1>1 DEF Prefix
<1> QED BY <1>2 DEF Found

\* Words that are not the option may precede it.
LEMMA FoundAfter ==
  ASSUME NEW a \in Seq(Lexicon), NEW b \in Seq(Lexicon), NEW w, NEW v, w \notin Words(a), Found(b, w, v)
  PROVE  Found(a \o b, w, v)
<1>1. PICK i \in 1 .. Len(b) : i < Len(b) /\ b[i] = w /\ b[i + 1] = v /\ \A j \in 1 .. Len(b) : j < i => b[j] # w
  BY DEF Found
<1>2. \A j \in 1 .. Len(a) : a[j] # w
  BY DEF Words
<1> DEFINE k == Len(a) + i
<1>3. /\ k \in 1 .. Len(a \o b) /\ k < Len(a \o b) /\ (a \o b)[k] = w /\ (a \o b)[k + 1] = v
  BY <1>1
<1>4. \A j \in 1 .. Len(a \o b) : j < k => (a \o b)[j] # w
  BY <1>1, <1>2
<1> HIDE DEF k
<1> QED BY <1>3, <1>4 DEF Found

\* option_value returns the value found first.
LEMMA FoundValue ==
  ASSUME NEW a \in Seq(Lexicon), NEW w, NEW v, Found(a, w, v)
  PROVE  option_value(a, w) = [raised |-> FALSE, value |-> <<v>>]
<1>1. PICK i \in 1 .. Len(a) : i < Len(a) /\ a[i] = w /\ a[i + 1] = v /\ \A j \in 1 .. Len(a) : j < i => a[j] # w
  BY DEF Found
<1> DEFINE at == {j \in DOMAIN a : a[j] = w}
<1>2. at \in SUBSET Nat /\ i \in at /\ (\A x \in at : i <= x)
  BY <1>1
<1>3. Min(at) = i BY <1>2, MinOf
<1>4. IndexOf(a, w) = i BY <1>2, <1>3 DEF IndexOf
<1>5. i # 0 /\ i # Len(a) /\ a[i + 1] = v BY <1>1
<1> QED BY <1>4, <1>5, Zenon DEF option_value

\* has_flag reads every word, the simulator's too.
LEMMA FlagFound ==
  ASSUME NEW a \in Seq(Lexicon), NEW w
  PROVE  has_flag(a, w) <=> w \in Words(a)
<1> DEFINE at == {j \in DOMAIN a : a[j] = w}
<1>1. CASE at = {}
  BY <1>1 DEF has_flag, IndexOf, Words
<1>2. CASE at # {}
  <2>1. at \in SUBSET Nat OBVIOUS
  <2>2. PICK m \in at : \A x \in at : m <= x
    BY <1>2, <2>1, LeastNat
  <2>3. Min(at) = m BY <2>1, <2>2, MinOf
  <2>4. IndexOf(a, w) = m /\ m # 0 BY <1>2, <2>3 DEF IndexOf
  <2> QED BY <2>4, <1>2 DEF has_flag, Words
<1> QED BY <1>1, <1>2

-----------------------------------------------------------------------------
(* The command _generation_args logs, as it grows.                         *)

\* The parts of the command, in order, and the command up to each.
Start(cfg) == <<"/sim", "-c", cfg.coverage, "-s", cfg.state, "generation">>
Cover(cfg) == Flag(cfg.reduce_cover, "--reduce-cover")
Choice(cfg) ==
  <<"--top-pass", cfg.top_pass, "--selection", cfg.selection, "--tracker-window-size", cfg.tracker_window_size>>
Source(resume) == IF resume THEN <<"--resume-corpus", "corpus">> ELSE <<"--input", "elf">>
Save(cfg) == IF cfg.save_corpus THEN <<"--save-corpus", "saved_corpus">> ELSE <<>>
Interval(cfg) == Given("--checkpoint-interval", cfg.checkpoint_interval)
Only(cfg) == Flag(cfg.gen_only, "--gen-only")
Mode(cfg) == <<"--metric", cfg.metric, ModeWord[cfg.mode]>>
ModeOptions(cfg) ==
  CASE cfg.mode = "psbfl" -> <<"--mutator-window-size", cfg.mutator_window_size>>
    [] cfg.mode = "withw" -> <<"--max-corpus-size", cfg.max_corpus_size>>
    [] cfg.mode = "random" -> <<>>
Trailing(cfg) == IF cfg.simulator_args = <<>> THEN <<>> ELSE <<"--">> \o cfg.simulator_args

Upto2(cfg) == Start(cfg) \o Cover(cfg)
Upto3(cfg) == Upto2(cfg) \o Choice(cfg)
Upto4(cfg, resume) == Upto3(cfg) \o Source(resume)
Upto5(cfg, resume) == Upto4(cfg, resume) \o Save(cfg)
Upto6(cfg, resume) == Upto5(cfg, resume) \o Interval(cfg)
Upto7(cfg, resume) == Upto6(cfg, resume) \o Only(cfg)
Upto8(cfg, resume) == Upto7(cfg, resume) \o Mode(cfg)
Upto9(cfg, resume) == Upto8(cfg, resume) \o ModeOptions(cfg)

\* The command is its parts, one after the other.
LEMMA InParts ==
  ASSUME NEW cfg, NEW resume
  PROVE  generation_args(cfg, resume) = Upto9(cfg, resume) \o Trailing(cfg)
BY Zenon DEF generation_args, Start, Cover, Choice, Source, Save, Interval, Only, Mode, ModeOptions, Trailing,
             Upto2, Upto3, Upto4, Upto5, Upto6, Upto7, Upto8, Upto9

\* The names of the modes and the words for them.
LEMMA ModeFacts ==
  /\ DOMAIN ModeWord = {"psbfl", "random", "withw"} /\ ModeWords = {"psbfl", "random", "wit-hw"}
  /\ ModeWord["psbfl"] = "psbfl" /\ ModeWord["random"] = "random" /\ ModeWord["withw"] = "wit-hw"
<1>1. /\ DOMAIN ModeWord = {"psbfl", "random", "withw"}
      /\ ModeWord["psbfl"] = "psbfl" /\ ModeWord["random"] = "random" /\ ModeWord["withw"] = "wit-hw"
  BY DEF ModeWord
<1>2. ModeWords = {"psbfl", "random", "wit-hw"}
  BY <1>1, Zenon DEF ModeWords
<1> QED BY <1>1, <1>2

\* What the words of a configuration are.
ConfigFacts(cfg) ==
  /\ cfg.mode \in {"psbfl", "random", "withw"} /\ cfg.coverage \in Value /\ cfg.state \in Value /\ cfg.top_pass \in Value
  /\ cfg.selection \in Value /\ cfg.tracker_window_size \in Value /\ cfg.metric \in Value
  /\ cfg.mutator_window_size \in Value \ ModeWords /\ cfg.max_corpus_size \in Value \ ModeWords
  /\ cfg.reduce_cover \in BOOLEAN /\ cfg.save_corpus \in BOOLEAN /\ cfg.gen_only \in BOOLEAN
  /\ cfg.simulator_args \in Seq(Lexicon) /\ Words(cfg.simulator_args) \subseteq Lexicon \ {"--reduce-cover", "--gen-only"}
  /\ cfg.checkpoint_interval # <<>> => cfg.checkpoint_interval[1] \in Value

\* Every configuration has such words.
LEMMA ConfigHas ==
  ASSUME NEW cfg \in Config
  PROVE  ConfigFacts(cfg)
<1>1. DOMAIN Numbers \subseteq Value \ ModeWords
  BY NumbersAssumption
<1>2. /\ cfg.mode \in DOMAIN ModeWord /\ cfg.coverage \in Value /\ cfg.state \in Value /\ cfg.top_pass \in Number
      /\ cfg.selection \in Value /\ cfg.tracker_window_size \in Number /\ cfg.metric \in Value
      /\ cfg.mutator_window_size \in Number /\ cfg.max_corpus_size \in Number
      /\ cfg.reduce_cover \in BOOLEAN /\ cfg.save_corpus \in BOOLEAN /\ cfg.gen_only \in BOOLEAN
      /\ cfg.simulator_args \in SimulatorArgs /\ cfg.checkpoint_interval \in Optional(Number)
  BY DEF Config
<1>3. cfg.checkpoint_interval # <<>> => cfg.checkpoint_interval[1] \in Number
  BY <1>2 DEF Optional
<1>4. /\ cfg.simulator_args \in Seq(Lexicon)
      /\ Words(cfg.simulator_args) \subseteq Lexicon \ {"--reduce-cover", "--gen-only"}
  BY <1>2 DEF SimulatorArgs, Words
<1> QED BY <1>1, <1>2, <1>3, <1>4, ModeFacts, Zenon DEF ConfigFacts, Number

\* The words of each part.
PartWords(cfg, resume) ==
  /\ Start(cfg) \in Seq(Lexicon) /\ Words(Start(cfg)) = {"/sim", "-c", cfg.coverage, "-s", cfg.state, "generation"}
  /\ Cover(cfg) \in Seq(Lexicon) /\ Words(Cover(cfg)) = IF cfg.reduce_cover THEN {"--reduce-cover"} ELSE {}
  /\ Choice(cfg) \in Seq(Lexicon)
  /\ Words(Choice(cfg)) = {"--top-pass", cfg.top_pass, "--selection", cfg.selection,
                           "--tracker-window-size", cfg.tracker_window_size}
  /\ Source(resume) \in Seq(Lexicon) /\ Words(Source(resume)) \subseteq {"--resume-corpus", "corpus", "--input", "elf"}
  /\ Save(cfg) \in Seq(Lexicon) /\ Words(Save(cfg)) \subseteq {"--save-corpus", "saved_corpus"}
  /\ Interval(cfg) \in Seq(Lexicon) /\ Words(Interval(cfg)) \subseteq Value \union {"--checkpoint-interval"}
  /\ Only(cfg) \in Seq(Lexicon) /\ Words(Only(cfg)) = IF cfg.gen_only THEN {"--gen-only"} ELSE {}
  /\ Mode(cfg) \in Seq(Lexicon) /\ Words(Mode(cfg)) = {"--metric", cfg.metric, ModeWord[cfg.mode]}
  /\ ModeOptions(cfg) \in Seq(Lexicon)
  /\ Words(ModeOptions(cfg)) \subseteq (Value \ ModeWords) \union {"--mutator-window-size", "--max-corpus-size"}
  /\ Trailing(cfg) \in Seq(Lexicon) /\ Words(Trailing(cfg)) \subseteq Lexicon \ {"--reduce-cover", "--gen-only"}

\* Each part has those words.
LEMMA Parts ==
  ASSUME NEW cfg, ConfigFacts(cfg), NEW resume \in BOOLEAN
  PROVE  PartWords(cfg, resume)
<1> USE DEF ConfigFacts
<1>v. Value \subseteq Lexicon BY DEF Value
<1>w. /\ {"-c", "-s", "generation", "--", "--reduce-cover", "--top-pass", "--selection", "--tracker-window-size",
          "--checkpoint-interval", "--gen-only", "--metric", "--mutator-window-size", "--max-corpus-size",
          "/sim", "--input", "elf", "corpus", "--resume-corpus", "--save-corpus", "saved_corpus"} \subseteq Lexicon
      /\ ModeWords \subseteq Lexicon
  BY NumbersAssumption DEF Options, OtherWords
<1>1. /\ Start(cfg) \in Seq(Lexicon)
      /\ Words(Start(cfg)) = {"/sim", "-c", cfg.coverage, "-s", cfg.state, "generation"}
  <2>1. /\ "/sim" \in Lexicon /\ "-c" \in Lexicon /\ cfg.coverage \in Lexicon /\ "-s" \in Lexicon
        /\ cfg.state \in Lexicon /\ "generation" \in Lexicon
    BY <1>v, <1>w
  <2> DEFINE t == Start(cfg)
  <2>2. /\ t \in Seq(Lexicon) /\ Len(t) = 6
        /\ t[1] = "/sim" /\ t[2] = "-c" /\ t[3] = cfg.coverage /\ t[4] = "-s" /\ t[5] = cfg.state /\ t[6] = "generation"
    BY <2>1 DEF Start
  <2> HIDE DEF t
  <2>3. Words(t) = {t[1], t[2], t[3], t[4], t[5], t[6]} BY <2>2, Words6
  <2> QED BY <2>2, <2>3, Zenon DEF t
<1>2. Cover(cfg) \in Seq(Lexicon) /\ Words(Cover(cfg)) = IF cfg.reduce_cover THEN {"--reduce-cover"} ELSE {}
  BY <1>w, Words0, Words1 DEF Cover, Flag
<1>3. /\ Choice(cfg) \in Seq(Lexicon)
      /\ Words(Choice(cfg)) = {"--top-pass", cfg.top_pass, "--selection", cfg.selection,
                               "--tracker-window-size", cfg.tracker_window_size}
  <2>1. /\ "--top-pass" \in Lexicon /\ cfg.top_pass \in Lexicon /\ "--selection" \in Lexicon
        /\ cfg.selection \in Lexicon /\ "--tracker-window-size" \in Lexicon /\ cfg.tracker_window_size \in Lexicon
    BY <1>v, <1>w
  <2> DEFINE t == Choice(cfg)
  <2>2. /\ t \in Seq(Lexicon) /\ Len(t) = 6
        /\ t[1] = "--top-pass" /\ t[2] = cfg.top_pass /\ t[3] = "--selection" /\ t[4] = cfg.selection
        /\ t[5] = "--tracker-window-size" /\ t[6] = cfg.tracker_window_size
    BY <2>1 DEF Choice
  <2> HIDE DEF t
  <2>3. Words(t) = {t[1], t[2], t[3], t[4], t[5], t[6]} BY <2>2, Words6
  <2> QED BY <2>2, <2>3, Zenon DEF t
<1>4. Source(resume) \in Seq(Lexicon) /\ Words(Source(resume)) \subseteq {"--resume-corpus", "corpus", "--input", "elf"}
  <2>1. CASE resume BY <2>1, <1>w, Words2 DEF Source
  <2>2. CASE ~resume BY <2>2, <1>w, Words2 DEF Source
  <2> QED BY <2>1, <2>2
<1>5. Save(cfg) \in Seq(Lexicon) /\ Words(Save(cfg)) \subseteq {"--save-corpus", "saved_corpus"}
  <2>1. CASE cfg.save_corpus BY <2>1, <1>w, Words2 DEF Save
  <2>2. CASE ~cfg.save_corpus BY <2>2, Words0 DEF Save
  <2> QED BY <2>1, <2>2
<1>6. Interval(cfg) \in Seq(Lexicon) /\ Words(Interval(cfg)) \subseteq Value \union {"--checkpoint-interval"}
  <2>1. CASE cfg.checkpoint_interval # <<>>
    <3>1. cfg.checkpoint_interval[1] \in Value BY <2>1
    <3> QED BY <2>1, <3>1, <1>v, <1>w, Words2 DEF Interval, Given
  <2>2. CASE cfg.checkpoint_interval = <<>> BY <2>2, Words0 DEF Interval, Given
  <2> QED BY <2>1, <2>2
<1>7. Only(cfg) \in Seq(Lexicon) /\ Words(Only(cfg)) = IF cfg.gen_only THEN {"--gen-only"} ELSE {}
  BY <1>w, Words0, Words1 DEF Only, Flag
<1>8. Mode(cfg) \in Seq(Lexicon) /\ Words(Mode(cfg)) = {"--metric", cfg.metric, ModeWord[cfg.mode]}
  <2>1. ModeWord[cfg.mode] \in Lexicon BY ModeFacts, <1>w
  <2> QED BY <1>v, <1>w, <2>1, Words3 DEF Mode
<1>9. /\ ModeOptions(cfg) \in Seq(Lexicon)
      /\ Words(ModeOptions(cfg)) \subseteq (Value \ ModeWords) \union {"--mutator-window-size", "--max-corpus-size"}
  <2>1. CASE cfg.mode = "psbfl"
    <3>1. ModeOptions(cfg) = <<"--mutator-window-size", cfg.mutator_window_size>> BY <2>1 DEF ModeOptions
    <3> QED BY <3>1, <1>v, <1>w, Words2
  <2>2. CASE cfg.mode = "withw"
    <3>1. ModeOptions(cfg) = <<"--max-corpus-size", cfg.max_corpus_size>> BY <2>2 DEF ModeOptions
    <3> QED BY <3>1, <1>v, <1>w, Words2
  <2>3. CASE cfg.mode = "random"
    <3>1. ModeOptions(cfg) = <<>> BY <2>3 DEF ModeOptions
    <3> QED BY <3>1, Words0
  <2> QED BY <2>1, <2>2, <2>3
<1>10. Trailing(cfg) \in Seq(Lexicon) /\ Words(Trailing(cfg)) \subseteq Lexicon \ {"--reduce-cover", "--gen-only"}
  <2>1. <<"--">> \in Seq(Lexicon) /\ Words(<<"--">>) = {"--"} BY <1>w, Words1
  <2> DEFINE b == cfg.simulator_args
  <2>2. b \in Seq(Lexicon) /\ Words(b) \subseteq Lexicon \ {"--reduce-cover", "--gen-only"} OBVIOUS
  <2> HIDE DEF b
  <2>3. <<"--">> \o b \in Seq(Lexicon) /\ Words(<<"--">> \o b) = {"--"} \union Words(b)
    BY <2>1, <2>2, ConcatWords
  <2>4. {"--"} \union Words(b) \subseteq Lexicon \ {"--reduce-cover", "--gen-only"}
    BY <2>2, <1>w
  <2>5. Trailing(cfg) = <<>> \/ Trailing(cfg) = <<"--">> \o b BY DEF Trailing, b
  <2> QED BY <2>3, <2>4, <2>5, Words0
<1> QED BY <1>1, <1>2, <1>3, <1>4, <1>5, <1>6, <1>7, <1>8, <1>9, <1>10, Zenon DEF PartWords

\* The words so far.
Growing(cfg, resume) ==
  /\ {Start(cfg), Upto2(cfg), Upto3(cfg), Upto4(cfg, resume), Upto5(cfg, resume), Upto6(cfg, resume), Upto7(cfg, resume),
      Upto8(cfg, resume), Upto9(cfg, resume), generation_args(cfg, resume)} \subseteq Seq(Lexicon)
  /\ Words(Upto2(cfg)) = Words(Start(cfg)) \union Words(Cover(cfg))
  /\ Words(Upto3(cfg)) = Words(Upto2(cfg)) \union Words(Choice(cfg))
  /\ Words(Upto4(cfg, resume)) = Words(Upto3(cfg)) \union Words(Source(resume))
  /\ Words(Upto5(cfg, resume)) = Words(Upto4(cfg, resume)) \union Words(Save(cfg))
  /\ Words(Upto6(cfg, resume)) = Words(Upto5(cfg, resume)) \union Words(Interval(cfg))
  /\ Words(Upto7(cfg, resume)) = Words(Upto6(cfg, resume)) \union Words(Only(cfg))
  /\ Words(Upto8(cfg, resume)) = Words(Upto7(cfg, resume)) \union Words(Mode(cfg))
  /\ Words(Upto9(cfg, resume)) = Words(Upto8(cfg, resume)) \union Words(ModeOptions(cfg))
  /\ Words(generation_args(cfg, resume)) = Words(Upto9(cfg, resume)) \union Words(Trailing(cfg))

\* The words up to each part are those of the parts.
LEMMA Grown ==
  ASSUME NEW cfg, ConfigFacts(cfg), NEW resume \in BOOLEAN
  PROVE  Growing(cfg, resume)
<1>0. PartWords(cfg, resume) BY Parts
<1>1. Start(cfg) \in Seq(Lexicon) BY <1>0 DEF PartWords
<1>2. Upto2(cfg) \in Seq(Lexicon) /\ Words(Upto2(cfg)) = Words(Start(cfg)) \union Words(Cover(cfg))
  BY <1>0, <1>1, ConcatWords, Zenon DEF PartWords, Upto2
<1>3. Upto3(cfg) \in Seq(Lexicon) /\ Words(Upto3(cfg)) = Words(Upto2(cfg)) \union Words(Choice(cfg))
  BY <1>0, <1>2, ConcatWords, Zenon DEF PartWords, Upto3
<1>4. Upto4(cfg, resume) \in Seq(Lexicon) /\ Words(Upto4(cfg, resume)) = Words(Upto3(cfg)) \union Words(Source(resume))
  BY <1>0, <1>3, ConcatWords, Zenon DEF PartWords, Upto4
<1>5. Upto5(cfg, resume) \in Seq(Lexicon) /\ Words(Upto5(cfg, resume)) = Words(Upto4(cfg, resume)) \union Words(Save(cfg))
  BY <1>0, <1>4, ConcatWords, Zenon DEF PartWords, Upto5
<1>6. /\ Upto6(cfg, resume) \in Seq(Lexicon)
      /\ Words(Upto6(cfg, resume)) = Words(Upto5(cfg, resume)) \union Words(Interval(cfg))
  BY <1>0, <1>5, ConcatWords, Zenon DEF PartWords, Upto6
<1>7. Upto7(cfg, resume) \in Seq(Lexicon) /\ Words(Upto7(cfg, resume)) = Words(Upto6(cfg, resume)) \union Words(Only(cfg))
  BY <1>0, <1>6, ConcatWords, Zenon DEF PartWords, Upto7
<1>8. Upto8(cfg, resume) \in Seq(Lexicon) /\ Words(Upto8(cfg, resume)) = Words(Upto7(cfg, resume)) \union Words(Mode(cfg))
  BY <1>0, <1>7, ConcatWords, Zenon DEF PartWords, Upto8
<1>9. /\ Upto9(cfg, resume) \in Seq(Lexicon)
      /\ Words(Upto9(cfg, resume)) = Words(Upto8(cfg, resume)) \union Words(ModeOptions(cfg))
  BY <1>0, <1>8, ConcatWords, Zenon DEF PartWords, Upto9
<1>10. /\ generation_args(cfg, resume) \in Seq(Lexicon)
       /\ Words(generation_args(cfg, resume)) = Words(Upto9(cfg, resume)) \union Words(Trailing(cfg))
  BY <1>0, <1>9, ConcatWords, InParts, Zenon DEF PartWords
<1> QED BY <1>1, <1>2, <1>3, <1>4, <1>5, <1>6, <1>7, <1>8, <1>9, <1>10, Zenon DEF Growing

\* The beginnings of the command that hold the options read back.
Leads(cfg, resume) ==
  /\ Prefix(Start(cfg), generation_args(cfg, resume)) /\ Prefix(Upto3(cfg), generation_args(cfg, resume))
  /\ Prefix(Upto8(cfg, resume), generation_args(cfg, resume)) /\ Prefix(Upto9(cfg, resume), generation_args(cfg, resume))

\* The command begins so.
LEMMA Prefixed ==
  ASSUME NEW cfg, ConfigFacts(cfg), NEW resume \in BOOLEAN
  PROVE  Leads(cfg, resume)
<1>0. PartWords(cfg, resume) /\ Growing(cfg, resume) BY Parts, Grown
<1> DEFINE a == generation_args(cfg, resume)
<1>a. a \in Seq(Lexicon) BY <1>0 DEF Growing
<1>9. Prefix(Upto9(cfg, resume), a)
  BY <1>0, ConcatPrefix, InParts, Zenon DEF Growing, PartWords
<1> HIDE DEF a
<1>q. /\ Start(cfg) \in Seq(Lexicon)
      /\ Upto2(cfg) \in Seq(Lexicon)
      /\ Upto3(cfg) \in Seq(Lexicon)
      /\ Upto4(cfg, resume) \in Seq(Lexicon)
      /\ Upto5(cfg, resume) \in Seq(Lexicon)
      /\ Upto6(cfg, resume) \in Seq(Lexicon)
      /\ Upto7(cfg, resume) \in Seq(Lexicon)
      /\ Upto8(cfg, resume) \in Seq(Lexicon)
      /\ Upto9(cfg, resume) \in Seq(Lexicon)
      /\ Cover(cfg) \in Seq(Lexicon)
      /\ Choice(cfg) \in Seq(Lexicon)
      /\ Source(resume) \in Seq(Lexicon)
      /\ Save(cfg) \in Seq(Lexicon)
      /\ Interval(cfg) \in Seq(Lexicon)
      /\ Only(cfg) \in Seq(Lexicon)
      /\ Mode(cfg) \in Seq(Lexicon)
      /\ ModeOptions(cfg) \in Seq(Lexicon)
  BY <1>0, Zenon DEF Growing, PartWords
<1>8. Prefix(Upto8(cfg, resume), a)
  BY <1>a, <1>q, <1>9, LongerPrefix, Zenon DEF Upto9
<1>7. Prefix(Upto7(cfg, resume), a)
  BY <1>a, <1>q, <1>8, LongerPrefix, Zenon DEF Upto8
<1>6. Prefix(Upto6(cfg, resume), a)
  BY <1>a, <1>q, <1>7, LongerPrefix, Zenon DEF Upto7
<1>5. Prefix(Upto5(cfg, resume), a)
  BY <1>a, <1>q, <1>6, LongerPrefix, Zenon DEF Upto6
<1>4. Prefix(Upto4(cfg, resume), a)
  BY <1>a, <1>q, <1>5, LongerPrefix, Zenon DEF Upto5
<1>3. Prefix(Upto3(cfg), a)
  BY <1>a, <1>q, <1>4, LongerPrefix, Zenon DEF Upto4
<1>2. Prefix(Upto2(cfg), a)
  BY <1>a, <1>q, <1>3, LongerPrefix, Zenon DEF Upto3
<1>1. Prefix(Start(cfg), a)
  BY <1>a, <1>q, <1>2, LongerPrefix, Zenon DEF Upto2
<1> QED BY <1>1, <1>3, <1>8, <1>9 DEF Leads, a

\* The words before the mode's options, and before the simulator's arguments.
LEMMA EarlyWords ==
  ASSUME NEW cfg, ConfigFacts(cfg), NEW resume \in BOOLEAN
  PROVE  /\ Words(Upto2(cfg)) \subseteq Value \union {"-c", "-s", "generation", "--reduce-cover"}
         /\ Words(Upto7(cfg, resume)) \subseteq Value \union {"-c", "-s", "generation", "--reduce-cover", "--top-pass",
                   "--selection", "--tracker-window-size", "--checkpoint-interval", "--gen-only"}
         /\ Words(Upto8(cfg, resume)) \subseteq Value \union {"-c", "-s", "generation", "--reduce-cover", "--top-pass",
                   "--selection", "--tracker-window-size", "--checkpoint-interval", "--gen-only", "--metric"}
<1>0. PartWords(cfg, resume) /\ Growing(cfg, resume) BY Parts, Grown
<1>1. {"/sim", "--input", "elf", "corpus", "--resume-corpus", "--save-corpus", "saved_corpus"} \subseteq Value
  BY NumbersAssumption DEF Options, OtherWords, Value
<1>2. ModeWord[cfg.mode] \in Value
  BY NumbersAssumption, ModeFacts DEF Options, OtherWords, Value, ConfigFacts
<1> DEFINE Early == Value \union {"-c", "-s", "generation", "--reduce-cover"}
           Middle == Early \union {"--top-pass", "--selection", "--tracker-window-size"}
           Late == Middle \union {"--checkpoint-interval", "--gen-only"}
<1>3. Words(Start(cfg)) \subseteq Early /\ Words(Cover(cfg)) \subseteq Early
  BY <1>0, <1>1 DEF PartWords, ConfigFacts
<1>4. Words(Upto2(cfg)) \subseteq Early
  BY <1>0, <1>3, Zenon DEF Growing
<1>5. Words(Choice(cfg)) \subseteq Middle
  BY <1>0 DEF PartWords, ConfigFacts
<1>6. Words(Upto3(cfg)) \subseteq Middle
  BY <1>0, <1>4, <1>5, Zenon DEF Growing
<1>7. Words(Source(resume)) \subseteq Value /\ Words(Save(cfg)) \subseteq Value
  <2>1. /\ Words(Source(resume)) \subseteq {"--resume-corpus", "corpus", "--input", "elf"}
        /\ Words(Save(cfg)) \subseteq {"--save-corpus", "saved_corpus"}
    BY <1>0, Zenon DEF PartWords
  <2>2. {"--resume-corpus", "corpus", "--input", "elf"} \subseteq Value /\ {"--save-corpus", "saved_corpus"} \subseteq Value
    BY <1>1
  <2> QED BY <2>1, <2>2, Zenon
<1>8. Words(Upto5(cfg, resume)) \subseteq Middle
  BY <1>0, <1>6, <1>7, Zenon DEF Growing
<1>9. Words(Interval(cfg)) \subseteq Late /\ Words(Only(cfg)) \subseteq Late
  BY <1>0 DEF PartWords
<1>10. Words(Upto7(cfg, resume)) \subseteq Late
  BY <1>0, <1>8, <1>9, Zenon DEF Growing
<1>11. Words(Mode(cfg)) \subseteq Late \union {"--metric"}
  BY <1>0, <1>2 DEF PartWords, ConfigFacts
<1>12. Words(Upto8(cfg, resume)) \subseteq Late \union {"--metric"}
  BY <1>0, <1>10, <1>11, Zenon DEF Growing
<1> QED BY <1>4, <1>10, <1>12

\* What logparse finds in the command of a configuration.
ReadBack(cfg, argv) ==
  /\ Found(argv, "-c", cfg.coverage) /\ Found(argv, "-s", cfg.state) /\ Found(argv, "--top-pass", cfg.top_pass)
  /\ Found(argv, "--selection", cfg.selection) /\ Found(argv, "--tracker-window-size", cfg.tracker_window_size)
  /\ Found(argv, "--metric", cfg.metric)
  /\ cfg.mode = "psbfl" => Found(argv, "--mutator-window-size", cfg.mutator_window_size)
  /\ cfg.mode = "withw" => Found(argv, "--max-corpus-size", cfg.max_corpus_size)
  /\ has_flag(argv, "--reduce-cover") <=> cfg.reduce_cover
  /\ has_flag(argv, "--gen-only") <=> cfg.gen_only

\* Each option is found first where _generation_args put it: the simulator's
\* arguments come after, and no value is an option's name.
LEMMA ReadsBack ==
  ASSUME NEW cfg, ConfigFacts(cfg), NEW resume \in BOOLEAN
  PROVE  ReadBack(cfg, generation_args(cfg, resume))
<1>0. PartWords(cfg, resume) /\ Growing(cfg, resume) /\ Leads(cfg, resume) BY Parts, Grown, Prefixed
<1>v. \A x \in Value : x \notin Options BY DEF Value
<1> DEFINE a == generation_args(cfg, resume)
<1>a. a \in Seq(Lexicon) BY <1>0 DEF Growing
<1>p. /\ Prefix(Start(cfg), a) /\ Prefix(Upto3(cfg), a) /\ Prefix(Upto8(cfg, resume), a) /\ Prefix(Upto9(cfg, resume), a)
      /\ Start(cfg) \in Seq(Lexicon) /\ Upto2(cfg) \in Seq(Lexicon) /\ Upto3(cfg) \in Seq(Lexicon)
      /\ Upto7(cfg, resume) \in Seq(Lexicon)
      /\ Upto8(cfg, resume) \in Seq(Lexicon) /\ Upto9(cfg, resume) \in Seq(Lexicon)
      /\ Choice(cfg) \in Seq(Lexicon) /\ Mode(cfg) \in Seq(Lexicon) /\ ModeOptions(cfg) \in Seq(Lexicon)
  BY <1>0, Zenon DEF Growing, Leads, PartWords
<1>w. Words(a) = Words(Upto9(cfg, resume)) \union Words(Trailing(cfg)) BY <1>0, Zenon DEF Growing
<1> HIDE DEF a
<1>1. Found(Start(cfg), "-c", cfg.coverage) /\ Found(Start(cfg), "-s", cfg.state)
  <2> DEFINE t == Start(cfg)
  <2>1. Len(t) = 6 /\ t[1] = "/sim" /\ t[2] = "-c" /\ t[3] = cfg.coverage /\ t[4] = "-s" /\ t[5] = cfg.state
    BY DEF Start
  <2>2. cfg.coverage # "-s"
    BY <1>v DEF ConfigFacts, Options
  <2> HIDE DEF t
  <2> QED BY <2>1, <2>2 DEF Found, t
<1>2. Found(a, "-c", cfg.coverage) /\ Found(a, "-s", cfg.state)
  BY <1>1, <1>a, <1>p, FoundPrefix, Zenon
<1>3. /\ Found(Choice(cfg), "--top-pass", cfg.top_pass) /\ Found(Choice(cfg), "--selection", cfg.selection)
      /\ Found(Choice(cfg), "--tracker-window-size", cfg.tracker_window_size)
  <2> DEFINE t == Choice(cfg)
  <2>1. /\ Len(t) = 6 /\ t[1] = "--top-pass" /\ t[2] = cfg.top_pass /\ t[3] = "--selection" /\ t[4] = cfg.selection
        /\ t[5] = "--tracker-window-size" /\ t[6] = cfg.tracker_window_size
    BY DEF Choice
  <2>2. /\ cfg.top_pass # "--selection" /\ cfg.top_pass # "--tracker-window-size"
        /\ cfg.selection # "--tracker-window-size"
    BY <1>v DEF ConfigFacts, Options
  <2> HIDE DEF t
  <2> QED BY <2>1, <2>2 DEF Found, t
<1>4. /\ "--top-pass" \notin Words(Upto2(cfg)) /\ "--selection" \notin Words(Upto2(cfg))
      /\ "--tracker-window-size" \notin Words(Upto2(cfg))
      /\ "--metric" \notin Words(Upto7(cfg, resume))
      /\ "--mutator-window-size" \notin Words(Upto8(cfg, resume))
      /\ "--max-corpus-size" \notin Words(Upto8(cfg, resume))
  BY EarlyWords, <1>v DEF Options
<1>5. /\ Found(Upto3(cfg), "--top-pass", cfg.top_pass) /\ Found(Upto3(cfg), "--selection", cfg.selection)
      /\ Found(Upto3(cfg), "--tracker-window-size", cfg.tracker_window_size)
  BY <1>3, <1>4, <1>p, FoundAfter, Zenon DEF Upto3
<1>6. /\ Found(a, "--top-pass", cfg.top_pass) /\ Found(a, "--selection", cfg.selection)
      /\ Found(a, "--tracker-window-size", cfg.tracker_window_size)
  BY <1>5, <1>a, <1>p, FoundPrefix, Zenon
<1>7. Found(a, "--metric", cfg.metric)
  <2> DEFINE t == Mode(cfg)
  <2>1. Len(t) = 3 /\ t[1] = "--metric" /\ t[2] = cfg.metric
    BY DEF Mode
  <2> HIDE DEF t
  <2>2. Found(t, "--metric", cfg.metric) BY <2>1 DEF Found
  <2>3. Found(Upto8(cfg, resume), "--metric", cfg.metric)
    BY <2>2, <1>4, <1>p, FoundAfter, Zenon DEF Upto8, t
  <2> QED BY <2>3, <1>a, <1>p, FoundPrefix, Zenon
<1>8. ASSUME cfg.mode = "psbfl" PROVE Found(a, "--mutator-window-size", cfg.mutator_window_size)
  <2> DEFINE t == ModeOptions(cfg)
  <2>1. Len(t) = 2 /\ t[1] = "--mutator-window-size" /\ t[2] = cfg.mutator_window_size
    BY <1>8 DEF ModeOptions
  <2> HIDE DEF t
  <2>2. Found(t, "--mutator-window-size", cfg.mutator_window_size) BY <2>1 DEF Found
  <2>3. Found(Upto9(cfg, resume), "--mutator-window-size", cfg.mutator_window_size)
    BY <2>2, <1>4, <1>p, FoundAfter, Zenon DEF Upto9, t
  <2> QED BY <2>3, <1>a, <1>p, FoundPrefix, Zenon
<1>9. ASSUME cfg.mode = "withw" PROVE Found(a, "--max-corpus-size", cfg.max_corpus_size)
  <2> DEFINE t == ModeOptions(cfg)
  <2>1. Len(t) = 2 /\ t[1] = "--max-corpus-size" /\ t[2] = cfg.max_corpus_size
    BY <1>9 DEF ModeOptions
  <2> HIDE DEF t
  <2>2. Found(t, "--max-corpus-size", cfg.max_corpus_size) BY <2>1 DEF Found
  <2>3. Found(Upto9(cfg, resume), "--max-corpus-size", cfg.max_corpus_size)
    BY <2>2, <1>4, <1>p, FoundAfter, Zenon DEF Upto9, t
  <2> QED BY <2>3, <1>a, <1>p, FoundPrefix, Zenon
<1>10. "--reduce-cover" \in Words(a) <=> cfg.reduce_cover
  <2>1. CASE cfg.reduce_cover
    BY <2>1, <1>0, <1>w DEF PartWords, Growing
  <2>2. CASE ~cfg.reduce_cover
    <3> DEFINE f == "--reduce-cover"
    <3>1. f \notin Value /\ ModeWord[cfg.mode] # f BY <1>v, ModeFacts DEF Options, ConfigFacts
    <3>2. /\ cfg.coverage # f /\ cfg.state # f /\ cfg.top_pass # f /\ cfg.selection # f /\ cfg.metric # f
          /\ cfg.tracker_window_size # f
      BY <3>1 DEF ConfigFacts
    <3>3. /\ f \notin Words(Start(cfg)) /\ f \notin Words(Cover(cfg)) /\ f \notin Words(Choice(cfg))
          /\ f \notin Words(Source(resume)) /\ f \notin Words(Save(cfg)) /\ f \notin Words(Interval(cfg))
          /\ f \notin Words(Only(cfg)) /\ f \notin Words(Mode(cfg)) /\ f \notin Words(ModeOptions(cfg))
          /\ f \notin Words(Trailing(cfg))
      <4>1. f \notin Words(Start(cfg)) BY <3>2, <1>0 DEF PartWords
      <4>2. f \notin Words(Cover(cfg)) /\ f \notin Words(Only(cfg)) BY <2>2, <1>0 DEF PartWords
      <4>3. f \notin Words(Choice(cfg)) BY <3>2, <1>0 DEF PartWords
      <4>4. f \notin Words(Source(resume)) /\ f \notin Words(Save(cfg)) BY <1>0 DEF PartWords
      <4>5. f \notin Words(Interval(cfg)) /\ f \notin Words(ModeOptions(cfg)) BY <3>1, <1>0 DEF PartWords
      <4>6. f \notin Words(Mode(cfg)) BY <3>1, <3>2, <1>0 DEF PartWords
      <4>7. f \notin Words(Trailing(cfg)) BY <1>0 DEF PartWords
      <4> QED BY <4>1, <4>2, <4>3, <4>4, <4>5, <4>6, <4>7
    <3> HIDE DEF f
    <3>4. f \notin Words(a)
      BY <3>3, <1>0, <1>w, Zenon DEF Growing
    <3> QED BY <3>4, <2>2 DEF f
  <2> QED BY <2>1, <2>2
<1>11. "--gen-only" \in Words(a) <=> cfg.gen_only
  <2>1. CASE cfg.gen_only
    BY <2>1, <1>0, <1>w DEF PartWords, Growing
  <2>2. CASE ~cfg.gen_only
    <3> DEFINE f == "--gen-only"
    <3>1. f \notin Value /\ ModeWord[cfg.mode] # f BY <1>v, ModeFacts DEF Options, ConfigFacts
    <3>2. /\ cfg.coverage # f /\ cfg.state # f /\ cfg.top_pass # f /\ cfg.selection # f /\ cfg.metric # f
          /\ cfg.tracker_window_size # f
      BY <3>1 DEF ConfigFacts
    <3>3. /\ f \notin Words(Start(cfg)) /\ f \notin Words(Cover(cfg)) /\ f \notin Words(Choice(cfg))
          /\ f \notin Words(Source(resume)) /\ f \notin Words(Save(cfg)) /\ f \notin Words(Interval(cfg))
          /\ f \notin Words(Only(cfg)) /\ f \notin Words(Mode(cfg)) /\ f \notin Words(ModeOptions(cfg))
          /\ f \notin Words(Trailing(cfg))
      <4>1. f \notin Words(Start(cfg)) BY <3>2, <1>0 DEF PartWords
      <4>2. f \notin Words(Cover(cfg)) /\ f \notin Words(Only(cfg)) BY <2>2, <1>0 DEF PartWords
      <4>3. f \notin Words(Choice(cfg)) BY <3>2, <1>0 DEF PartWords
      <4>4. f \notin Words(Source(resume)) /\ f \notin Words(Save(cfg)) BY <1>0 DEF PartWords
      <4>5. f \notin Words(Interval(cfg)) /\ f \notin Words(ModeOptions(cfg)) BY <3>1, <1>0 DEF PartWords
      <4>6. f \notin Words(Mode(cfg)) BY <3>1, <3>2, <1>0 DEF PartWords
      <4>7. f \notin Words(Trailing(cfg)) BY <1>0 DEF PartWords
      <4> QED BY <4>1, <4>2, <4>3, <4>4, <4>5, <4>6, <4>7
    <3> HIDE DEF f
    <3>4. f \notin Words(a)
      BY <3>3, <1>0, <1>w, Zenon DEF Growing
    <3> QED BY <3>4, <2>2 DEF f
  <2> QED BY <2>1, <2>2
<1>12. /\ has_flag(a, "--reduce-cover") <=> cfg.reduce_cover
       /\ has_flag(a, "--gen-only") <=> cfg.gen_only
  BY <1>10, <1>11, <1>a, FlagFound, Zenon
<1> QED BY <1>2, <1>6, <1>7, <1>8, <1>9, <1>12, Zenon DEF ReadBack, a

\* option_value finds nothing, a missing value, or a word.
LEMMA OptionTyped ==
  ASSUME NEW a \in Seq(Lexicon), NEW w
  PROVE  \/ option_value(a, w) = [raised |-> FALSE, value |-> <<>>]
         \/ option_value(a, w) = [raised |-> TRUE, value |-> <<>>]
         \/ \E x \in Lexicon : option_value(a, w) = [raised |-> FALSE, value |-> <<x>>]
<1> DEFINE at == {j \in DOMAIN a : a[j] = w}
<1>1. CASE at = {}
  <2>1. IndexOf(a, w) = 0 BY <1>1 DEF IndexOf
  <2> QED BY <2>1, Zenon DEF option_value
<1>2. CASE at # {}
  <2>1. at \in SUBSET Nat OBVIOUS
  <2>2. PICK m \in at : \A x \in at : m <= x
    BY <1>2, <2>1, LeastNat
  <2>3. Min(at) = m BY <2>1, <2>2, MinOf
  <2>4. IndexOf(a, w) = m BY <1>2, <2>3 DEF IndexOf
  <2>5. m \in 1 .. Len(a) /\ m # 0 OBVIOUS
  <2>6. CASE m = Len(a) BY <2>4, <2>5, <2>6, Zenon DEF option_value
  <2>7. CASE m # Len(a)
    <3>1. a[m + 1] \in Lexicon BY <2>5, <2>7
    <3> QED BY <2>4, <2>5, <2>7, <3>1, Zenon DEF option_value
  <2> QED BY <2>6, <2>7
<1> QED BY <1>1, <1>2

\* The end of two sequences, one after the other.
LEMMA ConcatEnd ==
  ASSUME NEW x \in Seq(Lexicon), NEW y \in Seq(Lexicon)
  PROVE  Len(x \o y) = Len(x) + Len(y) /\ \A i \in 1 .. Len(y) : (x \o y)[Len(x) + i] = y[i]
OBVIOUS

\* generation_mode, once it knows where the word generation is.
ModeFrom(argv, first) ==
  LET ends == {i \in DOMAIN argv : i > first /\ argv[i] = "--"}
      end == IF ends = {} THEN Len(argv) ELSE Min(ends) - 1
      modes == {i \in first + 1 .. end : argv[i] \in ModeWords}
  IN  IF first = 0 \/ modes = {} THEN <<>>
      ELSE <<CHOOSE m \in DOMAIN ModeWord : ModeWord[m] = argv[Max(modes)]>>

\* The mode read is the last one before -- or the end.
LEMMA ModeAt ==
  ASSUME NEW a \in Seq(Lexicon), NEW m \in Nat, NEW e \in Nat, NEW mode \in DOMAIN ModeWord,
         6 < m, m <= e, e <= Len(a), a[6] = "generation", \A j \in 1 .. 5 : a[j] # "generation",
         a[m] = ModeWord[mode], \A j \in 7 .. e : a[j] # "--", \A j \in m + 1 .. e : a[j] \notin ModeWords,
         e = Len(a) \/ a[e + 1] = "--"
  PROVE  generation_mode(a) = <<mode>>
<1> DEFINE at == {j \in DOMAIN a : a[j] = "generation"}
<1>1. at \in SUBSET Nat /\ 6 \in at /\ (\A x \in at : 6 <= x)
  OBVIOUS
<1>2. Min(at) = 6 BY <1>1, MinOf
<1>3. IndexOf(a, "generation") = 6 BY <1>1, <1>2 DEF IndexOf
<1> HIDE DEF at
<1> DEFINE ends == {i \in DOMAIN a : i > 6 /\ a[i] = "--"}
           end == IF ends = {} THEN Len(a) ELSE Min(ends) - 1
<1>4. end = e
  <2>1. CASE e = Len(a)
    <3>1. ends = {} BY <2>1
    <3> QED BY <2>1, <3>1
  <2>2. CASE e # Len(a)
    <3>1. ends \in SUBSET Nat /\ e + 1 \in ends /\ (\A x \in ends : e + 1 <= x) BY <2>2
    <3>2. Min(ends) = e + 1 BY <3>1, MinOf
    <3> HIDE DEF ends
    <3>3. ends # {} BY <3>1
    <3> QED BY <3>2, <3>3
  <2> QED BY <2>1, <2>2
<1>5. generation_mode(a)
        = LET modes == {i \in 6 + 1 .. end : a[i] \in ModeWords}
          IN  IF 6 = 0 \/ modes = {} THEN <<>>
              ELSE <<CHOOSE x \in DOMAIN ModeWord : ModeWord[x] = a[Max(modes)]>>
  <2>1. generation_mode(a) = ModeFrom(a, IndexOf(a, "generation"))
    BY Zenon DEF generation_mode, ModeFrom
  <2>2. generation_mode(a) = ModeFrom(a, 6)
    BY <1>3, <2>1, Zenon
  <2> QED BY <2>2, Zenon DEF ModeFrom
<1> HIDE DEF end
<1> DEFINE modes == {i \in 7 .. e : a[i] \in ModeWords}
<1>6. generation_mode(a)
        = IF modes = {} THEN <<>> ELSE <<CHOOSE x \in DOMAIN ModeWord : ModeWord[x] = a[Max(modes)]>>
  BY <1>4, <1>5
<1>7. modes \in SUBSET Nat /\ m \in modes /\ (\A x \in modes : x <= m)
  <2>1. a[m] \in ModeWords BY DEF ModeWords
  <2> QED BY <2>1
<1>8. Max(modes) = m BY <1>7, MaxOf
<1>9. \A x \in DOMAIN ModeWord : ModeWord[x] = ModeWord[mode] => x = mode
  BY ModeFacts
<1>10. (CHOOSE x \in DOMAIN ModeWord : ModeWord[x] = ModeWord[mode]) = mode
  BY <1>9, Zenon
<1> HIDE DEF modes
<1> QED BY <1>6, <1>7, <1>8, <1>10

\* Generation_mode reads back the mode.
LEMMA ModeBack ==
  ASSUME NEW cfg, ConfigFacts(cfg), NEW resume \in BOOLEAN
  PROVE  generation_mode(generation_args(cfg, resume)) = <<cfg.mode>>
<1>0. PartWords(cfg, resume) /\ Growing(cfg, resume) /\ Leads(cfg, resume) BY Parts, Grown, Prefixed
<1>v. \A x \in Value : x \notin Options BY DEF Value
<1> DEFINE a == generation_args(cfg, resume)
           u == Upto8(cfg, resume)
           o == ModeOptions(cfg)
           w == Upto9(cfg, resume)
           t == Trailing(cfg)
<1>1. /\ a \in Seq(Lexicon) /\ u \in Seq(Lexicon) /\ o \in Seq(Lexicon) /\ w \in Seq(Lexicon) /\ t \in Seq(Lexicon)
      /\ Upto7(cfg, resume) \in Seq(Lexicon) /\ Mode(cfg) \in Seq(Lexicon)
      /\ Prefix(Start(cfg), a) /\ Prefix(u, a) /\ Prefix(w, a)
  BY <1>0, Zenon DEF Growing, PartWords, Leads
<1>2. w = u \o o BY DEF Upto9
<1>3. a = w \o t BY InParts
<1>4. u = Upto7(cfg, resume) \o Mode(cfg) BY DEF Upto8
<1> HIDE DEF a, u, w
<1>5. /\ Len(Start(cfg)) = 6 /\ Start(cfg)[6] = "generation" /\ Start(cfg)[1] = "/sim" /\ Start(cfg)[2] = "-c"
      /\ Start(cfg)[3] = cfg.coverage /\ Start(cfg)[4] = "-s" /\ Start(cfg)[5] = cfg.state
  BY DEF Start
<1>6. a[6] = "generation" /\ \A j \in 1 .. 5 : a[j] # "generation"
  <2>1. cfg.coverage # "generation" /\ cfg.state # "generation" BY <1>v DEF ConfigFacts, Options
  <2>2. a[1] = "/sim" /\ a[2] = "-c" /\ a[3] = cfg.coverage /\ a[4] = "-s" /\ a[5] = cfg.state /\ a[6] = "generation"
    BY <1>1, <1>5 DEF Prefix
  <2> QED BY <2>1, <2>2
<1>7. Len(Mode(cfg)) = 3 /\ Mode(cfg)[3] = ModeWord[cfg.mode] BY DEF Mode
<1>8. Prefix(Start(cfg), Upto7(cfg, resume))
  <2> DEFINE q == Upto7(cfg, resume)
  <2>1. /\ Upto2(cfg) \in Seq(Lexicon) /\ Upto3(cfg) \in Seq(Lexicon) /\ Upto4(cfg, resume) \in Seq(Lexicon)
        /\ Upto5(cfg, resume) \in Seq(Lexicon) /\ Upto6(cfg, resume) \in Seq(Lexicon) /\ q \in Seq(Lexicon)
        /\ Start(cfg) \in Seq(Lexicon) /\ Cover(cfg) \in Seq(Lexicon) /\ Choice(cfg) \in Seq(Lexicon)
        /\ Source(resume) \in Seq(Lexicon) /\ Save(cfg) \in Seq(Lexicon) /\ Interval(cfg) \in Seq(Lexicon)
        /\ Only(cfg) \in Seq(Lexicon)
    BY <1>0, Zenon DEF Growing, PartWords
  <2>2. Prefix(Upto6(cfg, resume), q) BY <2>1, ConcatPrefix, Zenon DEF Upto7
  <2> HIDE DEF q
  <2>3. Prefix(Upto5(cfg, resume), q) BY <2>1, <2>2, LongerPrefix, Zenon DEF Upto6
  <2>4. Prefix(Upto4(cfg, resume), q) BY <2>1, <2>3, LongerPrefix, Zenon DEF Upto5
  <2>5. Prefix(Upto3(cfg), q) BY <2>1, <2>4, LongerPrefix, Zenon DEF Upto4
  <2>6. Prefix(Upto2(cfg), q) BY <2>1, <2>5, LongerPrefix, Zenon DEF Upto3
  <2>7. Prefix(Start(cfg), q) BY <2>1, <2>6, LongerPrefix, Zenon DEF Upto2
  <2> QED BY <2>7 DEF q
<1> DEFINE m == Len(u)
           e == Len(w)
<1>9. m \in Nat /\ e \in Nat /\ 6 < m /\ m <= e /\ e <= Len(a)
  <2>1. Len(Upto7(cfg, resume)) >= 6 BY <1>5, <1>8 DEF Prefix
  <2> DEFINE x == Upto7(cfg, resume)
             y == Mode(cfg)
  <2>2. x \in Seq(Lexicon) /\ y \in Seq(Lexicon) /\ Len(y) = 3 /\ u = x \o y BY <1>1, <1>4, <1>7
  <2>3. Len(x) >= 6 BY <2>1
  <2> HIDE DEF x, y, t, o
  <2>4. m = Len(x) + 3 BY <2>2, ConcatEnd, Zenon
  <2> QED BY <2>2, <2>3, <2>4, <1>1, <1>2, <1>3
<1>10. a[m] = ModeWord[cfg.mode]
  <2> DEFINE x == Upto7(cfg, resume)
             y == Mode(cfg)
  <2>3. x \in Seq(Lexicon) /\ y \in Seq(Lexicon) /\ Len(y) = 3 /\ u = x \o y BY <1>1, <1>4, <1>7
  <2>4. u[m] = y[3]
    <3> HIDE DEF x, y
    <3>1. 3 \in 1 .. Len(y) BY <2>3
    <3>2. (x \o y)[Len(x) + 3] = y[3] BY <2>3, <3>1, ConcatEnd, Zenon
    <3>3. m = Len(x) + 3 BY <2>3, ConcatEnd, Zenon
    <3> QED BY <2>3, <3>2, <3>3, Zenon
  <2>1. u[m] = Mode(cfg)[3] BY <2>4
  <2>2. a[m] = u[m] BY <1>1, <1>9 DEF Prefix
  <2> QED BY <2>1, <2>2, <1>7
<1>11. \A j \in 7 .. m : a[j] # "--"
  <2>1. "--" \notin Words(u)
    <3>1. "--" \notin Value BY <1>v DEF Options
    <3> QED BY <3>1, EarlyWords DEF u
  <2>2. ASSUME NEW j \in 7 .. m PROVE a[j] \in Words(u)
    <3>1. j \in DOMAIN u /\ a[j] = u[j] BY <1>1, <1>9 DEF Prefix
    <3> QED BY <3>1 DEF Words
  <2> QED BY <2>1, <2>2
<1>12. \A j \in m + 1 .. e : a[j] # "--" /\ a[j] \notin ModeWords
  <2>1. "--" \notin Words(o) /\ \A x \in Words(o) : x \notin ModeWords
    <3>1. "--" \notin Value BY <1>v DEF Options
    <3>2. Words(o) \subseteq (Value \ ModeWords) \union {"--mutator-window-size", "--max-corpus-size"}
      BY <1>0 DEF PartWords
    <3> QED BY <3>1, <3>2, ModeFacts
  <2>2. ASSUME NEW j \in m + 1 .. e PROVE a[j] \in Words(o)
    <3>1. j \in 1 .. Len(w) /\ a[j] = w[j] BY <1>1, <1>9 DEF Prefix
    <3>2. j - m \in DOMAIN o /\ w[j] = o[j - m] BY <1>1, <1>2, <1>9, <3>1
    <3> QED BY <3>1, <3>2 DEF Words
  <2> QED BY <2>1, <2>2
<1>13. e = Len(a) \/ a[e + 1] = "--"
  <2>1. CASE t = <<>> BY <2>1, <1>1, <1>3
  <2>2. CASE t # <<>>
    <3>1. t = <<"--">> \o cfg.simulator_args /\ cfg.simulator_args \in Seq(Lexicon)
      BY <2>2 DEF Trailing, ConfigFacts
    <3>2. Len(t) >= 1 /\ t[1] = "--" BY <3>1
    <3> HIDE DEF t
    <3> QED BY <3>2, <1>1, <1>3
  <2> QED BY <2>1, <2>2
<1>14. \A j \in 7 .. e : a[j] # "--"
  BY <1>9, <1>11, <1>12
<1>15. \A j \in m + 1 .. e : a[j] \notin ModeWords
  BY <1>12
<1>16. cfg.mode \in DOMAIN ModeWord BY ModeFacts DEF ConfigFacts
<1> HIDE DEF m, e, t, o
<1>17. generation_mode(a) = <<cfg.mode>>
  BY <1>1, <1>6, <1>9, <1>10, <1>13, <1>14, <1>15, <1>16, ModeAt
<1> QED BY <1>17 DEF a

-----------------------------------------------------------------------------
(* What prepare_rerun and _analysis_args make of a generation's command.   *)

\* The conversions return the word that was found.
LEMMA RequiredIs ==
  ASSUME NEW a, NEW w, NEW v, option_value(a, w) = [raised |-> FALSE, value |-> <<v>>]
  PROVE  required_option(a, w) = [raised |-> FALSE, value |-> <<v>>]
<1>1. option_value(a, w).value = <<v>> /\ option_value(a, w).raised = FALSE /\ <<v>> # <<>>
  OBVIOUS
<1> QED BY <1>1, Zenon DEF required_option

\* So does the conversion to a number, of a number.
LEMMA IntegerIs ==
  ASSUME NEW a, NEW w, NEW d, NEW v \in DOMAIN Numbers, option_value(a, w) = [raised |-> FALSE, value |-> <<v>>]
  PROVE  Integer(a, w, d) = [raised |-> FALSE, value |-> v]
<1>1. option_value(a, w).value = <<v>> /\ option_value(a, w).raised = FALSE /\ <<v>> # <<>> /\ <<v>>[1] = v
  OBVIOUS
<1> QED BY <1>1, Zenon DEF Integer

\* The settings a corpus depends on are read back as they were.
LEMMA CriticalBack ==
  ASSUME NEW cfg \in Config, NEW resume \in BOOLEAN
  PROVE  Critical(generation_args(cfg, resume))
           = [raised |-> FALSE, coverage |-> <<cfg.coverage>>, state |-> <<cfg.state>>, tracker |-> cfg.tracker_window_size]
<1> DEFINE a == generation_args(cfg, resume)
<1>1. ConfigFacts(cfg) BY ConfigHas
<1>2. ReadBack(cfg, a) /\ a \in Seq(Lexicon) BY <1>1, ReadsBack, Grown DEF Growing
<1> HIDE DEF a
<1>3. /\ option_value(a, "-c") = [raised |-> FALSE, value |-> <<cfg.coverage>>]
      /\ option_value(a, "-s") = [raised |-> FALSE, value |-> <<cfg.state>>]
      /\ option_value(a, "--tracker-window-size") = [raised |-> FALSE, value |-> <<cfg.tracker_window_size>>]
  BY <1>2, FoundValue, Zenon DEF ReadBack
<1>4. cfg.tracker_window_size \in DOMAIN Numbers BY DEF Config, Number
<1>5. /\ required_option(a, "-c") = [raised |-> FALSE, value |-> <<cfg.coverage>>]
      /\ required_option(a, "-s") = [raised |-> FALSE, value |-> <<cfg.state>>]
  BY <1>3, RequiredIs
<1>6. Integer(a, "--tracker-window-size", "20") = [raised |-> FALSE, value |-> cfg.tracker_window_size]
  BY <1>3, <1>4, IntegerIs
<1>7. Critical(a)
        = [raised |-> FALSE, coverage |-> <<cfg.coverage>>, state |-> <<cfg.state>>, tracker |-> cfg.tracker_window_size]
  <2> DEFINE c == required_option(a, "-c")
             r == required_option(a, "-s")
             t == Integer(a, "--tracker-window-size", "20")
  <2>1. /\ c.raised = FALSE /\ r.raised = FALSE /\ t.raised = FALSE
        /\ c.value = <<cfg.coverage>> /\ r.value = <<cfg.state>> /\ t.value = cfg.tracker_window_size
    BY <1>5, <1>6
  <2>2. Critical(a) = [raised |-> c.raised \/ r.raised \/ t.raised, coverage |-> c.value, state |-> r.value, tracker |-> t.value]
    BY Zenon DEF Critical
  <2> HIDE DEF c, r, t
  <2>3. (c.raised \/ r.raised \/ t.raised) = FALSE BY <2>1
  <2> QED BY <2>1, <2>2, <2>3, Zenon
<1> QED BY <1>7 DEF a

\* What a rerun with the given overrides keeps of the configuration it follows.
Kept(new, args, old) ==
  /\ new.mode = old.mode /\ new.coverage = old.coverage /\ new.state = old.state
  /\ new.tracker_window_size = old.tracker_window_size
  /\ new.top_pass = override(args.top_pass, old.top_pass) /\ new.selection = override(args.selection, old.selection)
  /\ new.metric = override(args.metric, old.metric) /\ new.reduce_cover = override(args.reduce_cover, old.reduce_cover)
  /\ new.gen_only = override(args.gen_only, old.gen_only)
  /\ old.mode = "psbfl" => new.mutator_window_size = override(args.mutator_window_size, old.mutator_window_size)
  /\ old.mode = "withw" => new.max_corpus_size = override(args.max_corpus_size, old.max_corpus_size)

\* An override, given or not, leaves a value of the same kind.
LEMMA Overridden ==
  ASSUME NEW S, NEW v \in Optional(S), NEW d \in S
  PROVE  override(v, d) \in S
<1>1. v = <<>> \/ v[1] \in S
  BY DEF Optional
<1> QED BY <1>1 DEF override

\* A rerun that is not refused has a configuration, and keeps what was not overridden.
LEMMA RerunMade ==
  ASSUME NEW cfg \in Config, NEW resume \in BOOLEAN, NEW args \in RerunArgs, NEW commands,
         ~prepare_rerun(args, commands, <<generation_args(cfg, resume)>>).raised
  PROVE  /\ prepare_rerun(args, commands, <<generation_args(cfg, resume)>>).cfg \in Config
         /\ Kept(prepare_rerun(args, commands, <<generation_args(cfg, resume)>>).cfg, args, cfg)
<1> DEFINE a == generation_args(cfg, resume)
<1>1. ConfigFacts(cfg) BY ConfigHas
<1>2. /\ ReadBack(cfg, a) /\ a \in Seq(Lexicon) /\ generation_mode(a) = <<cfg.mode>>
      /\ Critical(a) = [raised |-> FALSE, coverage |-> <<cfg.coverage>>, state |-> <<cfg.state>>,
                        tracker |-> cfg.tracker_window_size]
  BY <1>1, ReadsBack, Grown, ModeBack, CriticalBack DEF Growing
<1>3. <<a>>[1] = a OBVIOUS
<1> HIDE DEF a
<1> DEFINE made == prepare_rerun(args, commands, <<a>>)
<1> DEFINE mode == generation_mode(a)
           crit == Critical(a)
           top == Integer(a, "--top-pass", "10")
           window == Integer(a, "--mutator-window-size", "20")
           size == Integer(a, "--max-corpus-size", "50")
           check == option_value(a, "--checkpoint-interval")
           selection == Word(a, "--selection", "sort")
           metric == Word(a, "--metric", "ochiai")
           refused == \/ <<>> \in commands
                      \/ mode = <<>> \/ wrong(args, mode[1]) \/ crit.raised
                      \/ \E c \in commands : generation_mode(c[1]) # mode \/ Critical(c[1]) # crit
                      \/ check.raised \/ (check.value # <<>> /\ check.value[1] \notin DOMAIN Numbers)
                      \/ ~args.save_corpus /\ args.checkpoint_interval # <<>>
                      \/ top.raised \/ window.raised \/ size.raised
           new == [mode |-> mode[1], coverage |-> crit.coverage[1], state |-> crit.state[1],
                   tracker_window_size |-> crit.tracker, save_corpus |-> args.save_corpus,
                   checkpoint_interval |-> Checkpoint(args, check.value),
                   top_pass |-> override(args.top_pass, top.value),
                   selection |-> override(args.selection, selection.value),
                   metric |-> override(args.metric, metric.value),
                   reduce_cover |-> override(args.reduce_cover, has_flag(a, "--reduce-cover")),
                   gen_only |-> override(args.gen_only, has_flag(a, "--gen-only")),
                   mutator_window_size |-> override(args.mutator_window_size, window.value),
                   max_corpus_size |-> override(args.max_corpus_size, size.value),
                   simulator_args |-> override(args.simulator_args, <<"-c", "5000000">>)]
<1>4. made = IF refused THEN [raised |-> TRUE] ELSE [raised |-> FALSE, cfg |-> new]
  BY <1>3, Zenon DEF prepare_rerun
<1>5. ~made.raised BY DEF a
<1> HIDE DEF made, new, refused
<1>6. ~refused /\ made.cfg = new
  <2>1. CASE refused
    <3>1. made = [raised |-> TRUE] BY <2>1, <1>4, Zenon
    <3> QED BY <3>1, <1>5
  <2>2. CASE ~refused
    <3>1. made = [raised |-> FALSE, cfg |-> new] BY <2>2, <1>4, Zenon
    <3> QED BY <3>1, <2>2
  <2> QED BY <2>1, <2>2
<1>7. /\ ~check.raised /\ (check.value # <<>> => check.value[1] \in DOMAIN Numbers)
      /\ ~top.raised /\ ~window.raised /\ ~size.raised
  BY <1>6, Zenon DEF refused
<1>8. /\ option_value(a, "--top-pass") = [raised |-> FALSE, value |-> <<cfg.top_pass>>]
      /\ option_value(a, "--selection") = [raised |-> FALSE, value |-> <<cfg.selection>>]
      /\ option_value(a, "--metric") = [raised |-> FALSE, value |-> <<cfg.metric>>]
  BY <1>2, FoundValue, Zenon DEF ReadBack
<1>9. top.value = cfg.top_pass /\ selection.value = cfg.selection /\ metric.value = cfg.metric
  BY <1>8 DEF Integer, Word
<1>10. cfg.mode = "psbfl" => window.value = cfg.mutator_window_size
  <2> SUFFICES ASSUME cfg.mode = "psbfl" PROVE window.value = cfg.mutator_window_size OBVIOUS
  <2>1. option_value(a, "--mutator-window-size") = [raised |-> FALSE, value |-> <<cfg.mutator_window_size>>]
    BY <1>2, FoundValue, Zenon DEF ReadBack
  <2> QED BY <2>1 DEF Integer
<1>11. cfg.mode = "withw" => size.value = cfg.max_corpus_size
  <2> SUFFICES ASSUME cfg.mode = "withw" PROVE size.value = cfg.max_corpus_size OBVIOUS
  <2>1. option_value(a, "--max-corpus-size") = [raised |-> FALSE, value |-> <<cfg.max_corpus_size>>]
    BY <1>2, FoundValue, Zenon DEF ReadBack
  <2> QED BY <2>1 DEF Integer
<1>12. window.value \in Number /\ size.value \in Number
  BY <1>7 DEF Integer, Number
<1>13. check.value = <<>> \/ check.value \in Optional(Number)
  <2>1. CASE \E x \in Lexicon : check = [raised |-> FALSE, value |-> <<x>>]
    <3>1. PICK x \in Lexicon : check = [raised |-> FALSE, value |-> <<x>>] BY <2>1
    <3>2. check.value = <<x>> /\ x \in Number BY <3>1, <1>7 DEF Number
    <3>3. <<x>> \in Optional(Number) BY <3>2 DEF Optional
    <3> QED BY <3>2, <3>3, Zenon
  <2>2. CASE check = [raised |-> FALSE, value |-> <<>>] BY <2>2
  <2>3. CASE check = [raised |-> TRUE, value |-> <<>>] BY <2>3
  <2>4. \/ check = [raised |-> FALSE, value |-> <<>>] \/ check = [raised |-> TRUE, value |-> <<>>]
        \/ \E x \in Lexicon : check = [raised |-> FALSE, value |-> <<x>>]
    BY <1>2, OptionTyped
  <2> HIDE DEF check
  <2> QED BY <2>1, <2>2, <2>3, <2>4
<1>14. /\ (has_flag(a, "--reduce-cover") <=> cfg.reduce_cover) /\ (has_flag(a, "--gen-only") <=> cfg.gen_only)
       /\ cfg.reduce_cover \in BOOLEAN /\ cfg.gen_only \in BOOLEAN
  BY <1>1, <1>2, Zenon DEF ReadBack, ConfigFacts
<1>15. has_flag(a, "--reduce-cover") = cfg.reduce_cover /\ has_flag(a, "--gen-only") = cfg.gen_only
  BY <1>14, Zenon DEF has_flag
<1>16. mode[1] = cfg.mode /\ crit.coverage[1] = cfg.coverage /\ crit.state[1] = cfg.state /\ crit.tracker = cfg.tracker_window_size
  BY <1>2
<1> HIDE DEF check, top, window, size, selection, metric, mode, crit
<1>17. Kept(new, args, cfg)
  <2>1. /\ new.mode = cfg.mode /\ new.coverage = cfg.coverage /\ new.state = cfg.state
        /\ new.tracker_window_size = cfg.tracker_window_size
    BY <1>16 DEF new
  <2>2. /\ new.top_pass = override(args.top_pass, cfg.top_pass) /\ new.selection = override(args.selection, cfg.selection)
        /\ new.metric = override(args.metric, cfg.metric)
        /\ new.reduce_cover = override(args.reduce_cover, cfg.reduce_cover)
        /\ new.gen_only = override(args.gen_only, cfg.gen_only)
    BY <1>9, <1>15 DEF new
  <2>3. /\ cfg.mode = "psbfl" => new.mutator_window_size = override(args.mutator_window_size, cfg.mutator_window_size)
        /\ cfg.mode = "withw" => new.max_corpus_size = override(args.max_corpus_size, cfg.max_corpus_size)
    BY <1>10, <1>11 DEF new
  <2> QED BY <2>1, <2>2, <2>3, Zenon DEF Kept
<1>18. new \in Config
  <2>1. /\ args.save_corpus \in BOOLEAN /\ args.checkpoint_interval \in Optional(Number)
        /\ args.top_pass \in Optional(Number) /\ args.selection \in Optional(Value) /\ args.metric \in Optional(Value)
        /\ args.reduce_cover \in Optional(BOOLEAN) /\ args.gen_only \in Optional(BOOLEAN)
        /\ args.mutator_window_size \in Optional(Number) /\ args.max_corpus_size \in Optional(Number)
        /\ args.simulator_args \in Optional(SimulatorArgs)
    BY ArgsAssumption
  <2>2. /\ cfg.mode \in DOMAIN ModeWord /\ cfg.coverage \in Value /\ cfg.state \in Value /\ cfg.top_pass \in Number
        /\ cfg.selection \in Value /\ cfg.tracker_window_size \in Number /\ cfg.reduce_cover \in BOOLEAN
        /\ cfg.gen_only \in BOOLEAN /\ cfg.metric \in Value
    BY DEF Config
  <2>3. /\ override(args.top_pass, cfg.top_pass) \in Number /\ override(args.selection, cfg.selection) \in Value
        /\ override(args.metric, cfg.metric) \in Value /\ override(args.reduce_cover, cfg.reduce_cover) \in BOOLEAN
        /\ override(args.gen_only, cfg.gen_only) \in BOOLEAN
        /\ override(args.mutator_window_size, window.value) \in Number
        /\ override(args.max_corpus_size, size.value) \in Number
    BY <2>1, <2>2, <1>12, Overridden, Zenon
  <2>4. <<"-c", "5000000">> \in SimulatorArgs
    BY NumbersAssumption DEF SimulatorArgs, Options, OtherWords
  <2>5. override(args.simulator_args, <<"-c", "5000000">>) \in SimulatorArgs
    BY <2>1, <2>4, Overridden, Zenon
  <2>6. Checkpoint(args, check.value) \in Optional(Number)
    <3>1. <<>> \in Optional(Number) BY DEF Optional
    <3> QED BY <3>1, <2>1, <1>13 DEF Checkpoint
  <2> QED BY <2>1, <2>2, <2>3, <2>5, <2>6, <1>9, <1>15, <1>16 DEF new, Config
<1> QED BY <1>6, <1>17, <1>18, Zenon DEF made, a

-----------------------------------------------------------------------------
(* The run directories.                                                    *)

\* The values of the fields of a run and of what a case leaves.
Setting == [mode : DOMAIN ModeWord, coverage : Value, state : Value, tracker : Number]
Label == [coverage : Lexicon, state : Lexicon, tracker : Lexicon]
Use == [with : Setting \union Label, made : Setting]
Dir ==
  [status : {"", "OK", "BUILD_FAIL", "SBFL_FAIL", "ANALYSIS_FAIL", "CORPUS_MISSING", "CONFIG_FAIL"},
   cmd : Optional(Seq(Lexicon)), corpus : Optional(Setting), blocks : BOOLEAN, result : BOOLEAN, llm : BOOLEAN,
   used : Optional(Use)]
AnalysisConfig ==
  [top_pass : Lexicon, selection : Lexicon, metric : Lexicon, reduce_cover : BOOLEAN, simulator_args : Seq(Lexicon)]
RunDir ==
  [kind : {"gen", "rerun", "analysis"}, parent : Nat, args : GenArgs \union RerunArgs \union AnalysisArgs,
   cfg : Config \union AnalysisConfig, corpora : [Cases -> Optional(Setting)], rows : SUBSET Cases, dir : [Cases -> Dir]]

\* A corpus is used with the settings it was made with.
Agrees(u) == \A f \in DOMAIN u.with : u.with[f] = u.made[f]

\* What the directory of a case of run r holds.
DirOK(r, c) ==
  /\ r.kind = "analysis" => r.dir[c].corpus = <<>>
  /\ r.kind # "analysis" =>
       /\ r.dir[c].cmd = <<>> \/ r.dir[c].cmd = <<generation_args(r.cfg, r.corpora[c] # <<>>)>>
       /\ r.dir[c].corpus = <<>> \/ (r.dir[c].corpus = <<Settings(r.cfg)>> /\ r.dir[c].cmd # <<>>)
  /\ r.kind # "gen" => \A u \in Range(r.dir[c].used) : Agrees(u)

\* How run i follows from the one it reads.
Follows(rs, r, i) ==
  /\ r.kind # "analysis" => r.cfg \in Config
  /\ r.kind = "analysis" => r.cfg \in AnalysisConfig
  /\ r.kind # "gen" => r.parent \in 1 .. i - 1 /\ \A c \in Cases : r.corpora[c] = rs[r.parent].dir[c].corpus
  /\ r.kind = "rerun" => /\ rs[r.parent].kind # "analysis" /\ r.args \in RerunArgs
                         /\ Kept(r.cfg, r.args, rs[r.parent].cfg)

\* What every run directory promises.
Good(rs) == \A i \in DOMAIN rs : Follows(rs, rs[i], i) /\ \A c \in Cases : DirOK(rs[i], c)

\* What a row or a ranking changes is neither.
SameRun(r, q) == r.kind = q.kind /\ r.parent = q.parent /\ r.args = q.args /\ r.cfg = q.cfg /\ r.corpora = q.corpora
SameDir(d, e) == d.cmd = e.cmd /\ d.corpus = e.corpus /\ d.used = e.used

\* An optional value may be missing.
LEMMA OptionalHas ==
  ASSUME NEW S
  PROVE  <<>> \in Optional(S) /\ \A x \in S : <<x>> \in Optional(S)
BY DEF Optional

\* An optional value that is given is one value.
LEMMA OptionalIs ==
  ASSUME NEW S, NEW v \in Optional(S), v # <<>>
  PROVE  v[1] \in S /\ v = <<v[1]>>
<1>1. v \in Seq(S) /\ Len(v) <= 1 /\ Len(v) \in Nat BY DEF Optional
<1>2. Len(v) # 0 BY <1>1
<1>3. Len(v) = 1
  <2> DEFINE n == Len(v)
  <2>1. n \in Nat /\ n <= 1 /\ n # 0 BY <1>1, <1>2
  <2> HIDE DEF n
  <2>2. n = 1 BY <2>1
  <2> QED BY <2>2 DEF n
<1>4. v[1] \in S BY <1>1, <1>3
<1>5. DOMAIN v = 1..1 /\ DOMAIN <<v[1]>> = 1..1 /\ <<v[1]>>[1] = v[1] BY <1>1, <1>3
<1>6. v = [i \in 1..1 |-> v[i]] BY <1>1, <1>5
<1>7. <<v[1]>> = [i \in 1..1 |-> v[i]] BY <1>5
<1> QED BY <1>4, <1>6, <1>7

\* The promise of a directory is about the run and these three fields.
LEMMA SameDirOK ==
  ASSUME NEW r, NEW q, NEW c, DirOK(q, c), SameRun(r, q), SameDir(r.dir[c], q.dir[c])
  PROVE  DirOK(r, c)
BY Zenon DEF DirOK, SameRun, SameDir

\* The directories stay good when those of one case of the newest run
\* change to good ones.
LEMMA GoodStays ==
  ASSUME NEW rs \in Seq(RunDir), NEW qs \in Seq(RunDir), Good(rs), Len(qs) = Len(rs),
         \A i \in DOMAIN rs : SameRun(qs[i], rs[i]),
         \A i \in DOMAIN rs : \A c \in Cases :
           SameDir(qs[i].dir[c], rs[i].dir[c]) \/ (i = Len(rs) /\ DirOK(qs[i], c))
  PROVE  Good(qs)
<1>1. DOMAIN qs = DOMAIN rs /\ DOMAIN rs = 1 .. Len(rs) /\ Len(rs) \in Nat
  OBVIOUS
<1>2. ASSUME NEW i \in DOMAIN rs, NEW c \in Cases PROVE DirOK(qs[i], c)
  <2>1. SameRun(qs[i], rs[i]) /\ DirOK(rs[i], c) BY DEF Good
  <2> QED BY <2>1, SameDirOK
<1>3. ASSUME NEW i \in DOMAIN rs PROVE Follows(qs, qs[i], i)
  <2> DEFINE p == rs[i].parent
  <2>1. SameRun(qs[i], rs[i]) /\ Follows(rs, rs[i], i) BY DEF Good
  <2>2. rs[i].kind # "gen" => p \in DOMAIN rs /\ p # Len(rs)
    BY <1>1, <2>1 DEF Follows
  <2>3. rs[i].kind # "gen" => SameRun(qs[p], rs[p]) /\ \A c \in Cases : qs[p].dir[c].corpus = rs[p].dir[c].corpus
    BY <2>2, Zenon DEF SameDir
  <2>4. qs[i].parent = p /\ qs[i].kind = rs[i].kind /\ qs[i].cfg = rs[i].cfg /\ qs[i].args = rs[i].args
        /\ qs[i].corpora = rs[i].corpora
    BY <2>1, Zenon DEF SameRun
  <2>5. rs[i].kind # "gen" => qs[p].kind = rs[p].kind /\ qs[p].cfg = rs[p].cfg
    BY <2>3, Zenon DEF SameRun
  <2>6. rs[i].kind = "rerun" => rs[i].kind # "gen"
    OBVIOUS
  <2> QED BY <2>1, <2>3, <2>4, <2>5, <2>6, Zenon DEF Follows
<1> QED BY <1>1, <1>2, <1>3, Zenon DEF Good

\* And when a run begins that follows from one there is.
LEMMA GoodGrows ==
  ASSUME NEW rs \in Seq(RunDir), Good(rs), NEW r \in RunDir, r.dir = [c \in Cases |-> NoDir],
         Follows(rs, r, Len(rs) + 1)
  PROVE  Good(Append(rs, r))
<1> DEFINE qs == Append(rs, r)
<1>1. /\ DOMAIN qs = 1 .. Len(rs) + 1 /\ DOMAIN rs = 1 .. Len(rs) /\ Len(rs) \in Nat
      /\ \A i \in DOMAIN rs : qs[i] = rs[i] /\ qs[Len(rs) + 1] = r
  OBVIOUS
<1>a. qs[Len(rs) + 1] = r OBVIOUS
<1> HIDE DEF qs
<1>2. ASSUME NEW c \in Cases PROVE DirOK(r, c)
  <2>1. r.dir[c] = NoDir OBVIOUS
  <2>2. NoDir.corpus = <<>> /\ NoDir.cmd = <<>> /\ NoDir.used = <<>> BY DEF NoDir
  <2>3. \A u \in Range(NoDir.used) : FALSE BY <2>2 DEF Range
  <2> QED BY <2>1, <2>2, <2>3, Zenon DEF DirOK
<1>3. ASSUME NEW i \in 1 .. Len(rs) + 1, NEW q, q = qs[i], Follows(rs, q, i) PROVE Follows(qs, q, i)
  <2>1. q.kind # "gen" => qs[q.parent] = rs[q.parent]
    BY <1>1, <1>3 DEF Follows
  <2>2. q.kind = "rerun" => q.kind # "gen" OBVIOUS
  <2> QED BY <1>3, <2>1, <2>2, Zenon DEF Follows
<1>4. ASSUME NEW i \in DOMAIN qs PROVE Follows(qs, qs[i], i) /\ \A c \in Cases : DirOK(qs[i], c)
  <2>1. CASE i \in DOMAIN rs
    <3>1. qs[i] = rs[i] BY <2>1, <1>1
    <3>2. Follows(rs, rs[i], i) /\ \A c \in Cases : DirOK(rs[i], c) BY <2>1 DEF Good
    <3> QED BY <1>1, <1>3, <1>4, <3>1, <3>2
  <2>2. CASE i = Len(rs) + 1
    BY <2>2, <1>1, <1>2, <1>3, <1>a
  <2> QED BY <2>1, <2>2, <1>1
<1> QED BY <1>4, Zenon DEF Good, qs

\* The command line of a generation gives a configuration.
LEMMA GeneratedIn ==
  ASSUME NEW args \in GenArgs
  PROVE  generation_config(args) \in Config
<1>1. /\ args.mode \in DOMAIN ModeWord /\ args.coverage \in Value /\ args.state \in Value /\ args.top_pass \in Number
      /\ args.selection \in Value /\ args.tracker_window_size \in Number /\ args.reduce_cover \in BOOLEAN
      /\ args.save_corpus \in BOOLEAN /\ args.checkpoint_interval \in Optional(Number) /\ args.gen_only \in BOOLEAN
      /\ args.metric \in Value /\ args.mutator_window_size \in Optional(Number)
      /\ args.max_corpus_size \in Optional(Number) /\ args.simulator_args \in Optional(SimulatorArgs)
  BY ArgsAssumption
<1>2. "20" \in Number /\ "50" \in Number BY NumbersAssumption DEF Number
<1>3. <<"-c", "5000000">> \in SimulatorArgs
  BY NumbersAssumption DEF SimulatorArgs, Options, OtherWords
<1>4. /\ Default(args.mutator_window_size, "20") \in Number /\ Default(args.max_corpus_size, "50") \in Number
      /\ Default(args.simulator_args, <<"-c", "5000000">>) \in SimulatorArgs
  BY <1>1, <1>2, <1>3, OptionalIs DEF Default
<1> QED BY <1>1, <1>4 DEF generation_config, Config

\* The fields of a case's directory.
LEMMA DirFields ==
  ASSUME NEW d \in Dir
  PROVE  /\ d.cmd \in Optional(Seq(Lexicon)) /\ d.corpus \in Optional(Setting) /\ d.used \in Optional(Use)
         /\ d.llm \in BOOLEAN
BY DEF Dir

\* A case that left nothing, or failed before its command.
LEMMA NoDirIn == NoDir \in Dir /\ EarlyFailure \in Dir
<1>1. /\ <<>> \in Optional(Seq(Lexicon)) /\ <<>> \in Optional(Setting) /\ <<>> \in Optional(Use)
  BY OptionalHas
<1>2. NoDir \in Dir BY <1>1 DEF NoDir, Dir
<1>3. EarlyFailure \in Dir BY <1>1, <1>2 DEF NoDir, EarlyFailure, Dir
<1> QED BY <1>2, <1>3

\* What a case of a generation or a rerun leaves.
LeftBy(cfg, corpus, d) ==
  /\ d \in Dir
  /\ d.cmd = <<>> \/ d.cmd = <<generation_args(cfg, corpus # <<>>)>>
  /\ d.corpus = <<>> \/ (d.corpus = <<Settings(cfg)>> /\ d.cmd # <<>>)
  /\ d.used = <<>> \/ (corpus # <<>> /\ d.used = <<[with |-> Settings(cfg), made |-> corpus[1]]>>)

\* Every end of a case of a generation or a rerun leaves that.
LEMMA GenerationLeaves ==
  ASSUME NEW cfg \in Config, NEW corpus \in Optional(Setting), NEW dry_run \in BOOLEAN,
         NEW d \in GenerationEnds(cfg, corpus, dry_run)
  PROVE  LeftBy(cfg, corpus, d)
<1> DEFINE cmd == <<generation_args(cfg, corpus # <<>>)>>
           logged == [NoDir EXCEPT !.cmd = cmd]
           used == IF corpus = <<>> THEN <<>> ELSE <<[with |-> Settings(cfg), made |-> corpus[1]]>>
           saved == IF cfg.save_corpus THEN <<Settings(cfg)>> ELSE <<>>
           full == [logged EXCEPT !.status = "OK", !.used = used, !.corpus = saved, !.blocks = ~cfg.gen_only, !.result = ~cfg.gen_only]
           dry == [logged EXCEPT !.status = "OK"]
           failed(p) == [logged EXCEPT !.status = "SBFL_FAIL", !.used = used, !.corpus = p, !.blocks = ~cfg.gen_only]
<1>1. d = EarlyFailure \/ d = full \/ d = dry \/ d = failed(<<>>) \/ d = failed(saved)
  <2>1. CASE dry_run
    <3>1. d \in {EarlyFailure, dry} BY <2>1, Zenon DEF GenerationEnds
    <3> QED BY <3>1, Zenon
  <2>2. CASE ~dry_run
    <3> DEFINE checkpoints == IF cfg.checkpoint_interval = <<>> THEN {<<>>} ELSE {<<>>, saved}
    <3>1. d \in {EarlyFailure, full} \union {failed(p) : p \in checkpoints} BY <2>2, Zenon DEF GenerationEnds
    <3>2. \A p \in checkpoints : p = <<>> \/ p = saved BY Zenon
    <3> HIDE DEF checkpoints, full, failed, saved
    <3> QED BY <3>1, <3>2, Zenon
  <2> QED BY <2>1, <2>2
<1>2. Settings(cfg) \in Setting BY DEF Config, Settings, Setting
<1>3. saved \in Optional(Setting) /\ (saved = <<>> \/ saved = <<Settings(cfg)>>) BY <1>2, OptionalHas
<1>4. used \in Optional(Use) /\ (used = <<>> \/ (corpus # <<>> /\ used = <<[with |-> Settings(cfg), made |-> corpus[1]]>>))
  <2>1. CASE corpus = <<>> BY <2>1, OptionalHas
  <2>2. CASE corpus # <<>>
    <3>1. corpus[1] \in Setting BY <2>2, OptionalIs
    <3>2. [with |-> Settings(cfg), made |-> corpus[1]] \in Use BY <1>2, <3>1 DEF Use
    <3> QED BY <2>2, <3>2, OptionalHas
  <2> QED BY <2>1, <2>2
<1>5. cmd \in Optional(Seq(Lexicon)) /\ cmd # <<>>
  <2>1. generation_args(cfg, corpus # <<>>) \in Seq(Lexicon) BY ConfigHas, Grown DEF Growing
  <2> QED BY <2>1, OptionalHas
<1>6. cfg.gen_only \in BOOLEAN BY DEF Config
<1>7. <<>> \in Optional(Seq(Lexicon)) /\ <<>> \in Optional(Setting) /\ <<>> \in Optional(Use) BY OptionalHas
<1>8. cmd = <<generation_args(cfg, corpus # <<>>)>> OBVIOUS
<1> HIDE DEF cmd, saved, used
<1>9. CASE d = EarlyFailure
  <2>1. d.cmd = <<>> /\ d.corpus = <<>> /\ d.used = <<>> BY <1>9 DEF EarlyFailure, NoDir
  <2> QED BY <1>9, <2>1, NoDirIn, Zenon DEF LeftBy
<1>10. CASE d = full
  <2>1. d \in Dir BY <1>10, <1>3, <1>4, <1>5, <1>6 DEF NoDir, Dir
  <2>2. d.cmd = cmd /\ d.corpus = saved /\ d.used = used BY <1>10 DEF NoDir
  <2> QED BY <2>1, <2>2, <1>3, <1>4, <1>5, <1>8, Zenon DEF LeftBy
<1>11. CASE d = dry
  <2>1. d \in Dir BY <1>11, <1>7, <1>5, <1>6 DEF NoDir, Dir
  <2>2. d.cmd = cmd /\ d.corpus = <<>> /\ d.used = <<>> BY <1>11 DEF NoDir
  <2> QED BY <2>1, <2>2, <1>8, Zenon DEF LeftBy
<1>12. ASSUME NEW p \in {<<>>, saved}, d = failed(p) PROVE LeftBy(cfg, corpus, d)
  <2>0. p \in Optional(Setting) BY <1>3, <1>7
  <2>1. d \in Dir BY <1>12, <2>0, <1>4, <1>5, <1>6 DEF NoDir, Dir
  <2>2. d.cmd = cmd /\ d.corpus = p /\ d.used = used BY <1>12 DEF NoDir
  <2>3. p = <<>> \/ p = saved OBVIOUS
  <2> QED BY <2>1, <2>2, <2>3, <1>3, <1>4, <1>5, <1>8, Zenon DEF LeftBy
<1> HIDE DEF full, dry, failed
<1> QED BY <1>1, <1>9, <1>10, <1>11, <1>12

\* What a case of an analysis leaves: no corpus, and what it used is labelled as
\* its command is.
AnalysisLeft(corpus, command, d) ==
  /\ d \in Dir /\ d.corpus = <<>>
  /\ \/ d.used = <<>>
     \/ /\ corpus # <<>> /\ command # <<>>
        /\ d.used = <<[with |-> [coverage |-> Critical(command[1]).coverage[1], state |-> Critical(command[1]).state[1],
                                 tracker |-> Critical(command[1]).tracker], made |-> corpus[1]]>>

\* What is read of any command is a word of it.
LEMMA CriticalTyped ==
  ASSUME NEW a \in Seq(Lexicon), ~Critical(a).raised
  PROVE  Critical(a).coverage[1] \in Lexicon /\ Critical(a).state[1] \in Lexicon /\ Critical(a).tracker \in Lexicon
<1> DEFINE c == required_option(a, "-c")
           r == required_option(a, "-s")
           t == Integer(a, "--tracker-window-size", "20")
           raised == c.raised \/ r.raised \/ t.raised
<1>1. Critical(a) = [raised |-> raised, coverage |-> c.value, state |-> r.value, tracker |-> t.value]
  BY Zenon DEF Critical
<1> HIDE DEF c, r, t, raised
<1>2. Critical(a).raised = raised /\ Critical(a).coverage = c.value /\ Critical(a).state = r.value /\ Critical(a).tracker = t.value
  BY <1>1
<1>3. ~c.raised /\ ~r.raised /\ ~t.raised BY <1>2, Zenon DEF raised
<1>4. Critical(a).coverage = c.value /\ Critical(a).state = r.value /\ Critical(a).tracker = t.value BY <1>2
<1>5. ASSUME NEW w, ~required_option(a, w).raised PROVE required_option(a, w).value[1] \in Lexicon
  <2> DEFINE v == option_value(a, w)
             none == v.raised \/ v.value = <<>>
  <2>1. required_option(a, w) = [raised |-> none, value |-> v.value] BY Zenon DEF required_option
  <2> HIDE DEF v, none
  <2>2. required_option(a, w).raised = none /\ required_option(a, w).value = v.value BY <2>1
  <2>3. v.value # <<>> BY <2>2, <1>5, Zenon DEF none
  <2>4. \/ v = [raised |-> FALSE, value |-> <<>>] \/ v = [raised |-> TRUE, value |-> <<>>]
        \/ \E x \in Lexicon : v = [raised |-> FALSE, value |-> <<x>>]
    BY OptionTyped DEF v
  <2>5. PICK x \in Lexicon : v = [raised |-> FALSE, value |-> <<x>>] BY <2>3, <2>4
  <2> QED BY <2>2, <2>5
<1>6. c.value[1] \in Lexicon /\ r.value[1] \in Lexicon BY <1>3, <1>5, Zenon DEF c, r
<1>7. t.value \in Lexicon
  <2>1. t.value \in DOMAIN Numbers BY <1>3 DEF t, Integer
  <2> QED BY <2>1, NumbersAssumption DEF Value
<1> QED BY <1>4, <1>6, <1>7, Zenon

\* Every end of a case of an analysis leaves that, when what the case's command
\* says is what the corpus was made with.
LEMMA AnalysisLeaves ==
  ASSUME NEW cfg \in AnalysisConfig, NEW corpus \in Optional(Setting), NEW command \in Optional(Seq(Lexicon)),
         NEW dry_run \in BOOLEAN, NEW d \in AnalysisEnds(cfg, corpus, command, dry_run)
  PROVE  AnalysisLeft(corpus, command, d)
<1>0. <<>> \in Optional(Seq(Lexicon)) /\ <<>> \in Optional(Setting) /\ <<>> \in Optional(Use) BY OptionalHas
<1>1. CASE corpus = <<>>
  <2>1. d = [NoDir EXCEPT !.status = "CORPUS_MISSING"] BY <1>1, Zenon DEF AnalysisEnds
  <2>2. d \in Dir /\ d.corpus = <<>> /\ d.used = <<>> BY <2>1, <1>0 DEF NoDir, Dir
  <2> QED BY <2>2, Zenon DEF AnalysisLeft
<1>2. CASE corpus # <<>> /\ (command = <<>> \/ analysis_args(cfg, command[1]).raised)
  <2>1. d = [NoDir EXCEPT !.status = "CONFIG_FAIL"] BY <1>2, Zenon DEF AnalysisEnds
  <2>2. d \in Dir /\ d.corpus = <<>> /\ d.used = <<>> BY <2>1, <1>0 DEF NoDir, Dir
  <2> QED BY <2>2, Zenon DEF AnalysisLeft
<1>3. CASE corpus # <<>> /\ ~(command = <<>> \/ analysis_args(cfg, command[1]).raised)
  <2> DEFINE a == command[1]
             crit == Critical(a)
             front == <<"/sim", "-c", crit.coverage[1], "-s", crit.state[1], "analysis", "--input", "corpus",
                        "--tracker-window-size", crit.tracker, "--top-pass", cfg.top_pass, "--selection", cfg.selection,
                        "--metric", cfg.metric>>
             cover == Flag(cfg.reduce_cover, "--reduce-cover")
             rest == IF cfg.simulator_args = <<>> THEN <<>> ELSE <<"--">> \o cfg.simulator_args
             argv == analysis_args(cfg, a).argv
  <2>1. a \in Seq(Lexicon) BY <1>3, OptionalIs
  <2>2. analysis_args(cfg, a) = [raised |-> crit.raised, argv |-> (front \o cover) \o rest]
    BY Zenon DEF analysis_args
  <2>3. argv = (front \o cover) \o rest /\ (analysis_args(cfg, a).raised <=> crit.raised)
    <3> HIDE DEF front, cover, rest, crit
    <3> QED BY <2>2
  <2>4. ~crit.raised BY <1>3, <2>3
  <2>5. crit.coverage[1] \in Lexicon /\ crit.state[1] \in Lexicon /\ crit.tracker \in Lexicon
    BY <2>1, <2>4, CriticalTyped, Zenon
  <2>6. /\ cfg.top_pass \in Lexicon /\ cfg.selection \in Lexicon /\ cfg.metric \in Lexicon
        /\ cfg.simulator_args \in Seq(Lexicon) /\ cfg.reduce_cover \in BOOLEAN
    BY DEF AnalysisConfig
  <2>7. /\ {"/sim", "-c", "-s", "analysis", "--input", "corpus", "--tracker-window-size", "--top-pass", "--selection",
            "--metric", "--reduce-cover", "--"} \subseteq Lexicon
    BY NumbersAssumption DEF Options, OtherWords
  <2>8. front \in Seq(Lexicon)
    <3> HIDE DEF crit
    <3> QED BY <2>5, <2>6, <2>7
  <2>9. cover \in Seq(Lexicon) BY <2>6, <2>7, Words0, Words1 DEF Flag
  <2>10. rest \in Seq(Lexicon)
    <3>1. <<"--">> \in Seq(Lexicon) BY <2>7, Words1
    <3>2. <<"--">> \o cfg.simulator_args \in Seq(Lexicon) BY <3>1, <2>6, ConcatWords, Zenon
    <3> QED BY <3>2, Words0
  <2>11. Len(front) = 16 /\ front[3] = crit.coverage[1] /\ front[5] = crit.state[1] /\ front[10] = crit.tracker
    <3> HIDE DEF crit
    <3> QED OBVIOUS
  <2> HIDE DEF front, cover, rest, crit, argv, a
  <2>12. front \o cover \in Seq(Lexicon) /\ argv \in Seq(Lexicon)
    BY <2>3, <2>8, <2>9, <2>10, ConcatWords, Zenon
  <2>13. Prefix(front, argv)
    BY <2>3, <2>8, <2>9, <2>10, <2>12, ConcatPrefix, LongerPrefix, Zenon
  <2>14. argv[3] = crit.coverage[1] /\ argv[5] = crit.state[1] /\ argv[10] = crit.tracker
    BY <2>11, <2>13 DEF Prefix
  <2> DEFINE use == [with |-> [coverage |-> argv[3], state |-> argv[5], tracker |-> argv[10]], made |-> corpus[1]]
             logged == [NoDir EXCEPT !.cmd = <<argv>>, !.used = <<use>>]
             dry == [logged EXCEPT !.status = "OK", !.used = <<>>]
             full == [logged EXCEPT !.status = "OK", !.blocks = TRUE, !.result = TRUE]
             failed == [logged EXCEPT !.status = "ANALYSIS_FAIL"]
  <2>15. d \in {EarlyFailure, dry} \/ d \in {EarlyFailure, full, failed}
    BY <1>3, Zenon DEF AnalysisEnds, argv, a
  <2>16. use \in Use
    <3>1. corpus[1] \in Setting BY <1>3, OptionalIs
    <3>2. [coverage |-> argv[3], state |-> argv[5], tracker |-> argv[10]] \in Label BY <2>5, <2>14 DEF Label
    <3> QED BY <3>1, <3>2 DEF Use
  <2>17. <<argv>> \in Optional(Seq(Lexicon)) /\ <<use>> \in Optional(Use) BY <2>12, <2>16, OptionalHas, Zenon
  <2>18. use = [with |-> [coverage |-> crit.coverage[1], state |-> crit.state[1], tracker |-> crit.tracker], made |-> corpus[1]]
    BY <2>14
  <2> HIDE DEF use
  <2>19. /\ EarlyFailure \in Dir /\ dry \in Dir /\ full \in Dir /\ failed \in Dir
    BY <1>0, <2>17, NoDirIn DEF Dir, NoDir
  <2>20. /\ EarlyFailure.corpus = <<>> /\ EarlyFailure.used = <<>> /\ dry.corpus = <<>> /\ dry.used = <<>>
         /\ full.corpus = <<>> /\ full.used = <<use>> /\ failed.corpus = <<>> /\ failed.used = <<use>>
    BY DEF NoDir, EarlyFailure
  <2> HIDE DEF dry, full, failed
  <2>21. d \in Dir /\ d.corpus = <<>> /\ (d.used = <<>> \/ d.used = <<use>>)
    BY <2>15, <2>19, <2>20
  <2> QED BY <1>3, <2>18, <2>21, Zenon DEF AnalysisLeft, crit, a
<1> QED BY <1>1, <1>2, <1>3

\* Prepare_analysis makes a configuration of what a log holds.
LEMMA AnalysisMade ==
  ASSUME NEW a \in Seq(Lexicon), NEW args \in AnalysisArgs, ~prepare_analysis(args, <<a>>).raised
  PROVE  prepare_analysis(args, <<a>>).cfg \in AnalysisConfig
<1>1. <<a>>[1] = a OBVIOUS
<1> DEFINE made == prepare_analysis(args, <<a>>)
           top == Integer(a, "--top-pass", "10")
           number == override(args.top_pass, top.value)
           select == Word(a, "--selection", "sort")
           selection == override(args.selection, select.value)
           metric == Word(a, "--metric", "ochiai")
           cover == override(args.reduce_cover, has_flag(a, "--reduce-cover"))
           trailing == override(args.simulator_args, trailing_args(a, <<"-c", "5000000">>))
           refused == top.raised \/ selection \notin {"random", "sort", "diverse"} \/ Numbers[number] < 0
           new == [top_pass |-> number, selection |-> selection, metric |-> override(args.metric, metric.value),
                   reduce_cover |-> cover, simulator_args |-> trailing]
<1>2. made = IF refused THEN [raised |-> TRUE] ELSE [raised |-> FALSE, cfg |-> new]
  BY <1>1, Zenon DEF prepare_analysis
<1>3. ~made.raised OBVIOUS
<1> HIDE DEF made, new, refused
<1>4. ~refused /\ made.cfg = new
  <2>1. CASE refused
    <3>1. made = [raised |-> TRUE] BY <2>1, <1>2, Zenon
    <3> QED BY <3>1, <1>3
  <2>2. CASE ~refused
    <3>1. made = [raised |-> FALSE, cfg |-> new] BY <2>2, <1>2, Zenon
    <3> QED BY <3>1, <2>2
  <2> QED BY <2>1, <2>2
<1>5. /\ args.top_pass \in Optional(Number) /\ args.selection \in Optional(Value) /\ args.metric \in Optional(Value)
      /\ args.reduce_cover \in Optional(BOOLEAN) /\ args.simulator_args \in Optional(Seq(Lexicon))
  BY ArgsAssumption
<1>6. number \in Lexicon
  <2>1. ~top.raised BY <1>4, Zenon DEF refused
  <2>2. top.value \in Number BY <2>1 DEF Integer, Number
  <2>3. number \in Number BY <1>5, <2>2, Overridden, Zenon
  <2> QED BY <2>3, NumbersAssumption DEF Number, Value
<1>7. ASSUME NEW w, NEW d \in Lexicon PROVE Word(a, w, d).value \in Lexicon
  <2> DEFINE v == option_value(a, w)
  <2>1. \/ v = [raised |-> FALSE, value |-> <<>>] \/ v = [raised |-> TRUE, value |-> <<>>]
        \/ \E x \in Lexicon : v = [raised |-> FALSE, value |-> <<x>>]
    BY OptionTyped
  <2>2. Word(a, w, d).value = IF v.value = <<>> THEN d ELSE v.value[1]
    <3> HIDE DEF v
    <3>1. Word(a, w, d) = [raised |-> v.raised, value |-> IF v.value = <<>> THEN d ELSE v.value[1]]
      BY Zenon DEF Word, v
    <3> QED BY <3>1
  <2> HIDE DEF v
  <2> QED BY <2>1, <2>2
<1>8. select.value \in Lexicon /\ metric.value \in Lexicon
  BY <1>7, NumbersAssumption DEF OtherWords
<1>9. selection \in Lexicon /\ override(args.metric, metric.value) \in Lexicon
  <2>1. \A v \in Optional(Value) : v \in Optional(Lexicon)
    BY DEF Optional, Value
  <2> HIDE DEF select, metric
  <2> QED BY <2>1, <1>5, <1>8, Overridden, Zenon
<1>10. cover \in BOOLEAN
  <2>1. has_flag(a, "--reduce-cover") \in BOOLEAN BY DEF has_flag
  <2> QED BY <2>1, <1>5, Overridden, Zenon
<1>11. trailing \in Seq(Lexicon)
  <2> DEFINE at == {i \in DOMAIN a : a[i] = "--"}
             index == IndexOf(a, "--")
  <2>1. <<"-c", "5000000">> \in Seq(Lexicon) BY NumbersAssumption DEF Options, OtherWords
  <2>2. CASE at = {}
    <3>1. index = 0 BY <2>2, Zenon DEF IndexOf
    <3>2. trailing_args(a, <<"-c", "5000000">>) = <<"-c", "5000000">> BY <3>1, Zenon DEF trailing_args
    <3> QED BY <2>1, <3>2, <1>5, Overridden, Zenon
  <2>3. CASE at # {}
    <3>1. at \in SUBSET Nat OBVIOUS
    <3>2. PICK m \in at : \A x \in at : m <= x BY <2>3, <3>1, LeastNat
    <3>3. Min(at) = m BY <3>1, <3>2, MinOf
    <3>4. index = m /\ m \in 1 .. Len(a) BY <2>3, <3>3 DEF IndexOf
    <3>5. SubSeq(a, m + 1, Len(a)) \in Seq(Lexicon)
      <4>1. m \in 1 .. Len(a) /\ Len(a) \in Nat /\ \A i \in 1 .. Len(a) : a[i] \in Lexicon BY <3>4
      <4> QED BY <4>1
    <3>6. trailing_args(a, <<"-c", "5000000">>) = SubSeq(a, m + 1, Len(a)) BY <3>4 DEF trailing_args
    <3> QED BY <3>5, <3>6, <1>5, Overridden, Zenon
  <2> QED BY <2>2, <2>3
<1> HIDE DEF number, selection, metric, cover, trailing
<1>12. new \in AnalysisConfig
  BY <1>6, <1>9, <1>10, <1>11 DEF new, AnalysisConfig
<1> QED BY <1>4, <1>12 DEF made

-----------------------------------------------------------------------------
(* The invariant of the runs                                               *)

\* The script before or between its uses, running, and ended.
IdlePass == [phase : {"idle"}, count : Nat]
RunPass ==
  [phase : {"run", "leaving"}, count : Nat, args : PassArgs, wanted : SUBSET (Nat \X Cases), workers : Nat,
   queue : SUBSET (Nat \X Cases), pending : SUBSET (Nat \X Cases),
   done : SUBSET [job : Nat \X Cases, ok : BOOLEAN], failures : SUBSET (Nat \X Cases), stop : BOOLEAN]
OverPass == [phase : {"over"}, count : Nat, args : PassArgs, code : Nat, wanted : SUBSET (Nat \X Cases)]

\* The values of the variables.
TypeOK ==
  /\ runs \in Seq(RunDir)
  /\ batch \in [phase : {"idle", "run", "leaving"}, todo : SUBSET Cases, ended : SUBSET Cases, interrupts : Nat]
  /\ pass \in IdlePass \union RunPass \union OverPass

\* One command runs at a time, and a batch has a directory.
OneCommand ==
  /\ batch.phase = "idle" => batch.todo = {} /\ batch.ended = {}
  /\ batch.phase # "idle" => pass.phase = "idle" /\ Len(runs) > 0

\* The part of the invariant that is about the runs.
RunsInv == TypeOK /\ OneCommand /\ Good(runs)

\* The script can always be left idle.
LEMMA PassCount ==
  ASSUME TypeOK
  PROVE  pass.count \in Nat /\ Gone \in IdlePass /\ Gone.phase = "idle"
<1>1. pass.count \in Nat BY DEF TypeOK, IdlePass, RunPass, OverPass
<1> QED BY <1>1 DEF Gone, NoPass, IdlePass

\* There is no run at the beginning.
LEMMA RunsInit == Init => RunsInv
<1> SUFFICES ASSUME Init PROVE RunsInv OBVIOUS
<1>1. TypeOK BY DEF Init, TypeOK, Idle, NoPass, IdlePass
<1>2. OneCommand BY DEF Init, OneCommand, Idle, NoPass
<1>3. Good(runs)
  <2>1. DOMAIN runs = {} BY DEF Init
  <2> QED BY <2>1, Zenon DEF Good
<1> QED BY <1>1, <1>2, <1>3, Zenon DEF RunsInv

\* A run that follows from one there is keeps the invariant.
LEMMA StartRunKeeps ==
  ASSUME RunsInv,
         NEW kind \in {"gen", "rerun", "analysis"}, NEW parent \in Nat, NEW args \in GenArgs \union RerunArgs \union AnalysisArgs,
         NEW cfg \in Config \union AnalysisConfig, NEW cases \in SUBSET Cases, NEW corpora \in [Cases -> Optional(Setting)],
         StartRun(kind, parent, args, cfg, cases, corpora),
         kind # "analysis" => cfg \in Config, kind = "analysis" => cfg \in AnalysisConfig,
         kind # "gen" => parent \in DOMAIN runs /\ \A c \in Cases : corpora[c] = runs[parent].dir[c].corpus,
         kind = "rerun" => runs[parent].kind # "analysis" /\ args \in RerunArgs /\ Kept(cfg, args, runs[parent].cfg)
  PROVE  RunsInv'
<1> DEFINE none == [c \in Cases |-> NoDir]
           r == [kind |-> kind, parent |-> parent, args |-> args, cfg |-> cfg, corpora |-> corpora, rows |-> {}, dir |-> none]
<1>1. runs' = Append(runs, r) /\ batch' = [batch EXCEPT !.phase = "run", !.todo = cases] /\ pass' = Gone
  BY DEF StartRun
<1>2. /\ runs \in Seq(RunDir) /\ Good(runs) /\ pass' \in IdlePass /\ pass'.phase = "idle"
      /\ batch \in [phase : {"idle", "run", "leaving"}, todo : SUBSET Cases, ended : SUBSET Cases, interrupts : Nat]
  BY <1>1, PassCount DEF RunsInv, TypeOK
<1>3. none \in [Cases -> Dir] BY NoDirIn
<1>4. /\ r.kind = kind /\ r.parent = parent /\ r.args = args /\ r.cfg = cfg /\ r.corpora = corpora /\ r.dir = none
  OBVIOUS
<1>a. r \in RunDir
  <2> HIDE DEF none
  <2> QED BY <1>3 DEF RunDir
<1> HIDE DEF r
<1>5. DOMAIN runs = 1 .. Len(runs) /\ Len(runs) \in Nat BY <1>2
<1>b. (Len(runs) + 1) - 1 = Len(runs) BY <1>5
<1>6. Follows(runs, r, Len(runs) + 1)
  <2>1. r.kind # "gen" => r.parent \in 1 .. (Len(runs) + 1) - 1 BY <1>4, <1>5, <1>b
  <2> QED BY <1>4, <2>1, Zenon DEF Follows
<1>7. Good(runs') BY <1>1, <1>2, <1>4, <1>a, <1>6, GoodGrows, Zenon
<1>8. runs' \in Seq(RunDir) /\ Len(runs') > 0 BY <1>1, <1>2, <1>a
<1>9. /\ batch' \in [phase : {"idle", "run", "leaving"}, todo : SUBSET Cases, ended : SUBSET Cases, interrupts : Nat]
      /\ batch'.phase = "run"
  BY <1>1, <1>2
<1>10. TypeOK' BY <1>2, <1>8, <1>9 DEF TypeOK
<1>11. OneCommand' BY <1>2, <1>8, <1>9 DEF OneCommand
<1> QED BY <1>7, <1>10, <1>11 DEF RunsInv

\* What remains when the directory of one case changes.
Changed(qs, rs, n, c, d) ==
  /\ qs \in Seq(RunDir) /\ Len(qs) = Len(rs) /\ DOMAIN qs = DOMAIN rs /\ qs[n].dir[c] = d
  /\ \A i \in DOMAIN rs : SameRun(qs[i], rs[i])
  /\ \A i \in DOMAIN rs, e \in Cases : (i # n \/ e # c) => qs[i].dir[e] = rs[i].dir[e]

\* A case that ends changes its own directory only.
LEMMA DirChanged ==
  ASSUME NEW rs \in Seq(RunDir), NEW n \in DOMAIN rs, NEW c \in Cases, NEW d \in Dir,
         NEW qs, qs = [rs EXCEPT ![n].dir[c] = d]
  PROVE  Changed(qs, rs, n, c, d)
<1>1. \A i \in DOMAIN rs : rs[i] \in RunDir OBVIOUS
<1>2. DOMAIN qs = DOMAIN rs /\ Len(qs) = Len(rs) OBVIOUS
<1>3. ASSUME NEW i \in DOMAIN rs PROVE qs[i] = IF i = n THEN [rs[n] EXCEPT !.dir = [rs[n].dir EXCEPT ![c] = d]] ELSE rs[i]
  OBVIOUS
<1>4. ASSUME NEW r \in RunDir, NEW q, q = [r EXCEPT !.dir = [r.dir EXCEPT ![c] = d]]
      PROVE  /\ q \in RunDir /\ SameRun(q, r) /\ q.dir[c] = d /\ \A e \in Cases : e # c => q.dir[e] = r.dir[e]
  <2>1. r.dir \in [Cases -> Dir] BY DEF RunDir
  <2> DEFINE f == [r.dir EXCEPT ![c] = d]
  <2>2. f \in [Cases -> Dir] /\ f[c] = d /\ \A e \in Cases : e # c => f[e] = r.dir[e] BY <2>1
  <2> HIDE DEF f
  <2>3. q = [r EXCEPT !.dir = f] BY <1>4 DEF f
  <2>4. q \in RunDir /\ q.dir = f BY <2>2, <2>3 DEF RunDir
  <2>5. SameRun(q, r) BY <2>3 DEF RunDir, SameRun
  <2> QED BY <2>2, <2>4, <2>5
<1>5. \A i \in DOMAIN rs : qs[i] \in RunDir BY <1>1, <1>3, <1>4
<1>6. qs \in Seq(RunDir) BY <1>2, <1>5
<1>7. \A r : SameRun(r, r) BY Zenon DEF SameRun
<1>8. ASSUME NEW i \in DOMAIN rs, i # n PROVE qs[i] = rs[i] BY <1>3, <1>8
<1>9. qs[n] = [rs[n] EXCEPT !.dir = [rs[n].dir EXCEPT ![c] = d]] BY <1>3
<1>10. SameRun(qs[n], rs[n]) /\ qs[n].dir[c] = d /\ \A e \in Cases : e # c => qs[n].dir[e] = rs[n].dir[e]
  BY <1>1, <1>4, <1>9
<1> QED BY <1>2, <1>6, <1>7, <1>8, <1>10 DEF Changed

\* What another run reads of a run directory.
LEMMA CorpusTyped ==
  ASSUME RunsInv, NEW i \in DOMAIN runs
  PROVE  /\ runs[i] \in RunDir /\ runs[i].dir \in [Cases -> Dir] /\ runs[i].rows \in SUBSET Cases
         /\ Corpora(i) \in [Cases -> Optional(Setting)]
         /\ \A c \in Cases : Corpora(i)[c] = runs[i].dir[c].corpus /\ runs[i].dir[c].cmd \in Optional(Seq(Lexicon))
<1>1. runs[i] \in RunDir BY DEF RunsInv, TypeOK
<1>2. runs[i].dir \in [Cases -> Dir] /\ runs[i].rows \in SUBSET Cases BY <1>1 DEF RunDir
<1>3. \A c \in Cases : runs[i].dir[c].corpus \in Optional(Setting) /\ runs[i].dir[c].cmd \in Optional(Seq(Lexicon))
  BY <1>2, DirFields
<1> QED BY <1>1, <1>2, <1>3 DEF Corpora

\* A generation begins from an ELF file or a saved corpus.
LEMMA GenerateKeeps ==
  ASSUME RunsInv, Generate
  PROVE  RunsInv'
<1>1. PICK args \in GenArgs : \E corpus \in {<<>>} \union SavedCorpora :
        StartRun("gen", 0, args, generation_config(args), args.cases, [c \in Cases |-> corpus])
  BY Zenon DEF Generate
<1>a. PICK corpus \in {<<>>} \union SavedCorpora :
        StartRun("gen", 0, args, generation_config(args), args.cases, [c \in Cases |-> corpus])
  BY <1>1
<1>2. generation_config(args) \in Config BY GeneratedIn
<1>3. args.cases \in SUBSET Cases BY ArgsAssumption
<1>4. corpus \in Optional(Setting)
  <2>1. \A i \in DOMAIN runs, c \in Cases : runs[i].dir[c].corpus \in Optional(Setting)
    BY CorpusTyped
  <2> QED BY <2>1, OptionalHas DEF SavedCorpora
<1> DEFINE cfg == generation_config(args)
           corpora == [c \in Cases |-> corpus]
<1>5. corpora \in [Cases -> Optional(Setting)] BY <1>4
<1> HIDE DEF cfg, corpora
<1>6. StartRun("gen", 0, args, cfg, args.cases, corpora) /\ cfg \in Config BY <1>a, <1>2 DEF cfg, corpora
<1>7. "gen" \in {"gen", "rerun", "analysis"} /\ 0 \in Nat /\ "gen" # "analysis" /\ "gen" # "rerun"
      /\ cfg \in Config \union AnalysisConfig /\ args \in GenArgs \union RerunArgs \union AnalysisArgs
  BY <1>6
<1> QED BY <1>3, <1>5, <1>6, <1>7, StartRunKeeps

\* An analysis reads any run, and takes its words.
LEMMA AnalyzeKeeps ==
  ASSUME RunsInv, Analyze
  PROVE  RunsInv'
<1>1. PICK k \in DOMAIN runs, args \in AnalysisArgs :
        \E first \in Commands(k, read_status_cases(runs[k], FALSE)) \ {<<>>} :
          LET made == prepare_analysis(args, first)
          IN  ~made.raised /\ StartRun("analysis", k, args, made.cfg, read_status_cases(runs[k], FALSE), Corpora(k))
  BY Zenon DEF Analyze
<1> DEFINE cases == read_status_cases(runs[k], FALSE)
           corpora == Corpora(k)
<1>2. PICK first \in Commands(k, cases) \ {<<>>} :
        /\ ~prepare_analysis(args, first).raised
        /\ StartRun("analysis", k, args, prepare_analysis(args, first).cfg, cases, corpora)
  BY <1>1
<1>3. cases \in SUBSET Cases BY CorpusTyped DEF read_status_cases
<1>4. corpora \in [Cases -> Optional(Setting)] /\ \A c \in Cases : corpora[c] = runs[k].dir[c].corpus
  BY CorpusTyped
<1> HIDE DEF cases, corpora
<1>5. PICK c \in cases : first = runs[k].dir[c].cmd BY DEF Commands
<1>6. first \in Optional(Seq(Lexicon)) /\ first # <<>> BY <1>2, <1>3, <1>5, CorpusTyped
<1>7. first[1] \in Seq(Lexicon) /\ first = <<first[1]>> BY <1>6, OptionalIs
<1> DEFINE cfg == prepare_analysis(args, first).cfg
<1>8. cfg \in AnalysisConfig
  <2> DEFINE a == first[1]
  <2>1. a \in Seq(Lexicon) /\ first = <<a>> BY <1>7
  <2> HIDE DEF a
  <2>2. ~prepare_analysis(args, <<a>>).raised BY <1>2, <2>1
  <2>3. prepare_analysis(args, <<a>>).cfg \in AnalysisConfig BY <2>1, <2>2, AnalysisMade
  <2> QED BY <2>1, <2>3
<1>9. StartRun("analysis", k, args, cfg, cases, corpora) BY <1>2
<1> HIDE DEF cfg
<1>10. "analysis" \in {"gen", "rerun", "analysis"} /\ k \in Nat /\ "analysis" # "gen" /\ "analysis" # "rerun"
       /\ cfg \in Config \union AnalysisConfig /\ args \in GenArgs \union RerunArgs \union AnalysisArgs
  BY <1>8 DEF RunsInv, TypeOK
<1> QED BY <1>3, <1>4, <1>8, <1>9, <1>10, StartRunKeeps

\* A rerun reads a generation or a rerun.
LEMMA RerunKeeps ==
  ASSUME RunsInv, Rerun
  PROVE  RunsInv'
<1>1. PICK k \in DOMAIN runs, args \in RerunArgs :
        \E first \in Commands(k, read_status_cases(runs[k], TRUE)) :
          LET made == prepare_rerun(args, Commands(k, read_status_cases(runs[k], TRUE)), first)
          IN  ~made.raised /\ StartRun("rerun", k, args, made.cfg, read_status_cases(runs[k], TRUE), Corpora(k))
  BY Zenon DEF Rerun
<1> DEFINE cases == read_status_cases(runs[k], TRUE)
           corpora == Corpora(k)
<1>2. PICK first \in Commands(k, cases) :
        /\ ~prepare_rerun(args, Commands(k, cases), first).raised
        /\ StartRun("rerun", k, args, prepare_rerun(args, Commands(k, cases), first).cfg, cases, corpora)
  BY <1>1
<1>3. cases \in SUBSET Cases /\ \A c \in cases : runs[k].dir[c].corpus # <<>> BY CorpusTyped DEF read_status_cases
<1>4. corpora \in [Cases -> Optional(Setting)] /\ \A c \in Cases : corpora[c] = runs[k].dir[c].corpus
  BY CorpusTyped
<1> HIDE DEF cases, corpora
<1>5. PICK c \in cases : first = runs[k].dir[c].cmd BY DEF Commands
<1> DEFINE commands == Commands(k, cases)
           cfg == prepare_rerun(args, commands, first).cfg
           old == runs[k].cfg
           resume == runs[k].corpora[c] # <<>>
<1>6. Follows(runs, runs[k], k) /\ DirOK(runs[k], c) /\ runs[k].dir[c].corpus # <<>> /\ resume \in BOOLEAN
  BY <1>3, Zenon DEF RunsInv, Good
<1>7. runs[k].kind # "analysis" BY <1>6, Zenon DEF DirOK
<1>8. first = <<generation_args(old, resume)>> BY <1>5, <1>6, <1>7, Zenon DEF DirOK
<1>9. old \in Config BY <1>6, <1>7, Zenon DEF Follows
<1> HIDE DEF commands, old, resume
<1>10. cfg \in Config /\ Kept(cfg, args, old)
  <2>1. ~prepare_rerun(args, commands, <<generation_args(old, resume)>>).raised BY <1>2, <1>8, Zenon DEF commands
  <2> QED BY <1>6, <1>8, <1>9, <2>1, RerunMade, Zenon
<1>11. StartRun("rerun", k, args, cfg, cases, corpora) BY <1>2, Zenon DEF commands
<1> HIDE DEF cfg
<1>12. "rerun" \in {"gen", "rerun", "analysis"} /\ k \in Nat /\ "rerun" # "gen" /\ "rerun" # "analysis"
       /\ cfg \in Config \union AnalysisConfig /\ args \in GenArgs \union RerunArgs \union AnalysisArgs
  BY <1>10 DEF RunsInv, TypeOK
<1>13. Kept(cfg, args, runs[k].cfg) BY <1>10 DEF old
<1> QED BY <1>3, <1>4, <1>7, <1>10, <1>11, <1>12, <1>13, StartRunKeeps

\* A case uses one corpus at most.
LEMMA OneUse ==
  ASSUME NEW used, NEW u, used = <<>> \/ used = <<u>>, used # <<>> => Agrees(u)
  PROVE  \A x \in Range(used) : Agrees(x)
<1>1. CASE used = <<>>
  <2>1. DOMAIN used = {} BY <1>1
  <2> QED BY <2>1, Zenon DEF Range
<1>2. CASE used = <<u>>
  <2>1. DOMAIN used = {1} /\ used[1] = u /\ used # <<>> BY <1>2
  <2>2. \A x \in Range(used) : x = u BY <2>1, Zenon DEF Range
  <2> QED BY <2>1, <2>2
<1> QED BY <1>1, <1>2

\* Where a corpus comes from.
LEMMA CorpusMade ==
  ASSUME RunsInv, NEW i \in DOMAIN runs, runs[i].kind # "gen", NEW c \in Cases, runs[i].corpora[c] # <<>>
  PROVE  \E cfg \in Config, resume \in BOOLEAN :
           /\ runs[i].corpora[c] = <<Settings(cfg)>> /\ cfg = runs[runs[i].parent].cfg
           /\ runs[runs[i].parent].dir[c].cmd = <<generation_args(cfg, resume)>>
<1> DEFINE p == runs[i].parent
           resume == runs[p].corpora[c] # <<>>
<1>1. Follows(runs, runs[i], i) BY Zenon DEF RunsInv, Good
<1>2. p \in 1 .. i - 1 /\ runs[i].corpora[c] = runs[p].dir[c].corpus BY <1>1, Zenon DEF Follows
<1>3. p \in DOMAIN runs BY <1>2 DEF RunsInv, TypeOK
<1>4. Follows(runs, runs[p], p) /\ DirOK(runs[p], c) BY <1>3, Zenon DEF RunsInv, Good
<1>5. runs[p].kind # "analysis" BY <1>2, <1>4, Zenon DEF DirOK
<1>6. runs[p].cfg \in Config BY <1>4, <1>5, Zenon DEF Follows
<1>7. /\ runs[p].dir[c].cmd = <<generation_args(runs[p].cfg, resume)>>
      /\ runs[p].dir[c].corpus = <<Settings(runs[p].cfg)>>
  BY <1>2, <1>4, <1>5, Zenon DEF DirOK
<1>8. resume \in BOOLEAN OBVIOUS
<1> HIDE DEF p, resume
<1> QED BY <1>2, <1>6, <1>7, <1>8, Zenon DEF p

\* A case ends.
LEMMA RunCaseKeeps ==
  ASSUME RunsInv, NEW c \in Cases, RunCase(c)
  PROVE  RunsInv'
<1> DEFINE n == Len(runs)
           r == runs[n]
<1>1. /\ runs \in Seq(RunDir) /\ Good(runs) /\ n > 0 /\ n \in DOMAIN runs /\ r \in RunDir /\ pass.phase = "idle"
      /\ batch.phase # "idle"
  BY DEF RunsInv, TypeOK, OneCommand, RunCase
<1>2. PICK d \in (IF r.kind = "analysis"
                  THEN AnalysisEnds(r.cfg, r.corpora[c], runs[r.parent].dir[c].cmd, r.args.dry_run)
                  ELSE GenerationEnds(r.cfg, r.corpora[c], r.args.dry_run)) :
        runs' = [runs EXCEPT ![n].dir[c] = d]
  BY Zenon DEF RunCase, Run, Now
<1> HIDE DEF n, r
<1>3. /\ r.corpora[c] \in Optional(Setting) /\ r.args.dry_run \in BOOLEAN
      /\ r.kind \in {"gen", "rerun", "analysis"}
  <2>1. /\ r.args \in GenArgs \union RerunArgs \union AnalysisArgs /\ r.corpora \in [Cases -> Optional(Setting)]
        /\ r.kind \in {"gen", "rerun", "analysis"}
    BY <1>1 DEF RunDir
  <2>2. /\ \A a \in GenArgs : a.dry_run \in BOOLEAN
        /\ \A a \in RerunArgs : a.dry_run \in BOOLEAN
        /\ \A a \in AnalysisArgs : a.dry_run \in BOOLEAN
    BY ArgsAssumption
  <2> QED BY <2>1, <2>2
<1>4. Follows(runs, r, n) BY <1>1, Zenon DEF Good, r
<1>5. ASSUME r.kind # "gen", r.corpora[c] # <<>>
      PROVE  \E cfg \in Config, resume \in BOOLEAN :
               /\ r.corpora[c] = <<Settings(cfg)>> /\ cfg = runs[r.parent].cfg
               /\ runs[r.parent].dir[c].cmd = <<generation_args(cfg, resume)>>
  BY <1>1, <1>5, CorpusMade, Zenon DEF r
<1>6. /\ d \in Dir
      /\ r.kind = "analysis" => d.corpus = <<>>
      /\ r.kind # "analysis" =>
           /\ d.cmd = <<>> \/ d.cmd = <<generation_args(r.cfg, r.corpora[c] # <<>>)>>
           /\ d.corpus = <<>> \/ (d.corpus = <<Settings(r.cfg)>> /\ d.cmd # <<>>)
      /\ r.kind # "gen" => \A u \in Range(d.used) : Agrees(u)
  <2>1. CASE r.kind = "analysis"
    <3> DEFINE command == runs[r.parent].dir[c].cmd
               corpus == r.corpora[c]
    <3>0. d \in AnalysisEnds(r.cfg, corpus, command, r.args.dry_run) BY <1>2, <2>1
    <3>1. r.cfg \in AnalysisConfig BY <1>4, <2>1, Zenon DEF Follows
    <3>2. command \in Optional(Seq(Lexicon))
      <4>1. r.parent \in 1 .. n - 1
        <5>1. r.kind # "gen" BY <2>1
        <5> QED BY <1>4, <5>1, Zenon DEF Follows
      <4>2. r.parent \in DOMAIN runs BY <4>1, <1>1
      <4> QED BY <4>2, CorpusTyped
    <3>3. AnalysisLeft(corpus, command, d) BY <1>3, <3>0, <3>1, <3>2, AnalysisLeaves, Zenon
    <3> DEFINE with == [coverage |-> Critical(command[1]).coverage[1], state |-> Critical(command[1]).state[1],
                        tracker |-> Critical(command[1]).tracker]
               u == [with |-> with, made |-> corpus[1]]
    <3>4. /\ d \in Dir /\ d.corpus = <<>> /\ (d.used = <<>> \/ (d.used = <<u>> /\ corpus # <<>>))
      BY <3>3, Zenon DEF AnalysisLeft
    <3>5. ASSUME corpus # <<>> PROVE Agrees(u)
      <4>1. PICK cfg \in Config, resume \in BOOLEAN :
              corpus = <<Settings(cfg)>> /\ command = <<generation_args(cfg, resume)>>
        BY <1>5, <2>1, <3>5
      <4> DEFINE argv == generation_args(cfg, resume)
      <4>2. Critical(argv) = [raised |-> FALSE, coverage |-> <<cfg.coverage>>, state |-> <<cfg.state>>, tracker |-> cfg.tracker_window_size]
        BY CriticalBack
      <4>3. command[1] = argv /\ corpus[1] = Settings(cfg)
        <5>1. command = <<argv>> BY <4>1
        <5> HIDE DEF command, corpus, argv
        <5> QED BY <5>1, <4>1
      <4> HIDE DEF argv, command, corpus
      <4>4. with = [coverage |-> cfg.coverage, state |-> cfg.state, tracker |-> cfg.tracker_window_size]
        BY <4>2, <4>3
      <4>5. u.with = with /\ u.made = Settings(cfg) BY <4>3
      <4> HIDE DEF with, u
      <4> QED BY <4>4, <4>5 DEF Agrees, Settings
    <3> HIDE DEF u, corpus
    <3>6. \A x \in Range(d.used) : Agrees(x) BY <3>4, <3>5, OneUse, Zenon
    <3> QED BY <2>1, <3>4, <3>6
  <2>2. CASE r.kind # "analysis"
    <3> DEFINE corpus == r.corpora[c]
               cfg == r.cfg
    <3>0. d \in GenerationEnds(cfg, corpus, r.args.dry_run) BY <1>2, <2>2
    <3>1. cfg \in Config BY <1>4, <2>2, Zenon DEF Follows
    <3>2. LeftBy(cfg, corpus, d) BY <1>3, <3>0, <3>1, GenerationLeaves, Zenon
    <3>3. ASSUME r.kind # "gen" PROVE \A x \in Range(d.used) : Agrees(x)
      <4> DEFINE u == [with |-> Settings(cfg), made |-> corpus[1]]
      <4>1. d.used = <<>> \/ (d.used = <<u>> /\ corpus # <<>>) BY <3>2, Zenon DEF LeftBy
      <4>2. ASSUME corpus # <<>> PROVE Agrees(u)
        <5>1. PICK old \in Config : corpus = <<Settings(old)>> /\ old = runs[r.parent].cfg BY <1>5, <3>3, <4>2
        <5>2. r.kind = "rerun" BY <1>3, <2>2, <3>3
        <5>3. Kept(cfg, r.args, old) BY <1>4, <5>1, <5>2, Zenon DEF Follows
        <5>4. Settings(cfg) = Settings(old) BY <5>3, Zenon DEF Settings, Kept
        <5>5. corpus[1] = Settings(old) BY <5>1
        <5> DEFINE s == Settings(cfg)
        <5>6. u = [with |-> s, made |-> s] BY <5>4, <5>5
        <5> HIDE DEF u, s
        <5>7. u.with = u.made BY <5>6
        <5> QED BY <5>7, Zenon DEF Agrees
      <4> HIDE DEF u, corpus
      <4> QED BY <4>1, <4>2, OneUse, Zenon
    <3> QED BY <2>2, <3>2, <3>3, Zenon DEF LeftBy
  <2> QED BY <2>1, <2>2
<1> DEFINE qs == runs'
<1>7. /\ qs \in Seq(RunDir) /\ Len(qs) = n /\ DOMAIN qs = DOMAIN runs /\ qs[n].dir[c] = d
      /\ \A i \in DOMAIN runs : SameRun(qs[i], runs[i])
      /\ \A i \in DOMAIN runs, e \in Cases : (i # n \/ e # c) => qs[i].dir[e] = runs[i].dir[e]
  <2>1. qs = [runs EXCEPT ![n].dir[c] = d] BY <1>2
  <2> HIDE DEF qs
  <2>2. Changed(qs, runs, n, c, d) BY <2>1, <1>1, <1>6, DirChanged, Zenon
  <2> QED BY <2>2 DEF n, Changed
<1> HIDE DEF qs
<1>8. DirOK(qs[n], c)
  <2>1. /\ qs[n].kind = r.kind /\ qs[n].cfg = r.cfg /\ qs[n].corpora = r.corpora
    BY <1>1, <1>7, Zenon DEF SameRun, r
  <2> QED BY <1>6, <1>7, <2>1, Zenon DEF DirOK
<1>9. \A i \in DOMAIN runs, e \in Cases : SameDir(qs[i].dir[e], runs[i].dir[e]) \/ (i = n /\ DirOK(qs[i], e))
  BY <1>7, <1>8, Zenon DEF SameDir
<1>10. Good(qs) BY <1>1, <1>7, <1>9, GoodStays, Zenon DEF n
<1>11. /\ batch' \in [phase : {"idle", "run", "leaving"}, todo : SUBSET Cases, ended : SUBSET Cases, interrupts : Nat]
       /\ batch'.phase = batch.phase /\ pass' = pass
  BY DEF RunsInv, TypeOK, RunCase
<1>12. TypeOK' BY <1>7, <1>11 DEF TypeOK, RunsInv, qs
<1>13. OneCommand' BY <1>1, <1>7, <1>11 DEF OneCommand, qs
<1> QED BY <1>10, <1>12, <1>13 DEF RunsInv, qs

-----------------------------------------------------------------------------
(* The job window of the script.                                           *)

\* The jobs of the queue before d.
Below(Q, d) == {e \in Q : Before(e, d)}

\* The directories are in one order.
LEMMA BeforeFacts ==
  ASSUME NEW d \in Nat \X Cases, NEW e \in Nat \X Cases, NEW g \in Nat \X Cases
  PROVE  /\ ~Before(d, d) /\ (d = e \/ Before(d, e) \/ Before(e, d))
         /\ Before(d, e) /\ Before(e, g) => Before(d, g)
<1>1. Cases \subseteq Nat BY BoundsAssumption
<1>2. /\ d[1] \in Nat /\ d[2] \in Nat /\ e[1] \in Nat /\ e[2] \in Nat /\ g[1] \in Nat /\ g[2] \in Nat
  BY <1>1
<1>3. d[1] = e[1] /\ d[2] = e[2] => d = e
  OBVIOUS
<1> QED BY <1>2, <1>3 DEF Before

\* A later job has more jobs before it.
LEMMA BelowGrows ==
  ASSUME NEW Q \in SUBSET (Nat \X Cases), IsFiniteSet(Q), NEW d \in Q, NEW e \in Q, Before(d, e)
  PROVE  /\ Cardinality(Below(Q, d)) \in Nat /\ Cardinality(Below(Q, e)) \in Nat
         /\ Cardinality(Below(Q, d)) < Cardinality(Below(Q, e))
<1> DEFINE D == Below(Q, d)
           E == Below(Q, e)
<1>1. D \subseteq Q /\ E \subseteq Q BY DEF Below
<1>2. d \notin D /\ D \union {d} \subseteq E BY BeforeFacts DEF Below
<1> HIDE DEF D, E
<1>3. IsFiniteSet(D) /\ IsFiniteSet(E) BY <1>1, FS_Subset
<1>4. Cardinality(D) \in Nat /\ Cardinality(E) \in Nat BY <1>3, FS_CardinalityType
<1>5. Cardinality(D \union {d}) = Cardinality(D) + 1 BY <1>2, <1>3, FS_AddElement
<1>6. Cardinality(D \union {d}) <= Cardinality(E) BY <1>2, <1>3, FS_Subset
<1> QED BY <1>4, <1>5, <1>6 DEF D, E

\* A queue that is not empty has a first job.
LEMMA FirstIn ==
  ASSUME NEW Q \in SUBSET (Nat \X Cases), Q # {}
  PROVE  \E d \in Q : Below(Q, d) = {}
<1>0. Cases \subseteq Nat BY BoundsAssumption
<1> DEFINE A == {d[1] : d \in Q}
<1>1. A \in SUBSET Nat /\ A # {} OBVIOUS
<1>2. PICK m \in A : \A x \in A : m <= x BY <1>1, LeastNat
<1> DEFINE B == {d[2] : d \in {e \in Q : e[1] = m}}
<1>3. B \in SUBSET Nat /\ B # {} BY <1>0, <1>2
<1>4. PICK n \in B : \A x \in B : n <= x BY <1>3, LeastNat
<1>5. PICK d \in Q : d[1] = m /\ d[2] = n BY <1>4
<1>6. ASSUME NEW e \in Q PROVE ~Before(e, d)
  <2>1. e[1] \in A /\ (e[1] = m => e[2] \in B) OBVIOUS
  <2>2. m <= e[1] /\ (e[1] = m => n <= e[2]) BY <2>1, <1>2, <1>4
  <2>3. e[1] \in Nat /\ e[2] \in Nat /\ m \in Nat /\ n \in Nat BY <1>0, <1>1, <1>3
  <2> HIDE DEF A, B
  <2> QED BY <2>2, <2>3, <1>5 DEF Before
<1> QED BY <1>6 DEF Below

\* Refill takes jobs of the queue, no more than may run and not none.
LEMMA RefillFacts ==
  ASSUME NEW Q \in SUBSET (Nat \X Cases), IsFiniteSet(Q), NEW free \in Nat
  PROVE  /\ Refill(Q, free) \subseteq Q /\ IsFiniteSet(Refill(Q, free)) /\ Cardinality(Refill(Q, free)) <= free
         /\ Cardinality(Refill(Q, free)) \in Nat /\ (free > 0 /\ Q # {} => Refill(Q, free) # {})
<1> DEFINE R == Refill(Q, free)
           T == 0 .. free - 1
           rank == [d \in R |-> Cardinality(Below(Q, d))]
<1>1. R = {d \in Q : Cardinality(Below(Q, d)) < free} BY DEF Refill, Below
<1>2. R \subseteq Q BY <1>1
<1>3. ASSUME NEW d \in Q PROVE Cardinality(Below(Q, d)) \in Nat
  <2>1. Below(Q, d) \subseteq Q BY DEF Below
  <2>2. IsFiniteSet(Below(Q, d)) BY <2>1, FS_Subset
  <2> QED BY <2>2, FS_CardinalityType
<1> HIDE DEF R
<1>4. rank \in [R -> T] BY <1>1, <1>3
<1>5. ASSUME NEW d \in R, NEW e \in R, rank[d] = rank[e] PROVE d = e
  <2>1. Cardinality(Below(Q, d)) = Cardinality(Below(Q, e)) BY <1>5
  <2>2. d \in Q /\ e \in Q BY <1>2
  <2>3. ~Before(d, e) /\ ~Before(e, d)
    <3>1. ASSUME Before(d, e) PROVE FALSE BY <2>1, <2>2, <3>1, BelowGrows
    <3>2. ASSUME Before(e, d) PROVE FALSE BY <2>1, <2>2, <3>2, BelowGrows
    <3> QED BY <3>1, <3>2
  <2> QED BY <2>2, <2>3, BeforeFacts
<1>6. rank \in Injection(R, T)
  <2> HIDE DEF rank, T
  <2>1. DOMAIN rank = R BY <1>4
  <2> QED BY <1>4, <1>5, <2>1, Zenon DEF Injection, IsInjective
<1>7. IsFiniteSet(T) /\ Cardinality(T) = free
  <2>1. 0 \in Int /\ free - 1 \in Int OBVIOUS
  <2>2. IsFiniteSet(0 .. free - 1) /\ Cardinality(0 .. free - 1) = IF 0 > free - 1 THEN 0 ELSE (free - 1) - 0 + 1
    BY <2>1, FS_Interval
  <2> QED BY <2>2
<1>8. IsFiniteSet(R) /\ Cardinality(R) <= free BY <1>6, <1>7, FS_Injection
<1>9. Cardinality(R) \in Nat BY <1>8, FS_CardinalityType
<1>10. ASSUME free > 0, Q # {} PROVE R # {}
  <2>1. PICK d \in Q : Below(Q, d) = {} BY <1>10, FirstIn
  <2>2. Cardinality(Below(Q, d)) = 0 BY <2>1, FS_EmptySet
  <2>3. d \in R BY <1>1, <1>10, <2>2
  <2> QED BY <2>3
<1> QED BY <1>2, <1>8, <1>9, <1>10 DEF R

\* A directory has its ranking; the jobs that are not done well.
Ranked(rs, d) == rs[d[1]].dir[d[2]].llm
Open(p) == p.queue \union p.pending \union p.failures

\* The window p over the directories rs: no more jobs run than there are workers,
\* none are left while there are more to do, and every directory selected is ranked,
\* or its job is waiting, runs or failed.
JobsOK(p, rs) ==
  /\ p.wanted \subseteq (DOMAIN rs) \X Cases /\ Open(p) \subseteq p.wanted
  /\ \A r \in p.done : r.job \in p.pending
  /\ p.workers > 0 /\ Cardinality(p.pending) <= p.workers
  /\ p.pending = {} => p.queue = {} \/ p.stop
  /\ p.stop => p.failures # {}
  /\ p.args.stop_on_error => (p.stop \/ p.failures = {}) /\ Cardinality(p.failures \union p.pending) <= p.workers
  /\ ~p.args.output => \A d \in p.wanted : Ranked(rs, d) \/ d \in Open(p)
  /\ ~p.args.output => \A r \in p.done : r.ok => Ranked(rs, r.job)

\* The directories selected are finitely many.
LEMMA WantedFinite ==
  ASSUME NEW rs \in Seq(RunDir), NEW S, S \subseteq (DOMAIN rs) \X Cases
  PROVE  IsFiniteSet(S) /\ S \subseteq Nat \X Cases /\ Cardinality(S) \in Nat
<1>1. DOMAIN rs = 1 .. Len(rs) /\ Len(rs) \in Int /\ 1 \in Int OBVIOUS
<1>2. IsFiniteSet(DOMAIN rs) BY <1>1, FS_Interval
<1>3. IsFiniteSet((DOMAIN rs) \X Cases) BY <1>2, BoundsAssumption, FS_Product
<1>4. IsFiniteSet(S) BY <1>3, FS_Subset
<1>5. S \subseteq Nat \X Cases BY <1>1
<1> QED BY <1>4, <1>5, FS_CardinalityType

\* The jobs that still run, those that failed, and the window after a wait.
Left(p) == p.pending \ {r.job : r \in p.done}
Failed(p) == {r.job : r \in {x \in p.done : ~x.ok}}
Waited(p, left, failed, stop, next) ==
  [p EXCEPT !.pending = left \union next, !.queue = @ \ next, !.done = {}, !.failures = @ \union failed, !.stop = stop]

\* A wait counts each finished job and refills the window.
LEMMA WaitJobs ==
  ASSUME NEW rs \in Seq(RunDir), NEW p \in RunPass, JobsOK(p, rs),
         NEW left, left = Left(p), NEW failed, failed = Failed(p),
         NEW stop \in BOOLEAN, stop <=> (p.stop \/ (p.args.stop_on_error /\ failed # {})),
         NEW next, next = IF stop THEN {} ELSE Refill(p.queue, p.workers - Cardinality(left)),
         NEW q, q = Waited(p, left, failed, stop, next)
  PROVE  q \in RunPass /\ JobsOK(q, rs)
<1>1. /\ p.wanted \in SUBSET (Nat \X Cases) /\ p.queue \in SUBSET (Nat \X Cases) /\ p.pending \in SUBSET (Nat \X Cases)
      /\ p.failures \in SUBSET (Nat \X Cases) /\ p.workers \in Nat /\ p.stop \in BOOLEAN
      /\ p.done \in SUBSET [job : Nat \X Cases, ok : BOOLEAN]
  BY DEF RunPass
<1>2. /\ p.wanted \subseteq (DOMAIN rs) \X Cases /\ Open(p) \subseteq p.wanted
      /\ (\A r \in p.done : r.job \in p.pending)
      /\ p.workers > 0 /\ Cardinality(p.pending) <= p.workers
      /\ (p.pending = {} => p.queue = {} \/ p.stop)
      /\ (p.stop => p.failures # {})
      /\ (p.args.stop_on_error => (p.stop \/ p.failures = {}) /\ Cardinality(p.failures \union p.pending) <= p.workers)
  BY Zenon DEF JobsOK
<1>3. IsFiniteSet(p.wanted) BY <1>2, WantedFinite
<1>4. p.queue \subseteq p.wanted /\ p.pending \subseteq p.wanted /\ p.failures \subseteq p.wanted BY <1>2 DEF Open
<1>5. IsFiniteSet(p.queue) /\ IsFiniteSet(p.pending) /\ IsFiniteSet(p.failures) BY <1>3, <1>4, FS_Subset
<1>6. left \subseteq p.pending /\ failed \subseteq p.pending BY <1>2 DEF Left, Failed
<1>7. /\ IsFiniteSet(left) /\ Cardinality(left) <= Cardinality(p.pending) /\ Cardinality(left) \in Nat
      /\ Cardinality(p.pending) \in Nat
  BY <1>5, <1>6, FS_Subset, FS_CardinalityType
<1> DEFINE free == p.workers - Cardinality(left)
<1>8. free \in Nat /\ Cardinality(left) + free = p.workers BY <1>1, <1>2, <1>7
<1> DEFINE refill == Refill(p.queue, free)
<1>9. /\ refill \subseteq p.queue /\ IsFiniteSet(refill) /\ Cardinality(refill) <= free /\ Cardinality(refill) \in Nat
      /\ (free > 0 /\ p.queue # {} => refill # {})
  BY <1>1, <1>5, <1>8, RefillFacts
<1>10. next = IF stop THEN {} ELSE refill OBVIOUS
<1>11. /\ q.wanted = p.wanted /\ q.pending = left \union next /\ q.queue = p.queue \ next /\ q.done = {}
       /\ q.failures = p.failures \union failed /\ q.stop = stop /\ q.args = p.args /\ q.workers = p.workers
  BY DEF RunPass, Waited
<1>12. q \in RunPass
  <2>1. next \subseteq p.queue BY <1>9, <1>10
  <2>2. left \union next \in SUBSET (Nat \X Cases) /\ p.queue \ next \in SUBSET (Nat \X Cases)
        /\ p.failures \union failed \in SUBSET (Nat \X Cases)
    BY <1>1, <1>6, <2>1
  <2> DEFINE a == left \union next
             b == p.queue \ next
             f == p.failures \union failed
  <2> HIDE DEF free, refill, a, b, f
  <2>3. q = [p EXCEPT !.pending = a, !.queue = b, !.done = {}, !.failures = f, !.stop = stop] BY Zenon DEF Waited, a, b, f
  <2>4. a \in SUBSET (Nat \X Cases) /\ b \in SUBSET (Nat \X Cases) /\ f \in SUBSET (Nat \X Cases) BY <2>2, Zenon DEF a, b, f
  <2> QED BY <2>3, <2>4 DEF RunPass
<1> HIDE DEF refill
<1>13. q.wanted \subseteq (DOMAIN rs) \X Cases /\ Open(q) \subseteq q.wanted
  BY <1>2, <1>4, <1>6, <1>9, <1>10, <1>11 DEF Open
<1>14. Cardinality(q.pending) <= q.workers
  <2>1. CASE stop
    <3>1. q.pending = left BY <2>1, <1>10, <1>11
    <3> DEFINE l == Cardinality(left)
               m == Cardinality(p.pending)
               w == p.workers
    <3>2. l <= m /\ m <= w /\ l \in Nat /\ m \in Nat /\ w \in Nat BY <1>1, <1>2, <1>7
    <3>3. Cardinality(q.pending) = l /\ q.workers = w BY <3>1, <1>11, Zenon
    <3> HIDE DEF l, m, w
    <3>4. l <= w BY <3>2
    <3> QED BY <3>3, <3>4, Zenon
  <2>2. CASE ~stop
    <3>1. q.pending = left \union refill BY <2>2, <1>10, <1>11
    <3>2. Cardinality(left \union refill) = Cardinality(left) + Cardinality(refill) - Cardinality(left \intersect refill)
      BY <1>7, <1>9, FS_Union
    <3>3. Cardinality(left \intersect refill) \in Nat BY <1>7, FS_Intersection, FS_CardinalityType
    <3> DEFINE l == Cardinality(left)
               m == Cardinality(refill)
               w == p.workers
               i == Cardinality(left \intersect refill)
               k == Cardinality(left \union refill)
    <3>4. k = l + m - i /\ l + free = w /\ m <= free /\ l \in Nat /\ m \in Nat /\ w \in Nat /\ free \in Nat /\ i \in Nat
      BY <3>2, <3>3, <1>1, <1>7, <1>8, <1>9
    <3>5. Cardinality(q.pending) = k /\ q.workers = w BY <3>1, <1>11, Zenon
    <3> HIDE DEF l, m, w, i, k, free
    <3>6. k <= w BY <3>4
    <3> QED BY <3>5, <3>6, Zenon
  <2> QED BY <2>1, <2>2
<1>15. q.pending = {} => q.queue = {} \/ q.stop
  <2>1. ASSUME q.pending = {}, ~stop PROVE p.queue = {}
    <3>1. left = {} /\ refill = {} BY <2>1, <1>10, <1>11
    <3>2. Cardinality(left) = 0 BY <3>1, FS_EmptySet
    <3>3. free > 0 BY <3>2, <1>1, <1>2
    <3> QED BY <3>1, <3>3, <1>9
  <2> QED BY <2>1, <1>11
<1>16. q.stop => q.failures # {} BY <1>2, <1>11
<1>17. q.args.stop_on_error => (q.stop \/ q.failures = {}) /\ Cardinality(q.failures \union q.pending) <= q.workers
  <2> SUFFICES ASSUME p.args.stop_on_error
               PROVE  (stop \/ q.failures = {}) /\ Cardinality(q.failures \union q.pending) <= q.workers
    BY <1>11
  <2>1. (p.stop \/ p.failures = {}) /\ Cardinality(p.failures \union p.pending) <= p.workers BY <1>2
  <2>2. CASE stop
    <3>1. q.failures \union q.pending \subseteq p.failures \union p.pending BY <2>2, <1>6, <1>10, <1>11
    <3>2. IsFiniteSet(p.failures \union p.pending) BY <1>5, FS_Union
    <3>3. Cardinality(q.failures \union q.pending) <= Cardinality(p.failures \union p.pending)
          /\ Cardinality(q.failures \union q.pending) \in Nat /\ Cardinality(p.failures \union p.pending) \in Nat
      BY <3>1, <3>2, FS_Subset, FS_CardinalityType
    <3> DEFINE k == Cardinality(q.failures \union q.pending)
               m == Cardinality(p.failures \union p.pending)
               w == p.workers
    <3>4. k <= m /\ m <= w /\ k \in Nat /\ m \in Nat /\ w \in Nat BY <2>1, <3>3, <1>1
    <3>5. q.workers = w BY <1>11
    <3> HIDE DEF k, m, w
    <3>6. k <= w BY <3>4
    <3> QED BY <2>2, <3>5, <3>6, Zenon DEF k
  <2>3. CASE ~stop
    <3>1. p.failures = {} /\ failed = {} BY <2>1, <2>3
    <3>2. q.failures = {} /\ q.failures \union q.pending = q.pending BY <3>1, <1>11
    <3> QED BY <3>2, <1>14
  <2> QED BY <2>2, <2>3
<1>18. ASSUME ~p.args.output, NEW d \in p.wanted PROVE Ranked(rs, d) \/ d \in Open(q)
  <2>1. Ranked(rs, d) \/ d \in Open(p) BY <1>18, Zenon DEF JobsOK
  <2>2. \A r \in p.done : r.ok => Ranked(rs, r.job) BY <1>18, Zenon DEF JobsOK
  <2>3. CASE d \in p.queue \/ d \in p.failures BY <2>3, <1>11 DEF Open
  <2>4. CASE d \in p.pending
    <3>1. CASE d \in left BY <3>1, <1>11 DEF Open
    <3>2. CASE d \notin left
      <4>1. PICK r \in p.done : r.job = d BY <2>4, <3>2 DEF Left
      <4>2. r.ok => Ranked(rs, d) BY <2>2, <4>1
      <4>3. ~r.ok => d \in failed BY <4>1 DEF Failed
      <4> QED BY <4>2, <4>3, <1>11 DEF Open
    <3> QED BY <3>1, <3>2
  <2> QED BY <2>1, <2>3, <2>4 DEF Open
<1>19. JobsOK(q, rs)
  <2>1. q.workers > 0 BY <1>2, <1>11
  <2>2. \A r \in q.done : FALSE BY <1>11
  <2> QED BY <1>11, <1>13, <1>14, <1>15, <1>16, <1>17, <1>18, <2>1, <2>2, Zenon DEF JobsOK
<1> QED BY <1>12, <1>19

-----------------------------------------------------------------------------
(* The invariant, and that every step keeps it.                            *)

\* The script runs its jobs.
Live == pass.phase \in {"run", "leaving"}

\* The part of the invariant that is about the script: its window while it runs,
\* and its rankings when it has ended with 0.
PassInv ==
  /\ Live => JobsOK(pass, runs)
  /\ pass.phase = "over" /\ pass.code = 0 /\ ~pass.args.output => \A d \in pass.wanted : Ranked(runs, d)

\* The inductive invariant.
CampaignInv == RunsInv /\ PassInv

\* While the script runs no batch does.
LEMMA LivePass ==
  ASSUME RunsInv, Live
  PROVE  pass \in RunPass /\ batch.phase = "idle" /\ runs \in Seq(RunDir)
BY DEF RunsInv, TypeOK, OneCommand, Live, IdlePass, RunPass, OverPass

\* A step that leaves the script alone while it is idle keeps what it promises.
LEMMA IdleKeeps ==
  ASSUME RunsInv', pass'.phase = "idle"
  PROVE  CampaignInv'
<1>1. "idle" # "over" /\ "idle" \notin {"run", "leaving"} OBVIOUS
<1>2. PassInv' BY <1>1, Zenon DEF PassInv, Live
<1> QED BY <1>2, Zenon DEF CampaignInv

\* A run begins with the script idle.
LEMMA StartsIdle ==
  ASSUME RunsInv, Generate \/ Rerun \/ Analyze
  PROVE  pass'.phase = "idle"
<1>1. pass' = Gone BY Zenon DEF Generate, Rerun, Analyze, StartRun
<1> QED BY <1>1, PassCount DEF RunsInv

\* A row is written.
LEMMA AppendRowKeeps ==
  ASSUME RunsInv, NEW c \in Cases, AppendRow(c)
  PROVE  RunsInv' /\ pass'.phase = "idle"
<1> DEFINE n == Len(runs)
           qs == runs'
<1>1. /\ runs \in Seq(RunDir) /\ Good(runs) /\ n > 0 /\ n \in DOMAIN runs /\ pass.phase = "idle" /\ batch.phase = "run"
      /\ \A i \in DOMAIN runs : runs[i] \in RunDir
  BY DEF RunsInv, TypeOK, OneCommand, AppendRow
<1> DEFINE rows == runs[n].rows \union {c}
<1>2. rows \in SUBSET Cases BY <1>1, CorpusTyped
<1>3. qs = [runs EXCEPT ![n] = [runs[n] EXCEPT !.rows = rows]] BY DEF AppendRow, Now
<1>4. /\ batch' \in [phase : {"idle", "run", "leaving"}, todo : SUBSET Cases, ended : SUBSET Cases, interrupts : Nat]
      /\ batch'.phase = batch.phase /\ pass' = pass
  BY DEF RunsInv, TypeOK, AppendRow
<1> DEFINE r == [runs[n] EXCEPT !.rows = rows]
<1>5. r \in RunDir /\ r.dir = runs[n].dir /\ SameRun(r, runs[n])
  <2> HIDE DEF rows
  <2>1. runs[n] \in RunDir BY <1>1
  <2> QED BY <1>2, <2>1 DEF RunDir, SameRun
<1> HIDE DEF r, n, qs, rows
<1>6. DOMAIN qs = DOMAIN runs /\ Len(qs) = n /\ \A i \in DOMAIN runs : qs[i] = IF i = n THEN r ELSE runs[i]
  BY <1>1, <1>3 DEF r, n
<1>7. \A i \in DOMAIN runs : qs[i] \in RunDir /\ qs[i].dir = runs[i].dir /\ SameRun(qs[i], runs[i])
  <2>1. \A q : SameRun(q, q) BY Zenon DEF SameRun
  <2> QED BY <2>1, <1>1, <1>5, <1>6
<1>8. qs \in Seq(RunDir)
  <2>1. qs = [runs EXCEPT ![n] = r] BY <1>3 DEF r
  <2> QED BY <2>1, <1>1, <1>5
<1>9. \A i \in DOMAIN runs : \A e \in Cases : SameDir(qs[i].dir[e], runs[i].dir[e]) BY <1>7, Zenon DEF SameDir
<1>10. Good(qs) BY <1>1, <1>6, <1>7, <1>8, <1>9, GoodStays, Zenon DEF n
<1>11. TypeOK' BY <1>4, <1>8 DEF RunsInv, TypeOK, qs
<1>12. OneCommand' BY <1>1, <1>4, <1>6 DEF OneCommand, qs
<1> QED BY <1>1, <1>4, <1>10, <1>11, <1>12, Zenon DEF RunsInv, qs

\* The batch is interrupted or ends.
LEMMA BatchLeavesKeeps ==
  ASSUME RunsInv, BatchInterrupted \/ BatchEnds
  PROVE  RunsInv' /\ pass'.phase = "idle"
<1>1. batch.phase # "idle" /\ pass.phase = "idle" /\ runs' = runs /\ pass' = pass /\ Len(runs) > 0
  BY DEF BatchInterrupted, BatchEnds, RunsInv, OneCommand
<1>2. /\ batch' \in [phase : {"idle", "run", "leaving"}, todo : SUBSET Cases, ended : SUBSET Cases, interrupts : Nat]
      /\ batch'.phase = "idle" => batch'.todo = {} /\ batch'.ended = {}
  <2>1. batch \in [phase : {"idle", "run", "leaving"}, todo : SUBSET Cases, ended : SUBSET Cases, interrupts : Nat]
    BY DEF RunsInv, TypeOK
  <2>2. CASE BatchInterrupted
    <3>1. batch' = [batch EXCEPT !.phase = "leaving", !.interrupts = batch.interrupts + 1] BY <2>2 DEF BatchInterrupted
    <3>2. batch'.phase = "leaving" BY <2>1, <3>1
    <3>3. batch.interrupts + 1 \in Nat BY <2>1
    <3> DEFINE i == batch.interrupts + 1
    <3> HIDE DEF i
    <3>4. batch' = [batch EXCEPT !.phase = "leaving", !.interrupts = i] /\ i \in Nat BY <3>1, <3>3 DEF i
    <3>5. batch' \in [phase : {"idle", "run", "leaving"}, todo : SUBSET Cases, ended : SUBSET Cases, interrupts : Nat]
      BY <2>1, <3>4
    <3>6. batch'.phase # "idle" BY <3>2
    <3> QED BY <3>5, <3>6
  <2>3. CASE BatchEnds
    <3>1. batch' = Idle(batch.interrupts) /\ batch.interrupts \in Nat BY <2>1, <2>3 DEF BatchEnds
    <3> QED BY <3>1 DEF Idle
  <2> QED BY <2>2, <2>3
<1>3. TypeOK' BY <1>1, <1>2 DEF RunsInv, TypeOK
<1>4. OneCommand' BY <1>1, <1>2 DEF OneCommand
<1>5. Good(runs') BY <1>1 DEF RunsInv
<1> QED BY <1>1, <1>3, <1>4, <1>5, Zenon DEF RunsInv

\* summarize llm writes its file.
LEMMA SummarizeKeeps ==
  ASSUME RunsInv, NEW k \in Roots, SummarizeLlm(k)
  PROVE  RunsInv' /\ pass'.phase = "idle"
<1>1. batch.phase = "idle" /\ runs' = runs /\ batch' = batch /\ pass' = Gone
  BY Zenon DEF SummarizeLlm, Free
<1>2. pass' \in IdlePass /\ pass'.phase = "idle" BY <1>1, PassCount DEF RunsInv
<1>3. TypeOK' BY <1>1, <1>2 DEF RunsInv, TypeOK
<1>4. OneCommand' BY <1>1 DEF OneCommand, RunsInv
<1>5. Good(runs') BY <1>1 DEF RunsInv
<1> QED BY <1>2, <1>3, <1>4, <1>5, Zenon DEF RunsInv

\* The script selects directories there are.
LEMMA FoundDirs ==
  ASSUME NEW files, NEW use_summary, NEW rows
  PROVE  collect_selected_results(files, use_summary, rows).dirs \subseteq DOMAIN files
<1> DEFINE dirs == discover_result_dirs(files).complete
           missing == read_missing_cases(rows)
           selected == select_missing_result_dirs(dirs, missing)
           found == collect_selected_results(files, use_summary, rows)
<1>1. dirs \subseteq DOMAIN files BY DEF discover_result_dirs
<1>2. selected.dirs \subseteq dirs BY DEF select_missing_result_dirs
<1>3. \/ found = [raised |-> TRUE, dirs |-> {}] \/ found = [raised |-> FALSE, dirs |-> dirs]
      \/ found = [raised |-> FALSE, dirs |-> {}] \/ found = selected
  BY Zenon DEF collect_selected_results
<1> HIDE DEF found, selected, dirs
<1>4. \/ found.dirs = {} \/ found.dirs = dirs \/ found.dirs = selected.dirs BY <1>3
<1> QED BY <1>1, <1>2, <1>4 DEF found

\* The directories the script reads are those of the runs.
LEMMA FilesAre ==
  ASSUME RunsInv, NEW k \in Roots
  PROVE  /\ DOMAIN Files(k) \subseteq (DOMAIN runs) \X Cases
         /\ \A d \in DOMAIN Files(k) : Files(k)[d].llm = Ranked(runs, d)
<1>1. runs \in Seq(RunDir) /\ DOMAIN runs = 1 .. Len(runs) BY DEF RunsInv, TypeOK
<1> DEFINE is == IF k = 0 THEN DOMAIN runs ELSE {k}
           D == {<<i, c>> : i \in is, c \in Cases}
<1>2. is \subseteq DOMAIN runs
  <2>1. CASE k = 0 BY <2>1
  <2>2. CASE k # 0
    <3>0. runs \in Seq(RunDir) BY <1>1
    <3>1. k = Len(runs) /\ Len(runs) \in Nat BY <3>0, <2>2 DEF Roots, Now
    <3>2. k \in DOMAIN runs BY <1>1, <2>2, <3>1
    <3> QED BY <2>2, <3>2
  <2> QED BY <2>1, <2>2
<1>3. Files(k) = [d \in D |-> runs[d[1]].dir[d[2]]] BY DEF Files
<1>4. D \subseteq (DOMAIN runs) \X Cases
  <2> HIDE DEF is
  <2> QED BY <1>2
<1> HIDE DEF D
<1> QED BY <1>3, <1>4 DEF Ranked

\* The script as it ends.
LEMMA OverTyped ==
  ASSUME RunsInv, NEW args \in PassArgs, NEW code \in Nat, NEW wanted \in SUBSET (Nat \X Cases)
  PROVE  /\ Over(args, code, wanted) \in OverPass /\ Over(args, code, wanted).phase = "over"
         /\ Over(args, code, wanted).code = code /\ Over(args, code, wanted).wanted = wanted
         /\ Over(args, code, wanted).args = args
<1>1. pass.count + 1 \in Nat BY PassCount DEF RunsInv
<1> QED BY <1>1 DEF Over, OverPass

\* What a step of the script leaves of the invariant of the runs.
LEMMA ScriptKeepsRuns ==
  ASSUME RunsInv, runs' = runs, batch' = batch, batch.phase = "idle", pass' \in IdlePass \union RunPass \union OverPass
  PROVE  RunsInv'
<1>1. TypeOK' BY DEF RunsInv, TypeOK
<1>2. OneCommand' BY DEF RunsInv, OneCommand
<1>3. Good(runs') BY DEF RunsInv
<1> QED BY <1>1, <1>2, <1>3, Zenon DEF RunsInv

\* The script selects its directories and submits the first jobs, or ends.
LEMMA StartPassKeeps ==
  ASSUME RunsInv, NEW args \in PassArgs, NEW k \in Roots, NEW patched \in BOOLEAN, StartPass(args, k, patched)
  PROVE  CampaignInv'
<1> DEFINE found == collect_selected_results(Files(k), args.summary, summary.rows)
           dirs == found.dirs
           todo == {d \in dirs : ~(args.skip_existing /\ Files(k)[d].llm)}
           workers == IF todo = {} THEN 1 ELSE Min({args.jobs, Cardinality(todo)})
           first == Refill(todo, workers)
           start == [phase |-> "run", count |-> pass.count, args |-> args, wanted |-> dirs, workers |-> workers,
                     queue |-> todo \ first, pending |-> first, done |-> {}, failures |-> {}, stop |-> FALSE]
<1>1. /\ pass' = Over(args, 2, {}) \/ pass' = Over(args, 0, {}) \/ pass' = start
      /\ runs' = runs /\ batch' = batch /\ batch.phase = "idle"
  BY Zenon DEF StartPass, Free
<1>2. dirs \subseteq DOMAIN Files(k) BY FoundDirs
<1> HIDE DEF found, dirs
<1>3. dirs \subseteq (DOMAIN runs) \X Cases /\ (\A d \in dirs : d \in todo \/ Ranked(runs, d)) /\ todo \subseteq dirs
  <2>1. \A d \in dirs : d \in todo \/ Ranked(runs, d) BY <1>2, FilesAre
  <2> QED BY <2>1, <1>2, FilesAre
<1> HIDE DEF todo
<1>4. runs \in Seq(RunDir) BY DEF RunsInv, TypeOK
<1>5. dirs \subseteq Nat \X Cases /\ IsFiniteSet(todo) /\ Cardinality(todo) \in Nat
  <2>1. todo \subseteq (DOMAIN runs) \X Cases BY <1>3
  <2> QED BY <1>3, <1>4, <2>1, WantedFinite
<1>6. workers \in Nat /\ workers > 0
  <2>1. CASE todo = {} BY <2>1
  <2>2. CASE todo # {}
    <3> DEFINE m == Cardinality(todo)
               j == args.jobs
    <3>1. m \in Nat /\ m # 0 BY <1>5, <2>2, FS_EmptySet
    <3>2. j \in Nat \ {0} BY ArgsAssumption
    <3>3. workers = Min({j, m}) BY <2>2
    <3> HIDE DEF m, j, workers
    <3>4. CASE j <= m
      <4>1. Min({j, m}) = j BY <3>1, <3>2, <3>4, MinOf
      <4> QED BY <3>2, <3>3, <4>1
    <3>5. CASE ~(j <= m)
      <4>1. {j, m} \in SUBSET Nat /\ m \in {j, m} /\ \A x \in {j, m} : m <= x BY <3>1, <3>2, <3>5
      <4>2. Min({j, m}) = m BY <4>1, MinOf
      <4> QED BY <3>1, <3>3, <4>2
    <3> QED BY <3>4, <3>5
  <2> QED BY <2>1, <2>2
<1> HIDE DEF workers
<1>7. /\ first \subseteq todo /\ Cardinality(first) <= workers /\ Cardinality(first) \in Nat
      /\ (todo # {} => first # {})
  <2>1. todo \in SUBSET (Nat \X Cases) BY <1>3, <1>5
  <2> QED BY <2>1, <1>5, <1>6, RefillFacts
<1> HIDE DEF first
<1>8. pass.count \in Nat BY PassCount DEF RunsInv
<1>9. CASE pass' = start
  <2> DEFINE queue == todo \ first
  <2>1. /\ pass'.phase = "run" /\ pass'.args = args /\ pass'.wanted = dirs /\ pass'.workers = workers /\ pass'.queue = queue
        /\ pass'.pending = first /\ pass'.done = {} /\ pass'.failures = {} /\ pass'.stop = FALSE
    BY <1>9
  <2>2. /\ dirs \in SUBSET (Nat \X Cases) /\ queue \in SUBSET (Nat \X Cases) /\ first \in SUBSET (Nat \X Cases)
        /\ {} \in SUBSET (Nat \X Cases) /\ {} \in SUBSET [job : Nat \X Cases, ok : BOOLEAN] /\ FALSE \in BOOLEAN
    BY <1>3, <1>5, <1>7
  <2>3. pass' \in RunPass
    <3>1. pass' = [phase |-> "run", count |-> pass.count, args |-> args, wanted |-> dirs, workers |-> workers,
                   queue |-> queue, pending |-> first, done |-> {}, failures |-> {}, stop |-> FALSE]
      BY <1>9
    <3> HIDE DEF queue
    <3> QED BY <3>1, <2>2, <1>6, <1>8 DEF RunPass
  <2>4. RunsInv' BY <1>1, <2>3, ScriptKeepsRuns
  <2> DEFINE p == pass'
  <2>5. /\ p.wanted \subseteq (DOMAIN runs) \X Cases /\ Open(p) \subseteq p.wanted
        /\ p.workers > 0 /\ Cardinality(p.pending) <= p.workers
        /\ (p.pending = {} => p.queue = {})
        /\ p.failures = {} /\ p.failures \union p.pending = p.pending
        /\ \A d \in p.wanted : Ranked(runs, d) \/ d \in Open(p)
    BY <1>3, <1>6, <1>7, <2>1 DEF Open
  <2>6. ~p.stop /\ \A r \in p.done : FALSE BY <2>1
  <2>7. p.phase = "run" BY <2>1
  <2>8. p.phase # "over" /\ p.phase \in {"run", "leaving"} BY <2>7
  <2>9. JobsOK(p, runs) BY <2>5, <2>6, Zenon DEF JobsOK
  <2>10. JobsOK(pass', runs') BY <2>9, <1>1
  <2> QED BY <2>4, <2>8, <2>10 DEF CampaignInv, PassInv, Live
<1>10. ASSUME NEW code \in {0, 2}, pass' = Over(args, code, {}) PROVE CampaignInv'
  <2>1. pass' \in OverPass /\ pass'.phase = "over" /\ pass'.wanted = {} BY <1>10, OverTyped
  <2>2. RunsInv' BY <1>1, <2>1, ScriptKeepsRuns
  <2> QED BY <2>1, <2>2 DEF CampaignInv, PassInv, Live
<1> QED BY <1>1, <1>9, <1>10

\* A reranking process ends.
LEMMA JobEndsKeeps ==
  ASSUME CampaignInv, NEW d \in pass.pending, NEW ok \in BOOLEAN, JobEnds(d, ok)
  PROVE  CampaignInv'
<1>1. /\ pass \in RunPass /\ batch.phase = "idle" /\ runs \in Seq(RunDir) /\ JobsOK(pass, runs) /\ Live /\ RunsInv
      /\ pass.phase \in {"run", "leaving"} /\ Good(runs)
  <2>1. Live /\ RunsInv BY Zenon DEF JobEnds, Live, CampaignInv
  <2> QED BY <2>1, LivePass, Zenon DEF CampaignInv, PassInv, Live, RunsInv
<1> DEFINE p == pass
           q == pass'
           rs == runs
           qs == runs'
           n == d[1]
           c == d[2]
           e == [rs[n].dir[c] EXCEPT !.llm = TRUE]
           done == p.done \union {[job |-> d, ok |-> ok]}
<1>2. p.wanted \subseteq (DOMAIN rs) \X Cases /\ Open(p) \subseteq p.wanted BY <1>1, Zenon DEF JobsOK
<1>3. n \in DOMAIN rs /\ c \in Cases /\ d \in p.wanted BY <1>2 DEF Open
<1>4. d \in Nat \X Cases BY <1>1 DEF RunPass
<1>5. /\ q = [p EXCEPT !.done = done] /\ batch' = batch
      /\ qs = IF ok /\ ~p.args.output THEN [rs EXCEPT ![n].dir[c] = e] ELSE rs
  BY Zenon DEF JobEnds
<1>6. rs[n].dir[c] \in Dir
  <2>1. rs[n].dir \in [Cases -> Dir] BY <1>1, <1>3, CorpusTyped
  <2> QED BY <1>3, <2>1
<1>7. e \in Dir /\ e.llm = TRUE /\ SameDir(e, rs[n].dir[c])
  <2> DEFINE f == rs[n].dir[c]
  <2>1. f \in Dir BY <1>6
  <2> HIDE DEF f
  <2> QED BY <2>1 DEF Dir, SameDir, f
<1>8. done \in SUBSET [job : Nat \X Cases, ok : BOOLEAN]
  <2>1. p.done \in SUBSET [job : Nat \X Cases, ok : BOOLEAN] BY <1>1 DEF RunPass
  <2>2. [job |-> d, ok |-> ok] \in [job : Nat \X Cases, ok : BOOLEAN] BY <1>4
  <2> QED BY <2>1, <2>2
<1> HIDE DEF e, n, c, done
<1>9. q \in RunPass /\ q.phase = p.phase
  <2>1. p \in RunPass BY <1>1
  <2> HIDE DEF p, q
  <2> QED BY <2>1, <1>5, <1>8 DEF RunPass
<1>10. /\ q.wanted = p.wanted /\ q.queue = p.queue /\ q.pending = p.pending /\ q.failures = p.failures /\ q.stop = p.stop
       /\ q.args = p.args /\ q.workers = p.workers /\ q.done = done
  <2>1. p \in RunPass BY <1>1
  <2> HIDE DEF p, q
  <2> QED BY <2>1, <1>5 DEF RunPass
<1>11. /\ qs \in Seq(RunDir) /\ Len(qs) = Len(rs) /\ DOMAIN qs = DOMAIN rs
       /\ \A i \in DOMAIN rs : SameRun(qs[i], rs[i])
       /\ \A i \in DOMAIN rs : \A x \in Cases : SameDir(qs[i].dir[x], rs[i].dir[x])
       /\ \A i \in DOMAIN rs : \A x \in Cases : rs[i].dir[x].llm => qs[i].dir[x].llm
       /\ ok /\ ~p.args.output => qs[n].dir[c].llm
  <2>0. (\A r : SameRun(r, r)) /\ \A r : SameDir(r, r) BY Zenon DEF SameRun, SameDir
  <2>1. CASE ok /\ ~p.args.output
    <3>1. qs = [rs EXCEPT ![n].dir[c] = e] BY <1>5, <2>1
    <3> HIDE DEF qs, p
    <3>2. Changed(qs, rs, n, c, e)
      <4> HIDE DEF rs
      <4>1. rs \in Seq(RunDir) BY <1>1 DEF rs
      <4> QED BY <4>1, <1>3, <1>7, <3>1, DirChanged, Zenon
    <3>3. /\ qs \in Seq(RunDir) /\ Len(qs) = Len(rs) /\ DOMAIN qs = DOMAIN rs /\ qs[n].dir[c] = e
          /\ \A i \in DOMAIN rs : SameRun(qs[i], rs[i])
          /\ \A i \in DOMAIN rs, x \in Cases : (i # n \/ x # c) => qs[i].dir[x] = rs[i].dir[x]
      BY <3>2, Zenon DEF Changed
    <3>4. ASSUME NEW i \in DOMAIN rs, NEW x \in Cases
          PROVE  SameDir(qs[i].dir[x], rs[i].dir[x]) /\ (rs[i].dir[x].llm => qs[i].dir[x].llm)
      <4>1. CASE i # n \/ x # c BY <4>1, <3>3, <2>0, Zenon
      <4>2. CASE i = n /\ x = c BY <4>2, <3>3, <1>7, Zenon
      <4> QED BY <4>1, <4>2
    <3>5. qs[n].dir[c].llm BY <3>3, <1>7
    <3> QED BY <3>3, <3>4, <3>5, Zenon
  <2>2. CASE ~(ok /\ ~p.args.output)
    <3>1. qs = rs BY <1>5, <2>2
    <3> QED BY <3>1, <2>0, <2>2, <1>1
  <2> QED BY <2>1, <2>2
<1> HIDE DEF p, q, qs, rs
<1>12. Good(qs) BY <1>1, <1>11, GoodStays, Zenon DEF rs
<1>13. TypeOK' BY <1>1, <1>5, <1>9, <1>11 DEF RunsInv, TypeOK, q, qs
<1>14. OneCommand' BY <1>1, <1>5, <1>11 DEF RunsInv, OneCommand, q, qs
<1>15. RunsInv' BY <1>12, <1>13, <1>14, Zenon DEF RunsInv, qs
<1>16. \A x \in p.wanted : Ranked(rs, x) => Ranked(qs, x)
  <2>1. \A x \in p.wanted : x[1] \in DOMAIN rs /\ x[2] \in Cases BY <1>2
  <2> QED BY <1>11, <2>1, Zenon DEF Ranked
<1>17. JobsOK(q, qs)
  <2>1. JobsOK(p, rs) BY <1>1 DEF p, rs
  <2>2. Open(q) = Open(p) BY <1>10 DEF Open
  <2>3. \A r \in done : r.job \in p.pending
    <3>1. \A r \in p.done : r.job \in p.pending BY <2>1, Zenon DEF JobsOK
    <3> QED BY <3>1 DEF done, p
  <2>4. ASSUME ~p.args.output, NEW r \in done, r.ok PROVE Ranked(qs, r.job)
    <3>1. CASE r \in p.done
      <4>1. Ranked(rs, r.job) /\ r.job \in p.pending BY <2>1, <2>4, <3>1, Zenon DEF JobsOK
      <4>2. r.job \in p.wanted BY <4>1, <1>2 DEF Open
      <4> QED BY <4>1, <4>2, <1>16
    <3>2. CASE r = [job |-> d, ok |-> ok]
      <4>1. r.job = d /\ ok BY <2>4, <3>2
      <4>2. qs[n].dir[c].llm BY <4>1, <2>4, <1>11
      <4> QED BY <4>1, <4>2, Zenon DEF Ranked, n, c
    <3> QED BY <3>1, <3>2 DEF done
  <2>5. ASSUME ~p.args.output, NEW x \in p.wanted PROVE Ranked(qs, x) \/ x \in Open(p)
    <3>1. Ranked(rs, x) \/ x \in Open(p) BY <2>1, <2>5, Zenon DEF JobsOK
    <3> QED BY <3>1, <1>16
  <2>6. /\ p.workers > 0 /\ Cardinality(p.pending) <= p.workers
        /\ (p.pending = {} => p.queue = {} \/ p.stop)
        /\ (p.stop => p.failures # {})
        /\ (p.args.stop_on_error => (p.stop \/ p.failures = {}) /\ Cardinality(p.failures \union p.pending) <= p.workers)
    BY <2>1, Zenon DEF JobsOK
  <2> QED BY <1>2, <1>10, <1>11, <2>2, <2>3, <2>4, <2>5, <2>6, Zenon DEF JobsOK
<1>18. q.phase # "over"
  <2>1. q.phase \in {"run", "leaving"} BY <1>1, <1>9 DEF p
  <2> QED BY <2>1
<1>19. PassInv' BY <1>17, <1>18, Zenon DEF PassInv, q, qs
<1> QED BY <1>15, <1>19, Zenon DEF CampaignInv

\* run_jobs waits for a result.
LEMMA WaitKeeps ==
  ASSUME CampaignInv, Wait
  PROVE  CampaignInv'
<1> DEFINE left == Left(pass)
           failed == Failed(pass)
           stop == pass.stop \/ (pass.args.stop_on_error /\ failed # {})
           next == IF stop THEN {} ELSE Refill(pass.queue, pass.workers - Cardinality(left))
<1>1. Live /\ RunsInv BY Zenon DEF Wait, Live, CampaignInv
<1>2. pass \in RunPass /\ batch.phase = "idle" /\ runs \in Seq(RunDir) /\ JobsOK(pass, runs) /\ pass.phase = "run"
  BY <1>1, LivePass, Zenon DEF CampaignInv, PassInv, Wait
<1>3. pass' = Waited(pass, left, failed, stop, next) /\ runs' = runs /\ batch' = batch
  BY Zenon DEF Wait, Left, Failed, Waited
<1>4. stop \in BOOLEAN BY <1>2 DEF RunPass
<1>5. stop <=> (pass.stop \/ (pass.args.stop_on_error /\ failed # {})) OBVIOUS
<1>6. next = IF stop THEN {} ELSE Refill(pass.queue, pass.workers - Cardinality(left)) OBVIOUS
<1> HIDE DEF stop, left, failed, next
<1>7. left = Left(pass) /\ failed = Failed(pass) BY DEF left, failed
<1> DEFINE p == pass
           q == pass'
           rs == runs
<1>8. q = Waited(p, left, failed, stop, next) /\ p \in RunPass /\ rs \in Seq(RunDir) /\ JobsOK(p, rs) BY <1>2, <1>3
<1> HIDE DEF p, q, rs
<1>9. q \in RunPass /\ JobsOK(q, rs)
  <2>1. next = IF stop THEN {} ELSE Refill(p.queue, p.workers - Cardinality(left)) BY <1>6 DEF p
  <2>2. left = Left(p) /\ failed = Failed(p) /\ (stop <=> (p.stop \/ (p.args.stop_on_error /\ failed # {})))
    BY <1>5, <1>7 DEF p
  <2> QED BY <1>4, <1>8, <2>1, <2>2, WaitJobs
<1>10. q.phase = "run" BY <1>2, <1>8 DEF p, Waited, RunPass
<1>11. RunsInv' BY <1>1, <1>2, <1>3, <1>9, ScriptKeepsRuns DEF q
<1>12. PassInv'
  <2>1. q.phase # "over" BY <1>10
  <2>2. JobsOK(pass', runs') BY <1>3, <1>9 DEF q, rs
  <2> QED BY <2>1, <2>2, Zenon DEF PassInv, q
<1> QED BY <1>11, <1>12, Zenon DEF CampaignInv

\* Ctrl-C in the script.
LEMMA PassInterruptedKeeps ==
  ASSUME CampaignInv, PassInterrupted
  PROVE  CampaignInv'
<1>1. Live /\ RunsInv BY Zenon DEF PassInterrupted, Live, CampaignInv
<1>2. pass \in RunPass /\ batch.phase = "idle" /\ runs \in Seq(RunDir) /\ JobsOK(pass, runs) /\ pass.phase = "run"
  BY <1>1, LivePass, Zenon DEF CampaignInv, PassInv, PassInterrupted
<1>3. pass' = [pass EXCEPT !.phase = "leaving"] /\ runs' = runs /\ batch' = Idle(batch.interrupts + 1)
  BY Zenon DEF PassInterrupted
<1>4. pass' \in RunPass /\ pass'.phase = "leaving" BY <1>2, <1>3 DEF RunPass
<1>5. /\ pass'.wanted = pass.wanted /\ pass'.queue = pass.queue /\ pass'.pending = pass.pending /\ pass'.failures = pass.failures
      /\ pass'.stop = pass.stop /\ pass'.args = pass.args /\ pass'.workers = pass.workers /\ pass'.done = pass.done
  BY <1>2, <1>3 DEF RunPass
<1>6. JobsOK(pass', runs')
  <2>1. Open(pass') = Open(pass) BY <1>5, Zenon DEF Open
  <2> QED BY <1>2, <1>3, <1>5, <2>1, Zenon DEF JobsOK
<1>7. batch.interrupts \in Nat BY <1>1 DEF RunsInv, TypeOK
<1>8. /\ batch' \in [phase : {"idle", "run", "leaving"}, todo : SUBSET Cases, ended : SUBSET Cases, interrupts : Nat]
      /\ batch'.phase = "idle" /\ batch'.todo = {} /\ batch'.ended = {}
  BY <1>3, <1>7 DEF Idle
<1>9. TypeOK' BY <1>1, <1>3, <1>4, <1>8 DEF RunsInv, TypeOK
<1>10. OneCommand' BY <1>8 DEF OneCommand
<1>11. Good(runs') BY <1>1, <1>3 DEF RunsInv
<1>12. PassInv'
  <2>1. pass'.phase # "over" BY <1>4
  <2> QED BY <1>6, <2>1, Zenon DEF PassInv
<1> QED BY <1>9, <1>10, <1>11, <1>12, Zenon DEF CampaignInv, RunsInv

\* The script ends.
LEMMA PassEndsKeeps ==
  ASSUME CampaignInv, PassEnds
  PROVE  CampaignInv'
<1>1. Live /\ RunsInv BY Zenon DEF PassEnds, Live, CampaignInv
<1>2. pass \in RunPass /\ batch.phase = "idle" /\ runs \in Seq(RunDir) /\ JobsOK(pass, runs)
  BY <1>1, LivePass, Zenon DEF CampaignInv, PassInv
<1>3. pass.args \in PassArgs /\ pass.wanted \in SUBSET (Nat \X Cases) BY <1>2 DEF RunPass
<1>4. runs' = runs /\ batch' = batch BY DEF PassEnds
<1>5. PICK code \in {0, 1, 130} :
        /\ pass' = Over(pass.args, code, pass.wanted)
        /\ code = 0 => pass.pending = {} /\ pass.failures = {}
  <2>1. CASE pass.phase = "run" /\ pass.pending = {} /\ pass' = Over(pass.args, IF pass.failures = {} THEN 0 ELSE 1, pass.wanted)
    BY <2>1
  <2>2. CASE pass' = Over(pass.args, 130, pass.wanted) BY <2>2
  <2> QED BY <2>1, <2>2 DEF PassEnds
<1>6. code \in Nat OBVIOUS
<1>7. /\ pass' \in OverPass /\ pass'.phase = "over" /\ pass'.code = code /\ pass'.wanted = pass.wanted /\ pass'.args = pass.args
  BY <1>1, <1>3, <1>5, <1>6, OverTyped
<1>8. RunsInv' BY <1>1, <1>2, <1>4, <1>7, ScriptKeepsRuns
<1>9. ASSUME code = 0, ~pass.args.output, NEW d \in pass.wanted PROVE Ranked(runs, d)
  <2>1. pass.pending = {} /\ pass.failures = {} BY <1>5, <1>9
  <2>2. pass.queue = {} BY <1>2, <2>1, Zenon DEF JobsOK
  <2>3. d \notin Open(pass) BY <2>1, <2>2 DEF Open
  <2> QED BY <1>2, <1>9, <2>3, Zenon DEF JobsOK
<1>10. PassInv'
  <2>1. pass'.phase \notin {"run", "leaving"} BY <1>7
  <2>2. pass'.code = 0 /\ ~pass'.args.output => \A d \in pass'.wanted : Ranked(runs', d) BY <1>4, <1>7, <1>9
  <2> QED BY <2>1, <2>2, Zenon DEF PassInv, Live
<1> QED BY <1>8, <1>10, Zenon DEF CampaignInv

\* The invariant holds at the beginning.
LEMMA CampaignInit == Init => CampaignInv
<1> SUFFICES ASSUME Init PROVE CampaignInv OBVIOUS
<1>1. RunsInv BY RunsInit
<1>2. pass.phase = "idle" BY DEF Init, NoPass
<1>3. PassInv
  <2>1. pass.phase # "over" /\ pass.phase \notin {"run", "leaving"} BY <1>2
  <2> QED BY <2>1, Zenon DEF PassInv, Live
<1> QED BY <1>1, <1>3, Zenon DEF CampaignInv

\* Every step keeps the invariant.
LEMMA CampaignStep == CampaignInv /\ [Next]_vars => CampaignInv'
<1> SUFFICES ASSUME CampaignInv, [Next]_vars PROVE CampaignInv' OBVIOUS
<1>0. RunsInv BY Zenon DEF CampaignInv
<1>1. CASE Generate BY <1>0, <1>1, GenerateKeeps, StartsIdle, IdleKeeps
<1>2. CASE Rerun BY <1>0, <1>2, RerunKeeps, StartsIdle, IdleKeeps
<1>3. CASE Analyze BY <1>0, <1>3, AnalyzeKeeps, StartsIdle, IdleKeeps
<1>4. ASSUME NEW c \in Cases, RunCase(c) PROVE CampaignInv'
  <2>1. pass' = pass /\ pass.phase = "idle" BY <1>0, <1>4 DEF RunCase, RunsInv, OneCommand
  <2> QED BY <1>0, <1>4, <2>1, RunCaseKeeps, IdleKeeps
<1>5. ASSUME NEW c \in Cases, AppendRow(c) PROVE CampaignInv' BY <1>0, <1>5, AppendRowKeeps, IdleKeeps
<1>6. CASE BatchInterrupted BY <1>0, <1>6, BatchLeavesKeeps, IdleKeeps
<1>7. CASE BatchEnds BY <1>0, <1>7, BatchLeavesKeeps, IdleKeeps
<1>8. ASSUME NEW k \in Roots, SummarizeLlm(k) PROVE CampaignInv' BY <1>0, <1>8, SummarizeKeeps, IdleKeeps
<1>9. ASSUME NEW args \in PassArgs, NEW k \in Roots, NEW patched \in BOOLEAN, StartPass(args, k, patched) PROVE CampaignInv'
  BY <1>0, <1>9, StartPassKeeps
<1>10. ASSUME NEW d \in pass.pending, NEW ok \in BOOLEAN, JobEnds(d, ok) PROVE CampaignInv' BY <1>10, JobEndsKeeps
<1>11. CASE Wait BY <1>11, WaitKeeps
<1>12. CASE PassInterrupted BY <1>12, PassInterruptedKeeps
<1>13. CASE PassEnds BY <1>13, PassEndsKeeps
<1>14. CASE UNCHANGED vars
  <2>1. runs' = runs /\ batch' = batch /\ pass' = pass BY <1>14 DEF vars
  <2>2. RunsInv' BY <1>0, <2>1 DEF RunsInv, TypeOK, OneCommand
  <2>3. PassInv' BY <2>1, Zenon DEF CampaignInv, PassInv, Live
  <2> QED BY <2>2, <2>3, Zenon DEF CampaignInv
<1>15. CASE Batch BY <1>1, <1>2, <1>3, <1>4, <1>5, <1>6, <1>7, <1>15, Zenon DEF Batch
<1>16. CASE Script BY <1>9, <1>10, <1>11, <1>12, <1>13, <1>16, Zenon DEF Script
<1> QED BY <1>8, <1>14, <1>15, <1>16, Zenon DEF Next

\* So it always holds.
LEMMA CampaignAlways == Spec => []CampaignInv
BY CampaignInit, CampaignStep, PTL DEF Spec

-----------------------------------------------------------------------------
(* The theorems                                                            *)

(* The run directories, the batch and the script have the fields and the   *)
(* values the program gives them, one command runs at a time, and every    *)
(* command, corpus and configuration in a run directory comes from the one *)
(* before it as _generation_args, prepare_rerun and _analysis_args make it.*)
THEOREM CampaignTyped == Spec => [](TypeOK /\ OneCommand /\ Good(runs))
<1>1. CampaignInv => TypeOK /\ OneCommand /\ Good(runs)
  BY Zenon DEF CampaignInv, RunsInv
<1> QED BY <1>1, CampaignAlways, PTL

(* A saved corpus is continued and analysed with the coverage, state,      *)
(* tracker window and mode it was made with, whatever the words of the     *)
(* commands and however many reruns and analyses there are.                *)
THEOREM CampaignCorpusSettings == Spec => []CorpusSettings
<1>1. CampaignInv => CorpusSettings
  <2> SUFFICES ASSUME CampaignInv, NEW i \in DOMAIN runs, NEW c \in Cases, runs[i].kind # "gen",
                      NEW u \in Range(runs[i].dir[c].used)
               PROVE  \A f \in DOMAIN u.with : u.with[f] = u.made[f]
    BY Zenon DEF CorpusSettings
  <2>1. DirOK(runs[i], c) BY Zenon DEF CampaignInv, RunsInv, Good
  <2>2. Agrees(u) BY <2>1, Zenon DEF DirOK
  <2> QED BY <2>2, Zenon DEF Agrees
<1> QED BY <1>1, CampaignAlways, PTL

\* Inherited, of two configurations and the overrides given.
Inherits(new, args, old) ==
  \A f \in InheritedFields(old.mode) : new[f] = IF f \in DOMAIN args /\ args[f] # <<>> THEN args[f][1] ELSE old[f]

\* A rerun that keeps what it must inherits.
LEMMA KeptInherits ==
  ASSUME NEW args \in RerunArgs, NEW new, NEW old \in Config, Kept(new, args, old)
  PROVE  Inherits(new, args, old)
<1> SUFFICES ASSUME NEW f \in InheritedFields(old.mode)
             PROVE  new[f] = IF f \in DOMAIN args /\ args[f] # <<>> THEN args[f][1] ELSE old[f]
  BY Zenon DEF Inherits
<1>1. /\ "top_pass" \in DOMAIN args /\ "selection" \in DOMAIN args /\ "metric" \in DOMAIN args
      /\ "reduce_cover" \in DOMAIN args /\ "gen_only" \in DOMAIN args /\ "mutator_window_size" \in DOMAIN args
      /\ "max_corpus_size" \in DOMAIN args
  BY ArgsAssumption
<1>2. old.mode \in {"psbfl", "random", "withw"} BY ModeFacts DEF Config
<1>3. \/ f \in {"top_pass", "selection", "metric", "reduce_cover", "gen_only"}
      \/ f = "mutator_window_size" /\ old.mode = "psbfl"
      \/ f = "max_corpus_size" /\ old.mode = "withw"
  BY <1>2 DEF InheritedFields
<1>4. new[f] = override(args[f], old[f])
  <2>1. CASE f = "top_pass" BY <2>1, Zenon DEF Kept
  <2>2. CASE f = "selection" BY <2>2, Zenon DEF Kept
  <2>3. CASE f = "metric" BY <2>3, Zenon DEF Kept
  <2>4. CASE f = "reduce_cover" BY <2>4, Zenon DEF Kept
  <2>5. CASE f = "gen_only" BY <2>5, Zenon DEF Kept
  <2>6. CASE f = "mutator_window_size" /\ old.mode = "psbfl" BY <2>6, Zenon DEF Kept
  <2>7. CASE f = "max_corpus_size" /\ old.mode = "withw" BY <2>7, Zenon DEF Kept
  <2> QED BY <1>3, <2>1, <2>2, <2>3, <2>4, <2>5, <2>6, <2>7
<1>5. f \in DOMAIN args BY <1>1, <1>3
<1> QED BY <1>4, <1>5, Zenon DEF override

(* A rerun is the run it follows, with the overrides given and nothing     *)
(* else changed, for every configuration that the parsers and _validate    *)
(* let through and every chain of reruns.                                  *)
THEOREM CampaignInherited == Spec => []Inherited
<1>1. CampaignInv => Inherited
  <2> SUFFICES ASSUME CampaignInv PROVE Inherited OBVIOUS
  <2>1. ASSUME NEW i \in DOMAIN runs, runs[i].kind = "rerun"
        PROVE  /\ runs[i].cfg.mode = runs[runs[i].parent].cfg.mode
               /\ \A f \in InheritedFields(runs[runs[i].parent].cfg.mode) :
                    runs[i].cfg[f] = IF f \in DOMAIN runs[i].args /\ runs[i].args[f] # <<>>
                                     THEN runs[i].args[f][1] ELSE runs[runs[i].parent].cfg[f]
    <3> DEFINE p == runs[i].parent
    <3>1. Follows(runs, runs[i], i) /\ runs \in Seq(RunDir) BY Zenon DEF CampaignInv, RunsInv, Good, TypeOK
    <3>2. runs[i].kind # "gen" BY <2>1
    <3>3. /\ p \in 1 .. i - 1 /\ runs[p].kind # "analysis" /\ runs[i].args \in RerunArgs
          /\ Kept(runs[i].cfg, runs[i].args, runs[p].cfg)
      BY <2>1, <3>1, <3>2, Zenon DEF Follows
    <3>4. p \in DOMAIN runs BY <3>1, <3>3
    <3>5. Follows(runs, runs[p], p) BY <3>4, Zenon DEF CampaignInv, RunsInv, Good
    <3>6. runs[p].cfg \in Config BY <3>3, <3>5, Zenon DEF Follows
    <3>7. runs[i].cfg.mode = runs[p].cfg.mode BY <3>3, Zenon DEF Kept
    <3> HIDE DEF p
    <3>8. Inherits(runs[i].cfg, runs[i].args, runs[p].cfg) BY <3>3, <3>6, KeptInherits, Zenon
    <3> QED BY <3>7, <3>8, Zenon DEF Inherits, p
  <2> QED BY <2>1, Zenon DEF Inherited
<1> QED BY <1>1, CampaignAlways, PTL

(* When the script ends with 0 every directory it selected has its         *)
(* ranking, and under --stop-on-error no more jobs fail than run at once,  *)
(* for any number of cases, directories and workers and whatever groups    *)
(* of results wait returns to run_jobs.                                    *)
THEOREM CampaignScriptHonest == Spec => []ScriptHonest
<1>1. CampaignInv => ScriptHonest
  <2> SUFFICES ASSUME CampaignInv PROVE ScriptHonest OBVIOUS
  <2>1. pass.phase = "over" /\ pass.code = 0 /\ ~pass.args.output => \A d \in pass.wanted : runs[d[1]].dir[d[2]].llm
    BY Zenon DEF CampaignInv, PassInv, Ranked
  <2>2. ASSUME pass.phase = "run", pass.args.stop_on_error
        PROVE  Cardinality(pass.failures \union {r.job : r \in {x \in pass.done : ~x.ok}}) <= pass.workers
    <3> DEFINE failed == {r.job : r \in {x \in pass.done : ~x.ok}}
    <3>1. Live /\ RunsInv BY <2>2, Zenon DEF Live, CampaignInv
    <3>2. pass \in RunPass /\ runs \in Seq(RunDir) /\ JobsOK(pass, runs)
      BY <3>1, LivePass, Zenon DEF CampaignInv, PassInv
    <3>3. /\ pass.wanted \subseteq (DOMAIN runs) \X Cases /\ Open(pass) \subseteq pass.wanted
          /\ \A r \in pass.done : r.job \in pass.pending
          /\ Cardinality(pass.failures \union pass.pending) <= pass.workers
      BY <2>2, <3>2, Zenon DEF JobsOK
    <3>4. failed \subseteq pass.pending BY <3>3
    <3> HIDE DEF failed
    <3>5. pass.failures \union pass.pending \subseteq (DOMAIN runs) \X Cases BY <3>3 DEF Open
    <3>6. IsFiniteSet(pass.failures \union pass.pending) BY <3>2, <3>5, WantedFinite
    <3>7. pass.failures \union failed \subseteq pass.failures \union pass.pending BY <3>4
    <3> DEFINE F == pass.failures \union failed
               G == pass.failures \union pass.pending
    <3>8. Cardinality(F) <= Cardinality(G) /\ Cardinality(F) \in Nat /\ Cardinality(G) \in Nat
      <4>1. IsFiniteSet(G) /\ F \in SUBSET G BY <3>6, <3>7
      <4> HIDE DEF F, G
      <4> QED BY <4>1, FS_Subset, FS_CardinalityType
    <3>9. pass.workers \in Nat BY <3>2 DEF RunPass
    <3> DEFINE k == Cardinality(F)
               m == Cardinality(G)
               w == pass.workers
    <3>10. k <= m /\ m <= w /\ k \in Nat /\ m \in Nat /\ w \in Nat BY <3>3, <3>8, <3>9
    <3> HIDE DEF k, m, w
    <3>11. k <= w BY <3>10
    <3> QED BY <3>11, Zenon DEF k, w, failed
  <2> QED BY <2>1, <2>2, Zenon DEF ScriptHonest
<1> QED BY <1>1, CampaignAlways, PTL
============================================================================
