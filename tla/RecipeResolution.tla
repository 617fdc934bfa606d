--------------------------- MODULE RecipeResolution ---------------------------
(* How a recipe becomes the settings of a deployment: vllmRecipeResolver.ts    *)
(* behind POST /api/vllm/recipes/resolve, up to the admission of what comes of *)
(* it.  The command line of the recipe, the flags of the features that were    *)
(* chosen and those of the hardware are layers of one sequence of tokens,      *)
(* which is then split into a map and a list.  A token is a flag               *)
(* (<<"flag", key, inline>>, inline = Bare without "="), a word, or odd: a     *)
(* "--" token whose key is not one a map of arguments may have.                *)
EXTENDS Naturals, Sequences, FiniteSets, SequencesExt

CONSTANTS
  Recipes,   \* what recipes.vllm.ai holds: see RecipeAssumption
  Requests,  \* what is asked: a value or Unset for each field
  Numbers,   \* the words that read as positive numbers, with their value
  Unset      \* a field that is absent

Bare == "bare"
Flag(key, value) == <<"flag", key, value>>
Word(w) == <<"word", w, Bare>>
Odd(w) == <<"odd", w, Bare>>

Texts == STRING \cup {Bare, "deepseek_v4", "tokenizer-mode", "tool-call-parser",
                      "enable-auto-tool-choice", "reasoning-parser"} \* what DeepSeekRules says, by name
Tokens == {"flag", "word", "odd"} \X Texts \X Texts

(* A command has its arguments in argv, in head_argv, only for workers, or in  *)
(* text that is not parsed.  An alternative answers the names that occur in    *)
(* its texts and holds a command (`inline`) or a reference to one.             *)
IsCommand(c) == c.shape \in {"argv", "head", "worker", "text"} /\ c.argv \in Seq(Tokens)
PerHardware(layers) == \A h \in DOMAIN layers : layers[h] \in Seq(Tokens)
RecipeAssumption ==
  /\ \A r \in Recipes :
       /\ r.recommended # << >> => IsCommand(r.recommended[1])
       /\ \A n \in DOMAIN r.alternatives :
            /\ r.alternatives[n].has \in {"inline", "reference", "neither"}
            /\ r.alternatives[n].has # "neither" => IsCommand(r.alternatives[n].command)
       /\ \A f \in DOMAIN r.features : /\ r.features[f].args \in Seq(Tokens)
                                       /\ PerHardware(r.features[f].on)
       /\ PerHardware(r.overrides)
  /\ \A q \in Requests : q.features # Unset => q.features \in Seq(STRING)
  /\ \A w \in DOMAIN Numbers : Numbers[w] \in Nat \ {0}

VARIABLES
  recipe,   \* the recipe of the model, as getByModelId returned it
  request,  \* the body of the request
  at,       \* "asked", "fetching", "resolved", "admitted" or "refused"
  source,   \* the alternative whose reference is being fetched
  result    \* what resolve returns: args (the map), extra, gpu, hardware, mode, image

rvars == <<recipe, request, at, source, result>>

NoCommand == [shape |-> "text", argv |-> << >>, hardware |-> Unset, gpus |-> 0, image |-> Unset,
              disaggregated |-> FALSE]

-----------------------------------------------------------------------------
(* Which command.  An alternative scores for what it was asked for by name;    *)
(* the first of those that score most is it, whatever of the request it does   *)
(* not answer.                                                                 *)
Score(a) ==
  (IF request.strategy \in a.names THEN 10 ELSE 0)
  + (IF request.hardware \in a.names THEN 3 ELSE 0)
  + (IF request.variant \in a.names THEN 2 ELSE 0)

Best ==
  LET all == recipe.alternatives
      better(n, k) == Score(all[n]) > Score(all[k]) \/ (Score(all[n]) = Score(all[k]) /\ n <= k)
  IN  {n \in DOMAIN all : Score(all[n]) > 0 /\ \A k \in DOMAIN all : better(n, k)}

(* A command is one whose argv, head_argv or worker_argv is structured.        *)
Structured(c) == c.shape # "text"
Recommended ==
  IF recipe.recommended # << >> /\ Structured(recipe.recommended[1])
  THEN recipe.recommended[1] ELSE NoCommand

(* Only argv, or head_argv in its place, gives arguments.                      *)
ArgvOf(c) == IF c.shape \in {"argv", "head"} THEN c.argv ELSE << >>

(* "vllm serve <model>" goes, the model only where it is a word.               *)
Served(argv) ==
  LET after(n) == LET rest == SubSeq(argv, n, Len(argv))
                  IN  IF rest # << >> /\ rest[1][1] = "word" THEN Tail(rest) ELSE rest
  IN  IF Len(argv) >= 2 /\ argv[1] = Word("vllm") /\ argv[2] = Word("serve") THEN after(3)
      ELSE IF Len(argv) >= 1 /\ argv[1] = Word("serve") THEN after(2) ELSE argv

-----------------------------------------------------------------------------
(* Tokens.  A word is the value of the flag before it, if that has none.       *)
IsValue(tokens, n) ==
  /\ n \in 2..Len(tokens) /\ tokens[n][1] = "word"
  /\ tokens[n - 1][1] = "flag" /\ tokens[n - 1][3] = Bare
ValueAt(tokens, n) == IF IsValue(tokens, n + 1) THEN tokens[n + 1][2] ELSE tokens[n][3]
FlagsOf(tokens) == {tokens[n][2] : n \in {k \in DOMAIN tokens : tokens[k][1] = "flag"}}

Nth(where, n) == CHOOSE k \in where : Cardinality({j \in where : j <= k}) = n
Keep(tokens, where) == [n \in 1..Cardinality(where) |-> tokens[Nth(where, n)]]

Without(tokens, keys) ==
  LET gone(n) == tokens[n][1] = "flag" /\ tokens[n][2] \in keys
  IN  Keep(tokens, {n \in DOMAIN tokens : ~gone(n) /\ ~(IsValue(tokens, n) /\ gone(n - 1))})

(* parseArgTokens: the first value of a key is the map's; a second one, a word *)
(* that is nobody's value and an odd token are kept in the list, in order.     *)
Parsed(tokens) ==
  LET first(n) == tokens[n][1] = "flag" /\ \A k \in 1..(n - 1) : tokens[k][1] = "flag" => tokens[k][2] # tokens[n][2]
      heads == {n \in DOMAIN tokens : first(n)}
      rest  == {n \in DOMAIN tokens : ~first(n) /\ ~(IsValue(tokens, n) /\ first(n - 1))}
  IN  [args  |-> [k \in FlagsOf(tokens) |->
                    ValueAt(tokens, CHOOSE n \in heads : tokens[n][2] = k)],
       extra |-> Keep(tokens, rest)]

-----------------------------------------------------------------------------
(* The layers.  The hardware is the one asked for, or the one of the command,  *)
(* or the recommended one.                                                     *)
HardwareOf(c) ==
  IF request.hardware # Unset THEN request.hardware
  ELSE IF c.hardware # Unset THEN c.hardware
  ELSE IF recipe.recommended # << >> THEN recipe.recommended[1].hardware ELSE Unset

At(byHardware, hardware) == IF hardware \in DOMAIN byHardware THEN byHardware[hardware] ELSE << >>

(* resolveFeatureArgs: a feature's flags, then those it has on the hardware.   *)
FeatureArgs(feature, hardware) ==
  IF feature \notin DOMAIN recipe.features THEN << >>
  ELSE recipe.features[feature].args \o At(recipe.features[feature].on, hardware)

(* applyDeepSeekFeatureRules: what a DeepSeek model needs for tools and        *)
(* reasoning takes the place of what the features say.                         *)
DeepSeekRules ==
  [tool_calling |-> <<Flag("tokenizer-mode", Bare), Word("deepseek_v4"),
                      Flag("tool-call-parser", Bare), Word("deepseek_v4"),
                      Flag("enable-auto-tool-choice", Bare)>>,
   reasoning    |-> <<Flag("reasoning-parser", Bare), Word("deepseek_v4")>>]
ForDeepSeek(chosen) ==
  IF ~recipe.deepSeek THEN << >>
  ELSE FlattenSeq([n \in 1..2 |-> LET f == <<"tool_calling", "reasoning">>[n]
                                  IN  IF f \in chosen THEN DeepSeekRules[f] ELSE << >>])
Replacing(tokens, rules) == Without(tokens, FlagsOf(rules)) \o rules

(* applyExplicitFeatureSelection: a request that says nothing of features      *)
(* leaves the command as the recipe has it; one that does takes the flags of   *)
(* every known feature out and puts those of the chosen ones at the end.       *)
KnownFlags(hardware) ==
  UNION {FlagsOf(FeatureArgs(f, hardware)) : f \in DOMAIN recipe.features}
  \cup FlagsOf(ForDeepSeek(DOMAIN DeepSeekRules))
WithFeatures(tokens, hardware) ==
  IF request.features = Unset THEN tokens
  ELSE Without(tokens, KnownFlags(hardware))
       \o Replacing(FlattenSeq([n \in DOMAIN request.features |-> FeatureArgs(request.features[n], hardware)]),
                    ForDeepSeek({request.features[n] : n \in DOMAIN request.features}))

(* applyHardwareOverrides: the hardware has the last word.                     *)
TokensOf(c, hardware) ==
  WithFeatures(Served(ArgvOf(c)), hardware) \o At(recipe.overrides, hardware)

(* deriveGpuCount: what one instance is sharded over, else what the command    *)
(* was profiled with, else one.                                                *)
Sharding == <<"tensor-parallel-size", "pipeline-parallel-size">>
Read(args, key) == IF key \in DOMAIN args /\ args[key] \in DOMAIN Numbers THEN Numbers[args[key]] ELSE 0

Factor(args, key) == IF Read(args, key) > 0 THEN Read(args, key) ELSE 1
\* Mutant: replicas count as GPUs of a pod.
GpuCountOfReplicas(args, c) ==
  IF \E key \in {"tensor-parallel-size", "pipeline-parallel-size", "data-parallel-size"} : Read(args, key) > 0
  THEN Factor(args, "tensor-parallel-size") * Factor(args, "pipeline-parallel-size")
       * Factor(args, "data-parallel-size")
  ELSE IF c.gpus > 0 THEN c.gpus ELSE 1

GpuCount(args, c) ==
  IF \E n \in 1..2 : Read(args, Sharding[n]) > 0 THEN Factor(args, Sharding[1]) * Factor(args, Sharding[2])
  ELSE IF c.gpus > 0 THEN c.gpus ELSE 1

ModeOf(c) ==
  IF request.mode # Unset THEN request.mode
  ELSE IF c.disaggregated THEN "disaggregated" ELSE "aggregated"

(* A custom image without a reference falls back to the recipe's.              *)
ImageOf(c) ==
  CASE request.image = "none" -> Unset
    [] request.image \notin {"none", "recipe", "custom"} -> request.image
    [] OTHER -> c.image

Resolution(c) ==
  LET hardware == HardwareOf(c)
      parsed   == Parsed(TokensOf(c, hardware))
  IN  [args |-> parsed.args, extra |-> parsed.extra, gpu |-> GpuCount(parsed.args, c),
       hardware |-> hardware, mode |-> ModeOf(c), image |-> ImageOf(c), from |-> c]

-----------------------------------------------------------------------------
(* resolve: an alternative that answers something of the request is used where *)
(* it has a structured command, or is fetched where it has a reference; without*)
(* one the recommended command is used.                                        *)
Resolve ==
  /\ at = "asked"
  /\ LET best == IF {request.strategy, request.hardware, request.variant} = {Unset} THEN {} ELSE Best
         inline == {n \in best : recipe.alternatives[n].has = "inline" /\ Structured(recipe.alternatives[n].command)}
         named  == {n \in best : recipe.alternatives[n].has = "reference"}
     IN  \/ \E n \in inline :
              /\ at' = "resolved" /\ result' = Resolution(recipe.alternatives[n].command)
              /\ UNCHANGED source
         \/ \E n \in named :
              /\ at' = "fetching" /\ source' = n /\ UNCHANGED result
         \/ /\ inline \cup named = {}
            /\ at' = "resolved" /\ result' = Resolution(Recommended) /\ UNCHANGED source
  /\ UNCHANGED <<recipe, request>>

(* The reference is fetched, if it stays under the recipes' address; without   *)
(* an answer, or without a structured command in it, a warning is all that     *)
(* comes of it.                                                                *)
Fetched(good) ==
  LET c == recipe.alternatives[source].command IN
  /\ at = "fetching" /\ at' = "resolved"
  /\ result' = Resolution(IF good /\ Structured(c) THEN c ELSE Recommended)
  /\ UNCHANGED <<recipe, request, source>>

(* The result fills the form and is sent as it is: a deployment whose map and  *)
(* whose list both set a flag is refused at admission.                         *)
Admissible == FlagsOf(result.extra) \cap DOMAIN result.args = {}
Deploy ==
  /\ at = "resolved" /\ at' = IF Admissible THEN "admitted" ELSE "refused"
  /\ UNCHANGED <<recipe, request, source, result>>

Init ==
  /\ recipe \in Recipes /\ request \in Requests /\ at = "asked" /\ source = 0
  /\ result = << >>

Next == Resolve \/ (\E good \in BOOLEAN : Fetched(good)) \/ Deploy

Spec == Init /\ [][Next]_rvars

-----------------------------------------------------------------------------
(* The command line of the container: the map, in some order, then the list;   *)
(* the engine lets the last of two values win.                                 *)
Setting(key) ==
  LET later == {n \in DOMAIN result.extra : result.extra[n][1] = "flag" /\ result.extra[n][2] = key}
  IN  IF later # {} THEN ValueAt(result.extra, CHOOSE n \in later : \A k \in later : k <= n)
      ELSE result.args[key]
SetFlags == DOMAIN result.args \cup FlagsOf(result.extra)

(* What the layers say: of those that set the flag, the last.  The command     *)
(* sets no flag of a known feature when features were chosen.                  *)
Layers ==
  LET h == result.hardware IN
  <<Served(ArgvOf(result.from))>>
  \o (IF request.features = Unset THEN << >>
      ELSE [n \in DOMAIN request.features |-> FeatureArgs(request.features[n], h)]
           \o <<ForDeepSeek({request.features[n] : n \in DOMAIN request.features})>>)
  \o <<At(recipe.overrides, h)>>
SetBy(n) ==
  FlagsOf(Layers[n]) \ IF n = 1 /\ request.features # Unset THEN KnownFlags(result.hardware) ELSE {}
Says(key) ==
  LET n == CHOOSE n \in DOMAIN Layers :
             key \in SetBy(n) /\ \A k \in (n + 1)..Len(Layers) : key \notin SetBy(k)
      sets(k) == Layers[n][k][1] = "flag" /\ Layers[n][k][2] = key
  IN  ValueAt(Layers[n], CHOOSE k \in DOMAIN Layers[n] :
                                 sets(k) /\ \A m \in (k + 1)..Len(Layers[n]) : ~sets(m))

(* Where every flag of a recipe takes at most one value, what is resolved sets *)
(* the flags its layers set and no others, each to what the uppermost layer    *)
(* says: the hardware above the rules for DeepSeek, above the chosen features, *)
(* above the command, from which features that were not chosen are gone.  And  *)
(* a deployment that is admitted asks for exactly the GPUs its command line    *)
(* shards the model over, although the count reads the first value of a flag   *)
(* and the engine the last.                                                    *)
SingleValued(tokens) == \A n \in DOMAIN tokens : tokens[n][1] = "word" => IsValue(tokens, n)
ReadsAsNumber(key) == key \in SetFlags /\ Setting(key) \in DOMAIN Numbers
ServedAsResolved ==
  at \in {"resolved", "admitted", "refused"} =>
    /\ (\A n \in DOMAIN Layers : SingleValued(Layers[n])) =>
         /\ SetFlags = UNION {SetBy(n) : n \in DOMAIN Layers}
         /\ SingleValued(result.extra)
         /\ \A key \in SetFlags : Setting(key) = Says(key)
    /\ at = "admitted" /\ (\E n \in 1..2 : ReadsAsNumber(Sharding[n])) =>
         LET shards(n) == IF ReadsAsNumber(Sharding[n]) THEN Numbers[Setting(Sharding[n])] ELSE 1
         IN  result.gpu = shards(1) * shards(2)
=============================================================================
