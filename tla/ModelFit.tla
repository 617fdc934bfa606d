------------------------------- MODULE ModelFit -------------------------------
(* Which models the catalogue offers and what it says of them on this cluster: *)
(* the search of huggingface.ts with the filter of modelCompatibility.ts, the  *)
(* badge of GpuFitIndicator.tsx, and GET /installation/gpu-throughput, which   *)
(* picks a pool, a size of the tensor-parallel group and estimates by          *)
(* gpuPerformance.ts.  Memory is exact, in units of 512 bytes; parameters are  *)
(* billions; the aggregate rate, the product of two answers, is left out.      *)
EXTENDS Integers, Sequences, FiniteSets, FiniteSetsExt

CONSTANTS
  Models,    \* as HuggingFace describes them: archs, families (the patterns the id
             \* matches), gguf (in the id), library, tag, gated, total, named, dims
  Hub,       \* per pipeline tag that is searched: the models, in its order
  Clusters,  \* the node pools there may be: sequences of [label, gpus, nodes]
  Asked,     \* what an estimate is asked for: see Estimate
  Limit,     \* models per page
  Extra,     \* models fetched beyond what the page needs, per tag
  Offsets,   \* the offsets that are asked for
  Unset

(* The two requests share nothing: a behaviour is one of them.                 *)
VARIABLE told  \* what was answered, with what was asked

Nothing == [at |-> "nothing"]

-----------------------------------------------------------------------------
(* Engines.  ENGINE_ARCHITECTURE_ALLOWLIST, of which the architectures a family *)
(* is taken for are kept: vLLM serves all of them, the others not these.       *)
Families ==
  << <<"llama4", "Llama4">>, <<"llama", "Llama">>, <<"mixtral", "Mixtral">>, <<"ministral", "Ministral3">>,
     <<"mistral-large", "MistralLarge3">>, <<"mistral", "Mistral">>, <<"qwen3.5", "Qwen3_5">>,
     <<"qwen3-moe", "Qwen3Moe">>, <<"qwen3", "Qwen3">>, <<"qwen2-moe", "Qwen2Moe">>, <<"qwen", "Qwen2">>,
     <<"gemma3n", "Gemma3n">>, <<"gemma3", "Gemma3">>, <<"gemma2", "Gemma2">>, <<"gemma", "Gemma">>,
     <<"phi4", "Phi4MM">>, <<"phi3", "Phi3">>, <<"phi", "Phi">>, <<"kimi-k2", "KimiK25">>,
     <<"kimi", "KimiLinear">>, <<"falcon-h", "FalconH1">>, <<"falcon", "Falcon">>,
     <<"deepseek-v3", "DeepseekV3">>, <<"deepseek", "DeepseekV2">>, <<"glm4", "Glm4">>, <<"chatglm", "ChatGLM">>,
     <<"nemotron", "Nemotron">>, <<"granite", "Granite">>, <<"olmo2", "Olmo2">>, <<"olmo", "Olmo">>,
     <<"internlm3", "InternLM3">>, <<"internlm", "InternLM2">>, <<"cohere2", "Cohere2">>,
     <<"cohere", "Cohere">>, <<"grok", "Grok1">>, <<"jamba", "Jamba">>, <<"minicpm", "MiniCPM">>,
     <<"exaone", "Exaone">>, <<"starcoder", "Starcoder2">>, <<"gpt-oss", "GptOss">> >>

Architectures == {Families[k][2] : k \in DOMAIN Families}
Engines == {"vllm", "sglang", "trtllm", "llamacpp"}
NotOfSglang == {"Falcon", "Nemotron", "Jamba"}
NotOfTrtllm ==
  {"Llama4", "Ministral3", "MistralLarge3", "Qwen3_5", "Gemma3n", "Gemma3", "Gemma2", "KimiK25", "KimiLinear",
   "FalconH1", "DeepseekV3", "Glm4", "Olmo2", "Olmo", "InternLM3", "Cohere2", "Grok1", "Jamba", "MiniCPM",
   "GptOss"}
NotOfLlamacpp == {"Ministral3", "MistralLarge3", "Qwen3_5", "Phi4MM", "KimiK25", "DeepseekV3", "InternLM3", "Grok1"}
Allowed ==
  [e \in Engines |->
     Architectures \ CASE e = "sglang" -> NotOfSglang [] e = "trtllm" -> NotOfTrtllm
                       [] e = "llamacpp" -> NotOfLlamacpp [] OTHER -> {}]

(* Without a config the id tells, by the first pattern it matches.             *)
Inferred(m) ==
  LET matching == {k \in DOMAIN Families : Families[k][1] \in m.families}
  IN  IF matching = {} THEN {} ELSE {Families[Min(matching)][2]}
ArchsOf(m) == IF m.archs # {} THEN m.archs ELSE Inferred(m)

IsGguf(m) == m.library = "gguf" \/ m.gguf
SupportedEngines(m) ==
  IF IsGguf(m) THEN {"llamacpp"} ELSE {e \in Engines : Allowed[e] \cap ArchsOf(m) # {}} \ {"llamacpp"}

(* That it serves text need not be said: an architecture with an engine is     *)
(* enough, and so is the format.                                               *)
ServesText(m) == m.tag \in {"text-generation", "text2text-generation", "conversational", "image-text-to-text"}
Compatible(m) ==
  /\ SupportedEngines(m) # {}
  /\ \/ ServesText(m) /\ m.library \in {"transformers", "vllm", "gguf", Unset}
     \/ ArchsOf(m) # {}
     \/ IsGguf(m)

Reason(m) ==
  IF m.tag = Unset THEN "no tag"
  ELSE IF ~ServesText(m) THEN "tag"
  ELSE IF m.library \notin {Unset, "transformers", "vllm"} THEN "library"
  ELSE IF ArchsOf(m) = {} THEN "unknown architecture"
  ELSE IF SupportedEngines(m) = {} THEN "unsupported architecture" ELSE "none"

ParameterCount(m) == IF m.total > 0 THEN m.total ELSE m.named
CeilDiv(a, b) == (a + b - 1) \div b
(* 2 bytes a parameter and a fifth more, in whole GiB: 2.4e9 / 2^30 reduced.   *)
EstimatedMemory(billions) == CeilDiv(billions * 1171875, 524288)

-----------------------------------------------------------------------------
(* GPUs.  A label is the set of the aliases it contains, of which a longer one *)
(* that contains a shorter one of its entry says no more; the entry is the     *)
(* first one found.  What follows the table in normalizeKnownGpuModel finds    *)
(* none: the families that have an entry are all aliases.                      *)
GpuModels ==
  << [aliases |-> {"H200"}, memory |-> 141, bandwidth |-> 4800, fp8 |-> TRUE],
     [aliases |-> {"H100"}, memory |-> 80, bandwidth |-> 3350, fp8 |-> TRUE],
     [aliases |-> {"A100-80GB"}, memory |-> 80, bandwidth |-> 2039, fp8 |-> FALSE],
     [aliases |-> {"A100"}, memory |-> 40, bandwidth |-> 1555, fp8 |-> FALSE],
     [aliases |-> {"L40S"}, memory |-> 48, bandwidth |-> 864, fp8 |-> TRUE],
     [aliases |-> {"L4"}, memory |-> 24, bandwidth |-> 300, fp8 |-> TRUE],
     [aliases |-> {"A10G"}, memory |-> 24, bandwidth |-> 600, fp8 |-> FALSE],
     [aliases |-> {"A10"}, memory |-> 24, bandwidth |-> 600, fp8 |-> FALSE],
     [aliases |-> {"T4"}, memory |-> 16, bandwidth |-> 320, fp8 |-> FALSE],
     [aliases |-> {"V100"}, memory |-> 16, bandwidth |-> 900, fp8 |-> FALSE] >>
Aliases == UNION {GpuModels[k].aliases : k \in DOMAIN GpuModels}
Known(label) ==
  LET matching == {k \in DOMAIN GpuModels : GpuModels[k].aliases \cap label # {}}
  IN  IF matching = {} THEN {} ELSE {Min(matching)}

ModelFitAssumption ==
  /\ Limit \in Nat \ {0} /\ Extra \in Nat /\ Offsets \subseteq Nat
  /\ DOMAIN Hub = {"text-generation", "image-text-to-text"}
  /\ \A tag \in DOMAIN Hub : Hub[tag] \in Seq(Models)
  /\ \A c \in Clusters : /\ c \in Seq([label : SUBSET Aliases, gpus : 1..64, nodes : 1..64])
                         /\ \A k \in DOMAIN c : c[k].nodes <= c[k].gpus
  /\ \A m \in Models \cup {q.model : q \in Asked} :
       /\ m.total \in Nat /\ m.named \in Nat
       /\ m.families \subseteq {Families[k][1] : k \in DOMAIN Families}
       /\ \A d \in m.dims : /\ m.dims = {d} /\ d.window % 512 = 0
                            /\ {d.layers, d.heads, d.dim, d.window} \subseteq Nat
  /\ \A q \in Asked : q.context \in Nat /\ q.context % 512 = 0 /\ q.tp \in Nat

(* The pool that was asked for if there is one, else the one with the most     *)
(* memory; its GPUs per node bound the group.                                  *)
PerNode(pool) == pool.gpus \div pool.nodes
Selected(cluster, asked) ==
  LET known    == {k \in DOMAIN cluster : Known(cluster[k].label) # {}}
      specs(k) == GpuModels[CHOOSE g \in Known(cluster[k].label) : TRUE]
      matching == {k \in known : Known(cluster[k].label) = Known(asked)}
      best     == {k \in known : \A j \in known : specs(j).memory <= specs(k).memory}
  IN  IF known = {} THEN {}
      ELSE LET k == Min(IF matching # {} THEN matching ELSE best)
           IN  {[gpu |-> specs(k), perNode |-> PerNode(cluster[k])]}

-----------------------------------------------------------------------------
(* The badge: the estimate against the memory of all GPUs (that of the first   *)
(* node for each), and what is missing to run with a fifth to spare.           *)
FitLevel(needed, capacity) ==
  IF capacity <= 0 THEN "unknown"
  ELSE IF needed > capacity THEN "too-large"
  ELSE IF 10 * needed > 8 * capacity THEN "marginal"
  ELSE IF 10 * needed > 6 * capacity THEN "good" ELSE "perfect"
UpgradeDelta(needed, capacity) ==
  IF capacity <= 0 \/ 10 * needed <= 8 * capacity THEN 0
  ELSE LET target == CeilDiv(6 * needed, 5) IN IF target > capacity THEN target - capacity ELSE 0

BadgeMemory(cluster) ==
  IF cluster = << >> \/ Known(cluster[1].label) = {} THEN 0
  ELSE GpuModels[CHOOSE g \in Known(cluster[1].label) : TRUE].memory
       * SumFunction([k \in DOMAIN cluster |-> cluster[k].gpus])

Card(m, capacity) ==
  LET needed == EstimatedMemory(ParameterCount(m)) IN
  [id |-> m, engines |-> SupportedEngines(m), memory |-> needed, capacity |-> capacity,
   level |-> IF ParameterCount(m) = 0 THEN "unknown" ELSE FitLevel(needed, capacity),
   delta |-> IF ParameterCount(m) = 0 THEN 0 ELSE UpgradeDelta(needed, capacity)]

-----------------------------------------------------------------------------
(* searchModels.  A list that fails counts as empty; what is fetched grows     *)
(* with the offset, so the whole of it is filtered and cut again each time.    *)
Least(a, b) == IF a < b THEN a ELSE b
Fetched(tag, offset, failing) ==
  IF tag \in failing THEN << >>
  ELSE SubSeq(Hub[tag], 1, Least(Limit + offset + Extra, Len(Hub[tag])))
Merged(offset, failing) ==
  Fetched("text-generation", offset, failing) \o Fetched("image-text-to-text", offset, failing)

(* The places of what is offered in it: of equal models the first counts.      *)
Offered(signed, offset, failing) ==
  LET merged == Merged(offset, failing) IN
  {k \in DOMAIN merged : /\ \A j \in 1..(k - 1) : merged[j] # merged[k]
                         /\ Compatible(merged[k]) /\ (signed \/ ~merged[k].gated)}
Nth(S, n) == CHOOSE k \in S : Cardinality({j \in S : j <= k}) = n
Page(signed, offset, failing, cluster) ==
  LET offered == Offered(signed, offset, failing)
      total   == Cardinality(offered)
      shown   == IF offset < total THEN Least(Limit, total - offset) ELSE 0
      place(n) == Nth(offered, offset + n)
  IN  [at |-> "found", signed |-> signed, offset |-> offset, failing |-> failing, cluster |-> cluster,
       cards |-> [n \in 1..shown |-> Card(Merged(offset, failing)[place(n)], BadgeMemory(cluster))],
       total |-> total, more |-> offset + shown < total]

Search(signed, offset, failing, cluster) ==
  /\ told = Nothing
  /\ told' = Page(signed, offset, failing, cluster)

-----------------------------------------------------------------------------
(* Sizes.  A GiB is 2^21 units and a billion bytes 1953125; 5 GiB of each GPU  *)
(* are held back.  KvRoom is what is left of the group, KvPerToken two values  *)
(* for each layer, head and dimension.                                         *)
UsableUnits(gpu) == (gpu.memory - 5) * 2097152
WeightUnits(params, bytes) == params * bytes * 1953125
KvRoom(gpu, params, bytes, tp) == UsableUnits(gpu) * tp - WeightUnits(params, bytes)
KvUnits(dims, bytesPerKv, tokens) == 2 * dims.layers * dims.heads * dims.dim * bytesPerKv * (tokens \div 512)

(* The size is doubled until the shard fits or the bound is reached.           *)
Powers == {1, 2, 4, 8, 16, 32, 64}
\* Mutant: the doubling stops before it passes the bound.
DerivedBelow(gpu, params, bytes, bound) ==
  Min({p \in Powers : 2 * p > bound \/ KvRoom(gpu, params, bytes, p) > 0})

Derived(gpu, params, bytes, bound) ==
  Least(bound, Min({p \in Powers : p >= bound \/ KvRoom(gpu, params, bytes, p) > 0}))

Concurrent(gpu, params, bytes, tp, perSequence) ==
  LET room == KvRoom(gpu, params, bytes, tp) IN IF room <= 0 THEN 0 ELSE room \div perSequence

(* Tokens a second and chat: four fifths of the bandwidth over the weights,    *)
(* with a haircut, in twentieths, for groups of several GPUs; rounded.         *)
Twentieths(tp) == CASE tp <= 1 -> 20 [] tp \in 2..4 -> 17 [] OTHER -> 15
PerChat(gpu, params, bytes, tp) ==
  LET over == 100 * params * bytes
  IN  (8 * gpu.bandwidth * tp * Twentieths(tp) + over) \div (2 * over)

BytesOf(type) == IF type \in {"fp8", "int8"} THEN 1 ELSE 2
Context(wanted, dims) ==
  LET windows == {d.window : d \in dims} \ {0}
  IN  Least(32768, IF wanted # 0 THEN wanted ELSE IF windows # {} THEN Max(windows) ELSE 4096)

(* GET /gpu-throughput: q is the query, dims the architecture, at most one,    *)
(* that HuggingFace answered with.                                             *)
Answer(s, q, dims) ==
  LET params == ParameterCount(q.model)
      bytes  == BytesOf(q.weights)
      tp     == IF q.tp # 0 THEN Least(q.tp, s.perNode)
                ELSE IF params = 0 THEN 1 ELSE Derived(s.gpu, params, bytes, s.perNode)
      kv     == IF q.kv = "fp8" /\ ~s.gpu.fp8 THEN "fp16" ELSE q.kv
      size(d) == KvUnits(d, BytesOf(kv), Context(q.context, dims))
  IN  [tp |-> tp, kv |-> kv, fp8 |-> s.gpu.fp8, perNode |-> s.perNode, gpu |-> s.gpu,
       perChat |-> IF params = 0 THEN 0 ELSE PerChat(s.gpu, params, bytes, tp),
       perSequence |-> {size(d) : d \in {x \in dims : params > 0 /\ size(x) > 0}},
       concurrent |-> {Concurrent(s.gpu, params, bytes, tp, size(d)) :
                         d \in {x \in dims : params > 0 /\ size(x) > 0}}]

Estimated(cluster, q, reached) ==
  LET s == Selected(cluster, q.label) IN
  IF s = {} THEN [at |-> "404", cluster |-> cluster, asked |-> q]
  ELSE [at |-> "estimated", cluster |-> cluster, asked |-> q,
        answer |-> Answer(CHOOSE x \in s : TRUE, q, IF reached THEN q.model.dims ELSE {})]
Estimate(cluster, q, reached) ==
  /\ told = Nothing
  /\ told' = Estimated(cluster, q, reached)

Init == told = Nothing

Next ==
  \/ \E signed \in BOOLEAN, offset \in Offsets, failing \in SUBSET DOMAIN Hub, cluster \in Clusters :
       Search(signed, offset, failing, cluster)
  \/ \E cluster \in Clusters, q \in Asked, reached \in BOOLEAN : Estimate(cluster, q, reached)

Spec == Init /\ [][Next]_told

-----------------------------------------------------------------------------
(* A search shows each model once, with an engine that can load its format     *)
(* (llama.cpp and nothing else reads GGUF), a gated one only to who has a      *)
(* token, and one of a known family even without metadata; what it leaves out  *)
(* has a reason.  "Load more" is offered only if the next page has something:  *)
(* that page filters and cuts a longer fetch anew (huggingface.ts 295-360).    *)
SearchIsSound ==
  told.at = "found" =>
    LET shown == {told.cards[k].id : k \in DOMAIN told.cards} IN
    /\ \A j, k \in DOMAIN told.cards : told.cards[j].id = told.cards[k].id => j = k
    /\ \A k \in DOMAIN told.cards :
         LET c == told.cards[k] IN
         /\ c.engines # {} /\ (("llamacpp" \in c.engines) <=> IsGguf(c.id))
         /\ IsGguf(c.id) => c.engines = {"llamacpp"}
         /\ c.id.gated => told.signed
    /\ \A m \in Models :
         /\ ~Compatible(m) => Reason(m) # "none"
         /\ m.archs = {} /\ m.families # {} => Compatible(m)
    /\ told.more => Page(told.signed, told.offset + Limit, told.failing, told.cluster).cards # << >>

(* An estimate is made for hardware the cluster has, never for more GPUs than  *)
(* a node of it; the size it derives fits the weights if any allowed size      *)
(* does, powers of two or not (deriveTpSizeToFitWeights 164), and more GPUs    *)
(* make it neither slower nor less capacious, whatever the haircut takes.  An  *)
(* FP8 cache is counted only where the GPU has FP8.                            *)
EstimateIsSound ==
  told.at = "estimated" =>
    LET a == told.answer  q == told.asked
        params == ParameterCount(q.model)  bytes == BytesOf(q.weights) IN
    /\ \E k \in DOMAIN told.cluster :
         LET pool == told.cluster[k] IN
         /\ \E g \in Known(pool.label) : GpuModels[g] = a.gpu
         /\ a.tp * pool.nodes <= pool.gpus
    /\ a.tp >= 1
    /\ a.kv = "fp8" => a.gpu.fp8
    /\ q.tp = 0 /\ params > 0 =>
         \A t \in 1..a.perNode : KvRoom(a.gpu, params, bytes, t) > 0 => KvRoom(a.gpu, params, bytes, a.tp) > 0
    /\ params > 0 => \A t \in 1..a.tp :
         /\ PerChat(a.gpu, params, bytes, t) <= a.perChat
         /\ \A u \in a.perSequence : \A n \in a.concurrent : Concurrent(a.gpu, params, bytes, t, u) <= n

(* A card that says a model does not fit says how much memory is missing, and  *)
(* with that much it fits; one that says it fits well asks for nothing         *)
(* (getUpgradeDelta against getGpuFitLevel, GpuFitIndicator.tsx 34-125).       *)
BadgeIsSound ==
  told.at = "found" =>
    \A k \in DOMAIN told.cards :
      LET c == told.cards[k] IN
      /\ c.level = "too-large" => c.delta > 0
      /\ c.delta > 0 => /\ c.level \in {"too-large", "marginal"}
                       /\ FitLevel(c.memory, c.capacity + c.delta) # "too-large"

(* What the catalogue says of a model holds of it on this cluster.             *)
FitIsHonest == SearchIsSound /\ EstimateIsSound /\ BadgeIsSound
=============================================================================
