---------------------------- MODULE UpstreamCache ----------------------------
(* What the backend keeps of the services it asks, and how: the recipe index   *)
(* and the recipes of vllmRecipesClient.ts, the model configs of               *)
(* huggingface.ts, the metrics of metrics.ts and the prices of                 *)
(* cloudPricing.ts.  The caches share the shape of a lookup and differ in what *)
(* expires when, what a failure leaves, and who shares an entry; `kind` is the *)
(* one a behaviour is about.                                                   *)
EXTENDS Naturals, FiniteSets

CONSTANTS
  Callers,   \* the requests being served at a time
  Names,     \* the models, deployments or instance types asked for
  Gated,     \* the names only some tokens may read
  Keys,      \* the Hugging Face tokens callers have
  Granted,   \* those the gated names are open to
  Ttl,       \* CACHE_TTL_MS, ARCH_CACHE_TTL_MS, METRICS_SUCCESS_CACHE_TTL_MS, ttlMs
  ErrorTtl,  \* METRICS_ERROR_CACHE_TTL_MS
  Capacity,  \* MAX_CACHE_ENTRIES, ARCH_CACHE_MAX_ENTRIES
  MaxTime    \* bound: how long a behaviour is followed

CacheAssumption ==
  /\ Ttl \in Nat \ {0} /\ ErrorTtl \in 0..Ttl /\ Capacity \in Nat \ {0}
  /\ Gated \subseteq Names /\ IsFiniteSet(Names) /\ Granted \subseteq Keys /\ MaxTime \in Nat

Kinds == {"index", "recipes", "configs", "metrics", "prices"}
NoToken == "none"

VARIABLES
  kind,     \* the cache this behaviour is about
  now,      \* Date.now()
  entries,  \* the Map: pairs of a place in its insertion order, counted from 1, and
            \* what is kept there: key, good, got (when it came), until
  lookups   \* per caller: how far it is, what it asked and when, its answer

cvars == <<kind, now, entries, lookups>>

Idle == [pc |-> "idle"]
Recipes == kind \in {"index", "recipes"}

\* Mutant: the token is not part of the key.
CacheKeyOfName(name, token) == <<name, NoToken>>

(* architectureCacheKey and buildCacheKey: only configs are asked for with a   *)
(* token, and the token is part of their key.                                  *)
CacheKey(name, token) == <<name, IF kind = "configs" THEN token ELSE NoToken>>

Fresh(e) == now < e.until
Kept(all) == {x[2] : x \in all}
Has(all, key) == \E e \in Kept(all) : e.key = key
Entry(all, key) == CHOOSE e \in Kept(all) : e.key = key
Without(all, key) == {x \in all : x[2].key # key}

(* Entries that were removed leave no gap in the order, and a new one is last. *)
Ordered(all) == {<<Cardinality({y \in all : y[1] <= x[1]}), x[2]>> : x \in all}
Last(all, e) == all \cup {<<1 + Cardinality(entries), e>>}

(* What a lookup drops before it looks: prices drop every expired entry and    *)
(* the oldest beyond the limit (of those that came at one time the first       *)
(* inserted), the configs and the metrics their own, and a recipe stays for    *)
(* the day its fetch fails.                                                    *)
Younger(all, x) ==
  Cardinality({y \in all : y[2].got > x[2].got \/ (y[2].got = x[2].got /\ y[1] > x[1])})
Swept(key) ==
  LET live == {x \in entries : Fresh(x[2])} IN
  IF kind = "prices"
  THEN IF Cardinality(live) > Capacity THEN {x \in live : Younger(live, x) < Capacity} ELSE live
  ELSE IF ~Recipes /\ Has(entries, key) /\ ~Fresh(Entry(entries, key))
  THEN Without(entries, key) ELSE entries

(* Map.set keeps the place of a key that is there; a recipe is deleted first.  *)
(* The recipes and the configs then evict their oldest beyond the limit.       *)
Evicting == kind \in {"recipes", "configs"}
Later(all, x) == Cardinality({y \in all : y[1] > x[1]})
Trim(all) == IF Evicting THEN {x \in all : Later(all, x) < Capacity} ELSE all
Stored(e) ==
  LET inPlace == {<<x[1], IF x[2].key = e.key THEN e ELSE x[2]>> : x \in entries}
  IN  Ordered(Trim(IF Has(entries, e.key) /\ kind # "recipes" THEN inPlace
                   ELSE Last(Without(entries, e.key), e)))

Asked(name, token) == [name |-> name, token |-> token, key |-> CacheKey(name, token), at |-> now]
Done(q, good, got, failed) == [pc |-> "done", q |-> q, good |-> good, got |-> got, failed |-> failed]

-----------------------------------------------------------------------------
(* A fresh entry answers; recipes and configs move it to the end.              *)
Hit(c, q) ==
  LET all == Swept(q.key)
      e   == Entry(all, q.key)
  IN  /\ Has(all, q.key) /\ Fresh(e)
      /\ entries' = Ordered(IF Evicting THEN Last(Without(all, q.key), e) ELSE all)
      /\ lookups' = [lookups EXCEPT ![c] = Done(q, e.good, e.got, FALSE)]
      /\ UNCHANGED <<kind, now>>

(* Otherwise the caller fetches, or joins the request for the same metrics     *)
(* that is in flight.  A recipe remembers the entry it found expired; the      *)
(* index looks again when its fetch has failed.                                *)
Found(all, key) == IF Has(all, key) THEN {Entry(all, key)} ELSE {}
Flying(key) == {d \in Callers : lookups[d].pc = "fetching" /\ lookups[d].q.key = key}
Joins(key) == kind = "metrics" /\ Flying(key) # {}
Miss(c, q) ==
  LET all == Swept(q.key) IN
  /\ ~(Has(all, q.key) /\ Fresh(Entry(all, q.key)))
  /\ entries' = Ordered(all)
  /\ lookups' = [lookups EXCEPT ![c] =
       IF Joins(q.key) THEN [pc |-> "joined", q |-> q, with |-> CHOOSE d \in Flying(q.key) : TRUE]
       ELSE [pc |-> "fetching", q |-> q,
             old |-> IF kind = "recipes" THEN Found(all, q.key) ELSE {}]]
  /\ UNCHANGED <<kind, now>>

Look(c, name, token) ==
  /\ lookups[c].pc = "idle"
  /\ LET q == Asked(name, token) IN Hit(c, q) \/ Miss(c, q)

(* Who is waiting for the fetch of c.                                          *)
Party(c) == {c} \cup {d \in Callers : lookups[d].pc = "joined" /\ lookups[d].with = c}
Answer(c, good, got, failed) ==
  lookups' = [d \in Callers |-> IF d \in Party(c) THEN Done(lookups[d].q, good, got, failed)
                                ELSE lookups[d]]

MayRead(q) == q.name \notin Gated \/ q.token \in Granted

(* A recipe expires from when it was asked for, the others from when they came.*)
Arrives(c) ==
  LET q == lookups[c].q IN
  /\ lookups[c].pc = "fetching" /\ (kind = "configs" => MayRead(q))
  /\ entries' = Stored([key |-> q.key, good |-> TRUE, got |-> now,
                        until |-> Ttl + IF Recipes THEN q.at ELSE now])
  /\ Answer(c, TRUE, now, FALSE)
  /\ UNCHANGED <<kind, now>>

(* The service cannot be reached in time or refuses.  A recipe that was there  *)
(* is served as it was, if the service is at fault rather than what it sent    *)
(* (`unusable`); an error of the metrics is itself kept for a while.           *)
Fails(c, unusable) ==
  LET q   == lookups[c].q
      old == IF kind = "index" THEN Found(entries, q.key) ELSE lookups[c].old
  IN  /\ lookups[c].pc = "fetching" /\ (unusable => Recipes)
      /\ entries' = IF kind = "metrics" /\ ErrorTtl > 0
                    THEN Stored([key |-> q.key, good |-> FALSE, got |-> now, until |-> now + ErrorTtl])
                    ELSE entries
      /\ IF old # {} /\ ~unusable
         THEN \E e \in old : Answer(c, TRUE, e.got, TRUE)
         ELSE Answer(c, FALSE, now, TRUE)
      /\ UNCHANGED <<kind, now>>

Leave(c) ==
  /\ lookups[c].pc = "done" /\ lookups' = [lookups EXCEPT ![c] = Idle]
  /\ UNCHANGED <<kind, now, entries>>

Tick == now < MaxTime /\ now' = now + 1 /\ UNCHANGED <<kind, entries, lookups>>

-----------------------------------------------------------------------------
Init ==
  /\ kind \in Kinds /\ now = 0 /\ entries = {}
  /\ lookups = [c \in Callers |-> Idle]

(* There is one index; only Hugging Face is asked with a token.                *)
Next ==
  \/ \E c \in Callers :
       \/ \E name \in Names, token \in Keys \cup {NoToken} :
            /\ kind = "index" => name = CHOOSE n \in Names : TRUE
            /\ kind # "configs" => token = NoToken
            /\ Look(c, name, token)
       \/ Arrives(c) \/ Leave(c)
       \/ \E unusable \in BOOLEAN : Fails(c, unusable)
  \/ Tick

Spec == Init /\ [][Next]_cvars

-----------------------------------------------------------------------------
TypeOK ==
  /\ kind \in Kinds /\ now \in 0..MaxTime
  /\ \A c \in Callers : lookups[c].pc \in {"idle", "fetching", "joined", "done"}
  /\ \A x, y \in entries : x[1] = y[1] \/ x[2].key = y[2].key => x = y
  /\ Cardinality(entries) <= Capacity + IF Evicting THEN 0 ELSE Cardinality(Names)

(* An answer that needed no failure of the service to be old was fetched less  *)
(* than its time to live before it was asked for, and an outage of the metrics *)
(* is not reported for longer than its own, shorter time.  "One user's gated   *)
(* config can never be served to a caller with a different (or no) token":     *)
(* whoever is answered with a gated config could have read it.                 *)
AnswersAreFreshAndAllowed ==
  \A c \in Callers :
    LET l == lookups[c] IN
    l.pc = "done" =>
      /\ ~l.failed => l.q.at < l.got + IF l.good THEN Ttl ELSE ErrorTtl
      /\ kind = "configs" /\ l.good => MayRead(l.q)
=============================================================================
