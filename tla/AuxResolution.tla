--------------------------- MODULE AuxResolution ---------------------------
(***************************************************************************)
(* agent/auxiliary_client.py: which client a side task gets.  The task's   *)
(* settings and the caller's arguments name a provider (TaskProvider), and *)
(* resolve_provider_client finds its endpoint, its key and the protocol to *)
(* speak there (Resolve); "auto" asks the main provider and then a chain.  *)
(*                                                                         *)
(* Everything is a function of the surroundings w: what config.yaml and    *)
(* the running agent say of the main model (cfg, run), the credential      *)
(* pools, the logins outside of them (key variables, the auth store), the  *)
(* custom endpoint and the user's named one, and the providers that are    *)
(* hidden.  The resolvers of sufen_cli, which is not in the repository,    *)
(* are part of the surroundings.  Headers, model names and the fallback    *)
(* chains of config.yaml are left out.  "none" is what is not set.         *)
(***************************************************************************)
EXTENDS Integers, Sequences, SequencesExt

(***************************************************************************)
(* An endpoint is a host and the form of its URL; a key is where it came   *)
(* from and the host it is for.                                            *)
(***************************************************************************)
Endpoint(host, form) == [host |-> host, form |-> form]
Nowhere == Endpoint("none", "none")
Key(from, for) == [from |-> from, for |-> for]
NoKey == Key("none", "none")
NotRequired == Key("not required", "none")

\* _to_openai_base_url: the other surface of the same host.
ToOpenAI(at) ==
    CASE at.form = "/anthropic" -> [at EXCEPT !.form = "/v1"]
      [] at.form = "/coding"    -> [at EXCEPT !.form = "/coding/v1"]
      [] OTHER                  -> at
SpeaksAnthropic(at) == at.form \in {"/anthropic", "/coding", "/coding/v1", "native"}

\* The registry: what each provider is, and where.
ApiKeyProviders == <<"kimi", "anthropic", "minimax", "deepseek", "gemini">>
HomeOf(p) ==
    CASE p = "kimi"      -> Endpoint(p, "/coding")
      [] p = "minimax"   -> Endpoint(p, "/anthropic")
      [] p = "anthropic" -> Endpoint(p, "native")
      [] OTHER           -> Endpoint(p, "/v1")

\* _get_aux_model_for_provider: no cheap model is known of the ones with OAuth.
HasOwnModel(p) == p \in {"kimi", "minimax", "gemini", "openrouter", "nous"}

Client(p, at, key) == [provider |-> p, at |-> at, key |-> key, wire |-> "openai", model |-> "none"]
Nobody == Client("none", Nowhere, NoKey)
Speaking(c, wire) == IF c = Nobody THEN c ELSE [c EXCEPT !.wire = wire]

-----------------------------------------------------------------------------
(* Wrapping: the protocol a client speaks.                                 *)

\* _maybe_wrap_anthropic: the wrapper has a client of its own, for the URL
\* it is given.
MaybeAnthropic(c, at, mode, w) ==
    IF /\ c.wire = "openai" /\ mode \in {"none", "anthropic_messages"}
       /\ mode = "anthropic_messages" \/ SpeaksAnthropic(at)
       /\ w.sdk
    THEN [c EXCEPT !.wire = "anthropic", !.at = at]
    ELSE c

\* _wrap_if_needed
WrapIfNeeded(c, at, mode, w) ==
    IF c.wire = "openai" /\ mode = "codex_responses"
    THEN Speaking(c, "responses") ELSE MaybeAnthropic(c, at, mode, w)

-----------------------------------------------------------------------------
(* The main model.                                                         *)

\* _read_main_*: what the running agent recorded, else config.yaml, for each
\* of them on its own.
MainProvider(w) == IF w.run.provider # "none" THEN w.run.provider ELSE w.cfg.provider
MainAt(w) == IF w.run.at # Nowhere THEN w.run.at ELSE w.cfg.at
MainKey(w) == IF w.run.key # NoKey THEN w.run.key ELSE w.cfg.key

\* Mutant: an endpoint of the task's inherits the main key wherever it is.
MainKeyAnywhere(at, w) == MainKey(w)

\* _read_main_api_key_if_same_host
MainKeyIfSameHost(at, w) ==
    IF at.host # "none" /\ at.host = MainAt(w).host THEN MainKey(w) ELSE NoKey

\* _normalize_aux_provider: "main" is the main provider or a custom endpoint.
Normalize(p, w) ==
    CASE p = "none"     -> "auto"
      [] p = "main" -> IF MainProvider(w) \notin {"none", "auto", "main"} THEN MainProvider(w) ELSE "custom"
      [] OTHER      -> p

-----------------------------------------------------------------------------
(* Credentials.  A pool is absent, drained (nothing to select), without a  *)
(* key, or ready.                                                          *)

PoolPresent(p, w) == w.pool[p] # "absent"
PoolKey(p, w) == IF w.pool[p] = "ready" THEN Key("pool", p) ELSE NoKey
LoginKey(p, w) == IF p \in w.logins THEN Key("login", p) ELSE NoKey
KeyOr(key, other) == IF key # NoKey THEN key ELSE other
ClientWith(p, at, key) == IF key = NoKey THEN Nobody ELSE Client(p, at, key)

\* The key of a pool comes first, then the one in the environment.
TryOpenRouter(explicit, w) ==
    ClientWith("openrouter", HomeOf("openrouter"),
        KeyOr(explicit, KeyOr(PoolKey("openrouter", w), LoginKey("openrouter", w))))

\* The rate guard of the portal, then its pool, then the auth store.
TryNous(w) ==
    IF w.guarded THEN Nobody
    ELSE ClientWith("nous", HomeOf("nous"), KeyOr(PoolKey("nous", w), LoginKey("nous", w)))

\* OpenAI's and xAI's subscriptions are only used with a model that was asked for.
BuildCodex(p, model, w) ==
    IF model = "none" /\ MainProvider(w) = "none" THEN Nobody
    ELSE Speaking(ClientWith(p, HomeOf(p), KeyOr(PoolKey(p, w), LoginKey(p, w))), "responses")

\* A pool that is drained lends neither its key nor its endpoint.
TryAnthropic(explicit, w) ==
    LET pooled == w.pool["anthropic"] \in {"ready", "keyless"}
        key == KeyOr(explicit, IF pooled THEN PoolKey("anthropic", w) ELSE LoginKey("anthropic", w))
        at == IF w.cfg.provider = "anthropic" /\ w.cfg.at.form = "native" THEN w.cfg.at ELSE HomeOf("anthropic")
    IN  Speaking(ClientWith("anthropic", at, key), "anthropic")

TryAzure(explicit, at, mode, w) ==
    LET c == ClientWith("azure", IF at = Nowhere THEN HomeOf("azure") ELSE at,
                        KeyOr(explicit, LoginKey("azure", w)))
    IN  CASE mode = "codex_responses" -> Speaking(c, "responses")
          [] c # Nobody /\ mode = "anthropic_messages" -> MaybeAnthropic(c, c.at, mode, w)
          [] OTHER -> c

\* _resolve_api_key_provider: the first one with a key and a known model.
FirstApiKey(w) ==
    LET KeyOf(p) == IF PoolPresent(p, w) THEN PoolKey(p, w) ELSE LoginKey(p, w)
        Usable(p) == /\ p \notin w.hidden
                     /\ IF p = "anthropic" THEN w.cfg.provider = p ELSE KeyOf(p) # NoKey /\ HasOwnModel(p)
        usable == {i \in DOMAIN ApiKeyProviders : Usable(ApiKeyProviders[i])}
        p == ApiKeyProviders[Min(usable)]
    IN  IF usable = {} THEN Nobody
        ELSE CASE p = "anthropic" -> TryAnthropic(NoKey, w)
               [] p = "gemini"    -> Speaking(Client(p, HomeOf(p), KeyOf(p)), "gemini")
               [] OTHER -> MaybeAnthropic(Client(p, ToOpenAI(HomeOf(p)), KeyOf(p)), HomeOf(p), "none", w)

\* _try_custom_endpoint, of _resolve_custom_runtime: OpenRouter and Codex
\* have entries of their own.
TryCustom(w) ==
    LET c == Client("custom", w.custom.at, KeyOr(w.custom.key, NotRequired))
    IN  IF w.custom.at.host \in {"none", "openrouter", "codex"} THEN Nobody
        ELSE IF w.custom.mode = "codex_responses" THEN Speaking(c, "responses")
        ELSE MaybeAnthropic(c, w.custom.at, w.custom.mode, w)

-----------------------------------------------------------------------------
(***************************************************************************)
(* resolve_provider_client.  A request names a provider and may bring a    *)
(* model, an endpoint, a key and a mode; main is the runtime it is given   *)
(* along.                                                                  *)
(***************************************************************************)
NoRuntime == [provider |-> "none", at |-> Nowhere, key |-> NoKey]
Request(p, model, at, key, mode) ==
    [provider |-> p, model |-> model, at |-> at, key |-> key, mode |-> mode, main |-> NoRuntime]

\* The endpoint of the request, or the one of the runtime, or whatever is
\* configured.
ResolveCustom(r, w) ==
    LET at == ToOpenAI(r.at)
        key == KeyOr(r.key, KeyOr(LoginKey("openai", w), KeyOr(MainKeyIfSameHost(at, w), NotRequired)))
        other == TryCustom(w)
    IN  IF r.at # Nowhere THEN WrapIfNeeded(Client("custom", at, key), at, r.mode, w)
        ELSE IF r.main.at # Nowhere /\ r.main.key # NoKey
        THEN WrapIfNeeded(Client("custom", r.main.at, r.main.key), r.main.at, r.mode, w)
        ELSE LET c == IF other # Nobody THEN other ELSE FirstApiKey(w)
             IN  IF c = Nobody THEN c ELSE WrapIfNeeded(c, c.at, r.mode, w)

HouseClient(r, w, told) ==
    LET mode == IF r.mode # "none" THEN r.mode ELSE w.house.mode
        key == KeyOr(w.house.key, NotRequired)
        at == IF mode = "anthropic_messages" /\ w.sdk THEN w.house.at ELSE ToOpenAI(w.house.at)
        c == Client("house", at, key)
    IN  IF w.house.at = Nowhere THEN Nobody
        ELSE CASE mode = "anthropic_messages" -> IF w.sdk THEN Speaking(c, "anthropic") ELSE c
               [] mode = "codex_responses" -> Speaking(c, "responses")
               [] OTHER -> WrapIfNeeded(c, told, r.mode, w)

\* A named provider of the user's config.yaml.
ResolveHouse(r, w) == HouseClient(r, w, w.house.at)

\* A key of the request's replaces the one that is stored; its endpoint
\* replaces the registry's, by which the protocol is still told.
ResolveApiKey(r, w) ==
    LET p == r.provider
        key == KeyOr(r.key, LoginKey(p, w))
        at == ToOpenAI(IF r.at # Nowhere THEN r.at ELSE HomeOf(p))
        c == Client(p, at, key)
    IN  IF key = NoKey THEN Nobody
        ELSE IF p = "gemini" THEN Speaking(c, "gemini")
        ELSE WrapIfNeeded(c, HomeOf(p), r.mode, w)

\* Providers with a client of their own: a process, Google's and Amazon's clouds.
ResolveCloud(p, w) ==
    LET wire == CASE p = "acp" -> "acp" [] p = "bedrock" -> "anthropic" [] OTHER -> "openai"
    IN  Speaking(ClientWith(p, HomeOf(p), LoginKey(p, w)), wire)

Resolve(r, w) ==
    LET p == Normalize(r.provider, w)
    IN  CASE p = "openrouter" -> TryOpenRouter(r.key, w)
          [] p = "nous" -> TryNous(w)
          [] p \in {"codex", "xai"} -> BuildCodex(p, r.model, w)
          [] p = "custom" -> ResolveCustom([r EXCEPT !.provider = p], w)
          [] p = "house" -> ResolveHouse(r, w)
          [] p = "azure" -> TryAzure(r.key, r.at, r.mode, w)
          [] p = "anthropic" -> TryAnthropic(r.key, w)
          [] Contains(ApiKeyProviders, p) /\ p # "anthropic" -> ResolveApiKey([r EXCEPT !.provider = p], w)
          [] p \in {"acp", "vertex", "bedrock"} -> ResolveCloud(p, w)
          [] OTHER -> Nobody

-----------------------------------------------------------------------------
(***************************************************************************)
(* _resolve_auto: the main provider, unless it is hidden, and then the     *)
(* built-in chain without the hidden ones.  main is the runtime of the     *)
(* caller; what it lacks is taken from the one the process has recorded.   *)
(***************************************************************************)
\* A mixture of agents is answered for by its aggregator, elsewhere.
Aggregated(main, w) ==
    IF main.provider = "moa" /\ w.aggregator \notin {"none", "moa"}
    THEN [provider |-> w.aggregator, at |-> Nowhere, key |-> NoKey] ELSE main

MainRuntime(main, w) ==
    [provider |-> IF main.provider # "none" THEN main.provider ELSE MainProvider(w),
     at |-> IF main.at # Nowhere THEN main.at ELSE w.run.at,
     key |-> IF main.key # NoKey THEN main.key ELSE w.run.key]

\* The chain goes by labels: that of a custom endpoint is "local/custom".
Chain(w) ==
    <<[label |-> "openrouter", client |-> TryOpenRouter(NoKey, w)],
      [label |-> "nous", client |-> TryNous(w)],
      [label |-> "local/custom", client |-> TryCustom(w)],
      [label |-> "api-key", client |-> FirstApiKey(w)]>>
LabelOf(p) == IF p = "custom" THEN "local/custom" ELSE p

FromChain(w) ==
    LET up == {i \in DOMAIN Chain(w) : Chain(w)[i].label \notin w.hidden /\ Chain(w)[i].client # Nobody}
    IN  IF up = {} THEN Nobody ELSE Chain(w)[Min(up)].client

\* The model is the caller's, else the main one, whoever answers.
ResolveAuto(main, model, w) ==
    LET m == Aggregated(MainRuntime(main, w), w)
        first == Resolve(Request(m.provider, "main", m.at, m.key, "none"), w)
        asked == m.provider \notin {"none", "auto"} /\ LabelOf(m.provider) \notin w.hidden
        c == IF asked /\ first # Nobody THEN first ELSE FromChain(w)
        named == IF model = "none" /\ MainProvider(w) # "none" THEN "main" ELSE model
    IN  IF c = Nobody \/ named = "none" THEN c ELSE [c EXCEPT !.model = named]

-----------------------------------------------------------------------------
(***************************************************************************)
(* _resolve_task_provider_model: the caller's arguments, then the task's   *)
(* settings, then "auto".                                                  *)
(***************************************************************************)
\* "openai" stands for its public endpoint.
Alias(x) ==
    IF x.provider = "openai"
    THEN [x EXCEPT !.provider = "custom", !.at = IF x.at # Nowhere THEN x.at ELSE Endpoint("openai", "/v1")]
    ELSE x

\* _preserve_provider_with_base_url: providers with a profile.
HasProfile(p) == p \notin {"none", "auto", "custom", "house"}

TaskProvider(args, task) ==
    LET a0 == Alias(args)
        t == Alias(task)
        adopts == /\ a0.provider \notin {"none", "auto"} /\ a0.at = Nowhere /\ t.at # Nowhere
                  /\ t.provider \in {"none", a0.provider}
        a == IF adopts THEN [a0 EXCEPT !.at = t.at, !.key = IF a0.key # NoKey THEN a0.key ELSE t.key] ELSE a0
        To(p, at, key) == Request(p, args.model, at, key, t.mode)
    IN  IF a.at # Nowhere THEN To(IF HasProfile(a.provider) THEN a.provider ELSE "custom", a.at, a.key)
        ELSE IF a.provider # "none" THEN To(a.provider, a.at, a.key)
        ELSE IF t.at # Nowhere /\ t.key # NoKey THEN To("custom", t.at, t.key)
        ELSE IF t.provider \notin {"none", "auto"} THEN To(t.provider, t.at, t.key)
        ELSE To("auto", Nowhere, NoKey)

\* get_text_auxiliary_client: the client of a task.
TaskClient(args, task, main, w) ==
    LET r == [TaskProvider(args, task) EXCEPT !.main = main]
    IN  IF Normalize(r.provider, w) = "auto" THEN ResolveAuto(main, r.model, w) ELSE Resolve(r, w)

-----------------------------------------------------------------------------
(* Properties, of one client.                                              *)

\* Of a record that is one half, endpoint or key, the other half is taken from
\* the next; the clients of some providers are made for their own host.
Halved(m) == m.at = Nowhere <=> m.key # NoKey
MadeForItsHost(p) == p = "openrouter" \/ SpeaksAnthropic(HomeOf(p))

\* The hosts at which a key of the main model's may end that it is not for: the
\* endpoint of one half with the key of the other, and, when the main model is
\* asked first, the home of its provider.
Strays(auto, main, w) ==
    LET m == MainRuntime(main, w)
    IN  {h \in {MainAt(w).host} : Halved(w.run)}
        \cup {h \in {m.at.host} : auto /\ Halved(main)}
        \cup {h \in {m.provider} : auto /\ (m.at = Nowhere \/ MadeForItsHost(m.provider))}

\* The key of the main model goes to the host it is for, and strays no farther
\* than its own two records: whatever is configured, an endpoint of the task's
\* at another host never inherits it, nor does the aggregator of a mixture
\* (agent/auxiliary_client.py 2066-2083, 3897-3917).
MainKeyKept(c, auto, main, w) ==
    c.key.from = "main" => c.key.for = c.at.host \/ c.at.host \in Strays(auto, main, w)

\* "Inheriting unconditionally would send the main credential to ANY host a
\* misconfigured aux base_url names" (2072-2075): one host does get another's
\* key, when the endpoint and the key of the main model were recorded apart.
MainKeyStaysHome(c) == c.key.from = "main" => c.key.for = c.at.host

\* No protocol was asked for, and the endpoint is the provider's own, by which
\* it is told; Azure's is told by a resolver that is not in the repository.
Unasked(c, mode, w) ==
    /\ mode = "none" /\ c.provider # "azure"
    /\ c.provider = "custom" => w.custom.mode = "none"
    /\ c.provider = "house" => w.house.mode = "none"
AtItsOwn(c) ==
    Contains(ApiKeyProviders, c.provider) => c.at \in {HomeOf(c.provider), ToOpenAI(HomeOf(c.provider))}

\* An endpoint that only speaks Anthropic's protocol is spoken to in it, by
\* whichever branch the client was built, unless another mode was asked for
\* (1359-1381).
SpeaksItsProtocol(c, mode, w) ==
    Unasked(c, mode, w) /\ AtItsOwn(c) /\ SpeaksAnthropic(c.at) /\ w.sdk => c.wire = "anthropic"

\* What was automatically chosen is not hidden (2593-2604).
ChoosesTheVisible(c, w) == c # Nobody => LabelOf(c.provider) \notin w.hidden

\* "all land on the right wire format regardless of which branch built the
\* client" (1370-1373): a client of a registered provider is told by the
\* provider's URL and not by the one it is made for.
ToldByTheEndpoint(c, mode, w) ==
    Unasked(c, mode, w) /\ SpeaksAnthropic(c.at) /\ w.sdk => c.wire = "anthropic"

\* "Honour an explicit base_url override from the caller" (4594-4598).
EndpointHonoured(c, at) == c # Nobody /\ at # Nowhere => c.at.host = at.host

\* A model the provider does not know "won't work.  Drop it and use the
\* provider's own default model instead" (4221-4224): so does the main model at
\* a provider the chain fell back to.
ModelOfItsProvider(c, w) == c.model = "main" => c.provider = MainProvider(w)
=============================================================================
