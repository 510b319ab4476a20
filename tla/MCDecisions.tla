---------------------------- MODULE MCDecisions ----------------------------
EXTENDS Decisions

-----------------------------------------------------------------------------
(* Errors: two phrases in one text; a coded body; a status or a body of a  *)
(* cause.                                                                  *)

Phrases == DOMAIN QuotaPhrases \cup DOMAIN SizePhrases \cup DOMAIN RequestPhrases
           \cup DOMAIN TransportPhrases \cup DOMAIN SpecialPhrases
Statuses == {0, 302, 400, 401, 402, 403, 404, 413, 418, 429, 500, 503, 504}
Codes == {"none", "400", "rate_limit_exceeded", "insufficient_quota", "model_not_found",
          "context_length_exceeded", "invalid_encrypted_content",
          "invalid_request_error", "unsupported_parameter"}

Link(status, says, body) == [status |-> status, says |-> says, body |-> body]
Coded(phrase, code, generic) == [NoBody EXCEPT !.says = {phrase}, !.code = code, !.generic = generic]
Failure(type, links) == [type |-> type, links |-> links]

MCErrors ==
    {Failure("Other", <<Link(s, {p, q}, NoBody)>>) : s \in Statuses, p, q \in Phrases}
    \cup {Failure("Other", <<Link(s, {}, Coded(p, c, g))>>) :
             s \in Statuses, p \in Phrases, c \in Codes, g \in BOOLEAN}
    \cup {Failure(t, <<Link(0, {p}, NoBody)>>) : t \in {"RateLimitError", "Transport"}, p \in Phrases}
    \cup {Failure("Other", <<Link(s, {p}, [NoBody EXCEPT !.wrapped = w]), Link(429, {"overloaded"}, b)>>) :
             s \in Statuses, p \in Phrases, w \in BOOLEAN,
             b \in {NoBody, [NoBody EXCEPT !.says = {"flagged"}, !.top = "insufficient_quota"]}}
MCSessions == [long : BOOLEAN, thinks : BOOLEAN]

-----------------------------------------------------------------------------
(* Clients: a gateway of the user's own and another endpoint, that speaks  *)
(* Anthropic's protocol, next to the providers' own; a main model that is  *)
(* reached by way of a gateway, one without a key, and one without an      *)
(* endpoint.                                                               *)

Gate == Endpoint("gate", "/v1")
Other == Endpoint("other", "/anthropic")
Main(p, at) == [provider |-> p, at |-> at, key |-> IF at = Nowhere THEN NoKey ELSE Key("main", at.host)]
Setting(p, at, key, mode) == [provider |-> p, at |-> at, key |-> key, mode |-> mode]
Blank == Setting("none", Nowhere, NoKey, "none")

MCArguments ==
    {[provider |-> p, model |-> "none", at |-> Nowhere, key |-> NoKey] :
        p \in {"none", "auto", "main", "openai", "custom", "house", "openrouter", "nous", "codex",
               "azure", "anthropic", "kimi", "deepseek", "gemini", "acp", "unknown"}}
    \cup {[provider |-> p, model |-> "asked", at |-> at, key |-> NoKey] : p \in {"none", "custom", "kimi"}, at \in {Gate, Other}}
    \cup {[provider |-> "deepseek", model |-> "none", at |-> HomeOf("kimi"), key |-> NoKey]}
MCTasks ==
    {Blank, Setting("none", Gate, NoKey, "none"), Setting("custom", Other, Key("task", "other"), "none"),
     Setting("minimax", Nowhere, NoKey, "none"), Setting("house", Nowhere, NoKey, "codex_responses")}
Keyless(m) == [m EXCEPT !.key = NoKey]
Placeless(m) == [m EXCEPT !.at = Nowhere]
MCRuntimes ==
    {NoRuntime, Main("custom", Endpoint("gate2", "/coding")), Keyless(Main("custom", Endpoint("gate2", "/v1")))}

Pools == {"openrouter", "nous", "codex", "xai", "anthropic"}
Pooled(ready, drained) ==
    [p \in Pools \cup {"kimi", "minimax", "deepseek", "gemini"} |->
        IF p \in ready THEN "ready" ELSE IF p \in drained THEN "drained" ELSE "absent"]

MCSurroundings ==
    [cfg : {Main("none", Nowhere), Main("custom", Gate), Main("minimax", HomeOf("minimax"))},
     run : {NoRuntime, Main("custom", Endpoint("gate2", "/v1")), Main("moa", Gate),
            Main("openrouter", Gate), Keyless(Main("custom", Gate)), Placeless(Main("custom", Gate))},
     pool : {Pooled({}, {"anthropic"}), Pooled({"openrouter", "kimi"}, {}), Pooled({"nous", "codex"}, {"openrouter"})},
     logins : {{}, {"openrouter", "anthropic"}, {"minimax", "deepseek", "codex"}, {"kimi", "gemini"}},
     custom : {Setting("none", Nowhere, NoKey, "none"), Setting("none", Other, NoKey, "none")},
     house : {Setting("none", Other, NoKey, mode) : mode \in {"none", "codex_responses"}},
     hidden : {{}, {"openrouter", "minimax"}, {"nous", "local/custom"}},
     guarded : {FALSE}, sdk : {TRUE}, aggregator : {"kimi"}]

-----------------------------------------------------------------------------
(* Windows: every host with every provider that can be configured for it,  *)
(* next to entries of before and servers that changed since.               *)

Hosts == {"none", "local", "remote", "nous", "novita", "chatgpt", "anthropic", "openrouter",
          "ollama-cloud", "gmi", "bedrock", "copilot", "alibaba"}
Model(p, at, listed, family) ==
    [provider |-> p, at |-> at, config |-> 0, listed |-> listed, family |-> family, slot |-> <<>>]
MCModels ==
    {Model(p, at, listed, family) :
        p \in {"none", "custom", "openrouter", "nous", "openai-codex", "lmstudio", "anthropic"},
        at \in Hosts, listed \in {0, 100}, family \in {"none", "kimi", "m3", "grok"}}
    \cup {Model("bedrock", at, 0, "none") : at \in {"bedrock", "local"}}
    \cup {[Model("moa", "local", listed, "none") EXCEPT !.slot = slot] :
             listed \in {0, 100}, slot \in {<<>>, <<Model("nous", "nous", 0, "kimi")>>}}

\* A server with one window, with none, one that says it in a field only one of
\* the probers reads, and one that says two.
Plain(models, fields) == [kind |-> "plain", models |-> models, fields |-> fields, weights |-> 0, running |-> 0]
Ollama(weights, running) ==
    [kind |-> "ollama", models |-> 0, fields |-> 0, weights |-> weights, running |-> running]
MCSources ==
    {[disk |-> disk, catalog |-> catalog, router |-> router, table |-> table, server |-> server,
      codex |-> lists[1], bedrock |-> lists[2]] :
        disk \in {0, 32, 200, 400}, catalog \in {0, 200}, router \in {0, 32}, table \in {0, 1000},
        lists \in {<<0, 0>>, <<128, 200>>, <<272, 0>>},
        server \in {Plain(n, n) : n \in {0, 32, 128, 500}} \cup {Plain(128, 0), Plain(0, 128), Plain(128, 100)}
                   \cup {Ollama(weights, running) : weights \in {32, 128}, running \in {0, 32, 100}}}

-----------------------------------------------------------------------------
(* The trigger: windows below, at and above the minimum.                   *)

Percent(n) == [num |-> n, den |-> 100]
MCShares == {Percent(50), Percent(90)}
MCReserves == {0, 30, 80}
MCWindows == {64, 100, 200}
MCSummarizers == {64, 90}
MCSizes == {40, 66, 120}
=============================================================================
