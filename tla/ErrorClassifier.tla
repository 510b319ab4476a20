-------------------------- MODULE ErrorClassifier --------------------------
(***************************************************************************)
(* agent/error_classifier.py: why a request failed, and what to do about   *)
(* it.  classify_api_error is one ordered list of rules, of which the      *)
(* first that fits decides.  The text of an error is a set of phrases, and *)
(* a phrase is known by the pattern tables it hits: a rule only ever asks  *)
(* whether some pattern of a table occurs.                                 *)
(*                                                                         *)
(* agent/reasoning_timeouts.py, which says whether a model thinks for      *)
(* minutes, is not in the repository: what it answers is part of the       *)
(* session, and that its import fails at this commit is left out.          *)
(***************************************************************************)
EXTENDS Integers, Sequences, SequencesExt

(***************************************************************************)
(* The tables a phrase hits.  Patterns are substrings, so that one phrase  *)
(* hits several: "rate limit exceeded" has "limit exceeded" in it, and     *)
(* "insufficient_quota" has "quota".                                       *)
(***************************************************************************)
QuotaPhrases ==
    [credit_balance |-> {"billing"}, insufficient_quota |-> {"billing", "usage"},
     key_limit_exceeded |-> {"usage", "key"}, too_many_requests |-> {"rate"},
     rate_limit_exceeded |-> {"rate", "usage"}, try_again_in |-> {"rate", "transient"},
     overloaded |-> {"overloaded"}, resets_at |-> {"transient"}]
SizePhrases ==
    [payload_too_large |-> {"payload"}, image_too_large |-> {"image"},
     text_is_not_set |-> {"multimodal"}, context_length |-> {"overflow"},
     token_limit_exceeded |-> {"overflow", "usage"}]
RequestPhrases ==
    [model_not_found |-> {"not_found"}, unsupported_parameter |-> {"validation"},
     unsupported_max_tokens |-> {"validation", "overflow"},
     invalid_request_error |-> {"invalid_request"}, no_endpoints |-> {"policy"},
     flagged |-> {"content_policy"}, invalid_api_key |-> {"auth"}]
TransportPhrases ==
    [timed_out |-> {"timeout"}, certificate_verify_failed |-> {"certificate"},
     ssl_alert |-> {"ssl"}, peer_closed |-> {"disconnect"}]
SpecialPhrases ==
    [thinking_signature |-> {"thinking"}, extra_usage_long_context |-> {"tier"},
     long_context_beta |-> {"beta"}, parsing_grammar |-> {"grammar"},
     no_grok_subscription |-> {"grok"}, encrypted_content |-> {"encrypted"}]

Tables(phrase) ==
    CASE phrase \in DOMAIN QuotaPhrases     -> QuotaPhrases[phrase]
      [] phrase \in DOMAIN SizePhrases      -> SizePhrases[phrase]
      [] phrase \in DOMAIN RequestPhrases   -> RequestPhrases[phrase]
      [] phrase \in DOMAIN TransportPhrases -> TransportPhrases[phrase]
      [] OTHER                              -> SpecialPhrases[phrase]

-----------------------------------------------------------------------------
(***************************************************************************)
(* What is read off an exception and its causes: [type, links], where a    *)
(* link of the chain is [status, body, says] and a body is "none" or       *)
(* [code, nested, top, says, wrapped].  Only five links are looked at.     *)
(***************************************************************************)
Depth == 5
LinksOf(e) == SubSeq(e.links, 1, IF Len(e.links) < Depth THEN Len(e.links) ELSE Depth)
HeadOr(s, default) == IF s = <<>> THEN default ELSE Head(s)

\* The SDK names a rate limit by the type of its exception only.
StatusOf(e) ==
    LET link == HeadOr(SelectSeq(LinksOf(e), LAMBDA l : l.status # 0), [status |-> 0])
    IN  IF link.status = 0 /\ e.type = "RateLimitError" THEN 429 ELSE link.status

NoBody == [code |-> "none", nested |-> "none", top |-> "none", says |-> {}, wrapped |-> FALSE, generic |-> TRUE]
BodyOf(e) ==
    HeadOr(SelectSeq(LinksOf(e), LAMBDA l : l.body # NoBody), [body |-> NoBody]).body

\* A code that only repeats the status is none; the envelope in the message
\* is looked into before the top level of the body.
CodeOf(e) ==
    HeadOr(SelectSeq(<<BodyOf(e).code, BodyOf(e).nested, BodyOf(e).top>>,
                     LAMBDA c : c \notin {"none", "400"}), "none")

\* The text is that of the outermost exception and of the body, wherever in
\* the chain that was found.
TextOf(e) == UNION {Tables(p) : p \in Head(e.links).says \cup BodyOf(e).says}

\* "Provider returned error": the aggregator's key is healthy.
Upstream(e) == BodyOf(e).wrapped

-----------------------------------------------------------------------------
(* A rule gives a reason and its hints when it applies, and is silent when *)
(* it does not.  Of a list of rules the first that speaks decides, and so  *)
(* it is among lists.                                                      *)

Verdict(reason, hints) == [reason |-> reason, hints |-> hints]
Silent == Verdict("none", {})
Rule(when, reason, hints) == IF when THEN Verdict(reason, hints) ELSE Silent

FirstOf(rules) ==
    LET speaking == {i \in DOMAIN rules : rules[i] # Silent}
    IN  IF speaking = {} THEN Silent ELSE rules[Min(speaking)]

Fatal == {"fallback"}
Limit == {"retry", "rotate", "fallback"}
Drained == {"rotate", "fallback"}
TooBig == {"retry", "compress"}

\* The patterns that name one provider's trouble come before any status.
SpecialRules(status, text) ==
    <<Rule("content_policy" \in text, "content_policy_blocked", Fatal),
      Rule(status = 400 /\ "thinking" \in text, "thinking_signature", {"retry"}),
      Rule(status = 429 /\ "tier" \in text, "long_context_tier", TooBig),
      Rule(status = 400 /\ "beta" \in text, "oauth_long_context_beta_forbidden", {"retry"}),
      Rule(status = 400 /\ "grammar" \in text, "llama_cpp_grammar_pattern", {"retry"}),
      Rule("grok" \in text, "auth", Fatal)>>

AccessRules(status, text) ==
    <<Rule(status = 401, "auth", Drained),
      Rule(status = 403 /\ text \cap {"key", "billing"} # {}, "billing", Drained),
      Rule(status = 403, "auth", Fatal)>>

PaymentRules(status, text) ==
    <<Rule(status = 402 /\ {"usage", "transient"} \subseteq text, "rate_limit", Limit),
      Rule(status = 402, "billing", Drained)>>

MissingRules(status, text) ==
    <<Rule(status = 404 /\ "billing" \in text, "billing", Drained),
      Rule(status = 404 /\ "policy" \in text, "provider_policy_blocked", {}),
      Rule(status = 404 /\ "not_found" \in text, "model_not_found", Fatal),
      Rule(status = 404, "unknown", {"retry"})>>

\* Mutant: an upstream's limit rotates the key as any other.
LimitRulesByStatus(status, text, upstream) ==
    <<Rule(status = 413, "payload_too_large", TooBig),
      Rule(status = 429 /\ "overloaded" \in text, "overloaded", {"retry"}),
      Rule(status = 429, "rate_limit", Limit)>>

\* An overloaded server answers 429 as well: the key is not to blame.
LimitRules(status, text, upstream) ==
    <<Rule(status = 413, "payload_too_large", TooBig),
      Rule(status = 429 /\ "overloaded" \in text, "overloaded", {"retry"}),
      Rule(status = 429 /\ upstream, "upstream_rate_limit", {"retry", "fallback"}),
      Rule(status = 429, "rate_limit", Limit)>>

\* A bare 400 of a long session is taken for an overflow.
BadRequestRules(text, code, body, session) ==
    <<Rule("multimodal" \in text, "multimodal_tool_content_unsupported", {"retry"}),
      Rule("image" \in text, "image_too_large", {"retry"}),
      Rule(code = "invalid_encrypted_content" \/ "encrypted" \in text, "invalid_encrypted_content", {"retry"}),
      Rule("validation" \in text \/ code = "unsupported_parameter", "format_error", Fatal),
      Rule("overflow" \in text, "context_overflow", TooBig),
      Rule("policy" \in text, "provider_policy_blocked", {}),
      Rule("not_found" \in text, "model_not_found", Fatal),
      Rule("rate" \in text, "rate_limit", Limit),
      Rule("billing" \in text, "billing", Drained),
      Rule(body.generic /\ session.long, "context_overflow", TooBig),
      Rule(TRUE, "format_error", Fatal)>>

ServerRules(status, text, code) ==
    <<Rule(/\ status \in {500, 502}
           /\ \/ text \cap {"validation", "invalid_request"} # {}
              \/ code \in {"invalid_request_error", "unsupported_parameter"}, "format_error", Fatal),
      Rule(status \in {500, 502, 503, 529} /\ "overflow" \in text, "context_overflow", TooBig),
      Rule(status \in {503, 529}, "overloaded", {"retry"}),
      Rule(status \in 400 .. 499, "format_error", Fatal),
      Rule(status \in 500 .. 599, "server_error", {"retry"})>>

ByStatus(e, session) ==
    LET status == StatusOf(e)
        text == TextOf(e)
        code == CodeOf(e)
    IN  FirstOf(<<FirstOf(AccessRules(status, text)), FirstOf(PaymentRules(status, text)),
                  FirstOf(MissingRules(status, text)), FirstOf(LimitRules(status, text, Upstream(e))),
                  IF status = 400 THEN FirstOf(BadRequestRules(text, code, BodyOf(e), session)) ELSE Silent,
                  FirstOf(ServerRules(status, text, code))>>)

CodeRules(code) ==
    <<Rule(code = "rate_limit_exceeded", "rate_limit", {"retry", "rotate"}),
      Rule(code = "insufficient_quota", "billing", Drained),
      Rule(code = "model_not_found", "model_not_found", Fatal),
      Rule(code = "context_length_exceeded", "context_overflow", TooBig),
      Rule(code = "invalid_encrypted_content", "invalid_encrypted_content", {"retry"})>>

MessageRules(text) ==
    <<Rule("payload" \in text, "payload_too_large", TooBig),
      Rule("multimodal" \in text, "multimodal_tool_content_unsupported", {"retry"}),
      Rule("image" \in text, "image_too_large", {"retry"}),
      Rule({"usage", "transient"} \subseteq text, "rate_limit", Limit),
      Rule("usage" \in text, "billing", Drained),
      Rule("overloaded" \in text, "overloaded", {"retry"}),
      Rule("billing" \in text, "billing", Drained),
      Rule("rate" \in text, "rate_limit", Limit),
      Rule("overflow" \in text, "context_overflow", TooBig),
      Rule("auth" \in text, "auth", Drained),
      Rule("policy" \in text, "provider_policy_blocked", {}),
      Rule("not_found" \in text, "model_not_found", Fatal),
      Rule("timeout" \in text, "timeout", {"retry"})>>

\* A connection that is dropped on a long session is taken for an overflow,
\* except for a model that thinks so long that proxies give up on it (external:
\* get_reasoning_stale_timeout_floor).
TransportRules(status, text, type, session) ==
    <<Rule("certificate" \in text, "ssl_cert_verification", {}),
      Rule("ssl" \in text, "timeout", {"retry"}),
      Rule("disconnect" \in text /\ status = 0 /\ session.long /\ ~session.thinks, "context_overflow", TooBig),
      Rule("disconnect" \in text /\ status = 0, "timeout", {"retry"}),
      Rule(type = "Transport", "timeout", {"retry"}),
      Rule(TRUE, "unknown", {"retry"})>>

\* session = [long, thinks]: a long conversation, a reasoning model.
Classify(e, session) ==
    LET status == StatusOf(e)
        text == TextOf(e)
    IN  FirstOf(<<FirstOf(SpecialRules(status, text)), IF status # 0 THEN ByStatus(e, session) ELSE Silent,
                  FirstOf(CodeRules(CodeOf(e))), FirstOf(MessageRules(text)),
                  FirstOf(TransportRules(status, text, e.type, session))>>)

-----------------------------------------------------------------------------
(* Properties, of one error.                                               *)

\* What a 400 is searched for, and what an error without a status is.
SoughtInBadRequest ==
    {"multimodal", "image", "encrypted", "validation", "overflow", "policy", "not_found", "rate", "billing"}
SoughtInMessage ==
    {"payload", "multimodal", "image", "usage", "overloaded", "billing", "rate", "overflow", "auth",
     "policy", "not_found", "timeout", "certificate", "ssl"}

\* Whether the session is long decides only where nothing that is searched for
\* was found: in a 400 of a few words, and when a connection drops without a
\* status.  Whatever the provider was understood to say outweighs a guess by
\* the size, though the guess comes last but one of some forty rules
\* (agent/error_classifier.py 800-841, 1213-1237).
SizeOnlyBreaksTies(e, thinks) ==
    LET short == Classify(e, [long |-> FALSE, thinks |-> thinks])
        long == Classify(e, [long |-> TRUE, thinks |-> thinks])
    IN  short # long =>
          /\ long.reason = "context_overflow"
          /\ \/ /\ StatusOf(e) = 400 /\ BodyOf(e).generic /\ short.reason = "format_error"
                /\ TextOf(e) \cap SoughtInBadRequest = {}
             \/ /\ StatusOf(e) = 0 /\ "disconnect" \in TextOf(e) /\ ~thinks /\ short.reason = "timeout"
                /\ TextOf(e) \cap SoughtInMessage = {}

\* Something an error says against the key: it is refused, unpaid or limited.
BlamesTheKey(e) ==
    \/ StatusOf(e) \in {401, 402, 429}
    \/ TextOf(e) \cap {"usage", "key", "billing", "rate", "auth"} # {}
    \/ CodeOf(e) \in {"rate_limit_exceeded", "insufficient_quota"}

\* A failure that is the server's own, whatever else its text may hit: a 5xx,
\* a limit of the server or of the provider behind the aggregator, and a server
\* that says without a status that it is overloaded, but nothing of a usage limit.
ServersOwn(e) ==
    \/ StatusOf(e) \in 500 .. 599
    \/ StatusOf(e) = 429 /\ ("overloaded" \in TextOf(e) \/ Upstream(e))
    \/ /\ StatusOf(e) = 0 /\ CodeOf(e) = "none"
       /\ "overloaded" \in TextOf(e) /\ "usage" \notin TextOf(e)

\* A rotated key is out of the pool for minutes: it is rotated only for what
\* something in the error blames on it, and never for a failure of the server's
\* own (136-149, 955-983, 1356-1360).
KeyIsSpared(e, v) == "rotate" \in v.hints => BlamesTheKey(e) /\ ~ServersOwn(e)

\* Something an error says of the size of the request.
NamesTheSize(e) ==
    \/ StatusOf(e) = 413
    \/ TextOf(e) \cap {"overflow", "payload", "tier"} # {}
    \/ CodeOf(e) = "context_length_exceeded"

\* Compressing drops part of the conversation: it answers what something in
\* the error says of the size, or the guess in a long session, and never a
\* parameter that is rejected, though the name of one reads like an overflow
\* (1156-1184, 1010-1019).
HistoryIsSpared(e, session, v) ==
    "compress" \in v.hints =>
        /\ NamesTheSize(e) \/ session.long
        /\ ~(StatusOf(e) \in {400, 500, 502} /\ "validation" \in TextOf(e))

\* "Generic 400 + large session": "a bare 'Error' message" (1213-1214).  A 400
\* "invalid api key" is as short, and not searched for.
BareMeansBare(e, thinks) ==
    StatusOf(e) = 400 /\ TextOf(e) # {} =>
        Classify(e, [long |-> FALSE, thinks |-> thinks]) = Classify(e, [long |-> TRUE, thinks |-> thinks])

\* "The credential is valid -- the server is just busy -- so the correct
\* recovery is [...] never 'rotate the credential'" (136-141), "Must come BEFORE
\* the rate_limit and billing checks" (1356-1360).  The usage limits come before
\* it, and a 400 is not searched for it.
OverloadSparesTheKey(e, v) ==
    StatusOf(e) \in {0, 400} /\ "overloaded" \in TextOf(e) => "rotate" \notin v.hints

\* "Patterns that indicate rate limiting (transient, will resolve)" (126):
\* a text without a status that says "rate limit exceeded" is none of billing.
RateLimitIsTransient(e, v) ==
    StatusOf(e) = 0 /\ CodeOf(e) = "none" /\ "rate" \in TextOf(e) /\ "billing" \notin TextOf(e)
        => v.reason # "billing"
=============================================================================
