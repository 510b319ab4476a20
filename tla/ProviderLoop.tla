---------------------------- MODULE ProviderLoop ----------------------------
(***************************************************************************)
(* sufen/provider.py: answer_with_provider, the tool-calling loop between  *)
(* SuFen and an OpenAI-compatible provider, with what it calls: the reply  *)
(* normalisers, the dispatch of tool calls, the retry when the model asks  *)
(* for data it has been given, the fallback answer, and the guardrails     *)
(* that rewrite an answer before it leaves.                                *)
(*                                                                         *)
(* Texts are abstracted to what the code tests them for.  What the model   *)
(* may send is unconstrained; what the code makes of it is modelled.       *)
(***************************************************************************)
EXTENDS Naturals, Sequences, FiniteSets

CONSTANTS
    MaxTurns,   \* MAX_TOOL_LOOP_TURNS
    MaxCalls,   \* bound: tool calls in one reply
    Requests,   \* what answer_with_provider may be given
    Answers,    \* final messages the model may send
    NoRequest

Intents == {"casual", "chat", "business"}
Topics == {"verdict", "owner"}

(* task      a task package is present                                     *)
(* key       SUFEN_PROVIDER_API_KEY is set                                 *)
(* context   what the package carries: a full archive, a broker file, just *)
(*           a summary or rows, or nothing                                 *)
(* property  the subject is a property                                     *)
(* evidence  sourceQuality calls its facts sparse, or its card not loaded  *)
(* supplied  what archiveContext says of the message itself: its intent,   *)
(*           or the raw message                                            *)
(* intent    what _classify_user_intent says of the message as it came     *)
(* topics    the message asks for a verdict on it, or how to talk to its   *)
(*           owner                                                         *)
(* again     the same two as they are read off the retry prompt            *)
Request == [task : BOOLEAN, key : BOOLEAN,
            context : {"none", "summary", "broker", "archive"},
            property : BOOLEAN, evidence : {"full", "noCard", "sparse"},
            supplied : SUBSET {"intent", "message"}, intent : Intents, topics : SUBSET Topics,
            again : [intent : Intents, topics : SUBSET Topics]]

(* asks      it asks for data or echoes the fail-closed message            *)
(* reveals   it names facts of the file, or uses background jargon         *)
(* long      it says more than a sparse file supports                      *)
(* hedged    it states the limits of its evidence                          *)
(* persist, memory, drafts   what it proposes to store; a "direct" draft   *)
(*           is one sent with draftOnly false                              *)
(* claims    how many tool calls its own toolAudit lists, made or not      *)
Answer == [asks : BOOLEAN, reveals : {"nothing", "names", "jargon"}, long : BOOLEAN,
           hedged : BOOLEAN, persist : BOOLEAN, memory : BOOLEAN,
           drafts : {"none", "draft", "direct"}, claims : Nat]

ASSUME LoopAssumption ==
    /\ MaxTurns \in Nat \ {0}
    /\ MaxCalls \in Nat \ {0}
    /\ Requests \subseteq Request
    /\ Answers \subseteq Answer
    /\ NoRequest \notin Request

VARIABLES
    pc,        \* idle, gate, request, dispatch, exhausted, or how it ended
    req,       \* the request being answered
    retried,   \* retried_authorized_context: the prompt is the retry prompt
    turn,      \* the loop counter
    messages,  \* the conversation the next request carries
    batch,     \* how many tool calls the last reply has, while they run
    index,     \* the call to be dispatched next
    loopAudit, \* loop_audit
    response,  \* the SuFenResponse returned
    posts,     \* history: requests sent to the provider for this answer
    executed   \* history: tool calls carried out for this answer

vars == <<pc, req, retried, turn, messages, batch, index, loopAudit, response, posts, executed>>

Ended == {"answered", "raised", "crashed"}

AuditEntry == {"tool", "retry", "ok", "ok_turns", "missing_task", "missing_key", "not_list",
               "rejected", "max_turns", "ok_context_fallback", "after_retry",
               "compact_sparse", "owner_boundary", "guardrail"}

Response == [source : {"none", "failClosed", "model", "fallback"},
             reveals : {"nothing", "names", "jargon"}, asks : BOOLEAN, persist : BOOLEAN,
             memory : BOOLEAN, drafts : {"none", "draft", "direct"}, audit : Seq(AuditEntry)]

-----------------------------------------------------------------------------
(* Messages and responses.                                                 *)

\* build_provider_messages
FreshMessages == <<[role |-> "system"], [role |-> "user"]>>
Assistant(k) == [role |-> "assistant", calls |-> k]
ToolResult(i) == [role |-> "tool", answers |-> i]

NoResponse == [source |-> "none", reveals |-> "nothing", asks |-> FALSE, persist |-> FALSE,
               memory |-> FALSE, drafts |-> "none", audit |-> <<>>]

\* provider_fail_closed_response and missing_task_package_response
FailClosed(audit) == [NoResponse EXCEPT !.source = "failClosed", !.asks = TRUE, !.audit = audit]

\* _provider_message_to_sufen: the normalisation drops the memory patch,
\* whatever the model sent, and keeps the draftOnly flag of each draft and
\* the entries of the model's own toolAudit, which look like the loop's.
FromModel(a) == [source |-> "model", reveals |-> a.reveals, asks |-> a.asks, persist |-> a.persist,
                 memory |-> FALSE, drafts |-> a.drafts,
                 audit |-> Append([i \in 1 .. a.claims |-> "tool"], "ok")]

\* _authorized_context_fallback_response: a table of the authorized facts.
Fallback(previous) ==
    [NoResponse EXCEPT !.source = "fallback",
                       !.reveals = IF req.context \in {"archive", "broker"} THEN "names" ELSE "nothing",
                       !.audit = loopAudit \o previous.audit \o <<"ok_context_fallback", "after_retry">>]

-----------------------------------------------------------------------------
(* The guardrails.                                                         *)

\* _raw_user_message and _classify_user_intent of the current prompt.  What the
\* backend supplied stays.  Everything else is read off the retry prompt, where
\* the first marker or label that matches may be the user's, that of the wrong
\* answer it quotes, or its own, which the fact card full of business words
\* follows: it may come out as anything.
Intent == IF retried /\ req.supplied = {} THEN req.again.intent ELSE req.intent

TopicsRead == IF retried /\ "message" \notin req.supplied THEN req.again.topics ELSE req.topics

Asks(topic) == req.property /\ req.context = "archive" /\ Intent = "business" /\ topic \in TopicsRead

\* _compact_sparse_property_answer_if_needed
Compacts(long) == Asks("verdict") /\ req.evidence = "sparse" /\ long

\* _prefix_property_owner_boundary_if_needed; the compacted text is hedged.
Prefixes(long, hedged) == Asks("owner") /\ req.evidence # "full" /\ ~hedged /\ ~Compacts(long)

\* _answer_leaks_background: the leak terms are those of the archive only.
Leaks(reveals) == reveals = "jargon" \/ (reveals = "names" /\ req.context = "archive")

\* _final_answer_guardrail: a greeting gets a short reply and nothing else,
\* and so does small talk that would reveal the file.
Silences(reveals) == Intent = "casual" \/ (Intent = "chat" /\ Leaks(reveals))

Compacted(r) == [r EXCEPT !.reveals = "names", !.persist = FALSE,
                          !.audit = Append(@, "compact_sparse")]
Prefixed(r) == [r EXCEPT !.audit = Append(@, "owner_boundary")]
Silenced(r) == [NoResponse EXCEPT !.source = r.source, !.audit = Append(r.audit, "guardrail")]

\* The three rewrites; the first two are for business messages, the last for
\* the others, so that at most one applies.
Guarded(r, long, hedged) ==
    CASE Compacts(long)         -> Compacted(r)
      [] Prefixes(long, hedged) -> Prefixed(r)
      [] Silences(r.reveals)    -> Silenced(r)
      [] OTHER                  -> r

\* The fallback text is long and speaks of evidence.
GuardedFallback(previous) == Guarded(Fallback(previous), TRUE, TRUE)

HasContext == req.context # "none"

\* (mutant) The second demand is not recognised.
WronglyMissingOnce(a) == HasContext /\ a.asks /\ ~retried

\* _looks_like_wrong_missing_context_response
WronglyMissing(a) == HasContext /\ a.asks

\* How a rejected tool call and an exhausted loop end: with the facts where
\* the package holds any, fail closed where it does not.
Closing(status) ==
    LET closed == FailClosed(<<status>> \o loopAudit)
    IN IF HasContext THEN GuardedFallback(closed) ELSE closed

-----------------------------------------------------------------------------
Init ==
    /\ pc = "idle"
    /\ req = NoRequest
    /\ retried = FALSE
    /\ turn = 0
    /\ messages = <<>>
    /\ batch = 0
    /\ index = 0
    /\ loopAudit = <<>>
    /\ response = NoResponse
    /\ posts = 0
    /\ executed = 0

End(how, r) == pc' = how /\ response' = r

\* The for statement: another turn, or the code behind the loop.
NextTurn == IF turn < MaxTurns
            THEN pc' = "request" /\ turn' = turn + 1
            ELSE pc' = "exhausted" /\ UNCHANGED turn

\* answer_with_provider is called.
Enter(r) ==
    /\ pc = "idle"
    /\ pc' = "gate"
    /\ req' = r
    /\ UNCHANGED <<retried, turn, messages, batch, index, loopAudit, response, posts, executed>>

\* Without a task package nothing is sent anywhere.
NoTask ==
    /\ pc = "gate"
    /\ ~req.task
    /\ End("answered", FailClosed(<<"missing_task">>))
    /\ UNCHANGED <<req, retried, turn, messages, batch, index, loopAudit, posts, executed>>

\* ensure_safe_actions raises a ValueError (see Delegation).
GateRejects ==
    /\ pc = "gate"
    /\ req.task
    /\ End("raised", NoResponse)
    /\ UNCHANGED <<req, retried, turn, messages, batch, index, loopAudit, posts, executed>>

\* It accepts, but there is no key to call the provider with.
NoKey ==
    /\ pc = "gate"
    /\ req.task
    /\ ~req.key
    /\ End("answered", FailClosed(<<"missing_key">>))
    /\ UNCHANGED <<req, retried, turn, messages, batch, index, loopAudit, posts, executed>>

\* It accepts and the loop starts.
StartLoop ==
    /\ pc = "gate"
    /\ req.task
    /\ req.key
    /\ pc' = "request"
    /\ turn' = 1
    /\ messages' = FreshMessages
    /\ UNCHANGED <<req, retried, batch, index, loopAudit, response, posts, executed>>

\* A request of the loop is sent: the guard all its outcomes share.
Post == pc = "request" /\ posts' = posts + 1

\* HTTP error or timeout, no message in the reply, or a final message that is
\* not the JSON of the contract: ProviderError (or a ValueError of the parser).
RequestFails ==
    /\ Post
    /\ End("raised", NoResponse)
    /\ UNCHANGED <<req, retried, turn, messages, batch, index, loopAudit, executed>>

\* A final message, returned after the guardrails.
FinalAnswer(a) ==
    /\ Post
    /\ ~WronglyMissing(a)
    /\ End("answered", [Guarded(FromModel(a), a.long, a.hedged) EXCEPT
                           !.audit = @ \o loopAudit \o <<"ok_turns">>])
    /\ UNCHANGED <<req, retried, turn, messages, batch, index, loopAudit, executed>>

\* (mutant) The retry forgets what was done before it.
RetryForgetsAudit(a) ==
    /\ Post
    /\ WronglyMissing(a)
    /\ ~retried
    /\ retried' = TRUE
    /\ loopAudit' = <<"retry">>
    /\ messages' = FreshMessages
    /\ NextTurn
    /\ UNCHANGED <<req, batch, index, response, executed>>

\* A final message asks for data the package holds.  The first time the
\* conversation starts over with the retry prompt, at the price of a turn.
RetryWithFacts(a) ==
    /\ Post
    /\ WronglyMissing(a)
    /\ ~retried
    /\ retried' = TRUE
    /\ loopAudit' = Append(loopAudit, "retry")
    /\ messages' = FreshMessages
    /\ NextTurn
    /\ UNCHANGED <<req, batch, index, response, executed>>

\* The second time the facts are the answer.
AnswerWithFacts(a) ==
    /\ Post
    /\ WronglyMissing(a)
    /\ retried
    /\ End("answered", GuardedFallback(FromModel(a)))
    /\ UNCHANGED <<req, retried, turn, messages, batch, index, loopAudit, executed>>

\* tool_calls is something other than a list.
CallsNotAList ==
    /\ Post
    /\ End("answered", FailClosed(<<"not_list">>))
    /\ UNCHANGED <<req, retried, turn, messages, batch, index, loopAudit, executed>>

\* The model calls k tools.
CallTools(k) ==
    /\ Post
    /\ messages' = Append(messages, Assistant(k))
    /\ batch' = k
    /\ index' = 1
    /\ pc' = "dispatch"
    /\ UNCHANGED <<req, retried, turn, loopAudit, response, executed>>

\* (mutant) Only the first call of a reply is answered.
ToolAnswersFirst ==
    /\ pc = "dispatch"
    /\ messages' = Append(messages, ToolResult(index))
    /\ loopAudit' = Append(loopAudit, "tool")
    /\ executed' = executed + 1
    /\ index' = index + 1
    /\ NextTurn
    /\ UNCHANGED <<req, retried, batch, response, posts>>

\* _dispatch_tool_call returns a tool message (an {"error": ...} of the
\* registry, which has no "ok" field, is one too); after the last call the
\* loop goes round.
ToolAnswers ==
    /\ pc = "dispatch"
    /\ messages' = Append(messages, ToolResult(index))
    /\ loopAudit' = Append(loopAudit, "tool")
    /\ executed' = executed + 1
    /\ index' = index + 1
    /\ IF index = batch THEN NextTurn ELSE UNCHANGED <<pc, turn>>
    /\ UNCHANGED <<req, retried, batch, response, posts>>

\* _dispatch_tool_call raises ProviderError: a tool that is not SuFen's, an
\* argument that is bound to the task, arguments that do not parse, or a tool
\* that fails closed.  The remaining calls are dropped.
ToolRejected ==
    /\ pc = "dispatch"
    /\ End("answered", Closing("rejected"))
    /\ UNCHANGED <<req, retried, turn, messages, batch, index, loopAudit, posts, executed>>

\* A tool call that is not an object: AttributeError, which nobody catches.
ToolCrashes ==
    /\ pc = "dispatch"
    /\ End("crashed", NoResponse)
    /\ UNCHANGED <<req, retried, turn, messages, batch, index, loopAudit, posts, executed>>

\* (mutant) Without facts there is nothing to return.
ExhaustedWithFacts ==
    /\ pc = "exhausted"
    /\ HasContext
    /\ End("answered", Closing("max_turns"))
    /\ UNCHANGED <<req, retried, turn, messages, batch, index, loopAudit, posts, executed>>

\* MAX_TOOL_LOOP_TURNS requests were not enough.
Exhausted ==
    /\ pc = "exhausted"
    /\ End("answered", Closing("max_turns"))
    /\ UNCHANGED <<req, retried, turn, messages, batch, index, loopAudit, posts, executed>>

\* The locals are gone.
Reset ==
    /\ pc' = "idle"
    /\ req' = NoRequest
    /\ retried' = FALSE
    /\ turn' = 0
    /\ messages' = <<>>
    /\ batch' = 0
    /\ index' = 0
    /\ loopAudit' = <<>>
    /\ response' = NoResponse
    /\ posts' = 0
    /\ executed' = 0

\* The caller takes the response or the exception, ...
Leave == pc \in Ended /\ Reset

\* ... or the process dies on the way.
Die == pc # "idle" /\ Reset

Gate == NoTask \/ GateRejects \/ NoKey \/ StartLoop
Reply ==
    \/ RequestFails
    \/ \E a \in Answers : FinalAnswer(a) \/ RetryWithFacts(a) \/ AnswerWithFacts(a)
    \/ CallsNotAList
    \/ \E k \in 1 .. MaxCalls : CallTools(k)
Dispatch == ToolAnswers \/ ToolRejected \/ ToolCrashes

Next ==
    \/ \E r \in Requests : Enter(r)
    \/ Gate \/ Reply \/ Dispatch \/ Exhausted \/ Leave \/ Die

Spec == Init /\ [][Next]_vars

\* The code between two requests runs on, and every request ends: the HTTP
\* client has a 60 second timeout.
Fairness == WF_vars(Gate \/ Reply \/ Dispatch \/ Exhausted)
FairSpec == Spec /\ Fairness

-----------------------------------------------------------------------------
TypeOK ==
    /\ pc \in {"idle", "gate", "request", "dispatch", "exhausted"} \cup Ended
    /\ req \in Requests \cup {NoRequest}
    /\ retried \in BOOLEAN
    /\ turn \in 0 .. MaxTurns
    /\ messages \in Seq({[role |-> "system"], [role |-> "user"]}
                         \cup {Assistant(k) : k \in 1 .. MaxCalls}
                         \cup {ToolResult(i) : i \in 1 .. MaxCalls})
    /\ batch \in 0 .. MaxCalls
    /\ index \in 0 .. MaxCalls + 1
    /\ loopAudit \in Seq(AuditEntry)
    /\ response \in Response
    /\ posts \in 0 .. MaxTurns
    /\ executed \in Nat

Occurrences(what, audit) == Cardinality({i \in DOMAIN audit : audit[i] = what})

\* Every request carries a conversation a chat-completions API accepts: each
\* assistant message with tool calls is followed by one answer per call, in
\* order, and no tool answer stands alone, also after the retry started the
\* conversation over and after a reply with several calls.
ConversationWellFormed ==
    pc = "request" =>
        /\ \A i \in DOMAIN messages : messages[i].role = "assistant" =>
              \A j \in 1 .. messages[i].calls :
                  i + j \in DOMAIN messages /\ messages[i + j] = ToolResult(j)
        /\ \A i \in DOMAIN messages : messages[i].role = "tool" =>
              LET a == i - messages[i].answers
              IN a \in DOMAIN messages /\ messages[a].role = "assistant" /\ messages[a].calls >= i - a

\* One answer costs at most MAX_TOOL_LOOP_TURNS requests: the retry with facts
\* comes out of the same budget as the tool turns.
RequestsBounded == posts <= MaxTurns /\ (pc = "request" => posts < MaxTurns)

\* With authorized facts in the package the model's demand for data never
\* reaches the user: it is retried once and then replaced by the facts.
NoDemandForHeldData ==
    pc = "answered" /\ response.source \in {"model", "fallback"} /\ HasContext => ~response.asks

\* Only an answer of the model may propose to store anything; the answers the
\* code makes up (fail closed, fallback) persist nothing and carry no drafts,
\* and no answer at all carries a memory patch.
MadeUpAnswersStoreNothing ==
    /\ ~response.memory
    /\ response.source \in {"failClosed", "fallback"} =>
          ~response.persist /\ response.drafts = "none"

\* The audit of an answer names every tool call that was carried out for it,
\* those before a retry threw the results away included.  It may name more:
\* what the model claims is kept beside what the loop recorded.
AuditAccountsForTools ==
    pc = "answered" /\ response.source \in {"model", "fallback"} =>
        Occurrences("tool", response.audit) >= executed

\* A greeting the backend itself passed on, or marked as one, is answered
\* without a word about the file on every way through the loop, though the retry
\* has the guardrails read another prompt.
SuppliedGreetingStaysShort ==
    pc = "answered" /\ req.intent = "casual" /\ req.supplied # {} /\ response.source # "failClosed" =>
        response.reveals = "nothing" /\ ~response.persist /\ response.drafts = "none"

\* What is sent to the provider can be answered, within the budget of requests.
ConversationSound == TypeOK /\ ConversationWellFormed /\ RequestsBounded

\* What an answer must not contain is in none, whichever way through the loop
\* made it: the model's text, the fallback or the refusal.
AnswersSound ==
    NoDemandForHeldData /\ MadeUpAnswersStoreNothing /\ SuppliedGreetingStaysShort

\* A caller gets its response or an exception, however the model keeps
\* calling tools or asking for data, unless the process dies.
AlwaysEnds == pc = "gate" ~> pc \in Ended \cup {"idle"}

\* What sufen/policy/system.md asks for of every greeting.
GreetingStaysShort ==
    pc = "answered" /\ req.intent = "casual" /\ response.source # "failClosed" =>
        response.reveals = "nothing"

\* What TEST_REPORT.md says of the drafts in a response.
DraftsStayDraftOnly == response.drafts # "direct"
=============================================================================
