----------------------------- MODULE ModelRequest -----------------------------
(***************************************************************************)
(* agent/chat_completion_helpers.py: interruptible_api_call and            *)
(* interruptible_streaming_api_call.  The agent's thread hands a request   *)
(* to a worker thread and polls: it kills the connection of a request that *)
(* is stale or that the user interrupts, and may leave before the worker   *)
(* does.  A worker that was left goes on while the next turn, for which    *)
(* the interrupt is cleared, makes its own request.  The provider and the  *)
(* clients (AIAgent, run_agent.py) are external; they answer as they like. *)
(***************************************************************************)
EXTENDS Integers, FiniteSets

CONSTANTS
    MaxAttempts, \* SUFEN_STREAM_RETRIES + 1
    MaxRequests, \* bound: requests, each of a turn of its own
    OneClient    \* bound: whether the later go through a client like the first's

ASSUME BoundsAssumption ==
    MaxAttempts \in Nat \ {0} /\ MaxRequests \in Nat \ {0} /\ OneClient \in BOOLEAN

Request == 1 .. MaxRequests

VARIABLES
    current,     \* the request of the turn
    poller,      \* where the agent's thread is with it
    armed,       \* a clock can run out on it
    request,     \* what its worker, its client and the result dict are at
    disabled,    \* agent._disable_streaming
    interrupted  \* agent._interrupt_requested

reqVars == <<current, poller, armed, request, disabled, interrupted>>

\* A "bedrock" stream has a poller of its own, and turns to "converse" when the
\* account may not stream.
Kind == {"stream", "plain", "bedrock", "converse"}
Bedrock == {"bedrock", "converse"}
\* Its own (request_client_holder), agent._anthropic_client, or one that no
\* poller can reach (Bedrock's, the facade of a mixture of agents).
Client == {"own", "shared", "none"}
Error == {"lost", "unsupported", "other", "interrupted", "timeout"}
State == [kind : Kind, client : Client,
          worker : {"none", "top", "open", "waiting", "failed", "closing", "done"},
          why : Error \cup {"none"},                  \* the exception at hand
          attempt : 1 .. MaxAttempts,                 \* _stream_attempt + 1
          live : {"none", "open", "silent", "aborted", "closed"}, \* the connection
          text : BOOLEAN,                             \* deltas_were_sent
          tool : BOOLEAN,                             \* partial_tool_names
          calling : BOOLEAN,                          \* tool_calls_acc of the attempt
          shown : SUBSET (1 .. MaxAttempts),          \* attempts whose text the user reads
          aside : BOOLEAN,                            \* text went to the display beside a tool call
          cancelled : BOOLEAN,                        \* _request_cancelled
          response : {"none", "full", "cut", "dropped"},
          error : Error \cup {"none"},
          outcome : {"none", "response", "stub", "raised", "interrupted"}]

ReqTypeOK ==
    /\ current \in 0 .. MaxRequests
    /\ poller \in {"idle", "while", "body", "killed"}
    /\ request \in [Request -> State]
    /\ {armed, disabled, interrupted} \subseteq BOOLEAN

Unused ==
    [kind |-> "plain", client |-> "none", worker |-> "none", why |-> "none", attempt |-> 1,
     live |-> "none", text |-> FALSE, tool |-> FALSE, calling |-> FALSE,
     shown |-> {}, aside |-> FALSE, cancelled |-> FALSE, response |-> "none",
     error |-> "none", outcome |-> "none"]

ReqInit ==
    /\ current = 0 /\ poller = "idle" /\ armed = FALSE
    /\ request = [k \in Request |-> Unused]
    /\ disabled = FALSE /\ interrupted = FALSE

-----------------------------------------------------------------------------
(***************************************************************************)
(* The worker of request k.                                                *)
(***************************************************************************)
Becomes(k, r) == request' = [request EXCEPT ![k] = r] /\ UNCHANGED <<current, poller, armed>>

\* Before each attempt the worker looks at the agent's interrupt.
Top(k) ==
    LET r == request[k] IN
    /\ r.worker = "top"
    /\ Becomes(k, IF r.kind = "stream" /\ interrupted
                  THEN [r EXCEPT !.error = "interrupted", !.worker = "closing"]
                  ELSE [r EXCEPT !.worker = "open"])
    /\ UNCHANGED <<disabled, interrupted>>

\* A client is made, stamped with its owner, and the request is sent.
Open(k) ==
    LET r == request[k] IN
    /\ r.worker = "open"
    /\ Becomes(k, [r EXCEPT !.live = "open", !.worker = "waiting"])
    /\ UNCHANGED <<disabled, interrupted>>

Waits(k) == request[k].worker = "waiting"
\* The provider sends something.
Sends(k) == Waits(k) /\ request[k].live = "open"
Streams(k) == Sends(k) /\ request[k].kind \in {"stream", "bedrock"}

\* The provider: from here on nothing comes over the connection.
FallSilent(k) ==
    /\ Sends(k)
    /\ Becomes(k, [request[k] EXCEPT !.live = "silent"])
    /\ UNCHANGED <<disabled, interrupted>>

\* Text goes to the user, until the stream has begun a tool call; ...
Text(k) ==
    LET r == request[k] IN
    /\ Streams(k) /\ ~r.calling /\ ~interrupted
    /\ Becomes(k, [r EXCEPT !.text = TRUE, !.shown = @ \cup {r.attempt}])
    /\ UNCHANGED <<disabled, interrupted>>

\* ... from then on only to the callback of the display, which is to tell what
\* is reasoning, and it does not count as delivered.
TextAside(k) ==
    LET r == request[k] IN
    /\ Streams(k) /\ r.calling /\ ~interrupted
    /\ Becomes(k, [r EXCEPT !.aside = TRUE])
    /\ UNCHANGED <<disabled, interrupted>>

\* The deltas of a tool call: only a chat completion's stream keeps the name.
Tool(k) ==
    LET r == request[k] IN
    /\ Streams(k) /\ r.kind = "stream" /\ r.client = "own" /\ ~interrupted
    /\ Becomes(k, [r EXCEPT !.tool = TRUE, !.calling = TRUE])
    /\ UNCHANGED <<disabled, interrupted>>

\* A chunk finds the agent interrupted: the loop is left with what it has.  An
\* Anthropic stream has nothing to return then.
Cut(k) ==
    LET r == request[k] IN
    /\ Streams(k) /\ interrupted
    /\ Becomes(k, [r EXCEPT !.response = IF r.client = "shared" THEN "none" ELSE "cut", !.worker = "closing"])
    /\ UNCHANGED <<disabled, interrupted>>

\* The response is complete; or the stream ended inside the arguments of a
\* tool call, which is then dropped; or it was empty, which is an error.
Complete(k) ==
    LET r == request[k] IN
    /\ Streams(k)
    /\ \/ Becomes(k, [r EXCEPT !.response = "full", !.worker = "closing"])
       \/ r.calling /\ Becomes(k, [r EXCEPT !.response = "dropped", !.worker = "closing"])
       \/ /\ r.kind = "stream" /\ r.client = "own" /\ ~r.text /\ ~r.calling
          /\ Becomes(k, [r EXCEPT !.why = "other", !.worker = "failed"])
    /\ UNCHANGED <<disabled, interrupted>>

Respond(k) ==
    /\ Sends(k) /\ request[k].kind \in {"plain", "converse"}
    /\ Becomes(k, [request[k] EXCEPT !.response = "full", !.worker = "closing"])
    /\ UNCHANGED <<disabled, interrupted>>

\* The provider ignored stream=True and answered whole.
CompleteUnstreamed(k) ==
    LET r == request[k] IN
    /\ Streams(k) /\ r.kind = "stream" /\ r.client = "own" /\ ~r.text /\ ~r.calling
    /\ Becomes(k, [r EXCEPT !.response = "full", !.worker = "closing"])
    /\ disabled' = TRUE /\ UNCHANGED interrupted

\* The request fails: a connection that was shut down is lost, and a client
\* that was closed has an error of its own.
Fail(k) ==
    LET r == request[k] IN
    /\ Waits(k)
    /\ \E why \in {"lost", "unsupported", "other"} :
          /\ r.live = "aborted" => why = "lost"
          /\ r.live = "closed" => why \in {"lost", "other"}
          /\ Becomes(k, [r EXCEPT !.why = why, !.worker = "failed"])
    /\ UNCHANGED <<disabled, interrupted>>

Quits(r) == [r EXCEPT !.why = "none", !.worker = "closing"]
GivesUp(r) == [Quits(r) EXCEPT !.error = r.why]

\* The own client is closed by its owner.
Released(r) == [r EXCEPT !.live = "none", !.aside = FALSE, !.calling = FALSE]

Retried(r) == [Released(r) EXCEPT !.why = "none", !.attempt = @ + 1, !.worker = "top"]

\* Retried after text was shown: inside a tool call only, behind a marker, and
\* with everything of the attempt forgotten.
RetriedMidTool(r) ==
    [Retried(r) EXCEPT !.text = FALSE, !.tool = FALSE, !.shown = {}]

\* Mutant: what was shown already does not stand in the way of a retry.
AfterFailureRetryShown(r) ==
    IF r.cancelled THEN Quits(r)
    ELSE IF r.kind = "stream" /\ r.why = "lost" /\ r.attempt < MaxAttempts
         THEN Retried(r) ELSE GivesUp(r)

\* The handler of a failed attempt.
AfterFailure(r) ==
    CASE r.cancelled -> Quits(r)
      [] ~r.cancelled /\ r.kind = "stream" /\ r.why = "lost" /\ r.attempt < MaxAttempts ->
            IF ~r.text THEN Retried(r) ELSE IF r.tool THEN RetriedMidTool(r) ELSE GivesUp(r)
      [] OTHER -> GivesUp(r)

\* On Bedrock a denied stream is asked for again, unstreamed, by the same worker.
BedrockUnstreamed(k) ==
    LET r == request[k] IN
    /\ r.worker = "failed" /\ r.kind = "bedrock" /\ r.why = "unsupported" /\ ~r.text
    /\ Becomes(k, [r EXCEPT !.kind = "converse", !.why = "none", !.live = "open", !.worker = "waiting"])
    /\ disabled' = TRUE /\ UNCHANGED interrupted

\* agent._anthropic_client is closed, whoever reads from it, and made anew.
SharedClosed(requests) ==
    [j \in Request |-> IF requests[j].client = "shared" /\ requests[j].live \in {"open", "silent"}
                       THEN [requests[j] EXCEPT !.live = "closed"] ELSE requests[j]]

\* A provider that does not stream is not asked to again.
Handle(k) ==
    LET r == request[k]
        after == [request EXCEPT ![k] = AfterFailure(r)] IN
    /\ r.worker = "failed" /\ ~(r.kind = "bedrock" /\ r.why = "unsupported" /\ ~r.text)
    /\ request' = IF after[k].worker = "top" /\ r.client = "shared" THEN SharedClosed(after) ELSE after
    /\ UNCHANGED <<current, poller, armed>>
    /\ disabled' = (disabled \/ (r.why = "unsupported" /\ r.kind = "stream" /\ ~r.text /\ ~r.cancelled))
    /\ UNCHANGED interrupted

\* The worker ends, and with it what only it knew.
Close(k) ==
    LET r == request[k] IN
    /\ r.worker = "closing"
    /\ Becomes(k, [Released(r) EXCEPT !.worker = "done", !.attempt = 1, !.tool = FALSE])
    /\ UNCHANGED <<disabled, interrupted>>

Worker(k) ==
    \/ Top(k) \/ Open(k) \/ FallSilent(k) \/ Text(k) \/ TextAside(k) \/ Tool(k) \/ Cut(k) \/ Complete(k)
    \/ Respond(k) \/ CompleteUnstreamed(k) \/ Fail(k) \/ BedrockUnstreamed(k) \/ Handle(k) \/ Close(k)

-----------------------------------------------------------------------------
(***************************************************************************)
(* The agent's thread.                                                     *)
(***************************************************************************)
\* A turn clears the interrupt and makes its request.
Begin ==
    /\ poller = "idle" /\ current < MaxRequests
    /\ current' = current + 1 /\ interrupted' = FALSE
    /\ \E kind \in IF disabled THEN {"plain"} ELSE Kind \ {"converse"}, client \in Client :
          /\ OneClient /\ current > 0 => client = request[current].client
          /\ kind = "stream" => client # "none"
          /\ kind = "bedrock" => client = "none"
          /\ request' = [request EXCEPT ![current'] =
                [Unused EXCEPT !.kind = kind, !.client = client, !.worker = "top"]]
          /\ armed' \in IF kind = "bedrock" THEN {FALSE} ELSE BOOLEAN
    /\ poller' = "while"
    /\ UNCHANGED disabled

Own == request[current]

Return(outcome, r) ==
    /\ request' = [request EXCEPT ![current] = [r EXCEPT !.outcome = outcome]]
    /\ poller' = "idle" /\ armed' = FALSE

\* What the call returns: text the user has read is kept in a stub, for an error
\* would have it asked for, and shown, once more.
Result(r) ==
    Return(IF r.error = "none" THEN "response"
          ELSE IF r.text /\ r.kind = "stream" THEN "stub" ELSE "raised", r)

\* Mutant: the call that returns takes the interrupt with it.
WorkerDoneClears ==
    /\ poller = "while" /\ Own.worker = "done"
    /\ Result(Own)
    /\ interrupted' = FALSE
    /\ UNCHANGED <<current, disabled>>

\* while t.is_alive()
WorkerDone ==
    /\ poller = "while" /\ Own.worker = "done"
    /\ Result(Own)
    /\ UNCHANGED <<current, disabled, interrupted>>

Join ==
    /\ poller = "while" /\ Own.worker # "done"
    /\ poller' = "body"
    /\ UNCHANGED <<current, armed, request, disabled, interrupted>>

\* Mutant: no client was stamped, so there is none to shut down.
AbortNone(k) == request

\* A stranger to the worker's thread does not close its own client but shuts
\* the connection down, if there is one; the shared client it does close.
Abort(k) ==
    CASE request[k].client = "shared" -> SharedClosed(request)
      [] request[k].client = "own" /\ request[k].live \in {"open", "silent"} -> [request EXCEPT ![k].live = "aborted"]
      [] OTHER -> request

\* The clocks a request is under: without a byte, without an event, or too old.
\* Bedrock's stream has none, and for a local provider it is disabled.
\* A plain request that is stale is killed for good, ...
StalePlain ==
    /\ poller = "body" /\ armed /\ Own.kind = "plain"
    /\ request' = Abort(current)
    /\ poller' = "killed"
    /\ UNCHANGED <<current, armed, disabled, interrupted>>

\* ... a stream, when no chunk has come for long, for the worker to try again.
StaleStream ==
    /\ poller = "body" /\ armed /\ Own.kind = "stream"
    /\ request' = Abort(current)
    /\ UNCHANGED <<current, poller, armed, disabled, interrupted>>

\* Two seconds later what has come counts, and nothing is a timeout.
Killed ==
    /\ poller = "killed"
    /\ Result(IF Own.error = "none" /\ Own.response = "none"
              THEN [Own EXCEPT !.error = "timeout"] ELSE Own)
    /\ UNCHANGED <<current, disabled, interrupted>>

\* The request is marked as cancelled before its connection is killed.
Interrupted ==
    /\ poller = "body" /\ interrupted
    /\ request' = [Abort(current) EXCEPT ![current].cancelled = Own.kind \notin Bedrock,
                                         ![current].outcome = "interrupted"]
    /\ poller' = "idle" /\ armed' = FALSE
    /\ UNCHANGED <<current, disabled, interrupted>>

PollAgain ==
    /\ poller = "body" /\ ~interrupted
    /\ poller' = "while"
    /\ UNCHANGED <<current, armed, request, disabled, interrupted>>

Poll == WorkerDone \/ Join \/ StalePlain \/ StaleStream \/ Killed \/ Interrupted \/ PollAgain

UserInterrupts ==
    /\ poller # "idle" /\ ~interrupted
    /\ interrupted' = TRUE
    /\ UNCHANGED <<current, poller, armed, request, disabled>>

ReqNext == Begin \/ Poll \/ UserInterrupts \/ \E k \in Request : Worker(k)

ReqSpec == ReqInit /\ [][ReqNext]_reqVars

\* The agent's thread polls.  The clock of a plain request only counts up, that
\* of a stream as long as nothing comes.  A worker goes on unless it waits for
\* the provider, and a connection that was shut down fails; of a client that
\* was closed while its worker reads from it nothing is assumed.
ReqFairSpec ==
    /\ ReqSpec
    /\ WF_reqVars(WorkerDone \/ Join \/ Killed \/ Interrupted \/ PollAgain)
    /\ SF_reqVars(StalePlain \/ (StaleStream /\ Own.live = "silent"))
    /\ \A k \in Request :
          WF_reqVars(\/ Top(k) \/ Open(k) \/ Handle(k) \/ BedrockUnstreamed(k) \/ Close(k)
                     \/ request[k].live = "aborted" /\ Fail(k))

-----------------------------------------------------------------------------
\* The user never reads the same text twice: text of two attempts does not stand
\* there without the "reconnecting" marker between them (2551-2598), and no error
\* goes to the loop that would ask again after text was shown (2915-2998).
\* Requests to Bedrock (1894) are left out, they do raise it.
TextNeverRepeated ==
    \A k \in Request :
        request[k].kind = "stream" =>
            /\ Cardinality(request[k].shown) <= 1
            /\ request[k].outcome = "raised" => request[k].shown = {}

\* A response that an interrupt cut short looks complete (2140, 2372); a worker
\* that ends between two polls hands it on.  It is only handed on while the
\* interrupt still stands, so that the caller can tell.
CutOnlyWhileInterrupted ==
    [][\A k \in Request :
          request'[k].outcome = "response" /\ request[k].outcome = "none"
              /\ request[k].response = "cut" => interrupted']_reqVars

\* A client of its own is closed by the thread that made it and by no other, and
\* before that thread ends (235-252, 2791): under its worker a connection is at
\* most shut down.  The client all requests share is closed under it.
ClosedByItsOwner ==
    \A k \in Request :
        /\ request[k].worker = "done" => request[k].live = "none"
        /\ request[k].client = "own" /\ request[k].worker = "waiting" =>
              request[k].live \in {"open", "silent", "aborted"}

\* A request repeats nothing to the user and leaves no connection behind.
RequestSound == ReqTypeOK /\ TextNeverRepeated /\ ClosedByItsOwner

\* Whose end nothing in the code sees to: no clock runs (1890, 2803), or the
\* clock closes the shared client and the worker may go on waiting (2880).
Unwatched == ~armed \/ (Own.kind = "stream" /\ Own.client = "shared")

\* A call ends, whether the provider falls silent, before or after any retry, or
\* the user interrupts it, unless the provider goes on sending for ever.
CallEnds ==
    [](poller # "idle" /\ ~Unwatched => <>(poller = "idle") \/ <>[](current > 0 /\ Sends(current)))

\* The worker of a cancelled request exits: "no retry, no fallback" (2519-2523).
CancelledIsNotRetried ==
    [][\A k \in Request : request[k].cancelled /\ request[k].kind = "stream" /\ request[k].worker = "top" =>
                            request'[k].worker \in {"top", "closing"}]_reqVars

\* "let the worker close client from its own thread" (230-231): so it is not with
\* the shared client.
SharedClosedByItsOwner ==
    \A k \in Request : request[k].worker = "waiting" => request[k].live # "closed"

\* "retrying would duplicate it" (2539): text beside a tool call does not count,
\* and a retry hands it to the display once more.
DisplayedOnce ==
    [][\A k \in Request : request[k].aside /\ request'[k].worker = "top" => request[k].text]_reqVars

\* Text is shown once on Bedrock, too (2916).
BedrockTextNeverRepeated ==
    \A k \in Request :
        request[k].kind = "bedrock" /\ request[k].outcome = "raised" => request[k].shown = {}
=============================================================================
