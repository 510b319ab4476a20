# A formal model of SuFen

TLA+ modules that model the parts of SuFen whose correctness depends on order,
failure or concurrency, and the decisions those parts rest on; TLC
configurations that check them on small instances; and proofs, checked by
TLAPS, of what matters most for every size. Source paths are relative to
`src/`. `PROJECT.json` lists the runs, the source lines behind every definition,
the mutants, the hazards and the theorems.

## 1. The system and its parts

SuFen is an agent behind the My Stand backend. A backend worker posts a message
and a task package to `/v1/chat`; SuFen screens the package, holds a
conversation with an OpenAI-compatible provider, lets the model call tools that
only draft, and returns an answer. Underneath is an inherited runtime (`agent/`,
`tools/`, `model_tools.py`), a general tool-calling agent with a thread pool,
interrupts, compression of the context and fallbacks. `run_agent.py`,
`tools/interrupt.py`, `tools/daemon_pool.py`, `agent/reasoning_timeouts.py`,
`agent/models_dev.py`, `agent/bedrock_adapter.py` and the package `sufen_cli` are
not in the repository: they are modelled from how the code uses them, and marked
external. (Where their import is not guarded the code raises at this commit:
`agent/error_classifier.py` 826 on a lost connection, `agent/model_metadata.py`
2237 for any known provider, `agent/chat_completion_helpers.py` 2826 on a stream
that is not local. The modules describe what it does with them there.)

| Part | State it keeps | Operations | Talks to |
|---|---|---|---|
| Delegation gate, `sufen/task_package.py` | the used nonces, behind a lock | `ensure_safe_actions`, `clear_delegation_nonce_cache` | settings and environment (secret), clock |
| Provider loop, `sufen/provider.py` | one call's locals: prompt, messages, audit, turn | `answer_with_provider` and what it calls | gate, provider (HTTP), tools |
| Chat server, `sufen/server.py` | none of its own: one event loop, one process | `POST /v1/chat`, `GET /health` | backend workers, provider loop |
| Conversation loop, `agent/conversation_loop.py` | messages, retry counters, budget, pending remark | `run_conversation` | everything in `agent/` |
| Model request, `agent/chat_completion_helpers.py` | result of the worker, client holders, diagnostics | `interruptible_api_call`, `interruptible_streaming_api_call`, `try_activate_fallback` | provider, interrupt |
| Concurrent tools, `agent/tool_executor.py` | results, futures, registered threads, interrupt bits | `execute_tool_calls_concurrent` | pool, `AIAgent.interrupt`, transcript |
| Sequential tools, same file | the rest of the batch | `execute_tool_calls_sequential` | the same |
| Tool guardrails, `agent/tool_guardrails.py` | counts per signature of call, halt decision | `before_call`, `after_call`, `reset_for_turn` | both executors |
| Availability checks, `tools/registry.py` | verdicts with their times, last successes, a lock | `_check_fn_cached`, `invalidate_check_fn_cache` | probes of the world, clock |
| Tool registry and catalogue, `tools/registry.py`, `toolsets.py`, `model_tools.py` | entries, generation, memo of definitions | `register`, `deregister`, `get_tool_definitions` | availability checks |
| Context compression, `agent/context_compressor.py`, `agent/conversation_compression.py` | usage, threshold, cooldown, previous summary; a lock per session | `should_compress`, `compress`, `compress_context` | auxiliary client, session store |
| Auxiliary client, `agent/auxiliary_client.py` | cached clients, unhealthy marks | `call_llm`, `resolve_provider_client`, fallback chains | providers |
| Error classifier, `agent/error_classifier.py` | none | `classify_api_error` | conversation loop |
| Model metadata, `agent/model_metadata.py` | window of a model, on disk | `get_model_context_length` | catalogues, local servers |
| Memory manager, `agent/memory_manager.py` | providers, their tools, scrubber state | prefetch, sync, tool calls | memory providers |
| Sessions, memory, terminal, `sufen/session.py`, `sufen/memory.py`, `sufen/terminal_ui.py` | JSONL files, the history of a terminal | append, read | file system |
| Logging, files, secrets, `sufen_logging.py`, `utils.py`, `agent/secret_scope.py` | a queue, temporary files, context variables | emit, atomic write, scope | file system, threads |
| Prompts, rendering, adapters, tables | none to speak of | pure functions | |

What is hard in each, and what makes it right:

* **Gate.** Date, signature and scope are tested without the lock, only the nonce
  under it; secret, clock and table move meanwhile. Right is: a nonce is granted
  once, for what the backend signed; refusals spend nothing.
* **Provider loop.** Tool turns, one retry that starts the conversation over, and
  an answer of its own making share a budget; the guardrails read a prompt the
  retry replaced. Right is: a transcript the API accepts, a bounded number of
  requests, no demand for data that was supplied, an honest audit, an end.
* **Server.** The handler never awaits, so one request holds all others up;
  clients give up and repeat; a restart forgets the table. Right is: no second
  conversation for a nonce, no answer for somebody else, nobody starved.
* **Conversation loop.** Some fifteen repairs, each with a counter of its own,
  restart the attempts at one model call; a second set of counters decides in
  the turn around it. Right is: an end, a transcript the API accepts whichever
  way a turn is left, one way through the chain, no steer told twice or dropped.
* **Model request.** A worker is abandoned while it runs, its client is closed by
  another thread, and what it does afterwards must not reach the next turn.
  Right is: one owner per client of a request, no text shown twice, an end though
  the provider is silent.
* **Concurrent tools.** Workers, deadline, interrupt and exceptions race, and
  workers outlive their batch. Right is: each call answered once; what is
  reported as refused never ran; the interrupt reaches every tool; no finished
  work is denied; a hung tool does not hang the agent.
* **Guardrails.** Counts are asked before and told after a call, and a batch asks
  for all of its calls first. Right is: the counts are those of the turn, and a
  loop is cut within a round.
* **Availability checks and catalogue.** Probes run outside the lock and come
  back in any order; the memo is filled while the registry changes. Right is: a
  flake is forgiven, an outage is not hidden for long, a memoized catalogue is
  that of its generation.
* **Compression.** A transcript is cut in three, a summary is asked for while
  others hold the old session, the result replaces the transcript or the
  session. Right is: no tool result without its call, the user's latest ask is
  kept, one compactor per session, no failing summary asked for again at once.
* **Auxiliary client.** A failed request climbs a ladder of repairs, renews
  credentials others share, and hides providers. Right is: a bounded number of
  requests, no old client after a renewal.
* **Decisions.** Rules are ordered and read substrings; windows come from a dozen
  sources. Right is: the key and the history pay for their own failures only, a
  key is sent to its own host, a lookup says the same again, a threshold can be
  reached.

## 2. The modules

    OneTimeGrant        abstract: what the gate promises
       ^ refined by
    Delegation                                           DelegationProofs
       ^ composed (INSTANCE) in
    ChatServer          the service, around one
      extends
        ProviderLoop    conversation with a provider     ProviderLoopProofs (of both)

    TurnLoop            one turn; a step of it is a            TurnLoopProofs
      ModelCall         model call; an attempt of it is a      ModelCallProofs
        ModelRequest    request with its worker                TurnLoopProofs
      ToolBatch         concurrent tools                       ToolBatchProofs
      SequentialTools   sequential tools, extends              SequentialToolsProofs
        ToolGuardrails  the counts both executors ask

    CheckFnCache        availability of a tool
      ^ extended by
    ToolCatalogue       registry, toolsets, memo               ToolCatalogueProofs (of both)

    Compaction          what compress() makes of a transcript (operators)
      ^ extended by
    CompressContext     agents that compact one session        CompressContextProofs
    AuxCall             side tasks, one after the other        ModelCallProofs

    ErrorClassifier, AuxResolution, ContextWindow, CompactionTrigger
      ^ extended by     (operators)
    Decisions           asks each of them every question of a set
                                                           CompressContextProofs
    MC*                 the instances TLC checks

An action stands for everything the code does between two points at which
another actor can get in, or at which it can fail. Texts, names and payloads
are reduced to what the code tests them for.

**Delegation** (`sufen/task_package.py` 73-201). Each `Caller` is a thread in
`ensure_safe_actions`. `ScreenReject` and `ScreenPass` are all tests that precede
the lock, in one step: they read the caller's own package, the secret and the
time once. `ConsumeFresh` and `RejectReplay` are the critical section, `Return`
the return to the caller. `Restart` empties table and callers and reads the
settings anew, `EditEnv` changes the secret in the environment (only read when
the settings had none). A signature is the pair of secret and body: a keyed
digest exists only if the backend made it (`PackageAssumption`). The abstract
module **OneTimeGrant** knows only `spent` and `holder`.

**ProviderLoop** (`sufen/provider.py` 1198-1293 and what it calls). `turn`,
`messages`, `loopAudit`, `retried` are the variables of the loop; `posts` and
`executed` are history. A request is reduced to what the branches ask (is there
a file, of which kind, how well supported; intent and topics of the message, which
of them the backend supplies, and `again`, what the guardrails read off the retry
prompt instead), a final message to what the guardrails ask of it and how many
tool calls it claims for itself (`claims`, kept in the audit beside the real ones).
What the model sends is unconstrained, the provider may fail at every request, a tool
may answer, be rejected or (a call that is no object) crash. `Die` is the death of
the process at any point.

**ChatServer** (`sufen/server.py` 26-118, `sufen/chat.py`). The handler has no
`await`: one request at a time, `inbox` is what the event loop has not taken up.
The gate is `Delegation` with the server as only caller, the conversation is
`ProviderLoop`, which the module extends; their variables are in `gateVars` and
`vars`. Workers
(external) send, give up and send again, with the right key, a wrong one, one the
comparison raises on, or none.
`Outcome` maps how the conversation ended to what the handler makes of it.

**TurnLoop** (`agent/conversation_loop.py`, `run_conversation`). Each iteration
asks the model once and does what the response calls for: run tools, ask to go
on, nudge, or take the answer. `messages` is the transcript by kinds of message;
`count` and `used` are the iterations and the budget, which differ by refunds and
by the restarts that are not counted; `tries` holds the counters that bound the
repairs and `Cleared` says which of them a step resets. `Steer` is the user
talking to a running turn, `said` times so far: each steer is in the `slot` under
its lock, `drained` by the top of an iteration, then told to the model with a tool
result (`Inject`) or put back (`PutBack`), a step of its own with another lock, before
which the user may steer again; the executors append to their results, too
(`Appends`). `lost` are those in a result that takes no text or is cut.

**ModelCall** (`agent/conversation_loop.py` 1100-4250,
`chat_completion_helpers.py`, `try_activate_fallback`). The inner loop of attempts:
`Begin` to `Respond` is one attempt; `Handle` holds one action per branch, in
the code's order (`Rotate`, `Repair`, `ReduceTier`, `Eager`, the guard of the
portal, `Shrink`, `Plain`, `ClientError`, `RetriesExhausted`, `BackOff`); the
fallback chain is walked by `FallBack`, and may name a backend twice and the primary
with the others. `GuardUnread` and `LimitUnrecorded` are the swallowed errors of the
portal's rate guard. The failures are the reasons of
`error_classifier.py`; the provider produces any of them at any attempt. Whether
the error's classification is right is `ErrorClassifier`'s business.

**ModelRequest** (`agent/chat_completion_helpers.py`, `interruptible_api_call`,
`interruptible_streaming_api_call`). The agent's thread polls, kills what is stale
or interrupted, and leaves; the worker streams, retries, gives up and closes
its client. `request[k]` is what the two share for request `k`: what was shown to the
user, what was asked of the worker, and its `client`, which is its `own`, the
`shared` one of Anthropic's, which pollers and workers close under each other
(`SharedClosed`), or one no poller reaches. `armed` says that a clock runs for the
current request: none does for Bedrock and, with the default settings, for local
providers. Workers of earlier requests go on during the later ones.

**ToolBatch** (`agent/tool_executor.py` 316-971, `agent/conversation_loop.py`
5215-5255). `pc` is the agent's thread: submit, wait, polled, snapshot, signal,
grace, shutdown, join, report, recover. `phase` and `job` are the workers, from
claiming a call to clearing their bit; the steps of `_run_tool` that another
thread can see are separate actions (`Register`, `Notice`, the tool, `Leave`,
`Finish`), and so are those of the fan-out in `AIAgent.interrupt` (external: flag,
copy, one bit after the other). Results and futures are kept for each batch,
because the workers of an abandoned pool go on during the next one. Thread
identities are a fixed set, handed out again like the system does. An exception
may leave the batch while it is planned (`PlanRaises`), at a submit
(`SubmitRaises`) or before any message of the report or after the last
(`ReportRaises`); `Recover` is the handler in `run_conversation`.

**ToolGuardrails** and **SequentialTools** (`agent/tool_guardrails.py` 64-380,
`agent/tool_executor.py` 975-1648). The counters are those of
`ToolCallGuardrailController`; a verdict is `BeforeCall`, the count `AfterCall`. A
round is run in order, or concurrently: `Plan` asks for all calls before any is
counted, `Report` counts them. The user interrupts between any two calls
(`Cancel`, `CancelAfter`), `Kill` is a KeyboardInterrupt and `Raise` a tool without a
handler; `Repair` is what `run_conversation` appends then.

**CheckFnCache** (`tools/registry.py` 141-213). A caller reads the time (`Call`),
looks under the lock (`Hit`, `Miss`), probes without it (`Probe`), and stores under
it (`StoreSuccess`, `ForgiveFailure`, `StoreFailure`), dated with the time it read
first. `GoDown` and `ComeUp` are the world. Checks share only the lock, so one is
enough.

**ToolCatalogue** (`tools/registry.py` 216-576, `toolsets.py` 619-930,
`model_tools.py` 252-600). A thread that asks for toolsets reads the generation
for its key (`Ask`), resolves the names (`Resolve`), reads the entries (`Read`), has
each check answered by `CheckFnCache` (`BeginCheck`, `CheckStep`) and has its list
(`Finish`). With the memo full it picks the oldest key, deletes it, which fails if
another thread did (`Evict`), and keeps its own list (`Store`). `Register` and
`Deregister` come in between any two of these.

**Compaction** and **CompressContext** (`agent/context_compressor.py` 2068-3045,
`agent/conversation_compression.py` 75-151, 435-971). `Compaction` holds, as
operators, the boundaries of head, middle and tail, the anchors that move them,
the summary and the repair of tool pairs, over messages reduced to role, calls,
weight, and the asks they carry. `CompressContext` runs it: `Begin` takes the lock
of the session or does without, `Summarize` asks for the summary, which may fail
or come back from the main model instead, then `EndSession`, `CreateSession`,
`Archive` and `Boundary` are the rotation, each of which can fail and be rolled
back. `Lapse` is a lease that is not renewed, `Crash` and `Restart` the process;
`Fork` is the agent's copy for a background review, in the same session. A failed
summary leaves a cooldown in the object and a row in the store; `owed` (history)
holds who recorded which row, `AdoptCooldown` is the preflight that reads the row,
and `CoolOff` and `Expire` are the times running out: the recorder's own passes with
the row. `hasty` (history) records, at each unforced request for a summary, which
failures it ignored: its own, another agent's, or an earlier session's.

**AuxCall** (`agent/auxiliary_client.py` 2637-2685, 3040-3300, 5199-5523,
6200-7090). One call after the other climbs the ladder of repairs, in the code's
order: `First`, `Temperature` and `MaxTokens` (drop a parameter), `Heal` (take a model
the provider knows), `RefreshNous`, `RenewCredentials`, `Pool`, `RetrySame`, then
`Elsewhere` (the chains). `ResolveFallback` is a call without a client: the task's
chain, or for "auto" and the providers in `Unpinned` (OpenRouter, custom) the whole
detection, under the name that was asked for. `cache` maps a key to a client, `credential`
and `by` tell which token a client was built with, `unhealthy` are the marks;
`tries` counts requests.

**AuxResolution** (same file, 1900-4900), **ErrorClassifier**
(`agent/error_classifier.py`), **ContextWindow** (`agent/model_metadata.py` 476-570,
973-1057, 1429-2293) and **CompactionTrigger** (`agent/context_compressor.py` 832-1173,
`agent/conversation_compression.py` 154-347) are operators: an ordered list of
rules or sources, over the smallest input that tells the rules apart. **Decisions**
is the machine that asks them: its initial states are the questions and a step
answers one. Only the trigger is asked on and on, since its verdict depends on the
compactions and the model changes before it.

## 3. The runs

| Run | Instance | What it shows |
|---|---|---|
| `delegation` | 2 callers, 2 nonces, 2 secrets, 12 packages, clock 0..2 | a nonce is granted once between clearings, for what was issued; refusals spend nothing; the gate implements `OneTimeGrant` |
| `provider_loop` | 4 turns (the real limit), 2 calls per reply, 82 requests | well-formed conversation within its budget; no demand for held data, made-up answers store nothing, greetings the backend supplies stay short; the audit accounts for the tools; every call ends |
| `chat_server` | 2 workers, 3 POSTs, 1 restart, 2 packages with one nonce, 2 turns | one conversation per nonce, only behind the open gate, no answer for two; the composition keeps both parts' specifications; every POST is served |
| `check_fn_cache` | 2 threads, 2 toolsets, 1 mutation, memo of 1, time to live 1, grace 2, clock 0..2 | outages are honoured, no failure pinned within grace; a memoized catalogue is that of its generation; the memo outgrows its cap by less than there are threads; 11.8 million states |
| `tool_batch` | 2 calls, pool of 2, deadline, 1 interrupt, exceptions at every point | one truthful answer per call; the interrupt reaches every tool; the report stands; the batch ends though no tool has to return |
| `sequential_tools` | 3 signatures of 2 tools, rounds of 2, 3 calls per turn | the counts are those of the turn, loops are cut within a round, calls are answered in order |
| `model_call` | primary and 2 fallbacks, the primary again among them, 2 tries, 1 compression or none at all, 10 reasons, 1 interrupt; 3.1 million states | gives up only after the whole chain, unless the size of the request is to blame; hands over what can be sent; goes forwards in the chain once a fallback is in force; ends, if the portal's guard does its work |
| `model_request` | 2 requests of any kind through clients of one kind, 2 attempts each | no text twice, a request's own client closed by its owner only, cut only while interrupted; ends, if a clock runs for it and the provider does not send for ever |
| `turn_loop` | 3 iterations, each recovery once, 2 calls per message, 2 steers | the transcript stays answerable, the budget adds up, each steer is in one place; ends |
| `aux_call` | 2 providers, 2 calls, 1 renewal, 2 retries (the default); 8.2 million states | bounded requests, no rung costs a compression another time-out at a provider it named and got, no old client after a renewal |
| `compression` | an agent and a fork of it, 2 asks, 2 tool rounds of one weight, 3 compactions, 1 mishap; 3.6 million states | transcripts stay sendable, the latest ask is kept, one compactor per session, an agent respects the cooldown it recorded |
| `decisions` | some 1.9 million questions, each with its answer; reserves of which one is larger than a window | diagnosis, client, window and trigger are right for each |

Several invariants are conjunctions of named parts (`GrantsSound`, `AnswersTruthful`,
`HandsOverSoundly`, ...): the type invariant and what belongs together with it.
Every property has a mutant: a definition of the component with one plausible
mistake in it (used by no specification), under which the same run finds the
property violated.

**Bounds, and why they are enough.** Two callers are what it takes to race for a
lock, and no action looks at more than one other caller. The packages contain a
good one and one for each test that can fail. Three POSTs are a first try, a
second worker and a retry after a restart. A time to live of 1 with a grace of 2
separates the two, and clock 2 lets a verdict expire, a success be forgiven and
the grace run out; a memo of one entry is full after the first. Two calls on two
workers run side by side or one behind the other, and one of them may be queued
when the batch is abandoned. `chat_server` uses 2 turns and 1 call, because the
limit of 4 is checked in `provider_loop`. Two fallbacks let one be skipped and the
other taken; every counter of the model call and of the turn is at least once
spent, at its limit, and reset. Two requests are one that is left behind and one
that must not notice. An agent, its fork and three compactions are one that wins,
one that waits, and one after a rotation; a weight of 4 fills the tail's budget with
one message, so that every anchor moves the boundary; one mishap is one of store
failure, lapse, crash and restart. The thresholds of the guardrails are 2, so that a first count
does not block. The questions of `decisions` pair every two phrases with every
status and every code, and every provider with every form of endpoint.
`MaxClock`, `MaxPosts`, `MaxRestarts`, `MaxBatches`, `MaxInterrupts`, `MaxRequests`,
`MaxCalls`, `MaxCompactions`, `MaxMishaps` and their like bound what is unbounded in
reality; the specifications may stop there, so deadlock is not checked where the
environment runs out of moves. Symmetry is used for the agents in `compression`
and the threads in `check_fn_cache`, which check no liveness. What does not depend on the bounds is proved for
the parts of section 4.

**Fairness.** ProviderLoop: the code runs on and each request ends (the HTTP
client has a time-out of 60 s). ChatServer: the event loop goes on while there is
work; nothing is assumed of workers. ToolBatch: the agent's thread, the clock, the workers
outside of their tools and a fan-out that was begun; **no tool has to return**. A
submit that raises leaves the pool to be joined, tools and all: `BatchEnds` excepts
it (section 5), and a batch without a deadline ends only if its tools do.
ModelCall and TurnLoop: the loop runs on (each request ends, as ModelRequest
shows of those with a clock). ModelRequest: the agent's thread and the workers run
on outside of the provider; a request that is polled again and again while a clock
runs for it is found stale in the end (`SF` on the stale checks, whose clocks the
model does not have), a plain one in any case, since its clock only counts up, a
stream only once its connection has fallen silent; a connection that was shut down
fails. **No provider has to answer.** Three kinds of request are excepted, because
nothing in the code ends them: those no clock runs for (Bedrock's streams, local
providers), streams through the shared client, which is closed under the worker,
and those the provider sends on for ever.

## 4. What is proved

The proofs hold for every value of the constants under the assumptions named in
the modules: `PackageAssumption` and `SentinelAssumption` (Delegation),
`LoopAssumption` (ProviderLoop), `TimesAssumption` (CheckFnCache),
`CatalogueAssumption` (ToolCatalogue), `SizesAssumption` and `SentinelAssumption`
(ToolBatch), `GuardrailAssumption` and `RoundAssumption` (the guardrails and their
rounds), `LimitsAssumption` (TurnLoop), `BoundsAssumption` and `BackendsAssumption`
(ModelCall), `ServerAssumption` (ChatServer), `BoundsAssumption` (ModelRequest),
`ChainAssumption` (AuxCall), `CompactionAssumption` and `ContextAssumption`
(compression), `TriggerAssumption`, `ClientAssumption` and `WindowAssumption`
(Decisions). They say that sizes are numbers
(positive ones where the code needs one), that threads are finitely many, that
sentinels are none of the values, that a chain names backends (any of them, as often
as it likes), that signed bodies come from the backend, and, of
the trigger, that a summarizer is no smaller than the code accepts and a window
leaves room for a threshold. Of clients, they say that a recorded key is the one of
the endpoint recorded with it, that callers and tasks do not bring the main model's
key, that Anthropic's native URL is Anthropic's, and that nobody is recorded under
the name "main".
Each module proves an inductive invariant and reads the theorems off it.

`ChatServer`, `ModelRequest`, `AuxCall` and `Decisions` are proved at
the end of the proofs of another component, over variables of their own; to make
that possible their specifications have names of their own (`SSpec`, `ReqSpec`,
`AuxSpec`, `DSpec`, ...). `ServerAssumption` contains what `Delegation` assumes, because
the assumptions of an instance are not passed on.

* **DelegationProofs.** `GrantsAreSound` (with its parts `GrantedOnce`, `Authentic`),
  `RejectionSpendsNothing`, `Refinement`. The table is exactly the set of nonces
  granted once (`TableMatchesGrants`), and what a caller holds past the screening
  was vetted on its own copy (`CallsVetted`): `NonceGrantedOnce` alone is not
  inductive, for nothing in it ties the table to the counts. The refinement maps
  `spent` to the table and `holder` to the callers that were accepted with a nonce.
* **ProviderLoopProofs.** `ConversationIsSound` (`Bounded`, `WellFormed`) and
  `AnswersAreSound` (`NeverAsksForHeldData`, `StoresNothing`, `SuppliedGreeting`).
  The last is about greetings that the backend supplies as an intent or a raw
  message, which the guardrails read after the retry as before; of others nothing
  holds (section 5). `Pace` ties the loop counter to the requests sent; `Conversation` says, in the
  middle of a reply, which of its calls are answered already: well-formedness
  holds at requests only and needs the unfinished state in between. `Contents`
  says what an answer may contain by the way it came about. `AuditIsComplete` is a
  second induction: the audit of the loop holds as many entries of a tool as it
  was executed, also while a reply is half answered, and an answer's own entries
  only add to them. How often a tool occurs is a
  cardinality, so lemmas say what appending and concatenating do to it.
  Of the server, `ServerServesGrantedOnce` and `ServerKeepsParts`: `Abreast` ties the
  handler's stage to the place of the caller at the gate and of the conversation,
  `Spent` and `Passed` a conversation to the nonce it was let through with, and
  `Answered` and `Apart` say that, until a restart, whoever holds an answer had a
  nonce of his own. With `ServerKeepsParts` all that is proved of the gate and of
  the loop holds of the server.
* **ToolCatalogueProofs.** `OutageIsHonoured`, `FlakesAreForgiven`: whatever could
  still make a caller say "available" (a verdict, a last success, a probe that has
  not been stored) is dated no later than the beginning of the outage. These are
  about CheckFnCache alone. `CatalogueUsesTheChecks` shows that every step of the
  catalogue is a step of CheckFnCache or invisible to it, and
  `ChecksHoldInTheCatalogue` carries the two over. `MemoIsOfItsGeneration`: what a
  thread has resolved, read or is about to store tells of the registry as it is,
  or its key is of a generation that is past (`JobOfItsGeneration`, `MemoTells`); a
  mutation makes every key one of the past (`KeysAreOfThePast`). `MemoStaysBounded`:
  the test for room says nothing once another thread stores, so the invariant
  (`RoomKept`) counts the threads that have passed it together with the entries.
* **ToolBatchProofs.** `AnswersAreTruthful` (`AnsweredOnce`, `NeverRan`),
  `InterruptArrives`, `ReportStands` (`NoLateClaim`, `ReportsFinishedWork`).
  `AnswersInv`: messages answer 1, 2, ... and the loops have come as far as they
  have (with that, `Recover` appends exactly what is missing). `SlotsTrue`: a slot
  that says "refused" belongs to a call no worker was given. `Reached`: a worker
  in a tool has its bit, or the fan-out still has it on its list, or has not
  copied the list yet; a worker that registers too late for the copy sees the
  flag. `Drained`: a reported batch has an empty queue or no worker.
* **SequentialToolsProofs.** `GuardrailIsSound`, `EachCallIsAnsweredInOrder`. `Position`
  and `Sheet` say where the loop is and that exactly the calls before it are
  answered. The cut within a round is not inductive: at a call's own check its
  counts are below the limits, and in a concurrent round, which asks for all calls
  first, they have risen by at most the calls reported since (`CallsCut`, `ToolsCut`).
* **TurnLoopProofs.** `TranscriptIsWellFormed`, `SteersArePlaced`. `Transcript`: the
  list opens with the user, and every call is followed by all its results, except
  for the last message while its tools run (`Whole`, `Opened`). Appending a
  completed group, dropping scaffolding and rolling back to a cut-off text keep
  that, by lemmas on lists; the rollback stops short of the user's message because
  what was cut off is in the list (`PartsAreTexts`). `WithinLimits`: a recovery is
  past its limit only once the turn is over. The steers are an induction of their own
  (`SteerInv`): what was said is split between the slot, the loop's hand, the model
  and what was cut, and the hand is empty except between a drain and what follows.
  Of ModelRequest, `RequestIsSound` and `CutOnlyUnderInterrupt`: `RequestInv` says of every
  request, also of those left behind, that what is shown is text of the attempt
  that is out and that its own client lives as long as its worker (`Untorn`; of the
  shared one that is not claimed), and of the
  one that is polled that a response cut short means an interrupt that stands.
* **ModelCallProofs.** `CallHandsOverSoundly`, `FailoverGoesForwards`, for any chain,
  the primary and repetitions included. The invariant is one
  part per group of variables; what it adds to the property is that an attempt is
  left whenever a request is out (`LoopOK`), that without the flag of an active
  fallback the primary is in use (`ChainOK`), and that nothing is handed over
  before the block is left (`OutOK`).
  Of AuxCall, `LadderIsBounded` and `ClientsAreFresh`: `Counted` is a potential (each
  place on the ladder with the requests it may have cost), `NotWaitedTwice` the same
  for the time-outs, by provider, as long as the provider that was named serves the
  call; `Evicted` says that where it is asked anew nothing is left in the cache under
  its name, which may be some other provider's client.
* **CompressContextProofs.** `ContextTypeCorrect`, `OneCompactor`,
  `SoundStoreSerializesCompactions`, `CooldownIsRespected` and
  `TranscriptsStaySendable`. Whoever compacts without a mishap stands in the lock's
  row of the session it started from, which a rotation leaves only at its end
  (`RowsAreHeld`, `LocksAreOfOrigins`). `RowsTell` makes the rows of the store those of
  the failures that have not passed, and `RecordersCool` has whoever recorded one
  cool down: a restart, which loses the object, and a binding to the session keep
  that because they read the row. `TranscriptsStaySendable` has its own induction
  (`Transcripts`) over all that happens to a list: pruning and the repair of pairs,
  the cut in three, the summary merged or put in between, the added user turn.
  Calls precede their results in a list in which they are paired (`Ordered`, `Paired`); a part cut out of
  it is ordered but no longer paired, and the repair restores that. That the
  boundaries are positions at all needs that a bounded set of numbers has a least
  and a greatest, which the library's well-foundedness of the numbers gives.
  `TriggerIsSound` is about any sequence of usages, models, resets and compactions:
  the threshold is one of the window in force or was set by the summarizer
  (`Checked`, where `Fits` speaks of all windows that may come by correction: a
  threshold grows with its window as long as the reserve is subtracted), it lies
  within the window (`InRange`), and after a compaction the meter is parked until
  usage is reported (`Once`).

  `DiagnosisIsSound`, `WindowIsFit` and `ClientIsFit` are about one answer each, and
  their invariants only say whose it is; the work is in the operators, for every
  input. A diagnosis is the first rule that speaks, of the first list that does
  (`FirstSpeaks`, `SpeaksBy`, `FirstAt`): every rule is `Honest` by itself (it rotates
  the key only for what the error blames on it and never for a server's own failure,
  compresses only for a size that something names or a long session bears out), and a
  long and a short session differ in one rule of a 400 and one of a lost connection. A
  window is that of the first rung that knows (`Climb`); a rung knows the same
  whatever is on disk (`SameClimb`) and writes down only what it was told
  (`Answers`), so the second lookup climbs to the same rung or trusts the entry. A
  provider called Bedrock at a local URL is excepted there: its table is asked
  before the server the first time, and not when the entry is trusted. Of a client,
  every branch that makes one turns a key that may go to a host (`For`, `Fitting`) into
  a client that is `Sound`, where `Astray` are the hosts the two records of the main
  model may send its key to by themselves (`Strays`): when they hold an endpoint
  without its key or a key without its endpoint, and the home of a provider whose
  client is made for it. No endpoint of a task's and no aggregator is among them.

  `LatestAskIsKept` is an action property, proved for every size of the head but one.
  It needs to know which message is where, not only that the boundaries are positions.
  Its invariant is `Settled`: a result stands right behind its call, so that a boundary
  moved forward passes one message at most (`ForwardByOne`), and a summary stands right
  behind a message of the user's own only where a head of two or more ended. Where the
  token budget puts the cut does not matter: whatever it is, the user's anchor takes it
  behind neither the message nor, if that is the first one behind the head, the pair it
  opens (`UserCutKeepsAsk`), and the assistant's anchor only moves back
  (`AssistantCutNotForward`). Then the message stays, or the middle that is summarized
  starts with it: no earlier summary is in it to start behind (`AskIsSummarized`). That
  a compaction leaves a settled transcript (`SettledAfter`) follows the place of each message
  through the assembly (`Placed`, `Joined`) and the repair (`SanitizeParts`), which
  counts the positions that are left (`PlacesCount`). Two things are excepted because
  they break the property (section 5): a head of exactly one message, and a message a
  summary was merged into, once it stands in the middle.

No safety invariant and no action property of a run is left unproved. Model-checked
only is liveness (`AlwaysEnds`, `EveryPostServed`, `BatchEnds`, `TurnEnds`, `CallEnds` of
the model call and of the request), which is beyond the prover.

## 5. Where the code and its documents disagree

Each of these is a definition, placed after the properties of its module with
the words it was taken from, and is checked by no run of the project: added to
the module's run as an `INVARIANT` or a `PROPERTY`, TLC refutes it. The exception is
`LatestAskKept`, which the run of CompressContext checks with a head of two and TLC
refutes with a head of one.

| Module | Definition | What the document says, and what the code does |
|---|---|---|
| ProviderLoop | `GreetingStaysShort` | The system policy (`sufen/policy/system.md` 23) wants greetings answered without a word of the file; after the retry the guardrail classifies the retry prompt, in which its own label stands before a fact card full of business words (`sufen/provider.py` 77, 680-690), and the facts stay. What holds is `SuppliedGreetingStaysShort`: a greeting that the backend supplies as an intent or a raw message. |
| ProviderLoop | `DraftsStayDraftOnly` | `TEST_REPORT.md` 128: drafts remain draft-only; the normalisers keep a `draftOnly: false` of the model. |
| CheckFnCache | `LastGoodIsMostRecent` | `_check_fn_last_good` is called the most recent success (`tools/registry.py` 148); a slow probe can move it back. |
| ToolBatch | `CleanSlate` | A worker clears its bit so that the next task starts clean (`agent/tool_executor.py` 618-620); bits set from a copy at the deadline may come after that. Needs `NumCalls = 1`, `MaxBatches = 2`, `MaxInterrupts = 0`. |
| ToolBatch | `JoinsOnlyCompleted` | An abandoned batch is not joined (787-791); when a submit fails for lack of a thread it is joined although its tools may hang. |
| ModelCall | `BackstopNeverRefilled` | `compression_attempts` is called a hard backstop of the turn (`agent/conversation_loop.py` 992-993); it is set back to 0 with every fallback (1467, 1540, 1696, 1872, ...). |
| ModelCall | `GuardAlwaysDecides` | "Re-enter the loop exactly once so the top-of-loop Nous guard handles fallback or bails cleanly" (3281-3286); an error while the limit is recorded, or in the guard, is swallowed (1141-1144, 3278-3279), and with each refusal the counter is set back again. |
| ModelCall | `NeverBackToAFailedBackend` | "falling back to the same backend that just failed loops the failure" (`agent/chat_completion_helpers.py` 1244-1247); an entry is only compared with the backend in use, so that a chain with the primary behind another entry returns to it. |
| ModelCall | `StrippedRequestIsSent` | "removed retained vision payloads and retrying" (3382-3386); on the last try the loop ends instead, without a response. |
| TurnLoop | `SteerNeverCut` | "Runs AFTER budget enforcement so the steer marker is never truncated" (`agent/tool_executor.py` 966-969); most steers were appended to a result before it (958, 1608), and the loop counts one as injected whose result took no text (`agent/conversation_loop.py` 717-725). |
| TurnLoop | `ScaffoldingNotDurable` | Nudges "should not become durable transcript context" (5094-5098); only what stands at the end is removed; what was followed by tool calls stays. |
| TurnLoop | `RemarkIsFromLastRound` | The remark used as the answer is to be that of the last, housekeeping round (4810-4818); one of an earlier round is kept (4594-4608). |
| ModelRequest | `BedrockTextNeverRepeated` | An error after text was shown is kept from the outer retry (2916); the Bedrock stream raises it. |
| ModelRequest | `SharedClosedByItsOwner` | "let the worker close `client` from its own thread" (230-231); the Anthropic client, which all requests share, is closed by the poller, and by other workers' retries, while a worker reads from it (566, 605, 2697, 2880, 2909). |
| ModelRequest | `DisplayedOnce` | "retrying would duplicate it" (2539); text that comes beside a tool call goes to the display (2180-2185) without counting as delivered, and a retry brings it again. |
| ModelRequest | `CancelledIsNotRetried` | A cancelled worker exits without retry (2519-2523); at the top of an attempt it does not look. |
| AuxCall | `CompressionWaitsOnce` | A compression does not wait for the same provider a second time: "Skip the same-provider retry for compression on a full-budget timeout" (`agent/auxiliary_client.py` 6231-6233). Only the first failure is tested for that; when it is a fast one, each retry may time out, and the next is made all the same (6243-6259). Needs two retries, the default. |
| AuxCall | `WaitsForNoneTwice` | "No point retrying the same backend that just failed" (3479-3480) is decided by the name that was asked for; for OpenRouter and custom, "auto" may have found another provider under that name (6149-6157), which is then waited for twice. |
| AuxCall | `StoredUnderItsName` | The Nous refresh is to "replace the cache entry" (5256); it stores the new client under the name that was asked for, though "auto" had found it, and the next call takes it for a client of that provider. |
| AuxCall | `RetriedWithFreshCredentials` | After a recovery the request is made with the new credentials (3067); only entries under the provider's name are evicted, and the retry finds the old client under "auto". |
| AuxCall | `RefreshReplacesEntry` | The Nous refresh replaces the cache entry (5256); it stores under another model's key. |
| AuxCall | `DeadClientDropped` | A dead client is dropped whether or not a fallback was found (6598-6602); a fallback that answers returns before that line. |
| AuxCall | `UnhealthyIsSkipped` | A hidden provider is skipped by later calls (6542-6545); a cached "auto" client is not asked whose it is (5463-5483). |
| CompressContext | `CooldownShared` | Cooldowns "round-trip" through the session's row, and no compaction is triggered while the summarizer cools down (`agent/context_compressor.py` 735, 1146); only the preflight reads the row, and an agent that compacts for another reason asks for a summary that has just failed elsewhere. |
| CompressContext | `CooldownOutlivesRotation` | No summary is asked for while the summarizer cools down (`agent/context_compressor.py` 1147-1152); a makeshift summary rotates the session, and the child starts without the cooldown (738-740). |
| CompressContext | `EarlyTurnsCaptured` | Early turns are in the summary once the head is not protected (2264-2266); those that stood in the head of the first compaction are dropped by the second without having been summarized (2779). |
| CompressContext | `LatestAskKept` | The clamp behind the head is the only case in which the user's latest message is not in the tail, and then its pair is summarized (`agent/context_compressor.py` 2464-2473). Needs `ProtectFirst = 1`: the first summary lands right behind the user's message, the next compaction takes it for the reply (2520-2545), and what is summarized starts behind it (2779). The message is in neither. |
| CompressContext | `TaskStays` | The latest user message stays in the tail or is summarized (2452-2464), with the exception of a head of one; a message a summary was merged into reads as a handoff (2084-2098), so that a second compaction in the same turn lets it into the middle, where only the summary is kept (2776-2779). |
| CompressContext | `OneChild` | One rotation, one child (`agent/conversation_compression.py` 495-507); an agent that still has the old id splits it again. |
| Decisions | `RateLimitsAreTransient` | `error_classifier.py` 126 calls rate limits transient; "rate limit exceeded" holds the usage pattern "limit exceeded", which is asked first (1339-1354). |
| Decisions | `BareErrorsAreBare` | A bare 400 in a long session is taken for an overflow (1213-1214); shortness is all that is tested (1223-1236), and a 400 "invalid api key" is as short. |
| Decisions | `BusyServersSpareTheKey` | An overloaded server never costs a key (136-141, 1356-1360); the usage limits are asked before that, and a 400 is not searched for it. |
| Decisions | `ExplicitEndpointHonoured` | An explicit `base_url` is honoured (`agent/auxiliary_client.py` 4594-4598); the wrapping for Anthropic's protocol takes the provider's own URL again (4663). |
| Decisions | `MainKeyNeverAbroad` | The main model's key is lent to its own host only (2066-2083). A main model that is recorded as OpenRouter's, Anthropic's, Kimi's or MiniMax's but reached through another host has its key sent to the provider's home, of which the client is made (2495-2507 keeps the URL, not the key, from going astray); and with a recorded endpoint but no key as a string (2119), config.yaml's key counts as that endpoint's. `ClientFits` claims that these are the only ways (`Strays`). |
| Decisions | `ProtocolToldByEndpoint` | A client lands on the right wire format "regardless of which branch built" it (1370-1373); a registered provider's is told by the registry's URL, also when the request brings another (4663). |
| Decisions | `ModelsAtTheirProviders` | A model the provider does not know is dropped (4221-4224); only a name with a slash is, and the main model's name is kept at the provider the chain fell back to. |
| Decisions | `LookupsSettle` | A live probe replaces the cached window (`agent/model_metadata.py` 539); with an Ollama server run below the minimum the lookups alternate. |
| Decisions | `ReachableServerBelieved` | A reachable server's window is preferred to a stale entry (541-542); the local prober reads three fields (1634, 1646), and a window in another, a nested one or in llama.cpp's properties leaves the entry as it is. |
| Decisions | `SubMinimumNeverCached` | Windows below the minimum are not cached (526-527); the local probe does (2087-2091). |
| Decisions | `SummarizerNeverOutgrown` | The threshold follows the summarizer (`agent/conversation_compression.py` 280-282); a later model switch recomputes it without. |
| ToolCatalogue | `EvictionNeverFails` | Two threads that evict at once delete the same key; the second raises (`model_tools.py` 355-356). |
| ToolCatalogue | `HardCap` | "Hard cap on memoized results" (265); tested and filled without a lock, the memo may end up with an entry more for each other thread. |
| ToolCatalogue | `OutageReachesCatalogue` | The inner cache is said to handle drift (260-262); a memo hit does not ask it. Needs `MaxClock = 4`. |

Further observations that no property states:

* Provider loop: an answer made of the facts after a rejected tool lists the tool
  audit twice and names a retry that did not happen; the answer to tool calls
  that are no list drops the audit; a tool call without id is answered under
  `call_<index>`, which the assistant message does not have; leak terms exist for
  the archive and not for the broker file; a nonce is spent although the provider
  then fails; the table of nonces is per process and never pruned.
* Model call: a request that is too large is given up without asking the chain of
  fallbacks (`agent/conversation_loop.py` 3062, 3340, 3396, 3451, 3495, 3563, 3608), one of
  which might have a larger window. A steer said between the drain and the put-back
  comes before the older one (739).
* Executors: a worker that registers after the copy at the deadline is missed
  (`agent/tool_executor.py` 745); what was reported as timed out keeps running and
  has its side effects (813).
* Compression: a reserve for the answer no smaller than the window is not subtracted
  from it (`agent/context_compressor.py` 939-941), so that a correction of the window
  downwards can raise the threshold, over the summarizer's window too (`SummaryFits`
  excepts this); with a provider that reports no usage, `awaiting` is never cleared
  (1112-1114); the baseline of a deferral only grows (1133); a compaction that
  changes nothing still rotates the session (`conversation_compression.py` 644);
  a failed archive still announces the boundary (862); the push of the causal
  anchor can be undone by the assistant anchor (2502-2517), and the clamp at the
  head can split a group of tool calls, which the repair then drops (2567); a
  summary merged into the user's message hides it (2068-2095).
* Classifier: 500 and 502 with `invalid_request_error` are not compressed
  (1009-1018); a rate limit known by its code only gets no fallback (1254-1259);
  "token limit exceeded" without a status is taken for billing (1339-1354).
* Auxiliary client: a parameter that was refused is sent again by the next step
  of the ladder (3283-3293); a label as resolved provider defeats the skipping of
  itself (6142); two threads may build a client each (5513-5522); a client of
  another event loop is closed by force (5479).
* Catalogue: the memo is first in, first out, and called LRU. Metadata: the probe
  step at 2274-2279 is never reached with an answer.

## 6. What the modules leave out

* Fake mode and `/health` in the server; the wording of prompts and the
  naturalisation of phrases; package signatures that are not ASCII, on which
  `compare_digest` raises (a 500, as for the key in the header);
  `consume_nonce=False` beyond the gate (nothing in the repository passes it).
* Sharing of check results between tools (`check_fn` is the key); disabled
  toolsets, plugins' permission to replace a tool, schemas that depend on other
  tools, `tool_search`, the coercion of arguments.
* `KeyboardInterrupt` in the agent's own thread during a concurrent batch; two
  interrupts at the same moment; the contents, persistence and budget of
  results, hooks and checkpoints in the executors.
* The text of messages, hooks, memory and session records in the conversation
  loop; the codex and Gemini request paths; the credential pool's own state.
* Images, duplicate results, long arguments and the text of summaries in
  compression; a failing write of the cooldown; crashes outside of the pending
  summary request, which is where nearly all of the time is spent.
* Vision, the adapters' conversions, OAuth flows, the 60 s marks of single
  providers and the number of cached clients in the auxiliary client; the tables
  and in-process caches of the model metadata.
* Not modelled at all: the components with that status in `PROJECT.json`. Most are
  pure functions over text (prompts, display, adapters, tables, build filters)
  with no state a property could relate; those with state are in the plan.

## 7. Plan

Done: the modules of section 2 and the proofs of section 4. Next, in this order:

1. **MemoryManager** (`agent/memory_manager.py` 171-333, 353-1086): fan-out and the
   scrubber that reads a stream chunk by chunk.
2. **AtomicWrite** (`utils.py` 91-208), **LogQueue** (`sufen_logging.py` 572-789),
   **Sessions**: crash points, queues and appends without a lock.
3. **SecretScope** and **ToolResultStorage**: context variables across threads, the
   budget of a turn.
