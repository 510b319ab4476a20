----------------------------- MODULE Decisions -----------------------------
(***************************************************************************)
(* The decisions the agent's loops rest on, each asked of every question   *)
(* of a bounded set: why a request failed (ErrorClassifier), which client  *)
(* a side task gets (AuxResolution), how large a model's window is         *)
(* (ContextWindow), and when to compact (CompactionTrigger), the one that  *)
(* is asked on and on.                                                     *)
(***************************************************************************)
EXTENDS ErrorClassifier, AuxResolution, ContextWindow, CompactionTrigger

CONSTANTS
    Errors, Sessions,                            \* bound: what fails, and in which session
    Arguments, Tasks, Runtimes, Surroundings,    \* bound: which client is asked for, and where
    Models, Sources,                             \* bound: whose window is asked for, and who knows
    Shares, Reserves,                            \* bound: the trigger's settings
    Windows, Summarizers, Sizes                  \* bound: the models' windows, and of conversations

\* Sizes are numbers of tokens, a summarizer below the minimum is refused
\* (agent/conversation_compression.py 250-266), and a window leaves something
\* below which a threshold can be.
ASSUME TriggerAssumption ==
    /\ Shares \subseteq [num : Nat, den : Nat \ {0}]
    /\ {Reserves, Windows, Sizes} \subseteq SUBSET Nat
    /\ Summarizers \subseteq Nat \ (0 .. Floor64 - 1)
    /\ \A window \in Windows, reserved \in Reserves : Usable(window, reserved) > 1

\* What a caller or a task brings is not the main model's key; a key that is
\* recorded with an endpoint is the endpoint's; and nobody is recorded as "main".
IsPlace(at) == at = [host |-> at.host, form |-> at.form]
OfItsHost(m) == m.key.from = "main" /\ m.at # Nowhere => m.key.for = m.at.host
ASSUME ClientAssumption ==
    /\ \A a \in Arguments :
          a = [provider |-> a.provider, model |-> a.model, at |-> a.at, key |-> a.key]
    /\ \A t \in Tasks :
          t = [provider |-> t.provider, at |-> t.at, key |-> t.key, mode |-> t.mode]
    /\ \A a \in Arguments \cup Tasks : IsPlace(a.at) /\ a.key.from # "main"
    /\ \A main \in Runtimes : IsPlace(main.at) /\ OfItsHost(main) /\ main.provider # "main"
    /\ \A w \in Surroundings :
          /\ \A m \in {w.run, w.cfg, w.custom, w.house} : IsPlace(m.at) /\ OfItsHost(m)
          /\ "main" \notin {w.run.provider, w.cfg.provider, w.aggregator}
          /\ w.cfg.at.form = "native" => w.cfg.at.host = "anthropic"

\* The sources of a window, each with the one entry that is on disk.
ASSUME WindowAssumption ==
    \A w \in Sources :
        w = [disk |-> w.disk, server |-> w.server, catalog |-> w.catalog, router |-> w.router, codex |-> w.codex,
             bedrock |-> w.bedrock, table |-> w.table]

VARIABLES
    question,
    answer    \* empty until the question is answered
dVars == <<question, answer>>

About(topic, input) == [topic |-> topic, input |-> input]

DInit ==
    /\ answer = <<>>
    /\ \/ \E e \in Errors, session \in Sessions :
             question = About("error", [error |-> e, session |-> session])
       \/ \E args \in Arguments, task \in Tasks, main \in Runtimes, w \in Surroundings :
             question = About("client", [args |-> args, task |-> task, main |-> main, w |-> w])
       \/ \E a \in Models, w \in Sources : question = About("window", [a |-> a, w |-> w])
       \/ \E window \in Windows, share \in Shares, reserved \in Reserves :
             question = About("trigger", NewMeter(window, share, reserved))

Asked(topic) == answer = <<>> /\ question.topic = topic

Diagnose ==
    /\ Asked("error")
    /\ answer' = <<Classify(question.input.error, question.input.session)>>
    /\ UNCHANGED question

ChooseClient ==
    /\ Asked("client")
    /\ LET q == question.input IN answer' = <<TaskClient(q.args, q.task, q.main, q.w)>>
    /\ UNCHANGED question

Measure ==
    /\ Asked("window")
    /\ answer' = <<Lookup(question.input.a, question.input.w)>>
    /\ UNCHANGED question

\* The trigger's answer is the meter it is left with.
Watch ==
    /\ question.topic = "trigger"
    /\ LET m == IF answer = <<>> THEN question.input ELSE answer[1]
       IN  \E next \in Moves(m, Windows, Summarizers, Sizes) : answer' = <<next>>
    /\ UNCHANGED question

DNext == Diagnose \/ ChooseClient \/ Measure \/ Watch
DSpec == DInit /\ [][DNext]_dVars

Answered(topic) == answer # <<>> /\ question.topic = topic

-----------------------------------------------------------------------------
\* An error is blamed on what caused it: the session's length only breaks
\* ties, a key pays only for its own failures, and the conversation only for
\* those of its size (agent/error_classifier.py 515-850).
DiagnosisSound ==
    Answered("error") =>
        LET q == question.input
        IN  /\ SizeOnlyBreaksTies(q.error, q.session.thinks)
            /\ KeyIsSpared(q.error, answer[1])
            /\ HistoryIsSpared(q.error, q.session, answer[1])

\* A side task gets a client that can work: the main key is kept from hosts that
\* are not the main model's, the endpoint is spoken to in its protocol, and
\* nothing hidden is chosen automatically (agent/auxiliary_client.py 4087-4803).
ClientFits ==
    Answered("client") =>
        LET q == question.input
            r == TaskProvider(q.args, q.task)
            auto == Normalize(r.provider, q.w) = "auto"
        IN  /\ MainKeyKept(answer[1], auto, q.main, q.w)
            /\ SpeaksItsProtocol(answer[1], r.mode, q.w)
            /\ auto => ChoosesTheVisible(answer[1], q.w)

\* A window is the server's own word where it can be had, and what is kept of
\* it stays true (agent/model_metadata.py 533-567, 1976-2293).
WindowFits ==
    Answered("window") =>
        LET a == Acting(question.input.a)
            w == question.input.w
        IN  /\ LiveOverDisk(a, w, answer[1])
            /\ RemembersTheSaid(a, w, answer[1])
            /\ SaysItAgain(a, w, answer[1])

\* The conversation is compacted before the window is full, into what the
\* summarizing model can read, and once (agent/context_compressor.py 832-1173,
\* agent/conversation_compression.py 154-347 and 940-948).
TriggerSound ==
    Answered("trigger") =>
        ThresholdReachable(answer[1]) /\ SummaryFits(answer[1]) /\ OneCompactionAtATime(answer[1])

\* Disagreements with the comments quoted in the modules.
BareErrorsAreBare == Answered("error") => BareMeansBare(question.input.error, question.input.session.thinks)
BusyServersSpareTheKey == Answered("error") => OverloadSparesTheKey(question.input.error, answer[1])
RateLimitsAreTransient == Answered("error") => RateLimitIsTransient(question.input.error, answer[1])
MainKeyNeverAbroad == Answered("client") => MainKeyStaysHome(answer[1])
ProtocolToldByEndpoint ==
    Answered("client") =>
        ToldByTheEndpoint(answer[1], TaskProvider(question.input.args, question.input.task).mode, question.input.w)
ExplicitEndpointHonoured ==
    Answered("client") => EndpointHonoured(answer[1], question.input.args.at)
ModelsAtTheirProviders ==
    Answered("client") /\ Normalize(TaskProvider(question.input.args, question.input.task).provider, question.input.w) = "auto"
        => ModelOfItsProvider(answer[1], question.input.w)
LookupsSettle == Answered("window") => AlwaysSaysItAgain(Acting(question.input.a), question.input.w, answer[1])
ReachableServerBelieved ==
    Answered("window") => ReportedOverDisk(Acting(question.input.a), question.input.w, answer[1])
SubMinimumNeverCached ==
    Answered("window") => SmallStaysOffDisk(Acting(question.input.a), question.input.w, answer[1])
SummarizerNeverOutgrown == Answered("trigger") => SummaryAlwaysFits(answer[1])
=============================================================================
