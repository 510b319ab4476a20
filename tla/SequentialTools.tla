---------------------------- MODULE SequentialTools ----------------------------
(***************************************************************************)
(* agent/tool_executor.py: execute_tool_calls_sequential, and what         *)
(* execute_tool_calls_concurrent (module ToolBatch) asks and tells the     *)
(* guardrails, over the rounds of one turn.  The user interrupts, or the   *)
(* terminal does (KeyboardInterrupt), between any two steps.               *)
(***************************************************************************)
EXTENDS ToolGuardrails, Sequences, FiniteSets

CONSTANTS
    NumCalls,    \* bound: tool calls in an assistant message
    MaxCalls,    \* bound: calls of a turn
    Raising      \* tools the executor runs without a handler of its own

ASSUME RoundAssumption == NumCalls \in Nat \ {0} /\ MaxCalls \in Nat /\ Raising \subseteq Tool

VARIABLES
    pc,          \* where the turn is
    calls,       \* the tool calls of the round
    at,          \* the call the loop is at
    verdicts,    \* what the guardrail said of each call of a concurrent round
    answers,     \* the tool messages of the round
    history,     \* the calls of the turn that ran to their end
    raised,      \* a round of the turn was left by an exception
    interrupted  \* agent._interrupt_requested

vars == <<guard, pc, calls, at, verdicts, answers, history, raised, interrupted>>

Answer == [call : 1 .. NumCalls,
           says : {"blocked", "allow", "warn", "halt", "cancelled", "no_result", "raised"}]

TypeOK ==
    /\ GuardTypeOK
    /\ pc \in {"model", "check", "running", "after", "batch", "repair", "halted", "killed"}
    /\ calls \in Seq(Signature) /\ at \in 1 .. NumCalls + 1
    /\ verdicts \in Seq(Code \cup {None, "plugin_block"})
    /\ answers \in Seq(Answer)
    /\ history \in Seq([call : Signature, result : Result \cup {"error"}])
    /\ {raised, interrupted} \subseteq BOOLEAN

Init ==
    /\ hardStop \in BOOLEAN /\ Fresh
    /\ pc = "model" /\ calls = <<>> /\ at = 1 /\ verdicts = <<>> /\ answers = <<>>
    /\ history = <<>> /\ raised = FALSE /\ interrupted = FALSE

Says(i, what) == [call |-> i, says |-> what]
Rest(i, what) == [j \in 1 .. Len(calls) - i + 1 |-> Says(i + j - 1, what)]

-----------------------------------------------------------------------------
\* Mutant: the halt is not looked at.
AfterRoundGoOn == pc' = "model"

\* What follows a round: a halt ends the turn, else the model is asked again.
AfterRound == pc' = IF halt' # None THEN "halted" ELSE "model"

\* The model asks for a round of tools.
Begin ==
    /\ pc = "model" /\ ~interrupted /\ Len(history) < MaxCalls
    /\ \E n \in 1 .. NumCalls : calls' \in [1 .. n -> Signature]
    /\ at' = 1 /\ answers' = <<>> /\ verdicts' = <<>>
    /\ pc' \in {"check", "batch"}
    /\ UNCHANGED <<guard, history, interrupted, raised>>

\* Mutant: the call the loop is at is not cancelled, like the ones after it.
CancelAfter ==
    /\ pc = "check" /\ interrupted
    /\ UNCHANGED guard
    /\ answers' = answers \o Rest(at + 1, "cancelled")
    /\ AfterRound
    /\ UNCHANGED <<calls, at, verdicts, history, interrupted, raised>>

\* Interrupted before a call: it and the rest are answered and not run.
Cancel ==
    /\ pc = "check" /\ interrupted
    /\ UNCHANGED guard
    /\ answers' = answers \o Rest(at, "cancelled")
    /\ AfterRound
    /\ UNCHANGED <<calls, at, verdicts, history, interrupted, raised>>

\* Out of the session's scope, or a plugin says no: the guardrail is not asked.
BlockedByPlugin ==
    /\ pc = "check" /\ ~interrupted
    /\ answers' = Append(answers, Says(at, "blocked"))
    /\ pc' = "after"
    /\ UNCHANGED <<guard, calls, at, verdicts, history, interrupted, raised>>

BlockedByGuardrail ==
    /\ pc = "check" /\ ~interrupted
    /\ Verdict(calls[at]) # None
    /\ Halts(Verdict(calls[at]))
    /\ answers' = Append(answers, Says(at, "blocked"))
    /\ pc' = "after"
    /\ UNCHANGED <<hardStop, exact, same, progress, calls, at, verdicts, history, interrupted, raised>>

Run ==
    /\ pc = "check" /\ ~interrupted
    /\ Verdict(calls[at]) = None
    /\ pc' = "running"
    /\ UNCHANGED <<guard, calls, at, verdicts, answers, history, interrupted, raised>>

\* The tool returns, or raises into a handler that makes an error of it.  The
\* guardrail counts it and its advice is appended; then the answer.
Return(result) ==
    /\ pc = "running"
    /\ AfterCall(calls[at], result)
    /\ answers' = Append(answers, Says(at, Advice(calls[at], result)))
    /\ history' = Append(history, [call |-> calls[at], result |-> result])
    /\ pc' = "after"
    /\ UNCHANGED <<calls, at, verdicts, interrupted, raised>>

\* The tools of the agent itself (todo, memory, ...) raise through the executor.
Raise ==
    /\ pc = "running" /\ calls[at].tool \in Raising
    /\ pc' = "repair" /\ raised' = TRUE
    /\ UNCHANGED <<guard, calls, at, verdicts, answers, history, interrupted>>

\* A KeyboardInterrupt inside a tool is raised again, past every handler; the
\* call is left without an answer.
Kill ==
    /\ pc = "running"
    /\ interrupted' = TRUE /\ pc' = "killed"
    /\ UNCHANGED <<guard, calls, at, verdicts, answers, history, raised>>

\* After the answer of a call: an interrupt skips the rest, else the next call.
Next1 ==
    /\ pc = "after"
    /\ UNCHANGED guard
    /\ IF at = Len(calls) THEN AfterRound /\ UNCHANGED <<at, answers>>
       ELSE IF interrupted
            THEN AfterRound /\ answers' = answers \o Rest(at + 1, "cancelled") /\ UNCHANGED at
            ELSE pc' = "check" /\ at' = at + 1 /\ UNCHANGED answers
    /\ UNCHANGED <<calls, verdicts, history, interrupted, raised>>

-----------------------------------------------------------------------------
\* A concurrent round: every call is put to the plugins and to the guardrail
\* before any of them runs, ...
Plan ==
    /\ pc = "batch" /\ verdicts = <<>>
    /\ \E refused \in SUBSET DOMAIN calls :
          /\ verdicts' = [i \in DOMAIN calls |->
                            IF i \in refused THEN "plugin_block" ELSE Verdict(calls[i])]
          /\ LET blocked == {i \in DOMAIN calls \ refused : Verdict(calls[i]) # None} IN
                \/ blocked = {} /\ UNCHANGED halt
                \/ \E i \in blocked : (\A j \in blocked : j <= i) /\ Halts(Verdict(calls[i]))
    /\ UNCHANGED <<hardStop, exact, same, progress, pc, calls, at, answers, history, interrupted, raised>>

\* ... and counted, in their order, after all have.  A call without a result
\* (timed out, cancelled) is answered and not counted.
Report ==
    /\ pc = "batch" /\ verdicts # <<>> /\ at <= Len(calls)
    /\ \/ /\ verdicts[at] # None
          /\ answers' = Append(answers, Says(at, "blocked"))
          /\ UNCHANGED <<guard, history>>
       \/ /\ verdicts[at] = None
          /\ answers' = Append(answers, Says(at, "no_result"))
          /\ UNCHANGED <<guard, history>>
       \/ \E result \in Result \cup {"error"} :
             /\ verdicts[at] = None
             /\ AfterCall(calls[at], result)
             /\ answers' = Append(answers, Says(at, Advice(calls[at], result)))
             /\ history' = Append(history, [call |-> calls[at], result |-> result])
    /\ at' = at + 1
    /\ UNCHANGED <<pc, calls, verdicts, interrupted, raised>>

Reported ==
    /\ pc = "batch" /\ at > Len(calls)
    /\ UNCHANGED guard
    /\ AfterRound
    /\ UNCHANGED <<calls, at, verdicts, answers, history, interrupted, raised>>

\* run_conversation's handler answers every call that has no answer yet.
Repair ==
    /\ pc = "repair"
    /\ answers' = answers \o Rest(at, "raised")
    /\ pc' = "model"
    /\ UNCHANGED <<guard, calls, at, verdicts, history, interrupted, raised>>

NewTurn ==
    /\ pc \in {"model", "halted"} /\ history # <<>>
    /\ ResetForTurn /\ history' = <<>> /\ raised' = FALSE /\ interrupted' = FALSE
    /\ pc' = "model" /\ calls' = <<>> /\ at' = 1 /\ verdicts' = <<>> /\ answers' = <<>>

Interrupt ==
    /\ ~interrupted /\ pc \notin {"halted", "killed"}
    /\ interrupted' = TRUE
    /\ UNCHANGED <<guard, pc, calls, at, verdicts, answers, history, raised>>

Sequential ==
    \/ Cancel \/ BlockedByPlugin \/ BlockedByGuardrail \/ Run \/ Raise \/ Kill \/ Next1
    \/ \E result \in Result \cup {"error"} : Return(result)

Next == Begin \/ Sequential \/ Plan \/ Report \/ Reported \/ Repair \/ NewTurn \/ Interrupt

Spec == Init /\ [][Next]_vars

-----------------------------------------------------------------------------
\* How many of a turn's calls of a kind have come back with one of the results
\* since the last that did not.
Since(h, kind, results) ==
    {i \in DOMAIN h :
        /\ h[i].call \in kind
        /\ \A j \in i .. Len(h) : h[j].call \in kind => h[j].result \in results}
Streak(h, kind, results) == Cardinality(Since(h, kind, results))

CallsOf(t) == {s \in Signature : s.tool = t}

\* The counts of the guardrail (tool_guardrails.py:298-359), kept up call by
\* call across the rounds of both executors, are what the calls of the turn
\* amount to: the failures since the call, or its tool, last succeeded, and for
\* a read how often in a row it has just returned the same.
CountsAreOfTheTurn ==
    /\ \A s \in Signature : exact[s] = Streak(history, {s}, {"error"})
    /\ \A t \in Tool : same[t] = Streak(history, CallsOf(t), {"error"})
    /\ \A s \in Signature, r \in Result : s.tool \in Reads =>
          Streak(history, {s}, {r}) = IF progress[s].hash = r THEN progress[s].count ELSE 0

\* With the circuit breaker on, a loop is cut: the same failing call, the calls
\* of one failing tool and the same fruitless read pass their limit by no more
\* than the other calls of one round, which a concurrent round asks about
\* before it counts any of them (tool_executor.py:457 and :862), and a halted
\* turn asks for no other round (conversation_loop.py:4672).  A round that is
\* left by an exception is not looked at for a halt.
LoopsAreCut ==
    hardStop /\ ~raised =>
        /\ \A s \in Signature : /\ exact[s] < ExactBlock + NumCalls
                                /\ progress[s].count < IdleBlock + NumCalls
        /\ \A t \in Tool : same[t] < SameHalt + NumCalls

\* The guardrail counts what happened, and what it counts stops a loop.
GuardrailSound == TypeOK /\ CountsAreOfTheTurn /\ LoopsAreCut

\* When the model is asked again, or the turn was halted, every call of the
\* round has exactly one answer, in the order of the calls: also when some were
\* blocked, cancelled or not reached because one raised.
EachCallAnsweredInOrder ==
    pc \in {"model", "halted"} =>
        /\ Len(answers) = Len(calls)
        /\ \A i \in DOMAIN answers : answers[i].call = i
=============================================================================
