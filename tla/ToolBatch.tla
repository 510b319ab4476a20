----------------------------- MODULE ToolBatch -----------------------------
(***************************************************************************)
(* agent/tool_executor.py: execute_tool_calls_concurrent, with the part of *)
(* agent/conversation_loop.py that repairs the transcript when it raises.  *)
(*                                                                         *)
(* The agent's thread plans a batch of tool calls, submits them to a pool  *)
(* of its own, polls the futures until they are done, until the deadline   *)
(* or until the user interrupts, and then writes one tool message per      *)
(* call.  A pool that is abandoned is not joined: its workers go on while  *)
(* the next batch runs.  The workers, the interrupt (AIAgent.interrupt,    *)
(* run_agent.py, which is not in the repository) and the clock interleave  *)
(* with the agent's thread between any two of its steps.                   *)
(***************************************************************************)
EXTENDS Integers, Sequences, FiniteSets

CONSTANTS
    Thread,         \* thread identities; the system hands a free one out again
    NumCalls,       \* tool calls in an assistant message
    PoolSize,       \* _MAX_TOOL_WORKERS
    MaxBatches,     \* bound: batches that are run
    MaxInterrupts,  \* bound: interrupts by the user
    HasDeadline,    \* SUFEN_CONCURRENT_TOOL_TIMEOUT_S is positive
    SubmitMayRaise, \* submit() may fail for another reason than a shutdown
    None

Call == 1 .. NumCalls
Batch == 1 .. MaxBatches

ASSUME SizesAssumption ==
    /\ NumCalls \in Nat \ {0} /\ PoolSize \in Nat \ {0}
    /\ MaxBatches \in Nat /\ MaxInterrupts \in Nat
    /\ HasDeadline \in BOOLEAN /\ SubmitMayRaise \in BOOLEAN

\* What stands in a slot of "results", and what is made up for an empty one.
Result == {"blocked", "not started", "returned"}
MadeUp == {"timed out", "skipped", "no result", "loop error"}
Answer == [call : Call, says : Result \cup MadeUp]

ASSUME SentinelAssumption == None \notin Result

VARIABLES
    batch,       \* how many batches were begun
    pc,          \* where the agent's thread is
    blocked,     \* calls of the batch whose block_result is set
    future,      \* the future of each call of each batch
    result,      \* the slots of "results" of each batch
    closed,      \* batches whose executor was shut down
    abandoned,   \* abandon_executor
    raised,      \* an exception is on its way out of the batch
    notDone,     \* not_done, as the last poll returned it
    timedOut,    \* timed_out_indices
    toSignal,    \* worker_tids the agent's thread still has to interrupt
    expired,     \* the deadline has passed
    messages,    \* the tool messages behind the assistant's message
    at,          \* the call the loop over the answers is at
    phase,       \* what each thread is doing
    job,         \* the batch of each pool thread and the call it is at
    registered,  \* agent._tool_worker_threads
    bits,        \* the threads whose interrupt bit is set
    interrupted, \* agent._interrupt_requested
    fan,         \* how far AIAgent.interrupt has come
    fanOut,      \* the threads it still has to interrupt
    interrupts   \* how many there were

agentVars == <<batch, pc, blocked, closed, abandoned, raised, notDone, timedOut,
               toSignal, expired, messages, at>>
told == <<messages, at>>
tasks == <<future, result>>
pool == <<phase, job, registered>>
userVars == <<interrupted, fan, fanOut, interrupts>>
vars == <<agentVars, tasks, pool, bits, userVars>>

AgentTypeOK ==
    /\ batch \in 0 .. MaxBatches
    /\ pc \in {"idle", "submit", "wait", "polled", "snapshot", "signal", "grace",
               "shutdown", "join", "report", "recover"}
    /\ blocked \subseteq Call /\ notDone \subseteq Call /\ timedOut \subseteq Call
    /\ toSignal \subseteq Thread /\ closed \subseteq Batch
    /\ abandoned \in BOOLEAN /\ raised \in BOOLEAN /\ expired \in BOOLEAN

AnswerTypeOK == messages \in Seq(Answer) /\ at \in 1 .. NumCalls + 1

TaskTypeOK ==
    /\ future \in [Batch -> [Call -> {"none", "queued", "running", "withdrawn", "done"}]]
    /\ result \in [Batch -> [Call -> Result \cup {None}]]

ThreadTypeOK ==
    /\ phase \in [Thread -> {"free", "idle", "claimed", "registered", "running",
                             "stopping", "returned", "left"}]
    /\ job \in [Thread -> [batch : 0 .. MaxBatches, call : 0 .. NumCalls]]
    /\ registered \subseteq Thread /\ bits \subseteq Thread /\ fanOut \subseteq Thread
    /\ interrupted \in BOOLEAN
    /\ fan \in {"none", "flagged", "signalling"}
    /\ interrupts \in 0 .. MaxInterrupts

TypeOK == AgentTypeOK /\ AnswerTypeOK /\ TaskTypeOK /\ ThreadTypeOK

Init ==
    /\ batch = 0 /\ pc = "idle"
    /\ blocked = {} /\ notDone = {} /\ timedOut = {}
    /\ future = [b \in Batch |-> [c \in Call |-> "none"]]
    /\ result = [b \in Batch |-> [c \in Call |-> None]]
    /\ closed = {} /\ abandoned = FALSE /\ raised = FALSE /\ expired = FALSE
    /\ messages = <<>> /\ at = 1
    /\ phase = [t \in Thread |-> "free"]
    /\ job = [t \in Thread |-> [batch |-> 0, call |-> 0]]
    /\ registered = {} /\ bits = {} /\ toSignal = {} /\ fanOut = {}
    /\ interrupted = FALSE /\ fan = "none" /\ interrupts = 0

-----------------------------------------------------------------------------
(***************************************************************************)
(* The agent's thread.                                                     *)
(***************************************************************************)
Waiting(b) == {c \in Call : future[b][c] = "queued"}
Unfinished(b) == {c \in Call : future[b][c] \in {"queued", "running"}}
Workers(b) == {t \in Thread : phase[t] # "free" /\ job[t].batch = b}
Spared(b) == {t \in Workers(b) : phase[t] = "idle"}

IsFirst(c, calls) == c \in calls /\ \A d \in calls : c <= d

\* The calls of the batch that are neither blocked nor submitted yet.
Unsubmitted == {c \in Call \ blocked : future[batch][c] = "none"}

\* Future.cancel() stops what no worker has claimed.
Withdraw(b, calls) ==
    future' = [future EXCEPT ![b] =
        [c \in Call |-> IF c \in calls /\ @[c] = "queued" THEN "withdrawn" ELSE @[c]]]

Begin ==
    /\ pc = "idle"
    /\ batch < MaxBatches
    /\ batch' = batch + 1
    /\ abandoned' = FALSE /\ raised' = FALSE /\ expired' = FALSE
    /\ notDone' = {} /\ timedOut' = {}
    /\ at' = 1

Says(answers) == [c \in Call |-> [call |-> c, says |-> answers[c]]]

\* An interrupt that is already there: every call is answered, none is run.
Preflight ==
    /\ Begin
    /\ interrupted
    /\ blocked' = {}
    /\ messages' = Says([c \in Call |-> "skipped"])
    /\ UNCHANGED <<pc, closed, toSignal, tasks, pool, bits, userVars>>

\* The tool scope, the plugins and the guardrail say which calls are blocked,
\* and the slots of those are filled at once.
Plan ==
    /\ Begin
    /\ ~interrupted
    /\ \E B \in SUBSET Call :
        /\ blocked' = B
        /\ result' = [result EXCEPT ![batch + 1] =
                        [c \in Call |-> IF c \in B THEN "blocked" ELSE None]]
        /\ pc' = IF B = Call THEN "report" ELSE "submit"
    /\ messages' = <<>>
    /\ UNCHANGED <<closed, toSignal, future, pool, bits, userVars>>

\* A middleware or a callback raises before anything was submitted.
PlanRaises ==
    /\ Begin
    /\ ~interrupted
    /\ blocked' = {}
    /\ messages' = <<>>
    /\ pc' = "recover"
    /\ UNCHANGED <<closed, toSignal, tasks, pool, bits, userVars>>

\* The pool starts a thread when none of its threads is spare and it is not
\* full; a thread that is just about to be spare may be missed.
Starts(t) ==
    /\ phase[t] = "free"
    /\ Cardinality(Workers(batch)) < PoolSize
    /\ phase' = [phase EXCEPT ![t] = "idle"]
    /\ job' = [job EXCEPT ![t] = [batch |-> batch, call |-> 0]]

StartsNone ==
    /\ Spared(batch) # {} \/ Cardinality(Workers(batch)) = PoolSize
    /\ UNCHANGED <<phase, job>>

Submit ==
    /\ pc = "submit"
    /\ \E c \in Call :
        /\ IsFirst(c, Unsubmitted)
        /\ future' = [future EXCEPT ![batch][c] = "queued"]
        /\ pc' = IF Unsubmitted = {c} THEN "wait" ELSE "submit"
    /\ StartsNone \/ \E t \in Thread : Starts(t)
    /\ UNCHANGED <<batch, blocked, closed, abandoned, raised, notDone, timedOut, toSignal,
                   expired, told, result, registered, bits, userVars>>

\* The interpreter is shutting down: the calls that are left are answered for.
SubmitAtShutdown ==
    /\ pc = "submit"
    /\ result' = [result EXCEPT ![batch] =
                    [c \in Call |-> IF c \in Unsubmitted THEN "not started" ELSE @[c]]]
    /\ pc' = "wait"
    /\ UNCHANGED <<batch, blocked, closed, abandoned, raised, notDone, timedOut, toSignal,
                   expired, told, future, pool, bits, userVars>>

\* Any other failure (no thread can be started) leaves through "finally"; the
\* call may be in the queue all the same.
SubmitRaises ==
    /\ SubmitMayRaise
    /\ pc = "submit"
    /\ \E c \in Call, f \in {"none", "queued"} :
        /\ IsFirst(c, Unsubmitted)
        /\ future' = [future EXCEPT ![batch][c] = f]
    /\ raised' = TRUE
    /\ pc' = "shutdown"
    /\ UNCHANGED <<batch, blocked, closed, abandoned, notDone, timedOut, toSignal, expired,
                   told, result, pool, bits, userVars>>

\* The deadline counts from before the first submit.
DeadlinePasses ==
    /\ HasDeadline
    /\ ~expired
    /\ pc \in {"submit", "wait", "polled"}
    /\ expired' = TRUE
    /\ UNCHANGED <<batch, pc, blocked, closed, abandoned, raised, notDone, timedOut, toSignal,
                   told, tasks, pool, bits, userVars>>

\* concurrent.futures.wait: everything is done, or 5 s are over.
Poll ==
    /\ pc = "wait"
    /\ notDone' = Unfinished(batch)
    /\ pc' = IF notDone' = {} THEN "shutdown" ELSE "polled"
    /\ UNCHANGED <<batch, blocked, closed, abandoned, raised, timedOut, toSignal, expired,
                   told, tasks, pool, bits, userVars>>

\* (mutant) The executor of a batch that timed out is joined.
ExpireAndJoin ==
    /\ pc = "polled"
    /\ expired
    /\ timedOut' = notDone
    /\ Withdraw(batch, notDone)
    /\ pc' = "snapshot"
    /\ UNCHANGED <<batch, blocked, closed, abandoned, raised, notDone, toSignal, expired,
                   told, result, pool, bits, userVars>>

\* The deadline: what the poll found unfinished is timed out and withdrawn ...
Expire ==
    /\ pc = "polled"
    /\ expired
    /\ abandoned' = TRUE
    /\ timedOut' = notDone
    /\ Withdraw(batch, notDone)
    /\ pc' = "snapshot"
    /\ UNCHANGED <<batch, blocked, closed, raised, notDone, toSignal, expired,
                   told, result, pool, bits, userVars>>

\* ... the registered threads are copied under the lock ...
Snapshot ==
    /\ pc = "snapshot"
    /\ toSignal' = registered
    /\ pc' = "signal"
    /\ UNCHANGED <<batch, blocked, closed, abandoned, raised, notDone, timedOut, expired,
                   told, tasks, pool, bits, userVars>>

\* ... and their bits are set, one by one, outside it.
Signal ==
    /\ pc = "signal"
    /\ \/ /\ toSignal = {}
          /\ pc' = "shutdown"
          /\ UNCHANGED <<toSignal, bits>>
       \/ \E t \in toSignal :
            /\ toSignal' = toSignal \ {t}
            /\ bits' = bits \cup {t}
            /\ UNCHANGED pc
    /\ UNCHANGED <<batch, blocked, closed, abandoned, raised, notDone, timedOut, expired,
                   told, tasks, pool, userVars>>

\* The interrupt: what is queued is withdrawn, what runs has 3 s to notice.
GiveUp ==
    /\ pc = "polled"
    /\ ~expired
    /\ interrupted
    /\ abandoned' = TRUE
    /\ Withdraw(batch, notDone)
    /\ pc' = "grace"
    /\ UNCHANGED <<batch, blocked, closed, raised, notDone, timedOut, toSignal, expired,
                   told, result, pool, bits, userVars>>

PollAgain ==
    /\ pc = "polled"
    /\ ~expired
    /\ ~interrupted
    /\ pc' = "wait"
    /\ UNCHANGED <<batch, blocked, closed, abandoned, raised, notDone, timedOut, toSignal,
                   expired, told, tasks, pool, bits, userVars>>

GraceEnds ==
    /\ pc = "grace"
    /\ pc' = "shutdown"
    /\ UNCHANGED <<batch, blocked, closed, abandoned, raised, notDone, timedOut, toSignal,
                   expired, told, tasks, pool, bits, userVars>>

\* executor.shutdown in "finally": an abandoned pool is left, any other joined.
Shutdown ==
    /\ pc = "shutdown"
    /\ closed' = closed \cup {batch}
    /\ IF abandoned
         THEN Withdraw(batch, Call) /\ pc' = "report"
         ELSE UNCHANGED future /\ pc' = "join"
    /\ UNCHANGED <<batch, blocked, abandoned, raised, notDone, timedOut, toSignal, expired,
                   told, result, pool, bits, userVars>>

Joined ==
    /\ pc = "join"
    /\ Workers(batch) = {}
    /\ pc' = IF raised THEN "recover" ELSE "report"
    /\ UNCHANGED <<batch, blocked, closed, abandoned, raised, notDone, timedOut, toSignal,
                   expired, told, tasks, pool, bits, userVars>>

\* (mutant) A call that was timed out is reported as such, whatever came in.

TimeoutWins(c) ==
    IF c \in timedOut THEN "timed out"
    ELSE IF result[batch][c] # None THEN result[batch][c]
    ELSE IF interrupted THEN "skipped" ELSE "no result"

\* What the report says of a call: a real result, however late, comes first.
Told(c) ==
    CASE result[batch][c] # None -> result[batch][c]
      [] result[batch][c] = None /\ c \in timedOut -> "timed out"
      [] OTHER -> IF interrupted THEN "skipped" ELSE "no result"

Report ==
    /\ pc = "report"
    /\ at <= NumCalls
    /\ messages' = Append(messages, [call |-> at, says |-> Told(at)])
    /\ at' = at + 1
    /\ UNCHANGED <<batch, pc, blocked, closed, abandoned, raised, notDone, timedOut, toSignal,
                   expired, tasks, pool, bits, userVars>>

\* The budget of the turn is enforced, and the batch returns.
Reported ==
    /\ pc = "report"
    /\ at = NumCalls + 1
    /\ pc' = "idle"
    /\ UNCHANGED <<batch, blocked, closed, abandoned, raised, notDone, timedOut, toSignal,
                   expired, told, tasks, pool, bits, userVars>>

\* The guardrail, the result store or the hints raise before the message of
\* this call is appended, or the budget does after the last.
ReportRaises ==
    /\ pc = "report"
    /\ pc' = "recover"
    /\ at' = 1
    /\ UNCHANGED <<batch, blocked, closed, abandoned, raised, notDone, timedOut, toSignal,
                   expired, messages, tasks, pool, bits, userVars>>

\* (mutant) The calls that have an answer are answered again.
AnsweredNever(c) == FALSE

Answered(c) == \E n \in DOMAIN messages : messages[n].call = c

\* conversation_loop: the exception is caught outside of the batch, and every
\* call that has no message yet is answered with the error of the loop.
Recover ==
    /\ pc = "recover"
    /\ messages' = IF Answered(at) THEN messages
                   ELSE Append(messages, [call |-> at, says |-> "loop error"])
    /\ at' = at + 1
    /\ pc' = IF at = NumCalls THEN "idle" ELSE "recover"
    /\ UNCHANGED <<batch, blocked, closed, abandoned, raised, notDone, timedOut, toSignal,
                   expired, tasks, pool, bits, userVars>>

-----------------------------------------------------------------------------
(***************************************************************************)
(* The workers.                                                            *)
(***************************************************************************)
Turns(t, to) == phase' = [phase EXCEPT ![t] = to]

\* The queue of an executor is first in, first out.
Claim(t) ==
    /\ phase[t] = "idle"
    /\ \E c \in Call :
        /\ IsFirst(c, Waiting(job[t].batch))
        /\ job' = [job EXCEPT ![t].call = c]
        /\ future' = [future EXCEPT ![job[t].batch][c] = "running"]
    /\ Turns(t, "claimed")
    /\ UNCHANGED <<agentVars, result, registered, bits, userVars>>

\* A thread of a pool that was shut down ends when the queue is empty.
Retire(t) ==
    /\ phase[t] = "idle"
    /\ job[t].batch \in closed
    /\ Waiting(job[t].batch) = {}
    /\ Turns(t, "free")
    /\ job' = [job EXCEPT ![t] = [batch |-> 0, call |-> 0]]
    /\ UNCHANGED <<agentVars, tasks, registered, bits, userVars>>

\* _run_tool: the worker registers under the lock ...
Register(t) ==
    /\ phase[t] = "claimed"
    /\ registered' = registered \cup {t}
    /\ Turns(t, "registered")
    /\ UNCHANGED <<agentVars, tasks, job, bits, userVars>>

\* (mutant) The worker does not look for an interrupt that came before it.
NoticesNothing(t) ==
    /\ phase[t] = "registered"
    /\ Turns(t, "running")
    /\ UNCHANGED <<agentVars, tasks, job, registered, bits, userVars>>

\* ... and interrupts itself if the fan-out came before that.
Notice(t) ==
    /\ phase[t] = "registered"
    /\ bits' = IF interrupted THEN bits \cup {t} ELSE bits
    /\ Turns(t, "running")
    /\ UNCHANGED <<agentVars, tasks, job, registered, userVars>>

Fills(t) == result' = [result EXCEPT ![job[t].batch][job[t].call] = "returned"]

\* The tool comes back, or raises an Exception, whose text is its result, ...
ToolReturns(t) ==
    /\ phase[t] = "running"
    /\ Fills(t)
    /\ Turns(t, "returned")
    /\ UNCHANGED <<agentVars, future, job, registered, bits, userVars>>

\* ... or raises a BaseException (CancelledError), and the slot stays empty ...
ToolDies(t) ==
    /\ phase[t] = "running"
    /\ Turns(t, "returned")
    /\ UNCHANGED <<agentVars, tasks, job, registered, bits, userVars>>

\* ... or raises a KeyboardInterrupt: the worker calls agent.interrupt() first.
ToolStops(t) ==
    /\ phase[t] = "running"
    /\ fan = "none"
    /\ interrupts < MaxInterrupts
    /\ interrupts' = interrupts + 1
    /\ interrupted' = TRUE
    /\ fan' = "flagged"
    /\ Turns(t, "stopping")
    /\ UNCHANGED <<agentVars, tasks, job, registered, bits, fanOut>>

ToolStopped(t) ==
    /\ phase[t] = "stopping"
    /\ fan = "none"
    /\ Fills(t)
    /\ Turns(t, "returned")
    /\ UNCHANGED <<agentVars, future, job, registered, bits, userVars>>

\* "finally": the worker is struck from the list under the lock ...
Leave(t) ==
    /\ phase[t] = "returned"
    /\ registered' = registered \ {t}
    /\ Turns(t, "left")
    /\ UNCHANGED <<agentVars, tasks, job, bits, userVars>>

\* ... and clears its bit behind it; its future is done.
Finish(t) ==
    /\ phase[t] = "left"
    /\ bits' = bits \ {t}
    /\ future' = [future EXCEPT ![job[t].batch][job[t].call] = "done"]
    /\ Turns(t, "idle")
    /\ UNCHANGED <<agentVars, result, job, registered, userVars>>

-----------------------------------------------------------------------------
(***************************************************************************)
(* AIAgent.interrupt, called by another thread: the flag first, then a     *)
(* copy of the registered threads, then their bits.                        *)
(***************************************************************************)
Interrupt ==
    /\ fan = "none"
    /\ interrupts < MaxInterrupts
    /\ interrupts' = interrupts + 1
    /\ interrupted' = TRUE
    /\ fan' = "flagged"
    /\ UNCHANGED <<agentVars, tasks, pool, bits, fanOut>>

InterruptCopies ==
    /\ fan = "flagged"
    /\ fanOut' = registered
    /\ fan' = "signalling"
    /\ UNCHANGED <<agentVars, tasks, pool, bits, interrupted, interrupts>>

InterruptSignals ==
    /\ fan = "signalling"
    /\ \/ /\ fanOut = {}
          /\ fan' = "none"
          /\ UNCHANGED <<fanOut, bits>>
       \/ \E t \in fanOut :
            /\ fanOut' = fanOut \ {t}
            /\ bits' = bits \cup {t}
            /\ UNCHANGED fan
    /\ UNCHANGED <<agentVars, tasks, pool, interrupted, interrupts>>

\* clear_interrupt, between two batches; whether it reaches the workers that
\* were left behind is not known here.
ClearInterrupt ==
    /\ pc = "idle"
    /\ interrupted
    /\ interrupted' = FALSE
    /\ bits' \in {bits, bits \ registered}
    /\ UNCHANGED <<agentVars, tasks, pool, fan, fanOut, interrupts>>

-----------------------------------------------------------------------------
Steps ==
    \/ Preflight \/ Plan \/ PlanRaises
    \/ Submit \/ SubmitAtShutdown \/ SubmitRaises
    \/ Poll \/ PollAgain \/ Expire \/ Snapshot \/ Signal \/ GiveUp \/ GraceEnds
    \/ Shutdown \/ Joined \/ Report \/ Reported \/ ReportRaises \/ Recover

\* What a worker does by itself; nothing brings its tool to return.
Works(t) ==
    \/ Claim(t) \/ Retire(t) \/ Register(t) \/ Notice(t)
    \/ ToolStopped(t) \/ Leave(t) \/ Finish(t)

Tool(t) == ToolReturns(t) \/ ToolDies(t) \/ ToolStops(t)

User == Interrupt \/ InterruptCopies \/ InterruptSignals \/ ClearInterrupt

Next ==
    \/ Steps
    \/ DeadlinePasses
    \/ \E t \in Thread : Works(t) \/ Tool(t)
    \/ User

Spec == Init /\ [][Next]_vars

\* The agent's thread, the clock, the workers outside their tools and an
\* interrupt that was begun keep going.  No tool has to return.
FairSpec ==
    /\ Spec
    /\ WF_vars(Steps)
    /\ WF_vars(DeadlinePasses)
    /\ \A t \in Thread : WF_vars(Works(t))
    /\ WF_vars(InterruptCopies) /\ WF_vars(InterruptSignals)

-----------------------------------------------------------------------------
(***************************************************************************)
(* Properties.                                                             *)
(***************************************************************************)
\* However a batch ends (in full, at the deadline, interrupted before or
\* after it began, or by an exception at any point), the assistant's message
\* is followed by one tool message for each of its calls, in their order: the
\* provider refuses a transcript with a call that has none or two.
EveryCallAnsweredOnce ==
    pc = "idle" /\ batch > 0 =>
        /\ Len(messages) = NumCalls
        /\ \A c \in Call : messages[c].call = c

\* No call whose answer tells the model it was refused or not started has
\* been, or is being, run by a worker.
DeclinedNeverRan ==
    \A n \in DOMAIN messages :
        messages[n].says \in {"blocked", "not started"} =>
            future[batch][messages[n].call] = "none"

\* Work that is finished when its call is reported is never hidden behind a
\* made-up answer, even when the deadline or the interrupt came first.
FinishedWorkIsReported ==
    [][Report => LET m == messages'[Len(messages')] IN
                    m.says \in MadeUp => result[batch][m.call] = None]_vars

\* Once the fan-out of an interrupt is over, every worker that is in a tool
\* has its bit set, whenever it registered: no tool misses the interrupt.
InterruptReachesTools ==
    interrupted /\ fan = "none" =>
        \A t \in Thread : phase[t] = "running" => t \in bits

\* Once the answers of a batch are written, no worker takes another of its
\* calls from the queue.
NothingClaimedAfterReport ==
    [][\A t \in Thread :
        phase[t] = "idle" /\ phase'[t] = "claimed" =>
            job[t].batch = batch /\ pc \notin {"idle", "report", "recover"}]_vars

\* The answers of a batch are complete and say what happened.
AnswersTruthful == TypeOK /\ EveryCallAnsweredOnce /\ DeclinedNeverRan

\* What the report says stays true: nothing finished before it is hidden, and
\* nothing is begun after it.
ReportIsFinal == FinishedWorkIsReported /\ NothingClaimedAfterReport

\* A batch with a deadline comes to its end although its tools may hang
\* forever, unless a submit raised, which leaves the pool to be joined.
BatchEnds == pc # "idle" ~> pc = "idle" \/ raised

\* tool_executor.py 618-624: the bit is cleared "so the next task scheduled
\* onto this recycled tid starts with a clean slate".  With no interrupt by
\* the user about, no worker begins a call with its bit set.
CleanSlate ==
    [][\A t \in Thread :
        phase[t] = "idle" /\ phase'[t] = "claimed" => t \notin bits]_vars

\* tool_executor.py 789-792: a batch that is given up does not join its
\* workers, "Normal completion joins".  The agent's thread joins no pool one
\* of whose workers is still in a tool.
JoinsOnlyCompleted ==
    pc = "join" => \A t \in Workers(batch) : phase[t] # "running"
=============================================================================
