--------------------------- MODULE ToolBatchProofs ---------------------------
(***************************************************************************)
(* What ToolBatch promises for every number of threads, calls, batches and *)
(* interrupts, with or without a deadline.                                 *)
(*                                                                         *)
(* The inductive invariant has one part per story.  AnswersInv: the        *)
(* messages are those of the calls 1, 2, ..., as far as the loop over them *)
(* has come.  SlotsTrue: a slot that says a call was refused belongs to a  *)
(* call no worker was given.  Reached: a worker in a tool is registered,   *)
(* and if there is an interrupt its bit is set or the fan-out is still     *)
(* going to set it.  Drained: a pool whose batch is reported has an empty  *)
(* queue, or no worker.  Begun, Fresh and Holding carry them over: they    *)
(* say that workers and futures belong to batches that were begun.         *)
(***************************************************************************)
EXTENDS ToolBatch, SequenceTheorems, TLAPS

-----------------------------------------------------------------------------
(***************************************************************************)
(* The parts of the invariant.                                             *)
(***************************************************************************)

\* A batch is being run only after one was begun.
Begun == pc # "idle" => batch >= 1

\* Batches that were not begun have neither futures nor results.
Fresh == \A b \in Batch : b > batch =>
            \A c \in Call : future[b][c] = "none" /\ result[b][c] = None

\* A worker belongs to a batch that was begun, and what it is at was submitted.
Holding == \A t \in Thread :
    /\ phase[t] # "free" => job[t].batch \in 1 .. batch
    /\ phase[t] \notin {"free", "idle"} =>
        job[t].call \in Call /\ future[job[t].batch][job[t].call] # "none"

\* The messages answer the calls in their order; where the loops have come.
InOrder == \A n \in 1 .. Len(messages) : messages[n].call = n

Progress ==
    /\ pc = "idle" /\ batch > 0 => Len(messages) = NumCalls
    /\ pc = "report" => Len(messages) = at - 1
    /\ pc = "recover" => at \in Call /\ at - 1 <= Len(messages) /\ Len(messages) <= NumCalls
    /\ pc \notin {"idle", "report", "recover"} => messages = <<>> /\ at = 1

AnswersInv == AnswerTypeOK /\ InOrder /\ Progress

\* A slot that says "blocked" or "not started" tells the truth.
SlotsTrue == batch \in Batch => \A c \in Call :
    /\ result[batch][c] \in {"blocked", "not started"} => future[batch][c] = "none"
    /\ result[batch][c] = "blocked" => c \in blocked
    /\ pc = "submit" => result[batch][c] # "not started"

\* No worker in a tool is missed by an interrupt.
Reached == \A t \in Thread :
    /\ phase[t] \in {"registered", "running", "stopping", "returned"} => t \in registered
    /\ phase[t] = "running" /\ interrupted =>
        \/ t \in bits
        \/ fan = "flagged"
        \/ fan = "signalling" /\ t \in fanOut

\* Nothing is left to take from the queue of a batch that was reported.
Drained == \A b \in 1 .. batch :
    b < batch \/ pc \in {"idle", "report", "recover"} => Waiting(b) = {} \/ Workers(b) = {}

IInv ==
    /\ TypeOK /\ Begun /\ Fresh /\ Holding
    /\ AnswersInv /\ SlotsTrue /\ DeclinedNeverRan
    /\ Reached /\ Drained

-----------------------------------------------------------------------------
(***************************************************************************)
(* What the steps leave alone.                                             *)
(***************************************************************************)
\* The workers and their tools never write the agent's variables.
LEMMA WorkersKeepAgent ==
    ASSUME NEW t \in Thread, Works(t) \/ Tool(t)
    PROVE  UNCHANGED agentVars
BY DEF Works, Claim, Retire, Register, Notice, ToolStopped, Leave, Finish,
       Tool, ToolReturns, ToolDies, ToolStops

\* A free thread does nothing.
LEMMA WorkersAreNotFree ==
    ASSUME NEW t \in Thread, Works(t) \/ Tool(t)
    PROVE  phase[t] # "free"
BY DEF Works, Claim, Retire, Register, Notice, ToolStopped, Leave, Finish,
       Tool, ToolReturns, ToolDies, ToolStops

LEMMA NextNumber ==
    ASSUME batch \in 0 .. MaxBatches, batch < MaxBatches
    PROVE  batch + 1 \in 0 .. MaxBatches /\ batch + 1 \in Batch
BY SizesAssumption DEF Batch

\* What the agent's thread does to the workers: it may start one.
Hires ==
    \/ UNCHANGED <<phase, job>>
    \/ /\ pc = "submit" /\ UNCHANGED batch
       /\ \E t \in Thread :
            /\ phase[t] = "free"
            /\ phase' = [phase EXCEPT ![t] = "idle"]
            /\ job' = [job EXCEPT ![t] = [batch |-> batch, call |-> 0]]

LEMMA AgentHires == Steps \/ DeadlinePasses \/ User => Hires /\ (batch' = batch \/ batch' = batch + 1)
<1> USE DEF Hires, pool, agentVars
<1>1. Preflight \/ Plan \/ PlanRaises => Hires /\ batch' = batch + 1
  BY DEF Preflight, Plan, PlanRaises, Begin
<1>2. Submit => Hires /\ batch' = batch
  BY DEF Submit, Starts, StartsNone
<1>3. SubmitAtShutdown \/ SubmitRaises \/ Poll \/ PollAgain \/ Expire \/ Snapshot \/ Signal
        => Hires /\ batch' = batch
  BY DEF SubmitAtShutdown, SubmitRaises, Poll, PollAgain, Expire, Snapshot, Signal
<1>4. GiveUp \/ GraceEnds \/ Shutdown \/ Joined \/ DeadlinePasses => Hires /\ batch' = batch
  BY DEF GiveUp, GraceEnds, Shutdown, Joined, DeadlinePasses
<1>5. Report \/ Reported \/ ReportRaises \/ Recover \/ User => Hires /\ batch' = batch
  BY DEF Report, Reported, ReportRaises, Recover, User, Interrupt, InterruptCopies, InterruptSignals, ClearInterrupt
<1> QED BY <1>1, <1>2, <1>3, <1>4, <1>5 DEF Steps

\* What the agent's thread does to interrupts: it may set bits.
AgentFrame ==
    /\ UNCHANGED <<registered, interrupted, fan, fanOut>>
    /\ bits \subseteq bits'
    /\ \/ UNCHANGED phase
       \/ \E t \in Thread : phase' = [phase EXCEPT ![t] = "idle"]

LEMMA AgentFramed == Steps \/ DeadlinePasses => AgentFrame
<1> USE DEF AgentFrame, pool, userVars
<1>1. Preflight \/ Plan \/ PlanRaises => AgentFrame
  BY DEF Preflight, Plan, PlanRaises
<1>2. Submit => AgentFrame
  BY DEF Submit, Starts, StartsNone
<1>3. SubmitAtShutdown \/ SubmitRaises \/ Poll \/ PollAgain \/ Expire \/ Snapshot => AgentFrame
  BY DEF SubmitAtShutdown, SubmitRaises, Poll, PollAgain, Expire, Snapshot
<1>4. Signal => AgentFrame
  BY DEF Signal
<1>5. GiveUp \/ GraceEnds \/ Shutdown \/ Joined \/ DeadlinePasses => AgentFrame
  BY DEF GiveUp, GraceEnds, Shutdown, Joined, DeadlinePasses
<1>6. Report \/ Reported \/ ReportRaises \/ Recover => AgentFrame
  BY DEF Report, Reported, ReportRaises, Recover
<1> QED BY <1>1, <1>2, <1>3, <1>4, <1>5, <1>6 DEF Steps

\* No future becomes "none" again.
FuturesStay == \A b \in Batch, c \in Call : future[b][c] # "none" => future'[b][c] # "none"

LEMMA FuturesKept == TypeOK /\ [Next]_vars => FuturesStay
<1> SUFFICES ASSUME TypeOK, [Next]_vars, NEW b \in Batch, NEW c \in Call, future[b][c] # "none"
             PROVE  future'[b][c] # "none"
  BY DEF FuturesStay
<1> USE DEF TypeOK, TaskTypeOK, tasks
<1>1. CASE Submit
  BY <1>1 DEF Submit
<1>2. CASE SubmitRaises
  BY <1>2 DEF SubmitRaises, IsFirst, Unsubmitted
<1>3. CASE Expire \/ GiveUp \/ Shutdown
  BY <1>3 DEF Expire, GiveUp, Shutdown, Withdraw
<1>4. CASE Preflight \/ Plan \/ PlanRaises \/ SubmitAtShutdown \/ Poll \/ PollAgain \/ Snapshot \/ Signal
        \/ GraceEnds \/ Joined \/ Report \/ Reported \/ ReportRaises \/ Recover \/ DeadlinePasses \/ User
        \/ UNCHANGED vars
  BY <1>4 DEF Preflight, Plan, PlanRaises, SubmitAtShutdown, Poll, PollAgain, Snapshot, Signal, GraceEnds,
              Joined, Report, Reported, ReportRaises, Recover, DeadlinePasses, User, Interrupt, InterruptCopies,
              InterruptSignals, ClearInterrupt, vars
<1>5. ASSUME NEW t \in Thread, Works(t) \/ Tool(t) PROVE future'[b][c] # "none"
  <2>1. CASE Claim(t)
    BY <2>1 DEF Claim
  <2>2. CASE Finish(t)
    BY <2>2 DEF Finish
  <2>3. CASE ~Claim(t) /\ ~Finish(t)
    BY <1>5, <2>3 DEF Works, Retire, Register, Notice, ToolStopped, Leave, Tool, ToolReturns, ToolDies,
                      ToolStops
  <2> QED BY <2>1, <2>2, <2>3
<1> QED BY <1>1, <1>2, <1>3, <1>4, <1>5 DEF Next, Steps

-----------------------------------------------------------------------------
(***************************************************************************)
(* Types.                                                                  *)
(***************************************************************************)
LEMMA AgentTyped == TypeOK /\ Begun /\ [Next]_vars => AgentTypeOK'
<1> SUFFICES ASSUME TypeOK, Begun, [Next]_vars PROVE AgentTypeOK'
  OBVIOUS
<1> USE DEF TypeOK
<1>1. CASE Preflight \/ Plan \/ PlanRaises
  <2>1. Begin /\ UNCHANGED <<closed, toSignal>>
    BY <1>1 DEF Preflight, Plan, PlanRaises
  <2>2. batch' \in 0 .. MaxBatches
    BY <2>1, NextNumber DEF Begin, AgentTypeOK
  <2>3. blocked' \subseteq Call
    BY <1>1 DEF Preflight, Plan, PlanRaises
  <2>4. pc' \in {"idle", "report", "submit", "recover"}
    BY <1>1 DEF Preflight, Plan, PlanRaises, Begin
  <2>5. /\ notDone' = {} /\ timedOut' = {}
        /\ abandoned' = FALSE /\ raised' = FALSE /\ expired' = FALSE
    BY <2>1 DEF Begin
  <2> QED BY <2>1, <2>2, <2>3, <2>4, <2>5 DEF AgentTypeOK
<1>2. CASE Submit \/ SubmitAtShutdown \/ SubmitRaises \/ Poll \/ PollAgain
  BY <1>2 DEF AgentTypeOK, Submit, SubmitAtShutdown, SubmitRaises, Poll, PollAgain, Unfinished
<1>3. CASE Expire \/ GiveUp \/ GraceEnds \/ Joined \/ Report \/ Reported \/ ReportRaises \/ Recover
  BY <1>3 DEF AgentTypeOK, Expire, GiveUp, GraceEnds, Joined, Report, Reported, ReportRaises, Recover
<1>4. CASE Snapshot \/ Signal
  BY <1>4 DEF AgentTypeOK, ThreadTypeOK, Snapshot, Signal
<1>5. CASE Shutdown
  <2>1. batch \in Batch
    BY <1>5, SizesAssumption DEF Shutdown, Begun, AgentTypeOK, Batch
  <2> QED BY <1>5, <2>1 DEF AgentTypeOK, Shutdown
<1>6. CASE DeadlinePasses
  BY <1>6 DEF AgentTypeOK, DeadlinePasses
<1>7. ASSUME NEW t \in Thread, Works(t) \/ Tool(t) PROVE UNCHANGED agentVars
  BY <1>7, WorkersKeepAgent
<1>8. CASE User
  BY <1>8 DEF AgentTypeOK, agentVars, User, Interrupt, InterruptCopies, InterruptSignals, ClearInterrupt
<1>9. CASE UNCHANGED agentVars
  BY <1>9 DEF AgentTypeOK, agentVars
<1> QED BY <1>1, <1>2, <1>3, <1>4, <1>5, <1>6, <1>7, <1>8, <1>9 DEF Next, Steps, vars

LEMMA WithdrawTyped ==
    ASSUME TaskTypeOK, NEW b, NEW calls, Withdraw(b, calls), result' = result
    PROVE  TaskTypeOK'
<1>1. CASE b \in Batch
  <2> DEFINE row == [c \in Call |-> IF c \in calls /\ future[b][c] = "queued"
                                    THEN "withdrawn" ELSE future[b][c]]
  <2>1. future' = [future EXCEPT ![b] = row]
    BY <1>1 DEF Withdraw, TaskTypeOK
  <2>2. row \in [Call -> {"none", "queued", "running", "withdrawn", "done"}]
    BY <1>1 DEF TaskTypeOK
  <2> QED BY <2>1, <2>2 DEF TaskTypeOK
<1>2. CASE b \notin Batch
  BY <1>2 DEF Withdraw, TaskTypeOK
<1> QED BY <1>1, <1>2

LEMMA TasksTyped == TypeOK /\ [Next]_vars => TaskTypeOK'
<1> SUFFICES ASSUME TypeOK, [Next]_vars PROVE TaskTypeOK'
  OBVIOUS
<1> USE DEF TypeOK, TaskTypeOK, tasks
<1>1. CASE Preflight \/ PlanRaises \/ Poll \/ PollAgain \/ Snapshot \/ Signal \/ GraceEnds
        \/ Joined \/ Report \/ Reported \/ ReportRaises \/ Recover \/ DeadlinePasses
  BY <1>1 DEF Preflight, PlanRaises, Poll, PollAgain, Snapshot, Signal, GraceEnds, Joined,
              Report, Reported, ReportRaises, Recover, DeadlinePasses
<1>2. CASE Plan
  BY <1>2 DEF Plan, Result
<1>3. CASE Submit
  <2>1. PICK c \in Call : future' = [future EXCEPT ![batch][c] = "queued"] /\ result' = result
    BY <1>3 DEF Submit
  <2> QED BY <2>1
<1>4. CASE SubmitAtShutdown
  BY <1>4 DEF SubmitAtShutdown, Result
<1>5. CASE SubmitRaises
  <2>1. PICK c \in Call, f \in {"none", "queued"} :
            future' = [future EXCEPT ![batch][c] = f] /\ result' = result
    BY <1>5 DEF SubmitRaises
  <2> QED BY <2>1
<1>6. CASE Expire \/ GiveUp \/ Shutdown
  <2>1. result' = result /\ (UNCHANGED future \/ \E calls : Withdraw(batch, calls))
    BY <1>6 DEF Expire, GiveUp, Shutdown
  <2> QED BY <2>1, WithdrawTyped
<1>8. ASSUME NEW t \in Thread, Works(t) \/ Tool(t) PROVE TaskTypeOK'
  <2>1. CASE Claim(t)
    <3>1. PICK c \in Call : future' = [future EXCEPT ![job[t].batch][c] = "running"] /\ result' = result
      BY <2>1 DEF Claim
    <3> QED BY <3>1
  <2>2. CASE Finish(t)
    BY <2>2 DEF Finish
  <2>3. CASE ToolReturns(t) \/ ToolStopped(t)
    <3>1. future' = future /\ Fills(t)
      BY <2>3 DEF ToolReturns, ToolStopped
    <3>2. "returned" \in Result
      BY DEF Result
    <3> QED BY <3>1, <3>2 DEF Fills
  <2>4. CASE Retire(t) \/ Register(t) \/ Notice(t) \/ Leave(t) \/ ToolDies(t) \/ ToolStops(t)
    BY <2>4 DEF Retire, Register, Notice, Leave, ToolDies, ToolStops
  <2> QED BY <1>8, <2>1, <2>2, <2>3, <2>4 DEF Works, Tool
<1>9. CASE User
  BY <1>9 DEF User, Interrupt, InterruptCopies, InterruptSignals, ClearInterrupt
<1>10. CASE UNCHANGED vars
  BY <1>10 DEF vars
<1> QED BY <1>1, <1>2, <1>3, <1>4, <1>5, <1>6, <1>8, <1>9, <1>10 DEF Next, Steps

LEMMA ThreadsTyped == TypeOK /\ [Next]_vars => ThreadTypeOK'
<1> SUFFICES ASSUME TypeOK, [Next]_vars PROVE ThreadTypeOK'
  OBVIOUS
<1> USE DEF TypeOK, ThreadTypeOK, pool, userVars
<1>1. CASE Preflight \/ Plan \/ PlanRaises \/ SubmitAtShutdown \/ SubmitRaises \/ Poll \/ PollAgain
        \/ Expire \/ Snapshot \/ GiveUp \/ GraceEnds \/ Shutdown \/ Joined
        \/ Report \/ Reported \/ ReportRaises \/ Recover \/ DeadlinePasses
  BY <1>1 DEF Preflight, Plan, PlanRaises, SubmitAtShutdown, SubmitRaises, Poll, PollAgain, Expire, Snapshot,
              GiveUp, GraceEnds, Shutdown, Joined, Report, Reported, ReportRaises, Recover, DeadlinePasses
<1>2. CASE Submit
  <2>1. UNCHANGED <<registered, bits, userVars>> /\ (StartsNone \/ \E t \in Thread : Starts(t))
    BY <1>2 DEF Submit
  <2>2. 0 \in 0 .. NumCalls /\ batch \in 0 .. MaxBatches
    BY SizesAssumption DEF AgentTypeOK
  <2>3. CASE StartsNone
    BY <2>1, <2>3 DEF StartsNone
  <2>4. ASSUME NEW t \in Thread, Starts(t) PROVE ThreadTypeOK'
    BY <2>1, <2>2, <2>4 DEF Starts
  <2> QED BY <2>1, <2>3, <2>4
<1>3. CASE Signal
  BY <1>3 DEF Signal, AgentTypeOK
<1>4. ASSUME interrupts < MaxInterrupts PROVE interrupts + 1 \in 0 .. MaxInterrupts
  BY <1>4, SizesAssumption
<1>5. ASSUME NEW t \in Thread, Works(t) \/ Tool(t) PROVE ThreadTypeOK'
  <2>1. CASE Claim(t)
    <3>1. PICK c \in Call : job' = [job EXCEPT ![t].call = c]
      BY <2>1 DEF Claim
    <3>2. c \in 0 .. NumCalls
      BY SizesAssumption DEF Call
    <3> QED BY <2>1, <3>1, <3>2 DEF Claim, Turns
  <2>2. CASE Retire(t)
    <3>1. 0 \in 0 .. NumCalls /\ 0 \in 0 .. MaxBatches
      BY SizesAssumption
    <3> QED BY <2>2, <3>1 DEF Retire, Turns
  <2>3. CASE Register(t) \/ Notice(t) \/ Leave(t) \/ Finish(t)
    BY <2>3 DEF Register, Notice, Leave, Finish, Turns
  <2>4. CASE ToolReturns(t) \/ ToolStopped(t) \/ ToolDies(t)
    BY <2>4 DEF ToolReturns, ToolStopped, ToolDies, Turns
  <2>5. CASE ToolStops(t)
    BY <2>5, <1>4 DEF ToolStops, Turns
  <2> QED BY <1>5, <2>1, <2>2, <2>3, <2>4, <2>5 DEF Works, Tool
<1>6. CASE Interrupt
  BY <1>6, <1>4 DEF Interrupt
<1>7. CASE InterruptCopies \/ InterruptSignals \/ ClearInterrupt
  BY <1>7 DEF InterruptCopies, InterruptSignals, ClearInterrupt
<1>8. CASE UNCHANGED vars
  BY <1>8 DEF vars
<1> QED BY <1>1, <1>2, <1>3, <1>5, <1>6, <1>7, <1>8 DEF Next, Steps, User

-----------------------------------------------------------------------------
(***************************************************************************)
(* Batches and workers.                                                    *)
(***************************************************************************)
LEMMA BegunStep == TypeOK /\ Begun /\ [Next]_vars => Begun'
<1> SUFFICES ASSUME TypeOK, Begun, [Next]_vars PROVE Begun'
  OBVIOUS
<1>1. CASE Preflight \/ Plan \/ PlanRaises
  <2>1. batch \in Nat /\ batch' = batch + 1
    BY <1>1, SizesAssumption DEF Preflight, Plan, PlanRaises, Begin, TypeOK, AgentTypeOK
  <2> QED BY <2>1 DEF Begun
<1>2. CASE Submit \/ SubmitAtShutdown \/ SubmitRaises \/ Poll \/ PollAgain \/ Expire \/ Snapshot
        \/ Signal \/ GiveUp \/ GraceEnds \/ Shutdown \/ Joined
        \/ Report \/ Reported \/ ReportRaises \/ Recover \/ DeadlinePasses
  BY <1>2 DEF Begun, Submit, SubmitAtShutdown, SubmitRaises, Poll, PollAgain, Expire, Snapshot, Signal,
              GiveUp, GraceEnds, Shutdown, Joined, Report, Reported, ReportRaises, Recover, DeadlinePasses
<1>3. ASSUME NEW t \in Thread, Works(t) \/ Tool(t) PROVE UNCHANGED agentVars
  BY <1>3, WorkersKeepAgent
<1>4. CASE User
  BY <1>4 DEF Begun, agentVars, User, Interrupt, InterruptCopies, InterruptSignals, ClearInterrupt
<1>5. CASE UNCHANGED agentVars
  BY <1>5 DEF Begun, agentVars
<1> QED BY <1>1, <1>2, <1>3, <1>4, <1>5 DEF Next, Steps, vars

\* A step touches the futures and slots of batches that were begun only.
LEMMA FreshStep == TypeOK /\ Begun /\ Fresh /\ Holding /\ [Next]_vars => Fresh'
<1> SUFFICES ASSUME TypeOK, Begun, Fresh, Holding, [Next]_vars,
                    NEW b \in Batch, b > batch', NEW c \in Call
             PROVE  future'[b][c] = "none" /\ result'[b][c] = None
  BY DEF Fresh
<1>0. batch \in 0 .. MaxBatches /\ batch \in Int /\ b \in Int
  BY SizesAssumption DEF TypeOK, AgentTypeOK, Batch
<1>1. CASE Preflight \/ Plan \/ PlanRaises
  <2>1. batch' = batch + 1 /\ future' = future
    BY <1>1 DEF Preflight, Plan, PlanRaises, Begin, tasks
  <2>2. b > batch /\ b # batch + 1
    BY <1>0, <2>1
  <2>3. result'[b] = result[b]
    BY <1>1, <2>2 DEF Preflight, Plan, PlanRaises, tasks, TypeOK, TaskTypeOK
  <2> QED BY <2>1, <2>2, <2>3 DEF Fresh
<1>2. CASE Submit \/ SubmitAtShutdown \/ SubmitRaises \/ Expire \/ GiveUp \/ Shutdown
  <2>1. batch' = batch
    BY <1>2 DEF Submit, SubmitAtShutdown, SubmitRaises, Expire, GiveUp, Shutdown
  <2>2. b > batch /\ b # batch
    BY <1>0, <2>1
  <2>3. future'[b] = future[b] /\ result'[b] = result[b]
    BY <1>2, <2>2 DEF Submit, SubmitAtShutdown, SubmitRaises, Expire, GiveUp, Shutdown, Withdraw,
                      TypeOK, TaskTypeOK
  <2> QED BY <2>2, <2>3 DEF Fresh
<1>3. CASE Poll \/ PollAgain \/ Snapshot \/ Signal \/ GraceEnds \/ Joined
        \/ Report \/ Reported \/ ReportRaises \/ Recover \/ DeadlinePasses \/ User \/ UNCHANGED vars
  <2>1. UNCHANGED <<batch, future, result>>
    BY <1>3 DEF Poll, PollAgain, Snapshot, Signal, GraceEnds, Joined, Report, Reported, ReportRaises, Recover,
                DeadlinePasses, User, Interrupt, InterruptCopies, InterruptSignals, ClearInterrupt,
                vars, agentVars, tasks
  <2> QED BY <2>1 DEF Fresh
<1>4. ASSUME NEW t \in Thread, Works(t) \/ Tool(t)
      PROVE  future'[b][c] = "none" /\ result'[b][c] = None
  <2>1. batch' = batch
    BY <1>4, WorkersKeepAgent DEF agentVars
  <2>2. phase[t] # "free"
    BY <1>4, WorkersAreNotFree
  <2>3. b > batch /\ b # job[t].batch
    BY <1>0, <2>1, <2>2 DEF Holding
  <2>4. future'[b] = future[b] /\ result'[b] = result[b]
    BY <1>4, <2>3 DEF tasks, Works, Claim, Retire, Register, Notice, ToolStopped, Leave, Finish, Fills,
                Tool, ToolReturns, ToolDies, ToolStops, TypeOK, TaskTypeOK
  <2> QED BY <2>3, <2>4 DEF Fresh
<1> QED BY <1>1, <1>2, <1>3, <1>4 DEF Next, Steps

LEMMA HoldingStep == TypeOK /\ Begun /\ Holding /\ [Next]_vars => Holding'
<1> SUFFICES ASSUME TypeOK, Begun, Holding, [Next]_vars PROVE Holding'
  OBVIOUS
<1>0. FuturesStay
  BY FuturesKept
<1>1. batch \in Int /\ \A t \in Thread : job[t].batch \in 1 .. batch => job[t].batch \in Batch
  BY SizesAssumption DEF TypeOK, AgentTypeOK, Batch
<1>2. CASE Steps \/ DeadlinePasses \/ User
  <2>1. Hires /\ (batch' = batch \/ batch' = batch + 1)
    BY <1>2, AgentHires
  <2>2. CASE UNCHANGED <<phase, job>>
    BY <1>0, <1>1, <2>1, <2>2 DEF Holding, FuturesStay
  <2>3. ASSUME pc = "submit", batch' = batch, NEW t \in Thread, phase[t] = "free",
               phase' = [phase EXCEPT ![t] = "idle"],
               job' = [job EXCEPT ![t] = [batch |-> batch, call |-> 0]]
        PROVE  Holding'
    <3>1. batch \in 1 .. batch
      BY <1>1, <2>3 DEF Begun
    <3>2. phase'[t] = "idle" /\ job'[t].batch = batch
      BY <2>3 DEF TypeOK, ThreadTypeOK
    <3>3. \A u \in Thread \ {t} : phase'[u] = phase[u] /\ job'[u] = job[u]
      BY <2>3 DEF TypeOK, ThreadTypeOK
    <3> QED BY <1>0, <1>1, <2>3, <3>1, <3>2, <3>3 DEF Holding, FuturesStay
  <2> QED BY <2>1, <2>2, <2>3 DEF Hires
<1>3. ASSUME NEW t \in Thread, Works(t) \/ Tool(t) PROVE Holding'
  <2>1. /\ batch' = batch
        /\ \A u \in Thread \ {t} : phase'[u] = phase[u] /\ job'[u] = job[u]
    BY <1>3 DEF agentVars, TypeOK, ThreadTypeOK, Turns, Works, Claim, Retire, Register, Notice, ToolStopped,
                Leave, Finish, Tool, ToolReturns, ToolDies, ToolStops
  <2>2. CASE Claim(t)
    <3>1. PICK c \in Call : /\ job' = [job EXCEPT ![t].call = c]
                            /\ future' = [future EXCEPT ![job[t].batch][c] = "running"]
      BY <2>2 DEF Claim
    <3>2. phase[t] = "idle" /\ job'[t].batch = job[t].batch /\ job'[t].call = c
      BY <2>2, <3>1 DEF Claim, TypeOK, ThreadTypeOK
    <3>3. job[t].batch \in 1 .. batch /\ job[t].batch \in Batch
      BY <1>1, <3>2 DEF Holding
    <3>4. future'[job[t].batch][c] = "running"
      BY <3>1, <3>3 DEF TypeOK, TaskTypeOK
    <3> QED BY <1>0, <1>1, <2>1, <3>2, <3>3, <3>4 DEF Holding, FuturesStay
  <2>3. CASE Retire(t)
    <3>1. phase'[t] = "free"
      BY <2>3 DEF Retire, Turns, TypeOK, ThreadTypeOK
    <3> QED BY <1>0, <1>1, <2>1, <3>1 DEF Holding, FuturesStay
  <2>4. CASE ~Claim(t) /\ ~Retire(t)
    <3>1. job' = job /\ phase[t] \notin {"free", "idle"}
      BY <1>3, <2>4 DEF Works, Register, Notice, ToolStopped, Leave, Finish, Tool, ToolReturns, ToolDies,
                        ToolStops
    <3> QED BY <1>0, <1>1, <2>1, <3>1 DEF Holding, FuturesStay
  <2> QED BY <2>2, <2>3, <2>4
<1>4. CASE UNCHANGED vars
  BY <1>4 DEF Holding, vars, agentVars, pool, tasks
<1> QED BY <1>2, <1>3, <1>4 DEF Next

\* The workers take calls from the queues and put none in, and they do not
\* change to another pool.
LEMMA WorkersDrain ==
    ASSUME TypeOK, NEW t \in Thread, Works(t) \/ Tool(t), NEW b \in Batch
    PROVE  Waiting(b)' \subseteq Waiting(b) /\ Workers(b)' \subseteq Workers(b)
<1> USE DEF TypeOK, TaskTypeOK, ThreadTypeOK, Turns, pool, tasks, Waiting, Workers
<1>1. CASE Claim(t)
  <2>1. PICK c \in Call : /\ job' = [job EXCEPT ![t].call = c]
                          /\ future' = [future EXCEPT ![job[t].batch][c] = "running"]
    BY <1>1 DEF Claim
  <2>2. phase[t] # "free" /\ phase' = [phase EXCEPT ![t] = "claimed"]
    BY <1>1 DEF Claim
  <2>3. Waiting(b)' \subseteq Waiting(b)
    BY <2>1
  <2>4. Workers(b)' \subseteq Workers(b)
    BY <2>1, <2>2
  <2> QED BY <2>3, <2>4
<1>2. CASE Retire(t)
  BY <1>2 DEF Retire
<1>3. CASE Finish(t)
  BY <1>3 DEF Finish
<1>4. CASE ~Claim(t) /\ ~Retire(t) /\ ~Finish(t)
  <2>1. future' = future /\ job' = job /\ phase[t] # "free"
    BY <1>4 DEF Works, Register, Notice, ToolStopped, Leave, Tool, ToolReturns, ToolDies, ToolStops
  <2>2. \E to : phase' = [phase EXCEPT ![t] = to]
    BY <1>4 DEF Works, Register, Notice, ToolStopped, Leave, Tool, ToolReturns, ToolDies, ToolStops
  <2> QED BY <2>1, <2>2
<1> QED BY <1>1, <1>2, <1>3, <1>4

LEMMA DrainedStep == TypeOK /\ Begun /\ Fresh /\ Drained /\ [Next]_vars => Drained'
<1> SUFFICES ASSUME TypeOK, Begun, Fresh, Drained, [Next]_vars, NEW b \in 1 .. batch',
                    b < batch' \/ pc' \in {"idle", "report", "recover"}
             PROVE  Waiting(b)' = {} \/ Workers(b)' = {}
  BY DEF Drained
<1>0. batch \in 0 .. MaxBatches /\ batch \in Int /\ b \in Int
  BY SizesAssumption DEF TypeOK, AgentTypeOK
<1>a. batch' \in 0 .. MaxBatches
  BY AgentTyped DEF AgentTypeOK
<1>b. b \in Batch
  BY <1>0, <1>a, SizesAssumption DEF Batch
<1>1. CASE Preflight \/ Plan \/ PlanRaises
  <2>1. batch' = batch + 1 /\ pc = "idle" /\ UNCHANGED <<future, phase, job>>
    BY <1>1 DEF Preflight, Plan, PlanRaises, Begin, tasks, pool
  <2>2. CASE b = batch + 1
    BY <1>0, <1>b, <2>1, <2>2 DEF Fresh, Waiting
  <2>3. CASE b \in 1 .. batch
    BY <2>1, <2>3 DEF Drained, Waiting, Workers
  <2> QED BY <1>0, <2>1, <2>2, <2>3
<1>2. CASE Submit \/ SubmitRaises
  <2>1. batch' = batch /\ pc' \notin {"idle", "report", "recover"} /\ pc = "submit"
    BY <1>2 DEF Submit, SubmitRaises
  <2>2. b \in 1 .. batch /\ b < batch /\ b # batch
    BY <1>0, <2>1
  <2>3. future'[b] = future[b]
    BY <1>2, <1>b, <2>2 DEF Submit, SubmitRaises, TypeOK, TaskTypeOK
  <2>4. Hires
    BY <1>2, AgentHires DEF Steps
  <2>5. Workers(b)' \subseteq Workers(b)
    BY <2>2, <2>4 DEF Hires, Workers, TypeOK, ThreadTypeOK
  <2> QED BY <2>2, <2>3, <2>5 DEF Drained, Waiting
<1>3. CASE Expire \/ GiveUp
  <2>1. batch' = batch /\ pc' \notin {"idle", "report", "recover"} /\ UNCHANGED <<phase, job>>
    BY <1>3 DEF Expire, GiveUp, pool
  <2>2. b \in 1 .. batch /\ b < batch /\ b # batch
    BY <1>0, <2>1
  <2>3. future'[b] = future[b]
    BY <1>3, <1>b, <2>2 DEF Expire, GiveUp, Withdraw, TypeOK, TaskTypeOK
  <2> QED BY <2>1, <2>2, <2>3 DEF Drained, Waiting, Workers
<1>4. CASE Shutdown
  <2>1. batch' = batch /\ UNCHANGED <<phase, job>>
    BY <1>4 DEF Shutdown, pool
  <2>2. CASE b = batch
    <3>1. pc' = "report" /\ Withdraw(batch, Call)
      BY <1>0, <1>4, <2>1, <2>2 DEF Shutdown
    <3> QED BY <1>b, <2>2, <3>1 DEF Withdraw, Waiting, TypeOK, TaskTypeOK
  <2>3. CASE b # batch
    <3>1. future'[b] = future[b]
      BY <1>4, <1>b, <2>3 DEF Shutdown, Withdraw, TypeOK, TaskTypeOK
    <3>2. b < batch
      BY <1>0, <2>1, <2>3
    <3> QED BY <2>1, <3>1, <3>2 DEF Drained, Waiting, Workers
  <2> QED BY <2>2, <2>3
<1>5. CASE Joined
  <2>1. Workers(batch) = {} /\ batch' = batch /\ UNCHANGED <<future, phase, job>>
    BY <1>5 DEF Joined, tasks, pool
  <2>2. b = batch \/ b < batch
    BY <1>0, <2>1
  <2> QED BY <2>1, <2>2 DEF Drained, Waiting, Workers
<1>6. CASE SubmitAtShutdown \/ Poll \/ PollAgain \/ Snapshot \/ Signal \/ GraceEnds \/ Report \/ Reported
        \/ ReportRaises \/ Recover \/ DeadlinePasses \/ User \/ UNCHANGED vars
  <2>1. /\ UNCHANGED <<batch, future, phase, job>>
        /\ pc' \in {"idle", "report", "recover"} => pc \in {"idle", "report", "recover"}
    BY <1>6 DEF SubmitAtShutdown, Poll, PollAgain, Snapshot, Signal, GraceEnds, Report, Reported, ReportRaises, Recover,
                DeadlinePasses, User, Interrupt, InterruptCopies, InterruptSignals, ClearInterrupt,
                vars, agentVars, tasks, pool
  <2> QED BY <2>1 DEF Drained, Waiting, Workers
<1>7. ASSUME NEW t \in Thread, Works(t) \/ Tool(t) PROVE Waiting(b)' = {} \/ Workers(b)' = {}
  <2>1. batch' = batch /\ pc' = pc
    BY <1>7, WorkersKeepAgent DEF agentVars
  <2>2. Waiting(b)' \subseteq Waiting(b) /\ Workers(b)' \subseteq Workers(b)
    BY <1>7, <1>b, WorkersDrain
  <2> QED BY <2>1, <2>2 DEF Drained
<1> QED BY <1>1, <1>2, <1>3, <1>4, <1>5, <1>6, <1>7 DEF Next, Steps

\* So no worker claims a call of a batch that was reported.
LEMMA ClaimsInTime ==
    ASSUME TypeOK, Begun, Fresh, Holding, Drained, NEW t \in Thread, Claim(t)
    PROVE  job[t].batch = batch /\ pc \notin {"idle", "report", "recover"}
<1>1. PICK c \in Call : c \in Waiting(job[t].batch)
  BY DEF Claim, IsFirst
<1>2. job[t].batch \in 1 .. batch /\ t \in Workers(job[t].batch)
  BY DEF Claim, Holding, Workers
<1>3. batch \in Int
  BY SizesAssumption DEF TypeOK, AgentTypeOK
<1> QED BY <1>1, <1>2, <1>3 DEF Drained

LEMMA ClaimedByClaim ==
    ASSUME TypeOK, [Next]_vars, NEW t \in Thread, phase[t] = "idle", phase'[t] = "claimed"
    PROVE  Claim(t)
<1>1. CASE Steps \/ DeadlinePasses \/ User
  BY <1>1, AgentHires DEF Hires, TypeOK, ThreadTypeOK
<1>2. ASSUME NEW u \in Thread, Works(u) \/ Tool(u) PROVE Claim(t)
  <2>1. \A w \in Thread \ {u} : phase'[w] = phase[w]
    BY <1>2 DEF TypeOK, ThreadTypeOK, Turns, Works, Claim, Retire, Register, Notice, ToolStopped, Leave,
                Finish, Tool, ToolReturns, ToolDies, ToolStops
  <2>2. u = t
    BY <2>1
  <2> QED BY <1>2, <2>2 DEF TypeOK, ThreadTypeOK, Turns, Works, Claim, Retire, Register, Notice,
                ToolStopped, Leave, Finish, Tool, ToolReturns, ToolDies, ToolStops
<1>3. CASE UNCHANGED vars
  BY <1>3 DEF vars, pool
<1> QED BY <1>1, <1>2, <1>3 DEF Next

-----------------------------------------------------------------------------
(***************************************************************************)
(* Slots and answers.                                                      *)
(***************************************************************************)
\* What is not submitted no worker touches.
LEMMA WorkersTakeQueued ==
    ASSUME TypeOK, Holding, NEW t \in Thread, Works(t) \/ Tool(t), NEW c \in Call,
           future[batch][c] = "none"
    PROVE  future'[batch][c] = "none"
<1>1. CASE Claim(t)
  BY <1>1 DEF Claim, IsFirst, Waiting, TypeOK, TaskTypeOK
<1>2. CASE Finish(t)
  BY <1>2 DEF Finish, Holding, TypeOK, TaskTypeOK
<1>3. CASE ~Claim(t) /\ ~Finish(t)
  BY <1>3 DEF Works, Retire, Register, Notice, ToolStopped, Leave, Tool, ToolReturns, ToolDies, ToolStops,
              tasks
<1> QED BY <1>1, <1>2, <1>3

LEMMA SlotsStep == TypeOK /\ Begun /\ Fresh /\ Holding /\ SlotsTrue /\ [Next]_vars => SlotsTrue'
<1> SUFFICES ASSUME TypeOK, Begun, Fresh, Holding, SlotsTrue, [Next]_vars PROVE SlotsTrue'
  OBVIOUS
<1>0. batch \in 0 .. MaxBatches /\ batch \in Int /\ (pc # "idle" => batch \in Batch)
  BY SizesAssumption DEF TypeOK, AgentTypeOK, Batch, Begun
<1>1. CASE Preflight \/ PlanRaises
  <2>1. batch' = batch + 1 /\ batch' \in Batch /\ batch' > batch /\ UNCHANGED <<future, result>>
    BY <1>0, <1>1, NextNumber, SizesAssumption DEF Preflight, PlanRaises, Begin, tasks, Batch
  <2>2. \A c \in Call : result'[batch'][c] \notin {"blocked", "not started"}
    BY <2>1, SentinelAssumption DEF Fresh, Result
  <2> QED BY <2>2 DEF SlotsTrue
<1>2. CASE Plan
  <2>1. batch' = batch + 1 /\ batch' \in Batch /\ batch' > batch /\ future' = future
    BY <1>0, <1>2, NextNumber, SizesAssumption DEF Plan, Begin, Batch
  <2>2. \A c \in Call : result'[batch'][c] = IF c \in blocked' THEN "blocked" ELSE None
    BY <1>2, <2>1 DEF Plan, TypeOK, TaskTypeOK
  <2> QED BY <2>1, <2>2, SentinelAssumption DEF SlotsTrue, Fresh, Result
<1>3. CASE Submit \/ SubmitRaises
  <2>1. PICK d \in Call, f \in {"none", "queued"} :
            /\ d \in Unsubmitted /\ future' = [future EXCEPT ![batch][d] = f]
            /\ UNCHANGED <<batch, blocked, result>> /\ pc = "submit"
    BY <1>3 DEF Submit, SubmitRaises, IsFirst
  <2>2. batch \in Batch /\ d \notin blocked /\ \A c \in Call \ {d} : future'[batch][c] = future[batch][c]
    BY <1>0, <2>1 DEF Unsubmitted, TypeOK, TaskTypeOK
  <2>3. result[batch][d] \notin {"blocked", "not started"}
    BY <2>1, <2>2 DEF SlotsTrue
  <2> QED BY <2>1, <2>2, <2>3 DEF SlotsTrue
<1>4. CASE SubmitAtShutdown
  <2>1. batch \in Batch /\ pc' = "wait" /\ UNCHANGED <<batch, blocked, future>>
    BY <1>0, <1>4 DEF SubmitAtShutdown
  <2>2. \A c \in Call : result'[batch][c] = IF c \in Unsubmitted THEN "not started" ELSE result[batch][c]
    BY <1>4, <2>1 DEF SubmitAtShutdown, TypeOK, TaskTypeOK
  <2> QED BY <2>1, <2>2 DEF SlotsTrue, Unsubmitted
<1>5. CASE Expire \/ GiveUp \/ Shutdown
  <2>1. UNCHANGED <<batch, blocked, result>> /\ pc # "idle" /\ pc' # "submit"
    BY <1>5 DEF Expire, GiveUp, Shutdown
  <2>2. \A c \in Call : future[batch][c] = "none" => future'[batch][c] = "none"
    BY <1>0, <1>5, <2>1 DEF Expire, GiveUp, Shutdown, Withdraw, TypeOK, TaskTypeOK
  <2> QED BY <2>1, <2>2 DEF SlotsTrue
<1>6. CASE Poll \/ PollAgain \/ Snapshot \/ Signal \/ GraceEnds \/ Joined \/ Report \/ Reported
        \/ ReportRaises \/ Recover \/ DeadlinePasses \/ User \/ UNCHANGED vars
  <2>1. UNCHANGED <<batch, blocked, future, result>> /\ (pc' = "submit" => pc = "submit")
    BY <1>6 DEF Poll, PollAgain, Snapshot, Signal, GraceEnds, Joined, Report, Reported, ReportRaises, Recover,
                DeadlinePasses, User, Interrupt, InterruptCopies, InterruptSignals, ClearInterrupt,
                vars, agentVars, tasks
  <2> QED BY <2>1 DEF SlotsTrue
<1>7. ASSUME NEW t \in Thread, Works(t) \/ Tool(t) PROVE SlotsTrue'
  <2>1. UNCHANGED <<batch, blocked, pc>>
    BY <1>7, WorkersKeepAgent DEF agentVars
  <2>2. phase[t] # "free" /\ job[t].batch \in Batch
    BY <1>0, <1>7, WorkersAreNotFree, SizesAssumption DEF Holding, Batch
  <2>3. ASSUME batch \in Batch, NEW c \in Call, future[batch][c] = "none" PROVE future'[batch][c] = "none"
    BY <1>7, <2>3, WorkersTakeQueued
  <2>4. ASSUME batch \in Batch, NEW c \in Call
        PROVE  result'[batch][c] = result[batch][c] \/ result'[batch][c] = "returned"
    <3>1. CASE ToolReturns(t) \/ ToolStopped(t)
      BY <2>4, <3>1 DEF ToolReturns, ToolStopped, Fills, TypeOK, TaskTypeOK
    <3>2. CASE ~ToolReturns(t) /\ ~ToolStopped(t)
      BY <1>7, <2>4, <3>2 DEF Works, Claim, Retire, Register, Notice, Leave, Finish, Tool, ToolDies, ToolStops,
                              tasks
    <3> QED BY <3>1, <3>2
  <2> QED BY <2>1, <2>3, <2>4 DEF SlotsTrue
<1> QED BY <1>1, <1>2, <1>3, <1>4, <1>5, <1>6, <1>7 DEF Next, Steps

LEMMA ToldTyped == ASSUME TypeOK, batch \in Batch, NEW c \in Call PROVE Told(c) \in Result \cup MadeUp
BY DEF TypeOK, TaskTypeOK, Told, MadeUp

LEMMA AppendInOrder ==
    ASSUME NEW m \in Seq(Answer), NEW a \in Answer, \A n \in 1 .. Len(m) : m[n].call = n,
           a.call = Len(m) + 1
    PROVE  /\ Append(m, a) \in Seq(Answer)
           /\ Len(Append(m, a)) = Len(m) + 1
           /\ \A n \in 1 .. Len(Append(m, a)) : Append(m, a)[n].call = n
BY AppendProperties, LenProperties

LEMMA AnswersStep == TypeOK /\ Begun /\ AnswersInv /\ [Next]_vars => AnswersInv'
<1> SUFFICES ASSUME TypeOK, Begun, AnswersInv, [Next]_vars PROVE AnswersInv'
  OBVIOUS
<1>0. 1 \in Call /\ 1 \in 1 .. NumCalls + 1 /\ <<>> \in Seq(Answer) /\ Len(<<>>) = 0
  BY SizesAssumption DEF Call
<1>1. CASE Preflight
  <2> DEFINE m == Says([c \in Call |-> "skipped"])
  <2>1. m = [c \in 1 .. NumCalls |-> [call |-> c, says |-> "skipped"]]
    BY DEF Says, Call
  <2>2. m \in Seq(Answer)
    <3>1. m \in [1 .. NumCalls -> Answer]
      <4>1. \A c \in 1 .. NumCalls : [call |-> c, says |-> "skipped"] \in Answer
        BY DEF Answer, Call, MadeUp
      <4> QED BY <2>1, <4>1
    <3> QED BY <3>1, SizesAssumption, SeqDef
  <2>3. Len(m) = NumCalls
    BY <2>1, SizesAssumption
  <2>4. \A n \in 1 .. NumCalls : m[n].call = n
    BY <2>1
  <2>5. messages' = m /\ at' = 1 /\ pc' = "idle"
    BY <1>1 DEF Preflight, Begin
  <2> QED BY <1>0, <2>2, <2>3, <2>4, <2>5 DEF AnswersInv, AnswerTypeOK, InOrder, Progress
<1>2. CASE Plan \/ PlanRaises
  <2>1. messages' = <<>> /\ at' = 1 /\ pc' \in {"report", "submit", "recover"}
    BY <1>2 DEF Plan, PlanRaises, Begin
  <2> QED BY <1>0, <2>1, SizesAssumption DEF AnswersInv, AnswerTypeOK, InOrder, Progress
<1>3. CASE Submit \/ SubmitAtShutdown \/ SubmitRaises \/ Poll \/ PollAgain \/ Expire \/ Snapshot
        \/ Signal \/ GiveUp \/ GraceEnds \/ DeadlinePasses
  <2>1. UNCHANGED told /\ pc \notin {"idle", "report", "recover"} /\ pc' \notin {"idle", "report", "recover"}
    BY <1>3 DEF Submit, SubmitAtShutdown, SubmitRaises, Poll, PollAgain, Expire, Snapshot, Signal,
                GiveUp, GraceEnds, DeadlinePasses
  <2> QED BY <2>1 DEF told, AnswersInv, AnswerTypeOK, InOrder, Progress
<1>4. CASE Shutdown \/ Joined
  <2>1. UNCHANGED told /\ pc \notin {"idle", "report", "recover"} /\ pc' \in {"join", "report", "recover"}
    BY <1>4 DEF Shutdown, Joined
  <2> QED BY <1>0, <2>1, SizesAssumption DEF told, AnswersInv, AnswerTypeOK, InOrder, Progress
<1>5. CASE Report
  <2> DEFINE a == [call |-> at, says |-> Told(at)]
  <2>1. batch \in Batch /\ at \in Call /\ Len(messages) + 1 = at
    <3>1. at \in 1 .. NumCalls + 1 /\ at <= NumCalls /\ Len(messages) = at - 1 /\ pc # "idle"
      BY <1>5 DEF Report, AnswersInv, AnswerTypeOK, Progress
    <3>2. batch \in 0 .. MaxBatches /\ batch >= 1
      BY <3>1 DEF Begun, TypeOK, AgentTypeOK
    <3> QED BY <3>1, <3>2, SizesAssumption DEF Batch, Call
  <2>2. a \in Answer /\ a.call = Len(messages) + 1
    BY <2>1, ToldTyped DEF Answer
  <2>3. messages' = Append(messages, a) /\ at' = at + 1 /\ pc' = "report"
    BY <1>5 DEF Report
  <2>4. messages' \in Seq(Answer) /\ Len(messages') = at /\ InOrder'
    BY <2>1, <2>2, <2>3, AppendInOrder DEF AnswersInv, AnswerTypeOK, InOrder
  <2> HIDE DEF a
  <2>5. AnswerTypeOK' /\ Progress'
    BY <2>1, <2>3, <2>4, SizesAssumption DEF AnswersInv, AnswerTypeOK, Progress, Call
  <2> QED BY <2>4, <2>5 DEF AnswersInv
<1>6. CASE ReportRaises
  <2>1. UNCHANGED messages /\ at' = 1 /\ pc = "report" /\ pc' = "recover"
    BY <1>6 DEF ReportRaises
  <2> QED BY <1>0, <2>1, SizesAssumption, LenProperties DEF AnswersInv, AnswerTypeOK, InOrder, Progress, Call
<1>7. CASE Recover
  <2> DEFINE a == [call |-> at, says |-> "loop error"]
  <2>1. at \in Call /\ at - 1 <= Len(messages) /\ Len(messages) <= NumCalls /\ Len(messages) \in Nat
    BY <1>7, LenProperties DEF Recover, AnswersInv, Progress, AnswerTypeOK
  <2>2. a \in Answer /\ a.call = at
    BY <2>1 DEF Answer, MadeUp
  <2>3. at' = at + 1 /\ pc' = IF at = NumCalls THEN "idle" ELSE "recover"
    BY <1>7 DEF Recover
  <2>4. Answered(at) <=> at <= Len(messages)
    BY <2>1, LenProperties DEF Answered, AnswersInv, AnswerTypeOK, InOrder, Call
  <2>5. messages' \in Seq(Answer) /\ InOrder' /\ Len(messages') \in Nat
        /\ at <= Len(messages') /\ Len(messages') <= NumCalls
    <3>1. CASE Answered(at)
      BY <1>7, <2>1, <2>4, <3>1 DEF Recover, AnswersInv, AnswerTypeOK, InOrder
    <3>2. CASE ~Answered(at)
      <4>1. messages' = Append(messages, a) /\ a.call = Len(messages) + 1
        <5>1. messages' = Append(messages, a)
          BY <1>7, <3>2 DEF Recover
        <5>2. at = Len(messages) + 1
          BY <2>1, <2>4, <3>2, SizesAssumption DEF Call
        <5> QED BY <2>2, <5>1, <5>2
      <4>2. messages' \in Seq(Answer) /\ Len(messages') = Len(messages) + 1 /\ InOrder'
        BY <2>2, <4>1, AppendInOrder DEF AnswersInv, AnswerTypeOK, InOrder
      <4> HIDE DEF a
      <4> QED BY <2>1, <2>4, <3>2, <4>2, SizesAssumption DEF Call
    <3> QED BY <3>1, <3>2
  <2> HIDE DEF a
  <2> QED BY <2>1, <2>3, <2>5, SizesAssumption DEF AnswersInv, AnswerTypeOK, Progress, Call
<1>8. ASSUME NEW t \in Thread, Works(t) \/ Tool(t) PROVE UNCHANGED agentVars
  BY <1>8, WorkersKeepAgent
<1>9. CASE User
  BY <1>9 DEF AnswersInv, AnswerTypeOK, InOrder, Progress, agentVars,
              User, Interrupt, InterruptCopies, InterruptSignals, ClearInterrupt
<1>10. CASE UNCHANGED agentVars
  BY <1>10 DEF AnswersInv, AnswerTypeOK, InOrder, Progress, agentVars
<1>11. CASE Reported
  <2>1. UNCHANGED told /\ pc = "report" /\ at = NumCalls + 1 /\ pc' = "idle"
    BY <1>11 DEF Reported
  <2> QED BY <2>1, SizesAssumption DEF told, AnswersInv, AnswerTypeOK, InOrder, Progress
<1> QED BY <1>1, <1>2, <1>3, <1>4, <1>5, <1>6, <1>7, <1>8, <1>9, <1>10, <1>11 DEF Next, Steps, vars

LEMMA AppendAddsOne ==
    ASSUME NEW m \in Seq(Answer), NEW a \in Answer
    PROVE  \A n \in DOMAIN Append(m, a) :
                Append(m, a)[n] = a \/ (n \in DOMAIN m /\ Append(m, a)[n] = m[n])
<1> DEFINE k == Append(m, a)
<1>1. k \in Seq(Answer) /\ Len(k) = Len(m) + 1 /\ k[Len(m) + 1] = a
  BY AppendProperties
<1>2. \A n \in 1 .. Len(m) : k[n] = m[n]
  BY AppendProperties
<1>3. DOMAIN k = 1 .. Len(k) /\ DOMAIN m = 1 .. Len(m) /\ Len(m) \in Nat
  BY <1>1, LenProperties
<1> HIDE DEF k
<1>4. \A n \in 1 .. Len(m) + 1 : n = Len(m) + 1 \/ n \in 1 .. Len(m)
  BY <1>3
<1>5. DOMAIN k = 1 .. Len(m) + 1
  BY <1>1, <1>3
<1>6. \A n \in DOMAIN k : k[n] = a \/ (n \in DOMAIN m /\ k[n] = m[n])
  BY <1>1, <1>2, <1>3, <1>4, <1>5
<1> QED BY <1>6 DEF k

LEMMA NothingSaid == messages' = <<>> => DeclinedNeverRan'
<1>1. DOMAIN <<>> = {}
  BY LenProperties
<1> QED BY <1>1 DEF DeclinedNeverRan

LEMMA DeclinedStep ==
    TypeOK /\ Begun /\ Holding /\ AnswersInv /\ SlotsTrue /\ DeclinedNeverRan /\ [Next]_vars => DeclinedNeverRan'
<1> SUFFICES ASSUME TypeOK, Begun, Holding, AnswersInv, SlotsTrue, DeclinedNeverRan, [Next]_vars
             PROVE  DeclinedNeverRan'
  OBVIOUS
<1> DEFINE R == {"blocked", "not started"}
<1>0. /\ pc # "idle" => batch \in Batch
      /\ messages \in Seq(Answer) /\ DOMAIN messages = 1 .. Len(messages)
  BY SizesAssumption, LenProperties DEF TypeOK, AgentTypeOK, Batch, Begun, AnswersInv, AnswerTypeOK
<1>1. CASE Preflight
  BY <1>1 DEF Preflight, Says, DeclinedNeverRan
<1>2. CASE Plan \/ PlanRaises
  <2>1. messages' = <<>>
    BY <1>2 DEF Plan, PlanRaises
  <2> QED BY <2>1, NothingSaid
<1>3. CASE Submit \/ SubmitAtShutdown \/ SubmitRaises \/ Poll \/ PollAgain \/ Expire \/ Snapshot
        \/ Signal \/ GiveUp \/ GraceEnds \/ Shutdown \/ Joined \/ DeadlinePasses
  <2>1. UNCHANGED messages /\ pc \notin {"idle", "report", "recover"}
    BY <1>3 DEF told, Submit, SubmitAtShutdown, SubmitRaises, Poll, PollAgain, Expire, Snapshot, Signal,
                GiveUp, GraceEnds, Shutdown, Joined, DeadlinePasses
  <2>2. messages' = <<>>
    BY <2>1 DEF AnswersInv, Progress
  <2> QED BY <2>2, NothingSaid
<1>4. ASSUME NEW a \in Answer, messages' = Append(messages, a), a.says \in R => future[batch][a.call] = "none",
             UNCHANGED <<batch, future>>
      PROVE  DeclinedNeverRan'
  <2>1. \A n \in DOMAIN messages' :
            messages'[n] = a \/ (n \in DOMAIN messages /\ messages'[n] = messages[n])
    BY <1>0, <1>4, AppendAddsOne
  <2>2. \A n \in DOMAIN messages' :
            messages'[n].says \in R => future[batch][messages'[n].call] = "none"
    BY <1>4, <2>1 DEF DeclinedNeverRan
  <2> QED BY <1>4, <2>2 DEF DeclinedNeverRan
<1>5. CASE Report
  <2> DEFINE a == [call |-> at, says |-> Told(at)]
  <2>1. /\ messages' = Append(messages, a) /\ UNCHANGED <<batch, future>>
        /\ batch \in Batch /\ at \in Call
    BY <1>0, <1>5, SizesAssumption DEF Report, tasks, AnswersInv, AnswerTypeOK, Call
  <2>2. Told(at) \in R => result[batch][at] = Told(at)
    BY DEF Told
  <2>3. a.says \in R => future[batch][a.call] = "none"
    BY <2>1, <2>2 DEF SlotsTrue
  <2>4. a \in Answer
    BY <2>1, ToldTyped DEF Answer
  <2> QED BY <1>4, <2>1, <2>3, <2>4
<1>6. CASE Recover
  <2>1. UNCHANGED <<batch, future>>
    BY <1>6 DEF Recover, tasks
  <2>2. CASE messages' = messages
    BY <2>1, <2>2 DEF DeclinedNeverRan
  <2>3. CASE messages' = Append(messages, [call |-> at, says |-> "loop error"])
    <3>1. [call |-> at, says |-> "loop error"] \in Answer
      BY <1>6 DEF Recover, AnswersInv, Progress, Answer, MadeUp
    <3> QED BY <1>4, <2>1, <2>3, <3>1
  <2> QED BY <1>6, <2>2, <2>3 DEF Recover
<1>7. CASE Reported \/ ReportRaises \/ User \/ UNCHANGED vars
  BY <1>7 DEF DeclinedNeverRan, Reported, told, ReportRaises, User, Interrupt, InterruptCopies, InterruptSignals,
              ClearInterrupt, vars, agentVars, tasks
<1>8. ASSUME NEW t \in Thread, Works(t) \/ Tool(t) PROVE DeclinedNeverRan'
  <2>1. UNCHANGED <<messages, batch, pc>>
    BY <1>8, WorkersKeepAgent DEF agentVars
  <2>2. ASSUME NEW c \in Call, future[batch][c] = "none" PROVE future'[batch][c] = "none"
    BY <1>8, <2>2, WorkersTakeQueued
  <2>3. \A n \in DOMAIN messages : messages[n].call \in Call
    <3>1. \A n \in 1 .. Len(messages) : messages[n] \in Answer
      BY <1>0, ElementOfSeq
    <3> QED BY <1>0, <3>1 DEF Answer
  <2> QED BY <2>1, <2>2, <2>3 DEF DeclinedNeverRan
<1> QED BY <1>1, <1>2, <1>3, <1>5, <1>6, <1>7, <1>8 DEF Next, Steps

-----------------------------------------------------------------------------
(***************************************************************************)
(* Interrupts.                                                             *)
(***************************************************************************)
Phases == {"free", "idle", "claimed", "registered", "running", "stopping", "returned", "left"}

LEMMA ReachedStep == TypeOK /\ Reached /\ [Next]_vars => Reached'
<1> SUFFICES ASSUME phase \in [Thread -> Phases], Reached, [Next]_vars PROVE Reached'
  BY DEF TypeOK, ThreadTypeOK, Phases
<1> USE DEF Phases, Reached
<1>1. CASE Steps \/ DeadlinePasses
  <2>1. AgentFrame
    BY <1>1, AgentFramed
  <2>2. CASE UNCHANGED phase
    BY <2>1, <2>2 DEF AgentFrame
  <2>3. ASSUME NEW t \in Thread, phase' = [phase EXCEPT ![t] = "idle"] PROVE Reached'
    BY <2>1, <2>3 DEF AgentFrame
  <2> QED BY <2>1, <2>2, <2>3 DEF AgentFrame
<1>2. ASSUME NEW t \in Thread, Works(t) PROVE Reached'
  <2> USE DEF Turns, userVars
  <2>1. CASE Claim(t)
    BY <2>1 DEF Claim
  <2>2. CASE Retire(t)
    BY <2>2 DEF Retire
  <2>3. CASE Register(t)
    BY <2>3 DEF Register
  <2>4. CASE Notice(t)
    BY <2>4 DEF Notice
  <2>5. CASE ToolStopped(t)
    BY <2>5 DEF ToolStopped
  <2>6. CASE Leave(t)
    BY <2>6 DEF Leave
  <2>7. CASE Finish(t)
    BY <2>7 DEF Finish
  <2> QED BY <1>2, <2>1, <2>2, <2>3, <2>4, <2>5, <2>6, <2>7 DEF Works
<1>3. ASSUME NEW t \in Thread, Tool(t) PROVE Reached'
  <2> USE DEF Turns, userVars
  <2>1. CASE ToolReturns(t)
    BY <2>1 DEF ToolReturns
  <2>2. CASE ToolDies(t)
    BY <2>2 DEF ToolDies
  <2>3. CASE ToolStops(t)
    BY <2>3 DEF ToolStops
  <2> QED BY <1>3, <2>1, <2>2, <2>3 DEF Tool
<1>4. CASE User
  <2> USE DEF pool
  <2>1. CASE Interrupt
    BY <2>1 DEF Interrupt
  <2>2. CASE InterruptCopies
    BY <2>2 DEF InterruptCopies
  <2>3. CASE InterruptSignals
    BY <2>3 DEF InterruptSignals
  <2>4. CASE ClearInterrupt
    BY <2>4 DEF ClearInterrupt
  <2> QED BY <1>4, <2>1, <2>2, <2>3, <2>4 DEF User
<1>5. CASE UNCHANGED vars
  BY <1>5 DEF vars, pool, userVars
<1> QED BY <1>1, <1>2, <1>3, <1>4, <1>5 DEF Next

-----------------------------------------------------------------------------
(***************************************************************************)
(* The theorems.                                                           *)
(***************************************************************************)
LEMMA InitTyped == Init => TypeOK
<1> SUFFICES ASSUME Init PROVE TypeOK
  OBVIOUS
<1>1. 0 \in 0 .. MaxBatches /\ 0 \in 0 .. NumCalls /\ 0 \in 0 .. MaxInterrupts /\ 1 \in 1 .. NumCalls + 1
  BY SizesAssumption
<1>2. AgentTypeOK
  BY <1>1 DEF Init, AgentTypeOK
<1>3. AnswerTypeOK
  BY <1>1 DEF Init, AnswerTypeOK
<1>4. TaskTypeOK
  BY DEF Init, TaskTypeOK
<1>5. ThreadTypeOK
  BY <1>1 DEF Init, ThreadTypeOK
<1> QED BY <1>2, <1>3, <1>4, <1>5 DEF TypeOK

LEMMA InitIInv == Init => IInv
<1> SUFFICES ASSUME Init PROVE IInv
  OBVIOUS
<1>1. TypeOK
  BY InitTyped
<1>2. Begun /\ Fresh /\ Holding /\ Reached
  BY DEF Init, Begun, Fresh, Holding, Reached
<1>3. AnswersInv
  BY <1>1 DEF Init, TypeOK, AnswersInv, InOrder, Progress
<1>4. SlotsTrue
  BY SizesAssumption DEF Init, SlotsTrue, Batch
<1>5. DeclinedNeverRan
  <2>1. DOMAIN <<>> = {}
    BY LenProperties
  <2> QED BY <2>1 DEF Init, DeclinedNeverRan
<1>6. Drained
  BY SizesAssumption DEF Init, Drained
<1> QED BY <1>1, <1>2, <1>3, <1>4, <1>5, <1>6 DEF IInv

LEMMA StepIInv == IInv /\ [Next]_vars => IInv'
<1> SUFFICES ASSUME IInv, [Next]_vars PROVE IInv'
  OBVIOUS
<1>1. TypeOK /\ Begun /\ Fresh /\ Holding /\ AnswersInv /\ SlotsTrue /\ DeclinedNeverRan /\ Reached /\ Drained
  BY DEF IInv
<1>2. AnswersInv'
  BY <1>1, AnswersStep
<1>3. TypeOK'
  BY <1>1, <1>2, AgentTyped, TasksTyped, ThreadsTyped DEF TypeOK, AnswersInv
<1>4. Begun' /\ Fresh' /\ Holding'
  BY <1>1, BegunStep, FreshStep, HoldingStep
<1>5. SlotsTrue' /\ DeclinedNeverRan'
  BY <1>1, SlotsStep, DeclinedStep
<1>6. Reached' /\ Drained'
  BY <1>1, ReachedStep, DrainedStep
<1> QED BY <1>2, <1>3, <1>4, <1>5, <1>6 DEF IInv

\* The invariant is inductive: execute_tool_calls_concurrent, its workers and
\* the interrupts keep every part of it, in every order of their steps.
THEOREM BatchInductive == Spec => []IInv
BY InitIInv, StepIInv, PTL DEF Spec

\* Every variable of a batch stays within its type.
THEOREM TypeCorrect == Spec => []TypeOK
<1>1. IInv => TypeOK
  BY DEF IInv
<1> QED BY <1>1, BatchInductive, PTL

\* Whatever ends a batch, the transcript that goes to the provider answers
\* each call of the assistant's message once, in order.
THEOREM AnsweredOnce == Spec => []EveryCallAnsweredOnce
<1>1. IInv => EveryCallAnsweredOnce
  BY DEF IInv, AnswersInv, InOrder, Progress, EveryCallAnsweredOnce, Call
<1> QED BY <1>1, BatchInductive, PTL

\* A call the model is told was blocked or not started has not run and does
\* not run, not even in a worker that outlives the batch's report.
THEOREM NeverRan == Spec => []DeclinedNeverRan
<1>1. IInv => DeclinedNeverRan
  BY DEF IInv
<1> QED BY <1>1, BatchInductive, PTL

\* A worker that registers while an interrupt fans out, before it or after it,
\* enters its tool with the bit set or gets it.
THEOREM InterruptArrives == Spec => []InterruptReachesTools
<1>1. IInv => InterruptReachesTools
  BY DEF IInv, Reached, InterruptReachesTools
<1> QED BY <1>1, BatchInductive, PTL

\* No worker of an abandoned pool starts a call after the batch was reported.
THEOREM NoLateClaim == Spec => NothingClaimedAfterReport
<1>1. IInv /\ [Next]_vars =>
        [\A t \in Thread : phase[t] = "idle" /\ phase'[t] = "claimed" =>
            job[t].batch = batch /\ pc \notin {"idle", "report", "recover"}]_vars
  <2> SUFFICES ASSUME IInv, [Next]_vars, NEW t \in Thread, phase[t] = "idle", phase'[t] = "claimed"
               PROVE  job[t].batch = batch /\ pc \notin {"idle", "report", "recover"}
    OBVIOUS
  <2>1. Claim(t)
    BY ClaimedByClaim DEF IInv
  <2> QED BY <2>1, ClaimsInTime DEF IInv
<1> QED BY <1>1, BatchInductive, PTL DEF Spec, NothingClaimedAfterReport

\* A result that is in its slot when its call is reported is what is told,
\* although the deadline or the interrupt came first.
THEOREM ReportsFinishedWork == Spec => FinishedWorkIsReported
<1>1. IInv /\ Report => LET m == messages'[Len(messages')] IN
                            m.says \in MadeUp => result[batch][m.call] = None
  <2> SUFFICES ASSUME IInv, Report PROVE LET m == messages'[Len(messages')] IN
                            m.says \in MadeUp => result[batch][m.call] = None
    OBVIOUS
  <2> DEFINE a == [call |-> at, says |-> Told(at)]
  <2>1. /\ messages \in Seq(Answer) /\ at \in Call /\ batch \in Batch
        /\ result \in [Batch -> [Call -> Result \cup {None}]]
    <3>1. at \in 1 .. NumCalls + 1 /\ at <= NumCalls /\ pc # "idle"
      BY DEF Report, IInv, AnswersInv, AnswerTypeOK
    <3>2. batch \in 0 .. MaxBatches /\ batch >= 1
      BY <3>1 DEF IInv, Begun, TypeOK, AgentTypeOK
    <3>3. at \in Call /\ batch \in Batch
      BY <3>1, <3>2, SizesAssumption DEF Call, Batch
    <3> QED BY <3>3 DEF IInv, AnswersInv, AnswerTypeOK, TypeOK, TaskTypeOK
  <2>2. a \in Answer
    BY <2>1, ToldTyped DEF Answer, IInv
  <2>3. messages' = Append(messages, a)
    BY DEF Report
  <2> HIDE DEF a
  <2>4. messages'[Len(messages')] = a
    BY <2>1, <2>2, <2>3, AppendProperties
  <2>5. Told(at) \in MadeUp => result[batch][at] = None
    BY <2>1 DEF Told, Result, MadeUp
  <2> QED BY <2>4, <2>5 DEF a
<1> QED BY <1>1, BatchInductive, PTL DEF Spec, FinishedWorkIsReported

\* The transcript is complete and truthful for every number of calls and workers.
THEOREM AnswersAreTruthful == Spec => []AnswersTruthful
BY TypeCorrect, AnsweredOnce, NeverRan, PTL DEF AnswersTruthful

\* The report is never overtaken by what the workers do.
THEOREM ReportStands == Spec => ReportIsFinal
BY ReportsFinishedWork, NoLateClaim DEF ReportIsFinal
=============================================================================
