------------------------------ MODULE TurnLoop ------------------------------
(***************************************************************************)
(* agent/conversation_loop.py, run_conversation: the loop of one turn.     *)
(* Every iteration asks the model once (module ModelCall is what happens   *)
(* inside that step) and does what the response calls for: run its tools,  *)
(* ask it to go on, nudge it, or take the answer.  The model answers as it *)
(* likes.  AIAgent (run_agent.py), finalize_turn and the tools are not in  *)
(* the repository or have modules of their own; they are external here.    *)
(***************************************************************************)
EXTENDS Integers, Sequences, SequencesExt

CONSTANTS
    MaxIterations, \* agent.max_iterations, also the iteration budget
    Limit,         \* how often each recovery is repeated, see Recovery
    NumCalls,      \* tool calls in an assistant message
    MaxSteers,     \* bound: what the user says to the running turn
    HasFallback    \* a fallback provider is left when the model stays empty

Recovery == {"scratchpad", "incomplete", "names", "json", "length", "empty",
             "prefill", "ack", "verify", "restart"}

ASSUME LimitsAssumption ==
    /\ MaxIterations \in Nat \ {0} /\ NumCalls \in Nat \ {0} /\ MaxSteers \in Nat \ {0}
    /\ Limit \in [Recovery -> Nat] /\ HasFallback \in BOOLEAN

\* The messages of the turn.  An assistant's message with tool calls is a
\* "chore" when it also says something and calls housekeeping tools only,
\* "narrated" when it says something and works, else "calls".  "check" asks
\* for a verification.  The scaffolding is marked with "_empty_recovery_synthetic",
\* "_thinking_prefill" and "_empty_terminal_sentinel".
Scaffold == {"nudged", "nudge", "prefill", "sentinel"}
Calls == {"calls", "chore", "narrated"}
Assistant == {"text", "nudged", "prefill", "sentinel"} \cup Calls
Message == {"user", "text", "tool", "check"} \cup Calls \cup Scaffold

VARIABLES
    pc,        \* where the loop is
    messages,  \* the messages of the turn, the user's first
    count,     \* api_call_count
    used,      \* iteration_budget.used
    grace,     \* agent._budget_grace_call
    tries,     \* the retry counters
    nudged,    \* agent._post_tool_empty_retried
    remark,    \* _last_content_with_tools of a turn of housekeeping tools
    parts,     \* truncated_response_parts is not empty
    fallback,  \* a fallback provider can still be activated
    said,      \* how many steers the user has given, the last turn's leftover first
    slot,      \* those in agent._pending_steer
    drained,   \* ... in _pre_api_steer, between the drain and what becomes of it
    told,      \* ... in a tool result the model will read
    lost,      \* ... in none, though no longer in the slot either
    interrupt, \* agent._interrupt_requested
    exit       \* _turn_exit_reason, or the kind of an early return

counters == <<count, used, grace, tries>>
flags == <<nudged, remark, parts, fallback>>
user == <<said, slot, drained, told, lost, interrupt>>
vars == <<pc, messages, counters, flags, user, exit>>

Answered == {"text", "stream", "remark", "empty", "halted"}
Exits == {"none", "max_iterations", "interrupted", "failed", "partial", "apology"} \cup Answered

LoopTypeOK ==
    /\ pc \in {"idle", "top", "steer", "respond", "tools", "done"}
    /\ messages \in Seq(Message)
    /\ count \in 0 .. MaxIterations + 1 /\ used \in 0 .. MaxIterations
    /\ \A r \in Recovery : tries[r] \in 0 .. Limit[r] + 1
    /\ {grace, nudged, remark, parts, fallback, interrupt} \subseteq BOOLEAN
    /\ exit \in Exits

TypeOK ==
    LoopTypeOK /\ said \in 0 .. MaxSteers /\ {slot, drained, told, lost} \subseteq SUBSET (1 .. MaxSteers)

Init ==
    /\ pc = "idle" /\ messages = <<>> /\ count = 0 /\ used = 0
    /\ grace \in BOOLEAN /\ tries = [r \in Recovery |-> 0]
    /\ nudged = FALSE /\ remark = FALSE /\ parts = FALSE /\ fallback = HasFallback
    /\ said \in {0, 1} /\ slot = 1 .. said /\ drained = {} /\ told = {} /\ lost = {}
    /\ interrupt = FALSE /\ exit = "none"

-----------------------------------------------------------------------------
Says(list) == messages' = messages \o list
Tally(r) == tries' = [tries EXCEPT ![r] = @ + 1]
Cleared(rs) == [r \in Recovery |-> IF r \in rs THEN 0 ELSE tries[r]]
GoOn == pc' = "top" /\ UNCHANGED exit
Leave(why) == pc' = "done" /\ exit' = why

\* The list without what stands at its end for the next request only.
Bare(list, kinds) == SubSeq(list, 1, SelectLastInSeq(list, LAMBDA m : m \notin kinds))

\* How many tool messages follow the last message with tool calls.
LastRound == SelectLastInSeq(messages, LAMBDA m : m \in Calls)
Unanswered == LastRound + NumCalls - Len(messages)

Answers(n) == [i \in 1 .. n |-> "tool"]

-----------------------------------------------------------------------------
\* build_turn_context: the counters start at zero, the user's message is appended.
StartTurn ==
    /\ pc = "idle"
    /\ pc' = "top" /\ Says(<<"user">>)
    /\ UNCHANGED <<counters, flags, user, exit>>

MayIterate == grace \/ (count < MaxIterations /\ used < MaxIterations)

StopAtTop ==
    /\ pc = "top" /\ interrupt
    /\ MayIterate
    /\ Leave("interrupted")
    /\ UNCHANGED <<messages, counters, flags, user>>

IterationsOver ==
    /\ pc = "top"
    /\ ~MayIterate
    /\ Leave("max_iterations")
    /\ UNCHANGED <<messages, counters, flags, user>>

\* A grace call is free.  The slot of the steers is drained.
Iterate ==
    /\ pc = "top" /\ ~interrupt
    /\ MayIterate
    /\ count' = count + 1 /\ grace' = FALSE
    /\ used' = IF grace THEN used ELSE used + 1
    /\ drained' = slot /\ slot' = {}
    /\ pc' = IF slot = {} THEN "respond" ELSE "steer"
    /\ UNCHANGED <<messages, tries, flags, said, told, lost, interrupt, exit>>

\* They go to the last tool result; if that is content nothing can be appended
\* to, they count as injected all the same.
Inject ==
    /\ pc = "steer" /\ Contains(messages, "tool")
    /\ \/ told' = told \cup drained /\ UNCHANGED lost
       \/ lost' = lost \cup drained /\ UNCHANGED told
    /\ drained' = {} /\ pc' = "respond"
    /\ UNCHANGED <<messages, counters, flags, said, slot, interrupt, exit>>

\* Mutant: what the user said in the meantime is overwritten.
PutBackOver ==
    /\ pc = "steer" /\ ~Contains(messages, "tool")
    /\ slot' = drained /\ drained' = {} /\ pc' = "respond"
    /\ UNCHANGED <<messages, counters, flags, said, told, lost, interrupt, exit>>

\* Without a tool result they are put back, to what the user said meanwhile.
PutBack ==
    /\ pc = "steer" /\ ~Contains(messages, "tool")
    /\ slot' = slot \cup drained /\ drained' = {} /\ pc' = "respond"
    /\ UNCHANGED <<messages, counters, flags, said, told, lost, interrupt, exit>>

\* Give an iteration back; below zero there is nothing to give back.
Refund == used' = IF used > 0 THEN used - 1 ELSE 0

\* Mutant: the restarts are not counted.

RestartUncounted ==
    /\ pc = "respond" /\ count' = count - 1 /\ Refund
    /\ GoOn
    /\ UNCHANGED <<messages, tries, grace, flags, user>>

\* Compressed before the request, or because of its failure: the iteration
\* does not count.
Restart ==
    /\ pc = "respond" /\ tries["restart"] < Limit["restart"]
    /\ \/ tries' = [Cleared({"empty", "prefill"}) EXCEPT !["restart"] = @ + 1] /\ remark' = FALSE
       \/ Tally("restart") /\ UNCHANGED remark
    /\ count' = count - 1 /\ Refund
    /\ GoOn
    /\ UNCHANGED <<messages, grace, nudged, parts, fallback, user>>

\* The filter cut the stream: roll the partial answer back, start over elsewhere.
RestartRebuilt ==
    /\ pc = "respond" /\ fallback
    /\ fallback' = FALSE /\ parts' = FALSE
    /\ messages' = IF parts
                      THEN SubSeq(messages, 1, SelectLastInSeq(messages, LAMBDA m : m \in Assistant) - 1)
                      ELSE messages
    /\ tries' = Cleared({"length"})
    /\ count' = count - 1 /\ Refund
    /\ GoOn
    /\ UNCHANGED <<grace, nudged, remark, user>>

\* The call ends the turn by an early return.
CallFails ==
    /\ pc = "respond"
    /\ Leave("failed")
    /\ UNCHANGED <<messages, counters, flags, user>>

\* The runtime's context is too small: the loop answers itself, and the
\* iteration does not count.
ContextTooSmall ==
    /\ pc = "respond"
    /\ Says(<<"text">>) /\ Leave("failed")
    /\ count' = count - 1 /\ Refund
    /\ UNCHANGED <<grace, tries, flags, user>>

CallInterrupted ==
    /\ pc = "respond" /\ interrupt
    /\ Says(<<>>) \/ Says(<<"text">>)
    /\ Leave("interrupted")
    /\ UNCHANGED <<counters, flags, user>>

\* A text that was cut off: keep it and ask for the rest.
CutText ==
    /\ pc = "respond"
    /\ parts' = TRUE /\ Tally("length")
    /\ IF tries["length"] < Limit["length"]
          THEN Says(<<"text", "user">>) /\ GoOn
          ELSE Says(<<"text">>) /\ Leave("partial")
    /\ UNCHANGED <<count, used, grace, nudged, remark, fallback, user>>

\* An unfinished scratchpad is asked for again, and then given up.
Scratchpad ==
    /\ pc = "respond"
    /\ IF tries["scratchpad"] < Limit["scratchpad"]
          THEN Tally("scratchpad") /\ GoOn
          ELSE tries' = Cleared({"scratchpad"}) /\ Leave("partial")
    /\ UNCHANGED <<messages, count, used, grace, flags, user>>

\* An incomplete response is kept, unless it repeats the last one.
Incomplete ==
    /\ pc = "respond"
    /\ Says(<<"text">>) \/ (Last(messages) = "text" /\ UNCHANGED messages)
    /\ IF tries["incomplete"] < Limit["incomplete"]
          THEN tries' = [Cleared({"scratchpad"}) EXCEPT !["incomplete"] = @ + 1] /\ GoOn
          ELSE tries' = Cleared({"scratchpad", "incomplete"}) /\ Leave("partial")
    /\ UNCHANGED <<count, used, grace, flags, user>>

-----------------------------------------------------------------------------
(* A response with tool calls.                                             *)

\* Names of no tool: every call is answered with an error.
BadNames ==
    /\ pc = "respond"
    /\ IF tries["names"] < Limit["names"]
          THEN /\ Says(<<"calls">> \o Answers(NumCalls)) /\ GoOn
               /\ tries' = [Cleared({"scratchpad", "incomplete"}) EXCEPT !["names"] = @ + 1]
          ELSE /\ tries' = Cleared({"scratchpad", "incomplete", "names"})
               /\ UNCHANGED messages /\ Leave("partial")
    /\ UNCHANGED <<count, used, grace, flags, user>>

Parsed == {"scratchpad", "incomplete", "names"}

\* Arguments that are no JSON: ask again, then tell the model.
BadArguments ==
    /\ pc = "respond"
    /\ IF tries["json"] < Limit["json"]
          THEN UNCHANGED messages /\ tries' = [Cleared(Parsed) EXCEPT !["json"] = @ + 1]
          ELSE Says(<<"calls">> \o Answers(NumCalls)) /\ tries' = Cleared(Parsed \cup {"json"})
    /\ GoOn
    /\ UNCHANGED <<count, used, grace, flags, user>>

\* Arguments that were cut off are not executed.
CutArguments ==
    /\ pc = "respond"
    /\ tries' = Cleared(Parsed \cup {"json"})
    /\ Leave("partial")
    /\ UNCHANGED <<messages, count, used, grace, flags, user>>

\* The assistant's message is appended and saved before its tools run.
RunTools(kind) ==
    /\ pc = "respond"
    /\ remark' = IF kind = "calls" THEN remark ELSE kind = "chore"
    /\ nudged' = FALSE
    /\ messages' = Append(Bare(messages, {"prefill"}), kind)
    /\ tries' = IF Last(messages) = "prefill"
                   THEN Cleared(Parsed \cup {"json", "prefill", "empty"})
                   ELSE Cleared(Parsed \cup {"json"})
    /\ pc' = "tools"
    /\ UNCHANGED <<count, used, grace, parts, fallback, user, exit>>

\* The executor appends the steers of the slot to each result it has, ...
Appends(steers, cut) ==
    /\ told' = told \cup (steers \ cut) /\ lost' = lost \cup cut /\ slot' = slot \ steers
    /\ UNCHANGED <<said, drained, interrupt>>

\* ... and once more when it is through and has cut the results down to their
\* budget.  A round that the interrupt cancelled has none of that.
SteersAppended ==
    \/ \E cut \in SUBSET slot : Appends(slot, cut)
    \/ interrupt /\ UNCHANGED user

\* Running code costs no iteration, though it counts as a call.
ToolsDone ==
    /\ pc = "tools"
    /\ Says(Answers(Unanswered))
    /\ UNCHANGED used \/ Refund
    /\ SteersAppended
    /\ GoOn
    /\ UNCHANGED <<count, grace, tries, flags>>

\* The guardrail halts the turn with an answer of its own.
Halt ==
    /\ pc = "tools"
    /\ Says(Answers(Unanswered) \o <<"text">>)
    /\ SteersAppended
    /\ Leave("halted")
    /\ UNCHANGED <<counters, flags>>

\* The outer handler: calls that have no result get one.  Near the limit
\* the turn ends with an apology.
Recover(list) ==
    LET late == count >= MaxIterations - 1
    IN  /\ messages' = list \o (IF late THEN <<"text">> ELSE <<>>)
        /\ IF late THEN Leave("apology") ELSE GoOn
        /\ UNCHANGED <<counters, flags>>

\* Mutant: the handler leaves the calls unanswered.
ToolsRaiseUnfilled ==
    /\ pc = "tools" /\ UNCHANGED user
    /\ \E done \in 0 .. NumCalls - 1 : Recover(messages \o Answers(done))

ToolsRaise ==
    /\ pc = "tools"
    /\ \E done \in 0 .. NumCalls - 1 :
          /\ Recover(messages \o Answers(done) \o Answers(Unanswered - done))
          /\ \E steers \in IF done = 0 THEN {{}} ELSE SUBSET slot : Appends(steers, {})

ResponseRaises == pc = "respond" /\ Recover(messages) /\ UNCHANGED user

-----------------------------------------------------------------------------
(* A response without tool calls and without text.                         *)

Quiet == Parsed \ {"names"}

\* What was streamed before the connection broke is the answer.
TakeStream ==
    /\ pc = "respond"
    /\ tries' = Cleared(Quiet) /\ Leave("stream")
    /\ UNCHANGED <<messages, count, used, grace, flags, user>>

\* The round before said it all and only did its housekeeping.
TakeRemark ==
    /\ pc = "respond" /\ remark
    /\ remark' = FALSE
    /\ tries' = Cleared(Quiet \cup {"empty"}) /\ Leave("remark")
    /\ UNCHANGED <<messages, count, used, grace, nudged, parts, fallback, user>>

AfterTools == Contains(SubSeq(messages, IF Len(messages) > 5 THEN Len(messages) - 4 ELSE 1,
                              Len(messages)), "tool")

Nudge ==
    /\ pc = "respond" /\ ~remark /\ AfterTools /\ ~nudged
    /\ nudged' = TRUE
    /\ Says(<<"nudged", "nudge">>) /\ tries' = Cleared(Quiet) /\ GoOn
    /\ UNCHANGED <<count, used, grace, remark, parts, fallback, user>>

\* It reasoned: show it its reasoning.
Prefill ==
    /\ pc = "respond" /\ ~remark /\ tries["prefill"] < Limit["prefill"]
    /\ Says(<<"prefill">>) /\ GoOn
    /\ tries' = [Cleared(Quiet) EXCEPT !["prefill"] = @ + 1]
    /\ UNCHANGED <<count, used, grace, flags, user>>

\* A nudge is not due, or not to a model that thinks aloud, which is shown its
\* thoughts first.
NoNudge == (AfterTools => nudged) \/ tries["prefill"] >= Limit["prefill"]

\* It did not, or not any more: ask again.
AskAgain ==
    /\ pc = "respond" /\ ~remark /\ NoNudge /\ tries["empty"] < Limit["empty"]
    /\ GoOn /\ tries' = [Cleared(Quiet) EXCEPT !["empty"] = @ + 1]
    /\ UNCHANGED <<messages, count, used, grace, flags, user>>

SwitchModel ==
    /\ pc = "respond" /\ ~remark /\ NoNudge
    /\ tries["empty"] = Limit["empty"] /\ fallback
    /\ fallback' = FALSE
    /\ GoOn /\ tries' = Cleared(Quiet \cup {"empty"})
    /\ UNCHANGED <<messages, count, used, grace, nudged, remark, parts, user>>

StaysEmpty ==
    /\ pc = "respond" /\ ~remark /\ NoNudge
    /\ tries["empty"] = Limit["empty"]
    /\ fallback' = FALSE
    /\ messages' = Append(Bare(messages, Scaffold), "sentinel")
    /\ tries' = Cleared(Quiet) /\ Leave("empty")
    /\ UNCHANGED <<count, used, grace, nudged, remark, parts, user>>

-----------------------------------------------------------------------------
(* A text.                                                                 *)

\* An announcement instead of the work.
Acknowledge ==
    /\ pc = "respond" /\ tries["ack"] < Limit["ack"]
    /\ Says(<<"text", "user">>) /\ GoOn
    /\ tries' = [Cleared(Quiet \cup {"empty", "prefill"}) EXCEPT !["ack"] = @ + 1]
    /\ UNCHANGED <<count, used, grace, flags, user>>

\* The text stands for what was cut off before it, and scaffolding goes.
Taken == Quiet \cup {"empty", "prefill", "ack"} \cup (IF parts THEN {"length"} ELSE {})

Verify ==
    /\ pc = "respond" /\ tries["verify"] < Limit["verify"]
    /\ messages' = Bare(messages, Scaffold) \o <<"text", "check">>
    /\ tries' = [Cleared(Taken) EXCEPT !["verify"] = @ + 1]
    /\ parts' = FALSE /\ GoOn
    /\ UNCHANGED <<count, used, grace, nudged, remark, fallback, user>>

Finish ==
    /\ pc = "respond"
    /\ messages' = Append(Bare(messages, Scaffold), "text")
    /\ tries' = Cleared(Taken) /\ parts' = FALSE
    /\ Leave("text")
    /\ UNCHANGED <<count, used, grace, nudged, remark, fallback, user>>

-----------------------------------------------------------------------------
\* AIAgent.steer and AIAgent.interrupt, from the user's thread.
Steer ==
    /\ pc \notin {"idle", "done"} /\ said < MaxSteers
    /\ said' = said + 1 /\ slot' = slot \cup {said'}
    /\ UNCHANGED <<pc, messages, counters, flags, drained, told, lost, interrupt, exit>>

Interrupt ==
    /\ pc \notin {"idle", "done"} /\ ~interrupt
    /\ interrupt' = TRUE
    /\ UNCHANGED <<pc, messages, counters, flags, said, slot, drained, told, lost, exit>>

Call == Restart \/ RestartRebuilt \/ CallFails \/ ContextTooSmall \/ CallInterrupted \/ CutText
Work == BadNames \/ BadArguments \/ CutArguments \/ \E kind \in Calls : RunTools(kind)
Nothing == TakeStream \/ TakeRemark \/ Nudge \/ Prefill \/ AskAgain \/ SwitchModel \/ StaysEmpty

Loop == \/ StartTurn \/ StopAtTop \/ IterationsOver \/ Iterate \/ Inject \/ PutBack
        \/ Call \/ Scratchpad \/ Incomplete \/ Work
        \/ ToolsDone \/ Halt \/ ToolsRaise \/ ResponseRaises
        \/ Nothing \/ Acknowledge \/ Verify \/ Finish

Next == Loop \/ Steer \/ Interrupt

Spec == Init /\ [][Next]_vars
FairSpec == Spec /\ WF_vars(Loop)

-----------------------------------------------------------------------------
(* Properties.                                                             *)

\* Whenever the model is asked, and however the turn ends, every tool call
\* of the transcript is followed by its result: also behind a call that
\* raised, a halt, an interrupt or names of no tool (5226-5254).
CallsAnswered ==
    pc \in {"respond", "done"} =>
        \A i \in DOMAIN messages : messages[i] \in Calls =>
            /\ i + NumCalls <= Len(messages)
            /\ \A j \in i + 1 .. i + NumCalls : messages[j] = "tool"

\* Refunds (restarts, code runs) never give back more than was consumed, and
\* however they mix with a grace call no turn makes more than one call
\* beyond its limit: the count bounds what the budget no longer does.
BudgetWithinCount ==
    /\ used <= count
    /\ count <= MaxIterations + 1
    /\ count = MaxIterations + 1 => ~grace

\* A turn that ends with the model's text ends on that text: no nudge, no
\* prefill and no sentinel directly before it (5093-5108).
AnswerStandsOnItsOwn ==
    exit = "text" => Last(messages) = "text" /\ Last(Front(messages)) \notin Scaffold

\* The transcript the provider and the next turn are given can be sent: calls
\* with their results, one answer on its own, within the turn's limits.
TranscriptWellFormed ==
    LoopTypeOK /\ CallsAnswered /\ AnswerStandsOnItsOwn /\ BudgetWithinCount

\* Whatever the user says to a running turn, also between the drain of the slot
\* and the putting back (706-743), is in one place: it waits, it is told the model
\* once, or it is lost with a tool result that could not take it or was cut.  The
\* loop holds back none of it while the model is asked, tools run or a turn ends.
EachSteerOnce ==
    /\ TypeOK
    /\ slot \cup drained \cup told \cup lost = 1 .. said
    /\ slot \cap (drained \cup told \cup lost) = {}
    /\ drained \cap (told \cup lost) = {} /\ told \cap lost = {}
    /\ pc # "steer" => drained = {}

\* Whatever the model answers, the turn ends.
TurnEnds == <>(pc = "done")

\* "Runs AFTER budget enforcement so the steer marker is never truncated"
\* (tool_executor.py 966-969): most steers were appended before it (958, 1608).
SteerNeverCut == lost = {}

\* "These internal turns are only for the next API retry and should not
\* become durable transcript context" (5094-5098).
ScaffoldingNotDurable ==
    exit = "text" => \A i \in DOMAIN messages : messages[i] \notin Scaffold

\* "If the previous turn already delivered real content alongside
\* HOUSEKEEPING tool calls ... Only use this shortcut when ALL tools in that
\* turn were housekeeping" (4810-4818): the text that is passed on as the
\* answer is what the last round of tool calls said.
RemarkIsFromLastRound == exit = "remark" => messages[LastRound] = "chore"
=============================================================================
