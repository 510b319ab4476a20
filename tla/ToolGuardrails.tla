---------------------------- MODULE ToolGuardrails ----------------------------
(***************************************************************************)
(* agent/tool_guardrails.py: ToolCallGuardrailController, the counts that  *)
(* tell a loop of repeated failures, or of reads that find nothing new,    *)
(* from progress, and the decisions taken on them.                         *)
(***************************************************************************)
EXTENDS Integers

CONSTANTS
    Tool,          \* the tools
    Signature,     \* the calls made of them, ToolCallSignature: a tool and its arguments
    Reads,         \* idempotent_tools that are not in mutating_tools
    Result,        \* what a call can return, told apart by _result_hash
    ExactBlock,    \* exact_failure_block_after
    SameHalt,      \* same_tool_failure_halt_after
    IdleBlock,     \* no_progress_block_after
    ExactWarn, SameWarn, IdleWarn, \* ..._warn_after
    None

Code == {"repeated_exact_failure_block", "idempotent_no_progress_block", "same_tool_failure_halt"}

ASSUME GuardrailAssumption ==
    /\ {ExactBlock, SameHalt, IdleBlock, ExactWarn, SameWarn, IdleWarn} \subseteq Nat \ {0}
    /\ Reads \subseteq Tool /\ \A s \in Signature : s.tool \in Tool
    /\ "error" \notin Result
    /\ None \notin Result \cup Code \cup {"error", "plugin_block"}

VARIABLES
    hardStop, \* config.hard_stop_enabled
    exact,    \* _exact_failure_counts
    same,     \* _same_tool_failure_counts
    progress, \* _no_progress: the last result and how often it came
    halt      \* _halt_decision

guard == <<hardStop, exact, same, progress, halt>>

GuardTypeOK ==
    /\ hardStop \in BOOLEAN
    /\ exact \in [Signature -> Nat] /\ same \in [Tool -> Nat]
    /\ progress \in [Signature -> [hash : Result \cup {None}, count : Nat]]
    /\ halt \in Code \cup {None}

NoProgress == [hash |-> None, count |-> 0]

Fresh ==
    /\ exact = [s \in Signature |-> 0] /\ same = [t \in Tool |-> 0]
    /\ progress = [s \in Signature |-> NoProgress]
    /\ halt = None

ResetForTurn ==
    /\ exact' = [s \in Signature |-> 0] /\ same' = [t \in Tool |-> 0]
    /\ progress' = [s \in Signature |-> NoProgress]
    /\ halt' = None
    /\ UNCHANGED hardStop

-----------------------------------------------------------------------------
\* before_call: the code of the block, None if the call may run.
Verdict(s) ==
    CASE ~hardStop -> None
      [] hardStop /\ exact[s] >= ExactBlock -> "repeated_exact_failure_block"
      [] hardStop /\ exact[s] < ExactBlock /\ s.tool \in Reads
         /\ progress[s].count >= IdleBlock -> "idempotent_no_progress_block"
      [] OTHER -> None

\* A block is also the decision to halt; the last one counts.
Halts(code) == halt' = IF code = None THEN halt ELSE code

Count(s, result) ==
    IF progress[s].hash = result THEN progress[s].count + 1 ELSE 1

CountFailure(s) ==
    /\ exact' = [exact EXCEPT ![s] = @ + 1]
    /\ same' = [same EXCEPT ![s.tool] = @ + 1]
    /\ progress' = [progress EXCEPT ![s] = NoProgress]
    /\ Halts(IF hardStop /\ same[s.tool] + 1 >= SameHalt THEN "same_tool_failure_halt" ELSE None)

CountSuccess(s, result) ==
    /\ exact' = [exact EXCEPT ![s] = 0]
    /\ same' = [same EXCEPT ![s.tool] = 0]
    /\ progress' = [progress EXCEPT ![s] = IF s.tool \in Reads
            THEN [hash |-> result, count |-> Count(s, result)] ELSE NoProgress]
    /\ UNCHANGED halt

\* after_call
AfterCall(s, result) ==
    /\ IF result = "error" THEN CountFailure(s) ELSE CountSuccess(s, result)
    /\ UNCHANGED hardStop

\* What after_call returns, and append_toolguard_guidance appends to the result.
Advice(s, result) ==
    IF result = "error"
    THEN CASE hardStop /\ same[s.tool] + 1 >= SameHalt -> "halt"
           [] ~(hardStop /\ same[s.tool] + 1 >= SameHalt)
              /\ (exact[s] + 1 >= ExactWarn \/ same[s.tool] + 1 >= SameWarn) -> "warn"
           [] OTHER -> "allow"
    ELSE IF s.tool \in Reads /\ Count(s, result) >= IdleWarn THEN "warn" ELSE "allow"
=============================================================================
