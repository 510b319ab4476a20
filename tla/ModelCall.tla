----------------------------- MODULE ModelCall -----------------------------
(***************************************************************************)
(* agent/conversation_loop.py, the attempts at one model call: the inner   *)
(* loop "while retry_count < max_retries" with its recoveries, the chain   *)
(* of fallback providers (chat_completion_helpers.try_activate_fallback),  *)
(* the waits between attempts, and the restarts that begin the loop anew   *)
(* with a compressed transcript.  The provider is the environment: any     *)
(* request may succeed, be malformed, be refused, be cut off or fail for   *)
(* any of the reasons error_classifier.py knows.                           *)
(*                                                                         *)
(* AIAgent (run_agent.py) is not in the repository.  What the loop asks it *)
(* for is external here: the credential pool holds a number of credentials *)
(* it can still rotate to, and the primary's client is only rebuilt while  *)
(* no fallback is in force.  So is the portal's rate guard, whose errors   *)
(* the loop swallows.                                                      *)
(***************************************************************************)
EXTENDS Integers, Sequences, FiniteSets

CONSTANTS
    Primary,       \* the configured backend
    Chain,         \* agent._fallback_chain: the backends to fall back to
    Portals,       \* the backends behind the rate guard (provider "nous")
    MaxRetries,    \* agent._api_max_retries
    MaxCompress,   \* max_compression_attempts
    MaxCutCalls,   \* how often a truncated tool call is asked for again
    PoolSize,      \* bound: credentials of a pool that are left to rotate to
    Reasons,       \* the failures the provider produces, see FailoverReason
    FormatRepairs, \* image shrinking, tool images, OAuth beta, signatures, reasoning, grammar
    MaxInterrupts  \* bound: interrupts by the user

RateLimits == {"rate_limit", "billing", "upstream"}
Overflows == {"tier", "payload", "overflow"}

\* The repairs are tried once per block (TurnRetryState) or, for the last
\* three, once per turn (Unicode errors have two passes).
RepairsOf(reason) ==
    CASE reason = "auth"    -> {"refresh"}
      [] reason = "billing" -> {"entitlement"}
      [] reason = "format"  -> FormatRepairs
      [] reason = "unicode" -> {"unicode_1", "unicode_2"}
      [] reason = "images"  -> {"no_images"}
      [] OTHER              -> {}
TurnRepairs == {"unicode_1", "unicode_2", "no_images"}

ASSUME BoundsAssumption ==
    /\ MaxRetries \in Nat \ {0} /\ MaxCompress \in Nat
    /\ MaxCutCalls \in Nat /\ PoolSize \in Nat /\ MaxInterrupts \in Nat

Backend == {Primary} \cup {Chain[i] : i \in DOMAIN Chain}

\* A chain may name a backend twice, and the primary among them.
ASSUME BackendsAssumption == Chain \in Seq(Backend) /\ Portals \subseteq Backend

VARIABLES
    pc,          \* where the loop is
    reason,      \* the failure at hand
    retry,       \* retry_count
    tried,       \* the one-shot guards of TurnRetryState that are set
    recovered,   \* _retry.primary_recovery_attempted
    failedOver,  \* _retry.auth_failover_attempted
    spent,       \* what the turn has used up of TurnRepairs
    attempts,    \* compression_attempts
    cutCalls,    \* truncated_tool_call_retries
    wide,        \* the compressor still assumes more than 200k of context
    pool,        \* credentials the pool can still rotate to
    backend,     \* the backend in use
    index,       \* agent._fallback_index
    activated,   \* agent._fallback_activated
    unavailable, \* agent._unavailable_fallback_keys
    cooldown,    \* agent._rate_limited_until lies in the future
    limited,     \* the portal's rate guard is in force
    interrupt,   \* agent._interrupt_requested
    interrupts,  \* how often the user has interrupted
    compresses,  \* agent.compression_enabled, a setting of the user
    tail,        \* the role of the last message of the transcript
    saved,       \* the transcript was persisted as it is
    result       \* what the turn loop is handed: None until the block is over

loopVars == <<retry, tried, recovered, failedOver, attempts, cutCalls>>
chainVars == <<backend, index, activated, unavailable, cooldown>>
sessionVars == <<spent, wide, pool, limited>>
userVars == <<interrupt, interrupts, compresses>>
outVars == <<tail, saved, result>>
vars == <<pc, reason, loopVars, chainVars, sessionVars, userVars, outVars>>

Results == {"none", "answer", "length", "refused", "failed", "cut_off",
            "no_response", "interrupted", "interrupted_call"}

TypeOK ==
    /\ pc \in {"begin", "guard", "calling", "failing", "counted", "settling", "waiting", "done"}
    /\ reason \in Reasons \cup {"none"}
    /\ retry \in 0 .. MaxRetries
    /\ attempts \in 0 .. MaxCompress + 1 /\ cutCalls \in 0 .. MaxCutCalls
    /\ tried \subseteq UNION {RepairsOf(r) : r \in Reasons} /\ spent \subseteq TurnRepairs
    /\ pool \in 0 .. PoolSize
    /\ backend \in Backend /\ index \in 0 .. Len(Chain) /\ unavailable \subseteq Backend
    /\ {recovered, failedOver, wide, activated, cooldown, limited, interrupt, compresses, saved}
           \subseteq BOOLEAN
    /\ interrupts \in 0 .. MaxInterrupts
    /\ tail \in {"user", "tool", "assistant"} /\ result \in Results

Init ==
    /\ pc = "begin" /\ reason = "none" /\ result = "none"
    /\ retry = 0 /\ tried = {} /\ recovered = FALSE /\ failedOver = FALSE
    /\ attempts = 0 /\ cutCalls = 0 /\ wide \in BOOLEAN
    /\ spent = {} /\ pool \in 0 .. PoolSize
    /\ backend = Primary /\ index = 0 /\ activated = FALSE
    /\ unavailable = {} /\ cooldown = FALSE /\ limited \in BOOLEAN
    /\ interrupt = FALSE /\ interrupts = 0 /\ compresses \in BOOLEAN
    /\ tail \in {"user", "tool"} /\ saved = FALSE

-----------------------------------------------------------------------------
(* The chain of fallbacks.                                                 *)

\* try_activate_fallback leaves the primary for a rate limit: the primary
\* rests for a minute.
RestsPrimary(why) == why \in RateLimits /\ (~activated \/ backend = Primary)

\* The entries the walk along the chain passes over before position k: the
\* ones known to be unusable, the backend in use, and the ones that turn out
\* to be unusable now, of which some are remembered.
Usable(i) == Chain[i] \notin unavailable \cup {backend}

\* Entries are compared with the backend in use before their client is built;
\* only a portal without a token is found out earlier.
Remembers(passed) ==
    \E bad \in SUBSET ({Chain[i] : i \in passed} \ ({backend} \ Portals)) :
        unavailable' = unavailable \cup bad

\* Mutant: the flag that a fallback is in use is forgotten.
FallsBackUnmarked(k, why) ==
    /\ k \in index + 1 .. Len(Chain) /\ Usable(k)
    /\ index' = k /\ backend' = Chain[k] /\ cooldown' = (cooldown \/ RestsPrimary(why))
    /\ UNCHANGED <<unavailable, activated, pool>>

FallsBackTo(k, why) ==
    /\ k \in index + 1 .. Len(Chain) /\ Usable(k)
    /\ Remembers(index + 1 .. k - 1)
    /\ index' = k /\ backend' = Chain[k] /\ activated' = TRUE
    /\ cooldown' = (cooldown \/ RestsPrimary(why))
    /\ pool' \in IF pool = 0 THEN {0, PoolSize} ELSE {0, pool, PoolSize}

\* The chain is walked to its end in vain.  A failure that is no rate limit
\* then rests the primary for a moment.
ChainExhausted(why) ==
    /\ Remembers(index + 1 .. Len(Chain))
    /\ index' = Len(Chain)
    /\ cooldown' = (cooldown \/ RestsPrimary(why) \/ (Chain # <<>> /\ why \notin RateLimits))
    /\ UNCHANGED <<backend, activated, pool>>

\* What every caller does once a fallback is active.
FallBack(why) ==
    /\ \E k \in DOMAIN Chain : FallsBackTo(k, why)
    /\ retry' = 0 /\ attempts' = 0 /\ recovered' = FALSE
    /\ UNCHANGED <<tried, cutCalls, spent, wide, limited, userVars, outVars>>

-----------------------------------------------------------------------------
(* How the block ends.                                                     *)

\* The failure that ends the block stays on record as its reason.
Hand(r, save) ==
    /\ pc' = "done" /\ result' = r /\ saved' = save
    /\ UNCHANGED <<reason, sessionVars>>

\* close_interrupted_tool_sequence, persist, clear_interrupt, return.
ReturnInterrupted ==
    /\ Hand("interrupted", TRUE)
    /\ tail' = IF tail = "tool" THEN "assistant" ELSE tail
    /\ interrupt' = FALSE
    /\ UNCHANGED <<loopVars, chainVars, interrupts, compresses>>

-----------------------------------------------------------------------------
(* The head of the turn loop and of the retry loop.                        *)

\* An iteration of the turn loop looks at the interrupt first.
StopAtTop ==
    /\ pc = "begin" /\ interrupt
    /\ Hand("interrupted_call", FALSE)
    /\ UNCHANGED <<loopVars, chainVars, userVars, tail>>

\* The request is too large before it is sent: compress, start over.
CompressFirst ==
    /\ pc = "begin" /\ ~interrupt /\ compresses /\ attempts < MaxCompress
    /\ attempts' = attempts + 1
    /\ UNCHANGED <<pc, reason, retry, tried, recovered, failedOver, cutCalls,
                   chainVars, sessionVars, userVars, outVars>>

\* A fresh TurnRetryState for every block.
Begin ==
    /\ pc = "begin" /\ ~interrupt
    /\ pc' = "guard"
    /\ retry' = 0 /\ tried' = {} /\ recovered' = FALSE /\ failedOver' = FALSE
    /\ UNCHANGED <<reason, attempts, cutCalls, chainVars, sessionVars, userVars, outVars>>

GuardPasses ==
    /\ pc = "guard" /\ retry < MaxRetries /\ ~(backend \in Portals /\ limited)
    /\ pc' = "calling"
    /\ UNCHANGED <<reason, loopVars, chainVars, sessionVars, userVars, outVars>>

\* The portal is known to be limited: no request, the next fallback or the end.
GuardFallsBack ==
    /\ pc = "guard" /\ retry < MaxRetries /\ backend \in Portals /\ limited
    /\ FallBack("none")
    /\ UNCHANGED <<pc, reason, failedOver>>

\* The guard cannot be read: it never breaks the loop, and the request is made.
GuardUnread ==
    /\ pc = "guard" /\ retry < MaxRetries /\ backend \in Portals /\ limited
    /\ pc' = "calling"
    /\ UNCHANGED <<reason, loopVars, chainVars, sessionVars, userVars, outVars>>

GuardGivesUp ==
    /\ pc = "guard" /\ retry < MaxRetries /\ backend \in Portals /\ limited
    /\ ChainExhausted("none")
    /\ Hand("failed", TRUE)
    /\ UNCHANGED <<loopVars, userVars, tail>>

\* The loop's condition fails after a "continue": the turn ends without a response.
LoopEnds ==
    /\ pc = "guard" /\ retry >= MaxRetries
    /\ Hand("no_response", TRUE)
    /\ UNCHANGED <<loopVars, chainVars, userVars, tail>>

-----------------------------------------------------------------------------
(* What a request comes back with.                                         *)

\* A success clears the guard's record.
Answer ==
    /\ pc = "calling"
    /\ pc' = "done" /\ result' = "answer" /\ saved' = FALSE
    /\ limited' = (limited /\ backend \notin Portals)
    /\ UNCHANGED <<reason, loopVars, chainVars, spent, wide, pool, userVars, tail>>

\* InterruptedError: what was streamed becomes the assistant's message.
CallInterrupted ==
    /\ pc = "calling" /\ interrupt
    /\ Hand("interrupted_call", TRUE)
    /\ tail' \in {tail, "assistant"}
    /\ UNCHANGED <<loopVars, chainVars, userVars>>

\* A response without a usable choice counts as an attempt and goes to the
\* next fallback at once.
Invalid ==
    /\ pc = "calling"
    /\ UNCHANGED reason
    /\ \/ FallBack("none") /\ pc' = "guard" /\ UNCHANGED failedOver
       \/ /\ retry + 1 < MaxRetries
          /\ ChainExhausted("none")
          /\ retry' = retry + 1 /\ pc' = "waiting"
          /\ UNCHANGED <<tried, recovered, failedOver, attempts, cutCalls, spent, wide,
                         limited, userVars, outVars>>

InvalidGivesUp ==
    /\ pc = "calling" /\ retry + 1 >= MaxRetries
    /\ ChainExhausted("none")
    /\ retry' = retry + 1
    /\ Hand("failed", TRUE)
    /\ UNCHANGED <<tried, recovered, failedOver, attempts, cutCalls, userVars, tail>>

\* finish_reason "content_filter": the model declines.
Declined ==
    /\ pc = "calling"
    /\ \/ FallBack("none") /\ pc' = "guard" /\ UNCHANGED <<reason, failedOver>>
       \/ ChainExhausted("none") /\ Hand("refused", TRUE) /\ UNCHANGED <<loopVars, userVars, tail>>

\* finish_reason "length" of a text: the turn loop asks for the rest.
CutText ==
    /\ pc = "calling"
    /\ Hand("length", FALSE)
    /\ UNCHANGED <<loopVars, chainVars, userVars, tail>>

\* The filter cut the stream: the turn loop rebuilds and starts over on a
\* fallback, or takes the response for one that was cut like any other.
CutByFilter ==
    /\ pc = "calling" /\ index < Len(Chain)
    /\ \/ FallBack("none") /\ pc' = "begin" /\ UNCHANGED <<reason, failedOver>>
       \/ /\ ChainExhausted("none")
          /\ \E r \in {"length", "cut_off"} : Hand(r, r = "cut_off")
          /\ UNCHANGED <<loopVars, userVars, tail>>
       \/ /\ ChainExhausted("none") /\ cutCalls < MaxCutCalls
          /\ cutCalls' = cutCalls + 1 /\ pc' = "guard"
          /\ UNCHANGED <<reason, retry, tried, recovered, failedOver, attempts, spent, wide,
                         limited, userVars, outVars>>

\* A tool call that was cut off is asked for again, with more room.
CutCall ==
    /\ pc = "calling" /\ cutCalls < MaxCutCalls
    /\ cutCalls' = cutCalls + 1 /\ pc' = "guard"
    /\ UNCHANGED <<reason, retry, tried, recovered, failedOver, attempts, chainVars,
                   sessionVars, userVars, outVars>>

\* All tokens went into reasoning, or the call was cut off once too often.
CutForGood ==
    /\ pc = "calling"
    /\ Hand("cut_off", TRUE)
    /\ UNCHANGED <<loopVars, chainVars, userVars, tail>>

Fail ==
    /\ pc = "calling"
    /\ reason' \in Reasons /\ pc' = "failing"
    /\ UNCHANGED <<loopVars, chainVars, sessionVars, userVars, outVars>>

-----------------------------------------------------------------------------
(* A failure: the repairs that do not count as an attempt.                 *)

\* _recover_with_credential_pool has another credential to go on with.
Rotate ==
    /\ pc = "failing" /\ reason \in {"rate_limit", "billing", "auth"} /\ pool > 0
    /\ pool' = pool - 1 /\ pc' = "guard" /\ reason' = "none"
    /\ UNCHANGED <<loopVars, chainVars, spent, wide, limited, userVars, outVars>>

\* The guard is set before the repair is tried, whether or not it helps.
Repair(g) ==
    /\ pc = "failing" /\ g \in RepairsOf(reason) \ (tried \cup spent)
    /\ IF g \in TurnRepairs
          THEN spent' = spent \cup {g} /\ pc' = "guard" /\ UNCHANGED tried
          ELSE tried' = tried \cup {g} /\ pc' \in {"guard", "failing"} /\ UNCHANGED spent
    /\ reason' = IF pc' = "guard" THEN "none" ELSE reason
    /\ UNCHANGED <<retry, recovered, failedOver, attempts, cutCalls, chainVars,
                   wide, pool, limited, userVars, outVars>>

\* Nothing helped: the failure counts.
Count ==
    /\ pc = "failing" /\ RepairsOf(reason) \cap TurnRepairs \subseteq spent
    /\ retry' = retry + 1 /\ pc' = "counted"
    /\ UNCHANGED <<reason, tried, recovered, failedOver, attempts, cutCalls, chainVars,
                   sessionVars, userVars, outVars>>

StopAfterFailure ==
    /\ pc = "counted" /\ interrupt
    /\ ReturnInterrupted

-----------------------------------------------------------------------------
(* The provider to go on with.                                             *)

\* Beyond the limit all counts are alike.
OneMore == IF attempts < MaxCompress THEN attempts + 1 ELSE MaxCompress + 1

\* A subscription tier without the long context: assume 200k from now on.
ReduceTier ==
    /\ pc = "counted" /\ ~interrupt /\ compresses /\ reason = "tier"
    /\ attempts' = OneMore
    /\ wide' = FALSE
    /\ \/ attempts < MaxCompress /\ pc' = "begin"            \* shorter, or the limit is new
       \/ ~(attempts < MaxCompress /\ wide) /\ pc' = "settling"
    /\ reason' = IF pc' = "begin" THEN "none" ELSE reason
    /\ UNCHANGED <<retry, tried, recovered, failedOver, cutCalls, chainVars, spent,
                   pool, limited, userVars, outVars>>

\* Rate limits at once, transport failures from the second on, unless the
\* pool may still help; and an authentication failure once.
Eager ==
    \/ /\ reason \in RateLimits \/ (reason = "timeout" /\ retry >= 2)
       /\ reason # "upstream" => pool = 0
    \/ reason = "auth" /\ ~failedOver

FallBackAtOnce ==
    /\ pc = "counted" /\ ~interrupt /\ reason \notin Overflows
    /\ Eager /\ index < Len(Chain)
    /\ failedOver' = (failedOver \/ reason = "auth")
    /\ \/ FallBack(reason) /\ pc' = "guard" /\ reason' = "none"
       \/ /\ ChainExhausted(reason) /\ pc' = "settling" /\ UNCHANGED reason
          /\ UNCHANGED <<retry, tried, recovered, attempts, cutCalls, spent, wide, limited,
                         userVars, outVars>>

StayForNow ==
    /\ pc = "counted" /\ ~interrupt /\ reason # "tier" /\ (reason \in Overflows => compresses)
    /\ reason \in Overflows \/ ~Eager \/ index = Len(Chain)
    /\ pc' = "settling"
    /\ UNCHANGED <<reason, loopVars, chainVars, sessionVars, userVars, outVars>>

\* The portal itself is limited: the guard is to decide, whatever came of recording it.
LeftToGuard ==
    /\ pc = "settling" /\ reason = "rate_limit" /\ backend \in Portals
    /\ retry' = MaxRetries - 1 /\ pc' = "guard" /\ reason' = "none"
    /\ UNCHANGED <<tried, recovered, failedOver, attempts, cutCalls, chainVars,
                   spent, wide, pool, userVars, outVars>>

PortalLimited == LeftToGuard /\ limited' = TRUE

\* Recording raises, which is swallowed with the verdict already reached.
LimitUnrecorded == LeftToGuard /\ UNCHANGED limited

-----------------------------------------------------------------------------
(* A request that is too large.                                            *)

\* The user has turned compaction off: the call has failed, and the chain is
\* not asked.
OverflowUnhandled ==
    /\ pc = "counted" /\ ~interrupt /\ reason \in Overflows /\ ~compresses
    /\ Hand("failed", TRUE)
    /\ UNCHANGED <<loopVars, chainVars, userVars, tail>>

\* Compressed, or the output cap lowered: start over.
Shrink ==
    /\ pc = "settling" /\ reason \in {"payload", "overflow"} /\ attempts < MaxCompress
    /\ attempts' = attempts + 1 /\ pc' = "begin" /\ reason' = "none"
    /\ wide' \in IF reason = "overflow" THEN {wide, FALSE} ELSE {wide}
    /\ UNCHANGED <<retry, tried, recovered, failedOver, cutCalls, chainVars, spent,
                   pool, limited, userVars, outVars>>

\* A payload that does not get shorter loses its images.
DropImages ==
    /\ pc = "settling" /\ reason = "payload" /\ attempts < MaxCompress
    /\ attempts' = attempts + 1 /\ pc' = "guard" /\ reason' = "none"
    /\ UNCHANGED <<retry, tried, recovered, failedOver, cutCalls, chainVars,
                   sessionVars, userVars, outVars>>

\* The attempts are used up, or compressing changed nothing, or cannot help
\* because the output cap is to blame: failed, and the chain is not asked.
TooLarge ==
    /\ pc = "settling" /\ reason \in {"payload", "overflow"}
    /\ attempts' \in IF reason = "overflow" THEN {attempts, OneMore} ELSE {OneMore}
    /\ Hand("failed", TRUE)
    /\ UNCHANGED <<retry, tried, recovered, failedOver, cutCalls, chainVars, userVars, tail>>

-----------------------------------------------------------------------------
(* The last resorts.                                                       *)

Plain == reason \notin {"payload", "overflow"}
NotRetryable == reason \in {"client", "auth", "billing"}

\* An error that no repetition cures goes to the next fallback or is final.
ClientError ==
    /\ pc = "settling" /\ NotRetryable
    /\ \/ FallBack("none") /\ pc' = "guard" /\ reason' = "none" /\ UNCHANGED failedOver
       \/ /\ ChainExhausted("none")
          /\ \E save \in BOOLEAN : Hand("failed", save)
          /\ UNCHANGED <<loopVars, userVars, tail>>

\* Mutant: the client is rebuilt of whatever backend has failed.
RecoverFromFallback ==
    /\ pc = "settling" /\ Plain /\ ~NotRetryable /\ retry >= MaxRetries
    /\ ~recovered /\ reason = "timeout"
    /\ recovered' = TRUE /\ retry' = 0
    /\ index' = 0 /\ activated' = FALSE
    /\ pc' = "guard" /\ reason' = "none"
    /\ UNCHANGED <<tried, failedOver, attempts, cutCalls, backend, unavailable,
                   cooldown, sessionVars, userVars, outVars>>

\* Mutant: it is not noted that the client was rebuilt.
RecoverForEver ==
    /\ pc = "settling" /\ Plain /\ ~NotRetryable /\ retry >= MaxRetries
    /\ ~recovered /\ reason = "timeout" /\ ~activated
    /\ retry' = 0 /\ index' = 0 /\ activated' = FALSE
    /\ pc' = "guard" /\ reason' = "none"
    /\ UNCHANGED <<tried, recovered, failedOver, attempts, cutCalls, backend, unavailable,
                   cooldown, sessionVars, userVars, outVars>>

\* Out of attempts: rebuild the primary's client once, and open the chain again.
RecoverPrimary ==
    /\ pc = "settling" /\ Plain /\ ~NotRetryable /\ retry >= MaxRetries
    /\ ~recovered /\ reason = "timeout" /\ ~activated
    /\ recovered' = TRUE /\ retry' = 0
    /\ index' = 0 /\ activated' = FALSE
    /\ pc' = "guard" /\ reason' = "none"
    /\ UNCHANGED <<tried, failedOver, attempts, cutCalls, backend, unavailable,
                   cooldown, sessionVars, userVars, outVars>>

RetriesExhausted ==
    /\ pc = "settling" /\ Plain /\ ~NotRetryable /\ retry >= MaxRetries
    /\ \/ FallBack("none") /\ pc' = "guard" /\ reason' = "none" /\ UNCHANGED failedOver
       \/ ChainExhausted("none") /\ Hand("failed", TRUE) /\ UNCHANGED <<loopVars, userVars, tail>>

BackOff ==
    /\ pc = "settling" /\ Plain /\ ~NotRetryable /\ retry < MaxRetries
    /\ pc' = "waiting" /\ reason' = "none"
    /\ UNCHANGED <<loopVars, chainVars, sessionVars, userVars, outVars>>

\* The wait looks at the interrupt five times a second.  Time passes: the
\* portal's limit may be over.
Waited ==
    /\ pc = "waiting"
    /\ pc' = "guard" /\ limited' \in {limited, FALSE}
    /\ UNCHANGED <<reason, loopVars, chainVars, spent, wide, pool, userVars, outVars>>

StopWaiting ==
    /\ pc = "waiting" /\ interrupt
    /\ ReturnInterrupted

-----------------------------------------------------------------------------
\* AIAgent.interrupt, from the user's thread.
Interrupt ==
    /\ pc # "done" /\ ~interrupt /\ interrupts < MaxInterrupts
    /\ interrupt' = TRUE /\ interrupts' = interrupts + 1
    /\ UNCHANGED <<pc, reason, loopVars, chainVars, sessionVars, compresses, outVars>>

Enter == StopAtTop \/ CompressFirst \/ Begin \/ GuardPasses \/ GuardUnread \/ GuardFallsBack
         \/ GuardGivesUp \/ LoopEnds
Respond == \/ Answer \/ CallInterrupted \/ Invalid \/ InvalidGivesUp \/ Declined
           \/ CutText \/ CutByFilter \/ CutCall \/ CutForGood \/ Fail
Handle == \/ Rotate \/ Count \/ StopAfterFailure
          \/ \E g \in UNION {RepairsOf(r) : r \in Reasons} : Repair(g)
          \/ ReduceTier \/ FallBackAtOnce \/ StayForNow
          \/ PortalLimited \/ LimitUnrecorded
          \/ OverflowUnhandled \/ Shrink \/ DropImages \/ TooLarge
          \/ ClientError \/ RecoverPrimary \/ RetriesExhausted \/ BackOff
          \/ Waited \/ StopWaiting

Loop == Enter \/ Respond \/ Handle
Next == Loop \/ Interrupt

Spec == Init /\ [][Next]_vars
FairSpec == Spec /\ WF_vars(Loop)

-----------------------------------------------------------------------------
(* Properties.                                                             *)

\* Unless the size of the request is to blame, the loop says "failed" or passes
\* on a refusal only after the whole chain of fallbacks was walked, and then
\* the next turn does not rush back to the primary: its cooldown is armed
\* (agent/chat_completion_helpers.py 1206-1220).  A request that is too large
\* is given up without asking the chain (conversation_loop.py 3062, 3340, 3396,
\* 3451, 3495, 3563, 3608).
GivesUpOnlyWithoutFallback ==
    result \in {"failed", "refused"} /\ (result = "failed" => reason \notin Overflows) =>
        index = Len(Chain) /\ (Chain # <<>> => cooldown)

\* While agent._fallback_activated is not set the primary is in use, through
\* every order of failover, recovery and reset of the chain: a rate limit of
\* whoever is asked then rests the primary (1199-1205), and only then is the
\* primary's client rebuilt.
FallbackFlagTruthful == ~activated => backend = Primary

\* An early return on an interrupt leaves a transcript the next user message
\* can follow: no tool result at its end, saved, the interrupt consumed
\* (agent/message_sanitization.py 282-311).
InterruptClosesTools ==
    result = "interrupted" => tail # "tool" /\ saved /\ ~interrupt

\* What the block hands over, whichever way it ends, can be built on: it gives
\* up with the chain walked, the flag tells of the primary, an interrupted
\* transcript is closed.
HandsOverSoundly ==
    TypeOK /\ GivesUpOnlyWithoutFallback /\ FallbackFlagTruthful /\ InterruptClosesTools

\* Once a fallback is in force, the chain is only ever walked forwards: each of
\* its entries is asked at most once in a call, and primary recovery, which
\* opens the chain again, comes before the first of them (3886-3898).
FailoverOnlyForwards == [][activated => activated' /\ index' >= index]_vars

\* However the provider fails, and however often the loop starts over, the
\* model call comes to an end; unless the portal's rate guard itself fails again
\* and again, whose errors are swallowed (1141-1144, 3278-3279).
CallEnds == <>(pc = "done") \/ []<><<GuardUnread>>_vars \/ []<><<LimitUnrecorded>>_vars

\* "Re-enter the loop exactly once so the top-of-loop Nous guard handles
\* fallback or bails cleanly" (agent/conversation_loop.py 3281-3286).
GuardAlwaysDecides == <>(pc = "done")

\* "Skip entries that resolve to the current (provider, model) - falling back to
\* the same backend that just failed loops the failure"
\* (agent/chat_completion_helpers.py 1244-1247).
NeverBackToAFailedBackend == [][backend' # backend => backend' # Primary]_vars

\* "compression_attempts is a hard per-turn backstop shared with the overflow
\* error handlers" (agent/conversation_loop.py 992-993).
BackstopNeverRefilled == [][attempts' >= attempts]_vars

\* "removed retained vision payloads and retrying..."
\* (agent/conversation_loop.py 3382-3386): the shorter request is sent.
StrippedRequestIsSent == result # "no_response"
=============================================================================
