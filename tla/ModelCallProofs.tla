---------------------------- MODULE ModelCallProofs ----------------------------
(***************************************************************************)
(* Proofs about ModelCall, for any chain of fallbacks, any limits, any     *)
(* pool of credentials and any set of failures; and about the calls of     *)
(* side tasks (AuxCall), which have variables of their own.                *)
(***************************************************************************)
EXTENDS ModelCall, AuxCall, FiniteSetTheorems, TLAPS

-----------------------------------------------------------------------------
(* The inductive invariant: the parts of the state, each with its types.   *)

\* A request is only made, and only fails, while an attempt is left.
LoopOK ==
    /\ retry \in 0 .. MaxRetries
    /\ attempts \in 0 .. MaxCompress + 1 /\ cutCalls \in 0 .. MaxCutCalls
    /\ tried \subseteq UNION {RepairsOf(r) : r \in Reasons}
    /\ recovered \in BOOLEAN /\ failedOver \in BOOLEAN
    /\ pc \in {"calling", "failing"} => retry < MaxRetries

ChainOK ==
    /\ backend \in Backend /\ index \in 0 .. Len(Chain) /\ unavailable \subseteq Backend
    /\ activated \in BOOLEAN /\ cooldown \in BOOLEAN
    /\ FallbackFlagTruthful

SessionOK == spent \subseteq TurnRepairs /\ wide \in BOOLEAN /\ pool \in 0 .. PoolSize /\ limited \in BOOLEAN

UserOK == interrupt \in BOOLEAN /\ interrupts \in 0 .. MaxInterrupts /\ compresses \in BOOLEAN

\* Nothing is handed over before the block is over, and nothing happens then.
OutOK ==
    /\ pc \in {"begin", "guard", "calling", "failing", "counted", "settling", "waiting", "done"}
    /\ reason \in Reasons \cup {"none"}
    /\ tail \in {"user", "tool", "assistant"} /\ saved \in BOOLEAN /\ result \in Results
    /\ pc # "done" => result = "none"
    /\ GivesUpOnlyWithoutFallback /\ InterruptClosesTools

IInv == LoopOK /\ ChainOK /\ SessionOK /\ UserOK /\ OutOK

-----------------------------------------------------------------------------
(* Lemmas about the operators.                                             *)

LEMMA BoundsAreNat ==
  /\ MaxRetries \in Nat \ {0} /\ MaxCompress \in Nat /\ MaxCutCalls \in Nat
  /\ PoolSize \in Nat /\ MaxInterrupts \in Nat
  /\ Len(Chain) \in Nat /\ DOMAIN Chain = 1 .. Len(Chain)
  /\ \A i \in 1 .. Len(Chain) : Chain[i] \in Backend
  /\ Primary \in Backend
BY BoundsAssumption, BackendsAssumption DEF Backend

\* A fallback is a later one of the chain, and is marked.
LEMMA FallsBackForwards ==
  ASSUME ChainOK, SessionOK, NEW k, NEW why, FallsBackTo(k, why)
  PROVE  /\ ChainOK' /\ index' > index /\ activated' /\ pool' \in 0 .. PoolSize
<1>1. /\ k \in 1 .. Len(Chain) /\ k > index /\ index' = k /\ backend' = Chain[k] /\ activated' = TRUE
  BY BoundsAreNat DEF FallsBackTo, ChainOK
<1>2. backend' \in Backend /\ index' \in 0 .. Len(Chain)
  BY <1>1, BoundsAreNat
<1>3. unavailable' \subseteq Backend
  <2>1. \A i \in index + 1 .. k - 1 : Chain[i] \in Backend
    BY <1>1, BoundsAreNat DEF ChainOK
  <2> QED BY <2>1 DEF FallsBackTo, Remembers, ChainOK
<1>4. cooldown' \in BOOLEAN
  BY DEF FallsBackTo
<1>5. pool' \in 0 .. PoolSize
  BY BoundsAreNat DEF FallsBackTo, SessionOK
<1>6. FallbackFlagTruthful'
  BY <1>1 DEF FallbackFlagTruthful
<1> QED BY <1>1, <1>2, <1>3, <1>4, <1>5, <1>6 DEF ChainOK

\* A walk in vain ends at the end of the chain, and rests the primary unless a
\* rate limit on a fallback was the reason.
LEMMA WalkInVain ==
  ASSUME ChainOK, NEW why, ChainExhausted(why)
  PROVE  /\ ChainOK' /\ index' = Len(Chain) /\ UNCHANGED <<backend, activated, pool>>
         /\ why \notin RateLimits /\ Chain # <<>> => cooldown'
<1>1. index' = Len(Chain) /\ UNCHANGED <<backend, activated, pool>>
  BY DEF ChainExhausted
<1>2. unavailable' \subseteq Backend
  <2>1. \A i \in index + 1 .. Len(Chain) : Chain[i] \in Backend
    BY BoundsAreNat DEF ChainOK
  <2> QED BY <2>1 DEF ChainExhausted, Remembers, ChainOK
<1>3. cooldown' \in BOOLEAN /\ (why \notin RateLimits /\ Chain # <<>> => cooldown')
  BY DEF ChainExhausted
<1> QED BY <1>1, <1>2, <1>3, BoundsAreNat DEF ChainOK, FallbackFlagTruthful

-----------------------------------------------------------------------------
(* The steps, by what they end in.                                         *)

Open == {"begin", "guard", "calling", "failing", "counted", "settling", "waiting"}

LEMMA LoopKept ==
  ASSUME LoopOK, UNCHANGED loopVars, pc' \in {"calling", "failing"} => retry < MaxRetries
  PROVE  LoopOK'
BY DEF LoopOK, loopVars

LEMMA ChainKept == ASSUME ChainOK, UNCHANGED chainVars PROVE ChainOK'
BY DEF ChainOK, FallbackFlagTruthful, chainVars

LEMMA SessionKept == ASSUME SessionOK, UNCHANGED sessionVars PROVE SessionOK'
BY DEF SessionOK, sessionVars

LEMMA UserKept == ASSUME UserOK, UNCHANGED userVars PROVE UserOK'
BY DEF UserOK, userVars

\* The block goes on.
LEMMA GoesOn ==
  ASSUME IInv, pc # "done", pc' \in Open, reason' \in Reasons \cup {"none"}, UNCHANGED outVars,
         LoopOK', ChainOK', SessionOK', UserOK'
  PROVE  IInv'
<1>1. result' = "none" /\ tail' = tail /\ saved' = saved
  BY DEF IInv, OutOK, outVars
<1>2. OutOK'
  BY <1>1 DEF IInv, OutOK, Open, GivesUpOnlyWithoutFallback, InterruptClosesTools
<1> QED BY <1>2 DEF IInv

\* The block goes on with a fallback, and its counters start again.
LEMMA FellBack ==
  ASSUME IInv, pc # "done", pc' \in {"begin", "guard"}, reason' \in Reasons \cup {"none"},
         NEW why, FallBack(why), failedOver' \in BOOLEAN
  PROVE  IInv'
<1>1. PICK k \in DOMAIN Chain : FallsBackTo(k, why)
  BY DEF FallBack
<1>2. ChainOK' /\ pool' \in 0 .. PoolSize
  BY <1>1, FallsBackForwards DEF IInv
<1>3. LoopOK'
  <2>1. /\ retry' = 0 /\ attempts' = 0 /\ tried' = tried /\ recovered' = FALSE /\ cutCalls' = cutCalls
    BY DEF FallBack
  <2>2. tried \subseteq UNION {RepairsOf(r) : r \in Reasons} /\ cutCalls \in 0 .. MaxCutCalls
    BY DEF IInv, LoopOK
  <2>3. 0 \in 0 .. MaxRetries /\ 0 \in 0 .. MaxCompress + 1
    BY BoundsAreNat
  <2> QED BY <2>1, <2>2, <2>3 DEF LoopOK
<1>4. SessionOK' /\ UserOK'
  BY <1>2 DEF IInv, SessionOK, UserOK, FallBack, userVars
<1>5. UNCHANGED outVars /\ pc' \in Open
  BY DEF FallBack, Open
<1> QED BY <1>2, <1>3, <1>4, <1>5, GoesOn

\* The block ends with something to go on with, or with nothing.
LEMMA HandsOver ==
  ASSUME IInv, NEW r \in Results \ {"failed", "refused", "interrupted"}, NEW save \in BOOLEAN,
         Hand(r, save), LoopOK', ChainOK', UserOK', tail' \in {"user", "tool", "assistant"}
  PROVE  IInv'
<1>1. SessionOK'
  BY SessionKept DEF IInv, Hand
<1>2. OutOK'
  BY DEF IInv, OutOK, Hand, GivesUpOnlyWithoutFallback, InterruptClosesTools
<1> QED BY <1>1, <1>2 DEF IInv

\* The block fails for the size of the request.
LEMMA FailsForSize ==
  ASSUME IInv, Hand("failed", TRUE), reason \in Overflows, LoopOK', UNCHANGED <<chainVars, userVars, tail>>
  PROVE  IInv'
<1>1. ChainOK' /\ SessionOK' /\ UserOK'
  BY ChainKept, SessionKept, UserKept DEF IInv, Hand
<1>2. OutOK'
  BY DEF IInv, OutOK, Hand, Results, GivesUpOnlyWithoutFallback, InterruptClosesTools
<1> QED BY <1>1, <1>2 DEF IInv

\* The block gives up: the chain has been walked in vain.
LEMMA GivesUp ==
  ASSUME IInv, NEW r \in {"failed", "refused"}, NEW save \in BOOLEAN,
         ChainExhausted("none"), Hand(r, save), LoopOK', UNCHANGED <<userVars, tail>>
  PROVE  IInv'
<1>1. ChainOK' /\ index' = Len(Chain) /\ (Chain # <<>> => cooldown')
  BY WalkInVain DEF IInv, RateLimits
<1>2. SessionOK' /\ UserOK'
  BY SessionKept, UserKept DEF IInv, Hand
<1>3. OutOK'
  BY <1>1 DEF IInv, OutOK, Hand, Results, GivesUpOnlyWithoutFallback, InterruptClosesTools
<1> QED BY <1>1, <1>2, <1>3 DEF IInv

LEMMA IsInterrupted == ASSUME IInv, ReturnInterrupted PROVE IInv'
<1> USE DEF ReturnInterrupted
<1>1. LoopOK' /\ ChainOK' /\ SessionOK'
  BY LoopKept, ChainKept, SessionKept DEF IInv, Hand
<1>2. UserOK'
  BY DEF IInv, UserOK
<1>3. OutOK'
  BY DEF IInv, OutOK, Hand, Results, GivesUpOnlyWithoutFallback, InterruptClosesTools
<1> QED BY <1>1, <1>2, <1>3 DEF IInv

LEMMA InitInv == Init => IInv
<1> SUFFICES ASSUME Init PROVE IInv
  OBVIOUS
<1>1. LoopOK
  <2>1. /\ retry = 0 /\ attempts = 0 /\ tried = {} /\ recovered = FALSE /\ failedOver = FALSE
        /\ cutCalls = 0 /\ pc = "begin"
    BY DEF Init
  <2>2. 0 \in 0 .. MaxRetries /\ 0 \in 0 .. MaxCompress + 1 /\ 0 \in 0 .. MaxCutCalls
    BY BoundsAreNat
  <2> QED BY <2>1, <2>2 DEF LoopOK
<1>2. ChainOK
  <2>1. backend = Primary /\ index = 0 /\ activated = FALSE /\ unavailable = {} /\ cooldown = FALSE
    BY DEF Init
  <2>2. activated \in BOOLEAN /\ cooldown \in BOOLEAN
    BY <2>1
  <2>3. backend \in Backend /\ index \in 0 .. Len(Chain) /\ unavailable \subseteq Backend
    BY <2>1, BoundsAreNat
  <2>4. FallbackFlagTruthful
    BY <2>1 DEF FallbackFlagTruthful
  <2> QED BY <2>2, <2>3, <2>4 DEF ChainOK
<1>4. SessionOK
  BY DEF Init, SessionOK
<1>5. UserOK
  <2>1. interrupt \in BOOLEAN /\ compresses \in BOOLEAN
    BY DEF Init
  <2>2. interrupts \in 0 .. MaxInterrupts
    BY BoundsAreNat DEF Init
  <2> QED BY <2>1, <2>2 DEF UserOK
<1>3. OutOK
  BY DEF Init, OutOK, Results, GivesUpOnlyWithoutFallback, InterruptClosesTools
<1> QED BY <1>1, <1>2, <1>3, <1>4, <1>5 DEF IInv

-----------------------------------------------------------------------------
(* The invariant is inductive: the head of the loops.                      *)

LEMMA StopAtTopInv == IInv /\ StopAtTop => IInv'
<1> SUFFICES ASSUME IInv, StopAtTop PROVE IInv'
  OBVIOUS
<1> USE DEF StopAtTop
<1>1. LoopOK' /\ ChainOK' /\ UserOK'
  BY LoopKept, ChainKept, UserKept DEF IInv, Hand
<1> QED BY <1>1, HandsOver DEF IInv, OutOK, Results

LEMMA CompressFirstInv == IInv /\ CompressFirst => IInv'
<1> SUFFICES ASSUME IInv, CompressFirst PROVE IInv'
  OBVIOUS
<1> USE DEF CompressFirst
<1>1. ChainOK' /\ SessionOK' /\ UserOK'
  BY ChainKept, SessionKept, UserKept DEF IInv
<1>2. LoopOK'
  BY BoundsAreNat DEF IInv, LoopOK
<1> QED BY <1>1, <1>2, GoesOn DEF IInv, OutOK, Open

LEMMA BeginInv == IInv /\ Begin => IInv'
<1> SUFFICES ASSUME IInv, Begin PROVE IInv'
  OBVIOUS
<1> USE DEF Begin
<1>1. ChainOK' /\ SessionOK' /\ UserOK'
  BY ChainKept, SessionKept, UserKept DEF IInv
<1>2. LoopOK'
  <2>1. 0 \in 0 .. MaxRetries /\ pc' = "guard" /\ tried' = {}
    BY BoundsAreNat
  <2>2. attempts' \in 0 .. MaxCompress + 1 /\ cutCalls' \in 0 .. MaxCutCalls
    BY DEF IInv, LoopOK
  <2> QED BY <2>1, <2>2 DEF LoopOK
<1> QED BY <1>1, <1>2, GoesOn DEF IInv, OutOK, Open

LEMMA GuardPassesInv == IInv /\ GuardPasses => IInv'
<1> SUFFICES ASSUME IInv, GuardPasses PROVE IInv'
  OBVIOUS
<1> USE DEF GuardPasses
<1>1. LoopOK' /\ ChainOK' /\ SessionOK' /\ UserOK'
  BY LoopKept, ChainKept, SessionKept, UserKept DEF IInv
<1> QED BY <1>1, GoesOn DEF IInv, OutOK, Open

LEMMA GuardFallsBackInv == IInv /\ GuardFallsBack => IInv'
<1> SUFFICES ASSUME IInv, GuardFallsBack PROVE IInv'
  OBVIOUS
<1> QED BY FellBack DEF GuardFallsBack, IInv, OutOK, LoopOK

LEMMA GuardUnreadInv == IInv /\ GuardUnread => IInv'
<1> SUFFICES ASSUME IInv, GuardUnread PROVE IInv'
  OBVIOUS
<1> USE DEF GuardUnread
<1>1. LoopOK' /\ ChainOK' /\ SessionOK' /\ UserOK'
  BY LoopKept, ChainKept, SessionKept, UserKept DEF IInv
<1> QED BY <1>1, GoesOn DEF IInv, OutOK, Open

LEMMA GuardGivesUpInv == IInv /\ GuardGivesUp => IInv'
<1> SUFFICES ASSUME IInv, GuardGivesUp PROVE IInv'
  OBVIOUS
<1>1. LoopOK'
  BY LoopKept DEF IInv, GuardGivesUp, Hand
<1> QED BY <1>1, GivesUp DEF GuardGivesUp

LEMMA LoopEndsInv == IInv /\ LoopEnds => IInv'
<1> SUFFICES ASSUME IInv, LoopEnds PROVE IInv'
  OBVIOUS
<1> USE DEF LoopEnds
<1>1. LoopOK' /\ ChainOK' /\ UserOK'
  BY LoopKept, ChainKept, UserKept DEF IInv, Hand
<1> QED BY <1>1, HandsOver DEF IInv, OutOK, Results

-----------------------------------------------------------------------------
(* What a request comes back with.                                         *)

LEMMA AnswerInv == IInv /\ Answer => IInv'
<1> SUFFICES ASSUME IInv, Answer PROVE IInv'
  OBVIOUS
<1> USE DEF Answer
<1>1. LoopOK' /\ ChainOK' /\ UserOK'
  BY LoopKept, ChainKept, UserKept DEF IInv
<1>2. SessionOK'
  BY DEF IInv, SessionOK
<1>3. OutOK'
  BY DEF IInv, OutOK, Results, GivesUpOnlyWithoutFallback, InterruptClosesTools
<1> QED BY <1>1, <1>2, <1>3 DEF IInv

LEMMA CallInterruptedInv == IInv /\ CallInterrupted => IInv'
<1> SUFFICES ASSUME IInv, CallInterrupted PROVE IInv'
  OBVIOUS
<1> USE DEF CallInterrupted
<1>1. LoopOK' /\ ChainOK' /\ UserOK'
  BY LoopKept, ChainKept, UserKept DEF IInv, Hand
<1> QED BY <1>1, HandsOver DEF IInv, OutOK, Results

LEMMA InvalidInv == IInv /\ Invalid => IInv'
<1> SUFFICES ASSUME IInv, Invalid PROVE IInv'
  OBVIOUS
<1>1. CASE FallBack("none") /\ pc' = "guard" /\ UNCHANGED failedOver
  BY <1>1, FellBack DEF Invalid, IInv, OutOK, LoopOK
<1>2. CASE /\ retry + 1 < MaxRetries /\ ChainExhausted("none")
           /\ retry' = retry + 1 /\ pc' = "waiting"
           /\ UNCHANGED <<tried, recovered, failedOver, attempts, cutCalls, spent, wide,
                          limited, userVars, outVars>>
  <2>1. ChainOK' /\ UNCHANGED pool
    BY <1>2, WalkInVain DEF IInv
  <2>2. LoopOK'
    BY <1>2, BoundsAreNat DEF IInv, LoopOK
  <2>3. SessionOK' /\ UserOK'
    BY <1>2, <2>1, UserKept DEF IInv, SessionOK
  <2> QED BY <1>2, <2>1, <2>2, <2>3, GoesOn DEF Invalid, IInv, OutOK, Open
<1> QED BY <1>1, <1>2 DEF Invalid

LEMMA InvalidGivesUpInv == IInv /\ InvalidGivesUp => IInv'
<1> SUFFICES ASSUME IInv, InvalidGivesUp PROVE IInv'
  OBVIOUS
<1>1. LoopOK'
  BY BoundsAreNat DEF IInv, LoopOK, InvalidGivesUp, Hand
<1> QED BY <1>1, GivesUp DEF InvalidGivesUp

LEMMA DeclinedInv == IInv /\ Declined => IInv'
<1> SUFFICES ASSUME IInv, Declined PROVE IInv'
  OBVIOUS
<1>1. CASE FallBack("none") /\ pc' = "guard" /\ UNCHANGED <<reason, failedOver>>
  BY <1>1, FellBack DEF Declined, IInv, OutOK, LoopOK
<1>2. CASE ChainExhausted("none") /\ Hand("refused", TRUE) /\ UNCHANGED <<loopVars, userVars, tail>>
  <2>1. LoopOK'
    BY <1>2, LoopKept DEF IInv, Hand
  <2> QED BY <1>2, <2>1, GivesUp
<1> QED BY <1>1, <1>2 DEF Declined

LEMMA CutTextInv == IInv /\ CutText => IInv'
<1> SUFFICES ASSUME IInv, CutText PROVE IInv'
  OBVIOUS
<1> USE DEF CutText
<1>1. LoopOK' /\ ChainOK' /\ UserOK'
  BY LoopKept, ChainKept, UserKept DEF IInv, Hand
<1> QED BY <1>1, HandsOver DEF IInv, OutOK, Results

LEMMA CutByFilterInv == IInv /\ CutByFilter => IInv'
<1> SUFFICES ASSUME IInv, CutByFilter PROVE IInv'
  OBVIOUS
<1>1. CASE FallBack("none") /\ pc' = "begin" /\ UNCHANGED <<reason, failedOver>>
  BY <1>1, FellBack DEF CutByFilter, IInv, OutOK, LoopOK
<1>2. ASSUME NEW r \in {"length", "cut_off"}, ChainExhausted("none"), Hand(r, r = "cut_off"),
             UNCHANGED <<loopVars, userVars, tail>>
      PROVE  IInv'
  <2>1. LoopOK' /\ ChainOK' /\ UserOK'
    BY <1>2, LoopKept, WalkInVain, UserKept DEF IInv, Hand
  <2>2. (r = "cut_off") \in BOOLEAN /\ tail' \in {"user", "tool", "assistant"}
    BY <1>2 DEF IInv, OutOK
  <2>3. r \in Results \ {"failed", "refused", "interrupted"}
    BY DEF Results
  <2> QED BY <1>2, <2>1, <2>2, <2>3, HandsOver
<1>3. CASE /\ ChainExhausted("none") /\ cutCalls < MaxCutCalls
           /\ cutCalls' = cutCalls + 1 /\ pc' = "guard"
           /\ UNCHANGED <<reason, retry, tried, recovered, failedOver, attempts, spent, wide,
                          limited, userVars, outVars>>
  <2>1. ChainOK' /\ UNCHANGED pool
    BY <1>3, WalkInVain DEF IInv
  <2>2. LoopOK'
    BY <1>3, BoundsAreNat DEF IInv, LoopOK
  <2>3. SessionOK' /\ UserOK'
    BY <1>3, <2>1, UserKept DEF IInv, SessionOK
  <2> QED BY <1>3, <2>1, <2>2, <2>3, GoesOn DEF CutByFilter, IInv, OutOK, Open
<1> QED BY <1>1, <1>2, <1>3 DEF CutByFilter

LEMMA CutCallInv == IInv /\ CutCall => IInv'
<1> SUFFICES ASSUME IInv, CutCall PROVE IInv'
  OBVIOUS
<1> USE DEF CutCall
<1>1. ChainOK' /\ SessionOK' /\ UserOK'
  BY ChainKept, SessionKept, UserKept DEF IInv
<1>2. LoopOK'
  BY BoundsAreNat DEF IInv, LoopOK
<1> QED BY <1>1, <1>2, GoesOn DEF IInv, OutOK, Open

LEMMA CutForGoodInv == IInv /\ CutForGood => IInv'
<1> SUFFICES ASSUME IInv, CutForGood PROVE IInv'
  OBVIOUS
<1> USE DEF CutForGood
<1>1. LoopOK' /\ ChainOK' /\ UserOK'
  BY LoopKept, ChainKept, UserKept DEF IInv, Hand
<1> QED BY <1>1, HandsOver DEF IInv, OutOK, Results

LEMMA FailInv == IInv /\ Fail => IInv'
<1> SUFFICES ASSUME IInv, Fail PROVE IInv'
  OBVIOUS
<1> USE DEF Fail
<1>1. ChainOK' /\ SessionOK' /\ UserOK'
  BY ChainKept, SessionKept, UserKept DEF IInv
<1>2. LoopOK'
  BY BoundsAreNat DEF IInv, LoopOK, loopVars
<1> QED BY <1>1, <1>2, GoesOn DEF IInv, OutOK, Open

-----------------------------------------------------------------------------
(* A failure.                                                              *)

LEMMA RotateInv == IInv /\ Rotate => IInv'
<1> SUFFICES ASSUME IInv, Rotate PROVE IInv'
  OBVIOUS
<1> USE DEF Rotate
<1>1. LoopOK' /\ ChainOK' /\ UserOK'
  BY LoopKept, ChainKept, UserKept DEF IInv
<1>2. SessionOK'
  BY BoundsAreNat DEF IInv, SessionOK
<1> QED BY <1>1, <1>2, GoesOn DEF IInv, Open

LEMMA RepairInv ==
  ASSUME NEW g \in UNION {RepairsOf(r) : r \in Reasons}
  PROVE  IInv /\ Repair(g) => IInv'
<1> SUFFICES ASSUME IInv, Repair(g) PROVE IInv'
  OBVIOUS
<1> USE DEF Repair
<1>1. ChainOK' /\ UserOK'
  BY ChainKept, UserKept DEF IInv
<1>2. pc' \in {"guard", "failing"} /\ reason' \in Reasons \cup {"none"}
  BY DEF IInv, OutOK
<1>3. LoopOK'
  <2>1. tried' \subseteq UNION {RepairsOf(r) : r \in Reasons}
    BY DEF IInv, LoopOK
  <2> QED BY <1>2, <2>1 DEF IInv, LoopOK
<1>4. SessionOK'
  BY DEF IInv, SessionOK
<1> QED BY <1>1, <1>2, <1>3, <1>4, GoesOn DEF IInv, Open

LEMMA CountInv == IInv /\ Count => IInv'
<1> SUFFICES ASSUME IInv, Count PROVE IInv'
  OBVIOUS
<1> USE DEF Count
<1>1. ChainOK' /\ SessionOK' /\ UserOK'
  BY ChainKept, SessionKept, UserKept DEF IInv
<1>2. LoopOK'
  BY BoundsAreNat DEF IInv, LoopOK
<1> QED BY <1>1, <1>2, GoesOn DEF IInv, OutOK, Open

LEMMA StopAfterFailureInv == IInv /\ StopAfterFailure => IInv'
<1> SUFFICES ASSUME IInv, StopAfterFailure PROVE IInv'
  OBVIOUS
<1> QED BY IsInterrupted DEF StopAfterFailure

LEMMA OneMoreInRange == ASSUME LoopOK PROVE OneMore \in 0 .. MaxCompress + 1
BY BoundsAreNat DEF LoopOK, OneMore

LEMMA ReduceTierInv == IInv /\ ReduceTier => IInv'
<1> SUFFICES ASSUME IInv, ReduceTier PROVE IInv'
  OBVIOUS
<1> USE DEF ReduceTier
<1>1. ChainOK' /\ UserOK'
  BY ChainKept, UserKept DEF IInv
<1>2. pc' \in {"begin", "settling"} /\ reason' \in Reasons \cup {"none"}
  BY DEF IInv, OutOK
<1>3. LoopOK'
  BY <1>2, OneMoreInRange DEF IInv, LoopOK
<1>4. SessionOK'
  BY DEF IInv, SessionOK
<1> QED BY <1>1, <1>2, <1>3, <1>4, GoesOn DEF Open

LEMMA FallBackAtOnceInv == IInv /\ FallBackAtOnce => IInv'
<1> SUFFICES ASSUME IInv, FallBackAtOnce PROVE IInv'
  OBVIOUS
<1>1. failedOver' \in BOOLEAN
  BY DEF FallBackAtOnce, IInv, LoopOK
<1>2. CASE FallBack(reason) /\ pc' = "guard" /\ reason' = "none"
  BY <1>1, <1>2, FellBack DEF FallBackAtOnce
<1>3. CASE /\ ChainExhausted(reason) /\ pc' = "settling" /\ UNCHANGED reason
           /\ UNCHANGED <<retry, tried, recovered, attempts, cutCalls, spent, wide, limited,
                          userVars, outVars>>
  <2>1. ChainOK' /\ UNCHANGED pool
    BY <1>3, WalkInVain DEF IInv
  <2>2. LoopOK'
    BY <1>1, <1>3 DEF IInv, LoopOK
  <2>3. SessionOK' /\ UserOK'
    BY <1>3, <2>1, UserKept DEF IInv, SessionOK
  <2> QED BY <1>3, <2>1, <2>2, <2>3, GoesOn DEF FallBackAtOnce, IInv, OutOK, Open
<1> QED BY <1>2, <1>3 DEF FallBackAtOnce

LEMMA StayForNowInv == IInv /\ StayForNow => IInv'
<1> SUFFICES ASSUME IInv, StayForNow PROVE IInv'
  OBVIOUS
<1> USE DEF StayForNow
<1>1. LoopOK' /\ ChainOK' /\ SessionOK' /\ UserOK'
  BY LoopKept, ChainKept, SessionKept, UserKept DEF IInv
<1> QED BY <1>1, GoesOn DEF IInv, OutOK, Open

LEMMA LeftToGuardInv == IInv /\ LeftToGuard /\ limited' \in BOOLEAN => IInv'
<1> SUFFICES ASSUME IInv, LeftToGuard, limited' \in BOOLEAN PROVE IInv'
  OBVIOUS
<1> USE DEF LeftToGuard
<1>1. ChainOK' /\ UserOK'
  BY ChainKept, UserKept DEF IInv
<1>2. LoopOK'
  BY BoundsAreNat DEF IInv, LoopOK
<1>3. SessionOK'
  BY DEF IInv, SessionOK
<1> QED BY <1>1, <1>2, <1>3, GoesOn DEF Open

LEMMA PortalLimitedInv == IInv /\ (PortalLimited \/ LimitUnrecorded) => IInv'
BY LeftToGuardInv DEF PortalLimited, LimitUnrecorded, IInv, SessionOK

LEMMA OverflowUnhandledInv == IInv /\ OverflowUnhandled => IInv'
<1> SUFFICES ASSUME IInv, OverflowUnhandled PROVE IInv'
  OBVIOUS
<1> USE DEF OverflowUnhandled
<1>1. LoopOK'
  BY LoopKept DEF IInv, Hand
<1> QED BY <1>1, FailsForSize

LEMMA ShrinkInv == IInv /\ Shrink => IInv'
<1> SUFFICES ASSUME IInv, Shrink PROVE IInv'
  OBVIOUS
<1> USE DEF Shrink
<1>1. ChainOK' /\ UserOK'
  BY ChainKept, UserKept DEF IInv
<1>2. LoopOK'
  BY BoundsAreNat DEF IInv, LoopOK
<1>3. SessionOK'
  BY DEF IInv, SessionOK
<1> QED BY <1>1, <1>2, <1>3, GoesOn DEF Open

LEMMA DropImagesInv == IInv /\ DropImages => IInv'
<1> SUFFICES ASSUME IInv, DropImages PROVE IInv'
  OBVIOUS
<1> USE DEF DropImages
<1>1. ChainOK' /\ SessionOK' /\ UserOK'
  BY ChainKept, SessionKept, UserKept DEF IInv
<1>2. LoopOK'
  BY BoundsAreNat DEF IInv, LoopOK
<1> QED BY <1>1, <1>2, GoesOn DEF Open

LEMMA TooLargeInv == IInv /\ TooLarge => IInv'
<1> SUFFICES ASSUME IInv, TooLarge PROVE IInv'
  OBVIOUS
<1> USE DEF TooLarge
<1>1. LoopOK'
  BY OneMoreInRange DEF IInv, LoopOK, Hand
<1>2. reason \in Overflows
  BY DEF Overflows
<1> QED BY <1>1, <1>2, FailsForSize

-----------------------------------------------------------------------------
(* The last resorts, the waits and the user.                               *)

LEMMA ClientErrorInv == IInv /\ ClientError => IInv'
<1> SUFFICES ASSUME IInv, ClientError PROVE IInv'
  OBVIOUS
<1>1. CASE FallBack("none") /\ pc' = "guard" /\ reason' = "none" /\ UNCHANGED failedOver
  BY <1>1, FellBack DEF ClientError, IInv, LoopOK
<1>2. ASSUME NEW save \in BOOLEAN, ChainExhausted("none"), Hand("failed", save),
             UNCHANGED <<loopVars, userVars, tail>>
      PROVE  IInv'
  <2>1. LoopOK'
    BY <1>2, LoopKept DEF IInv, Hand
  <2> QED BY <1>2, <2>1, GivesUp
<1> QED BY <1>1, <1>2 DEF ClientError

LEMMA RecoverPrimaryInv == IInv /\ RecoverPrimary => IInv'
<1> SUFFICES ASSUME IInv, RecoverPrimary PROVE IInv'
  OBVIOUS
<1> USE DEF RecoverPrimary
<1>1. SessionOK' /\ UserOK'
  BY SessionKept, UserKept DEF IInv
<1>2. LoopOK'
  <2>1. 0 \in 0 .. MaxRetries /\ pc' = "guard" /\ recovered' \in BOOLEAN
    BY BoundsAreNat
  <2> QED BY <2>1 DEF IInv, LoopOK
<1>3. ChainOK'
  <2>1. 0 \in 0 .. Len(Chain)
    BY BoundsAreNat
  <2>2. activated' = FALSE /\ backend' = Primary
    BY DEF IInv, ChainOK, FallbackFlagTruthful
  <2>3. activated' \in BOOLEAN /\ ~activated'
    BY <2>2, Zenon
  <2> QED BY <2>1, <2>2, <2>3 DEF IInv, ChainOK, FallbackFlagTruthful
<1> QED BY <1>1, <1>2, <1>3, GoesOn DEF Open

LEMMA RetriesExhaustedInv == IInv /\ RetriesExhausted => IInv'
<1> SUFFICES ASSUME IInv, RetriesExhausted PROVE IInv'
  OBVIOUS
<1>1. CASE FallBack("none") /\ pc' = "guard" /\ reason' = "none" /\ UNCHANGED failedOver
  BY <1>1, FellBack DEF RetriesExhausted, IInv, LoopOK
<1>2. CASE ChainExhausted("none") /\ Hand("failed", TRUE) /\ UNCHANGED <<loopVars, userVars, tail>>
  <2>1. LoopOK'
    BY <1>2, LoopKept DEF IInv, Hand
  <2> QED BY <1>2, <2>1, GivesUp
<1> QED BY <1>1, <1>2 DEF RetriesExhausted

LEMMA BackOffInv == IInv /\ BackOff => IInv'
<1> SUFFICES ASSUME IInv, BackOff PROVE IInv'
  OBVIOUS
<1> USE DEF BackOff
<1>1. LoopOK' /\ ChainOK' /\ SessionOK' /\ UserOK'
  BY LoopKept, ChainKept, SessionKept, UserKept DEF IInv
<1> QED BY <1>1, GoesOn DEF Open

LEMMA WaitedInv == IInv /\ Waited => IInv'
<1> SUFFICES ASSUME IInv, Waited PROVE IInv'
  OBVIOUS
<1> USE DEF Waited
<1>1. LoopOK' /\ ChainOK' /\ UserOK'
  BY LoopKept, ChainKept, UserKept DEF IInv
<1>2. SessionOK'
  BY DEF IInv, SessionOK
<1> QED BY <1>1, <1>2, GoesOn DEF IInv, OutOK, Open

LEMMA StopWaitingInv == IInv /\ StopWaiting => IInv'
<1> SUFFICES ASSUME IInv, StopWaiting PROVE IInv'
  OBVIOUS
<1> QED BY IsInterrupted DEF StopWaiting

LEMMA InterruptInv == IInv /\ Interrupt => IInv'
<1> SUFFICES ASSUME IInv, Interrupt PROVE IInv'
  OBVIOUS
<1> USE DEF Interrupt
<1>1. LoopOK' /\ ChainOK' /\ SessionOK'
  BY LoopKept, ChainKept, SessionKept DEF IInv, LoopOK
<1>2. UserOK'
  <2>1. interrupts' \in 0 .. MaxInterrupts
    BY BoundsAreNat DEF IInv, UserOK
  <2>2. interrupt' \in BOOLEAN /\ compresses' \in BOOLEAN
    BY DEF IInv, UserOK
  <2> QED BY <2>1, <2>2 DEF UserOK
<1> QED BY <1>1, <1>2, GoesOn DEF IInv, OutOK, Open

LEMMA StutterInv == IInv /\ UNCHANGED vars => IInv'
<1> SUFFICES ASSUME IInv, UNCHANGED vars PROVE IInv'
  OBVIOUS
<1> USE DEF vars
<1>1. LoopOK' /\ ChainOK' /\ SessionOK' /\ UserOK'
  BY LoopKept, ChainKept, SessionKept, UserKept DEF IInv, LoopOK
<1>2. OutOK'
  BY DEF IInv, OutOK, GivesUpOnlyWithoutFallback, InterruptClosesTools, outVars, chainVars, userVars
<1> QED BY <1>1, <1>2 DEF IInv

LEMMA Inductive == IInv /\ [Next]_vars => IInv'
<1> SUFFICES ASSUME IInv, [Next]_vars PROVE IInv'
  OBVIOUS
<1>1. CASE Enter
  BY <1>1, StopAtTopInv, CompressFirstInv, BeginInv, GuardPassesInv, GuardUnreadInv, GuardFallsBackInv, GuardGivesUpInv,
     LoopEndsInv DEF Enter
<1>2. CASE Respond
  BY <1>2, AnswerInv, CallInterruptedInv, InvalidInv, InvalidGivesUpInv, DeclinedInv, CutTextInv,
     CutByFilterInv, CutCallInv, CutForGoodInv, FailInv DEF Respond
<1>3. CASE Handle
  BY <1>3, RotateInv, CountInv, StopAfterFailureInv, RepairInv, ReduceTierInv, FallBackAtOnceInv,
     StayForNowInv, PortalLimitedInv, OverflowUnhandledInv, ShrinkInv, DropImagesInv, TooLargeInv,
     ClientErrorInv, RecoverPrimaryInv, RetriesExhaustedInv, BackOffInv, WaitedInv, StopWaitingInv DEF Handle
<1>4. CASE Interrupt
  BY <1>4, InterruptInv
<1>5. CASE UNCHANGED vars
  BY <1>5, StutterInv
<1> QED BY <1>1, <1>2, <1>3, <1>4, <1>5 DEF Next, Loop

-----------------------------------------------------------------------------
(* The theorems.                                                           *)

\* What a model call hands over can be built on, however the provider failed:
\* unless the request is too large, it gives up only with the chain walked and
\* the primary resting (chat_completion_helpers.py:1199-1220); without the flag
\* of a fallback the primary is in use; an interrupted transcript is closed
\* (message_sanitization.py:282-311).
THEOREM CallHandsOverSoundly == Spec => []HandsOverSoundly
<1>1. IInv => HandsOverSoundly
  <2> SUFFICES ASSUME IInv PROVE HandsOverSoundly
    OBVIOUS
  <2>1. {recovered, failedOver, wide, activated, cooldown, limited, interrupt, compresses, saved} \subseteq BOOLEAN
    BY DEF IInv, LoopOK, ChainOK, SessionOK, UserOK, OutOK
  <2>2. TypeOK
    BY <2>1 DEF IInv, LoopOK, ChainOK, SessionOK, UserOK, OutOK, TypeOK
  <2> QED BY <2>2 DEF IInv, ChainOK, OutOK, HandsOverSoundly
<1> QED BY <1>1, InitInv, Inductive, PTL DEF Spec

\* Once a fallback is in force, the chain is only ever walked forwards, for any
\* chain, also one with the primary in it: no entry is asked twice in a call,
\* and the recovery of the primary comes before (conversation_loop.py:3886-3898).
THEOREM FailoverGoesForwards == Spec => FailoverOnlyForwards
<1> DEFINE Forwards == activated => activated' /\ index' >= index
<1>1. ASSUME IInv, Next PROVE Forwards
  <2>1. index \in 0 .. Len(Chain) /\ Len(Chain) \in Nat
    BY <1>1, BoundsAreNat DEF IInv, ChainOK
  <2>2. ASSUME NEW k, NEW why, FallsBackTo(k, why) PROVE Forwards
    <3>1. index' > index /\ activated' /\ ChainOK'
      BY <1>1, <2>2, FallsBackForwards DEF IInv
    <3> QED BY <2>1, <3>1 DEF ChainOK
  <2>3. ASSUME NEW why, FallBack(why) PROVE Forwards
    BY <2>2, <2>3 DEF FallBack
  <2>4. ASSUME NEW why, ChainExhausted(why) PROVE Forwards
    BY <2>1, <2>4 DEF ChainExhausted
  <2>5. UNCHANGED chainVars => Forwards
    BY <2>1 DEF chainVars
  <2>6. CASE Enter
    BY <2>3, <2>4, <2>5, <2>6 DEF Enter, StopAtTop, CompressFirst, Begin, GuardPasses, GuardUnread,
       GuardFallsBack, GuardGivesUp, LoopEnds
  <2>7. CASE Respond
    BY <2>3, <2>4, <2>5, <2>7 DEF Respond, Answer, CallInterrupted, Invalid, InvalidGivesUp, Declined,
       CutText, CutByFilter, CutCall, CutForGood, Fail
  <2>8. CASE Handle
    BY <2>3, <2>4, <2>5, <2>8 DEF Handle, Rotate, Count, StopAfterFailure, ReturnInterrupted, Repair,
       ReduceTier, FallBackAtOnce, StayForNow, PortalLimited, LimitUnrecorded, LeftToGuard, OverflowUnhandled,
       Shrink, DropImages, TooLarge, ClientError, RecoverPrimary, RetriesExhausted, BackOff, Waited, StopWaiting
  <2>9. CASE Interrupt
    BY <2>5, <2>9 DEF Interrupt
  <2> QED BY <1>1, <2>6, <2>7, <2>8, <2>9 DEF Next, Loop
<1>2. IInv /\ [Next]_vars => [Forwards]_vars
  BY <1>1
<1> QED BY <1>2, InitInv, Inductive, PTL DEF Spec, FailoverOnlyForwards

-----------------------------------------------------------------------------
(***************************************************************************)
(* The requests of side tasks.  AuxCall has a loop and a chain of its own. *)
(* Its invariant: a rung has been reached by no more requests than there   *)
(* are rungs below; a request to the provider that was named is repeated   *)
(* only when that provider's clients were all evicted, so that nothing     *)
(* that was stored under its name is asked instead; and a compression that *)
(* has waited for a time-out has an error that leads off the provider.     *)
(***************************************************************************)
Counted ==
    /\ rung \in {"resolve", "ask"} => tries = 0
    /\ rung = "again" => tries <= Retries
    /\ rung = "temperature" => tries <= Retries + 1
    /\ rung = "max_tokens" => tries <= Retries + 2
    /\ rung \in {"max_tokens", "heal"} /\ err = "not_found" => tries <= Retries + 1
    /\ rung \in {"heal", "paid"} => tries <= Retries + 3
    /\ rung \in {"signed", "renew", "renewed", "rate"} => tries <= Retries + 4
    /\ rung \in {"pool", "recovered"} => tries <= Retries + 5
    /\ rung \in {"second", "fallback", "evict"} => tries <= Retries + 6
    /\ tries <= Retries + 7
    /\ \A b \in Endpoint : timeouts[b] <= tries

\* Where the call is tells what it has, and whom it asked for.
Held ==
    /\ rung \notin {"idle", "resolve"} => client \in Client
    /\ rung \in {"resolve", "recovered"} => resolved.kind # "label"
    /\ rung = "renewed" => resolved.kind = "named"

\* A provider that was named and serves the call.
Pinned == resolved.kind = "named" /\ client # None /\ client.to = resolved.by

\* Nothing is cached under its name when it is asked anew.
Evicted ==
    rung \in {"renewed", "recovered"} /\ Pinned =>
        \A k \in Key : k.provider = resolved.by => cache[k] = None

OnTheWay == {"temperature", "max_tokens", "heal", "paid", "signed", "renew", "renewed",
             "rate", "pool", "recovered"}

WaitedLittle ==
    /\ rung # "idle" => \A b \in Endpoint \ {resolved.by} : timeouts[b] = 0
    /\ \A b \in Endpoint \ {resolved.by} : timeouts[b] <= 1
    /\ rung \in {"resolve", "ask"} => timeouts[resolved.by] = 0
    /\ rung = "again" => timeouts[resolved.by] < tries
    /\ timeouts[resolved.by] <= 1 \/ timeouts[resolved.by] <= Retries
    /\ rung \in {"renewed", "recovered"} => err # "timeout"
    /\ rung \in OnTheWay /\ err # "timeout" =>
          timeouts[resolved.by] = 0 \/ timeouts[resolved.by] < Retries

NotWaitedTwice == call.compression /\ Pinned => WaitedLittle

AuxInv == AuxTypeOK /\ Counted /\ Held /\ Evicted /\ NotWaitedTwice /\ FreshByName

\* What a request does to the counts of its call.
Requested(c, taken, then) ==
    /\ tries' = tries + 1
    /\ err' \in Error \cup {None}
    /\ timeouts' \in [Endpoint -> Nat]
    /\ \A b \in Endpoint : \/ timeouts'[b] = timeouts[b]
                           \/ b = c.to /\ err' = "timeout" /\ timeouts'[b] = timeouts[b] + 1
    /\ rung' = "idle" \/ (err' \in taken /\ rung' = then)

NoRequest(then) == rung' = then /\ tries' = tries /\ timeouts' = timeouts

\* For every step that requests something: how often, and where it leads.
LEMMA FirstRequested ==
  ASSUME ChainAssumption, AuxInv, First
  PROVE  Requested(client, Error,
            IF /\ tries < Transients /\ err' \in Transient
               /\ ~(rung = "ask" /\ call.compression /\ err' = "timeout")
            THEN "again" ELSE "temperature")
BY DEF AuxInv, AuxTypeOK, First, Ask, Leave, Goto, Requested, NoRequest

LEMMA FirstAsyncRequested ==
  ASSUME ChainAssumption, AuxInv, FirstAsync
  PROVE  Requested(client, Error,
            IF rung = "ask" /\ err' \in Transient /\ ~(call.compression /\ err' = "timeout")
            THEN "again" ELSE "temperature")
BY DEF AuxInv, AuxTypeOK, FirstAsync, Ask, Leave, Goto, Requested, NoRequest

LEMMA TemperatureRequested ==
  ASSUME ChainAssumption, AuxInv, Temperature
  PROVE  \/ NoRequest("max_tokens") /\ err' = err
         \/ err = "temperature" /\ Requested(client, Connection \cup {"payment", "auth", "max_tokens"}, "max_tokens")
BY DEF AuxInv, AuxTypeOK, Temperature, Ask, Leave, Goto, Requested, NoRequest

LEMMA MaxTokensRequested ==
  ASSUME ChainAssumption, AuxInv, MaxTokens
  PROVE  \/ NoRequest("heal") /\ err' = err
         \/ err = "max_tokens" /\ Requested(client, Connection \cup {"payment", "rate"}, "heal")
BY DEF AuxInv, AuxTypeOK, MaxTokens, Ask, Leave, Goto, Requested, NoRequest

LEMMA HealRequested ==
  ASSUME ChainAssumption, AuxInv, Heal
  PROVE  \/ NoRequest("paid") /\ err' = err
         \/ err = "not_found" /\ Requested(client, Error, "paid")
BY DEF AuxInv, AuxTypeOK, Heal, Ask, Leave, Goto, Requested, NoRequest

LEMMA PaidRequested ==
  ASSUME ChainAssumption, AuxInv, Paid
  PROVE  \/ NoRequest("signed") /\ err' = err
         \/ err = "payment" /\ Requested(client, Connection \cup Account, "signed")
<1>1. \/ NoRequest("signed") /\ err' = err
      \/ err = "payment" /\ Ask(client, params, Connection \cup Account, "signed")
  BY Zenon DEF Paid, RefreshNous, Goto, NoRequest
<1> QED BY <1>1 DEF AuxInv, AuxTypeOK, Ask, Leave, Goto, Requested

LEMMA SignedRequested ==
  ASSUME ChainAssumption, AuxInv, Signed
  PROVE  \/ NoRequest("renew") /\ err' = err
         \/ err = "auth" /\ Requested(client, {}, "signed")
<1>1. \/ NoRequest("renew") /\ err' = err
      \/ err = "auth" /\ Ask(client, params, {}, "signed")
  BY Zenon DEF Signed, RefreshNous, Goto, NoRequest
<1> QED BY <1>1 DEF AuxInv, AuxTypeOK, Ask, Leave, Goto, Requested

LEMMA RateRequested ==
  ASSUME ChainAssumption, AuxInv, Rate
  PROVE  \/ NoRequest("pool") /\ err' = err
         \/ err = "rate" /\ Requested(client, Account, "pool")
BY DEF AuxInv, AuxTypeOK, Rate, Ask, Leave, Goto, Requested, NoRequest

LEMMA FallbackRequested ==
  ASSUME ChainAssumption, AuxInv, Fallback
  PROVE  \/ NoRequest("evict") /\ err' = err
         \/ \E b \in Elsewhere : Requested(Built(b), {}, "idle")
BY DEF AuxInv, AuxTypeOK, Fallback, Ask, Leave, Goto, Requested, NoRequest, Built

\* The key of a client that is asked for.
LEMMA KeyOfIsKey ==
  ASSUME ChainAssumption, AuxInv, NEW form \in Form
  PROVE  /\ KeyOf(resolved, form) \in Key
         /\ resolved.kind = "auto" => KeyOf(resolved, form).provider = "auto"
         /\ resolved.kind # "auto" => KeyOf(resolved, form).provider = resolved.by
         /\ KeyOf(Automatic, form) \in Key
         /\ KeyOf(Automatic, form).provider = "auto"
BY DEF ChainAssumption, AuxInv, AuxTypeOK, KeyOf, Automatic, Hint, Key, Arguments, Credential

LEMMA CallKeyIsKey ==
  ASSUME ChainAssumption, AuxInv
  PROVE  /\ CallKey \in Key
         /\ resolved.kind = "auto" => CallKey.provider = "auto"
         /\ resolved.kind # "auto" => CallKey.provider = resolved.by
<1>1. PICK form \in Form : CallKey = KeyOf(resolved, form)
  BY DEF CallKey, Form
<1> QED BY <1>1, KeyOfIsKey

\* A client that is got is cached, or of someone who was asked for.
LEMMA GotIsClient ==
  ASSUME ChainAssumption, AuxInv, NEW k \in Key, NEW S \in SUBSET Endpoint, NEW c,
         GetCached(k, S, c), c # None
  PROVE  c \in Client /\ (cache[k] = None => c.to \in S)
<1>1. c = cache[k] \/ c \in {Built(b) : b \in S}
  BY Zenon DEF GetCached
<1>2. CASE c = cache[k]
  BY <1>2 DEF AuxInv, AuxTypeOK
<1>3. CASE c \in {Built(b) : b \in S}
  BY <1>3 DEF AuxInv, AuxTypeOK, Built, Client
<1> QED BY <1>1, <1>2, <1>3

\* Whom a client may be got of.
LEMMA CandidatesAreEndpoints ==
  ASSUME ChainAssumption, NEW t \in BOOLEAN
  PROVE  Candidates(t) \subseteq Endpoint
BY DEF ChainAssumption, Candidates

\* Whom a call with a name, or with none, gets its client of.
LEMMA AskedOf ==
  ASSUME ChainAssumption, AuxInv, rung \in {"resolve", "renewed", "recovered"},
         NEW S, S = IF resolved.kind = "named" THEN {resolved.by} ELSE Candidates(FALSE)
  PROVE  S \in SUBSET Endpoint /\ (CallKey.provider # "auto" => S = {CallKey.provider})
<1>1. resolved.kind \in {"named", "auto"} /\ resolved.by \in Endpoint
  BY DEF AuxInv, AuxTypeOK, Held
<1> QED BY <1>1, CallKeyIsKey, CandidatesAreEndpoints

LEMMA RetrySameRequested ==
  ASSUME ChainAssumption, AuxInv, RetrySame
  PROVE  \/ NoRequest("idle") /\ err' = err
         \/ \E c \in Client :
               /\ Pinned => c.to = resolved.by
               /\ Requested(c, IF rung = "renewed" THEN {} ELSE Account, "second")
<1> DEFINE S == IF resolved.kind = "named" THEN {resolved.by} ELSE Candidates(FALSE)
<1>1. S \in SUBSET Endpoint /\ (Pinned => S = {resolved.by}) /\ rung \in {"renewed", "recovered"}
  BY AskedOf DEF RetrySame, Pinned
<1>2. PICK c \in Client \cup {None} :
         /\ GetCached(CallKey, S, c)
         /\ IF c = None THEN Leave /\ UNCHANGED <<err, tries, timeouts>>
            ELSE Ask(c, call.params, IF rung = "renewed" THEN {} ELSE Account, "second")
  BY Zenon DEF RetrySame, S
<1> HIDE DEF S
<1>3. CASE c = None
  BY <1>2, <1>3 DEF Leave, NoRequest
<1>4. CASE c # None
  <2>1. Pinned => cache[CallKey] = None
    BY <1>1, CallKeyIsKey DEF AuxInv, Evicted, Pinned
  <2>2. c \in Client /\ (Pinned => c.to = resolved.by)
    BY <1>1, <1>2, <1>4, <2>1, CallKeyIsKey, GotIsClient
  <2>3. Requested(c, IF rung = "renewed" THEN {} ELSE Account, "second")
    BY <1>2, <1>4 DEF AuxInv, AuxTypeOK, Ask, Leave, Goto, Requested
  <2> QED BY <2>2, <2>3
<1> QED BY <1>3, <1>4

\* The parts of the invariant, and the steps they survive.
CountsOK == Counted /\ NotWaitedTwice

\* What is counted is a number.
LEMMA CountsRange ==
  ASSUME ChainAssumption, AuxInv
  PROVE  /\ Retries \in Nat /\ Retries <= Transients + 1 /\ tries \in Nat
         /\ timeouts \in [Endpoint -> Nat] /\ resolved.by \in Endpoint
         /\ err \in Error \cup {None} /\ first \in Error \cup {None}
BY DEF ChainAssumption, AuxInv, AuxTypeOK, Retries, Arguments


\* Every one of them keeps the counts.
LEMMA FirstCounts ==
  ASSUME ChainAssumption, AuxInv, First
  PROVE  CountsOK'
<1>1. call' = call /\ resolved' = resolved /\ client' = client /\ Retries' = Retries
  BY DEF First, local, Retries
<1>2. Counted'
  BY <1>1, CountsRange, FirstRequested
  DEF AuxInv, Counted, Requested, NoRequest, First, Retries, Error, Capacity, Connection,
     Param, Account, Transient
<1>3. NotWaitedTwice'
  BY <1>1, <1>2, CountsRange, FirstRequested
  DEF AuxInv, Counted, NotWaitedTwice, WaitedLittle, Pinned, Requested, NoRequest, OnTheWay, First,
     Error, Capacity, Connection, Param, Account, Transient
<1> QED BY <1>2, <1>3 DEF CountsOK

LEMMA FirstAsyncCounts ==
  ASSUME ChainAssumption, AuxInv, FirstAsync
  PROVE  CountsOK'
<1>1. call' = call /\ resolved' = resolved /\ client' = client /\ Retries' = Retries
  BY DEF FirstAsync, local, Retries
<1>2. Counted'
  BY <1>1, CountsRange, FirstAsyncRequested
  DEF AuxInv, Counted, Requested, NoRequest, FirstAsync, Retries, Error, Capacity,
     Connection, Param, Account, Transient
<1>3. NotWaitedTwice'
  BY <1>1, <1>2, CountsRange, FirstAsyncRequested
  DEF AuxInv, Counted, NotWaitedTwice, WaitedLittle, Pinned, Requested, NoRequest, OnTheWay,
     FirstAsync, Error, Capacity, Connection, Param, Account, Transient
<1> QED BY <1>2, <1>3 DEF CountsOK

LEMMA TemperatureCounts ==
  ASSUME ChainAssumption, AuxInv, Temperature
  PROVE  CountsOK'
<1>1. call' = call /\ resolved' = resolved /\ client' = client /\ Retries' = Retries
  BY DEF Temperature, local, Retries
<1>2. Counted'
  BY <1>1, CountsRange, TemperatureRequested
  DEF AuxInv, Counted, Requested, NoRequest, Temperature, Retries, Error, Capacity,
     Connection, Param, Account, Transient
<1>3. NotWaitedTwice'
  BY <1>1, <1>2, CountsRange, TemperatureRequested
  DEF AuxInv, Counted, NotWaitedTwice, WaitedLittle, Pinned, Requested, NoRequest, OnTheWay,
     Temperature, Error, Capacity, Connection, Param, Account, Transient
<1> QED BY <1>2, <1>3 DEF CountsOK

LEMMA MaxTokensCounts ==
  ASSUME ChainAssumption, AuxInv, MaxTokens
  PROVE  CountsOK'
<1>1. call' = call /\ resolved' = resolved /\ client' = client /\ Retries' = Retries
  BY DEF MaxTokens, local, Retries
<1>2. Counted'
  BY <1>1, CountsRange, MaxTokensRequested
  DEF AuxInv, Counted, Requested, NoRequest, MaxTokens, Retries, Error, Capacity,
     Connection, Param, Account, Transient
<1>3. NotWaitedTwice'
  BY <1>1, <1>2, CountsRange, MaxTokensRequested
  DEF AuxInv, Counted, NotWaitedTwice, WaitedLittle, Pinned, Requested, NoRequest, OnTheWay,
     MaxTokens, Error, Capacity, Connection, Param, Account, Transient
<1> QED BY <1>2, <1>3 DEF CountsOK

LEMMA HealCounts ==
  ASSUME ChainAssumption, AuxInv, Heal
  PROVE  CountsOK'
<1>1. call' = call /\ resolved' = resolved /\ client' = client /\ Retries' = Retries
  BY DEF Heal, local, Retries
<1>2. Counted'
  BY <1>1, CountsRange, HealRequested
  DEF AuxInv, Counted, Requested, NoRequest, Heal, Retries, Error, Capacity, Connection,
     Param, Account, Transient
<1>3. NotWaitedTwice'
  BY <1>1, <1>2, CountsRange, HealRequested
  DEF AuxInv, Counted, NotWaitedTwice, WaitedLittle, Pinned, Requested, NoRequest, OnTheWay, Heal,
     Error, Capacity, Connection, Param, Account, Transient
<1> QED BY <1>2, <1>3 DEF CountsOK

LEMMA PaidCounts ==
  ASSUME ChainAssumption, AuxInv, Paid
  PROVE  CountsOK'
<1>1. call' = call /\ resolved' = resolved /\ client' = client /\ Retries' = Retries
  BY DEF Paid, local, Retries
<1>2. Counted'
  BY <1>1, CountsRange, PaidRequested
  DEF AuxInv, Counted, Requested, NoRequest, Paid, Retries, Error, Capacity, Connection,
     Param, Account, Transient
<1>3. NotWaitedTwice'
  BY <1>1, <1>2, CountsRange, PaidRequested
  DEF AuxInv, Counted, NotWaitedTwice, WaitedLittle, Pinned, Requested, NoRequest, OnTheWay, Paid,
     Error, Capacity, Connection, Param, Account, Transient
<1> QED BY <1>2, <1>3 DEF CountsOK

LEMMA SignedCounts ==
  ASSUME ChainAssumption, AuxInv, Signed
  PROVE  CountsOK'
<1>1. call' = call /\ resolved' = resolved /\ client' = client /\ Retries' = Retries
  BY DEF Signed, local, Retries
<1>2. Counted'
  BY <1>1, CountsRange, SignedRequested
  DEF AuxInv, Counted, Requested, NoRequest, Signed, Retries, Error, Capacity,
     Connection, Param, Account, Transient
<1>3. NotWaitedTwice'
  BY <1>1, <1>2, CountsRange, SignedRequested
  DEF AuxInv, Counted, NotWaitedTwice, WaitedLittle, Pinned, Requested, NoRequest, OnTheWay, Signed,
     Error, Capacity, Connection, Param, Account, Transient
<1> QED BY <1>2, <1>3 DEF CountsOK

LEMMA RateCounts ==
  ASSUME ChainAssumption, AuxInv, Rate
  PROVE  CountsOK'
<1>1. call' = call /\ resolved' = resolved /\ client' = client /\ Retries' = Retries
  BY DEF Rate, local, Retries
<1>2. Counted'
  BY <1>1, CountsRange, RateRequested
  DEF AuxInv, Counted, Requested, NoRequest, Rate, Retries, Error, Capacity, Connection,
     Param, Account, Transient
<1>3. NotWaitedTwice'
  BY <1>1, <1>2, CountsRange, RateRequested
  DEF AuxInv, Counted, NotWaitedTwice, WaitedLittle, Pinned, Requested, NoRequest, OnTheWay, Rate,
     Error, Capacity, Connection, Param, Account, Transient
<1> QED BY <1>2, <1>3 DEF CountsOK

LEMMA FallbackCounts ==
  ASSUME ChainAssumption, AuxInv, Fallback
  PROVE  CountsOK'
<1>1. call' = call /\ resolved' = resolved /\ client' = client /\ Retries' = Retries
  BY DEF Fallback, local, Retries
<1>2. CASE NoRequest("evict") /\ err' = err
  BY <1>1, <1>2, CountsRange
  DEF AuxInv, Counted, NotWaitedTwice, WaitedLittle, Pinned, CountsOK, NoRequest, OnTheWay, Fallback
<1>3. CASE \E b \in Elsewhere : Requested(Built(b), {}, "idle")
  <2>1. PICK b \in Elsewhere : Requested(Built(b), {}, "idle")
    BY <1>3
  <2>2. resolved.kind = "named" => b # resolved.by
    BY <2>1 DEF Elsewhere, TaskFallback, MainAgent
  <2>3. /\ tries' = tries + 1 /\ rung' = "idle"
        /\ \A x \in Endpoint : timeouts'[x] = timeouts[x] \/ (x = b /\ timeouts'[x] = timeouts[x] + 1)
    BY <2>1 DEF Requested, Built
  <2>4. Counted'
    BY <1>1, <2>3, CountsRange DEF AuxInv, Counted, Fallback
  <2>5. NotWaitedTwice'
    BY <1>1, <2>2, <2>3, CountsRange DEF AuxInv, NotWaitedTwice, WaitedLittle, Pinned, OnTheWay, Fallback
  <2> QED BY <2>4, <2>5 DEF CountsOK
<1> QED BY <1>2, <1>3, FallbackRequested

LEMMA RetrySameCounts ==
  ASSUME ChainAssumption, AuxInv, RetrySame
  PROVE  CountsOK'
<1>1. call' = call /\ resolved' = resolved /\ client' = client /\ Retries' = Retries
  BY DEF RetrySame, local, Retries
<1>2. CASE NoRequest("idle") /\ err' = err
  BY <1>1, <1>2, CountsRange
  DEF AuxInv, Counted, NotWaitedTwice, WaitedLittle, Pinned, CountsOK, NoRequest, OnTheWay
<1>3. CASE \E c \in Client :
             /\ Pinned => c.to = resolved.by
             /\ Requested(c, IF rung = "renewed" THEN {} ELSE Account, "second")
  <2>1. PICK c \in Client :
             /\ Pinned => c.to = resolved.by
             /\ Requested(c, IF rung = "renewed" THEN {} ELSE Account, "second")
    BY <1>3
  <2>2. /\ tries' = tries + 1 /\ rung' \in {"idle", "second"} /\ rung \in {"renewed", "recovered"}
        /\ \A x \in Endpoint : \/ timeouts'[x] = timeouts[x]
                               \/ x = c.to /\ err' = "timeout" /\ timeouts'[x] = timeouts[x] + 1
    BY <2>1 DEF Requested, RetrySame
  <2>3. Counted'
    BY <1>1, <2>2, CountsRange DEF AuxInv, Counted
  <2>5. NotWaitedTwice'
    BY <1>1, <2>1, <2>2, CountsRange DEF AuxInv, NotWaitedTwice, WaitedLittle, Pinned, OnTheWay
  <2> QED BY <2>3, <2>5 DEF CountsOK
<1> QED BY <1>2, <1>3, RetrySameRequested

LEMMA CallCounts ==
  ASSUME ChainAssumption, AuxInv, Call
  PROVE  CountsOK'
<1>1. /\ rung' = "resolve" /\ tries' = 0 /\ timeouts' = [b \in Endpoint |-> 0] /\ call' \in Arguments
      /\ resolved'.by \in Endpoint
  BY DEF Call, Goto, Automatic, Named, ChainAssumption
<1>2. Retries' \in Nat
  BY <1>1 DEF Retries, Arguments, ChainAssumption
<1>3. Counted'
  <2>1. \A n \in Nat : 0 <= n + 7
    OBVIOUS
  <2>2. tries' <= Retries' + 7
    BY <1>1, <1>2, <2>1, Zenon
  <2>3. \A b \in Endpoint : timeouts'[b] <= tries'
    BY <1>1
  <2> QED BY <1>1, <2>2, <2>3 DEF Counted
<1>4. WaitedLittle'
  BY <1>1, <1>2 DEF WaitedLittle, OnTheWay
<1> QED BY <1>3, <1>4 DEF CountsOK, NotWaitedTwice

\* The steps that request nothing.
LEMMA QuietCounts ==
  ASSUME ChainAssumption, AuxInv,
         \/ Resolve \/ ResolveFallback \/ RenewCredentials \/ Pool
         \/ Second \/ NoFallback \/ EvictDead \/ Expire \/ UNCHANGED auxVars
  PROVE  CountsOK'
<1>2. ASSUME rung' # "idle" \/ rung # "idle",
             tries' = tries, timeouts' = timeouts, call' = call,
             \/ resolved' = resolved /\ (client' = client \/ rung' = "ask")
             \/ resolved'.kind # "named",
             \/ rung' = "ask" /\ rung = "resolve"
             \/ rung' = "idle" /\ rung \in {"resolve", "evict"}
             \/ rung' = "renewed" /\ rung = "renew" /\ err = "auth" /\ err' = err
             \/ rung' = "rate" /\ rung = "renew" /\ err' = err
             \/ rung' = "recovered" /\ rung = "pool" /\ err \in Account /\ err' = err
             \/ rung' = "fallback" /\ rung \in {"pool", "second"}
             \/ rung' = "evict" /\ rung = "fallback"
      PROVE  CountsOK'
  <2>1. Retries' = Retries
    BY <1>2 DEF Retries
  <2>2. Counted'
    BY <1>2, <2>1, CountsRange DEF AuxInv, Counted
  <2>3. NotWaitedTwice'
    BY <1>2, <2>1, CountsRange DEF AuxInv, Counted, NotWaitedTwice, WaitedLittle, Pinned, OnTheWay, Account
  <2> QED BY <2>2, <2>3 DEF CountsOK
<1>3. CASE Resolve
  BY <1>2, <1>3 DEF Resolve, local, Goto
<1>4. CASE ResolveFallback
  <2>1. /\ rung = "resolve" /\ tries' = tries /\ timeouts' = timeouts /\ call' = call
        /\ rung' \in {"ask", "idle"}
    BY <1>4 DEF ResolveFallback, Goto, Leave
  <2>2. \/ resolved' = resolved /\ (client' = client \/ rung' = "ask")
        \/ resolved'.kind # "named"
    <3>1. \/ resolved' = resolved /\ (client' = client \/ rung' = "ask")
          \/ \E b \in TaskChain \ {resolved.by} : resolved' = Label(b)
      BY <1>4, Zenon DEF ResolveFallback, Goto
    <3> QED BY <3>1 DEF Label
  <2> QED BY <1>2, <2>1, <2>2
<1>5. CASE RenewCredentials
  BY <1>2, <1>5 DEF RenewCredentials, Goto, local
<1>6. CASE Pool
  BY <1>2, <1>6 DEF Pool, Goto, local
<1>7. CASE Second
  BY <1>2, <1>7 DEF Second, Goto, local
<1>8. CASE NoFallback
  BY <1>2, <1>8 DEF NoFallback, Goto, local
<1>9. CASE EvictDead
  BY <1>2, <1>9 DEF EvictDead, Leave, local
<1>10. CASE UNCHANGED <<local, client, rung, err, tries, timeouts>>
  BY <1>10 DEF CountsOK, AuxInv, Counted, NotWaitedTwice, WaitedLittle, Pinned, OnTheWay, Retries, local
<1>11. CASE Expire
  BY <1>10, <1>11 DEF Expire
<1>12. CASE UNCHANGED auxVars
  BY <1>10, <1>12 DEF auxVars
<1> QED BY <1>3, <1>4, <1>5, <1>6, <1>7, <1>8, <1>9, <1>11, <1>12

LEMMA CountsStep ==
  ASSUME ChainAssumption, AuxInv, [AuxNext]_auxVars
  PROVE  CountsOK'
BY QuietCounts, CallCounts, FirstCounts, FirstAsyncCounts, TemperatureCounts, MaxTokensCounts, HealCounts,
   PaidCounts,
   SignedCounts, RateCounts, FallbackCounts, RetrySameCounts
DEF AuxNext, Climb

\* Credentials and clients, whatever the call is about.
ClientsOK ==
    /\ credential \in [Endpoint -> Credential]
    /\ cache \in [Key -> Client \cup {None}]
    /\ FreshByName

LEMMA ClientsAreOK ==
  ASSUME AuxInv
  PROVE  ClientsOK
BY DEF AuxInv, AuxTypeOK, ClientsOK

\* Who is evicted may have other credentials.
LEMMA EvictKeeps ==
  ASSUME ChainAssumption, ClientsOK, NEW b \in Endpoint, Evict(b),
         credential' \in [Endpoint -> Credential],
         \A x \in Endpoint \ {b} : credential'[x] = credential[x]
  PROVE  ClientsOK'
<1>1. cache' = [k \in Key |-> IF k.provider = b THEN None ELSE cache[k]]
  BY DEF Evict
<1> QED BY <1>1 DEF ClientsOK, FreshByName

\* What is dropped leaves the rest as it was.
LEMMA DropKeeps ==
  ASSUME ChainAssumption, ClientsOK, EvictDead
  PROVE  ClientsOK'
<1>1. credential' = credential
  BY DEF EvictDead
<1>2. cache' \in [Key -> Client \cup {None}] /\ \A k \in Key : cache'[k] \in {None, cache[k]}
  BY DEF EvictDead, ClientsOK
<1> QED BY <1>1, <1>2 DEF ClientsOK, FreshByName

\* What is built is built with the credentials in force.
LEMMA GotKeeps ==
  ASSUME ChainAssumption, AuxInv, NEW k \in Key, NEW S \in SUBSET Endpoint, NEW c,
         k.provider # "auto" => S = {k.provider},
         GetCached(k, S, c), credential' = credential
  PROVE  ClientsOK'
<1>1. UNCHANGED cache \/ \E b \in S : cache' = [cache EXCEPT ![k] = Built(b)]
  BY Zenon DEF GetCached
<1>2. ClientsOK
  BY ClientsAreOK
<1>3. CASE UNCHANGED cache
  BY <1>2, <1>3 DEF ClientsOK, FreshByName
<1>4. ASSUME NEW b \in S, cache' = [cache EXCEPT ![k] = Built(b)]
      PROVE  ClientsOK'
  <2>1. /\ Built(b) \in Client /\ Built(b).to = b /\ Built(b).by = credential[b]
    BY <1>2 DEF ClientsOK, Built, Client
  <2>2. /\ cache' \in [Key -> Client \cup {None}]
        /\ \A x \in Key : cache'[x] = IF x = k THEN Built(b) ELSE cache[x]
    BY <1>2, <1>4, <2>1 DEF ClientsOK
  <2> QED BY <1>2, <2>1, <2>2 DEF ClientsOK, FreshByName
<1> QED BY <1>1, <1>3, <1>4

LEMMA RenewTypes ==
  ASSUME ChainAssumption, ClientsOK, NEW b \in Endpoint, \/ MayRenew /\ Renew(b)
                                                     \/ RotateEntry(b)
  PROVE  /\ credential' \in [Endpoint -> Credential]
         /\ \A x \in Endpoint \ {b} : credential'[x] = credential[x]
<1>1. CASE MayRenew /\ Renew(b)
  <2>1. PICK n \in Nat : n = MaxRenewals
    BY DEF ChainAssumption
  <2>2. credential[b].token + 1 \in 0 .. MaxRenewals /\ credential[b].entry \in 0 .. 1
    BY <1>1, <2>1 DEF ClientsOK, MayRenew, Credential
  <2>3. [credential[b] EXCEPT !.token = @ + 1] \in Credential
    BY <2>2 DEF ClientsOK, Credential
  <2> QED BY <1>1, <2>3 DEF ClientsOK, Renew
<1>2. CASE RotateEntry(b)
  BY <1>2 DEF ClientsOK, RotateEntry, Credential, ChainAssumption
<1> QED BY <1>1, <1>2

\* The pool's next entry, or a new token.
LEMMA RecoverKeeps ==
  ASSUME ChainAssumption, ClientsOK, NEW b \in Endpoint, NEW e, Recover(b, e)
  PROVE  ClientsOK'
<1>1. Evict(b) /\ ((MayRenew /\ Renew(b)) \/ RotateEntry(b))
  BY DEF Recover
<1> QED BY <1>1, RenewTypes, EvictKeeps

LEMMA PoolProviderIsEndpoint ==
  ASSUME ChainAssumption, AuxInv, rung \notin {"idle", "resolve"}
  PROVE  PoolProvider \subseteq Endpoint /\ client.to \in Endpoint
BY DEF AuxInv, AuxTypeOK, Held, PoolProvider, Client

LEMMA EntryReplaced ==
  \A S, T, f, k, c : f \in [S -> T] /\ k \in S /\ c \in T =>
      /\ [f EXCEPT ![k] = c] \in [S -> T]
      /\ [f EXCEPT ![k] = c][k] = c
      /\ \A x \in S \ {k} : [f EXCEPT ![k] = c][x] = f[x]
OBVIOUS

\* The key of a Nous account, stored under whatever name.
LEMMA RefreshKeeps ==
  ASSUME ChainAssumption, AuxInv, rung \notin {"idle", "resolve"}, client.to \in Nous, MayRenew, Renew(client.to),
         cache' = [cache EXCEPT ![KeyOf(resolved, "model")] = [to |-> client.to, by |-> credential'[client.to]]]
  PROVE  ClientsOK'
<1>1. PICK k \in Key : k = KeyOf(resolved, "model")
  BY KeyOfIsKey DEF Form
<1>2. PICK b \in Nous \cap Endpoint : b = client.to
  BY PoolProviderIsEndpoint
<1>4. ClientsOK
  BY ClientsAreOK
<1>5. /\ credential' \in [Endpoint -> Credential]
      /\ \A x \in Endpoint \ {b} : credential'[x] = credential[x]
  BY <1>2, <1>4, RenewTypes
<1>6. PICK c \in Client : c = [to |-> b, by |-> credential'[b]]
  BY <1>5 DEF Client
<1>7. cache' = [cache EXCEPT ![k] = c]
  BY <1>1, <1>2, <1>6
<1>8. /\ cache' \in [Key -> Client \cup {None}]
      /\ cache'[k] = c
      /\ \A x \in Key \ {k} : cache'[x] = cache[x]
  <2>1. cache \in [Key -> Client \cup {None}] /\ k \in Key /\ c \in Client \cup {None}
    BY <1>4, Zenon DEF ClientsOK
  <2>2. /\ [cache EXCEPT ![k] = c] \in [Key -> Client \cup {None}]
        /\ [cache EXCEPT ![k] = c][k] = c
        /\ \A x \in Key \ {k} : [cache EXCEPT ![k] = c][x] = cache[x]
    BY <2>1, EntryReplaced, Zenon
  <2> QED BY <1>7, <2>2, Zenon
<1>9. FreshByName'
  <2> SUFFICES ASSUME NEW x \in Key, NEW y \in Endpoint \ Nous,
                      cache'[x] # None, x.provider = y, cache'[x].to = y
               PROVE  cache'[x].by = credential'[y]
    BY DEF FreshByName
  <2>1. x # k /\ y # b
    BY <1>2, <1>6, <1>8
  <2>2. cache'[x] = cache[x] /\ credential'[y] = credential[y]
    BY <1>5, <1>8, <2>1
  <2> QED BY <1>4, <2>2 DEF ClientsOK, FreshByName
<1> QED BY <1>5, <1>8, <1>9 DEF ClientsOK

LEMMA ClientsStep ==
  ASSUME ChainAssumption, AuxInv, [AuxNext]_auxVars
  PROVE  ClientsOK'
<1>1. ClientsOK /\ (rung \notin {"idle", "resolve"} => PoolProvider \subseteq Endpoint)
  BY ClientsAreOK, PoolProviderIsEndpoint
<1>2. CASE UNCHANGED <<credential, cache>>
  BY <1>1, <1>2 DEF ClientsOK, FreshByName
<1>3. CASE Resolve
  <2> DEFINE S == IF resolved.kind = "named" THEN {resolved.by} ELSE Candidates(FALSE)
  <2>1. S \in SUBSET Endpoint /\ (CallKey.provider # "auto" => S = {CallKey.provider})
    BY <1>3, AskedOf DEF Resolve
  <2>2. \E c : c = client' /\ GetCached(CallKey, S, c)
    BY <1>3, Zenon DEF Resolve, S
  <2>3. credential' = credential
    BY <1>3 DEF Resolve
  <2> HIDE DEF S
  <2> QED BY <2>1, <2>2, <2>3, CallKeyIsKey, GotKeeps
<1>4. CASE ResolveFallback
  <2>1. UNCHANGED cache \/ \E c : c = client' /\ GetCached(KeyOf(Automatic, "task"), Candidates(TRUE), c)
    BY <1>4, Zenon DEF ResolveFallback
  <2>2. credential' = credential
    BY <1>4 DEF ResolveFallback
  <2>3. /\ KeyOf(Automatic, "task") \in Key /\ KeyOf(Automatic, "task").provider = "auto"
        /\ Candidates(TRUE) \in SUBSET Endpoint
    BY KeyOfIsKey, CandidatesAreEndpoints DEF Form
  <2> QED BY <1>2, <2>1, <2>2, <2>3, GotKeeps
<1>5. CASE Paid \/ Signed
  <2>1. \/ UNCHANGED <<credential, cache>>
        \/ /\ rung \in {"paid", "signed"} /\ client.to \in Nous /\ MayRenew /\ Renew(client.to)
           /\ cache' = [cache EXCEPT ![KeyOf(resolved, "model")] = [to |-> client.to, by |-> credential'[client.to]]]
    BY <1>5, Zenon DEF Paid, Signed, RefreshNous, IsNous
  <2> QED BY <1>2, <2>1, RefreshKeeps
<1>6. CASE RenewCredentials
  <2>1. \/ UNCHANGED <<credential, cache>>
        \/ MayRenew /\ Renew(resolved.by) /\ Evict(resolved.by)
    BY <1>6 DEF RenewCredentials
  <2>2. \E b \in Endpoint : b = resolved.by
    BY CountsRange
  <2> QED BY <1>1, <1>2, <2>1, <2>2, RenewTypes, EvictKeeps
<1>7. CASE Pool \/ Second
  <2>1. rung \notin {"idle", "resolve"}
    BY <1>7 DEF Pool, Second
  <2>2. \/ UNCHANGED <<credential, cache>>
        \/ \E b \in Endpoint : \E e : Recover(b, e)
    BY <1>1, <1>7, <2>1, Zenon DEF Pool, Second
  <2> QED BY <1>1, <1>2, <2>2, RecoverKeeps
<1>8. CASE RetrySame
  <2> DEFINE S == IF resolved.kind = "named" THEN {resolved.by} ELSE Candidates(FALSE)
  <2>1. S \in SUBSET Endpoint /\ (CallKey.provider # "auto" => S = {CallKey.provider})
    BY <1>8, AskedOf DEF RetrySame
  <2>2. \E c : GetCached(CallKey, S, c)
    BY <1>8, Zenon DEF RetrySame, S
  <2>3. credential' = credential
    BY <1>8 DEF RetrySame
  <2> HIDE DEF S
  <2> QED BY <2>1, <2>2, <2>3, CallKeyIsKey, GotKeeps
<1>9. CASE EvictDead
  BY <1>1, <1>9, DropKeeps
<1>10. CASE \/ Call \/ First \/ FirstAsync \/ Temperature \/ MaxTokens \/ Heal
            \/ Rate \/ Fallback \/ NoFallback \/ Expire
  BY <1>2, <1>10 DEF Call, First, FirstAsync, Temperature, MaxTokens, Heal, Rate,
     Fallback, NoFallback, Expire, shared
<1>11. CASE UNCHANGED auxVars
  BY <1>2, <1>11 DEF auxVars, shared
<1> QED BY <1>3, <1>4, <1>5, <1>6, <1>7, <1>8, <1>9, <1>10, <1>11 DEF AuxNext, Climb

\* The call and its client.
CallOK ==
    /\ calls \in 0 .. MaxCalls /\ call \in Arguments
    /\ resolved \in [kind : {"named", "auto", "label"}, by : Endpoint]
    /\ client \in Client \cup {None}
    /\ Held

LEMMA CallStep ==
  ASSUME ChainAssumption, AuxInv, [AuxNext]_auxVars
  PROVE  CallOK'
<1>0. CallOK
  BY DEF AuxInv, AuxTypeOK, CallOK
<1>1. CASE Call
  BY <1>0, <1>1 DEF Call, CallOK, Held, Goto, Automatic, Named, ChainAssumption
<1>2. ASSUME UNCHANGED <<calls, call, resolved, client>>,
             rung' \notin {"idle", "resolve"} => rung \notin {"idle", "resolve"},
             rung' \notin {"resolve", "recovered", "renewed"} \/ rung' = rung
      PROVE  CallOK'
  BY <1>0, <1>2 DEF CallOK, Held
<1>3. CASE Resolve
  <2> DEFINE S == IF resolved.kind = "named" THEN {resolved.by} ELSE Candidates(FALSE)
  <2>1. S \in SUBSET Endpoint
    BY <1>3, AskedOf DEF Resolve
  <2>2. \E c : c = client' /\ GetCached(CallKey, S, c) /\ c # None
    BY <1>3, Zenon DEF Resolve, S
  <2> HIDE DEF S
  <2>3. client' \in Client
    BY <2>1, <2>2, CallKeyIsKey, GotIsClient
  <2>4. UNCHANGED <<calls, call, resolved>> /\ rung' = "ask" /\ rung = "resolve"
    BY <1>3 DEF Resolve, local, Goto
  <2> QED BY <1>0, <2>3, <2>4 DEF CallOK, Held
<1>4. CASE ResolveFallback
  <2>1. UNCHANGED <<calls, call>> /\ rung = "resolve"
    BY <1>4 DEF ResolveFallback
  <2>2. CASE \E b \in TaskChain : client' = Built(b) /\ resolved' = Label(b) /\ rung' = "ask"
    BY <1>0, <2>1, <2>2, ClientsAreOK
    DEF CallOK, Held, ClientsOK, Built, Label, Client, ChainAssumption
  <2>3. CASE /\ rung' = "ask" /\ resolved' = resolved
             /\ \E c : c = client' /\ GetCached(KeyOf(Automatic, "task"), Candidates(TRUE), c) /\ c # None
    <3>1. KeyOf(Automatic, "task") \in Key /\ Candidates(TRUE) \in SUBSET Endpoint
      BY KeyOfIsKey, CandidatesAreEndpoints DEF Form
    <3>2. client' \in Client
      BY <2>3, <3>1, GotIsClient
    <3> QED BY <1>0, <2>1, <2>3, <3>2 DEF CallOK, Held
  <2>4. CASE rung' = "idle" /\ UNCHANGED <<client, resolved>>
    BY <1>0, <2>1, <2>4 DEF CallOK, Held
  <2> QED BY <1>4, <2>2, <2>3, <2>4, Zenon DEF ResolveFallback, Goto, Leave
<1>5. CASE First
  BY <1>2, <1>5 DEF First, Ask, Goto, Leave, local
<1>6. CASE FirstAsync
  BY <1>2, <1>6 DEF FirstAsync, Ask, Goto, Leave, local
<1>7. CASE Temperature
  BY <1>2, <1>7, TemperatureRequested DEF Temperature, Requested, NoRequest, local
<1>8. CASE MaxTokens
  BY <1>2, <1>8, MaxTokensRequested DEF MaxTokens, Requested, NoRequest, local
<1>9. CASE Heal
  BY <1>2, <1>9, HealRequested DEF Heal, Requested, NoRequest, local
<1>10. CASE Paid
  BY <1>2, <1>10, PaidRequested DEF Paid, Requested, NoRequest, local
<1>11. CASE Signed
  BY <1>2, <1>11, SignedRequested DEF Signed, Requested, NoRequest, local
<1>12. CASE RenewCredentials
  BY <1>0, <1>12 DEF RenewCredentials, CallOK, Held, Goto, local
<1>13. CASE Rate
  BY <1>2, <1>13, RateRequested DEF Rate, Requested, NoRequest, local
<1>14. CASE Pool
  <2>1. /\ UNCHANGED <<calls, call, resolved, client>> /\ rung = "pool"
        /\ \/ rung' = "recovered" /\ PoolProvider # {}
           \/ rung' = "fallback"
    BY <1>14 DEF Pool, Goto, local
  <2> QED BY <1>0, <2>1 DEF CallOK, Held, PoolProvider
<1>15. CASE RetrySame
  BY <1>2, <1>15, RetrySameRequested DEF RetrySame, Requested, NoRequest, local
<1>16. CASE Second
  BY <1>2, <1>16 DEF Second, Goto, local
<1>17. CASE Fallback
  BY <1>2, <1>17, FallbackRequested DEF Fallback, Requested, NoRequest, local
<1>18. CASE NoFallback
  BY <1>2, <1>18 DEF NoFallback, Goto, local
<1>19. CASE EvictDead
  BY <1>2, <1>19 DEF EvictDead, Leave, local
<1>20. CASE Expire
  BY <1>2, <1>20 DEF Expire, local
<1>21. CASE UNCHANGED auxVars
  BY <1>2, <1>21 DEF auxVars, local
<1> QED BY <1>1, <1>3, <1>4, <1>5, <1>6, <1>7, <1>8, <1>9, <1>10, <1>11, <1>12, <1>13, <1>14, <1>15, <1>16,
     <1>17, <1>18, <1>19, <1>20, <1>21 DEF AuxNext, Climb

\* Who is asked once more was evicted just before.
LEMMA EvictedStep ==
  ASSUME ChainAssumption, AuxInv, [AuxNext]_auxVars
  PROVE  Evicted'
<1>1. CASE rung' \notin {"renewed", "recovered"}
  BY <1>1 DEF Evicted
<1>2. ASSUME UNCHANGED <<resolved, client, cache, rung>>
      PROVE  Evicted'
  BY <1>2 DEF AuxInv, Evicted, Pinned
<1>3. CASE RenewCredentials
  <2>1. rung' = "rate" \/ (Evict(resolved.by) /\ resolved' = resolved)
    BY <1>3 DEF RenewCredentials, Goto, local
  <2> QED BY <1>1, <2>1 DEF Evict, Evicted
<1>4. CASE Pool
  <2>1. \/ rung' = "fallback"
        \/ UNCHANGED <<resolved, client>> /\ \E b \in PoolProvider : Evict(b)
    BY <1>4, Zenon DEF Pool, Recover, Goto, local
  <2>2. Pinned => PoolProvider \subseteq {resolved.by}
    BY DEF Pinned, PoolProvider
  <2> QED BY <1>1, <2>1, <2>2 DEF Evict, Evicted, Pinned
<1>5. CASE Expire
  BY <1>2, <1>5 DEF Expire, local
<1>6. CASE UNCHANGED auxVars
  BY <1>2, <1>6 DEF auxVars, local, shared
<1>7. CASE Call \/ Resolve \/ ResolveFallback \/ Second \/ NoFallback \/ EvictDead
  BY <1>1, <1>7 DEF Call, Resolve, ResolveFallback, Second, NoFallback, EvictDead, Goto, Leave
<1>8. CASE First \/ FirstAsync
  BY <1>1, <1>8, FirstRequested, FirstAsyncRequested DEF Requested
<1>9. CASE Temperature \/ MaxTokens \/ Heal \/ Paid \/ Signed \/ Rate \/ Fallback
  BY <1>1, <1>9, TemperatureRequested, MaxTokensRequested, HealRequested, PaidRequested, SignedRequested,
     RateRequested, FallbackRequested DEF Requested, NoRequest
<1>10. CASE RetrySame
  BY <1>1, <1>10, RetrySameRequested DEF Requested, NoRequest
<1> QED BY <1>3, <1>4, <1>5, <1>6, <1>7, <1>8, <1>9, <1>10 DEF AuxNext, Climb

\* Where the call is, and what it is told.
StageOK ==
    /\ rung \in {"idle", "resolve", "ask", "again", "renewed", "recovered"} \cup Ladder
    /\ params \subseteq Param /\ {err, first} \subseteq Error \cup {None}
    /\ tries \in Nat /\ timeouts \in [Endpoint -> Nat] /\ unhealthy \subseteq Endpoint

LEMMA StageStep ==
  ASSUME ChainAssumption, AuxInv, [AuxNext]_auxVars
  PROVE  StageOK'
<1>0. StageOK /\ (rung \notin {"idle", "resolve"} => PoolProvider \subseteq Endpoint)
  BY CountsRange, PoolProviderIsEndpoint DEF AuxInv, AuxTypeOK, StageOK
<1>1. CASE Call
  BY <1>0, <1>1 DEF Call, StageOK, Goto, shared, Arguments, Param
<1>2. CASE Resolve
  BY <1>0, <1>2 DEF Resolve, StageOK, Goto
<1>3. CASE ResolveFallback
  BY <1>0, <1>3 DEF ResolveFallback, StageOK, Goto, Leave
<1>4. CASE First
  BY <1>0, <1>4, FirstRequested DEF First, StageOK, Requested, NoRequest, Ladder, shared
<1>5. CASE FirstAsync
  BY <1>0, <1>5, FirstAsyncRequested DEF FirstAsync, StageOK, Requested, NoRequest, Ladder, shared
<1>6. CASE Temperature
  BY <1>0, <1>6, TemperatureRequested DEF Temperature, StageOK, Requested, NoRequest, Ladder, shared
<1>7. CASE MaxTokens
  BY <1>0, <1>7, MaxTokensRequested DEF MaxTokens, StageOK, Requested, NoRequest, Ladder, shared
<1>8. CASE Heal
  BY <1>0, <1>8, HealRequested DEF Heal, StageOK, Requested, NoRequest, Ladder, shared
<1>9. CASE Paid
  BY <1>0, <1>9, PaidRequested DEF Paid, StageOK, Requested, NoRequest, Ladder, shared
<1>10. CASE Signed
  BY <1>0, <1>10, SignedRequested DEF Signed, StageOK, Requested, NoRequest, Ladder, shared
<1>11. CASE Rate
  BY <1>0, <1>11, RateRequested DEF Rate, StageOK, Requested, NoRequest, Ladder, shared
<1>12. CASE RetrySame
  <2>1. UNCHANGED <<params, first, unhealthy>>
    BY <1>12 DEF RetrySame
  <2>2. CASE NoRequest("idle") /\ err' = err
    BY <1>0, <2>1, <2>2 DEF StageOK, NoRequest
  <2>3. CASE \E c \in Client : Requested(c, IF rung = "renewed" THEN {} ELSE Account, "second")
    BY <1>0, <2>1, <2>3 DEF StageOK, Requested, Ladder
  <2> QED BY <1>12, <2>2, <2>3, RetrySameRequested
<1>13. CASE RenewCredentials
  BY <1>0, <1>13 DEF RenewCredentials, StageOK, Goto, Leave, Ladder, shared
<1>14. CASE Pool
  BY <1>0, <1>14 DEF Pool, StageOK, Goto, Leave, Ladder, shared
<1>15. CASE Second
  BY <1>0, <1>15 DEF Second, StageOK, Goto, Leave, Ladder, shared
<1>16. CASE NoFallback
  BY <1>0, <1>16 DEF NoFallback, StageOK, Goto, Leave, Ladder, shared
<1>17. CASE EvictDead
  BY <1>0, <1>17 DEF EvictDead, StageOK, Goto, Leave, Ladder, shared
<1>18. CASE Expire
  BY <1>0, <1>18 DEF Expire, StageOK, Goto, Leave, Ladder, shared
<1>19. CASE Fallback
  <2>1. unhealthy' \subseteq Endpoint /\ UNCHANGED <<params, first>>
    BY <1>0, <1>19 DEF Fallback, StageOK
  <2> QED BY <1>0, <2>1, FallbackRequested, <1>19 DEF StageOK, Requested, NoRequest, Ladder
<1>20. CASE UNCHANGED auxVars
  BY <1>0, <1>20 DEF auxVars, shared, StageOK
<1> QED BY <1>1, <1>2, <1>3, <1>4, <1>5, <1>6, <1>7, <1>8, <1>9, <1>10, <1>11, <1>12, <1>13, <1>14, <1>15,
   <1>16, <1>17, <1>18, <1>19, <1>20 DEF AuxNext, Climb

\* AuxInv is an inductive invariant of the calls.
THEOREM AuxInductive == AuxSpec => []AuxInv
<1>1. AuxInit => AuxInv
  <2> SUFFICES ASSUME AuxInit PROVE AuxInv
    OBVIOUS
  <2>1. AuxTypeOK
    BY ChainAssumption DEF ChainAssumption, AuxInit, AuxTypeOK, Arguments, Automatic, Credential
  <2>2. Counted
    <3>1. Retries \in Nat
      BY ChainAssumption, <2>1 DEF ChainAssumption, AuxTypeOK, Retries, Arguments
    <3>2. /\ rung = "idle" /\ tries = 0 /\ \A b \in Endpoint : timeouts[b] = 0
      BY DEF AuxInit
    <3> QED BY <3>1, <3>2 DEF Counted
  <2>3. Held /\ Evicted /\ NotWaitedTwice /\ FreshByName
    BY DEF AuxInit, Held, Evicted, Pinned, NotWaitedTwice, FreshByName, Automatic
  <2> QED BY <2>1, <2>2, <2>3 DEF AuxInv
<1>2. AuxInv /\ [AuxNext]_auxVars => AuxInv'
  <2>0. SUFFICES ASSUME AuxInv, [AuxNext]_auxVars PROVE AuxInv'
    OBVIOUS
  <2>1. CountsOK' /\ ClientsOK' /\ CallOK' /\ StageOK' /\ Evicted'
    BY <2>0, ChainAssumption, CountsStep, ClientsStep, CallStep, StageStep, EvictedStep
  <2>2. AuxTypeOK'
    <3>1. /\ Retries' \in Nat /\ Retries' <= Transients + 1
      BY ChainAssumption, <2>1 DEF CallOK, ChainAssumption, Retries, Arguments
    <3>2. \A t, n, m \in Nat : n <= t + 1 /\ m <= n + 7 => m \in 0 .. t + 10
      OBVIOUS
    <3>3. tries' \in 0 .. Transients + 10
      BY ChainAssumption, <2>1, <3>1, <3>2 DEF CountsOK, Counted, StageOK, ChainAssumption
    <3>4. \A b \in Endpoint : timeouts'[b] \in 0 .. Transients + 10
      BY ChainAssumption, <2>1, <3>3 DEF CountsOK, Counted, StageOK, ChainAssumption
    <3>5. timeouts' \in [Endpoint -> 0 .. Transients + 10]
      BY <2>1, <3>4 DEF StageOK
    <3> QED BY <2>1, <3>3, <3>5 DEF CallOK, StageOK, ClientsOK, AuxTypeOK
  <2> QED BY <2>1, <2>2 DEF CountsOK, ClientsOK, CallOK, AuxInv
<1> QED BY <1>1, <1>2, PTL DEF AuxSpec

\* The ladder ends, and costs a compression that the provider it named serves no
\* further time-out.
THEOREM LadderIsBounded == AuxSpec => []LadderBounded
<1>1. AuxInv => LadderBounded
  <2> SUFFICES ASSUME AuxInv PROVE LadderBounded
    OBVIOUS
  <2>1. AuxTypeOK /\ RequestsBounded
    BY DEF AuxInv, Counted, RequestsBounded
  <2>2. CompressionWaits
    BY DEF AuxInv, NotWaitedTwice, WaitedLittle, Pinned, CompressionWaits
  <2> QED BY <2>1, <2>2 DEF LadderBounded
<1> QED BY <1>1, AuxInductive, PTL

\* Clients asked for by name have the credentials in force.
THEOREM ClientsAreFresh == AuxSpec => []FreshByName
<1>1. AuxInv => FreshByName
  BY DEF AuxInv
<1> QED BY <1>1, AuxInductive, PTL
=============================================================================
