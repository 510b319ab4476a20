-------------------------- MODULE ToolCatalogueProofs --------------------------
(***************************************************************************)
(* Proofs about CheckFnCache and about ToolCatalogue, which is built on    *)
(* it, for any number of threads, any lengths of the time to live and the  *)
(* grace period, any tools, toolsets and requests, and a memo of any size. *)
(*                                                                         *)
(* The inductive invariant of the checks says that whatever could make a   *)
(* caller answer "available" is dated no later than the beginning of the   *)
(* outage.  That of the catalogue says what a request that still has the   *)
(* key of now holds in its hands at each of its steps; a mutation of the   *)
(* registry makes every such key, and every memo's, an old one.            *)
(***************************************************************************)
EXTENDS ToolCatalogue, SequenceTheorems, FiniteSetTheorems, TLAPS

-----------------------------------------------------------------------------
(* The availability checks.                                                *)

\* x is a time from before the outage, if there is one.
Before(x) == downSince # None => x <= downSince

Dated ==
    /\ downSince # None => downSince <= clock
    /\ \A t \in Thread : began[t] <= clock
    /\ cache # None => cache.at <= clock
    /\ lastGood # None => lastGood <= clock

SuccessesPrecedeOutage ==
    /\ cache # None /\ cache.ok => Before(cache.at)
    /\ lastGood # None => Before(lastGood)
    /\ \A t \in Thread : pc[t] = "store" /\ value[t] => Before(began[t])

IInv == TypeOK /\ Dated /\ SuccessesPrecedeOutage /\ NoFailurePinnedInGrace /\ OutageHonoured

\* Times are numbers, and none of them is the sentinel.
LEMMA TimesAreIntegers ==
    /\ Time \subseteq Int
    /\ None \notin Time
    /\ Ttl \in Int /\ Grace \in Int /\ 0 < Ttl /\ Ttl <= Grace
  BY TimesAssumption DEF Time

\* Nothing has been probed yet.
LEMMA InitIInv == Init => IInv
  BY TimesAssumption, SMTT(30)
  DEF Init, IInv, TypeOK, Time, Dated, Before, SuccessesPrecedeOutage, NoFailurePinnedInGrace,
      OutageHonoured

\* Every step keeps it.
LEMMA StepIInv == IInv /\ [Next]_vars => IInv'
<1> SUFFICES ASSUME IInv, [Next]_vars PROVE IInv'
  OBVIOUS
<1> USE TimesAreIntegers DEF IInv
<1>1. ASSUME NEW t \in Thread, Call(t) PROVE IInv'
  BY <1>1, SMTT(30)
  DEF Call, Goto, world, kept, TypeOK, Time, Dated, Before, SuccessesPrecedeOutage,
      NoFailurePinnedInGrace, OutageHonoured
<1>2. ASSUME NEW t \in Thread, Hit(t) PROVE IInv'
  <2>1. TypeOK' /\ Dated' /\ SuccessesPrecedeOutage' /\ NoFailurePinnedInGrace'
    BY <1>2, SMTT(30)
    DEF Hit, Fresh, Verdict, Goto, world, kept, TypeOK, Time, Dated, Before,
        SuccessesPrecedeOutage, NoFailurePinnedInGrace
  <2>2. value'[t] /\ downSince # None => began[t] < downSince + Grace
    <3> SUFFICES ASSUME value'[t], downSince # None PROVE began[t] < downSince + Grace
      OBVIOUS
    <3>1. cache # None /\ cache.ok /\ began[t] - cache.at < Ttl
      BY <1>2 DEF Hit, Fresh, Verdict, TypeOK
    <3>2. cache.at <= downSince
      BY <3>1 DEF SuccessesPrecedeOutage, Before
    <3> QED BY <3>1, <3>2 DEF TypeOK, Time
  <2>3. OutageHonoured'
    BY <1>2, <2>2 DEF Hit, Verdict, Goto, world, kept, OutageHonoured, TypeOK
  <2> QED BY <2>1, <2>3
<1>3. ASSUME NEW t \in Thread, Miss(t) PROVE IInv'
  BY <1>3, SMTT(30)
  DEF Miss, Fresh, Goto, world, kept, TypeOK, Time, Dated, Before, SuccessesPrecedeOutage,
      NoFailurePinnedInGrace, OutageHonoured
<1>4. ASSUME NEW t \in Thread, Probe(t) PROVE IInv'
  BY <1>4, SMTT(30)
  DEF Probe, Goto, world, kept, TypeOK, Time, Dated, Before, SuccessesPrecedeOutage,
      NoFailurePinnedInGrace, OutageHonoured
<1>5. ASSUME NEW t \in Thread, StoreSuccess(t) PROVE IInv'
  <2>1. Before(began[t]) /\ began[t] \in Time
    BY <1>5 DEF StoreSuccess, SuccessesPrecedeOutage, TypeOK
  <2>2. TypeOK' /\ Dated' /\ SuccessesPrecedeOutage'
    BY <1>5, <2>1, SMTT(30)
    DEF StoreSuccess, Goto, world, TypeOK, Dated, Before, SuccessesPrecedeOutage
  <2>3. NoFailurePinnedInGrace'
    BY <1>5 DEF StoreSuccess, NoFailurePinnedInGrace
  <2>4. downSince # None => began[t] < downSince + Grace
    BY <2>1 DEF Before, TypeOK, Time
  <2>5. OutageHonoured'
    BY <1>5, <2>4 DEF StoreSuccess, Goto, world, OutageHonoured, TypeOK
  <2> QED BY <2>2, <2>3, <2>5
<1>6. ASSUME NEW t \in Thread, ForgiveFailure(t) PROVE IInv'
  <2>1. TypeOK' /\ Dated' /\ SuccessesPrecedeOutage' /\ NoFailurePinnedInGrace'
    BY <1>6, SMTT(30)
    DEF ForgiveFailure, Verdict, Goto, world, kept, TypeOK, Time, Dated, Before,
        SuccessesPrecedeOutage, NoFailurePinnedInGrace
  <2>2. downSince # None => began[t] < downSince + Grace
    <3> SUFFICES ASSUME downSince # None PROVE began[t] < downSince + Grace
      OBVIOUS
    <3>1. lastGood # None /\ began[t] - lastGood < Grace
      BY <1>6 DEF ForgiveFailure, WithinGrace
    <3>2. lastGood <= downSince
      BY <3>1 DEF SuccessesPrecedeOutage, Before
    <3> QED BY <3>1, <3>2 DEF TypeOK, Time
  <2>3. OutageHonoured'
    BY <1>6, <2>2 DEF ForgiveFailure, Verdict, Goto, world, kept, OutageHonoured, TypeOK
  <2> QED BY <2>1, <2>3
<1>7. ASSUME NEW t \in Thread, StoreFailure(t) PROVE IInv'
  <2>1. began[t] \in Time /\ ~value[t] /\ cache' = [at |-> began[t], ok |-> FALSE]
    BY <1>7 DEF StoreFailure, TypeOK
  <2>2. TypeOK' /\ Dated' /\ SuccessesPrecedeOutage'
    BY <1>7, <2>1, SMTT(30)
    DEF StoreFailure, Goto, world, TypeOK, Dated, Before, SuccessesPrecedeOutage
  <2>3. NoFailurePinnedInGrace'
    BY <1>7, <2>1 DEF StoreFailure, WithinGrace, NoFailurePinnedInGrace, TypeOK, Time
  <2>4. OutageHonoured'
    BY <1>7, <2>1 DEF StoreFailure, Goto, world, OutageHonoured, TypeOK
  <2> QED BY <2>2, <2>3, <2>4
<1>8. ASSUME NEW t \in Thread, Return(t) PROVE IInv'
  BY <1>8, TimesAssumption, SMTT(30)
  DEF Return, Goto, world, kept, TypeOK, Time, Dated, Before, SuccessesPrecedeOutage,
      NoFailurePinnedInGrace, OutageHonoured
<1>9. CASE Invalidate
  BY <1>9, SMTT(30)
  DEF Invalidate, world, TypeOK, Time, Dated, Before, SuccessesPrecedeOutage,
      NoFailurePinnedInGrace, OutageHonoured
<1>10. CASE GoDown
  <2>1. clock \in Time /\ downSince' = clock /\ UNCHANGED <<clock, cache, lastGood, pc, began, value>>
    BY <1>10 DEF GoDown, kept, TypeOK
  <2>2. TypeOK' /\ Dated' /\ SuccessesPrecedeOutage' /\ NoFailurePinnedInGrace'
    BY <2>1, SMTT(30) DEF TypeOK, Time, Dated, Before, SuccessesPrecedeOutage, NoFailurePinnedInGrace
  <2>3. OutageHonoured'
    BY <2>1 DEF OutageHonoured, Dated, TypeOK, Time
  <2> QED BY <2>2, <2>3
<1>11. CASE ComeUp
  BY <1>11, SMTT(30)
  DEF ComeUp, kept, TypeOK, Time, Dated, Before, SuccessesPrecedeOutage,
      NoFailurePinnedInGrace, OutageHonoured
<1>12. CASE Tick
  BY <1>12, TimesAssumption, SMTT(30)
  DEF Tick, kept, TypeOK, Time, Dated, Before, SuccessesPrecedeOutage,
      NoFailurePinnedInGrace, OutageHonoured
<1>13. CASE UNCHANGED vars
  BY <1>13, SMTT(30)
  DEF vars, TypeOK, Time, Dated, Before, SuccessesPrecedeOutage, NoFailurePinnedInGrace,
      OutageHonoured
<1> QED
  BY <1>1, <1>2, <1>3, <1>4, <1>5, <1>6, <1>7, <1>8, <1>9, <1>10, <1>11, <1>12, <1>13 DEF Next, Step

\* The invariant holds in every state of every behaviour.
THEOREM CacheInductive == Spec => []IInv
  BY InitIInv, StepIInv, PTL DEF Spec

\* The state of the cache and of its callers is well formed.
THEOREM CacheTypeCorrect == Spec => []TypeOK
<1>1. IInv => TypeOK
  BY DEF IInv
<1> QED BY <1>1, CacheInductive, PTL

\* An outage shows within the grace period, for any number of threads whose
\* probes overlap, _check_fn_cached being entered and left in any order.
THEOREM OutageIsHonoured == Spec => []OutageHonoured
<1>1. IInv => OutageHonoured
  BY DEF IInv
<1> QED BY <1>1, CacheInductive, PTL

\* A failure is never put on record while a success on record forgives it.
THEOREM FlakesAreForgiven == Spec => []NoFailurePinnedInGrace
<1>1. IInv => NoFailurePinnedInGrace
  BY DEF IInv
<1> QED BY <1>1, CacheInductive, PTL

-----------------------------------------------------------------------------
(* The catalogue does nothing to the checks that they do not do themselves. *)

LEMMA CatalogueStepIsCheckStep == [CNext]_allVars => [Next]_vars
<1> SUFFICES ASSUME [CNext]_allVars PROVE [Next]_vars
  OBVIOUS
<1>1. ASSUME NEW t \in Thread, Ask(t) \/ Build(t) \/ Leave(t) PROVE [Next]_vars
  <2>1. CASE Ask(t) \/ Resolve(t) \/ Read(t) \/ Evict(t) \/ Store(t) \/ Leave(t)
    BY <2>1 DEF Ask, Resolve, Read, Evict, Store, Leave
  <2>2. CASE BeginCheck(t)
    BY <2>2 DEF BeginCheck, Next
  <2>3. CASE CheckStep(t)
    BY <2>3 DEF CheckStep, Next
  <2>4. CASE Finish(t)
    BY <2>4 DEF Finish, Next
  <2> QED BY <1>1, <2>1, <2>2, <2>3, <2>4 DEF Build
<1>2. ASSUME NEW n \in Tool, Deregister(n) \/ \E toolset \in Toolset : Register(n, toolset)
      PROVE  [Next]_vars
  BY <1>2 DEF Deregister, Register, Mutates
<1>3. CASE (Invalidate \/ GoDown \/ ComeUp \/ Tick) /\ UNCHANGED catalogue
  BY <1>3 DEF Next
<1>4. CASE UNCHANGED allVars
  BY <1>4 DEF allVars
<1> QED BY <1>1, <1>2, <1>3, <1>4 DEF CNext

\* Who asks for a catalogue uses the checks as any other caller does: every
\* behaviour of the composition is, of the checks, one of CheckFnCache.
THEOREM CatalogueUsesTheChecks == CSpec => Spec
<1>1. CInit => Init
  BY DEF CInit
<1> QED BY <1>1, CatalogueStepIsCheckStep, PTL DEF CSpec, Spec

\* So what the checks promise is kept under requests for tools as well: an
\* outage shows within the grace period, and no flake is pinned.
THEOREM ChecksHoldInTheCatalogue == CSpec => [](OutageHonoured /\ NoFailurePinnedInGrace)
  BY CatalogueUsesTheChecks, OutageIsHonoured, FlakesAreForgiven, PTL

-----------------------------------------------------------------------------
(* The memo.                                                               *)

Offer == [name : Tool, since : Nat]
Memo == [asked : SUBSET Toolset, key : Nat, tools : SUBSET Offer]
Job == [at : {"out", "keyed", "resolved", "read", "evict", "store", "failed"},
        asked : SUBSET Toolset, key : Nat, names : SUBSET Tool, offers : SUBSET Offer,
        victim : Seq(Memo)]

CTypeOK ==
    /\ registry \in [Tool -> [toolset : Toolset \cup {None}, since : Nat]]
    /\ generation \in Nat
    /\ memo \in Seq(Memo)
    /\ job \in [Thread -> Job]

\* No key is from the future.
KeysAreOfThePast ==
    /\ \A i \in DOMAIN memo : memo[i].key <= generation
    /\ \A t \in Thread : job[t].key <= generation

Now(asked) == Offered(Wanted(asked, registry), registry)

\* The tools are those of now, but for some that a check has taken out.
Tells(tools, asked) ==
    /\ tools \subseteq Now(asked)
    /\ {offer \in Now(asked) : offer.name \notin Checked} \subseteq tools

\* What a thread has read under the key of now is what is registered now.
JobOfItsGeneration ==
    \A t \in Thread : job[t].key = generation =>
        /\ job[t].at = "resolved" => job[t].names = Wanted(job[t].asked, registry)
        /\ job[t].at = "read" => job[t].offers = Now(job[t].asked)
        /\ job[t].at \in {"evict", "store"} => Tells(job[t].offers, job[t].asked)

MemoTells == \A i \in DOMAIN memo : memo[i].key = generation => Tells(memo[i].tools, memo[i].asked)

CInv == CTypeOK /\ KeysAreOfThePast /\ JobOfItsGeneration /\ MemoTells

LEMMA RemovingKeeps ==
  ASSUME NEW S, NEW s \in Seq(S), NEW i \in DOMAIN s
  PROVE  /\ RemoveAt(s, i) \in Seq(S) /\ Len(RemoveAt(s, i)) = Len(s) - 1
         /\ \A j \in DOMAIN RemoveAt(s, i) : \E k \in DOMAIN s : RemoveAt(s, i)[j] = s[k]
<1> DEFINE before == SubSeq(s, 1, i - 1)
           after == SubSeq(s, i + 1, Len(s))
<1>1. i \in 1 .. Len(s) /\ Len(s) \in Nat
  OBVIOUS
<1>2. before \in Seq(S) /\ Len(before) = i - 1 /\ \A j \in 1 .. i - 1 : before[j] = s[j]
  BY <1>1
<1>3. after \in Seq(S) /\ Len(after) = Len(s) - i /\ \A j \in 1 .. Len(s) - i : after[j] = s[i + j]
  BY <1>1
<1>4. RemoveAt(s, i) = before \o after
  BY DEF RemoveAt
<1> HIDE DEF before, after
<1>5. RemoveAt(s, i) \in Seq(S) /\ Len(RemoveAt(s, i)) = Len(s) - 1
  BY <1>1, <1>2, <1>3, <1>4
<1>6. \A j \in 1 .. Len(s) - 1 :
        RemoveAt(s, i)[j] = IF j <= Len(before) THEN before[j] ELSE after[j - Len(before)]
  BY <1>1, <1>2, <1>3, <1>4, ConcatProperties
<1>7. ASSUME NEW j \in 1 .. Len(s) - 1 PROVE \E k \in DOMAIN s : RemoveAt(s, i)[j] = s[k]
  <2>1. CASE j <= i - 1
    <3>1. j \in 1 .. i - 1 /\ j \in 1 .. Len(before) /\ j \in DOMAIN s
      BY <1>1, <1>2, <2>1
    <3>2. RemoveAt(s, i)[j] = before[j]
      BY <1>2, <1>3, <1>4, <1>6, <3>1
    <3> QED BY <1>2, <3>1, <3>2
  <2>2. CASE j > i - 1
    <3>1. j - (i - 1) \in 1 .. Len(s) - i /\ j + 1 \in DOMAIN s
      BY <1>1, <2>2
    <3>2. RemoveAt(s, i)[j] = after[j - (i - 1)]
      BY <1>1, <1>2, <1>6, <2>2, <3>1
    <3>3. after[j - (i - 1)] = s[i + (j - (i - 1))]
      BY <1>3, <3>1
    <3>4. i + (j - (i - 1)) = j + 1
      BY <1>1
    <3> QED BY <3>1, <3>2, <3>3, <3>4
  <2> QED BY <1>1, <2>1, <2>2
<1> QED BY <1>5, <1>7

LEMMA OffersAreTyped ==
  ASSUME CTypeOK, NEW names \in SUBSET Tool
  PROVE  Offered(names, registry) \in SUBSET Offer
  BY DEF CTypeOK, Offered, Registered, Offer

LEMMA WantedAreTools ==
  ASSUME NEW asked \in SUBSET Toolset PROVE Wanted(asked, registry) \in SUBSET Tool
  BY CatalogueAssumption DEF Wanted, Resolved

LEMMA TheMemoHasAnOldest ==
  ASSUME CTypeOK, ~(Len(memo) < MemoMax) PROVE Head(memo) \in Memo
  BY CatalogueAssumption DEF CTypeOK

\* A list that is stored comes under its key, and nothing else changes.
LEMMA StoringKeeps ==
  ASSUME CTypeOK, NEW asked \in SUBSET Toolset, NEW key \in Nat, NEW tools \in SUBSET Offer
  PROVE  /\ Stored(asked, key, tools) \in Seq(Memo) /\ Len(Stored(asked, key, tools)) <= Len(memo) + 1
         /\ \A i \in DOMAIN Stored(asked, key, tools) :
               LET m == Stored(asked, key, tools)[i]
               IN  \/ m = [asked |-> asked, key |-> key, tools |-> tools]
                   \/ \E k \in DOMAIN memo : m = memo[k]
<1> DEFINE new == [asked |-> asked, key |-> key, tools |-> tools]
<1>1. new \in Memo /\ memo \in Seq(Memo)
  BY DEF CTypeOK, Memo
<1>2. CASE Memoized(asked, key)
  <2> DEFINE stored == [i \in DOMAIN memo |-> IF IsOf(memo[i], asked, key) THEN [memo[i] EXCEPT !.tools = tools] ELSE memo[i]]
  <2>1. \A i \in DOMAIN memo : memo[i] \in Memo
    BY <1>1
  <2>2. \A i \in DOMAIN memo : IsOf(memo[i], asked, key) => [memo[i] EXCEPT !.tools = tools] = new
    BY <2>1 DEF IsOf, Memo
  <2>3. \A i \in DOMAIN memo : stored[i] = IF IsOf(memo[i], asked, key) THEN new ELSE memo[i]
    BY <2>2
  <2>4. Stored(asked, key, tools) = stored
    BY <1>2 DEF Stored
  <2> HIDE DEF new
  <2>5. DOMAIN stored = 1 .. Len(memo) /\ Len(memo) \in Nat
    BY <1>1
  <2>6. stored = [i \in 1 .. Len(memo) |-> stored[i]]
    BY <2>5
  <2>7. \A i \in 1 .. Len(memo) : stored[i] \in Memo
    BY <1>1, <2>1, <2>3
  <2> HIDE DEF stored
  <2>8. stored \in Seq(Memo)
    BY <2>5, <2>6, <2>7
  <2>9. Len(stored) = Len(memo)
    BY <2>5, <2>8
  <2> QED BY <2>3, <2>4, <2>5, <2>8, <2>9 DEF new
<1>3. CASE ~Memoized(asked, key)
  <2>1. Stored(asked, key, tools) = Append(memo, new)
    BY <1>3 DEF Stored
  <2> HIDE DEF new
  <2>2. Append(memo, new) \in Seq(Memo) /\ Len(Append(memo, new)) = Len(memo) + 1
    BY <1>1
  <2>3. \A i \in 1 .. Len(memo) + 1 : Append(memo, new)[i] = IF i = Len(memo) + 1 THEN new ELSE memo[i]
    BY <1>1
  <2>4. Len(memo) \in Nat /\ DOMAIN memo = 1 .. Len(memo) /\ DOMAIN Append(memo, new) = 1 .. Len(memo) + 1
    BY <1>1, <2>2
  <2>5. \A i \in DOMAIN Append(memo, new) :
           Append(memo, new)[i] = new \/ \E k \in DOMAIN memo : Append(memo, new)[i] = memo[k]
    BY <2>3, <2>4
  <2> QED BY <2>1, <2>2, <2>4, <2>5 DEF new
<1> QED BY <1>2, <1>3

-----------------------------------------------------------------------------
(* The steps.                                                              *)

LEMMA CInitInv == CInit => CInv
<1> SUFFICES ASSUME CInit PROVE CInv
  OBVIOUS
<1>1. Idle \in Job
  BY DEF Idle, Job
<1>2. CTypeOK
  BY <1>1, CatalogueAssumption DEF CInit, CTypeOK
<1>3. \A t \in Thread : job[t].key = 0 /\ job[t].at = "out"
  BY DEF CInit, Idle
<1> QED BY <1>2, <1>3 DEF CInit, CInv, KeysAreOfThePast, JobOfItsGeneration, MemoTells

\* A mutation leaves nothing under the key of now.
LEMMA MutationInv ==
  ASSUME CInv, NEW entries \in [Tool -> [toolset : Toolset \cup {None}, since : Nat]], Mutates(entries)
  PROVE  CInv'
<1> USE DEF Mutates
<1>1. CTypeOK'
  BY DEF CInv, CTypeOK
<1>2. /\ \A i \in DOMAIN memo : memo[i].key \in Nat /\ memo[i].key <= generation
      /\ \A t \in Thread : job[t].key \in Nat /\ job[t].key <= generation
      /\ generation \in Nat
  <2>1. \A i \in DOMAIN memo : memo[i] \in Memo
    BY DEF CInv, CTypeOK
  <2>2. \A t \in Thread : job[t] \in Job
    BY DEF CInv, CTypeOK
  <2> QED BY <2>1, <2>2 DEF CInv, CTypeOK, KeysAreOfThePast, Memo, Job
<1>3. /\ \A i \in DOMAIN memo : memo[i].key <= generation + 1 /\ memo[i].key # generation + 1
      /\ \A t \in Thread : job[t].key <= generation + 1 /\ job[t].key # generation + 1
  BY <1>2
<1>4. KeysAreOfThePast' /\ JobOfItsGeneration' /\ MemoTells'
  BY <1>3 DEF KeysAreOfThePast, JobOfItsGeneration, MemoTells
<1> QED BY <1>1, <1>4 DEF CInv

\* What a step of thread t owes when it touches nothing but its own job.
LEMMA OwnStepInv ==
  ASSUME CInv, UNCHANGED <<registry, generation, memo>>,
         NEW t \in Thread, NEW j \in Job, Put(t, j),
         j.key <= generation,
         j.key = generation =>
            /\ j.at = "resolved" => j.names = Wanted(j.asked, registry)
            /\ j.at = "read" => j.offers = Now(j.asked)
            /\ j.at \in {"evict", "store"} => Tells(j.offers, j.asked)
  PROVE  CInv'
<1>1. job \in [Thread -> Job] /\ job' = [job EXCEPT ![t] = j]
  BY DEF CInv, CTypeOK, Put
<1>2. job' \in [Thread -> Job] /\ \A u \in Thread : job'[u] = IF u = t THEN j ELSE job[u]
  BY <1>1
<1>3. CTypeOK'
  BY <1>2 DEF CInv, CTypeOK
<1>4. KeysAreOfThePast' /\ MemoTells'
  BY <1>2 DEF CInv, KeysAreOfThePast, MemoTells, Tells, Now
<1>5. JobOfItsGeneration'
  BY <1>2 DEF CInv, JobOfItsGeneration, Tells, Now
<1> QED BY <1>3, <1>4, <1>5 DEF CInv

LEMMA JobsAreTyped ==
  ASSUME CInv, NEW t \in Thread
  PROVE  /\ job[t] \in Job /\ job[t].key <= generation
         /\ job[t].asked \in SUBSET Toolset /\ job[t].key \in Nat
         /\ job[t].names \in SUBSET Tool /\ job[t].offers \in SUBSET Offer
  <1>1. job[t] \in Job
    BY DEF CInv, CTypeOK
  <1> QED BY <1>1 DEF CInv, KeysAreOfThePast, Job

LEMMA AskInv == ASSUME CInv, NEW t \in Thread, Ask(t) PROVE CInv'
<1> USE DEF Ask
<1>1. PICK asked \in Request : Put(t, [Idle EXCEPT !.at = "keyed", !.asked = asked, !.key = generation])
  OBVIOUS
<1> DEFINE j == [Idle EXCEPT !.at = "keyed", !.asked = asked, !.key = generation]
<1>2. generation \in Nat /\ asked \in SUBSET Toolset
  BY CatalogueAssumption DEF CInv, CTypeOK
<1>3. Idle \in Job
  BY DEF Idle, Job
<1>4. j \in Job /\ j.at = "keyed" /\ j.key = generation
  BY <1>2, <1>3 DEF Job
<1>5. Put(t, j) /\ UNCHANGED <<registry, generation, memo>> /\ generation <= generation
  BY <1>1, <1>2
<1> HIDE DEF j
<1> QED BY <1>4, <1>5, OwnStepInv

LEMMA ResolveInv == ASSUME CInv, NEW t \in Thread, Resolve(t) PROVE CInv'
<1> USE DEF Resolve
<1> DEFINE j == [job[t] EXCEPT !.at = "resolved", !.names = Wanted(job[t].asked, registry)]
<1>1. Wanted(job[t].asked, registry) \in SUBSET Tool
  BY JobsAreTyped, WantedAreTools
<1>2. /\ j \in Job /\ j.at = "resolved" /\ j.key = job[t].key /\ j.asked = job[t].asked
      /\ j.names = Wanted(job[t].asked, registry)
  BY <1>1, JobsAreTyped DEF Job
<1> HIDE DEF j
<1> QED BY <1>2, JobsAreTyped, OwnStepInv DEF j

LEMMA ReadInv == ASSUME CInv, NEW t \in Thread, Read(t) PROVE CInv'
<1> USE DEF Read
<1> DEFINE j == [job[t] EXCEPT !.at = "read", !.names = {}, !.offers = Offered(job[t].names, registry)]
<1>1. Offered(job[t].names, registry) \in SUBSET Offer
  BY JobsAreTyped, OffersAreTyped DEF CInv
<1>2. /\ j \in Job /\ j.at = "read" /\ j.key = job[t].key /\ j.asked = job[t].asked
      /\ j.offers = Offered(job[t].names, registry)
  BY <1>1, JobsAreTyped DEF Job
<1>3. job[t].key = generation => job[t].names = Wanted(job[t].asked, registry)
  BY DEF CInv, JobOfItsGeneration
<1> HIDE DEF j
<1> QED BY <1>2, <1>3, JobsAreTyped, OwnStepInv DEF j, Now

LEMMA FinishInv == ASSUME CInv, NEW t \in Thread, Finish(t) PROVE CInv'
<1> USE DEF Finish
<1> DEFINE full == ~(Len(memo) < MemoMax)
           j == [job[t] EXCEPT !.at = IF Len(memo) < MemoMax THEN "store" ELSE "evict",
                               !.offers = Available(t),
                               !.victim = IF Len(memo) < MemoMax THEN <<>> ELSE <<Head(memo)>>]
<1>1. Available(t) \in SUBSET Offer
  BY JobsAreTyped DEF Available
<1>2. (IF Len(memo) < MemoMax THEN <<>> ELSE <<Head(memo)>>) \in Seq(Memo)
  BY TheMemoHasAnOldest DEF CInv
<1>3. /\ j \in Job /\ j.at \in {"store", "evict"} /\ j.key = job[t].key /\ j.asked = job[t].asked
      /\ j.offers = Available(t)
  BY <1>1, <1>2, JobsAreTyped DEF Job
<1>4. job[t].key = generation => Tells(Available(t), job[t].asked)
  BY DEF CInv, JobOfItsGeneration, Available, Tells
<1> HIDE DEF j
<1> QED BY <1>3, <1>4, JobsAreTyped, OwnStepInv DEF j

LEMMA LeaveInv == ASSUME CInv, NEW t \in Thread, Leave(t) PROVE CInv'
<1> USE DEF Leave
<1>1. Idle \in Job /\ Idle.at = "out" /\ Idle.key = 0
  BY DEF Idle, Job
<1>2. 0 <= generation
  BY DEF CInv, CTypeOK
<1> QED BY <1>1, <1>2, OwnStepInv

\* A step that may drop or write an entry of the memo, and ends with job j.
LEMMA MemoStepInv ==
  ASSUME CInv, UNCHANGED <<registry, generation>>,
         NEW t \in Thread, NEW j \in Job, Put(t, j),
         j.key <= generation,
         j.key = generation /\ j.at \in {"evict", "store"} => Tells(j.offers, j.asked),
         j.at \notin {"resolved", "read"},
         memo' \in Seq(Memo),
         \A i \in DOMAIN memo' :
            \/ memo'[i].key <= generation /\ (memo'[i].key = generation => Tells(memo'[i].tools, memo'[i].asked))
            \/ \E k \in DOMAIN memo : memo'[i] = memo[k]
  PROVE  CInv'
<1>1. job \in [Thread -> Job] /\ job' = [job EXCEPT ![t] = j]
  BY DEF CInv, CTypeOK, Put
<1>2. job' \in [Thread -> Job] /\ \A u \in Thread : job'[u] = IF u = t THEN j ELSE job[u]
  BY <1>1
<1>3. CTypeOK'
  BY <1>2 DEF CInv, CTypeOK
<1>4. \A i \in DOMAIN memo' :
        memo'[i].key <= generation /\ (memo'[i].key = generation => Tells(memo'[i].tools, memo'[i].asked))
  BY DEF CInv, KeysAreOfThePast, MemoTells
<1>5. KeysAreOfThePast'
  BY <1>2, <1>4 DEF CInv, KeysAreOfThePast
<1>6. MemoTells'
  BY <1>4 DEF MemoTells, Tells, Now
<1>7. JobOfItsGeneration'
  BY <1>2 DEF CInv, JobOfItsGeneration, Tells, Now
<1> QED BY <1>3, <1>5, <1>6, <1>7 DEF CInv

LEMMA EvictInv == ASSUME CInv, NEW t \in Thread, Evict(t) PROVE CInv'
<1>1. ASSUME NEW i \in DOMAIN memo, memo' = RemoveAt(memo, i),
             Put(t, [job[t] EXCEPT !.at = "store", !.victim = <<>>])
      PROVE  CInv'
  <2> DEFINE j == [job[t] EXCEPT !.at = "store", !.victim = <<>>]
  <2>1. /\ j \in Job /\ j.at = "store" /\ j.key = job[t].key /\ j.asked = job[t].asked
        /\ j.offers = job[t].offers
    <3>1. << >> \in Seq(Memo)
      OBVIOUS
    <3> QED BY <3>1, JobsAreTyped DEF Job
  <2>2. job[t].key = generation => Tells(job[t].offers, job[t].asked)
    BY DEF Evict, CInv, JobOfItsGeneration
  <2>3. memo' \in Seq(Memo) /\ \A l \in DOMAIN memo' : \E k \in DOMAIN memo : memo'[l] = memo[k]
    BY <1>1, RemovingKeeps DEF CInv, CTypeOK
  <2> HIDE DEF j
  <2> QED BY <1>1, <2>1, <2>2, <2>3, JobsAreTyped, MemoStepInv DEF j, Evict
<1>2. ASSUME Put(t, [Idle EXCEPT !.at = "failed"]), UNCHANGED memo PROVE CInv'
  <2> DEFINE j == [Idle EXCEPT !.at = "failed"]
  <2>1. j \in Job /\ j.at = "failed" /\ j.key = 0
    <3>1. Idle \in Job /\ Idle.key = 0
      BY DEF Idle, Job
    <3> QED BY <3>1 DEF Job
  <2>2. 0 <= generation
    BY DEF CInv, CTypeOK
  <2> HIDE DEF j
  <2> QED BY <1>2, <2>1, <2>2, OwnStepInv DEF j, Evict
<1> QED BY <1>1, <1>2 DEF Evict

LEMMA StoreInv == ASSUME CInv, NEW t \in Thread, Store(t) PROVE CInv'
<1> USE DEF Store
<1> DEFINE new == [asked |-> job[t].asked, key |-> job[t].key, tools |-> job[t].offers]
<1>1. /\ memo' \in Seq(Memo)
      /\ \A i \in DOMAIN memo' : memo'[i] = new \/ \E k \in DOMAIN memo : memo'[i] = memo[k]
  BY JobsAreTyped, StoringKeeps DEF CInv
<1>2. job[t].key <= generation /\ (job[t].key = generation => Tells(job[t].offers, job[t].asked))
  BY JobsAreTyped DEF CInv, JobOfItsGeneration
<1>3. new.key <= generation /\ (new.key = generation => Tells(new.tools, new.asked))
  BY <1>2
<1> HIDE DEF new
<1>4. Idle \in Job /\ Idle.at = "out" /\ Idle.key = 0
  BY DEF Idle, Job
<1>5. 0 <= generation
  BY DEF CInv, CTypeOK
<1>6. \A i \in DOMAIN memo' :
        \/ memo'[i].key <= generation /\ (memo'[i].key = generation => Tells(memo'[i].tools, memo'[i].asked))
        \/ \E k \in DOMAIN memo : memo'[i] = memo[k]
  BY <1>1, <1>3
<1> QED BY <1>1, <1>4, <1>5, <1>6, MemoStepInv

LEMMA CStepInv == CInv /\ [CNext]_allVars => CInv'
<1> SUFFICES ASSUME CInv, [CNext]_allVars PROVE CInv'
  OBVIOUS
<1>1. ASSUME UNCHANGED catalogue PROVE CInv'
  BY <1>1 DEF catalogue, CInv, CTypeOK, KeysAreOfThePast, JobOfItsGeneration, MemoTells, Tells, Now
<1>2. ASSUME NEW t \in Thread, Ask(t) \/ Build(t) \/ Leave(t) PROVE CInv'
  <2>1. CASE BeginCheck(t) \/ CheckStep(t)
    BY <2>1, <1>1 DEF BeginCheck, CheckStep
  <2> QED BY <1>2, <2>1, AskInv, ResolveInv, ReadInv, FinishInv, EvictInv, StoreInv, LeaveInv DEF Build
<1>3. ASSUME NEW n \in Tool, Deregister(n) PROVE CInv'
  <2>1. [registry EXCEPT ![n] = Unregistered] \in [Tool -> [toolset : Toolset \cup {None}, since : Nat]]
    BY DEF CInv, CTypeOK, Unregistered
  <2> QED BY <1>3, <2>1, MutationInv DEF Deregister
<1>4. ASSUME NEW n \in Tool, NEW toolset \in Toolset, Register(n, toolset) PROVE CInv'
  <2>1. [registry EXCEPT ![n] = [toolset |-> toolset, since |-> generation + 1]]
           \in [Tool -> [toolset : Toolset \cup {None}, since : Nat]]
    BY DEF CInv, CTypeOK
  <2> QED BY <1>4, <2>1, MutationInv DEF Register
<1>5. CASE UNCHANGED allVars
  BY <1>5, <1>1 DEF allVars
<1> QED BY <1>1, <1>2, <1>3, <1>4, <1>5 DEF CNext

\* A catalogue in the memo under the generation of now tells of the registry of
\* now, for any number of threads whose requests overlap with each other's, with
\* evictions and with mutations of the registry.
THEOREM MemoIsOfItsGeneration == CSpec => []MemoOfItsGeneration
<1>1. CInv => MemoOfItsGeneration
  BY DEF CInv, MemoTells, Tells, Now, MemoOfItsGeneration
<1> QED BY <1>1, CInitInv, CStepInv, PTL DEF CSpec

-----------------------------------------------------------------------------
(* How much the memo holds.                                                *)

\* Whoever is about to store has found room, or made some.
Storing == {t \in Thread : job[t].at = "store"}
RoomKept == Len(memo) + Cardinality(Storing) < MemoMax + Cardinality(Thread)

\* How many there are, when one thread goes on.
LEMMA StoringMoves ==
  ASSUME CInv, NEW t \in Thread, NEW j, Put(t, j)
  PROVE  /\ {Cardinality(Thread), Cardinality(Storing), Cardinality(Storing')} \subseteq Nat
         /\ Cardinality(Storing') <= Cardinality(Thread) /\ Cardinality(Storing') <= Cardinality(Storing) + 1
         /\ j.at # "store" => Cardinality(Storing') <= Cardinality(Storing)
         /\ j.at # "store" /\ job[t].at = "store" => Cardinality(Storing') = Cardinality(Storing) - 1
<1>1. IsFiniteSet(Thread) /\ Storing \subseteq Thread /\ Storing' \subseteq Thread
  BY CatalogueAssumption DEF Storing
<1>2. /\ IsFiniteSet(Storing) /\ Cardinality(Thread) \in Nat /\ Cardinality(Storing) \in Nat
      /\ Cardinality(Storing') \in Nat /\ Cardinality(Storing') <= Cardinality(Thread)
  BY <1>1, FS_Subset, FS_CardinalityType
<1>3. job' = [job EXCEPT ![t] = j] /\ DOMAIN job = Thread
  BY DEF Put, CInv, CTypeOK
<1>4. /\ j.at = "store" => Storing' = Storing \cup {t}
      /\ j.at # "store" => Storing' = Storing \ {t}
  BY <1>3 DEF Storing
<1>5. job[t].at = "store" <=> t \in Storing
  BY DEF Storing
<1>6. PICK was, is, n, m : was = Storing /\ is = Storing' /\ n = Cardinality(was) /\ m = Cardinality(is)
  OBVIOUS
<1>7. n = Cardinality(Storing) /\ m = Cardinality(Storing')
  BY <1>6
<1>8. n \in Nat /\ m \in Nat /\ IsFiniteSet(was)
  BY <1>2, <1>6
<1>9. CASE j.at = "store"
  <2>1. is = was \cup {t}
    BY <1>4, <1>6, <1>9
  <2>2. m = n \/ m = n + 1
    BY <1>6, <1>8, <2>1, FS_AddElement
  <2> QED BY <1>2, <1>7, <1>8, <1>9, <2>2
<1>10. CASE j.at # "store"
  <2>1. is = was \ {t}
    BY <1>4, <1>6, <1>10
  <2>2. (t \in was => m = n - 1) /\ (t \notin was => m = n)
    BY <1>6, <1>8, <2>1, FS_RemoveElement
  <2> QED BY <1>2, <1>5, <1>6, <1>7, <1>8, <2>2
<1> QED BY <1>9, <1>10

\* The memo has a length.
LEMMA MemoHasLength == CInv => Len(memo) \in Nat /\ MemoMax \in Nat \ {0}
  BY CatalogueAssumption DEF CInv, CTypeOK

LEMMA RoomInit == CInit => RoomKept
<1> SUFFICES ASSUME CInit PROVE RoomKept
  OBVIOUS
<1>1. Storing = {} /\ Len(memo) = 0
  BY DEF CInit, Storing, Idle
<1>2. Cardinality(Storing) = 0 /\ Cardinality(Thread) \in Nat /\ MemoMax \in Nat \ {0}
  BY <1>1, CatalogueAssumption, FS_EmptySet, FS_CardinalityType
<1> QED BY <1>1, <1>2 DEF RoomKept

LEMMA RoomStep == CInv /\ RoomKept /\ [CNext]_allVars => RoomKept'
<1> SUFFICES ASSUME CInv, RoomKept, [CNext]_allVars PROVE RoomKept'
  OBVIOUS
<1>1. CASE UNCHANGED <<memo, job>>
  BY <1>1 DEF RoomKept, Storing
<1>2. ASSUME NEW t \in Thread, NEW j, Put(t, j), j.at # "store", UNCHANGED memo PROVE RoomKept'
  BY <1>2, MemoHasLength, StoringMoves DEF RoomKept
<1>3. ASSUME NEW t \in Thread, Ask(t) \/ Resolve(t) \/ Read(t) \/ Leave(t) PROVE RoomKept'
  <2>1. job[t] \in Job /\ Idle \in Job /\ Idle.at = "out"
    BY JobsAreTyped DEF Idle, Job
  <2>2. CASE Ask(t)
    <3>1. PICK asked : Put(t, [Idle EXCEPT !.at = "keyed", !.asked = asked, !.key = generation])
      BY <2>2 DEF Ask
    <3> QED BY <1>2, <2>1, <2>2, <3>1 DEF Ask, Job
  <2>3. CASE Resolve(t)
    BY <1>2, <2>1, <2>3 DEF Resolve, Job
  <2>4. CASE Read(t)
    BY <1>2, <2>1, <2>4 DEF Read, Job
  <2>5. CASE Leave(t)
    BY <1>2, <2>1, <2>5 DEF Leave
  <2> QED BY <1>3, <2>2, <2>3, <2>4, <2>5
<1>4. ASSUME NEW t \in Thread, Finish(t) PROVE RoomKept'
  <2> DEFINE j == [job[t] EXCEPT !.at = IF Len(memo) < MemoMax THEN "store" ELSE "evict",
                                 !.offers = Available(t),
                                 !.victim = IF Len(memo) < MemoMax THEN <<>> ELSE <<Head(memo)>>]
  <2>1. Put(t, j) /\ UNCHANGED memo
    BY <1>4 DEF Finish
  <2>2. j.at = IF Len(memo) < MemoMax THEN "store" ELSE "evict"
    BY JobsAreTyped DEF Job
  <2> HIDE DEF j
  <2>3. CASE Len(memo) < MemoMax
    BY <2>1, <2>3, MemoHasLength, StoringMoves DEF RoomKept
  <2> QED BY <1>2, <2>1, <2>2, <2>3
<1>5. ASSUME NEW t \in Thread, Evict(t) PROVE RoomKept'
  <2>1. CASE \E i \in DOMAIN memo : memo' = RemoveAt(memo, i) /\ Put(t, [job[t] EXCEPT !.at = "store", !.victim = <<>>])
    <3>1. Len(memo') = Len(memo) - 1
      BY <2>1, RemovingKeeps DEF CInv, CTypeOK
    <3> QED BY <2>1, <3>1, MemoHasLength, StoringMoves DEF RoomKept
  <2>2. CASE Put(t, [Idle EXCEPT !.at = "failed"]) /\ UNCHANGED memo
    BY <1>2, <2>2 DEF Idle
  <2> QED BY <1>5, <2>1, <2>2 DEF Evict
<1>6. ASSUME NEW t \in Thread, Store(t) PROVE RoomKept'
  <2>1. Len(memo') \in Nat /\ Len(memo') <= Len(memo) + 1
    <3>1. memo' \in Seq(Memo)
      BY <1>6, StoreInv DEF CInv, CTypeOK
    <3> QED BY <1>6, <3>1, JobsAreTyped, StoringKeeps DEF Store, CInv
  <2>2. Put(t, Idle) /\ Idle.at # "store" /\ job[t].at = "store"
    BY <1>6 DEF Store, Idle
  <2> QED BY <2>1, <2>2, MemoHasLength, StoringMoves DEF RoomKept
<1>7. ASSUME NEW t \in Thread, Ask(t) \/ Build(t) \/ Leave(t) PROVE RoomKept'
  BY <1>1, <1>3, <1>4, <1>5, <1>6, <1>7 DEF Build, BeginCheck, CheckStep, catalogue
<1>8. ASSUME NEW n \in Tool, Deregister(n) \/ \E toolset \in Toolset : Register(n, toolset) PROVE RoomKept'
  BY <1>1, <1>8 DEF Deregister, Register, Mutates
<1>9. CASE (Invalidate \/ GoDown \/ ComeUp \/ Tick) /\ UNCHANGED catalogue
  BY <1>1, <1>9 DEF catalogue
<1>10. CASE UNCHANGED allVars
  BY <1>1, <1>10 DEF allVars, catalogue
<1> QED BY <1>7, <1>8, <1>9, <1>10 DEF CNext

\* However many threads put catalogues together and however their evictions
\* collide (model_tools.py 353-361), the memo is over its cap by fewer entries
\* than there are threads.
THEOREM MemoStaysBounded == CSpec => []MemoBounded
<1>1. CInv /\ RoomKept => MemoBounded
  <2> SUFFICES ASSUME CInv, RoomKept PROVE MemoBounded
    OBVIOUS
  <2>1. Cardinality(Storing) \in Nat /\ Cardinality(Thread) \in Nat
    <3>1. IsFiniteSet(Thread) /\ Storing \subseteq Thread
      BY CatalogueAssumption DEF Storing
    <3> QED BY <3>1, FS_Subset, FS_CardinalityType
  <2> QED BY <2>1, MemoHasLength DEF MemoBounded, RoomKept
<1> QED BY <1>1, CInitInv, CStepInv, RoomInit, RoomStep, PTL DEF CSpec
=============================================================================
