------------------------ MODULE SequentialToolsProofs ------------------------
(***************************************************************************)
(* Proofs about SequentialTools and the guardrails, for any tools, calls,  *)
(* results and thresholds, rounds of any length and turns of any length.   *)
(***************************************************************************)
EXTENDS SequentialTools, FiniteSetTheorems, SequenceTheorems, TLAPS

Entry == [call : Signature, result : Result \cup {"error"}]

-----------------------------------------------------------------------------
(* The inductive invariant.                                                *)

\* Where the loop is in the round.
Position ==
    /\ Len(calls) <= NumCalls
    /\ pc \in {"check", "running", "after", "repair"} => at <= Len(calls)
    /\ pc = "batch" =>
          /\ Len(calls) >= 1 /\ at <= Len(calls) + 1
          /\ verdicts = <<>> => at = 1
          /\ verdicts # <<>> => Len(verdicts) = Len(calls)

\* The calls up to the one the loop is at have been answered, in order.
Sheet ==
    /\ \A i \in 1 .. Len(answers) : answers[i].call = i
    /\ pc \in {"check", "running", "repair", "batch"} => Len(answers) = at - 1
    /\ pc = "after" => Len(answers) = at
    /\ pc \in {"model", "halted"} => Len(answers) = Len(calls)

\* Only reads are watched for progress.
OnlyReads == \A s \in Signature : s.tool \notin Reads => progress[s] = NoProgress

\* The calls of the round that may have been counted.
Counted ==
    CASE pc = "model" -> 0
      [] pc \in {"check", "running", "batch"} -> at - 1
      [] pc = "after" -> at
      [] OTHER -> NumCalls

\* A tool whose failures reach the limit has halted the turn; the round is
\* finished first.
ToolsCut ==
    hardStop /\ ~raised =>
        /\ pc = "model" => halt = None
        /\ pc # "repair"
        /\ halt = None => \A t \in Tool : same[t] < SameHalt
        /\ \A t \in Tool : same[t] < SameHalt + Counted

\* A call that was let pass was below its limits then, and a concurrent round
\* has counted at most the calls before it since.
Below(s, n) == exact[s] < ExactBlock + n /\ progress[s].count < IdleBlock + n
CallsCut ==
    hardStop =>
        /\ \A s \in Signature : Below(s, NumCalls)
        /\ pc = "running" => Below(calls[at], 0)
        /\ pc = "batch" /\ verdicts # <<>> =>
              \A i \in at .. Len(calls) : verdicts[i] = None => Below(calls[i], at - 1)

IInv == TypeOK /\ Position /\ Sheet /\ OnlyReads /\ ToolsCut /\ CallsCut /\ CountsAreOfTheTurn

-----------------------------------------------------------------------------
(* Lemmas about the operators.                                             *)

LEMMA BoundsAreNat == /\ NumCalls \in Nat \ {0}
                      /\ ExactBlock \in Nat \ {0} /\ SameHalt \in Nat \ {0} /\ IdleBlock \in Nat \ {0}
BY GuardrailAssumption, RoundAssumption

\* A guardrail says nothing, or blocks, and then the circuit breaker is on.
LEMMA VerdictType ==
  ASSUME NEW s \in Signature
  PROVE  /\ Verdict(s) \in Code \cup {None}
         /\ Verdict(s) = None /\ hardStop /\ OnlyReads /\ GuardTypeOK => Below(s, 0)
BY GuardrailAssumption DEF Verdict, Code, Below, OnlyReads, NoProgress, GuardTypeOK

\* A function on 1 .. n is a sequence of that length.
LEMMA FunctionIsSequence ==
  ASSUME NEW S, NEW n \in Nat, NEW f \in [1 .. n -> S]
  PROVE  f \in Seq(S) /\ Len(f) = n
OBVIOUS

\* The answers of the rest of a round continue the sheet.
LEMMA RestContinues ==
  ASSUME NEW list \in Seq(Answer), Len(calls) \in 0 .. NumCalls,
         NEW i \in 1 .. Len(calls) + 1, Len(list) = i - 1,
         \A j \in 1 .. Len(list) : list[j].call = j,
         NEW what \in {"cancelled", "raised"}
  PROVE  LET full == list \o Rest(i, what) IN
         /\ full \in Seq(Answer) /\ Len(full) = Len(calls)
         /\ \A j \in 1 .. Len(full) : full[j].call = j
<1> DEFINE m == Len(calls) - i + 1
           rest == Rest(i, what)
<1>0. m \in Nat
  BY RoundAssumption
<1>1. rest = [j \in 1 .. m |-> Says(i + j - 1, what)]
  BY DEF Rest
<1>2. ASSUME NEW j \in 1 .. m
      PROVE  Says(i + j - 1, what) \in Answer /\ Says(i + j - 1, what).call = i + j - 1
  <2>1. i + j - 1 \in 1 .. NumCalls
    BY RoundAssumption
  <2> QED BY <2>1 DEF Says, Answer
<1>3. rest \in [1 .. m -> Answer]
  BY <1>1, <1>2
<1>4. \A j \in 1 .. m : rest[j].call = i + j - 1
  BY <1>1, <1>2
<1> HIDE DEF rest, m
<1>5. rest \in Seq(Answer) /\ Len(rest) = m
  BY <1>0, <1>3, FunctionIsSequence
<1> USE DEF m
<1>6. /\ list \o rest \in Seq(Answer) /\ Len(list \o rest) = Len(list) + m
      /\ \A j \in 1 .. Len(list) + m :
            (list \o rest)[j] = IF j <= Len(list) THEN list[j] ELSE rest[j - Len(list)]
  BY <1>5, ConcatProperties
<1>7. Len(list) + m = Len(calls)
  BY RoundAssumption
<1>8. ASSUME NEW j \in 1 .. Len(calls)
      PROVE  (list \o rest)[j].call = j
  <2>1. CASE j <= Len(list)
    BY <1>6, <1>7, <2>1
  <2>2. CASE ~(j <= Len(list))
    <3>1. j - Len(list) \in 1 .. m /\ i + (j - Len(list)) - 1 = j
      BY <1>7, <2>2, RoundAssumption
    <3> QED BY <1>4, <1>6, <1>7, <2>2, <3>1
  <2> QED BY <2>1, <2>2
<1> QED BY <1>6, <1>7, <1>8 DEF rest

\* The same for one answer more.
LEMMA AppendContinues ==
  ASSUME NEW list \in Seq(Answer), NEW i \in Nat, i \in 1 .. NumCalls, Len(list) = i - 1,
         \A j \in 1 .. Len(list) : list[j].call = j,
         NEW what \in {"blocked", "allow", "warn", "halt", "no_result"}
  PROVE  LET more == Append(list, Says(i, what)) IN
         /\ more \in Seq(Answer) /\ Len(more) = i
         /\ \A j \in 1 .. Len(more) : more[j].call = j
<1>1. Says(i, what) \in Answer /\ Says(i, what).call = i
  BY DEF Says, Answer
<1> DEFINE more == Append(list, Says(i, what))
<1>2. /\ more \in Seq(Answer) /\ Len(more) = Len(list) + 1
      /\ \A j \in 1 .. Len(list) : more[j] = list[j]
      /\ more[Len(list) + 1] = Says(i, what)
  BY <1>1, AppendProperties
<1> HIDE DEF more
<1>3. Len(more) = i /\ i \in Nat
  BY <1>2, RoundAssumption
<1>4. \A j \in 1 .. i : j \in 1 .. Len(list) \/ j = i
  BY RoundAssumption
<1>5. \A j \in 1 .. i : more[j].call = j
  BY <1>1, <1>2, <1>4, RoundAssumption
<1> QED BY <1>2, <1>3, <1>5 DEF more

\* What one call more does to a streak.
LEMMA StreakOfAppend ==
  ASSUME NEW h \in Seq(Entry), NEW e \in Entry, NEW kind, NEW results
  PROVE  /\ Streak(h, kind, results) \in Nat
         /\ Streak(<<>>, kind, results) = 0
         /\ Streak(Append(h, e), kind, results) =
               IF e.call \notin kind THEN Streak(h, kind, results)
               ELSE IF e.result \in results THEN Streak(h, kind, results) + 1 ELSE 0
<1> DEFINE n == Len(h)
           old == Since(h, kind, results)
           new == Since(Append(h, e), kind, results)
<1>1. n \in Nat /\ Len(Append(h, e)) = n + 1 /\ Append(h, e)[n + 1] = e
      /\ \A i \in 1 .. n : Append(h, e)[i] = h[i]
  OBVIOUS
<1>2. old \subseteq 1 .. n /\ IsFiniteSet(old) /\ Cardinality(old) \in Nat /\ n + 1 \notin old
  <2>1. old \subseteq 1 .. n
    BY DEF Since
  <2>2. IsFiniteSet(1 .. n)
    BY <1>1, FS_Interval
  <2> QED BY <1>1, <2>1, <2>2, FS_Subset, FS_CardinalityType
<1>3. Since(<<>>, kind, results) = {}
  BY DEF Since
<1>4. CASE e.call \notin kind
  <2>1. new = old
    BY <1>1, <1>4 DEF Since
  <2> QED BY <1>2, <1>3, <1>4, <2>1, FS_EmptySet DEF Streak
<1>5. CASE e.call \in kind /\ e.result \in results
  <2>1. new = old \cup {n + 1}
    BY <1>1, <1>5 DEF Since
  <2>2. Cardinality(old \cup {n + 1}) = Cardinality(old) + 1
    BY <1>2, FS_AddElement
  <2> QED BY <1>2, <1>3, <1>5, <2>1, <2>2, FS_EmptySet DEF Streak
<1>6. CASE e.call \in kind /\ e.result \notin results
  <2>1. new = {}
    BY <1>1, <1>6 DEF Since
  <2> QED BY <1>2, <1>3, <1>6, <2>1, FS_EmptySet DEF Streak
<1> QED BY <1>4, <1>5, <1>6

-----------------------------------------------------------------------------
(* Counting a call.                                                        *)

\* What is counted stays what the calls of the turn amount to.
LEMMA CountingIsExact ==
  ASSUME TypeOK, OnlyReads, CountsAreOfTheTurn,
         NEW s \in Signature, NEW result \in Result \cup {"error"},
         AfterCall(s, result), history' = Append(history, [call |-> s, result |-> result])
  PROVE  GuardTypeOK' /\ OnlyReads' /\ CountsAreOfTheTurn' /\ history' \in Seq(Entry)
<1> DEFINE e == [call |-> s, result |-> result]
<1>1. e \in Entry /\ e.call = s /\ e.result = result /\ history \in Seq(Entry) /\ s.tool \in Tool
  BY GuardrailAssumption DEF Entry, TypeOK
<1>2. history' = Append(history, e) /\ history' \in Seq(Entry)
  BY <1>1, AppendProperties
<1> HIDE DEF e
<1>3. ASSUME NEW kind, NEW results
      PROVE  /\ Streak(history, kind, results) \in Nat
             /\ Streak(history', kind, results) =
                   IF s \notin kind THEN Streak(history, kind, results)
                   ELSE IF result \in results THEN Streak(history, kind, results) + 1 ELSE 0
  BY <1>1, <1>2, StreakOfAppend
<1>4. GuardTypeOK'
  <2> USE DEF GuardTypeOK, TypeOK
  <2>0. hardStop' \in BOOLEAN
    BY DEF AfterCall
  <2>1. exact' \in [Signature -> Nat] /\ same' \in [Tool -> Nat]
    <3>1. exact \in [Signature -> Nat] /\ same \in [Tool -> Nat]
      OBVIOUS
    <3>2. \/ exact' = [exact EXCEPT ![s] = @ + 1] /\ same' = [same EXCEPT ![s.tool] = @ + 1]
          \/ exact' = [exact EXCEPT ![s] = 0] /\ same' = [same EXCEPT ![s.tool] = 0]
      BY DEF AfterCall, CountFailure, CountSuccess
    <3> HIDE DEF GuardTypeOK, TypeOK
    <3> QED BY <1>1, <3>1, <3>2
  <2>2. halt' \in Code \cup {None}
    BY DEF AfterCall, CountFailure, CountSuccess, Halts, Code
  <2>3. CASE result = "error"
    <3>1. NoProgress \in [hash : Result \cup {None}, count : Nat]
      BY DEF NoProgress
    <3> QED BY <2>0, <2>1, <2>2, <2>3, <3>1 DEF AfterCall, CountFailure
  <2>4. CASE result # "error"
    <3>1. Count(s, result) \in Nat
      BY DEF Count
    <3>2. /\ NoProgress \in [hash : Result \cup {None}, count : Nat]
          /\ [hash |-> result, count |-> Count(s, result)] \in [hash : Result \cup {None}, count : Nat]
      BY <2>4, <3>1 DEF NoProgress
    <3> QED BY <2>0, <2>1, <2>2, <2>4, <3>2 DEF AfterCall, CountSuccess
  <2> QED BY <2>3, <2>4
<1>5. OnlyReads'
  BY <1>1 DEF AfterCall, CountFailure, CountSuccess, OnlyReads, GuardTypeOK, TypeOK
<1>6. ASSUME NEW q \in Signature
      PROVE  exact'[q] = Streak(history', {q}, {"error"})
  <2>1. exact[q] = Streak(history, {q}, {"error"})
    BY DEF CountsAreOfTheTurn
  <2>2. exact'[q] = IF q # s THEN exact[q] ELSE IF result = "error" THEN exact[q] + 1 ELSE 0
    BY DEF AfterCall, CountFailure, CountSuccess, GuardTypeOK, TypeOK
  <2> QED BY <1>3, <2>1, <2>2
<1>7. ASSUME NEW t \in Tool
      PROVE  same'[t] = Streak(history', CallsOf(t), {"error"})
  <2>1. same[t] = Streak(history, CallsOf(t), {"error"})
    BY DEF CountsAreOfTheTurn
  <2>2. same'[t] = IF t # s.tool THEN same[t] ELSE IF result = "error" THEN same[t] + 1 ELSE 0
    BY DEF AfterCall, CountFailure, CountSuccess, GuardTypeOK, TypeOK
  <2>3. s \in CallsOf(t) <=> t = s.tool
    BY DEF CallsOf
  <2> QED BY <1>3, <2>1, <2>2, <2>3
<1>8. ASSUME NEW q \in Signature, NEW r \in Result, q.tool \in Reads
      PROVE  Streak(history', {q}, {r}) = IF progress'[q].hash = r THEN progress'[q].count ELSE 0
  <2>1. Streak(history, {q}, {r}) = IF progress[q].hash = r THEN progress[q].count ELSE 0
    BY <1>8 DEF CountsAreOfTheTurn
  <2>2. CASE q # s
    <3>1. progress'[q] = progress[q]
      BY <2>2 DEF AfterCall, CountFailure, CountSuccess, GuardTypeOK, TypeOK
    <3> QED BY <1>3, <2>1, <2>2, <3>1
  <2>3. CASE q = s /\ result = "error"
    <3>1. progress'[q].hash = None /\ None # r /\ result # r
      BY <2>3, GuardrailAssumption DEF AfterCall, CountFailure, GuardTypeOK, TypeOK, NoProgress
    <3> QED BY <1>3, <2>3, <3>1
  <2>4. CASE q = s /\ result # "error"
    <3>1. progress'[q] = [hash |-> result, count |-> Count(s, result)]
      BY <1>8, <2>4 DEF AfterCall, CountSuccess, GuardTypeOK, TypeOK
    <3>2. CASE result = r
      <4>1. Count(s, result) = Streak(history, {q}, {r}) + 1
        BY <2>1, <2>4, <3>2 DEF Count
      <4> QED BY <1>3, <2>4, <3>1, <3>2, <4>1
    <3>3. CASE result # r
      BY <1>3, <2>4, <3>1, <3>3
    <3> QED BY <3>2, <3>3
  <2> QED BY <2>2, <2>3, <2>4
<1> QED BY <1>2, <1>4, <1>5, <1>6, <1>7, <1>8 DEF CountsAreOfTheTurn

\* One call moves each count by one at most, and that of its own call only; a
\* tool that reaches its limit halts the turn.
LEMMA CountingIsSlow ==
  ASSUME TypeOK, OnlyReads, NEW s \in Signature, NEW result \in Result \cup {"error"}, AfterCall(s, result)
  PROVE  /\ \A q \in Signature, n \in Nat : Below(q, n) => Below(q, n + 1)'
         /\ \A q \in Signature, n \in Nat : q # s /\ Below(q, n) => Below(q, n)'
         /\ \A n \in Nat : (\A t \in Tool : same[t] < SameHalt + n) =>
                             (\A t \in Tool : same'[t] < SameHalt + (n + 1))
         /\ hardStop /\ halt' = None =>
               /\ halt = None
               /\ (\A t \in Tool : same[t] < SameHalt) => (\A t \in Tool : same'[t] < SameHalt)
         /\ hardStop' = hardStop
<1>1. s.tool \in Tool /\ hardStop' = hardStop
  BY GuardrailAssumption DEF AfterCall
<1>2. ASSUME NEW q \in Signature
      PROVE  /\ exact[q] \in Nat /\ exact'[q] \in Nat /\ exact'[q] <= exact[q] + 1
             /\ progress[q].count \in Nat /\ progress'[q].count \in Nat
             /\ progress'[q].count <= progress[q].count + 1
             /\ q # s => exact'[q] = exact[q] /\ progress'[q] = progress[q]
  <2>1. /\ exact[q] \in Nat /\ exact'[q] \in Nat /\ exact'[q] <= exact[q] + 1
        /\ q # s => exact'[q] = exact[q] /\ progress'[q] = progress[q]
        /\ progress[q].count \in Nat
    BY DEF AfterCall, CountFailure, CountSuccess, GuardTypeOK, TypeOK
  <2>2. progress'[q].count \in Nat /\ progress'[q].count <= progress[q].count + 1
    <3>1. CASE q # s
      BY <2>1, <3>1
    <3>2. CASE q = s /\ result = "error"
      BY <3>2 DEF AfterCall, CountFailure, GuardTypeOK, TypeOK, NoProgress
    <3>3. CASE q = s /\ result # "error"
      <4>1. progress'[q] = IF s.tool \in Reads THEN [hash |-> result, count |-> Count(s, result)]
                                                ELSE NoProgress
        BY <3>3 DEF AfterCall, CountSuccess, GuardTypeOK, TypeOK
      <4> QED BY <2>1, <3>3, <4>1 DEF Count, NoProgress
    <3> QED BY <3>1, <3>2, <3>3
  <2> QED BY <2>1, <2>2
<1>3. ASSUME NEW t \in Tool
      PROVE  /\ same[t] \in Nat /\ same'[t] \in Nat /\ same'[t] <= same[t] + 1
             /\ same'[t] <= same[t] \/ (t = s.tool /\ result = "error")
  BY <1>1 DEF AfterCall, CountFailure, CountSuccess, GuardTypeOK, TypeOK
<1>4. ASSUME hardStop, halt' = None
      PROVE  halt = None /\ (result = "error" => same[s.tool] + 1 < SameHalt)
  BY <1>1, <1>4, GuardrailAssumption, BoundsAreNat
     DEF AfterCall, CountFailure, CountSuccess, Halts, Code, GuardTypeOK, TypeOK
<1>5. \A q \in Signature, n \in Nat : Below(q, n) => Below(q, n + 1)'
  BY <1>2, BoundsAreNat DEF Below
<1>6. \A q \in Signature, n \in Nat : q # s /\ Below(q, n) => Below(q, n)'
  BY <1>2 DEF Below
<1>7. \A n \in Nat : (\A t \in Tool : same[t] < SameHalt + n) =>
                       (\A t \in Tool : same'[t] < SameHalt + (n + 1))
  BY <1>3, BoundsAreNat
<1>8. ASSUME hardStop, halt' = None, \A t \in Tool : same[t] < SameHalt, NEW t \in Tool
      PROVE  same'[t] < SameHalt
  BY <1>1, <1>3, <1>4, <1>8, BoundsAreNat
<1> QED BY <1>1, <1>4, <1>5, <1>6, <1>7, <1>8

-----------------------------------------------------------------------------
(* The invariant is inductive: one lemma for each action.                  *)

LEMMA CountsKept ==
  ASSUME OnlyReads, CountsAreOfTheTurn, UNCHANGED <<hardStop, exact, same, progress, history>>
  PROVE  OnlyReads' /\ CountsAreOfTheTurn'
BY DEF OnlyReads, CountsAreOfTheTurn, Streak, Since

LEMMA InitInv == Init => IInv
<1> SUFFICES ASSUME Init PROVE IInv
  OBVIOUS
<1> USE DEF Init, Fresh
<1>1. GuardTypeOK
  BY DEF GuardTypeOK, NoProgress
<1>2. TypeOK
  <2>1. at \in 1 .. NumCalls + 1
    BY BoundsAreNat
  <2>2. calls \in Seq(Signature) /\ verdicts \in Seq(Code \cup {None, "plugin_block"})
        /\ answers \in Seq(Answer) /\ history \in Seq([call : Signature, result : Result \cup {"error"}])
    OBVIOUS
  <2>3. {raised, interrupted} \subseteq BOOLEAN
    OBVIOUS
  <2>4. pc \in {"model", "check", "running", "after", "batch", "repair", "halted", "killed"}
    OBVIOUS
  <2> HIDE DEF Init
  <2> QED BY <1>1, <2>1, <2>2, <2>3, <2>4 DEF TypeOK
<1>3. Position /\ Sheet /\ OnlyReads
  BY RoundAssumption DEF Position, Sheet, OnlyReads
<1>4. ToolsCut /\ CallsCut
  BY BoundsAreNat DEF ToolsCut, CallsCut, Counted, Below, NoProgress
<1>5. ASSUME NEW kind, NEW results
      PROVE  Streak(history, kind, results) = 0
  <2>1. Since(<<>>, kind, results) = {}
    BY DEF Since
  <2> QED BY <2>1, FS_EmptySet DEF Streak
<1>6. CountsAreOfTheTurn
  BY <1>5, GuardrailAssumption DEF CountsAreOfTheTurn, NoProgress
<1> QED BY <1>2, <1>3, <1>4, <1>6 DEF IInv

LEMMA BeginInv == IInv /\ Begin => IInv'
<1> SUFFICES ASSUME IInv, Begin PROVE IInv'
  OBVIOUS
<1> USE DEF IInv, Begin, guard
<1>1. PICK n \in 1 .. NumCalls : calls' \in [1 .. n -> Signature]
  OBVIOUS
<1>2. calls' \in Seq(Signature) /\ Len(calls') = n /\ n >= 1 /\ n <= NumCalls
  BY <1>1, BoundsAreNat, FunctionIsSequence
<1>3. GuardTypeOK'
  BY DEF TypeOK, GuardTypeOK
<1>4. TypeOK'
  BY <1>2, <1>3, BoundsAreNat DEF TypeOK
<1>5. Position' /\ Sheet'
  BY <1>2, BoundsAreNat DEF Position, Sheet
<1>6. OnlyReads' /\ CountsAreOfTheTurn'
  BY CountsKept
<1>7. ToolsCut' /\ CallsCut'
  BY BoundsAreNat DEF ToolsCut, CallsCut, Counted, Below
<1> QED BY <1>4, <1>5, <1>6, <1>7

\* A call is blocked, raises or is left: nothing is counted.
LEMMA BlockedByPluginInv == IInv /\ BlockedByPlugin => IInv'
<1> SUFFICES ASSUME IInv, BlockedByPlugin PROVE IInv'
  OBVIOUS
<1> USE DEF IInv, BlockedByPlugin, guard
<1>1. at \in 1 .. NumCalls /\ at \in Nat /\ at <= Len(calls) /\ Len(calls) \in Nat
  BY BoundsAreNat DEF TypeOK, Position
<1>2. answers' \in Seq(Answer) /\ Len(answers') = at /\ \A i \in 1 .. Len(answers') : answers'[i].call = i
  BY <1>1, AppendContinues DEF TypeOK, Sheet
<1>3. GuardTypeOK'
  BY DEF TypeOK, GuardTypeOK
<1>4. TypeOK'
  BY <1>2, <1>3, BoundsAreNat DEF TypeOK
<1>5. Position' /\ Sheet'
  BY <1>1, <1>2, BoundsAreNat DEF Position, Sheet
<1>6. OnlyReads' /\ CountsAreOfTheTurn'
  BY CountsKept
<1>7. ToolsCut' /\ CallsCut'
  BY <1>1, BoundsAreNat DEF ToolsCut, CallsCut, Counted, Below, TypeOK, GuardTypeOK
<1> QED BY <1>4, <1>5, <1>6, <1>7

LEMMA BlockedByGuardrailInv == IInv /\ BlockedByGuardrail => IInv'
<1> SUFFICES ASSUME IInv, BlockedByGuardrail PROVE IInv'
  OBVIOUS
<1> USE DEF IInv, BlockedByGuardrail
<1>1. at \in 1 .. NumCalls /\ at \in Nat /\ at <= Len(calls) /\ Len(calls) \in Nat
  BY BoundsAreNat DEF TypeOK, Position
<1>2. answers' \in Seq(Answer) /\ Len(answers') = at /\ \A i \in 1 .. Len(answers') : answers'[i].call = i
  BY <1>1, AppendContinues DEF TypeOK, Sheet
<1>3. calls[at] \in Signature
  BY <1>1 DEF TypeOK
<1>4. halt' \in Code /\ halt' # None
  BY <1>3, VerdictType, GuardrailAssumption DEF Halts
<1>5. GuardTypeOK'
  BY <1>4 DEF TypeOK, GuardTypeOK
<1>6. TypeOK'
  BY <1>2, <1>5, BoundsAreNat DEF TypeOK
<1>7. Position' /\ Sheet'
  BY <1>1, <1>2, BoundsAreNat DEF Position, Sheet
<1>8. OnlyReads' /\ CountsAreOfTheTurn'
  BY CountsKept
<1>9. ToolsCut' /\ CallsCut'
  BY <1>1, <1>4, BoundsAreNat DEF ToolsCut, CallsCut, Counted, Below, TypeOK, GuardTypeOK
<1> QED BY <1>6, <1>7, <1>8, <1>9

\* The end of a round, by whatever action: a halt is looked at.
LEMMA RoundEnds ==
  ASSUME IInv, pc \in {"check", "after", "batch"}, AfterRound, UNCHANGED <<guard, calls, history, raised>>
  PROVE  /\ GuardTypeOK' /\ OnlyReads' /\ CountsAreOfTheTurn' /\ ToolsCut' /\ CallsCut'
         /\ pc' \in {"halted", "model"}
<1> USE DEF IInv, guard
<1>1. GuardTypeOK'
  BY DEF TypeOK, GuardTypeOK
<1>2. pc' \in {"halted", "model"} /\ (pc' = "model" => halt' = None)
  BY DEF AfterRound
<1>3. OnlyReads' /\ CountsAreOfTheTurn'
  BY CountsKept
<1>4. ToolsCut'
  <2>1. same' = same /\ halt' = halt /\ hardStop' = hardStop /\ raised' = raised
    OBVIOUS
  <2>2. \A t \in Tool : same[t] \in Nat
    BY DEF TypeOK, GuardTypeOK
  <2>3. CASE pc' = "model"
    <3>1. Counted' = 0 /\ halt = None
      BY <1>2, <2>1, <2>3 DEF Counted
    <3> QED BY <2>1, <2>2, <2>3, <3>1, BoundsAreNat DEF ToolsCut
  <2>4. CASE pc' = "halted"
    <3>1. Counted' = NumCalls
      BY <2>4 DEF Counted
    <3>2. Counted \in Nat /\ Counted <= NumCalls
      BY BoundsAreNat DEF Counted, TypeOK, Position
    <3> QED BY <2>1, <2>2, <2>4, <3>1, <3>2, BoundsAreNat DEF ToolsCut
  <2> QED BY <1>2, <2>3, <2>4
<1>5. CallsCut'
  BY <1>2, BoundsAreNat DEF CallsCut, Below
<1> QED BY <1>1, <1>2, <1>3, <1>4, <1>5

LEMMA CancelInv == IInv /\ Cancel => IInv'
<1> SUFFICES ASSUME IInv, Cancel PROVE IInv'
  OBVIOUS
<1> USE DEF IInv, Cancel
<1>1. /\ at \in 1 .. NumCalls /\ at \in 1 .. Len(calls) + 1 /\ at <= Len(calls)
      /\ Len(calls) \in Nat /\ Len(calls) \in 0 .. NumCalls
  BY BoundsAreNat DEF TypeOK, Position
<1>2. /\ answers' \in Seq(Answer) /\ Len(answers') = Len(calls)
      /\ \A i \in 1 .. Len(answers') : answers'[i].call = i
  BY <1>1, RestContinues DEF TypeOK, Sheet
<1>3. /\ GuardTypeOK' /\ OnlyReads' /\ CountsAreOfTheTurn' /\ ToolsCut' /\ CallsCut'
      /\ pc' \in {"halted", "model"}
  BY RoundEnds
<1>4. TypeOK'
  BY <1>2, <1>3, BoundsAreNat DEF TypeOK
<1>5. Position' /\ Sheet'
  BY <1>1, <1>2, <1>3, BoundsAreNat DEF Position, Sheet
<1> QED BY <1>3, <1>4, <1>5

LEMMA RunInv == IInv /\ Run => IInv'
<1> SUFFICES ASSUME IInv, Run PROVE IInv'
  OBVIOUS
<1> USE DEF IInv, Run, guard
<1>1. at \in 1 .. NumCalls /\ at <= Len(calls) /\ Len(calls) \in Nat /\ calls[at] \in Signature
  BY BoundsAreNat DEF TypeOK, Position
<1>2. hardStop => Below(calls[at], 0)
  BY <1>1, VerdictType DEF TypeOK
<1>3. GuardTypeOK'
  BY DEF TypeOK, GuardTypeOK
<1>4. TypeOK'
  BY <1>3, BoundsAreNat DEF TypeOK
<1>5. Position' /\ Sheet'
  BY <1>1, BoundsAreNat DEF Position, Sheet
<1>6. OnlyReads' /\ CountsAreOfTheTurn'
  BY CountsKept
<1>7. ToolsCut' /\ CallsCut'
  BY <1>1, <1>2, BoundsAreNat DEF ToolsCut, CallsCut, Counted, Below, TypeOK, GuardTypeOK
<1> QED BY <1>4, <1>5, <1>6, <1>7

LEMMA RaiseInv == IInv /\ Raise => IInv'
<1> SUFFICES ASSUME IInv, Raise PROVE IInv'
  OBVIOUS
<1> USE DEF IInv, Raise, guard
<1>1. GuardTypeOK'
  BY DEF TypeOK, GuardTypeOK
<1>2. TypeOK'
  BY <1>1, BoundsAreNat DEF TypeOK
<1>3. Position' /\ Sheet'
  BY BoundsAreNat DEF Position, Sheet
<1>4. OnlyReads' /\ CountsAreOfTheTurn'
  BY CountsKept
<1>5. ToolsCut' /\ CallsCut'
  BY BoundsAreNat DEF ToolsCut, CallsCut, Counted, Below, TypeOK, GuardTypeOK
<1> QED BY <1>2, <1>3, <1>4, <1>5

LEMMA KillInv == IInv /\ Kill => IInv'
<1> SUFFICES ASSUME IInv, Kill PROVE IInv'
  OBVIOUS
<1> USE DEF IInv, Kill, guard
<1>1. at \in 1 .. NumCalls /\ at - 1 <= NumCalls
  BY BoundsAreNat DEF TypeOK, Position
<1>2. GuardTypeOK'
  BY DEF TypeOK, GuardTypeOK
<1>3. TypeOK'
  BY <1>2, BoundsAreNat DEF TypeOK
<1>4. Position' /\ Sheet'
  BY BoundsAreNat DEF Position, Sheet
<1>5. OnlyReads' /\ CountsAreOfTheTurn'
  BY CountsKept
<1>6. ToolsCut' /\ CallsCut'
  BY <1>1, BoundsAreNat DEF ToolsCut, CallsCut, Counted, Below, TypeOK, GuardTypeOK
<1> QED BY <1>3, <1>4, <1>5, <1>6

\* The call is counted, and is within the limits it was asked about.
LEMMA ReturnInv ==
  ASSUME NEW result \in Result \cup {"error"}
  PROVE  IInv /\ Return(result) => IInv'
<1> SUFFICES ASSUME IInv, Return(result) PROVE IInv'
  OBVIOUS
<1> USE DEF IInv, Return
<1>1. /\ at \in 1 .. NumCalls /\ at \in Nat /\ at <= Len(calls) /\ Len(calls) \in Nat
      /\ calls[at] \in Signature
  BY BoundsAreNat DEF TypeOK, Position
<1>2. Advice(calls[at], result) \in {"blocked", "allow", "warn", "halt", "no_result"}
  BY DEF Advice
<1>3. answers' \in Seq(Answer) /\ Len(answers') = at /\ \A i \in 1 .. Len(answers') : answers'[i].call = i
  BY <1>1, <1>2, AppendContinues DEF TypeOK, Sheet
<1>4. GuardTypeOK' /\ OnlyReads' /\ CountsAreOfTheTurn' /\ history' \in Seq(Entry)
  BY <1>1, CountingIsExact
<1>5. TypeOK'
  BY <1>3, <1>4, BoundsAreNat DEF TypeOK, Entry
<1>6. Position' /\ Sheet'
  BY <1>1, <1>3, BoundsAreNat DEF Position, Sheet
<1>7. ToolsCut'
  <2>1. hardStop /\ ~raised => \A t \in Tool : same[t] < SameHalt + (at - 1)
    BY DEF ToolsCut, Counted
  <2>2. at - 1 \in Nat /\ (at - 1) + 1 = at
    BY <1>1
  <2>3. hardStop /\ ~raised => \A t \in Tool : same'[t] < SameHalt + at
    BY <1>1, <2>1, <2>2, CountingIsSlow
  <2>4. hardStop /\ ~raised /\ halt' = None => \A t \in Tool : same'[t] < SameHalt
    BY <1>1, CountingIsSlow DEF ToolsCut
  <2> QED BY <1>1, <2>3, <2>4, CountingIsSlow DEF ToolsCut, Counted
<1>8. CallsCut'
  <2>1. PICK s \in Signature : s = calls[at]
    BY <1>1
  <2>2. hardStop => Below(s, 0) /\ \A q \in Signature : Below(q, NumCalls)
    BY <2>1 DEF CallsCut
  <2>3. hardStop => Below(s, 0 + 1)'
    BY <1>1, <2>2, CountingIsSlow
  <2>4. hardStop => Below(s, NumCalls)'
    BY <1>4, <2>3, BoundsAreNat DEF Below, GuardTypeOK
  <2>5. hardStop => \A q \in Signature : Below(q, NumCalls)'
    BY <1>1, <2>1, <2>2, <2>4, BoundsAreNat, CountingIsSlow
  <2> QED BY <1>1, <2>5, CountingIsSlow DEF CallsCut
<1> QED BY <1>4, <1>5, <1>6, <1>7, <1>8

LEMMA Next1Inv == IInv /\ Next1 => IInv'
<1> SUFFICES ASSUME IInv, Next1 PROVE IInv'
  OBVIOUS
<1> USE DEF IInv
<1>1. /\ at \in 1 .. NumCalls /\ at + 1 \in 1 .. Len(calls) + 1 /\ at <= Len(calls)
      /\ Len(calls) \in Nat /\ Len(calls) \in 0 .. NumCalls /\ pc = "after"
  BY BoundsAreNat DEF TypeOK, Position, Next1
<1>2. CASE at = Len(calls)
  <2>1. /\ GuardTypeOK' /\ OnlyReads' /\ CountsAreOfTheTurn' /\ ToolsCut' /\ CallsCut'
        /\ pc' \in {"halted", "model"}
    BY <1>2, RoundEnds DEF Next1
  <2>2. TypeOK'
    BY <1>2, <2>1, BoundsAreNat DEF TypeOK, Next1
  <2>3. Position' /\ Sheet'
    BY <1>1, <1>2, <2>1, BoundsAreNat DEF Position, Sheet, Next1
  <2> QED BY <2>1, <2>2, <2>3
<1>3. CASE at # Len(calls) /\ interrupted
  <2>1. /\ GuardTypeOK' /\ OnlyReads' /\ CountsAreOfTheTurn' /\ ToolsCut' /\ CallsCut'
        /\ pc' \in {"halted", "model"}
    BY <1>3, RoundEnds DEF Next1
  <2>2. answers' = answers \o Rest(at + 1, "cancelled") /\ Len(answers) = (at + 1) - 1
    BY <1>1, <1>3 DEF Next1, Sheet
  <2>3. /\ answers' \in Seq(Answer) /\ Len(answers') = Len(calls)
        /\ \A i \in 1 .. Len(answers') : answers'[i].call = i
    BY <1>1, <2>2, RestContinues DEF TypeOK, Sheet
  <2>4. TypeOK'
    BY <1>3, <2>1, <2>3, BoundsAreNat DEF TypeOK, Next1
  <2>5. Position' /\ Sheet'
    BY <1>1, <1>3, <2>1, <2>3, BoundsAreNat DEF Position, Sheet, Next1
  <2> QED BY <2>1, <2>4, <2>5
<1>4. CASE at # Len(calls) /\ ~interrupted
  <2> USE DEF Next1, guard
  <2>1. GuardTypeOK'
    BY <1>4 DEF TypeOK, GuardTypeOK
  <2>2. TypeOK'
    BY <1>1, <1>4, <2>1, BoundsAreNat DEF TypeOK
  <2>3. Position' /\ Sheet'
    BY <1>1, <1>4, BoundsAreNat DEF Position, Sheet
  <2>4. OnlyReads' /\ CountsAreOfTheTurn'
    BY <1>4, CountsKept
  <2>5. ToolsCut'
    <3>1. Counted' = Counted /\ pc' = "check"
      BY <1>1, <1>4, BoundsAreNat DEF Counted
    <3> QED BY <1>1, <1>4, <3>1 DEF ToolsCut
  <2>6. CallsCut'
    BY <1>1, <1>4, BoundsAreNat DEF CallsCut, Below
  <2> QED BY <2>2, <2>3, <2>4, <2>5, <2>6
<1> QED BY <1>2, <1>3, <1>4

LEMMA ReportedInv == IInv /\ Reported => IInv'
<1> SUFFICES ASSUME IInv, Reported PROVE IInv'
  OBVIOUS
<1> USE DEF IInv, Reported
<1>1. at - 1 = Len(calls) /\ Len(calls) \in Nat
  BY BoundsAreNat DEF TypeOK, Position
<1>2. /\ GuardTypeOK' /\ OnlyReads' /\ CountsAreOfTheTurn' /\ ToolsCut' /\ CallsCut'
      /\ pc' \in {"halted", "model"}
  BY RoundEnds
<1>3. TypeOK'
  BY <1>2, BoundsAreNat DEF TypeOK
<1>4. Position' /\ Sheet'
  BY <1>1, <1>2, BoundsAreNat DEF Position, Sheet
<1> QED BY <1>2, <1>3, <1>4

\* Each call that is let pass is below its limits now.
LEMMA PlanInv == IInv /\ Plan => IInv'
<1> SUFFICES ASSUME IInv, Plan PROVE IInv'
  OBVIOUS
<1> USE DEF IInv
<1>1. /\ at = 1 /\ Len(calls) \in Nat /\ Len(calls) >= 1 /\ Len(calls) <= NumCalls
      /\ DOMAIN calls = 1 .. Len(calls) /\ \A i \in 1 .. Len(calls) : calls[i] \in Signature
  BY BoundsAreNat DEF TypeOK, Position, Plan
<1>2. PICK refused \in SUBSET DOMAIN calls :
          /\ verdicts' = [i \in DOMAIN calls |->
                            IF i \in refused THEN "plugin_block" ELSE Verdict(calls[i])]
          /\ \/ UNCHANGED halt
             \/ \E i \in DOMAIN calls : Verdict(calls[i]) # None /\ Halts(Verdict(calls[i]))
  BY DEF Plan
<1>3. /\ verdicts' \in Seq(Code \cup {None, "plugin_block"}) /\ Len(verdicts') = Len(calls)
      /\ \A i \in 1 .. Len(calls) : verdicts'[i] = None /\ hardStop => Below(calls[i], 0)
  <2>1. verdicts' \in [1 .. Len(calls) -> Code \cup {None, "plugin_block"}]
    BY <1>1, <1>2, VerdictType
  <2>2. verdicts' \in Seq(Code \cup {None, "plugin_block"}) /\ Len(verdicts') = Len(calls)
    BY <1>1, <2>1, FunctionIsSequence
  <2>3. ASSUME NEW i \in 1 .. Len(calls), verdicts'[i] = None, hardStop
        PROVE  Below(calls[i], 0)
    <3>1. Verdict(calls[i]) = None
      BY <1>1, <1>2, <2>3, GuardrailAssumption
    <3> QED BY <1>1, <2>3, <3>1, VerdictType DEF TypeOK
  <2> QED BY <2>2, <2>3
<1>4. halt' \in Code \cup {None} /\ (halt' = None => halt = None)
  <2>1. CASE UNCHANGED halt
    BY <2>1 DEF TypeOK, GuardTypeOK
  <2>2. CASE \E i \in DOMAIN calls : Verdict(calls[i]) # None /\ Halts(Verdict(calls[i]))
    BY <1>1, <2>2, VerdictType DEF Halts
  <2> QED BY <1>2, <2>1, <2>2
<1> USE DEF Plan
<1>5. GuardTypeOK'
  BY <1>4 DEF TypeOK, GuardTypeOK
<1>6. TypeOK'
  BY <1>3, <1>5, BoundsAreNat DEF TypeOK
<1>7. Position' /\ Sheet'
  BY <1>1, <1>3, BoundsAreNat DEF Position, Sheet
<1>8. OnlyReads' /\ CountsAreOfTheTurn'
  BY CountsKept
<1>9. ToolsCut'
  BY <1>1, <1>4, BoundsAreNat DEF ToolsCut, Counted
<1>10. CallsCut'
  BY <1>1, <1>3, BoundsAreNat DEF CallsCut, Below
<1> QED BY <1>6, <1>7, <1>8, <1>9, <1>10

\* The results come in one by one; the calls after them were let pass before.
LEMMA ReportInv == IInv /\ Report => IInv'
<1> SUFFICES ASSUME IInv, Report PROVE IInv'
  OBVIOUS
<1> USE DEF IInv
<1>1. /\ pc = "batch" /\ at \in 1 .. NumCalls /\ at \in Nat /\ at <= Len(calls) /\ Len(calls) \in Nat
      /\ Len(calls) <= NumCalls /\ Len(verdicts) = Len(calls)
      /\ at' = at + 1 /\ pc' = "batch" /\ calls' = calls /\ verdicts' = verdicts
      /\ interrupted' = interrupted /\ raised' = raised
  BY BoundsAreNat DEF TypeOK, Position, Report
<1>2. \A i \in 1 .. Len(calls) : calls[i] \in Signature
  BY DEF TypeOK
<1>3. PICK what \in {"blocked", "allow", "warn", "halt", "no_result"} : answers' = Append(answers, Says(at, what))
  BY DEF Report, Advice
<1>4. answers' \in Seq(Answer) /\ Len(answers') = at /\ \A i \in 1 .. Len(answers') : answers'[i].call = i
  BY <1>1, <1>3, AppendContinues DEF TypeOK, Sheet
<1>5. Position' /\ Sheet'
  BY <1>1, <1>4, BoundsAreNat DEF Position, Sheet
<1>6. Counted = at - 1 /\ Counted' = at /\ at - 1 \in Nat
  BY <1>1 DEF Counted
<1>7. CASE UNCHANGED <<guard, history>>
  <2> USE <1>7 DEF guard
  <2>1. GuardTypeOK'
    BY DEF TypeOK, GuardTypeOK
  <2>2. TypeOK'
    BY <1>1, <1>4, <2>1, BoundsAreNat DEF TypeOK
  <2>3. OnlyReads' /\ CountsAreOfTheTurn'
    BY CountsKept
  <2>4. ToolsCut'
    BY <1>1, <1>6, BoundsAreNat DEF ToolsCut, TypeOK, GuardTypeOK
  <2>5. CallsCut'
    <3>1. \A i \in at .. Len(calls) : Below(calls[i], at - 1) => Below(calls[i], at)
      <4>1. \A q \in Signature : exact[q] \in Nat /\ progress[q].count \in Nat
        BY DEF TypeOK, GuardTypeOK
      <4>2. \A i \in at .. Len(calls) : calls[i] \in Signature
        BY <1>1, <1>2
      <4> QED BY <1>1, <4>1, <4>2, BoundsAreNat DEF Below
    <3>2. hardStop => \A i \in at .. Len(calls) : verdicts[i] = None => Below(calls[i], at)
      <4>1. pc = "batch" /\ verdicts # <<>>
        BY DEF Report
      <4>2. hardStop => \A i \in at .. Len(calls) : verdicts[i] = None => Below(calls[i], at - 1)
        BY <4>1 DEF CallsCut
      <4> QED BY <3>1, <4>2, Zenon
    <3>3. exact' = exact /\ progress' = progress /\ hardStop' = hardStop /\ at' - 1 = at
      BY <1>1
    <3>4. hardStop => \A i \in at' .. Len(calls) : verdicts[i] = None => Below(calls[i], at)
      BY <1>1, <3>2
    <3>5. hardStop => \A q \in Signature : Below(q, NumCalls)
      BY DEF CallsCut
    <3> QED BY <1>1, <3>3, <3>4, <3>5 DEF CallsCut, Below
  <2> QED BY <1>5, <2>2, <2>3, <2>4, <2>5
<1>8. ASSUME NEW result \in Result \cup {"error"}, verdicts[at] = None, AfterCall(calls[at], result),
             history' = Append(history, [call |-> calls[at], result |-> result])
      PROVE  IInv'
  <2>1. PICK s \in Signature : s = calls[at]
    BY <1>1, <1>2
  <2>2. AfterCall(s, result) /\ history' = Append(history, [call |-> s, result |-> result])
    BY <1>8, <2>1
  <2>3. GuardTypeOK' /\ OnlyReads' /\ CountsAreOfTheTurn' /\ history' \in Seq(Entry)
    BY <2>2, CountingIsExact
  <2>4. TypeOK'
    BY <1>1, <1>4, <2>3, BoundsAreNat DEF TypeOK, Entry
  <2>5. ToolsCut'
    <3>1. hardStop /\ ~raised => \A t \in Tool : same'[t] < SameHalt + ((at - 1) + 1)
      BY <1>6, <2>2, CountingIsSlow DEF ToolsCut
    <3>2. hardStop /\ ~raised /\ halt' = None => \A t \in Tool : same'[t] < SameHalt
      BY <2>2, CountingIsSlow DEF ToolsCut
    <3>3. (at - 1) + 1 = at /\ hardStop' = hardStop
      BY <1>1, <2>2, CountingIsSlow
    <3> QED BY <1>1, <1>6, <3>1, <3>2, <3>3 DEF ToolsCut
  <2>6. CallsCut'
    <3>1. hardStop => /\ \A q \in Signature : Below(q, NumCalls)
                      /\ \A i \in at .. Len(calls) : verdicts[i] = None => Below(calls[i], at - 1)
      BY <1>1, <1>8 DEF CallsCut, Position
    <3>2. PICK n \in Nat : n = at - 1 /\ n + 1 = at
      BY <1>1, <1>6
    <3>9. hardStop => Below(s, n)
      <4>1. at \in at .. Len(calls)
        BY <1>1
      <4> QED BY <1>8, <2>1, <3>1, <3>2, <4>1
    <3>3. hardStop => Below(s, n + 1)'
      BY <2>2, <3>9, CountingIsSlow
    <3>4. hardStop => Below(s, NumCalls)'
      <4>1. exact'[s] \in Nat /\ progress'[s].count \in Nat /\ n + 1 <= NumCalls
        BY <1>1, <2>3, <3>2 DEF GuardTypeOK
      <4> QED BY <3>3, <4>1, BoundsAreNat DEF Below
    <3>5. hardStop => \A q \in Signature : Below(q, NumCalls)'
      BY <2>2, <3>1, <3>4, BoundsAreNat, CountingIsSlow
    <3>6. ASSUME hardStop, NEW i \in at + 1 .. Len(calls), verdicts[i] = None
          PROVE  Below(calls[i], at - 1)'
      <4>1. i \in 1 .. Len(calls) /\ i \in at .. Len(calls)
        BY <1>1
      <4>2. PICK q \in Signature : q = calls[i]
        BY <1>2, <4>1
      <4>3. Below(q, n)
        BY <3>1, <3>2, <3>6, <4>1, <4>2
      <4>4. Below(q, n + 1)'
        BY <2>2, <4>3, CountingIsSlow
      <4>5. calls'[i] = q /\ at' - 1 = n + 1
        BY <1>1, <3>2, <4>2
      <4> QED BY <4>4, <4>5 DEF Below
    <3>7. at' = at + 1 /\ hardStop' = hardStop
      BY <1>1, <2>2, CountingIsSlow
    <3>8. hardStop => \A i \in at' .. Len(calls') : verdicts'[i] = None => Below(calls[i], at - 1)'
      BY <1>1, <3>6, <3>7
    <3> QED BY <1>1, <3>5, <3>7, <3>8 DEF CallsCut
  <2> QED BY <1>5, <2>3, <2>4, <2>5, <2>6
<1> QED BY <1>7, <1>8 DEF Report

LEMMA RepairInv == IInv /\ Repair => IInv'
<1> SUFFICES ASSUME IInv, Repair PROVE IInv'
  OBVIOUS
<1> USE DEF IInv, Repair, guard
<1>1. /\ at \in 1 .. NumCalls /\ at \in 1 .. Len(calls) + 1 /\ at <= Len(calls)
      /\ Len(calls) \in Nat /\ Len(calls) \in 0 .. NumCalls
  BY BoundsAreNat DEF TypeOK, Position
<1>2. /\ answers' \in Seq(Answer) /\ Len(answers') = Len(calls)
      /\ \A i \in 1 .. Len(answers') : answers'[i].call = i
  BY <1>1, RestContinues DEF TypeOK, Sheet
<1>3. GuardTypeOK'
  BY DEF TypeOK, GuardTypeOK
<1>4. TypeOK'
  BY <1>2, <1>3, BoundsAreNat DEF TypeOK
<1>5. Position' /\ Sheet'
  BY <1>1, <1>2, BoundsAreNat DEF Position, Sheet
<1>6. OnlyReads' /\ CountsAreOfTheTurn'
  BY CountsKept
<1>7. ToolsCut' /\ CallsCut'
  BY BoundsAreNat DEF ToolsCut, CallsCut, Below
<1> QED BY <1>4, <1>5, <1>6, <1>7

LEMMA NewTurnInv == IInv /\ NewTurn => IInv'
<1> SUFFICES ASSUME IInv, NewTurn PROVE IInv'
  OBVIOUS
<1> USE DEF NewTurn, ResetForTurn
<1>1. GuardTypeOK'
  BY DEF IInv, TypeOK, GuardTypeOK, NoProgress
<1>2. TypeOK'
  <2>1. at' \in 1 .. NumCalls + 1
    BY BoundsAreNat
  <2>2. calls' \in Seq(Signature) /\ verdicts' \in Seq(Code \cup {None, "plugin_block"})
        /\ answers' \in Seq(Answer) /\ history' \in Seq([call : Signature, result : Result \cup {"error"}])
    OBVIOUS
  <2>3. {raised', interrupted'} \subseteq BOOLEAN
    OBVIOUS
  <2>4. pc' \in {"model", "check", "running", "after", "batch", "repair", "halted", "killed"}
    OBVIOUS
  <2> HIDE DEF NewTurn
  <2> QED BY <1>1, <2>1, <2>2, <2>3, <2>4 DEF TypeOK
<1>3. Position' /\ Sheet' /\ OnlyReads'
  BY BoundsAreNat DEF Position, Sheet, OnlyReads
<1>4. ToolsCut' /\ CallsCut'
  BY BoundsAreNat DEF ToolsCut, CallsCut, Counted, Below, NoProgress
<1>5. ASSUME NEW kind, NEW results
      PROVE  Streak(history', kind, results) = 0
  <2>1. Since(<<>>, kind, results) = {}
    BY DEF Since
  <2> QED BY <2>1, FS_EmptySet DEF Streak
<1>6. CountsAreOfTheTurn'
  BY <1>5, GuardrailAssumption DEF CountsAreOfTheTurn, NoProgress
<1> QED BY <1>2, <1>3, <1>4, <1>6 DEF IInv

\* The user's interrupt, or nothing at all.
LEMMA InterruptInv ==
  ASSUME IInv, UNCHANGED <<guard, pc, calls, at, verdicts, answers, history, raised>>, interrupted' \in BOOLEAN
  PROVE  IInv'
<1> USE DEF IInv, guard
<1>1. GuardTypeOK'
  BY DEF TypeOK, GuardTypeOK
<1>2. TypeOK'
  BY <1>1 DEF TypeOK
<1>3. Position' /\ Sheet'
  BY DEF Position, Sheet
<1>4. OnlyReads' /\ CountsAreOfTheTurn'
  BY CountsKept
<1>5. ToolsCut' /\ CallsCut'
  BY DEF ToolsCut, CallsCut, Counted, Below
<1> QED BY <1>2, <1>3, <1>4, <1>5

LEMMA Inductive == IInv /\ [Next]_vars => IInv'
<1> SUFFICES ASSUME IInv, [Next]_vars PROVE IInv'
  OBVIOUS
<1>1. CASE Begin
  BY <1>1, BeginInv
<1>2. CASE Sequential
  BY <1>2, CancelInv, BlockedByPluginInv, BlockedByGuardrailInv, RunInv, RaiseInv, KillInv, Next1Inv, ReturnInv
     DEF Sequential
<1>3. CASE Plan
  BY <1>3, PlanInv
<1>4. CASE Report
  BY <1>4, ReportInv
<1>5. CASE Reported
  BY <1>5, ReportedInv
<1>6. CASE Repair
  BY <1>6, RepairInv
<1>7. CASE NewTurn
  BY <1>7, NewTurnInv
<1>8. CASE Interrupt
  BY <1>8, InterruptInv DEF Interrupt
<1>9. CASE UNCHANGED vars
  <2>1. interrupted' \in BOOLEAN
    BY <1>9 DEF vars, IInv, TypeOK
  <2> QED BY <1>9, <2>1, InterruptInv DEF vars
<1> QED BY <1>1, <1>2, <1>3, <1>4, <1>5, <1>6, <1>7, <1>8, <1>9 DEF Next

-----------------------------------------------------------------------------
(* The theorems.                                                           *)

\* The guardrail counts what the calls of the turn amount to, in rounds of
\* either executor, and a loop is cut within one round of its limit
\* (tool_guardrails.py:298-359, tool_executor.py:457 and :862).
THEOREM GuardrailIsSound == Spec => []GuardrailSound
<1>1. IInv => GuardrailSound
  <2> SUFFICES ASSUME IInv PROVE GuardrailSound
    OBVIOUS
  <2>1. ASSUME hardStop, ~raised PROVE \A t \in Tool : same[t] < SameHalt + NumCalls
    <3>1. Counted \in Nat /\ Counted <= NumCalls
      BY BoundsAreNat DEF Counted, IInv, TypeOK, Position
    <3>2. \A t \in Tool : same[t] \in Nat /\ same[t] < SameHalt + Counted
      BY <2>1 DEF IInv, ToolsCut, TypeOK, GuardTypeOK
    <3>3. ASSUME NEW t \in Tool PROVE same[t] < SameHalt + NumCalls
      <4>1. same[t] \in Nat /\ same[t] < SameHalt + Counted
        BY <3>2
      <4> QED BY <3>1, <4>1, BoundsAreNat
    <3> QED BY <3>3
  <2>2. hardStop => \A s \in Signature : exact[s] < ExactBlock + NumCalls /\ progress[s].count < IdleBlock + NumCalls
    BY DEF IInv, CallsCut, Below
  <2> QED BY <2>1, <2>2 DEF IInv, GuardrailSound, LoopsAreCut
<1> QED BY <1>1, InitInv, Inductive, PTL DEF Spec

\* When the model is asked again, or the turn was halted, each call of the
\* round has one answer, in the order of the calls
\* (execute_tool_calls_sequential, conversation_loop.py:5226-5254).
THEOREM EachCallIsAnsweredInOrder == Spec => []EachCallAnsweredInOrder
<1>1. IInv => EachCallAnsweredInOrder
  BY DEF IInv, TypeOK, Sheet, EachCallAnsweredInOrder
<1> QED BY <1>1, InitInv, Inductive, PTL DEF Spec
=============================================================================
