---------------------------- MODULE TurnLoopProofs ----------------------------
(***************************************************************************)
(* Proofs about TurnLoop, for any limits, rounds of any number of calls    *)
(* and transcripts of any length.  At the end are the threads that make a  *)
(* request of the turn (ModelRequest), with variables of their own.        *)
(***************************************************************************)
EXTENDS TurnLoop, ModelRequest, SequenceTheorems, FiniteSetTheorems, NaturalsInduction,
        WellFoundedInduction, TLAPS

-----------------------------------------------------------------------------
(* The inductive invariant.                                                *)

\* A list in which every call is followed by its results.
Whole(list) ==
    \A i \in 1 .. Len(list) : list[i] \in Calls =>
        /\ i + NumCalls <= Len(list)
        /\ \A j \in i + 1 .. i + NumCalls : list[j] = "tool"

\* A list that begins with the user's message.
Opened(list) == Len(list) >= 1 /\ list[1] = "user"

\* Before the tools run, only the last message lacks its results.
Transcript ==
    /\ pc = "idle" => messages = <<>>
    /\ pc # "idle" => Opened(messages)
    /\ pc = "tools" => Len(messages) > 1 /\ Whole(Front(messages)) /\ Last(messages) \in Calls
    /\ pc # "tools" => Whole(messages)

\* What was cut off is a text of the transcript, so rolling it back stops
\* short of the user's message.
HasText(list) == \E i \in 1 .. Len(list) : list[i] = "text"
PartsAreTexts == parts => HasText(messages)

\* A recovery passes its limit only with the step that ends the turn.
Within(t) == t \in [Recovery -> Nat] /\ \A r \in Recovery : t[r] <= Limit[r]
WithinLimits ==
    /\ tries \in [Recovery -> Nat]
    /\ pc # "done" => exit = "none" /\ Within(tries)
    /\ pc \in {"steer", "respond"} => count >= 1

IInv == LoopTypeOK /\ Transcript /\ PartsAreTexts /\ WithinLimits /\ BudgetWithinCount /\ AnswerStandsOnItsOwn

-----------------------------------------------------------------------------
(* Lemmas about the operators.                                             *)

LEMMA BoundsAreNat == MaxIterations \in Nat \ {0} /\ NumCalls \in Nat \ {0}
BY LimitsAssumption

\* A set of positions has a last one.
LEMMA LastOf ==
  ASSUME NEW n \in Nat, NEW I, I \subseteq 1 .. n, I # {}
  PROVE  Max(I) \in I /\ \A y \in I : y <= Max(I)
<1> DEFINE D == {n - y : y \in I}
           less == OpToRel(<, Nat)
<1>1. D \subseteq Nat /\ D # {}
  <2>1. \A y \in I : n - y \in Nat
    OBVIOUS
  <2> QED BY <2>1
<1>2. IsWellFoundedOn(less, Nat)
  BY NatLessThanWellFounded, Zenon
<1>3. PICK d \in D : \A e \in D : <<e, d>> \notin less
  <2> HIDE DEF D, less
  <2> QED BY <1>1, <1>2, WFMin
<1>4. \A e \in D : e >= d
  <2>1. \A e \in D : ~(e < d)
    <3> HIDE DEF D
    <3> QED BY <1>1, <1>3 DEF OpToRel
  <2>2. \A e \in D : e \in Nat /\ d \in Nat
    BY <1>1
  <2> HIDE DEF D
  <2> QED BY <2>1, <2>2
<1>5. PICK x \in I : d = n - x
  OBVIOUS
<1>6. ASSUME NEW y \in I
      PROVE  y <= x
  <2>1. n - y \in D
    OBVIOUS
  <2> QED BY <1>4, <1>5, <2>1
<1>7. \E z \in I : \A y \in I : z >= y
  BY <1>6
<1>8. Max(I) \in I /\ \A y \in I : Max(I) >= y
  BY <1>7, Zenon DEF Max
<1> QED BY <1>8

\* Two complete lists make a complete list.
LEMMA ConcatComplete ==
  ASSUME NEW a \in Seq(Message), NEW b \in Seq(Message), Whole(a), Whole(b)
  PROVE  a \o b \in Seq(Message) /\ Whole(a \o b)
<1> DEFINE c == a \o b
<1>1. /\ c \in Seq(Message) /\ Len(c) = Len(a) + Len(b)
      /\ \A i \in 1 .. Len(a) + Len(b) : c[i] = IF i <= Len(a) THEN a[i] ELSE b[i - Len(a)]
      /\ Len(a) \in Nat /\ Len(b) \in Nat
  BY ConcatProperties
<1> HIDE DEF c
<1>2. ASSUME NEW i \in 1 .. Len(c), c[i] \in Calls
      PROVE  i + NumCalls <= Len(c) /\ \A j \in i + 1 .. i + NumCalls : c[j] = "tool"
  <2>1. CASE i <= Len(a)
    <3>1. i \in 1 .. Len(a) /\ a[i] \in Calls
      BY <1>1, <1>2, <2>1
    <3>2. i + NumCalls <= Len(a) /\ \A j \in i + 1 .. i + NumCalls : a[j] = "tool"
      BY <3>1 DEF Whole
    <3>3. \A j \in i + 1 .. i + NumCalls : j \in 1 .. Len(a) + Len(b) /\ j <= Len(a)
      BY <1>1, <3>1, <3>2, BoundsAreNat
    <3> QED BY <1>1, <3>1, <3>2, <3>3, BoundsAreNat
  <2>2. CASE i > Len(a)
    <3> DEFINE k == i - Len(a)
    <3>1. k \in 1 .. Len(b) /\ b[k] \in Calls
      BY <1>1, <1>2, <2>2
    <3>2. k + NumCalls <= Len(b) /\ \A j \in k + 1 .. k + NumCalls : b[j] = "tool"
      BY <3>1 DEF Whole
    <3>3. \A j \in i + 1 .. i + NumCalls :
             j \in 1 .. Len(a) + Len(b) /\ ~(j <= Len(a)) /\ j - Len(a) \in k + 1 .. k + NumCalls
      BY <1>1, <2>2, <3>2, BoundsAreNat
    <3>4. \A j \in i + 1 .. i + NumCalls : c[j] = b[j - Len(a)]
      BY <1>1, <3>3
    <3>5. \A j \in i + 1 .. i + NumCalls : c[j] = "tool"
      BY <3>2, <3>3, <3>4
    <3>6. i + NumCalls <= Len(c)
      BY <1>1, <3>2, BoundsAreNat
    <3> QED BY <3>5, <3>6
  <2> QED BY <1>1, <2>1, <2>2
<1> QED BY <1>1, <1>2 DEF Whole, c

\* A list without calls is complete, ...
LEMMA PlainComplete ==
  ASSUME NEW a \in Seq(Message \ Calls)
  PROVE  a \in Seq(Message) /\ Whole(a)
BY DEF Whole

\* ... and so is a round with its results, whatever without calls follows it.
LEMMA RoundComplete ==
  ASSUME NEW kind \in Calls, NEW a \in Seq(Message \ Calls), Len(a) >= NumCalls,
         \A j \in 1 .. NumCalls : a[j] = "tool"
  PROVE  <<kind>> \o a \in Seq(Message) /\ Whole(<<kind>> \o a)
<1> DEFINE c == <<kind>> \o a
<1>1. <<kind>> \in Seq(Message) /\ a \in Seq(Message) /\ Len(a) \in Nat
  BY DEF Message
<1>2. /\ c \in Seq(Message) /\ Len(c) = 1 + Len(a)
      /\ \A i \in 1 .. 1 + Len(a) : c[i] = IF i <= 1 THEN kind ELSE a[i - 1]
  BY <1>1, ConcatProperties
<1> HIDE DEF c
<1>3. ASSUME NEW i \in 1 .. Len(c), c[i] \in Calls
      PROVE  i = 1
  <2>1. \A j \in 1 .. Len(a) : a[j] \notin Calls
    OBVIOUS
  <2>2. i # 1 => c[i] = a[i - 1] /\ i - 1 \in 1 .. Len(a)
    BY <1>1, <1>2
  <2> QED BY <1>3, <2>1, <2>2
<1>4. 1 + NumCalls <= Len(c) /\ \A j \in 2 .. 1 + NumCalls : c[j] = "tool"
  BY <1>1, <1>2, BoundsAreNat
<1>5. \A i \in 1 .. Len(c) : c[i] \in Calls =>
         i + NumCalls <= Len(c) /\ \A j \in i + 1 .. i + NumCalls : c[j] = "tool"
  BY <1>3, <1>4
<1> QED BY <1>2, <1>5 DEF Whole, c

LEMMA AnswersAreTools ==
  ASSUME NEW n \in Nat
  PROVE  /\ Answers(n) \in Seq(Message \ Calls) /\ Len(Answers(n)) = n
         /\ \A j \in 1 .. n : Answers(n)[j] = "tool"
BY DEF Answers, Message, Calls, Scaffold

\* What is appended leaves the opening and the texts where they are.
LEMMA ConcatOpened ==
  ASSUME NEW a \in Seq(Message), NEW b \in Seq(Message), Opened(a)
  PROVE  Opened(a \o b) /\ (HasText(a) \/ HasText(b) => HasText(a \o b))
<1>1. /\ Len(a \o b) = Len(a) + Len(b) /\ Len(a) \in Nat /\ Len(b) \in Nat /\ Len(a) >= 1 /\ a[1] = "user"
      /\ \A i \in 1 .. Len(a) + Len(b) : (a \o b)[i] = IF i <= Len(a) THEN a[i] ELSE b[i - Len(a)]
  BY ConcatProperties DEF Opened
<1>2. Opened(a \o b)
  BY <1>1 DEF Opened
<1>3. ASSUME NEW i \in 1 .. Len(a), a[i] = "text"
      PROVE  HasText(a \o b)
  <2>1. i \in 1 .. Len(a \o b) /\ (a \o b)[i] = "text"
    BY <1>1, <1>3
  <2> QED BY <2>1 DEF HasText
<1>4. ASSUME NEW i \in 1 .. Len(b), b[i] = "text"
      PROVE  HasText(a \o b)
  <2>1. i + Len(a) \in 1 .. Len(a \o b) /\ (a \o b)[i + Len(a)] = "text"
    BY <1>1, <1>4
  <2> QED BY <2>1 DEF HasText
<1> QED BY <1>2, <1>3, <1>4 DEF HasText

\* Stripping scaffolding strips no call and no result.
LEMMA BareKeeps ==
  ASSUME NEW list \in Seq(Message), Whole(list), Opened(list), NEW kinds \in SUBSET Scaffold
  PROVE  LET bare == Bare(list, kinds) IN
         /\ bare \in Seq(Message) /\ Whole(bare) /\ Opened(bare)
         /\ bare[Len(bare)] \notin kinds
         /\ HasText(list) => HasText(bare)
<1> DEFINE I == {i \in 1 .. Len(list) : list[i] \notin kinds}
           n == Max(I)
           bare == Bare(list, kinds)
<1>1. I \subseteq 1 .. Len(list) /\ Len(list) \in Nat /\ 1 \in I
  BY DEF Opened, Scaffold
<1>2. n \in I /\ \A y \in I : y <= n
  <2> HIDE DEF I
  <2> QED BY <1>1, LastOf
<1>3. bare = SubSeq(list, 1, n)
  BY <1>1 DEF Bare, SelectLastInSeq
<1> HIDE DEF n, bare
<1>4. n \in 1 .. Len(list) /\ list[n] \notin kinds /\ \A i \in 1 .. Len(list) : list[i] \notin kinds => i <= n
  BY <1>2
<1>5. bare \in Seq(Message) /\ Len(bare) = n /\ \A i \in 1 .. n : bare[i] = list[i]
  <2>1. \A i \in 1 .. n : list[i] \in Message
    BY <1>4
  <2>2. 1 \in Int /\ n \in Int /\ 1 <= n
    BY <1>4
  <2>3. /\ bare \in Seq(Message) /\ Len(bare) = n - 1 + 1
        /\ \A i \in 1 .. n - 1 + 1 : bare[i] = list[1 + i - 1]
    BY <1>3, <2>1, <2>2, SubSeqProperties
  <2> QED BY <1>4, <2>3
<1>6. ASSUME NEW i \in 1 .. n, list[i] \in Calls
      PROVE  i + NumCalls <= n /\ \A j \in i + 1 .. i + NumCalls : list[j] = "tool"
  <2>1. i + NumCalls <= Len(list) /\ \A j \in i + 1 .. i + NumCalls : list[j] = "tool"
    BY <1>4, <1>6 DEF Whole
  <2>2. i + NumCalls \in 1 .. Len(list) /\ i + NumCalls \in i + 1 .. i + NumCalls
    BY <1>4, <2>1, BoundsAreNat
  <2>3. list[i + NumCalls] \notin kinds
    BY <2>1, <2>2 DEF Scaffold
  <2> QED BY <1>4, <2>1, <2>2, <2>3
<1>7. Whole(bare)
  <2>1. ASSUME NEW i \in 1 .. n, bare[i] \in Calls
        PROVE  i + NumCalls <= n /\ \A j \in i + 1 .. i + NumCalls : bare[j] = "tool"
    <3>1. i + NumCalls <= n /\ \A j \in i + 1 .. i + NumCalls : list[j] = "tool"
      BY <1>5, <1>6, <2>1
    <3>2. \A j \in i + 1 .. i + NumCalls : j \in 1 .. n
      BY <1>4, <3>1, BoundsAreNat
    <3> QED BY <1>5, <3>1, <3>2
  <2> QED BY <1>5, <2>1 DEF Whole
<1>8. Opened(bare) /\ bare[Len(bare)] \notin kinds
  BY <1>4, <1>5 DEF Opened
<1>9. HasText(list) => HasText(bare)
  <2>1. "text" \notin kinds
    BY DEF Scaffold
  <2> QED BY <1>4, <1>5, <2>1 DEF HasText
<1> QED BY <1>5, <1>7, <1>8, <1>9 DEF bare

\* Rolling back to before the last message of the model.
LEMMA RollbackKeeps ==
  ASSUME NEW list \in Seq(Message), Whole(list), Opened(list), HasText(list)
  PROVE  LET rest == SubSeq(list, 1, SelectLastInSeq(list, LAMBDA m : m \in Assistant) - 1) IN
         rest \in Seq(Message) /\ Whole(rest) /\ Opened(rest)
<1> DEFINE I == {i \in 1 .. Len(list) : list[i] \in Assistant}
           n == Max(I) - 1
           rest == SubSeq(list, 1, SelectLastInSeq(list, LAMBDA m : m \in Assistant) - 1)
<1>1. I \subseteq 1 .. Len(list) /\ Len(list) \in Nat /\ I # {}
  BY DEF HasText, Assistant
<1>2. Max(I) \in I /\ \A y \in I : y <= Max(I)
  <2> HIDE DEF I
  <2> QED BY <1>1, LastOf
<1>3. rest = SubSeq(list, 1, n)
  BY <1>1 DEF SelectLastInSeq
<1>4. /\ n \in 1 .. Len(list) /\ n + 1 \in 1 .. Len(list) /\ list[n + 1] \in Assistant
  <2>1. Max(I) \in 1 .. Len(list) /\ list[Max(I)] \in Assistant
    BY <1>2
  <2>2. Max(I) # 1
    BY <2>1 DEF Opened, Assistant, Calls
  <2>3. n + 1 = Max(I) /\ n \in 1 .. Len(list)
    BY <1>1, <2>1, <2>2
  <2> QED BY <2>1, <2>3
<1> HIDE DEF n, rest
<1>5. rest \in Seq(Message) /\ Len(rest) = n /\ \A i \in 1 .. n : rest[i] = list[i]
  <2>1. \A i \in 1 .. n : list[i] \in Message
    BY <1>4
  <2>2. 1 \in Int /\ n \in Int /\ 1 <= n
    BY <1>4
  <2>3. /\ rest \in Seq(Message) /\ Len(rest) = n - 1 + 1
        /\ \A i \in 1 .. n - 1 + 1 : rest[i] = list[1 + i - 1]
    BY <1>3, <2>1, <2>2, SubSeqProperties
  <2> QED BY <1>4, <2>3
<1>6. ASSUME NEW i \in 1 .. n, rest[i] \in Calls
      PROVE  i + NumCalls <= n /\ \A j \in i + 1 .. i + NumCalls : rest[j] = "tool"
  <2>1. i + NumCalls <= Len(list) /\ \A j \in i + 1 .. i + NumCalls : list[j] = "tool"
    BY <1>4, <1>5, <1>6 DEF Whole
  <2>2. n + 1 \notin i + 1 .. i + NumCalls
    BY <1>4, <2>1 DEF Assistant, Calls
  <2>3. i + NumCalls <= n
    BY <1>4, <2>2, BoundsAreNat
  <2>4. \A j \in i + 1 .. i + NumCalls : j \in 1 .. n
    BY <1>4, <2>3, BoundsAreNat
  <2> QED BY <1>5, <2>1, <2>3, <2>4
<1>7. Whole(rest) /\ Opened(rest)
  BY <1>4, <1>5, <1>6 DEF Whole, Opened
<1> QED BY <1>5, <1>7 DEF rest

\* The counters of the recoveries: cleared, and one of them counted.
LEMMA TriesWithin ==
  ASSUME Within(tries)
  PROVE  /\ \A rs \in SUBSET Recovery : Within(Cleared(rs))
         /\ \A r \in Recovery : tries[r] < Limit[r] =>
               /\ \A rs \in SUBSET Recovery : Within([Cleared(rs) EXCEPT ![r] = @ + 1])
               /\ Within([tries EXCEPT ![r] = @ + 1])
<1>1. \A r \in Recovery : Limit[r] \in Nat /\ tries[r] \in Nat /\ tries[r] <= Limit[r]
  BY LimitsAssumption DEF Within
<1>2. ASSUME NEW rs \in SUBSET Recovery
      PROVE  /\ Within(Cleared(rs))
             /\ \A r \in Recovery : Cleared(rs)[r] <= tries[r]
  BY <1>1 DEF Within, Cleared
<1>3. ASSUME NEW r \in Recovery, tries[r] < Limit[r], NEW rs \in SUBSET Recovery
      PROVE  Within([Cleared(rs) EXCEPT ![r] = @ + 1])
  <2>1. Cleared(rs)[r] \in Nat /\ Cleared(rs)[r] + 1 <= Limit[r]
    BY <1>1, <1>2, <1>3 DEF Within
  <2> QED BY <1>1, <1>2, <2>1 DEF Within
<1>4. ASSUME NEW r \in Recovery, tries[r] < Limit[r]
      PROVE  Within([tries EXCEPT ![r] = @ + 1])
  BY <1>1, <1>4 DEF Within
<1> QED BY <1>2, <1>3, <1>4

-----------------------------------------------------------------------------
(* The invariant is inductive.                                             *)

\* A step whose transcript is complete again.
Lists == messages' \in Seq(Message) /\ Transcript' /\ PartsAreTexts'

LEMMA ListsKept ==
  ASSUME IInv, pc \in {"top", "steer", "respond"}, pc' \in {"top", "steer", "respond", "done"},
         UNCHANGED messages, parts' => parts
  PROVE  Lists
BY DEF IInv, LoopTypeOK, Transcript, PartsAreTexts, HasText, Opened, Whole, Lists

LEMMA ListsGrow ==
  ASSUME IInv, pc \in {"top", "respond"}, pc' \in {"top", "done"},
         NEW more \in Seq(Message), Whole(more), messages' = messages \o more,
         parts' => parts \/ HasText(more)
  PROVE  Lists
<1>1. messages \in Seq(Message) /\ Opened(messages) /\ Whole(messages) /\ (parts => HasText(messages))
  BY DEF IInv, LoopTypeOK, Transcript, PartsAreTexts
<1>2. messages' \in Seq(Message) /\ Whole(messages')
  BY <1>1, ConcatComplete
<1>3. Opened(messages') /\ (HasText(messages) \/ HasText(more) => HasText(messages'))
  BY <1>1, ConcatOpened
<1>4. Opened(messages)' /\ Whole(messages)' /\ (parts => HasText(messages))'
  BY <1>1, <1>2, <1>3 DEF Opened, Whole, HasText
<1> QED BY <1>2, <1>4 DEF Lists, Transcript, PartsAreTexts

\* What the loop appends without calling a tool.
LEMMA PlainLists ==
  /\ <<>> \in Seq(Message) /\ Whole(<<>>)
  /\ \A m \in Message \ Calls : /\ <<m>> \in Seq(Message) /\ Whole(<<m>>)
                                 /\ Len(<<m>>) = 1 /\ <<m>>[1] = m
  /\ \A m, n \in Message \ Calls : <<m, n>> \in Seq(Message) /\ Whole(<<m, n>>)
  /\ HasText(<<"text">>) /\ HasText(<<"text", "user">>) /\ HasText(<<"text", "check">>)
<1>1. <<>> \in Seq(Message \ Calls)
  OBVIOUS
<1>2. \A m \in Message \ Calls : <<m>> \in Seq(Message \ Calls) /\ Len(<<m>>) = 1 /\ <<m>>[1] = m
  OBVIOUS
<1>3. \A m, n \in Message \ Calls : <<m, n>> \in Seq(Message \ Calls)
  OBVIOUS
<1>4. HasText(<<"text">>) /\ HasText(<<"text", "user">>) /\ HasText(<<"text", "check">>)
  BY DEF HasText
<1> QED BY <1>1, <1>2, <1>3, <1>4, PlainComplete

LEMMA KindsOfMessage ==
  /\ {"user", "text", "tool", "check", "nudged", "nudge", "prefill", "sentinel"} = Message \ Calls
  /\ Calls \subseteq Message
BY DEF Message, Calls, Scaffold

\* A step of the loop that goes on or ends the turn, the iterations as they were.
LEMMA LoopStep ==
  ASSUME IInv, pc # "done", Lists, UNCHANGED <<count, used, grace, interrupt>>,
         nudged' \in BOOLEAN, remark' \in BOOLEAN, parts' \in BOOLEAN, fallback' \in BOOLEAN,
         \/ GoOn /\ Within(tries')
         \/ /\ pc' = "done" /\ exit' \in Exits \ {"text"}
            /\ tries' \in [Recovery -> Nat] /\ \A r \in Recovery : tries'[r] <= Limit[r] + 1
  PROVE  IInv'
<1>1. \A r \in Recovery : Limit[r] \in Nat
  BY LimitsAssumption
<1>2. tries' \in [Recovery -> Nat] /\ \A r \in Recovery : tries'[r] \in 0 .. Limit[r] + 1
  BY <1>1 DEF Within
<1>3. exit = "none" /\ exit' \in Exits \ {"text"}
  BY DEF IInv, WithinLimits, GoOn, Exits, Answered
<1>4. pc' \in {"top", "done"} /\ messages' \in Seq(Message)
  BY DEF GoOn, Lists
<1>5. {grace', nudged', remark', parts', fallback', interrupt'} \subseteq BOOLEAN
  BY DEF IInv, LoopTypeOK
<1>6. LoopTypeOK'
  BY <1>2, <1>3, <1>4, <1>5 DEF IInv, LoopTypeOK
<1>7. WithinLimits'
  BY <1>2, <1>3, <1>4 DEF WithinLimits, GoOn, Within
<1>8. BudgetWithinCount' /\ AnswerStandsOnItsOwn'
  BY <1>3 DEF IInv, BudgetWithinCount, AnswerStandsOnItsOwn
<1> QED BY <1>6, <1>7, <1>8 DEF IInv, Lists

LEMMA Typed ==
  ASSUME IInv
  PROVE  /\ messages \in Seq(Message) /\ count \in Nat /\ used \in Nat
         /\ grace \in BOOLEAN /\ nudged \in BOOLEAN /\ remark \in BOOLEAN /\ parts \in BOOLEAN
         /\ fallback \in BOOLEAN /\ interrupt \in BOOLEAN
         /\ tries \in [Recovery -> Nat]
         /\ pc # "done" => Within(tries)
         /\ \A r \in Recovery : Limit[r] \in Nat /\ tries[r] <= Limit[r] + 1
<1>1. {grace, nudged, remark, parts, fallback, interrupt} \subseteq BOOLEAN
  BY DEF IInv, LoopTypeOK
<1>2. grace \in BOOLEAN /\ nudged \in BOOLEAN /\ remark \in BOOLEAN /\ parts \in BOOLEAN
      /\ fallback \in BOOLEAN /\ interrupt \in BOOLEAN
  BY <1>1
<1> QED BY <1>2, LimitsAssumption, BoundsAreNat DEF IInv, LoopTypeOK, WithinLimits, Within

LEMMA InitInv == Init => IInv
<1> SUFFICES ASSUME Init PROVE IInv
  OBVIOUS
<1>1. messages = <<>> /\ messages \in Seq(Message) /\ Whole(messages) /\ ~parts /\ pc = "idle" /\ exit = "none"
  BY PlainLists DEF Init
<1>2. Within(tries)
  BY LimitsAssumption DEF Init, Within
<1>3. {grace, nudged, remark, parts, fallback, interrupt} \subseteq BOOLEAN
  BY LimitsAssumption DEF Init
<1>4. count = 0 /\ used = 0
  BY DEF Init
<1>5. \A r \in Recovery : tries[r] \in 0 .. Limit[r] + 1
  BY <1>2, LimitsAssumption DEF Within
<1>6. LoopTypeOK
  BY <1>1, <1>3, <1>4, <1>5, BoundsAreNat DEF LoopTypeOK, Exits
<1> QED BY <1>1, <1>2, <1>4, <1>6, BoundsAreNat
        DEF IInv, Transcript, PartsAreTexts, WithinLimits, Within, BudgetWithinCount, AnswerStandsOnItsOwn

LEMMA StartTurnInv == IInv /\ StartTurn => IInv'
<1> SUFFICES ASSUME IInv, StartTurn PROVE IInv'
  OBVIOUS
<1> USE DEF StartTurn, counters, flags, user
<1>1. messages = <<>> /\ messages' = <<"user">>
  <2>1. messages = <<>> /\ messages' = messages \o <<"user">>
    BY DEF IInv, Transcript, Says
  <2> QED BY <2>1
<1>2. messages' \in Seq(Message) /\ Whole(<<"user">>) /\ Len(messages') = 1 /\ messages'[1] = "user"
  BY <1>1, PlainLists, KindsOfMessage
<1>3. Transcript'
  <2>1. Whole(messages)'
    BY <1>1, <1>2 DEF Whole
  <2> QED BY <1>2, <2>1 DEF Transcript, Opened
<1>4. PartsAreTexts'
  BY <1>1 DEF IInv, LoopTypeOK, PartsAreTexts, HasText
<1> QED BY <1>2, <1>3, <1>4, Typed, LoopStep DEF IInv, WithinLimits, Lists, GoOn

LEMMA StopAtTopInv == IInv /\ StopAtTop => IInv'
<1> SUFFICES ASSUME IInv, StopAtTop PROVE IInv'
  OBVIOUS
<1> USE DEF StopAtTop, counters, flags, user, Leave, Exits
<1>1. Lists
  BY ListsKept
<1> QED BY <1>1, Typed, LoopStep

LEMMA IterationsOverInv == IInv /\ IterationsOver => IInv'
<1> SUFFICES ASSUME IInv, IterationsOver PROVE IInv'
  OBVIOUS
<1> USE DEF IterationsOver, counters, flags, user, Leave, Exits
<1>1. Lists
  BY ListsKept
<1> QED BY <1>1, Typed, LoopStep

\* The steps that move the iterations.
LEMMA IterateInv == IInv /\ Iterate => IInv'
<1> SUFFICES ASSUME IInv, Iterate PROVE IInv'
  OBVIOUS
<1> USE DEF Iterate, flags
<1>1. Lists
  BY ListsKept
<1>2. /\ count' \in 0 .. MaxIterations + 1 /\ count' >= 1 /\ used' \in 0 .. MaxIterations
      /\ used' <= count' /\ ~grace'
  BY BoundsAreNat DEF IInv, LoopTypeOK, BudgetWithinCount, MayIterate
<1>4. {grace', nudged', remark', parts', fallback', interrupt'} \subseteq BOOLEAN
  BY <1>2 DEF IInv, LoopTypeOK
<1>5. LoopTypeOK'
  BY <1>1, <1>2, <1>4 DEF IInv, LoopTypeOK, Lists
<1>6. WithinLimits' /\ BudgetWithinCount' /\ AnswerStandsOnItsOwn'
  BY <1>2, BoundsAreNat DEF IInv, LoopTypeOK, WithinLimits, Within, BudgetWithinCount, AnswerStandsOnItsOwn
<1> QED BY <1>1, <1>5, <1>6 DEF IInv, Lists

\* What becomes of the drained steers.
LEMMA DrainedInv == IInv /\ (Inject \/ PutBack) => IInv'
<1> SUFFICES ASSUME IInv, Inject \/ PutBack PROVE IInv'
  OBVIOUS
<1>1. pc = "steer" /\ pc' = "respond" /\ UNCHANGED <<messages, count, used, grace, tries>>
      /\ UNCHANGED <<nudged, remark, parts, fallback, interrupt, exit>>
  BY DEF Inject, PutBack, counters, flags
<1>2. Lists
  BY <1>1, ListsKept
<1>3. {grace', nudged', remark', parts', fallback', interrupt'} \subseteq BOOLEAN
  BY <1>1, Typed
<1>4. LoopTypeOK'
  BY <1>1, <1>3 DEF IInv, LoopTypeOK
<1>5. WithinLimits' /\ BudgetWithinCount' /\ AnswerStandsOnItsOwn'
  BY <1>1 DEF IInv, WithinLimits, Within, BudgetWithinCount, AnswerStandsOnItsOwn, Front, Last
<1> QED BY <1>2, <1>4, <1>5 DEF IInv, Lists

LEMMA ContextTooSmallInv == IInv /\ ContextTooSmall => IInv'
<1> SUFFICES ASSUME IInv, ContextTooSmall PROVE IInv'
  OBVIOUS
<1> USE DEF ContextTooSmall, flags, user, Leave
<1>1. Lists
  BY PlainLists, KindsOfMessage, ListsGrow DEF Says
<1>2. /\ count' \in 0 .. MaxIterations /\ used' \in 0 .. MaxIterations /\ used' <= count'
  BY BoundsAreNat DEF IInv, LoopTypeOK, WithinLimits, BudgetWithinCount, Refund
<1>3. {grace', nudged', remark', parts', fallback', interrupt'} \subseteq BOOLEAN
  BY DEF IInv, LoopTypeOK
<1>4. LoopTypeOK'
  BY <1>1, <1>2, <1>3, BoundsAreNat DEF IInv, LoopTypeOK, Lists, Exits
<1>5. WithinLimits' /\ AnswerStandsOnItsOwn'
  BY DEF IInv, WithinLimits, Within, AnswerStandsOnItsOwn
<1>6. BudgetWithinCount'
  BY <1>2, BoundsAreNat DEF BudgetWithinCount
<1> QED BY <1>1, <1>4, <1>5, <1>6 DEF IInv, Lists

LEMMA GivenBack ==
  ASSUME IInv, pc = "respond", count' = count - 1, Refund, GoOn, UNCHANGED <<grace, user>>,
         Lists, Within(tries'), parts' \in BOOLEAN, fallback' \in BOOLEAN, nudged' \in BOOLEAN, remark' \in BOOLEAN
  PROVE  IInv'
<1> USE DEF user
<1>1. /\ count' \in 0 .. MaxIterations /\ used' \in 0 .. MaxIterations /\ used' <= count'
  BY BoundsAreNat DEF IInv, LoopTypeOK, WithinLimits, BudgetWithinCount, Refund
<1>2. {grace', nudged', remark', parts', fallback', interrupt'} \subseteq BOOLEAN
  BY DEF IInv, LoopTypeOK
<1>3. LoopTypeOK'
  <2>1. \A r \in Recovery : tries'[r] \in 0 .. Limit[r] + 1
    BY LimitsAssumption DEF Within
  <2>2. messages' \in Seq(Message) /\ pc' = "top" /\ exit' = exit
    BY DEF Lists, GoOn
  <2> QED BY <1>1, <1>2, <2>1, <2>2, BoundsAreNat DEF IInv, LoopTypeOK
<1>4. WithinLimits' /\ AnswerStandsOnItsOwn'
  BY DEF IInv, WithinLimits, Within, GoOn, AnswerStandsOnItsOwn
<1>5. BudgetWithinCount'
  BY <1>1, BoundsAreNat DEF BudgetWithinCount
<1> QED BY <1>3, <1>4, <1>5 DEF IInv, Lists

LEMMA RestartInv == IInv /\ Restart => IInv'
<1> SUFFICES ASSUME IInv, Restart PROVE IInv'
  OBVIOUS
<1> USE DEF Restart, flags
<1>1. Lists
  BY ListsKept DEF GoOn
<1>2. Within(tries')
  BY TriesWithin, Typed DEF Tally, Recovery
<1> QED BY <1>1, <1>2, Typed, GivenBack

LEMMA RestartRebuiltInv == IInv /\ RestartRebuilt => IInv'
<1> SUFFICES ASSUME IInv, RestartRebuilt PROVE IInv'
  OBVIOUS
<1> USE DEF RestartRebuilt
<1>1. Within(tries')
  BY TriesWithin, Typed DEF Recovery
<1>2. messages \in Seq(Message) /\ Opened(messages) /\ Whole(messages) /\ (parts => HasText(messages))
  BY DEF IInv, LoopTypeOK, Transcript, PartsAreTexts
<1>3. messages' \in Seq(Message) /\ (Opened(messages) /\ Whole(messages))'
  <2>1. CASE parts
    <3>1. messages' = SubSeq(messages, 1, SelectLastInSeq(messages, LAMBDA m : m \in Assistant) - 1)
      BY <2>1
    <3>2. messages' \in Seq(Message) /\ Opened(messages') /\ Whole(messages')
      BY <1>2, <2>1, <3>1, RollbackKeeps
    <3> QED BY <3>2 DEF Opened, Whole
  <2>2. CASE ~parts
    BY <1>2, <2>2 DEF Opened, Whole
  <2> QED BY <2>1, <2>2
<1>4. Lists
  BY <1>3 DEF Lists, Transcript, PartsAreTexts, GoOn
<1> QED BY <1>1, <1>4, Typed, GivenBack

\* The response cannot be used, or not yet.
LEMMA CallFailsInv == IInv /\ CallFails => IInv'
<1> SUFFICES ASSUME IInv, CallFails PROVE IInv'
  OBVIOUS
<1> USE DEF CallFails, counters, flags, user, Leave, Exits
<1>1. Lists
  BY ListsKept
<1> QED BY <1>1, Typed, LoopStep

LEMMA CallInterruptedInv == IInv /\ CallInterrupted => IInv'
<1> SUFFICES ASSUME IInv, CallInterrupted PROVE IInv'
  OBVIOUS
<1> USE DEF CallInterrupted, counters, flags, user, Leave, Exits
<1>1. PICK more \in Seq(Message) : Whole(more) /\ messages' = messages \o more
  BY PlainLists, KindsOfMessage DEF Says
<1>2. Lists
  BY <1>1, ListsGrow
<1> QED BY <1>2, Typed, LoopStep

LEMMA CutTextInv == IInv /\ CutText => IInv'
<1> SUFFICES ASSUME IInv, CutText PROVE IInv'
  OBVIOUS
<1> USE DEF CutText, user, Exits
<1>1. PICK more \in Seq(Message) : Whole(more) /\ HasText(more) /\ messages' = messages \o more
  BY PlainLists, KindsOfMessage DEF Says
<1>2. Lists
  BY <1>1, ListsGrow DEF GoOn, Leave
<1>3. CASE tries["length"] < Limit["length"]
  <2>1. Within(tries')
    BY <1>3, TriesWithin, Typed DEF Tally, Recovery
  <2> QED BY <1>2, <1>3, <2>1, Typed, LoopStep
<1>4. CASE ~(tries["length"] < Limit["length"])
  <2>1. "length" \in Recovery /\ tries' = [tries EXCEPT !["length"] = @ + 1]
    BY DEF Tally, Recovery
  <2>2. tries \in [Recovery -> Nat] /\ \A r \in Recovery : tries[r] <= Limit[r] /\ Limit[r] \in Nat
    BY Typed DEF Within
  <2>3. tries' \in [Recovery -> Nat] /\ \A r \in Recovery : tries'[r] <= Limit[r] + 1
    <3> HIDE DEF CutText
    <3> QED BY <2>1, <2>2
  <2> QED BY <1>2, <1>4, <2>3, Typed, LoopStep DEF Leave
<1> QED BY <1>3, <1>4

\* A step that clears counters, and counts one that is below its limit.
LEMMA Leaves ==
  ASSUME IInv, pc = "respond", Lists, UNCHANGED <<count, used, grace, user>>,
         nudged' \in BOOLEAN, remark' \in BOOLEAN, parts' \in BOOLEAN, fallback' \in BOOLEAN,
         NEW why \in Exits \ {"text"}, GoOn \/ Leave(why), Within(tries')
  PROVE  IInv'
<1>1. tries' \in [Recovery -> Nat] /\ \A r \in Recovery : tries'[r] <= Limit[r] + 1
  BY Typed DEF Within
<1> QED BY <1>1, Typed, LoopStep DEF Leave, user

LEMMA GoesOn ==
  ASSUME IInv, pc = "respond", Lists, UNCHANGED <<count, used, grace, user>>,
         nudged' \in BOOLEAN, remark' \in BOOLEAN, parts' \in BOOLEAN, fallback' \in BOOLEAN,
         GoOn, Within(tries')
  PROVE  IInv'
BY Typed, LoopStep DEF user

LEMMA ScratchpadInv == IInv /\ Scratchpad => IInv'
<1> SUFFICES ASSUME IInv, Scratchpad PROVE IInv'
  OBVIOUS
<1> USE DEF Scratchpad, flags
<1>1. Lists
  BY ListsKept DEF GoOn, Leave
<1>2. Within(tries')
  BY TriesWithin, Typed DEF Tally, Recovery
<1> QED BY <1>1, <1>2, Typed, Leaves DEF Exits

LEMMA IncompleteInv == IInv /\ Incomplete => IInv'
<1> SUFFICES ASSUME IInv, Incomplete PROVE IInv'
  OBVIOUS
<1> USE DEF Incomplete, flags
<1>1. Lists
  <2>1. CASE Says(<<"text">>)
    BY <2>1, PlainLists, KindsOfMessage, ListsGrow DEF Says, GoOn, Leave
  <2>2. CASE UNCHANGED messages
    BY <2>2, ListsKept DEF GoOn, Leave
  <2> QED BY <2>1, <2>2
<1>2. Within(tries')
  BY TriesWithin, Typed DEF Recovery
<1> QED BY <1>1, <1>2, Typed, Leaves DEF Exits

\* A round of calls that is answered at once.
LEMMA AnsweredRound ==
  ASSUME IInv, pc = "respond", GoOn, Says(<<"calls">> \o Answers(NumCalls)), UNCHANGED parts
  PROVE  Lists
<1>1. <<"calls">> \o Answers(NumCalls) \in Seq(Message) /\ Whole(<<"calls">> \o Answers(NumCalls))
  BY AnswersAreTools, RoundComplete, BoundsAreNat DEF Calls
<1> QED BY <1>1, ListsGrow DEF Says, GoOn

LEMMA BadNamesInv == IInv /\ BadNames => IInv'
<1> SUFFICES ASSUME IInv, BadNames PROVE IInv'
  OBVIOUS
<1> USE DEF BadNames, flags
<1>1. Lists
  <2>1. CASE tries["names"] < Limit["names"]
    BY <2>1, AnsweredRound
  <2>2. CASE ~(tries["names"] < Limit["names"])
    BY <2>2, ListsKept DEF Leave
  <2> QED BY <2>1, <2>2
<1>2. Within(tries')
  BY TriesWithin, Typed DEF Recovery
<1>3. pc = "respond" /\ UNCHANGED <<count, used, grace, nudged, remark, parts, fallback, user>>
      /\ (GoOn \/ Leave("partial"))
  OBVIOUS
<1> HIDE DEF BadNames
<1> QED BY <1>1, <1>2, <1>3, Typed, Leaves DEF Exits

LEMMA BadArgumentsInv == IInv /\ BadArguments => IInv'
<1> SUFFICES ASSUME IInv, BadArguments PROVE IInv'
  OBVIOUS
<1> USE DEF BadArguments, flags
<1>1. Lists
  <2>1. CASE tries["json"] < Limit["json"]
    BY <2>1, ListsKept DEF GoOn
  <2>2. CASE ~(tries["json"] < Limit["json"])
    BY <2>2, AnsweredRound
  <2> QED BY <2>1, <2>2
<1>2. Within(tries')
  BY TriesWithin, Typed DEF Recovery, Parsed
<1> QED BY <1>1, <1>2, Typed, GoesOn

LEMMA CutArgumentsInv == IInv /\ CutArguments => IInv'
<1> SUFFICES ASSUME IInv, CutArguments PROVE IInv'
  OBVIOUS
<1> USE DEF CutArguments, flags
<1>1. Lists
  BY ListsKept DEF Leave
<1>2. Within(tries')
  BY TriesWithin, Typed DEF Recovery, Parsed
<1> QED BY <1>1, <1>2, Typed, Leaves DEF Exits

-----------------------------------------------------------------------------
(* Rounds of tools.                                                        *)

LEMMA FrontAndLast ==
  ASSUME NEW list \in Seq(Message), NEW m \in Message
  PROVE  Front(Append(list, m)) = list /\ Last(Append(list, m)) = m
<1> DEFINE more == Append(list, m)
<1>1. /\ more \in Seq(Message) /\ Len(more) = Len(list) + 1 /\ Len(list) \in Nat
      /\ \A i \in 1 .. Len(list) : more[i] = list[i]
      /\ more[Len(list) + 1] = m
  BY AppendProperties
<1> HIDE DEF more
<1>2. Len(more) - 1 = Len(list) /\ 1 \in Int /\ Len(list) \in Int
  BY <1>1
<1>3. \A i \in 1 .. Len(list) : more[i] \in Message
  BY <1>1
<1>4. /\ SubSeq(more, 1, Len(list)) \in Seq(Message)
      /\ Len(SubSeq(more, 1, Len(list))) = IF 1 <= Len(list) THEN Len(list) - 1 + 1 ELSE 0
      /\ \A i \in 1 .. Len(list) - 1 + 1 : SubSeq(more, 1, Len(list))[i] = more[1 + i - 1]
  BY <1>2, <1>3, SubSeqProperties
<1>5. Len(SubSeq(more, 1, Len(list))) = Len(list) /\ \A i \in 1 .. Len(list) : SubSeq(more, 1, Len(list))[i] = list[i]
  BY <1>1, <1>4
<1>6. SubSeq(more, 1, Len(list)) = list
  BY <1>4, <1>5, SeqEqual
<1> QED BY <1>1, <1>2, <1>6 DEF Front, Last, more

LEMMA RunToolsInv ==
  ASSUME NEW kind \in Calls
  PROVE  IInv /\ RunTools(kind) => IInv'
<1> SUFFICES ASSUME IInv, RunTools(kind) PROVE IInv'
  OBVIOUS
<1> USE DEF RunTools, user
<1> DEFINE bare == Bare(messages, {"prefill"})
<1>1. messages \in Seq(Message) /\ Opened(messages) /\ Whole(messages) /\ (parts => HasText(messages))
  BY DEF IInv, LoopTypeOK, Transcript, PartsAreTexts
<1>2. bare \in Seq(Message) /\ Whole(bare) /\ Opened(bare) /\ (parts => HasText(bare))
  <2>1. {"prefill"} \in SUBSET Scaffold
    BY DEF Scaffold
  <2> QED BY <1>1, <2>1, BareKeeps
<1> HIDE DEF bare
<1>3. messages' = Append(bare, kind) /\ kind \in Message
  BY KindsOfMessage DEF bare
<1>4. /\ messages' \in Seq(Message) /\ Len(messages') = Len(bare) + 1 /\ Len(bare) \in Nat
      /\ \A i \in 1 .. Len(bare) : messages'[i] = bare[i]
      /\ Front(messages') = bare /\ Last(messages') = kind
  <2> HIDE DEF RunTools
  <2>1. Front(messages') = bare /\ Last(messages') = kind
    BY <1>2, <1>3, FrontAndLast
  <2>2. Len(bare) \in Nat
    BY <1>2
  <2> QED BY <1>2, <1>3, <2>1, <2>2, AppendProperties
<1>5. Transcript'
  <2>1. Len(messages') > 1 /\ Opened(messages)'
    BY <1>2, <1>4 DEF Opened
  <2>2. Whole(Front(messages))' /\ Last(messages)' \in Calls
    BY <1>2, <1>4 DEF Whole
  <2> QED BY <2>1, <2>2 DEF Transcript
<1>6. PartsAreTexts'
  BY <1>2, <1>4 DEF PartsAreTexts, HasText
<1>7. Within(tries')
  BY TriesWithin, Typed DEF Recovery, Parsed
<1>8. LoopTypeOK'
  <2>1. {grace', nudged', remark', parts', fallback', interrupt'} \subseteq BOOLEAN
    BY Typed
  <2>2. \A r \in Recovery : tries'[r] \in 0 .. Limit[r] + 1
    <3> HIDE DEF RunTools
    <3> QED BY <1>7, LimitsAssumption DEF Within
  <2> QED BY <1>4, <2>1, <2>2 DEF IInv, LoopTypeOK
<1>9. WithinLimits' /\ BudgetWithinCount' /\ AnswerStandsOnItsOwn'
  BY <1>7 DEF IInv, WithinLimits, Within, BudgetWithinCount, AnswerStandsOnItsOwn
<1> QED BY <1>5, <1>6, <1>8, <1>9 DEF IInv

\* The last round is the one that runs, and lacks all its results.
LEMMA RoundOfTheTools ==
  ASSUME IInv, pc = "tools"
  PROVE  Unanswered = NumCalls
<1> DEFINE I == {i \in 1 .. Len(messages) : messages[i] \in Calls}
<1>1. Len(messages) \in Nat /\ Len(messages) \in I /\ I \subseteq 1 .. Len(messages)
  BY DEF IInv, LoopTypeOK, Transcript, Last
<1>2. Max(I) \in I /\ \A y \in I : y <= Max(I)
  <2> HIDE DEF I
  <2> QED BY <1>1, LastOf
<1>3. Max(I) = Len(messages)
  <2>1. Max(I) <= Len(messages) /\ Len(messages) <= Max(I) /\ Max(I) \in Nat
    BY <1>1, <1>2
  <2> HIDE DEF I
  <2> QED BY <1>1, <2>1
<1>4. LastRound = Len(messages)
  BY <1>1, <1>3 DEF LastRound, SelectLastInSeq
<1> QED BY <1>1, <1>4, BoundsAreNat DEF Unanswered

LEMMA ToolsAnswered ==
  ASSUME IInv, pc = "tools", pc' \in {"top", "done"}, UNCHANGED parts,
         NEW more \in Seq(Message \ Calls), Len(more) >= NumCalls, \A j \in 1 .. NumCalls : more[j] = "tool",
         messages' = messages \o more
  PROVE  Lists
<1> DEFINE front == Front(messages)
           kind == Last(messages)
<1>1. /\ messages \in Seq(Message) /\ Opened(messages) /\ (parts => HasText(messages))
      /\ Len(messages) \in Nat /\ Len(messages) > 1 /\ Whole(front) /\ kind \in Calls
  BY DEF IInv, LoopTypeOK, Transcript, PartsAreTexts
<1>2. /\ front \in Seq(Message) /\ messages = front \o <<kind>>
  <2>1. /\ SubSeq(messages, 1, Len(messages)) = SubSeq(messages, 1, Len(messages) - 1) \o <<messages[Len(messages)]>>
        /\ SubSeq(messages, 1, Len(messages)) = messages
    BY <1>1, SubSeqRecursiveSecond, SubSeqFull
  <2>2. \A i \in 1 .. Len(messages) - 1 : messages[i] \in Message
    BY <1>1
  <2>3. SubSeq(messages, 1, Len(messages) - 1) \in Seq(Message)
    BY <1>1, <2>2, SubSeqProperties
  <2> QED BY <2>1, <2>3 DEF Front, Last
<1>3. <<kind>> \o more \in Seq(Message) /\ Whole(<<kind>> \o more)
  BY <1>1, RoundComplete
<1> HIDE DEF front, kind
<1>4. <<kind>> \in Seq(Message) /\ more \in Seq(Message)
  BY <1>1, KindsOfMessage
<1>5. messages' = front \o (<<kind>> \o more)
  BY <1>2, <1>4, ConcatAssociative
<1>6. messages' \in Seq(Message) /\ Whole(messages')
  BY <1>1, <1>2, <1>3, <1>5, ConcatComplete
<1>7. Opened(messages') /\ (HasText(messages) => HasText(messages'))
  BY <1>1, <1>4, ConcatOpened
<1>8. (Opened(messages) /\ Whole(messages))' /\ PartsAreTexts'
  BY <1>1, <1>6, <1>7 DEF Opened, Whole, PartsAreTexts, HasText
<1> QED BY <1>6, <1>8 DEF Lists, Transcript

LEMMA ToolsDoneInv == IInv /\ ToolsDone => IInv'
<1> SUFFICES ASSUME IInv, ToolsDone PROVE IInv'
  OBVIOUS
<1> USE DEF ToolsDone, flags
<1>1. Lists
  <2>1. messages' = messages \o Answers(NumCalls)
    BY RoundOfTheTools DEF Says
  <2>2. /\ Answers(NumCalls) \in Seq(Message \ Calls) /\ Len(Answers(NumCalls)) >= NumCalls
        /\ \A j \in 1 .. NumCalls : Answers(NumCalls)[j] = "tool"
    BY AnswersAreTools, BoundsAreNat
  <2>3. pc = "tools" /\ pc' \in {"top", "done"} /\ parts' = parts
    BY DEF GoOn
  <2> HIDE DEF ToolsDone
  <2> QED BY <2>1, <2>2, <2>3, ToolsAnswered
<1>2. used' \in 0 .. MaxIterations /\ used' <= count
  BY BoundsAreNat DEF IInv, LoopTypeOK, BudgetWithinCount, Refund
<1>3. interrupt' = interrupt
  BY DEF SteersAppended, Appends, user
<1>4. LoopTypeOK'
  <2>1. {grace', nudged', remark', parts', fallback', interrupt'} \subseteq BOOLEAN
    BY <1>3, Typed
  <2> QED BY <1>1, <1>2, <2>1 DEF IInv, LoopTypeOK, Lists, GoOn
<1>5. WithinLimits' /\ AnswerStandsOnItsOwn'
  BY DEF IInv, WithinLimits, Within, AnswerStandsOnItsOwn, GoOn
<1>6. BudgetWithinCount'
  BY <1>2 DEF IInv, BudgetWithinCount
<1> QED BY <1>1, <1>4, <1>5, <1>6 DEF IInv, Lists

\* All the results, and then a text or nothing.
LEMMA ResultsFirst ==
  ASSUME NEW a \in Nat, NEW b \in Nat, a + b = NumCalls, NEW rest \in Seq(Message \ Calls)
  PROVE  LET more == (Answers(a) \o Answers(b)) \o rest IN
         more \in Seq(Message \ Calls) /\ Len(more) >= NumCalls /\ \A j \in 1 .. NumCalls : more[j] = "tool"
<1> DEFINE both == Answers(a) \o Answers(b)
           S == Message \ Calls
<1>0. /\ Answers(a) \in Seq(S) /\ Len(Answers(a)) = a /\ \A j \in 1 .. a : Answers(a)[j] = "tool"
      /\ Answers(b) \in Seq(S) /\ Len(Answers(b)) = b /\ \A j \in 1 .. b : Answers(b)[j] = "tool"
      /\ rest \in Seq(S)
  BY AnswersAreTools
<1> HIDE DEF S
<1>1. /\ both \in Seq(S) /\ Len(both) = a + b
      /\ \A j \in 1 .. a + b : both[j] = IF j <= a THEN Answers(a)[j] ELSE Answers(b)[j - a]
  BY <1>0, ConcatProperties
<1>2. Len(both) = NumCalls /\ \A j \in 1 .. NumCalls : both[j] = "tool"
  <2>1. \A j \in 1 .. a + b : ~(j <= a) => j - a \in 1 .. b
    OBVIOUS
  <2>2. \A j \in 1 .. a + b : both[j] = "tool"
    <3> HIDE DEF both
    <3> QED BY <1>0, <1>1, <2>1
  <2> QED BY <1>1, <2>2
<1> HIDE DEF both
<1>3. /\ both \o rest \in Seq(S) /\ Len(both \o rest) = Len(both) + Len(rest) /\ Len(rest) \in Nat
      /\ \A j \in 1 .. Len(both) + Len(rest) :
            (both \o rest)[j] = IF j <= Len(both) THEN both[j] ELSE rest[j - Len(both)]
  <2>1. both \in Seq(S) /\ rest \in Seq(S)
    BY <1>0, <1>1
  <2> QED BY <2>1, ConcatProperties
<1>4. Len(both \o rest) >= NumCalls /\ \A j \in 1 .. NumCalls : (both \o rest)[j] = "tool"
  <2>1. \A j \in 1 .. NumCalls : j \in 1 .. Len(both) + Len(rest) /\ j <= Len(both)
    BY <1>2, <1>3, BoundsAreNat
  <2> QED BY <1>2, <1>3, <2>1, BoundsAreNat
<1> QED BY <1>3, <1>4 DEF both, S

LEMMA TextOrNothing ==
  <<>> \in Seq(Message \ Calls) /\ <<"text">> \in Seq(Message \ Calls)
BY KindsOfMessage

LEMMA HaltInv == IInv /\ Halt => IInv'
<1> SUFFICES ASSUME IInv, Halt PROVE IInv'
  OBVIOUS
<1> USE DEF Halt, counters, flags, Leave, Exits, Answered
<1>1. Answers(NumCalls) \in Seq(Message) /\ Answers(0) \in Seq(Message) /\ <<"text">> \in Seq(Message)
  BY AnswersAreTools, BoundsAreNat, PlainComplete, TextOrNothing
<1>2. messages' = messages \o ((Answers(NumCalls) \o Answers(0)) \o <<"text">>)
  <2>1. Answers(0) = <<>>
    BY DEF Answers
  <2>2. Answers(NumCalls) \o Answers(0) = Answers(NumCalls)
    BY <1>1, <2>1, ConcatEmptySeq
  <2> QED BY <2>2, RoundOfTheTools DEF Says
<1>3. Lists
  <2> DEFINE more == (Answers(NumCalls) \o Answers(0)) \o <<"text">>
  <2>1. more \in Seq(Message \ Calls) /\ Len(more) >= NumCalls /\ \A j \in 1 .. NumCalls : more[j] = "tool"
    <3>1. NumCalls \in Nat /\ 0 \in Nat /\ NumCalls + 0 = NumCalls
      BY BoundsAreNat
    <3> QED BY <3>1, ResultsFirst, TextOrNothing
  <2>2. pc = "tools" /\ pc' \in {"top", "done"} /\ parts' = parts /\ messages' = messages \o more
    BY <1>2
  <2> HIDE DEF more, Halt
  <2> QED BY <2>1, <2>2, ToolsAnswered
<1>4. interrupt' = interrupt
  BY DEF SteersAppended, Appends, user
<1> QED BY <1>3, <1>4, Typed, LoopStep

\* A tool raises: the results it kept from coming are made up.
LEMMA ToolsRaiseInv == IInv /\ ToolsRaise => IInv'
<1> SUFFICES ASSUME IInv, ToolsRaise PROVE IInv'
  OBVIOUS
<1> DEFINE end == IF count >= MaxIterations - 1 THEN <<"text">> ELSE <<>>
<1>1. PICK done \in 0 .. NumCalls - 1 :
        Recover(messages \o Answers(done) \o Answers(Unanswered - done)) /\ interrupt' = interrupt
  BY DEF ToolsRaise, Appends
<1>2. done \in Nat /\ NumCalls - done \in Nat /\ done + (NumCalls - done) = NumCalls
  BY BoundsAreNat
<1>3. messages' = messages \o ((Answers(done) \o Answers(NumCalls - done)) \o end)
  <2>1. messages' = (messages \o Answers(done) \o Answers(NumCalls - done)) \o end
    BY <1>1, RoundOfTheTools DEF Recover, ToolsRaise
  <2>2. /\ messages \in Seq(Message) /\ Answers(done) \in Seq(Message)
        /\ Answers(NumCalls - done) \in Seq(Message) /\ end \in Seq(Message)
        /\ Answers(done) \o Answers(NumCalls - done) \in Seq(Message)
    BY <1>2, Typed, AnswersAreTools, PlainComplete, TextOrNothing, ConcatProperties
  <2>3. messages \o Answers(done) \o Answers(NumCalls - done) = messages \o (Answers(done) \o Answers(NumCalls - done))
    BY <2>2, ConcatAssociative
  <2> HIDE DEF end
  <2>4. (messages \o (Answers(done) \o Answers(NumCalls - done))) \o end
           = messages \o ((Answers(done) \o Answers(NumCalls - done)) \o end)
    BY <2>2, ConcatAssociative
  <2> QED BY <2>1, <2>3, <2>4, Zenon
<1>4. Lists
  <2> DEFINE more == (Answers(done) \o Answers(NumCalls - done)) \o end
  <2>1. end \in Seq(Message \ Calls)
    BY TextOrNothing
  <2>2. more \in Seq(Message \ Calls) /\ Len(more) >= NumCalls /\ \A j \in 1 .. NumCalls : more[j] = "tool"
    <3> HIDE DEF end
    <3> QED BY <1>2, <2>1, ResultsFirst
  <2>3. pc' \in {"top", "done"} /\ parts' = parts
    BY <1>1 DEF Recover, GoOn, Leave, flags
  <2> HIDE DEF more
  <2> QED BY <1>3, <2>2, <2>3, ToolsAnswered DEF more, ToolsRaise
<1>5. (GoOn \/ Leave("apology")) /\ UNCHANGED <<count, used, grace, tries, nudged, remark, parts, fallback, interrupt>>
  BY <1>1 DEF Recover, counters, flags
<1> QED BY <1>4, <1>5, Typed, LoopStep DEF ToolsRaise, Leave, Exits

LEMMA ResponseRaisesInv == IInv /\ ResponseRaises => IInv'
<1> SUFFICES ASSUME IInv, ResponseRaises PROVE IInv'
  OBVIOUS
<1>1. (GoOn \/ Leave("apology")) /\ UNCHANGED <<count, used, grace, tries, nudged, remark, parts, fallback, interrupt>>
  BY DEF ResponseRaises, Recover, counters, flags, user
<1>2. PICK more \in Seq(Message) : Whole(more) /\ messages' = messages \o more
  BY PlainLists, KindsOfMessage DEF ResponseRaises, Recover
<1>3. Lists
  BY <1>1, <1>2, ListsGrow DEF ResponseRaises, GoOn, Leave
<1> QED BY <1>1, <1>3, Typed, LoopStep DEF ResponseRaises, Leave, Exits

-----------------------------------------------------------------------------
(* Responses without calls.                                                *)

LEMMA TakeStreamInv == IInv /\ TakeStream => IInv'
<1> SUFFICES ASSUME IInv, TakeStream PROVE IInv'
  OBVIOUS
<1> USE DEF TakeStream, flags
<1>1. Lists
  BY ListsKept DEF Leave
<1>2. Within(tries')
  BY TriesWithin, Typed DEF Recovery, Quiet, Parsed
<1> QED BY <1>1, <1>2, Typed, Leaves DEF Exits, Answered

LEMMA TakeRemarkInv == IInv /\ TakeRemark => IInv'
<1> SUFFICES ASSUME IInv, TakeRemark PROVE IInv'
  OBVIOUS
<1> USE DEF TakeRemark
<1>1. Lists
  BY ListsKept DEF Leave
<1>2. Within(tries')
  BY TriesWithin, Typed DEF Recovery, Quiet, Parsed
<1> QED BY <1>1, <1>2, Typed, Leaves DEF Exits, Answered

LEMMA NudgeInv == IInv /\ Nudge => IInv'
<1> SUFFICES ASSUME IInv, Nudge PROVE IInv'
  OBVIOUS
<1> USE DEF Nudge
<1>1. Lists
  BY PlainLists, KindsOfMessage, ListsGrow DEF Says, GoOn
<1>2. Within(tries')
  BY TriesWithin, Typed DEF Recovery, Quiet, Parsed
<1> QED BY <1>1, <1>2, Typed, GoesOn

LEMMA PrefillInv == IInv /\ Prefill => IInv'
<1> SUFFICES ASSUME IInv, Prefill PROVE IInv'
  OBVIOUS
<1> USE DEF Prefill, flags
<1>1. Lists
  BY PlainLists, KindsOfMessage, ListsGrow DEF Says, GoOn
<1>2. Within(tries')
  BY TriesWithin, Typed DEF Recovery, Quiet, Parsed
<1> QED BY <1>1, <1>2, Typed, GoesOn

LEMMA AskAgainInv == IInv /\ AskAgain => IInv'
<1> SUFFICES ASSUME IInv, AskAgain PROVE IInv'
  OBVIOUS
<1> USE DEF AskAgain, flags
<1>1. Lists
  BY ListsKept DEF GoOn
<1>2. Within(tries')
  BY TriesWithin, Typed DEF Recovery, Quiet, Parsed
<1> QED BY <1>1, <1>2, Typed, GoesOn

LEMMA SwitchModelInv == IInv /\ SwitchModel => IInv'
<1> SUFFICES ASSUME IInv, SwitchModel PROVE IInv'
  OBVIOUS
<1> USE DEF SwitchModel
<1>1. Lists
  BY ListsKept DEF GoOn
<1>2. Within(tries')
  BY TriesWithin, Typed DEF Recovery, Quiet, Parsed
<1> QED BY <1>1, <1>2, Typed, GoesOn

\* What is left of the transcript without its scaffolding, and one message.
LEMMA StrippedAnd ==
  ASSUME IInv, pc = "respond", pc' \in {"top", "done"},
         NEW more \in Seq(Message), Whole(more), messages' = Bare(messages, Scaffold) \o more,
         parts' => parts
  PROVE  Lists
<1> DEFINE bare == Bare(messages, Scaffold)
<1>1. messages \in Seq(Message) /\ Opened(messages) /\ Whole(messages) /\ (parts => HasText(messages))
  BY DEF IInv, LoopTypeOK, Transcript, PartsAreTexts
<1>2. bare \in Seq(Message) /\ Whole(bare) /\ Opened(bare) /\ (parts => HasText(bare))
  BY <1>1, BareKeeps
<1> HIDE DEF bare
<1>3. messages' = bare \o more
  BY DEF bare
<1>4. messages' \in Seq(Message) /\ Whole(messages')
  BY <1>2, <1>3, ConcatComplete
<1>5. Opened(messages') /\ (parts => HasText(messages'))
  BY <1>2, <1>3, ConcatOpened
<1>6. (Opened(messages) /\ Whole(messages))' /\ PartsAreTexts'
  BY <1>4, <1>5 DEF Opened, Whole, PartsAreTexts, HasText
<1> QED BY <1>4, <1>6 DEF Lists, Transcript

LEMMA AppendMessage ==
  ASSUME NEW list \in Seq(Message), NEW m \in Message
  PROVE  Append(list, m) = list \o <<m>>
BY AppendIsConcat

LEMMA StaysEmptyInv == IInv /\ StaysEmpty => IInv'
<1> SUFFICES ASSUME IInv, StaysEmpty PROVE IInv'
  OBVIOUS
<1> USE DEF StaysEmpty
<1>1. Lists
  <2>1. Bare(messages, Scaffold) \in Seq(Message)
    BY BareKeeps DEF IInv, LoopTypeOK, Transcript
  <2>2. messages' = Bare(messages, Scaffold) \o <<"sentinel">>
    BY <2>1, AppendMessage, KindsOfMessage
  <2>3. <<"sentinel">> \in Seq(Message) /\ Whole(<<"sentinel">>)
    BY PlainLists, KindsOfMessage
  <2> QED BY <2>2, <2>3, StrippedAnd DEF Leave
<1>2. Within(tries')
  BY TriesWithin, Typed DEF Recovery, Quiet, Parsed
<1> QED BY <1>1, <1>2, Typed, Leaves DEF Exits, Answered

LEMMA AcknowledgeInv == IInv /\ Acknowledge => IInv'
<1> SUFFICES ASSUME IInv, Acknowledge PROVE IInv'
  OBVIOUS
<1> USE DEF Acknowledge, flags
<1>1. Lists
  BY PlainLists, KindsOfMessage, ListsGrow DEF Says, GoOn
<1>2. Within(tries')
  BY TriesWithin, Typed DEF Recovery, Quiet, Parsed
<1> QED BY <1>1, <1>2, Typed, GoesOn

LEMMA VerifyInv == IInv /\ Verify => IInv'
<1> SUFFICES ASSUME IInv, Verify PROVE IInv'
  OBVIOUS
<1> USE DEF Verify
<1>1. Lists
  BY PlainLists, KindsOfMessage, StrippedAnd DEF GoOn
<1>2. Within(tries')
  <2>1. Taken \in SUBSET Recovery /\ "verify" \in Recovery
    BY DEF Taken, Recovery, Quiet, Parsed
  <2> QED BY <2>1, TriesWithin, Typed
<1> QED BY <1>1, <1>2, Typed, GoesOn

\* The answer stands behind a message that is no scaffolding.
LEMMA FinishInv == IInv /\ Finish => IInv'
<1> SUFFICES ASSUME IInv, Finish PROVE IInv'
  OBVIOUS
<1> USE DEF Finish, user
<1> DEFINE bare == Bare(messages, Scaffold)
<1>1. bare \in Seq(Message) /\ bare[Len(bare)] \notin Scaffold
  BY BareKeeps DEF IInv, LoopTypeOK, Transcript
<1>2. messages' = bare \o <<"text">> /\ Front(messages') = bare /\ Last(messages') = "text"
  BY <1>1, AppendMessage, FrontAndLast, KindsOfMessage
<1>3. Lists
  BY <1>2, PlainLists, KindsOfMessage, StrippedAnd DEF Leave
<1> HIDE DEF bare
<1>4. AnswerStandsOnItsOwn'
  BY <1>1, <1>2 DEF AnswerStandsOnItsOwn, Last
<1>5. Within(tries')
  <2>1. Taken \in SUBSET Recovery
    BY DEF Taken, Recovery, Quiet, Parsed
  <2> QED BY <2>1, TriesWithin, Typed
<1>6. LoopTypeOK'
  <2>1. {grace', nudged', remark', parts', fallback', interrupt'} \subseteq BOOLEAN
    BY Typed
  <2>2. \A r \in Recovery : tries'[r] \in 0 .. Limit[r] + 1
    <3> HIDE DEF Finish
    <3> QED BY <1>5, LimitsAssumption DEF Within
  <2>3. exit' \in Exits /\ pc' = "done"
    BY DEF Leave, Exits, Answered
  <2> QED BY <1>3, <2>1, <2>2, <2>3 DEF IInv, LoopTypeOK, Lists
<1>7. WithinLimits' /\ BudgetWithinCount'
  BY <1>5 DEF IInv, WithinLimits, Within, BudgetWithinCount, Leave
<1> QED BY <1>3, <1>4, <1>6, <1>7 DEF IInv, Lists

\* The user's thread, or nothing at all.
LEMMA UserInv ==
  ASSUME IInv, UNCHANGED <<pc, messages, counters, flags, exit>>, interrupt' \in BOOLEAN
  PROVE  IInv'
<1> USE DEF counters, flags
<1>1. {grace', nudged', remark', parts', fallback', interrupt'} \subseteq BOOLEAN
  BY Typed
<1>2. LoopTypeOK'
  BY <1>1 DEF IInv, LoopTypeOK
<1>3. Transcript' /\ PartsAreTexts'
  BY DEF IInv, Transcript, Opened, Whole, PartsAreTexts, HasText, Front, Last
<1>4. WithinLimits' /\ BudgetWithinCount' /\ AnswerStandsOnItsOwn'
  BY DEF IInv, WithinLimits, Within, BudgetWithinCount, AnswerStandsOnItsOwn, Front, Last
<1> QED BY <1>2, <1>3, <1>4 DEF IInv

LEMMA Inductive == IInv /\ [Next]_vars => IInv'
<1> SUFFICES ASSUME IInv, [Next]_vars PROVE IInv'
  OBVIOUS
<1>1. CASE StartTurn \/ StopAtTop \/ IterationsOver \/ Iterate \/ Inject \/ PutBack
  BY <1>1, StartTurnInv, StopAtTopInv, IterationsOverInv, IterateInv, DrainedInv
<1>2. CASE Call
  BY <1>2, RestartInv, RestartRebuiltInv, CallFailsInv, ContextTooSmallInv, CallInterruptedInv, CutTextInv
     DEF Call
<1>3. CASE Scratchpad \/ Incomplete
  BY <1>3, ScratchpadInv, IncompleteInv
<1>4. CASE Work
  BY <1>4, BadNamesInv, BadArgumentsInv, CutArgumentsInv, RunToolsInv DEF Work
<1>5. CASE ToolsDone \/ Halt \/ ToolsRaise \/ ResponseRaises
  BY <1>5, ToolsDoneInv, HaltInv, ToolsRaiseInv, ResponseRaisesInv
<1>6. CASE Nothing
  BY <1>6, TakeStreamInv, TakeRemarkInv, NudgeInv, PrefillInv, AskAgainInv, SwitchModelInv, StaysEmptyInv
     DEF Nothing
<1>7. CASE Acknowledge \/ Verify \/ Finish
  BY <1>7, AcknowledgeInv, VerifyInv, FinishInv
<1>8. CASE Steer
  BY <1>8, Typed, UserInv DEF Steer
<1>9. CASE Interrupt
  BY <1>9, Typed, UserInv DEF Interrupt
<1>10. CASE UNCHANGED vars
  BY <1>10, Typed, UserInv DEF vars, user
<1> QED BY <1>1, <1>2, <1>3, <1>4, <1>5, <1>6, <1>7, <1>8, <1>9, <1>10 DEF Next, Loop

-----------------------------------------------------------------------------
(* The theorems.                                                           *)

\* Every transcript the model is asked with, and every one a turn ends with,
\* can be sent: calls with their results, an answer on its own, within the
\* turn's limits (run_conversation, conversation_loop.py:5093-5108 and
\* 5226-5254), however often each recovery may be repeated.
THEOREM TranscriptIsWellFormed == Spec => []TranscriptWellFormed
<1>1. IInv => TranscriptWellFormed
  BY DEF IInv, LoopTypeOK, Transcript, Whole, CallsAnswered, TranscriptWellFormed
<1> QED BY <1>1, InitInv, Inductive, PTL DEF Spec

\* The steers of the user.  Only the drain takes them out of the slot into the
\* loop's hands, and from there they go on before anything else is done.
Placed ==
    /\ slot \cup drained \cup told \cup lost = 1 .. said
    /\ slot \cap (drained \cup told \cup lost) = {}
    /\ drained \cap (told \cup lost) = {} /\ told \cap lost = {}
SteerInv == said \in 0 .. MaxSteers /\ Placed /\ (pc # "steer" => drained = {})

LEMMA SteersLeft ==
  ASSUME SteerInv, pc # "steer" \/ pc' = pc, UNCHANGED user
  PROVE  SteerInv'
BY DEF SteerInv, Placed, user

LEMMA SteersGoOn ==
  ASSUME SteerInv, pc # "steer", NEW steers \in SUBSET slot, NEW cut \in SUBSET steers, Appends(steers, cut)
  PROVE  SteerInv'
BY DEF SteerInv, Placed, Appends

LEMMA SteerStep == SteerInv /\ [Next]_vars => SteerInv'
<1> SUFFICES ASSUME SteerInv, [Next]_vars PROVE SteerInv'
  OBVIOUS
<1>1. CASE StartTurn \/ StopAtTop \/ IterationsOver \/ ResponseRaises
  BY <1>1, SteersLeft DEF StartTurn, StopAtTop, IterationsOver, ResponseRaises
<1>2. CASE Call
  BY <1>2, SteersLeft
     DEF Call, Restart, RestartRebuilt, CallFails, ContextTooSmall, CallInterrupted, CutText
<1>3. CASE Scratchpad \/ Incomplete
  BY <1>3, SteersLeft DEF Scratchpad, Incomplete
<1>4. CASE Work
  BY <1>4, SteersLeft DEF Work, BadNames, BadArguments, CutArguments, RunTools
<1>5. CASE Nothing
  BY <1>5, SteersLeft DEF Nothing, TakeStream, TakeRemark, Nudge, Prefill, AskAgain, SwitchModel, StaysEmpty
<1>6. CASE Acknowledge \/ Verify \/ Finish
  BY <1>6, SteersLeft DEF Acknowledge, Verify, Finish
<1>7. CASE Iterate
  BY <1>7 DEF Iterate, SteerInv, Placed
<1>8. CASE Inject \/ PutBack
  BY <1>8 DEF Inject, PutBack, SteerInv, Placed
<1>9. CASE ToolsDone \/ Halt
  <2>1. pc # "steer" /\ SteersAppended
    BY <1>9 DEF ToolsDone, Halt
  <2>2. CASE UNCHANGED user
    BY <2>1, <2>2, SteersLeft
  <2>3. CASE \E cut \in SUBSET slot : Appends(slot, cut)
    BY <2>1, <2>3, SteersGoOn
  <2> QED BY <2>1, <2>2, <2>3 DEF SteersAppended
<1>10. CASE ToolsRaise
  <2>1. pc # "steer" /\ \E steers \in SUBSET slot : Appends(steers, {})
    BY <1>10 DEF ToolsRaise
  <2> QED BY <2>1, SteersGoOn
<1>11. CASE Steer
  <2>1. said \in Nat /\ MaxSteers \in Nat /\ said < MaxSteers
    BY <1>11, LimitsAssumption DEF Steer, SteerInv
  <2>2. said' \in 0 .. MaxSteers /\ 1 .. said' = (1 .. said) \cup {said'} /\ said' \notin 1 .. said
    BY <1>11, <2>1 DEF Steer
  <2>3. slot' = slot \cup {said'} /\ UNCHANGED <<pc, drained, told, lost>>
    BY <1>11 DEF Steer
  <2> QED BY <2>2, <2>3 DEF SteerInv, Placed
<1>12. CASE Interrupt
  BY <1>12 DEF Interrupt, SteerInv, Placed
<1>13. CASE UNCHANGED vars
  BY <1>13, SteersLeft DEF vars
<1> QED BY <1>1, <1>2, <1>3, <1>4, <1>5, <1>6, <1>7, <1>8, <1>9, <1>10, <1>11, <1>12, <1>13 DEF Next, Loop

\* For any number of steers: each is in one place, told at most once, and none
\* stays in the hands of the loop, whatever the user says, and wherever he
\* interrupts, between the drain and the putting back (706-743).
THEOREM SteersArePlaced == Spec => []EachSteerOnce
<1>1. Init => SteerInv
  BY LimitsAssumption DEF Init, SteerInv, Placed
<1>2. IInv /\ SteerInv => EachSteerOnce
  <2> SUFFICES ASSUME IInv, SteerInv PROVE EachSteerOnce
    OBVIOUS
  <2>1. {slot, drained, told, lost} \subseteq SUBSET (1 .. said) /\ 1 .. said \subseteq 1 .. MaxSteers
    BY LimitsAssumption DEF SteerInv, Placed
  <2>2. TypeOK
    BY <2>1 DEF IInv, TypeOK, SteerInv
  <2> QED BY <2>2 DEF EachSteerOnce, SteerInv, Placed
<1> QED BY <1>1, <1>2, SteerStep, InitInv, Inductive, PTL DEF Spec

-----------------------------------------------------------------------------
(***************************************************************************)
(* The request of the loop.  ModelRequest has the threads that the loop's  *)
(* one step "a request" stands for.  Its invariant: the worker has a       *)
(* connection from the moment it opens one until it closes it, only the    *)
(* shared client is closed by another, what the user reads is of the       *)
(* attempt at hand and is known to it, and only a plain request is killed  *)
(* for good.                                                               *)
(***************************************************************************)
Untorn(r) ==
    /\ r.worker # "done" => r.shown \subseteq {r.attempt}
    /\ \A m, n \in r.shown : m = n
    /\ ~r.text => r.shown = {}
    /\ r.worker \in {"waiting", "failed"} => r.live # "none"
    /\ r.worker = "done" => r.live = "none"
    /\ r.live = "closed" => r.client = "shared"
    /\ r.kind = "stream" /\ r.outcome = "raised" => r.shown = {} /\ r.worker = "done"

AtHand == request[current]

RequestInv ==
    /\ ReqTypeOK
    /\ \A k \in Request : Untorn(request[k])
    /\ poller # "idle" => current # 0
    /\ poller = "killed" => AtHand.kind = "plain"
    /\ poller # "idle" /\ AtHand.response = "cut" => interrupted

LEMMA RequestAtHand ==
    ASSUME BoundsAssumption, RequestInv, poller # "idle"
    PROVE  current \in Request /\ AtHand \in State /\ Own = AtHand
BY DEF BoundsAssumption, RequestInv, ReqTypeOK, Request, AtHand, Own

LEMMA InitRequestInv == BoundsAssumption /\ ReqInit => RequestInv
<1> SUFFICES ASSUME BoundsAssumption, ReqInit PROVE RequestInv
  OBVIOUS
<1>1. Unused \in State /\ Untorn(Unused)
  BY DEF Unused, State, Kind, Client, Error, Untorn, BoundsAssumption
<1>2. ReqTypeOK
  <2>1. request \in [Request -> State]
    BY <1>1 DEF ReqInit
  <2>2. current \in 0 .. MaxRequests /\ poller = "idle"
    BY DEF ReqInit, BoundsAssumption
  <2>3. {armed, disabled, interrupted} \subseteq BOOLEAN
    BY DEF ReqInit
  <2> QED BY <2>1, <2>2, <2>3 DEF ReqTypeOK
<1> QED BY <1>1, <1>2 DEF ReqInit, RequestInv

\* What a step of a worker must show of the new state of the requests.
LEMMA RequestsStep ==
    ASSUME BoundsAssumption, RequestInv, request' \in [Request -> State],
           UNCHANGED <<current, poller, armed>>, disabled' \in BOOLEAN, interrupted' = interrupted,
           \A j \in Request :
              /\ Untorn(request'[j])
              /\ request[j].kind = "plain" => request'[j].kind = "plain"
              /\ request'[j].response = "cut" => request[j].response = "cut" \/ interrupted
    PROVE  RequestInv'
<1>1. ReqTypeOK'
  BY DEF RequestInv, ReqTypeOK
<1>2. ASSUME poller # "idle"
      PROVE  /\ poller = "killed" => request'[current].kind = "plain"
             /\ request'[current].response = "cut" => interrupted
  BY <1>2, RequestAtHand DEF RequestInv, AtHand
<1> QED BY <1>1, <1>2 DEF RequestInv, AtHand

\* ... of its own one.
LEMMA WorkerStep ==
    ASSUME BoundsAssumption, RequestInv, NEW k \in Request, NEW new \in State,
           Becomes(k, new), Untorn(new),
           request[k].kind = "plain" => new.kind = "plain",
           new.response = "cut" => request[k].response = "cut" \/ interrupted,
           disabled' \in BOOLEAN, interrupted' = interrupted
    PROVE  RequestInv'
<1>1. request' = [request EXCEPT ![k] = new] /\ UNCHANGED <<current, poller, armed>>
  BY DEF Becomes
<1>2. request \in [Request -> State] /\ \A j \in Request : Untorn(request[j])
  BY DEF RequestInv, ReqTypeOK
<1>3. request' \in [Request -> State]
  BY <1>1, <1>2
<1>4. ASSUME NEW j \in Request
      PROVE  /\ Untorn(request'[j])
             /\ request[j].kind = "plain" => request'[j].kind = "plain"
             /\ request'[j].response = "cut" => request[j].response = "cut" \/ interrupted
  BY <1>1, <1>2
<1> QED BY <1>1, <1>3, <1>4, RequestsStep

\* The requests that lose the shared client lose nothing else.
LEMMA ClosedSound ==
    ASSUME NEW f \in [Request -> State], \A j \in Request : Untorn(f[j])
    PROVE  /\ SharedClosed(f) \in [Request -> State]
           /\ \A j \in Request :
                 /\ Untorn(SharedClosed(f)[j])
                 /\ SharedClosed(f)[j].kind = f[j].kind
                 /\ SharedClosed(f)[j].response = f[j].response
                 /\ SharedClosed(f)[j].outcome = f[j].outcome
<1> DEFINE cl(r) == [r EXCEPT !.live = "closed"]
<1>1. ASSUME NEW r \in State, Untorn(r), r.client = "shared", r.live # "none"
      PROVE  /\ cl(r) \in State /\ Untorn(cl(r)) /\ cl(r).kind = r.kind
             /\ cl(r).response = r.response /\ cl(r).outcome = r.outcome
  BY <1>1 DEF State, Untorn
<1>2. SharedClosed(f) = [j \in Request |->
        IF f[j].client = "shared" /\ f[j].live \in {"open", "silent"} THEN cl(f[j]) ELSE f[j]]
  BY DEF SharedClosed
<1> HIDE DEF cl
<1> QED BY <1>1, <1>2

LEMMA TopStep ==
    ASSUME BoundsAssumption, RequestInv, NEW k \in Request, Top(k)
    PROVE  RequestInv'
<1>1. PICK r : r = request[k]
  OBVIOUS
<1>2. r \in State /\ Untorn(r) /\ r.worker = "top"
  BY <1>1 DEF RequestInv, ReqTypeOK, Top
<1> DEFINE x == [r EXCEPT !.error = "interrupted", !.worker = "closing"]
           y == [r EXCEPT !.worker = "open"]
<1>3. x \in State
  BY <1>2 DEF State, Error
<1>4. Untorn(x) /\ x.kind = r.kind /\ x.response = r.response
  BY <1>2 DEF State, Untorn
<1>5. y \in State
  BY <1>2 DEF State
<1>6. Untorn(y) /\ y.kind = r.kind /\ y.response = r.response
  BY <1>2 DEF State, Untorn
<1>7. Becomes(k, x) \/ Becomes(k, y)
  BY <1>1 DEF Top
<1>8. disabled' \in BOOLEAN /\ interrupted' = interrupted
  BY DEF Top, RequestInv, ReqTypeOK
<1> HIDE DEF x, y
<1> QED BY <1>1, <1>2, <1>3, <1>4, <1>5, <1>6, <1>7, <1>8, WorkerStep

LEMMA OpenStep ==
    ASSUME BoundsAssumption, RequestInv, NEW k \in Request, Open(k)
    PROVE  RequestInv'
<1>1. PICK r : r = request[k]
  OBVIOUS
<1>2. r \in State /\ Untorn(r) /\ r.worker = "open"
  BY <1>1 DEF RequestInv, ReqTypeOK, Open
<1> DEFINE x == [r EXCEPT !.live = "open", !.worker = "waiting"]
<1>3. x \in State
  BY <1>2 DEF State
<1>4. Untorn(x) /\ x.kind = r.kind /\ x.response = r.response
  BY <1>2 DEF State, Untorn
<1>5. Becomes(k, x)
  BY <1>1 DEF Open
<1>6. disabled' \in BOOLEAN /\ interrupted' = interrupted
  BY DEF Open, RequestInv, ReqTypeOK
<1> HIDE DEF x
<1> QED BY <1>1, <1>2, <1>3, <1>4, <1>5, <1>6, WorkerStep

LEMMA TextStep ==
    ASSUME BoundsAssumption, RequestInv, NEW k \in Request, Text(k)
    PROVE  RequestInv'
<1>1. PICK r : r = request[k]
  OBVIOUS
<1>2. r \in State /\ Untorn(r) /\ r.worker = "waiting"
  BY <1>1 DEF RequestInv, ReqTypeOK, Text, Streams, Sends, Waits
<1> DEFINE x == [r EXCEPT !.text = TRUE, !.shown = r.shown \cup {r.attempt}]
<1>3. x \in State
  BY <1>2 DEF State
<1>4. Untorn(x) /\ x.kind = r.kind /\ x.response = r.response
  BY <1>2 DEF State, Untorn
<1>5. Becomes(k, x)
  BY <1>1 DEF Text
<1>6. disabled' \in BOOLEAN /\ interrupted' = interrupted
  BY DEF Text, RequestInv, ReqTypeOK
<1> HIDE DEF x
<1> QED BY <1>1, <1>2, <1>3, <1>4, <1>5, <1>6, WorkerStep

LEMMA TextAsideStep ==
    ASSUME BoundsAssumption, RequestInv, NEW k \in Request, TextAside(k)
    PROVE  RequestInv'
<1>1. PICK r : r = request[k]
  OBVIOUS
<1>2. r \in State /\ Untorn(r)
  BY <1>1 DEF RequestInv, ReqTypeOK
<1> DEFINE x == [r EXCEPT !.aside = TRUE]
<1>3. x \in State
  BY <1>2 DEF State
<1>4. Untorn(x) /\ x.kind = r.kind /\ x.response = r.response
  BY <1>2 DEF State, Untorn
<1>5. Becomes(k, x)
  BY <1>1 DEF TextAside
<1>6. disabled' \in BOOLEAN /\ interrupted' = interrupted
  BY DEF TextAside, RequestInv, ReqTypeOK
<1> HIDE DEF x
<1> QED BY <1>1, <1>2, <1>3, <1>4, <1>5, <1>6, WorkerStep

LEMMA FallSilentStep ==
    ASSUME BoundsAssumption, RequestInv, NEW k \in Request, FallSilent(k)
    PROVE  RequestInv'
<1>1. PICK r : r = request[k]
  OBVIOUS
<1>2. r \in State /\ Untorn(r) /\ r.worker = "waiting" /\ r.live = "open"
  BY <1>1 DEF RequestInv, ReqTypeOK, FallSilent, Sends, Waits
<1> DEFINE x == [r EXCEPT !.live = "silent"]
<1>3. x \in State
  BY <1>2 DEF State
<1>4. Untorn(x) /\ x.kind = r.kind /\ x.response = r.response
  BY <1>2 DEF State, Untorn
<1>5. Becomes(k, x)
  BY <1>1 DEF FallSilent
<1>6. disabled' \in BOOLEAN /\ interrupted' = interrupted
  BY DEF FallSilent, RequestInv, ReqTypeOK
<1> HIDE DEF x
<1> QED BY <1>1, <1>2, <1>3, <1>4, <1>5, <1>6, WorkerStep

LEMMA ToolStep ==
    ASSUME BoundsAssumption, RequestInv, NEW k \in Request, Tool(k)
    PROVE  RequestInv'
<1>1. PICK r : r = request[k]
  OBVIOUS
<1>2. r \in State /\ Untorn(r) /\ r.worker = "waiting"
  BY <1>1 DEF RequestInv, ReqTypeOK, Tool, Streams, Sends, Waits
<1> DEFINE x == [r EXCEPT !.tool = TRUE, !.calling = TRUE]
<1>3. x \in State
  BY <1>2 DEF State
<1>4. Untorn(x) /\ x.kind = r.kind /\ x.response = r.response
  BY <1>2 DEF State, Untorn
<1>5. Becomes(k, x)
  BY <1>1 DEF Tool
<1>6. disabled' \in BOOLEAN /\ interrupted' = interrupted
  BY DEF Tool, RequestInv, ReqTypeOK
<1> HIDE DEF x
<1> QED BY <1>1, <1>2, <1>3, <1>4, <1>5, <1>6, WorkerStep

LEMMA CutStep ==
    ASSUME BoundsAssumption, RequestInv, NEW k \in Request, Cut(k)
    PROVE  RequestInv'
<1>1. PICK r : r = request[k]
  OBVIOUS
<1>2. r \in State /\ Untorn(r) /\ r.worker = "waiting" /\ interrupted
  BY <1>1 DEF RequestInv, ReqTypeOK, Cut, Streams, Sends, Waits
<1> DEFINE x == [r EXCEPT !.response = "none", !.worker = "closing"]
           y == [r EXCEPT !.response = "cut", !.worker = "closing"]
<1>3. x \in State
  BY <1>2 DEF State
<1>4. Untorn(x) /\ x.kind = r.kind /\ x.response # "cut"
  BY <1>2 DEF State, Untorn
<1>5. y \in State
  BY <1>2 DEF State
<1>6. Untorn(y) /\ y.kind = r.kind /\ interrupted
  BY <1>2 DEF State, Untorn
<1>7. Becomes(k, x) \/ Becomes(k, y)
  BY <1>1 DEF Cut
<1>8. disabled' \in BOOLEAN /\ interrupted' = interrupted
  BY DEF Cut, RequestInv, ReqTypeOK
<1> HIDE DEF x, y
<1> QED BY <1>1, <1>2, <1>3, <1>4, <1>5, <1>6, <1>7, <1>8, WorkerStep

LEMMA CompleteStep ==
    ASSUME BoundsAssumption, RequestInv, NEW k \in Request, Complete(k)
    PROVE  RequestInv'
<1>1. PICK r : r = request[k]
  OBVIOUS
<1>2. r \in State /\ Untorn(r) /\ r.worker = "waiting" /\ r.live # "none"
  BY <1>1 DEF RequestInv, ReqTypeOK, Complete, Streams, Sends, Waits
<1> DEFINE x == [r EXCEPT !.response = "full", !.worker = "closing"]
           y == [r EXCEPT !.response = "dropped", !.worker = "closing"]
           z == [r EXCEPT !.why = "other", !.worker = "failed"]
<1>3. x \in State
  BY <1>2 DEF State
<1>4. Untorn(x) /\ x.kind = r.kind /\ x.response # "cut"
  BY <1>2 DEF State, Untorn
<1>5. y \in State
  BY <1>2 DEF State
<1>6. Untorn(y) /\ y.kind = r.kind /\ y.response # "cut"
  BY <1>2 DEF State, Untorn
<1>7. z \in State
  BY <1>2 DEF State, Error
<1>8. Untorn(z) /\ z.kind = r.kind /\ z.response = r.response
  BY <1>2 DEF State, Untorn
<1>9. Becomes(k, x) \/ Becomes(k, y) \/ Becomes(k, z)
  BY <1>1 DEF Complete
<1>10. disabled' \in BOOLEAN /\ interrupted' = interrupted
  BY DEF Complete, RequestInv, ReqTypeOK
<1> HIDE DEF x, y, z
<1> QED BY <1>1, <1>2, <1>3, <1>4, <1>5, <1>6, <1>7, <1>8, <1>9, <1>10, WorkerStep

LEMMA RespondStep ==
    ASSUME BoundsAssumption, RequestInv, NEW k \in Request, Respond(k)
    PROVE  RequestInv'
<1>1. PICK r : r = request[k]
  OBVIOUS
<1>2. r \in State /\ Untorn(r) /\ r.worker = "waiting"
  BY <1>1 DEF RequestInv, ReqTypeOK, Respond, Sends, Waits
<1> DEFINE x == [r EXCEPT !.response = "full", !.worker = "closing"]
<1>3. x \in State
  BY <1>2 DEF State
<1>4. Untorn(x) /\ x.kind = r.kind /\ x.response # "cut"
  BY <1>2 DEF State, Untorn
<1>5. Becomes(k, x)
  BY <1>1 DEF Respond
<1>6. disabled' \in BOOLEAN /\ interrupted' = interrupted
  BY DEF Respond, RequestInv, ReqTypeOK
<1> HIDE DEF x
<1> QED BY <1>1, <1>2, <1>3, <1>4, <1>5, <1>6, WorkerStep

LEMMA UnstreamedStep ==
    ASSUME BoundsAssumption, RequestInv, NEW k \in Request, CompleteUnstreamed(k)
    PROVE  RequestInv'
<1>1. PICK r : r = request[k]
  OBVIOUS
<1>2. r \in State /\ Untorn(r) /\ r.worker = "waiting"
  BY <1>1 DEF RequestInv, ReqTypeOK, CompleteUnstreamed, Streams, Sends, Waits
<1> DEFINE x == [r EXCEPT !.response = "full", !.worker = "closing"]
<1>3. x \in State
  BY <1>2 DEF State
<1>4. Untorn(x) /\ x.kind = r.kind /\ x.response # "cut"
  BY <1>2 DEF State, Untorn
<1>5. Becomes(k, x)
  BY <1>1 DEF CompleteUnstreamed
<1>6. disabled' \in BOOLEAN /\ interrupted' = interrupted
  BY DEF CompleteUnstreamed, RequestInv, ReqTypeOK
<1> HIDE DEF x
<1> QED BY <1>1, <1>2, <1>3, <1>4, <1>5, <1>6, WorkerStep

LEMMA BedrockStep ==
    ASSUME BoundsAssumption, RequestInv, NEW k \in Request, BedrockUnstreamed(k)
    PROVE  RequestInv'
<1>1. PICK r : r = request[k]
  OBVIOUS
<1>2. r \in State /\ Untorn(r) /\ r.worker = "failed" /\ r.kind = "bedrock"
  BY <1>1 DEF RequestInv, ReqTypeOK, BedrockUnstreamed
<1> DEFINE x == [r EXCEPT !.kind = "converse", !.why = "none", !.live = "open", !.worker = "waiting"]
<1>3. x \in State
  BY <1>2 DEF State, Kind
<1>4. Untorn(x) /\ x.kind = "converse" /\ x.response = r.response
  BY <1>2 DEF State, Untorn
<1>5. Becomes(k, x)
  BY <1>1 DEF BedrockUnstreamed
<1>6. disabled' \in BOOLEAN /\ interrupted' = interrupted
  BY DEF BedrockUnstreamed, RequestInv, ReqTypeOK
<1> HIDE DEF x
<1> QED BY <1>1, <1>2, <1>3, <1>4, <1>5, <1>6, WorkerStep

LEMMA CloseStep ==
    ASSUME BoundsAssumption, RequestInv, NEW k \in Request, Close(k)
    PROVE  RequestInv'
<1>1. PICK r : r = request[k]
  OBVIOUS
<1>2. r \in State /\ Untorn(r) /\ r.worker = "closing"
  BY <1>1 DEF RequestInv, ReqTypeOK, Close, Released
<1> DEFINE y == [r EXCEPT !.live = "none", !.aside = FALSE, !.calling = FALSE]
           x == [y EXCEPT !.worker = "done", !.attempt = 1, !.tool = FALSE]
<1>2a. y \in State /\ y.shown = r.shown /\ y.text = r.text /\ y.kind = r.kind /\ y.live = "none"
       /\ y.response = r.response /\ y.outcome = r.outcome
  BY <1>2 DEF State
<1>2b. 1 \in 1 .. MaxAttempts
  BY DEF BoundsAssumption
<1> HIDE DEF y
<1>3. x \in State
  BY <1>2a, <1>2b DEF State
<1>4. Untorn(x) /\ x.kind = r.kind /\ x.response = r.response
  BY <1>2, <1>2a DEF State, Untorn
<1>5. Becomes(k, x)
  BY <1>1 DEF Close, Released, y
<1>6. disabled' \in BOOLEAN /\ interrupted' = interrupted
  BY DEF Close, RequestInv, ReqTypeOK
<1> HIDE DEF x
<1> QED BY <1>1, <1>2, <1>3, <1>4, <1>5, <1>6, WorkerStep

LEMMA FailStep ==
    ASSUME BoundsAssumption, RequestInv, NEW k \in Request, Fail(k)
    PROVE  RequestInv'
<1>1. PICK r : r = request[k]
  OBVIOUS
<1>2. r \in State /\ Untorn(r) /\ r.worker = "waiting"
  BY <1>1 DEF RequestInv, ReqTypeOK, Fail, Waits
<1>3. PICK why \in {"lost", "unsupported", "other"} : Becomes(k, [r EXCEPT !.why = why, !.worker = "failed"])
  BY <1>1 DEF Fail
<1> DEFINE x == [r EXCEPT !.why = why, !.worker = "failed"]
<1>4. x \in State
  <2>1. why \in Error
    BY DEF Error
  <2> QED BY <1>2, <2>1 DEF State
<1>5. Untorn(x) /\ x.kind = r.kind /\ x.response = r.response
  BY <1>2 DEF State, Untorn
<1>6. disabled' \in BOOLEAN /\ interrupted' = interrupted
  BY DEF Fail, RequestInv, ReqTypeOK
<1>7. Becomes(k, x)
  BY <1>3
<1> HIDE DEF x
<1> QED BY <1>1, <1>2, <1>4, <1>5, <1>6, <1>7, WorkerStep

\* A failed attempt is tried again only when the user has read nothing of it, or
\* is told that what was read does not count.
LEMMA AfterFailureSound ==
    ASSUME BoundsAssumption, NEW r \in State, Untorn(r), r.worker = "failed"
    PROVE  /\ AfterFailure(r) \in State /\ Untorn(AfterFailure(r))
           /\ AfterFailure(r).kind = r.kind /\ AfterFailure(r).response = r.response
<1> DEFINE a == [r EXCEPT !.why = "none", !.worker = "closing"]
           b == [a EXCEPT !.error = r.why]
           n == r.attempt + 1
           y == [r EXCEPT !.live = "none", !.aside = FALSE, !.calling = FALSE]
           c == [y EXCEPT !.why = "none", !.attempt = n, !.worker = "top"]
           d == [c EXCEPT !.text = FALSE, !.tool = FALSE, !.shown = {}]
<1>1. a \in State /\ Untorn(a) /\ a.kind = r.kind /\ a.response = r.response
  BY DEF State, Untorn
<1>2. b \in State /\ Untorn(b) /\ b.kind = r.kind /\ b.response = r.response
  BY DEF State, Untorn
<1>3. y \in State /\ y.kind = r.kind /\ y.response = r.response /\ y.shown = r.shown
      /\ y.live = "none" /\ y.text = r.text /\ y.outcome = r.outcome
  BY DEF State
<1>4. r.shown \subseteq {r.attempt} /\ (~r.text => r.shown = {})
      /\ ~(r.kind = "stream" /\ r.outcome = "raised")
  BY DEF Untorn
<1>5. ASSUME r.attempt < MaxAttempts PROVE n \in 1 .. MaxAttempts
  BY <1>5 DEF State, BoundsAssumption
<1> HIDE DEF y, n
<1>6. ASSUME r.attempt < MaxAttempts, ~r.text
      PROVE  c \in State /\ Untorn(c) /\ c.kind = r.kind /\ c.response = r.response
  <2>1. c \in State
    <3>1. [y EXCEPT !.why = "none", !.worker = "top"] \in State
      BY <1>3 DEF State
    <3> DEFINE z == [y EXCEPT !.why = "none", !.worker = "top"]
    <3>2. c = [z EXCEPT !.attempt = n]
      BY <1>3 DEF State
    <3> HIDE DEF z, c
    <3> QED BY <1>5, <1>6, <3>1, <3>2 DEF State, z
  <2>2. c.shown = r.shown /\ c.worker = "top" /\ c.text = r.text /\ c.kind = r.kind
        /\ c.response = r.response /\ c.outcome = r.outcome /\ c.live = "none"
    BY <1>3 DEF State
  <2> HIDE DEF c
  <2> QED BY <1>4, <1>6, <2>1, <2>2 DEF Untorn
<1>7. ASSUME r.attempt < MaxAttempts
      PROVE  d \in State /\ Untorn(d) /\ d.kind = r.kind /\ d.response = r.response
  <2>1. d \in State
    BY <1>3, <1>5, <1>7 DEF State
  <2>2. d.shown = {} /\ d.worker = "top" /\ d.kind = r.kind
        /\ d.response = r.response /\ d.outcome = r.outcome /\ d.live = "none"
    BY <1>3 DEF State
  <2> HIDE DEF d
  <2> QED BY <1>4, <2>1, <2>2 DEF Untorn
<1>8. AfterFailure(r) = a \/ AfterFailure(r) = b
      \/ (r.attempt < MaxAttempts /\ ~r.text /\ AfterFailure(r) = c)
      \/ (r.attempt < MaxAttempts /\ AfterFailure(r) = d)
  BY DEF AfterFailure, Quits, GivesUp, Retried, RetriedMidTool, Released, y, n
<1> HIDE DEF a, b, c, d
<1> QED BY <1>1, <1>2, <1>6, <1>7, <1>8

LEMMA HandleStep ==
    ASSUME BoundsAssumption, RequestInv, NEW k \in Request, Handle(k)
    PROVE  RequestInv'
<1>1. PICK r : r = request[k]
  OBVIOUS
<1>2. r \in State /\ Untorn(r) /\ r.worker = "failed"
  BY <1>1 DEF RequestInv, ReqTypeOK, Handle
<1>3. PICK x : x = AfterFailure(r)
  OBVIOUS
<1>4. x \in State /\ Untorn(x) /\ x.kind = r.kind /\ x.response = r.response
  BY <1>2, <1>3, AfterFailureSound
<1>5. PICK f : f = [request EXCEPT ![k] = x]
  OBVIOUS
<1>5a. (request' = f \/ request' = SharedClosed(f)) /\ UNCHANGED <<current, poller, armed>>
  BY <1>1, <1>3, <1>5 DEF Handle
<1>5b. /\ f \in [Request -> State]
       /\ \A j \in Request : Untorn(f[j]) /\ f[j].kind = request[j].kind /\ f[j].response = request[j].response
  BY <1>1, <1>4, <1>5 DEF RequestInv, ReqTypeOK
<1>5c. /\ request' \in [Request -> State]
       /\ \A j \in Request : Untorn(request'[j]) /\ request'[j].kind = request[j].kind
                                  /\ request'[j].response = request[j].response
  BY <1>5a, <1>5b, ClosedSound
<1>6. disabled' \in BOOLEAN /\ interrupted' = interrupted
  <2>1. r.text \in BOOLEAN /\ r.cancelled \in BOOLEAN /\ disabled \in BOOLEAN
    BY <1>2 DEF State, RequestInv, ReqTypeOK
  <2>2. disabled' = (disabled \/ (r.why = "unsupported" /\ r.kind = "stream" /\ ~r.text /\ ~r.cancelled))
    BY <1>1 DEF Handle
  <2>3. disabled' \in BOOLEAN
    BY <2>1, <2>2, Zenon
  <2> QED BY <2>3 DEF Handle
<1> QED BY <1>5a, <1>5c, <1>6, RequestsStep

\* The connections that are shut down or closed are those that stand open;
\* nothing else of any request changes.
LEMMA AbortSound ==
    ASSUME BoundsAssumption, RequestInv, NEW k \in Request
    PROVE  /\ Abort(k) \in [Request -> State]
           /\ \A j \in Request :
                 /\ Untorn(Abort(k)[j])
                 /\ Abort(k)[j].kind = request[j].kind
                 /\ Abort(k)[j].response = request[j].response
                 /\ Abort(k)[j].outcome = request[j].outcome
<1>1. request \in [Request -> State] /\ \A j \in Request : Untorn(request[j])
  BY DEF RequestInv, ReqTypeOK
<1>2. CASE Abort(k) = SharedClosed(request)
  BY <1>1, <1>2, ClosedSound
<1> DEFINE r == request[k]
           ab == [r EXCEPT !.live = "aborted"]
<1>3. CASE r.live \in {"open", "silent"} /\ Abort(k) = [request EXCEPT ![k] = ab]
  <2>1. r \in State /\ Untorn(r)
    BY <1>1
  <2>2. /\ ab \in State /\ Untorn(ab) /\ ab.kind = r.kind /\ ab.response = r.response
        /\ ab.outcome = r.outcome
    BY <1>3, <2>1 DEF State, Untorn
  <2> HIDE DEF ab
  <2> QED BY <1>1, <1>3, <2>2
<1>4. CASE Abort(k) = request
  BY <1>1, <1>4
<1>5. Abort(k) = SharedClosed(request) \/ Abort(k) = request
      \/ (r.live \in {"open", "silent"} /\ Abort(k) = [request EXCEPT ![k] = ab])
  BY DEF Abort
<1> QED BY <1>2, <1>3, <1>4, <1>5

\* The agent's thread makes a request, for which the interrupt is cleared.
LEMMA BeginRequestStep ==
    ASSUME BoundsAssumption, RequestInv, Begin
    PROVE  RequestInv'
<1>1. poller = "idle" /\ current < MaxRequests /\ current' = current + 1 /\ interrupted' = FALSE
      /\ poller' = "while" /\ disabled' = disabled
  BY DEF Begin
<1>2. PICK n : n = current + 1
  OBVIOUS
<1>3. n \in Request /\ n # 0 /\ n \in 0 .. MaxRequests
  BY <1>1, <1>2 DEF BoundsAssumption, RequestInv, ReqTypeOK, Request
<1>4. PICK kind \in Kind, client \in Client :
        /\ request' = [request EXCEPT ![n] = [Unused EXCEPT !.kind = kind, !.client = client, !.worker = "top"]]
        /\ armed' \in BOOLEAN
  <2>1. "plain" \in Kind
    BY DEF Kind
  <2>2. PICK kind \in (IF disabled THEN {"plain"} ELSE Kind \ {"converse"}), client \in Client :
          /\ request' = [request EXCEPT ![current'] =
                [Unused EXCEPT !.kind = kind, !.client = client, !.worker = "top"]]
          /\ armed' \in IF kind = "bedrock" THEN {FALSE} ELSE BOOLEAN
    BY Zenon DEF Begin
  <2>3. kind \in Kind /\ armed' \in BOOLEAN
    BY <2>1, <2>2
  <2>4. current' = n
    BY <1>1, <1>2
  <2> QED BY <2>2, <2>3, <2>4, Zenon
<1> DEFINE x == [Unused EXCEPT !.kind = kind, !.client = client, !.worker = "top"]
<1>5. x \in State
  <2>1. Unused \in State
    BY DEF Unused, State, Kind, Client, Error, BoundsAssumption
  <2> QED BY <2>1 DEF State
<1>6. Untorn(x) /\ x.response = "none"
  BY DEF Unused, Untorn
<1>7. request' = [request EXCEPT ![n] = x]
  BY <1>4
<1> HIDE DEF x
<1>8. request \in [Request -> State] /\ \A j \in Request : Untorn(request[j])
  BY DEF RequestInv, ReqTypeOK
<1>9. request' \in [Request -> State] /\ (\A j \in Request : Untorn(request'[j]))
      /\ request'[n].response = "none"
  BY <1>3, <1>5, <1>6, <1>7, <1>8
<1>10. ReqTypeOK'
  BY <1>1, <1>2, <1>3, <1>4, <1>9 DEF RequestInv, ReqTypeOK
<1> QED BY <1>1, <1>2, <1>3, <1>9, <1>10 DEF RequestInv, AtHand

\* It leaves with a result: text that was read is never asked for again.
LEMMA ResultStep ==
    ASSUME BoundsAssumption, RequestInv, poller # "idle", poller' = "idle", armed' = FALSE,
           UNCHANGED <<current, disabled>>, interrupted' = interrupted,
           NEW r \in State, Untorn(r), r.kind = "stream" => r.worker = "done",
           NEW how \in {"response", "stub", "raised", "interrupted"},
           how = "raised" => ~(r.text /\ r.kind = "stream"),
           request' = [request EXCEPT ![current] = [r EXCEPT !.outcome = how]]
    PROVE  RequestInv'
<1>1. current \in Request
  BY RequestAtHand
<1> DEFINE x == [r EXCEPT !.outcome = how]
<1>2. x \in State
  BY DEF State
<1>3. Untorn(x)
  BY DEF State, Untorn
<1> HIDE DEF x
<1>4. request \in [Request -> State] /\ \A j \in Request : Untorn(request[j])
  BY DEF RequestInv, ReqTypeOK
<1>5. request' \in [Request -> State] /\ (\A j \in Request : Untorn(request'[j]))
  BY <1>1, <1>2, <1>3, <1>4 DEF x
<1>6. ReqTypeOK'
  BY <1>5 DEF RequestInv, ReqTypeOK
<1> QED BY <1>5, <1>6 DEF RequestInv

LEMMA PollStep ==
    ASSUME BoundsAssumption, RequestInv, Poll
    PROVE  RequestInv'
<1>1. /\ poller # "idle" /\ current' = current /\ disabled' = disabled /\ interrupted' = interrupted
      /\ armed' \in BOOLEAN /\ (poller' = "idle" => armed' = FALSE)
  BY DEF RequestInv, ReqTypeOK, Result, Return, Poll, WorkerDone, Join, StalePlain, StaleStream, Killed, Interrupted,
     PollAgain
<1>2. current \in Request /\ Own = AtHand
  BY <1>1, RequestAtHand
<1>3. PICK r : r = request[current]
  OBVIOUS
<1>4. r \in State /\ Untorn(r) /\ Own = r
  BY <1>1, <1>3, RequestAtHand DEF RequestInv, AtHand
<1>5. CASE WorkerDone
  <2>1. r.worker = "done" /\ poller' = "idle"
    BY <1>4, <1>5 DEF WorkerDone, Result, Return
  <2>2. PICK how \in {"response", "stub", "raised"} :
          /\ how = "raised" => ~(r.text /\ r.kind = "stream")
          /\ request' = [request EXCEPT ![current] = [r EXCEPT !.outcome = how]]
    BY <1>4, <1>5 DEF WorkerDone, Result, Return
  <2> QED BY <1>1, <1>4, <2>1, <2>2, ResultStep
<1>6. CASE Killed
  <2>1. poller = "killed" /\ poller' = "idle" /\ r.kind = "plain"
    BY <1>3, <1>6 DEF Killed, Result, Return, RequestInv, AtHand
  <2> DEFINE x == [r EXCEPT !.error = "timeout"]
  <2>2. x \in State
    <3>1. "timeout" \in Error
      BY DEF Error
    <3> QED BY <1>4, <3>1 DEF State
  <2>3. Untorn(x) /\ x.kind = r.kind
    BY <1>4 DEF State, Untorn
  <2>4. Result(x) \/ Result(r)
    BY <1>4, <1>6 DEF Killed
  <2> HIDE DEF x
  <2>5. PICK s : (s = x \/ s = r) /\ Result(s)
    BY <2>4
  <2>6. s \in State /\ Untorn(s) /\ s.kind = "plain"
    BY <1>4, <2>1, <2>2, <2>3, <2>5
  <2>7. PICK how \in {"response", "stub", "raised"} :
          /\ request' = [request EXCEPT ![current] = [s EXCEPT !.outcome = how]]
    BY <2>5 DEF Result, Return
  <2> QED BY <1>1, <2>1, <2>6, <2>7, ResultStep
<1>7. CASE Join \/ PollAgain
  <2>1. request' = request /\ poller' \in {"body", "while"}
    BY <1>7 DEF Join, PollAgain
  <2> QED BY <1>1, <2>1 DEF RequestInv, ReqTypeOK, AtHand
<1>8. CASE StalePlain \/ StaleStream
  <2>1. request' = Abort(current) /\ poller' \in {"body", "killed"} /\ poller = "body"
        /\ (poller' = "killed" => r.kind = "plain")
    BY <1>4, <1>8 DEF StalePlain, StaleStream
  <2>2. PICK k \in Request : k = current
    BY <1>2
  <2>3. /\ request' \in [Request -> State]
        /\ \A j \in Request : Untorn(request'[j])
        /\ request'[current].kind = r.kind /\ request'[current].response = r.response
    BY <1>2, <1>3, <2>1, <2>2, AbortSound
  <2>4. ReqTypeOK'
    BY <1>1, <2>1, <2>3 DEF RequestInv, ReqTypeOK
  <2> QED BY <1>1, <1>3, <2>1, <2>3, <2>4 DEF RequestInv, AtHand
<1>9. CASE Interrupted
  <2>1. poller' = "idle"
    BY <1>9 DEF Interrupted
  <2>2. PICK k \in Request : k = current
    BY <1>2
  <2>3. PICK ab : ab = Abort(k)
    OBVIOUS
  <2>4. ab \in [Request -> State] /\ \A j \in Request : Untorn(ab[j])
    BY <2>3, AbortSound
  <2>5. PICK c \in BOOLEAN :
          request' = [ab EXCEPT ![k].cancelled = c, ![k].outcome = "interrupted"]
    <3>1. request' = [ab EXCEPT ![k].cancelled = (r.kind \notin Bedrock), ![k].outcome = "interrupted"]
      BY <1>4, <1>9, <2>2, <2>3 DEF Interrupted
    <3>2. (r.kind \notin Bedrock) \in BOOLEAN
      OBVIOUS
    <3> QED BY <3>1, <3>2, Zenon
  <2> DEFINE x == [ab[k] EXCEPT !.cancelled = c, !.outcome = "interrupted"]
  <2>6. request' = [ab EXCEPT ![k] = x]
    BY <2>5
  <2>7. x \in State
    <3>1. ab[k] \in State
      BY <2>4
    <3> QED BY <3>1 DEF State
  <2>8. Untorn(x)
    <3>1. ab[k] \in State /\ Untorn(ab[k])
      BY <2>4
    <3> QED BY <3>1 DEF State, Untorn
  <2> HIDE DEF x
  <2>9. request' \in [Request -> State] /\ \A j \in Request : Untorn(request'[j])
    BY <2>4, <2>6, <2>7, <2>8
  <2>10. ReqTypeOK'
    BY <1>1, <2>1, <2>9 DEF RequestInv, ReqTypeOK
  <2> QED BY <2>1, <2>9, <2>10 DEF RequestInv
<1> QED BY <1>5, <1>6, <1>7, <1>8, <1>9 DEF Poll

LEMMA StepRequestInv == BoundsAssumption /\ RequestInv /\ [ReqNext]_reqVars => RequestInv'
<1> SUFFICES ASSUME BoundsAssumption, RequestInv, [ReqNext]_reqVars PROVE RequestInv'
  OBVIOUS
<1>1. ASSUME NEW k \in Request, Worker(k) PROVE RequestInv'
  BY <1>1, TopStep, OpenStep, FallSilentStep, TextStep, TextAsideStep, ToolStep, CutStep, CompleteStep, RespondStep, UnstreamedStep,
     FailStep, BedrockStep, HandleStep, CloseStep DEF Worker
<1>2. CASE UserInterrupts
  <2>1. UNCHANGED <<current, poller, armed, request, disabled>> /\ interrupted' = TRUE
    BY <1>2 DEF UserInterrupts
  <2> QED BY <2>1 DEF RequestInv, ReqTypeOK, AtHand
<1>3. CASE UNCHANGED reqVars
  BY <1>3 DEF reqVars, RequestInv, ReqTypeOK, AtHand
<1> QED BY <1>1, <1>2, <1>3, BeginRequestStep, PollStep DEF ReqNext

\* RequestInv is an inductive invariant of the requests.
THEOREM RequestInductive == ReqSpec => []RequestInv
<1>1. ReqInit => RequestInv
  BY BoundsAssumption, InitRequestInv
<1>2. RequestInv /\ [ReqNext]_reqVars => RequestInv'
  BY BoundsAssumption, StepRequestInv
<1> QED BY <1>1, <1>2, PTL DEF ReqSpec

\* How a call ends is decided by the agent's thread.
LEMMA WorkerDecidesNothing ==
    ASSUME RequestInv, NEW k \in Request, Worker(k), NEW j \in Request
    PROVE  request'[j].outcome = request[j].outcome
<1>1. request \in [Request -> State]
  BY DEF RequestInv, ReqTypeOK
<1>2. ASSUME NEW x, Becomes(k, x), x.outcome = request[k].outcome
      PROVE  request'[j].outcome = request[j].outcome
  BY <1>1, <1>2 DEF Becomes
<1>3. PICK r : r = request[k]
  OBVIOUS
<1>4. r \in State
  BY <1>1, <1>3
<1>5. CASE Top(k)
  BY <1>2, <1>3, <1>4, <1>5 DEF Top, State
<1>6. CASE Open(k) \/ Respond(k) \/ BedrockUnstreamed(k) \/ FallSilent(k)
  BY <1>2, <1>3, <1>4, <1>6 DEF Open, Respond, BedrockUnstreamed, FallSilent, State
<1>7. CASE Text(k) \/ TextAside(k) \/ Tool(k)
  BY <1>2, <1>3, <1>4, <1>7 DEF Text, TextAside, Tool, State
<1>8. CASE Cut(k)
  BY <1>2, <1>3, <1>4, <1>8 DEF Cut, State
<1>9. CASE Complete(k) \/ CompleteUnstreamed(k)
  BY <1>2, <1>3, <1>4, <1>9 DEF Complete, CompleteUnstreamed, State
<1>10. CASE Fail(k)
  BY <1>2, <1>3, <1>4, <1>10 DEF Fail, State
<1>11. CASE Handle(k)
  <2>1. AfterFailure(r).outcome = r.outcome
    BY <1>4 DEF AfterFailure, Quits, GivesUp, Retried, RetriedMidTool, Released, State
  <2>2. PICK f : f = [request EXCEPT ![k] = AfterFailure(r)]
    OBVIOUS
  <2>3. f[j].outcome = request[j].outcome
    BY <1>1, <1>3, <2>1, <2>2
  <2>4. SharedClosed(f)[j].outcome = f[j].outcome
    <3>1. Untorn(r) /\ r.worker = "failed"
      BY <1>3, <1>11 DEF RequestInv, Handle
    <3>2. f \in [Request -> State] /\ \A i \in Request : Untorn(f[i])
      BY <1>1, <1>3, <1>4, <2>2, <3>1, AfterFailureSound, BoundsAssumption DEF RequestInv
    <3> QED BY <3>2, ClosedSound
  <2>5. request' = f \/ request' = SharedClosed(f)
    BY <1>3, <1>11, <2>2 DEF Handle
  <2> QED BY <2>3, <2>4, <2>5
<1>12. CASE Close(k)
  BY <1>2, <1>3, <1>4, <1>12 DEF Close, Released, State
<1> QED BY <1>5, <1>6, <1>7, <1>8, <1>9, <1>10, <1>11, <1>12 DEF Worker

\* For any number of retries and of requests left to their workers: what the
\* user read is never shown again, neither by a retry nor by the loop's asking
\* anew, and no worker ends with a connection or reads from one it gave up.
THEOREM RequestIsSound == ReqSpec => []RequestSound
<1>1. RequestInv => RequestSound
  <2> SUFFICES ASSUME RequestInv PROVE RequestSound
    OBVIOUS
  <2>1. ClosedByItsOwner
    <3>1. \A k \in Request :
            request[k].live \in {"none", "open", "silent", "aborted", "closed"} /\ Untorn(request[k])
      BY DEF RequestInv, ReqTypeOK, State
    <3> QED BY <3>1 DEF Untorn, ClosedByItsOwner
  <2>2. ASSUME NEW k \in Request, request[k].kind = "stream"
        PROVE  Cardinality(request[k].shown) <= 1 /\ (request[k].outcome = "raised" => request[k].shown = {})
    <3>1. \A m, n \in request[k].shown : m = n
      BY DEF RequestInv, Untorn
    <3>2. request[k].shown = {} \/ \E n : request[k].shown = {n}
      BY <3>1
    <3>3. Cardinality(request[k].shown) <= 1
      <4>1. Cardinality({}) = 0
        BY FS_EmptySet
      <4>2. \A n : Cardinality({n}) = 1
        BY FS_Singleton
      <4>3. Cardinality(request[k].shown) = 0 \/ Cardinality(request[k].shown) = 1
        BY <3>2, <4>1, <4>2, Zenon
      <4> QED BY <4>3
    <3> QED BY <2>2, <3>3 DEF RequestInv, Untorn
  <2>3. TextNeverRepeated
    BY <2>2 DEF TextNeverRepeated
  <2> QED BY <2>1, <2>3 DEF RequestInv, RequestSound
<1> QED BY <1>1, RequestInductive, PTL

\* A response that an interrupt cut short is handed on, by a worker that ends
\* between two polls, only while the interrupt stands for the caller to see.
THEOREM CutOnlyUnderInterrupt == ReqSpec => CutOnlyWhileInterrupted
<1>1. RequestInv /\ [ReqNext]_reqVars =>
        [\A k \in Request :
            request'[k].outcome = "response" /\ request[k].outcome = "none"
              /\ request[k].response = "cut" => interrupted']_reqVars
  <2> SUFFICES ASSUME RequestInv, ReqNext, NEW k \in Request,
                      request'[k].outcome = "response", request[k].outcome = "none",
                      request[k].response = "cut"
               PROVE  interrupted'
    OBVIOUS
  <2>1. request \in [Request -> State]
    BY DEF RequestInv, ReqTypeOK
  <2>2. ~\E w \in Request : Worker(w)
    BY WorkerDecidesNothing
  <2>3. CASE Begin
    <3>1. PICK x : request' = [request EXCEPT ![current'] = x] /\ x.outcome = "none"
      <4>1. PICK kind \in (IF disabled THEN {"plain"} ELSE Kind \ {"converse"}), client \in Client :
              request' = [request EXCEPT ![current'] =
                [Unused EXCEPT !.kind = kind, !.client = client, !.worker = "top"]]
        BY <2>3, Zenon DEF Begin
      <4>2. [Unused EXCEPT !.kind = kind, !.client = client, !.worker = "top"].outcome = "none"
        BY DEF Unused
      <4> QED BY <4>1, <4>2
    <3> QED BY <2>1, <3>1
  <2>4. CASE Join \/ PollAgain \/ UserInterrupts
    BY <2>4 DEF Join, PollAgain, UserInterrupts
  <2>5. CASE StalePlain \/ StaleStream
    <3>1. request' = Abort(current) /\ poller # "idle"
      BY <2>5 DEF StalePlain, StaleStream
    <3>2. current \in Request
      BY <3>1, BoundsAssumption, RequestAtHand
    <3>3. request'[k].outcome = request[k].outcome
      BY <3>1, <3>2, BoundsAssumption, AbortSound
    <3> QED BY <3>3
  <2>6. CASE Interrupted
    BY <2>6 DEF Interrupted
  <2>7. CASE WorkerDone \/ Killed
    <3>1. poller # "idle" /\ interrupted' = interrupted
          /\ \E x : request' = [request EXCEPT ![current] = x]
      BY <2>7 DEF WorkerDone, Killed, Result, Return
    <3>2. k = current
      BY <2>1, <3>1
    <3>3. AtHand.response = "cut"
      BY <3>2 DEF AtHand
    <3> QED BY <3>1, <3>3 DEF RequestInv
  <2> QED BY <2>2, <2>3, <2>4, <2>5, <2>6, <2>7 DEF ReqNext, Poll
<1> QED BY <1>1, RequestInductive, PTL DEF ReqSpec, CutOnlyWhileInterrupted
=============================================================================
