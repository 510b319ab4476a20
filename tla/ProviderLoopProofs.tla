------------------------- MODULE ProviderLoopProofs -------------------------
(***************************************************************************)
(* Proofs about ProviderLoop for every bound on turns and calls and every  *)
(* set of requests and answers.  LInv ties the loop counter to the number  *)
(* of requests sent (Pace), says how far the conversation is completed     *)
(* while the tool calls of a reply run (Conversation), and what a response *)
(* can contain by the way it came about (Contents).  At the end, the chat  *)
(* server around the loop: ChatServer extends ProviderLoop, so that what   *)
(* is proved of the loop serves there as well.                             *)
(***************************************************************************)
EXTENDS ChatServer, Integers, FiniteSetTheorems, SequenceTheorems, TLAPS

Message == {[role |-> "system"], [role |-> "user"]}
           \cup {Assistant(k) : k \in 1 .. MaxCalls}
           \cup {ToolResult(i) : i \in 1 .. MaxCalls}

Pace ==
    /\ pc \in {"idle", "gate"} => turn = 0 /\ posts = 0 /\ ~retried /\ messages = <<>>
    /\ pc = "request" => turn = posts + 1
    /\ pc \in {"dispatch", "exhausted"} => turn = posts
    /\ pc \in {"request", "dispatch", "exhausted"} => turn >= 1

\* The message at i opens the reply whose calls are being answered: all tool
\* answers before index are there and none later.
Opens(i) ==
    /\ i \in DOMAIN messages
    /\ messages[i] = Assistant(batch)
    /\ Len(messages) = i + index - 1
    /\ \A j \in 1 .. index - 1 : messages[i + j] = ToolResult(j)

\* The conversation up to and including position n is one the API accepts.
Complete(ms, n) ==
    /\ \A i \in 1 .. n : ms[i].role = "assistant" =>
          \A j \in 1 .. ms[i].calls : i + j \in 1 .. n /\ ms[i + j] = ToolResult(j)
    /\ \A i \in 1 .. n : ms[i].role = "tool" =>
          LET a == i - ms[i].answers
          IN a \in 1 .. n /\ ms[a].role = "assistant" /\ ms[a].calls >= i - a

Conversation ==
    /\ pc = "request" => Complete(messages, Len(messages))
    /\ pc = "dispatch" =>
          /\ batch \in 1 .. MaxCalls
          /\ index \in 1 .. batch
          /\ Opens(Len(messages) - index + 1)
          /\ Complete(messages, Len(messages) - index)

Contents ==
    /\ pc # "answered" => response = NoResponse
    /\ MadeUpAnswersStoreNothing
    /\ NoDemandForHeldData
    /\ SuppliedGreetingStaysShort

Entered == pc # "idle" => req \in Requests

LInv == TypeOK /\ Entered /\ Pace /\ Conversation /\ Contents

-----------------------------------------------------------------------------
(* The operators.                                                          *)

LEMMA FallbackTyped ==
    ASSUME NEW p \in Response, loopAudit \in Seq(AuditEntry)
    PROVE  /\ Fallback(p) \in Response
           /\ Fallback(p).source = "fallback"
           /\ ~Fallback(p).asks /\ ~Fallback(p).persist /\ ~Fallback(p).memory
           /\ Fallback(p).drafts = "none"
<1>1. loopAudit \o p.audit \o <<"ok_context_fallback", "after_retry">> \in Seq(AuditEntry)
  BY DEF Response, AuditEntry
<1> QED BY <1>1 DEF Fallback, NoResponse, Response

LEMMA FailClosedTyped ==
    ASSUME NEW audit \in Seq(AuditEntry)
    PROVE  /\ FailClosed(audit) \in Response
           /\ FailClosed(audit).source = "failClosed"
           /\ ~FailClosed(audit).persist /\ ~FailClosed(audit).memory
           /\ FailClosed(audit).drafts = "none"
BY DEF FailClosed, NoResponse, Response

\* The guardrails keep the source of a response and only ever take things
\* out of it: they ask for nothing and propose nothing that was not there.
LEMMA GuardedTyped ==
    ASSUME NEW r \in Response, NEW long \in BOOLEAN, NEW hedged \in BOOLEAN
    PROVE  /\ Guarded(r, long, hedged) \in Response
           /\ Guarded(r, long, hedged).source = r.source
           /\ Guarded(r, long, hedged).asks => r.asks
           /\ Guarded(r, long, hedged).persist => r.persist
           /\ Guarded(r, long, hedged).memory => r.memory
           /\ Guarded(r, long, hedged).drafts \in {r.drafts, "none"}
<1>0. r = [source |-> r.source, reveals |-> r.reveals, asks |-> r.asks, persist |-> r.persist,
          memory |-> r.memory, drafts |-> r.drafts, audit |-> r.audit]
  BY DEF Response
<1>1. \A e \in AuditEntry : Append(r.audit, e) \in Seq(AuditEntry)
  BY DEF Response
<1>2. {"compact_sparse", "owner_boundary", "guardrail"} \subseteq AuditEntry
  BY DEF AuditEntry
<1> DEFINE g == Guarded(r, long, hedged)
<1>3. g \in {Compacted(r), Prefixed(r), Silenced(r), r}
  BY DEF Guarded, Prefixes
<1>4. CASE g = Compacted(r)
  <2>1. Compacted(r) =
          [[r EXCEPT !.reveals = "names", !.persist = FALSE] EXCEPT !.audit = Append(r.audit, "compact_sparse")]
    BY DEF Compacted
  <2> DEFINE h == [r EXCEPT !.reveals = "names", !.persist = FALSE]
  <2>2. h \in Response /\ h.source = r.source /\ h.asks = r.asks /\ ~h.persist
        /\ h.memory = r.memory /\ h.drafts = r.drafts /\ h.audit = r.audit
    BY DEF Response
  <2> DEFINE x == Append(r.audit, "compact_sparse")
             k == [h EXCEPT !.audit = x]
  <2>3. x \in Seq(AuditEntry)
    BY <1>1, <1>2
  <2> HIDE DEF h, x
  <2>4. k \in Response /\ k.source = h.source /\ k.asks = h.asks /\ k.persist = h.persist
        /\ k.memory = h.memory /\ k.drafts = h.drafts
    BY <2>2, <2>3 DEF Response
  <2>5. g = k
    BY <1>4, <2>1 DEF h, x
  <2> QED BY <2>2, <2>4, <2>5
<1>5. CASE g = Prefixed(r)
  BY <1>1, <1>2, <1>5 DEF Prefixed, Response
<1>6. CASE g = Silenced(r)
  <2> DEFINE x == Append(r.audit, "guardrail")
             k == [NoResponse EXCEPT !.source = r.source, !.audit = x]
  <2>1. x \in Seq(AuditEntry)
    BY <1>1, <1>2
  <2> HIDE DEF x
  <2>2. r.source \in {"none", "failClosed", "model", "fallback"}
    BY DEF Response
  <2>3. k \in Response /\ k.source = r.source /\ ~k.asks /\ ~k.persist /\ ~k.memory /\ k.drafts = "none"
    BY <2>1, <2>2 DEF NoResponse, Response
  <2>4. g = k
    BY <1>6 DEF Silenced, x
  <2> QED BY <2>3, <2>4
<1>7. CASE g = r
  BY <1>7
<1> QED BY <1>3, <1>4, <1>5, <1>6, <1>7

\* A casual message leaves nothing but a short answer.
LEMMA CasualGuarded ==
    ASSUME NEW r \in Response, NEW long, NEW hedged, Intent = "casual"
    PROVE  /\ Guarded(r, long, hedged).reveals = "nothing"
           /\ ~Guarded(r, long, hedged).persist
           /\ Guarded(r, long, hedged).drafts = "none"
<1>1. Guarded(r, long, hedged) = Silenced(r)
  BY DEF Guarded, Compacts, Prefixes, Asks, Silences
<1> QED BY <1>1 DEF Silenced, NoResponse, Response

LEMMA FromModelTyped ==
    ASSUME NEW a \in Answer
    PROVE  /\ FromModel(a) \in Response
           /\ FromModel(a).source = "model"
           /\ ~FromModel(a).memory
           /\ FromModel(a).asks = a.asks
BY DEF FromModel, Response, Answer, AuditEntry

\* How a rejected call and an exhausted loop end.
LEMMA ClosingTyped ==
    ASSUME NEW s \in AuditEntry, loopAudit \in Seq(AuditEntry)
    PROVE  /\ Closing(s) \in Response
           /\ Closing(s).source = IF HasContext THEN "fallback" ELSE "failClosed"
           /\ Closing(s).source = "fallback" => ~Closing(s).asks
           /\ ~Closing(s).persist /\ ~Closing(s).memory /\ Closing(s).drafts = "none"
           /\ HasContext /\ Intent = "casual" => Closing(s).reveals = "nothing"
<1> DEFINE closed == FailClosed(<<s>> \o loopAudit)
<1>1. <<s>> \o loopAudit \in Seq(AuditEntry)
  OBVIOUS
<1>2. closed \in Response /\ closed.source = "failClosed" /\ ~closed.persist /\ ~closed.memory
      /\ closed.drafts = "none"
  BY <1>1, FailClosedTyped
<1>3. CASE ~HasContext
  BY <1>2, <1>3 DEF Closing
<1>4. CASE HasContext
  <2>1. Closing(s) = Guarded(Fallback(closed), TRUE, TRUE)
    BY <1>4 DEF Closing, GuardedFallback
  <2>2. /\ Fallback(closed) \in Response
        /\ Fallback(closed).source = "fallback"
        /\ ~Fallback(closed).asks /\ ~Fallback(closed).persist /\ ~Fallback(closed).memory
        /\ Fallback(closed).drafts = "none"
    BY <1>2, FallbackTyped
  <2>3. Closing(s) \in Response /\ Closing(s).source = "fallback" /\ ~Closing(s).asks
        /\ ~Closing(s).persist /\ ~Closing(s).memory /\ Closing(s).drafts = "none"
    <3> DEFINE f == Fallback(closed)
    <3>1. /\ Guarded(f, TRUE, TRUE) \in Response
          /\ Guarded(f, TRUE, TRUE).source = f.source
          /\ Guarded(f, TRUE, TRUE).asks => f.asks
          /\ Guarded(f, TRUE, TRUE).persist => f.persist
          /\ Guarded(f, TRUE, TRUE).memory => f.memory
          /\ Guarded(f, TRUE, TRUE).drafts \in {f.drafts, "none"}
      BY <2>2, GuardedTyped
    <3> QED BY <2>1, <2>2, <3>1
  <2>4. Intent = "casual" => Closing(s).reveals = "nothing"
    BY <2>1, <2>2, CasualGuarded
  <2> QED BY <1>4, <2>3, <2>4
<1> QED BY <1>3, <1>4

\* What is complete up to n does not depend on what follows n.
LEMMA CompletePrefix ==
    ASSUME NEW ms, NEW mt, NEW n \in Int, \A i \in 1 .. n : mt[i] = ms[i], Complete(ms, n)
    PROVE  Complete(mt, n)
<1>1. ASSUME NEW i \in 1 .. n, mt[i].role = "assistant", NEW j \in 1 .. mt[i].calls
      PROVE  i + j \in 1 .. n /\ mt[i + j] = ToolResult(j)
  BY <1>1 DEF Complete
<1>2. ASSUME NEW i \in 1 .. n, mt[i].role = "tool"
      PROVE  LET a == i - mt[i].answers
             IN a \in 1 .. n /\ mt[a].role = "assistant" /\ mt[a].calls >= i - a
  <2> DEFINE a == i - ms[i].answers
  <2>1. mt[i] = ms[i]
    OBVIOUS
  <2>2. a \in 1 .. n /\ ms[a].role = "assistant" /\ ms[a].calls >= i - a
    BY <1>2, <2>1 DEF Complete
  <2>3. mt[a] = ms[a]
    BY <2>2
  <2> QED BY <2>1, <2>2, <2>3
<1> QED BY <1>1, <1>2 DEF Complete

\* A complete conversation stays complete when a reply with all its answers
\* is added to it.
LEMMA CompleteExtends ==
    ASSUME NEW ms \in Seq(Message), NEW o \in 1 .. Len(ms), NEW k \in 1 .. MaxCalls,
           Complete(ms, o - 1), ms[o] = Assistant(k), Len(ms) = o + k,
           \A j \in 1 .. k : ms[o + j] = ToolResult(j)
    PROVE  Complete(ms, Len(ms))
<1> USE LoopAssumption
<1>1. ASSUME NEW i \in 1 .. Len(ms), ms[i].role = "assistant", NEW j \in 1 .. ms[i].calls
      PROVE  i + j \in 1 .. Len(ms) /\ ms[i + j] = ToolResult(j)
  <2>1. CASE i < o
    BY <1>1, <2>1 DEF Complete
  <2>2. CASE i = o
    BY <1>1, <2>2 DEF Assistant
  <2>3. CASE i > o
    <3>1. i - o \in 1 .. k /\ o + (i - o) = i
      BY <2>3
    <3>2. ms[i] = ToolResult(i - o)
      BY <3>1
    <3> QED BY <1>1, <3>2 DEF ToolResult
  <2> QED BY <2>1, <2>2, <2>3
<1>2. ASSUME NEW i \in 1 .. Len(ms), ms[i].role = "tool"
      PROVE  LET a == i - ms[i].answers
             IN a \in 1 .. Len(ms) /\ ms[a].role = "assistant" /\ ms[a].calls >= i - a
  <2>1. CASE i < o
    <3>1. LET a == i - ms[i].answers
          IN a \in 1 .. o - 1 /\ ms[a].role = "assistant" /\ ms[a].calls >= i - a
      BY <1>2, <2>1 DEF Complete
    <3> QED BY <3>1
  <2>2. CASE i = o
    BY <1>2, <2>2 DEF Assistant
  <2>3. CASE i > o
    <3>1. i - o \in 1 .. k /\ o + (i - o) = i
      BY <2>3
    <3>2. ms[i] = ToolResult(i - o)
      BY <3>1
    <3>3. ms[i].answers = i - o
      BY <3>2 DEF ToolResult
    <3> QED BY <3>1, <3>3 DEF Assistant
  <2> QED BY <2>1, <2>2, <2>3
<1> QED BY <1>1, <1>2 DEF Complete

-----------------------------------------------------------------------------
LEMMA InitLInv == Init => LInv
<1> SUFFICES ASSUME Init PROVE LInv
  OBVIOUS
<1>1. NoResponse \in Response
  BY DEF NoResponse, Response
<1>2. TypeOK
  <2>1. <<>> \in Seq(AuditEntry) /\ <<>> \in Seq(Message)
    OBVIOUS
  <2>2. 0 \in 0 .. MaxTurns /\ 0 \in 0 .. MaxCalls /\ 0 \in 0 .. MaxCalls + 1
    BY LoopAssumption
  <2> QED BY <1>1, <2>1, <2>2 DEF Init, TypeOK, Message, Ended
<1>3. Entered /\ Pace /\ Conversation
  BY DEF Init, Entered, Pace, Conversation, Ended
<1>4. Contents
  BY DEF Init, Contents, MadeUpAnswersStoreNothing, NoDemandForHeldData,
         SuppliedGreetingStaysShort, NoResponse
<1> QED BY <1>2, <1>3, <1>4 DEF LInv

\* A step that ends the loop with a well-typed response and leaves the rest
\* alone keeps everything but what is said of the response.
LEMMA EndKeeps ==
    ASSUME LInv, NEW how \in Ended, NEW r \in Response,
           End(how, r), UNCHANGED <<req, retried, turn, messages, batch, index, loopAudit, executed>>,
           posts' \in 0 .. MaxTurns, pc # "idle"
    PROVE  TypeOK' /\ Entered' /\ Pace' /\ Conversation'
<1>1. TypeOK'
  BY DEF LInv, End, TypeOK
<1>2. Entered'
  BY DEF LInv, Entered
<1>3. Pace' /\ Conversation'
  BY DEF End, Pace, Conversation, Ended
<1> QED BY <1>1, <1>2, <1>3

\* In the loop a request is within the budget.
LEMMA PostInBudget ==
    ASSUME LInv, Post
    PROVE  posts' \in 1 .. MaxTurns /\ posts' = turn /\ turn \in 1 .. MaxTurns
BY LoopAssumption DEF LInv, Post, TypeOK, Pace

\* What the next turn does to the pace of the loop.
LEMMA NextTurnKeeps ==
    ASSUME turn \in 1 .. MaxTurns, posts' = turn, NextTurn
    PROVE  /\ turn' \in 1 .. MaxTurns
           /\ pc' \in {"request", "exhausted"}
           /\ pc' = "request" => turn' = posts' + 1
           /\ pc' = "exhausted" => turn' = posts'
BY LoopAssumption DEF NextTurn

LEMMA StepLInv == LInv /\ [Next]_vars => LInv'
<1> SUFFICES ASSUME LInv, [Next]_vars PROVE LInv'
  OBVIOUS
<1>0. NoResponse \in Response /\ ~NoResponse.memory /\ NoResponse.source = "none"
  BY DEF NoResponse, Response
<1>1. ASSUME NEW r \in Requests, Enter(r) PROVE LInv'
  <2>1. TypeOK'
    BY <1>1 DEF Enter, LInv, TypeOK
  <2>2. Entered' /\ Pace' /\ Conversation'
    BY <1>1 DEF Enter, LInv, Entered, Pace, Conversation, Ended
  <2>3. Contents'
    BY <1>1 DEF Enter, LInv, Contents, MadeUpAnswersStoreNothing, NoDemandForHeldData,
                SuppliedGreetingStaysShort, HasContext
  <2> QED BY <2>1, <2>2, <2>3 DEF LInv
<1>2. ASSUME NEW audit \in Seq(AuditEntry), NEW r, r = FailClosed(audit), pc # "idle",
             End("answered", r), posts' \in 0 .. MaxTurns,
             UNCHANGED <<req, retried, turn, messages, batch, index, loopAudit, executed>>
      PROVE  LInv'
  <2>1. r \in Response /\ r.source = "failClosed" /\ ~r.persist /\ ~r.memory /\ r.drafts = "none"
    BY <1>2, FailClosedTyped
  <2>2. TypeOK' /\ Entered' /\ Pace' /\ Conversation'
    BY <1>2, <2>1, EndKeeps DEF Ended
  <2>3. Contents'
    BY <1>2, <2>1 DEF End, Contents, MadeUpAnswersStoreNothing, NoDemandForHeldData, SuppliedGreetingStaysShort
  <2> QED BY <2>2, <2>3 DEF LInv
<1>3. ASSUME NEW how \in {"raised", "crashed"}, pc # "idle", End(how, NoResponse), posts' \in 0 .. MaxTurns,
             UNCHANGED <<req, retried, turn, messages, batch, index, loopAudit, executed>>
      PROVE  LInv'
  <2>1. TypeOK' /\ Entered' /\ Pace' /\ Conversation'
    BY <1>0, <1>3, EndKeeps DEF Ended
  <2>2. Contents'
    BY <1>0, <1>3 DEF End, Contents, MadeUpAnswersStoreNothing, NoDemandForHeldData, SuppliedGreetingStaysShort
  <2> QED BY <2>1, <2>2 DEF LInv
<1>4. ASSUME NoTask \/ NoKey PROVE LInv'
  <2>1. <<"missing_task">> \in Seq(AuditEntry) /\ <<"missing_key">> \in Seq(AuditEntry)
    BY DEF AuditEntry
  <2>2. posts' \in 0 .. MaxTurns /\ pc # "idle"
    BY <1>4 DEF NoTask, NoKey, LInv, TypeOK
  <2> QED BY <1>2, <1>4, <2>1, <2>2 DEF NoTask, NoKey
<1>5. ASSUME GateRejects \/ ToolCrashes PROVE LInv'
  <2>1. posts' \in 0 .. MaxTurns /\ pc # "idle"
    BY <1>5 DEF GateRejects, ToolCrashes, LInv, TypeOK
  <2> QED BY <1>3, <1>5, <2>1 DEF GateRejects, ToolCrashes
<1>6. ASSUME RequestFails PROVE LInv'
  <2>1. posts' \in 0 .. MaxTurns /\ pc # "idle"
    BY <1>6, PostInBudget DEF RequestFails, Post
  <2> QED BY <1>3, <1>6, <2>1 DEF RequestFails
<1>7. ASSUME CallsNotAList PROVE LInv'
  <2>1. <<"not_list">> \in Seq(AuditEntry)
    BY DEF AuditEntry
  <2>2. posts' \in 0 .. MaxTurns /\ pc # "idle"
    BY <1>7, PostInBudget DEF CallsNotAList, Post
  <2> QED BY <1>2, <1>7, <2>1, <2>2 DEF CallsNotAList
<1>8. ASSUME StartLoop PROVE LInv'
  <2>1. TypeOK'
    BY <1>8, LoopAssumption DEF StartLoop, LInv, TypeOK, FreshMessages
  <2>2. Entered' /\ Pace'
    BY <1>8 DEF StartLoop, LInv, Entered, Pace, Ended
  <2>3. Conversation'
    BY <1>8 DEF StartLoop, Conversation, Complete, FreshMessages
  <2>4. Contents'
    BY <1>8 DEF StartLoop, LInv, Contents, MadeUpAnswersStoreNothing, NoDemandForHeldData,
                SuppliedGreetingStaysShort
  <2> QED BY <2>1, <2>2, <2>3, <2>4 DEF LInv
<1>9. ASSUME NEW a \in Answers, FinalAnswer(a) PROVE LInv'
  <2> DEFINE g == Guarded(FromModel(a), a.long, a.hedged)
             r == [g EXCEPT !.audit = @ \o loopAudit \o <<"ok_turns">>]
  <2>1. a \in Answer /\ a.long \in BOOLEAN /\ a.hedged \in BOOLEAN
    BY LoopAssumption DEF Answer
  <2>2. FromModel(a) \in Response /\ FromModel(a).source = "model" /\ ~FromModel(a).memory
        /\ FromModel(a).asks = a.asks
    BY <2>1, FromModelTyped
  <2>3. g \in Response /\ g.source = "model" /\ ~g.memory /\ (g.asks => a.asks)
    BY <2>1, <2>2, GuardedTyped
  <2>4. g.audit \o loopAudit \o <<"ok_turns">> \in Seq(AuditEntry)
    BY <2>3 DEF LInv, TypeOK, Response, AuditEntry
  <2>5. r \in Response /\ r.source = "model" /\ ~r.memory /\ r.asks = g.asks
        /\ r.reveals = g.reveals /\ r.persist = g.persist /\ r.drafts = g.drafts
    BY <2>3, <2>4 DEF Response
  <2>6. posts' \in 0 .. MaxTurns /\ pc # "idle" /\ End("answered", r)
    BY <1>9, PostInBudget DEF FinalAnswer, Post
  <2>7. TypeOK' /\ Entered' /\ Pace' /\ Conversation'
    BY <1>9, <2>5, <2>6, EndKeeps DEF FinalAnswer, Ended
  <2>8. MadeUpAnswersStoreNothing'
    BY <2>5, <2>6 DEF End, MadeUpAnswersStoreNothing
  <2>9. NoDemandForHeldData'
    BY <1>9, <2>3, <2>5, <2>6 DEF End, FinalAnswer, WronglyMissing, HasContext, NoDemandForHeldData
  <2>10. SuppliedGreetingStaysShort'
    <3>1. ASSUME req.intent = "casual", req.supplied # {}
          PROVE  r.reveals = "nothing" /\ ~r.persist /\ r.drafts = "none"
      BY <2>2, <2>5, <3>1, CasualGuarded DEF Intent
    <3> QED BY <1>9, <2>6, <3>1 DEF End, FinalAnswer, SuppliedGreetingStaysShort
  <2> QED BY <2>6, <2>7, <2>8, <2>9, <2>10 DEF LInv, Contents, End
<1>10. ASSUME NEW a \in Answers, RetryWithFacts(a) PROVE LInv'
  <2>1. posts' \in 1 .. MaxTurns /\ posts' = turn /\ turn \in 1 .. MaxTurns
    BY <1>10, PostInBudget DEF RetryWithFacts
  <2>2. /\ turn' \in 1 .. MaxTurns /\ pc' \in {"request", "exhausted"}
        /\ pc' = "request" => turn' = posts' + 1
        /\ pc' = "exhausted" => turn' = posts'
    BY <1>10, <2>1, NextTurnKeeps DEF RetryWithFacts
  <2>3. loopAudit' \in Seq(AuditEntry)
    BY <1>10 DEF RetryWithFacts, LInv, TypeOK, AuditEntry
  <2>4. TypeOK'
    BY <1>10, <2>1, <2>2, <2>3 DEF RetryWithFacts, LInv, TypeOK, FreshMessages
  <2>5. Entered' /\ Pace'
    BY <1>10, <2>2 DEF RetryWithFacts, Post, LInv, Entered, Pace, Ended
  <2>6. Conversation'
    BY <1>10, <2>2 DEF RetryWithFacts, Conversation, Complete, FreshMessages
  <2>7. Contents'
    BY <1>10, <2>2 DEF RetryWithFacts, Post, LInv, Contents, MadeUpAnswersStoreNothing,
                       NoDemandForHeldData, SuppliedGreetingStaysShort
  <2> QED BY <2>4, <2>5, <2>6, <2>7 DEF LInv
<1>11. ASSUME NEW r \in Response, pc # "idle", End("answered", r), posts' \in 0 .. MaxTurns,
              UNCHANGED <<req, retried, turn, messages, batch, index, loopAudit, executed>>,
              r.source = IF HasContext THEN "fallback" ELSE "failClosed",
              r.source = "fallback" => ~r.asks,
              ~r.persist, ~r.memory, r.drafts = "none",
              HasContext /\ Intent = "casual" => r.reveals = "nothing"
       PROVE  LInv'
  <2>1. TypeOK' /\ Entered' /\ Pace' /\ Conversation'
    BY <1>11, EndKeeps DEF Ended
  <2>2. MadeUpAnswersStoreNothing' /\ NoDemandForHeldData'
    BY <1>11 DEF End, MadeUpAnswersStoreNothing, NoDemandForHeldData
  <2>3. SuppliedGreetingStaysShort'
    BY <1>11 DEF End, SuppliedGreetingStaysShort, Intent
  <2> QED BY <1>11, <2>1, <2>2, <2>3 DEF LInv, Contents, End
<1>12. ASSUME NEW a \in Answers, AnswerWithFacts(a) PROVE LInv'
  <2> DEFINE f == Fallback(FromModel(a))
  <2>1. FromModel(a) \in Response
    BY LoopAssumption, FromModelTyped
  <2>2. /\ f \in Response /\ f.source = "fallback"
        /\ ~f.asks /\ ~f.persist /\ ~f.memory /\ f.drafts = "none"
    BY <2>1, FallbackTyped DEF LInv, TypeOK
  <2>3. /\ GuardedFallback(FromModel(a)) \in Response
        /\ GuardedFallback(FromModel(a)).source = "fallback"
        /\ ~GuardedFallback(FromModel(a)).asks /\ ~GuardedFallback(FromModel(a)).persist
        /\ ~GuardedFallback(FromModel(a)).memory /\ GuardedFallback(FromModel(a)).drafts = "none"
    BY <2>2, GuardedTyped DEF GuardedFallback
  <2>4. Intent = "casual" => GuardedFallback(FromModel(a)).reveals = "nothing"
    BY <2>2, CasualGuarded DEF GuardedFallback
  <2>5. posts' \in 0 .. MaxTurns /\ pc # "idle" /\ HasContext
    BY <1>12, PostInBudget DEF AnswerWithFacts, Post, WronglyMissing
  <2> QED BY <1>11, <1>12, <2>3, <2>4, <2>5 DEF AnswerWithFacts
<1>13. ASSUME ToolRejected \/ Exhausted PROVE LInv'
  <2>1. posts' \in 0 .. MaxTurns /\ pc # "idle" /\ loopAudit \in Seq(AuditEntry)
    BY <1>13 DEF ToolRejected, Exhausted, LInv, TypeOK
  <2>2. "rejected" \in AuditEntry /\ "max_turns" \in AuditEntry
    BY DEF AuditEntry
  <2>3. PICK s \in AuditEntry : End("answered", Closing(s))
    BY <1>13, <2>2 DEF ToolRejected, Exhausted
  <2>4. /\ Closing(s) \in Response
        /\ Closing(s).source = IF HasContext THEN "fallback" ELSE "failClosed"
        /\ Closing(s).source = "fallback" => ~Closing(s).asks
        /\ ~Closing(s).persist /\ ~Closing(s).memory /\ Closing(s).drafts = "none"
        /\ HasContext /\ Intent = "casual" => Closing(s).reveals = "nothing"
    BY <2>1, ClosingTyped
  <2>5. UNCHANGED <<req, retried, turn, messages, batch, index, loopAudit, executed>>
    BY <1>13 DEF ToolRejected, Exhausted
  <2> QED BY <1>11, <2>1, <2>3, <2>4, <2>5
<1>14. ASSUME NEW k \in 1 .. MaxCalls, CallTools(k) PROVE LInv'
  <2>1. posts' \in 1 .. MaxTurns /\ posts' = turn
    BY <1>14, PostInBudget DEF CallTools
  <2>2. messages \in Seq(Message) /\ Assistant(k) \in Message
    BY <1>14 DEF LInv, TypeOK, Message
  <2>3. /\ messages' \in Seq(Message)
        /\ Len(messages') = Len(messages) + 1
        /\ messages'[Len(messages) + 1] = Assistant(k)
        /\ \A i \in 1 .. Len(messages) : messages'[i] = messages[i]
        /\ DOMAIN messages' = 1 .. Len(messages) + 1
        /\ Len(messages) \in Nat
    BY <1>14, <2>2 DEF CallTools
  <2>4. TypeOK'
    BY <1>14, <2>1, <2>3, LoopAssumption DEF CallTools, LInv, TypeOK, Message
  <2>5. Entered' /\ Pace'
    BY <1>14, <2>1 DEF CallTools, Post, LInv, Entered, Pace, Ended
  <2>6. Complete(messages, Len(messages))
    BY <1>14 DEF CallTools, Post, LInv, Conversation
  <2>7. Complete(messages', Len(messages))
    BY <2>3, <2>6, CompletePrefix
  <2>8. Conversation'
    BY <1>14, <2>3, <2>7, LoopAssumption DEF CallTools, Conversation, Opens
  <2>9. Contents'
    BY <1>14 DEF CallTools, Post, LInv, Contents, MadeUpAnswersStoreNothing,
                 NoDemandForHeldData, SuppliedGreetingStaysShort
  <2> QED BY <2>4, <2>5, <2>8, <2>9 DEF LInv
<1>15. ASSUME ToolAnswers PROVE LInv'
  <2> DEFINE n == Len(messages)
             o == n - index + 1
  <2>1. /\ pc = "dispatch" /\ posts' = turn /\ turn \in 1 .. MaxTurns
        /\ batch \in 1 .. MaxCalls /\ index \in 1 .. batch
        /\ Opens(o) /\ Complete(messages, o - 1)
    <3>1. pc = "dispatch" /\ turn = posts /\ posts' = posts
      BY <1>15 DEF ToolAnswers, LInv, Pace
    <3>2. turn \in 1 .. MaxTurns
      BY <3>1 DEF LInv, TypeOK, Pace
    <3> QED BY <3>1, <3>2 DEF LInv, Conversation
  <2>2. messages \in Seq(Message) /\ ToolResult(index) \in Message
    BY <2>1, LoopAssumption DEF LInv, TypeOK, Message
  <2>3. /\ messages' \in Seq(Message)
        /\ Len(messages') = n + 1
        /\ messages'[n + 1] = ToolResult(index)
        /\ \A i \in 1 .. n : messages'[i] = messages[i]
        /\ DOMAIN messages = 1 .. n
        /\ DOMAIN messages' = 1 .. n + 1
        /\ n \in Nat
    BY <1>15, <2>2 DEF ToolAnswers
  <2>4. /\ o \in 1 .. n
        /\ messages'[o] = Assistant(batch)
        /\ n + 1 = o + index
        /\ \A j \in 1 .. index : messages'[o + j] = ToolResult(j)
    <3>1. o \in 1 .. n /\ messages[o] = Assistant(batch) /\ \A j \in 1 .. index - 1 : messages[o + j] = ToolResult(j)
      BY <2>1, <2>3 DEF Opens
    <3>2. n + 1 = o + index
      BY <2>1, <2>3
    <3>3. ASSUME NEW j \in 1 .. index PROVE messages'[o + j] = ToolResult(j)
      <4>1. CASE j = index
        BY <2>3, <3>2, <4>1
      <4>2. CASE j # index
        <5>1. j \in 1 .. index - 1 /\ o + j \in 1 .. n
          BY <2>1, <2>3, <3>1, <3>2, <4>2
        <5> QED BY <2>3, <3>1, <5>1
      <4> QED BY <4>1, <4>2
    <3> QED BY <2>3, <3>1, <3>2, <3>3
  <2>5. Complete(messages', o - 1)
    <3>1. o - 1 \in Int /\ \A i \in 1 .. o - 1 : messages'[i] = messages[i]
      BY <2>3, <2>4
    <3> QED BY <2>1, <3>1, CompletePrefix
  <2>6. CASE index = batch
    <3>1. /\ turn' \in 1 .. MaxTurns /\ pc' \in {"request", "exhausted"}
          /\ pc' = "request" => turn' = posts' + 1
          /\ pc' = "exhausted" => turn' = posts'
      BY <1>15, <2>1, <2>6, NextTurnKeeps DEF ToolAnswers
    <3>2. TypeOK'
      BY <1>15, <2>1, <2>3, <2>6, <3>1, LoopAssumption DEF ToolAnswers, LInv, TypeOK, Message, AuditEntry
    <3>3. Entered' /\ Pace'
      BY <1>15, <2>1, <3>1 DEF ToolAnswers, LInv, Entered, Pace, Ended
    <3>4. Complete(messages', n + 1)
      <4>1. o \in 1 .. Len(messages') /\ Len(messages') = o + batch
        BY <2>3, <2>4, <2>6
      <4>2. \A j \in 1 .. batch : messages'[o + j] = ToolResult(j)
        BY <2>4, <2>6
      <4>3. messages' \in Seq(Message) /\ batch \in 1 .. MaxCalls /\ messages'[o] = Assistant(batch)
        BY <2>1, <2>3, <2>4
      <4>4. Complete(messages', Len(messages'))
        BY <2>5, <4>1, <4>2, <4>3, CompleteExtends
      <4> QED BY <2>3, <4>4
    <3>5. Conversation'
      BY <2>3, <3>1, <3>4 DEF Conversation
    <3>6. Contents'
      BY <1>15, <2>1, <3>1 DEF ToolAnswers, LInv, Contents, MadeUpAnswersStoreNothing,
                               NoDemandForHeldData, SuppliedGreetingStaysShort
    <3> QED BY <3>2, <3>3, <3>5, <3>6 DEF LInv
  <2>7. CASE index # batch
    <3>1. pc' = "dispatch" /\ turn' = turn /\ index' = index + 1 /\ batch' = batch /\ index' \in 1 .. batch'
      BY <1>15, <2>1, <2>7, LoopAssumption DEF ToolAnswers
    <3>2. TypeOK'
      BY <1>15, <2>1, <2>3, <3>1, LoopAssumption DEF ToolAnswers, LInv, TypeOK, Message, AuditEntry
    <3>3. Entered' /\ Pace'
      BY <1>15, <2>1, <3>1 DEF ToolAnswers, LInv, Entered, Pace, Ended
    <3>4. Conversation'
      <4>1. Len(messages') - index' + 1 = o /\ Len(messages') - index' = o - 1
        BY <2>1, <2>3, <2>4, <3>1
      <4>2. Opens(o)'
        BY <2>1, <2>3, <2>4, <3>1 DEF Opens
      <4> QED BY <2>1, <2>5, <3>1, <4>1, <4>2 DEF Conversation
    <3>5. Contents'
      BY <1>15, <2>1, <3>1 DEF ToolAnswers, LInv, Contents, MadeUpAnswersStoreNothing,
                               NoDemandForHeldData, SuppliedGreetingStaysShort
    <3> QED BY <3>2, <3>3, <3>4, <3>5 DEF LInv
  <2> QED BY <2>6, <2>7
<1>16. ASSUME Reset PROVE LInv'
  <2>1. TypeOK'
    <3>1. <<>> \in Seq(AuditEntry) /\ <<>> \in Seq(Message)
      OBVIOUS
    <3>2. 0 \in 0 .. MaxTurns /\ 0 \in 0 .. MaxCalls /\ 0 \in 0 .. MaxCalls + 1
      BY LoopAssumption
    <3> QED BY <1>0, <1>16, <3>1, <3>2 DEF Reset, TypeOK, Message, Ended
  <2>2. Entered' /\ Pace' /\ Conversation'
    BY <1>16 DEF Reset, Entered, Pace, Conversation, Ended
  <2>3. Contents'
    BY <1>0, <1>16 DEF Reset, Contents, MadeUpAnswersStoreNothing, NoDemandForHeldData,
                       SuppliedGreetingStaysShort
  <2> QED BY <2>1, <2>2, <2>3 DEF LInv
<1>17. CASE UNCHANGED vars
  BY <1>17 DEF vars, LInv, TypeOK, Entered, Pace, Conversation, Contents, Opens, Complete,
               MadeUpAnswersStoreNothing, NoDemandForHeldData, SuppliedGreetingStaysShort, HasContext
<1> QED BY <1>1, <1>4, <1>5, <1>6, <1>7, <1>8, <1>9, <1>10, <1>12, <1>13, <1>14, <1>15, <1>16, <1>17
        DEF Next, Gate, Reply, Dispatch, Leave, Die

\* The inductive invariant holds in every state of the loop.
THEOREM LoopInductive == Spec => []LInv
BY InitLInv, StepLInv, PTL DEF Spec

\* The loop's variables keep their types, at most MaxTurns requests included.
THEOREM LoopTypeCorrect == Spec => []TypeOK
<1>1. LInv => TypeOK
  BY DEF LInv
<1> QED BY <1>1, LoopInductive, PTL

\* The retry and the tool turns share one budget of MaxTurns requests.
THEOREM Bounded == Spec => []RequestsBounded
<1>1. LInv => RequestsBounded
  BY LoopAssumption DEF LInv, TypeOK, Pace, RequestsBounded
<1> QED BY <1>1, LoopInductive, PTL

\* No request of the loop carries an unanswered or an orphaned tool call.
THEOREM WellFormed == Spec => []ConversationWellFormed
<1>1. LInv => ConversationWellFormed
  <2>1. LInv => messages \in Seq(Message)
    BY DEF LInv, TypeOK, Message
  <2>2. LInv => DOMAIN messages = 1 .. Len(messages)
    BY <2>1
  <2> QED BY <2>2 DEF LInv, Conversation, Complete, ConversationWellFormed
<1> QED BY <1>1, LoopInductive, PTL

\* Data the package holds is never asked of the user again.
THEOREM NeverAsksForHeldData == Spec => []NoDemandForHeldData
<1>1. LInv => NoDemandForHeldData
  BY DEF LInv, Contents
<1> QED BY <1>1, LoopInductive, PTL

\* Fail-closed and fallback answers store nothing, and no answer stores memory.
THEOREM StoresNothing == Spec => []MadeUpAnswersStoreNothing
<1>1. LInv => MadeUpAnswersStoreNothing
  BY DEF LInv, Contents
<1> QED BY <1>1, LoopInductive, PTL

\* A greeting the backend supplied is answered briefly on every path.
THEOREM SuppliedGreeting == Spec => []SuppliedGreetingStaysShort
<1>1. LInv => SuppliedGreetingStaysShort
  BY DEF LInv, Contents
<1> QED BY <1>1, LoopInductive, PTL

\* The conversation stays answerable and within its budget.
THEOREM ConversationIsSound == Spec => []ConversationSound
BY LoopTypeCorrect, WellFormed, Bounded, PTL DEF ConversationSound

\* No answer contains what it must not.
THEOREM AnswersAreSound == Spec => []AnswersSound
BY NeverAsksForHeldData, StoresNothing, SuppliedGreeting, PTL DEF AnswersSound

-----------------------------------------------------------------------------
(* The audit.                                                              *)

\* An audit is a log: what two of them joined list is what each lists.
LEMMA OccurrencesOfBoth ==
    ASSUME NEW s \in Seq(AuditEntry), NEW t \in Seq(AuditEntry), NEW what
    PROVE  /\ Occurrences(what, s) \in Nat
           /\ Occurrences(what, s \o t) = Occurrences(what, s) + Occurrences(what, t)
<1> DEFINE n == Len(s)
           A == {i \in DOMAIN s : s[i] = what}
           B == {i \in DOMAIN t : t[i] = what}
           C == {i \in DOMAIN (s \o t) : (s \o t)[i] = what}
           D == {i \in n + 1 .. n + Len(t) : (s \o t)[i] = what}
           f == [i \in B |-> n + i]
<1>1. n \in Nat /\ Len(t) \in Nat /\ DOMAIN s = 1 .. n /\ DOMAIN t = 1 .. Len(t) /\ DOMAIN (s \o t) = 1 .. n + Len(t)
  BY ConcatProperties
<1>2. \A i \in 1 .. n + Len(t) : (s \o t)[i] = IF i <= n THEN s[i] ELSE t[i - n]
  BY ConcatProperties
<1> HIDE DEF n
<1>3. A \subseteq 1 .. n /\ B \subseteq 1 .. Len(t)
  BY <1>1
<1>4. IsFiniteSet(A) /\ IsFiniteSet(B)
  <2>1. IsFiniteSet(1 .. n) /\ IsFiniteSet(1 .. Len(t))
    BY <1>1, FS_Interval
  <2> HIDE DEF A, B
  <2>2. A \in SUBSET (1 .. n) /\ B \in SUBSET (1 .. Len(t))
    BY <1>3
  <2> QED BY <2>1, <2>2, FS_Subset
<1>5. C = A \cup D /\ A \cap D = {}
  BY <1>1, <1>2
<1>6. f \in Bijection(B, D)
  <2>1. ASSUME NEW i \in B PROVE f[i] \in D
    BY <1>1, <1>2
  <2>2. ASSUME NEW k \in D PROVE \E i \in B : f[i] = k
    <3>1. k - n \in B /\ n + (k - n) = k
      BY <1>1, <1>2
    <3> QED BY <3>1
  <2>3. \A i, k \in B : f[i] = f[k] => i = k
    BY <1>1, <1>3
  <2>4. f \in [B -> D]
    BY <2>1
  <2> HIDE DEF f, B, D
  <2> QED BY <2>2, <2>3, <2>4 DEF Bijection, Injection, Surjection, IsInjective
<1> HIDE DEF A, B, C, D, f
<1>7. IsFiniteSet(D) /\ Cardinality(D) = Cardinality(B)
  BY <1>4, <1>6, FS_Bijection DEF ExistsBijection
<1>8. Cardinality(C) = Cardinality(A) + Cardinality(D) - Cardinality({})
  BY <1>4, <1>5, <1>7, FS_Union
<1>9. Cardinality(A) \in Nat /\ Cardinality(D) \in Nat /\ Cardinality({}) = 0
  BY <1>4, <1>7, FS_CardinalityType, FS_EmptySet
<1>10. Cardinality(C) = Cardinality(A) + Cardinality(B)
  BY <1>7, <1>8, <1>9
<1> QED BY <1>9, <1>10 DEF A, B, C, Occurrences

LEMMA OccurrencesOfOne ==
    ASSUME NEW e \in AuditEntry, NEW what
    PROVE  Occurrences(what, <<e>>) = IF e = what THEN 1 ELSE 0
<1>1. DOMAIN <<e>> = {1} /\ <<e>>[1] = e
  OBVIOUS
<1>2. CASE e = what
  <2>1. {i \in DOMAIN <<e>> : <<e>>[i] = what} = {1}
    BY <1>1, <1>2
  <2> QED BY <1>2, <2>1, FS_Singleton DEF Occurrences
<1>3. CASE e # what
  <2>1. {i \in DOMAIN <<e>> : <<e>>[i] = what} = {}
    BY <1>1, <1>3
  <2> QED BY <1>3, <2>1, FS_EmptySet DEF Occurrences
<1> QED BY <1>2, <1>3

LEMMA OccurrencesOfNone == ASSUME NEW what PROVE Occurrences(what, <<>>) = 0
<1>1. {i \in DOMAIN <<>> : <<>>[i] = what} = {}
  OBVIOUS
<1> QED BY <1>1, FS_EmptySet DEF Occurrences

LEMMA OneMoreEntry ==
    ASSUME NEW s \in Seq(AuditEntry), NEW e \in AuditEntry
    PROVE  /\ Append(s, e) \in Seq(AuditEntry)
           /\ Occurrences("tool", Append(s, e)) = Occurrences("tool", s) + (IF e = "tool" THEN 1 ELSE 0)
<1>1. Append(s, e) = s \o <<e>> /\ <<e>> \in Seq(AuditEntry) /\ Append(s, e) \in Seq(AuditEntry)
  OBVIOUS
<1>2. Occurrences("tool", s \o <<e>>) = Occurrences("tool", s) + Occurrences("tool", <<e>>)
  BY <1>1, OccurrencesOfBoth
<1>3. Occurrences("tool", <<e>>) = IF e = "tool" THEN 1 ELSE 0
  BY OccurrencesOfOne
<1> QED BY <1>1, <1>2, <1>3

Tools(audit) == Occurrences("tool", audit)

\* The guardrails note what they do, and call no tool.
LEMMA GuardedAudit ==
    ASSUME NEW r \in Response, NEW long \in BOOLEAN, NEW hedged \in BOOLEAN
    PROVE  Tools(Guarded(r, long, hedged).audit) = Tools(r.audit)
<1>1. r.audit \in Seq(AuditEntry) /\ {"compact_sparse", "owner_boundary", "guardrail"} \subseteq AuditEntry
  BY DEF Response, AuditEntry
<1>2. \A e \in {"compact_sparse", "owner_boundary", "guardrail"} : Tools(Append(r.audit, e)) = Tools(r.audit)
  <2>1. ASSUME NEW e \in {"compact_sparse", "owner_boundary", "guardrail"}
        PROVE  Tools(Append(r.audit, e)) = Tools(r.audit)
    <3>1. e \in AuditEntry /\ e # "tool"
      BY <1>1
    <3>2. Occurrences("tool", Append(r.audit, e)) = Occurrences("tool", r.audit) + 0
      BY <1>1, <3>1, OneMoreEntry
    <3>3. Occurrences("tool", r.audit) \in Nat
      BY <1>1, OccurrencesOfBoth
    <3> QED BY <3>2, <3>3 DEF Tools
  <2> QED BY <2>1
<1>3. Compacted(r).audit = Append(r.audit, "compact_sparse")
  BY DEF Compacted, Response
<1>4. Prefixed(r).audit = Append(r.audit, "owner_boundary")
  BY DEF Prefixed, Response
<1>5. Silenced(r).audit = Append(r.audit, "guardrail")
  BY DEF Silenced, NoResponse
<1>6. Guarded(r, long, hedged) \in {Compacted(r), Prefixed(r), Silenced(r), r}
  BY DEF Guarded, Prefixes
<1> DEFINE g == Guarded(r, long, hedged)
<1>7. g = Compacted(r) \/ g = Prefixed(r) \/ g = Silenced(r) \/ g = r
  BY <1>6
<1> HIDE DEF g
<1>8. g.audit \in {Append(r.audit, e) : e \in {"compact_sparse", "owner_boundary", "guardrail"}} \cup {r.audit}
  BY <1>3, <1>4, <1>5, <1>7
<1>9. Tools(g.audit) = Tools(r.audit)
  BY <1>2, <1>8
<1> QED BY <1>9 DEF g

\* The loop's own audit lists every call that was carried out; so then does the
\* answer, next to what the model claims, and that of a fallback perhaps twice.
Audited ==
    /\ Tools(loopAudit) = executed
    /\ AuditAccountsForTools

\* What a fallback is made of: the loop's audit, and that of the answer it
\* replaces.
LEMMA FallbackAudit ==
    ASSUME NEW p \in Response, loopAudit \in Seq(AuditEntry)
    PROVE  Tools(Fallback(p).audit) = Tools(loopAudit) + Tools(p.audit)
<1> DEFINE end == <<"ok_context_fallback", "after_retry">>
<1>1. p.audit \in Seq(AuditEntry) /\ {"ok_context_fallback", "after_retry"} \subseteq AuditEntry
  BY DEF Response, AuditEntry
<1>2. end = Append(<<"ok_context_fallback">>, "after_retry") /\ <<"ok_context_fallback">> \in Seq(AuditEntry)
  BY <1>1
<1>3. end \in Seq(AuditEntry) /\ Tools(end) = 0
  <2>1. Occurrences("tool", <<"ok_context_fallback">>) = 0
    BY <1>1, OccurrencesOfOne
  <2>2. Occurrences("tool", Append(<<"ok_context_fallback">>, "after_retry")) = 0 + 0
    BY <1>1, <1>2, <2>1, OneMoreEntry
  <2>3. end \in Seq(AuditEntry)
    BY <1>1
  <2>4. Tools(end) = 0 + 0
    BY <1>2, <2>2 DEF Tools
  <2> QED BY <2>3, <2>4
<1> HIDE DEF end
<1>4. p.audit \o end \in Seq(AuditEntry)
  BY <1>1, <1>3
<1>5. Tools(p.audit \o end) = Tools(p.audit) + Tools(end)
  BY <1>1, <1>3, OccurrencesOfBoth DEF Tools
<1>6. Tools(loopAudit \o (p.audit \o end)) = Tools(loopAudit) + Tools(p.audit \o end)
  BY <1>4, OccurrencesOfBoth DEF Tools
<1>7. Fallback(p).audit = (loopAudit \o p.audit) \o end
  BY DEF Fallback, NoResponse, end
<1>8. (loopAudit \o p.audit) \o end = loopAudit \o (p.audit \o end)
  <2>1. \A x, y, z \in Seq(AuditEntry) : (x \o y) \o z = x \o (y \o z)
    BY ConcatAssociative
  <2> QED BY <1>1, <1>3, <2>1
<1>9. Tools(p.audit) \in Nat
  BY <1>1, OccurrencesOfBoth DEF Tools
<1> QED BY <1>3, <1>5, <1>6, <1>7, <1>8, <1>9

LEMMA FallbackNamesTools ==
    ASSUME NEW p \in Response, loopAudit \in Seq(AuditEntry), Tools(loopAudit) = executed
    PROVE  Tools(GuardedFallback(p).audit) >= executed
<1>1. Fallback(p) \in Response
  BY FallbackTyped
<1>2. Tools(GuardedFallback(p).audit) = Tools(loopAudit) + Tools(p.audit)
  BY <1>1, GuardedAudit, FallbackAudit DEF GuardedFallback
<1>3. Tools(loopAudit) \in Nat /\ Tools(p.audit) \in Nat
  BY OccurrencesOfBoth DEF Tools, Response
<1> QED BY <1>2, <1>3

\* A final answer of the model.
LEMMA AnswerNamesTools ==
    ASSUME NEW a \in Answer, loopAudit \in Seq(AuditEntry), Tools(loopAudit) = executed
    PROVE  Tools(Guarded(FromModel(a), a.long, a.hedged).audit \o loopAudit \o <<"ok_turns">>) >= executed
<1> DEFINE g == Guarded(FromModel(a), a.long, a.hedged).audit
<1>1. FromModel(a) \in Response /\ a.long \in BOOLEAN /\ a.hedged \in BOOLEAN
  BY FromModelTyped DEF Answer
<1>2. "ok_turns" \in AuditEntry
  BY DEF AuditEntry
<1>4. g \in Seq(AuditEntry)
  BY <1>1, GuardedTyped DEF Response
<1> HIDE DEF g
<1>3. Tools(g) \in Nat
  BY <1>4, OccurrencesOfBoth DEF Tools
<1>5. g \o loopAudit \in Seq(AuditEntry) /\ Tools(g \o loopAudit) = Tools(g) + Tools(loopAudit)
  BY <1>4, OccurrencesOfBoth DEF Tools
<1>6. Tools(<<"ok_turns">>) = 0 /\ <<"ok_turns">> \in Seq(AuditEntry)
  BY <1>2, OccurrencesOfOne DEF Tools
<1>7. Tools((g \o loopAudit) \o <<"ok_turns">>) = Tools(g \o loopAudit) + Tools(<<"ok_turns">>)
  BY <1>5, <1>6, OccurrencesOfBoth DEF Tools
<1>8. Tools(loopAudit) \in Nat
  BY OccurrencesOfBoth DEF Tools
<1>9. Tools((g \o loopAudit) \o <<"ok_turns">>) >= executed
  BY <1>3, <1>5, <1>6, <1>7, <1>8
<1> QED BY <1>9 DEF g

LEMMA InitAudited == Init => Audited
  BY OccurrencesOfNone DEF Init, Audited, Tools, AuditAccountsForTools

LEMMA StepAudited == LInv /\ Audited /\ [Next]_vars => Audited'
<1> SUFFICES ASSUME LInv, Audited, [Next]_vars PROVE Audited'
  OBVIOUS
<1>1. /\ loopAudit \in Seq(AuditEntry) /\ Tools(loopAudit) = executed /\ executed \in Nat
      /\ {"tool", "retry", "rejected", "max_turns"} \subseteq AuditEntry
  BY DEF LInv, TypeOK, Audited, AuditEntry
\* Steps that leave the loop's audit, and no answer built on tools.
<1>2. ASSUME UNCHANGED <<loopAudit, executed>>,
             pc' # "answered" \/ response'.source \notin {"model", "fallback"}
      PROVE  Audited'
  BY <1>1, <1>2 DEF Audited, AuditAccountsForTools, Tools, Occurrences
<1>3. ASSUME UNCHANGED <<loopAudit, executed>>, NEW p \in Response, response' = GuardedFallback(p)
      PROVE  Audited'
  <2>1. Tools(GuardedFallback(p).audit) >= executed
    BY <1>1, FallbackNamesTools
  <2>2. GuardedFallback(p).source = "fallback"
    <3>1. Fallback(p) \in Response /\ Fallback(p).source = "fallback"
      BY <1>1, FallbackTyped
    <3>2. Guarded(Fallback(p), TRUE, TRUE).source = Fallback(p).source
      BY <3>1, GuardedTyped
    <3> QED BY <3>1, <3>2 DEF GuardedFallback
  <2> QED BY <1>1, <1>3, <2>1, <2>2 DEF Audited, AuditAccountsForTools, Tools, Occurrences
<1>4. ASSUME NEW r \in Requests, Enter(r) PROVE Audited'
  BY <1>2, <1>4 DEF Enter
<1>5. ASSUME NoTask \/ GateRejects \/ NoKey \/ StartLoop \/ RequestFails \/ CallsNotAList \/ ToolCrashes
      PROVE  Audited'
  <2>1. FailClosed(<<"missing_task">>).source = "failClosed" /\ FailClosed(<<"missing_key">>).source = "failClosed"
        /\ FailClosed(<<"not_list">>).source = "failClosed" /\ NoResponse.source = "none"
    BY DEF FailClosed, NoResponse
  <2> QED BY <1>2, <1>5, <2>1
          DEF NoTask, GateRejects, NoKey, StartLoop, RequestFails, CallsNotAList, ToolCrashes, End
<1>6. ASSUME NEW a \in Answers, FinalAnswer(a) PROVE Audited'
  <2>1. a \in Answer
    BY LoopAssumption
  <2> DEFINE g == Guarded(FromModel(a), a.long, a.hedged)
  <2>2. g \in Response /\ g.source = "model"
    <3>1. FromModel(a) \in Response /\ FromModel(a).source = "model" /\ a.long \in BOOLEAN /\ a.hedged \in BOOLEAN
      BY <2>1, FromModelTyped DEF Answer
    <3>2. g \in Response /\ g.source = FromModel(a).source
      BY <3>1, GuardedTyped
    <3> QED BY <3>1, <3>2
  <2>3. response' = [g EXCEPT !.audit = g.audit \o loopAudit \o <<"ok_turns">>] /\ UNCHANGED <<loopAudit, executed>>
    BY <1>6 DEF FinalAnswer, End
  <2> HIDE DEF g
  <2>4. response'.source = "model" /\ response'.audit = g.audit \o loopAudit \o <<"ok_turns">>
    BY <2>2, <2>3 DEF Response
  <2>5. Tools(g.audit \o loopAudit \o <<"ok_turns">>) >= executed
    BY <1>1, <2>1, AnswerNamesTools DEF g
  <2> QED BY <1>1, <2>3, <2>4, <2>5 DEF Audited, AuditAccountsForTools, Tools, Occurrences
<1>7. ASSUME NEW a \in Answers, RetryWithFacts(a) PROVE Audited'
  <2>1. loopAudit' = Append(loopAudit, "retry") /\ executed' = executed /\ pc' # "answered"
    BY <1>7 DEF RetryWithFacts, NextTurn
  <2>2. Occurrences("tool", Append(loopAudit, "retry")) = Occurrences("tool", loopAudit) + 0
    BY <1>1, OneMoreEntry
  <2> QED BY <1>1, <2>1, <2>2 DEF Audited, AuditAccountsForTools, Tools
<1>8. ASSUME NEW a \in Answers, AnswerWithFacts(a) PROVE Audited'
  <2>1. FromModel(a) \in Response
    BY LoopAssumption, FromModelTyped
  <2> QED BY <1>3, <1>8, <2>1 DEF AnswerWithFacts, End
<1>9. ASSUME NEW k \in 1 .. MaxCalls, CallTools(k) PROVE Audited'
  BY <1>2, <1>9 DEF CallTools
<1>10. ASSUME ToolAnswers PROVE Audited'
  <2>1. loopAudit' = Append(loopAudit, "tool") /\ executed' = executed + 1 /\ pc' # "answered"
    BY <1>10 DEF ToolAnswers, NextTurn
  <2>2. Occurrences("tool", Append(loopAudit, "tool")) = Occurrences("tool", loopAudit) + 1
    BY <1>1, OneMoreEntry
  <2> QED BY <1>1, <2>1, <2>2 DEF Audited, AuditAccountsForTools, Tools
<1>11. ASSUME ToolRejected \/ Exhausted PROVE Audited'
  <2>1. PICK s \in AuditEntry : End("answered", Closing(s))
    BY <1>1, <1>11 DEF ToolRejected, Exhausted
  <2> DEFINE closed == FailClosed(<<s>> \o loopAudit)
  <2>2. <<s>> \o loopAudit \in Seq(AuditEntry)
    BY <1>1
  <2>3. closed \in Response /\ closed.source = "failClosed"
    BY <2>2, FailClosedTyped
  <2>4. UNCHANGED <<loopAudit, executed>>
    BY <1>11 DEF ToolRejected, Exhausted
  <2> HIDE DEF closed
  <2>5. response' = IF HasContext THEN GuardedFallback(closed) ELSE closed
    BY <2>1 DEF End, Closing, closed
  <2> QED BY <1>2, <1>3, <2>3, <2>4, <2>5
<1>12. ASSUME Reset PROVE Audited'
  BY <1>12, OccurrencesOfNone DEF Reset, Audited, Tools, AuditAccountsForTools
<1>13. CASE UNCHANGED vars
  BY <1>13 DEF vars, Audited, Tools, AuditAccountsForTools
<1> QED BY <1>4, <1>5, <1>6, <1>7, <1>8, <1>9, <1>10, <1>11, <1>12, <1>13
        DEF Next, Gate, Reply, Dispatch, Leave, Die

\* Every tool call that was carried out for an answer is in its audit, for any
\* budget of requests, any number of calls in a reply, and with or without the
\* retry that starts the conversation over.
THEOREM AuditIsComplete == Spec => []AuditAccountsForTools
<1>1. Audited => AuditAccountsForTools
  BY DEF Audited
<1> QED BY <1>1, InitAudited, StepAudited, LoopInductive, PTL DEF Spec

-----------------------------------------------------------------------------
(***************************************************************************)
(* The server around the loop.  ChatServer extends this loop and adds the  *)
(* gate of Delegation: what the loop does is known from LInv, and the rest *)
(* of the invariant says how far the gate is when the loop is at a given   *)
(* place (Abreast), what the gate has let through (Passed), what its table *)
(* then knows (Spent), and whom an answer was given to (Apart).            *)
(***************************************************************************)
Stage == gpc[Server]

\* Between two requests nothing of the last one is left.
Fresh == pc = "idle" => Init

Abreast ==
    /\ pc = "idle" => job = NoJob /\ Stage = "idle"
    /\ pc # "idle" => job \in Posted /\ job.pkg \in Package \ {NoPackage} /\ job.auth = "right"
    /\ pc = "gate" => Stage \in {"idle", "locking"}
    /\ pc \in {"request", "dispatch", "exhausted", "answered", "crashed"} => Stage = "accepted"
    /\ pc = "raised" => Stage \in {"accepted", "rejected"}

\* A request carries the package its worker wants answered.
Carried ==
    /\ \A i \in DOMAIN inbox : inbox[i].pkg = clients[inbox[i].client].pkg
    /\ pc # "idle" => job.pkg = clients[job.client].pkg

Passed ==
    Stage \in {"locking", "accepted"} =>
        /\ call[Server].pkg = job.pkg
        /\ job.pkg.token # NoToken
        /\ job.pkg.token.nonce \in Nonce

Spent ==
    /\ \A n \in Nonce : served[n] <= 1 /\ (n \notin used => served[n] = 0)
    /\ Stage = "accepted" => job.pkg.token.nonce \in used
    /\ pc \in {"request", "dispatch", "exhausted"} => served[job.pkg.token.nonce] = 1

Answered(c) == clients[c].got = "answer"
NonceOf(c) == clients[c].pkg.token.nonce

Apart ==
    /\ \A c \in Client : Answered(c) => clients[c].phase = "done" /\ clients[c].pkg # NoPackage
    /\ restarts = 0 =>
        /\ \A c \in Client : Answered(c) => NonceOf(c) \in used
        /\ Stage = "accepted" => \A c \in Client : Answered(c) => NonceOf(c) # job.pkg.token.nonce
        /\ \A c, d \in Client : Answered(c) /\ Answered(d) /\ c # d => NonceOf(c) # NonceOf(d)

ChatInv ==
    LInv /\ STypeOK /\ Fresh /\ Abreast /\ Carried /\ Passed /\ Spent /\ Apart

\* The HTTP reply changes its addressee alone, and nobody's package.
LEMMA ReplyKeeps ==
    ASSUME NEW p \in Posted, NEW what \in Refusal \cup {"answer"},
           STypeOK, Respond(p, what)
    PROVE  /\ clients' \in [Client -> [phase : {"ready", "waiting", "done"}, number : 0 .. MaxPosts,
                                       got : Got,
                                       pkg : Package \cup {NoPackage}]]
           /\ \A c \in Client : clients'[c].pkg = clients[c].pkg
           /\ \A c \in Client : Answered(c)' =>
                 \/ Answered(c) /\ clients'[c].phase = clients[c].phase
                 \/ what = "answer" /\ c = p.client /\ clients[c].phase = "waiting" /\ clients'[c].phase = "done"
           /\ \A c \in Client : Answered(c) /\ clients[c].phase = "done" =>
                 Answered(c)' /\ clients'[c].phase = "done"
<1> p.client \in Client
  BY DEF Posted
<1>1. CASE clients[p.client].phase = "waiting" /\ clients[p.client].number = p.number
  <2>1. clients' = [clients EXCEPT ![p.client].phase = IF what = "answer" THEN "done" ELSE "ready",
                                   ![p.client].got = IF what = "answer" THEN what ELSE "refused"]
    BY <1>1 DEF Respond
  <2>2. CASE what = "answer"
    BY <1>1, <2>1, <2>2 DEF STypeOK, Got, Answered
  <2>3. CASE what # "answer"
    BY <1>1, <2>1, <2>3 DEF STypeOK, Got, Answered
  <2> QED BY <2>2, <2>3
<1>2. CASE ~(clients[p.client].phase = "waiting" /\ clients[p.client].number = p.number)
  BY <1>2 DEF Respond, STypeOK, Answered
<1> QED BY <1>1, <1>2

LEMMA InitChatInv == ServerAssumption /\ SInit => ChatInv
<1> SUFFICES ASSUME ServerAssumption, SInit PROVE ChatInv
  OBVIOUS
<1>1. Init
  BY DEF SInit
<1>2. LInv
  BY <1>1, InitLInv
<1>3. pc = "idle"
  BY <1>1 DEF Init
<1>4. /\ gpc = [c \in {Server} |-> "idle"]
      /\ clients \in [Client -> [phase : {"ready"}, number : {0}, got : {"nothing"},
                                 pkg : Package \cup {NoPackage}]]
      /\ inbox = <<>> /\ job = NoJob /\ served = [n \in Nonce |-> 0]
  BY DEF SInit, Guard!Init, Server
<1>5. STypeOK
  <2>1. Guard!TypeOK
    BY DEF ServerAssumption, Guard!SentinelAssumption, SInit, Guard!Init, Guard!TypeOK
  <2>2. TypeOK
    BY <1>2 DEF LInv
  <2>3. sent = 0 /\ restarts = 0 /\ MaxPosts \in Nat /\ MaxRestarts \in Nat
    BY DEF SInit, ServerAssumption
  <2> QED BY <1>4, <2>1, <2>2, <2>3 DEF STypeOK, Got
<1>6. Stage = "idle"
  BY <1>4 DEF Stage
<1>7. Fresh /\ Abreast /\ Passed
  BY <1>1, <1>3, <1>4, <1>6 DEF Fresh, Abreast, Passed
<1>8. Carried /\ Spent
  BY <1>3, <1>4, <1>6 DEF Carried, Spent
<1>9. Apart
  BY <1>4 DEF Apart, Answered
<1> QED BY <1>2, <1>5, <1>7, <1>8, <1>9 DEF ChatInv

\* Every step of the server is a step of the loop, or none.
LEMMA ChatLoopStep == ChatInv /\ [SNext]_allVars => [Next]_vars
<1> SUFFICES ASSUME ChatInv, [SNext]_allVars PROVE [Next]_vars
  OBVIOUS
<1>1. ASSUME NEW r \in Requests, Enter(r) PROVE Next
  BY <1>1 DEF Next
<1>2. CASE GateRejects \/ NoKey \/ StartLoop
  BY <1>2 DEF Next, Gate
<1>3. CASE Reply \/ Dispatch \/ Exhausted \/ Leave
  BY <1>3 DEF Next
<1>4. CASE Reset
  <2>1. Reset
    BY <1>4
  <2>2. CASE pc = "idle"
    BY <2>1, <2>2 DEF ChatInv, Fresh, Init, Reset, vars
  <2>3. CASE pc # "idle"
    BY <2>1, <2>3 DEF Die, Next
  <2> QED BY <2>2, <2>3
<1>5. CASE UNCHANGED <<pc, req, retried, turn, messages, batch, index, loopAudit, response, posts, executed>>
  BY <1>5 DEF vars
<1>6. CASE (\E c \in Client, auth \in Auth : Send(c, auth)) \/ (\E c \in Client : GiveUp(c))
  BY <1>5, <1>6 DEF Send, GiveUp, vars
<1>7. CASE DenyAuth \/ DenyBare
  BY <1>5, <1>7 DEF DenyAuth, DenyBare, vars
<1>8. ASSUME NEW r \in Requests, Begin(r) PROVE [Next]_vars
  BY <1>1, <1>8 DEF Begin
<1>9. CASE Screen
  BY <1>2, <1>5, <1>9 DEF Screen, vars
<1>10. CASE Admit \/ RefuseReplay
  BY <1>2, <1>10 DEF Admit, RefuseReplay
<1>11. CASE Converse \/ Finish
  BY <1>3, <1>11 DEF Converse, Finish
<1>12. CASE Restart
  <2>1. Reset
    BY <1>12, Zenon DEF Restart
  <2> QED BY <1>4, <2>1
<1>13. CASE TimePasses
  BY <1>5, <1>13 DEF TimePasses, vars
<1>14. CASE UNCHANGED allVars
  BY <1>5, <1>14 DEF allVars, vars
<1> QED BY <1>6, <1>7, <1>8, <1>9, <1>10, <1>11, <1>12, <1>13, <1>14 DEF SNext, Handle

LEMMA StepFresh == Fresh /\ [Next]_vars => Fresh'
<1>0. SUFFICES ASSUME Fresh, [Next]_vars PROVE Fresh'
  OBVIOUS
<1>1. CASE Reset
  BY <1>0, <1>1 DEF Reset, Fresh, Init
<1>2. CASE UNCHANGED vars
  BY <1>0, <1>2 DEF vars, Fresh, Init
<1>3. CASE pc' # "idle"
  BY <1>3 DEF Fresh
<1>4. CASE Next /\ ~Reset
  <2>1. ASSUME NEW r \in Requests, Enter(r) PROVE pc' # "idle"
    BY <2>1 DEF Enter
  <2>2. ASSUME Gate PROVE pc' # "idle"
    BY <2>2 DEF Gate, NoTask, GateRejects, NoKey, StartLoop, End
  <2>3. ASSUME Reply PROVE pc' # "idle"
    BY <2>3 DEF Reply, RequestFails, FinalAnswer, RetryWithFacts, AnswerWithFacts, CallsNotAList,
                CallTools, Post, End, NextTurn
  <2>4. ASSUME Dispatch \/ Exhausted PROVE pc' # "idle"
    BY <2>4 DEF Dispatch, ToolAnswers, ToolRejected, ToolCrashes, Exhausted, End, NextTurn
  <2> QED BY <1>3, <1>4, <2>1, <2>2, <2>3, <2>4 DEF Next, Leave, Die
<1> QED BY <1>0, <1>1, <1>2, <1>4

\* The loop runs on, or ends.
LEMMA ConverseMoves ==
    ASSUME Reply \/ Dispatch \/ Exhausted
    PROVE  /\ pc \in {"request", "dispatch", "exhausted"}
           /\ pc' \in {"request", "dispatch", "exhausted", "answered", "raised", "crashed"}
<1>1. CASE Reply
  BY <1>1 DEF Reply, RequestFails, FinalAnswer, RetryWithFacts, AnswerWithFacts, CallsNotAList,
              CallTools, Post, End, NextTurn
<1>2. CASE Dispatch \/ Exhausted
  BY <1>2 DEF Dispatch, ToolAnswers, ToolRejected, ToolCrashes, Exhausted, End, NextTurn
<1> QED BY <1>1, <1>2

\* The parts of the invariant that do not speak of the loop alone.
ServerInv == STypeOK /\ Abreast /\ Carried /\ Passed /\ Spent /\ Apart

\* What the types of the gate say of the one caller it has here.
LEMMA StageTyped ==
    ASSUME STypeOK
    PROVE  /\ gpc = [c \in {Server} |-> Stage]
           /\ Stage \in {"idle", "locking", "accepted", "rejected"}
           /\ Server = Server
BY DEF STypeOK, Guard!TypeOK, Server, Server, Stage

LEMMA InboxTyped ==
    ASSUME inbox \in Seq(Posted)
    PROVE  \A i \in DOMAIN inbox : inbox[i] \in Posted /\ inbox[i].client \in Client
<1>1. \A i \in DOMAIN inbox : inbox[i] \in Posted
  OBVIOUS
<1>2. \A p \in Posted : p.client \in Client
  BY DEF Posted
<1> QED BY <1>1, <1>2

LEMMA SendStep ==
    ASSUME ServerAssumption, ServerInv, NEW c \in Client, NEW auth \in Auth, Send(c, auth), TypeOK'
    PROVE  ServerInv'
<1> DEFINE post == [client |-> c, number |-> sent + 1, auth |-> auth, pkg |-> clients[c].pkg]
<1>1. /\ clients[c].phase = "ready" /\ sent < MaxPosts /\ sent' = sent + 1
      /\ clients' = [clients EXCEPT ![c].phase = "waiting", ![c].number = sent + 1]
      /\ inbox' = Append(inbox, post)
  BY DEF Send
<1>2. UNCHANGED <<job, restarts, served, clock, setting, env, used, gpc, call, grants, pc>>
  BY DEF Send, gateVars, vars
<1>3. MaxPosts \in Nat /\ sent \in 0 .. MaxPosts /\ inbox \in Seq(Posted)
  BY DEF ServerAssumption, ServerInv, STypeOK
<1>4. clients \in [Client -> [phase : {"ready", "waiting", "done"}, number : 0 .. MaxPosts,
                               got : Got, pkg : Package \cup {NoPackage}]]
  BY DEF ServerInv, STypeOK
<1>5. post \in Posted
  BY <1>1, <1>3, <1>4 DEF Posted
<1>6. /\ clients' \in [Client -> [phase : {"ready", "waiting", "done"}, number : 0 .. MaxPosts,
                                   got : Got, pkg : Package \cup {NoPackage}]]
      /\ \A d \in Client : clients'[d].pkg = clients[d].pkg /\ clients'[d].got = clients[d].got
                           /\ (clients[d].phase = "done" => clients'[d].phase = "done")
  <2>1. sent + 1 \in 0 .. MaxPosts
    BY <1>1, <1>3
  <2> DEFINE n == sent + 1
  <2>2. clients' = [clients EXCEPT ![c].phase = "waiting", ![c].number = n] /\ n \in 0 .. MaxPosts
    BY <1>1, <2>1
  <2> HIDE DEF n
  <2> DEFINE W(N) == [phase : {"ready", "waiting", "done"}, number : N,
                      got : Got, pkg : Package \cup {NoPackage}]
  <2>3. PICK N : N = 0 .. MaxPosts
    OBVIOUS
  <2>4. clients \in [Client -> W(N)] /\ n \in N
    BY <1>4, <2>2, <2>3
  <2>5. clients' \in [Client -> W(N)]
    <3> DEFINE x == [clients EXCEPT ![c].phase = "waiting"]
    <3>1. x \in [Client -> W(N)]
      BY <2>4
    <3>2. clients' = [x EXCEPT ![c].number = n]
      BY <2>2
    <3> HIDE DEF x
    <3> QED BY <2>4, <3>1, <3>2
  <2>6. \A d \in Client : clients'[d].pkg = clients[d].pkg /\ clients'[d].got = clients[d].got
                          /\ (clients[d].phase = "done" => clients'[d].phase = "done")
    <3>1. CASE clients[c] \in W(N)
      <4>1. \A d \in Client \ {c} : clients'[d] = clients[d]
        BY <2>2, <2>4
      <4>2. clients'[c].pkg = clients[c].pkg /\ clients'[c].got = clients[c].got
        BY <2>2, <2>4, <3>1
      <4> QED BY <1>1, <4>1, <4>2
    <3> QED BY <2>4, <3>1
  <2> QED BY <2>3, <2>5, <2>6
<1> HIDE DEF post
<1>7. STypeOK'
  <2>1. inbox' \in Seq(Posted)
    BY <1>1, <1>3, <1>5
  <2>2. Guard!TypeOK'
    BY <1>2 DEF ServerInv, STypeOK, Guard!TypeOK
  <2>3. sent' \in 0 .. MaxPosts
    BY <1>1, <1>3
  <2> QED BY <1>2, <1>6, <2>1, <2>2, <2>3 DEF ServerInv, STypeOK
<1>8. Abreast' /\ Passed' /\ Spent'
  BY <1>2 DEF ServerInv, Abreast, Passed, Spent, Stage
<1>9. Carried'
  <2>1. \A i \in DOMAIN inbox' : inbox'[i] = post \/ (i \in DOMAIN inbox /\ inbox'[i] = inbox[i])
    BY <1>1, <1>3
  <2>2. post.client = c /\ post.pkg = clients[c].pkg
    BY DEF post
  <2>3. \A i \in DOMAIN inbox : inbox[i].client \in Client
    BY <1>3, InboxTyped
  <2>4. pc # "idle" => job.client \in Client
    BY DEF ServerInv, Abreast, Posted
  <2>5. /\ \A i \in DOMAIN inbox : inbox[i].pkg = clients[inbox[i].client].pkg
        /\ pc # "idle" => job.pkg = clients[job.client].pkg
    BY DEF ServerInv, Carried
  <2>6. \A d \in Client : clients'[d].pkg = clients[d].pkg
    BY <1>6
  <2>7. \A i \in DOMAIN inbox' : inbox'[i].pkg = clients'[inbox'[i].client].pkg
    BY <2>1, <2>2, <2>3, <2>5, <2>6
  <2>8. pc' # "idle" => job'.pkg = clients'[job'.client].pkg
    BY <1>2, <2>4, <2>5, <2>6
  <2> QED BY <2>7, <2>8 DEF Carried
<1>10. Apart'
  <2>1. \A d \in Client : (Answered(d)' <=> Answered(d)) /\ NonceOf(d)' = NonceOf(d)
    BY <1>6 DEF Answered, NonceOf
  <2>2. \A d \in Client : Answered(d) => clients'[d].phase = "done" /\ clients'[d].pkg # NoPackage
    BY <1>6 DEF ServerInv, Apart
  <2>3. Stage' = Stage /\ UNCHANGED <<restarts, used, job>>
    BY <1>2 DEF Stage
  <2>4. Apart
    BY DEF ServerInv
  <2> QED BY <2>1, <2>2, <2>3, <2>4 DEF Apart
<1> QED BY <1>7, <1>8, <1>9, <1>10 DEF ServerInv

LEMMA GiveUpStep ==
    ASSUME ServerInv, NEW c \in Client, GiveUp(c), TypeOK'
    PROVE  ServerInv'
<1>1. clients[c].phase = "waiting" /\ clients' = [clients EXCEPT ![c].phase = "ready"]
  BY DEF GiveUp
<1>2. UNCHANGED <<inbox, job, sent, restarts, served, clock, setting, env, used, gpc, call, grants, pc>>
  BY DEF GiveUp, gateVars, vars
<1>3. /\ clients' \in [Client -> [phase : {"ready", "waiting", "done"}, number : 0 .. MaxPosts,
                                   got : Got, pkg : Package \cup {NoPackage}]]
      /\ \A d \in Client : clients'[d].pkg = clients[d].pkg /\ clients'[d].got = clients[d].got
                           /\ (clients[d].phase = "done" => clients'[d].phase = "done")
  BY <1>1 DEF ServerInv, STypeOK
<1>4. STypeOK'
  BY <1>2, <1>3 DEF ServerInv, STypeOK, Guard!TypeOK
<1>5. Abreast' /\ Passed' /\ Spent'
  BY <1>2 DEF ServerInv, Abreast, Passed, Spent, Stage
<1>6. Carried'
  <2>1. \A i \in DOMAIN inbox : inbox[i].client \in Client
    BY InboxTyped DEF ServerInv, STypeOK
  <2>2. pc # "idle" => job.client \in Client
    BY DEF ServerInv, Abreast, Posted
  <2> QED BY <1>2, <1>3, <2>1, <2>2 DEF ServerInv, Carried
<1>7. Apart'
  BY <1>2, <1>3 DEF ServerInv, Apart, Answered, NonceOf, Stage
<1> QED BY <1>4, <1>5, <1>6, <1>7 DEF ServerInv

\* A request that is turned away before the loop is entered.
LEMMA DenyStep ==
    ASSUME ServerAssumption, ServerInv, DenyAuth \/ DenyBare, TypeOK'
    PROVE  ServerInv'
<1>1. inbox # <<>> /\ inbox' = Tail(inbox)
  BY DEF DenyAuth, DenyBare, Idle
<1>2. UNCHANGED <<job, sent, restarts, served, clock, setting, env, used, gpc, call, grants, pc>>
  BY DEF DenyAuth, DenyBare, gateVars, vars
<1>3. PICK p : p = Head(inbox)
  OBVIOUS
<1>4. inbox \in Seq(Posted)
  BY DEF ServerInv, STypeOK
<1>5. p \in Posted
  BY <1>1, <1>3, <1>4
<1>6. PICK what \in Refusal : Respond(p, what)
  <2>1. CASE DenyBare
    BY <1>3, <2>1 DEF DenyBare, Refusal
  <2>2. CASE DenyAuth
    <3>1. AuthError(p) # "none" /\ Respond(p, AuthError(p))
      BY <1>3, <2>2 DEF DenyAuth
    <3>2. AuthError(p) \in {"503", "401", "403", "500", "none"}
      <4>1. p.auth \in {"right", "wrong", "foreign", "absent"} /\ KeyConfigured \in BOOLEAN
        BY <1>5 DEF Posted, Auth, ServerAssumption
      <4> QED BY <4>1 DEF AuthError
    <3> QED BY <3>1, <3>2 DEF Refusal
  <2> QED BY <2>1, <2>2
<1>7. what # "answer"
  BY DEF Refusal
<1>8. /\ clients' \in [Client -> [phase : {"ready", "waiting", "done"}, number : 0 .. MaxPosts,
                                   got : Got, pkg : Package \cup {NoPackage}]]
      /\ \A c \in Client : clients'[c].pkg = clients[c].pkg
      /\ \A c \in Client : Answered(c)' => Answered(c) /\ clients'[c].phase = clients[c].phase
  BY <1>5, <1>6, <1>7, ReplyKeeps DEF ServerInv
<1>9. inbox' \in Seq(Posted) /\ \A i \in DOMAIN inbox' : i + 1 \in DOMAIN inbox /\ inbox'[i] = inbox[i + 1]
  BY <1>1, <1>4
<1>10. STypeOK'
  BY <1>2, <1>8, <1>9 DEF ServerInv, STypeOK, Guard!TypeOK
<1>11. Abreast' /\ Passed' /\ Spent'
  BY <1>2 DEF ServerInv, Abreast, Passed, Spent, Stage
<1>12. Carried'
  <2>1. \A i \in DOMAIN inbox : inbox[i].client \in Client
    BY <1>4, InboxTyped
  <2>2. pc # "idle" => job.client \in Client
    BY DEF ServerInv, Abreast, Posted
  <2> QED BY <1>2, <1>8, <1>9, <2>1, <2>2 DEF ServerInv, Carried
<1>13. Apart'
  BY <1>2, <1>8 DEF ServerInv, Apart, Answered, NonceOf, Stage
<1> QED BY <1>10, <1>11, <1>12, <1>13 DEF ServerInv

\* The head of the queue is taken up.
LEMMA BeginStep ==
    ASSUME ServerAssumption, Fresh, ServerInv, NEW r \in Requests, Begin(r), TypeOK'
    PROVE  ServerInv'
<1>1. inbox # <<>> /\ inbox' = Tail(inbox) /\ job = NoJob /\ job' = Head(inbox)
  BY DEF Begin, Idle
<1>2. UNCHANGED <<clients, sent, restarts, served, clock, setting, env, used, gpc, call, grants>>
  BY DEF Begin, gateVars
<1>3. pc = "idle" /\ pc' = "gate"
  BY DEF Begin, Enter
<1>4. PICK p : p = Head(inbox)
  OBVIOUS
<1>5. inbox \in Seq(Posted)
  BY DEF ServerInv, STypeOK
<1>6. p \in Posted /\ 1 \in DOMAIN inbox /\ p = inbox[1]
  BY <1>1, <1>4, <1>5
<1>7. p.auth = "right" /\ p.pkg \in Package \ {NoPackage}
  <2>1. AuthError(p) = "none" /\ p.pkg # NoPackage
    BY <1>4 DEF Begin
  <2>2. p.auth \in {"right", "wrong", "foreign", "absent"} /\ KeyConfigured \in BOOLEAN /\ p.pkg \in Package \cup {NoPackage}
    BY <1>6 DEF Posted, Auth, ServerAssumption
  <2> QED BY <2>1, <2>2 DEF AuthError
<1>8. inbox' \in Seq(Posted) /\ \A i \in DOMAIN inbox' : i + 1 \in DOMAIN inbox /\ inbox'[i] = inbox[i + 1]
  BY <1>1, <1>5
<1>9. STypeOK'
  BY <1>1, <1>2, <1>4, <1>6, <1>8 DEF ServerInv, STypeOK, Guard!TypeOK
<1>10. Stage = "idle" /\ Stage' = Stage
  BY <1>2, <1>3 DEF ServerInv, Abreast, Stage
<1>11. Abreast'
  BY <1>1, <1>3, <1>4, <1>6, <1>7, <1>10 DEF Abreast
<1>12. Carried'
  BY <1>1, <1>2, <1>4, <1>6, <1>8 DEF ServerInv, Carried
<1>13. Passed' /\ Spent' /\ Apart'
  BY <1>2, <1>3, <1>10 DEF ServerInv, Passed, Spent, Apart, Answered, NonceOf
<1> QED BY <1>9, <1>11, <1>12, <1>13 DEF ServerInv

\* ensure_safe_actions before the lock.
LEMMA ScreenStep ==
    ASSUME ServerAssumption, ServerInv, Screen, TypeOK'
    PROVE  ServerInv'
<1>1. UNCHANGED <<clients, inbox, job, sent, restarts, served, clock, setting, env, used, grants>> /\ pc = "gate"
  BY DEF Screen, Guard!ScreenPass, Guard!ScreenReject, serverVars
<1>2. job \in Posted /\ job.pkg \in Package \ {NoPackage} /\ job.auth = "right"
  BY <1>1 DEF ServerInv, Abreast
<1>3. Stage = "idle" /\ Server = Server /\ gpc = [c \in {Server} |-> Stage]
  BY StageTyped DEF ServerInv, Screen, Guard!ScreenPass, Guard!ScreenReject, Stage
<1>4. CASE Guard!ScreenReject(Server, job.pkg, Guard!Production) /\ GateRejects
  <2>1. gpc' = [gpc EXCEPT ![Server] = "rejected"] /\ call' = call /\ pc' = "raised"
    BY <1>3, <1>4 DEF Guard!ScreenReject, GateRejects, End
  <2>2. Stage' = "rejected"
    BY <1>3, <2>1 DEF Stage
  <2>3. STypeOK'
    BY <1>1, <1>3, <2>1 DEF ServerInv, STypeOK, Guard!TypeOK, Server
  <2>4. Abreast' /\ Passed' /\ Spent' /\ Carried'
    BY <1>1, <1>2, <2>1, <2>2 DEF ServerInv, Abreast, Passed, Spent, Carried
  <2>5. Apart'
    BY <1>1, <2>2 DEF ServerInv, Apart, Answered, NonceOf
  <2> QED BY <2>3, <2>4, <2>5 DEF ServerInv
<1>5. CASE Guard!ScreenPass(Server, job.pkg, Guard!Production) /\ UNCHANGED vars
  <2> DEFINE k == [pkg |-> job.pkg, mode |-> Guard!Production, seenAt |-> clock]
  <2>1. pc' = pc
    BY <1>5 DEF vars
  <2>2. Guard!Production.require /\ Guard!Production.consume
        /\ Guard!Production \in Guard!Mode
    BY DEF Guard!Production, Guard!Mode
  <2>3. job.pkg.token # NoToken /\ job.pkg.token.nonce # BlankNonce
    BY <1>5, <2>2 DEF Guard!ScreenPass, Guard!Screened, Guard!Signed
  <2>4. job.pkg.token.nonce \in Nonce
    BY <1>2, <2>3 DEF ServerAssumption, Guard!PackageAssumption
  <2>5. gpc' = [gpc EXCEPT ![Server] = "locking"] /\ call' = [call EXCEPT ![Server] = k]
    BY <1>3, <1>5, <2>2, <2>3 DEF Guard!ScreenPass
  <2>6. k \in Guard!Call /\ k.pkg = job.pkg
    BY <1>2, <2>2 DEF Guard!Call, ServerInv, STypeOK, Guard!TypeOK
  <2> HIDE DEF k
  <2>7. Stage' = "locking"
    BY <1>3, <2>5 DEF Stage
  <2>8. call' \in [{Server} -> Guard!Call \cup {NoCall}] /\ call'[Server] = k
    BY <2>5, <2>6 DEF ServerInv, STypeOK, Guard!TypeOK, Server
  <2>9. STypeOK'
    BY <1>1, <1>3, <2>5, <2>8 DEF ServerInv, STypeOK, Guard!TypeOK, Server
  <2>10. Abreast' /\ Passed' /\ Spent' /\ Carried'
    BY <1>1, <1>2, <2>1, <2>3, <2>4, <2>6, <2>7, <2>8 DEF ServerInv, Abreast, Passed, Spent, Carried
  <2>11. Apart'
    BY <1>1, <2>7 DEF ServerInv, Apart, Answered, NonceOf
  <2> QED BY <2>9, <2>10, <2>11 DEF ServerInv
<1> QED BY <1>4, <1>5 DEF Screen

\* The nonce is spent; nobody was answered for it before.
LEMMA AdmitStep ==
    ASSUME ServerAssumption, ServerInv, Admit, TypeOK'
    PROVE  ServerInv'
<1> DEFINE n == job.pkg.token.nonce
<1>1. /\ UNCHANGED <<clients, inbox, job, sent, restarts, clock, setting, env, call>> /\ pc = "gate"
      /\ Guard!ConsumeFresh(Server)
  BY DEF Admit, Guard!ConsumeFresh
<1>2. job \in Posted /\ job.pkg \in Package \ {NoPackage} /\ job.auth = "right"
  BY <1>1 DEF ServerInv, Abreast
<1>3. Stage = "locking" /\ Server = Server /\ gpc = [c \in {Server} |-> Stage]
  BY <1>1, StageTyped DEF ServerInv, Guard!ConsumeFresh, Stage
<1>4. call[Server].pkg = job.pkg /\ job.pkg.token # NoToken /\ n \in Nonce
  BY <1>3 DEF ServerInv, Passed
<1>5. n \notin used /\ used' = used \cup {n} /\ gpc' = [gpc EXCEPT ![Server] = "accepted"]
      /\ grants' = [grants EXCEPT ![n] = @ + 1]
  BY <1>1, <1>3, <1>4 DEF Guard!ConsumeFresh, Guard!Token
<1>6. Stage' = "accepted"
  BY <1>3, <1>5 DEF Stage
<1>7. \/ pc' = "answered" /\ served' = served
      \/ pc' = "request" /\ served' = [served EXCEPT ![n] = @ + 1]
  BY DEF Admit, NoKey, StartLoop, End
<1> HIDE DEF n
<1>8. served \in [Nonce -> Nat] /\ grants \in [Nonce -> Nat] /\ used \subseteq Nonce
  BY DEF ServerInv, STypeOK, Guard!TypeOK
<1>9. /\ served' \in [Nonce -> Nat]
      /\ \A x \in Nonce \ {n} : served'[x] = served[x]
      /\ served'[n] = IF pc' = "request" THEN 1 ELSE 0
  BY <1>4, <1>5, <1>7, <1>8 DEF ServerInv, Spent
<1>10. STypeOK'
  <2>1. grants' \in [Nonce -> Nat] /\ used' \subseteq Nonce
    BY <1>4, <1>5, <1>8
  <2> QED BY <1>1, <1>3, <1>5, <1>9, <2>1 DEF ServerInv, STypeOK, Guard!TypeOK, Server
<1>11. Abreast' /\ Carried'
  BY <1>1, <1>2, <1>6, <1>7 DEF ServerInv, Abreast, Carried
<1>12. Passed'
  BY <1>1, <1>4 DEF Passed, n
<1>13. Spent'
  BY <1>1, <1>4, <1>5, <1>6, <1>7, <1>9 DEF ServerInv, Spent, n
<1>14. Apart'
  BY <1>1, <1>5, <1>6 DEF ServerInv, Apart, Answered, NonceOf, n
<1> QED BY <1>10, <1>11, <1>12, <1>13, <1>14 DEF ServerInv

LEMMA RefuseReplayStep ==
    ASSUME ServerAssumption, ServerInv, RefuseReplay, TypeOK'
    PROVE  ServerInv'
<1>1. UNCHANGED <<clients, inbox, job, sent, restarts, served, clock, setting, env, used, grants>> /\ pc = "gate"
  BY DEF RefuseReplay, Guard!RejectReplay, serverVars
<1>2. job \in Posted /\ job.pkg \in Package \ {NoPackage} /\ job.auth = "right"
  BY <1>1 DEF ServerInv, Abreast
<1>3. Server = Server /\ gpc = [c \in {Server} |-> Stage]
  BY StageTyped DEF ServerInv
<1>4. gpc' = [gpc EXCEPT ![Server] = "rejected"] /\ call' = [call EXCEPT ![Server] = NoCall] /\ pc' = "raised"
  BY <1>3 DEF RefuseReplay, Guard!RejectReplay, GateRejects, End
<1>5. Stage' = "rejected"
  BY <1>3, <1>4 DEF Stage
<1>6. STypeOK'
  BY <1>1, <1>3, <1>4 DEF ServerInv, STypeOK, Guard!TypeOK, Server
<1>7. Abreast' /\ Passed' /\ Spent' /\ Carried'
  BY <1>1, <1>2, <1>4, <1>5 DEF ServerInv, Abreast, Passed, Spent, Carried
<1>8. Apart'
  BY <1>1, <1>5 DEF ServerInv, Apart, Answered, NonceOf
<1> QED BY <1>6, <1>7, <1>8 DEF ServerInv

LEMMA ConverseStep ==
    ASSUME ServerInv, Converse, TypeOK'
    PROVE  ServerInv'
<1>1. UNCHANGED <<clients, inbox, job, sent, restarts, served, clock, setting, env, used, gpc, call, grants>>
  BY DEF Converse, serverVars, gateVars
<1>2. /\ pc \in {"request", "dispatch", "exhausted"}
      /\ pc' \in {"request", "dispatch", "exhausted", "answered", "raised", "crashed"}
  BY ConverseMoves DEF Converse
<1>3. STypeOK'
  BY <1>1 DEF ServerInv, STypeOK, Guard!TypeOK
<1>4. Abreast' /\ Passed' /\ Spent' /\ Carried'
  BY <1>1, <1>2 DEF ServerInv, Abreast, Passed, Spent, Carried, Stage
<1>5. Apart'
  BY <1>1 DEF ServerInv, Apart, Answered, NonceOf, Stage
<1> QED BY <1>3, <1>4, <1>5 DEF ServerInv

\* The worker that waits for this request gets its answer, the first for this
\* nonce.
LEMMA FinishStep ==
    ASSUME ServerAssumption, ServerInv, Finish, TypeOK'
    PROVE  ServerInv'
<1>1. UNCHANGED <<inbox, sent, restarts, served, clock, setting, env, used, grants>> /\ job' = NoJob
  BY DEF Finish, Guard!Return
<1>2. pc \in {"answered", "raised", "crashed"} /\ pc' = "idle"
  BY DEF Finish, Ended, Leave, Reset
<1>3. job \in Posted /\ job.pkg \in Package /\ job.pkg = clients[job.client].pkg
  BY <1>2 DEF ServerInv, Abreast, Carried
<1>4. Server = Server /\ gpc = [c \in {Server} |-> Stage]
  BY StageTyped DEF ServerInv
<1>5. gpc' = [gpc EXCEPT ![Server] = "idle"] /\ call' = [call EXCEPT ![Server] = NoCall]
  BY <1>4 DEF Finish, Guard!Return
<1>6. Stage' = "idle"
  BY <1>4, <1>5 DEF Stage
<1>7. PICK p : p = job
  OBVIOUS
<1>8. PICK what \in Refusal \cup {"answer"} :
          Respond(p, what) /\ (what = "answer" => pc = "answered")
  <2>1. Respond(job, Outcome)
    BY DEF Finish
  <2>2. CASE pc = "answered"
    BY <1>7, <2>1, <2>2 DEF Outcome
  <2>3. CASE pc = "raised"
    BY <1>7, <2>1, <2>3 DEF Outcome, Refusal
  <2>4. CASE pc = "crashed"
    BY <1>7, <2>1, <2>4 DEF Outcome, Refusal
  <2> QED BY <1>2, <2>2, <2>3, <2>4
<1>9. /\ clients' \in [Client -> [phase : {"ready", "waiting", "done"}, number : 0 .. MaxPosts,
                                   got : Got, pkg : Package \cup {NoPackage}]]
      /\ \A c \in Client : clients'[c].pkg = clients[c].pkg
      /\ \A c \in Client : Answered(c)' =>
            \/ Answered(c) /\ clients'[c].phase = clients[c].phase
            \/ what = "answer" /\ c = p.client /\ clients[c].phase = "waiting" /\ clients'[c].phase = "done"
  BY <1>3, <1>7, <1>8, ReplyKeeps DEF ServerInv
<1>10. STypeOK'
  BY <1>1, <1>4, <1>5, <1>9 DEF ServerInv, STypeOK, Guard!TypeOK, Server
<1>11. Abreast' /\ Passed' /\ Spent'
  BY <1>1, <1>2, <1>6 DEF ServerInv, Abreast, Passed, Spent
<1>12. Carried'
  BY <1>1, <1>2, <1>9, InboxTyped DEF ServerInv, Carried, STypeOK
<1>13. Apart'
  <2>1. what = "answer" => Stage = "accepted" /\ job.pkg.token.nonce \in used
    BY <1>2, <1>8 DEF ServerInv, Abreast, Spent
  <2>2. \A c \in Client : NonceOf(c)' = NonceOf(c)
    BY <1>9 DEF NonceOf
  <2>3. NonceOf(job.client) = job.pkg.token.nonce /\ clients[job.client].pkg = job.pkg
    BY <1>3 DEF NonceOf
  <2>4. \A c \in Client : Answered(c)' => Answered(c) \/ (c = job.client /\ what = "answer")
    BY <1>7, <1>9
  <2>5. \A c \in Client : Answered(c)' => clients'[c].phase = "done" /\ clients'[c].pkg # NoPackage
    <3>1. job.pkg # NoPackage
      BY <1>8, <1>2, <2>1 DEF ServerInv, Abreast
    <3> QED BY <1>7, <1>9, <2>3, <3>1 DEF ServerInv, Apart
  <2> QED BY <1>1, <1>6, <2>1, <2>2, <2>3, <2>4, <2>5 DEF ServerInv, Apart
<1> QED BY <1>10, <1>11, <1>12, <1>13 DEF ServerInv

LEMMA RestartStep ==
    ASSUME ServerAssumption, ServerInv, Restart, TypeOK'
    PROVE  ServerInv'
<1>1. /\ restarts < MaxRestarts /\ restarts' = restarts + 1
      /\ inbox' = <<>> /\ job' = NoJob /\ sent' = sent
      /\ served' = [n \in Nonce |-> 0]
  BY Zenon DEF Restart
<1>2. /\ setting' = env /\ used' = {} /\ UNCHANGED <<clock, env>>
      /\ grants' = [n \in Nonce |-> 0]
      /\ gpc' = [c \in {Server} |-> "idle"]
      /\ call' = [c \in {Server} |-> NoCall]
  BY Zenon DEF Restart, Guard!Restart, Server
<1>3. pc' = "idle"
  BY Zenon DEF Restart, Reset
<1>4. Stage' = "idle"
  BY <1>2 DEF Stage
<1>5. restarts' \in 0 .. MaxRestarts /\ restarts' # 0
  BY <1>1 DEF ServerAssumption, ServerInv, STypeOK
<1>6. /\ clients' \in [Client -> [phase : {"ready", "waiting", "done"}, number : 0 .. MaxPosts,
                                   got : Got, pkg : Package \cup {NoPackage}]]
      /\ \A c \in Client : Answered(c)' => Answered(c) /\ clients'[c] = clients[c]
  <2> DEFINE W == [phase : {"ready", "waiting", "done"}, number : 0 .. MaxPosts,
                   got : Got, pkg : Package \cup {NoPackage}]
             D(c) == [clients[c] EXCEPT !.phase = "ready", !.got = "dropped"]
  <2>1. clients \in [Client -> W]
    BY DEF ServerInv, STypeOK
  <2>2. ASSUME NEW c \in Client PROVE D(c) \in W /\ D(c).got # "answer"
    <3>1. "dropped" \in Got
      BY DEF Got
    <3> DEFINE x == [clients[c] EXCEPT !.phase = "ready"]
    <3>2. x \in W
      BY <2>1
    <3>3. D(c) = [x EXCEPT !.got = "dropped"]
      OBVIOUS
    <3> HIDE DEF x, D
    <3> QED BY <3>1, <3>2, <3>3
  <2>3. clients' = [c \in Client |-> IF clients[c].phase = "waiting" THEN D(c) ELSE clients[c]]
    BY Zenon DEF Restart
  <2> HIDE DEF W, D
  <2>4. clients' \in [Client -> W] /\ \A c \in Client : clients'[c] \in {D(c), clients[c]}
    BY <2>1, <2>2, <2>3
  <2>5. \A c \in Client : clients'[c].got = "answer" => clients'[c] = clients[c]
    BY <2>2, <2>4
  <2> QED BY <2>4, <2>5 DEF W, Answered
<1>7. STypeOK'
  <2>1. Guard!TypeOK'
    BY <1>2 DEF ServerInv, STypeOK, Guard!TypeOK, Server
  <2> QED BY <1>1, <1>5, <1>6, <2>1 DEF ServerInv, STypeOK
<1>8. Abreast' /\ Passed' /\ Spent' /\ Carried'
  BY <1>1, <1>2, <1>3, <1>4 DEF Abreast, Passed, Spent, Carried
<1>9. Apart'
  BY <1>5, <1>6 DEF ServerInv, Apart
<1> QED BY <1>7, <1>8, <1>9 DEF ServerInv

LEMMA TimeStep ==
    ASSUME ServerAssumption, ServerInv, TimePasses \/ UNCHANGED allVars, TypeOK'
    PROVE  ServerInv'
<1>1. UNCHANGED <<clients, inbox, job, sent, restarts, served, setting, env, used, gpc, call, grants, pc>>
  BY DEF TimePasses, Guard!Tick, allVars, serverVars, gateVars, vars
<1>2. clock' \in 0 .. MaxClock
  BY DEF TimePasses, Guard!Tick, allVars, gateVars, ServerAssumption, Guard!SentinelAssumption,
         ServerInv, STypeOK, Guard!TypeOK
<1>3. STypeOK'
  BY <1>1, <1>2 DEF ServerInv, STypeOK, Guard!TypeOK
<1>4. Abreast' /\ Passed' /\ Spent' /\ Carried'
  BY <1>1 DEF ServerInv, Abreast, Passed, Spent, Carried, Stage
<1>5. Apart'
  BY <1>1 DEF ServerInv, Apart, Answered, NonceOf, Stage
<1> QED BY <1>3, <1>4, <1>5 DEF ServerInv

LEMMA StepChatInv == ServerAssumption /\ ChatInv /\ [SNext]_allVars => ChatInv'
<1> SUFFICES ASSUME ServerAssumption, ChatInv, [SNext]_allVars PROVE ChatInv'
  OBVIOUS
<1>1. [Next]_vars
  BY ChatLoopStep
<1>2. LInv' /\ Fresh'
  BY <1>1, StepLInv, StepFresh DEF ChatInv
<1>3. TypeOK'
  BY <1>2 DEF LInv
<1>4. ServerInv
  BY DEF ChatInv, ServerInv
<1>5. ServerInv'
  BY <1>3, <1>4, SendStep, GiveUpStep, DenyStep, BeginStep, ScreenStep, AdmitStep, RefuseReplayStep,
     ConverseStep, FinishStep, RestartStep, TimeStep
     DEF ChatInv, SNext, Handle
<1> QED BY <1>2, <1>5 DEF ChatInv, ServerInv

\* Everything the server's invariant says holds of every run of the server.
THEOREM ChatInductive == SSpec => []ChatInv
<1>1. SInit => ChatInv
  BY ServerAssumption, InitChatInv
<1>2. ChatInv /\ [SNext]_allVars => ChatInv'
  BY ServerAssumption, StepChatInv
<1> QED BY <1>1, <1>2, PTL DEF SSpec

\* However workers send a package again, give up waiting or hand it on, and
\* whenever the process is restarted: a conversation runs only for a request the
\* gate let through, once per nonce between two restarts, and without a restart
\* no two workers hold an answer for the same nonce.
THEOREM ServerServesGrantedOnce == SSpec => []ServesGrantedOnce
<1>1. ChatInv => ServesGrantedOnce
  <2> SUFFICES ASSUME ChatInv PROVE ServesGrantedOnce
    OBVIOUS
  <2>1. STypeOK /\ ConversationOncePerNonce
    BY DEF ChatInv, Spent, ConversationOncePerNonce
  <2>2. ConversationIsGranted
    BY ServerAssumption, StageTyped
       DEF ChatInv, Abreast, Passed, Spent, ConversationIsGranted, Stage, ServerAssumption
  <2>3. AnswersNeverShared
    BY DEF ChatInv, Apart, Answered, NonceOf, AnswersNeverShared
  <2> QED BY <2>1, <2>2, <2>3 DEF ServesGrantedOnce
<1> QED BY <1>1, ChatInductive, PTL

\* Every step of the server does to the gate what Delegation allows one caller,
\* or leaves it alone.
LEMMA ChatGateStep == ChatInv /\ [SNext]_allVars => [Guard!Next]_(Guard!vars)
<1> SUFFICES ASSUME ChatInv, [SNext]_allVars PROVE [Guard!Next]_(Guard!vars)
  OBVIOUS
<1>1. CASE UNCHANGED <<clock, setting, env, used, gpc, call, grants>>
  BY <1>1 DEF Guard!vars
<1>2. CASE (\E c \in Client, auth \in Auth : Send(c, auth)) \/ (\E c \in Client : GiveUp(c))
  BY <1>1, <1>2 DEF Send, GiveUp, gateVars
<1>3. CASE DenyAuth \/ DenyBare \/ (\E r \in Requests : Begin(r))
  BY <1>1, <1>3 DEF DenyAuth, DenyBare, Begin, gateVars
<1>4. CASE Screen
  <2>1. job.pkg \in Package
    BY <1>4 DEF Screen, ChatInv, Abreast
  <2>2. Guard!Production \in Guard!Mode
    BY DEF Guard!Mode
  <2>3. \/ Guard!ScreenPass(Server, job.pkg, Guard!Production)
        \/ Guard!ScreenReject(Server, job.pkg, Guard!Production)
    BY <1>4 DEF Screen
  <2> QED BY <2>1, <2>2, <2>3 DEF Guard!Next
<1>5. CASE Admit \/ RefuseReplay
  BY <1>5 DEF Admit, RefuseReplay, Guard!Next
<1>6. CASE Converse
  BY <1>1, <1>6 DEF Converse, gateVars
<1>7. CASE Finish
  BY <1>7 DEF Finish, Guard!Next
<1>8. CASE Restart
  <2>1. Guard!Restart
    BY <1>8, Zenon DEF Restart
  <2> QED BY <2>1 DEF Guard!Next
<1>9. CASE TimePasses
  BY <1>9 DEF TimePasses, Guard!Next
<1>10. CASE UNCHANGED allVars
  BY <1>1, <1>10 DEF allVars, gateVars
<1> QED BY <1>2, <1>3, <1>4, <1>5, <1>6, <1>7, <1>8, <1>9, <1>10 DEF SNext, Handle

\* The server implements both of its parts: with everything workers and a
\* restart may do, the gate takes only steps of Delegation and the conversation
\* only steps of ProviderLoop, so that what is proved of each holds here.
THEOREM ServerKeepsParts == SSpec => KeepsParts
<1>1. SInit => Guard!Init /\ Init
  BY DEF SInit
<1>2. ChatInv /\ [SNext]_allVars => [Guard!Next]_(Guard!vars)
  BY ChatGateStep
<1>3. ChatInv /\ [SNext]_allVars => [Next]_vars
  BY ChatLoopStep
<1> QED BY <1>1, <1>2, <1>3, ChatInductive, PTL
       DEF SSpec, KeepsParts, Guard!Spec, Spec
=============================================================================
