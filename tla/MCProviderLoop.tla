--------------------------- MODULE MCProviderLoop ---------------------------
(***************************************************************************)
(* Instance of ProviderLoop.  All combinations of context and of what is   *)
(* supplied, or read off the prompt, are there (an intent the backend      *)
(* supplies is never small talk); a request without task or key, and one   *)
(* for a file that is neither sparse nor a property, is enough once.       *)
(***************************************************************************)
EXTENDS ProviderLoop

ordinary == [task |-> TRUE, key |-> TRUE, context |-> "archive", property |-> TRUE,
             evidence |-> "sparse", supplied |-> {}, intent |-> "business", topics |-> {},
             again |-> [intent |-> "business", topics |-> {}]]

MCRequests ==
    {r \in {[ordinary EXCEPT !.context = x, !.intent = i, !.supplied = s, !.again.intent = j] :
               x \in {"none", "summary", "broker", "archive"}, i \in Intents, s \in {{}, {"intent"}, {"message"}},
               j \in Intents} :
        /\ "intent" \in r.supplied => r.intent # "chat"
        /\ r.supplied # {} => r.again.intent = "business"}
    \cup {[ordinary EXCEPT !.topics = ts, !.again.topics = us, !.evidence = e] :
            ts \in {{}, Topics}, us \in SUBSET Topics, e \in {"full", "noCard", "sparse"}}
    \cup {[ordinary EXCEPT !.task = FALSE, !.context = "none"],
          [ordinary EXCEPT !.key = FALSE],
          [ordinary EXCEPT !.property = FALSE, !.topics = {"verdict", "owner"}]}

MCAnswers ==
    {a \in [asks : BOOLEAN, reveals : {"nothing", "names", "jargon"}, long : BOOLEAN,
            hedged : BOOLEAN, persist : BOOLEAN, memory : BOOLEAN,
            drafts : {"none", "draft", "direct"}, claims : {0, 1}] :
        /\ a.persist = a.memory
        /\ a.asks => a.hedged /\ a.long
        /\ a.claims = (IF a.persist THEN 1 ELSE 0)}
=============================================================================
