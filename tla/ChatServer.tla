----------------------------- MODULE ChatServer -----------------------------
(***************************************************************************)
(* sufen/server.py: POST /v1/chat in production mode.  The handler is an   *)
(* async function without an await, so that the event loop runs one        *)
(* request to its end before it takes the next: the gate of Delegation and *)
(* the conversation of ProviderLoop, composed.  Around it are My Stand     *)
(* backend workers, which give up waiting and send a package again while   *)
(* the first request is still queued or running, and the process, which    *)
(* may die with the queue, the conversation and the table of nonces.       *)
(***************************************************************************)
EXTENDS ProviderLoop

CONSTANTS
    Client,         \* backend workers
    KeyConfigured,  \* SUFEN_SERVICE_API_KEY is set
    MaxPosts,       \* bound: POSTs of all workers
    MaxRestarts,    \* bound: restarts of the process
    NoPackage, NoJob,
    Package, Issued, Nonce, Secret, MaxClock,
    NoCall, NoToken, NoSecret, BlankNonce, BlankSignature, BadDate

VARIABLES
    clients,   \* each worker: the package it wants answered and how far it is
    inbox,     \* requests the event loop has not taken up
    job,       \* the request being handled
    sent,      \* POSTs so far; the number of a POST identifies it
    restarts,
    served     \* history: conversations begun per nonce since the last restart

\* The gate, with the event loop as its only caller; the conversation has the
\* variables of ProviderLoop, vars.
VARIABLES clock, setting, env, used, gpc, call, grants

serverVars == <<clients, inbox, job, sent, restarts, served>>
gateVars == <<clock, setting, env, used, gpc, call, grants>>
allVars == <<serverVars, gateVars, vars>>

Server == "server"

Guard == INSTANCE Delegation WITH Caller <- {Server}, pc <- gpc

Auth == {"right", "wrong", "foreign", "absent"}
Posted == [client : Client, number : 1 .. MaxPosts, auth : Auth, pkg : Package \cup {NoPackage}]
\* The replies that are no answer, and what a worker keeps of a POST.
Refusal == {"503", "401", "403", "missing", "closed", "500"}
Got == {"nothing", "answer", "refused", "dropped"}

ASSUME ServerAssumption ==
    /\ KeyConfigured \in BOOLEAN
    /\ MaxPosts \in Nat
    /\ MaxRestarts \in Nat
    /\ NoJob \notin Posted
    /\ Guard!PackageAssumption /\ Guard!SentinelAssumption

SInit ==
    /\ clients \in [Client -> [phase : {"ready"}, number : {0}, got : {"nothing"},
                               pkg : Package \cup {NoPackage}]]
    /\ inbox = <<>>
    /\ job = NoJob
    /\ sent = 0
    /\ restarts = 0
    /\ served = [n \in Nonce |-> 0]
    /\ Guard!Init
    /\ Init

-----------------------------------------------------------------------------
(* The backend workers (external).                                         *)

\* A worker sends its package, the first time or again.
Send(c, auth) ==
    /\ clients[c].phase = "ready"
    /\ sent < MaxPosts
    /\ sent' = sent + 1
    /\ clients' = [clients EXCEPT ![c].phase = "waiting", ![c].number = sent + 1]
    /\ inbox' = Append(inbox, [client |-> c, number |-> sent + 1, auth |-> auth, pkg |-> clients[c].pkg])
    /\ UNCHANGED <<job, restarts, served, gateVars, vars>>

\* It stops waiting; the server does not notice.
GiveUp(c) ==
    /\ clients[c].phase = "waiting"
    /\ clients' = [clients EXCEPT ![c].phase = "ready"]
    /\ UNCHANGED <<inbox, job, sent, restarts, served, gateVars, vars>>

\* The HTTP reply to post p; nobody reads it when the worker has moved on.
Respond(p, what) ==
    clients' = IF clients[p.client].phase = "waiting" /\ clients[p.client].number = p.number
               THEN [clients EXCEPT ![p.client].phase = IF what = "answer" THEN "done" ELSE "ready",
                                    ![p.client].got = IF what = "answer" THEN what ELSE "refused"]
               ELSE clients

-----------------------------------------------------------------------------
(* The handler.                                                            *)

Idle == job = NoJob /\ inbox # <<>>

\* _require_chat_auth; a key with characters outside ASCII makes
\* compare_digest raise a TypeError, which nobody catches.
AuthError(p) ==
    CASE ~KeyConfigured      -> "503"
      [] KeyConfigured /\ p.auth = "absent" -> "401"
      [] KeyConfigured /\ p.auth = "wrong"  -> "403"
      [] KeyConfigured /\ p.auth = "foreign" -> "500"
      [] KeyConfigured /\ p.auth = "right"  -> "none"

DenyAuth ==
    /\ Idle
    /\ AuthError(Head(inbox)) # "none"
    /\ Respond(Head(inbox), AuthError(Head(inbox)))
    /\ inbox' = Tail(inbox)
    /\ UNCHANGED <<job, sent, restarts, served, gateVars, vars>>

\* No task package: a fail-closed response, the provider code is not entered.
DenyBare ==
    /\ Idle
    /\ AuthError(Head(inbox)) = "none"
    /\ Head(inbox).pkg = NoPackage
    /\ Respond(Head(inbox), "missing")
    /\ inbox' = Tail(inbox)
    /\ UNCHANGED <<job, sent, restarts, served, gateVars, vars>>

\* answer_sufen, which in production is answer_with_provider.
Begin(r) ==
    /\ Idle
    /\ AuthError(Head(inbox)) = "none"
    /\ Head(inbox).pkg # NoPackage
    /\ r.task
    /\ job' = Head(inbox)
    /\ inbox' = Tail(inbox)
    /\ Enter(r)
    /\ UNCHANGED <<clients, sent, restarts, served, gateVars>>

\* ensure_safe_actions up to the lock.
Screen ==
    /\ pc = "gate"
    /\ \/ Guard!ScreenPass(Server, job.pkg, Guard!Production) /\ UNCHANGED vars
       \/ Guard!ScreenReject(Server, job.pkg, Guard!Production) /\ GateRejects
    /\ UNCHANGED serverVars

\* (mutant) A nonce in the table is let through.
AdmitReplays ==
    /\ pc = "gate"
    /\ \/ Guard!ConsumeFresh(Server)
       \/ /\ gpc[Server] = "locking"
          /\ gpc' = [gpc EXCEPT ![Server] = "accepted"]
          /\ UNCHANGED <<clock, setting, env, used, call, grants>>
    /\ \/ NoKey /\ UNCHANGED served
       \/ StartLoop /\ served' = [served EXCEPT ![job.pkg.token.nonce] = @ + 1]
    /\ UNCHANGED <<clients, inbox, job, sent, restarts>>

\* The critical section and, past it, the start of the conversation.
Admit ==
    /\ pc = "gate"
    /\ Guard!ConsumeFresh(Server)
    /\ \/ NoKey /\ UNCHANGED served
       \/ StartLoop /\ served' = [served EXCEPT ![job.pkg.token.nonce] = @ + 1]
    /\ UNCHANGED <<clients, inbox, job, sent, restarts>>

RefuseReplay ==
    /\ pc = "gate"
    /\ Guard!RejectReplay(Server)
    /\ GateRejects
    /\ UNCHANGED serverVars

Converse ==
    /\ Reply \/ Dispatch \/ Exhausted
    /\ UNCHANGED <<serverVars, gateVars>>

\* The handler returns: the response as JSON, the fail-closed response made
\* of a ProviderError or ValueError, or a 500 for what it does not catch.
Outcome == CASE pc = "answered" -> "answer" [] pc = "raised" -> "closed" [] pc = "crashed" -> "500"

\* (mutant) An exception that is not caught takes the event loop with it.
FinishUnlessCrashed ==
    /\ pc \in Ended \ {"crashed"}
    /\ Respond(job, Outcome)
    /\ job' = NoJob
    /\ Guard!Return(Server)
    /\ Leave
    /\ UNCHANGED <<inbox, sent, restarts, served>>

Finish ==
    /\ pc \in Ended
    /\ Respond(job, Outcome)
    /\ job' = NoJob
    /\ Guard!Return(Server)
    /\ Leave
    /\ UNCHANGED <<inbox, sent, restarts, served>>

-----------------------------------------------------------------------------
(* The process and the environment.                                        *)

\* (mutant) The table of nonces survives the restart, its count does not.
RestartKeepsTable ==
    /\ restarts < MaxRestarts
    /\ restarts' = restarts + 1
    /\ setting' = env
    /\ grants' = [n \in Nonce |-> 0]
    /\ gpc' = [c \in {Server} |-> "idle"]
    /\ call' = [c \in {Server} |-> NoCall]
    /\ UNCHANGED <<clock, env, used>>
    /\ Reset
    /\ clients' = [c \in Client |-> IF clients[c].phase = "waiting"
                                    THEN [clients[c] EXCEPT !.phase = "ready", !.got = "dropped"]
                                    ELSE clients[c]]
    /\ inbox' = <<>>
    /\ job' = NoJob
    /\ UNCHANGED sent
    /\ served' = [n \in Nonce |-> 0]

\* The process dies and is started again: open connections are dropped.
Restart ==
    /\ restarts < MaxRestarts
    /\ restarts' = restarts + 1
    /\ Guard!Restart
    /\ Reset
    /\ clients' = [c \in Client |-> IF clients[c].phase = "waiting"
                                    THEN [clients[c] EXCEPT !.phase = "ready", !.got = "dropped"]
                                    ELSE clients[c]]
    /\ inbox' = <<>>
    /\ job' = NoJob
    /\ UNCHANGED sent
    /\ served' = [n \in Nonce |-> 0]

TimePasses == Guard!Tick /\ UNCHANGED <<serverVars, vars>>

Handle ==
    \/ DenyAuth \/ DenyBare
    \/ \E r \in Requests : Begin(r)
    \/ Screen \/ Admit \/ RefuseReplay \/ Converse \/ Finish

SNext ==
    \/ \E c \in Client, auth \in Auth : Send(c, auth)
    \/ \E c \in Client : GiveUp(c)
    \/ Handle
    \/ Restart
    \/ TimePasses

SSpec == SInit /\ [][SNext]_allVars

\* The event loop keeps running while there is something to do; nothing is
\* assumed of the workers.
SFairSpec == SSpec /\ WF_allVars(Handle)

-----------------------------------------------------------------------------
STypeOK ==
    /\ clients \in [Client -> [phase : {"ready", "waiting", "done"}, number : 0 .. MaxPosts,
                               got : Got, pkg : Package \cup {NoPackage}]]
    /\ inbox \in Seq(Posted)
    /\ job \in Posted \cup {NoJob}
    /\ sent \in 0 .. MaxPosts
    /\ restarts \in 0 .. MaxRestarts
    /\ served \in [Nonce -> Nat]
    /\ Guard!TypeOK
    /\ TypeOK

\* Between two restarts the provider is talked to at most once for a nonce,
\* whoever sends the package again, for whatever reason and in whatever order
\* with the first request: a retry repeats no tool call and no model answer.
ConversationOncePerNonce == \A n \in Nonce : served[n] <= 1

\* While a conversation runs, the gate stands open for exactly this request,
\* its nonce is spent, and the token was alive when the request was screened,
\* though it may have expired while the request was waiting its turn.
ConversationIsGranted ==
    pc \in {"request", "dispatch", "exhausted"} =>
        /\ job # NoJob /\ job.auth = "right"
        /\ gpc[Server] = "accepted"
        /\ call[Server].pkg = job.pkg
        /\ job.pkg.token.nonce \in used
        /\ served[job.pkg.token.nonce] = 1

\* A worker holds an answer only for a package that went through the gate in
\* this process or an earlier one; without a restart a second worker, or a
\* second attempt, with the same nonce is left with a refusal.
AnswersNeverShared ==
    restarts = 0 =>
        \A c, d \in Client :
            clients[c].got = "answer" /\ clients[d].got = "answer" /\ c # d =>
                /\ NoPackage \notin {clients[c].pkg, clients[d].pkg}
                /\ clients[c].pkg.token.nonce # clients[d].pkg.token.nonce

\* What the service does for a worker rests on a package the gate let through,
\* and is done once.
ServesGrantedOnce ==
    STypeOK /\ ConversationOncePerNonce /\ ConversationIsGranted /\ AnswersNeverShared

\* Every request gets a reply, or its worker gives up or loses the connection:
\* none is left in the queue, whatever the requests before it ran into.
EveryPostServed == \A c \in Client : clients[c].phase = "waiting" ~> clients[c].phase # "waiting"

\* The composition does to the gate only what Delegation allows, and to the
\* conversation only what ProviderLoop allows, the restart included.
KeepsParts == Guard!Spec /\ Spec
=============================================================================
