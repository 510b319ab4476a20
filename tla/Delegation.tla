----------------------------- MODULE Delegation -----------------------------
(***************************************************************************)
(* sufen/task_package.py: the gate every task package passes before SuFen  *)
(* calls a provider or a tool.  ensure_safe_actions screens the package    *)
(* and its delegation token with no lock held; only the test-and-add on    *)
(* the table of used nonces runs under _NONCE_LOCK.  Several callers may   *)
(* be between the screening and the lock at the same time, the clock moves *)
(* on meanwhile, and a restart of the process empties the table.           *)
(***************************************************************************)
EXTENDS Naturals, FiniteSets

CONSTANTS
    Caller,      \* threads that call ensure_safe_actions
    Package,     \* the task packages the My Stand backend may send
    Issued,      \* the token bodies that backend has really signed
    Nonce,       \* the non-blank nonces
    Secret,      \* possible values of SUFEN_DELEGATION_HMAC_SECRET
    MaxClock,    \* the clock stops here
    NoCall, NoToken, NoSecret, BlankNonce, BlankSignature, BadDate

\* The five actions a package has to deny.
Forbidden == {"directWrite", "crossUserRead", "externalSend", "rawDbAccess", "memoryWrite"}

\* The token fields an HMAC covers (the issuer and audience are literals).
Body(t) == [actorAgent |-> t.actorAgent, operatorUserId |-> t.operatorUserId, subject |-> t.subject,
            allowedActions |-> t.allowedActions, expiresAt |-> t.expiresAt, nonce |-> t.nonce]

Sign(t, s) == [secret |-> s, body |-> Body(t)]

\* A keyed digest of a body exists only if the backend computed it.
ASSUME PackageAssumption ==
    \A p \in Package : p.token # NoToken =>
        /\ p.token.nonce \in Nonce \cup {BlankNonce}
        /\ p.token.expiresAt \in Nat \cup {BadDate}
        /\ p.token.signature # BlankSignature => p.token.signature.body \in Issued

\* How a caller invokes the gate.  answer_with_provider passes its own secret
\* and requires a token, the fake provider does neither; consume_nonce is a
\* parameter that no caller in the repository switches off.
Production == [explicit |-> TRUE,  require |-> TRUE,  consume |-> TRUE]
Fake       == [explicit |-> FALSE, require |-> FALSE, consume |-> TRUE]
DryCheck   == [explicit |-> TRUE,  require |-> TRUE,  consume |-> FALSE]
Mode       == {Production, Fake, DryCheck}

VARIABLES
    clock,     \* UTC now
    setting,   \* the secret in the settings loaded at start-up
    env,       \* the secret in the environment and .env files at present
    used,      \* _USED_NONCES
    pc,        \* where each caller is
    call,      \* its package, its mode and the time it read, while they matter
    grants     \* history: acceptances per nonce since the table was last empty

vars == <<clock, setting, env, used, pc, call, grants>>

Call == [pkg : Package, mode : Mode, seenAt : 0 .. MaxClock]

ASSUME SentinelAssumption ==
    /\ NoSecret \notin Secret
    /\ BlankNonce \notin Nonce
    /\ NoToken \notin Nonce
    /\ NoCall \notin Call
    /\ BadDate \notin Nat
    /\ MaxClock \in Nat

Token(c) == call[c].pkg.token
Consumes(c) == Token(c) # NoToken /\ call[c].mode.consume

-----------------------------------------------------------------------------
(* The tests of ensure_safe_actions that precede the lock.                 *)

DeniesForbidden(p) == Forbidden \subseteq p.denied

\* (mutant) The actions of the package are not compared.
MatchesAnyAction(p) == p.token.operatorUserId = p.operator /\ p.token.subject = p.subject

Matches(p) ==
    /\ p.token.operatorUserId = p.operator
    /\ p.token.subject = p.subject
    /\ p.allowed \subseteq p.token.allowedActions

Unexpired(t, now) == t.expiresAt # BadDate /\ t.expiresAt > now

\* settings.delegation_hmac_secret, or the environment when that is empty.
EffectiveSecret(m) == IF m.explicit /\ setting # NoSecret THEN setting ELSE env

Signed(t, s) ==
    /\ t.nonce # BlankNonce
    /\ t.signature # BlankSignature
    /\ s # NoSecret
    /\ t.signature = Sign(t, s)

Screened(p, m) ==
    /\ DeniesForbidden(p)
    /\ IF p.token = NoToken
       THEN ~m.require
       ELSE Matches(p) /\ Unexpired(p.token, clock) /\ Signed(p.token, EffectiveSecret(m))

-----------------------------------------------------------------------------
TypeOK ==
    /\ clock \in 0 .. MaxClock
    /\ setting \in Secret \cup {NoSecret}
    /\ env \in Secret \cup {NoSecret}
    /\ used \subseteq Nonce
    /\ pc \in [Caller -> {"idle", "locking", "accepted", "rejected"}]
    /\ call \in [Caller -> Call \cup {NoCall}]
    /\ grants \in [Nonce -> Nat]

Init ==
    /\ clock = 0
    /\ setting \in Secret \cup {NoSecret}
    /\ env = setting
    /\ used = {}
    /\ pc = [c \in Caller |-> "idle"]
    /\ call = [c \in Caller |-> NoCall]
    /\ grants = [n \in Nonce |-> 0]

\* (mutant) The nonce is spent before the package is screened.
ScreenRejectSpends(c, p, m) ==
    /\ pc[c] = "idle"
    /\ ~Screened(p, m)
    /\ p.token # NoToken /\ p.token.nonce \in Nonce
    /\ used' = used \cup {p.token.nonce}
    /\ pc' = [pc EXCEPT ![c] = "rejected"]
    /\ UNCHANGED <<clock, setting, env, call, grants>>

\* Everything ensure_safe_actions does before it takes the lock: a package
\* that fails a test is rejected, ...
ScreenReject(c, p, m) ==
    /\ pc[c] = "idle"
    /\ ~Screened(p, m)
    /\ pc' = [pc EXCEPT ![c] = "rejected"]
    /\ UNCHANGED <<clock, setting, env, used, call, grants>>

\* ... one whose nonce is to be consumed goes on to the lock, and one with
\* no token, or for a caller that consumes none, is accepted.
ScreenPass(c, p, m) ==
    /\ pc[c] = "idle"
    /\ Screened(p, m)
    /\ call' = [call EXCEPT ![c] = [pkg |-> p, mode |-> m, seenAt |-> clock]]
    /\ pc' = [pc EXCEPT ![c] = IF p.token # NoToken /\ m.consume THEN "locking" ELSE "accepted"]
    /\ UNCHANGED <<clock, setting, env, used, grants>>

\* (mutant) The nonce is not looked up.
ConsumeUntested(c) ==
    /\ pc[c] = "locking"
    /\ used' = used \cup {Token(c).nonce}
    /\ grants' = [grants EXCEPT ![Token(c).nonce] = @ + 1]
    /\ pc' = [pc EXCEPT ![c] = "accepted"]
    /\ UNCHANGED <<clock, setting, env, call>>

\* The critical section, for a nonce seen for the first time.
ConsumeFresh(c) ==
    /\ pc[c] = "locking"
    /\ Token(c).nonce \notin used
    /\ used' = used \cup {Token(c).nonce}
    /\ grants' = [grants EXCEPT ![Token(c).nonce] = @ + 1]
    /\ pc' = [pc EXCEPT ![c] = "accepted"]
    /\ UNCHANGED <<clock, setting, env, call>>

\* The critical section, for a nonce that is in the table.
RejectReplay(c) ==
    /\ pc[c] = "locking"
    /\ Token(c).nonce \in used
    /\ pc' = [pc EXCEPT ![c] = "rejected"]
    /\ call' = [call EXCEPT ![c] = NoCall]
    /\ UNCHANGED <<clock, setting, env, used, grants>>

\* The answer, or the ValueError, reaches whoever called.
Return(c) ==
    /\ pc[c] \in {"accepted", "rejected"}
    /\ pc' = [pc EXCEPT ![c] = "idle"]
    /\ call' = [call EXCEPT ![c] = NoCall]
    /\ UNCHANGED <<clock, setting, env, used, grants>>

\* clear_delegation_nonce_cache
ClearNonceCache ==
    /\ used' = {}
    /\ grants' = [n \in Nonce |-> 0]
    /\ UNCHANGED <<clock, setting, env, pc, call>>

\* The process stops and starts again: the table and the calls are gone and
\* the settings are read anew.
Restart ==
    /\ setting' = env
    /\ used' = {}
    /\ grants' = [n \in Nonce |-> 0]
    /\ pc' = [c \in Caller |-> "idle"]
    /\ call' = [c \in Caller |-> NoCall]
    /\ UNCHANGED <<clock, env>>

\* The environment: an operator edits .env, and time passes.
EditEnv ==
    /\ env' \in Secret \cup {NoSecret}
    /\ UNCHANGED <<clock, setting, used, pc, call, grants>>

Tick ==
    /\ clock < MaxClock
    /\ clock' = clock + 1
    /\ UNCHANGED <<setting, env, used, pc, call, grants>>

Next ==
    \/ \E c \in Caller, p \in Package, m \in Mode : ScreenReject(c, p, m) \/ ScreenPass(c, p, m)
    \/ \E c \in Caller : ConsumeFresh(c) \/ RejectReplay(c) \/ Return(c)
    \/ ClearNonceCache
    \/ Restart
    \/ EditEnv
    \/ Tick

Spec == Init /\ [][Next]_vars

-----------------------------------------------------------------------------
\* Two callers that screened the same token side by side are not both let
\* through: between two clearings of the table a nonce is accepted at most
\* once, however the screenings and the critical sections interleave
\* (test and add are one critical section of _verify_delegation_token).
NonceGrantedOnce == \A n \in Nonce : grants[n] <= 1

\* Whatever a caller was let through with is a token the backend issued, for
\* this operator and subject, covering every action the package asks for, and
\* alive when it was read, even if the secret or the clock moved on while the
\* caller waited for the lock.
GrantIsIssued ==
    \A c \in Caller : pc[c] = "accepted" /\ Token(c) # NoToken =>
        \E b \in Issued :
            /\ b = Body(Token(c))
            /\ b.operatorUserId = call[c].pkg.operator
            /\ b.subject = call[c].pkg.subject
            /\ call[c].pkg.allowed \subseteq b.allowedActions
            /\ b.expiresAt # BadDate
            /\ b.expiresAt > call[c].seenAt

\* What a package that was let through stands on: a token that was issued for
\* it and that nobody else was let through with.
GrantsSound == TypeOK /\ NonceGrantedOnce /\ GrantIsIssued

\* A rejected call burns no nonce: the table grows only by the nonce of the
\* caller that is accepted in the same step, so that a package refused for its
\* operator, date or signature can be corrected and sent again.
OnlyGrantsSpend ==
    [][\A n \in used' \ used :
          \E c \in Caller : pc[c] = "locking" /\ pc'[c] = "accepted" /\ Token(c).nonce = n]_vars

-----------------------------------------------------------------------------
(* What the gate promises, see OneTimeGrant.                               *)
holder == [c \in Caller |->
             IF pc[c] = "accepted" /\ Consumes(c) THEN Token(c).nonce ELSE NoToken]

Promise == INSTANCE OneTimeGrant WITH
    Nobody <- NoToken,
    Grantable <- {b.nonce : b \in Issued},
    spent <- used

RefinesPromise == Promise!Spec
=============================================================================
