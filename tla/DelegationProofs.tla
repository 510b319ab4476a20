-------------------------- MODULE DelegationProofs --------------------------
(***************************************************************************)
(* Proofs about Delegation for any number of callers, packages, secrets    *)
(* and nonces.  The inductive invariant says what the table of used nonces *)
(* knows (exactly the nonces granted once) and what a caller past the      *)
(* screening may rely on without holding the lock (Vetted): the package    *)
(* and the token it looked at are its own copy, so nothing another caller, *)
(* the clock or the environment does afterwards can unvet it.              *)
(***************************************************************************)
EXTENDS Delegation, TLAPS

Vetted(k) ==
    k.pkg.token # NoToken =>
        /\ Body(k.pkg.token) \in Issued
        /\ k.pkg.token.nonce \in Nonce
        /\ Matches(k.pkg)
        /\ Unexpired(k.pkg.token, k.seenAt)

TableMatchesGrants == \A n \in Nonce : grants[n] = IF n \in used THEN 1 ELSE 0

CallsVetted ==
    \A c \in Caller : pc[c] \in {"locking", "accepted"} => call[c] \in Call /\ Vetted(call[c])

WaitersConsume == \A c \in Caller : pc[c] = "locking" => Consumes(c)

OthersForgotten == \A c \in Caller : pc[c] \in {"idle", "rejected"} => call[c] = NoCall

IInv == TypeOK /\ TableMatchesGrants /\ CallsVetted /\ WaitersConsume /\ OthersForgotten

\* What the screening establishes about a package with a token: its body was
\* issued, because a digest of it under any secret comes from the backend.
LEMMA ScreenedIsVetted ==
    ASSUME NEW p \in Package, NEW m \in Mode, clock \in 0 .. MaxClock, Screened(p, m)
    PROVE  Vetted([pkg |-> p, mode |-> m, seenAt |-> clock])
<1>1. SUFFICES ASSUME p.token # NoToken
               PROVE  /\ Body(p.token) \in Issued
                      /\ p.token.nonce \in Nonce
                      /\ Matches(p)
                      /\ Unexpired(p.token, clock)
  BY DEF Vetted
<1>2. Matches(p) /\ Unexpired(p.token, clock) /\ Signed(p.token, EffectiveSecret(m))
  BY <1>1 DEF Screened
<1>3. p.token.nonce \in Nonce
  BY <1>1, <1>2, PackageAssumption DEF Signed
<1>4. p.token.signature.body = Body(p.token)
  BY <1>2 DEF Signed, Sign
<1>5. Body(p.token) \in Issued
  BY <1>1, <1>2, <1>4, PackageAssumption DEF Signed
<1> QED BY <1>2, <1>3, <1>5

LEMMA InitIInv == Init => IInv
BY SentinelAssumption
   DEF Init, IInv, TypeOK, TableMatchesGrants, CallsVetted, WaitersConsume, OthersForgotten

LEMMA StepIInv == IInv /\ [Next]_vars => IInv'
<1> SUFFICES ASSUME IInv, [Next]_vars PROVE IInv'
  OBVIOUS
<1> USE DEF IInv
<1>1. ASSUME NEW c \in Caller, NEW p \in Package, NEW m \in Mode, ScreenReject(c, p, m) PROVE IInv'
  BY <1>1 DEF ScreenReject, TypeOK, TableMatchesGrants, CallsVetted, WaitersConsume, OthersForgotten, Consumes, Token
<1>2. ASSUME NEW c \in Caller, NEW p \in Package, NEW m \in Mode, ScreenPass(c, p, m) PROVE IInv'
  <2>1. /\ Screened(p, m)
        /\ call' = [call EXCEPT ![c] = [pkg |-> p, mode |-> m, seenAt |-> clock]]
        /\ pc' = [pc EXCEPT ![c] = IF p.token # NoToken /\ m.consume THEN "locking" ELSE "accepted"]
    BY <1>2 DEF ScreenPass
  <2>2. UNCHANGED <<clock, setting, env, used, grants>>
    BY <1>2 DEF ScreenPass
  <2>3. [pkg |-> p, mode |-> m, seenAt |-> clock] \in Call
    BY DEF Call, TypeOK
  <2>4. TypeOK'
    BY <2>1, <2>2, <2>3 DEF TypeOK
  <2>5. TableMatchesGrants'
    BY <2>2 DEF TableMatchesGrants
  <2>6. Vetted([pkg |-> p, mode |-> m, seenAt |-> clock])
    BY <2>1, ScreenedIsVetted DEF TypeOK
  <2>7. CallsVetted'
    BY <2>1, <2>3, <2>6 DEF CallsVetted, TypeOK
  <2>8. WaitersConsume'
    BY <2>1 DEF WaitersConsume, Consumes, Token, TypeOK
  <2>9. OthersForgotten'
    BY <2>1 DEF OthersForgotten, TypeOK
  <2> QED BY <2>4, <2>5, <2>7, <2>8, <2>9
<1>3. ASSUME NEW c \in Caller, ConsumeFresh(c) PROVE IInv'
  <2>1. Token(c).nonce \in Nonce
    BY <1>3 DEF ConsumeFresh, CallsVetted, WaitersConsume, Consumes, Vetted, Token
  <2>2. TypeOK'
    BY <1>3, <2>1 DEF ConsumeFresh, TypeOK
  <2>3. TableMatchesGrants'
    BY <1>3, <2>1 DEF ConsumeFresh, TableMatchesGrants, TypeOK
  <2>4. CallsVetted' /\ WaitersConsume' /\ OthersForgotten'
    BY <1>3 DEF ConsumeFresh, CallsVetted, WaitersConsume, OthersForgotten, Consumes, Token, TypeOK
  <2> QED BY <2>2, <2>3, <2>4
<1>4. ASSUME NEW c \in Caller, RejectReplay(c) \/ Return(c) PROVE IInv'
  BY <1>4 DEF RejectReplay, Return, TypeOK, TableMatchesGrants, CallsVetted, WaitersConsume,
              OthersForgotten, Consumes, Token
<1>5. CASE ClearNonceCache
  BY <1>5 DEF ClearNonceCache, TypeOK, TableMatchesGrants, CallsVetted, WaitersConsume,
              OthersForgotten, Consumes, Token
<1>6. CASE Restart
  BY <1>6 DEF Restart, TypeOK, TableMatchesGrants, CallsVetted, WaitersConsume, OthersForgotten
<1>7. CASE EditEnv \/ Tick
  <2>1. clock' \in 0 .. MaxClock /\ env' \in Secret \cup {NoSecret}
    BY <1>7, SentinelAssumption DEF EditEnv, Tick, TypeOK
  <2>2. UNCHANGED <<setting, used, pc, call, grants>>
    BY <1>7 DEF EditEnv, Tick
  <2> QED BY <2>1, <2>2 DEF TypeOK, TableMatchesGrants, CallsVetted, WaitersConsume,
                            OthersForgotten, Consumes, Token
<1>8. CASE UNCHANGED vars
  BY <1>8 DEF vars, TypeOK, TableMatchesGrants, CallsVetted, WaitersConsume, OthersForgotten, Consumes, Token
<1> QED BY <1>1, <1>2, <1>3, <1>4, <1>5, <1>6, <1>7, <1>8 DEF Next

\* The inductive invariant holds of every state of the gate.
THEOREM Inductive == Spec => []IInv
BY InitIInv, StepIInv, PTL DEF Spec

\* The gate's variables keep their types: in particular the nonce table only
\* ever holds nonces, never the blank one _verify_delegation_token refuses.
THEOREM TypeCorrect == Spec => []TypeOK
<1>1. IInv => TypeOK
  BY DEF IInv
<1> QED BY <1>1, Inductive, PTL

\* However many callers race through the screening, _NONCE_LOCK lets a nonce
\* through at most once between two clearings of the table.
THEOREM GrantedOnce == Spec => []NonceGrantedOnce
<1>1. IInv => NonceGrantedOnce
  BY DEF IInv, TableMatchesGrants, NonceGrantedOnce
<1> QED BY <1>1, Inductive, PTL

\* A caller that was let through with a token holds one the backend issued
\* for exactly this operator and subject.
THEOREM Authentic == Spec => []GrantIsIssued
<1>1. IInv => GrantIsIssued
  BY DEF IInv, CallsVetted, GrantIsIssued, Vetted, Matches, Unexpired, Body, Token
<1> QED BY <1>1, Inductive, PTL

\* No rejected package burns a nonce, wherever the rejection happens.
THEOREM RejectionSpendsNothing == Spec => OnlyGrantsSpend
<1>1. IInv /\ [Next]_vars =>
        [\A n \in used' \ used :
           \E c \in Caller : pc[c] = "locking" /\ pc'[c] = "accepted" /\ Token(c).nonce = n]_vars
  <2> SUFFICES ASSUME IInv, Next, NEW n \in used' \ used
               PROVE  \E c \in Caller : pc[c] = "locking" /\ pc'[c] = "accepted" /\ Token(c).nonce = n
    OBVIOUS
  <2>1. PICK c \in Caller : ConsumeFresh(c)
    BY DEF Next, ScreenReject, ScreenPass, RejectReplay, Return, ClearNonceCache, Restart, EditEnv, Tick
  <2> QED BY <2>1 DEF ConsumeFresh, IInv, TypeOK
<1> QED BY <1>1, Inductive, PTL DEF Spec, OnlyGrantsSpend

\* The gate implements the one-time promise: every step is a grant of an
\* unspent issued nonce, a release, a forgetting, or invisible.
THEOREM Refinement == Spec => RefinesPromise
<1>1. Init => Promise!Init
  BY DEF Init, Promise!Init, holder
<1>2. IInv /\ [Next]_vars => [Promise!Next]_(Promise!avars)
  <2> SUFFICES ASSUME IInv, [Next]_vars PROVE [Promise!Next]_(Promise!avars)
    OBVIOUS
  <2> USE DEF Promise!avars
  <2>1. ASSUME NEW c \in Caller, NEW p \in Package, NEW m \in Mode,
               ScreenReject(c, p, m) \/ ScreenPass(c, p, m)
        PROVE  UNCHANGED <<used, holder>>
    BY <2>1 DEF ScreenReject, ScreenPass, holder, IInv, TypeOK, Consumes, Token
  <2>2. ASSUME NEW c \in Caller, ConsumeFresh(c) PROVE Promise!Grant(c)
    <3>1. holder[c] = NoToken
      BY <2>2 DEF ConsumeFresh, holder
    <3>2. Body(Token(c)) \in Issued /\ Body(Token(c)).nonce = Token(c).nonce
      BY <2>2 DEF ConsumeFresh, IInv, CallsVetted, WaitersConsume, Consumes, Vetted, Token, Body
    <3>4. Token(c).nonce \in {b.nonce : b \in Issued} \ used
      BY <2>2, <3>2 DEF ConsumeFresh
    <3>3. holder' = [holder EXCEPT ![c] = Token(c).nonce]
      BY <2>2 DEF ConsumeFresh, holder, IInv, TypeOK, WaitersConsume, Consumes, Token
    <3> QED BY <2>2, <3>1, <3>3, <3>4 DEF ConsumeFresh, Promise!Grant
  <2>3. ASSUME NEW c \in Caller, Return(c) PROVE Promise!Release(c) \/ UNCHANGED <<used, holder>>
    <3>1. holder' = [holder EXCEPT ![c] = NoToken] /\ used' = used
      BY <2>3 DEF Return, holder, IInv, TypeOK, Consumes, Token
    <3>2. CASE holder[c] = NoToken
      BY <3>1, <3>2 DEF holder
    <3>3. CASE holder[c] # NoToken
      BY <3>1, <3>3 DEF Promise!Release
    <3> QED BY <3>2, <3>3
  <2>4. CASE ClearNonceCache
    BY <2>4 DEF ClearNonceCache, Promise!Next, Promise!Forget, holder, Consumes, Token
  <2>5. CASE Restart
    BY <2>5 DEF Restart, Promise!Next, Promise!Forget, holder
  <2>6. CASE EditEnv \/ Tick \/ UNCHANGED vars
    BY <2>6 DEF EditEnv, Tick, vars, holder, Consumes, Token
  <2>7. ASSUME NEW c \in Caller, RejectReplay(c) PROVE UNCHANGED <<used, holder>>
    BY <2>7 DEF RejectReplay, holder, IInv, TypeOK, Consumes, Token
  <2> QED BY <2>1, <2>2, <2>3, <2>4, <2>5, <2>6, <2>7 DEF Next, Promise!Next
<1> QED BY <1>1, <1>2, Inductive, PTL DEF Spec, RefinesPromise, Promise!Spec

\* Every acceptance rests on an issued token nobody else was accepted with.
THEOREM GrantsAreSound == Spec => []GrantsSound
BY TypeCorrect, GrantedOnce, Authentic, PTL DEF GrantsSound
=============================================================================
