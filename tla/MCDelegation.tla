---------------------------- MODULE MCDelegation ----------------------------
(***************************************************************************)
(* Small instance of Delegation: two callers, two secrets, two nonces and  *)
(* the packages below, one good one and one for each way to go wrong.      *)
(***************************************************************************)
EXTENDS Delegation, TLC

CONSTANTS c1, c2, n1, n2, s1, s2

MCCaller == {c1, c2}
MCNonce == {n1, n2}
MCSecret == {s1, s2}

body(op, sub, acts, exp, n) ==
    [actorAgent |-> "mystand", operatorUserId |-> op, subject |-> sub, allowedActions |-> acts,
     expiresAt |-> exp, nonce |-> n]

\* Two tokens for broker u1: both may analyse, the second also may draft.
short == body("u1", "p1", {"analyze"}, 1, n1)
long  == body("u1", "p1", {"analyze", "eventDraft"}, 2, n2)
\* A token the backend signed with a date that is not ISO-8601.
undated == body("u1", "p1", {"analyze"}, BadDate, n1)
\* One it signed with a nonce of spaces.
blank == body("u1", "p1", {"analyze"}, 1, BlankNonce)
MCIssued == {short, long, undated, blank}

token(b, s, sb) ==
    [actorAgent |-> b.actorAgent, operatorUserId |-> b.operatorUserId, subject |-> b.subject,
     allowedActions |-> b.allowedActions, expiresAt |-> b.expiresAt, nonce |-> b.nonce, signature |-> [secret |-> s, body |-> sb]]

package(op, sub, acts, denied, t) ==
    [operator |-> op, subject |-> sub, allowed |-> acts, denied |-> denied, token |-> t]

MCPackage ==
    { package("u1", "p1", {"analyze"}, Forbidden, token(short, s1, short)),
      package("u1", "p1", {"analyze", "eventDraft"}, Forbidden, token(long, s1, long)),
      package("u1", "p1", {"analyze"}, Forbidden, token(short, s2, short)),
      package("u1", "p1", {"analyze", "eventDraft"}, Forbidden, token(short, s1, short)),
      package("u2", "p1", {"analyze"}, Forbidden, token(short, s1, short)),
      package("u1", "p2", {"analyze"}, Forbidden, token(short, s1, short)),
      package("u1", "p1", {"analyze"}, Forbidden \ {"memoryWrite"}, token(short, s1, short)),
      package("u1", "p1", {"analyze"}, Forbidden, token([short EXCEPT !.expiresAt = 2], s1, short)),
      package("u1", "p1", {"analyze"}, Forbidden, token([short EXCEPT !.actorAgent = "other"], s1, short)),
      package("u1", "p1", {"analyze"}, Forbidden, token(undated, s1, undated)),
      package("u1", "p1", {"analyze"}, Forbidden, token(blank, s1, blank)),
      package("u1", "p1", {"analyze"}, Forbidden, [token(short, s1, short) EXCEPT !.signature = BlankSignature]),
      package("u1", "p1", {"analyze"}, Forbidden, NoToken) }
=============================================================================
