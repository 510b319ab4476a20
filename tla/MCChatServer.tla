---------------------------- MODULE MCChatServer ----------------------------
(***************************************************************************)
(* Two workers that may want the same package answered (a backend that     *)
(* hands a request on to a second worker), three POSTs, one restart.       *)
(***************************************************************************)
EXTENDS ChatServer

CONSTANTS w1, w2, n1, s1

MCClient == {w1, w2}
MCNonce == {n1}
MCSecret == {s1}

body(n, exp) == [actorAgent |-> "mystand", operatorUserId |-> "u1", subject |-> "p1", allowedActions |-> {"analyze"},
                 expiresAt |-> exp, nonce |-> n]
MCIssued == {body(n1, 1)}

package(op, b) ==
    [operator |-> op, subject |-> "p1", allowed |-> {"analyze"},
     denied |-> {"directWrite", "crossUserRead", "externalSend", "rawDbAccess", "memoryWrite"},
     token |-> [actorAgent |-> b.actorAgent, operatorUserId |-> b.operatorUserId, subject |-> b.subject,
                allowedActions |-> b.allowedActions, expiresAt |-> b.expiresAt, nonce |-> b.nonce,
                signature |-> [secret |-> s1, body |-> b]]]

\* A good package, and its token in a package for another operator.
MCPackage == {package("u1", body(n1, 1)), package("u2", body(n1, 1))}

ordinary == [task |-> TRUE, key |-> TRUE, context |-> "archive", property |-> FALSE,
             evidence |-> "full", supplied |-> {}, intent |-> "business", topics |-> {},
             again |-> [intent |-> "business", topics |-> {}]]
MCRequests == {ordinary, [ordinary EXCEPT !.key = FALSE]}

plain == [asks |-> FALSE, reveals |-> "nothing", long |-> FALSE, hedged |-> TRUE, persist |-> FALSE,
          memory |-> FALSE, drafts |-> "none", claims |-> 0]
MCAnswers == {plain, [plain EXCEPT !.asks = TRUE]}
=============================================================================
