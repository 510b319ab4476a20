---------------------------- MODULE OneTimeGrant ----------------------------
(***************************************************************************)
(* What the delegation gate promises, with no word on how packages are     *)
(* screened: a nonce of an issued token is handed to one caller at a time  *)
(* and is spent by that, until the process forgets what was spent.         *)
(***************************************************************************)
CONSTANTS Caller, Grantable, Nobody

VARIABLES
    spent,     \* the nonces handed out since the last Forget
    holder     \* the nonce each caller is proceeding with

avars == <<spent, holder>>

Init ==
    /\ spent = {}
    /\ holder = [c \in Caller |-> Nobody]

Grant(c) ==
    /\ holder[c] = Nobody
    /\ \E n \in Grantable \ spent :
        /\ spent' = spent \cup {n}
        /\ holder' = [holder EXCEPT ![c] = n]

Release(c) ==
    /\ holder[c] # Nobody
    /\ holder' = [holder EXCEPT ![c] = Nobody]
    /\ UNCHANGED spent

\* The table is cleared under the running calls, or a restart drops both.
Forget ==
    /\ spent' = {}
    /\ holder' \in {holder, [c \in Caller |-> Nobody]}

Next ==
    \/ \E c \in Caller : Grant(c) \/ Release(c)
    \/ Forget

Spec == Init /\ [][Next]_avars
=============================================================================
