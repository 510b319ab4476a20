----------------------------- MODULE MCTurnLoop -----------------------------
(***************************************************************************)
(* Every recovery is repeated at most once; three iterations and a grace   *)
(* call are enough for one recovery to be repeated, to give up, or to be   *)
(* followed by another, and two steers for one to come between the drain   *)
(* and the putting back of the other.                                      *)
(***************************************************************************)
EXTENDS TurnLoop

OnceEach == [r \in Recovery |-> 1]
=============================================================================
