---------------------------- MODULE MCModelCall ----------------------------
(***************************************************************************)
(* Two fallbacks: one behind the portal's rate guard, so that a limited    *)
(* portal can be left; and the primary once more, which is skipped while   *)
(* it is in use and returned to otherwise.                                 *)
(***************************************************************************)
EXTENDS ModelCall

Fallbacks == <<"portal", "primary">>
ThePortal == {"portal"}
SomeReasons == RateLimits \cup Overflows \cup {"auth", "timeout", "client", "images"}
NoRepairs == {}
=============================================================================
