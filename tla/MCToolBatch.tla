---------------------------- MODULE MCToolBatch ----------------------------
(***************************************************************************)
(* Two threads: both calls run at once, or one worker takes the second     *)
(* from the queue when it is done with the first.                          *)
(***************************************************************************)
EXTENDS ToolBatch

CONSTANTS t1, t2

Two == {t1, t2}
=============================================================================
