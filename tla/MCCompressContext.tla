-------------------------- MODULE MCCompressContext --------------------------
(* CompressContext for TLC: short transcripts, a tail of three messages. *)
EXTENDS CompressContext, TLC

(* Each setting on and off; a separate summary model with the rotation that *)
(* a makeshift summary leads to.                                             *)
MCConfigs == {[inPlace |-> FALSE, abort |-> FALSE, aux |-> TRUE],
              [inPlace |-> FALSE, abort |-> TRUE, aux |-> FALSE],
              [inPlace |-> TRUE, abort |-> FALSE, aux |-> FALSE]}

(* The agents of a session are alike. *)
Alike == Permutations(Agents)
=============================================================================
