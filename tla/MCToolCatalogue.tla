-------------------------- MODULE MCToolCatalogue --------------------------
(***************************************************************************)
(* Two threads, alike; the 30 and 60 seconds of the code become 1 and 2    *)
(* ticks, the memo's 8 entries one.  A toolset that is written down, with  *)
(* the tool that has a check, and one that is discovered; it is asked for  *)
(* both or the first.                                                      *)
(***************************************************************************)
EXTENDS ToolCatalogue, TLC

CONSTANTS t1, t2, checked, plain, base, mcp

MCThread == {t1, t2}
MCSymmetry == Permutations(MCThread)
MCTool == {checked, plain}
MCToolset == {base, mcp}
MCStatic == [toolset \in MCToolset |-> IF toolset = base THEN {checked} ELSE {}]
MCRequest == {{base, mcp}, {base}}
MCInitial == [n \in MCTool |-> IF n = checked THEN [toolset |-> base, since |-> 0]
                                             ELSE [toolset |-> None, since |-> 0]]
=============================================================================
