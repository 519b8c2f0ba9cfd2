---------------------------- MODULE MCDurableRun ----------------------------
(* DurableRun, with the programs its runs execute. *)
EXTENDS DurableRun

EffectsProgram == <<"once", "wait", "safe">>
AskProgram     == <<"ask", "once">>
=============================================================================
