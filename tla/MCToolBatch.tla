---------------------------- MODULE MCToolBatch -----------------------------
(* ToolBatch: two calls that both need a person; or one that does, idempotent   *)
(* or not, next to one that does not; one request may be answered twice, and an *)
(* agent may allow a retry or none.                                            *)
EXTENDS ToolBatch

SomeTurns == {[risky |-> {1, 2}, idempotent |-> {},  decisions |-> 1, retries |-> 1],
              [risky |-> {1},    idempotent |-> {1}, decisions |-> 2, retries |-> 1],
              [risky |-> {2},    idempotent |-> {1}, decisions |-> 1, retries |-> 0]}
=============================================================================
