---------------------------- MODULE Supervision ----------------------------
(***************************************************************************)
(* What the runtime promises about runs and their parents: a run lives,    *)
(* then ends, and how it ended never changes; a run that ends while its     *)
(* parent lives has its report sent in that very step, once; a report that  *)
(* was sent is read at most once, and is void only if the parent ended      *)
(* before reading it.  RunTree implements it.                              *)
(***************************************************************************)
CONSTANTS Run, NoRun

VARIABLES
    parent,   \* who spawned the run
    life,     \* "absent", "live", or how the run ended
    report    \* "none", or what became of the run's report to its parent

vars == <<parent, life, report>>

Outcome == {"completed", "failed", "cancelled"}

Init ==
    /\ parent = [r \in Run |-> NoRun]
    /\ life   = [r \in Run |-> "absent"]
    /\ report = [r \in Run |-> "none"]

LifeGoesOn(r) ==
    \/ life'[r] = life[r]
    \/ life[r] = "absent" /\ life'[r] = "live"
    \/ life[r] = "live" /\ life'[r] \in Outcome

ParentIsFixed(r) ==
    \/ parent'[r] = parent[r]
    \/ life[r] = "absent" /\ life'[r] = "live" /\ life[parent'[r]] = "live"

Ends(r) == life[r] = "live" /\ life'[r] # "live"

\* The report of r in the next state, given the one it has.
ReportGoesOn(r) ==
    LET p        == parent[r]
        orphaned == life'[p] \in Outcome
    IN  CASE p = NoRun            -> report'[r] = "none"
          [] p # NoRun /\ Ends(r) -> report'[r] = IF orphaned THEN "void" ELSE "sent"
          [] p # NoRun /\ ~Ends(r) /\ report[r] = "sent" ->
                report'[r] \in IF orphaned THEN {"void", "read"} ELSE {"sent", "read"}
          [] OTHER                -> report'[r] = report[r]

Next == \A r \in Run : LifeGoesOn(r) /\ ParentIsFixed(r) /\ ReportGoesOn(r)

Spec == Init /\ [][Next]_vars
=============================================================================
