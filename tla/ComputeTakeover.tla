--------------------------- MODULE ComputeTakeover ---------------------------
(***************************************************************************)
(* Several controllers share one PostgreSQL database.  The lock of the     *)
(* elected one is held by a database session: when the session breaks      *)
(* another controller is elected at once, and the first finds out at its   *)
(* next try.                                                               *)
(***************************************************************************)
EXTENDS ComputeJobs

\* The session that holds the election lock breaks; its controller does not know.
LoseSession(c) ==
  /\ lock = c
  /\ Fault("session")
  /\ lock' = None
  /\ UNCHANGED <<table, leads, closing, main, exec, broken, work>>

\* demote, at its next try to acquire: followers that have not started are
\* cancelled, the others go on.
Demote(c) ==
  /\ c \in leads /\ lock # c /\ main[c].op # "tick"
  /\ leads' = leads \ {c}
  /\ \E S \in SUBSET {e \in exec : e.by = c /\ e.at = "start"} : exec' = exec \ S
  /\ broken' = [broken EXCEPT ![c] = {}]
  /\ UNCHANGED <<table, lock, closing, main, work, faults>>

TakeoverNext == Next \/ \E c \in Controllers : LoseSession(c) \/ Demote(c)

TakeoverSpec == Init /\ [][TakeoverNext]_vars

\* What a controller that takes over finds running is stopped and replayed: a
\* job ends as cancelled only when somebody asked for that.
CancelledWhenAsked == \A j \in Jobs : job[j].state = "cancelled" => job[j].cancel
=============================================================================
