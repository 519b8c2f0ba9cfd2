------------------------------ MODULE RunTree ------------------------------
(***************************************************************************)
(* The runs of the durable runtime and what they tell each other: the      *)
(* tables rt_runs, rt_run_wake, rt_signals and rt_signal_claims of         *)
(* runtime/persistence/store.py.  Every method of the store is one         *)
(* transaction (BEGIN IMMEDIATE on SQLite), so every action below is one    *)
(* call of a method, with everything that call changes in these tables.     *)
(*                                                                         *)
(* The helpers the code composes inside a transaction (_make_pending,       *)
(* _signal, _terminate, _suspend, ...) are operators from tables to tables, *)
(* named after them.  The clock is abstracted: a poll may find any lease    *)
(* expired, any timer due and any deadline passed.  Messages               *)
(* are added by Mailbox; here a delivery is only what it does to a run: it  *)
(* wakes a sleeping one or inserts a new one.                               *)
(***************************************************************************)
EXTENDS Integers, FiniteSets

CONSTANTS
    Run,         \* run ids, a finite supply of fresh ones
    NoRun,       \* the parent of a run nobody spawned
    Dated,       \* the runs created with a deadline: a client's, never a child's
    Name,        \* signal names other than "child:<run>" (replies, approvals)
    MaxRetries,  \* RunRetryPolicy.max_retries
    MaxSignals   \* bound on the copies of one such signal buffered for one run

ASSUME IdAssumption == NoRun \notin Run /\ Dated \subseteq Run /\ Run \cap Name = {}
ASSUME BoundAssumption == MaxRetries \in Nat /\ MaxSignals \in Nat

VARIABLE db

Asleep == {"pending", "suspended"}          \* live, and no worker executes it
Live   == Asleep \cup {"running"}           \* _ACTIVE
Ended  == {"completed", "failed", "cancelled"}   \* _TERMINAL
Status == {"absent"} \cup Live \cup Ended

\* The run c, used as a signal name, is the signal "child:c".
Signals == Name \cup Run

Tables == [status  : [Run -> Status],
           parent  : [Run -> Run \cup {NoRun}],
           cancel  : SUBSET Run,                    \* cancel_requested = 1
           retries : [Run -> 0 .. MaxRetries],
           wake    : [Run -> SUBSET Signals],       \* rt_run_wake
           timer   : SUBSET Run,                    \* wake_at IS NOT NULL
           buffer  : [Run -> [Signals -> Nat]],     \* rt_signals
           read    : SUBSET Run]                    \* "child:c" was claimed

InState(d, S)  == {r \in Run : d.status[r] \in S}
Children(d, R) == {c \in Run : d.parent[c] \in R}

\* The least set holding R and every run of S whose parent it holds.
Closure(d, R, S) ==
    {x \in Run : \A B \in SUBSET Run :
        R \subseteq B /\ (\A c \in S : d.parent[c] \in B => c \in B) => x \in B}

-----------------------------------------------------------------------------
(* The helpers every transaction is made of.                               *)

MakePending(d, S) ==
    LET woken == S \cap InState(d, {"suspended"})
    IN  [d EXCEPT !.status = [r \in Run |-> IF r \in woken THEN "pending" ELSE @[r]],
                  !.wake   = [r \in Run |-> IF r \in S THEN {} ELSE @[r]],
                  !.timer  = @ \ woken]

Signal(d, r, n) ==
    LET kept == [d EXCEPT !.buffer[r][n] = @ + 1]
    IN  IF d.status[r] \notin Live THEN d
        ELSE IF d.status[r] = "suspended" /\ n \in d.wake[r]
             THEN MakePending(kept, {r})
             ELSE kept

InsertRun(d, n, p) == [d EXCEPT !.status[n] = "pending", !.parent[n] = p]

\* A mutation: a parent is told of its child's end only while it sleeps.
TellSleepersOnly(d, gone, heads, outcome) ==
    LET Told(p) == {c \in gone : d.parent[c] = p}
        hearing == {p \in InState(d, {"suspended"}) \ gone : Told(p) \cap d.wake[p] # {}}
    IN  MakePending(
          [d EXCEPT
            !.status = [r \in Run |-> IF r \in heads THEN outcome
                                      ELSE IF r \in gone THEN "cancelled" ELSE @[r]],
            !.wake   = [r \in Run |-> IF r \in gone THEN {} ELSE @[r]],
            !.timer  = @ \ gone,
            !.buffer = [r \in Run |-> [n \in Signals |->
                          IF r \in gone THEN 0
                          ELSE IF r \in hearing /\ n \in Told(r) THEN @[r][n] + 1
                          ELSE @[r][n]]]], hearing)

\* Runs of "gone" end in one transaction: those of "heads" with the outcome,
\* the rest cancelled.  Each tells its parent, unless the parent has ended too.
EndRuns(d, gone, heads, outcome) ==
    LET Told(p)  == {c \in gone : d.parent[c] = p}
        hearing  == InState(d, Live) \ gone
        woken    == {p \in hearing : /\ d.status[p] = "suspended"
                                     /\ Told(p) \cap d.wake[p] # {}}
        closed   ==
          [d EXCEPT
            !.status = [r \in Run |-> IF r \in heads THEN outcome
                                      ELSE IF r \in gone THEN "cancelled" ELSE @[r]],
            !.wake   = [r \in Run |-> IF r \in gone THEN {} ELSE @[r]],
            !.timer  = @ \ gone,
            !.buffer = [r \in Run |-> [n \in Signals |->
                          IF r \in gone THEN 0
                          ELSE IF r \in hearing /\ n \in Told(r) THEN @[r][n] + 1
                          ELSE @[r][n]]]]
    IN  MakePending(closed, woken)

FlagRunning(d, R) == [d EXCEPT !.cancel = @ \cup (R \cap InState(d, {"running"}))]

\* A mutation: children a worker is executing are left alone.
TerminateSleepersOnly(d, R, outcome) ==
    EndRuns(d, IF outcome = "completed" THEN R ELSE Closure(d, R, InState(d, Asleep)),
            R, outcome)

\* A run that did not complete takes its live descendants with it, down to the
\* first one a worker is executing: that one is only asked to stop.
Terminate(d, R, outcome) ==
    IF outcome = "completed" THEN EndRuns(d, R, R, outcome)
    ELSE LET gone == Closure(d, R, InState(d, Asleep))
         IN  EndRuns(FlagRunning(d, Children(d, gone)), gone, R, outcome)

\* A mutation: runs of the subtree that have ended are cancelled again.
CancelEnded(d, r) ==
    LET tree == Closure(d, {r}, Run)
    IN  EndRuns(FlagRunning(d, tree), tree \ InState(d, {"running", "absent"}), {},
                "cancelled")

\* The whole subtree, children first, whatever runs in between.
CancelTree(d, r) ==
    LET tree == Closure(d, {r}, Run)
    IN  EndRuns(FlagRunning(d, tree), tree \cap InState(d, Asleep), {}, "cancelled")

FallAsleep(d, r, names, timed) ==
    [d EXCEPT !.status[r] = "suspended",
              !.wake[r]   = names,
              !.timer     = IF timed THEN @ \cup {r} ELSE @ \ {r}]

\* A mutation: what has already arrived is not looked at.
SuspendBlindly(d, r, wakeup) == FallAsleep(d, r, wakeup.names, wakeup.timed)

Suspend(d, r, wakeup) ==
    LET asleep == FallAsleep(d, r, wakeup.names, wakeup.timed)
        ready  == wakeup.due \/ \E n \in wakeup.names : d.buffer[r][n] > 0
    IN  IF ready THEN MakePending(asleep, {r}) ELSE asleep

Retry(d, r) == FallAsleep([d EXCEPT !.retries[r] = @ + 1], r, {}, TRUE)

\* What agent code sleeps on: join and sleep_until_signal (one name, no timer),
\* ask (the reply, perhaps the child too, and a deadline), sleep_until (a timer).
\* A timer may already be due when the run goes to sleep.
OneName(d, r)    == {{x} : x \in Name \cup Children(d, {r})}
TimedNames(d, r) == {{}} \cup {{n} : n \in Name}
                         \cup {{n, c} : n \in Name, c \in Children(d, {r})}

Wakeups(d, r) ==
    [names : OneName(d, r), timed : {FALSE}, due : {FALSE}]
    \cup [names : TimedNames(d, r), timed : {TRUE}, due : BOOLEAN]

-----------------------------------------------------------------------------
Init ==
    db = [status  |-> [r \in Run |-> "absent"],
          parent  |-> [r \in Run |-> NoRun],
          cancel  |-> {},
          retries |-> [r \in Run |-> 0],
          wake    |-> [r \in Run |-> {}],
          timer   |-> {},
          buffer  |-> [r \in Run |-> [n \in Signals |-> 0]],
          read    |-> {}]

\* A client submits a run, or a delivery finds its agent idle.
CreateRun(n) ==
    /\ db.status[n] = "absent"
    /\ db' = InsertRun(db, n, NoRun)

\* A delivery finds its agent asleep.
WakeByDelivery(r) ==
    /\ db.status[r] = "suspended"
    /\ db' = MakePending(db, {r})

\* One poll of a worker: reclaim expired leases, fire timers, fail what is past
\* its deadline, then claim what the worker has room for.
Reclaim(d, R) ==
    [d EXCEPT !.status = [r \in Run |-> IF r \in R THEN "pending" ELSE @[r]]]

Claim(d, R) ==
    [d EXCEPT !.status = [r \in Run |-> IF r \in R THEN "running" ELSE @[r]]]

Lease ==
    \E expired \in SUBSET InState(db, {"running"}),
       due \in SUBSET (db.timer \cap InState(db, {"suspended"})) :
      LET timed == MakePending(Reclaim(db, expired), due)
      IN  \E overdue \in SUBSET (Dated \cap InState(timed, Asleep)) :
            LET failed == Terminate(timed, overdue, "failed")
            IN  \E claimed \in SUBSET InState(failed, {"pending"}) :
                  db' = Claim(failed, claimed)

\* The rest are commits of the worker that holds the run's current lease.
Complete(r) ==
    /\ db.status[r] = "running"
    /\ db' = Terminate(db, {r}, "completed")

\* Mail is left for the agent: a follow-up run is inserted with the completion.
CompleteAndFollowUp(r, n) ==
    /\ db.status[r] = "running"
    /\ db.status[n] = "absent" /\ n \notin Dated
    /\ db' = InsertRun(Terminate(db, {r}, "completed"), n, NoRun)

Fail(r) ==
    /\ db.status[r] = "running"
    /\ db' = Terminate(db, {r}, "failed")

Cancel(r) ==
    /\ db.status[r] = "running"
    /\ db' = Terminate(db, {r}, "cancelled")

\* A mutation: a cancel request is overlooked by a run that goes to sleep.
SleepThrough(r, wakeup) ==
    /\ db.status[r] = "running"
    /\ wakeup \in Wakeups(db, r)
    /\ db' = Suspend(db, r, wakeup)

GoToSleep(r, wakeup) ==
    /\ db.status[r] = "running"
    /\ wakeup \in Wakeups(db, r)
    /\ db' = IF r \in db.cancel THEN Terminate(db, {r}, "cancelled")
             ELSE Suspend(db, r, wakeup)

\* Two mutations: the cancel request is overlooked; one retry too many.
RetryThrough(r) ==
    /\ db.status[r] = "running"
    /\ db.retries[r] < MaxRetries
    /\ db' = Retry(db, r)

RetryOnceMore(r) ==
    /\ db.status[r] = "running"
    /\ db.retries[r] <= MaxRetries
    /\ db' = IF r \in db.cancel THEN Terminate(db, {r}, "cancelled")
             ELSE Retry(db, r)

RetryLater(r) ==
    /\ db.status[r] = "running"
    /\ db.retries[r] < MaxRetries
    /\ db' = IF r \in db.cancel THEN Terminate(db, {r}, "cancelled")
             ELSE Retry(db, r)

Spawn(r, c) ==
    /\ db.status[r] = "running"
    /\ db.status[c] = "absent" /\ c \notin Dated
    /\ db' = InsertRun(db, c, r)

\* Not a commit: consume takes no lease, so a worker that has lost the run may
\* still call it.
Consume(r, n) ==
    /\ db.buffer[r][n] > 0
    /\ db' = [db EXCEPT !.buffer[r][n] = @ - 1,
                        !.read = @ \cup ({n} \cap Run)]

\* Anyone may signal a run by name: a reply, a person's decision.
SendSignal(r, n) ==
    /\ db.buffer[r][n] < MaxSignals
    /\ db.status[r] \in Live
    /\ db' = Signal(db, r, n)

RequestCancel(r) ==
    /\ db.status[r] # "absent"
    /\ db' = CancelTree(db, r)

-----------------------------------------------------------------------------
Next ==
    \/ Lease
    \/ \E r \in Run :
        \/ CreateRun(r)
        \/ WakeByDelivery(r)
        \/ Complete(r)
        \/ Fail(r)
        \/ Cancel(r)
        \/ RetryLater(r)
        \/ RequestCancel(r)
        \/ \E n \in Run : CompleteAndFollowUp(r, n)
        \/ \E c \in Run : Spawn(r, c)
        \/ \E wakeup \in Wakeups(db, r) : GoToSleep(r, wakeup)
        \/ \E n \in Signals : Consume(r, n)
        \/ \E n \in Name : SendSignal(r, n)

Spec == Init /\ [][Next]_db

\* Workers poll for ever, so no run stays pending for ever.  A worker that
\* executes a flagged run hears of it at its next heartbeat; a lease that expires
\* before that only postpones it.
ObserveCancel(r) == r \in db.cancel /\ Cancel(r)

Fairness == \A r \in Run : /\ []<>(db.status[r] # "pending")
                           /\ SF_db(ObserveCancel(r))

FairSpec == Spec /\ Fairness

-----------------------------------------------------------------------------
(* Properties.                                                             *)

\* Every table keeps the shape its schema gives it.
TypeOK == db \in Tables

\* No lost wakeup: a run is never asleep while a signal it waits for is in its
\* buffer, whichever of _suspend and _signal came first.
SleepersAreUnanswered(d) ==
    \A r \in Run : d.status[r] = "suspended" =>
        \A n \in d.wake[r] : d.buffer[r][n] = 0

NoLostWakeup == SleepersAreUnanswered(db)

\* A child tells its parent that it ended once, when it ends: never before, and
\* the report is either still buffered or was claimed, as long as the parent lives.
ReportsOnce(d) ==
    \A c \in Run : d.parent[c] # NoRun =>
        /\ d.status[c] \in Live => d.buffer[d.parent[c]][c] = 0 /\ c \notin d.read
        /\ d.status[c] \in Ended /\ d.status[d.parent[c]] \in Live
             => d.buffer[d.parent[c]][c] = IF c \in d.read THEN 0 ELSE 1

ReportedOnce == ReportsOnce(db)

\* A run whose parent failed or was cancelled has ended or was told to stop,
\* whatever it and its parent were doing when that happened.
OrphansAreFlagged(d) ==
    \A c \in Run : /\ d.status[c] \in Live
                   /\ d.parent[c] # NoRun
                   /\ d.status[d.parent[c]] \in {"failed", "cancelled"}
                   => c \in d.cancel

OrphansAreStopping == OrphansAreFlagged(db)

\* A cancel request is not slept through: a run told to stop goes neither to
\* sleep nor into retry backoff, so no timer or signal is needed to end it.
FlaggedAreAwake(d) == \A r \in d.cancel : d.status[r] # "suspended"

FlaggedNeverSleeps == FlaggedAreAwake(db)

\* A run told to stop ends, however often its lease expires on the way.
CancelledRunEnds ==
    \A r \in Run : r \in db.cancel ~> db.status[r] \in Ended

\* What parents are promised, stated without tables, timers or leases.
Life(r) == IF db.status[r] \in Live THEN "live" ELSE db.status[r]

Report(c) ==
    LET p == db.parent[c]
    IN  IF p = NoRun \/ db.status[c] \notin Ended THEN "none"
        ELSE IF c \in db.read THEN "read"
        ELSE IF db.status[p] \in Ended THEN "void"
        ELSE IF db.buffer[p][c] = 1 THEN "sent" ELSE "lost"

Parents == INSTANCE Supervision WITH
        parent <- db.parent,
        life   <- [r \in Run |-> Life(r)],
        report <- [r \in Run |-> Report(r)]

Supervised == Parents!Spec
=============================================================================
