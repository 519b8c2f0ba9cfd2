----------------------------- MODULE ComputeJobs -----------------------------
(***************************************************************************)
(* The batch jobs of the data platform: the table of jobs, the controllers *)
(* that schedule them, the thread that follows each attempt, and the       *)
(* worker the attempts run on.  A lock (on a file with SQLite, in the      *)
(* database with PostgreSQL) is held by one controller until it ends;      *)
(* `ComputeTakeover' adds controllers that lose it and live.               *)
(*                                                                         *)
(* A transaction of the job table is one step, except `finish', which      *)
(* reads the row and updates it in two statements that nothing holds       *)
(* together.  A controller does one thing at a time under its lock (main), *)
(* besides its followers, which take no lock.                              *)
(***************************************************************************)
EXTENDS Integers, FiniteSets, FiniteSetsExt

CONSTANTS
  Jobs,          \* jobs, named by their idempotency key
  Controllers,   \* controller processes
  MaxAttempts,   \* max_attempts of every job
  MaxQueue,      \* max_queue of the resource
  Concurrency,   \* concurrency of the resource
  Slots,         \* worker_concurrency of the worker
  MaxClaims,     \* bound: claims of one job that are explored
  Faults,        \* what may go wrong: some of AllFaults
  MaxFaults      \* bound: how often, together

AllFaults == {"crash", "close", "worker", "database", "session"}

ASSUME ComputeAssumption ==
  /\ {MaxAttempts, MaxQueue, Concurrency, Slots, MaxClaims} \subseteq Nat \ {0}
  /\ MaxFaults \in Nat /\ Faults \subseteq AllFaults
  /\ "none" \notin Controllers

VARIABLES
  job,       \* the jobs table: state, attempts, cancel flag
  resource,  \* "ready", "unready" (not answering its probe), "stopped", "gone"
  lock,      \* the controller that holds the election lock, or None
  leads,     \* controllers whose is_leader is set
  closing,   \* controllers whose shutdown is set
  main,      \* what each controller is doing under its lock
  exec,      \* the followers: one thread per attempt being followed
  broken,    \* per controller, jobs whose follower raised an error
  work,      \* the worker: what it knows of each job, and its processes
  faults

vars == <<job, resource, lock, leads, closing, main, exec, broken, work, faults>>
table == <<job, resource>>
control == <<lock, leads, closing>>

None == "none"
Nothing == <<>>            \* no update under way
Terminal == {"succeeded", "failed", "cancelled"}
Live == {"queued", "running"}
InState(S) == {j \in Jobs : job[j].state \in S}
Number(S) == Cardinality(S)

Idle == [op |-> "idle", todo |-> {}, room |-> 0, write |-> Nothing]

\* The rows, threads and processes keep their shape: no attempt is numbered past the
\* claims, and no place of the worker is given back twice.
TypeOK ==
  /\ job \in [Jobs -> [state : Live \cup Terminal \cup {"absent"},
                       attempts : 0..MaxClaims, cancel : BOOLEAN]]
  /\ resource \in {"ready", "unready", "stopped", "gone"}
  /\ lock \in Controllers \cup {None}
  /\ leads \subseteq Controllers /\ closing \subseteq Controllers
  /\ \A c \in Controllers :
       main[c] \in [op : {"idle", "promote", "tick", "reap", "cancel"},
                    todo : SUBSET (Jobs \X (0..MaxClaims)),
                    room : 0..Concurrency,
                    write : (Jobs \X (Terminal \cup {"queued"})) \cup {Nothing}]
  /\ \A e \in exec :
       e \in [by : Controllers, job : Jobs, attempt : 1..MaxClaims,
              at : {"start", "post", "poll", "finish", "write"},
              to : Terminal \cup {"queued", None}, retry : BOOLEAN]
  /\ broken \in [Controllers -> SUBSET Jobs]
  /\ work \in [Jobs -> [state : Terminal \cup {"running", None},
                        alive : BOOLEAN, old : 0..MaxClaims]]
  /\ faults \in 0..MaxFaults

Init ==
  /\ job = [j \in Jobs |-> [state |-> "absent", attempts |-> 0, cancel |-> FALSE]]
  /\ resource = "unready"
  /\ lock = None /\ leads = {} /\ closing = {}
  /\ main = [c \in Controllers |-> Idle]
  /\ exec = {}
  /\ broken = [c \in Controllers |-> {}]
  /\ work = [j \in Jobs |-> [state |-> None, alive |-> FALSE, old |-> 0]]
  /\ faults = 0

Fault(kind) ==
  /\ kind \in Faults /\ faults < MaxFaults
  /\ faults' = faults + 1

-----------------------------------------------------------------------------
(* The worker: JobRunner.                                                  *)

\* Places of the gate in use.  A process whose record has been replaced while
\* it was being stopped (old) keeps its place until it is gone.
Held == MapThenSumSet(LAMBDA j : work[j].old + (IF work[j].alive THEN 1 ELSE 0), Jobs)

\* start first drops records that are not running: those older than their time
\* to live, and one cancelled whose watcher has not ended (its finished is 0).
Prunable == {k \in Jobs : work[k].state \in Terminal}
Pruned(D) ==
  [k \in Jobs |-> IF k \in D THEN [state |-> None, alive |-> FALSE,
                                   old |-> work[k].old + (IF work[k].alive THEN 1 ELSE 0)]
                  ELSE work[k]]

\* An execution that is running is returned as it is, whatever attempt asked for
\* it; at capacity the request is refused (429); otherwise a process starts.
Full(j) == work[j].state # "running" /\ Held >= Slots
Started(j, w) ==
  IF w[j].state = "running" THEN w
  ELSE [w EXCEPT ![j] = [state |-> "running", alive |-> TRUE,
                         old |-> IF @.alive THEN @.old + 1 ELSE @.old]]

\* cancel: only marks the record; the watcher stops the process later.
Interrupted(J) ==
  [j \in Jobs |-> IF j \in J /\ work[j].state = "running"
                  THEN [work[j] EXCEPT !.state = "cancelled"] ELSE work[j]]

\* _watch ends: with the result of the process, even of one that has been
\* cancelled if the result is there first; with an error; or as cancelled.
ProcessEnds(j) ==
  /\ work[j].alive
  /\ \E s \in {"succeeded", "failed", "cancelled"} :
       /\ s = "cancelled" => work[j].state = "cancelled"
       /\ work' = [work EXCEPT ![j] = [@ EXCEPT !.state = s, !.alive = FALSE]]
  /\ UNCHANGED <<table, control, main, exec, broken, faults>>

\* A mutation: the watcher of a process gives its place back once more.
ReleaseAgain(j) ==
  /\ work' = [work EXCEPT ![j].old = @ - 1]
  /\ UNCHANGED <<table, control, main, exec, broken, faults>>

OldProcessEnds(j) ==
  /\ work[j].old > 0
  /\ work' = [work EXCEPT ![j].old = @ - 1]
  /\ UNCHANGED <<table, control, main, exec, broken, faults>>

WorkerRestarts ==
  /\ Fault("worker")
  /\ work' = [j \in Jobs |-> [state |-> None, alive |-> FALSE, old |-> 0]]
  /\ UNCHANGED <<table, control, main, exec, broken>>

-----------------------------------------------------------------------------
(* The job table.                                                          *)

\* The load that counts against max_queue.
Pending == InState(Live)

\* The first half of finish: the row is read, and what the update will write
\* is decided from it.  (An update that follows nothing in between writes the
\* same; the two are separate statements.)
Verdict(j, to, retry) ==
  IF job[j].cancel THEN "cancelled" ELSE IF retry THEN "queued" ELSE to

\* The second half: UPDATE ... WHERE id = ?
Updated(w) == [job EXCEPT ![w[1]].state = w[2]]

-----------------------------------------------------------------------------
(* Requests.  Only a controller that leads serves them.                    *)

Serving(c) == c \in leads /\ c \notin closing /\ main[c] = Idle

\* A second request with the same key finds the job and returns it.
Submit(c, j) ==
  /\ Serving(c)
  /\ job[j].state = "absent"
  /\ resource \in {"ready", "unready"}
  /\ Number(Pending) < MaxQueue
  /\ job' = [job EXCEPT ![j].state = "queued"]
  /\ UNCHANGED <<resource, control, main, exec, broken, work, faults>>

CancelJob(c, j) ==
  /\ Serving(c)
  /\ job[j].state \in Live /\ ~job[j].cancel
  /\ main' = [main EXCEPT ![c] = [Idle EXCEPT !.op = "cancel", !.todo = {<<j, 0>>}]]
  /\ job' = [job EXCEPT ![j].cancel = TRUE]
  /\ UNCHANGED <<resource, control, exec, broken, work, faults>>

\* Pausing the resource cancels what is pending on it, one job after another.
StopResource(c) ==
  /\ Serving(c)
  /\ resource \in {"ready", "unready"}
  /\ resource' = "stopped"
  /\ main' = [main EXCEPT ![c] = [Idle EXCEPT !.op = "cancel", !.todo = Pending \X {0}]]
  /\ UNCHANGED <<job, control, exec, broken, work, faults>>

StartResource(c) ==
  /\ Serving(c)
  /\ resource = "stopped"
  /\ resource' = "unready"
  /\ UNCHANGED <<job, control, main, exec, broken, work, faults>>

DeleteResource(c) ==
  /\ Serving(c)
  /\ resource = "stopped"
  /\ Pending = {}
  /\ resource' = "gone"
  /\ UNCHANGED <<job, control, main, exec, broken, work, faults>>

\* The probe runs on a thread of its own and takes the lock to write.
Probe(c) ==
  /\ Serving(c)
  /\ resource \in {"ready", "unready"}
  /\ resource' = IF resource = "ready" THEN "unready" ELSE "ready"
  /\ UNCHANGED <<job, control, main, exec, broken, work, faults>>

\* The flag of the next job of a cancelled resource.
FlagNext(c, t) ==
  /\ main[c].op = "cancel" /\ main[c].write = Nothing
  /\ t \in main[c].todo
  /\ job[t[1]].state \in Live /\ ~job[t[1]].cancel
  /\ job' = [job EXCEPT ![t[1]].cancel = TRUE]
  /\ UNCHANGED <<resource, control, main, exec, broken, work, faults>>

\* A mutation: a job is finished here whatever it is doing, and before it is flagged.
CancelRunning(c, t) ==
  LET j == t[1] IN
  /\ main[c].op = "cancel" /\ main[c].write = Nothing
  /\ t \in main[c].todo
  /\ main' = [main EXCEPT ![c].todo = @ \ {t},
                          ![c].write = IF job[j].state \in Live
                                       THEN <<j, "cancelled">> ELSE Nothing]
  /\ UNCHANGED <<table, control, exec, broken, work, faults>>

\* After the flag, the state is read: a queued job is finished here, a running
\* one is interrupted and left to the thread that follows it.
CancelNext(c, t) ==
  LET j == t[1] IN
  /\ main[c].op = "cancel" /\ main[c].write = Nothing
  /\ t \in main[c].todo
  /\ job[j].state \in Live => job[j].cancel
  /\ main' = [main EXCEPT ![c].todo = @ \ {t},
                          ![c].write = IF job[j].state = "queued"
                                       THEN <<j, Verdict(j, "cancelled", FALSE)>> ELSE Nothing]
  /\ work' \in IF job[j].state = "running" THEN {work, Interrupted({j})} ELSE {work}
  /\ UNCHANGED <<table, control, exec, broken, faults>>

\* finish, second half, by the thread that holds the lock of c.
WriteNext(c) ==
  /\ main[c].write # Nothing
  /\ job' = Updated(main[c].write)
  /\ main' = [main EXCEPT ![c].write = Nothing]
  /\ UNCHANGED <<resource, control, exec, broken, work, faults>>

Done(c) ==
  /\ main[c].op \in {"cancel", "reap"} /\ main[c].todo = {} /\ main[c].write = Nothing
  /\ main' = [main EXCEPT ![c] = Idle]
  /\ UNCHANGED <<table, control, exec, broken, work, faults>>

-----------------------------------------------------------------------------
(* The scheduler: tick, under the lock of the controller.                  *)

\* A mutation: a broken follower is dropped and its job left as it is.
Forget(c, j) ==
  /\ Serving(c)
  /\ j \in broken[c]
  /\ broken' = [broken EXCEPT ![c] = @ \ {j}]
  /\ UNCHANGED <<table, control, main, exec, work, faults>>

\* A follower that raised is seen first: its job fails, whatever attempt it is at.
Reap(c, j) ==
  /\ Serving(c)
  /\ j \in broken[c]
  /\ broken' = [broken EXCEPT ![c] = @ \ {j}]
  /\ main' = [main EXCEPT ![c] =
                [Idle EXCEPT !.op = "reap",
                             !.write = IF job[j].state \in Live
                                       THEN <<j, Verdict(j, "failed", FALSE)>> ELSE Nothing]]
  /\ UNCHANGED <<table, control, exec, work, faults>>

\* The lists of queued and of running jobs are read once.
TickStart(c) ==
  /\ Serving(c)
  /\ broken[c] = {}
  /\ InState({"queued"}) # {}
  /\ main' = [main EXCEPT ![c] =
                [op |-> "tick", todo |-> InState({"queued"}) \X {0}, write |-> Nothing,
                 room |-> IF Number(InState({"running"})) >= Concurrency THEN 0
                          ELSE Concurrency - Number(InState({"running"}))]]
  /\ UNCHANGED <<table, control, exec, broken, work, faults>>

\* A job past its queue deadline is failed; if it was flagged, cancelled.
TickExpire(c, j) ==
  /\ main[c].op = "tick" /\ main[c].write = Nothing
  /\ <<j, 0>> \in main[c].todo
  /\ main' = [main EXCEPT ![c].todo = @ \ {<<j, 0>>},
                          ![c].write = IF job[j].state \in Live
                                       THEN <<j, Verdict(j, "failed", FALSE)>> ELSE Nothing]
  /\ UNCHANGED <<table, control, exec, broken, work, faults>>

\* claim: one guarded UPDATE; a follower is started for the attempt.
TickClaim(c, j) ==
  /\ main[c].op = "tick" /\ main[c].write = Nothing
  /\ <<j, 0>> \in main[c].todo
  /\ resource = "ready" /\ main[c].room > 0
  /\ job[j].state = "queued" /\ ~job[j].cancel
  /\ job[j].attempts < MaxClaims
  /\ job' = [job EXCEPT ![j].state = "running", ![j].attempts = @ + 1]
  /\ exec' = exec \cup {[by |-> c, job |-> j, attempt |-> job[j].attempts + 1,
                         at |-> "start", to |-> None, retry |-> FALSE]}
  /\ main' = [main EXCEPT ![c].todo = @ \ {<<j, 0>>}, ![c].room = @ - 1]
  /\ UNCHANGED <<resource, control, broken, work, faults>>

\* What is left is not due yet, finds no room, or was claimed or flagged meanwhile.
TickEnd(c) ==
  /\ main[c].op = "tick" /\ main[c].write = Nothing
  /\ main' = [main EXCEPT ![c] = Idle]
  /\ UNCHANGED <<table, control, exec, broken, work, faults>>

-----------------------------------------------------------------------------
(* The follower of an attempt: execute.                                    *)

Follow(e, f) == exec' = (exec \ {e}) \cup {f}

\* A mutation: an attempt is retried whatever its number.
EndingAnyTime(e, to, retry) == [e EXCEPT !.at = "finish", !.to = to, !.retry = retry]

Ending(e, to, retry) == [e EXCEPT !.at = "finish", !.to = to,
                                  !.retry = retry /\ e.attempt < MaxAttempts]

ExecStart(e) ==
  /\ e.at = "start"
  /\ Follow(e, IF job[e.job].cancel THEN Ending(e, "cancelled", FALSE)
               ELSE [e EXCEPT !.at = "post"])
  /\ UNCHANGED <<table, control, main, broken, work, faults>>

\* The worker refuses (400: no retry; 429: retry), or accepts, or the answer is
\* lost before or after it accepted.
ExecPost(e) ==
  /\ e.at = "post"
  /\ \E D \in SUBSET (Prunable \ {e.job}) :
       \/ /\ Follow(e, Ending(e, "failed", FALSE)) /\ work' = work
       \/ /\ Follow(e, Ending(e, "failed", TRUE)) /\ work' = work
       \/ /\ Full(e.job)
          /\ Follow(e, Ending(e, "failed", TRUE)) /\ work' = Pruned(D)
       \/ /\ ~Full(e.job)
          /\ \E f \in {[e EXCEPT !.at = "poll"], Ending(e, "failed", TRUE)} : Follow(e, f)
          /\ work' = Started(e.job, Pruned(D))
  /\ UNCHANGED <<table, control, main, broken, faults>>

\* One round of the loop: the flag, the deadline of the attempt, the worker.
ExecPoll(e) ==
  /\ e.at = "poll"
  /\ IF job[e.job].cancel
     THEN /\ Follow(e, Ending(e, "cancelled", FALSE))
          /\ work' \in {work, Interrupted({e.job})}
     ELSE \/ /\ Follow(e, Ending(e, "failed", FALSE))
             /\ work' \in {work, Interrupted({e.job})}
          \/ /\ Follow(e, Ending(e, "failed", TRUE))
             /\ work' = work
          \/ /\ work[e.job].state \in Terminal
             /\ Follow(e, Ending(e, work[e.job].state, FALSE))
             /\ work' = work
  /\ UNCHANGED <<table, control, main, broken, faults>>

\* finish, fenced by the attempt: the row is read, then updated.
ExecSelect(e) ==
  LET j == e.job IN
  /\ e.at = "finish"
  /\ IF job[j].attempts # e.attempt \/ job[j].state \notin Live
     THEN exec' = exec \ {e}
     ELSE Follow(e, [e EXCEPT !.at = "write", !.to = Verdict(j, e.to, e.retry)])
  /\ UNCHANGED <<table, control, main, broken, work, faults>>

ExecUpdate(e) ==
  /\ e.at = "write"
  /\ job' = Updated(<<e.job, e.to>>)
  /\ exec' = exec \ {e}
  /\ UNCHANGED <<resource, control, main, broken, work, faults>>

\* The database raises in the follower: its future holds the exception.
ExecRaises(e) ==
  /\ Fault("database")
  /\ exec' = exec \ {e}
  /\ broken' = [broken EXCEPT ![e.by] = @ \cup {e.job}]
  /\ UNCHANGED <<table, control, main, work>>

\* After shutdown is set a follower leaves its loop and the row as they are.
ExecLeaves(e) ==
  /\ e.by \in closing /\ e.at = "poll"
  /\ exec' = exec \ {e}
  /\ UNCHANGED <<table, control, main, broken, work, faults>>

ExecStep(e) ==
  \/ ExecStart(e) \/ ExecPost(e) \/ ExecPoll(e) \/ ExecSelect(e)
  \/ ExecUpdate(e) \/ ExecLeaves(e)

-----------------------------------------------------------------------------
(* Leadership, crashes and restarts.                                       *)

\* A mutation: what a controller finds running is left alone.
AcquireAfresh(c) ==
  /\ lock = None
  /\ c \notin leads /\ main[c] = Idle
  /\ lock' = c
  /\ main' = [main EXCEPT ![c] = [Idle EXCEPT !.op = "promote"]]
  /\ UNCHANGED <<table, leads, closing, exec, broken, work, faults>>

\* The lock is acquired (at start of a single controller, by the election of
\* one of several) and what is found running is going to be revoked.
Acquire(c) ==
  /\ lock = None
  /\ c \notin leads /\ main[c] = Idle
  /\ lock' = c
  /\ main' = [main EXCEPT ![c] =
                [Idle EXCEPT !.op = "promote",
                             !.todo = {<<j, job[j].attempts>> : j \in InState({"running"})}]]
  /\ UNCHANGED <<table, leads, closing, exec, broken, work, faults>>

\* promote, for one job: ask the worker to stop, then finish without a fence.
Revoke(c, t) ==
  LET j == t[1] IN
  /\ main[c].op = "promote" /\ main[c].write = Nothing
  /\ t \in main[c].todo
  /\ main' = [main EXCEPT ![c].todo = @ \ {t},
                          ![c].write = IF job[j].state \in Live
                                       THEN <<j, Verdict(j, "failed", t[2] < MaxAttempts)>>
                                       ELSE Nothing]
  /\ work' \in {work, Interrupted({j})}
  /\ UNCHANGED <<table, control, exec, broken, faults>>

Lead(c) ==
  /\ main[c].op = "promote" /\ main[c].todo = {} /\ main[c].write = Nothing
  /\ leads' = leads \cup {c}
  /\ main' = [main EXCEPT ![c] = Idle]
  /\ UNCHANGED <<table, lock, closing, exec, broken, work, faults>>

\* The process ends: its threads are gone, its lock is released.
Gone(c) ==
  /\ lock' = IF lock = c THEN None ELSE lock
  /\ leads' = leads \ {c}
  /\ closing' = closing \ {c}
  /\ main' = [main EXCEPT ![c] = Idle]
  /\ exec' = {e \in exec : e.by # c}
  /\ broken' = [broken EXCEPT ![c] = {}]

Crash(c) ==
  /\ c \in leads \/ main[c] # Idle
  /\ Fault("crash")
  /\ Gone(c)
  /\ UNCHANGED <<table, work>>

\* close: shutdown is set, the scheduler stops and running jobs are
\* interrupted, while a follower may be in the middle of a round.
Close(c) ==
  /\ Serving(c)
  /\ Fault("close")
  /\ closing' = closing \cup {c}
  /\ work' \in {work, Interrupted(InState({"running"}))}
  /\ UNCHANGED <<table, lock, leads, main, exec, broken>>

\* The pool waits for the followers before the lock is let go.
Closed(c) ==
  /\ c \in closing
  /\ \A e \in exec : e.by # c
  /\ Gone(c)
  /\ UNCHANGED <<table, work, faults>>

-----------------------------------------------------------------------------
MainStep(c) ==
  \/ \E t \in main[c].todo : FlagNext(c, t) \/ CancelNext(c, t) \/ Revoke(c, t)
  \/ WriteNext(c) \/ Done(c) \/ Lead(c) \/ TickEnd(c)
  \/ \E j \in Jobs : TickClaim(c, j) \/ TickExpire(c, j)

Request(c) ==
  \/ \E j \in Jobs : Submit(c, j) \/ CancelJob(c, j)
  \/ StopResource(c) \/ StartResource(c) \/ DeleteResource(c)

Next ==
  \/ \E c \in Controllers :
       \/ Request(c) \/ MainStep(c)
       \/ Probe(c) \/ TickStart(c) \/ \E j \in Jobs : Reap(c, j)
       \/ Acquire(c) \/ Crash(c) \/ Close(c) \/ Closed(c)
  \/ \E e \in exec : ExecStep(e) \/ ExecRaises(e)
  \/ \E j \in Jobs : ProcessEnds(j) \/ OldProcessEnds(j)
  \/ WorkerRestarts

Spec == Init /\ [][Next]_vars

\* Threads that can go on do, the scheduler gets its lock between requests, and
\* a job that stays queued is, sooner or later, past its queue deadline when a
\* tick looks at it.  Nothing is assumed of the worker: an attempt has a deadline.
Fairness ==
  /\ \A c \in Controllers :
       /\ WF_vars(Acquire(c) \/ Closed(c) \/ MainStep(c))
       /\ SF_vars(TickStart(c) \/ \E j \in Jobs : Reap(c, j))
       /\ \A j \in Jobs : SF_vars(TickExpire(c, j))
  /\ \A j \in Jobs : WF_vars(\E e \in exec : e.job = j /\ ExecStep(e))

LiveSpec == Spec /\ Fairness

-----------------------------------------------------------------------------
(* Properties.                                                             *)

Status == [j \in Jobs |-> IF job[j].state \in Live THEN "pending" ELSE job[j].state]

Contract == INSTANCE JobContract WITH status <- Status

\* A job is accepted once and how it ended is final, through restarts, retries,
\* cancels and late answers: the queue is what JobContract promises.
KeepsContract == Contract!Spec

\* A running job is in somebody's hands as long as a controller leads: a thread
\* follows it, or the scheduler is going to see that its thread failed, or an
\* update of it is on its way.  (execute, tick, promote: a job nobody follows
\* would count against the resource's concurrency for ever.)
RunningIsFollowed ==
  \A j \in InState({"running"}) :
    \/ leads \ closing = {}
    \/ \E e \in exec : e.job = j /\ e.attempt = job[j].attempts
    \/ \E c \in leads : j \in broken[c] \/ (main[c].write # Nothing /\ main[c].write[1] = j)

\* A resource is detached only when nothing is pending on it, and nothing comes
\* back to it afterwards (action, finish with a retry).
DetachedIsIdle == resource = "gone" => Pending = {}

\* The bounds of the resource hold although retries and revoked jobs go back
\* into the queue without passing the check of submit: never more than
\* max_queue jobs pending, and none once it is detached, nor more than its
\* concurrency running, nor a job tried more than max_attempts times.
WithinLimits ==
  /\ Number(Pending) <= MaxQueue
  /\ DetachedIsIdle
  /\ Number(InState({"running"})) <= Concurrency
  /\ \A j \in Jobs : job[j].attempts <= MaxAttempts

\* Every job that was accepted ends, whatever crashes in between.
JobEnds == \A j \in Jobs : (job[j].state \in Live) ~> (job[j].state \in Terminal)
=============================================================================
