----------------------------- MODULE DurableRun -----------------------------
(***************************************************************************)
(* One durable run, executed by successive attempts that may crash, stall   *)
(* past their lease and overlap: runtime/worker.py (_run and the ways a run *)
(* ends), runtime/journal.py (effect, record_atomic) and the waits of       *)
(* runtime/context.py, over the fenced commit, the leases and the claims of *)
(* runtime/persistence/store.py.                                           *)
(*                                                                         *)
(* An attempt is what a worker does under one lease, numbered by the lease's *)
(* epoch.  It replays the agent's program from the top: a step is answered   *)
(* from the journal when its result is there, and executed otherwise.  An    *)
(* attempt that lost its lease goes on until a commit tells it so.           *)
(*                                                                         *)
(* A commit may be refused (the lease is lost), or blip: the store raises,    *)
(* having applied the commit or not.                                        *)
(***************************************************************************)
EXTENDS Integers, FiniteSets, Sequences

CONSTANTS
    Program,      \* the agent's steps, in order, each by its kind
    MaxRetries,   \* RunRetryPolicy.max_retries
    MaxExpiries,  \* bound on the leases that expire
    MaxMails,     \* bound on the deliveries that find the run asleep
    MaxBlips      \* bound on the commits the store fails

Kind == {"once", "safe", "wait", "ask"}

ASSUME ProgramAssumption == Program \in Seq(Kind)
ASSUME BoundAssumption ==
    {MaxRetries, MaxExpiries, MaxMails, MaxBlips} \subseteq Nat

VARIABLES
    run,     \* the row of rt_runs
    log,     \* what rt_events says of each step, folded
    signal,  \* rt_signals and rt_signal_claims, for each step that waits
    late,    \* the asks whose deadline has passed
    att,     \* the attempts, by epoch
    blips,   \* commits the store has failed
    hist     \* of each step: how often its body began, how often it ended without
             \* being done, and the values it has returned to the program

vars == <<run, log, signal, late, att, blips, hist>>

Step    == 1 .. Len(Program)
Effects == {s \in Step : Program[s] \in {"once", "safe"}}
Waits   == Step \ Effects

\* Every lease but the first follows an expiry, a retry, a delivery or a wait that slept.
MaxLease == 1 + MaxExpiries + MaxMails + MaxRetries + Cardinality(Waits)
Epoch    == 1 .. MaxLease

\* A body's result is named by the attempt that executed it; a wait's is one of:
TimedOut == 0
Heard    == 1

Entry == [state : {"absent", "pending", "completed"}, value : 0 .. MaxLease]
Blank == [state |-> "absent", value |-> 0]

Ended == {"completed", "failed"}

Phase == {"off", "leased", "at", "body", "ok", "error", "stop", "listen", "heard",
          "asleep", "raised", "doubt", "gone"}

-----------------------------------------------------------------------------
Init ==
    /\ run    = [status |-> "pending", epoch |-> 0, retries |-> 0, expired |-> 0,
                 mails |-> 0, wake |-> 0]
    /\ log    = [s \in Step |-> Blank]
    /\ signal = [s \in Step |-> "none"]
    /\ late   = {}
    /\ att    = [e \in Epoch |-> [phase |-> "off", at |-> 1, value |-> 0,
                                  known |-> [s \in Step |-> Blank]]]
    /\ blips  = 0
    /\ hist   = [s \in Step |-> [started |-> 0, undone |-> 0, told |-> {}]]

\* A mutation: a commit does not look at the epoch of its lease.
AnyLease(e) == run.status = "running"

Fenced(e) == run.status = "running" /\ run.epoch = e

\* An attempt that stops without a commit leaves its run to the next expiry.
MayDie(e) == Fenced(e) => run.expired < MaxExpiries

To(e, phase) == att' = [att EXCEPT ![e].phase = phase]

\* The step at which attempt e stands, and what e read of it in the journal.
At(e)   == att[e].at
Kept(e) == att[e].known[At(e)]

Doing(e, kinds) == att[e].phase = "at" /\ At(e) \in Step /\ Program[At(e)] \in kinds

\* The step returns v to the program, which goes on to the next.
Return(e, v) ==
    /\ hist' = [hist EXCEPT ![At(e)].told = @ \cup {v}]
    /\ att'  = [att EXCEPT ![e].phase = "at", ![e].at = @ + 1]

Going(e, phase) == To(e, phase) /\ UNCHANGED hist

\* A commit under lease e, with what it writes and how the attempt goes on.  It is
\* refused when the lease is lost.  If the store blips, whether the commit took
\* place or not, the attempt goes on to "next"; "gone" leaves the run running.
Commit(e, write, same, goOn, next) ==
    \/ Fenced(e) /\ write /\ goOn /\ UNCHANGED blips
    \/ ~Fenced(e) /\ same /\ Going(e, "gone") /\ UNCHANGED blips
    \/ /\ Fenced(e) /\ blips < MaxBlips /\ blips' = blips + 1
       /\ Going(e, next)
       /\ write \/ (same /\ (next = "gone" => MayDie(e)))

CommitLog(e, entry, goOn, next) ==
    /\ Commit(e, log' = [log EXCEPT ![At(e)] = entry], UNCHANGED log, goOn, next)
    /\ UNCHANGED <<run, signal, late>>

CommitEnd(e, row, next) ==
    /\ Commit(e, run' = row, UNCHANGED run, Going(e, "gone"), next)
    /\ UNCHANGED <<log, signal, late>>

-----------------------------------------------------------------------------
(* The queue and the world.                                                *)

Lease ==
    /\ run.status = "pending"
    /\ run' = [run EXCEPT !.status = "running", !.epoch = @ + 1]
    /\ To(run.epoch + 1, "leased")
    /\ UNCHANGED <<log, signal, late, blips, hist>>

\* A lease that was not renewed in time, whatever its attempt is doing.
Expire ==
    /\ run.status = "running" /\ run.expired < MaxExpiries
    /\ run' = [run EXCEPT !.status = "pending", !.expired = @ + 1]
    /\ UNCHANGED <<log, signal, late, att, blips, hist>>

Wake(s) ==
    run' = [run EXCEPT !.status = IF @ = "suspended" /\ run.wake = s THEN "pending" ELSE @]

SignalArrives(s) ==
    /\ s \in Waits /\ signal[s] = "none" /\ run.status \notin Ended
    /\ signal' = [signal EXCEPT ![s] = "buffered"]
    /\ Wake(s)
    /\ UNCHANGED <<log, late, att, blips, hist>>

DeadlinePasses(s) ==
    /\ s \in Waits \ late /\ log[s].state = "completed"
    /\ late' = late \cup {s}
    /\ UNCHANGED <<run, log, signal, att, blips, hist>>

\* A mutation: the deadline of an ask is not stored as a timer.
RetryTimerFires ==
    /\ run.status = "suspended" /\ run.wake = 0
    /\ run' = [run EXCEPT !.status = "pending"]
    /\ UNCHANGED <<log, signal, late, att, blips, hist>>

\* The timer of a retry, or of an ask that is late.
TimerFires ==
    /\ run.status = "suspended" /\ run.wake \in late \cup {0}
    /\ run' = [run EXCEPT !.status = "pending"]
    /\ UNCHANGED <<log, signal, late, att, blips, hist>>

\* A message for the agent wakes the run, whatever it sleeps on.
MailArrives ==
    /\ run.status = "suspended" /\ run.mails < MaxMails
    /\ run' = [run EXCEPT !.status = "pending", !.mails = @ + 1]
    /\ UNCHANGED <<log, signal, late, att, blips, hist>>

\* The process dies or is shut down, or the lease is given up as lost.
Die(e) ==
    /\ att[e].phase \notin {"off", "gone"} /\ MayDie(e)
    /\ To(e, "gone")
    /\ UNCHANGED <<run, log, signal, late, blips, hist>>

-----------------------------------------------------------------------------
(* What an attempt does.                                                   *)

\* It reads the journal, commits run.started or run.resumed and drains the inbox.
Begin(e) ==
    /\ att[e].phase = "leased"
    /\ \/ /\ Fenced(e) /\ UNCHANGED blips
          /\ att' = [att EXCEPT ![e].phase = "at", ![e].known = log]
       \/ ~Fenced(e) /\ To(e, "gone") /\ UNCHANGED blips
       \/ Fenced(e) /\ blips < MaxBlips /\ blips' = blips + 1 /\ To(e, "raised")
    /\ UNCHANGED <<run, log, signal, late, hist>>

\* A mutation: an intent answers for its result.
ReplayIntents(e) ==
    /\ Doing(e, {"once", "safe"}) /\ Kept(e).state # "absent"
    /\ Return(e, Kept(e).value)
    /\ UNCHANGED <<run, log, signal, late, blips>>

Replay(e) ==
    /\ Doing(e, {"once", "safe"}) /\ Kept(e).state = "completed"
    /\ Return(e, Kept(e).value)
    /\ UNCHANGED <<run, log, signal, late, blips>>

Intend(e) ==
    /\ Doing(e, {"once", "safe"}) /\ Kept(e).state = "absent"
    /\ CommitLog(e, [state |-> "pending", value |-> 0], Going(e, "body"), "raised")

\* A mutation: every step in doubt is executed again.
ResumeAll(e) ==
    /\ Doing(e, {"once", "safe"}) /\ Kept(e).state = "pending"
    /\ Going(e, "body")
    /\ UNCHANGED <<run, log, signal, late, blips>>

\* An intent without an outcome: an idempotent step is executed again at once, any
\* other is not, and the run will fail.
Resume(e) ==
    /\ Doing(e, {"once", "safe"}) /\ Kept(e).state = "pending"
    /\ Going(e, IF Program[At(e)] = "safe" THEN "body" ELSE "doubt")
    /\ UNCHANGED <<run, log, signal, late, blips>>

\* The body runs: it returns, raises an error, or is stopped by a control signal.
Body(e) ==
    /\ att[e].phase = "body"
    /\ \E how \in {"ok", "error", "stop"} :
         /\ how = "stop" => MayDie(e)
         /\ To(e, how)
         /\ hist' = [hist EXCEPT ![At(e)].started = @ + 1,
                                 ![At(e)].undone  = IF how = "ok" THEN @ ELSE @ + 1]
    /\ UNCHANGED <<run, log, signal, late, blips>>

\* The outcome is recorded.  That of a body that returned is tried three times, and
\* then surfaces as an error; failing to record the others is let pass.
Record(e) ==
    \/ /\ att[e].phase = "ok"
       /\ CommitLog(e, [state |-> "completed", value |-> e], Return(e, e), "raised")
    \/ /\ att[e].phase = "error"
       /\ CommitLog(e, Blank, Going(e, "raised"), "raised")
    \/ /\ att[e].phase = "stop"
       /\ CommitLog(e, Blank, Going(e, "gone"), "gone")

\* An ask sends its message and journals its deadline, each in a commit that a replay
\* does not repeat; the two are taken as one.
SetDeadline(e) ==
    /\ Doing(e, {"ask"}) /\ Kept(e).state = "absent"
    /\ CommitLog(e, [state |-> "completed", value |-> 0], Going(e, "listen"), "raised")

Listening(e) ==
    \/ att[e].phase = "listen"
    \/ Doing(e, {"wait"})
    \/ Doing(e, {"ask"}) /\ Kept(e).state = "completed"

\* The signal is claimed; a claim made before, by whichever attempt, is found again.
\* No lease is checked.
Claim(e) ==
    /\ Listening(e) /\ signal[At(e)] # "none"
    /\ signal' = [signal EXCEPT ![At(e)] = "claimed"]
    /\ att' = [att EXCEPT ![e].phase = "heard", ![e].value = Heard]
    /\ UNCHANGED <<run, log, late, blips, hist>>

NothingYet(e) ==
    /\ Listening(e) /\ signal[At(e)] = "none"
    /\ IF At(e) \in late
       THEN att' = [att EXCEPT ![e].phase = "heard", ![e].value = TimedOut]
       ELSE To(e, "asleep")
    /\ UNCHANGED <<run, log, signal, late, blips, hist>>

\* ask.replied, ask.timeout or run.resumed is committed: the wait is over.
Answer(e) ==
    /\ att[e].phase = "heard"
    /\ Commit(e, TRUE, TRUE, Return(e, att[e].value), "raised")
    /\ UNCHANGED <<run, log, signal, late>>

GoToSleep(e) ==
    /\ att[e].phase = "asleep"
    /\ LET ready == signal[At(e)] = "buffered" \/ At(e) \in late
       IN  CommitEnd(e, [run EXCEPT !.status = IF ready THEN "pending" ELSE "suspended",
                                    !.wake   = At(e)], "gone")

Failed  == [run EXCEPT !.status = "failed"]
Retried == [run EXCEPT !.status = "suspended", !.wake = 0, !.retries = @ + 1]

\* A mutation: one retry too many.
GiveUpLate(e) ==
    /\ att[e].phase = "raised"
    /\ \/ run.retries <= MaxRetries /\ CommitEnd(e, Retried, "gone")
       \/ CommitEnd(e, Failed, "gone")

\* The attempt failed: it is retried while retries are left, or the run fails, at once
\* if the error is none that a retry helps against.
GiveUp(e) ==
    /\ att[e].phase = "raised"
    /\ \/ run.retries < MaxRetries /\ CommitEnd(e, Retried, "gone")
       \/ CommitEnd(e, Failed, "gone")

FailInDoubt(e) ==
    /\ att[e].phase = "doubt"
    /\ CommitEnd(e, Failed, "gone")

Complete(e) ==
    /\ att[e].phase = "at" /\ At(e) \notin Step
    /\ CommitEnd(e, [run EXCEPT !.status = "completed"], "raised")

Does(e) ==
    \/ Begin(e) \/ Replay(e) \/ Intend(e) \/ Resume(e) \/ Body(e) \/ Record(e)
    \/ SetDeadline(e) \/ Claim(e) \/ NothingYet(e) \/ Answer(e)
    \/ GoToSleep(e) \/ GiveUp(e) \/ FailInDoubt(e) \/ Complete(e)

-----------------------------------------------------------------------------
Next ==
    \/ Lease
    \/ Expire
    \/ TimerFires
    \/ MailArrives
    \/ \E s \in Step : SignalArrives(s) \/ DeadlinePasses(s)
    \/ \E e \in Epoch : Does(e) \/ Die(e)

Spec == Init /\ [][Next]_vars

\* Workers poll for ever and tasks are scheduled; a dead attempt's lease expires;
\* time passes.  Nothing makes a signal arrive.
Fairness ==
    /\ WF_vars(Lease)
    /\ WF_vars(TimerFires)
    /\ WF_vars(Expire /\ att[run.epoch].phase = "gone")
    /\ \A s \in Step : WF_vars(DeadlinePasses(s))
    /\ \A e \in Epoch : WF_vars(Does(e))

FairSpec == Spec /\ Fairness

-----------------------------------------------------------------------------
(* Properties.                                                             *)

\* The run, its journal and its attempts keep their shape, within the bounds.
TypeOK ==
    /\ run \in [status  : {"pending", "running", "suspended"} \cup Ended,
                epoch   : 0 .. MaxLease,
                retries : 0 .. MaxRetries,
                expired : 0 .. MaxExpiries,
                mails   : 0 .. MaxMails,
                wake    : 0 .. Len(Program)]
    /\ log \in [Step -> Entry]
    /\ signal \in [Step -> {"none", "buffered", "claimed"}]
    /\ late \subseteq Waits
    /\ att \in [Epoch -> [phase : Phase, at : 1 .. Len(Program) + 1,
                          value : {TimedOut, Heard}, known : [Step -> Entry]]]
    /\ blips \in 0 .. MaxBlips
    /\ hist \in [Step -> [started : Nat, undone : Nat, told : SUBSET (0 .. MaxLease)]]

\* A step that is not safe to run twice is begun again only after its body raised or
\* was stopped: not after a crash, a lost lease or an outcome the store failed to
\* record, and not by two attempts that overlap (Journal.effect).
NeverTwice ==
    \A s \in Step : Program[s] = "once" => hist[s].started <= hist[s].undone + 1

\* All attempts that get an answer from an executed step or from a signal get the
\* same one, even those that execute the step again (Journal, consume).
SameResult == \A s \in Step : Program[s] # "ask" => Cardinality(hist[s].told) <= 1

\* A run that completed has the result of every effect in its journal, and had an
\* answer to every wait: no attempt completes on a journal another one has undone.
CompletedIsWhole ==
    run.status = "completed" =>
        /\ \A s \in Effects : log[s].state = "completed" /\ hist[s].told = {log[s].value}
        /\ \A s \in Waits : hist[s].told # {}

\* The run ends, whichever attempts die, stall or meet a failing store.
RunEnds == <>(run.status \in Ended)
=============================================================================
