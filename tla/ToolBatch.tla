----------------------------- MODULE ToolBatch ------------------------------
(***************************************************************************)
(* One turn of an agent that calls several tools at once: tool_batch and     *)
(* tool of runtime/context.py, the approval gate of runtime/tool_invoker.py,  *)
(* Journal.effect under forked paths, and the decisions people send through  *)
(* Runtime.decide, over the leases, fenced commits and claims of the store.   *)
(*                                                                         *)
(* The calls of an attempt run concurrently: each has a phase of its own, and *)
(* the attempt ends when all of them have, with an error if one raised, by    *)
(* going to sleep if one waits for a person, and by completing the run         *)
(* otherwise.  A later attempt replays the batch from its journal.            *)
(*                                                                         *)
(* DurableRun has the steps of one run in sequence; this module has them side  *)
(* by side, with what a call does between its intent and its outcome.         *)
(***************************************************************************)
EXTENDS Integers, FiniteSets, Sequences

CONSTANTS
    NCalls,        \* the number of calls in the turn
    Decision,      \* what people may decide
    Turns,         \* the turns considered: which calls are risky, which idempotent, a
                   \* bound on the decisions sent for one call, and the retries that the
                   \* agent's RunRetryPolicy allows
    MaxRetries,    \* bound on those retries
    MaxExpiries,   \* bound on the leases that expire
    MaxBlips       \* bound on the commits the store fails

\* The calls of the turn, by their position in the batch.
Call == 1 .. NCalls

ASSUME CallsAssumption == NCalls \in Nat \ {0}
ASSUME DecisionAssumption == Decision \subseteq {"approve", "modify", "deny"}
ASSUME BoundAssumption == {MaxRetries, MaxExpiries, MaxBlips} \subseteq Nat
ASSUME TurnsAssumption ==
    Turns \subseteq [risky : SUBSET Call, idempotent : SUBSET Call, decisions : Nat,
                     retries : 0 .. MaxRetries]

VARIABLES
    turn,     \* the turn's calls, as the tools declare them
    run,      \* the row of rt_runs
    journal,  \* what rt_events says of each call, folded
    inbox,    \* rt_signals and rt_signal_claims: decisions sent, and those claimed
    att,      \* the attempts, by epoch
    blips,    \* commits the store has failed
    hist      \* of each call: how often its tool ran and under which decisions, and
              \* what the model was told; and whether an attempt outlived its lease

vars == <<turn, run, journal, inbox, att, blips, hist>>

\* Every lease but the first follows an expiry, a retry, or a sleep on a call.
MaxLease == 1 + MaxExpiries + MaxRetries + Cardinality(Call)
Epoch    == 1 .. MaxLease
NoId     == 0

\* What a call gives the model, with the attempt that found it out.
NoResult == [by |-> 0, status |-> "none"]
Result   == [by : Epoch, status : {"ok", "denied", "error"}] \cup {NoResult}

Entry == [state : {"absent", "pending", "completed"}, value : Result]
Blank == [state |-> "absent", value |-> NoResult]

Ended  == {"completed", "failed"}
Over   == {"done", "orphan", "raised", "suspended", "lost"}
Phase  == {"start", "name", "ask", "listen", "heard", "run", "result", "suspending"}
          \cup Over

Fresh == [at |-> "start", id |-> NoId, verdict |-> "none", value |-> NoResult]

Empty == [entry   |-> [c \in Call |-> Blank],
          id      |-> [c \in Call |-> NoId],
          asked   |-> [c \in Call |-> NoId],
          decided |-> [c \in Call |-> "none"]]

Attempt(phase, known) == [phase |-> phase, known |-> known, call |-> [c \in Call |-> Fresh]]

-----------------------------------------------------------------------------
Init ==
    /\ turn \in Turns
    /\ run     = [status |-> "pending", epoch |-> 0, retries |-> 0, expired |-> 0,
                  wake |-> <<0, NoId>>]
    /\ journal = Empty
    /\ inbox   = [sent |-> <<>>, count |-> [c \in Call |-> 0],
                  claim |-> [c \in Call |-> "none"]]
    /\ att     = [e \in Epoch |-> Attempt("off", Empty)]
    /\ blips   = 0
    /\ hist    = [ran |-> [c \in Call |-> 0], under |-> [c \in Call |-> {}],
                  told |-> [c \in Call |-> {}], outlived |-> FALSE]

Fenced(e) == run.status = "running" /\ run.epoch = e

At(e, c, phase) == att[e].phase = "batch" /\ att[e].call[c].at = phase
Of(e, c)        == att[e].call[c]

\* Call c of attempt e goes on with the fields of f changed.
Go(e, c, f) == att' = [att EXCEPT ![e].call[c] = f]

\* A call's commit under the lease of its attempt.  When the store fails, the commit
\* may have taken place; when the lease is lost the call unwinds, and what it would
\* still record of itself is refused too.
Commit(e, c, j, ok, failed) ==
    \/ Fenced(e) /\ journal' = j /\ Go(e, c, ok) /\ UNCHANGED blips
    \/ /\ ~Fenced(e)
       /\ Go(e, c, [Of(e, c) EXCEPT !.at = "lost"])
       /\ UNCHANGED <<journal, blips>>
    \/ /\ Fenced(e) /\ blips < MaxBlips
       /\ blips' = blips + 1
       /\ journal' \in {j, journal}
       /\ Go(e, c, failed)

To(e, c, phase) == [Of(e, c) EXCEPT !.at = phase]

\* The invoker turns an error of its own into a result: the call fails, the run does not.
Finds(e, c, status) ==
    [Of(e, c) EXCEPT !.at = "result", !.value = [by |-> e, status |-> status]]

-----------------------------------------------------------------------------
(* The queue and the people.                                               *)

Lease ==
    /\ run.status = "pending"
    /\ run' = [run EXCEPT !.status = "running", !.epoch = @ + 1]
    /\ att' = [att EXCEPT ![run.epoch + 1] = Attempt("batch", journal)]
    /\ UNCHANGED <<turn, journal, inbox, blips, hist>>

\* A lease that was not renewed in time, whatever its attempt is doing.
Expire ==
    /\ run.status = "running" /\ run.expired < MaxExpiries
    /\ run'  = [run EXCEPT !.status = "pending", !.expired = @ + 1]
    /\ hist' = [hist EXCEPT !.outlived = @ \/ att[run.epoch].phase = "batch"]
    /\ UNCHANGED <<turn, journal, inbox, att, blips>>

RetryTimer ==
    /\ run.status = "suspended" /\ run.wake = <<0, NoId>>
    /\ run' = [run EXCEPT !.status = "pending"]
    /\ UNCHANGED <<turn, journal, inbox, att, blips, hist>>

\* The process dies, or the worker stops an attempt that it takes for lost.
Die(e) ==
    /\ att[e].phase = "batch"
    /\ Fenced(e) => run.expired < MaxExpiries
    /\ att' = [att EXCEPT ![e] = Attempt("gone", Empty)]
    /\ UNCHANGED <<turn, run, journal, inbox, blips, hist>>

\* Somebody answers a request the journal shows, perhaps one that was answered already.
Decide(c, d) ==
    LET name == <<c, journal.asked[c]>>
    IN  /\ journal.asked[c] # NoId /\ run.status \notin Ended
        /\ inbox.count[c] < turn.decisions
        /\ inbox' = [inbox EXCEPT !.sent = Append(@, [name |-> name, decision |-> d]),
                                  !.count[c] = @ + 1]
        /\ run' = [run EXCEPT !.status = IF @ = "suspended" /\ run.wake = name
                                         THEN "pending" ELSE @]
        /\ UNCHANGED <<turn, journal, att, blips, hist>>

-----------------------------------------------------------------------------
(* One call of the batch: Journal.effect around the invoker.               *)

Kept(e, c) == att[e].known.entry[c]

\* The recorded result is returned; its tool.result is logged on a replay too.
Replay(e, c) ==
    /\ At(e, c, "start") /\ Kept(e, c).state = "completed"
    /\ Commit(e, c, journal, [To(e, c, "done") EXCEPT !.value = Kept(e, c).value],
              To(e, c, "raised"))
    /\ UNCHANGED <<turn, run, inbox, hist>>

\* Where the body of a call begins: at the approval gate, if its risk asks for one.
Body(e, c) == To(e, c, IF c \in turn.risky THEN "name" ELSE "run")

\* A mutation: a call in doubt is run again, whatever its tool declares.
ResumeAny(e, c) ==
    /\ At(e, c, "start") /\ Kept(e, c).state = "pending"
    /\ Commit(e, c, journal, Body(e, c), To(e, c, "raised"))
    /\ UNCHANGED <<turn, run, inbox, hist>>

\* An intent without an outcome: tool.call is logged again for an idempotent tool.  A
\* failure of that raises, and the intent is taken back if the store takes that.
Resume(e, c) ==
    /\ At(e, c, "start") /\ Kept(e, c).state = "pending"
    /\ IF c \in turn.idempotent
       THEN \/ Commit(e, c, journal, Body(e, c), To(e, c, "raised"))
            \/ /\ Fenced(e) /\ blips < MaxBlips /\ blips' = blips + 1
               /\ journal' = [journal EXCEPT !.entry[c] = Blank]
               /\ Go(e, c, To(e, c, "raised"))
       ELSE Go(e, c, To(e, c, "orphan")) /\ UNCHANGED <<journal, blips>>
    /\ UNCHANGED <<turn, run, inbox, hist>>

\* The intent is recorded and tool.call logged, in two commits.  A failure of either
\* raises; after one of the second the intent is taken back.
Intend(e, c) ==
    /\ At(e, c, "start") /\ Kept(e, c).state = "absent"
    /\ Commit(e, c, [journal EXCEPT !.entry[c].state = "pending"],
              Body(e, c), To(e, c, "raised"))
    /\ UNCHANGED <<turn, run, inbox, hist>>

\* A mutation: the request is named anew by each attempt.
NameAfresh(e, c) ==
    /\ At(e, c, "name")
    /\ Commit(e, c, journal, [To(e, c, "ask") EXCEPT !.id = e], Finds(e, c, "error"))
    /\ UNCHANGED <<turn, run, inbox, hist>>

\* The request's id is journaled the first time and read back afterwards.
NameRequest(e, c) ==
    /\ At(e, c, "name")
    /\ LET known == att[e].known.id[c]
       IN  IF known # NoId
           THEN /\ Go(e, c, [To(e, c, "ask") EXCEPT !.id = known])
                /\ UNCHANGED <<journal, blips>>
           ELSE Commit(e, c, [journal EXCEPT !.id[c] = e],
                       [To(e, c, "ask") EXCEPT !.id = e], Finds(e, c, "error"))
    /\ UNCHANGED <<turn, run, inbox, hist>>

\* approval.requested is logged once across all attempts; an error of the store is let
\* pass.
AskPerson(e, c) ==
    /\ At(e, c, "ask")
    /\ Commit(e, c, [journal EXCEPT !.asked[c] = IF @ = NoId THEN Of(e, c).id ELSE @],
              To(e, c, "listen"), To(e, c, "listen"))
    /\ UNCHANGED <<turn, run, inbox, hist>>

Answers(e, c) ==
    {i \in DOMAIN inbox.sent : inbox.sent[i].name = <<c, Of(e, c).id>>}

First(S) == CHOOSE i \in S : \A j \in S : i <= j

Without(s, i) == SubSeq(s, 1, i - 1) \o SubSeq(s, i + 1, Len(s))

\* A mutation: no claim is kept, and each attempt takes the next decision there is.
TakeNext(e, c) ==
    /\ At(e, c, "listen") /\ Answers(e, c) # {}
    /\ LET i == First(Answers(e, c))
       IN  /\ inbox' = [inbox EXCEPT !.sent = Without(@, i)]
           /\ Go(e, c, [To(e, c, "heard") EXCEPT !.verdict = inbox.sent[i].decision])
    /\ UNCHANGED <<turn, run, journal, blips, hist>>

\* consume: the decision claimed before, by whichever attempt, or the oldest one sent.
\* No lease is checked.
Consume(e, c) ==
    /\ At(e, c, "listen")
    /\ \/ /\ inbox.claim[c] # "none"
          /\ Go(e, c, [To(e, c, "heard") EXCEPT !.verdict = inbox.claim[c]])
          /\ UNCHANGED inbox
       \/ /\ inbox.claim[c] = "none" /\ Answers(e, c) # {}
          /\ LET i == First(Answers(e, c))
                 d == inbox.sent[i].decision
             IN  /\ inbox' = [inbox EXCEPT !.sent = Without(@, i), !.claim[c] = d]
                 /\ Go(e, c, [To(e, c, "heard") EXCEPT !.verdict = d])
    /\ UNCHANGED <<turn, run, journal, blips, hist>>

NoAnswer(e, c) ==
    /\ At(e, c, "listen") /\ inbox.claim[c] = "none" /\ Answers(e, c) = {}
    /\ Go(e, c, To(e, c, "suspending"))
    /\ UNCHANGED <<turn, run, journal, inbox, blips, hist>>

\* The store fails a claim, having made it or not: to the invoker, an error like others.
ConsumeFails(e, c) ==
    /\ At(e, c, "listen") /\ blips < MaxBlips
    /\ blips' = blips + 1
    /\ Go(e, c, Finds(e, c, "error"))
    /\ \/ UNCHANGED inbox
       \/ /\ inbox.claim[c] = "none" /\ Answers(e, c) # {}
          /\ LET i == First(Answers(e, c))
             IN  inbox' = [inbox EXCEPT !.sent = Without(@, i),
                                        !.claim[c] = inbox.sent[i].decision]
    /\ UNCHANGED <<turn, run, journal, hist>>

\* run.resumed and approval.decided are logged before the tool runs, or is denied.
LogDecision(e, c) ==
    /\ At(e, c, "heard")
    /\ LET d == Of(e, c).verdict
       IN  Commit(e, c, [journal EXCEPT !.decided[c] = IF @ = "none" THEN d ELSE @],
                  IF d = "deny" THEN Finds(e, c, "denied") ELSE To(e, c, "run"),
                  Finds(e, c, "error"))
    /\ UNCHANGED <<turn, run, inbox, hist>>

\* The tool runs; an error or a timeout of it is a result like another.
Execute(e, c) ==
    /\ At(e, c, "run")
    /\ Go(e, c, Finds(e, c, "ok"))
    /\ hist' = [hist EXCEPT !.ran[c] = @ + 1, !.under[c] = @ \cup {Of(e, c).verdict}]
    /\ UNCHANGED <<turn, run, journal, inbox, blips>>

\* A mutation: an outcome that the store does not take is let pass.
RecordIfPossible(e, c) ==
    /\ At(e, c, "result")
    /\ Commit(e, c, [journal EXCEPT !.entry[c] = [state |-> "completed",
                                                  value |-> Of(e, c).value]],
              To(e, c, "done"), To(e, c, "done"))
    /\ UNCHANGED <<turn, run, inbox, hist>>

\* The outcome is recorded and tool.result logged, in two commits: a failure of either
\* raises.
RecordResult(e, c) ==
    /\ At(e, c, "result")
    /\ Commit(e, c, [journal EXCEPT !.entry[c] = [state |-> "completed",
                                                  value |-> Of(e, c).value]],
              To(e, c, "done"), To(e, c, "raised"))
    /\ UNCHANGED <<turn, run, inbox, hist>>

\* The body was interrupted to wait for a person: the intent is taken back.  An error of
\* the store is let pass.
TakeBack(e, c) ==
    /\ At(e, c, "suspending")
    /\ Commit(e, c, [journal EXCEPT !.entry[c] = Blank],
              To(e, c, "suspended"), To(e, c, "suspended"))
    /\ UNCHANGED <<turn, run, inbox, hist>>

Does(e, c) ==
    \/ Replay(e, c) \/ Resume(e, c) \/ Intend(e, c)
    \/ NameRequest(e, c) \/ AskPerson(e, c) \/ Consume(e, c) \/ NoAnswer(e, c)
    \/ ConsumeFails(e, c) \/ LogDecision(e, c) \/ Execute(e, c) \/ RecordResult(e, c)
    \/ TakeBack(e, c)

-----------------------------------------------------------------------------
(* The end of the batch.                                                   *)

Calls(e, phases) == {c \in Call : att[e].call[c].at \in phases}

Finished(e) == att[e].phase = "batch" /\ Calls(e, Over) = Call

\* The attempt ends with a commit of the run's row.  If the store fails the commit has
\* taken place, or the row is one of those in "failed".
EndWith(e, row, failed) ==
    /\ att' = [att EXCEPT ![e] = Attempt("gone", Empty)]
    /\ \/ Fenced(e) /\ run' = row /\ UNCHANGED blips
       \/ ~Fenced(e) /\ UNCHANGED <<run, blips>>
       \/ /\ Fenced(e) /\ blips < MaxBlips /\ blips' = blips + 1
          /\ run' \in {row} \cup failed
    /\ UNCHANGED <<turn, journal, inbox>>

\* The run is left as it is, to the expiry of the lease.
Left == IF run.expired < MaxExpiries THEN {run} ELSE {}

\* A mutation: one retry too many.
RetriedOnceMore == IF run.retries <= turn.retries
                   THEN [run EXCEPT !.status = "suspended", !.wake = <<0, NoId>>,
                                    !.retries = @ + 1]
                   ELSE [run EXCEPT !.status = "failed"]

\* A retryable failure: the run sleeps through its backoff, or fails.
Retried == IF run.retries < turn.retries
           THEN [run EXCEPT !.status = "suspended", !.wake = <<0, NoId>>, !.retries = @ + 1]
           ELSE [run EXCEPT !.status = "failed"]

\* One of the calls raised: the first in the order of the batch says how the run goes on.
BatchRaises(e) ==
    /\ Finished(e) /\ Calls(e, {"orphan", "raised"}) # {}
    /\ LET c == First(Calls(e, {"orphan", "raised"}))
       IN  EndWith(e, IF Of(e, c).at = "orphan" THEN [run EXCEPT !.status = "failed"]
                      ELSE Retried, Left)
    /\ UNCHANGED hist

\* None raised and some wait: the run sleeps on the first of them.
BatchSleeps(e) ==
    /\ Finished(e) /\ Calls(e, {"orphan", "raised"}) = {}
    /\ Calls(e, {"suspended", "lost"}) # {}
    /\ LET c == First(Calls(e, {"suspended", "lost"}))
       IN  EndWith(e, IF Of(e, c).at = "lost" THEN run
                      ELSE [run EXCEPT !.status = IF Answers(e, c) # {} THEN "pending"
                                                  ELSE "suspended",
                                       !.wake = <<c, Of(e, c).id>>], Left)
    /\ UNCHANGED hist

Told(e) == [c \in Call |-> hist.told[c] \cup {Of(e, c).value}]

\* All calls are done: the model has its results, and the run completes.  If the store
\* fails the attempt counts as failed; should it fail again, that is Die.
BatchReturns(e) ==
    /\ Finished(e) /\ Calls(e, {"done"}) = Call
    /\ hist' = [hist EXCEPT !.told = Told(e)]
    /\ EndWith(e, [run EXCEPT !.status = "completed"], {Retried})

Ends(e) == BatchRaises(e) \/ BatchSleeps(e) \/ BatchReturns(e)

-----------------------------------------------------------------------------
Next ==
    \/ Lease
    \/ Expire
    \/ RetryTimer
    \/ \E c \in Call, d \in Decision : Decide(c, d)
    \/ \E e \in Epoch : Ends(e) \/ Die(e) \/ \E c \in Call : Does(e, c)

Spec == Init /\ [][Next]_vars

\* Workers poll for ever, tasks are scheduled, a dead attempt's lease expires, and a
\* request that is listed is answered some day.
Fairness ==
    /\ WF_vars(Lease)
    /\ WF_vars(RetryTimer)
    /\ WF_vars(Expire /\ att[run.epoch].phase = "gone")
    /\ \A c \in Call : WF_vars(\E d \in Decision : Decide(c, d))
    /\ WF_vars(\E e \in Epoch : Ends(e) \/ \E c \in Call : Does(e, c))

FairSpec == Spec /\ Fairness

-----------------------------------------------------------------------------
(* Properties.                                                             *)

\* The run, its journal, the decisions and the attempts keep their shape; and every lease
\* but the first follows an expiry, a retry, or the one sleep on a risky call.
TypeOK ==
    /\ turn \in Turns
    /\ run \in [status : {"pending", "running", "suspended"} \cup Ended, epoch : 0 .. MaxLease,
                retries : 0 .. turn.retries, expired : 0 .. MaxExpiries,
                wake : (Call \cup {0}) \X (Epoch \cup {NoId})]
    /\ run.epoch <= 1 + run.expired + run.retries + Cardinality(turn.risky)
    /\ journal \in [entry : [Call -> Entry], id : [Call -> Epoch \cup {NoId}],
                    asked : [Call -> Epoch \cup {NoId}],
                    decided : [Call -> Decision \cup {"none"}]]
    /\ \A i \in DOMAIN inbox.sent :
         inbox.sent[i] \in [name : Call \X Epoch, decision : Decision]
    /\ inbox.count \in [Call -> 0 .. turn.decisions]
    /\ inbox.claim \in [Call -> Decision \cup {"none"}]
    /\ \A e \in Epoch :
         /\ att[e].phase \in {"off", "batch", "gone"}
         /\ att[e].call \in [Call -> [at : Phase, id : Epoch \cup {NoId},
                                      verdict : Decision \cup {"none"}, value : Result]]
    /\ blips \in 0 .. MaxBlips

\* A tool that is not idempotent runs at most once for a call, however the attempts
\* crash, overlap, sleep or meet a failing store, and whatever its siblings in the
\* batch do (Journal.effect under the forked paths of tool_batch).
RunsOnce == \A c \in Call \ turn.idempotent : hist.ran[c] <= 1

\* A risky tool has run only under the decision the journal shows, and that decision
\* is not a denial: nobody can be held to another (_journal_decision, consume).
HeldToDecision ==
    \A c \in turn.risky : hist.under[c] \subseteq {journal.decided[c]} \ {"none", "deny"}

\* The model is never told two different results of one call, in whichever attempts
\* the batch returned: a call that was done is replayed (tool_batch).
ToldOnce == \A c \in Call : Cardinality(hist.told[c]) <= 1

\* When people answer what they are asked, the turn ends, whatever they answer, in
\* whichever order and however often, and although attempts crash: as long as the
\* store does not fail and no attempt outlives its lease.  Otherwise a request may go
\* unlogged, or its answer be claimed by the attempt that is no longer waiting.
TurnEnds == [](blips = 0 /\ ~hist.outlived) => <>(run.status \in Ended)
=============================================================================
