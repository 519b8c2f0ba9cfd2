------------------------------ MODULE Mailbox ------------------------------
(***************************************************************************)
(* Messages on top of RunTree: the tables rt_inbox, rt_inbox_processed and  *)
(* rt_dead_letters of runtime/persistence/store.py, and the journal entry   *)
(* in which a run records the messages it drained (runtime/worker.py).      *)
(* An inbox belongs to an agent and not to a run: every run of the agent    *)
(* reads it.                                                               *)
(*                                                                         *)
(* Each action is one transaction and joins what it does to the messages    *)
(* with the action of RunTree it performs on the runs.                      *)
(***************************************************************************)
EXTENDS RunTree

CONSTANTS
    Agent,    \* the actors runs execute
    Msg,      \* message ids
    NoAgent   \* the agent of a run that does not exist

ASSUME MailAssumption == NoAgent \notin Agent

VARIABLE mail

Origin == {"none", "submitted", "spawned", "delivered"}

MailTables == [agent     : [Run -> Agent \cup {NoAgent}],
               origin    : [Run -> Origin],
               begun     : SUBSET Run,                  \* "inbox.drain" is journaled
               drained   : [Run -> SUBSET Msg],         \* with these messages
               missed    : [Run -> SUBSET Msg],         \* the replay did not find these
               inbox     : [Agent -> SUBSET Msg],
               processed : [Agent -> SUBSET Msg],
               dead      : [Agent -> SUBSET Msg]]

RunsOf(a)   == {r \in Run : mail.agent[r] = a}
ActiveOf(a) == RunsOf(a) \cap InState(db, Live)

\* A mutation: the processed set is not looked up.
Unread(b, a) == b.inbox[a]

Known(b, a) == b.inbox[a] \cup b.processed[a]

-----------------------------------------------------------------------------
Accept(b, a, m) ==
    IF m \in Known(b, a) THEN b ELSE [b EXCEPT !.inbox[a] = @ \cup {m}]

Ack(b, a, M) == [b EXCEPT !.inbox[a] = @ \ M, !.processed[a] = @ \cup M]

\* A mutation: a dead letter is not kept in the processed set.
DeadLetterOnly(b, a, M) ==
    [b EXCEPT !.inbox[a] = @ \ M, !.dead[a] = @ \cup (M \cap b.inbox[a])]

\* The worker gives a message up for good (Nack with final = True).
DeadLetter(b, a, M) ==
    [Ack(b, a, M \cap b.inbox[a]) EXCEPT !.dead[a] = @ \cup (M \cap b.inbox[a])]

NewRun(b, n, a, origin) == [b EXCEPT !.agent[n] = a, !.origin[n] = origin]

-----------------------------------------------------------------------------
MailInit ==
    /\ Init
    /\ mail = [agent     |-> [r \in Run |-> NoAgent],
               origin    |-> [r \in Run |-> "none"],
               begun     |-> {},
               drained   |-> [r \in Run |-> {}],
               missed    |-> [r \in Run |-> {}],
               inbox     |-> [a \in Agent |-> {}],
               processed |-> [a \in Agent |-> {}],
               dead      |-> [a \in Agent |-> {}]]

\* The run and its message, whose id is fresh, are created in one transaction;
\* nobody is woken.
Submit(n, a, m) ==
    /\ m \notin Known(mail, a)
    /\ CreateRun(n)
    /\ mail' = Accept(NewRun(mail, n, a, "submitted"), a, m)

\* A mutation: an agent counts as idle while its run sleeps.
RouseAsIfIdle(a, b) ==
    \/ /\ ActiveOf(a) \cap InState(db, {"pending", "running"}) = {}
       /\ \E n \in Run \ Dated :
            CreateRun(n) /\ mail' = NewRun(b, n, a, "delivered")
    \/ \E r \in ActiveOf(a) : /\ db.status[r] # "suspended"
                              /\ mail' = b
                              /\ UNCHANGED db

\* What an accepted message does to the runs of its agent: b is the mail with
\* the message in it.  The run looked at is the one enqueued last; any active
\* run may be that one.
Rouse(a, b) ==
    \/ /\ ActiveOf(a) = {}
       /\ \E n \in Run \ Dated :
            CreateRun(n) /\ mail' = NewRun(b, n, a, "delivered")
    \/ \E r \in ActiveOf(a) : WakeByDelivery(r) /\ mail' = b
    \/ \E r \in ActiveOf(a) : /\ db.status[r] # "suspended"
                              /\ mail' = b
                              /\ UNCHANGED db

\* ctx.send, a topic, a transport.  A message already known changes nothing.
Deliver(a, m) ==
    /\ m \notin Known(mail, a)
    /\ Rouse(a, Accept(mail, a, m))

\* A person sends a dead letter back.
Redrive(a, m) ==
    /\ m \in mail.dead[a]
    /\ Rouse(a, Accept([mail EXCEPT !.dead[a] = @ \ {m},
                                    !.processed[a] = @ \ {m}], a, m))

SpawnWithBoot(r, c, a, m) ==
    /\ r \in mail.begun
    /\ m \notin Known(mail, a)
    /\ Spawn(r, c)
    /\ mail' = Accept(NewRun(mail, c, a, "spawned"), a, m)

\* The first attempt journals what it drained.
Drain(r) ==
    /\ db.status[r] = "running"
    /\ r \notin mail.begun
    /\ mail' = [mail EXCEPT !.begun = @ \cup {r},
                            !.drained[r] = mail.inbox[mail.agent[r]]]
    /\ UNCHANGED db

\* A later attempt gets what was journaled, but for what has left the inbox since.
Replay(r) ==
    /\ db.status[r] = "running"
    /\ r \in mail.begun
    /\ mail' = [mail EXCEPT !.missed[r] = mail.drained[r] \ mail.inbox[mail.agent[r]]]
    /\ UNCHANGED db

\* What the attempt under way was given.
Handled(r) == mail.drained[r] \ mail.missed[r]

\* Two mutations: mail that arrived meanwhile gets no follow-up run; the follow-up
\* run is not the agent's.
FinishOnly(r) ==
    /\ r \in mail.begun
    /\ Complete(r)
    /\ mail' = Ack(mail, mail.agent[r], Handled(r))

FinishForNobody(r) ==
    /\ r \in mail.begun
    /\ LET a == mail.agent[r]
           b == Ack(mail, a, Handled(r))
       IN  IF b.inbox[a] # {} /\ ActiveOf(a) = {r}
           THEN \E n \in Run : CompleteAndFollowUp(r, n) /\ mail' = b
           ELSE Complete(r) /\ mail' = b

\* The run completes and acknowledges what it was given.  If mail is left and no
\* other run of the agent is active, a follow-up is inserted to read it.
Finish(r) ==
    /\ r \in mail.begun
    /\ LET a == mail.agent[r]
           b == Ack(mail, a, Handled(r))
       IN  IF b.inbox[a] # {} /\ ActiveOf(a) = {r}
           THEN \E n \in Run : /\ CompleteAndFollowUp(r, n)
                               /\ mail' = NewRun(b, n, a, "delivered")
           ELSE Complete(r) /\ mail' = b

\* The attempt fails for good.  M is what _safe_drain read beforehand: later
\* mail is not in it, and nothing is when the read failed.  An error that a
\* retry cannot help acknowledges it; a run out of retries dead-letters it.
FailForGood(r, M) ==
    /\ Fail(r)
    /\ M \subseteq mail.inbox[mail.agent[r]]
    /\ \/ mail' = Ack(mail, mail.agent[r], M)
       \/ /\ db.retries[r] = MaxRetries
          /\ mail' = DeadLetter(mail, mail.agent[r], M)

\* Whatever touches no message.
RunsOnly ==
    /\ UNCHANGED mail
    /\ \/ Lease
       \/ \E r \in Run :
            \/ Cancel(r)
            \/ RetryLater(r)
            \/ RequestCancel(r)
            \/ \E n \in Signals : Consume(r, n)
            \/ \E n \in Name : SendSignal(r, n)
            \/ /\ r \in mail.begun
               /\ \E wakeup \in Wakeups(db, r) : GoToSleep(r, wakeup)

MailNext ==
    \/ RunsOnly
    \/ \E a \in Agent, m \in Msg :
        \/ Deliver(a, m)
        \/ Redrive(a, m)
        \/ \E n \in Run : Submit(n, a, m)
        \/ \E r, c \in Run : SpawnWithBoot(r, c, a, m)
    \/ \E r \in Run :
        \/ Drain(r)
        \/ Replay(r)
        \/ Finish(r)
        \/ \E M \in SUBSET Msg : FailForGood(r, M)

mailVars == <<db, mail>>

MailSpec == MailInit /\ [][MailNext]_mailVars

-----------------------------------------------------------------------------
(* Properties.                                                             *)

\* Every table of messages keeps the shape its schema gives it, and the runs of
\* rt_runs are the ones that have an agent.
MailTypeOK ==
    /\ mail \in MailTables
    /\ \A r \in Run : (mail.agent[r] = NoAgent) <=> (db.status[r] = "absent")

\* A message that was acknowledged or given up is not in an inbox again, and a
\* dead letter stays in the processed set, so that it is not accepted anew.
AckedNeverBack ==
    \A a \in Agent : /\ mail.inbox[a] \cap mail.processed[a] = {}
                     /\ mail.dead[a] \subseteq mail.processed[a]

\* An agent's mail loses its last reader only in the step in which a run of that
\* agent fails or is cancelled: completing, sleeping, waking, retrying, losing a
\* lease or accepting more mail never leave mail behind (_deliver, _terminate).
Unattended(a) == mail.inbox[a] # {} /\ ActiveOf(a) = {}

MailHasReader ==
    [][\A a \in Agent : ~Unattended(a) /\ Unattended(a)'
         => \E r \in ActiveOf(a) : db'.status[r] \in {"failed", "cancelled"}]_mailVars

\* Deliveries and follow-ups never give an agent two active runs of their own.
OneReader ==
    \A a \in Agent : \A q, r \in ActiveOf(a) :
        mail.origin[q] = "delivered" /\ mail.origin[r] = "delivered" => q = r

\* A message leaves an inbox only into the processed set, and leaves that set
\* only as a redriven dead letter, back into the inbox.
NothingVanishes ==
    [][\A a \in Agent :
         /\ mail.inbox[a] \ mail'.inbox[a] \subseteq mail'.processed[a]
         /\ mail.processed[a] \ mail'.processed[a]
              \subseteq mail.dead[a] \cap mail'.inbox[a]]_mailVars
=============================================================================
