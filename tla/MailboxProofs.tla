---------------------------- MODULE MailboxProofs ----------------------------
(***************************************************************************)
(* What holds of Mailbox for any runs, agents, messages and bounds.  Its    *)
(* steps are steps of RunTree, so whatever is proved of the runs holds with *)
(* their messages too; the rest is about who reads an inbox.                *)
(***************************************************************************)
EXTENDS Mailbox, SupervisionProofs

\* What a step of Mailbox does to the runs, RunTree does as well.
LEMMA StepsAreRunSteps == [MailNext]_mailVars => [Next]_db
<1> SUFFICES ASSUME MailNext PROVE [Next]_db
  BY DEF mailVars
<1>1. ASSUME RunsOnly PROVE Next
  BY <1>1 DEF RunsOnly, Next
<1>2. ASSUME NEW a, NEW b, Rouse(a, b) PROVE [Next]_db
  <2>1. ActiveOf(a) \subseteq Run
    BY DEF ActiveOf, RunsOf
  <2> QED BY <1>2, <2>1 DEF Rouse, Next
<1>3. ASSUME NEW a \in Agent, NEW m \in Msg, Deliver(a, m) \/ Redrive(a, m)
      PROVE  [Next]_db
  BY <1>2, <1>3 DEF Deliver, Redrive
<1>4. ASSUME NEW a, NEW m, NEW n \in Run, Submit(n, a, m) PROVE Next
  BY <1>4 DEF Submit, Next
<1>5. ASSUME NEW a, NEW m, NEW r \in Run, NEW c \in Run, SpawnWithBoot(r, c, a, m) PROVE Next
  BY <1>5 DEF SpawnWithBoot, Next
<1>6. ASSUME NEW r \in Run, Drain(r) \/ Replay(r) PROVE UNCHANGED db
  BY <1>6 DEF Drain, Replay
<1>7. ASSUME NEW r \in Run, Finish(r) PROVE Next
  <2>1. (\E n \in Run : CompleteAndFollowUp(r, n)) \/ Complete(r)
    BY <1>7 DEF Finish
  <2> QED BY <2>1 DEF Next
<1>8. ASSUME NEW r \in Run, NEW M, FailForGood(r, M) PROVE Next
  BY <1>8 DEF FailForGood, Next
<1> QED BY <1>1, <1>3, <1>4, <1>5, <1>6, <1>7, <1>8 DEF MailNext

\* Mailbox implements RunTree: the messages join the transactions of the runs and add
\* none, so a run is woken, ended or reported by nothing but those.
THEOREM MailboxKeepsRuns == MailSpec => Spec
<1>1. MailInit => Init
  BY DEF MailInit
<1> QED BY <1>1, StepsAreRunSteps, PTL DEF MailSpec, Spec

-----------------------------------------------------------------------------
(* What steps do to the states of runs.                                    *)

\* A run stays what it was, up to which of the live states it is in.
Stays(d, e, q) == e.status[q] = d.status[q] \/ (d.status[q] \in Live /\ e.status[q] \in Live)

\* Or it fails or is cancelled.
Drops(d, e) ==
    \A q \in Run : \/ Stays(d, e, q)
                   \/ d.status[q] \in Live /\ e.status[q] \in {"failed", "cancelled"}

\* Changes that a parent does not see leave every run what it was.
LEMMA AlikeStays ==
    ASSUME NEW d \in Tables, NEW e \in Tables, Alike(d, e), NEW q \in Run
    PROVE  Stays(d, e, q)
<1>1. d.status[q] \in Status /\ e.status[q] \in Status
  BY DEF Tables
<1>2. LifeOf(e, q) = LifeOf(d, q)
  BY DEF Alike
<1> QED BY <1>1, <1>2 DEF Stays, LifeOf, Status, Live, Asleep, Ended

\* Runs drop out one after the other.
LEMMA DropsTransitive ==
    ASSUME NEW d, NEW e, NEW f, Drops(d, e), Drops(e, f)
    PROVE  Drops(d, f)
BY DEF Drops, Stays, Live, Asleep

\* Ending runs together, for another reason than completion.
LEMMA EndRunsDrops ==
    ASSUME NEW d \in Tables, NEW gone \in SUBSET Run, NEW heads \in SUBSET gone,
           NEW outcome \in {"failed", "cancelled"}, \A r \in gone : d.status[r] \in Live
    PROVE  Drops(d, EndRuns(d, gone, heads, outcome))
<1>1. PICK e : e = EndRuns(d, gone, heads, outcome)
  OBVIOUS
<1>2. outcome \in Ended
  BY DEF Ended
<1>3. Ending(d, gone, heads, outcome, e)
  BY <1>1, <1>2, EndRunsFields
<1>4. ASSUME NEW q \in Run
      PROVE  \/ Stays(d, e, q)
             \/ d.status[q] \in Live /\ e.status[q] \in {"failed", "cancelled"}
  <2>1. /\ q \in heads => e.status[q] = outcome
        /\ q \in gone \ heads => e.status[q] = "cancelled"
        /\ q \notin gone => \/ e.status[q] = d.status[q]
                            \/ d.status[q] = "suspended" /\ e.status[q] = "pending"
    BY <1>3 DEF Ending
  <2> QED BY <2>1 DEF Stays, Live, Asleep
<1> QED BY <1>1, <1>4 DEF Drops

\* _terminate, for another reason than completion.
LEMMA TerminateDrops ==
    ASSUME NEW d \in Tables, NEW R \in SUBSET Run, \A r \in R : d.status[r] \in Live,
           NEW outcome \in {"failed", "cancelled"}
    PROVE  Drops(d, Terminate(d, R, outcome))
<1> DEFINE gone == Closure(d, R, InState(d, Asleep))
           told == FlagRunning(d, Children(d, gone))
<1>1. gone \in SUBSET Run
  BY ClosureRuns
<1>2. told \in Tables /\ told.status = d.status
  BY FlagRunningType, FlagRunningFields
<1>3. InState(d, Asleep) \in SUBSET Run
  BY DEF InState
<1>4. R \subseteq gone /\ gone \subseteq R \cup InState(d, Asleep)
  BY <1>3, ClosureFacts
<1>5. \A r \in gone : told.status[r] \in Live
  BY <1>2, <1>4 DEF InState, Live
<1>6. Terminate(d, R, outcome) = EndRuns(told, gone, R, outcome)
  BY DEF Terminate
<1> HIDE DEF gone, told
<1>7. Drops(told, EndRuns(told, gone, R, outcome))
  BY <1>1, <1>2, <1>4, <1>5, EndRunsDrops
<1> QED BY <1>2, <1>6, <1>7 DEF Drops, Stays

\* request_cancel.
LEMMA CancelTreeDrops ==
    ASSUME NEW d \in Tables, NEW r \in Run
    PROVE  Drops(d, CancelTree(d, r))
<1> DEFINE tree == Closure(d, {r}, Run)
           told == FlagRunning(d, tree)
           gone == tree \cap InState(d, Asleep)
<1>1. told \in Tables /\ told.status = d.status
  BY FlagRunningType, FlagRunningFields
<1>2. gone \in SUBSET Run /\ {} \in SUBSET gone /\ \A x \in gone : d.status[x] \in Live
  BY DEF InState, Live
<1>3. CancelTree(d, r) = EndRuns(told, gone, {}, "cancelled")
  BY DEF CancelTree
<1> HIDE DEF told, gone
<1>4. Drops(told, EndRuns(told, gone, {}, "cancelled"))
  BY <1>1, <1>2, EndRunsDrops
<1> QED BY <1>1, <1>3, <1>4 DEF Drops, Stays

\* A completion ends the run that completes and no other.
LEMMA CompletionFacts ==
    ASSUME NEW d \in Tables, NEW r \in Run
    PROVE  LET e == Terminate(d, {r}, "completed")
           IN  e.status[r] = "completed" /\ \A q \in Run \ {r} : Stays(d, e, q)
<1>1. PICK e : e = EndRuns(d, {r}, {r}, "completed")
  OBVIOUS
<1>2. Ending(d, {r}, {r}, "completed", e)
  <2>1. "completed" \in Ended /\ {r} \in SUBSET Run /\ {r} \in SUBSET {r}
    BY DEF Ended
  <2> QED BY <1>1, <2>1, EndRunsFields
<1>3. e.status[r] = "completed"
  BY <1>2 DEF Ending
<1>4. ASSUME NEW q \in Run \ {r} PROVE Stays(d, e, q)
  BY <1>2 DEF Ending, Stays, Live, Asleep
<1> QED BY <1>1, <1>3, <1>4 DEF Terminate

\* Changes that no parent sees make nobody drop out.
LEMMA AlikeDrops ==
    ASSUME NEW d \in Tables, NEW e \in Tables, Alike(d, e)
    PROVE  Drops(d, e)
BY AlikeStays DEF Drops

\* A whole poll of a worker: it wakes, fails and claims runs.
LEMMA LeaseDrops ==
    ASSUME db \in Tables, db' \in Tables, Lease
    PROVE  Drops(db, db')
<1>1. PICK expired \in SUBSET InState(db, {"running"}),
           due \in SUBSET (db.timer \cap InState(db, {"suspended"})) :
        LET timed == MakePending(Reclaim(db, expired), due)
        IN  \E overdue \in SUBSET (Dated \cap InState(timed, Asleep)) :
              LET failed == Terminate(timed, overdue, "failed")
              IN  \E claimed \in SUBSET InState(failed, {"pending"}) :
                    db' = Claim(failed, claimed)
  BY DEF Lease
<1> DEFINE reclaimed == Reclaim(db, expired)
           timed == MakePending(reclaimed, due)
<1>2. /\ reclaimed \in Tables /\ timed \in Tables
      /\ Alike(db, reclaimed) /\ Alike(reclaimed, timed)
  <2>1. reclaimed \in Tables
    BY ClaimType
  <2>2. \A r \in expired : db.status[r] \in Live
    BY DEF InState, Live
  <2>3. due \in SUBSET Run
    BY DEF InState
  <2>4. Alike(db, reclaimed)
    BY <2>2, ClaimAlike
  <2> HIDE DEF reclaimed
  <2> QED BY <2>1, <2>3, <2>4, MakePendingType, MakePendingAlike
<1>3. Drops(db, timed)
  BY <1>2, AlikeDrops, DropsTransitive
<1>4. PICK overdue \in SUBSET (Dated \cap InState(timed, Asleep)) :
        LET failed == Terminate(timed, overdue, "failed")
        IN  \E claimed \in SUBSET InState(failed, {"pending"}) :
              db' = Claim(failed, claimed)
  BY <1>1
<1> HIDE DEF timed
<1> DEFINE failed == Terminate(timed, overdue, "failed")
<1>5. failed \in Tables /\ Drops(timed, failed)
  <2>1. overdue \in SUBSET Run /\ "failed" \in Ended
    BY IdAssumption DEF Ended
  <2>2. \A r \in overdue : timed.status[r] \in Live
    BY DEF InState, Live
  <2> QED BY <1>2, <2>1, <2>2, TerminateType, TerminateDrops
<1>6. PICK claimed \in SUBSET InState(failed, {"pending"}) : db' = Claim(failed, claimed)
  BY <1>4
<1>7. \A r \in claimed : failed.status[r] \in Live
  BY DEF InState, Live, Asleep
<1> HIDE DEF failed
<1>8. Drops(failed, db')
  BY <1>5, <1>6, <1>7, ClaimAlike, AlikeDrops
<1> QED BY <1>3, <1>5, <1>8, DropsTransitive

\* What touches no message lets a run fail or be cancelled, and nothing else.
LEMMA RunsOnlyDrops ==
    ASSUME db \in Tables, db' \in Tables, RunsOnly
    PROVE  Drops(db, db')
<1> DEFINE Cancels(r) == db' = Terminate(db, {r}, "cancelled")
<1>1. ASSUME NEW r \in Run, db.status[r] = "running", Cancels(r)
      PROVE  Drops(db, db')
  BY <1>1, TerminateDrops DEF Live
<1>2. CASE Lease
  BY <1>2, LeaseDrops
<1>3. ASSUME NEW r \in Run, Cancel(r) PROVE Drops(db, db')
  BY <1>1, <1>3 DEF Cancel
<1>4. ASSUME NEW r \in Run, RetryLater(r) PROVE Drops(db, db')
  <2>1. db.status[r] = "running" /\ (Cancels(r) \/ db' = Retry(db, r)) /\ db.retries[r] < MaxRetries
    BY <1>4 DEF RetryLater
  <2>2. db' = Retry(db, r) => Alike(db, db')
    BY <2>1, RetryAlike DEF Live
  <2> HIDE DEF Cancels
  <2> QED BY <1>1, <2>1, <2>2, AlikeDrops
<1>5. ASSUME NEW r \in Run, RequestCancel(r) PROVE Drops(db, db')
  BY <1>5, CancelTreeDrops DEF RequestCancel
<1>6. ASSUME NEW r \in Run, NEW n \in Signals, Consume(r, n) PROVE Drops(db, db')
  <2>1. db'.status = db.status
    BY <1>6 DEF Consume, Tables
  <2> QED BY <2>1 DEF Drops, Stays
<1>7. ASSUME NEW r \in Run, NEW n \in Name, SendSignal(r, n) PROVE Drops(db, db')
  BY <1>7, SignalAlike, AlikeDrops DEF SendSignal
<1>8. ASSUME NEW r \in Run, NEW wakeup \in Wakeups(db, r), GoToSleep(r, wakeup)
      PROVE  Drops(db, db')
  <2>1. db.status[r] = "running" /\ (Cancels(r) \/ db' = Suspend(db, r, wakeup))
    BY <1>8 DEF GoToSleep
  <2>2. db' = Suspend(db, r, wakeup) => Alike(db, db')
    BY <2>1, SuspendAlike DEF Live
  <2> HIDE DEF Cancels
  <2> QED BY <1>1, <2>1, <2>2, AlikeDrops
<1> QED BY <1>2, <1>3, <1>4, <1>5, <1>6, <1>7, <1>8 DEF RunsOnly

\* A new run is pending, and the others are what they were.
LEMMA InsertFacts ==
    ASSUME NEW d \in Tables, NEW n \in Run, NEW p
    PROVE  LET e == InsertRun(d, n, p)
           IN  e.status[n] = "pending" /\ \A q \in Run \ {n} : e.status[q] = d.status[q]
BY DEF InsertRun, Tables

-----------------------------------------------------------------------------
(* What steps do to the messages.                                          *)

\* No message is both in an inbox and done with, and a dead letter is done with.
Sorted(b) == \A a \in Agent : /\ b.inbox[a] \cap b.processed[a] = {}
                              /\ b.dead[a] \subseteq b.processed[a]

\* Messages leave an inbox as done with, and return as dead letters only.
Moves(b, c) ==
    \A a \in Agent : /\ b.inbox[a] \ c.inbox[a] \subseteq c.processed[a]
                     /\ b.processed[a] \ c.processed[a] \subseteq b.dead[a] \cap c.inbox[a]

\* A message that is not known is put into one inbox.
LEMMA AcceptFacts ==
    ASSUME NEW b \in MailTables, Sorted(b), NEW a \in Agent, NEW m \in Msg, m \notin Known(b, a),
           NEW c, c = Accept(b, a, m)
    PROVE  /\ c \in MailTables /\ Sorted(c)
           /\ c.agent = b.agent /\ c.origin = b.origin
           /\ c.processed = b.processed /\ c.dead = b.dead
           /\ c.inbox[a] = b.inbox[a] \cup {m}
           /\ \A x \in Agent : x # a => c.inbox[x] = b.inbox[x]
<1>1. c = [b EXCEPT !.inbox[a] = @ \cup {m}]
  BY DEF Accept
<1>2. b.inbox \in [Agent -> SUBSET Msg]
  BY DEF MailTables
<1>3. [b.inbox EXCEPT ![a] = b.inbox[a] \cup {m}] \in [Agent -> SUBSET Msg]
  BY <1>2
<1>4. /\ c \in MailTables
      /\ c.agent = b.agent /\ c.origin = b.origin
      /\ c.processed = b.processed /\ c.dead = b.dead
      /\ c.inbox = [b.inbox EXCEPT ![a] = b.inbox[a] \cup {m}]
  BY <1>1, <1>3 DEF MailTables
<1>5. /\ c.inbox[a] = b.inbox[a] \cup {m}
      /\ \A x \in Agent : x # a => c.inbox[x] = b.inbox[x]
  BY <1>2, <1>4
<1>6. Sorted(c)
  BY <1>4, <1>5 DEF Sorted, Known
<1> QED BY <1>4, <1>5, <1>6

\* Messages are taken out of one inbox and are done with.
LEMMA AckFacts ==
    ASSUME NEW b \in MailTables, Sorted(b), NEW a \in Agent, NEW M \in SUBSET Msg,
           NEW c, c = Ack(b, a, M)
    PROVE  /\ c \in MailTables /\ Sorted(c) /\ Moves(b, c)
           /\ c.agent = b.agent /\ c.origin = b.origin /\ c.dead = b.dead
           /\ \A x \in Agent : c.inbox[x] = IF x = a THEN b.inbox[x] \ M ELSE b.inbox[x]
           /\ \A x \in Agent : c.processed[x] = IF x = a THEN b.processed[x] \cup M
                                                ELSE b.processed[x]
<1>1. c = [b EXCEPT !.inbox[a] = @ \ M, !.processed[a] = @ \cup M]
  BY DEF Ack
<1>2. b.inbox \in [Agent -> SUBSET Msg] /\ b.processed \in [Agent -> SUBSET Msg]
  BY DEF MailTables
<1>3. /\ [b.inbox EXCEPT ![a] = b.inbox[a] \ M] \in [Agent -> SUBSET Msg]
      /\ [b.processed EXCEPT ![a] = b.processed[a] \cup M] \in [Agent -> SUBSET Msg]
  BY <1>2
<1>4. /\ c \in MailTables
      /\ c.agent = b.agent /\ c.origin = b.origin /\ c.dead = b.dead
      /\ c.inbox = [b.inbox EXCEPT ![a] = b.inbox[a] \ M]
      /\ c.processed = [b.processed EXCEPT ![a] = b.processed[a] \cup M]
  BY <1>1, <1>3 DEF MailTables
<1>5. /\ \A x \in Agent : c.inbox[x] = IF x = a THEN b.inbox[x] \ M ELSE b.inbox[x]
      /\ \A x \in Agent : c.processed[x] = IF x = a THEN b.processed[x] \cup M
                                           ELSE b.processed[x]
  BY <1>2, <1>4
<1>6. Sorted(c)
  BY <1>4, <1>5 DEF Sorted
<1>7. Moves(b, c)
  BY <1>5 DEF Moves
<1> QED BY <1>4, <1>5, <1>6, <1>7

\* A run of an agent is noted.
LEMMA NewRunFacts ==
    ASSUME NEW b \in MailTables, NEW n \in Run, NEW a \in Agent, NEW o \in Origin,
           NEW c, c = NewRun(b, n, a, o)
    PROVE  /\ c \in MailTables
           /\ c.agent = [b.agent EXCEPT ![n] = a] /\ c.origin = [b.origin EXCEPT ![n] = o]
           /\ c.inbox = b.inbox /\ c.processed = b.processed /\ c.dead = b.dead
<1>1. c = [b EXCEPT !.agent[n] = a, !.origin[n] = o]
  BY DEF NewRun
<1>2. /\ [b.agent EXCEPT ![n] = a] \in [Run -> Agent \cup {NoAgent}]
      /\ [b.origin EXCEPT ![n] = o] \in [Run -> Origin]
  BY DEF MailTables
<1> QED BY <1>1, <1>2 DEF MailTables

\* What the inboxes hold decides whether the messages are sorted, and where they went.
LEMMA SameMessages ==
    ASSUME NEW b, NEW c, c.inbox = b.inbox, c.processed = b.processed, c.dead = b.dead
    PROVE  /\ Sorted(b) <=> Sorted(c)
           /\ \A d : Moves(d, b) <=> Moves(d, c)
           /\ Moves(b, c)
BY DEF Sorted, Moves

\* Messages that are given up are done with, and kept as dead letters.
LEMMA DeadLetterFacts ==
    ASSUME NEW b \in MailTables, Sorted(b), NEW a \in Agent, NEW M \in SUBSET Msg,
           NEW c, c = DeadLetter(b, a, M)
    PROVE  /\ c \in MailTables /\ Sorted(c) /\ Moves(b, c)
           /\ c.agent = b.agent /\ c.origin = b.origin
           /\ \A x \in Agent : c.inbox[x] \subseteq b.inbox[x]
<1> DEFINE L == M \cap b.inbox[a]
<1>1. PICK e : e = Ack(b, a, L)
  OBVIOUS
<1>2. L \in SUBSET Msg
  OBVIOUS
<1>3. c = [e EXCEPT !.dead[a] = @ \cup L]
  BY <1>1 DEF DeadLetter
<1> HIDE DEF L
<1>4. /\ e \in MailTables /\ Sorted(e) /\ Moves(b, e)
      /\ e.agent = b.agent /\ e.origin = b.origin /\ e.dead = b.dead
      /\ \A x \in Agent : e.inbox[x] = IF x = a THEN b.inbox[x] \ L ELSE b.inbox[x]
      /\ \A x \in Agent : e.processed[x] = IF x = a THEN b.processed[x] \cup L
                                           ELSE b.processed[x]
  BY <1>1, <1>2, AckFacts
<1>5. e.dead \in [Agent -> SUBSET Msg]
  BY <1>4 DEF MailTables
<1>6. [e.dead EXCEPT ![a] = e.dead[a] \cup L] \in [Agent -> SUBSET Msg]
  BY <1>2, <1>5
<1>7. /\ c \in MailTables
      /\ c.agent = e.agent /\ c.origin = e.origin
      /\ c.inbox = e.inbox /\ c.processed = e.processed
      /\ c.dead = [e.dead EXCEPT ![a] = e.dead[a] \cup L]
  BY <1>3, <1>4, <1>6 DEF MailTables
<1>8. \A x \in Agent : c.dead[x] = IF x = a THEN b.dead[x] \cup L ELSE b.dead[x]
  BY <1>4, <1>5, <1>7
<1>9. Sorted(c)
  <2> SUFFICES ASSUME NEW x \in Agent
               PROVE  c.inbox[x] \cap c.processed[x] = {} /\ c.dead[x] \subseteq c.processed[x]
    BY DEF Sorted
  <2>1. c.inbox[x] \cap c.processed[x] = {}
    BY <1>4, <1>7 DEF Sorted
  <2>2. b.dead[x] \subseteq e.processed[x]
    BY <1>4 DEF Sorted
  <2>3. x = a => L \subseteq e.processed[x]
    BY <1>4
  <2>4. c.dead[x] \subseteq c.processed[x]
    BY <1>7, <1>8, <2>2, <2>3
  <2> QED BY <2>1, <2>4
<1>10. Moves(b, c)
  BY <1>4, <1>7 DEF Moves
<1> QED BY <1>4, <1>7, <1>9, <1>10

\* A dead letter is neither kept nor done with any more.
TakenBack(b, a, m) == [b EXCEPT !.dead[a] = @ \ {m}, !.processed[a] = @ \ {m}]

\* It goes back into the inbox it came from.
LEMMA RedriveFacts ==
    ASSUME NEW b \in MailTables, Sorted(b), NEW a \in Agent, NEW m \in Msg, m \in b.dead[a],
           NEW c, c = Accept(TakenBack(b, a, m), a, m)
    PROVE  /\ c \in MailTables /\ Sorted(c) /\ Moves(b, c)
           /\ c.agent = b.agent /\ c.origin = b.origin
           /\ \A x \in Agent : x # a => c.inbox[x] = b.inbox[x]
<1>1. PICK e : e = TakenBack(b, a, m)
  OBVIOUS
<1>2. b.dead \in [Agent -> SUBSET Msg] /\ b.processed \in [Agent -> SUBSET Msg]
  BY DEF MailTables
<1>3. /\ [b.dead EXCEPT ![a] = b.dead[a] \ {m}] \in [Agent -> SUBSET Msg]
      /\ [b.processed EXCEPT ![a] = b.processed[a] \ {m}] \in [Agent -> SUBSET Msg]
  BY <1>2
<1>4. /\ e \in MailTables
      /\ e.agent = b.agent /\ e.origin = b.origin /\ e.inbox = b.inbox
      /\ e.dead = [b.dead EXCEPT ![a] = b.dead[a] \ {m}]
      /\ e.processed = [b.processed EXCEPT ![a] = b.processed[a] \ {m}]
  BY <1>1, <1>3 DEF MailTables, TakenBack
<1>5. \A x \in Agent : /\ e.dead[x] = IF x = a THEN b.dead[x] \ {m} ELSE b.dead[x]
                       /\ e.processed[x] = IF x = a THEN b.processed[x] \ {m} ELSE b.processed[x]
  BY <1>2, <1>4
<1>6. Sorted(e)
  BY <1>4, <1>5 DEF Sorted
<1>7. m \notin Known(e, a)
  BY <1>4, <1>5 DEF Sorted, Known
<1>8. c = Accept(e, a, m)
  BY <1>1
<1>9. /\ c \in MailTables /\ Sorted(c)
      /\ c.agent = e.agent /\ c.origin = e.origin
      /\ c.processed = e.processed /\ c.dead = e.dead
      /\ c.inbox[a] = e.inbox[a] \cup {m}
      /\ \A x \in Agent : x # a => c.inbox[x] = e.inbox[x]
  BY <1>4, <1>6, <1>7, <1>8, AcceptFacts
<1>10. Moves(b, c)
  <2>1. ASSUME NEW x \in Agent PROVE b.inbox[x] \subseteq c.inbox[x]
    <3>1. x = a => c.inbox[x] = b.inbox[x] \cup {m}
      BY <1>4, <1>9
    <3>2. x # a => c.inbox[x] = b.inbox[x]
      BY <1>4, <1>9
    <3> QED BY <3>1, <3>2
  <2>2. c.inbox[a] = b.inbox[a] \cup {m} /\ c.processed[a] = b.processed[a] \ {m}
    BY <1>4, <1>5, <1>9
  <2>3. \A x \in Agent : x # a => b.processed[x] \ c.processed[x] = {}
    BY <1>5, <1>9
  <2>4. b.processed[a] \ c.processed[a] \subseteq b.dead[a] \cap c.inbox[a]
    BY <2>2
  <2> QED BY <2>1, <2>3, <2>4 DEF Moves
<1> QED BY <1>4, <1>9, <1>10

-----------------------------------------------------------------------------
(* Who reads an inbox.                                                     *)

\* The runs that exist are the ones that have an agent.
Peopled == \A r \in Run : (mail.agent[r] = NoAgent) <=> (db.status[r] = "absent")

\* No agent's mail loses its last reader, unless that reader fails or is cancelled.
KeepsReader ==
    \A a \in Agent : ~Unattended(a) /\ Unattended(a)'
      => \E r \in ActiveOf(a) : db'.status[r] \in {"failed", "cancelled"}

\* When no run comes, the runs have the agents they had, and no agent gets a second
\* reader.
LEMMA SameReaders ==
    ASSUME Peopled, OneReader, mail'.agent = mail.agent, mail'.origin = mail.origin,
           \A q \in Run : \/ Stays(db, db', q)
                          \/ db.status[q] \in Live /\ db'.status[q] \in Ended
    PROVE  Peopled' /\ OneReader'
<1>1. \A q \in Run : /\ db'.status[q] = "absent" <=> db.status[q] = "absent"
                     /\ db'.status[q] \in Live => db.status[q] \in Live
  BY DEF Stays, Live, Asleep, Ended
<1>2. \A a \in Agent : ActiveOf(a)' \subseteq ActiveOf(a)
  BY <1>1 DEF ActiveOf, RunsOf, InState
<1>3. Peopled'
  BY <1>1 DEF Peopled
<1>4. OneReader'
  BY <1>2 DEF OneReader
<1> QED BY <1>3, <1>4

\* Runs that fail or are cancelled may leave mail behind; no other run does.
LEMMA ReaderDrops ==
    ASSUME Drops(db, db'), mail'.agent = mail.agent,
           \A a \in Agent : mail'.inbox[a] \subseteq mail.inbox[a]
    PROVE  KeepsReader
<1> SUFFICES ASSUME NEW a \in Agent, ~Unattended(a), Unattended(a)'
             PROVE  \E r \in ActiveOf(a) : db'.status[r] \in {"failed", "cancelled"}
  BY DEF KeepsReader
<1>1. ActiveOf(a) # {} /\ ActiveOf(a)' = {}
  BY DEF Unattended
<1>2. PICK r \in ActiveOf(a) : TRUE
  BY <1>1
<1>3. r \in Run /\ db.status[r] \in Live /\ db'.status[r] \notin Live
  BY <1>1, <1>2 DEF ActiveOf, RunsOf, InState
<1>4. db'.status[r] \in {"failed", "cancelled"}
  BY <1>3 DEF Drops, Stays
<1> QED BY <1>2, <1>4

\* A reader that stays, or comes, reads what is left.
LEMMA ReaderStays ==
    ASSUME \A a \in Agent : \/ ActiveOf(a)' # {}
                            \/ mail'.inbox[a] = {}
                            \/ /\ ActiveOf(a) = {}
                               /\ mail'.inbox[a] \subseteq mail.inbox[a]
    PROVE  KeepsReader
BY DEF KeepsReader, Unattended

\* An agent's active runs stay its readers as long as they live.
LEMMA LiveStays ==
    ASSUME NEW a, NEW q \in ActiveOf(a), Stays(db, db', q), mail'.agent[q] = mail.agent[q]
    PROVE  q \in ActiveOf(a)'
BY DEF ActiveOf, RunsOf, InState, Stays

\* A run comes for an agent: it reads the mail, and is the agent's only delivered run if
\* no other one was active or is left.
LEMMA ReaderComes ==
    ASSUME mail \in MailTables, Peopled, OneReader,
           NEW a \in Agent, NEW n \in Run, NEW o \in Origin, NEW b \in MailTables,
           Sorted(b), Moves(mail, b), b.agent = mail.agent, b.origin = mail.origin,
           \A x \in Agent : x # a => b.inbox[x] = mail.inbox[x],
           mail' = NewRun(b, n, a, o),
           db.status[n] = "absent", db'.status[n] = "pending",
           \A q \in Run \ {n} :
             \/ Stays(db, db', q)
             \/ q \in ActiveOf(a) /\ db'.status[q] \in Ended,
           o = "delivered" => \A q \in ActiveOf(a) : db'.status[q] \in Ended
    PROVE  /\ mail' \in MailTables /\ Sorted(mail') /\ Moves(mail, mail')
           /\ Peopled' /\ OneReader' /\ KeepsReader
<1> DEFINE m == mail'
<1>1. /\ m \in MailTables
      /\ m.agent = [b.agent EXCEPT ![n] = a] /\ m.origin = [b.origin EXCEPT ![n] = o]
      /\ m.inbox = b.inbox /\ m.processed = b.processed /\ m.dead = b.dead
  BY NewRunFacts
<1>2. mail.agent \in [Run -> Agent \cup {NoAgent}] /\ mail.origin \in [Run -> Origin]
  BY DEF MailTables
<1>3. \A q \in Run : /\ m.agent[q] = IF q = n THEN a ELSE mail.agent[q]
                     /\ m.origin[q] = IF q = n THEN o ELSE mail.origin[q]
  BY <1>1, <1>2
<1>4. Sorted(m) /\ Moves(mail, m)
  BY <1>1, SameMessages
<1>5. \A q \in Run \ {n} : /\ db'.status[q] = "absent" <=> db.status[q] = "absent"
                           /\ db'.status[q] \in Live => db.status[q] \in Live
  BY DEF Stays, ActiveOf, InState, Live, Asleep, Ended
<1>6. \A x \in Agent : ActiveOf(x)' \subseteq ActiveOf(x) \cup {n}
  BY <1>3, <1>5 DEF ActiveOf, RunsOf, InState
<1>7. \A x \in Agent : n \in ActiveOf(x)' <=> x = a
  BY <1>3 DEF ActiveOf, RunsOf, InState, Live, Asleep
<1>8. Peopled'
  <2>1. a # NoAgent
    BY MailAssumption
  <2> QED BY <1>3, <1>5, <2>1 DEF Peopled
<1>9. OneReader'
  <2> SUFFICES ASSUME NEW x \in Agent, NEW q \in ActiveOf(x)', NEW r \in ActiveOf(x)',
                      m.origin[q] = "delivered", m.origin[r] = "delivered"
               PROVE  q = r
    BY DEF OneReader
  <2>1. CASE q = n \/ r = n
    <3>1. x = a /\ o = "delivered"
      BY <1>3, <1>7, <2>1
    <3>2. ActiveOf(a)' \subseteq {n}
      <4> SUFFICES ASSUME NEW z \in ActiveOf(a)', z # n PROVE FALSE
        OBVIOUS
      <4>1. z \in ActiveOf(a)
        BY <1>6
      <4>2. db'.status[z] \in Ended /\ db'.status[z] \in Live
        BY <3>1, <4>1 DEF ActiveOf, InState
      <4> QED BY <4>2 DEF Ended, Live, Asleep
    <3> QED BY <3>1, <3>2
  <2>2. CASE q # n /\ r # n
    <3>1. q \in ActiveOf(x) /\ r \in ActiveOf(x)
      BY <1>6, <2>2
    <3>2. mail.origin[q] = "delivered" /\ mail.origin[r] = "delivered"
      BY <1>3, <2>2, <3>1 DEF ActiveOf, RunsOf
    <3> QED BY <3>1, <3>2 DEF OneReader
  <2> QED BY <2>1, <2>2
<1>10. KeepsReader
  <2>1. ASSUME NEW x \in Agent, x # a
        PROVE  \/ ActiveOf(x)' # {}
               \/ ActiveOf(x) = {} /\ m.inbox[x] \subseteq mail.inbox[x]
    <3>1. CASE ActiveOf(x) = {}
      BY <1>1, <2>1, <3>1
    <3>2. ASSUME NEW q \in ActiveOf(x) PROVE q \in ActiveOf(x)'
      <4>1. q \in Run /\ mail.agent[q] = x /\ db.status[q] \in Live
        BY DEF ActiveOf, RunsOf, InState
      <4>2. q # n /\ q \notin ActiveOf(a)
        BY <2>1, <4>1 DEF ActiveOf, RunsOf, Live, Asleep
      <4>3. m.agent[q] = mail.agent[q] /\ Stays(db, db', q)
        BY <1>3, <4>1, <4>2
      <4> QED BY <4>3, LiveStays
    <3> QED BY <3>1, <3>2
  <2>2. ActiveOf(a)' # {}
    BY <1>7
  <2> QED BY <2>1, <2>2, ReaderStays
<1> QED BY <1>1, <1>4, <1>8, <1>9, <1>10

-----------------------------------------------------------------------------
(* The invariant.  The shape of the tables and who has an agent are what     *)
(* OneReader needs of the runs: a run that comes was nobody's before.  The   *)
(* runs themselves keep the shape RunTreeProofs gives them.                  *)

MInv == mail \in MailTables /\ Sorted(mail) /\ Peopled /\ OneReader

\* Everything there is to show of a step.
Kept == MInv' /\ Moves(mail, mail') /\ KeepsReader

\* Nobody has mail to begin with.
LEMMA MailInitInv == MailInit => MInv
<1> SUFFICES ASSUME MailInit PROVE MInv
  OBVIOUS
<1>1. mail \in MailTables
  BY DEF MailInit, MailTables, Origin
<1>2. Sorted(mail)
  BY DEF MailInit, Sorted
<1>3. Peopled
  BY DEF MailInit, Init, Peopled
<1>4. OneReader
  BY DEF MailInit, OneReader, ActiveOf, RunsOf
<1> QED BY <1>1, <1>2, <1>3, <1>4 DEF MInv

\* Runs that fail or are cancelled while no message comes: RunsOnly, and FailForGood
\* with whatever it does with the messages it read.
LEMMA DropsKeep ==
    ASSUME MInv, Drops(db, db'), mail' \in MailTables, Sorted(mail'), Moves(mail, mail'),
           mail'.agent = mail.agent, mail'.origin = mail.origin,
           \A a \in Agent : mail'.inbox[a] \subseteq mail.inbox[a]
    PROVE  Kept
<1>1. \A q \in Run : \/ Stays(db, db', q)
                     \/ db.status[q] \in Live /\ db'.status[q] \in Ended
  BY DEF Drops, Ended
<1>2. Peopled' /\ OneReader'
  BY <1>1, SameReaders DEF MInv
<1> QED BY <1>2, ReaderDrops DEF Kept, MInv

\* RunsOnly.
LEMMA RunsOnlyKeeps ==
    ASSUME MInv, db \in Tables, db' \in Tables, RunsOnly
    PROVE  Kept
<1>1. mail' = mail
  BY DEF RunsOnly
<1>2. Moves(mail, mail')
  BY <1>1 DEF Moves
<1> QED BY <1>1, <1>2, RunsOnlyDrops, DropsKeep DEF MInv

\* Rouse: the message that was put into b wakes a reader, has one, or gets one.
LEMMA RouseKeeps ==
    ASSUME MInv, db \in Tables, NEW a \in Agent, NEW b \in MailTables,
           Sorted(b), Moves(mail, b), b.agent = mail.agent, b.origin = mail.origin,
           \A x \in Agent : x # a => b.inbox[x] = mail.inbox[x],
           Rouse(a, b)
    PROVE  Kept
<1>1. CASE ActiveOf(a) = {} /\ \E n \in Run : CreateRun(n) /\ mail' = NewRun(b, n, a, "delivered")
  <2>1. PICK n \in Run : CreateRun(n) /\ mail' = NewRun(b, n, a, "delivered")
    BY <1>1
  <2>2. /\ db.status[n] = "absent" /\ db'.status[n] = "pending"
        /\ \A q \in Run \ {n} : db'.status[q] = db.status[q]
    BY <2>1, InsertFacts DEF CreateRun
  <2>3. \A q \in Run \ {n} : Stays(db, db', q)
    BY <2>2 DEF Stays
  <2>4. "delivered" \in Origin
    BY DEF Origin
  <2> QED BY <1>1, <2>1, <2>2, <2>3, <2>4, ReaderComes DEF MInv, Kept
<1>2. ASSUME NEW r \in ActiveOf(a), mail' = b, \A q \in Run : Stays(db, db', q)
      PROVE  Kept
  <2>1. Peopled' /\ OneReader'
    BY <1>2, SameReaders DEF MInv
  <2>2. ASSUME NEW x \in Agent, NEW q \in ActiveOf(x) PROVE q \in ActiveOf(x)'
    <3>1. q \in Run
      BY DEF ActiveOf, RunsOf
    <3> QED BY <1>2, <3>1, LiveStays
  <2>3. KeepsReader
    <3>1. ASSUME NEW x \in Agent, ActiveOf(x) = {} PROVE mail'.inbox[x] \subseteq mail.inbox[x]
      BY <1>2, <3>1
    <3> QED BY <2>2, <3>1, ReaderStays
  <2> QED BY <1>2, <2>1, <2>3 DEF MInv, Kept
<1>3. ASSUME NEW r \in ActiveOf(a), WakeByDelivery(r), mail' = b PROVE Kept
  <2>1. r \in Run /\ db' = MakePending(db, {r})
    BY <1>3 DEF ActiveOf, RunsOf, WakeByDelivery
  <2>2. db' \in Tables /\ Alike(db, db')
    BY <2>1, MakePendingType, MakePendingAlike
  <2>3. \A q \in Run : Stays(db, db', q)
    BY <2>2, AlikeStays
  <2> QED BY <1>2, <1>3, <2>3
<1>4. ASSUME NEW r \in ActiveOf(a), mail' = b, UNCHANGED db PROVE Kept
  <2>1. \A q \in Run : Stays(db, db', q)
    BY <1>4 DEF Stays
  <2> QED BY <1>2, <1>4, <2>1
<1> QED BY <1>1, <1>3, <1>4 DEF Rouse

\* Deliver.
LEMMA DeliverKeeps ==
    ASSUME MInv, db \in Tables, NEW a \in Agent, NEW m \in Msg, Deliver(a, m)
    PROVE  Kept
<1>1. PICK b : b = Accept(mail, a, m)
  OBVIOUS
<1>2. /\ b \in MailTables /\ Sorted(b)
      /\ b.agent = mail.agent /\ b.origin = mail.origin
      /\ b.processed = mail.processed /\ b.dead = mail.dead
      /\ b.inbox[a] = mail.inbox[a] \cup {m}
      /\ \A x \in Agent : x # a => b.inbox[x] = mail.inbox[x]
  <2>1. mail \in MailTables /\ Sorted(mail)
    BY DEF MInv
  <2>2. m \notin Known(mail, a)
    BY DEF Deliver
  <2> QED BY <1>1, <2>1, <2>2, AcceptFacts
<1>3. Moves(mail, b)
  BY <1>2 DEF Moves
<1>4. Rouse(a, b)
  BY <1>1 DEF Deliver
<1> QED BY <1>2, <1>3, <1>4, RouseKeeps

\* Redrive.
LEMMA RedriveKeeps ==
    ASSUME MInv, db \in Tables, NEW a \in Agent, NEW m \in Msg, Redrive(a, m)
    PROVE  Kept
<1>1. PICK b : b = Accept(TakenBack(mail, a, m), a, m)
  OBVIOUS
<1>2. /\ b \in MailTables /\ Sorted(b) /\ Moves(mail, b)
      /\ b.agent = mail.agent /\ b.origin = mail.origin
      /\ \A x \in Agent : x # a => b.inbox[x] = mail.inbox[x]
  <2>1. mail \in MailTables /\ Sorted(mail)
    BY DEF MInv
  <2>2. m \in mail.dead[a]
    BY DEF Redrive
  <2> QED BY <1>1, <2>1, <2>2, RedriveFacts
<1>3. Rouse(a, b)
  BY <1>1 DEF Redrive, TakenBack
<1> QED BY <1>2, <1>3, RouseKeeps

\* Submit and SpawnWithBoot: a run comes with its first message.
LEMMA BootKeeps ==
    ASSUME MInv, db \in Tables, NEW a \in Agent, NEW m \in Msg, NEW n \in Run,
           NEW o \in {"submitted", "spawned"}, NEW p,
           m \notin Known(mail, a), db.status[n] = "absent", db' = InsertRun(db, n, p),
           mail' = Accept(NewRun(mail, n, a, o), a, m)
    PROVE  Kept
<1>1. PICK b : b = Accept(mail, a, m)
  OBVIOUS
<1>2. /\ b \in MailTables /\ Sorted(b)
      /\ b.agent = mail.agent /\ b.origin = mail.origin
      /\ b.processed = mail.processed /\ b.dead = mail.dead
      /\ b.inbox[a] = mail.inbox[a] \cup {m}
      /\ \A x \in Agent : x # a => b.inbox[x] = mail.inbox[x]
  <2>1. mail \in MailTables /\ Sorted(mail)
    BY DEF MInv
  <2> QED BY <1>1, <2>1, AcceptFacts
<1>3. Moves(mail, b)
  BY <1>2 DEF Moves
<1>4. mail' = NewRun(b, n, a, o)
  BY <1>1 DEF NewRun, Accept, Known, MInv, MailTables
<1>5. /\ db'.status[n] = "pending"
      /\ \A q \in Run \ {n} : db'.status[q] = db.status[q]
  BY InsertFacts
<1>6. \A q \in Run \ {n} : Stays(db, db', q)
  BY <1>5 DEF Stays
<1>7. /\ o \in Origin
      /\ o = "delivered" => \A q \in ActiveOf(a) : db'.status[q] \in Ended
  BY DEF Origin
<1>8. \A x \in Agent : x # a => b.inbox[x] = mail.inbox[x]
  BY <1>2
<1>9. mail \in MailTables /\ Peopled /\ OneReader
  BY DEF MInv
<1>10. /\ mail' \in MailTables /\ Sorted(mail') /\ Moves(mail, mail')
       /\ Peopled' /\ OneReader' /\ KeepsReader
  BY <1>2, <1>3, <1>4, <1>5, <1>6, <1>7, <1>8, <1>9, ReaderComes
<1> QED BY <1>10 DEF MInv, Kept

\* Drain: the run journals what it reads.
LEMMA DrainKeeps ==
    ASSUME MInv, NEW r \in Run, Drain(r)
    PROVE  Kept
<1>1. db' = db /\ mail.agent[r] \in Agent
  <2>1. mail.agent[r] \in Agent \cup {NoAgent} /\ mail.agent[r] # NoAgent
    BY DEF Drain, MInv, MailTables, Peopled
  <2> QED BY <2>1 DEF Drain
<1>2. [mail.drained EXCEPT ![r] = mail.inbox[mail.agent[r]]] \in [Run -> SUBSET Msg]
  BY <1>1 DEF MInv, MailTables
<1>3. /\ mail' \in MailTables
      /\ mail'.agent = mail.agent /\ mail'.origin = mail.origin
      /\ mail'.inbox = mail.inbox /\ mail'.processed = mail.processed /\ mail'.dead = mail.dead
  BY <1>2 DEF Drain, MInv, MailTables
<1>4. Sorted(mail') /\ Moves(mail, mail')
  BY <1>3, SameMessages DEF MInv
<1>5. Drops(db, db')
  BY <1>1 DEF Drops, Stays
<1> QED BY <1>3, <1>4, <1>5, DropsKeep

\* Replay: the run reads what it journaled, and moves nothing.
LEMMA ReplayKeeps ==
    ASSUME MInv, NEW r \in Run, Replay(r)
    PROVE  Kept
<1>1. [mail.missed EXCEPT ![r] = mail.drained[r] \ mail.inbox[mail.agent[r]]]
        \in [Run -> SUBSET Msg]
  BY DEF MInv, MailTables
<1>2. /\ mail' \in MailTables
      /\ mail'.agent = mail.agent /\ mail'.origin = mail.origin
      /\ mail'.inbox = mail.inbox /\ mail'.processed = mail.processed /\ mail'.dead = mail.dead
  BY <1>1 DEF Replay, MInv, MailTables
<1>3. Sorted(mail') /\ Moves(mail, mail')
  BY <1>2, SameMessages DEF MInv
<1>4. Drops(db, db')
  BY DEF Replay, Drops, Stays
<1> QED BY <1>2, <1>3, <1>4, DropsKeep

\* A run that exists has an agent, and reads that agent's inbox while it is live.
LEMMA RunningIsReader ==
    ASSUME MInv, NEW r \in Run, db.status[r] = "running"
    PROVE  mail.agent[r] \in Agent /\ r \in ActiveOf(mail.agent[r])
<1>1. mail.agent[r] \in Agent \cup {NoAgent} /\ mail.agent[r] # NoAgent
  BY DEF MInv, MailTables, Peopled
<1> QED BY <1>1 DEF ActiveOf, RunsOf, InState, Live

\* Finish: whoever leaves mail behind leaves a reader for it.
LEMMA FinishKeeps ==
    ASSUME MInv, db \in Tables, NEW r \in Run, Finish(r)
    PROVE  Kept
<1>1. PICK a : a = mail.agent[r]
  OBVIOUS
<1>2. PICK b : b = Ack(mail, a, Handled(r))
  OBVIOUS
<1>3. PICK e : e = Terminate(db, {r}, "completed")
  OBVIOUS
<1>4. IF b.inbox[a] # {} /\ ActiveOf(a) = {r}
      THEN \E n \in Run : CompleteAndFollowUp(r, n) /\ mail' = NewRun(b, n, a, "delivered")
      ELSE Complete(r) /\ mail' = b
  BY <1>1, <1>2 DEF Finish
<1>5. db.status[r] = "running"
  BY <1>4 DEF CompleteAndFollowUp, Complete
<1>6. a \in Agent /\ r \in ActiveOf(a)
  BY <1>1, <1>5, RunningIsReader
<1>7. Handled(r) \in SUBSET Msg
  BY DEF MInv, MailTables, Handled
<1>8. /\ b \in MailTables /\ Sorted(b) /\ Moves(mail, b)
      /\ b.agent = mail.agent /\ b.origin = mail.origin
      /\ \A x \in Agent : b.inbox[x] = IF x = a THEN mail.inbox[x] \ Handled(r)
                                       ELSE mail.inbox[x]
  BY <1>2, <1>6, <1>7, AckFacts DEF MInv
<1>9. e.status[r] = "completed" /\ \A q \in Run \ {r} : Stays(db, e, q)
  BY <1>3, CompletionFacts
<1>10. CASE b.inbox[a] # {} /\ ActiveOf(a) = {r}
  <2>1. PICK n \in Run : CompleteAndFollowUp(r, n) /\ mail' = NewRun(b, n, a, "delivered")
    BY <1>4, <1>10
  <2>2. db.status[n] = "absent" /\ db' = InsertRun(e, n, NoRun) /\ n # r
    BY <1>3, <1>5, <2>1 DEF CompleteAndFollowUp
  <2>3. e \in Tables
    BY <1>3, TerminateType DEF Ended
  <2>4. db'.status[n] = "pending" /\ \A q \in Run \ {n} : db'.status[q] = e.status[q]
    BY <2>2, <2>3, InsertFacts
  <2>5. \A q \in Run \ {n} : \/ Stays(db, db', q)
                             \/ q \in ActiveOf(a) /\ db'.status[q] \in Ended
    BY <1>6, <1>9, <2>4 DEF Stays, Ended
  <2>6. \A q \in ActiveOf(a) : db'.status[q] \in Ended
    BY <1>9, <1>10, <2>2, <2>4 DEF Ended
  <2>7. "delivered" \in Origin /\ \A x \in Agent : x # a => b.inbox[x] = mail.inbox[x]
    BY <1>8 DEF Origin
  <2> QED BY <1>6, <1>8, <2>1, <2>2, <2>4, <2>5, <2>6, <2>7, ReaderComes DEF MInv, Kept
<1>11. CASE ~(b.inbox[a] # {} /\ ActiveOf(a) = {r})
  <2>1. db' = e /\ mail' = b
    BY <1>3, <1>4, <1>11 DEF Complete
  <2>2. Peopled' /\ OneReader'
    <3>1. \A q \in Run : \/ Stays(db, db', q)
                         \/ db.status[q] \in Live /\ db'.status[q] \in Ended
      BY <1>5, <1>9, <2>1 DEF Live, Ended
    <3> QED BY <1>8, <2>1, <3>1, SameReaders DEF MInv
  <2>3. ASSUME NEW x \in Agent, NEW q \in ActiveOf(x), q # r PROVE q \in ActiveOf(x)'
    <3>1. q \in Run
      BY DEF ActiveOf, RunsOf
    <3> QED BY <1>8, <1>9, <2>1, <2>3, <3>1, LiveStays
  <2>4. ASSUME NEW x \in Agent
        PROVE  \/ ActiveOf(x)' # {}
               \/ b.inbox[x] = {}
               \/ ActiveOf(x) = {} /\ b.inbox[x] \subseteq mail.inbox[x]
    <3>1. CASE x = a
      <4>1. CASE b.inbox[a] = {}
        BY <3>1, <4>1
      <4>2. CASE ActiveOf(a) # {r}
        <5>1. PICK q \in ActiveOf(a) : q # r
          BY <1>6, <4>2
        <5> QED BY <1>6, <2>3, <3>1, <5>1
      <4> QED BY <1>11, <4>1, <4>2
    <3>2. CASE x # a
      <4>1. ASSUME NEW q \in ActiveOf(x) PROVE q \in ActiveOf(x)'
        <5>1. q # r
          BY <1>1, <3>2 DEF ActiveOf, RunsOf
        <5> QED BY <2>3, <5>1
      <4>2. b.inbox[x] \subseteq mail.inbox[x]
        BY <1>8, <3>2
      <4> QED BY <4>1, <4>2
    <3> QED BY <3>1, <3>2
  <2>5. KeepsReader
    BY <2>1, <2>4, ReaderStays
  <2> QED BY <1>8, <2>1, <2>2, <2>5 DEF MInv, Kept
<1> QED BY <1>10, <1>11

\* FailForGood: the run drops out, and what it read is done with.
LEMMA FailForGoodKeeps ==
    ASSUME MInv, db \in Tables, NEW r \in Run, NEW M \in SUBSET Msg, FailForGood(r, M)
    PROVE  Kept
<1>1. PICK a : a = mail.agent[r]
  OBVIOUS
<1>2. db.status[r] = "running" /\ db' = Terminate(db, {r}, "failed")
  BY DEF FailForGood, Fail
<1>3. a \in Agent
  BY <1>1, <1>2, RunningIsReader
<1>4. Drops(db, db')
  <2>1. db.status[r] \in Live
    BY <1>2 DEF Live
  <2> QED BY <1>2, <2>1, TerminateDrops
<1>5. CASE mail' = Ack(mail, a, M)
  <2>0. mail \in MailTables /\ Sorted(mail)
    BY DEF MInv
  <2>1. /\ mail' \in MailTables /\ Sorted(mail') /\ Moves(mail, mail')
        /\ mail'.agent = mail.agent /\ mail'.origin = mail.origin
        /\ \A x \in Agent : mail'.inbox[x] = IF x = a THEN mail.inbox[x] \ M ELSE mail.inbox[x]
    BY <1>3, <1>5, <2>0, AckFacts
  <2>2. \A x \in Agent : mail'.inbox[x] \subseteq mail.inbox[x]
    BY <2>1
  <2> QED BY <1>4, <2>1, <2>2, DropsKeep
<1>6. CASE mail' = DeadLetter(mail, a, M)
  <2>1. /\ mail' \in MailTables /\ Sorted(mail') /\ Moves(mail, mail')
        /\ mail'.agent = mail.agent /\ mail'.origin = mail.origin
        /\ \A x \in Agent : mail'.inbox[x] \subseteq mail.inbox[x]
    BY <1>3, <1>6, DeadLetterFacts DEF MInv
  <2> QED BY <1>4, <2>1, DropsKeep
<1> QED BY <1>1, <1>5, <1>6 DEF FailForGood

\* Every step keeps the invariant, moves messages as it should, and keeps readers.
LEMMA MailStepKeeps ==
    ASSUME MInv, db \in Tables, db' \in Tables, MailNext
    PROVE  Kept
<1>1. ASSUME NEW a \in Agent, NEW m \in Msg, NEW n \in Run, Submit(n, a, m) PROVE Kept
  BY <1>1, BootKeeps DEF Submit, CreateRun
<1>2. ASSUME NEW a \in Agent, NEW m \in Msg, NEW r \in Run, NEW c \in Run,
             SpawnWithBoot(r, c, a, m)
      PROVE  Kept
  BY <1>2, BootKeeps DEF SpawnWithBoot, Spawn
<1> QED BY <1>1, <1>2, RunsOnlyKeeps, DeliverKeeps, RedriveKeeps, DrainKeeps, ReplayKeeps, FinishKeeps,
        FailForGoodKeeps
        DEF MailNext

\* A step that changes nothing keeps all of it as well.
LEMMA MailAnyStepKeeps ==
    ASSUME MInv, db \in Tables, db' \in Tables, [MailNext]_mailVars
    PROVE  Kept
<1>1. CASE UNCHANGED mailVars
  <2>1. db' = db /\ mail' = mail
    BY <1>1 DEF mailVars
  <2>2. Drops(db, db')
    BY <2>1 DEF Drops, Stays
  <2>3. Moves(mail, mail')
    BY <2>1 DEF Moves
  <2> QED BY <2>1, <2>2, <2>3, DropsKeep DEF MInv
<1> QED BY <1>1, MailStepKeeps

\* The invariant holds in every state, and every step is as Kept says.
LEMMA MailInvariantHolds == MailSpec => []MInv /\ [][Kept]_mailVars
<1>1. MailSpec => []TypeOK
  BY MailboxKeepsRuns, TypeCorrect, PTL
<1>2. MInv /\ TypeOK /\ TypeOK' /\ [MailNext]_mailVars => Kept
  BY MailAnyStepKeeps DEF TypeOK
<1>3. Kept => MInv'
  BY DEF Kept
<1> QED BY <1>1, <1>2, <1>3, MailInitInv, PTL DEF MailSpec

-----------------------------------------------------------------------------
(* Theorems.                                                               *)

\* The tables keep their shape, and a run has an agent exactly when it exists: the rows
\* _insert_run writes in rt_runs.
THEOREM MailboxIsTyped == MailSpec => []MailTypeOK
<1>1. MInv => MailTypeOK
  BY DEF MInv, Peopled, MailTypeOK
<1> QED BY <1>1, MailInvariantHolds, PTL

\* A message that was acknowledged, given up or dead-lettered (_ack, _nack) is not in an
\* inbox again, and a dead letter stays known, so that it is not accepted anew.
THEOREM AckedStaysAcked == MailSpec => []AckedNeverBack
<1>1. MInv => AckedNeverBack
  BY DEF MInv, Sorted, AckedNeverBack
<1> QED BY <1>1, MailInvariantHolds, PTL

\* _deliver inserts a run only when the agent has none, and a completion its follow-up
\* only when it leaves none: an agent never gets two such runs at once.
THEOREM AgentsHaveOneReader == MailSpec => []OneReader
<1>1. MInv => OneReader
  BY DEF MInv
<1> QED BY <1>1, MailInvariantHolds, PTL

\* Mail is left without a run to read it only by a run that failed or was cancelled:
\* _deliver and _terminate see to it that no other transaction leaves it behind.
THEOREM MailKeepsItsReader == MailSpec => MailHasReader
<1>1. Kept => [\A a \in Agent : ~Unattended(a) /\ Unattended(a)'
                 => \E r \in ActiveOf(a) : db'.status[r] \in {"failed", "cancelled"}]_mailVars
  BY DEF Kept, KeepsReader
<1> QED BY <1>1, MailInvariantHolds, PTL DEF MailHasReader

\* A message leaves an inbox only when it is recorded as processed, and returns from there
\* only as a dead letter that a person sends back (_ack, _nack, redrive).
THEOREM MessagesAreKept == MailSpec => NothingVanishes
<1>1. Kept => [\A a \in Agent :
                 /\ mail.inbox[a] \ mail'.inbox[a] \subseteq mail'.processed[a]
                 /\ mail.processed[a] \ mail'.processed[a]
                      \subseteq mail.dead[a] \cap mail'.inbox[a]]_mailVars
  BY DEF Kept, Moves
<1> QED BY <1>1, MailInvariantHolds, PTL DEF NothingVanishes
=============================================================================
