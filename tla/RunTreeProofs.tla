---------------------------- MODULE RunTreeProofs ----------------------------
(***************************************************************************)
(* What holds of RunTree for any runs, names and bounds.  Each helper of a  *)
(* transaction is treated by itself (its result is well typed; it keeps     *)
(* each part of the invariant), so that an action, which composes helpers,  *)
(* is a line of citations.                                                  *)
(***************************************************************************)
EXTENDS RunTree, TLAPS

\* Waking runs (_make_pending) keeps every table well formed.
LEMMA MakePendingType ==
    ASSUME NEW d \in Tables, NEW S \in SUBSET Run
    PROVE  MakePending(d, S) \in Tables
BY DEF Tables, MakePending, InState, Status, Live, Asleep

\* So does putting any number of copies of a signal into a buffer.
LEMMA BufferType ==
    ASSUME NEW d \in Tables, NEW r \in Run, NEW n \in Signals, NEW k \in Nat
    PROVE  [d EXCEPT !.buffer[r][n] = k] \in Tables
<1>1. d.buffer \in [Run -> [Signals -> Nat]]
  BY DEF Tables
<1>2. [d.buffer EXCEPT ![r][n] = k] \in [Run -> [Signals -> Nat]]
  BY <1>1
<1>3. [d EXCEPT !.buffer = [d.buffer EXCEPT ![r][n] = k]] \in Tables
  BY <1>2 DEF Tables
<1> QED BY <1>3

\* So does sending a signal (_signal), whether it wakes the run or not.
LEMMA SignalType ==
    ASSUME NEW d \in Tables, NEW r \in Run, NEW n \in Signals
    PROVE  Signal(d, r, n) \in Tables
<1> DEFINE kept == [d EXCEPT !.buffer[r][n] = @ + 1]
<1>1. d.buffer[r][n] + 1 \in Nat
  BY DEF Tables
<1>2. kept \in Tables
  BY <1>1, BufferType
<1>3. MakePending(kept, {r}) \in Tables
  BY <1>2, MakePendingType
<1> QED BY <1>2, <1>3 DEF Signal

\* So does inserting a run (_insert_run), with or without a parent.
LEMMA InsertRunType ==
    ASSUME NEW d \in Tables, NEW n \in Run, NEW p \in Run \cup {NoRun}
    PROVE  InsertRun(d, n, p) \in Tables
BY DEF Tables, InsertRun, Status, Live, Asleep

\* So does ending any runs together and telling their parents.
LEMMA EndRunsType ==
    ASSUME NEW d \in Tables, NEW gone \in SUBSET Run, NEW heads \in SUBSET Run,
           NEW outcome \in Ended
    PROVE  EndRuns(d, gone, heads, outcome) \in Tables
<1> DEFINE Told(p) == {c \in gone : d.parent[c] = p}
           hearing == InState(d, Live) \ gone
           woken   == {p \in hearing : /\ d.status[p] = "suspended"
                                       /\ Told(p) \cap d.wake[p] # {}}
           status  == [r \in Run |-> IF r \in heads THEN outcome
                                     ELSE IF r \in gone THEN "cancelled"
                                     ELSE d.status[r]]
           wake    == [r \in Run |-> IF r \in gone THEN {} ELSE d.wake[r]]
           buffer  == [r \in Run |-> [n \in Signals |->
                         IF r \in gone THEN 0
                         ELSE IF r \in hearing /\ n \in Told(r) THEN d.buffer[r][n] + 1
                         ELSE d.buffer[r][n]]]
           closed  == [d EXCEPT !.status = status, !.wake = wake,
                                !.timer = @ \ gone, !.buffer = buffer]
<1>1. status \in [Run -> Status]
  BY DEF Tables, Status, Ended
<1>2. wake \in [Run -> SUBSET Signals]
  BY DEF Tables
<1>3. buffer \in [Run -> [Signals -> Nat]]
  <2>1. \A r \in Run, n \in Signals : d.buffer[r][n] \in Nat
    BY DEF Tables
  <2> QED BY <2>1
<1>4. closed \in Tables
  <2> HIDE DEF status, wake, buffer
  <2> QED BY <1>1, <1>2, <1>3 DEF Tables
<1>5. woken \in SUBSET Run
  BY DEF InState
<1>6. MakePending(closed, woken) \in Tables
  <2> HIDE DEF closed, woken
  <2> QED BY <1>4, <1>5, MakePendingType
<1> QED BY <1>6 DEF EndRuns

\* What a cascade reaches are runs.
LEMMA ClosureRuns ==
    ASSUME NEW d, NEW R, NEW S
    PROVE  Closure(d, R, S) \in SUBSET Run
BY DEF Closure

\* Asking running runs to stop keeps every table well formed.
LEMMA FlagRunningType ==
    ASSUME NEW d \in Tables, NEW R
    PROVE  FlagRunning(d, R) \in Tables
BY DEF Tables, FlagRunning, InState

\* So does ending runs with their sleeping descendants (_terminate).
LEMMA TerminateType ==
    ASSUME NEW d \in Tables, NEW R \in SUBSET Run, NEW outcome \in Ended
    PROVE  Terminate(d, R, outcome) \in Tables
<1> DEFINE gone == Closure(d, R, InState(d, Asleep))
           told == FlagRunning(d, Children(d, gone))
<1>1. gone \in SUBSET Run
  BY ClosureRuns
<1>2. told \in Tables
  BY FlagRunningType
<1>3. EndRuns(d, R, R, outcome) \in Tables
  BY EndRunsType
<1>4. EndRuns(told, gone, R, outcome) \in Tables
  <2> HIDE DEF told, gone
  <2> QED BY <1>1, <1>2, EndRunsType
<1> QED BY <1>3, <1>4 DEF Terminate

\* So does cancelling a whole subtree (request_cancel).
LEMMA CancelTreeType ==
    ASSUME NEW d \in Tables, NEW r \in Run
    PROVE  CancelTree(d, r) \in Tables
<1> DEFINE tree == Closure(d, {r}, Run)
           told == FlagRunning(d, tree)
           gone == tree \cap InState(d, Asleep)
<1>1. told \in Tables
  BY FlagRunningType
<1>2. gone \in SUBSET Run /\ {} \in SUBSET Run /\ "cancelled" \in Ended
  BY DEF InState, Ended
<1>3. EndRuns(told, gone, {}, "cancelled") \in Tables
  <2> HIDE DEF told, gone
  <2> QED BY <1>1, <1>2, EndRunsType
<1> QED BY <1>3 DEF CancelTree

\* What agent code sleeps on is made of signals the tables know.
LEMMA WakeupType ==
    ASSUME NEW d, NEW r \in Run, NEW wakeup \in Wakeups(d, r)
    PROVE  /\ wakeup.names \in SUBSET Signals
           /\ wakeup.timed \in BOOLEAN
           /\ wakeup.due \in BOOLEAN
<1>1. Children(d, {r}) \subseteq Signals /\ Name \subseteq Signals
  BY DEF Children, Signals
<1>2. OneName(d, r) \subseteq SUBSET Signals /\ TimedNames(d, r) \subseteq SUBSET Signals
  BY <1>1 DEF OneName, TimedNames
<1> QED BY <1>2 DEF Wakeups

\* Putting a run to sleep on such signals keeps every table well formed.
LEMMA FallAsleepType ==
    ASSUME NEW d \in Tables, NEW r \in Run, NEW names \in SUBSET Signals,
           NEW timed \in BOOLEAN
    PROVE  FallAsleep(d, r, names, timed) \in Tables
<1> DEFINE status == [d.status EXCEPT ![r] = "suspended"]
           wake   == [d.wake EXCEPT ![r] = names]
           timer  == IF timed THEN d.timer \cup {r} ELSE d.timer \ {r}
<1>1. /\ status \in [Run -> Status]
      /\ wake \in [Run -> SUBSET Signals]
      /\ timer \in SUBSET Run
  BY DEF Tables, Status, Live, Asleep
<1>2. FallAsleep(d, r, names, timed)
        = [d EXCEPT !.status = status, !.wake = wake, !.timer = timer]
  BY DEF Tables, FallAsleep
<1> HIDE DEF status, wake, timer
<1> QED BY <1>1, <1>2 DEF Tables

\* So does a suspension, whether or not it is granted (_suspend).
LEMMA SuspendType ==
    ASSUME NEW d \in Tables, NEW r \in Run, NEW wakeup \in Wakeups(d, r)
    PROVE  Suspend(d, r, wakeup) \in Tables
<1>1. FallAsleep(d, r, wakeup.names, wakeup.timed) \in Tables
  BY WakeupType, FallAsleepType
<1>2. MakePending(FallAsleep(d, r, wakeup.names, wakeup.timed), {r}) \in Tables
  BY <1>1, MakePendingType
<1> QED BY <1>1, <1>2 DEF Suspend

\* A retry that the policy still allows stays within its bound.
LEMMA RetriesType ==
    ASSUME NEW d \in Tables, NEW r \in Run, d.retries[r] < MaxRetries
    PROVE  [d EXCEPT !.retries[r] = @ + 1] \in Tables
<1>1. d.retries[r] + 1 \in 0 .. MaxRetries
  BY BoundAssumption DEF Tables
<1> QED BY <1>1 DEF Tables

\* A retry (_retry) keeps every table well formed.
LEMMA RetryType ==
    ASSUME NEW d \in Tables, NEW r \in Run, d.retries[r] < MaxRetries
    PROVE  Retry(d, r) \in Tables
BY RetriesType, FallAsleepType DEF Retry

\* So do claiming runs and reclaiming expired leases.
LEMMA ClaimType ==
    ASSUME NEW d \in Tables, NEW R
    PROVE  Claim(d, R) \in Tables /\ Reclaim(d, R) \in Tables
BY DEF Tables, Claim, Reclaim, Status, Live, Asleep

-----------------------------------------------------------------------------
(* Type correctness.                                                       *)

\* The empty database is well formed.
LEMMA InitType == Init => TypeOK
<1>1. 0 \in 0 .. MaxRetries
  BY BoundAssumption
<1>2. /\ [r \in Run |-> "absent"] \in [Run -> Status]
      /\ [r \in Run |-> NoRun] \in [Run -> Run \cup {NoRun}]
      /\ [r \in Run |-> 0] \in [Run -> 0 .. MaxRetries]
      /\ [r \in Run |-> {}] \in [Run -> SUBSET Signals]
      /\ [r \in Run |-> [n \in Signals |-> 0]] \in [Run -> [Signals -> Nat]]
  BY <1>1 DEF Status
<1> QED BY <1>2 DEF Init, TypeOK, Tables

\* A whole poll of a worker (lease) keeps every table well formed.
LEMMA LeaseType ==
    ASSUME db \in Tables, Lease
    PROVE  db' \in Tables
<1>1. PICK expired \in SUBSET InState(db, {"running"}),
           due \in SUBSET (db.timer \cap InState(db, {"suspended"})) :
        LET timed == MakePending(Reclaim(db, expired), due)
        IN  \E overdue \in SUBSET (Dated \cap InState(timed, Asleep)) :
              LET failed == Terminate(timed, overdue, "failed")
              IN  \E claimed \in SUBSET InState(failed, {"pending"}) :
                    db' = Claim(failed, claimed)
  BY DEF Lease
<1> DEFINE timed == MakePending(Reclaim(db, expired), due)
<1>2. timed \in Tables
  <2>1. Reclaim(db, expired) \in Tables
    BY ClaimType
  <2>2. due \in SUBSET Run
    BY DEF InState
  <2> QED BY <2>1, <2>2, MakePendingType
<1>3. PICK overdue \in SUBSET (Dated \cap InState(timed, Asleep)) :
        LET failed == Terminate(timed, overdue, "failed")
        IN  \E claimed \in SUBSET InState(failed, {"pending"}) :
              db' = Claim(failed, claimed)
  BY <1>1
<1> HIDE DEF timed
<1>4. Terminate(timed, overdue, "failed") \in Tables
  <2>1. overdue \in SUBSET Run /\ "failed" \in Ended
    BY IdAssumption DEF Ended
  <2> QED BY <1>2, <2>1, TerminateType
<1> QED BY <1>3, <1>4, ClaimType

\* Every action keeps every table well formed.
LEMMA NextType == TypeOK /\ [Next]_db => TypeOK'
<1> SUFFICES ASSUME db \in Tables, [Next]_db
             PROVE  db' \in Tables
  BY DEF TypeOK
<1>1. CASE Lease
  BY <1>1, LeaseType
<1>2. ASSUME NEW r \in Run, CreateRun(r)
      PROVE  db' \in Tables
  BY <1>2, InsertRunType DEF CreateRun
<1>3. ASSUME NEW r \in Run, WakeByDelivery(r)
      PROVE  db' \in Tables
  BY <1>3, MakePendingType DEF WakeByDelivery
<1>4. ASSUME NEW r \in Run, Complete(r) \/ Fail(r) \/ Cancel(r)
      PROVE  db' \in Tables
  <2>1. \A outcome \in Ended : Terminate(db, {r}, outcome) \in Tables
    BY TerminateType
  <2> QED BY <1>4, <2>1 DEF Complete, Fail, Cancel, Ended
<1>5. ASSUME NEW r \in Run, NEW n \in Run, CompleteAndFollowUp(r, n)
      PROVE  db' \in Tables
  <2>1. Terminate(db, {r}, "completed") \in Tables
    BY TerminateType DEF Ended
  <2> QED BY <1>5, <2>1, InsertRunType DEF CompleteAndFollowUp
<1>6. ASSUME NEW r \in Run, NEW wakeup \in Wakeups(db, r), GoToSleep(r, wakeup)
      PROVE  db' \in Tables
  <2>1. Terminate(db, {r}, "cancelled") \in Tables
    BY TerminateType DEF Ended
  <2> QED BY <1>6, <2>1, SuspendType DEF GoToSleep
<1>7. ASSUME NEW r \in Run, RetryLater(r)
      PROVE  db' \in Tables
  <2>1. Terminate(db, {r}, "cancelled") \in Tables
    BY TerminateType DEF Ended
  <2> QED BY <1>7, <2>1, RetryType DEF RetryLater
<1>8. ASSUME NEW r \in Run, NEW c \in Run, Spawn(r, c)
      PROVE  db' \in Tables
  BY <1>8, InsertRunType DEF Spawn
<1>9. ASSUME NEW r \in Run, NEW n \in Signals, Consume(r, n)
      PROVE  db' \in Tables
  <2> DEFINE left == [db EXCEPT !.buffer[r][n] = @ - 1]
  <2>1. db.buffer[r][n] - 1 \in Nat
    BY <1>9 DEF Consume, Tables
  <2>2. left \in Tables
    BY <2>1, BufferType
  <2>3. db' = [left EXCEPT !.read = @ \cup ({n} \cap Run)]
    BY <1>9 DEF Consume, Tables
  <2> HIDE DEF left
  <2> QED BY <2>2, <2>3 DEF Tables
<1>10. ASSUME NEW r \in Run, NEW n \in Name, SendSignal(r, n)
       PROVE  db' \in Tables
  BY <1>10, SignalType DEF SendSignal, Signals
<1>11. ASSUME NEW r \in Run, RequestCancel(r)
       PROVE  db' \in Tables
  BY <1>11, CancelTreeType DEF RequestCancel
<1>12. CASE UNCHANGED db
  BY <1>12
<1> QED BY <1>1, <1>2, <1>3, <1>4, <1>5, <1>6, <1>7, <1>8, <1>9, <1>10, <1>11,
           <1>12 DEF Next

\* Every table of the runtime keeps the shape its schema gives it, through every
\* method of the store and for any runs, signal names and bounds.
THEOREM TypeCorrect == Spec => []TypeOK
BY InitType, NextType, PTL DEF Spec

-----------------------------------------------------------------------------
(* The inductive invariant.  The four properties are not inductive alone: a *)
(* report may only exist for a child that has ended, a parent must have     *)
(* existed for as long as its child, and a run that has ended must have lost *)
(* its signals, so that none of them is read afterwards.                    *)

ReportsAreReal(d) ==
    /\ \A p, c \in Run : d.buffer[p][c] # 0 => d.parent[c] = p /\ d.status[c] \in Ended
    /\ \A c \in d.read : d.status[c] \in Ended

ParentsExist(d) ==
    \A c \in Run : d.parent[c] # NoRun =>
        d.status[c] # "absent" /\ d.status[d.parent[c]] # "absent"

EndedAreDeaf(d) ==
    \A r \in Run : d.status[r] \in Ended => \A n \in Signals : d.buffer[r][n] = 0

Inv(d) == /\ SleepersAreUnanswered(d)
          /\ FlaggedAreAwake(d)
          /\ OrphansAreFlagged(d)
          /\ ReportsOnce(d)
          /\ ReportsAreReal(d)
          /\ ParentsExist(d)
          /\ EndedAreDeaf(d)

\* What MakePending does, field by field.
LEMMA MakePendingFields ==
    ASSUME NEW d \in Tables, NEW S \in SUBSET Run
    PROVE  LET e == MakePending(d, S)
           IN  /\ e.parent = d.parent /\ e.cancel = d.cancel
               /\ e.buffer = d.buffer /\ e.read = d.read
               /\ \A r \in Run :
                    /\ e.status[r] = IF r \in S /\ d.status[r] = "suspended"
                                     THEN "pending" ELSE d.status[r]
                    /\ e.wake[r] = IF r \in S THEN {} ELSE d.wake[r]
BY DEF MakePending, InState, Tables

\* A step that only moves runs between pending and running, or puts one to sleep
\* on names nobody has signalled, keeps the invariant.
LEMMA MovesInv ==
    ASSUME NEW d \in Tables, Inv(d), NEW e,
           e.parent = d.parent, e.cancel = d.cancel, e.buffer = d.buffer, e.read = d.read,
           \A r \in Run : \/ e.status[r] = d.status[r] /\ e.wake[r] \subseteq d.wake[r]
                          \/ d.status[r] \in Live /\ e.status[r] \in {"pending", "running"}
                          \/ /\ d.status[r] \in Live /\ e.status[r] = "suspended"
                             /\ r \notin d.cancel
                             /\ \A n \in e.wake[r] : d.buffer[r][n] = 0
    PROVE  Inv(e)
<1>1. /\ d.parent \in [Run -> Run \cup {NoRun}] /\ d.cancel \subseteq Run
      /\ d.read \subseteq Run
  BY DEF Tables
<1>2. \A r \in Run : /\ e.status[r] \in Live <=> d.status[r] \in Live
                     /\ d.status[r] \notin Live => e.status[r] = d.status[r]
  BY DEF Live, Asleep
<1>3. SleepersAreUnanswered(e)
  BY DEF Inv, SleepersAreUnanswered
<1>4. FlaggedAreAwake(e)
  BY <1>1 DEF Inv, FlaggedAreAwake
<1>5. OrphansAreFlagged(e)
  BY <1>1, <1>2 DEF Inv, OrphansAreFlagged, Live, Asleep
<1>6. ReportsOnce(e)
  BY <1>1, <1>2 DEF Inv, ReportsOnce, Ended, Live, Asleep
<1>7. ReportsAreReal(e)
  BY <1>1, <1>2 DEF Inv, ReportsAreReal, Ended, Live, Asleep
<1>8. ParentsExist(e)
  BY <1>1, <1>2 DEF Inv, ParentsExist, Live, Asleep
<1>9. EndedAreDeaf(e)
  BY <1>2 DEF Inv, EndedAreDeaf, Ended, Live, Asleep
<1> QED BY <1>3, <1>4, <1>5, <1>6, <1>7, <1>8, <1>9 DEF Inv

\* Waking runs keeps the invariant.
LEMMA MakePendingInv ==
    ASSUME NEW d \in Tables, NEW S \in SUBSET Run, Inv(d)
    PROVE  Inv(MakePending(d, S))
<1> DEFINE e == MakePending(d, S)
<1>1. /\ e.parent = d.parent /\ e.cancel = d.cancel
      /\ e.buffer = d.buffer /\ e.read = d.read
      /\ \A r \in Run :
           /\ e.status[r] = IF r \in S /\ d.status[r] = "suspended"
                            THEN "pending" ELSE d.status[r]
           /\ e.wake[r] = IF r \in S THEN {} ELSE d.wake[r]
  BY MakePendingFields
<1> HIDE DEF e
<1>2. \A r \in Run : \/ e.status[r] = d.status[r] /\ e.wake[r] \subseteq d.wake[r]
                     \/ d.status[r] \in Live /\ e.status[r] = "pending"
  BY <1>1 DEF Live, Asleep
<1>3. Inv(e)
  BY <1>1, <1>2, MovesInv
<1> QED BY <1>3 DEF e

\* What EndRuns does, field by field.
Ending(d, gone, heads, outcome, e) ==
    /\ e.parent = d.parent /\ e.cancel = d.cancel /\ e.read = d.read
    /\ \A r \in Run :
         /\ r \in heads => e.status[r] = outcome
         /\ r \in gone \ heads => e.status[r] = "cancelled"
         /\ r \notin gone => \/ e.status[r] = d.status[r]
                             \/ d.status[r] = "suspended" /\ e.status[r] = "pending"
         /\ e.status[r] = "suspended" =>
              /\ e.wake[r] = d.wake[r]
              /\ \A c \in gone : d.parent[c] = r => c \notin d.wake[r]
         /\ \A n \in Signals : e.buffer[r][n] =
              IF r \in gone THEN 0
              ELSE IF d.status[r] \in Live /\ n \in gone /\ d.parent[n] = r
                   THEN d.buffer[r][n] + 1 ELSE d.buffer[r][n]

\* EndRuns computes what Ending describes.
LEMMA EndRunsFields ==
    ASSUME NEW d \in Tables, NEW gone \in SUBSET Run, NEW heads \in SUBSET gone,
           NEW outcome \in Ended, NEW e, e = EndRuns(d, gone, heads, outcome)
    PROVE  Ending(d, gone, heads, outcome, e)
<1> DEFINE Told(p) == {c \in gone : d.parent[c] = p}
           hearing == InState(d, Live) \ gone
           woken   == {p \in hearing : /\ d.status[p] = "suspended"
                                       /\ Told(p) \cap d.wake[p] # {}}
           status  == [r \in Run |-> IF r \in heads THEN outcome
                                     ELSE IF r \in gone THEN "cancelled"
                                     ELSE d.status[r]]
           wake    == [r \in Run |-> IF r \in gone THEN {} ELSE d.wake[r]]
           buffer  == [r \in Run |-> [n \in Signals |->
                         IF r \in gone THEN 0
                         ELSE IF r \in hearing /\ n \in Told(r) THEN d.buffer[r][n] + 1
                         ELSE d.buffer[r][n]]]
           closed  == [d EXCEPT !.status = status, !.wake = wake,
                                !.timer = @ \ gone, !.buffer = buffer]
<1>1. e = MakePending(closed, woken)
  BY DEF EndRuns
<1>2. /\ closed.status = status /\ closed.wake = wake /\ closed.buffer = buffer
      /\ closed.parent = d.parent /\ closed.cancel = d.cancel /\ closed.read = d.read
  BY DEF Tables
<1>3. /\ e.parent = closed.parent /\ e.cancel = closed.cancel
      /\ e.buffer = closed.buffer /\ e.read = closed.read
      /\ \A r \in Run :
           /\ e.status[r] = IF r \in woken /\ closed.status[r] = "suspended"
                            THEN "pending" ELSE closed.status[r]
           /\ e.wake[r] = IF r \in woken THEN {} ELSE closed.wake[r]
  <2>1. woken \in SUBSET Run
    BY DEF InState
  <2>2. closed \in Tables
    <3>1. status \in [Run -> Status] /\ wake \in [Run -> SUBSET Signals]
      BY DEF Tables, Status, Ended
    <3>2. buffer \in [Run -> [Signals -> Nat]]
      <4>1. \A r \in Run, n \in Signals : d.buffer[r][n] \in Nat
        BY DEF Tables
      <4> QED BY <4>1
    <3> HIDE DEF status, wake, buffer
    <3> QED BY <3>1, <3>2 DEF Tables
  <2> HIDE DEF closed, woken
  <2> QED BY <1>1, <2>1, <2>2, MakePendingFields
<1>4. ASSUME NEW r \in Run
      PROVE  /\ r \in heads => e.status[r] = outcome
             /\ r \in gone \ heads => e.status[r] = "cancelled"
             /\ r \notin gone => \/ e.status[r] = d.status[r]
                                 \/ /\ d.status[r] = "suspended"
                                    /\ e.status[r] = "pending"
  <2> HIDE DEF closed
  <2> QED BY <1>2, <1>3 DEF Ended
<1>5. ASSUME NEW r \in Run, e.status[r] = "suspended"
      PROVE  /\ e.wake[r] = d.wake[r]
             /\ \A c \in gone : d.parent[c] = r => c \notin d.wake[r]
  <2>1. r \notin gone /\ r \notin woken /\ d.status[r] = "suspended"
    <3> HIDE DEF closed
    <3> QED BY <1>2, <1>3, <1>5 DEF Ended
  <2>2. e.wake[r] = d.wake[r]
    <3> HIDE DEF closed
    <3> QED BY <1>2, <1>3, <2>1
  <2>3. Told(r) \cap d.wake[r] = {}
    BY <2>1 DEF InState, Live, Asleep
  <2> QED BY <2>2, <2>3
<1>6. ASSUME NEW r \in Run, NEW n \in Signals
      PROVE  e.buffer[r][n] =
                 IF r \in gone THEN 0
                 ELSE IF d.status[r] \in Live /\ n \in gone /\ d.parent[n] = r
                      THEN d.buffer[r][n] + 1 ELSE d.buffer[r][n]
  <2>1. e.buffer = buffer
    <3> HIDE DEF closed, buffer
    <3> QED BY <1>2, <1>3
  <2> HIDE DEF closed
  <2> QED BY <2>1 DEF InState
<1> HIDE DEF closed
<1> QED BY <1>2, <1>3, <1>4, <1>5, <1>6 DEF Ending

\* The runs that end must be live, and whoever loses its parent to a failure or
\* a cancellation must end with it or have been flagged.
LEMMA EndRunsInv ==
    ASSUME NEW d \in Tables, Inv(d),
           NEW gone \in SUBSET Run, NEW heads \in SUBSET gone, NEW outcome \in Ended,
           \A r \in gone : d.status[r] \in Live,
           \A c \in Run \ gone :
             /\ d.status[c] \in Live
             /\ d.parent[c] \in gone
             /\ ~(d.parent[c] \in heads /\ outcome = "completed")
             => c \in d.cancel,
           NEW e, e = EndRuns(d, gone, heads, outcome)
    PROVE  Inv(e)
<1>1. Ending(d, gone, heads, outcome, e)
  BY EndRunsFields
<1>2. /\ d.parent \in [Run -> Run \cup {NoRun}] /\ d.status \in [Run -> Status]
      /\ d.cancel \subseteq Run /\ d.read \subseteq Run
      /\ d.wake \in [Run -> SUBSET Signals]
      /\ \A r \in Run, n \in Signals : d.buffer[r][n] \in Nat
      /\ Run \subseteq Signals
      /\ NoRun \notin Run
  BY IdAssumption DEF Tables, Signals
<1>3. \A r \in Run : r \in gone => e.status[r] \in Ended
  <2> QED BY <1>1 DEF Ended, Ending
<1>4. SleepersAreUnanswered(e)
  <2> SUFFICES ASSUME NEW r \in Run, e.status[r] = "suspended", NEW n \in e.wake[r]
               PROVE  e.buffer[r][n] = 0
    BY DEF SleepersAreUnanswered
  <2>1. r \notin gone /\ d.status[r] = "suspended"
    BY <1>1, <1>3 DEF Ended, Ending
  <2>2. n \in d.wake[r] /\ n \in Signals
    BY <1>1, <1>2 DEF Ending
  <2>3. d.buffer[r][n] = 0
    BY <2>1, <2>2 DEF Inv, SleepersAreUnanswered
  <2> QED BY <1>1, <2>1, <2>2, <2>3 DEF Ending
<1>5. FlaggedAreAwake(e)
  BY <1>1, <1>2, <1>3 DEF Inv, FlaggedAreAwake, Ended, Ending
<1>6. OrphansAreFlagged(e)
  <2> SUFFICES ASSUME NEW c \in Run, e.status[c] \in Live, e.parent[c] # NoRun,
                      e.status[e.parent[c]] \in {"failed", "cancelled"}
               PROVE  c \in e.cancel
    BY DEF OrphansAreFlagged
  <2>1. c \notin gone /\ d.status[c] \in Live /\ d.parent[c] \in Run
    BY <1>1, <1>2, <1>3 DEF Live, Asleep, Ended, Ending
  <2>2. CASE d.parent[c] \in gone
    BY <1>1, <2>1, <2>2 DEF Ending
  <2>3. CASE d.parent[c] \notin gone
    BY <1>1, <2>1, <2>3 DEF Inv, OrphansAreFlagged, Ending
  <2> QED BY <2>2, <2>3
<1>7. ReportsOnce(e)
  <2> SUFFICES ASSUME NEW c \in Run, e.parent[c] # NoRun
               PROVE  /\ e.status[c] \in Live => e.buffer[e.parent[c]][c] = 0 /\ c \notin e.read
                      /\ e.status[c] \in Ended /\ e.status[e.parent[c]] \in Live
                           => e.buffer[e.parent[c]][c] = IF c \in e.read THEN 0 ELSE 1
    BY DEF ReportsOnce
  <2> DEFINE p == d.parent[c]
  <2>1. p \in Run /\ e.parent[c] = p /\ c \in Signals /\ p # NoRun
    BY <1>1, <1>2 DEF Ending
  <2>2. /\ d.status[c] \in Live => d.buffer[p][c] = 0 /\ c \notin d.read
        /\ d.status[c] \in Ended /\ d.status[p] \in Live
             => d.buffer[p][c] = IF c \in d.read THEN 0 ELSE 1
    BY <2>1 DEF Inv, ReportsOnce
  <2>3. e.status[p] \in Live => p \notin gone /\ d.status[p] \in Live
    BY <1>1, <1>3, <2>1 DEF Live, Asleep, Ended, Ending
  <2>4. e.buffer[p][c] = IF p \in gone THEN 0
                         ELSE IF d.status[p] \in Live /\ c \in gone
                              THEN d.buffer[p][c] + 1 ELSE d.buffer[p][c]
    BY <1>1, <2>1 DEF Ending
  <2>5. CASE c \in gone
    <3>1. e.status[c] \notin Live /\ d.status[c] \in Live
      BY <1>3, <2>5 DEF Live, Asleep, Ended
    <3> HIDE DEF p
    <3> QED BY <1>1, <2>1, <2>2, <2>3, <2>4, <2>5, <3>1 DEF Ending
  <2>6. CASE c \notin gone
    <3>1. /\ e.status[c] \in Live => d.status[c] \in Live
          /\ e.status[c] \in Ended => d.status[c] \in Ended
      BY <1>1, <2>6 DEF Live, Asleep, Ended, Ending
    <3> HIDE DEF p
    <3> QED BY <1>1, <2>1, <2>2, <2>3, <2>4, <2>6, <3>1 DEF Ending
  <2> QED BY <2>5, <2>6
<1>8. ReportsAreReal(e)
  <2>1. ASSUME NEW p \in Run, NEW c \in Run, e.buffer[p][c] # 0
        PROVE  e.parent[c] = p /\ e.status[c] \in Ended
    <3>1. \/ c \in gone /\ d.parent[c] = p
          \/ d.buffer[p][c] # 0
      BY <1>1, <1>2, <2>1 DEF Ending
    <3>2. CASE c \in gone /\ d.parent[c] = p
      BY <1>1, <1>3, <3>2 DEF Ending
    <3>3. CASE d.buffer[p][c] # 0
      <4>1. d.parent[c] = p /\ d.status[c] \in Ended
        BY <3>3 DEF Inv, ReportsAreReal
      <4> QED BY <1>1, <1>3, <4>1 DEF Ended, Ending
    <3> QED BY <3>1, <3>2, <3>3
  <2>2. ASSUME NEW c \in e.read
        PROVE  e.status[c] \in Ended
    <3>1. c \in Run /\ d.status[c] \in Ended
      BY <1>1, <1>2 DEF Inv, ReportsAreReal, Ending
    <3> QED BY <1>1, <1>3, <3>1 DEF Ended, Ending
  <2> QED BY <2>1, <2>2 DEF ReportsAreReal
<1>9. ParentsExist(e)
  BY <1>1, <1>2, <1>3 DEF Inv, ParentsExist, Ended, Ending
<1>10. EndedAreDeaf(e)
  <2> SUFFICES ASSUME NEW r \in Run, e.status[r] \in Ended, NEW n \in Signals
               PROVE  e.buffer[r][n] = 0
    BY DEF EndedAreDeaf
  <2>1. r \notin gone => d.status[r] \in Ended
    BY <1>1 DEF Ending, Ended
  <2>2. r \notin gone => d.buffer[r][n] = 0 /\ d.status[r] \notin Live
    BY <2>1 DEF Inv, EndedAreDeaf, Ended, Live, Asleep
  <2> QED BY <1>1, <2>2 DEF Ending
<1> QED BY <1>4, <1>5, <1>6, <1>7, <1>8, <1>9, <1>10 DEF Inv

\* A cascade holds the runs it starts from, adds only runs it may pass through, and
\* leaves out no such run whose parent it holds.
LEMMA ClosureFacts ==
    ASSUME NEW d \in Tables, NEW R \in SUBSET Run, NEW S \in SUBSET Run
    PROVE  /\ R \subseteq Closure(d, R, S)
           /\ Closure(d, R, S) \subseteq R \cup S
           /\ \A c \in S : d.parent[c] \in Closure(d, R, S) => c \in Closure(d, R, S)
<1>1. Closure(d, R, S) \subseteq R \cup S
  <2>1. R \cup S \in SUBSET Run
    OBVIOUS
  <2> QED BY <2>1 DEF Closure
<1> QED BY <1>1 DEF Closure

\* Asking running runs to stop keeps the invariant: they are awake.
LEMMA FlagRunningInv ==
    ASSUME NEW d \in Tables, Inv(d), NEW R
    PROVE  Inv(FlagRunning(d, R))
<1> DEFINE e == FlagRunning(d, R)
<1>1. /\ e.status = d.status /\ e.parent = d.parent /\ e.wake = d.wake
      /\ e.buffer = d.buffer /\ e.read = d.read
      /\ e.cancel = d.cancel \cup (R \cap InState(d, {"running"}))
  BY DEF FlagRunning, Tables
<1> HIDE DEF e
<1>2. FlaggedAreAwake(e)
  BY <1>1 DEF Inv, FlaggedAreAwake, InState
<1>3. OrphansAreFlagged(e)
  BY <1>1 DEF Inv, OrphansAreFlagged
<1>4. /\ SleepersAreUnanswered(e) /\ ReportsOnce(e) /\ ReportsAreReal(e)
      /\ ParentsExist(e) /\ EndedAreDeaf(e)
  BY <1>1 DEF Inv, SleepersAreUnanswered, ReportsOnce, ReportsAreReal, ParentsExist,
              EndedAreDeaf
<1> QED BY <1>2, <1>3, <1>4 DEF Inv, e

\* And it changes nothing but the flags of runs that are running.
LEMMA FlagRunningFields ==
    ASSUME NEW d \in Tables, NEW R
    PROVE  /\ FlagRunning(d, R).status = d.status
           /\ FlagRunning(d, R).parent = d.parent
           /\ FlagRunning(d, R).cancel = d.cancel \cup (R \cap InState(d, {"running"}))
BY DEF FlagRunning, Tables

\* Ending live runs with their descendants (_terminate) keeps the invariant: a child
\* left alive is running, and has been flagged.
LEMMA TerminateInv ==
    ASSUME NEW d \in Tables, Inv(d), NEW R \in SUBSET Run,
           \A r \in R : d.status[r] \in Live, NEW outcome \in Ended
    PROVE  Inv(Terminate(d, R, outcome))
<1>1. CASE outcome = "completed"
  <2>1. Inv(EndRuns(d, R, R, outcome))
    BY <1>1, EndRunsInv
  <2> QED BY <1>1, <2>1 DEF Terminate
<1>2. CASE outcome # "completed"
  <2> DEFINE gone == Closure(d, R, InState(d, Asleep))
             told == FlagRunning(d, Children(d, gone))
  <2>1. /\ R \subseteq gone
        /\ gone \subseteq R \cup InState(d, Asleep)
        /\ \A c \in InState(d, Asleep) : d.parent[c] \in gone => c \in gone
    BY ClosureFacts DEF InState
  <2>2. told \in Tables /\ Inv(told)
    BY FlagRunningType, FlagRunningInv
  <2>3. /\ told.status = d.status /\ told.parent = d.parent
        /\ told.cancel = d.cancel \cup (Children(d, gone) \cap InState(d, {"running"}))
    BY FlagRunningFields
  <2> HIDE DEF told, gone
  <2>4. \A r \in gone : told.status[r] \in Live
    BY <2>1, <2>3 DEF InState, Live
  <2>5. \A c \in Run \ gone :
            told.status[c] \in Live /\ told.parent[c] \in gone => c \in told.cancel
    BY <2>1, <2>3 DEF InState, Live, Children
  <2>6. gone \in SUBSET Run
    BY <2>1 DEF InState
  <2>7. Inv(EndRuns(told, gone, R, outcome))
    BY <2>1, <2>2, <2>4, <2>5, <2>6, EndRunsInv
  <2> QED BY <1>2, <2>7 DEF Terminate, told, gone
<1> QED BY <1>1, <1>2

\* Cancelling a subtree (request_cancel) keeps the invariant.
LEMMA CancelTreeInv ==
    ASSUME NEW d \in Tables, Inv(d), NEW r \in Run
    PROVE  Inv(CancelTree(d, r))
<1> DEFINE tree == Closure(d, {r}, Run)
           told == FlagRunning(d, tree)
           gone == tree \cap InState(d, Asleep)
<1>1. tree \subseteq Run /\ \A c \in Run : d.parent[c] \in tree => c \in tree
  BY ClosureFacts, ClosureRuns
<1>2. told \in Tables /\ Inv(told)
  BY FlagRunningType, FlagRunningInv
<1>3. /\ told.status = d.status /\ told.parent = d.parent
      /\ told.cancel = d.cancel \cup (tree \cap InState(d, {"running"}))
  BY FlagRunningFields
<1> HIDE DEF told, tree
<1>4. \A x \in gone : told.status[x] \in Live
  BY <1>3 DEF InState, Live
<1>5. \A c \in Run \ gone :
          told.status[c] \in Live /\ told.parent[c] \in gone => c \in told.cancel
  BY <1>1, <1>3 DEF InState, Live
<1>6. gone \in SUBSET Run /\ {} \in SUBSET gone /\ "cancelled" \in Ended
  BY <1>1 DEF Ended
<1> HIDE DEF gone
<1>7. Inv(EndRuns(told, gone, {}, "cancelled"))
  BY <1>2, <1>4, <1>5, <1>6, EndRunsInv
<1> QED BY <1>7 DEF CancelTree, told, tree, gone

\* Claiming and reclaiming runs keep the invariant.
LEMMA ClaimInv ==
    ASSUME NEW d \in Tables, Inv(d), NEW R, \A r \in R : d.status[r] \in Live
    PROVE  Inv(Claim(d, R)) /\ Inv(Reclaim(d, R))
<1>1. ASSUME NEW e, NEW to \in {"pending", "running"},
             e = [d EXCEPT !.status = [r \in Run |-> IF r \in R THEN to ELSE @[r]]]
      PROVE  Inv(e)
  <2>1. /\ e.parent = d.parent /\ e.cancel = d.cancel /\ e.buffer = d.buffer
        /\ e.read = d.read /\ e.wake = d.wake
        /\ \A r \in Run : e.status[r] = IF r \in R THEN to ELSE d.status[r]
    BY <1>1 DEF Tables
  <2> QED BY <2>1, MovesInv
<1> QED BY <1>1 DEF Claim, Reclaim

\* A run nobody asked to stop may go to sleep on signals it has not got.
LEMMA FallAsleepInv ==
    ASSUME NEW d \in Tables, Inv(d), NEW r \in Run, d.status[r] = "running",
           r \notin d.cancel, NEW names \in SUBSET Signals, NEW timed \in BOOLEAN,
           \A n \in names : d.buffer[r][n] = 0
    PROVE  Inv(FallAsleep(d, r, names, timed))
<1> DEFINE e == FallAsleep(d, r, names, timed)
<1>1. /\ e.parent = d.parent /\ e.cancel = d.cancel /\ e.buffer = d.buffer
      /\ e.read = d.read
      /\ \A x \in Run : /\ e.status[x] = IF x = r THEN "suspended" ELSE d.status[x]
                        /\ e.wake[x] = IF x = r THEN names ELSE d.wake[x]
  BY DEF FallAsleep, Tables
<1> HIDE DEF e
<1>2. Inv(e)
  BY <1>1, MovesInv DEF Live
<1> QED BY <1>2 DEF e

\* A suspension keeps the invariant: it is granted only when nothing it waits for has
\* arrived (_suspend).
LEMMA SuspendInv ==
    ASSUME NEW d \in Tables, Inv(d), NEW r \in Run, d.status[r] = "running",
           r \notin d.cancel, NEW wakeup \in Wakeups(d, r)
    PROVE  Inv(Suspend(d, r, wakeup))
<1> DEFINE asleep == FallAsleep(d, r, wakeup.names, wakeup.timed)
           e      == MakePending(asleep, {r})
           ready  == wakeup.due \/ \E n \in wakeup.names : d.buffer[r][n] > 0
<1>1. wakeup.names \in SUBSET Signals /\ wakeup.timed \in BOOLEAN
  BY WakeupType
<1>2. CASE ~ready
  <2>1. \A n \in wakeup.names : d.buffer[r][n] = 0
    BY <1>1, <1>2 DEF Tables
  <2>2. Inv(asleep)
    BY <1>1, <2>1, FallAsleepInv
  <2> QED BY <1>2, <2>2 DEF Suspend
<1>3. CASE ready
  <2>1. asleep \in Tables
    BY <1>1, FallAsleepType
  <2>2. /\ asleep.parent = d.parent /\ asleep.cancel = d.cancel
        /\ asleep.buffer = d.buffer /\ asleep.read = d.read
        /\ \A x \in Run :
             /\ asleep.status[x] = IF x = r THEN "suspended" ELSE d.status[x]
             /\ x # r => asleep.wake[x] = d.wake[x]
    BY DEF FallAsleep, Tables
  <2> HIDE DEF asleep
  <2>3. /\ e.parent = asleep.parent /\ e.cancel = asleep.cancel
        /\ e.buffer = asleep.buffer /\ e.read = asleep.read
        /\ \A x \in Run :
             /\ e.status[x] = IF x \in {r} /\ asleep.status[x] = "suspended"
                              THEN "pending" ELSE asleep.status[x]
             /\ e.wake[x] = IF x \in {r} THEN {} ELSE asleep.wake[x]
    BY <2>1, MakePendingFields
  <2> HIDE DEF e
  <2>4. Inv(e)
    BY <2>2, <2>3, MovesInv DEF Live
  <2> QED BY <1>3, <2>4 DEF Suspend, asleep, e
<1> QED BY <1>2, <1>3

\* A retry of a run nobody asked to stop keeps the invariant.
LEMMA RetryInv ==
    ASSUME NEW d \in Tables, Inv(d), NEW r \in Run, d.status[r] = "running",
           r \notin d.cancel, d.retries[r] < MaxRetries
    PROVE  Inv(Retry(d, r))
<1> DEFINE e == [d EXCEPT !.retries[r] = @ + 1]
<1>1. e \in Tables
  BY RetriesType
<1>2. /\ e.status = d.status /\ e.parent = d.parent /\ e.wake = d.wake
      /\ e.cancel = d.cancel /\ e.buffer = d.buffer /\ e.read = d.read
  BY DEF Tables
<1> HIDE DEF e
<1>3. Inv(e)
  BY <1>2, MovesInv
<1>4. Inv(FallAsleep(e, r, {}, TRUE))
  BY <1>1, <1>2, <1>3, FallAsleepInv
<1> QED BY <1>4 DEF Retry, e

\* A new run keeps the invariant: it has no report yet, and its parent is running.
LEMMA InsertRunInv ==
    ASSUME NEW d \in Tables, Inv(d), NEW n \in Run, d.status[n] = "absent",
           NEW p \in Run \cup {NoRun}, p # NoRun => d.status[p] = "running"
    PROVE  Inv(InsertRun(d, n, p))
<1> DEFINE e == InsertRun(d, n, p)
<1>1. /\ e.cancel = d.cancel /\ e.buffer = d.buffer /\ e.read = d.read /\ e.wake = d.wake
      /\ \A r \in Run : /\ e.status[r] = IF r = n THEN "pending" ELSE d.status[r]
                        /\ e.parent[r] = IF r = n THEN p ELSE d.parent[r]
  BY DEF InsertRun, Tables
<1>2. /\ d.parent \in [Run -> Run \cup {NoRun}] /\ d.cancel \subseteq Run
      /\ d.read \subseteq Run /\ NoRun \notin Run
  BY IdAssumption DEF Tables
<1>3. d.parent[n] = NoRun /\ \A c \in Run : d.parent[c] # n
  BY <1>2 DEF Inv, ParentsExist
<1> HIDE DEF e
<1>4. SleepersAreUnanswered(e)
  BY <1>1 DEF Inv, SleepersAreUnanswered
<1>5. FlaggedAreAwake(e)
  BY <1>1, <1>2 DEF Inv, FlaggedAreAwake
<1>6. OrphansAreFlagged(e)
  BY <1>1, <1>2, <1>3 DEF Inv, OrphansAreFlagged, Live, Asleep
<1>7. ReportsOnce(e)
  <2> SUFFICES ASSUME NEW c \in Run, e.parent[c] # NoRun
               PROVE  /\ e.status[c] \in Live => e.buffer[e.parent[c]][c] = 0 /\ c \notin e.read
                      /\ e.status[c] \in Ended /\ e.status[e.parent[c]] \in Live
                           => e.buffer[e.parent[c]][c] = IF c \in e.read THEN 0 ELSE 1
    BY DEF ReportsOnce
  <2>1. CASE c = n
    <3>1. p \in Run /\ d.buffer[p][n] = 0 /\ n \notin d.read
      BY <1>1, <2>1 DEF Inv, ReportsAreReal, Ended
    <3> QED BY <1>1, <2>1, <3>1 DEF Ended
  <2>2. CASE c # n
    BY <1>1, <1>2, <1>3, <2>2 DEF Inv, ReportsOnce
  <2> QED BY <2>1, <2>2
<1>8. ReportsAreReal(e)
  BY <1>1, <1>2 DEF Inv, ReportsAreReal, Ended
<1>9. ParentsExist(e)
  BY <1>1, <1>2 DEF Inv, ParentsExist
<1>10. EndedAreDeaf(e)
  BY <1>1 DEF Inv, EndedAreDeaf, Ended
<1> QED BY <1>4, <1>5, <1>6, <1>7, <1>8, <1>9, <1>10 DEF Inv, e

\* A signal that is nobody's report, sent to a live run.
LEMMA SignalInv ==
    ASSUME NEW d \in Tables, Inv(d), NEW r \in Run, NEW n \in Name, d.status[r] \in Live
    PROVE  Inv(Signal(d, r, n))
<1> DEFINE kept == [d EXCEPT !.buffer[r][n] = @ + 1]
           e    == MakePending(kept, {r})
<1>1. n \in Signals /\ n \notin Run /\ Run \subseteq Signals
  BY IdAssumption DEF Signals
<1>2. /\ kept.status = d.status /\ kept.parent = d.parent /\ kept.wake = d.wake
      /\ kept.cancel = d.cancel /\ kept.read = d.read
      /\ \A x \in Run, m \in Signals : ~(x = r /\ m = n) => kept.buffer[x][m] = d.buffer[x][m]
  BY <1>1 DEF Tables
<1>3. kept \in Tables
  <2>1. d.buffer[r][n] + 1 \in Nat
    BY <1>1 DEF Tables
  <2> QED BY <1>1, <2>1, BufferType
<1>4. /\ d.parent \in [Run -> Run \cup {NoRun}] /\ d.wake \in [Run -> SUBSET Signals]
      /\ NoRun \notin Run
  BY IdAssumption DEF Tables
<1> HIDE DEF kept
<1>5. /\ FlaggedAreAwake(kept) /\ OrphansAreFlagged(kept) /\ ParentsExist(kept)
      /\ ReportsOnce(kept) /\ ReportsAreReal(kept)
  BY <1>1, <1>2, <1>4
     DEF Inv, FlaggedAreAwake, OrphansAreFlagged, ParentsExist, ReportsOnce, ReportsAreReal
<1>6. EndedAreDeaf(kept)
  BY <1>2 DEF Inv, EndedAreDeaf, Ended, Live, Asleep
<1>7. CASE ~(d.status[r] = "suspended" /\ n \in d.wake[r])
  <2>1. SleepersAreUnanswered(kept)
    BY <1>2, <1>4, <1>7 DEF Inv, SleepersAreUnanswered
  <2> QED BY <1>5, <1>6, <1>7, <2>1 DEF Signal, Inv, kept
<1>8. CASE d.status[r] = "suspended" /\ n \in d.wake[r]
  <2>1. /\ e.parent = kept.parent /\ e.cancel = kept.cancel
        /\ e.buffer = kept.buffer /\ e.read = kept.read
        /\ \A x \in Run :
             /\ e.status[x] = IF x \in {r} /\ kept.status[x] = "suspended"
                              THEN "pending" ELSE kept.status[x]
             /\ e.wake[x] = IF x \in {r} THEN {} ELSE kept.wake[x]
    BY <1>3, MakePendingFields
  <2> HIDE DEF e
  <2>2. SleepersAreUnanswered(e)
    BY <1>2, <1>4, <1>8, <2>1 DEF Inv, SleepersAreUnanswered
  <2>3. FlaggedAreAwake(e)
    BY <1>3, <1>5, <2>1 DEF FlaggedAreAwake, Tables
  <2>4. /\ OrphansAreFlagged(e) /\ ParentsExist(e) /\ ReportsOnce(e) /\ ReportsAreReal(e)
        /\ EndedAreDeaf(e)
    <3>1. \A x \in Run : /\ kept.status[x] \in Live <=> e.status[x] \in Live
                         /\ kept.status[x] \in Ended <=> e.status[x] \in Ended
                         /\ \A s \in {"absent", "failed", "cancelled"} :
                              kept.status[x] = s <=> e.status[x] = s
      BY <2>1 DEF Live, Asleep, Ended
    <3>2. kept.parent \in [Run -> Run \cup {NoRun}]
      BY <1>2, <1>4
    <3>3. OrphansAreFlagged(e)
      BY <1>5, <2>1, <3>1, <3>2 DEF OrphansAreFlagged
    <3>4. ParentsExist(e)
      BY <1>5, <2>1, <3>1, <3>2 DEF ParentsExist
    <3>5. ReportsOnce(e)
      BY <1>5, <2>1, <3>1, <3>2 DEF ReportsOnce
    <3>6. ReportsAreReal(e)
      BY <1>3, <1>5, <2>1, <3>1, <3>2 DEF ReportsAreReal, Tables
    <3>7. EndedAreDeaf(e)
      BY <1>6, <2>1, <3>1 DEF EndedAreDeaf
    <3> QED BY <3>3, <3>4, <3>5, <3>6, <3>7
  <2> QED BY <1>8, <2>2, <2>3, <2>4 DEF Signal, Inv, kept, e
<1> QED BY <1>7, <1>8

\* Reading a signal (consume) keeps the invariant, whoever calls it: a report leaves
\* the buffer for the claims.
LEMMA ConsumeInv ==
    ASSUME db \in Tables, Inv(db), NEW r \in Run, NEW n \in Signals, Consume(r, n)
    PROVE  Inv(db')
<1>1. /\ db'.status = db.status /\ db'.parent = db.parent /\ db'.wake = db.wake
      /\ db'.cancel = db.cancel /\ db'.read = db.read \cup ({n} \cap Run)
      /\ \A x \in Run, m \in Signals :
           db'.buffer[x][m] = IF x = r /\ m = n THEN db.buffer[x][m] - 1 ELSE db.buffer[x][m]
  BY DEF Consume, Tables
<1>2. /\ db.parent \in [Run -> Run \cup {NoRun}] /\ db.wake \in [Run -> SUBSET Signals]
      /\ \A x \in Run, m \in Signals : db.buffer[x][m] \in Nat
      /\ NoRun \notin Run /\ Run \subseteq Signals /\ db.read \subseteq Run
      /\ db.buffer[r][n] > 0
  BY IdAssumption DEF Tables, Signals, Consume
<1>3. SleepersAreUnanswered(db')
  <2> SUFFICES ASSUME NEW x \in Run, db'.status[x] = "suspended", NEW m \in db'.wake[x]
               PROVE  db'.buffer[x][m] = 0
    BY DEF SleepersAreUnanswered
  <2>1. db.buffer[x][m] = 0 /\ m \in Signals
    BY <1>1, <1>2 DEF Inv, SleepersAreUnanswered
  <2> QED BY <1>1, <1>2, <2>1
<1>4. FlaggedAreAwake(db') /\ OrphansAreFlagged(db') /\ ParentsExist(db')
  BY <1>1 DEF Inv, FlaggedAreAwake, OrphansAreFlagged, ParentsExist
<1>5. n \in Run => db.parent[n] = r /\ db.status[n] \in Ended
  BY <1>2 DEF Inv, ReportsAreReal
<1>6. ReportsAreReal(db')
  BY <1>1, <1>2, <1>5 DEF Inv, ReportsAreReal
<1>7. ReportsOnce(db')
  <2> SUFFICES ASSUME NEW c \in Run, db.parent[c] # NoRun
               PROVE  /\ db.status[c] \in Live
                           => db'.buffer[db.parent[c]][c] = 0 /\ c \notin db'.read
                      /\ db.status[c] \in Ended /\ db.status[db.parent[c]] \in Live
                           => db'.buffer[db.parent[c]][c] = IF c \in db'.read THEN 0 ELSE 1
    BY <1>1 DEF ReportsOnce
  <2>1. /\ db.status[c] \in Live => db.buffer[db.parent[c]][c] = 0 /\ c \notin db.read
        /\ db.status[c] \in Ended /\ db.status[db.parent[c]] \in Live
             => db.buffer[db.parent[c]][c] = IF c \in db.read THEN 0 ELSE 1
    BY DEF Inv, ReportsOnce
  <2>2. CASE c = n
    <3>1. db.status[c] \notin Live
      BY <1>5, <2>2 DEF Live, Asleep, Ended
    <3> QED BY <1>1, <1>2, <1>5, <2>1, <2>2, <3>1
  <2>3. CASE c # n
    BY <1>1, <1>2, <2>1, <2>3
  <2> QED BY <2>2, <2>3
<1>8. EndedAreDeaf(db')
  BY <1>1, <1>2 DEF Inv, EndedAreDeaf
<1> QED BY <1>3, <1>4, <1>6, <1>7, <1>8 DEF Inv

\* A whole poll of a worker keeps the invariant.
LEMMA LeaseInv ==
    ASSUME db \in Tables, Inv(db), Lease
    PROVE  Inv(db')
<1>1. PICK expired \in SUBSET InState(db, {"running"}),
           due \in SUBSET (db.timer \cap InState(db, {"suspended"})) :
        LET timed == MakePending(Reclaim(db, expired), due)
        IN  \E overdue \in SUBSET (Dated \cap InState(timed, Asleep)) :
              LET failed == Terminate(timed, overdue, "failed")
              IN  \E claimed \in SUBSET InState(failed, {"pending"}) :
                    db' = Claim(failed, claimed)
  BY DEF Lease
<1> DEFINE timed == MakePending(Reclaim(db, expired), due)
<1>2. timed \in Tables /\ Inv(timed)
  <2>1. Reclaim(db, expired) \in Tables
    BY ClaimType
  <2>2. Inv(Reclaim(db, expired))
    BY ClaimInv DEF InState, Live
  <2>3. due \in SUBSET Run
    BY DEF InState
  <2> QED BY <2>1, <2>2, <2>3, MakePendingType, MakePendingInv
<1>3. PICK overdue \in SUBSET (Dated \cap InState(timed, Asleep)) :
        LET failed == Terminate(timed, overdue, "failed")
        IN  \E claimed \in SUBSET InState(failed, {"pending"}) :
              db' = Claim(failed, claimed)
  BY <1>1
<1> HIDE DEF timed
<1> DEFINE failed == Terminate(timed, overdue, "failed")
<1>4. failed \in Tables /\ Inv(failed)
  <2>1. overdue \in SUBSET Run /\ "failed" \in Ended
    BY IdAssumption DEF Ended
  <2>2. \A r \in overdue : timed.status[r] \in Live
    BY DEF InState, Live
  <2> QED BY <1>2, <2>1, <2>2, TerminateType, TerminateInv
<1>5. PICK claimed \in SUBSET InState(failed, {"pending"}) : db' = Claim(failed, claimed)
  BY <1>3
<1>6. \A r \in claimed : failed.status[r] \in Live
  BY DEF InState, Live, Asleep
<1> HIDE DEF failed
<1> QED BY <1>4, <1>5, <1>6, ClaimInv

\* The invariant holds of the empty database.
LEMMA InitInv == Init => Inv(db)
BY DEF Init, Inv, SleepersAreUnanswered, FlaggedAreAwake, OrphansAreFlagged,
       ReportsOnce, ReportsAreReal, ParentsExist, EndedAreDeaf, Signals, Live, Asleep, Ended

\* Every action keeps the invariant.
LEMMA NextInv == TypeOK /\ Inv(db) /\ [Next]_db => Inv(db)'
<1> SUFFICES ASSUME db \in Tables, Inv(db), [Next]_db
             PROVE  Inv(db')
  BY DEF TypeOK
<1>1. CASE Lease
  BY <1>1, LeaseInv
<1>2. ASSUME NEW r \in Run, CreateRun(r)
      PROVE  Inv(db')
  BY <1>2, InsertRunInv DEF CreateRun
<1>3. ASSUME NEW r \in Run, WakeByDelivery(r)
      PROVE  Inv(db')
  BY <1>3, MakePendingInv DEF WakeByDelivery
<1>4. \A r \in Run, outcome \in Ended :
          db.status[r] = "running" => Inv(Terminate(db, {r}, outcome))
  BY TerminateInv DEF Live
<1>5. ASSUME NEW r \in Run, Complete(r) \/ Fail(r) \/ Cancel(r)
      PROVE  Inv(db')
  BY <1>4, <1>5 DEF Complete, Fail, Cancel, Ended
<1>6. ASSUME NEW r \in Run, NEW n \in Run, CompleteAndFollowUp(r, n)
      PROVE  Inv(db')
  <2> DEFINE e == Terminate(db, {r}, "completed")
  <2>1. e \in Tables /\ Inv(e)
    BY <1>4, <1>6, TerminateType DEF CompleteAndFollowUp, Ended
  <2>2. e.status[n] = "absent"
    <3>1. e = EndRuns(db, {r}, {r}, "completed")
      BY DEF Terminate
    <3>2. Ending(db, {r}, {r}, "completed", e)
      BY <3>1, EndRunsFields DEF Ended
    <3> QED BY <1>6, <3>2 DEF CompleteAndFollowUp, Ending
  <2> HIDE DEF e
  <2>3. Inv(InsertRun(e, n, NoRun))
    BY <2>1, <2>2, InsertRunInv
  <2> QED BY <1>6, <2>3 DEF CompleteAndFollowUp, e
<1>7. ASSUME NEW r \in Run, NEW wakeup \in Wakeups(db, r), GoToSleep(r, wakeup)
      PROVE  Inv(db')
  BY <1>4, <1>7, SuspendInv DEF GoToSleep, Ended
<1>8. ASSUME NEW r \in Run, RetryLater(r)
      PROVE  Inv(db')
  BY <1>4, <1>8, RetryInv DEF RetryLater, Ended
<1>9. ASSUME NEW r \in Run, NEW c \in Run, Spawn(r, c)
      PROVE  Inv(db')
  BY <1>9, InsertRunInv DEF Spawn
<1>10. ASSUME NEW r \in Run, NEW n \in Signals, Consume(r, n)
       PROVE  Inv(db')
  BY <1>10, ConsumeInv
<1>11. ASSUME NEW r \in Run, NEW n \in Name, SendSignal(r, n)
       PROVE  Inv(db')
  BY <1>11, SignalInv DEF SendSignal
<1>12. ASSUME NEW r \in Run, RequestCancel(r)
       PROVE  Inv(db')
  BY <1>12, CancelTreeInv DEF RequestCancel
<1>13. CASE UNCHANGED db
  BY <1>13
<1> QED BY <1>1, <1>2, <1>3, <1>5, <1>6, <1>7, <1>8, <1>9, <1>10, <1>11, <1>12,
           <1>13 DEF Next

\* The invariant holds in every reachable state.
LEMMA InvariantHolds == Spec => [](TypeOK /\ Inv(db))
<1>1. Init => TypeOK /\ Inv(db)
  BY InitType, InitInv
<1>2. TypeOK /\ Inv(db) /\ [Next]_db => (TypeOK /\ Inv(db))'
  BY NextType, NextInv
<1> QED BY <1>1, <1>2, PTL DEF Spec

\* No run sleeps while a signal it waits for is in its buffer: _suspend checks what has
\* arrived and _signal whether the run sleeps, in whichever order they come.
THEOREM WakeupsAreNotLost == Spec => []NoLostWakeup
<1>1. Inv(db) => NoLostWakeup
  BY DEF Inv, NoLostWakeup
<1> QED BY <1>1, InvariantHolds, PTL

\* A child's end reaches its parent once, whatever mix of commits, deadlines, cascades
\* and cancel requests ends runs (_terminate).
THEOREM ChildrenReportOnce == Spec => []ReportedOnce
<1>1. Inv(db) => ReportedOnce
  BY DEF Inv, ReportedOnce
<1> QED BY <1>1, InvariantHolds, PTL

\* A run that outlives a failed or cancelled parent has been asked to stop: the cascade
\* of _terminate and request_cancel leave nobody out.
THEOREM OrphansAreStopped == Spec => []OrphansAreStopping
<1>1. Inv(db) => OrphansAreStopping
  BY DEF Inv, OrphansAreStopping
<1> QED BY <1>1, InvariantHolds, PTL

\* A run asked to stop never sleeps and never waits to be retried: commit turns its
\* Suspend and its Retry into a Cancel.
THEOREM CancelIsNotSleptThrough == Spec => []FlaggedNeverSleeps
<1>1. Inv(db) => FlaggedNeverSleeps
  BY DEF Inv, FlaggedNeverSleeps
<1> QED BY <1>1, InvariantHolds, PTL
=============================================================================
